----------------------------- MODULE SkillStore -----------------------------
(***************************************************************************)
(* The directory of one skill in the two places where skills are kept, the *)
(* user's and the repository's (src/skills/storage*.rs, capture.rs,        *)
(* retrieve.rs, src/web/api_skills.rs).                                    *)
(*                                                                         *)
(* A skill is written file after file, by a task that a run leaves behind  *)
(* when its review passed, and it is read file after file, by another run  *)
(* that looks for a plan or by the request that promotes it.  The lock in  *)
(* LocalSkillStorage excludes nobody: each capture makes a storage of its  *)
(* own.  Two files stand for five: trigger.md, written first and readable  *)
(* at any length, and graph.json, which must be whole to be parsed.        *)
(***************************************************************************)
EXTENDS Naturals

CONSTANT Captures      (* runs whose review passed and that chose this slug *)

ASSUME SkillAssumption == Captures \cap {"promote", "approved", "absent", "partial"} = {}

Roots == {"local", "repo"}
Versions == Captures \cup {"approved"}
Content == Versions \cup {"absent", "partial"}
Readers == {"plan", "promote"}
Writers == Captures \cup {"promote"}

VARIABLES
  made,       (* roots where the skill's directory exists                   *)
  trigger,    (* per root: whose text is in trigger.md                      *)
  flow,       (* per root: whose graph is in graph.json                     *)
  saving,     (* per writer: where in save_skill_at it is                   *)
  deleting,   (* where in delete_skill_at a request is                      *)
  loading,    (* per reader: where in CompositeSkillStorage::load it is     *)
  found,      (* per reader: [flow, trigger] read so far                    *)
  disturbed   (* history: a save was left, or something overlapped with it  *)

directories == <<made, trigger, flow>>
readers == <<loading, found>>
store == <<directories, saving, deleting, readers, disturbed>>

Nothing == [flow |-> "absent", trigger |-> "absent"]
Root(w) == IF w = "promote" THEN "repo" ELSE "local"
Version(w) == IF w = "promote" THEN found[w] ELSE [flow |-> w, trigger |-> w]

Saves(w) == saving[w] \notin {"before", "after"}
Loads(r) == loading[r] \notin {"before", "after"}
Deletes == deleting \in Roots
Busy == Deletes \/ \E w \in Writers : Saves(w)

----------------------------------------------------------------------------
(* capture_inner, promote_skill and save_skill_at.  Slug and trigger come  *)
(* from a model; without them nothing is saved.                            *)
SaveTo(w, place) == saving' = [saving EXCEPT ![w] = place]

MakeDir(w) ==
  /\ saving[w] = "before"
  /\ w = "promote" => loading[w] = "after" /\ found[w] # Nothing
  /\ SaveTo(w, "dir")
  /\ made' = made \cup {Root(w)}
  /\ disturbed' = (disturbed \/ Busy \/ \E r \in Readers : Loads(r))
  /\ UNCHANGED <<trigger, flow, deleting, readers>>

WriteTrigger(w) ==
  /\ saving[w] = "dir" /\ Root(w) \in made
  /\ SaveTo(w, "trigger")
  /\ trigger' = [trigger EXCEPT ![Root(w)] = Version(w).trigger]
  /\ UNCHANGED <<made, flow, deleting, readers, disturbed>>

(* Mutant: a graph that is there is kept. *)
OpenFlowUnlessThere(w) ==
  /\ saving[w] = "trigger" /\ Root(w) \in made
  /\ SaveTo(w, IF flow[Root(w)] = "absent" THEN "flow" ELSE "after")
  /\ flow' = [flow EXCEPT ![Root(w)] = IF @ = "absent" THEN "partial" ELSE @]
  /\ UNCHANGED <<made, trigger, deleting, readers, disturbed>>

OpenFlow(w) ==
  /\ saving[w] = "trigger" /\ Root(w) \in made
  /\ SaveTo(w, "flow")
  /\ flow' = [flow EXCEPT ![Root(w)] = "partial"]
  /\ UNCHANGED <<made, trigger, deleting, readers, disturbed>>

(* The file may be gone, and another writer's text may stick out.          *)
WriteFlow(w) ==
  /\ saving[w] = "flow"
  /\ SaveTo(w, "after")
  /\ \E text \in CASE flow[Root(w)] = "absent" -> {"absent"}
                   [] flow[Root(w)] = "partial" -> {Version(w).flow}
                   [] OTHER -> {Version(w).flow, "partial"} :
       flow' = [flow EXCEPT ![Root(w)] = text]
  /\ UNCHANGED <<made, trigger, deleting, readers, disturbed>>

(* A model call or a system call fails, or the process dies. *)
SaveFails(w) ==
  /\ saving[w] # "after"
  /\ w = "promote" => loading[w] = "after" /\ found[w] # Nothing
  /\ SaveTo(w, "after")
  /\ disturbed' = (disturbed \/ saving[w] # "before")
  /\ UNCHANGED <<directories, deleting, readers>>

Save(w) == MakeDir(w) \/ WriteTrigger(w) \/ OpenFlow(w) \/ WriteFlow(w)

----------------------------------------------------------------------------
(* delete_skill_at: remove_dir_all under one root, then under the other.   *)
AfterRoot == IF deleting = "local" THEN "repo" ELSE "after"

StartDelete ==
  /\ deleting = "before"
  /\ deleting' = "local"
  /\ disturbed' = (disturbed \/ Busy \/ \E r \in Readers : Loads(r))
  /\ UNCHANGED <<directories, saving, readers>>

Unlink ==
  /\ Deletes
  /\ \/ /\ trigger[deleting] # "absent"
        /\ trigger' = [trigger EXCEPT ![deleting] = "absent"] /\ UNCHANGED flow
     \/ /\ flow[deleting] # "absent"
        /\ flow' = [flow EXCEPT ![deleting] = "absent"] /\ UNCHANGED trigger
  /\ UNCHANGED <<made, saving, deleting, readers, disturbed>>

(* The directory stays where a file was made meanwhile. *)
RemoveDir ==
  /\ Deletes
  /\ \/ trigger[deleting] = "absent" /\ flow[deleting] = "absent" /\ made' = made \ {deleting}
     \/ (\E w \in Writers : Saves(w)) /\ UNCHANGED made
  /\ deleting' = AfterRoot
  /\ UNCHANGED <<trigger, flow, saving, readers, disturbed>>

DeleteSkill == StartDelete \/ Unlink \/ RemoveDir

----------------------------------------------------------------------------
(* CompositeSkillStorage::load: the user's copy, or else the approved one. *)
(* load_skill_at reads graph.json first.                                   *)
LoadAt(r, place) == loading' = [loading EXCEPT ![r] = place]
RootRead(r) == IF loading[r] \in {"local", "local trigger"} THEN "local" ELSE "repo"

(* find_matching_skills: what list() shows, when its text is near enough.  *)
Listed == \E root \in made : trigger[root] # "absent"

StartLoad(r) ==
  /\ loading[r] = "before"
  /\ r = "plan" => Listed
  /\ LoadAt(r, "local")
  /\ disturbed' = (disturbed \/ Busy)
  /\ UNCHANGED <<directories, saving, deleting, found>>

ReadFlow(r) ==
  /\ loading[r] \in Roots
  /\ RootRead(r) \in made /\ flow[RootRead(r)] \in Versions
  /\ LoadAt(r, IF loading[r] = "local" THEN "local trigger" ELSE "repo trigger")
  /\ found' = [found EXCEPT ![r].flow = flow[RootRead(r)]]
  /\ UNCHANGED <<directories, saving, deleting, disturbed>>

Loaded(r, skill) ==
  /\ LoadAt(r, "after")
  /\ found' = [found EXCEPT ![r] = skill]

ReadTrigger(r) ==
  /\ loading[r] \in {"local trigger", "repo trigger"}
  /\ trigger[RootRead(r)] # "absent"
  /\ Loaded(r, [found[r] EXCEPT !.trigger = trigger[RootRead(r)]])
  /\ UNCHANGED <<directories, saving, deleting, disturbed>>

Unreadable(r) ==
  \/ loading[r] \in Roots /\ flow[RootRead(r)] \notin Versions
  \/ loading[r] \in {"local trigger", "repo trigger"} /\ trigger[RootRead(r)] = "absent"

(* Mutant: the list said the skill is local. *)
FallBackNever(r) ==
  /\ Unreadable(r)
  /\ Loaded(r, Nothing)
  /\ UNCHANGED <<directories, saving, deleting, disturbed>>

FallBack(r) ==
  /\ Unreadable(r)
  /\ IF RootRead(r) = "local"
     THEN LoadAt(r, "repo") /\ found' = [found EXCEPT ![r] = Nothing]
     ELSE Loaded(r, Nothing)
  /\ UNCHANGED <<directories, saving, deleting, disturbed>>

Load(r) == ReadFlow(r) \/ ReadTrigger(r) \/ FallBack(r)

----------------------------------------------------------------------------
SkillInit ==
  /\ trigger \in [Roots -> {"absent", "approved"}]
  /\ trigger["local"] = "absent" /\ flow = trigger
  /\ made = {r \in Roots : trigger[r] # "absent"}
  /\ saving = [w \in Writers |-> "before"] /\ deleting = "before"
  /\ loading = [r \in Readers |-> "before"] /\ found = [r \in Readers |-> Nothing]
  /\ disturbed = FALSE

SkillNext ==
  \/ \E w \in Writers : Save(w) \/ SaveFails(w)
  \/ DeleteSkill
  \/ \E r \in Readers : StartLoad(r) \/ Load(r)

SkillSpec == SkillInit /\ [][SkillNext]_store

----------------------------------------------------------------------------
SkillTypeOK ==
  /\ made \subseteq Roots
  /\ trigger \in [Roots -> Content] /\ flow \in [Roots -> Content]
  /\ saving \in [Writers -> {"before", "dir", "trigger", "flow", "after"}]
  /\ deleting \in Roots \cup {"before", "after"}
  /\ loading \in [Readers -> Roots \cup {"before", "local trigger", "repo trigger", "after"}]
  /\ found \in [Readers -> [flow : Content, trigger : Content]]
  /\ disturbed \in BOOLEAN

(* A skill that is loaded has its text and its graph from one run, except  *)
(* after a save that failed half way or where reading, saving, promoting   *)
(* and deleting overlapped: captures that replace a skill, a copy over the *)
(* approved one and the fallback to it mix nothing.                        *)
SkillsAreWhole ==
  \A r \in Readers : loading[r] = "after" /\ ~disturbed => found[r].flow = found[r].trigger

(* An approved skill that nobody replaces or deletes is loaded, whatever   *)
(* has become of the user's copy, which is looked at first: half written,  *)
(* left so by a failure, or replaced while it is read.                     *)
ApprovedNeverHidden ==
  flow["repo"] = "approved" /\ deleting = "before" /\ saving["promote"] = "before" =>
    \A r \in Readers : loading[r] = "after" => found[r] # Nothing
============================================================================
