------------------------------- MODULE Replan -------------------------------
(***************************************************************************)
(* The life of a world graph between its verification and the review of    *)
(* what was done with it: the orphan gate, the verifier and its local      *)
(* repairs, a Task phase that blames nodes, their redesign, the cascade    *)
(* over their predecessors, the reviewer (src/agent/graph_loop.rs,         *)
(* verifier.rs, cascade.rs, reviewer.rs, validator.rs).                    *)
(*                                                                         *)
(* All of it runs in one task, the run's driver; the steps are the places  *)
(* where it calls a model or where another component is entered.  The      *)
(* graph is cut down to ids and edges without positions: WorldGraph has    *)
(* the edge list, GraphLoop the rounds, Dispatch the Task phase.  Seeding, *)
(* L1 texts and the GraphSchema of heartbeat runs are left out.            *)
(***************************************************************************)
EXTENDS CycleSearch, FiniteSets, SequencesExt

CONSTANTS
  AnchorLike,    (* ids the Graph phase makes immutable                     *)
  Seeds,         (* graphs to start from                                    *)
  Patches,       (* what a model or the user may propose                    *)
  MaxRepairs,    (* GraphLoopConfig::max_repair_rounds                      *)
  MaxDepth,      (* CascadeBacktracker::max_depth                           *)
  MaxPatches     (* bound: patches that change something, in all            *)

Relation == {"LeadsTo", "DependsOn", "Contains"}
AcyclicRelations == <<"DependsOn", "Contains">>
Link == [from : Ids, to : Ids, rel : Relation]
(* mark: the nodes a patch itself says are immutable.                      *)
Patch == [add : SUBSET Ids, mark : SUBSET Ids, link : SUBSET Link, cut : SUBSET Link,
          gone : SUBSET Ids]
NoPatch == [add |-> {}, mark |-> {}, link |-> {}, cut |-> {}, gone |-> {}]

ASSUME ReplanAssumption ==
  /\ IsFiniteSet(Ids) /\ AnchorLike \subseteq Ids
  /\ Seeds \subseteq [nodes : SUBSET Ids, fixed : SUBSET Ids, links : SUBSET Link]
  /\ \A g \in Seeds : g.fixed \subseteq g.nodes
  /\ Patches \subseteq Patch
  /\ MaxRepairs \in Nat /\ MaxDepth \in Nat \ {0} /\ MaxPatches \in Nat

VARIABLES
  links,      (* Graph::edges                                               *)
  fixed,      (* the nodes that are immutable                               *)
  at,         (* where the driver is; "crashed" when its task has panicked  *)
  remaining,  (* relations find_inconsistencies has still to search         *)
  faulty,     (* nodes of the first cycle it found                          *)
  attempts,   (* local repairs tried in this verification                   *)
  errors,     (* graph errors still to handle, each by its first node       *)
  walk,       (* backtrack_recursive: per call the node, and what is left   *)
  kept, stale,   (* preserved and needs_reexec of the CascadeResult         *)
  broken,     (* needs_repair                                               *)
  cut,        (* history: the depth limit left something out                *)
  patched,    (* patches so far                                             *)
  mended      (* history: a local repair changed the graph it verifies      *)

graph   == <<nodes, links, fixed>>
inspect == <<arcs, search, remaining, faulty>>
cascade == <<walk, kept, stale, broken, cut>>
loop    == <<at, attempts, errors, patched, mended>>
vars == <<graph, inspect, cascade, loop>>

----------------------------------------------------------------------------
(* Graph::apply_patch.  Edges are added in turn and the first that is      *)
(* refused ends it, with everything before it left in the graph.           *)
Fits(l, held, present) ==
  /\ l.from \in present /\ l.to \in present
  /\ l.rel = "Contains" =>
       \A k \in held : k.rel = "Contains" /\ k.to = l.to => k.from = l.from

Accepts(p) ==
  \A l \in p.link : Fits(l, links \cup (p.link \ {l}), nodes \cup p.add)

Apply(p, anchors) ==
  LET immutable == p.add \cap (p.mark \cup anchors) IN
  /\ IF Accepts(p)
     THEN /\ nodes' = (nodes \cup p.add) \ p.gone
          /\ links' = (links \cup p.link) \ p.cut
          /\ fixed' = ((fixed \ p.add) \cup immutable) \ p.gone
     ELSE /\ nodes' = nodes \cup p.add
          /\ \E part \in SUBSET p.link :
               /\ part # p.link
               /\ \A l \in part : Fits(l, links \cup part, nodes')
               /\ links' = links \cup part
          /\ fixed' = (fixed \ p.add) \cup immutable
  /\ patched' = IF p = NoPatch THEN patched ELSE patched + 1

Proposable == IF patched < MaxPatches THEN Patches \ {NoPatch} ELSE {}
PerhapsNone == Proposable \cup {NoPatch}

----------------------------------------------------------------------------
(* replay_from_anchor.  path_exists follows edges through ids that are no  *)
(* longer nodes; the anchor is whichever immutable node comes first.       *)
Reached(a, edges) ==
  LET hop[d \in 0..Cardinality(Ids)] ==
        IF d = 0 THEN {a}
        ELSE hop[d - 1] \cup {l.to : l \in {k \in edges : k.from \in hop[d - 1]}}
  IN  hop[Cardinality(Ids)]

Orphans(a) == nodes \ (fixed \cup Reached(a, links))
GateOpen == fixed = {} \/ \E a \in fixed : Orphans(a) = {}

Dangling == {i \in Ids \ nodes : \E l \in links : i \in {l.from, l.to}}

(* find_inconsistencies, of which verifier and reviewer heed these: edges  *)
(* that dangle, then a cycle in each of two relations.                     *)
ArcsOf(rel, of) == {<<l.from, l.to>> : l \in {k \in of : k.rel = rel}}

Inspect(of) ==
  /\ StartSearch(ArcsOf(Head(AcyclicRelations), of))
  /\ remaining' = Tail(AcyclicRelations) /\ faulty' = {}

Answered == result \in {"cyclic", "acyclic"}
FaultyNow == IF faulty = {} /\ result = "cyclic" THEN ToSet(cycle) ELSE faulty
Inspected == Answered /\ remaining = <<>>

(* Nothing of an inspection is kept. *)
PutAway ==
  /\ arcs' = {} /\ result' = "idle" /\ mark' = AllUnseen
  /\ stack' = <<>> /\ path' = <<>> /\ cycle' = <<>>
  /\ remaining' = <<>> /\ faulty' = {}

Consistent == Dangling = {} /\ FaultyNow = {}

SearchNode ==
  /\ SearchStep
  /\ UNCHANGED <<links, fixed, remaining, faulty, cascade, loop>>

SearchNextRelation ==
  /\ Answered /\ remaining # <<>>
  /\ StartSearch(ArcsOf(Head(remaining), links))
  /\ remaining' = Tail(remaining) /\ faulty' = FaultyNow
  /\ UNCHANGED <<graph, cascade, loop>>

(* A panic ends the driver's task. *)
SearchPanics ==
  /\ Panic
  /\ at' = "crashed"
  /\ UNCHANGED <<links, fixed, remaining, faulty, cascade, attempts, errors, patched, mended>>

----------------------------------------------------------------------------
(* The Graph phase. *)
GoTo(place) == at' = place /\ UNCHANGED <<attempts, errors, mended>>

ProposePatch(p) ==
  /\ at = "graph"
  /\ Apply(p, AnchorLike)
  /\ UNCHANGED <<inspect, cascade, at, attempts, errors, mended>>

(* run_verify_and_maybe_repair: a closed gate sends the model back.        *)
ReadyForVerify ==
  /\ at = "graph" /\ GateOpen
  /\ at' = "verify" /\ attempts' = 0 /\ mended' = FALSE
  /\ Inspect(links)
  /\ UNCHANGED <<graph, cascade, errors, patched>>

(* The call of the verifier's self-check fails.                            *)
VerifyErrs ==
  /\ at = "verify" /\ Inspected
  /\ GoTo("failed") /\ PutAway
  /\ UNCHANGED <<graph, cascade, patched>>

(* Mutant: a repair is taken to have worked. *)
VerifyPassesRepaired ==
  /\ at = "verify" /\ Inspected /\ (Consistent \/ attempts > 0)
  /\ GoTo("task") /\ PutAway
  /\ UNCHANGED <<graph, cascade, patched>>

VerifyPasses ==
  /\ at = "verify" /\ Inspected /\ Consistent
  /\ GoTo("task") /\ PutAway
  /\ UNCHANGED <<graph, cascade, patched>>

(* The first high issue gives the scope of the repair: those of the        *)
(* structure come first, one of the model's may name any nodes.            *)
StructuralScopes ==
  IF Dangling # {} THEN {{i} : i \in Dangling}
  ELSE IF FaultyNow # {} THEN {FaultyNow} ELSE {}

SelfCheckScopes == SUBSET Ids

Scopes == IF Consistent THEN SelfCheckScopes ELSE StructuralScopes

(* LocalRepairer::repair refuses a patch that goes beyond the scope and    *)
(* what is next to it.                                                     *)
Around(scope) ==
  IF scope = {} THEN nodes
  ELSE scope \cup {i \in nodes : \E l \in links : \/ l.from = i /\ l.to \in scope \cap nodes
                                                  \/ l.to = i /\ l.from \in scope \cap nodes}

InScope(p, scope) ==
  /\ p.gone \subseteq scope
  /\ \A l \in p.link \cup p.cut : {l.from, l.to} \subseteq Around(scope) \cup p.add

(* An issue whose text, ids included, speaks of a scope is taken for a     *)
(* missing region: the patch may only add, and goes where it likes.        *)
Extends(p) == p.gone = {} /\ p.cut = {}

Repairable == at = "verify" /\ Inspected /\ attempts < MaxRepairs

LocalRepair(p) ==
  /\ Repairable
  /\ Extends(p) \/ \E scope \in Scopes : InScope(p, scope)
  /\ Apply(p, {})
  /\ attempts' = attempts + 1
  /\ mended' = (mended \/ p # NoPatch)
  /\ Inspect(links')
  /\ UNCHANGED <<cascade, at, errors>>

(* A finding that a node's L1 text has drifted, which the self-check makes *)
(* or, where there is a loader, the sample of texts: the text is derived   *)
(* anew, the patch is empty.                                               *)
RepairDrift ==
  /\ Repairable /\ Consistent /\ nodes # {}
  /\ attempts' = attempts + 1
  /\ Inspect(links)
  /\ UNCHANGED <<graph, cascade, at, errors, patched, mended>>

Stalemate ==
  /\ at = "verify" /\ Inspected /\ attempts = MaxRepairs
  /\ GoTo("repair") /\ PutAway
  /\ UNCHANGED <<graph, cascade, patched>>

(* GraphInvalid: the user hands a graph back.                              *)
Repaired(p) ==
  /\ at = "repair"
  /\ Apply(p, {})
  /\ GoTo("graph")
  /\ UNCHANGED <<inspect, cascade>>

----------------------------------------------------------------------------
(* The Task phase: what the dispatcher came back with.                     *)
TaskFailed ==
  /\ at = "task" /\ GoTo("failed")
  /\ UNCHANGED <<graph, inspect, cascade, patched>>

(* Reported by sub-agents, which may name anything or nothing, or made for *)
(* tasks that failed and are steps of the world graph.                     *)
TaskBlames(ids) ==
  /\ at = "task" /\ at' = "replan" /\ errors' = ids
  /\ UNCHANGED <<graph, inspect, cascade, attempts, patched, mended>>

(* PostExecutionValidator::validate: a graph issue is surfaced, whatever   *)
(* else it says leads to the review.                                       *)
ValidatorObjects ==
  /\ at = "task" /\ GoTo("repair")
  /\ UNCHANGED <<graph, inspect, cascade, patched>>

EnterReview ==
  /\ at = "task" /\ GoTo("review")
  /\ Inspect(links)
  /\ UNCHANGED <<graph, cascade, patched>>

(* Reviewer::review.  The deterministic checks come first; two judges may  *)
(* object to what they let pass.                                           *)
ReviewEnds(place) ==
  /\ at = "review" /\ Inspected
  /\ GoTo(place) /\ PutAway
  /\ UNCHANGED <<graph, cascade, patched>>

ReviewPasses == Consistent /\ ReviewEnds("done")

(* The sub-agents' output does not look like an answer. *)
AnswerLacks == ReviewEnds("rejected")

(* A judge finds the work wanting, or a check failed and it names no cause. *)
JudgeRejects == ReviewEnds("rejected")

(* A judge finds the graph or its scope wanting. *)
JudgeBlamesGraph == ReviewEnds("repair")

(* Neither its first reply nor the one to the fix-it prompt can be read.   *)
ReviewErrs == ReviewEnds("failed")

----------------------------------------------------------------------------
(* handle_task_phase_graph_errors. *)
NoCascade == walk = <<>> /\ kept = {} /\ stale = {} /\ broken = <<>> /\ cut = FALSE

Predecessors(i) == {l.from : l \in {k \in links : k.to = i}} \cap nodes

Surface ==
  /\ at' = "repair" /\ errors' = <<>>
  /\ UNCHANGED <<attempts, mended>>

ReplanAnchor ==
  /\ at = "replan" /\ errors # <<>>
  /\ Head(errors) \in fixed
  /\ Surface
  /\ UNCHANGED <<graph, inspect, cascade, patched>>

(* The proposer's call fails. *)
ReplanErrs ==
  /\ at = "replan" /\ errors # <<>>
  /\ Head(errors) \notin fixed
  /\ Surface
  /\ UNCHANGED <<graph, inspect, cascade, patched>>

Frame(i) == [of |-> i, left |-> Predecessors(i)]

(* replan_failed_node: a reply that cannot be read, or is another step, is *)
(* an empty patch.                                                         *)
Redesigns == PerhapsNone

(* The cascade starts at the first node the patch adds.                    *)
Redesign(p) ==
  /\ at = "replan" /\ errors # <<>>
  /\ Head(errors) \notin fixed
  /\ Apply(p, {})
  /\ IF Accepts(p)
     THEN /\ at' = "cascade" /\ UNCHANGED <<attempts, errors, mended>>
          /\ \E start \in IF p.add = {} THEN {Head(errors)} ELSE p.add :
               walk' = IF start \in nodes' THEN <<Frame(start)'>> ELSE <<>>
          /\ UNCHANGED <<kept, stale, broken, cut>>
     ELSE Surface /\ UNCHANGED cascade
  /\ UNCHANGED inspect

Replanned ==
  /\ at = "replan" /\ errors = <<>>
  /\ GoTo("graph")
  /\ UNCHANGED <<graph, inspect, cascade, patched>>

(* CascadeBacktracker::backtrack_recursive. *)
Classified == kept \cup stale \cup ToSet(broken)

Taken(p) ==
  LET d == Len(walk) IN
  /\ at = "cascade" /\ walk # <<>>
  /\ p \in walk[d].left

Without(p) == [walk EXCEPT ![Len(walk)].left = @ \ {p}]

Skip(p) ==
  /\ Taken(p) /\ p \in fixed \cup Classified
  /\ walk' = Without(p)
  /\ UNCHANGED <<graph, inspect, kept, stale, broken, cut, loop>>

Asks(p) == Taken(p) /\ p \notin fixed \cup Classified

Preserved(p) ==
  /\ Asks(p)
  /\ walk' = Without(p) /\ kept' = kept \cup {p}
  /\ UNCHANGED <<graph, inspect, stale, broken, cut, loop>>

NeedsReexecution(p) ==
  /\ Asks(p)
  /\ walk' = Without(p) /\ stale' = stale \cup {p}
  /\ UNCHANGED <<graph, inspect, kept, broken, cut, loop>>

(* Mutant: what feeds the node is not looked at. *)
NeedsRepairFlat(p) ==
  /\ Asks(p)
  /\ broken' = Append(broken, p)
  /\ walk' = Without(p)
  /\ UNCHANGED <<graph, inspect, kept, stale, cut, loop>>

(* Recursion, unless it is too deep. *)
NeedsRepair(p) ==
  /\ Asks(p)
  /\ broken' = Append(broken, p)
  /\ IF Len(walk) < MaxDepth
     THEN walk' = Append(Without(p), Frame(p)) /\ UNCHANGED cut
     ELSE walk' = Without(p) /\ cut' = (cut \/ Predecessors(p) # {})
  /\ UNCHANGED <<graph, inspect, kept, stale, loop>>

Return ==
  /\ at = "cascade" /\ walk # <<>> /\ Last(walk).left = {}
  /\ walk' = Front(walk)
  /\ UNCHANGED <<graph, inspect, kept, stale, broken, cut, loop>>

ForgetCascade ==
  walk' = <<>> /\ kept' = {} /\ stale' = {} /\ broken' = <<>> /\ cut' = FALSE

(* A verdict cannot be had: the pass is given up, the next error is taken. *)
CascadeErrs ==
  /\ at = "cascade" /\ \E p \in nodes : Asks(p)
  /\ at' = "replan" /\ errors' = Tail(errors)
  /\ ForgetCascade
  /\ UNCHANGED <<graph, inspect, attempts, patched, mended>>

(* The first node that needs repair replaces all the errors left.          *)
CascadeReturns ==
  /\ at = "cascade" /\ walk = <<>>
  /\ at' = "replan"
  /\ errors' = IF broken # <<>> THEN <<Head(broken)>> ELSE Tail(errors)
  /\ ForgetCascade
  /\ UNCHANGED <<graph, inspect, attempts, patched, mended>>

CascadeNode(p) == Skip(p) \/ Preserved(p) \/ NeedsReexecution(p) \/ NeedsRepair(p)
Cascade == Return \/ CascadeErrs \/ CascadeReturns \/ \E p \in Ids : CascadeNode(p)

----------------------------------------------------------------------------
Init ==
  /\ \E g \in Seeds : nodes = g.nodes /\ links = g.links /\ fixed = g.fixed
  /\ SearchIdle /\ arcs = {} /\ remaining = <<>> /\ faulty = {}
  /\ NoCascade
  /\ at = "graph" /\ attempts = 0 /\ errors = <<>>
  /\ patched = 0 /\ mended = FALSE

Search == SearchNode \/ SearchNextRelation \/ SearchPanics
Judge ==
  \/ VerifyErrs \/ VerifyPasses \/ Stalemate \/ RepairDrift
  \/ \E p \in PerhapsNone : LocalRepair(p)
  \/ ReviewPasses \/ AnswerLacks \/ JudgeRejects \/ JudgeBlamesGraph \/ ReviewErrs
Replan ==
  \/ ReplanAnchor \/ ReplanErrs \/ Replanned
  \/ \E p \in Redesigns : Redesign(p)

Next ==
  \/ ReadyForVerify \/ Search \/ Judge
  \/ \E p \in Proposable : ProposePatch(p)
  \/ \E p \in PerhapsNone : Repaired(p)
  \/ TaskFailed \/ ValidatorObjects \/ EnterReview
  \/ \E ids \in SeqOf(Ids, 2) : TaskBlames(ids)
  \/ Replan \/ Cascade

(* The driver goes on, once a model has answered.                          *)
Fairness == WF_vars(Search) /\ WF_vars(Judge) /\ WF_vars(Replan) /\ WF_vars(Cascade)

Spec == Init /\ [][Next]_vars /\ Fairness

----------------------------------------------------------------------------
Places == {"graph", "verify", "task", "replan", "cascade", "review", "repair",
           "done", "rejected", "failed", "crashed"}

TypeOK ==
  /\ SearchTypeOK
  /\ links \subseteq Link /\ fixed \subseteq nodes
  /\ at \in Places
  /\ remaining \in Seq(Relation) /\ faulty \subseteq Ids
  /\ attempts \in 0..MaxRepairs /\ patched \in 0..MaxPatches
  /\ errors \in Seq(Ids) /\ broken \in Seq(Ids)
  /\ walk \in Seq([of : Ids, left : SUBSET Ids])
  /\ kept \subseteq nodes /\ stale \subseteq nodes
  /\ cut \in BOOLEAN /\ mended \in BOOLEAN

Connected ==
  \E a \in fixed : nodes \subseteq fixed \cup Reached(a, {l \in links : l.from \in nodes})
Acyclic(rel) ==
  \A S \in (SUBSET nodes) \ {{}} : \E s \in S : \A t \in S : <<s, t>> \notin ArcsOf(rel, links)

(* What is executed, reviewed and redesigned for the first time is a sound *)
(* graph, which no check shows alone: the gate walks through removed nodes *)
(* and only the verifier sees the edges that let it, the verifier does not *)
(* look at connectedness, and either may have been passed before patches   *)
(* of the user, of a redesign or of a local repair.  No edge dangles, the  *)
(* two relations have no cycle, and, unless a local repair was made after  *)
(* the gate or the anchor is gone, an anchor reaches every step.           *)
PassedGraphIsSound ==
  at \in {"task", "review", "done"} =>
    /\ Dangling = {}
    /\ \A rel \in ToSet(AcyclicRelations) : Acyclic(rel)
    /\ ~mended /\ fixed # {} => Connected

(* A pass that was not cut short by the depth limit has asked about every  *)
(* node that feeds a node it declares in need of repair: none of them is   *)
(* left with a design nobody looked at again.                              *)
CascadeCovers ==
  at = "cascade" /\ walk = <<>> /\ ~cut =>
    \A b \in ToSet(broken) : Predecessors(b) \subseteq fixed \cup Classified

(* Verifications, reviews and passes of the cascade come to an end, also   *)
(* on graphs with cycles and with models that answer the worst each time.  *)
PassesEnd ==
  /\ at = "verify" ~> at # "verify"
  /\ at = "review" ~> at # "review"
  /\ at = "cascade" ~> at # "cascade"
============================================================================
