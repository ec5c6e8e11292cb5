--------------------------- MODULE ContextWindow ----------------------------
(***************************************************************************)
(* What a model is shown of the world graph (src/context/mod.rs,           *)
(* src/graph/traversal.rs): ContextBuilder::build for a sub-agent, by      *)
(* distance from the nodes of its task, and L0L1L2ContextBuilder::build    *)
(* for the proposer, by scope.  Both fill sections entity by entity under  *)
(* a budget of tokens; a token is four characters, rounded up.             *)
(*                                                                         *)
(* A text is its length in characters.  One iteration of a loop is one     *)
(* step: `ahead` holds the entities of the level that the loop has not     *)
(* reached.  Ids are numbers, in the order of their names.                 *)
(***************************************************************************)
EXTENDS Naturals, FiniteSets

CONSTANTS
  Ids,
  Edges,        (* bound: the edges a graph is made of                      *)
  Sources,      (* what an id may have: see Source                          *)
  Depth,        (* ContextBuilder.max_graph_depth                           *)
  TextBudget,   (* ContextBudget: the sections that are given as text, and  *)
                (* l0 of the proposer,                                      *)
  L1Budget,     (* l1_section, and l1 of the proposer,                      *)
  CodeBudget,   (* code_distance_0, 1 and 2                                 *)
  NoteBudget,   (* L0L1L2Budget.notes                                       *)
  Heading,      (* characters of the line over a level                      *)
  Marker        (* characters of a truncation marker                        *)

Source == [loads : BOOLEAN,         (* SourceLoader::load is Ok             *)
           body : Nat, head : Nat, outline : Nat,
           described : BOOLEAN,     (* an L1 entry that is not blank        *)
           does : Nat, how : Nat, rest : Nat]

ASSUME ContextAssumption ==
  /\ Ids \subseteq Nat /\ IsFiniteSet(Ids) /\ Edges \subseteq Ids \X Ids
  /\ Sources \subseteq Source
  /\ Depth \in Nat /\ Heading \in Nat /\ Marker \in Nat
  /\ TextBudget \in Nat \ {0} /\ L1Budget \in Nat \ {0} /\ NoteBudget \in Nat \ {0}
  /\ CodeBudget \in [0..2 -> Nat \ {0}]

VARIABLES
  who,      (* "subagent" or "proposer"                                     *)
  vertices, arrows, focus, source,
  pass,     (* "text", "l1", "code", "notes" or "done"                      *)
  level,    (* the distance in hand; for the proposer 0 is its scope, 1     *)
            (* the neighbours, 2 the others                                 *)
  begun,    (* the line over the level is written                           *)
  ahead,
  chars, spent,   (* of the section in hand                                 *)
  section,  (* lengths of the sections that are finished                    *)
  shown     (* the entities in a section, by pass and level                 *)

input == <<who, vertices, arrows, focus, source>>
loop == <<pass, level, begun, ahead, chars, spent>>
window == <<input, loop, section, shown>>

CodeLabel(k) == IF k = 0 THEN "code_d0" ELSE IF k = 1 THEN "code_d1" ELSE "code_d2_plus"
Labels == {"text", "l0", "l1", "notes"} \cup {CodeLabel(k) : k \in 0..2}

----------------------------------------------------------------------------
(* TokenCounter::count, truncate_chars and push_section.                   *)

Larger(m, n) == IF m > n THEN m ELSE n
Tokens(c) == Larger(1, (c + 3) \div 4)

Cut(c, most) == IF most = 0 THEN 0 ELSE IF c > most THEN most + Marker ELSE c

Budget(label) ==
  CASE label \in {"text", "l0"} -> TextBudget
    [] label = "l1"    -> L1Budget
    [] label = "notes" -> NoteBudget
    [] OTHER -> CodeBudget[CHOOSE k \in 0..2 : CodeLabel(k) = label]

(* Mutant: a text that is too long is pushed as it is. *)
FitAsItIs(c, budget) == c
Fit(c, budget) == IF Tokens(c) <= budget THEN c ELSE Cut(c, budget * 4)

----------------------------------------------------------------------------
(* Graph::bfs_from, bounded by the depth.  It starts from the nodes there  *)
(* are, and follows an edge to a node that was removed.                    *)
Targets(S) == {n \in Ids : \E m \in S : <<m, n>> \in arrows}
Adjacent(S) == Targets(S) \cup {m \in Ids : \E n \in S : <<m, n>> \in arrows}

ReachedWithin ==
  LET hop[d \in 0..Depth] ==
        IF d = 0 THEN focus \cap vertices ELSE hop[d - 1] \cup Targets(hop[d - 1])
  IN  hop

AtDistance(d) == ReachedWithin[d] \ (IF d = 0 THEN {} ELSE ReachedWithin[d - 1])

(* build_l1: the scope, what an edge joins to it, and the other nodes.     *)
InView(k) ==
  CASE k = 0 -> focus
    [] k = 1 -> Adjacent(focus) \ focus
    [] OTHER -> vertices \ (focus \cup Adjacent(focus))

(* render_l1_by_distance and the loop over the code pass over what has no  *)
(* description; the proposer gets a line about it.                         *)
InLevel ==
  IF who = "proposer" THEN InView(level)
  ELSE {n \in AtDistance(level) : pass = "l1" => source[n].described}

LastLevel == IF who = "proposer" \/ (pass = "code" /\ Depth > 2) THEN 2 ELSE Depth

(* L1Description::render_full, render_brief and render_oneline.            *)
L1Text(n) ==
  LET s == source[n]
  IN  IF ~s.described \/ (who = "proposer" /\ level = 2) THEN 1
      ELSE CASE level = 0 -> s.does + s.how + s.rest
             [] level = 1 -> s.does + s.how
             [] OTHER -> s.does

(* compress_for_distance: all, the head and the signatures, or those only. *)
Code(n) ==
  LET s == source[n]
  IN  CASE level = 0 -> s.body
        [] level = 1 -> s.head + s.outline
        [] OTHER -> s.outline

(* Sorted by id; the proposer takes its scope and the others as the maps   *)
(* of the graph give them.                                                 *)
Comes(n) ==
  /\ n \in ahead
  /\ (who = "proposer" /\ level # 1) \/ \A m \in ahead : n <= m

----------------------------------------------------------------------------
TurnTo(p, k) ==
  /\ pass' = p /\ level' = k /\ begun' = FALSE /\ ahead' = {}

(* The section is finished with a text of c characters; the next one is    *)
(* begun at level k of pass p.                                             *)
Push(label, c, p, k) ==
  /\ section' = [section EXCEPT ![label] = Fit(c, Budget(label))]
  /\ chars' = 0 /\ spent' = 0
  /\ TurnTo(p, k)

(* The role, the overview, the task, the map of the graph around it, the   *)
(* results before: the same for each.                                      *)
PushText(c) ==
  /\ pass = "text" /\ who = "subagent"
  /\ Push("text", c, "l1", 0)
  /\ UNCHANGED <<input, shown>>

(* The proposer is given the whole graph, without descriptions.            *)
PushGraph(c) ==
  /\ pass = "text" /\ who = "proposer"
  /\ Push("l0", c, "l1", 0)
  /\ UNCHANGED <<input, shown>>

(* L0L1L2ContextBuilder does not cut its l1 section.                       *)
EndL1(c) ==
  IF who = "subagent" THEN Push("l1", c, "code", 0)
  ELSE /\ section' = [section EXCEPT !["l1"] = c]
       /\ chars' = 0 /\ spent' = 0
       /\ TurnTo("notes", 0)

NextLevel(c, s) ==
  IF level = LastLevel \/ (who = "subagent" /\ s >= L1Budget) THEN EndL1(c)
  ELSE /\ chars' = c /\ spent' = s
       /\ TurnTo("l1", level + 1)
       /\ UNCHANGED section

(* The line over a level is counted for a sub-agent only.                  *)
HeadingCost == IF who = "subagent" THEN Tokens(Heading) ELSE 0

BeginL1 ==
  /\ pass = "l1" /\ ~begun
  /\ who = "subagent" => InLevel # {} /\ spent + HeadingCost <= L1Budget
  /\ begun' = TRUE /\ ahead' = InLevel
  /\ chars' = chars + Heading /\ spent' = spent + HeadingCost
  /\ UNCHANGED <<input, pass, level, section, shown>>

NothingToDescribe ==
  /\ pass = "l1" /\ ~begun
  /\ who = "subagent" /\ InLevel = {}
  /\ NextLevel(chars, spent)
  /\ UNCHANGED <<input, shown>>

NoRoomForLevel ==
  /\ pass = "l1" /\ ~begun
  /\ who = "subagent" /\ InLevel # {} /\ spent + HeadingCost > L1Budget
  /\ EndL1(chars)
  /\ UNCHANGED <<input, shown>>

Full == who = "proposer" /\ spent >= L1Budget
Describes(n) == pass = "l1" /\ begun /\ ~Full /\ Comes(n)

Describe(n) ==
  /\ Describes(n) /\ spent + Tokens(L1Text(n)) <= L1Budget
  /\ chars' = chars + L1Text(n) /\ spent' = spent + Tokens(L1Text(n))
  /\ ahead' = ahead \ {n} /\ shown' = shown \cup {<<"l1", level, n>>}
  /\ UNCHANGED <<input, pass, level, begun, section>>

(* Mutant: what does not fit is passed over. *)
PassOver(n) ==
  /\ Describes(n) /\ spent + Tokens(L1Text(n)) > L1Budget
  /\ ahead' = ahead \ {n}
  /\ UNCHANGED <<input, pass, level, begun, chars, spent, section, shown>>

(* Out of room: a sub-agent is shown no more, the proposer the next level. *)
TruncateL1(n) ==
  /\ Describes(n) /\ spent + Tokens(L1Text(n)) > L1Budget
  /\ NextLevel(chars + Marker, IF who = "subagent" THEN L1Budget ELSE spent)
  /\ UNCHANGED <<input, shown>>

EndLevel ==
  /\ pass = "l1" /\ begun
  /\ ahead = {} \/ Full
  /\ NextLevel(chars, spent)
  /\ UNCHANGED <<input, shown>>

----------------------------------------------------------------------------
(* The code of a sub-agent, one section for each distance.                 *)
BeginCode ==
  /\ pass = "code" /\ ~begun
  /\ begun' = TRUE /\ ahead' = InLevel
  /\ chars' = Heading /\ spent' = Tokens(Heading)
  /\ UNCHANGED <<input, pass, level, section, shown>>

EndCode(c) ==
  IF level = LastLevel THEN Push(CodeLabel(level), c, "done", 0)
  ELSE Push(CodeLabel(level), c, "code", level + 1)

Reaches(n) == pass = "code" /\ begun /\ spent < CodeBudget[level] /\ Comes(n)

LoadFails(n) ==
  /\ Reaches(n) /\ ~source[n].loads
  /\ ahead' = ahead \ {n}
  /\ UNCHANGED <<input, pass, level, begun, chars, spent, section, shown>>

Include(n) ==
  /\ Reaches(n) /\ source[n].loads
  /\ spent + Tokens(Code(n)) <= CodeBudget[level]
  /\ chars' = chars + Code(n) + 1 /\ spent' = spent + Tokens(Code(n))
  /\ ahead' = ahead \ {n} /\ shown' = shown \cup {<<"code", level, n>>}
  /\ UNCHANGED <<input, pass, level, begun, section>>

(* Cut to what is left of the budget, which ends the section.              *)
TruncateCode(n) ==
  /\ Reaches(n) /\ source[n].loads
  /\ spent + Tokens(Code(n)) > CodeBudget[level]
  /\ EndCode(chars + Cut(Code(n), (CodeBudget[level] - spent) * 4) + 1)
  /\ UNCHANGED <<input, shown>>

EndSection ==
  /\ pass = "code" /\ begun
  /\ ahead = {} \/ spent >= CodeBudget[level]
  /\ EndCode(chars)
  /\ UNCHANGED <<input, shown>>

(* derive_proposer_notes and fit_notes: one note, with the names of all    *)
(* the nodes nothing leads to but the anchor, if there is one, or none.    *)
Orphans(anchor) == {n \in vertices \ {anchor} : ~\E m \in Ids : <<m, n>> \in arrows}

Note(anchor) ==
  LET orphans == Orphans(anchor)
  IN  IF orphans = {} THEN 0 ELSE Heading + Cardinality(orphans)

FitNotes(anchor) ==
  /\ pass = "notes"
  /\ section' = [section EXCEPT !["notes"] =
                   IF Tokens(Note(anchor)) <= NoteBudget THEN Note(anchor) ELSE 0]
  /\ TurnTo("done", 0)
  /\ UNCHANGED <<input, chars, spent, shown>>

----------------------------------------------------------------------------
WindowInit ==
  /\ who \in {"subagent", "proposer"}
  /\ vertices \in SUBSET Ids /\ arrows \in SUBSET Edges
  /\ focus \in SUBSET (IF who = "proposer" THEN vertices ELSE Ids)
  /\ source \in [Ids -> Sources]
  /\ pass = "text" /\ level = 0 /\ begun = FALSE /\ ahead = {}
  /\ chars = 0 /\ spent = 0
  /\ section = [l \in Labels |-> 0]
  /\ shown = {}

TextLengths == {TextBudget * 4, TextBudget * 8}   (* bound *)

WindowNext ==
  \/ \E c \in TextLengths : PushText(c) \/ PushGraph(c)
  \/ BeginL1 \/ NothingToDescribe \/ NoRoomForLevel \/ EndLevel
  \/ \E n \in Ids : Describe(n) \/ TruncateL1(n)
  \/ BeginCode \/ EndSection
  \/ \E n \in Ids : LoadFails(n) \/ Include(n) \/ TruncateCode(n)
  \/ \E anchor \in Ids : FitNotes(anchor)

WindowSpec == WindowInit /\ [][WindowNext]_window

----------------------------------------------------------------------------
WindowTypeOK ==
  /\ who \in {"subagent", "proposer"}
  /\ vertices \subseteq Ids /\ arrows \subseteq Edges /\ focus \subseteq Ids
  /\ source \in [Ids -> Sources]
  /\ pass \in {"text", "l1", "code", "notes", "done"}
  /\ level \in Nat /\ begun \in BOOLEAN /\ ahead \subseteq Ids
  /\ chars \in Nat /\ spent \in Nat
  /\ section \in [Labels -> Nat]
  /\ shown \subseteq {"l1", "code"} \X Nat \X Ids

(* No section outgrows its budget, whatever the lengths of the texts and   *)
(* the rounding of each: up to the marker of a truncation and, for the     *)
(* proposer, the lines over the three levels, which are not counted.       *)
Overhead == Tokens(IF who = "proposer" THEN 3 * (Heading + Marker) ELSE Marker)

SectionsFit == \A l \in Labels : Tokens(section[l]) <= Budget(l) + Overhead

(* What a sub-agent is shown is what is nearest: a description or a body   *)
(* is left out for want of room only if those after it are left out too,   *)
(* by distance and then by name.                                           *)
Before(k, m, j, n) == k < j \/ (k = j /\ m < n)

NearestFirst ==
  who = "subagent" =>
    \A e \in shown, m \in Ids, k \in 0..Depth :
      (m \in AtDistance(k) /\ Before(k, m, e[2], e[3])) =>
        /\ (e[1] = "l1" /\ source[m].described) => <<"l1", k, m>> \in shown
        /\ (e[1] = "code" /\ k = e[2] /\ source[m].loads) => <<"code", k, m>> \in shown
=============================================================================
