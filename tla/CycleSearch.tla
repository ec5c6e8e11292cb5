---------------------------- MODULE CycleSearch -----------------------------
(***************************************************************************)
(* Graph::find_cycle_in_relation (src/graph/validation.rs): the search for *)
(* a cycle that the verifier, the reviewer and the decomposer rely on.     *)
(*                                                                         *)
(* An explicit stack, a path and a mark per node.  The marks are a map     *)
(* with a key for each node of the graph, while the edges that are         *)
(* followed may lead to a node that was removed: Graph::apply_patch        *)
(* removes nodes and leaves their edges.                                   *)
(*                                                                         *)
(* The order in which starts are taken is that of a hash map, the order of *)
(* a node's edges that of the edge list; both are arbitrary here.  The     *)
(* case of a finished node on top of the stack is left out: OnTheStack in  *)
(* ReplanProofs shows that it does not occur.                              *)
(***************************************************************************)
EXTENDS Naturals, Sequences

CONSTANT Ids         (* node ids                                            *)

VARIABLES
  nodes,     (* keys of Graph::nodes                                        *)
  arcs,      (* <<source, target>> of the edges of the relation searched    *)
  result,    (* "idle", "searching" and the ways the search ends            *)
  mark,      (* state; a node without an entry counts as unseen             *)
  stack,
  path,
  cycle      (* what is returned                                            *)

search == <<result, mark, stack, path, cycle>>

Mark == {"unseen", "in_progress", "done"}
AllUnseen == [i \in Ids |-> "unseen"]

Top == stack[Len(stack)]
Pop(s) == SubSeq(s, 1, Len(s) - 1)

----------------------------------------------------------------------------
SearchIdle ==
  /\ result = "idle" /\ mark = AllUnseen
  /\ stack = <<>> /\ path = <<>> /\ cycle = <<>>

(* The call, for the edges of one relation. *)
StartSearch(edges) ==
  /\ arcs' = edges
  /\ result' = "searching" /\ mark' = AllUnseen
  /\ stack' = <<>> /\ path' = <<>> /\ cycle' = <<>>

Searching == result = "searching"

TakeStart(s) ==
  /\ Searching /\ stack = <<>>
  /\ s \in nodes /\ mark[s] = "unseen"
  /\ stack' = <<s>> /\ path' = <<>>
  /\ UNCHANGED <<nodes, arcs, result, mark, cycle>>

(* The node on top is met for the first time. *)
Enter ==
  /\ Searching /\ stack # <<>>
  /\ Top \in nodes /\ mark[Top] = "unseen"
  /\ mark' = [mark EXCEPT ![Top] = "in_progress"]
  /\ path' = Append(path, Top)
  /\ UNCHANGED <<nodes, arcs, result, stack, cycle>>

(* state[&top] of a target that is no node. *)
Panic ==
  /\ Searching /\ stack # <<>>
  /\ Top \notin nodes
  /\ result' = "panicked"
  /\ UNCHANGED <<nodes, arcs, mark, stack, path, cycle>>

Expanding == Searching /\ stack # <<>> /\ mark[Top] = "in_progress"

Descend(n) ==
  /\ Expanding /\ <<Top, n>> \in arcs
  /\ mark[n] = "unseen"
  /\ stack' = Append(stack, n)
  /\ UNCHANGED <<nodes, arcs, result, mark, path, cycle>>

Close(n) ==
  /\ Expanding /\ <<Top, n>> \in arcs
  /\ mark[n] = "in_progress"
  /\ \E pos \in 1..Len(path) :
       /\ path[pos] = n
       /\ cycle' = Append(SubSeq(path, pos, Len(path)), n)
  /\ result' = "cyclic"
  /\ UNCHANGED <<nodes, arcs, mark, stack, path>>

(* Mutant: a node is done as soon as one of its successors is. *)
LeaveEarly ==
  /\ Expanding
  /\ \A n \in Ids : <<Top, n>> \in arcs => mark[n] # "in_progress"
  /\ \E n \in Ids : mark[n] = "done" \/ \A i \in Ids : <<Top, i>> \notin arcs
  /\ mark' = [mark EXCEPT ![Top] = "done"]
  /\ path' = Pop(path) /\ stack' = Pop(stack)
  /\ UNCHANGED <<nodes, arcs, result, cycle>>

(* Mutant: the mark is not set, and the node is taken as a start again.    *)
LeaveUnmarked ==
  /\ Expanding
  /\ \A n \in Ids : <<Top, n>> \in arcs => mark[n] = "done"
  /\ mark' = [mark EXCEPT ![Top] = "unseen"]
  /\ path' = Pop(path) /\ stack' = Pop(stack)
  /\ UNCHANGED <<nodes, arcs, result, cycle>>

(* Nothing is left to descend into. *)
Leave ==
  /\ Expanding
  /\ \A n \in Ids : <<Top, n>> \in arcs => mark[n] = "done"
  /\ mark' = [mark EXCEPT ![Top] = "done"]
  /\ path' = Pop(path) /\ stack' = Pop(stack)
  /\ UNCHANGED <<nodes, arcs, result, cycle>>

NoneLeft ==
  /\ Searching /\ stack = <<>>
  /\ \A i \in nodes : mark[i] # "unseen"
  /\ result' = "acyclic"
  /\ UNCHANGED <<nodes, arcs, mark, stack, path, cycle>>

SearchStep ==
  \/ Enter \/ Leave \/ NoneLeft
  \/ \E i \in Ids : TakeStart(i) \/ Descend(i) \/ Close(i)

(* The search by itself, on any graph. *)
SearchInit ==
  /\ nodes \in SUBSET Ids /\ arcs \in SUBSET (Ids \X Ids)
  /\ result = "searching" /\ mark = AllUnseen
  /\ stack = <<>> /\ path = <<>> /\ cycle = <<>>

SearchNext == SearchStep \/ Panic
SearchSpec == SearchInit /\ [][SearchNext]_<<nodes, arcs, search>>

----------------------------------------------------------------------------
SearchTypeOK ==
  /\ nodes \subseteq Ids /\ arcs \subseteq Ids \X Ids
  /\ result \in {"idle", "searching", "cyclic", "acyclic", "panicked"}
  /\ mark \in [Ids -> Mark]
  /\ stack \in Seq(Ids) /\ path \in Seq(Ids) /\ cycle \in Seq(Ids)

(* Nodes each of which has an edge to another one of them, or to itself: a *)
(* finite set of this kind contains a cycle, and a cycle is one.           *)
Knot(S) == S # {} /\ \A s \in S : \E t \in S : <<s, t>> \in arcs

IsCycle(c) ==
  /\ Len(c) > 1 /\ c[1] = c[Len(c)]
  /\ \A i \in 1..Len(c) - 1 : c[i] \in nodes /\ <<c[i], c[i + 1]>> \in arcs

(* The search is exact: what it returns is a cycle of the graph, and when  *)
(* it returns nothing the relation has none, whatever the order in which   *)
(* nodes and edges were taken; an edge to a removed node never ends in     *)
(* either answer unseen.                                                   *)
FindsExactlyCycles ==
  /\ result = "cyclic" => IsCycle(cycle)
  /\ result = "acyclic" => /\ \A S \in SUBSET nodes : ~Knot(S)
                           /\ \A a \in arcs : a[1] \in nodes => a[2] \in nodes
============================================================================
