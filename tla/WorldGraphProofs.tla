-------------------------- MODULE WorldGraphProofs --------------------------
(* Theorems of WorldGraph, for every set of node ids and relations and     *)
(* without the bounds of the checked instance.                             *)
EXTENDS WorldGraph, SequenceTheorems, TLAPS

(* What deleting one position does to a list: the positions before it stay *)
(* and the ones after it move down by one (Vec::remove).                   *)
LEMMA RemoveAtShifts ==
  ASSUME NEW S, NEW s \in Seq(S), NEW i \in 1..Len(s)
  PROVE  /\ RemoveAt(s, i) \in Seq(S)
         /\ Len(RemoveAt(s, i)) = Len(s) - 1
         /\ \A k \in 1..Len(s) - 1 :
              RemoveAt(s, i)[k] = IF k < i THEN s[k] ELSE s[k + 1]
<1> DEFINE l == SubSeq(s, 1, i - 1)
           r == SubSeq(s, i + 1, Len(s))
<1>1. l \in Seq(S) /\ Len(l) = i - 1 /\ \A k \in 1..i - 1 : l[k] = s[k]
  OBVIOUS
<1>2. r \in Seq(S) /\ Len(r) = Len(s) - i /\ \A k \in 1..Len(s) - i : r[k] = s[k + i]
  OBVIOUS
<1>3. RemoveAt(s, i) = l \o r
  BY DEF RemoveAt
<1> HIDE DEF l, r
<1>4. l \o r \in Seq(S) /\ Len(l \o r) = Len(s) - 1
  <2>1. Len(s) \in Nat /\ i \in Int
    OBVIOUS
  <2>2. l \o r \in Seq(S) /\ Len(l \o r) = Len(l) + Len(r)
    BY <1>1, <1>2, ConcatProperties
  <2>3. Len(l) + Len(r) = Len(s) - 1
    BY <1>1, <1>2, <2>1
  <2> QED
    BY <2>2, <2>3
<1>5. ASSUME NEW k \in 1..Len(s) - 1
      PROVE  (l \o r)[k] = IF k < i THEN s[k] ELSE s[k + 1]
  <2>1. CASE k < i
    BY <1>1, <1>2, <2>1
  <2>2. CASE k >= i
    <3>1. (l \o r)[k] = r[k - (i - 1)]
      BY <1>1, <1>2, <2>2
    <3>2. r[k - (i - 1)] = s[k + 1]
      BY <1>2, <2>2
    <3> QED
      BY <3>1, <3>2, <2>2
  <2>3. k \in Int /\ i \in Int
    <3>1. Len(s) \in Nat
      OBVIOUS
    <3> QED
      BY <3>1
  <2>4. k < i \/ k >= i
    BY <2>3
  <2> QED
    BY <2>1, <2>2, <2>4, Zenon
<1>6. /\ l \o r \in Seq(S) /\ Len(l \o r) = Len(s) - 1
      /\ \A k \in 1..Len(s) - 1 :
           (l \o r)[k] = IF k < i THEN s[k] ELSE s[k + 1]
  BY <1>4, <1>5, Zenon
<1> QED
  BY <1>3, <1>6, Zenon

(* The neighbourhood LocalRepairer works on is made of nodes of the graph, *)
(* and what it walks over has ids.                                         *)
LEMMA NeighborhoodIsNodes ==
  ASSUME NEW scope
  PROVE  Neighborhood(scope) \subseteq nodes /\ Walked(scope) \subseteq NodeIds
  BY DEF Neighborhood, Walked

(* Every way to begin a patch is AddNodes with some origin and scope. *)
LEMMA PatchBegins ==
  ASSUME NEW issue \in Issues, NEW scope \in SUBSET NodeIds, NEW added \in SUBSET NodeIds,
         Propose(added) \/ Repair(issue, scope, added)
  PROVE  \E o \in Origin, sc, ad \in SUBSET NodeIds : AddNodes(o, sc, ad)
<1>1. CASE Propose(added)
  BY <1>1 DEF Propose, Origin
<1>2. CASE RepairL0(scope, added)
  BY <1>2 DEF RepairL0, Origin
<1>3. CASE RepairScopeGap(added)
  BY <1>3 DEF RepairScopeGap, Origin
<1>4. ASSUME NEW n \in scope, NEW first \in Replies, NEW second \in Replies,
             RepairL1(n, first, second)
      PROVE  \E o \in Origin, sc, ad \in SUBSET NodeIds : AddNodes(o, sc, ad)
  <2>1. {n} \in SUBSET NodeIds
    OBVIOUS
  <2> QED
    BY <1>4, <2>1 DEF RepairL1, Origin
<1> QED
  BY <1>1, <1>2, <1>3, <1>4 DEF Repair

(* So that a step is one of these. *)
LEMMA StepKinds ==
  ASSUME [Next]_vars
  PROVE  \/ \E o \in Origin, scope, added \in SUBSET NodeIds : AddNodes(o, scope, added)
         \/ \E e \in Edge : AddEdge(e)
         \/ \E e \in Edge : Reject(e)
         \/ EndAddEdges
         \/ \E i \in 1..MaxEdges : RemoveEdge(i)
         \/ \E removed, todo \in SUBSET NodeIds : Finish(removed, todo)
         \/ \E n \in NodeIds, first, second \in Replies : Enrich(n, first, second)
         \/ EndEnrich
         \/ UNCHANGED vars
<1>1. ASSUME NEW added \in SUBSET NodeIds, Propose(added)
      PROVE  \E o \in Origin, sc, ad \in SUBSET NodeIds : AddNodes(o, sc, ad)
  BY <1>1 DEF Propose, Origin
<1>2. ASSUME NEW issue \in Issues, NEW scope \in SUBSET NodeIds, NEW added \in SUBSET NodeIds,
             Repair(issue, scope, added)
      PROVE  \E o \in Origin, sc, ad \in SUBSET NodeIds : AddNodes(o, sc, ad)
  BY <1>2, PatchBegins
<1> QED
  BY <1>1, <1>2, Zenon DEF Next

THEOREM TypeCorrect == Spec => []TypeOK
<1>1. Init => TypeOK
  BY DEF Init, TypeOK, PatchRecord, NoPatch, NoBefore, Origin
<1>2. TypeOK /\ [Next]_vars => TypeOK'
  <2> SUFFICES ASSUME TypeOK, [Next]_vars PROVE TypeOK'
    OBVIOUS
  <2> USE DEF TypeOK
  <2>1. ASSUME NEW o \in Origin, NEW scope \in SUBSET NodeIds, NEW added \in SUBSET NodeIds,
               AddNodes(o, scope, added)
        PROVE  TypeOK'
    <3>1. scope \cup Neighborhood(scope) \cup added \in SUBSET NodeIds
      BY NeighborhoodIsNodes
    <3> DEFINE todo == IF o = "proposer" THEN added ELSE {}
    <3>3. patch' = [origin |-> o, scope |-> scope,
                    allowed |-> scope \cup Neighborhood(scope) \cup added,
                    walked |-> Walked(scope), todo |-> todo,
                    cursor |-> MaxEdges, named |-> {}, repeated |-> FALSE]
      BY <2>1 DEF AddNodes
    <3>4. todo \in SUBSET NodeIds /\ Walked(scope) \in SUBSET NodeIds
      BY NeighborhoodIsNodes
    <3> HIDE DEF todo
    <3>2. patch' \in PatchRecord
      BY <3>1, <3>3, <3>4, BoundsAssumption DEF PatchRecord
    <3> QED
      BY <2>1, <3>2 DEF AddNodes
  <2>2. ASSUME NEW e \in Edge, AddEdge(e) PROVE TypeOK'
    BY <2>2 DEF AddEdge, Edge
  <2>3. ASSUME NEW e \in Edge, Reject(e) PROVE TypeOK'
    BY <2>3 DEF Reject, graphVars, NoPatch, PatchRecord
  <2>4. ASSUME EndAddEdges PROVE TypeOK'
    BY <2>4 DEF EndAddEdges, graphVars
  <2>5. ASSUME NEW i \in 1..MaxEdges, RemoveEdge(i) PROVE TypeOK'
    <3>1. edges' \in Seq(Edge)
      BY <2>5, RemoveAtShifts DEF RemoveEdge
    <3>2. (patch.repeated \/ i \in patch.named) \in BOOLEAN
      OBVIOUS
    <3>3. patch' = [patch EXCEPT !.cursor = i, !.named = @ \cup {i},
                                !.repeated = @ \/ i \in patch.named]
      BY <2>5 DEF RemoveEdge
    <3> DEFINE again == patch.repeated \/ i \in patch.named
    <3>4. patch' = [patch EXCEPT !.cursor = i, !.named = @ \cup {i}, !.repeated = again]
      BY <3>3
    <3> HIDE DEF again
    <3>5. i \in Nat /\ again \in BOOLEAN
      BY <3>2, BoundsAssumption DEF again
    <3>6. patch' \in PatchRecord
      BY <3>4, <3>5 DEF PatchRecord
    <3> QED
      BY <2>5, <3>1, <3>6 DEF RemoveEdge
  <2>6. ASSUME NEW removed \in SUBSET NodeIds, NEW todo \in SUBSET NodeIds,
               Finish(removed, todo)
        PROVE  TypeOK'
    <3>1. edges' = edges /\ RebuildIndices
      BY <2>6 DEF Finish
    <3>2. outgoing' \in [NodeIds -> SUBSET Nat] /\ incoming' \in [NodeIds -> SUBSET Nat]
      BY <3>1 DEF RebuildIndices
    <3>3. patch' = [NoPatch EXCEPT !.todo = todo] /\ before' = NoBefore
      BY <2>6 DEF Finish
    <3>4. patch' \in PatchRecord
      BY <3>3 DEF NoPatch, PatchRecord
    <3>5. pc' = "idle" => patch' = NoPatch
      BY <2>6, <3>3 DEF Finish, NoPatch
    <3>6. nodes' \subseteq NodeIds /\ gone' \subseteq NodeIds /\ l1' \subseteq NodeIds
      BY <2>6 DEF Finish
    <3>7. version' \in Nat /\ pc' \in {"idle", "add_edges", "remove_edges", "enrich"}
      BY <2>6 DEF Finish
    <3> QED
      BY <3>1, <3>2, <3>3, <3>4, <3>5, <3>6, <3>7
  <2>7. ASSUME NEW n \in NodeIds, NEW first \in Replies, NEW second \in Replies,
               Enrich(n, first, second)
        PROVE  TypeOK'
    <3>1. patch' \in PatchRecord
      BY <2>7 DEF Enrich, PatchRecord
    <3> QED
      BY <2>7, <3>1 DEF Enrich
  <2>8. ASSUME EndEnrich PROVE TypeOK'
    BY <2>8 DEF EndEnrich, graphVars, NoPatch, PatchRecord
  <2>9. CASE UNCHANGED vars
    BY <2>9 DEF vars, graphVars
  <2> QED
    BY <2>1, <2>2, <2>3, <2>4, <2>5, <2>6, <2>7, <2>8, <2>9, StepKinds
<1> QED
  BY <1>1, <1>2, PTL DEF Spec

----------------------------------------------------------------------------
(* The structural invariant.  It is inductive as it stands, given types:   *)
(* the two uniqueness facts read edges only, and the indexes are claimed   *)
(* only outside the loop that deletes positions.                           *)
StructureOK == IndexesAgree /\ EdgeKeysUnique /\ OneContainsParent /\ DanglingOnlyAfterRemoval

(* The keys of a list stay distinct, and each node keeps at most one       *)
(* Contains parent, when a position is deleted.                            *)
LEMMA RemovalKeepsEdgeFacts ==
  ASSUME TypeOK, EdgeKeysUnique, OneContainsParent, NEW i \in 1..Len(edges),
         edges' = RemoveAt(edges, i)
  PROVE  /\ EdgeKeysUnique' /\ OneContainsParent'
         /\ \A j \in 1..Len(edges') : \E k \in 1..Len(edges) : edges'[j] = edges[k]
<1> DEFINE old(j) == IF j < i THEN j ELSE j + 1
<1>1. Len(edges) \in Nat /\ i \in Int
  BY DEF TypeOK
<1>2. Len(edges') = Len(edges) - 1
  BY RemoveAtShifts DEF TypeOK
<1>3. ASSUME NEW j \in 1..Len(edges')
      PROVE  old(j) \in 1..Len(edges) /\ edges'[j] = edges[old(j)]
  <2>1. edges'[j] = IF j < i THEN edges[j] ELSE edges[j + 1]
    BY <1>2, RemoveAtShifts DEF TypeOK
  <2> QED
    BY <1>1, <1>2, <2>1
<1>4. ASSUME NEW j \in 1..Len(edges'), NEW k \in 1..Len(edges'), old(j) = old(k)
      PROVE  j = k
  BY <1>1, <1>2, <1>4
<1> HIDE DEF old
<1>5. EdgeKeysUnique'
  BY <1>3, <1>4 DEF EdgeKeysUnique, SameKey
<1>6. OneContainsParent'
  BY <1>3, <1>4 DEF OneContainsParent
<1> QED
  BY <1>3, <1>5, <1>6

LEMMA StructureStep == TypeOK /\ TypeOK' /\ StructureOK /\ [Next]_vars => StructureOK'
<1> SUFFICES ASSUME TypeOK, TypeOK', StructureOK, [Next]_vars PROVE StructureOK'
  OBVIOUS
<1> USE DEF StructureOK
<1>1. ASSUME NEW o \in Origin, NEW scope \in SUBSET NodeIds, NEW added \in SUBSET NodeIds,
             AddNodes(o, scope, added)
      PROVE  StructureOK'
  <2>1. UNCHANGED <<edges, outgoing, incoming, l1>> /\ pc = "idle"
    BY <1>1 DEF AddNodes
  <2>2. nodes \cup gone \subseteq nodes' \cup gone'
    BY <1>1 DEF AddNodes
  <2>3. IndexesAgree' /\ EdgeKeysUnique' /\ OneContainsParent'
    BY <2>1 DEF IndexesAgree, EdgeKeysUnique, OneContainsParent, PositionsFrom, PositionsTo, SameKey
  <2>4. DanglingOnlyAfterRemoval'
    BY <2>1, <2>2 DEF DanglingOnlyAfterRemoval
  <2> QED
    BY <2>3, <2>4
<1>2. ASSUME NEW e \in Edge, AddEdge(e) PROVE StructureOK'
  <2>1. /\ edges' = Append(edges, e) /\ edges \in Seq(Edge) /\ Len(edges) \in Nat
        /\ UNCHANGED <<nodes, gone, l1, pc>> /\ pc = "add_edges"
    BY <1>2 DEF AddEdge, TypeOK
  <2>2. /\ Len(edges') = Len(edges) + 1 /\ edges'[Len(edges) + 1] = e
        /\ \A j \in 1..Len(edges) : edges'[j] = edges[j]
    BY <2>1
  <2>3. ~Present(e) /\ ~SecondParent(e) /\ ~Missing(e)
    BY <1>2 DEF AddEdge, AddEdgeErr
  <2>4. EdgeKeysUnique'
    BY <2>1, <2>2, <2>3 DEF EdgeKeysUnique, Present, SameKey
  <2>5. OneContainsParent'
    BY <2>1, <2>2, <2>3 DEF OneContainsParent, SecondParent
  <2>6. IndexesAgree'
    <3> SUFFICES ASSUME NEW n \in NodeIds
                 PROVE  outgoing'[n] = PositionsFrom(n)' /\ incoming'[n] = PositionsTo(n)'
      BY DEF IndexesAgree
    <3>1. outgoing[n] = PositionsFrom(n) /\ incoming[n] = PositionsTo(n)
      BY <2>1 DEF IndexesAgree
    <3>2. PositionsFrom(n)' = IF n = e.source THEN PositionsFrom(n) \cup {Len(edges) + 1}
                                              ELSE PositionsFrom(n)
      BY <2>1, <2>2 DEF PositionsFrom
    <3>3. PositionsTo(n)' = IF n = e.target THEN PositionsTo(n) \cup {Len(edges) + 1}
                                            ELSE PositionsTo(n)
      BY <2>1, <2>2 DEF PositionsTo
    <3> QED
      BY <1>2, <3>1, <3>2, <3>3 DEF AddEdge, TypeOK
  <2>7. DanglingOnlyAfterRemoval'
    BY <2>1, <2>2, <2>3 DEF DanglingOnlyAfterRemoval, Missing
  <2> QED
    BY <2>4, <2>5, <2>6, <2>7
<1>3. ASSUME NEW e \in Edge, Reject(e) PROVE StructureOK'
  BY <1>3 DEF Reject, graphVars, IndexesAgree, EdgeKeysUnique, OneContainsParent,
              DanglingOnlyAfterRemoval, PositionsFrom, PositionsTo, SameKey
<1>4. ASSUME EndAddEdges PROVE StructureOK'
  BY <1>4 DEF EndAddEdges, graphVars, IndexesAgree, EdgeKeysUnique, OneContainsParent,
              DanglingOnlyAfterRemoval, PositionsFrom, PositionsTo, SameKey
<1>5. ASSUME NEW i \in 1..MaxEdges, RemoveEdge(i) PROVE StructureOK'
  <2>1. /\ i \in 1..Len(edges) /\ edges' = RemoveAt(edges, i)
        /\ UNCHANGED <<nodes, gone, l1, pc>> /\ pc = "remove_edges"
    BY <1>5 DEF RemoveEdge
  <2>2. IndexesAgree'
    BY <2>1 DEF IndexesAgree
  <2>3. DanglingOnlyAfterRemoval'
    BY <2>1, RemovalKeepsEdgeFacts DEF DanglingOnlyAfterRemoval
  <2> QED
    BY <2>1, <2>2, <2>3, RemovalKeepsEdgeFacts
<1>6. ASSUME NEW removed \in SUBSET NodeIds, NEW todo \in SUBSET NodeIds,
             Finish(removed, todo)
      PROVE  StructureOK'
  <2>1. IndexesAgree'
    BY <1>6 DEF Finish, RebuildIndices, IndexesAgree, PositionsFrom, PositionsTo
  <2>2. EdgeKeysUnique' /\ OneContainsParent'
    BY <1>6 DEF Finish, EdgeKeysUnique, OneContainsParent, SameKey
  <2>3. nodes' \cup gone' = nodes \cup gone /\ edges' = edges
    BY <1>6 DEF Finish
  <2>4. l1' \subseteq nodes' \cup gone'
    BY <1>6, <2>3 DEF Finish, DanglingOnlyAfterRemoval
  <2>5. DanglingOnlyAfterRemoval'
    BY <2>3, <2>4 DEF DanglingOnlyAfterRemoval
  <2> QED
    BY <2>1, <2>2, <2>5
<1>7. ASSUME NEW n \in NodeIds, NEW first \in Replies, NEW second \in Replies,
             Enrich(n, first, second)
      PROVE  StructureOK'
  BY <1>7 DEF Enrich, Described, IndexesAgree, EdgeKeysUnique, OneContainsParent,
              DanglingOnlyAfterRemoval, PositionsFrom, PositionsTo, SameKey
<1>8. ASSUME EndEnrich PROVE StructureOK'
  BY <1>8 DEF EndEnrich, graphVars, IndexesAgree, EdgeKeysUnique, OneContainsParent,
              DanglingOnlyAfterRemoval, PositionsFrom, PositionsTo, SameKey
<1>9. CASE UNCHANGED vars
  BY <1>9 DEF vars, graphVars, IndexesAgree, EdgeKeysUnique, OneContainsParent,
              DanglingOnlyAfterRemoval, PositionsFrom, PositionsTo, SameKey
<1> QED
  BY <1>1, <1>2, <1>3, <1>4, <1>5, <1>6, <1>7, <1>8, <1>9, StepKinds

(* Whatever sequence of patches is applied, accepted or refused, the       *)
(* indexes agree with the edge list, no edge is listed twice, no node has  *)
(* two Contains parents and an edge dangles only over a removed node.      *)
THEOREM StructureCorrect ==
  Spec => [](IndexesAgree /\ EdgeKeysUnique /\ OneContainsParent /\ DanglingOnlyAfterRemoval)
<1>1. Init => StructureOK
  BY DEF Init, StructureOK, IndexesAgree, EdgeKeysUnique, OneContainsParent,
         DanglingOnlyAfterRemoval, PositionsFrom, PositionsTo
<1>2. StructureOK =>
        IndexesAgree /\ EdgeKeysUnique /\ OneContainsParent /\ DanglingOnlyAfterRemoval
  BY DEF StructureOK
<1> QED
  BY <1>1, <1>2, TypeCorrect, StructureStep, PTL DEF Spec

(* The indexes, by themselves: neighbours and predecessors can be read     *)
(* from them whenever apply_patch is not running its third loop.           *)
THEOREM IndexesCorrect == Spec => []IndexesAgree
BY StructureCorrect, PTL

----------------------------------------------------------------------------
(* While edges are being added, the graph extends what the patch found.    *)
AddingExtends ==
  pc = "add_edges" =>
    /\ before.nodes \subseteq nodes
    /\ before.edges \in Seq(Edge) /\ Len(before.edges) <= Len(edges)
    /\ \A i \in 1..Len(before.edges) : edges[i] = before.edges[i]
    /\ l1 = before.l1 /\ version = before.version

LEMMA AddingExtendsStep == TypeOK /\ AddingExtends /\ [Next]_vars => AddingExtends'
<1> SUFFICES ASSUME TypeOK, AddingExtends, [Next]_vars PROVE AddingExtends'
  OBVIOUS
<1>1. ASSUME NEW o \in Origin, NEW scope \in SUBSET NodeIds, NEW added \in SUBSET NodeIds,
             AddNodes(o, scope, added)
      PROVE  AddingExtends'
  BY <1>1 DEF AddNodes, AddingExtends, TypeOK
<1>2. ASSUME NEW e \in Edge, AddEdge(e) PROVE AddingExtends'
  BY <1>2 DEF AddEdge, AddingExtends, TypeOK
<1>3. ASSUME NEW e \in Edge, Reject(e) PROVE AddingExtends'
  BY <1>3 DEF Reject, AddingExtends
<1>4. ASSUME EndAddEdges PROVE AddingExtends'
  BY <1>4 DEF EndAddEdges, AddingExtends
<1>5. ASSUME NEW i \in 1..MaxEdges, RemoveEdge(i) PROVE AddingExtends'
  BY <1>5 DEF RemoveEdge, AddingExtends
<1>6. ASSUME NEW removed \in SUBSET NodeIds, NEW todo \in SUBSET NodeIds,
             Finish(removed, todo)
      PROVE  AddingExtends'
  BY <1>6 DEF Finish, AddingExtends
<1>7. ASSUME NEW n \in NodeIds, NEW first \in Replies, NEW second \in Replies,
             Enrich(n, first, second)
      PROVE  AddingExtends'
  BY <1>7 DEF Enrich, AddingExtends
<1>8. ASSUME EndEnrich PROVE AddingExtends'
  BY <1>8 DEF EndEnrich, AddingExtends
<1>9. CASE UNCHANGED vars
  BY <1>9 DEF vars, graphVars, AddingExtends
<1> QED
  BY <1>1, <1>2, <1>3, <1>4, <1>5, <1>6, <1>7, <1>8, <1>9, StepKinds

(* A patch that is refused half way has only added: nothing is lost,       *)
(* nothing moves, and neither L1 nor the version changes.                  *)
THEOREM RejectionOnlyAdds == Spec => RejectedPatchOnlyAdds
<1> DEFINE Shape ==
      pc = "add_edges" /\ pc' = "idle" =>
        /\ before.nodes \subseteq nodes'
        /\ IsPrefix(before.edges, edges')
        /\ l1' = before.l1 /\ version' = before.version
<1>1. Init => AddingExtends
  BY DEF Init, AddingExtends
<1>2. TypeOK /\ AddingExtends /\ [Next]_vars => [Shape]_vars
  <2> SUFFICES ASSUME TypeOK, AddingExtends, Next, pc = "add_edges", pc' = "idle"
               PROVE  Shape
    BY DEF vars
  <2>1. PICK e \in Edge : Reject(e)
    <3>1. ~UNCHANGED vars
      BY DEF vars
    <3> QED
      BY <3>1, StepKinds DEF AddNodes, AddEdge, EndAddEdges, RemoveEdge, Finish, Enrich, EndEnrich
  <2>2. UNCHANGED graphVars
    BY <2>1 DEF Reject
  <2>3. IsPrefix(before.edges, edges)
    BY DEF AddingExtends, TypeOK, IsPrefix
  <2> QED
    BY <2>2, <2>3 DEF AddingExtends, graphVars
<1> QED
  BY <1>1, <1>2, TypeCorrect, AddingExtendsStep, PTL DEF Spec, RejectedPatchOnlyAdds

----------------------------------------------------------------------------
(* The third loop.  The positions named so far lie from the cursor on and, *)
(* as long as none came twice, below it every edge of the graph that the   *)
(* patch found is still at its position: so what is taken from position i  *)
(* is the edge that was there.                                             *)
Untouched(i) == patch.named = {} \/ i < patch.cursor

NamedAreGone ==
  pc \in {"add_edges", "remove_edges"} =>
    /\ before.edges \in Seq(Edge)
    /\ \A i, j \in 1..Len(before.edges) : before.edges[i] = before.edges[j] => i = j
    /\ pc = "add_edges" => patch.named = {} /\ ~patch.repeated
    /\ ~patch.repeated =>
         /\ patch.named # {} => patch.cursor \in patch.named
         /\ \A i \in patch.named : patch.cursor <= i
         /\ \A i \in 1..Len(before.edges) :
              Untouched(i) => i <= Len(edges) /\ edges[i] = before.edges[i]
         /\ \A i \in 1..Len(before.edges) :
              i \in patch.named <=> \A j \in 1..Len(edges) : edges[j] # before.edges[i]

LEMMA EdgesUnique ==
  ASSUME TypeOK, StructureOK
  PROVE  \A i, j \in 1..Len(edges) : edges[i] = edges[j] => i = j
BY DEF StructureOK, EdgeKeysUnique, SameKey

(* One position is deleted: what was there is nowhere any more, everything *)
(* else is, and below it nothing moves.                                    *)
LEMMA RemovalTakesOneEdge ==
  ASSUME TypeOK, StructureOK, NEW i \in 1..Len(edges), edges' = RemoveAt(edges, i)
  PROVE  /\ \A j \in 1..Len(edges') : edges'[j] # edges[i]
         /\ \A k \in 1..Len(edges) : k # i => \E j \in 1..Len(edges') : edges'[j] = edges[k]
         /\ \A j \in 1..Len(edges') : \E k \in 1..Len(edges) : edges'[j] = edges[k]
         /\ \A k \in 1..Len(edges) : k < i => k <= Len(edges') /\ edges'[k] = edges[k]
<1> DEFINE old(j) == IF j < i THEN j ELSE j + 1
           new(k) == IF k < i THEN k ELSE k - 1
<1>1. Len(edges) \in Nat /\ Len(edges') = Len(edges) - 1
  BY RemoveAtShifts DEF TypeOK
<1>2. ASSUME NEW j \in 1..Len(edges')
      PROVE  old(j) \in 1..Len(edges) /\ old(j) # i /\ edges'[j] = edges[old(j)]
  <2>1. edges'[j] = IF j < i THEN edges[j] ELSE edges[j + 1]
    BY <1>1, RemoveAtShifts DEF TypeOK
  <2> QED
    BY <1>1, <2>1
<1>3. ASSUME NEW k \in 1..Len(edges), k # i
      PROVE  new(k) \in 1..Len(edges') /\ old(new(k)) = k /\ (k < i => new(k) = k)
  BY <1>1, <1>3
<1> HIDE DEF old, new
<1>4. \A j \in 1..Len(edges') : edges'[j] # edges[i]
  BY <1>2, EdgesUnique
<1>5. \A k \in 1..Len(edges) : k # i => \E j \in 1..Len(edges') : edges'[j] = edges[k]
  BY <1>2, <1>3
<1>6. \A k \in 1..Len(edges) : k < i => k <= Len(edges') /\ edges'[k] = edges[k]
  <2> SUFFICES ASSUME NEW k \in 1..Len(edges), k < i
               PROVE  k <= Len(edges') /\ edges'[k] = edges[k]
    OBVIOUS
  <2>1. k # i
    BY <1>1
  <2>2. k \in 1..Len(edges') /\ old(k) = k
    BY <2>1, <1>3
  <2> QED
    BY <2>2, <1>1, <1>2
<1> QED
  BY <1>2, <1>4, <1>5, <1>6

LEMMA RemoveEdgeNames ==
  ASSUME TypeOK, StructureOK, NamedAreGone, NEW i \in 1..MaxEdges, RemoveEdge(i)
  PROVE  NamedAreGone'
<1>1. /\ pc = "remove_edges" /\ pc' = "remove_edges" /\ before' = before
      /\ i \in 1..Len(edges) /\ i <= patch.cursor /\ edges' = RemoveAt(edges, i)
      /\ patch' = [patch EXCEPT !.cursor = i, !.named = patch.named \cup {i},
                                !.repeated = patch.repeated \/ i \in patch.named]
  BY DEF RemoveEdge
<1>2. /\ patch'.cursor = i /\ patch'.named = patch.named \cup {i}
      /\ patch'.repeated = (patch.repeated \/ i \in patch.named)
      /\ patch.cursor \in Nat /\ patch.named \in SUBSET Nat
  BY <1>1 DEF TypeOK, PatchRecord
<1>3. /\ before.edges \in Seq(Edge) /\ Len(edges) \in Nat
      /\ \A j, k \in 1..Len(before.edges) : before.edges[j] = before.edges[k] => j = k
  BY <1>1 DEF NamedAreGone, TypeOK
<1> SUFFICES ASSUME ~patch'.repeated
             PROVE  /\ patch'.named # {} => patch'.cursor \in patch'.named
                    /\ \A k \in patch'.named : patch'.cursor <= k
                    /\ \A k \in 1..Len(before.edges) :
                         Untouched(k)' => k <= Len(edges') /\ edges'[k] = before.edges[k]
                    /\ \A k \in 1..Len(before.edges) :
                         k \in patch'.named <=>
                           \A j \in 1..Len(edges') : edges'[j] # before.edges[k]
  BY <1>1, <1>3 DEF NamedAreGone
<1>4. /\ ~patch.repeated /\ i \notin patch.named
      /\ patch.named # {} => patch.cursor \in patch.named
      /\ \A k \in patch.named : patch.cursor <= k
      /\ \A k \in 1..Len(before.edges) :
           Untouched(k) => k <= Len(edges) /\ edges[k] = before.edges[k]
      /\ \A k \in 1..Len(before.edges) :
           k \in patch.named <=> \A j \in 1..Len(edges) : edges[j] # before.edges[k]
  BY <1>1, <1>2 DEF NamedAreGone
<1>5. patch.named # {} => i < patch.cursor
  BY <1>1, <1>2, <1>4
<1>6. \A k \in patch'.named : i <= k
  BY <1>2, <1>4, <1>5
<1>7. \A k \in 1..Len(before.edges) : k <= i => Untouched(k)
  BY <1>2, <1>3, <1>5 DEF Untouched
<1>8. ASSUME NEW k \in 1..Len(before.edges), Untouched(k)'
      PROVE  k <= Len(edges') /\ edges'[k] = before.edges[k]
  <2>1. k < i
    BY <1>2, <1>8 DEF Untouched
  <2>2. k \in 1..Len(edges) /\ edges[k] = before.edges[k]
    BY <2>1, <1>3, <1>4, <1>7
  <2> QED
    BY <2>1, <2>2, <1>1, RemovalTakesOneEdge
<1>9. ASSUME NEW k \in 1..Len(before.edges), k \in patch'.named,
             NEW j \in 1..Len(edges'), edges'[j] = before.edges[k]
      PROVE  FALSE
  <2>1. CASE k = i
    <3>1. edges[i] = before.edges[i]
      BY <2>1, <1>4, <1>7, <1>3
    <3> QED
      BY <2>1, <3>1, <1>1, <1>9, RemovalTakesOneEdge
  <2>2. CASE k # i
    <3>1. \A m \in 1..Len(edges) : edges[m] # before.edges[k]
      BY <2>2, <1>2, <1>4, <1>9
    <3> QED
      BY <3>1, <1>1, <1>9, RemovalTakesOneEdge
  <2> QED
    BY <2>1, <2>2
<1>10. ASSUME NEW k \in 1..Len(before.edges), k \notin patch'.named
       PROVE  \E j \in 1..Len(edges') : edges'[j] = before.edges[k]
  <2>1. PICK m \in 1..Len(edges) : edges[m] = before.edges[k]
    BY <1>2, <1>4, <1>10
  <2>2. m # i
    <3> SUFFICES ASSUME m = i PROVE FALSE
      OBVIOUS
    <3>1. k # i
      BY <1>2, <1>10
    <3>2. CASE k < i
      <4>1. k \in 1..Len(edges) /\ edges[k] = before.edges[k]
        BY <3>2, <1>3, <1>4, <1>7
      <4> QED
        BY <4>1, <2>1, <3>1, EdgesUnique
    <3>3. CASE i < k
      <4>1. i \in 1..Len(before.edges)
        BY <3>3, <1>3
      <4>2. edges[i] = before.edges[i]
        BY <4>1, <1>3, <1>4, <1>7
      <4> QED
        BY <4>1, <4>2, <2>1, <3>1, <1>3
    <3> QED
      BY <3>1, <3>2, <3>3, <1>3
  <2> QED
    BY <2>1, <2>2, <1>1, RemovalTakesOneEdge
<1> QED
  BY <1>2, <1>6, <1>8, <1>9, <1>10

LEMMA NamedStep ==
  TypeOK /\ TypeOK' /\ StructureOK /\ NamedAreGone /\ [Next]_vars => NamedAreGone'
<1> SUFFICES ASSUME TypeOK, TypeOK', StructureOK, NamedAreGone, [Next]_vars PROVE NamedAreGone'
  OBVIOUS
<1>1. ASSUME NEW o \in Origin, NEW scope \in SUBSET NodeIds, NEW added \in SUBSET NodeIds,
             AddNodes(o, scope, added)
      PROVE  NamedAreGone'
  <2>1. /\ before'.edges = edges /\ edges' = edges /\ edges \in Seq(Edge)
        /\ patch'.named = {} /\ patch'.repeated = FALSE
    BY <1>1 DEF AddNodes, TypeOK
  <2> QED
    BY <2>1, EdgesUnique DEF NamedAreGone
<1>2. ASSUME NEW e \in Edge, AddEdge(e) PROVE NamedAreGone'
  <2>1. /\ edges' = Append(edges, e) /\ edges \in Seq(Edge) /\ Len(edges) \in Nat
        /\ UNCHANGED <<pc, patch, before>> /\ pc = "add_edges"
    BY <1>2 DEF AddEdge, TypeOK
  <2>2. /\ Len(edges') = Len(edges) + 1 /\ edges'[Len(edges) + 1] = e
        /\ \A j \in 1..Len(edges) : edges'[j] = edges[j]
    BY <2>1
  <2>3. /\ before.edges \in Seq(Edge) /\ patch.named = {} /\ ~patch.repeated
        /\ \A i, j \in 1..Len(before.edges) : before.edges[i] = before.edges[j] => i = j
        /\ \A i \in 1..Len(before.edges) : i <= Len(edges) /\ edges[i] = before.edges[i]
    BY <2>1 DEF NamedAreGone, Untouched
  <2>4. \A i \in 1..Len(before.edges) : i \in 1..Len(edges') /\ edges'[i] = before.edges[i]
    BY <2>1, <2>2, <2>3
  <2> QED
    BY <2>1, <2>3, <2>4 DEF NamedAreGone
<1>3. ASSUME NEW e \in Edge, Reject(e) PROVE NamedAreGone'
  BY <1>3 DEF Reject, NamedAreGone
<1>4. ASSUME EndAddEdges PROVE NamedAreGone'
  BY <1>4 DEF EndAddEdges, graphVars, NamedAreGone, Untouched
<1>5. ASSUME NEW i \in 1..MaxEdges, RemoveEdge(i) PROVE NamedAreGone'
  BY <1>5, RemoveEdgeNames
<1>6. ASSUME NEW removed \in SUBSET NodeIds, NEW todo \in SUBSET NodeIds,
             Finish(removed, todo)
      PROVE  NamedAreGone'
  BY <1>6 DEF Finish, NamedAreGone
<1>7. ASSUME NEW n \in NodeIds, NEW first \in Replies, NEW second \in Replies,
             Enrich(n, first, second)
      PROVE  NamedAreGone'
  BY <1>7 DEF Enrich, NamedAreGone
<1>8. ASSUME EndEnrich PROVE NamedAreGone'
  BY <1>8 DEF EndEnrich, NamedAreGone
<1>9. CASE UNCHANGED vars
  BY <1>9 DEF vars, graphVars, NamedAreGone, Untouched
<1> QED
  BY <1>1, <1>2, <1>3, <1>4, <1>5, <1>6, <1>7, <1>8, <1>9, StepKinds

(* A patch that names every position once removes exactly the edges it     *)
(* named, counted in the graph it was made for, though each removal moves  *)
(* those after it and edges were appended first.                           *)
THEOREM RemovesWhatItNames == Spec => DistinctPositionsRemoveNamedEdges
<1> DEFINE Shape ==
      pc = "remove_edges" /\ pc' # "remove_edges" /\ ~patch.repeated =>
        \A i \in 1..Len(before.edges) :
          (i \in patch.named) <=> (\A j \in 1..Len(edges') : edges'[j] # before.edges[i])
<1>1. Init => StructureOK /\ NamedAreGone
  BY DEF Init, StructureOK, IndexesAgree, EdgeKeysUnique, OneContainsParent,
         DanglingOnlyAfterRemoval, PositionsFrom, PositionsTo, NamedAreGone
<1>2. NamedAreGone /\ [Next]_vars => [Shape]_vars
  <2> SUFFICES ASSUME NamedAreGone, Next, pc = "remove_edges", pc' # "remove_edges",
                      ~patch.repeated
               PROVE  Shape
    BY DEF vars
  <2>1. PICK removed, todo \in SUBSET NodeIds : Finish(removed, todo)
    <3>1. ~UNCHANGED vars
      BY DEF vars
    <3> QED
      BY <3>1, StepKinds DEF AddNodes, AddEdge, Reject, EndAddEdges, RemoveEdge, Enrich, EndEnrich
  <2>2. edges' = edges
    BY <2>1 DEF Finish
  <2> QED
    BY <2>2 DEF NamedAreGone
<1> QED
  BY <1>1, <1>2, TypeCorrect, StructureStep, NamedStep, PTL
     DEF Spec, DistinctPositionsRemoveNamedEdges
============================================================================
