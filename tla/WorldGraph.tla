----------------------------- MODULE WorldGraph -----------------------------
(***************************************************************************)
(* The world graph of src/graph/mod.rs: nodes, an edge list addressed by   *)
(* position, the two adjacency indexes kept beside it, the per-node L1     *)
(* descriptions and the version counter, together with every way the       *)
(* program changes them: `Graph::apply_patch` on behalf of the proposer    *)
(* and of the three repair paths of src/agent/repairer.rs, and the L1      *)
(* enricher of src/agent/enricher.rs.                                      *)
(*                                                                         *)
(* `apply_patch` runs under `&mut self`, so nothing interleaves with it.   *)
(* Its loops are nevertheless taken one iteration per step (`pc` says      *)
(* which loop is running, and no other operation is enabled meanwhile):    *)
(* the function leaves early in the middle of the second loop, and what it *)
(* leaves behind is the point of the model.  The elements of the patch are *)
(* drawn from the environment as the loops reach them.                     *)
(***************************************************************************)
EXTENDS Naturals, Sequences, SequencesExt

CONSTANTS
  NodeIds,            (* the node ids a patch may mention                  *)
  Relations,          (* relation types; "Contains" is the special one     *)
  NeighborhoodDepth,  (* LocalRepairer::neighborhood_depth                 *)
  MaxEdges,           (* bound: longest edge list                          *)
  MaxVersion          (* bound: accepted patches                           *)

ASSUME BoundsAssumption ==
  /\ "Contains" \in Relations
  /\ NeighborhoodDepth \in Nat
  /\ MaxEdges \in Nat
  /\ MaxVersion \in Nat

VARIABLES
  nodes,      (* keys of Graph::nodes                                      *)
  edges,      (* Graph::edges, by position                                 *)
  outgoing,   (* outgoing_idx: positions of the edges leaving a node       *)
  incoming,   (* incoming_idx: positions of the edges entering a node      *)
  l1,         (* keys of the L1Store                                       *)
  version,
  pc,         (* the loop of apply_patch that is running, or "idle"        *)
  patch,      (* who sent the running patch, its scope, the position last  *)
              (* removed; `named` collects the positions it has removed,   *)
              (* `todo` holds the new nodes that are still to be described *)
  before,     (* history: the graph as the running patch found it          *)
  gone        (* history: ids removed and not added again                  *)

graphVars == <<nodes, edges, outgoing, incoming, l1, version>>
vars == <<graphVars, pc, patch, before, gone>>

Edge == [source : NodeIds, target : NodeIds, relation : Relations]

(* Who builds a patch: the proposer, or one of LocalRepairer's three paths *)
Origin == {"proposer", "l0_repair", "l1_repair", "scope_gap"}

----------------------------------------------------------------------------
(* Positions of the edges that satisfy the adjacency indexes' definition.  *)

PositionsFrom(n) == {i \in 1..Len(edges) : edges[i].source = n}
PositionsTo(n)   == {i \in 1..Len(edges) : edges[i].target = n}

(* Graph::outgoing and Graph::incoming go through the indexes, not through *)
(* the edge list; neighbors and predecessors are built on them.            *)
Neighbors ==
  [n \in NodeIds |-> {edges[i].target : i \in outgoing[n] \cap (1..Len(edges))}]
Predecessors ==
  [n \in NodeIds |-> {edges[i].source : i \in incoming[n] \cap (1..Len(edges))}]

(* bfs_from and bfs_reverse_from, bounded by a depth, from the centers     *)
(* that exist.                                                             *)
Reached(adjacent, centers) ==
  LET hop[d \in 0..NeighborhoodDepth] ==
        IF d = 0 THEN centers \cap nodes
        ELSE hop[d - 1] \cup UNION {adjacent[n] : n \in hop[d - 1]}
  IN  hop[NeighborhoodDepth]

(* subgraph_for_scope: what is walked over from the scope, missing nodes   *)
(* at the end of an edge included; an issue without a scope takes it all.  *)
Walked(scope) ==
  IF scope = {} THEN NodeIds
  ELSE NodeIds \cap (Reached(Neighbors, scope) \cup Reached(Predecessors, scope))

(* The nodes of Graph::local_subgraph. *)
Neighborhood(scope) == nodes \cap Walked(scope)

----------------------------------------------------------------------------
(* Graph::add_edge: its two errors and its no-op.                          *)

(* Mutant: only the source has to be a node.                               *)
MissingSource(e) == e.source \notin nodes
Missing(e) == e.source \notin nodes \/ e.target \notin nodes

SameKey(e, f) == /\ e.source = f.source
                 /\ e.target = f.target
                 /\ e.relation = f.relation

(* Mutant: the duplicate check compares with the last edge only. *)
PresentLastOnly(e) == Len(edges) > 0 /\ SameKey(edges[Len(edges)], e)
Present(e) == \E i \in 1..Len(edges) : SameKey(edges[i], e)

SecondParent(e) ==
  /\ e.relation = "Contains"
  /\ \E i \in 1..Len(edges) :
       edges[i].relation = "Contains" /\ edges[i].target = e.target

AddEdgeErr(e) == Missing(e) \/ (~Present(e) /\ SecondParent(e))

(* Mutant: the indexes keep the positions the edges had before removal. *)
KeepIndices == UNCHANGED <<outgoing, incoming>>

(* Graph::rebuild_indices, on the edge list the step leaves behind.        *)
RebuildIndices ==
  /\ outgoing' = [n \in NodeIds |-> {i \in 1..Len(edges') : edges'[i].source = n}]
  /\ incoming' = [n \in NodeIds |-> {i \in 1..Len(edges') : edges'[i].target = n}]

----------------------------------------------------------------------------
(* LocalRepairer: which of its paths an issue takes.                       *)

(* A VerifyIssue, by what its text is searched for: it begins as an L1     *)
(* drift, it speaks of a scope, a range or a missing module.               *)
Issues == [drift : BOOLEAN, gap : BOOLEAN]

Path(issue) ==
  CASE issue.drift -> "l1_repair"
    [] ~issue.drift /\ issue.gap -> "scope_gap"
    [] OTHER -> "l0_repair"

(* validate_scope, on the edges of an L0 patch. *)
InScope(S) == patch.origin = "l0_repair" => S \subseteq patch.allowed

(* The positions of an L0 patch count the edges of the subgraph, and are   *)
(* looked up in the graph as it was before the patch.                      *)
MayRemove(i) ==
  patch.origin = "l0_repair" =>
    /\ i <= Len(before.edges)
    /\ {before.edges[i].source, before.edges[i].target} \subseteq patch.allowed \cap patch.walked

(* L1Enricher::enrich_node.  The model is asked once more when its reply   *)
(* is not an object with a text, but not when the call fails.              *)
Replies == {"failed", "malformed", "blank", "description"}
Readable(reply) == reply = "description"
Described(n, first, second) ==
  /\ n \in nodes
  /\ Readable(first) \/ (first # "failed" /\ Readable(second))

NoPatch  == [origin |-> "none", scope |-> {}, allowed |-> {}, walked |-> {},
             todo |-> {}, cursor |-> 0, named |-> {}, repeated |-> FALSE]
NoBefore == [nodes |-> {}, edges |-> <<>>, l1 |-> {}, version |-> 0]

Init ==
  /\ nodes = {} /\ edges = <<>>
  /\ outgoing = [n \in NodeIds |-> {}]
  /\ incoming = [n \in NodeIds |-> {}]
  /\ l1 = {} /\ version = 0
  /\ pc = "idle" /\ patch = NoPatch /\ before = NoBefore
  /\ gone = {}

(* apply_patch, first loop: every add_node inserts or replaces the node.   *)
AddNodes(origin, scope, added) ==
  /\ pc = "idle" /\ version < MaxVersion
  /\ patch' = [origin |-> origin, scope |-> scope,
               allowed |-> scope \cup Neighborhood(scope) \cup added,
               walked |-> Walked(scope),
               todo |-> IF origin = "proposer" THEN added ELSE {},
               cursor |-> MaxEdges, named |-> {}, repeated |-> FALSE]
  /\ before' = [nodes |-> nodes, edges |-> edges, l1 |-> l1, version |-> version]
  /\ nodes' = nodes \cup added
  /\ gone' = gone \ added
  /\ pc' = IF origin = "l1_repair" THEN "remove_edges" ELSE "add_edges"
  /\ UNCHANGED <<edges, outgoing, incoming, l1, version>>

(* A patch of GraphProposer, and one that replaces a failed node.          *)
Propose(added) == AddNodes("proposer", {}, added)

(* repair_l0_structural: the nodes an issue is about need not exist.       *)
RepairL0(scope, added) == AddNodes("l0_repair", scope, added)

(* repair_l1_semantic: one node of the graph, which the enricher has       *)
(* described anew before the patch is made; nothing else changes.          *)
RepairL1(n, first, second) ==
  /\ Described(n, first, second)
  /\ AddNodes("l1_repair", {n}, {})

(* repair_scope_gap: no scope is looked at, and nothing may be removed.    *)
RepairScopeGap(added) == AddNodes("scope_gap", {}, added)

(* LocalRepairer::repair, for an issue about the nodes of scope.           *)
Repair(issue, scope, added) ==
  \/ Path(issue) = "l0_repair" /\ RepairL0(scope, added)
  \/ Path(issue) = "scope_gap" /\ RepairScopeGap(added)
  \/ /\ Path(issue) = "l1_repair" /\ added = {}
     /\ \E n \in scope, first, second \in Replies :
          scope = {n} /\ RepairL1(n, first, second)

(* Second loop, an edge that is new: appended, and pushed on both indexes. *)
AddEdge(e) ==
  /\ pc = "add_edges" /\ InScope({e.source, e.target})
  /\ ~AddEdgeErr(e) /\ ~Present(e)
  /\ Len(edges) < MaxEdges
  /\ edges' = Append(edges, e)
  /\ outgoing' = [outgoing EXCEPT ![e.source] = @ \cup {Len(edges) + 1}]
  /\ incoming' = [incoming EXCEPT ![e.target] = @ \cup {Len(edges) + 1}]
  /\ UNCHANGED <<nodes, l1, version, pc, patch, before, gone>>

(* Second loop, an edge add_edge refuses: `?` leaves apply_patch at once,  *)
(* with the nodes and the edges added so far in place.  An edge already    *)
(* present is a no-op of the loop and needs no step.                       *)
Reject(e) ==
  /\ pc = "add_edges" /\ InScope({e.source, e.target})
  /\ AddEdgeErr(e)
  /\ pc' = "idle" /\ patch' = NoPatch /\ before' = NoBefore
  /\ UNCHANGED <<graphVars, gone>>

EndAddEdges ==
  /\ pc = "add_edges"
  /\ pc' = "remove_edges"
  /\ UNCHANGED <<graphVars, patch, before, gone>>

(* Mutant: the positions are taken in the order the patch lists them. *)
RemoveEdgeUnsorted(i) ==
  /\ pc = "remove_edges" /\ patch.origin \in {"proposer", "l0_repair"}
  /\ i \in 1..Len(edges) /\ MayRemove(i)
  /\ edges' = RemoveAt(edges, i)
  /\ patch' = [patch EXCEPT !.cursor = i,
                            !.named = @ \cup {i},
                            !.repeated = @ \/ i \in patch.named]
  /\ UNCHANGED <<nodes, outgoing, incoming, l1, version, pc, before, gone>>

(* Third loop: the positions are sorted in descending order and not made   *)
(* distinct, so a position named twice is removed twice.  A position past  *)
(* the end is ignored (no step).                                           *)
RemoveEdge(i) ==
  /\ pc = "remove_edges" /\ patch.origin \in {"proposer", "l0_repair"}
  /\ i \in 1..Len(edges) /\ i <= patch.cursor /\ MayRemove(i)
  /\ edges' = RemoveAt(edges, i)
  /\ patch' = [patch EXCEPT !.cursor = i,
                            !.named = @ \cup {i},
                            !.repeated = @ \/ i \in patch.named]
  /\ UNCHANGED <<nodes, outgoing, incoming, l1, version, pc, before, gone>>

(* The rest of apply_patch: remove nodes (their edges and their L1 stay),  *)
(* rebuild the indexes, set L1 on nodes that exist, bump the version.      *)
(* After a patch of the proposer its new nodes are described, if the loop  *)
(* has an enricher; a redesign is not followed by that.                    *)
Finish(removed, todo) ==
  /\ pc = "remove_edges"
  /\ patch.origin = "l0_repair" => removed \subseteq patch.scope
  /\ patch.origin \in {"l1_repair", "scope_gap"} => removed = {}
  /\ nodes' = nodes \ removed
  /\ gone' = gone \cup (nodes \cap removed)
  /\ UNCHANGED edges
  /\ RebuildIndices
  /\ l1' = IF patch.origin = "l1_repair" THEN l1 \cup (patch.scope \cap nodes') ELSE l1
  /\ version' = version + 1
  /\ todo \in {{}, patch.todo}
  /\ pc' = IF todo = {} THEN "idle" ELSE "enrich"
  /\ patch' = [NoPatch EXCEPT !.todo = todo] /\ before' = NoBefore

(* L1Enricher::enrich_missing, one of the ids: an id the same patch has    *)
(* removed again, or one the model fails on, is skipped.                   *)
Enrich(n, first, second) ==
  /\ pc = "enrich" /\ n \in patch.todo
  /\ l1' = IF Described(n, first, second) THEN l1 \cup {n} ELSE l1
  /\ patch' = [patch EXCEPT !.todo = @ \ {n}]
  /\ UNCHANGED <<nodes, edges, outgoing, incoming, version, pc, before, gone>>

EndEnrich ==
  /\ pc = "enrich" /\ patch.todo = {}
  /\ pc' = "idle" /\ patch' = NoPatch /\ before' = NoBefore
  /\ UNCHANGED <<graphVars, gone>>

Next ==
  \/ \E added \in SUBSET NodeIds : Propose(added)
  \/ \E issue \in Issues, scope, added \in SUBSET NodeIds : Repair(issue, scope, added)
  \/ \E e \in Edge : AddEdge(e)
  \/ \E e \in Edge : Reject(e)
  \/ EndAddEdges
  \/ \E i \in 1..MaxEdges : RemoveEdge(i)
  \/ \E removed, todo \in SUBSET NodeIds : Finish(removed, todo)
  \/ \E n \in NodeIds, first, second \in Replies : Enrich(n, first, second)
  \/ EndEnrich

Spec == Init /\ [][Next]_vars

----------------------------------------------------------------------------
PatchRecord == [origin : Origin \cup {"none"}, scope : SUBSET NodeIds,
                allowed : SUBSET NodeIds, walked : SUBSET NodeIds,
                todo : SUBSET NodeIds, cursor : Nat, named : SUBSET Nat,
                repeated : BOOLEAN]

(* Types, and: only a running patch has a scope, a cursor and a snapshot.  *)
TypeOK ==
  /\ nodes \subseteq NodeIds /\ l1 \subseteq NodeIds /\ gone \subseteq NodeIds
  /\ edges \in Seq(Edge)
  /\ outgoing \in [NodeIds -> SUBSET Nat]
  /\ incoming \in [NodeIds -> SUBSET Nat]
  /\ version \in Nat
  /\ pc \in {"idle", "add_edges", "remove_edges", "enrich"}
  /\ patch \in PatchRecord
  /\ pc = "idle" => patch = NoPatch /\ before = NoBefore

(* The two indexes hold exactly the positions of the edges at each node    *)
(* whenever they can be read: also after a patch that failed half way,     *)
(* which returns without reaching rebuild_indices.                         *)
IndexesAgree ==
  pc # "remove_edges" =>
    \A n \in NodeIds : outgoing[n] = PositionsFrom(n) /\ incoming[n] = PositionsTo(n)

(* No two positions hold the same (source, target, relation), whatever     *)
(* patches have been applied, accepted or refused (the idempotence comment *)
(* of add_edge: the list must not inflate under re-proposals).             *)
EdgeKeysUnique ==
  \A i, j \in 1..Len(edges) : SameKey(edges[i], edges[j]) => i = j

(* "Containment is a tree": no node has two Contains parents.              *)
OneContainsParent ==
  \A i, j \in 1..Len(edges) :
    (/\ edges[i].relation = "Contains" /\ edges[j].relation = "Contains"
     /\ edges[i].target = edges[j].target) => i = j

(* An edge dangles only where an accepted patch removed the node and kept  *)
(* the edge, and L1 text without a node is likewise left by a removal:     *)
(* nothing else takes a node from under an edge or a description.          *)
DanglingOnlyAfterRemoval ==
  /\ \A i \in 1..Len(edges) : {edges[i].source, edges[i].target} \subseteq nodes \cup gone
  /\ l1 \subseteq nodes \cup gone

(* A patch that apply_patch refuses may leave additions behind, and only   *)
(* additions: no node or edge is lost, no edge moves to another position,  *)
(* and neither L1 nor the version changes (proved in WorldGraphProofs).    *)
RejectedPatchOnlyAdds ==
  [][pc = "add_edges" /\ pc' = "idle" =>
       /\ before.nodes \subseteq nodes'
       /\ IsPrefix(before.edges, edges')
       /\ l1' = before.l1 /\ version' = before.version]_vars

(* "Patch REJECTED ... The graph was not modified", the proposer is told.  *)
(* The run refused_patch shows that nodes and edges of it stay.            *)
RefusedPatchChangesNothing ==
  [][pc = "add_edges" /\ pc' = "idle" /\ patch.origin = "proposer" =>
       nodes' = before.nodes /\ edges' = before.edges]_vars

(* A patch whose positions are distinct removes exactly the edges the      *)
(* positions named when the patch arrived, however many it removes and     *)
(* whatever it appended first.                                             *)
DistinctPositionsRemoveNamedEdges ==
  [][pc = "remove_edges" /\ pc' # "remove_edges" /\ ~patch.repeated =>
       \A i \in 1..Len(before.edges) :
         (i \in patch.named) <=> (\A j \in 1..Len(edges') : edges'[j] # before.edges[i])]_vars
============================================================================
