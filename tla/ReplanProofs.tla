----------------------------- MODULE ReplanProofs ----------------------------
(***************************************************************************)
(* Theorems of Replan and of the search it takes its steps from, for any   *)
(* set of ids, any graphs to start from, any patches and any limits.       *)
(*                                                                         *)
(* First the search by itself: SearchInv is inductive.  Its core: the path *)
(* holds exactly the nodes in progress, each leading to the next, and what *)
(* is done leads only to what is done and contains no knot.  Marking one   *)
(* more node keeps that: a knot through it would leave, without it, a knot *)
(* among the others.                                                       *)
(*                                                                         *)
(* Then the life of the graph: what an inspection has established when it  *)
(* is half done, what the gate has established and nothing has undone, and *)
(* whom the cascade has still to ask.                                      *)
(***************************************************************************)
EXTENDS Replan, SequenceTheorems, TLAPS

OnPath ==
  /\ Len(path) = Len(stack) \/ Len(path) + 1 = Len(stack)
  /\ \A k \in 1..Len(path) : /\ path[k] = stack[k]
                             /\ path[k] \in nodes /\ mark[path[k]] = "in_progress"
  /\ Len(path) + 1 = Len(stack) => mark[stack[Len(stack)]] = "unseen"
  /\ \A i \in Ids : mark[i] = "in_progress" => \E k \in 1..Len(path) : path[k] = i
  /\ \A j, k \in 1..Len(path) : path[j] = path[k] => j = k
  /\ \A k \in 1..Len(stack) - 1 : <<stack[k], stack[k + 1]>> \in arcs

DoneIsClosed ==
  \A i \in Ids : mark[i] = "done" =>
    /\ i \in nodes
    /\ \A n \in Ids : <<i, n>> \in arcs => mark[n] = "done"

NoKnotDone ==
  \A S \in SUBSET Ids : (\A s \in S : mark[s] = "done") => ~Knot(S)

SearchInv ==
  /\ SearchTypeOK /\ FindsExactlyCycles
  /\ result = "searching" => OnPath /\ DoneIsClosed /\ NoKnotDone

(* What the model leaves out cannot happen: no node on the stack is done.  *)
OnTheStack ==
  result = "searching" => \A k \in 1..Len(stack) : mark[stack[k]] # "done"

----------------------------------------------------------------------------
LEMMA InitInv == SearchInit => SearchInv
<1> SUFFICES ASSUME SearchInit PROVE SearchInv
  OBVIOUS
<1>1. SearchTypeOK
  BY DEF SearchInit, SearchTypeOK, AllUnseen, Mark
<1>2. FindsExactlyCycles
  BY DEF SearchInit, FindsExactlyCycles
<1>3. OnPath /\ DoneIsClosed
  BY DEF SearchInit, OnPath, DoneIsClosed, AllUnseen
<1>4. NoKnotDone
  BY DEF SearchInit, NoKnotDone, AllUnseen, Knot
<1> QED
  BY <1>1, <1>2, <1>3, <1>4 DEF SearchInv

(* Where the node on top is in progress, the path is the whole stack.      *)
LEMMA ExpandingPath ==
  ASSUME SearchInv, Expanding
  PROVE  /\ Len(path) = Len(stack) /\ Len(path) \in Nat \ {0}
         /\ Top \in nodes /\ Top \in Ids /\ Top = path[Len(path)]
<1>1. SearchTypeOK /\ OnPath /\ stack # <<>> /\ mark[stack[Len(stack)]] = "in_progress"
  BY DEF SearchInv, Expanding, Searching, Top
<1>2. Len(path) = Len(stack)
  BY <1>1 DEF OnPath
<1>3. Len(stack) \in Nat \ {0}
  BY <1>1 DEF SearchTypeOK
<1> QED
  BY <1>1, <1>2, <1>3 DEF OnPath, SearchTypeOK, Top

LEMMA TakeStartInv == ASSUME SearchInv, NEW s \in Ids, TakeStart(s) PROVE SearchInv'
<1> USE DEF TakeStart, Searching
<1>1. SearchTypeOK'
  BY DEF SearchInv, SearchTypeOK
<1>2. FindsExactlyCycles'
  BY DEF FindsExactlyCycles
<1>3. OnPath'
  <2>1. \A i \in Ids : mark[i] # "in_progress"
    BY DEF SearchInv, OnPath, SearchTypeOK
  <2> QED
    BY <2>1 DEF OnPath
<1>4. DoneIsClosed' /\ NoKnotDone'
  BY DEF SearchInv, DoneIsClosed, NoKnotDone, Knot
<1> QED
  BY <1>1, <1>2, <1>3, <1>4 DEF SearchInv

LEMMA EnterInv == ASSUME SearchInv, Enter PROVE SearchInv'
<1> USE DEF Enter, Searching, Top
<1>1. /\ SearchTypeOK /\ OnPath /\ DoneIsClosed /\ NoKnotDone
      /\ Len(stack) \in Nat \ {0} /\ stack[Len(stack)] \in Ids
  BY DEF SearchInv, SearchTypeOK
<1>2. Len(path) + 1 = Len(stack)
  BY <1>1 DEF OnPath
<1>3. SearchTypeOK'
  BY <1>1 DEF SearchTypeOK, Mark
<1>4. FindsExactlyCycles'
  BY DEF FindsExactlyCycles
<1>5. OnPath'
  <2>1. /\ Len(path') = Len(stack)
        /\ \A k \in 1..Len(path) : path'[k] = path[k]
        /\ path'[Len(stack)] = stack[Len(stack)]
    BY <1>1, <1>2 DEF SearchTypeOK
  <2>2. \A i \in Ids : mark'[i] = IF i = stack[Len(stack)] THEN "in_progress" ELSE mark[i]
    BY <1>1 DEF SearchTypeOK
  <2>3. \A k \in 1..Len(path') : k = Len(stack) \/ k \in 1..Len(path)
    BY <2>1, <1>1, <1>2
  <2>4. \A k \in 1..Len(path) : path[k] \in Ids /\ path[k] # stack[Len(stack)]
    BY <1>1 DEF OnPath, SearchTypeOK
  <2>5. \A k \in 1..Len(path') : /\ path'[k] = stack[k]
                                 /\ path'[k] \in nodes /\ mark'[path'[k]] = "in_progress"
    BY <2>1, <2>2, <2>3, <2>4, <1>1 DEF OnPath
  <2>6. \A i \in Ids : mark'[i] = "in_progress" => \E k \in 1..Len(path') : path'[k] = i
    <3> SUFFICES ASSUME NEW i \in Ids, mark'[i] = "in_progress"
                 PROVE  \E k \in 1..Len(path') : path'[k] = i
      OBVIOUS
    <3>1. CASE i = stack[Len(stack)]
      BY <3>1, <2>1, <1>1
    <3>2. CASE i # stack[Len(stack)]
      BY <3>2, <2>1, <2>2, <1>1, <1>2 DEF OnPath
    <3> QED
      BY <3>1, <3>2
  <2>7. \A j, k \in 1..Len(path') : path'[j] = path'[k] => j = k
    BY <2>1, <2>3, <2>4, <1>1 DEF OnPath
  <2> QED
    BY <2>1, <2>5, <2>6, <2>7, <1>1 DEF OnPath
<1>6. \A i \in Ids : mark'[i] = "done" <=> mark[i] = "done"
  BY <1>1 DEF SearchTypeOK
<1>7. DoneIsClosed'
  BY <1>1, <1>6 DEF DoneIsClosed
<1>8. NoKnotDone'
  BY <1>1, <1>6 DEF NoKnotDone, Knot
<1> QED
  BY <1>3, <1>4, <1>5, <1>7, <1>8 DEF SearchInv

LEMMA DescendInv == ASSUME SearchInv, NEW n \in Ids, Descend(n) PROVE SearchInv'
<1> USE DEF Descend
<1>1. /\ SearchTypeOK /\ OnPath /\ DoneIsClosed /\ NoKnotDone /\ result = "searching"
  BY DEF SearchInv, Expanding, Searching
<1>2. /\ Len(path) = Len(stack) /\ Len(path) \in Nat \ {0} /\ Top = stack[Len(stack)]
  BY ExpandingPath DEF Top
<1>3. SearchTypeOK'
  BY <1>1 DEF SearchTypeOK
<1>4. FindsExactlyCycles'
  BY <1>1 DEF FindsExactlyCycles
<1>5. OnPath'
  <2>1. /\ Len(stack') = Len(stack) + 1
        /\ \A k \in 1..Len(stack) : stack'[k] = stack[k]
        /\ stack'[Len(stack) + 1] = n
    BY <1>1, <1>2 DEF SearchTypeOK
  <2>2. \A k \in 1..Len(stack') - 1 : <<stack'[k], stack'[k + 1]>> \in arcs
    <3> SUFFICES ASSUME NEW k \in 1..Len(stack) PROVE <<stack'[k], stack'[k + 1]>> \in arcs
      BY <2>1, <1>2
    <3>1. CASE k = Len(stack)
      BY <3>1, <2>1, <1>2
    <3>2. CASE k # Len(stack)
      BY <3>2, <2>1, <1>1, <1>2 DEF OnPath
    <3> QED
      BY <3>1, <3>2
  <2> QED
    BY <2>1, <2>2, <1>1, <1>2 DEF OnPath
<1>6. DoneIsClosed' /\ NoKnotDone'
  BY <1>1 DEF DoneIsClosed, NoKnotDone, Knot
<1> QED
  BY <1>3, <1>4, <1>5, <1>6 DEF SearchInv

LEMMA WithinPath ==
  ASSUME NEW len \in Nat, NEW pos \in 1..len, NEW i \in 1..len - pos + 1, i # len - pos + 1
  PROVE  i + 1 \in 1..len - pos + 1 /\ pos + i \in 1..len /\ pos + i - 1 \in 1..len - 1
OBVIOUS

LEMMA CloseInv == ASSUME SearchInv, NEW n \in Ids, Close(n) PROVE SearchInv'
<1> USE DEF Close
<1>1. SearchTypeOK /\ OnPath /\ result = "searching"
  BY DEF SearchInv, Expanding, Searching
<1>2. /\ Len(path) = Len(stack) /\ Len(path) \in Nat \ {0} /\ Top = path[Len(path)]
  BY ExpandingPath
<1>3. PICK pos \in 1..Len(path) :
        path[pos] = n /\ cycle' = Append(SubSeq(path, pos, Len(path)), n)
  OBVIOUS
<1> DEFINE part == SubSeq(path, pos, Len(path))
           size == Len(path) - pos + 1
<1>4. /\ part \in Seq(Ids) /\ Len(part) = size /\ size \in Nat \ {0}
      /\ \A i \in 1..size : part[i] = path[pos + i - 1]
  BY <1>1, <1>2 DEF SearchTypeOK
<1>5. /\ cycle' \in Seq(Ids) /\ Len(cycle') = size + 1
      /\ \A i \in 1..size : cycle'[i] = path[pos + i - 1]
      /\ cycle'[size + 1] = n
  <2> HIDE DEF part
  <2>1. cycle' = Append(part, n)
    BY <1>3 DEF part
  <2> QED
    BY <2>1, <1>4
<1>6. SearchTypeOK'
  BY <1>1, <1>5 DEF SearchTypeOK
<1>7. IsCycle(cycle)'
  <2>1. cycle'[1] = cycle'[Len(cycle')]
    BY <1>2, <1>3, <1>4, <1>5
  <2>2. ASSUME NEW i \in 1..size
        PROVE  cycle'[i] \in nodes /\ <<cycle'[i], cycle'[i + 1]>> \in arcs
    <3>1. cycle'[i] = path[pos + i - 1] /\ pos + i - 1 \in 1..Len(path)
      BY <1>2, <1>3, <1>5
    <3>2. cycle'[i] \in nodes
      BY <3>1, <1>1 DEF OnPath
    <3>3. CASE i = size
      <4>1. pos + i - 1 = Len(path) /\ cycle'[i + 1] = n
        BY <3>3, <1>2, <1>5
      <4>2. cycle'[i] = Top
        BY <4>1, <3>1, <1>2
      <4> QED
        BY <3>2, <4>1, <4>2
    <3>4. CASE i # size
      <4>1. i + 1 \in 1..size /\ pos + i \in 1..Len(path) /\ pos + i - 1 \in 1..Len(stack) - 1
        <5>1. /\ Len(path) \in Nat /\ Len(stack) = Len(path)
              /\ i \in 1..Len(path) - pos + 1 /\ i # Len(path) - pos + 1
          BY <3>4, <1>2
        <5> QED
          BY <5>1, WithinPath
      <4>2. cycle'[i + 1] = path[pos + i]
        BY <4>1, <1>5, <1>2
      <4>3. <<stack[pos + i - 1], stack[pos + i]>> \in arcs
        BY <4>1, <1>1, <1>2 DEF OnPath
      <4> QED
        BY <3>1, <3>2, <4>1, <4>2, <4>3, <1>1 DEF OnPath
    <3> QED
      BY <3>2, <3>3, <3>4
  <2>3. Len(cycle') > 1 /\ 1..Len(cycle') - 1 = 1..size
    BY <1>4, <1>5
  <2>4. nodes' = nodes /\ arcs' = arcs
    OBVIOUS
  <2> HIDE DEF size
  <2> QED
    BY <2>1, <2>2, <2>3, <2>4 DEF IsCycle
<1> QED
  BY <1>6, <1>7 DEF SearchInv, FindsExactlyCycles

(* The last node of a knot to be done would have had all the others done   *)
(* before it, and those only lead to done nodes.                           *)
LEMMA LeaveInv == ASSUME SearchInv, Leave PROVE SearchInv'
<1> USE DEF Leave
<1>1. /\ SearchTypeOK /\ OnPath /\ DoneIsClosed /\ NoKnotDone /\ result = "searching"
  BY DEF SearchInv, Expanding, Searching
<1>2. /\ Len(path) = Len(stack) /\ Len(path) \in Nat \ {0}
      /\ Top \in nodes /\ Top \in Ids /\ Top = path[Len(path)]
  BY ExpandingPath
<1>3. \A i \in Ids : mark'[i] = IF i = Top THEN "done" ELSE mark[i]
  BY <1>1, <1>2 DEF SearchTypeOK
<1>4. /\ path' \in Seq(Ids) /\ Len(path') = Len(path) - 1
      /\ \A k \in 1..Len(path) - 1 : path'[k] = path[k]
  BY <1>1, <1>2 DEF SearchTypeOK, Pop
<1>5. /\ stack' \in Seq(Ids) /\ Len(stack') = Len(stack) - 1
      /\ \A k \in 1..Len(stack) - 1 : stack'[k] = stack[k]
  BY <1>1, <1>2 DEF SearchTypeOK, Pop
<1>6. SearchTypeOK'
  BY <1>1, <1>2, <1>4, <1>5 DEF SearchTypeOK, Mark
<1>7. FindsExactlyCycles'
  BY <1>1 DEF FindsExactlyCycles
<1>8. OnPath'
  <2>1. \A k \in 1..Len(path') : path[k] # Top /\ path[k] \in Ids
    BY <1>1, <1>2, <1>4 DEF OnPath, SearchTypeOK
  <2>2. \A k \in 1..Len(path') : /\ path'[k] = stack'[k]
                                 /\ path'[k] \in nodes /\ mark'[path'[k]] = "in_progress"
    <3> SUFFICES ASSUME NEW k \in 1..Len(path')
                 PROVE  /\ path'[k] = stack'[k]
                        /\ path'[k] \in nodes /\ mark'[path'[k]] = "in_progress"
      OBVIOUS
    <3>1. k \in 1..Len(path) - 1 /\ k \in 1..Len(path)
      BY <1>2, <1>4
    <3>2. path[k] = stack[k] /\ path[k] \in nodes /\ mark[path[k]] = "in_progress"
      BY <3>1, <1>1 DEF OnPath
    <3>3. path'[k] = path[k] /\ stack'[k] = stack[k]
      BY <3>1, <1>2, <1>4, <1>5
    <3>4. mark'[path[k]] = "in_progress"
      BY <3>2, <2>1, <1>3
    <3> QED
      BY <3>2, <3>3, <3>4
  <2>3. \A i \in Ids : mark'[i] = "in_progress" => \E k \in 1..Len(path') : path'[k] = i
    <3> SUFFICES ASSUME NEW i \in Ids, mark'[i] = "in_progress"
                 PROVE  \E k \in 1..Len(path') : path'[k] = i
      OBVIOUS
    <3>1. i # Top /\ mark[i] = "in_progress"
      BY <1>3
    <3>2. PICK k \in 1..Len(path) : path[k] = i
      BY <3>1, <1>1 DEF OnPath
    <3>3. k \in 1..Len(path')
      BY <3>1, <3>2, <1>2, <1>4
    <3> QED
      BY <3>2, <3>3, <1>4
  <2>4. \A j, k \in 1..Len(path') : path'[j] = path'[k] => j = k
    BY <1>1, <1>2, <1>4 DEF OnPath
  <2>5. \A k \in 1..Len(stack') - 1 : <<stack'[k], stack'[k + 1]>> \in arcs
    <3> SUFFICES ASSUME NEW k \in 1..Len(stack') - 1
                 PROVE  <<stack'[k], stack'[k + 1]>> \in arcs
      OBVIOUS
    <3>1. k \in 1..Len(stack) - 1 /\ k + 1 \in 1..Len(stack) - 1
      BY <1>2, <1>5
    <3>2. <<stack[k], stack[k + 1]>> \in arcs
      BY <3>1, <1>1 DEF OnPath
    <3> QED
      BY <3>1, <3>2, <1>5
  <2> QED
    BY <2>2, <2>3, <2>4, <2>5, <1>2, <1>4, <1>5 DEF OnPath
<1>9. DoneIsClosed'
  BY <1>1, <1>2, <1>3 DEF DoneIsClosed
<1>10. NoKnotDone'
  <2> SUFFICES ASSUME NEW S \in SUBSET Ids, \A s \in S : mark'[s] = "done", Knot(S)
               PROVE  FALSE
    BY DEF NoKnotDone, Knot
  <2> DEFINE R == S \ {Top}
  <2>1. \A s \in R : mark[s] = "done" /\ s \in Ids
    BY <1>3
  <2>2. mark[Top] = "in_progress"
    BY DEF Expanding
  <2>3. ASSUME NEW s \in R PROVE \E t \in R : <<s, t>> \in arcs
    <3>1. PICK t \in S : <<s, t>> \in arcs
      BY DEF Knot
    <3>2. mark[t] = "done"
      BY <2>1, <3>1, <1>1 DEF DoneIsClosed
    <3> QED
      BY <3>1, <3>2, <2>2
  <2>4. R # {}
    <3>1. CASE Top \in S
      <4>1. PICK t \in S : <<Top, t>> \in arcs
        BY <3>1 DEF Knot
      <4>2. mark[t] = "done"
        BY <4>1
      <4> QED
        BY <4>1, <4>2, <2>2
    <3>2. CASE Top \notin S
      BY <3>2 DEF Knot
    <3> QED
      BY <3>1, <3>2
  <2>5. Knot(R) /\ R \in SUBSET Ids
    BY <2>3, <2>4 DEF Knot
  <2> QED
    BY <2>1, <2>5, <1>1 DEF NoKnotDone
<1> QED
  BY <1>6, <1>7, <1>8, <1>9, <1>10, <1>1 DEF SearchInv

LEMMA NoneLeftInv == ASSUME SearchInv, NoneLeft PROVE SearchInv'
<1> USE DEF NoneLeft
<1>1. /\ SearchTypeOK /\ OnPath /\ DoneIsClosed /\ NoKnotDone
  BY DEF SearchInv, Searching
<1>2. \A i \in nodes : mark[i] = "done" /\ i \in Ids
  BY <1>1 DEF SearchTypeOK, OnPath, Mark
<1>3. \A S \in SUBSET nodes : ~Knot(S)
  BY <1>1, <1>2 DEF NoKnotDone, SearchTypeOK
<1>4. \A a \in arcs : a[1] \in nodes => a[2] \in nodes
  BY <1>1, <1>2 DEF DoneIsClosed, SearchTypeOK
<1>5. SearchTypeOK'
  BY <1>1 DEF SearchTypeOK
<1>6. FindsExactlyCycles'
  BY <1>3, <1>4 DEF FindsExactlyCycles, Knot
<1> QED
  BY <1>5, <1>6 DEF SearchInv

LEMMA PanicInv == ASSUME SearchInv, Panic PROVE SearchInv'
BY DEF SearchInv, Panic, SearchTypeOK, FindsExactlyCycles

LEMMA StepInv == SearchInv /\ [SearchNext]_<<nodes, arcs, search>> => SearchInv'
<1> SUFFICES ASSUME SearchInv, [SearchNext]_<<nodes, arcs, search>> PROVE SearchInv'
  OBVIOUS
<1>1. CASE UNCHANGED <<nodes, arcs, search>>
  <2>1. /\ nodes' = nodes /\ arcs' = arcs /\ result' = result /\ mark' = mark
        /\ stack' = stack /\ path' = path /\ cycle' = cycle
    BY <1>1 DEF search
  <2>2. SearchTypeOK'
    BY <2>1 DEF SearchInv, SearchTypeOK
  <2>3. FindsExactlyCycles'
    BY <2>1 DEF SearchInv, FindsExactlyCycles, IsCycle, Knot
  <2>4. OnPath' <=> OnPath
    BY <2>1 DEF OnPath
  <2>5. (DoneIsClosed' <=> DoneIsClosed) /\ (NoKnotDone' <=> NoKnotDone)
    BY <2>1 DEF DoneIsClosed, NoKnotDone, Knot
  <2> QED
    BY <2>1, <2>2, <2>3, <2>4, <2>5 DEF SearchInv
<1>2. CASE SearchNext
  BY <1>2, TakeStartInv, EnterInv, DescendInv, CloseInv, LeaveInv, NoneLeftInv, PanicInv
     DEF SearchNext, SearchStep
<1> QED
  BY <1>1, <1>2

(* The search answers exactly, whatever the graph: a cycle that is one, or *)
(* none where there is none and where every edge it met leads to a node.   *)
THEOREM SearchIsExact == SearchSpec => []FindsExactlyCycles
<1>1. SearchInv => FindsExactlyCycles
  BY DEF SearchInv
<1> QED
  BY <1>1, InitInv, StepInv, PTL DEF SearchSpec

(* No finished node is ever met on the stack: the branch of the code that  *)
(* pops one is never taken.                                                *)
THEOREM StackIsUnfinished == SearchSpec => []OnTheStack
<1>1. SearchInv => OnTheStack
  <2> SUFFICES ASSUME SearchInv, result = "searching", NEW k \in 1..Len(stack)
               PROVE  mark[stack[k]] # "done"
    BY DEF OnTheStack
  <2>1. SearchTypeOK /\ OnPath
    BY DEF SearchInv
  <2>2. CASE k \in 1..Len(path)
    BY <2>1, <2>2 DEF OnPath
  <2>3. CASE k \notin 1..Len(path)
    <3>1. Len(path) + 1 = Len(stack) /\ k = Len(stack)
      BY <2>1, <2>3 DEF OnPath, SearchTypeOK
    <3> QED
      BY <2>1, <3>1 DEF OnPath
  <2> QED
    BY <2>2, <2>3
<1> QED
  BY <1>1, InitInv, StepInv, PTL DEF SearchSpec

----------------------------------------------------------------------------
(* What an inspection of the graph has found so far: it searches one       *)
(* relation after the other on the graph as it is, and no verdict on the   *)
(* first is lost while the second is searched.                             *)
Inspecting ==
  at \in {"verify", "review"} =>
    /\ result \in {"searching", "cyclic", "acyclic"}
    /\ \/ /\ remaining = <<"Contains">> /\ faulty = {}
          /\ arcs = ArcsOf("DependsOn", links)
       \/ /\ remaining = <<>> /\ (faulty = {} => Acyclic("DependsOn"))
          /\ arcs = ArcsOf("Contains", links)

(* Nobody looks at what an inspection found once it is over.               *)
InspectionOver ==
  at \notin {"verify", "review"} => result = IF at = "crashed" THEN "panicked" ELSE "idle"

(* While the verifier works on the graph that the gate let pass, the gate  *)
(* would let it pass again.                                                *)
GatePassed == at = "verify" /\ ~mended => GateOpen

(* A cascade has a node to blame, and outside it there is nothing left of  *)
(* one.  A node that feeds one in need of repair was judged, or a call     *)
(* that is not over has still to look at it.                               *)
Pending(b, p) == \E d \in 1..Len(walk) : walk[d].of = b /\ p \in walk[d].left

CascadeOnItsWay ==
  /\ IF at = "cascade" THEN errors # <<>> ELSE NoCascade
  /\ \A d \in 1..Len(walk) : walk[d].left \subseteq nodes
  /\ ~cut => \A b \in ToSet(broken) : \A p \in Predecessors(b) :
               p \in fixed \cup Classified \/ Pending(b, p)

IInv ==
  /\ TypeOK /\ SearchInv
  /\ Inspecting /\ InspectionOver /\ GatePassed /\ PassedGraphIsSound
  /\ CascadeOnItsWay

----------------------------------------------------------------------------
(* What a patch leaves behind is a graph, also where it is refused; one    *)
(* that changes nothing is always accepted.                                *)
LEMMA PatchesArePatches == PerhapsNone \subseteq Patch
BY ReplanAssumption DEF PerhapsNone, Proposable, Patch, NoPatch

LEMMA ApplyTypes ==
  ASSUME TypeOK, NEW p \in PerhapsNone, NEW anchors \in SUBSET Ids, Apply(p, anchors)
  PROVE  /\ nodes' \subseteq Ids /\ links' \subseteq Link /\ fixed' \subseteq nodes'
         /\ patched' \in 0..MaxPatches
<1>1. p \in Patch
  BY PatchesArePatches
<1>2. nodes \subseteq Ids /\ links \subseteq Link /\ fixed \subseteq nodes /\ patched \in 0..MaxPatches
  BY DEF TypeOK, SearchTypeOK
<1>3. p.add \subseteq Ids /\ p.link \subseteq Link
  BY <1>1 DEF Patch
<1>4. nodes' \subseteq Ids /\ links' \subseteq Link /\ fixed' \subseteq nodes'
  BY <1>2, <1>3 DEF Apply
<1>5. patched' \in 0..MaxPatches
  BY <1>2, ReplanAssumption DEF Apply, PerhapsNone, Proposable
<1> QED
  BY <1>4, <1>5

LEMMA ApplyNothing ==
  ASSUME NEW anchors, Apply(NoPatch, anchors)
  PROVE  nodes' = nodes /\ links' = links /\ fixed' = fixed
<1>1. NoPatch.add = {} /\ NoPatch.link = {} /\ NoPatch.cut = {} /\ NoPatch.gone = {}
  BY DEF NoPatch
<1>2. Accepts(NoPatch)
  BY <1>1 DEF Accepts
<1> QED
  BY <1>1, <1>2 DEF Apply

(* Nothing that is said of a graph changes while the graph does not.       *)
LEMMA SameGraph ==
  ASSUME UNCHANGED graph
  PROVE  /\ GateOpen' <=> GateOpen
         /\ Connected' <=> Connected
         /\ Dangling' = Dangling
         /\ \A rel \in Relation : Acyclic(rel)' <=> Acyclic(rel)
         /\ \A i : Predecessors(i)' = Predecessors(i)
         /\ \A rel : ArcsOf(rel, links)' = ArcsOf(rel, links)
<1>1. nodes' = nodes /\ links' = links /\ fixed' = fixed
  BY DEF graph
<1>2. GateOpen' <=> GateOpen
  BY <1>1 DEF GateOpen, Orphans
<1>3. Connected' <=> Connected
  BY <1>1 DEF Connected
<1>4. /\ Dangling' = Dangling
      /\ \A i : Predecessors(i)' = Predecessors(i)
      /\ \A rel : ArcsOf(rel, links)' = ArcsOf(rel, links)
  BY <1>1 DEF Dangling, Predecessors, ArcsOf
<1>5. \A rel \in Relation : Acyclic(rel)' <=> Acyclic(rel)
  BY <1>1, <1>4 DEF Acyclic
<1> QED
  BY <1>2, <1>3, <1>4, <1>5

(* A search that is over, or has not begun, and one that begins.           *)
LEMMA NoSearch == SearchTypeOK /\ result \in {"idle", "panicked"} => SearchInv
BY DEF SearchInv, FindsExactlyCycles

LEMMA FreshSearch ==
  ASSUME NEW edges \in SUBSET (Ids \X Ids), nodes' \subseteq Ids, StartSearch(edges)
  PROVE  SearchInv'
<1> USE DEF StartSearch
<1>1. SearchTypeOK'
  BY DEF SearchTypeOK, AllUnseen, Mark
<1>2. FindsExactlyCycles'
  BY DEF FindsExactlyCycles
<1>3. OnPath' /\ DoneIsClosed'
  BY DEF OnPath, DoneIsClosed, AllUnseen
<1>4. NoKnotDone'
  BY DEF NoKnotDone, AllUnseen, Knot
<1> QED
  BY <1>1, <1>2, <1>3, <1>4 DEF SearchInv

LEMMA PutAwayInv == nodes' \subseteq Ids /\ PutAway => SearchInv'
<1> SUFFICES ASSUME nodes' \subseteq Ids, PutAway PROVE SearchInv'
  OBVIOUS
<1>1. SearchTypeOK' /\ result' = "idle"
  BY DEF PutAway, SearchTypeOK, AllUnseen, Mark
<1> QED
  BY <1>1 DEF SearchInv, FindsExactlyCycles

LEMMA ArcsArePairs ==
  ASSUME NEW of \in SUBSET Link, NEW rel PROVE ArcsOf(rel, of) \in SUBSET (Ids \X Ids)
BY DEF ArcsOf, Link

LEMMA InspectStarts ==
  ASSUME NEW of, of = links', Inspect(of), nodes' \subseteq Ids, links' \subseteq Link
  PROVE  /\ SearchInv' /\ Inspecting'
         /\ remaining' \in Seq(Relation) /\ faulty' \subseteq Ids /\ result' = "searching"
<1>1. Head(AcyclicRelations) = "DependsOn" /\ Tail(AcyclicRelations) = <<"Contains">>
  BY DEF AcyclicRelations
<1>2. /\ StartSearch(ArcsOf("DependsOn", of))
      /\ remaining' = <<"Contains">> /\ faulty' = {}
  BY <1>1 DEF Inspect
<1>3. SearchInv'
  BY <1>2, ArcsArePairs, FreshSearch
<1>4. Inspecting'
  BY <1>2 DEF Inspecting, StartSearch, ArcsOf
<1>5. <<"Contains">> \in Seq(Relation)
  BY DEF Relation
<1> QED
  BY <1>2, <1>3, <1>4, <1>5 DEF StartSearch

(* What is found consistent is sound: the two searches are exact on the    *)
(* edges as they are, and where no edge dangles the way from the anchor,   *)
(* which the gate followed, is one through nodes that exist.               *)
LEMMA ConsistentIsSound ==
  ASSUME SearchInv, TypeOK, Inspecting, at \in {"verify", "review"}, Inspected, Consistent
  PROVE  /\ Dangling = {} /\ Acyclic("DependsOn") /\ Acyclic("Contains")
         /\ GateOpen /\ fixed # {} => Connected
<1>1. Dangling = {} /\ FaultyNow = {} /\ remaining = <<>> /\ FindsExactlyCycles
  BY DEF Consistent, Inspected, SearchInv
<1>2. faulty = {} /\ result = "acyclic"
  <2>1. faulty = {}
    BY <1>1 DEF FaultyNow
  <2>2. ASSUME result = "cyclic" PROVE FALSE
    <3>1. Len(cycle) > 1 /\ cycle \in Seq(Ids)
      BY <1>1, <2>2 DEF FindsExactlyCycles, IsCycle, TypeOK, SearchTypeOK
    <3>2. cycle[1] \in ToSet(cycle)
      BY <3>1 DEF ToSet
    <3> QED
      BY <3>2, <2>1, <2>2, <1>1 DEF FaultyNow
  <2> QED
    BY <2>1, <2>2 DEF Inspected, Answered
<1>3. Acyclic("DependsOn") /\ arcs = ArcsOf("Contains", links)
  BY <1>1, <1>2 DEF Inspecting
<1>4. Acyclic("Contains")
  BY <1>1, <1>2, <1>3 DEF FindsExactlyCycles, Knot, Acyclic
<1>5. ASSUME GateOpen, fixed # {} PROVE Connected
  <2>1. PICK a \in fixed : nodes \ (fixed \cup Reached(a, links)) = {}
    BY <1>5 DEF GateOpen, Orphans
  <2>2. {l \in links : l.from \in nodes} = links
    BY <1>1 DEF Dangling, TypeOK, Link
  <2> QED
    BY <2>1, <2>2 DEF Connected
<1> QED
  BY <1>1, <1>3, <1>4, <1>5

(* Outside verifications and reviews there is no inspection to speak of,   *)
(* whatever happens to the graph.                                          *)
LEMMA NotInspecting ==
  ASSUME IInv, nodes' \subseteq Ids,
         at' \notin {"verify", "review", "crashed"},
         PutAway \/ (at \notin {"verify", "review", "crashed"} /\ UNCHANGED inspect)
  PROVE  /\ SearchInv' /\ Inspecting' /\ InspectionOver'
         /\ remaining' \in Seq(Relation) /\ faulty' \subseteq Ids
<1>1. Inspecting' /\ (InspectionOver' <=> result' = "idle")
  BY DEF Inspecting, InspectionOver
<1>2. CASE PutAway
  BY <1>1, <1>2, PutAwayInv DEF PutAway
<1>3. CASE at \notin {"verify", "review", "crashed"} /\ UNCHANGED inspect
  <2>1. result' = "idle" /\ UNCHANGED <<arcs, result, mark, stack, path, cycle, remaining, faulty>>
    BY <1>3 DEF IInv, InspectionOver, inspect, search
  <2>2. SearchTypeOK'
    BY <2>1 DEF IInv, TypeOK, SearchTypeOK
  <2> QED
    BY <1>1, <2>1, <2>2 DEF SearchInv, FindsExactlyCycles, IInv, TypeOK
<1> QED
  BY <1>2, <1>3

LEMMA NoCascadeKept ==
  ASSUME IInv, at # "cascade", at' # "cascade", UNCHANGED cascade
  PROVE  CascadeOnItsWay' /\ NoCascade'
<1>1. NoCascade /\ UNCHANGED <<walk, kept, stale, broken, cut>>
  BY DEF IInv, CascadeOnItsWay, cascade
<1>2. NoCascade'
  BY <1>1 DEF NoCascade
<1> QED
  BY <1>2 DEF CascadeOnItsWay, NoCascade, ToSet

LEMMA CascadeTypesKept ==
  ASSUME IInv, CascadeOnItsWay', UNCHANGED cascade, nodes' = nodes \/ at # "cascade"
  PROVE  /\ broken' \in Seq(Ids) /\ walk' \in Seq([of : Ids, left : SUBSET Ids])
         /\ kept' \subseteq nodes' /\ stale' \subseteq nodes' /\ cut' \in BOOLEAN
<1>1. UNCHANGED <<walk, kept, stale, broken, cut>>
  BY DEF cascade
<1>2. at # "cascade" => kept = {} /\ stale = {}
  BY DEF IInv, CascadeOnItsWay, NoCascade
<1> QED
  BY <1>1, <1>2 DEF IInv, TypeOK

(* The steps of an inspection. *)
LEMMA SearchNodeInv == ASSUME IInv, SearchNode PROVE IInv'
<1>1. /\ SearchStep /\ UNCHANGED <<links, fixed, remaining, faulty>>
      /\ UNCHANGED <<walk, kept, stale, broken, cut>> /\ UNCHANGED cascade
      /\ UNCHANGED <<at, attempts, errors, patched, mended>>
  BY DEF SearchNode, cascade, loop
<1>2. /\ UNCHANGED <<nodes, arcs>> /\ result = "searching"
      /\ result' \in {"searching", "cyclic", "acyclic"}
  BY <1>1 DEF SearchStep, Enter, Leave, NoneLeft, TakeStart, Descend, Close, Searching, Expanding
<1>3. UNCHANGED graph
  BY <1>1, <1>2 DEF graph
<1>4. at \in {"verify", "review"}
  BY <1>2 DEF IInv, InspectionOver
<1>5. SearchInv'
  BY <1>1, StepInv DEF IInv, SearchNext
<1>6. TypeOK'
  BY <1>1, <1>2, <1>5 DEF IInv, TypeOK, SearchInv
<1>7. Inspecting' /\ InspectionOver'
  BY <1>1, <1>2, <1>3, <1>4, SameGraph DEF IInv, Inspecting, InspectionOver, Relation
<1>8. GatePassed' /\ PassedGraphIsSound'
  BY <1>1, <1>3, SameGraph
     DEF IInv, GatePassed, PassedGraphIsSound, AcyclicRelations, ToSet, Relation
<1>9. CascadeOnItsWay'
  BY <1>1, <1>4, NoCascadeKept
<1> QED
  BY <1>5, <1>6, <1>7, <1>8, <1>9 DEF IInv

LEMMA SearchNextRelationInv == ASSUME IInv, SearchNextRelation PROVE IInv'
<1>1. /\ Answered /\ remaining # <<>> /\ StartSearch(ArcsOf(Head(remaining), links))
      /\ remaining' = Tail(remaining) /\ faulty' = FaultyNow
      /\ UNCHANGED graph /\ UNCHANGED <<nodes, links, fixed>> /\ UNCHANGED cascade
      /\ UNCHANGED <<walk, kept, stale, broken, cut>>
      /\ UNCHANGED <<at, attempts, errors, patched, mended>>
  BY DEF SearchNextRelation, graph, cascade, loop
<1>2. at \in {"verify", "review"}
  BY <1>1 DEF IInv, InspectionOver, Answered
<1>3. remaining = <<"Contains">> /\ faulty = {} /\ arcs = ArcsOf("DependsOn", links)
  BY <1>1, <1>2 DEF IInv, Inspecting
<1>4. /\ StartSearch(ArcsOf("Contains", links)) /\ result' = "searching"
      /\ arcs' = ArcsOf("Contains", links) /\ remaining' = <<>>
  BY <1>1, <1>3 DEF StartSearch
<1>5. faulty' \subseteq Ids /\ (faulty' = {} => Acyclic("DependsOn"))
  <2>1. CASE result = "cyclic"
    <3>1. Len(cycle) > 1 /\ cycle \in Seq(Ids)
      BY <2>1 DEF IInv, SearchInv, SearchTypeOK, FindsExactlyCycles, IsCycle
    <3>2. cycle[1] \in ToSet(cycle) /\ ToSet(cycle) \subseteq Ids
      BY <3>1 DEF ToSet
    <3> QED
      BY <2>1, <3>2, <1>1, <1>3 DEF FaultyNow
  <2>2. CASE result = "acyclic"
    <3>1. \A S \in SUBSET nodes : ~Knot(S)
      BY <2>2 DEF IInv, SearchInv, FindsExactlyCycles
    <3> DEFINE depends == ArcsOf("DependsOn", links)
    <3>2. \A S \in (SUBSET nodes) \ {{}} : \E s \in S : \A t \in S : <<s, t>> \notin depends
      <4> HIDE DEF depends
      <4>1. arcs = depends
        BY <1>3 DEF depends
      <4> SUFFICES ASSUME NEW S \in (SUBSET nodes) \ {{}}
                   PROVE  \E s \in S : \A t \in S : <<s, t>> \notin depends
        OBVIOUS
      <4>2. S # {} /\ ~Knot(S)
        BY <3>1
      <4> QED
        BY <4>1, <4>2 DEF Knot
    <3>3. Acyclic("DependsOn")
      BY <3>2 DEF Acyclic
    <3> QED
      BY <2>2, <3>3, <1>1, <1>3 DEF FaultyNow
  <2> QED
    BY <2>1, <2>2, <1>1 DEF Answered
<1>6. SearchInv'
  BY <1>1, <1>4, ArcsArePairs, FreshSearch DEF IInv, TypeOK, SearchTypeOK
<1>7. TypeOK'
  BY <1>1, <1>4, <1>5, <1>6 DEF IInv, TypeOK, SearchInv
<1>8. Inspecting' /\ InspectionOver'
  BY <1>1, <1>2, <1>4, <1>5, SameGraph DEF Inspecting, InspectionOver, Relation
<1>9. GatePassed' /\ PassedGraphIsSound'
  BY <1>1, SameGraph DEF IInv, GatePassed, PassedGraphIsSound, AcyclicRelations, ToSet, Relation
<1>10. CascadeOnItsWay'
  BY <1>1, <1>2, NoCascadeKept
<1> QED
  BY <1>6, <1>7, <1>8, <1>9, <1>10 DEF IInv

LEMMA SearchPanicsInv == ASSUME IInv, SearchPanics PROVE IInv'
<1>1. /\ Panic /\ UNCHANGED <<nodes, links, fixed>> /\ UNCHANGED cascade
      /\ UNCHANGED <<walk, kept, stale, broken, cut, remaining, faulty>>
      /\ UNCHANGED <<attempts, errors, patched, mended>>
      /\ result = "searching" /\ result' = "panicked" /\ at' = "crashed"
  BY DEF SearchPanics, Panic, Searching, cascade
<1>2. at \in {"verify", "review"}
  BY <1>1 DEF IInv, InspectionOver
<1>3. SearchInv'
  BY <1>1, PanicInv DEF IInv
<1>4. TypeOK'
  BY <1>1, <1>3 DEF IInv, TypeOK, SearchInv, Places
<1>5. CascadeOnItsWay'
  BY <1>1, <1>2, NoCascadeKept
<1> QED
  BY <1>1, <1>3, <1>4, <1>5 DEF IInv, Inspecting, InspectionOver, GatePassed, PassedGraphIsSound

(* An inspection begins: the graph has passed the gate, has been repaired  *)
(* or is handed to the reviewer.                                           *)
LEMMA ReadyForVerifyInv == ASSUME IInv, ReadyForVerify PROVE IInv'
<1>1. /\ at = "graph" /\ GateOpen /\ at' = "verify" /\ attempts' = 0 /\ mended' = FALSE
      /\ Inspect(links) /\ UNCHANGED graph /\ UNCHANGED <<nodes, links, fixed>>
      /\ UNCHANGED cascade /\ UNCHANGED <<walk, kept, stale, broken, cut, errors, patched>>
  BY DEF ReadyForVerify, graph, cascade
<1>2. links' \subseteq Link /\ nodes' \subseteq Ids
  BY <1>1 DEF IInv, TypeOK, SearchTypeOK
<1>3. /\ SearchInv' /\ Inspecting' /\ result' = "searching"
      /\ remaining' \in Seq(Relation) /\ faulty' \subseteq Ids
  BY <1>1, <1>2, InspectStarts
<1>4. TypeOK'
  <2>1. attempts' \in 0..MaxRepairs
    BY <1>1, ReplanAssumption
  <2>2. mended' \in BOOLEAN /\ at' \in Places
    BY <1>1 DEF Places
  <2> QED
    BY <1>1, <1>3, <2>1, <2>2 DEF IInv, TypeOK, SearchInv
<1>5. GatePassed'
  BY <1>1, SameGraph DEF GatePassed
<1>6. CascadeOnItsWay'
  BY <1>1, NoCascadeKept
<1> QED
  BY <1>1, <1>3, <1>4, <1>5, <1>6 DEF IInv, InspectionOver, PassedGraphIsSound

LEMMA LocalRepairInv == ASSUME IInv, NEW p \in PerhapsNone, LocalRepair(p) PROVE IInv'
<1>1. /\ at = "verify" /\ at' = "verify" /\ attempts < MaxRepairs /\ attempts' = attempts + 1
      /\ Apply(p, {}) /\ mended' = (mended \/ p # NoPatch) /\ Inspect(links')
      /\ UNCHANGED cascade /\ UNCHANGED <<walk, kept, stale, broken, cut, errors>>
  BY DEF LocalRepair, Repairable, cascade
<1>2. /\ nodes' \subseteq Ids /\ links' \subseteq Link /\ fixed' \subseteq nodes'
      /\ patched' \in 0..MaxPatches
  BY <1>1, ApplyTypes DEF IInv
<1>3. /\ SearchInv' /\ Inspecting' /\ result' = "searching"
      /\ remaining' \in Seq(Relation) /\ faulty' \subseteq Ids
  BY <1>1, <1>2, InspectStarts
<1>4. CascadeOnItsWay'
  BY <1>1, NoCascadeKept
<1>5. TypeOK'
  <2>1. attempts' \in 0..MaxRepairs /\ mended' \in BOOLEAN
    BY <1>1, ReplanAssumption DEF IInv, TypeOK
  <2>2. /\ broken' \in Seq(Ids) /\ walk' \in Seq([of : Ids, left : SUBSET Ids])
        /\ kept' \subseteq nodes' /\ stale' \subseteq nodes' /\ cut' \in BOOLEAN
    BY <1>1, <1>4, CascadeTypesKept
  <2> QED
    BY <1>1, <1>2, <1>3, <2>1, <2>2 DEF IInv, TypeOK, SearchInv, Places
<1>6. GatePassed'
  <2>1. CASE p = NoPatch
    <3>1. UNCHANGED graph /\ mended' = mended
      BY <2>1, <1>1, ApplyNothing DEF graph, IInv, TypeOK
    <3> QED
      BY <3>1, <1>1, SameGraph DEF IInv, GatePassed
  <2>2. CASE p # NoPatch
    BY <2>2, <1>1 DEF GatePassed
  <2> QED
    BY <2>1, <2>2
<1> QED
  BY <1>1, <1>3, <1>4, <1>5, <1>6 DEF IInv, InspectionOver, PassedGraphIsSound

LEMMA RepairDriftInv == ASSUME IInv, RepairDrift PROVE IInv'
<1>1. /\ at = "verify" /\ at' = "verify" /\ attempts < MaxRepairs /\ attempts' = attempts + 1
      /\ Inspect(links) /\ UNCHANGED graph /\ UNCHANGED <<nodes, links, fixed>>
      /\ UNCHANGED cascade /\ UNCHANGED <<walk, kept, stale, broken, cut>>
      /\ UNCHANGED <<errors, patched, mended>>
  BY DEF RepairDrift, Repairable, graph, cascade
<1>2. links' \subseteq Link /\ nodes' \subseteq Ids
  BY <1>1 DEF IInv, TypeOK, SearchTypeOK
<1>3. /\ SearchInv' /\ Inspecting' /\ result' = "searching"
      /\ remaining' \in Seq(Relation) /\ faulty' \subseteq Ids
  BY <1>1, <1>2, InspectStarts
<1>4. TypeOK'
  <2>1. attempts' \in 0..MaxRepairs
    BY <1>1, ReplanAssumption DEF IInv, TypeOK
  <2> QED
    BY <1>1, <1>3, <2>1 DEF IInv, TypeOK, SearchInv, Places
<1>5. GatePassed'
  BY <1>1, SameGraph DEF IInv, GatePassed
<1>6. CascadeOnItsWay'
  BY <1>1, NoCascadeKept
<1> QED
  BY <1>1, <1>3, <1>4, <1>5, <1>6 DEF IInv, InspectionOver, PassedGraphIsSound

LEMMA EnterReviewInv == ASSUME IInv, EnterReview PROVE IInv'
<1>1. /\ at = "task" /\ at' = "review" /\ Inspect(links)
      /\ UNCHANGED graph /\ UNCHANGED <<nodes, links, fixed>>
      /\ UNCHANGED cascade /\ UNCHANGED <<walk, kept, stale, broken, cut>>
      /\ UNCHANGED <<attempts, errors, patched, mended>>
  BY DEF EnterReview, GoTo, graph, cascade
<1>2. links' \subseteq Link /\ nodes' \subseteq Ids
  BY <1>1 DEF IInv, TypeOK, SearchTypeOK
<1>3. /\ SearchInv' /\ Inspecting' /\ result' = "searching"
      /\ remaining' \in Seq(Relation) /\ faulty' \subseteq Ids
  BY <1>1, <1>2, InspectStarts
<1>4. TypeOK'
  BY <1>1, <1>3 DEF IInv, TypeOK, SearchInv, Places
<1>5. PassedGraphIsSound'
  BY <1>1, SameGraph DEF IInv, PassedGraphIsSound, AcyclicRelations, ToSet, Relation
<1>6. CascadeOnItsWay'
  BY <1>1, NoCascadeKept
<1> QED
  BY <1>1, <1>3, <1>4, <1>5, <1>6 DEF IInv, InspectionOver, GatePassed

(* A verification or a review ends: it passes only what is sound.          *)
LEMMA JudgedInv ==
  ASSUME IInv, at \in {"verify", "review"},
         at' \in {"task", "repair", "done", "rejected", "failed"},
         at' = "task" => at = "verify" /\ Inspected /\ Consistent,
         at' = "done" => at = "review",
         PutAway, UNCHANGED <<graph, cascade, attempts, errors, patched, mended>>
  PROVE  IInv'
<1>1. /\ UNCHANGED graph /\ UNCHANGED <<nodes, links, fixed>>
      /\ UNCHANGED cascade /\ UNCHANGED <<walk, kept, stale, broken, cut>>
      /\ UNCHANGED <<attempts, errors, patched, mended>>
  BY DEF graph, cascade
<1>2. nodes' \subseteq Ids
  BY <1>1 DEF IInv, TypeOK, SearchTypeOK
<1>3. /\ SearchInv' /\ Inspecting' /\ InspectionOver'
      /\ remaining' \in Seq(Relation) /\ faulty' \subseteq Ids
  BY <1>2, NotInspecting
<1>4. TypeOK'
  BY <1>1, <1>3 DEF IInv, TypeOK, SearchInv, Places
<1>5. PassedGraphIsSound'
  <2>1. CASE at' = "task"
    <3>1. /\ Dangling = {} /\ Acyclic("DependsOn") /\ Acyclic("Contains")
          /\ ~mended /\ fixed # {} => Connected
      BY <2>1, ConsistentIsSound DEF IInv, GatePassed
    <3> QED
      BY <3>1, <1>1, SameGraph DEF PassedGraphIsSound, AcyclicRelations, ToSet, Relation
  <2>2. CASE at' = "done"
    BY <2>2, <1>1, SameGraph DEF IInv, PassedGraphIsSound, AcyclicRelations, ToSet, Relation
  <2>3. CASE at' \in {"repair", "rejected", "failed"}
    BY <2>3 DEF PassedGraphIsSound
  <2> QED
    BY <2>1, <2>2, <2>3
<1>6. CascadeOnItsWay'
  BY <1>1, NoCascadeKept
<1> QED
  BY <1>1, <1>3, <1>4, <1>5, <1>6 DEF IInv, GatePassed

LEMMA JudgeInv ==
  ASSUME IInv,
         \/ VerifyErrs \/ VerifyPasses \/ Stalemate
         \/ ReviewPasses \/ AnswerLacks \/ JudgeRejects \/ JudgeBlamesGraph \/ ReviewErrs
  PROVE  IInv'
<1>1. CASE VerifyErrs \/ VerifyPasses \/ Stalemate
  <2>1. /\ at = "verify" /\ PutAway /\ UNCHANGED <<graph, cascade, attempts, errors, patched, mended>>
        /\ \/ at' = "task" /\ Inspected /\ Consistent
           \/ at' \in {"failed", "repair"}
    BY <1>1 DEF VerifyErrs, VerifyPasses, Stalemate, GoTo
  <2> QED
    BY <2>1, JudgedInv
<1>2. CASE ReviewPasses \/ AnswerLacks \/ JudgeRejects \/ JudgeBlamesGraph \/ ReviewErrs
  <2>1. /\ at = "review" /\ PutAway /\ UNCHANGED <<graph, cascade, attempts, errors, patched, mended>>
        /\ at' \in {"done", "rejected", "repair", "failed"}
    BY <1>2 DEF ReviewPasses, AnswerLacks, JudgeRejects, JudgeBlamesGraph, ReviewErrs,
                ReviewEnds, GoTo
  <2> QED
    BY <2>1, JudgedInv
<1> QED
  BY <1>1, <1>2

(* Steps outside the inspections and the cascade: what counts is that none *)
(* of them leads to a place where a graph is taken to be sound.            *)
LEMMA ElsewhereInv ==
  ASSUME IInv, at \notin {"verify", "review", "crashed", "cascade"},
         at' \in {"graph", "replan", "repair", "failed"},
         nodes' \subseteq Ids, links' \subseteq Link, fixed' \subseteq nodes',
         patched' \in 0..MaxPatches, errors' \in Seq(Ids),
         UNCHANGED <<inspect, cascade, attempts, mended>>
  PROVE  IInv'
<1>1. /\ UNCHANGED inspect /\ UNCHANGED cascade /\ UNCHANGED <<attempts, mended>>
      /\ UNCHANGED <<walk, kept, stale, broken, cut>>
  BY DEF cascade
<1>2. /\ SearchInv' /\ Inspecting' /\ InspectionOver'
      /\ remaining' \in Seq(Relation) /\ faulty' \subseteq Ids
  BY <1>1, NotInspecting
<1>3. CascadeOnItsWay'
  BY <1>1, NoCascadeKept
<1>4. TypeOK'
  <2>1. /\ broken' \in Seq(Ids) /\ walk' \in Seq([of : Ids, left : SUBSET Ids])
        /\ kept' \subseteq nodes' /\ stale' \subseteq nodes' /\ cut' \in BOOLEAN
    BY <1>1, <1>3, CascadeTypesKept
  <2> QED
    BY <1>1, <1>2, <2>1 DEF IInv, TypeOK, SearchInv, Places
<1> QED
  BY <1>2, <1>3, <1>4 DEF IInv, GatePassed, PassedGraphIsSound

LEMMA PatchesInv ==
  ASSUME IInv, NEW p \in PerhapsNone, ProposePatch(p) \/ Repaired(p) PROVE IInv'
<1>1. PICK anchors \in SUBSET Ids :
        /\ Apply(p, anchors) /\ at \in {"graph", "repair"} /\ at' = "graph"
        /\ UNCHANGED <<inspect, cascade, attempts, errors, mended>>
  BY ReplanAssumption DEF ProposePatch, Repaired, GoTo
<1>2. /\ nodes' \subseteq Ids /\ links' \subseteq Link /\ fixed' \subseteq nodes'
      /\ patched' \in 0..MaxPatches
  BY <1>1, ApplyTypes DEF IInv
<1>3. errors' \in Seq(Ids)
  BY <1>1 DEF IInv, TypeOK
<1> QED
  BY <1>1, <1>2, <1>3, ElsewhereInv

LEMMA UnpatchedInv ==
  ASSUME IInv,
         \/ TaskFailed \/ ValidatorObjects \/ ReplanAnchor \/ ReplanErrs \/ Replanned
         \/ \E ids \in SeqOf(Ids, 2) : TaskBlames(ids)
  PROVE  IInv'
<1>1. /\ at \in {"task", "replan"} /\ at' \in {"graph", "replan", "repair", "failed"}
      /\ UNCHANGED <<nodes, links, fixed>>
      /\ UNCHANGED <<inspect, cascade, attempts, patched, mended>>
      /\ errors' \in {errors, <<>>} \cup SeqOf(Ids, 2)
  BY DEF TaskFailed, ValidatorObjects, TaskBlames, ReplanAnchor, ReplanErrs, Replanned,
         Surface, GoTo, graph
<1>2. /\ nodes' \subseteq Ids /\ links' \subseteq Link /\ fixed' \subseteq nodes'
      /\ patched' \in 0..MaxPatches
  BY <1>1 DEF IInv, TypeOK, SearchTypeOK
<1>3. SeqOf(Ids, 2) \subseteq Seq(Ids)
  <2> SUFFICES ASSUME NEW m \in 0..2, NEW s \in [1..m -> Ids] PROVE s \in Seq(Ids)
    BY DEF SeqOf
  <2> QED
    BY SeqDef
<1>4. errors' \in Seq(Ids)
  <2>1. errors \in Seq(Ids) /\ <<>> \in Seq(Ids)
    BY DEF IInv, TypeOK
  <2> QED
    BY <1>1, <1>3, <2>1
<1> QED
  BY <1>1, <1>2, <1>4, ElsewhereInv

(* The cascade.  It begins with the node that took the place of the one    *)
(* that was blamed.                                                        *)
LEMMA RedesignInv == ASSUME IInv, NEW p \in PerhapsNone, Redesign(p) PROVE IInv'
<1>1. /\ at = "replan" /\ errors # <<>> /\ Apply(p, {}) /\ UNCHANGED inspect
      /\ Head(errors) \in Ids /\ p.add \subseteq Ids
  <2>1. p \in Patch /\ errors \in Seq(Ids)
    BY PatchesArePatches DEF IInv, TypeOK
  <2> QED
    BY <2>1 DEF Redesign, Patch
<1>2. /\ nodes' \subseteq Ids /\ links' \subseteq Link /\ fixed' \subseteq nodes'
      /\ patched' \in 0..MaxPatches
  BY <1>1, ApplyTypes DEF IInv
<1>3. CASE Accepts(p)
  <2>1. /\ at' = "cascade" /\ UNCHANGED <<attempts, errors, mended, kept, stale, broken, cut>>
        /\ \E start \in IF p.add = {} THEN {Head(errors)} ELSE p.add :
             walk' = IF start \in nodes' THEN <<Frame(start)'>> ELSE <<>>
    BY <1>3 DEF Redesign
  <2>2. PICK start \in Ids : walk' = <<Frame(start)'>> \/ walk' = <<>>
    BY <1>1, <2>1
  <2>3. Frame(start)' \in [of : Ids, left : SUBSET Ids] /\ Frame(start)'.left \subseteq nodes'
    BY <1>2 DEF Frame, Predecessors
  <2>4. /\ walk' \in Seq([of : Ids, left : SUBSET Ids])
        /\ \A d \in 1..Len(walk') : walk'[d].left \subseteq nodes'
    <3> DEFINE Call == [of : Ids, left : SUBSET Ids]
    <3>1. PICK f \in Call : f.left \subseteq nodes' /\ (walk' = <<f>> \/ walk' = <<>>)
      BY <2>2, <2>3
    <3> HIDE DEF Call
    <3>2. walk' \in Seq(Call) /\ \A d \in 1..Len(walk') : walk'[d] = f
      <4>1. CASE walk' = <<f>>
        <5>1. Len(walk') = 1 /\ walk'[1] = f /\ <<f>> \in Seq(Call)
          BY <4>1, <3>1
        <5> QED
          BY <5>1, <4>1
      <4>2. CASE walk' = <<>>
        BY <4>2
      <4> QED
        BY <3>1, <4>1, <4>2
    <3> QED
      BY <3>1, <3>2 DEF Call
  <2>5. NoCascade
    BY <1>1 DEF IInv, CascadeOnItsWay
  <2>6. CascadeOnItsWay'
    BY <1>1, <2>1, <2>4, <2>5 DEF NoCascade, CascadeOnItsWay, ToSet
  <2>7. /\ SearchInv' /\ Inspecting' /\ InspectionOver'
        /\ remaining' \in Seq(Relation) /\ faulty' \subseteq Ids
    BY <1>1, <1>2, <2>1, NotInspecting
  <2>8. TypeOK'
    BY <1>2, <2>1, <2>4, <2>5, <2>7 DEF IInv, TypeOK, SearchInv, Places, NoCascade
  <2> QED
    BY <2>1, <2>6, <2>7, <2>8 DEF IInv, GatePassed, PassedGraphIsSound
<1>4. CASE ~Accepts(p)
  <2>1. /\ at' = "repair" /\ errors' = <<>> /\ UNCHANGED <<inspect, cascade, attempts, mended>>
    BY <1>4 DEF Redesign, Surface
  <2>2. errors' \in Seq(Ids)
    BY <2>1
  <2> QED
    BY <1>1, <1>2, <2>1, <2>2, ElsewhereInv
<1> QED
  BY <1>3, <1>4

LEMMA CascadeStepInv ==
  ASSUME IInv, at = "cascade", UNCHANGED <<graph, inspect, loop>>, CascadeOnItsWay',
         walk' \in Seq([of : Ids, left : SUBSET Ids]), broken' \in Seq(Ids),
         kept' \subseteq nodes, stale' \subseteq nodes, cut' \in BOOLEAN
  PROVE  IInv'
<1>1. /\ UNCHANGED inspect /\ UNCHANGED <<nodes, links, fixed>>
      /\ UNCHANGED <<at, attempts, errors, patched, mended>>
  BY DEF graph, loop
<1>2. nodes' \subseteq Ids
  BY <1>1 DEF IInv, TypeOK, SearchTypeOK
<1>3. /\ SearchInv' /\ Inspecting' /\ InspectionOver'
      /\ remaining' \in Seq(Relation) /\ faulty' \subseteq Ids
  BY <1>1, <1>2, NotInspecting
<1>4. TypeOK'
  BY <1>1, <1>3 DEF IInv, TypeOK, SearchInv
<1> QED
  BY <1>1, <1>3, <1>4 DEF IInv, GatePassed, PassedGraphIsSound

(* The walk is one question shorter. *)
LEMMA WithoutIsShorter ==
  ASSUME IInv, NEW p \in Ids, Taken(p)
  PROVE  /\ Without(p) \in Seq([of : Ids, left : SUBSET Ids])
         /\ Len(Without(p)) = Len(walk) /\ Len(walk) \in Nat \ {0}
         /\ \A d \in 1..Len(walk) :
              /\ Without(p)[d].of = walk[d].of
              /\ Without(p)[d].left =
                   IF d = Len(walk) THEN walk[d].left \ {p} ELSE walk[d].left
         /\ p \in nodes
<1>1. walk \in Seq([of : Ids, left : SUBSET Ids]) /\ walk # <<>> /\ p \in walk[Len(walk)].left
  BY DEF IInv, TypeOK, Taken
<1>2. Len(walk) \in Nat \ {0}
  BY <1>1
<1>3. \A d \in 1..Len(walk) : walk[d] \in [of : Ids, left : SUBSET Ids]
  <2> DEFINE Call == [of : Ids, left : SUBSET Ids]
  <2>1. walk \in Seq(Call)
    BY <1>1
  <2> HIDE DEF Call
  <2>2. \A d \in 1..Len(walk) : walk[d] \in Call
    BY <2>1
  <2> QED
    BY <2>2 DEF Call
<1>4. Without(p) = [walk EXCEPT ![Len(walk)] =
                      [walk[Len(walk)] EXCEPT !.left = walk[Len(walk)].left \ {p}]]
  BY DEF Without
<1>5. [walk[Len(walk)] EXCEPT !.left = walk[Len(walk)].left \ {p}] \in [of : Ids, left : SUBSET Ids]
  BY <1>2, <1>3
<1>6. /\ Without(p) \in Seq([of : Ids, left : SUBSET Ids])
      /\ Len(Without(p)) = Len(walk)
  BY <1>1, <1>2, <1>4, <1>5, ExceptSeq
<1>7. \A d \in 1..Len(walk) :
              /\ Without(p)[d].of = walk[d].of
              /\ Without(p)[d].left =
                   IF d = Len(walk) THEN walk[d].left \ {p} ELSE walk[d].left
  <2> SUFFICES ASSUME NEW d \in 1..Len(walk)
               PROVE  /\ Without(p)[d].of = walk[d].of
                      /\ Without(p)[d].left =
                           IF d = Len(walk) THEN walk[d].left \ {p} ELSE walk[d].left
    OBVIOUS
  <2>1. Without(p)[d] = IF d = Len(walk) THEN [walk[d] EXCEPT !.left = walk[d].left \ {p}]
                                        ELSE walk[d]
    <3>1. DOMAIN walk = 1..Len(walk)
      BY <1>1, LenProperties
    <3> QED
      BY <3>1, <1>2, <1>4
  <2> QED
    BY <2>1, <1>3
<1>8. p \in nodes
  BY <1>1, <1>2 DEF IInv, CascadeOnItsWay
<1> QED
  BY <1>2, <1>6, <1>7, <1>8

(* Nobody is left out: what is no longer to be asked about is anchored or  *)
(* has its verdict.                                                        *)
LEMMA CascadeNodeInv == ASSUME IInv, NEW p \in Ids, CascadeNode(p) PROVE IInv'
<1>1. Taken(p) /\ at = "cascade" /\ UNCHANGED <<graph, inspect, loop>>
  BY DEF CascadeNode, Skip, Preserved, NeedsReexecution, NeedsRepair, Asks, Taken
<1>2. /\ Without(p) \in Seq([of : Ids, left : SUBSET Ids])
      /\ Len(Without(p)) = Len(walk) /\ Len(walk) \in Nat \ {0}
      /\ \A d \in 1..Len(walk) :
           /\ Without(p)[d].of = walk[d].of
           /\ Without(p)[d].left = IF d = Len(walk) THEN walk[d].left \ {p} ELSE walk[d].left
      /\ p \in nodes
  BY <1>1, WithoutIsShorter
<1>3. /\ broken \in Seq(Ids) /\ kept \subseteq nodes /\ stale \subseteq nodes /\ cut \in BOOLEAN
      /\ nodes \subseteq Ids
  BY DEF IInv, TypeOK, SearchTypeOK
<1>4. /\ UNCHANGED <<nodes, links, fixed, at>> /\ errors' # <<>>
      /\ \A i : Predecessors(i)' = Predecessors(i)
  BY <1>1, SameGraph DEF graph, loop, IInv, CascadeOnItsWay
<1>5. /\ \A d \in 1..Len(walk) : walk[d].left \subseteq nodes
      /\ ~cut => \A b \in ToSet(broken) : \A q \in Predecessors(b) :
                   q \in fixed \cup Classified \/ Pending(b, q)
  BY DEF IInv, CascadeOnItsWay
<1>6. CASE walk' = Without(p) /\ p \in fixed \cup Classified' /\ UNCHANGED <<broken, cut>>
           /\ Classified \subseteq Classified' /\ kept' \subseteq nodes /\ stale' \subseteq nodes
  <2>1. \A d \in 1..Len(walk') : walk'[d].left \subseteq nodes'
    BY <1>2, <1>4, <1>5, <1>6
  <2>2. ASSUME ~cut', NEW b \in ToSet(broken'), NEW q \in Predecessors(b)'
        PROVE  q \in fixed' \cup Classified' \/ Pending(b, q)'
    <3>1. b \in ToSet(broken) /\ q \in Predecessors(b) /\ ~cut
      BY <2>2, <1>4, <1>6 DEF ToSet
    <3>2. CASE q \in fixed \cup Classified
      BY <3>2, <1>4, <1>6
    <3>3. CASE q = p
      BY <3>3, <1>4, <1>6
    <3>4. CASE q # p /\ Pending(b, q)
      <4>1. PICK d \in 1..Len(walk) : walk[d].of = b /\ q \in walk[d].left
        BY <3>4 DEF Pending
      <4>2. d \in 1..Len(walk') /\ walk'[d].of = b /\ q \in walk'[d].left
        BY <4>1, <3>4, <1>2, <1>6
      <4> QED
        BY <4>2 DEF Pending
    <3> QED
      BY <3>1, <3>2, <3>3, <3>4, <1>5
  <2>3. CascadeOnItsWay'
    BY <2>1, <2>2, <1>1, <1>4 DEF CascadeOnItsWay
  <2>4. broken' \in Seq(Ids) /\ cut' \in BOOLEAN
    BY <1>3, <1>6
  <2> QED
    BY <2>3, <2>4, <1>1, <1>2, <1>6, CascadeStepInv
<1>7. CASE NeedsRepair(p)
  <2>1. /\ broken' = Append(broken, p) /\ UNCHANGED <<kept, stale>>
        /\ \/ walk' = Append(Without(p), Frame(p)) /\ cut' = cut
           \/ walk' = Without(p) /\ cut' = (cut \/ Predecessors(p) # {})
    BY <1>7 DEF NeedsRepair
  <2>2. /\ broken' \in Seq(Ids) /\ cut' \in BOOLEAN
        /\ ToSet(broken') = ToSet(broken) \cup {p}
    <3>1. /\ broken' \in Seq(Ids) /\ Len(broken') = Len(broken) + 1 /\ Len(broken) \in Nat
          /\ \A i \in 1..Len(broken) : broken'[i] = broken[i]
          /\ broken'[Len(broken) + 1] = p
          /\ DOMAIN broken = 1..Len(broken) /\ DOMAIN broken' = 1..Len(broken')
      BY <2>1, <1>3
    <3>2. cut' \in BOOLEAN
      BY <2>1, <1>3
    <3>3. ToSet(broken') = ToSet(broken) \cup {p}
      <4>1. 1..Len(broken') = 1..Len(broken) \cup {Len(broken) + 1}
        BY <3>1
      <4> QED
        BY <3>1, <4>1 DEF ToSet
    <3> QED
      BY <3>1, <3>2, <3>3
  <2>3. Classified' = Classified \cup {p}
    BY <2>1, <2>2 DEF Classified
  <2>4. Frame(p) \in [of : Ids, left : SUBSET Ids] /\ Frame(p).left \subseteq nodes
        /\ Frame(p).of = p /\ Frame(p).left = Predecessors(p)
    BY <1>3 DEF Frame, Predecessors
  <2>5. CASE walk' = Append(Without(p), Frame(p)) /\ cut' = cut
    <3> DEFINE Call == [of : Ids, left : SUBSET Ids]
    <3>1. /\ walk' \in Seq(Call) /\ Len(walk') = Len(walk) + 1
          /\ \A d \in 1..Len(walk) : walk'[d] = Without(p)[d]
          /\ walk'[Len(walk) + 1] = Frame(p)
      <4>1. Without(p) \in Seq(Call) /\ Frame(p) \in Call /\ Len(Without(p)) = Len(walk)
        BY <1>2, <2>4
      <4> HIDE DEF Call
      <4> QED
        BY <4>1, <2>5, AppendProperties
    <3>2. \A d \in 1..Len(walk') : d \in 1..Len(walk) \/ d = Len(walk) + 1
      BY <3>1, <1>2
    <3>3. \A d \in 1..Len(walk') : walk'[d].left \subseteq nodes'
      BY <3>1, <3>2, <2>4, <1>2, <1>4, <1>5
    <3>4. ASSUME ~cut', NEW b \in ToSet(broken'), NEW q \in Predecessors(b)'
          PROVE  q \in fixed' \cup Classified' \/ Pending(b, q)'
      <4>1. q \in Predecessors(b) /\ ~cut
        BY <3>4, <2>5, <1>4
      <4>2. CASE b = p
        <5>1. Len(walk) + 1 \in 1..Len(walk')
          BY <3>1, <1>2
        <5>2. walk'[Len(walk) + 1].of = b /\ q \in walk'[Len(walk) + 1].left
          BY <4>1, <4>2, <3>1, <2>4
        <5> QED
          BY <5>1, <5>2 DEF Pending
      <4>3. CASE b \in ToSet(broken) /\ q \in fixed \cup Classified \cup {p}
        BY <4>3, <2>3, <1>4
      <4>4. CASE b \in ToSet(broken) /\ q # p /\ Pending(b, q)
        <5>1. PICK d \in 1..Len(walk) : walk[d].of = b /\ q \in walk[d].left
          BY <4>4 DEF Pending
        <5>2. d \in 1..Len(walk') /\ walk'[d] = Without(p)[d]
          BY <1>2, <3>1
        <5>3. walk'[d].of = b /\ q \in walk'[d].left
          BY <5>1, <5>2, <4>4, <1>2
        <5> QED
          BY <5>2, <5>3 DEF Pending
      <4> QED
        BY <4>1, <4>2, <4>3, <4>4, <2>2, <1>5
    <3>5. CascadeOnItsWay'
      BY <3>3, <3>4, <1>1, <1>4 DEF CascadeOnItsWay
    <3>6. kept' \subseteq nodes /\ stale' \subseteq nodes
      BY <2>1, <1>3
    <3> QED
      BY <3>1, <3>5, <3>6, <2>2, <1>1, CascadeStepInv
  <2>6. CASE walk' = Without(p) /\ cut' = (cut \/ Predecessors(p) # {})
    <3>1. \A d \in 1..Len(walk') : walk'[d].left \subseteq nodes'
      BY <2>6, <1>2, <1>4, <1>5
    <3>2. ASSUME ~cut', NEW b \in ToSet(broken'), NEW q \in Predecessors(b)'
          PROVE  q \in fixed' \cup Classified' \/ Pending(b, q)'
      <4>1. q \in Predecessors(b) /\ ~cut /\ b # p
        BY <3>2, <2>6, <1>4
      <4>2. CASE q \in fixed \cup Classified \cup {p}
        BY <4>2, <2>3, <1>4
      <4>3. CASE q # p /\ Pending(b, q)
        <5>1. PICK d \in 1..Len(walk) : walk[d].of = b /\ q \in walk[d].left
          BY <4>3 DEF Pending
        <5>2. d \in 1..Len(walk') /\ walk'[d].of = b /\ q \in walk'[d].left
          BY <5>1, <4>3, <1>2, <2>6
        <5> QED
          BY <5>2 DEF Pending
      <4> QED
        BY <4>1, <4>2, <4>3, <2>2, <1>5
    <3>3. CascadeOnItsWay'
      BY <3>1, <3>2, <1>1, <1>4 DEF CascadeOnItsWay
    <3>4. kept' \subseteq nodes /\ stale' \subseteq nodes
      BY <2>1, <1>3
    <3> QED
      BY <3>3, <3>4, <2>2, <2>6, <1>1, <1>2, CascadeStepInv
  <2> QED
    BY <2>1, <2>5, <2>6
<1> QED
  <2>1. CASE Skip(p)
    BY <2>1, <1>3, <1>6 DEF Skip, Classified
  <2>2. CASE Preserved(p)
    BY <2>2, <1>2, <1>3, <1>6 DEF Preserved, Classified
  <2>3. CASE NeedsReexecution(p)
    BY <2>3, <1>2, <1>3, <1>6 DEF NeedsReexecution, Classified
  <2> QED
    BY <2>1, <2>2, <2>3, <1>7 DEF CascadeNode

LEMMA ShorterByOne ==
  ASSUME NEW S, NEW s \in Seq(S), s # <<>>
  PROVE  /\ SubSeq(s, 1, Len(s) - 1) \in Seq(S) /\ Len(s) \in Nat \ {0}
         /\ Len(SubSeq(s, 1, Len(s) - 1)) = Len(s) - 1
         /\ \A d \in 1..Len(s) - 1 : SubSeq(s, 1, Len(s) - 1)[d] = s[d]
<1>1. Len(s) \in Nat \ {0} /\ \A i \in 1..Len(s) : s[i] \in S
  OBVIOUS
<1> DEFINE m == Len(s) - 1
<1>2. /\ m \in Nat /\ m - 1 + 1 = m /\ (1 <= m \/ m = 0)
      /\ \A i \in 1..m : i \in 1..Len(s) /\ 1 + i - 1 = i
  <2>1. \A n \in Nat \ {0} : /\ n - 1 \in Nat /\ n - 1 - 1 + 1 = n - 1
                             /\ (1 <= n - 1 \/ n - 1 = 0)
                             /\ \A i \in 1..n - 1 : i \in 1..n /\ 1 + i - 1 = i
    OBVIOUS
  <2> QED
    BY <2>1, <1>1
<1> HIDE DEF m
<1>3. /\ SubSeq(s, 1, m) \in Seq(S)
      /\ Len(SubSeq(s, 1, m)) = IF 1 <= m THEN m - 1 + 1 ELSE 0
      /\ \A i \in 1..m - 1 + 1 : SubSeq(s, 1, m)[i] = s[1 + i - 1]
  BY <1>1, <1>2, SubSeqProperties
<1>4. /\ SubSeq(s, 1, m) \in Seq(S) /\ Len(SubSeq(s, 1, m)) = m
      /\ \A i \in 1..m : SubSeq(s, 1, m)[i] = s[i]
  BY <1>2, <1>3
<1> QED
  BY <1>1, <1>4 DEF m

(* A call returns when it has nobody left to ask about. *)
LEMMA ReturnInv == ASSUME IInv, Return PROVE IInv'
<1>1. /\ at = "cascade" /\ walk # <<>> /\ walk[Len(walk)].left = {}
      /\ walk' = SubSeq(walk, 1, Len(walk) - 1)
      /\ UNCHANGED <<graph, inspect, loop>> /\ UNCHANGED <<kept, stale, broken, cut>>
      /\ UNCHANGED <<nodes, links, fixed, at>> /\ errors' # <<>>
  BY DEF Return, Front, Last, graph, loop, IInv, CascadeOnItsWay
<1>2. /\ walk' \in Seq([of : Ids, left : SUBSET Ids]) /\ Len(walk) \in Nat \ {0}
      /\ Len(walk') = Len(walk) - 1 /\ \A d \in 1..Len(walk) - 1 : walk'[d] = walk[d]
  <2> DEFINE Call == [of : Ids, left : SUBSET Ids]
  <2>1. walk \in Seq(Call)
    BY DEF IInv, TypeOK
  <2> HIDE DEF Call
  <2>2. /\ walk' \in Seq(Call) /\ Len(walk) \in Nat \ {0}
        /\ Len(walk') = Len(walk) - 1 /\ \A d \in 1..Len(walk) - 1 : walk'[d] = walk[d]
    BY <2>1, <1>1, ShorterByOne
  <2> QED
    BY <2>2 DEF Call
<1>3. \A i : Predecessors(i)' = Predecessors(i)
  BY <1>1, SameGraph
<1>4. \A d \in 1..Len(walk') : walk'[d].left \subseteq nodes'
  BY <1>1, <1>2 DEF IInv, CascadeOnItsWay
<1>5. ASSUME ~cut', NEW b \in ToSet(broken'), NEW q \in Predecessors(b)'
      PROVE  q \in fixed' \cup Classified' \/ Pending(b, q)'
  <2>1. ~cut /\ b \in ToSet(broken) /\ q \in Predecessors(b) /\ Classified' = Classified
    BY <1>5, <1>1, <1>3 DEF ToSet, Classified
  <2>2. CASE q \in fixed \cup Classified
    BY <2>1, <2>2, <1>1
  <2>3. CASE Pending(b, q)
    <3>1. PICK d \in 1..Len(walk) : walk[d].of = b /\ q \in walk[d].left
      BY <2>3 DEF Pending
    <3>2. d \in 1..Len(walk) - 1
      BY <3>1, <1>1, <1>2
    <3>3. d \in 1..Len(walk') /\ walk'[d].of = b /\ q \in walk'[d].left
      BY <3>1, <3>2, <1>2
    <3> QED
      BY <3>3 DEF Pending
  <2> QED
    BY <2>1, <2>2, <2>3 DEF IInv, CascadeOnItsWay
<1>6. CascadeOnItsWay'
  BY <1>1, <1>4, <1>5 DEF CascadeOnItsWay
<1>7. /\ broken' \in Seq(Ids) /\ cut' \in BOOLEAN
      /\ kept' \subseteq nodes /\ stale' \subseteq nodes
  BY <1>1 DEF IInv, TypeOK
<1> QED
  BY <1>1, <1>2, <1>6, <1>7, CascadeStepInv

LEMMA CascadeEndsInv == ASSUME IInv, CascadeErrs \/ CascadeReturns PROVE IInv'
<1>1. /\ at = "cascade" /\ at' = "replan" /\ ForgetCascade
      /\ \/ errors' = Tail(errors)
         \/ errors' = <<Head(broken)>> /\ broken # <<>>
      /\ UNCHANGED inspect /\ UNCHANGED <<nodes, links, fixed>>
      /\ UNCHANGED <<attempts, patched, mended>>
  <2>1. CASE CascadeErrs
    BY <2>1 DEF CascadeErrs, graph
  <2>2. CASE CascadeReturns
    BY <2>2 DEF CascadeReturns, graph
  <2> QED
    BY <2>1, <2>2
<1>2. nodes' \subseteq Ids /\ nodes' = nodes
  BY <1>1 DEF IInv, TypeOK, SearchTypeOK
<1>3. /\ SearchInv' /\ Inspecting' /\ InspectionOver'
      /\ remaining' \in Seq(Relation) /\ faulty' \subseteq Ids
  BY <1>1, <1>2, NotInspecting
<1>4. CascadeOnItsWay'
  BY <1>1 DEF ForgetCascade, CascadeOnItsWay, NoCascade, ToSet
<1>5. errors' \in Seq(Ids)
  <2>1. errors \in Seq(Ids) /\ broken \in Seq(Ids) /\ errors # <<>>
    BY <1>1 DEF IInv, TypeOK, CascadeOnItsWay
  <2>2. CASE errors' = Tail(errors)
    BY <2>1, <2>2
  <2>3. CASE errors' = <<Head(broken)>> /\ broken # <<>>
    BY <2>1, <2>3
  <2> QED
    BY <2>2, <2>3, <1>1
<1>6. TypeOK'
  <2>1. /\ broken' \in Seq(Ids) /\ walk' \in Seq([of : Ids, left : SUBSET Ids])
        /\ kept' \subseteq nodes' /\ stale' \subseteq nodes' /\ cut' \in BOOLEAN
    <3>1. walk' = <<>> /\ kept' = {} /\ stale' = {} /\ broken' = <<>> /\ cut' = FALSE
      BY <1>1 DEF ForgetCascade
    <3>2. cut' \in BOOLEAN
      BY <3>1
    <3> QED
      BY <3>1, <3>2
  <2> QED
    BY <1>1, <1>3, <1>5, <2>1 DEF IInv, TypeOK, SearchInv, Places
<1> QED
  BY <1>1, <1>3, <1>4, <1>6 DEF IInv, GatePassed, PassedGraphIsSound

----------------------------------------------------------------------------
LEMMA InitIInv == Init => IInv
<1> SUFFICES ASSUME Init PROVE IInv
  OBVIOUS
<1>1. PICK g \in Seeds : nodes = g.nodes /\ links = g.links /\ fixed = g.fixed
  BY DEF Init
<1>2. nodes \subseteq Ids /\ links \subseteq Link /\ fixed \subseteq nodes
  BY <1>1, ReplanAssumption
<1>3. /\ result = "idle" /\ mark = AllUnseen /\ stack = <<>> /\ path = <<>> /\ cycle = <<>>
      /\ arcs = {} /\ remaining = <<>> /\ faulty = {} /\ NoCascade
      /\ at = "graph" /\ attempts = 0 /\ errors = <<>> /\ patched = 0 /\ mended = FALSE
  BY DEF Init, SearchIdle
<1>4. SearchTypeOK
  BY <1>2, <1>3 DEF SearchTypeOK, AllUnseen, Mark
<1>5. SearchInv
  BY <1>3, <1>4, NoSearch
<1>6. TypeOK
  <2>1. attempts \in 0..MaxRepairs /\ patched \in 0..MaxPatches
    BY <1>3, ReplanAssumption
  <2>2. cut \in BOOLEAN /\ mended \in BOOLEAN /\ at \in Places
    BY <1>3 DEF NoCascade, Places
  <2>3. /\ broken \in Seq(Ids) /\ walk \in Seq([of : Ids, left : SUBSET Ids])
        /\ kept \subseteq nodes /\ stale \subseteq nodes
        /\ errors \in Seq(Ids) /\ remaining \in Seq(Relation) /\ faulty \subseteq Ids
    BY <1>3 DEF NoCascade
  <2> QED
    BY <1>2, <1>4, <2>1, <2>2, <2>3 DEF TypeOK
<1>7. CascadeOnItsWay
  BY <1>3 DEF CascadeOnItsWay, NoCascade, ToSet
<1> QED
  BY <1>3, <1>5, <1>6, <1>7
     DEF IInv, Inspecting, InspectionOver, GatePassed, PassedGraphIsSound

LEMMA UnchangedInv == ASSUME IInv, UNCHANGED vars PROVE IInv'
<1>1. /\ UNCHANGED graph /\ UNCHANGED <<nodes, links, fixed>>
      /\ UNCHANGED <<arcs, result, mark, stack, path, cycle, remaining, faulty>>
      /\ UNCHANGED <<walk, kept, stale, broken, cut>>
      /\ UNCHANGED <<at, attempts, errors, patched, mended>>
  BY DEF vars, graph, inspect, search, cascade, loop
<1>2. SearchInv'
  <2>1. UNCHANGED <<nodes, arcs, search>>
    BY <1>1 DEF search
  <2> QED
    BY <2>1, StepInv DEF IInv
<1>3. TypeOK'
  BY <1>1, <1>2 DEF IInv, TypeOK, SearchInv
<1>4. Inspecting' /\ InspectionOver'
  BY <1>1, SameGraph DEF IInv, Inspecting, InspectionOver, Relation
<1>5. GatePassed' /\ PassedGraphIsSound'
  BY <1>1, SameGraph DEF IInv, GatePassed, PassedGraphIsSound, AcyclicRelations, ToSet, Relation
<1>6. CascadeOnItsWay'
  <2>1. \A i : Predecessors(i)' = Predecessors(i)
    BY <1>1, SameGraph
  <2>2. (NoCascade' <=> NoCascade) /\ Classified' = Classified /\ ToSet(broken)' = ToSet(broken)
    BY <1>1 DEF NoCascade, Classified, ToSet
  <2>3. \A b, q : Pending(b, q)' <=> Pending(b, q)
    BY <1>1 DEF Pending
  <2>4. CascadeOnItsWay
    BY DEF IInv
  <2> QED
    BY <1>1, <2>1, <2>2, <2>3, <2>4 DEF CascadeOnItsWay
<1> QED
  BY <1>2, <1>3, <1>4, <1>5, <1>6 DEF IInv

LEMMA NextIInv == IInv /\ [Next]_vars => IInv'
<1> SUFFICES ASSUME IInv, [Next]_vars PROVE IInv'
  OBVIOUS
<1>1. CASE UNCHANGED vars
  BY <1>1, UnchangedInv
<1>2. CASE ReadyForVerify \/ EnterReview
  BY <1>2, ReadyForVerifyInv, EnterReviewInv
<1>3. CASE Search
  BY <1>3, SearchNodeInv, SearchNextRelationInv, SearchPanicsInv DEF Search
<1>4. CASE Judge
  BY <1>4, JudgeInv, RepairDriftInv, LocalRepairInv DEF Judge
<1>5. CASE \/ \E p \in Proposable : ProposePatch(p)
           \/ \E p \in PerhapsNone : Repaired(p)
  BY <1>5, PatchesInv DEF PerhapsNone
<1>6. CASE TaskFailed \/ ValidatorObjects \/ \E ids \in SeqOf(Ids, 2) : TaskBlames(ids)
  BY <1>6, UnpatchedInv
<1>7. CASE Replan
  BY <1>7, UnpatchedInv, RedesignInv DEF Replan, Redesigns
<1>8. CASE Cascade
  BY <1>8, ReturnInv, CascadeEndsInv, CascadeNodeInv DEF Cascade
<1> QED
  BY <1>1, <1>2, <1>3, <1>4, <1>5, <1>6, <1>7, <1>8 DEF Next

LEMMA Invariance == Spec => []IInv
BY InitIInv, NextIInv, PTL DEF Spec

(* Every variable of the life of a graph keeps its type, whatever patches  *)
(* are accepted, refused half-way or cut short.                            *)
THEOREM TypeCorrect == Spec => []TypeOK
<1>1. IInv => TypeOK
  BY DEF IInv
<1> QED
  BY <1>1, Invariance, PTL

(* What the Task phase executes and the reviewer accepts has no dangling   *)
(* edge and no cycle, and is reached from an anchor unless the verifier's  *)
(* own repair came after the gate: the gate, the two searches and the      *)
(* check for edges that dangle amount to that only together.               *)
THEOREM PassesOnlySound == Spec => []PassedGraphIsSound
<1>1. IInv => PassedGraphIsSound
  BY DEF IInv
<1> QED
  BY <1>1, Invariance, PTL

(* A pass of backtrack_recursive that the depth limit did not cut short    *)
(* leaves nobody unasked who feeds a node in need of repair.               *)
THEOREM CascadeIsComplete == Spec => []CascadeCovers
<1>1. IInv => CascadeCovers
  <2> SUFFICES ASSUME IInv, walk = <<>>, ~cut, NEW b \in ToSet(broken), NEW q \in Predecessors(b)
               PROVE  q \in fixed \cup Classified
    BY DEF CascadeCovers
  <2>1. ~Pending(b, q)
    BY DEF Pending
  <2> QED
    BY <2>1 DEF IInv, CascadeOnItsWay
<1> QED
  BY <1>1, Invariance, PTL

(* The search answers exactly where verifier and reviewer call it, on the  *)
(* graph as patches, repairs and redesigns have left it.                   *)
THEOREM SearchIsExactInReplan == Spec => []FindsExactlyCycles
<1>1. IInv => FindsExactlyCycles
  BY DEF IInv, SearchInv
<1> QED
  BY <1>1, Invariance, PTL
============================================================================
