--------------------------- MODULE DispatchProofs ---------------------------
(* Theorems of Dispatch: for every set of tasks, every DependsOn relation  *)
(* (cyclic ones included) and every setting of scheduler and pool.         *)
EXTENDS Dispatch, FiniteSetTheorems, TLAPS

(* The inductive invariant.  The plan so far partitions what is no longer  *)
(* left, *)
Partition ==
  /\ \A i \in 1..Len(plan) : plan[i] \subseteq Tasks \ left
  /\ \A t \in Tasks \ left : \E i \in 1..Len(plan) : t \in plan[i]
  /\ \A t \in Tasks, i, j \in 1..Len(plan) : t \in plan[i] /\ t \in plan[j] => i = j

(* dep_count counts what is left of a task's prerequisites, and what is    *)
(* ready has none: the chunks of one turn are independent of each other.   *)
Counted ==
  /\ \A t \in left : waits[t] = Cardinality(DependsOn(t) \cap left)
  /\ \A t \in ready : DependsOn(t) \cap left = {}

(* Prerequisites are in earlier batches, and no knot is planned entirely.  *)
Ordered ==
  \A i \in 1..Len(plan) : \A t \in plan[i] : \A d \in DependsOn(t) :
    \E j \in 1..Len(plan) : j < i /\ d \in plan[j]

KnotsStay == \A S \in SUBSET Tasks : Knot(S) => S \cap left # {}

Stages ==
  /\ stage = "plan" => batch = 0
  /\ stage = "run" => left = {}
  /\ stage = "over" <=> verdict # "none"
  /\ verdict = "cycle" => Knot(left)

(* Exactly the batches up to the current one were spawned; all before it   *)
(* have ended, and so have the joined members of it.                       *)
Spawned ==
  /\ \A t \in Tasks : state[t] # "idle" <=> \E i \in 1..Len(plan) : i <= batch /\ t \in plan[i]
  /\ \A i \in 1..Len(plan) : i < batch => \A t \in plan[i] : state[t] = "ended"
  /\ joined \subseteq Current
  /\ \A t \in joined : state[t] = "ended"

(* Each batch keeps to its semaphore.                                      *)
AtWork(S) == {u \in S : state[u] = "running"}
Throttled == \A i \in 1..Len(plan) : Cardinality(AtWork(plan[i])) <= setting.permits

Recorded ==
  /\ \A t \in Tasks : state[t] = "ended" <=> outcome[t] # "none"
  /\ \A t \in Tasks : setting.contract = "must_edit" /\ outcome[t] = "met" => work[t].wrote
  /\ stage # "over" => \A t \in Tasks : outcome[t] # "rejected"

(* What was joined and let the next batch start is a result, not an error. *)
Unbroken ==
  /\ \A i \in 1..Len(plan) : i < batch => \A t \in plan[i] : outcome[t] # "broken"
  /\ \A t \in joined : outcome[t] # "broken"

IInv ==
  /\ TypeOK /\ Partition /\ Counted /\ Ordered /\ KnotsStay /\ Stages
  /\ Spawned /\ Throttled /\ Recorded /\ Unbroken
  /\ ResultForEveryTask /\ VerdictKeepsContracts

----------------------------------------------------------------------------
(* What the steps leave alone.                                             *)

PlanInv == Partition /\ Counted /\ Ordered /\ KnotsStay

LEMMA PlanFrame ==
  ASSUME PlanInv, UNCHANGED <<deps, planning>>
  PROVE  PlanInv'
<1>1. Partition'
  BY DEF PlanInv, Partition, planning
<1>2. \A t : DependsOn(t)' = DependsOn(t)
  BY DEF DependsOn
<1>3. Counted'
  BY <1>2 DEF PlanInv, Counted, planning
<1>4. Ordered'
  BY <1>2 DEF PlanInv, Ordered, planning
<1>5. \A S : Knot(S)' = Knot(S)
  BY <1>2 DEF Knot
<1>6. KnotsStay'
  BY <1>5 DEF PlanInv, KnotsStay, planning
<1> QED
  BY <1>1, <1>3, <1>4, <1>6 DEF PlanInv

LEMMA RunFrame ==
  ASSUME Spawned, Throttled, UNCHANGED <<setting, plan, running>>
  PROVE  Spawned' /\ Throttled'
  BY DEF Spawned, Throttled, AtWork, Current, running

LEMMA UnbrokenFrame ==
  ASSUME Unbroken, UNCHANGED <<plan, batch, joined, outcome>>
  PROVE  Unbroken'
  BY DEF Unbroken

(* Every set of tasks is finite.                                           *)
LEMMA TasksFinite ==
  ASSUME NEW S \in SUBSET Tasks
  PROVE  IsFiniteSet(S) /\ Cardinality(S) \in Nat
  BY DispatchAssumption, FS_Subset, FS_CardinalityType

(* The scheduler's subtraction keeps dep_count exact, and never saturates. *)
LEMMA CountsAfterRelease ==
  ASSUME NEW t \in Tasks, NEW L \in SUBSET Tasks, NEW chunk \in SUBSET L
  PROVE  Minus(Cardinality(DependsOn(t) \cap L), Cardinality(DependsOn(t) \cap chunk))
           = Cardinality(DependsOn(t) \cap (L \ chunk))
<1> DEFINE A == DependsOn(t) \cap L
           B == DependsOn(t) \cap chunk
<1>1. A \in SUBSET Tasks /\ B \in SUBSET A /\ A \cap B = B
      /\ A \ B = DependsOn(t) \cap (L \ chunk)
  OBVIOUS
<1> HIDE DEF A, B
<1>2. IsFiniteSet(A) /\ Cardinality(A) \in Nat /\ IsFiniteSet(B) /\ Cardinality(B) \in Nat
  BY <1>1, TasksFinite
<1>3. Cardinality(B) <= Cardinality(A)
  BY <1>1, <1>2, FS_Subset
<1>4. Cardinality(A \ B) = Cardinality(A) - Cardinality(A \cap B)
  BY <1>2, FS_Difference
<1>5. Minus(Cardinality(A), Cardinality(B)) = Cardinality(A \ B)
  BY <1>1, <1>2, <1>3, <1>4 DEF Minus
<1> QED
  BY <1>1, <1>5 DEF A, B

----------------------------------------------------------------------------
(* Planning.                                                               *)

LEMMA InitStep == Init => IInv
<1> SUFFICES ASSUME Init PROVE IInv
  OBVIOUS
<1>1. \A t \in Tasks : DependsOn(t) \in SUBSET Tasks /\ DependsOn(t) \cap Tasks = DependsOn(t)
  BY DEF DependsOn
<1>2. TypeOK
  <2>1. \A t \in Tasks : Cardinality(DependsOn(t)) \in Nat
    BY <1>1, TasksFinite
  <2>2. MaxSteps \in Nat
    BY DispatchAssumption
  <2> QED
    BY <2>1, <2>2 DEF Init, TypeOK, Verdict, Outcome
<1>3. Partition
  BY DEF Init, Partition
<1>4. Counted
  BY <1>1 DEF Init, Counted
<1>5. Ordered
  BY DEF Init, Ordered
<1>6. KnotsStay
  BY DEF Init, KnotsStay, Knot
<1>7. Stages
  BY DEF Init, Stages
<1>8. Spawned
  BY DEF Init, Spawned, Current
<1>9. Throttled
  BY DEF Init, Throttled
<1>10. Recorded
  BY DEF Init, Recorded
<1>11. ResultForEveryTask /\ VerdictKeepsContracts
  BY DEF Init, ResultForEveryTask, VerdictKeepsContracts
<1>12. Unbroken
  BY DEF Init, Unbroken
<1> QED
  BY <1>2, <1>3, <1>4, <1>5, <1>6, <1>7, <1>8, <1>9, <1>10, <1>11, <1>12 DEF IInv

(* While there is no verdict, the properties of the verdict hold.          *)
LEMMA NoVerdict ==
  ASSUME verdict' = "none" \/ verdict' \in {"cycle", "broken", "timeout", "dropped"}
  PROVE  ResultForEveryTask' /\ VerdictKeepsContracts'
  BY DEF ResultForEveryTask, VerdictKeepsContracts

LEMMA PickReadyStep ==
  ASSUME IInv, PickReady
  PROVE  IInv'
<1>1. TypeOK'
  BY DEF IInv, TypeOK, PickReady, Unblocked, running
<1>2. \A t : DependsOn(t)' = DependsOn(t)
  BY DEF DependsOn, PickReady
<1>3. Partition'
  BY DEF IInv, Partition, PickReady
<1>4. Counted'
  <2>1. ASSUME NEW t \in Unblocked PROVE DependsOn(t) \cap left = {}
    <3>1. DependsOn(t) \cap left \in SUBSET Tasks
      BY DEF IInv, TypeOK
    <3>2. Cardinality(DependsOn(t) \cap left) = 0
      BY <2>1 DEF Unblocked, IInv, Counted
    <3> QED
      BY <3>1, <3>2, TasksFinite, FS_EmptySet
  <2> QED
    BY <1>2, <2>1 DEF IInv, Counted, PickReady
<1>5. Ordered'
  BY <1>2 DEF IInv, Ordered, PickReady
<1>6. KnotsStay'
  BY <1>2 DEF IInv, KnotsStay, Knot, PickReady
<1>7. Stages'
  <2>1. verdict' = verdict /\ verdict # "cycle"
    BY DEF IInv, Stages, PickReady
  <2> QED
    BY <2>1 DEF IInv, Stages, PickReady, running
<1>8. Spawned' /\ Throttled'
  BY RunFrame DEF IInv, PickReady
<1>9. Recorded'
  BY DEF IInv, Recorded, PickReady, running
<1>10. ResultForEveryTask' /\ VerdictKeepsContracts'
  BY NoVerdict DEF IInv, Stages, PickReady
<1>11. Unbroken'
  BY UnbrokenFrame DEF IInv, PickReady, running
<1> QED
  BY <1>1, <1>3, <1>4, <1>5, <1>6, <1>7, <1>8, <1>9, <1>10, <1>11 DEF IInv

(* A knot that loses members which wait for nothing of it stays one.       *)
LEMMA KnotShrinks ==
  ASSUME IInv, NEW chunk \in SUBSET ready, NEW S \in SUBSET Tasks, Knot(S)
  PROVE  S \cap (left \ chunk) # {}
<1> SUFFICES ASSUME S \cap (left \ chunk) = {} PROVE FALSE
  OBVIOUS
<1> DEFINE R == S \ left
<1>1. \A t \in S \cap left : DependsOn(t) \cap left = {}
  BY DEF IInv, Counted
<1>2. \A t \in Tasks \ left : DependsOn(t) \cap left = {}
  BY DEF IInv, Partition, Ordered
<1>3. \A t \in S : DependsOn(t) \cap R # {}
  BY <1>1, <1>2 DEF Knot
<1>4. R # {}
  BY <1>3 DEF Knot
<1>5. Knot(R)
  BY <1>3, <1>4 DEF Knot
<1>6. R \in SUBSET Tasks /\ R \cap left = {}
  OBVIOUS
<1> QED
  BY <1>5, <1>6 DEF IInv, KnotsStay

LEMMA CutBatchStep ==
  ASSUME IInv, NEW chunk \in SUBSET ready, CutBatch(chunk)
  PROVE  IInv'
<1> DEFINE n == Len(plan)
<1>1. /\ left \in SUBSET Tasks /\ ready \in SUBSET left /\ chunk \in SUBSET left
      /\ plan \in Seq(SUBSET Tasks) /\ waits \in [Tasks -> Nat]
      /\ n \in Nat /\ batch = 0 /\ joined = {} /\ verdict = "none" /\ stage = "plan"
  BY DEF IInv, TypeOK, Stages, Spawned, Current, CutBatch
<1>2. /\ left' = left \ chunk /\ ready' = ready \ chunk /\ waits' = Release(chunk)
      /\ UNCHANGED <<setting, deps, stage, batch, joined, state, work, outcome, verdict>>
  BY DEF CutBatch, running
<1>3. /\ Len(plan') = n + 1 /\ plan'[n + 1] = chunk
      /\ \A i \in 1..n : plan'[i] = plan[i]
      /\ plan' \in Seq(SUBSET Tasks)
  BY <1>1 DEF CutBatch
<1>4. \A t : DependsOn(t)' = DependsOn(t)
  BY <1>2 DEF DependsOn
<1>5. \A i : i \in 1..Len(plan') <=> i \in 1..n \/ i = n + 1
  BY <1>1, <1>3
<1>6. \A i \in 1..n : i < n + 1 /\ i # n + 1 /\ i \in 1..Len(plan')
  BY <1>1, <1>3
<1> HIDE DEF n
<1>7. TypeOK'
  <2>1. waits' \in [Tasks -> Nat]
    <3>1. ASSUME NEW t \in Tasks
          PROVE  Minus(waits[t], Cardinality(DependsOn(t) \cap chunk)) \in Nat
      <4>1. Cardinality(DependsOn(t) \cap chunk) \in Nat
        BY <1>1, TasksFinite
      <4> QED
        BY <1>1, <4>1 DEF Minus
    <3> QED
      BY <1>2, <3>1 DEF Release
  <2>2. batch' \in 0..Len(plan')
    BY <1>1, <1>2, <1>3
  <2>3. left' \subseteq Tasks /\ ready' \subseteq left'
    BY <1>1, <1>2
  <2> QED
    BY <1>1, <1>2, <1>3, <2>1, <2>2, <2>3 DEF IInv, TypeOK
<1>8. Partition'
  <2>1. \A i \in 1..n : plan[i] \subseteq Tasks \ left
    BY DEF IInv, Partition, n
  <2>2. ASSUME NEW i \in 1..Len(plan') PROVE plan'[i] \subseteq Tasks' \ left'
    BY <1>1, <1>2, <1>3, <1>5, <2>1
  <2>3. ASSUME NEW t \in Tasks \ left' PROVE \E i \in 1..Len(plan') : t \in plan'[i]
    <3>1. CASE t \in chunk
      BY <1>3, <1>5, <3>1
    <3>2. CASE t \notin chunk
      <4>1. t \in Tasks \ left
        BY <1>2, <3>2
      <4>2. PICK i \in 1..n : t \in plan[i]
        BY <4>1 DEF IInv, Partition, n
      <4> QED
        BY <1>3, <1>5, <4>2
    <3> QED
      BY <3>1, <3>2
  <2>4. ASSUME NEW t \in Tasks, NEW i \in 1..Len(plan'), NEW j \in 1..Len(plan'),
               t \in plan'[i], t \in plan'[j]
        PROVE  i = j
    <3>1. CASE i \in 1..n /\ j \in 1..n
      BY <1>3, <2>4, <3>1 DEF IInv, Partition, n
    <3>2. CASE i = n + 1 /\ j = n + 1
      BY <3>2
    <3>3. ~(i \in 1..n /\ j = n + 1) /\ ~(i = n + 1 /\ j \in 1..n)
      BY <1>1, <1>3, <2>1, <2>4
    <3> QED
      BY <1>5, <3>1, <3>2, <3>3
  <2> QED
    BY <2>2, <2>3, <2>4 DEF Partition
<1>9. Counted'
  <2>1. ASSUME NEW t \in left' PROVE waits'[t] = Cardinality(DependsOn(t) \cap left')
    <3>1. t \in Tasks /\ t \in left
      BY <1>1, <1>2, <2>1
    <3>2. waits[t] = Cardinality(DependsOn(t) \cap left)
      BY <3>1 DEF IInv, Counted
    <3>3. waits'[t] = Minus(waits[t], Cardinality(DependsOn(t) \cap chunk))
      BY <1>2, <3>1 DEF Release
    <3> QED
      BY <1>1, <1>2, <3>1, <3>2, <3>3, CountsAfterRelease
  <2>2. \A t \in ready' : DependsOn(t) \cap left' = {}
    BY <1>2 DEF IInv, Counted
  <2> QED
    BY <1>4, <2>1, <2>2 DEF Counted
<1>10. Ordered'
  <2>1. ASSUME NEW i \in 1..Len(plan'), NEW t \in plan'[i], NEW d \in DependsOn(t)
        PROVE  \E j \in 1..Len(plan') : j < i /\ d \in plan'[j]
    <3>1. CASE i \in 1..n
      <4>1. PICK j \in 1..n : j < i /\ d \in plan[j]
        BY <1>3, <3>1 DEF IInv, Ordered, n
      <4> QED
        BY <1>3, <1>6, <4>1
    <3>2. CASE i = n + 1
      <4>1. t \in ready
        BY <1>3, <3>2
      <4>2. d \in Tasks \ left
        BY <4>1 DEF IInv, Counted, DependsOn
      <4>3. PICK j \in 1..n : d \in plan[j]
        BY <4>2 DEF IInv, Partition, n
      <4> QED
        BY <1>3, <1>6, <3>2, <4>3
    <3> QED
      BY <1>5, <3>1, <3>2
  <2> QED
    BY <1>4, <2>1 DEF Ordered
<1>11. KnotsStay'
  <2>1. \A S : Knot(S)' = Knot(S)
    BY <1>4 DEF Knot
  <2> QED
    BY <1>2, <2>1, KnotShrinks DEF KnotsStay
<1>12. Stages'
  BY <1>1, <1>2 DEF IInv, Stages
<1>13. \A t \in Tasks : state[t] = "idle"
  BY <1>1 DEF IInv, Spawned
<1>14. Spawned'
  <2>1. ~\E i \in 1..Len(plan') : i <= batch'
    BY <1>1, <1>2, <1>3
  <2>2. ~\E i \in 1..Len(plan') : i < batch'
    BY <1>1, <1>2, <1>3
  <2> QED
    BY <1>1, <1>2, <1>13, <2>1, <2>2 DEF Spawned
<1>15. Throttled'
  <2>1. AtWork(chunk) = {} /\ setting.permits \in Nat
    BY <1>1, <1>13, DispatchAssumption DEF AtWork, IInv, TypeOK, Setting
  <2>2. Cardinality(AtWork(chunk)) <= setting.permits
    BY <2>1, FS_EmptySet
  <2>3. \A S : AtWork(S)' = AtWork(S)
    BY <1>2 DEF AtWork
  <2>4. ASSUME NEW i \in 1..Len(plan')
        PROVE  Cardinality(AtWork(plan'[i])) <= setting.permits
    BY <1>3, <1>5, <2>2 DEF IInv, Throttled, n
  <2> QED
    BY <1>2, <2>3, <2>4 DEF Throttled, AtWork
<1>16. Recorded'
  BY <1>2 DEF IInv, Recorded
<1>17. ResultForEveryTask' /\ VerdictKeepsContracts'
  BY <1>1, <1>2, NoVerdict
<1>18. Unbroken'
  <2>1. \A i \in 1..Len(plan') : ~(i < batch')
    BY <1>1, <1>2, <1>3
  <2> QED
    BY <1>1, <1>2, <2>1 DEF Unbroken
<1> QED
  BY <1>7, <1>8, <1>9, <1>10, <1>11, <1>12, <1>14, <1>15, <1>16, <1>17, <1>18 DEF IInv

(* The loop of plan ends: refused, or with every task in a batch.          *)
LEMMA PlanEndsStep ==
  ASSUME IInv, Cycle \/ Planned
  PROVE  IInv'
<1>1. /\ UNCHANGED <<setting, deps, planning, running>>
      /\ stage = "plan" /\ batch = 0 /\ verdict = "none"
      /\ \/ Cycle /\ stage' = "over" /\ verdict' = "cycle"
         \/ Planned /\ stage' = "run" /\ verdict' = verdict
  BY DEF IInv, Stages, Cycle, Planned
<1>2. TypeOK'
  BY <1>1 DEF IInv, TypeOK, Verdict, planning, running
<1>3. PlanInv'
  BY <1>1, PlanFrame DEF IInv, PlanInv
<1>4. Stages'
  <2>1. CASE Cycle
    <3>1. left # {} /\ Unblocked = {} /\ left \in SUBSET Tasks /\ waits \in [Tasks -> Nat]
      BY <2>1 DEF Cycle, IInv, TypeOK
    <3>2. ASSUME NEW t \in left PROVE DependsOn(t) \cap left # {}
      <4>1. waits[t] # 0
        BY <3>1 DEF Unblocked
      <4>2. waits[t] = Cardinality(DependsOn(t) \cap left)
        BY DEF IInv, Counted
      <4> QED
        BY <4>1, <4>2, FS_EmptySet
    <3>3. Knot(left) /\ left' = left /\ \A t : DependsOn(t)' = DependsOn(t)
      BY <1>1, <3>1, <3>2 DEF Knot, planning, DependsOn
    <3>4. Knot(left)'
      BY <3>3 DEF Knot
    <3> QED
      BY <2>1, <3>4 DEF Stages, Cycle
  <2>2. CASE Planned
    <3>1. left' = {} /\ batch' = 0 /\ stage' = "run" /\ verdict' = "none"
      BY <1>1, <2>2 DEF Planned, planning, running
    <3> QED
      BY <3>1 DEF Stages
  <2> QED
    BY <1>1, <2>1, <2>2
<1>5. Spawned' /\ Throttled'
  BY <1>1, RunFrame DEF IInv, planning
<1>6. Recorded'
  BY <1>1 DEF IInv, Recorded, running
<1>7. ResultForEveryTask' /\ VerdictKeepsContracts'
  BY <1>1, NoVerdict
<1>8. Unbroken'
  BY <1>1, UnbrokenFrame DEF IInv, planning, running
<1> QED
  BY <1>2, <1>3, <1>4, <1>5, <1>6, <1>7, <1>8 DEF IInv, PlanInv

----------------------------------------------------------------------------
(* The dispatcher.                                                         *)

(* A running dispatch has no verdict and planned every task.               *)
LEMMA RunFacts ==
  ASSUME IInv, stage = "run"
  PROVE  /\ verdict = "none" /\ left = {}
         /\ batch \in Nat /\ batch <= Len(plan) /\ Len(plan) \in Nat
         /\ plan \in Seq(SUBSET Tasks)
         /\ Current = IF batch = 0 THEN {} ELSE plan[batch]
  BY DEF IInv, TypeOK, Stages, Current

(* When its current batch is over, so are all the earlier ones.            *)
LEMMA BatchesEnded ==
  ASSUME IInv, stage = "run", BatchOver, NEW i \in 1..Len(plan), i <= batch
  PROVE  \A t \in plan[i] : state[t] = "ended"
<1>1. batch \in Nat /\ Len(plan) \in Nat
  BY RunFacts
<1>2. CASE i < batch
  BY <1>2 DEF IInv, Spawned
<1>3. CASE i = batch
  <2>1. plan[i] = joined
    BY <1>1, <1>3, RunFacts DEF BatchOver
  <2> QED
    BY <2>1 DEF IInv, Spawned
<1> QED
  BY <1>1, <1>2, <1>3

LEMMA BatchesUnbroken ==
  ASSUME IInv, stage = "run", BatchOver, NEW i \in 1..Len(plan), i <= batch
  PROVE  \A t \in plan[i] : outcome[t] # "broken"
<1>1. batch \in Nat /\ Len(plan) \in Nat
  BY RunFacts
<1>2. CASE i < batch
  BY <1>2 DEF IInv, Unbroken
<1>3. CASE i = batch
  <2>1. plan[i] = joined
    BY <1>1, <1>3, RunFacts DEF BatchOver
  <2> QED
    BY <2>1 DEF IInv, Unbroken
<1> QED
  BY <1>1, <1>2, <1>3

LEMMA SpawnBatchStep ==
  ASSUME IInv, SpawnBatch
  PROVE  IInv'
<1>1. /\ stage = "run" /\ BatchOver /\ batch < Len(plan)
      /\ batch' = batch + 1 /\ joined' = {}
      /\ state' = [t \in Tasks |-> IF t \in plan[batch + 1] THEN "queued" ELSE state[t]]
      /\ UNCHANGED <<setting, deps, stage, planning, work, outcome, verdict>>
      /\ plan' = plan /\ left' = left
  BY DEF SpawnBatch, planning
<1>2. batch + 1 \in 1..Len(plan) /\ batch \in Nat /\ Len(plan) \in Nat /\ batch + 1 # 0
  BY <1>1, RunFacts
<1>3. \A t \in plan[batch + 1] : t \in Tasks /\ state[t] = "idle" /\ outcome[t] = "none"
  <2> SUFFICES ASSUME NEW t \in plan[batch + 1] PROVE t \in Tasks /\ state[t] = "idle" /\ outcome[t] = "none"
    OBVIOUS
  <2>1. t \in Tasks
    BY <1>2, RunFacts, <1>1 DEF IInv, Partition
  <2>2. ~\E i \in 1..Len(plan) : i <= batch /\ t \in plan[i]
    <3>1. \A i \in 1..Len(plan) : t \in plan[i] => i = batch + 1
      BY <1>2, <2>1 DEF IInv, Partition
    <3> QED
      BY <1>2, <3>1
  <2>3. state[t] = "idle"
    BY <2>1, <2>2 DEF IInv, Spawned
  <2> QED
    BY <2>1, <2>3 DEF IInv, Recorded
<1>4. state \in [Tasks -> {"idle", "queued", "running", "ended"}]
  BY DEF IInv, TypeOK
<1>5. TypeOK'
  <2>1. state' \in [Tasks -> {"idle", "queued", "running", "ended"}]
    BY <1>1, <1>4
  <2>2. batch' \in 0..Len(plan') /\ joined' \subseteq Tasks /\ left' = {}
    BY <1>1, <1>2, RunFacts
  <2> QED
    BY <1>1, <2>1, <2>2 DEF IInv, TypeOK, planning
<1>6. PlanInv'
  BY <1>1, PlanFrame DEF IInv, PlanInv
<1>7. Stages'
  BY <1>1, RunFacts DEF IInv, Stages
<1>8. Spawned'
  <2>1. ASSUME NEW t \in Tasks
        PROVE  state'[t] # "idle" <=> \E i \in 1..Len(plan') : i <= batch' /\ t \in plan'[i]
    <3>1. CASE t \in plan[batch + 1]
      BY <1>1, <1>2, <3>1
    <3>2. CASE t \notin plan[batch + 1]
      <4>1. state'[t] = state[t]
        BY <1>1, <3>2
      <4>2. state[t] # "idle" <=> \E i \in 1..Len(plan) : i <= batch /\ t \in plan[i]
        BY DEF IInv, Spawned
      <4>3. \A i \in 1..Len(plan) : i <= batch + 1 <=> i <= batch \/ i = batch + 1
        BY <1>2
      <4> QED
        BY <1>1, <3>2, <4>1, <4>2, <4>3
    <3> QED
      BY <3>1, <3>2
  <2>2. ASSUME NEW i \in 1..Len(plan'), i < batch', NEW t \in plan'[i]
        PROVE  state'[t] = "ended"
    <3>1. i \in 1..Len(plan) /\ i <= batch
      BY <1>1, <1>2, <2>2
    <3>2. state[t] = "ended"
      BY <1>1, <2>2, <3>1, BatchesEnded
    <3>3. t \in Tasks
      BY <1>1, <2>2, <3>1 DEF IInv, Partition
    <3>4. t \notin plan[batch + 1]
      BY <1>3, <3>2
    <3> QED
      BY <1>1, <3>2, <3>3, <3>4
  <2>3. joined' = {}
    BY <1>1
  <2> QED
    BY <2>1, <2>2, <2>3 DEF Spawned
<1>9. Throttled'
  <2>1. ASSUME NEW i \in 1..Len(plan)
        PROVE  /\ IsFiniteSet(AtWork(plan[i]))
               /\ {u \in plan[i] : state'[u] = "running"} \in SUBSET AtWork(plan[i])
               /\ Cardinality(AtWork(plan[i])) <= setting.permits
               /\ Cardinality(AtWork(plan[i])) \in Nat
    <3>1. plan[i] \in SUBSET Tasks
      BY DEF IInv, Partition
    <3>2. AtWork(plan[i]) \in SUBSET Tasks
      BY <3>1 DEF AtWork
    <3> QED
      BY <1>1, <3>1, <3>2, TasksFinite DEF AtWork, IInv, Throttled
  <2>2. ASSUME NEW i \in 1..Len(plan)
        PROVE  Cardinality({u \in plan[i] : state'[u] = "running"}) <= setting.permits
    <3> DEFINE R == {u \in plan[i] : state'[u] = "running"}
    <3>1. R \in SUBSET AtWork(plan[i])
      BY <2>1
    <3> HIDE DEF R
    <3>2. Cardinality(R) <= Cardinality(AtWork(plan[i])) /\ Cardinality(R) \in Nat
      BY <2>1, <3>1, FS_Subset, FS_CardinalityType
    <3>3. setting.permits \in Nat
      BY DispatchAssumption DEF IInv, TypeOK, Setting
    <3>4. Cardinality(R) <= setting.permits
      BY <2>1, <3>2, <3>3
    <3> QED
      BY <3>4 DEF R
  <2> QED
    BY <1>1, <2>2 DEF Throttled, AtWork
<1>10. Recorded'
  <2>1. ASSUME NEW t \in Tasks PROVE state'[t] = "ended" <=> outcome[t] # "none"
    BY <1>1, <1>3 DEF IInv, Recorded
  <2> QED
    BY <1>1, <2>1 DEF IInv, Recorded
<1>11. ResultForEveryTask' /\ VerdictKeepsContracts'
  BY <1>1, RunFacts, NoVerdict
<1>12. Unbroken'
  <2>1. ASSUME NEW i \in 1..Len(plan), i < batch + 1, NEW t \in plan[i]
        PROVE  outcome[t] # "broken"
    <3>1. i <= batch
      BY <1>2, <2>1
    <3> QED
      BY <1>1, <2>1, <3>1, BatchesUnbroken
  <2> QED
    BY <1>1, <2>1 DEF Unbroken
<1> QED
  BY <1>5, <1>6, <1>7, <1>8, <1>9, <1>10, <1>11, <1>12 DEF IInv, PlanInv

LEMMA JoinStep ==
  ASSUME IInv, NEW t \in Tasks, Join(t)
  PROVE  IInv'
<1>1. /\ stage = "run" /\ t \in Current /\ state[t] = "ended"
      /\ joined' = joined \cup {t}
      /\ UNCHANGED <<setting, deps, stage, planning, batch, state, work, outcome, verdict>>
      /\ plan' = plan /\ left' = left
  BY DEF Join, planning
<1>2. TypeOK'
  BY <1>1 DEF IInv, TypeOK, planning
<1>3. PlanInv'
  BY <1>1, PlanFrame DEF IInv, PlanInv
<1>4. Stages'
  <2>1. verdict # "cycle"
    BY <1>1, RunFacts
  <2> QED
    BY <1>1, <2>1 DEF IInv, Stages
<1>5. Spawned'
  <2>1. Current' = Current
    BY <1>1 DEF Current
  <2> QED
    BY <1>1, <2>1 DEF IInv, Spawned
<1>6. Throttled'
  BY <1>1 DEF IInv, Throttled, AtWork
<1>7. Recorded'
  BY <1>1 DEF IInv, Recorded
<1>8. ResultForEveryTask' /\ VerdictKeepsContracts'
  BY <1>1, RunFacts, NoVerdict
<1>9. Unbroken'
  <2>1. outcome[t] # "broken"
    BY DEF Join
  <2> QED
    BY <1>1, <2>1 DEF IInv, Unbroken
<1> QED
  BY <1>2, <1>3, <1>4, <1>5, <1>6, <1>7, <1>8, <1>9 DEF IInv, PlanInv

(* A dispatch that is given up leaves its spawned tasks as they are.       *)
LEMMA AbandonStep ==
  ASSUME IInv, stage = "run", NEW why \in {"broken", "timeout", "dropped"}, Abandon(why)
  PROVE  IInv'
<1>1. /\ UNCHANGED <<setting, deps, planning, running>>
      /\ stage' = "over" /\ verdict' = why
  BY DEF Abandon
<1>2. TypeOK'
  BY <1>1 DEF IInv, TypeOK, Verdict, planning, running
<1>3. PlanInv'
  BY <1>1, PlanFrame DEF IInv, PlanInv
<1>4. Stages'
  BY <1>1 DEF Stages
<1>5. Spawned' /\ Throttled'
  BY <1>1, RunFrame DEF IInv, planning
<1>6. Recorded'
  BY <1>1 DEF IInv, Recorded, running
<1>7. ResultForEveryTask' /\ VerdictKeepsContracts'
  BY <1>1, NoVerdict
<1>8. Unbroken'
  BY <1>1, UnbrokenFrame DEF IInv, planning, running
<1> QED
  BY <1>2, <1>3, <1>4, <1>5, <1>6, <1>7, <1>8 DEF IInv, PlanInv

LEMMA AggregateStep ==
  ASSUME IInv, Aggregate
  PROVE  IInv'
<1>1. /\ stage = "run" /\ BatchOver /\ batch = Len(plan) /\ stage' = "over"
      /\ outcome' = [t \in Tasks |-> IF setting.verify /\ outcome[t] = "unmet"
                                     THEN "rejected" ELSE outcome[t]]
      /\ verdict' = IF AllSucceeded THEN "succeeded" ELSE "not_succeeded"
      /\ UNCHANGED <<setting, deps, planning, batch, joined, state, work>>
      /\ plan' = plan /\ left' = left
  BY DEF Aggregate, planning
<1>2. TypeOK'
  <2>1. outcome' \in [Tasks -> Outcome \cup {"none"}]
    BY <1>1 DEF IInv, TypeOK, Outcome
  <2> QED
    BY <1>1, <2>1 DEF IInv, TypeOK, Verdict, planning
<1>3. PlanInv'
  BY <1>1, PlanFrame DEF IInv, PlanInv
<1>4. Stages'
  BY <1>1 DEF Stages
<1>5. Spawned'
  <2>1. Current' = Current
    BY <1>1 DEF Current
  <2> QED
    BY <1>1, <2>1 DEF IInv, Spawned
<1>6. Throttled'
  BY <1>1 DEF IInv, Throttled, AtWork
<1>7. \A t \in Tasks : /\ state[t] = "ended" /\ outcome[t] \notin {"none", "broken"}
                       /\ \E i \in 1..Len(plan) : t \in plan[i]
  <2> SUFFICES ASSUME NEW t \in Tasks
               PROVE  /\ state[t] = "ended" /\ outcome[t] \notin {"none", "broken"}
                      /\ \E i \in 1..Len(plan) : t \in plan[i]
    OBVIOUS
  <2>1. PICK i \in 1..Len(plan) : t \in plan[i]
    BY <1>1, RunFacts DEF IInv, Partition
  <2>2. i <= batch
    BY <1>1, RunFacts
  <2>3. state[t] = "ended"
    BY <1>1, <2>1, <2>2, BatchesEnded
  <2>4. outcome[t] # "broken"
    BY <1>1, <2>1, <2>2, BatchesUnbroken
  <2> QED
    BY <2>1, <2>3, <2>4 DEF IInv, Recorded
<1>8. \A t \in Tasks : outcome'[t] # "none" /\ (outcome'[t] = "met" <=> outcome[t] = "met")
  BY <1>1, <1>7
<1>9. Recorded'
  BY <1>1, <1>7, <1>8 DEF IInv, Recorded
<1>10. ResultForEveryTask'
  <2>1. \A t \in Tasks, i, j \in 1..Len(plan) : t \in plan[i] /\ t \in plan[j] => i = j
    BY DEF IInv, Partition
  <2> QED
    BY <1>1, <1>7, <1>8, <2>1 DEF ResultForEveryTask
<1>11. VerdictKeepsContracts'
  <2>1. ASSUME NEW t \in Tasks
        PROVE  outcome[t] \in {"met", "unmet", "failed", "blamed"}
    <3>1. outcome[t] \in Outcome \cup {"none"}
      BY DEF IInv, TypeOK
    <3>2. outcome[t] # "rejected"
      BY <1>1 DEF IInv, Recorded
    <3> QED
      BY <1>7, <3>1, <3>2 DEF Outcome
  <2>2. AllSucceeded <=> \A t \in Tasks : outcome'[t] \in Tolerated
    <3>1. CASE setting.verify
      BY <1>1, <2>1, <3>1 DEF AllSucceeded, Tolerated
    <3>2. CASE ~setting.verify
      BY <1>1, <2>1, <3>2 DEF AllSucceeded, Tolerated
    <3> QED
      BY <3>1, <3>2
  <2>3. verdict' = "succeeded" <=> AllSucceeded
    BY <1>1
  <2>4. \A t \in Tasks : setting.verify => outcome'[t] # "unmet"
    BY <1>1
  <2>5. \A t \in Tasks :
          setting.contract = "must_edit" /\ outcome'[t] = "met" => work[t].wrote
    BY <1>8 DEF IInv, Recorded
  <2>6. Tolerated' = Tolerated
    BY <1>1 DEF Tolerated
  <2> QED
    BY <1>1, <2>2, <2>3, <2>4, <2>5, <2>6 DEF VerdictKeepsContracts
<1>12. Unbroken'
  <2>1. \A t \in Tasks : outcome'[t] # "broken"
    BY <1>1, <1>7
  <2>2. joined \subseteq Tasks /\ \A i \in 1..Len(plan) : plan[i] \subseteq Tasks
    BY DEF IInv, TypeOK, Partition
  <2> QED
    BY <1>1, <2>1, <2>2 DEF Unbroken
<1> QED
  BY <1>2, <1>3, <1>4, <1>5, <1>6, <1>9, <1>10, <1>11, <1>12 DEF IInv, PlanInv

----------------------------------------------------------------------------
(* The spawned tasks.  What they do concerns no verdict: a dispatch that   *)
(* returned results has none at work any more.                             *)

LEMMA VerdictStays ==
  ASSUME IInv, NEW t \in Tasks, state[t] # "ended",
         UNCHANGED <<setting, plan, verdict>>
  PROVE  ResultForEveryTask' /\ VerdictKeepsContracts'
<1>1. verdict \notin {"succeeded", "not_succeeded"}
  BY DEF IInv, ResultForEveryTask
<1> QED
  BY <1>1 DEF ResultForEveryTask, VerdictKeepsContracts

(* Two tasks of one batch never pass its semaphore together once the       *)
(* permits are gone.                                                       *)
LEMMA AcquireStep ==
  ASSUME IInv, NEW t \in Tasks, Acquire(t)
  PROVE  IInv'
<1>1. /\ state[t] = "queued" /\ Permit(t)
      /\ state' = [state EXCEPT ![t] = "running"]
      /\ UNCHANGED <<setting, deps, stage, planning, batch, joined, work, outcome, verdict>>
      /\ plan' = plan /\ left' = left
      /\ state \in [Tasks -> {"idle", "queued", "running", "ended"}]
  BY DEF Acquire, planning, IInv, TypeOK
<1>2. TypeOK'
  <2>1. state' \in [Tasks -> {"idle", "queued", "running", "ended"}]
    BY <1>1
  <2> QED
    BY <1>1, <2>1 DEF IInv, TypeOK, planning
<1>3. PlanInv'
  BY <1>1, PlanFrame DEF IInv, PlanInv
<1>4. Stages'
  <2>1. Knot(left)' <=> Knot(left)
    BY <1>1 DEF Knot, DependsOn
  <2> QED
    BY <1>1, <2>1 DEF IInv, Stages
<1>5. \A u \in Tasks : /\ state'[u] = "idle" <=> state[u] = "idle"
                       /\ state'[u] = "ended" <=> state[u] = "ended"
  BY <1>1
<1>6. Spawned'
  <2>1. Current' = Current /\ joined' = joined /\ joined \subseteq Tasks /\ batch' = batch
    BY <1>1 DEF Current, IInv, TypeOK
  <2>2. \A i \in 1..Len(plan) : plan[i] \subseteq Tasks
    BY DEF IInv, Partition
  <2> QED
    BY <1>1, <1>5, <2>1, <2>2 DEF IInv, Spawned
<1>7. Throttled'
  <2> SUFFICES ASSUME NEW i \in 1..Len(plan)
               PROVE  Cardinality({u \in plan[i] : state'[u] = "running"}) <= setting.permits
    BY <1>1 DEF Throttled, AtWork
  <2>1. plan[i] \in SUBSET Tasks /\ Cardinality(AtWork(plan[i])) <= setting.permits
    BY DEF IInv, Partition, Throttled
  <2>2. CASE t \notin plan[i]
    <3>1. {u \in plan[i] : state'[u] = "running"} = AtWork(plan[i])
      BY <1>1, <2>1, <2>2 DEF AtWork
    <3> QED
      BY <2>1, <3>1
  <2>3. CASE t \in plan[i]
    <3>1. PICK j \in 1..Len(plan) : t \in plan[j] /\ Cardinality(AtWork(plan[j])) < setting.permits
      BY <1>1 DEF Permit, AtWork
    <3>2. j = i
      BY <2>3, <3>1 DEF IInv, Partition
    <3>3. {u \in plan[i] : state'[u] = "running"} = AtWork(plan[i]) \cup {t}
      BY <1>1, <2>1, <2>3 DEF AtWork
    <3>4. AtWork(plan[i]) \in SUBSET Tasks /\ t \notin AtWork(plan[i])
      BY <1>1, <2>1 DEF AtWork
    <3>5. IsFiniteSet(AtWork(plan[i])) /\ Cardinality(AtWork(plan[i])) \in Nat
      BY <3>4, TasksFinite
    <3>6. Cardinality(AtWork(plan[i]) \cup {t}) = Cardinality(AtWork(plan[i])) + 1
      BY <3>4, <3>5, FS_AddElement
    <3>7. setting.permits \in Nat
      BY DispatchAssumption DEF IInv, TypeOK, Setting
    <3>8. Cardinality(AtWork(plan[i]) \cup {t}) <= setting.permits
      BY <3>1, <3>2, <3>5, <3>6, <3>7
    <3> QED
      BY <3>3, <3>8
  <2> QED
    BY <2>2, <2>3
<1>8. Recorded'
  BY <1>1, <1>5 DEF IInv, Recorded
<1>9. ResultForEveryTask' /\ VerdictKeepsContracts'
  <2>1. state[t] # "ended"
    BY <1>1
  <2> QED
    BY <1>1, <2>1, VerdictStays
<1>10. Unbroken'
  BY <1>1, UnbrokenFrame DEF IInv
<1> QED
  BY <1>2, <1>3, <1>4, <1>6, <1>7, <1>8, <1>9, <1>10 DEF IInv, PlanInv

LEMMA GoOnStep ==
  ASSUME IInv, NEW t \in Tasks, Reply(t), NEW wrote \in BOOLEAN, GoOn(t, wrote),
         work[t].wrote => wrote
  PROVE  IInv'
<1> DEFINE w == [steps |-> work[t].steps + 1, wrote |-> wrote]
<1>1. /\ state[t] = "running" /\ work[t].steps < MaxSteps
      /\ work' = [work EXCEPT ![t] = w]
      /\ UNCHANGED <<setting, deps, stage, planning, batch, joined, state, outcome, verdict>>
      /\ plan' = plan /\ left' = left
      /\ work \in [Tasks -> [steps : 0..MaxSteps, wrote : BOOLEAN]]
  BY DEF Reply, GoOn, planning, IInv, TypeOK
<1>2. TypeOK'
  <2>1. w \in [steps : 0..MaxSteps, wrote : BOOLEAN]
    <3>1. work[t].steps + 1 \in 0..MaxSteps
      BY <1>1, DispatchAssumption
    <3> QED
      BY <3>1
  <2> HIDE DEF w
  <2>2. work' \in [Tasks -> [steps : 0..MaxSteps, wrote : BOOLEAN]]
    BY <1>1, <2>1
  <2> QED
    BY <1>1, <2>2 DEF IInv, TypeOK, planning
<1>3. PlanInv'
  BY <1>1, PlanFrame DEF IInv, PlanInv
<1>4. Stages'
  <2>1. Knot(left)' <=> Knot(left)
    BY <1>1 DEF Knot, DependsOn
  <2> QED
    BY <1>1, <2>1 DEF IInv, Stages
<1>5. Spawned' /\ Throttled'
  <2>1. UNCHANGED <<plan, batch, joined, state, setting>>
    BY <1>1
  <2> QED
    BY <2>1 DEF IInv, Spawned, Throttled, AtWork, Current
<1>6. Recorded'
  <2>1. outcome[t] # "met"
    BY <1>1 DEF IInv, Recorded
  <2>2. \A u \in Tasks : u # t => work'[u] = work[u]
    BY <1>1
  <2> HIDE DEF w
  <2>3. \A u \in Tasks : setting.contract = "must_edit" /\ outcome[u] = "met" => work'[u].wrote
    BY <2>1, <2>2 DEF IInv, Recorded
  <2> QED
    BY <1>1, <2>3 DEF IInv, Recorded
<1>7. ResultForEveryTask' /\ VerdictKeepsContracts'
  <2>1. state[t] # "ended"
    BY <1>1
  <2> QED
    BY <1>1, <2>1, VerdictStays
<1>8. Unbroken'
  BY <1>1, UnbrokenFrame DEF IInv
<1> QED
  BY <1>2, <1>3, <1>4, <1>5, <1>6, <1>7, <1>8 DEF IInv, PlanInv

LEMMA EndStep ==
  ASSUME IInv, NEW t \in Tasks, state[t] = "running",
         NEW o \in Outcome \ {"rejected"}, End(t, o),
         o = "met" /\ setting.contract = "must_edit" => work[t].wrote
  PROVE  IInv'
<1>1. /\ state' = [state EXCEPT ![t] = "ended"]
      /\ outcome' = [outcome EXCEPT ![t] = o]
      /\ UNCHANGED <<setting, deps, stage, planning, batch, joined, work, verdict>>
      /\ plan' = plan /\ left' = left
      /\ state \in [Tasks -> {"idle", "queued", "running", "ended"}]
      /\ outcome \in [Tasks -> Outcome \cup {"none"}]
  BY DEF End, planning, IInv, TypeOK
<1>2. TypeOK'
  <2>1. state' \in [Tasks -> {"idle", "queued", "running", "ended"}]
    BY <1>1
  <2>2. outcome' \in [Tasks -> Outcome \cup {"none"}]
    BY <1>1
  <2> QED
    BY <1>1, <2>1, <2>2 DEF IInv, TypeOK, planning
<1>3. PlanInv'
  BY <1>1, PlanFrame DEF IInv, PlanInv
<1>4. Stages'
  <2>1. Knot(left)' <=> Knot(left)
    BY <1>1 DEF Knot, DependsOn
  <2> QED
    BY <1>1, <2>1 DEF IInv, Stages
<1>5. \A u \in Tasks : /\ state'[u] = "idle" <=> state[u] = "idle"
                       /\ state[u] = "ended" => state'[u] = "ended"
                       /\ state'[u] = "running" => state[u] = "running"
  BY <1>1
<1>6. \A i \in 1..Len(plan) : plan[i] \in SUBSET Tasks
  BY DEF IInv, Partition
<1>7. Spawned'
  <2>1. Current' = Current /\ joined' = joined /\ joined \subseteq Tasks /\ batch' = batch
    BY <1>1 DEF Current, IInv, TypeOK
  <2> QED
    BY <1>1, <1>5, <1>6, <2>1 DEF IInv, Spawned
<1>8. Throttled'
  <2> SUFFICES ASSUME NEW i \in 1..Len(plan)
               PROVE  Cardinality({u \in plan[i] : state'[u] = "running"}) <= setting.permits
    BY <1>1 DEF Throttled, AtWork
  <2> DEFINE R == {u \in plan[i] : state'[u] = "running"}
  <2>1. R \in SUBSET AtWork(plan[i]) /\ AtWork(plan[i]) \in SUBSET Tasks
    <3>1. plan[i] \in SUBSET Tasks
      BY <1>6
    <3>2. \A u \in Tasks : state'[u] = "running" => state[u] = "running"
      BY <1>1
    <3> QED
      BY <3>1, <3>2 DEF AtWork
  <2> HIDE DEF R
  <2>2. IsFiniteSet(AtWork(plan[i])) /\ Cardinality(AtWork(plan[i])) \in Nat
        /\ IsFiniteSet(R) /\ Cardinality(R) \in Nat
    BY <2>1, TasksFinite
  <2>3. Cardinality(R) <= Cardinality(AtWork(plan[i]))
    BY <2>1, <2>2, FS_Subset
  <2>4. setting.permits \in Nat /\ Cardinality(AtWork(plan[i])) <= setting.permits
    BY DispatchAssumption DEF IInv, TypeOK, Setting, Throttled
  <2>5. Cardinality(R) <= setting.permits
    BY <2>2, <2>3, <2>4
  <2> QED
    BY <2>5 DEF R
<1>9. Recorded'
  <2>1. o # "none" /\ o # "rejected"
    BY DEF Outcome
  <2>2. \A u \in Tasks : state'[u] = "ended" <=> outcome'[u] # "none"
    BY <1>1, <2>1 DEF IInv, Recorded
  <2>3. \A u \in Tasks : setting.contract = "must_edit" /\ outcome'[u] = "met" => work[u].wrote
    BY <1>1 DEF IInv, Recorded
  <2>4. stage # "over" => \A u \in Tasks : outcome'[u] # "rejected"
    BY <1>1, <2>1 DEF IInv, Recorded
  <2> QED
    BY <1>1, <2>2, <2>3, <2>4 DEF Recorded
<1>10. ResultForEveryTask' /\ VerdictKeepsContracts'
  BY <1>1, VerdictStays
<1>11. Unbroken'
  <2>1. t \notin joined /\ \A i \in 1..Len(plan) : i < batch => t \notin plan[i]
    BY DEF IInv, Spawned
  <2>2. joined \subseteq Tasks
    BY DEF IInv, TypeOK
  <2> QED
    BY <1>1, <1>6, <2>1, <2>2 DEF IInv, Unbroken
<1> QED
  BY <1>2, <1>3, <1>4, <1>7, <1>8, <1>9, <1>10, <1>11 DEF IInv, PlanInv

LEMMA SubAgentStep ==
  ASSUME IInv, NEW t \in Tasks, SubAgent(t)
  PROVE  IInv'
<1>1. work[t].wrote \in BOOLEAN
  BY DEF IInv, TypeOK
<1>2. ASSUME NEW write \in BOOLEAN, CallTool(t, write) PROVE IInv'
  <2>1. (work[t].wrote \/ write) \in BOOLEAN
    OBVIOUS
  <2> QED
    BY <1>2, <2>1, GoOnStep DEF CallTool
<1>3. ASSUME NEW good \in BOOLEAN, Answer(t, good) PROVE IInv'
  <2>1. Reply(t) /\ state[t] = "running"
    BY <1>3 DEF Answer, Reply
  <2>2. CASE Meets(t, good)
    <3>1. End(t, "met") /\ "met" \in Outcome \ {"rejected"}
      BY <1>3, <2>2 DEF Answer, Outcome
    <3>2. setting.contract = "must_edit" => work[t].wrote
      BY <2>2 DEF Meets
    <3> QED
      BY <2>1, <3>1, <3>2, EndStep
  <2>3. CASE ~Meets(t, good)
    <3>1. GoOn(t, work[t].wrote)
      BY <1>3, <2>3 DEF Answer
    <3> QED
      BY <1>1, <2>1, <3>1, GoOnStep
  <2> QED
    BY <2>2, <2>3
<1>4. ASSUME NEW good \in BOOLEAN, AnswerRaw(t, good) PROVE IInv'
  <2>1. state[t] = "running"
    BY <1>4 DEF AnswerRaw, Reply
  <2>2. CASE Meets(t, good)
    <3>1. End(t, "met") /\ "met" \in Outcome \ {"rejected"}
      BY <1>4, <2>2 DEF AnswerRaw, Outcome
    <3>2. setting.contract = "must_edit" => work[t].wrote
      BY <2>2 DEF Meets
    <3> QED
      BY <2>1, <3>1, <3>2, EndStep
  <2>3. CASE ~Meets(t, good)
    <3>1. End(t, "unmet") /\ "unmet" \in Outcome \ {"rejected"} /\ "unmet" # "met"
      BY <1>4, <2>3 DEF AnswerRaw, Outcome
    <3> QED
      BY <2>1, <3>1, EndStep
  <2> QED
    BY <2>2, <2>3
<1>5. ASSUME NEW o \in {"blamed", "failed", "broken"}, state[t] = "running", End(t, o)
      PROVE  IInv'
  <2>1. o \in Outcome \ {"rejected"} /\ o # "met"
    BY DEF Outcome
  <2> QED
    BY <1>5, <2>1, EndStep
<1>6. CASE ReportGraphError(t)
  BY <1>5, <1>6 DEF ReportGraphError, Reply
<1>7. CASE Fail(t)
  BY <1>5, <1>7 DEF Fail
<1>8. CASE Break(t)
  BY <1>5, <1>8 DEF Break
<1> QED
  BY <1>2, <1>3, <1>4, <1>6, <1>7, <1>8 DEF SubAgent

----------------------------------------------------------------------------

LEMMA StepKeepsIInv == IInv /\ [Next]_vars => IInv'
<1> SUFFICES ASSUME IInv, [Next]_vars PROVE IInv'
  OBVIOUS
<1>1. CASE Plan
  BY <1>1, PickReadyStep, PlanEndsStep, CutBatchStep DEF Plan
<1>2. CASE Run
  <2>1. ASSUME NEW t \in Tasks, JoinBroken(t) PROVE IInv'
    BY <2>1, AbandonStep DEF JoinBroken
  <2> QED
    BY <1>2, <2>1, SpawnBatchStep, AggregateStep, JoinStep DEF Run
<1>3. CASE TimeOut
  BY <1>3, AbandonStep DEF TimeOut
<1>4. CASE Dropped
  BY <1>4, AbandonStep DEF Dropped
<1>5. ASSUME NEW t \in Tasks, Acquire(t) \/ SubAgent(t) PROVE IInv'
  BY <1>5, AcquireStep, SubAgentStep
<1>6. CASE UNCHANGED vars
  <2>1. UNCHANGED <<setting, deps, stage, planning, running, verdict, plan>>
    BY <1>6 DEF vars, planning
  <2>2. TypeOK'
    BY <2>1 DEF IInv, TypeOK, planning, running
  <2>3. PlanInv' /\ Spawned' /\ Throttled'
    BY <2>1, PlanFrame, RunFrame DEF IInv, PlanInv
  <2>4. Stages'
    <3>1. Knot(left)' <=> Knot(left)
      BY <2>1 DEF Knot, DependsOn, planning
    <3> QED
      BY <2>1, <3>1 DEF IInv, Stages, planning, running
  <2>5. Recorded'
    BY <2>1 DEF IInv, Recorded, running
  <2>6. ResultForEveryTask' /\ VerdictKeepsContracts'
    BY <2>1 DEF IInv, ResultForEveryTask, VerdictKeepsContracts, Tolerated, running
  <2>7. Unbroken'
    BY <2>1, UnbrokenFrame DEF IInv, running
  <2> QED
    BY <2>2, <2>3, <2>4, <2>5, <2>6, <2>7 DEF IInv, PlanInv
<1> QED
  BY <1>1, <1>2, <1>3, <1>4, <1>5, <1>6 DEF Next

LEMMA Invariance == Spec => []IInv
  BY InitStep, StepKeepsIInv, PTL DEF Spec

(* Types; nothing is spawned before the whole graph is planned.            *)
THEOREM TypeCorrect == Spec => []TypeOK
<1>1. IInv => TypeOK
  BY DEF IInv
<1> QED
  BY <1>1, Invariance, PTL

(* No task starts before all its prerequisites have ended, for every task  *)
(* graph and every way the scheduler cuts it, also when the dispatch was   *)
(* given up and its tasks go on.                                           *)
THEOREM StartsInOrder == Spec => []PrerequisitesFirst
<1>1. ASSUME IInv, NEW t \in Tasks, state[t] # "idle", NEW d \in DependsOn(t)
      PROVE  state[d] = "ended"
  <2>1. PICK i \in 1..Len(plan) : i <= batch /\ t \in plan[i]
    BY <1>1 DEF IInv, Spawned
  <2>2. PICK j \in 1..Len(plan) : j < i /\ d \in plan[j]
    BY <1>1, <2>1 DEF IInv, Ordered
  <2>3. batch \in Nat /\ Len(plan) \in Nat
    BY <1>1 DEF IInv, TypeOK
  <2>4. j < batch
    BY <2>1, <2>2, <2>3
  <2> QED
    BY <1>1, <2>2, <2>4 DEF IInv, Spawned
<1>2. IInv => PrerequisitesFirst
  BY <1>1 DEF PrerequisitesFirst
<1> QED
  BY <1>2, Invariance, PTL

(* The pool's limit holds over all batches of a dispatch, although every   *)
(* batch has its own semaphore, because a batch starts when the one before *)
(* it has ended.                                                           *)
THEOREM PoolKept == Spec => []PoolBounded
<1>1. ASSUME IInv PROVE PoolBounded
  <2>1. batch \in 0..Len(plan) /\ Len(plan) \in Nat /\ setting.permits \in Nat
    BY <1>1, DispatchAssumption DEF IInv, TypeOK, Setting
  <2>2. ASSUME NEW t \in Tasks, state[t] = "running"
        PROVE  batch # 0 /\ t \in plan[batch]
    <3>1. PICK i \in 1..Len(plan) : i <= batch /\ t \in plan[i]
      BY <1>1, <2>2 DEF IInv, Spawned
    <3>2. ~(i < batch)
      BY <1>1, <2>2, <3>1 DEF IInv, Spawned
    <3> QED
      BY <2>1, <3>1, <3>2
  <2>3. CASE batch = 0
    <3>1. {t \in Tasks : state[t] = "running"} = {}
      BY <2>2, <2>3
    <3>2. Cardinality({t \in Tasks : state[t] = "running"}) = 0
      BY <3>1, FS_EmptySet
    <3> QED
      BY <2>1, <3>2 DEF PoolBounded
  <2>4. CASE batch # 0
    <3>1. batch \in 1..Len(plan)
      BY <2>1, <2>4
    <3>2. {t \in Tasks : state[t] = "running"} = AtWork(plan[batch])
      BY <1>1, <2>2, <3>1 DEF AtWork, IInv, Partition
    <3> QED
      BY <1>1, <3>1, <3>2 DEF PoolBounded, IInv, Throttled
  <2> QED
    BY <2>3, <2>4
<1> QED
  BY <1>1, Invariance, PTL

(* Kahn's loop, with its batches cut to a maximal size, refuses a graph    *)
(* only if it has a cycle, and never runs one that has.                    *)
THEOREM CyclesRefused == Spec => []RefusesExactlyCycles
<1>1. ASSUME IInv PROVE RefusesExactlyCycles
  <2>1. left \in SUBSET Tasks
    BY <1>1 DEF IInv, TypeOK
  <2>2. verdict = "cycle" => Knot(left)
    BY <1>1 DEF IInv, Stages
  <2>3. stage = "run" => \A S \in SUBSET Tasks : ~Knot(S)
    BY <1>1 DEF IInv, Stages, KnotsStay
  <2> QED
    BY <2>1, <2>2, <2>3 DEF RefusesExactlyCycles
<1> QED
  BY <1>1, Invariance, PTL

(* A dispatch that returns results has exactly one for every task.         *)
THEOREM AllTasksRun == Spec => []ResultForEveryTask
<1>1. IInv => ResultForEveryTask
  BY DEF IInv
<1> QED
  BY <1>1, Invariance, PTL

(* The verdict is success exactly when every result is tolerated: a        *)
(* rejected one, or one that blames the graph, never passes for success.   *)
THEOREM ContractsKept == Spec => []VerdictKeepsContracts
<1>1. IInv => VerdictKeepsContracts
  BY DEF IInv
<1> QED
  BY <1>1, Invariance, PTL
=============================================================================
