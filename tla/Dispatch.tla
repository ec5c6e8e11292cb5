------------------------------ MODULE Dispatch ------------------------------
(***************************************************************************)
(* How a task graph is executed: DagScheduler::plan cuts it into batches   *)
(* (src/scheduler/mod.rs), Dispatcher::run takes the batches one by one,   *)
(* and SubAgentPool::run_batch spawns one tokio task per member, throttled *)
(* by a semaphore, and joins them (src/agent/dispatcher.rs).               *)
(*                                                                         *)
(* The spawned tasks are actors of their own: they go on when the future   *)
(* that spawned them has returned or was dropped.  Each runs the loop of   *)
(* SubAgent::execute (src/agent/subagent.rs), one reply of the model per   *)
(* step; what a reply says is drawn from the environment.                  *)
(*                                                                         *)
(* A batch is a set.  The scheduler sorts what is ready by priority and id *)
(* before it cuts it, and handles are joined in that order; priorities and *)
(* ids are arbitrary, so any cut and any order of joining can happen.      *)
(***************************************************************************)
EXTENDS Integers, Sequences, FiniteSets

CONSTANTS
  Tasks,          (* the Task nodes of the graph                            *)
  Settings,       (* the configurations of scheduler, pool and dispatcher   *)
  MaxSteps        (* SubAgent::max_steps                                    *)

(* cap: DagScheduler::max_batch_size, 0 when there is none; permits:       *)
(* max_concurrent, at least 1 (SubAgentPool::new); timeouts: a             *)
(* batch_timeout is set; verify: verify_contract; contract: what the tasks *)
(* of the graph must fulfil (KnowHow and Exploratory are about the text).  *)
Setting == [cap : Nat, permits : Nat \ {0}, timeouts : BOOLEAN, verify : BOOLEAN,
            contract : {"none", "text", "must_edit"}]

ASSUME DispatchAssumption ==
  /\ IsFiniteSet(Tasks)
  /\ Settings \subseteq Setting
  /\ MaxSteps \in Nat

VARIABLES
  setting,
  deps,       (* <<t, d>>: t DependsOn d, as edges between tasks            *)
  stage,      (* "plan", "run" or "over"                                    *)
  left,       (* keys of dep_count: the tasks not yet in a batch            *)
  waits,      (* dep_count                                                  *)
  ready,      (* what this turn of plan's loop has still to cut up          *)
  plan,       (* Schedule::batches                                          *)
  batch,      (* the batch that is running; 0 before the first              *)
  joined,     (* members of that batch whose handle was awaited             *)
  state,      (* of each spawned task                                       *)
  work,       (* its loop: model calls so far, and write_calls_made > 0     *)
  outcome,    (* what each task came to                                     *)
  verdict     (* what Dispatcher::run returned                              *)

planning == <<left, waits, ready, plan>>
running  == <<batch, joined, state, work, outcome>>
vars == <<setting, deps, stage, planning, running, verdict>>

(* A result that succeeded and meets its contract or does not, a result of *)
(* a sub-agent that failed or blamed the graph, an Err or a panic; the     *)
(* dispatcher turns some of the second kind into the last one.             *)
Outcome == {"met", "unmet", "failed", "blamed", "broken", "rejected"}
Verdict == {"cycle", "broken", "timeout", "dropped", "succeeded", "not_succeeded"}

DependsOn(t) == {d \in Tasks : <<t, d>> \in deps}

----------------------------------------------------------------------------
(* DagScheduler::plan.                                                     *)

Init ==
  /\ setting \in Settings
  /\ deps \in SUBSET (Tasks \X Tasks)
  /\ stage = "plan"
  /\ left = Tasks
  /\ waits = [t \in Tasks |-> Cardinality(DependsOn(t))]
  /\ ready = {} /\ plan = <<>>
  /\ batch = 0 /\ joined = {}
  /\ state = [t \in Tasks |-> "idle"]
  /\ work = [t \in Tasks |-> [steps |-> 0, wrote |-> FALSE]]
  /\ outcome = [t \in Tasks |-> "none"]
  /\ verdict = "none"

Unblocked == {t \in left : waits[t] = 0}

PickReady ==
  /\ stage = "plan" /\ ready = {}
  /\ Unblocked # {}
  /\ ready' = Unblocked
  /\ UNCHANGED <<setting, deps, stage, left, waits, plan, running, verdict>>

Fits(chunk) ==
  IF setting.cap = 0 \/ Cardinality(ready) <= setting.cap THEN chunk = ready
  ELSE chunk \subseteq ready /\ Cardinality(chunk) = setting.cap

(* saturating_sub *)
Minus(n, k) == IF k > n THEN 0 ELSE n - k

Release(chunk) ==
  [t \in Tasks |-> Minus(waits[t], Cardinality(DependsOn(t) \cap chunk))]

CutBatch(chunk) ==
  /\ stage = "plan" /\ ready # {} /\ Fits(chunk)
  /\ left' = left \ chunk
  /\ ready' = ready \ chunk
  /\ waits' = Release(chunk)
  /\ plan' = Append(plan, chunk)
  /\ UNCHANGED <<setting, deps, stage, running, verdict>>

(* Mutant: a graph is refused only when nothing of it could be planned.    *)
CycleAtStart ==
  /\ stage = "plan" /\ ready = {}
  /\ left # {} /\ Unblocked = {} /\ plan = <<>>
  /\ stage' = "over" /\ verdict' = "cycle"
  /\ UNCHANGED <<setting, deps, planning, running>>

Cycle ==
  /\ stage = "plan" /\ ready = {}
  /\ left # {} /\ Unblocked = {}
  /\ stage' = "over" /\ verdict' = "cycle"
  /\ UNCHANGED <<setting, deps, planning, running>>

(* Mutant: the plan is truncated where nothing more is ready. *)
PlannedTruncated ==
  /\ stage = "plan" /\ ready = {} /\ Unblocked = {}
  /\ stage' = "run"
  /\ UNCHANGED <<setting, deps, planning, running, verdict>>

Planned ==
  /\ stage = "plan" /\ ready = {} /\ left = {}
  /\ stage' = "run"
  /\ UNCHANGED <<setting, deps, planning, running, verdict>>

----------------------------------------------------------------------------
(* Dispatcher::run and run_batch.                                          *)

Current == IF batch = 0 THEN {} ELSE plan[batch]

(* Mutant: the next batch starts when the first member has been joined.    *)
BatchOverEarly == Current = {} \/ joined # {}
BatchOver == joined = Current

SpawnBatch ==
  /\ stage = "run" /\ BatchOver /\ batch < Len(plan)
  /\ batch' = batch + 1 /\ joined' = {}
  /\ state' = [t \in Tasks |-> IF t \in plan[batch + 1] THEN "queued" ELSE state[t]]
  /\ UNCHANGED <<setting, deps, stage, planning, work, outcome, verdict>>

Join(t) ==
  /\ stage = "run" /\ t \in Current \ joined
  /\ state[t] = "ended" /\ outcome[t] # "broken"
  /\ joined' = joined \cup {t}
  /\ UNCHANGED <<setting, deps, stage, planning, batch, state, work, outcome, verdict>>

Abandon(why) ==
  /\ stage' = "over" /\ verdict' = why
  /\ UNCHANGED <<setting, deps, planning, running>>

(* The first Err or JoinError returns; the other handles are dropped.      *)
JoinBroken(t) ==
  /\ stage = "run" /\ t \in Current \ joined
  /\ state[t] = "ended" /\ outcome[t] = "broken"
  /\ Abandon("broken")

TimeOut ==
  /\ stage = "run" /\ setting.timeouts
  /\ ~BatchOver
  /\ Abandon("timeout")

(* drive_run drops the step it races against the cancel token.             *)
Dropped == stage = "run" /\ Abandon("dropped")

(* Mutant: the flag is computed from the results as they are rewritten. *)
AllSucceededAfter ==
  /\ \A t \in Tasks : outcome[t] # "blamed"
  /\ \A t \in Tasks : outcome'[t] # "unmet"

(* all_succeeded.  With verify_contract, a result that failed by itself is *)
(* skipped by the loop that computes the flag.                             *)
AllSucceeded ==
  /\ \A t \in Tasks : outcome[t] # "blamed"
  /\ IF setting.verify THEN \A t \in Tasks : outcome[t] # "unmet"
     ELSE \A t \in Tasks : outcome[t] \in {"met", "unmet"}

Aggregate ==
  /\ stage = "run" /\ BatchOver /\ batch = Len(plan)
  /\ outcome' = [t \in Tasks |->
                   IF setting.verify /\ outcome[t] = "unmet" THEN "rejected" ELSE outcome[t]]
  /\ verdict' = IF AllSucceeded THEN "succeeded" ELSE "not_succeeded"
  /\ stage' = "over"
  /\ UNCHANGED <<setting, deps, planning, batch, joined, state, work>>

----------------------------------------------------------------------------
(* A spawned task.  Each batch has a semaphore of its own.                 *)

(* Mutant: the semaphore admits one task too many. *)
PermitTooMany(t) ==
  \E i \in 1..Len(plan) :
    /\ t \in plan[i]
    /\ Cardinality({u \in plan[i] : state[u] = "running"}) <= setting.permits

Permit(t) ==
  \E i \in 1..Len(plan) :
    /\ t \in plan[i]
    /\ Cardinality({u \in plan[i] : state[u] = "running"}) < setting.permits

Acquire(t) ==
  /\ state[t] = "queued" /\ Permit(t)
  /\ state' = [state EXCEPT ![t] = "running"]
  /\ UNCHANGED <<setting, deps, stage, planning, batch, joined, work, outcome, verdict>>

(* One model call of the loop; the tokens, the transcript and the reminder *)
(* to write are text.                                                      *)
Reply(t) == state[t] = "running" /\ work[t].steps < MaxSteps

GoOn(t, wrote) ==
  /\ work' = [work EXCEPT ![t] = [steps |-> @.steps + 1, wrote |-> wrote]]
  /\ UNCHANGED <<setting, deps, stage, planning, batch, joined, state, outcome, verdict>>

End(t, o) ==
  /\ state' = [state EXCEPT ![t] = "ended"]
  /\ outcome' = [outcome EXCEPT ![t] = o]
  /\ UNCHANGED <<setting, deps, stage, planning, batch, joined, work, verdict>>

(* A write call counts whether or not the scope guard lets it pass.        *)
CallTool(t, write) == Reply(t) /\ GoOn(t, work[t].wrote \/ write)

(* CheckContract::check and check_tool_calls on an answer whose text is    *)
(* good or is not.                                                         *)
Meets(t, good) ==
  CASE setting.contract = "none" -> TRUE
    [] setting.contract = "text" -> good
    [] setting.contract = "must_edit" -> work[t].wrote

(* final_answer: accepted, or handed back for another try.                 *)
Answer(t, good) ==
  /\ Reply(t)
  /\ IF Meets(t, good) THEN End(t, "met") ELSE GoOn(t, work[t].wrote)

(* A reply that is no action at all is taken for the answer, unchecked.    *)
AnswerRaw(t, good) ==
  /\ Reply(t)
  /\ End(t, IF Meets(t, good) THEN "met" ELSE "unmet")

ReportGraphError(t) == Reply(t) /\ End(t, "blamed")

(* The model call fails, or the steps are used up.                         *)
Fail(t) == state[t] = "running" /\ End(t, "failed")

(* The node is no task, the context cannot be built, or a panic.           *)
Break(t) == state[t] = "running" /\ End(t, "broken")

SubAgent(t) ==
  \/ \E write \in BOOLEAN : CallTool(t, write)
  \/ \E good \in BOOLEAN : Answer(t, good) \/ AnswerRaw(t, good)
  \/ ReportGraphError(t) \/ Fail(t) \/ Break(t)

Plan == PickReady \/ Cycle \/ Planned \/ \E chunk \in SUBSET ready : CutBatch(chunk)

Run == SpawnBatch \/ Aggregate \/ \E t \in Tasks : Join(t) \/ JoinBroken(t)

Next ==
  \/ Plan \/ Run \/ TimeOut \/ Dropped
  \/ \E t \in Tasks : Acquire(t) \/ SubAgent(t)

(* The executor runs what it can run, and a sub-agent's loop is bounded.   *)
Fairness ==
  /\ WF_vars(Plan) /\ WF_vars(Run)
  /\ \A t \in Tasks : WF_vars(Acquire(t)) /\ WF_vars(SubAgent(t))

Spec == Init /\ [][Next]_vars /\ Fairness

----------------------------------------------------------------------------
(* Types, and: nothing is spawned before the plan is complete.             *)
TypeOK ==
  /\ setting \in Settings /\ deps \subseteq Tasks \X Tasks
  /\ stage \in {"plan", "run", "over"} /\ verdict \in Verdict \cup {"none"}
  /\ left \subseteq Tasks /\ ready \subseteq left
  /\ waits \in [Tasks -> Nat]
  /\ plan \in Seq(SUBSET Tasks)
  /\ batch \in 0..Len(plan) /\ joined \subseteq Tasks
  /\ state \in [Tasks -> {"idle", "queued", "running", "ended"}]
  /\ work \in [Tasks -> [steps : 0..MaxSteps, wrote : BOOLEAN]]
  /\ outcome \in [Tasks -> Outcome \cup {"none"}]
  /\ batch > 0 => left = {}

(* A task is started only when everything it depends on has ended, also    *)
(* when batches are cut, and also for tasks nobody waits for any more.     *)
PrerequisitesFirst ==
  \A t \in Tasks : state[t] # "idle" =>
    \A d \in DependsOn(t) : state[d] = "ended"

(* Never more sub-agents at work than the pool allows, although each batch *)
(* makes a semaphore of its own and abandoned tasks go on.                 *)
PoolBounded == Cardinality({t \in Tasks : state[t] = "running"}) <= setting.permits

(* Members of S that can never be ready: each waits for another one.       *)
Knot(S) == S # {} /\ \A t \in S : DependsOn(t) \cap S # {}

(* The scheduler refuses exactly the task graphs that contain a cycle.     *)
RefusesExactlyCycles ==
  /\ verdict = "cycle" => \E S \in SUBSET Tasks : Knot(S)
  /\ stage = "run" => \A S \in SUBSET Tasks : ~Knot(S)

(* A dispatch that returns results ran every task of the graph, once: each *)
(* is in one batch and has a result.                                       *)
ResultForEveryTask ==
  verdict \in {"succeeded", "not_succeeded"} =>
    \A t \in Tasks : /\ state[t] = "ended" /\ outcome[t] # "none"
                     /\ \E i \in 1..Len(plan) : t \in plan[i]
                     /\ \A i, j \in 1..Len(plan) :
                          t \in plan[i] /\ t \in plan[j] => i = j

(* Results that do not stand in the way of success: with verify_contract   *)
(* one that failed by itself does not.                                     *)
Tolerated == IF setting.verify THEN {"met", "failed"} ELSE {"met", "unmet"}

(* Between the sub-agent's own check, which a reply that is no action gets *)
(* past, and the dispatcher's second one: a dispatch succeeds exactly when *)
(* every result is tolerated, so never when one was rejected or the graph  *)
(* was blamed; with verify_contract none reports an unmet contract as a    *)
(* success, and a task that had to edit succeeds only after a write call.  *)
VerdictKeepsContracts ==
  verdict \in {"succeeded", "not_succeeded"} =>
    /\ verdict = "succeeded" <=> \A t \in Tasks : outcome[t] \in Tolerated
    /\ \A t \in Tasks : setting.verify => outcome[t] # "unmet"
    /\ \A t \in Tasks :
         setting.contract = "must_edit" /\ outcome[t] = "met" => work[t].wrote

(* "A run succeeded iff every sub-agent succeeded AND no sub-agent bubbled *)
(* a graph error AND (if verify_contract is true) every result's           *)
(* CheckContract is satisfied".  The run dispatch_iff shows that it may    *)
(* succeed although a sub-agent failed.                                    *)
SucceededIffAllDid ==
  verdict \in {"succeeded", "not_succeeded"} =>
    (verdict = "succeeded" <=>
       \A t \in Tasks :
         outcome[t] = "met" \/ (~setting.verify /\ outcome[t] = "unmet"))

(* Every dispatch returns, and in the end no task of it is at work.        *)
Ends == <>[](stage = "over" /\ \A t \in Tasks : state[t] \in {"idle", "ended"})
============================================================================
