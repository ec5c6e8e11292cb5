----------------------------- MODULE DrillDown -----------------------------
(***************************************************************************)
(* Drill-down of src/agent/graph_loop.rs: a loop forks a sub-loop for a    *)
(* complex node and learns of its end by polling the run.json the sub-loop *)
(* writes.  Nothing else connects the two.                                 *)
(*                                                                         *)
(* Every loop is an actor: Root is stepped by a driver, a sub-run by       *)
(* run_with_persistence in a task of its own.  One step() is one action,   *)
(* as far as the drill-down block of step_graph is concerned: what the     *)
(* round after it does is GraphLoop's subject, and here only the state it  *)
(* returns and the fork it may queue.                                      *)
(*                                                                         *)
(* A loop has at most one fork queued or in flight (proved of GraphLoop as *)
(* OneSubRunAtATime), so a handle is the run it names.  Each fork has a    *)
(* complex node of its own, marked with what the parent made of the        *)
(* sub-run.  Time is whether a handle is older than sub_run_timeout_ms.    *)
(***************************************************************************)
EXTENDS Naturals, FiniteSets

CONSTANTS
  Runs,       (* bound: the run ids there are  *)
  Root,       (* the outermost run             *)
  NoRun,
  MaxDepth,   (* config.max_drilldown_depth    *)
  MaxRounds   (* config.max_rounds             *)

ASSUME RunsAssumption ==
  /\ Root \in Runs /\ NoRun \notin Runs
  /\ MaxDepth \in Nat /\ MaxRounds \in Nat

VARIABLES
  stage,      (* where a run is: see Stages                              *)
  outcome,    (* the status run_with_persistence is going to write       *)
  round,
  depth,      (* current_depth                                           *)
  parent,     (* parent_run_id                                           *)
  queued,     (* pending_fork_targets is not empty                       *)
  child,      (* pending_sub_runs                                        *)
  failed,     (* drill_down_error is set                                 *)
  cancelled,  (* the flag of the root loop; nobody sets a sub-loop's     *)
  aged,       (* sub-runs whose handle has outlived the timeout          *)
  file,       (* run.json of each sub-run                                *)
  mark,       (* metadata of the node each sub-run was forked for        *)
  noticed,    (* history: sub-runs a poll found failed or too old        *)
  told        (* history: sub-runs whose failure a GraphInvalid reported *)

vars == <<stage, outcome, round, depth, parent, queued, child, failed,
          cancelled, aged, file, mark, noticed, told>>

(* A loop in the hands of a user is "handed"; a sub-loop that has stopped  *)
(* is "ended" until it opens run.json and "writing" until that is closed;  *)
(* one whose step() panicked is gone with the task that ran it.            *)
Stages  == {"unborn", "stepping", "handed", "ended", "writing", "over", "panicked"}
Live    == {"stepping", "handed"}
States  == {"Running", "Paused", "GraphInvalid", "TaskFailed", "Done", "Error",
            "Panicked"}
Verdicts == {"Done", "Error"}
Reported == {"Done", "Error", "Cancelled"}

----------------------------------------------------------------------------
(* Mutant: a sub-run that pauses waits for an answer, as a driver would.   *)
AfterWaitingForAnswer(r, state) ==
  CASE state = "Running" -> "stepping"
    [] state = "Panicked" -> "panicked"
    [] state \in {"Paused", "GraphInvalid"} -> "handed"
    [] r # Root /\ state \in {"TaskFailed", "Done", "Error"} -> "ended"
    [] OTHER -> "over"

(* What happens to the loop when step() returns.  A driver goes on with a  *)
(* run after its user answered; run_with_persistence stops at anything but *)
(* Running.                                                                *)
After(r, state) ==
  CASE state = "Running" -> "stepping"
    [] state = "Panicked" -> "panicked"
    [] r # Root /\ state \notin {"Running", "Panicked"} -> "ended"
    [] r = Root /\ state \in {"Paused", "GraphInvalid"} -> "handed"
    [] OTHER -> "over"

(* The status of a finished sub-run: everything but Error is Done.         *)
Verdict(state) == IF state = "Error" THEN "Error" ELSE "Done"

Concluded(r, state) ==
  IF After(r, state) = "ended" THEN [outcome EXCEPT ![r] = Verdict(state)] ELSE outcome

Return(r, state) ==
  /\ stage' = [stage EXCEPT ![r] = After(r, state)]
  /\ outcome' = Concluded(r, state)

(* Running passes check_graph_stagnation, which may poison the loop.       *)
Ticked == {"Running", "Error"}

(* The round budget, spent before the phase is looked at.                  *)
Round(r) ==
  /\ stage[r] = "stepping" /\ round[r] < MaxRounds
  /\ round' = [round EXCEPT ![r] = @ + 1]
  /\ UNCHANGED cancelled

Exhaust(r) ==
  /\ stage[r] = "stepping" /\ round[r] = MaxRounds
  /\ Return(r, "Error")
  /\ UNCHANGED <<round, depth, parent, queued, child, failed, cancelled,
                 aged, file, mark, noticed, told>>

Stopped(r) == r = Root /\ cancelled

DropHandle(r) ==
  /\ child' = [child EXCEPT ![r] = NoRun]
  /\ aged' = aged \ {child[r]}

(* propagate_cancel_to_pending_sub_runs: the queue is emptied, and every   *)
(* handle dropped with run.json and the node marked as cancelled.          *)
ObeyCancel(r) ==
  /\ Round(r) /\ Stopped(r)
  /\ queued' = [queued EXCEPT ![r] = FALSE]
  /\ file' = [c \in Runs |-> IF c = child[r] THEN "Cancelled" ELSE file[c]]
  /\ mark' = [c \in Runs |-> IF c = child[r] THEN "Cancelled" ELSE mark[c]]
  /\ DropHandle(r)
  /\ Return(r, "Error")
  /\ UNCHANGED <<depth, parent, failed, noticed, told>>

----------------------------------------------------------------------------
(* The fork queue.                                                         *)

DeepEnough(r) == depth[r] + 1 <= MaxDepth

(* Run ids are uuids: any that is not in use will do.                      *)
Fresh == CHOOSE c \in Runs : stage[c] = "unborn"

(* fork_sub_graph_for, and the poll that follows it in the same step and   *)
(* finds no run.json yet.                                                  *)
Fork(r, c) ==
  /\ Round(r) /\ ~Stopped(r)
  /\ queued[r] /\ DeepEnough(r)
  /\ stage[c] = "unborn" /\ c = Fresh
  /\ \E state \in Ticked :
       /\ stage' = [stage EXCEPT ![c] = "stepping", ![r] = After(r, state)]
       /\ outcome' = Concluded(r, state)
  /\ UNCHANGED aged
  /\ depth' = [depth EXCEPT ![c] = depth[r] + 1]
  /\ parent' = [parent EXCEPT ![c] = r]
  /\ queued' = [queued EXCEPT ![r] = FALSE]
  /\ child' = [child EXCEPT ![r] = c]
  /\ mark' = [mark EXCEPT ![c] = "running"]
  /\ UNCHANGED <<failed, file, noticed, told>>

----------------------------------------------------------------------------
(* poll_sub_run_status.                                                    *)

(* Mutant: a run.json that cannot be parsed counts as a report.            *)
HasReportedAnyhow(c) == file[c] # "none"
HasReported(c) == file[c] \in Reported

Waits(r) == child[r] # NoRun /\ ~HasReported(child[r])
Takes(r) == child[r] # NoRun /\ HasReported(child[r])

(* No run.json, or one that cannot be parsed as it is being written: the   *)
(* handle stays, and a timeout is remembered at every poll.                *)
KeepWaiting(r) ==
  /\ Round(r) /\ ~Stopped(r) /\ ~queued[r]
  /\ Waits(r)
  /\ IF child[r] \in aged
       THEN /\ mark' = [mark EXCEPT ![child[r]] = "timeout"]
            /\ failed' = [failed EXCEPT ![r] = TRUE]
            /\ noticed' = noticed \cup {child[r]}
       ELSE UNCHANGED <<mark, failed, noticed>>
  /\ \E state \in Ticked : Return(r, state)
  /\ UNCHANGED <<depth, parent, queued, child, aged, file, told>>

(* Mutant: a sub-run that reports Done clears an earlier timeout.          *)
FailingUnlessDone(r) == Takes(r) /\ file[child[r]] = "Error"

(* An error reported now, or a timeout remembered from an earlier poll.    *)
Failing(r) == failed[r] \/ (Takes(r) /\ file[child[r]] = "Error")

(* The nodes as the poll of this step leaves them.                         *)
Marked(r) ==
  IF Takes(r) THEN [mark EXCEPT ![child[r]] = file[child[r]]] ELSE mark

(* Every handle is gone, and the failure goes to whoever holds the loop.   *)
ReportFailure(r) ==
  /\ Round(r) /\ ~Stopped(r) /\ ~queued[r]
  /\ ~Waits(r) /\ Failing(r)
  /\ mark' = Marked(r)
  /\ noticed' = noticed \cup {child[r]}
  /\ told' = told \cup {child[r]}
  /\ DropHandle(r)
  /\ failed' = [failed EXCEPT ![r] = FALSE]
  /\ Return(r, "GraphInvalid")
  /\ UNCHANGED <<depth, parent, queued, file>>

(* Bound: a fork is queued only while an id is left for it.                *)
IdsLeft ==
  Cardinality({r \in Runs : queued[r]}) <
    Cardinality({c \in Runs : stage[c] = "unborn"})

(* The round goes on: the proposer is asked, or the loop is in a later     *)
(* phase, which has no sub-run and does not look at the cancel flag.  A    *)
(* patch may queue a fork; a fork that would be too deep is dropped.  The  *)
(* verifier may panic, and the reviewer.                                   *)
GoOn(r, drilled, state) ==
  /\ Round(r)
  /\ Stopped(r) => ~queued[r] /\ child[r] = NoRun /\ ~drilled
  /\ queued[r] => ~DeepEnough(r)
  /\ ~Waits(r) /\ ~Failing(r)
  /\ drilled => state \in Ticked /\ IdsLeft
  /\ state = "TaskFailed" => r = Root
  /\ mark' = Marked(r)
  /\ DropHandle(r)
  /\ queued' = [queued EXCEPT ![r] = drilled]
  /\ Return(r, state)
  /\ UNCHANGED <<depth, parent, failed, file, noticed, told>>

----------------------------------------------------------------------------
(* The end of run_with_persistence.  fs::write truncates the file first,   *)
(* so a poll can find it torn.                                             *)

OpenRunJson(c) ==
  /\ stage[c] = "ended"
  /\ stage' = [stage EXCEPT ![c] = "writing"]
  /\ file' = [file EXCEPT ![c] = "torn"]
  /\ UNCHANGED <<outcome, round, depth, parent, queued, child, failed,
                 cancelled, aged, mark, noticed, told>>

WriteRunJson(c) ==
  /\ stage[c] = "writing"
  /\ stage' = [stage EXCEPT ![c] = "over"]
  /\ file' = [file EXCEPT ![c] = outcome[c]]
  /\ UNCHANGED <<outcome, round, depth, parent, queued, child, failed,
                 cancelled, aged, mark, noticed, told>>

(* now_ms() - started_at has exceeded the timeout.                         *)
Age(c) ==
  /\ c \notin aged
  /\ \E r \in Runs : child[r] = c /\ stage[r] \in Live
  /\ aged' = aged \cup {c}
  /\ UNCHANGED <<stage, outcome, round, depth, parent, queued, child, failed,
                 cancelled, file, mark, noticed, told>>

----------------------------------------------------------------------------
(* The driver of the root loop.                                            *)

Resume ==
  /\ stage[Root] = "handed"
  /\ stage' = [stage EXCEPT ![Root] = "stepping"]
  /\ UNCHANGED <<outcome, round, depth, parent, queued, child, failed,
                 cancelled, aged, file, mark, noticed, told>>

(* GraphLoop::cancel by an owner that steps the loop once more.            *)
CancelLoop ==
  /\ stage[Root] = "stepping" /\ ~cancelled
  /\ cancelled' = TRUE
  /\ UNCHANGED <<stage, outcome, round, depth, parent, queued, child, failed,
                 aged, file, mark, noticed, told>>

(* drive_run on a fired token: the loop is marked and never stepped again. *)
CancelRun ==
  /\ stage[Root] = "stepping"
  /\ cancelled' = TRUE
  /\ stage' = [stage EXCEPT ![Root] = "over"]
  /\ UNCHANGED <<outcome, round, depth, parent, queued, child, failed,
                 aged, file, mark, noticed, told>>

----------------------------------------------------------------------------
Init ==
  /\ stage = [r \in Runs |-> IF r = Root THEN "stepping" ELSE "unborn"]
  /\ outcome = [r \in Runs |-> "none"]
  /\ round = [r \in Runs |-> 0]
  /\ depth = [r \in Runs |-> 0]
  /\ parent = [r \in Runs |-> NoRun]
  /\ queued = [r \in Runs |-> FALSE]
  /\ child = [r \in Runs |-> NoRun]
  /\ failed = [r \in Runs |-> FALSE]
  /\ cancelled = FALSE
  /\ aged = {}
  /\ file = [r \in Runs |-> "none"]
  /\ mark = [r \in Runs |-> "none"]
  /\ noticed = {} /\ told = {}

Step(r) ==
  \/ Exhaust(r) \/ ObeyCancel(r) \/ KeepWaiting(r) \/ ReportFailure(r)
  \/ \E c \in Runs : Fork(r, c)
  \/ \E drilled \in BOOLEAN, state \in States : GoOn(r, drilled, state)

Finish(c) == OpenRunJson(c) \/ WriteRunJson(c)

Driver == Resume \/ CancelLoop \/ CancelRun

Next == Driver \/ \E r \in Runs : Step(r) \/ Finish(r) \/ Age(r)

(* Every sub-run has a task of its own, which the executor keeps running,  *)
(* and a step() of it returns or panics: it has nothing to execute, hence  *)
(* nothing to redesign.  Nothing is asked of the root and its driver.      *)
Fairness == \A r \in Runs \ {Root} : WF_vars(Step(r)) /\ WF_vars(Finish(r))

Spec == Init /\ [][Next]_vars /\ Fairness

----------------------------------------------------------------------------
TypeOK ==
  /\ stage \in [Runs -> Stages]
  /\ outcome \in [Runs -> {"none"} \cup Verdicts]
  /\ round \in [Runs -> 0..MaxRounds]
  /\ depth \in [Runs -> 0..MaxDepth]
  /\ parent \in [Runs -> Runs \cup {NoRun}]
  /\ queued \in [Runs -> BOOLEAN]
  /\ child \in [Runs -> Runs \cup {NoRun}]
  /\ failed \in [Runs -> BOOLEAN]
  /\ cancelled \in BOOLEAN
  /\ aged \subseteq Runs /\ noticed \subseteq Runs /\ told \subseteq Runs
  /\ file \in [Runs -> {"none", "torn"} \cup Reported]
  /\ mark \in [Runs -> {"none", "running", "timeout"} \cup Reported]

(* A parent that saw its sub-run fail or time out and still goes on has    *)
(* reported it, or remembers it and tracks the sub-run: no failure is      *)
(* lost between the poll that noticed it and the step that can report it,  *)
(* whatever the sub-run writes in between.                                 *)
FailuresReported ==
  \A c \in Runs :
    c \in noticed /\ stage[parent[c]] \in Live =>
      c \in told \/ (child[parent[c]] = c /\ failed[parent[c]])

(* A call on drill-down is an asynchronous call.                           *)
AnswerOf(c) == IF c # Root /\ stage[c] = "over" THEN outcome[c] ELSE "none"
TakenOf(c)  == IF mark[c] \in {"running", "timeout"} THEN "waiting" ELSE mark[c]

Call == INSTANCE SubRunCall
          WITH caller <- parent,
               answer <- [c \in Runs |-> AnswerOf(c)],
               taken  <- [c \in Runs |-> TakenOf(c)]

IsACall == Call!Spec

(* Unless the verifier panics in it or the root run is cancelled, a forked *)
(* sub-run writes its report in the end, whatever becomes of its parent:   *)
(* it waits for nobody but its own sub-runs, and that costs it rounds.     *)
EveryForkReports ==
  \A c \in Runs \ {Root} :
    stage[c] = "stepping" ~>
      file[c] \in Verdicts \/ stage[c] = "panicked" \/ cancelled

(* "Without this, drill-down sub-runs would keep running after the parent  *)
(* session was already torn down": no loop takes a round once drive_run    *)
(* has marked the root loop and returned.  The run drill_orphans shows     *)
(* that they do.                                                           *)
SubRunsStopWithParent ==
  [][cancelled /\ stage[Root] = "over" => round' = round]_vars
============================================================================
