----------------------------- MODULE RunSession -----------------------------
(***************************************************************************)
(* One run of the web gateway (src/web): the task that drives it           *)
(* (drive_run in api_runs.rs), the session it shares with the handlers     *)
(* (run_session.rs), the handlers that answer, repair, cancel, delete and  *)
(* clear (api_runs.rs, ws.rs), its run.json on disk (persistence.rs) and   *)
(* what a restart of the server makes of it (mod.rs).                      *)
(*                                                                         *)
(* Handlers run on other threads than the driver, so a step of the model   *)
(* ends wherever the code awaits or another thread can see what it wrote.  *)
(* The loop that the driver steps is GraphLoop; here a step returns        *)
(* anything, panics, or never returns.  A write of run.json succeeds,      *)
(* unless the process dies while it is made and leaves a file that cannot  *)
(* be read.                                                                *)
(***************************************************************************)
EXTENDS Naturals

CONSTANTS
  Clients,      (* those who answer, each with one request at a time        *)
  Sockets,      (* those of them that also have a WebSocket to the run      *)
  MaxAsked,     (* bound: how often the run asks for an answer, or a repair *)
  MaxRestarts   (* bound: restarts of the server                            *)

ASSUME BoundsAssumption ==
  MaxAsked \in Nat /\ MaxRestarts \in Nat /\ Sockets \subseteq Clients

VARIABLES
  driver,     (* where drive_run is                                         *)
  result,     (* what the last step of the loop returned                    *)
  status,     (* RunSession::status                                         *)
  cancel,     (* RunSession::cancel                                         *)
  permit,     (* the permit stored in pending_answer, in pending_repair     *)
  value,      (* pending_answer_value, pending_repair_value                 *)
  asked,      (* how many questions of each kind the run has asked          *)
  listed,     (* the run is in WebState::runs                               *)
  disk,       (* the status in run.json, or "none"                          *)
  client,     (* the handlers that provide an answer or a graph             *)
  remover,    (* the handler that deletes the run, or clears all runs       *)
  deleted,    (* a request to delete the run was answered                   *)
  restarts

session == <<status, cancel, permit, value>>
storage == <<listed, disk>>
handlers == <<client, remover, deleted>>
sessionVars == <<driver, result, session, asked, storage, handlers, restarts>>

(* What a run waits for is named by the status it waits with.              *)
Awaited == {"Paused", "GraphInvalid"}
Terminal == {"Done", "Error", "Cancelled"}
Status == {"Running"} \cup Awaited \cup Terminal

(* What await_answer and await_repair return if nothing was provided: "",  *)
(* and a graph without nodes.  A provided value is known by the number of  *)
(* the question its sender had seen last, 0 before the first.              *)
Default == 0
Value == 0..MaxAsked

Idle == [at |-> "idle", kind |-> "Paused", about |-> 0, locks |-> FALSE]

----------------------------------------------------------------------------
(* WebState::runs is a lock: a request through HTTP reads it until it is   *)
(* done, to remove a run takes it for writing.                             *)
Reading == \E c \in Clients : client[c].locks
Writing == remover = "clearing"

(* create_run has inserted the session and spawned the driver. *)
SessionInit ==
  /\ driver = "new" /\ result = "Running"
  /\ status = "Running" /\ cancel = FALSE
  /\ permit = [k \in Awaited |-> FALSE] /\ value = [k \in Awaited |-> Default]
  /\ asked = [k \in Awaited |-> 0]
  /\ listed = TRUE /\ disk = "none"
  /\ client = [c \in Clients |-> Idle]
  /\ remover = "idle" /\ deleted = FALSE
  /\ restarts = 0

(* The driver goes on at another place and leaves the rest alone. *)
GoTo(place) ==
  /\ driver' = place
  /\ UNCHANGED <<result, session, asked, storage, handlers, restarts>>

(* save_run_meta. *)
SaveAndGoTo(place) ==
  /\ driver' = place /\ disk' = status
  /\ UNCHANGED <<result, session, asked, listed, handlers, restarts>>

LookUp ==
  /\ driver = "new" /\ ~Writing
  /\ GoTo(IF listed THEN "found" ELSE "ended")

SaveFirst == driver = "found" /\ SaveAndGoTo("top")

(* The status Cancelled, on its way to the disk. *)
MarkCancelled ==
  /\ status' = "Cancelled" /\ driver' = "ending"
  /\ UNCHANGED <<result, cancel, permit, value, asked, storage, handlers, restarts>>

(* Mutant: the flag is not looked at between two steps. *)
TopUnchecked == driver = "top" /\ GoTo("step")

Top ==
  /\ driver = "top"
  /\ IF cancel THEN MarkCancelled ELSE GoTo("step")

(* The select prefers the token, and drops the step. *)
Interrupt == driver = "step" /\ cancel /\ MarkCancelled

(* A token that fires while the step is being polled comes too late for    *)
(* it.  TaskFailed becomes a status Error.                                 *)
StepReturns(r) ==
  /\ driver = "step"
  /\ r \in Awaited => asked[r] < MaxAsked
  /\ result' = r
  /\ driver' = IF r = "Running" THEN "top" ELSE "told"
  /\ asked' = IF r \in Awaited THEN [asked EXCEPT ![r] = @ + 1] ELSE asked
  /\ UNCHANGED <<session, storage, handlers, restarts>>

(* validation.rs calls a cycle "impossible" that its search for one can    *)
(* reach (CycleSearch), and nobody awaits the driver's task: it is gone,   *)
(* and with it the loop, while the session stays as it is.                 *)
StepPanics == driver = "step" /\ GoTo("panicked")

(* Clients have been told what the step returned; now the status says it. *)
Publish ==
  /\ driver = "told"
  /\ status' = result
  /\ driver' = IF result \in Awaited THEN "asking" ELSE "ending"
  /\ UNCHANGED <<result, cancel, permit, value, asked, storage, handlers, restarts>>

(* Mutant: the status is not saved before waiting. *)
SaveWaitForgotten == driver = "asking" /\ GoTo("saved")
SaveWait == driver = "asking" /\ SaveAndGoTo("saved")

(* Mutant: the end of a run is announced without saving it. *)
SaveEndForgotten == driver = "ending" /\ GoTo("ended")
SaveEnd == driver = "ending" /\ SaveAndGoTo("ended")

(* An active heartbeat answers in the place of the user: the graph as it   *)
(* is, or what a model says, which takes a while.                          *)
HeartbeatRepairs ==
  /\ driver = "saved" /\ result = "GraphInvalid" /\ GoTo("top")

HeartbeatAnswers ==
  /\ driver = "saved" /\ result = "Paused"
  /\ status' = "Running" /\ driver' = "resuming"
  /\ UNCHANGED <<result, cancel, permit, value, asked, storage, handlers, restarts>>

SaveResumed == driver = "resuming" /\ SaveAndGoTo("thinking")
HeartbeatResumes == driver = "thinking" /\ GoTo("top")

(* Mutant: only a waiter that is there already is woken. *)
AwaitAlways == driver = "saved" /\ GoTo("waiting")

(* Notify::notified takes a stored permit, or waits. *)
Await ==
  /\ driver = "saved"
  /\ IF permit[result]
     THEN /\ permit' = [permit EXCEPT ![result] = FALSE] /\ driver' = "woken"
          /\ UNCHANGED <<result, status, cancel, value, asked, storage, handlers, restarts>>
     ELSE GoTo("waiting")

(* The value is taken, and the loop resumed with it.  The status stays. *)
TakeAnswer ==
  /\ driver = "woken"
  /\ value' = [value EXCEPT ![result] = Default]
  /\ driver' = "top"
  /\ UNCHANGED <<result, status, cancel, permit, asked, storage, handlers, restarts>>

----------------------------------------------------------------------------
(* The handlers.                                                           *)

(* No driver works for the run (any more).                                 *)
Gone == {"ended", "panicked", "none"}

Handle(c, next) ==
  /\ client' = [client EXCEPT ![c] = next]
  /\ UNCHANGED <<driver, result, status, cancel, asked, storage, remover, deleted, restarts>>

(* post_answer and post_repair; a request that finds another status is a   *)
(* conflict and changes nothing.                                           *)
Post(c, k) ==
  /\ client[c].at = "idle" /\ listed /\ ~Writing
  /\ status = k
  /\ Handle(c, [at |-> "accepted", kind |-> k, about |-> asked[k], locks |-> TRUE])
  /\ UNCHANGED <<permit, value>>

(* provide_answer and provide_repair, first half.  A WebSocket keeps the   *)
(* session it was opened with and does not look at the status; what it     *)
(* stores for a run without a driver is never read, and is left out.       *)
Store(c) ==
  /\ client[c].at = "accepted"
  /\ value' = [value EXCEPT ![client[c].kind] = client[c].about]
  /\ Handle(c, [client[c] EXCEPT !.at = "stored"])
  /\ UNCHANGED permit

StoreFromSocket(c, k) ==
  /\ c \in Sockets /\ client[c].at = "idle" /\ driver \notin Gone
  /\ value' = [value EXCEPT ![k] = asked[k]]
  /\ Handle(c, [at |-> "stored", kind |-> k, about |-> asked[k], locks |-> FALSE])
  /\ UNCHANGED permit

WaitsFor(k) == driver = "waiting" /\ result = k

(* notify_one, second half: wakes the waiter, or leaves a permit. *)
NotifyWaiter(c) ==
  /\ client[c].at = "stored" /\ WaitsFor(client[c].kind)
  /\ driver' = "woken"
  /\ client' = [client EXCEPT ![c] = Idle]
  /\ UNCHANGED <<result, session, asked, storage, remover, deleted, restarts>>

NotifyNobody(c) ==
  /\ client[c].at = "stored" /\ ~WaitsFor(client[c].kind)
  /\ permit' = [permit EXCEPT ![client[c].kind] = TRUE]
  /\ Handle(c, Idle)
  /\ UNCHANGED value

(* cancel_run. *)
Cancel ==
  /\ listed /\ ~Writing /\ ~cancel
  /\ cancel' = TRUE
  /\ UNCHANGED <<driver, result, status, permit, value, asked, storage, handlers, restarts>>

(* delete_run: cancel, forget, remove the files. *)
Delete ==
  /\ remover = "idle" /\ listed
  /\ cancel' = TRUE /\ remover' = "found"
  /\ UNCHANGED <<driver, result, status, permit, value, asked, storage, client, deleted,
                 restarts>>

DeleteFromMap ==
  /\ remover = "found" /\ ~Reading
  /\ listed' = FALSE /\ remover' = "forgotten"
  /\ UNCHANGED <<driver, result, session, asked, disk, client, deleted, restarts>>

DeleteFiles ==
  /\ remover = "forgotten"
  /\ disk' = "none" /\ deleted' = TRUE /\ remover' = "idle"
  /\ UNCHANGED <<driver, result, session, asked, listed, client, restarts>>

(* clear_runs, which keeps the lock. *)
Clear ==
  /\ remover = "idle" /\ listed /\ ~Reading
  /\ cancel' = TRUE /\ remover' = "clearing"
  /\ UNCHANGED <<driver, result, status, permit, value, asked, storage, client, deleted,
                 restarts>>

ClearFilesAndMap ==
  /\ remover = "clearing"
  /\ disk' = "none" /\ listed' = FALSE /\ deleted' = TRUE /\ remover' = "idle"
  /\ UNCHANGED <<driver, result, session, asked, client, restarts>>

----------------------------------------------------------------------------
(* Mutant: runs are restored with the status they had. *)
RestoredAsIs == disk

(* restore_persisted_runs: a run that had not ended has no driver now. *)
Restored == IF disk \in Terminal THEN disk ELSE "Error"

(* load_all_runs skips a file that was cut short.  The file is written in  *)
(* place, so that this can happen to it wherever the driver saves.         *)
Saving == {"found", "asking", "resuming", "ending"}
Loadable == {disk} \cup (IF driver \in Saving THEN {"none"} ELSE {})

(* The process dies at any time, or is shut down by a heartbeat. *)
Restart ==
  /\ restarts < MaxRestarts
  /\ restarts' = restarts + 1
  /\ driver' = "none" /\ cancel' = FALSE
  /\ permit' = [k \in Awaited |-> FALSE] /\ value' = [k \in Awaited |-> Default]
  /\ client' = [c \in Clients |-> Idle] /\ remover' = "idle"
  /\ disk' \in Loadable
  /\ listed' = (disk' # "none")
  /\ status' = Restored
  /\ result' = "Running" /\ asked' = [k \in Awaited |-> 0]
  /\ UNCHANGED deleted

Results == {"Running", "Done", "Error"} \cup Awaited

Drive ==
  \/ LookUp \/ SaveFirst \/ Top \/ Interrupt \/ Publish
  \/ SaveWait \/ SaveEnd \/ Await \/ TakeAnswer
  \/ HeartbeatRepairs \/ HeartbeatAnswers \/ SaveResumed \/ HeartbeatResumes

LoopSteps == StepPanics \/ \E r \in Results : StepReturns(r)

Provide(c) ==
  \/ Store(c) \/ NotifyWaiter(c) \/ NotifyNobody(c)
  \/ \E k \in Awaited : Post(c, k) \/ StoreFromSocket(c, k)

Removal == Delete \/ DeleteFromMap \/ DeleteFiles \/ Clear \/ ClearFilesAndMap

SessionNext ==
  \/ Drive \/ LoopSteps
  \/ Cancel \/ Removal \/ Restart
  \/ \E c \in Clients : Provide(c)

(* The executor runs the driver, and a handler that has begun goes on.     *)
(* Nobody has to send a request, and a step of the loop need not return.   *)
SessionFairness ==
  /\ WF_sessionVars(Drive)
  /\ WF_sessionVars(DeleteFromMap \/ DeleteFiles \/ ClearFilesAndMap)
  /\ \A c \in Clients : WF_sessionVars(Store(c) \/ NotifyWaiter(c) \/ NotifyNobody(c))

SessionSpec == SessionInit /\ [][SessionNext]_sessionVars /\ SessionFairness

----------------------------------------------------------------------------
Places ==
  {"new", "found", "top", "step", "told", "asking", "saved", "waiting", "woken",
   "resuming", "thinking", "ending"} \cup Gone

Request == [at : {"idle", "accepted", "stored"}, kind : Awaited, about : 0..MaxAsked,
            locks : BOOLEAN]

(* Types, and: a run that ended or waits has the status that says so.      *)
SessionTypeOK ==
  /\ driver \in Places /\ result \in Results
  /\ status \in Status /\ cancel \in BOOLEAN
  /\ permit \in [Awaited -> BOOLEAN] /\ value \in [Awaited -> Value]
  /\ asked \in [Awaited -> 0..MaxAsked]
  /\ listed \in BOOLEAN /\ disk \in Status \cup {"none"}
  /\ client \in [Clients -> Request]
  /\ remover \in {"idle", "found", "forgotten", "clearing"} /\ deleted \in BOOLEAN
  /\ restarts \in 0..MaxRestarts
  /\ driver \in {"asking", "saved", "waiting", "woken"} => result \in Awaited /\ status = result
  /\ driver \in {"ending", "ended"} /\ listed => status \in Terminal

(* A listed run that looks active has a driver that works on it, or its    *)
(* driver has panicked in a step: neither an end, a removal nor a restart  *)
(* at whatever point leaves a zombie, and a restart ends the panicked one. *)
ZombiesOnlyByPanic ==
  listed /\ status \notin Terminal => driver \notin Gone \ {"panicked"}

(* Outside the moments between a change of the status and its save, the    *)
(* list of runs and the disk agree: while the loop works, while a user is  *)
(* waited for, and when the run is over or its driver has panicked.        *)
DiskInSync ==
  listed /\ driver \in {"top", "step", "told", "saved", "waiting", "woken", "thinking",
                       "panicked", "ended"}
    => disk = status

(* While a server runs, a run that is over stays as it is; one whose end   *)
(* was saved is restored as it was.                                        *)
TerminalIsFinal ==
  [][/\ restarts' = restarts /\ status \in Terminal => status' = status
     /\ restarts' # restarts /\ driver = "ended" /\ listed => listed' /\ status' = status]_sessionVars

Asking == result \in Awaited /\ driver \in {"told", "asking", "saved", "waiting"}

(* An answer can come before the driver waits for it, as the status is     *)
(* published first: it is not lost, the run goes on.                       *)
NoLostWakeup == (Asking /\ permit[result]) ~> ~Asking

(* A cancelled run does no more work, in finite time, also when its step   *)
(* would never return; it is over, or stuck at a question.                 *)
CancelStopsWork == cancel ~> driver \in Gone \cup {"waiting"}
=============================================================================
