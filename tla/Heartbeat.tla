----------------------------- MODULE Heartbeat ------------------------------
(***************************************************************************)
(* The heartbeat of the web gateway: a task repeated for a number of       *)
(* rounds, each in a process of its own (web/heartbeat.rs, the handlers in *)
(* config_api.rs, the ends of drive_run in api_runs.rs, bin/serve.rs).     *)
(*                                                                         *)
(* One record in memory behind a lock, one JSON file, the drivers of all   *)
(* runs, requests that start and cancel heartbeats, and a process that     *)
(* shuts down after a round, or dies, and is launched again.  A run that   *)
(* is driven is cut down to what the heartbeat sees of it: RunSession has  *)
(* the rest.  The prompt and current_run_id decide nothing and are left    *)
(* out, as are the outcomes of rounds: each counts alike.                  *)
(***************************************************************************)
EXTENDS Naturals, Sequences, SequencesExt

CONSTANTS
  Tasks,        (* the heartbeats that are started, once each               *)
  Rounds,       (* max_rounds, as a request gives it                        *)
  MaxRuns,      (* bound: runs alive when a client creates another          *)
  MaxCrashes    (* bound: deaths of the process other than its shutdown     *)

ASSUME HeartbeatAssumption ==
  /\ Rounds \subseteq Nat
  /\ MaxRuns \in Nat /\ MaxCrashes \in Nat
  /\ "user" \notin Tasks /\ "none" \notin Tasks

VARIABLES
  file,      (* .graph_harness_heartbeat.json                               *)
  hb,        (* WebState::heartbeat                                         *)
  start,     (* the handlers of start_heartbeat: where they are, what they hold *)
  process,   (* "up"; "draining", told to shut down; "down"                 *)
  runs,      (* the drivers at work in this process: whose run, and where   *)
  watched,   (* a client has the event stream of some run open              *)
  crashes,
  counted,   (* history: rounds completed in memory, per heartbeat          *)
  stopped,   (* history: heartbeats an operator cancelled                   *)
  missed     (* history: heartbeats whose run ended without being counted   *)

histories == <<counted, stopped, missed>>
beat == <<file, hb, start, process, runs, watched, crashes, histories>>

----------------------------------------------------------------------------
(* HeartBeat.  None: there is none in memory; no file, or one that cannot  *)
(* be parsed.                                                              *)
None == [task |-> "none", max |-> 0, done |-> 0, active |-> FALSE]
HeartBeat == [task : Tasks, max : Rounds, done : Nat, active : BOOLEAN]

NotStarted == [at |-> "idle", hb |-> None]
Answered == [at |-> "answered", hb |-> None]
Run(whose) == [whose |-> whose, at |-> "live"]

(* What load makes of the file: only an active heartbeat is taken.         *)
Loaded == IF file.active THEN file ELSE None

BeatInit ==
  /\ file = None /\ hb = None
  /\ start = [t \in Tasks |-> NotStarted]
  /\ process = "up" /\ runs = <<>> /\ watched = FALSE /\ crashes = 0
  /\ counted = [t \in Tasks |-> 0] /\ stopped = {} /\ missed = {}

RunGoes(r, place) == runs' = [runs EXCEPT ![r].at = place]
RunReturns(r) == runs' = RemoveAt(runs, r)

----------------------------------------------------------------------------
(* start_heartbeat, start_default_heartbeat: the file is written, the run  *)
(* inserted and its driver spawned before the lock is taken.               *)
StartSave(t) ==
  /\ process = "up" /\ start[t].at = "idle"
  /\ \E max \in Rounds :
       LET new == [task |-> t, max |-> max, done |-> 0, active |-> TRUE]
       IN  file' = new /\ start' = [start EXCEPT ![t] = [at |-> "saved", hb |-> new]]
  /\ UNCHANGED <<hb, process, runs, watched, crashes, histories>>

(* spawn_heartbeat_run. *)
StartSpawn(t) ==
  /\ process # "down" /\ start[t].at = "saved"
  /\ runs' = Append(runs, Run(t))
  /\ file' = start[t].hb
  /\ start' = [start EXCEPT ![t].at = "spawned"]
  /\ UNCHANGED <<hb, process, watched, crashes, histories>>

StartPublish(t) ==
  /\ process # "down" /\ start[t].at = "spawned"
  /\ hb' = start[t].hb
  /\ start' = [start EXCEPT ![t] = Answered]
  /\ UNCHANGED <<file, process, runs, watched, crashes, histories>>

(* Mutant: cancel does not save.                                           *)
CancelHeartbeatInMemory ==
  /\ process = "up" /\ hb # None
  /\ hb' = [hb EXCEPT !.active = FALSE] /\ file' = file
  /\ stopped' = stopped \cup {hb.task}
  /\ UNCHANGED <<start, process, runs, watched, crashes, counted, missed>>

(* cancel_heartbeat; the run it has goes on. *)
CancelHeartbeat ==
  /\ process = "up" /\ hb # None
  /\ hb' = [hb EXCEPT !.active = FALSE] /\ file' = hb'
  /\ stopped' = stopped \cup {hb.task}
  /\ UNCHANGED <<start, process, runs, watched, crashes, counted, missed>>

(* update_heartbeat_prompt, inject_heartbeat_hint: the record is saved.    *)
EditPrompt ==
  /\ process = "up" /\ hb # None
  /\ file' = hb
  /\ UNCHANGED <<hb, start, process, runs, watched, crashes, histories>>

----------------------------------------------------------------------------
(* create_run, create_branch. *)
CreateRun ==
  /\ process = "up" /\ Len(runs) < MaxRuns
  /\ runs' = Append(runs, Run("user"))
  /\ UNCHANGED <<file, hb, start, process, watched, crashes, histories>>

(* cancel_run, delete_run, clear_runs: the driver returns from its select, *)
(* past the code that counts rounds.                                       *)
CancelRun(r) ==
  /\ process = "up" /\ runs[r].at = "live"
  /\ RunReturns(r)
  /\ missed' = missed \cup ({runs[r].whose} \cap Tasks)
  /\ UNCHANGED <<file, hb, start, process, watched, crashes, counted, stopped>>

(* A run pauses, or its graph is invalid.  While any heartbeat is active a *)
(* model answers, or the graph is taken as it is; else a user is waited for. *)
Ask(r) ==
  /\ process # "down" /\ runs[r].at = "live" /\ ~hb.active
  /\ RunGoes(r, "waiting")
  /\ UNCHANGED <<file, hb, start, process, watched, crashes, histories>>

Answer(r) ==
  /\ process # "down" /\ runs[r].at = "waiting"
  /\ RunGoes(r, "live")
  /\ UNCHANGED <<file, hb, start, process, watched, crashes, histories>>

(* Done, Error or TaskFailed: the status is written and saved.             *)
Finish(r) ==
  /\ process # "down" /\ runs[r].at = "live"
  /\ RunGoes(r, "ended")
  /\ UNCHANGED <<file, hb, start, process, watched, crashes, histories>>

(* The step panics (RunSession) and takes the driver with it.              *)
RunPanics(r) ==
  /\ process # "down" /\ runs[r].at = "live"
  /\ RunReturns(r)
  /\ missed' = missed \cup ({runs[r].whose} \cap Tasks)
  /\ UNCHANGED <<file, hb, start, process, watched, crashes, counted, stopped>>

----------------------------------------------------------------------------
RoundComplete ==
  [hb EXCEPT !.done = @ + 1, !.active = hb.done + 1 < hb.max]

(* Mutant: only the last round is saved.                                   *)
CountSavedAtEnd(r) ==
  /\ process # "down" /\ runs[r].at = "ended" /\ hb.active
  /\ hb' = RoundComplete
  /\ file' = IF hb'.active THEN file ELSE hb'
  /\ IF hb'.active THEN RunGoes(r, "counted") ELSE RunReturns(r)
  /\ counted' = [counted EXCEPT ![hb.task] = @ + 1]
  /\ UNCHANGED <<start, process, watched, crashes, stopped, missed>>

(* The end of any run completes a round of the active heartbeat.           *)
Count(r) ==
  /\ process # "down" /\ runs[r].at = "ended" /\ hb.active
  /\ hb' = RoundComplete
  /\ file' = hb'
  /\ IF hb'.active THEN RunGoes(r, "counted") ELSE RunReturns(r)
  /\ counted' = [counted EXCEPT ![hb.task] = @ + 1]
  /\ missed' = missed \cup (({runs[r].whose} \cap Tasks) \ {hb.task})
  /\ UNCHANGED <<start, process, watched, crashes, stopped>>

CountNothing(r) ==
  /\ process # "down" /\ runs[r].at = "ended" /\ ~hb.active
  /\ RunReturns(r)
  /\ missed' = missed \cup ({runs[r].whose} \cap Tasks)
  /\ UNCHANGED <<file, hb, start, process, watched, crashes, counted, stopped>>

(* Mutant: the round is complete, the process is kept.                     *)
SignalForgotten(r) ==
  /\ process # "down" /\ runs[r].at = "counted"
  /\ RunReturns(r)
  /\ UNCHANGED <<file, hb, start, process, watched, crashes, histories>>

(* heartbeat_trigger_shutdown, which takes the lock again.                 *)
Signal(r) ==
  /\ process # "down" /\ runs[r].at = "counted"
  /\ RunReturns(r)
  /\ process' = IF hb.active THEN "draining" ELSE process
  /\ UNCHANGED <<file, hb, start, watched, crashes, histories>>

----------------------------------------------------------------------------
OpenStream ==
  /\ process = "up" /\ runs # <<>> /\ ~watched
  /\ watched' = TRUE
  /\ UNCHANGED <<file, hb, start, process, runs, crashes, histories>>

CloseStream ==
  /\ watched
  /\ watched' = FALSE
  /\ UNCHANGED <<file, hb, start, process, runs, crashes, histories>>

(* The process is gone, with its drivers and its handlers. *)
Dies(left) ==
  /\ process' = "down" /\ hb' = None /\ file' = left
  /\ runs' = <<>> /\ watched' = FALSE
  /\ start' = [t \in Tasks |->
                 IF start[t].at = "idle" THEN NotStarted ELSE Answered]
  /\ UNCHANGED histories

(* with_graceful_shutdown waits for the requests that are being answered;  *)
(* an event stream is one that has no end.  Runs are not waited for.       *)
Drained ==
  /\ process = "draining" /\ ~watched
  /\ \A t \in Tasks : start[t].at \notin {"saved", "spawned"}
  /\ Dies(file)
  /\ UNCHANGED crashes

(* Killed, maybe in the middle of fs::write. *)
Crash ==
  /\ process # "down" /\ crashes < MaxCrashes
  /\ crashes' = crashes + 1
  /\ \E left \in {file, None} : Dies(left)

(* WebState::new and main: what loop.ps1 launches resumes what it loads.   *)
Relaunch ==
  /\ process = "down"
  /\ process' = "up"
  /\ hb' = Loaded
  /\ file' = IF Loaded.active THEN Loaded ELSE file
  /\ runs' = IF Loaded.active THEN <<Run(Loaded.task)>> ELSE <<>>
  /\ UNCHANGED <<start, watched, crashes, histories>>

----------------------------------------------------------------------------
Starting == \E t \in Tasks : StartSave(t) \/ StartSpawn(t) \/ StartPublish(t)

RunMoves(r) ==
  \/ CancelRun(r) \/ Ask(r) \/ Answer(r) \/ Finish(r) \/ RunPanics(r)
  \/ Count(r) \/ CountNothing(r) \/ Signal(r)

BeatNext ==
  \/ Starting
  \/ CancelHeartbeat \/ EditPrompt \/ CreateRun
  \/ \E r \in DOMAIN runs : RunMoves(r)
  \/ OpenStream \/ CloseStream
  \/ Drained \/ Crash \/ Relaunch

(* Drivers and handlers run, and the launcher loops.  Nothing says that a  *)
(* step returns, that a user answers or that a stream is closed: the       *)
(* session that feeds it stays listed, and it is kept alive.               *)
BeatFairness ==
  /\ \A t \in Tasks : WF_beat(StartSpawn(t) \/ StartPublish(t))
  /\ WF_beat(\E r \in DOMAIN runs : Count(r) \/ CountNothing(r) \/ Signal(r))
  /\ WF_beat(Drained) /\ WF_beat(Relaunch)

BeatSpec == BeatInit /\ [][BeatNext]_beat /\ BeatFairness

----------------------------------------------------------------------------
Held == HeartBeat \cup {None}

BeatTypeOK ==
  /\ file \in Held /\ hb \in Held
  /\ start \in [Tasks -> [at : {"idle", "saved", "spawned", "answered"}, hb : Held]]
  /\ process \in {"up", "draining", "down"}
  /\ runs \in Seq([whose : Tasks \cup {"user"},
                   at : {"live", "waiting", "ended", "counted"}])
  /\ watched \in BOOLEAN /\ crashes \in 0..MaxCrashes
  /\ counted \in [Tasks -> Nat] /\ stopped \subseteq Tasks /\ missed \subseteq Tasks

(* What a restart would resume has every round that was completed, also    *)
(* while requests start and cancel other heartbeats and at every point     *)
(* where the process may die: whichever heartbeat is in memory or in the   *)
(* file, its count is the one reached.                                     *)
NoRoundLost == \A h \in {file, hb} \ {None} : h.done = counted[h.task]

(* A heartbeat that an operator cancelled stays inactive, in memory and in *)
(* what a restart would load.                                              *)
CancelIsFinal == \A h \in {file, hb} : h.active => h.task \notin stopped

Working(t) ==
  LET h == IF process = "down" THEN file ELSE hb IN h.task = t /\ h.active

(* A run of the heartbeat is at work, or waits for a user. *)
Unfinished(t) ==
  \E r \in DOMAIN runs : runs[r].whose = t /\ runs[r].at \in {"live", "waiting"}

(* A heartbeat that works comes to its end, round after round through      *)
(* shutdowns and deaths, or is cancelled or replaced.  Four things stop it *)
(* for good: a client keeps an event stream open through the shutdown; a   *)
(* run of it never ends, as its step does not return or nobody answers;    *)
(* a client cancels the very run it has; that run panics.                  *)
HeartbeatEnds ==
  \A t \in Tasks :
    \/ Working(t) ~> (~Working(t) \/ t \in missed)
    \/ <>[]Unfinished(t)
    \/ <>[](process = "draining" /\ watched)
=============================================================================
