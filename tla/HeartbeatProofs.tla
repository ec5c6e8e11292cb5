--------------------------- MODULE HeartbeatProofs --------------------------
(* Theorems of Heartbeat, for any number of heartbeats, rounds, runs and   *)
(* deaths of the process.                                                  *)
EXTENDS Heartbeat, SequenceTheorems, TLAPS

(* A heartbeat whose request has not been answered is in no process's      *)
(* memory, so nothing has counted or cancelled it; before its request the  *)
(* file does not know it either.  No request outlives its process.         *)
Unborn ==
  \A t \in Tasks :
    /\ process = "down" => start[t].at \in {"idle", "answered"}
    /\ start[t].at # "answered" => hb.task # t /\ counted[t] = 0 /\ t \notin stopped
    /\ start[t].at = "idle" => file.task # t
    /\ start[t].at \in {"saved", "spawned"} =>
         start[t].hb \in HeartBeat /\ start[t].hb.task = t /\ start[t].hb.done = 0

Safety == NoRoundLost /\ CancelIsFinal /\ Unborn

Driver == [whose : Tasks \cup {"user"}, at : {"live", "waiting", "ended", "counted"}]

(* Drivers that come, move and go leave a sequence of drivers.             *)
LEMMA RunsStayRuns ==
  ASSUME NEW s \in Seq(Driver)
  PROVE  /\ \A d \in Driver : Append(s, d) \in Seq(Driver)
         /\ \A i \in DOMAIN s : RemoveAt(s, i) \in Seq(Driver)
         /\ \A i \in DOMAIN s, p \in {"live", "waiting", "ended", "counted"} :
              [s EXCEPT ![i].at = p] \in Seq(Driver)
<1>1. \A d \in Driver : Append(s, d) \in Seq(Driver)
  OBVIOUS
<1>2. ASSUME NEW i \in DOMAIN s
      PROVE  RemoveAt(s, i) \in Seq(Driver)
  <2>1. i \in 1..Len(s)
    OBVIOUS
  <2>2. SubSeq(s, 1, i - 1) \in Seq(Driver) /\ SubSeq(s, i + 1, Len(s)) \in Seq(Driver)
    BY <2>1
  <2> QED
    BY <2>2, ConcatProperties DEF RemoveAt
<1>3. ASSUME NEW i \in DOMAIN s, NEW p \in {"live", "waiting", "ended", "counted"}
      PROVE  [s EXCEPT ![i].at = p] \in Seq(Driver)
  <2>1. s[i] \in Driver
    OBVIOUS
  <2>2. [s[i] EXCEPT !.at = p] \in Driver
    BY <2>1 DEF Driver
  <2>3. [s EXCEPT ![i].at = p] = [s EXCEPT ![i] = [s[i] EXCEPT !.at = p]]
    OBVIOUS
  <2> QED
    BY <2>2, <2>3, ExceptSeq
<1> QED
  BY <1>1, <1>2, <1>3

(* What the handlers and the drivers write into memory and file is a       *)
(* record of a heartbeat.                                                  *)
LEMMA RecordsStayRecords ==
  ASSUME BeatTypeOK, hb # None
  PROVE  /\ hb \in HeartBeat
         /\ [hb EXCEPT !.active = FALSE] \in HeartBeat
         /\ RoundComplete \in HeartBeat
<1>1. hb \in HeartBeat
  BY DEF BeatTypeOK, Held
<1>2. hb.done \in Nat
  BY <1>1 DEF HeartBeat
<1>3. [hb EXCEPT !.active = FALSE] \in HeartBeat
  BY <1>1 DEF HeartBeat
<1>4. [hb EXCEPT !.done = @ + 1] \in HeartBeat
  BY <1>1, <1>2 DEF HeartBeat
<1>5. \A b \in BOOLEAN : [hb EXCEPT !.done = hb.done + 1, !.active = b] \in HeartBeat
  BY <1>1, <1>4, <1>2 DEF HeartBeat
<1>6. (hb.done + 1 < hb.max) \in BOOLEAN
  OBVIOUS
<1>7. [hb EXCEPT !.done = hb.done + 1, !.active = hb.done + 1 < hb.max] \in HeartBeat
  BY <1>5, <1>6
<1> QED
  BY <1>1, <1>3, <1>7 DEF RoundComplete

LEMMA TypeInit == BeatInit => BeatTypeOK
<1> SUFFICES ASSUME BeatInit PROVE BeatTypeOK
  OBVIOUS
<1>1. NotStarted \in [at : {"idle", "saved", "spawned", "answered"}, hb : Held]
  BY DEF NotStarted, Held
<1>2. crashes \in 0..MaxCrashes
  BY HeartbeatAssumption DEF BeatInit
<1>3. stopped \subseteq Tasks /\ missed \subseteq Tasks /\ counted \in [Tasks -> Nat]
  BY DEF BeatInit, histories
<1>4. start \in [Tasks -> [at : {"idle", "saved", "spawned", "answered"}, hb : Held]]
  BY <1>1 DEF BeatInit
<1>5. runs \in Seq([whose : Tasks \cup {"user"},
                    at : {"live", "waiting", "ended", "counted"}])
  BY DEF BeatInit
<1>6. file \in Held /\ hb \in Held /\ process = "up" /\ watched = FALSE
  BY DEF BeatInit, Held
<1> QED
  BY <1>2, <1>3, <1>4, <1>5, <1>6 DEF BeatTypeOK

LEMMA TypeStep == BeatTypeOK /\ [BeatNext]_beat => BeatTypeOK'
<1> SUFFICES ASSUME BeatTypeOK, [BeatNext]_beat PROVE BeatTypeOK'
  OBVIOUS
<1> USE HeartbeatAssumption
<1> DEFINE Places == {"idle", "saved", "spawned", "answered"}
<1>0. None \in Held /\ Loaded \in Held /\ Answered \in [at : Places, hb : Held]
      /\ NotStarted \in [at : Places, hb : Held]
  BY DEF BeatTypeOK, Held, Loaded, Answered, NotStarted
<1>r. runs \in Seq(Driver) /\ (\A t \in Tasks : Run(t) \in Driver) /\ Run("user") \in Driver
  BY DEF BeatTypeOK, Driver, Run
<1>1. CASE UNCHANGED beat
  BY <1>1 DEF BeatTypeOK, beat, histories
<1>2. ASSUME NEW t \in Tasks, StartSave(t) PROVE BeatTypeOK'
  <2>1. PICK max \in Rounds :
          LET new == [task |-> t, max |-> max, done |-> 0, active |-> TRUE]
          IN  file' = new /\ start' = [start EXCEPT ![t] = [at |-> "saved", hb |-> new]]
    BY <1>2 DEF StartSave
  <2> DEFINE new == [task |-> t, max |-> max, done |-> 0, active |-> TRUE]
  <2>2. new \in Held
    BY DEF Held, HeartBeat
  <2>3. start' \in [Tasks -> [at : Places, hb : Held]]
    BY <2>1, <2>2 DEF BeatTypeOK
  <2> QED
    BY <1>2, <2>1, <2>2, <2>3 DEF BeatTypeOK, StartSave, histories
<1>3. ASSUME NEW t \in Tasks, StartSpawn(t) PROVE BeatTypeOK'
  <2>1. start[t].hb \in Held /\ [start[t] EXCEPT !.at = "spawned"] \in [at : Places, hb : Held]
    BY DEF BeatTypeOK
  <2>2. start' = [start EXCEPT ![t] = [start[t] EXCEPT !.at = "spawned"]]
    BY <1>3 DEF StartSpawn
  <2>3. start' \in [Tasks -> [at : Places, hb : Held]]
    BY <2>1, <2>2 DEF BeatTypeOK
  <2>4. runs' \in Seq(Driver)
    BY <1>3, <1>r, RunsStayRuns DEF StartSpawn
  <2> QED
    BY <1>3, <2>1, <2>3, <2>4 DEF BeatTypeOK, StartSpawn, histories, Driver
<1>4. ASSUME NEW t \in Tasks, StartPublish(t) PROVE BeatTypeOK'
  <2>1. start[t].hb \in Held
    BY DEF BeatTypeOK
  <2>2. start' \in [Tasks -> [at : Places, hb : Held]]
    BY <1>4, <1>0 DEF BeatTypeOK, StartPublish
  <2> QED
    BY <1>4, <2>1, <2>2 DEF BeatTypeOK, StartPublish, histories
<1>5. CASE CancelHeartbeat
  <2>1. [hb EXCEPT !.active = FALSE] \in Held /\ hb.task \in Tasks
    BY <1>5, RecordsStayRecords DEF CancelHeartbeat, Held, HeartBeat
  <2> QED
    BY <1>5, <2>1 DEF BeatTypeOK, CancelHeartbeat, histories
<1>6. CASE EditPrompt
  BY <1>6 DEF BeatTypeOK, EditPrompt, histories
<1>7. CASE CreateRun
  <2>1. runs' \in Seq(Driver)
    BY <1>7, <1>r, RunsStayRuns DEF CreateRun
  <2> QED
    BY <1>7, <2>1 DEF BeatTypeOK, CreateRun, histories, Driver
<1>8. ASSUME NEW r \in DOMAIN runs, RunMoves(r) PROVE BeatTypeOK'
  <2>0. RunReturns(r) => runs' \in Seq(Driver)
    BY <1>r, RunsStayRuns DEF RunReturns
  <2>1. \A p \in {"live", "waiting", "ended", "counted"} : RunGoes(r, p) => runs' \in Seq(Driver)
    <3> SUFFICES ASSUME NEW p \in {"live", "waiting", "ended", "counted"}, RunGoes(r, p)
                 PROVE  runs' \in Seq(Driver)
      OBVIOUS
    <3>1. [runs EXCEPT ![r].at = p] \in Seq(Driver)
      BY <1>r, RunsStayRuns
    <3> QED
      BY <3>1 DEF RunGoes
  <2>2. runs' \in Seq(Driver)
    BY <1>8, <2>0, <2>1
      DEF RunMoves, CancelRun, Ask, Answer, Finish, RunPanics, Count, CountNothing, Signal
  <2>3. CASE Count(r)
    <3>1. hb # None
      BY <2>3 DEF Count, None
    <3>2. RoundComplete \in Held /\ hb.task \in Tasks
      BY <3>1, RecordsStayRecords DEF Held, HeartBeat
    <3>3. counted' \in [Tasks -> Nat]
      BY <2>3, <3>2 DEF BeatTypeOK, Count
    <3> QED
      BY <2>2, <2>3, <3>2, <3>3 DEF BeatTypeOK, Count, Driver
  <2>4. CASE CancelRun(r) \/ Ask(r) \/ Answer(r) \/ Finish(r) \/ RunPanics(r)
            \/ CountNothing(r) \/ Signal(r)
    BY <2>2, <2>4
      DEF BeatTypeOK, CancelRun, Ask, Answer, Finish, RunPanics, CountNothing,
          Signal, histories, Driver
  <2> QED
    BY <1>8, <2>3, <2>4 DEF RunMoves
<1>9. CASE OpenStream \/ CloseStream
  BY <1>9 DEF BeatTypeOK, OpenStream, CloseStream, histories
<1>10. ASSUME NEW left \in Held, Dies(left) PROVE
         /\ process' = "down" /\ hb' \in Held /\ file' \in Held /\ runs' \in Seq(Driver)
         /\ watched' \in BOOLEAN /\ start' \in [Tasks -> [at : Places, hb : Held]]
         /\ UNCHANGED histories
  <2>1. start' \in [Tasks -> [at : Places, hb : Held]]
    BY <1>0, <1>10 DEF Dies
  <2>2. runs' \in Seq(Driver)
    BY <1>10 DEF Dies
  <2> QED
    BY <1>0, <1>10, <2>1, <2>2 DEF Dies
<1>11. CASE Drained
  BY <1>10, <1>11 DEF BeatTypeOK, Drained, histories, Driver
<1>12. CASE Crash
  <2>1. PICK left \in {file, None} : Dies(left)
    BY <1>12 DEF Crash
  <2>2. left \in Held
    BY <1>0, <2>1 DEF BeatTypeOK
  <2>3. crashes' \in 0..MaxCrashes
    BY <1>12 DEF Crash, BeatTypeOK
  <2> QED
    BY <1>10, <2>1, <2>2, <2>3 DEF BeatTypeOK, histories, Driver
<1>13. CASE Relaunch
  <2>1. Loaded.active => Loaded.task \in Tasks
    BY <1>0 DEF None, Held, HeartBeat
  <2>2. runs' \in Seq(Driver)
    BY <1>13, <1>r, <2>1 DEF Relaunch
  <2> QED
    BY <1>0, <1>13, <2>2 DEF BeatTypeOK, Relaunch, histories, Driver
<1> QED
  BY <1>1, <1>2, <1>3, <1>4, <1>5, <1>6, <1>7, <1>8, <1>9, <1>11, <1>12, <1>13
    DEF BeatNext, Starting

(* TypeOK holds in every reachable state.                                  *)
THEOREM TypeCorrect == BeatSpec => []BeatTypeOK
<1>1. BeatTypeOK /\ [BeatNext]_beat => BeatTypeOK'
  BY TypeStep
<1> QED
  BY TypeInit, <1>1, PTL DEF BeatSpec

----------------------------------------------------------------------------
LEMMA SafetyInit == BeatInit => Safety
<1> SUFFICES ASSUME BeatInit PROVE Safety
  OBVIOUS
<1>1. None.task \notin Tasks /\ ~None.active
  BY HeartbeatAssumption DEF None
<1>2. \A t \in Tasks : start[t].at = "idle" /\ counted[t] = 0 /\ t \notin stopped
  BY DEF BeatInit, NotStarted
<1>3. file = None /\ hb = None /\ process = "up"
  BY DEF BeatInit
<1> QED
  BY <1>1, <1>2, <1>3 DEF Safety, NoRoundLost, CancelIsFinal, Unborn

(* A step that leaves memory, file, histories and requests as they are, or *)
(* writes into the file what memory holds, keeps Safety.                   *)
LEMMA SafetyStutter ==
  ASSUME BeatTypeOK, Safety, UNCHANGED <<hb, start, counted, stopped>>,
         file' \in {file, hb}, process' = "down" => process = "down"
  PROVE  Safety'
BY DEF Safety, NoRoundLost, CancelIsFinal, Unborn

LEMMA SafetyStep == BeatTypeOK /\ Safety /\ [BeatNext]_beat => Safety'
<1> SUFFICES ASSUME BeatTypeOK, Safety, [BeatNext]_beat PROVE Safety'
  OBVIOUS
<1>0. None.task \notin Tasks /\ ~None.active
  BY HeartbeatAssumption DEF None
<1>h. \A h \in Held \ {None} : h \in HeartBeat /\ h.task \in Tasks
  BY DEF Held, HeartBeat
<1>f. file \in Held /\ hb \in Held /\ counted \in [Tasks -> Nat] /\ DOMAIN start = Tasks
  BY DEF BeatTypeOK
<1>1. CASE UNCHANGED beat
  BY <1>1, SafetyStutter DEF beat, histories
<1>2. ASSUME NEW t \in Tasks, StartSave(t) PROVE Safety'
  <2>1. PICK max \in Rounds :
          LET new == [task |-> t, max |-> max, done |-> 0, active |-> TRUE]
          IN  file' = new /\ start' = [start EXCEPT ![t] = [at |-> "saved", hb |-> new]]
    BY <1>2 DEF StartSave
  <2> DEFINE new == [task |-> t, max |-> max, done |-> 0, active |-> TRUE]
  <2>2. new \in HeartBeat /\ new.task = t /\ new.done = 0
    BY DEF HeartBeat
  <2>3. start[t].at = "idle" /\ process = "up" /\ UNCHANGED <<hb, process, counted, stopped>>
    BY <1>2 DEF StartSave, histories
  <2>4. start'[t] = [at |-> "saved", hb |-> new] /\ \A u \in Tasks \ {t} : start'[u] = start[u]
    BY <1>f, <2>1
  <2>5. counted[t] = 0 /\ t \notin stopped /\ hb.task # t
    BY <2>3 DEF Safety, Unborn
  <2> HIDE DEF new
  <2>6. file' = new
    BY <2>1 DEF new
  <2>7. NoRoundLost' /\ CancelIsFinal'
    BY <2>2, <2>3, <2>5, <2>6 DEF Safety, NoRoundLost, CancelIsFinal
  <2>8. Unborn'
    BY <2>2, <2>3, <2>4, <2>5, <2>6 DEF Safety, Unborn
  <2> QED
    BY <2>7, <2>8 DEF Safety
<1>3. ASSUME NEW t \in Tasks, StartSpawn(t) PROVE Safety'
  <2>1. start[t].at = "saved" /\ process # "down"
        /\ UNCHANGED <<hb, process, counted, stopped>> /\ file' = start[t].hb
    BY <1>3 DEF StartSpawn, histories
  <2>2. start'[t].at = "spawned" /\ start'[t].hb = start[t].hb
        /\ \A u \in Tasks \ {t} : start'[u] = start[u]
    BY <1>3 DEF StartSpawn, BeatTypeOK
  <2>3. file'.task = t /\ file'.done = 0 /\ counted[t] = 0 /\ t \notin stopped
    BY <2>1 DEF Safety, Unborn
  <2>4. NoRoundLost' /\ CancelIsFinal'
    BY <2>1, <2>3 DEF Safety, NoRoundLost, CancelIsFinal
  <2>5. Unborn'
    BY <2>1, <2>2, <2>3 DEF Safety, Unborn
  <2> QED
    BY <2>4, <2>5 DEF Safety
<1>4. ASSUME NEW t \in Tasks, StartPublish(t) PROVE Safety'
  <2>1. start[t].at = "spawned" /\ process # "down"
        /\ UNCHANGED <<file, process, counted, stopped>> /\ hb' = start[t].hb
    BY <1>4 DEF StartPublish, histories
  <2>2. start'[t].at = "answered" /\ \A u \in Tasks \ {t} : start'[u] = start[u]
    BY <1>4 DEF StartPublish, BeatTypeOK, Answered
  <2>3. hb'.task = t /\ hb'.done = 0 /\ counted[t] = 0 /\ t \notin stopped
    BY <2>1 DEF Safety, Unborn
  <2>4. NoRoundLost' /\ CancelIsFinal'
    BY <2>1, <2>3 DEF Safety, NoRoundLost, CancelIsFinal
  <2>5. Unborn'
    BY <2>1, <2>2, <2>3 DEF Safety, Unborn
  <2> QED
    BY <2>4, <2>5 DEF Safety
<1>5. CASE CancelHeartbeat
  <2>1. hb # None /\ UNCHANGED <<start, process, counted>> /\ file' = hb'
        /\ stopped' = stopped \cup {hb.task}
    BY <1>5 DEF CancelHeartbeat
  <2>2. hb'.task = hb.task /\ hb'.done = hb.done /\ ~hb'.active
    BY <1>5, <1>f, <1>h, <2>1 DEF CancelHeartbeat, HeartBeat
  <2>3. hb.task \in Tasks /\ hb.done = counted[hb.task] /\ start[hb.task].at = "answered"
    BY <1>f, <1>h, <2>1 DEF Safety, NoRoundLost, Unborn
  <2>4. NoRoundLost' /\ CancelIsFinal'
    BY <2>1, <2>2, <2>3 DEF NoRoundLost, CancelIsFinal
  <2>5. Unborn'
    BY <2>1, <2>2, <2>3 DEF Safety, Unborn
  <2> QED
    BY <2>4, <2>5 DEF Safety
<1>6. CASE EditPrompt
  BY <1>6, SafetyStutter DEF EditPrompt, histories
<1>7. CASE CreateRun
  BY <1>7, SafetyStutter DEF CreateRun, histories
<1>8. ASSUME NEW r \in DOMAIN runs, RunMoves(r) PROVE Safety'
  <2>1. CASE Count(r)
    <3>1. hb.active /\ hb # None /\ process # "down" /\ file' = hb'
          /\ UNCHANGED <<start, process, stopped>>
      BY <1>0, <2>1 DEF Count
    <3>2. hb \in HeartBeat /\ hb.task \in Tasks
      BY <1>f, <1>h, <3>1
    <3>3. hb'.task = hb.task /\ hb'.done = hb.done + 1
      BY <2>1, <3>2 DEF Count, RoundComplete, HeartBeat
    <3>4. counted' = [counted EXCEPT ![hb.task] = @ + 1]
      BY <2>1 DEF Count
    <3>5. hb.done = counted[hb.task] /\ hb.task \notin stopped /\ start[hb.task].at = "answered"
      BY <3>1, <3>2 DEF Safety, NoRoundLost, CancelIsFinal, Unborn
    <3>6. counted'[hb.task] = hb.done + 1 /\ \A u \in Tasks \ {hb.task} : counted'[u] = counted[u]
      BY <1>f, <3>2, <3>4, <3>5
    <3>7. NoRoundLost' /\ CancelIsFinal'
      BY <3>1, <3>3, <3>5, <3>6 DEF NoRoundLost, CancelIsFinal
    <3>8. Unborn'
      BY <3>1, <3>3, <3>5, <3>6 DEF Safety, Unborn
    <3> QED
      BY <3>7, <3>8 DEF Safety
  <2>2. CASE CancelRun(r) \/ Ask(r) \/ Answer(r) \/ Finish(r) \/ RunPanics(r)
            \/ CountNothing(r) \/ Signal(r)
    BY <2>2, SafetyStutter DEF CancelRun, Ask, Answer, Finish, RunPanics, CountNothing,
          Signal, histories
  <2> QED
    BY <1>8, <2>1, <2>2 DEF RunMoves
<1>9. CASE OpenStream \/ CloseStream
  BY <1>9, SafetyStutter DEF OpenStream, CloseStream, histories
<1>10. ASSUME NEW left \in {file, None}, Dies(left) PROVE Safety'
  <2>1. process' = "down" /\ hb' = None /\ file' = left /\ UNCHANGED <<counted, stopped>>
    BY <1>10 DEF Dies, histories
  <2>2. \A t \in Tasks :
          /\ start'[t].at \in {"idle", "answered"}
          /\ start'[t].at = "idle" => start[t].at = "idle"
    BY <1>10 DEF Dies, NotStarted, Answered
  <2>3. NoRoundLost' /\ CancelIsFinal'
    BY <1>0, <2>1 DEF Safety, NoRoundLost, CancelIsFinal
  <2>4. Unborn'
    BY <1>0, <2>1, <2>2 DEF Safety, Unborn
  <2> QED
    BY <2>3, <2>4 DEF Safety
<1>11. CASE Drained \/ Crash
  BY <1>10, <1>11 DEF Drained, Crash
<1>12. CASE Relaunch
  <2>1. process = "down" /\ process' = "up" /\ UNCHANGED <<start, counted, stopped>>
    BY <1>12 DEF Relaunch, histories
  <2>2. hb' \in {file, None} /\ file' = file
    BY <1>0, <1>12 DEF Relaunch, Loaded
  <2>3. NoRoundLost' /\ CancelIsFinal'
    BY <1>0, <2>1, <2>2 DEF Safety, NoRoundLost, CancelIsFinal
  <2>4. \A t \in Tasks : start[t].at # "answered" => start[t].at = "idle" /\ hb'.task # t
    BY <1>0, <2>1, <2>2 DEF Safety, Unborn
  <2>5. Unborn'
    BY <2>1, <2>2, <2>4 DEF Safety, Unborn
  <2> QED
    BY <2>3, <2>5 DEF Safety
<1> QED
  BY <1>1, <1>2, <1>3, <1>4, <1>5, <1>6, <1>7, <1>8, <1>9, <1>11, <1>12 DEF BeatNext, Starting

LEMMA SafetyCorrect == BeatSpec => []Safety
<1>1. BeatTypeOK /\ Safety /\ [BeatNext]_beat => Safety'
  BY SafetyStep
<1> QED
  BY SafetyInit, TypeCorrect, <1>1, PTL DEF BeatSpec

(* Through any interleaving of requests, drivers, shutdowns and deaths, no *)
(* completed round is lost from memory or from the file: NoRoundLost.      *)
THEOREM RoundsAreKept == BeatSpec => []NoRoundLost
<1>1. Safety => NoRoundLost
  BY DEF Safety
<1> QED
  BY SafetyCorrect, <1>1, PTL

(* A heartbeat that was cancelled is never active again, in memory or in   *)
(* what a restart loads: CancelIsFinal.                                    *)
THEOREM CancelStays == BeatSpec => []CancelIsFinal
<1>1. Safety => CancelIsFinal
  BY DEF Safety
<1> QED
  BY SafetyCorrect, <1>1, PTL
=============================================================================
