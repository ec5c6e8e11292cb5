-------------------------- MODULE DrillDownProofs --------------------------
(* Theorems of DrillDown: for any number of runs and rounds, and any depth. *)
EXTENDS DrillDown, TLAPS

Calling == {"running", "timeout"}
Stops   == {"ended", "writing", "over"}

(* The root serves nobody; only its driver keeps a loop that was handed    *)
(* over.                                                                   *)
Rooted ==
  /\ parent[Root] = NoRun /\ mark[Root] = "none" /\ file[Root] = "none"
  /\ stage[Root] \in Live \cup {"over", "panicked"}
  /\ \A c \in Runs \ {Root} : stage[c] # "handed"

(* A sub-run exists from its fork on, and so does whoever forked it.       *)
Forked ==
  \A c \in Runs :
    /\ mark[c] = "none" <=> parent[c] = NoRun
    /\ c # Root => (stage[c] = "unborn" <=> parent[c] = NoRun)
    /\ parent[c] # NoRun => stage[parent[c]] # "unborn"
    /\ c \in noticed => parent[c] # NoRun

(* A handle names a sub-run that its loop forked and has not taken.        *)
Tracked ==
  \A r \in Runs :
    child[r] # NoRun => parent[child[r]] = r /\ mark[child[r]] \in Calling

(* A loop that goes on has the handle of every sub-run it has not taken.   *)
Waiting ==
  \A c \in Runs :
    mark[c] \in Calling /\ stage[parent[c]] \in Live => child[parent[c]] = c

(* run.json: written by a sub-run that is over, or by a parent that had    *)
(* dropped it.                                                             *)
Files ==
  \A c \in Runs :
    /\ file[c] \in Verdicts => stage[c] = "over" /\ file[c] = outcome[c]
    /\ file[c] = "Cancelled" => mark[c] = "Cancelled"

(* A fork is queued only with no sub-run in flight; an error that has not  *)
(* been reported belongs to one.                                           *)
Pending ==
  \A r \in Runs :
    /\ queued[r] => child[r] = NoRun
    /\ failed[r] /\ stage[r] \in Live => child[r] # NoRun
    /\ stage[r] = "unborn" => ~failed[r]

Concludes ==
  \A c \in Runs \ {Root} : stage[c] \in Stops => outcome[c] \in Verdicts

IInv ==
  TypeOK /\ Rooted /\ Forked /\ Tracked /\ Waiting /\ Files /\ Pending
    /\ Concludes /\ FailuresReported

LEMMA InitStep == Init => IInv
<1> SUFFICES ASSUME Init PROVE IInv
  OBVIOUS
<1>0. 0 \in 0..MaxRounds /\ 0 \in 0..MaxDepth
  BY RunsAssumption
<1>1. TypeOK
  <2>1. round \in [Runs -> 0..MaxRounds] /\ depth \in [Runs -> 0..MaxDepth]
    BY <1>0 DEF Init
  <2>2. stage \in [Runs -> Stages] /\ parent \in [Runs -> Runs \cup {NoRun}]
    BY DEF Init, Stages
  <2> QED
    BY <2>1, <2>2 DEF Init, TypeOK
<1>2. Rooted /\ Forked /\ Tracked /\ Waiting /\ Files /\ Pending /\ Concludes
  BY RunsAssumption DEF Init, Rooted, Forked, Tracked, Waiting, Files, Pending, Concludes,
     Calling, Stops, Live, Verdicts, Reported
<1>3. FailuresReported
  BY DEF Init, FailuresReported
<1> QED
  BY <1>1, <1>2, <1>3 DEF IInv

----------------------------------------------------------------------------
(* What is left of a run when step() has returned.                         *)
LEMMA Where ==
  ASSUME NEW r \in Runs, NEW state \in States
  PROVE  /\ After(r, state) \in Stages \ {"unborn", "writing"}
         /\ r = Root => After(r, state) \in Live \cup {"over", "panicked"}
         /\ r # Root => After(r, state) \in {"stepping", "ended", "panicked"}
         /\ Verdict(state) \in Verdicts
<1>1. CASE state = "Running" \/ state = "Panicked"
  BY <1>1 DEF After, Stages, Live, Verdict, Verdicts
<1>2. CASE r # Root /\ state \notin {"Running", "Panicked"}
  <2>1. After(r, state) = "ended"
    BY <1>2 DEF After
  <2> QED
    BY <1>2, <2>1 DEF Stages, Live, Verdict, Verdicts
<1>3. CASE r = Root /\ state \in {"Paused", "GraphInvalid"}
  <2>1. After(r, state) = "handed"
    BY <1>3 DEF After
  <2> QED
    BY <1>3, <2>1 DEF Stages, Live, Verdict, Verdicts
<1>4. CASE r = Root /\ state \in {"TaskFailed", "Done", "Error"}
  <2>1. After(r, state) = "over"
    BY <1>4 DEF After
  <2> QED
    BY <1>4, <2>1 DEF Stages, Live, Verdict, Verdicts
<1> QED
  BY <1>1, <1>2, <1>3, <1>4 DEF States

LEMMA Returned ==
  ASSUME TypeOK, NEW r \in Runs, NEW state \in States, Return(r, state)
  PROVE  /\ stage' \in [Runs -> Stages]
         /\ outcome' \in [Runs -> {"none"} \cup Verdicts]
         /\ \A c \in Runs \ {r} : stage'[c] = stage[c] /\ outcome'[c] = outcome[c]
         /\ r = Root => stage'[r] \in Live \cup {"over", "panicked"}
         /\ r # Root => stage'[r] \in {"stepping", "ended", "panicked"}
         /\ stage'[r] \in Stops /\ r # Root => outcome'[r] \in Verdicts
<1>1. /\ After(r, state) \in Stages
      /\ r = Root => After(r, state) \in Live \cup {"over", "panicked"}
      /\ r # Root => After(r, state) \in {"stepping", "ended", "panicked"}
      /\ Verdict(state) \in Verdicts
  BY Where
<1>2. stage' = [stage EXCEPT ![r] = After(r, state)] /\ outcome' = Concluded(r, state)
  BY DEF Return
<1>3. stage' \in [Runs -> Stages] /\ stage'[r] = After(r, state)
  BY <1>1, <1>2 DEF TypeOK
<1>4. outcome' \in [Runs -> {"none"} \cup Verdicts]
  BY <1>1, <1>2 DEF TypeOK, Concluded
<1>5. \A c \in Runs \ {r} : stage'[c] = stage[c] /\ outcome'[c] = outcome[c]
  BY <1>2 DEF TypeOK, Concluded
<1>6. stage'[r] \in Stops /\ r # Root => outcome'[r] \in Verdicts
  BY <1>1, <1>2, <1>3 DEF TypeOK, Concluded, Stops
<1> QED
  BY <1>1, <1>3, <1>4, <1>5, <1>6

LEMMA Counted ==
  ASSUME TypeOK, NEW r \in Runs, Round(r)
  PROVE  round' \in [Runs -> 0..MaxRounds]
BY RunsAssumption DEF TypeOK, Round

----------------------------------------------------------------------------
LEMMA ExhaustStep ==
  ASSUME IInv, NEW r \in Runs, Exhaust(r)
  PROVE  IInv'
<1> USE DEF IInv
<1>1. "Error" \in States /\ Return(r, "Error") /\ stage[r] = "stepping"
  BY DEF Exhaust, States
<1>2. /\ stage' \in [Runs -> Stages]
      /\ outcome' \in [Runs -> {"none"} \cup Verdicts]
      /\ \A c \in Runs \ {r} : stage'[c] = stage[c] /\ outcome'[c] = outcome[c]
      /\ r = Root => stage'[r] \in Live \cup {"over", "panicked"}
      /\ r # Root => stage'[r] \in {"stepping", "ended", "panicked"}
      /\ stage'[r] \in Stops /\ r # Root => outcome'[r] \in Verdicts
  BY <1>1, Returned
<1>3. TypeOK'
  BY <1>2 DEF Exhaust, TypeOK
<1> USE RunsAssumption, <1>1, <1>2, <1>3 DEF Exhaust, TypeOK, Live, Calling, Stops
<1>4. Rooted'
  BY DEF Rooted
<1>5. Forked'
  BY DEF Forked
<1>6. Tracked'
  BY DEF Tracked
<1>7. Waiting'
  BY DEF Waiting, Forked
<1>8. Files'
  BY DEF Files
<1>9. Pending'
  BY DEF Pending
<1>10. Concludes'
  BY DEF Concludes
<1>11. FailuresReported'
  BY DEF FailuresReported, Forked
<1> QED
  BY <1>3, <1>4, <1>5, <1>6, <1>7, <1>8, <1>9, <1>10, <1>11

LEMMA ObeyCancelStep ==
  ASSUME IInv, NEW r \in Runs, ObeyCancel(r)
  PROVE  IInv'
<1> USE DEF IInv
<1>1. "Error" \in States /\ Return(r, "Error") /\ stage[r] = "stepping" /\ r = Root
  BY DEF ObeyCancel, States, Round, Stopped
<1>2. /\ stage' \in [Runs -> Stages]
      /\ outcome' \in [Runs -> {"none"} \cup Verdicts]
      /\ \A c \in Runs \ {r} : stage'[c] = stage[c] /\ outcome'[c] = outcome[c]
  BY <1>1, Returned
<1>3. stage'[r] = "over"
  BY <1>1 DEF Return, After, TypeOK
<1>4. TypeOK'
  BY <1>2, Counted, RunsAssumption DEF ObeyCancel, Round, DropHandle, TypeOK, Reported
<1> USE RunsAssumption, <1>1, <1>2, <1>3, <1>4 DEF ObeyCancel, DropHandle, TypeOK, Live, Calling, Stops
<1>5. Rooted'
  BY DEF Rooted, Tracked
<1>6. Forked'
  BY DEF Forked, Tracked, Rooted
<1>7. Tracked'
  BY DEF Tracked
<1>8. Waiting'
  BY DEF Waiting, Forked
<1>9. Files'
  BY DEF Files, Verdicts
<1>10. Pending'
  BY DEF Pending
<1>11. Concludes'
  BY DEF Concludes
<1>12. FailuresReported'
  BY DEF FailuresReported, Forked
<1> QED
  BY <1>4, <1>5, <1>6, <1>7, <1>8, <1>9, <1>10, <1>11, <1>12

LEMMA ForkStep ==
  ASSUME IInv, NEW r \in Runs, NEW c \in Runs, Fork(r, c)
  PROVE  IInv'
<1> USE DEF IInv
<1>1. stage[r] = "stepping" /\ stage[c] = "unborn" /\ c # r /\ c # Root /\ queued[r]
  BY DEF Fork, Round, Rooted, Live
<1>2. PICK state \in Ticked :
        /\ stage' = [stage EXCEPT ![c] = "stepping", ![r] = After(r, state)]
        /\ outcome' = Concluded(r, state)
  BY DEF Fork
<1>3. /\ After(r, state) \in Stages \ {"unborn", "writing"}
      /\ r = Root => After(r, state) \in Live \cup {"over", "panicked"}
      /\ r # Root => After(r, state) \in {"stepping", "ended", "panicked"}
      /\ Verdict(state) \in Verdicts
  BY <1>2, Where DEF Ticked, States
<1>4. /\ stage' \in [Runs -> Stages]
      /\ stage'[r] = After(r, state) /\ stage'[c] = "stepping"
      /\ \A d \in Runs \ {r, c} : stage'[d] = stage[d]
  BY <1>1, <1>2, <1>3 DEF TypeOK, Stages
<1>5. /\ outcome' \in [Runs -> {"none"} \cup Verdicts]
      /\ \A d \in Runs \ {r} : outcome'[d] = outcome[d]
      /\ stage'[r] \in Stops /\ r # Root => outcome'[r] \in Verdicts
  BY <1>1, <1>2, <1>3, <1>4 DEF TypeOK, Concluded, Stops
<1>6. parent[c] = NoRun /\ c \notin noticed /\ mark[c] = "none" /\ child[r] = NoRun
  BY <1>1 DEF Forked, Pending
<1>7. \A d \in Runs : parent[d] # c /\ child[d] # c
  BY <1>1, <1>6, RunsAssumption DEF Forked, Tracked, Calling
<1>8. child[c] = NoRun
  BY <1>1, <1>7, RunsAssumption DEF Tracked, TypeOK
<1>9. depth' \in [Runs -> 0..MaxDepth]
  <2>1. depth[r] \in 0..MaxDepth /\ depth[r] + 1 <= MaxDepth
    BY DEF Fork, DeepEnough, TypeOK
  <2>2. depth[r] + 1 \in 0..MaxDepth
    BY <2>1, RunsAssumption
  <2> QED
    BY <2>2 DEF Fork, TypeOK
<1>10. TypeOK'
  BY <1>4, <1>5, <1>9, Counted DEF Fork, Round, TypeOK
<1> USE RunsAssumption, <1>1, <1>3, <1>4, <1>5, <1>6, <1>7, <1>8, <1>10
    DEF Fork, TypeOK, Live, Calling, Stops
<1>11. Rooted'
  BY DEF Rooted
<1>12. Forked'
  BY DEF Forked
<1>13. Tracked'
  BY DEF Tracked
<1>14. Waiting'
  BY DEF Waiting, Forked
<1>15. Files'
  BY DEF Files, Verdicts
<1>16. Pending'
  BY DEF Pending
<1>17. Concludes'
  BY DEF Concludes
<1>18. FailuresReported'
  BY DEF FailuresReported, Forked
<1> QED
  BY <1>10, <1>11, <1>12, <1>13, <1>14, <1>15, <1>16, <1>17, <1>18

LEMMA KeepWaitingStep ==
  ASSUME IInv, NEW r \in Runs, KeepWaiting(r)
  PROVE  IInv'
<1> USE DEF IInv
<1>1. stage[r] = "stepping" /\ child[r] \in Runs
  BY DEF KeepWaiting, Round, Waits, TypeOK
<1>2. PICK state \in Ticked : Return(r, state)
  BY DEF KeepWaiting
<1>3. /\ stage' \in [Runs -> Stages]
      /\ outcome' \in [Runs -> {"none"} \cup Verdicts]
      /\ \A c \in Runs \ {r} : stage'[c] = stage[c] /\ outcome'[c] = outcome[c]
      /\ r = Root => stage'[r] \in Live \cup {"over", "panicked"}
      /\ r # Root => stage'[r] \in {"stepping", "ended", "panicked"}
      /\ stage'[r] \in Stops /\ r # Root => outcome'[r] \in Verdicts
  BY <1>2, Returned DEF Ticked, States
<1>4. \/ /\ mark' = [mark EXCEPT ![child[r]] = "timeout"]
         /\ failed' = [failed EXCEPT ![r] = TRUE]
         /\ noticed' = noticed \cup {child[r]}
      \/ UNCHANGED <<mark, failed, noticed>>
  BY DEF KeepWaiting
<1>5. TypeOK'
  BY <1>1, <1>3, <1>4, Counted DEF KeepWaiting, Round, TypeOK
<1>6. parent[child[r]] = r /\ mark[child[r]] \in Calling
  BY <1>1, RunsAssumption DEF Tracked
<1>7. UNCHANGED <<depth, parent, queued, child, file, told, cancelled>>
  BY DEF KeepWaiting, Round
<1> USE RunsAssumption, <1>1, <1>3, <1>4, <1>5, <1>6, <1>7 DEF TypeOK, Live, Calling, Stops
<1>8. Rooted'
  BY DEF Rooted
<1>9. Forked'
  BY DEF Forked
<1>10. Tracked'
  BY DEF Tracked
<1>11. Waiting'
  BY DEF Waiting, Forked
<1>12. Files'
  BY DEF Files
<1>13. Pending'
  BY DEF Pending
<1>14. Concludes'
  BY DEF Concludes
<1>15. FailuresReported'
  BY DEF FailuresReported, Forked
<1> QED
  BY <1>5, <1>8, <1>9, <1>10, <1>11, <1>12, <1>13, <1>14, <1>15

(* A report that is taken is the sub-run's own, and the sub-run is over.   *)
LEMMA TakenReport ==
  ASSUME IInv, NEW r \in Runs, child[r] # NoRun, ~Waits(r)
  PROVE  /\ child[r] \in Runs \ {Root}
         /\ parent[child[r]] = r
         /\ mark[child[r]] \in Calling
         /\ file[child[r]] \in Verdicts
         /\ stage[child[r]] = "over"
         /\ file[child[r]] = outcome[child[r]]
<1> USE DEF IInv
<1>1. child[r] \in Runs /\ parent[child[r]] = r /\ mark[child[r]] \in Calling
  BY DEF Tracked, TypeOK
<1>2. child[r] # Root
  BY <1>1 DEF Rooted, Calling
<1>3. file[child[r]] \in Reported
  BY DEF Waits, HasReported
<1>4. file[child[r]] # "Cancelled"
  BY <1>1 DEF Files, Calling
<1>5. file[child[r]] \in Verdicts
  BY <1>3, <1>4 DEF Reported, Verdicts
<1> QED
  BY <1>1, <1>2, <1>5 DEF Files

LEMMA ReportFailureStep ==
  ASSUME IInv, NEW r \in Runs, ReportFailure(r)
  PROVE  IInv'
<1> USE DEF IInv
<1>1. "GraphInvalid" \in States /\ Return(r, "GraphInvalid") /\ stage[r] = "stepping"
  BY DEF ReportFailure, Round, States
<1>2. /\ stage' \in [Runs -> Stages]
      /\ outcome' \in [Runs -> {"none"} \cup Verdicts]
      /\ \A c \in Runs \ {r} : stage'[c] = stage[c] /\ outcome'[c] = outcome[c]
      /\ r = Root => stage'[r] \in Live \cup {"over", "panicked"}
      /\ r # Root => stage'[r] \in {"stepping", "ended", "panicked"}
      /\ stage'[r] \in Stops /\ r # Root => outcome'[r] \in Verdicts
  BY <1>1, Returned
<1>3. child[r] # NoRun
  BY <1>1 DEF ReportFailure, Failing, Takes, Pending, Live
<1>4. /\ child[r] \in Runs \ {Root}
      /\ parent[child[r]] = r
      /\ file[child[r]] \in Verdicts
  BY <1>3, TakenReport DEF ReportFailure
<1>5. mark' = [mark EXCEPT ![child[r]] = file[child[r]]]
  BY <1>3 DEF ReportFailure, Marked, Takes, Waits
<1>6. TypeOK'
  BY <1>2, <1>4, <1>5, Counted DEF ReportFailure, Round, DropHandle, TypeOK, Verdicts, Reported
<1>7. /\ UNCHANGED <<depth, parent, queued, file, cancelled>>
      /\ child' = [child EXCEPT ![r] = NoRun]
      /\ failed' = [failed EXCEPT ![r] = FALSE]
      /\ noticed' = noticed \cup {child[r]}
      /\ told' = told \cup {child[r]}
      /\ ~queued[r]
  BY DEF ReportFailure, Round, DropHandle
<1> USE RunsAssumption, <1>1, <1>2, <1>3, <1>4, <1>5, <1>6, <1>7
    DEF TypeOK, Live, Calling, Stops, Verdicts
<1>8. Rooted'
  BY DEF Rooted
<1>9. Forked'
  BY DEF Forked
<1>10. Tracked'
  BY DEF Tracked
<1>11. Waiting'
  BY DEF Waiting, Forked
<1>12. Files'
  BY DEF Files
<1>13. Pending'
  BY DEF Pending
<1>14. Concludes'
  BY DEF Concludes
<1>15. FailuresReported'
  BY DEF FailuresReported, Forked
<1> QED
  BY <1>6, <1>8, <1>9, <1>10, <1>11, <1>12, <1>13, <1>14, <1>15

LEMMA GoOnStep ==
  ASSUME IInv, NEW r \in Runs, NEW drilled \in BOOLEAN, NEW state \in States,
         GoOn(r, drilled, state)
  PROVE  IInv'
<1> USE DEF IInv
<1>1. Return(r, state) /\ stage[r] = "stepping" /\ ~failed[r]
  BY DEF GoOn, Round, Failing
<1>2. /\ stage' \in [Runs -> Stages]
      /\ outcome' \in [Runs -> {"none"} \cup Verdicts]
      /\ \A c \in Runs \ {r} : stage'[c] = stage[c] /\ outcome'[c] = outcome[c]
      /\ r = Root => stage'[r] \in Live \cup {"over", "panicked"}
      /\ r # Root => stage'[r] \in {"stepping", "ended", "panicked"}
      /\ stage'[r] \in Stops /\ r # Root => outcome'[r] \in Verdicts
  BY <1>1, Returned
<1>3. child[r] # NoRun =>
        /\ child[r] \in Runs \ {Root}
        /\ parent[child[r]] = r
        /\ file[child[r]] \in Verdicts
        /\ mark' = [mark EXCEPT ![child[r]] = file[child[r]]]
  <2>1. ASSUME child[r] # NoRun
        PROVE  /\ child[r] \in Runs \ {Root}
               /\ parent[child[r]] = r
               /\ file[child[r]] \in Verdicts
    BY <2>1, TakenReport DEF GoOn
  <2>2. child[r] # NoRun => mark' = [mark EXCEPT ![child[r]] = file[child[r]]]
    BY DEF GoOn, Marked, Takes, Waits
  <2> QED
    BY <2>1, <2>2
<1>4. child[r] = NoRun => mark' = mark
  BY DEF GoOn, Marked, Takes
<1>5. TypeOK'
  BY <1>2, <1>3, <1>4, Counted DEF GoOn, Round, DropHandle, TypeOK, Verdicts, Reported
<1>6. /\ UNCHANGED <<depth, parent, failed, file, noticed, told, cancelled>>
      /\ child' = [child EXCEPT ![r] = NoRun]
      /\ queued' = [queued EXCEPT ![r] = drilled]
  BY DEF GoOn, Round, DropHandle
<1> USE RunsAssumption, <1>1, <1>2, <1>3, <1>4, <1>5, <1>6
    DEF TypeOK, Live, Calling, Stops, Verdicts
<1>7. Rooted'
  BY DEF Rooted
<1>8. Forked'
  BY DEF Forked
<1>9. Tracked'
  BY DEF Tracked
<1>10. Waiting'
  BY DEF Waiting, Forked
<1>11. Files'
  BY DEF Files
<1>12. Pending'
  BY DEF Pending
<1>13. Concludes'
  BY DEF Concludes
<1>14. FailuresReported'
  BY DEF FailuresReported, Forked
<1> QED
  BY <1>5, <1>7, <1>8, <1>9, <1>10, <1>11, <1>12, <1>13, <1>14

(* A sub-run that has stopped writes its file, whatever it holds by then.  *)
LEMMA FinishStep ==
  ASSUME IInv, NEW c \in Runs, Finish(c)
  PROVE  IInv'
<1> USE RunsAssumption DEF IInv, TypeOK, Live, Calling, Stops, Verdicts, Reported, Stages
<1>1. c # Root
  BY DEF Finish, OpenRunJson, WriteRunJson, Rooted
<1>2. CASE OpenRunJson(c)
  <2> USE <1>1, <1>2 DEF OpenRunJson
  <2>1. TypeOK' /\ Rooted' /\ Files'
    BY DEF Rooted, Files
  <2>2. Forked' /\ Tracked' /\ Waiting'
    BY DEF Forked, Tracked, Waiting
  <2>3. Pending' /\ Concludes'
    BY DEF Pending, Concludes
  <2>4. FailuresReported'
    BY DEF FailuresReported, Forked
  <2> QED
    BY <2>1, <2>2, <2>3, <2>4
<1>3. CASE WriteRunJson(c)
  <2> USE <1>1, <1>3 DEF WriteRunJson
  <2>1. outcome[c] \in Verdicts
    BY DEF Concludes
  <2>2. TypeOK' /\ Rooted' /\ Files'
    BY <2>1 DEF Rooted, Files
  <2>3. Forked' /\ Tracked' /\ Waiting'
    BY DEF Forked, Tracked, Waiting
  <2>4. Pending' /\ Concludes'
    BY DEF Pending, Concludes
  <2>5. FailuresReported'
    BY DEF FailuresReported, Forked
  <2> QED
    BY <2>2, <2>3, <2>4, <2>5
<1> QED
  BY <1>2, <1>3 DEF Finish

LEMMA DriverStep ==
  ASSUME IInv, Driver
  PROVE  IInv'
<1> USE RunsAssumption DEF IInv, TypeOK, Live, Calling, Stops, Verdicts, Reported, Stages
<1>1. CASE Resume
  <2> USE <1>1 DEF Resume
  <2>1. TypeOK' /\ Rooted' /\ Files' /\ Forked' /\ Tracked'
    BY DEF Rooted, Files, Forked, Tracked
  <2>2. Waiting' /\ Pending' /\ Concludes'
    BY DEF Waiting, Pending, Concludes, Forked
  <2>3. FailuresReported'
    BY DEF FailuresReported, Forked
  <2> QED
    BY <2>1, <2>2, <2>3
<1>2. CASE CancelLoop
  BY <1>2 DEF CancelLoop, Rooted, Files, Forked, Tracked, Waiting, Pending, Concludes,
     FailuresReported
<1>3. CASE CancelRun
  <2> USE <1>3 DEF CancelRun
  <2>1. TypeOK' /\ Rooted' /\ Files' /\ Forked' /\ Tracked'
    BY DEF Rooted, Files, Forked, Tracked
  <2>2. Waiting' /\ Pending' /\ Concludes'
    BY DEF Waiting, Pending, Concludes, Forked
  <2>3. FailuresReported'
    BY DEF FailuresReported, Forked
  <2> QED
    BY <2>1, <2>2, <2>3
<1> QED
  BY <1>1, <1>2, <1>3 DEF Driver

LEMMA NextStep ==
  ASSUME IInv, [Next]_vars
  PROVE  IInv'
<1>1. ASSUME NEW r \in Runs, Step(r) PROVE IInv'
  BY <1>1, ExhaustStep, ObeyCancelStep, KeepWaitingStep, ReportFailureStep, ForkStep, GoOnStep
  DEF Step
<1>2. ASSUME NEW c \in Runs, Finish(c) PROVE IInv'
  BY <1>2, FinishStep
<1>3. ASSUME NEW c \in Runs, Age(c) PROVE IInv'
  BY <1>3 DEF Age, IInv, TypeOK, Rooted, Files, Forked, Tracked, Waiting, Pending, Concludes,
     FailuresReported
<1>4. CASE Driver
  BY <1>4, DriverStep
<1>5. CASE UNCHANGED vars
  BY <1>5 DEF vars, IInv, TypeOK, Rooted, Files, Forked, Tracked, Waiting, Pending, Concludes,
     FailuresReported
<1> QED
  BY <1>1, <1>2, <1>3, <1>4, <1>5 DEF Next

(* The inductive invariant.                                                *)
THEOREM Inductive == Spec => []IInv
<1>1. Init => IInv
  BY InitStep
<1>2. IInv /\ [Next]_vars => IInv'
  BY NextStep
<1> QED
  BY <1>1, <1>2, PTL DEF Spec

(* Types; no run lies deeper than max_drilldown_depth.                     *)
THEOREM TypeCorrect == Spec => []TypeOK
<1>1. IInv => TypeOK
  BY DEF IInv
<1> QED
  BY <1>1, Inductive, PTL

(* The failure of a sub-run, or its timeout, is reported by a parent that  *)
(* goes on, whatever the sub-run writes after it was noticed.              *)
THEOREM NoFailureLost == Spec => []FailuresReported
<1>1. IInv => FailuresReported
  BY DEF IInv
<1> QED
  BY <1>1, Inductive, PTL

----------------------------------------------------------------------------
(* The refinement.                                                         *)

answers == [c \in Runs |-> AnswerOf(c)]
takens  == [c \in Runs |-> TakenOf(c)]
callVars == <<parent, answers, takens>>

(* While a run is stepped nobody has an answer from it, and a step that    *)
(* returns gives none.                                                     *)
LEMMA AnswersKept ==
  ASSUME IInv, NEW r \in Runs, stage[r] = "stepping",
         stage'[r] \in Stages, r # Root => stage'[r] # "over",
         \A c \in Runs \ {r} :
           \/ stage'[c] = stage[c] /\ outcome'[c] = outcome[c]
           \/ stage[c] # "over" /\ stage'[c] # "over"
  PROVE  answers' = answers
<1>1. \A c \in Runs : AnswerOf(c)' = AnswerOf(c)
  BY DEF AnswerOf
<1> QED
  BY <1>1 DEF answers

LEMMA ReturnKeepsAnswers ==
  ASSUME IInv, NEW r \in Runs, stage[r] = "stepping", NEW state \in States, Return(r, state)
  PROVE  answers' = answers
<1>1. /\ stage' \in [Runs -> Stages]
      /\ \A c \in Runs \ {r} : stage'[c] = stage[c] /\ outcome'[c] = outcome[c]
      /\ r # Root => stage'[r] \in {"stepping", "ended", "panicked"}
  BY Returned DEF IInv
<1> QED
  BY <1>1, AnswersKept

(* A step that takes a report takes it as it was given.                    *)
LEMMA TakeSteps ==
  ASSUME IInv, NEW r \in Runs, stage[r] = "stepping", child[r] # NoRun, ~Waits(r),
         mark' = Marked(r), UNCHANGED parent, answers' = answers
  PROVE  Call!Take(child[r])
<1> DEFINE c == child[r]
<1>1. /\ c \in Runs \ {Root} /\ parent[c] = r /\ mark[c] \in Calling
      /\ file[c] \in Verdicts /\ stage[c] = "over" /\ file[c] = outcome[c]
  BY TakenReport
<1>2. mark' = [mark EXCEPT ![c] = file[c]]
  BY DEF Marked, Takes, Waits
<1>3. takens[c] = "waiting"
  BY <1>1 DEF takens, TakenOf, Calling
<1>4. answers[c] = file[c] /\ answers[c] # "none"
  BY <1>1 DEF answers, AnswerOf, Verdicts
<1>5. answers[parent[c]] = "none"
  BY <1>1 DEF answers, AnswerOf
<1>6. takens' = [takens EXCEPT ![c] = answers[c]]
  <2>1. \A d \in Runs : TakenOf(d)' = IF d = c THEN file[c] ELSE TakenOf(d)
    BY <1>1, <1>2 DEF TakenOf, IInv, TypeOK, Verdicts
  <2> QED
    BY <1>1, <1>4, <2>1 DEF takens
<1> HIDE DEF c
<1>7. Call!Take(c)
  BY <1>3, <1>4, <1>5, <1>6 DEF Call!Take, answers, takens
<1> QED
  BY <1>7 DEF c

LEMMA NoReportKeepsTakens ==
  ASSUME UNCHANGED mark
  PROVE  takens' = takens
BY DEF takens, TakenOf

LEMMA CallVars == Call!vars = callVars
BY DEF Call!vars, callVars, answers, takens

LEMMA ForkMakes ==
  ASSUME IInv, NEW r \in Runs, NEW c \in Runs, Fork(r, c)
  PROVE  Call!Make(r, c)
<1> USE DEF IInv
<1>1. /\ stage[r] = "stepping" /\ stage[c] = "unborn" /\ c # r /\ c # Root
      /\ child[r] = NoRun /\ parent[c] = NoRun /\ mark[c] = "none"
  BY DEF Fork, Round, Rooted, Live, Pending, Forked
<1>2. PICK state \in Ticked :
        /\ stage' = [stage EXCEPT ![c] = "stepping", ![r] = After(r, state)]
        /\ outcome' = Concluded(r, state)
  BY DEF Fork
<1>3. r # Root => After(r, state) # "over"
  BY <1>2, Where DEF Ticked, States
<1>4. \A d \in Runs : AnswerOf(d)' = AnswerOf(d)
  BY <1>1, <1>2, <1>3 DEF AnswerOf, Concluded, TypeOK
<1>5. answers' = answers
  BY <1>4 DEF answers
<1>6. parent' = [parent EXCEPT ![c] = r]
  BY DEF Fork
<1>7. takens' = [takens EXCEPT ![c] = "waiting"]
  <2>1. \A d \in Runs : TakenOf(d)' = IF d = c THEN "waiting" ELSE TakenOf(d)
    BY <1>1 DEF Fork, TakenOf, TypeOK
  <2> QED
    BY <2>1 DEF takens
<1>8. r = Root \/ parent[r] # NoRun
  BY <1>1 DEF Forked
<1>9. answers[r] = "none"
  BY <1>1 DEF answers, AnswerOf
<1>10. ~Call!Open(r)
  <2>1. SUFFICES ASSUME NEW d \in Runs, parent[d] = r, takens[d] = "waiting" PROVE FALSE
    BY DEF Call!Open, takens
  <2>2. mark[d] \in Calling
    BY <2>1 DEF takens, TakenOf, Calling, TypeOK, Reported
  <2>3. child[r] = d
    BY <1>1, <2>1, <2>2 DEF Waiting, Live
  <2> QED
    BY <1>1, <2>3, RunsAssumption
<1> QED
  BY <1>1, <1>5, <1>6, <1>7, <1>8, <1>9, <1>10 DEF Call!Make, answers, takens

LEMMA CancelCancels ==
  ASSUME IInv, NEW r \in Runs, ObeyCancel(r)
  PROVE  UNCHANGED callVars \/ \E c \in Runs : Call!Cancel(c)
<1> USE DEF IInv
<1>1. stage[r] = "stepping" /\ "Error" \in States /\ Return(r, "Error") /\ UNCHANGED parent
  BY DEF ObeyCancel, Round, States
<1>2. answers' = answers
  BY <1>1, ReturnKeepsAnswers
<1>3. CASE child[r] = NoRun
  <2>1. mark' = mark
    BY <1>3, RunsAssumption DEF ObeyCancel, TypeOK
  <2> QED
    BY <1>1, <1>2, <2>1, NoReportKeepsTakens DEF callVars
<1>4. CASE child[r] # NoRun
  <2>1. child[r] \in Runs /\ mark[child[r]] \in Calling
    BY <1>4 DEF Tracked, TypeOK
  <2>2. takens[child[r]] = "waiting"
    BY <2>1 DEF takens, TakenOf, Calling
  <2>3. takens' = [takens EXCEPT ![child[r]] = "Cancelled"]
    <3>1. \A d \in Runs : TakenOf(d)' = IF d = child[r] THEN "Cancelled" ELSE TakenOf(d)
      BY <2>1 DEF ObeyCancel, TakenOf
    <3> QED
      BY <2>1, <3>1 DEF takens
  <2>4. Call!Cancel(child[r])
    BY <1>1, <1>2, <2>2, <2>3 DEF Call!Cancel, answers, takens
  <2> QED
    BY <2>1, <2>4
<1> QED
  BY <1>3, <1>4

LEMMA WaitingCallsNothing ==
  ASSUME IInv, NEW r \in Runs, KeepWaiting(r)
  PROVE  UNCHANGED callVars
<1> USE DEF IInv
<1>1. PICK state \in Ticked : Return(r, state)
  BY DEF KeepWaiting
<1>2. answers' = answers
  BY <1>1, ReturnKeepsAnswers DEF KeepWaiting, Round, Ticked, States
<1>3. child[r] \in Runs /\ mark[child[r]] \in Calling
  BY DEF KeepWaiting, Waits, Tracked, TypeOK
<1>4. \A d \in Runs : TakenOf(d)' = TakenOf(d)
  BY <1>3 DEF KeepWaiting, TakenOf, TypeOK, Calling
<1> QED
  BY <1>2, <1>4 DEF callVars, takens, KeepWaiting

LEMMA FinishGives ==
  ASSUME IInv, NEW c \in Runs, Finish(c)
  PROVE  UNCHANGED callVars \/ \E v \in Call!Answers : Call!Give(c, v)
<1> USE DEF IInv
<1>1. c # Root
  BY DEF Finish, OpenRunJson, WriteRunJson, Rooted, Live
<1>2. takens' = takens /\ UNCHANGED parent
  BY NoReportKeepsTakens DEF Finish, OpenRunJson, WriteRunJson
<1>3. CASE OpenRunJson(c)
  <2>1. \A d \in Runs : AnswerOf(d)' = AnswerOf(d)
    BY <1>3 DEF OpenRunJson, AnswerOf, TypeOK
  <2> QED
    BY <1>2, <2>1 DEF callVars, answers
<1>4. CASE WriteRunJson(c)
  <2>1. outcome[c] \in Call!Answers
    BY <1>1, <1>4 DEF WriteRunJson, Concludes, Stops, Verdicts, Call!Answers
  <2>2. answers[c] = "none" /\ parent[c] # NoRun
    BY <1>1, <1>4 DEF WriteRunJson, answers, AnswerOf, Forked
  <2>3. answers' = [answers EXCEPT ![c] = outcome[c]]
    <3>1. \A d \in Runs : AnswerOf(d)' = IF d = c THEN outcome[c] ELSE AnswerOf(d)
      BY <1>1, <1>4 DEF WriteRunJson, AnswerOf, TypeOK
    <3> QED
      BY <3>1 DEF answers
  <2>4. Call!Give(c, outcome[c])
    BY <1>2, <2>2, <2>3 DEF Call!Give, answers, takens
  <2> QED
    BY <2>1, <2>4
<1> QED
  BY <1>3, <1>4 DEF Finish

LEMMA StepCalls ==
  ASSUME IInv, NEW r \in Runs, Step(r)
  PROVE  [Call!Next]_callVars
<1>1. ASSUME Exhaust(r) PROVE UNCHANGED callVars
  <2>1. answers' = answers
    BY <1>1, ReturnKeepsAnswers DEF Exhaust, States
  <2> QED
    BY <1>1, <2>1, NoReportKeepsTakens DEF Exhaust, callVars
<1>2. CASE ObeyCancel(r)
  BY <1>2, CancelCancels DEF Call!Next
<1>3. CASE KeepWaiting(r)
  BY <1>3, WaitingCallsNothing
<1>4. ASSUME NEW c \in Runs, Fork(r, c) PROVE Call!Next
  BY <1>4, ForkMakes DEF Call!Next
<1>5. ASSUME stage[r] = "stepping", NEW state \in States, Return(r, state), ~Waits(r),
             mark' = Marked(r), UNCHANGED parent
      PROVE  [Call!Next]_callVars
  <2>1. answers' = answers
    BY <1>5, ReturnKeepsAnswers
  <2>2. CASE child[r] = NoRun
    <3>1. mark' = mark
      BY <1>5, <2>2 DEF Marked, Takes
    <3> QED
      BY <1>5, <2>1, <3>1, NoReportKeepsTakens DEF callVars
  <2>3. CASE child[r] # NoRun
    <3>1. child[r] \in Runs
      BY <2>3 DEF IInv, TypeOK
    <3>2. Call!Take(child[r])
      BY <1>5, <2>1, <2>3, TakeSteps
    <3> QED
      BY <3>1, <3>2 DEF Call!Next
  <2> QED
    BY <2>2, <2>3
<1>6. CASE ReportFailure(r)
  BY <1>5, <1>6 DEF ReportFailure, Round, States
<1>7. ASSUME NEW drilled \in BOOLEAN, NEW state \in States, GoOn(r, drilled, state)
      PROVE  [Call!Next]_callVars
  BY <1>5, <1>7 DEF GoOn, Round
<1> QED
  BY <1>1, <1>2, <1>3, <1>4, <1>6, <1>7 DEF Step

LEMMA RestCallsNothing ==
  ASSUME IInv, Driver \/ (\E c \in Runs : Age(c)) \/ UNCHANGED vars
  PROVE  UNCHANGED callVars
<1>1. UNCHANGED <<parent, mark>>
  BY DEF Driver, Resume, CancelLoop, CancelRun, Age, vars
<1>2. \A d \in Runs : AnswerOf(d)' = AnswerOf(d)
  BY DEF Driver, Resume, CancelLoop, CancelRun, Age, vars, AnswerOf, IInv, TypeOK
<1> QED
  BY <1>1, <1>2, NoReportKeepsTakens DEF callVars, answers

(* Drill-down through run.json implements an asynchronous call: an answer  *)
(* is taken once, as the sub-run gave it, and only after the sub-run was   *)
(* over, though the parent's cancellation writes into the same file and a  *)
(* poll may find it half written.                                          *)
THEOREM Implements == Spec => IsACall
<1>1. Init => Call!Init
  <2> SUFFICES ASSUME Init PROVE Call!Init
    OBVIOUS
  <2>1. \A c \in Runs : AnswerOf(c) = "none" /\ TakenOf(c) = "none"
    BY DEF Init, AnswerOf, TakenOf
  <2> QED
    BY <2>1 DEF Init, Call!Init
<1>2. IInv /\ [Next]_vars => [Call!Next]_(Call!vars)
  <2> SUFFICES ASSUME IInv, [Next]_vars PROVE [Call!Next]_callVars
    BY CallVars DEF callVars, Call!vars, answers, takens
  <2>1. ASSUME NEW r \in Runs, Step(r) PROVE [Call!Next]_callVars
    BY <2>1, StepCalls
  <2>2. ASSUME NEW c \in Runs, Finish(c) PROVE [Call!Next]_callVars
    BY <2>2, FinishGives DEF Call!Next
  <2>3. ASSUME Driver \/ (\E c \in Runs : Age(c)) \/ UNCHANGED vars
        PROVE  [Call!Next]_callVars
    BY <2>3, RestCallsNothing
  <2> QED
    BY <2>1, <2>2, <2>3 DEF Next
<1> QED
  BY <1>1, <1>2, Inductive, PTL DEF Spec, IsACall, Call!Spec
============================================================================
