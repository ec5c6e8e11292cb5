----------------------------- MODULE MCGateway ------------------------------
(* The two components of the web gateway, checked in one run.  They share  *)
(* no state, so each behaviour moves one of them, chosen at its start, and *)
(* the other rests where it begins.                                        *)
(*                                                                         *)
(* The session: a client that may send any number of answers, one by one;  *)
(* two questions of each kind, so that what is left over from the first    *)
(* can meet the second; one restart.  The heartbeat: two that may be       *)
(* started at the same time.                                               *)
EXTENDS RunSession, Heartbeat

VARIABLE component

GatewayInit ==
  /\ SessionInit /\ BeatInit
  /\ component \in {"session", "heartbeat"}

GatewayNext ==
  \/ component = "session" /\ SessionNext /\ UNCHANGED <<component, beat>>
  \/ component = "heartbeat" /\ BeatNext /\ UNCHANGED <<component, sessionVars>>

(* The fairness of both, each while it is the one that moves.              *)
Session(act) == component = "session" /\ act
Beat(act) == component = "heartbeat" /\ act

GatewayFairness ==
  /\ WF_sessionVars(Session(Drive))
  /\ WF_sessionVars(Session(DeleteFromMap \/ DeleteFiles \/ ClearFilesAndMap))
  /\ \A c \in Clients :
       WF_sessionVars(Session(Store(c) \/ NotifyWaiter(c) \/ NotifyNobody(c)))
  /\ \A t \in Tasks : WF_beat(Beat(StartSpawn(t) \/ StartPublish(t)))
  /\ WF_beat(Beat(\E r \in DOMAIN runs : Count(r) \/ CountNothing(r) \/ Signal(r)))
  /\ WF_beat(Beat(Drained)) /\ WF_beat(Beat(Relaunch))

GatewaySpec ==
  GatewayInit /\ [][GatewayNext]_<<component, sessionVars, beat>> /\ GatewayFairness
============================================================================
