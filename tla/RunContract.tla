---------------------------- MODULE RunContract ----------------------------
(***************************************************************************)
(* What a run promises its caller, without any of the machinery: which     *)
(* phase it is in, whether the graph in hand has been cleared for          *)
(* execution since it last changed, and in whose hands the run is.         *)
(*                                                                         *)
(*   - only a cleared graph is executed, reviewed or reported as done;     *)
(*   - a graph is cleared by verification, or by a caller who insists;     *)
(*   - a run handed over for repair comes back through the Graph phase;    *)
(*   - a run that is over stays over.                                      *)
(*                                                                         *)
(* GraphLoop implements it (GraphLoop!Contract, GraphLoopProofs!Implements).    *)
(***************************************************************************)

VARIABLES stage, cleared, hands

vars == <<stage, cleared, hands>>

Stage == {"Graph", "Task", "Review", "Done", "Poisoned"}
Hands == {"loop", "user", "repair", "over"}

Init == stage = "Graph" /\ cleared = FALSE /\ hands = "loop"

(* A round of the Graph phase: the graph may change, which uncovers it.    *)
Build ==
  /\ hands = "loop" /\ stage = "Graph"
  /\ stage' = "Graph"
  /\ hands' \in Hands
  /\ cleared' \in {cleared, FALSE}

(* Verification passes, possibly after repairs.                            *)
Clear ==
  /\ hands = "loop" /\ stage = "Graph"
  /\ stage' = "Task" /\ cleared' = TRUE
  /\ UNCHANGED hands

Execute ==
  /\ hands = "loop" /\ stage = "Task" /\ cleared
  /\ \/ stage' = "Review" /\ hands' = "loop"
     \/ stage' = "Done" /\ hands' = "over"
  /\ UNCHANGED cleared

(* Execution failed: the graph may be redesigned, in as many steps as it   *)
(* takes, and is then verified again, or handed over.                      *)
Redesign ==
  /\ hands = "loop" /\ stage = "Task"
  /\ \/ stage' = "Graph" /\ hands' = "loop"
     \/ stage' = "Task" /\ hands' \in {"loop", "repair", "over"}
  /\ cleared' \in {cleared, FALSE}

Judge ==
  /\ hands = "loop" /\ stage = "Review" /\ cleared
  /\ \/ stage' = "Done" /\ hands' = "over"
     \/ UNCHANGED stage /\ hands' = "repair"
  /\ UNCHANGED cleared

(* The run fails, or the loop is gone with the task that stepped it.       *)
Fail ==
  /\ hands = "loop"
  /\ stage' \in {stage, "Poisoned"} /\ hands' = "over"
  /\ cleared' \in BOOLEAN

Answer == hands = "user" /\ hands' = "loop" /\ UNCHANGED <<stage, cleared>>

Repair ==
  /\ hands = "repair" /\ hands' = "loop"
  /\ stage' = "Graph" /\ cleared' = FALSE

Override ==
  /\ hands = "repair" /\ hands' = "loop"
  /\ cleared' = TRUE /\ UNCHANGED stage

Next == Build \/ Clear \/ Execute \/ Redesign \/ Judge \/ Fail
          \/ Answer \/ Repair \/ Override

Spec == Init /\ [][Next]_vars
============================================================================
