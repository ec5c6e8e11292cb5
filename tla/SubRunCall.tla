----------------------------- MODULE SubRunCall -----------------------------
(***************************************************************************)
(* What drill-down promises, without files, clocks or loops: a sub-run is  *)
(* an asynchronous call.                                                   *)
(*                                                                         *)
(*   - a run has one call open at a time, and makes none once it has       *)
(*     answered its own caller;                                            *)
(*   - a call is answered once, and never before it was made;              *)
(*   - a caller takes an answer once, as it was given, and only after it   *)
(*     was given; or it cancels the call and takes nothing.                *)
(*                                                                         *)
(* DrillDown implements it (DrillDown!Call, DrillDownProofs!Implements).   *)
(***************************************************************************)
CONSTANTS Runs, Root, NoRun

VARIABLES
  caller,   (* who made the call a run serves, NoRun before it is made *)
  answer,   (* what the run answered                                  *)
  taken     (* what became of the call on the caller's side           *)

vars == <<caller, answer, taken>>

Answers == {"Done", "Error"}

Init ==
  /\ caller = [c \in Runs |-> NoRun]
  /\ answer = [c \in Runs |-> "none"]
  /\ taken = [c \in Runs |-> "none"]

Open(r) == \E d \in Runs : caller[d] = r /\ taken[d] = "waiting"

Make(r, c) ==
  /\ r = Root \/ caller[r] # NoRun
  /\ c # Root /\ c # r /\ caller[c] = NoRun
  /\ answer[r] = "none" /\ ~Open(r)
  /\ caller' = [caller EXCEPT ![c] = r]
  /\ taken' = [taken EXCEPT ![c] = "waiting"]
  /\ UNCHANGED answer

Give(c, v) ==
  /\ caller[c] # NoRun /\ answer[c] = "none"
  /\ answer' = [answer EXCEPT ![c] = v]
  /\ UNCHANGED <<caller, taken>>

Take(c) ==
  /\ taken[c] = "waiting" /\ answer[c] # "none"
  /\ answer[caller[c]] = "none"
  /\ taken' = [taken EXCEPT ![c] = answer[c]]
  /\ UNCHANGED <<caller, answer>>

Cancel(c) ==
  /\ taken[c] = "waiting"
  /\ taken' = [taken EXCEPT ![c] = "Cancelled"]
  /\ UNCHANGED <<caller, answer>>

Next ==
  \E c \in Runs :
    \/ \E r \in Runs : Make(r, c)
    \/ \E v \in Answers : Give(c, v)
    \/ Take(c)
    \/ Cancel(c)

Spec == Init /\ [][Next]_vars
============================================================================
