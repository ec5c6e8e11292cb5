---------------------------- MODULE MCTaskPhase -----------------------------
(* The two components that plan: a task graph from a verified world graph, *)
(* and the world graph again when the tasks blame it, checked in one run.  *)
(* They share no state, so each behaviour moves one of them, chosen at its *)
(* start, and the other rests where it begins.                             *)
EXTENDS MCReplan, MCTaskGraph

VARIABLE component

ReplanRests ==
  Init /\ \A g \in MCSeeds : Cardinality(links) <= Cardinality(g.links)

(* Nothing more to be done. *)
PlanRests ==
  /\ where = "poisoned" /\ source = "none" /\ plan = NoTasks /\ work = NoTasks
  /\ level = 0 /\ todo = {} /\ started = {} /\ finished = {}

PhaseInit ==
  \/ component = "replan" /\ Init /\ PlanRests
  \/ component = "plan" /\ PlanInit /\ ReplanRests

PhaseNext ==
  \/ component = "replan" /\ Next /\ UNCHANGED <<component, planning>>
  \/ component = "plan" /\ PlanNext /\ UNCHANGED <<component, vars>>

(* Where either rests none of its fair actions is enabled. *)
PhaseSpec ==
  /\ PhaseInit /\ [][PhaseNext]_<<component, vars, planning>>
  /\ Fairness /\ PlanFairness
============================================================================
