---------------------------- MODULE MCGraphData -----------------------------
(* The data a run works with, checked in one run: the world graph, the     *)
(* window a model has on it, and the skills.  They share no state, so each *)
(* behaviour moves one of them, chosen at its start, and the others rest.  *)
EXTENDS MCWorldGraph, MCContextWindow, MCSkillStore

VARIABLE component

WindowRests ==
  WindowInit /\ who = "subagent" /\ vertices = {} /\ arrows = {} /\ focus = {}
    /\ source = [n \in Ids |-> Text(TRUE, 9, TRUE, 5)]

SkillsRest == SkillInit /\ \A r \in Roots : trigger[r] = "absent"

DataInit ==
  /\ Init
  /\ \/ component = "graph" /\ WindowRests /\ SkillsRest
     \/ component = "window" /\ WindowInit /\ SkillsRest
     \/ component = "skills" /\ WindowRests /\ SkillInit

DataNext ==
  \/ component = "graph" /\ Next /\ UNCHANGED <<component, window, store>>
  \/ component = "window" /\ WindowNext /\ UNCHANGED <<component, vars, store>>
  \/ component = "skills" /\ SkillNext /\ UNCHANGED <<component, vars, window>>

DataSpec == DataInit /\ [][DataNext]_<<component, vars, window, store>>
============================================================================
