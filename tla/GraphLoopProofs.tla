--------------------------- MODULE GraphLoopProofs ---------------------------
(***************************************************************************)
(* The loop keeps its invariants, freezes the graph while a sub-run is in  *)
(* flight and implements RunContract, for every set of profiles and every  *)
(* limit.                                                                  *)
(*                                                                         *)
(* At the end, TaskGraph, the planning of the Task phase: what is under    *)
(* work at a level is the plan and the expansions that were accepted; a    *)
(* reply that failed leaves no node.                                       *)
(***************************************************************************)
EXTENDS GraphLoop, TaskGraph, TLAPS

(* What makes the invariants inductive: a phase that executes or reviews   *)
(* runs only on a cleared graph unless it is being redesigned, which it is *)
(* in the Task phase alone, a detector that reached its limit has stopped  *)
(* the run, and no sub-run is left behind when the graph is handed over    *)
(* for repair.                                                             *)
ClearedToRun ==
  surfaced \in {"Running", "Paused"} /\ phase \in {"Task", "Review"} /\ blamed = 0
    => cleared

RedesignsInTask == blamed > 0 => surfaced = "Running" /\ phase = "Task"

DetectorsArmed ==
  surfaced # "Error" => /\ watch.count < StagnationTerminate
                        /\ streak.repeats < StuckTerminate

RepairedAtRest == surfaced = "GraphInvalid" => drill = NoDrill

IInv == /\ TypeOK /\ SurfacedMatchesLoop /\ OneSubRunAtATime
        /\ ClearedToRun /\ RedesignsInTask /\ DetectorsArmed /\ RepairedAtRest

LEMMA LimitsArePositive ==
  /\ \A limit \in {SeedingStallLimit, ForceSearchAfter, ExpandAt,
                   StagnationTerminate, StuckTerminate, ToolFailureHalt} :
       limit \in Nat /\ limit > 0
  /\ MaxNodes \in Nat /\ MaxNodes >= 2 /\ MaxRounds \in Nat
  /\ ClarificationMax \in Nat /\ ExploreMax \in Nat
  <1>1. ASSUME NEW n \in Nat \ {0} PROVE n \in Nat /\ n > 0
    OBVIOUS
  <1>2. \A limit \in {SeedingStallLimit, ForceSearchAfter, ExpandAt,
                      StagnationTerminate, StuckTerminate, ToolFailureHalt} :
          limit \in Nat \ {0}
    BY LimitsAssumption, Zenon
  <1>3. QED BY <1>1, <1>2, LimitsAssumption, Zenon

(* Whatever the fingerprint says, a round that ran on is Running in the    *)
(* phase it chose, or was stopped for stagnation.                          *)
LEMMA RunOnReturns ==
  ASSUME TypeOK, DetectorsArmed, surfaced = "Running",
         NEW ph, RunOn(ph), graph' \in Graphs
  PROVE  /\ watch' \in Watches
         /\ \/ /\ surfaced' = "Running" /\ phase' = ph
               /\ watch'.count < StagnationTerminate
            \/ surfaced' = "Error" /\ phase' = "Poisoned"
  <1>1. Fingerprint(graph') \in (0..MaxNodes) \X Forms
    BY DEF Graphs, Fingerprint
  <1>2. /\ StagnationTerminate \in Nat /\ StagnationTerminate > 0
        /\ watch \in Watches /\ watch.count < StagnationTerminate
    BY LimitsArePositive DEF TypeOK, DetectorsArmed
  <1>3. CASE Fingerprint(graph') \in watch.last
    <2>1. watch.count \in Nat /\ watch.count + 1 \in 0..StagnationTerminate
      BY <1>2 DEF Watches
    <2>2. [watch EXCEPT !.count = watch.count + 1] \in Watches
      BY <1>2, <2>1 DEF Watches
    <2>3. [watch EXCEPT !.count = 0] \in Watches
      BY <1>2 DEF Watches
    <2>4. Stagnating(ph)
      BY <1>3 DEF RunOn
    <2>5. CASE /\ watch.count + 1 < StagnationTerminate
               /\ watch' = [watch EXCEPT !.count = watch.count + 1]
               /\ surfaced' = "Running" /\ phase' = ph
      BY <1>2, <2>2, <2>5 DEF Watches
    <2>6. CASE /\ watch' = [watch EXCEPT !.count = 0]
               /\ surfaced' = "Running" /\ phase' = ph
      BY <1>2, <2>3, <2>6 DEF Watches
    <2>7. CASE /\ watch' = [watch EXCEPT !.count = watch.count + 1]
               /\ surfaced' = "Error" /\ phase' = "Poisoned"
      BY <2>2, <2>7
    <2>8. QED BY <2>4, <2>5, <2>6, <2>7, Zenon DEF Stagnating
  <1>4. CASE Fingerprint(graph') \notin watch.last
    BY <1>1, <1>2, <1>4 DEF RunOn, Watches
  <1>5. QED BY <1>3, <1>4

(* The counters stay under their limits on the way to the proposer.        *)
LEMMA CountersStayTyped ==
  ASSUME TypeOK, Asked
  PROVE  /\ Counted \in Streaks
         /\ Counted.repeats = streak.repeats
         /\ ~FillingStall => /\ CountedFilling \in Streaks
                             /\ CountedFilling.repeats = streak.repeats
                             /\ CountedFilling.output = streak.output
                             /\ CountedFilling.asked = streak.asked
                             /\ CountedFilling.failures = streak.failures
  <1>1. /\ streak \in Streaks
        /\ SeedingStallLimit \in Nat /\ ForceSearchAfter \in Nat
    BY LimitsArePositive DEF TypeOK
  <1>2. Counted \in Streaks /\ Counted.repeats = streak.repeats
    BY <1>1 DEF Counted, Streaks, Asked
  <1>3. /\ Counted.filling = streak.filling /\ Counted.output = streak.output
        /\ Counted.asked = streak.asked /\ Counted.failures = streak.failures
    BY <1>1 DEF Counted, Streaks
  <1>4. ASSUME ~FillingStall
        PROVE  /\ CountedFilling \in Streaks
               /\ CountedFilling.repeats = streak.repeats
               /\ CountedFilling.output = streak.output
               /\ CountedFilling.asked = streak.asked
               /\ CountedFilling.failures = streak.failures
    BY <1>1, <1>2, <1>3, <1>4 DEF CountedFilling, FillingStall, Streaks
  <1>5. QED BY <1>2, <1>4

LEMMA ResetsStayTyped ==
  ASSUME NEW s \in Streaks
  PROVE  /\ Unstuck(s) \in Streaks /\ Unstuck(s).repeats = 0
         /\ Desaturated(s) \in Streaks /\ Desaturated(s).repeats = s.repeats
  <1>1. StuckTerminate \in Nat /\ StuckTerminate > 0
    BY LimitsArePositive
  <1>2. ClarificationMax \in Nat /\ ExploreMax \in Nat
    BY LimitsArePositive
  <1>3. 0 \in 0..StuckTerminate /\ 0 \in 0..ClarificationMax /\ 0 \in 0..ExploreMax
    BY <1>1, <1>2
  <1>4. {} \in SUBSET Outputs
    OBVIOUS
  <1>5. [s EXCEPT !.output = {}] \in Streaks
    BY <1>4 DEF Streaks
  <1>6. Unstuck(s) \in Streaks /\ Unstuck(s).repeats = 0
    BY <1>3, <1>5 DEF Unstuck, Streaks
  <1>7. [s EXCEPT !.asked = 0] \in Streaks
    BY <1>3 DEF Streaks
  <1>8. Desaturated(s) \in Streaks /\ Desaturated(s).repeats = s.repeats
    BY <1>3, <1>7 DEF Desaturated, Streaks
  <1>9. QED BY <1>6, <1>8

----------------------------------------------------------------------------
(* Every action that is a round ends in one of two ways, and each way      *)
(* keeps IInv for the same reasons.                                        *)

(* The step() that was called returns.                                     *)
Returning ==
  /\ surfaced = "Running" /\ blamed' = 0
  /\ UNCHANGED <<config, cancelled>> /\ round' \in 0..MaxRounds

LEMMA RoundIsPaid ==
  ASSUME IInv, NEW ph, Round(ph)
  PROVE  /\ Returning /\ config' = config /\ config' \in Profiles
         /\ round' \in 0..MaxRounds
         /\ cancelled' = cancelled /\ cancelled' \in BOOLEAN
         /\ surfaced = "Running" /\ phase = ph /\ pending = "none"
         /\ watch \in Watches /\ watch.count < StagnationTerminate
         /\ streak \in Streaks /\ streak.repeats < StuckTerminate
         /\ graph \in Graphs /\ graphPhase \in GraphPhase /\ cleared \in BOOLEAN
         /\ drill \in Drills /\ drill.queued + drill.running <= 1
  <1>1. MaxRounds \in Nat /\ round \in 0..MaxRounds
    BY LimitsArePositive DEF IInv, TypeOK
  <1>2. round' \in 0..MaxRounds
    BY <1>1 DEF Round, Paid
  <1>3. /\ config' = config /\ cancelled' = cancelled /\ surfaced = "Running"
        /\ phase = ph /\ blamed = 0 /\ blamed' = 0
    BY DEF Round, Paid
  <1>4. pending = "none"
    BY <1>3 DEF IInv, TypeOK, SurfacedMatchesLoop
  <1>5. watch.count < StagnationTerminate /\ streak.repeats < StuckTerminate
    BY <1>3 DEF IInv, DetectorsArmed
  <1>6. /\ config \in Profiles /\ cancelled \in BOOLEAN /\ cleared \in BOOLEAN
        /\ watch \in Watches /\ streak \in Streaks /\ drill \in Drills
        /\ graph \in Graphs /\ graphPhase \in GraphPhase
    BY DEF IInv, TypeOK
  <1>7. drill.queued + drill.running <= 1
    BY DEF IInv, OneSubRunAtATime
  <1>8. QED BY <1>2, <1>3, <1>4, <1>5, <1>6, <1>7 DEF Returning

LEMMA RunningState ==
  ASSUME IInv, Returning
  PROVE  /\ config' \in Profiles /\ round' \in 0..MaxRounds
         /\ cancelled' = cancelled /\ cancelled' \in BOOLEAN
         /\ pending = "none" /\ blamed' = 0 /\ blamed' \in 0..MaxNodes
         /\ watch \in Watches /\ watch.count < StagnationTerminate
  <1>1. /\ config' = config /\ cancelled' = cancelled /\ surfaced = "Running"
        /\ round' \in 0..MaxRounds /\ blamed' = 0
    BY DEF Returning
  <1>2. pending = "none"
    BY <1>1 DEF IInv, TypeOK, SurfacedMatchesLoop
  <1>3. watch.count < StagnationTerminate
    BY <1>1 DEF IInv, DetectorsArmed
  <1>4. config \in Profiles /\ cancelled \in BOOLEAN /\ watch \in Watches
    BY DEF IInv, TypeOK
  <1>5. 0 \in 0..MaxNodes
    BY LimitsArePositive
  <1>6. QED BY <1>1, <1>2, <1>3, <1>4, <1>5

(* A round that goes on: it may be stopped for stagnation, which asks      *)
(* nothing of the action.                                                  *)
LEMMA GoingOnKeepsIInv ==
  ASSUME IInv, Returning,
         NEW to \in {"Graph", "Task", "Review"}, RunOn(to),
         graph' \in Graphs, cleared' \in BOOLEAN, graphPhase' \in GraphPhase,
         UNCHANGED pending,
         streak' \in Streaks, streak'.repeats < StuckTerminate,
         drill' \in Drills, drill'.queued + drill'.running <= 1,
         to # "Graph" => cleared' /\ drill' = NoDrill
  PROVE  IInv'
  <1>1. /\ watch' \in Watches
        /\ \/ /\ surfaced' = "Running" /\ phase' = to
              /\ watch'.count < StagnationTerminate
           \/ surfaced' = "Error" /\ phase' = "Poisoned"
    BY RunOnReturns DEF IInv, Returning
  <1>2. /\ config' \in Profiles /\ round' \in 0..MaxRounds
        /\ cancelled' \in BOOLEAN /\ pending' = "none"
        /\ blamed' = 0 /\ blamed' \in 0..MaxNodes
    BY RunningState
  <1>3. TypeOK'
    BY <1>1, <1>2 DEF TypeOK, Phase, Surfaced, Final
  <1>4. SurfacedMatchesLoop'
    BY <1>1, <1>2 DEF SurfacedMatchesLoop
  <1>5. OneSubRunAtATime'
    BY <1>1 DEF OneSubRunAtATime, NoDrill
  <1>6. ClearedToRun' /\ RedesignsInTask' /\ DetectorsArmed' /\ RepairedAtRest'
    BY <1>1, <1>2 DEF ClearedToRun, RedesignsInTask, DetectorsArmed, RepairedAtRest
  <1>7. QED BY <1>3, <1>4, <1>5, <1>6 DEF IInv

(* A round that stops: what it tells the driver must agree with what it    *)
(* leaves in the loop.                                                     *)
LEMMA StoppingKeepsIInv ==
  ASSUME IInv, Returning,
         NEW state \in Surfaced \ {"Running"}, NEW to \in Phase, Stop(state, to),
         graph' \in Graphs, cleared' \in BOOLEAN, graphPhase' \in GraphPhase,
         pending' \in {"none", "answer", "repair"},
         state = "GraphInvalid" <=> pending' = "repair",
         pending' = "answer" => state = "Paused",
         state = "Done" <=> to = "Done",
         to = "Poisoned" => state = "Error",
         state = "Error" /\ to # "Poisoned" => cancelled,
         state = "Paused" => to = "Graph",
         streak' \in Streaks,
         state # "Error" => streak'.repeats < StuckTerminate,
         drill' \in Drills, drill'.queued + drill'.running <= 1,
         state = "GraphInvalid" \/ to \in {"Task", "Review", "Done"}
           => drill' = NoDrill
  PROVE  IInv'
  <1>1. surfaced' = state /\ phase' = to /\ watch' = watch
    BY DEF Stop, GiveUp
  <1>2. /\ config' \in Profiles /\ round' \in 0..MaxRounds
        /\ cancelled' \in BOOLEAN /\ cancelled' = cancelled
        /\ watch \in Watches /\ watch.count < StagnationTerminate
        /\ blamed' = 0 /\ blamed' \in 0..MaxNodes
    BY RunningState
  <1>3. TypeOK'
    BY <1>1, <1>2 DEF TypeOK
  <1>4. SurfacedMatchesLoop'
    BY <1>1, <1>2 DEF SurfacedMatchesLoop
  <1>5. OneSubRunAtATime'
    BY <1>1 DEF OneSubRunAtATime, NoDrill
  <1>6. ClearedToRun' /\ RedesignsInTask' /\ DetectorsArmed' /\ RepairedAtRest'
    BY <1>1, <1>2 DEF ClearedToRun, RedesignsInTask, DetectorsArmed, RepairedAtRest
  <1>7. QED BY <1>3, <1>4, <1>5, <1>6 DEF IInv

----------------------------------------------------------------------------
(* One lemma per phase, one step per action.                               *)

LEMMA NoDrillFits == NoDrill \in Drills /\ NoDrill.queued + NoDrill.running <= 1
  BY DEF NoDrill, Drills

LEMMA AskedRound ==
  ASSUME IInv, Asked
  PROVE  /\ Round("Graph") /\ Returning /\ streak \in Streaks /\ streak.repeats < StuckTerminate
         /\ graph \in Graphs /\ graphPhase \in GraphPhase /\ cleared \in BOOLEAN
         /\ pending = "none"
         /\ Counted \in Streaks /\ Counted.repeats < StuckTerminate
         /\ ~FillingStall => CountedFilling \in Streaks
                             /\ CountedFilling.repeats < StuckTerminate
  <1>1. Round("Graph")
    BY DEF Asked, Free
  <1>2. TypeOK
    BY DEF IInv
  <1>3. /\ streak \in Streaks /\ streak.repeats < StuckTerminate
        /\ graph \in Graphs /\ graphPhase \in GraphPhase /\ cleared \in BOOLEAN
        /\ pending = "none" /\ Returning
    BY <1>1, RoundIsPaid
  <1>4. QED BY <1>1, <1>2, <1>3, CountersStayTyped

LEMMA ProposeStep ==
  ASSUME IInv, Propose
  PROVE  IInv'
  <1> USE NoDrillFits
  <1>0. StuckTerminate \in Nat /\ StuckTerminate > 0
    BY LimitsArePositive
  <1>1. CASE ProposerFails
    BY <1>1, AskedRound, StoppingKeepsIInv, Zenon
       DEF ProposerFails, Idle, Surfaced, Final, Phase
  <1>2. CASE ForcedExplore
    <2>1. streak' \in Streaks /\ streak'.repeats < StuckTerminate
      BY <1>2, AskedRound, LimitsArePositive DEF ForcedExplore, Streaks
    <2>2. QED BY <1>2, <2>1, AskedRound, GoingOnKeepsIInv DEF ForcedExplore, Idle
  <1>3. CASE AskUser
    <2>1. [CountedFilling EXCEPT !.asked = CountedFilling.asked + 1] \in Streaks
      BY <1>3, AskedRound, CountersStayTyped, LimitsArePositive
         DEF AskUser, Streaks, IInv
    <2>2. streak' \in Streaks /\ streak'.repeats < StuckTerminate
      BY <1>0, <1>3, <2>1, ResetsStayTyped DEF AskUser, RecordClarification
    <2>3. QED BY <1>3, <2>2, AskedRound, StoppingKeepsIInv
              DEF AskUser, Idle, Surfaced, Final, Phase
  <1>4. CASE AskSaturated
    <2>1. streak' \in Streaks /\ streak'.repeats < StuckTerminate
      BY <1>4, AskedRound, ResetsStayTyped DEF AskSaturated
    <2>2. QED BY <1>4, <2>1, AskedRound, StoppingKeepsIInv
              DEF AskSaturated, Idle, Surfaced, Final, Phase
  <1>5. CASE Block
    <2>1. streak' \in Streaks /\ streak'.repeats < StuckTerminate
      BY <1>0, <1>5, AskedRound, ResetsStayTyped DEF Block
    <2>2. QED BY <1>5, <2>1, AskedRound, StoppingKeepsIInv
              DEF Block, Idle, Surfaced, Final, Phase
  <1>6. CASE ConsultAdvisor
    <2>1. streak' \in Streaks /\ streak'.repeats < StuckTerminate
      BY <1>0, <1>6, AskedRound, ResetsStayTyped DEF ConsultAdvisor
    <2>2. QED BY <1>6, <2>1, AskedRound, GoingOnKeepsIInv DEF ConsultAdvisor, Idle
  <1>7. CASE Explore
    <2>1. Counted.explored = streak.explored
      BY <1>7, AskedRound DEF Explore, Counted, Streaks
    <2>2. [Counted EXCEPT !.explored = Counted.explored + 1] \in Streaks
      BY <1>7, <2>1, AskedRound, LimitsArePositive DEF Explore, Streaks
    <2>3. streak' \in Streaks /\ streak'.repeats < StuckTerminate
      BY <1>0, <1>7, <2>2, ResetsStayTyped DEF Explore, RecordExplore
    <2>4. QED BY <1>7, <2>3, AskedRound, GoingOnKeepsIInv DEF Explore, Idle
  <1>8. CASE ExploreSaturated
    <2>1. streak' \in Streaks /\ streak'.repeats < StuckTerminate
      BY <1>8, AskedRound, ResetsStayTyped DEF ExploreSaturated
    <2>2. QED BY <1>8, <2>1, AskedRound, StoppingKeepsIInv
              DEF ExploreSaturated, Idle, Surfaced, Final, Phase
  <1>9. CASE SchemaRejected
    <2>1. streak' \in Streaks /\ streak'.repeats < StuckTerminate
      BY <1>9, AskedRound, ResetsStayTyped DEF SchemaRejected
    <2>2. graphPhase' \in GraphPhase
      BY <1>9, AskedRound DEF SchemaRejected, Building, GraphPhase
    <2>3. CASE config.heartbeat
      BY <1>9, <2>1, <2>2, <2>3, AskedRound, GoingOnKeepsIInv DEF SchemaRejected, Idle
    <2>4. CASE ~config.heartbeat
      BY <1>9, <2>1, <2>2, <2>4, AskedRound, StoppingKeepsIInv
         DEF SchemaRejected, Idle, Surfaced, Final, Phase
    <2>5. QED BY <2>3, <2>4
  <1>10. ASSUME NEW t \in Tools, NEW o \in Outputs, ToolReturns(t, o)
         PROVE  IInv'
    <2> DEFINE Noted == [CountedFilling EXCEPT !.failures[t] = 0,
                                               !.output = {o},
                                               !.repeats = Repeats(o)]
    <2>1. Asked /\ Idle /\ ~FillingStall /\ streak' = Noted
          /\ UNCHANGED <<graphPhase, pending, graph, cleared>>
      BY <1>10 DEF ToolReturns, ToolCalled
    <2>2. /\ CountedFilling \in Streaks
          /\ Repeats(o) \in 0..StuckTerminate
      BY <1>0, <2>1, AskedRound DEF Repeats, Streaks
    <2>3. ToolFailureHalt \in Nat /\ ToolFailureHalt > 0
      BY LimitsArePositive
    <2>4. [CountedFilling EXCEPT !.failures[t] = 0] \in Streaks
      BY <2>2, <2>3 DEF Streaks
    <2>5. [[CountedFilling EXCEPT !.failures[t] = 0] EXCEPT !.output = {o}] \in Streaks
      BY <2>4 DEF Streaks
    <2>6. Noted \in Streaks /\ Noted.repeats = Repeats(o)
      BY <2>2, <2>5 DEF Streaks
    <2> HIDE DEF Noted
    <2>7. CASE Repeats(o) >= StuckTerminate
      BY <1>10, <2>1, <2>6, <2>7, AskedRound, StoppingKeepsIInv
         DEF ToolReturns, GiveUp, Idle, Surfaced, Final, Phase
    <2>8. CASE ~(Repeats(o) >= StuckTerminate)
      BY <1>0, <1>10, <2>1, <2>2, <2>6, <2>8, AskedRound, GoingOnKeepsIInv
         DEF ToolReturns, Idle
    <2>9. QED BY <2>7, <2>8
  <1>11. ASSUME NEW t \in Tools, ToolErrs(t)
         PROVE  IInv'
    <2>0. ToolFailureHalt \in Nat /\ ToolFailureHalt > 0
      BY LimitsArePositive
    <2>1. Asked /\ Idle /\ ~FillingStall
          /\ UNCHANGED <<graphPhase, pending, graph, cleared>>
      BY <1>11, Zenon DEF ToolErrs, ToolCalled
    <2>2. /\ CountedFilling \in Streaks /\ CountedFilling.repeats < StuckTerminate
          /\ CountedFilling.failures = streak.failures
          /\ streak \in Streaks
      BY <2>1, AskedRound, CountersStayTyped DEF IInv
    <2>3. CASE streak.failures[t] + 1 >= ToolFailureHalt
      <3>1. /\ streak' = [CountedFilling EXCEPT !.failures = [u \in Tools |-> 0]]
            /\ Stop("Error", "Poisoned")
        BY <1>11, <2>3 DEF ToolErrs, ToolCalled, GiveUp
      <3>2. streak' \in Streaks
        BY <2>0, <2>2, <3>1 DEF Streaks
      <3>3. QED BY <2>1, <3>1, <3>2, AskedRound, StoppingKeepsIInv
                DEF Idle, Surfaced, Final, Phase
    <2>4. CASE ~(streak.failures[t] + 1 >= ToolFailureHalt)
      <3>1. /\ streak' = [CountedFilling EXCEPT !.failures[t] = streak.failures[t] + 1]
            /\ RunOn("Graph")
        BY <1>11, <2>2, <2>4 DEF ToolErrs, ToolCalled
      <3>2. streak.failures[t] + 1 \in 0..(ToolFailureHalt - 1)
        BY <2>0, <2>2, <2>4 DEF Streaks
      <3>3. streak' \in Streaks /\ streak'.repeats < StuckTerminate
        BY <2>2, <3>1, <3>2 DEF Streaks
      <3>4. QED BY <2>1, <3>1, <3>3, AskedRound, GoingOnKeepsIInv DEF Idle
    <2>5. QED BY <2>3, <2>4
  <1>12. ASSUME NEW g \in Graphs, NEW drilled \in BOOLEAN, PatchApplied(g, drilled)
         PROVE  IInv'
    <2>1. Asked /\ graph' = g /\ cleared' = FALSE /\ UNCHANGED pending /\ RunOn("Graph")
      BY <1>12 DEF PatchApplied
    <2>2. graphPhase' \in GraphPhase
      BY <1>12, <2>1, AskedRound DEF PatchApplied, NextGraphPhase, Building, GraphPhase
    <2>3. [Counted EXCEPT !.filling = 0] \in Streaks
      BY <2>1, AskedRound, LimitsArePositive DEF Streaks
    <2>4. (IF FillingRestarts(g) THEN [Counted EXCEPT !.filling = 0] ELSE Counted)
            \in Streaks
      BY <2>1, <2>3, AskedRound
    <2>5. streak' \in Streaks /\ streak'.repeats < StuckTerminate
      BY <1>0, <1>12, <2>4, ResetsStayTyped DEF PatchApplied
    <2>6. drill' \in Drills /\ drill'.queued + drill'.running <= 1
      <3>1. PICK n \in 0..1 : drill' = [NoDrill EXCEPT !.queued = n]
        BY <1>12 DEF PatchApplied
      <3>2. drill' = [queued |-> n, running |-> 0, failed |-> FALSE]
        BY <3>1 DEF NoDrill
      <3>3. QED BY <3>2 DEF Drills
    <2>7. QED BY <2>1, <2>2, <2>5, <2>6, AskedRound, GoingOnKeepsIInv
  <1>13. ASSUME NEW g \in Graphs, PatchRejected(g)
         PROVE  IInv'
    <2>1. streak' \in Streaks /\ streak'.repeats < StuckTerminate
      BY <1>13, AskedRound, ResetsStayTyped DEF PatchRejected
    <2>2. graphPhase' \in GraphPhase
      BY <1>13, AskedRound DEF PatchRejected, Building, GraphPhase
    <2>3. QED BY <1>13, <2>1, <2>2, AskedRound, GoingOnKeepsIInv DEF PatchRejected, Idle
  <1>14. CASE ExploreNothing
    <2>1. streak' \in Streaks /\ streak'.repeats < StuckTerminate
      BY <1>0, <1>14, AskedRound, ResetsStayTyped DEF ExploreNothing
    <2>2. QED BY <1>14, <2>1, AskedRound, GoingOnKeepsIInv DEF ExploreNothing, Idle
  <1>15. QED BY <1>1, <1>2, <1>3, <1>4, <1>5, <1>6, <1>7, <1>8, <1>9, <1>10,
              <1>11, <1>12, <1>13, <1>14, Zenon DEF Propose

LEMMA VerifyStep ==
  ASSUME IInv, Verify
  PROVE  IInv'
  <1> USE NoDrillFits
  <1>1. Asked /\ Idle /\ ~FillingStall /\ streak' = CountedFilling
    BY Zenon DEF Verify, VerifyBlocked, VerifyPasses, VerifyStalemate, VerifyErrs,
                 VerifierPanics, Verified, ReadyForVerify
  <1>2. /\ Returning /\ streak' \in Streaks /\ streak'.repeats < StuckTerminate
        /\ drill' = NoDrill
        /\ graph \in Graphs /\ graphPhase \in GraphPhase /\ cleared \in BOOLEAN
        /\ pending = "none"
    BY <1>1, AskedRound DEF Idle
  <1>3. CASE VerifyBlocked
    <2>1. /\ RunOn("Graph") /\ graphPhase' = "Filling"
          /\ UNCHANGED <<pending, graph, cleared>>
      BY <1>3 DEF VerifyBlocked
    <2>2. QED BY <1>2, <2>1, GoingOnKeepsIInv DEF GraphPhase
  <1>4. ASSUME NEW g \in Graphs, VerifyPasses(g)
        PROVE  IInv'
    <2>1. /\ RunOn("Task") /\ UNCHANGED <<graphPhase, pending>>
          /\ graph' = g /\ cleared' = TRUE
      BY <1>4 DEF VerifyPasses, Verified
    <2>2. QED BY <1>2, <2>1, GoingOnKeepsIInv
  <1>5. ASSUME NEW g \in Graphs, VerifyStalemate(g)
        PROVE  IInv'
    <2>1. /\ Stop("GraphInvalid", "Graph") /\ UNCHANGED graphPhase
          /\ graph' = g /\ cleared' = FALSE /\ pending' = "repair"
      BY <1>5 DEF VerifyStalemate, Verified
    <2>2. QED BY <1>2, <2>1, StoppingKeepsIInv DEF Surfaced, Final, Phase
  <1>6. ASSUME NEW g \in Graphs, VerifyErrs(g)
        PROVE  IInv'
    <2>1. /\ Stop("Error", "Poisoned") /\ UNCHANGED <<graphPhase, pending>>
          /\ graph' = g /\ cleared' = FALSE
      BY <1>6 DEF VerifyErrs, Verified
    <2>2. QED BY <1>2, <2>1, StoppingKeepsIInv DEF Surfaced, Final, Phase
  <1>7. ASSUME NEW g \in Graphs, VerifierPanics(g)
        PROVE  IInv'
    <2>1. /\ Stop("Panicked", "Graph") /\ UNCHANGED <<graphPhase, pending>>
          /\ graph' = g /\ cleared' = FALSE
      BY <1>7 DEF VerifierPanics, Verified
    <2>2. QED BY <1>2, <2>1, StoppingKeepsIInv DEF Surfaced, Final, Phase
  <1>8. QED BY <1>3, <1>4, <1>5, <1>6, <1>7, Zenon DEF Verify

LEMMA GraphStep ==
  ASSUME IInv, StepGraph
  PROVE  IInv'
  <1> USE NoDrillFits
  <1>1. CASE Cancelled
    <2>1. Round("Graph") /\ cancelled /\ Stop("Error", "Graph")
          /\ UNCHANGED <<graphPhase, pending, graph, streak, cleared>>
      BY <1>1 DEF Cancelled
    <2>2. drill \in Drills
      BY <2>1, RoundIsPaid
    <2>3. drill' \in Drills /\ drill'.queued + drill'.running <= 1
      <3>1. drill' = [queued |-> 0, running |-> 0, failed |-> drill.failed]
        BY <1>1, <2>2 DEF Cancelled, Drills
      <3>2. drill.failed \in BOOLEAN
        BY <2>2 DEF Drills
      <3>3. QED BY <3>1, <3>2 DEF Drills
    <2>4. QED BY <2>1, <2>3, RoundIsPaid, StoppingKeepsIInv DEF Surfaced, Final, Phase
  <1>2. CASE ReportSubRun
    <2>1. Round("Graph") /\ drill' = NoDrill /\ pending' = "repair"
          /\ Stop("GraphInvalid", "Graph")
          /\ UNCHANGED <<graphPhase, graph, streak, cleared>>
      BY <1>2 DEF ReportSubRun
    <2>2. QED BY <2>1, RoundIsPaid, StoppingKeepsIInv DEF Surfaced, Final, Phase
  <1>3. ASSUME NEW left \in 1..2, NEW failed \in BOOLEAN, Wait(left, failed)
        PROVE  IInv'
    <2>1. Round("Graph") /\ RunOn("Graph")
          /\ UNCHANGED <<graphPhase, pending, graph, streak, cleared>>
      BY <1>3 DEF Wait
    <2>2. drill \in Drills /\ drill.queued + drill.running <= 1
      BY <2>1, RoundIsPaid
    <2>3. left = 1
      BY <1>3, <2>2 DEF Wait, InFlight, Drills
    <2>4. (drill.failed \/ failed) \in BOOLEAN
      BY <2>2, Zenon DEF Drills
    <2>5. drill' = [queued |-> 0, running |-> 1, failed |-> drill.failed \/ failed]
      BY <1>3, <2>3 DEF Wait
    <2>6. drill' \in Drills /\ drill'.queued + drill'.running <= 1
      BY <2>4, <2>5 DEF Drills
    <2>7. QED BY <2>1, <2>6, RoundIsPaid, GoingOnKeepsIInv
  <1>4. ASSUME NEW f \in Forms, AutoSeed(f)
        PROVE  IInv'
    <2>1. Round("Graph") /\ RunOn("Graph") /\ drill' = NoDrill
          /\ graph' = Seed(f) /\ cleared' = FALSE /\ graphPhase' = "Filling"
          /\ streak' = [streak EXCEPT !.seeding = 0] /\ UNCHANGED pending
      BY <1>4 DEF AutoSeed, Free
    <2>2. Seed(f) \in Graphs
      BY LimitsArePositive DEF Seed, Graphs
    <2>3. streak' \in Streaks /\ streak'.repeats < StuckTerminate
      BY <2>1, RoundIsPaid, LimitsArePositive DEF Streaks
    <2>4. Returning /\ pending = "none" /\ NoDrill \in Drills
      BY <2>1, RoundIsPaid
    <2>5. QED BY <2>1, <2>2, <2>3, <2>4, GoingOnKeepsIInv DEF GraphPhase
  <1>5. QED BY <1>1, <1>2, <1>3, <1>4, ProposeStep, VerifyStep, Zenon DEF StepGraph

LEMMA TaskStep ==
  ASSUME IInv, StepTask
  PROVE  IInv'
  <1>1. Tasked \/ \E errors \in 1..MaxNodes : GraphBlamed(errors)
    BY Zenon DEF StepTask, SkipToDone, Executed, ExecutionErrs, AnchorFailed,
                 HandedOver, NoNodeBlamed
  <1>2. ASSUME Tasked
        PROVE  /\ Returning /\ drill' = NoDrill
               /\ graphPhase' \in GraphPhase
               /\ streak' \in Streaks /\ streak'.repeats < StuckTerminate
               /\ graph \in Graphs /\ cleared /\ cleared \in BOOLEAN
               /\ pending = "none"
    BY <1>2, RoundIsPaid DEF Tasked, Round, Paid, IInv, OneSubRunAtATime, ClearedToRun
  <1> USE NoDrillFits
  <1>3. CASE SkipToDone
    BY <1>2, <1>3, StoppingKeepsIInv DEF SkipToDone, Surfaced, Final, Phase
  <1>4. CASE Executed
    BY <1>2, <1>4, GoingOnKeepsIInv DEF Executed
  <1>5. CASE ExecutionErrs
    BY <1>2, <1>5, StoppingKeepsIInv DEF ExecutionErrs, Surfaced, Final, Phase
  <1>6. CASE AnchorFailed
    BY <1>2, <1>6, StoppingKeepsIInv DEF AnchorFailed, Surfaced, Final, Phase
  <1>7. CASE HandedOver
    BY <1>2, <1>7, StoppingKeepsIInv DEF HandedOver, Surfaced, Final, Phase
  <1>8. CASE NoNodeBlamed
    BY <1>2, <1>8, GoingOnKeepsIInv DEF NoNodeBlamed
  <1>9. ASSUME NEW errors \in 1..MaxNodes, GraphBlamed(errors)
        PROVE  IInv'
    <2>1. /\ surfaced = "Running" /\ phase = "Task" /\ blamed' = errors
          /\ round' = round + 1 /\ round < MaxRounds
          /\ UNCHANGED <<config, cancelled, phase, graphPhase, pending, surfaced,
                         graph, watch, streak, drill, cleared>>
      BY <1>9 DEF GraphBlamed, Paid
    <2>2. round' \in 0..MaxRounds /\ errors \in 0..MaxNodes /\ errors > 0
      BY <2>1, LimitsArePositive DEF IInv, TypeOK
    <2>3. TypeOK'
      BY <2>1, <2>2 DEF IInv, TypeOK
    <2>4. QED BY <2>1, <2>2, <2>3
              DEF IInv, SurfacedMatchesLoop, OneSubRunAtATime, ClearedToRun,
                  RedesignsInTask, DetectorsArmed, RepairedAtRest
  <1>10. QED BY <1>3, <1>4, <1>5, <1>6, <1>7, <1>8, <1>9, Zenon DEF StepTask

(* A redesign finds the loop as the round that executed left it.           *)
LEMMA RedesigningState ==
  ASSUME IInv, NEW g \in Graphs, Redesigning(g)
  PROVE  /\ surfaced = "Running" /\ phase = "Task" /\ pending = "none"
         /\ blamed \in 1..MaxNodes
         /\ graph' \in Graphs /\ cleared' \in BOOLEAN
         /\ cleared' = cleared \/ cleared' = FALSE
         /\ config' = config /\ round' = round /\ cancelled' = cancelled
         /\ graphPhase' \in GraphPhase /\ streak' = streak
         /\ streak' \in Streaks /\ streak'.repeats < StuckTerminate
         /\ drill' = drill /\ drill' = NoDrill
  <1>1. /\ surfaced = "Running" /\ blamed > 0
        /\ graph' = g /\ cleared' = (cleared /\ g = graph)
        /\ UNCHANGED <<config, graphPhase, round, cancelled, streak, drill>>
    BY DEF Redesigning
  <1>2. phase = "Task" /\ pending = "none"
    BY <1>1 DEF IInv, TypeOK, RedesignsInTask, SurfacedMatchesLoop
  <1>3. cleared' \in BOOLEAN /\ (cleared' = cleared \/ cleared' = FALSE)
    BY <1>1, Zenon DEF IInv, TypeOK
  <1>4. blamed \in 1..MaxNodes
    BY <1>1, LimitsArePositive DEF IInv, TypeOK
  <1>5. drill = NoDrill
    BY <1>2 DEF IInv, OneSubRunAtATime
  <1>6. graphPhase' \in GraphPhase /\ streak' \in Streaks
    BY <1>1 DEF IInv, TypeOK
  <1>7. streak'.repeats < StuckTerminate
    BY <1>1 DEF IInv, DetectorsArmed
  <1>8. QED BY <1>1, <1>2, <1>3, <1>4, <1>5, <1>6, <1>7

(* The handler goes on inside the same step(): nothing is returned.        *)
LEMMA RedesigningOnKeepsIInv ==
  ASSUME IInv, NEW g \in Graphs, Redesigning(g), blamed' \in 1..MaxNodes,
         UNCHANGED <<phase, pending, surfaced, watch>>
  PROVE  IInv'
  <1>1. /\ surfaced = "Running" /\ phase = "Task" /\ pending = "none"
        /\ graph' \in Graphs /\ cleared' \in BOOLEAN
        /\ UNCHANGED <<config, round, cancelled, streak, drill>>
        /\ graphPhase' \in GraphPhase /\ drill = NoDrill
    BY RedesigningState
  <1>2. blamed' \in 0..MaxNodes /\ blamed' > 0
    BY LimitsArePositive
  <1>3. TypeOK'
    BY <1>1, <1>2 DEF IInv, TypeOK
  <1>4. QED BY <1>1, <1>2, <1>3
            DEF IInv, SurfacedMatchesLoop, OneSubRunAtATime, ClearedToRun,
                RedesignsInTask, DetectorsArmed, RepairedAtRest

LEMMA RedesignStep ==
  ASSUME IInv, StepRedesign
  PROVE  IInv'
  <1> USE NoDrillFits
  <1>1. ASSUME NEW g \in Graphs, Redesigned(g)
        PROVE  IInv'
    <2>1. Redesigning(g) /\ blamed' = blamed - 1 /\ UNCHANGED pending
      BY <1>1 DEF Redesigned
    <2>2. blamed \in 1..MaxNodes /\ MaxNodes \in Nat
      BY <2>1, RedesigningState, LimitsArePositive
    <2>3. CASE blamed > 1
      <3>1. blamed' \in 1..MaxNodes /\ UNCHANGED <<phase, surfaced, watch>>
        BY <1>1, <2>1, <2>2, <2>3 DEF Redesigned
      <3>2. QED BY <2>1, <3>1, RedesigningOnKeepsIInv
    <2>4. CASE ~(blamed > 1)
      <3>1. Returning
        <4>1. surfaced = "Running" /\ UNCHANGED <<config, round, cancelled>>
          BY <2>1, RedesigningState
        <4>2. blamed' = 0
          BY <2>1, <2>2, <2>4
        <4>3. QED BY <4>1, <4>2 DEF Returning, IInv, TypeOK
      <3>2. RunOn("Graph")
        BY <1>1, <2>4 DEF Redesigned
      <3>3. QED BY <2>1, <3>1, <3>2, RedesigningState, GoingOnKeepsIInv
    <2>5. QED BY <2>3, <2>4
  <1>2. ASSUME NEW g \in Graphs, CascadeRecurses(g)
        PROVE  IInv'
    <2>1. /\ Redesigning(g) /\ blamed' = 1
          /\ UNCHANGED <<phase, pending, surfaced, watch>>
      BY <1>2 DEF CascadeRecurses
    <2>2. blamed' \in 1..MaxNodes
      BY <2>1, LimitsArePositive
    <2>3. QED BY <2>1, <2>2, RedesigningOnKeepsIInv
  <1>3. ASSUME NEW g \in Graphs, RedesignFails(g)
        PROVE  IInv'
    <2>1. /\ Redesigning(g) /\ blamed' = 0 /\ pending' = "repair"
          /\ Stop("GraphInvalid", "Task")
      BY <1>3 DEF RedesignFails
    <2>2. Returning
      BY <2>1, RedesigningState DEF Returning, IInv, TypeOK
    <2>3. QED BY <2>1, <2>2, RedesigningState, StoppingKeepsIInv
              DEF Surfaced, Final, Phase
  <1>4. QED BY <1>1, <1>2, <1>3, Zenon DEF StepRedesign

LEMMA ReviewStep ==
  ASSUME IInv, StepReview
  PROVE  IInv'
  <1>1. Reviewed
    BY Zenon DEF StepReview, ReviewEnds, ReviewErrs, ReviewBlamesGraph, ReviewerPanics
  <1>2. /\ Returning /\ drill' = NoDrill
        /\ graphPhase' \in GraphPhase
        /\ streak' \in Streaks /\ streak'.repeats < StuckTerminate
        /\ graph' \in Graphs /\ cleared' \in BOOLEAN /\ pending = "none"
    BY <1>1, RoundIsPaid DEF Reviewed, IInv, OneSubRunAtATime
  <1> USE NoDrillFits
  <1>3. CASE ReviewEnds
    BY <1>2, <1>3, StoppingKeepsIInv DEF ReviewEnds, Surfaced, Final, Phase
  <1>4. CASE ReviewErrs
    BY <1>2, <1>4, StoppingKeepsIInv DEF ReviewErrs, Surfaced, Final, Phase
  <1>5. CASE ReviewBlamesGraph
    BY <1>2, <1>5, StoppingKeepsIInv DEF ReviewBlamesGraph, Surfaced, Final, Phase
  <1>6. CASE ReviewerPanics
    BY <1>2, <1>6, StoppingKeepsIInv DEF ReviewerPanics, Surfaced, Final, Phase
  <1>7. QED BY <1>3, <1>4, <1>5, <1>6, Zenon DEF StepReview

LEMMA DriverStep ==
  ASSUME IInv, Exhaust \/ Resumed \/ Cancel
  PROVE  IInv'
  <1> USE DEF IInv, SurfacedMatchesLoop, OneSubRunAtATime, ClearedToRun,
              RedesignsInTask, DetectorsArmed, RepairedAtRest
  <1>1. CASE Exhaust
    <2>1. TypeOK'
      BY <1>1 DEF Exhaust, Stop, GiveUp, TypeOK, Surfaced, Final, Phase
    <2>2. QED BY <1>1, <2>1 DEF Exhaust, Stop, GiveUp, TypeOK
  <1>2. CASE Resume
    <2>1. TypeOK'
      BY <1>2 DEF Resume, TypeOK, Surfaced, Final
    <2>2. QED BY <1>2, <2>1 DEF Resume, TypeOK
  <1>3. CASE ResumeForce
    <2>1. TypeOK'
      BY <1>3 DEF ResumeForce, TypeOK, Surfaced, Final
    <2>2. QED BY <1>3, <2>1 DEF ResumeForce, TypeOK
  <1>4. ASSUME NEW g \in Graphs, ResumeWithRepairedGraph(g)
        PROVE  IInv'
    <2>1. TypeOK'
      BY <1>4 DEF ResumeWithRepairedGraph, TypeOK, Surfaced, Final, Phase
    <2>2. QED BY <1>4, <2>1 DEF ResumeWithRepairedGraph, TypeOK
  <1>5. CASE Cancel
    <2>1. TypeOK'
      BY <1>5 DEF Cancel, TypeOK
    <2>2. QED BY <1>5, <2>1 DEF Cancel, TypeOK
  <1>6. QED BY <1>1, <1>2, <1>3, <1>4, <1>5, Zenon DEF Resumed

LEMMA InitIInv == Init => IInv
  <1> SUFFICES ASSUME Init PROVE IInv
    OBVIOUS
  <1>1. /\ 0 \in 0..MaxRounds /\ 0 \in 0..StagnationTerminate
        /\ 0 \in 0..StuckTerminate /\ 0 \in 0..(ToolFailureHalt - 1)
        /\ 0 \in 0..(SeedingStallLimit - 1) /\ 0 \in 0..(ForceSearchAfter - 1)
        /\ 0 \in 0..ClarificationMax /\ 0 \in 0..ExploreMax
        /\ 0 < StagnationTerminate /\ 0 < StuckTerminate /\ 0 \in 0..MaxNodes
    <2>1. /\ MaxRounds \in Nat /\ StagnationTerminate \in Nat /\ StagnationTerminate > 0
          /\ StuckTerminate \in Nat /\ StuckTerminate > 0 /\ MaxNodes \in Nat
      BY LimitsArePositive
    <2>2. /\ ToolFailureHalt \in Nat /\ ToolFailureHalt > 0
          /\ SeedingStallLimit \in Nat /\ SeedingStallLimit > 0
          /\ ForceSearchAfter \in Nat /\ ForceSearchAfter > 0
          /\ ClarificationMax \in Nat /\ ExploreMax \in Nat
      BY LimitsArePositive
    <2>3. QED BY <2>1, <2>2
  <1>2. watch \in Watches /\ watch.count = 0
    BY <1>1 DEF Init, Watches
  <1>3. streak \in Streaks /\ streak.repeats = 0
    BY <1>1 DEF Init, Streaks
  <1>4. drill \in Drills /\ drill.queued + drill.running <= 1 /\ drill = NoDrill
    BY NoDrillFits DEF Init
  <1>5. graphPhase \in GraphPhase
    BY DEF Init, GraphPhase
  <1>6. TypeOK
    BY <1>1, <1>2, <1>3, <1>4, <1>5 DEF Init, TypeOK, Phase, Surfaced, Final
  <1>7. SurfacedMatchesLoop /\ OneSubRunAtATime
    BY <1>4 DEF Init, SurfacedMatchesLoop, OneSubRunAtATime
  <1>8. ClearedToRun /\ RedesignsInTask /\ DetectorsArmed /\ RepairedAtRest
    BY <1>1, <1>2, <1>3 DEF Init, ClearedToRun, RedesignsInTask, DetectorsArmed, RepairedAtRest
  <1>9. QED BY <1>6, <1>7, <1>8 DEF IInv

LEMMA NextKeepsIInv == IInv /\ [Next]_vars => IInv'
  <1> SUFFICES ASSUME IInv, [Next]_vars PROVE IInv'
    OBVIOUS
  <1>1. CASE Next
    BY <1>1, GraphStep, TaskStep, RedesignStep, ReviewStep, DriverStep, Zenon DEF Next, Step
  <1>2. CASE UNCHANGED vars
    BY <1>2 DEF vars, IInv, TypeOK, SurfacedMatchesLoop, OneSubRunAtATime,
                ClearedToRun, RedesignsInTask, DetectorsArmed, RepairedAtRest
  <1>3. QED BY <1>1, <1>2

LEMMA Invariant == Spec => []IInv
  BY InitIInv, NextKeepsIInv, PTL DEF Spec

(* In every reachable state the loop is well typed and no guard's counter  *)
(* is past its limit, whatever the limits are.                             *)
THEOREM TypeCorrect == Spec => []TypeOK
  <1>1. IInv => TypeOK
    BY DEF IInv
  <1>2. QED BY <1>1, Invariant, PTL

(* What the driver was told always agrees with the loop it holds, and at   *)
(* most one sub-run is ever queued or in flight.                           *)
THEOREM SafetyCorrect == Spec => [](SurfacedMatchesLoop /\ OneSubRunAtATime)
  <1>1. IInv => SurfacedMatchesLoop /\ OneSubRunAtATime
    BY DEF IInv
  <1>2. QED BY <1>1, Invariant, PTL

(* Of a loop's sub-runs one at most is queued or in flight, whatever the   *)
(* dispatcher, the reviewer and a resumed conversation ask for.            *)
THEOREM SubRunsAreSingle == Spec => []OneSubRunAtATime
  BY SafetyCorrect, PTL

----------------------------------------------------------------------------
(* The action properties.                                                  *)

(* Past the failure check the fork queue has been drained and the sub-runs *)
(* are gone: what remains is at most a target queued by this very round.   *)
LEMMA AskedLeavesNoSubRun ==
  ASSUME IInv, Propose \/ Verify
  PROVE  ~drill.failed /\ drill'.running = 0
  <1>1. Asked
    BY Zenon
       DEF Propose, ProposerFails, ForcedExplore, AskUser, AskSaturated, Block,
           ConsultAdvisor, Explore, ExploreNothing, ExploreSaturated, SchemaRejected,
           ToolReturns, ToolErrs, ToolCalled, PatchApplied, PatchRejected,
           Verify, VerifyBlocked, VerifyPasses, VerifyStalemate, VerifyErrs,
           VerifierPanics, Verified, ReadyForVerify
  <1>2. ASSUME NEW g \in Graphs, NEW drilled \in BOOLEAN, PatchApplied(g, drilled)
        PROVE  drill'.running = 0
    BY <1>2 DEF PatchApplied, NoDrill
  <1>3. Idle => drill'.running = 0
    BY DEF Idle, NoDrill
  <1>4. Idle \/ \E g \in Graphs, drilled \in BOOLEAN : PatchApplied(g, drilled)
    BY Zenon
       DEF Propose, ProposerFails, ForcedExplore, AskUser, AskSaturated, Block,
           ConsultAdvisor, Explore, ExploreNothing, ExploreSaturated, SchemaRejected,
           ToolReturns, ToolErrs, ToolCalled, PatchRejected,
           Verify, VerifyBlocked, VerifyPasses, VerifyStalemate, VerifyErrs,
           VerifierPanics, Verified, ReadyForVerify
  <1>5. drill'.running = 0
    BY <1>2, <1>3, <1>4, Zenon
  <1>6. QED BY <1>1, <1>5 DEF Asked, Free

(* A task and a review run with no sub-run about.                          *)
LEMMA WorkLeavesDrillAlone ==
  ASSUME IInv, StepTask \/ StepRedesign \/ StepReview
  PROVE  /\ drill = NoDrill /\ drill' = drill
         /\ phase \in {"Task", "Review"}
  <1>1. ASSUME Tasked \/ Reviewed \/ \E errors \in 1..MaxNodes : GraphBlamed(errors)
        PROVE  drill' = drill /\ phase \in {"Task", "Review"}
    BY <1>1 DEF Tasked, Reviewed, GraphBlamed, Round, Paid
  <1>2. ASSUME NEW g \in Graphs, Redesigning(g)
        PROVE  drill' = drill /\ phase \in {"Task", "Review"}
    BY <1>2, RedesigningState
  <1>3. \/ Tasked \/ Reviewed \/ \E errors \in 1..MaxNodes : GraphBlamed(errors)
        \/ \E g \in Graphs : Redesigning(g)
    BY Zenon DEF StepTask, SkipToDone, Executed, ExecutionErrs, AnchorFailed,
                 HandedOver, NoNodeBlamed,
                 StepRedesign, Redesigned, CascadeRecurses, RedesignFails,
                 StepReview, ReviewEnds, ReviewErrs, ReviewBlamesGraph, ReviewerPanics
  <1>4. drill' = drill /\ phase \in {"Task", "Review"}
    BY <1>1, <1>2, <1>3, Zenon
  <1>5. QED BY <1>4 DEF IInv, OneSubRunAtATime

LEMMA FrozenStep ==
  ASSUME IInv, [Next]_vars
  PROVE  drill'.running > 0 \/ drill.failed => graph' = graph
  <1>1. CASE Propose \/ Verify
    BY <1>1, AskedLeavesNoSubRun
  <1>2. CASE Cancelled \/ ReportSubRun
    BY <1>2 DEF Cancelled, ReportSubRun
  <1>3. ASSUME NEW left \in 1..2, NEW failed \in BOOLEAN, Wait(left, failed)
        PROVE  graph' = graph
    BY <1>3 DEF Wait
  <1>4. ASSUME NEW f \in Forms, AutoSeed(f)
        PROVE  ~drill.failed /\ drill'.running = 0
    BY <1>4 DEF AutoSeed, Free, NoDrill
  <1>5. CASE StepTask \/ StepRedesign \/ StepReview
    BY <1>5, WorkLeavesDrillAlone DEF NoDrill
  <1>6. ASSUME NEW g \in Graphs, ResumeWithRepairedGraph(g)
        PROVE  ~drill.failed /\ drill'.running = 0
    BY <1>6 DEF ResumeWithRepairedGraph, IInv, RepairedAtRest, NoDrill
  <1>7. CASE Exhaust \/ Resume \/ ResumeForce \/ Cancel \/ UNCHANGED vars
    BY <1>7 DEF Exhaust, Resume, ResumeForce, Cancel, vars
  <1>8. QED
    <2>1. CASE StepGraph
      <3>1. CASE \E left \in 1..2, failed \in BOOLEAN : Wait(left, failed)
        BY <1>3, <3>1, Zenon
      <3>2. CASE \E f \in Forms : AutoSeed(f)
        BY <1>4, <3>2
      <3>3. QED BY <1>1, <1>2, <2>1, <3>1, <3>2, Zenon DEF StepGraph
    <2>2. CASE \E g \in Graphs : ResumeWithRepairedGraph(g)
      BY <1>6, <2>2
    <2>3. QED BY <1>5, <1>7, <2>1, <2>2, Zenon DEF Next, Step, Resumed

(* While a sub-run is in flight, or its failure unreported, no step grows  *)
(* or replaces the parent's graph.                                         *)
THEOREM Frozen == Spec => FrozenWhileDrilling
  BY FrozenStep, Invariant, PTL DEF Spec, FrozenWhileDrilling

LEMMA CancelledStep ==
  ASSUME IInv, [Next]_vars, cancelled
  PROVE  /\ drill'.running <= drill.running
         /\ phase = "Graph" /\ surfaced = "Running" /\ phase' # phase
              => phase' = "Poisoned"
  <1>0. drill \in Drills
    BY DEF IInv, TypeOK
  <1>1. ~(Propose \/ Verify)
    BY Zenon
       DEF Propose, ProposerFails, ForcedExplore, AskUser, AskSaturated, Block,
           ConsultAdvisor, Explore, ExploreNothing, ExploreSaturated, SchemaRejected,
           ToolReturns, ToolErrs, ToolCalled, PatchApplied, PatchRejected,
           Verify, VerifyBlocked, VerifyPasses, VerifyStalemate, VerifyErrs,
           VerifierPanics, Verified, ReadyForVerify, Asked, Free
  <1>2. ~ReportSubRun /\ ~Cancel
    BY DEF ReportSubRun, Cancel
  <1>3. ASSUME NEW left \in 1..2, NEW failed \in BOOLEAN PROVE ~Wait(left, failed)
    BY DEF Wait
  <1>4. ASSUME NEW f \in Forms PROVE ~AutoSeed(f)
    BY DEF AutoSeed, Free
  <1>5. CASE Cancelled
    BY <1>0, <1>5 DEF Cancelled, Drills, Stop, GiveUp, Round, Paid
  <1>6. CASE Exhaust
    BY <1>0, <1>6 DEF Exhaust, Drills, Stop, GiveUp
  <1>7. CASE StepTask \/ StepRedesign \/ StepReview
    BY <1>0, <1>7, WorkLeavesDrillAlone DEF Drills
  <1>8. CASE Resume \/ ResumeForce \/ UNCHANGED vars
    <2>1. drill' = drill /\ phase' = phase
      BY <1>8, Zenon DEF Resume, ResumeForce, vars
    <2>2. QED BY <1>0, <2>1 DEF Drills
  <1>9. ASSUME NEW g \in Graphs, ResumeWithRepairedGraph(g)
        PROVE  drill' = drill /\ surfaced # "Running"
    BY <1>9 DEF ResumeWithRepairedGraph
  <1>10. CASE \E g \in Graphs : ResumeWithRepairedGraph(g)
    BY <1>0, <1>9, <1>10 DEF Drills
  <1>11. StepGraph => Cancelled
    BY <1>1, <1>2, <1>3, <1>4, Zenon DEF StepGraph
  <1>12. \/ Cancelled \/ Exhaust \/ StepTask \/ StepRedesign \/ StepReview
         \/ Resume \/ ResumeForce \/ UNCHANGED vars
         \/ \E g \in Graphs : ResumeWithRepairedGraph(g)
    BY <1>2, <1>11, Zenon DEF Next, Step, Resumed
  <1>13. QED BY <1>5, <1>6, <1>7, <1>8, <1>10, <1>12, Zenon

(* Once cancelled, a loop tracks no new sub-run and its Graph phase goes   *)
(* nowhere but to its end.                                                 *)
THEOREM CancelledForksNothing == Spec => CancelledLoopForksNothing
  BY CancelledStep, Invariant, PTL DEF Spec, CancelledLoopForksNothing

----------------------------------------------------------------------------
(* The loop implements RunContract.                                        *)

LEMMA HandsOfSurfaced ==
  /\ HandsOf("Running") = "loop" /\ HandsOf("Paused") = "user"
  /\ HandsOf("GraphInvalid") = "repair"
  /\ \A state \in Final : HandsOf(state) = "over"
  /\ \A state \in Surfaced : HandsOf(state) \in {"loop", "user", "repair", "over"}
  BY DEF HandsOf, Surfaced, Final

LEMMA RunOnTells ==
  ASSUME NEW ph, RunOn(ph)
  PROVE  \/ surfaced' = "Running" /\ phase' = ph
         \/ surfaced' = "Error" /\ phase' = "Poisoned"
  BY DEF RunOn, Stagnating

(* Most rounds of the Graph phase are one step of the contract: the graph  *)
(* may have changed, and the run is in somebody's hands.                   *)
LEMMA GraphRoundBuilds ==
  ASSUME IInv, Round("Graph"), cleared' \in {cleared, FALSE}, cleared' \in BOOLEAN,
         \/ RunOn("Graph")
         \/ Stop("Error", "Poisoned")
         \/ \E state \in Surfaced : Stop(state, "Graph")
  PROVE  Contract!Build \/ Contract!Fail
  <1>1. surfaced = "Running" /\ phase = "Graph"
    BY DEF Round, Paid
  <1>2. CASE surfaced' = "Error" /\ phase' = "Poisoned"
    BY <1>1, <1>2, HandsOfSurfaced DEF Contract!Fail, Final
  <1>3. CASE surfaced' \in Surfaced /\ phase' = "Graph"
    BY <1>1, <1>3, HandsOfSurfaced DEF Contract!Build, Contract!Hands
  <1>4. \/ surfaced' = "Error" /\ phase' = "Poisoned"
        \/ surfaced' \in Surfaced /\ phase' = "Graph"
    BY RunOnTells DEF Stop, GiveUp, Surfaced, Final
  <1>5. QED BY <1>2, <1>3, <1>4

LEMMA GraphStepContract ==
  ASSUME IInv, StepGraph
  PROVE  Contract!Next
  <1>0. cleared \in BOOLEAN
    BY DEF IInv, TypeOK
  <1> DEFINE Ends == \/ RunOn("Graph")
                     \/ Stop("Error", "Poisoned")
                     \/ \E state \in Surfaced : Stop(state, "Graph")
             Uncovers == cleared' = cleared \/ cleared' = FALSE
  <1>1. CASE Cancelled \/ ReportSubRun
    <2>1. Round("Graph") /\ Ends /\ Uncovers
      BY <1>1 DEF Cancelled, ReportSubRun, Surfaced, Final
    <2>2. QED BY <1>0, <2>1, GraphRoundBuilds DEF Contract!Next
  <1>2. CASE Propose
    <2>1. Round("Graph")
      BY <1>2, Zenon
         DEF Propose, ProposerFails, ForcedExplore, AskUser, AskSaturated, Block,
             ConsultAdvisor, Explore, ExploreNothing, ExploreSaturated, SchemaRejected,
             ToolReturns, ToolErrs, ToolCalled, PatchApplied, PatchRejected,
             Asked, Free
    <2>2. Uncovers
      BY <1>2, Zenon
         DEF Propose, ProposerFails, ForcedExplore, AskUser, AskSaturated, Block,
             ConsultAdvisor, Explore, ExploreNothing, ExploreSaturated, SchemaRejected,
             ToolReturns, ToolErrs, ToolCalled, PatchApplied, PatchRejected
    <2>3. "Paused" \in Surfaced
      BY DEF Surfaced
    <2>4. Ends
      BY <1>2, <2>3, Zenon
         DEF Propose, ProposerFails, ForcedExplore, AskUser, AskSaturated, Block,
             ConsultAdvisor, Explore, ExploreNothing, ExploreSaturated, SchemaRejected,
             ToolReturns, ToolErrs, GiveUp, PatchApplied, PatchRejected
    <2>5. QED BY <1>0, <2>1, <2>2, <2>4, GraphRoundBuilds DEF Contract!Next
  <1>3. CASE VerifyBlocked
    <2>1. Round("Graph") /\ Ends /\ Uncovers
      BY <1>3 DEF VerifyBlocked, ReadyForVerify, Asked, Free
    <2>2. QED BY <1>0, <2>1, GraphRoundBuilds DEF Contract!Next
  <1>4. ASSUME NEW g \in Graphs, VerifyPasses(g)
        PROVE  Contract!Next
    <2>1. /\ surfaced = "Running" /\ phase = "Graph" /\ cleared' = TRUE
          /\ RunOn("Task")
      BY <1>4 DEF VerifyPasses, Verified, ReadyForVerify, Asked, Free, Round, Paid
    <2>2. CASE surfaced' = "Running" /\ phase' = "Task"
      BY <2>1, <2>2, HandsOfSurfaced DEF Contract!Next, Contract!Clear
    <2>3. CASE surfaced' = "Error" /\ phase' = "Poisoned"
      BY <2>1, <2>3, HandsOfSurfaced DEF Contract!Next, Contract!Fail, Final
    <2>4. QED BY <2>1, <2>2, <2>3, RunOnTells
  <1>5. ASSUME NEW g \in Graphs, VerifyStalemate(g) \/ VerifyErrs(g) \/ VerifierPanics(g)
        PROVE  Contract!Next
    <2>1. Round("Graph") /\ Ends /\ Uncovers
      BY <1>5 DEF VerifyStalemate, VerifyErrs, VerifierPanics, Verified,
                  ReadyForVerify, Asked, Free, Surfaced, Final
    <2>2. QED BY <1>0, <2>1, GraphRoundBuilds DEF Contract!Next
  <1>6. ASSUME NEW left \in 1..2, NEW failed \in BOOLEAN, Wait(left, failed)
        PROVE  Contract!Next
    <2>1. Round("Graph") /\ Ends /\ Uncovers
      BY <1>6 DEF Wait
    <2>2. QED BY <1>0, <2>1, GraphRoundBuilds DEF Contract!Next
  <1>7. ASSUME NEW f \in Forms, AutoSeed(f)
        PROVE  Contract!Next
    <2>1. Round("Graph") /\ Ends /\ Uncovers
      BY <1>7 DEF AutoSeed, Free
    <2>2. QED BY <1>0, <2>1, GraphRoundBuilds DEF Contract!Next
  <1> HIDE DEF Ends, Uncovers
  <1>8. CASE Verify
    BY <1>3, <1>4, <1>5, <1>8, Zenon DEF Verify
  <1>9. QED BY <1>1, <1>2, <1>6, <1>7, <1>8, Zenon DEF StepGraph

LEMMA TaskStepContract ==
  ASSUME IInv, StepTask
  PROVE  [Contract!Next]_(Contract!vars)
  <1>1. Tasked \/ \E errors \in 1..MaxNodes : GraphBlamed(errors)
    BY Zenon DEF StepTask, SkipToDone, Executed, ExecutionErrs, AnchorFailed,
                 HandedOver, NoNodeBlamed
  <1>2. ASSUME Tasked
        PROVE  surfaced = "Running" /\ phase = "Task" /\ cleared = TRUE
    BY <1>2 DEF Tasked, Round, Paid, IInv, ClearedToRun, TypeOK
  <1>3. ASSUME Tasked, surfaced' = "Error", phase' = "Poisoned", cleared' \in BOOLEAN
        PROVE  Contract!Next
    BY <1>2, <1>3, HandsOfSurfaced DEF Contract!Next, Contract!Fail, Final
  <1>4. CASE SkipToDone
    BY <1>2, <1>4, HandsOfSurfaced
       DEF SkipToDone, Stop, GiveUp, Contract!Next, Contract!Execute, Final
  <1>5. CASE Executed
    <2>1. Tasked /\ RunOn("Review") /\ cleared' = cleared
      BY <1>5 DEF Executed
    <2>2. CASE surfaced' = "Running" /\ phase' = "Review"
      BY <1>2, <2>1, <2>2, HandsOfSurfaced DEF Contract!Next, Contract!Execute
    <2>3. QED BY <1>2, <1>3, <2>1, <2>2, RunOnTells
  <1>6. CASE ExecutionErrs
    BY <1>2, <1>3, <1>6 DEF ExecutionErrs, Stop, GiveUp
  <1>7. CASE AnchorFailed
    BY <1>2, <1>7, HandsOfSurfaced
       DEF AnchorFailed, Stop, GiveUp, Contract!Next, Contract!Redesign, Final
  <1>8. CASE NoNodeBlamed
    <2>1. Tasked /\ RunOn("Graph") /\ cleared' = cleared
      BY <1>8 DEF NoNodeBlamed
    <2>2. CASE surfaced' = "Running" /\ phase' = "Graph"
      BY <1>2, <2>1, <2>2, HandsOfSurfaced DEF Contract!Next, Contract!Redesign
    <2>3. QED BY <1>2, <1>3, <2>1, <2>2, RunOnTells
  <1>9. CASE HandedOver
    BY <1>2, <1>9, HandsOfSurfaced
       DEF HandedOver, Stop, GiveUp, Contract!Next, Contract!Redesign
  <1>10. ASSUME NEW errors \in 1..MaxNodes, GraphBlamed(errors)
         PROVE  UNCHANGED Contract!vars
    BY <1>10 DEF GraphBlamed, Contract!vars
  <1>11. QED BY <1>4, <1>5, <1>6, <1>7, <1>8, <1>9, <1>10, Zenon DEF StepTask

(* Redesigning is one step of the contract for every node: the graph may   *)
(* have changed, and is not executed before it is cleared again.           *)
LEMMA RedesignStepContract ==
  ASSUME IInv, StepRedesign
  PROVE  Contract!Next
  <1>1. ASSUME NEW g \in Graphs, Redesigning(g),
               \/ surfaced' = "Running" /\ phase' \in {"Task", "Graph"}
               \/ surfaced' = "GraphInvalid" /\ phase' = "Task"
        PROVE  Contract!Next
    BY <1>1, RedesigningState, HandsOfSurfaced DEF Contract!Next, Contract!Redesign
  <1>2. ASSUME NEW g \in Graphs, Redesigned(g)
        PROVE  Contract!Next
    <2>1. Redesigning(g)
      BY <1>2 DEF Redesigned
    <2>2. CASE surfaced' = "Error" /\ phase' = "Poisoned"
      BY <2>1, <2>2, RedesigningState, HandsOfSurfaced
         DEF Contract!Next, Contract!Fail, Final
    <2>3. \/ UNCHANGED <<phase, surfaced>>
          \/ surfaced' = "Running" /\ phase' = "Graph"
          \/ surfaced' = "Error" /\ phase' = "Poisoned"
      BY <1>2, RunOnTells DEF Redesigned
    <2>4. QED BY <1>1, <2>1, <2>2, <2>3, RedesigningState
  <1>3. ASSUME NEW g \in Graphs, CascadeRecurses(g)
        PROVE  Contract!Next
    BY <1>1, <1>3, RedesigningState DEF CascadeRecurses
  <1>4. ASSUME NEW g \in Graphs, RedesignFails(g)
        PROVE  Contract!Next
    BY <1>1, <1>4 DEF RedesignFails, Stop
  <1>5. QED BY <1>2, <1>3, <1>4, Zenon DEF StepRedesign

LEMMA ReviewStepContract ==
  ASSUME IInv, StepReview
  PROVE  Contract!Next
  <1>1. Reviewed
    BY Zenon DEF StepReview, ReviewEnds, ReviewErrs, ReviewBlamesGraph, ReviewerPanics
  <1>2. /\ surfaced = "Running" /\ phase = "Review"
        /\ cleared = TRUE /\ cleared' = cleared
    BY <1>1 DEF Reviewed, Round, Paid, IInv, ClearedToRun, TypeOK
  <1>3. CASE ReviewEnds
    BY <1>2, <1>3, HandsOfSurfaced
       DEF ReviewEnds, Stop, GiveUp, Contract!Next, Contract!Judge, Final
  <1>4. CASE ReviewErrs
    BY <1>2, <1>4, HandsOfSurfaced
       DEF ReviewErrs, Stop, GiveUp, Contract!Next, Contract!Fail, Final
  <1>5. CASE ReviewBlamesGraph
    BY <1>2, <1>5, HandsOfSurfaced
       DEF ReviewBlamesGraph, Stop, GiveUp, Contract!Next, Contract!Judge
  <1>6. CASE ReviewerPanics
    BY <1>2, <1>6, HandsOfSurfaced
       DEF ReviewerPanics, Stop, Contract!Next, Contract!Fail, Final
  <1>7. QED BY <1>3, <1>4, <1>5, <1>6, Zenon DEF StepReview

LEMMA DriverStepContract ==
  ASSUME IInv, Exhaust \/ Resumed \/ Cancel
  PROVE  [Contract!Next]_(Contract!vars)
  <1>0. cleared \in BOOLEAN
    BY DEF IInv, TypeOK
  <1>1. CASE Exhaust
    BY <1>0, <1>1, HandsOfSurfaced
       DEF Exhaust, Stop, GiveUp, Contract!Next, Contract!Fail, Final
  <1>2. CASE Resume
    BY <1>2, HandsOfSurfaced DEF Resume, Contract!Next, Contract!Answer
  <1>3. CASE ResumeForce
    BY <1>3, HandsOfSurfaced DEF ResumeForce, Contract!Next, Contract!Override
  <1>4. ASSUME NEW g \in Graphs, ResumeWithRepairedGraph(g)
        PROVE  Contract!Next
    BY <1>4, HandsOfSurfaced DEF ResumeWithRepairedGraph, Contract!Next, Contract!Repair
  <1>5. CASE Cancel
    BY <1>5 DEF Cancel, Contract!vars
  <1>6. QED BY <1>1, <1>2, <1>3, <1>4, <1>5, Zenon DEF Resumed

LEMMA StepContract == IInv /\ [Next]_vars => [Contract!Next]_(Contract!vars)
  <1> SUFFICES ASSUME IInv, [Next]_vars PROVE [Contract!Next]_(Contract!vars)
    OBVIOUS
  <1>1. CASE Next
    BY <1>1, GraphStepContract, TaskStepContract, RedesignStepContract,
       ReviewStepContract, DriverStepContract, Zenon DEF Next, Step
  <1>2. CASE UNCHANGED vars
    BY <1>2 DEF vars, Contract!vars
  <1>3. QED BY <1>1, <1>2

LEMMA InitContract == Init => Contract!Init
  BY HandsOfSurfaced DEF Init, Contract!Init

(* Whatever the limits, the profiles and the answers the loop is given:    *)
(* only a cleared graph is executed, reviewed or reported as done, a run   *)
(* handed over for repair comes back through the Graph phase, and a run    *)
(* that is over stays over.                                                *)
THEOREM Implements == Spec => HonoursContract
  BY InitContract, StepContract, Invariant, PTL
     DEF Spec, HonoursContract, Contract!Spec
----------------------------------------------------------------------------
(* TaskGraph, the plan.  Its variable at is called at here.            *)

(* Sub-nodes are nodes; a level is expanded over nodes. *)
NodesKnown ==
  /\ work.contains \subseteq work.ids \X work.ids
  /\ todo \subseteq work.ids
  /\ plan.ids \subseteq work.ids /\ plan.contains = {}

(* Every node has all of a reply or nothing, during the expansion too.     *)
Whole ==
  /\ work.ids = plan.ids \cup UNION {Children(work, n) : n \in work.ids}
  /\ \A n \in work.ids : Children(work, n) # {} =>
       \E g \in Growths : Children(work, n) = g.ids /\ g.flow \subseteq work.leads

(* Dependencies for the scheduler are those of a skill. *)
PlanDepends ==
  /\ work.depends = plan.depends /\ plan.depends \subseteq plan.ids \X plan.ids
  /\ source # "skill" => plan.depends = {}

(* The dispatcher has looked for cycles before it starts anything. *)
Cleared ==
  /\ started # {} => where \in {"dispatch", "review", "poisoned"} /\ ~Cyclic
  /\ where = "dispatch" => work.ids # {}
  /\ where = "review" => ~Cyclic
  /\ where = "refused" => Cyclic

(* Nothing waits to be expanded before there is a plan. *)
AtRest == where \in {"plan", "retry"} => todo = {}

PlanIInv == PlanTypeOK /\ NodesKnown /\ Whole /\ PlanDepends /\ Cleared /\ AtRest

LEMMA NoTasksIsAGraph ==
  /\ NoTasks \in Tasks
  /\ NoTasks.ids = {} /\ NoTasks.concrete = {} /\ NoTasks.depends = {}
  /\ NoTasks.leads = {} /\ NoTasks.contains = {}
BY DEF NoTasks, Tasks

(* A plan is taken over, and nothing else has happened. *)
LEMMA PlannedInv ==
  ASSUME PlanIInv, NEW g \in Tasks, NEW from \in {"skill", "decomposer"},
         Planned(g, from),
         where \in {"plan", "retry"}, g.contains = {}, g.depends \subseteq g.ids \X g.ids,
         from # "skill" => g.depends = {}
  PROVE  PlanIInv'
<1>1. /\ plan' = g /\ work' = g /\ source' = from /\ where' = "expand"
      /\ UNCHANGED <<level, todo, started, finished>>
  BY DEF Planned
<1>2. started = {}
  BY DEF PlanIInv, Cleared
<1>3. todo = {}
  BY DEF PlanIInv, AtRest
<1>4. PlanTypeOK'
  BY <1>1, <1>2 DEF PlanIInv, PlanTypeOK
<1>5. \A n \in g.ids : Children(g, n) = {}
  BY DEF Children
<1>6. NodesKnown' /\ PlanDepends' /\ Cleared' /\ AtRest'
  BY <1>1, <1>2, <1>3 DEF NodesKnown, PlanDepends, Cleared, AtRest
<1>7. Whole'
  BY <1>1, <1>5 DEF Whole
<1> QED
  BY <1>4, <1>6, <1>7 DEF PlanIInv

LEMMA PlansInv ==
  ASSUME PlanIInv, Plan
  PROVE  PlanIInv'
<1>1. ASSUME NEW f \in Flows, CompileSkill(f) PROVE PlanIInv'
  <2> DEFINE g == [NoTasks EXCEPT !.ids = f.ids, !.depends = Within(f.flow, f.ids)]
  <2>1. f \in [ids : SUBSET TaskIds, flow : SUBSET Pair]
    BY TaskGraphAssumption
  <2>2. /\ Within(f.flow, f.ids) \subseteq f.ids \X f.ids
        /\ Within(f.flow, f.ids) \in SUBSET Pair
    BY <2>1 DEF Within, Pair
  <2>3. /\ g.ids = f.ids /\ g.depends = Within(f.flow, f.ids) /\ g.contains = {}
    BY NoTasksIsAGraph DEF Tasks
  <2>4. g \in Tasks /\ g.contains = {} /\ g.depends \subseteq g.ids \X g.ids
    BY <2>1, <2>2, <2>3, NoTasksIsAGraph DEF Tasks
  <2>5. Planned(g, "skill") /\ where \in {"plan", "retry"}
    BY <1>1 DEF CompileSkill
  <2> HIDE DEF g
  <2> QED
    BY <2>4, <2>5, PlannedInv
<1>2. ASSUME NEW p \in Plans, Decompose(p) \/ RetryInText(p) PROVE PlanIInv'
  <2>1. p \in [ids : SUBSET TaskIds, deps : SUBSET Pair]
    BY TaskGraphAssumption
  <2>2. Built(p).contains = {} /\ Built(p).depends = {}
    BY NoTasksIsAGraph DEF Tasks, Built
  <2>3. Built(p) \in Tasks
    BY <2>1, NoTasksIsAGraph DEF Tasks, Built
  <2>4. Planned(Built(p), "decomposer") /\ where \in {"plan", "retry"}
    BY <1>2 DEF Decompose, RetryInText
  <2> QED
    BY <2>2, <2>3, <2>4, PlannedInv
<1>3. CASE Malformed \/ DecomposeErrs
  <2>1. /\ where \in {"plan", "retry"} /\ where' \in {"retry", "poisoned"}
        /\ UNCHANGED <<source, plan, work, level, todo, started, finished>>
    BY <1>3 DEF Malformed, DecomposeErrs, Poison
  <2>2. PlanTypeOK' /\ NodesKnown' /\ Whole' /\ PlanDepends'
    BY <2>1 DEF PlanIInv, PlanTypeOK, NodesKnown, Whole, PlanDepends
  <2>3. Cleared' /\ AtRest'
    BY <2>1 DEF PlanIInv, Cleared, AtRest
  <2> QED
    BY <2>2, <2>3 DEF PlanIInv
<1> QED
  BY <1>1, <1>2, <1>3 DEF Plan

(* A level, one of its nodes. *)
LEMMA LevelInv ==
  ASSUME PlanIInv, EnterLevel \/ \E n \in TaskIds : Leaf(n)
  PROVE  PlanIInv'
<1>1. /\ where = "expand" /\ UNCHANGED <<where, source, plan, work, started, finished>>
      /\ todo' \subseteq work.ids
  BY DEF EnterLevel, Leaf, ToExpand, PlanIInv, NodesKnown
<1>2. level' \in 0..MaxExpandDepth
  <2>1. MaxExpandDepth \in Nat /\ level \in 0..MaxExpandDepth
    BY TaskGraphAssumption DEF PlanIInv, PlanTypeOK
  <2> QED
    BY <2>1 DEF EnterLevel, Leaf
<1>3. PlanTypeOK' /\ NodesKnown' /\ Whole' /\ PlanDepends'
  <2>1. work.ids \subseteq TaskIds
    BY DEF PlanIInv, PlanTypeOK, Tasks
  <2> QED
    BY <1>1, <1>2, <2>1 DEF PlanIInv, PlanTypeOK, NodesKnown, Whole, PlanDepends
<1>4. Cleared' /\ AtRest'
  BY <1>1 DEF PlanIInv, Cleared, AtRest
<1> QED
  BY <1>3, <1>4 DEF PlanIInv

(* An expansion that is accepted is whole: no sub-node of it was anyone's  *)
(* before, and it adds to the sub-nodes of no other node.                  *)
LEMMA ExpandInv ==
  ASSUME PlanIInv, NEW n \in TaskIds, NEW g \in Growths,
         Expand(n, g)
  PROVE  PlanIInv'
<1>1. /\ where = "expand" /\ n \in todo /\ Children(work, n) = {} /\ g.ids # {}
      /\ \A q \in work.contains : q[2] \in g.ids => q[1] = n
      /\ \A p \in g.flow : p[1] \in work.ids \cup g.ids /\ p[2] \in work.ids \cup g.ids
      /\ work' = Grown(n, g) /\ todo' = todo \ {n}
      /\ UNCHANGED <<where, source, plan, level, started, finished>>
  BY DEF Expand, Expandable, Accepted
<1>2. /\ work \in Tasks /\ g \in Growth /\ n \in work.ids
      /\ work.contains \subseteq work.ids \X work.ids
  BY <1>1, TaskGraphAssumption DEF PlanIInv, PlanTypeOK, NodesKnown
<1>3. /\ work'.ids = work.ids \cup g.ids
      /\ work'.concrete = (work.concrete \ g.ids) \cup (g.concrete \cap g.ids)
      /\ work'.contains = work.contains \cup {<<n, i>> : i \in g.ids}
      /\ work'.leads = work.leads \cup g.flow
      /\ work'.depends = work.depends
  BY <1>1, <1>2 DEF Grown, Tasks
<1>4. work' \in Tasks
  <2>1. work' = [ids |-> work'.ids, concrete |-> work'.concrete, depends |-> work'.depends,
                 leads |-> work'.leads, contains |-> work'.contains]
    BY <1>1, <1>2 DEF Grown, Tasks
  <2>2. /\ work'.ids \in SUBSET TaskIds /\ work'.concrete \in SUBSET TaskIds
        /\ work'.depends \in SUBSET Pair /\ work'.leads \in SUBSET Pair
    BY <1>2, <1>3 DEF Tasks, Growth
  <2>3. work'.contains \in SUBSET Pair
    BY <1>2, <1>3 DEF Tasks, Growth, Pair
  <2> QED
    BY <2>1, <2>2, <2>3 DEF Tasks
<1>5. started = {}
  BY <1>1 DEF PlanIInv, Cleared
<1>6. PlanTypeOK'
  BY <1>1, <1>4, <1>5 DEF PlanIInv, PlanTypeOK
<1>7. Children(work', n) = g.ids
  <2>1. \A q \in work.contains : q[1] # n
    BY <1>1 DEF Children
  <2>2. \A q : q \in work'.contains /\ q[1] = n <=> \E i \in g.ids : q = <<n, i>>
    BY <1>3, <2>1
  <2>3. \A i : <<n, i>>[1] = n /\ <<n, i>>[2] = i
    OBVIOUS
  <2>4. \A i \in g.ids : <<n, i>> \in {q \in work'.contains : q[1] = n}
    BY <2>2, <2>3
  <2>5. \A q \in {q \in work'.contains : q[1] = n} : q[2] \in g.ids
    BY <2>2, <2>3
  <2> QED
    BY <2>3, <2>4, <2>5 DEF Children
<1>8. \A m : m # n => Children(work', m) = Children(work, m)
  BY <1>3 DEF Children
<1>9. \A m : m \notin work.ids => Children(work, m) = {}
  BY <1>2 DEF Children
<1>10. NodesKnown'
  BY <1>1, <1>2, <1>3 DEF PlanIInv, NodesKnown
<1>11. Whole'
  <2>1. /\ work.ids = plan.ids \cup UNION {Children(work, m) : m \in work.ids}
        /\ \A m \in work.ids : Children(work, m) # {} =>
             \E h \in Growths : Children(work, m) = h.ids /\ h.flow \subseteq work.leads
    BY DEF PlanIInv, Whole
  <2>2. \A m \in work'.ids : Children(work', m) # {} =>
          \E h \in Growths : Children(work', m) = h.ids /\ h.flow \subseteq work'.leads
    BY <1>3, <1>7, <1>8, <1>9, <2>1
  <2>3. work'.ids = plan.ids \cup UNION {Children(work', m) : m \in work'.ids}
    <3>1. \A i \in work'.ids : i \in plan.ids \/ \E m \in work'.ids : i \in Children(work', m)
      BY <1>1, <1>2, <1>3, <1>7, <1>8, <2>1
    <3>2. \A m \in work'.ids : Children(work', m) \subseteq work'.ids
      BY <1>3, <1>7, <1>8, <1>9, <2>1
    <3>3. plan.ids \subseteq work'.ids
      BY <1>3 DEF PlanIInv, NodesKnown
    <3> QED
      BY <3>1, <3>2, <3>3
  <2> QED
    BY <1>1, <2>2, <2>3 DEF Whole
<1>12. PlanDepends' /\ Cleared' /\ AtRest'
  BY <1>1, <1>3, <1>5 DEF PlanIInv, PlanDepends, Cleared, AtRest
<1> QED
  BY <1>6, <1>10, <1>11, <1>12 DEF PlanIInv

(* The plan by itself, or what it has become, goes to the dispatcher.      *)
LEMMA ToDispatchInv ==
  ASSUME PlanIInv, where = "expand", NEW g \in {plan, work}, ToDispatch(g)
  PROVE  PlanIInv'
<1>1. /\ work' = g /\ todo' = {} /\ where' = IF g.ids = {} THEN "review" ELSE "dispatch"
      /\ UNCHANGED <<source, plan, level, started, finished>>
  BY DEF ToDispatch
<1>2. started = {} /\ plan.depends = work.depends
  BY DEF PlanIInv, Cleared, PlanDepends
<1>3. PlanTypeOK'
  BY <1>1, <1>2 DEF PlanIInv, PlanTypeOK
<1>4. NodesKnown'
  BY <1>1 DEF PlanIInv, NodesKnown
<1>5. \A n : Children(plan, n) = {}
  BY DEF PlanIInv, NodesKnown, Children
<1>6. Whole'
  BY <1>1, <1>5 DEF PlanIInv, Whole
<1>7. PlanDepends' /\ AtRest'
  BY <1>1, <1>2 DEF PlanIInv, PlanDepends, AtRest
<1>8. Cleared'
  <2>1. g.ids = {} => ~Cyclic'
    BY <1>1 DEF Cyclic, Circle
  <2> QED
    BY <1>1, <1>2, <2>1 DEF Cleared
<1> QED
  BY <1>3, <1>4, <1>6, <1>7, <1>8 DEF PlanIInv

LEMMA PlanDispatchInv == ASSUME PlanIInv, Dispatch PROVE PlanIInv'
<1>1. /\ where = "dispatch" /\ UNCHANGED <<source, plan, work, level, todo>>
  BY DEF Dispatch, DispatchRefuses, DispatchReturns, DispatchErrs,
         Poison, StartTask, TaskEnds
<1>2. Cyclic' <=> Cyclic
  BY <1>1 DEF Cyclic, Circle
<1>3. NodesKnown' /\ Whole' /\ PlanDepends'
  BY <1>1 DEF PlanIInv, NodesKnown, Whole, PlanDepends
<1>4. CASE DispatchRefuses
  BY <1>1, <1>2, <1>3, <1>4 DEF DispatchRefuses, PlanIInv, PlanTypeOK, Cleared, AtRest
<1>5. CASE DispatchReturns
  <2>1. where' = "review" /\ UNCHANGED <<started, finished>> /\ finished = work.ids
    BY <1>5 DEF DispatchReturns
  <2>2. started # {}
    BY <1>1, <2>1 DEF PlanIInv, PlanTypeOK, Cleared
  <2> QED
    BY <1>1, <1>2, <1>3, <2>1, <2>2 DEF PlanIInv, PlanTypeOK, Cleared, AtRest
<1>6. CASE DispatchErrs
  BY <1>1, <1>2, <1>3, <1>6
     DEF DispatchErrs, Poison, PlanIInv, PlanTypeOK, Cleared, AtRest
<1>7. ASSUME NEW t \in TaskIds, StartTask(t) \/ TaskEnds(t) PROVE PlanIInv'
  <2>1. /\ where' = where /\ started' \subseteq work.ids /\ finished' \subseteq started'
        /\ started' # {} => ~Cyclic
    BY <1>7 DEF StartTask, TaskEnds, PlanIInv, PlanTypeOK, Cleared
  <2> QED
    BY <1>1, <1>2, <1>3, <2>1 DEF PlanIInv, PlanTypeOK, Cleared, AtRest
<1> QED
  BY <1>4, <1>5, <1>6, <1>7 DEF Dispatch

LEMMA PlanInitIInv == ASSUME PlanInit PROVE PlanIInv
<1>1. /\ NoTasks \in Tasks
      /\ NoTasks.ids = {} /\ NoTasks.contains = {} /\ NoTasks.depends = {}
  BY NoTasksIsAGraph
<1>2. PlanTypeOK
  BY <1>1, TaskGraphAssumption DEF PlanInit, PlanTypeOK
<1>3. NodesKnown /\ Whole /\ PlanDepends /\ Cleared /\ AtRest
  BY <1>1 DEF PlanInit, NodesKnown, Whole, PlanDepends, Cleared, AtRest
<1> QED
  BY <1>2, <1>3 DEF PlanIInv

LEMMA PlanNextIInv ==
  ASSUME PlanIInv, [PlanNext]_planning
  PROVE  PlanIInv'
<1>1. ASSUME NEW n \in TaskIds, NEW g \in Growths, ExpandRefused(n, g) PROVE PlanIInv'
  BY <1>1, ToDispatchInv DEF ExpandRefused, Expandable
<1>2. CASE HandOver
  BY <1>2, ToDispatchInv DEF HandOver
<1>3. CASE Expansion
  BY <1>1, <1>2, <1>3, LevelInv, ExpandInv DEF Expansion
<1>4. CASE UNCHANGED planning
  <2>1. PlanTypeOK' /\ NodesKnown' /\ Whole' /\ PlanDepends'
    BY <1>4 DEF planning, PlanIInv, PlanTypeOK, NodesKnown, Whole, PlanDepends
  <2>2. Cleared' /\ AtRest'
    BY <1>4 DEF planning, PlanIInv, Cleared, Cyclic, Circle, AtRest
  <2> QED
    BY <2>1, <2>2 DEF PlanIInv
<1> QED
  BY <1>3, <1>4, PlansInv, PlanDispatchInv DEF PlanNext

LEMMA AlwaysPlanIInv == PlanSpec => []PlanIInv
BY PlanInitIInv, PlanNextIInv, PTL DEF PlanSpec

(* TaskGraph: plans and expanded graphs stay graphs over the ids there     *)
(* are, the depth of the expansion within its limit, and only tasks that   *)
(* are started come to an end, whatever the models reply.                  *)
THEOREM PlanTypeCorrect == PlanSpec => []PlanTypeOK
<1>1. PlanIInv => PlanTypeOK
  BY DEF PlanIInv
<1> QED
  BY <1>1, AlwaysPlanIInv, PTL

(* TaskGraph: however often a level is expanded, fails or is refused half  *)
(* way, what goes to the dispatcher is the plan and whole expansions of    *)
(* it: no node has a part of a reply, none is there that nobody planned.   *)
THEOREM HandsOverWhole == PlanSpec => []HandedOverWhole
<1>1. PlanIInv => HandedOverWhole
  BY DEF PlanIInv, Whole, HandedOverWhole
<1> QED
  BY <1>1, AlwaysPlanIInv, PTL

(* TaskGraph: the dispatcher turns down a plan exactly if it is a skill    *)
(* whose flow has a loop; expansions neither make nor hide one.            *)
THEOREM RefusesOnlyLoops == PlanSpec => []OnlyLoopingSkillsRefused
<1>1. ASSUME PlanIInv PROVE OnlyLoopingSkillsRefused
  <2> DEFINE Loops(S) == \A s \in S : \E t \in S : <<s, t>> \in plan.depends
  <2>1. Cyclic <=> \E S \in (SUBSET plan.ids) \ {{}} : Loops(S)
    <3>1. /\ work.depends = plan.depends /\ plan.depends \subseteq plan.ids \X plan.ids
          /\ plan.ids \subseteq work.ids
      BY <1>1 DEF PlanIInv, PlanDepends, NodesKnown
    <3>2. \A S : Loops(S) => S \subseteq plan.ids
      BY <3>1
    <3>3. \A S : Loops(S) => \A s \in S : \E t \in S : <<s, t>> \in work.depends
      BY <3>1
    <3>4. ASSUME NEW S \in (SUBSET plan.ids) \ {{}}, Loops(S) PROVE Cyclic
      <4>1. S \in SUBSET work.ids /\ S # {}
        BY <3>1, <3>4
      <4> QED
        BY <3>3, <3>4, <4>1 DEF Cyclic, Circle
    <3>5. ASSUME Cyclic PROVE \E S \in (SUBSET plan.ids) \ {{}} : Loops(S)
      <4>1. PICK S \in SUBSET work.ids : Circle(S)
        BY <3>5 DEF Cyclic
      <4>2. S # {} /\ Loops(S)
        BY <3>1, <4>1 DEF Circle
      <4>3. S \in (SUBSET plan.ids) \ {{}}
        BY <3>2, <4>2
      <4> QED
        BY <4>2, <4>3
    <3> QED
      BY <3>4, <3>5
  <2>2. plan.depends = {} => ~ \E S \in (SUBSET plan.ids) \ {{}} : Loops(S)
    OBVIOUS
  <2>3. source # "skill" => ~Cyclic
    BY <1>1, <2>1, <2>2 DEF PlanIInv, PlanDepends
  <2> QED
    BY <1>1, <2>1, <2>3 DEF PlanIInv, Cleared, OnlyLoopingSkillsRefused
<1> QED
  BY <1>1, AlwaysPlanIInv, PTL

=============================================================================
