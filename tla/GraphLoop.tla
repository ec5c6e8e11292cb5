----------------------------- MODULE GraphLoop -----------------------------
(***************************************************************************)
(* The Graph -> Task -> Review state machine of src/agent/graph_loop.rs,   *)
(* together with the driver that steps it: `GraphLoop::step` under         *)
(* `&mut self`, and what a driver does with the LoopState it returns.      *)
(*                                                                         *)
(* One call of step() is one action, but for the redesign of failed nodes, *)
(* which calls itself and takes a step of its own for every node.  What    *)
(* the model, the tools, the verifier, the dispatcher and the reviewer     *)
(* answer is drawn from the environment, so an action stands for one kind  *)
(* of answer.  Text added to the conversation, hints, hooks and events are *)
(* left out; every guard, counter, phase change and early return is kept.  *)
(*                                                                         *)
(* A graph is what the loop can tell about it: how many nodes it has, a    *)
(* form (edge count and node ids, as far as graph_fingerprint sees them)   *)
(* and whether replay_from_anchor finds orphans.                           *)
(***************************************************************************)
EXTENDS Integers, FiniteSets

CONSTANTS
  Profiles,             (* the configurations the program builds loops with *)
  MaxNodes,             (* bound: largest graph                             *)
  Forms,                (* bound: graphs of one size that can be told apart *)
  Outputs,              (* what a tool call may print                       *)
  Tools,
  MaxRounds,            (* GraphLoopConfig::max_rounds                      *)
  SeedingStallLimit,    (* SEEDING_STALL_LIMIT                              *)
  ForceSearchAfter,     (* force_search_after_filling_stall                 *)
  ExpandAt,             (* Filling -> Expanding at this many nodes          *)
  StagnationTerminate,
  StuckTerminate,
  ToolFailureHalt,
  ClarificationMax,
  ExploreMax

(* What differs between the loops that the web driver, the command line    *)
(* and fork_sub_graph_for build.                                           *)
Profile == [heartbeat : BOOLEAN,  (* is_heartbeat                           *)
            schema    : BOOLEAN,  (* a graph_schema is set                  *)
            repairer  : BOOLEAN,
            executes  : BOOLEAN,  (* decomposer, dispatcher and loader set  *)
            cascade   : BOOLEAN,  (* a CascadeBacktracker is set            *)
            reviewer  : BOOLEAN,
            drills    : BOOLEAN]  (* current_depth < max_drilldown_depth    *)

(* drive_run: everything there is, and no schema.                          *)
WebLoop == [heartbeat |-> FALSE, schema |-> FALSE, repairer |-> TRUE,
            executes |-> TRUE, cascade |-> TRUE, reviewer |-> TRUE, drills |-> TRUE]

(* drive_run while a heartbeat is active.                                  *)
HeartbeatLoop == [WebLoop EXCEPT !.heartbeat = TRUE, !.schema = TRUE]

(* The command line: no cascade.                                           *)
CliLoop == [WebLoop EXCEPT !.cascade = FALSE]

(* new_with_depth at the deepest level: no execution, no review, no fork.  *)
SubLoop == [WebLoop EXCEPT !.executes = FALSE, !.cascade = FALSE,
                           !.reviewer = FALSE, !.drills = FALSE]

ASSUME LimitsAssumption ==
  /\ Profiles \subseteq Profile
  /\ Forms # {}
  /\ MaxNodes \in Nat /\ MaxNodes >= 2 /\ MaxRounds \in Nat
  /\ \A limit \in {SeedingStallLimit, ForceSearchAfter, ExpandAt,
                   StagnationTerminate, StuckTerminate, ToolFailureHalt} :
       limit \in Nat \ {0}
  /\ ClarificationMax \in Nat /\ ExploreMax \in Nat

VARIABLES
  config,       (* the profile of this loop                                 *)
  phase, graphPhase, pending,
  surfaced,     (* the LoopState the last step() returned, or Panicked      *)
  round,
  cancelled,
  graph,
  watch,        (* last_graph_fingerprint and graph_stagnation_count        *)
  streak,       (* the other guards' counters                               *)
  drill,        (* queued: pending_fork_targets, running: pending_sub_runs, *)
                (* failed: drill_down_error                                 *)
  blamed,       (* the errors handle_task_phase_graph_errors has still to   *)
                (* see to: while there are any, step() has not returned     *)
  cleared       (* history: the graph in hand passed verification, or the   *)
                (* caller insisted on it, since it last changed             *)

vars == <<config, phase, graphPhase, pending, surfaced, round, cancelled,
          graph, watch, streak, drill, blamed, cleared>>

Phase      == {"Graph", "Task", "Review", "Done", "Poisoned"}
GraphPhase == {"Clarifying", "Seeding", "Filling", "Expanding"}
Final      == {"TaskFailed", "Done", "Error", "Panicked"}
Surfaced   == {"Running", "Paused", "GraphInvalid"} \cup Final

Graphs == {g \in [size : 0..MaxNodes, form : Forms, orphans : BOOLEAN] :
             g.orphans => g.size > 1}

Fingerprint(g) == <<g.size, g.form>>

----------------------------------------------------------------------------
(* How step() ends.  Running goes through check_graph_stagnation, on the   *)
(* graph the round leaves behind; every other state is returned as it is.  *)

Stop(state, ph) ==
  /\ surfaced' = state /\ phase' = ph
  /\ UNCHANGED watch

(* check_graph_stagnation when the graph is the one the last round left.   *)
Stagnating(ph) ==
  \/ /\ watch.count + 1 < StagnationTerminate
     /\ watch' = [watch EXCEPT !.count = @ + 1]
     /\ surfaced' = "Running" /\ phase' = ph
  \/ /\ watch.count + 1 >= StagnationTerminate
     /\ config.cascade   (* backtrack_from found something to repair *)
     /\ watch' = [watch EXCEPT !.count = 0]
     /\ surfaced' = "Running" /\ phase' = ph
  \/ /\ watch.count + 1 >= StagnationTerminate
     /\ watch' = [watch EXCEPT !.count = @ + 1]
     /\ surfaced' = "Error" /\ phase' = "Poisoned"

(* summarize_with_no_tools: the model is asked once more, without tools,   *)
(* and again when that fails; the run ends whether or not it answers.      *)
GiveUp == Stop("Error", "Poisoned")

RunOn(ph) ==
  IF Fingerprint(graph') \in watch.last THEN Stagnating(ph)
  ELSE /\ watch' = [last |-> {Fingerprint(graph')}, count |-> 0]
       /\ surfaced' = "Running" /\ phase' = ph

(* Mutant: a round spent waiting for a sub-run is not counted. *)
RoundFreeWhileDrilling(ph) ==
  /\ surfaced = "Running" /\ phase = ph /\ blamed = 0 /\ round < MaxRounds
  /\ round' = IF drill.running > 0 THEN round ELSE round + 1
  /\ UNCHANGED <<config, cancelled>>

(* The part of step() before the dispatch on the phase: only a driver that *)
(* was told Running calls it, and the round is paid for.                   *)
Paid(ph) ==
  /\ surfaced = "Running" /\ phase = ph /\ blamed = 0 /\ round < MaxRounds
  /\ round' = round + 1
  /\ UNCHANGED <<config, cancelled>>

Round(ph) == Paid(ph) /\ UNCHANGED blamed

(* max_rounds reached: poisoned without a round.                           *)
Exhaust ==
  /\ surfaced = "Running" /\ blamed = 0 /\ round >= MaxRounds
  /\ GiveUp
  /\ UNCHANGED <<config, graphPhase, pending, round, cancelled, graph,
                 streak, drill, blamed, cleared>>

----------------------------------------------------------------------------
(* The Graph phase up to the proposer call: cancellation, the fork queue,  *)
(* polling, the failure of a sub-run, the seeding guard.                   *)

(* Sub-runs tracked once the queue is drained; too deep a fork is dropped. *)
InFlight == drill.running + (IF config.drills THEN drill.queued ELSE 0)

NoDrill == [queued |-> 0, running |-> 0, failed |-> FALSE]

Cancelled ==
  /\ Round("Graph") /\ cancelled
  /\ drill' = [drill EXCEPT !.queued = 0, !.running = 0]
  /\ Stop("Error", "Graph")
  /\ UNCHANGED <<graphPhase, pending, graph, streak, cleared>>

(* Mutant: the queue is read and not taken. *)
WaitKeepingQueue(left, failed) ==
  /\ Round("Graph") /\ ~cancelled
  /\ left \in 1..InFlight
  /\ drill' = [drill EXCEPT !.running = left, !.failed = @ \/ failed]
  /\ UNCHANGED <<graphPhase, pending, graph, streak, cleared>>
  /\ RunOn("Graph")

(* Mutant: the queue is drained whether or not the loop was cancelled. *)
WaitThoughCancelled(left, failed) ==
  /\ Round("Graph")
  /\ left \in 1..InFlight
  /\ drill' = [queued |-> 0, running |-> left, failed |-> drill.failed \/ failed]
  /\ UNCHANGED <<graphPhase, pending, graph, streak, cleared>>
  /\ RunOn("Graph")

(* Some sub-runs are still running or have timed out: their handles stay,  *)
(* a failure or a timeout is remembered, and the proposer is not asked.    *)
Wait(left, failed) ==
  /\ Round("Graph") /\ ~cancelled
  /\ left \in 1..InFlight
  /\ drill' = [queued |-> 0, running |-> left, failed |-> drill.failed \/ failed]
  /\ UNCHANGED <<graphPhase, pending, graph, streak, cleared>>
  /\ RunOn("Graph")

(* Mutant: the failure is surfaced and the loop does not wait for a repair. *)
ReportSubRunUnpended ==
  /\ Round("Graph") /\ ~cancelled
  /\ drill.failed \/ InFlight > 0
  /\ drill' = NoDrill
  /\ UNCHANGED pending
  /\ Stop("GraphInvalid", "Graph")
  /\ UNCHANGED <<graphPhase, graph, streak, cleared>>

(* Every handle is gone and one of the sub-runs failed, now or earlier.    *)
ReportSubRun ==
  /\ Round("Graph") /\ ~cancelled
  /\ drill.failed \/ InFlight > 0
  /\ drill' = NoDrill
  /\ pending' = "repair"
  /\ Stop("GraphInvalid", "Graph")
  /\ UNCHANGED <<graphPhase, graph, streak, cleared>>

(* Mutant: drill_down_error is not looked at. *)
FreeThoughFailed == Round("Graph") /\ ~cancelled

(* What is in flight, if anything, ended well this round.                  *)
Free == Round("Graph") /\ ~cancelled /\ ~drill.failed

EmptySeeding == graphPhase = "Seeding" /\ graph.size = 0

(* auto_seed_start_goal: start, deliverable and the edge between them.     *)
Seed(form) == [size |-> 2, form |-> form, orphans |-> FALSE]

AutoSeed(form) ==
  /\ Free /\ EmptySeeding
  /\ streak.seeding + 1 >= SeedingStallLimit
  /\ drill' = NoDrill
  /\ graph' = Seed(form) /\ cleared' = FALSE
  /\ graphPhase' = "Filling"
  /\ streak' = [streak EXCEPT !.seeding = 0]
  /\ UNCHANGED pending
  /\ RunOn("Graph")

----------------------------------------------------------------------------
(* The proposer's answer.  Proposed(s) is the round up to it, s being the  *)
(* counters after it; kinds other than a patch or an explore first pass    *)
(* the Filling guard.                                                      *)

Counted == IF EmptySeeding THEN [streak EXCEPT !.seeding = @ + 1] ELSE streak

Asked ==
  /\ Free
  /\ EmptySeeding => streak.seeding + 1 < SeedingStallLimit

Idle == drill' = NoDrill

FillingStall == graphPhase = "Filling" /\ streak.filling + 1 >= ForceSearchAfter

CountedFilling ==
  IF graphPhase = "Filling" THEN [Counted EXCEPT !.filling = @ + 1] ELSE Counted

Unstuck(s) == [s EXCEPT !.output = {}, !.repeats = 0]
Desaturated(s) == [s EXCEPT !.asked = 0, !.explored = 0]

ProposerFails ==
  /\ Asked /\ Idle
  /\ streak' = Counted
  /\ Stop("Error", "Poisoned")
  /\ UNCHANGED <<graphPhase, pending, graph, cleared>>

(* The step the model chose is dropped and research is dispatched instead. *)
ForcedExplore ==
  /\ Asked /\ Idle /\ FillingStall
  /\ streak' = [Counted EXCEPT !.filling = 0]
  /\ UNCHANGED <<graphPhase, pending, graph, cleared>>
  /\ RunOn("Graph")

(* The verdict on a question or on an explore item: over the cap, or close *)
(* enough to one that is remembered, which any of them may be.             *)
Saturates(count, cap) == count >= cap \/ count > 0

RecordClarification == [CountedFilling EXCEPT !.asked = @ + 1]
RecordExplore == [Counted EXCEPT !.explored = @ + 1]

AskUser ==
  /\ Asked /\ Idle /\ ~FillingStall
  /\ streak.asked < ClarificationMax
  /\ streak' = Unstuck(RecordClarification)
  /\ pending' = "answer"
  /\ Stop("Paused", "Graph")
  /\ UNCHANGED <<graphPhase, graph, cleared>>

(* CountLimit, or Repeat of a question in the history: surfaced as a block *)
(* without a pending answer.                                               *)
AskSaturated ==
  /\ Asked /\ Idle /\ ~FillingStall
  /\ Saturates(streak.asked, ClarificationMax)
  /\ streak' = Desaturated(CountedFilling)
  /\ pending' = "none"
  /\ Stop("Paused", "Graph")
  /\ UNCHANGED <<graphPhase, graph, cleared>>

Block ==
  /\ Asked /\ Idle /\ ~FillingStall
  /\ streak' = Unstuck(CountedFilling)
  /\ Stop("Paused", "Graph")
  /\ UNCHANGED <<graphPhase, pending, graph, cleared>>

ConsultAdvisor ==
  /\ Asked /\ Idle /\ ~FillingStall
  /\ streak' = Unstuck(CountedFilling)
  /\ UNCHANGED <<graphPhase, pending, graph, cleared>>
  /\ RunOn("Graph")

Explore ==
  /\ Asked /\ Idle
  /\ streak.explored < ExploreMax
  /\ streak' = Unstuck(RecordExplore)
  /\ UNCHANGED <<graphPhase, pending, graph, cleared>>
  /\ RunOn("Graph")

(* An explore whose items were malformed has none: it dispatches nothing,  *)
(* is not counted and is never saturated.                                  *)
ExploreNothing ==
  /\ Asked /\ Idle
  /\ streak' = Unstuck(Counted)
  /\ UNCHANGED <<graphPhase, pending, graph, cleared>>
  /\ RunOn("Graph")

ExploreSaturated ==
  /\ Asked /\ Idle
  /\ Saturates(streak.explored, ExploreMax)
  /\ streak' = Desaturated(Counted)
  /\ Stop("Paused", "Graph")
  /\ UNCHANGED <<graphPhase, pending, graph, cleared>>

----------------------------------------------------------------------------
(* Tool calls: the repeat detector on success, the guardrail on failure.   *)

Repeats(output) == IF output \in streak.output THEN streak.repeats + 1 ELSE 1

ToolCalled(s) ==
  /\ Asked /\ Idle /\ ~FillingStall
  /\ streak' = s
  /\ UNCHANGED <<graphPhase, pending, graph, cleared>>

ToolReturns(tool, output) ==
  /\ ToolCalled([CountedFilling EXCEPT !.failures[tool] = 0,
                                       !.output = {output},
                                       !.repeats = Repeats(output)])
  /\ IF Repeats(output) >= StuckTerminate THEN GiveUp
     ELSE RunOn("Graph")

ToolErrs(tool) ==
  IF streak.failures[tool] + 1 >= ToolFailureHalt
  THEN /\ ToolCalled([CountedFilling EXCEPT !.failures = [t \in Tools |-> 0]])
       /\ GiveUp
  ELSE /\ ToolCalled([CountedFilling EXCEPT !.failures[tool] = @ + 1])
       /\ RunOn("Graph")

----------------------------------------------------------------------------
(* propose_patch.                                                          *)

(* Starting to build is what ends Clarifying.                              *)
Building == IF graphPhase = "Clarifying" THEN "Seeding" ELSE graphPhase

(* The first patch on an empty graph is cut down to the seed; one without  *)
(* nodes is applied as it is, and adds nothing.                            *)
FirstPatch == Building = "Seeding" /\ graph.size = 0

(* The part of validate_patch_schema that is about the graph as a whole:   *)
(* an immutable anchor and min_nodes = 1 both ask for a node.              *)
SchemaAllows(g) == config.schema => g.size > 0

PatchTargets == IF FirstPatch THEN {graph} \cup {Seed(f) : f \in Forms} ELSE Graphs

NextGraphPhase(g) ==
  IF Building = "Seeding" THEN "Filling"
  ELSE IF Building = "Filling" /\ g.size >= ExpandAt THEN "Expanding"
  ELSE Building

FillingRestarts(g) ==
  Building = "Seeding" \/ (Building = "Filling" /\ g.size > graph.size)

PatchApplied(g, drilled) ==
  /\ Asked
  /\ g \in PatchTargets /\ SchemaAllows(g)
  /\ drilled => g.size > 0
  /\ graph' = g /\ cleared' = FALSE
  /\ graphPhase' = NextGraphPhase(g)
  /\ streak' = Unstuck(Desaturated(
                 IF FillingRestarts(g) THEN [Counted EXCEPT !.filling = 0] ELSE Counted))
  /\ drill' = [NoDrill EXCEPT !.queued = IF drilled THEN 1 ELSE 0]
  /\ UNCHANGED pending
  /\ RunOn("Graph")

(* apply_patch fails: the additions made before the failure stay.          *)
PatchRejected(g) ==
  /\ Asked /\ Idle
  /\ g.size >= graph.size
  /\ FirstPatch => g = graph
  /\ SchemaAllows(g)
  /\ graph' = g /\ cleared' = FALSE
  /\ graphPhase' = Building
  /\ streak' = Desaturated(Counted)
  /\ UNCHANGED pending
  /\ RunOn("Graph")

(* validate_patch_schema fails: a hint in a heartbeat run, else an error.  *)
SchemaRejected ==
  /\ Asked /\ Idle /\ config.schema
  /\ graphPhase' = Building
  /\ streak' = Desaturated(Counted)
  /\ UNCHANGED <<pending, graph, cleared>>
  /\ IF config.heartbeat THEN RunOn("Graph") ELSE Stop("Error", "Poisoned")

----------------------------------------------------------------------------
(* ready_for_verify.                                                       *)

ReadyForVerify ==
  /\ Asked /\ Idle /\ ~FillingStall
  /\ streak' = CountedFilling

VerifyBlocked ==
  /\ ReadyForVerify /\ graph.orphans
  /\ graphPhase' = "Filling"
  /\ UNCHANGED <<pending, graph, cleared>>
  /\ RunOn("Graph")

(* The graph the verifier saw last: with a repairer, up to                 *)
(* max_repair_rounds local patches were applied and verified on the way.   *)
Verified(g) ==
  /\ ReadyForVerify /\ ~graph.orphans
  /\ config.repairer \/ g = graph
  /\ graph' = g
  /\ UNCHANGED graphPhase

VerifyPasses(g) ==
  /\ Verified(g)
  /\ cleared' = TRUE
  /\ UNCHANGED pending
  /\ RunOn("Task")

VerifyStalemate(g) ==
  /\ Verified(g)
  /\ cleared' = FALSE
  /\ pending' = "repair"
  /\ Stop("GraphInvalid", "Graph")

VerifyErrs(g) ==
  /\ Verified(g)
  /\ cleared' = FALSE
  /\ UNCHANGED pending
  /\ Stop("Error", "Poisoned")

(* find_cycle_in_relation meets an edge to a node that was removed and     *)
(* panics: step() never returns, and the loop is gone with its driver.     *)
VerifierPanics(g) ==
  /\ Verified(g) /\ g.size > 0
  /\ cleared' = FALSE
  /\ UNCHANGED pending
  /\ Stop("Panicked", "Graph")

----------------------------------------------------------------------------
(* step_task_stub.                                                         *)

Tasked == Round("Task") /\ UNCHANGED <<graphPhase, streak, drill>>

SkipToDone ==
  /\ Tasked /\ ~config.executes
  /\ UNCHANGED <<pending, graph, cleared>>
  /\ Stop("Done", "Done")

(* Nothing to execute, or everything succeeded and was validated.          *)
Executed ==
  /\ Tasked /\ config.executes
  /\ UNCHANGED <<pending, graph, cleared>>
  /\ RunOn("Review")

(* The decomposer or the dispatcher returns an error.                      *)
ExecutionErrs ==
  /\ Tasked /\ config.executes
  /\ UNCHANGED <<pending, graph, cleared>>
  /\ Stop("Error", "Poisoned")

(* Only the anchor's sub-agent failed.                                     *)
AnchorFailed ==
  /\ Tasked /\ config.executes
  /\ UNCHANGED <<pending, graph, cleared>>
  /\ Stop("TaskFailed", "Task")

(* Graph errors with no cascade to handle them, or a validator's verdict.  *)
HandedOver ==
  /\ Tasked /\ config.executes
  /\ pending' = "repair"
  /\ UNCHANGED <<graph, cleared>>
  /\ Stop("GraphInvalid", "Task")

(* Every graph error is about no node in particular: there is nothing to   *)
(* redesign.                                                               *)
NoNodeBlamed ==
  /\ Tasked /\ config.executes /\ config.cascade
  /\ UNCHANGED <<pending, graph, cleared>>
  /\ RunOn("Graph")

----------------------------------------------------------------------------
(* handle_task_phase_graph_errors, still inside the step() that executed:  *)
(* one node after the other is redesigned, and no round is paid for it.    *)

(* Some sub-agents blamed the graph, or failed (bound: one error a node).  *)
GraphBlamed(errors) ==
  /\ Paid("Task") /\ config.executes
  /\ blamed' = errors
  /\ UNCHANGED <<phase, graphPhase, pending, surfaced, graph, watch, streak,
                 drill, cleared>>

Redesigning(g) ==
  /\ surfaced = "Running" /\ blamed > 0
  /\ graph' = g /\ cleared' = (cleared /\ g = graph)
  /\ UNCHANGED <<config, graphPhase, round, cancelled, streak, drill>>

(* The replacement is applied and, for all the cascade can tell, fits; the *)
(* last one sends the run back to be verified.                             *)
Redesigned(g) ==
  /\ Redesigning(g)
  /\ blamed' = blamed - 1
  /\ UNCHANGED pending
  /\ IF blamed > 1 THEN UNCHANGED <<phase, surfaced, watch>> ELSE RunOn("Graph")

(* The cascade finds a predecessor that no longer fits: the handler calls  *)
(* itself with that one node and returns what the call returns, so the     *)
(* other errors, and the other predecessors, are dropped.                  *)
CascadeRecurses(g) ==
  /\ Redesigning(g) /\ config.cascade
  /\ blamed' = 1
  /\ UNCHANGED <<phase, pending, surfaced, watch>>

(* The node is the anchor, the model fails, or the replacement is refused: *)
(* what had been applied by then stays.                                    *)
RedesignFails(g) ==
  /\ Redesigning(g)
  /\ g.size >= graph.size
  /\ blamed' = 0
  /\ pending' = "repair"
  /\ Stop("GraphInvalid", "Task")

----------------------------------------------------------------------------
(* step_review_stub.                                                       *)

Reviewed == Round("Review") /\ UNCHANGED <<graphPhase, streak, drill, graph, cleared>>

(* No reviewer, a pass, or a failure that is the task's own.               *)
ReviewEnds ==
  /\ Reviewed
  /\ UNCHANGED pending
  /\ Stop("Done", "Done")

ReviewErrs ==
  /\ Reviewed /\ config.reviewer
  /\ UNCHANGED pending
  /\ Stop("Error", "Poisoned")

ReviewBlamesGraph ==
  /\ Reviewed /\ config.reviewer
  /\ pending' = "repair"
  /\ Stop("GraphInvalid", "Review")

(* The reviewer verifies the graph as well, and it may be one the caller   *)
(* insisted on.                                                            *)
ReviewerPanics ==
  /\ Reviewed /\ config.reviewer /\ graph.size > 0
  /\ UNCHANGED pending
  /\ Stop("Panicked", "Review")

----------------------------------------------------------------------------
(* The driver: it steps while it is told Running, resumes when the run was *)
(* handed to it, and is done with the loop otherwise.                      *)

Resume ==
  /\ surfaced = "Paused"
  /\ surfaced' = "Running" /\ pending' = "none"
  /\ UNCHANGED <<config, phase, graphPhase, round, cancelled, graph, watch,
                 streak, drill, blamed, cleared>>

(* Mutant: the phase is left where the run was handed over. *)
ResumeRepairedInPlace(g) ==
  /\ surfaced = "GraphInvalid"
  /\ surfaced' = "Running" /\ pending' = "none"
  /\ graph' = g /\ cleared' = FALSE
  /\ UNCHANGED <<config, phase, graphPhase, round, cancelled, watch, streak, drill,
                 blamed>>

ResumeWithRepairedGraph(g) ==
  /\ surfaced = "GraphInvalid"
  /\ surfaced' = "Running" /\ pending' = "none" /\ phase' = "Graph"
  /\ graph' = g /\ cleared' = FALSE
  /\ UNCHANGED <<config, graphPhase, round, cancelled, watch, streak, drill, blamed>>

ResumeForce ==
  /\ surfaced = "GraphInvalid"
  /\ surfaced' = "Running" /\ pending' = "none"
  /\ cleared' = TRUE
  /\ UNCHANGED <<config, phase, graphPhase, round, cancelled, graph, watch,
                 streak, drill, blamed>>

Cancel ==
  /\ surfaced = "Running" /\ ~cancelled
  /\ cancelled' = TRUE
  /\ UNCHANGED <<config, phase, graphPhase, pending, surfaced, round, graph,
                 watch, streak, drill, blamed, cleared>>

----------------------------------------------------------------------------
Init ==
  /\ config \in Profiles
  /\ phase = "Graph"
  /\ graphPhase = IF config.heartbeat THEN "Seeding" ELSE "Clarifying"
  /\ pending = "none" /\ surfaced = "Running"
  /\ round = 0 /\ cancelled = FALSE
  /\ graph \in Graphs   (* empty, or with_initial_graph *)
  /\ watch = [last |-> {}, count |-> 0]
  /\ streak = [output |-> {}, repeats |-> 0, failures |-> [t \in Tools |-> 0],
               seeding |-> 0, filling |-> 0, asked |-> 0, explored |-> 0]
  /\ drill = NoDrill
  /\ blamed = 0
  /\ cleared = FALSE

Propose ==
  \/ ProposerFails \/ ForcedExplore \/ AskUser \/ AskSaturated \/ Block
  \/ ConsultAdvisor \/ Explore \/ ExploreNothing \/ ExploreSaturated
  \/ SchemaRejected
  \/ \E t \in Tools, o \in Outputs : ToolReturns(t, o)
  \/ \E t \in Tools : ToolErrs(t)
  \/ \E g \in Graphs, drilled \in BOOLEAN : PatchApplied(g, drilled)
  \/ \E g \in Graphs : PatchRejected(g)

Verify ==
  \/ VerifyBlocked
  \/ \E g \in Graphs : VerifyPasses(g) \/ VerifyStalemate(g) \/ VerifyErrs(g)
                           \/ VerifierPanics(g)

StepGraph ==
  \/ Cancelled \/ ReportSubRun \/ Propose \/ Verify
  \/ \E left \in 1..2, failed \in BOOLEAN : Wait(left, failed)
  \/ \E f \in Forms : AutoSeed(f)

StepTask ==
  \/ SkipToDone \/ Executed \/ ExecutionErrs \/ AnchorFailed
  \/ HandedOver \/ NoNodeBlamed
  \/ \E errors \in 1..MaxNodes : GraphBlamed(errors)

StepRedesign ==
  \E g \in Graphs : Redesigned(g) \/ CascadeRecurses(g) \/ RedesignFails(g)

StepReview == ReviewEnds \/ ReviewErrs \/ ReviewBlamesGraph \/ ReviewerPanics

Step == Exhaust \/ StepGraph \/ StepTask \/ StepRedesign \/ StepReview

Resumed == Resume \/ ResumeForce \/ \E g \in Graphs : ResumeWithRepairedGraph(g)

Next == Step \/ Resumed \/ Cancel

(* A driver that is told Running always steps again, and whoever it hands  *)
(* the run to answers in the end.                                          *)
Fairness == WF_vars(Step) /\ WF_vars(Resumed)

Spec == Init /\ [][Next]_vars /\ Fairness

----------------------------------------------------------------------------
Watches == [last : SUBSET ((0..MaxNodes) \X Forms), count : 0..StagnationTerminate]
Streaks == [output : SUBSET Outputs, repeats : 0..StuckTerminate,
            failures : [Tools -> 0..(ToolFailureHalt - 1)],
            seeding : 0..(SeedingStallLimit - 1),
            filling : 0..(ForceSearchAfter - 1),
            asked : 0..ClarificationMax, explored : 0..ExploreMax]
Drills  == [queued : 0..1, running : 0..1, failed : BOOLEAN]

(* Types, and the ceilings the guards keep their counters under: a counter *)
(* that reached its limit has already fired.                               *)
TypeOK ==
  /\ config \in Profiles
  /\ phase \in Phase /\ graphPhase \in GraphPhase
  /\ pending \in {"none", "answer", "repair"}
  /\ surfaced \in Surfaced
  /\ round \in 0..MaxRounds
  /\ cancelled \in BOOLEAN /\ cleared \in BOOLEAN
  /\ graph \in Graphs
  /\ blamed \in 0..MaxNodes
  /\ watch \in Watches /\ streak \in Streaks /\ drill \in Drills

(* What the driver was last told agrees with the loop it holds: it can be  *)
(* told to repair only while the loop waits for a repair, to stop only     *)
(* when the loop will not go on, and nothing is pending while it steps.    *)
SurfacedMatchesLoop ==
  /\ surfaced = "GraphInvalid" <=> pending = "repair"
  /\ pending = "answer" => surfaced = "Paused"
  /\ surfaced = "Done" <=> phase = "Done"
  /\ phase = "Poisoned" => surfaced = "Error"
  /\ surfaced = "Error" /\ phase # "Poisoned" => cancelled

(* At most one sub-run is queued or in flight at any time, and none while  *)
(* the graph is executed or reviewed: the maps of pending sub-runs never   *)
(* hold two, and a task never races a sub-run of the same loop.            *)
OneSubRunAtATime ==
  /\ drill.queued + drill.running <= 1
  /\ phase \in {"Task", "Review", "Done"} => drill = NoDrill

(* "The parent loop must NOT continue to grow the main graph while a       *)
(* complex node is being expanded": a step that ends with a sub-run in     *)
(* flight, or starts with a sub-run's failure unreported, leaves the graph *)
(* alone.                                                                  *)
FrozenWhileDrilling ==
  [][drill'.running > 0 \/ drill.failed => graph' = graph]_vars

(* A cancelled loop starts no sub-run, and a cancelled Graph phase is not  *)
(* left except by stopping.                                                *)
CancelledLoopForksNothing ==
  [][cancelled => /\ drill'.running <= drill.running
                  /\ phase = "Graph" /\ surfaced = "Running" /\ phase' # phase
                       => phase' = "Poisoned"]_vars

(* The loop implements the contract a caller relies on.                    *)
HandsOf(state) ==
  CASE state = "Running"      -> "loop"
    [] state = "Paused"       -> "user"
    [] state = "GraphInvalid" -> "repair"
    [] OTHER                  -> "over"

Contract == INSTANCE RunContract
              WITH stage <- phase, cleared <- cleared, hands <- HandsOf(surfaced)

HonoursContract == Contract!Spec

(* A run that is stepped and answered ends, whatever the model replies:    *)
(* waiting for a sub-run, asking, exploring and repairing all cost rounds. *)
(* Redesigning costs none, so the one way to go on for ever is a cascade   *)
(* that keeps finding predecessors to redesign within a single step().     *)
Terminates == <>(surfaced \in Final) \/ <>[](config.cascade /\ blamed > 0)

(* "The budget is hard": without the exception.  The run loop_unbounded    *)
(* shows that the code does not keep it.                                   *)
AlwaysEnds == <>(surfaced \in Final)
============================================================================
