# A verification project for Graph-Centric

Graph-Centric (the Rust crate under `src/`) is an agent harness that makes a language model
build a *world graph* of its task first, verifies and repairs that graph, cuts it into sub-tasks
for sub-agents, reviews the outcome, and can descend into a node with a sub-run of its own. It is
used through a command line (`src/bin/agent_a.rs`) and a web gateway (`src/web`).

This directory holds TLA+ models of its parts, TLC configurations that check them on small
instances, and theorems about them that TLAPS proves for every value of the constants. Paths
below are relative to the crate (`src/src/...` in this repository) unless they begin with `docs/`.

## 1. The system

| component | state | operations | interacts with |
|---|---|---|---|
| World graph (`graph/mod.rs`, `traversal.rs`, `l1.rs`) | nodes, edge list addressed by position, two adjacency indexes, L1 texts, version | `apply_patch`, `add_edge`, `rebuild_indices`, bfs | called by the loop and the repairer |
| Patch repairer, enricher (`agent/repairer.rs`, `enricher.rs`) | none | three repair paths, `validate_scope`; `auto_enrich` | send patches and L1 texts to the graph |
| Graph loop (`agent/graph_loop.rs`) | phase, sub-phase, pending, guards' counters, conversation, sub-run handles | `step`, three forms of `resume`, `cancel` | proposer, tools, verifier, repairer, decomposer, dispatcher, reviewer; a driver steps it |
| Proposer (`agent/proposer.rs`) | none | `next_step_with_retry`, `replan_failed_node` | model, context builder; called by the loop |
| Verifier, validation, reviewer (`agent/verifier.rs`, `graph/validation.rs`, `agent/reviewer.rs`, `validator.rs`) | marks, path and stack of a search | `verify`, `find_cycle_in_relation`, `review` | called by the loop |
| Cascade (`agent/cascade.rs`) | visited and classification lists | `backtrack_from` | called when a Task phase blames nodes |
| Decomposer, expansion (`agent/decomposer.rs`, `cascade_expand.rs`) | the task graph in hand | `decompose`, `expand_recursive` | called by the Task phase, before the dispatcher |
| Scheduler, dispatcher (`scheduler/mod.rs`, `agent/dispatcher.rs`) | dependency counts; semaphore, join handles | `plan`, `run`, `run_batch` | called by the Task phase; spawns sub-agents |
| Sub-agent, contracts, tools (`agent/subagent.rs`, `contract.rs`, `tools/`) | step and call counters; the project's files | `execute`, `check`, `edit_file`, `write_file`, `bash` | model; the files that agents share |
| Context (`context/mod.rs`) | what is left of each budget | two `build`s | proposer and sub-agent |
| Run driver and sessions (`web/api_runs.rs`, `run_session.rs`, `ws.rs`, `mod.rs`) | status, cancel token, two `Notify` with a value each, map of runs | `drive_run`, `post_answer`, `post_repair`, WebSocket `resume`/`repair`, `cancel_run`, `delete_run`, `clear_runs`, restart | one task per run, handlers on other threads, disk |
| Drill-down (`graph_loop.rs` 1250-2000) | queue of forks, handles, `run.json` of the child | fork, poll, time out, surface, cancel | parent and child communicate through a file only |
| Heartbeat (`web/heartbeat.rs`, `config_api.rs`, `bin/serve.rs`) | rounds, current run, a file | start, cancel, `round_complete`, shutdown and re-exec | drivers of *every* run, the process |
| Skills (`skills/`, `web/api_skills.rs`) | a directory per skill in two roots | capture, load, promote, delete, compile | a run that passed its review writes, another run's planning reads |
| Persistence, checkpoints (`web/persistence.rs`, `checkpoint.rs`) | `run.json`, checkpoint files, a compacted summary, branches | save, load, compact, clean up, branch | driver, handlers, sub-runs |
| Events, hooks, intake, AST scanner, configuration, web UI | a channel; none | emit; run a command; parse; present | nothing reads them back |

### What is hard in it, and what makes each part correct

* **Graph.** A patch is applied by loops that can leave half way; edges are addressed by positions
  that shift; two indexes must be rebuilt. *Correct* means: indexes agree with the list, keys stay
  unique, containment stays a tree, a refused patch loses nothing, a repair removes what it named.
* **Loop.** What the driver was told and what the loop keeps inside (`phase`, `pending`, handles)
  are written in different places; half a dozen counters fire at limits and reset on different events.
  *Correct*: the two views agree, only a cleared graph is executed, the graph does not move under a
  sub-run, every run ends.
* **Verification and replanning.** The graph is judged by an orphan gate, a verifier and a reviewer,
  none of which sees everything, and it changes between them: by local repairs, by redesigns of
  blamed nodes, by users. The cascade walks over a graph that may have cycles, and the graph changes under it.
  *Correct*: what is executed is sound whichever way it came there; the walk overlooks nothing and ends; the
  search for cycles is exact.
* **Planning.** A plan comes from a model or from a skill, and grows level by level by replies that may name
  anything. *Correct*: whole expansions are dispatched, in the declared order, and only real cycles are refused.
* **Dispatcher.** Spawned tasks outlive the future that spawned them. *Correct*: order of the
  dependencies, the limit of the pool, no task forgotten, a truthful verdict; always an end.
* **Agents at work.** Sub-agents on several threads read, truncate and write the same files without a lock; models
  are busy, talk nonsense or demand; commands leave processes behind that hold pipes open. *Correct*: a change that was reported done is
  lost only to an overlapping call, and every turn ends.
* **Context.** Sections are filled entity by entity under rounded budgets. *Correct*: no section outgrows its
  budget; what is left out is farther away than what is shown.
* **Sessions.** Two clients, a driver, a deleting handler, a heartbeat and a crash interleave at every
  `await`. *Correct*: no answer is lost, the list of runs and the disk agree, an end is final, a cancelled run stops working.
* **Drill-down.** A parent learns of its sub-run by polling a file that the sub-run writes, that it may write
  itself, and that it may find half written; either may stop first. *Correct*: a report is taken as
  it was given and from a sub-run that is over, no failure is lost, every sub-run reports.
* **Heartbeat.** A round is counted by the end of any run, saved, and followed by the death of the process,
  while requests start and cancel heartbeats. *Correct*: no completed round is lost, a cancellation is final, a heartbeat that works ends.
* **Skills.** Directories are written, copied, deleted and read file by file, by tasks that exclude nobody. *Correct*:
  a loaded skill is one run's; the approved copy is not hidden by a broken one.

The complete list, each item at its line, is `hazards` in `PROJECT.json`.

## 2. Modules

| module | models | role |
|---|---|---|
| `WorldGraph` | `graph/mod.rs`, `repairer.rs`, `enricher.rs`, `traversal.rs` | component, composed of graph, repairer and enricher |
| `RunContract` | what a run promises, without machinery | abstract specification |
| `GraphLoop` | `graph_loop.rs` `step` with its phases, `resume*`, `cancel`; `saturation.rs` | component; refines `RunContract` |
| `CycleSearch` | `validation.rs` `find_cycle_in_relation` | algorithm, step by step |
| `Replan` | orphan gate, `verifier.rs`, `cascade.rs`, `reviewer.rs`, `validator.rs` and the blocks of `graph_loop.rs` between them | component; extends `CycleSearch`, whose steps it takes |
| `TaskGraph` | `decomposer.rs`, `cascade_expand.rs`, `skills/compiler.rs`, the Task phase | component |
| `Dispatch` | `scheduler/mod.rs`, `dispatcher.rs`, `subagent.rs`, `contract.rs` | component, composed of scheduler, dispatcher, pool and sub-agents |
| `SubAgents` | `proposer.rs`, `subagent.rs`, `contract.rs`, `tools/`, `model/anthropic.rs`, explore batches | component, composed of proposer, sub-agents, tools and one file |
| `ContextWindow` | `context/mod.rs`, `traversal.rs` | algorithm, step by step |
| `SubRunCall` | what drill-down promises: an asynchronous call | abstract specification |
| `DrillDown` | `graph_loop.rs` fork, poll, timeout, cancel; `run_with_persistence`; the sub-run's `run.json` | component, composed of a tree of loops; refines `SubRunCall` |
| `RunSession` | `drive_run`, the session and its handlers, `run.json`, restart | component, composed of driver, clients, a deleting handler and the disk |
| `Heartbeat` | `heartbeat.rs`, `config_api.rs`, the ends of `drive_run`, `bin/serve.rs` | component, composed of requests, drivers, file and process |
| `SkillStore` | `skills/storage*.rs`, `capture.rs`, `retrieve.rs`, `api_skills.rs` | component, composed of writers, readers and two directories |
| `MC*` | constants of the checked instances | |
| `*Proofs` | theorems of all components: eight modules, of which `ReplanProofs` covers `CycleSearch` too, `GraphLoopProofs` `TaskGraph`, `RunSessionProofs` `SkillStore`, and `TaskPhaseProofs` `SubAgents` and `ContextWindow` | |

### WorldGraph

`apply_patch` runs under `&mut self`: no other operation interleaves. Its loops are nevertheless taken
one iteration per step, as the function returns in the middle of the second one; `pc` says which
loop runs. `AddNodes` is the first loop, `AddEdge`/`Reject` one iteration of the second,
`RemoveEdge` one iteration of the third, `Finish` the removal of nodes and the bump of
the version, after which the enricher describes the new nodes of a proposer's patch one model call at a time
(`Enrich`, `EndEnrich`). The elements of a patch are drawn as the loops reach them. `patch.origin` says who built it:
`Repair` is the choice of a path by kind and text of the issue (`Path`), and `RepairL0`, `RepairL1` and
`RepairScopeGap` differ in what they ask for, read and check (`InScope`, `MayRemove`, `Described`). Attributes of nodes and edges
other than ids and the key (source, target, relation) are left out: no guard reads them.
Positions are counted from 1, in the code from 0. The histories `before` and `gone`
exist for the properties only.

### GraphLoop and RunContract

One call of `step()` is one action, as `step` holds `&mut self`, with one exception: `handle_task_phase_graph_errors`
redesigns one blamed node after the other and calls itself when the cascade objects, and each of these is an action of its own
(`GraphBlamed`, then `Redesigned`, `CascadeRecurses` or `RedesignFails` while `blamed` is above 0), which no round pays for. `VerifierPanics` and
`ReviewerPanics` are the panic of the search for a cycle; what it does to driver, sub-run and heartbeat is in the other modules. The environment answers for the
model, the tools, the verifier, the dispatcher and the reviewer, so an action stands for one kind of
answer (`AskUser`, `ToolErrs`, `PatchApplied`, `VerifyPasses`, `HandedOver`, ...). A graph is what the
loop can tell about it: its size, a form as `graph_fingerprint` sees it, and whether
`replay_from_anchor` finds orphans. `config` ranges over the profiles the program builds: `WebLoop`,
`HeartbeatLoop`, `CliLoop`, `SubLoop`, and a library use. `Resumed` is the driver: `drive_run`
resumes exactly what it was told. `RunContract` says what a caller relies on; `HonoursContract` states
that `GraphLoop` implements it under `hands <- HandsOf(surfaced)` and the history `cleared`.
`ProposerFails` can happen at any round: `next_step_with_retry` salvages a step from anything (`SubAgents!Salvage`), so this
allows more than the code does.

### CycleSearch and Replan

`CycleSearch` is the iterative search with its stack, path and marks; starts and edges come in any order, as
from a hash map. An edge to an id that is no node ends it in `"panicked"`. `Replan` takes it
step by step for each of the two relations that `find_inconsistencies` searches (`Search`), inside the
verifier and the reviewer. Its graph has ids, immutable nodes and edges with a relation. `ReadyForVerify` is the
orphan gate, which walks through removed nodes; `LocalRepair`, `RepairDrift` and `Stalemate` the repair rounds of a
verification; `TaskBlames` a Task phase that ends with errors about nodes, `TaskFailed` one without;
`Redesign` is the patch of `replan_failed_node`. The recursion of `backtrack_recursive` is a stack of frames (`walk`), and
`Preserved`, `NeedsReexecution`, `NeedsRepair`, `Skip` are what a predecessor can be judged. The cascade calls a model
at each, and another patch is applied when it is left. `mended` and `cut` are histories: a local repair after
the gate, a walk ended by its depth.

### TaskGraph

`CompileSkill` or `Decompose` make the plan, with `Malformed` and `RetryInText` for the second attempt; `EnterLevel`, `Leaf`,
`Expand` and `ExpandRefused` are `expand_recursive`, where the reply to one node is applied edge by edge in the code and here
as a whole, as a refused edge drops the whole copy. The dispatcher is what `Dispatch` shows of it: it refuses a cycle of
`DependsOn` and starts what is ready.

### Dispatch

`PickReady`, `CutBatch`, `Cycle` and `Planned` are the loop of `plan`; `SpawnBatch`, `Join`, `JoinBroken`,
`TimeOut` and `Aggregate` are `Dispatcher::run` with `run_batch`; `Dropped` is the `select!` of `drive_run`
that drops the step. Each spawned task is an actor: it waits for a permit (`Acquire`), then takes one
model reply per step (`CallTool`, `Answer`, `AnswerRaw`, `ReportGraphError`) or fails (`Fail`, `Break`), also after
its dispatcher has returned. Abstractions: a batch is a set, as priorities and ids are arbitrary (any cut
and any order of joining can happen); all tasks of a graph share one contract; a semaphore is a count per
batch; `Fail` may come early, as a model call can fail at any step.

### SubAgents

What `Dispatch` takes as one reply is opened here: the retries of the model client (`BackOff`), the gate
after an exploration (`Gate`), the second question and the salvage of the proposer (`AskAgain`, `Salvage`), each action a
sub-agent may reply (`Act` over `Actions`, what `parse_action` makes of a text), guards and policy (`ScopeDenies`,
`PolicyDenies`, `NotRun`), the steps of an edit (`ReadToEdit`, `Truncate`, `WriteText`), a command that leaves a process behind (`Forks`, `Closes`,
`TimeOut`, `Drained`), and a run that is dropped (`Drop`, `Aborted`). One file stands for those that several agents touch; its
text is the set of agents whose change it holds. A batch of an exploration and one of the Task phase are both `Start`ed and
joined; permits are in `Dispatch`.

### ContextWindow

A text is its length in characters, a token four of them rounded up (`Tokens`). `Describe`, `PassOver`, `TruncateL1` and
`EndLevel` are the loop over descriptions by level; `Include`, `LoadFails`, `TruncateCode` and `EndSection` that over source code by
distance; `Note` and `FitNotes` the orphan notes of the proposer's builder. `who` is which of the two builders runs.

### DrillDown and SubRunCall

A tree of loops, each a task of its own; `child` is the one handle a loop can hold, as `GraphLoop` shows that
there is never a second (`OneSubRunAtATime`). One `step()` is one action, cut down to what the drill-down block decides:
`Exhaust`, `ObeyCancel`, `Fork`, `KeepWaiting`, `ReportFailure`, or `GoOn` for a round that reaches the proposer
(or is in a later phase) and returns any state. `After` is where the two kinds of driver differ: a root that pauses is
resumed, a sub-run that pauses is finished, and a loop that panics is gone with its task. `OpenRunJson` and `WriteRunJson` are the two halves of `fs::write`, between
which a poll finds the file truncated; the parent's own write on cancellation is taken as one step. `CancelLoop` is
`GraphLoop::cancel` by an owner that steps once more, `CancelRun` what `drive_run` does. Each fork has a complex node of its
own, whose `status` metadata is `mark`; the second field the code keeps beside it (`sub_run_status`) is left out. Time is
whether a handle is too old (`Age`). The stagnation counter is left out: any round that would
return Running may be the one that poisons. `noticed` and `told` are histories.

### RunSession

One run of the gateway. The driver's position is `driver`; a step ends where the code awaits or where
another thread can see what it wrote, so the status is written in one step (`Publish`) and saved in another
(`SaveWait`, `SaveEnd`). `permit` is the single permit a tokio `Notify` stores, `value` the mutex beside it;
`Store` and `NotifyWaiter`/`NotifyNobody` are the two halves of `provide_*`. The lock of the map of runs is
modelled where it orders handlers: `post_*` read it until they have notified, `clear_runs`
holds it for writing. Values are known by the question their sender had seen last. `Restart` is the death of the process at any moment followed by
`restore_persisted_runs`: `run.json` is written in place, so a death while it is written (`Saving`) may leave a file that
cannot be parsed, and the run is then not listed (`Loadable`). A step of the loop returns anything here: `GraphLoop` says what it may return.
It may also never return, or panic and take the driver with it (`StepPanics`). The file system does not refuse a write; whether a heartbeat is active is
nondeterministic at each question.

### Heartbeat

A request to start one saves the file, spawns a run and publishes the heartbeat in memory, in three steps (`StartSave`, `StartSpawn`,
`StartPublish`) between which others run. `Finish`, `Count`, `CountNothing` and `Signal` are the ends of `drive_run`: *any* run that ends counts a
round; `RunPanics` is the end of a driver that counts nothing. `Drained` is the graceful shutdown, which waits for open streams (`OpenStream`); `Crash` a death at any other moment; `Relaunch`
the next process, which loads the file.

### SkillStore

The directory of one slug in the user's root and in the repository's. A capture or a promotion saves it file by file (`MakeDir`, `WriteTrigger`,
`OpenFlow`, `WriteFlow`), a request deletes it entry by entry (`Unlink`, `RemoveDir`), a planning run or a
promotion loads it file by file (`ReadFlow`, `ReadTrigger`) and falls back to the other root when it cannot be read.
Two files stand for five.

## 3. Runs

Twelve runs. Where components share no state and are small, one run checks several of them: its MC module extends theirs and adds
a variable `component`, which is chosen at the start and says whose actions are taken, while the others rest in a state in which none of their fair actions is
enabled. So each behaviour is one of a single component, and each property is checked over all of that component's.

| run | component | constants | shows |
|---|---|---|---|
| `graph_data` | `WorldGraph` | 2 node ids, `Contains` and another relation, 3 edges, 2 accepted patches, all repair paths | indexes agree, keys are unique, edges dangle only after a removal, positions remove what they named |
| | `ContextWindow` | 3 nodes, all subsets of 3 edges, 3 kinds of source, depth 2, budgets of a few tokens | sections fit, the nearest first |
| | `SkillStore` | 2 captures of one slug, a promotion, a deletion, 2 readers | loaded skills are whole, the approved one is never hidden |
| `refused_patch` | `WorldGraph` | as above | **violated**: a refused patch changes nothing |
| `loop` | `GraphLoop` | five profiles, graphs of at most 2 nodes, 5 rounds, small limits | what the driver is told, one sub-run at a time, the frozen graph, cancellation, the contract, termination but for one cause |
| `loop_unbounded` | `GraphLoop` | the same with 2 rounds | **violated**: every run that is stepped and answered ends |
| `drill` | `DrillDown` | 4 runs, depth 2 (the default), 4 rounds per loop | a report is taken as given, no failure lost, every sub-run reports |
| `drill_orphans` | `DrillDown` | the same | **violated**: sub-runs stop with the run that was cancelled |
| `dispatch` | `Dispatch` | 3 tasks, all 512 dependency relations, two settings, 2 steps per sub-agent | order, pool, cycles, completeness, verdict, termination |
| `dispatch_iff` | `Dispatch` | the same | **violated**: a dispatch succeeds if and only if every sub-agent did |
| `planning` | `Replan` | 3 steps and an id for a new one, 2 first graphs (one with cycles), 7 patches, 3 of them applied | the search is exact, only sound graphs pass, the cascade covers, passes end |
| | `TaskGraph` | 4 plans, 3 skills, 5 replies to an expansion, depth 2 | whole expansions, only loops refused, planning ends |
| `taskgraph_order` | `TaskGraph` | the same | **violated**: a task starts after those it was declared to depend on |
| `subagents` | `SubAgents` | a batch of 2 agents, 2 steps each, 1 retry, 2 rounds of the proposer | a change is lost only to an overlap, turns end |
| `gateway` | `RunSession` | 1 client at a time with HTTP and WebSocket, 2 questions of each kind, 1 restart | zombies only by a panic, list and disk agree, final ends, no lost wake-up, cancelled work stops |
| | `Heartbeat` | 2 heartbeats of 2 rounds, 2 runs at a time, 1 crash | no round lost, cancellation is final, a heartbeat ends but for four causes |

**Why the bounds are enough.** *WorldGraph*: an index is wrong, a key doubled or a second parent made by two
edges between two nodes; the third edge is what slides into a removed position; a second patch meets
what the first, refused or accepted, left behind. *GraphLoop*: every limit is set to at most two rounds below the
round budget, so that each detector fires, resets and fires again within it; two nodes are the least
graph that has orphans and passes `ExpandAt`; the limits themselves are proved for all values. *DrillDown*: four rounds are
a queued fork, the fork, a poll that times out and the report of it, or a report that is taken and a second fork queued; three sub-runs
are a chain of the full depth beside a second fork. *Dispatch*: three
tasks give chains, diamonds without their tip, two-cycles beside an independent task, self-loops, and batches
larger than the cap or the permits; one setting has a time limit, one permit and capped batches, the other the
defaults with the editing contract. *RunSession*: a client that answers one request after another is as good as
many for what is left over; two questions let a leftover of the first meet the second; a second restart
starts from a state the first one can already reach (nothing in `Restart` depends on the count). *Heartbeat*: two requests are what it
takes to cross; two rounds have a middle and an end; a user's run beside the heartbeat's counts a round of its own.
*Replan*: four ids are a chain with an anchor, a step to blame, a predecessor of it and its replacement; the patches are those after which some gate
must object, each for another reason; one repair and depth two let each limit be reached and be passed under. *SkillStore*: two captures replace each
other, one leaves a torso the next must repair. *TaskGraph*: two tasks and two ids for children are a declared order, a cycle, a child
of a child and a child with a task's name. *SubAgents*: two agents overlap, a third adds no kind of overlap; two steps are a tool
call and the last one; one retry is a turned away request and a failure. *ContextWindow*: three edges on three nodes,
any of them missing, make a circle, a chain to distance two and nodes out of reach; each budget holds some of the texts and not all of the long ones, and the heading of a level may be what no longer fits.
The theorems of section 5 remove the bounds for the safety properties they state.

`MaxEdges`, `MaxVersion`, `MaxAsked`, `MaxRestarts`, `MaxRuns`, `MaxCrashes`, `MaxPatches` and `SubAgents!MaxRounds` bound what the code leaves open; the other
constants stand for parameters of the code.

**Symmetry** is used where ids are interchangeable and no liveness is checked: `graph_data` and `refused_patch` (node ids of the world graph).

**Deadlock** is not checked (`CHECK_DEADLOCK FALSE`) as every component really stops: a run that is over, a
dispatch that returned, a prompt that is built, a graph at its bounds. That something does happen is stated by the liveness properties.

## 4. Fairness

* `GraphLoop`: weak fairness of `Step` and `Resumed`: `drive_run` loops without a pause, and every question is
  answered. The second is an assumption about users, needed as a run that waits for its user waits for ever.
  No fairness among the model's answers: the adversary may always explore, ask or wait, and may go on for ever within one step by finding predecessors to redesign,
  which `Terminates` names as the one exception.
* `DrillDown`: weak fairness of `Step` and `Finish` of each sub-run: each is a task the executor runs, and a step of it returns or panics, as a
  sub-run has nothing to execute and so nothing to redesign. Nothing is asked of the root loop and its driver. No user has to
  answer, no handle has to age, nobody has to cancel.
* `Dispatch`: weak fairness of the dispatcher, and of each spawned task's `Acquire` and `SubAgent`: the tokio
  executor runs what can run, its semaphore is fair, and a model call or a tool returns. `Ends` needs the last one; a
  tool that never returns would block a dispatch without `batch_timeout`. Timeouts and drops need not happen.
* `SubAgents`: weak fairness of the proposer and of each sub-agent's turn. Whether a process left in the background ever closes its
  output is up to it: `TurnsEnd` is conditional on that for the sub-agents, and shows thereby that nothing else can hold them up.
* `RunSession`: weak fairness of the driver, but not of the steps it waits for, of a deletion that has begun, and of each request that has been
  accepted. Nobody has to send a request, cancel, delete or restart.
* `Heartbeat`: weak fairness of the two handlers that have begun, of what a driver does at the end of its run, of the shutdown and of the launcher (a loop in
  `loop.ps1`). A step need not return, a user need not answer, and a stream is closed by its client only: the session that feeds it stays listed and is kept alive
  (`api_runs.rs:190-213`), so that the shutdown may wait for it for ever (`serve.rs:137`). These, a run that is cancelled and one that panics are the exceptions
  `HeartbeatEnds` names; nothing else stops a heartbeat.
* `Replan`: weak fairness of the search, the verifier and reviewer, the redesign and the cascade: calls of the one driver. The Graph phase and the
  user need not do anything, and no fairness among answers.
* `TaskGraph`: weak fairness of `Next`: one driver, and sub-agents that end (`Dispatch!Ends`).
* `WorldGraph`, `SkillStore`, `ContextWindow` state safety only.

## 5. Proofs

Every component has theorems, checked by TLAPS with Z3, Zenon and LS4: all safety invariants, safety action properties and refinements
that the passing runs check are proved for every value of the constants, with `RejectionOnlyAdds`, which no run repeats. Nothing is assumed but
the named assumptions about constants in each module (`BoundsAssumption`, `LimitsAssumption`,
`RunsAssumption`, `DispatchAssumption`, `HeartbeatAssumption`, `ReplanAssumption`, `SubAgentsAssumption`, `TaskGraphAssumption`,
`ContextAssumption`, `SkillAssumption`), which TLC evaluates in the passing runs. Where one module of proofs or one run holds
two components, nothing relates their states; the specifications have names of their own (`PlanSpec`, `WindowSpec`, `SkillSpec`, `SessionSpec`, `BeatSpec`).

* **WorldGraphProofs** (`TypeCorrect`, `StructureCorrect`, `IndexesCorrect`, `RejectionOnlyAdds`, `RemovesWhatItNames`). The structure (indexes, unique keys, one containing
  parent, dangling only after a removal) is inductive together with what holds *inside* `apply_patch`: while edges are added the indexes are kept
  up one by one; while positions are removed they are stale, and only `RebuildIndices` restores them. The lemma
  `RemoveAtShifts` says what deleting a position does to the others, and carries uniqueness and the
  containment tree over a removal. For `RemovesWhatItNames` the invariant (`NamedAreGone`) follows the edges through the removals of one patch: what is still to
  be removed lies where it lay when the patch came, as the code removes from the last position to the first, and what was removed does not come back. `RejectionOnlyAdds` is what is left of "The graph was not modified" (section 6): a refused patch takes nothing away, and
  neither L1 nor the version changes.
* **GraphLoopProofs** (`TypeCorrect`, `SafetyCorrect`, `SubRunsAreSingle`, `Frozen`, `CancelledForksNothing`, `Implements`).
  `IInv` adds to the invariants: a phase that executes or reviews runs on a cleared graph
  (`ClearedToRun`), a detector that has reached its limit has stopped the run (`DetectorsArmed`, needed for the
  types of the counters), no sub-run is left when a graph is handed over (`RepairedAtRest`), and nodes are redesigned only in the Task phase. `Implements` maps
  every step to a step of `RunContract` or a stutter.
* **DrillDownProofs** (`TypeCorrect`, `NoFailureLost`, `Implements`), for any number of runs and rounds and any depth.
  The invariant says who may have written a `run.json` (`Files`: a sub-run that is over, or a parent that dropped the handle in
  the same step), that a loop which goes on holds the handle of every sub-run it has not taken (`Waiting`, `Tracked`), and that
  an error kept for later belongs to a handle (`Pending`). Hence a report a parent takes is the sub-run's own and final
  (`TakenReport`), which is the step `Take` of `SubRunCall`.
* **DispatchProofs** (`TypeCorrect`, `StartsInOrder`, `PoolKept`, `CyclesRefused`, `AllTasksRun`, `ContractsKept`),
  for any finite set of tasks and any dependency relation. The invariant: the plan partitions what has left
  `dep_count` (`Partition`); a count is the number of prerequisites left, and the tasks of one turn are independent,
  which is why cutting them into batches is sound (`Counted`); prerequisites lie in earlier batches (`Ordered`); a set in
  which each task waits for another is never planned completely (`KnotsStay`), hence a cycle is
  reported and nothing else is; spawned are exactly the batches up to the current one, and those before
  it are over (`Spawned`), hence one semaphore per batch bounds the whole pool (`Throttled`), abandoned dispatches included; and a result is of a batch
  whose dispatch went on only if no task of it broke (`Unbroken`), hence the verdict is exactly what the results say.
* **RunSessionProofs** (`TypeCorrect`, `DriverForActive`, `DiskCurrent`, `EndsForGood`), for any number of clients,
  questions and restarts. The invariant adds what the driver's place says of the status (`Placed`) and that the
  deleting handler forgets a run before it removes its files (`ForgottenFirst`): were it the other way round, a
  deletion between them would break `DiskInSync`. `DriverForActive` does not assume that a step returns: a driver is at work, or it panicked.
* **HeartbeatProofs** (`TypeCorrect`, `RoundsAreKept`, `CancelStays`), for any number of heartbeats, rounds, runs and deaths. The
  invariant is the two properties with `Unborn`: a heartbeat whose request has not been answered is in no process's memory, so that no end of a run
  can count for it and no cancellation meet it.
* **ReplanProofs**. *Search* (`SearchIsExact`, `StackIsUnfinished`), for every graph, dangling edges included. The invariant: the path is what is in
  progress, each node leading to the next (`OnPath`); what is done leads only to what is done (`DoneIsClosed`) and contains no knot, a set in
  which each node leads into the set (`NoKnotDone`). Stating acyclicity by knots instead of paths avoids an induction along a path. `StackIsUnfinished`
  justifies that the model leaves out the case of a finished node on top of the stack. *Replanning* (`TypeCorrect`, `PassesOnlySound`,
  `CascadeIsComplete`, `SearchIsExactInReplan`), for every set of nodes, patches and replies. The search runs again and again on a graph that changes
  between its runs, so the invariant contains that of the search. `Inspecting` says what an inspection has found: the second relation is only searched
  on a graph whose first one is acyclic or already reported; `GatePassed` says that the gate would pass the graph again while the verifier works on it, unless a local repair has
  changed it; hence a graph that is executed is sound by both. `CascadeOnItsWay` says of every node that feeds a broken one that it was judged or that a call which is not over has still to look at it.
* **TaskPhaseProofs**, `SubAgents` (`TypeCorrect`, `ChangesAreKept`), for any number of agents, steps, rounds and retries. The invariant: a call that nothing has
  disturbed is the only one that runs (`Alone`), so that in the midst of an edit the file is as it left it and all that is kept was read (`MidWrite`);
  whenever nobody is writing, what is kept is in the file (`Settled`).
* **GraphLoopProofs**, `TaskGraph` (`PlanTypeCorrect`, `HandsOverWhole`, `RefusesOnlyLoops`), for any plans, flows, replies and depths. The invariant: at every
  moment of an expansion each node has the whole of an accepted reply or nothing (`Whole`), which survives the level that is given up half way;
  expansions add no dependency the scheduler reads (`PlanDepends`), so that only a skill's own flow can be refused, and nothing starts before the search for
  cycles (`Cleared`).
* **TaskPhaseProofs**, `ContextWindow` (`BudgetsHold`, `NearestIsShownFirst`), for all lengths, budgets, depths and graphs. A text that is paid for
  is no longer than four times its tokens; `PaidFor` carries this over a level whose heading and marker are not paid for, which is why the overhead is three headings and markers and no more.
  `Passed`: what a loop has left behind is shown. There is no theorem for `TypeOK`: that the entities that are left are nodes rests on `ReachedWithin`, a
  recursive function over distances, and an induction over it is out of reach.
* **RunSessionProofs**, `SkillStore` (`SkillTypeCorrect`, `WholeSkills`, `ApprovedIsFound`), for any set of runs that capture. As long as nothing has overlapped,
  whoever changes the disk is alone with it (`Exclusive`) and its place says how far the root has got (`DiskWhole`); a reader that has read half a skill finds
  the other half as it was (`HalfRead`), and what a promotion copies was loaded and stays (`PromotesLoaded`). A root that neither a promotion nor
  a deletion has begun to touch keeps the approved skill or none (`ApprovedKept`): the failures of captures are confined to the other root.

What proving found in the models, though no run had shown it, was corrected: two definitions by overlapping `CASE`s
(`SubAgents!Reported`, `ContextWindow!InLevel`) left the choice open where two cases hold, while the code takes the first; `SubAgents` admitted a bound of
no rounds and did not list `explore` among the types of contract; `SkillStore` did not say that the names of runs differ from its own words.

Every inductive invariant was checked by TLC on the instance of the component's run before it was proved.

**Model-checked only.** Liveness (`Terminates`, `Ends`, `EveryForkReports`, `NoLostWakeup`, `CancelStopsWork`, `HeartbeatEnds`, `PassesEnd`, `PlanEnds`,
`TurnsEnd`): liveness under fairness and `ENABLED` are out of this prover's reach. The type of `ahead` in `ContextWindow`, which needs an induction over data: the library's
induction theorems take an operator as a parameter, which no installed prover can instantiate. For the same reason reachability is a fixed point over
subsets or a recursive function here, and the proofs use of it only what needs no induction. No module uses a RECURSIVE operator.

## 6. What the code does that a document denies

Five runs expect a violation.

* `taskgraph_order`. A decomposition's declared dependencies become `LeadsTo` edges
  (`decomposer.rs:521`), the scheduler orders by `DependsOn` only (`scheduler/mod.rs:104`), so all tasks of a decomposition are
  ready at once, while `decomposer.rs:8-11` says that its nodes are "connected by `RelationType::DependsOn` edges" for the scheduler. (A
  plan compiled from a skill has such edges, from source to target: the deliverable runs first.)
* `refused_patch`. A patch that is refused at an edge leaves the nodes and edges that came before it (`graph/mod.rs:761-767`); the loop tells the
  model "Patch REJECTED ... The graph was not modified." (`graph_loop.rs:3217`).
* `loop_unbounded`. A cascade that finds a predecessor in need of repair makes `handle_task_phase_graph_errors` call itself
  (`graph_loop.rs:3934`), with no round and no depth to bound it; a `LeadsTo` cycle, or nodes that redesigns add, keep one `step()` from returning.
  `docs/design-v2-cascade-backtrack.md:367-368`: "**The budget is hard.** 300 rounds is generous enough for complex tasks but finite enough to guarantee termination."
* `drill_orphans`. On cancel, `drive_run` sets the flag of the root loop and returns without another step (`api_runs.rs:858-865`, 885-894), so that the block that
  finishes sub-runs (`GraphLoop!Cancelled`) is not reached, and sub-runs go on to take rounds and to fork. `api_runs.rs:853-857` says: "Without this, drill-down sub-runs would keep
  running after the parent session was already torn down." Where the block is reached it writes Cancelled into the sub-run's `run.json` "so external observers ... can see that this sub-run
  was cancelled" (`graph_loop.rs:1852-1855`, 1880-1882) and tells the sub-run nothing: it goes on and overwrites the mark with Done or Error, which is why
  `EveryForkReports` says nothing of cancelled runs.
* `dispatch_iff`. With `verify_contract`, a sub-agent that failed by itself is skipped (`dispatcher.rs:336-338`), so that a dispatch may succeed although all of them failed.
  `dispatcher.rs:327-329`: "A run "succeeded" iff every sub-agent succeeded AND ...". `VerdictKeepsContracts` says what the code does instead.

Met on the way, in the models or beside them, and not stated by a run:

*Graph and repair*

* A local repair that names a position twice removes a further edge, also one outside its scope
  (`docs/ARCHITECTURE.md:300-301` says that repairs stay inside); a repair goes to the scope-gap path, which checks no scope, when its
  free text contains "scope", "range" or "missing module".
* `set_l1` is read by neither `parse_patch`; nodes added by repairs and redesigns are never enriched; `L1Store::prune_orphans` has no callers.
* `find_cycle_in_relation` panics (`validation.rs:140`) on an edge whose target is no node, which removals produce
  (`DanglingOnlyAfterRemoval` says exactly when). In `Replan` this is `SearchPanics`, and the step it happens in never returns: nobody awaits the task of
  `drive_run`, so the run stays listed as Running with no driver until the process is restarted (`RunSession!StepPanics`, the exception of `ZombiesOnlyByPanic`); a sub-run never
  reports, and its parent polls until it times out (`DrillDown`, "panicked"); the run of a heartbeat counts no round, so that the heartbeat stops (`Heartbeat!RunPanics`).

*Loop*

* A parent that waits for a sub-run is ended by stagnation (`graph_loop.rs:2350`), as its graph does not change.
* An empty patch in Seeding moves the loop to Filling with no nodes; a schema rejection poisons a run without a heartbeat;
  a verification pass can be followed by the stagnation poison in the same step.
* Explore results are collected in completion order and paired with the items in request order (`graph_loop.rs:4189`), where a comment says
  "Item-by-item ... in order." (4207-4209).
* A local repair's recheck passes to the Task phase without the orphan gate (hence `mended` in `PassedGraphIsSound`); patches may remove or
  overwrite the anchor, and a graph without an immutable node passes every gate; only the first node in need of repair is
  redesigned.
* The conversation's module comment says that history is not replayed; `to_request` includes its last eight messages.

*Planning and work*

* The retry of a decomposition demands a tool call but reads only text; a looping skill is refused and poisons every run that matches it; an expansion's sub-node with
  a known id overwrites that task; parents and their children are dispatched side by side.
* `write_calls_made` counts a write before guard, policy and outcome, so the `MustEdit` contract can be met by a denied write. A reply that cannot be parsed ends a sub-agent as
  a success, without a look at its contract.
* The scope guard looks at `bash` only, and only at some paths; edits take no lock; the comment "Kill on timeout; the pipes will then close" does not hold
  for a process that `bash` left in the background (`SubAgents!Drained`).
* A section of a prompt can exceed its budget by the truncation marker (`SectionsFit`), where `context/mod.rs:10` says "within budget"; the proposer's
  second snapshot of the graph (`proposer.rs` 792-831) has no budget; one orphan note that is too long is dropped whole.

*Gateway*

* A run that is cancelled as it turns to its user is never over (`api_runs.rs:1037`), hence "or stuck at a question" in
  `CancelStopsWork`; an answer that came late is taken for the next question (1039).
* A deleted run can come back. `delete_run` cancels, forgets and removes the files, then the driver notices the token
  and saves its metadata as cancelled: the directory is made again, and the next restart lists the run. `RunSession`
  has the behaviour: `Delete`, `DeleteFromMap`, `DeleteFiles`, `Interrupt`, `SaveEnd`, `Restart`.
* `run.json` is written in place: a run whose file is cut off by a crash is not restored; if the cut is inside a multi-byte character, the
  `?` after `read_to_string` (`persistence.rs:118`) keeps *every* run from being restored.
* An event stream that a client keeps open holds up the shutdown between two rounds of a heartbeat for ever (`HeartbeatEnds`).
* Any run that finishes while a heartbeat is active counts a round, and a cancelled one never does; while a heartbeat is active, its
  virtual user also answers the questions of users' runs.
* Each capture makes a storage, and hence a lock, of its own (`api_runs.rs:1100`); `storage.rs:31` says that the lock "Serializes concurrent writes to the same slug".

*Drill-down, checkpoints*

* `run_with_persistence` writes Done for a child that ended Paused, GraphInvalid or TaskFailed (`DrillDown!Verdict`).
* A timed-out child is put back among the handles in flight, so the timeout is reported only when the child
  writes its report, or never if the parent runs out of rounds first; `mark_complex_node_timeout` promises it for the
  next tick. If the child then reports Done, its node is marked done and a GraphInvalid blames it all the same.
* A parent that is poisoned leaves its sub-run running, which goes on to fork (`DrillDown!Exhaust`); its parent in turn takes it for finished and forks again.
* The gateway never calls `with_persistence`: sub-runs are written below the temporary directory of
  `GraphLoop::new`, `append_sub_run_link` finds no checkpoint there, and the two endpoints over sub-runs never see one.
  A link is written as "running" and never updated, while `get_full_graph` merges the links that are "done".

## 7. Plan

Done, in this order: `WorldGraph`, `RunContract` and `GraphLoop`, `Dispatch`, `RunSession`, `SubRunCall` and `DrillDown`, each with its proofs;
`Heartbeat` and `CycleSearch` with theirs; `Replan`, `SkillStore`, `TaskGraph`, `SubAgents`, `ContextWindow` with theirs; repair paths and enricher in `WorldGraph`, the
program's profiles and the saturation guards in `GraphLoop`, the torn `run.json` in `RunSession`.

Every component now has its theorems (section 5).

Left, in order:

1. Checkpoints: branches and the links to sub-runs, should a component come to read them back.
2. `Replan` composed with the rounds and guards of `GraphLoop`, which its `MaxPatches` stands for.
3. Abstract specifications for the components that have none (`Dispatch`: every task once, after its prerequisites; `SkillStore`: a register per
   slug while nothing overlaps), with a refinement each, beside the invariants proved now.

## 8. Not modelled

* Prompts, the grammar of model replies, wording of issues, notes and skills, likeness of texts, token counts other than lengths: text. What a reply can
  amount to is modelled wherever a component decides on it.
* The event stream and hooks: nothing reads them back. A slow subscriber loses events and is told so; a hook's objection is logged and the loop goes on.
* Checkpoints, their compaction, clean-up and branches: a log that no component but the branching request reads; compaction and clean-up are called by tests only.
* Intake, AST scanner, command-line arguments, configuration files, web UI: parsing and presentation.
* The caching model, safety and collecting hooks, graph-aware tools, `enrich_low_confidence`: the programs do not register or call them.
* Path and command guards, HTTP: a guard is a call that may be denied, a request one that may be turned away or fail.
* The file system refuses nothing, except in `SubAgents` and `SkillStore`, where a write may fail half way.

`PROJECT.json` lists every part with its status.

## 9. Running

    tlc -workers 2 -config MCGraphLoop.cfg MCGraphLoop
    tlapm GraphLoopProofs.tla

Each `mutants` entry of `PROJECT.json` names a changed definition of a module (marked "Mutant" in its comment) under which
TLC reports the property as violated, so that no property is vacuous. `MCTaskGraphOrder.cfg` is checked with `MCTaskGraph`, `MCWorldGraphRefused.cfg` with `MCWorldGraph`,
`MCGraphLoopEnds.cfg`, `MCDrillDownOrphans.cfg` and `MCDispatchIff.cfg` with the modules they are named after.
