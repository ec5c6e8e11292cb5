----------------------------- MODULE TaskGraph ------------------------------
(***************************************************************************)
(* How a verified graph becomes sub-tasks that run: the plan, from a saved *)
(* skill or from the decomposer, its expansion level by level, and the     *)
(* order in which the dispatcher starts what it is handed                  *)
(* (src/agent/decomposer.rs, cascade_expand.rs, src/skills/compiler.rs,    *)
(* step_task_stub).                                                        *)
(*                                                                         *)
(* One task, the run's driver; each step is a call of a model or of        *)
(* another component.  Of the dispatcher there is what Dispatch shows it   *)
(* to do: it refuses cycles of DependsOn and starts a task when all that   *)
(* the task depends on has ended.  What becomes of the results is in       *)
(* Replan, which skill is found in SkillStore.                             *)
(***************************************************************************)
EXTENDS Naturals, FiniteSets

CONSTANTS
  TaskIds,    (* ids of tasks                                               *)
  Plans,      (* what the decomposer's model may reply                      *)
  Flows,      (* graphs of saved skills: source leads to target             *)
  Growths,    (* what a model may reply to an expansion                     *)
  MaxExpandDepth    (* cascade_max_expand_depth, at most 3                  *)

Pair == TaskIds \X TaskIds
Growth == [ids : SUBSET TaskIds, concrete : SUBSET TaskIds, flow : SUBSET Pair]

ASSUME TaskGraphAssumption ==
  /\ IsFiniteSet(TaskIds)
  /\ Plans \subseteq [ids : SUBSET TaskIds, deps : SUBSET Pair]
  /\ Flows \subseteq [ids : SUBSET TaskIds, flow : SUBSET Pair]
  /\ Growths \subseteq Growth
  /\ MaxExpandDepth \in 0..3

VARIABLES
  where,      (* where the driver is                                        *)
  source,     (* where the plan came from                                   *)
  plan,       (* the task graph before its expansion                        *)
  work,       (* the task graph that is expanded, and then dispatched       *)
  level, todo,       (* expand_recursive: depth, to_expand                  *)
  started, finished  (* sub-agents                                          *)

planning == <<where, source, plan, work, level, todo, started, finished>>

(* A task graph: its edges by relation.  A node that is concrete has files *)
(* and an action in its metadata.                                          *)
Tasks == [ids : SUBSET TaskIds, concrete : SUBSET TaskIds,
          depends : SUBSET Pair, leads : SUBSET Pair, contains : SUBSET Pair]
NoTasks == [ids |-> {}, concrete |-> {}, depends |-> {}, leads |-> {}, contains |-> {}]

Within(pairs, ids) == {p \in pairs : p[1] \in ids /\ p[2] \in ids}

----------------------------------------------------------------------------
(* try_match_and_compile_skill.  A skill whose graph has no nodes is as    *)
(* good as none.                                                           *)
Planned(g, from) ==
  /\ plan' = g /\ work' = g /\ source' = from
  /\ where' = "expand"
  /\ UNCHANGED <<level, todo, started, finished>>

CompileSkill(f) ==
  /\ where = "plan" /\ f.ids # {}
  /\ Planned([NoTasks EXCEPT !.ids = f.ids, !.depends = Within(f.flow, f.ids)], "skill")

(* build_task_graph. *)
Valid(p) ==
  \A d \in p.deps : d[2] \in p.ids /\ d[1] # d[2]

(* Mutant: dependencies as the scheduler knows them, not checked. *)
BuiltDependent(p) == [NoTasks EXCEPT !.ids = p.ids, !.depends = p.deps]

Built(p) == [NoTasks EXCEPT !.ids = p.ids, !.leads = p.deps]

Decompose(p) ==
  /\ where = "plan" /\ Valid(p)
  /\ Planned(Built(p), "decomposer")

Poison == where' = "poisoned" /\ UNCHANGED <<source, plan, work, level, todo, started, finished>>

(* Neither a call of the tool nor JSON. *)
Malformed ==
  /\ where = "plan"
  /\ where' = "retry"
  /\ UNCHANGED <<source, plan, work, level, todo, started, finished>>

(* The fix-it prompt demands a call of the tool; what is read is the text. *)
RetryInText(p) ==
  /\ where = "retry" /\ Valid(p)
  /\ Planned(Built(p), "decomposer")

(* The model fails, says nothing in text, or plans what is not allowed:    *)
(* tasks of one name, nodes or dependencies that do not exist.             *)
DecomposeErrs == where \in {"plan", "retry"} /\ Poison

----------------------------------------------------------------------------
(* expand_graph, expand_recursive. *)
Children(g, n) == {p[2] : p \in {q \in g.contains : q[1] = n}}
ToExpand == work.ids \ work.concrete

(* Mutant: the depth is not passed on. *)
EnterLevelAgain ==
  /\ where = "expand" /\ todo = {}
  /\ level < MaxExpandDepth /\ ToExpand # {}
  /\ todo' = ToExpand
  /\ UNCHANGED <<where, source, plan, work, level, started, finished>>

EnterLevel ==
  /\ where = "expand" /\ todo = {}
  /\ level < MaxExpandDepth /\ ToExpand # {}
  /\ level' = level + 1 /\ todo' = ToExpand
  /\ UNCHANGED <<where, source, plan, work, started, finished>>

(* It has children, or the model fails, or replies with nothing to add.    *)
Leaf(n) ==
  /\ where = "expand" /\ n \in todo
  /\ todo' = todo \ {n}
  /\ UNCHANGED <<where, source, plan, work, level, started, finished>>

(* A sub-node that has the id of a task takes its place. *)
Grown(n, g) ==
  [work EXCEPT !.ids = @ \cup g.ids,
               !.concrete = (@ \ g.ids) \cup (g.concrete \cap g.ids),
               !.contains = @ \cup {<<n, i>> : i \in g.ids},
               !.leads = @ \cup g.flow]

(* Graph::add_edge: one Contains parent, and both ends are there.          *)
Accepted(n, g) ==
  /\ \A q \in work.contains : q[2] \in g.ids => q[1] = n
  /\ \A p \in g.flow : p[1] \in work.ids \cup g.ids /\ p[2] \in work.ids \cup g.ids

Expandable(n, g) ==
  /\ where = "expand" /\ n \in todo
  /\ Children(work, n) = {} /\ g.ids # {}

Expand(n, g) ==
  /\ Expandable(n, g) /\ Accepted(n, g)
  /\ work' = Grown(n, g) /\ todo' = todo \ {n}
  /\ UNCHANGED <<where, source, plan, level, started, finished>>

ToDispatch(g) ==
  /\ work' = g /\ todo' = {}
  /\ where' = IF g.ids = {} THEN "review" ELSE "dispatch"
  /\ UNCHANGED <<source, plan, level, started, finished>>

(* Mutant: what was added before the refused edge is dispatched too. *)
ExpandRefusedKept(n, g) ==
  /\ Expandable(n, g) /\ ~Accepted(n, g)
  /\ ToDispatch([Grown(n, g) EXCEPT !.leads = work.leads])

(* An edge is refused: all of the expansion is thrown away.                *)
ExpandRefused(n, g) ==
  /\ Expandable(n, g) /\ ~Accepted(n, g)
  /\ ToDispatch(plan)

HandOver ==
  /\ where = "expand" /\ todo = {}
  /\ level = MaxExpandDepth \/ ToExpand = {}
  /\ ToDispatch(work)

----------------------------------------------------------------------------
(* Dispatcher::run. *)
Circle(S) == S # {} /\ \A s \in S : \E t \in S : <<s, t>> \in work.depends
Cyclic == \E S \in SUBSET work.ids : Circle(S)

DispatchRefuses ==
  /\ where = "dispatch" /\ started = {} /\ Cyclic
  /\ where' = "refused"
  /\ UNCHANGED <<source, plan, work, level, todo, started, finished>>

StartTask(t) ==
  /\ where = "dispatch" /\ ~Cyclic
  /\ t \in work.ids \ started
  /\ \A i \in work.ids : <<t, i>> \in work.depends => i \in finished
  /\ started' = started \cup {t}
  /\ UNCHANGED <<where, source, plan, work, level, todo, finished>>

TaskEnds(t) ==
  /\ where = "dispatch" /\ t \in started \ finished
  /\ finished' = finished \cup {t}
  /\ UNCHANGED <<where, source, plan, work, level, todo, started>>

DispatchReturns ==
  /\ where = "dispatch" /\ finished = work.ids
  /\ where' = "review"
  /\ UNCHANGED <<source, plan, work, level, todo, started, finished>>

(* A batch runs out of time, or a sub-agent cannot be started. *)
DispatchErrs == where = "dispatch" /\ ~Cyclic /\ Poison

----------------------------------------------------------------------------
PlanInit ==
  /\ where = "plan" /\ source = "none" /\ plan = NoTasks /\ work = NoTasks
  /\ level = 0 /\ todo = {} /\ started = {} /\ finished = {}

Plan ==
  \/ \E f \in Flows : CompileSkill(f)
  \/ \E p \in Plans : Decompose(p) \/ RetryInText(p)
  \/ Malformed \/ DecomposeErrs

Expansion ==
  \/ EnterLevel \/ HandOver
  \/ \E n \in TaskIds : Leaf(n) \/ \E g \in Growths : Expand(n, g) \/ ExpandRefused(n, g)

Dispatch ==
  \/ DispatchRefuses \/ DispatchReturns \/ DispatchErrs
  \/ \E t \in TaskIds : StartTask(t) \/ TaskEnds(t)

PlanNext == Plan \/ Expansion \/ Dispatch

(* Models answer, and sub-agents come to an end. *)
PlanFairness == WF_planning(PlanNext)

PlanSpec == PlanInit /\ [][PlanNext]_planning /\ PlanFairness

----------------------------------------------------------------------------
PlanTypeOK ==
  /\ where \in {"plan", "retry", "expand", "dispatch", "review", "refused", "poisoned"}
  /\ source \in {"none", "skill", "decomposer"}
  /\ plan \in Tasks /\ work \in Tasks
  /\ level \in 0..MaxExpandDepth /\ todo \subseteq TaskIds
  /\ finished \subseteq started /\ started \subseteq work.ids

(* What is dispatched is the plan with whole expansions: each node has all *)
(* the sub-nodes and all the edges of some reply or none, and no task is   *)
(* there that nobody planned.  A refused edge leaves nothing half done.    *)
HandedOverWhole ==
  where \in {"dispatch", "review"} =>
    /\ work.ids = plan.ids \cup UNION {Children(work, n) : n \in work.ids}
    /\ \A n \in work.ids : Children(work, n) # {} =>
         \E g \in Growths : Children(work, n) = g.ids /\ g.flow \subseteq work.leads

(* The dispatcher turns a plan down only for a loop in a skill's flow, and *)
(* then always: a decomposition is never turned down, and no reply to an   *)
(* expansion makes or hides a cycle of dependencies.                       *)
OnlyLoopingSkillsRefused ==
  /\ where = "refused" => source = "skill"
  /\ where \in {"refused", "review"} =>
       (where = "refused" <=> \E S \in (SUBSET plan.ids) \ {{}} :
                             \A s \in S : \E t \in S : <<s, t>> \in plan.depends)

(* Planning, expansion and dispatch come to an end, whatever the models    *)
(* reply.                                                                  *)
PlanEnds == where = "plan" ~> where \in {"review", "refused", "poisoned"}

----------------------------------------------------------------------------
(* Not guaranteed by the code: see the run that expects a violation.       *)

(* A task starts after the tasks it was declared to depend on: they are    *)
(* "connected by RelationType::DependsOn edges" for the scheduler.         *)
DeclaredOrder ==
  source = "decomposer" =>
    \A d \in plan.leads \cup plan.depends : d[1] \in started => d[2] \in finished
============================================================================
