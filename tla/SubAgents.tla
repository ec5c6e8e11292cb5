----------------------------- MODULE SubAgents ------------------------------
(***************************************************************************)
(* The agents of a run at work: the proposer, which decides the next step  *)
(* of the Graph phase, and the sub-agents of a batch, which use tools on   *)
(* the files of one project (src/agent/proposer.rs, subagent.rs,           *)
(* contract.rs, dispatch_explore_subagents, src/tools, src/model).         *)
(*                                                                         *)
(* Sub-agents run in parallel, on threads of their own: an edit reads the  *)
(* file, truncates it and writes it, without a lock.  One file stands for  *)
(* those that several agents touch; its text is the set of the agents      *)
(* whose change it holds.  What the models say is chosen by the            *)
(* environment.  Permits and the verdict of the dispatcher are in          *)
(* Dispatch, what a step does to the graph is in GraphLoop.                *)
(***************************************************************************)
EXTENDS Naturals, Sequences, FiniteSets

CONSTANTS
  Items,        (* the items of a batch, one agent each, as requested       *)
  MaxItems,     (* GraphProposer.max_explore_items_per_step                 *)
  MaxSteps,     (* SubAgent.max_steps in the Task phase                     *)
  MaxRetries,   (* AnthropicConfig.max_retries                              *)
  Contracts,    (* contracts a task may carry                               *)
  MaxRounds     (* bound: steps of the proposer                             *)

Agents == {Items[i] : i \in DOMAIN Items}

ASSUME SubAgentsAssumption ==
  /\ \A i, j \in DOMAIN Items : Items[i] = Items[j] => i = j
  /\ "proposer" \notin Agents /\ "torn" \notin Agents
  /\ Contracts \subseteq {"none", "mention", "edit"}
  /\ MaxItems \in Nat \ {0} /\ MaxSteps \in Nat \ {0}
  /\ MaxRetries \in Nat /\ MaxRounds \in Nat \ {0}

Clients == Agents \cup {"proposer"}

VARIABLES
  main,        (* where the run is: "ask" and "again" are the proposer's    *)
  explored,    (* GraphLoop.last_step is Explore                            *)
  round,
  retries,     (* per client: requests of this call that were turned away   *)
  at,          (* per sub-agent: where in execute and in a tool it is       *)
  turn,        (* per sub-agent: step of execute                            *)
  contract,    (* per sub-agent: what its task demands                      *)
  wrote,       (* per sub-agent: write_calls_made > 0                       *)
  result,      (* per sub-agent: success of the SubAgentResult              *)
  joined,      (* results of an exploration, as they came in                *)
  text,        (* the file                                                  *)
  read,        (* per sub-agent: the text its edit has read                 *)
  left,        (* sub-agents whose command left a process with its output   *)
  kept,        (* history: changes reported as done that nothing replaced   *)
  disturbed    (* history: calls that another change overlapped             *)

proposer == <<main, explored, round>>
batch == <<turn, contract, wrote, result, joined>>
files == <<text, read, kept, disturbed>>
vars == <<proposer, retries, at, batch, left, files>>

Torn == {"torn"}
(* What the proposer may call, and what it may write out.                  *)
Offered == {"ask_user", "propose_patch", "ready_for_verify", "block", "explore",
            "consult_advisor"}
Steps == Offered \cup {"call_tool"}
Exploring == main = "explore"
Working == {a \in Agents : at[a] \notin {"off", "over"}}

----------------------------------------------------------------------------
(* AnthropicModel::complete.  A request that is turned away with 429 or    *)
(* 529 is repeated; every other failure, a timeout included, is returned.  *)
Refused(c) == retries[c] = MaxRetries
Answered(c) == retries' = [retries EXCEPT ![c] = 0]

Asks(c) == IF c = "proposer" THEN main \in {"ask", "again"} ELSE at[c] = "ask"

(* Mutant: the attempts are counted from zero for every request. *)
BackOffForever(c) ==
  /\ Asks(c)
  /\ retries' = [retries EXCEPT ![c] = IF Refused(c) THEN 0 ELSE @ + 1]
  /\ UNCHANGED <<proposer, at, batch, left, files>>

BackOff(c) ==
  /\ Asks(c) /\ ~Refused(c)
  /\ retries' = [retries EXCEPT ![c] = @ + 1]
  /\ UNCHANGED <<proposer, at, batch, left, files>>

----------------------------------------------------------------------------
(* GraphProposer::next_step_with_retry. *)
AfterExplore == {"propose_patch", "block", "ask_user", "ready_for_verify", "explore"}
Gate(s) == explored => s \in AfterExplore

(* The batch of an exploration, or of the Task phase. *)
Start(who, demands) ==
  /\ at' = [a \in Agents |-> IF a \in who THEN "ask" ELSE "off"]
  /\ turn' = [a \in Agents |-> 0]
  /\ contract' = demands
  /\ wrote' = [a \in Agents |-> FALSE]
  /\ result' = [a \in Agents |-> "none"]
  /\ joined' = <<>>
  /\ UNCHANGED <<left, files>>

Stepped(s) ==
  /\ Asks("proposer") /\ Answered("proposer")
  /\ explored' = (s = "explore") /\ round' = round + 1

NextRound(r) == IF r = MaxRounds THEN "over" ELSE "ask"

(* The items are explored side by side, each by an agent of its own.       *)
Explore(who) ==
  /\ main' = "explore"
  /\ Start(who, [a \in Agents |-> "explore"])

(* Items of a call that are not usable are dropped, and none may be left.  *)
ExploreCalled(who) == Stepped("explore") /\ Explore(who)

(* Written out, there is at least one, and no more than the cap.           *)
ExploreWritten(who) ==
  /\ Cardinality(who) \in 1..MaxItems
  /\ Stepped("explore") /\ Explore(who)

(* A stalled Filling phase explores, with two items of its own, whatever   *)
(* else the step was.                                                      *)
ForceExplore(who) ==
  /\ Cardinality(who) = 2
  /\ \E s \in Steps \ {"explore", "propose_patch"} : Gate(s) /\ Stepped(s)
  /\ Explore(who)

(* Verification passed, and the graph was cut into tasks. *)
Execute(demands) ==
  /\ Stepped("ready_for_verify")
  /\ main' = "dispatch"
  /\ Start(Agents, demands)

(* No sub-agents; an explore may be stopped as saturated. *)
OtherStep(s) ==
  /\ Gate(s) /\ Stepped(s)
  /\ main' = NextRound(round + 1)
  /\ UNCHANGED <<at, batch, left, files>>

AskAgain ==
  /\ main = "ask" /\ Answered("proposer")
  /\ main' = "again"
  /\ UNCHANGED <<explored, round, at, batch, left, files>>

(* The call fails, or the reply is empty.                                  *)
NoReply == AskAgain

(* A text without an object that is closed and valid, what is thought      *)
(* aloud left out.                                                         *)
NoObject == AskAgain

(* An object or a call that is no step: a field is missing, a call is not  *)
(* among those offered, there are too many items.                          *)
NoStep == AskAgain

Gated == explored /\ (\E s \in Steps : ~Gate(s)) /\ AskAgain

(* Each of these is asked again once.                                      *)
Malformed == NoReply \/ NoObject \/ NoStep \/ Gated

(* And then taken for a question to the user.                              *)
Salvage ==
  /\ main = "again" /\ Stepped("ask_user")
  /\ main' = NextRound(round + 1)
  /\ UNCHANGED <<at, batch, left, files>>

----------------------------------------------------------------------------
(* SubAgent::execute.  The sub-agent a is over with a result r.            *)
Over(a, r) ==
  /\ at' = [at EXCEPT ![a] = "over"]
  /\ result' = [result EXCEPT ![a] = r]
  /\ turn' = [turn EXCEPT ![a] = 0]
  /\ UNCHANGED contract

(* The next step, or max_steps; an exploration has no such limit.          *)
LastStep(a) == contract[a] # "explore" /\ turn[a] + 1 = MaxSteps

EndTurn(a) ==
  IF LastStep(a) THEN Over(a, "failure")
  ELSE /\ at' = [at EXCEPT ![a] = "ask"]
       /\ turn' = [turn EXCEPT ![a] = IF contract[a] = "explore" THEN 0 ELSE @ + 1]
       /\ UNCHANGED <<contract, result>>

Replies(a) == a \in Agents /\ Asks(a) /\ Answered(a) /\ UNCHANGED <<proposer, joined>>

ModelFails(a) ==
  /\ Replies(a) /\ Over(a, "failure")
  /\ UNCHANGED <<wrote, left, files>>

(* CheckContract: what the answer must mention, or a write that was asked  *)
(* for, whatever became of it.                                             *)
Satisfiable(a) == contract[a] = "edit" => wrote[a]
Demanding(a) == contract[a] \in {"explore", "mention"} \/ (contract[a] = "edit" /\ ~wrote[a])

FinalAnswer(a) ==
  /\ Replies(a)
  /\ Satisfiable(a) /\ Over(a, "success")
  /\ UNCHANGED <<wrote, left, files>>

AnswerSentBack(a) ==
  /\ Replies(a)
  /\ Demanding(a) /\ EndTurn(a)
  /\ UNCHANGED <<wrote, left, files>>

ReportGraphError(a) ==
  /\ Replies(a) /\ Over(a, "failure")
  /\ UNCHANGED <<wrote, left, files>>

(* No action at all: the reply is the answer. *)
ParseFailed(a) ==
  /\ Replies(a) /\ Over(a, "success")
  /\ UNCHANGED <<wrote, left, files>>

(* UseTool.  A call counts as a write, unless it only reads, before anyone *)
(* has looked at it.  A call that comes to nothing is a turn like others.  *)
InVain(a, writes) ==
  /\ Replies(a) /\ EndTurn(a)
  /\ \E write \in writes : wrote' = [wrote EXCEPT ![a] = @ \/ write]
  /\ UNCHANGED <<left, files>>

(* A command as ScopeGuard and BashTool::classify_read_only take it: it is *)
(* known to read only, it begins like a change of files or like a build,   *)
(* it is made of several, it names paths under the directories allowed.    *)
Commands ==
  {c \in [reads : BOOLEAN, writes : BOOLEAN, builds : BOOLEAN, compound : BOOLEAN,
          paths : {"none", "inside", "outside"}] : c.reads => ~c.compound}

(* check_bash: what cannot be judged is out of scope, reading never is.    *)
InScope(c) ==
  \/ c.reads
  \/ ~c.compound /\ c.writes /\ c.paths = "inside"
  \/ ~c.compound /\ c.builds /\ c.paths # "outside"

OutOfScope == {c \in Commands : ~InScope(c)}

(* BashTool::is_read_only, for each of the commands of a set.              *)
Writes(commands) == {~c.reads : c \in commands}

UnknownTool(a) == InVain(a, {FALSE})

(* Sub-agents of the Task phase have a scope guard.                        *)
ScopeDenies(a) ==
  /\ contract[a] # "explore"
  /\ InVain(a, Writes(OutOfScope))

(* DangerousCommandDeny looks at patterns, whatever the command does.      *)
PolicyDenies(a) == InVain(a, Writes(Commands))

(* A command to be explained, or one that cannot be parsed.                *)
NotRun(a) == InVain(a, Writes(Commands))

ReadFile(a) == InVain(a, {FALSE})

(* WebSearchTool, WebFetchTool: a page in the cache, an address that is    *)
(* refused, or a request, which has a time limit.                          *)
NoRequest(a) == InVain(a, {FALSE})

AskWeb(a) ==
  /\ Replies(a)
  /\ at' = [at EXCEPT ![a] = "web"]
  /\ UNCHANGED <<turn, contract, wrote, result, left, files>>

Running(a) == at[a] \notin {"off", "ask", "web", "drain", "over"}

(* A call begins that may change the file. *)
UseTool(a, place) ==
  /\ Replies(a)
  /\ at' = [at EXCEPT ![a] = place]
  /\ wrote' = [wrote EXCEPT ![a] = TRUE]
  /\ LET others == {b \in Agents \ {a} : Running(b)} \cup left
     IN  disturbed' = IF others = {} THEN disturbed \ {a} ELSE disturbed \cup others \cup {a}
  /\ UNCHANGED <<turn, contract, result, left, text, read, kept>>

(* parse_action.  Of the errors in a report those count that say what is   *)
(* wrong and, about a description, of which node; one stands for the list. *)
Errors == [kind : {"L0Structural", "L1Semantic", "ScopeGap"}, detail : BOOLEAN,
           related : BOOLEAN]
Usable(e) == e.detail /\ (e.kind = "L1Semantic" => e.related)

Texts == [object : BOOLEAN, tool : BOOLEAN, errors : {{}} \cup {{e} : e \in Errors},
          action : {"use_tool", "final_answer", "report_graph_error", "other"}]

Understood(t) ==
  /\ t.object /\ t.action # "other"
  /\ t.action = "use_tool" => t.tool
  /\ t.action = "report_graph_error" => \E e \in t.errors : Usable(e)

Actions == {IF Understood(t) THEN t.action ELSE "none" : t \in Texts}

Act(a, action) ==
  \/ action = "final_answer" /\ (FinalAnswer(a) \/ AnswerSentBack(a))
  \/ action = "report_graph_error" /\ ReportGraphError(a)
  \/ action = "none" /\ ParseFailed(a)
  \/ /\ action = "use_tool"
     /\ \/ UnknownTool(a) \/ ScopeDenies(a) \/ PolicyDenies(a) \/ NotRun(a)
        \/ ReadFile(a) \/ NoRequest(a) \/ AskWeb(a)
        \/ \E place \in {"edit read", "write open", "command"} : UseTool(a, place)

----------------------------------------------------------------------------
(* EditFileTool, WriteFileTool: std::fs reads, truncates and writes.       *)
ToolGoesOn(a, place) ==
  /\ at' = [at EXCEPT ![a] = place]
  /\ UNCHANGED <<proposer, retries, batch, left>>
ToolReturns(a) == EndTurn(a) /\ UNCHANGED <<proposer, retries, wrote, joined>>

WebAnswers(a) ==
  /\ at[a] = "web"
  /\ ToolReturns(a)
  /\ UNCHANGED <<left, files>>

ReadToEdit(a) ==
  /\ at[a] = "edit read" /\ text # Torn
  /\ read' = [read EXCEPT ![a] = text \cup {a}]
  /\ ToolGoesOn(a, "edit open")
  /\ UNCHANGED <<text, kept, disturbed>>

(* old_string is not there, or not once. *)
NothingToEdit(a) ==
  /\ at[a] = "edit read"
  /\ ToolReturns(a)
  /\ UNCHANGED <<left, files>>

Truncate(a) ==
  /\ at[a] \in {"edit open", "write open"}
  /\ text' = Torn
  /\ ToolGoesOn(a, IF at[a] = "edit open" THEN "edit" ELSE "write")
  /\ UNCHANGED <<read, kept, disturbed>>

Reported(a) ==
  IF a \in disturbed THEN {} ELSE IF at[a] = "write" THEN {a} ELSE kept \cup {a}

(* What another one wrote meanwhile may stick out. *)
WriteText(a) ==
  /\ at[a] \in {"edit", "write"}
  /\ LET new == IF at[a] = "edit" THEN read[a] ELSE {a}
     IN  text' \in {new} \cup (IF text = Torn THEN {} ELSE {Torn})
  /\ kept' = Reported(a)
  /\ read' = [read EXCEPT ![a] = {}]
  /\ ToolReturns(a)
  /\ UNCHANGED <<left, disturbed>>

(* Mutant: the error of the write is dropped. *)
WriteFailsUnnoticed(a) ==
  /\ at[a] \in {"edit", "write"}
  /\ kept' = Reported(a)
  /\ read' = [read EXCEPT ![a] = {}]
  /\ ToolReturns(a)
  /\ UNCHANGED <<left, text, disturbed>>

(* The file cannot be opened, or not be written once it is empty. *)
WriteFails(a) ==
  /\ at[a] \in {"edit open", "write open", "edit", "write"}
  /\ kept' = IF at[a] \in {"edit", "write"} THEN {} ELSE kept
  /\ read' = [read EXCEPT ![a] = {}]
  /\ ToolReturns(a)
  /\ UNCHANGED <<left, text, disturbed>>

----------------------------------------------------------------------------
(* BashTool::call.  A command, or what it has left behind, changes files   *)
(* as it likes.                                                            *)
Clobber(a) ==
  /\ at[a] = "command" \/ a \in left
  /\ text' \in {Torn, {a}} /\ kept' = {}
  /\ UNCHANGED <<proposer, retries, at, batch, left, read, disturbed>>

Forks(a) ==
  /\ at[a] = "command" /\ a \notin left
  /\ left' = left \cup {a}
  /\ UNCHANGED <<proposer, retries, at, batch, files>>

Closes(a) ==
  /\ a \in left
  /\ left' = left \ {a} /\ kept' = {}
  /\ UNCHANGED <<proposer, retries, at, batch, text, read, disturbed>>

ShellGone(a) ==
  /\ at[a] = "command"
  /\ ToolGoesOn(a, "drain")
  /\ kept' = {} /\ UNCHANGED <<text, read, disturbed>>

Exits(a) == ShellGone(a)

(* The shell is killed, and nothing else. *)
TimeOut(a) == ShellGone(a)

(* The reader tasks wait for the end of the output, which a process in the *)
(* background may hold open.                                               *)
Drained(a) ==
  /\ at[a] = "drain" /\ a \notin left
  /\ ToolReturns(a)
  /\ UNCHANGED <<left, files>>

----------------------------------------------------------------------------
(* dispatch_explore_subagents: results come as they come, and are shown    *)
(* under the items one after the other.                                    *)
Batch == {a \in Agents : at[a] # "off"}
Joined(a) == \E i \in 1..Len(joined) : joined[i] = a

Join(a) ==
  /\ main = "explore" /\ at[a] = "over" /\ ~Joined(a)
  /\ joined' = Append(joined, a)
  /\ UNCHANGED <<proposer, retries, at, turn, contract, wrote, result, left, files>>

Returns ==
  /\ \/ main = "explore" /\ \A a \in Batch : Joined(a)
     \/ main = "dispatch" /\ Working = {}
  /\ main' = NextRound(round)
  /\ UNCHANGED <<explored, round, retries, at, batch, left, files>>

(* The run is cancelled: its task drops the step.  An exploration ends     *)
(* where it next waits, the tasks of a dispatch go on.                     *)
Drop ==
  /\ main \notin {"over", "dropped"}
  /\ main' = "dropped"
  /\ UNCHANGED <<explored, round, retries, at, batch, left, files>>

Aborted(a) ==
  /\ main = "dropped" /\ contract[a] = "explore"
  /\ at[a] \in {"ask", "web", "command", "drain"}
  /\ Over(a, "none") /\ kept' = {}
  /\ UNCHANGED <<proposer, retries, wrote, joined, left, text, read, disturbed>>

----------------------------------------------------------------------------
Init ==
  /\ main = "ask" /\ explored = FALSE /\ round = 0
  /\ retries = [c \in Clients |-> 0]
  /\ at = [a \in Agents |-> "off"] /\ turn = [a \in Agents |-> 0]
  /\ contract = [a \in Agents |-> "none"] /\ wrote = [a \in Agents |-> FALSE]
  /\ result = [a \in Agents |-> "none"] /\ joined = <<>>
  /\ text = {} /\ read = [a \in Agents |-> {}]
  /\ left = {} /\ kept = {} /\ disturbed = {}

Propose ==
  \/ BackOff("proposer") \/ Malformed \/ Salvage
  \/ \E who \in SUBSET Agents : ExploreCalled(who) \/ ExploreWritten(who) \/ ForceExplore(who)
  \/ \E demands \in [Agents -> Contracts] : Execute(demands)
  \/ \E s \in Steps : OtherStep(s)

Reply(a) ==
  \/ BackOff(a) \/ ModelFails(a)
  \/ \E action \in Actions : Act(a, action)

Tool(a) ==
  \/ ReadToEdit(a) \/ NothingToEdit(a) \/ Truncate(a) \/ WriteText(a) \/ WriteFails(a)
  \/ TimeOut(a) \/ Drained(a) \/ WebAnswers(a)

Turn(a) == Reply(a) \/ Tool(a)

Next ==
  \/ Propose \/ Returns \/ Drop
  \/ \E a \in Agents : Turn(a) \/ Join(a) \/ Aborted(a)
  \/ \E a \in Agents : Clobber(a) \/ Forks(a) \/ Closes(a) \/ Exits(a)

(* Requests and commands have time limits; a process in the background has *)
(* none.                                                                   *)
Fairness ==
  /\ WF_vars(Propose)
  /\ \A a \in Agents : WF_vars(Turn(a))

Spec == Init /\ [][Next]_vars /\ Fairness

----------------------------------------------------------------------------
TypeOK ==
  /\ main \in {"ask", "again", "explore", "dispatch", "over", "dropped"}
  /\ explored \in BOOLEAN /\ round \in 0..MaxRounds
  /\ retries \in [Clients -> 0..MaxRetries]
  /\ at \in [Agents -> {"off", "ask", "edit read", "edit open", "edit", "write open",
                       "write", "web", "command", "drain", "over"}]
  /\ turn \in [Agents -> 0..MaxSteps]
  /\ contract \in [Agents -> Contracts \cup {"none", "explore"}]
  /\ wrote \in [Agents -> BOOLEAN] /\ result \in [Agents -> {"none", "success", "failure"}]
  /\ joined \in Seq(Agents)
  /\ text \subseteq Agents \/ text = Torn
  /\ read \in [Agents -> SUBSET Agents]
  /\ left \subseteq Agents /\ kept \subseteq Agents /\ disturbed \subseteq Agents

(* A change that a tool reported as done is in the file as long as nothing *)
(* replaced it: calls of several agents, in one batch or in the next, with *)
(* writes that fail or a run that is dropped, lose a change only when they *)
(* overlap.                                                                *)
ChangesKept ==
  left = {} /\ (\A a \in Agents : ~Running(a)) => kept \subseteq text

(* Each step of the proposer and each sub-agent of the Task phase comes to *)
(* its end, whatever the models say and however often they are busy; only  *)
(* a process in the background that never closes its output holds up the   *)
(* agent whose command started it.                                         *)
TurnsEnd ==
  /\ \A r \in 0..MaxRounds :
       main \in {"ask", "again"} /\ round = r ~> round > r \/ main = "dropped" \/ main = "over"
  /\ (\A a \in Agents : []<>(a \notin left)) => (main = "dispatch" ~> Working = {})

=============================================================================
