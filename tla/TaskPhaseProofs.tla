--------------------------- MODULE TaskPhaseProofs ---------------------------
(***************************************************************************)
(* Theorems of the components that prepare the Task phase and do its work. *)
(*                                                                         *)
(* SubAgents: changes to files are lost only by calls that overlap.  A     *)
(* call that nothing has disturbed is the only one that runs, so that      *)
(* between its steps the file is as it left it.                            *)
(* ContextWindow: what has been written is paid for, but for a marker a    *)
(* section, and what a loop has passed is shown.                           *)
(***************************************************************************)
EXTENDS SubAgents, ContextWindow, SequenceTheorems, FiniteSetTheorems, TLAPS

Writing == {"edit", "write"}

(* Counters have room for one more where the code goes on.                 *)
Room ==
  /\ \A a \in Agents : turn[a] < MaxSteps
  /\ main \in {"ask", "again"} => round < MaxRounds

(* Where the proposer is asked, the last batch is over; what has come in   *)
(* came from agents that are.                                              *)
BatchIsOver ==
  /\ main \in {"ask", "again"} => \A a \in Agents : at[a] \in {"off", "over"}
  /\ \A i \in 1..Len(joined) : at[joined[i]] = "over"

(* A call that nothing has disturbed runs by itself. *)
Alone ==
  \A a \in Agents \ disturbed : Running(a) =>
    /\ \A b \in Agents \ {a} : ~Running(b)
    /\ left \subseteq {a} /\ (at[a] # "command" => left = {})

(* It finds the file as it has left it, and has read all that is kept.     *)
MidWrite ==
  /\ \A a \in Agents : at[a] \in {"edit open", "edit"} => a \in read[a]
  /\ \A a \in Agents \ disturbed :
       /\ at[a] \in Writing => text = Torn
       /\ at[a] \in {"edit open", "edit"} => kept \subseteq read[a]

(* What is kept is in the file unless someone is about to write it.        *)
Settled == (\A a \in Agents : at[a] \notin Writing) => kept \subseteq text

IInv == TypeOK /\ Room /\ BatchIsOver /\ Alone /\ MidWrite /\ Settled

----------------------------------------------------------------------------
(* Steps of the run itself: no agent moves.                                *)
LEMMA AgentsRestInv ==
  ASSUME IInv, UNCHANGED <<at, batch, left, files>>,
         main' \in {"ask", "again", "explore", "dispatch", "over", "dropped"},
         explored' \in BOOLEAN, round' \in 0..MaxRounds,
         retries' \in [Clients -> 0..MaxRetries],
         main' \in {"ask", "again"} =>
           round' < MaxRounds /\ \A a \in Agents : at[a] \in {"off", "over"}
  PROVE  IInv'
<1>1. UNCHANGED <<at, turn, contract, wrote, result, joined, left, text, read, kept, disturbed>>
  BY DEF batch, files
<1>2. TypeOK'
  BY <1>1 DEF IInv, TypeOK
<1>3. Room' /\ BatchIsOver'
  BY <1>1 DEF IInv, Room, BatchIsOver
<1>4. Alone' /\ MidWrite' /\ Settled'
  BY <1>1 DEF IInv, Alone, MidWrite, Settled, Running
<1> QED
  BY <1>2, <1>3, <1>4 DEF IInv

(* A batch begins: all are asked who are in it. *)
LEMMA BatchBeginsInv ==
  ASSUME IInv, main \in {"ask", "again"}, NEW agents, NEW demands, Start(agents, demands),
         demands \in [Agents -> Contracts \cup {"none", "explore"}],
         main' \in {"explore", "dispatch"}, explored' \in BOOLEAN, round' \in 0..MaxRounds,
         retries' \in [Clients -> 0..MaxRetries]
  PROVE  IInv'
<1>1. /\ at' = [a \in Agents |-> IF a \in agents THEN "ask" ELSE "off"]
      /\ turn' = [a \in Agents |-> 0] /\ contract' = demands
      /\ wrote' = [a \in Agents |-> FALSE] /\ result' = [a \in Agents |-> "none"]
      /\ joined' = <<>> /\ UNCHANGED <<left, text, read, kept, disturbed>>
  BY DEF Start, files
<1>2. MaxSteps \in Nat \ {0}
  BY SubAgentsAssumption
<1>3. TypeOK'
  <2>1. turn' \in [Agents -> 0..MaxSteps]
    BY <1>1, <1>2
  <2>2. wrote' \in [Agents -> BOOLEAN]
    BY <1>1
  <2>3. at' \in [Agents -> {"off", "ask", "edit read", "edit open", "edit", "write open",
                           "write", "web", "command", "drain", "over"}]
    BY <1>1
  <2>4. result' \in [Agents -> {"none", "success", "failure"}] /\ joined' \in Seq(Agents)
    BY <1>1
  <2>5. /\ main' \in {"ask", "again", "explore", "dispatch", "over", "dropped"}
        /\ contract' \in [Agents -> Contracts \cup {"none", "explore"}]
    BY <1>1
  <2>6. /\ text' \subseteq Agents \/ text' = Torn
        /\ read' \in [Agents -> SUBSET Agents]
        /\ left' \subseteq Agents /\ kept' \subseteq Agents /\ disturbed' \subseteq Agents
    BY <1>1 DEF IInv, TypeOK
  <2> QED
    BY <2>1, <2>2, <2>3, <2>4, <2>5, <2>6 DEF TypeOK
<1>4. Room' /\ BatchIsOver'
  BY <1>1, <1>2 DEF Room, BatchIsOver
<1>5. \A a \in Agents : ~Running(a)' /\ at'[a] \notin Writing \cup {"edit open"}
                        /\ at[a] \notin Writing
  BY <1>1 DEF IInv, BatchIsOver, Running, Writing
<1>6. Alone' /\ MidWrite'
  BY <1>5 DEF Alone, MidWrite, Writing
<1>7. Settled'
  BY <1>1, <1>5 DEF IInv, Settled
<1> QED
  BY <1>3, <1>4, <1>6, <1>7 DEF IInv

(* Counting what is left of a client's attempts. *)
LEMMA RetriesAreCounted ==
  ASSUME TypeOK, NEW c \in Clients
  PROVE  /\ Answered(c) => retries' \in [Clients -> 0..MaxRetries]
         /\ ~Refused(c) /\ retries' = [retries EXCEPT ![c] = @ + 1]
              => retries' \in [Clients -> 0..MaxRetries]
<1>1. MaxRetries \in Nat /\ retries \in [Clients -> 0..MaxRetries]
  BY SubAgentsAssumption DEF TypeOK
<1>2. 0 \in 0..MaxRetries
  BY <1>1
<1>3. retries[c] # MaxRetries => retries[c] + 1 \in 0..MaxRetries
  BY <1>1
<1> QED
  BY <1>1, <1>2, <1>3 DEF Answered, Refused

LEMMA NextRoundRoom ==
  ASSUME NEW r \in 0..MaxRounds
  PROVE  NextRound(r) \in {"ask", "over"} /\ (NextRound(r) = "ask" => r < MaxRounds)
BY SubAgentsAssumption DEF NextRound

LEMMA ProposeInv == ASSUME IInv, Propose PROVE IInv'
<1>0. /\ TypeOK /\ "proposer" \in Clients /\ MaxRounds \in Nat
      /\ retries \in [Clients -> 0..MaxRetries]
      /\ \A a \in Agents : at[a] \in {"off", "over"} \/ main \notin {"ask", "again"}
  BY SubAgentsAssumption DEF IInv, TypeOK, Clients, BatchIsOver
<1>1. ASSUME NEW s, Stepped(s)
      PROVE  /\ main \in {"ask", "again"} /\ retries' \in [Clients -> 0..MaxRetries]
             /\ explored' \in BOOLEAN /\ round' = round + 1
             /\ round + 1 \in 0..MaxRounds
  <2>1. main \in {"ask", "again"} /\ round \in 0..MaxRounds /\ round < MaxRounds
    BY <1>1 DEF Stepped, Asks, IInv, TypeOK, Room
  <2>2. retries' \in [Clients -> 0..MaxRetries]
    BY <1>0, <1>1, RetriesAreCounted DEF Stepped
  <2>3. round + 1 \in 0..MaxRounds
    BY <2>1, <1>0
  <2>4. explored' = (s = "explore") /\ round' = round + 1
    BY <1>1 DEF Stepped
  <2>5. explored' \in BOOLEAN
    BY <2>4
  <2> QED
    BY <2>1, <2>2, <2>3, <2>4, <2>5
<1>2. CASE BackOff("proposer")
  <2>1. /\ main \in {"ask", "again"} /\ UNCHANGED <<main, explored, round>>
        /\ UNCHANGED <<at, batch, left, files>>
        /\ retries' \in [Clients -> 0..MaxRetries]
    BY <1>0, <1>2, RetriesAreCounted DEF BackOff, Asks, proposer
  <2> QED
    BY <1>0, <2>1, AgentsRestInv DEF IInv, TypeOK, Room
<1>3. CASE Malformed
  <2>1. /\ main = "ask" /\ main' = "again" /\ UNCHANGED <<explored, round>>
        /\ UNCHANGED <<at, batch, left, files>>
        /\ retries' \in [Clients -> 0..MaxRetries]
    BY <1>0, <1>3, RetriesAreCounted
       DEF Malformed, NoReply, NoObject, NoStep, Gated, AskAgain
  <2> QED
    BY <1>0, <2>1, AgentsRestInv DEF IInv, TypeOK, Room
<1>4. ASSUME Salvage \/ \E s \in Steps : OtherStep(s) PROVE IInv'
  <2>1. PICK s : /\ Stepped(s) /\ main' = NextRound(round + 1)
                 /\ UNCHANGED <<at, batch, left, files>>
    BY <1>4 DEF Salvage, OtherStep
  <2>2. /\ main \in {"ask", "again"} /\ retries' \in [Clients -> 0..MaxRetries]
        /\ explored' \in BOOLEAN /\ round' = round + 1 /\ round + 1 \in 0..MaxRounds
    BY <2>1, <1>1
  <2>3. /\ main' \in {"ask", "over"} /\ (main' = "ask" => round' < MaxRounds)
    BY <2>1, <2>2, NextRoundRoom
  <2> QED
    BY <2>1, <2>2, <2>3, <1>0, AgentsRestInv
<1>5. ASSUME NEW agents \in SUBSET Agents,
             ExploreCalled(agents) \/ ExploreWritten(agents) \/ ForceExplore(agents)
      PROVE  IInv'
  <2>1. /\ \E s : Stepped(s)
        /\ main' = "explore" /\ Start(agents, [a \in Agents |-> "explore"])
    BY <1>5 DEF ExploreCalled, ExploreWritten, ForceExplore, Explore
  <2>2. /\ main \in {"ask", "again"} /\ retries' \in [Clients -> 0..MaxRetries]
        /\ explored' \in BOOLEAN /\ round' \in 0..MaxRounds
    BY <2>1, <1>1
  <2>3. [a \in Agents |-> "explore"] \in [Agents -> Contracts \cup {"none", "explore"}]
    OBVIOUS
  <2> QED
    BY <2>1, <2>2, <2>3, BatchBeginsInv
<1>6. ASSUME NEW demands \in [Agents -> Contracts], Execute(demands) PROVE IInv'
  <2>1. Stepped("ready_for_verify") /\ main' = "dispatch" /\ Start(Agents, demands)
    BY <1>6 DEF Execute
  <2>2. /\ main \in {"ask", "again"} /\ retries' \in [Clients -> 0..MaxRetries]
        /\ explored' \in BOOLEAN /\ round' \in 0..MaxRounds
    BY <2>1, <1>1
  <2>3. demands \in [Agents -> Contracts \cup {"none", "explore"}]
    OBVIOUS
  <2> QED
    BY <2>1, <2>2, <2>3, BatchBeginsInv
<1> QED
  BY <1>2, <1>3, <1>4, <1>5, <1>6 DEF Propose

----------------------------------------------------------------------------
(* Steps of a sub-agent.  The other agents stay where they are.            *)
Goes(a, place) == at' = [at EXCEPT ![a] = place]

LEMMA OthersStay ==
  ASSUME IInv, NEW a \in Agents, NEW place, Goes(a, place)
  PROVE  at'[a] = place /\ \A b \in Agents \ {a} : at'[b] = at[b] /\ (Running(b)' <=> Running(b))
BY DEF IInv, TypeOK, Goes, Running

(* An agent at work is in a batch that is not over.                        *)
LEMMA AtWork ==
  ASSUME IInv, NEW a \in Agents, at[a] \notin {"off", "over"}
  PROVE  main \notin {"ask", "again"} /\ \A i \in 1..Len(joined) : joined[i] # a
BY DEF IInv, BatchIsOver

LEMMA BatchGoesOn ==
  ASSUME IInv, NEW a \in Agents, NEW place, Goes(a, place), at[a] \notin {"off", "over"},
         UNCHANGED <<main, joined>>
  PROVE  BatchIsOver'
<1>1. \A i \in 1..Len(joined) : joined[i] \in Agents \ {a}
  <2>1. \A i \in 1..Len(joined) : joined[i] # a
    BY AtWork
  <2>2. \A i \in 1..Len(joined) : joined[i] \in Agents
    <3>1. joined \in Seq(Agents)
      BY DEF IInv, TypeOK
    <3> QED
      BY <3>1
  <2> QED
    BY <2>1, <2>2
<1>2. \A i \in 1..Len(joined) : at'[joined[i]] = at[joined[i]]
  BY <1>1, OthersStay
<1> QED
  BY <1>2, AtWork DEF IInv, BatchIsOver

(* It leaves a call, or was in none: what it knew of the file is of no     *)
(* further use.                                                            *)
LEMMA CallIsOverInv ==
  ASSUME IInv, NEW a \in Agents, NEW place \in {"ask", "web", "drain", "over"}, Goes(a, place),
         at[a] \notin Writing \cup {"off", "over"},
         UNCHANGED <<main, explored, round, joined, left, text, disturbed>>,
         kept' \in {kept, {}},
         read' = read \/ read' = [read EXCEPT ![a] = {}],
         retries' \in [Clients -> 0..MaxRetries], turn' \in [Agents -> 0..MaxSteps],
         \A b \in Agents : turn'[b] < MaxSteps,
         contract' = contract, wrote' \in [Agents -> BOOLEAN],
         result' \in [Agents -> {"none", "success", "failure"}]
  PROVE  IInv'
<1>1. at'[a] = place /\ \A b \in Agents \ {a} : at'[b] = at[b] /\ (Running(b)' <=> Running(b))
  BY OthersStay
<1>2. /\ read' \in [Agents -> SUBSET Agents] /\ \A b \in Agents \ {a} : read'[b] = read[b]
  BY DEF IInv, TypeOK
<1>3. at' \in [Agents -> {"off", "ask", "edit read", "edit open", "edit", "write open",
                          "write", "web", "command", "drain", "over"}]
  BY DEF IInv, TypeOK, Goes
<1>4. TypeOK'
  BY <1>2, <1>3 DEF IInv, TypeOK
<1>5. Room'
  BY DEF IInv, Room
<1>6. BatchIsOver'
  BY BatchGoesOn
<1>7. ~Running(a)' /\ at'[a] \notin Writing \cup {"edit open"}
  BY <1>1 DEF Running, Writing
<1>8. Alone'
  <2> SUFFICES ASSUME NEW c \in Agents \ disturbed, Running(c)'
               PROVE  /\ \A b \in Agents \ {c} : ~Running(b)'
                      /\ left \subseteq {c} /\ (at'[c] # "command" => left = {})
    BY DEF Alone
  <2>1. c # a /\ Running(c) /\ at'[c] = at[c]
    BY <1>1, <1>7
  <2> QED
    BY <2>1, <1>1, <1>7 DEF IInv, Alone
<1>9. MidWrite'
  BY <1>1, <1>2, <1>7 DEF IInv, MidWrite, Writing
<1>10. Settled'
  BY <1>1 DEF IInv, Settled
<1> QED
  BY <1>4, <1>5, <1>6, <1>8, <1>9, <1>10 DEF IInv

(* The next turn, or the end of the agent. *)
LEMMA TurnsAreCounted ==
  ASSUME IInv, NEW a \in Agents, NEW r \in {"none", "success", "failure"},
         Over(a, r) \/ EndTurn(a)
  PROVE  /\ Goes(a, "ask") \/ Goes(a, "over")
         /\ turn' \in [Agents -> 0..MaxSteps] /\ \A b \in Agents : turn'[b] < MaxSteps
         /\ contract' = contract /\ result' \in [Agents -> {"none", "success", "failure"}]
<1>1. /\ turn \in [Agents -> 0..MaxSteps] /\ \A b \in Agents : turn[b] < MaxSteps
      /\ result \in [Agents -> {"none", "success", "failure"}] /\ MaxSteps \in Nat \ {0}
  BY SubAgentsAssumption DEF IInv, TypeOK, Room
<1>2. ASSUME NEW q \in {"none", "success", "failure"}, Over(a, q)
      PROVE  /\ Goes(a, "over")
             /\ turn' \in [Agents -> 0..MaxSteps] /\ \A b \in Agents : turn'[b] < MaxSteps
             /\ contract' = contract /\ result' \in [Agents -> {"none", "success", "failure"}]
  <2>1. turn' = [turn EXCEPT ![a] = 0] /\ 0 \in 0..MaxSteps /\ 0 < MaxSteps
    BY <1>1, <1>2 DEF Over
  <2>2. turn' \in [Agents -> 0..MaxSteps] /\ \A b \in Agents : turn'[b] < MaxSteps
    BY <1>1, <2>1
  <2> QED
    BY <1>1, <1>2, <2>2 DEF Over, Goes
<1>3. CASE EndTurn(a) /\ ~LastStep(a)
  <2>1. /\ Goes(a, "ask") /\ UNCHANGED <<contract, result>>
        /\ turn' = [turn EXCEPT ![a] = IF contract[a] = "explore" THEN 0 ELSE turn[a] + 1]
    BY <1>3 DEF EndTurn, Goes
  <2>2. /\ 0 \in 0..MaxSteps /\ 0 < MaxSteps
        /\ contract[a] # "explore" => turn[a] + 1 \in 0..MaxSteps /\ turn[a] + 1 < MaxSteps
    BY <1>1, <1>3 DEF LastStep
  <2>3. turn' \in [Agents -> 0..MaxSteps] /\ \A b \in Agents : turn'[b] < MaxSteps
    BY <1>1, <2>1, <2>2
  <2> QED
    BY <1>1, <2>1, <2>3
<1>4. CASE EndTurn(a) /\ LastStep(a)
  BY <1>2, <1>4 DEF EndTurn
<1> QED
  BY <1>2, <1>3, <1>4

(* A tool call comes to its end. *)
LEMMA ToolReturnsInv ==
  ASSUME IInv, NEW a \in Agents, ToolReturns(a), at[a] \notin Writing \cup {"off", "over"},
         UNCHANGED <<left, text, disturbed>>, kept' \in {kept, {}},
         read' = read \/ read' = [read EXCEPT ![a] = {}]
  PROVE  IInv'
<1>1. EndTurn(a) /\ UNCHANGED <<main, explored, round, retries, wrote, joined>>
  BY DEF ToolReturns, proposer
<1>2. /\ Goes(a, "ask") \/ Goes(a, "over")
      /\ turn' \in [Agents -> 0..MaxSteps] /\ \A b \in Agents : turn'[b] < MaxSteps
      /\ contract' = contract /\ result' \in [Agents -> {"none", "success", "failure"}]
  BY <1>1, TurnsAreCounted
<1>3. retries' \in [Clients -> 0..MaxRetries] /\ wrote' \in [Agents -> BOOLEAN]
  BY <1>1 DEF IInv, TypeOK
<1> QED
  BY <1>1, <1>2, <1>3, CallIsOverInv

(* A sub-agent has its model's reply. *)
LEMMA ReplyInv == ASSUME IInv, NEW a \in Agents, Reply(a) PROVE IInv'
<1>1. /\ TypeOK /\ a \in Clients /\ wrote \in [Agents -> BOOLEAN]
      /\ a # "proposer"
  BY SubAgentsAssumption DEF IInv, TypeOK, Clients
<1>2. CASE BackOff(a)
  <2>1. /\ UNCHANGED <<main, explored, round>> /\ UNCHANGED <<at, batch, left, files>>
        /\ retries' \in [Clients -> 0..MaxRetries]
    BY <1>1, <1>2, RetriesAreCounted DEF BackOff, proposer
  <2> QED
    BY <2>1, AgentsRestInv DEF IInv, TypeOK, Room, BatchIsOver
<1>3. ASSUME Replies(a)
      PROVE  /\ at[a] = "ask" /\ UNCHANGED <<main, explored, round, joined>>
             /\ retries' \in [Clients -> 0..MaxRetries]
  BY <1>1, <1>3, RetriesAreCounted DEF Replies, Asks, proposer
<1>4. ASSUME NEW r \in {"none", "success", "failure"}, Over(a, r) \/ EndTurn(a), Replies(a),
             wrote' \in [Agents -> BOOLEAN], UNCHANGED <<left, files>>
      PROVE  IInv'
  <2>1. /\ Goes(a, "ask") \/ Goes(a, "over")
        /\ turn' \in [Agents -> 0..MaxSteps] /\ \A b \in Agents : turn'[b] < MaxSteps
        /\ contract' = contract /\ result' \in [Agents -> {"none", "success", "failure"}]
    BY <1>4, TurnsAreCounted
  <2>2. UNCHANGED <<left, text, read, kept, disturbed>> /\ at[a] \notin Writing \cup {"off", "over"}
    BY <1>3, <1>4 DEF files, Writing
  <2> QED
    BY <1>3, <1>4, <2>1, <2>2, CallIsOverInv
<1>5. CASE ModelFails(a) \/ FinalAnswer(a) \/ AnswerSentBack(a) \/ ReportGraphError(a)
           \/ ParseFailed(a)
  <2>1. /\ Replies(a) /\ wrote' = wrote /\ UNCHANGED <<left, files>>
        /\ \E r \in {"none", "success", "failure"} : Over(a, r) \/ EndTurn(a)
    BY <1>5 DEF ModelFails, FinalAnswer, AnswerSentBack, ReportGraphError, ParseFailed
  <2> QED
    BY <2>1, <1>1, <1>4
<1>6. ASSUME NEW writes \in SUBSET BOOLEAN, InVain(a, writes) PROVE IInv'
  <2>1. /\ Replies(a) /\ EndTurn(a) /\ UNCHANGED <<left, files>>
        /\ \E write \in writes : wrote' = [wrote EXCEPT ![a] = wrote[a] \/ write]
    BY <1>6 DEF InVain
  <2>2. wrote' \in [Agents -> BOOLEAN]
    BY <2>1, <1>1
  <2> QED
    BY <2>1, <2>2, <1>4
<1>7. CASE \/ UnknownTool(a) \/ ScopeDenies(a) \/ PolicyDenies(a) \/ NotRun(a)
           \/ ReadFile(a) \/ NoRequest(a)
  <2>1. {FALSE} \in SUBSET BOOLEAN
    OBVIOUS
  <2>2. \A commands \in SUBSET Commands : Writes(commands) \in SUBSET BOOLEAN
    BY DEF Writes, Commands
  <2>3. OutOfScope \in SUBSET Commands /\ Commands \in SUBSET Commands
    BY DEF OutOfScope
  <2> QED
    BY <1>6, <1>7, <2>1, <2>2, <2>3
       DEF UnknownTool, ScopeDenies, PolicyDenies, NotRun, ReadFile, NoRequest
<1>8. CASE AskWeb(a)
  <2>1. /\ Replies(a) /\ Goes(a, "web") /\ UNCHANGED <<turn, contract, wrote, result>>
        /\ UNCHANGED <<left, text, read, kept, disturbed>>
    BY <1>8 DEF AskWeb, files, Goes
  <2>2. at[a] \notin Writing \cup {"off", "over"}
    BY <1>3, <2>1 DEF Writing
  <2>3. /\ turn' \in [Agents -> 0..MaxSteps] /\ \A b \in Agents : turn'[b] < MaxSteps
        /\ wrote' \in [Agents -> BOOLEAN]
        /\ result' \in [Agents -> {"none", "success", "failure"}]
    BY <2>1 DEF IInv, TypeOK, Room
  <2> QED
    BY <1>3, <2>1, <2>2, <2>3, CallIsOverInv
<1>9. ASSUME NEW place \in {"edit read", "write open", "command"}, UseTool(a, place) PROVE IInv'
  <2>1. /\ Replies(a) /\ Goes(a, place) /\ UNCHANGED <<turn, contract, result>>
        /\ UNCHANGED <<left, text, read, kept>>
        /\ wrote' = [wrote EXCEPT ![a] = TRUE]
    BY <1>9 DEF UseTool, Goes
  <2>2. /\ at[a] = "ask" /\ UNCHANGED <<main, explored, round, joined>>
        /\ retries' \in [Clients -> 0..MaxRetries]
    BY <1>3, <2>1
  <2>3. at'[a] = place /\ \A b \in Agents \ {a} : at'[b] = at[b] /\ (Running(b)' <=> Running(b))
    BY <2>1, OthersStay
  <2> DEFINE others == {b \in Agents \ {a} : Running(b)} \cup left
  <2>4. disturbed' = IF others = {} THEN disturbed \ {a} ELSE disturbed \cup others \cup {a}
    BY <1>9 DEF UseTool
  <2>5. disturbed' \subseteq Agents
    BY <2>4 DEF IInv, TypeOK
  <2>6. TypeOK'
    <3>1. at' \in [Agents -> {"off", "ask", "edit read", "edit open", "edit", "write open",
                              "write", "web", "command", "drain", "over"}]
      BY <2>1 DEF IInv, TypeOK, Goes
    <3>2. wrote' \in [Agents -> BOOLEAN]
      BY <2>1, <1>1
    <3> QED
      BY <2>1, <2>2, <2>5, <3>1, <3>2 DEF IInv, TypeOK
  <2>7. Room'
    BY <2>1, <2>2 DEF IInv, Room
  <2>8. BatchIsOver'
    BY <2>1, <2>2, BatchGoesOn
  <2>9. Alone'
    <3>1. CASE others = {}
      BY <2>1, <2>3, <2>4, <3>1 DEF Alone
    <3>2. CASE others # {}
      <4> SUFFICES ASSUME NEW c \in Agents \ disturbed', Running(c)' PROVE FALSE
        BY DEF Alone
      <4>1. c # a /\ c \notin disturbed /\ ~Running(c)
        BY <2>4, <3>2
      <4> QED
        BY <4>1, <2>3
    <3> QED
      BY <3>1, <3>2
  <2>10. MidWrite'
    <3>1. \A b \in Agents \ disturbed' : b # a => b \notin disturbed \/ ~Running(b)
      BY <2>4
    <3>2. \A b \in Agents : ~Running(b) => at[b] \notin Writing \cup {"edit open"}
      BY DEF Running, Writing
    <3> QED
      BY <2>1, <2>3, <3>1, <3>2 DEF IInv, MidWrite, Writing
  <2>11. Settled'
    BY <2>1, <2>2, <2>3 DEF IInv, Settled, Writing
  <2> QED
    BY <2>6, <2>7, <2>8, <2>9, <2>10, <2>11 DEF IInv
<1> QED
  <2>1. ASSUME NEW action, Act(a, action) PROVE IInv'
    BY <2>1, <1>5, <1>7, <1>8, <1>9 DEF Act
  <2> QED
    BY <2>1, <1>2, <1>5 DEF Reply

----------------------------------------------------------------------------
(* Steps of an edit or a write.                                            *)
LEMMA GoesOnTypes ==
  ASSUME IInv, NEW a \in Agents, NEW place, ToolGoesOn(a, place),
         place \in {"edit open", "edit", "write", "drain"},
         text' \subseteq Agents \/ text' = Torn, read' \in [Agents -> SUBSET Agents],
         kept' \subseteq Agents, disturbed' = disturbed, at[a] \notin {"off", "over"}
  PROVE  /\ TypeOK' /\ Room' /\ BatchIsOver'
         /\ Goes(a, place) /\ left' = left
         /\ at'[a] = place
         /\ \A b \in Agents \ {a} : at'[b] = at[b] /\ (Running(b)' <=> Running(b))
<1>1. /\ Goes(a, place) /\ UNCHANGED <<main, explored, round, retries, left>>
      /\ UNCHANGED <<turn, contract, wrote, result, joined>>
  BY DEF ToolGoesOn, Goes, proposer, batch
<1>2. at' \in [Agents -> {"off", "ask", "edit read", "edit open", "edit", "write open",
                          "write", "web", "command", "drain", "over"}]
  BY <1>1 DEF IInv, TypeOK, Goes
<1>3. TypeOK'
  BY <1>1, <1>2 DEF IInv, TypeOK
<1>4. Room' /\ BatchIsOver'
  BY <1>1, BatchGoesOn DEF IInv, Room
<1> QED
  BY <1>1, <1>3, <1>4, OthersStay

(* A call that nothing disturbed goes on as the only one.                  *)
LEMMA StillAlone ==
  ASSUME IInv, NEW a \in Agents, Running(a), at[a] # "command",
         left' = left, disturbed' = disturbed,
         \A b \in Agents \ {a} : at'[b] = at[b] /\ (Running(b)' <=> Running(b))
  PROVE  Alone'
<1> SUFFICES ASSUME NEW c \in Agents \ disturbed, Running(c)'
             PROVE  /\ \A b \in Agents \ {c} : ~Running(b)'
                    /\ left \subseteq {c} /\ (at'[c] # "command" => left = {})
  BY DEF Alone
<1>1. CASE c = a
  BY <1>1 DEF IInv, Alone
<1>2. CASE c # a
  BY <1>2 DEF IInv, Alone
<1> QED
  BY <1>1, <1>2

LEMMA ReadToEditInv == ASSUME IInv, NEW a \in Agents, ReadToEdit(a) PROVE IInv'
<1>1. /\ at[a] = "edit read" /\ text # Torn /\ ToolGoesOn(a, "edit open")
      /\ read' = [read EXCEPT ![a] = text \cup {a}] /\ UNCHANGED <<text, kept, disturbed>>
  BY DEF ReadToEdit
<1>2. /\ text \subseteq Agents /\ kept \subseteq Agents /\ read \in [Agents -> SUBSET Agents]
  BY <1>1 DEF IInv, TypeOK
<1>3. /\ TypeOK' /\ Room' /\ BatchIsOver' /\ left' = left /\ at'[a] = "edit open"
      /\ \A b \in Agents \ {a} : at'[b] = at[b] /\ (Running(b)' <=> Running(b))
  BY <1>1, <1>2, GoesOnTypes
<1>4. Running(a)
  BY <1>1 DEF Running
<1>5. Alone'
  BY <1>1, <1>3, <1>4, StillAlone
<1>6. a \notin disturbed => kept \subseteq text
  BY <1>1, <1>4 DEF IInv, Alone, Settled, Running, Writing
<1>7. MidWrite'
  <2>1. read'[a] = text \cup {a} /\ \A b \in Agents \ {a} : read'[b] = read[b]
    BY <1>1, <1>2
  <2> QED
    BY <1>1, <1>3, <1>6, <2>1 DEF IInv, MidWrite, Writing
<1>8. Settled'
  BY <1>1, <1>3 DEF IInv, Settled, Writing
<1> QED
  BY <1>3, <1>5, <1>7, <1>8 DEF IInv

LEMMA TruncateInv == ASSUME IInv, NEW a \in Agents, Truncate(a) PROVE IInv'
<1> DEFINE place == IF at[a] = "edit open" THEN "edit" ELSE "write"
<1>1. /\ at[a] \in {"edit open", "write open"} /\ text' = Torn /\ ToolGoesOn(a, place)
      /\ UNCHANGED <<read, kept, disturbed>>
  BY DEF Truncate
<1>2. kept' \subseteq Agents /\ read' \in [Agents -> SUBSET Agents]
  BY <1>1 DEF IInv, TypeOK
<1>3. /\ TypeOK' /\ Room' /\ BatchIsOver' /\ left' = left /\ at'[a] = place
      /\ \A b \in Agents \ {a} : at'[b] = at[b] /\ (Running(b)' <=> Running(b))
  BY <1>1, <1>2, GoesOnTypes
<1>4. Alone'
  BY <1>1, <1>3, StillAlone DEF Running
<1>5. MidWrite'
  BY <1>1, <1>3 DEF IInv, MidWrite, Writing
<1>6. Settled'
  BY <1>3 DEF Settled, Writing
<1> QED
  BY <1>3, <1>4, <1>5, <1>6 DEF IInv

(* Where a write ends, a disturbed one clears what is kept, so that only   *)
(* the one that was alone adds to it.                                      *)
LEMMA WriteEndsInv ==
  ASSUME IInv, NEW a \in Agents, at[a] \in Writing, ToolReturns(a),
         UNCHANGED <<left, disturbed>>, read' = [read EXCEPT ![a] = {}],
         text' \subseteq Agents \/ text' = Torn, kept' \subseteq Agents,
         kept' = {} \/ (a \notin disturbed /\ kept' \subseteq text')
  PROVE  IInv'
<1>1. EndTurn(a) /\ UNCHANGED <<main, explored, round, retries, wrote, joined>>
  BY DEF ToolReturns, proposer
<1>2. /\ Goes(a, "ask") \/ Goes(a, "over")
      /\ turn' \in [Agents -> 0..MaxSteps] /\ \A b \in Agents : turn'[b] < MaxSteps
      /\ contract' = contract /\ result' \in [Agents -> {"none", "success", "failure"}]
  BY <1>1, TurnsAreCounted
<1>3. /\ at'[a] \in {"ask", "over"}
      /\ \A b \in Agents \ {a} : at'[b] = at[b] /\ (Running(b)' <=> Running(b))
  BY <1>2, OthersStay
<1>4. /\ read' \in [Agents -> SUBSET Agents] /\ \A b \in Agents \ {a} : read'[b] = read[b]
  BY DEF IInv, TypeOK
<1>5. TypeOK'
  <2>1. at' \in [Agents -> {"off", "ask", "edit read", "edit open", "edit", "write open",
                            "write", "web", "command", "drain", "over"}]
    BY <1>2 DEF IInv, TypeOK, Goes
  <2> QED
    BY <1>1, <1>2, <1>4, <2>1 DEF IInv, TypeOK
<1>6. Room'
  BY <1>1, <1>2 DEF IInv, Room
<1>7. BatchIsOver'
  BY <1>1, <1>2, BatchGoesOn DEF Writing
<1>8. Running(a) /\ ~Running(a)' /\ at[a] # "command"
  BY <1>3 DEF Running, Writing
<1>9. Alone'
  BY <1>3, <1>8, StillAlone
<1>10. \A b \in Agents \ {a} : b \notin disturbed => ~Running(b)
  BY <1>8 DEF IInv, Alone
<1>11. MidWrite'
  <2>1. \A b \in Agents : ~Running(b) => at[b] \notin Writing \cup {"edit open"}
    BY DEF Running, Writing
  <2>2. at'[a] \notin Writing \cup {"edit open"}
    BY <1>3 DEF Writing
  <2>3. \A b \in Agents : at'[b] \in {"edit open", "edit"} => b \in read'[b]
    BY <1>3, <1>4 DEF IInv, MidWrite
  <2>4. \A b \in Agents \ disturbed' : at'[b] \notin Writing \cup {"edit open"}
    BY <1>3, <1>10, <2>1, <2>2
  <2> QED
    BY <2>3, <2>4 DEF MidWrite, Writing
<1>12. Settled'
  BY DEF Settled
<1> QED
  BY <1>5, <1>6, <1>7, <1>9, <1>11, <1>12 DEF IInv

LEMMA WriteTextInv == ASSUME IInv, NEW a \in Agents, WriteText(a) PROVE IInv'
<1> DEFINE new == IF at[a] = "edit" THEN read[a] ELSE {a}
<1>1. /\ at[a] \in Writing /\ text' \in {new} \cup (IF text = Torn THEN {} ELSE {Torn})
      /\ kept' = Reported(a) /\ read' = [read EXCEPT ![a] = {}]
      /\ ToolReturns(a) /\ UNCHANGED <<left, disturbed>>
  BY DEF WriteText, Writing
<1>2. new \subseteq Agents /\ kept \subseteq Agents
  BY DEF IInv, TypeOK
<1>3. text' \subseteq Agents \/ text' = Torn
  BY <1>1, <1>2
<1>4. CASE a \in disturbed
  <2>1. kept' = {}
    BY <1>1, <1>4 DEF Reported
  <2> QED
    BY <1>1, <1>3, <2>1, WriteEndsInv
<1>5. CASE a \notin disturbed
  <2>1. text' = new
    BY <1>1, <1>5 DEF IInv, MidWrite
  <2>2. kept' = IF at[a] = "write" THEN {a} ELSE kept \cup {a}
    BY <1>1, <1>5 DEF Reported
  <2>3. kept' \subseteq text'
    BY <1>1, <1>5, <2>1, <2>2 DEF IInv, MidWrite, Writing
  <2>4. kept' \subseteq Agents
    BY <1>2, <2>2
  <2> QED
    BY <1>1, <1>3, <1>5, <2>3, <2>4, WriteEndsInv
<1> QED
  BY <1>4, <1>5

(* The shell of a command is gone. *)
LEMMA ShellGoneInv == ASSUME IInv, NEW a \in Agents, ShellGone(a) PROVE IInv'
<1>1. /\ at[a] = "command" /\ Goes(a, "drain") /\ kept' = {}
      /\ UNCHANGED <<main, explored, round, retries, left>>
      /\ UNCHANGED <<turn, contract, wrote, result, joined, text, read, disturbed>>
  BY DEF ShellGone, ToolGoesOn, Goes, proposer, batch
<1>2. at[a] \notin Writing \cup {"off", "over"}
  BY <1>1 DEF Writing
<1>3. /\ turn' \in [Agents -> 0..MaxSteps] /\ \A b \in Agents : turn'[b] < MaxSteps
      /\ retries' \in [Clients -> 0..MaxRetries] /\ wrote' \in [Agents -> BOOLEAN]
      /\ result' \in [Agents -> {"none", "success", "failure"}]
  BY <1>1 DEF IInv, TypeOK, Room
<1> QED
  BY <1>1, <1>2, <1>3, CallIsOverInv

LEMMA ToolInv == ASSUME IInv, NEW a \in Agents, Tool(a) PROVE IInv'
<1>1. CASE ReadToEdit(a) \/ Truncate(a) \/ WriteText(a)
  BY <1>1, ReadToEditInv, TruncateInv, WriteTextInv
<1>2. CASE NothingToEdit(a) \/ WebAnswers(a) \/ Drained(a)
  <2>1. /\ at[a] \in {"edit read", "web", "drain"} /\ ToolReturns(a)
        /\ UNCHANGED <<left, text, read, kept, disturbed>>
    BY <1>2 DEF NothingToEdit, WebAnswers, Drained, files
  <2>2. at[a] \notin Writing \cup {"off", "over"}
    BY <2>1 DEF Writing
  <2> QED
    BY <2>1, <2>2, ToolReturnsInv
<1>3. CASE WriteFails(a) /\ at[a] \in Writing
  <2>1. /\ ToolReturns(a) /\ UNCHANGED <<left, text, disturbed>>
        /\ read' = [read EXCEPT ![a] = {}] /\ kept' = {}
    BY <1>3 DEF WriteFails, Writing
  <2>2. text' \subseteq Agents \/ text' = Torn
    BY <2>1 DEF IInv, TypeOK
  <2> QED
    BY <1>3, <2>1, <2>2, WriteEndsInv
<1>4. CASE WriteFails(a) /\ at[a] \notin Writing
  <2>1. /\ ToolReturns(a) /\ UNCHANGED <<left, text, disturbed>>
        /\ read' = [read EXCEPT ![a] = {}] /\ kept' = kept
        /\ at[a] \in {"edit open", "write open"}
    BY <1>4 DEF WriteFails, Writing
  <2>2. at[a] \notin Writing \cup {"off", "over"}
    BY <2>1 DEF Writing
  <2> QED
    BY <2>1, <2>2, ToolReturnsInv
<1>5. CASE TimeOut(a)
  BY <1>5, ShellGoneInv DEF TimeOut
<1> QED
  BY <1>1, <1>2, <1>3, <1>4, <1>5 DEF Tool

----------------------------------------------------------------------------
(* Processes that commands have started, at any time. *)
LEMMA ClobberInv == ASSUME IInv, NEW a \in Agents, Clobber(a) PROVE IInv'
<1>1. /\ at[a] = "command" \/ a \in left
      /\ text' \in {Torn, {a}} /\ kept' = {}
      /\ UNCHANGED <<main, explored, round, retries, at, turn, contract, wrote, result, joined>>
      /\ UNCHANGED <<left, read, disturbed>>
  BY DEF Clobber, proposer, batch
<1>2. TypeOK'
  BY <1>1 DEF IInv, TypeOK
<1>3. Room' /\ BatchIsOver' /\ Alone'
  BY <1>1 DEF IInv, Room, BatchIsOver, Alone, Running
<1>4. \A c \in Agents \ disturbed : at[c] \notin Writing
  <2> SUFFICES ASSUME NEW c \in Agents \ disturbed, at[c] \in Writing PROVE FALSE
    OBVIOUS
  <2>1. Running(c) /\ at[c] # "command"
    BY DEF Running, Writing
  <2>2. left = {} /\ \A b \in Agents \ {c} : ~Running(b)
    BY <2>1 DEF IInv, Alone
  <2>3. Running(a)
    BY <1>1, <2>2 DEF Running
  <2> QED
    BY <1>1, <2>1, <2>2, <2>3
<1>5. MidWrite' /\ Settled'
  BY <1>1, <1>4 DEF IInv, MidWrite, Settled
<1> QED
  BY <1>2, <1>3, <1>5 DEF IInv

LEMMA LeftInv ==
  ASSUME IInv, NEW a \in Agents, Forks(a) \/ Closes(a)
  PROVE  IInv'
<1>1. /\ UNCHANGED <<main, explored, round, retries, at, turn, contract, wrote, result, joined>>
      /\ UNCHANGED <<text, read, disturbed>> /\ kept' \in {kept, {}}
      /\ left' \subseteq left \/ (at[a] = "command" /\ left' = left \cup {a})
  BY DEF Forks, Closes, proposer, batch, files
<1>2. TypeOK'
  <2>1. left' \subseteq Agents /\ kept' \subseteq Agents
    BY <1>1 DEF IInv, TypeOK
  <2> QED
    BY <1>1, <2>1 DEF IInv, TypeOK
<1>3. Room' /\ BatchIsOver'
  BY <1>1 DEF IInv, Room, BatchIsOver
<1>4. Alone'
  <2> SUFFICES ASSUME NEW c \in Agents \ disturbed, Running(c)
               PROVE  /\ \A b \in Agents \ {c} : ~Running(b)
                      /\ left' \subseteq {c} /\ (at[c] # "command" => left' = {})
    BY <1>1 DEF Alone, Running
  <2>1. /\ \A b \in Agents \ {c} : ~Running(b)
        /\ left \subseteq {c} /\ (at[c] # "command" => left = {})
    BY DEF IInv, Alone
  <2>2. at[a] = "command" => a = c
    BY <2>1 DEF Running
  <2> QED
    BY <1>1, <2>1, <2>2
<1>5. MidWrite' /\ Settled'
  BY <1>1 DEF IInv, MidWrite, Settled
<1> QED
  BY <1>2, <1>3, <1>4, <1>5 DEF IInv

(* The run drops an exploration. *)
LEMMA AbortedInv == ASSUME IInv, NEW a \in Agents, Aborted(a) PROVE IInv'
<1>1. /\ at[a] \in {"ask", "web", "command", "drain"} /\ Over(a, "none") /\ kept' = {}
      /\ UNCHANGED <<main, explored, round, retries, wrote, joined>>
      /\ UNCHANGED <<left, text, read, disturbed>>
  BY DEF Aborted, proposer
<1>2. /\ Goes(a, "ask") \/ Goes(a, "over")
      /\ turn' \in [Agents -> 0..MaxSteps] /\ \A b \in Agents : turn'[b] < MaxSteps
      /\ contract' = contract /\ result' \in [Agents -> {"none", "success", "failure"}]
  BY <1>1, TurnsAreCounted
<1>3. at[a] \notin Writing \cup {"off", "over"}
  BY <1>1 DEF Writing
<1>4. retries' \in [Clients -> 0..MaxRetries] /\ wrote' \in [Agents -> BOOLEAN]
  BY <1>1 DEF IInv, TypeOK
<1> QED
  BY <1>1, <1>2, <1>3, <1>4, CallIsOverInv

(* Results come in, the batch is over, the run is dropped. *)
LEMMA BatchInv ==
  ASSUME IInv, Returns \/ Drop \/ \E a \in Agents : Join(a)
  PROVE  IInv'
<1>1. CASE Returns
  <2>1. /\ main' = NextRound(round) /\ UNCHANGED <<explored, round, retries>>
        /\ UNCHANGED <<at, batch, left, files>>
    BY <1>1 DEF Returns
  <2>2. round \in 0..MaxRounds
    BY DEF IInv, TypeOK
  <2>3. main' \in {"ask", "over"} /\ (main' = "ask" => round < MaxRounds)
    BY <2>1, <2>2, NextRoundRoom
  <2>4. \A a \in Agents : at[a] \in {"off", "over"}
    <3>1. CASE Working = {}
      BY <3>1 DEF Working
    <3>2. CASE \A a \in Batch : Joined(a)
      <4> SUFFICES ASSUME NEW a \in Agents, at[a] # "off" PROVE at[a] = "over"
        OBVIOUS
      <4>1. PICK i \in 1..Len(joined) : joined[i] = a
        BY <3>2 DEF Batch, Joined
      <4> QED
        BY <4>1 DEF IInv, BatchIsOver
    <3> QED
      BY <1>1, <3>1, <3>2 DEF Returns
  <2>5. explored' \in BOOLEAN /\ round' \in 0..MaxRounds /\ retries' \in [Clients -> 0..MaxRetries]
    BY <2>1 DEF IInv, TypeOK
  <2> QED
    BY <2>1, <2>3, <2>4, <2>5, AgentsRestInv
<1>2. CASE Drop
  <2>1. /\ main' = "dropped" /\ UNCHANGED <<explored, round, retries>>
        /\ UNCHANGED <<at, batch, left, files>>
    BY <1>2 DEF Drop
  <2>2. explored' \in BOOLEAN /\ round' \in 0..MaxRounds /\ retries' \in [Clients -> 0..MaxRetries]
    BY <2>1 DEF IInv, TypeOK
  <2> QED
    BY <2>1, <2>2, AgentsRestInv
<1>3. ASSUME NEW a \in Agents, Join(a) PROVE IInv'
  <2>1. /\ at[a] = "over" /\ joined' = Append(joined, a)
        /\ UNCHANGED <<main, explored, round, retries, at, turn, contract, wrote, result>>
        /\ UNCHANGED <<left, text, read, kept, disturbed>>
    BY <1>3 DEF Join, proposer, files
  <2>2. joined \in Seq(Agents)
    BY DEF IInv, TypeOK
  <2>3. /\ joined' \in Seq(Agents) /\ Len(joined') = Len(joined) + 1
        /\ \A i \in 1..Len(joined) : joined'[i] = joined[i]
        /\ joined'[Len(joined) + 1] = a
    BY <2>1, <2>2, AppendProperties
  <2>4. \A i \in 1..Len(joined') : i \in 1..Len(joined) \/ i = Len(joined) + 1
    BY <2>2, <2>3, LenProperties
  <2>5. TypeOK'
    BY <2>1, <2>3 DEF IInv, TypeOK
  <2>6. Room'
    BY <2>1 DEF IInv, Room
  <2>7. BatchIsOver'
    <3>1. \A i \in 1..Len(joined') : at[joined'[i]] = "over"
      BY <2>1, <2>3, <2>4 DEF IInv, BatchIsOver
    <3> QED
      BY <2>1, <3>1 DEF IInv, BatchIsOver
  <2>8. Alone' /\ MidWrite' /\ Settled'
    BY <2>1 DEF IInv, Alone, MidWrite, Settled, Running
  <2> QED
    BY <2>5, <2>6, <2>7, <2>8 DEF IInv
<1> QED
  BY <1>1, <1>2, <1>3

LEMMA InitIInv == ASSUME Init PROVE IInv
<1>1. MaxSteps \in Nat \ {0} /\ MaxRetries \in Nat /\ MaxRounds \in Nat \ {0}
  BY SubAgentsAssumption
<1>2. TypeOK
  <2>1. /\ 0 \in 0..MaxSteps /\ 0 \in 0..MaxRetries /\ 0 \in 0..MaxRounds
    BY <1>1
  <2>2. /\ turn \in [Agents -> 0..MaxSteps] /\ retries \in [Clients -> 0..MaxRetries]
        /\ round \in 0..MaxRounds
    BY <2>1 DEF Init
  <2>3. /\ wrote \in [Agents -> BOOLEAN] /\ explored \in BOOLEAN
    BY DEF Init
  <2>4. joined \in Seq(Agents)
    BY DEF Init
  <2> QED
    BY <2>2, <2>3, <2>4 DEF Init, TypeOK
<1>3. Room /\ BatchIsOver
  BY <1>1 DEF Init, Room, BatchIsOver
<1>4. Alone /\ MidWrite /\ Settled
  BY DEF Init, Alone, MidWrite, Settled, Running, Writing
<1> QED
  BY <1>2, <1>3, <1>4 DEF IInv

LEMMA NextIInv == ASSUME IInv, [Next]_vars PROVE IInv'
<1>1. CASE Propose
  BY <1>1, ProposeInv
<1>2. CASE Returns \/ Drop \/ \E a \in Agents : Join(a)
  BY <1>2, BatchInv
<1>3. ASSUME NEW a \in Agents, Turn(a) \/ Aborted(a) PROVE IInv'
  BY <1>3, ReplyInv, ToolInv, AbortedInv DEF Turn
<1>4. ASSUME NEW a \in Agents, Clobber(a) \/ Forks(a) \/ Closes(a) \/ Exits(a) PROVE IInv'
  BY <1>4, ClobberInv, LeftInv, ShellGoneInv DEF Exits
<1>5. CASE UNCHANGED vars
  <2>1. /\ UNCHANGED <<main, explored, round, retries>> /\ UNCHANGED <<at, batch, left, files>>
    BY <1>5 DEF vars, proposer
  <2> QED
    BY <2>1, AgentsRestInv DEF IInv, TypeOK, Room, BatchIsOver
<1> QED
  BY <1>1, <1>2, <1>3, <1>4, <1>5 DEF Next

LEMMA AlwaysIInv == Spec => []IInv
BY InitIInv, NextIInv, PTL DEF Spec

(* SubAgents: the agents of a batch, their tools and the counters of turns, *)
(* attempts and rounds stay what they are declared to be.                   *)
THEOREM TypeCorrect == Spec => []TypeOK
<1>1. IInv => TypeOK
  BY DEF IInv
<1> QED
  BY <1>1, AlwaysIInv, PTL

(* SubAgents: whatever the models say, whichever calls fail, and however a *)
(* run is dropped, a change that was reported as done and that nothing has *)
(* replaced is in the file once no tool is at work, for any number of      *)
(* agents: only calls that overlap lose changes.                           *)
THEOREM ChangesAreKept == Spec => []ChangesKept
<1>1. IInv => ChangesKept
  BY DEF IInv, ChangesKept, Settled, Running, Writing
<1> QED
  BY <1>1, AlwaysIInv, PTL

----------------------------------------------------------------------------
(* ContextWindow, what a model is shown.                                   *)

(* Numbers are numbers, and the levels of a pass are those it has.         *)
Shapes ==
  /\ who \in {"subagent", "proposer"}
  /\ pass \in {"text", "l1", "code", "notes", "done"}
  /\ begun \in BOOLEAN
  /\ vertices \subseteq Ids /\ source \in [Ids -> Sources]
  /\ level \in Nat /\ chars \in Nat /\ spent \in Nat
  /\ section \in [Labels -> Nat]
  /\ who = "proposer" => pass # "code" /\ level <= 2
  /\ pass = "code" => level <= LastLevel
  /\ ~begun => ahead = {}

(* The proposer's l1: what is written is paid for, four characters a       *)
(* token, but for a line and a marker for each level.                      *)
PaidFor ==
  who = "proposer" /\ pass = "l1" =>
    /\ spent <= L1Budget
    /\ chars <= 4 * spent + level * (Heading + Marker) + (IF begun THEN Heading ELSE 0)

(* What the loop has passed is shown: of the levels before, and of the one *)
(* in hand what is no longer left.                                         *)
Passed ==
  who = "subagent" =>
    /\ pass = "l1" =>
         \A k \in 0..Depth, m \in Ids :
           k < level /\ m \in AtDistance(k) /\ source[m].described
             => <<"l1", k, m>> \in shown
    /\ begun => \A m \in InLevel \ ahead :
         /\ pass = "l1" => <<"l1", level, m>> \in shown
         /\ pass = "code" /\ source[m].loads => <<"code", level, m>> \in shown

WindowIInv == Shapes /\ PaidFor /\ SectionsFit /\ Passed /\ NearestFirst

(* Where the input stays, so does what is at each distance. *)
LEMMA SameInput ==
  ASSUME UNCHANGED input
  PROVE  /\ UNCHANGED <<who, vertices, arrows, focus, source>>
         /\ \A k : AtDistance(k)' = AtDistance(k)
<1>1. UNCHANGED <<who, vertices, arrows, focus, source>>
  BY DEF input
<1>2. ReachedWithin' = ReachedWithin
  BY <1>1 DEF ReachedWithin, Targets
<1> QED
  BY <1>1, <1>2 DEF AtDistance

LEMMA SameInLevel ==
  ASSUME UNCHANGED <<input, pass, level>>
  PROVE  InLevel' = InLevel
<1>1. InView(level)' = InView(level)
  BY SameInput DEF InView, Adjacent, Targets
<1>2. \A m \in AtDistance(level) : source'[m] = source[m]
  BY SameInput
<1> QED
  BY <1>1, <1>2, SameInput DEF InLevel

(* Tokens and budgets. *)
LEMMA Counted ==
  ASSUME NEW x \in Nat
  PROVE  /\ Tokens(x) \in Nat \ {0} /\ x <= 4 * Tokens(x)
         /\ \A b \in Nat \ {0} : /\ Tokens(4 * b + x) <= b + Tokens(x)
                                 /\ Tokens(x) <= b <=> x <= 4 * b
         /\ \A c \in Nat : c <= x => Tokens(c) <= Tokens(x)
BY DEF Tokens, Larger

LEMMA Lengths ==
  /\ Heading \in Nat /\ Marker \in Nat /\ Depth \in Nat
  /\ TextBudget \in Nat \ {0} /\ L1Budget \in Nat \ {0} /\ NoteBudget \in Nat \ {0}
  /\ \A k \in 0..2 : CodeBudget[k] \in Nat \ {0}
BY ContextAssumption

LEMMA Budgets ==
  ASSUME NEW l \in Labels
  PROVE  Budget(l) \in Nat \ {0}
<1>1. CASE l \in {"text", "l0", "l1", "notes"}
  BY <1>1, Lengths DEF Budget
<1>2. CASE l \notin {"text", "l0", "l1", "notes"}
  <2> DEFINE j == CHOOSE k \in 0..2 : CodeLabel(k) = l
  <2>1. j \in 0..2
    BY <1>2 DEF Labels
  <2> QED
    BY <1>2, <2>1, Lengths DEF Budget
<1> QED
  BY <1>1, <1>2

LEMMA AMarkerMore ==
  /\ Overhead \in Nat /\ Tokens(Marker) <= Overhead
  /\ who = "proposer" => Overhead = Tokens(3 * (Heading + Marker))
<1>1. 3 * (Heading + Marker) \in Nat /\ Marker <= 3 * (Heading + Marker) /\ Marker \in Nat
  BY Lengths
<1>2. /\ Tokens(3 * (Heading + Marker)) \in Nat /\ Tokens(Marker) \in Nat
      /\ Tokens(Marker) <= Tokens(3 * (Heading + Marker))
  BY <1>1, Counted
<1> QED
  BY <1>2 DEF Overhead

LEMMA Fits ==
  ASSUME NEW c \in Nat, NEW b \in Nat \ {0}
  PROVE  Fit(c, b) \in Nat /\ Tokens(Fit(c, b)) <= b + Tokens(Marker)
<1>1. /\ Marker \in Nat /\ Tokens(Marker) \in Nat \ {0}
      /\ Tokens(4 * b + Marker) <= b + Tokens(Marker)
  BY Lengths, Counted
<1>2. Tokens(c) \in Nat /\ (Tokens(c) <= b <=> c <= 4 * b)
  BY Counted
<1>3. Fit(c, b) = IF Tokens(c) <= b THEN c ELSE 4 * b + Marker
  BY <1>2 DEF Fit, Cut
<1> QED
  BY <1>1, <1>2, <1>3

(* A section that is pushed fits. *)
LEMMA PushFits ==
  ASSUME WindowIInv, UNCHANGED who,
         NEW l \in Labels, NEW c \in Nat,
         section' = [section EXCEPT ![l] = Fit(c, Budget(l))]
  PROVE  section' \in [Labels -> Nat] /\ SectionsFit'
<1>1. section \in [Labels -> Nat] /\ Fit(c, Budget(l)) \in Nat
  BY Budgets, Fits DEF WindowIInv, Shapes
<1>2. section' \in [Labels -> Nat]
  BY <1>1
<1>3. Overhead' = Overhead
  BY DEF Overhead
<1>4. SectionsFit'
  <2> SUFFICES ASSUME NEW k \in Labels
               PROVE  Tokens(section'[k]) <= Budget(k) + Overhead
    BY <1>3 DEF SectionsFit
  <2>1. CASE k = l
    <3>1. section'[k] = Fit(c, Budget(l))
      BY <1>1, <2>1
    <3>2. /\ Tokens(Fit(c, Budget(l))) <= Budget(l) + Tokens(Marker)
          /\ Tokens(Fit(c, Budget(l))) \in Nat /\ Tokens(Marker) \in Nat
      BY <1>1, Budgets, Fits, Counted, Lengths
    <3> QED
      BY <2>1, <3>1, <3>2, AMarkerMore, Budgets
  <2>2. CASE k # l
    BY <1>1, <2>2 DEF WindowIInv, SectionsFit
  <2> QED
    BY <2>1, <2>2
<1> QED
  BY <1>2, <1>4

LEMMA NearestStays ==
  ASSUME WindowIInv, UNCHANGED <<input, shown>>
  PROVE  NearestFirst'
BY SameInput DEF WindowIInv, NearestFirst

(* A pass or a level begins. *)
LEMMA TurnInv ==
  ASSUME WindowIInv, UNCHANGED <<input, shown>>,
         NEW p \in {"l1", "code", "notes", "done"}, NEW k \in Nat, TurnTo(p, k),
         section' \in [Labels -> Nat], SectionsFit', chars' \in Nat, spent' \in Nat,
         who = "proposer" => p # "code" /\ k <= 2,
         p = "code" => k <= IF Depth > 2 THEN 2 ELSE Depth,
         who = "proposer" /\ p = "l1" =>
           spent' <= L1Budget /\ chars' <= 4 * spent' + k * (Heading + Marker),
         who = "subagent" /\ p = "l1" /\ k # 0 =>
           pass = "l1" /\ k = level + 1 /\ \A m \in InLevel : <<"l1", level, m>> \in shown
  PROVE  WindowIInv'
<1>1. pass' = p /\ level' = k /\ begun' = FALSE /\ ahead' = {}
  BY DEF TurnTo
<1>2. /\ UNCHANGED <<who, vertices, source, shown>>
      /\ \A j : AtDistance(j)' = AtDistance(j)
  BY SameInput
<1>3. Shapes'
  <2>1. p = "code" => LastLevel' = IF Depth > 2 THEN 2 ELSE Depth
    BY <1>1, <1>2 DEF LastLevel
  <2> QED
    BY <1>1, <1>2, <2>1 DEF WindowIInv, Shapes
<1>4. PaidFor'
  <2>1. SUFFICES ASSUME who = "proposer", p = "l1"
                 PROVE  chars' <= 4 * spent' + k * (Heading + Marker) + 0
    BY <1>1, <1>2 DEF PaidFor
  <2> DEFINE x == k * (Heading + Marker)
  <2>2. x \in Nat
    BY Lengths
  <2>3. chars' <= 4 * spent' + x
    BY <2>1
  <2> HIDE DEF x
  <2>4. ASSUME NEW c \in Nat, NEW s \in Nat, c <= 4 * s + x PROVE c <= 4 * s + x + 0
    BY <2>2, <2>4
  <2> QED
    BY <2>3, <2>4 DEF x
<1>5. Passed'
  <2> SUFFICES ASSUME who = "subagent", p = "l1", NEW j \in 0..Depth, NEW m \in Ids,
                      j < k, m \in AtDistance(j), source[m].described
               PROVE  <<"l1", j, m>> \in shown
    BY <1>1, <1>2 DEF Passed
  <2>1. pass = "l1" /\ k = level + 1 /\ \A n \in InLevel : <<"l1", level, n>> \in shown
    OBVIOUS
  <2>2. CASE j = level
    BY <2>1, <2>2 DEF InLevel
  <2>3. CASE j # level
    <3>1. j < level
      BY <2>1, <2>3 DEF WindowIInv, Shapes
    <3> QED
      BY <2>1, <3>1 DEF WindowIInv, Passed
  <2> QED
    BY <2>2, <2>3
<1> QED
  BY <1>3, <1>4, <1>5, NearestStays DEF WindowIInv

LEMMA TextInv ==
  ASSUME WindowIInv, NEW c \in Nat,
         PushText(c) \/ PushGraph(c)
  PROVE  WindowIInv'
<1>1. /\ \E l \in {"text", "l0"} :
           section' = [section EXCEPT ![l] = Fit(c, Budget(l))]
      /\ chars' = 0 /\ spent' = 0 /\ TurnTo("l1", 0) /\ UNCHANGED <<input, shown>>
  BY DEF PushText, PushGraph, Push
<1>2. section' \in [Labels -> Nat] /\ SectionsFit'
  BY <1>1, PushFits, SameInput DEF Labels
<1>3. 0 <= L1Budget /\ 0 <= 4 * 0 + 0 * (Heading + Marker)
  BY Lengths
<1> QED
  BY <1>1, <1>2, <1>3, TurnInv

(* The l1 section ends. *)
LEMMA EndL1Inv ==
  ASSUME WindowIInv, pass = "l1", UNCHANGED <<input, shown>>,
         NEW c \in Nat, EndL1(c),
         who = "proposer" => c <= 4 * L1Budget + 3 * (Heading + Marker)
  PROVE  WindowIInv'
<1>1. CASE who = "subagent"
  <2>1. /\ section' = [section EXCEPT !["l1"] = Fit(c, Budget("l1"))]
        /\ chars' = 0 /\ spent' = 0 /\ TurnTo("code", 0)
    BY <1>1 DEF EndL1, Push
  <2>2. section' \in [Labels -> Nat] /\ SectionsFit'
    BY <2>1, PushFits, SameInput DEF Labels
  <2>3. 0 <= IF Depth > 2 THEN 2 ELSE Depth
    BY Lengths
  <2> QED
    BY <1>1, <2>1, <2>2, <2>3, TurnInv
<1>2. CASE who = "proposer"
  <2>1. /\ section' = [section EXCEPT !["l1"] = c]
        /\ chars' = 0 /\ spent' = 0 /\ TurnTo("notes", 0)
    BY <1>2 DEF EndL1
  <2>2. section \in [Labels -> Nat] /\ "l1" \in Labels
    BY DEF WindowIInv, Shapes, Labels
  <2>3. section' \in [Labels -> Nat]
    BY <2>1, <2>2
  <2>4. Tokens(c) <= L1Budget + Overhead
    <3> DEFINE x == 3 * (Heading + Marker)
    <3>1. x \in Nat /\ L1Budget \in Nat \ {0} /\ 4 * L1Budget + x \in Nat
      BY Lengths
    <3>2. c <= 4 * L1Budget + x /\ Overhead = Tokens(x)
      BY <1>2, AMarkerMore
    <3> HIDE DEF x
    <3>3. Tokens(4 * L1Budget + x) <= L1Budget + Tokens(x) /\ Tokens(x) \in Nat
      BY <3>1, Counted
    <3>4. Tokens(c) <= Tokens(4 * L1Budget + x) /\ Tokens(c) \in Nat
          /\ Tokens(4 * L1Budget + x) \in Nat
      BY <3>1, <3>2, Counted
    <3> QED
      BY <3>1, <3>2, <3>3, <3>4
  <2>5. Overhead' = Overhead
    BY SameInput DEF Overhead
  <2>6. SectionsFit'
    <3>1. Budget("l1") = L1Budget
      BY DEF Budget
    <3>2. \A l \in Labels : section'[l] = IF l = "l1" THEN c ELSE section[l]
      BY <2>1, <2>2
    <3>3. \A l \in Labels : Tokens(section[l]) <= Budget(l) + Overhead
      BY DEF WindowIInv, SectionsFit
    <3> QED
      BY <2>4, <2>5, <3>1, <3>2, <3>3 DEF SectionsFit
  <2> QED
    BY <1>2, <2>1, <2>3, <2>6, TurnInv
<1> QED
  BY <1>1, <1>2 DEF WindowIInv, Shapes

(* Level after level, as long as there is room for a sub-agent. *)
LEMMA NextLevelInv ==
  ASSUME WindowIInv, pass = "l1", UNCHANGED <<input, shown>>,
         NEW c \in Nat, NEW s \in Nat,
         NextLevel(c, s),
         who = "proposer" =>
           s <= L1Budget /\ c <= 4 * s + level * (Heading + Marker) + Heading + Marker,
         who = "subagent" => s >= L1Budget \/ \A m \in InLevel : <<"l1", level, m>> \in shown
  PROVE  WindowIInv'
<1>0. level \in Nat /\ (who = "proposer" => level \in 0..2)
  BY DEF WindowIInv, Shapes
<1>1. CASE EndL1(c)
  <2>1. who = "proposer" => c <= 4 * L1Budget + 3 * (Heading + Marker)
    BY <1>0, Lengths
  <2> QED
    BY <1>1, <2>1, EndL1Inv
<1>2. CASE ~(level = LastLevel \/ (who = "subagent" /\ s >= L1Budget))
  <2>1. chars' = c /\ spent' = s /\ TurnTo("l1", level + 1) /\ UNCHANGED section
    BY <1>2 DEF NextLevel
  <2>2. section' \in [Labels -> Nat]
    BY <2>1 DEF WindowIInv, Shapes
  <2>3. SectionsFit'
    BY <2>1, SameInput DEF WindowIInv, SectionsFit, Overhead
  <2>4. who = "proposer" => level \in 0..1
    BY <1>0, <1>2 DEF LastLevel
  <2>5. who = "proposer" =>
          level + 1 <= 2 /\ s <= L1Budget /\ c <= 4 * s + (level + 1) * (Heading + Marker)
    BY <2>4, Lengths
  <2>6. who = "subagent" => \A m \in InLevel : <<"l1", level, m>> \in shown
    BY <1>2
  <2>7. level + 1 \in Nat
    BY <1>0
  <2> QED
    BY <2>1, <2>2, <2>3, <2>5, <2>6, <2>7, TurnInv
<1> QED
  BY <1>1, <1>2 DEF NextLevel

LEMMA TextsAreNumbers ==
  ASSUME WindowIInv, NEW n \in Ids
  PROVE  L1Text(n) \in Nat /\ Code(n) \in Nat
<1>1. source[n] \in Source
  BY ContextAssumption DEF WindowIInv, Shapes
<1>2. /\ source[n].does \in Nat /\ source[n].how \in Nat /\ source[n].rest \in Nat
      /\ source[n].body \in Nat /\ source[n].head \in Nat /\ source[n].outline \in Nat
  BY <1>1 DEF Source
<1> QED
  BY <1>2 DEF L1Text, Code

(* An entity is passed over or shown, within its level. *)
LEMMA EntityInv ==
  ASSUME WindowIInv, begun,
         UNCHANGED <<input, pass, level, begun, section>>,
         NEW n \in ahead \cap Ids, ahead' = ahead \ {n},
         chars' \in Nat, spent' \in Nat, PaidFor',
         shown \subseteq shown', NearestFirst',
         who = "subagent" => /\ pass = "l1" => <<"l1", level, n>> \in shown'
                             /\ pass = "code" /\ source[n].loads
                                  => <<"code", level, n>> \in shown'
  PROVE  WindowIInv'
<1>1. /\ UNCHANGED <<who, vertices, source>>
      /\ \A j : AtDistance(j)' = AtDistance(j)
      /\ LastLevel' = LastLevel /\ Overhead' = Overhead
      /\ InLevel' = InLevel
  BY SameInput, SameInLevel DEF LastLevel, Overhead
<1>2. Shapes'
  BY <1>1 DEF WindowIInv, Shapes
<1>3. SectionsFit'
  BY <1>1 DEF WindowIInv, SectionsFit
<1>4. Passed'
  <2>1. Passed
    BY DEF WindowIInv
  <2>2. ASSUME who = "subagent", pass = "l1", NEW k \in 0..Depth, NEW m \in Ids,
               k < level, m \in AtDistance(k), source[m].described
        PROVE  <<"l1", k, m>> \in shown'
    BY <2>1, <2>2 DEF Passed
  <2>3. ASSUME who = "subagent", NEW m \in InLevel, m \notin ahead'
        PROVE  /\ pass = "l1" => <<"l1", level, m>> \in shown'
               /\ pass = "code" /\ source[m].loads => <<"code", level, m>> \in shown'
    <3>1. CASE m = n
      BY <2>3, <3>1
    <3>2. CASE m # n
      BY <2>1, <2>3, <3>2 DEF Passed
    <3> QED
      BY <3>1, <3>2
  <2> QED
    BY <1>1, <2>2, <2>3 DEF Passed
<1> QED
  BY <1>2, <1>3, <1>4 DEF WindowIInv

LEMMA DescribeInv ==
  ASSUME WindowIInv, NEW n \in Ids, Describe(n)
  PROVE  WindowIInv'
<1>1. /\ pass = "l1" /\ begun /\ Comes(n) /\ n \in ahead
      /\ spent + Tokens(L1Text(n)) <= L1Budget
      /\ chars' = chars + L1Text(n) /\ spent' = spent + Tokens(L1Text(n))
      /\ ahead' = ahead \ {n} /\ shown' = shown \cup {<<"l1", level, n>>}
      /\ UNCHANGED <<input, pass, level, begun, section>>
  BY DEF Describe, Describes, Comes
<1>2. /\ L1Text(n) \in Nat /\ Tokens(L1Text(n)) \in Nat
      /\ L1Text(n) <= 4 * Tokens(L1Text(n))
      /\ chars \in Nat /\ spent \in Nat /\ level \in Nat
      /\ who = "proposer" => level \in 0..2
  <2>1. L1Text(n) \in Nat
    BY TextsAreNumbers
  <2>2. /\ chars \in Nat /\ spent \in Nat /\ level \in Nat
        /\ who = "proposer" => level \in 0..2
    BY DEF WindowIInv, Shapes
  <2> QED
    BY <2>1, <2>2, Counted
<1>3. chars' \in Nat /\ spent' \in Nat
  BY <1>1, <1>2
<1>4. PaidFor'
  <2>1. who' = who
    BY <1>1, SameInput
  <2>2. SUFFICES ASSUME who = "proposer"
                 PROVE  chars' <= 4 * spent' + level * (Heading + Marker) + Heading
    BY <1>1, <2>1 DEF PaidFor
  <2>3. chars <= 4 * spent + level * (Heading + Marker) + Heading
    BY <1>1, <2>2 DEF WindowIInv, PaidFor
  <2> QED
    BY <1>1, <1>2, <2>2, <2>3, Lengths
<1>5. NearestFirst'
  <2>1. /\ UNCHANGED <<who, vertices, source>>
        /\ \A j : AtDistance(j)' = AtDistance(j)
    BY <1>1, SameInput
  <2> SUFFICES ASSUME who = "subagent",
                      NEW e \in shown', NEW m \in Ids, NEW k \in 0..Depth,
                      m \in AtDistance(k), Before(k, m, e[2], e[3])
               PROVE  /\ (e[1] = "l1" /\ source[m].described) => <<"l1", k, m>> \in shown'
                      /\ (e[1] = "code" /\ k = e[2] /\ source[m].loads)
                           => <<"code", k, m>> \in shown'
    BY <2>1 DEF NearestFirst
  <2>2. CASE e \in shown
    BY <1>1, <2>2 DEF WindowIInv, NearestFirst
  <2>3. CASE e = <<"l1", level, n>>
    <3>1. e[1] = "l1" /\ e[2] = level /\ e[3] = n
      BY <2>3
    <3>2. CASE k < level
      BY <1>1, <3>1, <3>2 DEF WindowIInv, Passed
    <3>3. CASE k = level /\ m < n
      <4>1. m \notin ahead
        BY <1>1, <3>3, ContextAssumption DEF Comes
      <4>2. source[m].described => m \in InLevel
        BY <1>1, <3>3 DEF InLevel
      <4> QED
        BY <1>1, <3>1, <3>3, <4>1, <4>2 DEF WindowIInv, Passed
    <3> QED
      BY <3>1, <3>2, <3>3 DEF Before
  <2> QED
    BY <1>1, <2>2, <2>3
<1> QED
  BY <1>1, <1>3, <1>4, <1>5, EntityInv

LEMMA L1Inv ==
  ASSUME WindowIInv,
         \/ BeginL1 \/ NothingToDescribe \/ NoRoomForLevel \/ EndLevel
         \/ \E n \in Ids : TruncateL1(n)
  PROVE  WindowIInv'
<1>0. /\ pass = "l1" /\ chars \in Nat /\ spent \in Nat /\ level \in Nat
      /\ who \in {"subagent", "proposer"} /\ begun \in BOOLEAN
      /\ who = "proposer" => level \in 0..2
      /\ who = "proposer" =>
           /\ spent <= L1Budget
           /\ chars <= 4 * spent + level * (Heading + Marker) + (IF begun THEN Heading ELSE 0)
  BY DEF BeginL1, NothingToDescribe, NoRoomForLevel, EndLevel,
         TruncateL1, Describes, WindowIInv, Shapes,
         PaidFor
<1>1. CASE BeginL1
  <2>1. /\ ~begun /\ begun' = TRUE /\ ahead' = InLevel
        /\ chars' = chars + Heading /\ spent' = spent + HeadingCost
        /\ UNCHANGED <<input, pass, level, section, shown>>
    BY <1>1 DEF BeginL1
  <2>2. /\ UNCHANGED <<who, vertices, source>>
        /\ \A j : AtDistance(j)' = AtDistance(j)
        /\ LastLevel' = LastLevel /\ Overhead' = Overhead
        /\ InLevel' = InLevel
    BY <2>1, SameInput, SameInLevel DEF LastLevel, Overhead
  <2>3. HeadingCost \in Nat /\ (who = "proposer" => HeadingCost = 0)
    BY Lengths, Counted DEF HeadingCost
  <2>4. chars' \in Nat /\ spent' \in Nat
    BY <1>0, <2>1, <2>3, Lengths
  <2>5. Shapes'
    BY <2>1, <2>2, <2>4 DEF WindowIInv, Shapes
  <2>6. PaidFor'
    <3>1. SUFFICES ASSUME who = "proposer"
                   PROVE  /\ spent' <= L1Budget
                          /\ chars' <= 4 * spent' + level * (Heading + Marker) + Heading
      BY <2>1, <2>2 DEF PaidFor
    <3>2. spent' = spent /\ chars <= 4 * spent + level * (Heading + Marker)
      BY <1>0, <2>1, <2>3, <3>1, Lengths
    <3> QED
      BY <1>0, <2>1, <3>1, <3>2, Lengths
  <2>7. SectionsFit'
    BY <2>1, <2>2 DEF WindowIInv, SectionsFit
  <2>8. Passed'
    BY <2>1, <2>2 DEF WindowIInv, Passed
  <2>9. NearestFirst'
    BY <2>1, NearestStays
  <2> QED
    BY <2>5, <2>6, <2>7, <2>8, <2>9 DEF WindowIInv
<1>2. CASE NothingToDescribe
  <2>1. /\ who = "subagent" /\ InLevel = {}
        /\ NextLevel(chars, spent) /\ UNCHANGED <<input, shown>>
    BY <1>2 DEF NothingToDescribe
  <2> QED
    BY <1>0, <2>1, NextLevelInv
<1>3. CASE NoRoomForLevel
  <2>1. who = "subagent" /\ EndL1(chars) /\ UNCHANGED <<input, shown>>
    BY <1>3 DEF NoRoomForLevel
  <2> QED
    BY <1>0, <2>1, EndL1Inv
<1>4. CASE EndLevel
  <2>1. /\ begun /\ (ahead = {} \/ Full)
        /\ NextLevel(chars, spent) /\ UNCHANGED <<input, shown>>
    BY <1>4 DEF EndLevel
  <2>2. who = "proposer" => chars <= 4 * spent + level * (Heading + Marker) + Heading + Marker
    BY <1>0, <2>1, Lengths
  <2>3. who = "subagent" => \A m \in InLevel : <<"l1", level, m>> \in shown
    BY <1>0, <2>1 DEF Full, WindowIInv, Passed
  <2> QED
    BY <1>0, <2>1, <2>2, <2>3, NextLevelInv
<1>5. ASSUME NEW n \in Ids, TruncateL1(n) PROVE WindowIInv'
  <2> DEFINE s == IF who = "subagent" THEN L1Budget ELSE spent
  <2>1. begun /\ NextLevel(chars + Marker, s) /\ UNCHANGED <<input, shown>>
    BY <1>5 DEF TruncateL1, Describes
  <2>2. chars + Marker \in Nat /\ s \in Nat /\ (who = "subagent" => s >= L1Budget)
    BY <1>0, Lengths
  <2>3. who = "proposer" =>
          /\ s <= L1Budget
          /\ chars + Marker <= 4 * s + level * (Heading + Marker) + Heading + Marker
    BY <1>0, <2>1, Lengths
  <2> HIDE DEF s
  <2> QED
    BY <1>0, <2>1, <2>2, <2>3, NextLevelInv
<1> QED
  BY <1>1, <1>2, <1>3, <1>4, <1>5

(* A section of code ends. *)
LEMMA EndCodeInv ==
  ASSUME WindowIInv, pass = "code", UNCHANGED <<input, shown>>,
         NEW c \in Nat, EndCode(c)
  PROVE  WindowIInv'
<1>1. /\ level \in Nat /\ level <= LastLevel /\ who = "subagent"
      /\ LastLevel = IF Depth > 2 THEN 2 ELSE Depth
  BY DEF WindowIInv, Shapes, LastLevel
<1>2. level \in 0..2
  BY <1>1, Lengths
<1>3. /\ section' = [section EXCEPT ![CodeLabel(level)] =
                        Fit(c, Budget(CodeLabel(level)))]
      /\ chars' = 0 /\ spent' = 0
      /\ IF level = LastLevel THEN TurnTo("done", 0) ELSE TurnTo("code", level + 1)
  BY DEF EndCode, Push
<1>4. CodeLabel(level) \in Labels
  BY <1>2 DEF Labels
<1>5. section' \in [Labels -> Nat] /\ SectionsFit'
  BY <1>3, <1>4, PushFits, SameInput
<1>6. CASE level = LastLevel
  BY <1>1, <1>3, <1>5, <1>6, TurnInv
<1>7. CASE level # LastLevel
  <2>1. level + 1 \in Nat /\ level + 1 <= IF Depth > 2 THEN 2 ELSE Depth
    BY <1>1, <1>7, Lengths
  <2> QED
    BY <1>1, <1>3, <1>5, <1>7, <2>1, TurnInv
<1> QED
  BY <1>6, <1>7

LEMMA CodeInv ==
  ASSUME WindowIInv,
         \/ BeginCode \/ EndSection
         \/ \E n \in Ids : LoadFails(n) \/ Include(n) \/ TruncateCode(n)
  PROVE  WindowIInv'
<1>0. /\ pass = "code" /\ who = "subagent" /\ chars \in Nat /\ spent \in Nat
      /\ CodeBudget[level] \in Nat \ {0}
  <2>1. /\ pass = "code" /\ who = "subagent" /\ chars \in Nat /\ spent \in Nat
        /\ level \in Nat /\ level <= LastLevel
    BY DEF BeginCode, EndSection, LoadFails, Include, TruncateCode,
           Reaches, WindowIInv, Shapes
  <2>2. level \in 0..2
    BY <2>1, Lengths DEF LastLevel
  <2> QED
    BY <2>1, <2>2, Lengths
<1>1. CASE BeginCode
  <2>1. /\ ~begun /\ begun' = TRUE /\ ahead' = InLevel
        /\ chars' = Heading /\ spent' = Tokens(Heading)
        /\ UNCHANGED <<input, pass, level, section, shown>>
    BY <1>1 DEF BeginCode
  <2>2. /\ UNCHANGED <<who, vertices, source>>
        /\ \A j : AtDistance(j)' = AtDistance(j)
        /\ LastLevel' = LastLevel /\ Overhead' = Overhead
        /\ InLevel' = InLevel
    BY <2>1, SameInput, SameInLevel DEF LastLevel, Overhead
  <2>3. chars' \in Nat /\ spent' \in Nat
    BY <2>1, Lengths, Counted
  <2>4. Shapes' /\ PaidFor'
    BY <1>0, <2>1, <2>2, <2>3 DEF WindowIInv, Shapes, PaidFor
  <2>5. SectionsFit' /\ Passed'
    BY <1>0, <2>1, <2>2 DEF WindowIInv, SectionsFit, Passed
  <2> QED
    BY <2>1, <2>4, <2>5, NearestStays DEF WindowIInv
<1>2. CASE EndSection
  BY <1>0, <1>2, EndCodeInv DEF EndSection
<1>3. ASSUME NEW n \in Ids, LoadFails(n) PROVE WindowIInv'
  <2>1. /\ begun /\ n \in ahead /\ ~source[n].loads /\ ahead' = ahead \ {n}
        /\ UNCHANGED <<input, pass, level, begun, section, chars, spent, shown>>
    BY <1>3 DEF LoadFails, Reaches, Comes
  <2>2. PaidFor' /\ NearestFirst'
    BY <1>0, <2>1, NearestStays, SameInput DEF PaidFor
  <2> QED
    BY <1>0, <2>1, <2>2, EntityInv
<1>4. ASSUME NEW n \in Ids, Include(n) PROVE WindowIInv'
  <2>1. /\ begun /\ Comes(n) /\ n \in ahead /\ ahead' = ahead \ {n}
        /\ chars' = chars + Code(n) + 1 /\ spent' = spent + Tokens(Code(n))
        /\ shown' = shown \cup {<<"code", level, n>>}
        /\ UNCHANGED <<input, pass, level, begun, section>>
    BY <1>4 DEF Include, Reaches, Comes
  <2>2. chars' \in Nat /\ spent' \in Nat
    <3>1. Code(n) \in Nat
      BY TextsAreNumbers
    <3>2. Tokens(Code(n)) \in Nat
      BY <3>1, Counted
    <3> QED
      BY <1>0, <2>1, <3>1, <3>2
  <2>3. PaidFor'
    BY <1>0, <2>1, SameInput DEF PaidFor
  <2>4. NearestFirst'
    <3>1. /\ UNCHANGED <<who, vertices, source>>
          /\ \A j : AtDistance(j)' = AtDistance(j)
      BY <2>1, SameInput
    <3> SUFFICES ASSUME NEW e \in shown', NEW m \in Ids, NEW k \in 0..Depth,
                        m \in AtDistance(k), Before(k, m, e[2], e[3])
                 PROVE  /\ (e[1] = "l1" /\ source[m].described) => <<"l1", k, m>> \in shown'
                        /\ (e[1] = "code" /\ k = e[2] /\ source[m].loads)
                             => <<"code", k, m>> \in shown'
      BY <3>1 DEF NearestFirst
    <3>2. CASE e \in shown
      BY <1>0, <2>1, <3>2 DEF WindowIInv, NearestFirst
    <3>3. CASE e = <<"code", level, n>>
      <4>1. e[1] = "code" /\ e[2] = level /\ e[3] = n /\ level \in Nat
        BY <3>3 DEF WindowIInv, Shapes
      <4>2. SUFFICES ASSUME k = level, source[m].loads
                     PROVE  <<"code", k, m>> \in shown'
        BY <4>1
      <4>3. m < n
        BY <4>1, <4>2 DEF Before
      <4>4. m \notin ahead
        BY <1>0, <2>1, <4>3, ContextAssumption DEF Comes
      <4>5. m \in InLevel
        BY <1>0, <4>2 DEF InLevel
      <4> QED
        BY <1>0, <2>1, <4>2, <4>4, <4>5 DEF WindowIInv, Passed
    <3> QED
      BY <2>1, <3>2, <3>3
  <2> QED
    BY <1>0, <2>1, <2>2, <2>3, <2>4, EntityInv
<1>5. ASSUME NEW n \in Ids, TruncateCode(n) PROVE WindowIInv'
  <2> DEFINE most == (CodeBudget[level] - spent) * 4
             c == chars + Cut(Code(n), most) + 1
  <2>1. EndCode(c) /\ UNCHANGED <<input, shown>> /\ spent < CodeBudget[level]
    BY <1>5 DEF TruncateCode, Reaches
  <2>2. most \in Nat
    BY <1>0, <2>1
  <2>3. Cut(Code(n), most) \in Nat
    BY <2>2, TextsAreNumbers, Lengths DEF Cut
  <2>4. c \in Nat
    BY <1>0, <2>3
  <2> HIDE DEF c
  <2> QED
    BY <1>0, <2>1, <2>4, EndCodeInv
<1> QED
  BY <1>1, <1>2, <1>3, <1>4, <1>5

LEMMA NotesInv ==
  ASSUME WindowIInv, NEW anchor \in Ids, FitNotes(anchor)
  PROVE  WindowIInv'
<1> DEFINE c == IF Tokens(Note(anchor)) <= NoteBudget THEN Note(anchor) ELSE 0
<1>1. /\ section' = [section EXCEPT !["notes"] = c] /\ TurnTo("done", 0)
      /\ UNCHANGED <<input, chars, spent, shown>>
  BY DEF FitNotes
<1>2. c \in Nat /\ Tokens(c) <= NoteBudget
  <2>0. IsFiniteSet(Ids) /\ vertices \subseteq Ids
    BY ContextAssumption DEF WindowIInv, Shapes
  <2>1. Orphans(anchor) \subseteq Ids
    BY <2>0 DEF Orphans
  <2>2. Cardinality(Orphans(anchor)) \in Nat
    BY <2>0, <2>1, FS_Subset, FS_CardinalityType
  <2>3. Note(anchor) \in Nat
    <3> DEFINE k == Cardinality(Orphans(anchor))
    <3>1. Heading + k \in Nat
      BY <2>2, Lengths
    <3> HIDE DEF k
    <3> QED
      BY <3>1 DEF Note, k
  <2>4. Tokens(0) <= NoteBudget
    BY Lengths DEF Tokens, Larger
  <2> QED
    BY <2>3, <2>4
<1>3. /\ section \in [Labels -> Nat] /\ "notes" \in Labels
      /\ chars \in Nat /\ spent \in Nat
  BY DEF WindowIInv, Shapes, Labels
<1> HIDE DEF c
<1>4. section' \in [Labels -> Nat]
  BY <1>1, <1>2, <1>3
<1>5. SectionsFit'
  <2>1. Budget("notes") = NoteBudget /\ Overhead' = Overhead
    BY <1>1, SameInput DEF Budget, Overhead
  <2>2. Tokens(c) <= NoteBudget + Overhead
    <3>1. Tokens(c) \in Nat /\ NoteBudget \in Nat /\ Overhead \in Nat
      BY <1>2, Lengths, AMarkerMore, Counted
    <3> QED
      BY <1>2, <3>1
  <2>3. \A l \in Labels : section'[l] = IF l = "notes" THEN c ELSE section[l]
    BY <1>1, <1>3
  <2>4. \A l \in Labels : Tokens(section[l]) <= Budget(l) + Overhead
    BY DEF WindowIInv, SectionsFit
  <2> QED
    BY <2>1, <2>2, <2>3, <2>4 DEF SectionsFit
<1> QED
  BY <1>1, <1>3, <1>4, <1>5, TurnInv

LEMMA WindowInitIInv ==
  ASSUME WindowInit
  PROVE  WindowIInv
<1>1. Shapes
  <2>1. /\ section \in [Labels -> Nat] /\ source \in [Ids -> Sources]
        /\ vertices \subseteq Ids
    BY DEF WindowInit
  <2>2. level = 0 /\ chars = 0 /\ spent = 0 /\ begun = FALSE
    BY DEF WindowInit
  <2>3. level \in Nat /\ chars \in Nat /\ spent \in Nat /\ level <= 2
    BY <2>2
  <2>4. begun \in BOOLEAN
    BY <2>2
  <2> QED
    BY <2>1, <2>3, <2>4 DEF WindowInit, Shapes
<1>2. PaidFor /\ Passed /\ NearestFirst
  BY DEF WindowInit, PaidFor, Passed, NearestFirst
<1>3. SectionsFit
  <2>1. Tokens(0) = 1
    BY DEF Tokens, Larger
  <2>2. \A l \in Labels : section[l] = 0 /\ Budget(l) \in Nat \ {0}
    BY Budgets DEF WindowInit
  <2> QED
    BY <2>1, <2>2, AMarkerMore DEF SectionsFit
<1> QED
  BY <1>1, <1>2, <1>3 DEF WindowIInv

LEMMA WindowNextIInv ==
  ASSUME WindowIInv, [WindowNext]_window
  PROVE  WindowIInv'
<1>1. CASE UNCHANGED window
  <2>1. UNCHANGED <<input, pass, level, begun, ahead, chars, spent, section, shown>>
    BY <1>1 DEF window, loop
  <2>2. /\ UNCHANGED <<who, vertices, source>>
        /\ \A j : AtDistance(j)' = AtDistance(j)
        /\ LastLevel' = LastLevel /\ Overhead' = Overhead
        /\ InLevel' = InLevel
    BY <2>1, SameInput, SameInLevel DEF LastLevel, Overhead
  <2>3. Shapes' /\ PaidFor'
    BY <2>1, <2>2 DEF WindowIInv, Shapes, PaidFor
  <2>4. SectionsFit' /\ Passed'
    BY <2>1, <2>2 DEF WindowIInv, SectionsFit, Passed
  <2> QED
    BY <2>1, <2>3, <2>4, NearestStays DEF WindowIInv
<1>2. \A c \in TextLengths : c \in Nat
  BY Lengths DEF TextLengths
<1> QED
  BY <1>1, <1>2, TextInv, L1Inv, DescribeInv, CodeInv, NotesInv DEF WindowNext

LEMMA AlwaysWindowIInv == WindowSpec => []WindowIInv
BY WindowInitIInv, WindowNextIInv, PTL DEF WindowSpec

(* ContextWindow: whatever the lengths of the texts, wherever a loop ends  *)
(* and however each length is rounded, no section outgrows its budget but  *)
(* by the markers and, for the proposer, the lines over the levels.        *)
THEOREM BudgetsHold == WindowSpec => []SectionsFit
<1>1. WindowIInv => SectionsFit
  BY DEF WindowIInv
<1> QED
  BY <1>1, AlwaysWindowIInv, PTL

(* ContextWindow: for every graph, task, depth and budget, a sub-agent is  *)
(* shown nothing before what is nearer to its task, or of the same         *)
(* distance and comes before it by name.                                   *)
THEOREM NearestIsShownFirst == WindowSpec => []NearestFirst
<1>1. WindowIInv => NearestFirst
  BY DEF WindowIInv
<1> QED
  BY <1>1, AlwaysWindowIInv, PTL
============================================================================
