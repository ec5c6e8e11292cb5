-------------------------- MODULE RunSessionProofs --------------------------
(***************************************************************************)
(* Theorems of RunSession, for every number of clients, questions and      *)
(* restarts, and of SkillStore, for every set of runs that capture a       *)
(* skill.                                                                  *)
(*                                                                         *)
(* RunSession: what the driver's place says of the status, and that a run  *)
(* that is being deleted is forgotten before its files go.                 *)
(* SkillStore: while nothing has overlapped, whoever changes the disk is   *)
(* alone with it, and its own place says how far the root has got.         *)
(***************************************************************************)
EXTENDS RunSession, SkillStore, TLAPS

(* What the driver's place says of the session.                            *)
Placed ==
  /\ driver = "told" => result # "Running"
  /\ driver \notin {"ending", "ended", "none"} => status \notin Terminal
  /\ driver = "none" => status \in Terminal

(* delete_run forgets the run before it removes the files.                 *)
ForgottenFirst == remover = "forgotten" => ~listed

IInv == SessionTypeOK /\ ZombiesOnlyByPanic /\ DiskInSync /\ Placed /\ ForgottenFirst

LEMMA ZeroInBounds == 0 \in 0..MaxAsked /\ 0 \in 0..MaxRestarts
  BY BoundsAssumption

(* What a request and a run start from.                                    *)
LEMMA FreshValues ==
  /\ Idle \in Request
  /\ [k \in Awaited |-> Default] \in [Awaited -> Value]
  /\ [k \in Awaited |-> 0] \in [Awaited -> 0..MaxAsked]
  /\ [k \in Awaited |-> FALSE] \in [Awaited -> BOOLEAN]
  /\ [c \in Clients |-> Idle] \in [Clients -> Request]
<1>1. Idle \in Request
  BY ZeroInBounds DEF Idle, Request, Awaited
<1> QED
  BY <1>1, ZeroInBounds DEF Awaited, Value, Default

LEMMA InitStep == SessionInit => IInv
<1> SUFFICES ASSUME SessionInit PROVE IInv
  OBVIOUS
<1>1. SessionTypeOK
  BY FreshValues, ZeroInBounds
     DEF SessionInit, SessionTypeOK, Places, Gone, Results, Status, Terminal
<1>2. ZombiesOnlyByPanic /\ DiskInSync /\ Placed /\ ForgottenFirst
  BY DEF SessionInit, ZombiesOnlyByPanic, Gone, DiskInSync, Placed, ForgottenFirst, Terminal
<1> QED
  BY <1>1, <1>2 DEF IInv

LEMMA DriveStep ==
  ASSUME IInv, Drive
  PROVE  IInv'
<1> USE BoundsAssumption DEF IInv, ZombiesOnlyByPanic, Gone, DiskInSync, Placed,
      ForgottenFirst, GoTo, SaveAndGoTo, MarkCancelled, session, storage, handlers, Places,
      Results, Awaited, Terminal, Status
<1> USE DEF SessionTypeOK
<1>1. CASE LookUp
  BY <1>1 DEF LookUp
<1>2. CASE SaveFirst
  BY <1>2 DEF SaveFirst
<1>3. CASE Top
  BY <1>3 DEF Top
<1>4. CASE Interrupt
  BY <1>4 DEF Interrupt
<1>5. CASE Publish
  BY <1>5 DEF Publish
<1>6. CASE SaveWait
  BY <1>6 DEF SaveWait
<1>7. CASE SaveEnd
  BY <1>7 DEF SaveEnd
<1>8. CASE Await
  BY <1>8 DEF Await
<1>9. CASE TakeAnswer
  BY <1>9 DEF TakeAnswer, Value, Default
<1>10. CASE HeartbeatRepairs
  BY <1>10 DEF HeartbeatRepairs
<1>11. CASE HeartbeatAnswers
  BY <1>11 DEF HeartbeatAnswers
<1>12. CASE SaveResumed
  BY <1>12 DEF SaveResumed
<1>13. CASE HeartbeatResumes
  BY <1>13 DEF HeartbeatResumes
<1> QED
  BY <1>1, <1>2, <1>3, <1>4, <1>5, <1>6, <1>7, <1>8, <1>9, <1>10, <1>11, <1>12, <1>13
  DEF Drive

(* A step of the loop: what it returns is not told yet, and a panic        *)
(* leaves the session as it is.                                            *)
LEMMA LoopStep ==
  ASSUME IInv, LoopSteps
  PROVE  IInv'
<1> USE BoundsAssumption DEF IInv, ZombiesOnlyByPanic, Gone, DiskInSync, Placed,
      ForgottenFirst, GoTo, session, storage, handlers, Places, Results, Awaited, Terminal
<1>1. CASE StepPanics
  BY <1>1 DEF StepPanics, SessionTypeOK
<1>2. ASSUME NEW r \in Results, StepReturns(r) PROVE IInv'
  BY <1>2 DEF StepReturns, SessionTypeOK
<1> QED
  BY <1>1, <1>2 DEF LoopSteps

(* Only a handler's request changes, and perhaps a permit or a value.      *)
LEMMA ProvideStep ==
  ASSUME IInv, NEW c \in Clients, Provide(c)
  PROVE  IInv'
<1> USE BoundsAssumption DEF IInv, ZombiesOnlyByPanic, Gone, DiskInSync, Placed,
      ForgottenFirst, Handle, session, storage, handlers, Terminal
<1>1. ASSUME NEW k \in Awaited, Post(c, k) PROVE IInv'
  <2>1. [at |-> "accepted", kind |-> k, about |-> asked[k], locks |-> TRUE] \in Request
    BY <1>1 DEF SessionTypeOK, Request
  <2>2. client' \in [Clients -> Request]
    BY <1>1, <2>1 DEF Post, SessionTypeOK
  <2> QED
    BY <1>1, <2>2 DEF Post, SessionTypeOK
<1>2. CASE Store(c)
  <2>1. client[c] \in Request
    BY DEF SessionTypeOK
  <2>2. [client[c] EXCEPT !.at = "stored"] \in Request
    BY <2>1 DEF Request
  <2>3. client' \in [Clients -> Request]
    BY <1>2, <2>2 DEF Store, SessionTypeOK
  <2>4. value' \in [Awaited -> Value]
    BY <1>2, <2>1 DEF Store, SessionTypeOK, Request, Value
  <2> QED
    BY <1>2, <2>3, <2>4 DEF Store, SessionTypeOK
<1>3. ASSUME NEW k \in Awaited, StoreFromSocket(c, k) PROVE IInv'
  <2>1. [at |-> "stored", kind |-> k, about |-> asked[k], locks |-> FALSE] \in Request
    BY <1>3 DEF SessionTypeOK, Request
  <2>2. client' \in [Clients -> Request]
    BY <1>3, <2>1 DEF StoreFromSocket, SessionTypeOK
  <2>3. value' \in [Awaited -> Value]
    BY <1>3 DEF StoreFromSocket, SessionTypeOK, Value
  <2> QED
    BY <1>3, <2>2, <2>3 DEF StoreFromSocket, SessionTypeOK
<1>4. CASE NotifyWaiter(c)
  <2>1. client' \in [Clients -> Request]
    BY <1>4, FreshValues DEF NotifyWaiter, SessionTypeOK
  <2> QED
    BY <1>4, <2>1 DEF NotifyWaiter, WaitsFor, SessionTypeOK, Places, Gone
<1>5. CASE NotifyNobody(c)
  <2>1. client' \in [Clients -> Request]
    BY <1>5, FreshValues DEF NotifyNobody, SessionTypeOK
  <2>2. permit' \in [Awaited -> BOOLEAN]
    BY <1>5 DEF NotifyNobody, SessionTypeOK, Request
  <2> QED
    BY <1>5, <2>1, <2>2 DEF NotifyNobody, SessionTypeOK
<1> QED
  BY <1>1, <1>2, <1>3, <1>4, <1>5 DEF Provide

LEMMA CancelStep ==
  ASSUME IInv, Cancel
  PROVE  IInv'
  BY DEF Cancel, IInv, SessionTypeOK, ZombiesOnlyByPanic, Gone, DiskInSync, Placed,
      ForgottenFirst, handlers, storage

(* The files are removed after the run has left the list, or with it.      *)
LEMMA RemovalStep ==
  ASSUME IInv, Removal
  PROVE  IInv'
<1> USE DEF IInv, SessionTypeOK, ZombiesOnlyByPanic, Gone, DiskInSync, Placed,
      ForgottenFirst, session, storage
<1>1. CASE Delete
  BY <1>1 DEF Delete
<1>2. CASE DeleteFromMap
  BY <1>2 DEF DeleteFromMap
<1>3. CASE DeleteFiles
  BY <1>3 DEF DeleteFiles
<1>4. CASE Clear
  BY <1>4 DEF Clear
<1>5. CASE ClearFilesAndMap
  BY <1>5 DEF ClearFilesAndMap
<1> QED
  BY <1>1, <1>2, <1>3, <1>4, <1>5 DEF Removal

LEMMA RestartStep ==
  ASSUME IInv, Restart
  PROVE  IInv'
<1>1. status' \in Terminal
  BY DEF Restart, Restored, Terminal
<1>2. restarts' \in 0..MaxRestarts
  BY BoundsAssumption DEF Restart, IInv, SessionTypeOK
<1>3. /\ client' \in [Clients -> Request] /\ permit' \in [Awaited -> BOOLEAN]
      /\ value' \in [Awaited -> Value] /\ asked' \in [Awaited -> 0..MaxAsked]
  BY FreshValues DEF Restart
<1>4. disk' \in {disk, "none"}
  BY DEF Restart, Loadable
<1>5. SessionTypeOK'
  BY <1>1, <1>2, <1>3, <1>4 DEF Restart, IInv, SessionTypeOK, Places, Gone, Results, Status
<1> QED
  BY <1>1, <1>5 DEF Restart, IInv, ZombiesOnlyByPanic, Gone, DiskInSync, Placed, ForgottenFirst

LEMMA UnchangedStep ==
  ASSUME IInv, UNCHANGED sessionVars
  PROVE  IInv'
  BY DEF sessionVars, session, storage, handlers, IInv, SessionTypeOK, ZombiesOnlyByPanic, Gone,
      DiskInSync, Placed, ForgottenFirst

LEMMA StepKeepsIInv == IInv /\ [SessionNext]_sessionVars => IInv'
  BY DriveStep, LoopStep, ProvideStep, CancelStep, RemovalStep, RestartStep, UnchangedStep
     DEF SessionNext

LEMMA Invariance == SessionSpec => []IInv
  BY InitStep, StepKeepsIInv, PTL DEF SessionSpec

(* Types, and the status of a run that waits or is over.                   *)
THEOREM TypeCorrect == SessionSpec => []SessionTypeOK
<1>1. IInv => SessionTypeOK
  BY DEF IInv
<1> QED
  BY <1>1, Invariance, PTL

(* However handlers, crashes and the driver interleave: a listed run that  *)
(* looks active has a driver, unless the driver panicked in a step.        *)
THEOREM DriverForActive == SessionSpec => []ZombiesOnlyByPanic
<1>1. IInv => ZombiesOnlyByPanic
  BY DEF IInv
<1> QED
  BY <1>1, Invariance, PTL

(* run.json holds the listed status whenever the driver is not between a   *)
(* change of it and its save.                                              *)
THEOREM DiskCurrent == SessionSpec => []DiskInSync
<1>1. IInv => DiskInSync
  BY DEF IInv
<1> QED
  BY <1>1, Invariance, PTL

(* A run that is over stays as it is, and is restored as it was: only the  *)
(* driver changes the status, and not once it has ended the run.           *)
THEOREM EndsForGood == SessionSpec => TerminalIsFinal
<1> DEFINE Final ==
      /\ restarts' = restarts /\ status \in Terminal => status' = status
      /\ restarts' # restarts /\ driver = "ended" /\ listed => listed' /\ status' = status
<1>1. ASSUME IInv, [SessionNext]_sessionVars PROVE [Final]_sessionVars
  <2> USE <1>1 DEF session, storage, handlers, GoTo, SaveAndGoTo, MarkCancelled, Handle
  <2>1. CASE Drive
    <3>1. restarts' = restarts
      BY <2>1 DEF Drive, LookUp, SaveFirst, Top, Interrupt, Publish, SaveWait, SaveEnd, Await,
          TakeAnswer, HeartbeatRepairs, HeartbeatAnswers, SaveResumed, HeartbeatResumes
    <3>2. status' = status \/ driver \in {"top", "step", "told", "saved"}
      BY <2>1 DEF Drive, LookUp, SaveFirst, Top, Interrupt, Publish, SaveWait, SaveEnd, Await,
          TakeAnswer, HeartbeatRepairs, HeartbeatAnswers, SaveResumed, HeartbeatResumes
    <3> QED
      BY <3>1, <3>2 DEF IInv, Placed
  <2>2. ASSUME NEW c \in Clients, Provide(c) PROVE Final
    BY <2>2 DEF Provide, Store, NotifyWaiter, NotifyNobody, Post, StoreFromSocket
  <2>3. CASE Cancel \/ Removal
    BY <2>3 DEF Cancel, Removal, Delete, DeleteFromMap, DeleteFiles, Clear, ClearFilesAndMap
  <2>4. CASE Restart
    <3>1. restarts' # restarts
      BY <2>4, BoundsAssumption DEF Restart, IInv, SessionTypeOK
    <3>2. driver = "ended" /\ listed => disk = status /\ status \in Terminal
      BY DEF IInv, DiskInSync, SessionTypeOK
    <3>3. driver = "ended" /\ listed => disk # "none" /\ Restored = status
      BY <3>2 DEF Restored, Terminal
    <3>4. driver = "ended" => disk' = disk
      BY <2>4 DEF Restart, Loadable, Saving
    <3> QED
      BY <2>4, <3>1, <3>3, <3>4 DEF Restart
  <2>5. CASE LoopSteps
    BY <2>5 DEF LoopSteps, StepPanics, StepReturns
  <2> QED
    BY <2>1, <2>2, <2>3, <2>4, <2>5 DEF SessionNext
<1>2. Final <=> (/\ restarts' = restarts /\ status \in Terminal => status' = status
                 /\ restarts' # restarts /\ driver = "ended" /\ listed
                      => listed' /\ status' = status)
  OBVIOUS
<1> HIDE DEF Final
<1>3. [][Final]_sessionVars => TerminalIsFinal
  BY <1>2, PTL DEF TerminalIsFinal
<1> QED
  BY <1>1, <1>3, Invariance, PTL DEF SessionSpec

----------------------------------------------------------------------------
(* SkillStore, where runs leave what they have learned and look for it.    *)
(* Nothing of a session is shared with it.                                 *)

(* As long as nothing has overlapped, whoever changes the disk is alone. *)
Exclusive ==
  ~disturbed =>
    /\ \A v, w \in Writers : Saves(v) /\ Saves(w) => v = w
    /\ Deletes => \A w \in Writers : ~Saves(w)
    /\ Busy => \A r \in Readers : ~Loads(r)

Rewrites(w) == saving[w] \in {"trigger", "flow"}

(* Then a root that nobody is changing holds one skill, or none, and who   *)
(* changes it has got as far as its place in the code says.                *)
DiskWhole ==
  ~disturbed =>
    /\ \A root \in Roots :
         (/\ deleting # root
          /\ \A w \in Writers : Rewrites(w) => Root(w) # root)
           => flow[root] = trigger[root]
    /\ \A w \in Writers :
         /\ Rewrites(w) => trigger[Root(w)] = Version(w).trigger
         /\ saving[w] = "flow" => flow[Root(w)] = "partial"

(* What is copied over the approved skill has been loaded, and stays.      *)
PromotesLoaded == Saves("promote") => loading["promote"] = "after"

(* And half a skill that was read is still what the disk holds.            *)
HalfRead ==
  ~disturbed =>
    \A r \in Readers :
      loading[r] \in {"local trigger", "repo trigger"}
        => found[r].flow = flow[RootRead(r)]

(* Nobody but a promotion or a deletion touches the approved skill.        *)
Untouched == flow["repo"] = "approved" /\ deleting = "before" /\ saving["promote"] = "before"

ApprovedKept ==
  deleting = "before" /\ saving["promote"] = "before" =>
    /\ flow["repo"] \in {"approved", "absent"} /\ trigger["repo"] = flow["repo"]

SkillIInv ==
  /\ SkillTypeOK /\ Exclusive /\ DiskWhole /\ PromotesLoaded /\ HalfRead
  /\ SkillsAreWhole /\ ApprovedKept /\ ApprovedNeverHidden

Stages == {"before", "dir", "trigger", "flow", "after"}

LEMMA Names ==
  /\ \A w \in Writers : Root(w) \in Roots
  /\ \A w \in Captures : Root(w) = "local" /\ w # "promote"
  /\ Root("promote") = "repo"
  /\ "promote" \in Writers /\ "promote" \in Readers
BY SkillAssumption DEF Root, Roots, Writers, Readers

LEMMA VersionType ==
  ASSUME SkillTypeOK, NEW w \in Writers
  PROVE  /\ Version(w).flow \in Content
         /\ Version(w).trigger \in Content
<1>1. w = "promote" \/ w \in Captures
  BY DEF Writers
<1>2. found["promote"] \in [flow : Content, trigger : Content]
  BY Names DEF SkillTypeOK
<1> QED
  BY <1>1, <1>2 DEF Version, Content, Versions

(* A writer takes a step, the others stay where they are. *)
LEMMA OthersWait ==
  ASSUME SkillTypeOK, NEW w \in Writers, NEW place \in Stages,
         SaveTo(w, place)
  PROVE  /\ saving' \in [Writers -> Stages] /\ saving'[w] = place
         /\ \A v \in Writers \ {w} : saving'[v] = saving[v]
BY DEF SkillTypeOK, SaveTo, Stages

(* A reader takes a step: it only looks. *)
LEMMA ReaderSteps ==
  ASSUME SkillIInv, NEW r \in Readers,
         UNCHANGED <<directories, saving, deleting>>,
         NEW place \in Roots \cup {"local trigger", "repo trigger", "after"},
         LoadAt(r, place),
         NEW f \in [flow : Content, trigger : Content],
         found' = [found EXCEPT ![r] = f],
         disturbed' \in BOOLEAN, ~disturbed' => ~disturbed /\ ~Busy,
         loading[r] # "after",
         ~disturbed' /\ place \in {"local trigger", "repo trigger"}
           => f.flow = flow[RootRead(r)'],
         ~disturbed' /\ place = "after" => f.flow = f.trigger,
         place = "after" => f # Nothing \/ ~Untouched
  PROVE  SkillIInv'
<1>1. UNCHANGED <<made, trigger, flow, saving, deleting>>
  BY DEF directories
<1>2. /\ loading' = [loading EXCEPT ![r] = place] /\ loading'[r] = place /\ found'[r] = f
      /\ \A s \in Readers \ {r} : loading'[s] = loading[s] /\ found'[s] = found[s]
      /\ loading' \in [Readers ->
                         Roots \cup {"before", "local trigger", "repo trigger", "after"}]
      /\ found' \in [Readers -> [flow : Content, trigger : Content]]
  BY DEF SkillIInv, SkillTypeOK, LoadAt
<1>3. SkillTypeOK'
  BY <1>1, <1>2 DEF SkillIInv, SkillTypeOK
<1>4. \A w \in Writers : Saves(w)' <=> Saves(w)
  BY <1>1 DEF Saves
<1>5. Exclusive'
  <2>1. Deletes' <=> Deletes
    BY <1>1 DEF Deletes
  <2>2. Busy' <=> Busy
    BY <1>4, <2>1 DEF Busy
  <2> QED
    BY <1>4, <2>1, <2>2 DEF SkillIInv, Exclusive
<1>6. ~Busy => \A w \in Writers : ~Rewrites(w)
  BY DEF Busy, Saves, Rewrites
<1>7. DiskWhole'
  <2> SUFFICES ASSUME ~disturbed' PROVE DiskWhole'
    BY DEF DiskWhole
  <2>1. \A w \in Writers : ~Rewrites(w)' /\ ~Rewrites(w)
    BY <1>1, <1>6 DEF Rewrites
  <2>2. \A root \in Roots : deleting # root => flow[root] = trigger[root]
    BY <2>1 DEF SkillIInv, DiskWhole
  <2> QED
    BY <1>1, <2>1, <2>2 DEF DiskWhole, Rewrites
<1>8. PromotesLoaded'
  <2>1. Saves("promote") => "promote" # r
    BY DEF SkillIInv, PromotesLoaded
  <2> QED
    BY <1>2, <1>4, <2>1, Names DEF SkillIInv, PromotesLoaded
<1>9. HalfRead'
  <2> SUFFICES ASSUME ~disturbed', NEW s \in Readers,
                      loading'[s] \in {"local trigger", "repo trigger"}
               PROVE  found'[s].flow = flow'[RootRead(s)']
    BY DEF HalfRead
  <2>1. CASE s = r
    BY <1>1, <1>2, <2>1
  <2>2. CASE s # r
    <3>1. /\ loading'[s] = loading[s] /\ found'[s] = found[s]
          /\ RootRead(s)' = RootRead(s)
      BY <1>2, <2>2 DEF RootRead
    <3> QED
      BY <1>1, <3>1 DEF SkillIInv, HalfRead
  <2> QED
    BY <2>1, <2>2
<1>10. SkillsAreWhole'
  BY <1>2 DEF SkillIInv, SkillsAreWhole
<1>11. ApprovedKept'
  BY <1>1 DEF SkillIInv, ApprovedKept
<1>12. ApprovedNeverHidden'
  BY <1>1, <1>2 DEF SkillIInv, ApprovedNeverHidden, Untouched
<1> QED
  BY <1>3, <1>5, <1>7, <1>8, <1>9, <1>10, <1>11, <1>12 DEF SkillIInv

LEMMA LoadInv ==
  ASSUME SkillIInv, NEW r \in Readers,
         StartLoad(r) \/ Load(r)
  PROVE  SkillIInv'
<1> DEFINE R == RootRead(r)
<1>0. /\ SkillTypeOK /\ found[r] \in [flow : Content, trigger : Content]
      /\ found = [found EXCEPT ![r] = found[r]]
      /\ R \in Roots /\ flow[R] \in Content /\ trigger[R] \in Content
      /\ Nothing \in [flow : Content, trigger : Content]
      /\ disturbed \in BOOLEAN
  BY DEF SkillIInv, SkillTypeOK, RootRead, Roots, Nothing,
         Content
<1>1. CASE StartLoad(r)
  <2>1. /\ loading[r] = "before" /\ LoadAt(r, "local")
        /\ disturbed' = (disturbed \/ Busy)
        /\ UNCHANGED <<directories, saving, deleting>> /\ found' = found
    BY <1>1 DEF StartLoad
  <2>2. /\ disturbed' \in BOOLEAN /\ (~disturbed' => ~disturbed /\ ~Busy)
        /\ found' = [found EXCEPT ![r] = found[r]] /\ loading[r] # "after"
    BY <1>0, <2>1
  <2>3. "local" \in Roots \cup {"local trigger", "repo trigger", "after"}
    BY DEF Roots
  <2> QED
    BY <1>0, <2>1, <2>2, <2>3, ReaderSteps
<1>2. ASSUME Load(r)
      PROVE  loading[r] \in Roots \cup {"local trigger", "repo trigger"} /\ ~disturbed
               => ~Busy
  <2>1. Loads(r)
    BY <1>2
       DEF Load, ReadFlow, ReadTrigger, FallBack,
           Unreadable, Roots, Loads
  <2> QED
    BY <2>1 DEF SkillIInv, Exclusive
<1>3. ~disturbed /\ ~Busy => flow[R] = trigger[R]
  <2>1. ~Busy => deleting # R /\ \A w \in Writers : ~Rewrites(w)
    BY <1>0 DEF Busy, Deletes, Saves, Rewrites
  <2> QED
    BY <1>0, <2>1 DEF SkillIInv, DiskWhole
<1>4. CASE ReadFlow(r)
  <2> DEFINE place == IF loading[r] = "local" THEN "local trigger" ELSE "repo trigger"
             f == [found[r] EXCEPT !.flow = flow[R]]
  <2>1. /\ loading[r] \in Roots /\ LoadAt(r, place)
        /\ found' = [found EXCEPT ![r] = f]
        /\ UNCHANGED <<directories, saving, deleting>> /\ disturbed' = disturbed
    BY <1>4 DEF ReadFlow
  <2>2. f \in [flow : Content, trigger : Content] /\ f.flow = flow[R]
    BY <1>0
  <2>3. RootRead(r)' = R
    BY <2>1, <1>0
       DEF RootRead, LoadAt, SkillIInv, SkillTypeOK, Roots
  <2>4. loading[r] # "after" /\ place \in {"local trigger", "repo trigger"}
    BY <2>1 DEF Roots
  <2> HIDE DEF f, R, place
  <2> QED
    BY <1>0, <1>2, <1>4, <2>1, <2>2, <2>3, <2>4, ReaderSteps DEF Load
<1>5. CASE ReadTrigger(r)
  <2> DEFINE f == [found[r] EXCEPT !.trigger = trigger[R]]
  <2>1. /\ loading[r] \in {"local trigger", "repo trigger"} /\ trigger[R] # "absent"
        /\ LoadAt(r, "after") /\ found' = [found EXCEPT ![r] = f]
        /\ UNCHANGED <<directories, saving, deleting>> /\ disturbed' = disturbed
    BY <1>5 DEF ReadTrigger, Loaded
  <2>2. /\ f \in [flow : Content, trigger : Content]
        /\ f.trigger = trigger[R] /\ f.flow = found[r].flow
    BY <1>0
  <2>3. f # Nothing
    BY <2>1, <2>2 DEF Nothing
  <2>4. ~disturbed => found[r].flow = flow[R]
    BY <2>1 DEF SkillIInv, HalfRead
  <2>5. ~disturbed => f.flow = f.trigger /\ ~Busy
    BY <1>2, <1>3, <1>5, <2>1, <2>2, <2>4 DEF Load
  <2>6. disturbed' \in BOOLEAN /\ loading[r] # "after"
    BY <1>0, <2>1
  <2> HIDE DEF f, R
  <2> QED
    BY <2>1, <2>2, <2>3, <2>5, <2>6, ReaderSteps
<1>6. CASE FallBack(r)
  <2>1. /\ Unreadable(r) /\ UNCHANGED <<directories, saving, deleting, disturbed>>
        /\ found' = [found EXCEPT ![r] = Nothing]
        /\ IF R = "local" THEN LoadAt(r, "repo") ELSE LoadAt(r, "after")
    BY <1>6 DEF FallBack, Loaded
  <2>2. /\ loading[r] \in Roots \cup {"local trigger", "repo trigger"}
        /\ loading[r] # "after"
    BY <2>1 DEF Unreadable, Roots
  <2>3. Nothing.flow = Nothing.trigger
    BY DEF Nothing
  <2>4. ~disturbed => ~Busy
    BY <1>2, <1>6, <2>2 DEF Load
  <2>5. CASE R = "local"
    <3>1. /\ disturbed' \in BOOLEAN
          /\ "repo" \in Roots \cup {"local trigger", "repo trigger", "after"}
          /\ LoadAt(r, "repo") /\ UNCHANGED <<directories, saving, deleting>>
          /\ found' = [found EXCEPT ![r] = Nothing]
          /\ ~disturbed' => ~disturbed /\ ~Busy
      BY <1>0, <2>1, <2>4, <2>5 DEF Roots
    <3> QED
      BY <1>0, <2>2, <2>3, <3>1, ReaderSteps
  <2>6. CASE R = "repo"
    <3>1. ~Untouched
      BY <2>1, <2>6
         DEF Unreadable, SkillIInv, ApprovedKept, Versions, Untouched
    <3> QED
      BY <1>0, <2>1, <2>2, <2>3, <2>4, <2>6, <3>1, ReaderSteps
  <2> QED
    BY <1>0, <2>5, <2>6 DEF Roots
<1> QED
  BY <1>1, <1>4, <1>5, <1>6 DEF Load

(* What a writer does to its own root. *)
LEMMA SaveInv ==
  ASSUME SkillIInv, NEW w \in Writers,
         Save(w) \/ SaveFails(w)
  PROVE  SkillIInv'
<1> DEFINE R == Root(w)
<1>0. /\ SkillTypeOK /\ R \in Roots
      /\ Version(w).flow \in Content
      /\ Version(w).trigger \in Content
      /\ saving[w] \in Stages /\ disturbed \in BOOLEAN
  BY Names, VersionType DEF SkillIInv, SkillTypeOK, Stages
<1>1. /\ UNCHANGED <<deleting, loading, found>>
      /\ Version(w)' = Version(w)
      /\ \A r \in Readers : /\ RootRead(r)' = RootRead(r)
                            /\ Loads(r)' <=> Loads(r)
      /\ Deletes' <=> Deletes
  BY DEF Save, MakeDir, WriteTrigger, OpenFlow, WriteFlow,
         SaveFails, readers, Version, RootRead, Loads,
         Deletes
<1>2. \A v \in Writers : Version(v)' = Version(v)
  BY <1>1 DEF Version
<1>3. /\ saving[w] # "after" /\ \E place \in Stages : SaveTo(w, place)
      /\ disturbed' \in BOOLEAN /\ (disturbed => disturbed')
  BY <1>0
     DEF Save, MakeDir, WriteTrigger, OpenFlow, WriteFlow,
         SaveFails, Stages
<1>4. /\ saving' \in [Writers -> Stages]
      /\ \A v \in Writers \ {w} : /\ saving'[v] = saving[v]
                                  /\ Saves(v)' <=> Saves(v)
      /\ \A v \in Writers \ {w} : Rewrites(v)' <=> Rewrites(v)
  BY <1>0, <1>3, OthersWait DEF Saves, Rewrites
<1>5. ~disturbed' /\ saving[w] # "before"
        => /\ \A v \in Writers \ {w} : ~Saves(v)
           /\ ~Deletes /\ \A r \in Readers : ~Loads(r)
  BY <1>0, <1>3 DEF SkillIInv, Exclusive, Saves, Busy
<1>6. ~disturbed' /\ saving[w] = "before" /\ saving'[w] = "dir"
        => ~Busy /\ \A r \in Readers : ~Loads(r)
  <2>1. ~disturbed' /\ saving[w] = "before" /\ saving'[w] = "dir" => MakeDir(w)
    BY <1>0, OthersWait
       DEF Save, WriteTrigger, OpenFlow, WriteFlow,
           SaveFails, Stages
  <2> QED
    BY <2>1 DEF MakeDir
<1>7. PromotesLoaded'
  <2>1. Saves("promote") => loading["promote"] = "after"
    BY DEF SkillIInv, PromotesLoaded
  <2>2. CASE w # "promote"
    BY <1>1, <1>4, <2>1, <2>2, Names DEF PromotesLoaded
  <2>3. CASE w = "promote" /\ saving[w] = "before"
    <3>1. MakeDir(w) \/ SaveFails(w)
      BY <2>3 DEF Save, WriteTrigger, OpenFlow, WriteFlow
    <3> QED
      BY <1>1, <2>3, <3>1 DEF MakeDir, SaveFails, PromotesLoaded
  <2>4. CASE w = "promote" /\ saving[w] # "before"
    BY <1>1, <1>3, <2>1, <2>4 DEF PromotesLoaded, Saves
  <2> QED
    BY <2>2, <2>3, <2>4
<1>8. /\ \A root \in Roots \ {R} :
           flow'[root] = flow[root] /\ trigger'[root] = trigger[root]
      /\ trigger' \in [Roots -> Content]
      /\ flow' \in [Roots -> Content]
      /\ made' \subseteq Roots
  <2>1. CASE MakeDir(w) \/ SaveFails(w)
    BY <1>0, <2>1 DEF MakeDir, SaveFails, directories, SkillTypeOK
  <2>2. CASE WriteTrigger(w)
    BY <1>0, <2>2 DEF WriteTrigger, SkillTypeOK
  <2>3. CASE OpenFlow(w)
    BY <1>0, <2>3 DEF OpenFlow, SkillTypeOK, Content
  <2>4. CASE WriteFlow(w)
    <3>1. PICK text \in {"absent", "partial", Version(w).flow} :
            flow' = [flow EXCEPT ![R] = text]
      BY <2>4 DEF WriteFlow
    <3>2. text \in Content
      BY <1>0, <3>1 DEF Content
    <3> QED
      BY <1>0, <2>4, <3>1, <3>2 DEF WriteFlow, SkillTypeOK
  <2> QED
    BY <2>1, <2>2, <2>3, <2>4 DEF Save
<1>9. SkillTypeOK'
  BY <1>1, <1>3, <1>4, <1>8 DEF SkillIInv, SkillTypeOK, Stages
<1>10. Exclusive'
  <2> SUFFICES ASSUME ~disturbed' PROVE Exclusive'
    BY DEF Exclusive
  <2>1. CASE saving[w] # "before"
    BY <1>1, <1>4, <1>5, <2>1 DEF Exclusive, Busy
  <2>2. CASE saving[w] = "before" /\ saving'[w] = "dir"
    BY <1>1, <1>4, <1>6, <2>2 DEF Exclusive, Busy
  <2>3. CASE saving[w] = "before" /\ saving'[w] # "dir"
    <3>1. ~Saves(w)'
      BY <1>0, <2>3, OthersWait
         DEF Save, MakeDir, WriteTrigger, OpenFlow,
             WriteFlow, SaveFails, Saves, Stages
    <3> QED
      BY <1>1, <1>3, <1>4, <3>1 DEF SkillIInv, Exclusive, Busy
  <2> QED
    BY <2>1, <2>2, <2>3
<1>11. ~disturbed' => \A v \in Writers \ {w} : ~Rewrites(v) \/ saving[w] = "before"
  BY <1>5 DEF Saves, Rewrites
<1>12. DiskWhole'
  <2> SUFFICES ASSUME ~disturbed'
               PROVE  /\ \A root \in Roots :
                           (/\ deleting # root
                            /\ \A v \in Writers : Rewrites(v)' => Root(v) # root)
                             => flow'[root] = trigger'[root]
                      /\ \A v \in Writers :
                           /\ Rewrites(v)'
                                => trigger'[Root(v)] = Version(v).trigger
                           /\ saving'[v] = "flow" => flow'[Root(v)] = "partial"
    BY <1>1, <1>2 DEF DiskWhole
  <2>0. /\ \A root \in Roots :
             (/\ deleting # root
              /\ \A v \in Writers : Rewrites(v) => Root(v) # root)
               => flow[root] = trigger[root]
        /\ \A v \in Writers :
             /\ Rewrites(v) => trigger[Root(v)] = Version(v).trigger
             /\ saving[v] = "flow" => flow[Root(v)] = "partial"
    BY <1>3 DEF SkillIInv, DiskWhole
  <2>1. CASE MakeDir(w) \/ SaveFails(w)
    <3>1. UNCHANGED <<trigger, flow>>
      BY <2>1 DEF MakeDir, SaveFails, directories
    <3>2. ~Rewrites(w) /\ ~Rewrites(w)' /\ saving'[w] # "flow"
      BY <1>0, <2>1, OthersWait DEF MakeDir, SaveFails, Rewrites, Stages
    <3> QED
      BY <1>4, <2>0, <3>1, <3>2
  <2>2. CASE WriteTrigger(w)
    <3>1. /\ trigger'[R] = Version(w).trigger /\ UNCHANGED flow
          /\ saving'[w] = "trigger" /\ saving[w] = "dir"
      BY <1>0, <2>2, OthersWait DEF WriteTrigger, SkillTypeOK, Stages
    <3>2. \A v \in Writers \ {w} : ~Rewrites(v)' /\ saving'[v] # "flow" /\ ~Rewrites(v)
      BY <1>4, <1>11, <3>1 DEF Rewrites
    <3>3. Rewrites(w)' /\ ~Rewrites(w)
      BY <3>1 DEF Rewrites
    <3> QED
      BY <1>8, <2>0, <3>1, <3>2, <3>3
  <2>3. CASE OpenFlow(w)
    <3>1. /\ flow'[R] = "partial" /\ UNCHANGED trigger
          /\ saving'[w] = "flow" /\ saving[w] = "trigger"
      BY <1>0, <2>3, OthersWait DEF OpenFlow, SkillTypeOK, Stages
    <3>2. \A v \in Writers \ {w} : ~Rewrites(v)' /\ saving'[v] # "flow" /\ ~Rewrites(v)
      BY <1>4, <1>11, <3>1 DEF Rewrites
    <3>3. Rewrites(w)' /\ Rewrites(w)
      BY <3>1 DEF Rewrites
    <3> QED
      BY <1>8, <2>0, <3>1, <3>2, <3>3
  <2>4. CASE WriteFlow(w)
    <3>1. /\ UNCHANGED trigger /\ saving'[w] = "after" /\ saving[w] = "flow"
      BY <1>0, <2>4, OthersWait DEF WriteFlow, SkillTypeOK, Stages
    <3>2. flow[R] = "partial" /\ trigger[R] = Version(w).trigger
      BY <2>0, <3>1 DEF Rewrites
    <3>3. flow'[R] = Version(w).flow
      BY <1>0, <2>4, <3>2 DEF WriteFlow, SkillTypeOK
    <3>4. Version(w).flow = Version(w).trigger
      <4>1. CASE w = "promote"
        <5>1. loading[w] = "after" /\ ~disturbed
          BY <1>3, <3>1, <4>1 DEF SkillIInv, PromotesLoaded, Saves
        <5> QED
          BY <4>1, <5>1, Names DEF SkillIInv, SkillsAreWhole, Version
      <4>2. CASE w # "promote"
        BY <4>2 DEF Version
      <4> QED
        BY <4>1, <4>2
    <3>5. \A v \in Writers \ {w} : ~Rewrites(v)' /\ saving'[v] # "flow" /\ ~Rewrites(v)
      BY <1>4, <1>11, <3>1 DEF Rewrites
    <3>6. ~Rewrites(w)' /\ Rewrites(w)
      BY <3>1 DEF Rewrites
    <3> QED
      BY <1>8, <2>0, <3>1, <3>2, <3>3, <3>4, <3>5, <3>6
  <2> QED
    BY <2>1, <2>2, <2>3, <2>4 DEF Save
<1>13. HalfRead'
  <2> SUFFICES ASSUME ~disturbed', NEW r \in Readers,
                      loading[r] \in {"local trigger", "repo trigger"}
               PROVE  found[r].flow = flow'[RootRead(r)]
    BY <1>1 DEF HalfRead
  <2>1. Loads(r)
    BY DEF Loads
  <2>2. saving[w] = "before" /\ saving'[w] # "dir"
    BY <1>5, <1>6, <2>1
  <2>3. SaveFails(w)
    BY <1>0, <2>2, OthersWait
       DEF Save, MakeDir, WriteTrigger, OpenFlow,
           WriteFlow, Stages
  <2> QED
    BY <1>3, <2>3 DEF SaveFails, directories, SkillIInv, HalfRead
<1>14. SkillsAreWhole'
  BY <1>1, <1>3 DEF SkillIInv, SkillsAreWhole
<1>15. ASSUME deleting = "before", saving'["promote"] = "before"
       PROVE  /\ saving["promote"] = "before" /\ w # "promote"
              /\ flow'["repo"] = flow["repo"] /\ trigger'["repo"] = trigger["repo"]
  <2>1. \A place : SaveTo(w, place) => saving'[w] = place
    BY <1>0 DEF SaveTo, SkillTypeOK
  <2>2. saving'[w] # "before"
    BY <2>1
       DEF Save, MakeDir, WriteTrigger, OpenFlow,
           WriteFlow, SaveFails
  <2>3. w # "promote" /\ R = "local"
    BY <1>15, <2>2, Names DEF Writers
  <2> QED
    BY <1>4, <1>8, <1>15, <2>3, Names DEF Roots
<1>16. ApprovedKept' /\ ApprovedNeverHidden'
  BY <1>1, <1>15 DEF SkillIInv, ApprovedKept, ApprovedNeverHidden
<1> QED
  BY <1>7, <1>9, <1>10, <1>12, <1>13, <1>14, <1>16 DEF SkillIInv

(* A deletion empties one root after the other. *)
LEMMA DeleteInv ==
  ASSUME SkillIInv, DeleteSkill
  PROVE  SkillIInv'
<1>1. /\ UNCHANGED <<saving, loading, found>> /\ deleting' # "before"
      /\ \A w \in Writers : /\ Version(w)' = Version(w)
                            /\ Saves(w)' <=> Saves(w)
                            /\ Rewrites(w)' <=> Rewrites(w)
      /\ \A r \in Readers : /\ RootRead(r)' = RootRead(r)
                            /\ Loads(r)' <=> Loads(r)
      /\ disturbed' \in BOOLEAN /\ (disturbed => disturbed')
  BY DEF DeleteSkill, StartDelete, Unlink, RemoveDir, readers,
         Version, Saves, Rewrites, RootRead, Loads, SkillIInv,
         SkillTypeOK, Deletes, Roots, AfterRoot
<1>2. ~disturbed' => \A w \in Writers : ~Saves(w) /\ ~Rewrites(w)
  <2>1. CASE StartDelete
    BY <2>1 DEF StartDelete, Busy, Saves, Rewrites
  <2>2. CASE Unlink \/ RemoveDir
    BY <2>2
       DEF Unlink, RemoveDir, SkillIInv, Exclusive, Saves, Rewrites
  <2> QED
    BY <2>1, <2>2 DEF DeleteSkill
<1>3. ~disturbed' => \A r \in Readers : ~Loads(r)
  <2>1. CASE StartDelete
    BY <2>1 DEF StartDelete
  <2>2. CASE Unlink \/ RemoveDir
    BY <2>2 DEF Unlink, RemoveDir, SkillIInv, Exclusive, Busy
  <2> QED
    BY <2>1, <2>2 DEF DeleteSkill
<1>4. SkillTypeOK'
  <2>1. "absent" \in Content
    BY DEF Content
  <2>2. /\ trigger' \in [Roots -> Content]
        /\ flow' \in [Roots -> Content] /\ made' \subseteq Roots
        /\ deleting' \in Roots \cup {"before", "after"}
    <3>1. CASE StartDelete
      BY <3>1 DEF SkillIInv, SkillTypeOK, StartDelete, directories, Roots
    <3>2. CASE Unlink
      BY <2>1, <3>2 DEF SkillIInv, SkillTypeOK, Unlink, Deletes
    <3>3. CASE RemoveDir
      BY <3>3
         DEF SkillIInv, SkillTypeOK, RemoveDir, AfterRoot, Roots
    <3> QED
      BY <3>1, <3>2, <3>3 DEF DeleteSkill
  <2> QED
    BY <1>1, <2>2 DEF SkillIInv, SkillTypeOK
<1>5. Exclusive'
  BY <1>1, <1>2, <1>3 DEF Exclusive
<1>6. /\ PromotesLoaded' /\ SkillsAreWhole'
      /\ ApprovedKept' /\ ApprovedNeverHidden'
  BY <1>1, Names
     DEF SkillIInv, PromotesLoaded, SkillsAreWhole, ApprovedKept,
         ApprovedNeverHidden
<1>7. HalfRead'
  BY <1>1, <1>3 DEF HalfRead, Loads
<1>8. DiskWhole'
  <2> SUFFICES ASSUME ~disturbed', NEW root \in Roots, deleting' # root
               PROVE  flow'[root] = trigger'[root]
    BY <1>1, <1>2 DEF DiskWhole, Rewrites
  <2>1. deleting # root => flow[root] = trigger[root]
    BY <1>1, <1>2 DEF SkillIInv, DiskWhole
  <2>2. CASE StartDelete
    BY <2>1, <2>2 DEF StartDelete, directories, Roots
  <2>3. CASE Unlink
    <3>1. deleting # root /\ flow'[root] = flow[root] /\ trigger'[root] = trigger[root]
      BY <2>3 DEF Unlink, SkillIInv, SkillTypeOK
    <3> QED
      BY <2>1, <3>1
  <2>4. CASE RemoveDir
    BY <1>2, <2>1, <2>4 DEF RemoveDir
  <2> QED
    BY <2>2, <2>3, <2>4 DEF DeleteSkill
<1> QED
  BY <1>4, <1>5, <1>6, <1>7, <1>8 DEF SkillIInv

LEMMA SkillInitIInv ==
  ASSUME SkillInit
  PROVE  SkillIInv
<1>1. SkillTypeOK
  BY DEF SkillInit, SkillTypeOK, Nothing, Content, Versions
<1>2. /\ \A w \in Writers : ~Saves(w) /\ ~Rewrites(w)
      /\ \A r \in Readers : loading[r] = "before"
      /\ ~Deletes /\ deleting = "before" /\ flow = trigger
      /\ "promote" \in Writers
  BY Names DEF SkillInit, Saves, Rewrites, Deletes, Roots
<1>3. Exclusive /\ DiskWhole /\ PromotesLoaded /\ HalfRead /\ SkillsAreWhole
  BY <1>2
     DEF Exclusive, DiskWhole, PromotesLoaded, HalfRead, SkillsAreWhole, Busy,
         Rewrites, Saves
<1>4. ApprovedKept /\ ApprovedNeverHidden
  BY <1>2 DEF SkillInit, ApprovedKept, ApprovedNeverHidden, Roots
<1> QED
  BY <1>1, <1>3, <1>4 DEF SkillIInv

LEMMA SkillNextIInv ==
  ASSUME SkillIInv, [SkillNext]_store
  PROVE  SkillIInv'
<1>1. CASE UNCHANGED store
  <2>1. UNCHANGED <<made, trigger, flow, saving, deleting, loading, found, disturbed>>
    BY <1>1 DEF store, directories, readers
  <2>2. /\ SkillTypeOK' /\ PromotesLoaded' /\ SkillsAreWhole'
        /\ ApprovedKept' /\ ApprovedNeverHidden'
    BY <2>1
       DEF SkillIInv, SkillTypeOK, PromotesLoaded, SkillsAreWhole, ApprovedKept,
           ApprovedNeverHidden, Saves
  <2>3. Exclusive'
    BY <2>1
       DEF SkillIInv, Exclusive, Saves, Deletes, Busy, Loads
  <2>4. DiskWhole' /\ HalfRead'
    BY <2>1 DEF SkillIInv, DiskWhole, HalfRead, Rewrites, Version, RootRead
  <2> QED
    BY <2>2, <2>3, <2>4 DEF SkillIInv
<1> QED
  BY <1>1, SaveInv, DeleteInv, LoadInv DEF SkillNext

LEMMA AlwaysSkillIInv == SkillSpec => []SkillIInv
BY SkillInitIInv, SkillNextIInv, PTL DEF SkillSpec

(* SkillStore: types. *)
THEOREM SkillTypeCorrect == SkillSpec => []SkillTypeOK
<1>1. SkillIInv => SkillTypeOK
  BY DEF SkillIInv
<1> QED
  BY <1>1, AlwaysSkillIInv, PTL

(* SkillStore: whatever captures, promotions, deletions and loads there    *)
(* are, and wherever a save fails, a skill that is loaded has its text and *)
(* its graph from one run unless something overlapped or was left half     *)
(* done.                                                                   *)
THEOREM WholeSkills == SkillSpec => []SkillsAreWhole
<1>1. SkillIInv => SkillsAreWhole
  BY DEF SkillIInv
<1> QED
  BY <1>1, AlwaysSkillIInv, PTL

(* SkillStore: captures, their failures and their overlaps never hide an   *)
(* approved skill from those who load it.                                  *)
THEOREM ApprovedIsFound == SkillSpec => []ApprovedNeverHidden
<1>1. SkillIInv => ApprovedNeverHidden
  BY DEF SkillIInv
<1> QED
  BY <1>1, AlwaysSkillIInv, PTL
============================================================================
