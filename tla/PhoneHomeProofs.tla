--------------------------- MODULE PhoneHomeProofs ---------------------------
(***************************************************************************)
(* The phone-home daemon and the server it talks to use their message      *)
(* processors as MessageProcessor specifies: what is proved of one message *)
(* processor on its own holds of both when they are composed.              *)
(***************************************************************************)
EXTENDS PhoneHome, TLAPS

(* The proofs about a message processor, once for each end.                *)
LocalP == INSTANCE MessageProcessorProofs WITH
  Host <- Servers, Worker <- {Self}, Ordered <- SubjectOrders,
  hasCmdProcessor <- locProcessor,
  SubjectReports <- locReports, IncomingAppCommands <- locIncoming,
  OutgoingAppCommands <- locOutgoing, totalReports <- locTotal, call <- locCall

RemoteP == INSTANCE MessageProcessorProofs WITH
  Host <- {Subject}, Worker <- Thread, Ordered <- ServerOrders,
  hasCmdProcessor <- srvProcessor,
  SubjectReports <- srvReports, IncomingAppCommands <- srvIncoming,
  OutgoingAppCommands <- srvOutgoing, totalReports <- srvTotal, call <- srvCall

(* Their assumptions on the constants hold.                                *)
LEMMA LocalConstants == LocalP!ConstantsAssumption /\ LocalP!LimitAssumption
  BY PhoneHomeAssumption DEF LocalP!ConstantsAssumption, LocalP!LimitAssumption

LEMMA RemoteConstants == RemoteP!ConstantsAssumption /\ RemoteP!LimitAssumption
  BY PhoneHomeAssumption DEF RemoteP!ConstantsAssumption, RemoteP!LimitAssumption

(* Both instances of MessageProcessor at an end are the same.              *)
LEMMA LocalTypeSame == (Local!TypeOK <=> LocalP!TypeOK) /\ (Local!TypeOK' <=> LocalP!TypeOK')
  BY DEF Local!TypeOK, LocalP!TypeOK, Local!Time, LocalP!Time, Local!Report, LocalP!Report,
         Local!Incoming, LocalP!Incoming, Local!CmdOrNone, LocalP!CmdOrNone,
         Local!Call, LocalP!Call, Local!Reply, LocalP!Reply

LEMMA RemoteTypeSame == (Remote!TypeOK <=> RemoteP!TypeOK) /\ (Remote!TypeOK' <=> RemoteP!TypeOK')
  BY DEF Remote!TypeOK, RemoteP!TypeOK, Remote!Time, RemoteP!Time, Remote!Report, RemoteP!Report,
         Remote!Incoming, RemoteP!Incoming, Remote!CmdOrNone, RemoteP!CmdOrNone,
         Remote!Call, RemoteP!Call, Remote!Reply, RemoteP!Reply

LEMMA LocalNextSame == [Local!Next]_(Local!vars) <=> [LocalP!Next]_(LocalP!vars)
  BY DEF Local!Next, LocalP!Next, Local!vars, LocalP!vars, Local!mpvars, LocalP!mpvars,
         Local!Tick, LocalP!Tick, Local!CanTick, LocalP!CanTick,
         Local!SetOutgoingCommand, LocalP!SetOutgoingCommand,
         Local!StoreReport, LocalP!StoreReport, Local!WithReport, LocalP!WithReport,
         Local!ExpiredSubjects, LocalP!ExpiredSubjects, Local!Without, LocalP!Without,
         Local!OutgoingFor, LocalP!OutgoingFor, Local!CmdOrNone, LocalP!CmdOrNone,
         Local!WorkerStep, LocalP!WorkerStep, Local!Answer, LocalP!Answer,
         Local!SkipCommandRequest, LocalP!SkipCommandRequest,
         Local!ReadPrevCmd, LocalP!ReadPrevCmd, Local!IsRetrieval, LocalP!IsRetrieval,
         Local!RetrievePrevResult, LocalP!RetrievePrevResult,
         Local!RefuseRecursiveCommand, LocalP!RefuseRecursiveCommand,
         Local!StartCommand, LocalP!StartCommand, Local!FinishCommand, LocalP!FinishCommand,
         Local!Return, LocalP!Return, Local!Idle, LocalP!Idle

LEMMA RemoteNextSame == [Remote!Next]_(Remote!vars) <=> [RemoteP!Next]_(RemoteP!vars)
  BY DEF Remote!Next, RemoteP!Next, Remote!vars, RemoteP!vars, Remote!mpvars, RemoteP!mpvars,
         Remote!Tick, RemoteP!Tick, Remote!CanTick, RemoteP!CanTick,
         Remote!SetOutgoingCommand, RemoteP!SetOutgoingCommand,
         Remote!StoreReport, RemoteP!StoreReport, Remote!WithReport, RemoteP!WithReport,
         Remote!ExpiredSubjects, RemoteP!ExpiredSubjects, Remote!Without, RemoteP!Without,
         Remote!OutgoingFor, RemoteP!OutgoingFor, Remote!CmdOrNone, RemoteP!CmdOrNone,
         Remote!WorkerStep, RemoteP!WorkerStep, Remote!Answer, RemoteP!Answer,
         Remote!SkipCommandRequest, RemoteP!SkipCommandRequest,
         Remote!ReadPrevCmd, RemoteP!ReadPrevCmd, Remote!IsRetrieval, RemoteP!IsRetrieval,
         Remote!RetrievePrevResult, RemoteP!RetrievePrevResult,
         Remote!RefuseRecursiveCommand, RemoteP!RefuseRecursiveCommand,
         Remote!StartCommand, RemoteP!StartCommand, Remote!FinishCommand, RemoteP!FinishCommand,
         Remote!Return, RemoteP!Return, Remote!Idle, RemoteP!Idle

-----------------------------------------------------------------------------
(* A step of one end is a step of its message processor, leaves the clock, *)
(* and the other end stutters.                                             *)
StepOfLocal ==
  /\ \/ Local!StoreReport(Self, cur, NoCmd, NoResponse)
     \/ net \in Message /\ net.kind = "answer" /\ Local!StoreReport(Self, cur, net.cmd, net.resp)
     \/ \E c \in SubjectOrders : Local!SetOutgoingCommand(Server, c)
     \/ Local!WorkerStep(Self)
  /\ UNCHANGED srvvars

StepOfRemote ==
  /\ \/ /\ net \in Message /\ net.kind = "request"
        /\ \E w \in Thread : Remote!StoreReport(w, Subject, net.cmd, net.resp)
     \/ \E c \in ServerOrders : Remote!SetOutgoingCommand(Subject, c)
     \/ \E w \in Thread : Remote!WorkerStep(w)
  /\ UNCHANGED locvars

LEMMA LocalIsStep ==
  ASSUME TypeOK, StepOfLocal
  PROVE  [Local!Next]_(Local!vars) /\ UNCHANGED <<clock, srvvars>>
<1> Self \in {Self} /\ cur \in Servers /\ Server \in Servers
  BY DEF TypeOK, Servers
<1>0. NoCmd \in Local!CmdOrNone /\ NoResponse \in Response
  BY DEF Local!CmdOrNone, Response, NoResponse
<1>1. CASE Local!StoreReport(Self, cur, NoCmd, NoResponse)
  <2>1. UNCHANGED clock
    BY <1>1 DEF Local!StoreReport
  <2>2. Local!Next
    BY <1>0, <1>1 DEF Local!Next
  <2> QED BY <2>1, <2>2 DEF StepOfLocal
<1>2. CASE net \in Message /\ net.kind = "answer" /\ Local!StoreReport(Self, cur, net.cmd, net.resp)
  <2>1. UNCHANGED clock
    BY <1>2 DEF Local!StoreReport
  <2>2. net.cmd \in Local!CmdOrNone /\ net.resp \in Response
    BY <1>2 DEF Message, Local!CmdOrNone
  <2>3. Local!Next
    BY <1>2, <2>2 DEF Local!Next
  <2> QED BY <2>1, <2>3 DEF StepOfLocal
<1>3. CASE \E c \in SubjectOrders : Local!SetOutgoingCommand(Server, c)
  <2>1. UNCHANGED clock
    BY <1>3 DEF Local!SetOutgoingCommand
  <2>2. Local!Next
    BY <1>3 DEF Local!Next
  <2> QED BY <2>1, <2>2 DEF StepOfLocal
<1>4. CASE Local!WorkerStep(Self)
  <2>1. UNCHANGED clock
    BY <1>4 DEF Local!WorkerStep, Local!SkipCommandRequest, Local!ReadPrevCmd,
                Local!RetrievePrevResult, Local!RefuseRecursiveCommand, Local!StartCommand,
                Local!FinishCommand, Local!Return
  <2>2. Local!Next
    BY <1>4 DEF Local!Next
  <2> QED BY <2>1, <2>2 DEF StepOfLocal
<1> QED BY <1>1, <1>2, <1>3, <1>4 DEF StepOfLocal

LEMMA RemoteIsStep ==
  ASSUME TypeOK, StepOfRemote
  PROVE  [Remote!Next]_(Remote!vars) /\ UNCHANGED <<clock, locvars>>
<1> Subject \in {Subject}
  OBVIOUS
<1>1. ASSUME NEW w \in Thread, net \in Message, net.kind = "request",
             Remote!StoreReport(w, Subject, net.cmd, net.resp)
      PROVE  Remote!Next /\ UNCHANGED clock
  <2>1. UNCHANGED clock
    BY <1>1 DEF Remote!StoreReport
  <2>2. net.cmd \in Remote!CmdOrNone /\ net.resp \in Response
    BY <1>1 DEF Message, Remote!CmdOrNone
  <2>3. Remote!Next
    BY <1>1, <2>2 DEF Remote!Next
  <2> QED BY <2>1, <2>3
<1>2. ASSUME NEW c \in ServerOrders, Remote!SetOutgoingCommand(Subject, c)
      PROVE  Remote!Next /\ UNCHANGED clock
  <2>1. UNCHANGED clock
    BY <1>2 DEF Remote!SetOutgoingCommand
  <2> QED BY <1>2, <2>1 DEF Remote!Next
<1>3. ASSUME NEW w \in Thread, Remote!WorkerStep(w)
      PROVE  Remote!Next /\ UNCHANGED clock
  <2>1. UNCHANGED clock
    BY <1>3 DEF Remote!WorkerStep, Remote!SkipCommandRequest, Remote!ReadPrevCmd,
                Remote!RetrievePrevResult, Remote!RefuseRecursiveCommand, Remote!StartCommand,
                Remote!FinishCommand, Remote!Return
  <2> QED BY <1>3, <2>1 DEF Remote!Next
<1> QED BY <1>1, <1>2, <1>3 DEF StepOfRemote

(* Every step of the composition is a step of one end, the passing of time *)
(* at both, or one of the daemon that concerns neither.                    *)
LEMMA StepCases ==
  ASSUME TypeOK, [Next]_vars
  PROVE  \/ StepOfLocal
         \/ StepOfRemote
         \/ Tick
         \/ UNCHANGED <<clock, locvars, srvvars>>
<1> USE DEF TypeOK
<1>1. CASE DaemonStep
  <2>1. CASE StartAndBlock \/ BeginRound \/ Return \/ EndRound \/ GiveUp
    BY <2>1 DEF StartAndBlock, BeginRound, Return, EndRound, GiveUp
  <2>2. CASE \E s \in Servers : ChooseServer(s)
    BY <2>2 DEF ChooseServer
  <2>3. CASE VisitServer
    BY <2>3 DEF VisitServer, StepOfLocal
  <2>4. CASE SendReport \/ AnswerApplied
    BY <2>4 DEF SendReport, AnswerApplied, StepOfLocal, Local!WorkerStep
  <2>5. CASE LocalStep
    BY <2>5 DEF LocalStep, StepOfLocal, Local!WorkerStep
  <2> QED BY <1>1, <2>1, <2>2, <2>3, <2>4, <2>5 DEF DaemonStep
<1>2. CASE DeliverRequest
  BY <1>2 DEF DeliverRequest, StepOfRemote
<1>3. CASE GetAnswer
  BY <1>3 DEF GetAnswer, StepOfLocal
<1>4. CASE \E w \in Thread : ServerStep(w) \/ ServerAnswers(w)
  BY <1>4 DEF ServerStep, ServerAnswers, StepOfRemote, Remote!WorkerStep
<1>5. CASE \E c \in ServerOrders : OrderAtServer(c)
  BY <1>5 DEF OrderAtServer, StepOfRemote
<1>6. CASE \E c \in SubjectOrders : OrderAtSubject(c)
  BY <1>6 DEF OrderAtSubject, StepOfLocal
<1>7. CASE Stop \/ TriggerEmergencyLockDown
  BY <1>7 DEF Stop, TriggerEmergencyLockDown
<1>8. CASE Tick
  BY <1>8
<1>9. CASE UNCHANGED vars
  BY <1>9 DEF vars
<1> QED BY <1>1, <1>2, <1>3, <1>4, <1>5, <1>6, <1>7, <1>8, <1>9 DEF Next

(* So the two ends take steps of MessageProcessor.                         *)
LEMMA StepOfBoth ==
  ASSUME TypeOK, [Next]_vars
  PROVE  [Local!Next]_(Local!vars) /\ [Remote!Next]_(Remote!vars)
<1>1. CASE StepOfLocal
  BY <1>1, LocalIsStep DEF Remote!vars, Remote!mpvars, srvvars
<1>2. CASE StepOfRemote
  BY <1>2, RemoteIsStep DEF Local!vars, Local!mpvars, locvars
<1>3. CASE Tick
  <2>1. Local!Tick /\ Remote!Tick
    BY <1>3 DEF Tick, Local!Tick, Remote!Tick, Local!mpvars, Remote!mpvars, locvars, srvvars
  <2> QED BY <2>1 DEF Local!Next, Remote!Next
<1>4. CASE UNCHANGED <<clock, locvars, srvvars>>
  BY <1>4 DEF Local!vars, Local!mpvars, locvars, Remote!vars, Remote!mpvars, srvvars
<1> QED BY <1>1, <1>2, <1>3, <1>4, StepCases

-----------------------------------------------------------------------------
(* The daemon's own variables.                                             *)
DaemonType ==
  /\ pc \in {"new", "round", "next", "pausing", "asking", "waiting", "applying", "ended"}
  /\ todo \subseteq Servers
  /\ cur \in Servers
  /\ thread \in Thread \cup {Absent}
  /\ net \in Message
  /\ runLoop \in BOOLEAN
  /\ lockdown \in BOOLEAN

(* What a finished call has for its caller becomes a message.              *)
LEMMA ReplyIsMessage ==
  ASSUME NEW reply \in [out : Command \cup {NoCmd}, cmd : Command \cup {NoCmd}, ready : BOOLEAN],
         NEW k \in {"request", "answer"}
  PROVE  [kind |-> k, cmd |-> reply.out,
          resp |-> [cmd |-> reply.cmd, ready |-> reply.ready]] \in Message
  BY DEF Message, Response

LEMMA NothingIsMessage == Nothing \in Message
  BY DEF Nothing, Message

LEMMA LocalReply ==
  ASSUME TypeOK, locCall[Self].pc = "done"
  PROVE  locCall[Self].reply \in [out : Command \cup {NoCmd}, cmd : Command \cup {NoCmd}, ready : BOOLEAN]
<1>1. locCall[Self] \in Local!Call
  BY DEF TypeOK, Local!TypeOK
<1> QED BY <1>1 DEF Local!Call, Local!Reply, Local!CmdOrNone

LEMMA RemoteReply ==
  ASSUME TypeOK, NEW w \in Thread, srvCall[w].pc = "done"
  PROVE  srvCall[w].reply \in [out : Command \cup {NoCmd}, cmd : Command \cup {NoCmd}, ready : BOOLEAN]
<1>1. srvCall[w] \in Remote!Call
  BY DEF TypeOK, Remote!TypeOK
<1> QED BY <1>1 DEF Remote!Call, Remote!Reply, Remote!CmdOrNone

LEMMA DaemonTypeStep ==
  ASSUME TypeOK, [Next]_vars
  PROVE  DaemonType'
<1>0. DaemonType
  BY DEF TypeOK, DaemonType
<1> USE DEF DaemonType
<1>1. CASE DaemonStep
  <2>1. CASE StartAndBlock \/ BeginRound \/ Return \/ EndRound
    BY <1>0, <2>1 DEF StartAndBlock, BeginRound, Return, EndRound
  <2>2. CASE GiveUp
    BY <1>0, <2>2, NothingIsMessage DEF GiveUp
  <2>3. CASE \E s \in Servers : ChooseServer(s)
    BY <1>0, <2>3 DEF ChooseServer
  <2>4. CASE VisitServer \/ AnswerApplied
    BY <1>0, <2>4 DEF VisitServer, AnswerApplied
  <2>5. CASE SendReport
    <3>1. locCall[Self].pc = "done"
      BY <2>5 DEF SendReport, Local!Return
    <3>2. net' \in Message
      BY <2>5, <3>1, LocalReply, ReplyIsMessage DEF SendReport
    <3> QED BY <1>0, <2>5, <3>2 DEF SendReport
  <2>6. CASE LocalStep
    BY <1>0, <2>6 DEF LocalStep, daemonvars
  <2> QED BY <1>1, <2>1, <2>2, <2>3, <2>4, <2>5, <2>6 DEF DaemonStep
<1>2. CASE DeliverRequest
  BY <1>0, <1>2, NothingIsMessage DEF DeliverRequest
<1>3. CASE GetAnswer
  BY <1>0, <1>3, NothingIsMessage DEF GetAnswer
<1>4. ASSUME NEW w \in Thread, ServerStep(w)
      PROVE  DaemonType'
  BY <1>0, <1>4 DEF ServerStep, daemonvars
<1>5. ASSUME NEW w \in Thread, ServerAnswers(w)
      PROVE  DaemonType'
  <2>1. srvCall[w].pc = "done"
    BY <1>5 DEF ServerAnswers, Remote!Return
  <2>2. net' \in Message
    BY <1>0, <1>5, <2>1, RemoteReply, ReplyIsMessage DEF ServerAnswers
  <2> QED BY <1>0, <1>5, <2>2 DEF ServerAnswers
<1>6. CASE \E c \in ServerOrders : OrderAtServer(c)
  BY <1>0, <1>6 DEF OrderAtServer, daemonvars
<1>7. CASE \E c \in SubjectOrders : OrderAtSubject(c)
  BY <1>0, <1>7 DEF OrderAtSubject, daemonvars
<1>8. CASE Stop \/ TriggerEmergencyLockDown
  BY <1>0, <1>8 DEF Stop, TriggerEmergencyLockDown
<1>9. CASE Tick
  BY <1>0, <1>9 DEF Tick, daemonvars
<1>10. CASE UNCHANGED vars
  BY <1>0, <1>10 DEF vars, daemonvars
<1> QED BY <1>1, <1>2, <1>3, <1>4, <1>5, <1>6, <1>7, <1>8, <1>9, <1>10 DEF Next

LEMMA TypeInit == Init => TypeOK
<1> SUFFICES ASSUME Init PROVE TypeOK
  OBVIOUS
<1>1. LocalP!Init /\ RemoteP!Init
  BY DEF Init, Local!Init, LocalP!Init, Local!Idle, LocalP!Idle,
         Remote!Init, RemoteP!Init, Remote!Idle, RemoteP!Idle
<1>2. Local!TypeOK /\ Remote!TypeOK
  BY <1>1, LocalP!TypeInitial, RemoteP!TypeInitial, LocalConstants, RemoteConstants,
     LocalTypeSame, RemoteTypeSame
<1> QED BY <1>2, NothingIsMessage DEF Init, TypeOK, Servers

(* Every step keeps the types, of both ends and of the daemon.             *)
LEMMA TypeStep ==
  ASSUME TypeOK, [Next]_vars
  PROVE  TypeOK'
<1>1. [LocalP!Next]_(LocalP!vars) /\ [RemoteP!Next]_(RemoteP!vars)
  BY StepOfBoth, LocalNextSame, RemoteNextSame
<1>2. LocalP!TypeOK /\ RemoteP!TypeOK
  BY LocalTypeSame, RemoteTypeSame DEF TypeOK
<1>3. LocalP!TypeOK'
  BY <1>1, <1>2, LocalP!TypeStep, LocalConstants
<1>4. RemoteP!TypeOK'
  BY <1>1, <1>2, RemoteP!TypeStep, RemoteConstants
<1>5. Local!TypeOK'
  BY <1>3, LocalTypeSame
<1>6. Remote!TypeOK'
  BY <1>4, RemoteTypeSame
<1> QED BY <1>5, <1>6, DaemonTypeStep DEF TypeOK, DaemonType

(* The daemon, its messages and both message processors keep their types:  *)
(* what a call returns at one end is what may be sent to the other.        *)
THEOREM PHTypeCorrect == Spec => []TypeOK
<1>1. TypeOK /\ [Next]_vars => TypeOK'
  BY TypeStep
<1> QED BY <1>1, TypeInit, PTL DEF Spec

(* The composition uses the message processor of the subject and that of   *)
(* the server as MessageProcessor specifies: every behaviour of the daemon *)
(* and the network is, at either end, one of a message processor.          *)
THEOREM ProcessorsAsSpecified == Spec => Local!Spec /\ Remote!Spec
<1>1. Init => Local!Init /\ Remote!Init
  BY DEF Init
<1>2. TypeOK /\ [Next]_vars => [Local!Next]_(Local!vars) /\ [Remote!Next]_(Remote!vars)
  BY StepOfBoth
<1> QED BY <1>1, <1>2, PHTypeCorrect, PTL DEF Spec, Local!Spec, Remote!Spec

(* What a message processor promises, at the subject.                      *)
LocalPromises ==
  /\ Local!PendingHasRunner
  /\ Local!NoOrphanedCommand
  /\ Local!HistoryCoversCommands
  /\ Local!AnswerIsAboutRequest

(* What a message processor promises, at the server.                       *)
RemotePromises ==
  /\ Remote!PendingHasRunner
  /\ Remote!NoOrphanedCommand
  /\ Remote!HistoryCoversCommands
  /\ Remote!AnswerIsAboutRequest

LEMMA LocalSpecSame == Local!Spec => LocalP!Spec
<1>1. Local!Init => LocalP!Init
  BY DEF Local!Init, LocalP!Init, Local!Idle, LocalP!Idle
<1> QED BY <1>1, LocalNextSame, PTL DEF Local!Spec, LocalP!Spec

LEMMA LocalPromisesSame ==
  /\ LocalP!PendingHasRunner => Local!PendingHasRunner
  /\ LocalP!NoOrphanedCommand => Local!NoOrphanedCommand
  /\ LocalP!HistoryCoversCommands => Local!HistoryCoversCommands
  /\ LocalP!AnswerIsAboutRequest => Local!AnswerIsAboutRequest
  BY DEF Local!PendingHasRunner, LocalP!PendingHasRunner, Local!IsPending, LocalP!IsPending,
         Local!NoOrphanedCommand, LocalP!NoOrphanedCommand,
         Local!HistoryCoversCommands, LocalP!HistoryCoversCommands, Local!LastHeard, LocalP!LastHeard,
         Local!AnswerIsAboutRequest, LocalP!AnswerIsAboutRequest

LEMMA RemoteSpecSame == Remote!Spec => RemoteP!Spec
<1>1. Remote!Init => RemoteP!Init
  BY DEF Remote!Init, RemoteP!Init, Remote!Idle, RemoteP!Idle
<1> QED BY <1>1, RemoteNextSame, PTL DEF Remote!Spec, RemoteP!Spec

LEMMA RemotePromisesSame ==
  /\ RemoteP!PendingHasRunner => Remote!PendingHasRunner
  /\ RemoteP!NoOrphanedCommand => Remote!NoOrphanedCommand
  /\ RemoteP!HistoryCoversCommands => Remote!HistoryCoversCommands
  /\ RemoteP!AnswerIsAboutRequest => Remote!AnswerIsAboutRequest
  BY DEF Remote!PendingHasRunner, RemoteP!PendingHasRunner, Remote!IsPending, RemoteP!IsPending,
         Remote!NoOrphanedCommand, RemoteP!NoOrphanedCommand,
         Remote!HistoryCoversCommands, RemoteP!HistoryCoversCommands, Remote!LastHeard, RemoteP!LastHeard,
         Remote!AnswerIsAboutRequest, RemoteP!AnswerIsAboutRequest

(* What is proved of a message processor on its own holds at both ends of  *)
(* the conversation, whatever the network loses: no memorised command is   *)
(* left pending for good or orphaned, no history is overfull or out of     *)
(* order, and every answer is about the request.                           *)
THEOREM BothEndsKeepPromises == Spec => [](LocalPromises /\ RemotePromises)
<1>1. Local!Spec => []LocalPromises
  BY LocalSpecSame, LocalPromisesSame, LocalConstants, LocalP!PendingAlwaysHasRunner,
     LocalP!NeverOrphaned, LocalP!HistoryAlwaysCovers, LocalP!AnswerAlwaysAboutRequest, PTL
     DEF LocalPromises
<1>2. Remote!Spec => []RemotePromises
  BY RemoteSpecSame, RemotePromisesSame, RemoteConstants, RemoteP!PendingAlwaysHasRunner,
     RemoteP!NeverOrphaned, RemoteP!HistoryAlwaysCovers, RemoteP!AnswerAlwaysAboutRequest, PTL
     DEF RemotePromises
<1> QED BY <1>1, <1>2, ProcessorsAsSpecified, PTL

-----------------------------------------------------------------------------
(* The daemon is the only one to use its message processor: what a call    *)
(* has read there is still so when it acts upon it.                        *)
PrevIsCurrent ==
  locCall[Self].pc = "read" => locIncoming[locCall[Self].host] = locCall[Self].prev

(* What a call of the daemon has read and still holds.                     *)
LEMMA ReadShape ==
  ASSUME Local!TypeOK, locCall[Self].pc = "read"
  PROVE  locCall[Self].host \in Servers
<1>1. locCall[Self] \in Local!Call
  BY DEF Local!TypeOK
<1> QED BY <1>1 DEF Local!Call

(* A step of the daemon's end: the call goes on to have read, or what is   *)
(* memorised stays.                                                        *)
LEMMA LocalPrevStep ==
  ASSUME TypeOK, PrevIsCurrent, StepOfLocal
  PROVE  PrevIsCurrent'
<1>0. /\ locCall \in [{Self} -> Local!Call] /\ Self \in {Self}
      /\ locIncoming \in [Servers -> Local!Incoming \cup {Absent}]
  BY DEF TypeOK, Local!TypeOK
<1>1. ASSUME NEW h, NEW c, NEW r, Local!StoreReport(Self, h, c, r)
      PROVE  PrevIsCurrent'
  <2>1. locCall'[Self].pc = "stored"
    BY <1>0, <1>1 DEF Local!StoreReport
  <2> QED BY <2>1 DEF PrevIsCurrent
<1>2. CASE \E c \in SubjectOrders : Local!SetOutgoingCommand(Server, c)
  BY <1>2 DEF Local!SetOutgoingCommand, PrevIsCurrent
<1>3. CASE Local!WorkerStep(Self)
  <2>1. CASE Local!ReadPrevCmd(Self)
    <3>1. /\ locCall'[Self].host = locCall[Self].host
          /\ locCall'[Self].prev = locIncoming[locCall[Self].host]
          /\ locIncoming' = locIncoming
      BY <1>0, <2>1 DEF Local!ReadPrevCmd
    <3> QED BY <3>1 DEF PrevIsCurrent
  <2>2. CASE ~Local!ReadPrevCmd(Self)
    <3>1. locCall'[Self].pc # "read"
      BY <1>0, <1>3, <2>2 DEF Local!WorkerStep, Local!SkipCommandRequest, Local!RetrievePrevResult,
         Local!RefuseRecursiveCommand, Local!StartCommand, Local!FinishCommand, Local!Return,
         Local!Answer, Local!Idle
    <3> QED BY <3>1 DEF PrevIsCurrent
  <2> QED BY <2>1, <2>2
<1> QED BY <1>1, <1>2, <1>3 DEF StepOfLocal

LEMMA PrevStep ==
  ASSUME TypeOK, PrevIsCurrent, [Next]_vars
  PROVE  PrevIsCurrent'
<1>1. CASE StepOfRemote
  BY <1>1, RemoteIsStep DEF PrevIsCurrent, locvars
<1>2. CASE Tick \/ UNCHANGED <<clock, locvars, srvvars>>
  BY <1>2 DEF Tick, PrevIsCurrent, locvars
<1> QED BY <1>1, <1>2, LocalPrevStep, StepCases

(* A memorised command goes by expiry of the server it came from, or when  *)
(* it is retrieved beyond the retention period.                            *)
LEMMA LocalForgets ==
  ASSUME TypeOK, PrevIsCurrent, StepOfLocal, NEW s \in Servers,
         locIncoming[s] # Absent, locIncoming'[s] = Absent
  PROVE  locIncoming[s].time < clock - Retention \/ locReports'[s] = <<>>
<1>0. /\ locCall \in [{Self} -> Local!Call] /\ Self \in {Self}
      /\ locIncoming \in [Servers -> Local!Incoming \cup {Absent}]
      /\ Absent \notin Local!Incoming
  BY PhoneHomeAssumption DEF TypeOK, Local!TypeOK, Local!Incoming, Local!Time
<1>1. ASSUME NEW h, NEW c, NEW r, Local!StoreReport(Self, h, c, r)
      PROVE  locReports'[s] = <<>>
  BY <1>0, <1>1 DEF Local!StoreReport, Local!Without
<1>2. CASE \E c \in SubjectOrders : Local!SetOutgoingCommand(Server, c)
  BY <1>2 DEF Local!SetOutgoingCommand
<1>3. CASE Local!WorkerStep(Self)
  <2>0. locCall[Self] \in Local!Call
    BY <1>0
  <2>1. CASE Local!RetrievePrevResult(Self)
    <3>1. locCall[Self].pc = "read"
      BY <2>1 DEF Local!RetrievePrevResult
    <3>2. /\ locCall[Self].prev.time < clock - Retention
          /\ s = locCall[Self].host
      BY <1>0, <2>1 DEF Local!RetrievePrevResult
    <3> QED BY <3>1, <3>2 DEF PrevIsCurrent
  <2>2. CASE Local!StartCommand(Self)
    <3>1. locCall[Self].pc = "read" /\ ~Local!IsRetrieval(Self)
      BY <2>2 DEF Local!StartCommand
    <3>2. [cmd |-> locCall[Self].cmd, time |-> locCall[Self].time, ready |-> FALSE] \in Local!Incoming
      BY <2>0, <3>1 DEF Local!Call, Local!Incoming, Local!IsRetrieval, Local!CmdOrNone
    <3> QED BY <1>0, <2>2, <3>2 DEF Local!StartCommand
  <2>3. CASE Local!FinishCommand(Self)
    <3>1. locCall[Self].pc = "running"
      BY <2>3 DEF Local!FinishCommand
    <3>2. [cmd |-> locCall[Self].cmd, time |-> locCall[Self].time, ready |-> TRUE] \in Local!Incoming
      BY <2>0, <3>1 DEF Local!Call, Local!Incoming
    <3> QED BY <1>0, <2>3, <3>2 DEF Local!FinishCommand
  <2>4. CASE locIncoming' = locIncoming
    BY <2>4
  <2> QED BY <1>3, <2>1, <2>2, <2>3, <2>4 DEF Local!WorkerStep, Local!SkipCommandRequest,
       Local!ReadPrevCmd, Local!RefuseRecursiveCommand, Local!Return
<1> QED BY <1>1, <1>2, <1>3 DEF StepOfLocal

(* The subject remembers an ordered command for the retention period,      *)
(* whatever visits fail and whichever other servers it reports to.         *)
THEOREM OrderAlwaysRemembered == Spec => OrderRemembered
<1>1. Init => PrevIsCurrent
  BY DEF Init, Local!Init, Local!Idle, PrevIsCurrent
<1>2. TypeOK /\ PrevIsCurrent /\ [Next]_vars => PrevIsCurrent'
  BY PrevStep
<1>3. TypeOK /\ PrevIsCurrent /\ [Next]_vars =>
        [\A s \in Servers :
           locIncoming[s] # Absent /\ locIncoming'[s] = Absent =>
             \/ locIncoming[s].time < clock - Retention
             \/ locReports'[s] = <<>>]_vars
  <2> SUFFICES ASSUME TypeOK, PrevIsCurrent, [Next]_vars, NEW s \in Servers,
                      locIncoming[s] # Absent, locIncoming'[s] = Absent
               PROVE  locIncoming[s].time < clock - Retention \/ locReports'[s] = <<>>
    OBVIOUS
  <2>1. CASE StepOfLocal
    BY <2>1, LocalForgets
  <2>2. CASE StepOfRemote
    BY <2>2, RemoteIsStep DEF locvars
  <2>3. CASE Tick \/ UNCHANGED <<clock, locvars, srvvars>>
    BY <2>3 DEF Tick, locvars
  <2> QED BY <2>1, <2>2, <2>3, StepCases
<1> QED BY <1>1, <1>2, <1>3, PHTypeCorrect, PTL DEF Spec, OrderRemembered
==============================================================================
