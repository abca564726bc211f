----------------------------- MODULE PhoneHome ------------------------------
(***************************************************************************)
(* The phone-home daemon (daemon/phonehome/phonehome.go) of one subject,   *)
(* with the message processors at both ends: the daemon's own one, which   *)
(* runs the commands its servers order, and the one of a server, which     *)
(* runs the commands the subject asks for.                                 *)
(*                                                                         *)
(* The daemon is one goroutine: it visits its servers one at a time, asks  *)
(* its message processor what to tell the server, sends the report, and    *)
(* hands the answer to its message processor, which runs the ordered       *)
(* command before the daemon goes on.  A request or an answer may be lost. *)
(* The daemon gives up waiting after 15 seconds, the server does not.      *)
(***************************************************************************)
EXTENDS Integers, Sequences

CONSTANTS
  Server,          \* HostName of the reachable server
  Unreachable,     \* HostNames of configured servers that never answer
  Subject,         \* the host name the daemon reports under
  Thread,          \* goroutines of the server handling reports
  Command, Recursive, NoCmd, Absent,
  ServerOrders,    \* what the operator of the server may order the subject to run
  SubjectOrders,   \* what the subject may ask the server to run
  MaxReportsPerHostName, Retention, Expiry, CallLimit, MaxTime

ASSUME PhoneHomeAssumption ==
  /\ Recursive \subseteq Command
  /\ NoCmd \notin Command
  /\ ServerOrders \subseteq Command \cup {NoCmd}
  /\ SubjectOrders \subseteq Command \cup {NoCmd}
  /\ Absent \notin Command \cup {NoCmd}
  /\ Absent \notin [cmd : Command, time : 0 .. MaxTime, ready : BOOLEAN]
  /\ MaxReportsPerHostName \in Nat \ {0}
  /\ Retention \in Nat
  /\ Expiry \in Nat
  /\ CallLimit \in Nat
  /\ MaxTime \in Nat
  /\ CallLimit <= Expiry

VARIABLES
  clock,
  \* LocalMessageProcessor
  locProcessor, locReports, locIncoming, locOutgoing, locTotal, locCall,
  \* the message processor of the server
  srvProcessor, srvReports, srvIncoming, srvOutgoing, srvTotal, srvCall,
  pc,        \* where StartAndBlock is
  todo,      \* servers left in this round
  cur,       \* the server being visited
  thread,    \* the server's goroutine whose answer the daemon waits for, if any
  net,       \* the request or answer under way, if any
  runLoop,   \* the daemon's flag
  lockdown   \* misc.EmergencyLockDown

locvars == <<locProcessor, locReports, locIncoming, locOutgoing, locTotal, locCall>>
srvvars == <<srvProcessor, srvReports, srvIncoming, srvOutgoing, srvTotal, srvCall>>
daemonvars == <<pc, todo, cur, thread, net, runLoop, lockdown>>
vars == <<clock, locvars, srvvars, daemonvars>>

Servers == {Server} \cup Unreachable

(* What one side tells the other about the command it was given.           *)
Response == [cmd : Command \cup {NoCmd}, ready : BOOLEAN]
NoResponse == [cmd |-> NoCmd, ready |-> TRUE]

Self == "daemon"

Local == INSTANCE MessageProcessor WITH
  Host <- Servers, Worker <- {Self}, Ordered <- SubjectOrders,
  hasCmdProcessor <- locProcessor,
  SubjectReports <- locReports, IncomingAppCommands <- locIncoming,
  OutgoingAppCommands <- locOutgoing, totalReports <- locTotal, call <- locCall

Remote == INSTANCE MessageProcessor WITH
  Host <- {Subject}, Worker <- Thread, Ordered <- ServerOrders,
  hasCmdProcessor <- srvProcessor,
  SubjectReports <- srvReports, IncomingAppCommands <- srvIncoming,
  OutgoingAppCommands <- srvOutgoing, totalReports <- srvTotal, call <- srvCall

Nothing == [kind |-> "nothing"]

Message ==
  [kind : {"nothing"}]
    \cup [kind : {"request"}, cmd : Command \cup {NoCmd}, resp : Response]
    \cup [kind : {"answer"}, cmd : Command \cup {NoCmd}, resp : Response]

TypeOK ==
  /\ Local!TypeOK
  /\ Remote!TypeOK
  /\ pc \in {"new", "round", "next", "pausing", "asking", "waiting", "applying", "ended"}
  /\ todo \subseteq Servers
  /\ cur \in Servers
  /\ thread \in Thread \cup {Absent}
  /\ net \in Message
  /\ runLoop \in BOOLEAN
  /\ lockdown \in BOOLEAN

-----------------------------------------------------------------------------
(* Both ends are configured to run commands.                               *)
Init ==
  /\ Local!Init /\ locProcessor
  /\ Remote!Init /\ srvProcessor
  /\ pc = "new"
  /\ todo = {}
  /\ cur = Server
  /\ thread = Absent
  /\ net = Nothing
  /\ runLoop = FALSE
  /\ lockdown = FALSE

(* StartAndBlock up to its loop.                                           *)
StartAndBlock ==
  /\ pc = "new"
  /\ pc' = "round"
  /\ runLoop' = TRUE
  /\ UNCHANGED <<clock, locvars, srvvars, todo, cur, thread, net, lockdown>>

(* The top of the loop: shuffle the servers.                               *)
BeginRound ==
  /\ pc = "round"
  /\ ~lockdown
  /\ pc' = "next"
  /\ todo' = Servers
  /\ UNCHANGED <<clock, locvars, srvvars, cur, thread, net, runLoop, lockdown>>

(* Mutant of Return: the loop does not look at runLoop.                    *)
ReturnOnLockDown ==
  /\ pc = "round"
  /\ lockdown
  /\ pc' = "ended"
  /\ runLoop' = FALSE
  /\ UNCHANGED <<clock, locvars, srvvars, todo, cur, thread, net, lockdown>>

(* StartAndBlock returns: on lock down, or when runLoop was reset; its     *)
(* deferred function resets the flag.                                      *)
Return ==
  /\ \/ pc = "round" /\ lockdown
     \/ pc = "next" /\ todo # {} /\ ~runLoop
  /\ pc' = "ended"
  /\ runLoop' = FALSE
  /\ UNCHANGED <<clock, locvars, srvvars, todo, cur, thread, net, lockdown>>

EndRound ==
  /\ pc = "next"
  /\ todo = {}
  /\ pc' = "round"
  /\ UNCHANGED <<clock, locvars, srvvars, todo, cur, thread, net, runLoop, lockdown>>

(* The next server of the round: the daemon sleeps before it turns to it.  *)
ChooseServer(s) ==
  /\ pc = "next"
  /\ s \in todo
  /\ runLoop
  /\ todo' = todo \ {s}
  /\ cur' = s
  /\ pc' = "pausing"
  /\ UNCHANGED <<clock, locvars, srvvars, thread, net, runLoop, lockdown>>

(* The pause is over, runLoop is not looked at again: getReportForServer   *)
(* has the local message processor store an empty report.                  *)
VisitServer ==
  /\ pc = "pausing"
  /\ pc' = "asking"
  /\ Local!StoreReport(Self, cur, NoCmd, NoResponse)
  /\ UNCHANGED <<srvvars, todo, cur, thread, net, runLoop, lockdown>>

(* The rest of getReportForServer, and the report is sent.                 *)
SendReport ==
  LET reply == locCall[Self].reply
  IN /\ pc = "asking"
     /\ Local!Return(Self)
     /\ net' = [kind |-> "request", cmd |-> reply.out,
                resp |-> [cmd |-> reply.cmd, ready |-> reply.ready]]
     /\ pc' = "waiting"
     /\ UNCHANGED <<srvvars, todo, cur, thread, runLoop, lockdown>>

(* The server's app command handler calls MessageProcessor.Execute.        *)
DeliverRequest ==
  /\ net.kind = "request"
  /\ cur = Server
  /\ \E w \in Thread :
       /\ Remote!StoreReport(w, Subject, net.cmd, net.resp)
       /\ thread' = w
  /\ net' = Nothing
  /\ UNCHANGED <<locvars, pc, todo, cur, runLoop, lockdown>>

(* A goroutine of the server is done.  Its answer goes to the daemon, if   *)
(* the daemon still waits for it.                                          *)
ServerAnswers(w) ==
  LET reply == srvCall[w].reply
  IN /\ Remote!Return(w)
     /\ IF thread = w
        THEN /\ net' = [kind |-> "answer", cmd |-> reply.out,
                        resp |-> [cmd |-> reply.cmd, ready |-> reply.ready]]
             /\ thread' = Absent
        ELSE UNCHANGED <<net, thread>>
     /\ UNCHANGED <<locvars, pc, todo, cur, runLoop, lockdown>>

(* Mutant of GetAnswer: the CommandResponse is not passed on.              *)
GetCommandOnly ==
  /\ pc = "waiting"
  /\ net.kind = "answer"
  /\ Local!StoreReport(Self, cur, net.cmd, NoResponse)
  /\ net' = Nothing
  /\ pc' = "applying"
  /\ UNCHANGED <<srvvars, todo, cur, thread, runLoop, lockdown>>

(* The answer arrives: the local message processor is to run the command.  *)
GetAnswer ==
  /\ pc = "waiting"
  /\ net.kind = "answer"
  /\ Local!StoreReport(Self, cur, net.cmd, net.resp)
  /\ net' = Nothing
  /\ pc' = "applying"
  /\ UNCHANGED <<srvvars, todo, cur, thread, runLoop, lockdown>>

(* Mutant of GiveUp: a failure ends the loop instead of the visit.         *)
GiveUpForGood ==
  /\ pc = "waiting"
  /\ net.kind # "nothing" \/ (thread # Absent /\ srvCall[thread].pc = "running")
  /\ net' = Nothing
  /\ thread' = Absent
  /\ pc' = "ended"
  /\ UNCHANGED <<clock, locvars, srvvars, todo, cur, runLoop, lockdown>>

(* The server is unreachable, the request or the answer is lost, or the    *)
(* answer cannot be decoded; or the server has not finished the command    *)
(* within 15 seconds.  15 seconds are enough for a report without one.     *)
GiveUp ==
  /\ pc = "waiting"
  /\ net.kind # "nothing" \/ (thread # Absent /\ srvCall[thread].pc = "running")
  /\ net' = Nothing
  /\ thread' = Absent
  /\ pc' = "next"
  /\ UNCHANGED <<clock, locvars, srvvars, todo, cur, runLoop, lockdown>>

(* The local message processor is done with the answer.                    *)
AnswerApplied ==
  /\ pc = "applying"
  /\ Local!Return(Self)
  /\ pc' = "next"
  /\ UNCHANGED <<srvvars, todo, cur, thread, net, runLoop, lockdown>>

(* The inner steps of the two message processors.                          *)
LocalStep ==
  /\ \/ Local!ReadPrevCmd(Self)
     \/ Local!RetrievePrevResult(Self)
     \/ Local!RefuseRecursiveCommand(Self)
     \/ Local!StartCommand(Self)
     \/ Local!FinishCommand(Self)
  /\ UNCHANGED <<srvvars, daemonvars>>

ServerStep(w) ==
  /\ \/ Remote!ReadPrevCmd(w)
     \/ Remote!RetrievePrevResult(w)
     \/ Remote!RefuseRecursiveCommand(w)
     \/ Remote!StartCommand(w)
     \/ Remote!FinishCommand(w)
  /\ UNCHANGED <<locvars, daemonvars>>

(* An operator of the server orders a command, through its web service.    *)
OrderAtServer(c) ==
  /\ srvOutgoing[Subject] # c
  /\ Remote!SetOutgoingCommand(Subject, c)
  /\ UNCHANGED <<locvars, daemonvars>>

(* The owner of the daemon's message processor asks for a command.         *)
OrderAtSubject(c) ==
  /\ locOutgoing[Server] # c
  /\ Local!SetOutgoingCommand(Server, c)
  /\ UNCHANGED <<srvvars, daemonvars>>

(* Stop, and emergency lock down: one of the two happens, once.            *)
Stop ==
  /\ runLoop
  /\ ~lockdown
  /\ runLoop' = FALSE
  /\ UNCHANGED <<clock, locvars, srvvars, pc, todo, cur, thread, net, lockdown>>

TriggerEmergencyLockDown ==
  /\ runLoop
  /\ ~lockdown
  /\ lockdown' = TRUE
  /\ UNCHANGED <<clock, locvars, srvvars, pc, todo, cur, thread, net, runLoop>>

(* Time is counted in units that are long compared with everything but the *)
(* pause between two reports and a command of the subject.                 *)
Tick ==
  /\ clock < MaxTime
  /\ pc = "pausing" \/ locCall[Self].pc = "running"
  /\ Local!CanTick
  /\ Remote!CanTick
  /\ clock' = clock + 1
  /\ UNCHANGED <<locvars, srvvars, daemonvars>>

DaemonStep ==
  \/ StartAndBlock
  \/ BeginRound
  \/ Return
  \/ EndRound
  \/ \E s \in Servers : ChooseServer(s)
  \/ VisitServer
  \/ SendReport
  \/ GiveUp
  \/ AnswerApplied
  \/ LocalStep

Next ==
  \/ DaemonStep
  \/ DeliverRequest
  \/ GetAnswer
  \/ \E w \in Thread : ServerStep(w) \/ ServerAnswers(w)
  \/ \E c \in ServerOrders : OrderAtServer(c)
  \/ \E c \in SubjectOrders : OrderAtSubject(c)
  \/ Stop
  \/ TriggerEmergencyLockDown
  \/ Tick

(* The daemon and the server keep running, and the network does not lose   *)
(* every request or every answer.                                          *)
Fairness ==
  /\ WF_vars(DaemonStep)
  /\ \A w \in Thread : WF_vars(ServerStep(w) \/ ServerAnswers(w))
  /\ SF_vars(DeliverRequest)
  /\ SF_vars(GetAnswer)

Spec == Init /\ [][Next]_vars /\ Fairness

-----------------------------------------------------------------------------
LastResponse(reports) == reports[Len(reports)].resp

(* The subject remembers an ordered command for the retention period,      *)
(* across failed visits and reports to other servers, so that the server's *)
(* standing order, repeated in every answer, is not run again before.      *)
OrderRemembered ==
  [][\A s \in Servers :
       locIncoming[s] # Absent /\ locIncoming'[s] = Absent =>
         \/ locIncoming[s].time < clock - Retention
         \/ locReports'[s] = <<>>]_vars

(* A command that the server keeps ordering is run by the subject, and its *)
(* outcome reaches the server in a report, whatever requests and answers   *)
(* are lost and while another server never answers.                        *)
OrderStands(c) == srvOutgoing[Subject] = c /\ runLoop /\ ~lockdown
OrderIsReported(c) ==
  srvReports[Subject] # <<>>
    /\ LastResponse(srvReports[Subject]) = [cmd |-> c, ready |-> TRUE]
OrderedCommandReported ==
  \A c \in ServerOrders \ {NoCmd} : ([]OrderStands(c)) ~> OrderIsReported(c)

(* A command that the subject keeps asking the server to run is answered   *)
(* with its outcome in the end, though the daemon gives up on the request  *)
(* that starts it after 15 seconds and only a later request can fetch it.  *)
RequestStands(c) == locOutgoing[Server] = c /\ runLoop /\ ~lockdown
RequestIsAnswered(c) ==
  locReports[Server] # <<>>
    /\ LastResponse(locReports[Server]) = [cmd |-> c, ready |-> TRUE]
RequestedCommandAnswered ==
  \A c \in SubjectOrders \ {NoCmd} : ([]RequestStands(c)) ~> RequestIsAnswered(c)

(* Once stopped, or locked down, the running daemon ends: neither a server *)
(* that does not answer nor a command in progress keeps it alive.          *)
StopHonoured == (pc # "new" /\ (~runLoop \/ lockdown)) ~> (pc = "ended")

=============================================================================
