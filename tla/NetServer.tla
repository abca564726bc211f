------------------------------- MODULE NetServer -------------------------------
(***************************************************************************)
(* A network daemon under AutoRestart: the TCP and UDP servers that all    *)
(* daemons share (daemon/common/tcpsrv.go, udpsrv.go), the StartAndBlock   *)
(* and Stop of the daemons built on them, and the restart loop of          *)
(* main_util.go.                                                           *)
(*                                                                         *)
(* dnsd and plainsocket start each server on a goroutine, collect the      *)
(* results from a channel, and on the first error stop both servers and    *)
(* return; smtpd and snmpd call the one server they have (Direct).  A      *)
(* goroutine of an earlier round may still be about when the next round    *)
(* begins: each server has several slots for its goroutines.               *)
(***************************************************************************)
EXTENDS Integers, Sequences, FiniteSets

CONSTANTS
  Port,       \* the servers that are configured, of "tcp" and "udp"
  Direct,     \* the daemon calls its server's StartAndBlock itself
  Slot,       \* bound of the model: goroutines of a server at any one time
  Fault,      \* what may go wrong, of "resolve", "listen" and "accept"
  MaxFaults,  \* bound of the model: how many times
  MaxStops,   \* bound of the model: how often the program calls Stop
  MaxDelay    \* AutoRestart's longest delay, in steps of 10 seconds (6 in the code)

ASSUME PortAssumption ==
  /\ Port \subseteq {"tcp", "udp"} /\ Port # {}
  /\ Direct \in BOOLEAN
  /\ Direct => Cardinality(Port) = 1
  /\ Fault \subseteq {"resolve", "listen", "accept"}
  /\ MaxFaults \in Nat /\ MaxStops \in Nat
  /\ MaxDelay \in Nat \ {0}

Server == {"tcp", "udp"}

VARIABLES
  EmergencyLockDown,  \* misc.EmergencyLockDown
  listener,           \* server -> srv.listener (srv.udpServer) is not nil
  bound,              \* server -> a socket is open on the port
  mutexLost,          \* server -> srv.mutex is locked by a call that has returned
  loop,               \* server -> slot -> a goroutine inside StartAndBlock
  errChan,            \* the results of this round that have not been collected
  awaiting,           \* how many results StartAndBlock still waits for
  daemon,             \* control state of AutoRestart and of the daemon's StartAndBlock
  delaySec,           \* AutoRestart's delay, in steps of 10 seconds
  stopper,            \* control state of the caller of Stop
  stops,              \* calls of Stop so far
  faults,             \* faults so far
  late                \* history: clients a goroutine took since the lock-down

serverVars == <<listener, bound, mutexLost>>
daemonVars == <<awaiting, daemon, delaySec>>
outsideVars == <<EmergencyLockDown, stopper, stops>>
vars == <<serverVars, daemonVars, outsideVars, loop, errChan, faults, late>>

NoRoutine == [pc |-> "none", live |-> FALSE]

TypeOK ==
  /\ EmergencyLockDown \in BOOLEAN
  /\ listener \in [Server -> BOOLEAN]
  /\ bound \in [Server -> BOOLEAN]
  /\ mutexLost \in [Server -> BOOLEAN]
  /\ loop \in [Server -> [Slot -> [pc : {"none", "start", "check", "fetch", "accept", "closed"},
                                   live : BOOLEAN]]]
  /\ errChan \in Seq({"nil", "error"}) /\ Len(errChan) <= Cardinality(Port)
  /\ awaiting \in 0 .. Cardinality(Port)
  /\ daemon \in {"restart", "waiting", "stopTCP", "stopUDP", "sleep", "ended", "panicked"}
  /\ delaySec \in 0 .. MaxDelay
  /\ stopper \in {"idle", "stopTCP", "stopUDP"}
  /\ stops \in 0 .. MaxStops
  /\ faults \in 0 .. MaxFaults
  /\ late \in [Server -> [Slot -> Nat]]

Init ==
  /\ EmergencyLockDown = FALSE
  /\ listener = [s \in Server |-> FALSE]
  /\ bound = [s \in Server |-> FALSE]
  /\ mutexLost = [s \in Server |-> FALSE]
  /\ loop = [s \in Server |-> [g \in Slot |-> NoRoutine]]
  /\ errChan = <<>>
  /\ awaiting = 0
  /\ daemon = "restart"
  /\ delaySec = 0
  /\ stopper = "idle"
  /\ stops = 0
  /\ faults = 0
  /\ late = [s \in Server |-> [g \in Slot |-> 0]]

-----------------------------------------------------------------------------
(* Steps of a goroutine inside the StartAndBlock of server s.              *)

Running == daemon # "panicked"

At(s, g, pc) == Running /\ loop[s][g].pc = pc

Goto(s, g, pc) ==
  /\ loop' = [loop EXCEPT ![s][g].pc = pc]
  /\ UNCHANGED errChan

(* The call returns: its result reaches the daemon if the daemon's         *)
(* StartAndBlock still waits for it.  Otherwise the result stays in a      *)
(* buffered channel that nobody reads again.                               *)
ReturnWith(s, g, result) ==
  /\ loop' = [loop EXCEPT ![s][g] = NoRoutine]
  /\ errChan' = IF loop[s][g].live THEN Append(errChan, result) ELSE errChan
  /\ late' = [late EXCEPT ![s][g] = 0]

CanFail(fault) == fault \in Fault /\ faults < MaxFaults

(* The server has a listener already.                                      *)
StartSecondTime(s, g) ==
  /\ At(s, g, "start")
  /\ ~mutexLost[s]
  /\ listener[s]
  /\ ReturnWith(s, g, "error")
  /\ UNCHANGED <<serverVars, daemonVars, outsideVars, faults>>

(* The address of the UDP server cannot be resolved: the call returns      *)
(* without unlocking the mutex.                                            *)
ResolveFails(g) ==
  /\ At("udp", g, "start")
  /\ ~mutexLost["udp"]
  /\ ~listener["udp"]
  /\ CanFail("resolve")
  /\ mutexLost' = [mutexLost EXCEPT !["udp"] = TRUE]
  /\ faults' = faults + 1
  /\ ReturnWith("udp", g, "error")
  /\ UNCHANGED <<daemonVars, outsideVars, listener, bound>>

(* Mutant of MayListen: nobody looks whether there is a listener.          *)
MayListenAgain(s) == ~mutexLost[s]

(* The mutex is free and the server has no listener.                       *)
MayListen(s) == ~mutexLost[s] /\ ~listener[s]

(* The port cannot be had: the listener is assigned nil.                   *)
ListenFails(s, g) ==
  /\ At(s, g, "start")
  /\ MayListen(s)
  /\ \/ bound[s] /\ UNCHANGED faults
     \/ CanFail("listen") /\ faults' = faults + 1
  /\ listener' = [listener EXCEPT ![s] = FALSE]
  /\ ReturnWith(s, g, "error")
  /\ UNCHANGED <<daemonVars, outsideVars, bound, mutexLost>>

ListenSucceeds(s, g) ==
  /\ At(s, g, "start")
  /\ MayListen(s)
  /\ ~bound[s]
  /\ listener' = [listener EXCEPT ![s] = TRUE]
  /\ bound' = [bound EXCEPT ![s] = TRUE]
  /\ Goto(s, g, "check")
  /\ UNCHANGED <<daemonVars, outsideVars, mutexLost, faults, late>>

(* The top of the accept loop.                                             *)
CheckLockDown(s, g) ==
  /\ At(s, g, "check")
  /\ IF EmergencyLockDown
     THEN ReturnWith(s, g, "error")
     ELSE Goto(s, g, "fetch") /\ UNCHANGED late
  /\ UNCHANGED <<serverVars, daemonVars, outsideVars, faults>>

(* srv.listener is read without the mutex, and may be nil by now: then the *)
(* TCP server dereferences nil and the program panics, and the UDP server  *)
(* gets "invalid argument".                                                *)
FetchListener(s, g) ==
  /\ At(s, g, "fetch")
  /\ \/ /\ listener[s]
        /\ Goto(s, g, "accept")
        /\ UNCHANGED <<daemon, late>>
     \/ /\ ~listener[s] /\ s = "tcp"
        /\ daemon' = "panicked"
        /\ UNCHANGED <<loop, errChan, late>>
     \/ /\ ~listener[s] /\ s = "udp"
        /\ ReturnWith(s, g, "error")
        /\ UNCHANGED daemon
  /\ UNCHANGED <<serverVars, outsideVars, awaiting, delaySec, faults>>

(* A client comes; it is within its rate limit and gets a goroutine of its *)
(* own, or it is not and is turned away.                                   *)
AcceptClient(s, g) ==
  /\ At(s, g, "accept")
  /\ bound[s]
  /\ Goto(s, g, "check")
  /\ late' = IF EmergencyLockDown THEN [late EXCEPT ![s][g] = @ + 1] ELSE late
  /\ UNCHANGED <<serverVars, daemonVars, outsideVars, faults>>

(* Accept (ReadFromUDP) fails on an open socket.                           *)
AcceptFails(s, g) ==
  /\ At(s, g, "accept")
  /\ bound[s]
  /\ CanFail("accept")
  /\ faults' = faults + 1
  /\ ReturnWith(s, g, "error")
  /\ UNCHANGED <<serverVars, daemonVars, outsideVars>>

(* The socket has been closed under the call.                              *)
AcceptClosed(s, g) ==
  /\ At(s, g, "closed")
  /\ ReturnWith(s, g, "nil")
  /\ UNCHANGED <<serverVars, daemonVars, outsideVars, faults>>

(* What a goroutine does without waiting for the world.                    *)
LoopStep(s, g) ==
  \/ StartSecondTime(s, g)
  \/ s = "udp" /\ ResolveFails(g)
  \/ ListenFails(s, g)
  \/ ListenSucceeds(s, g)
  \/ CheckLockDown(s, g)
  \/ FetchListener(s, g)
  \/ AcceptClosed(s, g)

-----------------------------------------------------------------------------
(* Stop of one server: close the listener, which ends every Accept on it.  *)
StopServer(s) ==
  /\ ~mutexLost[s]
  /\ listener' = [listener EXCEPT ![s] = FALSE]
  /\ bound' = IF listener[s] THEN [bound EXCEPT ![s] = FALSE] ELSE bound
  /\ loop' = IF listener[s]
             THEN [loop EXCEPT ![s] = [g \in Slot |->
                     IF @[g].pc = "accept" THEN [@[g] EXCEPT !.pc = "closed"] ELSE @[g]]]
             ELSE loop

(* Some server has goroutines in all its slots: the next round cannot      *)
(* begin in the model.                                                     *)
OutOfSlots == \E s \in Port : \A g \in Slot : loop[s][g].pc # "none"

FreeSlot(s) == CHOOSE g \in Slot : loop[s][g].pc = "none"

(* The top of AutoRestart's loop, and the beginning of StartAndBlock.      *)
Restart ==
  /\ daemon = "restart"
  /\ IF EmergencyLockDown
     THEN daemon' = "ended" /\ UNCHANGED <<loop, errChan, awaiting>>
     ELSE /\ ~OutOfSlots
          /\ loop' = [s \in Server |->
                        IF s \in Port
                        THEN [loop[s] EXCEPT ![FreeSlot(s)] = [pc |-> "start", live |-> TRUE]]
                        ELSE loop[s]]
          /\ errChan' = <<>>
          /\ awaiting' = Cardinality(Port)
          /\ daemon' = "waiting"
  /\ UNCHANGED <<serverVars, outsideVars, delaySec, faults, late>>

(* StartAndBlock collects a result.  On an error it is done waiting.       *)
Collect ==
  /\ daemon = "waiting"
  /\ errChan # <<>>
  /\ \/ /\ Head(errChan) = "nil"
        /\ errChan' = Tail(errChan)
        /\ awaiting' = awaiting - 1
        /\ daemon' = IF awaiting = 1 THEN "ended" ELSE "waiting"
        /\ UNCHANGED loop
     \/ /\ Head(errChan) = "error"
        /\ errChan' = <<>>
        /\ awaiting' = 0
        /\ daemon' = IF Direct THEN "sleep" ELSE "stopTCP"
        /\ loop' = [s \in Server |-> [g \in Slot |-> [loop[s][g] EXCEPT !.live = FALSE]]]
  /\ UNCHANGED <<serverVars, outsideVars, delaySec, faults, late>>

(* Mutant of StopAfterError: the servers are left running.                 *)
StopAfterErrorNot ==
  /\ daemon \in {"stopTCP", "stopUDP"}
  /\ daemon' = "sleep"
  /\ UNCHANGED <<serverVars, outsideVars, loop, errChan, awaiting, delaySec, faults, late>>

(* Stop, called by StartAndBlock on an error, one server after the other.  *)
StopAfterError ==
  /\ \/ daemon = "stopTCP" /\ StopServer("tcp") /\ daemon' = "stopUDP"
     \/ daemon = "stopUDP" /\ StopServer("udp") /\ daemon' = "sleep"
  /\ UNCHANGED <<outsideVars, mutexLost, errChan, awaiting, delaySec, faults, late>>

(* No goroutine has anything left to do but serve clients.                 *)
Settled ==
  \A s \in Server : \A g \in Slot :
    \/ loop[s][g].pc \in {"none", "accept"}
    \/ loop[s][g].pc \in {"check", "fetch"} /\ listener[s]
    \/ mutexLost[s]

(* AutoRestart has slept.  The first restart is immediate; a goroutine     *)
(* that can go on does so within the 10 seconds and more of the others.    *)
WakeUp ==
  /\ daemon = "sleep"
  /\ delaySec > 0 => Settled
  /\ daemon' = "restart"
  /\ delaySec' = IF delaySec < MaxDelay THEN delaySec + 1 ELSE delaySec
  /\ UNCHANGED <<serverVars, outsideVars, loop, errChan, awaiting, faults, late>>

DaemonStep == Restart \/ Collect \/ StopAfterError \/ WakeUp

(* The program calls the daemon's Stop.                                    *)
CallStop ==
  /\ Running
  /\ stopper = "idle"
  /\ stops < MaxStops
  /\ stops' = stops + 1
  /\ stopper' = "stopTCP"
  /\ UNCHANGED <<serverVars, daemonVars, loop, errChan, EmergencyLockDown, faults, late>>

StopCalled ==
  /\ Running
  /\ \/ stopper = "stopTCP" /\ StopServer("tcp") /\ stopper' = "stopUDP"
     \/ stopper = "stopUDP" /\ StopServer("udp") /\ stopper' = "idle"
  /\ UNCHANGED <<daemonVars, mutexLost, errChan, EmergencyLockDown, stops, faults, late>>

(* An app or an operator locks the program down, for good.                 *)
TriggerEmergencyLockDown ==
  /\ Running
  /\ ~EmergencyLockDown
  /\ EmergencyLockDown' = TRUE
  /\ UNCHANGED <<serverVars, daemonVars, loop, errChan, stopper, stops, faults, late>>

Next ==
  \/ \E s \in Server, g \in Slot : LoopStep(s, g) \/ AcceptClient(s, g) \/ AcceptFails(s, g)
  \/ DaemonStep
  \/ CallStop
  \/ StopCalled
  \/ TriggerEmergencyLockDown

(* Every goroutine runs on as long as it does not wait for a client.  And  *)
(* the scheduler is not set against one of them: a goroutine that round    *)
(* after round could listen before StartAndBlock deals with the error of   *)
(* the other does so in some round.                                        *)
Fairness ==
  /\ \A s \in Server : \A g \in Slot : WF_vars(LoopStep(s, g))
  /\ \A s \in Server : SF_vars(\E g \in Slot : loop[s][g].live /\ ListenSucceeds(s, g))
  /\ WF_vars(DaemonStep)
  /\ WF_vars(StopCalled)

Spec == Init /\ [][Next]_vars /\ Fairness

-----------------------------------------------------------------------------
(* An open socket is one that srv.listener refers to, so that Stop can     *)
(* close it and the port can be had again.  A second start that goes on to *)
(* net.Listen loses it: the failed call assigns nil.                       *)
OpenIsReachable == \A s \in Server : bound[s] => listener[s]

(* The lock-down does not interrupt Accept: a goroutine that is waiting    *)
(* serves one more client, and never a second.                             *)
OneLateClient == \A s \in Server : \A g \in Slot : late[s][g] <= 1

(* What holds of the sockets of a daemon at every moment (StartAndBlock    *)
(* and Stop of tcpsrv.go and udpsrv.go): they can be closed again, and a   *)
(* lock-down lets in one more client at most.                              *)
ListenersInOrder == TypeOK /\ OpenIsReachable /\ OneLateClient

Serving(s) ==
  listener[s] /\ bound[s] /\ \E g \in Slot : loop[s][g].pc \in {"check", "fetch", "accept"}

(* The daemon recovers: whatever failed, and whichever goroutines of the   *)
(* rounds before are still about, once the faults are over every           *)
(* configured server listens and is being attended to.  Exempt are a       *)
(* lock-down, a Stop, a panic and the mutex that udpsrv.go loses.          *)
SelfHealing ==
  <>[](\/ \A s \in Port : Serving(s)
       \/ EmergencyLockDown
       \/ stops > 0
       \/ daemon = "panicked"
       \/ \E s \in Server : mutexLost[s])
=============================================================================
