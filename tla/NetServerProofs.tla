--------------------------- MODULE NetServerProofs ---------------------------
(***************************************************************************)
(* The sockets of a daemon under AutoRestart are in order, for any number  *)
(* of goroutines of earlier rounds that are still about, and any number of *)
(* faults and stops.                                                       *)
(***************************************************************************)
EXTENDS NetServer, FiniteSetTheorems, TLAPS

PCs == {"none", "start", "check", "fetch", "accept", "closed"}
Routine == [pc : PCs, live : BOOLEAN]
LoopType == [Server -> [Slot -> Routine]]

(* A goroutine that has taken a client since the lock-down is on its way   *)
(* to the check that ends it.                                              *)
LateInv ==
  \A s \in Server, g \in Slot :
    /\ late[s][g] \in 0 .. 1
    /\ late[s][g] = 1 => loop[s][g].pc = "check" /\ EmergencyLockDown

(* A server has one goroutine of this round at most.                       *)
LiveInv ==
  /\ \A s \in Server, g \in Slot : loop[s][g].live => loop[s][g].pc # "none"
  /\ \A s \in Server, g \in Slot, h \in Slot : loop[s][g].live /\ loop[s][h].live => g = h

Live(s) == \E g \in Slot : loop[s][g].live
Count(s) == IF Live(s) THEN 1 ELSE 0

(* What StartAndBlock waits for has been sent already or will be sent by a *)
(* goroutine of this round: the channel never holds more than its buffer,  *)
(* and a new round begins with nothing left of the one before.             *)
CountInv ==
  /\ Count("tcp") + Count("udp") + Len(errChan) <= awaiting
  /\ daemon \notin {"waiting", "panicked"} => awaiting = 0

NSInv ==
  /\ TypeOK
  /\ OpenIsReachable
  /\ LateInv
  /\ LiveInv
  /\ CountInv

LEMMA Ports == Cardinality(Port) \in Nat /\ (Port = Server => Cardinality(Port) = 2)
               /\ (Port # Server => Cardinality(Port) = 1)
<1>1. /\ IsFiniteSet({"tcp"}) /\ Cardinality({"tcp"}) = 1
      /\ Cardinality({"udp"}) = 1
  BY FS_Singleton
<1>2. Cardinality({"tcp"} \cup {"udp"}) = 2
  BY <1>1, FS_AddElement
<1>3. Port = {"tcp"} \/ Port = {"udp"} \/ Port = {"tcp"} \cup {"udp"}
  BY PortAssumption
<1> QED
  BY <1>1, <1>2, <1>3 DEF Server

LEMMA LoopTyped == TypeOK => loop \in LoopType
  BY DEF TypeOK, LoopType, Routine, PCs

-----------------------------------------------------------------------------
(* What the steps do to the goroutines, one goroutine at a time.           *)

LEMMA GotoEffect ==
  ASSUME loop \in LoopType, NEW s \in Server, NEW g \in Slot, NEW pc \in PCs, Goto(s, g, pc)
  PROVE  /\ loop' \in LoopType
         /\ loop'[s][g] = [pc |-> pc, live |-> loop[s][g].live]
         /\ \A t \in Server, h \in Slot : t # s \/ h # g => loop'[t][h] = loop[t][h]
<1> DEFINE r == [pc |-> pc, live |-> loop[s][g].live]
<1>1. r \in Routine /\ [loop[s][g] EXCEPT !.pc = pc] = r
  BY DEF LoopType, Routine
<1>2. loop' = [loop EXCEPT ![s] = [loop[s] EXCEPT ![g] = r]]
  BY <1>1 DEF Goto
<1> HIDE DEF r
<1>3. loop' \in LoopType
  BY <1>1, <1>2 DEF LoopType
<1>4. loop'[s][g] = r
  BY <1>2 DEF LoopType
<1>5. \A t \in Server, h \in Slot : t # s \/ h # g => loop'[t][h] = loop[t][h]
  BY <1>2 DEF LoopType
<1> QED
  BY <1>3, <1>4, <1>5 DEF r

LEMMA ReturnEffect ==
  ASSUME loop \in LoopType, NEW s \in Server, NEW g \in Slot, NEW result, ReturnWith(s, g, result)
  PROVE  /\ loop' \in LoopType
         /\ loop'[s][g] = NoRoutine
         /\ \A t \in Server, h \in Slot : t # s \/ h # g => loop'[t][h] = loop[t][h]
<1>1. NoRoutine \in Routine
  BY DEF NoRoutine, Routine, PCs
<1>2. loop' = [loop EXCEPT ![s] = [loop[s] EXCEPT ![g] = NoRoutine]]
  BY DEF ReturnWith
<1>3. loop' \in LoopType
  BY <1>1, <1>2 DEF LoopType
<1>4. loop'[s][g] = NoRoutine
  BY <1>2 DEF LoopType
<1>5. \A t \in Server, h \in Slot : t # s \/ h # g => loop'[t][h] = loop[t][h]
  BY <1>2 DEF LoopType
<1> QED
  BY <1>3, <1>4, <1>5

(* A goroutine keeps its round, and does not return.                       *)
Relabelled ==
  \A t \in Server, h \in Slot :
    /\ loop'[t][h].live = loop[t][h].live
    /\ loop[t][h].pc # "none" => loop'[t][h].pc # "none"

LEMMA RelabelledKeeps ==
  ASSUME LiveInv, Relabelled
  PROVE  LiveInv' /\ \A t \in Server : Count(t)' = Count(t)
  BY DEF LiveInv, Relabelled, Count, Live

LEMMA GotoRelabels ==
  ASSUME loop \in LoopType, NEW s \in Server, NEW g \in Slot, NEW pc \in PCs, Goto(s, g, pc),
         pc # "none"
  PROVE  loop' \in LoopType /\ Relabelled
<1>1. /\ loop' \in LoopType
      /\ loop'[s][g] = [pc |-> pc, live |-> loop[s][g].live]
      /\ \A t \in Server, h \in Slot : t # s \/ h # g => loop'[t][h] = loop[t][h]
  BY GotoEffect
<1>2. loop'[s][g].pc = pc /\ loop'[s][g].live = loop[s][g].live
  BY <1>1
<1>3. Relabelled
  BY <1>1, <1>2 DEF Relabelled
<1> QED
  BY <1>1, <1>3

(* A goroutine goes on to something that does not end in a late client.    *)
LEMMA GotoKeepsLate ==
  ASSUME loop \in LoopType, LateInv, NEW s \in Server, NEW g \in Slot, NEW pc \in PCs,
         Goto(s, g, pc), late[s][g] = 0, UNCHANGED <<late, EmergencyLockDown>>
  PROVE  LateInv'
<1>1. \A t \in Server, h \in Slot : t # s \/ h # g => loop'[t][h] = loop[t][h]
  BY GotoEffect
<1> SUFFICES ASSUME NEW t \in Server, NEW h \in Slot
             PROVE  /\ late'[t][h] \in 0 .. 1
                    /\ late'[t][h] = 1 => loop'[t][h].pc = "check" /\ EmergencyLockDown'
  BY DEF LateInv
<1>2. CASE t = s /\ h = g
  BY <1>2
<1>3. CASE t # s \/ h # g
  <2>1. loop'[t][h] = loop[t][h]
    BY <1>1, <1>3
  <2> QED
    BY <2>1 DEF LateInv
<1> QED
  BY <1>2, <1>3

(* A goroutine that returns answers for itself alone.                      *)
LEMMA ReturnKeeps ==
  ASSUME NSInv, NEW s \in Server, NEW g \in Slot, NEW result \in {"nil", "error"},
         loop[s][g].pc # "none", ReturnWith(s, g, result), UNCHANGED <<daemonVars, EmergencyLockDown>>
  PROVE  /\ loop' \in LoopType /\ late' \in [Server -> [Slot -> Nat]]
         /\ errChan' \in Seq({"nil", "error"}) /\ Len(errChan') <= Cardinality(Port)
         /\ LateInv' /\ LiveInv' /\ CountInv'
<1>1. /\ loop \in LoopType /\ LateInv /\ LiveInv /\ CountInv
      /\ late \in [Server -> [Slot -> Nat]] /\ errChan \in Seq({"nil", "error"})
      /\ awaiting \in 0 .. Cardinality(Port)
  BY LoopTyped DEF NSInv, TypeOK
<1>2. /\ loop' \in LoopType
      /\ loop'[s][g] = NoRoutine
      /\ \A t \in Server, h \in Slot : t # s \/ h # g => loop'[t][h] = loop[t][h]
  BY <1>1, ReturnEffect
<1>3. ~loop'[s][g].live
  BY <1>2 DEF NoRoutine
<1>4. late' = [late EXCEPT ![s][g] = 0]
  BY DEF ReturnWith
<1>5. late' \in [Server -> [Slot -> Nat]]
  BY <1>1, <1>4
<1>6. LateInv'
  <2> SUFFICES ASSUME NEW t \in Server, NEW h \in Slot
               PROVE  /\ late'[t][h] \in 0 .. 1
                      /\ late'[t][h] = 1 => loop'[t][h].pc = "check" /\ EmergencyLockDown'
    BY DEF LateInv
  <2>1. CASE t = s /\ h = g
    <3>1. late'[t][h] = 0
      BY <1>1, <1>4, <2>1
    <3> QED
      BY <3>1
  <2>2. CASE t # s \/ h # g
    <3>1. late'[t][h] = late[t][h] /\ loop'[t][h] = loop[t][h]
      BY <1>1, <1>2, <1>4, <2>2
    <3> QED
      BY <1>1, <3>1 DEF LateInv
  <2> QED
    BY <2>1, <2>2
<1>7. LiveInv'
  <2>1. \A t \in Server, h \in Slot :
          loop'[t][h].live => loop[t][h].live /\ loop'[t][h].pc = loop[t][h].pc
    BY <1>2, <1>3
  <2>2. \A t \in Server, h \in Slot : loop'[t][h].live => loop'[t][h].pc # "none"
    <3>1. \A t \in Server, h \in Slot : loop[t][h].live => loop[t][h].pc # "none"
      BY <1>1 DEF LiveInv
    <3> QED
      BY <2>1, <3>1
  <2>3. \A t \in Server, h \in Slot, k \in Slot : loop'[t][h].live /\ loop'[t][k].live => h = k
    BY <1>1, <2>1 DEF LiveInv
  <2> QED
    BY <2>2, <2>3 DEF LiveInv
<1>8. \A t \in Server : t # s => Count(t)' = Count(t)
  BY <1>2 DEF Count, Live
<1>9. loop[s][g].live => Count(s) = 1 /\ Count(s)' = 0
  BY <1>1, <1>2, <1>3 DEF Count, Live, LiveInv
<1>10. ~loop[s][g].live => Count(s)' = Count(s)
  BY <1>2, <1>3 DEF Count, Live
<1>11. /\ errChan' \in Seq({"nil", "error"})
       /\ Len(errChan') = IF loop[s][g].live THEN Len(errChan) + 1 ELSE Len(errChan)
  BY <1>1 DEF ReturnWith
<1>12. Count("tcp")' + Count("udp")' + Len(errChan') <= awaiting
  <2>1. Count("tcp") \in 0 .. 1 /\ Count("udp") \in 0 .. 1 /\ Len(errChan) \in Nat
    BY <1>1 DEF Count
  <2>2. Count("tcp")' \in 0 .. 1 /\ Count("udp")' \in 0 .. 1
    BY DEF Count
  <2>3. Count("tcp") + Count("udp") + Len(errChan) <= awaiting
    BY <1>1 DEF CountInv
  <2>4. CASE loop[s][g].live
    <3>1. Count("tcp")' + Count("udp")' = Count("tcp") + Count("udp") - 1
      BY <1>8, <1>9, <2>1, <2>2, <2>4 DEF Server
    <3> QED
      BY <1>1, <1>11, <2>1, <2>2, <2>3, <2>4, <3>1, Ports
  <2>5. CASE ~loop[s][g].live
    <3>1. Count("tcp")' = Count("tcp") /\ Count("udp")' = Count("udp")
      BY <1>8, <1>10, <2>5 DEF Server
    <3> QED
      BY <1>11, <2>3, <2>5, <3>1
  <2> QED
    BY <2>4, <2>5
<1>13. CountInv'
  BY <1>1, <1>12 DEF CountInv, daemonVars
<1>14. Len(errChan') <= Cardinality(Port)
  <2>1. Count("tcp")' \in 0 .. 1 /\ Count("udp")' \in 0 .. 1 /\ Len(errChan') \in Nat
    BY <1>11 DEF Count
  <2> QED
    BY <1>1, <1>12, <2>1, Ports
<1> QED
  BY <1>2, <1>5, <1>6, <1>7, <1>11, <1>13, <1>14

(* A step that leaves the results alone and relabels the goroutines.       *)
LEMMA CountKept ==
  ASSUME CountInv, \A t \in Server : Count(t)' = Count(t), UNCHANGED <<errChan, awaiting>>,
         daemon' \notin {"waiting", "panicked"} => daemon \notin {"waiting", "panicked"}
  PROVE  CountInv'
  BY DEF CountInv, Server

(* Stop closes every Accept on the listener.                               *)
LEMMA StopEffect ==
  ASSUME NSInv, NEW s \in Server, StopServer(s), UNCHANGED <<late, EmergencyLockDown>>
  PROVE  /\ loop' \in LoopType /\ Relabelled
         /\ listener' \in [Server -> BOOLEAN] /\ bound' \in [Server -> BOOLEAN]
         /\ OpenIsReachable' /\ LateInv'
<1>1. /\ loop \in LoopType /\ LateInv /\ OpenIsReachable
      /\ listener \in [Server -> BOOLEAN] /\ bound \in [Server -> BOOLEAN]
  BY LoopTyped DEF NSInv, TypeOK
<1> DEFINE closed(g) == IF loop[s][g].pc = "accept" THEN [loop[s][g] EXCEPT !.pc = "closed"]
                        ELSE loop[s][g]
<1>2. \A g \in Slot : /\ closed(g) \in Routine /\ closed(g).live = loop[s][g].live
                      /\ closed(g).pc = IF loop[s][g].pc = "accept" THEN "closed" ELSE loop[s][g].pc
  BY <1>1 DEF LoopType, Routine, PCs
<1>3. loop' = loop \/ loop' = [loop EXCEPT ![s] = [g \in Slot |-> closed(g)]]
  BY DEF StopServer
<1> HIDE DEF closed
<1>4. /\ loop' \in LoopType
      /\ \A t \in Server, h \in Slot :
           loop'[t][h] = loop[t][h] \/ (t = s /\ loop'[t][h] = closed(h))
  BY <1>1, <1>2, <1>3 DEF LoopType
<1>5. \A t \in Server, h \in Slot :
        /\ loop'[t][h].live = loop[t][h].live
        /\ loop'[t][h].pc = loop[t][h].pc \/ (loop[t][h].pc = "accept" /\ loop'[t][h].pc = "closed")
  BY <1>2, <1>4
<1>6. Relabelled
  BY <1>5 DEF Relabelled
<1>7. LateInv'
  BY <1>1, <1>5 DEF LateInv
<1>8. /\ listener' = [listener EXCEPT ![s] = FALSE]
      /\ bound' = IF listener[s] THEN [bound EXCEPT ![s] = FALSE] ELSE bound
  BY DEF StopServer
<1>9. listener' \in [Server -> BOOLEAN] /\ bound' \in [Server -> BOOLEAN]
  BY <1>1, <1>8
<1>10. OpenIsReachable'
  BY <1>1, <1>8 DEF OpenIsReachable
<1> QED
  BY <1>4, <1>6, <1>7, <1>9, <1>10

-----------------------------------------------------------------------------
LEMMA NSInitial == Init => NSInv
<1> SUFFICES ASSUME Init PROVE NSInv
  OBVIOUS
<1>1. TypeOK
  <2>1. loop \in [Server -> [Slot -> [pc : PCs, live : BOOLEAN]]]
    BY DEF Init, NoRoutine, PCs
  <2>2. errChan \in Seq({"nil", "error"}) /\ Len(errChan) <= Cardinality(Port)
    BY Ports DEF Init
  <2>3. /\ listener \in [Server -> BOOLEAN] /\ bound \in [Server -> BOOLEAN]
        /\ mutexLost \in [Server -> BOOLEAN] /\ EmergencyLockDown \in BOOLEAN
        /\ late \in [Server -> [Slot -> Nat]]
    BY DEF Init
  <2>4. /\ awaiting \in 0 .. Cardinality(Port) /\ delaySec \in 0 .. MaxDelay
        /\ stops \in 0 .. MaxStops /\ faults \in 0 .. MaxFaults
    BY Ports, PortAssumption DEF Init
  <2> QED
    BY <2>1, <2>2, <2>3, <2>4 DEF TypeOK, PCs, Init
<1>2. \A s \in Server, g \in Slot : loop[s][g] = NoRoutine /\ late[s][g] = 0
  BY DEF Init
<1>3. OpenIsReachable
  BY DEF Init, OpenIsReachable
<1>4. LateInv
  BY <1>2 DEF LateInv
<1>5. \A s \in Server, g \in Slot : ~loop[s][g].live
  BY <1>2 DEF NoRoutine
<1>6. LiveInv
  BY <1>5 DEF LiveInv
<1>7. CountInv
  <2>1. Count("tcp") = 0 /\ Count("udp") = 0
    BY <1>5 DEF Count, Live, Server
  <2> QED
    BY <2>1 DEF CountInv, Init
<1> QED
  BY <1>1, <1>3, <1>4, <1>6, <1>7 DEF NSInv

(* One lemma per kind of step.                                             *)
LEMMA ReturnStep ==
  ASSUME NSInv, NEW s \in Server, NEW g \in Slot, NEW result \in {"nil", "error"},
         loop[s][g].pc # "none", ReturnWith(s, g, result),
         UNCHANGED <<daemonVars, outsideVars, bound>>, faults' \in 0 .. MaxFaults,
         mutexLost' \in [Server -> BOOLEAN], listener' \in [Server -> BOOLEAN], OpenIsReachable'
  PROVE  NSInv'
<1>1. /\ loop' \in LoopType /\ late' \in [Server -> [Slot -> Nat]]
      /\ errChan' \in Seq({"nil", "error"}) /\ Len(errChan') <= Cardinality(Port)
      /\ LateInv' /\ LiveInv' /\ CountInv'
  BY ReturnKeeps DEF outsideVars
<1>2. TypeOK'
  BY <1>1 DEF NSInv, TypeOK, LoopType, Routine, PCs, daemonVars, outsideVars
<1> QED
  BY <1>1, <1>2 DEF NSInv

LEMMA GotoStep ==
  ASSUME NSInv, NEW s \in Server, NEW g \in Slot, NEW pc \in PCs, pc # "none", Goto(s, g, pc),
         late' \in [Server -> [Slot -> Nat]], LateInv',
         UNCHANGED <<daemonVars, outsideVars, mutexLost, faults>>,
         listener' \in [Server -> BOOLEAN], bound' \in [Server -> BOOLEAN], OpenIsReachable'
  PROVE  NSInv'
<1>1. loop \in LoopType /\ LiveInv /\ CountInv
  BY LoopTyped DEF NSInv
<1>2. loop' \in LoopType /\ Relabelled
  BY <1>1, GotoRelabels
<1>3. errChan' = errChan
  BY DEF Goto
<1>4. LiveInv' /\ CountInv'
  BY <1>1, <1>2, <1>3, RelabelledKeeps, CountKept DEF daemonVars
<1>5. TypeOK'
  BY <1>2, <1>3 DEF NSInv, TypeOK, LoopType, Routine, PCs, daemonVars, outsideVars
<1> QED
  BY <1>4, <1>5 DEF NSInv

LEMMA StopStep ==
  ASSUME NSInv, NEW s \in Server, StopServer(s),
         UNCHANGED <<late, EmergencyLockDown, mutexLost, errChan, awaiting, delaySec, stops, faults>>,
         daemon' = daemon \/ (daemon \in {"stopTCP", "stopUDP"} /\ daemon' \in {"stopUDP", "sleep"}),
         stopper' \in {"idle", "stopTCP", "stopUDP"}
  PROVE  NSInv'
<1>1. LiveInv /\ CountInv
  BY DEF NSInv
<1>2. /\ loop' \in LoopType /\ Relabelled
      /\ listener' \in [Server -> BOOLEAN] /\ bound' \in [Server -> BOOLEAN]
      /\ OpenIsReachable' /\ LateInv'
  BY StopEffect
<1>3. LiveInv' /\ \A t \in Server : Count(t)' = Count(t)
  BY <1>1, <1>2, RelabelledKeeps
<1>4. daemon' \notin {"waiting", "panicked"} => daemon \notin {"waiting", "panicked"}
  OBVIOUS
<1>5. CountInv'
  BY <1>1, <1>3, <1>4, CountKept
<1>6. TypeOK'
  BY <1>2 DEF NSInv, TypeOK, LoopType, Routine, PCs
<1> QED
  BY <1>2, <1>3, <1>5, <1>6 DEF NSInv

(* A step that leaves the goroutines alone.                                *)
LEMMA QuietStep ==
  ASSUME NSInv, UNCHANGED <<loop, errChan, awaiting, serverVars, faults, late>>,
         EmergencyLockDown' \in BOOLEAN, EmergencyLockDown => EmergencyLockDown',
         daemon' \in {"restart", "waiting", "stopTCP", "stopUDP", "sleep", "ended", "panicked"},
         daemon' \notin {"waiting", "panicked"} => daemon \notin {"waiting", "panicked"},
         delaySec' \in 0 .. MaxDelay, stopper' \in {"idle", "stopTCP", "stopUDP"},
         stops' \in 0 .. MaxStops
  PROVE  NSInv'
<1>1. TypeOK'
  BY DEF NSInv, TypeOK, serverVars
<1>2. OpenIsReachable' /\ LateInv' /\ LiveInv'
  BY DEF NSInv, OpenIsReachable, LateInv, LiveInv, serverVars
<1>3. \A t \in Server : Count(t)' = Count(t)
  BY DEF Count, Live
<1>4. CountInv'
  BY <1>3, CountKept DEF NSInv
<1> QED
  BY <1>1, <1>2, <1>4 DEF NSInv

(* A new round: each configured server gets a goroutine, and StartAndBlock *)
(* waits for as many results.                                              *)
LEMMA RestartStep == ASSUME NSInv, Restart PROVE NSInv'
<1>1. CASE EmergencyLockDown
  <2>1. /\ daemon' = "ended" /\ daemon = "restart"
        /\ UNCHANGED <<loop, errChan, awaiting, serverVars, outsideVars, delaySec, faults, late>>
    BY <1>1 DEF Restart
  <2> QED
    BY <2>1, QuietStep DEF NSInv, TypeOK, outsideVars
<1>2. CASE ~EmergencyLockDown
  <2> DEFINE new == [pc |-> "start", live |-> TRUE]
  <2>1. /\ daemon = "restart" /\ daemon' = "waiting" /\ ~OutOfSlots
        /\ errChan' = <<>> /\ awaiting' = Cardinality(Port)
        /\ loop' = [s \in Server |-> IF s \in Port THEN [loop[s] EXCEPT ![FreeSlot(s)] = new]
                                     ELSE loop[s]]
        /\ UNCHANGED <<serverVars, outsideVars, delaySec, faults, late>>
    BY <1>2 DEF Restart
  <2>2. /\ loop \in LoopType /\ LateInv /\ LiveInv /\ OpenIsReachable
        /\ errChan \in Seq({"nil", "error"})
    BY LoopTyped DEF NSInv, TypeOK
  <2>3. new \in Routine /\ new.pc = "start" /\ new.live
    BY DEF Routine, PCs
  <2> HIDE DEF new
  <2>4. ASSUME NEW s \in Port PROVE FreeSlot(s) \in Slot /\ loop[s][FreeSlot(s)].pc = "none"
    BY <2>1 DEF OutOfSlots, FreeSlot
  <2>5. \A s \in Server, g \in Slot : ~loop[s][g].live
    <3>1. Count("tcp") + Count("udp") + Len(errChan) <= 0
      BY <2>1 DEF NSInv, CountInv
    <3>2. Count("tcp") \in 0 .. 1 /\ Count("udp") \in 0 .. 1 /\ Len(errChan) \in Nat
      BY <2>2 DEF Count
    <3>3. Count("tcp") = 0 /\ Count("udp") = 0
      BY <3>1, <3>2
    <3> QED
      BY <3>3 DEF Count, Live, Server
  <2>6. Port \subseteq Server
    BY PortAssumption DEF Server
  <2>7. loop' \in LoopType
    <3>1. \A s \in Port : [loop[s] EXCEPT ![FreeSlot(s)] = new] \in [Slot -> Routine]
      BY <2>2, <2>3, <2>4, <2>6 DEF LoopType
    <3> QED
      BY <2>1, <2>2, <3>1 DEF LoopType
  <2>8. \A s \in Server, g \in Slot :
          IF s \in Port /\ g = FreeSlot(s) THEN loop'[s][g] = new ELSE loop'[s][g] = loop[s][g]
    BY <2>1, <2>2, <2>4 DEF LoopType
  <2>9. LateInv'
    <3> SUFFICES ASSUME NEW s \in Server, NEW g \in Slot
                 PROVE  /\ late[s][g] \in 0 .. 1
                        /\ late[s][g] = 1 => loop'[s][g].pc = "check" /\ EmergencyLockDown
      BY <2>1 DEF LateInv, outsideVars
    <3>1. CASE s \in Port /\ g = FreeSlot(s)
      <4>1. loop[s][g].pc = "none"
        BY <2>4, <3>1
      <4> QED
        BY <2>2, <4>1 DEF LateInv
    <3>2. CASE ~(s \in Port /\ g = FreeSlot(s))
      BY <2>2, <2>8, <3>2 DEF LateInv
    <3> QED
      BY <3>1, <3>2
  <2>10. \A s \in Server, g \in Slot :
           loop'[s][g].live => s \in Port /\ g = FreeSlot(s) /\ loop'[s][g].pc = "start"
    BY <2>3, <2>5, <2>8
  <2>11. LiveInv'
    <3>1. \A s \in Server, g \in Slot : loop'[s][g].live => loop'[s][g].pc # "none"
      BY <2>10
    <3>2. \A s \in Server, g \in Slot, h \in Slot : loop'[s][g].live /\ loop'[s][h].live => g = h
      BY <2>10
    <3> QED
      BY <3>1, <3>2 DEF LiveInv
  <2>12. CountInv'
    <3>1. \A s \in Server : Count(s)' \in 0 .. 1 /\ (s \notin Port => Count(s)' = 0)
      BY <2>10 DEF Count, Live
    <3>2. "tcp" \in Port /\ "udp" \in Port => Port = Server
      BY <2>6 DEF Server
    <3>3. Count("tcp")' + Count("udp")' <= Cardinality(Port)
      BY <3>1, <3>2, Ports DEF Server
    <3>4. Len(errChan') = 0
      BY <2>1
    <3> QED
      BY <2>1, <3>1, <3>3, <3>4, Ports DEF CountInv, Server
  <2>13. TypeOK'
    <3>1. errChan' \in Seq({"nil", "error"}) /\ Len(errChan') <= Cardinality(Port)
      BY <2>1, Ports
    <3>2. awaiting' \in 0 .. Cardinality(Port)
      BY <2>1, Ports
    <3> QED
      BY <2>1, <2>7, <3>1, <3>2
      DEF NSInv, TypeOK, LoopType, Routine, PCs, serverVars, outsideVars
  <2>14. OpenIsReachable'
    BY <2>1, <2>2 DEF OpenIsReachable, serverVars
  <2> QED
    BY <2>9, <2>11, <2>12, <2>13, <2>14 DEF NSInv
<1> QED
  BY <1>1, <1>2

LEMMA CollectStep == ASSUME NSInv, Collect PROVE NSInv'
<1>1. /\ loop \in LoopType /\ LateInv /\ LiveInv /\ CountInv /\ OpenIsReachable
      /\ errChan \in Seq({"nil", "error"}) /\ Len(errChan) <= Cardinality(Port)
      /\ awaiting \in 0 .. Cardinality(Port)
  BY LoopTyped DEF NSInv, TypeOK
<1>2. /\ daemon = "waiting" /\ errChan # <<>>
      /\ UNCHANGED <<serverVars, outsideVars, delaySec, faults, late>>
  BY DEF Collect
<1>3. OpenIsReachable'
  BY <1>1, <1>2 DEF OpenIsReachable, serverVars
<1>4. CASE /\ errChan' = Tail(errChan) /\ awaiting' = awaiting - 1 /\ UNCHANGED loop
           /\ daemon' = IF awaiting = 1 THEN "ended" ELSE "waiting"
  <2>1. /\ errChan' \in Seq({"nil", "error"}) /\ Len(errChan') = Len(errChan) - 1
        /\ Len(errChan) \in Nat \ {0}
    BY <1>1, <1>2, <1>4
  <2>2. Count("tcp") + Count("udp") + Len(errChan) <= awaiting
    BY <1>1 DEF CountInv
  <2>3. Count("tcp") \in 0 .. 1 /\ Count("udp") \in 0 .. 1
    BY DEF Count
  <2>4. Count("tcp")' = Count("tcp") /\ Count("udp")' = Count("udp")
    BY <1>4 DEF Count, Live
  <2>5. awaiting' \in 0 .. Cardinality(Port)
    BY <1>1, <1>4, <2>1, <2>2, <2>3, Ports
  <2>6. CountInv'
    BY <1>1, <1>4, <2>1, <2>2, <2>3, <2>4, Ports DEF CountInv
  <2>7. TypeOK'
    <3>1. Len(errChan') <= Cardinality(Port)
      BY <1>1, <2>1, Ports
    <3>2. daemon' \in {"ended", "waiting"}
      BY <1>4
    <3> QED
      BY <1>2, <1>4, <2>1, <2>5, <3>1, <3>2 DEF NSInv, TypeOK, serverVars, outsideVars
  <2>8. LateInv' /\ LiveInv'
    BY <1>1, <1>2, <1>4 DEF LateInv, LiveInv, outsideVars
  <2> QED
    BY <1>3, <2>6, <2>7, <2>8 DEF NSInv
<1>5. CASE /\ errChan' = <<>> /\ awaiting' = 0 /\ daemon' = (IF Direct THEN "sleep" ELSE "stopTCP")
           /\ loop' = [s \in Server |-> [g \in Slot |-> [loop[s][g] EXCEPT !.live = FALSE]]]
  <2> DEFINE gone(s, g) == [loop[s][g] EXCEPT !.live = FALSE]
  <2>1. ASSUME NEW s \in Server, NEW g \in Slot
        PROVE  gone(s, g) \in Routine /\ ~gone(s, g).live /\ gone(s, g).pc = loop[s][g].pc
    <3>1. loop[s][g] \in [pc : PCs, live : BOOLEAN]
      BY <1>1 DEF LoopType, Routine
    <3>2. ASSUME NEW r \in [pc : PCs, live : BOOLEAN]
          PROVE  [r EXCEPT !.live = FALSE] \in [pc : PCs, live : BOOLEAN]
      OBVIOUS
    <3>3. ASSUME NEW r \in [pc : PCs, live : BOOLEAN]
          PROVE  [r EXCEPT !.live = FALSE].pc = r.pc
      OBVIOUS
    <3>4. ASSUME NEW r \in [pc : PCs, live : BOOLEAN]
          PROVE  ~[r EXCEPT !.live = FALSE].live
      OBVIOUS
    <3> QED
      BY <3>1, <3>2, <3>3, <3>4 DEF Routine
  <2>2. loop' = [s \in Server |-> [g \in Slot |-> gone(s, g)]]
    BY <1>5
  <2> HIDE DEF gone
  <2>3. loop' \in LoopType
    BY <2>1, <2>2 DEF LoopType
  <2>4. \A s \in Server, g \in Slot : ~loop'[s][g].live /\ loop'[s][g].pc = loop[s][g].pc
    BY <2>1, <2>2
  <2>5. LiveInv'
    BY <2>4 DEF LiveInv
  <2>6. LateInv'
    BY <1>1, <1>2, <2>4 DEF LateInv, outsideVars
  <2>7. CountInv'
    <3>1. Count("tcp")' = 0 /\ Count("udp")' = 0
      BY <2>4 DEF Count, Live, Server
    <3>2. Len(errChan') = 0
      BY <1>5
    <3> QED
      BY <1>5, <3>1, <3>2 DEF CountInv
  <2>8. TypeOK'
    <3>1. errChan' \in Seq({"nil", "error"}) /\ Len(errChan') <= Cardinality(Port)
      BY <1>5, Ports
    <3>2. daemon' \in {"sleep", "stopTCP"} /\ awaiting' \in 0 .. Cardinality(Port)
      BY <1>5, Ports
    <3> QED
      BY <1>2, <2>3, <3>1, <3>2
      DEF NSInv, TypeOK, LoopType, Routine, PCs, serverVars, outsideVars
  <2> QED
    BY <1>3, <2>5, <2>6, <2>7, <2>8 DEF NSInv
<1> QED
  BY <1>4, <1>5 DEF Collect

LEMMA RoutineStep ==
  ASSUME NSInv, NEW s \in Server, NEW g \in Slot,
         LoopStep(s, g) \/ AcceptClient(s, g) \/ AcceptFails(s, g)
  PROVE  NSInv'
<1>0. /\ loop \in LoopType /\ LateInv /\ OpenIsReachable
      /\ listener \in [Server -> BOOLEAN] /\ bound \in [Server -> BOOLEAN]
      /\ mutexLost \in [Server -> BOOLEAN] /\ late \in [Server -> [Slot -> Nat]]
      /\ faults \in 0 .. MaxFaults
  BY LoopTyped DEF NSInv, TypeOK
<1>1. CASE StartSecondTime(s, g)
  <2>1. /\ loop[s][g].pc # "none" /\ ReturnWith(s, g, "error")
        /\ UNCHANGED <<serverVars, daemonVars, outsideVars, faults>>
    BY <1>1 DEF StartSecondTime, At
  <2>2. OpenIsReachable' /\ UNCHANGED <<listener, bound, mutexLost>>
    BY <1>0, <2>1 DEF OpenIsReachable, serverVars
  <2> QED
    BY <1>0, <2>1, <2>2, ReturnStep
<1>2. CASE s = "udp" /\ ResolveFails(g)
  <2>1. /\ loop[s][g].pc # "none" /\ ReturnWith(s, g, "error") /\ faults' = faults + 1
        /\ faults < MaxFaults /\ mutexLost' = [mutexLost EXCEPT !["udp"] = TRUE]
        /\ UNCHANGED <<daemonVars, outsideVars, listener, bound>>
    BY <1>2 DEF ResolveFails, At, CanFail
  <2>2. OpenIsReachable'
    BY <1>0, <2>1 DEF OpenIsReachable
  <2>3. mutexLost' \in [Server -> BOOLEAN]
    BY <1>0, <2>1
  <2>4. faults' \in 0 .. MaxFaults
    BY <1>0, <2>1, PortAssumption
  <2> QED
    BY <1>0, <2>1, <2>2, <2>3, <2>4, ReturnStep
<1>3. CASE ListenFails(s, g)
  <2>1. /\ loop[s][g].pc # "none" /\ ReturnWith(s, g, "error") /\ ~listener[s]
        /\ faults' = faults \/ (faults < MaxFaults /\ faults' = faults + 1)
        /\ listener' = [listener EXCEPT ![s] = FALSE]
        /\ UNCHANGED <<daemonVars, outsideVars, bound, mutexLost>>
    BY <1>3 DEF ListenFails, At, CanFail, MayListen
  <2>2. faults' \in 0 .. MaxFaults
    BY <1>0, <2>1, PortAssumption
  <2>3. OpenIsReachable' /\ listener' \in [Server -> BOOLEAN]
    BY <1>0, <2>1 DEF OpenIsReachable
  <2> QED
    BY <1>0, <2>1, <2>2, <2>3, ReturnStep
<1>4. CASE ListenSucceeds(s, g)
  <2>1. /\ loop[s][g].pc = "start" /\ Goto(s, g, "check") /\ "check" \in PCs
        /\ listener' = [listener EXCEPT ![s] = TRUE] /\ bound' = [bound EXCEPT ![s] = TRUE]
        /\ UNCHANGED <<daemonVars, outsideVars, mutexLost, faults, late>>
    BY <1>4 DEF ListenSucceeds, At, PCs
  <2>2. late[s][g] = 0
    BY <1>0, <2>1 DEF LateInv
  <2>3. LateInv'
    BY <1>0, <2>1, <2>2, GotoKeepsLate DEF outsideVars
  <2>4. /\ OpenIsReachable' /\ listener' \in [Server -> BOOLEAN] /\ bound' \in [Server -> BOOLEAN]
    BY <1>0, <2>1 DEF OpenIsReachable
  <2> QED
    BY <1>0, <2>1, <2>3, <2>4, GotoStep
<1>5. CASE CheckLockDown(s, g)
  <2>1. loop[s][g].pc = "check" /\ UNCHANGED <<serverVars, daemonVars, outsideVars, faults>>
    BY <1>5 DEF CheckLockDown, At
  <2>2. OpenIsReachable' /\ UNCHANGED <<listener, bound, mutexLost>>
    BY <1>0, <2>1 DEF OpenIsReachable, serverVars
  <2>3. CASE EmergencyLockDown /\ ReturnWith(s, g, "error")
    BY <1>0, <2>1, <2>2, <2>3, ReturnStep
  <2>4. CASE ~EmergencyLockDown /\ Goto(s, g, "fetch") /\ UNCHANGED late
    <3>1. late[s][g] = 0 /\ "fetch" \in PCs
      BY <1>0, <2>4 DEF LateInv, PCs
    <3>2. LateInv'
      BY <1>0, <2>1, <2>4, <3>1, GotoKeepsLate DEF outsideVars
    <3> QED
      BY <1>0, <2>1, <2>2, <2>4, <3>1, <3>2, GotoStep
  <2> QED
    BY <1>5, <2>3, <2>4 DEF CheckLockDown
<1>6. CASE FetchListener(s, g)
  <2>1. /\ loop[s][g].pc = "fetch"
        /\ UNCHANGED <<serverVars, outsideVars, awaiting, delaySec, faults>>
    BY <1>6 DEF FetchListener, At
  <2>2. OpenIsReachable' /\ UNCHANGED <<listener, bound, mutexLost>>
    BY <1>0, <2>1 DEF OpenIsReachable, serverVars
  <2>3. CASE Goto(s, g, "accept") /\ UNCHANGED <<daemon, late>>
    <3>1. late[s][g] = 0 /\ "accept" \in PCs
      BY <1>0, <2>1 DEF LateInv, PCs
    <3>2. LateInv'
      BY <1>0, <2>1, <2>3, <3>1, GotoKeepsLate DEF outsideVars
    <3> QED
      BY <1>0, <2>1, <2>2, <2>3, <3>1, <3>2, GotoStep DEF daemonVars
  <2>4. CASE daemon' = "panicked" /\ UNCHANGED <<loop, errChan, late>>
    BY <2>1, <2>4, QuietStep DEF NSInv, TypeOK, outsideVars
  <2>5. CASE ReturnWith(s, g, "error") /\ UNCHANGED daemon
    BY <1>0, <2>1, <2>2, <2>5, ReturnStep DEF daemonVars
  <2> QED
    BY <1>6, <2>3, <2>4, <2>5 DEF FetchListener
<1>7. CASE AcceptClosed(s, g)
  <2>1. /\ loop[s][g].pc # "none" /\ ReturnWith(s, g, "nil")
        /\ UNCHANGED <<serverVars, daemonVars, outsideVars, faults>>
    BY <1>7 DEF AcceptClosed, At
  <2>2. OpenIsReachable' /\ UNCHANGED <<listener, bound, mutexLost>>
    BY <1>0, <2>1 DEF OpenIsReachable, serverVars
  <2> QED
    BY <1>0, <2>1, <2>2, ReturnStep
<1>8. CASE AcceptClient(s, g)
  <2>1. /\ loop[s][g].pc = "accept" /\ Goto(s, g, "check") /\ "check" \in PCs
        /\ late' = IF EmergencyLockDown THEN [late EXCEPT ![s][g] = @ + 1] ELSE late
        /\ UNCHANGED <<serverVars, daemonVars, outsideVars, faults>>
    BY <1>8 DEF AcceptClient, At, PCs
  <2>2. OpenIsReachable' /\ UNCHANGED <<listener, bound, mutexLost>>
    BY <1>0, <2>1 DEF OpenIsReachable, serverVars
  <2>3. late[s][g] = 0
    BY <1>0, <2>1 DEF LateInv
  <2>4. CASE ~EmergencyLockDown
    <3>1. LateInv'
      BY <1>0, <2>1, <2>3, <2>4, GotoKeepsLate DEF outsideVars
    <3> QED
      BY <1>0, <2>1, <2>2, <2>4, <3>1, GotoStep DEF serverVars
  <2>5. CASE EmergencyLockDown
    <3>1. late' = [late EXCEPT ![s][g] = 1]
      BY <2>1, <2>3, <2>5
    <3>2. /\ late' \in [Server -> [Slot -> Nat]] /\ late'[s][g] = 1
          /\ \A t \in Server, h \in Slot : t # s \/ h # g => late'[t][h] = late[t][h]
      BY <1>0, <3>1
    <3>3. /\ loop'[s][g].pc = "check"
          /\ \A t \in Server, h \in Slot : t # s \/ h # g => loop'[t][h] = loop[t][h]
      <4>1. /\ loop'[s][g] = [pc |-> "check", live |-> loop[s][g].live]
            /\ \A t \in Server, h \in Slot : t # s \/ h # g => loop'[t][h] = loop[t][h]
        BY <1>0, <2>1, GotoEffect
      <4> QED
        BY <4>1
    <3>4. LateInv'
      <4> SUFFICES ASSUME NEW t \in Server, NEW h \in Slot
                   PROVE  /\ late'[t][h] \in 0 .. 1
                          /\ late'[t][h] = 1 => loop'[t][h].pc = "check" /\ EmergencyLockDown'
        BY DEF LateInv
      <4>1. CASE t = s /\ h = g
        BY <2>1, <2>5, <3>2, <3>3, <4>1 DEF outsideVars
      <4>2. CASE t # s \/ h # g
        BY <1>0, <2>1, <3>2, <3>3, <4>2 DEF LateInv, outsideVars
      <4> QED
        BY <4>1, <4>2
    <3> QED
      BY <1>0, <2>1, <2>2, <3>2, <3>4, GotoStep
  <2> QED
    BY <2>4, <2>5
<1>9. CASE AcceptFails(s, g)
  <2>1. /\ loop[s][g].pc # "none" /\ ReturnWith(s, g, "error") /\ faults' = faults + 1
        /\ faults < MaxFaults /\ UNCHANGED <<serverVars, daemonVars, outsideVars>>
    BY <1>9 DEF AcceptFails, At, CanFail
  <2>2. /\ OpenIsReachable' /\ UNCHANGED <<listener, bound, mutexLost>>
        /\ faults' \in 0 .. MaxFaults
    BY <1>0, <2>1, PortAssumption DEF OpenIsReachable, serverVars
  <2> QED
    BY <1>0, <2>1, <2>2, ReturnStep
<1> QED
  BY <1>1, <1>2, <1>3, <1>4, <1>5, <1>6, <1>7, <1>8, <1>9 DEF LoopStep

LEMMA NSPreserved == NSInv /\ [Next]_vars => NSInv'
<1>1. ASSUME NSInv, StopAfterError PROVE NSInv'
  <2>1. PICK s \in Server : StopServer(s)
    BY <1>1 DEF StopAfterError, Server
  <2>2. /\ UNCHANGED <<late, EmergencyLockDown, mutexLost, errChan, awaiting, delaySec, stops, faults>>
        /\ daemon \in {"stopTCP", "stopUDP"} /\ daemon' \in {"stopUDP", "sleep"}
        /\ stopper' \in {"idle", "stopTCP", "stopUDP"}
    BY <1>1 DEF StopAfterError, outsideVars, NSInv, TypeOK
  <2> QED
    BY <1>1, <2>1, <2>2, StopStep
<1>2. ASSUME NSInv, StopCalled PROVE NSInv'
  <2>1. PICK s \in Server : StopServer(s)
    BY <1>2 DEF StopCalled, Server
  <2>2. /\ UNCHANGED <<late, EmergencyLockDown, mutexLost, errChan, awaiting, delaySec, stops, faults>>
        /\ daemon' = daemon /\ stopper' \in {"idle", "stopTCP", "stopUDP"}
    BY <1>2 DEF StopCalled, daemonVars
  <2> QED
    BY <1>2, <2>1, <2>2, StopStep
<1>3. ASSUME NSInv, WakeUp PROVE NSInv'
  <2>1. /\ UNCHANGED <<loop, errChan, awaiting, serverVars, faults, late, outsideVars>>
        /\ daemon = "sleep" /\ daemon' = "restart"
    BY <1>3 DEF WakeUp
  <2>2. delaySec' \in 0 .. MaxDelay
    <3>1. delaySec \in 0 .. MaxDelay /\ MaxDelay \in Nat
      BY <1>3, PortAssumption DEF NSInv, TypeOK
    <3> QED
      BY <1>3, <3>1 DEF WakeUp
  <2> QED
    BY <1>3, <2>1, <2>2, QuietStep DEF outsideVars, NSInv, TypeOK
<1>4. ASSUME NSInv, CallStop PROVE NSInv'
  <2>1. /\ UNCHANGED <<loop, errChan, serverVars, faults, late, daemonVars, EmergencyLockDown>>
        /\ stopper' = "stopTCP"
    BY <1>4 DEF CallStop
  <2>2. stops' \in 0 .. MaxStops
    BY <1>4, PortAssumption DEF CallStop, NSInv, TypeOK
  <2> QED
    BY <1>4, <2>1, <2>2, QuietStep DEF daemonVars, NSInv, TypeOK
<1>5. ASSUME NSInv, TriggerEmergencyLockDown PROVE NSInv'
  <2>1. /\ UNCHANGED <<loop, errChan, serverVars, faults, late, daemonVars, stopper, stops>>
        /\ EmergencyLockDown'
        /\ EmergencyLockDown' \in BOOLEAN
    BY <1>5 DEF TriggerEmergencyLockDown
  <2> QED
    BY <1>5, <2>1, QuietStep DEF daemonVars, NSInv, TypeOK
<1>6. ASSUME NSInv, UNCHANGED vars PROVE NSInv'
  <2>1. /\ UNCHANGED <<loop, errChan, serverVars, faults, late, daemonVars, outsideVars>>
    BY <1>6 DEF vars
  <2> QED
    BY <1>6, <2>1, QuietStep DEF daemonVars, outsideVars, NSInv, TypeOK
<1> QED
  BY <1>1, <1>2, <1>3, <1>4, <1>5, <1>6, RoutineStep, RestartStep, CollectStep DEF Next, DaemonStep

(* Whatever fails, is stopped or is left over from earlier rounds, an open *)
(* socket of a server is one that its Stop closes, and a goroutine that    *)
(* waits in Accept lets in one client at most after a lock-down            *)
(* (StartAndBlock and Stop of tcpsrv.go and udpsrv.go).                    *)
THEOREM ListenersAlwaysInOrder == Spec => []ListenersInOrder
<1>1. NSInv => ListenersInOrder
  BY DEF NSInv, ListenersInOrder, LateInv, OneLateClient
<1> QED
  BY <1>1, NSInitial, NSPreserved, PTL DEF Spec
=============================================================================
