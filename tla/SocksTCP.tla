------------------------------- MODULE SocksTCP -------------------------------
(***************************************************************************)
(* A TCP conversation of the SOCKS server (daemon/sockd): the request is   *)
(* parsed and checked, the destination is dialled, and two goroutines copy *)
(* the data, each closing the connection it writes to when it ends.  Data  *)
(* to the client goes through WriteWithRetry, which writes a buffer in     *)
(* portions.                                                               *)
(***************************************************************************)
EXTENDS Integers, FiniteSets

CONSTANTS
  MaxPortions,      \* RandNum(1, 0, 4): a buffer is divided into 1 .. MaxPortions
  MaxWriteAttempts  \* 3

ASSUME STAssumption == MaxPortions \in Nat /\ MaxWriteAttempts \in Nat \ {0}

VARIABLES
  client, dest,     \* the connections: none, open, ended by the peer, closed
  upPipe,           \* PipeTCPConnection(conn, dest, true)
  downPipe,         \* PipeTCPConnection(dest, conn, false)
  wr                \* WriteWithRetry of downPipe: one buffer

stVars == <<client, dest, upPipe, downPipe, wr>>

NoWrite == [portions |-> 0, at |-> 0, tries |-> 0, sent |-> {}, err |-> FALSE]

STInit ==
  /\ client = "none" /\ dest = "none"
  /\ upPipe = "off" /\ downPipe = "off" /\ wr = NoWrite

(* ParseRequest and the checks of HandleTCPConnection: a bad request is    *)
(* answered with random data, a reserved or black listed destination and   *)
(* one that cannot be dialled are not answered.                            *)
ParseRequest == {"malformed", "reserved", "black listed", "unreachable", "good"}
HandleTCPConnection ==
  /\ client = "none"
  /\ \E request \in ParseRequest :
       IF request = "good"
       THEN /\ client' = "open" /\ dest' = "open"
            /\ upPipe' = "read" /\ downPipe' = "read"
       ELSE /\ client' = "closed" /\ dest' = "closed"
            /\ UNCHANGED <<upPipe, downPipe>>
  /\ UNCHANGED wr

(* The peers end the connection in their own time.                         *)
PeerEnds ==
  /\ \/ client = "open" /\ client' = "ended" /\ UNCHANGED dest
     \/ dest = "open" /\ dest' = "ended" /\ UNCHANGED client
  /\ UNCHANGED <<upPipe, downPipe, wr>>

-----------------------------------------------------------------------------
PipeUpWithoutClosing ==
  /\ upPipe \in {"read", "write", "rand"}
  /\ \/ upPipe = "read" /\ client = "open" /\ upPipe' = "write"
     \/ upPipe = "write" /\ dest = "open" /\ upPipe' = "read"
     \/ upPipe' = "done"
  /\ UNCHANGED dest

(* The goroutine from the client: data is written to the destination, an   *)
(* error (the deadline, too) leads to random data and the end; lock-down   *)
(* and a failed write lead to the end.                                     *)
PipeUp ==
  \/ /\ upPipe = "read"
     /\ \/ client = "open" /\ upPipe' = "write"
        \/ upPipe' = "rand"
        \/ upPipe' = "return"                     \* lock-down
     /\ UNCHANGED dest
  \/ /\ upPipe = "write"
     /\ \/ dest = "open" /\ upPipe' = "read"
        \/ upPipe' = "return"
     /\ UNCHANGED dest
  \/ /\ upPipe = "rand"                           \* WriteRand
     /\ upPipe' = "return" /\ UNCHANGED dest
  \/ /\ upPipe = "return"
     /\ upPipe' = "done" /\ dest' = "closed"
StepUp == PipeUp /\ UNCHANGED <<client, downPipe, wr>>

(* The goroutine from the destination.                                     *)
PipeDown ==
  \/ /\ downPipe = "read"
     /\ \/ /\ dest = "open" /\ downPipe' = "write"
           /\ \E n \in 1 .. MaxPortions :
                wr' = [portions |-> n, at |-> 1, tries |-> 0, sent |-> {}, err |-> FALSE]
        \/ downPipe' = "return" /\ UNCHANGED wr
     /\ UNCHANGED client
  \/ /\ downPipe = "write" /\ wr.at > wr.portions \* WriteWithRetry has returned
     /\ downPipe' = IF wr.err THEN "return" ELSE "read"
     /\ UNCHANGED <<client, wr>>
  \/ /\ downPipe = "return"
     /\ downPipe' = "done" /\ client' = "closed" /\ UNCHANGED wr
StepDown == PipeDown /\ UNCHANGED <<dest, upPipe>>

(* WriteWithRetry: a portion is written, or not at all (and tried again),  *)
(* or in part, which ends the connection.  The attempts are counted over   *)
(* all portions.                                                           *)
WriteFreshAttempts ==
  \/ /\ wr.tries < MaxWriteAttempts
     /\ \/ client = "open" /\ wr' = [wr EXCEPT !.sent = @ \cup {wr.at}, !.at = @ + 1, !.err = FALSE, !.tries = 0]
           /\ UNCHANGED client
        \/ wr' = [wr EXCEPT !.tries = @ + 1, !.err = TRUE] /\ UNCHANGED client
  \/ /\ wr.tries = MaxWriteAttempts
     /\ wr' = [wr EXCEPT !.at = @ + 1, !.tries = 0] /\ UNCHANGED client
WriteWithRetry ==
  \/ /\ wr.tries < MaxWriteAttempts
     /\ \/ /\ client = "open"
           /\ wr' = [wr EXCEPT !.sent = @ \cup {wr.at}, !.at = @ + 1, !.err = FALSE]
           /\ UNCHANGED client
        \/ wr' = [wr EXCEPT !.tries = @ + 1, !.err = TRUE] /\ UNCHANGED client
        \/ wr' = [wr EXCEPT !.at = wr.portions + 1, !.err = TRUE] /\ client' = "closed"
  \/ /\ wr.tries = MaxWriteAttempts               \* no attempt is left
     /\ wr' = [wr EXCEPT !.at = @ + 1] /\ UNCHANGED client
StepWrite ==
  /\ downPipe = "write" /\ wr.at <= wr.portions
  /\ WriteWithRetry
  /\ UNCHANGED <<dest, upPipe, downPipe>>

STNext == HandleTCPConnection \/ PeerEnds \/ StepUp \/ StepDown \/ StepWrite

STSpec == STInit /\ [][STNext]_stVars

(* Reads and writes have deadlines, so that no goroutine is blocked for    *)
(* good.                                                                   *)
STFairness == WF_stVars(StepUp) /\ WF_stVars(StepDown) /\ WF_stVars(StepWrite)

-----------------------------------------------------------------------------
(* The client never sees a hole in its data: the portions that reach it    *)
(* are the first ones of a buffer, and all of them unless the write is     *)
(* reported as failed, which ends the conversation (WriteWithRetry,        *)
(* PipeTCPConnection).                                                     *)
StreamHasNoHole ==
  /\ wr.sent = 1 .. Cardinality(wr.sent)
  /\ wr.at > wr.portions /\ ~wr.err => wr.sent = 1 .. wr.portions

(* When one side of a conversation has ended, both connections are closed  *)
(* and both goroutines are gone in the end (PipeTCPConnection).            *)
BothSidesEnd ==
  (client \in {"ended", "closed"} \/ dest \in {"ended", "closed"}) ~>
    (client = "closed" /\ dest = "closed" /\ upPipe \in {"off", "done"} /\ downPipe \in {"off", "done"})
===============================================================================
