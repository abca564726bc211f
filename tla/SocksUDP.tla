------------------------------- MODULE SocksUDP -------------------------------
(***************************************************************************)
(* The UDP side of the SOCKS server (daemon/sockd/udp.go).  Each client    *)
(* has a socket in udpTable and a goroutine that passes on what arrives at *)
(* it; packets are handled concurrently.  A goroutine that clears the      *)
(* table may or may not run: it ends at once when it is scheduled before   *)
(* the server listens.                                                     *)
(***************************************************************************)
EXTENDS Naturals, FiniteSets

CONSTANTS
  UDPClients,
  Packets,          \* handlers of packets that run at the same time
  Sockets           \* bound of the model: sockets at a time

ASSUME SUAssumption == Sockets \subseteq Nat \ {0}

VARIABLES
  udpTable,         \* client -> its socket, 0 if none
  sock,             \* socket -> open?, its client, and its pipe
  packet,           \* handler -> the packet it handles
  tableCleaner      \* the goroutine of StartAndBlock

suVars == <<udpTable, sock, packet, tableCleaner>>

NoSock == [open |-> FALSE, who |-> "nobody", pipe |-> "none"]
NoPacket == [pc |-> "idle", who |-> "nobody", s |-> 0]

SUInit ==
  /\ udpTable = [c \in UDPClients |-> 0]
  /\ sock = [s \in Sockets |-> NoSock]
  /\ packet = [p \in Packets |-> NoPacket]
  /\ tableCleaner = "starting"

(* IsRunning, then Clear, again and again.                                 *)
CleanerStarts ==
  /\ tableCleaner = "starting" /\ tableCleaner' \in {"gone", "clear"}
  /\ UNCHANGED <<udpTable, sock, packet>>
Clear ==
  /\ tableCleaner = "clear"
  /\ sock' = [s \in Sockets |-> IF \E c \in UDPClients : udpTable[c] = s
                                THEN [sock[s] EXCEPT !.open = FALSE] ELSE sock[s]]
  /\ udpTable' = [c \in UDPClients |-> 0]
  /\ UNCHANGED <<packet, tableCleaner>>

-----------------------------------------------------------------------------
(* HandleUDPConnection: a packet that is malformed, or whose destination   *)
(* is reserved, black listed or unknown, changes nothing.  Otherwise the   *)
(* client's socket is taken from the table, or made.                       *)
Checks == {"malformed", "reserved", "black listed", "unresolved", "good"}
HandlePacket(p, c) ==
  /\ packet[p].pc = "idle"
  /\ \E check \in Checks :
       \/ check = "good" /\ packet' = [packet EXCEPT ![p].pc = "get", ![p].who = c]
       \/ check # "good" /\ UNCHANGED packet
  /\ UNCHANGED <<udpTable, sock, tableCleaner>>
FreeSocket(s) == sock[s] = NoSock /\ \A p \in Packets : packet[p].s # s
GetSocket(p) ==
  LET c == packet[p].who IN
  /\ packet[p].pc = "get"
  /\ \/ /\ udpTable[c] # 0
        /\ packet' = [packet EXCEPT ![p].pc = "write", ![p].s = udpTable[c]]
        /\ UNCHANGED <<udpTable, sock>>
     \/ /\ udpTable[c] = 0
        /\ \E s \in Sockets :
             /\ FreeSocket(s) /\ \A k \in Sockets : k < s => ~FreeSocket(k)
             /\ udpTable' = [udpTable EXCEPT ![c] = s]
             /\ sock' = [sock EXCEPT ![s] = [open |-> TRUE, who |-> c, pipe |-> "none"]]
             /\ packet' = [packet EXCEPT ![p].pc = "pipe", ![p].s = s]
     \/ /\ udpTable[c] = 0                        \* ListenPacket fails
        /\ packet' = [packet EXCEPT ![p] = NoPacket]
        /\ UNCHANGED <<udpTable, sock>>
  /\ UNCHANGED tableCleaner
StartPipe(p) ==
  /\ packet[p].pc = "pipe"
  /\ sock' = [sock EXCEPT ![packet[p].s].pipe = "read"]
  /\ packet' = [packet EXCEPT ![p].pc = "write"]
  /\ UNCHANGED <<udpTable, tableCleaner>>

(* The payload is sent; on an error, the socket that is in the table now   *)
(* is taken out and closed.                                                *)
WritePacket(p) ==
  LET now == udpTable[packet[p].who] IN
  /\ packet[p].pc = "write"
  /\ \/ sock[packet[p].s].open /\ UNCHANGED <<udpTable, sock>>
     \/ /\ udpTable' = [udpTable EXCEPT ![packet[p].who] = 0]
        /\ sock' = IF now = 0 THEN sock ELSE [sock EXCEPT ![now].open = FALSE]
  /\ packet' = [packet EXCEPT ![p] = NoPacket]
  /\ UNCHANGED tableCleaner

-----------------------------------------------------------------------------
PipeWithoutClosing(s) ==
  /\ sock[s].pipe = "read"
  /\ \/ sock[s].open /\ UNCHANGED sock
     \/ sock' = [sock EXCEPT ![s].pipe = "delete"]
  /\ UNCHANGED <<udpTable, packet, tableCleaner>>
(* PipeUDPConnection: what arrives goes to the client, behind the header   *)
(* of the backlog or a new one.  A failed read (the deadline, too), a      *)
(* failed write and a lock-down end it, and it closes its socket.          *)
PipeUDPConnection(s) ==
  /\ sock[s].pipe = "read"
  /\ \/ sock[s].open /\ UNCHANGED sock
     \/ sock' = [sock EXCEPT ![s].open = FALSE, ![s].pipe = "delete"]
  /\ UNCHANGED <<udpTable, packet, tableCleaner>>
(* The entry of the client is deleted, which may be that of a newer socket *)
(* by now.                                                                 *)
PipeDeletes(s) ==
  /\ sock[s].pipe = "delete"
  /\ udpTable' = [udpTable EXCEPT ![sock[s].who] = 0]
  /\ sock' = [sock EXCEPT ![s].pipe = "none", ![s].who = IF sock[s].open THEN @ ELSE "nobody"]
  /\ UNCHANGED <<packet, tableCleaner>>

SUNext ==
  \/ CleanerStarts \/ Clear
  \/ \E p \in Packets :
       \/ \E c \in UDPClients : HandlePacket(p, c)
       \/ GetSocket(p) \/ StartPipe(p) \/ WritePacket(p)
  \/ \E s \in Sockets : PipeUDPConnection(s) \/ PipeDeletes(s)

SUSpec == SUInit /\ [][SUNext]_suVars

-----------------------------------------------------------------------------
(* No socket is left open with nobody to close it: while a socket is open, *)
(* its goroutine reads from it (and will time out), or is about to be      *)
(* started, also when the table forgot the socket in favour of a newer one *)
(* (HandleUDPConnection, PipeUDPConnection, UDPTable).                     *)
OpenSocketHasReader ==
  \A s \in Sockets :
    sock[s].open => \/ sock[s].pipe = "read"
                    \/ \E p \in Packets : packet[p].pc = "pipe" /\ packet[p].s = s
===============================================================================
