----------------------------- MODULE ServiceProofs -----------------------------
(***************************************************************************)
(* The safety of the services that share no state with one another, each   *)
(* for any number of users, goroutines and values.                         *)
(***************************************************************************)
EXTENDS RateLimit, RemoteVM, DNSCommands, SocksUDP, WebHandlers, TelegramBot, BrowserInstances,
        BrowserPage, DNSNames, MailboxReader, FiniteSetTheorems, SequenceTheorems,
        WellFoundedInduction, TLAPS

-----------------------------------------------------------------------------
(* The remote virtual machine.  Emulators are numbered from 1, so that the *)
(* nil of emulatorCmd, and the -1 of a program that did not run, are none. *)
VMInv ==
  /\ EmulatorIsKnown
  /\ boots \in Nat /\ emulators \subseteq 1 .. boots

LEMMA VMInitial == VMInit => VMInv
  BY DEF VMInit, VMInv, EmulatorIsKnown

(* Kill takes the emulator that emulatorCmd names, the only one but for    *)
(* those that it failed to kill, or this one joins them.                   *)
LEMMA KillTakesAll == VMInv /\ KillEffect => VMInv'
  BY DEF VMInv, EmulatorIsKnown, KillEffect

LEMMA VMPreserved == VMInv /\ [VMNext]_vmVars => VMInv'
<1> SUFFICES ASSUME VMInv, [VMNext]_vmVars PROVE VMInv'
  OBVIOUS
<1> USE DEF VMInv, EmulatorIsKnown, hostVars
<1>1. ASSUME NEW u \in Operators, PressButton(u) PROVE VMInv'
  BY <1>1 DEF PressButton
<1>2. ASSUME NEW u \in Operators, KillMachine(u) PROVE VMInv'
  BY <1>2, KillTakesAll DEF KillMachine
<1>3. ASSUME NEW u \in Operators, StartMachine(u) PROVE VMInv'
  <2>1. CASE UNCHANGED hostVars
    BY <2>1
  <2>2. CASE emulatorCmd = 0 /\ emulatorCmd' = -1 /\ UNCHANGED <<emulators, escaped, boots>>
    BY <2>2
  <2>3. CASE /\ emulatorCmd = 0 /\ boots' = boots + 1
             /\ emulators' = emulators \union {boots'} /\ emulatorCmd' = boots'
             /\ escaped' = escaped
    BY <2>3
  <2> QED
    BY <1>3, <2>1, <2>2, <2>3 DEF StartMachine
<1>4. ASSUME NEW u \in Operators, ExecuteQMP(u) \/ SendCommand(u) \/ ReadAnswer(u) \/ Answered(u)
      PROVE  VMInv'
  BY <1>4 DEF ExecuteQMP, SendCommand, ReadAnswer, Answered
<1>5. ASSUME NEW u \in Operators, Dial(u) PROVE VMInv'
  <2>1. UNCHANGED hostVars \/ KillEffect
    BY <1>5 DEF Dial
  <2> QED
    BY <2>1, KillTakesAll
<1>6. ASSUME NEW u \in Operators, Greet(u) PROVE VMInv'
  <2>1. UNCHANGED hostVars \/ KillEffect
    BY <1>6 DEF Greet
  <2> QED
    BY <2>1, KillTakesAll
<1>7. CASE DownloadISO \/ EmulatorExits \/ EmulatorEvent
  BY <1>7 DEF DownloadISO, EmulatorExits, EmulatorEvent
<1>8. CASE UNCHANGED vmVars
  BY <1>8 DEF vmVars
<1> QED
  BY <1>1, <1>2, <1>3, <1>4, <1>5, <1>6, <1>7, <1>8 DEF VMNext, VMStep

(* Whatever the operators press at the same time, and wherever a kill      *)
(* falls, there is no emulator that Kill does not reach but those that an  *)
(* earlier one failed to kill (Start, Kill and connectToQMP of             *)
(* remotevm.go).                                                           *)
THEOREM EmulatorAlwaysKnown == VMSpec => []EmulatorIsKnown
<1>1. VMInv => EmulatorIsKnown
  BY DEF VMInv
<1> QED
  BY VMInitial, VMPreserved, <1>1, PTL DEF VMSpec

-----------------------------------------------------------------------------
(* App commands over DNS.  A handler that has looked at the time of the    *)
(* last purge, and purged if that was due, asked at most TTL seconds after *)
(* the last purge; and no result is older than that, but for the time      *)
(* between the two writes of a purge.                                      *)
DCPcs == {"idle", "recurse", "execute", "due", "purge", "get", "wait", "mark", "run", "answer"}

Handler == [pc : DCPcs, cmd : Commands \cup {"none"}, since : Nat, at : Nat]
DCTypeOK ==
  /\ handler \in [Handlers -> Handler]
  /\ latest \in [Commands \ {"none"} -> [st : {"absent", "ongoing", "result"}, at : Nat]]
  /\ lastPurge \in Nat /\ dcTime \in Nat /\ lastPurge <= dcTime
  /\ \A h \in Handlers : handler[h].pc \notin {"idle", "recurse"} => handler[h].cmd # "none"

ResultsInTime == \A c \in DOMAIN latest : latest[c].st = "result" => latest[c].at >= lastPurge
PurgedInTime ==
  \A h \in Handlers :
    /\ handler[h].pc \notin {"idle", "recurse", "execute"} => handler[h].since <= dcTime
    /\ handler[h].pc \in {"purge", "get", "wait"} => handler[h].since - lastPurge <= TTL

DCInv ==
  DCTypeOK /\ OngoingIsRunning /\ (Purging \/ ResultsInTime) /\ PurgedInTime /\ AnswersAreFresh

LEMMA DCInitial == DCInit => DCInv
<1> SUFFICES ASSUME DCInit PROVE DCInv
  OBVIOUS
<1> USE DEF DCInit, NoHandler, Absent, Ongoing
<1>1. DCTypeOK
  BY DEF DCTypeOK, DCPcs, Handler
<1>2. OngoingIsRunning /\ ResultsInTime /\ PurgedInTime /\ AnswersAreFresh
  BY DEF OngoingIsRunning, ResultsInTime, PurgedInTime, AnswersAreFresh
<1> QED
  BY <1>1, <1>2 DEF DCInv

LEMMA DCTypePreserved == DCTypeOK /\ [DCNext]_dcVars => DCTypeOK'
<1> USE DEF DCTypeOK, DCPcs, Handler
<1>1. ASSUME DCTypeOK, NEW h \in Handlers, NEW c \in Commands, HandleTextQuery(h, c) PROVE DCTypeOK'
  BY <1>1 DEF HandleTextQuery, NoHandler
<1>2. ASSUME DCTypeOK, NEW h \in Handlers, PurgeAfterTTL(h) PROVE DCTypeOK'
  <2>1. CASE handler' = [handler EXCEPT ![h].pc = "due", ![h].since = dcTime]
    BY <1>2, <2>1 DEF PurgeAfterTTL
  <2>2. CASE handler' = [handler EXCEPT ![h].pc = "get", ![h].since = dcTime]
    BY <1>2, <2>2 DEF PurgeAfterTTL
  <2> QED
    BY <1>2, <2>1, <2>2 DEF PurgeAfterTTL
<1>3. ASSUME DCTypeOK, NEW h \in Handlers, BeginPurge(h) \/ EndPurge(h) PROVE DCTypeOK'
  <2>1. CASE BeginPurge(h)
    BY <1>3, <2>1 DEF BeginPurge
  <2>2. CASE EndPurge(h)
    BY <1>3, <2>2 DEF EndPurge, Absent
  <2> QED BY <1>3, <2>1, <2>2
<1>4. ASSUME DCTypeOK, NEW h \in Handlers, Get(h) PROVE DCTypeOK'
  <2>1. handler[h].cmd \in DOMAIN latest /\ UNCHANGED <<latest, lastPurge, dcTime>>
    BY <1>4 DEF Get
  <2>2. latest[handler[h].cmd].at \in Nat
    BY <1>4, <2>1
  <2>3. CASE \E p \in {"mark", "wait"} : handler' = [handler EXCEPT ![h].pc = p]
    BY <1>4, <2>1, <2>3
  <2>4. CASE handler' = [handler EXCEPT ![h].pc = "answer", ![h].at = latest[handler[h].cmd].at]
    <3> DEFINE r == [handler[h] EXCEPT !.pc = "answer", !.at = latest[handler[h].cmd].at]
    <3>1. r \in Handler /\ r.cmd = handler[h].cmd
      BY <1>4, <2>2
    <3>2. handler' = [handler EXCEPT ![h] = r]
      BY <2>4
    <3>3. handler[h].cmd # "none"
      BY <1>4 DEF Get
    <3> HIDE DEF r, Handler
    <3>4. handler' \in [Handlers -> Handler]
      BY <1>4, <3>1, <3>2
    <3>5. \A k \in Handlers : handler'[k].pc \notin {"idle", "recurse"} => handler'[k].cmd # "none"
      BY <1>4, <3>1, <3>2, <3>3
    <3> QED BY <1>4, <2>1, <3>4, <3>5
  <2> QED BY <1>4, <2>3, <2>4 DEF Get
<1>5. ASSUME DCTypeOK, NEW h \in Handlers, Mark(h) PROVE DCTypeOK'
  BY <1>5 DEF Mark, Ongoing
<1>6. ASSUME DCTypeOK, NEW h \in Handlers, RunAndStore(h) PROVE DCTypeOK'
  <2>1. handler' \in [Handlers -> Handler]
    <3>1. [handler[h] EXCEPT !.pc = "answer", !.at = dcTime] \in Handler
      BY <1>6
    <3>2. handler' = [handler EXCEPT ![h] = [handler[h] EXCEPT !.pc = "answer", !.at = dcTime]]
      BY <1>6 DEF RunAndStore
    <3> HIDE DEF Handler
    <3> QED BY <1>6, <3>1, <3>2
  <2>2. latest' \in [Commands \ {"none"} -> [st : {"absent", "ongoing", "result"}, at : Nat]]
    BY <1>6 DEF RunAndStore, Result
  <2>3. \A k \in Handlers : handler'[k].pc \notin {"idle", "recurse"} => handler'[k].cmd # "none"
    BY <1>6 DEF RunAndStore
  <2> QED
    BY <1>6, <2>1, <2>2, <2>3 DEF RunAndStore
<1>7. ASSUME DCTypeOK, NEW h \in Handlers, AnswerText(h) \/ Recurse(h) PROVE DCTypeOK'
  BY <1>7 DEF AnswerText, Recurse, NoHandler
<1>8. ASSUME DCTypeOK, DCTick PROVE DCTypeOK'
  BY <1>8 DEF DCTick
<1>9. ASSUME DCTypeOK, UNCHANGED dcVars PROVE DCTypeOK'
  BY <1>9 DEF dcVars
<1> HIDE DEF DCTypeOK
<1> QED
  BY <1>1, <1>2, <1>3, <1>4, <1>5, <1>6, <1>7, <1>8, <1>9 DEF DCNext, DCStep

(* Only the handler that marks a command, and no other, replaces the mark. *)
LEMMA OngoingPreserved ==
  DCTypeOK /\ OngoingIsRunning /\ [DCNext]_dcVars => OngoingIsRunning'
<1> SUFFICES ASSUME DCTypeOK, OngoingIsRunning, [DCNext]_dcVars,
                    NEW c \in Commands \ {"none"}, latest'[c] = Ongoing
             PROVE  \E h \in Handlers : handler'[h].cmd = c /\ handler'[h].pc = "run"
  <2>1. ASSUME DCTypeOK' PROVE DOMAIN latest' = Commands \ {"none"}
    BY <2>1 DEF DCTypeOK
  <2> QED
    BY <2>1, DCTypePreserved DEF OngoingIsRunning
<1> USE DEF DCTypeOK, DCPcs, Handler, Ongoing, Absent, NoHandler
<1>1. CASE \E h \in Handlers : Mark(h) /\ handler[h].cmd = c
  BY <1>1 DEF Mark
<1>2. CASE ~ \E h \in Handlers : Mark(h) /\ handler[h].cmd = c
  <2>1. latest[c] = Ongoing
    <3>a. latest'[c].st = "ongoing"
      OBVIOUS
    <3>1. ASSUME NEW h \in Handlers, EndPurge(h) \/ Mark(h) \/ RunAndStore(h) PROVE latest[c] = Ongoing
      <4>1. CASE EndPurge(h)
        BY <3>a, <4>1 DEF EndPurge
      <4>2. CASE Mark(h)
        BY <1>2, <4>2 DEF Mark
      <4>3. CASE RunAndStore(h)
        BY <3>a, <4>3 DEF RunAndStore, Result
      <4> QED
        BY <3>1, <4>1, <4>2, <4>3
    <3>2. CASE UNCHANGED latest
      BY <3>2
    <3> QED
      BY <3>1, <3>2 DEF DCNext, DCStep, HandleTextQuery, PurgeAfterTTL, BeginPurge, Get, AnswerText,
                        Recurse, DCTick, dcVars
  <2>2. PICK g \in Handlers : handler[g].cmd = c /\ handler[g].pc = "run"
    BY <2>1 DEF OngoingIsRunning
  <2>3. ~RunAndStore(g)
    BY <2>2 DEF RunAndStore, Result
  <2>4. handler'[g] = handler[g]
    <3>1. ASSUME NEW h \in Handlers, DCStep(h) \/ \E k \in Commands : HandleTextQuery(h, k)
          PROVE  handler'[g] = handler[g]
      <4>1. h # g
        BY <2>2, <2>3, <3>1, Zenon DEF DCStep, HandleTextQuery, PurgeAfterTTL, BeginPurge, EndPurge, Get, Mark,
                                RunAndStore, AnswerText, Recurse
      <4>2. CASE \E k \in Commands : HandleTextQuery(h, k)
        BY <4>1, <4>2 DEF HandleTextQuery
      <4>3. CASE PurgeAfterTTL(h) \/ BeginPurge(h) \/ EndPurge(h) \/ Mark(h) \/ RunAndStore(h)
        BY <4>1, <4>3 DEF PurgeAfterTTL, BeginPurge, EndPurge, Mark, RunAndStore
      <4>4. CASE Get(h)
        BY <4>1, <4>4 DEF Get
      <4>5. CASE AnswerText(h) \/ Recurse(h)
        BY <4>1, <4>5 DEF AnswerText, Recurse
      <4> QED BY <3>1, <4>2, <4>3, <4>4, <4>5 DEF DCStep
    <3>2. CASE DCTick \/ UNCHANGED dcVars
      BY <3>2 DEF DCTick, dcVars
    <3> QED BY <3>1, <3>2 DEF DCNext
  <2> QED
    BY <2>2, <2>4
<1> QED
  BY <1>1, <1>2

(* The old results are gone once the last purge under way has written its  *)
(* map; all that is stored since is as new as lastPurge.                   *)
LEMMA ResultsPreserved ==
  DCTypeOK /\ (Purging \/ ResultsInTime) /\ [DCNext]_dcVars => (Purging \/ ResultsInTime)'
<1> SUFFICES ASSUME DCTypeOK, Purging \/ ResultsInTime, [DCNext]_dcVars PROVE (Purging \/ ResultsInTime)'
  OBVIOUS
<1> USE DEF DCTypeOK, DCPcs, Handler, Absent, NoHandler, Purging, ResultsInTime
<1>1. ASSUME NEW h \in Handlers, BeginPurge(h) \/ EndPurge(h) PROVE (Purging \/ ResultsInTime)'
  BY <1>1 DEF BeginPurge, EndPurge
<1>2. CASE Purging /\ ~ \E h \in Handlers : BeginPurge(h) \/ EndPurge(h)
  <2>1. PICK g \in Handlers : handler[g].pc = "purge"
    BY <1>2
  <2>2. ASSUME NEW h \in Handlers, DCStep(h) \/ \E k \in Commands : HandleTextQuery(h, k)
        PROVE  handler'[g].pc = "purge"
    <3>1. h # g
      BY <1>2, <2>1, <2>2, Zenon DEF DCStep, HandleTextQuery, PurgeAfterTTL, Get, Mark, RunAndStore, AnswerText,
                              Recurse
    <3>2. \E r : handler' = [handler EXCEPT ![h] = r]
      <4>1. CASE PurgeAfterTTL(h) \/ Mark(h) \/ RunAndStore(h)
        BY <4>1 DEF PurgeAfterTTL, Mark, RunAndStore
      <4>2. CASE Get(h)
        BY <4>2 DEF Get
      <4>3. CASE AnswerText(h) \/ Recurse(h) \/ \E k \in Commands : HandleTextQuery(h, k)
        BY <4>3, Zenon DEF AnswerText, Recurse, HandleTextQuery
      <4> QED BY <1>2, <2>2, <4>1, <4>2, <4>3 DEF DCStep
    <3> QED BY <2>1, <3>1, <3>2
  <2>3. CASE DCTick \/ UNCHANGED dcVars
    BY <2>1, <2>3 DEF DCTick, dcVars
  <2> QED BY <2>2, <2>3 DEF DCNext
<1>3. CASE ResultsInTime /\ ~ \E h \in Handlers : BeginPurge(h) \/ EndPurge(h)
  <2>1. CASE UNCHANGED <<latest, lastPurge>>
    BY <1>3, <2>1
  <2>2. ASSUME NEW h \in Handlers, Mark(h) \/ RunAndStore(h) PROVE ResultsInTime'
    <3>1. CASE Mark(h)
      BY <1>3, <3>1 DEF Mark, Ongoing
    <3>2. CASE RunAndStore(h)
      BY <1>3, <3>2 DEF RunAndStore, Result
    <3> QED BY <2>2, <3>1, <3>2
  <2> QED
    BY <1>3, <2>1, <2>2, Zenon DEF DCNext, DCStep, HandleTextQuery, PurgeAfterTTL, Get, AnswerText, Recurse,
                            DCTick, dcVars
<1> QED
  BY <1>1, <1>2, <1>3

LEMMA DCPreserved == DCInv /\ [DCNext]_dcVars => DCInv'
<1> SUFFICES ASSUME DCInv, [DCNext]_dcVars PROVE DCInv'
  OBVIOUS
<1>0. DCTypeOK' /\ OngoingIsRunning' /\ (Purging \/ ResultsInTime)'
  BY DCTypePreserved, OngoingPreserved, ResultsPreserved DEF DCInv
<1> SUFFICES PurgedInTime' /\ AnswersAreFresh'
  BY <1>0 DEF DCInv
<1>a. DCTypeOK /\ PurgedInTime /\ AnswersAreFresh /\ TTL \in Nat
  BY DCAssumption DEF DCInv
<1> USE <1>a DEF DCTypeOK, DCPcs, Handler, PurgedInTime, AnswersAreFresh, Absent, NoHandler
<1>1. ASSUME NEW h \in Handlers, NEW c \in Commands, HandleTextQuery(h, c)
      PROVE  PurgedInTime' /\ AnswersAreFresh'
  BY <1>1 DEF HandleTextQuery
<1>2. ASSUME NEW h \in Handlers, PurgeAfterTTL(h) PROVE PurgedInTime' /\ AnswersAreFresh'
  <2>1. /\ \A k \in Handlers : k # h => handler'[k] = handler[k]
        /\ handler'[h].since = dcTime /\ handler'[h].pc \in {"due", "get"}
        /\ handler'[h].pc = "get" => dcTime - lastPurge <= TTL
        /\ UNCHANGED <<latest, lastPurge, torn, dcTime>>
    BY <1>2 DEF PurgeAfterTTL, PurgeDue
  <2>2. PurgedInTime'
    BY <2>1
  <2>3. AnswersAreFresh'
    BY <2>1
  <2> QED BY <2>2, <2>3
<1>3. ASSUME NEW h \in Handlers, BeginPurge(h) \/ EndPurge(h) PROVE PurgedInTime' /\ AnswersAreFresh'
  BY <1>3 DEF BeginPurge, EndPurge
<1>4. ASSUME NEW h \in Handlers, Get(h) PROVE PurgedInTime' /\ AnswersAreFresh'
  <2>1. handler[h].cmd \in DOMAIN latest /\ UNCHANGED <<latest, lastPurge, dcTime>>
    BY <1>4 DEF Get
  <2>2. CASE /\ latest[handler[h].cmd].st = "result"
             /\ handler' = [handler EXCEPT ![h].pc = "answer", ![h].at = latest[handler[h].cmd].at]
             /\ torn' = IF Purging THEN torn \cup {h} ELSE torn \ {h}
    <3>1. /\ latest[handler[h].cmd].at \in Nat
          /\ handler[h].since - lastPurge <= TTL /\ handler[h].since <= dcTime
      BY <1>4, <2>1, <2>2 DEF Get
    <3>2. /\ \A k \in Handlers : k # h => handler'[k] = handler[k]
          /\ handler'[h].since = handler[h].since /\ handler'[h].pc = "answer"
          /\ handler'[h].at = latest[handler[h].cmd].at
          /\ h \notin torn' => ~Purging
          /\ \A k \in Handlers : k # h => (k \in torn' <=> k \in torn)
      BY <2>2
    <3>3. h \notin torn' => latest[handler[h].cmd].at >= lastPurge
      <4>1. ~Purging => ResultsInTime
        BY DEF DCInv
      <4> QED BY <2>1, <2>2, <3>2, <4>1 DEF ResultsInTime
    <3>4. h \notin torn' => handler[h].since - latest[handler[h].cmd].at <= TTL
      BY <3>1, <3>3
    <3> QED
      BY <2>1, <3>1, <3>2, <3>4
  <2>3. CASE /\ \E p \in {"mark", "wait"} : handler' = [handler EXCEPT ![h].pc = p]
             /\ torn' \in {torn, torn \ {h}}
    BY <1>4, <2>1, <2>3 DEF Get
  <2> QED
    BY <1>4, <2>2, <2>3 DEF Get
<1>5. ASSUME NEW h \in Handlers, Mark(h) PROVE PurgedInTime' /\ AnswersAreFresh'
  <2>1. /\ handler'[h].pc = "run" /\ \A k \in Handlers : k # h => handler'[k] = handler[k]
        /\ handler'[h].since = handler[h].since /\ handler[h].since <= dcTime
        /\ UNCHANGED <<lastPurge, torn, dcTime>>
    BY <1>5 DEF Mark
  <2> QED BY <2>1
<1>6. ASSUME NEW h \in Handlers, RunAndStore(h) PROVE PurgedInTime' /\ AnswersAreFresh'
  <2>1. /\ handler'[h].pc = "answer" /\ handler'[h].at = dcTime
        /\ handler'[h].since = handler[h].since /\ handler[h].since <= dcTime
        /\ \A k \in Handlers : k # h => handler'[k] = handler[k]
        /\ UNCHANGED <<lastPurge, torn, dcTime>>
    BY <1>6 DEF RunAndStore
  <2> QED BY <2>1
<1>7. ASSUME NEW h \in Handlers, AnswerText(h) \/ Recurse(h) PROVE PurgedInTime' /\ AnswersAreFresh'
  <2>1. /\ handler'[h].pc \in {"idle", "recurse"}
        /\ \A k \in Handlers : k # h => handler'[k] = handler[k]
        /\ UNCHANGED <<lastPurge, torn, dcTime>>
    BY <1>7 DEF AnswerText, Recurse
  <2> QED BY <2>1
<1>8. CASE DCTick
  BY <1>8 DEF DCTick
<1>9. CASE UNCHANGED dcVars
  BY <1>9 DEF dcVars
<1> QED
  BY <1>1, <1>2, <1>3, <1>4, <1>5, <1>6, <1>7, <1>8, <1>9 DEF DCNext, DCStep

(* An execution that a handler waits for is under way, over purges without *)
(* the mutex and executions that overlap (LatestCommands of dnsd).         *)
THEOREM OngoingAlwaysRunning == DCSpec => []OngoingIsRunning
<1>1. DCInv => OngoingIsRunning
  BY DEF DCInv
<1> QED
  BY DCInitial, DCPreserved, <1>1, PTL DEF DCSpec

(* No answer over DNS was stored more than TTL before its question, unless *)
(* it was found between the two writes of a purge, which takes no mutex    *)
(* (purgeAfterTTL and Execute of dnsd).                                    *)
THEOREM AnswersAlwaysFresh == DCSpec => []AnswersAreFresh
<1>1. DCInv => AnswersAreFresh
  BY DEF DCInv
<1> QED
  BY DCInitial, DCPreserved, <1>1, PTL DEF DCSpec

-----------------------------------------------------------------------------
(* The UDP side of SOCKS.  A step may close a socket, or move the packet   *)
(* that is about to start its reader; it must not do the second without    *)
(* the reader.                                                             *)
Sock == [open : BOOLEAN, who : UDPClients \cup {"nobody"}, pipe : {"none", "read", "delete"}]
SockType == [Sockets -> Sock]
Packet ==
  [pc : {"idle", "get", "pipe", "write"}, who : UDPClients \cup {"nobody"}, s : Sockets \cup {0}]
PacketType == [Packets -> Packet]

SUTypeOK ==
  /\ sock \in SockType /\ packet \in PacketType
  /\ udpTable \in [UDPClients -> Sockets \cup {0}]
  /\ \A p \in Packets : packet[p].pc # "idle" => packet[p].who \in UDPClients
  /\ \A p \in Packets : packet[p].pc \in {"pipe", "write"} => packet[p].s \in Sockets

SUInv == SUTypeOK /\ OpenSocketHasReader

LEMMA SUInitial == SUInit => SUInv
  BY DEF SUInit, SUInv, SUTypeOK, SockType, Sock, PacketType, Packet, OpenSocketHasReader, NoSock, NoPacket

LEMMA SUTypePreserved == SUTypeOK /\ [SUNext]_suVars => SUTypeOK'
<1> USE DEF SUTypeOK
<1>1. ASSUME SUTypeOK, CleanerStarts \/ Clear PROVE SUTypeOK'
  <2>1. CASE CleanerStarts
    BY <1>1, <2>1 DEF CleanerStarts
  <2>2. CASE Clear
    <3>1. ASSUME NEW s \in Sockets PROVE [sock[s] EXCEPT !.open = FALSE] \in Sock
      BY <1>1 DEF SockType, Sock
    <3>2. sock' \in SockType
      BY <1>1, <2>2, <3>1 DEF Clear, SockType, Sock
    <3> QED
      BY <1>1, <2>2, <3>2 DEF Clear
  <2> QED
    BY <1>1, <2>1, <2>2
<1>2. ASSUME SUTypeOK, NEW p \in Packets, NEW c \in UDPClients, HandlePacket(p, c) PROVE SUTypeOK'
  <2>1. CASE packet' = [packet EXCEPT ![p].pc = "get", ![p].who = c]
    <3>1. packet' \in PacketType
      <4>1. [packet[p] EXCEPT !.pc = "get", !.who = c] \in Packet
        BY <1>2 DEF PacketType, Packet
      <4>2. packet' = [packet EXCEPT ![p] = [packet[p] EXCEPT !.pc = "get", !.who = c]]
        BY <2>1
      <4> QED BY <1>2, <4>1, <4>2 DEF PacketType
    <3> QED
      BY <1>2, <2>1, <3>1 DEF HandlePacket, PacketType, Packet
  <2> QED
    BY <1>2, <2>1 DEF HandlePacket
<1>3. ASSUME SUTypeOK, NEW p \in Packets, GetSocket(p) PROVE SUTypeOK'
  <2> DEFINE c == packet[p].who
  <2>0. c \in UDPClients
    BY <1>3 DEF GetSocket
  <2>1. ASSUME NEW s \in Sockets, NEW pc \in {"idle", "get", "pipe", "write"},
               packet' = [packet EXCEPT ![p].pc = pc, ![p].s = s]
        PROVE  /\ packet' \in PacketType
               /\ packet'[p].pc = pc /\ packet'[p].who = c /\ packet'[p].s = s
               /\ \A k \in Packets : k # p => packet'[k] = packet[k]
    <3>1. packet \in PacketType
      BY <1>3
    <3>2. packet' \in PacketType
      BY <2>1, <3>1 DEF PacketType, Packet
    <3> QED
      BY <2>1, <3>1, <3>2 DEF PacketType, Packet
  <2>2. CASE /\ udpTable[c] # 0
             /\ packet' = [packet EXCEPT ![p].pc = "write", ![p].s = udpTable[c]]
             /\ UNCHANGED <<udpTable, sock>>
    <3>1. udpTable[c] \in Sockets
      BY <1>3, <2>0, <2>2
    <3> QED
      BY <1>3, <2>0, <2>1, <2>2, <3>1
  <2>3. ASSUME NEW s \in Sockets,
               udpTable' = [udpTable EXCEPT ![c] = s],
               sock' = [sock EXCEPT ![s] = [open |-> TRUE, who |-> c, pipe |-> "none"]],
               packet' = [packet EXCEPT ![p].pc = "pipe", ![p].s = s]
        PROVE  SUTypeOK'
    <3>1. sock' \in SockType
      <4>1. [open |-> TRUE, who |-> c, pipe |-> "none"] \in Sock
        BY <2>0 DEF Sock
      <4> QED BY <1>3, <2>3, <4>1 DEF SockType
    <3>2. udpTable' \in [UDPClients -> Sockets \cup {0}]
      BY <1>3, <2>0, <2>3
    <3>3. /\ packet' \in PacketType
          /\ packet'[p].pc = "pipe" /\ packet'[p].who = c /\ packet'[p].s = s
          /\ \A k \in Packets : k # p => packet'[k] = packet[k]
      BY <2>1, <2>3
    <3> QED
      BY <1>3, <2>0, <3>1, <3>2, <3>3
  <2>4. CASE packet' = [packet EXCEPT ![p] = NoPacket] /\ UNCHANGED <<udpTable, sock>>
    BY <1>3, <2>4 DEF NoPacket, PacketType, Packet
  <2> QED
    BY <1>3, <2>2, <2>3, <2>4 DEF GetSocket
<1>4. ASSUME SUTypeOK, NEW p \in Packets, StartPipe(p) PROVE SUTypeOK'
  BY <1>4 DEF StartPipe, SockType, Sock, PacketType, Packet
<1>5. ASSUME SUTypeOK, NEW p \in Packets, WritePacket(p) PROVE SUTypeOK'
  <2>1. packet' = [packet EXCEPT ![p] = NoPacket] /\ packet[p].who \in UDPClients
    BY <1>5 DEF WritePacket
  <2>2. udpTable' \in [UDPClients -> Sockets \cup {0}]
    BY <1>5 DEF WritePacket
  <2>3. ASSUME NEW now \in Sockets, sock' = [sock EXCEPT ![now].open = FALSE]
        PROVE  sock' \in SockType
    BY <1>5, <2>3 DEF SockType, Sock
  <2>4. UNCHANGED sock \/ \E now \in Sockets : sock' = [sock EXCEPT ![now].open = FALSE]
    BY <1>5, <2>1 DEF WritePacket
  <2> QED
    BY <1>5, <2>1, <2>2, <2>3, <2>4 DEF NoPacket, PacketType, Packet
<1>6. ASSUME SUTypeOK, NEW s \in Sockets, PipeUDPConnection(s) PROVE SUTypeOK'
  <2>1. UNCHANGED sock \/ sock' = [sock EXCEPT ![s].open = FALSE, ![s].pipe = "delete"]
    BY <1>6 DEF PipeUDPConnection
  <2>2. ASSUME sock' = [sock EXCEPT ![s].open = FALSE, ![s].pipe = "delete"] PROVE sock' \in SockType
    <3>1. [sock[s] EXCEPT !.open = FALSE, !.pipe = "delete"] \in Sock
      BY <1>6 DEF SockType, Sock
    <3>2. sock' = [sock EXCEPT ![s] = [sock[s] EXCEPT !.open = FALSE, !.pipe = "delete"]]
      BY <2>2
    <3> QED BY <1>6, <3>1, <3>2 DEF SockType
  <2> QED
    BY <1>6, <2>1, <2>2 DEF PipeUDPConnection
<1>7. ASSUME SUTypeOK, NEW s \in Sockets, PipeDeletes(s) PROVE SUTypeOK'
  <2>1. udpTable' \in [UDPClients -> Sockets \cup {0}] /\ UNCHANGED packet
    BY <1>7 DEF PipeDeletes
  <2>2. PICK w \in UDPClients \cup {"nobody"} :
          sock' = [sock EXCEPT ![s].pipe = "none", ![s].who = w]
    BY <1>7 DEF PipeDeletes, SockType, Sock
  <2>3. sock' \in SockType
    <3>1. [sock[s] EXCEPT !.pipe = "none", !.who = w] \in Sock
      BY <1>7 DEF SockType, Sock
    <3>2. sock' = [sock EXCEPT ![s] = [sock[s] EXCEPT !.pipe = "none", !.who = w]]
      BY <2>2
    <3> QED BY <1>7, <3>1, <3>2 DEF SockType
  <2> QED
    BY <1>7, <2>1, <2>3
<1>8. ASSUME SUTypeOK, UNCHANGED suVars PROVE SUTypeOK'
  BY <1>8 DEF suVars
<1> HIDE DEF SUTypeOK
<1> QED
  BY <1>1, <1>2, <1>3, <1>4, <1>5, <1>6, <1>7, <1>8 DEF SUNext

LEMMA SUPreserved == SUInv /\ [SUNext]_suVars => SUInv'
<1> USE DEF SUTypeOK, SockType, Sock, PacketType, Packet, OpenSocketHasReader
<1>1. ASSUME SUInv, CleanerStarts \/ Clear PROVE OpenSocketHasReader'
  <2>1. CASE CleanerStarts
    BY <1>1, <2>1 DEF CleanerStarts, SUInv
  <2>2. CASE Clear
    <3>1. ASSUME NEW s \in Sockets, sock'[s].open PROVE sock'[s] = sock[s]
      BY <1>1, <2>2, <3>1 DEF Clear, SUInv
    <3> QED
      BY <1>1, <2>2, <3>1 DEF Clear, SUInv
  <2> QED
    BY <1>1, <2>1, <2>2
<1>2. ASSUME SUInv, NEW p \in Packets, NEW c \in UDPClients, HandlePacket(p, c)
      PROVE OpenSocketHasReader'
  BY <1>2 DEF HandlePacket, SUInv
<1>3. ASSUME SUInv, NEW p \in Packets, GetSocket(p) PROVE OpenSocketHasReader'
  BY <1>3 DEF GetSocket, NoPacket, SUInv
<1>4. ASSUME SUInv, NEW p \in Packets, StartPipe(p) PROVE OpenSocketHasReader'
  BY <1>4 DEF StartPipe, SUInv
<1>5. ASSUME SUInv, NEW p \in Packets, WritePacket(p) PROVE OpenSocketHasReader'
  <2>1. /\ packet[p].pc = "write"
        /\ \A q \in Packets : q # p => packet'[q] = packet[q]
        /\ \A s \in Sockets : sock'[s].pipe = sock[s].pipe /\ (sock'[s].open => sock[s].open)
    BY <1>5 DEF WritePacket, SUInv
  <2> QED BY <1>5, <2>1 DEF SUInv
<1>6. ASSUME SUInv, NEW s \in Sockets, PipeUDPConnection(s) PROVE OpenSocketHasReader'
  BY <1>6 DEF PipeUDPConnection, SUInv
<1>7. ASSUME SUInv, NEW s \in Sockets, PipeDeletes(s) PROVE OpenSocketHasReader'
  BY <1>7 DEF PipeDeletes, SUInv
<1>8. ASSUME SUInv, UNCHANGED suVars PROVE OpenSocketHasReader'
  BY <1>8 DEF suVars, SUInv
<1> HIDE DEF OpenSocketHasReader
<1> QED
  BY SUTypePreserved, <1>1, <1>2, <1>3, <1>4, <1>5, <1>6, <1>7, <1>8 DEF SUNext, SUInv

(* No socket stays open without a reader that will time out and close it,  *)
(* however the cleaning of the table, failed writes and the ends of other  *)
(* readers mix (HandleUDPConnection and PipeUDPConnection of sockd).       *)
THEOREM OpenSocketAlwaysRead == SUSpec => []OpenSocketHasReader
<1>1. SUInv => OpenSocketHasReader
  BY DEF SUInv
<1> QED
  BY SUInitial, SUPreserved, <1>1, PTL DEF SUSpec

-----------------------------------------------------------------------------
(* The web server.  The request that renews the token holds the mutex, and *)
(* the token that it found expired stays so: time does not run backwards,  *)
(* and nobody else renews it.                                              *)
WHPcs == {"none", "handle", "token", "renew", "message", "process", "reply"}
RequestType ==
  [Requests -> [route : {"none"} \cup UNION Installations, sender : Senders \cup {"none"}, pc : WHPcs]]

WHInv ==
  /\ installed \in Installations /\ request \in RequestType
  /\ jwt \in Nat /\ whTime \in Nat
  /\ \A r \in Requests : request[r].pc = "renew" <=> jwtLock = r
  /\ RenewedWhenExpired

LEMMA WHInitial == WHInit => WHInv
<1> SUFFICES ASSUME WHInit PROVE WHInv
  OBVIOUS
<1>1. request \in RequestType /\ \A r \in Requests : request[r].pc = "none"
  BY DEF WHInit, RequestType, WHPcs, NoRequest
<1> QED
  BY <1>1, WHAssumption DEF WHInit, WHInv, RenewedWhenExpired

LEMMA ProceedMovesOne ==
  ASSUME request \in RequestType, NEW r \in Requests, NEW pc \in WHPcs, Proceed(r, pc)
  PROVE  /\ request' \in RequestType /\ request'[r].pc = pc
         /\ \A k \in Requests : k # r => request'[k] = request[k]
<1>1. CASE pc = "none"
  <2>1. request' = [request EXCEPT ![r] = NoRequest]
    BY <1>1 DEF Proceed
  <2>2. NoRequest \in [route : {"none"} \cup UNION Installations, sender : Senders \cup {"none"}, pc : WHPcs]
    BY DEF NoRequest, WHPcs
  <2>3. request' \in RequestType
    BY <2>1, <2>2 DEF RequestType
  <2> QED
    BY <1>1, <2>1, <2>3 DEF RequestType, NoRequest
<1>2. CASE pc # "none"
  <2>1. request' = [request EXCEPT ![r].pc = pc]
    BY <1>2 DEF Proceed
  <2> QED
    BY <2>1 DEF RequestType
<1> QED
  BY <1>1, <1>2

(* A request that neither takes nor gives back the mutex.                  *)
LEMMA OtherRequests ==
  ASSUME WHInv, NEW r \in Requests, NEW pc \in WHPcs \ {"renew"}, Proceed(r, pc),
         request[r].pc # "renew", UNCHANGED <<installed, jwtVars, whTime>>
  PROVE  WHInv'
<1>1. /\ request' \in RequestType /\ request'[r].pc = pc
      /\ \A k \in Requests : k # r => request'[k] = request[k]
  BY ProceedMovesOne DEF WHInv
<1> QED
  BY <1>1 DEF WHInv, RenewedWhenExpired, Valid, jwtVars

LEMMA WHPreserved == WHInv /\ [WHNext]_whVars => WHInv'
<1>1. ASSUME WHInv, NEW r \in Requests, Middleware(r) PROVE WHInv'
  <2>1. PICK route \in UNION Installations, sender \in Senders :
          request' = [request EXCEPT ![r] = [route |-> route, sender |-> sender, pc |-> "handle"]]
    BY <1>1 DEF Middleware, WHInv
  <2>2. /\ request' \in RequestType /\ request'[r].pc = "handle" /\ request[r].pc = "none"
        /\ \A k \in Requests : k # r => request'[k] = request[k]
    BY <1>1, <2>1 DEF WHInv, RequestType, WHPcs, Middleware, NoRequest
  <2>3. UNCHANGED <<installed, jwtVars, whTime>>
    BY <1>1 DEF Middleware, configVars
  <2> QED
    BY <1>1, <2>2, <2>3 DEF WHInv, RenewedWhenExpired, Valid, jwtVars
<1>2. ASSUME WHInv, NEW r \in Requests,
             \/ HandleTwilioSMSHook(r) \/ HandleTwilioCallHook(r) \/ HandleTwilioCallCallback(r)
             \/ HandleMicrosoftBot(r)
      PROVE  WHInv'
  <2>1. request[r].pc = "handle" /\ UNCHANGED <<installed, jwtVars, whTime>>
    BY <1>2 DEF HandleTwilioSMSHook, HandleTwilioCallHook, HandleTwilioCallCallback,
                HandleMicrosoftBot, configVars
  <2>2. \E pc \in {"none", "process", "token"} : Proceed(r, pc)
    BY <1>2 DEF HandleTwilioSMSHook, HandleTwilioCallHook, HandleTwilioCallCallback,
                HandleMicrosoftBot, HandleLimited
  <2> QED
    BY <1>2, <2>1, <2>2, OtherRequests DEF WHPcs
<1>3. ASSUME WHInv, NEW r \in Requests,
             \/ HandleCommandForm(r) \/ HandleTheThingsNetwork(r) \/ HandleMailing(r)
             \/ CheckMessageTime(r) \/ ProcessCommand(r) \/ SendAnswer(r) \/ HandleFileUpload(r)
      PROVE  WHInv'
  <2>1. request[r].pc \in {"handle", "message", "process", "reply"}
        /\ UNCHANGED <<installed, jwtVars, whTime>>
    BY <1>3 DEF HandleCommandForm, HandleTheThingsNetwork, HandleMailing, CheckMessageTime,
                ProcessCommand, SendAnswer, HandleFileUpload, configVars
  <2>2. \E pc \in {"none", "process", "reply"} : Proceed(r, pc)
    BY <1>3 DEF HandleCommandForm, HandleTheThingsNetwork, HandleMailing, CheckMessageTime,
                ProcessCommand, SendAnswer, HandleFileUpload
  <2> QED
    BY <1>3, <2>1, <2>2, OtherRequests DEF WHPcs
<1>4. ASSUME WHInv, NEW r \in Requests, RetrieveJWT(r) PROVE WHInv'
  <2>1. CASE Proceed(r, "message") /\ UNCHANGED jwtVars
    <3>1. request[r].pc = "token" /\ UNCHANGED <<installed, jwtVars, whTime>>
      BY <1>4, <2>1 DEF RetrieveJWT, configVars
    <3> QED
      BY <1>4, <2>1, <3>1, OtherRequests DEF WHPcs
  <2>2. CASE ~Valid /\ jwtLock' = r /\ Proceed(r, "renew") /\ UNCHANGED jwt
    <3>1. /\ request' \in RequestType /\ request'[r].pc = "renew"
          /\ \A k \in Requests : k # r => request'[k] = request[k]
      BY <1>4, <2>2, ProceedMovesOne DEF WHInv, WHPcs
    <3>2. jwtLock = 0 /\ UNCHANGED <<installed, whTime>>
      BY <1>4 DEF RetrieveJWT, configVars
    <3>3. \A k \in Requests : request[k].pc # "renew"
      BY <1>4, <3>2, WHAssumption DEF WHInv
    <3> QED
      BY <1>4, <2>2, <3>1, <3>2, <3>3 DEF WHInv, RenewedWhenExpired, Valid
  <2> QED
    BY <1>4, <2>1, <2>2 DEF RetrieveJWT
<1>5. ASSUME WHInv, NEW r \in Requests, RenewJWT(r) PROVE WHInv'
  <2>1. /\ request[r].pc = "renew" /\ jwtLock' = 0 /\ UNCHANGED <<installed, whTime>>
        /\ jwt' = jwt \/ jwt' = whTime + TokenLife
    BY <1>5 DEF RenewJWT, configVars
  <2>2. PICK pc \in {"message", "none"} : Proceed(r, pc)
    BY <1>5 DEF RenewJWT
  <2>3. /\ request' \in RequestType /\ request'[r].pc = pc
        /\ \A k \in Requests : k # r => request'[k] = request[k]
    BY <1>5, <2>2, ProceedMovesOne DEF WHInv, WHPcs
  <2>4. \A k \in Requests : request'[k].pc # "renew"
    BY <1>5, <2>1, <2>2, <2>3 DEF WHInv
  <2> QED
    BY <1>5, <2>1, <2>3, <2>4, WHAssumption DEF WHInv, RenewedWhenExpired
<1>6. ASSUME WHInv, StartOrStop \/ DeleteExpiredFiles \/ CleanerSleeps \/ WHLockDown PROVE WHInv'
  <2>1. UNCHANGED <<installed, request, jwtVars, whTime>>
    BY <1>6 DEF StartOrStop, DeleteExpiredFiles, CleanerSleeps, WHLockDown, configVars
  <2> QED
    BY <1>6, <2>1 DEF WHInv, RenewedWhenExpired, Valid, jwtVars
<1>7. ASSUME WHInv, WHTick PROVE WHInv'
  BY <1>7 DEF WHTick, WHInv, RenewedWhenExpired, Valid, jwtVars, configVars
<1>8. ASSUME WHInv, UNCHANGED whVars PROVE WHInv'
  BY <1>8 DEF whVars, WHInv, RenewedWhenExpired, Valid
<1> QED
  BY <1>1, <1>2, <1>3, <1>4, <1>5, <1>6, <1>7, <1>8 DEF WHNext, WHStep

(* A conversation asks for a token only while there is no good one, for    *)
(* any number of conversations at once (RetrieveJWT of the Microsoft bot). *)
THEOREM RenewedOnlyWhenExpired == WHSpec => []RenewedWhenExpired
<1>1. WHInv => RenewedWhenExpired
  BY DEF WHInv
<1> QED
  BY WHInitial, WHPreserved, <1>1, PTL DEF WHSpec

-----------------------------------------------------------------------------
(* The telegram bot.  What Telegram may still hand out, and                *)
(* ProcessMessages would run, has not been run and is not being run: the   *)
(* offset is past what this program has seen, and what an earlier one has  *)
(* seen is older than the start of this one.                               *)
UpdateType == [id : 1 .. MaxUpdates, date : Nat, kind : {"private", "other"}]

TGTypeOK ==
  /\ tgTime \in Nat /\ startup \in Nat /\ startup <= tgTime
  /\ written \in 0 .. MaxUpdates /\ offset \in Nat
  /\ updates \subseteq UpdateType
  /\ goroutines \subseteq 1 .. written
  /\ ran \in [1 .. MaxUpdates -> Nat]

NewUpdate(u) == u.date >= startup /\ u.id >= offset

TGInv ==
  /\ TGTypeOK
  /\ \A u \in updates : u.id <= written /\ u.date <= tgTime
  /\ \A u \in updates : NewUpdate(u) => ran[u.id] = 0 /\ u.id \notin goroutines
  /\ \A k \in 1 .. MaxUpdates : k > written => ran[k] = 0
  /\ RunAtMostOnce

LEMMA TGInitial == TGInit => TGInv
  BY TGAssumption DEF TGInit, TGInv, TGTypeOK, RunAtMostOnce, NewUpdate

LEMMA TGPreserved == TGInv /\ [TGNext]_tgVars => TGInv'
<1> USE TGAssumption
<1>1. ASSUME TGInv, NEW kind \in {"private", "other"}, Write(kind) PROVE TGInv'
  <2> DEFINE new == [id |-> written + 1, date |-> tgTime, kind |-> kind]
  <2>1. /\ updates' = updates \cup {new} /\ written' = written + 1
        /\ written + 1 \in 1 .. MaxUpdates
        /\ UNCHANGED <<tgTime, startup, offset, goroutines, ran>>
    BY <1>1 DEF Write, TGInv, TGTypeOK
  <2>2. new \in UpdateType /\ new.id = written + 1 /\ new.date = tgTime
    BY <1>1, <2>1 DEF TGInv, TGTypeOK, UpdateType
  <2> HIDE DEF new
  <2>3. TGTypeOK'
    BY <1>1, <2>1, <2>2 DEF TGInv, TGTypeOK
  <2>4. ran[written + 1] = 0 /\ written + 1 \notin goroutines
    BY <1>1, <2>1 DEF TGInv, TGTypeOK
  <2>5. \A u \in updates' : u.id <= written' /\ u.date <= tgTime'
    BY <1>1, <2>1, <2>2 DEF TGInv, TGTypeOK, UpdateType
  <2>6. \A u \in updates' : NewUpdate(u)' => ran'[u.id] = 0 /\ u.id \notin goroutines'
    BY <1>1, <2>1, <2>2, <2>4 DEF TGInv, NewUpdate
  <2>7. RunAtMostOnce'
    BY <1>1, <2>1 DEF TGInv, RunAtMostOnce
  <2> QED
    BY <1>1, <2>1, <2>3, <2>5, <2>6, <2>7 DEF TGInv, TGTypeOK
<1>2. ASSUME TGInv, TGTick PROVE TGInv'
  BY <1>2 DEF TGTick, TGInv, TGTypeOK, NewUpdate, RunAtMostOnce, UpdateType
<1>3. ASSUME TGInv, Poll PROVE TGInv'
  <2>1. CASE UNCHANGED <<updates, offset, goroutines>>
    BY <1>3, <2>1 DEF Poll, TGInv, TGTypeOK, NewUpdate, RunAtMostOnce
  <2>2. CASE ~UNCHANGED <<updates, offset, goroutines>>
    <3> DEFINE batch == {u \in updates : u.id >= offset}
    <3>1. PICK limited \in SUBSET {u.id : u \in updates} :
            /\ updates' = batch
            /\ \/ batch = {} /\ UNCHANGED offset
               \/ \E last \in batch : (\A u \in batch : u.id <= last.id) /\ offset' = last.id + 1
            /\ goroutines' = goroutines \cup {u.id : u \in ToRun(batch, limited)}
      BY <1>3, <2>2 DEF Poll
    <3>2. UNCHANGED <<tgTime, written, startup, ran>>
      BY <1>3 DEF Poll
    <3>3. \A k \in goroutines' : k \in goroutines \/ \E u \in updates : k = u.id /\ NewUpdate(u)
      BY <3>1 DEF ToRun, NewUpdate
    <3>4. \A k \in goroutines' : k \in goroutines \/ (k \in 1 .. written /\ ran[k] = 0)
      <4>1. \A u \in updates : u.id \in 1 .. written /\ (NewUpdate(u) => ran[u.id] = 0)
        BY <1>3 DEF TGInv, TGTypeOK, UpdateType
      <4> QED
        BY <3>3, <4>1
    <3>5. offset' \in Nat /\ \A u \in updates' : u.id < offset'
      BY <1>3, <3>1 DEF TGInv, TGTypeOK, UpdateType
    <3>6. updates' \subseteq updates
      BY <3>1
    <3>7. TGTypeOK'
      BY <1>3, <3>2, <3>4, <3>5, <3>6 DEF TGInv, TGTypeOK
    <3>8. RunAtMostOnce'
      BY <1>3, <3>2, <3>4 DEF TGInv, TGTypeOK, RunAtMostOnce
    <3> QED
      BY <1>3, <3>2, <3>5, <3>6, <3>7, <3>8 DEF TGInv, TGTypeOK, NewUpdate, UpdateType
  <2> QED
    BY <1>3, <2>1, <2>2 DEF Poll
<1>4. ASSUME TGInv, NEW u \in goroutines, RunMessage(u) PROVE TGInv'
  <2>1. /\ goroutines' = goroutines \ {u} /\ ran' = [ran EXCEPT ![u] = @ + 1]
        /\ UNCHANGED <<tgTime, updates, written, startup, offset>>
    BY <1>4 DEF RunMessage
  <2>2. u \in 1 .. MaxUpdates /\ u <= written /\ ran[u] = 0 /\ ran \in [1 .. MaxUpdates -> Nat]
    BY <1>4 DEF TGInv, TGTypeOK, RunAtMostOnce
  <2>3. ran' \in [1 .. MaxUpdates -> Nat] /\ ran'[u] = 1 /\ \A k \in 1 .. MaxUpdates : k # u => ran'[k] = ran[k]
    BY <2>1, <2>2
  <2>4. TGTypeOK'
    BY <1>4, <2>1, <2>3 DEF TGInv, TGTypeOK
  <2>5. RunAtMostOnce'
    BY <1>4, <2>1, <2>2, <2>3 DEF TGInv, TGTypeOK, RunAtMostOnce
  <2>6. \A v \in updates : NewUpdate(v)' => v.id # u
    BY <1>4, <2>1 DEF TGInv, NewUpdate
  <2> QED
    BY <1>4, <2>1, <2>2, <2>3, <2>4, <2>5, <2>6 DEF TGInv, TGTypeOK, NewUpdate, UpdateType
<1>5. ASSUME TGInv, CrashAndRestart PROVE TGInv'
  <2>1. TGTypeOK' /\ RunAtMostOnce'
    BY <1>5 DEF CrashAndRestart, TGInv, TGTypeOK, RunAtMostOnce
  <2>2. \A u \in updates' : ~NewUpdate(u)'
    BY <1>5 DEF CrashAndRestart, TGInv, TGTypeOK, NewUpdate, UpdateType
  <2>3. \A u \in updates' : u.id <= written' /\ u.date <= tgTime'
    BY <1>5 DEF CrashAndRestart, TGInv, TGTypeOK, UpdateType
  <2> QED
    BY <1>5, <2>1, <2>2, <2>3 DEF CrashAndRestart, TGInv
<1>6. ASSUME TGInv, UNCHANGED <<tgTime, updates, written, startup, offset, goroutines, ran>> PROVE TGInv'
  BY <1>6 DEF TGInv, TGTypeOK, NewUpdate, RunAtMostOnce
<1> QED
  BY <1>1, <1>2, <1>3, <1>4, <1>5, <1>6
  DEF TGNext, TGStart, Wake, TGLockedDown, TGStop, TGStopped, tgVars

(* No message is run as a command twice, over any number of messages,      *)
(* polls and crashes (ProcessMessages of telegrambot).                     *)
THEOREM MessagesRunAtMostOnce == TGSpec => []RunAtMostOnce
<1>1. TGInv => RunAtMostOnce
  BY DEF TGInv
<1> QED
  BY TGInitial, TGPreserved, <1>1, PTL DEF TGSpec

-----------------------------------------------------------------------------
(* The remote browsers.  Tags grow, and so does the tag of a slot: a slot  *)
(* never goes back to an earlier instance, and what runs is the instance   *)
(* that its slot names.  One user at a time starts an instance.            *)
BIPcs == {"idle", "acquire", "start", "knock", "acquired", "failed", "post", "image", "act", "draw", "info"}
Starting == {"start", "knock", "acquired", "failed"}
Tags == 0 .. browserCounter + 1
InstanceType == [1 .. MaxStarts -> [slot : 0 .. SlotsUsed - 1, cmd : BOOLEAN, timer : BOOLEAN,
                                    proc : {"none", "running", "gone"}]]
SurferType == [Users -> [pc : BIPcs, tag : Tags, by : 0 .. MaxStarts, since : Tags]]

BITypeOK ==
  /\ setup \in [engine : {"phantomjs", "slimerjs"}, use : {"web", "app"}]
  /\ browserCounter \in Int /\ browserCounter + 1 \in 0 .. MaxStarts
  /\ browsers \in [0 .. SlotsUsed - 1 -> Tags]
  /\ instance \in InstanceType /\ surfer \in SurferType

RunsInSlot ==
  \A t \in 1 .. MaxStarts :
    instance[t].proc = "running" => instance[t].cmd /\ browsers[instance[t].slot] = t
SlotsMoveOn == \A t \in 1 .. browserCounter + 1 : browsers[instance[t].slot] >= t
OneStarts ==
  \A u \in Users :
    surfer[u].pc \in Starting =>
      /\ browserMutex = u /\ browserCounter + 1 >= 1
      /\ surfer[u].pc = "start" => instance[browserCounter + 1].proc = "none"
(* A request that has been looked up goes to a slot that still holds its   *)
(* session, or one that came later.                                        *)
InSession(x) ==
  /\ x.by # 0 => x.by = x.tag \/ x.by > x.since
  /\ x.pc \in {"post", "image", "act", "draw"} => x.tag # 0
  /\ x.pc # "info" => x.by = 0
  /\ x.pc \in {"act", "draw"} =>
       \/ browsers[instance[x.tag].slot] = x.tag
       \/ browsers[instance[x.tag].slot] > x.since
AnsweredInSession == \A u \in Users : InSession(surfer[u])

BIInv == BITypeOK /\ RunsInSlot /\ SlotsMoveOn /\ OneStarts /\ AnsweredInSession

LEMMA SlotsPositive == BITypeOK => SlotsUsed \in Nat \ {0}
  BY BIAssumption DEF BITypeOK, SlotsUsed

LEMMA NobodyFree == \A u \in Users : u # "free"
  BY BIAssumption DEF Users, TheApp

LEMMA BIInitial == BIInit => BIInv
<1> SUFFICES ASSUME BIInit PROVE BIInv
  OBVIOUS
<1>1. SlotsUsed \in Nat \ {0}
  BY BIAssumption DEF BIInit, SlotsUsed
<1>2. instance \in InstanceType /\ \A t \in 1 .. MaxStarts : instance[t].proc = "none"
  BY <1>1 DEF BIInit, InstanceType, NoInstance
<1>3. /\ surfer \in SurferType
      /\ \A u \in Users : surfer[u].pc = "idle" /\ surfer[u].by = 0
  BY BIAssumption DEF BIInit, SurferType, Surfing, BIPcs, Tags
<1>4. BITypeOK
  BY <1>1, <1>2, <1>3, BIAssumption DEF BIInit, BITypeOK, Tags
<1> QED
  BY <1>2, <1>3, <1>4
  DEF BIInit, BIInv, RunsInSlot, SlotsMoveOn, OneStarts, AnsweredInSession, InSession, Starting

(* A step in which instances at most die keeps the invariant, if no user   *)
(* begins to start one in it.                                              *)
InstancesOnlyDie ==
  /\ instance' \in InstanceType
  /\ \A t \in 1 .. MaxStarts :
       /\ instance'[t].slot = instance[t].slot
       /\ instance'[t].proc = "running" => instance[t].proc = "running" /\ instance'[t].cmd = instance[t].cmd
       /\ instance[t].proc = "none" => instance'[t].proc = "none"

LEMMA KilledDies ==
  ASSUME NEW S, NEW i \in [slot : S, cmd : BOOLEAN, timer : BOOLEAN, proc : {"none", "running", "gone"}]
  PROVE  /\ Killed(i) \in [slot : S, cmd : BOOLEAN, timer : BOOLEAN, proc : {"none", "running", "gone"}]
         /\ Killed(i).slot = i.slot
         /\ Killed(i).proc = "running" => i.proc = "running" /\ ~i.cmd /\ ~Killed(i).cmd
         /\ i.proc = "none" => Killed(i).proc = "none"
<1>1. CASE i.cmd
  <2> DEFINE p == IF i.proc = "running" THEN "gone" ELSE i.proc
  <2>1. p \in {"none", "gone"} /\ (i.proc = "none" => p = "none")
    OBVIOUS
  <2>2. Killed(i) = [i EXCEPT !.cmd = FALSE, !.proc = p]
    BY <1>1 DEF Killed
  <2> HIDE DEF p
  <2> QED
    BY <2>1, <2>2
<1>2. CASE ~i.cmd
  BY <1>2 DEF Killed
<1> QED
  BY <1>1, <1>2

LEMMA KillOnlyKills ==
  ASSUME BITypeOK, NEW T, KillInstances(T), UNCHANGED setup
  PROVE  InstancesOnlyDie
<1> DEFINE R == [slot : 0 .. SlotsUsed - 1, cmd : BOOLEAN, timer : BOOLEAN, proc : {"none", "running", "gone"}]
<1>1. instance \in [1 .. MaxStarts -> R]
  BY DEF BITypeOK, InstanceType
<1>2. \A t \in 1 .. MaxStarts :
        /\ Killed(instance[t]) \in R
        /\ Killed(instance[t]).slot = instance[t].slot
        /\ Killed(instance[t]).proc = "running" =>
             instance[t].proc = "running" /\ Killed(instance[t]).cmd = instance[t].cmd
        /\ instance[t].proc = "none" => Killed(instance[t]).proc = "none"
  BY <1>1, KilledDies
<1>3. InstanceType = [1 .. MaxStarts -> R]
  BY DEF InstanceType
<1> HIDE DEF R
<1>4. \A t \in 1 .. MaxStarts : instance'[t] = Killed(instance[t]) \/ instance'[t] = instance[t]
  BY <1>1 DEF KillInstances
<1>5. instance' \in [1 .. MaxStarts -> R]
  BY <1>1, <1>2 DEF KillInstances
<1> QED
  BY <1>2, <1>3, <1>4, <1>5 DEF InstancesOnlyDie

LEMMA DyingKeeps ==
  ASSUME BIInv, UNCHANGED <<setup, browsers, browserCounter>>, InstancesOnlyDie,
         surfer' \in SurferType,
         \A u \in Users : surfer'[u].pc \in Starting =>
             /\ browserMutex' = u /\ surfer[u].pc \in Starting
             /\ surfer'[u].pc = "start" => surfer[u].pc = "start",
         \A u \in Users : InSession(surfer'[u])
  PROVE  BIInv'
<1>1. Users' = Users /\ SlotsUsed' = SlotsUsed /\ Tags' = Tags
  BY DEF Users, SlotsUsed, Tags
<1>2. InstanceType' = InstanceType /\ SurferType' = SurferType
  BY <1>1 DEF InstanceType, SurferType
<1>3. BITypeOK'
  BY <1>1, <1>2 DEF BIInv, BITypeOK, InstancesOnlyDie
<1>4. RunsInSlot'
  BY <1>1 DEF BIInv, BITypeOK, RunsInSlot, InstancesOnlyDie
<1>5. SlotsMoveOn'
  <2>1. \A t \in 1 .. browserCounter + 1 : instance'[t].slot = instance[t].slot
    BY BIAssumption DEF BIInv, BITypeOK, InstancesOnlyDie
  <2> QED
    BY <2>1 DEF BIInv, SlotsMoveOn
<1>6. OneStarts'
  BY <1>1 DEF BIInv, BITypeOK, OneStarts, InstancesOnlyDie
<1>7. AnsweredInSession'
  <2> SUFFICES ASSUME NEW u \in Users PROVE InSession(surfer[u])'
    BY <1>1 DEF AnsweredInSession
  <2>1. InSession(surfer'[u]) /\ surfer'[u].tag \in Tags
    BY DEF SurferType
  <2>2. surfer'[u].tag # 0 => instance'[surfer'[u].tag].slot = instance[surfer'[u].tag].slot
    BY <2>1, BIAssumption DEF BIInv, BITypeOK, Tags, InstancesOnlyDie
  <2> QED
    BY <2>1, <2>2 DEF InSession
<1> QED
  BY <1>3, <1>4, <1>5, <1>6, <1>7 DEF BIInv

(* The steps of a user who is not starting an instance: the user moves on, *)
(* and may end up with another tag.                                        *)
LEMMA UserMoves ==
  ASSUME BIInv, UNCHANGED <<setup, browsers, browserCounter, browserMutex>>, InstancesOnlyDie,
         NEW u \in Users, surfer' \in SurferType,
         \A v \in Users : v # u => surfer'[v] = surfer[v],
         surfer'[u].pc \in Starting => surfer[u].pc \in Starting /\ surfer'[u].pc # "start",
         InSession(surfer'[u])
  PROVE  BIInv'
<1>1. \A v \in Users : surfer[v].pc \in Starting => browserMutex = v
  BY DEF BIInv, OneStarts
<1>2. \A v \in Users : InSession(surfer[v])
  BY DEF BIInv, AnsweredInSession
<1>3. \A v \in Users : surfer'[v].pc \in Starting =>
             /\ browserMutex' = v /\ surfer[v].pc \in Starting
             /\ surfer'[v].pc = "start" => surfer[v].pc = "start"
  BY <1>1
<1>4. \A v \in Users : InSession(surfer'[v])
  BY <1>2, Zenon
<1> QED
  BY <1>3, <1>4, DyingKeeps

(* The same for a step that changes the place of the user only.            *)
LEMMA UserGoes ==
  ASSUME BIInv, UNCHANGED <<setup, browsers, browserCounter, browserMutex>>, InstancesOnlyDie,
         NEW u \in Users, NEW pc \in BIPcs \ {"act", "draw"},
         surfer[u].pc # "info", pc \in {"post", "image"} => surfer[u].tag # 0,
         pc \in Starting => surfer[u].pc \in Starting /\ pc # "start",
         surfer' = [surfer EXCEPT ![u].pc = pc]
  PROVE  BIInv'
<1>1. surfer \in SurferType
  BY DEF BIInv, BITypeOK
<1>2. surfer' \in SurferType
  BY <1>1 DEF SurferType
<1>3. /\ surfer'[u].pc = pc /\ surfer'[u].tag = surfer[u].tag /\ surfer'[u].by = surfer[u].by
      /\ surfer'[u].since = surfer[u].since
      /\ \A v \in Users : v # u => surfer'[v] = surfer[v]
  BY <1>1 DEF SurferType
<1>4. InSession(surfer'[u])
  BY <1>3 DEF BIInv, AnsweredInSession, InSession
<1> QED
  BY <1>2, <1>3, <1>4, UserMoves

(* The same for a user who is done, and keeps a tag.                       *)
LEMMA UserSurfs ==
  ASSUME BIInv, UNCHANGED <<setup, browsers, browserCounter, browserMutex>>, InstancesOnlyDie,
         NEW u \in Users, NEW tag \in Tags,
         surfer' = [surfer EXCEPT ![u] = Surfing("idle", tag)]
  PROVE  BIInv'
<1>1. surfer \in SurferType
  BY DEF BIInv, BITypeOK
<1>2. surfer' \in SurferType
  <2>1. 0 \in Tags /\ 0 \in 0 .. MaxStarts /\ "idle" \in BIPcs
    BY BIAssumption DEF BIInv, BITypeOK, Tags, BIPcs
  <2> QED
    BY <1>1, <2>1 DEF SurferType, Surfing
<1>3. /\ surfer'[u].pc = "idle" /\ surfer'[u].by = 0
      /\ \A v \in Users : v # u => surfer'[v] = surfer[v]
  BY <1>1 DEF SurferType, Surfing
<1>4. InSession(surfer'[u]) /\ surfer'[u].pc \notin Starting
  BY <1>3 DEF InSession, Starting
<1> QED
  BY <1>2, <1>3, <1>4, UserMoves

LEMMA InstancesStay == BITypeOK /\ UNCHANGED <<setup, instance>> => InstancesOnlyDie
  BY DEF BITypeOK, InstancesOnlyDie, InstanceType, SlotsUsed

LEMMA AcquirePreserves ==
  ASSUME BIInv, NEW u \in Users, surfer[u].pc = "acquire", browserMutex = "free",
         browserCounter + 1 < MaxStarts, Acquire(u), UNCHANGED setup
  PROVE  BIInv'
<1> DEFINE t == browserCounter + 2
           s == (browserCounter + 1) % SlotsUsed
           R == [slot : 0 .. SlotsUsed - 1, cmd : BOOLEAN, timer : BOOLEAN, proc : {"none", "running", "gone"}]
<1>0. /\ SlotsUsed \in Nat \ {0} /\ MaxStarts \in Nat
      /\ browserCounter \in Int /\ browserCounter + 1 \in 0 .. MaxStarts
  BY SlotsPositive, BIAssumption DEF BIInv, BITypeOK
<1>1. t \in 1 .. MaxStarts /\ s \in 0 .. SlotsUsed - 1
  BY <1>0
<1>2. /\ Users' = Users /\ SlotsUsed' = SlotsUsed /\ browserCounter' + 1 = t /\ Tags \subseteq Tags' /\ t \in Tags'
      /\ browserMutex' = u
  BY <1>0 DEF Users, SlotsUsed, Tags, Acquire
<1>3. instance \in [1 .. MaxStarts -> R] /\ InstanceType' = [1 .. MaxStarts -> R]
  BY <1>2 DEF BIInv, BITypeOK, InstanceType
<1>4. [NoInstance EXCEPT !.slot = s] \in R /\ [NoInstance EXCEPT !.slot = s].slot = s
      /\ [NoInstance EXCEPT !.slot = s].proc = "none"
  BY <1>1 DEF NoInstance
<1>5. ASSUME NEW o \in 1 .. MaxStarts
      PROVE  /\ Killed(instance[o]) \in R
             /\ Killed(instance[o]).slot = instance[o].slot
             /\ Killed(instance[o]).proc = "running" => instance[o].proc = "running" /\ ~instance[o].cmd
  <2>1. PICK i \in R : i = instance[o]
    BY <1>3
  <2>2. /\ Killed(i) \in R /\ Killed(i).slot = i.slot
        /\ Killed(i).proc = "running" => i.proc = "running" /\ ~i.cmd
    BY KilledDies
  <2> QED BY <2>1, <2>2
<1>6. browsers' = [browsers EXCEPT ![s] = t]
  BY DEF Acquire
<1>7. instance' = [[o \in DOMAIN instance |->
                     IF o = browsers[s] THEN Killed(instance[o]) ELSE instance[o]]
                  EXCEPT ![t] = [NoInstance EXCEPT !.slot = s]]
  BY DEF Acquire
<1> HIDE DEF t, s, R
<1>8. instance' \in [1 .. MaxStarts -> R]
  BY <1>1, <1>3, <1>4, <1>5, <1>7
<1>9. /\ instance'[t].slot = s /\ instance'[t].proc = "none"
      /\ \A o \in 1 .. MaxStarts : o # t =>
           instance'[o] = IF o = browsers[s] THEN Killed(instance[o]) ELSE instance[o]
  BY <1>1, <1>3, <1>4, <1>7
<1>10. \A o \in 1 .. MaxStarts : o # t => instance'[o].slot = instance[o].slot
  BY <1>5, <1>9
<1>11. browsers \in [0 .. SlotsUsed - 1 -> Tags] /\ browsers' \in [0 .. SlotsUsed - 1 -> Tags']
  BY <1>1, <1>2, <1>6 DEF BIInv, BITypeOK
<1>12. surfer' \in SurferType'
  <2>1. surfer \in SurferType /\ surfer' = [surfer EXCEPT ![u].pc = "start"]
    BY DEF BIInv, BITypeOK, Acquire
  <2>2. surfer \in [Users -> [pc : BIPcs, tag : Tags', by : 0 .. MaxStarts, since : Tags']]
    BY <1>2, <2>1 DEF SurferType
  <2> QED
    BY <1>2, <2>1, <2>2 DEF SurferType, BIPcs
<1>13. BITypeOK'
  <2>1. browserCounter' \in Int /\ browserCounter' + 1 \in 0 .. MaxStarts
    BY <1>0, <1>1, <1>2 DEF Acquire, t
  <2>2. setup' \in [engine : {"phantomjs", "slimerjs"}, use : {"web", "app"}]
    BY DEF BIInv, BITypeOK
  <2> QED
    BY <1>2, <1>3, <1>8, <1>11, <1>12, <2>1, <2>2 DEF BITypeOK
<1>14. RunsInSlot'
  <2> SUFFICES ASSUME NEW o \in 1 .. MaxStarts, instance'[o].proc = "running"
               PROVE  instance'[o].cmd /\ browsers'[instance'[o].slot] = o
    BY DEF RunsInSlot
  <2>1. o # t
    BY <1>9
  <2>2. instance[o].proc = "running" => instance[o].cmd /\ browsers[instance[o].slot] = o
    BY DEF BIInv, RunsInSlot
  <2>3. o # browsers[s]
    BY <1>5, <1>9, <2>1, <2>2
  <2>4. instance'[o] = instance[o]
    BY <1>9, <2>1, <2>3
  <2>5. instance[o].slot # s
    BY <2>2, <2>3, <2>4
  <2>6. instance[o].slot \in 0 .. SlotsUsed - 1
    BY <1>3 DEF R
  <2> QED
    BY <1>6, <1>11, <2>2, <2>4, <2>5, <2>6
<1>15. SlotsMoveOn'
  <2> SUFFICES ASSUME NEW o \in 1 .. t PROVE browsers'[instance'[o].slot] >= o
    BY <1>2 DEF SlotsMoveOn
  <2>1. CASE o = t
    BY <1>0, <1>1, <1>6, <1>9, <1>11, <2>1 DEF t
  <2>2. CASE o # t
    <3>1. o \in 1 .. browserCounter + 1 /\ o \in 1 .. MaxStarts
      BY <1>0, <1>1, <2>2 DEF t
    <3>2. browsers[instance[o].slot] >= o /\ instance[o].slot \in 0 .. SlotsUsed - 1
      BY <1>3, <3>1 DEF BIInv, SlotsMoveOn, R
    <3>3. instance'[o].slot = instance[o].slot
      BY <1>10, <2>2, <3>1
    <3>4. CASE instance[o].slot = s
      BY <1>0, <1>1, <1>6, <1>11, <3>1, <3>3, <3>4 DEF t
    <3>5. CASE instance[o].slot # s
      BY <1>6, <1>11, <3>2, <3>3, <3>5
    <3> QED
      BY <3>4, <3>5
  <2> QED
    BY <2>1, <2>2
<1>16. OneStarts' /\ AnsweredInSession'
  <2>1. surfer \in SurferType /\ surfer' = [surfer EXCEPT ![u].pc = "start"]
    BY DEF BIInv, BITypeOK, Acquire
  <2>2. /\ surfer'[u].pc = "start" /\ surfer'[u].by = surfer[u].by /\ surfer'[u].tag = surfer[u].tag
        /\ surfer'[u].since = surfer[u].since
        /\ \A v \in Users : v # u => surfer'[v] = surfer[v]
    BY <2>1 DEF SurferType
  <2>3. \A v \in Users : surfer[v].pc \notin Starting
    BY NobodyFree DEF BIInv, OneStarts
  <2>4. ASSUME NEW v \in Users, v # u PROVE InSession(surfer[v])'
    <3>1. surfer'[v] = surfer[v] /\ InSession(surfer[v])
      BY <2>2, <2>4 DEF BIInv, AnsweredInSession
    <3>2. surfer[v].tag \in Tags /\ surfer[v].since \in Tags
      BY <2>1 DEF SurferType
    <3>3. CASE surfer[v].tag = 0
      BY <3>1, <3>3 DEF InSession
    <3>4. CASE surfer[v].tag # 0
      <4> DEFINE o == surfer[v].tag
      <4>1. o \in 1 .. MaxStarts /\ o # t /\ surfer[v].since < t
        BY <1>0, <3>2, <3>4 DEF Tags, t
      <4>2. instance'[o].slot = instance[o].slot /\ instance[o].slot \in 0 .. SlotsUsed - 1
        BY <1>3, <1>10, <4>1 DEF R
      <4>3. \/ browsers'[instance'[o].slot] = browsers[instance[o].slot]
            \/ browsers'[instance'[o].slot] = t
        BY <1>6, <1>11, <4>2
      <4> HIDE DEF o
      <4>4. o = surfer[v].tag /\ surfer[v].since \in Int /\ t \in Int
        BY <1>1, <1>0, <3>2 DEF o, Tags
      <4> QED
        BY <3>1, <4>1, <4>3, <4>4 DEF InSession
    <3> QED
      BY <3>3, <3>4
  <2>6. InSession(surfer[u])'
    BY <2>2 DEF BIInv, AnsweredInSession, InSession
  <2>7. AnsweredInSession'
    BY <1>2, <2>4, <2>6 DEF AnsweredInSession
  <2>5. OneStarts'
    BY <1>1, <1>2, <1>9, <2>2, <2>3 DEF OneStarts
  <2> QED
    BY <2>5, <2>7
<1> QED
  BY <1>13, <1>14, <1>15, <1>16 DEF BIInv

(* Start: the process of the newest instance, which its slot names.        *)
LEMMA StartPreserves ==
  ASSUME BIInv, NEW u \in Users, surfer[u].pc = "start", UNCHANGED <<setup, browsers, browserCounter, browserMutex>>,
         \/ \E cmd \in BOOLEAN : Fails(u, cmd)
         \/ \E proc \in {"running", "gone"} : Launches(u, proc)
  PROVE  BIInv'
<1> DEFINE t == browserCounter + 1
           R == [slot : 0 .. SlotsUsed - 1, cmd : BOOLEAN, timer : BOOLEAN, proc : {"none", "running", "gone"}]
<1>0. MaxStarts \in Nat /\ browserCounter \in Int /\ t \in 0 .. MaxStarts
  BY BIAssumption DEF BIInv, BITypeOK
<1>1. browserMutex = u /\ t \in 1 .. MaxStarts /\ instance[t].proc = "none"
  BY <1>0 DEF BIInv, OneStarts, Starting
<1>2. Users' = Users /\ SlotsUsed' = SlotsUsed /\ Tags' = Tags
  BY DEF Users, SlotsUsed, Tags
<1>3. /\ instance \in [1 .. MaxStarts -> R] /\ InstanceType' = [1 .. MaxStarts -> R]
      /\ surfer \in SurferType /\ SurferType' = SurferType
  BY <1>2 DEF BIInv, BITypeOK, InstanceType, SurferType
<1>4. PICK pc \in {"failed", "knock"} : surfer' = [surfer EXCEPT ![u].pc = pc]
  BY DEF Fails, Launches
<1>5. /\ surfer'[u].pc = pc /\ surfer'[u].by = surfer[u].by /\ surfer'[u].tag = surfer[u].tag
      /\ surfer'[u].since = surfer[u].since
      /\ \A v \in Users : v # u => surfer'[v] = surfer[v]
  BY <1>3, <1>4 DEF SurferType
<1>6. surfer' \in SurferType
  <2>1. pc \in BIPcs
    BY DEF BIPcs
  <2> QED
    BY <1>3, <1>4, <2>1 DEF SurferType
<1>7. /\ instance' \in [1 .. MaxStarts -> R]
      /\ \A o \in 1 .. MaxStarts : o # t => instance'[o] = instance[o]
      /\ instance'[t].slot = instance[t].slot
      /\ instance'[t].proc = "running" => instance'[t].cmd
  <2>1. ASSUME NEW cmd \in BOOLEAN, Fails(u, cmd) PROVE <1>7!:
    <3>1. instance' = [instance EXCEPT ![t].cmd = cmd]
      BY <2>1 DEF Fails
    <3> HIDE DEF t
    <3>2. instance' \in [1 .. MaxStarts -> R]
      BY <1>1, <1>3, <3>1
    <3>3. instance'[t].proc = instance[t].proc
      BY <1>1, <1>3, <3>1
    <3> QED
      BY <1>1, <1>3, <3>1, <3>2, <3>3
  <2>2. ASSUME NEW proc \in {"none", "running", "gone"}, Launches(u, proc) PROVE <1>7!:
    <3>1. instance' = [instance EXCEPT ![t].cmd = TRUE, ![t].timer = TRUE, ![t].proc = proc]
      BY <2>2 DEF Launches
    <3> HIDE DEF t
    <3>2. instance' \in [1 .. MaxStarts -> R]
      <4>1. [instance[t] EXCEPT !.cmd = TRUE, !.timer = TRUE, !.proc = proc] \in R
        BY <1>1, <1>3
      <4>2. instance' = [instance EXCEPT ![t] =
                           [instance[t] EXCEPT !.cmd = TRUE, !.timer = TRUE, !.proc = proc]]
        BY <3>1
      <4> HIDE DEF R
      <4> QED BY <1>1, <1>3, <4>1, <4>2
    <3> QED
      BY <1>1, <1>3, <3>1, <3>2
  <2> QED
    BY <2>1, <2>2
<1> HIDE DEF R
<1>8. BITypeOK'
  BY <1>2, <1>3, <1>6, <1>7 DEF BIInv, BITypeOK
<1>9. browsers \in [0 .. SlotsUsed - 1 -> Tags] /\ instance[t].slot \in 0 .. SlotsUsed - 1
  BY <1>1, <1>3 DEF BIInv, BITypeOK, R
<1>10. browsers[instance[t].slot] = t
  BY <1>0, <1>1, <1>9 DEF BIInv, SlotsMoveOn, Tags
<1>11. RunsInSlot'
  BY <1>7, <1>10 DEF BIInv, RunsInSlot
<1>12. SlotsMoveOn'
  <2>1. \A o \in 1 .. t : instance'[o].slot = instance[o].slot
    BY <1>0, <1>7
  <2> QED
    BY <2>1 DEF BIInv, SlotsMoveOn
<1>13. OneStarts'
  <2>1. \A v \in Users : v # u => surfer[v].pc \notin Starting
    BY <1>1 DEF BIInv, OneStarts
  <2>2. surfer'[u].pc # "start"
    BY <1>5
  <2> QED
    BY <1>1, <1>2, <1>5, <2>1, <2>2 DEF OneStarts
<1>14. AnsweredInSession'
  <2>1. ASSUME NEW v \in Users, v # u PROVE InSession(surfer[v])'
    <3>1. surfer'[v] = surfer[v] /\ InSession(surfer[v]) /\ surfer[v].tag \in Tags
      BY <1>3, <1>5, <2>1 DEF BIInv, AnsweredInSession, SurferType
    <3>2. surfer[v].tag # 0 => instance'[surfer[v].tag].slot = instance[surfer[v].tag].slot
      BY <1>0, <1>7, <3>1 DEF Tags
    <3> QED
      BY <3>1, <3>2 DEF InSession
  <2>2. InSession(surfer[u])'
    BY <1>5 DEF BIInv, AnsweredInSession, InSession
  <2> QED
    BY <1>2, <2>1, <2>2 DEF AnsweredInSession
<1> QED
  BY <1>8, <1>11, <1>12, <1>13, <1>14 DEF BIInv

LEMMA SendPreserves ==
  ASSUME BIInv, NEW u \in Users, SendRequest(u)
  PROVE  BIInv'
<1> DEFINE L == Listening(instance[surfer[u].tag].slot)
<1>1. UNCHANGED <<setup, browsers, browserCounter, browserMutex>> /\ InstancesOnlyDie
  BY InstancesStay DEF SendRequest, BIInv
<1>2. PICK by : surfer' = [surfer EXCEPT ![u].pc = "info", ![u].by = by] /\ (by = 0 \/ by \in L)
  BY DEF SendRequest
<1>3. surfer \in SurferType /\ surfer[u].tag \in Tags
  BY DEF BIInv, BITypeOK, SurferType
<1>4. by \in 0 .. MaxStarts
  BY <1>2, BIAssumption DEF Listening, Made, BIInv, BITypeOK, InstanceType
<1>5. by # 0 => by = surfer[u].tag \/ by > surfer[u].since
  <2> SUFFICES ASSUME by \in L PROVE by = surfer[u].tag \/ by > surfer[u].since
    BY <1>2
  <2>1. /\ by \in 1 .. MaxStarts /\ instance[by].proc = "running"
        /\ instance[by].slot = instance[surfer[u].tag].slot
    BY DEF Listening, Made, BIInv, BITypeOK, InstanceType
  <2>2. browsers[instance[by].slot] = by
    BY <2>1 DEF BIInv, RunsInSlot
  <2>3. surfer[u].pc \in {"act", "draw"} /\ InSession(surfer[u])
    BY DEF SendRequest, BIInv, AnsweredInSession
  <2> QED
    BY <2>1, <2>2, <2>3 DEF InSession
<1>6. surfer' \in SurferType
  <2>1. "info" \in BIPcs
    BY DEF BIPcs
  <2> QED
    BY <1>2, <1>3, <1>4, <2>1 DEF SurferType
<1>7. /\ surfer'[u].pc = "info" /\ surfer'[u].by = by /\ surfer'[u].tag = surfer[u].tag
      /\ surfer'[u].since = surfer[u].since
      /\ \A v \in Users : v # u => surfer'[v] = surfer[v]
  BY <1>2, <1>3 DEF SurferType
<1> HIDE DEF L
<1>8. surfer'[u].pc \notin Starting /\ InSession(surfer'[u])
  BY <1>5, <1>7 DEF Starting, InSession
<1> QED
  BY <1>1, <1>6, <1>7, <1>8, UserMoves

(* Retrieve: a session that is found is the one that its slot holds.       *)
LEMMA RetrievePreserves ==
  ASSUME BIInv, NEW u \in Users, Retrieve(u)
  PROVE  BIInv'
<1>1. UNCHANGED <<setup, browsers, browserCounter, browserMutex>> /\ InstancesOnlyDie
  BY InstancesStay DEF Retrieve, RetrieveIf, BIInv
<1>2. surfer \in SurferType /\ browserCounter + 1 \in Tags /\ 0 \in Tags
  BY DEF BIInv, BITypeOK, Tags
<1>3. PICK pc \in {"act", "draw", "acquire", "idle"}, since \in Tags :
        /\ surfer' = [surfer EXCEPT ![u].pc = pc, ![u].since = since]
        /\ pc \in {"act", "draw"} => browsers[instance[surfer[u].tag].slot] = surfer[u].tag
  BY <1>2 DEF Retrieve, RetrieveIf
<1>4. surfer' \in SurferType
  <2>1. pc \in BIPcs
    BY DEF BIPcs
  <2> QED
    BY <1>2, <1>3, <2>1 DEF SurferType
<1>5. /\ surfer'[u].pc = pc /\ surfer'[u].tag = surfer[u].tag /\ surfer'[u].by = surfer[u].by
      /\ \A v \in Users : v # u => surfer'[v] = surfer[v]
  BY <1>2, <1>3 DEF SurferType
<1>6. surfer[u].tag # 0 /\ surfer[u].by = 0
  BY DEF Retrieve, RetrieveIf, BIInv, AnsweredInSession, InSession
<1>7. InSession(surfer'[u]) /\ surfer'[u].pc \notin Starting
  BY <1>3, <1>5, <1>6 DEF InSession, Starting
<1> QED
  BY <1>1, <1>4, <1>5, <1>7, UserMoves

(* Acquire returns: nobody is starting an instance then.                   *)
LEMMA ReturnPreserves ==
  ASSUME BIInv, NEW u \in Users, AcquireReturns(u)
  PROVE  BIInv'
<1>1. UNCHANGED <<setup, browsers, browserCounter>> /\ InstancesOnlyDie
  BY InstancesStay DEF AcquireReturns, BIInv
<1>2. surfer[u].pc \in {"acquired", "failed"}
  BY DEF AcquireReturns
<1>3. surfer \in SurferType /\ surfer[u].tag \in Tags /\ browserCounter + 1 \in Tags
  BY DEF BIInv, BITypeOK, SurferType, Tags
<1>4. \/ \E tag \in Tags : surfer' = [surfer EXCEPT ![u] = Surfing("idle", tag)]
      \/ surfer' = [surfer EXCEPT ![u] = [Surfing("act", browserCounter + 1)
                                           EXCEPT !.since = browserCounter + 1]]
  BY <1>3 DEF AcquireReturns
<1>9. browserCounter + 1 \in 1 .. MaxStarts /\ browserCounter + 1 \in 1 .. browserCounter + 1
  BY <1>2, BIAssumption DEF BIInv, OneStarts, Starting, BITypeOK
<1>10. PICK pc \in {"act", "idle"}, tag \in Tags, since \in Tags :
         /\ surfer' = [surfer EXCEPT ![u] = [pc |-> pc, tag |-> tag, by |-> 0, since |-> since]]
         /\ pc = "act" => tag = browserCounter + 1
  <2>1. 0 \in Tags
    BY DEF Tags, BIInv, BITypeOK
  <2> QED
    BY <1>3, <1>4, <2>1 DEF Surfing
<1>5. surfer' \in SurferType
  <2>1. pc \in BIPcs /\ 0 \in 0 .. MaxStarts
    BY BIAssumption DEF BIPcs
  <2> QED
    BY <1>3, <1>10, <2>1 DEF SurferType
<1>6. /\ surfer'[u] = [pc |-> pc, tag |-> tag, by |-> 0, since |-> since]
      /\ \A v \in Users : v # u => surfer'[v] = surfer[v]
  BY <1>3, <1>10 DEF SurferType
<1>11. InSession(surfer'[u])
  <2>1. CASE pc = "idle"
    BY <1>6, <2>1 DEF InSession
  <2>2. CASE pc = "act"
    <3>1. tag = browserCounter + 1
      BY <1>10, <2>2
    <3>2. browsers[instance[tag].slot] >= tag /\ instance[tag].slot \in 0 .. SlotsUsed - 1
      BY <1>9, <3>1 DEF BIInv, SlotsMoveOn, BITypeOK, InstanceType
    <3>3. browsers[instance[tag].slot] \in Tags
      BY <3>2 DEF BIInv, BITypeOK
    <3>4. browsers[instance[tag].slot] = tag /\ tag # 0
      BY <1>9, <3>1, <3>2, <3>3 DEF Tags
    <3> QED
      BY <1>6, <3>4 DEF InSession
  <2> QED
    BY <2>1, <2>2
<1>7. \A v \in Users : surfer'[v].pc \notin Starting
  <2>1. browserMutex = u
    BY <1>2 DEF BIInv, OneStarts, Starting
  <2>2. \A v \in Users : v # u => surfer[v].pc \notin Starting
    BY <2>1 DEF BIInv, OneStarts
  <2> QED
    BY <1>6, <2>2 DEF Starting
<1>8. \A v \in Users : InSession(surfer'[v])
  <2>1. \A v \in Users : InSession(surfer[v])
    BY DEF BIInv, AnsweredInSession
  <2> QED
    BY <1>6, <1>11, <2>1, Zenon
<1> QED
  BY <1>1, <1>5, <1>7, <1>8, DyingKeeps

LEMMA BIPreserved == BIInv /\ [BINext]_biVars => BIInv'
<1>1. ASSUME BIInv, NEW u \in Users, NEW e, NEW pc \in BIPcs \ (Starting \cup {"act", "draw"}),
             pc \in {"post", "image"} => surfer[u].tag # 0, Begins(u, e, pc)
      PROVE  BIInv'
  BY <1>1, UserGoes, InstancesStay DEF Begins, BIInv
<1>2. ASSUME BIInv, NEW u \in Users,
             \/ HandleBrowserPhantomJS(u) \/ HandleBrowserSlimerJS(u)
             \/ HandleBrowserPhantomJSImage(u) \/ HandleBrowserSlimerJSImage(u)
             \/ BrowserPhantomJS(u) \/ BrowserSlimerJS(u)
      PROVE  BIInv'
  <2>1. \E e \in {"phantomjs", "slimerjs"}, pc \in {"acquire", "post", "image"} :
          Begins(u, e, pc) /\ (pc \in {"post", "image"} => surfer[u].tag # 0)
    BY <1>2 DEF HandleBrowserPhantomJS, HandleBrowserSlimerJS, HandleBrowserPhantomJSImage,
                HandleBrowserSlimerJSImage, BrowserPhantomJS, BrowserSlimerJS
  <2> QED
    BY <1>1, <1>2, <2>1 DEF BIPcs, Starting
<1>3. ASSUME BIInv, NEW u \in Users, Retrieve(u) PROVE BIInv'
  BY <1>3, RetrievePreserves
<1>4. ASSUME BIInv, NEW u \in Users, AcquirePhantomJS(u) \/ AcquireSlimerJS(u) PROVE BIInv'
  BY <1>4, AcquirePreserves DEF AcquirePhantomJS, AcquireSlimerJS
<1>5. ASSUME BIInv, NEW u \in Users, StartPhantomJS(u) \/ StartSlimerJS(u) PROVE BIInv'
  BY <1>5, StartPreserves DEF StartPhantomJS, StartSlimerJS
<1>6. ASSUME BIInv, NEW u \in Users, Knock(u) PROVE BIInv'
  <2>1. UNCHANGED <<setup, browsers, browserCounter, browserMutex>> /\ surfer[u].pc = "knock"
    BY <1>6 DEF Knock
  <2>2. InstancesOnlyDie
    BY <1>6, <2>1, InstancesStay, KillOnlyKills DEF Knock, BIInv
  <2>3. \E pc \in {"acquired", "failed"} : surfer' = [surfer EXCEPT ![u].pc = pc]
    BY <1>6 DEF Knock
  <2> QED
    BY <1>6, <2>1, <2>2, <2>3, UserGoes DEF BIPcs, Starting
<1>7. ASSUME BIInv, NEW u \in Users, RenderPage(u) PROVE BIInv'
  <2>1. surfer[u].tag \in Tags
    BY <1>7 DEF BIInv, BITypeOK, SurferType
  <2>2. surfer' = [surfer EXCEPT ![u] = Surfing("idle", surfer[u].tag)]
    BY <1>7 DEF RenderPage, BIInv, BITypeOK, SurferType
  <2>3. UNCHANGED <<setup, browsers, browserCounter, browserMutex, instance>>
    BY <1>7 DEF RenderPage
  <2> QED
    BY <1>7, <2>1, <2>2, <2>3, UserSurfs, InstancesStay DEF BIPcs, Starting, BIInv
<1>8. ASSUME BIInv, NEW u \in Users, KillAll(u) PROVE BIInv'
  <2>1. UNCHANGED <<setup, browsers, browserCounter, browserMutex>> /\ InstancesOnlyDie
    BY <1>8, KillOnlyKills DEF KillAll, BIInv
  <2>2. surfer' = [surfer EXCEPT ![u].pc = "info"] /\ surfer[u].pc # "info"
    BY <1>8 DEF KillAll
  <2> QED
    BY <1>8, <2>1, <2>2, UserGoes DEF BIPcs, Starting
<1>9. ASSUME BIInv, NEW u \in Users, KillRenderer(u) PROVE BIInv'
  <2>1. UNCHANGED <<setup, browsers, browserCounter, browserMutex>> /\ InstancesOnlyDie
    BY <1>9, KillOnlyKills DEF KillRenderer, BIInv
  <2>2. surfer' = [surfer EXCEPT ![u] = Surfing("idle", 0)]
    BY <1>9 DEF KillRenderer
  <2>3. 0 \in Tags
    BY <1>9 DEF Tags, BIInv, BITypeOK
  <2> QED
    BY <1>9, <2>1, <2>2, <2>3, UserSurfs DEF BIPcs, Starting
<1>10. ASSUME BIInv, UNCHANGED <<setup, browsers, browserCounter, browserMutex, surfer>>, InstancesOnlyDie
       PROVE  BIInv'
  <2>1. surfer' \in SurferType
    BY <1>10 DEF BIInv, BITypeOK
  <2>2. \A u \in Users : surfer'[u].pc \in Starting =>
             /\ browserMutex' = u /\ surfer[u].pc \in Starting
             /\ surfer'[u].pc = "start" => surfer[u].pc = "start"
    BY <1>10 DEF BIInv, OneStarts
  <2>3. \A u \in Users : InSession(surfer'[u])
    BY <1>10 DEF BIInv, AnsweredInSession
  <2> QED
    BY <1>10, <2>1, <2>2, <2>3, DyingKeeps
<1>11. ASSUME BIInv, NEW t \in DOMAIN instance, ProcessExits(t) \/ AutoKill(t) PROVE BIInv'
  <2> DEFINE R == [slot : 0 .. SlotsUsed - 1, cmd : BOOLEAN, timer : BOOLEAN, proc : {"none", "running", "gone"}]
  <2>1. instance \in [1 .. MaxStarts -> R] /\ InstanceType = [1 .. MaxStarts -> R] /\ t \in 1 .. MaxStarts
    BY <1>11 DEF BIInv, BITypeOK, InstanceType
  <2>2. UNCHANGED <<setup, browsers, browserCounter, browserMutex, surfer>>
    BY <1>11 DEF ProcessExits, AutoKill
  <2>3. CASE ProcessExits(t)
    <3>1. instance' = [instance EXCEPT ![t].proc = "gone"] /\ instance[t].proc = "running"
      BY <2>3 DEF ProcessExits
    <3>2. instance' \in [1 .. MaxStarts -> R]
      BY <2>1, <3>1
    <3>3. InstancesOnlyDie
      BY <2>1, <3>1, <3>2 DEF InstancesOnlyDie
    <3> QED
      BY <1>10, <1>11, <2>2, <3>3
  <2>4. CASE AutoKill(t)
    <3> DEFINE k == Killed(instance[t])
    <3>1. /\ k \in R /\ k.slot = instance[t].slot
          /\ k.proc = "running" => instance[t].proc = "running" /\ k.cmd = instance[t].cmd
          /\ instance[t].proc = "none" => k.proc = "none"
      <4>1. instance[t] \in R
        BY <2>1
      <4>2. /\ k \in R /\ k.slot = instance[t].slot
            /\ k.proc = "running" => instance[t].proc = "running" /\ ~instance[t].cmd /\ ~k.cmd
            /\ instance[t].proc = "none" => k.proc = "none"
        BY <4>1, KilledDies
      <4> HIDE DEF k
      <4> QED
        BY <4>1, <4>2
    <3>2. instance' = [instance EXCEPT ![t] = [k EXCEPT !.timer = FALSE]]
      BY <2>1, <2>4 DEF AutoKill
    <3> HIDE DEF k
    <3>3. [k EXCEPT !.timer = FALSE] \in R
      BY <3>1
    <3>4. /\ instance'[t].slot = k.slot /\ instance'[t].proc = k.proc /\ instance'[t].cmd = k.cmd
          /\ \A o \in 1 .. MaxStarts : o # t => instance'[o] = instance[o]
      BY <2>1, <3>1, <3>2
    <3>5. instance' \in [1 .. MaxStarts -> R]
      BY <2>1, <3>2, <3>3
    <3>6. InstancesOnlyDie
      BY <2>1, <3>1, <3>4, <3>5 DEF InstancesOnlyDie
    <3> QED
      BY <1>10, <1>11, <2>2, <3>6
  <2> QED
    BY <1>11, <2>3, <2>4
<1>12. ASSUME BIInv, PrepareDocker \/ UNCHANGED biVars PROVE BIInv'
  BY <1>10, <1>12, InstancesStay DEF PrepareDocker, biVars, BIInv
<1> QED
  BY <1>2, <1>3, <1>4, <1>5, <1>6, <1>7, <1>8, <1>9, <1>11, <1>12, SendPreserves, ReturnPreserves
  DEF BINext, BIStep

(* A browser process that runs is the one that its slot names, and nobody  *)
(* is answered by another session's browser that was there when the        *)
(* request looked its own session up, for any number of users, slots and   *)
(* restarts (Acquire, Retrieve and Kill of phantomjs and slimerjs).        *)
THEOREM SessionsAlwaysApart == BISpec => []SessionsAreKeptApart
<1>1. BIInv => SessionsAreKeptApart
  <2> SUFFICES ASSUME BIInv PROVE SessionsAreKeptApart
    OBVIOUS
  <2>1. Made \subseteq 1 .. MaxStarts /\ DOMAIN surfer = Users
    BY DEF BIInv, BITypeOK, InstanceType, SurferType, Made
  <2> QED
    BY <2>1 DEF BIInv, RunsInSlot, AnsweredInSession, InSession, SessionsAreKeptApart
<1> QED
  BY BIInitial, BIPreserved, <1>1, PTL DEF BISpec

-----------------------------------------------------------------------------
(* The pages of a browser.  What is shown as the current element and what  *)
(* has the focus are always set together, by the same search.              *)

(* The search for an element and its neighbours reports what it focuses.   *)
LEMMA SearchReportsFocus ==
  ASSUME FocusIsReported, NEW desc, FindBeforeAfter(desc), UNCHANGED page
  PROVE  FocusIsReported'
<1> DEFINE matches == {i \in Brief : desc = "none" \/ page[i].desc = desc}
<1>1. /\ info'.exact = DescOfFirst(matches)
      /\ matches # {} => focus' = Min(matches)
  BY DEF FindBeforeAfter
<1> HIDE DEF matches
<1>2. CASE matches = {}
  BY <1>1, <1>2 DEF DescOfFirst, FocusIsReported
<1>3. CASE matches # {}
  BY <1>1, <1>3 DEF DescOfFirst, FocusIsReported
<1> QED BY <1>2, <1>3

(* So does the jump over several elements, from what is shown or from the  *)
(* first element, whether it finds any or not.                             *)
LEMMA JumpReportsFocus ==
  ASSUME FocusIsReported, NEW n, LoNextN(n)
  PROVE  FocusIsReported'
<1> DEFINE from == IF info.exact = "none" THEN FirstElement ELSE info
           shown == IF info.exact = "none" /\ Brief # {} THEN Min(Brief) ELSE focus
           found == Behind(from.exact, n)
<1>1. /\ page' = page
      /\ info' = IF found = {} THEN from
                 ELSE [before |-> from.exact, exact |-> DescOfLast(found), after |-> DescOfLast(found)]
      /\ focus' = IF found = {} THEN shown ELSE Max(found)
  BY DEF LoNextN, FindAfter, FocusAfter
<1>2. shown # 0 /\ from.exact # "none" => page[shown].desc = from.exact
  BY DEF FirstElement, DescOfFirst, FocusIsReported
<1> HIDE DEF from, shown, found
<1>3. CASE found = {}
  BY <1>1, <1>2, <1>3 DEF FocusIsReported
<1>4. CASE found # {}
  BY <1>1, <1>4 DEF DescOfLast, FocusIsReported
<1> QED BY <1>3, <1>4

(* A click goes to the element that the user was last shown, on every      *)
(* page, whatever repeats and whenever the page is replaced.               *)
THEOREM FocusAlwaysReported == BPSpec => []FocusIsReported
<1>1. BPInit => FocusIsReported
  BY DEF BPInit, FocusIsReported
<1>2. ASSUME FocusIsReported, UNCHANGED bpVars
      PROVE  FocusIsReported'
  BY <1>2 DEF bpVars, FocusIsReported
<1>3. ASSUME FocusIsReported, Goto \/ GoElsewhere \/ LoReset \/ Loaded
      PROVE  FocusIsReported'
  BY <1>3 DEF Goto, GoElsewhere, LoReset, Loaded, NoInfo, FocusIsReported
<1>4. ASSUME FocusIsReported, LoNext \/ LoPrev
      PROVE  FocusIsReported'
  <2>1. PICK desc : FindBeforeAfter(desc) /\ UNCHANGED page
    BY <1>4 DEF LoNext, LoPrev
  <2> QED BY <1>4, <2>1, SearchReportsFocus
<1>5. ASSUME FocusIsReported, LoPointer \/ LoSetVal
      PROVE  FocusIsReported'
  BY <1>5 DEF LoPointer, LoSetVal, bpVars, FocusIsReported
<1>6. FocusIsReported /\ [BPNext]_bpVars => FocusIsReported'
  BY <1>2, <1>3, <1>4, <1>5, JumpReportsFocus DEF BPNext, BPRequest
<1> QED BY <1>1, <1>6, PTL DEF BPSpec

-----------------------------------------------------------------------------
(* The black list of the DNS server.  Of the names that a new list is to   *)
(* have, those not yet in it wait for a goroutine, but for the remainder   *)
(* of the division; the list in force was such a list with nothing left to *)
(* do.                                                                     *)
IsWholeWith(entries, names, todo) ==
  /\ IsFiniteSet(names) /\ names \cap Whitelist = {}
  /\ entries \subseteq names \cup UNION {AddressOf[n] : n \in names}
  /\ Cardinality(names \ (todo \cup entries)) < FirstRoutines
  /\ Cardinality(names) >= FirstRoutines => todo \cup entries # {}

DNInv ==
  /\ IsWholeWith(blackList, applied, {})
  /\ IsWholeWith(building.list, building.names, building.todo)
  /\ building.todo \subseteq building.names

(* Nothing is whole.                                                       *)
LEMMA NothingIsWhole == IsWholeWith({}, {}, {})
<1>1. IsFiniteSet({}) /\ Cardinality({}) = 0
  BY FS_EmptySet
<1>2. FirstRoutines \in Nat /\ 0 < FirstRoutines
  BY DNAssumption
<1> QED BY <1>1, <1>2 DEF IsWholeWith

(* The shares of the goroutines leave over less than one name for each of  *)
(* them, and there is nothing to share only when there are too few names.  *)
LEMMA RemainderIsSmall ==
  ASSUME NEW c \in Nat, NEW r \in Nat, 0 < r
  PROVE  /\ r * (c \div r) \in 0 .. c
         /\ c - r * (c \div r) < r
         /\ c >= r => r * (c \div r) > 0
<1>1. c \div r \in Nat /\ c = r * (c \div r) + (c % r) /\ c % r \in 0 .. r - 1
  OBVIOUS
<1> DEFINE q == c \div r
           p == r * q
<1>2. p \in Nat
  BY <1>1
<1>3. c = p + (c % r)
  BY <1>1
<1> HIDE DEF p
<1>4. p \in 0 .. c /\ c - p < r /\ (c >= r => p > 0)
  BY <1>1, <1>2, <1>3
<1> QED BY <1>4 DEF p

(* A name that is resolved moves from what is left to do to the list.      *)
LEMMA ResolvedIsWhole ==
  ASSUME NEW entries, NEW names, NEW todo, todo \subseteq names, IsWholeWith(entries, names, todo),
         NEW n \in todo, NEW addresses \in {{}, AddressOf[n]}
  PROVE  IsWholeWith(entries \cup {n} \cup addresses, names, todo \ {n})
<1> DEFINE more == entries \cup {n} \cup addresses
<1>1. names \ ((todo \ {n}) \cup more) \subseteq names \ (todo \cup entries)
  OBVIOUS
<1>2. IsFiniteSet(names \ (todo \cup entries)) /\ IsFiniteSet(names)
  BY FS_Subset DEF IsWholeWith
<1>3. /\ Cardinality(names \ ((todo \ {n}) \cup more)) <= Cardinality(names \ (todo \cup entries))
      /\ Cardinality(names \ ((todo \ {n}) \cup more)) \in Nat
      /\ Cardinality(names \ (todo \cup entries)) \in Nat
  <2>1. IsFiniteSet(names \ ((todo \ {n}) \cup more))
    BY <1>1, <1>2, FS_Subset
  <2> QED BY <1>1, <1>2, <2>1, FS_Subset, FS_CardinalityType
<1>4. Cardinality(names \ ((todo \ {n}) \cup more)) < FirstRoutines
  BY <1>3, DNAssumption DEF IsWholeWith
<1>5. more \subseteq names \cup UNION {AddressOf[m] : m \in names}
  BY DEF IsWholeWith
<1>6. n \in (todo \ {n}) \cup more
  OBVIOUS
<1> QED BY <1>4, <1>5, <1>6 DEF IsWholeWith

(* A download begins a list that is as good as whole.                      *)
LEMMA DownloadIsWhole ==
  ASSUME NEW chosen \in SUBSET Lists, NEW names \in SUBSET DownloadAllBlacklists(chosen),
         NEW r \in 1 .. FirstRoutines, NEW todo \in Shares(names, r)
  PROVE  IsWholeWith({}, names, todo) /\ todo \subseteq names
<1>1. names \subseteq UNION Lists /\ names \cap Whitelist = {}
  BY DEF DownloadAllBlacklists, ExtractNames
<1>2. IsFiniteSet(names) /\ Cardinality(names) \in Nat
  BY <1>1, DNAssumption, FS_Subset, FS_CardinalityType
<1>3. todo \subseteq names /\ Cardinality(todo) = r * (Cardinality(names) \div r)
  BY DEF Shares
<1>4. names \cap todo = todo
  BY <1>3
<1>5. Cardinality(names \ todo) = Cardinality(names) - Cardinality(todo)
  <2>1. Cardinality(names \ todo) = Cardinality(names) - Cardinality(names \cap todo)
    BY <1>2, FS_Difference
  <2> QED BY <1>4, <2>1
<1>6. r \in Nat /\ 0 < r /\ r <= FirstRoutines /\ FirstRoutines \in Nat
  BY DNAssumption
<1>7. /\ Cardinality(todo) \in 0 .. Cardinality(names)
      /\ Cardinality(names) - Cardinality(todo) < r
      /\ Cardinality(names) >= r => Cardinality(todo) > 0
  BY <1>2, <1>3, <1>6, RemainderIsSmall
<1>8. /\ Cardinality(names \ todo) < FirstRoutines
      /\ Cardinality(names) >= FirstRoutines => Cardinality(todo) > 0
  BY <1>2, <1>5, <1>6, <1>7
<1>9. Cardinality(todo) > 0 => todo # {}
  BY FS_EmptySet
<1>10. todo \cup {} = todo /\ {} \subseteq names \cup UNION {AddressOf[n] : n \in names}
  OBVIOUS
<1> QED BY <1>1, <1>2, <1>3, <1>8, <1>9, <1>10 DEF IsWholeWith

(* Every step keeps both lists whole.                                      *)
LEMMA DNPreserved == DNInv /\ [DNNext]_dnVars => DNInv'
<1>1. ASSUME DNInv, UNCHANGED <<blackList, applied, building>>
      PROVE  DNInv'
  BY <1>1 DEF DNInv, IsWholeWith
<1>2. ASSUME DNInv, UpdateBegins
      PROVE  DNInv'
  <2>1. UNCHANGED <<blackList, applied>>
    BY <1>2 DEF UpdateBegins
  <2>2. PICK chosen \in SUBSET Lists : \E names \in SUBSET DownloadAllBlacklists(chosen) :
          \E todo \in Shares(names, IF blackList = {} THEN FirstRoutines ELSE LaterRoutines) :
            building' = [todo |-> todo, names |-> names, list |-> {}]
    BY <1>2 DEF UpdateBegins
  <2>3. PICK r \in 1 .. FirstRoutines : \E names \in SUBSET DownloadAllBlacklists(chosen) :
          \E todo \in Shares(names, r) : building' = [todo |-> todo, names |-> names, list |-> {}]
    <3> DEFINE routines == IF blackList = {} THEN FirstRoutines ELSE LaterRoutines
    <3>1. routines \in 1 .. FirstRoutines
      BY DNAssumption
    <3> HIDE DEF routines
    <3> QED BY <2>2, <3>1 DEF routines
  <2>4. PICK names \in SUBSET DownloadAllBlacklists(chosen) :
          \E todo \in Shares(names, r) : building' = [todo |-> todo, names |-> names, list |-> {}]
    BY <2>3
  <2>5. PICK todo \in Shares(names, r) : building' = [todo |-> todo, names |-> names, list |-> {}]
    BY <2>4
  <2>6. IsWholeWith({}, names, todo) /\ todo \subseteq names
    BY DownloadIsWhole
  <2> QED BY <1>2, <2>1, <2>5, <2>6 DEF DNInv, IsWholeWith
<1>3. ASSUME DNInv, NEW n \in building.todo, Resolve(n)
      PROVE  DNInv'
  <2>1. PICK addresses \in {{}, AddressOf[n]} :
          building' = [building EXCEPT !.todo = @ \ {n}, !.list = @ \cup {n} \cup addresses]
    BY <1>3 DEF Resolve
  <2>2. UNCHANGED <<blackList, applied>>
    BY <1>3 DEF Resolve
  <2>3. IsWholeWith(building.list \cup {n} \cup addresses, building.names, building.todo \ {n})
    BY <1>3, ResolvedIsWhole DEF DNInv
  <2> QED BY <1>3, <2>1, <2>2, <2>3 DEF DNInv, IsWholeWith
<1>4. ASSUME DNInv, SwapBlackList
      PROVE  DNInv'
  BY <1>4, NothingIsWhole DEF SwapBlackList, NotBuilding, DNInv, IsWholeWith
<1>5. ASSUME HandleNameQuery \/ HandleRecursiveQuery \/ Respond \/ DNTick \/ UNCHANGED dnVars
      PROVE  UNCHANGED <<blackList, applied, building>>
  BY <1>5 DEF HandleNameQuery, HandleRecursiveQuery, Respond, DNTick, dnVars
<1>6. ASSUME NEW t, NEW c, NEW n, Receive(t, c, n)
      PROVE  UNCHANGED <<blackList, applied, building>>
  BY <1>6 DEF Receive
<1> QED
  BY <1>1, <1>2, <1>3, <1>4, <1>5, <1>6 DEF DNNext

(* The list in force is always one whole download, short of less than one  *)
(* name for each of the goroutines that resolved it, without a name of the *)
(* white list, for any hosts chosen, limit and number of goroutines.       *)
THEOREM BlackListAlwaysWhole == DNSpec => []BlackListIsWhole
<1>1. DNInit => DNInv
  BY NothingIsWhole DEF DNInit, NotBuilding, DNInv, IsWholeWith
<1>2. DNInv => BlackListIsWhole
  <2> SUFFICES ASSUME DNInv PROVE BlackListIsWhole
    OBVIOUS
  <2>1. {} \cup blackList = blackList
    OBVIOUS
  <2> QED BY <2>1 DEF DNInv, IsWholeWith, BlackListIsWhole
<1> QED BY <1>1, <1>2, DNPreserved, PTL DEF DNSpec

-----------------------------------------------------------------------------
(* The rate limiter.                                                       *)
(* Initialise leaves a positive interval and a positive allowance.         *)
LEMMA Positive == Interval \in Nat \ {0} /\ Allowance \in Nat \ {0}
<1>1. Factor \in {1, 2, 3, 5, 7, 11}
  BY RateAssumption DEF Factor
<1>2. \A u \in Nat \ {0}, f \in Nat \ {0} : u * f \in Nat \ {0}
  OBVIOUS
<1> QED
  BY <1>1, <1>2, RateAssumption DEF Interval, Allowance

(* What Append does to a sequence of times, element by element.            *)
LEMMA AppendTimes ==
  ASSUME NEW S, NEW s \in Seq(S), NEW x \in S
  PROVE  /\ Append(s, x) \in Seq(S)
         /\ Len(Append(s, x)) = Len(s) + 1
         /\ Len(s) \in Nat
         /\ \A i \in 1 .. Len(s) : Append(s, x)[i] = s[i]
         /\ Append(s, x)[Len(s) + 1] = x
OBVIOUS

LEMMA TypeStep == TypeOK /\ [Next]_vars => TypeOK'
<1> SUFFICES ASSUME TypeOK, [Next]_vars PROVE TypeOK'
  OBVIOUS
<1> USE Positive, RateAssumption
<1> USE DEF TypeOK
<1>1. ASSUME NEW a \in Actor, AddAfterReset(a) PROVE TypeOK'
  <2>1. Append(admitted[a], clock) \in Seq(0 .. clock)
    BY AppendTimes, <1>1
  <2>2. admitted' \in [Actor -> Seq(0 .. clock)]
    BY <2>1, <1>1 DEF AddAfterReset
  <2> QED
    BY <2>2, <1>1 DEF AddAfterReset
<1>2. ASSUME NEW a \in Actor, AddCounted(a) PROVE TypeOK'
  <2>1. Append(admitted[a], clock) \in Seq(0 .. clock)
    BY AppendTimes, <1>2
  <2>2. admitted' \in [Actor -> Seq(0 .. clock)]
    BY <2>1, <1>2 DEF AddCounted
  <2> QED
    BY <2>2, <1>2 DEF AddCounted, Exhausted
<1>3. ASSUME NEW a \in Actor, NEW l \in BOOLEAN, AddRefused(a, l) PROVE TypeOK'
  BY <1>3 DEF AddRefused
<1>4. CASE Tick
  <2>1. 0 .. clock \subseteq 0 .. clock + 1
    BY <1>4
  <2>2. Seq(0 .. clock) \subseteq Seq(0 .. clock + 1)
    BY <2>1
  <2> QED
    BY <2>1, <2>2, <1>4 DEF Tick
<1>5. CASE UNCHANGED vars
  BY <1>5 DEF vars
<1> QED
  BY <1>1, <1>2, <1>3, <1>4, <1>5 DEF Next, Add

(* One hit more, counted: the last k + 1 hits are the recent ones.         *)
LEMMA HitCounted ==
  ASSUME NEW a \in Actor, TypeOK, HitInv(a), AddCounted(a)
  PROVE  HitInv(a)'
<1> USE Positive
<1> DEFINE s == admitted[a]
           n == Len(s)
           k == counter[a]
           t == Append(s, clock)
           M == Allowance
<1>1. s \in Seq(0 .. clock) /\ k \in 0 .. M /\ clock \in Nat /\ lastTimestamp \in 0 .. clock
  BY DEF TypeOK
<1>2. n \in Nat /\ \A i \in 1 .. n : s[i] \in 0 .. clock
  BY <1>1
<1>3. /\ Len(t) = n + 1
      /\ \A i \in 1 .. n : t[i] = s[i]
      /\ t[n + 1] = clock
  BY <1>1, AppendTimes
<1>4. /\ admitted'[a] = t
      /\ counter'[a] = k + 1
      /\ lastTimestamp' = lastTimestamp
      /\ k < M
      /\ clock - lastTimestamp < Interval
  BY <1>1 DEF TypeOK, AddCounted, Exhausted, ResetDue
<1>5. /\ k <= n
      /\ \A i, j \in 1 .. n : i <= j => s[i] <= s[j]
      /\ \A i \in 1 .. n : i > n - k => s[i] >= lastTimestamp
      /\ \A i \in 1 .. n : i <= n - k => s[i] <= lastTimestamp
      /\ \A i \in 1 .. n : i <= n - k - M => lastTimestamp - s[i] >= Interval
      /\ \A i \in 1 .. n - 2 * M : s[i + 2 * M] - s[i] >= Interval
  BY DEF HitInv
<1> HIDE DEF s, n, k, t, M
<1>a. M \in Nat \ {0} /\ M = Allowance
  BY DEF M
<1>6. k + 1 <= n + 1
  BY <1>1, <1>2, <1>5, <1>a
<1>7. \A i, j \in 1 .. n + 1 : i <= j => t[i] <= t[j]
  <2> SUFFICES ASSUME NEW i \in 1 .. n + 1, NEW j \in 1 .. n + 1, i <= j PROVE t[i] <= t[j]
    OBVIOUS
  <2>1. CASE j <= n
    BY <2>1, <1>2, <1>3, <1>5
  <2>2. CASE i <= n /\ j = n + 1
    BY <2>2, <1>1, <1>2, <1>3
  <2>3. CASE i = n + 1 /\ j = n + 1
    BY <2>3, <1>1, <1>3
  <2> QED
    BY <2>1, <2>2, <2>3, <1>2
<1>8. \A i \in 1 .. n + 1 : i > (n + 1) - (k + 1) => t[i] >= lastTimestamp
  BY <1>1, <1>2, <1>3, <1>5, <1>a
<1>9. \A i \in 1 .. n + 1 : i <= (n + 1) - (k + 1) => t[i] <= lastTimestamp
  BY <1>1, <1>2, <1>3, <1>5, <1>a
<1>10. \A i \in 1 .. n + 1 : i <= (n + 1) - (k + 1) - M => lastTimestamp - t[i] >= Interval
  BY <1>1, <1>2, <1>3, <1>5, <1>a
<1>11. \A i \in 1 .. (n + 1) - 2 * M : t[i + 2 * M] - t[i] >= Interval
  <2> SUFFICES ASSUME NEW i \in 1 .. (n + 1) - 2 * M PROVE t[i + 2 * M] - t[i] >= Interval
    OBVIOUS
  <2>1. CASE i + 2 * M <= n
    BY <2>1, <1>1, <1>2, <1>3, <1>5, <1>a
  <2>2. CASE i + 2 * M = n + 1
    <3>1. t[i + 2 * M] = clock
      BY <2>2, <1>3
    <3>2. i \in 1 .. n /\ i <= n - k - M
      BY <2>2, <1>1, <1>2, <1>4, <1>a
    <3>3. t[i] = s[i] /\ lastTimestamp - s[i] >= Interval /\ s[i] \in 0 .. clock
      BY <3>2, <1>2, <1>3, <1>5
    <3> QED
      BY <3>1, <3>3, <1>1
  <2> QED
    BY <2>1, <2>2, <1>2, <1>a
<1> QED
  BY <1>3, <1>4, <1>6, <1>7, <1>8, <1>9, <1>10, <1>11, <1>a, Positive DEF HitInv

(* The counters are cleared: every hit so far becomes an earlier one, and  *)
(* all but the last Allowance of them are an interval old.                 *)
LEMMA HitsCleared ==
  ASSUME NEW a \in Actor, TypeOK, HitInv(a), ResetDue
  PROVE  LET s == admitted[a]
             n == Len(s)
         IN /\ \A i \in 1 .. n : s[i] <= clock
            /\ \A i \in 1 .. n : i <= n - Allowance => clock - s[i] >= Interval
<1> USE Positive
<1> DEFINE s == admitted[a]
           n == Len(s)
           k == counter[a]
           M == Allowance
<1>1. s \in Seq(0 .. clock) /\ k \in 0 .. M /\ clock \in Nat /\ lastTimestamp \in 0 .. clock
  BY DEF TypeOK
<1>2. n \in Nat /\ \A i \in 1 .. n : s[i] \in 0 .. clock
  BY <1>1
<1>3. clock - lastTimestamp >= Interval
  BY DEF ResetDue
<1>4. \A i \in 1 .. n : i <= n - k => s[i] <= lastTimestamp
  BY DEF HitInv
<1> HIDE DEF s, n, k, M
<1>a. M \in Nat \ {0}
  BY DEF M
<1>5. \A i \in 1 .. n : i <= n - M => clock - s[i] >= Interval
  BY <1>1, <1>2, <1>3, <1>4, <1>a
<1>6. \A i \in 1 .. n : s[i] <= clock
  BY <1>1, <1>2
<1> QED
  BY <1>5, <1>6 DEF s, n, M

(* The counters are cleared and the actor that did it has its first hit.   *)
LEMMA HitAfterReset ==
  ASSUME NEW a \in Actor, TypeOK, HitInv(a), AddAfterReset(a)
  PROVE  HitInv(a)'
<1> USE Positive
<1> DEFINE s == admitted[a]
           n == Len(s)
           t == Append(s, clock)
           M == Allowance
<1>1. s \in Seq(0 .. clock) /\ clock \in Nat /\ lastTimestamp \in 0 .. clock
  BY DEF TypeOK
<1>2. n \in Nat /\ \A i \in 1 .. n : s[i] \in 0 .. clock
  BY <1>1
<1>3. /\ Len(t) = n + 1
      /\ \A i \in 1 .. n : t[i] = s[i]
      /\ t[n + 1] = clock
  BY <1>1, AppendTimes
<1>4. admitted'[a] = t /\ counter'[a] = 1 /\ lastTimestamp' = clock
  BY <1>1 DEF TypeOK, AddAfterReset
<1>5. /\ \A i, j \in 1 .. n : i <= j => s[i] <= s[j]
      /\ \A i \in 1 .. n - 2 * M : s[i + 2 * M] - s[i] >= Interval
  BY DEF HitInv
<1>6. /\ \A i \in 1 .. n : s[i] <= clock
      /\ \A i \in 1 .. n : i <= n - M => clock - s[i] >= Interval
  BY HitsCleared DEF AddAfterReset
<1> HIDE DEF s, n, t, M
<1>a. M \in Nat \ {0} /\ M = Allowance
  BY DEF M
<1>7. \A i, j \in 1 .. n + 1 : i <= j => t[i] <= t[j]
  <2> SUFFICES ASSUME NEW i \in 1 .. n + 1, NEW j \in 1 .. n + 1, i <= j PROVE t[i] <= t[j]
    OBVIOUS
  <2>1. CASE j <= n
    BY <2>1, <1>2, <1>3, <1>5
  <2>2. CASE i <= n /\ j = n + 1
    BY <2>2, <1>1, <1>2, <1>3
  <2>3. CASE i = n + 1 /\ j = n + 1
    BY <2>3, <1>1, <1>3
  <2> QED
    BY <2>1, <2>2, <2>3, <1>2
<1>8. /\ 1 <= n + 1
      /\ \A i \in 1 .. n + 1 : i > (n + 1) - 1 => t[i] >= clock
      /\ \A i \in 1 .. n + 1 : i <= (n + 1) - 1 => t[i] <= clock
  BY <1>1, <1>2, <1>3, <1>6
<1>9. \A i \in 1 .. n + 1 : i <= (n + 1) - 1 - M => clock - t[i] >= Interval
  BY <1>1, <1>2, <1>3, <1>6, <1>a
<1>10. \A i \in 1 .. (n + 1) - 2 * M : t[i + 2 * M] - t[i] >= Interval
  <2> SUFFICES ASSUME NEW i \in 1 .. (n + 1) - 2 * M PROVE t[i + 2 * M] - t[i] >= Interval
    OBVIOUS
  <2>1. CASE i + 2 * M <= n
    BY <2>1, <1>1, <1>2, <1>3, <1>5, <1>a
  <2>2. CASE i + 2 * M = n + 1
    <3>1. t[i + 2 * M] = clock
      BY <2>2, <1>3
    <3>2. i \in 1 .. n /\ i <= n - M
      BY <2>2, <1>2, <1>a
    <3> QED
      BY <3>1, <3>2, <1>3, <1>6
  <2> QED
    BY <2>1, <2>2, <1>2, <1>a
<1> QED
  BY <1>3, <1>4, <1>7, <1>8, <1>9, <1>10, <1>a DEF HitInv

(* The counters are cleared by another actor.                              *)
LEMMA OthersReset ==
  ASSUME NEW a \in Actor, NEW b \in Actor, a # b, TypeOK, HitInv(a), AddAfterReset(b)
  PROVE  HitInv(a)'
<1> USE Positive
<1> DEFINE s == admitted[a]
           n == Len(s)
           M == Allowance
<1>1. s \in Seq(0 .. clock) /\ clock \in Nat
  BY DEF TypeOK
<1>2. n \in Nat /\ \A i \in 1 .. n : s[i] \in 0 .. clock
  BY <1>1
<1>4. admitted'[a] = s /\ counter'[a] = 0 /\ lastTimestamp' = clock
  BY <1>1 DEF TypeOK, AddAfterReset
<1>5. /\ \A i, j \in 1 .. n : i <= j => s[i] <= s[j]
      /\ \A i \in 1 .. n - 2 * M : s[i + 2 * M] - s[i] >= Interval
  BY DEF HitInv
<1>6. /\ \A i \in 1 .. n : s[i] <= clock
      /\ \A i \in 1 .. n : i <= n - M => clock - s[i] >= Interval
  BY HitsCleared DEF AddAfterReset
<1> HIDE DEF s, n, M
<1>a. M \in Nat \ {0} /\ M = Allowance
  BY DEF M
<1>7. /\ 0 <= n
      /\ \A i \in 1 .. n : i > n - 0 => s[i] >= clock
      /\ \A i \in 1 .. n : i <= n - 0 - M => clock - s[i] >= Interval
  BY <1>1, <1>2, <1>6, <1>a
<1>8. Len(s) = n
  BY DEF n
<1> QED
  BY <1>4, <1>5, <1>6, <1>7, <1>8, <1>a DEF HitInv

(* A step that leaves an actor's hits and the clearing alone.              *)
LEMMA HitUntouched ==
  ASSUME NEW a \in Actor, HitInv(a),
         admitted'[a] = admitted[a], counter'[a] = counter[a], lastTimestamp' = lastTimestamp
  PROVE  HitInv(a)'
BY DEF HitInv

LEMMA RateStep == RateInv /\ [Next]_vars => RateInv'
<1> SUFFICES ASSUME RateInv, [Next]_vars PROVE RateInv'
  OBVIOUS
<1>t. TypeOK /\ TypeOK'
  BY TypeStep DEF RateInv
<1>h. \A a \in Actor : HitInv(a)
  BY DEF RateInv
<1> SUFFICES ASSUME NEW a \in Actor PROVE HitInv(a)'
  BY <1>t DEF RateInv
<1>1. ASSUME NEW b \in Actor, AddAfterReset(b) PROVE HitInv(a)'
  <2>1. CASE a = b
    BY <2>1, <1>1, <1>t, <1>h, HitAfterReset
  <2>2. CASE a # b
    BY <2>2, <1>1, <1>t, <1>h, OthersReset
  <2> QED
    BY <2>1, <2>2
<1>2. ASSUME NEW b \in Actor, AddCounted(b) PROVE HitInv(a)'
  <2>1. CASE a = b
    BY <2>1, <1>2, <1>t, <1>h, HitCounted
  <2>2. CASE a # b
    <3>1. admitted'[a] = admitted[a] /\ counter'[a] = counter[a] /\ lastTimestamp' = lastTimestamp
      BY <2>2, <1>2, <1>t DEF AddCounted, TypeOK
    <3> QED
      BY <3>1, <1>h, HitUntouched
  <2> QED
    BY <2>1, <2>2
<1>3. ASSUME NEW b \in Actor, NEW l \in BOOLEAN, AddRefused(b, l) PROVE HitInv(a)'
  BY <1>3, <1>h, HitUntouched DEF AddRefused
<1>4. CASE Tick
  BY <1>4, <1>h, HitUntouched DEF Tick
<1>5. CASE UNCHANGED vars
  BY <1>5, <1>h, HitUntouched DEF vars
<1> QED
  BY <1>1, <1>2, <1>3, <1>4, <1>5 DEF Next, Add

LEMMA RateInit == Init => RateInv
<1> SUFFICES ASSUME Init PROVE RateInv
  OBVIOUS
<1> USE Positive, RateAssumption
<1>1. TypeOK
  BY DEF Init, TypeOK
<1>2. ASSUME NEW a \in Actor PROVE HitInv(a)
  <2>1. admitted[a] = <<>> /\ Len(admitted[a]) = 0 /\ counter[a] = 0
    BY DEF Init
  <2>2. \A i \in 1 .. 0 - 2 * Allowance : FALSE
    OBVIOUS
  <2> QED
    BY <2>1, <2>2 DEF HitInv
<1> QED
  BY <1>1, <1>2 DEF RateInv

(* The limiter's state keeps its types: in particular no counter ever      *)
(* exceeds the allowance.                                                  *)
THEOREM RateTypeCorrect == Spec => []TypeOK
<1>1. RateInv => TypeOK
  BY DEF RateInv
<1> QED
  BY RateInit, RateStep, <1>1, PTL DEF Spec

(* However the hits of the actors are timed, Add lets one actor through at *)
(* most twice its allowance in any time shorter than the interval.         *)
THEOREM TwiceTheAllowance == Spec => []AtMostTwiceTheAllowance
<1>1. RateInv => AtMostTwiceTheAllowance
  BY DEF RateInv, HitInv, AtMostTwiceTheAllowance
<1> QED
  BY RateInit, RateStep, <1>1, PTL DEF Spec

(* Add turns an actor away only when that actor itself has been let        *)
(* through as often as the limit allows within the last interval.          *)
THEOREM OnlyTheBusyAreRefused == Spec => []RefusedOnlyWhenBusy
<1>1. RateInv => RefusedOnlyWhenBusy
  <2> SUFFICES ASSUME RateInv, NEW a \in Actor, Exhausted(a), ~ResetDue
               PROVE  /\ Len(admitted[a]) >= Allowance
                      /\ clock - admitted[a][Len(admitted[a]) - Allowance + 1] < Interval
    BY DEF RefusedOnlyWhenBusy
  <2> DEFINE n == Len(admitted[a])
  <2>1. /\ admitted[a] \in Seq(0 .. clock) /\ counter[a] = Allowance
        /\ clock \in Nat /\ lastTimestamp \in 0 .. clock
    BY Positive DEF RateInv, TypeOK, Exhausted
  <2>2. n \in Nat /\ \A i \in 1 .. n : admitted[a][i] \in 0 .. clock
    BY <2>1
  <2>3. counter[a] <= n /\ \A i \in 1 .. n : i > n - counter[a] => admitted[a][i] >= lastTimestamp
    BY DEF RateInv, HitInv
  <2>4. clock - lastTimestamp < Interval
    BY <2>1, Positive DEF ResetDue
  <2> HIDE DEF n
  <2>5. n - Allowance + 1 \in 1 .. n /\ n - Allowance + 1 > n - counter[a]
    BY <2>1, <2>2, <2>3, Positive
  <2>6. admitted[a][n - Allowance + 1] >= lastTimestamp /\ admitted[a][n - Allowance + 1] \in 0 .. clock
    BY <2>2, <2>3, <2>5
  <2>7. n >= Allowance
    BY <2>1, <2>2, <2>3
  <2>8. clock - admitted[a][n - Allowance + 1] < Interval
    <3>1. PICK t : t = admitted[a][n - Allowance + 1]
      OBVIOUS
    <3>2. t >= lastTimestamp /\ t \in Int /\ clock \in Int /\ lastTimestamp \in Int /\ Interval \in Int
      BY <2>1, <2>6, <3>1, Positive
    <3> QED BY <2>4, <3>1, <3>2
  <2> QED BY <2>7, <2>8 DEF n
<1> QED
  BY RateInit, RateStep, <1>1, PTL DEF Spec

-----------------------------------------------------------------------------
(* The mailbox reader: loops over the lines of an answer and over the      *)
(* numbers of a list.                                                      *)

(* A set of natural numbers that is not empty has a least element.         *)
LEMMA Least ==
  ASSUME NEW T \in SUBSET Nat, T # {}
  PROVE  \E x \in T : \A y \in T : x <= y
<1>1. PICK x \in T : \A y \in T : ~ (<<y, x>> \in OpToRel(<, Nat))
  <2> DEFINE R == OpToRel(<, Nat)
  <2>1. IsWellFoundedOn(R, Nat)
    BY NatLessThanWellFounded, Zenon
  <2> HIDE DEF R
  <2>2. \E x \in T : \A y \in T : ~ (<<y, x>> \in R)
    BY <2>1, WFMin
  <2> QED BY <2>2, Zenon DEF R
<1>2. ASSUME NEW y \in T PROVE x <= y
  <2>1. x \in Nat /\ y \in Nat
    OBVIOUS
  <2>2. ~(y < x)
    BY <1>1, <2>1 DEF OpToRel
  <2> QED BY <2>1, <2>2
<1> QED BY <1>2

(* What is true of 0, and of n + 1 when of n, is true up to last.          *)
LEMMA CountUp ==
  ASSUME NEW last \in Nat, NEW T, 0 \in T, \A n \in 0 .. last - 1 : n \in T => n + 1 \in T
  PROVE  \A n \in 0 .. last : n \in T
<1> SUFFICES ASSUME NEW m \in 0 .. last, m \notin T PROVE FALSE
  OBVIOUS
<1> DEFINE U == {n \in 0 .. last : n \notin T}
<1>1. U \in SUBSET Nat /\ U # {}
  OBVIOUS
<1>2. \A n \in U : n \in 0 .. last /\ n \notin T
  OBVIOUS
<1>3. \A n \in 0 .. last : n \notin U => n \in T
  OBVIOUS
<1> HIDE DEF U
<1>4. PICK x \in U : \A y \in U : x <= y
  BY <1>1, Least
<1>5. x \in 0 .. last /\ x \notin T /\ x # 0
  BY <1>2
<1>6. x - 1 \in 0 .. last /\ x - 1 \in 0 .. last - 1 /\ x - 1 + 1 = x
  BY <1>5
<1>7. x - 1 \notin U
  BY <1>4, <1>5, <1>6
<1> QED BY <1>3, <1>5, <1>6, <1>7

(* The walk exists: it begins with nothing, and goes from line to line.    *)
LEMMA WalkGoesOn ==
  ASSUME NEW lines, Len(lines) \in Nat
  PROVE  /\ Walk(lines)[0] = NothingYet
         /\ \A n \in 1 .. Len(lines) : Walk(lines)[n] = WalkLine(Walk(lines)[n - 1], lines[n])
<1> DEFINE last == Len(lines)
           Goes(g, n) == /\ g = [i \in 0 .. n |-> g[i]]
                         /\ g[0] = NothingYet
                         /\ \A i \in 1 .. n : g[i] = WalkLine(g[i - 1], lines[i])
           T == {n \in 0 .. last : \E g : Goes(g, n)}
<1>1. 0 \in T
  <2> DEFINE g == [i \in 0 .. 0 |-> NothingYet]
  <2>1. g = [i \in 0 .. 0 |-> g[i]] /\ g[0] = NothingYet /\ \A i \in 1 .. 0 : FALSE
    OBVIOUS
  <2> HIDE DEF g
  <2>2. Goes(g, 0)
    BY <2>1
  <2> QED BY <2>2
<1>2. ASSUME NEW n \in 0 .. last - 1, n \in T PROVE n + 1 \in T
  <2>1. PICK g : Goes(g, n)
    BY <1>2
  <2>2. g[0] = NothingYet /\ \A i \in 1 .. n : g[i] = WalkLine(g[i - 1], lines[i])
    BY <2>1
  <2> HIDE DEF Goes
  <2> DEFINE h == [i \in 0 .. n + 1 |-> IF i <= n THEN g[i] ELSE WalkLine(g[n], lines[n + 1])]
  <2>3. /\ \A i \in 0 .. n : h[i] = g[i]
        /\ h[n + 1] = WalkLine(g[n], lines[n + 1])
        /\ h = [i \in 0 .. n + 1 |-> h[i]]
    OBVIOUS
  <2> HIDE DEF h
  <2>4. h[0] = NothingYet
    <3>1. 0 \in 0 .. n
      OBVIOUS
    <3> QED BY <2>2, <2>3, <3>1
  <2>5. ASSUME NEW i \in 1 .. n + 1 PROVE h[i] = WalkLine(h[i - 1], lines[i])
    <3>1. CASE i = n + 1
      <4>1. i - 1 = n /\ n \in 0 .. n
        BY <3>1
      <4> QED BY <2>3, <3>1, <4>1
    <3>2. CASE i # n + 1
      <4>1. i \in 1 .. n /\ i \in 0 .. n /\ i - 1 \in 0 .. n
        BY <3>2
      <4> QED BY <2>2, <2>3, <4>1
    <3> QED BY <3>1, <3>2
  <2>6. Goes(h, n + 1)
    BY <2>3, <2>4, <2>5 DEF Goes
  <2>7. n + 1 \in 0 .. last
    OBVIOUS
  <2> QED BY <2>6, <2>7
<1>3. last \in T
  <2>1. last \in Nat /\ last \in 0 .. last
    OBVIOUS
  <2> HIDE DEF T, last
  <2> QED BY <1>1, <1>2, <2>1, CountUp
<1>4. PICK g : Goes(g, last)
  BY <1>3
<1>5. g = [n \in 0 .. last |-> IF n = 0 THEN NothingYet ELSE WalkLine(g[n - 1], lines[n])]
  <2>1. \A n \in 0 .. last : g[n] = IF n = 0 THEN NothingYet ELSE WalkLine(g[n - 1], lines[n])
    BY <1>4
  <2> QED BY <1>4, <2>1
<1>6. Walk(lines) = [n \in 0 .. last |-> IF n = 0 THEN NothingYet ELSE WalkLine(Walk(lines)[n - 1], lines[n])]
  BY <1>5, Zenon DEF Walk
<1>7. \A n \in 0 .. last : Walk(lines)[n] = IF n = 0 THEN NothingYet ELSE WalkLine(Walk(lines)[n - 1], lines[n])
  BY <1>6, Zenon
<1> QED BY <1>7

(* So does the output.                                                     *)
LEMMA OutputGoesOn ==
  ASSUME NEW headers, NEW from \in Int, NEW to \in Int, from <= to + 1
  PROVE  /\ Output(headers, from, to)[0] = <<>>
         /\ \A k \in 1 .. to - from + 1 :
              Output(headers, from, to)[k] = PutOut(Output(headers, from, to)[k - 1], headers, to - k + 1)
<1> DEFINE last == to - from + 1
           Goes(g, n) == /\ g = [i \in 0 .. n |-> g[i]]
                         /\ g[0] = <<>>
                         /\ \A i \in 1 .. n : g[i] = PutOut(g[i - 1], headers, to - i + 1)
           T == {n \in 0 .. last : \E g : Goes(g, n)}
<1>1. 0 \in T
  <2> DEFINE g == [i \in 0 .. 0 |-> <<>>]
  <2>1. g = [i \in 0 .. 0 |-> g[i]] /\ g[0] = <<>> /\ \A i \in 1 .. 0 : FALSE
    OBVIOUS
  <2> HIDE DEF g
  <2>2. Goes(g, 0)
    BY <2>1
  <2> QED BY <2>2
<1>2. ASSUME NEW n \in 0 .. last - 1, n \in T PROVE n + 1 \in T
  <2>1. PICK g : Goes(g, n)
    BY <1>2
  <2>2. g[0] = <<>> /\ \A i \in 1 .. n : g[i] = PutOut(g[i - 1], headers, to - i + 1)
    BY <2>1
  <2> HIDE DEF Goes
  <2> DEFINE h == [i \in 0 .. n + 1 |-> IF i <= n THEN g[i] ELSE PutOut(g[n], headers, to - (n + 1) + 1)]
  <2>3. /\ \A i \in 0 .. n : h[i] = g[i]
        /\ h[n + 1] = PutOut(g[n], headers, to - (n + 1) + 1)
        /\ h = [i \in 0 .. n + 1 |-> h[i]]
    OBVIOUS
  <2> HIDE DEF h
  <2>4. h[0] = <<>>
    <3>1. 0 \in 0 .. n
      OBVIOUS
    <3> QED BY <2>2, <2>3, <3>1
  <2>5. ASSUME NEW i \in 1 .. n + 1 PROVE h[i] = PutOut(h[i - 1], headers, to - i + 1)
    <3>1. CASE i = n + 1
      <4>1. i - 1 = n /\ n \in 0 .. n
        BY <3>1
      <4> QED BY <2>3, <3>1, <4>1
    <3>2. CASE i # n + 1
      <4>1. i \in 1 .. n /\ i \in 0 .. n /\ i - 1 \in 0 .. n
        BY <3>2
      <4> QED BY <2>2, <2>3, <4>1
    <3> QED BY <3>1, <3>2
  <2>6. Goes(h, n + 1)
    BY <2>3, <2>4, <2>5 DEF Goes
  <2>7. n + 1 \in 0 .. last
    OBVIOUS
  <2> QED BY <2>6, <2>7
<1>3. last \in T
  <2>1. last \in Nat /\ last \in 0 .. last
    OBVIOUS
  <2> HIDE DEF T, last
  <2> QED BY <1>1, <1>2, <2>1, CountUp
<1>4. PICK g : Goes(g, last)
  BY <1>3
<1>5. g = [k \in 0 .. last |-> IF k = 0 THEN <<>> ELSE PutOut(g[k - 1], headers, to - k + 1)]
  <2>1. /\ g = [n \in 0 .. last |-> g[n]]
        /\ g[0] = <<>>
        /\ \A n \in 1 .. last : g[n] = PutOut(g[n - 1], headers, to - n + 1)
    BY <1>4
  <2>2. \A n \in 0 .. last : n = 0 \/ n \in 1 .. last
    OBVIOUS
  <2> HIDE DEF last
  <2>3. \A n \in 0 .. last : g[n] = IF n = 0 THEN <<>> ELSE PutOut(g[n - 1], headers, to - n + 1)
    BY <2>1, <2>2
  <2> QED BY <2>1, <2>3
<1>6. Output(headers, from, to) =
        [k \in 0 .. last |-> IF k = 0 THEN <<>> ELSE PutOut(Output(headers, from, to)[k - 1], headers, to - k + 1)]
  BY <1>5, Zenon DEF Output
<1>7. \A k \in 0 .. last : Output(headers, from, to)[k] =
        IF k = 0 THEN <<>> ELSE PutOut(Output(headers, from, to)[k - 1], headers, to - k + 1)
  BY <1>6, Zenon
<1> QED BY <1>7

-----------------------------------------------------------------------------
(* What a well-formed answer is walked to.                                 *)
Follows(lines, n, kind) == n - 1 \in 1 .. n /\ lines[n - 1].kind = kind /\ lines[n - 1].num = lines[n].num

(* A header follows its number and is followed by its end, and every mail  *)
(* of S is there.                                                          *)
WellFormed(lines, S) ==
  /\ \A n \in 1 .. Len(lines) : lines[n].kind \in {"star", "header", "close"}
  /\ \A n \in 1 .. Len(lines) :
       lines[n].kind = "header" => Follows(lines, n, "star") /\ lines[n].num \in S
  /\ \A n \in 1 .. Len(lines) : lines[n].kind = "close" => Follows(lines, n, "header") /\ lines[n].num \in S
  /\ \A i \in S : \E n \in 1 .. Len(lines) : lines[n].kind = "close" /\ lines[n].num = i

(* What has been stored is the header of its number; a text that is kept   *)
(* is that of the number last seen.                                        *)
Stored(ret, S) ==
  /\ ret = [i \in DOMAIN ret |-> ret[i]]
  /\ DOMAIN ret \subseteq S
  /\ \A i \in DOMAIN ret : ret[i] = <<i>>

WalkedTo(acc, lines, n, S) ==
  /\ Stored(acc.ret, S)
  /\ \A m \in 1 .. n : lines[m].kind = "close" => lines[m].num \in DOMAIN acc.ret
  /\ n = 0 => acc.text = <<>>
  /\ n # 0 /\ lines[n].kind = "star" => acc.num = lines[n].num /\ acc.text = <<>>
  /\ n # 0 /\ lines[n].kind # "star" =>
       acc.num = lines[n].num /\ acc.num \in S /\ acc.text = <<acc.num>>

LEMMA StoreKeeps ==
  ASSUME NEW acc, NEW S, Stored(acc.ret, S),
         acc.text = <<>> \/ (acc.num \in S /\ acc.text = <<acc.num>>)
  PROVE  /\ Stored(Store(acc), S)
         /\ DOMAIN acc.ret \subseteq DOMAIN Store(acc)
         /\ acc.text # <<>> => acc.num \in DOMAIN Store(acc)
<1>1. CASE acc.text = <<>>
  <2>1. Store(acc) = acc.ret
    BY <1>1 DEF Store
  <2> QED BY <1>1, <2>1
<1>2. CASE acc.text # <<>>
  <2> DEFINE ret == Store(acc)
  <2>1. ret = [n \in DOMAIN acc.ret \union {acc.num} |-> IF n = acc.num THEN acc.text ELSE acc.ret[n]]
    BY <1>2 DEF Store
  <2> HIDE DEF ret
  <2>2. /\ DOMAIN ret = DOMAIN acc.ret \union {acc.num}
        /\ \A n \in DOMAIN ret : ret[n] = IF n = acc.num THEN acc.text ELSE acc.ret[n]
        /\ ret = [n \in DOMAIN ret |-> ret[n]]
    BY <2>1
  <2>3. DOMAIN ret \subseteq S /\ acc.text = <<acc.num>>
    BY <1>2, <2>2 DEF Stored
  <2>4. \A n \in DOMAIN ret : ret[n] = <<n>>
    BY <2>2, <2>3 DEF Stored
  <2>5. Stored(ret, S) /\ DOMAIN acc.ret \subseteq DOMAIN ret /\ acc.num \in DOMAIN ret
    BY <2>2, <2>3, <2>4 DEF Stored
  <2> QED BY <2>5 DEF ret
<1> QED BY <1>1, <1>2

LEMMA LineWalked ==
  ASSUME NEW lines, NEW S, Len(lines) \in Nat, WellFormed(lines, S),
         NEW acc, NEW n \in 1 .. Len(lines), WalkedTo(acc, lines, n - 1, S)
  PROVE  WalkedTo(WalkLine(acc, lines[n]), lines, n, S)
<1> DEFINE line == lines[n]
           new == WalkLine(acc, line)
<1>1. /\ n # 0 /\ n \in Int /\ \A m \in 1 .. n : m = n \/ m \in 1 .. n - 1
      /\ n - 1 # 0 => n - 1 \in 1 .. Len(lines)
  OBVIOUS
<1>2. acc.text = <<>> \/ (acc.num \in S /\ acc.text = <<acc.num>>)
  BY DEF WalkedTo
<1>3. Stored(acc.ret, S) /\ \A m \in 1 .. n - 1 : lines[m].kind = "close" => lines[m].num \in DOMAIN acc.ret
  BY DEF WalkedTo
<1>4. /\ Stored(Store(acc), S) /\ DOMAIN acc.ret \subseteq DOMAIN Store(acc)
      /\ acc.text # <<>> => acc.num \in DOMAIN Store(acc)
  BY <1>2, <1>3, StoreKeeps
<1>5. CASE line.kind = "star"
  <2>1. new = [ret |-> Store(acc), num |-> line.num, text |-> <<>>]
    BY <1>5 DEF WalkLine
  <2>2. new.ret = Store(acc) /\ new.num = line.num /\ new.text = <<>>
    BY <2>1
  <2> HIDE DEF new
  <2>3. \A m \in 1 .. n : lines[m].kind = "close" => lines[m].num \in DOMAIN new.ret
    BY <1>1, <1>3, <1>4, <1>5, <2>2
  <2>4. WalkedTo(new, lines, n, S)
    BY <1>1, <1>4, <1>5, <2>2, <2>3 DEF WalkedTo
  <2> QED BY <2>4 DEF new
<1>6. CASE line.kind = "header"
  <2>0. Follows(lines, n, "star") /\ line.num \in S
    BY <1>6 DEF WellFormed
  <2>1. acc.text = <<>> /\ acc.num = line.num
    <3>1. n - 1 # 0 /\ lines[n - 1].kind = "star" /\ lines[n - 1].num = line.num
      BY <2>0 DEF Follows
    <3> QED BY <3>1 DEF WalkedTo
  <2>2. new = [ret |-> acc.ret, num |-> acc.num, text |-> Append(acc.text, line.num)]
    BY <1>6 DEF WalkLine
  <2>3. Append(<<>>, line.num) = <<line.num>>
    OBVIOUS
  <2>4. new.ret = acc.ret /\ new.num = line.num /\ new.text = <<line.num>>
    BY <2>1, <2>2, <2>3
  <2> HIDE DEF new
  <2>5. \A m \in 1 .. n : lines[m].kind = "close" => lines[m].num \in DOMAIN new.ret
    BY <1>1, <1>3, <1>6, <2>4
  <2>6. WalkedTo(new, lines, n, S)
    BY <1>1, <1>3, <1>6, <2>0, <2>4, <2>5 DEF WalkedTo
  <2> QED BY <2>6 DEF new
<1>7. CASE line.kind = "close"
  <2>0. Follows(lines, n, "header") /\ line.num \in S
    BY <1>7 DEF WellFormed
  <2>1. acc.text = <<acc.num>> /\ acc.num = line.num
    <3>1. n - 1 # 0 /\ lines[n - 1].kind = "header" /\ lines[n - 1].num = line.num
      BY <2>0 DEF Follows
    <3> QED BY <3>1 DEF WalkedTo
  <2>2. new = [ret |-> Store(acc), num |-> acc.num, text |-> acc.text]
    BY <1>7 DEF WalkLine
  <2>3. new.ret = Store(acc) /\ new.num = line.num /\ new.text = <<line.num>> /\ acc.text # <<>>
    BY <2>1, <2>2
  <2> HIDE DEF new
  <2>4. \A m \in 1 .. n : lines[m].kind = "close" => lines[m].num \in DOMAIN new.ret
    BY <1>1, <1>3, <1>4, <2>1, <2>3
  <2>5. WalkedTo(new, lines, n, S)
    BY <1>1, <1>4, <1>7, <2>0, <2>3, <2>4 DEF WalkedTo
  <2> QED BY <2>5 DEF new
<1> QED BY <1>5, <1>6, <1>7 DEF WellFormed

(* GetHeaders finds the header of every mail of the answer, and no other.  *)
LEMMA HeadersFound ==
  ASSUME NEW lines, NEW S, Len(lines) \in Nat, WellFormed(lines, S)
  PROVE  GetHeaders(lines) = [i \in S |-> <<i>>]
<1> DEFINE last == Len(lines)
           T == {n \in 0 .. last : WalkedTo(Walk(lines)[n], lines, n, S)}
<1>1. 0 \in T
  <2>1. Walk(lines)[0] = NothingYet
    BY WalkGoesOn
  <2>2. /\ NothingYet.text = <<>> /\ DOMAIN NothingYet.ret = {}
        /\ NothingYet.ret = [i \in DOMAIN NothingYet.ret |-> NothingYet.ret[i]]
    BY DEF NothingYet
  <2>3. WalkedTo(NothingYet, lines, 0, S)
    BY <2>2 DEF WalkedTo, Stored
  <2> QED BY <2>1, <2>3
<1>2. ASSUME NEW n \in 0 .. last - 1, n \in T PROVE n + 1 \in T
  <2>1. n + 1 \in 1 .. last /\ n + 1 - 1 = n /\ n + 1 \in 0 .. last
    OBVIOUS
  <2>2. WalkedTo(Walk(lines)[n + 1 - 1], lines, n + 1 - 1, S)
    BY <1>2, <2>1
  <2>3. PICK acc : acc = Walk(lines)[n + 1 - 1]
    OBVIOUS
  <2>4. WalkedTo(WalkLine(acc, lines[n + 1]), lines, n + 1, S)
    BY <2>1, <2>2, <2>3, LineWalked
  <2>5. Walk(lines)[n + 1] = WalkLine(acc, lines[n + 1])
    BY <2>1, <2>3, WalkGoesOn
  <2> QED BY <2>1, <2>4, <2>5
<1>3. last \in T
  <2>1. last \in Nat /\ last \in 0 .. last
    OBVIOUS
  <2> HIDE DEF T, last
  <2> QED BY <1>1, <1>2, <2>1, CountUp
<1> DEFINE ret == Walk(lines)[last].ret
<1>4. /\ Stored(ret, S)
      /\ \A m \in 1 .. last : lines[m].kind = "close" => lines[m].num \in DOMAIN ret
  BY <1>3 DEF WalkedTo
<1> HIDE DEF ret, last
<1>5. \A i \in S : i \in DOMAIN ret
  BY <1>4 DEF WellFormed, last
<1>6. /\ DOMAIN ret = S /\ ret = [i \in DOMAIN ret |-> ret[i]]
      /\ \A i \in DOMAIN ret : ret[i] = <<i>>
  BY <1>4, <1>5 DEF Stored
<1>7. ret = [i \in S |-> <<i>>]
  BY <1>6
<1> QED BY <1>7 DEF GetHeaders, ret, last

(* ListMails puts them out from the latest to the earliest.                *)
Item == [num : Int, header : Seq(Int)]
LEMMA Appended ==
  ASSUME NEW N, NEW i \in Int, NEW out \in Seq(Item), IsListOf(out, N), \A m \in N : m \in Int /\ m > i,
         NEW item, item = [num |-> i, header |-> <<i>>]
  PROVE  Append(out, item) \in Seq(Item) /\ IsListOf(Append(out, item), N \union {i})
<1>1. item \in Item /\ item.num = i /\ item.header = <<i>>
  BY DEF Item
<1>2. PICK last \in Nat : last = Len(out)
  OBVIOUS
<1> DEFINE new == Append(out, item)
<1> HIDE DEF Item
<1>3. /\ new \in Seq(Item) /\ Len(new) = last + 1 /\ new[last + 1] = item
      /\ \A k \in 1 .. last : new[k] = out[k]
  BY <1>1, <1>2
<1> HIDE DEF new
<1>4. \A k \in 1 .. last + 1 : k = last + 1 \/ k \in 1 .. last
  OBVIOUS
<1>5. /\ \A k \in 1 .. last : out[k].num \in N /\ out[k].header = <<out[k].num>>
      /\ \A n \in N : \E k \in 1 .. last : out[k].num = n
      /\ \A j, k \in 1 .. last : j < k => out[j].num > out[k].num
  BY <1>2 DEF IsListOf
<1>6. \A k \in 1 .. last + 1 : new[k].num \in N \union {i} /\ new[k].header = <<new[k].num>>
  BY <1>1, <1>3, <1>4, <1>5
<1>7. \A n \in N \union {i} : \E k \in 1 .. last + 1 : new[k].num = n
  <2>1. ASSUME NEW n \in N PROVE \E k \in 1 .. last + 1 : new[k].num = n
    <3>1. PICK k \in 1 .. last : out[k].num = n
      BY <1>5
    <3> QED BY <1>3, <3>1
  <2>2. last + 1 \in 1 .. last + 1 /\ new[last + 1].num = i
    BY <1>1, <1>3
  <2> QED BY <2>1, <2>2
<1>8. ASSUME NEW j \in 1 .. last + 1, NEW k \in 1 .. last + 1, j < k PROVE new[j].num > new[k].num
  <2>1. j \in 1 .. last /\ new[j] = out[j] /\ out[j].num \in N
    BY <1>3, <1>5, <1>8
  <2>2. CASE k \in 1 .. last
    BY <1>3, <1>5, <1>8, <2>1, <2>2
  <2>3. CASE k = last + 1
    BY <1>1, <1>3, <2>1, <2>3
  <2> QED BY <1>4, <2>2, <2>3
<1> QED BY <1>3, <1>6, <1>7, <1>8 DEF IsListOf, new

LEMMA OutputIs ==
  ASSUME NEW from \in Int, NEW to \in Int, from <= to + 1, NEW S
  PROVE  IsListOf(Output([i \in S |-> <<i>>], from, to)[to - from + 1],
                  {i \in from .. to : i \in S /\ i \notin Unparsed})
<1> DEFINE headers == [i \in S |-> <<i>>]
           last == to - from + 1
           Nums(n) == {i \in to - n + 1 .. to : i \in S /\ i \notin Unparsed}
           out == Output(headers, from, to)
           T == {n \in 0 .. last : out[n] \in Seq(Item) /\ IsListOf(out[n], Nums(n))}
<1>0. last \in Nat /\ last \in 0 .. last /\ to - last + 1 = from
  OBVIOUS
<1>a. /\ out[0] = <<>>
      /\ \A k \in 1 .. last : out[k] = PutOut(out[k - 1], headers, to - k + 1)
  BY OutputGoesOn
<1>b. DOMAIN headers = S /\ \A i \in S : headers[i] = <<i>>
  OBVIOUS
<1> HIDE DEF out, headers
<1>1. 0 \in T
  <2>1. Nums(0) = {} /\ Len(<<>>) = 0 /\ <<>> \in Seq(Item)
    OBVIOUS
  <2>2. IsListOf(<<>>, {})
    BY <2>1 DEF IsListOf
  <2>3. 0 \in 0 .. last
    BY <1>0
  <2> HIDE DEF Nums, Item
  <2> QED BY <1>a, <2>1, <2>2, <2>3
<1>2. ASSUME NEW n \in 0 .. last - 1, n \in T PROVE n + 1 \in T
  <2>1. n + 1 \in 1 .. last /\ n + 1 - 1 = n /\ n + 1 \in 0 .. last /\ n \in Nat
    OBVIOUS
  <2>2. PICK i \in Int : i = to - (n + 1) + 1
    OBVIOUS
  <2>3. out[n + 1] = PutOut(out[n], headers, i)
    BY <1>a, <2>1, <2>2
  <2>4. PICK old \in Seq(Item) : old = out[n] /\ IsListOf(old, Nums(n))
    BY <1>2
  <2>5. CASE i \in S /\ i \notin Unparsed
    <3>1. PICK item : item = [num |-> i, header |-> <<i>>]
      OBVIOUS
    <3>2. PutOut(old, headers, i) = Append(old, item)
      BY <1>b, <2>5, <3>1 DEF PutOut
    <3>3. Nums(n + 1) = Nums(n) \union {i} /\ \A m \in Nums(n) : m \in Int /\ m > i
      BY <2>1, <2>2, <2>5
    <3> HIDE DEF Nums
    <3>4. Append(old, item) \in Seq(Item) /\ IsListOf(Append(old, item), Nums(n) \union {i})
      BY <2>4, <3>1, <3>3, Appended
    <3> QED BY <2>1, <2>3, <2>4, <3>2, <3>3, <3>4
  <2>6. CASE ~(i \in S /\ i \notin Unparsed)
    <3>1. PutOut(old, headers, i) = old
      BY <1>b, <2>6 DEF PutOut
    <3>2. Nums(n + 1) = Nums(n)
      BY <2>1, <2>2, <2>6
    <3> HIDE DEF Nums
    <3> QED BY <2>1, <2>3, <2>4, <3>1, <3>2
  <2> QED BY <2>5, <2>6
<1>3. last \in T
  <2> HIDE DEF T, last
  <2> QED BY <1>0, <1>1, <1>2, CountUp
<1>4. IsListOf(out[last], Nums(last))
  BY <1>3
<1>5. Nums(last) = {i \in from .. to : i \in S /\ i \notin Unparsed}
  BY <1>0
<1> HIDE DEF Nums
<1> QED BY <1>4, <1>5 DEF out, headers
-----------------------------------------------------------------------------
(* The answers of a server are well-formed, mention the number of mails    *)
(* where they may.                                                         *)
Lines == [kind : {"star", "header", "close"}, num : Int]

KindAt(n) == OneMail[((n - 1) % 3) + 1]
NumAt(nums, n) == nums[((n - 1) \div 3) + 1]
HowMany(nums) == 3 * Len(nums)
IsAll(lines, nums) ==
  /\ HowMany(nums) \in Nat /\ lines \in Seq(Lines) /\ Len(lines) = HowMany(nums)
  /\ \A n \in 1 .. HowMany(nums) : lines[n].kind = KindAt(n)
  /\ \A n \in 1 .. HowMany(nums) : lines[n].num = NumAt(nums, n)

LEMMA AllMailsAre ==
  ASSUME NEW nums \in Seq(Int)
  PROVE  IsAll(AllMails(nums), nums)
<1>0. PICK lines, last : lines = AllMails(nums) /\ last = HowMany(nums)
  OBVIOUS
<1> DEFINE Is(n) == Line(OneMail[((n - 1) % 3) + 1], nums[((n - 1) \div 3) + 1])
<1>1. last \in Nat
  BY <1>0 DEF HowMany
<1>2. lines = [n \in 1 .. last |-> Is(n)]
  BY <1>0 DEF AllMails, HowMany
<1>3. ASSUME NEW n \in 1 .. last
      PROVE  /\ Is(n) \in Lines
             /\ Is(n).kind = KindAt(n) /\ Is(n).num = NumAt(nums, n)
  <2>0. ((n - 1) \div 3) + 1 \in 1 .. Len(nums)
    BY <1>0, <1>1 DEF HowMany
  <2>1. ((n - 1) % 3) + 1 \in 1 .. 3 /\ nums[((n - 1) \div 3) + 1] \in Int
    BY <1>1, <2>0
  <2>2. \A r \in 1 .. 3 : OneMail[r] \in {"star", "header", "close"}
    BY DEF OneMail
  <2> QED BY <2>1, <2>2 DEF Line, Lines, KindAt, NumAt
<1> HIDE DEF Is
<1>4. lines \in [1 .. last -> Lines] /\ \A n \in 1 .. last : lines[n] = Is(n)
  BY <1>2, <1>3
<1>5. lines \in Seq(Lines) /\ Len(lines) = last
  <2> HIDE DEF Lines
  <2> QED BY <1>1, <1>4
<1>6. \A n \in 1 .. last : lines[n].kind = KindAt(n)
  BY <1>3, <1>4
<1>7. \A n \in 1 .. last : lines[n].num = NumAt(nums, n)
  BY <1>3, <1>4
<1> QED BY <1>0, <1>1, <1>5, <1>6, <1>7 DEF IsAll

LEMMA AllMailsWellFormed ==
  ASSUME NEW nums \in Seq(Int), NEW lines, lines = AllMails(nums)
  PROVE  WellFormed(lines, Range(nums))
<1>0. PICK last : last = HowMany(nums)
  OBVIOUS
<1>1. /\ last \in Nat /\ Len(lines) = last
      /\ \A n \in 1 .. last : lines[n].kind = KindAt(n)
      /\ \A n \in 1 .. last : lines[n].num = NumAt(nums, n)
  BY <1>0, AllMailsAre DEF IsAll
<1>a. last = 3 * Len(nums)
  BY <1>0 DEF HowMany
<1>b. \A m \in 1 .. Len(nums) : nums[m] \in Range(nums)
  BY DEF Range
<1>2. OneMail[1] = "star" /\ OneMail[2] = "header" /\ OneMail[3] = "close"
  BY DEF OneMail
<1>3. ASSUME NEW n \in 1 .. last
      PROVE  /\ lines[n].kind \in {"star", "header", "close"}
             /\ lines[n].kind = "header" => Follows(lines, n, "star") /\ lines[n].num \in Range(nums)
             /\ lines[n].kind = "close" => Follows(lines, n, "header") /\ lines[n].num \in Range(nums)
  <2>1. PICK r \in 1 .. 3 : r = ((n - 1) % 3) + 1
    BY <1>1
  <2>2. lines[n].kind = OneMail[r]
    BY <1>1, <2>1 DEF KindAt
  <2>3. lines[n].num \in Range(nums)
    <3>1. ((n - 1) \div 3) + 1 \in 1 .. Len(nums)
      BY <1>1, <1>a
    <3> QED BY <1>1, <1>b, <3>1 DEF NumAt
  <2>4. ASSUME r # 1
        PROVE  /\ n - 1 \in 1 .. n /\ lines[n - 1].num = lines[n].num
               /\ lines[n - 1].kind = OneMail[r - 1]
    <3>1. n - 1 \in 1 .. last /\ n - 1 \in 1 .. n
      BY <1>1, <2>1, <2>4
    <3>2. PICK q \in Nat : n = 3 * q + r
      <4>1. (n - 1) \div 3 \in Nat /\ n = 3 * ((n - 1) \div 3) + r
        BY <1>1, <2>1
      <4> QED BY <4>1
    <3>3. ((n - 1 - 1) % 3) + 1 = r - 1
      BY <2>4, <3>2
    <3>4. (n - 1 - 1) \div 3 = q /\ (n - 1) \div 3 = q
      BY <2>4, <3>2
    <3>5. lines[n - 1].kind = KindAt(n - 1) /\ lines[n - 1].num = NumAt(nums, n - 1)
      BY <1>1, <3>1
    <3>6. KindAt(n - 1) = OneMail[r - 1]
      BY <3>3 DEF KindAt
    <3>7. NumAt(nums, n - 1) = NumAt(nums, n)
      BY <3>4 DEF NumAt
    <3> QED BY <1>1, <3>1, <3>5, <3>6, <3>7
  <2>5. CASE r = 1
    BY <1>2, <2>2, <2>5
  <2>6. CASE r = 2
    BY <1>2, <2>2, <2>3, <2>4, <2>6 DEF Follows
  <2>7. CASE r = 3
    BY <1>2, <2>2, <2>3, <2>4, <2>7 DEF Follows
  <2> QED BY <2>5, <2>6, <2>7
<1>4. ASSUME NEW i \in Range(nums)
      PROVE  \E n \in 1 .. last : lines[n].kind = "close" /\ lines[n].num = i
  <2>0. PICK m \in 1 .. Len(nums) : nums[m] = i
    BY DEF Range
  <2>1. PICK n \in Int : n = 3 * m
    OBVIOUS
  <2>2. n \in 1 .. last /\ ((n - 1) % 3) + 1 = 3 /\ ((n - 1) \div 3) + 1 = m
    BY <1>a, <2>1
  <2> QED BY <1>1, <1>2, <2>0, <2>2 DEF KindAt, NumAt
<1> QED BY <1>1, <1>3, <1>4 DEF WellFormed

(* A line more, between two others.                                        *)
LEMMA InsertedAt ==
  ASSUME NEW S, NEW s \in Seq(S), NEW p \in 1 .. Len(s) + 1, NEW e, NEW t, t = InsertAt(s, p, e)
  PROVE  /\ Len(t) = Len(s) + 1
         /\ \A n \in 1 .. p - 1 : t[n] = s[n]
         /\ t[p] = e
         /\ \A n \in p + 1 .. Len(s) + 1 : t[n] = s[n - 1]
<1> DEFINE a == SubSeq(s, 1, p - 1)
           b == SubSeq(s, p, Len(s))
           R == S \union {e}
<1>0. Len(s) \in Nat /\ s \in Seq(R)
  <2>1. \A n \in 1 .. Len(s) : s[n] \in R
    OBVIOUS
  <2> HIDE DEF R
  <2> QED BY <2>1
<1>1. /\ a \in Seq(R) /\ Len(a) = p - 1 /\ \A n \in 1 .. p - 1 : a[n] = s[n]
  <2> HIDE DEF R
  <2> QED BY <1>0
<1>2. /\ b \in Seq(R) /\ Len(b) = Len(s) - p + 1 /\ \A n \in 1 .. Len(s) - p + 1 : b[n] = s[p + n - 1]
  <2> HIDE DEF R
  <2> QED BY <1>0
<1>3. <<e>> \in Seq(R) /\ Len(<<e>>) = 1 /\ <<e>>[1] = e
  OBVIOUS
<1> HIDE DEF a, b, R
<1>d. PICK d : d = <<e>>
  OBVIOUS
<1> DEFINE c == a \o d
<1>4. /\ c \in Seq(R) /\ Len(c) = p /\ c[p] = e /\ \A n \in 1 .. p - 1 : c[n] = s[n]
  <2>1. d \in Seq(R) /\ Len(d) = 1 /\ d[1] = e
    BY <1>3, <1>d
  <2>a. c \in Seq(R) /\ Len(c) = Len(a) + Len(d)
    BY <1>1, <2>1, ConcatProperties
  <2>2. c \in Seq(R) /\ Len(c) = p
    BY <1>0, <1>1, <2>1, <2>a
  <2>3. \A n \in 1 .. p - 1 : c[n] = a[n]
    BY <1>0, <1>1, <2>1
  <2>4. c[p] = d[1]
    <3>1. \A n \in 1 .. Len(a) + Len(d) : c[n] = IF n <= Len(a) THEN a[n] ELSE d[n - Len(a)]
      BY <1>1, <2>1, ConcatProperties, Zenon
    <3> HIDE DEF c
    <3>2. p \in 1 .. Len(a) + Len(d) /\ ~(p <= Len(a)) /\ p - Len(a) = 1
      BY <1>0, <1>1, <2>1
    <3> QED BY <3>1, <3>2
  <2> QED BY <1>1, <2>1, <2>2, <2>3, <2>4
<1> HIDE DEF c
<1>b. t = c \o b
  BY <1>d DEF InsertAt, c, a, b
<1>5. /\ Len(t) = Len(s) + 1
      /\ \A n \in 1 .. p : t[n] = c[n]
      /\ \A n \in p + 1 .. Len(s) + 1 : t[n] = b[n - p]
  BY <1>0, <1>2, <1>4, <1>b
<1>6. \A n \in p + 1 .. Len(s) + 1 : n - p \in 1 .. Len(s) - p + 1 /\ p + (n - p) - 1 = n - 1
  BY <1>0
<1>7. \A n \in p + 1 .. Len(s) + 1 : t[n] = s[n - 1]
  BY <1>2, <1>5, <1>6
<1>8. \A n \in 1 .. p - 1 : n \in 1 .. p /\ p \in 1 .. p
  BY <1>0
<1>9. t[p] = e /\ \A n \in 1 .. p - 1 : t[n] = s[n]
  <2>1. p \in 1 .. p
    BY <1>0
  <2> QED BY <1>4, <1>5, <1>8, <2>1
<1> QED BY <1>5, <1>7, <1>9

(* A mention of the number of mails between two mails changes nothing.     *)
LEMMA MentionWellFormed ==
  ASSUME NEW S, NEW whole \in Seq(Lines), WellFormed(whole, S),
         NEW p \in 1 .. Len(whole) + 1, p = Len(whole) + 1 \/ whole[p].kind = "star",
         NEW number, NEW lines, lines = InsertAt(whole, p, Line("star", number))
  PROVE  WellFormed(lines, S) /\ Len(lines) \in Nat
<1> DEFINE last == Len(whole)
<1>0. last \in Nat
  OBVIOUS
<1>1. /\ Len(lines) = last + 1
      /\ \A n \in 1 .. p - 1 : lines[n] = whole[n]
      /\ lines[p].kind = "star"
      /\ \A n \in p + 1 .. last + 1 : lines[n] = whole[n - 1]
  <2>1. PICK e : e = Line("star", number)
    OBVIOUS
  <2>2. lines = InsertAt(whole, p, e) /\ e.kind = "star"
    BY <2>1 DEF Line
  <2> HIDE DEF Lines
  <2> QED BY <2>2, InsertedAt
<1>2. \A n \in 1 .. last : p = n => whole[n].kind = "star"
  <2> HIDE DEF Lines
  <2> QED BY <1>0
<1>3. ASSUME NEW n \in 1 .. last + 1
      PROVE  /\ lines[n].kind \in {"star", "header", "close"}
             /\ lines[n].kind = "header" => Follows(lines, n, "star") /\ lines[n].num \in S
             /\ lines[n].kind = "close" => Follows(lines, n, "header") /\ lines[n].num \in S
  <2> HIDE DEF Lines
  <2>1. CASE n = p
    BY <1>1, <2>1
  <2>2. CASE n < p
    <3>1. n \in 1 .. last /\ n \in 1 .. p - 1 /\ lines[n] = whole[n]
      BY <1>0, <1>1, <2>2
    <3>2. n - 1 \in 1 .. n => n - 1 \in 1 .. p - 1 /\ lines[n - 1] = whole[n - 1]
      BY <1>0, <1>1, <2>2
    <3> QED BY <3>1, <3>2 DEF WellFormed, Follows
  <2>3. CASE n > p
    <3>1. n \in p + 1 .. last + 1 /\ n - 1 \in 1 .. last /\ lines[n] = whole[n - 1]
      BY <1>0, <1>1, <2>3
    <3>2. ASSUME n - 1 # p
          PROVE  n - 1 \in p + 1 .. last + 1 /\ lines[n - 1] = whole[n - 1 - 1] /\ n - 1 \in 1 .. n
      BY <1>0, <1>1, <2>3, <3>2
    <3>3. CASE n - 1 = p
      BY <1>2, <3>1, <3>3
    <3>4. CASE n - 1 # p
      BY <3>1, <3>2, <3>4 DEF WellFormed, Follows
    <3> QED BY <3>3, <3>4
  <2> QED BY <1>0, <2>1, <2>2, <2>3
<1>4. ASSUME NEW i \in S
      PROVE  \E n \in 1 .. last + 1 : lines[n].kind = "close" /\ lines[n].num = i
  <2>1. PICK m \in 1 .. last : whole[m].kind = "close" /\ whole[m].num = i
    BY DEF WellFormed
  <2> HIDE DEF Lines
  <2>2. CASE m < p
    <3>1. m \in 1 .. last + 1 /\ lines[m] = whole[m]
      BY <1>0, <1>1, <2>2
    <3> QED BY <2>1, <3>1
  <2>3. CASE m >= p
    <3>1. m + 1 \in 1 .. last + 1 /\ m + 1 \in p + 1 .. last + 1 /\ m + 1 - 1 = m
      BY <1>0, <2>3
    <3>2. lines[m + 1] = whole[m]
      BY <1>1, <3>1
    <3> QED BY <2>1, <3>1, <3>2
  <2> QED BY <1>0, <2>2, <2>3
<1> HIDE DEF last
<1> QED BY <1>0, <1>1, <1>3, <1>4 DEF WellFormed

(* So every answer is.                                                     *)
LEMMA ResponsesWellFormed ==
  ASSUME NEW nums \in Seq(Int), NEW lines \in Responses(nums)
  PROVE  WellFormed(lines, Range(nums)) /\ Len(lines) \in Nat
<1>1. PICK whole : whole = AllMails(nums)
  OBVIOUS
<1>2. PICK last : last = HowMany(nums)
  OBVIOUS
<1>3. /\ last \in Nat /\ whole \in Seq(Lines) /\ Len(whole) = last
      /\ \A n \in 1 .. last : whole[n].kind = KindAt(n)
  BY <1>1, <1>2, AllMailsAre DEF IsAll
<1>4. PICK S : S = Range(nums) /\ WellFormed(whole, S)
  BY <1>1, AllMailsWellFormed
<1>5. CASE lines = whole
  BY <1>3, <1>4, <1>5
<1>6. ASSUME NEW k \in 0 .. Len(nums), lines = InsertAt(whole, 3 * k + 1, Line("star", mails))
      PROVE  WellFormed(lines, S) /\ Len(lines) \in Nat
  <2>1. PICK p \in Int : p = 3 * k + 1
    OBVIOUS
  <2>2. p \in 1 .. last + 1 /\ ((p - 1) % 3) + 1 = 1
    BY <1>2, <2>1 DEF HowMany
  <2>3. p = last + 1 \/ p \in 1 .. last
    BY <1>3, <2>2
  <2>4. OneMail[1] = "star"
    BY DEF OneMail
  <2>5. p = last + 1 \/ whole[p].kind = "star"
    BY <1>3, <2>2, <2>3, <2>4 DEF KindAt
  <2> HIDE DEF Lines
  <2> QED BY <1>3, <1>4, <1>6, <2>1, <2>2, <2>5, MentionWellFormed
<1> QED BY <1>1, <1>4, <1>5, <1>6 DEF Responses

-----------------------------------------------------------------------------
LEMMA MinOfTwo ==
  ASSUME NEW a \in Int, NEW b \in Int
  PROVE  Min({a, b}) = IF a <= b THEN a ELSE b
<1> DEFINE m == IF a <= b THEN a ELSE b
<1>1. m \in {a, b} /\ \A y \in {a, b} : m <= y
  OBVIOUS
<1>2. \A x \in {a, b} : (\A y \in {a, b} : x <= y) => x = m
  OBVIOUS
<1> HIDE DEF m
<1>3. Min({a, b}) = m
  BY <1>1, <1>2 DEF Min
<1> QED BY <1>3 DEF m

LEMMA MaxOfTwo ==
  ASSUME NEW a \in Int, NEW b \in Int
  PROVE  Max({a, b}) = IF a >= b THEN a ELSE b
<1> DEFINE m == IF a >= b THEN a ELSE b
<1>1. m \in {a, b} /\ \A y \in {a, b} : m >= y
  OBVIOUS
<1>2. \A x \in {a, b} : (\A y \in {a, b} : x >= y) => x = m
  OBVIOUS
<1> HIDE DEF m
<1>3. Max({a, b}) = m
  BY <1>1, <1>2 DEF Max
<1> QED BY <1>3 DEF m

(* How many mails were asked for, and what a list may end with.            *)
HeaderCount == Min({AskedCount, seen - ask.skip})
ListAnswered ==
  \/ list = Error("network")
  \/ list = Error("skip") /\ ask.skip >= seen
  \/ IsListOf(list, AskedFor \ (absent \union Unparsed))

(* The window lies in the mailbox as it was counted.                       *)
LEMMA WindowIs ==
  ASSUME MailboxAssumption, seen \in Nat, ask.skip \in Nat, ask.count \in Nat, ask.skip < seen
  PROVE  /\ HeaderCount \in Nat /\ 1 <= HeaderCount /\ HeaderCount <= seen - ask.skip
         /\ Window.from = seen - HeaderCount - ask.skip + 1 /\ Window.to = seen - ask.skip
<1>1. Min({ask.count, Limit}) \in Int
  BY MinOfTwo DEF MailboxAssumption
<1>2. AskedCount \in Int /\ AskedCount >= 1
  BY <1>1, MaxOfTwo DEF AskedCount
<1>3. HeaderCount = IF AskedCount <= seen - ask.skip THEN AskedCount ELSE seen - ask.skip
  BY <1>2, MinOfTwo DEF HeaderCount
<1>4. /\ HeaderCount \in Nat /\ 1 <= HeaderCount /\ HeaderCount <= seen - ask.skip
  BY <1>2, <1>3
<1>5. Window = [from |-> seen - HeaderCount - ask.skip + 1, to |-> seen - ask.skip]
  BY DEF Window, HeaderCount
<1> QED BY <1>4, <1>5

(* The window is what was asked for.                                       *)
LEMMA WindowIsAskedFor ==
  ASSUME MailboxAssumption, seen \in Nat, ask.skip \in Nat, ask.count \in Nat, ask.skip < seen
  PROVE  AskedFor = seen - HeaderCount - ask.skip + 1 .. seen - ask.skip
<1>1. Min({ask.count, Limit}) \in Int
  BY MinOfTwo DEF MailboxAssumption
<1>2. AskedCount \in Int /\ AskedCount >= 1
  BY <1>1, MaxOfTwo DEF AskedCount
<1>3. HeaderCount = IF AskedCount <= seen - ask.skip THEN AskedCount ELSE seen - ask.skip
  BY <1>2, MinOfTwo DEF HeaderCount
<1>4. PICK a \in Int, h \in Int : a = AskedCount /\ h = HeaderCount
  BY <1>2, <1>3
<1>5. AskedFor = {n \in 1 .. seen : seen - n \in ask.skip .. ask.skip + a - 1}
  BY <1>4 DEF AskedFor
<1>6. a >= 1 /\ h = IF a <= seen - ask.skip THEN a ELSE seen - ask.skip
  BY <1>2, <1>3, <1>4
<1>7. {n \in 1 .. seen : seen - n \in ask.skip .. ask.skip + a - 1} = seen - h - ask.skip + 1 .. seen - ask.skip
  BY <1>6
<1> QED BY <1>4, <1>5, <1>7

(* What a fetch puts out.                                                  *)
LEMMA FetchedIs ==
  ASSUME NEW from \in Int, NEW to \in Int, from <= to, NEW nums \in Answers(from, to),
         NEW lines \in Responses(nums)
  PROVE  IsListOf(Output(GetHeaders(lines), from, to)[to - from + 1],
                  (from .. to) \ (((from .. to) \ Range(nums)) \union Unparsed))
<1>0. nums \in Seq(Int)
  <2>1. PICK m \in 0 .. to - from + 1 : nums \in [1 .. m -> from .. to]
    BY DEF Answers, SeqOf
  <2>2. nums \in [1 .. m -> Int] /\ m \in Nat
    BY <2>1
  <2> QED BY <2>2
<1>a. PICK S : S = Range(nums)
  OBVIOUS
<1>1. WellFormed(lines, S) /\ Len(lines) \in Nat
  BY <1>0, <1>a, ResponsesWellFormed
<1>2. GetHeaders(lines) = [i \in S |-> <<i>>]
  BY <1>1, HeadersFound
<1>3. from <= to + 1
  OBVIOUS
<1>4. IsListOf(Output([i \in S |-> <<i>>], from, to)[to - from + 1],
               {i \in from .. to : i \in S /\ i \notin Unparsed})
  BY <1>3, OutputIs
<1>5. {i \in from .. to : i \in S /\ i \notin Unparsed} = (from .. to) \ (((from .. to) \ S) \union Unparsed)
  OBVIOUS
<1> QED BY <1>2, <1>4, <1>5, <1>a, Zenon

(* Which conversation follows which, and what is known by then.            *)
IMInv ==
  /\ mails \in Nat /\ seen \in Nat /\ ask.skip \in Nat /\ ask.count \in Nat
  /\ imap = [next |-> imap.next, open |-> imap.open]
  /\ imap.next \in {"examine", "fetch"} => ask.do = "list"
  /\ imap.next = "read" => ask.do # "list"
  /\ imap.next = "fetch" => ask.skip < seen
  /\ imap.next \in {"logout", "done"} /\ ask.do = "list" => ListAnswered

LEMMA IMInitInv == IMInit => IMInv
<1> SUFFICES ASSUME IMInit PROVE IMInv
  OBVIOUS
<1>1. ask.skip \in Nat /\ ask.count \in Nat
  BY MailboxAssumption DEF IMInit, MailboxAssumption
<1>2. mails \in Nat /\ seen \in Nat /\ imap = [next |-> "connect", open |-> FALSE]
  BY MailboxAssumption DEF IMInit, MailboxAssumption
<1> QED BY <1>1, <1>2 DEF IMInv

LEMMA IMNextInv == IMInv /\ [IMNext]_imVars => IMInv'
<1> SUFFICES ASSUME IMInv, [IMNext]_imVars PROVE IMInv'
  OBVIOUS
<1>1. CASE UNCHANGED imVars
  BY <1>1 DEF imVars, IMInv, ListAnswered, AskedFor, AskedCount
<1>2. CASE MailIsDelivered
  <2>1. UNCHANGED <<ask, imap, seen, list, absent>> /\ mails' \in Nat
    BY <1>2 DEF MailIsDelivered, IMInv
  <2>2. ListAnswered' = ListAnswered
    BY <2>1 DEF ListAnswered, AskedFor, AskedCount
  <2> QED BY <2>1, <2>2 DEF IMInv
<1>3. CASE Connect
  BY <1>3 DEF Connect, IMInv, ListAnswered
<1>4. CASE LoginSelect
  BY <1>4 DEF LoginSelect, IMInv, ListAnswered
<1>5. CASE ConverseFails
  BY <1>5 DEF ConverseFails, IMInv, ListAnswered
<1>6. CASE LogoutDisconnect
  BY <1>6 DEF LogoutDisconnect, IMInv, ListAnswered, AskedFor, AskedCount
<1>7. CASE GetNumberMessages
  BY <1>7 DEF GetNumberMessages, IMInv, ListAnswered
<1>8. CASE ListMails
  <2>0. /\ imap.next = "fetch" /\ ask.skip < seen /\ UNCHANGED <<mails, ask, seen>>
        /\ imap' = [imap EXCEPT !.next = "logout"]
    BY <1>8 DEF ListMails, IMInv
  <2>1. /\ HeaderCount \in Nat /\ 1 <= HeaderCount /\ HeaderCount <= seen - ask.skip
        /\ Window.from = seen - HeaderCount - ask.skip + 1 /\ Window.to = seen - ask.skip
    BY <2>0, WindowIs, MailboxAssumption DEF IMInv
  <2>2. PICK from \in Int, to \in Int : from = Window.from /\ to = Window.to
    BY <2>1 DEF IMInv
  <2>3. 1 <= from /\ from <= to /\ to - from + 1 = HeaderCount /\ to = seen - ask.skip
    BY <2>1, <2>2 DEF IMInv
  <2>4. PICK nums \in Answers(from, to) :
          /\ absent' = (from .. to) \ Range(nums)
          /\ \E lines \in Responses(nums) : list' = Output(GetHeaders(lines), from, to)[to - from + 1]
    BY <1>8, <2>2, <2>3 DEF ListMails
  <2>5. IsListOf(list', (from .. to) \ (absent' \union Unparsed))
    <3>1. PICK lines \in Responses(nums) : list' = Output(GetHeaders(lines), from, to)[to - from + 1]
      BY <2>4
    <3>2. IsListOf(Output(GetHeaders(lines), from, to)[to - from + 1],
                   (from .. to) \ (((from .. to) \ Range(nums)) \union Unparsed))
      BY <2>3, FetchedIs
    <3> QED BY <2>4, <3>1, <3>2, Zenon
  <2>6. AskedFor = from .. to
    BY <2>0, <2>1, <2>2, WindowIsAskedFor, MailboxAssumption DEF IMInv
  <2>7. AskedFor' = AskedFor
    BY <2>0 DEF AskedFor, AskedCount
  <2>8. ListAnswered'
    BY <2>5, <2>6, <2>7 DEF ListAnswered
  <2> QED BY <2>0, <2>8 DEF IMInv
<1>9. CASE ReadMessage
  BY <1>9 DEF ReadMessage, IMInv
<1> QED BY <1>1, <1>2, <1>3, <1>4, <1>5, <1>6, <1>7, <1>8, <1>9 DEF IMNext

(* A list of mails that succeeds is the window asked for, but for mails    *)
(* that the server leaves out or whose header cannot be parsed, the latest *)
(* first, each number beside its own header, whatever arrives meanwhile    *)
(* and wherever the server mentions it (ListMails, GetHeaders).            *)
THEOREM ListAlwaysTheWindow == IMSpec => []ListIsTheWindow
<1>1. IMInv => ListIsTheWindow
  BY DEF IMInv, ListAnswered, ListIsTheWindow
<1> QED BY <1>1, IMInitInv, IMNextInv, PTL DEF IMSpec
==============================================================================
