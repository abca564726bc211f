-------------------------- MODULE ConversationProofs --------------------------
(***************************************************************************)
(* The safety of conversations: mail that is delivered to the mail server  *)
(* and forwarded, mail that commands the program, devices at the serial    *)
(* port, and data that is passed on to a SOCKS client.                     *)
(***************************************************************************)
EXTENDS SMTPDaemon, MailCommand, SerialPort, SocksTCP, FiniteSetTheorems, TLAPS


-----------------------------------------------------------------------------
(* Commands by mail.  Only mail that does not bear the program's keyword   *)
(* is replied to, and such mail is no reply.                               *)
MailType == [Mails -> [gen : Nat, own : BOOLEAN, parts : Bodies \cup {<<>>}]]

MCInv ==
  /\ mail \in MailType
  /\ \A m \in Mails : mail[m].gen <= 2 /\ (~mail[m].own => mail[m].gen <= 1)

LEMMA MCInitial == MCInit => MCInv
  BY DEF MCInit, MCInv, MailType, NoMail

LEMMA ReplyPreserves ==
  ASSUME MCInv, NEW m \in Mails, ~mail[m].own, SendReply(m)
  PROVE  MCInv'
<1>1. CASE UNCHANGED mail
  BY <1>1 DEF MCInv
<1>2. ASSUME NEW new \in Mails, NEW parts \in Bodies,
             mail' = [mail EXCEPT ![new] = [gen |-> mail[m].gen + 1, own |-> TRUE, parts |-> parts]]
      PROVE  MCInv'
  <2>1. mail[m].gen \in Nat /\ mail[m].gen <= 1 /\ mail \in MailType
    BY DEF MCInv, MailType
  <2>2. mail' \in MailType
    BY <1>2, <2>1 DEF MailType
  <2>3. /\ mail'[new].gen = mail[m].gen + 1 /\ mail'[new].own = TRUE
        /\ \A k \in Mails : k # new => mail'[k] = mail[k]
    BY <1>2, <2>1 DEF MailType
  <2> QED
    BY <2>1, <2>2, <2>3 DEF MCInv
<1> QED
  BY <1>1, <1>2 DEF SendReply

LEMMA MCPreserved == MCInv /\ [MCNext]_mcVars => MCInv'
<1>1. ASSUME MCInv, NEW m \in Mails, MailArrives(m) PROVE MCInv'
  <2>1. PICK own \in BOOLEAN, parts \in Bodies :
          mail' = [mail EXCEPT ![m] = [gen |-> 1, own |-> own, parts |-> parts]]
    BY <1>1 DEF MailArrives
  <2>2. mail' \in MailType
    BY <1>1, <2>1 DEF MCInv, MailType
  <2>3. mail'[m].gen = 1 /\ \A k \in Mails : k # m => mail'[k] = mail[k]
    BY <1>1, <2>1 DEF MCInv, MailType
  <2> QED
    BY <1>1, <2>2, <2>3 DEF MCInv
<1>2. ASSUME MCInv, NEW m \in Mails, WalkMailMessage(m) PROVE MCInv'
  <2>1. CASE UNCHANGED mail
    BY <1>2, <2>1 DEF MCInv
  <2>2. UNCHANGED mail \/ (~mail[m].own /\ SendReply(m))
    BY <1>2 DEF WalkMailMessage, ProcessPart
  <2> QED
    BY <1>2, <2>1, <2>2, ReplyPreserves
<1>3. ASSUME MCInv, UNCHANGED mail PROVE MCInv'
  BY <1>3 DEF MCInv
<1> QED
  BY <1>1, <1>2, <1>3
  DEF MCNext, MCStep, ProcessMail, BeginSending, Attempt, AfterFailure, Retry, EndSending, mcVars

(* No reply is ever replied to, for any number of mails, any texts and any *)
(* number of duplicates (CommandRunner.Process of mailcmd).                *)
THEOREM NeverMailLoop == MCSpec => []NoMailLoop
<1>1. MCInv => NoMailLoop
  BY DEF MCInv, NoMailLoop
<1> QED
  BY MCInitial, MCPreserved, <1>1, PTL DEF MCSpec

-----------------------------------------------------------------------------
(* WriteWithRetry.  The portions sent so far are all before the current    *)
(* one, until the attempts are used up; from then on there is an error.    *)
WriteType == [portions : Nat, at : Nat, tries : Nat, sent : SUBSET Nat, err : BOOLEAN]

STInv ==
  /\ wr \in WriteType
  /\ wr.tries <= MaxWriteAttempts /\ wr.at <= wr.portions + 1
  /\ \E k \in Nat : wr.sent = 1 .. k
  /\ wr.tries = MaxWriteAttempts => wr.err
  /\ downPipe = "write" => wr.at >= 1
  /\ ~wr.err \/ (wr.at <= wr.portions /\ wr.tries < MaxWriteAttempts) => wr.sent = 1 .. (wr.at - 1)

LEMMA STInitial == STInit => STInv
<1> SUFFICES ASSUME STInit PROVE STInv
  OBVIOUS
<1>1. /\ wr.portions = 0 /\ wr.at = 0 /\ wr.tries = 0 /\ wr.sent = {} /\ wr.err = FALSE
      /\ wr \in WriteType
  BY DEF STInit, NoWrite, WriteType
<1>2. {} = 1 .. 0 /\ {} = 1 .. (0 - 1)
  OBVIOUS
<1> QED
  BY <1>1, <1>2, STAssumption DEF STInv, STInit

LEMMA WriteWithRetryPreserves ==
  ASSUME STInv, wr.at <= wr.portions, downPipe = "write", UNCHANGED downPipe, WriteWithRetry
  PROVE  STInv'
<1>0. /\ wr \in WriteType /\ wr.at \in Nat \ {0} /\ wr.tries \in Nat /\ wr.portions \in Nat
      /\ wr.sent \subseteq Nat /\ MaxWriteAttempts \in Nat \ {0}
  BY STAssumption DEF STInv, WriteType
<1>1. CASE /\ wr.tries < MaxWriteAttempts
           /\ wr' = [wr EXCEPT !.sent = @ \cup {wr.at}, !.at = @ + 1, !.err = FALSE]
  <2>1. /\ wr'.sent = wr.sent \cup {wr.at} /\ wr'.at = wr.at + 1 /\ wr'.err = FALSE
        /\ wr'.tries = wr.tries /\ wr'.portions = wr.portions
    BY <1>0, <1>1 DEF WriteType
  <2>2. wr' \in WriteType
    <3>1. wr.sent \cup {wr.at} \in SUBSET Nat /\ wr.at + 1 \in Nat
      BY <1>0
    <3> QED
      BY <1>0, <1>1, <3>1 DEF WriteType
  <2>3. wr.sent = 1 .. (wr.at - 1)
    BY <1>1 DEF STInv
  <2>4. wr'.sent = 1 .. wr.at
    BY <1>0, <2>1, <2>3
  <2> QED
    BY <1>0, <1>1, <2>1, <2>2, <2>4 DEF STInv
<1>2. CASE wr.tries < MaxWriteAttempts /\ wr' = [wr EXCEPT !.tries = @ + 1, !.err = TRUE]
  <2>1. /\ wr'.sent = wr.sent /\ wr'.at = wr.at /\ wr'.err = TRUE
        /\ wr'.tries = wr.tries + 1 /\ wr'.portions = wr.portions
    BY <1>0, <1>2 DEF WriteType
  <2>2. wr' \in WriteType
    <3>1. wr.tries + 1 \in Nat
      BY <1>0
    <3> QED
      BY <1>0, <1>2, <3>1 DEF WriteType
  <2> QED
    BY <1>0, <1>2, <2>1, <2>2 DEF STInv
<1>3. CASE wr' = [wr EXCEPT !.at = wr.portions + 1, !.err = TRUE]
  <2>1. /\ wr'.sent = wr.sent /\ wr'.at = wr.portions + 1 /\ wr'.err = TRUE
        /\ wr'.tries = wr.tries /\ wr'.portions = wr.portions
    BY <1>0, <1>3 DEF WriteType
  <2>2. wr' \in WriteType
    <3>1. wr.portions + 1 \in Nat
      BY <1>0
    <3> QED
      BY <1>0, <1>3, <3>1 DEF WriteType
  <2> QED
    BY <1>0, <2>1, <2>2 DEF STInv
<1>4. CASE wr.tries = MaxWriteAttempts /\ wr' = [wr EXCEPT !.at = @ + 1]
  <2>1. /\ wr'.sent = wr.sent /\ wr'.at = wr.at + 1 /\ wr'.err = wr.err
        /\ wr'.tries = wr.tries /\ wr'.portions = wr.portions /\ wr' \in WriteType
    BY <1>0, <1>4 DEF WriteType
  <2> QED
    BY <1>0, <1>4, <2>1 DEF STInv
<1> QED
  BY <1>1, <1>2, <1>3, <1>4 DEF WriteWithRetry

LEMMA STPreserved == STInv /\ [STNext]_stVars => STInv'
<1>1. ASSUME STInv, NEW n \in 1 .. MaxPortions,
             wr' = [portions |-> n, at |-> 1, tries |-> 0, sent |-> {}, err |-> FALSE]
      PROVE  STInv'
  <2>1. /\ wr' \in WriteType /\ wr'.portions = n /\ wr'.at = 1 /\ wr'.tries = 0 /\ wr'.sent = {}
        /\ wr'.err = FALSE
    BY <1>1, STAssumption DEF WriteType
  <2>2. {} = 1 .. 0 /\ 1 - 1 = 0
    OBVIOUS
  <2> QED
    BY <2>1, <2>2, STAssumption DEF STInv
<1>2. ASSUME STInv, UNCHANGED wr, downPipe' = "write" => downPipe = "write" PROVE STInv'
  BY <1>2 DEF STInv
<1>3. ASSUME STInv, PipeDown PROVE STInv'
  <2>1. CASE UNCHANGED wr /\ downPipe' # "write"
    BY <1>2, <1>3, <2>1
  <2>2. CASE \E n \in 1 .. MaxPortions :
               wr' = [portions |-> n, at |-> 1, tries |-> 0, sent |-> {}, err |-> FALSE]
    BY <1>1, <1>3, <2>2
  <2> QED
    BY <1>3, <2>1, <2>2 DEF PipeDown
<1>4. ASSUME STInv, HandleTCPConnection \/ PeerEnds \/ StepUp \/ UNCHANGED stVars PROVE STInv'
  BY <1>2, <1>4 DEF HandleTCPConnection, PeerEnds, StepUp, stVars
<1>5. ASSUME STInv, StepWrite PROVE STInv'
  BY <1>5, WriteWithRetryPreserves DEF StepWrite
<1> QED
  BY <1>3, <1>4, <1>5 DEF STNext, StepDown

(* What a SOCKS client has received of a buffer has no hole, and is all of *)
(* the buffer unless an error was reported, for any number of portions     *)
(* and attempts (WriteWithRetry of sockd).                                 *)
THEOREM StreamNeverHasHole == STSpec => []StreamHasNoHole
<1>1. STInv => StreamHasNoHole
  <2> SUFFICES ASSUME STInv PROVE StreamHasNoHole
    OBVIOUS
  <2>1. PICK k \in Nat : wr.sent = 1 .. k
    BY DEF STInv
  <2>2. Cardinality(1 .. k) = k
    <3>1. Cardinality(1 .. k) = IF 1 > k THEN 0 ELSE k - 1 + 1
      BY FS_Interval
    <3> QED
      BY <3>1
  <2>3. wr.at > wr.portions /\ ~wr.err => wr.sent = 1 .. wr.portions
    BY DEF STInv, WriteType
  <2> QED
    BY <2>1, <2>2, <2>3 DEF StreamHasNoHole
<1> QED
  BY STInitial, STPreserved, <1>1, PTL DEF STSpec

-----------------------------------------------------------------------------
(* The serial port.  A conversation that goes on holds the entry of its    *)
(* device.  While the loop looks for devices, a reader that runs has its   *)
(* conversation wait for it, since only the reader itself has a signal to  *)
(* give; Stop signals too, but ends the loop first.                        *)
Conv ==
  [dev : Devices \cup {"none"}, main : {"none", "open", "wait", "remove"},
   reader : {"none", "read", "run", "signal"}, sig : Nat, open : BOOLEAN]
ConvType == [Conversations -> Conv]
Stopped == scan \in {"stopped", "ended"}
Live(g) == conv[g].main = "open" \/ conv[g].reader # "none"

SPTypeOK ==
  /\ conv \in ConvType
  /\ connected \in [Devices -> Conversations \cup {0}]

SPInv ==
  /\ SPTypeOK
  /\ \A g \in Conversations : conv[g].main # "none" => conv[g].dev \in Devices /\ connected[conv[g].dev] = g
  /\ \A g \in Conversations :
       ~Stopped => (conv[g].reader # "none" => conv[g].main = "wait") /\ (Live(g) => conv[g].sig = 0)
  /\ \A g, h \in Conversations : g # h /\ Live(g) /\ Live(h) => conv[g].dev # conv[h].dev
  /\ stopper = "devices" => Stopped

LEMMA SPInitial == SPInit => SPInv
<1> SUFFICES ASSUME SPInit PROVE SPInv
  OBVIOUS
<1>1. conv \in ConvType /\ \A g \in Conversations : conv[g].main = "none" /\ conv[g].reader = "none"
  BY DEF SPInit, NoConv, ConvType, Conv
<1> QED
  BY <1>1 DEF SPInit, SPInv, SPTypeOK, Live

(* A step of one conversation, after which it is live only if it was.      *)
LEMMA ConversationMoves ==
  ASSUME SPInv, NEW g \in Conversations, UNCHANGED <<scan, stopper>>, SPTypeOK',
         \A h \in Conversations : h # g => conv'[h] = conv[h],
         conv'[g].main # "none" =>
           conv[g].main # "none" /\ conv'[g].dev = conv[g].dev,
         connected' = connected
           \/ (conv'[g].main = "none" /\ conv[g].main # "none"
               /\ connected' = [connected EXCEPT ![conv[g].dev] = 0]),
         Live(g)' => Live(g) /\ conv'[g].dev = conv[g].dev,
         ~Stopped => (conv'[g].reader # "none" => conv'[g].main = "wait") /\ (Live(g)' => conv'[g].sig = 0)
  PROVE  SPInv'
<1> USE SPAssumption DEF SPInv, SPTypeOK
<1>1. ASSUME NEW h \in Conversations, conv'[h].main # "none"
      PROVE  conv'[h].dev \in Devices /\ connected'[conv'[h].dev] = h
  <2>1. conv[h].main # "none" /\ conv'[h].dev = conv[h].dev
    BY <1>1
  <2>2. conv[h].dev \in Devices /\ connected[conv[h].dev] = h
    BY <2>1
  <2>3. CASE connected' = connected
    BY <2>1, <2>2, <2>3
  <2>4. CASE /\ conv'[g].main = "none" /\ conv[g].main # "none"
             /\ connected' = [connected EXCEPT ![conv[g].dev] = 0]
    <3>1. h # g /\ conv[g].dev \in Devices /\ connected[conv[g].dev] = g
      BY <1>1, <2>4
    <3>2. conv[h].dev # conv[g].dev
      BY <2>2, <3>1
    <3> QED
      BY <2>1, <2>2, <2>4, <3>1, <3>2
  <2> QED
    BY <2>3, <2>4
<1>2. Stopped' <=> Stopped
  BY DEF Stopped
<1>3. \A h \in Conversations :
        ~Stopped' => (conv'[h].reader # "none" => conv'[h].main = "wait") /\ (Live(h)' => conv'[h].sig = 0)
  BY <1>2 DEF Live
<1>4. \A h \in Conversations : Live(h)' => Live(h) /\ conv'[h].dev = conv[h].dev
  BY DEF Live
<1>5. \A h, k \in Conversations : h # k /\ Live(h)' /\ Live(k)' => conv'[h].dev # conv'[k].dev
  <2> SUFFICES ASSUME NEW h \in Conversations, NEW k \in Conversations, h # k, Live(h)', Live(k)'
               PROVE  conv'[h].dev # conv'[k].dev
    OBVIOUS
  <2>1. Live(h) /\ Live(k) /\ conv'[h].dev = conv[h].dev /\ conv'[k].dev = conv[k].dev
    BY <1>4
  <2> QED
    BY <2>1
<1> QED
  BY <1>1, <1>2, <1>3, <1>5

LEMMA SPPreserved == SPInv /\ [SPNext]_spVars => SPInv'
<1>0. SPInv => conv \in ConvType /\ connected \in [Devices -> Conversations \cup {0}]
  BY DEF SPInv, SPTypeOK
<1>1. ASSUME SPInv, NEW d \in Devices, ConnectToDevice(d) PROVE SPInv'
  <2>1. PICK g \in Conversations :
          /\ conv[g] = NoConv
          /\ conv' = [conv EXCEPT ![g].dev = d, ![g].main = "open"]
          /\ connected' = [connected EXCEPT ![d] = g]
    BY <1>1 DEF ConnectToDevice
  <2>2. UNCHANGED <<scan, stopper>> /\ scan = "scan" /\ connected[d] = 0
    BY <1>1 DEF ConnectToDevice
  <2>3. conv' \in ConvType
    <3>1. [conv[g] EXCEPT !.dev = d, !.main = "open"] \in Conv
      BY <1>0, <1>1, <2>1 DEF ConvType, Conv
    <3>2. conv' = [conv EXCEPT ![g] = [conv[g] EXCEPT !.dev = d, !.main = "open"]]
      BY <2>1
    <3> QED BY <1>0, <1>1, <3>1, <3>2 DEF ConvType
  <2>4. /\ conv'[g].dev = d /\ conv'[g].main = "open" /\ conv'[g].reader = "none"
        /\ \A h \in Conversations : h # g => conv'[h] = conv[h]
    BY <1>0, <1>1, <2>1 DEF ConvType, Conv, NoConv
  <2>5. SPTypeOK'
    BY <1>0, <1>1, <2>1, <2>3 DEF SPTypeOK
  <2>6. \A h \in Conversations : conv[h].main # "none" => conv[h].dev # d
    BY <1>1, <2>2, SPAssumption DEF SPInv
  <2>7. \A h \in Conversations : conv'[h].main # "none" =>
          conv'[h].dev \in Devices /\ connected'[conv'[h].dev] = h
    <3> SUFFICES ASSUME NEW h \in Conversations, conv'[h].main # "none"
                 PROVE  conv'[h].dev \in Devices /\ connected'[conv'[h].dev] = h
      OBVIOUS
    <3>1. CASE h = g
      BY <1>0, <1>1, <2>1, <2>4, <3>1
    <3>2. CASE h # g
      <4>1. conv'[h] = conv[h] /\ conv[h].dev \in Devices /\ connected[conv[h].dev] = h /\ conv[h].dev # d
        BY <1>1, <2>4, <2>6, <3>2 DEF SPInv
      <4> QED
        BY <1>0, <1>1, <2>1, <4>1
    <3> QED
      BY <3>1, <3>2
  <2>8. \A h \in Conversations : Live(h) => conv[h].main # "none"
    BY <1>1, <2>2 DEF SPInv, Live, Stopped
  <2>9. \A h \in Conversations : h # g /\ Live(h)' => Live(h) /\ conv'[h].dev = conv[h].dev
    BY <2>4 DEF Live
  <2>10. \A h \in Conversations : h # g /\ Live(h)' => conv'[h].dev # d
    BY <2>6, <2>8, <2>9
  <2>11. \A h, k \in Conversations : h # k /\ Live(h)' /\ Live(k)' => conv'[h].dev # conv'[k].dev
    <3> SUFFICES ASSUME NEW h \in Conversations, NEW k \in Conversations, h # k, Live(h)', Live(k)'
                 PROVE  conv'[h].dev # conv'[k].dev
      OBVIOUS
    <3>1. CASE h = g \/ k = g
      BY <2>4, <2>10, <3>1
    <3>2. CASE h # g /\ k # g
      BY <1>1, <2>9, <3>2 DEF SPInv
    <3> QED
      BY <3>1, <3>2
  <2>12. \A h \in Conversations :
           ~Stopped' => (conv'[h].reader # "none" => conv'[h].main = "wait") /\ (Live(h)' => conv'[h].sig = 0)
    <3>1. conv'[g].sig = 0
      BY <1>0, <1>1, <2>1 DEF ConvType, Conv, NoConv
    <3>2. \A h \in Conversations :
            (conv[h].reader # "none" => conv[h].main = "wait") /\ (Live(h) => conv[h].sig = 0)
      BY <1>1, <2>2 DEF SPInv, Stopped
    <3> QED
      BY <2>4, <3>1, <3>2 DEF Live
  <2>13. stopper' = "devices" => Stopped'
    BY <1>1, <2>2 DEF SPInv, Stopped
  <2> QED
    BY <2>5, <2>7, <2>11, <2>12, <2>13 DEF SPInv
<1>2. ASSUME SPInv, NEW g \in Conversations, OpenDevice(g) PROVE SPInv'
  <2>1. UNCHANGED <<connected, scan, stopper>> /\ conv[g].main = "open" /\ Live(g)
    BY <1>2 DEF OpenDevice, Live
  <2>2. CASE conv' = [conv EXCEPT ![g].main = "wait", ![g].reader = "read", ![g].open = TRUE]
    <3>0. conv \in ConvType
      BY <1>0, <1>2
    <3>1. conv' \in ConvType
      <4>1. [conv[g] EXCEPT !.main = "wait", !.reader = "read", !.open = TRUE] \in Conv
        BY <3>0 DEF ConvType, Conv
      <4>2. conv' = [conv EXCEPT ![g] = [conv[g] EXCEPT !.main = "wait", !.reader = "read", !.open = TRUE]]
        BY <2>2
      <4> QED BY <3>0, <4>1, <4>2 DEF ConvType
    <3>2. /\ conv'[g].main = "wait" /\ conv'[g].dev = conv[g].dev /\ conv'[g].sig = conv[g].sig
          /\ \A h \in Conversations : h # g => conv'[h] = conv[h]
      BY <1>0, <1>2, <2>2 DEF ConvType, Conv
    <3>3. ~Stopped => conv[g].sig = 0
      BY <1>2, <2>1 DEF SPInv
    <3> QED
      BY <1>0, <1>2, <2>1, <3>1, <3>2, <3>3, ConversationMoves DEF SPTypeOK
  <2>3. CASE conv' = [conv EXCEPT ![g].main = "remove"]
    <3>1. conv' \in ConvType
      BY <1>0, <1>2, <2>3 DEF ConvType, Conv
    <3>2. /\ conv'[g].main = "remove" /\ conv'[g].dev = conv[g].dev /\ conv'[g].reader = conv[g].reader
          /\ \A h \in Conversations : h # g => conv'[h] = conv[h]
      BY <1>0, <1>2, <2>3 DEF ConvType, Conv
    <3>3. ~Stopped => conv[g].reader = "none" /\ ~Live(g)'
      BY <1>2, <2>1, <3>2 DEF SPInv, Live
    <3> QED
      BY <1>0, <1>2, <2>1, <3>1, <3>2, <3>3, ConversationMoves DEF SPTypeOK
  <2> QED
    BY <1>2, <2>2, <2>3 DEF OpenDevice
<1>3. ASSUME SPInv, NEW g \in Conversations, ReadCommand(g) \/ ProcessAndWrite(g) PROVE SPInv'
  <2>1. PICK r \in {"read", "run", "signal"} : conv' = [conv EXCEPT ![g].reader = r]
    BY <1>3 DEF ReadCommand, ProcessAndWrite
  <2>2. UNCHANGED <<connected, scan, stopper>> /\ conv[g].reader # "none" /\ Live(g)
    BY <1>3 DEF ReadCommand, ProcessAndWrite, Live
  <2>3. conv' \in ConvType
    BY <1>0, <1>3, <2>1 DEF ConvType, Conv
  <2>4. /\ conv'[g].main = conv[g].main /\ conv'[g].dev = conv[g].dev /\ conv'[g].sig = conv[g].sig
        /\ \A h \in Conversations : h # g => conv'[h] = conv[h]
    BY <1>0, <1>3, <2>1 DEF ConvType, Conv
  <2>5. ~Stopped => conv[g].main = "wait" /\ conv[g].sig = 0
    BY <1>3, <2>2 DEF SPInv
  <2> QED
    BY <1>0, <1>3, <2>2, <2>3, <2>4, <2>5, ConversationMoves DEF SPTypeOK
<1>4. ASSUME SPInv, NEW g \in Conversations, ReaderSignals(g) PROVE SPInv'
  <2>1. conv' = [conv EXCEPT ![g].reader = "none", ![g].sig = @ + 1] /\ UNCHANGED <<connected, scan, stopper>>
    BY <1>4 DEF ReaderSignals
  <2>2. conv' \in ConvType
    BY <1>0, <1>4, <2>1 DEF ConvType, Conv
  <2>3. /\ conv'[g].main = conv[g].main /\ conv'[g].dev = conv[g].dev /\ conv'[g].reader = "none"
        /\ \A h \in Conversations : h # g => conv'[h] = conv[h]
    BY <1>0, <1>4, <2>1 DEF ConvType, Conv
  <2>4. (Live(g)' => Live(g)) /\ (~Stopped => ~Live(g)')
    BY <1>4, <2>3 DEF Live, SPInv, ReaderSignals
  <2> QED
    BY <1>0, <1>4, <2>1, <2>2, <2>3, <2>4, ConversationMoves DEF SPTypeOK
<1>5. ASSUME SPInv, NEW g \in Conversations, CloseDevice(g) PROVE SPInv'
  <2>1. /\ conv' = [conv EXCEPT ![g].main = "remove", ![g].sig = @ - 1, ![g].open = FALSE]
        /\ conv[g].main = "wait" /\ conv[g].sig > 0 /\ UNCHANGED <<connected, scan, stopper>>
    BY <1>5 DEF CloseDevice
  <2>2. conv' \in ConvType
    BY <1>0, <1>5, <2>1 DEF ConvType, Conv
  <2>3. /\ conv'[g].main = "remove" /\ conv'[g].dev = conv[g].dev /\ conv'[g].reader = conv[g].reader
        /\ \A h \in Conversations : h # g => conv'[h] = conv[h]
    BY <1>0, <1>5, <2>1 DEF ConvType, Conv
  <2>4. Live(g)' => Live(g)
    BY <2>3 DEF Live
  <2>5. ~Stopped => conv[g].reader = "none" /\ ~Live(g)'
    <3>1. conv[g].sig # 0
      BY <1>0, <1>5, <2>1 DEF ConvType, Conv
    <3> QED
      BY <1>5, <2>3, <3>1 DEF SPInv, Live
  <2> QED
    BY <1>0, <1>5, <2>1, <2>2, <2>3, <2>4, <2>5, ConversationMoves DEF SPTypeOK
<1>6. ASSUME SPInv, NEW g \in Conversations, RemoveDevice(g) PROVE SPInv'
  <2>1. /\ conv' = [conv EXCEPT ![g].main = "none"] /\ conv[g].main = "remove"
        /\ connected' = [connected EXCEPT ![conv[g].dev] = 0] /\ UNCHANGED <<scan, stopper>>
    BY <1>6 DEF RemoveDevice
  <2>2. conv' \in ConvType
    BY <1>0, <1>6, <2>1 DEF ConvType, Conv
  <2>3. /\ conv'[g].main = "none" /\ conv'[g].dev = conv[g].dev /\ conv'[g].reader = conv[g].reader
        /\ \A h \in Conversations : h # g => conv'[h] = conv[h]
    BY <1>0, <1>6, <2>1 DEF ConvType, Conv
  <2>4. Live(g)' => Live(g)
    BY <2>3 DEF Live
  <2>5. ~Stopped => conv[g].reader = "none" /\ ~Live(g)'
    BY <1>6, <2>1, <2>3 DEF SPInv, Live
  <2>6. SPTypeOK'
    BY <1>0, <1>6, <2>1, <2>2 DEF SPTypeOK
  <2> QED
    BY <1>6, <2>1, <2>3, <2>4, <2>5, <2>6, ConversationMoves
<1>7. ASSUME SPInv, NEW g \in Conversations, Forget(g) PROVE SPInv'
  <2>1. conv' = [conv EXCEPT ![g] = NoConv] /\ UNCHANGED <<connected, scan, stopper>>
    BY <1>7 DEF Forget
  <2>2. conv' \in ConvType
    BY <1>0, <1>7, <2>1 DEF ConvType, Conv, NoConv
  <2>3. /\ conv'[g].main = "none" /\ conv'[g].reader = "none"
        /\ \A h \in Conversations : h # g => conv'[h] = conv[h]
    BY <1>0, <1>7, <2>1 DEF ConvType, Conv, NoConv
  <2>4. ~Live(g)'
    BY <2>3 DEF Live
  <2> QED
    BY <1>0, <1>7, <2>1, <2>2, <2>3, <2>4, ConversationMoves DEF SPTypeOK
<1>8. ASSUME SPInv, NEW d \in Devices, StopsDevice(d) PROVE SPInv'
  <2>1. CASE UNCHANGED conv
    BY <1>8, <2>1 DEF StopsDevice, SPInv, SPTypeOK, Live, Stopped
  <2>2. CASE connected[d] # 0 /\ conv' = [conv EXCEPT ![connected[d]].sig = @ + 1]
    <3>0. PICK g \in Conversations : g = connected[d]
      BY <1>0, <1>8, <2>2
    <3>1. UNCHANGED <<connected, scan, stopper>> /\ Stopped
      BY <1>8 DEF StopsDevice, SPInv
    <3>2. conv' = [conv EXCEPT ![g].sig = @ + 1]
      BY <2>2, <3>0
    <3>3. conv' \in ConvType
      BY <1>0, <1>8, <3>1, <3>2 DEF ConvType, Conv
    <3>4. /\ conv'[g].main = conv[g].main /\ conv'[g].dev = conv[g].dev /\ conv'[g].reader = conv[g].reader
          /\ \A h \in Conversations : h # g => conv'[h] = conv[h]
      BY <1>0, <1>8, <3>1, <3>2 DEF ConvType, Conv
    <3>5. Live(g)' => Live(g)
      BY <3>4 DEF Live
    <3> QED
      BY <1>0, <1>8, <3>1, <3>3, <3>4, <3>5, ConversationMoves DEF SPTypeOK
  <2> QED
    BY <1>8, <2>1, <2>2 DEF StopsDevice
<1>9. ASSUME SPInv, UNCHANGED <<conv, connected>>, Stopped => Stopped', stopper' = "devices" => Stopped'
      PROVE  SPInv'
  BY <1>9 DEF SPInv, SPTypeOK, Live
<1>10. ASSUME SPInv, SPStart \/ ScanEnds \/ StopBegins \/ StopsLoop \/ StopReturnsHere \/ SPLockDown \/ UNCHANGED spVars
       PROVE  SPInv'
  <2>1. UNCHANGED <<conv, connected>>
    BY <1>10 DEF SPStart, ScanEnds, StopBegins, StopsLoop, StopReturnsHere, SPLockDown, spVars
  <2>2. (Stopped => Stopped') /\ (stopper' = "devices" => Stopped')
    BY <1>10 DEF SPStart, ScanEnds, StopBegins, StopsLoop, StopReturnsHere, SPLockDown, spVars, Stopped, SPInv
  <2> QED
    BY <1>9, <1>10, <2>1, <2>2
<1>11. ASSUME SPInv, NEW g \in Conversations, FatalMapError(g) PROVE SPInv'
  <2>1. conv' \in ConvType /\ \A h \in Conversations : conv'[h].main = "none" /\ conv'[h].reader = "none"
    BY <1>11 DEF FatalMapError, NoConv, ConvType, Conv
  <2>2. connected' \in [Devices -> Conversations \cup {0}] /\ stopper' = "crashed"
    BY <1>11 DEF FatalMapError
  <2> QED
    BY <2>1, <2>2 DEF SPInv, SPTypeOK, Live
<1> QED
  BY <1>1, <1>2, <1>3, <1>4, <1>5, <1>6, <1>7, <1>8, <1>10, <1>11 DEF SPNext, ConvStep

(* No device is read by two goroutines at a time, for any number of        *)
(* devices, reconnections and signals (connectToDevices and                *)
(* converseWithDevice of serialport).                                      *)
THEOREM AlwaysOneReaderPerDevice == SPSpec => []OneReaderPerDevice
<1>1. SPInv => OneReaderPerDevice
  BY DEF SPInv, Live, OneReaderPerDevice
<1> QED
  BY SPInitial, SPPreserved, <1>1, PTL DEF SPSpec

-----------------------------------------------------------------------------

(* CarryOn has returned something that answerOK has yet to acknowledge.    *)
Pending == ~answered /\ verb # "none"

(* A reply is owed only for what the next CarryOn acknowledges, and none   *)
(* is while CarryOn reads.                                                 *)
RepliesInv ==
  /\ pc \in {"command", "data"} => owed = 0 /\ ~Pending
  /\ owed = 1 => Pending

(* Where answerOK takes the conversation: on from the stage in which the   *)
(* command was valid, or back to Hello after a mail.                       *)
PendingInv ==
  pc = "top" /\ Pending =>
    \/ verb \in Verb /\ stage \in ValidInStages(verb) /\ expectNextStage = NextStage(verb)
    \/ verb = "DATA" /\ stage = "AfterMessageData" /\ expectNextStage = "Hello"

(* A stage is reached only with the verbs before it acknowledged.          *)
StageInv ==
  /\ stage = "MailAddress" => "MAILFROM" \in txn
  /\ stage = "Recipient" => {"MAILFROM", "RCPTTO"} \subseteq txn
  /\ stage = "MessageData" => {"MAILFROM", "RCPTTO", "DATA"} \subseteq txn /\ verb = "DATA"
  /\ pc = "data" => stage = "MessageData"

(* A client that is not odd has given what done needs to forward the mail. *)
EnvelopeInv ==
  ~odd =>
    /\ (pc # "closed" /\ verb = "MAILFROM") \/ "MAILFROM" \in txn \/ mailBody # 0 => fromAddr = "sender"
    /\ (pc # "closed" /\ verb = "RCPTTO") \/ "RCPTTO" \in txn \/ mailBody # 0 => toAddrs > 0

(* ProcessMail is called at the end of the connection only.                *)
ForwardInv == pc # "closed" => forwarded = <<>>

SMTPInv ==
  /\ TypeOK
  /\ RepliesInv
  /\ PendingInv
  /\ StageInv
  /\ EnvelopeInv
  /\ ForwardInv
  /\ LastMailForwarded

LEMMA Bounds ==
  /\ MaxConversationLength \in Nat \ {0} /\ MaxUnrecognised \in Nat \ {0}
  /\ MaxNumRecipients \in Nat \ {0} /\ MaxMails \in Nat
  BY SMTPAssumption

LEMMA SMTPInitial == Init => SMTPInv
<1> SUFFICES ASSUME Init PROVE SMTPInv
  OBVIOUS
<1>1. TypeOK
  <2>1. forwarded \in Seq(1 .. MaxMails) /\ Len(forwarded) <= 1
    BY DEF Init
  <2>2. /\ gone \in BOOLEAN /\ locked \in BOOLEAN /\ odd \in BOOLEAN
        /\ answered \in BOOLEAN /\ TLSAttempted \in BOOLEAN /\ chatter \in BOOLEAN
    BY DEF Init
  <2>3. /\ unrecognised \in 0 .. MaxUnrecognised /\ numCommands \in 0 .. MaxConversationLength
        /\ toAddrs \in 0 .. MaxNumRecipients /\ mailBody \in 0 .. MaxMails
        /\ owed \in 0 .. 1 /\ txn \subseteq Verb
    BY Bounds DEF Init
  <2>4. /\ pc \in {"top", "command", "data", "closed"} /\ stage \in Stage
        /\ expectNextStage \in Stage /\ verb \in Verb \cup {"none"}
        /\ fromAddr \in {"none", "sender"}
    BY DEF Init, Stage
  <2> QED
    BY <2>1, <2>2, <2>3, <2>4 DEF TypeOK
<1>2. RepliesInv /\ PendingInv /\ ForwardInv /\ LastMailForwarded
  BY DEF Init, RepliesInv, PendingInv, ForwardInv, LastMailForwarded, Pending
<1>3. StageInv /\ EnvelopeInv
  BY DEF Init, StageInv, EnvelopeInv
<1> QED
  BY <1>1, <1>2, <1>3 DEF SMTPInv

(* A command that CarryOn deals with by itself changes nothing but the     *)
(* stage, to one that asks nothing of the envelope unless it stays.        *)
LEMMA ChatPreserves ==
  ASSUME SMTPInv, NEW s \in Stage, Chat(s), s # "MessageData" \/ s = stage,
         unrecognised' \in 0 .. MaxUnrecognised, TLSAttempted' \in BOOLEAN,
         \/ s = stage /\ txn' = txn
         \/ s \in {"AfterGreeting", "Hello", "Quit", "Abort"} /\ txn' \in {txn, {}}
  PROVE  SMTPInv'
<1> USE DEF SMTPInv
<1>1. /\ stage' \in {s, "Abort"} /\ pc = "command"
      /\ chatter' = ~chatter
      /\ UNCHANGED <<fromAddr, toAddrs, mailBody, pc, gone, locked, expectNextStage, verb, answered,
                     numCommands, forwarded, owed, odd>>
  BY DEF Chat, AfterReply, mailVars
<1>2. TypeOK'
  BY <1>1, Bounds DEF TypeOK, Stage
<1>3. RepliesInv' /\ PendingInv' /\ ForwardInv' /\ LastMailForwarded'
  BY <1>1 DEF RepliesInv, PendingInv, Pending, ForwardInv, LastMailForwarded
<1>4. StageInv'
  BY <1>1 DEF StageInv
<1>5. EnvelopeInv'
  BY <1>1 DEF EnvelopeInv
<1> QED
  BY <1>2, <1>3, <1>4, <1>5

(* However the connection ends, done has the envelope it needs.            *)
LEMMA DonePreserves ==
  ASSUME SMTPInv, pc # "closed", Done(fromAddr, toAddrs),
         UNCHANGED <<mailVars, gone, locked, TLSAttempted, numCommands, chatter, txn, odd>>,
         unrecognised' = unrecognised,
         stage' \in {stage, "Abort"}, expectNextStage' \in Stage, verb' \in Verb \cup {"none"},
         answered' \in BOOLEAN, verb' = verb \/ stage # "MessageData"
  PROVE  SMTPInv'
<1> USE DEF SMTPInv, mailVars
<1>1. /\ pc' = "closed" /\ owed' = 0
      /\ forwarded' = IF fromAddr # "none" /\ toAddrs > 0 /\ mailBody # 0
                      THEN <<mailBody>> ELSE <<>>
  <2>1. mailBody \in 0 .. MaxMails /\ forwarded = <<>>
    BY DEF TypeOK, ForwardInv
  <2>2. Append(forwarded, mailBody) = <<mailBody>>
    BY <2>1, Bounds
  <2> QED
    BY <2>1, <2>2 DEF Done
<1>2. forwarded' \in Seq(1 .. MaxMails) /\ Len(forwarded') <= 1
  <2>1. mailBody \in 0 .. MaxMails
    BY DEF TypeOK
  <2>2. CASE mailBody = 0
    BY <1>1, <2>2
  <2>3. CASE mailBody # 0
    <3>1. mailBody \in 1 .. MaxMails
      BY <2>1, <2>3, Bounds
    <3>2. <<mailBody>> \in Seq(1 .. MaxMails) /\ Len(<<mailBody>>) <= 1
      BY <3>1
    <3>3. forwarded' = <<mailBody>> \/ forwarded' = <<>>
      BY <1>1
    <3>4. <<>> \in Seq(1 .. MaxMails) /\ Len(<<>>) <= 1
      OBVIOUS
    <3> QED
      BY <3>2, <3>3, <3>4
  <2> QED
    BY <2>2, <2>3
<1>3. TypeOK'
  BY <1>1, <1>2 DEF TypeOK, Stage
<1>4. RepliesInv' /\ PendingInv' /\ ForwardInv'
  BY <1>1 DEF RepliesInv, PendingInv, ForwardInv
<1>5. StageInv'
  BY <1>1 DEF StageInv
<1>6. EnvelopeInv'
  BY <1>1 DEF EnvelopeInv
<1>7. LastMailForwarded'
  BY <1>1 DEF LastMailForwarded, EnvelopeInv
<1> QED
  BY <1>3, <1>4, <1>5, <1>6, <1>7

(* CarryOn returns a command that is valid in the stage.                   *)
LEMMA CommandPreserves ==
  ASSUME SMTPInv, NEW v \in Verb, Command(v), pc' = "top", owed' = owed + 1,
         UNCHANGED <<mailBody, forwarded>>,
         fromAddr' \in {"none", "sender"}, toAddrs' \in toAddrs .. MaxNumRecipients,
         odd' \in BOOLEAN, odd => odd',
         odd' \/ fromAddr' = fromAddr \/ fromAddr' = "sender",
         v = "MAILFROM" => odd' \/ fromAddr' = "sender",
         v = "RCPTTO" => odd' \/ toAddrs' > 0
  PROVE  SMTPInv'
<1> USE DEF SMTPInv
<1>1. /\ pc = "command" /\ stage \in ValidInStages(v) /\ expectNextStage' = NextStage(v)
      /\ answered' = FALSE /\ verb' = v
      /\ UNCHANGED <<gone, locked, stage, unrecognised, TLSAttempted, numCommands, chatter, txn>>
  BY DEF Command
<1>2. owed = 0
  BY <1>1 DEF RepliesInv
<1>3. TypeOK'
  <2>1. NextStage(v) \in Stage
    BY DEF NextStage, Verb, Stage
  <2>2. toAddrs' \in 0 .. MaxNumRecipients
    BY Bounds DEF TypeOK
  <2>3. answered' \in BOOLEAN
    BY <1>1
  <2>4. verb' \in Verb \cup {"none"} /\ owed' \in 0 .. 1
    BY <1>1, <1>2
  <2> QED
    BY <1>1, <2>1, <2>2, <2>3, <2>4 DEF TypeOK
<1>4. RepliesInv' /\ ForwardInv' /\ LastMailForwarded'
  BY <1>1, <1>2 DEF RepliesInv, Pending, ForwardInv, LastMailForwarded, Verb
<1>5. PendingInv'
  BY <1>1 DEF PendingInv
<1>6. StageInv'
  <2>1. stage # "MessageData"
    BY <1>1 DEF ValidInStages, Verb
  <2> QED
    BY <1>1, <2>1 DEF StageInv
<1>7. EnvelopeInv'
  BY <1>1, Bounds DEF EnvelopeInv, TypeOK
<1> QED
  BY <1>3, <1>4, <1>5, <1>6, <1>7

(* answerOK acknowledges what CarryOn returned before, and the stage moves *)
(* on as far as the acknowledged verbs allow.                              *)
LEMMA CarryOnPreserves == ASSUME SMTPInv, CallCarryOn PROVE SMTPInv'
<1> USE DEF SMTPInv
<1> DEFINE begun == IF Pending THEN expectNextStage ELSE stage
<1>1. /\ pc = "top" /\ numCommands < MaxConversationLength /\ numCommands' = numCommands + 1
      /\ stage' = IF begun = "Greeting" THEN "AfterGreeting" ELSE begun
      /\ pc' = IF begun = "MessageData" THEN "data" ELSE "command"
      /\ answered' = (answered \/ Pending)
      /\ owed' = IF Pending THEN 0 ELSE owed
      /\ txn' = IF Pending THEN Acknowledge(verb) ELSE txn
      /\ UNCHANGED <<fromAddr, toAddrs, mailBody, gone, locked, expectNextStage, verb, unrecognised,
                     TLSAttempted, chatter, forwarded, odd>>
  BY DEF CallCarryOn, Pending, mailVars
<1>2. txn' \subseteq txn \cup {verb} /\ (Pending => verb \in Verb) /\ txn' \subseteq Verb
  BY <1>1 DEF Acknowledge, TypeOK, Pending, Verb
<1>3. TypeOK'
  <2>1. stage' \in Stage
    BY <1>1 DEF TypeOK, Stage
  <2>2. pc' \in {"top", "command", "data", "closed"} /\ owed' \in 0 .. 1 /\ answered' \in BOOLEAN
    BY <1>1 DEF TypeOK
  <2> QED
    BY <1>1, <1>2, <2>1, <2>2, Bounds DEF TypeOK
<1>4. RepliesInv'
  <2>1. ~Pending'
    BY <1>1 DEF Pending
  <2>2. owed' = 0
    BY <1>1 DEF RepliesInv, TypeOK
  <2> QED
    BY <2>1, <2>2 DEF RepliesInv
<1>5. PendingInv' /\ ForwardInv' /\ LastMailForwarded'
  BY <1>1 DEF PendingInv, ForwardInv, LastMailForwarded
<1>6. StageInv'
  <2>1. CASE ~Pending
    BY <1>1, <2>1 DEF StageInv
  <2>2. CASE Pending /\ expectNextStage = "Hello"
    BY <1>1, <2>2 DEF StageInv
  <2>3. CASE Pending /\ expectNextStage # "Hello"
    <3>1. verb \in Verb /\ stage \in ValidInStages(verb) /\ expectNextStage = NextStage(verb)
      BY <1>1, <2>3 DEF PendingInv
    <3>2. stage' = NextStage(verb) /\ txn' = Acknowledge(verb)
      BY <1>1, <2>3, <3>1 DEF NextStage, Verb
    <3> QED
      BY <1>1, <2>3, <3>1, <3>2 DEF StageInv, ValidInStages, NextStage, Acknowledge, Verb
  <2> QED
    BY <2>1, <2>2, <2>3
<1>7. EnvelopeInv'
  BY <1>1, <1>2 DEF EnvelopeInv
<1> QED
  BY <1>3, <1>4, <1>5, <1>6, <1>7

LEMMA SMTPPreserved == SMTPInv /\ [Next]_vars => SMTPInv'
<1> SUFFICES ASSUME SMTPInv, [Next]_vars PROVE SMTPInv'
  OBVIOUS
<1> USE DEF SMTPInv
<1> DEFINE Invs == /\ RepliesInv' /\ PendingInv' /\ StageInv' /\ EnvelopeInv' /\ ForwardInv'
                   /\ LastMailForwarded'
<1>1. CASE LockedDown
  <2>1. TypeOK'
    BY <1>1 DEF LockedDown, connVars, mailVars, TypeOK
  <2>2. Invs
    BY <1>1 DEF LockedDown, connVars, mailVars, RepliesInv, PendingInv, StageInv, EnvelopeInv,
                ForwardInv, LastMailForwarded
  <2> QED
    BY <2>1, <2>2
<1>2. CASE TooLong
  <2>1. /\ pc # "closed" /\ Done(fromAddr, toAddrs) /\ stage' = "Abort" /\ answered' = TRUE
        /\ UNCHANGED <<mailVars, gone, locked, TLSAttempted, numCommands, chatter, txn, odd>>
        /\ unrecognised' = unrecognised /\ expectNextStage' \in Stage
        /\ verb' \in Verb \cup {"none"} /\ verb' = verb
    BY <1>2 DEF TooLong, TypeOK
  <2> QED
    BY <2>1, DonePreserves
<1>3. CASE CallCarryOn
  BY <1>3, CarryOnPreserves
<1>4. CASE EndOfCarryOn
  <2>1. CASE stage = "Quit"
    <3>1. /\ pc # "closed" /\ Done(fromAddr, toAddrs) /\ stage' = stage
          /\ UNCHANGED <<mailVars, gone, locked, TLSAttempted, numCommands, chatter, txn, odd>>
          /\ unrecognised' = unrecognised /\ expectNextStage' \in Stage
          /\ verb' \in Verb \cup {"none"} /\ verb' = verb /\ answered' \in BOOLEAN
      BY <1>4, <2>1 DEF EndOfCarryOn, TypeOK, connVars
    <3> QED
      BY <3>1, DonePreserves
  <2>2. CASE stage # "Quit"
    <3>1. TypeOK'
      BY <1>4, <2>2 DEF EndOfCarryOn, connVars, mailVars, TypeOK
    <3>2. Invs
      BY <1>4, <2>2 DEF EndOfCarryOn, connVars, mailVars, RepliesInv, PendingInv, StageInv,
                        EnvelopeInv, ForwardInv, LastMailForwarded, Pending
    <3> QED
      BY <3>1, <3>2
  <2> QED
    BY <2>1, <2>2
<1>5. CASE ReceiveMail
  <2> USE <1>5 DEF ReceiveMail
  <2>1. owed = 0 /\ owed' = 1 /\ mailBody \in 0 .. MaxMails
    BY DEF RepliesInv, TypeOK
  <2>2. TypeOK'
    <3>1. mailBody' \in 0 .. MaxMails
      BY <2>1, Bounds
    <3>2. answered' \in BOOLEAN
      OBVIOUS
    <3>3. owed' \in 0 .. 1 /\ stage' \in Stage /\ expectNextStage' \in Stage
      BY <2>1 DEF Stage
    <3> QED
      BY <3>1, <3>2, <3>3 DEF TypeOK
  <2>3. RepliesInv' /\ PendingInv' /\ StageInv' /\ ForwardInv' /\ LastMailForwarded'
    BY <2>1 DEF RepliesInv, PendingInv, StageInv, ForwardInv, LastMailForwarded, Pending
  <2>4. EnvelopeInv'
    BY DEF EnvelopeInv, StageInv
  <2> QED
    BY <2>2, <2>3, <2>4
<1>6. CASE ReceiveNoMail
  <2> USE <1>6 DEF ReceiveNoMail, mailVars
  <2>1. TypeOK'
    BY DEF TypeOK, Stage
  <2>2. Invs
    BY DEF RepliesInv, PendingInv, StageInv, EnvelopeInv, ForwardInv, LastMailForwarded, Pending
  <2> QED
    BY <2>1, <2>2
<1>7. CASE UnknownVerb \/ ReplyOnly
  <2>1. /\ Chat(stage) /\ unrecognised' \in 0 .. MaxUnrecognised /\ TLSAttempted' \in BOOLEAN
        /\ stage \in Stage /\ txn' = txn
    BY <1>7, Bounds DEF UnknownVerb, ReplyOnly, Chat, TypeOK
  <2> QED
    BY <2>1, ChatPreserves
<1>8. CASE RSET
  <2>1. PICK s \in {"AfterGreeting", "Hello"} : Chat(s)
    BY <1>8 DEF RSET
  <2>2. /\ unrecognised' \in 0 .. MaxUnrecognised /\ TLSAttempted' \in BOOLEAN
        /\ s \in Stage /\ txn' = {}
    BY <1>8 DEF RSET, TypeOK, Stage
  <2> QED
    BY <2>1, <2>2, ChatPreserves
<1>9. CASE LimitReached \/ QUIT
  <2>1. PICK s \in {"Abort", "Quit"} : Chat(s)
    BY <1>9 DEF LimitReached, QUIT
  <2>2. /\ unrecognised' \in 0 .. MaxUnrecognised /\ TLSAttempted' \in BOOLEAN
        /\ s \in Stage /\ txn' = txn
    BY <1>9, Bounds DEF LimitReached, QUIT, Chat, TypeOK, Stage
  <2> QED
    BY <2>1, <2>2, ChatPreserves
<1>10. ASSUME NEW ok \in BOOLEAN, STARTTLS(ok) PROVE SMTPInv'
  <2>1. PICK s \in {"AfterGreeting", "Abort"} : Chat(s)
    BY <1>10 DEF STARTTLS
  <2>2. /\ unrecognised' \in 0 .. MaxUnrecognised /\ TLSAttempted' \in BOOLEAN
        /\ s \in Stage /\ txn' = {}
    BY <1>10 DEF STARTTLS, TypeOK, Stage
  <2> QED
    BY <2>1, <2>2, ChatPreserves
<1>11. ASSUME NEW v \in {"HELO", "EHLO", "DATA"}, HelloOrData(v) PROVE SMTPInv'
  <2>1. /\ Command(v) /\ pc' = "top" /\ owed' = owed + 1 /\ v \in Verb
        /\ UNCHANGED <<mailBody, forwarded, fromAddr, toAddrs, odd>>
    BY <1>11 DEF HelloOrData, mailVars, Verb
  <2>2. /\ fromAddr \in {"none", "sender"} /\ toAddrs \in toAddrs .. MaxNumRecipients
        /\ odd \in BOOLEAN
    BY Bounds DEF TypeOK
  <2> QED
    BY <1>11, <2>1, <2>2, CommandPreserves
<1>12. ASSUME NEW addr \in {"none", "sender"}, MailFrom(addr) PROVE SMTPInv'
  <2>1. /\ Command("MAILFROM") /\ pc' = "top" /\ owed' = owed + 1 /\ "MAILFROM" \in Verb
        /\ UNCHANGED <<mailBody, forwarded, toAddrs>> /\ fromAddr' = addr
        /\ odd' = (odd \/ addr = "none")
    BY <1>12 DEF MailFrom, Verb
  <2>2. toAddrs \in toAddrs .. MaxNumRecipients /\ odd' \in BOOLEAN
    BY <2>1, Bounds DEF TypeOK
  <2> QED
    BY <1>12, <2>1, <2>2, CommandPreserves
<1>13. CASE RecipientAccepted \/ RecipientWithoutDomain
  <2>1. /\ Command("RCPTTO") /\ pc' = "top" /\ owed' = owed + 1 /\ "RCPTTO" \in Verb
        /\ UNCHANGED <<mailBody, forwarded, fromAddr>>
        /\ odd => odd'
    BY <1>13 DEF RecipientAccepted, RecipientWithoutDomain, Verb, mailVars
  <2>2. /\ fromAddr \in {"none", "sender"} /\ odd' \in BOOLEAN
        /\ toAddrs' \in toAddrs .. MaxNumRecipients /\ (odd' \/ toAddrs' > 0)
    <3>1. toAddrs \in 0 .. MaxNumRecipients
      BY DEF TypeOK
    <3>2. CASE RecipientAccepted
      BY <3>1, <3>2, Bounds DEF RecipientAccepted, TypeOK
    <3>3. CASE RecipientWithoutDomain
      BY <3>1, <3>3, Bounds DEF RecipientWithoutDomain, TypeOK, mailVars
    <3> QED
      BY <1>13, <3>2, <3>3
  <2> QED
    BY <2>1, <2>2, CommandPreserves
<1>14. CASE RecipientRejected
  <2>1. stage # "MessageData"
    BY <1>14 DEF RecipientRejected, Command, ValidInStages
  <2>2. /\ pc # "closed" /\ Done(fromAddr, toAddrs) /\ stage' = stage
        /\ UNCHANGED <<mailVars, gone, locked, TLSAttempted, numCommands, chatter, txn, odd>>
        /\ unrecognised' = unrecognised /\ expectNextStage' \in Stage
        /\ verb' \in Verb \cup {"none"} /\ answered' \in BOOLEAN
    BY <1>14 DEF RecipientRejected, Command, NextStage, Stage, Verb
  <2> QED
    BY <2>1, <2>2, DonePreserves
<1>15. CASE ReadNothing
  <2> USE <1>15 DEF ReadNothing, mailVars
  <2>1. TypeOK'
    BY DEF TypeOK, Stage
  <2>2. Invs
    BY DEF RepliesInv, PendingInv, StageInv, EnvelopeInv, ForwardInv, LastMailForwarded, Pending
  <2> QED
    BY <2>1, <2>2
<1>16. CASE ClientLeaves \/ TriggerEmergencyLockDown
  <2> USE <1>16 DEF ClientLeaves, TriggerEmergencyLockDown, connVars, mailVars
  <2>1. TypeOK'
    BY DEF TypeOK
  <2>2. Invs
    BY DEF RepliesInv, PendingInv, StageInv, EnvelopeInv, ForwardInv, LastMailForwarded, Pending
  <2> QED
    BY <2>1, <2>2
<1>17. CASE UNCHANGED vars
  BY <1>17 DEF vars, connVars, mailVars, TypeOK, RepliesInv, PendingInv, StageInv, EnvelopeInv,
               ForwardInv, LastMailForwarded, Pending
<1> QED
  BY <1>1, <1>2, <1>3, <1>4, <1>5, <1>6, <1>7, <1>8, <1>9, <1>10, <1>11, <1>12, <1>13, <1>14,
     <1>15, <1>16, <1>17
  DEF Next, ServerStep

(* Through any commands in any order, failed replies, resets and aborts,   *)
(* neither side of an SMTP conversation waits for the other, mail data     *)
(* belongs to an acknowledged envelope, and the mail received last is      *)
(* forwarded (CarryOn, answerOK, reply, HandleTCPConnection).              *)
THEOREM ConversationAlwaysInOrder == Spec => []ConversationInOrder
<1>1. SMTPInv => ConversationInOrder
  BY DEF SMTPInv, ConversationInOrder, RepliesBeforeReading, DataAfterEnvelope, RepliesInv, StageInv
<1> QED
  BY <1>1, SMTPInitial, SMTPPreserved, PTL DEF Spec
================================================================================
