------------------------------ MODULE SMTPDaemon ------------------------------
(***************************************************************************)
(* One connection of the mail server: the SMTP conversation                *)
(* (daemon/smtpd/smtp/connection.go, protocol.go) and the handler that     *)
(* drives it and forwards the mail (daemon/smtpd/smtpd.go).                *)
(*                                                                         *)
(* The handler calls CarryOn in a loop.  CarryOn answers what it returned  *)
(* the time before, and reads on until it has a command or a mail for the  *)
(* handler.  Every read of the connection is an action; what the server    *)
(* does with it, up to the next read, belongs to the action.               *)
(***************************************************************************)
EXTENDS Integers, Sequences

CONSTANTS
  HasTLS,                 \* the server offers STARTTLS
  MaxConversationLength,  \* calls of CarryOn in a connection
  MaxUnrecognised,        \* MaxConsecutiveUnrecognisedCommands
  MaxNumRecipients,       \* recipients that are remembered
  MaxMails                \* bound of the model: mails a client sends

ASSUME SMTPAssumption ==
  /\ HasTLS \in BOOLEAN
  /\ {MaxConversationLength, MaxUnrecognised, MaxNumRecipients} \subseteq Nat \ {0}
  /\ MaxMails \in Nat

Stage == {"Greeting", "AfterGreeting", "Hello", "MailAddress", "Recipient", "MessageData",
          "AfterMessageData", "Quit", "Abort"}

(* The verbs that move a conversation on, and "none" for VerbAbsent.       *)
Verb == {"HELO", "EHLO", "MAILFROM", "RCPTTO", "DATA"}

VARIABLES
  pc,               \* "top" of the handler's loop, reading a "command" or the "data", or "closed"
  gone,             \* the client has left; what it sent before may still be there to read
  locked,           \* misc.EmergencyLockDown
  stage,            \* conn.stage
  expectNextStage,  \* conn.expectNextStage
  verb,             \* conn.latestProtocolVerb
  answered,         \* conn.answered
  unrecognised,     \* conn.consecutiveUnrecognisedCommands
  TLSAttempted,     \* conn.TLSAttempted
  numCommands,      \* calls of CarryOn so far
  fromAddr,         \* the sender, "none" when there is none
  toAddrs,          \* how many recipients are remembered
  mailBody,         \* the number of the mail received last, 0 when there is none
  chatter,          \* history: alternates at every command that CarryOn deals with by itself
  forwarded,        \* the mails given to ProcessMail
  txn,              \* history: verbs acknowledged since the last one that began a mail afresh
  owed,             \* history: commands and mails not replied to
  odd               \* history: the client named no sender, or a recipient without a domain

connVars == <<stage, expectNextStage, verb, answered, unrecognised, TLSAttempted>>
mailVars == <<fromAddr, toAddrs, mailBody>>
vars == <<connVars, mailVars, pc, gone, locked, numCommands, chatter, forwarded, txn,
          owed, odd>>

TypeOK ==
  /\ pc \in {"top", "command", "data", "closed"}
  /\ gone \in BOOLEAN /\ locked \in BOOLEAN /\ odd \in BOOLEAN
  /\ answered \in BOOLEAN /\ TLSAttempted \in BOOLEAN
  /\ stage \in Stage /\ expectNextStage \in Stage
  /\ verb \in Verb \cup {"none"}
  /\ unrecognised \in 0 .. MaxUnrecognised
  /\ numCommands \in 0 .. MaxConversationLength
  /\ fromAddr \in {"none", "sender"}
  /\ toAddrs \in 0 .. MaxNumRecipients
  /\ mailBody \in 0 .. MaxMails
  /\ chatter \in BOOLEAN
  /\ forwarded \in Seq(1 .. MaxMails) /\ Len(forwarded) <= 1
  /\ txn \subseteq Verb
  /\ owed \in 0 .. 1

Init ==
  /\ pc = "top"
  /\ gone = FALSE /\ locked = FALSE /\ answered = FALSE /\ TLSAttempted = FALSE /\ odd = FALSE
  /\ stage = "Greeting" /\ expectNextStage = "Greeting" /\ verb = "none"
  /\ unrecognised = 0 /\ numCommands = 0 /\ chatter = FALSE
  /\ fromAddr = "none" /\ toAddrs = 0 /\ mailBody = 0
  /\ forwarded = <<>>
  /\ txn = {} /\ owed = 0

-----------------------------------------------------------------------------
(* stageExpectations: where a verb is valid, and where it leads.           *)
ValidInStages(v) ==
  CASE v \in {"HELO", "EHLO"} -> {"AfterGreeting", "Hello"}
    [] v = "MAILFROM" -> {"Hello"}
    [] v = "RCPTTO" -> {"MailAddress", "Recipient"}
    [] v = "DATA" -> {"Recipient"}

NextStage(v) ==
  CASE v \in {"HELO", "EHLO"} -> "Hello"
    [] v = "MAILFROM" -> "MailAddress"
    [] v = "RCPTTO" -> "Recipient"
    [] v = "DATA" -> "MessageData"

(* The stages conn.reply may leave: an aborted conversation is not replied *)
(* to, and a write may fail once the client has left.                      *)
AfterReply(s) == IF gone /\ s # "Abort" THEN {s, "Abort"} ELSE {s}

(* A command that CarryOn deals with by itself: the reply, and back to the *)
(* top of its loop, with the stage the command leads to.  The handler does *)
(* not see it, and numCommands does not count it.                          *)
Chat(s) ==
  /\ pc = "command"
  /\ stage \notin {"Abort", "Quit"}
  /\ unrecognised < MaxUnrecognised
  /\ chatter' = ~chatter
  /\ stage' \in AfterReply(s)
  /\ UNCHANGED <<mailVars, pc, gone, locked, expectNextStage, verb, answered, numCommands,
                 forwarded, owed, odd>>

(* A verb the server does not know.                                        *)
UnknownVerb ==
  /\ Chat(stage)
  /\ unrecognised' = unrecognised + 1
  /\ UNCHANGED <<TLSAttempted, txn>>

(* NOOP, VRFY, a malformed address, a STARTTLS that is not on offer, and a *)
(* verb out of sequence: a reply and nothing else.                         *)
ReplyOnly ==
  /\ Chat(stage)
  /\ UNCHANGED <<unrecognised, TLSAttempted, txn>>

RSET ==
  /\ \E s \in {stage, "Abort"} : Chat(IF s = "AfterGreeting" THEN s ELSE "Hello")
  /\ txn' = {}
  /\ UNCHANGED <<unrecognised, TLSAttempted>>

(* readCommand reached MaxCommandLength, as it does when a client has sent *)
(* that much ahead, and aborted; it returns the command all the same.      *)
(* CarryOn goes by the stage, now "Abort": no verb is valid and no reply   *)
(* is sent.  RSET and QUIT set the stage and so undo the abort.            *)
LimitReached ==
  /\ Chat("Abort")
  /\ unrecognised' \in {unrecognised, unrecognised + 1}
  /\ UNCHANGED <<TLSAttempted, txn>>

(* QUIT, with the handler's reaction left to EndOfCarryOn.                 *)
QUIT ==
  /\ Chat("Quit")
  /\ UNCHANGED <<unrecognised, TLSAttempted, txn>>

(* STARTTLS starts the conversation over, or ends it.                      *)
STARTTLS(handshake) ==
  /\ HasTLS /\ ~TLSAttempted
  /\ handshake => ~gone
  /\ Chat(IF handshake THEN "AfterGreeting" ELSE "Abort")
  /\ TLSAttempted' = handshake
  /\ txn' = {}
  /\ UNCHANGED unrecognised

-----------------------------------------------------------------------------
(* The end of a connection.                                                *)

(* done: forward the mail received last if all of it is there.  Otherwise  *)
(* AnswerNegative.                                                         *)
Done(from, to) ==
  /\ pc' = "closed"
  /\ forwarded' = IF from # "none" /\ to > 0 /\ mailBody # 0 THEN Append(forwarded, mailBody) ELSE forwarded
  /\ owed' = 0

(* The client leaves.                                                      *)
ClientLeaves ==
  /\ pc # "closed"
  /\ ~gone
  /\ gone' = TRUE
  /\ UNCHANGED <<connVars, mailVars, pc, locked, numCommands, chatter, forwarded, txn, owed, odd>>

TriggerEmergencyLockDown ==
  /\ ~locked
  /\ locked' = TRUE
  /\ UNCHANGED <<connVars, mailVars, pc, gone, numCommands, chatter, forwarded, txn, owed, odd>>

(* The handler finds the lock-down and returns: no mail is forwarded.      *)
LockedDown ==
  /\ pc = "top"
  /\ locked
  /\ pc' = "closed"
  /\ owed' = 0
  /\ UNCHANGED <<connVars, mailVars, gone, locked, numCommands, chatter, forwarded, txn, odd>>

(* The conversation is too long: AnswerRateLimited, and done.              *)
TooLong ==
  /\ pc = "top"
  /\ ~locked
  /\ numCommands >= MaxConversationLength
  /\ stage' = "Abort"
  /\ answered' = TRUE
  /\ Done(fromAddr, toAddrs)
  /\ UNCHANGED <<mailVars, gone, locked, expectNextStage, verb, unrecognised, TLSAttempted,
                 numCommands, chatter, txn, odd>>

-----------------------------------------------------------------------------
(* The verbs acknowledged once answerOK has acknowledged v.                *)
Acknowledge(v) ==
  CASE v \in {"HELO", "EHLO"} -> {}
    [] v = "MAILFROM" -> {v}
    [] v = "RCPTTO" -> txn \cup {v}
    [] v = "DATA" -> IF stage = "Recipient" THEN txn \cup {v} ELSE {}

(* The handler calls CarryOn.  It begins with answerOK, if the last        *)
(* command has not been answered, which moves on to the expected stage     *)
(* even when the reply failed; then comes the greeting, the mail data or   *)
(* the next command.                                                       *)
CallCarryOn ==
  LET answering == ~answered /\ verb # "none"
      begun == IF answering THEN expectNextStage ELSE stage
  IN /\ pc = "top"
     /\ ~locked
     /\ numCommands < MaxConversationLength
     /\ numCommands' = numCommands + 1
     /\ stage' = IF begun = "Greeting" THEN "AfterGreeting" ELSE begun
     /\ pc' = IF begun = "MessageData" THEN "data" ELSE "command"
     /\ answered' = (answered \/ answering)
     /\ owed' = IF answering THEN 0 ELSE owed
     /\ txn' = IF answering THEN Acknowledge(verb) ELSE txn
     /\ UNCHANGED <<mailVars, gone, locked, expectNextStage, verb, unrecognised, TLSAttempted,
                    chatter, forwarded, odd>>

(* readMailData has a mail: it is returned to the handler.                 *)
ReceiveMail ==
  /\ pc = "data"
  /\ mailBody < MaxMails
  /\ mailBody' = mailBody + 1
  /\ answered' = FALSE
  /\ stage' = "AfterMessageData"
  /\ expectNextStage' = "Hello"
  /\ owed' = owed + 1
  /\ pc' = "top"
  /\ UNCHANGED <<gone, locked, verb, unrecognised, TLSAttempted, numCommands, fromAddr, toAddrs,
                 chatter, forwarded, txn, odd>>

(* readMailData has nothing: an error aborts, an empty mail goes           *)
(* unanswered and the stage stays.                                         *)
ReceiveNoMail ==
  /\ pc = "data"
  /\ stage' \in {"Abort", stage}
  /\ pc' = "command"
  /\ UNCHANGED <<mailVars, gone, locked, expectNextStage, verb, answered, unrecognised, TLSAttempted,
                 numCommands, chatter, forwarded, txn, owed, odd>>

(* A command in sequence: CarryOn returns it to the handler.               *)
Command(v) ==
  /\ pc = "command"
  /\ unrecognised < MaxUnrecognised
  /\ stage \in ValidInStages(v)
  /\ expectNextStage' = NextStage(v)
  /\ answered' = FALSE
  /\ verb' = v
  /\ UNCHANGED <<gone, locked, stage, unrecognised, TLSAttempted, numCommands, chatter, txn>>

HelloOrData(v) ==
  /\ Command(v)
  /\ pc' = "top"
  /\ owed' = owed + 1
  /\ UNCHANGED <<mailVars, forwarded, odd>>

(* MAIL FROM, of a sender or of "<>".                                      *)
MailFrom(addr) ==
  /\ Command("MAILFROM")
  /\ fromAddr' = addr
  /\ odd' = (odd \/ addr = "none")
  /\ pc' = "top"
  /\ owed' = owed + 1
  /\ UNCHANGED <<toAddrs, mailBody, forwarded>>

(* RCPT TO one of the server's domains.                                    *)
RecipientAccepted ==
  /\ Command("RCPTTO")
  /\ toAddrs' = IF toAddrs < MaxNumRecipients THEN toAddrs + 1 ELSE toAddrs
  /\ pc' = "top"
  /\ owed' = owed + 1
  /\ UNCHANGED <<fromAddr, mailBody, forwarded, odd>>

(* RCPT TO a name without a domain: acknowledged and not remembered.       *)
RecipientWithoutDomain ==
  /\ Command("RCPTTO")
  /\ odd' = TRUE
  /\ pc' = "top"
  /\ owed' = owed + 1
  /\ UNCHANGED <<mailVars, forwarded>>

(* RCPT TO another domain: a negative answer, and done.                    *)
RecipientRejected ==
  /\ Command("RCPTTO")
  /\ Done(fromAddr, toAddrs)
  /\ UNCHANGED <<mailVars, odd>>

(* readCommand has an empty line, or fails and aborts: CarryOn returns     *)
(* without a command, and the handler calls it again.                      *)
ReadNothing ==
  /\ pc = "command"
  /\ stage \notin {"Abort", "Quit"}
  /\ unrecognised < MaxUnrecognised
  /\ stage' \in {"Abort", stage}
  /\ pc' = "top"
  /\ UNCHANGED <<mailVars, gone, locked, expectNextStage, verb, answered, unrecognised, TLSAttempted,
                 numCommands, chatter, forwarded, txn, owed, odd>>

(* Mutant of EndOfCarryOn: the handler returns when the conversation has   *)
(* been aborted.                                                           *)
EndOfCarryOnReturns ==
  /\ pc = "command"
  /\ stage \in {"Abort", "Quit"} \/ unrecognised >= MaxUnrecognised
  /\ IF stage = "Quit"
     THEN Done(fromAddr, toAddrs)
     ELSE pc' = "closed" /\ UNCHANGED <<forwarded, owed>>
  /\ UNCHANGED <<connVars, mailVars, gone, locked, numCommands, chatter, txn, odd>>

(* Mutant of EndOfCarryOn: the loop of CarryOn does not end on an abort.   *)
EndOfCarryOnGoesOn ==
  /\ pc = "command"
  /\ stage \in {"Abort", "Quit"} \/ unrecognised >= MaxUnrecognised
  /\ IF stage = "Quit"
     THEN Done(fromAddr, toAddrs)
     ELSE UNCHANGED <<pc, forwarded, owed>>
  /\ UNCHANGED <<connVars, mailVars, gone, locked, numCommands, chatter, txn, odd>>

(* The loop of CarryOn ends.  Only a QUIT is reported as the end of the    *)
(* conversation: after an abort the handler calls CarryOn over and over,   *)
(* until the conversation is too long.                                     *)
EndOfCarryOn ==
  /\ pc = "command"
  /\ stage \in {"Abort", "Quit"} \/ unrecognised >= MaxUnrecognised
  /\ IF stage = "Quit"
     THEN Done(fromAddr, toAddrs)
     ELSE pc' = "top" /\ UNCHANGED <<forwarded, owed>>
  /\ UNCHANGED <<connVars, mailVars, gone, locked, numCommands, chatter, txn, odd>>

ServerStep ==
  \/ LockedDown
  \/ TooLong
  \/ CallCarryOn
  \/ EndOfCarryOn
  \/ ReceiveMail
  \/ ReceiveNoMail
  \/ UnknownVerb
  \/ ReplyOnly
  \/ RSET
  \/ LimitReached
  \/ QUIT
  \/ \E ok \in BOOLEAN : STARTTLS(ok)
  \/ \E v \in {"HELO", "EHLO", "DATA"} : HelloOrData(v)
  \/ \E addr \in {"none", "sender"} : MailFrom(addr)
  \/ RecipientAccepted
  \/ RecipientWithoutDomain
  \/ RecipientRejected
  \/ ReadNothing

Next == ServerStep \/ ClientLeaves \/ TriggerEmergencyLockDown

(* Every read ends within the IO timeout, with what the client sent or     *)
(* with an error.                                                          *)
Spec == Init /\ [][Next]_vars /\ WF_vars(ServerStep)

-----------------------------------------------------------------------------
(* The server does not wait for a client that waits for the server: when   *)
(* CarryOn reads, every command and every mail before has been replied to  *)
(* (an empty mail apart, see ReceiveNoMail).                               *)
RepliesBeforeReading == pc \in {"command", "data"} => owed = 0

(* Mail data is read only in a mail of which a sender and a recipient have *)
(* been acknowledged, through every RSET, STARTTLS and failed reply on the *)
(* way.                                                                    *)
DataAfterEnvelope == pc = "data" => {"MAILFROM", "RCPTTO", "DATA"} \subseteq txn

(* The mail received last is forwarded however the connection ends: by     *)
(* QUIT, a lost client, a rejected recipient of the next mail, too many    *)
(* commands.  Exempt are a lock-down, and a client that named no sender or *)
(* no domain.                                                              *)
LastMailForwarded ==
  pc = "closed" /\ mailBody # 0 /\ ~locked /\ ~odd => forwarded = <<mailBody>>

(* The conversation is in order at every moment (CarryOn, answerOK, reply, *)
(* HandleTCPConnection): neither side waits for the other, mail data       *)
(* belongs to an envelope, and the mail received last is not lost.         *)
ConversationInOrder ==
  TypeOK /\ RepliesBeforeReading /\ DataAfterEnvelope /\ LastMailForwarded

(* A conversation comes to an end, be it aborted, which CarryOn does not   *)
(* report to the handler, or at the limit of MaxConversationLength, unless *)
(* the client goes on for ever, before every deadline, with commands that  *)
(* CarryOn answers by itself (NOOP, RSET, VRFY, malformed or out of        *)
(* sequence): HandleTCPConnection counts the calls of CarryOn and not the  *)
(* exchanges, so that no limit ends such a conversation.                   *)
ConversationEnds == (<>[]chatter \/ <>[]~chatter) => <>(pc = "closed")
=============================================================================
