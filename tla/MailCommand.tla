----------------------------- MODULE MailCommand -----------------------------
(***************************************************************************)
(* App commands by mail (smtpd/mailcmd) together with the outgoing mail    *)
(* (inet/mail_client.go) that carries the replies.  A mail that reaches    *)
(* this server is walked part by part until a part has a command; the      *)
(* reply is delivered by a goroutine that tries again and again.  The      *)
(* recipient may be a mailbox of this very server, so that replies come    *)
(* back to the command runner.                                             *)
(*                                                                         *)
(* The outcome of a part is decided by what the part is: "plain" has no    *)
(* credential, "command" is run, "failing" is run and ends with an error.  *)
(***************************************************************************)
EXTENDS Naturals, Sequences, FiniteSets

CONSTANTS
  Mails,            \* numbers of mails: those that people write and the replies
  Written,          \* bound of the model: the mails of people, first of Mails
  Bodies,           \* sequences of parts
  MaxAttempts,      \* attempts to deliver a mail (12)
  MaxOutstanding    \* MaxOutstandingMailSize, in mails; every mail has size 1

VARIABLES
  mail,             \* mail -> its content
  inbox,            \* mail -> copies that reached this server and are not handled
  walk,             \* mail -> the part the command runner is at, 0 if at none
  out,              \* mail -> its delivery goroutine
  outstanding       \* misc.OutstandingMailBytes

mcVars == <<mail, inbox, walk, out, outstanding>>

NoMail == [gen |-> 0, own |-> FALSE, parts |-> <<>>]
NotSending == [st |-> "none", tries |-> 0]

MCInit ==
  /\ mail = [m \in Mails |-> NoMail]
  /\ inbox = [m \in Mails |-> 0]
  /\ walk = [m \in Mails |-> 0]
  /\ out = [m \in Mails |-> NotSending]
  /\ outstanding = 0

(* Mails are numbered in the order they come to exist.                     *)
Unused(m) == mail[m] = NoMail /\ \A k \in Mails : k < m => mail[k] # NoMail

(* Somebody's mail has been received by the SMTP daemon, which forwards it *)
(* with SendRaw and hands it to the command runner.  Its subject may well  *)
(* have the program's keyword.                                             *)
MailArrives(m) ==
  /\ m <= Written /\ Unused(m)
  /\ \E own \in BOOLEAN, parts \in Bodies :
       mail' = [mail EXCEPT ![m] = [gen |-> 1, own |-> own, parts |-> parts]]
  /\ inbox' = [inbox EXCEPT ![m] = 1]
  /\ out' = [out EXCEPT ![m].st = "begin"]
  /\ UNCHANGED <<walk, outstanding>>

(* CommandRunner.Process begins, unless the program is locked down.        *)
ProcessMail(m) ==
  /\ inbox[m] > 0 /\ walk[m] = 0
  /\ inbox' = [inbox EXCEPT ![m] = @ - 1]
  /\ \/ UNCHANGED walk
     \/ walk' = [walk EXCEPT ![m] = 1]
  /\ UNCHANGED <<mail, out, outstanding>>

(* MailClient.Send: a goroutine is started for the reply.  Its subject has *)
(* the program's keyword.  Its text is whatever the app said: it may look  *)
(* like a command again.                                                   *)
SendReply(m) ==
  \/ \E new \in Mails, parts \in {b \in Bodies : Len(b) = 1} :
       /\ Unused(new)
       /\ mail' = [mail EXCEPT ![new] = [gen |-> mail[m].gen + 1, own |-> TRUE, parts |-> parts]]
       /\ out' = [out EXCEPT ![new] = [st |-> "begin", tries |-> 0]]
  \/ /\ \A new \in Mails : mail[new] # NoMail     \* bound of the model
     /\ UNCHANGED <<mail, out>>

(* CommandRunner.Process on one part; next tells whether the walk goes on: *)
(* mail of the program itself is not processed; a part without credential  *)
(* leads to the next part; an error ends the walk without a reply.  A      *)
(* result goes to one of the alternative channels or is sent by mail, if   *)
(* mail is configured.                                                     *)
ProcessIgnoringSubject(m, next) ==
  LET part == mail[m].parts[walk[m]] IN
  /\ next = (part = "plain")
  /\ IF part = "command" THEN SendReply(m) ELSE UNCHANGED <<mail, out>>

ProcessPart(m, next) ==
  LET part == mail[m].parts[walk[m]] IN
  \/ mail[m].own /\ ~next /\ UNCHANGED <<mail, out>>
  \/ ~mail[m].own /\ part = "plain" /\ next /\ UNCHANGED <<mail, out>>
  \/ /\ ~mail[m].own /\ part # "plain" /\ ~next
     /\ \/ UNCHANGED <<mail, out>>            \* an error, or another channel
        \/ part = "command" /\ SendReply(m)

(* WalkMailMessage reads the next part, which may fail and end the walk,   *)
(* and lets Process decide whether to go on.                               *)
WalkMailMessage(m) ==
  /\ walk[m] > 0
  /\ \/ walk' = [walk EXCEPT ![m] = 0] /\ UNCHANGED <<mail, out>>
     \/ \E next \in BOOLEAN :
          /\ ProcessPart(m, next)
          /\ walk' = [walk EXCEPT ![m] = IF next /\ @ < Len(mail[m].parts) THEN @ + 1 ELSE 0]
  /\ UNCHANGED <<inbox, outstanding>>

-----------------------------------------------------------------------------
(* sendMailWithRetry.                                                      *)
BeginSending(m) ==
  /\ out[m].st = "begin"
  /\ out' = [out EXCEPT ![m].st = "try"]
  /\ outstanding' = outstanding + 1
  /\ UNCHANGED <<mail, inbox, walk>>

(* dialMTA tries TLS first and a plain connection next.                    *)
DialMTA == {"TLS", "plain", "unreachable"}
(* sendMail fails before the mail is taken, or after it (the last reply    *)
(* may be lost), or not at all.                                            *)
SendMail(link) ==
  IF link = "unreachable" THEN {"failed"} ELSE {"failed", "taken", "delivered"}

Attempt(m) ==
  /\ out[m].st = "try"
  /\ \E link \in DialMTA : \E outcome \in SendMail(link), local \in BOOLEAN :
       /\ inbox' = IF outcome # "failed" /\ local /\ mail[m].gen > 1
                   THEN [inbox EXCEPT ![m] = @ + 1] ELSE inbox
       /\ out' = [out EXCEPT ![m] =
                    IF outcome = "delivered" THEN [@ EXCEPT !.st = "return"]
                    ELSE [st |-> "failed", tries |-> @.tries + 1]]
  /\ UNCHANGED <<mail, walk, outstanding>>

DropWithoutCounting(m) ==
  /\ out[m].st = "failed"
  /\ out' = [out EXCEPT ![m].st = IF outstanding > MaxOutstanding THEN "none"
                                  ELSE IF out[m].tries = MaxAttempts THEN "return" ELSE "sleep"]
  /\ UNCHANGED <<mail, inbox, walk, outstanding>>

(* A failed attempt: the mail is given up while too much is outstanding,   *)
(* and after the last attempt.                                             *)
AfterFailure(m) ==
  /\ out[m].st = "failed"
  /\ out' = [out EXCEPT ![m].st =
               IF outstanding > MaxOutstanding \/ out[m].tries = MaxAttempts
               THEN "return" ELSE "sleep"]
  /\ UNCHANGED <<mail, inbox, walk, outstanding>>

Retry(m) ==
  /\ out[m].st = "sleep"
  /\ out' = [out EXCEPT ![m].st = "try"]
  /\ UNCHANGED <<mail, inbox, walk, outstanding>>

(* The deferred end of sendMailWithRetry.                                  *)
EndSending(m) ==
  /\ out[m].st = "return"
  /\ out' = [out EXCEPT ![m] = NotSending]
  /\ outstanding' = outstanding - 1
  /\ UNCHANGED <<mail, inbox, walk>>

MCStep(m) ==
  \/ ProcessMail(m) \/ WalkMailMessage(m) \/ BeginSending(m) \/ Attempt(m)
  \/ AfterFailure(m) \/ Retry(m) \/ EndSending(m)

MCNext == \E m \in Mails : MailArrives(m) \/ MCStep(m)

MCSpec == MCInit /\ [][MCNext]_mcVars

(* Goroutines are scheduled, and network operations have time limits.      *)
MCFairness == \A m \in Mails : WF_mcVars(MCStep(m))

-----------------------------------------------------------------------------
(* A reply is never replied to, also when the program's mail comes back to *)
(* itself with a text that reads like a command (the subject keyword in    *)
(* CommandRunner.Process).                                                 *)
NoMailLoop == \A m \in Mails : mail[m].gen <= 2

(* The bytes counted as outstanding come down to zero once no more mail    *)
(* arrives: every delivery ends, and every way to end it is accounted for  *)
(* (sendMailWithRetry).  If they did not, all later mail would be dropped  *)
(* after one failed attempt.                                               *)
OutstandingDrains == <>[](outstanding = 0 /\ \A m \in Mails : out[m] = NotSending)
==============================================================================
