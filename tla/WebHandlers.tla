----------------------------- MODULE WebHandlers -----------------------------
(***************************************************************************)
(* The web server (daemon/httpd): the middleware every request goes        *)
(* through, and the handlers that keep state or act in the background:     *)
(* Twilio text messages and calls, the Microsoft bot with its token, file  *)
(* upload with its clean-up routine, The Things Network, the command form, *)
(* and the two that send mail.  Every request has its own goroutine.       *)
(***************************************************************************)
EXTENDS Integers, FiniteSets

CONSTANTS
  Requests,         \* requests that may be under way at the same time
  Senders,          \* phone numbers and conversations, and "none"
  Installations,    \* the sets of handlers a configuration may install
  SenderInterval,   \* seconds in which a sender may send once
  TokenLife,        \* ExpiresIn - 1
  WHMaxTime         \* bound of the model: the clock stops here

ASSUME WHAssumption == 0 \notin Requests /\ TokenLife \in Nat

VARIABLES
  installed,        \* HandlerCollection
  serving,          \* serverNoTLS, serverWithTLS: the listeners that serve
  request,          \* request -> its route, sender and progress
  whLocked,         \* misc.EmergencyLockDown
  spent,            \* senderRateLimit, conversationRateLimit: route -> who sent in the interval
  lastReset,        \* route -> when the limit was last reset
  jwt,              \* latestJWT: the time it expires, 0 when there is none
  jwtLock,          \* latestJwtMutex: the request that holds it, or 0
  files,            \* uploaded files: when they were written
  cleaner,          \* the clean-up routine: not started, waiting, or just done
  whTime

whVars == <<installed, serving, request, whLocked, spent, lastReset, jwt, jwtLock, files, cleaner, whTime>>
configVars == <<installed, serving>>
limitVars == <<spent, lastReset>>
jwtVars == <<jwt, jwtLock>>

Limited == {"sms", "call", "callback", "bot"}
NoRequest == [route |-> "none", sender |-> "none", pc |-> "none"]

WHInit ==
  /\ installed \in Installations /\ serving = {}
  /\ request = [r \in Requests |-> NoRequest]
  /\ whLocked = FALSE
  /\ spent = [k \in Limited |-> {}] /\ lastReset = [k \in Limited |-> 0]
  /\ jwt = 0 /\ jwtLock = 0
  /\ files = {} /\ cleaner = "none"
  /\ whTime = 1

Proceed(r, pc) ==
  IF pc = "none" THEN request' = [request EXCEPT ![r] = NoRequest]
                 ELSE request' = [request EXCEPT ![r].pc = pc]

(* A server is made anew by every start, and closed by Shutdown; a start   *)
(* fails when the certificate, the port or the environment is not good.    *)
StartAndBlockNoTLS == serving' = serving \union {"plain"}
StartAndBlockWithTLS == serving' = serving \union {"tls"}
StopNoTLS == serving' = serving \ {"plain"}
StopTLS == serving' = serving \ {"tls"}
StartOrStop ==
  /\ \/ StartAndBlockNoTLS \/ StartAndBlockWithTLS \/ StopNoTLS \/ StopTLS
  /\ UNCHANGED <<installed, request, whLocked, limitVars, jwtVars, files, cleaner, whTime>>

(* Middleware: nothing is done under lock-down, or for a client over its   *)
(* limit (the limit per address is not modelled: it may refuse anyone).    *)
Middleware(r) ==
  /\ request[r] = NoRequest
  /\ serving # {} /\ ~whLocked
  /\ \E route \in installed, sender \in Senders :
       request' = [request EXCEPT ![r] = [route |-> route, sender |-> sender, pc |-> "handle"]]
  /\ UNCHANGED <<configVars, whLocked, limitVars, jwtVars, files, cleaner, whTime>>

(* AddSender of the limit per sender: once per interval.                   *)
Due(k) == whTime - lastReset[k] >= SenderInterval
SentInInterval(k) == IF Due(k) THEN {} ELSE spent[k]
AddSender(k, s) ==
  /\ spent' = [spent EXCEPT ![k] = SentInInterval(k) \union {s}]
  /\ lastReset' = [lastReset EXCEPT ![k] = IF Due(k) THEN whTime ELSE @]
MaySend(k, s) == s \notin SentInInterval(k)

(* A request without a number is not limited; a sender over the limit gets *)
(* an error, a rejection or a message, and nothing is done.                *)
HandleLimited(r, next) ==
  LET k == request[r].route
      s == request[r].sender IN
  \/ /\ s = "none" /\ Proceed(r, next) /\ UNCHANGED limitVars
  \/ /\ s # "none" /\ AddSender(k, s)
     /\ Proceed(r, IF MaySend(k, s) THEN next ELSE "none")
HandleTwilioSMSHook(r) ==
  /\ request[r].route = "sms" /\ request[r].pc = "handle"
  /\ HandleLimited(r, "process")
  /\ UNCHANGED <<configVars, whLocked, jwtVars, files, cleaner, whTime>>
(* The greeting asks for digits, which go to the callback.                 *)
HandleTwilioCallHook(r) ==
  /\ request[r].route = "call" /\ request[r].pc = "handle"
  /\ HandleLimited(r, "none")
  /\ UNCHANGED <<configVars, whLocked, jwtVars, files, cleaner, whTime>>
HandleTwilioCallCallback(r) ==
  /\ request[r].route = "callback" /\ request[r].pc = "handle"
  /\ HandleLimited(r, "process")
  /\ UNCHANGED <<configVars, whLocked, jwtVars, files, cleaner, whTime>>
(* The form: the page alone, or a command.                                 *)
HandleCommandForm(r) ==
  /\ request[r].route = "form" /\ request[r].pc = "handle"
  /\ \E pc \in {"none", "process"} : Proceed(r, pc)
  /\ UNCHANGED <<configVars, whLocked, limitVars, jwtVars, files, cleaner, whTime>>
(* An uplink message: refused, stored as a report, or stored with its      *)
(* command executed; the result goes back in a request of its own.         *)
HandleTheThingsNetwork(r) ==
  /\ request[r].route = "ttn" /\ request[r].pc = "handle"
  /\ \E pc \in {"none", "process"} : Proceed(r, pc)
  /\ UNCHANGED <<configVars, whLocked, limitVars, jwtVars, files, cleaner, whTime>>
(* A mail to the owner, or a file of a project with a notification sent    *)
(* behind its back.                                                        *)
HandleMailing(r) ==
  /\ request[r].route = "mail" /\ request[r].pc = "handle"
  /\ \E pc \in {"none", "reply"} : Proceed(r, pc)
  /\ UNCHANGED <<configVars, whLocked, limitVars, jwtVars, files, cleaner, whTime>>

(* The bot, whose request was answered at once: a conversation without a   *)
(* name, over its limit or without words is dropped.                       *)
HandleMicrosoftBot(r) ==
  /\ request[r].route = "bot" /\ request[r].pc = "handle"
  /\ LET s == request[r].sender IN
     \/ s = "none" /\ Proceed(r, "none") /\ UNCHANGED limitVars
     \/ /\ s # "none" /\ AddSender("bot", s)
        /\ \/ ~MaySend("bot", s) /\ Proceed(r, "none")
           \/ MaySend("bot", s) /\ \E pc \in {"none", "token"} : Proceed(r, pc)
  /\ UNCHANGED <<configVars, whLocked, jwtVars, files, cleaner, whTime>>
(* RetrieveJWT: the token is looked at and renewed under the mutex.        *)
Valid == jwt # 0 /\ whTime < jwt
LookWithoutLocking(r) ==
  /\ request[r].pc = "token"
  /\ Proceed(r, IF Valid THEN "message" ELSE "renew")
  /\ UNCHANGED <<configVars, whLocked, limitVars, jwtVars, files, cleaner, whTime>>
RetrieveJWT(r) ==
  /\ request[r].pc = "token" /\ jwtLock = 0
  /\ \/ Valid /\ Proceed(r, "message") /\ UNCHANGED jwtVars
     \/ ~Valid /\ jwtLock' = r /\ Proceed(r, "renew") /\ UNCHANGED jwt
  /\ UNCHANGED <<configVars, whLocked, limitVars, files, cleaner, whTime>>
RenewJWT(r) ==
  /\ request[r].pc = "renew"
  /\ jwtLock' = 0
  /\ \/ jwt' = whTime + TokenLife /\ Proceed(r, "message")
     \/ UNCHANGED jwt /\ Proceed(r, "none")
  /\ UNCHANGED <<configVars, whLocked, limitVars, files, cleaner, whTime>>
(* A message without a time, or from before the start of the program, is   *)
(* dropped.                                                                *)
CheckMessageTime(r) ==
  /\ request[r].pc = "message"
  /\ \E pc \in {"none", "process"} : Proceed(r, pc)
  /\ UNCHANGED <<configVars, whLocked, limitVars, jwtVars, files, cleaner, whTime>>

(* The command, and the answer: in the response, or in a request that the  *)
(* bot receives, and the network if the command had more than ten letters. *)
ProcessCommand(r) ==
  /\ request[r].pc = "process"
  /\ \/ request[r].route \in {"bot", "ttn"} /\ Proceed(r, "reply")
     \/ request[r].route # "bot" /\ Proceed(r, "none")
  /\ UNCHANGED <<configVars, whLocked, limitVars, jwtVars, files, cleaner, whTime>>
SendAnswer(r) ==
  /\ request[r].pc = "reply"
  /\ Proceed(r, "none")
  /\ UNCHANGED <<configVars, whLocked, limitVars, jwtVars, files, cleaner, whTime>>

(* File upload: the first request starts the clean-up routine.  A file is  *)
(* stored under a new name, or looked up, or the page is shown.            *)
HandleFileUpload(r) ==
  /\ request[r].route = "upload" /\ request[r].pc = "handle"
  /\ cleaner' = IF cleaner = "none" THEN "waiting" ELSE cleaner
  /\ \/ files' = files \union {whTime}
     \/ UNCHANGED files
  /\ Proceed(r, "none")
  /\ UNCHANGED <<configVars, whLocked, limitVars, jwtVars, whTime>>

(* The clean-up routine finds the expired files.  What os.Remove is given  *)
(* is the name without its directory, and the working directory has no     *)
(* such file: all of them stay.                                            *)
DeleteExpiredFiles ==
  /\ cleaner = "waiting"
  /\ cleaner' = "done"
  /\ UNCHANGED <<configVars, request, whLocked, limitVars, jwtVars, files, whTime>>
CleanerSleeps ==
  /\ cleaner = "done"
  /\ cleaner' = "waiting"
  /\ UNCHANGED <<configVars, request, whLocked, limitVars, jwtVars, files, whTime>>

WHLockDown ==
  /\ ~whLocked
  /\ whLocked' = TRUE
  /\ UNCHANGED <<configVars, request, limitVars, jwtVars, files, cleaner, whTime>>
WHTick ==
  /\ whTime < WHMaxTime
  /\ cleaner # "done"
  /\ whTime' = whTime + 1
  /\ UNCHANGED <<configVars, request, whLocked, limitVars, jwtVars, files, cleaner>>

WHStep(r) ==
  \/ Middleware(r)
  \/ HandleTwilioSMSHook(r) \/ HandleTwilioCallHook(r) \/ HandleTwilioCallCallback(r)
  \/ HandleCommandForm(r) \/ HandleTheThingsNetwork(r) \/ HandleMailing(r)
  \/ HandleMicrosoftBot(r) \/ RetrieveJWT(r) \/ RenewJWT(r) \/ CheckMessageTime(r)
  \/ ProcessCommand(r) \/ SendAnswer(r) \/ HandleFileUpload(r)
WHNext ==
  \/ \E r \in Requests : WHStep(r)
  \/ StartOrStop \/ DeleteExpiredFiles \/ CleanerSleeps \/ WHLockDown \/ WHTick

WHSpec == WHInit /\ [][WHNext]_whVars

-----------------------------------------------------------------------------
(* A conversation asks the platform for a token only while there is no     *)
(* good one, however many conversations find that it has run out at the    *)
(* same time and however long the platform takes to answer (RetrieveJWT).  *)
RenewedWhenExpired == \A r \in Requests : request[r].pc = "renew" => ~Valid
===============================================================================
