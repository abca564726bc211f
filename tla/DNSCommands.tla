----------------------------- MODULE DNSCommands -----------------------------
(***************************************************************************)
(* App commands in DNS text queries (daemon/dnsd): the name is decoded     *)
(* into a command, and LatestCommands spares the repeated execution for a  *)
(* resolver that asks again before the answer is there.  Many handlers run *)
(* at the same time; the map is guarded by a mutex, purgeAfterTTL is not.  *)
(***************************************************************************)
EXTENDS Integers

CONSTANTS
  Handlers,         \* goroutines that handle a text query each
  Commands,         \* decoded commands; "none" for a query without one
  TTL,              \* TextCommandReplyTTL
  DCMaxTime         \* bound of the model: the clock stops here

ASSUME DCAssumption == TTL \in Nat

VARIABLES
  handler,          \* handler -> its query
  latest,           \* latestResult: command -> absent, ongoing or a result
  lastPurge,
  torn,             \* history: handlers whose result was found between the two writes of a purge
  dcTime            \* the clock, in seconds

dcVars == <<handler, latest, lastPurge, torn, dcTime>>

Absent == [st |-> "absent", at |-> 0]
Ongoing == [st |-> "ongoing", at |-> 0]
Result(t) == [st |-> "result", at |-> t]
NoHandler == [pc |-> "idle", cmd |-> "none", since |-> 0, at |-> 0]

DCInit ==
  /\ handler = [h \in Handlers |-> NoHandler]
  /\ latest = [c \in Commands \ {"none"} |-> Absent]
  /\ lastPurge = 0 /\ torn = {} /\ dcTime = 0

(* A text query: what DecodeDTMFCommandInput makes of its name.  Without a *)
(* command it goes to the recursive resolver.                              *)
HandleTextQuery(h, c) ==
  /\ handler[h].pc = "idle"
  /\ handler' = [handler EXCEPT ![h] =
                   [NoHandler EXCEPT !.pc = IF c = "none" THEN "recurse" ELSE "execute",
                                     !.cmd = c]]
  /\ UNCHANGED <<latest, lastPurge, torn, dcTime>>

PurgeDueTwice == dcTime - lastPurge > 2 * TTL
(* purgeAfterTTL.  Its comment says that the caller locks the mutex, and   *)
(* its only caller does not: two handlers may both find the purge due, and *)
(* others come between the write of lastPurge and the new map.             *)
PurgeDue == dcTime - lastPurge > TTL
PurgeAfterTTL(h) ==
  /\ handler[h].pc = "execute"
  /\ \/ PurgeDue /\ handler' = [handler EXCEPT ![h].pc = "due", ![h].since = dcTime]
     \/ ~PurgeDue /\ handler' = [handler EXCEPT ![h].pc = "get", ![h].since = dcTime]
  /\ UNCHANGED <<latest, lastPurge, torn, dcTime>>
BeginPurge(h) ==
  /\ handler[h].pc = "due"
  /\ handler' = [handler EXCEPT ![h].pc = "purge"]
  /\ lastPurge' = dcTime
  /\ UNCHANGED <<latest, torn, dcTime>>
EndPurge(h) ==
  /\ handler[h].pc = "purge"
  /\ handler' = [handler EXCEPT ![h].pc = "get"]
  /\ latest' = [c \in DOMAIN latest |-> Absent]
  /\ UNCHANGED <<lastPurge, torn, dcTime>>
Purging == \E h \in Handlers : handler[h].pc = "purge"

(* The first get, and the gets of the loop that waits 200 ms each.         *)
Get(h) ==
  LET found == latest[handler[h].cmd] IN
  /\ handler[h].pc \in {"get", "wait"}
  /\ \/ /\ found = Absent
        /\ handler' = [handler EXCEPT ![h].pc = "mark"]
        /\ torn' = torn \ {h}
     \/ /\ found = Ongoing /\ handler[h].pc = "get"
        /\ handler' = [handler EXCEPT ![h].pc = "wait"]
        /\ UNCHANGED torn
     \/ /\ found.st = "result"
        /\ handler' = [handler EXCEPT ![h].pc = "answer", ![h].at = found.at]
        /\ torn' = IF Purging THEN torn \cup {h} ELSE torn \ {h}
  /\ UNCHANGED <<latest, lastPurge, dcTime>>

(* execute: the mark; then Process, and the result is stored.              *)
Mark(h) ==
  /\ handler[h].pc = "mark"
  /\ latest' = [latest EXCEPT ![handler[h].cmd] = Ongoing]
  /\ handler' = [handler EXCEPT ![h].pc = "run"]
  /\ UNCHANGED <<lastPurge, torn, dcTime>>
RunAndReturnErrors(h) ==
  /\ handler[h].pc = "run"
  /\ \/ latest' = [latest EXCEPT ![handler[h].cmd] = Result(dcTime)]
     \/ UNCHANGED latest
  /\ handler' = [handler EXCEPT ![h].pc = "answer", ![h].at = dcTime]
  /\ UNCHANGED <<lastPurge, torn, dcTime>>
RunAndStore(h) ==
  /\ handler[h].pc = "run"
  /\ latest' = [latest EXCEPT ![handler[h].cmd] = Result(dcTime)]
  /\ handler' = [handler EXCEPT ![h].pc = "answer", ![h].at = dcTime]
  /\ UNCHANGED <<lastPurge, torn, dcTime>>

(* MakeTextResponse, or the recursive resolver when the command had no     *)
(* credential: the name was no command then.                               *)
AnswerText(h) ==
  /\ handler[h].pc = "answer"
  /\ \E pc \in {"idle", "recurse"} :
       handler' = [handler EXCEPT ![h] = IF pc = "idle" THEN NoHandler ELSE [NoHandler EXCEPT !.pc = pc]]
  /\ UNCHANGED <<latest, lastPurge, torn, dcTime>>
Recurse(h) ==
  /\ handler[h].pc = "recurse"
  /\ handler' = [handler EXCEPT ![h] = NoHandler]
  /\ UNCHANGED <<latest, lastPurge, torn, dcTime>>

DCTick ==
  /\ dcTime < DCMaxTime
  /\ dcTime' = dcTime + 1
  /\ UNCHANGED <<handler, latest, lastPurge, torn>>

DCStep(h) ==
  \/ PurgeAfterTTL(h) \/ BeginPurge(h) \/ EndPurge(h) \/ Get(h)
  \/ Mark(h) \/ RunAndStore(h) \/ AnswerText(h) \/ Recurse(h)
DCNext ==
  \/ \E h \in Handlers : DCStep(h) \/ \E c \in Commands : HandleTextQuery(h, c)
  \/ DCTick

DCSpec == DCInit /\ [][DCNext]_dcVars

-----------------------------------------------------------------------------
(* An execution that is waited for is really under way: the result that a  *)
(* handler polls for will come, over purges in the middle of an execution  *)
(* and executions that overlap (LatestCommands.Execute).                   *)
OngoingIsRunning ==
  \A c \in DOMAIN latest :
    latest[c] = Ongoing => \E h \in Handlers : handler[h].cmd = c /\ handler[h].pc = "run"

(* An answer was stored at most TTL seconds before the question, over      *)
(* purges that race with executions and with each other (purgeAfterTTL,    *)
(* Execute).  Exempt is a result found between the two writes of another   *)
(* handler's purge, which may be of any age: lastPurge says that the purge *)
(* has been, and the old map is still there.                               *)
AnswersAreFresh ==
  \A h \in Handlers :
    handler[h].pc = "answer" /\ h \notin torn => handler[h].since - handler[h].at <= TTL
===============================================================================
