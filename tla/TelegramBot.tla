----------------------------- MODULE TelegramBot -----------------------------
(***************************************************************************)
(* The telegram bot (daemon/telegrambot): a loop asks the Telegram API for *)
(* the updates from messageOffset on, and each message is run as an app    *)
(* command in a goroutine of its own.  Telegram keeps an update until it   *)
(* is asked for a later one, so that an update which has been run may be   *)
(* handed out again after the program has crashed and started anew.        *)
(***************************************************************************)
EXTENDS Naturals, FiniteSets

CONSTANTS
  MaxUpdates,       \* bound of the model: messages that users write
  TGMaxTime,        \* bound of the model: the clock stops here
  MaxStops          \* bound of the model: callers in Stop at a time

ASSUME TGAssumption == MaxUpdates \in Nat /\ TGMaxTime \in Nat /\ MaxStops \in Nat

VARIABLES
  tgTime,           \* the clock, in seconds
  updates,          \* the updates that Telegram keeps: id, date, and what they are
  written,          \* the number of updates so far
  startup,          \* misc.StartupTime
  offset,           \* messageOffset
  goroutines,       \* the updates that are being processed in the background
  ran,              \* history: update -> number of times it was run as a command
  loop,             \* where StartAndBlock is
  loopIsRunning,
  stopping          \* number of callers that wait in Stop

tgVars == <<tgTime, updates, written, startup, offset, goroutines, ran, loop, loopIsRunning, stopping>>

TGInit ==
  /\ tgTime = 1 /\ updates = {} /\ written = 0
  /\ startup = 1 /\ offset = 0 /\ goroutines = {}
  /\ ran = [u \in 1 .. MaxUpdates |-> 0]
  /\ loop = "off" /\ loopIsRunning = FALSE /\ stopping = 0

(* External: a user writes to the bot; messages of a group and the word    *)
(* that starts a chat are no commands.                                     *)
Write(kind) ==
  /\ written < MaxUpdates
  /\ written' = written + 1
  /\ updates' = updates \cup {[id |-> written + 1, date |-> tgTime, kind |-> kind]}
  /\ UNCHANGED <<tgTime, startup, offset, goroutines, ran, loop, loopIsRunning, stopping>>

TGTick ==
  /\ tgTime < TGMaxTime
  /\ tgTime' = tgTime + 1
  /\ UNCHANGED <<updates, written, startup, offset, goroutines, ran, loop, loopIsRunning, stopping>>

(* The messages of a batch that ProcessMessages runs: not rate limited,    *)
(* not older than the program, private, and not the start of a chat.       *)
ToRunAnyAge(batch, limited) ==
  {u \in batch : u.id \notin limited /\ u.kind = "private"}
ToRun(batch, limited) ==
  {u \in batch : u.id \notin limited /\ u.date >= startup /\ u.kind = "private"}

(* StartAndBlock, down to the loop: the token is tried out.                *)
TGStart ==
  /\ loop = "off"
  /\ loop' \in {"poll", "failed"}
  /\ UNCHANGED <<tgTime, updates, written, startup, offset, goroutines, ran, loopIsRunning, stopping>>

(* One round: a poll that fails, or a batch of all updates from the offset *)
(* on, which tells Telegram to forget the earlier ones.  The offset is     *)
(* moved past each message whatever becomes of it.                         *)
Poll ==
  /\ loop = "poll"
  /\ loopIsRunning' = TRUE
  /\ \/ UNCHANGED <<updates, offset, goroutines>>
     \/ \E limited \in SUBSET {u.id : u \in updates} :
          LET batch == {u \in updates : u.id >= offset} IN
          /\ updates' = batch
          /\ \/ batch = {} /\ UNCHANGED offset
             \/ \E last \in batch : (\A u \in batch : u.id <= last.id) /\ offset' = last.id + 1
          /\ goroutines' = goroutines \cup {u.id : u \in ToRun(batch, limited)}
  /\ loop' = "sleep"
  /\ UNCHANGED <<tgTime, written, startup, ran, stopping>>

Wake ==
  /\ loop = "sleep"
  /\ loop' = "poll"
  /\ UNCHANGED <<tgTime, updates, written, startup, offset, goroutines, ran, loopIsRunning, stopping>>

(* The goroutine of one message: Process, then ReplyTo.                    *)
RunMessage(u) ==
  /\ u \in goroutines
  /\ goroutines' = goroutines \ {u}
  /\ ran' = [ran EXCEPT ![u] = @ + 1]
  /\ UNCHANGED <<tgTime, updates, written, startup, offset, loop, loopIsRunning, stopping>>

(* Lock-down: the loop ends at its next round.                             *)
TGLockedDown ==
  /\ loop = "poll"
  /\ loop' = "locked" /\ loopIsRunning' = FALSE
  /\ UNCHANGED <<tgTime, updates, written, startup, offset, goroutines, ran, stopping>>

(* Stop takes the flag and then hands its signal to the sleeping loop.     *)
TGStop ==
  /\ loopIsRunning /\ stopping < MaxStops
  /\ loopIsRunning' = FALSE /\ stopping' = stopping + 1
  /\ UNCHANGED <<tgTime, updates, written, startup, offset, goroutines, ran, loop>>
TGStopped ==
  /\ loop = "sleep" /\ stopping > 0
  /\ stopping' = stopping - 1
  /\ loop' = "off" /\ loopIsRunning' = FALSE
  /\ UNCHANGED <<tgTime, updates, written, startup, offset, goroutines, ran>>

(* The program crashes; the supervisor starts it again, a second later at  *)
(* the earliest.  What the bot knew is gone.                               *)
CrashAndRestart ==
  /\ tgTime < TGMaxTime
  /\ tgTime' = tgTime + 1 /\ startup' = tgTime + 1
  /\ offset' = 0 /\ goroutines' = {} /\ loop' = "off"
  /\ loopIsRunning' = FALSE /\ stopping' = 0
  /\ UNCHANGED <<updates, written, ran>>

TGNext ==
  \/ \E kind \in {"private", "other"} : Write(kind)
  \/ TGTick \/ TGStart \/ Poll \/ Wake \/ TGLockedDown \/ TGStop \/ TGStopped \/ CrashAndRestart
  \/ \E u \in goroutines : RunMessage(u)

TGSpec == TGInit /\ [][TGNext]_tgVars

-----------------------------------------------------------------------------
(* A message is run as a command at most once, over polls that overlap     *)
(* with messages coming in, and over crashes that make Telegram hand out   *)
(* the same updates again (ProcessMessages: messageOffset, StartupTime).   *)
RunAtMostOnce == \A u \in DOMAIN ran : ran[u] + (IF u \in goroutines THEN 1 ELSE 0) <= 1
==============================================================================
