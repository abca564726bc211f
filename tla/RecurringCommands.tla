-------------------------- MODULE RecurringCommands --------------------------
(***************************************************************************)
(* Commands run at regular intervals, with a memory of their results       *)
(* (daemon/common/recurring_cmds.go), the ring buffer that is the memory   *)
(* (lalog/ring_buffer.go), and the web service that fills and empties it   *)
(* (daemon/httpd/handler/recurring_cmds.go).                               *)
(*                                                                         *)
(* One mutex protects the transient commands, GetResults and Stop.  The    *)
(* ring buffer is not protected: Push adds to the counter atomically and   *)
(* writes the element in a second step, and a reader looks at one slot     *)
(* after the other.  The loop of Start, a caller of                        *)
(* AddArbitraryTextToResult, one of GetResults and one of Stop run         *)
(* concurrently.                                                           *)
(***************************************************************************)
EXTENDS Integers, Sequences, FiniteSets, SequencesExt

CONSTANTS
  PreConfiguredCommands,  \* sequence of commands that are always run
  Transient,              \* the commands that may be added on the fly
  MaxResults,             \* size of the ring buffer
  MaxTransient            \* bound of the model: length of the transient list

ASSUME RecurringAssumption ==
  /\ PreConfiguredCommands \in Seq(STRING)
  /\ MaxResults \in Nat \ {0}
  /\ MaxTransient \in Nat

(* Results and texts, told apart by a number.  A number is used again when *)
(* nothing refers to it any more: two pushes, the buffer, a retrieval in   *)
(* progress and the history are all that can.  The remainder of the number *)
(* is the slot it is for, which keeps the model small.                     *)
Elem == 1 .. 6 * MaxResults

(* The empty string, which marks an empty slot.                            *)
Blank == 0

VARIABLES
  transientCommands,  \* the list of commands added on the fly
  running,            \* the loop runs, as far as Stop can see
  mutex,              \* who holds the mutex: "free", "GetResults" or "Stop"
  counter,            \* the ring buffer's counter modulo its size
  buf,                \* the ring buffer's slots
  loop,               \* the goroutine of Start: pc, commands left, push in progress
  text,               \* a caller of AddArbitraryTextToResult: pc, push in progress
  getter,             \* a caller of GetResults: pc, first slot, what it has
  stopper,            \* a caller of Stop
  recent,             \* history: the pushes since the buffer was cleared, the latest MaxResults
  clean               \* history: since then no push has overlapped another or a retrieval

ringVars == <<counter, buf, recent, clean>>
vars == <<transientCommands, running, mutex, ringVars, loop, text, getter, stopper>>

NoPush == [slot |-> 0, elem |-> Blank]
Slots == 0 .. MaxResults - 1
PushType == [slot : Slots, elem : Elem \cup {Blank}]

TypeOK ==
  /\ transientCommands \in Seq(Transient) /\ Len(transientCommands) <= MaxTransient
  /\ running \in BOOLEAN
  /\ mutex \in {"free", "GetResults", "Stop"}
  /\ counter \in Slots
  /\ buf \in [Slots -> Elem \cup {Blank}]
  /\ loop.pc \in {"new", "top", "select", "preconfigured", "transient", "returned"}
  /\ loop.todo \in Seq(Transient \cup Range(PreConfiguredCommands))
  /\ loop.pushing \in BOOLEAN /\ loop.push \in PushType
  /\ text.pushing \in BOOLEAN /\ text.push \in PushType
  /\ getter.pc \in {"idle", "reading"}
  /\ getter.first \in Slots
  /\ getter.seen \in 0 .. MaxResults
  /\ getter.got \in Seq(Elem) /\ Len(getter.got) <= getter.seen
  /\ stopper \in {"idle", "sending", "received", "stopped", "ignored"}
  /\ recent \in Seq(Elem \cup {Blank}) /\ Len(recent) <= MaxResults
  /\ clean \in BOOLEAN

NotReading == [pc |-> "idle", first |-> 0, seen |-> 0, got |-> <<>>]

Init ==
  /\ transientCommands = <<>>
  /\ running = FALSE
  /\ mutex = "free"
  /\ counter = 0
  /\ buf = [i \in Slots |-> Blank]
  /\ loop = [pc |-> "new", todo |-> <<>>, pushing |-> FALSE, push |-> NoPush]
  /\ text = [pushing |-> FALSE, push |-> NoPush]
  /\ getter = NotReading
  /\ stopper = "idle"
  /\ recent = <<>>
  /\ clean = TRUE

-----------------------------------------------------------------------------
(* The transient commands.                                                 *)

AddTransientCommand(cmd) ==
  /\ mutex = "free"
  /\ Len(transientCommands) < MaxTransient
  /\ transientCommands' = Append(transientCommands, cmd)
  /\ UNCHANGED <<running, mutex, ringVars, loop, text, getter, stopper>>

ClearTransientCommands ==
  /\ mutex = "free"
  /\ transientCommands # <<>>
  /\ transientCommands' = <<>>
  /\ UNCHANGED <<running, mutex, ringVars, loop, text, getter, stopper>>

-----------------------------------------------------------------------------
(* The ring buffer.                                                        *)

InUse ==
  Range(buf) \cup Range(getter.got) \cup Range(recent) \cup {loop.push.elem, text.push.elem}

(* The slot of the next element: the counter is added to before it is used.*)
NextSlot == (counter + 1) % MaxResults

(* A result or text like no other.                                         *)
Unused == {e \in Elem \ InUse : e % MaxResults = NextSlot}
Fresh == {e \in Unused : \A f \in Unused : e <= f}

Latest(n, s) == IF Len(s) > n THEN SubSeq(s, Len(s) - n + 1, Len(s)) ELSE s

(* The first step of Push: the atomic addition.                            *)
PushBegin(elem, othersPush) ==
  LET alone == clean /\ ~othersPush /\ getter.pc = "idle"
  IN /\ counter' = NextSlot
     /\ clean' = alone
     /\ recent' = IF alone THEN Latest(MaxResults, Append(recent, elem)) ELSE <<>>
     /\ UNCHANGED buf

(* The second step of Push: the element is written, to the slots of now.   *)
PushEnd(push) ==
  /\ buf' = [buf EXCEPT ![push.slot] = push.elem]
  /\ UNCHANGED <<counter, recent, clean>>

(* Mutant of ReadOrder: the second loop stops one slot too early.          *)
ReadOrderShort(first) ==
  [n \in 1 .. MaxResults |-> IF n = MaxResults THEN first ELSE (first - n + 1) % MaxResults]

(* IterateReverse: from the latest slot down to slot 0, then from the last *)
(* slot down to the one after the latest.                                  *)
ReadOrder(first) ==
  [n \in 1 .. MaxResults |-> IF n <= first + 1 THEN first - n + 1 ELSE first - n + 1 + MaxResults]

-----------------------------------------------------------------------------
(* The loop of Start.                                                      *)

(* Start is called once: nothing runs yet.                                 *)
Start ==
  /\ loop.pc = "new"
  /\ mutex = "free"
  /\ loop' = [loop EXCEPT !.pc = "top"]
  /\ UNCHANGED <<transientCommands, running, mutex, ringVars, text, getter, stopper>>

(* The top of the loop sets the flag, without the mutex.                   *)
LoopTop ==
  /\ loop.pc = "top"
  /\ running' = TRUE
  /\ loop' = [loop EXCEPT !.pc = "select"]
  /\ UNCHANGED <<transientCommands, mutex, ringVars, text, getter, stopper>>

(* The interval is over: runAllCommands.                                   *)
TimerFires ==
  /\ loop.pc = "select"
  /\ loop' = [loop EXCEPT !.pc = "preconfigured", !.todo = PreConfiguredCommands]
  /\ UNCHANGED <<transientCommands, running, mutex, ringVars, text, getter, stopper>>

(* The command processor has run the next command and Push begins.  A      *)
(* command that is refused, because of a lock-down or the processor's rate *)
(* limit, has an empty result.                                             *)
RunCommand ==
  /\ loop.todo # <<>>
  /\ ~loop.pushing
  /\ \E elem \in Fresh \cup {Blank} :
       /\ loop' = [loop EXCEPT !.pushing = TRUE, !.push = [slot |-> NextSlot, elem |-> elem]]
       /\ PushBegin(elem, text.pushing)
  /\ UNCHANGED <<transientCommands, running, mutex, text, getter, stopper>>

StoreResult ==
  /\ loop.pushing
  /\ loop' = [loop EXCEPT !.pushing = FALSE, !.push = NoPush, !.todo = Tail(@)]
  /\ PushEnd(loop.push)
  /\ UNCHANGED <<transientCommands, running, mutex, text, getter, stopper>>

(* The pre-configured commands are done: under the mutex, copy the others. *)
CopyTransientCommands ==
  /\ loop.pc = "preconfigured" /\ loop.todo = <<>>
  /\ mutex = "free"
  /\ loop' = [loop EXCEPT !.pc = "transient", !.todo = transientCommands]
  /\ UNCHANGED <<transientCommands, running, mutex, ringVars, text, getter, stopper>>

(* All commands are done.                                                  *)
EndOfRound ==
  /\ loop.pc = "transient" /\ loop.todo = <<>>
  /\ loop' = [loop EXCEPT !.pc = "top"]
  /\ UNCHANGED <<transientCommands, running, mutex, ringVars, text, getter, stopper>>

(* The steps of the loop that do not need the mutex, and those that do.    *)
LoopStep == LoopTop \/ TimerFires \/ RunCommand \/ StoreResult \/ EndOfRound
LockedStep == Start \/ CopyTransientCommands

-----------------------------------------------------------------------------
(* AddArbitraryTextToResult, of a text that is not empty.                  *)
AddArbitraryTextToResult ==
  /\ ~text.pushing
  /\ \E elem \in Fresh :
       /\ text' = [pushing |-> TRUE, push |-> [slot |-> NextSlot, elem |-> elem]]
       /\ PushBegin(elem, loop.pushing)
  /\ UNCHANGED <<transientCommands, running, mutex, loop, getter, stopper>>

StoreText ==
  /\ text.pushing
  /\ text' = [pushing |-> FALSE, push |-> NoPush]
  /\ PushEnd(text.push)
  /\ UNCHANGED <<transientCommands, running, mutex, loop, getter, stopper>>

-----------------------------------------------------------------------------
(* GetResults takes the mutex, and GetAll the counter.                     *)
GetResults ==
  /\ getter.pc = "idle"
  /\ mutex = "free"
  /\ mutex' = "GetResults"
  /\ getter' = [NotReading EXCEPT !.pc = "reading", !.first = counter]
  /\ clean' = (clean /\ ~loop.pushing /\ ~text.pushing)
  /\ recent' = IF clean' THEN recent ELSE <<>>
  /\ UNCHANGED <<transientCommands, running, counter, buf, loop, text, stopper>>

(* IterateReverse looks at one more slot.  GetAll turns the order round.   *)
ReadSlot ==
  LET value == buf[ReadOrder(getter.first)[getter.seen + 1]]
  IN /\ getter.pc = "reading"
     /\ getter.seen < MaxResults
     /\ \/ value = Blank /\ getter' = [getter EXCEPT !.seen = @ + 1]
        \/ value # Blank /\ getter' = [getter EXCEPT !.seen = @ + 1, !.got = <<value>> \o @]
     /\ UNCHANGED <<transientCommands, running, mutex, ringVars, loop, text, stopper>>

(* Mutant of ClearAndReturn: the buffer is not cleared.                    *)
ReturnOnly ==
  /\ getter.pc = "reading"
  /\ getter.seen = MaxResults
  /\ getter' = NotReading
  /\ mutex' = "free"
  /\ UNCHANGED <<transientCommands, running, ringVars, loop, text, stopper>>

(* Clear replaces the slots, whatever has been written to them since, and  *)
(* GetResults returns.  The counter stays.                                 *)
ClearAndReturn ==
  /\ getter.pc = "reading"
  /\ getter.seen = MaxResults
  /\ buf' = [i \in Slots |-> Blank]
  /\ clean' = (~loop.pushing /\ ~text.pushing)
  /\ recent' = <<>>
  /\ getter' = NotReading
  /\ mutex' = "free"
  /\ UNCHANGED <<transientCommands, running, counter, loop, text, stopper>>

-----------------------------------------------------------------------------
(* Stop takes the mutex and keeps it while it sends on the channel.        *)
Stop ==
  /\ stopper = "idle"
  /\ mutex = "free"
  /\ \/ running /\ stopper' = "sending" /\ mutex' = "Stop"
     \/ ~running /\ stopper' = "ignored" /\ UNCHANGED mutex
  /\ UNCHANGED <<transientCommands, running, ringVars, loop, text, getter>>

(* The channel has no buffer: Stop goes on when the loop receives.         *)
ReceiveStop ==
  /\ loop.pc = "select"
  /\ stopper = "sending"
  /\ loop' = [loop EXCEPT !.pc = "returned"]
  /\ stopper' = "received"
  /\ UNCHANGED <<transientCommands, running, mutex, ringVars, text, getter>>

StopEnds ==
  /\ stopper = "received"
  /\ running' = FALSE
  /\ mutex' = "free"
  /\ stopper' = "stopped"
  /\ UNCHANGED <<transientCommands, ringVars, loop, text, getter>>

-----------------------------------------------------------------------------
(* A request to the web service: one of the four.                          *)
Handle ==
  \/ \E cmd \in Transient : AddTransientCommand(cmd)
  \/ ClearTransientCommands
  \/ AddArbitraryTextToResult
  \/ GetResults

Next ==
  \/ Handle
  \/ LoopStep
  \/ LockedStep
  \/ StoreText
  \/ ReadSlot
  \/ ClearAndReturn
  \/ Stop
  \/ ReceiveStop
  \/ StopEnds

(* Every goroutine runs on unless it waits for the mutex or the channel,   *)
(* and Go's mutex does not starve the one that waits for it.               *)
Fairness ==
  /\ WF_vars(LoopStep)
  /\ SF_vars(LockedStep)
  /\ WF_vars(StoreText)
  /\ WF_vars(ReadSlot \/ ClearAndReturn)
  /\ SF_vars(ReceiveStop)
  /\ WF_vars(StopEnds)

Spec == Init /\ [][Next]_vars /\ Fairness

-----------------------------------------------------------------------------
(* A result or text is handed out once: what GetResults returns has no     *)
(* element twice, and none of it is left in the buffer or will get there   *)
(* again, with pushes going on while GetAll reads and Clear replaces the   *)
(* slots.                                                                  *)
HandedOutOnce ==
  [][getter.pc = "reading" /\ getter'.pc = "idle" =>
       /\ IsInjective(getter.got)
       /\ Range(getter.got) \cap (Range(buf') \cup {loop.push.elem, text.push.elem}) = {}]_vars

(* got lists, in order, what there is in s from position lo on, without    *)
(* the empty ones.                                                         *)
Lists(got, s, lo) ==
  LET From == {i \in DOMAIN s : i >= lo}
  IN  \E at \in [DOMAIN got -> From] :
        /\ \A j, k \in DOMAIN got : j < k => at[j] < at[k]
        /\ \A k \in DOMAIN got : got[k] = s[at[k]] /\ got[k] # Blank
        /\ \A i \in From : s[i] # Blank => \E k \in DOMAIN got : at[k] = i

(* What GetAll gathers, when no push has overlapped another one or a       *)
(* retrieval since the buffer was cleared, is the latest MaxResults of     *)
(* what was pushed since, oldest first and without the empty ones: after   *)
(* the slots wrapped round any number of times, and with the counter left  *)
(* where it was by Clear.                                                  *)
RetrievalIsExact ==
  getter.pc = "reading" /\ getter.seen = MaxResults /\ clean => Lists(getter.got, recent, 1)

(* Once Stop has returned from stopping the loop, no command is run.       *)
QuietAfterStop == stopper = "stopped" => loop.pc = "returned"

(* What holds of the results at every moment (RingBuffer, GetResults,      *)
(* Stop): they are retrieved exactly, and none comes up after Stop.  There *)
(* is always a number for the next one.                                    *)
ResultsInOrder == TypeOK /\ Fresh # {} /\ RetrievalIsExact /\ QuietAfterStop

(* recurring_cmds.go on Stop: it blocks until the loop has terminated,     *)
(* which it tells to as early as possible.  So Stop returns.               *)
StopReturns == (stopper = "sending") ~> (stopper = "stopped")
=============================================================================
