------------------------------- MODULE RemoteVM -------------------------------
(***************************************************************************)
(* The remote virtual machine: remotevm/remotevm.go runs one emulator and  *)
(* speaks QMP with it over one connection; httpd/handler/remotevm.go lets  *)
(* several operators press its buttons at the same time.  emulatorMutex    *)
(* guards Start and Kill, qmpMutex the exchange of commands; Kill does not *)
(* wait for an exchange.                                                   *)
(***************************************************************************)
EXTENDS Integers, Sequences

CONSTANTS
  Operators,        \* who presses buttons
  MaxBoots,         \* bound of the model: emulators launched
  MaxConns,         \* bound of the model: QMP connections dialled
  MaxEvents         \* bound of the model: events the emulator reports

VARIABLES
  emulatorCmd,      \* 0 when nil, -1 when its program did not run, else an emulator
  emulators,        \* emulator processes alive
  escaped,          \* history: the emulators that a Kill failed to kill
  boots,            \* emulators launched so far
  qmpConn,          \* 0 when nil, else a connection
  qmpClient,        \* the same
  wire,             \* connection -> the emulator it leads to, whether it is open, the lines to be read
  dialled,          \* connections made so far
  qmpMutex,         \* the operator who holds it, or "free"
  iso,              \* the ISO file
  download,         \* the download under way
  events,
  op                \* operator -> what is under way

vmVars == <<emulatorCmd, emulators, escaped, boots, qmpConn, qmpClient, wire, dialled,
            qmpMutex, iso, download, events, op>>
hostVars == <<emulatorCmd, emulators, escaped, boots>>
qmpVars == <<qmpConn, qmpClient, wire, dialled>>

NoWire == [emu |-> 0, open |-> FALSE, lines |-> <<>>]
NoOp == [pc |-> "idle", got |-> "", client |-> 0]

VMInit ==
  /\ emulatorCmd = 0 /\ emulators = {} /\ escaped = {} /\ boots = 0
  /\ qmpConn = 0 /\ qmpClient = 0 /\ dialled = 0
  /\ wire = [c \in 1 .. MaxConns |-> NoWire]
  /\ qmpMutex = "free"
  /\ iso = "absent" /\ download = "none" /\ events = 0
  /\ op = [u \in Operators |-> NoOp]

To(u, pc) == op' = [op EXCEPT ![u].pc = pc]
Closed(W, C) == [c \in DOMAIN W |-> IF c \in C THEN [NoWire EXCEPT !.emu = W[c].emu] ELSE W[c]]
LedTo(e) == {c \in DOMAIN wire : wire[c].emu = e}

(* Handle: the buttons.  The keys, a screenshot and a move of the mouse    *)
(* are one command; to hold, release, click or double-click is one, two or *)
(* four behind a move.  How many are left is not part of the state.        *)
PressButton(u) ==
  /\ op[u].pc = "idle"
  /\ \/ op' = [op EXCEPT ![u].pc = "boot"] /\ UNCHANGED download
     \/ op' = [op EXCEPT ![u].pc = "kill"] /\ UNCHANGED download
     \/ op' = [op EXCEPT ![u].pc = "execute"] /\ UNCHANGED download
     \/ download = "none" /\ download' = "asked" /\ UNCHANGED op
  /\ UNCHANGED <<hostVars, qmpVars, qmpMutex, iso, events>>

(* DownloadISO, in its own goroutine: it truncates the file when the       *)
(* server answers, then fills it, and leaves it short when it fails.       *)
DownloadISO ==
  /\ \/ download = "asked" /\ download' = "none" /\ UNCHANGED iso
     \/ download = "asked" /\ download' = "writing" /\ iso' = "partial"
     \/ download = "writing" /\ download' = "none" /\ iso' \in {"partial", "whole"}
  /\ UNCHANGED <<hostVars, qmpVars, qmpMutex, events, op>>

(* Kill, under emulatorMutex: the connection and the process, which is     *)
(* forgotten even if it could not be killed.                               *)
KillEffect ==
  /\ \/ /\ emulators' = emulators \ {emulatorCmd}
        /\ wire' = Closed(wire, {qmpClient, qmpConn} \union
                                (IF emulatorCmd \in emulators THEN LedTo(emulatorCmd) ELSE {}))
        /\ UNCHANGED escaped
     \/ /\ emulatorCmd \in emulators
        /\ escaped' = escaped \union {emulatorCmd}
        /\ wire' = Closed(wire, {qmpClient, qmpConn})
        /\ UNCHANGED emulators
  /\ qmpClient' = 0 /\ qmpConn' = 0
  /\ emulatorCmd' = 0
  /\ UNCHANGED <<boots, dialled>>
(* The Kill button, and the first half of the Start button.                *)
KillMachine(u) ==
  /\ op[u].pc \in {"kill", "boot"}
  /\ KillEffect
  /\ To(u, IF op[u].pc = "boot" THEN "start" ELSE "idle")
  /\ UNCHANGED <<qmpMutex, iso, download, events>>

(* Start, under emulatorMutex.  Without the file, a download instead; a    *)
(* file that is still being written will do.                               *)
StartAnyway(u) ==
  /\ op[u].pc = "start" /\ boots < MaxBoots
  /\ To(u, "idle")
  /\ iso # "absent"
  /\ boots' = boots + 1
  /\ emulators' = emulators \union {boots'}
  /\ emulatorCmd' = boots'
  /\ UNCHANGED <<escaped, qmpVars, qmpMutex, iso, download, events>>
StartMachine(u) ==
  /\ op[u].pc = "start" /\ boots < MaxBoots
  /\ To(u, "idle")
  /\ \/ /\ iso = "absent"
        /\ download' = IF download = "none" THEN "asked" ELSE download
        /\ UNCHANGED hostVars
     \/ /\ iso # "absent" /\ emulatorCmd # 0
        /\ UNCHANGED <<hostVars, download>>
     \/ /\ iso # "absent" /\ emulatorCmd = 0
        /\ \/ emulatorCmd' = -1 /\ UNCHANGED <<emulators, boots>>
           \/ /\ boots' = boots + 1
              /\ emulators' = emulators \union {boots'}
              /\ emulatorCmd' = boots'
        /\ UNCHANGED <<escaped, download>>
  /\ UNCHANGED <<qmpVars, qmpMutex, iso, events>>

(* executeQMP, up to the exchange.                                         *)
ExecuteQMP(u) ==
  /\ op[u].pc = "execute"
  /\ \/ /\ emulatorCmd = 0
        /\ op' = [op EXCEPT ![u] = NoOp]
        /\ UNCHANGED qmpMutex
     \/ /\ emulatorCmd # 0 /\ qmpMutex = "free"
        /\ qmpMutex' = u
        /\ To(u, IF qmpClient = 0 \/ qmpConn = 0 THEN "connect" ELSE "send")
  /\ UNCHANGED <<hostVars, qmpVars, iso, download, events>>
Leave(u) ==
  /\ op' = [op EXCEPT ![u] = NoOp]
  /\ qmpMutex' = "free"

(* connectToQMP: when the port does not answer, the connection of before   *)
(* is used if there is one, and the machine is killed if there is none.    *)
Dial(u) ==
  /\ op[u].pc = "connect"
  /\ \/ /\ dialled < MaxConns
        /\ dialled' = dialled + 1
        /\ qmpConn' = dialled'
        /\ \E e \in emulators :
             wire' = [Closed(wire, {qmpClient}) EXCEPT ![dialled'] =
                        [NoWire EXCEPT !.emu = e, !.open = TRUE]]
        /\ To(u, "greet")
        /\ UNCHANGED <<hostVars, qmpClient, qmpMutex>>
     \/ /\ qmpConn # 0
        /\ wire' = Closed(wire, {qmpClient})
        /\ To(u, "greet")
        /\ UNCHANGED <<hostVars, dialled, qmpConn, qmpClient, qmpMutex>>
     \/ /\ qmpConn = 0
        /\ KillEffect
        /\ Leave(u)
  /\ UNCHANGED <<iso, download, events>>
(* The greeting, and the first exchange.  The machine is killed when the   *)
(* first does not come; when the answer to the second does not come in     *)
(* time the connection is kept, with that answer on its way.               *)
Greet(u) ==
  /\ op[u].pc = "greet"
  /\ \/ /\ qmpConn # 0 /\ wire[qmpConn].open
        /\ qmpClient' = qmpConn
        /\ \/ To(u, "send") /\ UNCHANGED <<wire, qmpMutex>>
           \/ /\ wire' = [wire EXCEPT ![qmpConn].lines = <<"capabilities">>]
              /\ Leave(u)
        /\ UNCHANGED <<hostVars, qmpConn, dialled>>
     \/ KillEffect /\ Leave(u)
  /\ UNCHANGED <<iso, download, events>>

(* The command is written.  A failure closes the client, and the caller    *)
(* leaves.                                                                 *)
SendCommand(u) ==
  /\ op[u].pc = "send"
  /\ \/ /\ qmpClient # 0 /\ qmpConn # 0 /\ wire[qmpClient].open
        /\ wire' = [wire EXCEPT ![qmpClient].lines = Append(@, u)]
        /\ op' = [op EXCEPT ![u] = [@ EXCEPT !.pc = "read", !.client = qmpClient]]
        /\ UNCHANGED <<qmpClient, qmpMutex>>
     \/ /\ ~(qmpClient # 0 /\ qmpConn # 0 /\ wire[qmpClient].open)
        /\ qmpClient' = 0
        /\ Leave(u)
        /\ UNCHANGED wire
  /\ UNCHANGED <<hostVars, qmpConn, dialled, iso, download, events>>
(* The answer: the next line, whatever it is.  An error or a deadline      *)
(* closes the client.                                                      *)
ReadAnswer(u) ==
  LET c == op[u].client IN
  /\ op[u].pc = "read"
  /\ \/ /\ wire[c].open /\ wire[c].lines # <<>>
        /\ op' = [op EXCEPT ![u] = [@ EXCEPT !.pc = "answered", !.got = Head(wire[c].lines)]]
        /\ wire' = [wire EXCEPT ![c].lines = Tail(@)]
        /\ UNCHANGED <<qmpClient, qmpMutex>>
     \/ /\ wire' = Closed(wire, {c})
        /\ qmpClient' = 0
        /\ Leave(u)
  /\ UNCHANGED <<hostVars, qmpConn, dialled, iso, download, events>>
(* Without "return" in the answer the button ends in an error; otherwise   *)
(* it goes on with its next command, if it has one.                        *)
Answered(u) ==
  /\ op[u].pc = "answered"
  /\ \/ op' = [op EXCEPT ![u] = NoOp]
     \/ op[u].got # "event" /\ op' = [op EXCEPT ![u] = [NoOp EXCEPT !.pc = "execute"]]
  /\ qmpMutex' = "free"
  /\ UNCHANGED <<hostVars, qmpVars, iso, download, events>>

(* The emulator ends by itself, or reports an event on its connection.     *)
EmulatorExits ==
  /\ \E e \in emulators :
       /\ emulators' = emulators \ {e}
       /\ wire' = Closed(wire, LedTo(e))
  /\ UNCHANGED <<emulatorCmd, escaped, boots, qmpConn, qmpClient, dialled, qmpMutex, iso, download, events, op>>
EmulatorEvent ==
  /\ events < MaxEvents
  /\ events' = events + 1
  /\ \E c \in DOMAIN wire :
       /\ wire[c].open
       /\ wire' = [wire EXCEPT ![c].lines = Append(@, "event")]
  /\ UNCHANGED <<hostVars, qmpConn, qmpClient, dialled, qmpMutex, iso, download, op>>

VMStep(u) ==
  PressButton(u) \/ KillMachine(u) \/ StartMachine(u) \/ ExecuteQMP(u) \/ Dial(u) \/ Greet(u)
    \/ SendCommand(u) \/ ReadAnswer(u) \/ Answered(u)
VMNext ==
  \/ \E u \in Operators : VMStep(u)
  \/ DownloadISO \/ EmulatorExits \/ EmulatorEvent

VMSpec == VMInit /\ [][VMNext]_vmVars

-----------------------------------------------------------------------------
(* There is at most one emulator that Kill has not failed to kill, and it  *)
(* is the one emulatorCmd names, so that Kill reaches it: over two         *)
(* operators who start at the same time, and a kill from inside the        *)
(* exchange of commands (Start, Kill, connectToQMP).                       *)
EmulatorIsKnown == emulators \ escaped \subseteq {emulatorCmd}
===============================================================================
