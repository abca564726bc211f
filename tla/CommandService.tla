---------------------------- MODULE CommandService ----------------------------
(***************************************************************************)
(* What the app command processor promises to the daemons that call it: a  *)
(* command is accepted at most once, and only if one of its lines carries  *)
(* a credential that is good at that moment and the program had not been   *)
(* locked down when the command arrived; whatever becomes of it, the       *)
(* caller gets an answer, unless the program ends first.                   *)
(***************************************************************************)
EXTENDS Naturals

CONSTANTS
  Requests,                 \* calls of Process that may be under way
  Inputs,                   \* request -> the commands that its daemon receives
  NoInput,                  \* what an idle caller has
  Authorised(_, _)          \* is the input good in this 30 second division?

VARIABLES
  phase,                    \* request -> what its caller can tell
  asked,                    \* request -> its input
  late,                     \* request -> arrived after the lock-down
  locked,                   \* misc.EmergencyLockDown
  up,                       \* the program runs
  division                  \* the clock, as the one-time codes see it

serviceVars == <<phase, asked, late, locked, up, division>>

Init ==
  /\ phase = [r \in Requests |-> "idle"]
  /\ asked = [r \in Requests |-> NoInput]
  /\ late = [r \in Requests |-> FALSE]
  /\ locked = FALSE
  /\ up = TRUE
  /\ division \in Nat

Ask(r, i) ==
  /\ up /\ phase[r] = "idle"
  /\ phase' = [phase EXCEPT ![r] = "asked"]
  /\ asked' = [asked EXCEPT ![r] = i]
  /\ late' = [late EXCEPT ![r] = locked]
  /\ UNCHANGED <<locked, up, division>>

Accept(r) ==
  /\ up /\ phase[r] = "asked"
  /\ ~late[r] /\ Authorised(asked[r], division)
  /\ phase' = [phase EXCEPT ![r] = "accepted"]
  /\ UNCHANGED <<asked, late, locked, up, division>>

Answer(r) ==
  /\ up /\ phase[r] \in {"asked", "accepted"}
  /\ phase' = [phase EXCEPT ![r] = "answered"]
  /\ UNCHANGED <<asked, late, locked, up, division>>

Return(r) ==
  /\ up /\ phase[r] = "answered"
  /\ phase' = [phase EXCEPT ![r] = "idle"]
  /\ asked' = [asked EXCEPT ![r] = NoInput]
  /\ late' = [late EXCEPT ![r] = FALSE]
  /\ UNCHANGED <<locked, up, division>>

(* A command that has been accepted may lock the program down.             *)
LockDown(r) ==
  /\ up /\ phase[r] = "accepted"
  /\ locked' = TRUE
  /\ UNCHANGED <<phase, asked, late, up, division>>

Crash ==
  /\ up /\ up' = FALSE
  /\ phase' = [r \in Requests |-> "idle"]
  /\ asked' = [r \in Requests |-> NoInput]
  /\ late' = [r \in Requests |-> FALSE]
  /\ UNCHANGED <<locked, division>>

Clock == up /\ division' = division + 1 /\ UNCHANGED <<phase, asked, late, locked, up>>

Next ==
  \/ \E r \in Requests :
       \/ \E i \in Inputs[r] : Ask(r, i)
       \/ Accept(r) \/ Answer(r) \/ Return(r) \/ LockDown(r)
  \/ Crash
  \/ Clock

Spec ==
  /\ Init /\ [][Next]_serviceVars
  /\ \A r \in Requests : WF_serviceVars(Answer(r))
===============================================================================
