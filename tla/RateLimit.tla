------------------------------- MODULE RateLimit -------------------------------
(***************************************************************************)
(* The rate limiter of the network daemons (misc/ratelimit.go).            *)
(*                                                                         *)
(* Add counts the hits of each actor and refuses an actor that has used up *)
(* its allowance.  It is not a rolling counter: the first Add that finds   *)
(* the unit of time to have passed clears the counters of all actors.  A   *)
(* call holds counterMutex from beginning to end and is one action.        *)
(***************************************************************************)
EXTENDS Integers, Sequences

CONSTANTS
  Actor,      \* the sources of hits: client IPs
  UnitSecs,   \* as configured, before Initialise
  MaxCount,   \* as configured, before Initialise
  MaxTime     \* bound of the model: the clock stops here

ASSUME RateAssumption ==
  /\ UnitSecs \in Nat \ {0}
  /\ MaxCount \in Nat \ {0}
  /\ MaxTime \in Nat

(* The factor by which Initialise enlarges a limit per second: the first   *)
(* of 11, 7, 5, 3, 2 that divides it.                                      *)
Factor ==
  CASE UnitSecs # 1 -> 1
    [] UnitSecs = 1 /\ MaxCount % 11 = 0 -> 11
    [] UnitSecs = 1 /\ MaxCount % 11 # 0 /\ MaxCount % 7 = 0 -> 7
    [] UnitSecs = 1 /\ (\A f \in {7, 11} : MaxCount % f # 0) /\ MaxCount % 5 = 0 -> 5
    [] UnitSecs = 1 /\ (\A f \in {5, 7, 11} : MaxCount % f # 0) /\ MaxCount % 3 = 0 -> 3
    [] UnitSecs = 1 /\ (\A f \in {3, 5, 7, 11} : MaxCount % f # 0) /\ MaxCount % 2 = 0 -> 2
    [] OTHER -> 1

(* The interval and the allowance that Initialise leaves.                  *)
Interval == UnitSecs * Factor
Allowance == MaxCount * Factor

VARIABLES
  clock,          \* time.Now().Unix(); it is far from 0 when the program starts
  lastTimestamp,  \* when the counters were last cleared
  counter,        \* actor -> hits since then; 0 when the actor has no key
  logged,         \* the actors whose refusal has been logged since then
  admitted        \* history: actor -> times of the hits that Add let through

vars == <<clock, lastTimestamp, counter, logged, admitted>>

TypeOK ==
  /\ clock \in Interval .. Interval + MaxTime
  /\ lastTimestamp \in 0 .. clock
  /\ counter \in [Actor -> 0 .. Allowance]
  /\ logged \subseteq Actor
  /\ admitted \in [Actor -> Seq(0 .. clock)]

-----------------------------------------------------------------------------
Init ==
  /\ clock = Interval
  /\ lastTimestamp = 0
  /\ counter = [a \in Actor |-> 0]
  /\ logged = {}
  /\ admitted = [a \in Actor |-> <<>>]

(* The unit of time has passed since the counters were cleared.            *)
ResetDue == clock - lastTimestamp >= Interval

(* Mutant of Exhausted: the hits of all actors count together.             *)
ExhaustedShared(a) == \E b \in Actor : counter[b] >= Allowance

(* The actor has a counter, and it has reached the limit.                  *)
Exhausted(a) == counter[a] >= Allowance

(* Mutant of AddAfterReset: the hit that clears the counters is not        *)
(* counted.                                                                *)
AddAfterResetUncounted(a) ==
  /\ ResetDue
  /\ lastTimestamp' = clock
  /\ counter' = [b \in Actor |-> 0]
  /\ logged' = {}
  /\ admitted' = [admitted EXCEPT ![a] = Append(@, clock)]
  /\ UNCHANGED clock

(* Add clears everything first, and the hit is the first of the interval.  *)
AddAfterReset(a) ==
  /\ ResetDue
  /\ lastTimestamp' = clock
  /\ counter' = [b \in Actor |-> IF b = a THEN 1 ELSE 0]
  /\ logged' = {}
  /\ admitted' = [admitted EXCEPT ![a] = Append(@, clock)]
  /\ UNCHANGED clock

(* Add counts one more hit of the actor.                                   *)
AddCounted(a) ==
  /\ ~ResetDue
  /\ ~Exhausted(a)
  /\ counter' = [counter EXCEPT ![a] = @ + 1]
  /\ admitted' = [admitted EXCEPT ![a] = Append(@, clock)]
  /\ UNCHANGED <<clock, lastTimestamp, logged>>

(* Add refuses the hit, and logs the first refusal if asked to.            *)
AddRefused(a, logIfLimitHit) ==
  /\ ~ResetDue
  /\ Exhausted(a)
  /\ logged' = IF logIfLimitHit THEN logged \cup {a} ELSE logged
  /\ UNCHANGED <<clock, lastTimestamp, counter, admitted>>

Add(a) ==
  \/ AddAfterReset(a)
  \/ AddCounted(a)
  \/ \E l \in BOOLEAN : AddRefused(a, l)

Tick ==
  /\ clock < Interval + MaxTime
  /\ clock' = clock + 1
  /\ UNCHANGED <<lastTimestamp, counter, logged, admitted>>

Next == Tick \/ \E a \in Actor : Add(a)

Spec == Init /\ [][Next]_vars

-----------------------------------------------------------------------------
(* The counters are cleared at an instant that no actor chooses, so an     *)
(* actor may use its allowance up just before and again just after; more   *)
(* than that Add never lets through: any stretch of time shorter than the  *)
(* interval holds at most twice the allowance of one actor.                *)
AtMostTwiceTheAllowance ==
  \A a \in Actor : \A i \in 1 .. Len(admitted[a]) - 2 * Allowance :
    admitted[a][i + 2 * Allowance] - admitted[a][i] >= Interval

(* Nobody is refused on account of others, or of hits of long ago: when    *)
(* Add would turn an actor away, the actor itself has been let through     *)
(* MaxCount times within the interval that ends now.                       *)
RefusedOnlyWhenBusy ==
  \A a \in Actor : Exhausted(a) /\ ~ResetDue =>
    /\ Len(admitted[a]) >= Allowance
    /\ clock - admitted[a][Len(admitted[a]) - Allowance + 1] < Interval

-----------------------------------------------------------------------------
(* The inductive strengthening.  With k the counter of an actor, its last  *)
(* k hits were let through since the counters were cleared, the ones       *)
(* before them earlier; and of those at most one allowance was let through *)
(* less than an interval before the clearing.                              *)
HitInv(a) ==
  LET s == admitted[a]
      n == Len(s)
      k == counter[a]
  IN /\ k <= n
     /\ \A i, j \in 1 .. n : i <= j => s[i] <= s[j]
     /\ \A i \in 1 .. n : i > n - k => s[i] >= lastTimestamp
     /\ \A i \in 1 .. n : i <= n - k => s[i] <= lastTimestamp
     /\ \A i \in 1 .. n : i <= n - k - Allowance => lastTimestamp - s[i] >= Interval
     /\ \A i \in 1 .. n - 2 * Allowance : s[i + 2 * Allowance] - s[i] >= Interval

RateInv == TypeOK /\ \A a \in Actor : HitInv(a)
=============================================================================
