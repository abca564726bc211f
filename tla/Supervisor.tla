------------------------------ MODULE Supervisor ------------------------------
(***************************************************************************)
(* The supervisor (launcher/supervisor.go) and the main program it starts  *)
(* (main.go).                                                              *)
(*                                                                         *)
(* The supervisor starts the main program again whenever it ends.  Each    *)
(* failure within 20 minutes of the last start moves paramChoice on, and   *)
(* with it the launch parameters: first without the optional flags, then   *)
(* with one daemon less at a time, then with all daemons again.            *)
(*                                                                         *)
(* The program flags are a sequence of tokens.  A flag has a name, and     *)
(* carries its value itself (-name=value) or in the next token.            *)
(***************************************************************************)
EXTENDS Integers, Sequences, FiniteSets, SequencesExt

CONSTANTS
  CommandLine,  \* the command lines the supervisor may have been started with
  DaemonSet,    \* the sets of daemons it may have been asked to start
  Culprits,     \* the sets of daemons that may crash the program soon after its start
  MaxMishaps    \* bound of the model: failures that no daemon is to blame for

(* AllDaemons and ShedOrder.                                               *)
ShedOrder ==
  <<"maintenance", "serialport", "simpleipsvcd", "snmpd", "dnsd", "sockd", "smtpd", "httpd",
    "insecurehttpd", "plainsocket", "telegram", "phonehome">>

AllDaemons == Range(ShedOrder) \cup {"autounlock"}

(* Tokens of a command line: a flag whose value follows, if it takes one,  *)
(* a flag with "=" in it, and a value.  The program takes --config for     *)
(* -config, but the supervisor does not: it looks for one dash.  Any       *)
(* other flag with two dashes is like "other" to both, because a launch    *)
(* ends with its own -supervisor and -daemons.                             *)
Name == {"config", "--config", "daemons", "supervisor", "other"}
Token == [name : Name, form : {"flag", "flag="}] \cup [form : {"value"}]

Flag(name) == [name |-> name, form |-> "flag"]
FlagIs(name) == [name |-> name, form |-> "flag="]
Value == [form |-> "value"]

ASSUME SupervisorAssumption ==
  /\ CommandLine \subseteq Seq(Token)
  /\ DaemonSet \subseteq (SUBSET AllDaemons) \ {{}}
  /\ Culprits \subseteq SUBSET AllDaemons
  /\ MaxMishaps \in Nat

VARIABLES
  DaemonNames,   \* what the user asked to start
  CLIFlags,      \* the flags of the supervisor, without -daemons
  culprit,       \* the daemons that crash the program, now and later
  paramChoice,   \* which launch parameters to use; see NextChoice
  recently,      \* lastAttemptTime is less than FailureThresholdSec ago
  main,          \* control state of the main program and of Start's loop
  cliFlags,      \* flags of the latest launch
  running,       \* daemons of the latest launch
  mishaps        \* failures so far that no daemon is to blame for

config == <<DaemonNames, CLIFlags, culprit>>
launch == <<cliFlags, running>>
vars == <<config, launch, paramChoice, recently, main, mishaps>>

TypeOK ==
  /\ DaemonNames \in DaemonSet
  /\ CLIFlags \in Seq(Token)
  /\ culprit \in Culprits
  /\ paramChoice \in 0 .. Cardinality(DaemonNames) + 2
  /\ recently \in BOOLEAN
  /\ main \in {"launch", "up", "crashed", "startFailed"}
  /\ cliFlags \in Seq(Token)
  /\ running \subseteq DaemonNames
  /\ mishaps \in 0 .. MaxMishaps

-----------------------------------------------------------------------------
(* The last flag up to a position.                                         *)
LastFlag(flags, i) ==
  CHOOSE j \in 1 .. i : flags[j].form # "value" /\ \A k \in j + 1 .. i : flags[k].form = "value"

(* What RemoveFromFlags keeps: all but the flags with one of the names,    *)
(* each together with the values after it unless it carries its own.  A    *)
(* value that follows no flag at all goes too.                             *)
Kept(names, flags, i) ==
  IF flags[i].form # "value"
  THEN flags[i].name \notin names
  ELSE /\ \E j \in 1 .. i : flags[j].form # "value"
       /\ LET last == flags[LastFlag(flags, i)]
          IN  last.name \in names => last.form = "flag="

(* The n-th of a set of positions.                                         *)
Nth(S, n) == CHOOSE i \in S : Cardinality({j \in S : j <= i}) = n

RemoveFromFlags(names, flags) ==
  LET kept == {i \in DOMAIN flags : Kept(names, flags, i)}
  IN [n \in 1 .. Cardinality(kept) |-> flags[Nth(kept, n)]]

(* The daemons among the first i of ShedOrder.                             *)
UpTo(i, daemons) == {j \in 1 .. i : ShedOrder[j] \in daemons}

(* The shed sequence that initialise works out: the n-th set lacks the     *)
(* first n of the daemons that are in ShedOrder, and the very last daemon  *)
(* is not shed.                                                            *)
ShedSequence(daemons) ==
  LET toShed == daemons \cap Range(ShedOrder)
      last == IF toShed = daemons THEN Cardinality(daemons) - 1 ELSE Cardinality(toShed)
      First(n) == {i \in DOMAIN ShedOrder : Cardinality(UpTo(i, daemons)) <= n}
  IN [n \in 1 .. last |-> daemons \ {ShedOrder[i] : i \in First(n)}]

(* The copy built-in: overwrite dst from the start with as much of src as  *)
(* it has room for.                                                        *)
CopyInto(dst, src) ==
  [i \in DOMAIN dst |-> IF i \in DOMAIN src THEN src[i] ELSE dst[i]]

(* GetLaunchParameters: the daemons for the n-th attempt.                  *)
LaunchDaemons(n) ==
  IF n > 1 /\ n < Cardinality(DaemonNames) + 1
  THEN ShedSequence(DaemonNames)[n - 1]
  ELSE DaemonNames

(* Mutant of LaunchFlags: the bound is off by one.                         *)
LaunchFlagsEarly(n) ==
  LET first == RemoveFromFlags({"supervisor"}, CLIFlags)
      second == IF n >= 1 THEN RemoveFromFlags(Name \ {"config"}, first) ELSE first
      further == IF n > Cardinality(DaemonNames) THEN CopyInto(second, CLIFlags) ELSE second
  IN further \o <<FlagIs("supervisor"), Flag("daemons"), Value>>

(* GetLaunchParameters: the flags for the n-th attempt.                    *)
LaunchFlags(n) ==
  LET first == RemoveFromFlags({"supervisor"}, CLIFlags)
      second == IF n >= 1 THEN RemoveFromFlags(Name \ {"config"}, first) ELSE first
      further == IF n > Cardinality(DaemonNames) + 1 THEN CopyInto(second, CLIFlags) ELSE second
  IN further \o <<FlagIs("supervisor"), Flag("daemons"), Value>>

(* A flag with one of the names and its value are there.                   *)
HasFlag(names, flags) ==
  \E i \in DOMAIN flags :
    /\ flags[i].form # "value" /\ flags[i].name \in names
    /\ flags[i].form = "flag" => i < Len(flags) /\ flags[i + 1] = Value

(* main: without a readable -config the program aborts.                    *)
HasConfig(flags) == HasFlag({"config", "--config"}, flags)

(* The supervisor is the main program too, and has come past that point    *)
(* itself.                                                                 *)
ASSUME ConfigAssumption == \A line \in CommandLine : HasConfig(line)

(* The main program is bound to crash soon.                                *)
Doomed == ~HasConfig(cliFlags) \/ running \cap culprit # {}

-----------------------------------------------------------------------------
Init ==
  /\ DaemonNames \in DaemonSet
  /\ culprit \in Culprits
  /\ CLIFlags \in {RemoveFromFlags({"daemons"}, line) : line \in CommandLine}
  /\ paramChoice = 0
  /\ recently = TRUE
  /\ main = "launch"
  /\ cliFlags = <<>>
  /\ running = {}
  /\ mishaps = 0

(* The main program is started: lastAttemptTime is set, and Start waits.   *)
StartMain ==
  /\ main = "launch"
  /\ cliFlags' = LaunchFlags(paramChoice)
  /\ running' = LaunchDaemons(paramChoice)
  /\ recently' = TRUE
  /\ main' = "up"
  /\ UNCHANGED <<config, paramChoice, mishaps>>

(* The main program cannot be started, or does not take the password.      *)
StartFails ==
  /\ main = "launch"
  /\ mishaps < MaxMishaps
  /\ mishaps' = mishaps + 1
  /\ main' = "startFailed"
  /\ UNCHANGED <<config, launch, paramChoice, recently>>

(* A daemon that is to blame crashes the program, or main aborts.          *)
CrashSoon ==
  /\ main = "up"
  /\ Doomed
  /\ main' = "crashed"
  /\ UNCHANGED <<config, launch, paramChoice, recently, mishaps>>

(* The program crashes for another reason.                                 *)
CrashOtherwise ==
  /\ main = "up"
  /\ mishaps < MaxMishaps
  /\ mishaps' = mishaps + 1
  /\ main' = "crashed"
  /\ UNCHANGED <<config, launch, paramChoice, recently>>

(* Wait returns no error: the program is started again at once.            *)
ExitNormally ==
  /\ main = "up"
  /\ mishaps < MaxMishaps
  /\ mishaps' = mishaps + 1
  /\ main' = "launch"
  /\ UNCHANGED <<config, launch, paramChoice, recently>>

(* Mutant of NextChoice: the parameters are not moved on.                  *)
NextChoiceStays(n) == n

(* All numbers beyond the number of daemons plus 1 mean the same.          *)
NextChoice(n) == IF n < Cardinality(DaemonNames) + 2 THEN n + 1 ELSE n

(* Start after a crash or a failed start: notify, move the parameters on   *)
(* if the last start was not long ago, sleep and go on.                    *)
HandleFailure ==
  /\ main \in {"crashed", "startFailed"}
  /\ paramChoice' = IF recently THEN NextChoice(paramChoice) ELSE paramChoice
  /\ main' = "launch"
  /\ UNCHANGED <<config, launch, recently, mishaps>>

(* Twenty minutes have passed since lastAttemptTime: the program has been  *)
(* up for long, or failed to start over and over.                          *)
TimePasses ==
  /\ recently
  /\ \/ main = "up" /\ ~Doomed
     \/ main = "startFailed"
  /\ recently' = FALSE
  /\ UNCHANGED <<config, launch, paramChoice, main, mishaps>>

Next ==
  \/ StartMain
  \/ StartFails
  \/ CrashSoon
  \/ CrashOtherwise
  \/ ExitNormally
  \/ HandleFailure
  \/ TimePasses

(* The supervisor never rests, and what is bound to crash does.            *)
Fairness == WF_vars(StartMain \/ StartFails) /\ WF_vars(HandleFailure) /\ WF_vars(CrashSoon)

Spec == Init /\ [][Next]_vars /\ Fairness

-----------------------------------------------------------------------------
(* The daemons of a launch are all those asked for except the first few in *)
(* ShedOrder, whichever daemons were asked for: none is shed before one    *)
(* that comes earlier in the order, the auto-unlocker never is, and at     *)
(* least one daemon remains.                                               *)
ShedsInOrder ==
  main = "up" =>
    /\ running # {}
    /\ "autounlock" \in DaemonNames => "autounlock" \in running
    /\ \A i, j \in DOMAIN ShedOrder :
         /\ i < j
         /\ ShedOrder[i] \in running /\ ShedOrder[j] \in DaemonNames
         => ShedOrder[j] \in running

(* The supervisor knows the -config flag: it has one dash.                 *)
OneDash == HasFlag({"config"}, CLIFlags)

(* As long as only one thing at a time has been taken away, the program    *)
(* can read its configuration: shedding does not cost it the -config flag, *)
(* wherever on the command line that is, with its value in the same token  *)
(* or in the next.  A --config is lost with the first failure.             *)
ShedKeepsConfig ==
  main = "up" /\ paramChoice <= Cardinality(DaemonNames) + 1 /\ (OneDash \/ paramChoice = 0)
    => HasConfig(cliFlags)

(* What a launch looks like, whatever was shed before (initialise,         *)
(* GetLaunchParameters): the right daemons, with the configuration.        *)
SheddingInOrder == TypeOK /\ ShedsInOrder /\ ShedKeepsConfig

(* The supervisor isolates the crashing daemon: if it is not the last to   *)
(* be shed, and nothing else goes wrong, the program comes to stay up      *)
(* without it, provided that -config has one dash.  Whatever happens, the  *)
(* program is up again and again.                                          *)
Sheddable == \E n \in DOMAIN ShedSequence(DaemonNames) : ShedSequence(DaemonNames)[n] \cap culprit = {}
Isolation ==
  /\ <>[](Sheddable /\ OneDash /\ mishaps = 0 => main = "up" /\ ~Doomed)
  /\ []<>(main = "up")

(* supervisor.go on the attempts after the shedding: they only remove the  *)
(* flags that are not essential.  -config, with one dash, is the essential *)
(* one.                                                                    *)
ConfigKept == main = "up" /\ OneDash => HasConfig(cliFlags)
=============================================================================
