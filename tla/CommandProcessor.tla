--------------------------- MODULE CommandProcessor ---------------------------
(***************************************************************************)
(* The app command processor (toolbox/cmd_processor.go), its input and     *)
(* result filters, and the apps that change the state of the program:      *)
(* shell (through platform.InvokeProgram) and environment control.  Every  *)
(* daemon calls Process from its own goroutine; a request is one such      *)
(* call.  The steps of a call that touch shared state are actions.         *)
(*                                                                         *)
(* An input is a sequence of lines.  A line has a credential (a password   *)
(* PIN, a one-time code made of two six digit codes of the time divisions  *)
(* d1 and d2, the name of a shortcut, or none) and a body: the P, L and T  *)
(* of a .plt prefix, the trigger and the argument of an app, and how much  *)
(* text the app has to say.  Text is modelled by its length and by whether *)
(* it has a visible character.                                             *)
(***************************************************************************)
EXTENDS Integers, Sequences

CONSTANTS
  Requests,         \* concurrent calls of Process
  Inputs,           \* request -> what its daemon passes to Process
  ShortcutBody,     \* the command that the configured shortcut stands for
  Sequences2,       \* TranslateSequences: app text -> app text
  Features,         \* triggers of the apps that are configured
  MaxLength,        \* LintText's configured limit of the answer
  EmptyOutputLen,   \* length of "EMPTY OUTPUT"
  ErrLen,           \* length of an error message
  Divisions         \* bound of the model: the 30 second divisions of its time

(* What a daemon may pass to Process.  "none" is an empty trigger, and an  *)
(* empty argument.                                                         *)
PLTParams == [kind : {"none", "ok", "bad"}, begin : Nat, max : Nat, timeout : Nat]
CommandBody == [plt : PLTParams, app : STRING, arg : STRING, len : Nat, blank : BOOLEAN]
CommandLine == [auth : {"pin", "totp", "shortcut", "none"}, code : Nat \X Nat, body : CommandBody]
CommandInput == [lines : Seq(CommandLine), long : BOOLEAN, report : BOOLEAN]

ASSUME CPAssumption ==
  /\ Inputs \in [Requests -> SUBSET CommandInput]
  /\ ShortcutBody \in CommandBody
  /\ \A text \in DOMAIN Sequences2 : Sequences2[text] \in STRING
  /\ MaxLength \in Nat /\ EmptyOutputLen \in Nat \ {0} /\ ErrLen \in Nat \ {0}
  /\ Divisions \in Nat

VARIABLES
  call,             \* request -> its call of Process
  child,            \* request -> the external program it waits for
  lockDown,         \* misc.EmergencyLockDown
  emergency,        \* "none", "ending" in a goroutine, or "down"
  lastTOTP,         \* LastTOTP and LastTOTPCommandContent
  lintText,         \* the LintText filter of the configuration
  clock             \* the current 30 second division

cpVars == <<call, child, lockDown, emergency, lastTOTP, lintText, clock>>

ErrorOnly(err) == [err |-> err, len |-> 0, blank |-> FALSE]
NoPLT == [kind |-> "none", begin |-> 0, max |-> 0, timeout |-> 1]

NoInput == [lines |-> <<>>, long |-> FALSE, report |-> FALSE]
NoCall == [pc |-> "idle", input |-> NoInput, body |-> ShortcutBody, code |-> <<0, 0>>,
           plt |-> NoPLT, post |-> TRUE, late |-> FALSE, res |-> ErrorOnly("none")]

(* Do the lines of an input carry a credential that is good in division d? *)
(* getTOTP takes the codes of the divisions next to the current one, each  *)
(* half of a code on its own.                                              *)
GoodCode(code, d) == \A h \in {1, 2} : code[h] \in d - 1 .. d + 1
LineMatches(line, d) ==
  \/ line.auth \in {"pin", "shortcut"}
  \/ line.auth = "totp" /\ GoodCode(line.code, d)
CPAuthorised(input, d) == \E n \in DOMAIN input.lines : LineMatches(input.lines[n], d)

(* TranslateSequences.Transform.                                           *)
TranslateText(text) == IF text \in DOMAIN Sequences2 THEN Sequences2[text] ELSE text
Translate(body) == [body EXCEPT !.app = TranslateText(body.app)]

(* IsEmpty and IsSaneForInternet, which every daemon asks before it starts,*)
(* leave only configurations with a PIN and a LintText of sensible size.   *)
IsSaneForInternet == MaxLength > 0 /\ Features # {}

CPInit ==
  /\ IsSaneForInternet
  /\ call = [r \in Requests |-> NoCall]
  /\ child = [r \in Requests |-> "none"]
  /\ lockDown = FALSE
  /\ emergency = "none"
  /\ lastTOTP = [code |-> <<0, 0>>, lines |-> <<>>]
  /\ lintText = [begin |-> 0, max |-> MaxLength]
  /\ clock = 1

CPUp == emergency # "down"

-----------------------------------------------------------------------------
(* A daemon calls Process.                                                 *)
Call(r, i) ==
  /\ CPUp /\ call[r].pc = "idle"
  /\ call' = [call EXCEPT ![r] = [NoCall EXCEPT !.pc = "entered", !.input = i, !.late = lockDown]]
  /\ UNCHANGED <<child, lockDown, emergency, lastTOTP, lintText, clock>>

(* A refusal returns at once: neither the combined text nor the result     *)
(* filters are made use of, so its CombinedOutput is empty.                *)
Refused(r, err) ==
  call' = [call EXCEPT ![r].pc = "done", ![r].res = ErrorOnly(err)]

AdmitDespiteLockDown(r) ==
  /\ CPUp /\ call[r].pc = "entered" /\ ~call[r].input.long
  /\ call' = [call EXCEPT ![r].pc = "filter", ![r].post = ~call[r].input.report]
  /\ UNCHANGED <<child, lockDown, emergency, lastTOTP, lintText, clock>>

(* The beginning of Process: lock-down, rate limit, length; then, whether  *)
(* the result filters are to be run.  Whether the limit of commands per    *)
(* second is reached is left open: RateLimit models the limiter.           *)
Admit(r) ==
  /\ CPUp /\ call[r].pc = "entered"
  /\ \/ lockDown /\ Refused(r, "locked down")
     \/ ~lockDown /\ Refused(r, "rate limit")
     \/ ~lockDown /\ call[r].input.long /\ Refused(r, "too long")
     \/ /\ ~lockDown /\ ~call[r].input.long
        /\ call' = [call EXCEPT ![r].pc = "filter", ![r].post = ~call[r].input.report]
  /\ UNCHANGED <<child, lockDown, emergency, lastTOTP, lintText, clock>>

(* The call goes on to the text of its result, with an error or without.   *)
Failed(r, err) ==
  call' = [call EXCEPT ![r].pc = "result", ![r].res = ErrorOnly(err)]

(* A line with a credential is accepted.  A one-time code that was the     *)
(* last one to be used has to come with the same text again.  The two      *)
(* variables that remember it are read here and written by RememberTOTP,   *)
(* without a lock.                                                         *)
Accepted(r, line) ==
  \/ /\ line.auth = "shortcut"
     /\ call' = [call EXCEPT ![r].pc = "dispatch", ![r].body = Translate(ShortcutBody)]
  \/ /\ line.auth = "pin"
     /\ call' = [call EXCEPT ![r].pc = "dispatch", ![r].body = Translate(line.body)]
  \/ /\ line.auth = "totp"
     /\ lastTOTP.code = line.code /\ lastTOTP.lines # call[r].input.lines
     /\ Failed(r, "TOTP used")
  \/ /\ line.auth = "totp"
     /\ lastTOTP.code # line.code \/ lastTOTP.lines = call[r].input.lines
     /\ call' = [call EXCEPT ![r].pc = "totp", ![r].body = line.body, ![r].code = line.code]

(* PINAndShortcuts.Transform: the first line with a credential decides.    *)
PINTransform(r) ==
  LET lines == call[r].input.lines
      Matches(n) == LineMatches(lines[n], clock)
  IN
  /\ CPUp /\ call[r].pc = "filter"
  /\ \/ ~CPAuthorised(call[r].input, clock) /\ Failed(r, "no PIN")
     \/ \E n \in DOMAIN lines :
          /\ Matches(n) /\ \A k \in 1 .. n - 1 : ~Matches(k)
          /\ Accepted(r, lines[n])
  /\ UNCHANGED <<child, lockDown, emergency, lastTOTP, lintText, clock>>

RememberTOTP(r) ==
  /\ CPUp /\ call[r].pc = "totp"
  /\ lastTOTP' = [code |-> call[r].code, lines |-> call[r].input.lines]
  /\ call' = [call EXCEPT ![r].pc = "dispatch", ![r].body = Translate(call[r].body)]
  /\ UNCHANGED <<child, lockDown, emergency, lintText, clock>>

DispatchInPlace(r) ==
  LET body == call[r].body
      plt == body.plt
  IN
  /\ CPUp /\ call[r].pc = "dispatch"
  /\ \/ (body.app = "none" \/ plt.kind = "bad") /\ Failed(r, "bad PLT")
     \/ /\ body.app # "none" /\ plt.kind # "bad"
        /\ call' = [call EXCEPT ![r].pc = "lookup"]
  /\ lintText' = IF plt.kind = "ok" THEN [begin |-> plt.begin, max |-> plt.max] ELSE lintText
  /\ UNCHANGED <<child, lockDown, emergency, lastTOTP, clock>>

(* Process, between the filters and the app: Trim, and the .plt prefix,    *)
(* whose P, L and T override a copy of the configured LintText.            *)
Dispatch(r) ==
  LET body == call[r].body IN
  /\ CPUp /\ call[r].pc = "dispatch"
  /\ \/ body.app = "none" /\ body.plt.kind = "none" /\ Failed(r, "empty command")
     \/ body.plt.kind = "bad" /\ Failed(r, "bad PLT")
     \/ /\ body.plt.kind = "ok" /\ body.app = "none"
        /\ call' = [call EXCEPT ![r].pc = "result", ![r].plt = body.plt,
                                ![r].res = ErrorOnly("bad PLT")]
     \/ /\ body.app # "none" /\ body.plt.kind # "bad"
        /\ call' = [call EXCEPT ![r].pc = "lookup", ![r].plt = body.plt]
  /\ UNCHANGED <<child, lockDown, emergency, lastTOTP, lintText, clock>>

(* The look-up in Features.LookupByTrigger, and the app: the text of its   *)
(* result, with an error or without.  An app other than shell and          *)
(* environment control is known by its result only.                        *)
HasResult(r, err) ==
  call' = [call EXCEPT ![r].pc = "result",
             ![r].res = [err |-> err, len |-> call[r].body.len, blank |-> call[r].body.blank]]

ExecuteApp(r) ==
  /\ CPUp /\ call[r].pc = "lookup" /\ call[r].body.app \notin {"shell", "env"}
  /\ IF call[r].body.app \in Features
     THEN \E err \in {"none", "app error"} : HasResult(r, err)
     ELSE Failed(r, "bad prefix")
  /\ UNCHANGED <<child, lockDown, emergency, lastTOTP, lintText, clock>>

-----------------------------------------------------------------------------
(* EnvControl.Execute.                                                     *)
TriggerEmergencyLockDown == lockDown' = TRUE /\ UNCHANGED emergency

(* TriggerEmergencyStop and TriggerEmergencyKill leave the work to a       *)
(* goroutine of their own and return.                                      *)
TriggerEmergencyStop == emergency' = "ending" /\ UNCHANGED lockDown

ExecuteEnvControl(r) ==
  LET arg == call[r].body.arg IN
  /\ CPUp /\ call[r].pc = "lookup" /\ call[r].body.app = "env"
  /\ \/ arg = "lock" /\ TriggerEmergencyLockDown /\ HasResult(r, "none")
     \/ arg \in {"stop", "kill"} /\ TriggerEmergencyStop /\ HasResult(r, "none")
     \/ arg = "info" /\ HasResult(r, "none") /\ UNCHANGED <<lockDown, emergency>>
     \/ /\ arg = "none" /\ Failed(r, "env choices")
        /\ UNCHANGED <<lockDown, emergency>>
  /\ UNCHANGED <<child, lastTOTP, lintText, clock>>

(* Seconds later, in the case of "kill" once it has gone through files,    *)
(* directories and disks, the goroutine ends the program, and with it all  *)
(* that is under way.                                                      *)
EmergencyEnd ==
  /\ emergency = "ending"
  /\ emergency' = "down"
  /\ call' = [r \in Requests |-> NoCall]
  /\ child' = [r \in Requests |-> "none"]
  /\ UNCHANGED <<lockDown, lastTOTP, lintText, clock>>

-----------------------------------------------------------------------------
(* Shell.Execute and platform.InvokeProgram: the program is started, and   *)
(* either ends by itself or is killed when its time is up.                 *)
StartProgram(r) ==
  /\ CPUp /\ call[r].pc = "lookup" /\ call[r].body.app = "shell"
  /\ \/ call[r].plt.kind = "ok" /\ call[r].plt.timeout < 1
        /\ Failed(r, "invalid time limit") /\ UNCHANGED child
     \/ /\ call[r].plt.kind = "none" \/ call[r].plt.timeout >= 1
        /\ \/ Failed(r, "cannot start") /\ UNCHANGED child
           \/ /\ call' = [call EXCEPT ![r].pc = "wait"]
              /\ child' = [child EXCEPT ![r] = "running"]
  /\ UNCHANGED <<lockDown, emergency, lastTOTP, lintText, clock>>

(* External: the program comes to its end; it may just as well hang.       *)
ProgramExits(r) ==
  /\ CPUp /\ child[r] = "running"
  /\ child' = [child EXCEPT ![r] = "exited"]
  /\ UNCHANGED <<call, lockDown, emergency, lastTOTP, lintText, clock>>

CollectExit(r) ==
  /\ CPUp /\ call[r].pc = "wait" /\ child[r] = "exited"
  /\ \E err \in {"none", "exit status"} : HasResult(r, err)
  /\ child' = [child EXCEPT ![r] = "none"]
  /\ UNCHANGED <<lockDown, emergency, lastTOTP, lintText, clock>>

(* The time limit; the select may prefer it to an exit at the same time.   *)
TimeLimit(r) ==
  /\ CPUp /\ call[r].pc = "wait"
  /\ call' = [call EXCEPT ![r].pc = "kill"]
  /\ UNCHANGED <<child, lockDown, emergency, lastTOTP, lintText, clock>>

(* KillProcess: SIGTERM, a second of patience, SIGKILL to the process and  *)
(* its group, and the exit status is collected.                            *)
KillProcess(r) ==
  /\ CPUp /\ call[r].pc = "kill"
  /\ child' = [child EXCEPT ![r] = "none"]
  /\ HasResult(r, "time limit exceeded")
  /\ UNCHANGED <<lockDown, emergency, lastTOTP, lintText, clock>>

-----------------------------------------------------------------------------
(* ResetCombinedText: the error, a separator and the output.               *)
CombinedText(res) ==
  LET errLen == IF res.err = "none" THEN 0
                ELSE ErrLen + (IF res.len > 0 THEN 1 ELSE 0)
  IN  [len |-> errLen + res.len, blank |-> errLen = 0 /\ res.blank]

(* LintText.Transform: a blank text is trimmed away, leading characters    *)
(* are cut, then trailing ones.                                            *)
Lint(text, lint) ==
  LET trimmed == IF text.blank THEN 0 ELSE text.len
      rest == IF trimmed > lint.begin THEN trimmed - lint.begin ELSE 0
  IN  [len |-> IF lint.max > 0 /\ rest > lint.max THEN lint.max ELSE rest, blank |-> FALSE]

(* SayEmptyOutput.Transform.                                               *)
SayEmptyOutput(text) ==
  IF text.len = 0 \/ text.blank THEN [len |-> EmptyOutputLen, blank |-> FALSE] ELSE text

(* The end of Process.  NotifyViaEmail changes nothing of the result and   *)
(* sends it by mail in a goroutine.                                        *)
Finish(r) ==
  LET c == call[r]
      lint == IF c.plt.kind = "ok" THEN [begin |-> c.plt.begin, max |-> c.plt.max] ELSE lintText
      text == CombinedText(c.res)
      shaped == IF c.post THEN SayEmptyOutput(Lint(text, lint)) ELSE text
  IN
  /\ CPUp /\ c.pc = "result"
  /\ call' = [call EXCEPT ![r].pc = "done",
                ![r].res = [err |-> c.res.err, len |-> shaped.len, blank |-> shaped.blank]]
  /\ UNCHANGED <<child, lockDown, emergency, lastTOTP, lintText, clock>>

(* The caller takes the result.                                            *)
TakeResult(r) ==
  /\ CPUp /\ call[r].pc = "done"
  /\ call' = [call EXCEPT ![r] = NoCall]
  /\ UNCHANGED <<child, lockDown, emergency, lastTOTP, lintText, clock>>

(* 30 seconds pass.                                                        *)
NextDivision ==
  /\ CPUp /\ clock < Divisions
  /\ clock' = clock + 1
  /\ UNCHANGED <<call, child, lockDown, emergency, lastTOTP, lintText>>

CPStep(r) ==
  \/ Admit(r) \/ PINTransform(r) \/ RememberTOTP(r) \/ Dispatch(r) \/ ExecuteApp(r)
  \/ ExecuteEnvControl(r) \/ StartProgram(r) \/ CollectExit(r) \/ TimeLimit(r)
  \/ KillProcess(r) \/ Finish(r)

CPNext ==
  \/ \E r \in Requests :
       \/ \E i \in Inputs[r] : Call(r, i)
       \/ CPStep(r) \/ ProgramExits(r) \/ TakeResult(r)
  \/ EmergencyEnd \/ NextDivision

(* Every goroutine is scheduled, and the time limit of a program comes.    *)
CPFairness == \A r \in Requests : WF_cpVars(CPStep(r))

CPSpec == CPInit /\ [][CPNext]_cpVars /\ CPFairness

-----------------------------------------------------------------------------
(* The result c.res of a call that went through the result filters says    *)
(* something, and is as long as P and L allow; the phrase for an empty     *)
(* answer may be longer than a small L.                                    *)
IsShaped(c) ==
  LET limit == IF c.plt.kind = "ok" THEN c.plt.max ELSE MaxLength
      shortest == IF c.res.err = "none" THEN 0 ELSE ErrLen
  IN  c.pc = "done" /\ c.post /\ c.res.err \notin {"locked down", "rate limit", "too long"} =>
        /\ c.res.len > 0 /\ ~c.res.blank
        /\ limit = 0 \/ c.res.len <= limit \/ c.res.len = EmptyOutputLen
        /\ c.plt.kind # "ok" \/ c.plt.begin = 0 => c.res.len >= shortest \/ c.res.len = limit

(* The answers are about their own command: each is shaped by the P and L  *)
(* of that very command, or by the configured limit when it has none,      *)
(* whatever other commands are under way (Process, LintText,               *)
(* SayEmptyOutput).                                                        *)
AnswersAreShaped == \A r \in Requests : IsShaped(call[r])

(* What the caller can tell of a call: a command is accepted once a line   *)
(* of it has been, even if it fails later.                                 *)
Phase(c) ==
  CASE c.pc = "idle" -> "idle"
    [] c.pc \in {"entered", "filter"} -> "asked"
    [] c.pc = "result" /\ c.res.err \in {"no PIN", "TOTP used"} -> "asked"
    [] c.pc = "done" -> "answered"
    [] OTHER -> "accepted"

(* The calls of Process as their callers see them implement CommandService:*)
(* nothing is accepted without a good credential or after a lock-down, and *)
(* every call is answered, also when its program hangs.                    *)
Service == INSTANCE CommandService WITH
  phase <- [r \in Requests |-> Phase(call[r])],
  asked <- [r \in Requests |-> call[r].input],
  late <- [r \in Requests |-> call[r].late],
  locked <- lockDown,
  up <- CPUp,
  division <- clock,
  NoInput <- NoInput,
  Authorised <- CPAuthorised
ImplementsService == Service!Spec
===============================================================================
