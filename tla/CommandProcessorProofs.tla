------------------------ MODULE CommandProcessorProofs ------------------------
(***************************************************************************)
(* The app command processor shapes every answer by its own command, and   *)
(* keeps the safety of CommandService, for any number of concurrent calls  *)
(* and any commands, shortcuts and limits.                                 *)
(***************************************************************************)
EXTENDS CommandProcessor, TLAPS

PCs == {"idle", "entered", "filter", "totp", "dispatch", "lookup", "wait", "kill", "result", "done"}
Err == {"none", "locked down", "rate limit", "too long", "no PIN", "TOTP used", "empty command",
        "bad PLT", "bad prefix", "app error", "env choices", "invalid time limit", "cannot start",
        "exit status", "time limit exceeded"}
CmdResult == [err : Err, len : Nat, blank : BOOLEAN]
Code == Nat \X Nat
CmdCall == [pc : PCs, input : CommandInput, body : CommandBody, code : Code, plt : PLTParams,
            post : BOOLEAN, late : BOOLEAN, res : CmdResult]

(* A call that went past the look at the lock-down came before it.         *)
CPInv ==
  /\ call \in [Requests -> CmdCall]
  /\ lockDown \in BOOLEAN /\ clock \in Nat /\ emergency \in {"none", "ending", "down"}
  /\ lintText = [begin |-> 0, max |-> MaxLength]
  /\ \A r \in Requests : call[r].late => lockDown
  /\ \A r \in Requests : call[r].pc = "filter" => ~call[r].late
  /\ AnswersAreShaped

-----------------------------------------------------------------------------
(* What an assignment to a few fields of one call does.                    *)

Moves(r, pc) ==
  /\ call' \in [Requests -> CmdCall]
  /\ call'[r].pc = pc
  /\ call'[r].input = call[r].input
  /\ call'[r].late = call[r].late
  /\ \A q \in Requests : q # r => call'[q] = call[q]

LEMMA CodeTyped ==
  ASSUME NEW c \in [Requests -> CmdCall], NEW r \in Requests, NEW code \in Code
  PROVE  [c EXCEPT ![r].code = code] \in [Requests -> CmdCall]
  BY DEF CmdCall

LEMMA ResultTyped ==
  ASSUME NEW c \in [Requests -> CmdCall], NEW r \in Requests, NEW res \in CmdResult
  PROVE  [c EXCEPT ![r].res = res] \in [Requests -> CmdCall]
  BY DEF CmdCall

LEMMA SetPC ==
  ASSUME call \in [Requests -> CmdCall], NEW r \in Requests, NEW pc \in PCs,
         call' = [call EXCEPT ![r].pc = pc]
  PROVE  Moves(r, pc) /\ call'[r].res = call[r].res
<1>1. call' \in [Requests -> CmdCall]
  BY DEF CmdCall
<1>2. /\ call'[r].pc = pc /\ call'[r].input = call[r].input /\ call'[r].late = call[r].late
      /\ call'[r].res = call[r].res
  BY DEF CmdCall
<1>3. \A q \in Requests : q # r => call'[q] = call[q]
  OBVIOUS
<1> QED
  BY <1>1, <1>2, <1>3 DEF Moves

LEMMA SetResult ==
  ASSUME call \in [Requests -> CmdCall], NEW r \in Requests, NEW pc \in PCs, NEW res \in CmdResult,
         call' = [call EXCEPT ![r].pc = pc, ![r].res = res]
  PROVE  Moves(r, pc) /\ call'[r].res = res /\ call'[r].plt = call[r].plt /\ call'[r].post = call[r].post
<1>1. call' \in [Requests -> CmdCall]
  <2>1. [call[r] EXCEPT !.pc = pc, !.res = res] \in CmdCall
    BY DEF CmdCall
  <2>2. call' = [call EXCEPT ![r] = [call[r] EXCEPT !.pc = pc, !.res = res]]
    OBVIOUS
  <2> QED BY <2>1, <2>2
<1>2. /\ call'[r].pc = pc /\ call'[r].input = call[r].input /\ call'[r].late = call[r].late
      /\ call'[r].res = res /\ call'[r].plt = call[r].plt /\ call'[r].post = call[r].post
  BY DEF CmdCall
<1>3. \A q \in Requests : q # r => call'[q] = call[q]
  OBVIOUS
<1> QED
  BY <1>1, <1>2, <1>3 DEF Moves

LEMMA SetBody ==
  ASSUME call \in [Requests -> CmdCall], NEW r \in Requests, NEW pc \in PCs, NEW body \in CommandBody,
         call' = [call EXCEPT ![r].pc = pc, ![r].body = body]
  PROVE  Moves(r, pc)
<1>1. call' \in [Requests -> CmdCall]
  BY DEF CmdCall
<1>2. call'[r].pc = pc /\ call'[r].input = call[r].input /\ call'[r].late = call[r].late
  BY DEF CmdCall
<1>3. \A q \in Requests : q # r => call'[q] = call[q]
  OBVIOUS
<1> QED
  BY <1>1, <1>2, <1>3 DEF Moves

LEMMA SetCode ==
  ASSUME call \in [Requests -> CmdCall], NEW r \in Requests, NEW pc \in PCs, NEW body \in CommandBody,
         NEW code \in Code, call' = [call EXCEPT ![r].pc = pc, ![r].body = body, ![r].code = code]
  PROVE  Moves(r, pc)
<1> DEFINE c == [call EXCEPT ![r].pc = pc, ![r].body = body]
<1>1. c \in [Requests -> CmdCall]
  BY DEF CmdCall
<1>2. c[r].pc = pc /\ c[r].input = call[r].input /\ c[r].late = call[r].late
  BY DEF CmdCall
<1>3. \A q \in Requests : q # r => c[q] = call[q]
  OBVIOUS
<1>4. call' = [c EXCEPT ![r].code = code]
  OBVIOUS
<1> HIDE DEF c
<1>5. call' \in [Requests -> CmdCall]
  <2>1. [c EXCEPT ![r].code = code] \in [Requests -> CmdCall]
    BY <1>1, CodeTyped
  <2> QED
    BY <1>4, <2>1, Zenon
<1>6. call'[r].pc = pc /\ call'[r].input = call[r].input /\ call'[r].late = call[r].late
  BY <1>1, <1>2, <1>4 DEF CmdCall
<1>7. \A q \in Requests : q # r => call'[q] = call[q]
  BY <1>1, <1>3, <1>4
<1> QED
  BY <1>5, <1>6, <1>7 DEF Moves

LEMMA SetPLT ==
  ASSUME call \in [Requests -> CmdCall], NEW r \in Requests, NEW pc \in PCs, NEW plt \in PLTParams,
         call' = [call EXCEPT ![r].pc = pc, ![r].plt = plt]
  PROVE  Moves(r, pc)
<1>1. call' \in [Requests -> CmdCall]
  <2>1. [call[r] EXCEPT !.pc = pc, !.plt = plt] \in CmdCall
    BY DEF CmdCall
  <2>2. call' = [call EXCEPT ![r] = [call[r] EXCEPT !.pc = pc, !.plt = plt]]
    OBVIOUS
  <2> QED BY <2>1, <2>2
<1>2. call'[r].pc = pc /\ call'[r].input = call[r].input /\ call'[r].late = call[r].late
  BY DEF CmdCall
<1>3. \A q \in Requests : q # r => call'[q] = call[q]
  OBVIOUS
<1> QED
  BY <1>1, <1>2, <1>3 DEF Moves

LEMMA SetPLTResult ==
  ASSUME call \in [Requests -> CmdCall], NEW r \in Requests, NEW pc \in PCs, NEW plt \in PLTParams,
         NEW res \in CmdResult, call' = [call EXCEPT ![r].pc = pc, ![r].plt = plt, ![r].res = res]
  PROVE  Moves(r, pc) /\ call'[r].res = res
<1> DEFINE c == [call EXCEPT ![r].pc = pc, ![r].plt = plt]
<1>1. c \in [Requests -> CmdCall]
  BY DEF CmdCall
<1>2. c[r].pc = pc /\ c[r].input = call[r].input /\ c[r].late = call[r].late
  BY DEF CmdCall
<1>3. \A q \in Requests : q # r => c[q] = call[q]
  OBVIOUS
<1>4. call' = [c EXCEPT ![r].res = res]
  OBVIOUS
<1> HIDE DEF c
<1>5. call' \in [Requests -> CmdCall]
  <2>1. [c EXCEPT ![r].res = res] \in [Requests -> CmdCall]
    BY <1>1, ResultTyped
  <2> QED
    BY <1>4, <2>1, Zenon
<1>6. /\ call'[r].pc = pc /\ call'[r].input = call[r].input /\ call'[r].late = call[r].late
      /\ call'[r].res = res
  BY <1>1, <1>2, <1>4 DEF CmdCall
<1>7. \A q \in Requests : q # r => call'[q] = call[q]
  BY <1>1, <1>3, <1>4
<1> QED
  BY <1>5, <1>6, <1>7 DEF Moves

LEMMA SetPost ==
  ASSUME call \in [Requests -> CmdCall], NEW r \in Requests, NEW pc \in PCs, NEW post \in BOOLEAN,
         call' = [call EXCEPT ![r].pc = pc, ![r].post = post]
  PROVE  Moves(r, pc)
<1>1. call' \in [Requests -> CmdCall]
  <2>1. [call[r] EXCEPT !.pc = pc, !.post = post] \in CmdCall
    BY DEF CmdCall
  <2>2. call' = [call EXCEPT ![r] = [call[r] EXCEPT !.pc = pc, !.post = post]]
    OBVIOUS
  <2> QED BY <2>1, <2>2
<1>2. call'[r].pc = pc /\ call'[r].input = call[r].input /\ call'[r].late = call[r].late
  BY DEF CmdCall
<1>3. \A q \in Requests : q # r => call'[q] = call[q]
  OBVIOUS
<1> QED
  BY <1>1, <1>2, <1>3 DEF Moves

-----------------------------------------------------------------------------
(* The moves of one call as its caller sees them.                          *)

LEMMA Stutters ==
  ASSUME NEW r \in Requests, NEW pc, Moves(r, pc), Phase(call'[r]) = Phase(call[r]),
         UNCHANGED <<lockDown, clock>>, CPUp' = CPUp
  PROVE  UNCHANGED Service!serviceVars
<1>1. \A q \in Requests : /\ Phase(call'[q]) = Phase(call[q]) /\ call'[q].input = call[q].input
                          /\ call'[q].late = call[q].late
  BY DEF Moves
<1>2. [q \in Requests |-> Phase(call'[q])] = [q \in Requests |-> Phase(call[q])]
  BY <1>1
<1>3. [q \in Requests |-> call'[q].input] = [q \in Requests |-> call[q].input]
  BY <1>1
<1>4. [q \in Requests |-> call'[q].late] = [q \in Requests |-> call[q].late]
  BY <1>1
<1> QED
  BY <1>2, <1>3, <1>4 DEF Service!serviceVars

LEMMA PhaseMoves ==
  ASSUME NEW r \in Requests, NEW pc, Moves(r, pc)
  PROVE  /\ [q \in Requests |-> Phase(call'[q])]
              = [[q \in Requests |-> Phase(call[q])] EXCEPT ![r] = Phase(call'[r])]
         /\ [q \in Requests |-> call'[q].input] = [q \in Requests |-> call[q].input]
         /\ [q \in Requests |-> call'[q].late] = [q \in Requests |-> call[q].late]
<1>1. \A q \in Requests : call'[q].input = call[q].input /\ call'[q].late = call[q].late
  BY DEF Moves
<1>2. \A q \in Requests : q # r => Phase(call'[q]) = Phase(call[q])
  BY DEF Moves
<1>3. [q \in Requests |-> Phase(call'[q])]
        = [[q \in Requests |-> Phase(call[q])] EXCEPT ![r] = Phase(call'[r])]
  BY <1>2
<1>4. [q \in Requests |-> call'[q].input] = [q \in Requests |-> call[q].input]
  BY <1>1
<1>5. [q \in Requests |-> call'[q].late] = [q \in Requests |-> call[q].late]
  BY <1>1
<1> QED
  BY <1>3, <1>4, <1>5

LEMMA Answers ==
  ASSUME NEW r \in Requests, NEW pc, Moves(r, pc), CPUp, CPUp' = CPUp, UNCHANGED <<lockDown, clock>>,
         Phase(call[r]) \in {"asked", "accepted"}, Phase(call'[r]) = "answered"
  PROVE  Service!Answer(r)
  BY PhaseMoves DEF Service!Answer

LEMMA Accepts ==
  ASSUME NEW r \in Requests, NEW pc, Moves(r, pc), CPUp, CPUp' = CPUp, UNCHANGED <<lockDown, clock>>,
         Phase(call[r]) = "asked", Phase(call'[r]) = "accepted",
         ~call[r].late, CPAuthorised(call[r].input, clock)
  PROVE  Service!Accept(r)
  BY PhaseMoves DEF Service!Accept

-----------------------------------------------------------------------------
(* The steps of a call.                                                    *)

LEMMA CallMoves ==
  ASSUME CPInv, NEW r \in Requests, NEW pc \in PCs, Moves(r, pc), pc # "done" \/ IsShaped(call'[r]),
         pc = "filter" => ~call[r].late,
         lockDown' \in BOOLEAN, lockDown => lockDown', emergency' \in {"none", "ending", "down"},
         UNCHANGED <<clock, lintText>>
  PROVE  CPInv'
<1>1. IsShaped(call'[r])
  BY DEF Moves, IsShaped
<1>2. \A q \in Requests : IsShaped(call'[q])
  BY <1>1 DEF CPInv, AnswersAreShaped, Moves
<1>3. AnswersAreShaped'
  BY <1>2 DEF AnswersAreShaped
<1>4. \A q \in Requests : call'[q].late => lockDown'
  BY DEF CPInv, Moves
<1>5. \A q \in Requests : call'[q].pc = "filter" => ~call'[q].late
  BY DEF CPInv, Moves
<1> QED
  BY <1>3, <1>4, <1>5 DEF CPInv, Moves

LEMMA FailedMoves ==
  ASSUME CPInv, NEW r \in Requests, NEW err \in Err, Failed(r, err)
  PROVE  Moves(r, "result") /\ call'[r].res.err = err
<1>1. ErrorOnly(err) \in CmdResult /\ ErrorOnly(err).err = err
  BY DEF CmdResult, ErrorOnly
<1>2. Moves(r, "result") /\ call'[r].res = ErrorOnly(err)
  BY <1>1, SetResult DEF Failed, CPInv, PCs
<1> QED
  BY <1>1, <1>2

LEMMA RefusedMoves ==
  ASSUME CPInv, NEW r \in Requests, NEW err \in {"locked down", "rate limit", "too long"}, Refused(r, err)
  PROVE  Moves(r, "done") /\ call'[r].res.err = err
<1>1. ErrorOnly(err) \in CmdResult /\ ErrorOnly(err).err = err
  BY DEF CmdResult, ErrorOnly, Err
<1>2. Moves(r, "done") /\ call'[r].res = ErrorOnly(err)
  BY <1>1, SetResult DEF Refused, CPInv, PCs
<1> QED
  BY <1>1, <1>2

LEMMA ResultMoves ==
  ASSUME CPInv, NEW r \in Requests, NEW err \in Err, HasResult(r, err)
  PROVE  Moves(r, "result") /\ call'[r].res.err = err
<1> DEFINE res == [err |-> err, len |-> call[r].body.len, blank |-> call[r].body.blank]
<1>1. res \in CmdResult /\ res.err = err
  <2>1. call[r].body \in CommandBody
    BY DEF CPInv, CmdCall
  <2>2. call[r].body.len \in Nat /\ call[r].body.blank \in BOOLEAN
    BY <2>1 DEF CommandBody
  <2> QED
    BY <2>2 DEF CmdResult
<1>2. call' = [call EXCEPT ![r].pc = "result", ![r].res = res]
  BY DEF HasResult
<1> HIDE DEF res
<1> QED
  BY <1>1, <1>2, SetResult DEF CPInv, PCs

(* A step of a command that has been accepted and has no answer yet.       *)
LEMMA StaysAccepted ==
  ASSUME CPInv, NEW r \in Requests, NEW pc \in {"dispatch", "lookup", "wait", "kill", "result"},
         Moves(r, pc), call[r].pc \in {"totp", "dispatch", "lookup", "wait", "kill"},
         pc = "result" => call'[r].res.err \notin {"no PIN", "TOTP used"},
         UNCHANGED <<lockDown, emergency, clock, lintText>>
  PROVE  CPInv' /\ UNCHANGED Service!serviceVars
<1>1. CPInv'
  BY CallMoves DEF PCs, CPInv
<1>2. Phase(call'[r]) = "accepted" /\ Phase(call[r]) = "accepted"
  BY DEF Phase, Moves
<1>3. UNCHANGED Service!serviceVars
  BY <1>2, Stutters DEF CPUp
<1> QED
  BY <1>1, <1>3

LEMMA AdmitStep ==
  ASSUME CPInv, NEW r \in Requests, Admit(r)
  PROVE  CPInv' /\ [Service!Next]_Service!serviceVars
<1>1. /\ CPUp /\ call[r].pc = "entered"
      /\ UNCHANGED <<lockDown, emergency, lintText, clock>>
  BY DEF Admit
<1>2. Phase(call[r]) = "asked" /\ CPUp' = CPUp
  BY <1>1 DEF Phase, CPUp
<1>3. ASSUME NEW err \in {"locked down", "rate limit", "too long"}, Refused(r, err)
      PROVE  CPInv' /\ [Service!Next]_Service!serviceVars
  <2>1. Moves(r, "done") /\ call'[r].res.err = err
    BY <1>3, RefusedMoves
  <2>2. call'[r].pc = "done"
    BY <2>1 DEF Moves
  <2>3. IsShaped(call'[r]) /\ Phase(call'[r]) = "answered"
    BY <2>1, <2>2 DEF IsShaped, Phase
  <2>4. CPInv'
    BY <1>1, <2>1, <2>3, CallMoves DEF CPInv, PCs
  <2>5. Service!Answer(r)
    BY <1>1, <1>2, <2>1, <2>3, Answers
  <2> QED
    BY <2>4, <2>5 DEF Service!Next
<1>4. ASSUME ~lockDown, call' = [call EXCEPT ![r].pc = "filter", ![r].post = ~call[r].input.report]
      PROVE  CPInv' /\ [Service!Next]_Service!serviceVars
  <2>1. PICK post \in BOOLEAN : post = ~call[r].input.report
    OBVIOUS
  <2>2. call' = [call EXCEPT ![r].pc = "filter", ![r].post = post]
    BY <1>4, <2>1
  <2>3. Moves(r, "filter")
    BY <2>2, SetPost DEF CPInv, PCs
  <2>4. ~call[r].late
    BY <1>4 DEF CPInv
  <2>5. CPInv'
    BY <1>1, <2>3, <2>4, CallMoves DEF CPInv, PCs
  <2>6. Phase(call'[r]) = "asked"
    BY <2>3 DEF Moves, Phase
  <2>7. UNCHANGED Service!serviceVars
    BY <1>1, <1>2, <2>3, <2>6, Stutters
  <2> QED
    BY <2>5, <2>7
<1> QED
  BY <1>3, <1>4 DEF Admit

LEMMA TranslateTyped == ASSUME NEW body \in CommandBody PROVE Translate(body) \in CommandBody
<1>1. TranslateText(body.app) \in STRING
  BY CPAssumption DEF TranslateText, CommandBody
<1> QED
  BY <1>1 DEF Translate, CommandBody

LEMMA PINStep ==
  ASSUME CPInv, NEW r \in Requests, PINTransform(r)
  PROVE  CPInv' /\ [Service!Next]_Service!serviceVars
<1>1. /\ CPUp /\ call[r].pc = "filter" /\ CPUp' = CPUp
      /\ UNCHANGED <<lockDown, emergency, lintText, clock>>
  BY DEF PINTransform, CPUp
<1>2. Phase(call[r]) = "asked" /\ ~call[r].late /\ call[r] \in CmdCall
  BY <1>1 DEF Phase, CPInv
<1>3. ASSUME NEW err \in {"no PIN", "TOTP used"}, Failed(r, err)
      PROVE  CPInv' /\ [Service!Next]_Service!serviceVars
  <2>1. Moves(r, "result") /\ call'[r].res.err = err
    BY <1>3, FailedMoves DEF Err
  <2>2. Phase(call'[r]) = "asked"
    BY <2>1 DEF Phase, Moves
  <2>3. CPInv'
    BY <1>1, <2>1, CallMoves DEF CPInv, PCs
  <2>4. UNCHANGED Service!serviceVars
    BY <1>1, <1>2, <2>1, <2>2, Stutters
  <2> QED
    BY <2>3, <2>4
<1>4. ASSUME NEW n \in DOMAIN call[r].input.lines, LineMatches(call[r].input.lines[n], clock),
             Accepted(r, call[r].input.lines[n])
      PROVE  CPInv' /\ [Service!Next]_Service!serviceVars
  <2> DEFINE line == call[r].input.lines[n]
  <2>1. CPAuthorised(call[r].input, clock)
    BY <1>4 DEF CPAuthorised
  <2>2. line.body \in CommandBody /\ line.code \in Code
    <3>1. call[r].input \in CommandInput
      BY <1>2 DEF CmdCall
    <3>2. call[r].input.lines \in Seq(CommandLine)
      BY <3>1 DEF CommandInput
    <3>3. line \in CommandLine
      BY <1>4, <3>2
    <3> HIDE DEF line
    <3> QED
      BY <3>3 DEF CommandLine, Code
  <2> HIDE DEF line
  <2>3. ASSUME NEW pc \in {"dispatch", "totp"}, Moves(r, pc)
        PROVE  CPInv' /\ [Service!Next]_Service!serviceVars
    <3>1. Phase(call'[r]) = "accepted"
      BY <2>3 DEF Phase, Moves
    <3>2. CPInv'
      BY <1>1, <2>3, CallMoves DEF CPInv, PCs
    <3>3. Service!Accept(r)
      BY <1>1, <1>2, <2>1, <2>3, <3>1, Accepts
    <3> QED
      BY <3>2, <3>3 DEF Service!Next
  <2>4. CASE call' = [call EXCEPT ![r].pc = "dispatch", ![r].body = Translate(ShortcutBody)]
    <3>1. Translate(ShortcutBody) \in CommandBody
      BY CPAssumption, TranslateTyped
    <3>2. Moves(r, "dispatch")
      BY <2>4, <3>1, SetBody DEF CPInv, PCs
    <3> QED
      BY <2>3, <3>2
  <2>5. CASE call' = [call EXCEPT ![r].pc = "dispatch", ![r].body = Translate(line.body)]
    <3>1. Translate(line.body) \in CommandBody
      BY <2>2, TranslateTyped
    <3>2. Moves(r, "dispatch")
      BY <2>5, <3>1, SetBody DEF CPInv, PCs
    <3> QED
      BY <2>3, <3>2
  <2>6. CASE Failed(r, "TOTP used")
    BY <1>3, <2>6
  <2>7. CASE call' = [call EXCEPT ![r].pc = "totp", ![r].body = line.body, ![r].code = line.code]
    <3>1. Moves(r, "totp")
      BY <2>2, <2>7, SetCode DEF CPInv, PCs
    <3> QED
      BY <2>3, <3>1
  <2> QED
    BY <1>4, <2>4, <2>5, <2>6, <2>7 DEF Accepted, line
<1> QED
  BY <1>3, <1>4 DEF PINTransform

LEMMA DispatchStep ==
  ASSUME CPInv, NEW r \in Requests, Dispatch(r)
  PROVE  CPInv' /\ UNCHANGED Service!serviceVars
<1>1. call[r].pc = "dispatch" /\ UNCHANGED <<lockDown, emergency, clock, lintText>>
  BY DEF Dispatch
<1>2. call[r].body.plt \in PLTParams
  <2>1. call[r].body \in CommandBody
    BY DEF CPInv, CmdCall
  <2> QED
    BY <2>1 DEF CommandBody
<1>3. ASSUME NEW err \in {"empty command", "bad PLT"}, Failed(r, err)
      PROVE  CPInv' /\ UNCHANGED Service!serviceVars
  <2>1. Moves(r, "result") /\ call'[r].res.err = err
    BY <1>3, FailedMoves DEF Err
  <2> QED
    BY <1>1, <2>1, StaysAccepted
<1>4. CASE call' = [call EXCEPT ![r].pc = "result", ![r].plt = call[r].body.plt,
                                ![r].res = ErrorOnly("bad PLT")]
  <2>1. ErrorOnly("bad PLT") \in CmdResult /\ ErrorOnly("bad PLT").err = "bad PLT"
    BY DEF ErrorOnly, CmdResult, Err
  <2>2. Moves(r, "result") /\ call'[r].res = ErrorOnly("bad PLT")
    <3>1. PICK plt \in PLTParams : plt = call[r].body.plt
      BY <1>2
    <3>2. PICK res \in CmdResult : res = ErrorOnly("bad PLT")
      BY <2>1
    <3>3. call' = [call EXCEPT ![r].pc = "result", ![r].plt = plt, ![r].res = res]
      BY <1>4, <3>1, <3>2
    <3>4. Moves(r, "result") /\ call'[r].res = res
      BY <3>3, SetPLTResult DEF CPInv, PCs
    <3> QED
      BY <3>2, <3>4
  <2>3. call'[r].res.err \notin {"no PIN", "TOTP used"}
    BY <2>1, <2>2
  <2> QED
    BY <1>1, <2>2, <2>3, StaysAccepted
<1>5. CASE call' = [call EXCEPT ![r].pc = "lookup", ![r].plt = call[r].body.plt]
  <2>1. Moves(r, "lookup")
    BY <1>2, <1>5, SetPLT DEF CPInv, PCs
  <2> QED
    BY <1>1, <2>1, StaysAccepted
<1> QED
  BY <1>3, <1>4, <1>5 DEF Dispatch

LEMMA RememberStep ==
  ASSUME CPInv, NEW r \in Requests, RememberTOTP(r)
  PROVE  CPInv' /\ UNCHANGED Service!serviceVars
<1>1. /\ call[r].pc = "totp" /\ UNCHANGED <<lockDown, emergency, clock, lintText>>
      /\ call' = [call EXCEPT ![r].pc = "dispatch", ![r].body = Translate(call[r].body)]
  BY DEF RememberTOTP
<1>2. Translate(call[r].body) \in CommandBody
  <2>1. call[r].body \in CommandBody
    BY DEF CPInv, CmdCall
  <2> QED
    BY <2>1, TranslateTyped
<1>3. Moves(r, "dispatch")
  BY <1>1, <1>2, SetBody DEF CPInv, PCs
<1> QED
  BY <1>1, <1>3, StaysAccepted

(* The app, or the program it runs, has come to a result.                  *)
LEMMA RunStep ==
  ASSUME CPInv, NEW r \in Requests,
         ExecuteApp(r) \/ StartProgram(r) \/ CollectExit(r) \/ TimeLimit(r) \/ KillProcess(r)
  PROVE  CPInv' /\ UNCHANGED Service!serviceVars
<1>1. call[r].pc \in {"lookup", "wait", "kill"} /\ UNCHANGED <<lockDown, emergency, clock, lintText>>
  BY DEF ExecuteApp, StartProgram, CollectExit, TimeLimit, KillProcess
<1>2. ASSUME NEW err \in Err \ {"no PIN", "TOTP used"}, Failed(r, err) \/ HasResult(r, err)
      PROVE  CPInv' /\ UNCHANGED Service!serviceVars
  <2>1. Moves(r, "result") /\ call'[r].res.err = err
    BY <1>2, FailedMoves, ResultMoves
  <2> QED
    BY <1>1, <1>2, <2>1, StaysAccepted
<1>3. ASSUME NEW pc \in {"wait", "kill"}, call' = [call EXCEPT ![r].pc = pc]
      PROVE  CPInv' /\ UNCHANGED Service!serviceVars
  <2>1. Moves(r, pc)
    BY <1>3, SetPC DEF CPInv, PCs
  <2> QED
    BY <1>1, <2>1, StaysAccepted
<1>4. CASE ExecuteApp(r)
  <2>1. \E err \in {"none", "app error", "bad prefix"} : Failed(r, err) \/ HasResult(r, err)
    BY <1>4 DEF ExecuteApp
  <2> QED
    BY <1>2, <2>1 DEF Err
<1>5. CASE StartProgram(r)
  <2>1. \/ \E err \in {"invalid time limit", "cannot start"} : Failed(r, err)
        \/ call' = [call EXCEPT ![r].pc = "wait"]
    BY <1>5 DEF StartProgram
  <2> QED
    BY <1>2, <1>3, <2>1 DEF Err
<1>6. CASE CollectExit(r) \/ KillProcess(r)
  <2>1. \E err \in {"none", "exit status", "time limit exceeded"} : HasResult(r, err)
    BY <1>6 DEF CollectExit, KillProcess
  <2> QED
    BY <1>2, <2>1 DEF Err
<1>7. CASE TimeLimit(r)
  BY <1>3, <1>7 DEF TimeLimit
<1> QED
  BY <1>4, <1>5, <1>6, <1>7

LEMMA EnvControlStep ==
  ASSUME CPInv, NEW r \in Requests, ExecuteEnvControl(r)
  PROVE  CPInv' /\ [Service!Next]_Service!serviceVars
<1>1. CPUp /\ call[r].pc = "lookup" /\ UNCHANGED <<clock, lintText>>
  BY DEF ExecuteEnvControl
<1>2. \/ UNCHANGED <<lockDown, emergency>>
      \/ lockDown' = TRUE /\ UNCHANGED emergency
      \/ emergency' = "ending" /\ UNCHANGED lockDown
  BY DEF ExecuteEnvControl, TriggerEmergencyLockDown, TriggerEmergencyStop
<1>3. Moves(r, "result") /\ call'[r].res.err \in {"none", "env choices"}
  <2>1. \E err \in {"none", "env choices"} : Failed(r, err) \/ HasResult(r, err)
    BY DEF ExecuteEnvControl
  <2> QED
    BY <2>1, FailedMoves, ResultMoves DEF Err
<1>4. Phase(call[r]) = "accepted" /\ Phase(call'[r]) = "accepted"
  BY <1>1, <1>3 DEF Phase, Moves
<1>5. CPInv'
  <2>1. lockDown' \in BOOLEAN /\ (lockDown => lockDown') /\ emergency' \in {"none", "ending", "down"}
    BY <1>2 DEF CPInv
  <2> QED
    BY <1>1, <1>3, <2>1, CallMoves DEF PCs
<1>6. CPUp' = CPUp
  BY <1>1, <1>2 DEF CPUp
<1>7. CASE lockDown' = lockDown
  BY <1>1, <1>3, <1>4, <1>5, <1>6, <1>7, Stutters
<1>8. CASE lockDown' = TRUE
  <2>1. /\ [q \in Requests |-> Phase(call'[q])] = [q \in Requests |-> Phase(call[q])]
        /\ [q \in Requests |-> call'[q].input] = [q \in Requests |-> call[q].input]
        /\ [q \in Requests |-> call'[q].late] = [q \in Requests |-> call[q].late]
    <3>1. \A q \in Requests : Phase(call'[q]) = Phase(call[q])
      BY <1>3, <1>4 DEF Moves
    <3>2. [q \in Requests |-> Phase(call'[q])] = [q \in Requests |-> Phase(call[q])]
      BY <3>1
    <3> QED
      BY <1>3, <3>2, PhaseMoves
  <2>2. Service!LockDown(r)
    BY <1>1, <1>4, <1>6, <1>8, <2>1 DEF Service!LockDown
  <2> QED
    BY <1>5, <2>2 DEF Service!Next
<1> QED
  BY <1>2, <1>7, <1>8

(* The result filters.                                                     *)
LEMMA FinishStep ==
  ASSUME CPInv, NEW r \in Requests, Finish(r)
  PROVE  CPInv' /\ [Service!Next]_Service!serviceVars
<1> DEFINE c == call[r]
           lint == IF c.plt.kind = "ok" THEN [begin |-> c.plt.begin, max |-> c.plt.max] ELSE lintText
           text == CombinedText(c.res)
           shaped == IF c.post THEN SayEmptyOutput(Lint(text, lint)) ELSE text
           res == [err |-> c.res.err, len |-> shaped.len, blank |-> shaped.blank]
<1>1. /\ CPUp /\ c.pc = "result" /\ CPUp' = CPUp /\ UNCHANGED <<lockDown, emergency, lintText, clock>>
      /\ call' = [call EXCEPT ![r].pc = "done", ![r].res = res]
  BY DEF Finish, CPUp
<1>2. /\ c.res.err \in Err /\ c.res.len \in Nat /\ c.res.blank \in BOOLEAN
      /\ c.plt.begin \in Nat /\ c.plt.max \in Nat
  <2>1. c.res \in CmdResult /\ c.plt \in PLTParams
    BY DEF CPInv, CmdCall
  <2> HIDE DEF c
  <2> QED
    BY <2>1 DEF CmdResult, PLTParams
<1>3. /\ lint.begin \in Nat /\ lint.max \in Nat
      /\ lint.max = IF c.plt.kind = "ok" THEN c.plt.max ELSE MaxLength
      /\ lint.begin = IF c.plt.kind = "ok" THEN c.plt.begin ELSE 0
  BY <1>2, CPAssumption DEF CPInv
<1>4. /\ text.len \in Nat /\ text.blank \in BOOLEAN
      /\ text.len >= IF c.res.err = "none" THEN 0 ELSE ErrLen
      /\ c.res.err # "none" => ~text.blank
  <2> DEFINE e == c.res
  <2>1. e.err \in Err /\ e.len \in Nat /\ e.blank \in BOOLEAN /\ text = CombinedText(e)
    BY <1>2
  <2> HIDE DEF e
  <2>2. CASE e.err = "none"
    <3>1. text = [len |-> 0 + e.len, blank |-> 0 = 0 /\ e.blank]
      BY <2>1, <2>2 DEF CombinedText
    <3> QED
      BY <2>1, <2>2, <3>1 DEF e
  <2>3. CASE e.err # "none"
    <3> DEFINE n == ErrLen + (IF e.len > 0 THEN 1 ELSE 0)
    <3>1. text = [len |-> n + e.len, blank |-> n = 0 /\ e.blank]
      BY <2>1, <2>3 DEF CombinedText
    <3>2. n \in Nat /\ n >= ErrLen /\ n # 0
      BY <2>1, CPAssumption
    <3> HIDE DEF n
    <3>3. text.len = n + e.len /\ text.blank \in BOOLEAN /\ ~text.blank
      <4>1. (n = 0 /\ e.blank) = FALSE
        BY <3>2
      <4>2. text = [len |-> n + e.len, blank |-> FALSE]
        BY <3>1, <4>1
      <4> HIDE DEF text
      <4> QED
        BY <4>2
    <3> HIDE DEF text
    <3>4. text.len \in Nat /\ text.len >= ErrLen
      BY <2>1, <3>2, <3>3, CPAssumption
    <3> QED
      BY <2>3, <3>3, <3>4 DEF e
  <2> QED
    BY <2>2, <2>3
<1> HIDE DEF lint, text
<1> DEFINE linted == Lint(text, lint)
<1>5. /\ linted.len \in Nat /\ linted.blank = FALSE
      /\ lint.max = 0 \/ linted.len <= lint.max
      /\ lint.begin = 0 /\ ~text.blank => linted.len = text.len \/ (lint.max # 0 /\ linted.len = lint.max)
  BY <1>3, <1>4 DEF Lint
<1> HIDE DEF linted
<1>6. ASSUME c.post
      PROVE  /\ shaped.len \in Nat \ {0} /\ ~shaped.blank
             /\ shaped.len = EmptyOutputLen \/ shaped.len = linted.len
             /\ shaped.blank \in BOOLEAN
             /\ linted.len # 0 => shaped.len = linted.len
  <2>1. shaped = SayEmptyOutput(linted)
    BY <1>6 DEF linted
  <2> HIDE DEF shaped
  <2> QED
    BY <1>5, <2>1, CPAssumption DEF SayEmptyOutput
<1>7. shaped.len \in Nat /\ shaped.blank \in BOOLEAN
  <2>1. CASE c.post
    <3> HIDE DEF shaped
    <3> QED
      BY <1>6, <2>1
  <2>2. CASE ~c.post
    BY <1>4, <2>2
  <2> QED
    BY <2>1, <2>2
<1> HIDE DEF shaped
<1>8. res \in CmdResult /\ res.err = c.res.err /\ res.len = shaped.len /\ res.blank = shaped.blank
  BY <1>2, <1>7 DEF CmdResult
<1> HIDE DEF res
<1>9. Moves(r, "done") /\ call'[r].res = res /\ call'[r].plt = c.plt /\ call'[r].post = c.post
  BY <1>1, <1>8, SetResult DEF CPInv, PCs
<1>10. Phase(call[r]) \in {"asked", "accepted"} /\ Phase(call'[r]) = "answered"
  BY <1>1, <1>9 DEF Phase, Moves
<1>11. IsShaped(call'[r])
  <2> DEFINE limit == IF c.plt.kind = "ok" THEN c.plt.max ELSE MaxLength
             shortest == IF c.res.err = "none" THEN 0 ELSE ErrLen
  <2>1. ASSUME c.post
        PROVE  /\ shaped.len > 0 /\ ~shaped.blank
               /\ limit = 0 \/ shaped.len <= limit \/ shaped.len = EmptyOutputLen
    BY <1>3, <1>5, <1>6, <2>1
  <2>2. ASSUME c.post, c.plt.kind # "ok" \/ c.plt.begin = 0
        PROVE  shaped.len >= shortest \/ shaped.len = limit
    <3>1. CASE c.res.err = "none"
      BY <1>7, <3>1
    <3>2. CASE c.res.err # "none"
      <4>1. linted.len = text.len \/ (lint.max # 0 /\ linted.len = lint.max)
        BY <1>3, <1>4, <1>5, <2>2, <3>2
      <4>2. text.len >= ErrLen /\ linted.len # 0
        BY <1>3, <1>4, <1>5, <3>2, <4>1, CPAssumption
      <4> QED
        BY <1>3, <1>6, <2>2, <3>2, <4>1, <4>2
    <3> QED
      BY <3>1, <3>2
  <2> QED
    BY <1>8, <1>9, <2>1, <2>2 DEF IsShaped
<1>12. CPInv'
  BY <1>1, <1>9, <1>11, CallMoves DEF CPInv, PCs
<1>13. Service!Answer(r)
  BY <1>1, <1>9, <1>10, Answers
<1> QED
  BY <1>12, <1>13 DEF Service!Next

LEMMA NoCallTyped == NoCall \in CmdCall
<1>1. NoInput \in CommandInput
  BY DEF NoInput, CommandInput
<1>2. NoPLT \in PLTParams /\ ErrorOnly("none") \in CmdResult /\ <<0, 0>> \in Code
  BY DEF NoPLT, PLTParams, ErrorOnly, CmdResult, Err, Code
<1> QED
  BY <1>1, <1>2, CPAssumption DEF NoCall, CmdCall, PCs

(* A call begins, remembering whether it comes after the lock-down.        *)
LEMMA CallStep ==
  ASSUME CPInv, NEW r \in Requests, NEW i \in Inputs[r], Call(r, i)
  PROVE  CPInv' /\ Service!Ask(r, i)
<1> DEFINE c == [NoCall EXCEPT !.pc = "entered", !.input = i, !.late = lockDown]
<1>1. /\ CPUp /\ call[r].pc = "idle" /\ CPUp' = CPUp
      /\ UNCHANGED <<lockDown, emergency, lintText, clock>> /\ call' = [call EXCEPT ![r] = c]
  BY DEF Call, CPUp
<1>2. i \in CommandInput /\ lockDown \in BOOLEAN
  BY CPAssumption DEF CPInv
<1>3. c \in CmdCall /\ c.pc = "entered" /\ c.input = i /\ c.late = lockDown
  <2> DEFINE d == [NoCall EXCEPT !.pc = "entered", !.input = i]
  <2>1. d \in CmdCall /\ d.pc = "entered" /\ d.input = i
    BY <1>2, NoCallTyped DEF CmdCall, PCs
  <2>2. c = [d EXCEPT !.late = lockDown]
    OBVIOUS
  <2> HIDE DEF d, c
  <2> QED
    BY <1>2, <2>1, <2>2 DEF CmdCall
<1> HIDE DEF c
<1>4. /\ call' \in [Requests -> CmdCall] /\ call'[r] = c
      /\ \A q \in Requests : q # r => call'[q] = call[q]
  BY <1>1, <1>3 DEF CPInv
<1>5. CPInv'
  <2>1. IsShaped(c)
    BY <1>3 DEF IsShaped
  <2>2. \A q \in Requests : IsShaped(call'[q])
    BY <1>4, <2>1 DEF CPInv, AnswersAreShaped
  <2>3. AnswersAreShaped'
    BY <2>2 DEF AnswersAreShaped
  <2>4. \A q \in Requests : /\ call'[q].late => lockDown'
                            /\ call'[q].pc = "filter" => ~call'[q].late
    BY <1>1, <1>3, <1>4 DEF CPInv
  <2> QED
    BY <1>1, <1>4, <2>3, <2>4 DEF CPInv
<1>6. Service!Ask(r, i)
  <2>1. Phase(c) = "asked" /\ Phase(call[r]) = "idle"
    BY <1>1, <1>3 DEF Phase
  <2>2. [q \in Requests |-> Phase(call'[q])]
          = [[q \in Requests |-> Phase(call[q])] EXCEPT ![r] = "asked"]
    BY <1>4, <2>1
  <2>3. [q \in Requests |-> call'[q].input] = [[q \in Requests |-> call[q].input] EXCEPT ![r] = i]
    BY <1>3, <1>4
  <2>4. [q \in Requests |-> call'[q].late]
          = [[q \in Requests |-> call[q].late] EXCEPT ![r] = lockDown]
    BY <1>3, <1>4
  <2> QED
    BY <1>1, <2>1, <2>2, <2>3, <2>4 DEF Service!Ask
<1> QED
  BY <1>5, <1>6

LEMMA NoCallFields == NoCall.pc = "idle" /\ NoCall.input = NoInput /\ NoCall.late = FALSE
  BY DEF NoCall

LEMMA TakeStep ==
  ASSUME CPInv, NEW r \in Requests, TakeResult(r)
  PROVE  CPInv' /\ Service!Return(r)
<1>1. /\ CPUp /\ call[r].pc = "done" /\ CPUp' = CPUp
      /\ UNCHANGED <<lockDown, emergency, lintText, clock>> /\ call' = [call EXCEPT ![r] = NoCall]
  BY DEF TakeResult, CPUp
<1>2. /\ call' \in [Requests -> CmdCall] /\ call'[r] = NoCall
      /\ \A q \in Requests : q # r => call'[q] = call[q]
  BY <1>1, NoCallTyped DEF CPInv
<1>3. CPInv'
  <2>1. IsShaped(NoCall)
    BY NoCallFields DEF IsShaped
  <2>2. \A q \in Requests : IsShaped(call'[q])
    BY <1>2, <2>1 DEF CPInv, AnswersAreShaped
  <2>3. AnswersAreShaped'
    BY <2>2 DEF AnswersAreShaped
  <2>4. \A q \in Requests : /\ call'[q].late => lockDown'
                            /\ call'[q].pc = "filter" => ~call'[q].late
    BY <1>1, <1>2, NoCallFields DEF CPInv
  <2> QED
    BY <1>1, <1>2, <2>3, <2>4 DEF CPInv
<1>4. Service!Return(r)
  <2>1. Phase(NoCall) = "idle" /\ Phase(call[r]) = "answered"
    BY <1>1, NoCallFields DEF Phase
  <2>2. [q \in Requests |-> Phase(call'[q])]
          = [[q \in Requests |-> Phase(call[q])] EXCEPT ![r] = "idle"]
    BY <1>2, <2>1
  <2>3. [q \in Requests |-> call'[q].input]
          = [[q \in Requests |-> call[q].input] EXCEPT ![r] = NoInput]
    BY <1>2, NoCallFields
  <2>4. [q \in Requests |-> call'[q].late]
          = [[q \in Requests |-> call[q].late] EXCEPT ![r] = FALSE]
    BY <1>2, NoCallFields
  <2> QED
    BY <1>1, <2>1, <2>2, <2>3, <2>4 DEF Service!Return
<1> QED
  BY <1>3, <1>4

(* All calls are idle: at the beginning, and when the program has ended.   *)
LEMMA AllIdle ==
  ASSUME call = [r \in Requests |-> NoCall], lockDown \in BOOLEAN, clock \in Nat,
         emergency \in {"none", "ending", "down"}, lintText = [begin |-> 0, max |-> MaxLength]
  PROVE  /\ CPInv
         /\ [r \in Requests |-> Phase(call[r])] = [r \in Requests |-> "idle"]
         /\ [r \in Requests |-> call[r].input] = [r \in Requests |-> NoInput]
         /\ [r \in Requests |-> call[r].late] = [r \in Requests |-> FALSE]
<1>1. call \in [Requests -> CmdCall] /\ \A r \in Requests : call[r] = NoCall
  BY NoCallTyped
<1>2. IsShaped(NoCall) /\ Phase(NoCall) = "idle"
  BY NoCallFields DEF IsShaped, Phase
<1>3. AnswersAreShaped
  BY <1>1, <1>2 DEF AnswersAreShaped
<1>4. \A r \in Requests : ~call[r].late
  BY <1>1, NoCallFields
<1>5. CPInv
  BY <1>1, <1>3, <1>4 DEF CPInv
<1>6. [r \in Requests |-> Phase(call[r])] = [r \in Requests |-> "idle"]
  BY <1>1, <1>2
<1>7. [r \in Requests |-> call[r].input] = [r \in Requests |-> NoInput]
  BY <1>1, NoCallFields
<1>8. [r \in Requests |-> call[r].late] = [r \in Requests |-> FALSE]
  BY <1>1, NoCallFields
<1> QED
  BY <1>5, <1>6, <1>7, <1>8

LEMMA CPInitial == CPInit => CPInv /\ Service!Init
<1> SUFFICES ASSUME CPInit PROVE CPInv /\ Service!Init
  OBVIOUS
<1>1. /\ call = [r \in Requests |-> NoCall] /\ lockDown = FALSE /\ clock = 1
      /\ emergency = "none" /\ lintText = [begin |-> 0, max |-> MaxLength]
  BY DEF CPInit
<1>2. lockDown \in BOOLEAN /\ clock \in Nat /\ emergency \in {"none", "ending", "down"} /\ CPUp
  BY <1>1 DEF CPUp
<1>3. CPUp = TRUE
  BY <1>1 DEF CPUp
<1> QED
  BY <1>1, <1>2, <1>3, AllIdle DEF Service!Init

LEMMA EndStep == ASSUME CPInv, EmergencyEnd PROVE CPInv' /\ Service!Crash
<1>1. /\ call' = [r \in Requests |-> NoCall] /\ UNCHANGED <<lockDown, lintText, clock>>
      /\ emergency = "ending" /\ emergency' = "down"
  BY DEF EmergencyEnd
<1>2. call' \in [Requests -> CmdCall] /\ \A r \in Requests : call'[r] = NoCall
  BY <1>1, NoCallTyped
<1>3. IsShaped(NoCall) /\ Phase(NoCall) = "idle"
  BY NoCallFields DEF IsShaped, Phase
<1>4. \A r \in Requests : IsShaped(call'[r])
  BY <1>2, <1>3
<1>5. AnswersAreShaped'
  BY <1>4 DEF AnswersAreShaped
<1>6. \A r \in Requests : ~call'[r].late
  BY <1>2, NoCallFields
<1>7. CPInv'
  BY <1>1, <1>2, <1>5, <1>6 DEF CPInv
<1>8. /\ [r \in Requests |-> Phase(call'[r])] = [r \in Requests |-> "idle"]
      /\ [r \in Requests |-> call'[r].input] = [r \in Requests |-> NoInput]
      /\ [r \in Requests |-> call'[r].late] = [r \in Requests |-> FALSE]
  <2>1. [r \in Requests |-> Phase(call'[r])] = [r \in Requests |-> "idle"]
    BY <1>2, <1>3
  <2>2. [r \in Requests |-> call'[r].input] = [r \in Requests |-> NoInput]
    BY <1>2, NoCallFields
  <2>3. [r \in Requests |-> call'[r].late] = [r \in Requests |-> FALSE]
    BY <1>2, NoCallFields
  <2> QED
    BY <2>1, <2>2, <2>3
<1>9. CPUp /\ CPUp' = FALSE
  BY <1>1 DEF CPUp
<1> QED
  BY <1>1, <1>7, <1>8, <1>9 DEF Service!Crash

(* A step that leaves the calls alone.                                     *)
LEMMA QuietStep ==
  ASSUME CPInv, UNCHANGED <<call, lockDown, emergency, lintText>>, clock' \in Nat
  PROVE  CPInv'
<1>1. AnswersAreShaped'
  BY DEF CPInv, AnswersAreShaped, IsShaped
<1> QED
  BY <1>1 DEF CPInv

LEMMA CPPreserved ==
  CPInv /\ [CPNext]_cpVars => CPInv' /\ [Service!Next]_Service!serviceVars
<1>1. ASSUME CPInv, NEW r \in Requests, NEW i \in Inputs[r], Call(r, i)
      PROVE  CPInv' /\ [Service!Next]_Service!serviceVars
  BY <1>1, CallStep DEF Service!Next
<1>2. ASSUME CPInv, NEW r \in Requests, TakeResult(r)
      PROVE  CPInv' /\ [Service!Next]_Service!serviceVars
  BY <1>2, TakeStep DEF Service!Next
<1>3. ASSUME CPInv, NEW r \in Requests, CPStep(r)
      PROVE  CPInv' /\ [Service!Next]_Service!serviceVars
  BY <1>3, AdmitStep, PINStep, RememberStep, DispatchStep, RunStep, EnvControlStep, FinishStep
  DEF CPStep
<1>4. ASSUME CPInv, NEW r \in Requests, ProgramExits(r)
      PROVE  CPInv' /\ [Service!Next]_Service!serviceVars
  <2>1. UNCHANGED <<call, lockDown, emergency, lintText, clock>>
    BY <1>4 DEF ProgramExits
  <2>2. CPInv'
    BY <1>4, <2>1, QuietStep DEF CPInv
  <2>3. UNCHANGED Service!serviceVars
    BY <2>1 DEF Service!serviceVars, CPUp, Phase
  <2> QED
    BY <2>2, <2>3
<1>5. ASSUME CPInv, EmergencyEnd
      PROVE  CPInv' /\ [Service!Next]_Service!serviceVars
  BY <1>5, EndStep DEF Service!Next
<1>6. ASSUME CPInv, NextDivision
      PROVE  CPInv' /\ [Service!Next]_Service!serviceVars
  <2>1. /\ UNCHANGED <<call, lockDown, emergency, lintText>> /\ clock' = clock + 1 /\ clock' \in Nat
        /\ CPUp
    BY <1>6 DEF NextDivision, CPInv
  <2>2. CPInv'
    BY <1>6, <2>1, QuietStep
  <2>3. Service!Clock
    BY <2>1 DEF Service!Clock, CPUp, Phase
  <2> QED
    BY <2>2, <2>3 DEF Service!Next
<1>7. ASSUME CPInv, UNCHANGED cpVars
      PROVE  CPInv' /\ [Service!Next]_Service!serviceVars
  <2>1. UNCHANGED <<call, lockDown, emergency, lintText, clock>>
    BY <1>7 DEF cpVars
  <2>2. CPInv'
    BY <1>7, <2>1, QuietStep DEF CPInv
  <2>3. UNCHANGED Service!serviceVars
    BY <2>1 DEF Service!serviceVars, CPUp, Phase
  <2> QED
    BY <2>2, <2>3
<1> QED
  BY <1>1, <1>2, <1>3, <1>4, <1>5, <1>6, <1>7 DEF CPNext

(* Whatever other commands are under way, an answer that went through the  *)
(* result filters is shaped by the P and L of its own command (Process,    *)
(* LintText, SayEmptyOutput).                                              *)
THEOREM AnswersAlwaysShaped == CPSpec => []AnswersAreShaped
<1>1. CPInv => AnswersAreShaped
  BY DEF CPInv
<1> QED
  BY <1>1, CPInitial, CPPreserved, PTL DEF CPSpec

(* Process keeps the promise of CommandService, but for its liveness: each *)
(* step is a step of the service or none.  A command is accepted at most   *)
(* once, with a credential that is good at that moment, and never if it    *)
(* came after the lock-down.                                               *)
THEOREM ServiceKeptSafe == CPSpec => Service!Init /\ [][Service!Next]_Service!serviceVars
  BY CPInitial, CPPreserved, PTL DEF CPSpec
=============================================================================
