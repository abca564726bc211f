----------------------- MODULE MessageProcessorProofs -----------------------
(***************************************************************************)
(* Proofs about the message processor, for every set of hosts, commands    *)
(* and goroutines and every choice of the limits.                          *)
(***************************************************************************)
EXTENDS MessageProcessor, TLAPS

(* The five shapes of a goroutine's local state.                           *)
StoredCall == [pc : {"stored"}, host : Host, cmd : CmdOrNone, time : Time, out : CmdOrNone]
ReadCall == [pc : {"read"}, host : Host, cmd : CmdOrNone, time : Time, out : CmdOrNone,
             prev : Incoming \cup {Absent}]
RunningCall == [pc : {"running"}, host : Host, cmd : Command, time : Time, out : CmdOrNone]
DoneCall == [pc : {"done"}, cmd : CmdOrNone, reply : Reply]

(* pc tells which of the shapes a call has.                                *)
LEMMA CallShape ==
  ASSUME NEW c \in Call
  PROVE  /\ c.pc \in {"idle", "stored", "read", "running", "done"}
         /\ c.pc = "stored" => c \in StoredCall
         /\ c.pc = "read" => c \in ReadCall
         /\ c.pc = "running" => c \in RunningCall
         /\ c.pc = "done" => c \in DoneCall
BY DEF Call, StoredCall, ReadCall, RunningCall, DoneCall

(* The shapes are calls.                                                   *)
LEMMA ShapeIsCall ==
  /\ Idle \in Call
  /\ StoredCall \subseteq Call
  /\ ReadCall \subseteq Call
  /\ RunningCall \subseteq Call
  /\ DoneCall \subseteq Call
BY DEF Call, Idle, StoredCall, ReadCall, RunningCall, DoneCall

(* A report history stays a sequence of reports, never longer than it may  *)
(* be, and ends with the new report.                                       *)
LEMMA WithReportProperties ==
  ASSUME NEW s \in Seq(Report), NEW r \in Report
  PROVE  /\ WithReport(s, r) \in Seq(Report)
         /\ WithReport(s, r) # <<>>
         /\ Len(WithReport(s, r)) \in Nat \ {0}
         /\ WithReport(s, r)[Len(WithReport(s, r))] = r
         /\ Len(s) <= MaxReportsPerHostName => Len(WithReport(s, r)) <= MaxReportsPerHostName
<1> MaxReportsPerHostName \in Nat \ {0}
  BY ConstantsAssumption
<1>1. CASE Len(s) = MaxReportsPerHostName
  <2>1. s # <<>>
    BY <1>1
  <2>2. Tail(s) \in Seq(Report) /\ Len(Tail(s)) = Len(s) - 1
    BY <2>1
  <2> QED BY <1>1, <2>2 DEF WithReport
<1>2. CASE Len(s) # MaxReportsPerHostName
  BY <1>2 DEF WithReport
<1> QED BY <1>1, <1>2

(* Deleting keys keeps the type of a map.                                  *)
LEMMA WithoutType ==
  ASSUME NEW S, NEW none \in S, NEW m \in [Host -> S], NEW hs
  PROVE  Without(m, hs, none) \in [Host -> S]
BY DEF Without

-----------------------------------------------------------------------------
(* A goroutine that returns an answer gets a well-typed reply.             *)
LEMMA AnswerType ==
  ASSUME TypeOK, NEW w \in Worker, NEW c \in CmdOrNone, NEW r \in BOOLEAN,
         call[w].pc \in {"stored", "read", "running"}, Answer(w, c, r)
  PROVE  call' \in [Worker -> Call]
<1>1. call[w] \in Call
  BY DEF TypeOK
<1>2. call[w].cmd \in CmdOrNone /\ call[w].out \in CmdOrNone
  BY <1>1, CallShape DEF StoredCall, ReadCall, RunningCall, CmdOrNone
<1>3. [pc |-> "done", cmd |-> call[w].cmd,
       reply |-> [out |-> call[w].out, cmd |-> c, ready |-> r]] \in DoneCall
  BY <1>2 DEF DoneCall, Reply
<1> QED BY <1>3, ShapeIsCall DEF Answer, TypeOK

(* Every step keeps the types.                                             *)
LEMMA TypeStep == TypeOK /\ [Next]_vars => TypeOK'
<1> SUFFICES ASSUME TypeOK, [Next]_vars
             PROVE  TypeOK'
  OBVIOUS
<1> USE ConstantsAssumption
<1>0. Absent \in Incoming \cup {Absent} /\ Absent \in CmdOrNone \cup {Absent}
      /\ <<>> \in Seq(Report)
  OBVIOUS
<1>1. CASE Tick
  BY <1>1 DEF Tick, mpvars, TypeOK, Time
<1>2. ASSUME NEW h \in Host, NEW c \in Ordered, SetOutgoingCommand(h, c)
      PROVE  TypeOK'
  BY <1>2 DEF SetOutgoingCommand, TypeOK, CmdOrNone
<1>3. ASSUME NEW w \in Worker, NEW h \in Host, NEW c \in CmdOrNone, NEW resp \in Response,
             StoreReport(w, h, c, resp)
      PROVE  TypeOK'
  <2> DEFINE new == [resp |-> resp, time |-> clock]
             reps == [SubjectReports EXCEPT ![h] = WithReport(@, new)]
             count == (totalReports + 1) % MaxReportsPerHostName
             expired == IF count = 0 THEN ExpiredSubjects(reps) ELSE {}
  <2>1. new \in Report
    BY DEF TypeOK, Report
  <2>2. reps \in [Host -> Seq(Report)]
    BY <2>1, WithReportProperties DEF TypeOK
  <2>3. count \in 0 .. MaxReportsPerHostName - 1
    BY DEF TypeOK
  <2>4. /\ SubjectReports' = Without(reps, expired, <<>>)
        /\ IncomingAppCommands' = Without(IncomingAppCommands, expired, Absent)
        /\ OutgoingAppCommands' = Without(OutgoingAppCommands, expired, Absent)
        /\ totalReports' = count
        /\ UNCHANGED <<hasCmdProcessor, clock>>
    BY <1>3 DEF StoreReport
  <2> HIDE DEF reps, count, expired
  <2>5. /\ SubjectReports' \in [Host -> Seq(Report)]
        /\ IncomingAppCommands' \in [Host -> Incoming \cup {Absent}]
        /\ OutgoingAppCommands' \in [Host -> CmdOrNone \cup {Absent}]
    BY <1>0, <2>2, <2>4, WithoutType DEF TypeOK
  <2>6. OutgoingFor(h) \in CmdOrNone
    BY DEF OutgoingFor, TypeOK, CmdOrNone
  <2>7. [pc |-> "stored", host |-> h, cmd |-> c, time |-> clock, out |-> OutgoingFor(h)]
          \in StoredCall
    BY <2>6 DEF StoredCall, TypeOK
  <2>8. call' \in [Worker -> Call]
    BY <1>3, <2>7, ShapeIsCall DEF StoreReport, TypeOK
  <2> QED BY <2>3, <2>4, <2>5, <2>8 DEF TypeOK
<1>4. ASSUME NEW w \in Worker, WorkerStep(w)
      PROVE  TypeOK'
  <2>0. call[w] \in Call
    BY DEF TypeOK
  <2>1. CASE SkipCommandRequest(w)
    BY <2>1, AnswerType DEF SkipCommandRequest, TypeOK, CmdOrNone
  <2>2. CASE ReadPrevCmd(w)
    <3>1. call[w] \in StoredCall
      BY <2>0, <2>2, CallShape DEF ReadPrevCmd
    <3>2. [pc |-> "read", host |-> call[w].host, cmd |-> call[w].cmd, time |-> call[w].time,
           out |-> call[w].out, prev |-> IncomingAppCommands[call[w].host]] \in ReadCall
      BY <3>1 DEF StoredCall, ReadCall, TypeOK
    <3> QED BY <2>2, <3>2, ShapeIsCall DEF ReadPrevCmd, TypeOK
  <2>3. CASE RetrievePrevResult(w)
    <3>1. call[w] \in ReadCall
      BY <2>0, <2>3, CallShape DEF RetrievePrevResult
    <3>2. IncomingAppCommands' \in [Host -> Incoming \cup {Absent}]
      BY <2>3 DEF RetrievePrevResult, TypeOK
    <3>3. call' \in [Worker -> Call]
      <4>1. CASE call[w].prev = Absent
        BY <2>3, <4>1, AnswerType DEF RetrievePrevResult, CmdOrNone
      <4>2. CASE call[w].prev # Absent
        <5>1. call[w].prev.cmd \in CmdOrNone /\ call[w].prev.ready \in BOOLEAN
          BY <3>1, <4>2 DEF ReadCall, Incoming, CmdOrNone
        <5> QED BY <2>3, <4>2, <5>1, AnswerType DEF RetrievePrevResult
      <4> QED BY <4>1, <4>2
    <3> QED BY <2>3, <3>2, <3>3 DEF RetrievePrevResult, TypeOK
  <2>4. CASE RefuseRecursiveCommand(w)
    <3>1. call[w] \in ReadCall
      BY <2>0, <2>4, CallShape DEF RefuseRecursiveCommand
    <3> QED BY <2>4, <3>1, AnswerType DEF RefuseRecursiveCommand, TypeOK, ReadCall
  <2>5. CASE StartCommand(w)
    <3>1. call[w] \in ReadCall /\ call[w].cmd \in Command
      BY <2>0, <2>5, CallShape DEF StartCommand, IsRetrieval, ReadCall, CmdOrNone
    <3>2. [cmd |-> call[w].cmd, time |-> call[w].time, ready |-> FALSE] \in Incoming
      BY <3>1 DEF ReadCall, Incoming
    <3>3. [pc |-> "running", host |-> call[w].host, cmd |-> call[w].cmd,
           time |-> call[w].time, out |-> call[w].out] \in RunningCall
      BY <3>1 DEF ReadCall, RunningCall
    <3> QED BY <2>5, <3>2, <3>3, ShapeIsCall DEF StartCommand, TypeOK
  <2>6. CASE FinishCommand(w)
    <3>1. call[w] \in RunningCall
      BY <2>0, <2>6, CallShape DEF FinishCommand
    <3>2. [cmd |-> call[w].cmd, time |-> call[w].time, ready |-> TRUE] \in Incoming
      BY <3>1 DEF RunningCall, Incoming
    <3>3. call' \in [Worker -> Call]
      BY <2>6, <3>1, AnswerType DEF FinishCommand, RunningCall, CmdOrNone
    <3> QED BY <2>6, <3>2, <3>3 DEF FinishCommand, TypeOK
  <2>7. CASE Return(w)
    BY <2>7, ShapeIsCall DEF Return, TypeOK
  <2> QED BY <1>4, <2>1, <2>2, <2>3, <2>4, <2>5, <2>6, <2>7 DEF WorkerStep
<1>5. CASE UNCHANGED vars
  BY <1>5 DEF vars, mpvars, TypeOK
<1> QED BY <1>1, <1>2, <1>3, <1>4, <1>5 DEF Next

LEMMA TypeInitial == Init => TypeOK
<1> SUFFICES ASSUME Init PROVE TypeOK
  OBVIOUS
<1>1. 0 \in Time /\ 0 \in 0 .. MaxReportsPerHostName - 1
  BY ConstantsAssumption DEF Time
<1> QED BY <1>1, ShapeIsCall DEF Init, TypeOK

(* The message processor keeps its types: in particular a missing map      *)
(* entry never leaks into a reply.                                         *)
THEOREM TypeCorrect == Spec => []TypeOK
  BY TypeInitial, TypeStep, PTL DEF Spec

-----------------------------------------------------------------------------
(* w is running the command that is memorised for h.                       *)
RunsEntry(w, h) ==
  /\ call[w].pc = "running"
  /\ call[w].host = h
  /\ call[w].cmd = IncomingAppCommands[h].cmd
  /\ call[w].time = IncomingAppCommands[h].time

(* A step of v that neither runs a command nor touches the memorised       *)
(* command of h leaves its runner alone.                                   *)
LEMMA RunnerKept ==
  ASSUME NEW h \in Host, NEW v \in Worker, TypeOK, PendingHasRunner,
         call[v].pc # "running",
         \A w \in Worker \ {v} : call'[w] = call[w],
         IncomingAppCommands'[h] \in {IncomingAppCommands[h], Absent},
         IsPending(h)'
  PROVE  \E w \in Worker : RunsEntry(w, h)'
<1>1. IncomingAppCommands'[h] = IncomingAppCommands[h] /\ IsPending(h)
  BY DEF IsPending
<1>2. PICK w \in Worker : RunsEntry(w, h)
  BY <1>1 DEF PendingHasRunner, RunsEntry
<1> QED BY <1>1, <1>2 DEF RunsEntry

(* Every step keeps the runners of the commands without a result.          *)
LEMMA PendingStep == TypeOK /\ PendingHasRunner /\ [Next]_vars => PendingHasRunner'
<1> SUFFICES ASSUME TypeOK, PendingHasRunner, [Next]_vars,
                    NEW h \in Host, IsPending(h)'
             PROVE  \E w \in Worker : RunsEntry(w, h)'
  BY DEF PendingHasRunner, RunsEntry
<1>1. ASSUME UNCHANGED <<IncomingAppCommands, call>>
      PROVE  \E w \in Worker : RunsEntry(w, h)'
  BY <1>1 DEF PendingHasRunner, RunsEntry, IsPending
<1>2. CASE Tick \/ UNCHANGED vars \/ \E g \in Host, c \in Ordered : SetOutgoingCommand(g, c)
  BY <1>1, <1>2 DEF Tick, vars, mpvars, SetOutgoingCommand
<1>3. ASSUME NEW w \in Worker, NEW g \in Host, NEW c \in CmdOrNone, NEW r \in Response,
             StoreReport(w, g, c, r)
      PROVE  \E v \in Worker : RunsEntry(v, h)'
  <2>1. /\ call[w].pc # "running"
        /\ \A v \in Worker \ {w} : call'[v] = call[v]
    BY <1>3 DEF StoreReport, TypeOK
  <2>2. IncomingAppCommands'[h] \in {IncomingAppCommands[h], Absent}
    BY <1>3 DEF StoreReport, Without
  <2> QED BY <2>1, <2>2, RunnerKept
<1>4. ASSUME NEW w \in Worker, WorkerStep(w)
      PROVE  \E v \in Worker : RunsEntry(v, h)'
  <2>0. call[w] \in Call
    BY DEF TypeOK
  <2>1. CASE SkipCommandRequest(w) \/ ReadPrevCmd(w) \/ RetrievePrevResult(w)
               \/ RefuseRecursiveCommand(w) \/ Return(w)
    <3>1. /\ call[w].pc # "running"
          /\ \A v \in Worker \ {w} : call'[v] = call[v]
      BY <2>1 DEF SkipCommandRequest, ReadPrevCmd, RetrievePrevResult,
                  RefuseRecursiveCommand, Return, Answer, TypeOK
    <3>2. IncomingAppCommands'[h] \in {IncomingAppCommands[h], Absent}
      BY <2>1 DEF SkipCommandRequest, ReadPrevCmd, RetrievePrevResult,
                  RefuseRecursiveCommand, Return, TypeOK
    <3> QED BY <3>1, <3>2, RunnerKept
  <2>2. CASE StartCommand(w)
    <3>1. /\ call[w].pc = "read" /\ call[w] \in ReadCall
          /\ \A v \in Worker \ {w} : call'[v] = call[v]
      BY <2>0, <2>2, CallShape DEF StartCommand, TypeOK
    <3>2. CASE call[w].host = h
      BY <2>2, <3>1, <3>2 DEF StartCommand, RunsEntry, TypeOK, ReadCall
    <3>3. CASE call[w].host # h
      <4>1. IncomingAppCommands'[h] = IncomingAppCommands[h]
        BY <2>2, <3>3 DEF StartCommand, TypeOK
      <4> QED BY <3>1, <4>1, RunnerKept
    <3> QED BY <3>2, <3>3
  <2>3. CASE FinishCommand(w)
    <3>1. call[w] \in RunningCall
      BY <2>0, <2>3, CallShape DEF FinishCommand
    <3>2. call[w].host # h
      BY <2>3, <3>1 DEF FinishCommand, IsPending, TypeOK, RunningCall
    <3>3. IncomingAppCommands'[h] = IncomingAppCommands[h] /\ IsPending(h)
      BY <2>3, <3>2 DEF FinishCommand, IsPending, TypeOK
    <3>4. PICK v \in Worker : RunsEntry(v, h)
      BY <3>3 DEF PendingHasRunner, RunsEntry
    <3>5. v # w
      BY <3>2, <3>4 DEF RunsEntry
    <3>6. call'[v] = call[v]
      BY <2>3, <3>5 DEF FinishCommand, Answer, TypeOK
    <3> QED BY <3>3, <3>4, <3>6 DEF RunsEntry
  <2> QED BY <1>4, <2>1, <2>2, <2>3 DEF WorkerStep
<1> QED BY <1>2, <1>3, <1>4 DEF Next

(* No schedule of overlapping requests, erasures and expiries leaves a     *)
(* memorised command without a result and without a goroutine to produce   *)
(* it.                                                                     *)
THEOREM PendingAlwaysHasRunner == Spec => []PendingHasRunner
<1>1. Init => PendingHasRunner
  BY DEF Init, PendingHasRunner, IsPending
<1> QED BY <1>1, TypeCorrect, PendingStep, PTL DEF Spec

-----------------------------------------------------------------------------
(* Host h has been heard from at time t or later, and is still known.      *)
Covers(h, t) == SubjectReports[h] # <<>> /\ t <= LastHeard(h)

Active == {"stored", "read", "running"}

(* The strengthening of NoOrphanedCommand.  A command may be memorised     *)
(* long after its report, so the calls in progress are covered as well,    *)
(* and they are not older than CallLimit: that, and CallLimit <= Expiry,   *)
(* is why the expiry scan cannot remove the history below their feet.      *)
HistoryBounded == \A h \in Host : Len(SubjectReports[h]) <= MaxReportsPerHostName

HistorySorted ==
  \A h \in Host : \A i, j \in 1 .. Len(SubjectReports[h]) :
    i < j => SubjectReports[h][i].time <= SubjectReports[h][j].time

HistoryPast ==
  \A h \in Host : \A i \in 1 .. Len(SubjectReports[h]) : SubjectReports[h][i].time <= clock

CommandsCovered ==
  \A h \in Host : IncomingAppCommands[h] # Absent => Covers(h, IncomingAppCommands[h].time)

CallsCovered ==
  \A w \in Worker : call[w].pc \in Active =>
    Covers(call[w].host, call[w].time) /\ clock - call[w].time <= CallLimit

CoverInv ==
  HistoryBounded /\ HistorySorted /\ HistoryPast /\ CommandsCovered /\ CallsCovered

(* The elements of a history after a report has been added are elements it *)
(* had before, in the same order, and the new one.                         *)
LEMMA WithReportElements ==
  ASSUME NEW s \in Seq(Report), NEW r \in Report, Len(s) <= MaxReportsPerHostName
  PROVE  \E d \in {0, 1} :
           /\ Len(WithReport(s, r)) = Len(s) + 1 - d
           /\ \A k \in 1 .. Len(WithReport(s, r)) - 1 :
                k + d \in 1 .. Len(s) /\ WithReport(s, r)[k] = s[k + d]
<1> MaxReportsPerHostName \in Nat \ {0}
  BY ConstantsAssumption
<1>1. CASE Len(s) = MaxReportsPerHostName
  <2>1. s # <<>>
    BY <1>1
  <2>2. Tail(s) \in Seq(Report) /\ Len(Tail(s)) = Len(s) - 1
        /\ \A k \in 1 .. Len(s) - 1 : Tail(s)[k] = s[k + 1]
    BY <2>1
  <2>3. WithReport(s, r) = Append(Tail(s), r)
    BY <1>1 DEF WithReport
  <2>4. Len(WithReport(s, r)) = Len(s)
    BY <2>2, <2>3
  <2>5. ASSUME NEW k \in 1 .. Len(s) - 1
        PROVE  k + 1 \in 1 .. Len(s) /\ WithReport(s, r)[k] = s[k + 1]
    BY <2>2, <2>3
  <2> WITNESS 1 \in {0, 1}
  <2> QED BY <2>4, <2>5
<1>2. CASE Len(s) # MaxReportsPerHostName
  <2>1. WithReport(s, r) = Append(s, r)
    BY <1>2 DEF WithReport
  <2>2. Len(WithReport(s, r)) = Len(s) + 1
    BY <2>1
  <2>3. ASSUME NEW k \in 1 .. Len(s)
        PROVE  k + 0 \in 1 .. Len(s) /\ WithReport(s, r)[k] = s[k + 0]
    BY <2>1
  <2> WITNESS 0 \in {0, 1}
  <2> QED BY <2>2, <2>3
<1> QED BY <1>1, <1>2

(* A history in order that gets a report of the present is in order.       *)
LEMMA WithReportSorted ==
  ASSUME NEW s \in Seq(Report), NEW r \in Report, NEW t \in Time, r.time = t,
         Len(s) <= MaxReportsPerHostName,
         \A i, j \in 1 .. Len(s) : i < j => s[i].time <= s[j].time,
         \A i \in 1 .. Len(s) : s[i].time <= t
  PROVE  /\ \A i, j \in 1 .. Len(WithReport(s, r)) :
               i < j => WithReport(s, r)[i].time <= WithReport(s, r)[j].time
         /\ \A i \in 1 .. Len(WithReport(s, r)) : WithReport(s, r)[i].time <= t
<1> DEFINE new == WithReport(s, r)
<1>1. Len(new) \in Nat \ {0} /\ new[Len(new)] = r
  BY WithReportProperties
<1> HIDE DEF new
<1>2. ASSUME NEW i \in 1 .. Len(new) PROVE new[i].time <= t
  <2>1. CASE i = Len(new)
    BY <1>1, <2>1 DEF Time
  <2>2. CASE i # Len(new)
    <3>1. i \in 1 .. Len(new) - 1
      BY <1>1, <2>2
    <3>2. PICK d \in {0, 1} : \A k \in 1 .. Len(new) - 1 :
            k + d \in 1 .. Len(s) /\ new[k] = s[k + d]
      BY <3>1, WithReportElements DEF new
    <3> QED BY <3>1, <3>2
  <2> QED BY <2>1, <2>2
<1>3. ASSUME NEW i \in 1 .. Len(new), NEW j \in 1 .. Len(new), i < j
      PROVE  new[i].time <= new[j].time
  <2>1. i \in 1 .. Len(new) - 1
    BY <1>1, <1>3
  <2>2. CASE j = Len(new)
    BY <1>1, <1>2, <2>2
  <2>3. CASE j # Len(new)
    <3>1. j \in 1 .. Len(new) - 1
      BY <1>1, <2>3
    <3>2. PICK d \in {0, 1} : \A k \in 1 .. Len(new) - 1 :
            k + d \in 1 .. Len(s) /\ new[k] = s[k + d]
      BY <2>1, WithReportElements DEF new
    <3>3. i + d < j + d
      BY <1>3
    <3> QED BY <2>1, <3>1, <3>2, <3>3
  <2> QED BY <2>2, <2>3
<1> QED BY <1>2, <1>3 DEF new

(* What a step of a goroutine does to the calls and the memorised commands.*)
LEMMA WorkerEffect ==
  ASSUME TypeOK, NEW w \in Worker, WorkerStep(w)
  PROVE  /\ UNCHANGED <<SubjectReports, clock>>
         /\ \A v \in Worker : call'[v].pc \in Active =>
              /\ call[v].pc \in Active
              /\ call'[v].host = call[v].host
              /\ call'[v].time = call[v].time
         /\ \A h \in Host : IncomingAppCommands'[h] # Absent =>
              \/ IncomingAppCommands'[h] = IncomingAppCommands[h]
              \/ /\ call[w].pc \in Active
                 /\ call[w].host = h
                 /\ IncomingAppCommands'[h].time = call[w].time
<1>0. call[w] \in Call /\ call \in [Worker -> Call]
  BY DEF TypeOK
<1>1. CASE SkipCommandRequest(w)
  BY <1>0, <1>1 DEF SkipCommandRequest, Answer, Active
<1>2. CASE ReadPrevCmd(w)
  BY <1>0, <1>2 DEF ReadPrevCmd, Active
<1>3. CASE RetrievePrevResult(w)
  <2>1. \A v \in Worker : v # w => call'[v] = call[v]
    BY <1>0, <1>3 DEF RetrievePrevResult, Answer
  <2>2. call'[w].pc = "done"
    BY <1>0, <1>3 DEF RetrievePrevResult, Answer
  <2>3. \A h \in Host : IncomingAppCommands'[h] # Absent =>
          IncomingAppCommands'[h] = IncomingAppCommands[h]
    BY <1>3 DEF RetrievePrevResult, TypeOK
  <2> QED BY <1>3, <2>1, <2>2, <2>3 DEF RetrievePrevResult, Active
<1>4. CASE RefuseRecursiveCommand(w)
  BY <1>0, <1>4 DEF RefuseRecursiveCommand, Answer, Active
<1>5. CASE StartCommand(w)
  BY <1>0, <1>5 DEF StartCommand, Active, TypeOK
<1>6. CASE FinishCommand(w)
  BY <1>0, <1>6 DEF FinishCommand, Answer, Active, TypeOK
<1>7. CASE Return(w)
  BY <1>0, <1>7 DEF Return, Idle, Active
<1> QED BY <1>1, <1>2, <1>3, <1>4, <1>5, <1>6, <1>7 DEF WorkerStep

(* A host and time of an active call are well typed.                       *)
LEMMA ActiveCallType ==
  ASSUME NEW c \in Call, c.pc \in Active
  PROVE  c.host \in Host /\ c.time \in Time
BY CallShape DEF StoredCall, ReadCall, RunningCall, Active

(* The history of h ends at a time of the model.                           *)
LEMMA LastHeardType ==
  ASSUME TypeOK, NEW h \in Host, SubjectReports[h] # <<>>
  PROVE  LastHeard(h) \in Time /\ Len(SubjectReports[h]) \in Nat \ {0}
<1>1. SubjectReports[h] \in Seq(Report)
  BY DEF TypeOK
<1>2. Len(SubjectReports[h]) \in Nat \ {0}
  BY <1>1
<1>3. SubjectReports[h][Len(SubjectReports[h])] \in Report
  BY <1>1, <1>2
<1> QED BY <1>2, <1>3 DEF LastHeard, Report

(* A goroutine's step keeps every memorised command and call covered.      *)
LEMMA CoverWorkerStep ==
  ASSUME TypeOK, CoverInv, NEW w \in Worker, WorkerStep(w)
  PROVE  CoverInv'
<1>1. UNCHANGED <<SubjectReports, clock>>
  BY WorkerEffect
<1>2. HistoryBounded' /\ HistorySorted' /\ HistoryPast'
  BY <1>1 DEF CoverInv, HistoryBounded, HistorySorted, HistoryPast
<1>3. CommandsCovered'
  <2> SUFFICES ASSUME NEW h \in Host, IncomingAppCommands'[h] # Absent
               PROVE  Covers(h, IncomingAppCommands[h].time)'
    BY DEF CommandsCovered
  <2>1. Covers(h, IncomingAppCommands'[h].time)
    BY WorkerEffect DEF CoverInv, CommandsCovered, CallsCovered
  <2> QED BY <1>1, <2>1 DEF Covers, LastHeard
<1>4. CallsCovered'
  <2> SUFFICES ASSUME NEW v \in Worker, call'[v].pc \in Active
               PROVE  (Covers(call[v].host, call[v].time) /\ clock - call[v].time <= CallLimit)'
    BY DEF CallsCovered
  <2>1. /\ call[v].pc \in Active
        /\ call'[v].host = call[v].host
        /\ call'[v].time = call[v].time
    BY WorkerEffect
  <2>2. Covers(call[v].host, call[v].time) /\ clock - call[v].time <= CallLimit
    BY <2>1 DEF CoverInv, CallsCovered
  <2> QED BY <1>1, <2>1, <2>2 DEF Covers, LastHeard
<1> QED BY <1>2, <1>3, <1>4 DEF CoverInv

(* A new report keeps them covered too: the scan it may set off removes no *)
(* host that has a call in progress.                                       *)
LEMMA CoverStoreReport ==
  ASSUME TypeOK, TypeOK', CoverInv, NEW w \in Worker, NEW h \in Host, NEW c \in CmdOrNone,
         NEW resp \in Response, StoreReport(w, h, c, resp)
  PROVE  CoverInv'
<1> DEFINE new == [resp |-> resp, time |-> clock]
           reps == [SubjectReports EXCEPT ![h] = WithReport(@, new)]
           count == (totalReports + 1) % MaxReportsPerHostName
           expired == IF count = 0 THEN ExpiredSubjects(reps) ELSE {}
<1>1. /\ SubjectReports' = Without(reps, expired, <<>>)
      /\ IncomingAppCommands' = Without(IncomingAppCommands, expired, Absent)
      /\ clock' = clock
      /\ call' = [call EXCEPT ![w] = [pc |-> "stored", host |-> h, cmd |-> c, time |-> clock,
                                      out |-> OutgoingFor(h)]]
  BY DEF StoreReport
<1>2. new \in Report /\ new.time = clock /\ clock \in Time /\ clock \in Int
  BY ConstantsAssumption DEF TypeOK, Report, Time
<1>3. \A g \in Host : reps[g] = IF g = h THEN WithReport(SubjectReports[h], new)
                                 ELSE SubjectReports[g]
  BY DEF TypeOK
<1>4. \A g \in expired : /\ reps[g] # <<>>
                          /\ reps[g][Len(reps[g])].time < clock - Expiry
  BY DEF ExpiredSubjects
<1> HIDE DEF new, reps, count, expired
<1>5. /\ reps[h] # <<>>
      /\ reps[h][Len(reps[h])].time = clock
      /\ Len(reps[h]) <= MaxReportsPerHostName
  <2>1. SubjectReports[h] \in Seq(Report) /\ Len(SubjectReports[h]) <= MaxReportsPerHostName
    BY DEF TypeOK, CoverInv, HistoryBounded
  <2>2. reps[h] = WithReport(SubjectReports[h], new)
    BY <1>3
  <2>3. /\ reps[h] # <<>>
        /\ reps[h][Len(reps[h])] = new
        /\ Len(reps[h]) <= MaxReportsPerHostName
    BY <1>2, <2>1, <2>2, WithReportProperties
  <2> QED BY <1>2, <2>3
<1>6. h \notin expired
  BY <1>2, <1>4, <1>5, ConstantsAssumption
<1>7. \A g \in Host : SubjectReports'[g] = IF g \in expired THEN <<>> ELSE reps[g]
  BY <1>1 DEF Without
<1>8. ASSUME NEW g \in Host, NEW t \in Time, Covers(g, t), t <= clock, g \notin expired
      PROVE  Covers(g, t)'
  <2>1. CASE g = h
    BY <1>2, <1>5, <1>7, <1>8, <2>1 DEF Covers, LastHeard
  <2>2. CASE g # h
    BY <1>3, <1>7, <1>8, <2>2 DEF Covers, LastHeard
  <2> QED BY <2>1, <2>2
<1>9. ASSUME NEW g \in Host, NEW t \in Time, Covers(g, t)
      PROVE  t <= clock
  <2>1. /\ LastHeard(g) \in Time
        /\ Len(SubjectReports[g]) \in 1 .. Len(SubjectReports[g])
    BY <1>9, LastHeardType DEF Covers
  <2>2. LastHeard(g) <= clock
    BY <2>1 DEF LastHeard, CoverInv, HistoryPast
  <2> QED BY <1>2, <1>9, <2>1, <2>2, ConstantsAssumption DEF Covers, Time
<1>10. HistoryBounded' /\ HistorySorted' /\ HistoryPast'
  <2>1. SubjectReports[h] \in Seq(Report)
    BY DEF TypeOK
  <2>2. ASSUME NEW g \in Host
        PROVE  /\ Len(reps[g]) <= MaxReportsPerHostName
               /\ \A i, j \in 1 .. Len(reps[g]) : i < j => reps[g][i].time <= reps[g][j].time
               /\ \A i \in 1 .. Len(reps[g]) : reps[g][i].time <= clock
    <3>1. CASE g = h
      BY <1>2, <1>3, <1>5, <2>1, <3>1, WithReportSorted
        DEF CoverInv, HistoryBounded, HistorySorted, HistoryPast
    <3>2. CASE g # h
      BY <1>3, <3>2 DEF CoverInv, HistoryBounded, HistorySorted, HistoryPast
    <3> QED BY <3>1, <3>2
  <2>3. MaxReportsPerHostName \in Nat /\ Len(<<>>) = 0
    BY ConstantsAssumption
  <2> QED BY <1>1, <1>7, <2>2, <2>3 DEF HistoryBounded, HistorySorted, HistoryPast
<1>11. CommandsCovered'
  <2> SUFFICES ASSUME NEW g \in Host, IncomingAppCommands'[g] # Absent
               PROVE  Covers(g, IncomingAppCommands[g].time)'
    BY DEF CommandsCovered
  <2>1. g \notin expired /\ IncomingAppCommands'[g] = IncomingAppCommands[g]
    BY <1>1 DEF Without
  <2>2. IncomingAppCommands[g].time \in Time
    BY <2>1 DEF TypeOK, Incoming
  <2>3. Covers(g, IncomingAppCommands[g].time)
    BY <2>1 DEF CoverInv, CommandsCovered
  <2>4. IncomingAppCommands[g].time <= clock
    BY <1>9, <2>2, <2>3
  <2> QED BY <1>8, <2>1, <2>2, <2>3, <2>4 DEF Covers
<1>12. CallsCovered'
  <2> SUFFICES ASSUME NEW v \in Worker, call'[v].pc \in Active
               PROVE  (Covers(call[v].host, call[v].time) /\ clock - call[v].time <= CallLimit)'
    BY DEF CallsCovered
  <2>1. CASE v = w
    <3>1. call'[v].host = h /\ call'[v].time = clock
      BY <1>1, <2>1 DEF TypeOK
    <3> QED BY <1>1, <1>2, <1>5, <1>6, <1>7, <3>1, ConstantsAssumption DEF Covers, LastHeard
  <2>2. CASE v # w
    <3>1. call'[v] = call[v] /\ call[v] \in Call
      BY <1>1, <2>2 DEF TypeOK
    <3>2. call[v].host \in Host /\ call[v].time \in Time
      BY <3>1, ActiveCallType
    <3>3. Covers(call[v].host, call[v].time) /\ clock - call[v].time <= CallLimit
      BY <3>1 DEF CoverInv, CallsCovered
    <3>4. call[v].time <= clock
      BY <1>9, <3>2, <3>3
    <3>5. call[v].host \notin expired
      <4> SUFFICES ASSUME call[v].host \in expired PROVE FALSE
        OBVIOUS
      <4>1. call[v].host # h
        BY <1>6
      <4>2. LastHeard(call[v].host) < clock - Expiry
        BY <1>3, <1>4, <3>2, <4>1 DEF LastHeard
      <4>3. LastHeard(call[v].host) \in Int /\ call[v].time \in Int
            /\ call[v].time <= LastHeard(call[v].host)
        BY <3>2, <3>3, LastHeardType DEF Covers, Time
      <4> QED BY <1>2, <3>3, <4>2, <4>3, ConstantsAssumption, LimitAssumption
    <3> QED BY <1>1, <1>8, <3>1, <3>2, <3>3, <3>4, <3>5 DEF Covers
  <2> QED BY <2>1, <2>2
<1> QED BY <1>10, <1>11, <1>12 DEF CoverInv

(* Every step keeps the strengthened invariant.                            *)
LEMMA CoverStep == TypeOK /\ TypeOK' /\ CoverInv /\ [Next]_vars => CoverInv'
<1> SUFFICES ASSUME TypeOK, TypeOK', CoverInv, [Next]_vars
             PROVE  CoverInv'
  OBVIOUS
<1>1. CASE Tick
  <2>1. /\ UNCHANGED <<SubjectReports, IncomingAppCommands, call>>
        /\ clock' = clock + 1
        /\ clock \in Int
    BY <1>1, ConstantsAssumption DEF Tick, mpvars, TypeOK, Time
  <2>2. HistoryBounded' /\ HistorySorted' /\ CommandsCovered'
    BY <2>1 DEF CoverInv, HistoryBounded, HistorySorted, CommandsCovered, Covers, LastHeard
  <2>3. HistoryPast'
    <3> SUFFICES ASSUME NEW h \in Host, NEW i \in 1 .. Len(SubjectReports[h])
                 PROVE  SubjectReports[h][i].time <= clock + 1
      BY <2>1 DEF HistoryPast
    <3>1. SubjectReports[h][i].time <= clock
      BY DEF CoverInv, HistoryPast
    <3>2. SubjectReports[h][i].time \in Int
      <4>1. SubjectReports[h] \in Seq(Report)
        BY DEF TypeOK
      <4>2. SubjectReports[h][i] \in Report
        BY <4>1
      <4> QED BY <4>2 DEF Report, Time
    <3> QED BY <2>1, <3>1, <3>2
  <2>4. CallsCovered'
    <3> SUFFICES ASSUME NEW w \in Worker, call[w].pc \in Active
                 PROVE  Covers(call[w].host, call[w].time)' /\ clock' - call'[w].time <= CallLimit
      BY <2>1 DEF CallsCovered
    <3>1. call[w].time \in Int
      BY ActiveCallType DEF TypeOK, Time
    <3>2. clock - call[w].time < CallLimit
      BY <1>1 DEF Tick, CanTick, Active
    <3>3. Covers(call[w].host, call[w].time)
      BY DEF CoverInv, CallsCovered
    <3> QED BY <2>1, <3>1, <3>2, <3>3, ConstantsAssumption DEF Covers, LastHeard
  <2> QED BY <2>2, <2>3, <2>4 DEF CoverInv
<1>2. CASE UNCHANGED vars \/ \E h \in Host, c \in Ordered : SetOutgoingCommand(h, c)
  <2>1. UNCHANGED <<SubjectReports, IncomingAppCommands, call, clock>>
    BY <1>2 DEF vars, mpvars, SetOutgoingCommand
  <2> QED BY <2>1 DEF CoverInv, HistoryBounded, HistorySorted, HistoryPast, CommandsCovered,
                      CallsCovered, Covers, LastHeard
<1>3. CASE \E w \in Worker, h \in Host, c \in CmdOrNone, r \in Response : StoreReport(w, h, c, r)
  BY <1>3, CoverStoreReport
<1>4. CASE \E w \in Worker : WorkerStep(w)
  BY <1>4, CoverWorkerStep
<1> QED BY <1>1, <1>2, <1>3, <1>4 DEF Next

(* CoverInv is an invariant.                                               *)
LEMMA CoverInvariant == Spec => []CoverInv
<1>1. Init => CoverInv
  <2> SUFFICES ASSUME Init PROVE CoverInv
    OBVIOUS
  <2>1. \A h \in Host : SubjectReports[h] = <<>> /\ IncomingAppCommands[h] = Absent
    BY DEF Init
  <2>2. \A w \in Worker : call[w].pc = "idle"
    BY DEF Init, Idle
  <2>3. MaxReportsPerHostName \in Nat /\ Len(<<>>) = 0
    BY ConstantsAssumption
  <2>4. HistoryBounded /\ HistorySorted /\ HistoryPast
    BY <2>1, <2>3 DEF HistoryBounded, HistorySorted, HistoryPast
  <2>5. CommandsCovered /\ CallsCovered
    BY <2>1, <2>2 DEF CommandsCovered, CallsCovered, Active
  <2> QED BY <2>4, <2>5 DEF CoverInv
<1> QED BY <1>1, TypeCorrect, CoverStep, PTL DEF Spec

(* A memorised command always has the history by which the expiry scan     *)
(* finds it, however late it was stored.                                   *)
THEOREM NeverOrphaned == Spec => []NoOrphanedCommand
<1>1. CoverInv => NoOrphanedCommand
  BY DEF CoverInv, CommandsCovered, Covers, NoOrphanedCommand
<1> QED BY <1>1, CoverInvariant, PTL

(* Histories stay within their capacity and in order of arrival, and end   *)
(* no earlier than the command memorised for the host.                     *)
THEOREM HistoryAlwaysCovers == Spec => []HistoryCoversCommands
<1>1. CoverInv => HistoryCoversCommands
  BY DEF CoverInv, HistoryBounded, HistorySorted, CommandsCovered, Covers, HistoryCoversCommands
<1> QED BY <1>1, CoverInvariant, PTL

(* The expiry scan touches nothing of a subject heard from recently.       *)
THEOREM ExpiryAlwaysSparesActive == Spec => ExpirySparesActive
<1> DEFINE Spared ==
      \A h \in Host :
        /\ SubjectReports[h] # <<>> /\ SubjectReports'[h] = <<>> =>
             /\ LastHeard(h) < clock - Expiry
             /\ IncomingAppCommands'[h] = Absent
             /\ OutgoingAppCommands'[h] = Absent
        /\ OutgoingAppCommands[h] # Absent /\ OutgoingAppCommands'[h] = Absent =>
             SubjectReports[h] # <<>> /\ LastHeard(h) < clock - Expiry
<1>1. TypeOK /\ TypeOK' /\ [Next]_vars => [Spared]_vars
  <2> SUFFICES ASSUME TypeOK, TypeOK', Next, NEW h \in Host
               PROVE  /\ SubjectReports[h] # <<>> /\ SubjectReports'[h] = <<>> =>
                           /\ LastHeard(h) < clock - Expiry
                           /\ IncomingAppCommands'[h] = Absent
                           /\ OutgoingAppCommands'[h] = Absent
                      /\ OutgoingAppCommands[h] # Absent /\ OutgoingAppCommands'[h] = Absent =>
                           SubjectReports[h] # <<>> /\ LastHeard(h) < clock - Expiry
    BY DEF Spared
  <2>1. CASE Tick
    BY <2>1 DEF Tick, mpvars
  <2>2. ASSUME NEW g \in Host, NEW c \in Ordered, SetOutgoingCommand(g, c)
        PROVE  SubjectReports' = SubjectReports /\ (OutgoingAppCommands'[h] = Absent =>
                 OutgoingAppCommands[h] = Absent)
    BY <2>2, ConstantsAssumption DEF SetOutgoingCommand, TypeOK
  <2>3. ASSUME NEW w \in Worker, WorkerStep(w)
        PROVE  UNCHANGED <<SubjectReports, OutgoingAppCommands>>
    BY <2>3 DEF WorkerStep, SkipCommandRequest, ReadPrevCmd, RetrievePrevResult,
                RefuseRecursiveCommand, StartCommand, FinishCommand, Return
  <2>4. ASSUME NEW w \in Worker, NEW g \in Host, NEW c \in CmdOrNone, NEW resp \in Response,
               StoreReport(w, g, c, resp)
        PROVE  \/ /\ SubjectReports'[h] # <<>>
                  /\ OutgoingAppCommands'[h] = OutgoingAppCommands[h]
               \/ /\ SubjectReports[h] = <<>>
                  /\ OutgoingAppCommands'[h] = OutgoingAppCommands[h]
               \/ /\ SubjectReports[h] # <<>> /\ LastHeard(h) < clock - Expiry
                  /\ IncomingAppCommands'[h] = Absent
                  /\ OutgoingAppCommands'[h] = Absent
    <3> DEFINE new == [resp |-> resp, time |-> clock]
               reps == [SubjectReports EXCEPT ![g] = WithReport(@, new)]
               count == (totalReports + 1) % MaxReportsPerHostName
               expired == IF count = 0 THEN ExpiredSubjects(reps) ELSE {}
    <3>1. /\ SubjectReports' = Without(reps, expired, <<>>)
          /\ IncomingAppCommands' = Without(IncomingAppCommands, expired, Absent)
          /\ OutgoingAppCommands' = Without(OutgoingAppCommands, expired, Absent)
      BY <2>4 DEF StoreReport
    <3>2. /\ g # h => reps[h] = SubjectReports[h]
          /\ reps[g] = WithReport(SubjectReports[g], new)
      BY DEF TypeOK
    <3>3. new \in Report /\ SubjectReports[g] \in Seq(Report) /\ new.time = clock
      BY DEF TypeOK, Report
    <3>4. \A f \in expired : reps[f] # <<>> /\ reps[f][Len(reps[f])].time < clock - Expiry
      BY DEF ExpiredSubjects
    <3> HIDE DEF new, reps, count, expired
    <3>5. reps[g] # <<>> /\ reps[g][Len(reps[g])].time = clock
      BY <3>2, <3>3, WithReportProperties
    <3>6. g \notin expired
      BY <3>4, <3>5, ConstantsAssumption DEF TypeOK, Time
    <3>7. CASE h \in expired
      BY <3>1, <3>2, <3>4, <3>6, <3>7 DEF Without, LastHeard
    <3>8. CASE h \notin expired
      BY <3>1, <3>2, <3>5, <3>8 DEF Without
    <3> QED BY <3>7, <3>8
  <2> QED BY <2>1, <2>2, <2>3, <2>4 DEF Next
<1> QED BY <1>1, TypeCorrect, PTL DEF Spec, ExpirySparesActive

-----------------------------------------------------------------------------
(* A call with an answer about its request keeps it: a step of goroutine v *)
(* leaves the others alone, and whether there is a command processor never *)
(* changes.                                                                *)
LEMMA OthersStillAboutRequest ==
  ASSUME AnswerIsAboutRequest, NEW v \in Worker, UNCHANGED hasCmdProcessor,
         \A w \in Worker \ {v} : call'[w] = call[w],
         call'[v].pc = "done" /\ call'[v].cmd # NoCmd /\ hasCmdProcessor =>
           call'[v].reply.cmd = call'[v].cmd
  PROVE  AnswerIsAboutRequest'
BY DEF AnswerIsAboutRequest

(* What a goroutine that answers leaves behind.                            *)
LEMMA AnswerEffect ==
  ASSUME TypeOK, NEW w \in Worker, NEW c, NEW r, Answer(w, c, r)
  PROVE  /\ \A v \in Worker \ {w} : call'[v] = call[v]
         /\ call'[w].cmd = call[w].cmd
         /\ call'[w].reply.cmd = c
BY DEF Answer, TypeOK

(* Every step keeps the answers about the requests.                        *)
LEMMA AboutRequestStep == TypeOK /\ AnswerIsAboutRequest /\ [Next]_vars => AnswerIsAboutRequest'
<1>1. ASSUME AnswerIsAboutRequest, UNCHANGED <<hasCmdProcessor, call>>
      PROVE  AnswerIsAboutRequest'
  BY <1>1 DEF AnswerIsAboutRequest
<1>2. ASSUME AnswerIsAboutRequest,
             Tick \/ UNCHANGED vars \/ \E h \in Host, c \in Ordered : SetOutgoingCommand(h, c)
      PROVE  AnswerIsAboutRequest'
  BY <1>1, <1>2 DEF Tick, vars, mpvars, SetOutgoingCommand
<1>3. ASSUME TypeOK, AnswerIsAboutRequest,
             NEW w \in Worker, NEW h \in Host, NEW c \in CmdOrNone, NEW r \in Response,
             StoreReport(w, h, c, r)
      PROVE  AnswerIsAboutRequest'
  <2>1. /\ call'[w].pc = "stored" /\ UNCHANGED hasCmdProcessor
        /\ \A v \in Worker \ {w} : call'[v] = call[v]
    BY <1>3 DEF StoreReport, TypeOK
  <2> QED BY <1>3, <2>1, OthersStillAboutRequest
<1>4. ASSUME TypeOK, AnswerIsAboutRequest, NEW w \in Worker, WorkerStep(w)
      PROVE  AnswerIsAboutRequest'
  <2>0. UNCHANGED hasCmdProcessor
    BY <1>4 DEF WorkerStep, SkipCommandRequest, ReadPrevCmd, RetrievePrevResult,
                RefuseRecursiveCommand, StartCommand, FinishCommand, Return
  <2>1. CASE SkipCommandRequest(w)
    <3>1. ~hasCmdProcessor /\ Answer(w, NoCmd, TRUE)
      BY <2>1 DEF SkipCommandRequest
    <3> QED BY <1>4, <2>0, <3>1, AnswerEffect, OthersStillAboutRequest
  <2>2. CASE RefuseRecursiveCommand(w)
    <3>1. Answer(w, call[w].cmd, TRUE)
      BY <2>2 DEF RefuseRecursiveCommand
    <3> QED BY <1>4, <2>0, <3>1, AnswerEffect, OthersStillAboutRequest
  <2>3. CASE FinishCommand(w)
    <3>1. Answer(w, call[w].cmd, TRUE)
      BY <2>3 DEF FinishCommand
    <3> QED BY <1>4, <2>0, <3>1, AnswerEffect, OthersStillAboutRequest
  <2>4. CASE RetrievePrevResult(w)
    (* The retrieval is of prevCmd, which has the command asked for unless  *)
    (* none was asked for: an entry replaced since it was read is not seen. *)
    <3>1. IsRetrieval(w)
      BY <2>4 DEF RetrievePrevResult
    <3>2. CASE call[w].prev = Absent
      <4>1. Answer(w, NoCmd, TRUE) /\ call[w].cmd = NoCmd
        BY <2>4, <3>1, <3>2 DEF RetrievePrevResult, IsRetrieval
      <4> QED BY <1>4, <2>0, <4>1, AnswerEffect, OthersStillAboutRequest
    <3>3. CASE call[w].prev # Absent
      <4>1. /\ Answer(w, call[w].prev.cmd, call[w].prev.ready)
            /\ call[w].cmd = NoCmd \/ call[w].prev.cmd = call[w].cmd
        BY <2>4, <3>1, <3>3 DEF RetrievePrevResult, IsRetrieval
      <4> QED BY <1>4, <2>0, <4>1, AnswerEffect, OthersStillAboutRequest
    <3> QED BY <3>2, <3>3
  <2>5. CASE ReadPrevCmd(w) \/ StartCommand(w) \/ Return(w)
    <3>1. /\ call'[w].pc # "done"
          /\ \A v \in Worker \ {w} : call'[v] = call[v]
      BY <1>4, <2>5 DEF ReadPrevCmd, StartCommand, Return, Idle, TypeOK
    <3> QED BY <1>4, <2>0, <3>1, OthersStillAboutRequest
  <2> QED BY <1>4, <2>1, <2>2, <2>3, <2>4, <2>5 DEF WorkerStep
<1> QED BY <1>2, <1>3, <1>4 DEF Next

(* However the requests of a subject overlap, each is answered about the   *)
(* command it asked for.                                                   *)
THEOREM AnswerAlwaysAboutRequest == Spec => []AnswerIsAboutRequest
<1>1. Init => AnswerIsAboutRequest
  BY DEF Init, Idle, AnswerIsAboutRequest
<1> QED BY <1>1, TypeCorrect, AboutRequestStep, PTL DEF Spec

=============================================================================
