--------------------------- MODULE MessageProcessor ---------------------------
(***************************************************************************)
(* The store & forward message processor (toolbox/message_processor.go).   *)
(*                                                                         *)
(* Monitored subjects send reports; a report may ask the processor to run  *)
(* an app command, and the reply may ask the subject to run one.  Every    *)
(* call of StoreReport runs on a goroutine of its own (Worker).  The three *)
(* maps are protected by one mutex, which is released between the steps of *)
(* a call and while the app command runs: each critical section is one     *)
(* action here, and call[w] holds the local variables of the goroutine.    *)
(***************************************************************************)
EXTENDS Integers, Sequences

CONSTANTS
  Host,                   \* self-reported host names, already trimmed and lower-cased
  Command,                \* app commands
  Ordered,                \* what an operator may leave for a subject to run
  Recursive,              \* the commands RegexNoRecursion matches
  Response,               \* what a report may carry as CommandResponse
  Worker,                 \* goroutines that may be inside StoreReport at once
  NoCmd,                  \* the empty command string
  Absent,                 \* "the map has no such key"
  MaxReportsPerHostName,  \* capacity of the report history of a host
  Retention,              \* CommandResponseRetentionSec, in clock units
  Expiry,                 \* SubjectExpirySecond, in clock units
  CallLimit,              \* the longest a call lasts: the command timeout and overheads
  MaxTime                 \* bound of the model: the clock stops here

ASSUME ConstantsAssumption ==
  /\ Recursive \subseteq Command
  /\ NoCmd \notin Command
  /\ Ordered \subseteq Command \cup {NoCmd}
  /\ Absent \notin Command \cup {NoCmd}
  /\ MaxReportsPerHostName \in Nat \ {0}
  /\ Retention \in Nat
  /\ Expiry \in Nat
  /\ CallLimit \in Nat
  /\ MaxTime \in Nat

(* A command lasts at most 50 minutes, a silent subject is kept for 72     *)
(* hours.                                                                  *)
ASSUME LimitAssumption == CallLimit <= Expiry

VARIABLES
  hasCmdProcessor,      \* CmdProcessor is configured; it never changes
  clock,                \* time.Now(), monotonic
  SubjectReports,       \* host -> reports, oldest first; <<>> when the host has no key
  IncomingAppCommands,  \* host -> command the subject wants run, or Absent
  OutgoingAppCommands,  \* host -> command for the subject to run, or Absent
  totalReports,         \* totalReports modulo MaxReportsPerHostName
  call                  \* worker -> local variables of its StoreReport call

mpvars == <<hasCmdProcessor, SubjectReports, IncomingAppCommands, OutgoingAppCommands, totalReports, call>>
vars == <<clock, mpvars>>

CmdOrNone == Command \cup {NoCmd}
Time == 0 .. MaxTime

(* A SubjectReport: the CommandResponse the subject sent and ServerTime.   *)
Report == [resp : Response, time : Time]

(* An IncomingAppCommand.  Its RunDurationSec is -1 as long as there is no *)
(* result: ready is FALSE.                                                 *)
Incoming == [cmd : Command, time : Time, ready : BOOLEAN]

(* A goroutine without a call.                                             *)
Idle == [pc |-> "idle"]

(* The SubjectReportResponse: the command for the subject (out), and of    *)
(* the CommandResponse the command and whether it has a result.            *)
Reply == [out : CmdOrNone, cmd : CmdOrNone, ready : BOOLEAN]

Call ==
  [pc : {"idle"}]
    \cup [pc : {"stored"}, host : Host, cmd : CmdOrNone, time : Time, out : CmdOrNone]
    \cup [pc : {"read"}, host : Host, cmd : CmdOrNone, time : Time, out : CmdOrNone,
          prev : Incoming \cup {Absent}]
    \cup [pc : {"running"}, host : Host, cmd : Command, time : Time, out : CmdOrNone]
    \cup [pc : {"done"}, cmd : CmdOrNone, reply : Reply]

TypeOK ==
  /\ hasCmdProcessor \in BOOLEAN
  /\ clock \in Time
  /\ SubjectReports \in [Host -> Seq(Report)]
  /\ IncomingAppCommands \in [Host -> Incoming \cup {Absent}]
  /\ OutgoingAppCommands \in [Host -> CmdOrNone \cup {Absent}]
  /\ totalReports \in 0 .. MaxReportsPerHostName - 1
  /\ call \in [Worker -> Call]

-----------------------------------------------------------------------------
(* The map lookup of a missing key yields the empty string.                *)
OutgoingFor(h) ==
  IF OutgoingAppCommands[h] = Absent THEN NoCmd ELSE OutgoingAppCommands[h]

(* Mutant of WithReport: the capacity check is off by one.                 *)
WithReportOverfull(reports, r) ==
  Append(IF Len(reports) > MaxReportsPerHostName THEN Tail(reports) ELSE reports, r)

(* The oldest report makes room for the new one.                           *)
WithReport(reports, r) ==
  Append(IF Len(reports) = MaxReportsPerHostName THEN Tail(reports) ELSE reports, r)

(* Mutant of ExpiredSubjects: it looks at the oldest report.               *)
ExpiredSubjectsOldest(reps) ==
  {h \in Host : reps[h] # <<>> /\ reps[h][1].time < clock - Expiry}

(* Mutant of ExpiredSubjects: a subject expires one unit too early.        *)
ExpiredSubjectsEarly(reps) ==
  {h \in Host : reps[h] # <<>> /\ reps[h][Len(reps[h])].time <= clock - Expiry}

(* removeExpiredSubjects, on the report map reps: the hosts whose latest   *)
(* report is older than the expiry.                                        *)
ExpiredSubjects(reps) ==
  {h \in Host : reps[h] # <<>> /\ reps[h][Len(reps[h])].time < clock - Expiry}

(* The map m after the keys in hs have been deleted.                       *)
Without(m, hs, none) == [h \in Host |-> IF h \in hs THEN none ELSE m[h]]

-----------------------------------------------------------------------------
Init ==
  /\ hasCmdProcessor \in BOOLEAN
  /\ clock = 0
  /\ SubjectReports = [h \in Host |-> <<>>]
  /\ IncomingAppCommands = [h \in Host |-> Absent]
  /\ OutgoingAppCommands = [h \in Host |-> Absent]
  /\ totalReports = 0
  /\ call = [w \in Worker |-> Idle]

(* SetOutgoingCommand.  An empty command deletes the key, and then control *)
(* falls through to the assignment all the same.                           *)
SetOutgoingCommand(h, c) ==
  /\ OutgoingAppCommands' = [OutgoingAppCommands EXCEPT ![h] = c]
  /\ UNCHANGED <<hasCmdProcessor, clock, SubjectReports, IncomingAppCommands, totalReports, call>>

(* The first critical section of StoreReport: append the report, scan for  *)
(* expired subjects after every MaxReportsPerHostName-th report, and pick  *)
(* the command for the subject.  A report without a host name is refused   *)
(* before it changes anything and is left out.                             *)
StoreReport(w, h, c, resp) ==
  LET reps == [SubjectReports EXCEPT
                 ![h] = WithReport(@, [resp |-> resp, time |-> clock])]
      count == (totalReports + 1) % MaxReportsPerHostName
      expired == IF count = 0 THEN ExpiredSubjects(reps) ELSE {}
  IN /\ call[w].pc = "idle"
     /\ SubjectReports' = Without(reps, expired, <<>>)
     /\ IncomingAppCommands' = Without(IncomingAppCommands, expired, Absent)
     /\ OutgoingAppCommands' = Without(OutgoingAppCommands, expired, Absent)
     /\ totalReports' = count
     /\ call' = [call EXCEPT ![w] =
                   [pc |-> "stored", host |-> h, cmd |-> c, time |-> clock,
                    out |-> OutgoingFor(h)]]
     /\ UNCHANGED <<hasCmdProcessor, clock>>

(* The call of w returns with the given CommandResponse.                   *)
Answer(w, cmd, ready) ==
  call' = [call EXCEPT ![w] =
             [pc |-> "done", cmd |-> @.cmd,
              reply |-> [out |-> @.out, cmd |-> cmd, ready |-> ready]]]

(* processCommandRequest without a command processor: empty response.      *)
SkipCommandRequest(w) ==
  /\ call[w].pc = "stored"
  /\ ~hasCmdProcessor
  /\ Answer(w, NoCmd, TRUE)
  /\ UNCHANGED <<hasCmdProcessor, clock, SubjectReports, IncomingAppCommands,
                 OutgoingAppCommands, totalReports>>

(* The second critical section: read prevCmd and unlock.                   *)
ReadPrevCmd(w) ==
  /\ call[w].pc = "stored"
  /\ hasCmdProcessor
  /\ call' = [call EXCEPT ![w] =
                [pc |-> "read", host |-> @.host, cmd |-> @.cmd, time |-> @.time,
                 out |-> @.out, prev |-> IncomingAppCommands[@.host]]]
  /\ UNCHANGED <<hasCmdProcessor, clock, SubjectReports, IncomingAppCommands,
                 OutgoingAppCommands, totalReports>>

(* Mutant of IsRetrieval: any memorised command will do.                   *)
IsRetrievalOfAny(w) == call[w].cmd = NoCmd \/ call[w].prev # Absent

(* The request has no command, or the one prevCmd already has.             *)
IsRetrieval(w) ==
  \/ call[w].cmd = NoCmd
  \/ call[w].prev # Absent /\ call[w].prev.cmd = call[w].cmd

(* Mutant of RetrievePrevResult: a result is erased once retrieved.        *)
RetrieveAndErase(w) ==
  LET c == call[w]
  IN /\ c.pc = "read"
     /\ IsRetrieval(w)
     /\ IncomingAppCommands' = [IncomingAppCommands EXCEPT ![c.host] = Absent]
     /\ IF c.prev = Absent THEN Answer(w, NoCmd, TRUE) ELSE Answer(w, c.prev.cmd, c.prev.ready)
     /\ UNCHANGED <<hasCmdProcessor, clock, SubjectReports, OutgoingAppCommands, totalReports>>

(* Return the memorised response; erase it beyond the retention period.    *)
(* The decision rests on prevCmd, the deletion on the host name.           *)
RetrievePrevResult(w) ==
  LET c == call[w]
      erase == c.prev # Absent /\ c.prev.time < clock - Retention
  IN /\ c.pc = "read"
     /\ IsRetrieval(w)
     /\ IncomingAppCommands' =
          IF erase THEN [IncomingAppCommands EXCEPT ![c.host] = Absent] ELSE IncomingAppCommands
     /\ IF c.prev = Absent THEN Answer(w, NoCmd, TRUE) ELSE Answer(w, c.prev.cmd, c.prev.ready)
     /\ UNCHANGED <<hasCmdProcessor, clock, SubjectReports, OutgoingAppCommands, totalReports>>

(* A command that would call the message processor again is refused.       *)
RefuseRecursiveCommand(w) ==
  /\ call[w].pc = "read"
  /\ ~IsRetrieval(w)
  /\ call[w].cmd \in Recursive
  /\ Answer(w, call[w].cmd, TRUE)
  /\ UNCHANGED <<hasCmdProcessor, clock, SubjectReports, IncomingAppCommands,
                 OutgoingAppCommands, totalReports>>

(* The third critical section: memorise the command without a result, and  *)
(* go on to run it.                                                        *)
StartCommand(w) ==
  LET c == call[w]
  IN /\ c.pc = "read"
     /\ ~IsRetrieval(w)
     /\ c.cmd \notin Recursive
     /\ IncomingAppCommands' = [IncomingAppCommands EXCEPT ![c.host] =
                                  [cmd |-> c.cmd, time |-> c.time, ready |-> FALSE]]
     /\ call' = [call EXCEPT ![w] =
                   [pc |-> "running", host |-> c.host, cmd |-> c.cmd, time |-> c.time,
                    out |-> c.out]]
     /\ UNCHANGED <<hasCmdProcessor, clock, SubjectReports, OutgoingAppCommands, totalReports>>

(* Mutant of FinishCommand: the result is returned and not memorised.      *)
FinishAndForget(w) ==
  /\ call[w].pc = "running"
  /\ Answer(w, call[w].cmd, TRUE)
  /\ UNCHANGED <<hasCmdProcessor, clock, SubjectReports, IncomingAppCommands,
                 OutgoingAppCommands, totalReports>>

(* CmdProcessor.Process returns; the fourth critical section memorises the *)
(* result, whatever the map holds by now.                                  *)
FinishCommand(w) ==
  LET c == call[w]
  IN /\ c.pc = "running"
     /\ IncomingAppCommands' = [IncomingAppCommands EXCEPT ![c.host] =
                                  [cmd |-> c.cmd, time |-> c.time, ready |-> TRUE]]
     /\ Answer(w, c.cmd, TRUE)
     /\ UNCHANGED <<hasCmdProcessor, clock, SubjectReports, OutgoingAppCommands, totalReports>>

(* The caller takes the reply, the goroutine ends.                         *)
Return(w) ==
  /\ call[w].pc = "done"
  /\ call' = [call EXCEPT ![w] = Idle]
  /\ UNCHANGED <<hasCmdProcessor, clock, SubjectReports, IncomingAppCommands,
                 OutgoingAppCommands, totalReports>>

(* Time passes, while no call in progress is older than CallLimit.         *)
CanTick ==
  \A w \in Worker :
    call[w].pc \in {"stored", "read", "running"} => clock - call[w].time < CallLimit

Tick ==
  /\ clock < MaxTime
  /\ CanTick
  /\ clock' = clock + 1
  /\ UNCHANGED mpvars

WorkerStep(w) ==
  \/ SkipCommandRequest(w)
  \/ ReadPrevCmd(w)
  \/ RetrievePrevResult(w)
  \/ RefuseRecursiveCommand(w)
  \/ StartCommand(w)
  \/ FinishCommand(w)
  \/ Return(w)

Next ==
  \/ Tick
  \/ \E h \in Host, c \in Ordered : SetOutgoingCommand(h, c)
  \/ \E w \in Worker, h \in Host, c \in CmdOrNone, r \in Response : StoreReport(w, h, c, r)
  \/ \E w \in Worker : WorkerStep(w)

Spec == Init /\ [][Next]_vars

-----------------------------------------------------------------------------
IsPending(h) == IncomingAppCommands[h] # Absent /\ ~IncomingAppCommands[h].ready

(* The time of the last report of a host that has any.                     *)
LastHeard(h) == SubjectReports[h][Len(SubjectReports[h])].time

(* A memorised command without a result has a goroutine that is running it *)
(* (processCommandRequest stores RunDurationSec -1 and overwrites it when  *)
(* the command completes): no schedule of overlapping requests and         *)
(* erasures leaves behind an entry that answers "not yet" for good and     *)
(* keeps the same command from being run again.                            *)
PendingHasRunner ==
  \A h \in Host : IsPending(h) =>
    \E w \in Worker :
      /\ call[w].pc = "running"
      /\ call[w].host = h
      /\ call[w].cmd = IncomingAppCommands[h].cmd
      /\ call[w].time = IncomingAppCommands[h].time

(* removeExpiredSubjects looks for expired subjects among the report       *)
(* histories alone: a memorised command of a host that has no history is   *)
(* never cleaned up.  There is none, though the command of a host may be   *)
(* stored long after its report.                                           *)
NoOrphanedCommand ==
  \A h \in Host : IncomingAppCommands[h] # Absent => SubjectReports[h] # <<>>

(* A history is in order of arrival, within its capacity, and its newest   *)
(* report is at least as new as the command memorised for the host: the    *)
(* expiry of a subject is decided by the newest thing it asked for.        *)
HistoryCoversCommands ==
  /\ \A h \in Host : Len(SubjectReports[h]) <= MaxReportsPerHostName
  /\ \A h \in Host : \A i, j \in 1 .. Len(SubjectReports[h]) :
       i < j => SubjectReports[h][i].time <= SubjectReports[h][j].time
  /\ \A h \in Host : IncomingAppCommands[h] # Absent =>
       IncomingAppCommands[h].time <= LastHeard(h)

(* Nothing kept for a subject is removed by the expiry scan that another   *)
(* subject's report sets off unless the subject has been silent for longer *)
(* than SubjectExpirySecond, and then everything is.                       *)
ExpirySparesActive ==
  [][\A h \in Host :
       /\ SubjectReports[h] # <<>> /\ SubjectReports'[h] = <<>> =>
            /\ LastHeard(h) < clock - Expiry
            /\ IncomingAppCommands'[h] = Absent
            /\ OutgoingAppCommands'[h] = Absent
       /\ OutgoingAppCommands[h] # Absent /\ OutgoingAppCommands'[h] = Absent =>
            SubjectReports[h] # <<>> /\ LastHeard(h) < clock - Expiry]_vars

(* A subject that asks for a command is answered about that command, never *)
(* about the one it or another goroutine asked for before, unless there is *)
(* no command processor.                                                   *)
AnswerIsAboutRequest ==
  \A w \in Worker :
    call[w].pc = "done" /\ call[w].cmd # NoCmd /\ hasCmdProcessor =>
      call[w].reply.cmd = call[w].cmd
=============================================================================
