# A TLA+ verification project for laitos

laitos is a personal Internet server written in Go: one process hosts a set of
network daemons (web, mail, DNS, SNMP, telnet, SOCKS, telemetry, ...) that all
give access to the same "app command" processor, and a supervisor process that
starts it again when it crashes. This directory models the parts of it that
keep state and meet concurrency, failure or time: TLA+ modules translated from
the Go source, TLC configurations that check them on small instances, and
TLAPS proofs of what holds for every instance. Paths below are relative to
`src/`. `PROJECT.json` maps every definition to the lines it translates.

## 1. Inventory

| Component | State | Operations | Hard behaviour | What makes it correct |
|---|---|---|---|---|
| Message processor `toolbox/message_processor.go` | three maps by host name (report history, command the subject asked for, command ordered of the subject), a report count | StoreReport / processCommandRequest, SetOutgoingCommand, removeExpiredSubjects | goroutines overlap; the mutex is released between read, decision and store, and while a command runs for up to 50 minutes; retention and expiry | no entry says "result to come" with nobody producing it; nothing outlives or is lost with its subject; answers are about what was asked |
| Phone-home daemon `daemon/phonehome` | loop flag, servers, its own message processor | StartAndBlock, getReportForServer, Stop | lost requests and answers, a 15 second timeout against commands that take longer, a standing order repeated in each answer | ordered commands are run and reported, requested ones answered, Stop ends it |
| App command processor `toolbox/cmd_processor.go`, filters, `platform.InvokeProgram` | filters, apps, lock-down flag, last one-time passwords | Process and everything it calls | commands at the same time, codes that expire while they are checked, programs that outlive their timeout, a lock-down in the middle | only an authorised command is run, at most once, and every caller is answered, in the form its own limits ask for |
| Rate limiter `misc/ratelimit.go` | counters by actor, time of last reset | Initialise, Add | reset of all counters at once, off-by-one | bounded burst, nobody refused on another's account |
| TCP/UDP servers `daemon/common/tcpsrv.go`, `udpsrv.go` | mutex, listener, accept loop | Initialise, StartAndBlock, Stop | Stop against start, listener read without the mutex, failed Accept | no socket is lost, stop and lock-down take effect |
| Daemon restart `main_util.go` (AutoRestart) | delay | AutoRestart | goroutines of the round before still about | every transient failure is recovered from |
| Supervisor `launcher/supervisor.go`, `main.go` | launch parameters, shed sequence, time of last start | initialise, Start, GetLaunchParameters, RemoveFromFlags | crash loops, attempt number as an index | crashing daemons are isolated, the configuration is kept, the program is always restarted |
| SMTP server `daemon/smtpd` | conversation stage, answered flag, envelope, mail body | CarryOn, answerOK/Negative, HandleTCPConnection, ProcessMail | client leaves between any two steps, failed replies, STARTTLS, RSET, limits | conversation never stalls, and ends unless the client keeps it up with commands that are not counted; mail is read after its envelope and forwarded |
| Mail commands and outgoing mail `daemon/smtpd/mailcmd`, `inet/mail_client.go` | outstanding bytes, delivery goroutines | Process, WalkMailMessage, sendMailWithRetry | replies that come back to this server, retries, a limit on what is outstanding | no mail loop, the count of outstanding bytes returns to zero |
| Recurring commands `daemon/common/recurring_cmds.go`, ring buffer `lalog/ring_buffer.go` | pre-configured and transient commands, results, running flag | Start, Stop, AddTransientCommand, GetResults, Push, Clear | unbuffered stop channel sent to under the mutex, results pushed while they are collected | results are handed out at most once, nothing runs after Stop |
| DNS server `daemon/dnsd` | black list, allowed clients, latest commands | query handling, UpdateBlackList, Execute | list replaced during queries, resolvers that repeat a question before its answer is there, a purge without the mutex | the list in force is whole; an execution that is waited for really runs; answers are fresh but for those found in the middle of a purge |
| SOCKS server `daemon/sockd` | connection pairs; table of UDP sockets | HandleTCPConnection, pipes, WriteWithRetry, HandleUDPConnection | two pipes end at their own time; two packets of a new client race | no hole in the data, both sides end, no socket without a reader |
| Web server and handlers `daemon/httpd` | listeners, rate limits, bot token, uploads | middleware, handlers, clean-up routine | concurrent requests, a token that runs out under many of them | the token is renewed when it has to be |
| Browser instances `browser/`, their page driver, apps and web pages | pool of external processes, timers; element in focus | Acquire, Retrieve, Kill, the walk over elements | round-robin reuse during use, expiry, a page that changes under the user | a session's look-up finds its own browser only, and never an earlier one answers; a click goes to what was shown |
| Remote virtual machine `remotevm/` | emulator process, QMP connection, ISO file | Start, Kill, commands, download | two mutexes, a kill from inside a command | there is no emulator that Kill does not reach, but for those it failed to end |
| Telegram bot `daemon/telegrambot` | message offset, loop flag | StartAndBlock, ProcessMessages, Stop | a crash makes Telegram hand out updates again | a message is run at most once |
| Serial port daemon `daemon/serialport` | connected devices, conversations | scan, converse, Stop | plugging in and out, two goroutines per device, Stop among them | one reader per device; Stop disconnects all unless the map it walks ends the program |
| System maintenance `daemon/maintenance`, `misc/sys.go` | the computer | stages of a run, Stop | stages that fail, crashes between commands of the firewall, stages that undo one another | the firewall is whole, a clean run delivers all |
| Auto-unlock, password page, Lambda handler, `main.go` | pages, processes, password | pageHandler, LaunchMainProgram, StartAndBlock, getAndProcessLambdaInvocation | two submissions at once, network failures, programs that end | an encrypted program is unlocked in the end |
| Mailbox reader `toolbox/app_imaps.go` | a conversation | ListMails, GetHeaders | mail arriving during the conversation | the list is the window asked for, without mails that cannot be had or parsed |
| Telnet, SNMP, simple IP servers | connections | as the TCP/UDP servers | – | as the TCP/UDP servers |
| Emergency lock-down `misc/process_global.go` | one flag | TriggerEmergencyLockDown, stop, kill | each loop looks at it at its own time | takes effect everywhere |
| Loggers, HTTP client, configuration, other apps, statistics, benchmark | little or none | system calls, formatting | – | not modelled |

How they interact: `main.go` builds every configured daemon once and runs each
under AutoRestart on a goroutine. Network daemons delegate listening to the
TCP/UDP servers, which ask the rate limiter before a client gets a goroutine.
Clients' commands go to the command processor, whose message-processor app
stores telemetry and runs commands for subjects; the phone-home daemon is such
a subject and has a message processor of its own. All loops read the lock-down
flag. The supervisor sees only the exit of the process.

## 2. Modules

| Module | Models | Composes / extends |
|---|---|---|
| `MessageProcessor` | `toolbox/message_processor.go`, `message_processor_struct.go` | – |
| `PhoneHome` | `daemon/phonehome/phonehome.go` and the order service `daemon/httpd/handler/message_processor.go` | two instances of `MessageProcessor`: the subject's and the server's |
| `CommandService` | what the command processor promises (abstract) | – |
| `CommandProcessor` | `toolbox/cmd_processor.go`, `cmd_input_filter.go`, `cmd_result_filter.go`, `cmd.go`, the apps that change the program's state, `platform` InvokeProgram | implements `CommandService` through `INSTANCE ... WITH` |
| `RateLimit` | `misc/ratelimit.go` | – |
| `NetServer` | `daemon/common/tcpsrv.go`, `udpsrv.go`, StartAndBlock/Stop of `dnsd`, `plainsocket`, `smtpd`, `snmpd`, AutoRestart in `main_util.go` | – |
| `Supervisor` | `launcher/supervisor.go`, the abort of `main.go` | – |
| `SMTPDaemon` | `daemon/smtpd/smtp/connection.go`, `protocol.go`, `daemon/smtpd/smtpd.go` | – |
| `MailCommand` | `daemon/smtpd/mailcmd`, `inet/mail_client.go` | composes the command runner with the delivery of its own replies |
| `RecurringCommands` | `daemon/common/recurring_cmds.go`, `lalog/ring_buffer.go`, `daemon/httpd/handler/recurring_cmds.go` | – |
| `DNSNames`, `DNSCommands` | `daemon/dnsd` | – |
| `SocksTCP`, `SocksUDP` | `daemon/sockd` | – |
| `TelegramBot`, `SerialPort`, `Maintenance` | the daemons of these names; `misc/sys.go` | – |
| `BrowserInstances`, `BrowserPage` | `browser/phantomjs`, `browser/slimerjs`, their apps and web pages | – |
| `RemoteVM` | `remotevm/remotevm.go`, `daemon/httpd/handler/remotevm.go` | – |
| `WebHandlers` | `daemon/httpd/httpd.go` and the handlers that keep state | – |
| `Unlock` | `daemon/autounlock`, `launcher/passwdserver`, `lambda`, `main.go`, `misc` encryption | both computers and the two processes of the program |
| `MailboxReader` | `toolbox/app_imaps.go` | – |
| `*Proofs` | the theorems of section 4 | each extends the modules it is about |
| `MC*` | the constants of the runs | extends the modules it checks |

### MessageProcessor

One critical section of the mutex is one action. StoreReport of the Go code is
the sequence `StoreReport` (append, count, expiry scan, pick the order),
`ReadPrevCmd`, then one of `RetrievePrevResult`, `RefuseRecursiveCommand` or
`StartCommand`; `FinishCommand` follows after the command. `call[w]` is the
stack frame of goroutine `w`. A Go map is a function with `Absent` (or the empty
history) for a missing key. Of a report the command response and the time are
kept, of a response the command and whether it has a result.

Time is a counter. `CallLimit` stands for the longest a call lasts (the
command's timeout of 3000 seconds), `Expiry` for 72 hours, and `Tick` is held
back by a call that has reached `CallLimit`, as the command's timeout does.
`LimitAssumption` (CallLimit <= Expiry) is what the constants of the code give.
`totalReports` is kept modulo its only use.

### PhoneHome

The daemon is one goroutine and its control state is `pc`; the server handles
each report on a goroutine (`Thread`). `net` is the one request or answer under
way: the daemon sends the next one only after it got the answer or gave up. A
command at the server may outlast the daemon's timeout (`GiveUp` while the
thread runs), and its result is then fetched by a later report. A server of
`Unreachable` is visited and never answers. HTTP and DNS transport differ only
in what may be lost. The assumptions on the constants are those of
MessageProcessor, stated once for both ends (`PhoneHomeAssumption`).

### CommandService and CommandProcessor

A request is one call of Process, and each of its steps that reads or writes
shared state is an action: the checks at the entry, the command filters (PIN,
shortcuts, one-time passwords, sequences), the .plt prefix, the dispatch to an
app, the program with its time limit, the result filters. An input is a
sequence of lines with a credential and a body; a text is its length and
whether it is blank. One-time codes are those of a 30 second division of the
clock, and `NextDivision` may come between any two steps. `lock`, `stop` and
the like are commands of the environment app, so that one request locks the
program down while another runs.

`CommandService` says what the daemons rely on: a command is accepted at most
once, only with a credential that is good at that moment and only if it arrived
before the lock-down, and then answered unless the program ends. It does not say
that a one-time code is good for one command only, as cmd_input_filter.go:20-23
means it to be: the check and the remembering are two steps without a lock
(`PINTransform`, `RememberTOTP`), and two commands with the same code may both
come between. The refinement
mapping is at the end of `CommandProcessor` (`ImplementsService`); it includes
the liveness part.

### RateLimit

`Add` holds its mutex throughout and is one step, in its three cases. The
history variable `admitted` holds the times of the hits let through; `Factor`
is the enlargement Initialise applies to limits per second.

### NetServer

A goroutine inside StartAndBlock has a slot and a control state; `live` says
that the daemon's StartAndBlock of the current round still reads its result.
Goroutines of an earlier round keep running. `listener` (the Go field) and
`bound` (the operating system's view) are apart so that a socket can be lost.
The reads of `srv.listener` without the mutex (`FetchListener`) and the return
with a locked mutex in udpsrv.go (`ResolveFails`) are modelled as they are: the
former panics in the TCP server, the latter blocks every later start and stop.
With `Direct` the daemon is smtpd or snmpd, which call their server's
StartAndBlock themselves and never call Stop on an error.

### Supervisor

Flags are sequences of tokens, so that RemoveFromFlags (values follow their
flag or are joined with "=") and the `copy` over the result keep their meaning.
`culprit` are the daemons that crash the program soon after each start;
`mishaps` counts everything else that goes wrong. Names of daemons are a set: a
name given twice is outside the model. The supervisor knows a flag by its one
dash (supervisor.go:298, 309) where the flag package takes one or two: a
`--config` is a name of its own here, which the program reads and the supervisor
does not. ShedKeepsConfig and Isolation are about a -config of one dash
(`OneDash`); the run has a command line with two as well, which the first
failure costs its configuration.
RemoveFromFlags is the subsequence of the tokens that are kept, and the n-th
shed set lacks the first n daemons of the order: positions are counted with
Cardinality where the code runs a loop, which lets both be reasoned about for
every command line. Every command line has -config (`ConfigAssumption`): the
supervisor is the main program too and has come past that check itself.

### SMTPDaemon and MailCommand

Each read of the connection is an action together with all the server does up
to its next read. `answered`, `stage` and `expectNextStage` are the fields of
the connection. `gone` makes replies fail, each by its own choice; what the
client sent before it left can still be read. `txn` and `owed` are history. The
byte limit of a command is abstracted to `LimitReached`: the reader may run
into it at any command. Commands that CarryOn answers itself (`Chat`) may come in
any number: numCommands of smtpd.go counts the returns from CarryOn only, so that
smtpd.go:25 ("Only converse up to this number of exchanges in an SMTP
connection") is true of the others. `chatter` is history, and
alternates at every such command; ConversationEnds is stated for a client that
sends only finitely many of them, which is when `chatter` comes to rest.

`MailCommand` takes up where ProcessMail hands a mail to the command runner,
walks its parts, and lets the replies travel through sendMailWithRetry. A
delivery succeeds, fails, or fails after the mail was taken over (then it is
delivered again), and a mail may be addressed to this very server: the generation
of a mail (`gen`) counts how often an answer was answered.

### RecurringCommands

The loop of Start, a caller of AddArbitraryTextToResult, one of GetResults and
one of Stop run concurrently. The mutex is a variable where it is held over
several steps (GetResults, Stop) and a guard where a critical section is one
action. Push is two steps (atomic addition, write), and a retrieval reads slot
by slot, as neither is under the mutex. The counter is kept modulo the size,
its only use. A result is a number, `Blank` the empty string that marks an empty
slot: the result of a command refused by a lock-down or the processor's rate
limit. `recent` and `clean` are history for the reference definition, `Lists`,
which says that a retrieval is an order-preserving and complete selection of the
history; `Unused` are the numbers that nothing refers to and whose remainder is
the slot they are going to.

### DNSNames and DNSCommands

`UpdateBlackList` downloads, divides the names among its goroutines and replaces
the list; a name is resolved by `Resolve` in any order, and the names that the
division leaves over are never resolved, as in the code. Queries are handled in
between with the list they find. `DNSCommands` has three handlers of text
queries in the map of latest commands; purgeAfterTTL, which is called without
the mutex although its comment wants it locked (latest_cmd.go:29), decides,
writes lastPurge and replaces the map in three steps. `torn` is history: the
handlers that found a result between the two writes of another one's purge, which
may be of any age. AnswersAreFresh exempts these and no others.

### SocksTCP and SocksUDP

The connections and the two pipes of a conversation each have a state of their
own; WriteWithRetry writes portion by portion and each may fail. On the UDP
side two packets of one client may both find no socket, so that the table
forgets one; its goroutine must still close it.

### BrowserInstances and BrowserPage

An instance is known by its tag and keeps its slot, whether its command is set,
its timer and its process; requests of users take the mutex, look up their tag
and may be overtaken by a new acquisition of the slot or by the expiry timer.
SendRequest then goes to the slot's port without the mutex, where the newcomer
may answer. `since` is history, the latest tag there was at the look-up: who
answers is the session's own browser, or one that came after the look-up.
The two engines are one module, which differ by the container image. In
`BrowserPage` an element has a descriptor and a size class; the page may be
replaced between any two steps of the walk. A document that changes in place
while an element of it is in focus is not modelled.

### RemoteVM

Both mutexes, the single QMP connection with the lines on it, and the operators
whose button presses consist of one command or more (a double click of four).
The emulator may exit or report an event on its own. Kill may fail to end the
process: the code logs that and forgets the process all the same
(remotevm.go:211-216), and `escaped` remembers it, as history. Its connections
stay, and a later Dial may reach it.

### WebHandlers

Every request passes the middleware (limit, lock-down) and then the steps of
its handler. Handlers that only answer are one step. After a command the bot
replies with a request of its own, The Things Network may, for it does so only
for a command of more than ten characters, and the others answer in place. The
clean-up of uploads
leaves the files in place because the code removes a path without its directory.

### TelegramBot, SerialPort, Maintenance

Telegram keeps the updates that have not been confirmed by a later offset and
`CrashAndRestart` forgets the offset. One clock serves for Telegram's dates and
for the start of the program; two that differ by more than a second would let
the bot run a message again, or leave out a new one. A conversation of the
serial port is its two goroutines and the channel of two signals between them;
`FatalMapError` is the end of the program when a conversation deletes its entry
while Stop walks over the map without the mutex (daemon.go:214). A stage of
maintenance is one action with or without a fault, or none if its option is not
set (`StageIf`: the time zone, the swap file, the permissions, the software); the
iptables commands are actions of their own, and a crash may come between them.
The clock may be ahead when the program starts, which leaves a start time in the
future until CorrectStartupTime.

### Unlock

The password page and the main programs of the computer that is locked, a
person and a robot that submit passwords, and invocations of Lambda. The page
closes in two steps, so that a second submission can fall between them.

### MailboxReader

One command from login to the result, with mails that arrive at any time and
are announced within the answer to another request. The two loops, GetHeaders
over the lines of an answer and ListMails over the numbers of the window, are the
recursive functions `Walk` and `Output`, an element for every round of the loop.
The server may leave mails of the range out of its answer and give the others in
any order; `absent` remembers which, as history. `Unparsed` are the mails whose
header inet.ReadMailMessage does not take. ListMails skips both without a word
(app_imaps.go:385-392). A header with a line that begins with an asterisk or a
bracket, which the walk would take for the next mail or the end of this one, is not
modelled.

### Parts side by side

`MCServices` and `MCConversations` put modules that share no state into one
run. The variable `part` is chosen by the initial state and never changes; only
that part moves, and the others rest in one initial state. The reachable states
are the sum and not the product of the parts, and each part is explored whole.
A resting part enables none of the actions that its fairness is about, so the
fairness conditions of the others are met and none of the behaviours of the
moving part is excluded.

## 3. Runs

| Run | Checks | Instance, and why it is enough |
|---|---|---|
| `message_processor` | PendingHasRunner, NoOrphanedCommand, HistoryCoversCommands, AnswerIsAboutRequest, ExpirySparesActive | 2 subjects (one sets off the scan that expires the other), 2 goroutines (one decides on a stale entry while the other stores), a plain and a recursive command, history of 2 (full after two reports), retention 0, expiry 1 and 3 instants: retention and expiry both pass within the model. Hosts and goroutines are symmetric; no liveness is checked |
| `phone_home` | OrderRemembered, OrderedCommandReported, RequestedCommandAnswered, StopHonoured | one subject, a server with 2 threads (one still running the command that the daemon gave up on), one server that never answers, one command in each direction |
| `command_processor` | AnswersAreShaped, ImplementsService | 2 requests: the first of 15 kinds (each credential, good and bad limits, missing app, lock-down, stop, report, too long), the second of the 4 that can disturb it; 2 divisions of time |
| `net_server` | ListenersInOrder (types, no socket lost, one late client after a lock-down), SelfHealing | both servers, 3 slots each, two faults of any kind at any place, one Stop at any time, a lock-down |
| `supervisor` | SheddingInOrder (types, order of shedding, configuration kept while shedding), Isolation | 5 command lines with -config first, in the middle, joined by "=" and with two dashes, 5 sets of daemons with and without auto-unlock, 5 sets of culprits, 2 mishaps |
| `smtp` | ConversationInOrder (types, no read before a reply, data after the envelope, last mail forwarded), ConversationEnds | 10 calls of CarryOn (a mail takes 5), 2 mails, any number of commands that CarryOn answers itself, STARTTLS |
| `recurring` | ResultsInOrder (types, an undisturbed retrieval is exact, quiet after Stop), HandedOutOnce | a pre-configured and a transient command, a buffer of 2 slots: every round wraps round, and a retrieval overlaps with pushes of two callers at each slot |
| `conversations` | NoMailLoop, OutstandingDrains; OneReaderPerDevice, StopDisconnects; StreamHasNoHole, BothSidesEnd; EventuallyUnlocked | one mail of a person and two generations of replies (a loop shows at the second), one mail may be outstanding and the next is over the limit; 2 devices and 2 conversations, so that a device can come back, and Stop meets one that leaves; 3 portions and 3 attempts; 2 visits and one restart |
| `services` | see below | eleven parts, one at a time |
| `recurring_stop`, `smtpd_recovery`, `supervisor_flags` | StopReturns, SelfHealing, ConfigKept | expected violations, see the findings |

The parts of `services`:

| Part | Checks | Instance |
|---|---|---|
| RateLimit | AtMostTwiceTheAllowance, RefusedOnlyWhenBusy | 2 actors, 2 per second enlarged to 4 per 2 seconds, 3 instants |
| DNSNames | BlackListIsWhole | two downloads of 3 names, one name white-listed and one with an address; a limit of 3; division by 3 and by 2, the latter with a remainder |
| DNSCommands | OngoingIsRunning, AnswersAreFresh | 3 handlers (one runs, one waits, one is between two steps of a purge), a TTL of 1 and time for two of them |
| TelegramBot | RunAtMostOnce | 3 messages within 3 seconds of crashes and polls |
| SocksUDP | OpenSocketHasReader | 2 clients, 2 packets at once, 2 sockets |
| BrowserInstances | SessionsAreKeptApart | 2 users, 2 slots, 3 starts: a slot is reused |
| BrowserPage | FocusIsReported | pages with repeated, hidden and large elements |
| RemoteVM | EmulatorIsKnown | 2 operators, 2 boots, 2 connections, one event, any kill may fail |
| WebHandlers | RenewedWhenExpired | 2 requests at a time, four sets of handlers, tokens that last 1 of 3 seconds |
| Maintenance | FirewallIsWhole, CleanRunDelivers | 4 computers (all options, some, the swap left alone, Windows), a clock that is right or ahead, 2 runs, 2 faults, a crash |
| MailboxReader | ListIsTheWindow | up to 4 mails of which one cannot be parsed, windows cut at either end, a limit of 3, answers with any of the mails in any order |

Every property has a mutant in PROJECT.json: a plausible slip in the code,
defined next to the original, under which TLC finds the property violated.

Deadlock is checked where a step is always possible (`message_processor`); the
other systems may really stop (a daemon that has ended, a closed connection, a
bound on mishaps or on the clock).

### Fairness

* PhoneHome: the daemon's goroutine and the server's threads run on (WF). The
  network may lose any request and any answer but not all of them (SF of
  DeliverRequest and GetAnswer); without that no protocol delivers anything.
* CommandProcessor: every goroutine is scheduled and a program's time limit
  comes (WF). A program need not exit by itself.
* NetServer: goroutines run on unless they wait for a client (WF of LoopStep),
  as do AutoRestart and the caller of Stop. SF of a live goroutine's listen:
  the Go scheduler does not let the error handling of the sibling win the race
  in every one of infinitely many rounds. `WakeUp` waits for the goroutines to
  settle once AutoRestart sleeps 10 seconds and more; its first restart is
  immediate and does not.
* Supervisor: its loop never rests, and a program that is bound to crash
  does (WF).
* RecurringCommands: goroutines run on (WF); those that wait for the mutex or
  the channel get their turn (SF), as Go's mutex hands over to a waiter that has
  waited for long.
* SMTPDaemon, SocksTCP: every read and write has a deadline, so the next step
  comes (WF).
* MailCommand: goroutines run on and network operations have time limits (WF).
  That a mail arrives is not forced.
* SerialPort: the goroutines of a conversation and the caller of Stop go on
  (WF); a device may be silent for ever.
* Unlock: every goroutine and process goes on (WF); the network between the
  robot and the page works again and again (SF), invocations keep coming and
  what started laitos starts it again (WF). Nobody is forced to type a password.

The eleven parts of `services` have no liveness property and no fairness.

### Findings

* `recurring_stop`: Stop waits for the loop with the mutex in its hands, and the
  loop may be waiting for the mutex: both wait for ever, and so does every later
  retrieval.
* `smtpd_recovery`: after a failed Accept the listener stays set, and a daemon
  that does not call Stop (smtpd, snmpd) is refused at each restart for ever.
* `supervisor_flags`: the attempts after shedding overwrite the reduced flags
  with the beginning of the original ones; unless -config comes first it is
  lost and the program cannot start any more. The property asks this of a -config
  with one dash only.

`SelfHealing` passes with its exemptions stated: a lock-down, a Stop, a lost
mutex (udpsrv.go:93) and the nil dereference (tcpsrv.go:103) are states
of NetServer and end the recovery.

Behaviour that the models contain as the code has it, that a reader of the
documents may not expect, and for which there is no run of its own:

* Two commands of one telemetry subject may run at once, and the one that
  finishes last is remembered, though it may have been asked for first.
* Of the mails of one SMTP connection only the last is forwarded.
* A mail whose QUIT fails after its DATA is delivered again.
* Uploaded files are never deleted (`file_upload.go:83` removes a path
  without its directory).
* Up to eleven names of a black list are left over by the division among
  goroutines and never blocked.
* A client that sends NOOP or the like before each deadline keeps its SMTP
  connection for ever; smtpd.go:25 reads as if it could not. The condition is part
  of ConversationEnds.
* purgeAfterTTL runs without the mutex that latest_cmd.go:29 asks of its caller:
  between its two writes another handler answers with a result older than the
  TTL. The condition is part of AnswersAreFresh.
* A request of an old browser session may be answered by the browser that has
  taken over its slot, if it looked the session up before that (renderer.go:583).
* An emulator that could not be killed is forgotten and runs on.
* A conversation of the serial port that ends during Stop may end the program
  (concurrent iteration and deletion of a map).
* A list of mails lacks, without a word, those whose header cannot be parsed.
* Results of recurring commands pushed while GetResults reads may be lost: those
  that come to a slot already read are cleared without having been handed out.
* Two commands that come at once may use the same one-time code.
* --config, which the program takes for -config, is dropped by the supervisor at
  the first failure.
* The SOCKS table cleaner ends at once if the UDP server does not listen yet.
* The Things Network handler sends a downlink only for long commands.
* After a failed start or an expiry the browser app keeps its dead instance
  until it is told to kill it.
* A QMP event or a timeout shifts the pairing of commands and answers until
  the connection is made anew.
* A crash between iptables commands leaves the policy on DROP until the next
  run, and the fail safe may fail as well.
* The refusals at the beginning of Process return without combined output.
* Stop of telegram bot and maintenance may wait for ever on its channel when the
  loop ends by itself at the same time.

## 4. Proofs

Every safety property of the runs that is stated by a theorem is proved there
for all values of the constants: any number of clients, goroutines, devices,
commands, slots and failures, not the two or three of the run. The argument is
each time an inductive invariant, which holds initially, is kept by every action
and implies the property. Each one was checked by TLC as an invariant of its run
before it was proved. The assumptions are the named ASSUMEs of the modules, which
say of which type a constant is or that a set of names does not contain the
name of "none"; where one says more it is mentioned below.

| Module | Theorems | Invariant |
|---|---|---|
| `MessageProcessorProofs` | TypeCorrect, PendingAlwaysHasRunner, NeverOrphaned, HistoryAlwaysCovers, ExpiryAlwaysSparesActive, AnswerAlwaysAboutRequest | TypeOK, CoverInv |
| `CommandProcessorProofs` | AnswersAlwaysShaped, ServiceKeptSafe | CPInv |
| `NetServerProofs` | ListenersAlwaysInOrder | NSInv |
| `PhoneHomeProofs` | PHTypeCorrect, ProcessorsAsSpecified, BothEndsKeepPromises, OrderAlwaysRemembered | TypeOK, PrevIsCurrent |
| `ConversationProofs` | ConversationAlwaysInOrder, NeverMailLoop, StreamNeverHasHole, AlwaysOneReaderPerDevice | SMTPInv, MCInv, STInv, SPInv |
| `RecurringProofs` | ResultsHandedOutOnce, StoppedStaysQuiet, ResultsAlwaysInOrder | RCInv, StopInv, OrderInv |
| `UpkeepProofs` | FirewallAlwaysWhole, CleanRunAlwaysDelivers, ShedsAlwaysInOrder | MTInv, SVInv |
| `ServiceProofs` | RateTypeCorrect, TwiceTheAllowance, OnlyTheBusyAreRefused, EmulatorAlwaysKnown, OngoingAlwaysRunning, AnswersAlwaysFresh, BlackListAlwaysWhole, OpenSocketAlwaysRead, RenewedOnlyWhenExpired, MessagesRunAtMostOnce, SessionsAlwaysApart, FocusAlwaysReported, ListAlwaysTheWindow | RateInv, VMInv, DCInv, DNInv, SUInv, WHInv, TGInv, BIInv, IMInv |

### Why the properties are not inductive, and what is added

* **Message processor.** PendingHasRunner is inductive relative to TypeOK: only
  StartCommand makes an entry pending and then its own goroutine runs it; a
  running goroutine leaves by FinishCommand, which replaces the entry of its
  host by a finished one whatever it was; a stale erasure removes the entry
  altogether. NoOrphanedCommand, HistoryCoversCommands and ExpirySparesActive
  need `CoverInv`, since a command may be stored long after its report: the
  histories are ordered and in the past, and each call in progress is covered by
  a report of its host at least as new as itself and is no older than CallLimit.
  With CallLimit <= Expiry (`LimitAssumption`, which the constants of the code
  meet) the scan, which removes only hosts whose newest report is older than
  Expiry, cannot take the history of a call in progress.
* **Phone home.** ProcessorsAsSpecified says that a behaviour of the composition
  is one of MessageProcessor at the subject and one at the server
  (`Local!Spec`, `Remote!Spec`): every step of the daemon or of a thread of the
  server is one step of an end or leaves it as it is. BothEndsKeepPromises then
  takes over what MessageProcessorProofs shows of one processor, for both, and
  nothing is proved a second time. OrderRemembered is about the step that takes an
  order away. It needs PrevIsCurrent: the daemon is the only caller at its end, so
  that what it has read of the previous command is still what is stored when it
  decides to drop it.
* **Command processor.** AnswersAreShaped is about the end of Process, so CPInv
  keeps the type of every call in progress and says that the configured LintText
  is never changed by a call with a .plt prefix. For the refinement CPInv adds
  that a call which came after the lock-down never gets past the look at it;
  then every step of CommandProcessor is one of CommandService or a stutter under
  the mapping of `ImplementsService`. Acceptance is the one step that matters:
  the credential is compared with the codes of that very moment.
* **TCP and UDP servers.** OpenIsReachable alone does not survive a restart.
  NSInv adds that a server has one goroutine of the current round at most
  (LiveInv), that what StartAndBlock waits for was sent or will be sent by such a
  goroutine (CountInv), so that a new round starts with none left, and that a
  goroutine which took a client after a lock-down is at the check that ends it
  (LateInv). Goroutines of earlier rounds are in the invariant and do no harm.
* **SMTP.** SMTPInv says where answerOK will take the conversation (PendingInv),
  that a stage is reached only with the verbs before it acknowledged (StageInv),
  that a reply is owed only for what the next CarryOn acknowledges
  (RepliesInv), and what a client that did nothing odd has given (EnvelopeInv).
* **Mail commands.** A mail without the program's own keyword is of generation 1
  at most; only such a mail is answered.
* **SOCKS, TCP.** The portions sent are all those before the current one, until
  the attempts are used up; from then on there is an error.
* **Serial port.** While the loop looks for devices a running reader has its
  conversation waiting for it with no signal in the channel, and that holds the
  device's entry. Stop breaks this on purpose, but only after the loop has ended.
* **Recurring commands.** HandedOutOnce is a property of the step in which
  GetResults returns. RCInv follows every element: it is in one slot or in one
  push at a time, what has been gathered is in no slot that is still to be read
  and in no push, and the two loops of IterateReverse together visit every slot
  once (`ReadOrderVisitsOnce`, for any size and any latest slot). A push that
  overwrites a slot in the midst of a retrieval then cannot give an element
  twice. The numbers that stand for results are used again only when nothing
  refers to them any more, which is how the model says that results differ.
  ResultsInOrder is about what GetResults has read at its end. OrderInv adds that
  the number of an element leaves the remainder of its slot (ResidueInv), so that a
  slot, the pushes, the history and a retrieval refer to at most five numbers of
  one remainder and a sixth is free (`AlwaysFresh`); and that, while nothing has
  overlapped, the k-th slot back from the counter holds the k-th latest of the
  history, blank ones included, and a retrieval lists the part of the history that
  it has passed (CleanInv).
* **Maintenance.** FirewallIsWhole is about the end of a run. ChainInv says what
  the INPUT chain is after the first n commands of the setup or of the fail safe;
  DeliveryInv says for each stage what the stages before it have delivered and
  that no later one takes it away. Docker comes only with the second clean run,
  since its repository needs tools that the first one installs.
* **Supervisor.** SVInv is the type, -config on the supervisor's own flags, and
  what a launch promises. The work is in the operators: a kept token keeps its
  order and its value (`RemoveFromFlags` counts positions, and the n-th of a
  finite set of positions exists and is unique), a flag survives every removal
  of others (`FlagSurvives`), the n-th shed set lacks exactly the first n daemons of the order
  and is never empty, and paramChoice - 1 is a position of the shed sequence
  whenever LaunchDaemons looks one up.
* **Rate limiter.** The last `counter` hits of an actor came since the reset, the
  ones before were no later than it, and of these all but one allowance came at
  least an interval earlier. The bound is the sum of the two halves.
* **Remote machine.** Emulators are numbered, emulatorCmd is the latest or none;
  every other one that runs is among those that a Kill failed to end.
* **DNS commands.** ResultsInTime: while no purge is between its two writes, no
  result is older than the last purge. PurgedInTime: a handler past the look at
  the clock asked no later than TTL after that purge.
* **Black list.** Of the names that the new list is to have, those not in it wait
  for a goroutine but for the remainder of the division, which is smaller than
  the number of goroutines. `DNAssumption` has no more goroutines for a later
  list than for the first, as in the code.
* **SOCKS, UDP.** A packet that is past the making of its socket has one, and the
  next step of the packet is the start of its reader.
* **Web.** The request that renews holds the mutex, and what it found expired
  stays expired: time does not run backwards and nobody else renews.
* **Telegram.** What Telegram may still hand out and the bot would still run has
  neither been run nor is being run: the offset is past what this program has
  seen, and what an earlier one has seen is older than the start of this one.
* **Mailbox reader.** IMInv says which conversation follows which, that a fetch
  comes only after a count larger than what is skipped, and what the list is from
  then on. The window then lies within the mailbox, so that "range" is never
  answered. A server's answer is well-formed: a header follows its number and is
  followed by its end (`ResponsesWellFormed`; a mention of the number of mails
  between two mails changes nothing). After any number of lines of such an answer
  the map has the header of every mail that has ended, under its own number, and
  the buffer holds that of the number last seen (`WalkedTo`), also where a bracket
  has stored it without emptying the buffer.
* **Browsers.** Tags grow, and so does the tag in a slot; a running process is
  the one that its slot names; one user at a time is starting an instance. A
  request on its way to the port (InSession) has found its own tag in the slot, and
  whatever is there later has a tag greater than all there were then.

### Only model-checked

* All liveness (OrderedCommandReported, RequestedCommandAnswered, StopHonoured,
  SelfHealing, Isolation, ConversationEnds, OutstandingDrains, StopDisconnects,
  BothSidesEnd, EventuallyUnlocked) and the fairness of CommandService in
  `ImplementsService`: fairness and ENABLED are out of the prover's reach.

### Induction over data

The induction theorems of the library take an operator as a parameter and cannot
be instantiated by the provers at hand. Two lemmas take their place: `Least` (a set of
natural numbers that is not empty has a least element, from WFMin, whose parameter
is a set) and `CountUp` (a set which has 0, and n + 1 when it has n, has every
number up to a last one). With the set {n : ...} of the rounds after which a loop
is where it should be, CountUp is induction over the rounds. It also gives the
existence of a recursive function, and so its equation (`WalkGoesOn`,
`OutputGoesOn`).

## 5. Not modelled

* Log writer and logger: a byte buffer under one mutex, and formatting.
* HTTP client, public IP and OAuth: network I/O on behalf of the apps, whose
  failures the callers' models contain.
* Simple IP services: constant answers.
* Configuration: a JSON file from which each daemon is built once (sync.Once).
* The apps other than those named above: each turns a command into a call of a
  system program or an Internet service and keeps nothing between commands.
* Statistics and the benchmark.
* Within modelled components: parsing and encoding of packets, commands,
  addresses and pages (abstracted to their outcome), ciphers, logging, texts of
  notifications, the DMARC rewriting of forwarded mail, what the emergency kill
  destroys, a wall clock that is set back, duplicate daemon names.

PROJECT.json lists every component with its status.

## 6. State

The components of section 1 are modelled in the modules of section 2, with the
runs of section 3 and the proofs of section 4. Every safety invariant that a run
checks is stated by a theorem, and so is every action property but the fairness
of `ImplementsService`.

What could follow:

1. A reader of `srv.listener` outside the mutex in NetServer (the hazard without
   a property in PROJECT.json), once the code says what is to happen there.
2. Duplicate daemon names in Supervisor, as sequences.
3. The configuration file as the source of each daemon's constants.
