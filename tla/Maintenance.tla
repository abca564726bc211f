------------------------------ MODULE Maintenance ------------------------------
(***************************************************************************)
(* The system maintenance daemon (daemon/maintenance) and the system       *)
(* utilities it calls (misc/sys.go).  A loop runs Execute: the stages of   *)
(* SystemMaintenance one after the other, then the health checks and the   *)
(* report.  Every stage runs programs that may fail, goes on regardless,   *)
(* and counts on what earlier stages and earlier runs left behind; the     *)
(* program may crash in the middle, and starts again from the first stage. *)
(* The steps of a stage are one action, but for iptables, whose commands   *)
(* are actions of their own.                                               *)
(***************************************************************************)
EXTENDS Naturals, Sequences

CONSTANTS
  AllowedPorts,     \* BlockPortsExcept, as a sequence
  ToDisable,        \* DisableStopServices; "firewall" stands for a firewall service
  ToEnable,         \* EnableStartServices
  LocalUsers,       \* accounts of the computer
  LoginExcept,      \* BlockSystemLoginExcept
  MaxRuns,          \* bound of the model: runs begun
  MaxFaults         \* bound of the model: stages and commands that fail

ASSUME MTAssumption == AllowedPorts \in Seq(STRING)

VARIABLES
  setup2,           \* operating system and configuration: fixed in a behaviour
  run,              \* where the loop of StartAndBlock is, and its stage
  fw,               \* the INPUT chain: its policy and rules
  ipt,              \* the iptables commands that are run, and the next of them
  machine,          \* the rest of the computer
  past,             \* runs begun, runs that ended without a fault, faults
  mtFlag,           \* loopIsRunning
  mtStopper,        \* the caller of Stop
  mtLocked          \* misc.EmergencyLockDown

mtVars == <<setup2, run, fw, ipt, machine, past, mtFlag, mtStopper, mtLocked>>
loopVars == <<mtFlag, mtStopper, mtLocked>>

NoRun == [pc |-> "off", stage |-> 0, clean |-> TRUE, unsafe |-> FALSE]
NoCommands == [for |-> "nothing", next |-> 1]

(* What is done only if the configuration says so: SetTimeZone,            *)
(* InstallPackages, DoEnhanceFileSecurity.  SwapFileSizeMB is positive,    *)
(* negative or 0.                                                          *)
Options == {"zone", "software", "permissions"}

MTInit ==
  /\ setup2 \in [os : {"debian", "windows"}, throttle : {1, 5}, swap : {"on", "off", "unset"},
                 options : SUBSET Options]
  /\ run = NoRun
  /\ fw = [policy |-> "ACCEPT", rules |-> <<"found">>]
  /\ ipt = NoCommands
  /\ \E c \in {"right", "ahead"} :
       machine = [zone |-> "old", utilities |-> "fresh", swapFile |-> "absent", swapOn |-> FALSE,
                  tools |-> FALSE, repository |-> FALSE, docker |-> FALSE,
                  blocked |-> {}, services |-> ToDisable, clock |-> c, startup |-> c,
                  hardened |-> FALSE]
  /\ past = [runs |-> 0, clean |-> 0, faults |-> 0]
  /\ mtFlag = FALSE /\ mtStopper = "idle" /\ mtLocked = FALSE

Windows == setup2.os = "windows"
Configures(option) == ~Windows /\ option \in setup2.options

-----------------------------------------------------------------------------
(* SystemMaintenance: the order of the stages.                             *)
StagesFirewallBeforeServices ==
  <<"script", "kernel", "zone", "files", "defragment", "trim", "swap", "copy", "software",
    "integrity", "clock", "login", "iptables", "services", "permissions">>
SystemMaintenance ==
  <<"script", "kernel", "zone", "files", "defragment", "trim", "swap", "copy", "software",
    "integrity", "clock", "login", "services", "iptables", "permissions">>

At(stage) == run.pc = "stage" /\ SystemMaintenance[run.stage] = stage

(* A stage ends, well or not, and the next one or the checks follow.       *)
StageEnds(ok) ==
  /\ ok \/ past.faults < MaxFaults
  /\ past' = IF ok THEN past ELSE [past EXCEPT !.faults = @ + 1]
  /\ run' = [pc |-> IF run.stage = Len(SystemMaintenance) THEN "check" ELSE "stage",
             stage |-> run.stage + 1, clean |-> run.clean /\ ok, unsafe |-> run.unsafe]

(* The computer after a stage that succeeds, or one of those after a       *)
(* stage that does not.                                                    *)
Stage(name, good, bad) ==
  /\ At(name)
  /\ \/ StageEnds(TRUE) /\ machine' = good
     \/ StageEnds(FALSE) /\ machine' \in bad
  /\ UNCHANGED <<setup2, fw, ipt, loopVars>>

(* A stage that returns at once unless it is meant for this computer.      *)
StageIf(does, name, good, bad) ==
  Stage(name, IF does THEN good ELSE machine, IF does THEN bad ELSE {machine})

(* The stages that leave nothing behind that another one looks at: the     *)
(* script of the configuration, the kernel parameters, the disks, and the  *)
(* repair and update of Windows, which are skipped on the other system.    *)
Unrelated(name) == Stage(name, machine, {machine})
RunPreMaintenanceScript == Unrelated("script")
TuneLinux == Unrelated("kernel")
DefragmentAllDisks == Unrelated("defragment")
TrimAllSSDs == Unrelated("trim")
MaintainWindowsIntegrity == Unrelated("integrity")

(* The link to the zone is removed before the new one is made.             *)
SetTimeZone ==
  StageIf(Configures("zone"), "zone", [machine EXCEPT !.zone = "new"],
          {machine, [machine EXCEPT !.zone = "none"]})

(* CleanUpFiles: what is a week old, the utilities included.               *)
CleanUpFiles ==
  LET cleaned == IF machine.utilities = "old" THEN [machine EXCEPT !.utilities = "none"] ELSE machine
  IN  Stage("files", cleaned, {machine, cleaned})

(* A swap file is made unless there is one; one that could not be filled   *)
(* stays as it is, and is used from the next run on.  A failure of mkswap  *)
(* does not keep swapon from being tried.                                  *)
MaintainSwapFile ==
  LET made == {[machine EXCEPT !.swapFile = f] : f \in {"partial", "whole"}}
      kept == IF machine.swapFile = "absent" THEN [machine EXCEPT !.swapFile = "whole"] ELSE machine
      on == setup2.swap = "on"
  IN  StageIf(~Windows /\ setup2.swap # "unset", "swap",
              IF on THEN [kept EXCEPT !.swapOn = TRUE] ELSE [machine EXCEPT !.swapOn = FALSE],
              {machine} \union (IF on /\ machine.swapFile = "absent" THEN made ELSE {}))

CopyNonEssentialUtilities ==
  StageIf(~Windows, "copy", [machine EXCEPT !.utilities = "fresh"],
          {machine, [machine EXCEPT !.utilities = "none"]})

-----------------------------------------------------------------------------
(* prepareDockerRepositoryForDebian needs programs that InstallSoftware    *)
(* has yet to install when the computer is new.                            *)
PrepareDockerRepository(m) == [m EXCEPT !.repository = m.tools]
(* The packages, one after the other; Docker comes from its repository     *)
(* only, once the manifest of the repository has been fetched.             *)
InstallPackages(m, hasRepository) ==
  [m EXCEPT !.tools = TRUE, !.docker = @ \/ hasRepository]

(* InstallSoftware: the repository, then the packages.                     *)
InstallSoftware ==
  LET prepared == PrepareDockerRepository(machine)
  IN  StageIf(Configures("software"), "software", InstallPackages(prepared, prepared.repository),
              {machine, prepared, InstallPackages(machine, FALSE)})

(* CorrectStartupTime: telegram messages older than it are not run.  It    *)
(* is the time that the clock showed when the program started, and lies in *)
(* the future once a clock that was ahead has been set right.              *)
CorrectStartupTime(m) ==
  IF m.clock = "right" /\ m.startup = "ahead" THEN [m EXCEPT !.startup = "right"] ELSE m
SynchroniseSystemClock ==
  Stage("clock", CorrectStartupTime([machine EXCEPT !.clock = "right"]), {CorrectStartupTime(machine)})

(* BlockUserLogin, for all but the exceptions, if there are any.           *)
BlockUserLogin(m, users) == [m EXCEPT !.blocked = @ \union users]
ToBlock == IF LoginExcept = {} THEN {} ELSE LocalUsers \ LoginExcept
BlockUnusedLogin ==
  Stage("login", BlockUserLogin(machine, ToBlock),
        {BlockUserLogin(machine, some) : some \in SUBSET ToBlock})

(* MaintainServices: all services to be disabled, then all to be enabled.  *)
(* To stop a firewall service may empty the chain.                         *)
DisableStopDaemon(m, services) == [m EXCEPT !.services = @ \ services]
EnableStartDaemon(m, services) == [m EXCEPT !.services = @ \union services]
MaintainServices ==
  /\ At("services")
  /\ \/ /\ StageEnds(TRUE)
        /\ machine' = EnableStartDaemon(DisableStopDaemon(machine, ToDisable), ToEnable)
     \/ /\ StageEnds(FALSE)
        /\ \E d \in SUBSET ToDisable, e \in SUBSET ToEnable :
             machine' = EnableStartDaemon(DisableStopDaemon(machine, d), e)
  /\ \/ UNCHANGED fw
     \/ "firewall" \in ToDisable /\ fw' = [policy |-> "ACCEPT", rules |-> <<>>]
  /\ UNCHANGED <<setup2, ipt, loopVars>>

-----------------------------------------------------------------------------
(* MaintainsIptables.  A command changes the chain, or fails without.      *)
Policy(p) == [op |-> "policy", arg |-> p]
Flush == [op |-> "flush", arg |-> "INPUT"]
Rule(r) == [op |-> "append", arg |-> r]
Iptables(chain, cmd) ==
  CASE cmd.op = "policy" -> [chain EXCEPT !.policy = cmd.arg]
    [] cmd.op = "flush" -> [chain EXCEPT !.rules = <<>>]
    [] cmd.op = "append" -> [chain EXCEPT !.rules = Append(@, cmd.arg)]

ClearCommands == <<Policy("DROP"), Flush>>
FailSafe == <<Flush, Policy("ACCEPT")>>
(* Established connections and this computer; for every port, the limit    *)
(* and the permission, for TCP and UDP; and nothing else.                  *)
Rules == <<"established", "local">> \o AllowedPorts \o <<"drop">>
SetupWithoutClearing == [i \in 1 .. Len(Rules) |-> Rule(Rules[i])]
(* The commands that clear the chain are at the beginning once again.      *)
SetupCommands == ClearCommands \o [i \in 1 .. Len(Rules) |-> Rule(Rules[i])]
IptablesCommands(purpose) ==
  CASE purpose = "nothing" -> <<>>
    [] purpose = "clear" -> ClearCommands
    [] purpose = "setup" -> SetupCommands
    [] purpose = "failsafe" -> FailSafe

Configured == [policy |-> "DROP", rules |-> Rules]
Open == [policy |-> "ACCEPT", rules |-> <<>>]

(* Without ports to allow, or with too low a limit, nothing is done.       *)
HasFirewall == ~Windows /\ AllowedPorts # <<>> /\ setup2.throttle >= 5
IptablesBegins ==
  /\ At("iptables") /\ ipt.for = "nothing"
  /\ \/ ~HasFirewall /\ StageEnds(TRUE) /\ UNCHANGED ipt
     \/ HasFirewall /\ ipt' = [for |-> "clear", next |-> 1] /\ UNCHANGED <<run, past>>
  /\ UNCHANGED <<setup2, fw, machine, loopVars>>
(* A failure while clearing is ignored; a failure of the setup leads to    *)
(* the fail safe, all commands of which are tried.                         *)
IptablesFails ==
  /\ ipt.next <= Len(IptablesCommands(ipt.for)) /\ past.faults < MaxFaults
  /\ past' = [past EXCEPT !.faults = @ + 1]
  /\ ipt' = IF ipt.for = "setup" THEN [for |-> "failsafe", next |-> 1]
            ELSE [ipt EXCEPT !.next = @ + 1]
  /\ run' = [run EXCEPT !.clean = FALSE, !.unsafe = @ \/ ipt.for = "failsafe"]
  /\ UNCHANGED <<setup2, fw, machine, loopVars>>
IptablesSucceeds ==
  /\ ipt.next <= Len(IptablesCommands(ipt.for))
  /\ fw' = Iptables(fw, IptablesCommands(ipt.for)[ipt.next])
  /\ ipt' = [ipt EXCEPT !.next = @ + 1]
  /\ UNCHANGED <<setup2, run, past, machine, loopVars>>
IptablesEnds ==
  /\ ipt.for # "nothing" /\ ipt.next > Len(IptablesCommands(ipt.for))
  /\ \/ ipt.for = "clear" /\ ipt' = [for |-> "setup", next |-> 1] /\ UNCHANGED <<run, past>>
     \/ ipt.for # "clear" /\ ipt' = NoCommands /\ StageEnds(TRUE)
  /\ UNCHANGED <<setup2, fw, machine, loopVars>>

-----------------------------------------------------------------------------
(* EnhanceFileSecurity: owners and permissions of the home directories.    *)
(* Every path is tried, whichever fail.                                    *)
EnhanceFileSecurity ==
  StageIf(Configures("permissions"), "permissions", [machine EXCEPT !.hardened = TRUE],
          {machine, [machine EXCEPT !.hardened = FALSE]})

(* Execute: four checks at the same time, and the report, which is sent,   *)
(* or printed, and left in a file.  The loop then looks for a lock-down    *)
(* and waits.                                                              *)
Execute ==
  /\ run.pc = "check"
  /\ past' = IF run.clean THEN [past EXCEPT !.clean = @ + 1] ELSE past
  /\ run' = [NoRun EXCEPT !.pc = "loop"]
  /\ UNCHANGED <<setup2, fw, ipt, machine, loopVars>>

(* StartAndBlock.                                                          *)
MTStart ==
  /\ run.pc \in {"off", "loop"}
  /\ \/ mtLocked /\ run' = [run EXCEPT !.pc = "ended"] /\ mtFlag' = FALSE
     \/ ~mtLocked /\ run' = [run EXCEPT !.pc = "wait"] /\ mtFlag' = TRUE
  /\ UNCHANGED <<setup2, fw, ipt, machine, past, mtStopper, mtLocked>>
RunIsDue ==
  /\ run.pc = "wait" /\ past.runs < MaxRuns
  /\ past' = [past EXCEPT !.runs = @ + 1]
  /\ run' = [NoRun EXCEPT !.pc = "stage", !.stage = 1]
  /\ \/ machine' = machine
     \/ machine.utilities = "fresh" /\ machine' = [machine EXCEPT !.utilities = "old"]
  /\ UNCHANGED <<setup2, fw, ipt, loopVars>>
(* Stop takes the flag, and hands its signal to the loop while it waits.   *)
MTStop ==
  /\ mtStopper = "idle" /\ mtFlag
  /\ mtStopper' = "sending" /\ mtFlag' = FALSE
  /\ UNCHANGED <<setup2, run, fw, ipt, machine, past, mtLocked>>
StopIsReceived ==
  /\ mtStopper = "sending" /\ run.pc = "wait"
  /\ mtStopper' = "returned" /\ run' = [run EXCEPT !.pc = "ended"] /\ mtFlag' = FALSE
  /\ UNCHANGED <<setup2, fw, ipt, machine, past, mtLocked>>
MTLockDown ==
  /\ ~mtLocked /\ mtLocked' = TRUE
  /\ UNCHANGED <<setup2, run, fw, ipt, machine, past, mtFlag, mtStopper>>
(* The program crashes and is started again; the computer stays as it is.  *)
CrashInMaintenance ==
  /\ run.pc \in {"stage", "check"}
  /\ run' = NoRun /\ ipt' = NoCommands
  /\ mtFlag' = FALSE /\ mtStopper' = "idle" /\ mtLocked' = FALSE
  /\ machine' = [machine EXCEPT !.startup = machine.clock]
  /\ UNCHANGED <<setup2, fw, past>>

MTNext ==
  \/ RunPreMaintenanceScript \/ TuneLinux \/ SetTimeZone \/ CleanUpFiles
  \/ DefragmentAllDisks \/ TrimAllSSDs \/ MaintainSwapFile
  \/ CopyNonEssentialUtilities \/ InstallSoftware \/ MaintainWindowsIntegrity
  \/ SynchroniseSystemClock \/ BlockUnusedLogin \/ MaintainServices \/ EnhanceFileSecurity
  \/ IptablesBegins \/ IptablesFails \/ IptablesSucceeds \/ IptablesEnds
  \/ Execute \/ MTStart \/ RunIsDue \/ MTStop \/ StopIsReceived \/ MTLockDown
  \/ CrashInMaintenance

MTSpec == MTInit /\ [][MTNext]_mtVars

-----------------------------------------------------------------------------
(* A run never leaves the firewall half configured: at its end the chain   *)
(* is exactly the configured one or lets everything in, whatever commands  *)
(* failed, a crash in an earlier run or a stopped firewall service left    *)
(* behind, unless the fail safe itself fails (MaintainsIptables, and its   *)
(* place in SystemMaintenance).                                            *)
FirewallIsWhole ==
  (At("permissions") \/ run.pc = "check") /\ HasFirewall /\ ~run.unsafe =>
    fw \in {Configured, Open}

(* A run without faults delivers all it is configured for, over the faults *)
(* and crashes of runs before it: the utilities outlive the clean-up, a    *)
(* service that is listed twice is enabled, stopping a firewall service    *)
(* does not undo the rules, the program has not started in the future of a *)
(* clock that was set right, an empty list of exceptions blocks nobody,    *)
(* and Docker is there after the second such run at the latest, as the     *)
(* comment on prepareDockerRepositoryForDebian says (SystemMaintenance).   *)
CleanRunDelivers ==
  run.pc = "check" /\ run.clean =>
    /\ machine.clock = "right" /\ machine.startup = "right"
    /\ machine.blocked = ToBlock
    /\ ToEnable \subseteq machine.services
    /\ machine.services \intersect (ToDisable \ ToEnable) = {}
    /\ Configures("zone") => machine.zone = "new"
    /\ Configures("software") /\ past.clean > 0 => machine.docker
    /\ Configures("permissions") => machine.hardened
    /\ ~Windows => /\ machine.utilities = "fresh"
                   /\ setup2.swap # "unset" => machine.swapOn = (setup2.swap = "on")
    /\ HasFirewall => fw = Configured
================================================================================
