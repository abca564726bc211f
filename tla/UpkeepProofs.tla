----------------------------- MODULE UpkeepProofs -----------------------------
(***************************************************************************)
(* The safety of what keeps the host and the program in order.  System     *)
(* maintenance, for any ports, services, accounts and number of runs,      *)
(* faults and crashes: the firewall is never left half configured, and a   *)
(* run without faults delivers what it is configured for.  The supervisor, *)
(* for any command line and any daemons: daemons are shed in order, and    *)
(* the program keeps its configuration.                                    *)
(***************************************************************************)
EXTENDS Maintenance, Supervisor, SequenceTheorems, FiniteSetTheorems, TLAPS


-----------------------------------------------------------------------------
(* A run is its stages, one after the other; what a run without faults has *)
(* to deliver at its end is delivered stage by stage, and no later stage   *)
(* takes it away.                                                          *)
Machine ==
  [zone : {"old", "new", "none"}, utilities : {"fresh", "old", "none"},
   swapFile : {"absent", "partial", "whole"}, swapOn : BOOLEAN,
   tools : BOOLEAN, repository : BOOLEAN, docker : BOOLEAN,
   blocked : SUBSET ToBlock, services : SUBSET (ToDisable \cup ToEnable),
   clock : {"right", "ahead"}, startup : {"right", "ahead"}, hardened : BOOLEAN]

RuleNames == STRING \cup {"established", "local", "drop", "found"}
Chain == [policy : {"ACCEPT", "DROP"}, rules : Seq(RuleNames)]
Purposes == {"nothing", "clear", "setup", "failsafe"}
RunState ==
  [pc : {"off", "wait", "stage", "check", "loop", "ended"}, stage : Nat,
   clean : BOOLEAN, unsafe : BOOLEAN]
IptState == [for : Purposes, next : Nat \ {0}]
PastState == [runs : Nat, clean : Nat, faults : Nat]

MTTypeOK ==
  /\ setup2 \in [os : {"debian", "windows"}, throttle : Nat, swap : {"on", "off", "unset"},
                 options : SUBSET Options]
  /\ run \in RunState
  /\ fw \in Chain
  /\ ipt \in IptState
  /\ machine \in Machine
  /\ past \in PastState

(* What the stages before the n-th leave behind when none of them fails.   *)
DeliversAnywhere(m, n) ==
  /\ n > 11 => m.clock = "right" /\ m.startup = "right"
  /\ n > 12 => m.blocked = ToBlock
  /\ n > 13 => ToEnable \subseteq m.services /\ m.services \cap (ToDisable \ ToEnable) = {}
DeliversOnLinux(m, n) ==
  /\ n > 3 /\ "zone" \in setup2.options => m.zone = "new"
  /\ n > 7 /\ setup2.swap # "unset" => m.swapOn = (setup2.swap = "on")
  /\ n > 8 => m.utilities = "fresh"
  /\ n > 9 /\ "software" \in setup2.options => m.tools /\ (past.clean > 0 => m.docker)
  /\ n > 15 /\ "permissions" \in setup2.options => m.hardened
Delivers(m, n) == DeliversAnywhere(m, n) /\ (~Windows => DeliversOnLinux(m, n))

(* The stages in progress, and the iptables commands of the 14th of them.  *)
StagesInv ==
  /\ run.pc = "stage" => run.stage \in 1 .. 15
  /\ run.pc = "check" => run.stage = 16
  /\ ipt.for # "nothing" => run.pc = "stage" /\ run.stage = 14 /\ HasFirewall
  /\ ipt.for = "clear" => ipt.next <= 3
  /\ ipt.for = "setup" => ipt.next <= Len(Rules) + 3
  /\ ipt.for = "failsafe" => ipt.next <= 3

(* The chain after some of the setup, or of the fail safe, and after all.  *)
IsSetUpTo(chain, n) ==
  /\ n >= 2 => chain.policy = "DROP"
  /\ n >= 3 => /\ Len(chain.rules) = n - 3
               /\ \A j \in 1 .. n - 3 : chain.rules[j] = Rules[j]
IsMadeSafeTo(chain, n) ==
  /\ n >= 2 => chain.rules = <<>>
  /\ n >= 3 => chain.policy = "ACCEPT"
ChainInv ==
  /\ ipt.for = "setup" => IsSetUpTo(fw, ipt.next)
  /\ ipt.for = "failsafe" => ~run.clean /\ (~run.unsafe => IsMadeSafeTo(fw, ipt.next))
  /\ HasFirewall /\ (run.pc = "check" \/ (run.pc = "stage" /\ run.stage = 15)) =>
       /\ ~run.unsafe => fw \in {Configured, Open}
       /\ run.clean => fw = Configured

(* Docker needs the tools that the first run without faults installs.      *)
DeliveryInv ==
  /\ run.pc \in {"stage", "check"} /\ run.clean => Delivers(machine, run.stage)
  /\ Configures("software") /\ past.clean > 0 => machine.tools

MTInv == MTTypeOK /\ StagesInv /\ ChainInv /\ DeliveryInv

(* The place of every stage.                                               *)
LEMMA StageNumbers ==
  ASSUME NEW i \in 1 .. 15
  PROVE  /\ Len(SystemMaintenance) = 15
         /\ SystemMaintenance[i] = "script" <=> i = 1
         /\ SystemMaintenance[i] = "kernel" <=> i = 2
         /\ SystemMaintenance[i] = "zone" <=> i = 3
         /\ SystemMaintenance[i] = "files" <=> i = 4
         /\ SystemMaintenance[i] = "defragment" <=> i = 5
         /\ SystemMaintenance[i] = "trim" <=> i = 6
         /\ SystemMaintenance[i] = "swap" <=> i = 7
         /\ SystemMaintenance[i] = "copy" <=> i = 8
         /\ SystemMaintenance[i] = "software" <=> i = 9
         /\ SystemMaintenance[i] = "integrity" <=> i = 10
         /\ SystemMaintenance[i] = "clock" <=> i = 11
         /\ SystemMaintenance[i] = "login" <=> i = 12
         /\ SystemMaintenance[i] = "services" <=> i = 13
         /\ SystemMaintenance[i] = "iptables" <=> i = 14
         /\ SystemMaintenance[i] = "permissions" <=> i = 15
BY DEF SystemMaintenance

(* The rules are a sequence, and so are the commands.                      *)
LEMMA RulesType == Rules \in Seq(RuleNames) /\ Len(Rules) \in Nat
<1>1. AllowedPorts \in Seq(RuleNames)
  BY MTAssumption DEF RuleNames
<1>2. <<"established", "local">> \in Seq(RuleNames) /\ <<"drop">> \in Seq(RuleNames)
  BY DEF RuleNames
<1> QED BY <1>1, <1>2 DEF Rules

LEMMA CommandList ==
  /\ Len(IptablesCommands("nothing")) = 0
  /\ Len(IptablesCommands("clear")) = 2
  /\ IptablesCommands("clear")[1] = Policy("DROP") /\ IptablesCommands("clear")[2] = Flush
  /\ Len(IptablesCommands("failsafe")) = 2
  /\ IptablesCommands("failsafe")[1] = Flush /\ IptablesCommands("failsafe")[2] = Policy("ACCEPT")
  /\ Len(IptablesCommands("setup")) = Len(Rules) + 2
  /\ IptablesCommands("setup")[1] = Policy("DROP") /\ IptablesCommands("setup")[2] = Flush
  /\ \A i \in 1 .. Len(Rules) : IptablesCommands("setup")[i + 2] = Rule(Rules[i])
<1>1. Len(Rules) \in Nat
  BY RulesType
<1> DEFINE rest == [i \in 1 .. Len(Rules) |-> Rule(Rules[i])]
           T == {ClearCommands[1], ClearCommands[2]} \cup {Rule(Rules[i]) : i \in 1 .. Len(Rules)}
<1>2. /\ IptablesCommands("nothing") = <<>> /\ IptablesCommands("clear") = ClearCommands
      /\ IptablesCommands("failsafe") = FailSafe /\ IptablesCommands("setup") = ClearCommands \o rest
  BY DEF IptablesCommands, SetupCommands
<1>3. ClearCommands \in Seq(T) /\ rest \in Seq(T)
  BY <1>1 DEF ClearCommands
<1>4. /\ Len(ClearCommands) = 2
      /\ Len(rest) = Len(Rules) /\ \A i \in 1 .. Len(Rules) : rest[i] = Rule(Rules[i])
  BY <1>1 DEF ClearCommands
<1>5. ClearCommands[1] = Policy("DROP") /\ ClearCommands[2] = Flush
  BY DEF ClearCommands
<1>6. Len(FailSafe) = 2 /\ FailSafe[1] = Flush /\ FailSafe[2] = Policy("ACCEPT")
  BY DEF FailSafe
<1> HIDE DEF rest, T
<1>7. /\ Len(ClearCommands \o rest) = Len(Rules) + 2
      /\ (ClearCommands \o rest)[1] = ClearCommands[1] /\ (ClearCommands \o rest)[2] = ClearCommands[2]
      /\ \A i \in 1 .. Len(Rules) : (ClearCommands \o rest)[i + 2] = rest[i]
  <2> DEFINE all == ClearCommands \o rest
  <2>1. /\ Len(all) = Len(ClearCommands) + Len(rest)
        /\ \A i \in 1 .. Len(ClearCommands) + Len(rest) : all[i] =
             IF i <= Len(ClearCommands) THEN ClearCommands[i] ELSE rest[i - Len(ClearCommands)]
    BY <1>3, ConcatProperties
  <2> HIDE DEF all
  <2>2. /\ Len(all) = Len(Rules) + 2
        /\ \A i \in 1 .. Len(Rules) + 2 : all[i] = IF i <= 2 THEN ClearCommands[i] ELSE rest[i - 2]
    BY <1>1, <1>4, <2>1
  <2>3. ASSUME NEW i \in 1 .. Len(Rules) PROVE all[i + 2] = rest[i]
    <3>1. i + 2 \in 1 .. Len(Rules) + 2 /\ ~(i + 2 <= 2) /\ (i + 2) - 2 = i
      BY <1>1
    <3> QED BY <2>2, <3>1
  <2>4. all[1] = ClearCommands[1] /\ all[2] = ClearCommands[2]
    BY <1>1, <2>2
  <2> QED BY <2>2, <2>3, <2>4 DEF all
<1> QED BY <1>2, <1>3, <1>4, <1>5, <1>6, <1>7

LEMMA CommandLengths ==
  /\ Len(IptablesCommands("clear")) = 2
  /\ Len(IptablesCommands("setup")) = Len(Rules) + 2
  /\ Len(IptablesCommands("failsafe")) = 2
BY CommandList

(* What a command does to the chain.                                       *)
LEMMA CommandEffect ==
  ASSUME NEW chain \in Chain
  PROVE  /\ \A p \in {"ACCEPT", "DROP"} :
              /\ Iptables(chain, Policy(p)) \in Chain
              /\ Iptables(chain, Policy(p)).policy = p
              /\ Iptables(chain, Policy(p)).rules = chain.rules
         /\ Iptables(chain, Flush) \in Chain
         /\ Iptables(chain, Flush).policy = chain.policy
         /\ Iptables(chain, Flush).rules = <<>>
         /\ \A r \in RuleNames :
              /\ Iptables(chain, Rule(r)) \in Chain
              /\ Iptables(chain, Rule(r)).policy = chain.policy
              /\ Iptables(chain, Rule(r)).rules = Append(chain.rules, r)
<1>1. \A p \in {"ACCEPT", "DROP"} : Iptables(chain, Policy(p)) = [chain EXCEPT !.policy = p]
  BY DEF Iptables, Policy
<1>2. Iptables(chain, Flush) = [chain EXCEPT !.rules = <<>>]
  BY DEF Iptables, Flush
<1>3. \A r \in RuleNames : Iptables(chain, Rule(r)) = [chain EXCEPT !.rules = Append(chain.rules, r)]
  BY DEF Iptables, Rule, Chain
<1>4. chain.policy \in {"ACCEPT", "DROP"} /\ chain.rules \in Seq(RuleNames)
  BY DEF Chain
<1>5. \A p \in {"ACCEPT", "DROP"} :
        /\ [chain EXCEPT !.policy = p] \in Chain
        /\ [chain EXCEPT !.policy = p].policy = p
        /\ [chain EXCEPT !.policy = p].rules = chain.rules
  BY DEF Chain
<1>6. \A s \in Seq(RuleNames) :
        /\ [chain EXCEPT !.rules = s] \in Chain
        /\ [chain EXCEPT !.rules = s].policy = chain.policy
        /\ [chain EXCEPT !.rules = s].rules = s
  BY DEF Chain
<1>7. <<>> \in Seq(RuleNames) /\ \A r \in RuleNames : Append(chain.rules, r) \in Seq(RuleNames)
  BY <1>4
<1>8. ASSUME NEW r \in RuleNames
      PROVE  /\ Iptables(chain, Rule(r)) \in Chain
             /\ Iptables(chain, Rule(r)).policy = chain.policy
             /\ Iptables(chain, Rule(r)).rules = Append(chain.rules, r)
  <2>1. PICK s \in Seq(RuleNames) : s = Append(chain.rules, r)
    BY <1>7
  <2>2. Iptables(chain, Rule(r)) = [chain EXCEPT !.rules = s]
    BY <1>3, <2>1
  <2> QED BY <1>6, <2>1, <2>2
<1>9. /\ Iptables(chain, Flush) \in Chain
      /\ Iptables(chain, Flush).policy = chain.policy
      /\ Iptables(chain, Flush).rules = <<>>
  BY <1>2, <1>6, <1>7
<1> QED BY <1>1, <1>5, <1>8, <1>9

-----------------------------------------------------------------------------
(* A stage ends: what it did to the computer is all that matters.          *)
LEMMA StageEndsEffect ==
  ASSUME MTTypeOK, StagesInv, run.pc = "stage", NEW ok \in BOOLEAN, StageEnds(ok)
  PROVE  /\ run' \in RunState
         /\ run'.pc = IF run.stage = 15 THEN "check" ELSE "stage"
         /\ run'.stage = run.stage + 1
         /\ run'.clean => run.clean /\ ok
         /\ run'.unsafe = run.unsafe
         /\ past' \in PastState
         /\ past'.clean = past.clean
<1>1. /\ run.stage \in 1 .. 15 /\ run.stage \in Nat
      /\ run.clean \in BOOLEAN /\ run.unsafe \in BOOLEAN
  BY DEF StagesInv, MTTypeOK, RunState
<1>2. Len(SystemMaintenance) = 15
  BY <1>1, StageNumbers
<1>3. run' = [pc |-> IF run.stage = 15 THEN "check" ELSE "stage",
              stage |-> run.stage + 1, clean |-> run.clean /\ ok, unsafe |-> run.unsafe]
  BY <1>2 DEF StageEnds
<1>4. (run.clean /\ ok) \in BOOLEAN /\ run.stage + 1 \in Nat
  BY <1>1
<1>5. run' \in RunState
  BY <1>1, <1>3, <1>4 DEF RunState
<1>6. /\ run'.pc = IF run.stage = 15 THEN "check" ELSE "stage"
      /\ run'.stage = run.stage + 1 /\ run'.unsafe = run.unsafe
  BY <1>3
<1>7. run'.clean => run.clean /\ ok
  BY <1>3
<1>8. past' \in PastState /\ past'.clean = past.clean
  BY DEF StageEnds, MTTypeOK, PastState
<1> QED BY <1>5, <1>6, <1>7, <1>8

LEMMA StageDone ==
  ASSUME MTInv, NEW ok \in BOOLEAN, NEW m \in Machine,
         run.pc = "stage", run.stage # 14, StageEnds(ok), machine' = m,
         machine.tools => m.tools, ok /\ run.clean => Delivers(m, run.stage + 1),
         fw' \in Chain, run.stage = 15 => fw' = fw, UNCHANGED <<setup2, ipt>>
  PROVE  MTInv'
<1>0. MTTypeOK /\ StagesInv
  BY DEF MTInv
<1>1. /\ run' \in RunState
      /\ run'.pc = IF run.stage = 15 THEN "check" ELSE "stage"
      /\ run'.stage = run.stage + 1
      /\ run'.clean => run.clean /\ ok
      /\ run'.unsafe = run.unsafe
      /\ past' \in PastState
      /\ past'.clean = past.clean
  BY <1>0, StageEndsEffect
<1>2. run.stage \in 1 .. 15 /\ ipt.for = "nothing" /\ ipt' = ipt
  BY <1>0 DEF StagesInv, MTTypeOK
<1>3. /\ (Windows' <=> Windows) /\ (HasFirewall' <=> HasFirewall)
      /\ Configures("software")' <=> Configures("software")
  BY DEF Windows, HasFirewall, Configures
<1>4. MTTypeOK'
  BY <1>0, <1>1 DEF MTTypeOK
<1>5. StagesInv'
  BY <1>1, <1>2 DEF StagesInv
<1>6. ChainInv'
  BY <1>1, <1>2, <1>3 DEF MTInv, ChainInv
<1>7. Delivers(m, run.stage + 1) => Delivers(machine, run.stage)'
  BY <1>1, <1>3 DEF Delivers, DeliversAnywhere, DeliversOnLinux
<1>8. DeliveryInv'
  BY <1>1, <1>3, <1>7 DEF MTInv, DeliveryInv
<1> QED BY <1>4, <1>5, <1>6, <1>8 DEF MTInv

(* The same for the stages that leave the firewall alone.                  *)
LEMMA StageKeeps ==
  ASSUME MTInv, NEW name, name # "iptables", NEW good \in Machine, NEW bad \in SUBSET Machine,
         Stage(name, good, bad), \A m \in bad \cup {good} : machine.tools => m.tools,
         run.clean => Delivers(good, run.stage + 1)
  PROVE  MTInv'
<1>1. run.pc = "stage" /\ run.stage \in 1 .. 15 /\ SystemMaintenance[run.stage] = name
  BY DEF Stage, At, MTInv, StagesInv
<1>2. run.stage # 14
  BY <1>1, StageNumbers
<1>3. fw' \in Chain /\ fw' = fw /\ UNCHANGED <<setup2, ipt>>
  BY DEF Stage, MTInv, MTTypeOK
<1>4. CASE StageEnds(TRUE) /\ machine' = good
  BY <1>1, <1>2, <1>3, <1>4, StageDone
<1>5. CASE StageEnds(FALSE) /\ machine' \in bad
  <2>1. PICK m \in Machine : m \in bad /\ machine' = m
    BY <1>5
  <2> QED BY <1>1, <1>2, <1>3, <1>5, <2>1, StageDone
<1> QED BY <1>4, <1>5 DEF Stage

(* A stage that begins, and what its run has delivered so far.             *)
LEMMA StageBegins ==
  ASSUME MTInv, NEW name, At(name)
  PROVE  /\ run.pc = "stage" /\ run.stage \in 1 .. 15 /\ SystemMaintenance[run.stage] = name
         /\ machine \in Machine
         /\ run.clean => Delivers(machine, run.stage)
BY DEF At, MTInv, MTTypeOK, StagesInv, DeliveryInv

(* The stages that do nothing another one looks at.                        *)
LEMMA UnrelatedKeeps ==
  ASSUME MTInv, NEW name \in {"script", "kernel", "defragment", "trim", "integrity"}, Unrelated(name)
  PROVE  MTInv'
<1>1. At(name) /\ Stage(name, machine, {machine})
  BY DEF Unrelated, Stage
<1>2. run.stage \in {1, 2, 5, 6, 10}
  BY <1>1, StageBegins, StageNumbers
<1>3. run.clean => Delivers(machine, run.stage + 1)
  BY <1>1, <1>2, StageBegins DEF Delivers, DeliversAnywhere, DeliversOnLinux
<1> QED BY <1>1, <1>3, StageBegins, StageKeeps

(* The time zone, the clean-up, the swap file and the utilities.           *)
LEMMA SetTimeZoneKeeps == MTInv /\ SetTimeZone => MTInv'
<1> SUFFICES ASSUME MTInv, SetTimeZone PROVE MTInv'
  OBVIOUS
<1> DEFINE does == Configures("zone")
           good == IF does THEN [machine EXCEPT !.zone = "new"] ELSE machine
           bad == IF does THEN {machine, [machine EXCEPT !.zone = "none"]} ELSE {machine}
<1>1. At("zone") /\ Stage("zone", good, bad)
  BY DEF SetTimeZone, StageIf, Stage
<1>2. machine \in Machine /\ run.stage = 3 /\ (run.clean => Delivers(machine, 3))
  BY <1>1, StageBegins, StageNumbers
<1>3. good \in Machine /\ bad \subseteq Machine
  BY <1>2 DEF Machine
<1>4. \A m \in bad \cup {good} : machine.tools => m.tools
  BY <1>2 DEF Machine
<1>5. run.clean => Delivers(good, 4)
  BY <1>2 DEF Machine, Delivers, DeliversAnywhere, DeliversOnLinux, Configures
<1> HIDE DEF good, bad
<1> QED BY <1>1, <1>2, <1>3, <1>4, <1>5, StageKeeps

LEMMA CleanUpFilesKeeps == MTInv /\ CleanUpFiles => MTInv'
<1> SUFFICES ASSUME MTInv, CleanUpFiles PROVE MTInv'
  OBVIOUS
<1> DEFINE good == IF machine.utilities = "old" THEN [machine EXCEPT !.utilities = "none"] ELSE machine
           bad == {machine, good}
<1>1. At("files") /\ Stage("files", good, bad)
  BY DEF CleanUpFiles, Stage
<1>2. machine \in Machine /\ run.stage = 4 /\ (run.clean => Delivers(machine, 4))
  BY <1>1, StageBegins, StageNumbers
<1>3. good \in Machine /\ bad \subseteq Machine
  BY <1>2 DEF Machine
<1>4. \A m \in bad \cup {good} : machine.tools => m.tools
  BY <1>2 DEF Machine
<1>5. run.clean => Delivers(good, 5)
  BY <1>2 DEF Machine, Delivers, DeliversAnywhere, DeliversOnLinux
<1> HIDE DEF good, bad
<1> QED BY <1>1, <1>2, <1>3, <1>4, <1>5, StageKeeps

LEMMA MaintainSwapFileKeeps == MTInv /\ MaintainSwapFile => MTInv'
<1> SUFFICES ASSUME MTInv, MaintainSwapFile PROVE MTInv'
  OBVIOUS
<1> DEFINE made == {[machine EXCEPT !.swapFile = f] : f \in {"partial", "whole"}}
           kept == IF machine.swapFile = "absent" THEN [machine EXCEPT !.swapFile = "whole"] ELSE machine
           on == setup2.swap = "on"
           does == ~Windows /\ setup2.swap # "unset"
           done == IF on THEN [kept EXCEPT !.swapOn = TRUE] ELSE [machine EXCEPT !.swapOn = FALSE]
           some == {machine} \cup (IF on /\ machine.swapFile = "absent" THEN made ELSE {})
           good == IF does THEN done ELSE machine
           bad == IF does THEN some ELSE {machine}
<1>1. At("swap") /\ Stage("swap", good, bad)
  BY DEF MaintainSwapFile, StageIf, Stage
<1>2. machine \in Machine /\ run.stage = 7 /\ (run.clean => Delivers(machine, 7))
  BY <1>1, StageBegins, StageNumbers
<1>3. kept \in Machine /\ kept.tools = machine.tools /\ kept.zone = machine.zone
  BY <1>2 DEF Machine
<1>4. /\ made \subseteq Machine
      /\ \A m \in made : m.tools = machine.tools
  BY <1>2 DEF Machine
<1> HIDE DEF made, kept
<1>5. good \in Machine /\ bad \subseteq Machine
  <2>1. [kept EXCEPT !.swapOn = TRUE] \in Machine
    BY <1>3 DEF Machine
  <2>2. [machine EXCEPT !.swapOn = FALSE] \in Machine
    BY <1>2 DEF Machine
  <2> QED BY <1>2, <1>4, <2>1, <2>2
<1>6. good.tools = machine.tools /\ good.zone = machine.zone
  BY <1>2, <1>3 DEF Machine
<1>7. \A m \in bad \cup {good} : machine.tools => m.tools
  BY <1>2, <1>4, <1>6 DEF Machine
<1>8. does => good.swapOn = (setup2.swap = "on")
  BY <1>2, <1>3 DEF Machine
<1> HIDE DEF good, bad
<1>9. run.clean => Delivers(good, 8)
  <2>1. DeliversAnywhere(good, 8)
    BY DEF DeliversAnywhere
  <2>2. run.clean /\ ~Windows => ("zone" \in setup2.options => good.zone = "new")
    BY <1>2, <1>6 DEF Delivers, DeliversOnLinux
  <2>3. run.clean /\ ~Windows => DeliversOnLinux(good, 8)
    BY <1>8, <2>2 DEF DeliversOnLinux
  <2> QED BY <2>1, <2>3 DEF Delivers
<1> QED BY <1>1, <1>2, <1>5, <1>7, <1>9, StageKeeps

LEMMA CopyUtilitiesKeeps == MTInv /\ CopyNonEssentialUtilities => MTInv'
<1> SUFFICES ASSUME MTInv, CopyNonEssentialUtilities PROVE MTInv'
  OBVIOUS
<1> DEFINE good == IF ~Windows THEN [machine EXCEPT !.utilities = "fresh"] ELSE machine
           bad == IF ~Windows THEN {machine, [machine EXCEPT !.utilities = "none"]} ELSE {machine}
<1>1. At("copy") /\ Stage("copy", good, bad)
  BY DEF CopyNonEssentialUtilities, StageIf, Stage
<1>2. machine \in Machine /\ run.stage = 8 /\ (run.clean => Delivers(machine, 8))
  BY <1>1, StageBegins, StageNumbers
<1>3. good \in Machine /\ bad \subseteq Machine
  BY <1>2 DEF Machine
<1>4. \A m \in bad \cup {good} : machine.tools => m.tools
  BY <1>2 DEF Machine
<1>5. run.clean => Delivers(good, 9)
  BY <1>2 DEF Machine, Delivers, DeliversAnywhere, DeliversOnLinux
<1> HIDE DEF good, bad
<1> QED BY <1>1, <1>2, <1>3, <1>4, <1>5, StageKeeps

(* The packages.  A run without faults leaves the tools behind, and Docker *)
(* when a run before it had left them behind already.                      *)
LEMMA InstallSoftwareKeeps == MTInv /\ InstallSoftware => MTInv'
<1> SUFFICES ASSUME MTInv, InstallSoftware PROVE MTInv'
  OBVIOUS
<1> DEFINE prepared == PrepareDockerRepository(machine)
           all == InstallPackages(prepared, prepared.repository)
           some == InstallPackages(machine, FALSE)
           does == Configures("software")
           good == IF does THEN all ELSE machine
           bad == IF does THEN {machine, prepared, some} ELSE {machine}
<1>1. At("software") /\ Stage("software", good, bad)
  BY DEF InstallSoftware, StageIf, Stage
<1>2. /\ machine \in Machine /\ run.stage = 9 /\ (run.clean => Delivers(machine, 9))
      /\ Configures("software") /\ past.clean > 0 => machine.tools
  BY <1>1, StageBegins, StageNumbers DEF MTInv, DeliveryInv
<1>3. /\ prepared \in Machine /\ prepared.tools = machine.tools /\ prepared.repository = machine.tools
      /\ prepared.zone = machine.zone /\ prepared.swapOn = machine.swapOn
      /\ prepared.utilities = machine.utilities /\ prepared.docker = machine.docker
  BY <1>2 DEF PrepareDockerRepository, Machine
<1>4. prepared.repository \in BOOLEAN /\ (prepared.docker \/ prepared.repository) \in BOOLEAN
  BY <1>3 DEF Machine
<1>5. (machine.docker \/ FALSE) \in BOOLEAN
  BY <1>2 DEF Machine
<1> HIDE DEF prepared
<1>6. /\ all \in Machine /\ all.tools = TRUE /\ all.docker = (prepared.docker \/ prepared.repository)
      /\ all.zone = prepared.zone /\ all.swapOn = prepared.swapOn /\ all.utilities = prepared.utilities
  BY <1>3, <1>4 DEF InstallPackages, Machine
<1>7. some \in Machine /\ some.tools = TRUE
  BY <1>2, <1>5 DEF InstallPackages, Machine
<1> HIDE DEF all, some
<1>8. good \in Machine /\ bad \subseteq Machine
  BY <1>2, <1>3, <1>6, <1>7
<1>9. \A m \in bad \cup {good} : machine.tools => m.tools
  BY <1>2, <1>3, <1>6, <1>7
<1>10. run.clean => Delivers(good, 10)
  <2>1. DeliversAnywhere(good, 10)
    BY DEF DeliversAnywhere
  <2>2. run.clean /\ ~Windows =>
          /\ "zone" \in setup2.options => good.zone = "new"
          /\ setup2.swap # "unset" => good.swapOn = (setup2.swap = "on")
          /\ good.utilities = "fresh"
    BY <1>2, <1>3, <1>6 DEF Delivers, DeliversOnLinux
  <2>3. ~Windows /\ "software" \in setup2.options => good.tools /\ (past.clean > 0 => good.docker)
    BY <1>2, <1>3, <1>6 DEF Configures
  <2> HIDE DEF good
  <2>4. run.clean /\ ~Windows => DeliversOnLinux(good, 10)
    BY <2>2, <2>3 DEF DeliversOnLinux
  <2> QED BY <2>1, <2>4 DEF Delivers
<1> HIDE DEF good, bad
<1> QED BY <1>1, <1>2, <1>8, <1>9, <1>10, StageKeeps

(* The clock, the logins, the permissions.                                 *)
LEMMA CorrectStartupTimeType ==
  ASSUME NEW m \in Machine
  PROVE  LET c == CorrectStartupTime(m)
         IN  /\ c \in Machine /\ c.tools = m.tools /\ c.docker = m.docker
             /\ c.zone = m.zone /\ c.swapOn = m.swapOn /\ c.utilities = m.utilities
             /\ c.clock = m.clock
             /\ m.clock = "right" => c.startup = "right"
<1>1. CASE m.clock = "right" /\ m.startup = "ahead"
  <2>1. CorrectStartupTime(m) = [m EXCEPT !.startup = "right"]
    BY <1>1 DEF CorrectStartupTime
  <2> QED BY <2>1 DEF Machine
<1>2. CASE ~(m.clock = "right" /\ m.startup = "ahead")
  <2>1. CorrectStartupTime(m) = m
    BY <1>2 DEF CorrectStartupTime
  <2> QED BY <1>2, <2>1 DEF Machine
<1> QED BY <1>1, <1>2

LEMMA SynchroniseClockKeeps == MTInv /\ SynchroniseSystemClock => MTInv'
<1> SUFFICES ASSUME MTInv, SynchroniseSystemClock PROVE MTInv'
  OBVIOUS
<1> DEFINE set == [machine EXCEPT !.clock = "right"]
           good == CorrectStartupTime(set)
           same == CorrectStartupTime(machine)
<1>1. At("clock") /\ Stage("clock", good, {same})
  BY DEF SynchroniseSystemClock, Stage
<1>2. machine \in Machine /\ run.stage = 11 /\ (run.clean => Delivers(machine, 11))
  BY <1>1, StageBegins, StageNumbers
<1>3. /\ set \in Machine /\ set.tools = machine.tools /\ set.docker = machine.docker
      /\ set.zone = machine.zone /\ set.swapOn = machine.swapOn
      /\ set.utilities = machine.utilities /\ set.clock = "right"
  BY <1>2 DEF Machine
<1> HIDE DEF set
<1>4. /\ good \in Machine /\ good.tools = machine.tools /\ good.docker = machine.docker
      /\ good.zone = machine.zone /\ good.swapOn = machine.swapOn
      /\ good.utilities = machine.utilities /\ good.clock = "right" /\ good.startup = "right"
  BY <1>3, CorrectStartupTimeType
<1>5. same \in Machine /\ same.tools = machine.tools
  BY <1>2, CorrectStartupTimeType
<1> HIDE DEF good, same
<1>6. \A m \in {same} \cup {good} : machine.tools => m.tools
  BY <1>4, <1>5
<1>7. run.clean => Delivers(good, 12)
  BY <1>2, <1>4 DEF Delivers, DeliversAnywhere, DeliversOnLinux
<1> QED BY <1>1, <1>2, <1>4, <1>5, <1>6, <1>7, StageKeeps

LEMMA BlockUserLoginType ==
  ASSUME NEW m \in Machine, NEW users \in SUBSET ToBlock
  PROVE  /\ BlockUserLogin(m, users) \in Machine
         /\ BlockUserLogin(m, users) = [m EXCEPT !.blocked = m.blocked \cup users]
<1>1. m.blocked \cup users \in SUBSET ToBlock
  BY DEF Machine
<1> QED BY <1>1 DEF BlockUserLogin, Machine

LEMMA BlockUnusedLoginKeeps == MTInv /\ BlockUnusedLogin => MTInv'
<1> SUFFICES ASSUME MTInv, BlockUnusedLogin PROVE MTInv'
  OBVIOUS
<1> DEFINE unused == ToBlock
           good == BlockUserLogin(machine, unused)
           bad == {BlockUserLogin(machine, some) : some \in SUBSET unused}
<1>1. At("login") /\ Stage("login", good, bad)
  BY DEF BlockUnusedLogin, Stage
<1>2. machine \in Machine /\ run.stage = 12 /\ (run.clean => Delivers(machine, 12))
  BY <1>1, StageBegins, StageNumbers
<1>3. good \in Machine /\ bad \subseteq Machine
  BY <1>2, BlockUserLoginType
<1>4. \A some \in SUBSET unused :
        BlockUserLogin(machine, some) = [machine EXCEPT !.blocked = machine.blocked \cup some]
  BY <1>2, BlockUserLoginType
<1>5. \A m \in bad \cup {good} : machine.tools => m.tools
  BY <1>2, <1>4 DEF Machine
<1>6. /\ good = [machine EXCEPT !.blocked = machine.blocked \cup unused]
      /\ machine.blocked \cup unused = unused
  BY <1>2, <1>4 DEF Machine
<1>7. /\ good.blocked = unused /\ good.tools = machine.tools /\ good.docker = machine.docker
      /\ good.zone = machine.zone /\ good.swapOn = machine.swapOn
      /\ good.utilities = machine.utilities
      /\ good.clock = machine.clock /\ good.startup = machine.startup
  BY <1>2, <1>6 DEF Machine
<1> HIDE DEF good, bad
<1>8. run.clean => Delivers(good, 13)
  BY <1>2, <1>7 DEF Delivers, DeliversAnywhere, DeliversOnLinux
<1> QED BY <1>1, <1>2, <1>3, <1>5, <1>8, StageKeeps

LEMMA EnhanceFileSecurityKeeps == MTInv /\ EnhanceFileSecurity => MTInv'
<1> SUFFICES ASSUME MTInv, EnhanceFileSecurity PROVE MTInv'
  OBVIOUS
<1> DEFINE does == Configures("permissions")
           good == IF does THEN [machine EXCEPT !.hardened = TRUE] ELSE machine
           bad == IF does THEN {machine, [machine EXCEPT !.hardened = FALSE]} ELSE {machine}
<1>1. At("permissions") /\ Stage("permissions", good, bad)
  BY DEF EnhanceFileSecurity, StageIf, Stage
<1>2. machine \in Machine /\ run.stage = 15 /\ (run.clean => Delivers(machine, 15))
  BY <1>1, StageBegins, StageNumbers
<1>3. good \in Machine /\ bad \subseteq Machine
  <2>1. [machine EXCEPT !.hardened = TRUE] \in Machine
    BY <1>2 DEF Machine
  <2>2. [machine EXCEPT !.hardened = FALSE] \in Machine
    BY <1>2 DEF Machine
  <2> QED BY <1>2, <2>1, <2>2
<1>4. \A m \in bad \cup {good} : machine.tools => m.tools
  BY <1>2 DEF Machine
<1>5. /\ good.blocked = machine.blocked /\ good.services = machine.services
      /\ good.tools = machine.tools /\ good.docker = machine.docker
      /\ good.zone = machine.zone /\ good.swapOn = machine.swapOn
      /\ good.utilities = machine.utilities
      /\ good.clock = machine.clock /\ good.startup = machine.startup
      /\ does => good.hardened
  BY <1>2 DEF Machine
<1> HIDE DEF good, bad
<1>6. run.clean => Delivers(good, 16)
  BY <1>2, <1>5 DEF Delivers, DeliversAnywhere, DeliversOnLinux, Configures
<1> QED BY <1>1, <1>2, <1>3, <1>4, <1>6, StageKeeps

(* The services: what is enabled is enabled after all else is disabled.    *)
LEMMA ServicesType ==
  ASSUME NEW m \in Machine, NEW d \in SUBSET ToDisable, NEW e \in SUBSET ToEnable
  PROVE  LET after == EnableStartDaemon(DisableStopDaemon(m, d), e)
         IN  /\ after \in Machine
             /\ after.services = (m.services \ d) \cup e
             /\ after.tools = m.tools /\ after.docker = m.docker /\ after.blocked = m.blocked
             /\ after.zone = m.zone /\ after.swapOn = m.swapOn
             /\ after.utilities = m.utilities
             /\ after.clock = m.clock /\ after.startup = m.startup
<1> DEFINE fewer == DisableStopDaemon(m, d)
<1>1. m.services \subseteq ToDisable \cup ToEnable
  BY DEF Machine
<1>2. m.services \ d \in SUBSET (ToDisable \cup ToEnable)
  BY <1>1
<1>3. fewer = [m EXCEPT !.services = m.services \ d]
  BY DEF DisableStopDaemon
<1>4. /\ fewer \in Machine /\ fewer.services = m.services \ d
      /\ fewer.tools = m.tools /\ fewer.docker = m.docker /\ fewer.blocked = m.blocked
      /\ fewer.zone = m.zone /\ fewer.swapOn = m.swapOn
      /\ fewer.utilities = m.utilities
      /\ fewer.clock = m.clock /\ fewer.startup = m.startup
  BY <1>2, <1>3 DEF Machine
<1> HIDE DEF fewer
<1> DEFINE after == EnableStartDaemon(fewer, e)
<1>5. after = [fewer EXCEPT !.services = fewer.services \cup e]
  BY DEF EnableStartDaemon
<1>6. fewer.services \cup e \in SUBSET (ToDisable \cup ToEnable)
  BY <1>2, <1>4
<1>7. /\ after \in Machine /\ after.services = fewer.services \cup e
      /\ after.tools = fewer.tools /\ after.docker = fewer.docker /\ after.blocked = fewer.blocked
      /\ after.zone = fewer.zone /\ after.swapOn = fewer.swapOn
      /\ after.utilities = fewer.utilities
      /\ after.clock = fewer.clock /\ after.startup = fewer.startup
  BY <1>4, <1>5, <1>6 DEF Machine
<1> HIDE DEF after
<1> QED BY <1>4, <1>7 DEF after, fewer

LEMMA MaintainServicesKeeps == MTInv /\ MaintainServices => MTInv'
<1> SUFFICES ASSUME MTInv, MaintainServices PROVE MTInv'
  OBVIOUS
<1>1. At("services") /\ UNCHANGED <<setup2, ipt>>
  BY DEF MaintainServices
<1>2. /\ machine \in Machine /\ run.pc = "stage" /\ run.stage = 13
      /\ run.clean => Delivers(machine, 13)
  BY <1>1, StageBegins, StageNumbers
<1>3. fw' \in Chain
  <2>1. [policy |-> "ACCEPT", rules |-> <<>>] \in Chain
    BY DEF Chain
  <2> QED BY <2>1 DEF MaintainServices, MTInv, MTTypeOK
<1>4. PICK ok \in BOOLEAN, d \in SUBSET ToDisable, e \in SUBSET ToEnable :
        /\ StageEnds(ok) /\ machine' = EnableStartDaemon(DisableStopDaemon(machine, d), e)
        /\ ok => d = ToDisable /\ e = ToEnable
  BY DEF MaintainServices
<1> DEFINE after == EnableStartDaemon(DisableStopDaemon(machine, d), e)
<1>5. /\ after \in Machine
      /\ after.services = (machine.services \ d) \cup e
      /\ after.tools = machine.tools /\ after.docker = machine.docker
      /\ after.blocked = machine.blocked
      /\ after.zone = machine.zone /\ after.swapOn = machine.swapOn
      /\ after.utilities = machine.utilities
      /\ after.clock = machine.clock /\ after.startup = machine.startup
  BY <1>2, ServicesType
<1>6. machine' = after
  BY <1>4
<1> HIDE DEF after
<1>7. ok => ToEnable \subseteq after.services /\ after.services \cap (ToDisable \ ToEnable) = {}
  BY <1>4, <1>5
<1>8. ok /\ run.clean => Delivers(after, 14)
  BY <1>2, <1>5, <1>7 DEF Delivers, DeliversAnywhere, DeliversOnLinux
<1> QED BY <1>1, <1>2, <1>3, <1>4, <1>5, <1>6, <1>8, StageDone

-----------------------------------------------------------------------------
(* The firewall.  A step that changes the chain, the commands and perhaps  *)
(* the marks of the run, while the computer and the stage stay.            *)
LEMMA SameStage ==
  ASSUME MTInv, UNCHANGED <<setup2, machine>>, run' \in RunState, past' \in PastState,
         fw' \in Chain, ipt' \in IptState,
         run'.pc = run.pc, run'.stage = run.stage, run'.clean => run.clean, past'.clean = past.clean,
         StagesInv', ChainInv'
  PROVE  MTInv'
<1>1. MTTypeOK'
  BY DEF MTInv, MTTypeOK
<1>2. Delivers(machine, run.stage) => Delivers(machine, run.stage)'
  BY DEF Delivers, DeliversAnywhere, DeliversOnLinux, Windows
<1>3. DeliveryInv'
  BY <1>2 DEF MTInv, DeliveryInv, Configures, Windows
<1> QED BY <1>1, <1>3 DEF MTInv

(* Where the commands are, and what is known of the chain.                 *)
LEMMA IptablesRunning ==
  ASSUME MTInv, ipt.for # "nothing"
  PROVE  /\ run \in RunState /\ past \in PastState /\ fw \in Chain /\ ipt \in IptState
         /\ run.pc = "stage" /\ run.stage = 14 /\ HasFirewall
         /\ ipt.for \in {"clear", "setup", "failsafe"}
         /\ ipt.next \in Nat /\ ipt.next >= 1
BY DEF MTInv, MTTypeOK, StagesInv, Purposes, IptState

(* There is a command to run only while there is something to run it for.  *)
LEMMA CommandsAreForSomething ==
  ASSUME MTInv, ipt.next <= Len(IptablesCommands(ipt.for))
  PROVE  ipt.for # "nothing"
<1>1. ipt.next \in Nat /\ ipt.next >= 1
  BY DEF MTInv, MTTypeOK, IptState
<1>2. Len(IptablesCommands("nothing")) = 0
  BY CommandList
<1> QED BY <1>1, <1>2

(* The next command.                                                       *)
LEMMA NextCommand ==
  ASSUME NEW c \in IptState
  PROVE  LET d == [c EXCEPT !.next = c.next + 1]
         IN  d \in IptState /\ d.for = c.for /\ d.next = c.next + 1
BY DEF IptState

LEMMA IptablesFailsKeeps == MTInv /\ IptablesFails => MTInv'
<1> SUFFICES ASSUME MTInv, IptablesFails PROVE MTInv'
  OBVIOUS
<1>1. ipt.for # "nothing" /\ ipt.next <= Len(IptablesCommands(ipt.for))
  BY CommandsAreForSomething DEF IptablesFails
<1>2. /\ run \in RunState /\ past \in PastState /\ fw \in Chain /\ ipt \in IptState
      /\ run.pc = "stage" /\ run.stage = 14 /\ HasFirewall
      /\ ipt.for \in {"clear", "setup", "failsafe"}
  BY <1>1, IptablesRunning
<1>0. ipt.next \in Nat /\ ipt.next >= 1 /\ Len(Rules) \in Nat
  BY <1>1, IptablesRunning, RulesType
<1>3. (run.unsafe \/ ipt.for = "failsafe") \in BOOLEAN
  BY <1>2 DEF RunState
<1>4. run' = [run EXCEPT !.clean = FALSE, !.unsafe = run.unsafe \/ ipt.for = "failsafe"]
  BY DEF IptablesFails
<1>5. /\ run' \in RunState /\ run'.pc = run.pc /\ run'.stage = run.stage
      /\ run'.clean = FALSE /\ run'.unsafe = (run.unsafe \/ ipt.for = "failsafe")
  BY <1>2, <1>3, <1>4 DEF RunState
<1>6. past' \in PastState /\ past'.clean = past.clean
  BY <1>2 DEF IptablesFails, PastState
<1>7. UNCHANGED <<setup2, machine, fw>> /\ HasFirewall'
  BY <1>2 DEF IptablesFails, HasFirewall, Windows
<1>8. CASE ipt.for = "setup"
  <2>1. ipt' = [for |-> "failsafe", next |-> 1]
    BY <1>8 DEF IptablesFails
  <2>2. ipt' \in IptState
    BY <2>1 DEF Purposes, IptState
  <2>3. StagesInv'
    BY <1>2, <1>5, <1>7, <2>1 DEF StagesInv
  <2>4. ChainInv'
    BY <1>2, <1>5, <1>7, <2>1 DEF ChainInv, IsMadeSafeTo
  <2> QED BY <1>2, <1>5, <1>6, <1>7, <2>2, <2>3, <2>4, SameStage
<1>9. CASE ipt.for # "setup"
  <2>1. ipt' = [ipt EXCEPT !.next = ipt.next + 1]
    BY <1>9 DEF IptablesFails
  <2>2. ipt' \in IptState /\ ipt'.for = ipt.for /\ ipt'.next = ipt.next + 1
    BY <1>2, <2>1, NextCommand
  <2>3. ipt.next <= 2
    BY <1>0, <1>1, <1>2, <1>9, CommandLengths
  <2>4. StagesInv'
    BY <1>0, <1>2, <1>5, <1>7, <1>9, <2>2, <2>3 DEF StagesInv
  <2>5. ~run'.clean /\ (ipt.for = "failsafe" => run'.unsafe)
    BY <1>5
  <2>6. ChainInv'
    BY <1>2, <1>5, <1>7, <1>9, <2>2, <2>5 DEF ChainInv
  <2> QED BY <1>2, <1>5, <1>6, <1>7, <2>2, <2>4, <2>6, SameStage
<1> QED BY <1>8, <1>9

(* A rule more.                                                            *)
LEMMA RuleAdded ==
  ASSUME NEW rules \in Seq(RuleNames), NEW n \in Nat, Len(rules) = n, n < Len(Rules),
         \A j \in 1 .. n : rules[j] = Rules[j]
  PROVE  /\ Rules[n + 1] \in RuleNames
         /\ Len(Append(rules, Rules[n + 1])) = n + 1
         /\ \A j \in 1 .. n + 1 : Append(rules, Rules[n + 1])[j] = Rules[j]
<1>1. Rules[n + 1] \in RuleNames
  BY RulesType
<1>2. PICK r \in RuleNames : r = Rules[n + 1]
  BY <1>1
<1>3. /\ Len(Append(rules, r)) = n + 1
      /\ \A j \in 1 .. n : Append(rules, r)[j] = rules[j]
      /\ Append(rules, r)[n + 1] = r
  OBVIOUS
<1>4. \A j \in 1 .. n + 1 : j \in 1 .. n \/ j = n + 1
  OBVIOUS
<1> QED BY <1>1, <1>2, <1>3, <1>4

LEMMA SetupAdvances ==
  ASSUME NEW chain \in Chain, NEW n \in Nat \ {0}, n <= Len(Rules) + 2, IsSetUpTo(chain, n)
  PROVE  LET next == Iptables(chain, IptablesCommands("setup")[n])
         IN  next \in Chain /\ IsSetUpTo(next, n + 1)
<1> DEFINE next == Iptables(chain, IptablesCommands("setup")[n])
<1>0. Len(Rules) \in Nat
  BY RulesType
<1>1. CASE n = 1
  <2>1. next = Iptables(chain, Policy("DROP"))
    BY <1>1, CommandList
  <2> HIDE DEF next
  <2>2. next \in Chain /\ next.policy = "DROP"
    BY <2>1, CommandEffect
  <2>3. IsSetUpTo(next, n + 1)
    BY <1>1, <2>2 DEF IsSetUpTo
  <2> QED BY <2>2, <2>3 DEF next
<1>2. CASE n = 2
  <2>1. next = Iptables(chain, Flush)
    BY <1>2, CommandList
  <2> HIDE DEF next
  <2>2. next \in Chain /\ next.policy = chain.policy /\ next.rules = <<>>
    BY <2>1, CommandEffect
  <2>3. chain.policy = "DROP" /\ Len(next.rules) = 0
    BY <1>2, <2>2 DEF IsSetUpTo
  <2>4. IsSetUpTo(next, n + 1)
    BY <1>2, <2>2, <2>3 DEF IsSetUpTo
  <2> QED BY <2>2, <2>4 DEF next
<1>3. CASE n >= 3
  <2>1. PICK k \in Nat : k = n - 3
    BY <1>3
  <2>2. k + 1 \in 1 .. Len(Rules) /\ n = (k + 1) + 2 /\ k < Len(Rules)
    BY <1>0, <1>3, <2>1
  <2>3. next = Iptables(chain, Rule(Rules[k + 1]))
    BY <2>2, CommandList
  <2> HIDE DEF next
  <2>4. /\ chain.policy = "DROP" /\ chain.rules \in Seq(RuleNames) /\ Len(chain.rules) = k
        /\ \A j \in 1 .. k : chain.rules[j] = Rules[j]
    BY <1>3, <2>1 DEF IsSetUpTo, Chain
  <2>5. /\ Rules[k + 1] \in RuleNames
        /\ Len(Append(chain.rules, Rules[k + 1])) = k + 1
        /\ \A j \in 1 .. k + 1 : Append(chain.rules, Rules[k + 1])[j] = Rules[j]
    BY <2>2, <2>4, RuleAdded
  <2>6. next \in Chain /\ next.policy = "DROP" /\ next.rules = Append(chain.rules, Rules[k + 1])
    BY <2>3, <2>4, <2>5, CommandEffect
  <2>7. Len(next.rules) = k + 1 /\ \A j \in 1 .. k + 1 : next.rules[j] = Rules[j]
    BY <2>5, <2>6
  <2>8. (n + 1) - 3 = k + 1
    BY <2>2
  <2>9. IsSetUpTo(next, n + 1)
    BY <2>6, <2>7, <2>8 DEF IsSetUpTo
  <2> QED BY <2>6, <2>9 DEF next
<1> QED BY <1>1, <1>2, <1>3

LEMMA SafetyAdvances ==
  ASSUME NEW chain \in Chain, NEW n \in {1, 2}
  PROVE  LET next == Iptables(chain, IptablesCommands("failsafe")[n])
         IN  next \in Chain /\ (IsMadeSafeTo(chain, n) => IsMadeSafeTo(next, n + 1))
<1> DEFINE next == Iptables(chain, IptablesCommands("failsafe")[n])
<1>1. CASE n = 1
  <2>1. next = Iptables(chain, Flush)
    BY <1>1, CommandList
  <2> HIDE DEF next
  <2>2. next \in Chain /\ next.rules = <<>>
    BY <2>1, CommandEffect
  <2>3. IsMadeSafeTo(next, n + 1)
    BY <1>1, <2>2 DEF IsMadeSafeTo
  <2> QED BY <2>2, <2>3 DEF next
<1>2. CASE n = 2
  <2>1. next = Iptables(chain, Policy("ACCEPT"))
    BY <1>2, CommandList
  <2> HIDE DEF next
  <2>2. next \in Chain /\ next.policy = "ACCEPT" /\ next.rules = chain.rules
    BY <2>1, CommandEffect
  <2>3. IsMadeSafeTo(chain, n) => IsMadeSafeTo(next, n + 1)
    BY <1>2, <2>2 DEF IsMadeSafeTo
  <2> QED BY <2>2, <2>3 DEF next
<1> QED BY <1>1, <1>2

LEMMA IptablesSucceedsKeeps == MTInv /\ IptablesSucceeds => MTInv'
<1> SUFFICES ASSUME MTInv, IptablesSucceeds PROVE MTInv'
  OBVIOUS
<1>1. ipt.for # "nothing" /\ ipt.next <= Len(IptablesCommands(ipt.for))
  BY CommandsAreForSomething DEF IptablesSucceeds
<1>2. /\ run \in RunState /\ past \in PastState /\ fw \in Chain /\ ipt \in IptState
      /\ run.pc = "stage" /\ run.stage = 14 /\ HasFirewall
      /\ ipt.for \in {"clear", "setup", "failsafe"}
  BY <1>1, IptablesRunning
<1>0. ipt.next \in Nat /\ ipt.next >= 1 /\ Len(Rules) \in Nat
  BY <1>1, IptablesRunning, RulesType
<1>3. UNCHANGED <<setup2, machine, run, past>> /\ HasFirewall'
  BY <1>2 DEF IptablesSucceeds, HasFirewall, Windows
<1>4. ipt' = [ipt EXCEPT !.next = ipt.next + 1]
  BY DEF IptablesSucceeds
<1>5. ipt' \in IptState /\ ipt'.for = ipt.for /\ ipt'.next = ipt.next + 1
  BY <1>2, <1>4, NextCommand
<1>6. fw' = Iptables(fw, IptablesCommands(ipt.for)[ipt.next])
  BY DEF IptablesSucceeds
<1>7. CASE ipt.for = "clear"
  <2>0. ipt.next <= 2
    BY <1>1, <1>7, CommandLengths
  <2>1. ipt.next \in {1, 2}
    BY <1>0, <2>0
  <2>2. fw' \in Chain
    BY <1>2, <1>6, <1>7, <2>1, CommandList, CommandEffect
  <2>3. StagesInv'
    BY <1>0, <1>2, <1>3, <1>5, <1>7, <2>1 DEF StagesInv
  <2>4. ChainInv'
    BY <1>2, <1>3, <1>5, <1>7 DEF ChainInv
  <2> QED BY <1>2, <1>3, <1>5, <2>2, <2>3, <2>4, SameStage
<1>8. CASE ipt.for = "setup"
  <2>1. ipt.next <= Len(Rules) + 2
    BY <1>1, <1>8, CommandLengths
  <2>2. IsSetUpTo(fw, ipt.next)
    BY <1>8 DEF MTInv, ChainInv
  <2>3. fw' = Iptables(fw, IptablesCommands("setup")[ipt.next])
    BY <1>6, <1>8
  <2>4. fw' \in Chain /\ IsSetUpTo(fw', ipt.next + 1)
    BY <1>0, <1>2, <2>1, <2>2, <2>3, SetupAdvances
  <2>5. StagesInv'
    BY <1>0, <1>2, <1>3, <1>5, <1>8, <2>1 DEF StagesInv
  <2>6. ChainInv'
    BY <1>2, <1>3, <1>5, <1>8, <2>4 DEF ChainInv, IsSetUpTo
  <2> QED BY <1>2, <1>3, <1>5, <2>4, <2>5, <2>6, SameStage
<1>9. CASE ipt.for = "failsafe"
  <2>0. ipt.next <= 2
    BY <1>1, <1>9, CommandLengths
  <2>1. ipt.next \in {1, 2}
    BY <1>0, <2>0
  <2>2. ~run.clean /\ (~run.unsafe => IsMadeSafeTo(fw, ipt.next))
    BY <1>9 DEF MTInv, ChainInv
  <2>3. fw' = Iptables(fw, IptablesCommands("failsafe")[ipt.next])
    BY <1>6, <1>9
  <2>4. fw' \in Chain /\ (IsMadeSafeTo(fw, ipt.next) => IsMadeSafeTo(fw', ipt.next + 1))
    BY <1>2, <2>1, <2>3, SafetyAdvances
  <2>5. StagesInv'
    BY <1>0, <1>2, <1>3, <1>5, <1>9, <2>1 DEF StagesInv
  <2>6. ChainInv'
    BY <1>2, <1>3, <1>5, <1>9, <2>2, <2>4 DEF ChainInv, IsMadeSafeTo
  <2> QED BY <1>2, <1>3, <1>5, <2>4, <2>5, <2>6, SameStage
<1> QED BY <1>2, <1>7, <1>8, <1>9

(* All of the setup makes the chain the configured one, all of the fail    *)
(* safe opens it.                                                          *)
LEMMA SetupIsConfigured ==
  ASSUME NEW chain \in Chain, IsSetUpTo(chain, Len(Rules) + 3)
  PROVE  chain = Configured
<1>1. Len(Rules) \in Nat /\ Rules \in Seq(RuleNames)
  BY RulesType
<1>2. chain.policy = "DROP" /\ Len(chain.rules) = Len(Rules) /\ chain.rules \in Seq(RuleNames)
  BY <1>1 DEF IsSetUpTo, Chain
<1>3. \A j \in 1 .. Len(Rules) : chain.rules[j] = Rules[j]
  BY <1>1 DEF IsSetUpTo
<1>4. chain.rules = Rules
  BY <1>1, <1>2, <1>3, SeqEqual
<1> QED BY <1>2, <1>4 DEF Chain, Configured

LEMMA FailSafeIsOpen ==
  ASSUME NEW chain \in Chain, IsMadeSafeTo(chain, 3)
  PROVE  chain = Open
BY DEF Chain, Open, IsMadeSafeTo

(* The stage ends, with or without a firewall of its own.                  *)
LEMMA FirewallStageDone ==
  ASSUME MTInv, run.pc = "stage", run.stage = 14, StageEnds(TRUE),
         UNCHANGED <<setup2, fw, machine>>, ipt' \in IptState, ipt'.for = "nothing",
         HasFirewall => /\ ~run.unsafe => fw \in {Configured, Open}
                        /\ run.clean => fw = Configured
  PROVE  MTInv'
<1>0. MTTypeOK /\ StagesInv
  BY DEF MTInv
<1>1. /\ run' \in RunState /\ run'.pc = "stage" /\ run'.stage = 15
      /\ run'.clean => run.clean
      /\ run'.unsafe = run.unsafe
      /\ past' \in PastState /\ past'.clean = past.clean
  <2>1. PICK ok \in BOOLEAN : StageEnds(ok)
    OBVIOUS
  <2> QED BY <1>0, <2>1, StageEndsEffect
<1>2. /\ (Windows' <=> Windows) /\ (HasFirewall' <=> HasFirewall)
      /\ Configures("software")' <=> Configures("software")
  BY DEF Windows, HasFirewall, Configures
<1>3. MTTypeOK'
  BY <1>0, <1>1 DEF MTTypeOK
<1>4. StagesInv'
  BY <1>1 DEF StagesInv
<1>5. ChainInv'
  BY <1>1, <1>2 DEF ChainInv
<1>6. run.clean => Delivers(machine, 14)
  BY DEF MTInv, DeliveryInv
<1>7. Delivers(machine, 14) => Delivers(machine, 15)'
  BY <1>1, <1>2 DEF Delivers, DeliversAnywhere, DeliversOnLinux
<1>8. DeliveryInv'
  BY <1>1, <1>2, <1>6, <1>7 DEF MTInv, DeliveryInv
<1> QED BY <1>3, <1>4, <1>5, <1>8 DEF MTInv

LEMMA IptablesBeginsKeeps == MTInv /\ IptablesBegins => MTInv'
<1> SUFFICES ASSUME MTInv, IptablesBegins PROVE MTInv'
  OBVIOUS
<1>1. At("iptables") /\ ipt.for = "nothing" /\ UNCHANGED <<setup2, fw, machine>>
  BY DEF IptablesBegins
<1>2. run.pc = "stage" /\ run.stage = 14
  BY <1>1, StageBegins, StageNumbers
<1>3. run \in RunState /\ past \in PastState /\ fw \in Chain /\ ipt \in IptState
  BY DEF MTInv, MTTypeOK
<1>4. CASE ~HasFirewall /\ StageEnds(TRUE) /\ UNCHANGED ipt
  BY <1>1, <1>2, <1>3, <1>4, FirewallStageDone
<1>5. CASE HasFirewall /\ ipt' = [for |-> "clear", next |-> 1] /\ UNCHANGED <<run, past>>
  <2>1. ipt' \in IptState /\ ipt'.for = "clear" /\ ipt'.next = 1
    BY <1>5 DEF IptState, Purposes
  <2>2. HasFirewall'
    BY <1>1, <1>5 DEF HasFirewall, Windows
  <2>3. StagesInv' /\ ChainInv'
    BY <1>2, <1>5, <2>1, <2>2 DEF StagesInv, ChainInv
  <2> QED BY <1>1, <1>3, <1>5, <2>1, <2>3, SameStage
<1> QED BY <1>4, <1>5 DEF IptablesBegins

LEMMA IptablesEndsKeeps == MTInv /\ IptablesEnds => MTInv'
<1> SUFFICES ASSUME MTInv, IptablesEnds PROVE MTInv'
  OBVIOUS
<1>1. /\ ipt.for # "nothing" /\ ipt.next > Len(IptablesCommands(ipt.for))
      /\ UNCHANGED <<setup2, fw, machine>>
  BY DEF IptablesEnds
<1>2. /\ run \in RunState /\ past \in PastState /\ fw \in Chain /\ ipt \in IptState
      /\ run.pc = "stage" /\ run.stage = 14 /\ HasFirewall
      /\ ipt.for \in {"clear", "setup", "failsafe"}
  BY <1>1, IptablesRunning
<1>3. ipt.next \in Nat /\ Len(Rules) \in Nat
  BY <1>1, IptablesRunning, RulesType
<1>4. CASE ipt.for = "clear"
  <2>1. ipt' = [for |-> "setup", next |-> 1] /\ UNCHANGED <<run, past>>
    BY <1>4 DEF IptablesEnds
  <2>2. ipt' \in IptState /\ ipt'.for = "setup" /\ ipt'.next = 1
    BY <2>1 DEF IptState, Purposes
  <2>3. HasFirewall'
    BY <1>1, <1>2 DEF HasFirewall, Windows
  <2>4. StagesInv'
    BY <1>2, <1>3, <2>1, <2>2, <2>3 DEF StagesInv
  <2>5. ChainInv'
    BY <1>2, <2>1, <2>2 DEF ChainInv, IsSetUpTo
  <2> QED BY <1>1, <1>2, <2>1, <2>2, <2>4, <2>5, SameStage
<1>5. CASE ipt.for # "clear"
  <2>1. StageEnds(TRUE) /\ ipt' = NoCommands
    BY <1>5 DEF IptablesEnds
  <2>2. ipt' \in IptState /\ ipt'.for = "nothing"
    BY <2>1 DEF NoCommands, IptState, Purposes
  <2>3. CASE ipt.for = "setup"
    <3>1. ipt.next > Len(Rules) + 2 /\ ipt.next <= Len(Rules) + 3
      BY <1>1, <2>3, CommandLengths DEF MTInv, StagesInv
    <3>2. ipt.next = Len(Rules) + 3
      BY <1>3, <3>1
    <3>3. IsSetUpTo(fw, Len(Rules) + 3)
      BY <2>3, <3>2 DEF MTInv, ChainInv
    <3>4. fw = Configured
      BY <1>2, <3>3, SetupIsConfigured
    <3> QED BY <1>1, <1>2, <2>1, <2>2, <3>4, FirewallStageDone
  <2>4. CASE ipt.for = "failsafe"
    <3>1. ipt.next > 2 /\ ipt.next <= 3
      BY <1>1, <2>4, CommandLengths DEF MTInv, StagesInv
    <3>2. ipt.next = 3
      BY <1>3, <3>1
    <3>3. ~run.clean /\ (~run.unsafe => IsMadeSafeTo(fw, 3))
      BY <2>4, <3>2 DEF MTInv, ChainInv
    <3>4. ~run.unsafe => fw = Open
      BY <1>2, <3>3, FailSafeIsOpen
    <3> QED BY <1>1, <1>2, <2>1, <2>2, <3>3, <3>4, FirewallStageDone
  <2> QED BY <1>2, <1>5, <2>3, <2>4
<1> QED BY <1>4, <1>5

-----------------------------------------------------------------------------
(* Between runs and at their ends: no stage is in progress afterwards.     *)
LEMMA NoStageInProgress ==
  ASSUME MTInv, UNCHANGED <<setup2, fw>>, run' \in RunState, run'.pc \notin {"stage", "check"},
         ipt' \in IptState, ipt'.for = "nothing", machine' \in Machine, machine'.tools = machine.tools,
         past' \in PastState, past'.clean > 0 => past.clean > 0 \/ (Configures("software") => machine.tools)
  PROVE  MTInv'
<1>1. MTTypeOK'
  BY DEF MTInv, MTTypeOK
<1>2. StagesInv' /\ ChainInv'
  BY DEF StagesInv, ChainInv
<1>3. DeliveryInv'
  BY DEF MTInv, DeliveryInv, Configures, Windows
<1> QED BY <1>1, <1>2, <1>3 DEF MTInv

LEMMA LoopKeeps ==
  MTInv /\ (Execute \/ MTStart \/ StopIsReceived \/ CrashInMaintenance) => MTInv'
<1>1. ASSUME MTInv, run.pc # "stage"
      PROVE  ipt.for = "nothing" /\ ipt \in IptState
  BY <1>1 DEF MTInv, StagesInv, MTTypeOK
<1>2. ASSUME MTInv
      PROVE  /\ run \in RunState /\ machine \in Machine /\ past \in PastState
             /\ past.clean \in Nat
  BY <1>2 DEF MTInv, MTTypeOK, PastState
<1>3. ASSUME MTInv, Execute
      PROVE  MTInv'
  <2>1. run.pc = "check" /\ UNCHANGED <<setup2, fw, ipt, machine>>
    BY <1>3 DEF Execute
  <2>2. run' \in RunState /\ run'.pc = "loop"
    BY <1>3 DEF Execute, NoRun, RunState
  <2>3. past' = IF run.clean THEN [past EXCEPT !.clean = @ + 1] ELSE past
    BY <1>3 DEF Execute
  <2>4. past' \in PastState /\ (past' # past => run.clean)
    BY <1>2, <1>3, <2>3 DEF PastState
  <2>5. run.clean /\ Configures("software") => machine.tools
    BY <1>3, <2>1 DEF MTInv, DeliveryInv, StagesInv, Delivers, DeliversOnLinux, Configures
  <2>6. past'.clean > 0 => past.clean > 0 \/ (Configures("software") => machine.tools)
    BY <2>4, <2>5
  <2> QED BY <1>1, <1>2, <1>3, <2>1, <2>2, <2>4, <2>6, NoStageInProgress
<1>4. ASSUME MTInv, MTStart \/ StopIsReceived
      PROVE  MTInv'
  <2>1. run.pc \in {"off", "loop", "wait"} /\ UNCHANGED <<setup2, fw, ipt, machine, past>>
    BY <1>4 DEF MTStart, StopIsReceived
  <2>2. run' \in RunState /\ run'.pc \in {"ended", "wait"}
    BY <1>2, <1>4 DEF MTStart, StopIsReceived, RunState
  <2> QED BY <1>1, <1>2, <1>4, <2>1, <2>2, NoStageInProgress
<1>5. ASSUME MTInv, CrashInMaintenance
      PROVE  MTInv'
  <2>1. /\ UNCHANGED <<setup2, fw, past>> /\ run' = NoRun /\ ipt' = NoCommands
        /\ machine' = [machine EXCEPT !.startup = machine.clock]
    BY <1>5 DEF CrashInMaintenance
  <2>2. run' \in RunState /\ run'.pc = "off" /\ ipt' \in IptState /\ ipt'.for = "nothing"
    BY <2>1 DEF NoRun, RunState, NoCommands, IptState, Purposes
  <2>3. machine' \in Machine /\ machine'.tools = machine.tools
    BY <1>2, <1>5, <2>1 DEF Machine
  <2> QED BY <1>2, <1>5, <2>1, <2>2, <2>3, NoStageInProgress
<1> QED BY <1>3, <1>4, <1>5

(* A run begins with nothing delivered.                                    *)
LEMMA RunIsDueKeeps == MTInv /\ RunIsDue => MTInv'
<1> SUFFICES ASSUME MTInv, RunIsDue PROVE MTInv'
  OBVIOUS
<1>1. run.pc = "wait" /\ UNCHANGED <<setup2, fw, ipt>>
  BY DEF RunIsDue
<1>2. ipt.for = "nothing" /\ machine \in Machine /\ past \in PastState
  BY <1>1 DEF MTInv, StagesInv, MTTypeOK
<1>3. run' \in RunState /\ run'.pc = "stage" /\ run'.stage = 1
  BY DEF RunIsDue, NoRun, RunState
<1>4. past' \in PastState /\ past'.clean = past.clean
  BY <1>2 DEF RunIsDue, PastState
<1>5. machine' \in Machine /\ machine'.tools = machine.tools
  BY <1>2 DEF RunIsDue, Machine
<1>6. MTTypeOK'
  BY <1>1, <1>3, <1>4, <1>5 DEF MTInv, MTTypeOK
<1>7. StagesInv' /\ ChainInv'
  BY <1>1, <1>2, <1>3 DEF StagesInv, ChainInv
<1>8. Delivers(machine, run.stage)'
  BY <1>3 DEF Delivers, DeliversAnywhere, DeliversOnLinux
<1>9. DeliveryInv'
  BY <1>1, <1>4, <1>5, <1>8 DEF MTInv, DeliveryInv, Configures, Windows
<1> QED BY <1>6, <1>7, <1>9 DEF MTInv

(* The flag, Stop's caller and the lock-down are not in the invariant.     *)
LEMMA MTInvDepends ==
  ASSUME MTInv, UNCHANGED <<setup2, run, fw, ipt, machine, past>>
  PROVE  MTInv'
<1>1. MTTypeOK' /\ StagesInv'
  BY DEF MTInv, MTTypeOK, StagesInv, HasFirewall, Windows
<1>2. ChainInv'
  BY DEF MTInv, ChainInv, IsSetUpTo, IsMadeSafeTo, HasFirewall, Windows
<1>3. DeliveryInv'
  BY DEF MTInv, DeliveryInv, Delivers, DeliversAnywhere, DeliversOnLinux, Configures, Windows
<1> QED BY <1>1, <1>2, <1>3 DEF MTInv

LEMMA MTPreserved == MTInv /\ [MTNext]_mtVars => MTInv'
<1>1. ASSUME MTInv, RunPreMaintenanceScript \/ TuneLinux \/ DefragmentAllDisks \/ TrimAllSSDs
                      \/ MaintainWindowsIntegrity
      PROVE  MTInv'
  BY <1>1, UnrelatedKeeps
  DEF RunPreMaintenanceScript, TuneLinux, DefragmentAllDisks, TrimAllSSDs, MaintainWindowsIntegrity
<1>2. ASSUME MTInv, MTStop \/ MTLockDown \/ UNCHANGED mtVars
      PROVE  MTInv'
  BY <1>2, MTInvDepends DEF MTStop, MTLockDown, mtVars
<1> QED
  BY <1>1, <1>2, SetTimeZoneKeeps, CleanUpFilesKeeps, MaintainSwapFileKeeps, CopyUtilitiesKeeps,
     InstallSoftwareKeeps, SynchroniseClockKeeps, BlockUnusedLoginKeeps, MaintainServicesKeeps,
     EnhanceFileSecurityKeeps, IptablesBeginsKeeps, IptablesFailsKeeps, IptablesSucceedsKeeps,
     IptablesEndsKeeps, LoopKeeps, RunIsDueKeeps
  DEF MTNext

LEMMA MTInitial == MTInit => MTInv
<1> SUFFICES ASSUME MTInit PROVE MTInv
  OBVIOUS
<1>1. run \in RunState /\ run.pc = "off" /\ ipt \in IptState /\ ipt.for = "nothing"
  BY DEF MTInit, NoRun, NoCommands, RunState, IptState, Purposes
<1>2. fw \in Chain
  BY DEF MTInit, Chain, RuleNames
<1>3. machine \in Machine
  BY DEF MTInit, Machine
<1>4. past \in PastState /\ past.clean = 0
  BY DEF MTInit, PastState
<1>5. setup2 \in [os : {"debian", "windows"}, throttle : Nat, swap : {"on", "off", "unset"},
                  options : SUBSET Options]
  BY DEF MTInit
<1>6. StagesInv /\ ChainInv /\ DeliveryInv
  BY <1>1, <1>4 DEF StagesInv, ChainInv, DeliveryInv
<1> QED BY <1>1, <1>2, <1>3, <1>4, <1>5, <1>6 DEF MTInv, MTTypeOK

(* No run leaves the firewall half configured, for any ports, services and *)
(* number of failures and crashes, unless the fail safe fails as well.     *)
THEOREM FirewallAlwaysWhole == MTSpec => []FirewallIsWhole
<1>1. MTInv => FirewallIsWhole
  <2> SUFFICES ASSUME MTInv, At("permissions") \/ run.pc = "check", HasFirewall, ~run.unsafe
               PROVE  fw \in {Configured, Open}
    BY DEF FirewallIsWhole
  <2>1. run.pc = "check" \/ (run.pc = "stage" /\ run.stage = 15)
    BY StageBegins, StageNumbers
  <2> QED BY <2>1 DEF MTInv, ChainInv
<1> QED BY <1>1, MTInitial, MTPreserved, PTL DEF MTSpec

(* A run without faults delivers everything that it is configured for.     *)
THEOREM CleanRunAlwaysDelivers == MTSpec => []CleanRunDelivers
<1>1. MTInv => CleanRunDelivers
  <2> SUFFICES ASSUME MTInv, run.pc = "check", run.clean
               PROVE  CleanRunDelivers
    BY DEF CleanRunDelivers
  <2>1. run.stage = 16 /\ Delivers(machine, 16)
    BY DEF MTInv, StagesInv, DeliveryInv
  <2>2. HasFirewall => fw = Configured
    BY DEF MTInv, ChainInv
  <2> QED BY <2>1, <2>2 DEF CleanRunDelivers, Delivers, DeliversAnywhere, DeliversOnLinux, Configures
<1> QED BY <1>1, MTInitial, MTPreserved, PTL DEF MTSpec
-----------------------------------------------------------------------------
(* The supervisor.  RemoveFromFlags puts what it keeps at the position     *)
(* that tells how much it has kept up to there.                            *)
Rank(S, i) == Cardinality({j \in S : j <= i})

(* What there is up to a position, and what the next one adds.             *)
LEMMA LowGrows ==
  ASSUME NEW S, \A k \in S : k \in Int, NEW i \in S, NEW j \in S, i < j
  PROVE  /\ {k \in S : k <= i} \in SUBSET {k \in S : k <= j}
         /\ j \in {k \in S : k <= j}
         /\ j \notin {k \in S : k <= i}
  OBVIOUS

LEMMA RankProperties ==
  ASSUME NEW m \in Nat, NEW S \in SUBSET (1 .. m)
  PROVE  /\ IsFiniteSet(S) /\ Cardinality(S) \in Nat
         /\ \A i \in S : Rank(S, i) \in 1 .. Cardinality(S)
         /\ \A i, j \in S : i < j => Rank(S, i) < Rank(S, j)
         /\ \A i \in S : i + 1 \in S => Rank(S, i + 1) = Rank(S, i) + 1
<1> DEFINE Low(i) == {j \in S : j <= i}
<1>0. \A k \in S : k \in Int
  OBVIOUS
<1>1. IsFiniteSet(1 .. m)
  BY FS_Interval
<1>2. IsFiniteSet(S) /\ Cardinality(S) \in Nat
  BY <1>1, FS_Subset, FS_CardinalityType
<1>3. ASSUME NEW i \in S
      PROVE  /\ IsFiniteSet(Low(i)) /\ Cardinality(Low(i)) \in Nat
             /\ Cardinality(Low(i)) <= Cardinality(S)
  <2> Low(i) \in SUBSET S
    OBVIOUS
  <2> HIDE DEF Low
  <2> QED BY <1>2, FS_Subset, FS_CardinalityType
<1>4. ASSUME NEW i \in S
      PROVE  Cardinality(Low(i)) # 0
  <2>1. Low(i) # {}
    OBVIOUS
  <2> HIDE DEF Low
  <2> QED BY <1>3, <2>1, FS_EmptySet
<1>5. ASSUME NEW i \in S, NEW j \in S, i < j
      PROVE  Cardinality(Low(i)) < Cardinality(Low(j))
  <2>1. Low(i) \in SUBSET Low(j) /\ j \in Low(j) /\ j \notin Low(i)
    BY <1>0, <1>5, LowGrows
  <2> HIDE DEF Low
  <2>2. Cardinality(Low(i)) <= Cardinality(Low(j)) /\ Cardinality(Low(i)) # Cardinality(Low(j))
    BY <1>3, <2>1, FS_Subset
  <2> QED BY <1>3, <2>2
<1>6. ASSUME NEW i \in S, i + 1 \in S
      PROVE  Cardinality(Low(i + 1)) = Cardinality(Low(i)) + 1
  <2> DEFINE j == i + 1
  <2>0. j \in S /\ i < j /\ j = i + 1
    BY <1>0, <1>6
  <2> HIDE DEF j
  <2>1. Low(j) = Low(i) \cup {j}
    <3>1. ASSUME NEW k \in S PROVE k <= j <=> (k <= i \/ k = j)
      BY <1>0, <2>0
    <3> QED BY <2>0, <3>1
  <2>2. j \notin Low(i)
    BY <1>0, <2>0, LowGrows
  <2> HIDE DEF Low
  <2>3. Cardinality(Low(j)) = Cardinality(Low(i)) + 1
    BY <1>3, <2>1, <2>2, FS_AddElement
  <2> QED BY <2>3 DEF j
<1>7. \A i : Rank(S, i) = Cardinality(Low(i))
  BY DEF Rank
<1> HIDE DEF Low
<1>8. \A i \in S : Rank(S, i) \in 1 .. Cardinality(S)
  BY <1>2, <1>3, <1>4, <1>7
<1>9. \A i, j \in S : i < j => Rank(S, i) < Rank(S, j)
  BY <1>5, <1>7
<1>10. \A i \in S : i + 1 \in S => Rank(S, i + 1) = Rank(S, i) + 1
  BY <1>6, <1>7
<1> QED BY <1>2, <1>8, <1>9, <1>10

LEMMA NthProperties ==
  ASSUME NEW m \in Nat, NEW S \in SUBSET (1 .. m)
  PROVE  /\ \A n \in 1 .. Cardinality(S) : Nth(S, n) \in S /\ Rank(S, Nth(S, n)) = n
         /\ \A i \in S : Nth(S, Rank(S, i)) = i
<1> DEFINE f == [i \in S |-> Rank(S, i)]
           T == 1 .. Cardinality(S)
<1>1. S \subseteq Int
  OBVIOUS
<1>2. /\ IsFiniteSet(S) /\ Cardinality(S) \in Nat
      /\ \A i \in S : Rank(S, i) \in T
      /\ \A i, j \in S : i < j => Rank(S, i) < Rank(S, j)
  BY RankProperties
<1>3. T \subseteq Int
  OBVIOUS
<1>4. \A i, j \in S : Rank(S, i) = Rank(S, j) => i = j
  <2> SUFFICES ASSUME NEW i \in S, NEW j \in S, Rank(S, i) = Rank(S, j), i # j
               PROVE  FALSE
    OBVIOUS
  <2>1. i \in Int /\ j \in Int /\ Rank(S, i) \in Int /\ Rank(S, j) \in Int
    BY <1>1, <1>2, <1>3
  <2>2. i < j \/ j < i
    BY <2>1
  <2>3. ~(Rank(S, i) < Rank(S, j)) /\ ~(Rank(S, j) < Rank(S, i))
    BY <2>1
  <2> QED BY <1>2, <2>2, <2>3
<1>5. IsFiniteSet(T) /\ Cardinality(T) = Cardinality(S)
  BY <1>2, FS_Interval
<1>6. f \in Injection(S, T)
  <2> HIDE DEF T
  <2> QED BY <1>2, <1>4 DEF Injection, IsInjective
<1>7. f \in Surjection(S, T)
  <2> HIDE DEF f, T
  <2> QED BY <1>2, <1>5, <1>6, FS_Injection
<1>8. \A n \in T : \E i \in S : Rank(S, i) = n
  <2> HIDE DEF T
  <2> QED BY <1>7 DEF Surjection
<1>9. \A n : Nth(S, n) = CHOOSE i \in S : Rank(S, i) = n
  BY DEF Nth, Rank
<1>10. \A n \in T : Nth(S, n) \in S /\ Rank(S, Nth(S, n)) = n
  <2> HIDE DEF T
  <2> TAKE n \in T
  <2>1. \E i \in S : Rank(S, i) = n
    BY <1>8
  <2>2. LET i == CHOOSE i \in S : Rank(S, i) = n IN i \in S /\ Rank(S, i) = n
    BY <2>1
  <2> QED BY <1>9, <2>2
<1>11. \A i \in S : Nth(S, Rank(S, i)) = i
  <2> HIDE DEF T
  <2> QED BY <1>2, <1>4, <1>10
<1> QED BY <1>10, <1>11

-----------------------------------------------------------------------------
(* ShedOrder has no daemon twice, and the auto-unlocker is not in it.      *)
LEMMA ShedOrderDistinct ==
  /\ DOMAIN ShedOrder = 1 .. 12
  /\ \A i, j \in 1 .. 12 : ShedOrder[i] = ShedOrder[j] => i = j
  /\ \A i \in 1 .. 12 : ShedOrder[i] # "autounlock"
  /\ Range(ShedOrder) = {ShedOrder[i] : i \in 1 .. 12}
  /\ AllDaemons = Range(ShedOrder) \cup {"autounlock"}
<1>1. DOMAIN ShedOrder = 1 .. 12
  BY DEF ShedOrder
<1>2. \A i, j \in 1 .. 12 : ShedOrder[i] = ShedOrder[j] => i = j
  BY DEF ShedOrder
<1>3. \A i \in 1 .. 12 : ShedOrder[i] # "autounlock"
  BY DEF ShedOrder
<1>4. Range(ShedOrder) = {ShedOrder[i] : i \in 1 .. 12}
  BY <1>1 DEF Range
<1> QED BY <1>1, <1>2, <1>3, <1>4 DEF AllDaemons

(* Any set of daemons is finite.                                           *)
LEMMA DaemonsFinite ==
  ASSUME NEW D \in SUBSET AllDaemons
  PROVE  IsFiniteSet(D) /\ Cardinality(D) \in Nat
<1> DEFINE f == [i \in 1 .. 12 |-> ShedOrder[i]]
           T == Range(ShedOrder)
<1>1. f \in Surjection(1 .. 12, T)
  BY ShedOrderDistinct DEF Surjection
<1>2. IsFiniteSet(1 .. 12)
  <2>1. 1 \in Int /\ 12 \in Int
    OBVIOUS
  <2> HIDE DEF f, T
  <2> QED BY <2>1, FS_Interval
<1>3. IsFiniteSet(T)
  <2> HIDE DEF f, T
  <2> QED BY <1>1, <1>2, FS_Surjection
<1>4. IsFiniteSet(AllDaemons)
  <2> HIDE DEF T
  <2>1. IsFiniteSet(T \cup {"autounlock"})
    BY <1>3, FS_AddElement
  <2> QED BY <2>1, ShedOrderDistinct DEF T
<1> QED BY <1>4, FS_Subset, FS_CardinalityType

(* The place of a daemon among those asked for is its rank.                *)
LEMMA UpToIsRank ==
  ASSUME NEW D, NEW i \in 1 .. 12
  PROVE  /\ UpTo(12, D) \in SUBSET (1 .. 12)
         /\ Cardinality(UpTo(i, D)) = Rank(UpTo(12, D), i)
<1>1. UpTo(i, D) = {j \in UpTo(12, D) : j <= i}
  <2>1. ASSUME NEW j
        PROVE  j \in 1 .. i <=> j \in 1 .. 12 /\ j <= i
    OBVIOUS
  <2> QED BY <2>1 DEF UpTo
<1>2. UpTo(12, D) \in SUBSET (1 .. 12)
  BY DEF UpTo
<1> QED BY <1>1, <1>2 DEF Rank

(* If all daemons are in ShedOrder they are as many as their places in it. *)
LEMMA PlacesCount ==
  ASSUME NEW D \in SUBSET Range(ShedOrder)
  PROVE  Cardinality(UpTo(12, D)) = Cardinality(D)
<1> DEFINE S == UpTo(12, D)
           f == [i \in S |-> ShedOrder[i]]
<1>1. IsFiniteSet(S)
  BY UpToIsRank, RankProperties, 12 \in 1 .. 12, 12 \in Nat
<1>2. \A i \in S : i \in 1 .. 12 /\ ShedOrder[i] \in D
  BY DEF UpTo
<1>3. \A d \in D : \E i \in S : ShedOrder[i] = d
  BY ShedOrderDistinct DEF UpTo
<1>4. f \in Bijection(S, D)
  <2>1. \A i, j \in S : ShedOrder[i] = ShedOrder[j] => i = j
    BY <1>2, ShedOrderDistinct
  <2> HIDE DEF S
  <2>2. f \in Injection(S, D)
    BY <1>2, <2>1 DEF Injection, IsInjective
  <2>3. f \in Surjection(S, D)
    BY <1>2, <1>3 DEF Surjection
  <2> QED BY <2>2, <2>3 DEF Bijection
<1> HIDE DEF S, f
<1>5. ExistsBijection(S, D)
  BY <1>4 DEF ExistsBijection
<1>6. Cardinality(D) = Cardinality(S)
  BY <1>1, <1>5, FS_Bijection
<1> QED BY <1>6 DEF S

(* The n-th set of the shed sequence, of whatever daemons were asked for:  *)
(* some of them, never all of them gone, the auto-unlocker kept, and none  *)
(* shed before one that comes earlier in ShedOrder.                        *)
InOrder(R, D) ==
  /\ R # {}
  /\ "autounlock" \in D => "autounlock" \in R
  /\ \A i, j \in DOMAIN ShedOrder :
       /\ i < j
       /\ ShedOrder[i] \in R /\ ShedOrder[j] \in D
       => ShedOrder[j] \in R

(* There is a set for every number less than that of the daemons.          *)
LEMMA ShedSequenceLength ==
  ASSUME NEW D \in SUBSET AllDaemons
  PROVE  LET toShed == D \cap Range(ShedOrder)
         IN  (IF toShed = D THEN Cardinality(D) - 1 ELSE Cardinality(toShed)) = Cardinality(D) - 1
<1> DEFINE toShed == D \cap Range(ShedOrder)
<1>1. CASE toShed = D
  BY <1>1
<1>2. CASE toShed # D
  <2>1. D = toShed \cup {"autounlock"} /\ "autounlock" \notin toShed
    BY <1>2, ShedOrderDistinct
  <2>2. IsFiniteSet(toShed) /\ Cardinality(toShed) \in Nat
    BY DaemonsFinite DEF AllDaemons
  <2>3. Cardinality(D) = Cardinality(toShed) + 1
    <3> HIDE DEF toShed
    <3> QED BY <2>1, <2>2, FS_AddElement
  <2> HIDE DEF toShed
  <2>4. Cardinality(toShed) = Cardinality(D) - 1
    BY <2>2, <2>3
  <2> QED BY <1>2, <2>4 DEF toShed
<1> QED BY <1>1, <1>2

LEMMA ShedSequenceInOrder ==
  ASSUME NEW D \in SUBSET AllDaemons, D # {}, NEW n \in 1 .. Cardinality(D) - 1
  PROVE  ShedSequence(D)[n] \subseteq D /\ InOrder(ShedSequence(D)[n], D)
<1> DEFINE S == UpTo(12, D)
           R == ShedSequence(D)[n]
<1>0. n \in Nat /\ Cardinality(D) \in Nat /\ n < Cardinality(D)
  BY DaemonsFinite
<1>1. R = D \ {ShedOrder[i] : i \in {i \in 1 .. 12 : Cardinality(UpTo(i, D)) <= n}}
  BY ShedSequenceLength, ShedOrderDistinct DEF ShedSequence
<1>2. R = D \ {ShedOrder[i] : i \in {i \in 1 .. 12 : Rank(S, i) <= n}}
  <2>1. {i \in 1 .. 12 : Cardinality(UpTo(i, D)) <= n} = {i \in 1 .. 12 : Rank(S, i) <= n}
    BY UpToIsRank
  <2> QED BY <1>1, <2>1
<1>3. ASSUME NEW i \in 1 .. 12
      PROVE  ShedOrder[i] \in R <=> ShedOrder[i] \in D /\ ~(Rank(S, i) <= n)
  BY <1>2, ShedOrderDistinct
<1>4. /\ S \in SUBSET (1 .. 12) /\ 12 \in Nat
      /\ \A i \in 1 .. 12 : i \in S <=> ShedOrder[i] \in D
  BY DEF UpTo
<1>5. /\ \A i \in S : Rank(S, i) \in 1 .. Cardinality(S)
      /\ \A i, j \in S : i < j => Rank(S, i) < Rank(S, j)
      /\ Cardinality(S) \in Nat
  <2> HIDE DEF S
  <2> QED BY <1>4, RankProperties
<1> HIDE DEF S, R
<1>6. R \subseteq D
  BY <1>2
<1>7. "autounlock" \in D => "autounlock" \in R
  BY <1>2, ShedOrderDistinct
<1>8. ASSUME NEW i \in 1 .. 12, NEW j \in 1 .. 12, i < j,
             ShedOrder[i] \in R, ShedOrder[j] \in D
      PROVE  ShedOrder[j] \in R
  <2>1. i \in S /\ j \in S /\ ~(Rank(S, i) <= n)
    BY <1>3, <1>4, <1>6, <1>8
  <2>2. Rank(S, i) \in Nat /\ Rank(S, j) \in Nat /\ Rank(S, i) < Rank(S, j)
    BY <1>5, <1>8, <2>1
  <2>3. ~(Rank(S, j) <= n)
    BY <1>0, <2>1, <2>2
  <2> QED BY <1>3, <1>8, <2>3
<1>9. R # {}
  <2>1. CASE "autounlock" \in D
    BY <1>7, <2>1
  <2>2. CASE "autounlock" \notin D
    <3>1. Cardinality(S) = Cardinality(D)
      BY <2>2, PlacesCount DEF AllDaemons, S
    <3>2. Cardinality(S) \in 1 .. Cardinality(S)
      BY <1>0, <1>5, <3>1
    <3>3. PICK i \in S : Rank(S, i) = Cardinality(S)
      BY <1>4, <3>2, NthProperties
    <3>4. ~(Rank(S, i) <= n)
      BY <1>0, <3>1, <3>3
    <3>5. ShedOrder[i] \in R
      BY <1>3, <1>4, <3>4
    <3> QED BY <3>5
  <2> QED BY <2>1, <2>2
<1>10. InOrder(R, D)
  BY <1>7, <1>8, <1>9, ShedOrderDistinct DEF InOrder
<1> QED BY <1>6, <1>10 DEF R

-----------------------------------------------------------------------------
(* What is left of the flags are flags, and one that was among them and is *)
(* not removed by name still is.                                           *)
LEMMA RemoveFromFlagsType ==
  ASSUME NEW names, NEW flags \in Seq(Token)
  PROVE  RemoveFromFlags(names, flags) \in Seq(Token)
<1> DEFINE kept == {i \in DOMAIN flags : Kept(names, flags, i)}
           m == Len(flags)
<1>1. m \in Nat /\ kept \in SUBSET (1 .. m) /\ \A i \in kept : flags[i] \in Token
  OBVIOUS
<1>2. RemoveFromFlags(names, flags) = [n \in 1 .. Cardinality(kept) |-> flags[Nth(kept, n)]]
  BY DEF RemoveFromFlags
<1> HIDE DEF kept, m
<1>3. Cardinality(kept) \in Nat
  BY <1>1, RankProperties
<1>4. \A n \in 1 .. Cardinality(kept) : flags[Nth(kept, n)] \in Token
  BY <1>1, NthProperties
<1> QED BY <1>2, <1>3, <1>4

LEMMA FlagSurvives ==
  ASSUME NEW names, NEW given, NEW flags \in Seq(Token),
         \A name \in given : name \notin names, HasFlag(given, flags)
  PROVE  HasFlag(given, RemoveFromFlags(names, flags))
<1> DEFINE kept == {i \in DOMAIN flags : Kept(names, flags, i)}
           m == Len(flags)
           ret == RemoveFromFlags(names, flags)
<1>1. m \in Nat /\ kept \in SUBSET (1 .. m)
  OBVIOUS
<1>2. ret = [n \in 1 .. Cardinality(kept) |-> flags[Nth(kept, n)]]
  BY DEF RemoveFromFlags
<1>3. PICK i \in DOMAIN flags :
        /\ flags[i].form # "value" /\ flags[i].name \in given
        /\ flags[i].form = "flag" => i < Len(flags) /\ flags[i + 1] = Value
  BY DEF HasFlag
<1>4. i \in kept
  BY <1>3 DEF Kept
<1>5. i \in Nat /\ DOMAIN flags = 1 .. m
  OBVIOUS
<1>6. ASSUME flags[i].form = "flag"
      PROVE  i + 1 \in kept
  <2>1. i + 1 \in DOMAIN flags /\ flags[i + 1].form = "value"
    BY <1>3, <1>5, <1>6 DEF Value
  <2>2. LastFlag(flags, i + 1) = i
    <3>1. i \in 1 .. i + 1 /\ \A k \in i + 1 .. i + 1 : k = i + 1
      BY <1>5
    <3>2. ASSUME NEW j \in 1 .. i + 1, flags[j].form # "value",
                 \A k \in j + 1 .. i + 1 : flags[k].form = "value"
          PROVE  j = i
      <4>1. j # i + 1
        BY <2>1, <3>2
      <4>2. CASE j < i
        <5>1. i \in j + 1 .. i + 1
          BY <1>5, <4>2
        <5> QED BY <1>3, <3>2, <5>1
      <4> QED BY <1>5, <4>1, <4>2
    <3>3. flags[i].form # "value" /\ \A k \in i + 1 .. i + 1 : flags[k].form = "value"
      BY <1>3, <2>1, <3>1
    <3> QED BY <3>1, <3>2, <3>3 DEF LastFlag
  <2>3. Kept(names, flags, i + 1)
    BY <1>3, <1>5, <2>1, <2>2 DEF Kept
  <2> QED BY <2>1, <2>3
<1> HIDE DEF kept, m, ret
<1>7. /\ Cardinality(kept) \in Nat
      /\ \A k \in kept : Rank(kept, k) \in 1 .. Cardinality(kept) /\ Nth(kept, Rank(kept, k)) = k
      /\ \A k \in kept : k + 1 \in kept => Rank(kept, k + 1) = Rank(kept, k) + 1
  BY <1>1, RankProperties, NthProperties
<1>8. DOMAIN ret = 1 .. Cardinality(kept) /\ Len(ret) = Cardinality(kept)
  BY <1>2, <1>7
<1>9. \A k \in kept : ret[Rank(kept, k)] = flags[k]
  BY <1>2, <1>7
<1>10. ret[Rank(kept, i)] = flags[i] /\ Rank(kept, i) \in DOMAIN ret
  BY <1>4, <1>7, <1>8, <1>9
<1>11. ASSUME flags[i].form = "flag"
       PROVE  Rank(kept, i) < Len(ret) /\ ret[Rank(kept, i) + 1] = Value
  <2>1. Rank(kept, i + 1) = Rank(kept, i) + 1 /\ Rank(kept, i + 1) \in 1 .. Cardinality(kept)
    BY <1>4, <1>6, <1>7, <1>11
  <2>2. Rank(kept, i) < Cardinality(kept)
    BY <1>4, <1>7, <2>1
  <2> QED BY <1>3, <1>6, <1>8, <1>9, <1>11, <2>1, <2>2
<1> QED BY <1>3, <1>10, <1>11 DEF HasFlag, ret

LEMMA FlagBeforeMore ==
  ASSUME NEW given, NEW a \in Seq(Token), NEW b \in Seq(Token), HasFlag(given, a)
  PROVE  HasFlag(given, a \o b)
<1>1. PICK i \in DOMAIN a :
        /\ a[i].form # "value" /\ a[i].name \in given
        /\ a[i].form = "flag" => i < Len(a) /\ a[i + 1] = Value
  BY DEF HasFlag
<1>2. /\ Len(a) \in Nat /\ Len(b) \in Nat /\ i \in 1 .. Len(a)
      /\ DOMAIN (a \o b) = 1 .. Len(a) + Len(b) /\ Len(a \o b) = Len(a) + Len(b)
      /\ \A k \in 1 .. Len(a) : (a \o b)[k] = a[k]
  OBVIOUS
<1> DEFINE c == a \o b
<1> HIDE DEF c
<1>3. i \in DOMAIN c /\ c[i] = a[i] /\ Len(a) <= Len(c)
  BY <1>2 DEF c
<1>4. ASSUME a[i].form = "flag"
      PROVE  i < Len(c) /\ c[i + 1] = Value
  <2>1. i + 1 \in 1 .. Len(a)
    BY <1>1, <1>2, <1>4
  <2> QED BY <1>1, <1>2, <1>4, <2>1 DEF c
<1>5. HasFlag(given, c)
  BY <1>1, <1>3, <1>4 DEF HasFlag
<1> QED BY <1>5 DEF c

(* The supervisor's -config is the program's, too.                         *)
LEMMA OneDashHasConfig ==
  ASSUME NEW flags, HasFlag({"config"}, flags)
  PROVE  HasConfig(flags)
BY DEF HasConfig, HasFlag

-----------------------------------------------------------------------------
(* The supervisor's own command line has -config, and its launches are     *)
(* what they should be.                                                    *)
SVInv ==
  /\ TypeOK
  /\ HasConfig(CLIFlags)
  /\ ShedsInOrder
  /\ ShedKeepsConfig

LEMMA DaemonsAsked ==
  ASSUME TypeOK
  PROVE  /\ DaemonNames \in SUBSET AllDaemons /\ DaemonNames # {}
         /\ Cardinality(DaemonNames) \in Nat
<1>1. DaemonNames \in SUBSET AllDaemons /\ DaemonNames # {}
  BY SupervisorAssumption DEF TypeOK
<1> QED BY <1>1, DaemonsFinite

(* The flags of a launch.                                                  *)
LEMMA LaunchFlagsProperties ==
  ASSUME TypeOK, HasConfig(CLIFlags)
  PROVE  /\ LaunchFlags(paramChoice) \in Seq(Token)
         /\ paramChoice <= Cardinality(DaemonNames) + 1 /\ (OneDash \/ paramChoice = 0)
              => HasConfig(LaunchFlags(paramChoice))
<1> DEFINE n == paramChoice
           first == RemoveFromFlags({"supervisor"}, CLIFlags)
           second == IF n >= 1 THEN RemoveFromFlags(Name \ {"config"}, first) ELSE first
           further == IF n > Cardinality(DaemonNames) + 1 THEN CopyInto(second, CLIFlags) ELSE second
           added == <<FlagIs("supervisor"), Flag("daemons"), Value>>
<1>1. CLIFlags \in Seq(Token) /\ n \in Int /\ Cardinality(DaemonNames) \in Nat
  BY DaemonsAsked DEF TypeOK
<1>2. LaunchFlags(n) = further \o added
  BY DEF LaunchFlags
<1>3. added \in Seq(Token)
  <2>1. FlagIs("supervisor") \in Token /\ Flag("daemons") \in Token /\ Value \in Token
    BY DEF FlagIs, Flag, Value, Token, Name
  <2> QED BY <2>1
<1>4. first \in Seq(Token) /\ HasConfig(first) /\ (OneDash => HasFlag({"config"}, first))
  BY <1>1, RemoveFromFlagsType, FlagSurvives DEF HasConfig, OneDash
<1> HIDE DEF first, added
<1>5. /\ RemoveFromFlags(Name \ {"config"}, first) \in Seq(Token)
      /\ OneDash => HasFlag({"config"}, RemoveFromFlags(Name \ {"config"}, first))
  BY <1>4, RemoveFromFlagsType, FlagSurvives
<1>6. second \in Seq(Token) /\ (OneDash \/ n = 0 => HasConfig(second))
  BY <1>4, <1>5, OneDashHasConfig
<1> HIDE DEF second
<1>7. CopyInto(second, CLIFlags) \in Seq(Token)
  <2>1. \A i \in DOMAIN second : second[i] \in Token
    BY <1>6
  <2>2. \A i \in DOMAIN CLIFlags : CLIFlags[i] \in Token
    BY <1>1
  <2>3. Len(second) \in Nat /\ DOMAIN second = 1 .. Len(second)
    BY <1>6
  <2> QED BY <2>1, <2>2, <2>3 DEF CopyInto
<1>8. further \in Seq(Token)
  BY <1>6, <1>7
<1>9. n <= Cardinality(DaemonNames) + 1 => further = second
  BY <1>1
<1> HIDE DEF further
<1>10. LaunchFlags(n) \in Seq(Token)
  BY <1>2, <1>3, <1>8
<1>11. n <= Cardinality(DaemonNames) + 1 /\ (OneDash \/ n = 0) => HasConfig(LaunchFlags(n))
  BY <1>2, <1>3, <1>6, <1>9, FlagBeforeMore DEF HasConfig
<1> QED BY <1>10, <1>11

(* The daemons of a launch.                                                *)
LEMMA LaunchDaemonsProperties ==
  ASSUME TypeOK
  PROVE  /\ LaunchDaemons(paramChoice) \subseteq DaemonNames
         /\ InOrder(LaunchDaemons(paramChoice), DaemonNames)
<1> DEFINE n == paramChoice
<1>1. /\ DaemonNames \in SUBSET AllDaemons /\ DaemonNames # {}
      /\ Cardinality(DaemonNames) \in Nat /\ n \in Int
  BY DaemonsAsked DEF TypeOK
<1>2. CASE n > 1 /\ n < Cardinality(DaemonNames) + 1
  <2>1. n - 1 \in 1 .. Cardinality(DaemonNames) - 1
    BY <1>1, <1>2
  <2>2. LaunchDaemons(n) = ShedSequence(DaemonNames)[n - 1]
    BY <1>2 DEF LaunchDaemons
  <2> QED BY <1>1, <2>1, <2>2, ShedSequenceInOrder
<1>3. CASE ~(n > 1 /\ n < Cardinality(DaemonNames) + 1)
  <2>1. LaunchDaemons(n) = DaemonNames
    BY <1>3 DEF LaunchDaemons
  <2> QED BY <1>1, <2>1 DEF InOrder
<1> QED BY <1>2, <1>3

LEMMA SVInitial == Init => SVInv
<1> SUFFICES ASSUME Init PROVE SVInv
  OBVIOUS
<1>1. PICK line \in CommandLine : CLIFlags = RemoveFromFlags({"daemons"}, line)
  BY DEF Init
<1>2. line \in Seq(Token) /\ HasConfig(line)
  BY SupervisorAssumption, ConfigAssumption
<1>3. CLIFlags \in Seq(Token) /\ HasConfig(CLIFlags)
  BY <1>1, <1>2, RemoveFromFlagsType, FlagSurvives DEF HasConfig
<1>4. Cardinality(DaemonNames) \in Nat
  BY SupervisorAssumption, DaemonsFinite DEF Init
<1>5. TypeOK
  BY <1>3, <1>4, SupervisorAssumption DEF Init, TypeOK
<1>6. main # "up"
  BY DEF Init
<1> QED BY <1>3, <1>5, <1>6 DEF SVInv, ShedsInOrder, ShedKeepsConfig

(* Every step keeps the types and the command line.                        *)
LEMMA SVTypeStep ==
  ASSUME TypeOK, HasConfig(CLIFlags), [Next]_vars
  PROVE  TypeOK' /\ HasConfig(CLIFlags)'
<1> MaxMishaps \in Nat
  BY SupervisorAssumption
<1> USE DEF TypeOK
<1>1. CASE StartMain
  BY <1>1, LaunchFlagsProperties, LaunchDaemonsProperties DEF StartMain, config
<1>2. CASE StartFails \/ CrashOtherwise \/ ExitNormally
  BY <1>2 DEF StartFails, CrashOtherwise, ExitNormally, config, launch
<1>3. CASE CrashSoon \/ TimePasses
  BY <1>3 DEF CrashSoon, TimePasses, config, launch
<1>4. CASE HandleFailure
  <2>1. NextChoice(paramChoice) \in 0 .. Cardinality(DaemonNames) + 2
    BY DaemonsAsked DEF NextChoice
  <2>2. paramChoice' \in 0 .. Cardinality(DaemonNames) + 2
    BY <1>4, <2>1 DEF HandleFailure
  <2> QED BY <1>4, <2>2 DEF HandleFailure, config, launch
<1>5. CASE UNCHANGED vars
  BY <1>5 DEF vars, config, launch
<1> QED BY <1>1, <1>2, <1>3, <1>4, <1>5 DEF Next

(* The launch stands as long as the program is up.                         *)
LEMMA SVStep == SVInv /\ [Next]_vars => SVInv'
<1> SUFFICES ASSUME SVInv, [Next]_vars
             PROVE  SVInv'
  OBVIOUS
<1>0. TypeOK /\ HasConfig(CLIFlags) /\ ShedsInOrder /\ ShedKeepsConfig
  BY DEF SVInv
<1>1. TypeOK' /\ HasConfig(CLIFlags)'
  BY <1>0, SVTypeStep
<1>2. CASE StartMain
  <2>1. InOrder(running', DaemonNames) /\ UNCHANGED <<DaemonNames, CLIFlags, paramChoice>>
    BY <1>0, <1>2, LaunchDaemonsProperties DEF StartMain, config
  <2>2. ShedsInOrder'
    BY <2>1 DEF ShedsInOrder, InOrder
  <2>3. ShedKeepsConfig'
    BY <1>0, <1>2, <2>1, LaunchFlagsProperties DEF ShedKeepsConfig, OneDash, StartMain
  <2> QED BY <1>1, <2>2, <2>3 DEF SVInv
<1>3. CASE main' # "up"
  BY <1>1, <1>3 DEF SVInv, ShedsInOrder, ShedKeepsConfig
<1>4. CASE TimePasses \/ UNCHANGED vars
  BY <1>0, <1>1, <1>4
     DEF TimePasses, vars, config, launch, SVInv, ShedsInOrder, ShedKeepsConfig, HasConfig,
         HasFlag, OneDash
<1>5. CASE StartFails \/ CrashSoon \/ CrashOtherwise \/ ExitNormally \/ HandleFailure
  BY <1>3, <1>5 DEF StartFails, CrashSoon, CrashOtherwise, ExitNormally, HandleFailure
<1> QED BY <1>2, <1>4, <1>5 DEF Next

(* A launch has the daemons that were asked for except the first few in    *)
(* ShedOrder, at least one of them, and keeps the -config flag (with one   *)
(* dash), whatever the command line, the daemons and the course of         *)
(* failures.                                                               *)
THEOREM ShedsAlwaysInOrder == Spec => []SheddingInOrder
<1>1. SVInv => SheddingInOrder
  BY DEF SVInv, SheddingInOrder
<1> QED BY <1>1, SVInitial, SVStep, PTL DEF Spec
================================================================================
