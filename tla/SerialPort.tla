------------------------------ MODULE SerialPort ------------------------------
(***************************************************************************)
(* The serial port daemon (daemon/serialport).  The loop of StartAndBlock  *)
(* looks for devices; each new device gets a conversation of two           *)
(* goroutines: one that reads commands and writes answers, and one that    *)
(* waits for a signal to close the device.  The signals, of the reader and *)
(* of Stop, go through a channel that holds two.                           *)
(***************************************************************************)
EXTENDS Naturals, FiniteSets

CONSTANTS
  Devices,
  Conversations     \* bound of the model: numbers of conversations

ASSUME SPAssumption == Conversations \subseteq Nat \ {0}

VARIABLES
  conv,             \* conversation -> its device, its goroutines and its channel
  connected,        \* device -> the conversation in connectedDevices, 0 if none
  scan,             \* where the loop of StartAndBlock is
  loopRuns,         \* loopIsRunning
  stopper,          \* where the caller of Stop is
  toStop,           \* the devices whose channel Stop has still to signal
  spLocked          \* misc.EmergencyLockDown

spVars == <<conv, connected, scan, loopRuns, stopper, toStop, spLocked>>

NoConv == [dev |-> "none", main |-> "none", reader |-> "none", sig |-> 0, open |-> FALSE]

SPInit ==
  /\ conv = [g \in Conversations |-> NoConv]
  /\ connected = [d \in Devices |-> 0]
  /\ scan = "off" /\ loopRuns = FALSE
  /\ stopper = "idle" /\ toStop = {}
  /\ spLocked = FALSE

SPStart ==
  /\ scan = "off"
  /\ scan' = "scan" /\ loopRuns' = TRUE
  /\ UNCHANGED <<conv, connected, stopper, toStop, spLocked>>

(* connectToDevices, which holds the mutex: one new conversation for each  *)
(* device that is plugged in and not connected; one device per step.       *)
ConnectToDevice(d) ==
  /\ scan = "scan" /\ ~spLocked /\ connected[d] = 0
  /\ \E g \in Conversations :
       /\ conv[g] = NoConv /\ \A k \in Conversations : k < g => conv[k] # NoConv
       /\ conv' = [conv EXCEPT ![g].dev = d, ![g].main = "open"]
       /\ connected' = [connected EXCEPT ![d] = g]
  /\ UNCHANGED <<scan, loopRuns, stopper, toStop, spLocked>>

(* The end of a scan: the loop sleeps, scans again, or ends on lock-down.  *)
ScanEnds ==
  /\ \/ scan = "scan" /\ ~spLocked /\ scan' = "sleep" /\ UNCHANGED loopRuns
     \/ scan = "sleep" /\ scan' = "scan" /\ UNCHANGED loopRuns
     \/ scan = "scan" /\ spLocked /\ scan' = "ended" /\ loopRuns' = FALSE
     \/ scan = "stopped" /\ scan' = "ended" /\ loopRuns' = FALSE
  /\ UNCHANGED <<conv, connected, stopper, toStop, spLocked>>

-----------------------------------------------------------------------------
(* converseWithDevice.  The device is opened, and a reader started.        *)
OpenDevice(g) ==
  /\ conv[g].main = "open"
  /\ \/ conv' = [conv EXCEPT ![g].main = "wait", ![g].reader = "read", ![g].open = TRUE]
     \/ conv' = [conv EXCEPT ![g].main = "remove"]
  /\ UNCHANGED <<connected, scan, loopRuns, stopper, toStop, spLocked>>

(* The reader: a command that is refused by the rate limit or empty is     *)
(* dropped; lock-down, a failed read and a failed write end the reader.    *)
ReadCommand(g) ==
  /\ conv[g].reader = "read"
  /\ \/ spLocked /\ conv' = [conv EXCEPT ![g].reader = "signal"]
     \/ conv' = [conv EXCEPT ![g].reader = "signal"]
     \/ ~spLocked /\ conv[g].open /\ conv' = [conv EXCEPT ![g].reader = "run"]
  /\ UNCHANGED <<connected, scan, loopRuns, stopper, toStop, spLocked>>
ProcessAndWrite(g) ==
  /\ conv[g].reader = "run"
  /\ \/ conv' = [conv EXCEPT ![g].reader = "signal"]
     \/ conv[g].open /\ conv' = [conv EXCEPT ![g].reader = "read"]
  /\ UNCHANGED <<connected, scan, loopRuns, stopper, toStop, spLocked>>

SignalAndGoOn(g) ==
  /\ conv[g].reader = "signal" /\ conv[g].sig < 2
  /\ conv' = [conv EXCEPT ![g].reader = "read", ![g].sig = @ + 1]
  /\ UNCHANGED <<connected, scan, loopRuns, stopper, toStop, spLocked>>

(* stopChan <- true, and the reader returns.                               *)
ReaderSignals(g) ==
  /\ conv[g].reader = "signal" /\ conv[g].sig < 2
  /\ conv' = [conv EXCEPT ![g].reader = "none", ![g].sig = @ + 1]
  /\ UNCHANGED <<connected, scan, loopRuns, stopper, toStop, spLocked>>

CloseAfterReader(g) ==
  /\ conv[g].main = "wait" /\ conv[g].reader = "none"
  /\ conv' = [conv EXCEPT ![g].main = "remove", ![g].open = FALSE]
  /\ UNCHANGED <<connected, scan, loopRuns, stopper, toStop, spLocked>>

(* <-stopChan, then what is deferred: the device is closed, and after that *)
(* it is removed from the map.                                             *)
CloseDevice(g) ==
  /\ conv[g].main = "wait" /\ conv[g].sig > 0
  /\ conv' = [conv EXCEPT ![g].main = "remove", ![g].sig = @ - 1, ![g].open = FALSE]
  /\ UNCHANGED <<connected, scan, loopRuns, stopper, toStop, spLocked>>
RemoveDevice(g) ==
  /\ conv[g].main = "remove"
  /\ conv' = [conv EXCEPT ![g].main = "none"]
  /\ connected' = [connected EXCEPT ![conv[g].dev] = 0]
  /\ UNCHANGED <<scan, loopRuns, stopper, toStop, spLocked>>

(* A conversation of which nothing is left makes room for another.         *)
Forget(g) ==
  /\ conv[g] # NoConv /\ conv[g].main = "none" /\ conv[g].reader = "none"
  /\ conv' = [conv EXCEPT ![g] = NoConv]
  /\ UNCHANGED <<connected, scan, loopRuns, stopper, toStop, spLocked>>

-----------------------------------------------------------------------------
(* Stop: the loop takes the first signal while it sleeps, then every       *)
(* connected device is signalled.  The map is read without the mutex; a    *)
(* device that leaves it during the iteration may or may not be visited.   *)
StopBegins ==
  /\ stopper = "idle" /\ loopRuns
  /\ stopper' = "loop"
  /\ UNCHANGED <<conv, connected, scan, loopRuns, toStop, spLocked>>
StopsLoop ==
  /\ stopper = "loop" /\ scan = "sleep"
  /\ scan' = "stopped" /\ stopper' = "devices"
  /\ toStop' = {d \in Devices : connected[d] # 0}
  /\ UNCHANGED <<conv, connected, loopRuns, spLocked>>
StopsDevice(d) ==
  /\ stopper = "devices" /\ d \in toStop
  /\ \/ /\ connected[d] # 0 /\ conv[connected[d]].sig < 2
        /\ conv' = [conv EXCEPT ![connected[d]].sig = @ + 1]
     \/ connected[d] = 0 /\ UNCHANGED conv
  /\ toStop' = toStop \ {d}
  /\ UNCHANGED <<connected, scan, loopRuns, stopper, spLocked>>
(* The iteration is caught by a conversation that leaves the map: Go ends  *)
(* the program, and the devices are closed with it.                        *)
FatalMapError(g) ==
  /\ stopper = "devices" /\ conv[g].main = "remove"
  /\ conv' = [h \in Conversations |-> NoConv]
  /\ connected' = [d \in Devices |-> 0]
  /\ scan' = "ended" /\ loopRuns' = FALSE
  /\ stopper' = "crashed" /\ toStop' = {}
  /\ UNCHANGED spLocked
StopReturnsHere ==
  /\ stopper = "devices" /\ toStop = {}
  /\ stopper' = "returned"
  /\ UNCHANGED <<conv, connected, scan, loopRuns, toStop, spLocked>>

SPLockDown ==
  /\ ~spLocked /\ spLocked' = TRUE
  /\ UNCHANGED <<conv, connected, scan, loopRuns, stopper, toStop>>

ConvStep(g) == OpenDevice(g) \/ ReaderSignals(g) \/ CloseDevice(g) \/ RemoveDevice(g)

SPNext ==
  \/ SPStart \/ ScanEnds \/ StopBegins \/ StopsLoop \/ StopReturnsHere \/ SPLockDown
  \/ \E d \in Devices : ConnectToDevice(d) \/ StopsDevice(d)
  \/ \E g \in Conversations : ConvStep(g) \/ ReadCommand(g) \/ ProcessAndWrite(g) \/ Forget(g)
                               \/ FatalMapError(g)

SPSpec == SPInit /\ [][SPNext]_spVars

(* Goroutines that can run do; a device may be silent for ever.            *)
SPFairness ==
  /\ \A g \in Conversations : WF_spVars(ConvStep(g))
  /\ \A d \in Devices : WF_spVars(StopsDevice(d))

-----------------------------------------------------------------------------
(* One goroutine at a time reads commands from a device, over failures and *)
(* reconnections: two of them would tear each other's commands apart       *)
(* (connectedDevices in connectToDevices and converseWithDevice).          *)
OneReaderPerDevice ==
  \A g, h \in Conversations :
    g # h /\ conv[g].reader # "none" /\ conv[h].reader # "none" => conv[g].dev # conv[h].dev

(* Once Stop has stopped the loop, it signals every device without getting *)
(* stuck on a full channel, and all devices end up disconnected, also      *)
(* those that say nothing, unless the program ends over the map that Stop  *)
(* reads without the mutex (Stop, converseWithDevice).                     *)
StopDisconnects ==
  (stopper = "devices") ~>
    (stopper = "crashed" \/ [](toStop = {} /\ \A d \in Devices : connected[d] = 0))
===============================================================================
