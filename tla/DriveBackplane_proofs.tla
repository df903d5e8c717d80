------------------------ MODULE DriveBackplane_proofs ------------------------
(***************************************************************************)
(* Proofs about DriveBackplane for every number of bays, every set of      *)
(* serial numbers, with and without failing calls.                         *)
(***************************************************************************)
EXTENDS DriveBackplane, TLAPS

(* The D-Bus calls of a drive's plug() and of its unplug().                *)
PlugCalls == {"fetch", "addI2C", "addVINI", "markPresent"}
UnplugCalls == {"markAbsent", "removeVINI", "removeI2C"}

(* Which sink and which bay each call is made for.                         *)
Control ==
    /\ at \in {"off", "idle"} => sink = NoSink /\ cur = 0
    /\ at = "off" => interest = {} /\ poller = {}
    /\ at = "start" => sink = Backplane
    /\ at \in {"stop", "release"} => sink \in {Backplane, NoSink}
    /\ at \in PlugCalls => cur \in Drives /\ sink = cur
    /\ at \in UnplugCalls => cur \in Drives /\ sink \in {cur, Backplane}
    /\ at \in {"addI2C", "addVINI"} => metadata \in Serials

(* Which pollers exist.  While the backplane is watched and not populated  *)
(* none does, so the device that Connector::ctor replaces has none; this   *)
(* needs run() to disable the backplane's sink after a plug() that threw.  *)
Pollers ==
    /\ NoDanglingSink
    /\ (Looping /\ sink # Backplane /\ Backplane \in interest
          /\ bconn # "populated") => poller = {}
    /\ (sink = Backplane /\ at = "stop") => \A d \in poller : d >= cur
    /\ (sink = Backplane /\ at \in UnplugCalls) => \A d \in poller : d > cur
    /\ (sink = Backplane /\ at = "release") => poller = {}

(* What the connectors stand for.  A bay at work is described call by      *)
(* call; every other watched bay is Published or Withdrawn.                *)
Busy(d) == at \in PlugCalls \cup UnplugCalls /\ cur = d

Matches(d) == /\ conn[d] = "populated" => Published(d) /\ haveEndpoint[d]
              /\ conn[d] = "depopulated" => Withdrawn(d)

Contents ==
    /\ Looping => \A d \in interest \cap Drives : Busy(d) \/ Matches(d)
    /\ at = "start" => conn = Fresh("uninitialised")
    /\ at \in PlugCalls => haveEndpoint[cur]
    /\ at \in {"addVINI", "markPresent"} => i2c[cur]
    /\ at = "markPresent" => vini[cur] \in Serials
    /\ at \in {"removeVINI", "removeI2C"} => ~present[cur]
    /\ at = "removeI2C" => vini[cur] = Blank

Inductive == TypeOK /\ Control /\ Pollers /\ Contents

(* The sets of values the steps write stay within the declared ones.       *)
LEMMA SinksFacts ==
    /\ Drives \subseteq Sinks /\ Backplane \in Sinks
    /\ Backplane \notin Drives /\ NoSink \notin Sinks
    /\ \A c \in Drives : c + 1 \in 0 .. NumDrives
    /\ \A c \in Drives : c \in 0 .. NumDrives
    /\ 0 \in 0 .. NumDrives
    /\ \A c \in 0 .. NumDrives : c # NumDrives => c \in Drives
BY NumDrivesAssumption DEF Drives, Sinks, Backplane, NoSink

USE DEF hardware, inventory, connectors, process, vars

------------------------------------------------------------------------------
(* The ways a handler goes on keep the types of the process.               *)

LEMMA HaltType == Halt => (ProcessType /\ Control)'
BY SinksFacts DEF Halt, ProcessType, Control, PlugCalls, UnplugCalls, Calls,
                  ConnectorState, Fresh

LEMMA UnwindType ==
    ASSUME NEW registered \in SUBSET Sinks, ProcessType, Unwind(registered)
    PROVE  (ProcessType /\ Control)'
BY SinksFacts, HaltType DEF Unwind, Return, ProcessType, Control, PlugCalls,
                            UnplugCalls, Calls

LEMMA ProceedType ==
    ASSUME NEW call \in Calls, ProcessType, Proceed(call)
    PROVE  ProcessType'
BY DEF Proceed, ProcessType

LEMMA SettleType ==
    ASSUME NEW state \in ConnectorState, ProcessType, Settle(state),
           cur \in Drives
    PROVE  (ProcessType /\ Control)'
BY SinksFacts DEF Settle, Return, ProcessType, Control, PlugCalls,
                  UnplugCalls, Calls

(* TypeOK and Control are preserved together by every step.                *)
LEMMA TypeStep == TypeOK /\ Control /\ [Next]_vars => (TypeOK /\ Control)'
<1> SUFFICES ASSUME TypeOK, Control, [Next]_vars
             PROVE  (TypeOK /\ Control)'
    OBVIOUS
<1>h. HardwareType /\ InventoryType /\ ProcessType
    BY DEF TypeOK
<1>1. CASE Boot
    BY <1>1, <1>h, SinksFacts
    DEF Boot, TypeOK, HardwareType, InventoryType, ProcessType, Control,
        PlugCalls, UnplugCalls, Calls
<1>2. CASE Exit
    <2>1. (HardwareType /\ InventoryType)'
        BY <1>2, <1>h DEF Exit, HardwareType, InventoryType
    <2>2. (ProcessType /\ Control)'
        BY <1>2, <1>h, SinksFacts, HaltType
        DEF Exit, ProcessType, Control, PlugCalls, UnplugCalls, Calls,
            ConnectorState, Fresh
    <2> QED BY <2>1, <2>2 DEF TypeOK
<1>3. CASE Crash
    <2>1. (HardwareType /\ InventoryType)'
        BY <1>3, <1>h DEF Crash, HardwareType, InventoryType
    <2> QED BY <1>3, <2>1, HaltType DEF TypeOK, Crash
<1>4. ASSUME NEW s \in Sinks, Notify(s) PROVE (TypeOK /\ Control)'
    <2> USE SinksFacts DEF TypeOK, HardwareType, InventoryType, ProcessType,
            Control, PlugCalls, UnplugCalls, Calls
    <2>1. CASE PlugBackplane
        BY <2>1, <1>h DEF PlugBackplane, ConnectorState, ChipState, Fresh
    <2>2. CASE UnplugBackplane
        BY <2>2, <1>h DEF UnplugBackplane, ConnectorState, Fresh
    <2>3. CASE s \in Drives /\ NotifyDrive(s)
        BY <2>3, <1>h DEF NotifyDrive, Poll
    <2>4. CASE PollFails(s)
        BY <2>4, <1>h DEF PollFails
    <2> QED BY <1>4, <2>1, <2>2, <2>3, <2>4 DEF Notify
<1>5. CASE Handler
    <2>1. CASE StartDrive
        <3>1. (HardwareType /\ InventoryType)'
            BY <2>1, <1>h DEF StartDrive, HardwareType, InventoryType
        <3>2. cur \in Drives /\ cur + 1 \in 0 .. NumDrives /\ cur \in Sinks
            BY <2>1, SinksFacts DEF StartDrive
        <3>3. (ProcessType /\ Control)'
            BY <2>1, <1>h, <3>2, SinksFacts
            DEF StartDrive, Return, ProcessType, Control, PlugCalls,
                UnplugCalls, Calls
        <3> QED BY <3>1, <3>3 DEF TypeOK
    <2>2. CASE BackplanePlugged
        BY <2>2, <1>h, SinksFacts
        DEF BackplanePlugged, Return, TypeOK, HardwareType, InventoryType,
            ProcessType, Control, PlugCalls, UnplugCalls, Calls, ConnectorState
    <2>3. CASE Fetch
        <3>1. (HardwareType /\ InventoryType)'
            BY <2>3, <1>h DEF Fetch, HardwareType, InventoryType
        <3>2. CASE Responsive(cur)
            BY <2>3, <1>h, <3>1, <3>2, SinksFacts
            DEF Fetch, Responsive, TypeOK, HardwareType, ProcessType, Control,
                PlugCalls, UnplugCalls, Calls
        <3>3. CASE ~Responsive(cur)
            BY <2>3, <1>h, <3>1, <3>3, UnwindType DEF Fetch, TypeOK, ProcessType
        <3> QED BY <3>2, <3>3
    <2>4. CASE AddI2C
        <3>1. (HardwareType /\ InventoryType)'
            BY <2>4, <1>h DEF AddI2C, HardwareType, InventoryType
        <3>2. CASE Proceed("addVINI")
            BY <2>4, <1>h, <3>1, <3>2, ProceedType
            DEF AddI2C, Proceed, TypeOK, Control, PlugCalls, UnplugCalls, Calls
        <3>3. CASE Unwind(interest)
            BY <3>1, <3>3, <1>h, UnwindType DEF TypeOK, ProcessType
        <3> QED BY <2>4, <3>2, <3>3 DEF AddI2C
    <2>5. CASE AddVINI
        <3>1. (HardwareType /\ InventoryType)'
            BY <2>5, <1>h
            DEF AddVINI, HardwareType, InventoryType, Control
        <3>2. CASE Proceed("markPresent")
            BY <2>5, <1>h, <3>1, <3>2, ProceedType
            DEF AddVINI, Proceed, TypeOK, Control, PlugCalls, UnplugCalls, Calls
        <3>3. CASE Unwind(interest)
            BY <3>1, <3>3, <1>h, UnwindType DEF TypeOK, ProcessType
        <3> QED BY <2>5, <3>2, <3>3 DEF AddVINI
    <2>6. CASE MarkPresent
        <3>1. (HardwareType /\ InventoryType)'
            BY <2>6, <1>h DEF MarkPresent, HardwareType, InventoryType
        <3>2. CASE Settle("populated")
            BY <2>6, <1>h, <3>1, <3>2, SettleType
            DEF MarkPresent, TypeOK, Control, PlugCalls, ConnectorState
        <3>3. CASE Unwind(interest)
            BY <3>1, <3>3, <1>h, UnwindType DEF TypeOK, ProcessType
        <3> QED BY <2>6, <3>2, <3>3 DEF MarkPresent
    <2>7. CASE MarkAbsent
        <3>1. (HardwareType /\ InventoryType)'
            BY <2>7, <1>h DEF MarkAbsent, HardwareType, InventoryType
        <3>2. CASE Proceed("removeVINI")
            BY <2>7, <1>h, <3>1, <3>2, ProceedType
            DEF MarkAbsent, Proceed, TypeOK, Control, PlugCalls, UnplugCalls,
                Calls
        <3>3. CASE Unwind(interest)
            BY <3>1, <3>3, <1>h, UnwindType DEF TypeOK, ProcessType
        <3> QED BY <2>7, <3>2, <3>3 DEF MarkAbsent
    <2>8. CASE RemoveVINI
        <3>1. (HardwareType /\ InventoryType)'
            BY <2>8, <1>h DEF RemoveVINI, HardwareType, InventoryType
        <3>2. CASE Proceed("removeI2C")
            BY <2>8, <1>h, <3>1, <3>2, ProceedType
            DEF RemoveVINI, Proceed, TypeOK, Control, PlugCalls, UnplugCalls,
                Calls
        <3>3. CASE Unwind(interest)
            BY <3>1, <3>3, <1>h, UnwindType DEF TypeOK, ProcessType
        <3> QED BY <2>8, <3>2, <3>3 DEF RemoveVINI
    <2>9. CASE RemoveI2C
        <3>1. (HardwareType /\ InventoryType)'
            BY <2>9, <1>h DEF RemoveI2C, HardwareType, InventoryType
        <3>2. CASE Settle("depopulated")
            BY <2>9, <1>h, <3>1, <3>2, SettleType
            DEF RemoveI2C, TypeOK, Control, UnplugCalls, ConnectorState
        <3>3. CASE Unwind(interest)
            BY <3>1, <3>3, <1>h, UnwindType DEF TypeOK, ProcessType
        <3> QED BY <2>9, <3>2, <3>3 DEF RemoveI2C
    <2>10. CASE StopDrive
        <3>1. cur \in Drives /\ cur + 1 \in 0 .. NumDrives
            BY <2>10, SinksFacts DEF StopDrive
        <3>2. (HardwareType /\ InventoryType)'
            BY <2>10, <1>h DEF StopDrive, HardwareType, InventoryType
        <3>3. (ProcessType /\ Control)'
            BY <2>10, <1>h, <3>1
            DEF StopDrive, RemovesInventory, ProcessType, Control, PlugCalls,
                UnplugCalls, Calls, ConnectorState
        <3> QED BY <3>2, <3>3 DEF TypeOK
    <2>11. CASE DrivesStopped
        BY <2>11, <1>h
        DEF DrivesStopped, TypeOK, HardwareType, InventoryType, ProcessType,
            Control, PlugCalls, UnplugCalls, Calls
    <2>12. CASE Release
        <3>1. (HardwareType /\ InventoryType)'
            BY <2>12, <1>h, FlagsAssumption
            DEF Release, HardwareType, InventoryType, ChipState
        <3>2. (ProcessType /\ Control)'
            BY <2>12, <1>h, SinksFacts, HaltType
            DEF Release, Return, ProcessType, Control, PlugCalls, UnplugCalls,
                Calls, ConnectorState, Fresh
        <3> QED BY <3>1, <3>2 DEF TypeOK
    <2>13. CASE CallFails
        BY <2>13, <1>h, UnwindType
        DEF CallFails, TypeOK, HardwareType, InventoryType, ProcessType
    <2> QED BY <1>5, <2>1, <2>2, <2>3, <2>4, <2>5, <2>6, <2>7, <2>8, <2>9,
               <2>10, <2>11, <2>12, <2>13 DEF Handler
<1>6. CASE Environment
    <2>1. HardwareType'
        BY <1>6, <1>h
        DEF Environment, Insert, Pull, SwitchHost, SwapBackplane, HardwareType
    <2>2. UNCHANGED <<chip, inventory, process>>
        BY <1>6 DEF Environment, Insert, Pull, SwitchHost, SwapBackplane
    <2>3. (InventoryType /\ ProcessType /\ Control)'
        BY <2>2, <1>h DEF InventoryType, ProcessType, Control
    <2> QED BY <2>1, <2>3 DEF TypeOK
<1>7. CASE UNCHANGED vars
    BY <1>7, <1>h
    DEF TypeOK, HardwareType, InventoryType, ProcessType, Control
<1> QED BY <1>1, <1>2, <1>3, <1>4, <1>5, <1>6, <1>7 DEF Next
------------------------------------------------------------------------------
(* Pollers is preserved by every step.                                     *)
LEMMA PollersStep == TypeOK /\ Control /\ Pollers /\ [Next]_vars => Pollers'
<1> SUFFICES ASSUME TypeOK, Control, Pollers, [Next]_vars
             PROVE  Pollers'
    OBVIOUS
<1> USE SinksFacts DEF TypeOK, ProcessType, Control, Pollers, NoDanglingSink, Looping,
        PlugCalls, UnplugCalls, Calls
<1>1. CASE Boot
    BY <1>1 DEF Boot
<1>2. CASE Exit
    BY <1>2 DEF Exit, Halt
<1>3. CASE Crash
    BY <1>3 DEF Crash, Halt
<1>4. ASSUME NEW s \in Sinks, Notify(s) PROVE Pollers'
    <2>1. CASE PlugBackplane
        BY <2>1 DEF PlugBackplane
    <2>2. CASE UnplugBackplane
        BY <2>2 DEF UnplugBackplane
    <2>3. CASE s \in Drives /\ NotifyDrive(s)
        BY <2>3 DEF NotifyDrive, Poll
    <2>4. CASE PollFails(s)
        BY <2>4 DEF PollFails
    <2> QED BY <1>4, <2>1, <2>2, <2>3, <2>4 DEF Notify
<1>5. CASE Handler
    <2>1. CASE StartDrive
        BY <2>1 DEF StartDrive, Return
    <2>2. CASE BackplanePlugged
        BY <2>2 DEF BackplanePlugged, Return
    <2>3. CASE Fetch
        BY <2>3 DEF Fetch, Unwind, Return, Halt
    <2>4. CASE AddI2C
        BY <2>4 DEF AddI2C, Proceed, Unwind, Return, Halt
    <2>5. CASE AddVINI
        BY <2>5 DEF AddVINI, Proceed, Unwind, Return, Halt
    <2>6. CASE MarkPresent
        BY <2>6 DEF MarkPresent, Settle, Unwind, Return, Halt
    <2>7. CASE MarkAbsent
        BY <2>7 DEF MarkAbsent, Proceed, Unwind, Return, Halt
    <2>8. CASE RemoveVINI
        BY <2>8 DEF RemoveVINI, Proceed, Unwind, Return, Halt
    <2>9. CASE RemoveI2C
        <3>1. \A d \in Drives : d > cur => d >= cur + 1
            BY NumDrivesAssumption DEF Drives
        <3>2. CASE Settle("depopulated") /\ sink = Backplane
            BY <2>9, <3>1, <3>2 DEF RemoveI2C, Settle
        <3>3. CASE Settle("depopulated") /\ sink # Backplane
            BY <2>9, <3>3 DEF RemoveI2C, Settle, Return
        <3>4. CASE Unwind(interest)
            BY <2>9, <3>4 DEF RemoveI2C, Unwind, Return, Halt
        <3> QED BY <2>9, <3>2, <3>3, <3>4 DEF RemoveI2C
    <2>10. CASE StopDrive
        BY <2>10 DEF StopDrive, RemovesInventory
    <2>11. CASE DrivesStopped
        BY <2>11 DEF DrivesStopped
    <2>12. CASE Release
        BY <2>12 DEF Release, Return, Halt
    <2>13. CASE CallFails
        BY <2>13 DEF CallFails, Unwind, Return, Halt
    <2> QED BY <1>5, <2>1, <2>2, <2>3, <2>4, <2>5, <2>6, <2>7, <2>8, <2>9,
               <2>10, <2>11, <2>12, <2>13 DEF Handler
<1>6. CASE Environment
    BY <1>6 DEF Environment, Insert, Pull, SwitchHost, SwapBackplane
<1>7. CASE UNCHANGED vars
    BY <1>7
<1> QED BY <1>1, <1>2, <1>3, <1>4, <1>5, <1>6, <1>7 DEF Next

(* Contents is preserved by every step.                                    *)
LEMMA ContentsStep == TypeOK /\ Control /\ Pollers /\ Contents /\ [Next]_vars => Contents'
<1> SUFFICES ASSUME TypeOK, Control, Pollers, Contents, [Next]_vars
             PROVE  Contents'
    OBVIOUS
<1> USE SinksFacts DEF TypeOK, InventoryType, ProcessType, Control, Pollers, NoDanglingSink,
        Looping, Contents, Busy, Matches, Published, Withdrawn, Fresh,
        PlugCalls, UnplugCalls, Calls, ConnectorState
<1>1. CASE Boot
    BY <1>1 DEF Boot
<1>2. CASE Exit
    BY <1>2 DEF Exit, Halt
<1>3. CASE Crash
    BY <1>3 DEF Crash, Halt
<1>4. ASSUME NEW s \in Sinks, Notify(s) PROVE Contents'
    <2>1. CASE PlugBackplane
        BY <2>1 DEF PlugBackplane
    <2>2. CASE UnplugBackplane
        BY <2>2 DEF UnplugBackplane
    <2>3. CASE s \in Drives /\ NotifyDrive(s)
        BY <2>3 DEF NotifyDrive, Poll
    <2>4. CASE PollFails(s)
        BY <2>4 DEF PollFails
    <2> QED BY <1>4, <2>1, <2>2, <2>3, <2>4 DEF Notify
<1>5. CASE Handler
    <2>1. CASE StartDrive
        BY <2>1 DEF StartDrive, Return
    <2>2. CASE BackplanePlugged
        BY <2>2 DEF BackplanePlugged, Return
    <2>3. CASE Fetch
        BY <2>3 DEF Fetch, Unwind, Return, Halt
    <2>4. CASE AddI2C
        BY <2>4 DEF AddI2C, Proceed, Unwind, Return, Halt
    <2>5. CASE AddVINI
        BY <2>5 DEF AddVINI, Proceed, Unwind, Return, Halt
    <2>6. CASE MarkPresent
        BY <2>6 DEF MarkPresent, Settle, Unwind, Return, Halt
    <2>7. CASE MarkAbsent
        BY <2>7 DEF MarkAbsent, Proceed, Unwind, Return, Halt
    <2>8. CASE RemoveVINI
        BY <2>8 DEF RemoveVINI, Proceed, Unwind, Return, Halt
    <2>9. CASE RemoveI2C
        BY <2>9 DEF RemoveI2C, Settle, Unwind, Return, Halt
    <2>10. CASE StopDrive
        BY <2>10 DEF StopDrive, RemovesInventory
    <2>11. CASE DrivesStopped
        BY <2>11 DEF DrivesStopped
    <2>12. CASE Release
        BY <2>12 DEF Release, Return, Halt
    <2>13. CASE CallFails
        BY <2>13 DEF CallFails, Unwind, Return, Halt
    <2> QED BY <1>5, <2>1, <2>2, <2>3, <2>4, <2>5, <2>6, <2>7, <2>8, <2>9,
               <2>10, <2>11, <2>12, <2>13 DEF Handler
<1>6. CASE Environment
    BY <1>6 DEF Environment, Insert, Pull, SwitchHost, SwapBackplane
<1>7. CASE UNCHANGED vars
    BY <1>7
<1> QED BY <1>1, <1>2, <1>3, <1>4, <1>5, <1>6, <1>7 DEF Next

------------------------------------------------------------------------------
(* The inductive invariant holds of every behaviour.                       *)
LEMMA InductiveInvariant == Spec => []Inductive
<1>1. Init => Inductive
    BY SinksFacts
    DEF Init, Inductive, TypeOK, HardwareType, ChipState, InventoryType, ProcessType,
        Control, Pollers, NoDanglingSink, Looping, Contents, Fresh, PlugCalls,
        UnplugCalls, Calls, ConnectorState
<1>2. Inductive /\ [Next]_vars => Inductive'
    BY TypeStep, PollersStep, ContentsStep DEF Inductive
<1> QED BY <1>1, <1>2, PTL DEF Spec

(* Every variable keeps its type, in particular no handler walks off the   *)
(* bays and every serial number published is one a drive reported.         *)
THEOREM TypeCorrect == Spec => []TypeOK
<1>1. Inductive => TypeOK
    BY DEF Inductive
<1> QED BY <1>1, InductiveInvariant, PTL

(* epoll never hands Notifier::run() a sink that has been destroyed.       *)
THEOREM NoDanglingSinkHolds == Spec => []NoDanglingSink
<1>1. Inductive => NoDanglingSink
    BY DEF Inductive, Pollers
<1> QED BY <1>1, InductiveInvariant, PTL

(* Between callbacks a watched bay is published or withdrawn as its        *)
(* connector says, whatever failed before.                                 *)
THEOREM WatchedDriveMatchesHolds == Spec => []WatchedDriveMatches
<1>1. Inductive => WatchedDriveMatches
    BY DEF Inductive, Contents, Matches, Busy, WatchedDriveMatches, Looping,
           PlugCalls, UnplugCalls
<1> QED BY <1>1, InductiveInvariant, PTL

(* Neither starting nor leaving touches the inventory.                     *)
THEOREM ExitLeavesInventoryHolds == Spec => ExitLeavesInventory
<1>1. Inductive /\ [Next]_vars => [sink = NoSink => UNCHANGED inventory]_vars
    <2> SUFFICES ASSUME Inductive, Next, sink = NoSink
                 PROVE  UNCHANGED inventory
        OBVIOUS
    <2>1. at \notin PlugCalls \cup UnplugCalls
        BY SinksFacts DEF Inductive, Control
    <2>2. CASE Boot \/ Exit \/ Crash
        BY <2>2 DEF Boot, Exit, Crash
    <2>3. ASSUME NEW s \in Sinks, Notify(s) PROVE UNCHANGED inventory
        BY <2>3 DEF Notify, PlugBackplane, UnplugBackplane, NotifyDrive,
                    PollFails
    <2>4. CASE Handler
        BY <2>1, <2>4
        DEF Handler, StartDrive, BackplanePlugged, Fetch, AddI2C, AddVINI,
            MarkPresent, MarkAbsent, RemoveVINI, RemoveI2C, StopDrive,
            DrivesStopped, Release, CallFails, PlugCalls, UnplugCalls
    <2>5. CASE Environment
        BY <2>5 DEF Environment, Insert, Pull, SwitchHost, SwapBackplane
    <2> QED BY <2>2, <2>3, <2>4, <2>5 DEF Next
<1> QED BY <1>1, InductiveInvariant, PTL DEF Spec, ExitLeavesInventory

(* A plugged drive is only ever withdrawn by its own poller when the drive *)
(* or its backplane is gone, whatever host power does.                     *)
THEOREM HostPowerNeverUnplugsHolds == Spec => HostPowerNeverUnplugs
<1> DEFINE Unplugs(d) == at = "idle" /\ at' = "markAbsent" /\ sink' = d
                         /\ conn[d] = "populated"
           Gone(d) == bay[d] = None \/ ~fitted
<1>1. Inductive /\ [Next]_vars
      => [\A d \in Drives : Unplugs(d) => Gone(d)]_vars
    <2> SUFFICES ASSUME Inductive, Next, NEW d \in Drives, Unplugs(d)
                 PROVE  Gone(d)
        OBVIOUS
    <2>1. PICK s \in Drives : NotifyDrive(s)
        BY DEF Next, Boot, Exit, Crash, Halt, Notify, PlugBackplane,
               UnplugBackplane, PollFails, Environment, Insert, Pull,
               SwitchHost, SwapBackplane, Handler, StartDrive,
               BackplanePlugged, Fetch, AddI2C, AddVINI, MarkPresent,
               MarkAbsent, RemoveVINI, RemoveI2C, StopDrive, DrivesStopped,
               Release, CallFails
    <2>2. s = d
        BY <2>1, SinksFacts DEF NotifyDrive, Inductive, Control
    <2>3. haveEndpoint[d]
        BY <2>1, <2>2 DEF Inductive, Contents, Looping, Matches, Busy,
                          PlugCalls, UnplugCalls, NotifyDrive
    <2>4. FALSE \in LineReads(d)
        BY <2>1, <2>2, <2>3 DEF NotifyDrive, Poll, LineReads
    <2> QED BY <2>4 DEF LineReads
<1> QED BY <1>1, InductiveInvariant, PTL DEF Spec, HostPowerNeverUnplugs

------------------------------------------------------------------------------
(* A depopulated backplane has given up its expander; the only step that   *)
(* instantiates one is plug(), which ends with the backplane populated or  *)
(* with its sink disabled.                                                 *)
Expander ==
    /\ (ReleasesChip /\ sink # Backplane /\ Backplane \in interest
          /\ bconn = "depopulated") => chip # "bound"
    /\ at = "off" => bconn = "uninitialised"

LEMMA ExpanderStep ==
    ASSUME Inductive, Expander, [Next]_vars
    PROVE  Expander'
<1> USE SinksFacts DEF Expander
<1>1. CASE PlugBackplane
    BY <1>1 DEF PlugBackplane, Inductive, TypeOK, ProcessType, Control
<1>2. CASE Release
    BY <1>2 DEF Release, Halt, Return, Inductive, TypeOK, HardwareType, ChipState
<1>3. CASE BackplanePlugged
    BY <1>3 DEF BackplanePlugged, Return
<1>4. CASE CallFails
    BY <1>4 DEF CallFails, Unwind, Halt, Return
<1>5. ASSUME NEW s \in Sinks, Notify(s), ~PlugBackplane
      PROVE  Expander'
    <2>1. CASE UnplugBackplane
        BY <2>1 DEF UnplugBackplane
    <2>2. CASE s \in Drives /\ NotifyDrive(s)
        BY <2>2, <1>5 DEF NotifyDrive, Inductive, Control
    <2>3. CASE PollFails(s)
        BY <2>3 DEF PollFails
    <2> QED BY <1>5, <2>1, <2>2, <2>3 DEF Notify
<1>6. CASE Boot \/ Exit \/ Crash
    BY <1>6 DEF Boot, Exit, Crash, Halt
<1>7. CASE StartDrive \/ StopDrive \/ DrivesStopped
    BY <1>7 DEF StartDrive, StopDrive, DrivesStopped, Return, Inductive, Control
<1>8. CASE Fetch \/ AddI2C \/ AddVINI \/ MarkPresent
    <2>1. UNCHANGED chip /\ at \in PlugCalls
        BY <1>8 DEF Fetch, AddI2C, AddVINI, MarkPresent, PlugCalls
    <2>2. sink # Backplane /\ sink # NoSink
        BY <2>1 DEF Inductive, Control, PlugCalls
    <2>3. interest' \subseteq interest /\ at' # "off" /\ UNCHANGED bconn
        BY <1>8, <2>2
        DEF Fetch, AddI2C, AddVINI, MarkPresent, Proceed, Settle, Return, Unwind
    <2> QED BY <2>1, <2>2, <2>3
<1>9. CASE MarkAbsent \/ RemoveVINI \/ RemoveI2C
    BY <1>9 DEF MarkAbsent, RemoveVINI, RemoveI2C, Proceed, Settle, Return,
                Unwind, Halt
<1>10. CASE Environment \/ UNCHANGED vars
    BY <1>10 DEF Environment, Insert, Pull, SwitchHost, SwapBackplane
<1> QED BY <1>1, <1>2, <1>3, <1>4, <1>5, <1>6, <1>7, <1>8, <1>9, <1>10
        DEF Next, Handler, Notify

(* No expander is left behind by a backplane that is known to be gone.     *)
THEOREM ReleasedWithBackplaneHolds == Spec => []ReleasedWithBackplane
<1>1. Init => Expander
    BY DEF Init, Expander
<1>2. Inductive /\ Expander /\ [Next]_vars => Expander'
    BY ExpanderStep
<1>3. Inductive /\ Expander => ReleasedWithBackplane
    BY SinksFacts DEF Inductive, Control, Expander, ReleasedWithBackplane, Backplane, NoSink, Sinks
<1> QED BY <1>1, <1>2, <1>3, InductiveInvariant, PTL DEF Spec

------------------------------------------------------------------------------
(* Each call of a handler is, for each inventory item, a step DriveItem    *)
(* allows or no step.                                                      *)
LEMMA ItemStep ==
    ASSUME Inductive, [Next]_vars, NEW d \in Drives
    PROVE  Item(d)!Next \/ UNCHANGED Item(d)!vars
<1> USE DEF Item!Next, Item!vars, Item!Describe, Item!Announce, Item!Withdraw,
            Item!Erase, Item!Complete
<1>1. CASE UNCHANGED inventory
    BY <1>1
<1>2. CASE AddI2C
    BY <1>2 DEF AddI2C, Inductive, TypeOK, InventoryType
<1>3. CASE AddVINI
    BY <1>3 DEF AddVINI, Inductive, Control, TypeOK, InventoryType
<1>4. CASE MarkPresent
    BY <1>4 DEF MarkPresent, Inductive, Contents, TypeOK, InventoryType
<1>5. CASE MarkAbsent
    BY <1>5 DEF MarkAbsent, Inductive, TypeOK, InventoryType
<1>6. CASE RemoveVINI
    BY <1>6 DEF RemoveVINI, Inductive, Contents, TypeOK, InventoryType
<1>7. CASE RemoveI2C
    BY <1>7 DEF RemoveI2C, Inductive, Contents, TypeOK, InventoryType
<1>8. ~UNCHANGED inventory => \/ AddI2C \/ AddVINI \/ MarkPresent
                              \/ MarkAbsent \/ RemoveVINI \/ RemoveI2C
    BY DEF Next, Boot, Exit, Crash, Notify, PlugBackplane, UnplugBackplane,
           NotifyDrive, PollFails, Environment, Insert, Pull, SwitchHost,
           SwapBackplane, Handler, StartDrive, BackplanePlugged, Fetch,
           StopDrive, DrivesStopped, Release, CallFails
<1> QED BY <1>1, <1>2, <1>3, <1>4, <1>5, <1>6, <1>7, <1>8

(* The backplane implements DriveItem for every bay: what is announced is  *)
(* described and what is erased has been withdrawn, at every single call.  *)
THEOREM ImplementsDriveItem == Spec => ItemsKeepPromise
<1> DEFINE Steps == \A d \in Drives : Item(d)!Next \/ UNCHANGED Item(d)!vars
<1>1. Init => \A d \in Drives : Item(d)!Init
    BY DEF Init, Fresh, Item!Init
<1>2. Inductive /\ [Next]_vars => [Steps]_vars
    BY ItemStep
<1> QED BY <1>1, <1>2, InductiveInvariant, PTL DEF Spec, ItemsKeepPromise

(* DriveItem's promise to whoever reads the inventory: a drive that is     *)
(* present is completely described, at any point between two calls, after  *)
(* whatever failures and restarts.                                         *)
THEOREM PresentIsDescribed ==
    Spec => [](\A d \in Drives : Item(d)!AnnouncedIsDescribed)
<1> DEFINE Promise == \A d \in Drives : Item(d)!AnnouncedIsDescribed
<1> USE DEF Item!AnnouncedIsDescribed, Item!Complete
<1>1. Init => Promise
    BY DEF Init, Fresh
<1>2. Inductive /\ Promise /\ [Next]_vars => Promise'
    <2> SUFFICES ASSUME Inductive, Promise, [Next]_vars, NEW d \in Drives
                 PROVE  Item(d)!AnnouncedIsDescribed'
        OBVIOUS
    <2>1. Item(d)!Next \/ UNCHANGED Item(d)!vars
        BY ItemStep
    <2> QED BY <2>1 DEF Item!Next, Item!vars, Item!Describe, Item!Announce,
               Item!Withdraw, Item!Erase
<1> QED BY <1>1, <1>2, InductiveInvariant, PTL DEF Spec
==============================================================================
