---------------------------- MODULE DriveBackplane ----------------------------
(***************************************************************************)
(* A hot-pluggable drive backplane with its NVMe drive bays: Basecamp      *)
(* behind Bellavista on Everest, Driskill behind Pennybacker on Bonnell.   *)
(* The backplane's presence GPIO is polled once a second; while it is      *)
(* populated each bay is polled as well, and what the polls find is        *)
(* published on D-Bus.                                                     *)
(*                                                                         *)
(* The process is single threaded: Notifier::run() calls one sink at a     *)
(* time, and the hardware, the inventory service and a crash of the        *)
(* process interleave with every call the handler makes.  `at' is the call *)
(* the handler makes next, `sink' the sink whose notify() is running.      *)
(***************************************************************************)
EXTENDS Integers

CONSTANTS NumDrives,     \* bays: 10 on Basecamp, 4 on Driskill
          Serials,       \* serial numbers of the drives around
          None,          \* an empty bay
          Blank,         \* the serial number VINI() leaves in the inventory
          ReleasesChip,  \* Basecamp::unplug removes its GPIO expander
          Faults         \* D-Bus, GPIO and sysfs calls may fail

ASSUME NumDrivesAssumption == NumDrives \in Nat
ASSUME SerialsAssumption == None \notin Serials /\ Blank \notin Serials
ASSUME FlagsAssumption == ReleasesChip \in BOOLEAN /\ Faults \in BOOLEAN

Drives == 0 .. NumDrives - 1
Backplane == NumDrives
Sinks == 0 .. NumDrives
NoSink == -1

ConnectorState == {"uninitialised", "depopulated", "populated"}

Calls == {"off", "idle",                            \* not running, epoll_wait
          "start",                                  \* Basecamp::plug
          "fetch", "addI2C", "addVINI", "markPresent",    \* drive plug
          "stop", "release",                        \* Basecamp::unplug
          "markAbsent", "removeVINI", "removeI2C"}  \* drive unplug

VARIABLES
    \* the hardware
    fitted,        \* the backplane is in the system
    bay,           \* bay[d]: the serial of the drive in bay d, or None
    hostOn,        \* host power: drives answer on I2C only while it is on
    chip,          \* sysfs device of the backplane's GPIO expander
    \* the inventory service, which outlives this process
    present, i2c, vini,
    \* the process
    at, sink,
    cur,           \* the bay the running handler works on
    interest,      \* sinks armed and registered with epoll
    bconn, conn,   \* Connector::state of the backplane and of each bay
    poller,        \* bays whose PolledConnector::poller is engaged
    haveEndpoint,  \* NVMeDrivePresence::haveEndpoint
    metadata       \* serial of the drive being plugged

hardware == <<fitted, bay, hostOn>>
inventory == <<present, i2c, vini>>
connectors == <<bconn, conn>>
process == <<at, sink, cur, interest, bconn, conn, poller, haveEndpoint,
             metadata>>
vars == <<hardware, chip, inventory, process>>

(* Absent, instantiated, or instantiated since the kernel last refused to  *)
(* delete it, which SysfsI2CBus::deleteDevice only logs.                   *)
ChipState == {"none", "bound", "refused"}

HardwareType ==
    /\ fitted \in BOOLEAN /\ hostOn \in BOOLEAN /\ chip \in ChipState
    /\ bay \in [Drives -> Serials \cup {None}]

InventoryType ==
    /\ present \in [Drives -> BOOLEAN]
    /\ i2c \in [Drives -> BOOLEAN]
    /\ vini \in [Drives -> Serials \cup {Blank}]

ProcessType ==
    /\ at \in Calls
    /\ sink \in Sinks \cup {NoSink}
    /\ cur \in 0 .. NumDrives
    /\ interest \subseteq Sinks
    /\ bconn \in ConnectorState
    /\ conn \in [Drives -> ConnectorState]
    /\ poller \subseteq Drives
    /\ haveEndpoint \in [Drives -> BOOLEAN]
    /\ metadata \in Serials \cup {None}

TypeOK == HardwareType /\ InventoryType /\ ProcessType

Fresh(value) == [d \in Drives |-> value]

Init ==
    /\ fitted \in BOOLEAN /\ hostOn \in BOOLEAN /\ chip = "none"
    /\ bay \in [Drives -> Serials \cup {None}]
    /\ present = Fresh(FALSE) /\ i2c = Fresh(FALSE) /\ vini = Fresh(Blank)
    /\ at = "off" /\ sink = NoSink /\ cur = 0 /\ interest = {}
    /\ bconn = "uninitialised" /\ conn = Fresh("uninitialised")
    /\ poller = {} /\ haveEndpoint = Fresh(FALSE) /\ metadata = None

------------------------------------------------------------------------------
(* The ways a handler goes on.                                             *)

(* Everything the process knows is gone; hardware and inventory are not.   *)
Halt ==
    /\ at' = "off" /\ sink' = NoSink /\ cur' = 0 /\ interest' = {}
    /\ bconn' = "uninitialised" /\ conn' = Fresh("uninitialised")
    /\ poller' = {} /\ haveEndpoint' = Fresh(FALSE) /\ metadata' = None

(* notify() returns to Notifier::run().                                    *)
Return == at' = "idle" /\ sink' = NoSink /\ cur' = 0 /\ metadata' = None

(* Mutant: run() logs the exception and keeps polling the sink.            *)
UnwindKeepsSink(registered) ==
    IF sink = NoSink
    THEN Halt
    ELSE /\ Return
         /\ interest' = registered
         /\ UNCHANGED <<connectors, poller, haveEndpoint>>

(* An exception reaches Notifier::run(), which disables the sink it was    *)
(* calling.  On the way out of main() there is no such handler.            *)
Unwind(registered) ==
    IF sink = NoSink
    THEN Halt
    ELSE /\ Return
         /\ interest' = registered \ {sink}
         /\ UNCHANGED <<connectors, poller, haveEndpoint>>

(* The next call of the same handler.                                      *)
Proceed(call) ==
    /\ at' = call
    /\ UNCHANGED <<sink, cur, interest, connectors, poller, haveEndpoint,
                   metadata>>

(* A drive connector has reached its new state: back to epoll_wait, or on  *)
(* to the next bay when Basecamp::unplug is what depopulated it.           *)
Settle(state) ==
    /\ conn' = [conn EXCEPT ![cur] = state]
    /\ IF sink = Backplane
       THEN at' = "stop" /\ cur' = cur + 1 /\ UNCHANGED <<sink, metadata>>
       ELSE Return
    /\ UNCHANGED <<interest, bconn, poller, haveEndpoint>>

------------------------------------------------------------------------------
(* Presence, as the hardware reports it.                                   *)

Responsive(d) == fitted /\ hostOn /\ bay[d] # None

(* The line hangs off an expander on the backplane: without it, a read     *)
(* says anything.                                                          *)
LineReads(d) == IF fitted THEN {bay[d] # None} ELSE BOOLEAN

(* Mutant: presence follows the endpoint, which host power takes away.     *)
PollForgets(d, have) ==
    /\ \E line \in LineReads(d) : have = (line /\ Responsive(d))
    /\ haveEndpoint' = [haveEndpoint EXCEPT ![d] = have]

(* NVMeDrivePresence: once the endpoint has been observed, only the GPIO   *)
(* unplugs the drive.                                                      *)
Poll(d, have) ==
    /\ \E line \in LineReads(d) :
          have = (line /\ (haveEndpoint[d] \/ Responsive(d)))
    /\ haveEndpoint' = [haveEndpoint EXCEPT ![d] = have]

------------------------------------------------------------------------------
(* Starting, and the dispatch of a sink from Notifier::run().              *)

Boot ==
    /\ at = "off"
    /\ at' = "idle" /\ interest' = {Backplane}
    /\ UNCHANGED <<hardware, chip, inventory, sink, cur, connectors, poller,
                   haveEndpoint, metadata>>

(* Connector::populate constructs a new Basecamp, whose plug() first       *)
(* probes the GPIO expander; without a driver it is released, and the      *)
(* poller removes itself.                                                  *)
PlugBackplane ==
    /\ at = "idle" /\ Backplane \in interest
    /\ fitted /\ bconn # "populated"
    /\ conn' = Fresh("uninitialised")
    /\ poller' = {}
    /\ haveEndpoint' = Fresh(FALSE)
    /\ \/ /\ chip' = "bound"
          /\ at' = "start" /\ sink' = Backplane
          /\ UNCHANGED interest
       \/ /\ Faults
          /\ chip' \in {"none", "refused", chip}
          /\ interest' = interest \ {Backplane}
          /\ UNCHANGED <<at, sink>>
    /\ UNCHANGED <<hardware, inventory, cur, bconn, metadata>>

(* Mutant: depopulate() returns early when nothing was plugged, like       *)
(* populate() does when something is.                                      *)
UnplugBackplaneOnlyPlugged ==
    /\ at = "idle" /\ Backplane \in interest
    /\ ~fitted /\ bconn # "depopulated"
    /\ IF bconn = "uninitialised"
       THEN bconn' = "depopulated" /\ UNCHANGED <<at, sink>>
       ELSE at' = "stop" /\ sink' = Backplane /\ UNCHANGED bconn
    /\ UNCHANGED <<hardware, chip, inventory, cur, interest, conn, poller,
                   haveEndpoint, metadata>>

(* Connector::depopulate; when nothing was ever plugged a Basecamp is      *)
(* constructed only to unplug it.                                          *)
UnplugBackplane ==
    /\ at = "idle" /\ Backplane \in interest
    /\ ~fitted /\ bconn # "depopulated"
    /\ IF bconn = "uninitialised"
       THEN conn' = Fresh("uninitialised") /\ poller' = {}
       ELSE UNCHANGED <<conn, poller>>
    /\ at' = "stop" /\ sink' = Backplane
    /\ UNCHANGED <<hardware, chip, inventory, cur, interest, bconn,
                   haveEndpoint, metadata>>

(* Mutant: an uninitialised bay connector is taken for a depopulated one.  *)
NotifyDriveOnlyPlugged(d) ==
    /\ at = "idle" /\ d \in interest
    /\ \E have \in BOOLEAN :
          /\ Poll(d, have)
          /\ IF have = (conn[d] = "populated")
             THEN UNCHANGED <<at, sink, cur>>
             ELSE /\ at' = IF have THEN "fetch" ELSE "markAbsent"
                  /\ sink' = d /\ cur' = d
    /\ UNCHANGED <<hardware, chip, inventory, interest, connectors, poller,
                   metadata>>

(* Mutant: an uninitialised bay connector is taken for a populated one.    *)
NotifyDriveOnlyEmptied(d) ==
    /\ at = "idle" /\ d \in interest
    /\ \E have \in BOOLEAN :
          /\ Poll(d, have)
          /\ IF have = (conn[d] # "depopulated")
             THEN UNCHANGED <<at, sink, cur>>
             ELSE /\ at' = IF have THEN "fetch" ELSE "markAbsent"
                  /\ sink' = d /\ cur' = d
    /\ UNCHANGED <<hardware, chip, inventory, interest, connectors, poller,
                   metadata>>

(* Nothing to do when the connector is already in the state the poll wants.*)
NotifyDrive(d) ==
    /\ at = "idle" /\ d \in interest
    /\ \E have \in BOOLEAN :
          /\ Poll(d, have)
          /\ LET settled == IF have THEN "populated" ELSE "depopulated"
             IN  IF conn[d] = settled
                 THEN UNCHANGED <<at, sink, cur>>
                 ELSE /\ at' = IF have THEN "fetch" ELSE "markAbsent"
                      /\ sink' = d /\ cur' = d
    /\ UNCHANGED <<hardware, chip, inventory, interest, connectors, poller,
                   metadata>>

(* Reading the presence line fails.                                        *)
PollFails(s) ==
    /\ at = "idle" /\ s \in interest
    /\ Faults \/ (s # Backplane /\ ~fitted)
    /\ interest' = interest \ {s}
    /\ UNCHANGED <<hardware, chip, inventory, at, sink, cur, connectors,
                   poller, haveEndpoint, metadata>>

------------------------------------------------------------------------------
(* Basecamp::plug arms one poller per bay.                                 *)

(* Mutant: one bay too many.                                               *)
StartDriveTooFar ==
    /\ at = "start" /\ cur \in Sinks
    /\ poller' = poller \cup {cur}
    /\ interest' = interest \cup {cur}
    /\ cur' = cur + 1
    /\ UNCHANGED <<hardware, chip, inventory, at, sink, connectors,
                   haveEndpoint, metadata>>

StartDrive ==
    /\ at = "start" /\ cur \in Drives
    /\ poller' = poller \cup {cur}
    /\ \/ /\ interest' = interest \cup {cur}
          /\ haveEndpoint' = [haveEndpoint EXCEPT ![cur] = FALSE]
          /\ cur' = cur + 1
          /\ UNCHANGED <<at, sink, connectors, metadata>>
       \/ /\ Faults  \* the timer cannot be armed or registered
          /\ interest' = interest \ {sink}
          /\ Return
          /\ UNCHANGED <<connectors, haveEndpoint>>
    /\ UNCHANGED <<hardware, chip, inventory>>

BackplanePlugged ==
    /\ at = "start" /\ cur = NumDrives
    /\ bconn' = "populated"
    /\ Return
    /\ UNCHANGED <<hardware, chip, inventory, interest, conn, poller,
                   haveEndpoint>>

------------------------------------------------------------------------------
(* BasecampNVMeDrive::plug: read the drive's metadata, then publish it.    *)

(* The drive answered the poll, and may have gone since.                   *)
Fetch ==
    /\ at = "fetch"
    /\ IF Responsive(cur)
       THEN /\ at' = "addI2C" /\ metadata' = bay[cur]
            /\ UNCHANGED <<sink, cur, interest, connectors, poller,
                           haveEndpoint>>
       ELSE Unwind(interest)
    /\ UNCHANGED <<hardware, chip, inventory>>

(* Mutant: the drive is announced before its VINI has been published.      *)
AddI2COnly ==
    /\ at = "addI2C"
    /\ i2c' = [i2c EXCEPT ![cur] = TRUE]
    /\ Proceed("markPresent") \/ (Faults /\ Unwind(interest))
    /\ UNCHANGED <<hardware, chip, present, vini>>

AddI2C ==
    /\ at = "addI2C"
    /\ i2c' = [i2c EXCEPT ![cur] = TRUE]
    /\ Proceed("addVINI") \/ (Faults /\ Unwind(interest))
    /\ UNCHANGED <<hardware, chip, present, vini>>

AddVINI ==
    /\ at = "addVINI"
    /\ vini' = [vini EXCEPT ![cur] = metadata]
    /\ Proceed("markPresent") \/ (Faults /\ Unwind(interest))
    /\ UNCHANGED <<hardware, chip, present, i2c>>

MarkPresent ==
    /\ at = "markPresent"
    /\ present' = [present EXCEPT ![cur] = TRUE]
    /\ Settle("populated") \/ (Faults /\ Unwind(interest))
    /\ UNCHANGED <<hardware, chip, i2c, vini>>

------------------------------------------------------------------------------
(* BasecampNVMeDrive::unplug, UNPLUG_REMOVES_INVENTORY.                    *)

MarkAbsent ==
    /\ at = "markAbsent"
    /\ present' = [present EXCEPT ![cur] = FALSE]
    /\ Proceed("removeVINI") \/ (Faults /\ Unwind(interest))
    /\ UNCHANGED <<hardware, chip, i2c, vini>>

(* Mutant: drive->removeFromInventory forgets the I2C interface.           *)
RemoveVINIOnly ==
    /\ at = "removeVINI"
    /\ vini' = [vini EXCEPT ![cur] = Blank]
    /\ Settle("depopulated") \/ (Faults /\ Unwind(interest))
    /\ UNCHANGED <<hardware, chip, present, i2c>>

RemoveVINI ==
    /\ at = "removeVINI"
    /\ vini' = [vini EXCEPT ![cur] = Blank]
    /\ Proceed("removeI2C") \/ (Faults /\ Unwind(interest))
    /\ UNCHANGED <<hardware, chip, present, i2c>>

RemoveI2C ==
    /\ at = "removeI2C"
    /\ i2c' = [i2c EXCEPT ![cur] = FALSE]
    /\ Settle("depopulated") \/ (Faults /\ Unwind(interest))
    /\ UNCHANGED <<hardware, chip, present, vini>>

------------------------------------------------------------------------------
(* Basecamp::unplug stops the pollers one by one and depopulates their     *)
(* connectors, then removes the GPIO expander.                             *)

(* Mutant: the [[maybe_unused]] mode is really unused.                     *)
IgnoresMode == TRUE

(* Called by a notify(), it removes the drives from the inventory; called  *)
(* by Everest::detectFrus on exit, it retains them.                        *)
RemovesInventory == sink # NoSink

StopDrive ==
    /\ at = "stop" /\ cur \in Drives
    /\ interest' = IF cur \in poller THEN interest \ {cur} ELSE interest
    /\ poller' = poller \ {cur}
    /\ IF conn[cur] # "depopulated" /\ RemovesInventory
       THEN at' = "markAbsent" /\ UNCHANGED <<cur, conn>>
       ELSE /\ cur' = cur + 1
            /\ conn' = [conn EXCEPT ![cur] = "depopulated"]
            /\ UNCHANGED at
    /\ UNCHANGED <<hardware, chip, inventory, sink, bconn, haveEndpoint,
                   metadata>>

DrivesStopped ==
    /\ at = "stop" /\ cur = NumDrives
    /\ at' = "release"
    /\ UNCHANGED <<hardware, chip, inventory, sink, cur, interest, connectors,
                   poller, haveEndpoint, metadata>>

(* The expander is gone, or could not be deleted, which is only logged.    *)
Release ==
    /\ at = "release"
    /\ IF ReleasesChip /\ chip # "none"
       THEN chip' = "none" \/ (Faults /\ chip' = "refused")
       ELSE UNCHANGED chip
    /\ IF sink = NoSink
       THEN Halt
       ELSE /\ bconn' = "depopulated"
            /\ conn' = Fresh("uninitialised")
            /\ poller' = {} /\ haveEndpoint' = Fresh(FALSE)
            /\ Return
            /\ UNCHANGED interest
    /\ UNCHANGED <<hardware, inventory>>

------------------------------------------------------------------------------
(* SIGINT or SIGQUIT ends the loop; unplug with UNPLUG_RETAINS_INVENTORY.  *)
Exit ==
    /\ at = "idle"
    /\ IF bconn = "depopulated"
       THEN Halt
       ELSE /\ interest' = interest \ {Backplane}
            /\ at' = "stop"
            /\ IF bconn = "uninitialised"
               THEN conn' = Fresh("uninitialised") /\ poller' = {}
               ELSE UNCHANGED <<conn, poller>>
            /\ UNCHANGED <<sink, cur, bconn, haveEndpoint, metadata>>
    /\ UNCHANGED <<hardware, chip, inventory>>

(* A call fails without having had its effect.                             *)
CallFails ==
    /\ Faults
    /\ at \notin {"off", "idle", "stop"} /\ (at = "start" => cur \in Drives)
    /\ Unwind(interest)
    /\ UNCHANGED <<hardware, chip, inventory>>

(* SIGTERM, std::terminate on `throw -1', the OOM killer...                *)
Crash ==
    /\ at # "off"
    /\ Halt
    /\ UNCHANGED <<hardware, chip, inventory>>

------------------------------------------------------------------------------
(* The world around the process.                                           *)

Insert(d, s) ==
    /\ bay[d] = None /\ bay' = [bay EXCEPT ![d] = s]
    /\ UNCHANGED <<fitted, hostOn, chip, inventory, process>>

Pull(d) ==
    /\ bay[d] # None /\ bay' = [bay EXCEPT ![d] = None]
    /\ UNCHANGED <<fitted, hostOn, chip, inventory, process>>

SwitchHost ==
    /\ hostOn' = ~hostOn
    /\ UNCHANGED <<fitted, bay, chip, inventory, process>>

SwapBackplane ==
    /\ fitted' = ~fitted
    /\ UNCHANGED <<bay, hostOn, chip, inventory, process>>

Environment == \/ \E d \in Drives : Pull(d) \/ \E s \in Serials : Insert(d, s)
               \/ SwitchHost \/ SwapBackplane

(* What Notifier::run() does with a registered sink.                       *)
Notify(s) == \/ s = Backplane /\ (PlugBackplane \/ UnplugBackplane)
             \/ s \in Drives /\ NotifyDrive(s)
             \/ PollFails(s)

Handler == \/ StartDrive \/ BackplanePlugged
           \/ Fetch \/ AddI2C \/ AddVINI \/ MarkPresent
           \/ MarkAbsent \/ RemoveVINI \/ RemoveI2C
           \/ StopDrive \/ DrivesStopped \/ Release
           \/ CallFails

Next == \/ Boot \/ Exit \/ Crash
        \/ \E s \in Sinks : Notify(s)
        \/ Handler
        \/ Environment

Spec == Init /\ [][Next]_vars

(* epoll_wait returns one event per call, and a level-triggered descriptor *)
(* goes to the back of the kernel's ready list when it is reported: every  *)
(* registered timer that keeps expiring is served again and again, also    *)
(* between longer handlers.  A handler runs to its end: every call it      *)
(* makes returns or throws.  A poll that fails is owed to nobody, and ends *)
(* the watch that the liveness properties presuppose.                      *)
Fairness ==
    /\ WF_vars(Handler)
    /\ SF_vars(PlugBackplane) /\ SF_vars(UnplugBackplane)
    /\ \A d \in Drives : SF_vars(NotifyDrive(d))

FairSpec == Spec /\ Fairness

------------------------------------------------------------------------------
(* Each bay is an inventory item.                                          *)
Item(d) == INSTANCE DriveItem
           WITH present <- present[d], i2c <- i2c[d], vini <- vini[d]

(* While the loop runs, epoll never holds the address of a poller that was *)
(* destroyed: not after a plug() that threw half way through its bays, nor *)
(* after Connector::ctor replaced a device that still had pollers.         *)
Looping == at = "idle" \/ sink # NoSink
NoDanglingSink == Looping => interest \cap Drives \subseteq poller

Published(d) == present[d] /\ i2c[d] /\ vini[d] \in Serials
Withdrawn(d) == ~present[d] /\ ~i2c[d] /\ vini[d] = Blank

(* Between two callbacks the inventory says of every bay that is being     *)
(* watched what its connector stands for, whatever failed or crashed since *)
(* the inventory was created: an error that leaves the two apart also ends *)
(* the watch.                                                              *)
WatchedDriveMatches ==
    at = "idle" =>
        \A d \in interest \cap Drives :
            /\ conn[d] = "populated" => Published(d)
            /\ conn[d] = "depopulated" => Withdrawn(d)

(* Every bay of the inventory keeps the promise of DriveItem at each call, *)
(* across failures, crashes, exits and restarts.                           *)
ItemsKeepPromise ==
    /\ \A d \in Drives : Item(d)!Init
    /\ [][\A d \in Drives :
             Item(d)!Next \/ UNCHANGED Item(d)!vars]_vars

(* Once a drive has been plugged, a callback of its own withdraws it only  *)
(* if the drive (or the backplane under it) is gone, never because host    *)
(* power took the I2C endpoint away: the comment in NVMeDrivePresence.     *)
HostPowerNeverUnplugs ==
    [][\A d \in Drives :
          (at = "idle" /\ at' = "markAbsent" /\ sink' = d
              /\ conn[d] = "populated") => bay[d] = None \/ ~fitted]_vars

(* "Clean up the application state but leave the inventory in-tact":       *)
(* nothing outside a callback of the loop, neither starting nor leaving,   *)
(* touches what has been published.                                        *)
ExitLeavesInventory == [][sink = NoSink => UNCHANGED inventory]_vars

(* On Everest the GPIO expander of a Basecamp that a watching process knows*)
(* to be gone is not left behind in sysfs, whoever instantiated it: this   *)
(* process, one that was killed, or a plug() that threw half way; unless   *)
(* the kernel refused to delete it.                                        *)
ReleasedWithBackplane ==
    (ReleasesChip /\ at = "idle" /\ Backplane \in interest
        /\ bconn = "depopulated") => chip # "bound"

(* A drive that stays away from a watched bay ends up withdrawn, also when *)
(* it was taken out while the process (or the whole BMC) was down.         *)
GoneDriveWithdrawn ==
    \A d \in Drives :
        <>[](bay[d] = None /\ fitted /\ d \in interest) => <>[]Withdrawn(d)

(* A powered drive that stays in a watched bay ends up announced.          *)
SeatedDriveAnnounced ==
    \A d \in Drives :
        <>[](bay[d] # None /\ fitted /\ hostOn /\ d \in interest)
            => <>[]Published(d)

(* A bay whose plug() threw counts as depopulated, with what it published. *)
Abandoned(d) ==
    /\ at = "idle" /\ bconn = "populated"
    /\ conn[d] = "depopulated" /\ d \notin interest

(* When the watched backplane stays away, its drives end up withdrawn: all *)
(* but those that a failing plug() has published and abandoned, for which  *)
(* Connector::depopulate has nothing to do.                                *)
LostBackplaneWithdrawn ==
    (<>[](~fitted /\ Backplane \in interest)
        /\ [](\A d \in Drives : ~Abandoned(d)))
            => <>[](\A d \in Drives : Withdrawn(d))
==============================================================================
