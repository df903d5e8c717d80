------------------------------ MODULE RainierCards ------------------------------
(***************************************************************************)
(* A whole Rainier from the start of the process to its exit: the Nisqually*)
(* plugs the slot muxes of a 1z board, a Flett in each of its slots and the*)
(* Williwakas, serves their pollers, and unplugs everything.               *)
(*                                                                         *)
(* The drives of a backplane are one: their description is there or not    *)
(* (RainierDrives has the rest).  `todo' are the parts that the loop of the*)
(* running phase has still to visit, `step' is where it is with the first. *)
(***************************************************************************)
EXTENDS SysfsI2C

CONSTANTS Slots,    \* the slots that may take a Flett: 8 .. 11
          Indices,  \* the backplanes: 0 .. 2
          Faults    \* D-Bus calls and delete_device may fail

ASSUME SlotsAssumption == Slots \subseteq 8 .. 11
ASSUME IndicesAssumption == Indices \subseteq 0 .. 2
ASSUME FaultsAssumption == Faults \in BOOLEAN

VARIABLES
    board,            \* the Nisqually of this system
    fitted, working,  \* the cards there are; the parts whose driver binds
    described,        \* the backplanes whose drives the inventory describes
    phase, todo, step,
    conn,             \* Connector::state of each card
    armed             \* the cards whose pollers are registered

chassis == <<board, fitted, working>>
control == <<phase, todo, step>>
vars == <<sysfs, chassis, described, control, conn, armed>>

Boards == {"0z", "1z"}
ConnectorState == {"uninitialised", "depopulated", "populated"}

Fletts == {"flett"} \X Slots
Williwakas == {"williwakas"} \X Indices
SlotMuxes == {"slotMux"} \X {8, 10}
Cards == Fletts \cup Williwakas
AllParts == Cards \cup SlotMuxes

Parts == IF board = "1z" THEN AllParts ELSE Cards

------------------------------------------------------------------------------
(* Where the parts are.                                                    *)

(* Slots 8 and 10 are cabled to the same backplane.                        *)
FlettIndex(slot) == CASE slot \in {8, 10} -> 0 [] slot = 11 -> 1 [] slot = 9 -> 2

PCIeSlotBus(slot) == IF slot \in {8, 9} THEN 6 ELSE 11

(* Mutant: one address per bus, not per slot.                              *)
FlettMuxAddressOfBus(slot) == IF slot \in {8, 9} THEN 117 ELSE 116

FlettMuxAddress(slot) == IF slot \in {8, 11} THEN 117 ELSE 116

FlettMuxChannel(slot) ==
    CASE slot = 8 -> 3 [] slot = 9 -> 2 [] slot = 10 -> 0 [] slot = 11 -> 1

SlotMux(slot) == <<PCIeSlotBus(slot), 112>>

FlettMux(slot) ==
    IF board = "1z"
    THEN <<PCIeSlotBus(slot), 112, FlettMuxChannel(slot), FlettMuxAddress(slot)>>
    ELSE <<PCIeSlotBus(slot), FlettMuxAddress(slot)>>

Device(part) ==
    CASE part \in SlotMuxes -> SlotMux(part[2])
      [] part \in Fletts -> FlettMux(part[2])
      [] part \in Williwakas -> <<13 + part[2], 96>>

(* Both loops go by slot and by index; the plugging one starts with what   *)
(* the rest is connected to, the unplugging one ends with it.              *)
Kind(part) == IF part \in SlotMuxes THEN 0 ELSE IF part \in Fletts THEN 1 ELSE 2

Before(a, b) ==
    IF Kind(a) = Kind(b) THEN a[2] < b[2]
    ELSE IF phase = "exit" THEN Kind(b) < Kind(a) ELSE Kind(a) < Kind(b)

Turn(part) == part \in todo /\ \A other \in todo \ {part} : Before(part, other)

------------------------------------------------------------------------------
TypeOK ==
    /\ devices \subseteq {Device(p) : p \in Parts} /\ refused \subseteq devices
    /\ board \in Boards /\ fitted \subseteq Cards /\ working \subseteq AllParts
    /\ described \subseteq 0 .. 2
    /\ phase \in {"off", "plug", "loop", "exit", "exited"}
    /\ todo \subseteq Parts /\ step \in {"detect", "check", "release"}
    /\ conn \in [Cards -> ConnectorState] /\ armed \subseteq Cards

Fresh == [c \in Cards |-> "uninitialised"]

Init ==
    /\ devices = {} /\ refused = {}
    /\ board \in Boards /\ fitted \in SUBSET Cards /\ working \in SUBSET AllParts
    /\ described \in SUBSET {FlettIndex(s) : s \in Slots}
    /\ phase = "off" /\ todo = {} /\ step = "detect"
    /\ conn = Fresh /\ armed = {}

(* Mutant: a 0z board is plugged as a 1z one.                              *)
StartSlotMuxes ==
    /\ phase \in {"off", "exited"}
    /\ phase' = "plug" /\ todo' = AllParts /\ step' = "detect"
    /\ conn' = Fresh /\ armed' = {} /\ refused' = {}
    /\ UNCHANGED <<devices, chassis, described>>

(* main() of a supported model: each process has connectors of its own.    *)
Start ==
    /\ phase \in {"off", "exited"}
    /\ phase' = "plug" /\ todo' = Parts /\ step' = "detect"
    /\ conn' = Fresh /\ armed' = {} /\ refused' = {}
    /\ UNCHANGED <<devices, chassis, described>>

(* The process ends and unplugs nothing: it is killed, or an exception     *)
(* escapes that neither run() nor plug() names, an int of SysfsI2CBus or   *)
(* of SysfsGPIOChip, a std::system_error of gpiod.  On hardware it         *)
(* terminates the process, in Simics it is caught beyond the unplugging.   *)
Ended ==
    /\ phase' = "off" /\ todo' = {} /\ step' = "detect"
    /\ conn' = Fresh /\ armed' = {}

Crash ==
    /\ phase \notin {"off", "exited"} /\ Ended
    /\ UNCHANGED <<sysfs, chassis, described>>

(* While the chassis has no power, which the I2C devices of the kernel do  *)
(* not survive, a card is fitted, taken out, or replaced.                  *)
Toggled(set, part) == IF part \in set THEN set \ {part} ELSE set \cup {part}

PowerCycle(part) ==
    /\ phase \in {"off", "exited"} /\ phase' = "off"
    /\ devices' = {} /\ refused' = {}
    /\ \/ part \in Cards /\ fitted' = Toggled(fitted, part) /\ UNCHANGED working
       \/ working' = Toggled(working, part) /\ UNCHANGED fitted
    /\ UNCHANGED <<board, described, todo, step, conn, armed>>

------------------------------------------------------------------------------
(* One part at a time.                                                     *)

Done(part) == todo' = todo \ {part} /\ step' = "detect" /\ UNCHANGED phase
GoOn(next) == step' = next /\ UNCHANGED <<phase, todo>>

(* What the inventory and the GPIO say of a card.  isPresent() takes a     *)
(* failing D-Bus call for a missing card.                                  *)
MayBeFound(part) == part \in fitted \cup SlotMuxes
MayBeMissing(part) ==
    part \in Cards \ fitted \/ (Faults /\ part \in Fletts)

(* Connector::populate: ctor, plug(), probeDevice().                       *)
Require(part) ==
    /\ phase = "plug" /\ step = "detect" /\ Turn(part) /\ MayBeFound(part)
    /\ RequireDevice(Device(part)) /\ GoOn("check")
    /\ UNCHANGED <<chassis, described, conn, armed>>

Plugged(part) ==
    /\ step = "check" /\ Turn(part) /\ part \in working
    /\ IF part \in Cards
       THEN conn' = [conn EXCEPT ![part] = "populated"] /\ armed' = armed \cup {part}
       ELSE UNCHANGED <<conn, armed>>
    /\ Done(part)
    /\ UNCHANGED <<sysfs, chassis, described>>

(* Mutant: probeDevice() leaves the device that it has instantiated.       *)
RejectedStays(part) ==
    /\ step = "check" /\ Turn(part) /\ part \notin working
    /\ IF part \in Cards THEN Done(part) /\ UNCHANGED <<conn, armed>> ELSE Ended
    /\ UNCHANGED <<sysfs, chassis, described>>

(* Mutant: one try block around the whole loop.                            *)
RejectedEndsLoop(part) ==
    /\ step = "check" /\ Turn(part) /\ part \notin working
    /\ ReleaseDevice(Device(part), Faults)
    /\ IF part \in Cards
       THEN /\ todo' = {p \in todo : Kind(p) # Kind(part)} /\ step' = "detect"
            /\ UNCHANGED <<phase, conn, armed>>
       ELSE Ended
    /\ UNCHANGED <<chassis, described>>

(* No driver: the device is released, and the card skipped.  Nobody        *)
(* expects that of a slot mux.                                             *)
Rejected(part) ==
    /\ step = "check" /\ Turn(part) /\ part \notin working
    /\ ReleaseDevice(Device(part), Faults)
    /\ IF part \in Cards THEN Done(part) /\ UNCHANGED <<conn, armed>> ELSE Ended
    /\ UNCHANGED <<chassis, described>>

(* Connector::depopulate of a missing card, or of any card on exit: its    *)
(* pollers stop, its drives are depopulated.  Only Fletts remove something,*)
(* WilliwakasNVMeDrive::unplug finds an empty decorator.  A removal that   *)
(* fails is ignored.                                                       *)
Depopulates(part) ==
    \/ phase = "plug" /\ MayBeMissing(part)
    \/ phase = "exit" /\ (part \in Cards => conn[part] # "depopulated")

(* Mutant: the mode of unplug() is ignored.                                *)
IgnoresMode == TRUE

RemovesInventory == phase = "plug"

StopPollers(part) ==
    /\ step = "detect" /\ Turn(part) /\ Depopulates(part)
    /\ armed' = armed \ {part}
    /\ \/ /\ part \in Fletts /\ RemovesInventory
          /\ described' = described \ {FlettIndex(part[2])}
       \/ /\ part \in Fletts /\ RemovesInventory => Faults
          /\ UNCHANGED described
    /\ GoOn("release")
    /\ UNCHANGED <<sysfs, chassis, conn>>

Release(part) ==
    /\ step = "release" /\ Turn(part)
    /\ ReleaseDevice(Device(part), Faults)
    /\ conn' = IF part \in Cards THEN [conn EXCEPT ![part] = "depopulated"] ELSE conn
    /\ Done(part)
    /\ UNCHANGED <<chassis, described, armed>>

AlreadyDepopulated(part) ==
    /\ phase = "exit" /\ step = "detect" /\ Turn(part)
    /\ part \in Cards /\ conn[part] = "depopulated"
    /\ Done(part)
    /\ UNCHANGED <<sysfs, chassis, described, conn, armed>>

------------------------------------------------------------------------------
(* Notifier::run() between the two.                                        *)

Run ==
    /\ phase = "plug" /\ todo = {} /\ phase' = "loop"
    /\ UNCHANGED <<sysfs, chassis, described, todo, step, conn, armed>>

(* Drives come and go; RainierDrives has the details.                      *)
Poll(flett) ==
    /\ phase = "loop" /\ flett \in armed \cap Fletts
    /\ described' = Toggled(described, FlettIndex(flett[2]))
    /\ UNCHANGED <<sysfs, chassis, control, conn, armed>>

(* Mutant: a 1z board is unplugged as a 0z one.                            *)
LeaveSlotMuxes ==
    /\ phase = "loop" /\ phase' = "exit" /\ todo' = Cards
    /\ UNCHANGED <<sysfs, chassis, described, step, conn, armed>>

(* run() has seen the signal.                                              *)
Leave ==
    /\ phase = "loop" /\ phase' = "exit" /\ todo' = Parts
    /\ UNCHANGED <<sysfs, chassis, described, step, conn, armed>>

Exit ==
    /\ phase = "exit" /\ todo = {} /\ phase' = "exited"
    /\ UNCHANGED <<sysfs, chassis, described, todo, step, conn, armed>>

Next ==
    \/ Start \/ Crash \/ Run \/ Leave \/ Exit
    \/ \E part \in AllParts :
          \/ Require(part) \/ Plugged(part) \/ Rejected(part)
          \/ StopPollers(part) \/ Release(part) \/ AlreadyDepopulated(part)
          \/ PowerCycle(part)
    \/ \E flett \in Fletts : Poll(flett)

Spec == Init /\ [][Next]_vars

------------------------------------------------------------------------------
(* A card that is watched can be reached: its device, and on a 1z board the*)
(* slot mux before it, exist for as long as its pollers are registered,    *)
(* whatever is released for other cards, before, meanwhile or on exit.     *)
Reached(card) ==
    /\ Device(card) \in devices
    /\ (board = "1z" /\ card \in Fletts) => SlotMux(card[2]) \in devices

WatchedIsReached == \A card \in armed : Reached(card)

(* A card that is skipped costs no other its detection: in the loop, only  *)
(* a card whose driver does not bind has been left as it was.              *)
OnlyUnboundIsSkipped ==
    phase = "loop" => \A c \in working \cap Cards : conn[c] # "uninitialised"

(* Once the cards have been detected, only those that are watched have a   *)
(* device, also if an earlier process was killed with more of them; unless *)
(* the kernel did not let go of it.                                        *)
UnwatchedHasNoDevice ==
    phase = "loop" =>
        \A c \in Cards \ armed : Device(c) \in devices => Device(c) \in refused

(* "Clean up the application state": an orderly exit leaves no device but  *)
(* those the kernel did not let go of.                                     *)
NothingLeftInSysfs == phase = "exited" => devices \subseteq refused

(* "... but leave the inventory in-tact."                                  *)
ExitKeepsDescriptions == [][phase = "exit" => UNCHANGED described]_vars

(* "remove the device from the inventory when it has been removed from the *)
(* system" (Connector::depopulate): the drives of a Flett that is there are*)
(* not erased because some other slot is empty.                            *)
EmptySlotErasesNothing ==
    [][(phase = "plug" /\ ~Faults) =>
          \A f \in fitted \cap Fletts :
              FlettIndex(f[2]) \in described => FlettIndex(f[2]) \in described']_vars
==============================================================================
