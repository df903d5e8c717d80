------------------------------ MODULE Migrations ------------------------------
(***************************************************************************)
(* Inventory::migrate at the start of Rainier's and Everest's detectFrus():*)
(* earlier firmware described NVMe drives on the inventory objects of      *)
(* their slots, this one describes them on objects of their own and blanks *)
(* what it finds on the slots.                                             *)
(*                                                                         *)
(* The migrations look at a snapshot of the inventory and write to the     *)
(* inventory, one D-Bus call at a time; the VPD service writes to it as    *)
(* well, and the process may die between any two calls.                    *)
(***************************************************************************)
EXTENDS Integers

CONSTANTS NumObjects,  \* objects of the inventory, in the order of their paths
          PCIeSlots,   \* those with an Item.PCIeSlot interface
          NVMeNames,   \* those whose path ends in a name that begins with nvme
          Faults       \* Notify calls may fail

Objects == 0 .. NumObjects - 1

ASSUME ObjectsAssumption == /\ NumObjects \in Nat
                            /\ PCIeSlots \subseteq Objects
                            /\ NVMeNames \subseteq Objects
ASSUME FaultsAssumption == Faults \in BOOLEAN

NVMeSlots == PCIeSlots \cap NVMeNames

VARIABLES pc,        \* the process is not there, migrates, or polls drives
          held,      \* the interfaces of each object in the inventory service
          snapshot,  \* what GetManagedObjects returned
          next,      \* the object migrate() is at
          migration  \* the migration it applies to it

vars == <<pc, held, snapshot, next, migration>>

(* MigrateNVMeIPZVPDFromSlotToDrive goes before                            *)
(* MigrateNVMeI2CEndpointFromSlotToDrive.                                  *)
Ifaces == {"vini", "i2c"}

Contents == {"none",   \* the object does not have the interface
             "blank",  \* removeProperties
             "drive",  \* of an NVMe drive: CC is NVMe; its bus and address
             "card"}   \* of anything else

Inventories == [Objects -> [Ifaces -> Contents]]

TypeOK == /\ pc \in {"off", "migrating", "running"}
          /\ held \in Inventories /\ snapshot \in Inventories
          /\ next \in 0 .. NumObjects /\ migration \in Ifaces

(* What each object may have been left with.                               *)
Plausible(o) ==
    IF o \in NVMeSlots
    THEN [vini : {"none", "drive", "card"}, i2c : {"none", "drive"}]
    ELSE IF o \in PCIeSlots THEN [vini : {"card"}, i2c : {"none", "card"}]
                            ELSE [vini : {"none", "drive"}, i2c : {"drive"}]

Init == /\ pc = "off"
        /\ held \in Inventories
        /\ \A o \in Objects : held[o] \in Plausible(o)
        /\ snapshot = held /\ next = 0 /\ migration = "vini"

------------------------------------------------------------------------------
Halt == pc' = "off" /\ next' = 0 /\ migration' = "vini"

GetManagedObjects ==
    /\ pc = "off"
    /\ pc' = "migrating" /\ snapshot' = held
    /\ UNCHANGED <<held, next, migration>>

(* Mutant: any PCIe slot will do.                                          *)
AppliesToSlots(o, i) ==
    /\ o \in PCIeSlots
    /\ IF i = "vini" THEN snapshot[o][i] = "drive" ELSE snapshot[o][i] # "none"

(* Mutant: the CC keyword is not looked at.                                *)
AppliesToAnyVPD(o, i) ==
    o \in NVMeSlots /\ snapshot[o][i] # "none"

(* The conditions of migrate(); otherwise its result is INVALID.           *)
Applies(o, i) ==
    /\ o \in NVMeSlots
    /\ IF i = "vini" THEN snapshot[o][i] = "drive" ELSE snapshot[o][i] # "none"

(* Mutant: a migration that applies ends the work on the object.           *)
AdvanceFirst ==
    /\ UNCHANGED <<pc, snapshot>>
    /\ IF migration = "vini" /\ ~Applies(next, "vini")
       THEN migration' = "i2c" /\ next' = next
       ELSE migration' = "vini" /\ next' = next + 1

Advance ==
    /\ UNCHANGED <<pc, snapshot>>
    /\ IF migration = "vini"
       THEN migration' = "i2c" /\ next' = next
       ELSE migration' = "vini" /\ next' = next + 1

Blanked == held' = [held EXCEPT ![next][migration] = "blank"]

(* Inventory::remove.                                                      *)
Apply == /\ pc = "migrating" /\ next \in Objects /\ Applies(next, migration)
         /\ Blanked
         /\ Advance

(* NoSuchInventoryItem is no sdbusplus exception: nothing catches it before*)
(* main() does.  The call may have taken effect.                           *)
ApplyFails ==
    /\ Faults
    /\ pc = "migrating" /\ next \in Objects /\ Applies(next, migration)
    /\ Blanked \/ UNCHANGED held
    /\ Halt /\ UNCHANGED snapshot

(* Mutant: goes on past the last object.                                   *)
SkipTooFar == /\ pc = "migrating" /\ next \in 0 .. NumObjects
              /\ ~Applies(next, migration)
              /\ Advance
              /\ UNCHANGED held

Skip == /\ pc = "migrating" /\ next \in Objects /\ ~Applies(next, migration)
        /\ Advance
        /\ UNCHANGED held

Migrated == /\ pc = "migrating" /\ next = NumObjects
            /\ pc' = "running" /\ next' = 0
            /\ UNCHANGED <<held, snapshot, migration>>

Crash == pc # "off" /\ Halt /\ UNCHANGED <<held, snapshot>>

------------------------------------------------------------------------------
(* The others who write to the inventory.                                  *)

Write(o, i, contents) ==
    /\ held' = [held EXCEPT ![o][i] = contents]
    /\ UNCHANGED <<pc, snapshot, next, migration>>

(* plug() and unplug() of the drives, on objects that are no slots.        *)
UpdateDrive(o) == /\ pc = "running" /\ o \notin PCIeSlots
                  /\ \E i \in Ifaces : \E contents \in {"drive", "blank"} :
                         Write(o, i, contents)

(* The BMC runs the earlier firmware for a while.                          *)
OldFirmware(o) == /\ pc = "off" /\ o \in NVMeSlots
                  /\ \E i \in Ifaces : Write(o, i, "drive")

(* vpd-manager has read the VPD of something that is in a slot.            *)
CollectVPD(o) == o \in PCIeSlots /\ Write(o, "vini", "card")

Next == \/ GetManagedObjects \/ Apply \/ ApplyFails \/ Skip \/ Migrated
        \/ Crash
        \/ \E o \in Objects : UpdateDrive(o) \/ OldFirmware(o) \/ CollectVPD(o)

Spec == Init /\ [][Next]_vars

------------------------------------------------------------------------------
(* Before the first drive is plugged no slot is left with the description  *)
(* of a drive, whatever number of earlier attempts failed or were cut off, *)
(* and whatever earlier firmware wrote between them: otherwise D-Bus would *)
(* show the drive twice.                                                   *)
CleanBeforeRunning ==
    pc = "running" =>
        \A o \in NVMeSlots : \A i \in Ifaces : held[o][i] # "drive"

(* Migrating touches the NVMe slots only: neither the drives this firmware *)
(* has described in an earlier life, nor the endpoints of cards in other   *)
(* slots (tests noPCIeSlot and noNVMePCIeSlot, for whole inventories).     *)
OthersUntouched ==
    [][pc = "migrating" =>
          \A o \in Objects \ NVMeSlots : \A i \in Ifaces :
              held'[o][i] # "blank" \/ held[o][i] = "blank"]_vars

(* What the VPD service knows of another device in an NVMe slot is erased  *)
(* only if it replaced the description of a drive after the snapshot was   *)
(* taken (test unmatchedVPDDecoration, with a concurrent writer).          *)
CardVPDSurvives ==
    [][\A o \in NVMeSlots :
          (held[o]["vini"] = "card" /\ held'[o]["vini"] = "blank")
              => pc = "migrating" /\ snapshot[o]["vini"] = "drive"]_vars
==============================================================================
