--------------------------- MODULE Migrations_proofs ---------------------------
(***************************************************************************)
(* Proofs about Migrations for every inventory and every set of slots.     *)
(***************************************************************************)
EXTENDS Migrations, TLAPS

(* The migration of interface i of object o is behind migrate().           *)
Behind(o, i) == \/ o < next
                \/ o = next /\ i = "vini" /\ migration = "i2c"

(* What is behind is clean, and the snapshot knows of what is ahead: only  *)
(* earlier firmware describes drives on slots, and it does not run now.    *)
Progress ==
    /\ pc = "off" => next = 0 /\ migration = "vini"
    /\ pc = "migrating" =>
          \A o \in NVMeSlots : \A i \in Ifaces :
              held[o][i] = "drive" => snapshot[o][i] = "drive" /\ ~Behind(o, i)

Inductive == TypeOK /\ Progress /\ CleanBeforeRunning

(* The objects are numbered, and the slots are among them.                 *)
LEMMA ObjectFacts ==
    /\ NVMeSlots \subseteq Objects
    /\ NumObjects \in Nat
    /\ \A o \in Objects : o \in Int /\ o >= 0 /\ o < NumObjects
                          /\ o \in 0 .. NumObjects /\ o + 1 \in 0 .. NumObjects
BY ObjectsAssumption DEF NVMeSlots, Objects

(* What the inventory is after one of its interfaces has been written.     *)
LEMMA WriteOne ==
    ASSUME TypeOK, NEW o \in Objects, NEW i \in Ifaces, NEW c \in Contents,
           held' = [held EXCEPT ![o][i] = c]
    PROVE  /\ held' \in Inventories
           /\ \A p \in Objects : \A j \in Ifaces :
                 held'[p][j] = IF p = o /\ j = i THEN c ELSE held[p][j]
BY DEF TypeOK, Inventories

LEMMA InitInductive == Init => Inductive
BY ObjectsAssumption
   DEF Init, Inductive, TypeOK, Progress, CleanBeforeRunning, Ifaces, Objects

LEMMA BlankedOne ==
    ASSUME TypeOK, next \in Objects, Blanked
    PROVE  /\ held' \in Inventories
           /\ \A p \in Objects : \A j \in Ifaces :
                 held'[p][j] = IF p = next /\ j = migration THEN "blank"
                                                            ELSE held[p][j]
<1>1. "blank" \in Contents /\ migration \in Ifaces
    BY DEF TypeOK, Contents
<1>2. held' = [held EXCEPT ![next][migration] = "blank"]
    BY DEF Blanked
<1> QED BY <1>1, <1>2 DEF TypeOK, Inventories

LEMMA StepInductive == Inductive /\ [Next]_vars => Inductive'
<1> SUFFICES ASSUME Inductive, [Next]_vars PROVE Inductive'
    OBVIOUS
<1> USE DEF Inductive
<1>1. CASE GetManagedObjects
    <2>1. TypeOK'
        BY <1>1 DEF GetManagedObjects, TypeOK
    <2>2. Progress'
        BY <1>1, ObjectFacts
           DEF GetManagedObjects, Progress, TypeOK, Behind
    <2> QED BY <2>1, <2>2, <1>1 DEF GetManagedObjects, CleanBeforeRunning
<1>2. CASE Apply
    <2>1. /\ held' \in Inventories
          /\ \A p \in Objects : \A j \in Ifaces :
                held'[p][j] = IF p = next /\ j = migration THEN "blank"
                                                           ELSE held[p][j]
        BY <1>2, BlankedOne DEF Apply
    <2>2. TypeOK'
        BY <1>2, <2>1, ObjectFacts DEF Apply, Advance, TypeOK, Ifaces
    <2>3. Progress'
        BY <1>2, <2>1, ObjectFacts
           DEF Apply, Advance, Progress, Behind, TypeOK, Ifaces
    <2> QED BY <2>2, <2>3, <1>2 DEF Apply, Advance, CleanBeforeRunning
<1>3. CASE ApplyFails
    <2>1. held' \in Inventories
        BY <1>3, BlankedOne DEF ApplyFails, TypeOK
    <2> QED BY <1>3, <2>1, ObjectsAssumption
            DEF ApplyFails, Halt, TypeOK, Progress, CleanBeforeRunning, Ifaces
<1>4. CASE Skip
    <2>1. TypeOK'
        BY <1>4, ObjectFacts DEF Skip, Advance, TypeOK, Ifaces
    <2>2. \A i \in Ifaces : held[next][i] = "drive" /\ next \in NVMeSlots
              => i # migration
        BY <1>4 DEF Skip, Applies, Progress
    <2>3. Progress'
        BY <1>4, <2>2, ObjectFacts
           DEF Skip, Advance, Progress, Behind, TypeOK, Ifaces
    <2> QED BY <2>1, <2>3, <1>4 DEF Skip, Advance, CleanBeforeRunning
<1>5. CASE Migrated
    <2>1. \A o \in NVMeSlots : \A i \in Ifaces : Behind(o, i)
        BY <1>5, ObjectFacts DEF Migrated, Behind
    <2> QED BY <1>5, <2>1, ObjectsAssumption
            DEF Migrated, TypeOK, Progress, CleanBeforeRunning
<1>6. CASE Crash
    BY <1>6, ObjectsAssumption
       DEF Crash, Halt, TypeOK, Progress, CleanBeforeRunning, Ifaces
<1>7. ASSUME NEW o \in Objects, UpdateDrive(o) PROVE Inductive'
    <2>1. PICK i \in Ifaces, c \in {"drive", "blank"} : Write(o, i, c)
        BY <1>7 DEF UpdateDrive
    <2>2. c \in Contents
        BY DEF Contents
    <2>3. o \notin NVMeSlots
        BY <1>7 DEF UpdateDrive, NVMeSlots
    <2>4. /\ held' \in Inventories
          /\ \A p \in NVMeSlots : \A j \in Ifaces : held'[p][j] = held[p][j]
        <3>1. held' = [held EXCEPT ![o][i] = c]
            BY <2>1 DEF Write
        <3> QED BY <3>1, <2>2, <2>3, ObjectFacts DEF TypeOK, Inventories
    <2> QED BY <1>7, <2>1, <2>4
            DEF UpdateDrive, Write, TypeOK, Progress, CleanBeforeRunning
<1>8. ASSUME NEW o \in Objects, OldFirmware(o) PROVE Inductive'
    <2>1. PICK i \in Ifaces : Write(o, i, "drive")
        BY <1>8 DEF OldFirmware
    <2>2. "drive" \in Contents
        BY DEF Contents
    <2> QED BY <1>8, <2>1, <2>2, WriteOne
            DEF OldFirmware, Write, TypeOK, Progress, CleanBeforeRunning
<1>9. ASSUME NEW o \in Objects, CollectVPD(o) PROVE Inductive'
    <2>1. "card" \in Contents /\ "vini" \in Ifaces
        BY DEF Contents, Ifaces
    <2>2. /\ held' \in Inventories
          /\ \A p \in Objects : \A j \in Ifaces :
                held'[p][j] = "drive" => held[p][j] = "drive"
        <3>1. held' = [held EXCEPT ![o]["vini"] = "card"]
            BY <1>9 DEF CollectVPD, Write
        <3> QED BY <3>1, <2>1 DEF TypeOK, Inventories
    <2> QED BY <1>9, <2>2, ObjectFacts
            DEF CollectVPD, Write, TypeOK, Progress, Behind,
                CleanBeforeRunning
<1>10. CASE UNCHANGED vars
    BY <1>10 DEF vars, TypeOK, Progress, Behind, CleanBeforeRunning
<1> QED BY <1>1, <1>2, <1>3, <1>4, <1>5, <1>6, <1>7, <1>8, <1>9, <1>10
        DEF Next

LEMMA AlwaysInductive == Spec => []Inductive
BY InitInductive, StepInductive, PTL DEF Spec

(* Every reachable state has the declared types.                           *)
THEOREM MigrationsTypeCorrect == Spec => []TypeOK
<1>1. Inductive => TypeOK
    BY DEF Inductive
<1> QED BY <1>1, AlwaysInductive, PTL

(* No drive is plugged while the description of a drive is left on a slot, *)
(* after any number of failures, crashes and firmware downgrades.          *)
THEOREM CleanBeforeRunningHolds == Spec => []CleanBeforeRunning
<1>1. Inductive => CleanBeforeRunning
    BY DEF Inductive
<1> QED BY <1>1, AlwaysInductive, PTL

------------------------------------------------------------------------------
(* Every step that blanks an interface while the process migrates blanks   *)
(* the one that the snapshot says is to be migrated.                       *)
LEMMA OnlyMigratedBlanked ==
    ASSUME Inductive, [Next]_vars, NEW o \in Objects, NEW i \in Ifaces,
           held[o][i] # "blank", held'[o][i] = "blank",
           pc = "migrating" \/ o \in PCIeSlots
    PROVE  pc = "migrating" /\ Applies(o, i)
<1>1. CASE Apply \/ ApplyFails
    <2>1. next \in Objects /\ Applies(next, migration) /\ pc = "migrating"
        BY <1>1 DEF Apply, ApplyFails
    <2>2. Blanked
        BY <1>1 DEF Apply, ApplyFails
    <2>3. o = next /\ i = migration
        BY <2>1, <2>2, BlankedOne DEF Inductive
    <2> QED BY <2>1, <2>3
<1>2. CASE UNCHANGED held
    BY <1>2
<1>3. ASSUME NEW p \in Objects, UpdateDrive(p) PROVE FALSE
    <2>1. PICK j \in Ifaces, c \in {"drive", "blank"} : Write(p, j, c)
        BY <1>3 DEF UpdateDrive
    <2>2. c \in Contents
        BY DEF Contents
    <2> QED BY <1>3, <2>1, <2>2, WriteOne
            DEF UpdateDrive, Write, Inductive, TypeOK
<1>4. ASSUME NEW p \in Objects, OldFirmware(p) PROVE FALSE
    <2>1. PICK j \in Ifaces : Write(p, j, "drive")
        BY <1>4 DEF OldFirmware
    <2>2. "drive" \in Contents
        BY DEF Contents
    <2> QED BY <2>1, <2>2, WriteOne DEF Write, Inductive, TypeOK
<1>5. ASSUME NEW p \in Objects, CollectVPD(p) PROVE FALSE
    <2>1. "card" \in Contents /\ "vini" \in Ifaces
        BY DEF Contents, Ifaces
    <2> QED BY <1>5, <2>1, WriteOne DEF CollectVPD, Write, Inductive, TypeOK
<1> QED BY <1>1, <1>2, <1>3, <1>4, <1>5
        DEF Next, GetManagedObjects, Skip, Migrated, Crash, vars

(* Migrating blanks nothing that is not on an NVMe slot.                   *)
THEOREM OthersUntouchedHolds == Spec => OthersUntouched
<1> DEFINE Kept == pc = "migrating" =>
                       \A o \in Objects \ NVMeSlots : \A i \in Ifaces :
                           held'[o][i] # "blank" \/ held[o][i] = "blank"
<1>1. Inductive /\ [Next]_vars => [Kept]_vars
    BY OnlyMigratedBlanked DEF Applies
<1> QED BY <1>1, AlwaysInductive, PTL DEF Spec, OthersUntouched

(* The VPD of another device is erased only in the window between the      *)
(* snapshot and the write, and only where the snapshot held a drive's.     *)
THEOREM CardVPDSurvivesHolds == Spec => CardVPDSurvives
<1> DEFINE Kept == \A o \in NVMeSlots :
                       (held[o]["vini"] = "card" /\ held'[o]["vini"] = "blank")
                           => pc = "migrating" /\ snapshot[o]["vini"] = "drive"
<1>1. Inductive /\ [Next]_vars => [Kept]_vars
    <2> SUFFICES ASSUME Inductive, [Next]_vars, NEW o \in NVMeSlots,
                        held[o]["vini"] = "card", held'[o]["vini"] = "blank"
                 PROVE  pc = "migrating" /\ snapshot[o]["vini"] = "drive"
        OBVIOUS
    <2>1. "vini" \in Ifaces /\ o \in Objects /\ o \in PCIeSlots
        BY ObjectFacts DEF Ifaces, NVMeSlots
    <2>2. pc = "migrating" /\ Applies(o, "vini")
        BY <2>1, OnlyMigratedBlanked
    <2> QED BY <2>2 DEF Applies
<1> QED BY <1>1, AlwaysInductive, PTL DEF Spec, CardVPDSurvives
==============================================================================
