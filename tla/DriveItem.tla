------------------------------ MODULE DriveItem ------------------------------
(***************************************************************************)
(* What the inventory promises about one NVMe drive, whichever platform    *)
(* publishes it.  An inventory object carries the Present property of      *)
(* xyz.openbmc_project.Inventory.Item and two interfaces filled in from    *)
(* the drive: Decorator.I2CDevice (bus and address) and com.ibm.ipzvpd.    *)
(* VINI (the serial number).  A consumer that sees Present = true may read *)
(* both interfaces and must find the values of a drive there.              *)
(***************************************************************************)
CONSTANTS Serials,  \* serial numbers a drive can report
          Blank     \* the value VINI() writes on removal: an empty serial

VARIABLES present,  \* Item.Present
          i2c,      \* Decorator.I2CDevice holds a bus and an address
          vini      \* the SN keyword of VINI

vars == <<present, i2c, vini>>

Init == present = FALSE /\ i2c = FALSE /\ vini = Blank

Complete == i2c /\ vini \in Serials

(* An interface may be filled in, or filled in again, at any time.         *)
Describe == /\ \/ i2c' = TRUE /\ vini' = vini
               \/ i2c' = i2c /\ vini' \in Serials
            /\ UNCHANGED present

(* The drive is announced once everything about it has been published...   *)
Announce == Complete /\ present' = TRUE /\ UNCHANGED <<i2c, vini>>

(* ... can be withdrawn at any time ...                                    *)
Withdraw == present' = FALSE /\ UNCHANGED <<i2c, vini>>

(* ... and its description is blanked only once it has been withdrawn.     *)
Erase == /\ ~present
         /\ \/ i2c' = FALSE /\ vini' = vini
            \/ i2c' = i2c /\ vini' = Blank
         /\ UNCHANGED present

Next == Describe \/ Announce \/ Withdraw \/ Erase

Spec == Init /\ [][Next]_vars

(* A drive announced as present is completely described.                   *)
AnnouncedIsDescribed == present => Complete
==============================================================================
