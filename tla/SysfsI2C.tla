-------------------------------- MODULE SysfsI2C --------------------------------
(***************************************************************************)
(* The I2C devices that sysfs shows, and the operations of SysfsI2CBus that*)
(* instantiate and delete them.  A bus or a device is its path, the numbers*)
(* that lead to it: <<6>> is the adapter i2c-6, <<6, 112>> the device at   *)
(* 0x70 on it, <<6, 112, 3>> channel 3 of that mux.                        *)
(***************************************************************************)
EXTENDS Naturals, Sequences

VARIABLES
    devices,  \* the devices that exist: they outlive the process
    refused   \* those the kernel has refused to delete for this process

sysfs == <<devices, refused>>

(* Deleting a mux deletes the buses behind it, and all that is on them.    *)
Behind(mux, dev) ==
    Len(mux) < Len(dev) /\ \A i \in 1 .. Len(mux) : dev[i] = mux[i]
Tree(dev) == {dev} \cup {d \in devices : Behind(dev, d)}

(* A device that exists, be it since an earlier life of the process, is    *)
(* taken as it is.                                                         *)
RequireDevice(dev) == devices' = devices \cup {dev} /\ UNCHANGED refused

(* deleteDevice() only warns when the kernel does not take the write; a    *)
(* device that does not exist is a warning too.                            *)
Deleted(dev) == devices' = devices \ Tree(dev) /\ refused' = refused \ Tree(dev)
Refused(dev) == UNCHANGED devices /\ refused' = refused \cup {dev}

ReleaseDevice(dev, mayFail) ==
    \/ dev \in devices /\ Deleted(dev)
    \/ dev \in devices /\ mayFail /\ Refused(dev)
    \/ dev \notin devices /\ UNCHANGED sysfs
==============================================================================
