--------------------------- MODULE MCDriveBackplane ---------------------------
(* DriveBackplane on a few bays and serial numbers.                        *)
EXTENDS DriveBackplane, TLC

(* The serial numbers are interchangeable; the bays are not, plug() and    *)
(* unplug() walk them in order.                                            *)
SerialSymmetry == Permutations(Serials)
==============================================================================
