---------------------------- MODULE MCRainierDrives ----------------------------
(* RainierDrives on a few bays and serial numbers.                         *)
EXTENDS RainierDrives, TLC

(* The serial numbers are interchangeable.                                 *)
SerialSymmetry == Permutations(Serials)
==============================================================================
