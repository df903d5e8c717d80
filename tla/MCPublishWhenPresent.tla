------------------------- MODULE MCPublishWhenPresent -------------------------
(* PublishWhenPresent on a few items and serial numbers.                   *)
EXTENDS PublishWhenPresent, TLC

(* Neither the items nor the serial numbers are told apart.                *)
ItemSymmetry == Permutations(Paths) \cup Permutations(Serials)
==============================================================================
