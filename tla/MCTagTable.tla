----------------------------- MODULE MCTagTable -----------------------------
(* TagTable on a few devices, with the values of the constants in the .cfg.  *)
EXTENDS TagTable, TLC

DeviceSymmetry == Permutations(Device)
=============================================================================
