--------------------------- MODULE MCGatewayCycle ---------------------------
(* GatewayCycle, with the values of the constants in the .cfg files.         *)
EXTENDS GatewayCycle
=============================================================================
