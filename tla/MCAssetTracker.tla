--------------------------- MODULE MCAssetTracker ---------------------------
(* AssetTracker, with the values of the constants in the .cfg file.          *)
EXTENDS AssetTracker, TLC

DeviceSymmetry == Permutations(Device)
=============================================================================
