--------------------------- MODULE EtherdreamLibMC ---------------------------
(* Instances of the host library for TLC.                                  *)
EXTENDS EtherdreamLibSafety

Once       == {1}
AllRepeats == {1, 2, -1}
AllOps     == {"wait", "stop", "disconnect"}
=============================================================================
