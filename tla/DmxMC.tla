-------------------------------- MODULE DmxMC --------------------------------
(* Instances of the DMX driver for TLC: channels of two levels.            *)
EXTENDS DmxSafety

Levels == {-1, 1, 2}
=============================================================================
