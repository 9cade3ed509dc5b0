----------------------------- MODULE FirmwareMC -----------------------------
(* Instances of the playback control for TLC.                              *)
EXTENDS FirmwareSafety

CONSTANTS p, s, blank, gen, slow, fast

OnePoint   == {p}
TwoPoints  == {p, s}
NoPoints   == {}
SwitchOnly == {s}
OneRate    == {slow}
TwoRates   == {slow, fast}

ControlOps == {"prepare", "start", "stop", "estop", "clear", "source", "flag",
               "write", "link", "rate", "queue"}
StreamOps  == {"prepare", "start", "stop", "write", "queue"}
PlayOps    == {"prepare", "start", "estop", "clear", "write"}
LinkOps    == {"prepare", "start", "stop", "estop", "clear", "write", "link"}
=============================================================================
