--------------------------- MODULE StreamSessionMC ---------------------------
(* Instances of a stream for TLC.                                          *)
EXTENDS StreamSessionSafety
=============================================================================
