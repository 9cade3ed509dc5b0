----------------------------- MODULE EthernetMC -----------------------------
(* Instances of the Ethernet driver for TLC.                               *)
EXTENDS EthernetSafety
=============================================================================
