------------------------------- MODULE BootMC -------------------------------
(* Instances of the boot loader for TLC: two images, of one and two pages.         *)
EXTENDS BootSafety

TwoImages  == {"A", "B"}
TwoLengths == [i \in TwoImages |-> IF i = "A" THEN 1 ELSE 2]
=============================================================================
