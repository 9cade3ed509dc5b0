---------------------------- MODULE PointStreamMC ----------------------------
(* Instances of the point stream protocol for TLC.                         *)
EXTENDS PointStreamSafety

Plain(op) == [op |-> op, n |-> 0, over |-> FALSE]
Data(k)   == [op |-> "d", n |-> k, over |-> FALSE]

Over(op)  == [op |-> op, n |-> 0, over |-> TRUE]

AllCommands == {Plain(op) : op \in {"p", "b", "q", "v", "u", "s", "e", "c", "x", "?"}}
               \union {Data(0), Data(2), Over("b")}
=============================================================================
