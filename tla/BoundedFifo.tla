----------------------------- MODULE BoundedFifo -----------------------------
(***************************************************************************)
(* What each ring of the DAC driver promises: a bounded queue that, while  *)
(* it is in service, delivers every item once and in the order they were   *)
(* put in.  Only taking it out of service empties it.                      *)
(***************************************************************************)
EXTENDS Integers, Sequences

CONSTANTS
  Item,      (* What the queue carries.                                      *)
  Capacity,  (* How many items it holds at most.                             *)
  MaxPut     (* How many items one put adds at most.                         *)

VARIABLES q, active

Init == q = <<>> /\ ~active

Open   == ~active /\ active' /\ UNCHANGED q
Put(s) == active /\ Len(q) + Len(s) <= Capacity /\ q' = q \o s
          /\ UNCHANGED active
Get    == active /\ q # <<>> /\ q' = Tail(q) /\ UNCHANGED active
Close  == active /\ ~active' /\ q' = <<>>

PutSome == \E n \in 1 .. MaxPut : \E s \in [1 .. n -> Item] : Put(s)

Next == Open \/ PutSome \/ Get \/ Close

Spec == Init /\ [][Next]_<<q, active>>
=============================================================================
