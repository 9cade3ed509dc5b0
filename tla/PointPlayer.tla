----------------------------- MODULE PointPlayer -----------------------------
(***************************************************************************)
(* What the DAC promises of points: the points accepted since it was last  *)
(* prepared are shown once each and in order; when it stops, the output    *)
(* goes dark and the rest of the queue is forgotten.  While the queue is   *)
(* not being played the output may show the generator's points.            *)
(***************************************************************************)
EXTENDS Integers, Sequences

CONSTANTS
  Item, Capacity, MaxPut,  (* As in BoundedFifo.                             *)
  Dark,                    (* The blank output.                              *)
  Other                    (* What the generator may show.                   *)

VARIABLES q, active, shown

F == INSTANCE BoundedFifo

Init == F!Init /\ shown = Dark

Prepare  == F!Open /\ UNCHANGED shown
Accept   == F!PutSome /\ UNCHANGED shown
Play     == F!Get /\ shown' = Head(q)
Generate == shown' \in Other /\ UNCHANGED <<q, active>>
Darken   == shown' = Dark /\ UNCHANGED <<q, active>>
Stop     == F!Close /\ shown' = Dark

Next == Prepare \/ Accept \/ Play \/ Generate \/ Darken \/ Stop

Spec == Init /\ [][Next]_<<q, active, shown>>
=============================================================================
