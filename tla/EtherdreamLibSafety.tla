------------------------ MODULE EtherdreamLibSafety ------------------------
(***************************************************************************)
(* The properties of the host library: what it keeps, and what its header  *)
(* promises.                                                               *)
(***************************************************************************)
EXTENDS EtherdreamLib

(***************************************************************************)
(* The slot the application fills without the mutex is never the one the   *)
(* worker sends from without the mutex.                                    *)
(***************************************************************************)
NoTornFrame ==
  app \in {"fill", "publish"} /\ worker \in {"send", "prepare"} =>
    slot # frame_buffer_read

(***************************************************************************)
(* Frames are begun in the order they were written and none is left out,   *)
(* through repeats, idling, stops and the wrap of the ring.                *)
(***************************************************************************)
FramesInOrder ==
  [][connects' = connects /\ playing' # playing => playing' = playing + 1]_vars

(***************************************************************************)
(* An application asleep in wait_for_ready gets room, even behind a frame  *)
(* that repeats for ever, as long as the connection lives.                 *)
(***************************************************************************)
WriterGetsRoom == app = "asleep" ~> app # "asleep" \/ ~sock

(***************************************************************************)
(* The frame being sent when etherdream_stop is called comes to an end     *)
(* even if it was to repeat for ever, as long as the connection lives.     *)
(***************************************************************************)
StoppedFrameEnds ==
  stopping # 0 ~>
    stopping = 0 \/ playing > stopping \/ state # "RUNNING" \/ ~sock

(***************************************************************************)
(* A frame with a positive repeatcount is sent at most that often: "the    *)
(* points will be sent repeatedly at most npts times, and then the stream  *)
(* will automatically stop" (etherdream.h; the count meant is repeatcount).*)
(***************************************************************************)
AtMostRepeats ==
  (\A r \in Repeats : r > 0) =>
    \A f \in Frames : \E r \in Repeats : started[f] <= r

(***************************************************************************)
(* etherdream_disconnect returns.                                          *)
(***************************************************************************)
DisconnectReturns == app = "join" ~> app # "join"
=============================================================================
