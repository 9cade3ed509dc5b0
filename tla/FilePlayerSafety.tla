-------------------------- MODULE FilePlayerSafety --------------------------
(***************************************************************************)
(* What the file player promises.                                          *)
(***************************************************************************)
EXTENDS FilePlayer

TypeOK ==
  /\ file \in 0 .. Len(Files) /\ fptr \in Nat
  /\ file # None => fptr <= Len(Items)
  /\ fplay_state \in {"BETWEEN_FRAMES", "ILDA", "SMALL_FRAME", "BAD"}
  /\ fplay_points_left \in 0 .. pointcount /\ fplay_repeat_count \in Nat
  /\ fplay_state = "SMALL_FRAME" => pointcount <= SMALL_FRAME_THRESHOLD
  /\ fplay_offset \in Int /\ drift \in Int
  /\ pointcount \in Nat /\ fplay_frame_start \in Nat
  /\ small \in [1 .. SMALL_FRAME_THRESHOLD -> Item]
  /\ ppf \in Int /\ request \in Nat \cup {-1} /\ commands \in 0 .. MaxCommands
  /\ src \in {"NETWORK", "ILDAPLAYER", "ABSTRACT"}
  /\ playing \in BOOLEAN /\ repeat \in BOOLEAN /\ active \in BOOLEAN
  /\ ready \in BOOLEAN /\ failed \in BOOLEAN
  /\ line \in 0 .. Len(Script)
  /\ dac \in {"IDLE", "PREPARED", "PLAYING"}
  /\ ring \in Seq(Item) /\ Len(ring) < DAC_BUFFER_POINTS /\ produce \in 0 .. DAC_BUFFER_POINTS - 1
  /\ dlen \in 0 .. DAC_BUFFER_POINTS
  /\ pc \in {"autoplay", "eth", "ilda", "refill", "header", "read", "panic"}

(* Point b may come right after point a: the next point of the frame; the  *)
(* first point of the same frame or of the next one after the last; or the *)
(* first point of a file that was opened or started again.                 *)
Follows(a, b) ==
  \/ b.file = a.file /\ b.frame = a.frame /\ b.k = a.k + 1
  \/ b.file = a.file /\ a.k = a.n /\ b.k = 1 /\ b.frame \in {a.frame, a.frame + 1}
  \/ b.frame = 1 /\ b.k = 1

(* What plays is the file, whole frames in their order, through replays    *)
(* from memory, frames read again from the card, a file that starts over,  *)
(* one opened in the middle of another, and reads that fail.               *)
FramesInOrder ==
  /\ \A i \in 1 .. Len(ring) - 1 : Follows(ring[i], ring[i + 1])
  /\ \A i \in 1 .. Len(ring) : ring[i].k > 0

(* A frame of the file that the show lags behind by half at most.          *)
LagsByHalf(i) ==
  Items[i].k = 0 /\ Items[i].n > 0 /\ 2 * fplay_offset >= -Items[i].n

(* Between two frames fplay_offset is the number of points shown beyond    *)
(* those due, whatever the frames' lengths and repeats were and whenever   *)
(* the limit was changed, and the show lags by no more than half of one of *)
(* the frames it has reached.                                              *)
PaceKept ==
  fplay_state = "BETWEEN_FRAMES" =>
    /\ fplay_offset = drift
    /\ file # None /\ fptr > 0 => \E i \in 1 .. fptr : LagsByHalf(i)

(* fplay_state is never a value ilda_do_read_points does not know          *)
(* (ild-player.c:531).                                                     *)
NoPanic == pc # "panic"

(* Points that were read are played: a DAC that is prepared and has some   *)
(* is started, or stopped by a command, unless a read failed.              *)
ReadIsPlayed ==
  (dac = "PREPARED" /\ ring # <<>>) ~> (dac # "PREPARED" \/ failed)

(* A file that is not repeated ends, and the script goes on to its own     *)
(* end: it is not left waiting for a file that will never finish.          *)
ScriptEnds ==
  <>(~active \/ (playing /\ (repeat \/ src # "ILDAPLAYER")) \/ pc = "panic")
-----------------------------------------------------------------------------
(* Why: what is true of the reader and the ring at every step.             *)

(* The refill goes on reading only while the player has the source and is  *)
(* to play; a frame is open for it then.                                   *)
Live    == src = "ILDAPLAYER" /\ playing
InFile  == fplay_state = "ILDA" /\ file # None /\ Live
InFrame == fplay_state = "SMALL_FRAME" \/ InFile

(* Whatever dac_request promised is still there when the points come.      *)
RefillInv ==
  /\ dac = "IDLE" => ring = <<>>
  /\ pc \in {"header", "read"} =>
       /\ Live /\ dlen > 0
       /\ (pc = "header") = (fplay_state = "BETWEEN_FRAMES")
       /\ dac # "IDLE" => Len(ring) + dlen < DAC_BUFFER_POINTS

(* In a frame, what is left of it and of its repeats is what is missing    *)
(* from the offset that was computed when it was opened.                   *)
PaceInv ==
  /\ fplay_state = "BETWEEN_FRAMES" => fplay_offset = drift
  /\ InFrame =>
       /\ fplay_repeat_count > 0 /\ fplay_points_left > 0
       /\ fplay_offset =
            drift + fplay_points_left + (fplay_repeat_count - 1) * pointcount
  /\ InFile => /\ fplay_frame_start \in 1 .. fptr
               /\ \E i \in 1 .. fplay_frame_start : LagsByHalf(i)
  /\ file # None => IF fptr = 0 THEN fplay_offset = 0
                    ELSE \E i \in 1 .. fptr : LagsByHalf(i)

(* The header of the frame that is open.                                   *)
OpenHeader ==
  IF fplay_state = "SMALL_FRAME" THEN small[1] ELSE Items[fplay_frame_start]

(* The next item of the file is a header: frame f's.                       *)
NextIsFrame(f) ==
  fptr < Len(Items) /\ Items[fptr + 1].k = 0 => Items[fptr + 1].frame = f

(* The ring ends with the point before the one that is read next.          *)
OrderInv ==
  /\ FramesInOrder
  /\ InFile => OpenHeader.k = 0 /\ fptr = fplay_frame_start + PointNo
  /\ InFrame =>
       /\ OpenHeader.n = pointcount
       /\ ring # <<>> => Follows(Last(ring), PointAt(OpenHeader, PointNo + 1))
  /\ InFile /\ pointcount <= SMALL_FRAME_THRESHOLD =>
       \A k \in 1 .. PointNo : small[k] = PointAt(OpenHeader, k)
  /\ fplay_state = "SMALL_FRAME" =>
       /\ \A k \in 1 .. pointcount : small[k] = PointAt(OpenHeader, k)
       /\ file # None => /\ OpenHeader.file = file /\ fptr > 0
                         /\ NextIsFrame(OpenHeader.frame + 1)
  /\ fplay_state = "BETWEEN_FRAMES" /\ file # None =>
       IF fptr = 0 THEN NextIsFrame(1)
       ELSE ring # <<>> => /\ Last(ring).file = file
                           /\ Last(ring).k = Last(ring).n
                           /\ NextIsFrame(Last(ring).frame + 1)
=============================================================================
