---------------------------- MODULE StreamSession ----------------------------
(***************************************************************************)
(* One stream from end to end: the worker of the host library that keeps a *)
(* DAC's buffer filled (dac_loop, dac_send_data, dac_get_acks and          *)
(* check_data_response of driver/libetherdream/etherdream.c), a TCP        *)
(* connection, and the firmware that executes its commands, plays points   *)
(* and answers (firmware/net/point-stream.c, firmware/lib/dac.c).          *)
(*                                                                         *)
(* The host sends "p", "b" and pairs of "q" and "d" without waiting for    *)
(* answers.  Every answer carries the DAC's status at the time it is given *)
(* to TCP, which takes SndMax of them; the others are deferred until the   *)
(* next segment has been processed.  A segment acknowledges the answers    *)
(* that had arrived when it was sent.  Segments arrive whole and in order, *)
(* and a segment is a step: PointStream.tla looks inside.  The clocks of   *)
(* both sides run alike: a Tick is the time of one point.                  *)
(***************************************************************************)
EXTENDS Integers, Sequences, SequencesExt, Functions

CONSTANTS
  Target,          (* Points the host keeps buffered, 1700.                  *)
  BeginAbove,      (* It begins with more points than that, 1600.            *)
  MIN_SEND_POINTS, (* It waits unless more points than that fit, 40.         *)
  Chunk,           (* Points of a data command, 80 at most.                  *)
  MAX_LATE_ACKS,   (* Slots of its ring of unanswered data commands, 64; no  *)
                   (* test keeps it from being overrun, which is not followed*)
  FrameSizes,      (* Points of the frames an application writes.            *)
  Capacity,        (* Points the DAC's ring holds, 1799.                     *)
  SndMax,          (* Answers TCP takes, TCP_SND_QUEUELEN, 22.               *)
  DeferMax,        (* Answers the firmware defers, 23.                       *)
  MaxDelay,        (* Bound: time without an answer the host counts.         *)
  MaxEstops        (* Bound: how often the light engine is stopped.          *)

ASSUME SessionAssumption ==
  /\ {Target, Chunk, MAX_LATE_ACKS, Capacity, SndMax} \subseteq Nat \ {0}
  /\ {BeginAbove, MIN_SEND_POINTS, DeferMax, MaxDelay, MaxEstops} \subseteq Nat
  /\ BeginAbove < Target /\ Target <= Capacity /\ FrameSizes \subseteq Nat \ {0}

VARIABLES
  pc, n,                  \* the worker's place; the points it is to send
  status, elapsed,        \* the last status; time since it was received
  unacked_points, ackbuf, pending_meta_acks, dc_begin_sent,
  points, idx,            \* the current frame and how much of it was sent
  up, down, arrived,      \* segments; answers under way; how many are there
  toAck, snd,             \* answers to acknowledge; answers TCP holds
  dac, fullness, ready,   \* the DAC's state, its points, the light engine
  defer, late, lost,      \* deferred answers; there has been one; and one
                          \* that found no room there and was dropped
  refused,                \* points have been dropped
  estops                  \* stops so far

hostVars  == <<pc, n, points, idx>>
bookVars  == <<status, unacked_points, ackbuf, pending_meta_acks,
               dc_begin_sent>>
netVars   == <<up, down, arrived, toAck, snd>>
playVars  == <<dac, fullness, ready, estops>>
replyVars == <<defer, late, lost, refused>>
vars == <<hostVars, bookVars, elapsed, netVars, playVars, replyVars>>

Status == [state |-> dac, full |-> fullness]

(* dac_connect() has read the hello and the answer to a "p", which a       *)
(* stopped light engine refuses.                                           *)
Init ==
  /\ pc = "idle" /\ n = 0 /\ points = 0 /\ idx = 0
  /\ dac \in {"IDLE", "PREPARED"} /\ fullness = 0 /\ ready = (dac # "IDLE")
  /\ status = Status /\ elapsed = 0
  /\ unacked_points = 0 /\ ackbuf = <<>> /\ pending_meta_acks = 0
  /\ dc_begin_sent = FALSE
  /\ up = <<>> /\ down = <<>> /\ arrived = 0 /\ toAck = 0 /\ snd = 0
  /\ defer = <<>> /\ estops = 0
  /\ late = FALSE /\ lost = FALSE /\ refused = FALSE

Least(a, b) == IF a < b THEN a ELSE b

-----------------------------------------------------------------------------
(* The worker.  send_all() of a segment; it acknowledges what has arrived. *)
SendAll(cmds, count) ==
  /\ up' = Append(up, [cmds |-> cmds, n |-> count, acked |-> toAck])
  /\ toAck' = 0
  /\ UNCHANGED <<down, arrived, snd>>

(* Plausible bug: points that were sent but not answered are not counted.  *)
expected_fullness_acked ==
  status.full - (IF status.state = "PLAYING" THEN elapsed ELSE 0)

expected_fullness ==
  status.full + unacked_points
              - (IF status.state = "PLAYING" THEN elapsed ELSE 0)

cap == Target - expected_fullness

WriteFrame ==
  /\ pc = "idle" /\ pc' = "top" /\ points' \in FrameSizes
  /\ UNCHANGED <<n, idx, bookVars, elapsed, netVars, playVars, replyVars>>

(* dac_send_data() begins when the last status says that enough is there.  *)
BeginIsDue == /\ status.full > BeginAbove /\ status.state = "PREPARED"
              /\ ~dc_begin_sent

BeginIfDue ==
  \/ /\ BeginIsDue /\ SendAll(<<"b">>, 0)
     /\ pending_meta_acks' = pending_meta_acks + 1 /\ dc_begin_sent' = TRUE
  \/ ~BeginIsDue /\ UNCHANGED <<netVars, pending_meta_acks, dc_begin_sent>>

(* Enough room, or not playing: as much as fits, of the frame and of one   *)
(* command.  An idle DAC is prepared first.  Bound: a worker whose index   *)
(* has left the frame is not followed.                                     *)
Estimated == /\ pc = "top" /\ idx >= 0
             /\ n' = Least(Least(cap, points - idx), Chunk)
             /\ UNCHANGED <<points, idx, status, unacked_points, ackbuf,
                            elapsed, playVars, replyVars>>

EstimateIdle ==
  /\ Estimated /\ status.state = "IDLE" /\ pc' = "prepared"
  /\ SendAll(<<"p">>, 0) /\ pending_meta_acks' = pending_meta_acks + 1
  /\ UNCHANGED dc_begin_sent

Estimate ==
  /\ Estimated /\ status.state # "IDLE" /\ pc' = "acks" /\ BeginIfDue
  /\ cap > MIN_SEND_POINTS \/ status.state = "PREPARED"

EstimateFull ==
  /\ pc = "top" /\ cap <= MIN_SEND_POINTS /\ status.state = "PLAYING"
  /\ pc' = "wait"
  /\ UNCHANGED <<n, points, idx, bookVars, elapsed, netVars, playVars,
                 replyVars>>

-----------------------------------------------------------------------------
(* dac_get_acks(), read_resp() and check_data_response().                  *)
Owed == pending_meta_acks > 0 \/ ackbuf # <<>>

(* Plausible bug: dc_begin_sent is not reset when the DAC is found idle.   *)
check_data_response_begun(a) ==
  /\ dc_begin_sent' = dc_begin_sent
  /\ IF a.cmd = "d"
     THEN /\ ackbuf # <<>> /\ ackbuf' = Tail(ackbuf)
          /\ unacked_points' = unacked_points - Head(ackbuf)
          /\ UNCHANGED pending_meta_acks
     ELSE /\ pending_meta_acks' = pending_meta_acks - 1
          /\ UNCHANGED <<ackbuf, unacked_points>>

(* Plausible bug: the answer to q already takes the data off the books.    *)
check_data_response_any(a) ==
  /\ dc_begin_sent' = (dc_begin_sent /\ a.status.state # "IDLE")
  /\ IF a.cmd = "q" /\ ackbuf # <<>>
     THEN /\ ackbuf' = Tail(ackbuf)
          /\ unacked_points' = unacked_points - Head(ackbuf)
          /\ UNCHANGED pending_meta_acks
     ELSE /\ pending_meta_acks' = pending_meta_acks - 1
          /\ UNCHANGED <<ackbuf, unacked_points>>

check_data_response(a) ==
  /\ dc_begin_sent' = (dc_begin_sent /\ a.status.state # "IDLE")
  /\ IF a.cmd = "d"
     THEN /\ ackbuf # <<>> /\ ackbuf' = Tail(ackbuf)
          /\ unacked_points' = unacked_points - Head(ackbuf)
          /\ UNCHANGED pending_meta_acks
     ELSE /\ pending_meta_acks' = pending_meta_acks - 1
          /\ UNCHANGED <<ackbuf, unacked_points>>

ReadAnswer ==
  /\ pc \in {"wait", "prepared", "acks"} /\ Owed /\ arrived > 0
  /\ status' = Head(down).status /\ elapsed' = 0
  /\ check_data_response(Head(down))
  /\ down' = Tail(down) /\ arrived' = arrived - 1
  /\ UNCHANGED <<hostVars, up, toAck, snd, playVars, replyVars>>

NoMore == ~Owed \/ arrived = 0

Waited ==
  /\ pc = "wait" /\ NoMore /\ pc' = "top"
  /\ UNCHANGED <<n, points, idx, bookVars, elapsed, netVars, playVars,
                 replyVars>>

(* Only answers that have to do with no points are waited for.             *)
PrepareAcked ==
  /\ pc = "prepared" /\ NoMore /\ pending_meta_acks = 0 /\ pc' = "acks"
  /\ BeginIfDue
  /\ UNCHANGED <<n, points, idx, status, unacked_points, ackbuf, elapsed,
                 playVars, replyVars>>

(* Plausible bug: off by one at the end of the frame.                      *)
Advance_late ==
  IF idx + n <= points
  THEN /\ idx' = idx + n /\ pc' = "top" /\ UNCHANGED points
  ELSE /\ idx' = 0
       /\ \/ pc' = "top" /\ points' \in FrameSizes
          \/ pc' = "idle" /\ points' = 0

(* The points, and what is next: more of this frame, it or another one     *)
(* from its start, or nothing.                                             *)
Advance ==
  IF idx + n < points
  THEN /\ idx' = idx + n /\ pc' = "top" /\ UNCHANGED points
  ELSE /\ idx' = 0
       /\ \/ pc' = "top" /\ points' \in FrameSizes
          \/ pc' = "idle" /\ points' = 0

SendData ==
  /\ pc = "acks" /\ NoMore /\ n > 0 /\ Advance /\ n' = 0
  /\ Len(ackbuf) < MAX_LATE_ACKS - 1
  /\ SendAll(<<"q", "d">>, n) /\ pending_meta_acks' = pending_meta_acks + 1
  /\ ackbuf' = Append(ackbuf, n) /\ unacked_points' = unacked_points + n
  /\ UNCHANGED <<status, dc_begin_sent, elapsed, playVars, replyVars>>

SendNothing ==
  /\ pc = "acks" /\ NoMore /\ n <= 0 /\ Advance /\ n' = 0
  /\ UNCHANGED <<bookVars, elapsed, netVars, playVars, replyVars>>

Worker == \/ EstimateIdle \/ Estimate \/ EstimateFull \/ ReadAnswer \/ Waited
          \/ PrepareAcked \/ SendData \/ SendNothing

-----------------------------------------------------------------------------
(* The network: an answer arrives; an acknowledgement travels by itself.   *)
Arrive ==
  /\ arrived < Len(down) /\ arrived' = arrived + 1 /\ toAck' = toAck + 1
  /\ UNCHANGED <<hostVars, bookVars, elapsed, up, down, snd, playVars,
                 replyVars>>

PureAck ==
  /\ toAck > 0 /\ toAck' = 0 /\ snd' = snd - toAck
  /\ UNCHANGED <<hostVars, bookVars, elapsed, up, down, arrived, playVars,
                 replyVars>>

-----------------------------------------------------------------------------
(* The firmware.  recv_fsm() executes one command; points that find no     *)
(* room are dropped, and so are all if the DAC is idle.                    *)
Executed(cmd, count) ==
  CASE cmd = "p" /\ dac = "IDLE" /\ ready -> [state |-> "PREPARED", full |-> 0]
    [] cmd = "b" /\ dac = "PREPARED" -> [Status EXCEPT !.state = "PLAYING"]
    [] cmd = "d" /\ dac # "IDLE" ->
         [Status EXCEPT !.full = Least(fullness + count, Capacity)]
    [] OTHER -> Status

(* What process_packet() leaves of a segment's commands: the first ones    *)
(* are answered at once, the others deferred or dropped; deferred answers  *)
(* of earlier segments are written behind, with the status of then.        *)
Answer(cmd, play) == [cmd |-> cmd, status |-> play]

(* How many of the deferred answers TCP takes.                             *)
ps_send_deferred_acks(room) == Least(room, Len(defer))

(* Only the last command of a segment has an effect: another one is a "q". *)
Receive ==
  /\ up # <<>> /\ up' = Tail(up)
  /\ LET seg  == Head(up)
         cmds == seg.cmds
         room == SndMax - (snd - seg.acked)
         end  == Executed(Last(cmds), seg.n)
         now  == Least(room, Len(cmds))
         old  == ps_send_deferred_acks(room - now)
         kept == SubSeq(defer, old + 1, Len(defer))
                 \o SubSeq(cmds, now + 1, Len(cmds))
     IN /\ dac' = end.state /\ fullness' = end.full
        /\ down' = down
             \o [i \in 1 .. now |->
                  Answer(cmds[i], IF i < Len(cmds) THEN Status ELSE end)]
             \o [i \in 1 .. old |-> Answer(defer[i], end)]
        /\ snd' = snd - seg.acked + now + old
        /\ defer' = SubSeq(kept, 1, Least(Len(kept), DeferMax))
        /\ late' = (late \/ now < Len(cmds))
        /\ lost' = (lost \/ Len(kept) > DeferMax)
        /\ refused' = (refused \/ (seg.n > 0 /\ end.full # fullness + seg.n))
  /\ UNCHANGED <<hostVars, bookVars, elapsed, arrived, toAck, ready, estops>>

(* The time of a point passes: the DAC plays it or runs dry.               *)
Tick ==
  /\ \/ dac = "PLAYING"
     \/ status.state = "PLAYING" /\ elapsed < MaxDelay
  /\ elapsed' = IF status.state = "PLAYING" THEN Least(elapsed + 1, MaxDelay)
                ELSE 0
  /\ dac' = IF dac = "PLAYING" /\ fullness = 0 THEN "IDLE" ELSE dac
  /\ fullness' = IF dac = "PLAYING" /\ fullness > 0 THEN fullness - 1
                 ELSE fullness
  /\ UNCHANGED <<hostVars, bookVars, netVars, ready, estops, replyVars>>

(* le_estop() and le_estop_clear() on behalf of the link or another client.*)
Estop ==
  /\ ready /\ estops < MaxEstops /\ ready' = FALSE /\ estops' = estops + 1
  /\ dac' = "IDLE" /\ UNCHANGED fullness
  /\ UNCHANGED <<hostVars, bookVars, elapsed, netVars, replyVars>>

EstopClear ==
  /\ ~ready /\ ready' = TRUE
  /\ UNCHANGED <<hostVars, bookVars, elapsed, netVars, dac, fullness, estops,
                 replyVars>>

-----------------------------------------------------------------------------
Next == \/ WriteFrame \/ Worker \/ Arrive \/ PureAck \/ Receive
        \/ Tick \/ Estop \/ EstopClear

Spec == Init /\ [][Next]_vars

(* Both programs run, the network delivers, time passes and a stopped      *)
(* light engine is cleared; an application may never write again.          *)
FairSpec == /\ Spec /\ WF_vars(Worker) /\ WF_vars(Arrive) /\ WF_vars(PureAck)
            /\ WF_vars(Receive) /\ WF_vars(Tick) /\ WF_vars(EstopClear)
=============================================================================
