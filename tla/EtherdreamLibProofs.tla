------------------------- MODULE EtherdreamLibProofs -------------------------
(***************************************************************************)
(* Proofs about EtherdreamLib.tla, for every number of slots, parts of a   *)
(* frame and frames, with failures, stops and disconnects.                 *)
(*                                                                         *)
(* The application and the worker each use a slot without the mutex, so    *)
(* what they rely on must be kept by every step of the other one.  RingInv *)
(* says which slots are whose, OrderInv which frames are in them.          *)
(***************************************************************************)
EXTENDS EtherdreamLibSafety, TLAPS

(* The i-th slot from the read index, and the frame number it must hold.   *)
At(i) == IF frame_buffer_read + i < BUFFER_NFRAMES THEN frame_buffer_read + i
         ELSE frame_buffer_read + i - BUFFER_NFRAMES

Published == IF app \in {"fill", "publish"} THEN written - 1 ELSE written
HeadFrame == Published - frame_buffer_fullness + 1

(* A slot being filled is the one behind the full ones; a frame stays in   *)
(* the ring while it is sent, and for as long as the state is RUNNING.     *)
RingInv ==
  /\ app \in {"fill", "publish"} =>
       /\ frame_buffer_fullness < BUFFER_NFRAMES
       /\ slot = At(frame_buffer_fullness)
  /\ state = "RUNNING" => frame_buffer_fullness > 0
  /\ worker \in {"send", "prepare", "next"} => frame_buffer_fullness > 0

(* The full slots hold consecutive frames, the last of them the last one   *)
(* published; the frame last begun is the first of them or the one before. *)
OrderInv ==
  /\ \A i \in 0 .. frame_buffer_fullness - 1 :
       buffer[At(i)].frame = HeadFrame + i
  /\ app = "publish" => buffer[slot].frame = written
  /\ app \in {"fill", "publish"} => written > 0
  /\ frame_buffer_fullness = 0 => Published = 0 /\ playing = 0
  /\ frame_buffer_fullness > 0 => playing \in {HeadFrame, HeadFrame - 1}
  /\ worker = "next" => playing = HeadFrame

LibInv == TypeOK /\ RingInv /\ OrderInv

(* The ring wraps at most once.                                            *)
LEMMA Remainder ==
  ASSUME NEW N \in Nat \ {0}, NEW a \in Nat, a < 2 * N
  PROVE  a % N = IF a < N THEN a ELSE a - N
<1>1. CASE a < N
  BY <1>1, SMT
<1>2. CASE ~(a < N)
  <2>1. a - N \in 0 .. N - 1
    BY <1>2, SMT
  <2>2. a = 1 * N + (a - N)
    BY SMT
  <2>3. QED
    BY <1>2, <2>1, <2>2, SMT
<1>3. QED
  BY <1>1, <1>2

(* So an index i slots behind the read index is At(i).                     *)
LEMMA Wrapped ==
  ASSUME TypeOK, NEW i \in 0 .. BUFFER_NFRAMES
  PROVE  (frame_buffer_read + i) % BUFFER_NFRAMES = At(i)
<1>1. /\ BUFFER_NFRAMES \in Nat \ {0} /\ frame_buffer_read \in Nat /\ i \in Nat
      /\ frame_buffer_read + i < 2 * BUFFER_NFRAMES
  BY LibAssumption DEF TypeOK, Slots
<1>2. (frame_buffer_read + i) % BUFFER_NFRAMES
        = IF frame_buffer_read + i < BUFFER_NFRAMES THEN frame_buffer_read + i
          ELSE (frame_buffer_read + i) - BUFFER_NFRAMES
  <2> DEFINE a == frame_buffer_read + i
  <2>1. a \in Nat /\ a < 2 * BUFFER_NFRAMES
    BY <1>1
  <2> HIDE DEF a
  <2>2. a % BUFFER_NFRAMES
          = IF a < BUFFER_NFRAMES THEN a ELSE a - BUFFER_NFRAMES
    BY ONLY <1>1, <2>1, Remainder, Zenon
  <2>3. QED
    BY <2>2 DEF a
<1>3. QED
  BY ONLY <1>1, <1>2 DEF At

-----------------------------------------------------------------------------
(* Type correctness.                                                       *)

(* Waking and looping leave a thread at a known place.                     *)
LEMMA Places ==
  /\ WorkerWoken \in {"top", worker} /\ (worker = "asleep" => WorkerWoken = "top")
  /\ AppWoken \in {"test", app} /\ (app # "asleep" => AppWoken = app)
  /\ \A st : AtTop(st) \in {"asleep", "send", "exit"}
  /\ \A st : AtTop(st) = "send" <=> st = "RUNNING"
BY DEF WorkerWoken, AppWoken, AtTop

LEMMA InitLib == Init => LibInv
<1> SUFFICES ASSUME Init PROVE LibInv
  OBVIOUS
<1> USE LibAssumption DEF Init
<1>1. buffer \in [Slots -> [frame : 0 .. MaxFrames, repeatcount : Int,
                           idx : 0 .. Chunks - 1]]
  BY DEF NoFrame
<1>2. TypeOK
  <2>1. started \in [Frames -> 0 .. MaxStarts]
    OBVIOUS
  <2>2. 0 \in Slots
    BY DEF Slots
  <2>3. /\ state \in States /\ app = "idle" /\ worker = "none" /\ reps = 0
        /\ held \in BOOLEAN /\ sock \in BOOLEAN
    BY DEF States
  <2>4. /\ frame_buffer_read \in Slots /\ slot \in Slots /\ connects \in Nat
        /\ frame_buffer_fullness \in 0 .. BUFFER_NFRAMES
        /\ written \in 0 .. MaxFrames /\ playing \in 0 .. MaxFrames
        /\ stopping \in 0 .. MaxFrames
    BY <2>2
  <2>5. QED
    BY ONLY <1>1, <2>1, <2>3, <2>4 DEF TypeOK
<1>3. RingInv
  BY DEF RingInv
<1>4. OrderInv
  <2>1. 0 .. frame_buffer_fullness - 1 = {}
    OBVIOUS
  <2>2. QED
    BY <2>1 DEF OrderInv, Published
<1>5. QED
  BY <1>2, <1>3, <1>4 DEF LibInv

LEMMA TypeStep == TypeOK /\ RingInv /\ [Next]_vars => TypeOK'
<1> SUFFICES ASSUME TypeOK, RingInv, [Next]_vars PROVE TypeOK'
  OBVIOUS
<1> USE LibAssumption, Places
    DEF TypeOK, ringVars, appVars, logVars
<1>1. CASE etherdream_connect
  BY <1>1 DEF etherdream_connect, Fresh, States, Slots, Frames, NoFrame
<1>2. ASSUME NEW r \in Repeats, WriteBegin(r) PROVE TypeOK'
  <2>1. slot' \in Slots
    BY <1>2, Remainder DEF WriteBegin, Slots, Full
  <2>2. written' \in 0 .. MaxFrames /\ reps' \in Repeats \union {0}
    BY <1>2 DEF WriteBegin
  <2>3. QED
    BY <1>2, <2>1, <2>2 DEF WriteBegin
<1>3. CASE WriteFill
  BY <1>3 DEF WriteFill
<1>4. CASE WritePublish
  BY <1>4 DEF WritePublish, RingInv, States
<1>5. CASE WaitTest
  BY <1>5 DEF WaitTest
<1>6. CASE WaitSleep
  BY <1>6 DEF WaitSleep
<1>7. CASE etherdream_stop
  BY <1>7 DEF etherdream_stop
<1>8. CASE DisconnectBegin
  BY <1>8 DEF DisconnectBegin, States
<1>9. CASE DisconnectJoin
  BY <1>9 DEF DisconnectJoin
<1>10. CASE LoopTop
  BY <1>10 DEF LoopTop
<1>11. ASSUME SendPart PROVE /\ playing' \in 0 .. MaxFrames
                            /\ started' \in [Frames -> 0 .. MaxStarts]
                            /\ worker' = "next"
  BY SMTT(20), <1>11 DEF SendPart, Frames
<1>12. CASE Send
  BY <1>11, <1>12 DEF Send
<1>13. CASE PrepareAcked
  BY <1>11, <1>13 DEF PrepareAcked
<1>14. CASE AfterPart
  <2>1. CASE NextPart
    BY <1>14, <2>1 DEF AfterPart, NextPart, MoreParts
  <2>2. CASE NextRepeat
    BY <1>14, <2>2 DEF AfterPart, NextRepeat
  <2>3. CASE NextFrame
    <3>1. frame_buffer_read' \in Slots
      <4>1. /\ frame_buffer_read + 1 \in Nat
            /\ frame_buffer_read + 1 < 2 * BUFFER_NFRAMES
        BY DEF Slots
      <4>2. frame_buffer_read' = (frame_buffer_read + 1) % BUFFER_NFRAMES
        BY <2>3 DEF NextFrame
      <4>3. QED
        BY <4>1, <4>2, Remainder DEF Slots
    <3>2. QED
      BY <1>14, <2>3, <3>1 DEF AfterPart, NextFrame, MoreFrames
  <2>4. CASE NextIdle
    BY <1>14, <2>4 DEF AfterPart, NextIdle, States
  <2>5. QED
    BY <1>14, <2>1, <2>2, <2>3, <2>4 DEF AfterPart
<1>15. CASE Exit
  BY <1>15 DEF Exit, States
<1>16. CASE Broadcast
  BY <1>16 DEF Broadcast
<1>17. CASE SocketDies
  BY <1>17 DEF SocketDies
<1>18. CASE UNCHANGED vars
  BY <1>18 DEF vars
<1>19. QED
  BY <1>1, <1>2, <1>3, <1>4, <1>5, <1>6, <1>7, <1>8, <1>9, <1>10, <1>12,
     <1>13, <1>14, <1>15, <1>16, <1>17, <1>18
     DEF Next, Write, Wait, Worker

-----------------------------------------------------------------------------
(* The ring.                                                               *)

LEMMA RingStep == TypeOK /\ RingInv /\ [Next]_vars => RingInv'
<1> SUFFICES ASSUME TypeOK, RingInv, [Next]_vars PROVE RingInv'
  OBVIOUS
<1>0. /\ BUFFER_NFRAMES \in Nat \ {0}
      /\ frame_buffer_read \in 0 .. BUFFER_NFRAMES - 1
      /\ frame_buffer_fullness \in 0 .. BUFFER_NFRAMES
  BY LibAssumption DEF TypeOK, Slots
<1> USE Places, <1>0 DEF RingInv, At, ringVars, appVars, logVars
<1>1. CASE etherdream_connect
  BY <1>1 DEF etherdream_connect, Fresh
<1>2. ASSUME NEW r \in Repeats, WriteBegin(r) PROVE RingInv'
  <2>1. (frame_buffer_read + frame_buffer_fullness) % BUFFER_NFRAMES
          = At(frame_buffer_fullness)
    BY Wrapped
  <2>2. QED
    BY <1>2, <2>1 DEF WriteBegin, Full
<1>3. CASE WriteFill
  BY <1>3 DEF WriteFill
<1>4. CASE WritePublish
  BY <1>4 DEF WritePublish
<1>5. CASE WaitTest
  BY <1>5 DEF WaitTest
<1>6. CASE WaitSleep
  BY <1>6 DEF WaitSleep
<1>7. CASE etherdream_stop
  BY <1>7 DEF etherdream_stop
<1>8. CASE DisconnectBegin
  BY <1>8 DEF DisconnectBegin
<1>9. CASE DisconnectJoin
  BY <1>9 DEF DisconnectJoin
<1>10. CASE LoopTop
  BY <1>10 DEF LoopTop
<1>11. CASE Send
  BY <1>11 DEF Send, SendPart
<1>12. CASE PrepareAcked
  BY <1>12 DEF PrepareAcked, SendPart
<1>13. CASE AfterPart
  <2>1. CASE NextPart \/ NextRepeat
    BY <1>13, <2>1 DEF AfterPart, NextPart, NextRepeat
  <2>2. CASE NextFrame
    <3>1. frame_buffer_read' = At(1)
      BY <2>2, Wrapped DEF NextFrame
    <3>2. QED
      BY <1>13, <2>2, <3>1 DEF AfterPart, NextFrame, MoreFrames
  <2>3. CASE NextIdle
    BY <1>13, <2>3 DEF AfterPart, NextIdle
  <2>4. QED
    BY <1>13, <2>1, <2>2, <2>3 DEF AfterPart
<1>14. CASE Exit \/ Broadcast
  BY <1>14 DEF Exit, Broadcast
<1>15. CASE SocketDies \/ UNCHANGED vars
  BY <1>15 DEF SocketDies, vars
<1>16. QED
  BY <1>1, <1>2, <1>3, <1>4, <1>5, <1>6, <1>7, <1>8, <1>9, <1>10, <1>11,
     <1>12, <1>13, <1>14, <1>15 DEF Next, Write, Wait, Worker

(* A step that leaves the ring, its writer and the last frame begun alone. *)
LEMMA OrderFrame ==
  ASSUME OrderInv, worker' # "next" \/ worker' = worker,
         UNCHANGED <<frame_buffer_read, frame_buffer_fullness, slot, written,
                     playing>>,
         \A s \in Slots : buffer'[s].frame = buffer[s].frame,
         TypeOK,
         app' \in {"fill", "publish"} \/ app \in {"fill", "publish"}
           => app' = app
  PROVE  OrderInv'
<1>1. Published' = Published
  BY DEF Published
<1>2. HeadFrame' = HeadFrame
  BY <1>1 DEF HeadFrame
<1>3. \A i \in 0 .. frame_buffer_fullness - 1 : At(i)' = At(i) /\ At(i) \in Slots
  BY LibAssumption DEF At, Slots, TypeOK
<1>4. slot \in Slots
  BY DEF TypeOK
<1>5. QED
  BY <1>1, <1>2, <1>3, <1>4 DEF OrderInv

LEMMA OrderStep == TypeOK /\ RingInv /\ OrderInv /\ [Next]_vars => OrderInv'
<1> SUFFICES ASSUME TypeOK, RingInv, OrderInv, [Next]_vars PROVE OrderInv'
  OBVIOUS
<1>0. /\ BUFFER_NFRAMES \in Nat \ {0}
      /\ frame_buffer_read \in 0 .. BUFFER_NFRAMES - 1
      /\ frame_buffer_fullness \in 0 .. BUFFER_NFRAMES
      /\ written \in Nat /\ playing \in Nat /\ slot \in Slots
      /\ Slots = 0 .. BUFFER_NFRAMES - 1
      /\ DOMAIN buffer = Slots
      /\ \A s \in Slots : buffer[s] = [frame |-> buffer[s].frame,
                                       repeatcount |-> buffer[s].repeatcount,
                                       idx |-> buffer[s].idx]
  BY LibAssumption DEF TypeOK, Slots
<1> USE Places DEF ringVars, appVars, logVars
<1>1. CASE etherdream_connect
  <2>1. 0 .. frame_buffer_fullness' - 1 = {}
    BY <1>1 DEF etherdream_connect, Fresh
  <2>2. QED
    BY <1>1, <2>1 DEF etherdream_connect, Fresh, OrderInv, Published
<1>2. ASSUME NEW r \in Repeats, WriteBegin(r) PROVE OrderInv'
  <2>1. Published' = Published /\ HeadFrame' = HeadFrame
    BY <1>0, <1>2 DEF WriteBegin, Published, HeadFrame
  <2>2. \A i \in 0 .. frame_buffer_fullness - 1 : At(i)' = At(i)
    BY <1>2 DEF WriteBegin, At
  <2>3. QED
    BY <1>0, <1>2, <2>1, <2>2 DEF WriteBegin, OrderInv
<1>3. CASE WriteFill
  <2>1. Published' = Published /\ HeadFrame' = HeadFrame
    BY <1>3 DEF WriteFill, Published, HeadFrame
  <2>2. \A i \in 0 .. frame_buffer_fullness - 1 :
          At(i)' = At(i) /\ At(i) \in Slots /\ At(i) # slot
    <3>1. /\ frame_buffer_fullness < BUFFER_NFRAMES
          /\ slot = At(frame_buffer_fullness)
          /\ frame_buffer_read' = frame_buffer_read
      BY <1>3 DEF WriteFill, RingInv
    <3>2. QED
      BY ONLY <1>0, <3>1 DEF At
  <2>3. /\ buffer'[slot].frame = written
        /\ \A s \in Slots : s # slot => buffer'[s] = buffer[s]
    BY <1>0, <1>3 DEF WriteFill
  <2>4. QED
    BY <1>0, <1>3, <2>1, <2>2, <2>3 DEF WriteFill, OrderInv
<1>4. CASE WritePublish
  <2>1. Published' = Published + 1 /\ HeadFrame' = HeadFrame
    BY <1>0, <1>4 DEF WritePublish, Published, HeadFrame
  <2>2. \A i : At(i)' = At(i)
    BY <1>4 DEF WritePublish, At
  <2>3. /\ buffer[slot].frame = written /\ slot = At(frame_buffer_fullness)
        /\ written = HeadFrame + frame_buffer_fullness
    BY <1>0, <1>4 DEF WritePublish, OrderInv, RingInv, HeadFrame, Published
  <2>4. \A i \in 0 .. frame_buffer_fullness :
          buffer[At(i)].frame = HeadFrame + i
    BY <1>0, <2>3 DEF OrderInv
  <2>5. HeadFrame \in Int /\ (frame_buffer_fullness = 0 => HeadFrame = 1)
    BY <1>0, <1>4 DEF OrderInv, HeadFrame, Published
  <2>6. worker' = "next" => worker = "next"
    BY <1>4 DEF WritePublish
  <2>7. QED
    BY <1>0, <1>4, <2>1, <2>2, <2>4, <2>5, <2>6 DEF WritePublish, OrderInv
<1>5. CASE WaitTest
  BY <1>5, OrderFrame DEF WaitTest
<1>6. CASE WaitSleep
  BY <1>6, OrderFrame DEF WaitSleep
<1>7. CASE etherdream_stop
  <2>1. \A s \in Slots : buffer'[s].frame = buffer[s].frame
    BY <1>0, <1>7 DEF etherdream_stop
  <2>2. QED
    BY <1>7, <2>1, OrderFrame DEF etherdream_stop
<1>8. CASE DisconnectBegin
  BY <1>8, OrderFrame DEF DisconnectBegin
<1>9. CASE DisconnectJoin
  BY <1>9, OrderFrame DEF DisconnectJoin
<1>10. CASE LoopTop
  BY <1>10, OrderFrame DEF LoopTop
<1>11. ASSUME SendPart, worker \in {"send", "prepare"},
              UNCHANGED <<ringVars, appVars, written>>
       PROVE  OrderInv'
  <2>1. Published' = Published /\ HeadFrame' = HeadFrame
    BY <1>11 DEF Published, HeadFrame
  <2>2. \A i : At(i)' = At(i)
    BY <1>11 DEF At
  <2>3. frame_buffer_fullness > 0 /\ At(0) = frame_buffer_read
    BY <1>0, <1>11 DEF RingInv, At
  <2>4. HeadFrame \in Int
    BY <1>0 DEF HeadFrame, Published
  <2>5. playing' = HeadFrame
    BY <1>0, <1>11, <2>3, <2>4 DEF SendPart, OrderInv
  <2>6. QED
    BY <1>0, <1>11, <2>1, <2>2, <2>3, <2>5 DEF OrderInv
<1>12. CASE Send
  <2>1. CASE worker' = "next"
    BY <1>11, <1>12, <2>1 DEF Send
  <2>2. CASE worker' # "next"
    BY <1>12, <2>2, OrderFrame DEF Send, SendPart
  <2>3. QED
    BY <2>1, <2>2
<1>13. CASE PrepareAcked
  BY <1>11, <1>13 DEF PrepareAcked
<1>14. CASE AfterPart
  <2>0. /\ worker = "next" /\ worker' # "next" /\ UNCHANGED <<slot, written, playing>>
        /\ \A s \in Slots : buffer'[s].frame = buffer[s].frame
        /\ app' \in {"fill", "publish"} \/ app \in {"fill", "publish"}
             => app' = app
    <3>1. worker = "next" /\ worker' # "next" /\ UNCHANGED <<slot, written, playing>>
      BY <1>14 DEF AfterPart
    <3>2. \A s \in Slots : buffer'[s].frame = buffer[s].frame
      <4>1. CASE NextPart
        BY ONLY <1>0, <4>1 DEF NextPart
      <4>2. CASE NextRepeat
        BY ONLY <1>0, <4>2 DEF NextRepeat
      <4>3. CASE NextFrame
        BY ONLY <1>0, <4>3 DEF NextFrame
      <4>4. CASE NextIdle
        BY ONLY <1>0, <4>4 DEF NextIdle
      <4>5. QED
        BY <1>14, <4>1, <4>2, <4>3, <4>4 DEF AfterPart
    <3>3. app' \in {"fill", "publish"} \/ app \in {"fill", "publish"}
             => app' = app
      BY <1>14 DEF AfterPart, NextPart, NextRepeat, NextFrame, NextIdle
    <3>4. QED
      BY <3>1, <3>2, <3>3
  <2>1. CASE ~NextFrame
    BY <1>14, <2>0, <2>1, OrderFrame DEF AfterPart, NextPart, NextRepeat, NextIdle
  <2>2. CASE NextFrame
    <3>1. frame_buffer_read' = At(1)
      <4>1. 1 \in 0 .. BUFFER_NFRAMES
        BY <1>0
      <4>2. (frame_buffer_read + 1) % BUFFER_NFRAMES = At(1)
        BY <4>1, Wrapped
      <4>3. QED
        BY <2>2, <4>2 DEF NextFrame
    <3>2. /\ frame_buffer_fullness' = frame_buffer_fullness - 1
          /\ frame_buffer_fullness > 1
      BY <2>2 DEF NextFrame, MoreFrames
    <3>3. Published' = Published /\ HeadFrame' = HeadFrame + 1 /\ HeadFrame \in Int
      BY <1>0, <2>0, <3>2 DEF Published, HeadFrame
    <3>4. \A i \in 0 .. frame_buffer_fullness' - 1 :
            At(i)' = At(i + 1) /\ At(i + 1) \in Slots
      BY <1>0, <3>1, <3>2 DEF At
    <3>5. \A i \in 0 .. frame_buffer_fullness' - 1 :
            buffer'[At(i)'].frame = HeadFrame' + i
      <4>1. TAKE i \in 0 .. frame_buffer_fullness' - 1
      <4>2. buffer[At(i + 1)].frame = HeadFrame + (i + 1)
        BY <1>0, <3>2 DEF OrderInv
      <4>3. QED
        BY <1>0, <2>0, <3>3, <3>4, <4>2
    <3>6. playing = HeadFrame
      BY <2>0 DEF OrderInv
    <3>7. QED
      BY <1>0, <2>0, <3>2, <3>3, <3>5, <3>6 DEF OrderInv
  <2>3. QED
    BY <2>1, <2>2
<1>15. CASE Exit \/ Broadcast
  BY <1>15, OrderFrame DEF Exit, Broadcast
<1>16. CASE SocketDies \/ UNCHANGED vars
  BY <1>16, OrderFrame DEF SocketDies, vars
<1>17. QED
  BY <1>1, <1>2, <1>3, <1>4, <1>5, <1>6, <1>7, <1>8, <1>9, <1>10, <1>12,
     <1>13, <1>14, <1>15, <1>16 DEF Next, Write, Wait, Worker

-----------------------------------------------------------------------------
(* The theorems.                                                           *)

LEMMA LibInvariant == Spec => []LibInv
<1>1. LibInv /\ [Next]_vars => LibInv'
  BY TypeStep, RingStep, OrderStep DEF LibInv
<1>2. QED
  BY InitLib, <1>1, PTL DEF Spec

(***************************************************************************)
(* The library's state is well typed in every reachable state; with it, the*)
(* ring never holds more frames than it has slots.                         *)
(***************************************************************************)
THEOREM LibTypeCorrect == Spec => []TypeOK
<1>1. LibInv => TypeOK
  BY DEF LibInv
<1>2. QED
  BY <1>1, LibInvariant, PTL

(***************************************************************************)
(* The slot etherdream_write fills without the mutex is never the one the  *)
(* worker sends from, whatever the two threads do in between.              *)
(***************************************************************************)
THEOREM NeverTorn == Spec => []NoTornFrame
<1>1. LibInv => NoTornFrame
  <2> SUFFICES ASSUME LibInv, app \in {"fill", "publish"},
                      worker \in {"send", "prepare"}
               PROVE  slot # frame_buffer_read
    BY DEF NoTornFrame
  <2>1. /\ frame_buffer_fullness \in 1 .. BUFFER_NFRAMES - 1
        /\ frame_buffer_read \in 0 .. BUFFER_NFRAMES - 1
        /\ slot = At(frame_buffer_fullness)
    BY LibAssumption DEF LibInv, TypeOK, RingInv, Slots
  <2>2. QED
    BY ONLY <2>1, LibAssumption DEF At
<1>2. QED
  BY <1>1, LibInvariant, PTL

(***************************************************************************)
(* Frames are begun in the order they were written and none is left out:   *)
(* the worker goes from a frame only to itself or to the next one.         *)
(***************************************************************************)
THEOREM FramesOrdered == Spec => FramesInOrder
<1>1. LibInv /\ [Next]_vars =>
        [connects' = connects /\ playing' # playing
           => playing' = playing + 1]_vars
  <2> SUFFICES ASSUME LibInv, Next, connects' = connects, playing' # playing
               PROVE  playing' = playing + 1
    OBVIOUS
  <2>1. connects \in Nat /\ playing \in Nat
    BY LibAssumption DEF LibInv, TypeOK
  <2>2. SendPart /\ worker \in {"send", "prepare"}
    <3>1. ~etherdream_connect
      BY <2>1 DEF etherdream_connect
    <3>2. Send \/ PrepareAcked
      BY <3>1
         DEF Next, Write, Wait, Worker, WriteBegin, WriteFill, WritePublish,
             WaitTest, WaitSleep, etherdream_stop, DisconnectBegin,
             DisconnectJoin, LoopTop, AfterPart, Exit, Broadcast, SocketDies,
             logVars
    <3>3. QED
      BY <3>2 DEF Send, PrepareAcked
  <2>3. /\ frame_buffer_fullness \in Nat \ {0}
        /\ frame_buffer_read \in 0 .. BUFFER_NFRAMES - 1
    BY <2>2, LibAssumption DEF LibInv, TypeOK, RingInv, Slots
  <2>4. /\ HeadFrame \in Int /\ buffer[frame_buffer_read].frame = HeadFrame
        /\ playing \in {HeadFrame, HeadFrame - 1}
    <3>1. HeadFrame \in Int
      BY <2>3, LibAssumption DEF LibInv, TypeOK, HeadFrame, Published
    <3>2. At(0) = frame_buffer_read /\ 0 \in 0 .. frame_buffer_fullness - 1
      BY <2>3, LibAssumption DEF At
    <3>3. QED
      BY <2>3, <3>1, <3>2 DEF LibInv, OrderInv
  <2>5. playing' = HeadFrame
    BY <2>2, <2>4 DEF SendPart
  <2>6. QED
    BY <2>1, <2>4, <2>5
<1>2. QED
  BY <1>1, LibInvariant, PTL DEF Spec, FramesInOrder
=============================================================================
