---------------------------- MODULE EtherdreamLib ----------------------------
(***************************************************************************)
(* The host library, driver/libetherdream/etherdream.c: one application    *)
(* thread hands frames to a worker thread through a ring of two slots; a   *)
(* mutex and a condition variable guard the ring's indices and the state.  *)
(*                                                                         *)
(* What runs under the mutex is one step, except in the function that      *)
(* sleeps on the condition variable: there `held' says the application has *)
(* the mutex between its test and its sleep.  What runs without the mutex  *)
(* is a step each: filling a slot, sending from one, and the worker's last *)
(* assignment to the state.                                                *)
(*                                                                         *)
(* A frame is a number; it has Chunks parts, each a call of dac_send_data. *)
(* Sockets appear as alive or dead, the DAC as asking for a prepare or not.*)
(***************************************************************************)
EXTENDS Integers, FiniteSets

CONSTANTS
  BUFFER_NFRAMES,   (* Slots of the ring, 2.                                 *)
  Chunks,           (* Parts of a frame.                                     *)
  Repeats,          (* repeatcount arguments the application uses.           *)
  MaxFrames,        (* Bound: frames written over one connection.            *)
  MaxConnects,      (* Bound: connections made.                              *)
  MaxStarts,        (* Bound: starts of a frame are counted up to this.      *)
  Ops,              (* What the application does besides connect and write.  *)
  SocketFails,      (* Whether the connection may break.                     *)
  DacIdles          (* Whether the DAC may report playback_state 0.          *)

ASSUME LibAssumption ==
  /\ BUFFER_NFRAMES \in Nat \ {0} /\ Chunks \in Nat \ {0}
  /\ Repeats \subseteq Int \ {0}
  /\ MaxFrames \in Nat /\ MaxConnects \in Nat /\ MaxStarts \in Nat
  /\ Ops \subseteq {"wait", "stop", "disconnect"}
  /\ SocketFails \in BOOLEAN /\ DacIdles \in BOOLEAN

VARIABLES
  state,               \* d->state
  frame_buffer_read, frame_buffer_fullness,
  buffer,              \* the slots: frame, repeatcount, idx
  held,                \* the application holds the mutex over a step
  app, slot, reps,     \* the application's place; arguments of write
  worker,              \* the worker's place, "none" if it is not running
  sock,                \* the connection is alive
  connects, written,   \* connections made; frames written over this one
  playing, started,    \* the last frame begun; how often each was begun
  stopping             \* the frame being sent when stop was called, or 0

ringVars == <<frame_buffer_read, frame_buffer_fullness, buffer>>
appVars  == <<held, app, slot, reps>>
logVars  == <<playing, started, stopping>>
vars     == <<state, ringVars, appVars, worker, sock, connects, written,
              logVars>>

States == {"DISCONNECTED", "READY", "RUNNING", "SHUTDOWN"}
Slots  == 0 .. BUFFER_NFRAMES - 1
Frames == 1 .. MaxFrames
NoFrame == [frame |-> 0, repeatcount |-> 0, idx |-> 0]

Fresh ==
  /\ frame_buffer_read' = 0 /\ frame_buffer_fullness' = 0
  /\ buffer' = [s \in Slots |-> NoFrame] /\ written' = 0
  /\ playing' = 0 /\ started' = [f \in Frames |-> 0] /\ stopping' = 0

Init ==
  /\ state = "DISCONNECTED"
  /\ frame_buffer_read = 0 /\ frame_buffer_fullness = 0
  /\ buffer = [s \in Slots |-> NoFrame]
  /\ held = FALSE /\ app = "idle" /\ slot = 0 /\ reps = 0
  /\ worker = "none" /\ sock = FALSE /\ connects = 0 /\ written = 0
  /\ playing = 0 /\ started = [f \in Frames |-> 0] /\ stopping = 0

Full == frame_buffer_fullness = BUFFER_NFRAMES

(* Signalling and broadcasting: one sleeper of each kind at most.          *)
WorkerWoken == IF worker = "asleep" THEN "top" ELSE worker
AppWoken    == IF app = "asleep" THEN "test" ELSE app

-----------------------------------------------------------------------------
(* The application.                                                        *)

etherdream_connect ==
  /\ app = "idle" /\ worker = "none" /\ connects < MaxConnects
  /\ connects' = connects + 1 /\ sock' = TRUE /\ Fresh
  /\ state' = "READY" /\ worker' = "top"
  /\ UNCHANGED appVars

(* etherdream_write(): a slot is chosen under the mutex ...                *)

(* Plausible bug: the room is not checked.                                 *)
WriteBegin_unchecked(r) ==
  /\ app = "idle" /\ worker # "none" /\ written < MaxFrames
  /\ slot' = (frame_buffer_read + frame_buffer_fullness) % BUFFER_NFRAMES
  /\ reps' = r /\ app' = "fill" /\ written' = written + 1
  /\ UNCHANGED <<state, ringVars, held, worker, sock, connects, logVars>>

(* Plausible bug: the slot is counted from the first one.                  *)
WriteBegin_absolute(r) ==
  /\ app = "idle" /\ worker # "none" /\ written < MaxFrames /\ ~Full
  /\ slot' = frame_buffer_fullness % BUFFER_NFRAMES
  /\ reps' = r /\ app' = "fill" /\ written' = written + 1
  /\ UNCHANGED <<state, ringVars, held, worker, sock, connects, logVars>>

WriteBegin(r) ==
  /\ app = "idle" /\ worker # "none" /\ written < MaxFrames /\ ~Full
  /\ slot' = (frame_buffer_read + frame_buffer_fullness) % BUFFER_NFRAMES
  /\ reps' = r /\ app' = "fill" /\ written' = written + 1
  /\ UNCHANGED <<state, ringVars, held, worker, sock, connects, logVars>>

(* ... filled without it ...                                               *)
WriteFill ==
  /\ app = "fill" /\ app' = "publish"
  /\ buffer' = [buffer EXCEPT ![slot] = [frame |-> written,
                                         repeatcount |-> reps, idx |-> @.idx]]
  /\ UNCHANGED <<state, frame_buffer_read, frame_buffer_fullness, held, slot,
                 reps, worker, sock, connects, written, logVars>>

(* ... and published under it; the worker is signalled if it was idle.     *)
WritePublish ==
  /\ app = "publish" /\ app' = "idle"
  /\ frame_buffer_fullness' = frame_buffer_fullness + 1
  /\ worker' = IF state = "READY" THEN WorkerWoken ELSE worker
  /\ state' = "RUNNING" /\ stopping' = 0
  /\ UNCHANGED <<frame_buffer_read, buffer, held, slot, reps, sock, connects,
                 written, playing, started>>

(* etherdream_wait_for_ready(): tested and put to sleep under the mutex.   *)
MustWait == Full /\ state # "SHUTDOWN"

WaitTest ==
  /\ \/ app = "idle" /\ worker # "none" /\ "wait" \in Ops
     \/ app = "test"
  /\ IF MustWait THEN held' = TRUE /\ app' = "sleep"
                 ELSE UNCHANGED held /\ app' = "idle"
  /\ UNCHANGED <<state, ringVars, slot, reps, worker, sock, connects, written,
                 logVars>>

WaitSleep ==
  /\ app = "sleep" /\ held' = FALSE /\ app' = "asleep"
  /\ UNCHANGED <<state, ringVars, slot, reps, worker, sock, connects, written,
                 logVars>>

(* etherdream_stop(): the frame in the slot being sent is the last one.    *)
etherdream_stop ==
  /\ app = "idle" /\ worker # "none" /\ "stop" \in Ops
  /\ state = "RUNNING"
  /\ buffer' = [buffer EXCEPT ![frame_buffer_read].repeatcount = 0]
  /\ stopping' = buffer[frame_buffer_read].frame
  /\ UNCHANGED <<state, frame_buffer_read, frame_buffer_fullness, appVars,
                 worker, sock, connects, written, playing, started>>

(* etherdream_disconnect(): the state is set, the worker joined.           *)
DisconnectBegin ==
  /\ app = "idle" /\ worker # "none" /\ "disconnect" \in Ops
  /\ app' = "join" /\ state' = "SHUTDOWN"
  /\ worker' = IF state = "READY" THEN WorkerWoken ELSE worker
  /\ UNCHANGED <<ringVars, held, slot, reps, sock, connects, written, logVars>>

DisconnectJoin ==
  /\ app = "join" /\ worker = "done"
  /\ app' = "idle" /\ worker' = "none" /\ sock' = FALSE
  /\ UNCHANGED <<state, ringVars, held, slot, reps, connects, written, logVars>>

-----------------------------------------------------------------------------
(* The worker, dac_loop().                                                 *)

(* With the mutex, at the top of the loop: sleep while READY, send while   *)
(* RUNNING, leave otherwise.                                               *)
AtTop(st) == CASE st = "READY"   -> "asleep"
               [] st = "RUNNING" -> "send"
               [] OTHER          -> "exit"

LoopTop ==
  /\ worker = "top" /\ ~held /\ worker' = AtTop(state)
  /\ UNCHANGED <<state, ringVars, appVars, sock, connects, written, logVars>>

(* dac_send_data() of the next part, without the mutex.  A DAC that reports*)
(* itself idle is sent a prepare and waited for.                           *)
SendPart ==
  LET b == buffer[frame_buffer_read] IN
  /\ playing' = b.frame
  /\ started' = IF b.idx = 0 /\ b.frame # 0 /\ started[b.frame] < MaxStarts
                THEN [started EXCEPT ![b.frame] = @ + 1] ELSE started
  /\ worker' = "next"

Send ==
  /\ worker = "send"
  /\ \/ sock /\ SendPart
     \/ sock /\ DacIdles /\ worker' = "prepare" /\ UNCHANGED <<playing, started>>
     \/ ~sock /\ worker' = "exit" /\ UNCHANGED <<playing, started>>
  /\ UNCHANGED <<state, ringVars, appVars, sock, connects, written, stopping>>

(* The loop that waits for the prepare to be acknowledged ignores errors,  *)
(* so nothing but the acknowledgement ends it.                             *)
PrepareAcked ==
  /\ worker = "prepare" /\ sock /\ SendPart
  /\ UNCHANGED <<state, ringVars, appVars, sock, connects, written, stopping>>

(* With the mutex: what comes after a part.  The cases are tried in order. *)

(* Plausible bug: a stopped frame counts as one to be repeated for ever.   *)
PlayOut_positive == buffer[frame_buffer_read].repeatcount > 0

MoreParts    == buffer[frame_buffer_read].idx + 1 < Chunks
MoreRepeats  == buffer[frame_buffer_read].repeatcount > 1
MoreFrames   == frame_buffer_fullness > 1
PlayOut      == buffer[frame_buffer_read].repeatcount >= 0

NextPart ==
  /\ MoreParts
  /\ buffer' = [buffer EXCEPT ![frame_buffer_read].idx = @ + 1]
  /\ UNCHANGED <<state, frame_buffer_read, frame_buffer_fullness, app>>

NextRepeat ==
  /\ ~MoreParts /\ MoreRepeats
  /\ buffer' = [buffer EXCEPT ![frame_buffer_read].idx = 0,
                              ![frame_buffer_read].repeatcount = @ - 1]
  /\ UNCHANGED <<state, frame_buffer_read, frame_buffer_fullness, app>>

(* Plausible bug: the application is not woken.                            *)
NextFrame_silent ==
  /\ ~MoreParts /\ ~MoreRepeats /\ MoreFrames
  /\ buffer' = [buffer EXCEPT ![frame_buffer_read].idx = 0]
  /\ frame_buffer_fullness' = frame_buffer_fullness - 1
  /\ frame_buffer_read' = (frame_buffer_read + 1) % BUFFER_NFRAMES
  /\ UNCHANGED <<app, state>>

NextFrame ==
  /\ ~MoreParts /\ ~MoreRepeats /\ MoreFrames
  /\ buffer' = [buffer EXCEPT ![frame_buffer_read].idx = 0]
  /\ frame_buffer_fullness' = frame_buffer_fullness - 1
  /\ frame_buffer_read' = (frame_buffer_read + 1) % BUFFER_NFRAMES
  /\ app' = AppWoken /\ UNCHANGED state

(* No new frame: idle until one comes, or the same again for ever.         *)
NextIdle ==
  /\ ~MoreParts /\ ~MoreRepeats /\ ~MoreFrames
  /\ buffer' = [buffer EXCEPT ![frame_buffer_read].idx = 0]
  /\ state' = IF PlayOut THEN "READY" ELSE state
  /\ UNCHANGED <<frame_buffer_read, frame_buffer_fullness, app>>

AfterPart ==
  /\ worker = "next" /\ ~held
  /\ NextPart \/ NextRepeat \/ NextFrame \/ NextIdle
  /\ worker' = AtTop(state')
  /\ UNCHANGED <<held, slot, reps, sock, connects, written, logVars>>

(* Leaving: state and broadcast, both without the mutex.                   *)
Exit ==
  /\ worker = "exit" /\ worker' = "broadcast" /\ state' = "SHUTDOWN"
  /\ UNCHANGED <<ringVars, appVars, sock, connects, written, logVars>>

Broadcast ==
  /\ worker = "broadcast" /\ worker' = "done" /\ app' = AppWoken
  /\ UNCHANGED <<state, ringVars, held, slot, reps, sock, connects, written,
                 logVars>>

-----------------------------------------------------------------------------
SocketDies ==
  /\ SocketFails /\ sock /\ sock' = FALSE
  /\ UNCHANGED <<state, ringVars, appVars, worker, connects, written, logVars>>

Write  == (\E r \in Repeats : WriteBegin(r)) \/ WriteFill \/ WritePublish
Wait   == WaitTest \/ WaitSleep
Worker == LoopTop \/ Send \/ PrepareAcked \/ AfterPart \/ Exit \/ Broadcast

Next ==
  \/ etherdream_connect \/ Write \/ Wait \/ etherdream_stop
  \/ DisconnectBegin \/ DisconnectJoin
  \/ Worker \/ SocketDies

Spec == Init /\ [][Next]_vars

(* Both threads are scheduled; the application finishes the calls it makes.*)
FairSpec ==
  Spec /\ WF_vars(Worker) /\ WF_vars(WriteFill) /\ WF_vars(WritePublish)
       /\ WF_vars(WaitSleep) /\ WF_vars(WaitTest /\ app = "test")
       /\ WF_vars(DisconnectJoin)

-----------------------------------------------------------------------------
TypeOK ==
  /\ state \in States
  /\ frame_buffer_read \in Slots /\ frame_buffer_fullness \in 0 .. BUFFER_NFRAMES
  /\ buffer \in [Slots -> [frame : 0 .. MaxFrames,
                           repeatcount : Int,
                           idx : 0 .. Chunks - 1]]
  /\ held \in BOOLEAN
  /\ app \in {"idle", "fill", "publish", "test", "sleep", "asleep", "join"}
  /\ slot \in Slots /\ reps \in Repeats \union {0}
  /\ worker \in {"none", "top", "asleep", "send", "prepare", "next", "exit",
                 "broadcast", "done"}
  /\ sock \in BOOLEAN /\ connects \in Nat /\ written \in 0 .. MaxFrames
  /\ playing \in 0 .. MaxFrames /\ started \in [Frames -> 0 .. MaxStarts]
  /\ stopping \in 0 .. MaxFrames
=============================================================================
