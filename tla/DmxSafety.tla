------------------------------ MODULE DmxSafety ------------------------------
(* What the DMX driver promises to the fixtures and to the host.           *)
EXTENDS Dmx

(* Types; in particular the received bytes stay inside their buffer.       *)
LinesTyped ==
  /\ enabled \subseteq Universes /\ marked \subseteq Universes
  /\ breaking \subseteq Universes /\ sending \subseteq Universes
  /\ match \in 0 .. 2 /\ pc \in {"idle", "load", "store", "send"}

BuffersTyped == buffers \in [Universes -> [{0} \union Channels -> 0 .. MaxValue]]

InputTyped ==
  /\ rx \in {"IGNORE", "GOT_BREAK", "ACTIVE"}
  /\ rx = "ACTIVE" => position \in Slots
  /\ input_buffer \in [Slots -> 0 .. MaxValue]
  /\ sent \in [Slots -> 0 .. MaxValue]

FlagsTyped == dirty \in BOOLEAN /\ dest \in BOOLEAN

TypeOK == LinesTyped /\ BuffersTyped /\ InputTyped /\ FlagsTyped

(* Channel 0 is the start code of a frame of levels and is never written,  *)
(* whatever base and count an OSC message has.                             *)
StartCodeKept == \A u \in Universes : buffers[u][0] = 0

(* Data is sent only behind a break of the same cycle that is over.        *)
DataAfterBreak ==
  [][match = 2 /\ match' = 0 => sending' \subseteq broke \ breaking]_vars

(* A universe that has once been sent is sent in every cycle, and its      *)
(* breaks end in time: a store of the main loop that drops the interrupt's *)
(* mark can delay the first frame only.                                    *)
SteadyOnceRunning ==
  [][/\ match = 1 /\ match' = 2 => ran \cap breaking' = {}
     /\ match = 2 /\ match' = 0 => ran \subseteq sending']_vars

(* A change of the input is in the buffer of the packet sent last, or will *)
(* be in another one.                                                      *)
NoChangeLost == pc # "send" /\ input_buffer # sent => dirty

(* A byte is stored at the channel it has on the line.                     *)
InPlace == rx = "ACTIVE" => position = wire - 1

(* An enabled universe is eventually sent, unless every start of a break   *)
(* falls into a handler that is about to store the byte.                   *)
EnabledIsSent ==
  []<>(match = 0 /\ pc = "idle") =>
    \A u \in Universes : u \in enabled ~> u \in ran
=============================================================================
