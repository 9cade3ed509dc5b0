--------------------------------- MODULE Dmx ---------------------------------
(***************************************************************************)
(* The DMX driver, firmware/lib/dmx.c.  Transmission: TIMER1 starts a      *)
(* break, ends it and starts a DMA transfer, for the universes it finds in *)
(* dmx_tx_enabled_universes; OSC handlers of the main loop add universes   *)
(* to the same byte.  Its low half (enabled) says what the main loop       *)
(* wants, its high half (marked) in which universes a break was started.   *)
(* Reception: UART1 stores bytes into a buffer the main loop sends to a    *)
(* host when it is dirty.                                                  *)
(*                                                                         *)
(* Both interrupts have the highest priority and are a step each.  The     *)
(* main loop's read-modify-write of the byte is two steps; they are so few *)
(* instructions that at most one match of the timer falls between them.    *)
(***************************************************************************)
EXTENDS Integers, FiniteSets

CONSTANTS
  Universes,     (* Outputs: 1, 2, 3 in the code.                            *)
  DMX_CHANNELS,  (* Channels of a universe, 512.                             *)
  Values,        (* Values OSC handlers are called with.                     *)
  MaxValue,      (* What a channel saturates at, 255.                        *)
  LineErrors     (* Whether bytes of a frame in progress may be damaged.     *)

ASSUME DmxAssumption ==
  /\ DMX_CHANNELS \in Nat \ {0} /\ Universes \subseteq Nat \ {0}
  /\ Values \subseteq Int /\ MaxValue \in Nat
  /\ LineErrors \in BOOLEAN

VARIABLES
  enabled, marked,     \* dmx_tx_enabled_universes
  buffers,             \* dmx_universe_1 ...: start code and channels
  breaking, sending,   \* per line: break on (LCR), DMA of this cycle begun
  match,               \* the next match of the timer: 0, 1 or 2
  pc, universe, reg,   \* the main loop: place, argument, the loaded byte
  crossed,             \* a match fell between its load and its store
  broke, ran,          \* universes with a break in this cycle, with data ever
  rx, position, input_buffer, dirty,     \* dmx_rx_state
  wire,                \* number of the next byte since the last break
  dest, sent           \* a host is set; what udp_sendto got last

txVars   == <<enabled, marked, buffers>>
lineVars == <<breaking, sending, match, broke, ran>>
mainVars == <<pc, universe, reg, crossed>>
rxVars   == <<rx, position, input_buffer, dirty, wire>>
hostVars == <<dest, sent>>
vars == <<txVars, lineVars, mainVars, rxVars, hostVars>>

Channels == 1 .. DMX_CHANNELS
Slots    == 0 .. DMX_CHANNELS - 1
Silence  == [i \in Slots |-> 0]

Init ==
  /\ enabled = {} /\ marked = {}
  /\ buffers = [u \in Universes |-> [c \in {0} \union Channels |-> 0]]
  /\ breaking = {} /\ sending = {} /\ match = 0 /\ broke = {} /\ ran = {}
  /\ pc = "idle" /\ universe = 0 /\ reg = [enabled |-> {}, marked |-> {}]
  /\ crossed = FALSE
  /\ rx = "IGNORE" /\ position = 0 /\ input_buffer = Silence /\ dirty = FALSE
  /\ wire = 0 /\ dest = FALSE /\ sent = Silence

-----------------------------------------------------------------------------
(* DMX_TX_IRQHandler(): one match per call.                                *)
Crossing == ~crossed /\ crossed' = (pc = "store")

StartBreak ==
  /\ match = 0 /\ Crossing
  /\ marked' = marked \union enabled /\ breaking' = breaking \union enabled
  /\ broke' = enabled /\ sending' = {} /\ match' = 1
  /\ UNCHANGED <<enabled, buffers, ran, pc, universe, reg, rxVars, hostVars>>

(* Plausible bug: the mark goes with the break.                            *)
StopBreak_clears ==
  /\ match = 1 /\ Crossing
  /\ breaking' = breaking \ marked /\ match' = 2 /\ marked' = {}
  /\ UNCHANGED <<enabled, buffers, sending, broke, ran, pc, universe, reg,
                 rxVars, hostVars>>

StopBreak ==
  /\ match = 1 /\ Crossing
  /\ breaking' = breaking \ marked /\ match' = 2
  /\ UNCHANGED <<txVars, sending, broke, ran, pc, universe, reg, rxVars,
                 hostVars>>

StartWrite ==
  /\ match = 2 /\ Crossing
  /\ sending' = marked /\ ran' = ran \union marked /\ match' = 0
  /\ UNCHANGED <<txVars, breaking, broke, pc, universe, reg, rxVars, hostVars>>

Timer1Irq == StartBreak \/ StopBreak \/ StartWrite

-----------------------------------------------------------------------------
(* The OSC handlers.  dmx_set_channel() ignores channels that do not exist *)
(* and saturates values.                                                   *)
Saturated(v) == IF v < 0 THEN 0 ELSE IF v > MaxValue THEN MaxValue ELSE v

dmx_set_channel(buffer, channel, v) ==
  IF channel \in Channels THEN [buffer EXCEPT ![channel] = Saturated(v)]
  ELSE buffer

(* dmx_set_channels(), here with one or two values of any base.            *)
SetChannels ==
  /\ pc = "idle"
  /\ \E u \in {0} \union Universes, base \in -1 .. DMX_CHANNELS + 1,
        v, w \in Values :
       /\ u \in Universes
       /\ buffers' = [buffers EXCEPT ![u] =
                        dmx_set_channel(dmx_set_channel(@, base, v), base + 1, w)]
       /\ universe' = u
  /\ pc' = "load"
  /\ UNCHANGED <<enabled, marked, lineVars, reg, crossed, rxVars, hostVars>>

(* dmx_blob_FPV_param(): up to as many channels as there are.              *)
SetBlob ==
  /\ pc = "idle"
  /\ \E u \in Universes, n \in 0 .. DMX_CHANNELS, v \in 0 .. MaxValue :
       /\ buffers' = [buffers EXCEPT ![u] =
                        [c \in DOMAIN @ |-> IF c \in 1 .. n THEN v ELSE @[c]]]
       /\ universe' = u
  /\ pc' = "load"
  /\ UNCHANGED <<enabled, marked, lineVars, reg, crossed, rxVars, hostVars>>

EnableLoad ==
  /\ pc = "load" /\ pc' = "store"
  /\ reg' = [enabled |-> enabled, marked |-> marked]
  /\ UNCHANGED <<txVars, lineVars, universe, crossed, rxVars, hostVars>>

(* Plausible bug: = in place of |=.                                        *)
EnableStore_assigns ==
  /\ pc = "store" /\ pc' = "idle" /\ crossed' = FALSE
  /\ enabled' = {universe} /\ marked' = {}
  /\ universe' = 0 /\ reg' = [enabled |-> {}, marked |-> {}]
  /\ UNCHANGED <<buffers, lineVars, rxVars, hostVars>>

EnableStore ==
  /\ pc = "store" /\ pc' = "idle" /\ crossed' = FALSE
  /\ enabled' = reg.enabled \union {universe} /\ marked' = reg.marked
  /\ universe' = 0 /\ reg' = [enabled |-> {}, marked |-> {}]
  /\ UNCHANGED <<buffers, lineVars, rxVars, hostVars>>

-----------------------------------------------------------------------------
(* UART1_IRQHandler(): a break, a damaged byte, a byte.                    *)
Break ==
  /\ rx' = "GOT_BREAK" /\ wire' = 0
  /\ UNCHANGED <<txVars, lineVars, mainVars, position, input_buffer, dirty,
                 hostVars>>

Damaged ==
  /\ LineErrors \/ rx = "IGNORE"
  /\ wire <= DMX_CHANNELS /\ wire' = wire + 1
  /\ UNCHANGED <<txVars, lineVars, mainVars, rx, position, input_buffer, dirty,
                 hostVars>>

Byte ==
  /\ wire <= DMX_CHANNELS + 1
  /\ UNCHANGED <<txVars, lineVars, mainVars, hostVars>>
  /\ wire' = wire + 1

StartCode(ch) ==
  /\ rx = "GOT_BREAK" /\ Byte
  /\ IF ch # 0 THEN rx' = "IGNORE" /\ UNCHANGED position
               ELSE rx' = "ACTIVE" /\ position' = 0
  /\ UNCHANGED <<input_buffer, dirty>>

(* Plausible bug: dirty is set anew with every byte.                       *)
Channel_last(ch) ==
  /\ rx = "ACTIVE" /\ Byte
  /\ dirty' = (ch # input_buffer[position])
  /\ input_buffer' = [input_buffer EXCEPT ![position] = ch]
  /\ rx' = IF position = DMX_CHANNELS - 1 THEN "IGNORE" ELSE rx
  /\ position' = position + 1

Channel(ch) ==
  /\ rx = "ACTIVE" /\ Byte
  /\ dirty' = (dirty \/ ch # input_buffer[position])
  /\ input_buffer' = [input_buffer EXCEPT ![position] = ch]
  /\ rx' = IF position = DMX_CHANNELS - 1 THEN "IGNORE" ELSE rx
  /\ position' = position + 1

Ignored ==
  /\ rx = "IGNORE" /\ Byte /\ UNCHANGED <<rx, position, input_buffer, dirty>>

Uart1Irq == \/ Break \/ Damaged \/ Ignored
            \/ \E ch \in 0 .. MaxValue : StartCode(ch) \/ Channel(ch)

-----------------------------------------------------------------------------
(* dmx_input_FPV_param() sets or clears the host; dmx_in_poll() sends what *)
(* is in the buffer when the EMAC reads it.                                *)
SetDest ==
  /\ pc = "idle" /\ dest' \in BOOLEAN
  /\ UNCHANGED <<txVars, lineVars, mainVars, rxVars, sent>>

PollBegin ==
  /\ pc = "idle" /\ dest /\ dirty /\ pc' = "send" /\ dirty' = FALSE
  /\ UNCHANGED <<txVars, lineVars, universe, reg, crossed, rx, position,
                 input_buffer, wire, hostVars>>

PollSend ==
  /\ pc = "send" /\ pc' = "idle"
  /\ sent' = input_buffer
  /\ UNCHANGED <<txVars, lineVars, universe, reg, crossed, rxVars, dest>>

dmx_in_poll == PollBegin \/ PollSend

-----------------------------------------------------------------------------
Enable == EnableLoad \/ EnableStore
Osc    == SetChannels \/ SetBlob \/ SetDest
Next   == Timer1Irq \/ Uart1Irq \/ Osc \/ Enable \/ dmx_in_poll
Spec   == Init /\ [][Next]_vars

(* The timer runs, and if a break may start outside the handlers again and *)
(* again, it does; the main loop ends what it began and polls.             *)
FairSpec ==
  /\ Spec /\ WF_vars(Enable) /\ SF_vars(PollBegin) /\ WF_vars(PollSend)
  /\ WF_vars(Timer1Irq) /\ SF_vars(StartBreak /\ pc = "idle")
=============================================================================
