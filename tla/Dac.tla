-------------------------------- MODULE Dac --------------------------------
(***************************************************************************)
(* The DAC driver of the Ether Dream firmware: firmware/lib/dac.c and the  *)
(* PWM1 interrupt handler of firmware/lib/dac_asm.s.                       *)
(*                                                                         *)
(* The driver is a set of functions called by the main loop, sharing plain *)
(* memory and the PWM1 peripheral with an interrupt that plays one point   *)
(* per period.  Code of the main loop is modelled store by store: `pc' is  *)
(* the place the main loop has reached and `reg' holds the values it has   *)
(* in registers there, so a read-modify-write is a load step and a store   *)
(* step.  Stores that no interrupt can tell apart share a step.            *)
(* The PWM1 interrupt has the highest priority and is one step.            *)
(*                                                                         *)
(* The module has no specification of its own: Firmware.tla composes these *)
(* steps with the light engine, the playback source and the Ethernet link. *)
(***************************************************************************)
EXTENDS Integers, Sequences

CONSTANTS
  DAC_BUFFER_POINTS,     (* Slots of the point ring, 1800 in the code.       *)
  DAC_RATE_BUFFER_SIZE,  (* Slots of the ring of queued rates, 200.          *)
  Points,                (* The points a client may send.                    *)
  RatePoints,            (* Those with DAC_CTRL_RATE_CHANGE set.             *)
  Rates,                 (* Point rates; a rate also names its tick count.   *)
  BootRate,              (* The rate main() sets before its loop, 30000.     *)
  Generated,             (* A point made by the abstract generator.          *)
  Blank,                 (* All channels zero, galvos centred.               *)
  MaxChunk,              (* Bound: points one call of the writer packs.      *)
  CountMod               (* dac_control.count wraps at this, 2^32.           *)

ASSUME RingAssumption ==
  /\ DAC_BUFFER_POINTS \in Nat /\ DAC_BUFFER_POINTS > 1
  /\ DAC_RATE_BUFFER_SIZE \in Nat /\ DAC_RATE_BUFFER_SIZE > 1
  /\ MaxChunk \in Nat /\ CountMod \in Nat \ {0}

ASSUME DataAssumption ==
  /\ RatePoints \subseteq Points /\ Points # {}
  /\ BootRate \in Rates
  /\ Blank \notin Points /\ Generated \notin Points /\ Generated # Blank

VARIABLES
  state, irq_do, count,                     \* dac_control
  produce, consume, buffer,                 \* the point ring
  rate_produce, rate_consume, rate_buffer,  \* the rate ring
  dac_flags, pps,                           \* status: flags and current rate
  timer,        \* TCR: the PWM1 counter is running
  mr,           \* MR0 and MR5 as last written, each by the rate it is for
  ler,          \* LER: the written values wait for the next overflow
  match,        \* the match values the counter compares with
  shutter,      \* the shutter pin drives the shutter open
  out,          \* what the output channels show
  pc, reg       \* the main loop's program counter and registers

ctlVars  == <<state, irq_do, count>>
ringVars == <<produce, consume, buffer>>
rateVars == <<rate_produce, rate_consume, rate_buffer>>
mrVars   == <<mr, ler, match, pps>>
outVars  == <<shutter, out, dac_flags>>
cpuVars  == <<pc, reg>>
dacVars  == <<ctlVars, ringVars, rateVars, mrVars, outVars, timer, cpuVars>>

DacStates == {"IDLE", "PREPARED", "PLAYING"}
IrqActions == {"BUFFER", "ABSTRACT", "PANIC"}
StopFlags == {"UNDERFLOW", "ESTOP", "SRCSWITCH"}      \* DAC_FLAG_STOP_ALL
DacFlags  == StopFlags \union {"SHUTTER"}
Slots     == 0 .. DAC_BUFFER_POINTS - 1
RateSlots == 0 .. DAC_RATE_BUFFER_SIZE - 1

(***************************************************************************)
(* Registers of the main loop: `flags' and `le' hold the loaded operand of *)
(* a read-modify-write, the others the arguments of the call in progress   *)
(* and the place a call of dac_stop or le_estop_clear returns to.          *)
(***************************************************************************)
NoReg == [flags |-> {}, le |-> {}, stop |-> {}, cond |-> {}, n |-> 0,
          rate |-> BootRate, src |-> "NETWORK", ret |-> "main"]

Goto(label) == pc' = label /\ UNCHANGED reg
Return      == pc' = "main" /\ reg' = NoReg
ReturnTo    == IF reg.ret = "main" THEN Return ELSE Goto(reg.ret)

DacInit ==
  /\ state = "IDLE" /\ irq_do = "PANIC" /\ count = 0
  /\ produce = 0 /\ consume = 0 /\ buffer \in [Slots -> {Blank}]
  /\ rate_produce = 0 /\ rate_consume = 0
  /\ rate_buffer \in [RateSlots -> {BootRate}]
  /\ dac_flags = {} /\ pps = BootRate
  /\ timer = FALSE /\ ler = TRUE
  /\ mr = [m0 |-> BootRate, m5 |-> BootRate] /\ match = mr
  /\ shutter = FALSE /\ out = Blank
  /\ pc = "main" /\ reg = NoReg

-----------------------------------------------------------------------------
(* Ring arithmetic: produce = consume means empty, so a ring only ever     *)
(* becomes one slot short of full.                                         *)

Fullness(p, c, size) == IF p >= c THEN p - c ELSE p - c + size

(* Plausible bug: the slot kept free is forgotten when consume is 0.        *)
dac_request_fills_up ==
  IF produce >= consume THEN DAC_BUFFER_POINTS - produce
  ELSE consume - produce - 1

(* dac_request(): contiguous room from produce, for a non-idle DAC.        *)
dac_request ==
  IF produce >= consume
  THEN DAC_BUFFER_POINTS - produce - (IF consume = 0 THEN 1 ELSE 0)
  ELSE consume - produce - 1

-----------------------------------------------------------------------------
(* dac_prepare(): refused unless idle with the light engine ready.         *)

(* Plausible bug: the light engine is not asked.                           *)
PrepareBegin_blind(le_ready) ==
  /\ pc = "main" /\ state = "IDLE"
  /\ Goto("prep_produce")
  /\ UNCHANGED <<ctlVars, ringVars, rateVars, mrVars, outVars, timer>>

PrepareBegin(le_ready) ==
  /\ pc = "main" /\ state = "IDLE" /\ le_ready
  /\ Goto("prep_produce")
  /\ UNCHANGED <<ctlVars, ringVars, rateVars, mrVars, outVars, timer>>

PrepareProduce ==
  /\ pc = "prep_produce" /\ produce' = 0 /\ Goto("prep_consume")
  /\ UNCHANGED <<ctlVars, consume, buffer, rateVars, mrVars, outVars, timer>>

PrepareConsume ==
  /\ pc = "prep_consume"
  /\ consume' = 0 /\ rate_produce' = 0 /\ rate_consume' = 0
  /\ pc' = "prep_flags" /\ reg' = [reg EXCEPT !.flags = dac_flags]
  /\ UNCHANGED <<ctlVars, produce, buffer, rate_buffer, mrVars, outVars,
                 timer>>

PrepareFlags ==
  /\ pc = "prep_flags"
  /\ dac_flags' = reg.flags \ StopFlags /\ Goto("prep_state")
  /\ UNCHANGED <<ctlVars, ringVars, rateVars, mrVars, shutter, out, timer>>

PrepareState ==
  /\ pc = "prep_state"
  /\ state' = "PREPARED" /\ irq_do' = "PANIC" /\ Return
  /\ UNCHANGED <<count, ringVars, rateVars, mrVars, outVars, timer>>

-----------------------------------------------------------------------------
(* dac_start(): refused unless prepared and given a rate.  irq_do must be  *)
(* valid before the counter is enabled, the shutter opens last.            *)

StartBegin ==
  /\ pc = "main" /\ state = "PREPARED"
  /\ Goto("start_state")
  /\ UNCHANGED <<ctlVars, ringVars, rateVars, mrVars, outVars, timer>>

StartState ==
  /\ pc = "start_state" /\ state' = "PLAYING" /\ Goto("start_irq")
  /\ UNCHANGED <<irq_do, count, ringVars, rateVars, mrVars, outVars, timer>>

StartIrq(src) ==
  /\ pc = "start_irq"
  /\ irq_do' = IF src = "ABSTRACT" THEN "ABSTRACT" ELSE "BUFFER"
  /\ Goto("start_timer")
  /\ UNCHANGED <<state, count, ringVars, rateVars, mrVars, outVars, timer>>

StartTimer ==
  /\ pc = "start_timer"
  /\ timer' = TRUE /\ match' = (IF ler THEN mr ELSE match) /\ ler' = FALSE
  /\ Goto("start_shutter")
  /\ UNCHANGED <<ctlVars, ringVars, rateVars, mr, pps, outVars>>

(* Plausible bug: the shutter is opened without a look at the state.       *)
ShutterOpen_unchecked ==
  /\ pc = "start_shutter" /\ Return
  /\ shutter' = TRUE /\ dac_flags' = dac_flags \union {"SHUTTER"}
  /\ UNCHANGED <<ctlVars, ringVars, rateVars, mrVars, out, timer>>

(* shutter_set(1): the check and the opening run with interrupts disabled. *)
ShutterOpen ==
  /\ pc = "start_shutter" /\ Return
  /\ IF state = "PLAYING"
     THEN shutter' = TRUE /\ dac_flags' = dac_flags \union {"SHUTTER"}
     ELSE UNCHANGED <<shutter, dac_flags>>
  /\ UNCHANGED <<ctlVars, ringVars, rateVars, mrVars, out, timer>>

-----------------------------------------------------------------------------
(* dac_stop(flags), called from the main loop: the counter is reset before *)
(* anything else.  The second clearing of SHUTTER in the code repeats the  *)
(* first one and has the same window, so it has no step of its own.        *)

StopBegin ==
  /\ pc = "main" /\ Goto("stop_timer")
  /\ UNCHANGED <<ctlVars, ringVars, rateVars, mrVars, outVars, timer>>

(* Plausible bug: the counter is not reset first.                          *)
StopTimer_skipped ==
  /\ pc = "stop_timer" /\ Goto("stop_load")
  /\ UNCHANGED <<ctlVars, ringVars, rateVars, mrVars, outVars, timer>>

StopTimer ==
  /\ pc = "stop_timer" /\ timer' = FALSE /\ Goto("stop_load")
  /\ UNCHANGED <<ctlVars, ringVars, rateVars, mrVars, outVars>>

StopLoad ==
  /\ pc = "stop_load"
  /\ pc' = "stop_shutter" /\ reg' = [reg EXCEPT !.flags = dac_flags]
  /\ UNCHANGED <<ctlVars, ringVars, rateVars, mrVars, outVars, timer>>

StopShutter ==
  /\ pc = "stop_shutter" /\ dac_flags' = reg.flags \ {"SHUTTER"}
  /\ Goto("stop_dark")
  /\ UNCHANGED <<ctlVars, ringVars, rateVars, mrVars, shutter, out, timer>>

StopDark ==
  /\ pc = "stop_dark" /\ shutter' = FALSE /\ out' = Blank
  /\ Goto("stop_state")
  /\ UNCHANGED <<ctlVars, ringVars, rateVars, mrVars, dac_flags, timer>>

StopState ==
  /\ pc = "stop_state"
  /\ state' = "IDLE" /\ irq_do' = "PANIC" /\ count' = 0
  /\ pc' = "stop_flags" /\ reg' = [reg EXCEPT !.flags = dac_flags]
  /\ UNCHANGED <<ringVars, rateVars, mrVars, outVars, timer>>

StopReturn ==
  /\ pc = "stop_flags"
  /\ dac_flags' = reg.flags \union reg.stop /\ ReturnTo
  /\ UNCHANGED <<ctlVars, ringVars, rateVars, mrVars, shutter, out, timer>>

(* dac_stop(flags) run to its end inside an interrupt handler.             *)
dac_stop(flags) ==
  /\ timer' = FALSE /\ shutter' = FALSE /\ out' = Blank
  /\ state' = "IDLE" /\ irq_do' = "PANIC" /\ count' = 0
  /\ dac_flags' = (dac_flags \ {"SHUTTER"}) \union flags

-----------------------------------------------------------------------------
(* dac_set_rate(r) in the main loop: MR0, then MR5, then the latch request,*)
(* then the reported rate.                                                 *)

SetRateBegin(r) ==
  /\ pc = "main" /\ pc' = "rate_mr0" /\ reg' = [reg EXCEPT !.rate = r]
  /\ UNCHANGED <<ctlVars, ringVars, rateVars, mrVars, outVars, timer>>

SetRateMr0 ==
  /\ pc = "rate_mr0" /\ mr' = [mr EXCEPT !.m0 = reg.rate] /\ Goto("rate_mr5")
  /\ UNCHANGED <<ctlVars, ringVars, rateVars, ler, match, pps, outVars, timer>>

SetRateMr5 ==
  /\ pc = "rate_mr5" /\ mr' = [mr EXCEPT !.m5 = reg.rate] /\ Goto("rate_ler")
  /\ UNCHANGED <<ctlVars, ringVars, rateVars, ler, match, pps, outVars, timer>>

SetRateLer ==
  /\ pc = "rate_ler" /\ ler' = TRUE /\ Goto("rate_pps")
  /\ UNCHANGED <<ctlVars, ringVars, rateVars, mr, match, pps, outVars, timer>>

SetRatePps ==
  /\ pc = "rate_pps" /\ pps' = reg.rate /\ Return
  /\ UNCHANGED <<ctlVars, ringVars, rateVars, mr, ler, match, outVars, timer>>

-----------------------------------------------------------------------------
(* dac_rate_queue(r): rejected when idle or full; the slot is written      *)
(* before the index that publishes it.                                     *)

(* Plausible bug: the ring may fill completely.                            *)
RateQueueBegin_fills_up(r) ==
  /\ pc = "main" /\ state # "IDLE"
  /\ rate_buffer' = [rate_buffer EXCEPT ![rate_produce] = r]
  /\ Goto("queue_produce")
  /\ UNCHANGED <<ctlVars, ringVars, rate_produce, rate_consume, mrVars,
                 outVars, timer>>

RateQueueBegin(r) ==
  /\ pc = "main" /\ state # "IDLE"
  /\ Fullness(rate_produce, rate_consume, DAC_RATE_BUFFER_SIZE)
       < DAC_RATE_BUFFER_SIZE - 1
  /\ rate_buffer' = [rate_buffer EXCEPT ![rate_produce] = r]
  /\ Goto("queue_produce")
  /\ UNCHANGED <<ctlVars, ringVars, rate_produce, rate_consume, mrVars,
                 outVars, timer>>

RateQueueProduce ==
  /\ pc = "queue_produce"
  /\ rate_produce' = (rate_produce + 1) % DAC_RATE_BUFFER_SIZE /\ Return
  /\ UNCHANGED <<ctlVars, ringVars, rate_consume, rate_buffer, mrVars,
                 outVars, timer>>

-----------------------------------------------------------------------------
(* A writer (recv_fsm for a stream, playback_refill for a file): it asks   *)
(* for room, packs up to that many points from produce on, and advances.   *)

WriteBegin(n) ==
  /\ pc = "main" /\ state # "IDLE"
  /\ n \in 1 .. MaxChunk /\ n <= dac_request
  /\ pc' = "write_fill" /\ reg' = [reg EXCEPT !.n = n]
  /\ UNCHANGED <<ctlVars, ringVars, rateVars, mrVars, outVars, timer>>

WriteFill(pts) ==
  /\ pc = "write_fill"
  /\ buffer' = [i \in Slots |-> IF i \in produce .. produce + reg.n - 1
                                THEN pts[i - produce + 1] ELSE buffer[i]]
  /\ Goto("write_advance")
  /\ UNCHANGED <<ctlVars, produce, consume, rateVars, mrVars, outVars, timer>>

(* dac_advance(n): drops the points if the DAC has stopped meanwhile.      *)
WriteAdvance ==
  /\ pc = "write_advance" /\ Return
  /\ produce' = IF state = "IDLE" THEN produce
                ELSE (produce + reg.n) % DAC_BUFFER_POINTS
  /\ UNCHANGED <<ctlVars, consume, buffer, rateVars, mrVars, outVars, timer>>

-----------------------------------------------------------------------------
(* The PWM1 interrupt, raised when the counter matches MR0.  The overflow  *)
(* latches the written match values if LER is set.                         *)

Overflow == timer /\ match' = (IF ler THEN mr ELSE match)

(* Plausible bug: the newest rate is taken, not the oldest.                *)
dac_pop_newest ==
  IF rate_consume = rate_produce
  THEN ler' = FALSE /\ UNCHANGED <<mr, pps, rate_consume>>
  ELSE LET last == (rate_produce + DAC_RATE_BUFFER_SIZE - 1)
                     % DAC_RATE_BUFFER_SIZE
           r == rate_buffer[last] IN
       /\ mr' = [m0 |-> r, m5 |-> r] /\ ler' = TRUE /\ pps' = r
       /\ rate_consume' = (rate_consume + 1) % DAC_RATE_BUFFER_SIZE

(* dac_pop_rate_change(), with dac_set_rate run to its end.                *)
dac_pop_rate_change ==
  IF rate_consume = rate_produce
  THEN ler' = FALSE /\ UNCHANGED <<mr, pps, rate_consume>>
  ELSE LET r == rate_buffer[rate_consume] IN
       /\ mr' = [m0 |-> r, m5 |-> r] /\ ler' = TRUE /\ pps' = r
       /\ rate_consume' = (rate_consume + 1) % DAC_RATE_BUFFER_SIZE

(* Plausible bug: the DAC rides out an underflow instead of stopping.      *)
PwmUnderflow_ignored ==
  /\ Overflow /\ irq_do = "BUFFER" /\ produce = consume /\ ler' = FALSE
  /\ UNCHANGED <<ctlVars, outVars, timer, ringVars, rateVars, mr, pps,
                 cpuVars>>

PwmUnderflow ==
  /\ Overflow /\ irq_do = "BUFFER" /\ produce = consume
  /\ dac_stop({"UNDERFLOW"}) /\ ler' = FALSE
  /\ UNCHANGED <<ringVars, rateVars, mr, pps, cpuVars>>

PwmPoint ==
  /\ Overflow /\ irq_do = "BUFFER" /\ produce # consume
  /\ count' = (count + 1) % CountMod
  /\ consume' = (consume + 1) % DAC_BUFFER_POINTS
  /\ out' = buffer[consume]
  /\ IF buffer[consume] \in RatePoints
     THEN dac_pop_rate_change
     ELSE ler' = FALSE /\ UNCHANGED <<mr, pps, rate_consume>>
  /\ UNCHANGED <<state, irq_do, produce, buffer, rate_produce, rate_buffer,
                 shutter, dac_flags, timer, cpuVars>>

(* dac_handle_abstract(): the generator, or darkness if it is not playing. *)
PwmAbstract(playing) ==
  /\ Overflow /\ irq_do = "ABSTRACT"
  /\ out' = IF playing THEN Generated ELSE Blank
  /\ count' = (count + 1) % CountMod /\ ler' = FALSE
  /\ UNCHANGED <<state, irq_do, ringVars, rateVars, mr, pps, shutter,
                 dac_flags, timer, cpuVars>>

(* The interrupt finds no action: panic() closes the shutter, blanks the   *)
(* channels and never returns.                                             *)
PwmPanic ==
  /\ Overflow /\ irq_do = "PANIC"
  /\ shutter' = FALSE /\ out' = Blank /\ ler' = FALSE
  /\ UNCHANGED <<ctlVars, ringVars, rateVars, mr, pps, dac_flags, timer,
                 cpuVars>>

-----------------------------------------------------------------------------
(* The contents of the two rings, oldest first.  A stopped DAC holds no    *)
(* points: what is left in the ring is never played.                       *)

RingContents(p, c, size, slot) ==
  [i \in 1 .. Fullness(p, c, size) |-> slot[(c + i - 1) % size]]

PointQueue == IF state = "IDLE" THEN <<>>
              ELSE RingContents(produce, consume, DAC_BUFFER_POINTS, buffer)

RateQueue == IF state = "IDLE" THEN <<>>
             ELSE RingContents(rate_produce, rate_consume,
                               DAC_RATE_BUFFER_SIZE, rate_buffer)
=============================================================================
