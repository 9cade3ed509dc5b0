--------------------------- MODULE FirmwareSafety ---------------------------
(***************************************************************************)
(* The properties of playback control.  The shutter's and LinkComesBack    *)
(* hold with the link lost at any instruction.  IdleIsDark, EstopHolds,    *)
(* PlaysItsSource, NoPanic and StopReasonSticks are what the code keeps as *)
(* long as EINT3 never runs le_estop (LinkLoss = FALSE).  EstopIsDark and  *)
(* LinkIsNoticed are promises that link loss breaks.                       *)
(***************************************************************************)
EXTENDS Firmware

(***************************************************************************)
(* The shutter is open only while the DAC plays, whatever interrupts       *)
(* dac_start, dac_stop and le_estop: shutter_set() tests the state with    *)
(* interrupts disabled, every stop closes the shutter before it goes idle. *)
(***************************************************************************)
ShutterGuard == shutter => state = "PLAYING"

(***************************************************************************)
(* A DAC that reports IDLE shows nothing: no point on the outputs, shutter *)
(* closed, no interrupt to come, count back at zero.  dac_stop, the        *)
(* underflow stop in the interrupt and dac_prepare's restart all keep it.  *)
(***************************************************************************)
IdleIsDark ==
  state = "IDLE" => ~timer /\ ~shutter /\ out = Blank /\ count = 0

(***************************************************************************)
(* The SHUTTER flag of the status agrees with the pin, save between the two*)
(* stores of dac_stop that clear them and after a panic: no stale write of *)
(* dac_flags brings the flag back or loses it.                             *)
(***************************************************************************)
ShutterReported ==
  ~panicked /\ pc # "stop_dark" => (shutter <=> "SHUTTER" \in dac_flags)

(***************************************************************************)
(* Between two main-loop operations, an e-stopped light engine means a     *)
(* counter that does not run and a closed shutter.                         *)
(***************************************************************************)
EstopIsDark ==
  pc = "main" /\ eint_pc = "idle" /\ le_state = "ESTOP" => ~timer /\ ~shutter

(***************************************************************************)
(* Between two main-loop operations an e-stopped light engine has a stopped*)
(* DAC, and it has an outstanding condition: neither dac_prepare, nor a    *)
(* source switch, nor an underflow racing le_estop leaves it running.      *)
(***************************************************************************)
EstopHolds ==
  pc = "main" /\ eint_pc = "idle" =>
    /\ le_state = "ESTOP" <=> le_flags # {}
    /\ le_state = "ESTOP" => state = "IDLE"

(***************************************************************************)
(* While the counter runs, the interrupt's action is the one of the current*)
(* playback source: dac_start sets it before the counter, and              *)
(* playback_set_src stops the DAC before it changes the source.            *)
(***************************************************************************)
PlaysItsSource ==
  timer => irq_do = IF playback_src = "ABSTRACT" THEN "ABSTRACT" ELSE "BUFFER"

(***************************************************************************)
(* The interrupt never finds the DAC without an action: the panic of       *)
(* dac_handle_abstract, "dac_control not PLAYING in PWM1 IRQ", is dead     *)
(* code.                                                                   *)
(***************************************************************************)
NoPanic == ~panicked

(***************************************************************************)
(* A stop reason shown in the status stays until the next dac_prepare: no  *)
(* stale read-modify-write of dac_flags in the main loop wipes out what an *)
(* interrupt recorded.                                                     *)
(***************************************************************************)
StopReasonSticks ==
  [][dac_flags \intersect StopFlags \subseteq dac_flags'
       \/ pc = "prep_flags"]_vars

(***************************************************************************)
(* Once the PHY has settled and nothing is pending, the firmware does not  *)
(* go on believing in a link that is gone, so that eth_check_link can tell *)
(* lwIP.                                                                   *)
(***************************************************************************)
LinkIsNoticed ==
  pc = "main" /\ eint_pc = "idle" /\ ~eint_pend /\ ~phy =>
    eth_link_state # "UP"

(***************************************************************************)
(* The point ring and the output implement PointPlayer: dac_request and    *)
(* dac_advance on one side and the interrupt on the other neither lose,    *)
(* repeat nor reorder a point, whatever the interleaving.                  *)
(***************************************************************************)
Player == INSTANCE PointPlayer WITH
  Item <- Points, Capacity <- DAC_BUFFER_POINTS - 1, MaxPut <- MaxChunk,
  Dark <- Blank, Other <- {Generated}, q <- PointQueue,
  active <- state # "IDLE", shown <- out

PlaysPointsInOrder == Player!Spec

(***************************************************************************)
(* The rate ring implements BoundedFifo: dac_rate_queue and the pop in the *)
(* interrupt.                                                              *)
(***************************************************************************)
Rings == INSTANCE BoundedFifo WITH
  Item <- Rates, Capacity <- DAC_RATE_BUFFER_SIZE - 1, MaxPut <- 1,
  q <- RateQueue, active <- state # "IDLE"

RatesInOrder == Rings!Spec

(***************************************************************************)
(* Each rate-change point takes exactly the oldest queued rate into the    *)
(* match registers and the status, and no other point changes the rate.    *)
(***************************************************************************)
RateFollowsPoints ==
  [][consume' # consume /\ Len(PointQueue') < Len(PointQueue) =>
       IF out' \in RatePoints /\ RateQueue # <<>>
       THEN /\ mr' = [m0 |-> Head(RateQueue), m5 |-> Head(RateQueue)]
            /\ pps' = Head(RateQueue) /\ RateQueue' = Tail(RateQueue)
       ELSE UNCHANGED <<mr, pps, RateQueue>>]_vars

(***************************************************************************)
(* When the link is back for good, eth_check_link finds out and lwIP is    *)
(* told, however often the link flapped before (unless a panic stopped it  *)
(* all).                                                                   *)
(***************************************************************************)
LinkComesBack == <>[]phy => <>[](netif_up \/ panicked)

(***************************************************************************)
(* A writer that falls silent ends playback: the counter does not run for  *)
(* ever on points unless dac_advance is called again and again.            *)
(***************************************************************************)
DrainsToIdle ==
  []<>(~timer \/ pc = "write_advance" \/ irq_do = "ABSTRACT")

-----------------------------------------------------------------------------
(***************************************************************************)
(* The inductive invariants behind FirmwareProofs.tla.                     *)
(***************************************************************************)
PrepareSteps  == {"prep_produce", "prep_consume", "prep_flags", "prep_state"}
StoppingSteps == {"stop_load", "stop_shutter", "stop_dark", "stop_state"}

(* dac_prepare works on an idle DAC to its end; dac_flags holds SHUTTER    *)
(* exactly while the pin is set, and no register waiting to be stored into *)
(* dac_flags holds a SHUTTER that is out of date.                          *)
ShutterInv ==
  /\ ShutterGuard /\ ShutterReported
  /\ pc \in PrepareSteps => state = "IDLE"
  /\ ~panicked => /\ pc = "stop_dark" => "SHUTTER" \notin dac_flags
                  /\ pc \in {"prep_flags", "stop_flags"} =>
                       "SHUTTER" \notin reg.flags
  /\ pc \in {"stop_state", "stop_flags"} => ~shutter

(* Without link loss EINT3 never stops anything.                           *)
NoLinkLossInv == eint_pc = "idle" /\ (eint_pend => phy) /\ ~panicked

(* A call returns to where it was made from.                               *)
ReturnInv ==
  /\ pc \in {"main", "estop_store"} => reg.ret = "main"
  /\ pc \in {"clear_store", "clear_state"} => reg.ret \in {"main", "link_up"}

(* The counter runs only while playing, with the action of the source, and *)
(* never in the steps that rely on it being off.                           *)
SourceAction == IF playback_src = "ABSTRACT" THEN "ABSTRACT" ELSE "BUFFER"

TimerInv ==
  /\ timer => state = "PLAYING" /\ irq_do = SourceAction
  /\ pc \in StoppingSteps \union {"stop_flags", "start_irq", "start_timer",
                                  "src_set"} => ~timer
  /\ pc = "start_state" => state = "PREPARED"
  /\ pc \in {"start_irq", "start_timer"} => state = "PLAYING"
  /\ pc = "start_timer" => irq_do = SourceAction

DarkInv ==
  /\ IdleIsDark
  /\ pc = "stop_state" => out = Blank

(* What dac_stop has loaded of dac_flags is current when it stores.        *)
FlagsInv == pc \in {"stop_shutter", "stop_flags"} => reg.flags = dac_flags

(* The light engine's flags and state agree, the registers that hold its   *)
(* flags are current, and an e-stop whose dac_stop has not reached the     *)
(* state yet is still on its way there.                                    *)
LightEngineInv ==
  /\ pc # "clear_state" => (le_state = "ESTOP" <=> le_flags # {})
  /\ pc = "clear_state" => le_flags = {}
  /\ pc \in {"clear_store", "estop_store"} => reg.le = le_flags
  /\ pc \in PrepareSteps => le_state = "READY"
  /\ le_state = "ESTOP" =>
       state = "IDLE" \/ pc \in StoppingSteps \union {"stop_timer"}

ControlInv == /\ ShutterInv /\ NoLinkLossInv /\ ReturnInv /\ TimerInv
              /\ DarkInv /\ FlagsInv /\ LightEngineInv

(***************************************************************************)
(* What the ring refinements need besides: dac_prepare leaves both rings   *)
(* empty before it publishes the state; the room a writer was granted is   *)
(* still there when it advances, however many points were played since,    *)
(* and then holds its points; a rate about to be published has room.       *)
(***************************************************************************)
PreparedInv ==
  /\ pc \in {"prep_consume", "prep_flags", "prep_state"} => produce = 0
  /\ pc \in {"prep_flags", "prep_state"} =>
       consume = 0 /\ rate_produce = 0 /\ rate_consume = 0

WriterInv ==
  /\ pc \in {"write_fill", "write_advance"} =>
       /\ reg.n \in 1 .. MaxChunk
       /\ state # "IDLE" => reg.n <= dac_request
  /\ pc = "write_advance" /\ state # "IDLE" =>
       \A i \in produce .. produce + reg.n - 1 : buffer[i] \in Points

RateWriterInv ==
  pc = "queue_produce" /\ state # "IDLE" =>
    Fullness(rate_produce, rate_consume, DAC_RATE_BUFFER_SIZE)
      < DAC_RATE_BUFFER_SIZE - 1

RingsInv == PreparedInv /\ WriterInv /\ RateWriterInv
=============================================================================
