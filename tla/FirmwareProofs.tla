--------------------------- MODULE FirmwareProofs ---------------------------
(***************************************************************************)
(* Proofs about Firmware.tla, for every size of the rings, every set of    *)
(* points and rates and every set of enabled operations.                   *)
(*                                                                         *)
(* Each invariant is proved the same way: it holds initially, each action  *)
(* preserves it (one step of the proof per action), and PTL concludes.     *)
(***************************************************************************)
EXTENDS FirmwareSafety, SequenceTheorems, TLAPS

-----------------------------------------------------------------------------
(* Type correctness.                                                       *)

(* A remainder is within its range: the ring indices and the point count.  *)
LEMMA Wraps ==
  ASSUME NEW a \in Nat, NEW b \in Nat, b > 0
  PROVE  a % b \in 0 .. b - 1
BY SMT

(* The fields of the main loop's registers.                                *)
LEMMA RegType ==
  /\ NoReg \in Registers
  /\ \A r \in Registers :
       /\ r.flags \in SUBSET DacFlags /\ r.le \in SUBSET Conditions
       /\ r.stop \in SUBSET StopFlags /\ r.cond \in SUBSET Conditions
       /\ r.n \in Nat /\ r.rate \in Rates /\ r.src \in Sources
       /\ r.ret \in {"main", "src_set", "link_up"}
BY DataAssumption DEF NoReg, Registers, Sources

(* Loading a register keeps the registers typed.                           *)
LEMMA RegUpdate ==
  ASSUME NEW r \in Registers
  PROVE  /\ \A f \in SUBSET DacFlags : [r EXCEPT !.flags = f] \in Registers
         /\ \A c \in SUBSET Conditions : [r EXCEPT !.le = c] \in Registers
         /\ \A f \in SUBSET StopFlags : [r EXCEPT !.stop = f] \in Registers
         /\ \A x \in Rates : [r EXCEPT !.rate = x] \in Registers
         /\ \A n \in Nat : [r EXCEPT !.n = n] \in Registers
BY DEF Registers

(* So does a call of le_estop_clear or dac_stop, which loads several.      *)
LEMMA CallUpdate ==
  ASSUME NEW r \in Registers
  PROVE  /\ \A l, c \in SUBSET Conditions, x \in {"main", "link_up"} :
              [r EXCEPT !.le = l, !.cond = c, !.ret = x] \in Registers
         /\ \A f \in SUBSET StopFlags, x \in Sources :
              [r EXCEPT !.stop = f, !.src = x, !.ret = "src_set"]
                \in Registers
BY DEF Registers

(* A part of the state that a step leaves alone keeps its type.            *)
LEMMA Frame ==
  /\ ControlTypeOK /\ UNCHANGED ctlVars => ControlTypeOK'
  /\ RingTypeOK /\ UNCHANGED ringVars => RingTypeOK'
  /\ RateTypeOK /\ UNCHANGED rateVars => RateTypeOK'
  /\ PwmTypeOK /\ UNCHANGED mrVars => PwmTypeOK'
  /\ OutputTypeOK /\ UNCHANGED outVars => OutputTypeOK'
  /\ CpuTypeOK /\ UNCHANGED <<timer, cpuVars>> => CpuTypeOK'
  /\ FirmwareTypeOK /\ UNCHANGED fwVars => FirmwareTypeOK'
<1>1. ControlTypeOK /\ UNCHANGED ctlVars => ControlTypeOK'
  BY DEF ControlTypeOK, ctlVars
<1>2. RingTypeOK /\ UNCHANGED ringVars => RingTypeOK'
  BY DEF RingTypeOK, ringVars
<1>3. RateTypeOK /\ UNCHANGED rateVars => RateTypeOK'
  BY DEF RateTypeOK, rateVars
<1>4. PwmTypeOK /\ UNCHANGED mrVars => PwmTypeOK'
  BY DEF PwmTypeOK, mrVars
<1>5. OutputTypeOK /\ UNCHANGED outVars => OutputTypeOK'
  BY DEF OutputTypeOK, outVars
<1>6. CpuTypeOK /\ UNCHANGED <<timer, cpuVars>> => CpuTypeOK'
  BY DEF CpuTypeOK, cpuVars
<1>7. FirmwareTypeOK /\ UNCHANGED fwVars => FirmwareTypeOK'
  BY DEF FirmwareTypeOK, fwVars, leVars, srcVars, ethVars, eintVars
<1>8. QED
  BY <1>1, <1>2, <1>3, <1>4, <1>5, <1>6, <1>7

(* The state main() enters its loop in is well typed.                      *)
LEMMA InitType == Init => TypeOK
<1> SUFFICES ASSUME Init PROVE TypeOK
  OBVIOUS
<1> USE DEF Init, DacInit
<1>1. ControlTypeOK
  BY RingAssumption DEF ControlTypeOK, DacStates, IrqActions
<1>2. RingTypeOK
  BY RingAssumption DEF RingTypeOK, Slots
<1>3. RateTypeOK
  BY RingAssumption, DataAssumption DEF RateTypeOK, RateSlots
<1>4. PwmTypeOK
  BY DataAssumption DEF PwmTypeOK
<1>5. OutputTypeOK
  BY DEF OutputTypeOK
<1>6. CpuTypeOK
  BY RegType DEF CpuTypeOK, Labels
<1>7. FirmwareTypeOK
  BY DEF FirmwareTypeOK, Sources, LinkStates
<1>8. QED
  BY <1>1, <1>2, <1>3, <1>4, <1>5, <1>6, <1>7 DEF TypeOK

(* Every step of the DAC driver's main-loop operations keeps the types.    *)
LEMMA DacStepType == TypeOK /\ DacStep => TypeOK'
<1> SUFFICES ASSUME TypeOK, DacStep PROVE TypeOK'
  OBVIOUS
<1>0. UNCHANGED fwVars
  BY DEF DacStep
<1> USE RegType, RegUpdate, Frame, RingAssumption, DataAssumption, <1>0
    DEF TypeOK, Goto, Return, ReturnTo, CpuTypeOK
<1>1. CASE PrepareBegin(le_state = "READY")
  BY <1>1 DEF PrepareBegin, Labels
<1>2. CASE PrepareProduce
  BY <1>2 DEF PrepareProduce, Labels, RingTypeOK, Slots
<1>3. CASE PrepareConsume
  <2>1. dac_flags \in SUBSET DacFlags
    BY DEF OutputTypeOK
  <2>2. CpuTypeOK'
    BY <1>3, <2>1 DEF PrepareConsume, Labels
  <2>3. RingTypeOK'
    BY <1>3 DEF PrepareConsume, RingTypeOK, Slots
  <2>4. RateTypeOK'
    BY <1>3 DEF PrepareConsume, RateTypeOK, RateSlots
  <2>5. QED
    BY <1>3, <2>2, <2>3, <2>4 DEF PrepareConsume
<1>4. CASE PrepareFlags
  BY <1>4 DEF PrepareFlags, Labels, OutputTypeOK, DacFlags, StopFlags,
      outVars
<1>5. CASE PrepareState
  BY <1>5 DEF PrepareState, Labels, ControlTypeOK, DacStates, IrqActions
<1>6. CASE StartBegin
  BY <1>6 DEF StartBegin, Labels
<1>7. CASE StartState
  BY <1>7 DEF StartState, Labels, ControlTypeOK, DacStates, IrqActions
<1>8. CASE StartIrq(playback_src)
  BY <1>8 DEF StartIrq, Labels, ControlTypeOK, DacStates, IrqActions
<1>9. CASE StartTimer
  BY <1>9 DEF StartTimer, Labels, PwmTypeOK, mrVars
<1>10. CASE ShutterOpen
  BY <1>10 DEF ShutterOpen, Labels, OutputTypeOK, DacFlags, StopFlags,
      outVars
<1>11. CASE StopBegin
  BY <1>11 DEF StopBegin, Labels
<1>12. CASE StopTimer
  BY <1>12 DEF StopTimer, Labels
<1>13. CASE StopLoad
  BY <1>13 DEF StopLoad, Labels, OutputTypeOK, DacFlags, StopFlags, outVars
<1>14. CASE StopShutter
  BY <1>14 DEF StopShutter, Labels, OutputTypeOK, DacFlags, StopFlags,
      outVars
<1>15. CASE StopDark
  BY <1>15 DEF StopDark, Labels, OutputTypeOK, DacFlags, StopFlags, outVars
<1>16. CASE StopState
  BY <1>16 DEF StopState, Labels, ControlTypeOK, DacStates, IrqActions,
      OutputTypeOK, DacFlags, StopFlags, outVars
<1>17. CASE StopReturn
  BY <1>17 DEF StopReturn, Labels, OutputTypeOK, DacFlags, StopFlags,
      outVars
<1>18. CASE \E r \in Rates : SetRateBegin(r)
  <2>1. PICK r \in Rates : SetRateBegin(r)
    BY <1>18
  <2>2. QED
    BY <2>1 DEF SetRateBegin, Labels
<1>19. CASE SetRateMr0
  BY <1>19 DEF SetRateMr0, Labels, PwmTypeOK, mrVars
<1>20. CASE SetRateMr5
  BY <1>20 DEF SetRateMr5, Labels, PwmTypeOK, mrVars
<1>21. CASE SetRateLer
  BY <1>21 DEF SetRateLer, Labels, PwmTypeOK, mrVars
<1>22. CASE SetRatePps
  BY <1>22 DEF SetRatePps, Labels, PwmTypeOK, mrVars
<1>23. CASE \E r \in Rates : RateQueueBegin(r)
  <2>1. PICK r \in Rates : RateQueueBegin(r)
    BY <1>23
  <2>2. QED
    BY <2>1 DEF RateQueueBegin, Labels, RateTypeOK, RateSlots
<1>24. CASE RateQueueProduce
  BY <1>24 DEF RateQueueProduce, Labels, RateTypeOK, RateSlots
<1>25. CASE \E n \in 1 .. MaxChunk : WriteBegin(n)
  <2>1. PICK n \in 1 .. MaxChunk : WriteBegin(n)
    BY <1>25
  <2>2. QED
    BY <2>1 DEF WriteBegin, Labels
<1>26. CASE \E pts \in [1 .. reg.n -> Points] : WriteFill(pts)
  <2>1. PICK pts \in [1 .. reg.n -> Points] : WriteFill(pts)
    BY <1>26
  <2>2. QED
    BY SMTT(20), <2>1 DEF WriteFill, Labels, RingTypeOK, Slots
<1>27. CASE WriteAdvance
  BY <1>27 DEF WriteAdvance, Labels, RingTypeOK, Slots
<1>28. QED
  BY <1>1, <1>2, <1>3, <1>4, <1>5, <1>6, <1>7, <1>8, <1>9, <1>10, <1>11,
      <1>12, <1>13, <1>14, <1>15, <1>16, <1>17, <1>18, <1>19, <1>20, <1>21,
      <1>22, <1>23, <1>24, <1>25, <1>26, <1>27 DEF DacStep, Prepare, Start,
      Stop, SetRate, RateQueueing, Write

(* So do the light engine, the source and the link monitor.                *)
LEMMA OtherMainStepType ==
  TypeOK /\ (LightEngineStep \/ SourceStep \/ LinkStep) => TypeOK'
<1> SUFFICES ASSUME TypeOK, LightEngineStep \/ SourceStep \/ LinkStep
             PROVE  TypeOK'
  OBVIOUS
<1> USE RegType, RegUpdate, Frame
    DEF TypeOK, Goto, Return, ReturnTo, CpuTypeOK, Labels
<1>1. UNCHANGED <<ctlVars, ringVars, rateVars, mrVars, outVars, timer>>
  BY DEF LightEngineStep, SourceStep, LinkStep
<1>2. FirmwareTypeOK'
  <2>1. CASE LightEngineStep
    BY <2>1 DEF LightEngineStep, EstopBegin, EstopStore, ClearBegin, ClearLoad,
       ClearStore, ClearState, FirmwareTypeOK, leVars, srcVars, ethVars,
       eintVars, Conditions
  <2>2. CASE SourceStep
    BY ZenonT(30), <2>2 DEF SourceStep, SetSrcBegin, SetSrcStore, SetPlaying,
       FirmwareTypeOK, leVars, srcVars, ethVars, eintVars, Sources
  <2>3. CASE LinkStep
    BY <2>3 DEF LinkStep, CheckLinkGoingDown, LinkDown, CheckLinkUp, ClearLoad,
       LinkUp, FirmwareTypeOK, leVars, srcVars, ethVars, eintVars, LinkStates
  <2>4. QED
    BY <2>1, <2>2, <2>3
<1>3. CpuTypeOK'
  <2>0. timer' \in BOOLEAN /\ le_flags \in SUBSET Conditions
    BY <1>1 DEF FirmwareTypeOK
  <2>1. CASE EstopBegin
    BY <2>0, <2>1 DEF EstopBegin
  <2>2. CASE EstopStore
    BY <2>0, <2>2 DEF EstopStore, StopFlags
  <2>3. CASE ClearBegin
    BY <2>0, <2>3, CallUpdate DEF ClearBegin, ClearLoad
  <2>4. CASE ClearStore
    BY <2>0, <2>4 DEF ClearStore
  <2>5. CASE ClearState
    BY <2>0, <2>5 DEF ClearState
  <2>6. CASE SourceStep
    <3>1. CASE \E src \in {"ILDAPLAYER", "ABSTRACT"} : SetSrcBegin(src)
      <4>1. PICK src \in {"ILDAPLAYER", "ABSTRACT"} : SetSrcBegin(src)
        BY <3>1
      <4>2. src \in Sources /\ {"SRCSWITCH"} \in SUBSET StopFlags
        BY DEF Sources, StopFlags
      <4>3. reg' \in Registers
        BY <4>1, <4>2, CallUpdate DEF SetSrcBegin
      <4>4. QED
        BY <2>0, <4>1, <4>3 DEF SetSrcBegin
    <3>2. CASE SetSrcStore \/ SetPlaying
      BY <2>0, <3>2 DEF SetSrcStore, SetPlaying, cpuVars
    <3>3. QED
      BY <2>6, <3>1, <3>2 DEF SourceStep
  <2>7. CASE LinkStep
    <3>1. CASE CheckLinkUp
      BY <2>0, <3>1, CallUpdate DEF CheckLinkUp, ClearLoad, Conditions
    <3>2. CASE CheckLinkGoingDown \/ LinkDown \/ LinkUp
      BY <2>0, <3>2 DEF CheckLinkGoingDown, LinkDown, LinkUp
    <3>3. QED
      BY <2>7, <3>1, <3>2 DEF LinkStep
  <2>8. QED
    BY <2>1, <2>2, <2>3, <2>4, <2>5, <2>6, <2>7 DEF LightEngineStep
<1>4. QED
  BY <1>1, <1>2, <1>3

(* So does the PWM1 interrupt: its indices wrap.                           *)
LEMMA Pwm1IrqType == TypeOK /\ Pwm1Irq => TypeOK'
<1> SUFFICES ASSUME TypeOK, Pwm1Irq PROVE TypeOK'
  OBVIOUS
<1> USE Frame, RingAssumption, DataAssumption DEF TypeOK, Overflow
<1>0. UNCHANGED <<leVars, srcVars, ethVars, eintVars>>
  BY DEF Pwm1Irq
<1>1. FirmwareTypeOK'
  BY <1>0 DEF Pwm1Irq, FirmwareTypeOK, leVars, srcVars, ethVars, eintVars
<1>2. CASE PwmUnderflow
  <2> USE <1>2 DEF PwmUnderflow, dac_stop
  <2>1. ControlTypeOK'
    BY DEF ControlTypeOK, DacStates, IrqActions
  <2>2. PwmTypeOK' /\ OutputTypeOK'
    BY DEF PwmTypeOK, OutputTypeOK, DacFlags, StopFlags
  <2>3. CpuTypeOK'
    BY DEF CpuTypeOK, cpuVars
  <2>4. QED
    BY <1>1, <2>1, <2>2, <2>3
<1>3. CASE PwmPoint
  <2> USE <1>3 DEF PwmPoint
  <2>1. ControlTypeOK'
    BY Wraps DEF ControlTypeOK
  <2>2. RingTypeOK'
    BY Wraps DEF RingTypeOK, Slots
  <2>3. RateTypeOK'
    <3>1. rate_consume \in RateSlots /\ rate_consume' \in RateSlots
      BY Wraps DEF RateTypeOK, RateSlots, dac_pop_rate_change
    <3>2. QED
      BY <3>1 DEF RateTypeOK
  <2>4. PwmTypeOK'
    <3>1. rate_buffer[rate_consume] \in Rates
      BY DEF RateTypeOK
    <3>2. match' \in [m0 : Rates, m5 : Rates]
      BY DEF PwmTypeOK
    <3>3. \/ ler' = FALSE /\ mr' = mr /\ pps' = pps
          \/ /\ mr' = [m0 |-> rate_buffer[rate_consume],
                        m5 |-> rate_buffer[rate_consume]]
             /\ ler' = TRUE /\ pps' = rate_buffer[rate_consume]
      BY DEF dac_pop_rate_change
    <3>4. ler' \in BOOLEAN
      BY <3>3
    <3>5. mr' \in [m0 : Rates, m5 : Rates] /\ pps' \in Rates
      BY <3>1, <3>3 DEF PwmTypeOK
    <3>6. QED
      BY <3>2, <3>4, <3>5 DEF PwmTypeOK
  <2>5. OutputTypeOK'
    BY DEF RingTypeOK, OutputTypeOK
  <2>6. QED
    BY <1>1, <2>1, <2>2, <2>3, <2>4, <2>5
<1>4. CASE PwmAbstract(playing)
  <2> USE <1>4 DEF PwmAbstract
  <2>1. ControlTypeOK'
    BY Wraps DEF ControlTypeOK
  <2>2. PwmTypeOK' /\ OutputTypeOK'
    BY DEF PwmTypeOK, OutputTypeOK
  <2>3. QED
    BY <1>1, <2>1, <2>2
<1>5. CASE PwmPanic
  BY <1>1, <1>5 DEF PwmPanic, PwmTypeOK, OutputTypeOK
<1>6. QED
  BY <1>2, <1>3, <1>4, <1>5 DEF Pwm1Irq

(* And the link's change and its interrupt.                                *)
LEMMA Eint3Type == TypeOK /\ (PhyChange \/ EintEnter \/ EintStop) => TypeOK'
<1> SUFFICES ASSUME TypeOK, PhyChange \/ EintEnter \/ EintStop PROVE TypeOK'
  OBVIOUS
<1> USE Frame DEF TypeOK
<1>1. CASE PhyChange
  BY <1>1 DEF PhyChange, dacVars, FirmwareTypeOK, leVars, srcVars, ethVars
<1>2. CASE EintEnter
  BY <1>2 DEF EintEnter, dacVars, FirmwareTypeOK, leVars, srcVars, ethVars,
     Conditions
<1>3. CASE EintStop
  <2> USE <1>3 DEF EintStop, dac_stop
  <2>1. ControlTypeOK'
    BY RingAssumption DEF ControlTypeOK, DacStates, IrqActions
  <2>2. OutputTypeOK'
    BY DEF OutputTypeOK, DacFlags, StopFlags
  <2>3. CpuTypeOK'
    BY DEF CpuTypeOK, cpuVars
  <2>4. FirmwareTypeOK'
    BY DEF FirmwareTypeOK, leVars, srcVars, LinkStates
  <2>5. QED
    BY <2>1, <2>2, <2>3, <2>4
<1>4. QED
  BY <1>1, <1>2, <1>3

(* Hence every step keeps the types.                                       *)
LEMMA NextType == TypeOK /\ [Next]_vars => TypeOK'
<1> SUFFICES ASSUME TypeOK, [Next]_vars PROVE TypeOK'
  OBVIOUS
<1>1. CASE MainStep
  BY <1>1, DacStepType, OtherMainStepType DEF MainStep
<1>2. CASE PhyChange \/ EintEnter \/ EintStop
  BY <1>2, Eint3Type
<1>3. CASE Pwm1Irq
  BY <1>3, Pwm1IrqType
<1>4. CASE UNCHANGED vars
  BY <1>4, Frame DEF TypeOK, vars, dacVars
<1>5. QED
  BY <1>1, <1>2, <1>3, <1>4 DEF Next, Halted

(***************************************************************************)
(* TypeOK holds in every reachable state: in particular the ring indices   *)
(* wrap within their rings, however dac_prepare, dac_advance, dac_stop and *)
(* the interrupt interleave, and nothing but a point that was written is   *)
(* ever played.                                                            *)
(***************************************************************************)
THEOREM TypeCorrect == Spec => []TypeOK
<1>1. Init => TypeOK
  BY InitType
<1>2. TypeOK /\ [Next]_vars => TypeOK'
  BY NextType
<1>3. QED
  BY <1>1, <1>2, PTL DEF Spec

-----------------------------------------------------------------------------
(* The shutter.                                                            *)

(* dac_prepare and dac_start keep the shutter's invariant: the pin is set  *)
(* only after a look at the state, and the loaded flags carry no SHUTTER.  *)
LEMMA StartShutter == ShutterInv /\ MainRuns /\ (Prepare \/ Start)
                        /\ UNCHANGED fwVars => ShutterInv'
<1> SUFFICES ASSUME ShutterInv, MainRuns, Prepare \/ Start, UNCHANGED fwVars
             PROVE  ShutterInv'
  OBVIOUS
<1> USE DEF ShutterInv, ShutterGuard, ShutterReported, PrepareSteps, Goto,
            Return, MainRuns, NoReg, outVars, ctlVars, cpuVars, fwVars
<1>1. CASE Prepare
  <2>1. CASE PrepareBegin(le_state = "READY")
    BY <2>1 DEF PrepareBegin
  <2>2. CASE PrepareProduce
    BY <2>2 DEF PrepareProduce
  <2>3. CASE PrepareConsume
    BY <2>3 DEF PrepareConsume
  <2>4. CASE PrepareFlags
    BY <2>4 DEF PrepareFlags, StopFlags
  <2>5. CASE PrepareState
    BY <2>5 DEF PrepareState
  <2>6. QED
    BY <1>1, <2>1, <2>2, <2>3, <2>4, <2>5 DEF Prepare
<1>2. CASE Start
  <2>1. CASE StartBegin
    BY <2>1 DEF StartBegin
  <2>2. CASE StartState
    BY <2>2 DEF StartState
  <2>3. CASE StartIrq(playback_src)
    BY <2>3 DEF StartIrq
  <2>4. CASE StartTimer
    BY <2>4 DEF StartTimer
  <2>5. CASE ShutterOpen
    BY <2>5 DEF ShutterOpen
  <2>6. QED
    BY <1>2, <2>1, <2>2, <2>3, <2>4, <2>5 DEF Start
<1>3. QED
  BY <1>1, <1>2

(* dac_stop keeps it: the flag and the pin are cleared before the state    *)
(* goes idle, and what it stores into dac_flags has no SHUTTER.            *)
LEMMA StopShutterInv ==
  TypeOK /\ ShutterInv /\ MainRuns /\ Stop /\ UNCHANGED fwVars => ShutterInv'
<1> SUFFICES ASSUME TypeOK, ShutterInv, MainRuns, Stop, UNCHANGED fwVars
             PROVE  ShutterInv'
  OBVIOUS
<1>0. reg \in Registers
  BY DEF TypeOK, CpuTypeOK
<1> USE DEF ShutterInv, ShutterGuard, ShutterReported, PrepareSteps, Goto,
            Return, MainRuns, NoReg, outVars, ctlVars, cpuVars, fwVars
<1>1. CASE StopBegin
  BY <1>1 DEF StopBegin
<1>2. CASE StopTimer
  BY <1>2 DEF StopTimer
<1>3. CASE StopLoad
  BY <1>3 DEF StopLoad
<1>4. CASE StopShutter
  BY <1>4 DEF StopShutter
<1>5. CASE StopDark
  BY <1>5 DEF StopDark
<1>6. CASE StopState
  BY <1>0, <1>6 DEF StopState, Registers
<1>7. CASE StopReturn
  BY <1>0, <1>7, RegType DEF StopReturn, ReturnTo, StopFlags
<1>8. QED
  BY <1>1, <1>2, <1>3, <1>4, <1>5, <1>6, <1>7 DEF Stop

(* The other operations of the main loop touch neither pin nor flags, and  *)
(* go through no step of dac_prepare or dac_stop.                          *)
LEMMA OtherMainShutter ==
  /\ TypeOK /\ ShutterInv
  /\ \/ (SetRate \/ RateQueueing \/ Write) /\ UNCHANGED fwVars
     \/ LightEngineStep \/ SourceStep \/ LinkStep
  => ShutterInv'
<1> SUFFICES ASSUME TypeOK, ShutterInv,
                    \/ (SetRate \/ RateQueueing \/ Write) /\ UNCHANGED fwVars
                    \/ LightEngineStep \/ SourceStep \/ LinkStep
             PROVE  ShutterInv'
  OBVIOUS
<1>1. UNCHANGED <<state, shutter, dac_flags, panicked>>
  BY DEF SetRate, SetRateBegin, SetRateMr0, SetRateMr5, SetRateLer, SetRatePps,
     RateQueueing, RateQueueBegin, RateQueueProduce, Write, WriteBegin,
     WriteFill, WriteAdvance, LightEngineStep, SourceStep, LinkStep, ctlVars,
     outVars, fwVars
<1>2. pc \notin {"stop_dark", "stop_flags"} \/ UNCHANGED cpuVars
  BY DEF SetRate, SetRateBegin, SetRateMr0, SetRateMr5, SetRateLer, SetRatePps,
     RateQueueing, RateQueueBegin, RateQueueProduce, Write, WriteBegin,
     WriteFill, WriteAdvance, LightEngineStep, EstopBegin, EstopStore,
     ClearBegin, ClearStore, ClearState, SourceStep, SetSrcBegin, SetSrcStore,
     SetPlaying, LinkStep, CheckLinkGoingDown, LinkDown, CheckLinkUp, LinkUp
<1>3. \/ pc' \notin PrepareSteps \union {"stop_dark", "stop_state",
                                         "stop_flags"}
      \/ UNCHANGED cpuVars
  <2>1. reg.ret \in {"main", "src_set", "link_up"}
    BY RegType DEF TypeOK, CpuTypeOK
  <2> USE DEF Goto, Return, PrepareSteps
  <2>2. CASE SetRate \/ RateQueueing \/ Write
    BY <2>2
       DEF SetRate, SetRateBegin, SetRateMr0, SetRateMr5, SetRateLer,
       SetRatePps, RateQueueing, RateQueueBegin, RateQueueProduce, Write,
       WriteBegin, WriteFill, WriteAdvance
  <2>3. CASE LightEngineStep
    BY <2>1, <2>3
       DEF LightEngineStep, EstopBegin, EstopStore, ClearBegin, ClearLoad,
       ClearStore, ClearState, ReturnTo
  <2>4. CASE SourceStep \/ LinkStep
    BY <2>4
       DEF SourceStep, SetSrcBegin, SetSrcStore, SetPlaying, LinkStep,
       CheckLinkGoingDown, LinkDown, CheckLinkUp, LinkUp, ClearLoad
  <2>5. QED
    BY <2>2, <2>3, <2>4
<1>4. QED
  BY <1>1, <1>2, <1>3
     DEF ShutterInv, ShutterGuard, ShutterReported, PrepareSteps, cpuVars

(* The two interrupts keep it at any point of the main loop.               *)
LEMMA InterruptShutter ==
  ShutterInv /\ (PhyChange \/ EintEnter \/ EintStop \/ Pwm1Irq) => ShutterInv'
<1> SUFFICES ASSUME ShutterInv,
                    PhyChange \/ EintEnter \/ EintStop \/ Pwm1Irq
             PROVE  ShutterInv'
  OBVIOUS
<1> USE DEF ShutterInv, ShutterGuard, ShutterReported, PrepareSteps,
            cpuVars, outVars, ctlVars, dacVars
<1>1. CASE PhyChange
  BY <1>1 DEF PhyChange
<1>2. CASE EintEnter
  BY <1>2 DEF EintEnter
<1>3. CASE EintStop
  BY <1>3 DEF EintStop, dac_stop
<1>4. CASE PwmUnderflow /\ UNCHANGED panicked
  BY <1>4 DEF PwmUnderflow, dac_stop
<1>5. CASE PwmPoint /\ UNCHANGED panicked
  BY <1>5 DEF PwmPoint
<1>6. CASE PwmAbstract(playing) /\ UNCHANGED panicked
  BY <1>6 DEF PwmAbstract
<1>7. CASE PwmPanic /\ panicked' = TRUE
  BY <1>7 DEF PwmPanic
<1>8. QED
  BY <1>1, <1>2, <1>3, <1>4, <1>5, <1>6, <1>7 DEF Pwm1Irq

(***************************************************************************)
(* With or without link loss the shutter is open only while the DAC plays, *)
(* and the SHUTTER flag that the status reports agrees with the pin.       *)
(* ShutterInv adds to the two what the main loop's registers may hold: the *)
(* step that stores into dac_flags could otherwise bring back a flag that  *)
(* an interrupt has cleared since the load.                                *)
(***************************************************************************)
THEOREM ShutterSafe == Spec => [](ShutterGuard /\ ShutterReported)
<1>1. Init => ShutterInv
  BY DEF Init, DacInit, ShutterInv, ShutterGuard, ShutterReported, PrepareSteps
<1>2. TypeOK /\ ShutterInv /\ [Next]_vars => ShutterInv'
  <2> SUFFICES ASSUME TypeOK, ShutterInv, [Next]_vars PROVE ShutterInv'
    OBVIOUS
  <2>1. CASE MainStep
    BY <2>1, StartShutter, StopShutterInv, OtherMainShutter
       DEF MainStep, DacStep
  <2>2. CASE PhyChange \/ EintEnter \/ EintStop \/ Pwm1Irq
    BY <2>2, InterruptShutter
  <2>3. CASE UNCHANGED vars
    BY <2>3 DEF ShutterInv, ShutterGuard, ShutterReported, PrepareSteps,
       vars, dacVars, fwVars, ctlVars, outVars, cpuVars
  <2>4. QED
    BY <2>1, <2>2, <2>3 DEF Next, Halted
<1>3. ShutterInv => ShutterGuard /\ ShutterReported
  BY DEF ShutterInv
<1>4. QED
  BY <1>1, <1>2, <1>3, TypeCorrect, PTL DEF Spec

-----------------------------------------------------------------------------
(* Playback control without link loss, one lemma per part of ControlInv. *)

(* A call of dac_stop or le_estop_clear returns to its caller.              *)
LEMMA MainReturnInv == TypeOK /\ ControlInv /\ MainStep => ReturnInv'
<1> SUFFICES ASSUME TypeOK, ControlInv, MainStep PROVE ReturnInv'
  OBVIOUS
<1>0. reg \in Registers
  BY DEF TypeOK, CpuTypeOK
<1> USE <1>0, RegType DEF ControlInv, ShutterInv, ReturnInv, TimerInv,
   DarkInv, FlagsInv, LightEngineInv, IdleIsDark, NoReg, Goto, Return,
   ctlVars, outVars, cpuVars, fwVars, leVars, srcVars
<1>1. CASE Prepare /\ UNCHANGED fwVars
  BY <1>1 DEF Prepare, PrepareBegin, PrepareProduce, PrepareConsume,
     PrepareFlags, PrepareState
<1>2. CASE Start /\ UNCHANGED fwVars
  BY <1>2 DEF Start, StartBegin, StartState, StartIrq, StartTimer,
     ShutterOpen
<1>3. CASE Stop /\ UNCHANGED fwVars
  BY <1>3 DEF Stop, StopBegin, StopTimer, StopLoad, StopShutter, StopDark,
     StopState, StopReturn, ReturnTo
<1>4. CASE (SetRate \/ RateQueueing \/ Write) /\ UNCHANGED fwVars
  BY <1>4 DEF SetRate, RateQueueing, Write, SetRateBegin, SetRateMr0,
     SetRateMr5, SetRateLer, SetRatePps, RateQueueBegin, RateQueueProduce,
     WriteBegin, WriteFill, WriteAdvance
<1>5. CASE LightEngineStep
  <2>1. CASE EstopBegin
    BY <1>5, <2>1 DEF EstopBegin, LightEngineStep
  <2>2. CASE EstopStore
    BY <1>5, <2>2 DEF EstopStore, LightEngineStep
  <2>3. CASE ClearBegin
    BY <1>5, <2>3 DEF ClearBegin, LightEngineStep, ClearLoad
  <2>4. CASE ClearStore
    BY <1>5, <2>4 DEF ClearStore, LightEngineStep, ReturnTo
  <2>5. CASE ClearState
    BY <1>5, <2>5 DEF ClearState, LightEngineStep, ReturnTo
  <2>6. QED
    BY <1>5, <2>1, <2>2, <2>3, <2>4, <2>5 DEF LightEngineStep
<1>6. CASE SourceStep
  BY <1>6 DEF SourceStep, SetSrcBegin, SetSrcStore, SetPlaying
<1>7. CASE LinkStep
  <2>1. CASE CheckLinkGoingDown
    BY <1>7, <2>1 DEF CheckLinkGoingDown, LinkStep
  <2>2. CASE LinkDown
    BY <1>7, <2>2 DEF LinkDown, LinkStep
  <2>3. CASE CheckLinkUp
    BY <1>7, <2>3 DEF CheckLinkUp, LinkStep, ClearLoad
  <2>4. CASE LinkUp
    BY <1>7, <2>4 DEF LinkUp, LinkStep
  <2>5. QED
    BY <1>7, <2>1, <2>2, <2>3, <2>4 DEF LinkStep
<1>8. QED
  BY <1>1, <1>2, <1>3, <1>4, <1>5, <1>6, <1>7 DEF MainStep, DacStep

(* The counter runs only while the DAC plays its source.                    *)
LEMMA MainTimerInv == TypeOK /\ ControlInv /\ MainStep => TimerInv'
<1> SUFFICES ASSUME TypeOK, ControlInv, MainStep PROVE TimerInv'
  OBVIOUS
<1>0. reg \in Registers
  BY DEF TypeOK, CpuTypeOK
<1> USE <1>0, RegType DEF ControlInv, ShutterInv, ReturnInv, TimerInv,
   DarkInv, FlagsInv, LightEngineInv, IdleIsDark, NoReg, Goto, Return,
   ctlVars, outVars, cpuVars, fwVars, leVars, srcVars, SourceAction,
   StoppingSteps, PrepareSteps
<1>1. CASE Prepare /\ UNCHANGED fwVars
  BY <1>1 DEF Prepare, PrepareBegin, PrepareProduce, PrepareConsume,
     PrepareFlags, PrepareState
<1>2. CASE Start /\ UNCHANGED fwVars
  BY <1>2 DEF Start, StartBegin, StartState, StartIrq, StartTimer,
     ShutterOpen
<1>3. CASE Stop /\ UNCHANGED fwVars
  BY <1>3 DEF Stop, StopBegin, StopTimer, StopLoad, StopShutter, StopDark,
     StopState, StopReturn, ReturnTo
<1>4. CASE (SetRate \/ RateQueueing \/ Write) /\ UNCHANGED fwVars
  BY <1>4 DEF SetRate, RateQueueing, Write, SetRateBegin, SetRateMr0,
     SetRateMr5, SetRateLer, SetRatePps, RateQueueBegin, RateQueueProduce,
     WriteBegin, WriteFill, WriteAdvance
<1>5. CASE LightEngineStep
  BY <1>5 DEF LightEngineStep, EstopBegin, EstopStore, ClearBegin,
     ClearLoad, ClearStore, ClearState, ReturnTo
<1>6. CASE SourceStep
  BY <1>6 DEF SourceStep, SetSrcBegin, SetSrcStore, SetPlaying
<1>7. CASE LinkStep
  BY <1>7 DEF LinkStep, CheckLinkGoingDown, LinkDown, CheckLinkUp,
     ClearLoad, LinkUp
<1>8. QED
  BY <1>1, <1>2, <1>3, <1>4, <1>5, <1>6, <1>7 DEF MainStep, DacStep

(* An idle DAC is dark.                                                     *)
LEMMA MainDarkInv == TypeOK /\ ControlInv /\ MainStep => DarkInv'
<1> SUFFICES ASSUME TypeOK, ControlInv, MainStep PROVE DarkInv'
  OBVIOUS
<1>0. reg \in Registers
  BY DEF TypeOK, CpuTypeOK
<1> USE <1>0, RegType DEF ControlInv, ShutterInv, ReturnInv, TimerInv,
   DarkInv, FlagsInv, LightEngineInv, IdleIsDark, NoReg, Goto, Return,
   ctlVars, outVars, cpuVars, fwVars, leVars, srcVars, IdleIsDark,
   StoppingSteps
<1>1. CASE Prepare /\ UNCHANGED fwVars
  BY <1>1 DEF Prepare, PrepareBegin, PrepareProduce, PrepareConsume,
     PrepareFlags, PrepareState
<1>2. CASE Start /\ UNCHANGED fwVars
  BY <1>2 DEF Start, StartBegin, StartState, StartIrq, StartTimer,
     ShutterOpen
<1>3. CASE Stop /\ UNCHANGED fwVars
  BY <1>3 DEF Stop, StopBegin, StopTimer, StopLoad, StopShutter, StopDark,
     StopState, StopReturn, ReturnTo
<1>4. CASE (SetRate \/ RateQueueing \/ Write) /\ UNCHANGED fwVars
  BY <1>4 DEF SetRate, RateQueueing, Write, SetRateBegin, SetRateMr0,
     SetRateMr5, SetRateLer, SetRatePps, RateQueueBegin, RateQueueProduce,
     WriteBegin, WriteFill, WriteAdvance
<1>5. CASE LightEngineStep
  BY <1>5 DEF LightEngineStep, EstopBegin, EstopStore, ClearBegin,
     ClearLoad, ClearStore, ClearState, ReturnTo
<1>6. CASE SourceStep
  BY <1>6 DEF SourceStep, SetSrcBegin, SetSrcStore, SetPlaying
<1>7. CASE LinkStep
  BY <1>7 DEF LinkStep, CheckLinkGoingDown, LinkDown, CheckLinkUp,
     ClearLoad, LinkUp
<1>8. QED
  BY <1>1, <1>2, <1>3, <1>4, <1>5, <1>6, <1>7 DEF MainStep, DacStep

(* The flags that dac_stop has loaded are still current when it stores.     *)
LEMMA MainFlagsInv == TypeOK /\ ControlInv /\ MainStep => FlagsInv'
<1> SUFFICES ASSUME TypeOK, ControlInv, MainStep PROVE FlagsInv'
  OBVIOUS
<1>0. reg \in Registers
  BY DEF TypeOK, CpuTypeOK
<1> USE <1>0, RegType DEF ControlInv, ShutterInv, ReturnInv, TimerInv,
   DarkInv, FlagsInv, LightEngineInv, IdleIsDark, NoReg, Goto, Return,
   ctlVars, outVars, cpuVars, fwVars, leVars, srcVars, StoppingSteps,
   PrepareSteps
<1>1. CASE Prepare /\ UNCHANGED fwVars
  BY <1>1 DEF Prepare, PrepareBegin, PrepareProduce, PrepareConsume,
     PrepareFlags, PrepareState
<1>2. CASE Start /\ UNCHANGED fwVars
  BY <1>2 DEF Start, StartBegin, StartState, StartIrq, StartTimer,
     ShutterOpen
<1>3. CASE Stop /\ UNCHANGED fwVars
  <2>1. CASE StopBegin
    BY <1>3, <2>1 DEF StopBegin
  <2>2. CASE StopTimer
    BY <1>3, <2>2 DEF StopTimer
  <2>3. CASE StopLoad
    BY <1>3, <2>3 DEF StopLoad
  <2>4. CASE StopShutter
    BY <1>3, <2>4 DEF StopShutter
  <2>5. CASE StopDark
    BY <1>3, <2>5 DEF StopDark
  <2>6. CASE StopState
    BY <1>3, <2>6 DEF StopState
  <2>7. CASE StopReturn
    BY <1>3, <2>7 DEF StopReturn, ReturnTo
  <2>8. QED
    BY <1>3, <2>1, <2>2, <2>3, <2>4, <2>5, <2>6, <2>7 DEF Stop
<1>4. CASE (SetRate \/ RateQueueing \/ Write) /\ UNCHANGED fwVars
  BY <1>4 DEF SetRate, RateQueueing, Write, SetRateBegin, SetRateMr0,
     SetRateMr5, SetRateLer, SetRatePps, RateQueueBegin, RateQueueProduce,
     WriteBegin, WriteFill, WriteAdvance
<1>5. CASE LightEngineStep
  BY <1>5 DEF LightEngineStep, EstopBegin, EstopStore, ClearBegin,
     ClearLoad, ClearStore, ClearState, ReturnTo
<1>6. CASE SourceStep
  BY <1>6 DEF SourceStep, SetSrcBegin, SetSrcStore, SetPlaying
<1>7. CASE LinkStep
  BY <1>7 DEF LinkStep, CheckLinkGoingDown, LinkDown, CheckLinkUp,
     ClearLoad, LinkUp
<1>8. QED
  BY <1>1, <1>2, <1>3, <1>4, <1>5, <1>6, <1>7 DEF MainStep, DacStep

(* The e-stop and its conditions agree, and an e-stop reaches the DAC.      *)
LEMMA MainLightEngineInv == TypeOK /\ ControlInv /\ MainStep => LightEngineInv'
<1> SUFFICES ASSUME TypeOK, ControlInv, MainStep PROVE LightEngineInv'
  OBVIOUS
<1>0. reg \in Registers
  BY DEF TypeOK, CpuTypeOK
<1> USE <1>0, RegType DEF ControlInv, ShutterInv, ReturnInv, TimerInv,
   DarkInv, FlagsInv, LightEngineInv, IdleIsDark, NoReg, Goto, Return,
   ctlVars, outVars, cpuVars, fwVars, leVars, srcVars, StoppingSteps,
   PrepareSteps
<1>1. CASE Prepare /\ UNCHANGED fwVars
  BY <1>1 DEF Prepare, PrepareBegin, PrepareProduce, PrepareConsume,
     PrepareFlags, PrepareState
<1>2. CASE Start /\ UNCHANGED fwVars
  BY <1>2 DEF Start, StartBegin, StartState, StartIrq, StartTimer,
     ShutterOpen
<1>3. CASE Stop /\ UNCHANGED fwVars
  BY <1>3 DEF Stop, StopBegin, StopTimer, StopLoad, StopShutter, StopDark,
     StopState, StopReturn, ReturnTo
<1>4. CASE (SetRate \/ RateQueueing \/ Write) /\ UNCHANGED fwVars
  BY <1>4 DEF SetRate, RateQueueing, Write, SetRateBegin, SetRateMr0,
     SetRateMr5, SetRateLer, SetRatePps, RateQueueBegin, RateQueueProduce,
     WriteBegin, WriteFill, WriteAdvance
<1>5. CASE LightEngineStep
  <2>1. CASE EstopBegin
    BY <1>5, <2>1 DEF EstopBegin, LightEngineStep
  <2>2. CASE EstopStore
    BY <1>5, <2>2 DEF EstopStore, LightEngineStep
  <2>3. CASE ClearBegin
    BY <1>5, <2>3 DEF ClearBegin, LightEngineStep, ClearLoad
  <2>4. CASE ClearStore
    BY <1>5, <2>4 DEF ClearStore, LightEngineStep, ReturnTo
  <2>5. CASE ClearState
    BY <1>5, <2>5 DEF ClearState, LightEngineStep, ReturnTo
  <2>6. QED
    BY <1>5, <2>1, <2>2, <2>3, <2>4, <2>5 DEF LightEngineStep
<1>6. CASE SourceStep
  BY <1>6 DEF SourceStep, SetSrcBegin, SetSrcStore, SetPlaying
<1>7. CASE LinkStep
  <2>1. CASE CheckLinkGoingDown
    BY <1>7, <2>1 DEF CheckLinkGoingDown, LinkStep
  <2>2. CASE LinkDown
    BY <1>7, <2>2 DEF LinkDown, LinkStep
  <2>3. CASE CheckLinkUp
    BY <1>7, <2>3 DEF CheckLinkUp, LinkStep, ClearLoad
  <2>4. CASE LinkUp
    BY <1>7, <2>4 DEF LinkUp, LinkStep
  <2>5. QED
    BY <1>7, <2>1, <2>2, <2>3, <2>4 DEF LinkStep
<1>8. QED
  BY <1>1, <1>2, <1>3, <1>4, <1>5, <1>6, <1>7 DEF MainStep, DacStep

(* Without link loss EINT3 enters no e-stop, and the PWM1 interrupt finds  *)
(* the action of the source: it can only play, or stop on an underflow.    *)
LEMMA InterruptControl ==
  ASSUME LinkLoss = FALSE
  PROVE  ControlInv /\ (PhyChange \/ EintEnter \/ EintStop \/ Pwm1Irq)
           => ControlInv'
<1> SUFFICES ASSUME ControlInv, PhyChange \/ EintEnter \/ EintStop \/ Pwm1Irq
             PROVE  ControlInv'
  OBVIOUS
<1>1. ShutterInv'
  BY InterruptShutter DEF ControlInv
<1> USE LinkLoss = FALSE
    DEF ControlInv, NoLinkLossInv, ReturnInv, TimerInv, DarkInv, FlagsInv,
        LightEngineInv, IdleIsDark, SourceAction, StoppingSteps, PrepareSteps,
        ctlVars, outVars, cpuVars, dacVars, leVars, srcVars, eintVars
<1>2. CASE PhyChange
  BY <1>1, <1>2 DEF PhyChange
<1>3. CASE EintEnter
  BY <1>1, <1>3 DEF EintEnter
<1>4. ~PwmPanic /\ ~EintStop
  BY DEF PwmPanic, Overflow, EintStop
<1>5. CASE PwmUnderflow /\ UNCHANGED <<leVars, srcVars, eintVars, panicked>>
  BY <1>1, <1>5 DEF PwmUnderflow, Overflow, dac_stop
<1>6. CASE PwmPoint /\ UNCHANGED <<leVars, srcVars, eintVars, panicked>>
  BY <1>1, <1>6 DEF PwmPoint, Overflow
<1>7. CASE /\ PwmAbstract(playing)
           /\ UNCHANGED <<leVars, srcVars, eintVars, panicked>>
  BY <1>1, <1>7 DEF PwmAbstract, Overflow
<1>8. QED
  BY <1>2, <1>3, <1>4, <1>5, <1>6, <1>7 DEF Pwm1Irq

(* Hence ControlInv is inductive when the link is never lost.              *)
LEMMA ControlInductive ==
  ASSUME LinkLoss = FALSE
  PROVE  /\ Init => ControlInv
         /\ TypeOK /\ ControlInv /\ [Next]_vars => ControlInv'
<1>1. Init => ControlInv
  BY DEF Init, DacInit, ControlInv, ShutterInv, ShutterGuard, ShutterReported,
     NoLinkLossInv, ReturnInv, TimerInv, DarkInv, FlagsInv, LightEngineInv,
     IdleIsDark, StoppingSteps, PrepareSteps, NoReg
<1>2. ASSUME TypeOK, ControlInv, [Next]_vars PROVE ControlInv'
  <2>1. CASE MainStep
    <3>1. ShutterInv'
      BY <1>2, <2>1, StartShutter, StopShutterInv, OtherMainShutter
         DEF ControlInv, MainStep, DacStep
    <3>2. NoLinkLossInv'
      BY <1>2, <2>1 DEF ControlInv, NoLinkLossInv, MainStep, DacStep,
         LightEngineStep, SourceStep, LinkStep, fwVars, eintVars
    <3>3. QED
      BY <1>2, <2>1, <3>1, <3>2, MainReturnInv, MainTimerInv, MainDarkInv,
         MainFlagsInv, MainLightEngineInv DEF ControlInv
  <2>2. CASE PhyChange \/ EintEnter \/ EintStop \/ Pwm1Irq
    BY <1>2, <2>2, InterruptControl
  <2>3. CASE UNCHANGED vars
    BY <1>2, <2>3 DEF ControlInv, ShutterInv, ShutterGuard, ShutterReported,
       NoLinkLossInv, ReturnInv, TimerInv, DarkInv, FlagsInv, LightEngineInv,
       IdleIsDark, StoppingSteps, PrepareSteps, SourceAction, vars, dacVars,
       fwVars, ctlVars, outVars, cpuVars, leVars, srcVars, eintVars
  <2>4. QED
    BY <1>2, <2>1, <2>2, <2>3 DEF Next, Halted
<1>3. QED
  BY <1>1, <1>2

(***************************************************************************)
(* As long as the link is not lost, no order of calls and underflows gets  *)
(* playback into a bad state: an idle DAC is dark, an e-stopped one idle,  *)
(* a running one plays its source, and the interrupt's panic is dead code. *)
(* ControlInv is the strengthening: TimerInv says at which places of the   *)
(* main loop the counter is off, hence no underflow can interfere, and the *)
(* other parts what the registers hold there.                              *)
(***************************************************************************)
THEOREM ControlSafe ==
  ASSUME LinkLoss = FALSE
  PROVE  Spec => [](IdleIsDark /\ EstopHolds /\ PlaysItsSource /\ NoPanic)
<1>1. Init => ControlInv
  BY ControlInductive
<1>2. TypeOK /\ ControlInv /\ [Next]_vars => ControlInv'
  BY ControlInductive
<1>3. ControlInv => IdleIsDark /\ EstopHolds /\ PlaysItsSource /\ NoPanic
  BY DEF ControlInv, NoLinkLossInv, TimerInv, DarkInv, LightEngineInv,
     EstopHolds, PlaysItsSource, NoPanic, SourceAction, StoppingSteps
<1>4. QED
  BY <1>1, <1>2, <1>3, TypeCorrect, PTL DEF Spec

(***************************************************************************)
(* Nor is a recorded stop reason lost before the next dac_prepare.         *)
(***************************************************************************)
THEOREM StopReasonKept ==
  ASSUME LinkLoss = FALSE
  PROVE  Spec => StopReasonSticks
<1>1. Init => ControlInv
  BY ControlInductive
<1>2. TypeOK /\ ControlInv /\ [Next]_vars => ControlInv'
  BY ControlInductive
<1>3. TypeOK /\ ControlInv /\ [Next]_vars =>
        [dac_flags \intersect StopFlags \subseteq dac_flags'
           \/ pc = "prep_flags"]_vars
  <2> SUFFICES ASSUME TypeOK, ControlInv, Next, pc # "prep_flags"
               PROVE  dac_flags \intersect StopFlags \subseteq dac_flags'
    BY DEF vars
  <2> USE DEF ControlInv, FlagsInv, StopFlags, outVars
  <2>1. CASE StopShutter
    BY <2>1 DEF StopShutter
  <2>2. CASE StopReturn
    BY <2>2 DEF StopReturn
  <2>3. CASE ShutterOpen
    BY <2>3 DEF ShutterOpen
  <2>4. CASE EintStop \/ Pwm1Irq
    BY <2>4 DEF EintStop, Pwm1Irq, PwmUnderflow, PwmPoint, PwmAbstract,
       PwmPanic, dac_stop
  <2>5. CASE UNCHANGED dac_flags
    BY <2>5
  <2>6. QED
    <3>1. CASE Prepare
      BY <2>5, <3>1 DEF Prepare, PrepareBegin, PrepareProduce, PrepareConsume,
         PrepareFlags, PrepareState
    <3>2. CASE Start
      BY <2>3, <2>5, <3>2 DEF Start, StartBegin, StartState, StartIrq,
         StartTimer
    <3>3. CASE Stop
      BY <2>1, <2>2, <2>5, <3>3 DEF Stop, StopBegin, StopTimer, StopLoad,
         StopDark, StopState
    <3>4. CASE SetRate \/ RateQueueing \/ Write
      BY <2>5, <3>4 DEF SetRate, SetRateBegin, SetRateMr0, SetRateMr5,
         SetRateLer, SetRatePps, RateQueueing, RateQueueBegin,
         RateQueueProduce, Write, WriteBegin, WriteFill, WriteAdvance
    <3>5. CASE LightEngineStep \/ SourceStep \/ LinkStep
      BY <2>5, <3>5 DEF LightEngineStep, SourceStep, LinkStep
    <3>6. CASE PhyChange \/ EintEnter \/ Halted
      BY <2>5, <3>6 DEF PhyChange, EintEnter, Halted, vars, dacVars
    <3>7. QED
      BY <2>4, <3>1, <3>2, <3>3, <3>4, <3>5, <3>6 DEF Next, MainStep, DacStep
<1>4. QED
  BY <1>1, <1>2, <1>3, TypeCorrect, PTL DEF Spec, StopReasonSticks

-----------------------------------------------------------------------------
(***************************************************************************)
(* The two rings of the DAC driver implement what they promise, for every  *)
(* size, as long as the link is not lost: the point ring and the output    *)
(* PointPlayer, the rate ring BoundedFifo.                                 *)
(*                                                                         *)
(* First what moving an index of a ring does to its contents, then the     *)
(* invariant RingsInv, then one step of the abstract specification for     *)
(* each step of the firmware.                                              *)
(***************************************************************************)

(* Rings as sequences.                                                     *)

(* An index that runs past the end of a ring wraps once.                   *)
LEMMA WrapOnce ==
  ASSUME NEW size \in Nat \ {0}, NEW a \in Nat, a < 2 * size
  PROVE  a % size = IF a < size THEN a ELSE a - size
<1>1. CASE a < size
  BY <1>1, SMT
<1>2. CASE ~(a < size)
  <2>1. a - size \in 0 .. size - 1
    BY <1>2, SMT
  <2>2. a = 1 * size + (a - size)
    BY SMT
  <2>3. QED
    BY <1>2, <2>1, <2>2, SMT
<1>3. QED
  BY <1>1, <1>2

(* The slot of the i-th queued item, counted from index c.                 *)
Nth(c, i, size) == IF c + i - 1 < size THEN c + i - 1 ELSE c + i - 1 - size

(* A ring of elements of S, with its producer and consumer in range.       *)
IsRing(p, c, size, slot, S) ==
  /\ size \in Nat /\ size > 1
  /\ p \in 0 .. size - 1 /\ c \in 0 .. size - 1
  /\ slot \in [0 .. size - 1 -> S]

(* A ring's contents are a sequence, one slot shorter than the ring at     *)
(* most.                                                                   *)
LEMMA RingIsSeq ==
  ASSUME NEW size, NEW S, NEW p, NEW c, NEW slot,
         IsRing(p, c, size, slot, S)
  PROVE  /\ Fullness(p, c, size) \in 0 .. size - 1
         /\ RingContents(p, c, size, slot) \in Seq(S)
         /\ Len(RingContents(p, c, size, slot)) = Fullness(p, c, size)
         /\ \A i \in 1 .. Fullness(p, c, size) :
              RingContents(p, c, size, slot)[i] = slot[Nth(c, i, size)]
         /\ RingContents(p, c, size, slot) = <<>> <=> p = c
<1>0. /\ size \in Nat /\ size > 1
      /\ p \in 0 .. size - 1 /\ c \in 0 .. size - 1
      /\ slot \in [0 .. size - 1 -> S]
  BY DEF IsRing
<1> DEFINE q == RingContents(p, c, size, slot)
           n == Fullness(p, c, size)
<1>1. n \in 0 .. size - 1 /\ (n = 0 <=> p = c)
  BY <1>0, SMT DEF Fullness
<1>2. \A i \in 1 .. n : /\ (c + i - 1) % size = Nth(c, i, size)
                        /\ Nth(c, i, size) \in 0 .. size - 1
  <2> SUFFICES ASSUME NEW i \in 1 .. n
               PROVE  /\ (c + i - 1) % size = Nth(c, i, size)
                      /\ Nth(c, i, size) \in 0 .. size - 1
    OBVIOUS
  <2> DEFINE a == c + i - 1
  <2>1. a \in Nat /\ a < 2 * size /\ size \in Nat \ {0}
    BY <1>0, <1>1, SMT
  <2>2. a % size = IF a < size THEN a ELSE a - size
    <3> HIDE DEF a
    <3>1. QED
      BY <2>1, WrapOnce
  <2>3. QED
    BY <1>0, <2>1, <2>2, SMT DEF Nth
<1>3. q = [i \in 1 .. n |-> slot[Nth(c, i, size)]]
  BY <1>2 DEF RingContents
<1> HIDE DEF n, q
<1>4. q \in [1 .. n -> S] /\ DOMAIN q = 1 .. n
  BY <1>0, <1>2, <1>3
<1>5. q \in Seq(S)
  BY <1>1, <1>4, SeqDef
<1>6. Len(q) = n
  BY <1>1, <1>4, <1>5, LenProperties, SMT
<1>7. q = <<>> <=> p = c
  <2>1. q # <<>> => Len(q) # 0
    BY <1>5, EmptySeq, SMT
  <2>2. q = <<>> => Len(q) = 0
    BY EmptySeq, SMT
  <2>3. QED
    BY <1>1, <1>6, <2>1, <2>2
<1>8. QED
  BY <1>1, <1>3, <1>5, <1>6, <1>7 DEF q, n

(* Moving the consumer past an item takes the oldest off the queue.        *)
LEMMA RingTake ==
  ASSUME NEW size, NEW S, NEW p, NEW c, NEW slot,
         IsRing(p, c, size, slot, S), p # c
  PROVE  /\ RingContents(p, c, size, slot) # <<>>
         /\ Head(RingContents(p, c, size, slot)) = slot[c]
         /\ RingContents(p, (c + 1) % size, size, slot)
              = Tail(RingContents(p, c, size, slot))
         /\ Fullness(p, (c + 1) % size, size) = Fullness(p, c, size) - 1
<1>0. /\ size \in Nat /\ size > 1
      /\ p \in 0 .. size - 1 /\ c \in 0 .. size - 1
      /\ slot \in [0 .. size - 1 -> S]
  BY DEF IsRing
<1> DEFINE d == (c + 1) % size
           q == RingContents(p, c, size, slot)
           r == RingContents(p, d, size, slot)
<1>1. d = (IF c + 1 < size THEN c + 1 ELSE c + 1 - size) /\ d \in 0 .. size - 1
  <2> DEFINE a == c + 1
  <2>1. a \in Nat /\ a < 2 * size /\ size \in Nat \ {0}
    BY <1>0, SMT
  <2>2. a % size = IF a < size THEN a ELSE a - size
    <3> HIDE DEF a
    <3>1. QED
      BY <2>1, WrapOnce
  <2>3. QED
    BY <1>0, <2>1, <2>2, SMT
<1> HIDE DEF d, q, r
<1>2. Fullness(p, d, size) = Fullness(p, c, size) - 1
  BY <1>0, <1>1, SMT DEF Fullness
<1>ring. IsRing(p, d, size, slot, S)
  BY <1>0, <1>1 DEF IsRing
<1>3. /\ q \in Seq(S) /\ Len(q) = Fullness(p, c, size) /\ q # <<>>
      /\ \A i \in 1 .. Len(q) : q[i] = slot[Nth(c, i, size)]
  BY RingIsSeq DEF q
<1>4. /\ r \in Seq(S) /\ Len(r) = Fullness(p, d, size)
      /\ Fullness(p, d, size) \in 0 .. size - 1
      /\ \A i \in 1 .. Len(r) : r[i] = slot[Nth(d, i, size)]
  BY <1>ring, RingIsSeq DEF r
<1>5. /\ Tail(q) \in Seq(S) /\ Len(Tail(q)) = Len(q) - 1
      /\ \A i \in 1 .. Len(Tail(q)) : Tail(q)[i] = q[i + 1]
  BY <1>3, HeadTailProperties
<1>6. Len(r) = Len(Tail(q)) /\ Len(q) = Len(r) + 1
  BY <1>2, <1>3, <1>4, <1>5, SMT
<1>7. \A i \in 1 .. Len(r) : r[i] = Tail(q)[i]
  <2> SUFFICES ASSUME NEW i \in 1 .. Len(r) PROVE r[i] = Tail(q)[i]
    OBVIOUS
  <2>1. Nth(d, i, size) = Nth(c, i + 1, size)
    BY <1>0, <1>1, <1>4, SMT DEF Nth
  <2>2. i + 1 \in 1 .. Len(q)
    BY <1>4, <1>6, SMT
  <2>3. QED
    BY <1>3, <1>4, <1>5, <1>6, <2>1, <2>2
<1>8. r = Tail(q)
  BY <1>4, <1>5, <1>6, <1>7, SeqEqual
<1>9. Head(q) = slot[c]
  <2>1. Head(q) = q[1] /\ 1 \in 1 .. Len(q) /\ Nth(c, 1, size) = c
    BY <1>0, <1>3, <1>4, <1>6, SMT DEF Nth
  <2>2. QED
    BY <1>3, <2>1
<1>10. QED
  BY <1>2, <1>3, <1>8, <1>9 DEF d, q, r

(* Moving the producer appends what the slots it passes hold.              *)
LEMMA RingPut ==
  ASSUME NEW size, NEW S, NEW p, NEW c, NEW slot, NEW n \in Nat,
         IsRing(p, c, size, slot, S),
         Fullness(p, c, size) + n <= size - 1, p + n <= size,
         NEW s \in Seq(S), Len(s) = n,
         \A i \in 1 .. n : s[i] = slot[p + i - 1]
  PROVE  RingContents((p + n) % size, c, size, slot)
           = RingContents(p, c, size, slot) \o s
<1>0. /\ size \in Nat /\ size > 1
      /\ p \in 0 .. size - 1 /\ c \in 0 .. size - 1
      /\ slot \in [0 .. size - 1 -> S]
  BY DEF IsRing
<1> DEFINE e == (p + n) % size
           q == RingContents(p, c, size, slot)
           r == RingContents(e, c, size, slot)
<1>1. e = (IF p + n < size THEN p + n ELSE p + n - size) /\ e \in 0 .. size - 1
  <2> DEFINE a == p + n
  <2>1. a \in Nat /\ a < 2 * size /\ size \in Nat \ {0}
    BY <1>0, SMT
  <2>2. a % size = IF a < size THEN a ELSE a - size
    <3> HIDE DEF a
    <3>1. QED
      BY <2>1, WrapOnce
  <2>3. QED
    BY <1>0, <2>1, <2>2, SMT
<1> HIDE DEF e, q, r
<1>2. Fullness(e, c, size) = Fullness(p, c, size) + n
  BY <1>0, <1>1, SMT DEF Fullness
<1>ring. IsRing(e, c, size, slot, S)
  BY <1>0, <1>1 DEF IsRing
<1>3. /\ q \in Seq(S) /\ Len(q) = Fullness(p, c, size)
      /\ Fullness(p, c, size) \in 0 .. size - 1
      /\ \A i \in 1 .. Len(q) : q[i] = slot[Nth(c, i, size)]
  BY RingIsSeq DEF q
<1>4. /\ r \in Seq(S) /\ Len(r) = Fullness(e, c, size)
      /\ \A i \in 1 .. Len(r) : r[i] = slot[Nth(c, i, size)]
  BY <1>ring, RingIsSeq DEF r
<1>5. /\ q \o s \in Seq(S) /\ Len(q \o s) = Len(q) + n
      /\ \A i \in 1 .. Len(q) + n :
           (q \o s)[i] = IF i <= Len(q) THEN q[i] ELSE s[i - Len(q)]
  BY <1>3, ConcatProperties
<1>6. Len(r) = Len(q) + n
  BY <1>2, <1>3, <1>4
<1>7. \A i \in 1 .. Len(r) : r[i] = (q \o s)[i]
  <2> SUFFICES ASSUME NEW i \in 1 .. Len(r) PROVE r[i] = (q \o s)[i]
    OBVIOUS
  <2>1. CASE i <= Len(q)
    <3>1. i \in 1 .. Len(q) /\ i \in 1 .. Len(q) + n
      BY <1>3, <1>6, <2>1, SMT
    <3>2. QED
      BY <1>3, <1>4, <1>5, <2>1, <3>1
  <2>2. CASE ~(i <= Len(q))
    <3>1. i - Len(q) \in 1 .. n /\ i \in 1 .. Len(q) + n
      BY <1>3, <1>6, <2>2, SMT
    <3>2. Nth(c, i, size) = p + (i - Len(q)) - 1
      BY <1>0, <1>3, <3>1, SMT DEF Nth, Fullness
    <3>3. (q \o s)[i] = slot[p + (i - Len(q)) - 1]
      BY <1>5, <2>2, <3>1
    <3>4. QED
      BY <1>4, <3>2, <3>3
  <2>3. QED
    BY <2>1, <2>2
<1>8. r = q \o s
  BY <1>4, <1>5, <1>6, <1>7, SeqEqual
<1>9. QED
  BY <1>8 DEF e, q, r

(* Writing slots that are not queued leaves the queue alone.               *)
LEMMA RingKeeps ==
  ASSUME NEW size, NEW S, NEW p, NEW c, NEW slot, NEW new, NEW n \in Nat,
         IsRing(p, c, size, slot, S), IsRing(p, c, size, new, S),
         Fullness(p, c, size) + n <= size - 1, p + n <= size,
         \A j \in 0 .. size - 1 : j \notin p .. p + n - 1 => new[j] = slot[j]
  PROVE  RingContents(p, c, size, new) = RingContents(p, c, size, slot)
<1> DEFINE q == RingContents(p, c, size, slot)
           r == RingContents(p, c, size, new)
<1> HIDE DEF q, r
<1>0. size \in Nat /\ p \in 0 .. size - 1 /\ c \in 0 .. size - 1
  BY DEF IsRing
<1>1. /\ q \in Seq(S) /\ Len(q) = Fullness(p, c, size)
      /\ Fullness(p, c, size) \in 0 .. size - 1
      /\ \A i \in 1 .. Len(q) : q[i] = slot[Nth(c, i, size)]
  BY RingIsSeq DEF q
<1>2. /\ r \in Seq(S) /\ Len(r) = Fullness(p, c, size)
      /\ \A i \in 1 .. Len(r) : r[i] = new[Nth(c, i, size)]
  BY RingIsSeq DEF r
<1>3. \A i \in 1 .. Len(r) : r[i] = q[i]
  <2> SUFFICES ASSUME NEW i \in 1 .. Fullness(p, c, size)
               PROVE  new[Nth(c, i, size)] = slot[Nth(c, i, size)]
    BY <1>1, <1>2
  <2>1. /\ Nth(c, i, size) \in 0 .. size - 1
        /\ Nth(c, i, size) \notin p .. p + n - 1
    BY <1>0, <1>1, SMT DEF Nth, Fullness
  <2>2. QED
    BY <2>1
<1>4. r = q
  BY <1>1, <1>2, <1>3, SeqEqual
<1>5. QED
  BY <1>4 DEF q, r
-----------------------------------------------------------------------------
(* What the steps of the main loop and of the interrupt find in the rings. *)

(* The two rings of the driver are rings.                                  *)
LEMMA DriverRings ==
  TypeOK =>
    /\ IsRing(produce, consume, DAC_BUFFER_POINTS, buffer,
              Points \union {Blank})
    /\ IsRing(rate_produce, rate_consume, DAC_RATE_BUFFER_SIZE, rate_buffer,
              Rates)
BY RingAssumption DEF TypeOK, RingTypeOK, RateTypeOK, Slots, RateSlots, IsRing

(* The room dac_request grants is free and contiguous.                     *)
LEMMA GrantedRoom ==
  ASSUME TypeOK, NEW n \in Nat, n <= dac_request
  PROVE  /\ Fullness(produce, consume, DAC_BUFFER_POINTS) + n
              <= DAC_BUFFER_POINTS - 1
         /\ produce + n <= DAC_BUFFER_POINTS
<1>1. /\ DAC_BUFFER_POINTS \in Nat /\ produce \in 0 .. DAC_BUFFER_POINTS - 1
      /\ consume \in 0 .. DAC_BUFFER_POINTS - 1
  BY RingAssumption DEF TypeOK, RingTypeOK, Slots
<1>2. QED
  BY <1>1, SMT DEF dac_request, Fullness

(* Playing a point never takes granted room back.                          *)
LEMMA GrantGrows ==
  ASSUME TypeOK, produce # consume, produce' = produce,
         consume' = (consume + 1) % DAC_BUFFER_POINTS
  PROVE  dac_request \in Int /\ dac_request' \in Int
         /\ dac_request <= dac_request'
<1>1. /\ DAC_BUFFER_POINTS \in Nat \ {0}
      /\ produce \in 0 .. DAC_BUFFER_POINTS - 1
      /\ consume \in 0 .. DAC_BUFFER_POINTS - 1
  BY RingAssumption DEF TypeOK, RingTypeOK, Slots
<1>2. consume' = IF consume + 1 < DAC_BUFFER_POINTS THEN consume + 1
                 ELSE consume + 1 - DAC_BUFFER_POINTS
  <2> DEFINE a == consume + 1
  <2>1. a \in Nat /\ a < 2 * DAC_BUFFER_POINTS
    BY <1>1, SMT
  <2>2. a % DAC_BUFFER_POINTS
          = IF a < DAC_BUFFER_POINTS THEN a ELSE a - DAC_BUFFER_POINTS
    <3> HIDE DEF a
    <3>1. QED
      BY ONLY <1>1, <2>1, WrapOnce, Zenon
  <2>3. QED
    BY <1>1, <2>2, SMT
<1>3. QED
  BY <1>1, <1>2, SMT DEF dac_request

(* Nor does popping a rate fill the rate ring.                             *)
LEMMA RateRoomGrows ==
  ASSUME TypeOK, rate_produce # rate_consume
  PROVE  Fullness(rate_produce, (rate_consume + 1) % DAC_RATE_BUFFER_SIZE,
                  DAC_RATE_BUFFER_SIZE)
           = Fullness(rate_produce, rate_consume, DAC_RATE_BUFFER_SIZE) - 1
BY DriverRings, RingTake

(* The writer's part of RingsInv, step by step.                            *)
LEMMA WriteRings == TypeOK /\ RingsInv /\ Write => RingsInv'
<1> SUFFICES ASSUME TypeOK, RingsInv, Write PROVE RingsInv'
  OBVIOUS
<1>0. reg \in Registers
  BY DEF TypeOK, CpuTypeOK
<1> USE DEF RingsInv, PreparedInv, WriterInv, RateWriterInv
<1>1. ASSUME NEW n \in 1 .. MaxChunk, WriteBegin(n) PROVE RingsInv'
  <2>1. reg'.n = n
    BY <1>0, <1>1 DEF WriteBegin, Registers
  <2>2. dac_request' = dac_request
    BY <1>1 DEF WriteBegin, ringVars, dac_request
  <2>3. QED
    BY <1>1, <2>1, <2>2 DEF WriteBegin
<1>2. ASSUME NEW pts \in [1 .. reg.n -> Points], WriteFill(pts)
      PROVE  RingsInv'
  <2>1. reg' = reg /\ state' = state /\ produce' = produce
        /\ dac_request' = dac_request
    BY <1>2 DEF WriteFill, ctlVars, Goto, dac_request
  <2>2. ASSUME state # "IDLE", NEW i \in produce .. produce + reg.n - 1
        PROVE  buffer'[i] \in Points
    <3>1. reg.n \in 1 .. MaxChunk /\ reg.n <= dac_request
      BY <1>2, <2>2 DEF WriteFill
    <3>2. produce + reg.n <= DAC_BUFFER_POINTS
      BY <3>1, GrantedRoom, RingAssumption
    <3>3. i \in Slots /\ i - produce + 1 \in 1 .. reg.n
      BY <2>2, <3>1, <3>2, RingAssumption DEF TypeOK, RingTypeOK, Slots
    <3>4. buffer'[i] = pts[i - produce + 1]
      BY <1>2, <2>2, <3>3 DEF WriteFill
    <3>5. QED
      BY <3>3, <3>4
  <2>3. pc = "write_fill" /\ pc' = "write_advance"
    BY <1>2 DEF WriteFill, Goto
  <2>4. WriterInv'
    <3>1. state # "IDLE" =>
            \A i \in produce .. produce + reg.n - 1 : buffer'[i] \in Points
      BY <2>2
    <3>2. QED
      BY <2>1, <2>3, <3>1
  <2>5. QED
    BY <2>3, <2>4
<1>3. CASE WriteAdvance
  BY <1>3 DEF WriteAdvance, Return
<1>4. QED
  BY <1>1, <1>2, <1>3 DEF Write

(* RingsInv is inductive when the link is never lost: the interrupt only   *)
(* plays, which makes room, or stops, after which nothing is promised.     *)
LEMMA RingsInductive ==
  ASSUME LinkLoss = FALSE
  PROVE  /\ Init => RingsInv
         /\ TypeOK /\ ControlInv /\ RingsInv /\ [Next]_vars => RingsInv'
<1>1. Init => RingsInv
  BY DEF Init, DacInit, RingsInv, PreparedInv, WriterInv, RateWriterInv
<1>2. ASSUME TypeOK, ControlInv, RingsInv, [Next]_vars PROVE RingsInv'
  <2> USE DEF RingsInv, PreparedInv, WriterInv, RateWriterInv
  <2>0. reg \in Registers
    BY <1>2 DEF TypeOK, CpuTypeOK
  <2>1. CASE Prepare
    BY <1>2, <2>1 DEF Prepare, PrepareBegin, PrepareProduce, PrepareConsume,
       PrepareFlags, PrepareState, Goto, Return, ringVars, rateVars
  <2>2. CASE Start
    BY <1>2, <2>2 DEF Start, StartBegin, StartState, StartIrq, StartTimer,
       ShutterOpen, Goto, Return
  <2>3. CASE Stop
    BY <1>2, <2>0, <2>3, RegType DEF Stop, StopBegin, StopTimer, StopLoad,
       StopShutter, StopDark, StopState, StopReturn, Goto, Return, ReturnTo
  <2>4. CASE SetRate
    BY <1>2, <2>4 DEF SetRate, SetRateBegin, SetRateMr0, SetRateMr5,
       SetRateLer, SetRatePps, Goto, Return
  <2>5. CASE RateQueueing
    BY <1>2, <2>5 DEF RateQueueing, RateQueueBegin, RateQueueProduce, Goto,
       Return, ctlVars
  <2>6. CASE Write
    BY <1>2, <2>6, WriteRings
  <2>7. CASE LightEngineStep
    BY <1>2, <2>0, <2>7, RegType DEF LightEngineStep, EstopBegin, EstopStore,
       ClearBegin, ClearLoad, ClearStore, ClearState, Goto, Return, ReturnTo
  <2>8. CASE SourceStep
    BY <1>2, <2>8 DEF SourceStep, SetSrcBegin, SetSrcStore, SetPlaying,
       Return, cpuVars, ctlVars, ringVars, rateVars, dac_request
  <2>9. CASE LinkStep
    BY <1>2, <2>9 DEF LinkStep, CheckLinkGoingDown, LinkDown, CheckLinkUp,
       ClearLoad, LinkUp, Goto, Return
  <2>10. CASE UNCHANGED dacVars
    BY <1>2, <2>10 DEF dacVars, ctlVars, ringVars, rateVars, cpuVars,
       dac_request
  <2>11. CASE Pwm1Irq
    <3>1. timer => state = "PLAYING"
      BY <1>2 DEF ControlInv, TimerInv
    <3>2. ~PwmPanic
      BY <1>2 DEF PwmPanic, Overflow, ControlInv, TimerInv, SourceAction
    <3>3. timer => pc \notin PrepareSteps
      BY <1>2, <3>1 DEF ControlInv, ShutterInv
    <3>4. CASE PwmUnderflow
      BY <1>2, <3>3, <3>4 DEF PwmUnderflow, Overflow, dac_stop, cpuVars,
         PrepareSteps
    <3>5. CASE PwmAbstract(playing)
      BY <1>2, <3>5 DEF PwmAbstract, cpuVars, ringVars, rateVars, dac_request
    <3>6. CASE PwmPoint
      <4>1. /\ pc' = pc /\ reg' = reg /\ state' = state /\ timer
            /\ produce' = produce /\ buffer' = buffer
            /\ rate_produce' = rate_produce
        BY <3>6 DEF PwmPoint, Overflow, cpuVars
      <4>2. PreparedInv'
        BY <3>3, <4>1 DEF PrepareSteps
      <4>3. WriterInv'
        <5>1. /\ dac_request \in Int /\ dac_request' \in Int
              /\ dac_request <= dac_request'
          BY <1>2, <3>6, <4>1, GrantGrows DEF PwmPoint
        <5>2. pc \in {"write_fill", "write_advance"} /\ state # "IDLE" =>
                reg.n <= dac_request'
          BY <1>2, <5>1, RingAssumption
        <5>3. QED
          BY <1>2, <4>1, <5>2
      <4>4. RateWriterInv'
        <5>1. CASE rate_consume' = rate_consume
          BY <1>2, <4>1, <5>1
        <5>2. CASE ~(rate_consume' = rate_consume)
          <6>1. /\ rate_produce # rate_consume
                /\ rate_consume' = (rate_consume + 1) % DAC_RATE_BUFFER_SIZE
            BY <3>6, <5>2 DEF PwmPoint, dac_pop_rate_change
          <6>2. Fullness(rate_produce, rate_consume', DAC_RATE_BUFFER_SIZE)
                  = Fullness(rate_produce, rate_consume,
                             DAC_RATE_BUFFER_SIZE) - 1
            BY <1>2, <6>1, RateRoomGrows
          <6>3. Fullness(rate_produce, rate_consume, DAC_RATE_BUFFER_SIZE)
                  \in Int
            BY <1>2, DriverRings, RingIsSeq
          <6>4. QED
            BY <1>2, <4>1, <6>2, <6>3, RingAssumption
        <5>3. QED
          BY <5>1, <5>2
      <4>5. QED
        BY <4>2, <4>3, <4>4
    <3>7. QED
      BY <2>11, <3>2, <3>4, <3>5, <3>6 DEF Pwm1Irq
  <2>12. CASE EintStop
    BY <1>2, <2>12 DEF EintStop, ControlInv, NoLinkLossInv
  <2>13. QED
    BY <1>2, <2>1, <2>2, <2>3, <2>4, <2>5, <2>6, <2>7, <2>8, <2>9, <2>10,
       <2>11, <2>12 DEF Next, MainStep, DacStep, PhyChange, EintEnter, Halted,
       vars
<1>3. QED
  BY <1>1, <1>2
-----------------------------------------------------------------------------
(* The queues, step by step.                                               *)

(* What neither moves an index nor starts or stops the DAC keeps the       *)
(* queues, and so does whatever happens to the rings of an idle DAC.       *)
LEMMA QueuesKept ==
  /\ UNCHANGED <<state, ringVars>> => UNCHANGED PointQueue
  /\ UNCHANGED <<state, rateVars>> => UNCHANGED RateQueue
  /\ state = "IDLE" /\ state' = "IDLE" => UNCHANGED <<PointQueue, RateQueue>>
BY DEF PointQueue, RateQueue, ringVars, rateVars

(* The contents of the queues are sequences, empty when the indices meet.  *)
LEMMA QueuesAreSeqs ==
  ASSUME TypeOK, state # "IDLE"
  PROVE  /\ PointQueue \in Seq(Points \union {Blank})
         /\ Len(PointQueue) = Fullness(produce, consume, DAC_BUFFER_POINTS)
         /\ PointQueue = <<>> <=> produce = consume
         /\ RateQueue \in Seq(Rates)
         /\ Len(RateQueue)
              = Fullness(rate_produce, rate_consume, DAC_RATE_BUFFER_SIZE)
         /\ RateQueue = <<>> <=> rate_produce = rate_consume
BY DriverRings, RingIsSeq DEF PointQueue, RateQueue

(* The packing of points leaves those already queued alone.                *)
LEMMA FillKeepsQueue ==
  ASSUME TypeOK, TypeOK', RingsInv, NEW pts \in [1 .. reg.n -> Points],
         WriteFill(pts)
  PROVE  UNCHANGED PointQueue
<1>1. CASE state = "IDLE"
  BY <1>1, QueuesKept DEF WriteFill, ctlVars
<1>2. CASE state # "IDLE"
  <2>1. /\ reg.n \in Nat /\ reg.n <= dac_request
        /\ produce' = produce /\ consume' = consume /\ state' = state
    BY <1>2, RingAssumption DEF WriteFill, RingsInv, WriterInv, ctlVars
  <2>2. \A j \in 0 .. DAC_BUFFER_POINTS - 1 :
          j \notin produce .. produce + reg.n - 1 => buffer'[j] = buffer[j]
    BY DEF WriteFill, Slots
  <2>3. /\ IsRing(produce, consume, DAC_BUFFER_POINTS, buffer,
                  Points \union {Blank})
        /\ IsRing(produce, consume, DAC_BUFFER_POINTS, buffer',
                  Points \union {Blank})
    BY <2>1, DriverRings, RingAssumption DEF TypeOK, RingTypeOK, Slots, IsRing
  <2>4. RingContents(produce, consume, DAC_BUFFER_POINTS, buffer')
          = RingContents(produce, consume, DAC_BUFFER_POINTS, buffer)
    BY <2>1, <2>2, <2>3, GrantedRoom, RingKeeps
  <2>5. QED
    BY <1>2, <2>1, <2>4 DEF PointQueue
<1>3. QED
  BY <1>1, <1>2

(* dac_advance of a DAC that has not stopped appends the packed points.    *)
LEMMA AdvanceAccepts ==
  ASSUME TypeOK, RingsInv, WriteAdvance, state # "IDLE"
  PROVE  Player!F!PutSome
<1> DEFINE n == reg.n
           s == [i \in 1 .. n |-> buffer[produce + i - 1]]
<1>1. /\ n \in Nat /\ n \in 1 .. MaxChunk /\ n <= dac_request
      /\ \A i \in produce .. produce + n - 1 : buffer[i] \in Points
  BY RingAssumption DEF RingsInv, WriterInv, WriteAdvance
<1>2. \A i \in 1 .. n : produce + i - 1 \in produce .. produce + n - 1
  BY <1>1, RingAssumption, SMT DEF TypeOK, RingTypeOK, Slots
<1> HIDE DEF n
<1>3. s \in [1 .. n -> Points]
  BY <1>1, <1>2
<1>4. \A i \in 1 .. n : s[i] = buffer[produce + i - 1]
  OBVIOUS
<1> HIDE DEF s
<1>5. s \in Seq(Points \union {Blank}) /\ Len(s) = n
  <2>1. s \in Seq(Points)
    BY <1>1, <1>3, SeqDef
  <2>2. Len(s) = n
    <3>1. DOMAIN s = 1 .. n /\ DOMAIN s = 1 .. Len(s) /\ Len(s) \in Nat
      BY <1>3, <2>1, LenProperties
    <3>2. QED
      BY <1>1, <3>1, SMT
  <2>3. QED
    BY <1>1, <1>3, <2>2, SeqDef
<1>6. /\ Fullness(produce, consume, DAC_BUFFER_POINTS) + n
           <= DAC_BUFFER_POINTS - 1
      /\ produce + n <= DAC_BUFFER_POINTS
  BY <1>1, GrantedRoom
<1>7. RingContents((produce + n) % DAC_BUFFER_POINTS, consume,
                   DAC_BUFFER_POINTS, buffer)
        = RingContents(produce, consume, DAC_BUFFER_POINTS, buffer) \o s
  BY <1>1, <1>4, <1>5, <1>6, DriverRings, RingPut
<1>8. PointQueue' = PointQueue \o s /\ state' = state
  BY <1>7 DEF WriteAdvance, ctlVars, PointQueue, n
<1>9. Player!F!Put(s)
  BY <1>5, <1>6, <1>8, QueuesAreSeqs DEF Player!F!Put
<1>10. QED
  BY <1>1, <1>3, <1>9 DEF Player!F!PutSome

(* Publishing a rate appends it.                                           *)
LEMMA PublishAccepts ==
  ASSUME TypeOK, RingsInv, RateQueueProduce, state # "IDLE"
  PROVE  Rings!PutSome
<1> DEFINE r == rate_buffer[rate_produce]
           s == [i \in 1 .. 1 |-> r]
<1>1. r \in Rates /\ rate_produce \in Nat
      /\ rate_produce + 1 <= DAC_RATE_BUFFER_SIZE
  BY RingAssumption DEF TypeOK, RateTypeOK, RateSlots
<1>2. /\ Fullness(rate_produce, rate_consume, DAC_RATE_BUFFER_SIZE) \in Nat
      /\ Fullness(rate_produce, rate_consume, DAC_RATE_BUFFER_SIZE) + 1
           <= DAC_RATE_BUFFER_SIZE - 1
  <2>1. Fullness(rate_produce, rate_consume, DAC_RATE_BUFFER_SIZE) \in Nat
    BY DriverRings, RingIsSeq
  <2>2. QED
    BY <2>1, RingAssumption DEF RingsInv, RateWriterInv, RateQueueProduce
<1>3. s \in [1 .. 1 -> Rates]
  BY <1>1
<1>4. s \in Seq(Rates) /\ Len(s) = 1
  <2>1. s \in Seq(Rates)
    BY <1>3, SeqDef
  <2>2. DOMAIN s = 1 .. 1 /\ DOMAIN s = 1 .. Len(s) /\ Len(s) \in Nat
    BY <1>3, <2>1, LenProperties
  <2>3. QED
    BY <2>1, <2>2, SMT
<1>5. \A i \in 1 .. 1 : s[i] = rate_buffer[rate_produce + i - 1]
  BY <1>1, SMT
<1> HIDE DEF r, s
<1>6. RingContents((rate_produce + 1) % DAC_RATE_BUFFER_SIZE, rate_consume,
                   DAC_RATE_BUFFER_SIZE, rate_buffer)
        = RingContents(rate_produce, rate_consume, DAC_RATE_BUFFER_SIZE,
                       rate_buffer) \o s
  <2> DEFINE n == 1
  <2>1. /\ n \in Nat /\ Len(s) = n /\ rate_produce + n <= DAC_RATE_BUFFER_SIZE
        /\ Fullness(rate_produce, rate_consume, DAC_RATE_BUFFER_SIZE) + n
             <= DAC_RATE_BUFFER_SIZE - 1
        /\ \A i \in 1 .. n : s[i] = rate_buffer[rate_produce + i - 1]
    BY <1>1, <1>2, <1>4, <1>5
  <2> HIDE DEF n
  <2>2. IsRing(rate_produce, rate_consume, DAC_RATE_BUFFER_SIZE, rate_buffer,
               Rates)
    BY DriverRings
  <2>3. RingContents((rate_produce + n) % DAC_RATE_BUFFER_SIZE, rate_consume,
                     DAC_RATE_BUFFER_SIZE, rate_buffer)
          = RingContents(rate_produce, rate_consume, DAC_RATE_BUFFER_SIZE,
                         rate_buffer) \o s
    BY ONLY SMTT(20), <1>4, <2>1, <2>2, RingPut
  <2>4. QED
    BY <2>3 DEF n
<1>7. RateQueue' = RateQueue \o s /\ state' = state
  BY <1>6 DEF RateQueueProduce, ctlVars, RateQueue
<1>8. Rings!Put(s)
  BY <1>2, <1>4, <1>7, QueuesAreSeqs DEF Rings!Put
<1>9. QED
  BY <1>3, <1>8 DEF Rings!PutSome

(* dac_rate_queue writes its rate into a slot that is not queued.          *)
LEMMA QueueRateKeeps ==
  ASSUME TypeOK, TypeOK', NEW r \in Rates, RateQueueBegin(r)
  PROVE  UNCHANGED RateQueue
<1>1. /\ state' = state /\ state # "IDLE"
      /\ rate_produce' = rate_produce /\ rate_consume' = rate_consume
  BY DEF RateQueueBegin, ctlVars
<1>2. /\ Fullness(rate_produce, rate_consume, DAC_RATE_BUFFER_SIZE) \in Nat
      /\ Fullness(rate_produce, rate_consume, DAC_RATE_BUFFER_SIZE) + 1
           <= DAC_RATE_BUFFER_SIZE - 1
      /\ rate_produce + 1 <= DAC_RATE_BUFFER_SIZE
  <2>1. Fullness(rate_produce, rate_consume, DAC_RATE_BUFFER_SIZE) \in Nat
    BY DriverRings, RingIsSeq
  <2>2. rate_produce + 1 <= DAC_RATE_BUFFER_SIZE
    BY RingAssumption DEF TypeOK, RateTypeOK, RateSlots
  <2>3. QED
    BY <2>1, <2>2, RingAssumption DEF RateQueueBegin
<1>3. \A j \in 0 .. DAC_RATE_BUFFER_SIZE - 1 :
        j \notin rate_produce .. rate_produce + 1 - 1 =>
          rate_buffer'[j] = rate_buffer[j]
  <2>1. rate_produce \in rate_produce .. rate_produce + 1 - 1
    BY RingAssumption, SMT DEF TypeOK, RateTypeOK, RateSlots
  <2>2. QED
    BY <2>1 DEF RateQueueBegin, TypeOK, RateTypeOK, RateSlots
<1>4. /\ IsRing(rate_produce, rate_consume, DAC_RATE_BUFFER_SIZE,
                rate_buffer, Rates)
      /\ IsRing(rate_produce, rate_consume, DAC_RATE_BUFFER_SIZE,
                rate_buffer', Rates)
  BY <1>1, DriverRings, RingAssumption
     DEF TypeOK, RateTypeOK, RateSlots, IsRing
<1>5. RingContents(rate_produce, rate_consume, DAC_RATE_BUFFER_SIZE,
                   rate_buffer')
        = RingContents(rate_produce, rate_consume, DAC_RATE_BUFFER_SIZE,
                       rate_buffer)
  BY <1>2, <1>3, <1>4, RingKeeps
<1>6. QED
  BY <1>1, <1>5 DEF RateQueue

(* The interrupt takes the oldest point, and only with a rate-change point *)
(* the oldest rate.                                                        *)
LEMMA PointTakes ==
  ASSUME TypeOK, ControlInv, PwmPoint
  PROVE  /\ state # "IDLE" /\ state' = state
         /\ PointQueue # <<>> /\ out' = Head(PointQueue)
         /\ PointQueue' = Tail(PointQueue)
         /\ IF out' \in RatePoints /\ RateQueue # <<>>
            THEN /\ mr' = [m0 |-> Head(RateQueue), m5 |-> Head(RateQueue)]
                 /\ pps' = Head(RateQueue) /\ RateQueue' = Tail(RateQueue)
            ELSE UNCHANGED <<mr, pps, RateQueue>>
<1>1. state # "IDLE" /\ state' = state
  BY DEF PwmPoint, Overflow, ControlInv, TimerInv
<1>2. /\ RingContents(produce, consume, DAC_BUFFER_POINTS, buffer) # <<>>
      /\ Head(RingContents(produce, consume, DAC_BUFFER_POINTS, buffer))
           = buffer[consume]
      /\ RingContents(produce, (consume + 1) % DAC_BUFFER_POINTS,
                      DAC_BUFFER_POINTS, buffer)
           = Tail(RingContents(produce, consume, DAC_BUFFER_POINTS, buffer))
  BY DriverRings, RingTake DEF PwmPoint
<1>3. /\ PointQueue # <<>> /\ out' = Head(PointQueue)
      /\ PointQueue' = Tail(PointQueue)
  BY <1>1, <1>2 DEF PwmPoint, PointQueue
<1>4. CASE buffer[consume] \in RatePoints /\ rate_consume # rate_produce
  <2>1. /\ Head(RingContents(rate_produce, rate_consume,
                             DAC_RATE_BUFFER_SIZE, rate_buffer))
             = rate_buffer[rate_consume]
        /\ RingContents(rate_produce,
                        (rate_consume + 1) % DAC_RATE_BUFFER_SIZE,
                        DAC_RATE_BUFFER_SIZE, rate_buffer)
             = Tail(RingContents(rate_produce, rate_consume,
                                 DAC_RATE_BUFFER_SIZE, rate_buffer))
    BY <1>4, DriverRings, RingTake
  <2>2. RateQueue # <<>> /\ out' \in RatePoints
    BY <1>1, <1>4, QueuesAreSeqs DEF PwmPoint
  <2>3. /\ mr' = [m0 |-> rate_buffer[rate_consume],
                  m5 |-> rate_buffer[rate_consume]]
        /\ pps' = rate_buffer[rate_consume]
        /\ rate_consume' = (rate_consume + 1) % DAC_RATE_BUFFER_SIZE
        /\ UNCHANGED <<rate_produce, rate_buffer>>
    BY <1>4 DEF PwmPoint, dac_pop_rate_change
  <2>4. Head(RateQueue) = rate_buffer[rate_consume]
        /\ RateQueue' = Tail(RateQueue)
    BY <1>1, <2>1, <2>3 DEF RateQueue
  <2>5. QED
    BY <1>1, <1>3, <2>2, <2>3, <2>4
<1>5. CASE ~(buffer[consume] \in RatePoints /\ rate_consume # rate_produce)
  <2>1. UNCHANGED <<mr, pps, rateVars>>
    BY <1>5 DEF PwmPoint, dac_pop_rate_change, rateVars
  <2>2. ~(out' \in RatePoints /\ RateQueue # <<>>)
    BY <1>1, <1>5, QueuesAreSeqs DEF PwmPoint
  <2>3. QED
    BY <1>1, <1>3, <2>1, <2>2, QueuesKept
<1>6. QED
  BY <1>4, <1>5
-----------------------------------------------------------------------------
(* The refinements: each step of the firmware is a step of the abstract    *)
(* specification or changes nothing of what that one sees.                 *)

(* dac_prepare empties both rings before it leaves IDLE, so that what the  *)
(* last playback left there is not played.                                 *)
LEMMA PrepareOpens ==
  ASSUME TypeOK, TypeOK', ControlInv, RingsInv, PrepareState
  PROVE  /\ state = "IDLE" /\ state' = "PREPARED" /\ out' = out
         /\ UNCHANGED <<PointQueue, RateQueue>>
<1>1. /\ state = "IDLE" /\ state' = "PREPARED" /\ out' = out
      /\ produce' = consume' /\ rate_produce' = rate_consume'
  BY DEF PrepareState, ControlInv, ShutterInv, PrepareSteps, RingsInv,
     PreparedInv, ringVars, rateVars, outVars
<1>2. PointQueue = <<>> /\ RateQueue = <<>>
  BY <1>1 DEF PointQueue, RateQueue
<1>3. /\ RingContents(produce', consume', DAC_BUFFER_POINTS, buffer') = <<>>
      /\ RingContents(rate_produce', rate_consume', DAC_RATE_BUFFER_SIZE,
                      rate_buffer') = <<>>
  <2>1. /\ IsRing(produce', consume', DAC_BUFFER_POINTS, buffer',
                  Points \union {Blank})
        /\ IsRing(rate_produce', rate_consume', DAC_RATE_BUFFER_SIZE,
                  rate_buffer', Rates)
    BY RingAssumption DEF TypeOK, RingTypeOK, RateTypeOK, Slots, RateSlots,
       IsRing
  <2>2. QED
    BY <1>1, <2>1, RingIsSeq
<1>4. QED
  BY <1>1, <1>2, <1>3 DEF PointQueue, RateQueue

(* dac_stop, in either context, forgets both queues and shows darkness.    *)
LEMMA StopCloses ==
  ASSUME ControlInv, StopState \/ PwmUnderflow
  PROVE  /\ state' = "IDLE" /\ out' = Blank
         /\ PointQueue' = <<>> /\ RateQueue' = <<>>
         /\ state = "IDLE" => UNCHANGED <<PointQueue, RateQueue, out>>
<1>1. state' = "IDLE" /\ out' = Blank
  BY DEF StopState, PwmUnderflow, dac_stop, ControlInv, DarkInv, outVars
<1>2. state = "IDLE" => out = Blank
  BY DEF ControlInv, DarkInv, IdleIsDark
<1>3. QED
  BY <1>1, <1>2 DEF PointQueue, RateQueue

(* Steps that move neither the output nor the queues, be it because the    *)
(* DAC is idle before and after.                                           *)
Plain ==
  /\ out' = out /\ (state = "IDLE") = (state' = "IDLE")
  /\ state = "IDLE" \/ UNCHANGED <<ringVars, rateVars>>

LEMMA PlainKeeps ==
  ASSUME Plain
  PROVE  UNCHANGED <<PointQueue, RateQueue, out, state # "IDLE">>
<1>1. CASE state = "IDLE"
  BY <1>1, QueuesKept DEF Plain
<1>2. CASE state # "IDLE"
  BY <1>2 DEF Plain, PointQueue, RateQueue, ringVars, rateVars
<1>3. QED
  BY <1>1, <1>2
(* The steps that are not plain.                                           *)
PointSteps == WriteAdvance \/ PwmPoint \/ PwmAbstract(playing) \/ StopDark
RateSteps  == RateQueueProduce \/ \E r \in Rates : RateQueueBegin(r)
FillSteps  == \E pts \in [1 .. reg.n -> Points] : WriteFill(pts)

LEMMA StepKinds ==
  ASSUME LinkLoss = FALSE, ControlInv, [Next]_vars
  PROVE  \/ Plain \/ PrepareState \/ StopState \/ PwmUnderflow
         \/ PointSteps \/ RateSteps \/ FillSteps
<1> USE DEF Plain, ctlVars, outVars
<1>1. CASE Prepare
  BY <1>1 DEF Prepare, PrepareBegin, PrepareProduce, PrepareConsume,
     PrepareFlags, ControlInv, ShutterInv, PrepareSteps
<1>2. CASE Start
  BY <1>2 DEF Start, StartBegin, StartState, StartIrq, StartTimer,
     ShutterOpen, ControlInv, TimerInv
<1>3. CASE Stop
  BY <1>3 DEF Stop, StopBegin, StopTimer, StopLoad, StopShutter, StopReturn,
     PointSteps
<1>4. CASE SetRate
  BY <1>4 DEF SetRate, SetRateBegin, SetRateMr0, SetRateMr5, SetRateLer,
     SetRatePps
<1>5. CASE RateQueueing
  BY <1>5 DEF RateQueueing, RateSteps
<1>6. CASE Write
  BY <1>6 DEF Write, WriteBegin, FillSteps, PointSteps
<1>7. CASE LightEngineStep \/ SourceStep \/ LinkStep
  BY <1>7 DEF LightEngineStep, SourceStep, LinkStep
<1>8. CASE UNCHANGED dacVars
  BY <1>8 DEF dacVars
<1>9. CASE Pwm1Irq
  BY <1>9 DEF Pwm1Irq, PwmPanic, Overflow, PointSteps, ControlInv, TimerInv,
     SourceAction
<1>10. CASE EintStop
  BY <1>10 DEF EintStop, ControlInv, NoLinkLossInv
<1>11. QED
  BY <1>1, <1>2, <1>3, <1>4, <1>5, <1>6, <1>7, <1>8, <1>9, <1>10
     DEF Next, MainStep, DacStep, PhyChange, EintEnter, Halted, vars

(* A step as PointPlayer sees it.                                          *)
LEMMA PointStep ==
  ASSUME LinkLoss = FALSE, TypeOK, TypeOK', ControlInv, RingsInv, [Next]_vars
  PROVE  [Player!Next]_<<PointQueue, state # "IDLE", out>>
<1>1. CASE Plain
  BY <1>1, PlainKeeps
<1>2. CASE PrepareState
  <2>1. Player!Prepare
    BY <1>2, PrepareOpens DEF Player!Prepare, Player!F!Open
  <2>2. QED
    BY <2>1 DEF Player!Next
<1>3. CASE StopState \/ PwmUnderflow
  <2>1. CASE state = "IDLE"
    BY <1>3, <2>1, StopCloses
  <2>2. CASE state # "IDLE"
    <3>1. Player!Stop
      BY <1>3, <2>2, StopCloses DEF Player!Stop, Player!F!Close
    <3>2. QED
      BY <3>1 DEF Player!Next
  <2>3. QED
    BY <2>1, <2>2
<1>4. CASE WriteAdvance
  <2>1. CASE state = "IDLE"
    BY <1>4, <2>1, QueuesKept DEF WriteAdvance, ctlVars, outVars
  <2>2. CASE state # "IDLE"
    <3>1. Player!Accept
      BY <1>4, <2>2, AdvanceAccepts DEF Player!Accept, WriteAdvance, outVars
    <3>2. QED
      BY <3>1 DEF Player!Next
  <2>3. QED
    BY <2>1, <2>2
<1>5. CASE PwmPoint
  <2>1. Player!Play
    BY <1>5, PointTakes DEF Player!Play, Player!F!Get
  <2>2. QED
    BY <2>1 DEF Player!Next
<1>6. CASE PwmAbstract(playing) \/ StopDark
  <2>1. UNCHANGED <<PointQueue, state # "IDLE">>
    BY <1>6, QueuesKept DEF PwmAbstract, StopDark, ctlVars
  <2>2. out' \in {Generated} \/ out' = Blank
    BY <1>6 DEF PwmAbstract, StopDark
  <2>3. QED
    BY <2>1, <2>2 DEF Player!Next, Player!Generate, Player!Darken
<1>7. CASE RateSteps
  BY <1>7, QueuesKept DEF RateSteps, RateQueueProduce, RateQueueBegin,
     ctlVars, outVars
<1>8. CASE FillSteps
  <2>1. UNCHANGED <<state, out>>
    BY <1>8 DEF FillSteps, WriteFill, ctlVars, outVars
  <2>2. QED
    BY <1>8, <2>1, FillKeepsQueue DEF FillSteps
<1>9. QED
  BY <1>1, <1>2, <1>3, <1>4, <1>5, <1>6, <1>7, <1>8, StepKinds
     DEF PointSteps

(* A step as BoundedFifo sees the rate ring.                               *)
LEMMA RateStep ==
  ASSUME LinkLoss = FALSE, TypeOK, TypeOK', ControlInv, RingsInv, [Next]_vars
  PROVE  [Rings!Next]_<<RateQueue, state # "IDLE">>
<1>1. CASE Plain
  BY <1>1, PlainKeeps
<1>2. CASE PrepareState
  <2>1. Rings!Open
    BY <1>2, PrepareOpens DEF Rings!Open
  <2>2. QED
    BY <2>1 DEF Rings!Next
<1>3. CASE StopState \/ PwmUnderflow
  <2>1. CASE state = "IDLE"
    BY <1>3, <2>1, StopCloses
  <2>2. CASE state # "IDLE"
    <3>1. Rings!Close
      BY <1>3, <2>2, StopCloses DEF Rings!Close
    <3>2. QED
      BY <3>1 DEF Rings!Next
  <2>3. QED
    BY <2>1, <2>2
<1>4. CASE RateQueueProduce
  <2>1. CASE state = "IDLE"
    BY <1>4, <2>1, QueuesKept DEF RateQueueProduce, ctlVars
  <2>2. CASE state # "IDLE"
    BY <1>4, <2>2, PublishAccepts DEF Rings!Next
  <2>3. QED
    BY <2>1, <2>2
<1>5. CASE \E r \in Rates : RateQueueBegin(r)
  <2>1. UNCHANGED state
    BY <1>5 DEF RateQueueBegin, ctlVars
  <2>2. QED
    BY <1>5, <2>1, QueueRateKeeps
<1>6. CASE PwmPoint
  <2>1. state # "IDLE" /\ state' = state
    BY <1>6, PointTakes
  <2>2. CASE RateQueue' = RateQueue
    BY <2>1, <2>2
  <2>3. CASE ~(RateQueue' = RateQueue)
    <3>1. RateQueue # <<>> /\ RateQueue' = Tail(RateQueue)
      BY <1>6, <2>3, PointTakes
    <3>2. Rings!Get
      BY <2>1, <3>1 DEF Rings!Get
    <3>3. QED
      BY <3>2 DEF Rings!Next
  <2>4. QED
    BY <2>2, <2>3
<1>7. CASE FillSteps \/ WriteAdvance \/ PwmAbstract(playing) \/ StopDark
  <2>1. UNCHANGED <<state, rateVars>>
    BY <1>7 DEF FillSteps, WriteFill, WriteAdvance, PwmAbstract, StopDark,
       ctlVars
  <2>2. QED
    BY <2>1, QueuesKept
<1>8. QED
  BY <1>1, <1>2, <1>3, <1>4, <1>5, <1>6, <1>7, StepKinds
     DEF PointSteps, RateSteps

(* A step that shortens the queue of points is the interrupt's.            *)
LEMMA RateChangeStep ==
  ASSUME LinkLoss = FALSE, TypeOK, TypeOK', ControlInv, RingsInv, [Next]_vars,
         consume' # consume, Len(PointQueue') < Len(PointQueue)
  PROVE  IF out' \in RatePoints /\ RateQueue # <<>>
         THEN /\ mr' = [m0 |-> Head(RateQueue), m5 |-> Head(RateQueue)]
              /\ pps' = Head(RateQueue) /\ RateQueue' = Tail(RateQueue)
         ELSE UNCHANGED <<mr, pps, RateQueue>>
<1>1. CASE PwmPoint
  BY <1>1, PointTakes
<1>2. CASE Plain \/ PrepareState
  <2>1. PointQueue' = PointQueue
    BY <1>2, PlainKeeps, PrepareOpens
  <2>2. ~(Len(PointQueue) < Len(PointQueue))
    <3>1. Len(PointQueue) \in Int
      <4>1. CASE state = "IDLE"
        BY <4>1, EmptySeq DEF PointQueue
      <4>2. CASE state # "IDLE"
        BY <4>2, QueuesAreSeqs, DriverRings, RingIsSeq
      <4>3. QED
        BY <4>1, <4>2
    <3>2. QED
      BY <3>1, SMT
  <2>3. QED
    BY <2>1, <2>2
<1>3. CASE \/ StopState \/ PwmUnderflow \/ RateSteps \/ FillSteps
           \/ WriteAdvance \/ PwmAbstract(playing) \/ StopDark
  <2>1. consume' = consume
    BY <1>3 DEF StopState, PwmUnderflow, RateSteps, FillSteps,
       RateQueueProduce, RateQueueBegin, WriteFill, WriteAdvance, PwmAbstract,
       StopDark, ringVars
  <2>2. QED
    BY <2>1
<1>4. QED
  BY <1>1, <1>2, <1>3, StepKinds DEF PointSteps

-----------------------------------------------------------------------------
(***************************************************************************)
(* As long as the link is not lost, the point ring and the output          *)
(* implement PointPlayer: between dac_prepare and a stop, points are shown *)
(* once each, in order, none of an earlier playback, whatever instruction  *)
(* of dac_request, dac_advance, dac_prepare and dac_stop the interrupt     *)
(* comes after, for any size of the ring.                                  *)
(***************************************************************************)
THEOREM PointsPlayedInOrder ==
  ASSUME LinkLoss = FALSE
  PROVE  Spec => PlaysPointsInOrder
<1>1. Init => ControlInv /\ RingsInv
  BY ControlInductive, RingsInductive
<1>2. TypeOK /\ ControlInv /\ RingsInv /\ [Next]_vars
        => ControlInv' /\ RingsInv'
  BY ControlInductive, RingsInductive
<1>3. Init => Player!Init
  BY DEF Init, DacInit, Player!Init, Player!F!Init, PointQueue
<1>4. TypeOK /\ TypeOK' /\ ControlInv /\ RingsInv /\ [Next]_vars
        => [Player!Next]_<<PointQueue, state # "IDLE", out>>
  BY PointStep
<1>5. QED
  BY <1>1, <1>2, <1>3, <1>4, TypeCorrect, PTL
     DEF Spec, PlaysPointsInOrder, Player!Spec

(***************************************************************************)
(* Under the same condition the rate ring implements BoundedFifo: no rate  *)
(* change is lost, repeated or reordered, nor left over from an earlier    *)
(* playback.                                                               *)
(***************************************************************************)
THEOREM RatesTakenInOrder ==
  ASSUME LinkLoss = FALSE
  PROVE  Spec => RatesInOrder
<1>1. Init => ControlInv /\ RingsInv
  BY ControlInductive, RingsInductive
<1>2. TypeOK /\ ControlInv /\ RingsInv /\ [Next]_vars
        => ControlInv' /\ RingsInv'
  BY ControlInductive, RingsInductive
<1>3. Init => Rings!Init
  BY DEF Init, DacInit, Rings!Init, RateQueue
<1>4. TypeOK /\ TypeOK' /\ ControlInv /\ RingsInv /\ [Next]_vars
        => [Rings!Next]_<<RateQueue, state # "IDLE">>
  BY RateStep
<1>5. QED
  BY <1>1, <1>2, <1>3, <1>4, TypeCorrect, PTL
     DEF Spec, RatesInOrder, Rings!Spec

(***************************************************************************)
(* And the two rings stay together: a rate-change point takes the oldest   *)
(* rate queued when it is played, any other point takes none.              *)
(***************************************************************************)
THEOREM RatesFollowPoints ==
  ASSUME LinkLoss = FALSE
  PROVE  Spec => RateFollowsPoints
<1>1. Init => ControlInv /\ RingsInv
  BY ControlInductive, RingsInductive
<1>2. TypeOK /\ ControlInv /\ RingsInv /\ [Next]_vars
        => ControlInv' /\ RingsInv'
  BY ControlInductive, RingsInductive
<1>3. TypeOK /\ TypeOK' /\ ControlInv /\ RingsInv /\ [Next]_vars =>
        [consume' # consume /\ Len(PointQueue') < Len(PointQueue) =>
           IF out' \in RatePoints /\ RateQueue # <<>>
           THEN /\ mr' = [m0 |-> Head(RateQueue), m5 |-> Head(RateQueue)]
                /\ pps' = Head(RateQueue) /\ RateQueue' = Tail(RateQueue)
           ELSE UNCHANGED <<mr, pps, RateQueue>>]_vars
  BY RateChangeStep
<1>4. QED
  BY <1>1, <1>2, <1>3, TypeCorrect, PTL DEF Spec, RateFollowsPoints
=============================================================================
