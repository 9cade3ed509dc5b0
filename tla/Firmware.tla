------------------------------ MODULE Firmware ------------------------------
(***************************************************************************)
(* Playback control of the Ether Dream firmware: the DAC driver of Dac.tla *)
(* composed with the light engine (firmware/lib/lightengine.c), the        *)
(* playback source (firmware/lib/playback.c) and the Ethernet link monitor *)
(* (firmware/lib/network.c).                                               *)
(*                                                                         *)
(* Three contexts interleave: the main loop, which calls one operation     *)
(* after another; EINT3, the PHY's link-change interrupt (priority 1),     *)
(* which preempts the main loop; and PWM1 (priority 0), which preempts     *)
(* both.  The state begins where main() enters its loop, after             *)
(* eth_lockout_disable() and dac_set_rate(30000).                          *)
(***************************************************************************)
EXTENDS Dac

CONSTANTS
  Ops,       (* The main-loop operations of this instance.                   *)
  LinkLoss   (* Whether the PHY may lose the link.                           *)

AllOps == {"prepare", "start", "stop", "estop", "clear", "source", "flag",
           "rate", "queue", "write", "link"}

ASSUME OpsAssumption == Ops \subseteq AllOps /\ LinkLoss \in BOOLEAN

VARIABLES
  le_state, le_flags,      \* the light engine
  playback_src, playing,   \* the source and its ..._PLAYING flag
  eth_link_state,          \* what the firmware believes about the link
  netif_up,                \* what lwIP was told about it
  phy,                     \* the link itself
  eint_pend, eint_pc,      \* EINT3: raised; inactive or inside le_estop
  panicked                 \* panic() was called

leVars   == <<le_state, le_flags>>
srcVars  == <<playback_src, playing>>
ethVars  == <<eth_link_state, netif_up>>
eintVars == <<phy, eint_pend, eint_pc>>
fwVars   == <<leVars, srcVars, ethVars, eintVars, panicked>>
vars     == <<dacVars, fwVars>>

Sources    == {"NETWORK", "ILDAPLAYER", "ABSTRACT"}
Conditions == {"PACKET", "LINKLOST"}     \* the le_flags bits the code raises
LinkStates == {"DOWN", "UP", "GOING_DOWN"}

Init ==
  /\ DacInit
  /\ le_state = "READY" /\ le_flags = {}
  /\ playback_src = "NETWORK" /\ playing = FALSE
  /\ eth_link_state = "DOWN" /\ netif_up = FALSE
  /\ phy \in BOOLEAN /\ eint_pend = FALSE /\ eint_pc = "idle"
  /\ panicked = FALSE

(* The main loop runs when no handler is active and nothing has panicked.  *)
MainRuns == eint_pc = "idle" /\ ~panicked

-----------------------------------------------------------------------------
(* The DAC operations, as the stream and file code call them.              *)

Prepare ==
  \/ "prepare" \in Ops /\ PrepareBegin(le_state = "READY")
  \/ PrepareProduce \/ PrepareConsume \/ PrepareFlags \/ PrepareState

Start ==
  \/ "start" \in Ops /\ StartBegin
  \/ StartState \/ StartIrq(playback_src) \/ StartTimer \/ ShutterOpen

Stop ==
  \/ "stop" \in Ops /\ StopBegin
  \/ StopTimer \/ StopLoad \/ StopShutter \/ StopDark \/ StopState
  \/ StopReturn

SetRate ==
  \/ "rate" \in Ops /\ \E r \in Rates : SetRateBegin(r)
  \/ SetRateMr0 \/ SetRateMr5 \/ SetRateLer \/ SetRatePps

RateQueueing ==
  \/ "queue" \in Ops /\ \E r \in Rates : RateQueueBegin(r)
  \/ RateQueueProduce

Write ==
  \/ "write" \in Ops /\ \E n \in 1 .. MaxChunk : WriteBegin(n)
  \/ \E pts \in [1 .. reg.n -> Points] : WriteFill(pts)
  \/ WriteAdvance

DacStep ==
  /\ Prepare \/ Start \/ Stop \/ SetRate \/ RateQueueing \/ Write
  /\ UNCHANGED fwVars

-----------------------------------------------------------------------------
(* le_estop(ESTOP_PACKET) in the main loop: le_flags |= condition, then    *)
(* the state, then dac_stop(DAC_FLAG_STOP_ESTOP).                          *)

EstopBegin ==
  /\ "estop" \in Ops /\ pc = "main"
  /\ pc' = "estop_store" /\ reg' = [reg EXCEPT !.le = le_flags]
  /\ UNCHANGED leVars

EstopStore ==
  /\ pc = "estop_store"
  /\ le_flags' = reg.le \union {"PACKET"} /\ le_state' = "ESTOP"
  /\ pc' = "stop_timer" /\ reg' = [reg EXCEPT !.stop = {"ESTOP"}]

(* le_estop_clear(cond): the test for remaining conditions is made on the  *)
(* value just stored, still in a register.                                 *)
ClearLoad(cond, ret) ==
  /\ pc' = "clear_store"
  /\ reg' = [reg EXCEPT !.le = le_flags, !.cond = cond, !.ret = ret]
  /\ UNCHANGED leVars

ClearBegin == "clear" \in Ops /\ pc = "main" /\ ClearLoad(Conditions, "main")

ClearStore ==
  /\ pc = "clear_store" /\ le_flags' = reg.le \ reg.cond
  /\ IF reg.le \subseteq reg.cond THEN Goto("clear_state") ELSE ReturnTo
  /\ UNCHANGED le_state

ClearState ==
  /\ pc = "clear_state" /\ le_state' = "READY" /\ ReturnTo
  /\ UNCHANGED le_flags

LightEngineStep ==
  /\ EstopBegin \/ EstopStore \/ ClearBegin \/ ClearStore \/ ClearState
  /\ UNCHANGED <<ctlVars, ringVars, rateVars, mrVars, outVars, timer,
                 srcVars, ethVars, eintVars, panicked>>

-----------------------------------------------------------------------------
(* playback_set_src(src): refused while a network stream is active, no     *)
(* effect if nothing changes, otherwise the DAC is stopped first.          *)

(* Plausible bug: the source is switched under a running DAC.              *)
SetSrcBegin_no_stop(src) ==
  /\ "source" \in Ops /\ pc = "main"
  /\ ~(playback_src = "NETWORK" /\ src # "NETWORK" /\ state # "IDLE")
  /\ playback_src # src
  /\ pc' = "src_set" /\ reg' = [reg EXCEPT !.src = src]
  /\ UNCHANGED srcVars

SetSrcBegin(src) ==
  /\ "source" \in Ops /\ pc = "main"
  /\ ~(playback_src = "NETWORK" /\ src # "NETWORK" /\ state # "IDLE")
  /\ playback_src # src
  /\ pc' = "stop_timer"
  /\ reg' = [reg EXCEPT !.stop = {"SRCSWITCH"}, !.src = src, !.ret = "src_set"]
  /\ UNCHANGED srcVars

SetSrcStore ==
  /\ pc = "src_set" /\ playing' = FALSE /\ playback_src' = reg.src /\ Return

(* The OSC handlers and the file player set and clear ..._PLAYING.         *)
SetPlaying ==
  /\ "flag" \in Ops /\ pc = "main" /\ playing' \in BOOLEAN
  /\ UNCHANGED <<playback_src, cpuVars>>

SourceStep ==
  /\ (\E src \in {"ILDAPLAYER", "ABSTRACT"} : SetSrcBegin(src))
     \/ SetSrcStore \/ SetPlaying
  /\ UNCHANGED <<ctlVars, ringVars, rateVars, mrVars, outVars, timer,
                 leVars, ethVars, eintVars, panicked>>

-----------------------------------------------------------------------------
(* eth_check_link(), every 100 ms.                                         *)

CheckLinkGoingDown ==
  /\ "link" \in Ops /\ pc = "main" /\ eth_link_state = "GOING_DOWN"
  /\ Goto("link_down") /\ UNCHANGED <<leVars, ethVars>>

(* Plausible bug: the state never leaves GOING_DOWN.                       *)
LinkDown_forgets ==
  /\ pc = "link_down" /\ netif_up' = FALSE
  /\ Return /\ UNCHANGED <<leVars, eth_link_state>>

LinkDown ==
  /\ pc = "link_down" /\ eth_link_state' = "DOWN" /\ netif_up' = FALSE
  /\ Return /\ UNCHANGED leVars

(* EMAC_UpdatePHYStatus() finds a link: lift the link-loss condition.      *)
CheckLinkUp ==
  /\ "link" \in Ops /\ pc = "main" /\ eth_link_state = "DOWN" /\ phy
  /\ ClearLoad({"LINKLOST"}, "link_up") /\ UNCHANGED ethVars

LinkUp ==
  /\ pc = "link_up" /\ eth_link_state' = "UP" /\ netif_up' = TRUE
  /\ Return /\ UNCHANGED leVars

LinkStep ==
  /\ CheckLinkGoingDown \/ LinkDown \/ CheckLinkUp \/ LinkUp
  /\ UNCHANGED <<ctlVars, ringVars, rateVars, mrVars, outVars, timer,
                 srcVars, eintVars, panicked>>

-----------------------------------------------------------------------------
(* The PHY raises its interrupt when the link changes.                     *)

PhyChange ==
  /\ phy => LinkLoss
  /\ phy' = ~phy /\ eint_pend' = TRUE
  /\ UNCHANGED <<dacVars, leVars, srcVars, ethVars, eint_pc, panicked>>

(* EINT3_IRQHandler(): reading MISR takes the interrupt back; if PHYSTS    *)
(* shows no link, le_estop(ESTOP_LINKLOST).  PWM1 may still interrupt      *)
(* between the light engine's part and dac_stop's, not after it.           *)
EintEnter ==
  /\ eint_pend /\ eint_pc = "idle" /\ ~panicked
  /\ eint_pend' = FALSE
  /\ IF phy THEN UNCHANGED <<leVars, eint_pc>>
     ELSE /\ le_flags' = le_flags \union {"LINKLOST"} /\ le_state' = "ESTOP"
          /\ eint_pc' = "estop"
  /\ UNCHANGED <<dacVars, srcVars, ethVars, phy, panicked>>

EintStop ==
  /\ eint_pc = "estop" /\ ~panicked
  /\ dac_stop({"ESTOP"}) /\ eth_link_state' = "GOING_DOWN"
  /\ eint_pc' = "idle"
  /\ UNCHANGED <<ringVars, rateVars, mrVars, cpuVars, leVars, srcVars,
                 netif_up, phy, eint_pend, panicked>>

Pwm1Irq ==
  /\ ~panicked
  /\ \/ /\ PwmUnderflow \/ PwmPoint \/ PwmAbstract(playing)
        /\ UNCHANGED panicked
     \/ PwmPanic /\ panicked' = TRUE
  /\ UNCHANGED <<leVars, srcVars, ethVars, eintVars>>

(* hw_open_interlock_forever() never returns: it feeds the watchdog on the  *)
(* MP1 board; on others the watchdog resets the device, not modelled.      *)
Halted == panicked /\ UNCHANGED vars

-----------------------------------------------------------------------------
MainStep == MainRuns /\ (DacStep \/ LightEngineStep \/ SourceStep \/ LinkStep)

Next ==
  \/ MainStep
  \/ PhyChange \/ EintEnter \/ EintStop
  \/ Pwm1Irq
  \/ Halted

Spec == Init /\ [][Next]_vars

(***************************************************************************)
(* Interrupts are taken and the main loop always returns to its top; its   *)
(* timer table calls eth_check_link for ever.  No input need ever arrive.  *)
(***************************************************************************)
CheckLink == MainRuns /\ LinkStep

FairSpec ==
  /\ Spec
  /\ WF_vars(MainStep /\ pc # "main") /\ SF_vars(CheckLink)
  /\ WF_vars(EintEnter) /\ WF_vars(EintStop) /\ WF_vars(Pwm1Irq)
-----------------------------------------------------------------------------
(* Types.  reg.flags and reg.le stay within what the loads can read.       *)

Labels ==
  {"main", "prep_produce", "prep_consume", "prep_flags", "prep_state",
   "start_state", "start_irq", "start_timer", "start_shutter",
   "stop_timer", "stop_load", "stop_shutter", "stop_dark", "stop_state",
   "stop_flags",
   "rate_mr0", "rate_mr5", "rate_ler", "rate_pps", "queue_produce",
   "write_fill", "write_advance", "estop_store", "clear_store",
   "clear_state", "src_set", "link_down", "link_up"}

Registers ==
  [flags : SUBSET DacFlags, le : SUBSET Conditions, stop : SUBSET StopFlags,
   cond : SUBSET Conditions, n : Nat, rate : Rates, src : Sources,
   ret : {"main", "src_set", "link_up"}]

ControlTypeOK ==
  /\ state \in DacStates /\ irq_do \in IrqActions
  /\ count \in 0 .. CountMod - 1

RingTypeOK ==
  /\ produce \in Slots /\ consume \in Slots
  /\ buffer \in [Slots -> Points \union {Blank}]

RateTypeOK ==
  /\ rate_produce \in RateSlots /\ rate_consume \in RateSlots
  /\ rate_buffer \in [RateSlots -> Rates]

PwmTypeOK ==
  /\ mr \in [m0 : Rates, m5 : Rates] /\ match \in [m0 : Rates, m5 : Rates]
  /\ ler \in BOOLEAN /\ pps \in Rates

OutputTypeOK ==
  /\ shutter \in BOOLEAN /\ dac_flags \in SUBSET DacFlags
  /\ out \in Points \union {Blank, Generated}

CpuTypeOK == pc \in Labels /\ reg \in Registers /\ timer \in BOOLEAN

FirmwareTypeOK ==
  /\ le_state \in {"READY", "ESTOP"} /\ le_flags \in SUBSET Conditions
  /\ playback_src \in Sources /\ playing \in BOOLEAN
  /\ eth_link_state \in LinkStates /\ netif_up \in BOOLEAN
  /\ phy \in BOOLEAN /\ eint_pend \in BOOLEAN /\ eint_pc \in {"idle", "estop"}
  /\ panicked \in BOOLEAN

TypeOK == ControlTypeOK /\ RingTypeOK /\ RateTypeOK /\ PwmTypeOK
          /\ OutputTypeOK /\ CpuTypeOK /\ FirmwareTypeOK
=============================================================================
