------------------------------ MODULE DmxProofs ------------------------------
(* Proofs about the DMX driver: no frame is sent without its break, a      *)
(* running universe is sent in every cycle, the start code is kept and no  *)
(* change of the input is lost, for any number of universes and channels.  *)
EXTENDS DmxSafety, TLAPS

(* What the types leave open about the main loop's copy of the byte.       *)
RegOK == /\ reg \in [enabled : SUBSET Universes, marked : SUBSET Universes]
         /\ universe \in {0} \union Universes
         /\ pc \in {"load", "store"} => universe \in Universes
         /\ crossed \in BOOLEAN /\ ran \subseteq Universes

(* The copy is old by one match at most.                                   *)
CopyOK ==
  /\ pc = "store" => /\ reg.enabled = enabled /\ reg.marked \subseteq marked
                     /\ ran \subseteq reg.marked
                     /\ ~crossed => reg.marked = marked
  /\ crossed => pc = "store"

(* A mark that is set is one of this cycle, and its break ends at match 1. *)
MarksOK ==
  /\ marked \subseteq enabled /\ ran \subseteq marked
  /\ match \in {1, 2} => marked \subseteq broke
  /\ match = 2 => marked \intersect breaking = {}

Inv == TypeOK /\ RegOK /\ CopyOK /\ MarksOK

-----------------------------------------------------------------------------
(* A level that is stored fits a channel, whatever value OSC brought.      *)
LEMMA SaturatedFits == \A v \in Int : Saturated(v) \in 0 .. MaxValue
BY DmxAssumption DEF Saturated

(* Setting a channel keeps the buffer's type and its start code.           *)
LEMMA SetChannelKeeps ==
  ASSUME NEW b \in [{0} \union Channels -> 0 .. MaxValue], NEW c \in Int,
         NEW v \in Int
  PROVE  /\ dmx_set_channel(b, c, v) \in [{0} \union Channels -> 0 .. MaxValue]
         /\ dmx_set_channel(b, c, v)[0] = b[0]
<1>1. Saturated(v) \in 0 .. MaxValue BY SaturatedFits
<1>2. 0 \notin Channels BY DEF Channels
<1> QED BY <1>1, <1>2 DEF dmx_set_channel

-----------------------------------------------------------------------------
LEMMA InitInv == Init => Inv
<1> SUFFICES ASSUME Init PROVE Inv OBVIOUS
<1> USE DmxAssumption
<1>1. LinesTyped BY DEF Init, LinesTyped
<1>5. FlagsTyped BY Zenon DEF Init, FlagsTyped
<1>2. BuffersTyped BY DEF Init, BuffersTyped
<1>3. InputTyped BY DEF Init, InputTyped, Silence
<1>4. RegOK /\ CopyOK /\ MarksOK BY DEF Init, RegOK, CopyOK, MarksOK
<1> QED BY <1>1, <1>2, <1>3, <1>4, <1>5 DEF Inv, TypeOK

(* The interrupt's and the main loop's steps on the shared byte.           *)
LEMMA MarksStep ==
  ASSUME Inv, [Next]_vars
  PROVE  LinesTyped' /\ RegOK' /\ CopyOK' /\ MarksOK'
<1> USE DmxAssumption DEF Inv, TypeOK, LinesTyped, RegOK
<1>1. CASE StartBreak
  <2>1. LinesTyped' /\ MarksOK' BY <1>1 DEF StartBreak, MarksOK
  <2>2. crossed' \in BOOLEAN BY <1>1 DEF StartBreak, Crossing
  <2>3. CopyOK' BY <1>1 DEF StartBreak, Crossing, CopyOK
  <2> QED BY <1>1, <2>1, <2>2, <2>3 DEF StartBreak
<1>2. CASE StopBreak
  <2>1. LinesTyped' /\ MarksOK' BY <1>2 DEF StopBreak, MarksOK, txVars
  <2>2. crossed' \in BOOLEAN BY <1>2 DEF StopBreak, Crossing
  <2>3. CopyOK' BY <1>2 DEF StopBreak, Crossing, CopyOK, txVars
  <2> QED BY <1>2, <2>1, <2>2, <2>3 DEF StopBreak
<1>3. CASE StartWrite
  <2>1. LinesTyped' /\ MarksOK' BY <1>3 DEF StartWrite, MarksOK, txVars
  <2>2. crossed' \in BOOLEAN BY <1>3 DEF StartWrite, Crossing
  <2>3. CopyOK' BY <1>3 DEF StartWrite, Crossing, CopyOK, MarksOK, txVars
  <2> QED BY <1>3, <2>1, <2>2, <2>3 DEF StartWrite
<1>4. CASE SetChannels \/ SetBlob
  BY <1>4 DEF SetChannels, SetBlob, CopyOK, MarksOK, lineVars
<1>5. CASE EnableLoad
  BY <1>5 DEF EnableLoad, CopyOK, MarksOK, txVars, lineVars
<1>6. CASE EnableStore
  BY <1>6 DEF EnableStore, CopyOK, MarksOK, lineVars
<1>7. CASE Uart1Irq
  <2>1. UNCHANGED <<txVars, lineVars, mainVars>>
    BY <1>7 DEF Uart1Irq, Break, Damaged, Ignored, StartCode, Channel, Byte
  <2> QED BY <2>1 DEF CopyOK, MarksOK, txVars, lineVars, mainVars
<1>8. CASE SetDest
  BY <1>8 DEF SetDest, CopyOK, MarksOK, txVars, lineVars, mainVars
<1>9. CASE dmx_in_poll
  <2>1. UNCHANGED <<txVars, lineVars, universe, reg, crossed>>
    BY <1>9 DEF dmx_in_poll, PollBegin, PollSend
  <2>2. pc \in {"idle", "send"} /\ pc' \in {"idle", "send"}
    BY <1>9 DEF dmx_in_poll, PollBegin, PollSend
  <2> QED BY <2>1, <2>2 DEF CopyOK, MarksOK, txVars, lineVars
<1>10. CASE UNCHANGED vars
  <2>1. UNCHANGED <<txVars, lineVars, mainVars>> BY <1>10 DEF vars
  <2> QED BY <2>1 DEF CopyOK, MarksOK, txVars, lineVars, mainVars
<1> HIDE DEF Inv, TypeOK, LinesTyped, RegOK
<1> QED BY <1>1, <1>2, <1>3, <1>4, <1>5, <1>6, <1>7, <1>8, <1>9, <1>10
        DEF Next, Timer1Irq, Osc, Enable

(* Only the handlers of channels and blobs write a universe's buffer.      *)
LEMMA BuffersStep ==
  ASSUME BuffersTyped, [Next]_vars
  PROVE  BuffersTyped' /\ (StartCodeKept => StartCodeKept')
<1> USE DmxAssumption
<1>1. CASE SetChannels
  <2>1. PICK u \in Universes, base \in -1 .. DMX_CHANNELS + 1, v \in Values,
             w \in Values :
          buffers' = [buffers EXCEPT ![u] =
                        dmx_set_channel(dmx_set_channel(@, base, v), base + 1, w)]
    BY <1>1 DEF SetChannels
  <2> DEFINE one == dmx_set_channel(buffers[u], base, v)
             two == dmx_set_channel(one, base + 1, w)
  <2>2. buffers[u] \in [{0} \union Channels -> 0 .. MaxValue]
    BY DEF BuffersTyped
  <2>3. base \in Int /\ base + 1 \in Int /\ v \in Int /\ w \in Int OBVIOUS
  <2>4. /\ one \in [{0} \union Channels -> 0 .. MaxValue]
        /\ one[0] = buffers[u][0]
    BY <2>2, <2>3, SetChannelKeeps
  <2>5. /\ two \in [{0} \union Channels -> 0 .. MaxValue]
        /\ two[0] = one[0]
    BY <2>3, <2>4, SetChannelKeeps
  <2>6. buffers' = [buffers EXCEPT ![u] = two] BY <2>1
  <2> HIDE DEF one, two
  <2>7. BuffersTyped' BY <2>5, <2>6 DEF BuffersTyped
  <2>8. StartCodeKept => StartCodeKept'
    BY <2>4, <2>5, <2>6 DEF BuffersTyped, StartCodeKept
  <2> QED BY <2>7, <2>8
<1>2. CASE SetBlob
  <2>1. PICK u \in Universes, n \in 0 .. DMX_CHANNELS, v \in 0 .. MaxValue :
          buffers' = [buffers EXCEPT ![u] =
                        [c \in DOMAIN @ |-> IF c \in 1 .. n THEN v ELSE @[c]]]
    BY <1>2 DEF SetBlob
  <2> DEFINE b == [c \in DOMAIN buffers[u] |->
                     IF c \in 1 .. n THEN v ELSE buffers[u][c]]
  <2>2. buffers[u] \in [{0} \union Channels -> 0 .. MaxValue]
    BY DEF BuffersTyped
  <2>3. /\ b \in [{0} \union Channels -> 0 .. MaxValue]
        /\ b[0] = buffers[u][0]
    BY <2>2
  <2>4. buffers' = [buffers EXCEPT ![u] = b] BY <2>1
  <2> HIDE DEF b
  <2>5. BuffersTyped' BY <2>3, <2>4 DEF BuffersTyped
  <2>6. StartCodeKept => StartCodeKept'
    BY <2>3, <2>4 DEF BuffersTyped, StartCodeKept
  <2> QED BY <2>5, <2>6
<1>3. CASE UNCHANGED buffers BY <1>3 DEF BuffersTyped, StartCodeKept
<1> QED
  BY <1>1, <1>2, <1>3 DEF Next, Timer1Irq, StartBreak, StopBreak, StartWrite,
     Uart1Irq, Break, Damaged, Ignored, StartCode, Channel, Byte, Osc, SetDest,
     Enable, EnableLoad, EnableStore, dmx_in_poll, PollBegin, PollSend, vars,
     txVars

(* A byte is stored in a slot that exists, and the position only leaves    *)
(* the buffer together with the state ACTIVE.                              *)
LEMMA InputStep ==
  ASSUME InputTyped, FlagsTyped, [Next]_vars
  PROVE  InputTyped' /\ FlagsTyped'
<1> USE DmxAssumption
<1>1. CASE \E ch \in 0 .. MaxValue : Channel(ch)
  <2>1. PICK ch \in 0 .. MaxValue : Channel(ch) BY <1>1
  <2>2. position \in Slots BY <2>1 DEF Channel, InputTyped
  <2>3. /\ input_buffer' \in [Slots -> 0 .. MaxValue]
        /\ sent' = sent /\ dest' = dest
    BY <2>1, <2>2 DEF Channel, Byte, InputTyped, hostVars
  <2>4. rx' = "ACTIVE" => position' \in Slots
    BY <2>1, <2>2 DEF Channel, Slots
  <2>5. rx' \in {"IGNORE", "GOT_BREAK", "ACTIVE"} BY <2>1 DEF Channel
  <2>6. dirty' \in BOOLEAN BY <2>1, Zenon DEF Channel
  <2> QED BY <2>3, <2>4, <2>5, <2>6 DEF InputTyped, FlagsTyped
<1>2. CASE \E ch \in 0 .. MaxValue : StartCode(ch)
  BY SMTT(20), <1>2 DEF StartCode, Byte, InputTyped, FlagsTyped, Slots, hostVars
<1>3. CASE Break \/ Damaged \/ Ignored
  BY <1>3 DEF Break, Damaged, Ignored, Byte, InputTyped, FlagsTyped, hostVars
<1>4. CASE SetDest \/ dmx_in_poll
  BY <1>4 DEF SetDest, dmx_in_poll, PollBegin, PollSend, InputTyped,
              FlagsTyped, rxVars, hostVars
<1>5. CASE UNCHANGED <<rxVars, hostVars>>
  BY <1>5 DEF InputTyped, FlagsTyped, rxVars, hostVars
<1> QED
  BY <1>1, <1>2, <1>3, <1>4, <1>5 DEF Next, Timer1Irq, StartBreak, StopBreak,
     StartWrite, Uart1Irq, Osc, SetChannels, SetBlob, Enable, EnableLoad,
     EnableStore, vars

LEMMA StepInv == Inv /\ [Next]_vars => Inv'
<1> SUFFICES ASSUME Inv, [Next]_vars PROVE Inv' OBVIOUS
<1>1. LinesTyped' /\ RegOK' /\ CopyOK' /\ MarksOK' BY MarksStep
<1>2. BuffersTyped' BY BuffersStep DEF Inv, TypeOK
<1>3. InputTyped' /\ FlagsTyped' BY InputStep DEF Inv, TypeOK
<1> QED BY <1>1, <1>2, <1>3 DEF Inv, TypeOK

-----------------------------------------------------------------------------
(* Every reachable state is well typed: no byte is stored outside the      *)
(* input buffer, whatever arrives on the line.                             *)
THEOREM DmxTypeCorrect == Spec => []TypeOK
<1>1. Inv => TypeOK BY DEF Inv
<1> QED BY InitInv, StepInv, <1>1, PTL DEF Spec

(* Whatever the main loop's stores do to the shared byte, data is sent     *)
(* only behind a break of the same cycle that is over.                     *)
THEOREM BreakFirst == Spec => DataAfterBreak
<1>1. Inv /\ [Next]_vars =>
        [match = 2 /\ match' = 0 => sending' \subseteq broke \ breaking]_vars
  <2> SUFFICES ASSUME Inv, Next, match = 2, match' = 0
               PROVE  sending' \subseteq broke \ breaking
    OBVIOUS
  <2>1. StartWrite
    BY DEF Next, Timer1Irq, StartBreak, StopBreak, Uart1Irq, Break, Damaged,
           Ignored, StartCode, Channel, Byte, Osc, SetChannels, SetBlob, SetDest,
           Enable, EnableLoad, EnableStore, dmx_in_poll, PollBegin, PollSend,
           lineVars
  <2> QED BY <2>1 DEF StartWrite, Inv, MarksOK
<1> QED BY InitInv, StepInv, <1>1, PTL DEF Spec, DataAfterBreak

(* A universe that was sent once is sent in every cycle and its breaks end *)
(* in time: the store that drops a mark can only delay a first frame.      *)
THEOREM RunningStays == Spec => SteadyOnceRunning
<1>1. Inv /\ [Next]_vars =>
        [/\ match = 1 /\ match' = 2 => ran \intersect breaking' = {}
         /\ match = 2 /\ match' = 0 => ran \subseteq sending']_vars
  <2> SUFFICES ASSUME Inv, Next
               PROVE  /\ match = 1 /\ match' = 2 => ran \intersect breaking' = {}
                      /\ match = 2 /\ match' = 0 => ran \subseteq sending'
    OBVIOUS
  <2>1. match' # match => Timer1Irq
    BY DEF Next, Uart1Irq, Break, Damaged, Ignored, StartCode, Channel, Byte,
           Osc, SetChannels, SetBlob, SetDest, Enable, EnableLoad, EnableStore,
           dmx_in_poll, PollBegin, PollSend, lineVars
  <2> QED BY <2>1 DEF Timer1Irq, StartBreak, StopBreak, StartWrite, Inv, MarksOK
<1> QED BY InitInv, StepInv, <1>1, PTL DEF Spec, SteadyOnceRunning

(* The start code of a universe is never written, whatever base, count and *)
(* values OSC brought.                                                     *)
THEOREM StartCodeSafe == Spec => []StartCodeKept
<1>1. Init => BuffersTyped /\ StartCodeKept
  <2> SUFFICES ASSUME Init PROVE BuffersTyped /\ StartCodeKept OBVIOUS
  <2>1. BuffersTyped BY InitInv DEF Inv, TypeOK
  <2> QED BY <2>1 DEF Init, StartCodeKept
<1>2. BuffersTyped /\ StartCodeKept /\ [Next]_vars
        => (BuffersTyped /\ StartCodeKept)'
  BY BuffersStep
<1> QED BY <1>1, <1>2, PTL DEF Spec

(* A received change stays marked until a packet with it is sent, although *)
(* bytes arrive between the poll's reset of the mark and the packet.       *)
THEOREM ChangesSent == Spec => []NoChangeLost
<1> USE DmxAssumption
<1>1. Init => NoChangeLost BY DEF Init, NoChangeLost
<1>2. NoChangeLost /\ TypeOK /\ [Next]_vars => NoChangeLost'
  <2> SUFFICES ASSUME NoChangeLost, TypeOK, [Next]_vars PROVE NoChangeLost'
    OBVIOUS
  <2>1. CASE \E ch \in 0 .. MaxValue : Channel(ch)
    <3>1. PICK ch \in 0 .. MaxValue : Channel(ch) BY <2>1
    <3>2. /\ pc' = pc /\ sent' = sent
          /\ input_buffer' = [input_buffer EXCEPT ![position] = ch]
          /\ dirty' = (dirty \/ ch # input_buffer[position])
      BY <3>1 DEF Channel, Byte, mainVars, hostVars
    <3>3. CASE ch = input_buffer[position]
      <4>1. input_buffer' = input_buffer
        BY <3>2, <3>3 DEF TypeOK, InputTyped
      <4> QED BY <3>2, <4>1 DEF NoChangeLost
    <3>4. CASE ch # input_buffer[position] BY <3>2, <3>4 DEF NoChangeLost
    <3> QED BY <3>3, <3>4
  <2>2. CASE (\E ch \in 0 .. MaxValue : StartCode(ch)) \/ Break \/ Damaged
             \/ Ignored
    BY <2>2 DEF StartCode, Break, Damaged, Ignored, Byte, NoChangeLost,
                mainVars, hostVars
  <2>3. CASE dmx_in_poll
    BY <2>3 DEF dmx_in_poll, PollBegin, PollSend, NoChangeLost, rxVars, hostVars
  <2>4. CASE Timer1Irq \/ Osc \/ Enable \/ UNCHANGED vars
    BY <2>4 DEF Timer1Irq, StartBreak, StopBreak, StartWrite, Osc, SetChannels,
       SetBlob, SetDest, Enable, EnableLoad, EnableStore, vars, NoChangeLost,
       rxVars, hostVars, mainVars
  <2> QED BY <2>1, <2>2, <2>3, <2>4 DEF Next, Uart1Irq
<1>3. Spec => []TypeOK BY DmxTypeCorrect
<1> QED BY <1>1, <1>2, <1>3, PTL DEF Spec

(* On a line without errors a byte is stored at the channel it has in the  *)
(* frame, even when frames are cut short by a break.                       *)
THEOREM ChannelsInPlace == LineErrors = FALSE => (Spec => []InPlace)
<1> SUFFICES ASSUME LineErrors = FALSE PROVE Spec => []InPlace OBVIOUS
<1> DEFINE IInv == InPlace /\ wire \in Int /\ (rx = "GOT_BREAK" => wire = 0)
                   /\ (rx = "ACTIVE" => position \in Int)
<1>1. Init => IInv BY DEF Init, InPlace
<1>2. IInv /\ [Next]_vars => IInv'
  <2> SUFFICES ASSUME IInv, [Next]_vars PROVE IInv' OBVIOUS
  <2>1. CASE Uart1Irq
    BY <2>1 DEF Uart1Irq, Break, Damaged, Ignored, StartCode, Channel, Byte,
                InPlace
  <2>2. CASE UNCHANGED <<rx, position, wire>> BY <2>2 DEF InPlace
  <2> QED BY <2>1, <2>2 DEF Next, Timer1Irq, StartBreak, StopBreak, StartWrite,
      Osc, SetChannels, SetBlob, SetDest, Enable, EnableLoad, EnableStore,
      dmx_in_poll, PollBegin, PollSend, vars, rxVars
<1>3. IInv => InPlace OBVIOUS
<1> QED BY <1>1, <1>2, <1>3, PTL DEF Spec
=============================================================================
