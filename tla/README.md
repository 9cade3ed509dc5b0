# Ether Dream: a TLA+ verification project

Ether Dream is a laser DAC: a small LPC1758 board with an Ethernet port that
plays points (X, Y and colour channels) on an ILDA connector. `src/` holds its
firmware, boot loader, host library and tools. This directory holds TLA+
modules for the parts whose correctness depends on order: what the main loop
and the interrupts of the firmware do to each other, and what host and firmware
say to each other.

## 1. The system

### 1.1 How the parts interact

The firmware is one endless loop (`firmware/main.c:212-233`) with interrupts.

| context | priority | runs |
|---|---|---|
| main loop | - | polls Ethernet, USB, SD card and the file player, runs the timer table, and with it all TCP/UDP/OSC handlers |
| PWM1 | 0 (highest) | one point per period: `dac_asm.s`, `dac.c:485-620` |
| TIMER1, UART1 | 0 | DMX transmission |
| EINT3 | 1 | PHY link change: `network.c:50-75` |
| TIMER0 | 3 | beat clock |
| SysTick | 5 | the millisecond clock |

No operating system separates them. They share plain memory and peripherals,
and most of the code that touches both runs with interrupts enabled: the order
of single stores is what makes it right or wrong. A host talks to the firmware
over one TCP connection, with pipelined commands and one acknowledgement per
command; the host library does this from a worker thread behind a small ring of
frames.

### 1.2 Inventory

For each component: its state, its operations, what is hard, what it must keep.

* **DAC driver** (`firmware/lib/dac.c`, `dac_asm.s`). State: `dac_control`
  (state, `irq_do`, count), a ring of 1800 points and one of 200 rates, status
  flags, the PWM1 match registers, the shutter pin. Operations: `dac_prepare`,
  `dac_start`, `dac_stop`, `dac_set_rate`, `dac_rate_queue`, `dac_request`,
  `dac_advance`, `shutter_set`, the PWM1 interrupt. Hard: the interrupt may come
  between any two stores; the rings' one-short-of-full rule; two rings consumed
  in step. Must keep: an idle DAC is dark, the shutter is open only while playing
  and reported truthfully, points and rates in order, both match values of one rate.
* **Light engine** (`lightengine.c`): `le_state`, `le_flags`; `le_estop` (packet,
  link loss), `le_estop_clear`. Called by the main loop and by EINT3. Must keep: flags and state agree; an e-stopped engine
  has a stopped DAC.
* **Playback source** (`playback.c`): source and `..._PLAYING` flag;
  `playback_set_src` stops the DAC first. Must keep: the interrupt's action is the source's.
* **Ethernet link monitor** (`network.c`): `eth_link_state`; EINT3 and
  `eth_check_link` every 100 ms. Must keep: a lost link stops the laser and is told to lwIP; one that comes back is noticed.
* **Point stream protocol** (`net/point-stream.c`, `common/protocol.h`): a
  parser per TCP connection (state, points left, up to 18 buffered bytes) and a
  ring of deferred acknowledgements. Hard: commands split by TCP at any byte, a
  full send buffer, a DAC that underflows in the middle of a data command. Must
  keep: what is executed does not depend on segmentation; every command is answered.
* **Host library** (`driver/libetherdream/etherdream.c`): frame ring, worker
  thread, condition variable, acknowledgement bookkeeping. Hard: lost wake-ups,
  reuse of a frame being written, shutdown racing a write.
* **File playback** (`file/playback.c`, `ild-player.c`, `autoplay.c`, `net/ilda-osc.c`):
  a second writer of points with its own start policy; a reader of ILDA and WAV files
  with a memory for small frames, repeat counts and a pace; a script; OSC commands and
  a request for a walk through the directory. Hard: commands, card errors and underflows
  between the parts of a frame. Must keep: whole frames in order, the pace, an end.
* **Abstract generator** (`abstract/`): oscillators evaluated in the interrupt.
* **DMX** (`lib/dmx.c`): the transmit cycle in TIMER1, the receiver in UART1, and OSC
  handlers and a poll in the main loop; a byte with two halves (universes wanted,
  universes with a break) is changed from two contexts without a lock. Must keep: a
  running universe is sent in every cycle, a change of the input is reported.
* **Memory pools** (`lib/skub.c`): slot allocation by bitmap with exclusive loads.
* **Ethernet rings** (`lib/ether.c`): transmit and receive descriptors shared with
  the EMAC, reference-counted and chained buffers. Must keep: a buffer is freed once,
  after it was sent; the EMAC writes only where nobody reads; reception resumes.
* **OSC and broadcast** (`net/osc.c`, `broadcast.c`, ...): address patterns,
  status packets.
* **Beat clock** (`net/bpm.c`): tap tempo against TIMER0.
* **Fixed point, transform** (`lib/fixpoint.c`, `lib/transform.c`): pure functions.
* **Panic and faults** (`lib/panic.c`): shutter closed, outputs dark, for ever.
* **Boot loader** (`boot/main.c`): check of the application, update from a file, DFU
  over USB. Requests arrive in the USB interrupt, blocks are handled by `main()`; they
  share the block, its number and the DFU state. Hard: a host that starts over in the
  middle, a bus reset, a power cut while flash is erased. Must keep: only a whole
  application is started, the loader stays intact.
* Storage and USB drivers, lwIP 1.3.2, FatFs, CMSIS, LPCUSB; command-line players,
  simulators and test scripts: not the program's own logic, or pure I/O.

`PROJECT.json` lists them all with their status, and every hazard with its line.

## 2. Plan

| order | module | what | state |
|---|---|---|---|
| 1 | `Dac` | the driver, store by store, and the PWM1 interrupt | done |
| 2 | `Firmware` | `Dac` composed with light engine, source, link monitor, EINT3 | done |
| 3 | `BoundedFifo`, `PointPlayer` | abstract specifications of the rate ring and of playback | done |
| 4 | `FirmwareSafety`, `FirmwareMC`, `FirmwareProofs` | properties, instances, proofs of control and of both refinements | done |
| 5 | `PointStream`, `...Safety`, `...MC`, `...Proofs` | parser, segmentation, answers, against the DAC as the stream sees it | done, but for the plugin commands |
| 6 | `EtherdreamLib`, `...Safety`, `...MC`, `...Proofs` | frame ring, worker thread, condition variable | done |
| 7 | `StreamSession`, `...Safety`, `...MC`, `...Proofs` | the library's sender, TCP, the firmware and the DAC end to end | done |
| 8 | `FilePlayer`, `...Safety`, `...MC`, `...Proofs` | files, commands, script and refill against the DAC | done |
| 9 | `Ethernet`, `...Safety`, `...MC`, `...Proofs` | both rings, reference counts and pools against the EMAC | done |
| 10 | `Dmx`, `...Safety`, `...MC`, `...Proofs` | transmit cycle, receiver, handlers | done |
| 11 | `Boot`, `...Safety`, `...MC`, `...Proofs` | DFU, file update, flash, power cuts | done |
| - | colour delay, beat clock, fixed point, OSC matching | pure arithmetic and text, without order-dependent state | not planned (section 7) |

Every safety property of a passing run is stated by a theorem. Worth proving next: that the
parser's commands do not depend on where TCP cuts them, as a refinement of a command server;
`ChannelsInPlace` with line errors, restated for the frame they occur in.

## 3. The modules and the code

### 3.1 `Dac`: the driver

Constants are the sizes of the rings, the points and rates in play. The state
is `dac_control`, the rings with their indices, `dac_flags`, and the
hardware the code programs: the counter (`timer`), the match registers as
written (`mr`) and as in use (`match`), the latch (`ler`), the shutter pin and
the outputs.

Main-loop code is modelled store by store. `pc` is the place the main loop has
reached, `reg` what it has in registers there, so that a read-modify-write such
as `dac_flags &= ~...` is a load step and a store step with room for interrupts
between. Stores no interrupt can tell apart share a step; a section between
`__disable_irq` and `__enable_irq` (`shutter_set`) is one step. The steps of an
operation carry its name: `PrepareBegin` ... `PrepareState` are `dac_prepare`,
`StopBegin` ... `StopReturn` `dac_stop`, and so on.

PWM1 has the highest priority and is one step, `Pwm1Irq`, with one alternative
per path of `dac_asm.s`: a point from the ring (with or without a rate change),
the abstract generator, the underflow, the panic. Latching of the match values
at the next overflow is a fact about the hardware and part of the interrupt's
step.

Data: a point is a model value, a rate names both itself and its tick count.
Colour delay, gain and the geometric transform change what a point looks like
and not when it is shown, and are left out.

### 3.2 `Firmware`: the composition

Adds `le_state`/`le_flags`, the playback source, `eth_link_state`, what lwIP was
told, the PHY, and EINT3, which preempts the main loop between any two steps and
is preempted by PWM1 only. `MainStep` is one step of one operation;
`Ops` selects the operations of an instance; `LinkLoss` enables loss of the
link. `PhyChange` is the environment. After a panic everything stands still.
`Init` is the state in which `main()` enters its loop.

Facts used: `mdio_read` runs with interrupts off and is atomic; the network
source is selected at boot only; `dac_start`'s refusal for a missing rate is dead
code because `main()` sets one. The watchdog's reset after a panic is not
modelled.

### 3.3 `BoundedFifo`, `PointPlayer`: what the rings promise

`BoundedFifo` is a queue with `Open`, `Put`, `Get` and `Close`; `PointPlayer` adds
an output that shows each point taken. `FirmwareSafety` instantiates both with the
contents of the concrete rings and `active <- state # "IDLE"`; the runs check
`Player!Spec` and `Rings!Spec` as properties.

### 3.4 `PointStream`: the protocol

One connection. A byte is `<<id, i>>`, byte `i` of the `id`-th command: a parser
that loses its place is visible as a byte with the wrong index. The client's
commands go on `wire`; `Deliver` cuts off any number of bytes as the next pbuf,
and chained pbufs arrive within one callback. `Recv...` are the branches of `recv_fsm`;
`Took` and `NeedMore` are what `process_packet` does with its result, with
the three assertions there. What a byte *means* when it is parsed as a command
is `Cmd`: the low water mark of a begin or update command is 0, as the host
library sends it, and reads as an e-stop; other inner bytes read as unknown.

`send_resp` gives an answer to TCP, defers it, or drops it when the ring of
deferred answers is one short of full; `Flush` is `ps_send_deferred_acks`. The
room in TCP is a number of answers. The DAC is as the stream sees it: idle,
prepared or playing, and a ring; `Play` may come between `dac_request` and
`dac_advance` (`DataRequest`, `DataAdvance`).

Left out: the plugin commands `I`, `P`, `D`; several connections (and with them
the pool of `stream_conn_t`); the contents of the status in each answer; an
error of `tcp_output` (in lwIP 1.3.2 the segment stays queued). After `close_conn` the code goes on using a
freed `stream_conn_t`; nothing else allocates in between, so the model keeps its
contents.

### 3.5 `EtherdreamLib`: the host library

An application thread and the worker. What runs under the mutex is one step,
except `etherdream_wait_for_ready`, where `held` keeps the mutex between the test
and the sleep, because the worker's last broadcast does not take it. What runs
without the mutex is a step each: `WriteFill`, `Send`, `PrepareAcked`, `Exit`,
`Broadcast`. A frame is a number and has `Chunks` parts. The socket is alive or
dead; the DAC may ask for a prepare at any part. `playing`, `started`
and `stopping` record what was begun, for the properties.

Left out: what `dac_send_data` decides from the acknowledgements (that is
`StreamSession`), protocol errors on a live socket, and the thread that
discovers DACs. An application is one thread: two that write at once to
one DAC would need more than the library offers.

### 3.6 `StreamSession`: host and DAC end to end

The worker with its books (`status`, `unacked_points`, `ackbuf`,
`pending_meta_acks`, `dc_begin_sent`) and the current frame; a TCP connection
(`up`, `down`, acknowledgements that travel with data or alone); the firmware
that executes a segment, gives `SndMax` answers to TCP and defers the rest; the
DAC as a state and a count. `Estimate...` is the top of `dac_loop`,
`ReadAnswer` one turn of `dac_get_acks` with `check_data_response`,
`PrepareAcked`, `SendData`, `SendNothing` and `Advance` the rest of the loop.
`expected_fullness` and `cap` are the code's formulas, with signed results: the
host's index may go below the frame. `Tick` is the time of one point on both
sides; `elapsed` is capped by `MaxDelay`.

A segment is executed in one step (`PointStream` looks inside), and rate-change
points are left out. Of the commands in a segment only the last changes the DAC, since the
library sends a command alone or a `q` before its `d`; the `q` is answered with the status before
the points. An answer that TCP does not take is deferred, and dropped when `DeferMax`
are. Two bounds end a behaviour where the code would go on in
undefined behaviour: `SendData` stops before the ring of late acks is overrun,
and a worker whose index has left the frame is not followed. `late`, `lost`, `refused` and
`estops` are history (an answer has been deferred, dropped; points have been refused; stops
from outside), to state what holds without them.

### 3.7 `FilePlayer`: files, script and commands

A file is a sequence of items, a frame's header and its points; a WAV file is one
frame. The main loop calls the polls in the order of the linker's table
(`tables.h`, sorted by name in `lpc1758.lds`): `autoplay_poll`, `eth_poll_1` (at
most one command), `ilda_osc_poll`, `playback_refill`. The last is split at
`dac_request` (`RefillBegin`), at the frame header (`RefillHeader`) and at its ends
(`RefillAtEnd`, `RefillPoints`, `RefillFails`, `RefillPanics`), so that the
interrupt falls in between. Files may be short, of an unknown format, or fail at any read
(`CardFails`); a header that fails half way may have stored its format.
The DAC is `Dac`'s, reduced to what the refill sees: state, ring and write index
(with the ring's end, at which a request is cut). `drift` and `failed` are history.

A point's coordinates and palette are left out, and the readouts sent to the OSC client.

### 3.8 `Ethernet`: rings and buffers

Buffers have a reference count and a successor in their chain; a slot of a
ring is a descriptor with the driver's record of its buffer, always stored
together. The EMAC (`TxDone`, `RxDone`) acts between any two steps of the main loop: `eth_poll_1`
(`eth_tx_cleanup`, which reads the EMAC's index once in `CleanupBegin`, frees one
descriptor per `Reclaim` and ends in `CleanupDone`; `Receive`, `NothingReceived`), the packet's handler,
`eth_transmit...` (`WaitForRoom`, `Fragment`, `Publish`), `eth_poll_2` (`PollTwo`,
`Refill`, `PollTwoDone`). `pbuf_free` is lwIP's, the stack is what it does with
buffers: drop a packet, send it back, keep a chain until it is
acknowledged, retransmit it when no slot holds it, send a datagram. `Others` bounds the buffers of other
protocols in the ring: the room test counts what the hardware consumed, and
the driver relies on `TCP_SND_QUEUELEN` buffers and little else being queued.

### 3.9 `Dmx`

TIMER1's three matches (`StartBreak`, `StopBreak`, `StartWrite`) and UART1's
cases are a step each; the read-modify-write of
`dmx_tx_enabled_universes` in the main loop is `EnableLoad` and `EnableStore`, with at most one match in
between (it takes a few instructions, matches are 60 microseconds apart or more). `wire` numbers the bytes on the
line, for the proof that each is stored in its place. With `LineErrors` a
byte is dropped by the UART in the middle of a frame; the bytes behind it move up.

### 3.10 `Boot`

Flash is a function from pages to contents and outlives `PowerCut`, RAM does
not. `main()` is the steps `Check`, `FileRead` ... `FileEnd`, `Decide`, then
the loop `Wait` ... `RequestDone`; `handle_data_block` is split where it reads
`current_block` (twice), erases, copies and writes. The requests of the USB
interrupt may come between any two of them. The host follows the DFU class: it asks for the status after every
request and goes on when the device is not busy; it may give up, reset the bus
and start over at any time. An image is its name and its block numbers, so that a
checksum that fits means that all pages are the image's.

`HostWaits` says that after a bus reset the host's first status request finds
the loader idle; `FileFails` that a read of the card may end early. With the
first off or the second on the loader can fail (section 6); the run and the theorems state them as assumptions.

## 4. What is checked

| run | shows | instance | distinct states |
|---|---|---|---|
| `control` | without link loss: an idle DAC is dark, an e-stopped one idle, a running one plays its source, stop reasons stay | all 11 operations, point ring of 3, rate ring of 2 | 569498 |
| `stream` | both rings implement their abstract specifications, rate changes in step, a silent writer ends playback | rings of 3, two points (one changes the rate), two rates | 1108668 |
| `link` | shutter closed unless playing; a link that is back is noticed | link loss at any step, ring of 3 | 383385 |
| `segments` | the parser keeps its place, one answer per command, points in order, nothing after a close, all is parsed | 3 commands out of 13, any cut, room for 1 answer, 1 deferred | 1728226 |
| `frames` | no slot is filled while sent, frames in order, a waiting writer gets room, a stopped frame ends | 5 frames of 2 parts, 2 connections, failures | 41499 |
| `session` | room for all points, books balance, only the frame is sent, playback goes on | target of 3 points, 2 answers fit, 3 are deferred, 5 late acks, 1 e-stop | 353023 |
| `fileplay` | whole frames in order, pace, what is read is played, the script ends | three files, 8 commands (2 of them arrive), script of 2 lines, ring of 5 | 889760 |
| `ethernet` | only live buffers sent, receive buffers alone, references balanced, packets in order, reception resumes | rings of 4 and 3, 3 pool and 2 other buffers | 348444 |
| `dmx` | changes reported, running universes sent, enabled ones sent | 1 universe, 2 channels of 2 levels | 166742 |
| `dfu` | only whole applications start, loader intact, acknowledged is handled, complete is whole, reset starts | images of 1 and 2 pages, 2 blocks per page, failures, power cuts | 809079 |
| `estop_race` | violation: an e-stop is overwritten | ring of 2, link loss | |
| `outside_frame` | violation: the index leaves the frame | as `session`, 6 answers fit | |

Type invariants are not among the runs' properties: they are proved (section 5). The
inductive invariant of the session, `IInv`, holds on the instance of `session` when
`INVARIANT IInv` is added to its `.cfg`, and on larger ones (`MaxDelay = 4`, `SndMax = 4`,
12.3 million states).

The bounds. A ring of 3 holds two points, so that its indices wrap after
every few writes, it can be full, empty and one short of each, and a write may be split by the end of the
array; a rate ring of 3 is the smallest that distinguishes the order of two
rates. Interleavings of the interrupt need one operation of the main loop at a
time, so operations are unbounded and only data is bounded (`MaxChunk` points per
write, `CountMod` for the 32-bit counter, which is 1, that is ignored, where no
property mentions it). In `PointStream` sizes are scaled but keep their order (a point fills the
buffer, headers do not); three commands are needed for a prepare, a data command and what
follows it, and `SndMax` 1 with `PS_DEFERRED_ACK_MAX` 2 makes answers
deferred and dropped. `Capacity` 2 makes a data command of two points fit, not
fit, or half fit. In `EtherdreamLib` two slots is the
code's number; five frames wrap the ring twice.

In `StreamSession` the code's numbers keep their order (`BeginAbove < Target <
Capacity`, a data command smaller than the target); frames of three points need two
commands; with two answers in TCP and three deferred the firmware does drop one, at a depth of 50 steps.
In `FilePlayer` a frame is longer or not longer than
`SMALL_FRAME_THRESHOLD`, so that it is replayed from memory or read again; the
ring of 5 wraps in every frame. In `Ethernet` the transmit ring is two longer
than what TCP may queue, as in the code, chains have two fragments and the pool can be emptied.
In `Dmx` a frame on the line may be too long and one shorter than the buffer. In `Boot` a
sector is a page, and two images of different lengths overlap.

Fairness.

* `Firmware!FairSpec`: interrupts are taken (weak fairness of EINT3's and PWM1's
  steps) and the main loop goes on from wherever it is inside an operation. Only
  `eth_check_link` is called again and again, strongly fair because the
  timer table calls it every 100 ms whatever else the loop does. No client input is assumed.
* `PointStream!FairSpec`: the callback runs to its end, the network delivers, the
  client's TCP acknowledges, the DAC plays. The client need not send anything.
* `EtherdreamLib!FairSpec`: both threads are scheduled, and the application
  finishes calls it has begun. It need not make any.
* `StreamSession!FairSpec`: the worker runs, the network delivers, time passes and
  an e-stop is cleared; the application need not write. `KeepsPlaying` speaks of
  one that does.
* `FilePlayer!Spec`: the main loop polls, a due interrupt is taken, an e-stop is cleared.
* `Ethernet!FairSpec`: the loop polls (strongly, since the stack's own calls share
  its place), a transmission goes on, the EMAC sends. Nothing need arrive.
* `Dmx!FairSpec`: the timer and the main loop run. `StartBreak` outside a handler is
  strongly fair: the handler's two instructions do not meet every break.
* `Boot!FairSpec`: `main()` runs, and a host that was told to poll does.

`CHECK_DEADLOCK FALSE` appears where the system may stop: an application of the
library may be through and `etherdream_disconnect` may hang (`frames`, `session`,
`outside_frame`, where bounds also end a behaviour), and the file reader may panic (`fileplay`).

## 5. What is proved

By TLAPS, for all values of the constants that satisfy the named assumptions
(`RingAssumption`, `DataAssumption`, `OpsAssumption`; `SizeAssumption`, `CommandAssumption`;
`PlayerAssumption`, `FilesAssumption`, `CommandsAssumption`; `EthernetAssumption`;
`LibAssumption`; `SessionAssumption`; `DmxAssumption`; `BootAssumption`): any ring sizes, any points, files,
images and pages, any commands cut anywhere, any number of channels, any number of steps.

| theorem | module | statement |
|---|---|---|
| `TypeCorrect` | `FirmwareProofs` | `Spec => []TypeOK` |
| `ShutterSafe` | | `Spec => []ShutterGuard`, and truthfully reported; with or without link loss |
| `ControlSafe` | | without link loss: `IdleIsDark`, `EstopHolds`, `PlaysItsSource`, `NoPanic` |
| `StopReasonKept` | | without link loss: `StopReasonSticks` |
| `PointsPlayedInOrder` | | without link loss: `Spec => PlaysPointsInOrder`, the refinement of `PointPlayer` |
| `RatesTakenInOrder` | | without link loss: `Spec => RatesInOrder`, the refinement of `BoundedFifo` |
| `RatesFollowPoints` | | without link loss: `Spec => RateFollowsPoints` |
| `TypeCorrect` | `PointStreamProofs` | `Spec => []TypeOK` |
| `ParserInStep` | | `Spec => []InStep` |
| `PointsInOrder` | | `Spec => []RingInOrder` |
| `EachAnsweredOnce` | | `Spec => []AnsweredOnce` |
| `NothingAfterClose` | | `Spec => ClosedIsFinal` |
| `TypeCorrect` | `FilePlayerProofs` | `Spec => []TypeOK` |
| `KeepsThePace` | | `Spec => []PaceKept` |
| `ShowsFramesInOrder` | | `Spec => []FramesInOrder` |
| `TypeCorrect` | `EthernetProofs` | `Others <= 1`: `Spec => []TypeOK` |
| `LiveBuffers` | | `Others <= 1`: `Spec => []SendsLiveBuffers` |
| `ReceptionAlone` | | `Others <= 1`: `Spec => []ReceivesAlone` |
| `ReferencesHeld` | | `Others <= 1`: `Spec => []EveryReferenceHeld` |
| `PacketsInOrder` | | `Others <= 1`: `Spec => []HandedOverInOrder` |
| `TypeCorrect` | `StreamSessionProofs` | `Spec => []TypeOK` |
| `Balanced` | | `Spec => []BooksBalance` |
| `RoomAlways` | | `Spec => []RoomForAll` |
| `FrameSent` | | `Spec => []SendsTheFrameUndisturbed` |
| `LibTypeCorrect` | `EtherdreamLibProofs` | `Spec => []TypeOK` |
| `NeverTorn` | | `Spec => []NoTornFrame` |
| `FramesOrdered` | | `Spec => FramesInOrder` |
| `DmxTypeCorrect` | `DmxProofs` | `Spec => []TypeOK`, with line errors |
| `StartCodeSafe`, `BreakFirst` | | the start code is never overwritten; data only behind a break of its cycle |
| `RunningStays` | | `Spec => SteadyOnceRunning` |
| `ChangesSent` | | `Spec => []NoChangeLost` |
| `ChannelsInPlace` | | `LineErrors = FALSE`: a byte is stored at its channel |
| `BootTypeCorrect` | `BootProofs` | `Spec => []TypeOK` |
| `BootsWhole` | | `FileFails = FALSE`: `Spec => []BootsOnlyWhole` |
| `LoaderSafe` | | `HostWaits = TRUE`: `Spec => []LoaderIntact` |
| `Acknowledged` | | `HostWaits = TRUE`: `Spec => []AcknowledgedIsHandled` |
| `CompleteWhole` | | `HostWaits = TRUE`: `Spec => []CompleteDownloadIsWhole` |

Hardly any of the properties is inductive.

* The firmware's are strengthened by `ShutterInv` (no register about to be stored
  into `dac_flags` holds a `SHUTTER` that is out of date; `dac_prepare` works on an idle
  DAC to its end) and `ControlInv`, whose parts say what each place in the code may rely
  on: the counter is off from the reset in `dac_stop` on, what `dac_stop` loaded is
  current when it stores, an e-stop not yet in the state is still on its way. The
  last one is false under link loss, which is what `estop_race` shows.
* The two refinements rest on `ControlInv` and on `RingsInv`: `dac_prepare` leaves both
  rings empty before it publishes the state; what `dac_request` granted is still free
  when `dac_advance` publishes it, because the interrupt in between only makes room
  or stops the DAC; the slots behind a granted `produce` hold the packed points. The ring
  arithmetic is four lemmas on `RingContents` for any ring (`RingIsSeq`, `RingTake`,
  `RingPut`, `RingKeeps`); `StepKinds` sorts the firmware's steps by what they do to the
  queues, and each kind is a step of the abstract specification or leaves what it sees
  alone. The condition on the link is needed: lost just before the first store
  of `dac_start`, it stops the DAC, and the store then starts it again with the points
  of the stopped playback in the ring (`PlaysPointsInOrder` with `LinkLoss = TRUE`).
* The point stream's rest on `PlaceInv`. `EndOf` says of the bytes still to be parsed, kept,
  in the segment and on the wire together, that they are the end of what the client sent, which no
  cut of TCP changes; `InPlace` that the parser stands at the first byte of a command or
  of the point `pointsleft` names; `Short` that what it keeps is less than what it waits for,
  and hence less than the buffer. `EndOf` is closed under taking a prefix and under appending a
  command, the lemmas every branch of `recv_fsm` uses. A stream with an over-rate command may be `Astray` instead,
  and stays so: `InStep` sets it aside, `RingInOrder` need not. `AdvanceInv` says that what
  `dac_request` granted is still free at `dac_advance`; `RingInv` that the last point in the
  ring is before the next one to be parsed; `AnswersInv` that the commands before the
  current one have one answer each, wherever it is.
* The file player's rest on `RefillInv` (what `dac_request` promised is still free when the
  points come), `PaceInv` (inside a frame, what is left of it and of its repeats is
  the difference between `drift` and the offset computed at its header, so that they agree
  again at its end) and `OrderInv` (the point read next is the one after the ring's last, from
  memory or from the file; memory holds the frame's points up to the place reached).
  `FilesAssumption` says what a file is: headers, each followed by its points,
  cut short anywhere. The limit may change inside a frame: the lag is therefore bounded by half
  of some frame that was reached, not of the last one.
* The Ethernet driver's rest on `RingsInv` (the order of the indices around both rings), `ChainInv`
  (chains have two buffers; a link of a buffer in use belongs to TCP), `SlotsInv` (no
  buffer has two slots), `CallInv` (which fragments of the call in progress are written, and that
  the descriptors they go to are free), `RoomInv`, `RefInv` (each reference of a buffer counted
  once, as transmit slot, receive slot, fragment being written, caller or TCP) and `OrderInv`
  (packets received and not read are numbered from `handled` on). The room
  test alone does not give `CallInv`: `RoomInv` with the size of the ring does, since
  `NUM_TX_DESC = TCP_SND_QUEUELEN + 2`. That is why the theorems say `Others <= 1`; with two
  buffers of other protocols TLC finds the failure (section 6). The run has `Others = 1`.
* The library's need `RingInv` (the slot being filled is the one behind
  the full ones; a frame stays in the ring while it is sent and while the state is
  `RUNNING`) and `OrderInv` (full slots hold consecutive frames; the last frame
  begun is the first of them or the one before).
* The session's compare the host's books with what is under way, so they rest on sums and counts
  over sequences. `Total` is the number of cells below the graph of a sequence and `Count` the size of
  a set of indices; with that, what they are of a sequence with one more or one less element follows
  from bijections of finite sets, without induction over the sequence. `BooksInv` says the books never
  hold too little, and hold just enough until an answer is dropped; `FlightInv` that the data
  commands in `up` are the last ones in `ackbuf`. Both are about sums of the present; room is about the
  future: `Seen(k)` is the status the host will have after `k` more answers, `Unread(k)` what
  it will not have read answers to by then. `EstimateInv` says that, as long as the DAC is not
  idle, no such status with its unread points promises more room than there is, which is what
  `expected_fullness` relies on, and `StateInv` orders the states among those statuses: an idle
  one is followed by idle ones until a prepare, which is sent after the host has seen it and before
  anything else, because the worker waits there (471). `RoomInv` follows. The
  assumption that matters is `Target <= Capacity` (1700 and 1799). For `FrameSent`, `Calm`
  adds that the estimate is never more than the target: undisturbed, the DAC is idle in the host's eyes only
  before it is begun (`FreshInv`), it is begun once (`BeginInv`), and while it is prepared
  all statuses and unread points add up to one number (`SumInv`). A stop, a refusal or a deferred
  answer breaks each of these, and `outside_frame` shows where that leads. The
  theorems speak of behaviours whose ring of late acks is not overrun.
* DMX needs, for `RunningStays`, that what the handler has loaded is what is stored but
  for one match of the timer, and that the marks set by that match are of the present
  cycle; for `ChangesSent` the type invariant and the places of the handler suffice.
* The boot loader's rest on `HostInv`: a host that is told to go on finds `main()` in
  its wait, so that `current_block`, which is read twice, does not change while a block
  is handled. On it stand `BlockInv` and `LoaderInv` (a page of a block is never the
  loader's), `BufferInv` (the page under construction holds the image's blocks up to
  the last one handled) and `FlashInv` (all pages before that one hold the image,
  all pages behind it in the open sector are blank; the sector is opened when its first
  page is reached, and pages before it lie in other sectors). `FileInv` says that
  `app_is_ok` is true of the flash wherever `main()` decides.

Each proof has one step per action or group of actions; TLC checked each invariant on a
small instance first.

Model-checked only: everything temporal under fairness, which is out of the prover's
reach (`DrainsToIdle`, `LinkComesBack`, `AllIsParsed`, `WriterGetsRoom`,
`StoppedFrameEnds`, `KeepsPlaying`, `ReadIsPlayed`, `ScriptEnds`,
`ReceptionResumes`, `EnabledIsSent`, `ResetStartsApplication`).

## 6. Divergences

Two runs end in a violation: the code does not do what its comments or its header say.

| run | what happens |
|---|---|
| `estop_race` | The link is lost inside `dac_prepare` or `dac_start`: EINT3's `le_estop` stops the DAC, then the interrupted function stores its own state over it. The light engine is e-stopped and the DAC plays. |
| `outside_frame` | The host's estimate of the free room is negative when a stopped DAC's points and refused ones are both counted; the worker adds it to its index and sends points from before the frame. |

Others, seen while modelling. Where a model shows them, the change to a run is named.

Firmware, control:

* The link is lost inside `eth_check_link`, which then stores `LINK_UP` over
  `LINK_GOING_DOWN`: lwIP is never told (`network.c:140-156`; `INVARIANT LinkIsNoticed` in `link.cfg`).
* The same race as `estop_race`, one store later in `dac_start` (`dac.c:140-141`):
  the counter is enabled with `IRQ_DO_PANIC` and the next interrupt panics
  (`NoPanic` with `LinkLoss = TRUE`).
* `dac_set_rate` interrupted between MR0 and MR5 by a rate-change point leaves
  match values of two rates (`dac.c:106-110`).
* Colour delay: reducing it by more than one moves the pointers by one (`dac.c:333`), and
  `delay_line_reset` clears as many bytes as a pointer has (253), so that old colour
  samples are played after a restart.
* Neither the stream nor the file player asks whose turn it is (`point-stream.c:412`):
  two writers may interleave their points. A rate of 0 trips an assertion (239).

Point stream:

* A begin, update or queue command with too high a rate is refused after one byte;
  cut in two segments it trips an assertion (`InStep` and `AnsweredOnce` without `WithinRate`).
* A version query that meets a full send buffer closes the connection and returns a
  positive length; the commands behind it are executed (`ClosedIsFinal` without `NoVersionAsk`).
* A deferred answer is flushed only when more data arrives; a client that waits
  for it waits for ever (`point-stream.c:576`).
* No `tcp_err` callback is registered (592): a connection lwIP gives up keeps its `stream_conn_t`.

Host library:

* A finished frame stays in its slot and is sent once more when the next one arrives
  (`INVARIANT AtMostRepeats` in `frames.cfg` with `Repeats <- Once`, `MaxStarts = 2`).
* `ST_SHUTDOWN` is overwritten by `ST_READY`; the worker sleeps and the join never
  returns (`PROPERTY DisconnectReturns` in `frames.cfg`).
* The worker's last store and broadcast are made without the mutex
  (`etherdream.c:654-655`): an application between its test and its sleep is
  not woken. A write after that stores `ST_RUNNING` over `ST_SHUTDOWN` (770), and the
  failure is forgotten.
* The wait for the prepare's acknowledgement ignores errors (471): a worker whose
  connection breaks there never leaves.
* `etherdream_stop` with another frame in the ring goes on to that frame.
* An index below the frame decreases from call to call. The ring of 64 unanswered data
  commands has no check: many small frames overrun it, and the library then reports a
  protocol error. A finite frame shorter than the begin threshold is never begun (477).
  An answer to a prepare may overtake deferred ones of earlier commands; the books stay right.
* An answer the firmware drops (`point-stream.c:149-150`) stays in the books for ever: the library
  believes the buffer fuller than it is, and a later prepare, which waits for all of them
  (`etherdream.c:471`), waits without end (`BooksBalance` without `~lost`). With 22 answers in TCP and
  23 deferred it takes a host that reads none of them for long.
* The estimate subtracts the time since the last status even beyond the buffer that status
  reported (`etherdream.c:556-566`), so that after a long silence more than 1700 points
  are under way. If the DAC has run dry meanwhile it refuses them, and the next status,
  idle, makes the room negative: `SendsTheFrame` fails without a stop or a
  deferred answer (`session` with `SndMax = 8`, `MaxDelay = 4`), hence `refused` in `Undisturbed`.

File playback:

* A frame read in an unknown format is a panic (`ild-player.c:531`; `INVARIANT NoPanic` in
  `fileplay.cfg`): a header that fails half way may have stored its format.
* A read error leaves points already read for a prepared DAC unstarted. A failed
  `fplay_open` of a walk through the directory still sets `PLAYING`; the next read clears it.
* `/ilda/stop` in the same round as a play request not yet served has no effect on it;
  tab and reload overwrite it. A directory that cannot be read keeps the request for ever.
* Nothing selects `SRC_NETWORK` again; the flags for ILDA and the generator are one bit.
* An empty file with repeat loops; a frame of no points ends the file although others follow;
  the WAV reader takes a block to be 16 bytes; a script line of more than 40 bytes, without
  its newline or unmatched ends the script, and `autoplay.c:215` moves more bytes than are there.

Ethernet and DMX:

* The room test of a transmission counts what the EMAC consumed, not what
  `eth_tx_cleanup` gave back: it is safe because TCP queues at most `TCP_SND_QUEUELEN`
  buffers (`Others = 2` breaks `SendsLiveBuffers`). The branch for chains that are too
  long cannot be reached. `skub_init` would lose a word of slots for a pool of a multiple
  of 32; no pool has such a size.
* `dmx_in_dest_port == 0` is a comparison where an assignment was meant; a line error
  moves the rest of a frame by one channel; a failed `udp_sendto` is not tried again. The
  main loop's `|=` on the enabled universes can drop a mark the interrupt has just set, which
  costs one packet.

Boot loader:

* A short read of the update file leaves `main()` with what it found out before
  the flash was written (`FileFails = TRUE` breaks `BootsOnlyWhole`).
* `current_block` is read twice without a lock: a host that starts over after a bus reset
  while a block is handled can make it block -1 (`HostWaits = FALSE` breaks `LoaderIntact`).
* A download that starts over in the open sector is written without an erasure; that is
  why `CompleteDownloadIsWhole` speaks of downloads that began in a closed one.
* `DFU_CLRSTATUS` does not leave the error state and `DFU_DNLOAD` does not reset the last
  status: a host has to abort.

## 7. Not modelled

`PROJECT.json` lists every component with its status. Not modelled:

* OSC and status broadcast: one datagram at a time is parsed or written, with no state of
  their own; the handlers with state are actions of `FilePlayer` and `Dmx`.
* Beat clock: a phase accumulator that is only displayed.
* Fixed point, transform, colour delay and gain: arithmetic on one point at a time, in one context.
* Plugin commands of the point stream, the discovery thread of the library, the watchdog.
* Vendored code (lwIP but for `pbuf_free`, FatFs, CMSIS, LPCUSB, NXP drivers),
  register-level I/O (SD card, USB, serial, SPI set-up, EEPROM), formatting and
  logging, the PC build with its stubs, command-line players and test scripts.

They hold no order-dependent logic of the program's own, or are only reachable
through hardware.

## 8. Running

    tlc -config stream.cfg FirmwareMC          # control, stream, link, estop_race
    tlc -config segments.cfg PointStreamMC
    tlc -config frames.cfg EtherdreamLibMC
    tlc -config session.cfg StreamSessionMC    # session, outside_frame
    tlc -config fileplay.cfg FilePlayerMC
    tlc -config ethernet.cfg EthernetMC
    tlc -config dmx.cfg DmxMC
    tlc -config dfu.cfg BootMC
    tlapm FirmwareProofs.tla                   # PointStreamProofs, EtherdreamLibProofs, FilePlayerProofs,
                                               # StreamSessionProofs, EthernetProofs, DmxProofs, BootProofs

Operators whose comment begins with "Plausible bug" are mutated forms of the
operator they precede; `PROJECT.json` says which property each must break.
