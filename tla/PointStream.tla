----------------------------- MODULE PointStream -----------------------------
(***************************************************************************)
(* The point stream protocol of the Ether Dream firmware:                  *)
(* firmware/net/point-stream.c, one TCP connection from accept to close.   *)
(*                                                                         *)
(* A client sends commands; TCP delivers their bytes in segments cut at    *)
(* any place.  A byte is <<id, i>>, byte i of the id-th command, so that a *)
(* parser that loses its place shows.  Sizes are scaled down and keep      *)
(* their order: a point is the largest unit and fills the buffer.          *)
(*                                                                         *)
(* lwIP calls the parser from the main loop; PWM1 plays points between any *)
(* two of its steps, in particular between dac_request and dac_advance.    *)
(* The driver appears as far as the stream can see it: its state and the   *)
(* points in its ring.  The plugin commands I, P and D are left out.       *)
(***************************************************************************)
EXTENDS Integers, Sequences, FiniteSets

CONSTANTS
  PS_BUFFER_SIZE,       (* Bytes kept from one segment to the next, 18.      *)
  PointSize,            (* sizeof(struct dac_point), 18.                     *)
  BeginSize,            (* sizeof(struct begin_command), 7.                  *)
  QueueSize,            (* sizeof(struct queue_command), 5.                  *)
  DataSize,             (* sizeof(struct data_command), 3.                   *)
  PS_DEFERRED_ACK_MAX,  (* Slots of the ring of deferred answers, 24.        *)
  SndMax,               (* Answers TCP takes before tcp_write is ERR_MEM.    *)
  Capacity,             (* Points the DAC's ring holds.                      *)
  Commands,             (* What the client may send: [op, n, over].          *)
  MaxCommands           (* Bound: commands one connection sends.             *)

Sizes == {PointSize, BeginSize, QueueSize, DataSize}

ASSUME SizeAssumption ==
  /\ PS_BUFFER_SIZE \in Nat /\ Sizes \subseteq 2 .. PS_BUFFER_SIZE
  /\ PS_DEFERRED_ACK_MAX \in Nat \ {0} /\ SndMax \in Nat \ {0}
  /\ Capacity \in Nat \ {0} /\ MaxCommands \in Nat

(* b begin, u update, q queue a rate, d data, p prepare, s stop, e e-stop  *)
(* (0 or 0xFF), c clear, ? ping, v version, x anything the parser does not *)
(* know.  `n' is the number of points of a data command, `over' tells that *)
(* the point rate exceeds DAC_MAX_POINT_RATE.                              *)
Ops == {"b", "u", "q", "d", "p", "s", "e", "c", "?", "v", "x"}

ASSUME CommandAssumption ==
  Commands \subseteq [op : Ops, n : Nat, over : BOOLEAN]

VARIABLES
  sent, wire,        \* commands sent so far; their bytes still under way
  conn,              \* "none", "open" or "closed"
  st, pointsleft,    \* s->state, s->pointsleft
  buf,               \* s->buffer up to s->buffered
  seg,               \* the bytes of the current pbuf not yet looked at
  pc, chunk,         \* the callback's place; points it is about to advance by
  got,               \* answers given to TCP, in order
  unacked,           \* how many of them TCP still holds
  defer, dropped,    \* answers deferred; answers thrown away
  dac, ring,         \* dac_control.state; the points to be played
  le,                \* the light engine's state
  failed             \* an ASSERT has failed: the firmware has panicked

netVars    == <<sent, wire, conn>>
parserVars == <<st, pointsleft, buf, seg, pc, chunk>>
answerVars == <<got, unacked, defer, dropped>>
playVars   == <<dac, ring, le>>
vars       == <<netVars, parserVars, answerVars, playVars, failed>>

(* The client before may have left the DAC in any state.                   *)
Init ==
  /\ sent = <<>> /\ wire = <<>> /\ conn = "none"
  /\ st = "MAIN" /\ pointsleft = 0 /\ buf = <<>> /\ seg = <<>>
  /\ pc = "idle" /\ chunk = 0
  /\ got = <<>> /\ unacked = 0 /\ defer = <<>> /\ dropped = <<>>
  /\ dac \in {"IDLE", "PREPARED", "PLAYING"}
  /\ ring = <<>> /\ le = "READY" /\ failed = FALSE

Least(a, b) == IF a < b THEN a ELSE b
Drop(s, k)  == SubSeq(s, k + 1, Len(s))

-----------------------------------------------------------------------------
(* The client and the network.                                             *)

Size(u) ==
  CASE u.op \in {"b", "u"} -> BeginSize
    [] u.op = "q" -> QueueSize
    [] u.op = "d" -> DataSize + u.n * PointSize
    [] OTHER -> 1

(* ps_accept: a fresh stream_conn_t and a hello answer.                    *)
Accept ==
  /\ conn = "none" /\ conn' = "open"
  /\ got' = <<[id |-> 0, ok |-> TRUE]>> /\ unacked' = 1
  /\ UNCHANGED <<sent, wire, parserVars, defer, dropped, playVars, failed>>

Send(u) ==
  /\ conn = "open" /\ Len(sent) < MaxCommands
  /\ sent' = Append(sent, u)
  /\ wire' = wire \o [i \in 1 .. Size(u) |-> <<Len(sent) + 1, i>>]
  /\ UNCHANGED <<conn, parserVars, answerVars, playVars, failed>>

(* TCP delivers a pbuf with the next n bytes; chained pbufs come one by one*)
(* in one call of the callback.                                            *)
Deliver(n) ==
  /\ seg = <<>>
  /\ pc = "parse" \/ (conn = "open" /\ pc = "idle")
  /\ seg' = SubSeq(wire, 1, n) /\ wire' = Drop(wire, n) /\ pc' = "parse"
  /\ UNCHANGED <<sent, conn, st, pointsleft, buf, chunk, answerVars,
                 playVars, failed>>

(* The client closes after its last byte: the callback is given no pbuf.   *)
ClientClose ==
  /\ conn = "open" /\ pc = "idle" /\ wire = <<>> /\ conn' = "closed"
  /\ UNCHANGED <<sent, wire, parserVars, answerVars, playVars, failed>>

(* The client's TCP acknowledges; lwIP frees room in its send buffer.      *)
TcpAcked ==
  /\ pc = "idle" /\ unacked > 0 /\ unacked' \in 0 .. unacked - 1
  /\ UNCHANGED <<netVars, parserVars, got, defer, dropped, playVars, failed>>

-----------------------------------------------------------------------------
(* Answers.                                                                *)

(* Plausible bug: an answer TCP has no room for is forgotten.              *)
send_resp_forgets(id, ok) ==
  LET a == [id |-> id, ok |-> ok] IN
  \/ /\ conn = "open" /\ unacked < SndMax
     /\ got' = Append(got, a) /\ unacked' = unacked + 1
     /\ UNCHANGED <<defer, dropped>>
  \/ (conn = "closed" \/ unacked >= SndMax) /\ UNCHANGED answerVars

(* send_resp(): written to TCP, or deferred if TCP has no room, or dropped *)
(* if the ring of deferred answers is one short of full.  After close_conn *)
(* tcp_write fails and close_conn is called once more.                     *)
send_resp(id, ok) ==
  LET a == [id |-> id, ok |-> ok] IN
  \/ /\ conn = "open" /\ unacked < SndMax
     /\ got' = Append(got, a) /\ unacked' = unacked + 1
     /\ UNCHANGED <<defer, dropped>>
  \/ /\ conn = "open" /\ unacked >= SndMax
     /\ Len(defer) < PS_DEFERRED_ACK_MAX - 1
     /\ defer' = Append(defer, a) /\ UNCHANGED <<got, unacked, dropped>>
  \/ /\ conn = "open" /\ unacked >= SndMax
     /\ Len(defer) >= PS_DEFERRED_ACK_MAX - 1
     /\ dropped' = Append(dropped, a) /\ UNCHANGED <<got, unacked, defer>>
  \/ conn = "closed" /\ UNCHANGED answerVars

(* ps_send_deferred_acks() at the end of the callback, for want of room    *)
(* perhaps not all of them; then the callback returns.                     *)
Flush ==
  /\ pc = "parse" /\ seg = <<>> /\ pc' = "idle"
  /\ LET n == IF conn = "open" THEN Least(SndMax - unacked, Len(defer)) ELSE 0
     IN /\ got' = got \o SubSeq(defer, 1, n) /\ defer' = Drop(defer, n)
        /\ unacked' = unacked + n
  /\ UNCHANGED <<netVars, st, pointsleft, buf, seg, chunk, dropped, playVars,
                 failed>>

-----------------------------------------------------------------------------
(* process_packet hands recv_fsm a window: the rest of the pbuf, or the    *)
(* buffered bytes topped up from it.                                       *)

Parsing == pc = "parse" /\ seg # <<>>
Rest    == buf \o seg
Window  == IF buf = <<>> THEN seg
           ELSE SubSeq(Rest, 1, Least(PS_BUFFER_SIZE, Len(Rest)))
Front   == Head(Window)
Unit    == sent[Front[1]]

(* The command a byte stands for: a first byte its own, the low water mark *)
(* of begin and update, always 0, an e-stop; the others none.              *)
Cmd == CASE Front[2] = 1 -> Unit.op
         [] Front[2] = 2 /\ Unit.op \in {"b", "u"} -> "e"
         [] OTHER -> "x"

(* recv_fsm returns k > 0: what is left of the pbuf starts after them.     *)
(* ASSERT(fsar > s->buffered) in process_packet.                           *)
Took(k) ==
  /\ seg' = Drop(Rest, k) /\ buf' = <<>> /\ failed' = (k <= Len(buf))

(* recv_fsm returns 0: the bytes are kept for the next pbuf.               *)
(* ASSERT(data_left < PS_BUFFER_SIZE), or ASSERT_EQUAL(data_left, more).   *)
NeedMore ==
  /\ buf' = Rest /\ seg' = <<>>
  /\ failed' = IF buf = <<>> THEN Len(seg) >= PS_BUFFER_SIZE ELSE Window # Rest

Reply(ok, k) == send_resp(Front[1], ok) /\ Took(k)

HeaderSize == IF st # "MAIN" THEN PointSize
              ELSE CASE Cmd \in {"b", "u"} -> BeginSize
                     [] Cmd = "q" -> QueueSize
                     [] Cmd = "d" -> DataSize
                     [] OTHER -> 1

(* Plausible bug: a header whose last byte is missing is taken for whole.  *)
RecvShort_off_by_one ==
  /\ Parsing /\ Len(Window) + 1 < HeaderSize /\ NeedMore
  /\ UNCHANGED <<netVars, st, pointsleft, pc, chunk, answerVars, playVars>>

RecvShort ==
  /\ Parsing /\ Len(Window) < HeaderSize /\ NeedMore
  /\ UNCHANGED <<netVars, st, pointsleft, pc, chunk, answerVars, playVars>>

-----------------------------------------------------------------------------
(* recv_fsm in state MAIN.                                                 *)

Command(op) ==
  /\ Parsing /\ st = "MAIN" /\ Cmd = op /\ Len(Window) >= HeaderSize
  /\ UNCHANGED <<sent, wire, chunk>>

MainNext == UNCHANGED <<conn, st, pointsleft, pc>>

RecvPrepare ==
  /\ Command("p") /\ MainNext /\ UNCHANGED le
  /\ \/ /\ dac = "IDLE" /\ le = "READY"
        /\ dac' = "PREPARED" /\ ring' = <<>> /\ Reply(TRUE, 1)
     \/ /\ ~(dac = "IDLE" /\ le = "READY")
        /\ UNCHANGED <<dac, ring>> /\ Reply(FALSE, 1)

(* A rate above DAC_MAX_POINT_RATE: the answer takes one byte of the       *)
(* command.                                                                *)
RecvOverRate ==
  /\ (\E op \in {"b", "u", "q"} : Command(op)) /\ Unit.over
  /\ MainNext /\ UNCHANGED playVars /\ Reply(FALSE, 1)

RecvBegin ==
  /\ Command("b") /\ ~Unit.over /\ MainNext /\ UNCHANGED <<ring, le>>
  /\ dac' = IF dac = "PREPARED" THEN "PLAYING" ELSE dac
  /\ Reply(TRUE, BeginSize)

RecvUpdate ==
  /\ Command("u") /\ ~Unit.over /\ MainNext /\ UNCHANGED playVars
  /\ Reply(TRUE, BeginSize)

(* Plausible bug: the queue command is given the size of a begin command.  *)
RecvQueue_wrong_size ==
  /\ Command("q") /\ ~Unit.over /\ MainNext /\ UNCHANGED playVars
  /\ Reply(TRUE, BeginSize)

RecvQueue ==
  /\ Command("q") /\ ~Unit.over /\ MainNext /\ UNCHANGED playVars
  /\ Reply(TRUE, QueueSize)

(* Data: answered at once if there are no points, after the last otherwise.*)
RecvData ==
  /\ Command("d") /\ UNCHANGED <<conn, pc, playVars>>
  /\ \/ /\ Unit.n > 0 /\ st' = "DATA" /\ pointsleft' = Unit.n
        /\ Took(DataSize) /\ UNCHANGED answerVars
     \/ Unit.n = 0 /\ UNCHANGED <<st, pointsleft>> /\ Reply(TRUE, DataSize)

RecvStop ==
  /\ Command("s") /\ MainNext /\ UNCHANGED le
  /\ dac' = "IDLE" /\ ring' = <<>> /\ Reply(dac # "IDLE", 1)

RecvEstop ==
  /\ Command("e") /\ MainNext
  /\ le' = "ESTOP" /\ dac' = "IDLE" /\ ring' = <<>> /\ Reply(TRUE, 1)

RecvClear ==
  /\ Command("c") /\ MainNext /\ UNCHANGED <<dac, ring>>
  /\ le' = "READY" /\ Reply(TRUE, 1)

RecvPing == Command("?") /\ MainNext /\ UNCHANGED playVars /\ Reply(TRUE, 1)

(* The version cannot be deferred: without room the connection is closed,  *)
(* and yet a positive length returned.                                     *)
RecvVersion ==
  /\ Command("v") /\ UNCHANGED <<st, pointsleft, pc, playVars>> /\ Took(1)
  /\ \/ conn = "open" /\ unacked < SndMax /\ send_resp(Front[1], TRUE)
        /\ UNCHANGED conn
     \/ ~(conn = "open" /\ unacked < SndMax)
        /\ conn' = "closed" /\ UNCHANGED answerVars

(* Plausible bug: an unknown command closes the connection and goes on.    *)
RecvUnknown_goes_on ==
  /\ Command("x") /\ conn' = "closed" /\ Took(1)
  /\ UNCHANGED <<st, pointsleft, pc, answerVars, playVars>>

(* close_conn and return -1: the rest of the pbuf is thrown away.          *)
RecvUnknown ==
  /\ Command("x") /\ conn' = "closed" /\ seg' = <<>> /\ pc' = "idle"
  /\ UNCHANGED <<st, pointsleft, buf, answerVars, playVars, failed>>

RecvMain ==
  \/ RecvPrepare \/ RecvOverRate \/ RecvBegin \/ RecvUpdate \/ RecvQueue
  \/ RecvData \/ RecvStop \/ RecvEstop \/ RecvClear \/ RecvPing
  \/ RecvVersion \/ RecvUnknown

-----------------------------------------------------------------------------
(* recv_fsm in states DATA and DATA_ABORTING.                              *)

npoints == Least(Len(Window) \div PointSize, pointsleft)
Room    == IF dac = "IDLE" THEN 0 ELSE Capacity - Len(ring)

(* dac_request() offers contiguous room, any part of what there is.        *)
DataRequest ==
  /\ Parsing /\ st = "DATA" /\ Len(Window) >= PointSize
  /\ chunk' \in 1 .. Least(npoints, Room) /\ pc' = "advance"
  /\ UNCHANGED <<netVars, st, pointsleft, buf, seg, answerVars, playVars,
                 failed>>

(* n points of the command are done with; the last one brings the answer.  *)
PointsDone(n, ok, next) ==
  /\ pointsleft' = pointsleft - n /\ Took(n * PointSize)
  /\ IF n = pointsleft THEN st' = "MAIN" /\ send_resp(Front[1], ok)
     ELSE st' = next /\ UNCHANGED answerVars

(* The points are packed and dac_advance() called, which does nothing if   *)
(* the DAC has stopped since dac_request().                                *)
DataAdvance ==
  /\ pc = "advance" /\ pc' = "parse" /\ chunk' = 0
  /\ ring' = IF dac = "IDLE" THEN ring
             ELSE ring \o [k \in 1 .. chunk |-> Rest[(k - 1) * PointSize + 1]]
  /\ PointsDone(chunk, TRUE, "DATA")
  /\ UNCHANGED <<netVars, dac, le>>

(* Plausible bug: after a refusal the rest is offered to the DAC again.    *)
DataSkip_resumes ==
  /\ Parsing /\ Len(Window) >= PointSize
  /\ st = "DATA" /\ Room = 0
  /\ PointsDone(npoints, FALSE, "DATA")
  /\ UNCHANGED <<netVars, pc, chunk, playVars>>

(* No room or no DAC: the rest of the command is skipped and NAKed.        *)
DataSkip ==
  /\ Parsing /\ Len(Window) >= PointSize
  /\ st = "DATA_ABORTING" \/ (st = "DATA" /\ Room = 0)
  /\ PointsDone(npoints, FALSE, "DATA_ABORTING")
  /\ UNCHANGED <<netVars, pc, chunk, playVars>>

-----------------------------------------------------------------------------
(* The PWM1 interrupt as the stream sees it.                               *)

Play ==
  /\ dac = "PLAYING"
  /\ \/ ring # <<>> /\ ring' = Tail(ring) /\ UNCHANGED dac
     \/ ring = <<>> /\ dac' = "IDLE" /\ UNCHANGED ring
  /\ UNCHANGED <<netVars, parserVars, answerVars, le, failed>>

Callback == RecvShort \/ RecvMain \/ DataRequest \/ DataAdvance \/ DataSkip
            \/ Flush

DeliverSome == \E n \in 1 .. Len(wire) : Deliver(n)

FirmwareStep == ~failed /\ (DeliverSome \/ Callback \/ Play \/ TcpAcked)
Client       == (\E u \in Commands : Send(u)) \/ ClientClose

(* The client has nothing to send, or there is nobody to send it to.       *)
Quiet == (failed \/ conn = "closed" \/ Len(sent) = MaxCommands)
         /\ UNCHANGED vars

Next == Accept \/ Client \/ FirmwareStep \/ Quiet

Spec == Init /\ [][Next]_vars

(* The main loop goes on polling, the network delivers.                    *)
FairSpec ==
  /\ Spec
  /\ WF_vars(~failed /\ Callback) /\ WF_vars(~failed /\ DeliverSome)
  /\ WF_vars(~failed /\ TcpAcked) /\ WF_vars(~failed /\ Play)

-----------------------------------------------------------------------------
Byte   == Nat \X Nat
Answer == [id : Nat, ok : BOOLEAN]

TypeOK ==
  /\ sent \in Seq(Commands) /\ conn \in {"none", "open", "closed"}
  /\ wire \in Seq(Byte) /\ seg \in Seq(Byte)
  /\ st \in {"MAIN", "DATA", "DATA_ABORTING"} /\ pointsleft \in Nat
  /\ buf \in Seq(Byte) /\ Len(buf) <= PS_BUFFER_SIZE
  /\ pc \in {"idle", "parse", "advance"} /\ chunk \in 0 .. Capacity
  /\ got \in Seq(Answer) /\ unacked \in 0 .. SndMax
  /\ defer \in Seq(Answer) /\ Len(defer) < PS_DEFERRED_ACK_MAX
  /\ dropped \in Seq(Answer)
  /\ dac \in {"IDLE", "PREPARED", "PLAYING"}
  /\ ring \in Seq(Byte) /\ Len(ring) <= Capacity
  /\ le \in {"READY", "ESTOP"} /\ failed \in BOOLEAN
=============================================================================
