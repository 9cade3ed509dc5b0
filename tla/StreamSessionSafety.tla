------------------------- MODULE StreamSessionSafety -------------------------
(* What a stream of the host library promises, with the answers of the     *)
(* firmware late, out of order and out of date.                            *)
EXTENDS StreamSession, FiniteSets

DacStates == {"IDLE", "PREPARED", "PLAYING"}
Statuses  == [state : DacStates, full : 0 .. Capacity]
Meta      == {"p", "b", "q"}
AnswersTo(cmds) == [cmd : cmds, status : Statuses]
DataSegments    == [cmds : {<<"q", "d">>}, n : 1 .. Chunk, acked : Nat]
OtherSegments   == [cmds : {<<"p">>, <<"b">>}, n : {0}, acked : Nat]

(* How many of a sequence are in a set; the sum of a sequence of numbers;  *)
(* a sequence without its first k.                                         *)
Count(s, set) == Cardinality({i \in DOMAIN s : s[i] \in set})
Total(s)      == Cardinality(UNION {{i} \X (1 .. s[i]) : i \in DOMAIN s})
Drop(s, k)    == SubSeq(s, k + 1, Len(s))

(* Points in segments that the DAC has not looked at yet, and answers that *)
(* such segments acknowledge.                                              *)
InFlight == Total([i \in DOMAIN up |-> up[i].n])
InAcks   == Total([i \in DOMAIN up |-> up[i].acked])

(* Types, and the books of TCP: it holds what is under way, what waits to  *)
(* be acknowledged and what segments under way acknowledge.                *)
TypeOK ==
  /\ pc \in {"idle", "top", "prepared", "acks", "wait"}
  /\ n \in Int /\ n <= Chunk /\ idx \in Int /\ points \in FrameSizes \union {0}
  /\ status \in Statuses /\ elapsed \in 0 .. MaxDelay
  /\ unacked_points \in Int /\ ackbuf \in Seq(1 .. Chunk)
  /\ pending_meta_acks \in Nat /\ dc_begin_sent \in BOOLEAN
  /\ up \in Seq(DataSegments \union OtherSegments)
  /\ down \in Seq(AnswersTo(Meta \union {"d"})) /\ arrived \in 0 .. Len(down)
  /\ toAck \in Nat /\ snd \in 0 .. SndMax
  /\ snd = Len(down) - arrived + toAck + InAcks
  /\ dac \in DacStates /\ fullness \in 0 .. Capacity /\ ready \in BOOLEAN
  /\ estops \in Nat /\ defer \in Seq(Meta \union {"d"}) /\ Len(defer) <= DeferMax
  /\ {late, lost, refused} \subseteq BOOLEAN

(* However late, early or out of order the answers are, and though some    *)
(* are dropped, the DAC has room for every point under way, so that none   *)
(* is dropped from a picture.                                              *)
RoomForAll == dac # "IDLE" => fullness + InFlight <= Target

(* Answers that are still to be read, to commands with points and others.  *)
DataComing == Count(down, AnswersTo({"d"})) + Count(defer, {"d"})
              + Count(up, DataSegments)
MetaComing == Count(down, AnswersTo(Meta)) + Count(defer, Meta) + Len(up)

(* The books of the host balance: what it waits for is what will come, and *)
(* the points it counts are those of the data commands among it, whatever  *)
(* order the answers come in, until the firmware drops one.                *)
BooksBalance ==
  ~lost => /\ unacked_points = Total(ackbuf)
           /\ Len(ackbuf) = DataComing
           /\ pending_meta_acks = MetaComing

(* The points that are sent are points of the frame.                       *)
SendsTheFrame == pc # "idle" => idx \in 0 .. points - 1

(* They are, until an answer is deferred or the DAC refuses points or is   *)
(* stopped from outside: then a buffer that is not played any more and     *)
(* points that were refused are both counted.                              *)
Undisturbed == ~late /\ ~refused /\ estops = 0

SendsTheFrameUndisturbed == Undisturbed => SendsTheFrame

(* An application that goes on writing is played: whenever the DAC runs    *)
(* dry or is stopped it is prepared and begun again, if only no answer is  *)
(* deferred and the worker has not left the frame.                         *)
KeepsPlaying ==
  []<>(pc = "top") /\ [](~late /\ idx >= 0) => []<>(dac = "PLAYING")

-----------------------------------------------------------------------------
(* Why the safety properties hold.  The k-th status from now that the host *)
(* will have seen, and the data commands it will not have read answers to  *)
(* by then.                                                                *)
Seen(k)   == IF k = 0 THEN status ELSE down[k].status
Unread(k) == Drop(ackbuf, Count(SubSeq(down, 1, k), AnswersTo({"d"})))
Known     == 0 .. Len(down)

(* Answers that are dropped leave too much in the books, never too little. *)
BooksInv ==
  /\ unacked_points = Total(ackbuf)
  /\ Len(ackbuf) >= DataComing /\ pending_meta_acks >= MetaComing
  /\ ~lost => Len(ackbuf) = DataComing /\ pending_meta_acks = MetaComing
  /\ lost => late

(* The data commands under way are the last ones in the books.             *)
FlightInv ==
  /\ InFlight = Total(Drop(ackbuf, Len(ackbuf) - Count(up, DataSegments)))
  /\ \A i \in DOMAIN up : up[i] \in DataSegments =>
       up[i].n = ackbuf[Len(ackbuf) + 1 - Count(Drop(up, i - 1), DataSegments)]

(* A DAC that is idle stays so until it is prepared, and it is prepared    *)
(* only after the host has seen that it is idle, and waited for the answer.*)
IdleFrom(j) ==
  \A k \in j .. Len(down) : Seen(k).state = "IDLE" =>
    dac = "IDLE" /\ \A l \in k .. Len(down) : Seen(l).state = "IDLE"

Preparing == \E i \in DOMAIN up : up[i].cmds = <<"p">>

StateInv ==
  /\ \A k \in Known : Seen(k).state = "PLAYING" =>
       dac # "PREPARED" /\ \A l \in k .. Len(down) : Seen(l).state # "PREPARED"
  /\ \A i \in DOMAIN up : up[i].cmds = <<"p">> =>
       /\ pc = "prepared" /\ i = Len(up) /\ dac = "IDLE"
       /\ \A k \in Known : Seen(k).state = "IDLE"
  /\ IF pc # "prepared" THEN IdleFrom(0)
     ELSE \A k \in Known :
            pending_meta_acks = Count(SubSeq(down, 1, k), AnswersTo(Meta))
              => IdleFrom(k)

(* Whatever status the host goes by, the DAC does not hold more than that  *)
(* says and the points it then has not read answers to.                    *)
Played(k) == IF k = 0 /\ status.state = "PLAYING" THEN elapsed ELSE 0
EstimateInv ==
  dac # "IDLE" => \A k \in Known :
    fullness + InFlight + Played(k) <= Seen(k).full + Total(Unread(k))

RoomInv ==
  /\ RoomForAll
  /\ pc \in {"prepared", "acks"} /\ n > 0 =>
       /\ dac # "IDLE" => fullness + InFlight + n <= Target
       /\ Preparing => n <= Target

Begins == {i \in DOMAIN up : up[i].cmds = <<"b">>}

(* Before it is begun, as seen from the host: nothing is in the DAC; if it *)
(* was not prepared, what is under way will be refused.                    *)
Fresh ==
  /\ fullness = 0 /\ dac # "PLAYING" /\ Begins = {}
  /\ \A k \in Known : Seen(k).full = 0 /\ Seen(k).state # "PLAYING"
  /\ Count(down, AnswersTo({"d"})) = 0
  /\ IF dac = "IDLE" THEN \A k \in Known : Seen(k).state = "IDLE"
     ELSE ackbuf = <<>>
  /\ Total(ackbuf) + (IF pc \in {"prepared", "acks"} THEN n ELSE 0) <= Target

(* While it is prepared, every status and what is unread at it add up to   *)
(* the same number of points.                                              *)
Sum(k) == Seen(k).full + Total(Unread(k))
Prepared == {k \in Known : Seen(k).state = "PREPARED"}

(* Undisturbed, a DAC is idle as the host sees it only before it was begun,*)
(* and that is done once.                                                  *)
FreshInv ==
  /\ \A k \in Known : Seen(k).state = "IDLE" =>
       Fresh /\ \A l \in 0 .. k : Seen(l).state = "IDLE"
  /\ pc = "prepared" => Fresh

BeginInv ==
  /\ Begins # {} => dc_begin_sent /\ dac = "PREPARED"
  /\ \A i, j \in Begins : i = j
  /\ status.state # "IDLE" /\ dac # "PREPARED" => dc_begin_sent

SumInv ==
  \A k \in Prepared :
    /\ \A l \in Prepared : Sum(k) = Sum(l)
    /\ dac = "PREPARED" => Sum(k) = fullness + InFlight
    /\ Sum(k) <= Target
    /\ pc \in {"prepared", "acks"} => Sum(k) + n <= Target

FrameInv ==
  IF pc = "idle" THEN idx = 0
  ELSE /\ points > 0 /\ idx \in 0 .. points - 1
       /\ pc \in {"prepared", "acks"} => n >= 0 /\ idx + n <= points

Calm == defer = <<>> /\ FreshInv /\ BeginInv /\ SumInv /\ FrameInv

UndisturbedInv == Undisturbed => Calm

IInv == /\ TypeOK /\ BooksInv /\ FlightInv /\ StateInv /\ EstimateInv
        /\ RoomInv /\ UndisturbedInv

=============================================================================
