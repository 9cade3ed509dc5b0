------------------------- MODULE PointStreamSafety -------------------------
(***************************************************************************)
(* The properties of the point stream protocol.                            *)
(***************************************************************************)
EXTENDS PointStream

(* The bytes the parser has still to look at, now or later.                *)
Ahead == Rest \o wire

(* An over-rate command is refused with one of its bytes taken, and a      *)
(* version query that finds the send buffer full closes the connection but *)
(* not the parsing: what the program does next is not the protocol's any   *)
(* more.  The properties below say what holds without them.                *)
WithinRate   == \A id \in DOMAIN sent : ~sent[id].over
NoVersionAsk == \A id \in DOMAIN sent : sent[id].op # "v"

(***************************************************************************)
(* Wherever TCP cuts the stream, the parser never loses its place: between *)
(* commands it looks at the first byte of one, inside a data command at    *)
(* the first byte of the point that pointsleft says is next.  None of the  *)
(* assertions of process_packet about the bytes it keeps fails.            *)
(***************************************************************************)
InStep ==
  conn = "open" /\ WithinRate =>
    /\ ~failed
    /\ IF st = "MAIN" THEN Ahead # <<>> => Head(Ahead)[2] = 1
       ELSE /\ Ahead # <<>>
            /\ LET u == sent[Head(Ahead)[1]] IN
                 /\ u.op = "d" /\ pointsleft \in 1 .. u.n
                 /\ Head(Ahead)[2]
                      = DataSize + (u.n - pointsleft) * PointSize + 1

(***************************************************************************)
(* Every command the parser is done with has been answered exactly once:   *)
(* the answer was given to TCP, waits in the deferred ring, or was dropped *)
(* there; a command not finished has no answer yet.                        *)
(***************************************************************************)
Answers == got \o defer \o dropped

Current == IF Ahead = <<>> THEN Len(sent) + 1 ELSE Head(Ahead)[1]

AnsweredOnce ==
  conn = "open" /\ WithinRate =>
    \A id \in 1 .. Len(sent) :
      Cardinality({k \in DOMAIN Answers : Answers[k].id = id})
        = IF id < Current THEN 1 ELSE 0

(***************************************************************************)
(* The ring holds the points of the data commands in the order they were   *)
(* sent, and within a command without a gap, although commands are cut at  *)
(* any byte, refused half way and raced by the interrupt.                  *)
(***************************************************************************)
Follows(a, b) == \/ b = <<a[1], a[2] + PointSize>>
                 \/ b[1] > a[1] /\ b[2] = DataSize + 1

RingInOrder ==
  \A k \in 1 .. Len(ring) - 1 : Follows(ring[k], ring[k + 1])

(***************************************************************************)
(* Once the connection is closed, by a command that is not known or by the *)
(* client, no more of its commands have an effect.                         *)
(***************************************************************************)
ClosedIsFinal ==
  [][conn = "closed" /\ NoVersionAsk =>
                        /\ UNCHANGED <<le, st, pointsleft>>
                        /\ dac' # dac => dac = "PLAYING" /\ ring = <<>>]_vars

(***************************************************************************)
(* Whatever is sent is parsed to its end: no cut of the stream leaves a    *)
(* whole command lying in the buffer.                                      *)
(***************************************************************************)
AllIsParsed == []<>(Ahead = <<>> \/ failed \/ conn = "closed")

-----------------------------------------------------------------------------
(* Why the safety properties hold: what the steps keep, in every state,    *)
(* over-rate commands and version queries included.                        *)

(* The bytes `a' are the end of what the commands `s' are made of: from    *)
(* any byte on, the rest of its command, then the first of the next.       *)
EndOf(s, a) ==
  \A i \in 1 .. Len(a) :
    LET id   == a[i][1]
        last == i + Size(s[id]) - a[i][2]
    IN /\ id \in 1 .. Len(s) /\ a[i][2] \in 1 .. Size(s[id])
       /\ last <= Len(a)
       /\ \A m \in i .. last : a[m] = <<id, a[i][2] + m - i>>
       /\ IF last < Len(a) THEN a[last + 1] = <<id + 1, 1>> ELSE id = Len(s)

(* The parser is where the protocol says.                                  *)
InPlace ==
  IF st = "MAIN" THEN Ahead # <<>> => Head(Ahead)[2] = 1
  ELSE /\ Ahead # <<>>
       /\ LET u == sent[Head(Ahead)[1]] IN
            /\ u.op = "d" /\ pointsleft \in 1 .. u.n
            /\ Head(Ahead)[2] = DataSize + (u.n - pointsleft) * PointSize + 1

(* The parser reads the rest of an over-rate command as commands.          *)
Astray ==
  /\ st = "MAIN" /\ Ahead # <<>>
  /\ Head(Ahead)[2] > 1 /\ sent[Head(Ahead)[1]].over
  /\ sent[Head(Ahead)[1]].op \in {"b", "u", "q"}

(* What is kept is less than what the parser waits for.                    *)
Short == buf # <<>> => Len(buf) < HeaderSize

(* The callback will not be called again.                                  *)
Ended == conn = "closed" /\ pc = "idle"

Place == EndOf(sent, Ahead) /\ Short /\ (InPlace \/ Astray)

PlaceInv ==
  /\ failed \/ Ended \/ Place
  /\ failed \/ (Astray /\ ~Ended) => ~WithinRate
  /\ conn = "closed" /\ NoVersionAsk => pc = "idle"
  /\ conn = "none" => sent = <<>>

(* Between dac_request and dac_advance.                                    *)
AdvanceInv ==
  pc = "advance" =>
    /\ st = "DATA" /\ seg # <<>> /\ chunk \in 1 .. pointsleft
    /\ chunk * PointSize <= Len(Rest)
    /\ dac # "IDLE" => Len(ring) + chunk <= Capacity

(* The last point in the ring is before the next one.                      *)
RingInv ==
  /\ RingInOrder
  /\ dac = "IDLE" => ring = <<>>
  /\ failed \/ Ended \/ ring = <<>> \/
       LET last == ring[Len(ring)] IN
         CASE st = "MAIN" -> last[1] < Current
           [] st = "DATA" -> Follows(last, Head(Ahead))
           [] OTHER -> last[1] <= Current

(* Every command before the current one, and the hello, is answered, and   *)
(* none twice.                                                             *)
OneEach(x, next) ==
  /\ \A k \in 1 .. Len(x) : x[k].id \in 0 .. next - 1
  /\ \A j, k \in 1 .. Len(x) : x[j].id = x[k].id => j = k
  /\ \A id \in 1 .. next - 1 : \E k \in 1 .. Len(x) : x[k].id = id

AnswersInv ==
  /\ conn = "open" /\ WithinRate => OneEach(Answers, Current)
  /\ conn = "none" => defer = <<>> /\ dropped = <<>>
=============================================================================
