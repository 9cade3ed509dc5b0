-------------------------- MODULE FilePlayerProofs --------------------------
(***************************************************************************)
(* The file player shows whole frames in their order and keeps the pace    *)
(* it was asked for, whatever is on the card, whatever is commanded and    *)
(* however long the ring is.                                               *)
(*                                                                         *)
(* Every step of the system is one of a few as far as the reader and the   *)
(* ring are concerned (StepKinds); each invariant is then shown once for   *)
(* each of them.                                                           *)
(***************************************************************************)
EXTENDS FilePlayerSafety, SequenceTheorems, TLAPS

-----------------------------------------------------------------------------
(* Arithmetic and sequences.                                               *)

LEMMA MinOfThree ==
  ASSUME NEW a \in Int, NEW b \in Int, NEW c \in Int
  PROVE  /\ Min({a, b, c}) \in {a, b, c}
         /\ Min({a, b, c}) <= a /\ Min({a, b, c}) <= b /\ Min({a, b, c}) <= c
<1>1. \E x \in {a, b, c} : \A y \in {a, b, c} : x <= y
  BY SMT
<1>2. QED
  BY <1>1 DEF Min

(* The index a reader's distance behind the writer.                        *)
LEMMA BehindMod ==
  ASSUME NEW size \in Nat \ {0}, NEW p \in 0 .. size - 1, NEW n \in 0 .. size - 1
  PROVE  (p - n) % size = IF n <= p THEN p - n ELSE p - n + size
<1>1. CASE n <= p
  BY <1>1, SMT
<1>2. CASE ~(n <= p)
  <2>1. p - n + size \in 0 .. size - 1
    BY <1>2, SMT
  <2>2. p - n = (-1) * size + (p - n + size)
    BY SMT
  <2>3. QED
    BY <1>2, <2>1, <2>2, SMT
<1>3. QED
  BY <1>1, <1>2

(* The room that dac_request reports is what the ring has left.            *)
LEMMA RoomInRing ==
  ASSUME TypeOK, dac # "IDLE"
  PROVE  /\ dac_request \in 0 .. DAC_BUFFER_POINTS
         /\ dac_request + Len(ring) < DAC_BUFFER_POINTS
<1>1. /\ DAC_BUFFER_POINTS \in Nat \ {0} /\ produce \in 0 .. DAC_BUFFER_POINTS - 1
      /\ Len(ring) \in 0 .. DAC_BUFFER_POINTS - 1
  BY PlayerAssumption, LenProperties DEF TypeOK
<1>2. Consume = IF Len(ring) <= produce THEN produce - Len(ring)
                ELSE produce - Len(ring) + DAC_BUFFER_POINTS
  BY <1>1, BehindMod DEF Consume
<1>3. QED
  BY <1>1, <1>2, SMT DEF dac_request

(* What lies between two neighbours of a sequence that is continued.       *)
LEMMA Joined ==
  ASSUME NEW S, NEW s \in Seq(S), NEW t \in Seq(S)
  PROVE  /\ s \o t \in Seq(S) /\ Len(s \o t) = Len(s) + Len(t)
         /\ \A i \in 1 .. Len(s) : (s \o t)[i] = s[i]
         /\ \A i \in 1 .. Len(t) : (s \o t)[Len(s) + i] = t[i]
         /\ t # <<>> => Last(s \o t) = Last(t) /\ s \o t # <<>>
<1>1. /\ s \o t \in Seq(S) /\ Len(s \o t) = Len(s) + Len(t)
      /\ Len(s) \in Nat /\ Len(t) \in Nat
      /\ \A i \in 1 .. Len(s) + Len(t) :
           (s \o t)[i] = IF i <= Len(s) THEN s[i] ELSE t[i - Len(s)]
  BY ConcatProperties, LenProperties
<1>2. t # <<>> => Len(t) > 0
  BY <1>1, EmptySeq
<1>3. t # <<>> => s \o t # <<>>
  BY <1>1, <1>2, EmptySeq
<1>4. QED
  BY <1>1, <1>2, <1>3, SMT DEF Last

-----------------------------------------------------------------------------
(* The kinds of steps.                                                     *)

(* The reader is left alone, and does not come to life.                    *)
Quiet == fileKept /\ (Live' => Live)

(* A file is opened or started again; an open fails.                       *)
Opened == file' \in 1 .. Len(Files) /\ ilda_reset_file(file')
Closed == /\ file' = None
          /\ UNCHANGED <<fptr, fplay_state, fplay_points_left, fplay_repeat_count,
                         fplay_offset, fplay_frame_start, pointcount, small,
                         drift>>

(* Nothing comes to the ring.                                              *)
NoPoints == \/ ring' = ring \/ ring' = <<>>
            \/ ring # <<>> /\ ring' = Tail(ring)

NoRead == (Quiet \/ Opened \/ Closed) /\ NoPoints

(* What a command does to the DAC: nothing, or it empties the ring.        *)
DacReset == /\ dac' \in {"IDLE", "PREPARED", "PLAYING"}
            /\ ring' = <<>> /\ produce' = 0

LEMMA OpenResult ==
  ASSUME NEW f \in 0 .. Len(Files), NEW ok \in Opens(f), fplay_open(f, ok)
  PROVE  ok \in BOOLEAN /\ IF ok THEN Opened ELSE Closed
<1>1. ok \in BOOLEAN /\ (ok => f # None)
  BY PlayerAssumption DEF Opens
<1>2. Len(Files) \in Nat
  BY FilesAssumption, LenProperties
<1>3. CASE ok
  BY <1>1, <1>2, <1>3 DEF fplay_open, Opened, ilda_reset_file, None
<1>4. CASE ~ok
  BY <1>1, <1>4 DEF fplay_open, Closed
<1>5. QED
  BY <1>1, <1>3, <1>4

(* A command changes the reader only by opening a file, and the ring only  *)
(* by emptying it.                                                         *)
LEMMA CommandKinds ==
  ASSUME TypeOK, NEW c, IsCommand(c), Execute(c)
  PROVE  /\ Quiet \/ Opened \/ Closed
         /\ src' \in {"NETWORK", "ILDAPLAYER", "ABSTRACT"}
         /\ playing' \in BOOLEAN /\ repeat' \in BOOLEAN
         /\ ppf' \in Int /\ request' \in Nat \cup {-1}
         /\ UNCHANGED dacVars \/ DacReset
<1> USE DEF Quiet, Live, fileKept, fileVars, srcVars, dacVars, DacReset,
            AllKept, Kept, SetSource, Stopped
<1>1. CASE c.op = "play" /\ ilda_play(c.arg)
  BY <1>1 DEF ilda_play, TypeOK, IsCommand
<1>2. CASE c.op = "playfn" /\ ilda_play_fn(c.arg)
  <2>1. c.arg \in 0 .. Len(Files)
    BY <1>2 DEF IsCommand
  <2>2. CASE SourceRefused
    BY <1>2, <2>2 DEF ilda_play_fn, TypeOK
  <2>3. CASE ~SourceRefused
    <3>1. PICK ok \in Opens(c.arg) :
            /\ SetSource("ILDAPLAYER", ok \/ Kept(playing), Kept(repeat))
            /\ fplay_open(c.arg, ok)
            /\ UNCHANGED <<request, ppf>>
      BY <1>2, <2>3 DEF ilda_play_fn
    <3>2. ok \in BOOLEAN /\ (Opened \/ Closed)
      BY <2>1, <3>1, OpenResult
    <3>3. QED
      BY <3>1, <3>2 DEF TypeOK
  <2>4. QED
    BY <2>2, <2>3
<1>3. CASE c.op = "repeat" /\ ilda_repeat(c.arg)
  BY <1>3 DEF ilda_repeat, TypeOK, IsCommand
<1>4. CASE c.op = "tab" /\ ilda_tab_enter
  BY <1>4 DEF ilda_tab_enter, TypeOK
<1>5. CASE c.op = "reload" /\ ilda_reload
  BY <1>5 DEF ilda_reload, TypeOK
<1>6. CASE c.op = "stop" /\ ilda_stop
  BY <1>6 DEF ilda_stop, TypeOK
<1>7. CASE c.op = "fps" /\ ilda_fps(c.arg)
  BY <1>7 DEF ilda_fps, TypeOK, IsCommand
<1>8. CASE c.op = "conf" /\ abstract_conf
  BY <1>8 DEF abstract_conf, TypeOK
<1>9. QED
  BY <1>1, <1>2, <1>3, <1>4, <1>5, <1>6, <1>7, <1>8 DEF Execute

(* Nor do the other polls, the interrupt, the stop and a stream.           *)
LEMMA StepKinds ==
  ASSUME TypeOK, [Next]_vars
  PROVE  NoRead \/ RefillHeader \/ RefillFails \/ RefillPoints
<1> USE DEF Quiet, Live, fileKept, fileVars, srcVars, dacVars, oscVars, autoVars,
            NoRead, NoPoints, Stopped
<1>1. CASE UNCHANGED vars
  BY <1>1 DEF vars
<1>2. ASSUME NEW c, Execute(c), IsCommand(c)
      PROVE  NoRead
  BY <1>2, CommandKinds DEF DacReset
<1>3. CASE autoplay_poll
  <2>1. CASE AutoplayWaits \/ AutoplayEnds
    BY <2>1 DEF AutoplayWaits, AutoplayEnds
  <2>2. CASE AutoplayLine
    <3>1. NextLine # BadLine /\ Execute(NextLine)
      BY <2>2 DEF AutoplayLine
    <3>2. IsCommand(NextLine)
      BY <3>1, CommandsAssumption DEF NextLine, TypeOK
    <3>3. QED
      BY <3>1, <3>2, <1>2
  <2>3. QED
    BY <1>3, <2>1, <2>2 DEF autoplay_poll
<1>4. CASE eth_poll_1
  BY <1>4, <1>2, CommandsAssumption DEF eth_poll_1
<1>5. CASE ilda_osc_poll
  <2>1. CASE request # 0 /\ walk_fs /\ request \in DOMAIN Files
    <3>1. request \in 0 .. Len(Files)
      BY <2>1, FilesAssumption, LenProperties
    <3>2. PICK ok \in Opens(request) : fplay_open(request, ok)
      BY <2>1 DEF walk_fs
    <3>3. Opened \/ Closed
      BY <3>1, <3>2, OpenResult
    <3>4. QED
      BY <1>5, <3>3 DEF ilda_osc_poll
  <2>2. CASE ~(request # 0 /\ walk_fs /\ request \in DOMAIN Files)
    BY <1>5, <2>2 DEF ilda_osc_poll, walk_fs
  <2>3. QED
    BY <2>1, <2>2
<1>6. CASE playback_refill
  <2>1. CASE RefillBegin
    BY <2>1 DEF RefillBegin, dac_prepare, dac_start
  <2>2. CASE RefillAtEnd
    <3>1. file # None
      BY <2>2 DEF RefillAtEnd, HeaderSays
    <3>2. file' = file
      BY <2>2 DEF RefillAtEnd, ilda_reset_file
    <3>3. file' \in 1 .. Len(Files)
      BY <3>1, <3>2, FilesAssumption, LenProperties DEF TypeOK, None
    <3>4. Opened
      BY <2>2, <3>2, <3>3 DEF RefillAtEnd, Opened
    <3>5. ring' = ring \/ ring' = ring \o <<>>
      BY <2>2 DEF RefillAtEnd, RefillEnd, dac_advance
    <3>6. ring \o <<>> = ring
      BY ConcatEmptySeq DEF TypeOK
    <3>7. QED
      BY <3>4, <3>5, <3>6
  <2>3. CASE RefillPanics
    BY <2>3 DEF RefillPanics
  <2>4. QED
    BY <1>6, <2>1, <2>2, <2>3 DEF playback_refill
<1>7. CASE Tick
  BY <1>7 DEF Tick
<1>8. CASE Estop
  BY <1>8 DEF Estop
<1>9. CASE EstopClear
  BY <1>9 DEF EstopClear
<1>10. CASE Stream
  BY <1>10 DEF Stream, dac_prepare
<1>11. QED
  BY <1>1, <1>3, <1>4, <1>5, <1>6, <1>7, <1>8, <1>9, <1>10 DEF Next, Poll

-----------------------------------------------------------------------------
(* What a read returns.                                                    *)

LEMMA ItemsType ==
  ASSUME TypeOK
  PROVE  /\ Items \in Seq(Item) /\ Len(Items) \in Nat
         /\ \A i \in 1 .. Len(Items) : Items[i] \in Item
         /\ DOMAIN Items = 1 .. Len(Items)
         /\ file # None => IsFile(Items, file) /\ file \in DOMAIN Files
<1>1. CASE file = None
  BY <1>1, EmptySeq DEF Items
<1>2. CASE file # None
  <2>1. file \in DOMAIN Files
    BY <1>2, FilesAssumption, LenProperties DEF TypeOK, None
  <2>2. Items = Files[file]
    BY <1>2 DEF Items
  <2>3. Items \in Seq(Item)
    BY <2>1, <2>2, FilesAssumption, ElementOfSeq, LenProperties DEF Item
  <2>4. QED
    BY <2>1, <2>2, <2>3, FilesAssumption, ElementOfSeq, LenProperties
<1>3. QED
  BY <1>1, <1>2

LEMMA PointsRead ==
  ASSUME TypeOK, RefillInv, PaceInv, RefillPoints
  PROVE  /\ InFrame
         /\ Wanted \in 1 .. dlen /\ Wanted <= fplay_points_left
         /\ Points \in Seq(Item) /\ Len(Points) = Wanted /\ Points # <<>>
         /\ fplay_state = "SMALL_FRAME" =>
              \A k \in 1 .. Wanted : Points[k] = small[PointNo + k]
         /\ fplay_state = "ILDA" =>
              /\ InFile /\ fptr + Wanted <= Len(Items)
              /\ \A k \in 1 .. Wanted : Points[k] = Items[fptr + k]
<1>1. InFrame /\ dlen > 0 /\ (fplay_state = "ILDA" => InFile /\ ~ReadsPastEnd)
  BY DEF RefillPoints, ReadPoints, RefillInv, InFrame, InFile, ReadsPastEnd
<1>2. fplay_points_left > 0
  BY <1>1 DEF PaceInv
<1>3. /\ dlen \in Nat /\ fplay_points_left \in Nat /\ pointcount \in Nat
      /\ fplay_points_left <= pointcount /\ MAX_POINTS_PER_LOOP \in Nat \ {0}
      /\ fptr \in Nat
  BY PlayerAssumption DEF TypeOK
<1>4. Wanted \in 1 .. dlen /\ Wanted <= fplay_points_left
  BY <1>1, <1>2, <1>3, MinOfThree DEF Wanted
<1>5. PointNo \in Nat /\ PointNo + fplay_points_left = pointcount
  BY <1>3 DEF PointNo
<1>6. CASE fplay_state = "SMALL_FRAME"
  <2>1. \A k \in 1 .. Wanted : PointNo + k \in 1 .. SMALL_FRAME_THRESHOLD
    BY <1>3, <1>4, <1>5, <1>6, PlayerAssumption DEF TypeOK
  <2>2. Points = [k \in 1 .. Wanted |-> small[PointNo + k]]
    BY <1>6 DEF Points
  <2>3. \A k \in 1 .. Wanted : small[PointNo + k] \in Item
    BY <2>1 DEF TypeOK
  <2>4. Points \in Seq(Item)
    BY <2>2, <2>3, <1>4, SeqDef
  <2>5. Len(Points) = Wanted
    BY <2>2, <2>4, <1>4, LenProperties
  <2>6. QED
    BY <1>1, <1>4, <1>6, <2>2, <2>4, <2>5, EmptySeq
<1>7. CASE fplay_state = "ILDA"
  <2>1. fptr + Wanted <= Len(Items) /\ Len(Items) \in Nat
    BY <1>1, <1>3, <1>4, <1>7, ItemsType DEF ReadsPastEnd
  <2>2. \A i \in fptr + 1 .. fptr + Wanted : Items[i] \in Item
    BY <1>3, <1>4, <2>1, ItemsType
  <2>3. Points = SubSeq(Items, fptr + 1, fptr + Wanted)
    BY <1>7 DEF Points
  <2>4. fptr + 1 \in Int /\ fptr + Wanted \in Int
    BY <1>3, <1>4
  <2>5. /\ Points \in Seq(Item)
        /\ Len(Points) = Wanted
        /\ \A k \in 1 .. Wanted : Points[k] = Items[fptr + k]
    <3> DEFINE m == fptr + 1
               n == fptr + Wanted
    <3>1. m \in Int /\ n \in Int /\ \A i \in m .. n : Items[i] \in Item
      BY <2>2, <2>4
    <3>2. m <= n /\ n - m + 1 = Wanted /\ \A k \in 1 .. Wanted : m + k - 1 = fptr + k
      BY <1>3, <1>4
    <3>3. Points = SubSeq(Items, m, n)
      BY <2>3
    <3> HIDE DEF m, n
    <3>4. /\ SubSeq(Items, m, n) \in Seq(Item)
          /\ Len(SubSeq(Items, m, n)) = IF m <= n THEN n - m + 1 ELSE 0
          /\ \A i \in 1 .. n - m + 1 : SubSeq(Items, m, n)[i] = Items[m + i - 1]
      BY <3>1, SubSeqProperties
    <3>5. QED
      BY <3>2, <3>3, <3>4
  <2>6. QED
    BY <1>1, <1>4, <1>7, <2>1, <2>5, EmptySeq
<1>8. QED
  BY <1>6, <1>7 DEF RefillPoints

-----------------------------------------------------------------------------
(* The arithmetic of repeats.                                              *)

(* A frame is shown at least once, and as often as leaves the show behind  *)
(* by half of it at most.                                                  *)
LEMMA RepeatCountRounds ==
  ASSUME NEW n \in Nat \ {0}, ppf \in Int, fplay_offset \in Int
  PROVE  /\ RepeatCount(n) \in Nat \ {0}
         /\ ppf = 0 => RepeatCount(n) = 1
         /\ ppf # 0 => 2 * (fplay_offset + RepeatCount(n) * n - ppf) >= -n
<1> DEFINE half == n \div 2
           needed == ppf - fplay_offset + half
<1>1. half \in Nat /\ 2 * half <= n /\ n <= 2 * half + 1
  BY SMT
<1>2. needed \in Int
  BY <1>1
<1>3. CASE ppf = 0 \/ n = 0
  BY <1>3 DEF RepeatCount
<1>4. CASE ppf # 0 /\ needed < n
  <2>1. RepeatCount(n) = 1
    BY <1>4 DEF RepeatCount
  <2>2. 1 * n = n
    BY SMT
  <2>3. fplay_offset + n - ppf > half
    BY <1>1, <1>4, SMT
  <2>4. QED
    BY <1>1, <1>4, <2>1, <2>2, <2>3, SMT
<1>5. CASE ppf # 0 /\ ~(needed < n)
  <2> DEFINE r == needed \div n
  <2>1. RepeatCount(n) = r
    BY <1>5 DEF RepeatCount
  <2>2. needed \in Nat /\ needed >= n
    BY <1>2, <1>5, SMT
  <2> HIDE DEF needed
  <2>3. r \in Nat /\ r * n <= needed /\ needed < r * n + n
    BY <2>2, SMT
  <2>4. r # 0
    BY <2>2, <2>3, SMT
  <2>5. r * n \in Int /\ r * n > needed - n
    BY <2>2, <2>3, SMT
  <2> DEFINE m == r * n
  <2>6. m \in Int /\ m > needed - n
    BY <2>5
  <2> HIDE DEF m
  <2>7. 2 * (fplay_offset + m - ppf) >= -n
    BY <1>1, <2>6, SMT DEF needed
  <2>8. QED
    BY <1>5, <2>1, <2>3, <2>4, <2>7 DEF m
<1>6. QED
  BY <1>3, <1>4, <1>5

LEMMA OneMore ==
  ASSUME NEW r \in Int, NEW n \in Int
  PROVE  (r - 1) * n \in Int /\ r * n = n + (r - 1) * n
BY SMT

-----------------------------------------------------------------------------
(* The pace.                                                               *)

LEMMA PaceNoRead ==
  ASSUME TypeOK, PaceInv, NoRead
  PROVE  PaceInv'
<1>1. CASE Quiet
  BY <1>1 DEF Quiet, fileKept, fileVars, PaceInv, InFrame, InFile, Live, LagsByHalf,
              Items
<1>2. CASE Opened
  BY <1>2 DEF Opened, ilda_reset_file, PaceInv, InFrame, InFile
<1>3. CASE Closed
  BY <1>3 DEF Closed, PaceInv, InFrame, InFile
<1>4. QED
  BY <1>1, <1>2, <1>3 DEF NoRead

LEMMA PaceFails ==
  ASSUME PaceInv, RefillInv, RefillFails
  PROVE  PaceInv'
<1>1. ~Live' /\ (fplay_state' \in {fplay_state, "BAD", "ILDA"})
  BY DEF RefillFails, Live
<1>2. /\ UNCHANGED <<file, fptr, fplay_points_left, fplay_repeat_count,
                     fplay_offset, fplay_frame_start, pointcount, drift>>
  BY DEF RefillFails
<1>3. QED
  BY <1>1, <1>2 DEF PaceInv, InFrame, InFile, LagsByHalf, Items

LEMMA PaceHeader ==
  ASSUME TypeOK, RefillInv, PaceInv, RefillHeader
  PROVE  PaceInv'
<1> DEFINE n == Items[fptr + 1].n
<1>1. /\ file # None /\ fptr + 1 \in 1 .. Len(Items)
      /\ Items[fptr + 1].k = 0 /\ n \in Nat \ {0}
  <2>1. file # None /\ fptr # Len(Items) /\ Items[fptr + 1].k = 0 /\ n # 0
    BY DEF RefillHeader, HeaderSays
  <2>2. fptr + 1 \in 1 .. Len(Items)
    BY <2>1, ItemsType DEF TypeOK
  <2>3. n \in Nat \cup {Unknown}
    BY <2>2, ItemsType DEF Item
  <2>4. n # Unknown
    BY <2>1 DEF RefillHeader, HeaderSays
  <2>5. QED
    BY <2>1, <2>2, <2>3, <2>4
<1> HIDE DEF n
<1>2. OpenFrame(n)
  BY DEF RefillHeader, n
<1>3. fplay_offset = drift
  BY DEF RefillHeader, RefillInv, PaceInv
<1>4. /\ fplay_offset \in Int /\ drift \in Int /\ ppf \in Int /\ fptr \in Nat
  BY DEF TypeOK
<1>5. /\ RepeatCount(n) \in Nat \ {0}
      /\ ppf = 0 => RepeatCount(n) = 1
      /\ ppf # 0 => 2 * (fplay_offset + RepeatCount(n) * n - ppf) >= -n
  BY <1>1, <1>4, RepeatCountRounds
<1> DEFINE r == RepeatCount(n)
<1>6. r \in Nat \ {0} /\ (ppf = 0 => r = 1)
  BY <1>5
<1>7. /\ fptr' = fptr + 1 /\ fplay_state' = "ILDA" /\ fplay_repeat_count' = r
      /\ fplay_offset' = IF ppf = 0 THEN fplay_offset ELSE fplay_offset + r * n - ppf
      /\ drift' = drift - (IF ppf = 0 THEN n ELSE ppf)
      /\ fplay_points_left' = n /\ pointcount' = n
      /\ fplay_frame_start' = fptr + 1 /\ file' = file
  BY <1>2 DEF OpenFrame
<1>8. Items' = Items
  BY <1>7 DEF Items
<1>9. /\ ppf # 0 => 2 * fplay_offset' >= -n
      /\ ppf = 0 => fplay_offset' = fplay_offset
  BY <1>5, <1>7
<1> HIDE DEF r
<1>10. fplay_offset' = drift' + n + (r - 1) * n
  <2> DEFINE m == (r - 1) * n
  <2>1. m \in Int /\ r * n = n + m
    BY <1>1, <1>6, OneMore
  <2>2. ppf = 0 => m = 0
    BY <1>1, <1>6, SMT
  <2> HIDE DEF m
  <2>3. fplay_offset' = drift' + n + m
    BY <1>1, <1>3, <1>4, <1>7, <2>1, <2>2
  <2>4. QED
    BY <2>3 DEF m
<1>11. \E i \in 1 .. fptr + 1 : LagsByHalf(i)'
  <2>1. CASE ppf # 0 \/ fptr = 0
    <3>1. 2 * fplay_offset' >= -n
      <4>1. CASE ppf # 0
        BY <1>9, <4>1
      <4>2. CASE ppf = 0 /\ fptr = 0
        <5>1. fplay_offset = 0
          BY <1>1, <4>2 DEF PaceInv
        <5>2. QED
          BY <1>1, <1>4, <1>9, <4>2, <5>1
      <4>3. QED
        BY <2>1, <4>1, <4>2
    <3>2. PICK j \in 1 .. fptr + 1 : j = fptr + 1
      BY <1>4
    <3>3. LagsByHalf(j)'
      BY <1>1, <1>8, <3>1, <3>2 DEF LagsByHalf, n
    <3>4. QED
      BY <3>2, <3>3
  <2>2. CASE ppf = 0 /\ fptr # 0
    <3>1. PICK i \in 1 .. fptr : LagsByHalf(i)
      BY <1>1, <1>4, <2>2 DEF PaceInv
    <3>2. LagsByHalf(i)'
      BY <1>8, <1>9, <2>2, <3>1 DEF LagsByHalf
    <3>3. QED
      BY <1>4, <3>1, <3>2
  <2>3. QED
    BY <2>1, <2>2
<1>12. fptr' > 0 /\ fptr' = fptr + 1 /\ fplay_frame_start' \in 1 .. fptr'
  BY <1>4, <1>7
<1>13. /\ \E i \in 1 .. fptr' : LagsByHalf(i)'
       /\ \E i \in 1 .. fplay_frame_start' : LagsByHalf(i)'
  BY <1>7, <1>11
<1>14. /\ fplay_repeat_count' > 0 /\ fplay_points_left' > 0
       /\ fplay_offset' =
            drift' + fplay_points_left' + (fplay_repeat_count' - 1) * pointcount'
  BY <1>1, <1>6, <1>7, <1>10
<1>15. fplay_state' # "BETWEEN_FRAMES" /\ ~(fptr' = 0)
  BY <1>7, <1>12
<1>16. QED
  BY <1>12, <1>13, <1>14, <1>15 DEF PaceInv

(* The points that are read move from what is left to what was shown.      *)
LEMMA PacePoints ==
  ASSUME TypeOK, RefillInv, PaceInv, RefillPoints
  PROVE  PaceInv'
<1> DEFINE w == Wanted
           rest == (fplay_repeat_count - 1) * pointcount
<1>1. /\ InFrame /\ w \in Nat \ {0} /\ w <= fplay_points_left
      /\ fplay_state = "ILDA" => InFile
  BY PointsRead DEF TypeOK
<1>2. /\ fplay_repeat_count \in Nat \ {0} /\ fplay_points_left \in Nat \ {0}
      /\ fplay_offset = drift + fplay_points_left + rest
      /\ pointcount \in Nat \ {0} /\ drift \in Int /\ fptr \in Nat
      /\ fplay_offset \in Int
  BY <1>1 DEF PaceInv, TypeOK
<1>3. /\ rest \in Int
      /\ rest = pointcount + (fplay_repeat_count - 1 - 1) * pointcount
      /\ fplay_repeat_count = 1 => rest = 0
  <2>1. fplay_repeat_count - 1 \in Int /\ pointcount \in Int
    BY <1>2
  <2>2. rest \in Int /\ rest = pointcount + (fplay_repeat_count - 1 - 1) * pointcount
    BY <2>1, OneMore
  <2>3. 0 * pointcount = 0
    BY <1>2, SMT
  <2>4. QED
    BY <2>2, <2>3
<1> HIDE DEF rest, w
<1>4. /\ drift' = drift + w
      /\ UNCHANGED <<file, fplay_offset, fplay_frame_start, pointcount>>
      /\ Continue
  BY DEF RefillPoints, ReadPoints, w
<1>5. Items' = Items /\ (Live' = Live) /\ \A i : LagsByHalf(i)' = LagsByHalf(i)
  BY <1>4 DEF Items, Live, RefillPoints, RefillEnd, LagsByHalf
<1>6. CASE fplay_state = "SMALL_FRAME"
  <2>1. fptr' = fptr /\ fplay_state' \in {"SMALL_FRAME", "BETWEEN_FRAMES"}
    BY <1>4, <1>6 DEF Continue, TypeOK
  <2>2. /\ fplay_state' = "BETWEEN_FRAMES" => fplay_offset' = drift'
        /\ fplay_state' # "BETWEEN_FRAMES" =>
             /\ fplay_repeat_count' > 0 /\ fplay_points_left' > 0
             /\ fplay_offset' = drift' + fplay_points_left' + rest'
    <3>1. CASE fplay_points_left = w /\ fplay_repeat_count = 1
      BY <1>2, <1>3, <1>4, <1>6, <3>1 DEF Continue, w
    <3>2. CASE fplay_points_left = w /\ fplay_repeat_count # 1
      BY <1>2, <1>3, <1>4, <1>6, <3>2 DEF Continue, w, rest
    <3>3. CASE fplay_points_left # w
      BY <1>1, <1>2, <1>3, <1>4, <1>6, <3>3 DEF Continue, w, rest
    <3>4. QED
      BY <3>1, <3>2, <3>3
  <2>3. /\ fplay_state' = "BETWEEN_FRAMES" => ~InFrame'
        /\ ~InFile'
    BY <2>1 DEF InFrame, InFile
  <2>4. QED
    BY <1>4, <1>5, <2>1, <2>2, <2>3 DEF PaceInv, rest
<1>7. CASE fplay_state = "ILDA"
  <2>1. fplay_frame_start \in 1 .. fptr /\ \E i \in 1 .. fplay_frame_start : LagsByHalf(i)
    BY <1>1, <1>7 DEF PaceInv
  <2>2. fptr' \in Nat /\ fplay_frame_start \in 1 .. fptr' /\ fptr' # 0
    BY <1>1, <1>2, <1>4, <1>7, <2>1 DEF Continue, w
  <2>3. \E i \in 1 .. fplay_frame_start' : LagsByHalf(i)'
    BY <1>4, <1>5, <2>1
  <2>4. \E i \in 1 .. fptr' : LagsByHalf(i)'
    BY <1>4, <2>2, <2>3
  <2>5. /\ fplay_state' = "BETWEEN_FRAMES" => fplay_offset' = drift'
        /\ fplay_state' # "BETWEEN_FRAMES" =>
             /\ fplay_repeat_count' > 0 /\ fplay_points_left' > 0
             /\ fplay_offset' = drift' + fplay_points_left' + rest'
    <3>1. CASE fplay_points_left = w /\ fplay_repeat_count = 1
      BY <1>2, <1>3, <1>4, <1>7, <3>1 DEF Continue, w
    <3>2. CASE fplay_points_left = w /\ fplay_repeat_count # 1
      BY <1>2, <1>3, <1>4, <1>7, <3>2 DEF Continue, w, rest
    <3>3. CASE fplay_points_left # w
      BY <1>1, <1>2, <1>3, <1>4, <1>7, <3>3 DEF Continue, w, rest
    <3>4. QED
      BY <3>1, <3>2, <3>3
  <2>6. fplay_frame_start' \in 1 .. fptr'
    BY <1>4, <2>2
  <2>7. fplay_state' = "BETWEEN_FRAMES" => ~InFrame'
    BY DEF InFrame, InFile
  <2>8. QED
    BY <2>2, <2>3, <2>4, <2>5, <2>6, <2>7 DEF PaceInv, rest
<1>8. QED
  BY <1>6, <1>7 DEF RefillPoints

LEMMA PacePreserved ==
  ASSUME TypeOK, RefillInv, PaceInv, [Next]_vars
  PROVE  PaceInv'
BY StepKinds, PaceNoRead, PaceHeader, PaceFails, PacePoints

-----------------------------------------------------------------------------
(* The order.                                                              *)

(* A sequence loses points at its front only.                              *)
LEMMA Drops ==
  ASSUME TypeOK, NoPoints
  PROVE  /\ ring' \in Seq(Item) /\ Len(ring') <= Len(ring)
         /\ FramesInOrder => FramesInOrder'
         /\ ring' # <<>> => ring # <<>> /\ Last(ring') = Last(ring)
<1>1. ring \in Seq(Item) /\ Len(ring) \in Nat
  BY LenProperties DEF TypeOK
<1>2. CASE ring' = ring
  BY <1>1, <1>2 DEF FramesInOrder
<1>3. CASE ring' = <<>>
  BY <1>1, <1>3, EmptySeq DEF FramesInOrder
<1>4. CASE ring # <<>> /\ ring' = Tail(ring)
  <2>1. /\ ring' \in Seq(Item) /\ Len(ring') = Len(ring) - 1
        /\ \A i \in 1 .. Len(ring') : ring'[i] = ring[i + 1]
    BY <1>1, <1>4, HeadTailProperties
  <2>2. FramesInOrder => FramesInOrder'
    <3> SUFFICES ASSUME FramesInOrder PROVE FramesInOrder'
      OBVIOUS
    <3>1. ASSUME NEW i \in 1 .. Len(ring') - 1
          PROVE  Follows(ring'[i], ring'[i + 1])
      <4>1. i + 1 \in 1 .. Len(ring) - 1 /\ i \in 1 .. Len(ring')
            /\ i + 1 \in 1 .. Len(ring')
        BY <1>1, <2>1
      <4>2. Follows(ring[i + 1], ring[i + 1 + 1])
        BY <4>1 DEF FramesInOrder
      <4>3. QED
        BY <2>1, <4>1, <4>2
    <3>2. ASSUME NEW i \in 1 .. Len(ring')
          PROVE  ring'[i].k > 0
      <4>1. i + 1 \in 1 .. Len(ring)
        BY <1>1, <2>1
      <4>2. QED
        BY <2>1, <4>1 DEF FramesInOrder
    <3>3. QED
      BY <3>1, <3>2 DEF FramesInOrder, Follows
  <2>3. ring' # <<>> => Last(ring') = Last(ring)
    <3> HAVE ring' # <<>>
    <3>1. Len(ring') \in 1 .. Len(ring')
      BY <1>1, <2>1, EmptySeq
    <3>2. QED
      BY <1>1, <2>1, <3>1 DEF Last
  <2>4. QED
    BY <1>1, <1>4, <2>1, <2>2, <2>3
<1>5. QED
  BY <1>2, <1>3, <1>4 DEF NoPoints

LEMMA OrderNoRead ==
  ASSUME TypeOK, OrderInv, NoRead
  PROVE  OrderInv'
<1>1. /\ FramesInOrder'
      /\ ring' # <<>> => ring # <<>> /\ Last(ring') = Last(ring)
  BY Drops DEF NoRead, OrderInv
<1>2. CASE Quiet
  <2>1. /\ UNCHANGED fileVars /\ Items' = Items /\ (InFile' => InFile)
        /\ (InFrame' => InFrame) /\ OpenHeader' = OpenHeader /\ PointNo' = PointNo
    BY <1>2 DEF Quiet, fileKept, fileVars, Items, InFile, InFrame, OpenHeader, PointNo
  <2>2. /\ UNCHANGED <<fptr, file, fplay_state, fplay_frame_start, pointcount, small>>
    BY <2>1 DEF fileVars
  <2>3. QED
    BY <1>1, <2>1, <2>2 DEF OrderInv, NextIsFrame
<1>3. CASE Opened
  <2>1. /\ fplay_state' = "BETWEEN_FRAMES" /\ fptr' = 0 /\ file' \in 1 .. Len(Files)
    BY <1>3 DEF Opened, ilda_reset_file
  <2>2. Items' = Files[file'] /\ IsFile(Files[file'], file')
    BY <2>1, FilesAssumption, LenProperties DEF Items, None
  <2>3. Len(Items') \in Nat /\ DOMAIN Items' = 1 .. Len(Items')
    BY <2>1, <2>2, FilesAssumption, LenProperties, ElementOfSeq
  <2>4. NextIsFrame(1)'
    BY <2>1, <2>2, <2>3, EmptySeq DEF NextIsFrame, IsFile
  <2>5. QED
    BY <1>1, <2>1, <2>4 DEF OrderInv, InFrame, InFile
<1>4. CASE Closed
  <2>1. /\ ~InFile' /\ file' = None /\ (InFrame' => InFrame /\ fplay_state = "SMALL_FRAME")
        /\ UNCHANGED <<fptr, fplay_state, fplay_points_left, pointcount, small>>
    BY <1>4 DEF Closed, InFile, InFrame
  <2>2. fplay_state = "SMALL_FRAME" => OpenHeader' = OpenHeader /\ PointNo' = PointNo
    BY <2>1 DEF OpenHeader, PointNo
  <2>3. QED
    BY <1>1, <2>1, <2>2 DEF OrderInv
<1>5. QED
  BY <1>2, <1>3, <1>4 DEF NoRead

LEMMA OrderFails ==
  ASSUME TypeOK, RefillInv, OrderInv, RefillFails
  PROVE  OrderInv'
<1>1. /\ ~InFile' /\ (InFrame' => InFrame /\ fplay_state' = "SMALL_FRAME")
      /\ fplay_state' # "BETWEEN_FRAMES" \/ fplay_state = "BETWEEN_FRAMES"
      /\ fplay_state' = "SMALL_FRAME" => fplay_state = "SMALL_FRAME"
      /\ UNCHANGED <<file, fptr, fplay_points_left, pointcount, small>>
  BY DEF RefillFails, InFile, InFrame, Live
<1>2. ring' = ring
  <2>1. ring' = ring \/ ring' = ring \o <<>>
    BY DEF RefillFails, RefillEnd, dac_advance
  <2>2. QED
    BY <2>1, ConcatEmptySeq DEF TypeOK
<1>3. Items' = Items /\ PointNo' = PointNo
      /\ (fplay_state' = "SMALL_FRAME" => OpenHeader' = OpenHeader)
  BY <1>1 DEF Items, PointNo, OpenHeader
<1>4. FramesInOrder'
  BY <1>2 DEF OrderInv, FramesInOrder
<1>5. QED
  BY <1>1, <1>2, <1>3, <1>4 DEF OrderInv, NextIsFrame

LEMMA OrderHeader ==
  ASSUME TypeOK, RefillInv, OrderInv, RefillHeader
  PROVE  OrderInv'
<1> DEFINE h == Items[fptr + 1]
<1>1. /\ file # None /\ fptr + 1 \in 1 .. Len(Items) /\ h.k = 0
  <2>1. file # None /\ fptr # Len(Items) /\ h.k = 0
    BY DEF RefillHeader, HeaderSays
  <2>2. QED
    BY <2>1, ItemsType DEF TypeOK
<1>2. h.file = file
  BY <1>1, ItemsType DEF IsFile
<1>3. fplay_state = "BETWEEN_FRAMES"
  BY DEF RefillHeader, RefillInv
<1>4. /\ fplay_state' = "ILDA" /\ fptr' = fptr + 1 /\ fplay_frame_start' = fptr + 1
      /\ fplay_points_left' = h.n /\ pointcount' = h.n
      /\ UNCHANGED <<file, ring>>
  BY DEF RefillHeader, OpenFrame, dacVars
<1>5. Items' = Items /\ PointNo' = 0 /\ OpenHeader' = h
  <2>1. Items' = Items
    BY <1>4 DEF Items
  <2>2. h.n \in Int
    BY <1>1, ItemsType DEF Item, Unknown
  <2>3. QED
    BY <1>4, <2>1, <2>2 DEF PointNo, OpenHeader
<1>6. ring # <<>> => Follows(Last(ring), PointAt(h, 1))
  <2> HAVE ring # <<>>
  <2>1. CASE fptr = 0
    BY <1>1, <1>3, <2>1 DEF OrderInv, NextIsFrame, Follows, PointAt
  <2>2. CASE fptr # 0
    <3>1. /\ Last(ring).file = file /\ Last(ring).k = Last(ring).n
          /\ NextIsFrame(Last(ring).frame + 1)
      BY <1>1, <1>3, <2>2 DEF OrderInv
    <3>2. h.frame = Last(ring).frame + 1
      BY <1>1, <3>1, ItemsType DEF NextIsFrame, TypeOK
    <3>3. QED
      BY <1>2, <3>1, <3>2 DEF Follows, PointAt
  <2>3. QED
    BY <2>1, <2>2
<1> HIDE DEF h
<1>7. fptr' = fplay_frame_start' + PointNo' /\ 0 + 1 = 1
  BY <1>4, <1>5 DEF TypeOK
<1>8. FramesInOrder'
  BY <1>4 DEF OrderInv, FramesInOrder
<1>9. /\ ring' # <<>> => Follows(Last(ring'), PointAt(OpenHeader', PointNo' + 1))
      /\ OpenHeader'.n = pointcount' /\ OpenHeader'.k = 0
      /\ \A k \in 1 .. PointNo' : small'[k] = PointAt(OpenHeader', k)
  BY <1>1, <1>4, <1>5, <1>6
<1>10. fplay_state' # "SMALL_FRAME" /\ fplay_state' # "BETWEEN_FRAMES"
  BY <1>4
<1>11. QED
  BY <1>7, <1>8, <1>9, <1>10 DEF OrderInv

(* A sequence of points goes on with others.                               *)
LEMMA GoesOn ==
  ASSUME NEW s \in Seq(Item), NEW t \in Seq(Item), t # <<>>,
         \A i \in 1 .. Len(s) - 1 : Follows(s[i], s[i + 1]),
         \A i \in 1 .. Len(t) - 1 : Follows(t[i], t[i + 1]),
         s # <<>> => Follows(Last(s), t[1])
  PROVE  \A i \in 1 .. Len(s \o t) - 1 : Follows((s \o t)[i], (s \o t)[i + 1])
<1>1. /\ Len(s) \in Nat /\ Len(t) \in Nat \ {0} /\ (Len(s) > 0 => s # <<>>)
      /\ Len(s \o t) = Len(s) + Len(t)
  BY LenProperties, EmptySeq, Joined
<1>2. SUFFICES ASSUME NEW i \in 1 .. Len(s) + Len(t) - 1
               PROVE  Follows((s \o t)[i], (s \o t)[i + 1])
  BY <1>1
<1>3. CASE i < Len(s)
  <2>1. i \in 1 .. Len(s) - 1 /\ i \in 1 .. Len(s) /\ i + 1 \in 1 .. Len(s)
    BY <1>1, <1>3
  <2>2. (s \o t)[i] = s[i] /\ (s \o t)[i + 1] = s[i + 1]
    BY <2>1, Joined
  <2>3. QED
    BY <2>1, <2>2
<1>4. CASE i = Len(s)
  <2>1. i \in 1 .. Len(s) /\ 1 \in 1 .. Len(t) /\ s # <<>>
    BY <1>1, <1>4
  <2>2. (s \o t)[i] = s[i] /\ (s \o t)[i + 1] = t[1]
    BY <1>4, <2>1, Joined
  <2>3. QED
    BY <1>4, <2>1, <2>2 DEF Last
<1>5. CASE i > Len(s)
  <2>1. PICK j \in 1 .. Len(t) - 1 : i = Len(s) + j
    <3>1. i - Len(s) \in 1 .. Len(t) - 1 /\ i = Len(s) + (i - Len(s))
      BY <1>1, <1>5
    <3>2. QED
      BY <3>1
  <2>2. j \in 1 .. Len(t) /\ j + 1 \in 1 .. Len(t) /\ i + 1 = Len(s) + (j + 1)
    BY <1>1, <2>1
  <2>3. (s \o t)[i] = t[j] /\ (s \o t)[i + 1] = t[j + 1]
    BY <2>1, <2>2, Joined
  <2>4. QED
    BY <2>1, <2>3
<1>6. QED
  BY <1>1, <1>3, <1>4, <1>5

(* What is read is the next points of the frame.                           *)
LEMMA PointsOfFrame ==
  ASSUME TypeOK, RefillInv, PaceInv, OrderInv, RefillPoints
  PROVE  /\ \A k \in 1 .. Wanted : Points[k] = PointAt(OpenHeader, PointNo + k)
         /\ InFile => /\ IsFile(Items, file) /\ fplay_frame_start \in DOMAIN Items
                      /\ OpenHeader = Items[fplay_frame_start]
                      /\ OpenHeader.n = pointcount /\ OpenHeader.k = 0
                      /\ fptr = fplay_frame_start + PointNo
         /\ PointNo \in Nat /\ PointNo + fplay_points_left = pointcount
         /\ pointcount \in Nat
<1>1. /\ PointNo \in Nat /\ PointNo + fplay_points_left = pointcount
      /\ fplay_points_left \in Nat /\ pointcount \in Nat
  BY DEF TypeOK, PointNo
<1>2. /\ InFrame /\ Wanted \in Nat \ {0} /\ Wanted <= fplay_points_left
  BY PointsRead DEF TypeOK
<1>3. CASE fplay_state = "SMALL_FRAME"
  <2>1. ASSUME NEW k \in 1 .. Wanted
        PROVE  Points[k] = PointAt(OpenHeader, PointNo + k)
    <3>1. PointNo + k \in 1 .. pointcount
      BY <1>1, <1>2
    <3>2. QED
      BY <1>3, <3>1, PointsRead DEF OrderInv
  <2>2. QED
    BY <1>1, <1>3, <2>1 DEF InFile
<1>4. CASE fplay_state = "ILDA"
  <2>1. InFile /\ fptr + Wanted <= Len(Items) /\ file # None
    BY <1>4, PointsRead DEF InFile
  <2>2. IsFile(Items, file) /\ Len(Items) \in Nat /\ DOMAIN Items = 1 .. Len(Items)
    BY <2>1, ItemsType
  <2>3. /\ OpenHeader = Items[fplay_frame_start] /\ OpenHeader.k = 0
        /\ OpenHeader.n = pointcount /\ fptr = fplay_frame_start + PointNo
    BY <1>2, <1>4, <2>1 DEF OrderInv, OpenHeader
  <2>4. fplay_frame_start \in 1 .. Len(Items) /\ fplay_frame_start \in Nat
    BY <2>1, <2>2 DEF PaceInv, TypeOK
  <2>5. ASSUME NEW k \in 1 .. Wanted
        PROVE  Points[k] = PointAt(OpenHeader, PointNo + k)
    <3>1. Points[k] = Items[fptr + k]
      BY <1>4, PointsRead
    <3> DEFINE j == PointNo + k
    <3>2. /\ j \in 1 .. pointcount /\ fplay_frame_start + j = fptr + k
          /\ fplay_frame_start + j <= Len(Items)
      BY <1>1, <1>2, <2>1, <2>2, <2>3, <2>4
    <3>3. pointcount > 0
      BY <3>2, <1>1
    <3> HIDE DEF j
    <3>4. Items[fplay_frame_start + j] = PointAt(Items[fplay_frame_start], j)
      BY <2>2, <2>3, <2>4, <3>2, <3>3 DEF IsFile
    <3>5. QED
      BY <2>3, <3>1, <3>2, <3>4 DEF j
  <2>6. QED
    BY <1>1, <2>1, <2>2, <2>3, <2>4, <2>5
<1>5. QED
  BY <1>3, <1>4 DEF RefillPoints

LEMMA OrderPoints ==
  ASSUME TypeOK, RefillInv, PaceInv, OrderInv, RefillPoints
  PROVE  OrderInv'
<1> DEFINE h == OpenHeader
           w == Wanted
           m == PointNo
<1>1. /\ InFrame /\ w \in Nat \ {0} /\ w <= fplay_points_left
      /\ Points \in Seq(Item) /\ Len(Points) = w /\ Points # <<>>
      /\ fplay_state \in {"ILDA", "SMALL_FRAME"}
      /\ fplay_state = "ILDA" => InFile /\ fptr + w <= Len(Items)
  BY PointsRead DEF TypeOK, RefillPoints
<1>2. /\ \A k \in 1 .. w : Points[k] = PointAt(h, m + k)
      /\ m \in Nat /\ m + fplay_points_left = pointcount /\ pointcount \in Nat
      /\ fplay_points_left \in Nat
  BY PointsOfFrame DEF TypeOK
<1>3. /\ Continue
      /\ UNCHANGED <<file, fplay_frame_start, pointcount>>
      /\ small' = IF fplay_state = "ILDA" /\ pointcount <= SMALL_FRAME_THRESHOLD
                 THEN [k \in DOMAIN small |->
                        IF k \in m + 1 .. m + w THEN Points[k - m] ELSE small[k]]
                 ELSE small
  BY DEF RefillPoints, ReadPoints
<1>4. /\ h.n = pointcount
      /\ ring # <<>> => Follows(Last(ring), PointAt(h, m + 1))
  BY <1>1 DEF OrderInv
<1>5. Items' = Items
  BY <1>3 DEF Items
<1> HIDE DEF h, w, m
<1>6. /\ \A i \in 1 .. Len(Points) - 1 : Follows(Points[i], Points[i + 1])
      /\ \A i \in 1 .. Len(Points) : Points[i].k > 0
      /\ ring # <<>> => Follows(Last(ring), Points[1])
      /\ Last(Points) = PointAt(h, m + w)
  <2>1. ASSUME NEW i \in 1 .. w - 1
        PROVE  Follows(Points[i], Points[i + 1])
    <3>1. i \in 1 .. w /\ i + 1 \in 1 .. w /\ m + (i + 1) = (m + i) + 1
      BY <1>1, <1>2
    <3>2. Points[i] = PointAt(h, m + i) /\ Points[i + 1] = PointAt(h, m + i + 1)
      BY <1>2, <3>1
    <3>3. QED
      BY <3>2 DEF Follows, PointAt
  <2>2. ASSUME NEW i \in 1 .. w
        PROVE  Points[i].k > 0
    <3>1. Points[i] = PointAt(h, m + i)
      BY <1>2
    <3>2. PointAt(h, m + i).k = m + i
      BY DEF PointAt
    <3>3. QED
      BY <1>1, <1>2, <3>1, <3>2
  <2>3. ring # <<>> => Follows(Last(ring), Points[1])
    BY <1>1, <1>2, <1>4
  <2>4. Last(Points) = PointAt(h, m + w)
    BY <1>1, <1>2 DEF Last
  <2>5. QED
    BY <1>1, <2>1, <2>2, <2>3, <2>4
<1>7. /\ FramesInOrder'
      /\ ring' # <<>> => Last(ring') = PointAt(h, m + w)
  <2>1. dac = "IDLE" => ring = <<>> /\ ring' = ring
    BY DEF RefillInv, RefillPoints, RefillEnd, dac_advance
  <2>2. dac # "IDLE" => ring' = ring \o Points
    BY DEF RefillPoints, RefillEnd, dac_advance
  <2>3. CASE dac = "IDLE"
    BY <2>1, <2>3 DEF OrderInv, FramesInOrder
  <2>4. CASE dac # "IDLE"
    <3>1. ring \in Seq(Item) /\ \A i \in 1 .. Len(ring) - 1 : Follows(ring[i], ring[i + 1])
      BY DEF TypeOK, OrderInv, FramesInOrder
    <3>2. \A i \in 1 .. Len(ring') - 1 : Follows(ring'[i], ring'[i + 1])
      BY <1>1, <1>6, <2>2, <2>4, <3>1, GoesOn
    <3>3. /\ Len(ring') = Len(ring) + Len(Points) /\ Len(ring) \in Nat
          /\ \A i \in 1 .. Len(ring) : ring'[i] = ring[i]
          /\ \A i \in 1 .. Len(Points) : ring'[Len(ring) + i] = Points[i]
          /\ Last(ring') = Last(Points)
      <4>1. ring \in Seq(Item) /\ Points \in Seq(Item) /\ Points # <<>>
        BY <1>1, <3>1
      <4> DEFINE both == ring \o Points
      <4>2. /\ Len(both) = Len(ring) + Len(Points)
            /\ \A i \in 1 .. Len(ring) : both[i] = ring[i]
            /\ \A i \in 1 .. Len(Points) : both[Len(ring) + i] = Points[i]
            /\ Last(both) = Last(Points)
        BY ONLY <4>1, Joined
      <4>3. ring' = both /\ Len(ring) \in Nat
        BY <2>2, <2>4, <4>1, LenProperties
      <4> HIDE DEF both
      <4>4. QED
        BY <4>2, <4>3
    <3>4. ASSUME NEW i \in 1 .. Len(ring')
          PROVE  ring'[i].k > 0
      <4>1. CASE i <= Len(ring)
        <5>1. i \in 1 .. Len(ring)
          BY <3>3, <4>1
        <5>2. QED
          BY <3>3, <5>1 DEF OrderInv, FramesInOrder
      <4>2. CASE i > Len(ring)
        <5>1. PICK j \in 1 .. Len(Points) : i = Len(ring) + j
          <6>1. i - Len(ring) \in 1 .. Len(Points) /\ i = Len(ring) + (i - Len(ring))
            BY <1>1, <3>3, <4>2
          <6>2. QED
            BY <6>1
        <5>2. QED
          BY <1>6, <3>3, <5>1
      <4>3. QED
        BY <3>3, <4>1, <4>2
    <3>5. QED
      BY <1>6, <3>2, <3>3, <3>4 DEF FramesInOrder, Follows
  <2>5. QED
    BY <2>3, <2>4
<1>8. fplay_state = "ILDA" /\ pointcount <= SMALL_FRAME_THRESHOLD =>
        \A k \in 1 .. m + w : small'[k] = PointAt(h, k)
  <2> SUFFICES ASSUME fplay_state = "ILDA", pointcount <= SMALL_FRAME_THRESHOLD,
                      NEW k \in 1 .. m + w
               PROVE  small'[k] = PointAt(h, k)
    OBVIOUS
  <2>1. k \in DOMAIN small
    BY SMTT(20), <1>1, <1>2, PlayerAssumption DEF TypeOK
  <2>2. CASE k <= m
    <3>1. small'[k] = small[k]
      BY <1>2, <1>3, <2>1, <2>2
    <3>2. k \in 1 .. m
      BY <1>2, <2>2
    <3>3. QED
      BY <1>1, <3>1, <3>2 DEF OrderInv, h, m
  <2>3. CASE k > m
    <3>1. k - m \in 1 .. w /\ m + (k - m) = k /\ k \in m + 1 .. m + w
      BY <1>1, <1>2, <2>3
    <3>2. small'[k] = Points[k - m]
      BY <1>3, <2>1, <3>1
    <3>3. QED
      BY <1>2, <3>1, <3>2
  <2>4. QED
    BY <1>2, <2>2, <2>3
(* Where the frame ends the file goes on with the next one.                *)
<1>9. ASSUME fplay_points_left = w,
             fptr' = IF fplay_state = "ILDA" THEN fptr + w ELSE fptr,
             file # None
      PROVE  /\ h.file = file /\ fptr' > 0 /\ fptr' \in Nat
             /\ fptr' < Len(Items) /\ Items[fptr' + 1].k = 0
                  => Items[fptr' + 1].frame = h.frame + 1
  <2>1. CASE fplay_state = "SMALL_FRAME"
    BY <1>9, <2>1 DEF OrderInv, NextIsFrame, h, TypeOK
  <2>2. CASE fplay_state = "ILDA"
    <3>1. /\ IsFile(Items, file) /\ fplay_frame_start \in DOMAIN Items
          /\ h = Items[fplay_frame_start] /\ h.k = 0
          /\ fptr = fplay_frame_start + m
      BY <1>1, <2>2, PointsOfFrame DEF h, m
    <3>2. /\ fptr' = fplay_frame_start + pointcount
          /\ fplay_frame_start \in Nat /\ pointcount > 0
      <4>1. fptr' = fptr + w /\ fplay_frame_start \in Nat
        BY <1>9, <2>2 DEF TypeOK
      <4>2. m + w = pointcount
        BY <1>2, <1>9
      <4>3. QED
        BY <1>1, <1>2, <3>1, <4>1, <4>2
    <3> DEFINE e == fplay_frame_start + h.n + 1
    <3>3. e = fptr' + 1 /\ fptr' > 0 /\ fptr' \in Nat
      BY <1>2, <1>4, <3>2
    <3>4. /\ h.file = file
          /\ e <= Len(Items) /\ Items[e].k = 0 => Items[e].frame = h.frame + 1
      BY <1>4, <3>1, <3>2 DEF IsFile
    <3> HIDE DEF e
    <3>5. fptr' < Len(Items) => e <= Len(Items)
      BY <3>3, ItemsType
    <3>6. QED
      BY <3>3, <3>4, <3>5
  <2>3. QED
    BY <1>1, <2>1, <2>2
<1>10. CASE fplay_points_left = w /\ fplay_repeat_count = 1
  <2>1. /\ fplay_state' = "BETWEEN_FRAMES"
        /\ fptr' = IF fplay_state = "ILDA" THEN fptr + w ELSE fptr
    BY <1>2, <1>3, <1>10 DEF Continue, w
  <2>2. m + w = pointcount
    BY <1>2, <1>10
  <2>3. file # None => /\ h.file = file /\ fptr' > 0 /\ fptr' \in Nat
                       /\ fptr' < Len(Items) /\ Items[fptr' + 1].k = 0
                            => Items[fptr' + 1].frame = h.frame + 1
    BY <1>9, <1>10, <2>1
  <2>4. /\ PointAt(h, pointcount).file = h.file
        /\ PointAt(h, pointcount).frame = h.frame
        /\ PointAt(h, pointcount).k = PointAt(h, pointcount).n
    BY <1>4 DEF PointAt
  <2>5. ring' # <<>> => /\ Last(ring').file = h.file /\ Last(ring').frame = h.frame
                        /\ Last(ring').k = Last(ring').n
    BY <1>7, <2>2, <2>4
  <2>6. /\ file' # None => fptr' # 0
        /\ file' # None /\ ring' # <<>> => /\ Last(ring').file = file'
                                          /\ Last(ring').k = Last(ring').n
                                          /\ NextIsFrame(Last(ring).frame + 1)'
    BY <1>3, <1>5, <2>3, <2>5 DEF NextIsFrame
  <2>7. ~InFrame' /\ ~InFile'
    BY <2>1 DEF InFrame, InFile
  <2>8. QED
    BY <1>7, <2>1, <2>6, <2>7 DEF OrderInv
<1>11. CASE /\ fplay_points_left = w /\ fplay_repeat_count # 1
            /\ pointcount <= SMALL_FRAME_THRESHOLD
  <2>1. /\ fplay_state' = "SMALL_FRAME" /\ fplay_points_left' = pointcount
        /\ fptr' = IF fplay_state = "ILDA" THEN fptr + w ELSE fptr
    BY <1>2, <1>3, <1>11 DEF Continue, w
  <2>2. m + w = pointcount /\ pointcount >= 1 /\ PointNo' = 0
    BY <1>1, <1>2, <1>3, <1>11, <2>1 DEF PointNo
  <2>3. \A k \in 1 .. pointcount : small'[k] = PointAt(h, k)
    <3>1. CASE fplay_state = "ILDA"
      BY <1>8, <1>11, <2>2, <3>1
    <3>2. CASE fplay_state = "SMALL_FRAME"
      BY <1>3, <3>2 DEF OrderInv, h
    <3>3. QED
      BY <1>1, <3>1, <3>2
  <2>4. OpenHeader' = PointAt(h, 1)
    BY <1>2, <2>1, <2>2, <2>3 DEF OpenHeader
  <2>5. /\ OpenHeader'.file = h.file /\ OpenHeader'.frame = h.frame
        /\ OpenHeader'.n = pointcount
        /\ \A k : PointAt(OpenHeader', k) = PointAt(h, k)
    BY <1>4, <2>4 DEF PointAt
  <2>6. ring' # <<>> => Follows(Last(ring'), PointAt(OpenHeader', PointNo' + 1))
    <3>1. Follows(PointAt(h, pointcount), PointAt(h, 1))
      BY <1>4 DEF Follows, PointAt
    <3>2. QED
      BY <1>7, <2>2, <2>5, <3>1
  <2>7. file # None => /\ h.file = file /\ fptr' > 0
                       /\ fptr' < Len(Items) /\ Items[fptr' + 1].k = 0
                            => Items[fptr' + 1].frame = h.frame + 1
    BY <1>9, <1>11, <2>1
  <2>8. file' # None => NextIsFrame(OpenHeader.frame + 1)'
    BY <1>3, <1>5, <2>5, <2>7 DEF NextIsFrame
  <2>9. ~InFile'
    BY <2>1 DEF InFile
  <2>10. QED
    BY <1>3, <1>7, <2>1, <2>3, <2>5, <2>6, <2>7, <2>8, <2>9 DEF OrderInv
<1>12. CASE /\ fplay_points_left = w /\ fplay_repeat_count # 1
            /\ ~(pointcount <= SMALL_FRAME_THRESHOLD)
  <2>1. fplay_state = "ILDA"
    BY <1>1, <1>12 DEF TypeOK
  <2>2. /\ fplay_state' = "ILDA" /\ fplay_points_left' = pointcount
        /\ fptr' = fplay_frame_start
    BY <1>2, <1>3, <1>12, <2>1 DEF Continue, w
  <2>3. m + w = pointcount /\ pointcount >= 1 /\ PointNo' = 0
    BY <1>1, <1>2, <1>3, <1>12, <2>2 DEF PointNo
  <2>4. OpenHeader' = h /\ h.k = 0
    BY <1>1, <1>3, <1>5, <2>1, <2>2 DEF OpenHeader, OrderInv, h
  <2>5. ring' # <<>> => Follows(Last(ring'), PointAt(h, PointNo' + 1))
    <3>1. Follows(PointAt(h, pointcount), PointAt(h, 1))
      BY <1>4 DEF Follows, PointAt
    <3>2. QED
      BY <1>7, <2>3, <3>1
  <2>6. fptr' = fplay_frame_start' + PointNo'
    BY <1>3, <2>2, <2>3 DEF TypeOK
  <2>7. fplay_state' # "SMALL_FRAME" /\ fplay_state' # "BETWEEN_FRAMES"
    BY <2>2
  <2>8. ~(pointcount' <= SMALL_FRAME_THRESHOLD)
    BY <1>3, <1>12
  <2>9. QED
    BY <1>3, <1>4, <1>7, <2>4, <2>5, <2>6, <2>7, <2>8 DEF OrderInv
<1>13. CASE fplay_points_left - w > 0
  <2>1. /\ fplay_state' = fplay_state /\ fplay_points_left' = fplay_points_left - w
        /\ fptr' = IF fplay_state = "ILDA" THEN fptr + w ELSE fptr
    BY <1>3, <1>13 DEF Continue, w
  <2>2. PointNo' = m + w
    BY <1>1, <1>2, <1>3, <2>1 DEF PointNo, m
  <2>3. OpenHeader' = h
    <3>1. small'[1] = small[1] \/ fplay_state # "SMALL_FRAME"
      BY <1>3
    <3>2. QED
      BY <1>3, <1>5, <2>1, <3>1 DEF OpenHeader, h
  <2>4. ring' # <<>> => Follows(Last(ring'), PointAt(h, PointNo' + 1))
    <3>1. Follows(PointAt(h, m + w), PointAt(h, m + w + 1))
      BY DEF Follows, PointAt
    <3>2. QED
      BY <1>7, <2>2, <3>1
  <2>5. CASE fplay_state = "ILDA"
    <3>1. /\ h.k = 0 /\ fptr = fplay_frame_start + m
      BY <1>1, <2>5 DEF OrderInv, h, m
    <3>2. fptr' = fplay_frame_start' + PointNo'
      BY <1>1, <1>2, <1>3, <2>1, <2>2, <2>5, <3>1 DEF TypeOK
    <3>3. QED
      BY <1>3, <1>4, <1>7, <1>8, <2>1, <2>2, <2>3, <2>4, <2>5, <3>1, <3>2 DEF OrderInv
  <2>6. CASE fplay_state = "SMALL_FRAME"
    <3>1. small' = small /\ ~InFile' /\ fptr' = fptr
      BY <1>3, <2>1, <2>6 DEF InFile
    <3>2. /\ \A k \in 1 .. pointcount : small[k] = PointAt(h, k)
          /\ file # None => /\ h.file = file /\ fptr > 0
                            /\ NextIsFrame(h.frame + 1)
      BY <2>6 DEF OrderInv, h
    <3>3. \A f : NextIsFrame(f) => NextIsFrame(f)'
      BY <1>5, <3>1 DEF NextIsFrame
    <3>4. file' # None => NextIsFrame(OpenHeader.frame + 1)'
      BY <1>3, <2>3, <3>2, <3>3
    <3>5. QED
      BY <1>3, <1>4, <1>7, <2>1, <2>3, <2>4, <2>6, <3>1, <3>2, <3>4 DEF OrderInv
  <2>7. QED
    BY <1>1, <2>5, <2>6
<1>14. QED
  BY <1>1, <1>2, <1>13, <1>10, <1>11, <1>12, PlayerAssumption

LEMMA OrderPreserved ==
  ASSUME TypeOK, RefillInv, PaceInv, OrderInv, [Next]_vars
  PROVE  OrderInv'
BY StepKinds, OrderNoRead, OrderHeader, OrderFails, OrderPoints

-----------------------------------------------------------------------------
(* The refill and the types.                                               *)

LEMMA RefillPreserved ==
  ASSUME TypeOK, RefillInv, PaceInv, [Next]_vars
  PROVE  RefillInv'
<1> USE DEF RefillInv, Live, Stopped, dacVars, srcVars, fileVars
<1>1. /\ DAC_BUFFER_POINTS \in Nat \ {0} /\ Len(ring) \in Nat /\ ring \in Seq(Item)
      /\ ring \o <<>> = ring
  BY PlayerAssumption, LenProperties, ConcatEmptySeq DEF TypeOK
<1>2. CASE UNCHANGED vars
  BY <1>2 DEF vars
<1>3. ASSUME NEW c, Execute(c), IsCommand(c), pc' = "eth" \/ pc' = "ilda"
      PROVE  RefillInv'
  <2>1. UNCHANGED dacVars \/ ring' = <<>>
    BY <1>3, CommandKinds DEF DacReset
  <2>2. QED
    BY <1>3, <2>1
<1>4. CASE autoplay_poll
  <2>1. CASE AutoplayWaits \/ AutoplayEnds
    BY <1>4, <2>1 DEF AutoplayWaits, AutoplayEnds, autoplay_poll
  <2>2. CASE AutoplayLine
    <3>1. NextLine # BadLine /\ Execute(NextLine)
      BY <2>2 DEF AutoplayLine
    <3>2. IsCommand(NextLine)
      BY <3>1, CommandsAssumption DEF NextLine, TypeOK
    <3>3. pc' = "eth"
      BY <1>4 DEF autoplay_poll
    <3>4. QED
      BY <1>3, <3>1, <3>2, <3>3
  <2>3. QED
    BY <1>4, <2>1, <2>2 DEF autoplay_poll
<1>5. CASE eth_poll_1
  <2>1. pc' = "ilda"
    BY <1>5 DEF eth_poll_1
  <2>2. CASE UNCHANGED <<fileVars, srcVars, oscVars, dacVars>>
    BY <2>1, <2>2
  <2>3. CASE \E c \in Commands : Execute(c)
    BY <1>3, <2>1, <2>3, CommandsAssumption
  <2>4. QED
    BY <1>5, <2>2, <2>3 DEF eth_poll_1
<1>6. CASE ilda_osc_poll
  BY <1>6 DEF ilda_osc_poll
<1>7. CASE RefillBegin
  <2>1. CASE src = "ILDAPLAYER" /\ dac_request > 0 /\ playing
    <3>1. dac # "IDLE"
      BY <2>1 DEF dac_request
    <3>2. dac_request + Len(ring) < DAC_BUFFER_POINTS /\ dac_request \in Nat
      BY <3>1, RoomInRing
    <3>3. /\ dlen' = dac_request /\ UNCHANGED <<ring, dac, src, playing, fplay_state>>
          /\ pc' = IF fplay_state = "BETWEEN_FRAMES" THEN "header" ELSE "read"
      BY <1>7, <2>1 DEF RefillBegin
    <3> HIDE DEF RefillInv
    <3>4. QED
      BY <1>1, <2>1, <3>1, <3>2, <3>3 DEF RefillInv
  <2>2. CASE ~(src = "ILDAPLAYER" /\ dac_request > 0 /\ playing)
    <3>1. pc' = "autoplay" /\ ring' = ring /\ (dac' = "IDLE" => dac = "IDLE")
      BY <1>7, <2>2 DEF RefillBegin, dac_prepare, dac_start
    <3>2. QED
      BY <3>1
  <2>3. QED
    BY <2>1, <2>2
<1>8. CASE RefillHeader
  BY <1>8 DEF RefillHeader, OpenFrame
<1>9. CASE RefillAtEnd \/ RefillFails \/ RefillPoints
  <2>1. PICK points, limit : RefillEnd(points, limit)
    BY <1>9 DEF RefillAtEnd, RefillFails, RefillPoints
  <2>2. /\ pc' = "autoplay" /\ (dac' = "IDLE" => dac = "IDLE")
        /\ dac = "IDLE" => ring' = ring
    BY <2>1 DEF RefillEnd, dac_advance
  <2>3. QED
    BY <2>2
<1>10. CASE RefillPanics
  BY <1>10 DEF RefillPanics
<1>11. CASE Tick
  <2>1. CASE ring = <<>>
    BY <1>11, <2>1 DEF Tick
  <2>2. CASE ring # <<>>
    <3>1. Len(ring') = Len(ring) - 1
      BY <1>1, <1>11, <2>2, HeadTailProperties DEF Tick
    <3>2. dlen \in Nat
      BY <1>1 DEF TypeOK
    <3>3. QED
      BY <1>1, <1>11, <2>2, <3>1, <3>2 DEF Tick
  <2>3. QED
    BY <2>1, <2>2
<1>12. CASE Estop
  BY <1>12 DEF Estop
<1>13. CASE EstopClear
  BY <1>13 DEF EstopClear
<1>14. CASE Stream
  BY <1>14 DEF Stream, dac_prepare
<1>15. QED
  BY <1>2, <1>4, <1>5, <1>6, <1>7, <1>8, <1>9, <1>10, <1>11, <1>12, <1>13, <1>14
     DEF Next, Poll, playback_refill

(* The part of TypeOK that is about the reader and its points.             *)
ReaderType ==
  /\ file \in 0 .. Len(Files) /\ fptr \in Nat
  /\ file # None => fptr <= Len(Items)
  /\ fplay_state \in {"BETWEEN_FRAMES", "ILDA", "SMALL_FRAME", "BAD"}
  /\ fplay_points_left \in 0 .. pointcount /\ fplay_repeat_count \in Nat
  /\ fplay_state = "SMALL_FRAME" => pointcount <= SMALL_FRAME_THRESHOLD
  /\ fplay_offset \in Int /\ drift \in Int
  /\ pointcount \in Nat /\ fplay_frame_start \in Nat
  /\ small \in [1 .. SMALL_FRAME_THRESHOLD -> Item]
  /\ ring \in Seq(Item) /\ Len(ring) < DAC_BUFFER_POINTS

LEMMA ReaderNoRead ==
  ASSUME TypeOK, NoRead
  PROVE  ReaderType'
<1>1. ring' \in Seq(Item) /\ Len(ring') < DAC_BUFFER_POINTS
  BY Drops, LenProperties, PlayerAssumption DEF NoRead, TypeOK
<1>2. CASE Quiet
  BY <1>1, <1>2 DEF Quiet, fileKept, fileVars, TypeOK, ReaderType, Items
<1>3. CASE Opened
  <2>1. /\ file' \in 1 .. Len(Files) /\ fptr' = 0 /\ fplay_state' = "BETWEEN_FRAMES"
        /\ fplay_offset' = 0 /\ drift' = 0
        /\ UNCHANGED <<fplay_points_left, fplay_repeat_count, fplay_frame_start,
                       pointcount, small>>
    BY <1>3 DEF Opened, ilda_reset_file
  <2>2. Items' = Files[file'] /\ Len(Items') \in Nat
    BY <2>1, FilesAssumption, LenProperties, ElementOfSeq DEF Items, None
  <2>3. QED
    BY <1>1, <2>1, <2>2 DEF TypeOK, ReaderType
<1>4. CASE Closed
  <2>1. Len(Files) \in Nat
    BY FilesAssumption, LenProperties
  <2>2. QED
    BY <1>1, <1>4, <2>1 DEF Closed, TypeOK, ReaderType, None
<1>5. QED
  BY <1>2, <1>3, <1>4 DEF NoRead

LEMMA ReaderPoints ==
  ASSUME TypeOK, RefillInv, PaceInv, RefillPoints
  PROVE  ReaderType'
<1> DEFINE w == Wanted
<1>1. /\ InFrame /\ w \in 1 .. dlen /\ w <= fplay_points_left
      /\ Points \in Seq(Item) /\ Len(Points) = w
      /\ fplay_state \in {"ILDA", "SMALL_FRAME"}
      /\ fplay_state = "ILDA" => InFile /\ fptr + w <= Len(Items)
  BY PointsRead DEF RefillPoints
<1>2. /\ fplay_repeat_count \in Nat \ {0} /\ fplay_points_left \in Nat \ {0}
      /\ pointcount \in Nat /\ fplay_points_left <= pointcount /\ fptr \in Nat
      /\ dlen \in Nat /\ drift \in Int
  BY <1>1, PlayerAssumption DEF PaceInv, TypeOK
<1>3. /\ Continue /\ drift' = drift + w
      /\ UNCHANGED <<file, fplay_offset, fplay_frame_start, pointcount>>
      /\ small' = IF fplay_state = "ILDA" /\ pointcount <= SMALL_FRAME_THRESHOLD
                 THEN [k \in DOMAIN small |->
                        IF k \in PointNo + 1 .. PointNo + w
                        THEN Points[k - PointNo] ELSE small[k]]
                 ELSE small
  BY DEF RefillPoints, ReadPoints
<1> HIDE DEF w
<1>4. small' \in [1 .. SMALL_FRAME_THRESHOLD -> Item]
  <2>1. \A j \in 1 .. w : Points[j] \in Item
    BY <1>1, ElementOfSeq
  <2>2. PointNo \in Int /\ w \in Int
    BY <1>1, <1>2 DEF PointNo
  <2>3. \A k \in PointNo + 1 .. PointNo + w : Points[k - PointNo] \in Item
    BY <2>1, <2>2
  <2>4. QED
    BY <1>3, <2>3 DEF TypeOK
<1>5. /\ fplay_points_left' \in 0 .. pointcount /\ fplay_repeat_count' \in Nat
      /\ fplay_state' \in {"BETWEEN_FRAMES", "ILDA", "SMALL_FRAME", "BAD"}
  BY <1>1, <1>2, <1>3 DEF Continue, w
<1>6. /\ fplay_state' = "SMALL_FRAME" => pointcount <= SMALL_FRAME_THRESHOLD
  BY <1>1, <1>3 DEF Continue, TypeOK
<1>7. /\ fptr' \in Nat /\ (file # None => fptr' <= Len(Items)) /\ Items' = Items
  <2>1. Items' = Items
    BY <1>3 DEF Items
  <2>2. CASE fplay_state = "ILDA"
    <3>1. fplay_frame_start \in 1 .. fptr
      BY <1>1, <2>2 DEF PaceInv
    <3>2. fptr' = fptr + w \/ fptr' = fplay_frame_start
      BY <1>3, <2>2 DEF Continue, w
    <3>3. QED
      BY <1>1, <1>2, <2>1, <2>2, <3>1, <3>2, ItemsType
  <2>3. CASE fplay_state = "SMALL_FRAME"
    <3>1. fptr' = fptr
      BY <1>3, <2>3 DEF Continue, TypeOK
    <3>2. QED
      BY <2>1, <3>1 DEF TypeOK
  <2>4. QED
    BY <1>1, <2>2, <2>3
<1>8. ring' \in Seq(Item) /\ Len(ring') < DAC_BUFFER_POINTS
  <2>1. ring' = IF dac = "IDLE" THEN ring ELSE ring \o Points
    BY DEF RefillPoints, RefillEnd, dac_advance
  <2>2. dac # "IDLE" => Len(ring) + dlen < DAC_BUFFER_POINTS
    BY DEF RefillInv, RefillPoints
  <2>3. /\ ring \in Seq(Item) /\ Len(ring) \in Nat /\ DAC_BUFFER_POINTS \in Nat
        /\ Len(ring) < DAC_BUFFER_POINTS
    BY LenProperties, PlayerAssumption DEF TypeOK
  <2>4. ring \o Points \in Seq(Item) /\ Len(ring \o Points) = Len(ring) + w
    BY <1>1, <2>3, Joined
  <2>5. QED
    BY <1>1, <1>2, <2>1, <2>2, <2>3, <2>4
<1>9. QED
  BY SMTT(20), <1>2, <1>3, <1>4, <1>5, <1>6, <1>7, <1>8 DEF ReaderType, TypeOK

LEMMA ReaderPreserved ==
  ASSUME TypeOK, RefillInv, PaceInv, [Next]_vars
  PROVE  ReaderType'
<1>1. CASE NoRead
  BY <1>1, ReaderNoRead
<1>2. CASE RefillHeader
  <2> DEFINE n == Items[fptr + 1].n
  <2>1. file # None /\ fptr # Len(Items) /\ n # Unknown
    BY <1>2 DEF RefillHeader, HeaderSays
  <2>2. fptr + 1 \in 1 .. Len(Items) /\ Len(Items) \in Nat
    BY <2>1, ItemsType DEF TypeOK
  <2>3. n \in Nat
    BY <2>1, <2>2, ItemsType DEF Item
  <2> HIDE DEF n
  <2>4. n # 0
    BY <1>2 DEF RefillHeader, HeaderSays, n
  <2>5. OpenFrame(n) /\ UNCHANGED dacVars
    BY <1>2 DEF RefillHeader, n
  <2> DEFINE r == RepeatCount(n)
  <2>6. r \in Nat
    BY <2>3, <2>4, RepeatCountRounds DEF TypeOK
  <2>7. r * n \in Int
    BY <2>3, <2>6
  <2>8. fplay_offset' = IF ppf = 0 THEN fplay_offset ELSE fplay_offset + r * n - ppf
    BY <2>5 DEF OpenFrame
  <2>9. /\ fptr' = fptr + 1 /\ fplay_state' = "ILDA" /\ fplay_repeat_count' = r
        /\ drift' = drift - (IF ppf = 0 THEN n ELSE ppf)
        /\ fplay_points_left' = n /\ pointcount' = n
        /\ fplay_frame_start' = fptr + 1 /\ UNCHANGED <<file, small, ring>>
    BY <2>5 DEF OpenFrame, dacVars
  <2> HIDE DEF r
  <2>10. fplay_offset' \in Int /\ drift' \in Int
    BY <2>3, <2>7, <2>8, <2>9 DEF TypeOK
  <2>11. Items' = Items
    BY <2>9 DEF Items
  <2>12. QED
    BY <2>2, <2>3, <2>6, <2>9, <2>10, <2>11 DEF ReaderType, TypeOK
<1>3. CASE RefillFails
  <2>1. ring' = ring
    <3>1. ring' = ring \/ ring' = ring \o <<>>
      BY <1>3 DEF RefillFails, RefillEnd, dac_advance
    <3>2. QED
      BY <3>1, ConcatEmptySeq DEF TypeOK
  <2>2. fplay_state' \in {fplay_state, "BAD", "ILDA"}
    BY <1>3 DEF RefillFails
  <2>3. QED
    BY <1>3, <2>1, <2>2 DEF RefillFails, ReaderType, TypeOK, Items
<1>4. CASE RefillPoints
  BY <1>4, ReaderPoints
<1>5. QED
  BY <1>1, <1>2, <1>3, <1>4, StepKinds

(* The rest of it.                                                         *)
SystemType ==
  /\ ppf \in Int /\ request \in Nat \cup {-1} /\ commands \in 0 .. MaxCommands
  /\ src \in {"NETWORK", "ILDAPLAYER", "ABSTRACT"}
  /\ playing \in BOOLEAN /\ repeat \in BOOLEAN /\ active \in BOOLEAN
  /\ ready \in BOOLEAN /\ failed \in BOOLEAN
  /\ line \in 0 .. Len(Script)
  /\ dac \in {"IDLE", "PREPARED", "PLAYING"}
  /\ produce \in 0 .. DAC_BUFFER_POINTS - 1
  /\ dlen \in 0 .. DAC_BUFFER_POINTS
  /\ pc \in {"autoplay", "eth", "ilda", "refill", "header", "read", "panic"}

LEMMA SystemPreserved ==
  ASSUME TypeOK, RefillInv, PaceInv, [Next]_vars
  PROVE  SystemType'
<1>1. /\ DAC_BUFFER_POINTS \in Nat \ {0} /\ MaxCommands \in Nat /\ Len(Script) \in Nat
      /\ 0 \in 0 .. DAC_BUFFER_POINTS - 1
  BY PlayerAssumption, CommandsAssumption
<1>2. SystemType
  BY DEF TypeOK, SystemType
<1> USE DEF SystemType, Stopped, dacVars, srcVars, oscVars, autoVars
<1>3. CASE UNCHANGED vars
  BY <1>2, <1>3 DEF vars
<1>4. ASSUME NEW c, Execute(c), IsCommand(c)
      PROVE  /\ src' \in {"NETWORK", "ILDAPLAYER", "ABSTRACT"}
             /\ playing' \in BOOLEAN /\ repeat' \in BOOLEAN
             /\ ppf' \in Int /\ request' \in Nat \cup {-1}
             /\ dac' \in {"IDLE", "PREPARED", "PLAYING"}
             /\ produce' \in 0 .. DAC_BUFFER_POINTS - 1
  BY <1>1, <1>2, <1>4, CommandKinds DEF DacReset
<1>5. CASE autoplay_poll
  <2>1. CASE AutoplayWaits \/ AutoplayEnds
    BY <1>2, <1>5, <2>1 DEF AutoplayWaits, AutoplayEnds, autoplay_poll
  <2>2. CASE AutoplayLine
    <3>1. NextLine # BadLine /\ Execute(NextLine)
      BY <2>2 DEF AutoplayLine
    <3>2. IsCommand(NextLine)
      BY <3>1, CommandsAssumption DEF NextLine, TypeOK
    <3>3. line + 1 \in 0 .. Len(Script)
      BY <1>1, <1>2, <3>1 DEF NextLine
    <3>4. UNCHANGED <<active, commands, failed, ready, dlen>> /\ line' = line + 1 /\ pc' = "eth"
      BY <1>5, <2>2 DEF AutoplayLine, autoplay_poll
    <3>5. QED
      BY <1>2, <1>4, <3>1, <3>2, <3>3, <3>4
  <2>3. QED
    BY <1>5, <2>1, <2>2 DEF autoplay_poll
<1>6. CASE eth_poll_1
  <2>1. UNCHANGED <<active, line, failed, ready, dlen>> /\ pc' = "ilda"
    BY <1>6 DEF eth_poll_1
  <2>2. CASE UNCHANGED <<fileVars, srcVars, oscVars, dacVars>>
    BY <1>2, <2>1, <2>2
  <2>3. CASE commands < MaxCommands /\ commands' = commands + 1 /\ \E c \in Commands : Execute(c)
    <3>1. commands' \in 0 .. MaxCommands
      BY <1>1, <1>2, <2>3
    <3>2. QED
      BY <1>2, <1>4, <2>1, <2>3, <3>1, CommandsAssumption
  <2>4. QED
    BY <1>6, <2>2, <2>3 DEF eth_poll_1
<1>7. CASE ilda_osc_poll
  <2>1. playing' \in BOOLEAN /\ request' \in Nat \cup {-1}
    <3>1. CASE walk_fs
      BY <1>2, <3>1 DEF walk_fs
    <3>2. CASE UNCHANGED <<playing, request>>
      BY <1>2, <3>2
    <3>3. QED
      BY <1>7, <3>1, <3>2 DEF ilda_osc_poll
  <2>2. /\ pc' = "refill"
        /\ UNCHANGED <<src, repeat, ppf, commands, autoVars, dacVars, ready, dlen, failed>>
    BY <1>7 DEF ilda_osc_poll
  <2>3. QED
    BY <1>2, <2>1, <2>2
<1>8. CASE RefillBegin
  <2>1. dac_request > 0 => dac_request \in 0 .. DAC_BUFFER_POINTS
    BY RoomInRing DEF dac_request
  <2>2. QED
    BY <1>2, <1>8, <2>1 DEF RefillBegin, dac_prepare, dac_start
<1>9. ASSUME NEW points \in Seq(Item), NEW limit, RefillEnd(points, limit)
      PROVE  /\ dac' \in {"IDLE", "PREPARED", "PLAYING"}
             /\ produce' \in 0 .. DAC_BUFFER_POINTS - 1
             /\ pc' = "autoplay" /\ dlen' = 0
             /\ UNCHANGED <<src, repeat, oscVars, autoVars, ready>>
  <2>1. Len(points) \in Nat /\ produce + Len(points) \in Nat
    BY <1>1, <1>2, LenProperties
  <2>2. (produce + Len(points)) % DAC_BUFFER_POINTS \in 0 .. DAC_BUFFER_POINTS - 1
    BY <1>1, <2>1, SMT
  <2>3. QED
    BY <1>2, <1>9, <2>2 DEF RefillEnd, dac_advance
<1>10. <<>> \in Seq(Item) /\ 0 \in 0 .. DAC_BUFFER_POINTS
  BY <1>1, EmptySeq
<1>11. CASE RefillHeader
  BY <1>2, <1>11 DEF RefillHeader
<1>12. CASE RefillAtEnd
  <2>1. playing' = repeat /\ failed' = failed /\ \E limit : RefillEnd(<<>>, limit)
    BY <1>12 DEF RefillAtEnd
  <2>2. QED
    BY <1>2, <1>9, <1>10, <2>1
<1>13. CASE RefillFails
  BY <1>2, <1>9, <1>10, <1>13 DEF RefillFails
<1>14. CASE RefillPoints
  BY <1>2, <1>9, <1>10, <1>14, PointsRead DEF RefillPoints
<1>15. CASE RefillPanics
  BY <1>1, <1>2, <1>15 DEF RefillPanics
<1>16. CASE Tick
  BY <1>1, <1>2, <1>16 DEF Tick
<1>17. CASE Estop
  <2>1. commands' \in 0 .. MaxCommands
    BY <1>1, <1>2, <1>17 DEF Estop
  <2>2. QED
    BY <1>1, <1>2, <1>17, <2>1 DEF Estop
<1>18. CASE EstopClear
  BY <1>2, <1>18 DEF EstopClear
<1>19. CASE Stream
  <2>1. commands' \in 0 .. MaxCommands
    BY <1>1, <1>2, <1>19 DEF Stream
  <2>2. dac' \in {"IDLE", "PREPARED", "PLAYING"} /\ produce' \in 0 .. DAC_BUFFER_POINTS - 1
    BY <1>1, <1>2, <1>19 DEF Stream, dac_prepare
  <2>3. UNCHANGED <<fileVars, srcVars, ppf, request, autoVars, ready, pc, dlen, failed>>
    BY <1>19 DEF Stream
  <2>4. QED
    BY <1>2, <2>1, <2>2, <2>3
<1>20. QED
  BY <1>3, <1>5, <1>6, <1>7, <1>8, <1>11, <1>12, <1>13, <1>14, <1>15, <1>16, <1>17,
     <1>18, <1>19 DEF Next, Poll, playback_refill

-----------------------------------------------------------------------------
(* The theorems.                                                           *)

LEMMA InitialStates ==
  ASSUME Init
  PROVE  TypeOK /\ RefillInv /\ PaceInv /\ OrderInv
<1>1. <<>> \in Seq(Item) /\ Len(<<>>) = 0
  BY EmptySeq
<1>2. NoPoint \in Item
  BY DEF NoPoint, Item
<1>3. TypeOK
  <2>1. /\ Len(Files) \in Nat /\ Len(Script) \in Nat /\ MaxCommands \in Nat
        /\ SMALL_FRAME_THRESHOLD \in Nat /\ PointsPerFrame \subseteq Nat
        /\ DAC_BUFFER_POINTS \in Nat \ {0}
    BY PlayerAssumption, FilesAssumption, CommandsAssumption, LenProperties
  <2>2. small \in [1 .. SMALL_FRAME_THRESHOLD -> Item]
    BY <1>2 DEF Init
  <2>3. active \in BOOLEAN
    BY DEF Init
  <2>4. ReaderType
    BY <1>1, <2>1, <2>2 DEF Init, ReaderType, None
  <2>5. /\ line = 0 /\ src = "NETWORK" /\ playing = FALSE /\ repeat = FALSE
        /\ request = 0 /\ commands = 0 /\ ppf \in PointsPerFrame
        /\ dac = "IDLE" /\ produce = 0 /\ ready = TRUE /\ failed = FALSE
        /\ pc = "autoplay" /\ dlen = 0
    BY DEF Init
  <2>6. SystemType
    <3>1. /\ ppf \in Int /\ request \in Nat \cup {-1} /\ commands \in 0 .. MaxCommands
          /\ line \in 0 .. Len(Script)
          /\ produce \in 0 .. DAC_BUFFER_POINTS - 1
          /\ dlen \in 0 .. DAC_BUFFER_POINTS
      BY <2>1, <2>5
    <3>2. QED
      BY <2>3, <2>5, <3>1 DEF SystemType
  <2>7. QED
    BY <2>4, <2>6 DEF ReaderType, SystemType, TypeOK
<1>4. QED
  BY <1>1, <1>3 DEF Init, RefillInv, PaceInv, OrderInv, FramesInOrder, InFrame, InFile, None

LEMMA Inductive ==
  ASSUME TypeOK, RefillInv, PaceInv, OrderInv, [Next]_vars
  PROVE  (TypeOK /\ RefillInv /\ PaceInv /\ OrderInv)'
<1>1. TypeOK'
  BY ReaderPreserved, SystemPreserved DEF ReaderType, SystemType, TypeOK
<1>2. QED
  BY <1>1, RefillPreserved, PacePreserved, OrderPreserved

LEMMA Invariance == Spec => [](TypeOK /\ RefillInv /\ PaceInv /\ OrderInv)
<1>1. Init => TypeOK /\ RefillInv /\ PaceInv /\ OrderInv
  BY InitialStates
<1>2. TypeOK /\ RefillInv /\ PaceInv /\ OrderInv /\ [Next]_vars
        => (TypeOK /\ RefillInv /\ PaceInv /\ OrderInv)'
  BY Inductive
<1>3. QED
  BY <1>1, <1>2, PTL DEF Spec

(* Every variable has its type; among them the ring, which never holds     *)
(* more than the DAC has room for, though the interrupt and the emergency  *)
(* stop share it and the room was asked for long before the points came    *)
(* (playback_refill).                                                      *)
THEOREM TypeCorrect == Spec => []TypeOK
BY Invariance, PTL

(* The show keeps the pace that was asked for, for every file, every       *)
(* sequence of limits and every size of the ring (ilda_read_frame_header,  *)
(* ilda_do_read_points).                                                   *)
THEOREM KeepsThePace == Spec => []PaceKept
<1>1. TypeOK /\ PaceInv => PaceKept
  BY DEF PaceInv, PaceKept, TypeOK
<1>2. QED
  BY <1>1, Invariance, PTL

(* Whole frames are shown in the order of the file, from the card, from    *)
(* memory and from the card again (ilda_do_read_points, playback_refill).  *)
THEOREM ShowsFramesInOrder == Spec => []FramesInOrder
<1>1. OrderInv => FramesInOrder
  BY DEF OrderInv
<1>2. QED
  BY <1>1, Invariance, PTL
=============================================================================
