----------------------------- MODULE FilePlayer -----------------------------
(***************************************************************************)
(* Playback of files from the SD card: the readers of ILDA and WAV files   *)
(* (firmware/file/ild-player.c), the refill poll that moves their points   *)
(* to the DAC's ring (firmware/file/playback.c), the /ilda commands        *)
(* (firmware/net/ilda-osc.c) and the autoplay script                       *)
(* (firmware/file/autoplay.c).                                             *)
(*                                                                         *)
(* A file is a sequence of items, a frame's header (k = 0) and its points  *)
(* (k = 1 .. n); a WAV file is one frame.  The main loop calls the polls   *)
(* in the order of the linker's table, which is sorted by name:            *)
(* autoplay_poll, eth_poll_1 (at most one command), ilda_osc_poll,         *)
(* playback_refill.  The LDAC interrupt falls between any two steps, and   *)
(* between the refill's dac_request and the rest of it.                    *)
(*                                                                         *)
(* The DAC is Dac.tla's, reduced to what the refill sees of it: its state, *)
(* the points in its ring and the index the next one goes to.              *)
(***************************************************************************)
EXTENDS Integers, SequencesExt

CONSTANTS
  Files,                 (* The card: a sequence of files in directory order. *)
  Script,                (* The lines of autoplay.txt; BadLine ends it.       *)
  Commands,              (* The OSC commands of this instance.                *)
  MaxCommands,           (* Bound: commands that arrive.                      *)
  PointsPerFrame,        (* Values of ilda_points_per_frame; 0 is no limit.   *)
  SMALL_FRAME_THRESHOLD, (* Frames no longer than this are kept in memory.    *)
  MAX_POINTS_PER_LOOP,   (* Points read in one call.                          *)
  DAC_BUFFER_POINTS,     (* Length of the ring.                               *)
  NearlyFull,            (* Less room than this starts the DAC (200).         *)
  CardFails              (* Whether the card may fail.                        *)

ASSUME PlayerAssumption ==
  /\ {SMALL_FRAME_THRESHOLD, MAX_POINTS_PER_LOOP, NearlyFull} \subseteq Nat \ {0}
  /\ DAC_BUFFER_POINTS \in Nat /\ NearlyFull < DAC_BUFFER_POINTS
  /\ MaxCommands \in Nat /\ PointsPerFrame \subseteq Nat /\ CardFails \in BOOLEAN

VARIABLES
  file, fptr,               \* fplay_file: 0 (not open) or its number; items read
  fplay_state,              \* BETWEEN_FRAMES, ILDA (from the file), SMALL_FRAME,
                            \* BAD (the number of a format it does not know)
  fplay_points_left, fplay_repeat_count, fplay_offset,
  fplay_frame_start,        \* fptr at the first point of the frame
  pointcount,               \* ilda_frame_pointcount
  small,                    \* fplay_small_frame_buffer
  ppf,                      \* ilda_points_per_frame
  src, playing, repeat,     \* playback_src and playback_source_flags
  request,                  \* walk_fs_request: 0, -1 (list) or a file's number
  active, line,             \* autoplay: still reading; lines read
  dac, ring, produce,       \* the DAC
  ready,                    \* the light engine is READY
  pc, dlen,                 \* the poll that is next; what dac_request said
  commands,                 \* bound: commands so far
  drift,                    \* history: points shown less points due
  failed                    \* history: a read has failed

fileVars == <<file, fptr, fplay_state, fplay_points_left, fplay_repeat_count,
              fplay_offset, fplay_frame_start, pointcount, small, drift>>
srcVars  == <<src, playing, repeat>>
oscVars  == <<ppf, request, commands>>
autoVars == <<active, line>>
dacVars  == <<dac, ring, produce>>
vars == <<fileVars, srcVars, oscVars, autoVars, dacVars, ready, pc, dlen,
          failed>>

None    == 0
NoPoint == [file |-> 0, frame |-> 0, k |-> 0, n |-> 0]
Unknown == -1    \* n of a header of another format than 0, 1, 4 or 5
BadLine == [op |-> "bad"]

Item == [file : Nat, frame : Nat, k : Nat, n : Nat \cup {Unknown}]

(* The k-th point of the frame whose header is h; its 0-th is the header.  *)
PointAt(h, k) == [file |-> h.file, frame |-> h.frame, k |-> k, n |-> h.n]

(* A file begins with its first frame, a header is followed by its frame's *)
(* points, and where they end by the next frame's header or by bytes that  *)
(* are none.  The file may be cut short anywhere.                          *)
IsFile(s, f) ==
  /\ \A i \in DOMAIN s : s[i].file = f
  /\ s # <<>> /\ s[1].k = 0 => s[1].frame = 1
  /\ \A i \in DOMAIN s : s[i].k = 0 /\ s[i].n > 0 =>
       /\ \A k \in 1 .. s[i].n :
            i + k <= Len(s) => s[i + k] = PointAt(s[i], k)
       /\ LET e == i + s[i].n + 1
          IN e <= Len(s) /\ s[e].k = 0 => s[e].frame = s[i].frame + 1

ASSUME FilesAssumption ==
  /\ Files \in Seq(Seq(Item))
  /\ \A f \in DOMAIN Files : IsFile(Files[f], f)

(* What a command or a line of the script may be: the file of a name is    *)
(* None when there is no such file.                                        *)
IsCommand(c) ==
  \/ c.op = "play"   /\ c.arg \in Nat
  \/ c.op = "playfn" /\ c.arg \in 0 .. Len(Files)
  \/ c.op = "repeat" /\ c.arg \in BOOLEAN
  \/ c.op = "fps"    /\ c.arg \in Int
  \/ c.op \in {"tab", "reload", "stop", "conf"}

ASSUME CommandsAssumption ==
  /\ \A c \in Commands : IsCommand(c)
  /\ \A i \in 1 .. Len(Script) : IsCommand(Script[i]) \/ Script[i] = BadLine
  /\ Len(Script) \in Nat

(* The file whose frames have the given lengths.                           *)
Frames(id, lengths) ==
  FlattenSeq([f \in DOMAIN lengths |->
    [k \in 1 .. lengths[f] + 1 |->
      [file |-> id, frame |-> f, k |-> k - 1, n |-> lengths[f]]]])

Init ==
  /\ file = None /\ fptr = 0 /\ fplay_state = "ILDA"
  /\ fplay_points_left = 0 /\ fplay_repeat_count = 0 /\ fplay_offset = 0
  /\ fplay_frame_start = 0 /\ pointcount = 0 /\ drift = 0
  /\ small = [k \in 1 .. SMALL_FRAME_THRESHOLD |-> NoPoint]
  /\ ppf \in PointsPerFrame
  /\ src = "NETWORK" /\ playing = FALSE /\ repeat = FALSE
  /\ request = 0 /\ commands = 0
  /\ active = (Script # <<>>) /\ line = 0
  /\ dac = "IDLE" /\ ring = <<>> /\ produce = 0
  /\ ready = TRUE /\ failed = FALSE
  /\ pc = "autoplay" /\ dlen = 0

-----------------------------------------------------------------------------
(* The file.                                                               *)

(* ilda_reset_file, on file f.                                             *)
ilda_reset_file(f) ==
  /\ file' = f /\ fptr' = 0
  /\ fplay_state' = "BETWEEN_FRAMES" /\ fplay_offset' = 0 /\ drift' = 0
  /\ UNCHANGED <<fplay_points_left, fplay_repeat_count, fplay_frame_start,
                 pointcount, small>>

fileKept == UNCHANGED fileVars

(* Whether f_open succeeds for file f.                                     *)
Opens(f) == IF f = None THEN {FALSE} ELSE {TRUE, ~CardFails}

(* fplay_open: a failed f_open leaves the file object closed and the       *)
(* reader's state alone.                                                   *)
fplay_open(f, ok) ==
  IF ok THEN ilda_reset_file(f)
  ELSE file' = None /\ UNCHANGED <<fptr, fplay_state, fplay_points_left,
         fplay_repeat_count, fplay_offset, fplay_frame_start, pointcount, small,
         drift>>

Items == IF file = None THEN <<>> ELSE Files[file]

(* Plausible bug: the count is rounded down.                               *)
RepeatCount_down(n) ==
  IF ppf = 0 \/ n = 0 \/ ppf - fplay_offset < n THEN 1
  ELSE (ppf - fplay_offset) \div n

(* How often a frame of n points is shown when the next one is due after   *)
(* ppf points: rounded to the nearest, and never dropped.                  *)
RepeatCount(n) ==
  IF ppf = 0 \/ n = 0 THEN 1
  ELSE LET needed == ppf - fplay_offset + n \div 2
       IN IF needed < n THEN 1 ELSE needed \div n

(* What fplay_read_header makes of the next item: a frame, the end of the  *)
(* file (nothing left, or a frame of no points), a format it cannot play,  *)
(* or an error.                                                            *)
HeaderSays ==
  IF file = None THEN "error"
  ELSE IF fptr = Len(Items) THEN "end"
  ELSE IF Items[fptr + 1].k # 0 THEN "error"
  ELSE CASE Items[fptr + 1].n = Unknown -> "unknown"
         [] Items[fptr + 1].n = 0       -> "end"
         [] OTHER                       -> "frame"

(* fplay_read_header, when it opens a frame of n points.                   *)
OpenFrame(n) ==
  /\ fptr' = fptr + 1
  /\ fplay_state' = "ILDA"
  /\ fplay_repeat_count' = RepeatCount(n)
  /\ fplay_offset' =
       IF ppf = 0 THEN fplay_offset ELSE fplay_offset + RepeatCount(n) * n - ppf
  /\ drift' = drift - (IF ppf = 0 THEN n ELSE ppf)
  /\ fplay_points_left' = n /\ pointcount' = n
  /\ fplay_frame_start' = fptr + 1
  /\ UNCHANGED <<file, small>>

(* The points one call of ilda_do_read_points produces.                    *)
Wanted  == Min({dlen, fplay_points_left, MAX_POINTS_PER_LOOP})
PointNo == pointcount - fplay_points_left
Points ==
  IF fplay_state = "SMALL_FRAME"
  THEN [k \in 1 .. Wanted |-> small[PointNo + k]]
  ELSE SubSeq(Items, fptr + 1, fptr + Wanted)

(* Plausible bug: a long frame is not read again from its beginning.       *)
Continue_no_seek ==
  LET left == fplay_points_left - Wanted
      last == fplay_repeat_count = 1
      fits == pointcount <= SMALL_FRAME_THRESHOLD
  IN /\ fplay_repeat_count' =
          IF left = 0 THEN fplay_repeat_count - 1 ELSE fplay_repeat_count
     /\ fplay_points_left' = IF left = 0 /\ ~last THEN pointcount ELSE left
     /\ fplay_state' = IF left > 0 THEN fplay_state
                       ELSE IF last THEN "BETWEEN_FRAMES"
                       ELSE IF fits THEN "SMALL_FRAME" ELSE fplay_state
     /\ fptr' = IF fplay_state = "ILDA" THEN fptr + Wanted ELSE fptr

(* The end of ilda_do_read_points: the frame ends, is replayed from memory *)
(* or is read again.                                                       *)
Continue ==
  LET left == fplay_points_left - Wanted
      last == fplay_repeat_count = 1
      fits == pointcount <= SMALL_FRAME_THRESHOLD
      next == IF fplay_state = "ILDA" THEN fptr + Wanted ELSE fptr
  IN /\ fplay_repeat_count' =
          IF left = 0 THEN fplay_repeat_count - 1 ELSE fplay_repeat_count
     /\ fplay_points_left' = IF left = 0 /\ ~last THEN pointcount ELSE left
     /\ fplay_state' = IF left > 0 THEN fplay_state
                       ELSE IF last THEN "BETWEEN_FRAMES"
                       ELSE IF fits THEN "SMALL_FRAME" ELSE fplay_state
     /\ fptr' = IF left = 0 /\ ~last /\ ~fits THEN fplay_frame_start ELSE next

(* A file that is not open, or is shorter than its header says.            *)
ReadsPastEnd == file = None \/ fptr + Wanted > Len(Items)

(* ilda_do_read_points without an error.  What is read of a short frame is *)
(* kept.                                                                   *)
ReadPoints ==
  /\ fplay_state = "SMALL_FRAME" \/ ~ReadsPastEnd
  /\ Continue
  /\ small' = IF fplay_state = "ILDA" /\ pointcount <= SMALL_FRAME_THRESHOLD
              THEN [k \in DOMAIN small |->
                     IF k \in PointNo + 1 .. PointNo + Wanted
                     THEN Points[k - PointNo] ELSE small[k]]
              ELSE small
  /\ drift' = drift + Wanted
  /\ UNCHANGED <<file, fplay_offset, fplay_frame_start, pointcount>>

-----------------------------------------------------------------------------
(* The DAC.                                                                *)

Consume == (produce - Len(ring)) % DAC_BUFFER_POINTS

dac_request ==
  IF dac = "IDLE" THEN -1
  ELSE IF produce < Consume THEN Consume - produce - 1
  ELSE DAC_BUFFER_POINTS - produce - (IF Consume = 0 THEN 1 ELSE 0)

dac_advance(points) ==
  /\ ring' = IF dac = "IDLE" THEN ring ELSE ring \o points
  /\ produce' = IF dac = "IDLE" THEN produce
                ELSE (produce + Len(points)) % DAC_BUFFER_POINTS

(* dac_stop and dac_prepare; what a stopped DAC has left in its ring is    *)
(* dropped by dac_prepare and cannot be seen before.                       *)
Stopped == dac' = "IDLE" /\ ring' = <<>> /\ produce' = 0

dac_prepare ==
  IF dac = "IDLE" /\ ready THEN dac' = "PREPARED" /\ UNCHANGED <<ring, produce>>
  ELSE UNCHANGED dacVars

dac_start ==
  /\ dac' = IF dac = "PREPARED" THEN "PLAYING" ELSE dac
  /\ UNCHANGED <<ring, produce>>

(* The LDAC interrupt; the abstract generator does not use the ring.       *)
Tick ==
  /\ dac = "PLAYING" /\ src # "ABSTRACT" /\ pc # "panic"
  /\ IF ring = <<>> THEN Stopped
     ELSE ring' = Tail(ring) /\ UNCHANGED <<dac, produce>>
  /\ UNCHANGED <<fileVars, srcVars, oscVars, autoVars, ready, pc, dlen, failed>>

(* The emergency stop, and its end.                                        *)
Estop ==
  /\ ready /\ pc # "panic" /\ commands < MaxCommands
  /\ ready' = FALSE /\ Stopped /\ commands' = commands + 1
  /\ UNCHANGED <<fileVars, srcVars, ppf, request, autoVars, pc, dlen, failed>>

EstopClear ==
  /\ ~ready /\ pc # "panic"
  /\ ready' = TRUE
  /\ UNCHANGED <<fileVars, srcVars, oscVars, autoVars, dacVars, pc, dlen, failed>>

(* A network stream prepares and stops the DAC while it has the source.    *)
Stream ==
  /\ src = "NETWORK" /\ pc = "eth" /\ commands < MaxCommands
  /\ commands' = commands + 1
  /\ IF dac = "IDLE" THEN dac_prepare ELSE Stopped
  /\ UNCHANGED <<fileVars, srcVars, ppf, request, autoVars, ready, pc, dlen, failed>>

-----------------------------------------------------------------------------
(* The commands.                                                           *)

(* playback_set_src is refused while a network stream has the DAC.         *)
SourceRefused == src = "NETWORK" /\ dac # "IDLE"

(* playback_set_src(new), when it is not refused, and then set the flags.  *)
SetSource(new, play, rep) ==
  /\ src' = new /\ playing' = play /\ repeat' = rep
  /\ IF src = new THEN UNCHANGED dacVars ELSE Stopped

Kept(flag) == src = "ILDAPLAYER" /\ flag

AllKept == UNCHANGED <<srcVars, dacVars>>

(* /ilda/<i>/play: the file is opened by the next ilda_osc_poll.           *)
ilda_play(i) ==
  IF SourceRefused THEN AllKept /\ UNCHANGED <<fileVars, request, ppf>>
  ELSE /\ SetSource("ILDAPLAYER", Kept(playing), Kept(repeat))
       /\ request' = i /\ UNCHANGED <<fileVars, ppf>>

(* /ilda/play <name>; f is the named file, or None.                        *)
ilda_play_fn(f) ==
  IF SourceRefused THEN AllKept /\ UNCHANGED <<fileVars, request, ppf>>
  ELSE \E ok \in Opens(f) :
         /\ SetSource("ILDAPLAYER", ok \/ Kept(playing), Kept(repeat))
         /\ fplay_open(f, ok)
         /\ UNCHANGED <<request, ppf>>

ilda_repeat(v) ==
  /\ IF SourceRefused THEN AllKept ELSE SetSource("ILDAPLAYER", Kept(playing), v)
  /\ UNCHANGED <<fileVars, request, ppf>>

(* The tab's entry ignores a refusal and asks for the list of files.       *)
ilda_tab_enter ==
  /\ IF SourceRefused THEN AllKept
     ELSE SetSource("ILDAPLAYER", Kept(playing), Kept(repeat))
  /\ request' = -1 /\ UNCHANGED <<fileVars, ppf>>

ilda_reload == AllKept /\ request' = -1 /\ UNCHANGED <<fileVars, ppf>>

ilda_stop ==
  /\ playing' = FALSE /\ Stopped
  /\ UNCHANGED <<src, repeat, fileVars, request, ppf>>

ilda_fps(v) == ppf' = v /\ AllKept /\ UNCHANGED <<fileVars, request>>

(* /abstract/conf: the ABSTRACT_PLAYING flag is the same bit.              *)
abstract_conf ==
  /\ UNCHANGED <<fileVars, request, ppf>>
  /\ IF SourceRefused THEN AllKept
     ELSE /\ src' = "ABSTRACT" /\ playing' = TRUE
          /\ repeat' = (src = "ABSTRACT" /\ repeat)
          /\ IF src = "ABSTRACT" /\ dac = "PLAYING" THEN UNCHANGED dacVars
             ELSE /\ ring' = <<>> /\ produce' = 0
                  /\ dac' = IF ready \/ (src = "ABSTRACT" /\ dac = "PREPARED")
                            THEN "PLAYING" ELSE "IDLE"

Execute(c) ==
  \/ c.op = "play"   /\ ilda_play(c.arg)
  \/ c.op = "playfn" /\ ilda_play_fn(c.arg)
  \/ c.op = "repeat" /\ ilda_repeat(c.arg)
  \/ c.op = "tab"    /\ ilda_tab_enter
  \/ c.op = "reload" /\ ilda_reload
  \/ c.op = "stop"   /\ ilda_stop
  \/ c.op = "fps"    /\ ilda_fps(c.arg)
  \/ c.op = "conf"   /\ abstract_conf

-----------------------------------------------------------------------------
(* The polls.                                                              *)

NextLine == IF line < Len(Script) THEN Script[line + 1] ELSE BadLine

(* autoplay_poll waits while anything plays; a line that matches no        *)
(* handler, the end of the file and a read error end it.                   *)
AutoplayWaits ==
  /\ pc = "autoplay" /\ (~active \/ playing)
  /\ UNCHANGED <<fileVars, srcVars, oscVars, autoVars, dacVars, failed>>

AutoplayEnds ==
  /\ pc = "autoplay" /\ active /\ ~playing
  /\ NextLine = BadLine \/ CardFails
  /\ active' = FALSE
  /\ UNCHANGED <<fileVars, srcVars, oscVars, line, dacVars, failed>>

AutoplayLine ==
  /\ pc = "autoplay" /\ active /\ ~playing
  /\ NextLine # BadLine
  /\ Execute(NextLine)
  /\ line' = line + 1
  /\ UNCHANGED <<active, commands, failed>>

autoplay_poll ==
  /\ AutoplayWaits \/ AutoplayEnds \/ AutoplayLine
  /\ pc' = "eth" /\ UNCHANGED <<ready, dlen>>

(* eth_poll_1 takes one frame from the network, if there is one.           *)
eth_poll_1 ==
  /\ pc = "eth"
  /\ \/ UNCHANGED <<fileVars, srcVars, oscVars, dacVars>>
     \/ /\ commands < MaxCommands
        /\ commands' = commands + 1
        /\ \E c \in Commands : Execute(c)
  /\ pc' = "ilda" /\ UNCHANGED <<autoVars, ready, dlen, failed>>

(* walk_fs: an unreadable directory leaves the request; otherwise it is    *)
(* done, and sets the flag whether or not the file could be opened and     *)
(* whatever the source is by then.                                         *)
walk_fs ==
  /\ request' = 0
  /\ IF request \in DOMAIN Files
     THEN /\ \E ok \in Opens(request) : fplay_open(request, ok)
          /\ playing' = TRUE
     ELSE fileKept /\ UNCHANGED playing

ilda_osc_poll ==
  /\ pc = "ilda"
  /\ \/ request # 0 /\ walk_fs
     \/ /\ request = 0 \/ CardFails
        /\ fileKept /\ UNCHANGED <<playing, request>>
  /\ pc' = "refill"
  /\ UNCHANGED <<src, repeat, ppf, commands, autoVars, dacVars, ready, dlen, failed>>

(* The first half of playback_refill: how much room there is.              *)
RefillBegin ==
  /\ pc = "refill"
  /\ IF src = "ILDAPLAYER" /\ dac_request > 0 /\ playing
     THEN /\ dlen' = dac_request
          /\ pc' = IF fplay_state = "BETWEEN_FRAMES" THEN "header" ELSE "read"
          /\ UNCHANGED dacVars
     ELSE /\ pc' = "autoplay" /\ UNCHANGED dlen
          /\ IF src # "ILDAPLAYER" THEN UNCHANGED dacVars
             ELSE CASE dac_request < 0 -> dac_prepare
                    [] dac_request = 0 -> dac_start
                    [] OTHER           -> UNCHANGED dacVars
  /\ UNCHANGED <<fileVars, srcVars, oscVars, autoVars, ready, failed>>

(* The second half of playback_refill, in the four ways reading may go.    *)
RefillEnd(points, limit) ==
  /\ pc' = "autoplay" /\ dlen' = 0
  /\ dac_advance(points)
  /\ dac' = IF limit < NearlyFull /\ dac = "PREPARED" THEN "PLAYING" ELSE dac
  /\ UNCHANGED <<src, repeat, oscVars, autoVars, ready>>

RefillHeader ==
  /\ pc = "header" /\ HeaderSays = "frame"
  /\ OpenFrame(Items[fptr + 1].n)
  /\ pc' = "read"
  /\ UNCHANGED <<srcVars, oscVars, autoVars, dacVars, ready, dlen, failed>>

(* Plausible bug: the end of a short file does not start the DAC.          *)
RefillAtEnd_unstarted ==
  /\ pc = "header" /\ HeaderSays = "end"
  /\ ilda_reset_file(file)
  /\ playing' = repeat
  /\ RefillEnd(<<>>, dlen)
  /\ UNCHANGED failed

(* Plausible bug: every file starts over at its end.                       *)
RefillAtEnd_repeats ==
  /\ pc = "header" /\ HeaderSays = "end"
  /\ ilda_reset_file(file)
  /\ RefillEnd(<<>>, dlen)
  /\ UNCHANGED <<playing, failed>>

(* playback_refill at the end of the file.                                 *)
RefillAtEnd ==
  /\ pc = "header" /\ HeaderSays = "end"
  /\ ilda_reset_file(file)
  /\ playing' = repeat
  /\ RefillEnd(<<>>, IF repeat THEN dlen ELSE 0)
  /\ UNCHANGED failed

ReadFails ==
  \/ pc = "header" /\ (CardFails \/ HeaderSays \in {"error", "unknown"})
  \/ pc = "read" /\ fplay_state = "ILDA"
     /\ (CardFails \/ ReadsPastEnd)

(* A header that fails half way has already stored the frame's format.     *)
RefillFails ==
  /\ ReadFails
  /\ playing' = FALSE /\ failed' = TRUE
  /\ fplay_state' \in {fplay_state} \union
       IF pc = "read" THEN {}
       ELSE IF HeaderSays = "unknown" THEN {"BAD"} ELSE {"ILDA"}
  /\ UNCHANGED <<file, fptr, fplay_points_left, fplay_repeat_count,
                 fplay_offset, fplay_frame_start, pointcount, small, drift>>
  /\ RefillEnd(<<>>, dlen)

RefillPoints ==
  /\ pc = "read" /\ fplay_state \in {"ILDA", "SMALL_FRAME"}
  /\ ReadPoints
  /\ RefillEnd(Points, dlen)
  /\ UNCHANGED <<playing, failed>>

(* ild-player.c:531, on a format it did not know before.                   *)
RefillPanics ==
  /\ pc = "read" /\ fplay_state = "BAD"
  /\ pc' = "panic" /\ Stopped
  /\ UNCHANGED <<fileVars, srcVars, oscVars, autoVars, ready, dlen, failed>>

playback_refill ==
  RefillBegin \/ RefillHeader \/ RefillAtEnd \/ RefillFails \/ RefillPoints
  \/ RefillPanics

Poll == autoplay_poll \/ eth_poll_1 \/ ilda_osc_poll \/ playback_refill
Next == Poll \/ Tick \/ Estop \/ EstopClear \/ Stream

(* The main loop keeps running, an interrupt that is due is taken, and an  *)
(* emergency stop is cleared one day.                                      *)
Fairness == WF_vars(Poll) /\ WF_vars(Tick) /\ WF_vars(EstopClear)

Spec == Init /\ [][Next]_vars /\ Fairness
=============================================================================
