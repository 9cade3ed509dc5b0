---------------------------- MODULE FilePlayerMC ----------------------------
EXTENDS FilePlayerSafety

(* A long frame and a short one; one point, then a frame of a format that  *)
(* cannot be played; a file cut short in its frame.                        *)
MCFiles == << Frames(1, <<3, 2>>),
              Frames(2, <<1>>)
                \o <<[file |-> 2, frame |-> 2, k |-> 0, n |-> Unknown]>>,
              SubSeq(Frames(3, <<3>>), 1, 3) >>
MCScript == << [op |-> "playfn", arg |-> 1], [op |-> "play", arg |-> 2] >>
MCCommands ==
  [op : {"play"}, arg : {2}] \cup [op : {"playfn"}, arg : {3}]
  \cup [op : {"repeat"}, arg : {TRUE}] \cup [op : {"fps"}, arg : {0}]
  \cup [op : {"tab", "reload", "stop", "conf"}]
=============================================================================
