------------------------------ MODULE VideoHeader ------------------------------
(***************************************************************************)
(* The resolution of a video: what a session of video-multiplexer takes it *)
(* to be, and the eight bytes in which a viewer is told.  width and height *)
(* are variables of the session's ffmpeg goroutine, which puts them into   *)
(* every buffer.  A goroutine started each time ffmpeg has exited reads    *)
(* what that ffmpeg logged and sets the one, then the other, while the     *)
(* next ffmpeg delivers; nothing orders the two or keeps the pair whole.   *)
(***************************************************************************)
EXTENDS Integers, Sequences

CONSTANTS
  Size,      \* the widths and heights of videos
  Default,   \* <<1280, 720>>
  Tries      \* starts of ffmpeg in a session (15)

Byte == {n \in Nat : n < 256}

\* The numbers that need two bytes.
TwoByte == {n \in Nat : 256 <= n /\ n < 65536}

\* See MagicBytes for what becomes of other numbers.
ASSUME HeaderAssumption ==
  /\ Size \subseteq TwoByte
  /\ Default \in Size \X Size
  /\ Tries \in Nat

VARIABLES
  size,      \* the resolution of the video the drone sends
  width, height,
  try,       \* starts of ffmpeg so far
  reading,   \* whether ffmpeg runs and is read
  scan,      \* scan[i]: where the goroutine is that reads the i-th log
  loaded,    \* the width of the buffer being made, or 0
  buffer,    \* the <<width, height>> of the last buffer delivered, or << >>
  told       \* [bytes, size]: header sent and buffer it was made from, or NotTold

headerVars == <<size, width, height, try, reading, scan, loaded, buffer, told>>

NotTold == [bytes |-> << >>, size |-> << >>]

HeaderTypeOK ==
  /\ size \in Size \X Size
  /\ width \in Size /\ height \in Size
  /\ try \in 0..Tries
  /\ reading \in BOOLEAN
  /\ scan \in [1..Tries -> {"off", "scan", "width", "found", "nothing"}]
  /\ loaded \in Size \cup {0}
  /\ buffer \in (Size \X Size) \cup {<< >>}
  /\ told \in [bytes : [1..8 -> Byte] \cup {<< >>}, size : (Size \X Size) \cup {<< >>}]

HeaderInit ==
  /\ size \in Size \X Size
  /\ width = Default[1] /\ height = Default[2]
  /\ try = 0 /\ reading = FALSE
  /\ scan = [i \in 1..Tries |-> "off"]
  /\ loaded = 0
  /\ buffer = << >> /\ told = NotTold

------------------------------------------------------------------------------
(* makeMagicBytes *)

\* big.Int.Bytes: big-endian, as many bytes as the number needs.
Bytes(n) ==
  IF n = 0 THEN << >>
  ELSE IF n < 256 THEN <<n>>
  ELSE IF n < 65536 THEN <<n \div 256, n % 256>>
  ELSE <<n \div 65536, (n \div 256) % 256, n % 256>>

\* copy(buf[from:], b), from being counted from 1
Copy(buf, from, b) ==
  [i \in DOMAIN buf |->
     IF from <= i /\ i < from + Len(b) THEN b[i - from + 1] ELSE buf[i]]

Jsmp == <<106, 115, 109, 112, 0, 0, 0, 0>>

\* Mutant: the height is copied to where the width ends.
MagicBytesPacked(w, h) == Copy(Copy(Jsmp, 5, Bytes(w)), 5 + Len(Bytes(w % 256)), Bytes(h))

MagicBytes(w, h) == Copy(Copy(Jsmp, 5, Bytes(w)), 7, Bytes(h))

\* What a reader of two 16-bit big-endian numbers after "jsmp" gets.
Decoded(b) == <<256 * b[5] + b[6], 256 * b[7] + b[8]>>

------------------------------------------------------------------------------
(* The retry loop of startffmpegV2 *)

FfmpegStarts ==
  /\ ~reading /\ try < Tries
  /\ try' = try + 1
  /\ reading' = TRUE
  /\ UNCHANGED <<size, width, height, scan, buffer, loaded, told>>

FfmpegNotStarted ==
  /\ ~reading /\ try < Tries
  /\ try' = try + 1
  /\ UNCHANGED <<size, width, height, reading, scan, buffer, loaded, told>>

\* A buffer is made: two loads, between which a log reader may store.
LoadsWidth ==
  /\ reading /\ loaded = 0
  /\ loaded' = width
  /\ UNCHANGED <<size, width, height, try, reading, scan, buffer, told>>

Delivers ==
  /\ loaded # 0
  /\ buffer' = <<loaded, height>>
  /\ loaded' = 0
  /\ UNCHANGED <<size, width, height, try, reading, scan, told>>

\* Mutant: a try starts from the default resolution.
ExitsToDefault ==
  /\ reading /\ loaded = 0
  /\ reading' = FALSE
  /\ scan' = [scan EXCEPT ![try] = "scan"]
  /\ width' = Default[1] /\ height' = Default[2]
  /\ UNCHANGED <<size, try, buffer, loaded, told>>

\* The log is read from now on, and only now.
FfmpegExits ==
  /\ reading /\ loaded = 0
  /\ reading' = FALSE
  /\ scan' = [scan EXCEPT ![try] = "scan"]
  /\ UNCHANGED <<size, width, height, try, buffer, loaded, told>>

FindsWidth(i) ==
  /\ scan[i] = "scan"
  /\ width' = size[1]
  /\ scan' = [scan EXCEPT ![i] = "width"]
  /\ UNCHANGED <<size, height, try, reading, buffer, loaded, told>>

FindsHeight(i) ==
  /\ scan[i] = "width"
  /\ height' = size[2]
  /\ scan' = [scan EXCEPT ![i] = "found"]
  /\ UNCHANGED <<size, width, try, reading, buffer, loaded, told>>

\* Mutant: without a resolution in the log, zeros are stored.
FindsZeros(i) ==
  /\ scan[i] = "scan"
  /\ scan' = [scan EXCEPT ![i] = "nothing"]
  /\ width' = 0 /\ height' = 0
  /\ UNCHANGED <<size, try, reading, buffer, loaded, told>>

\* There was no stream to read when this ffmpeg ran.
FindsNothing(i) ==
  /\ scan[i] = "scan"
  /\ scan' = [scan EXCEPT ![i] = "nothing"]
  /\ UNCHANGED <<size, width, height, try, reading, buffer, loaded, told>>

\* streamVideo: the header is made from the first buffer a viewer gets.
TellsViewer ==
  /\ buffer # << >>
  /\ told' = [bytes |-> MagicBytes(buffer[1], buffer[2]), size |-> buffer]
  /\ UNCHANGED <<size, width, height, try, reading, scan, loaded, buffer>>

HeaderNext ==
  \/ FfmpegStarts \/ FfmpegNotStarted \/ LoadsWidth \/ Delivers \/ FfmpegExits
  \/ \E i \in 1..Tries : FindsWidth(i) \/ FindsHeight(i) \/ FindsNothing(i)
  \/ TellsViewer

HeaderSpec == HeaderInit /\ [][HeaderNext]_headerVars

------------------------------------------------------------------------------
(* Properties *)

\* The header says what the buffer it was made from says, each number being
\* in its own two bytes: true of the numbers between 256 and 65535 only.
HeaderTellsSize == told # NotTold => Decoded(told.bytes) = told.size

\* Once one log has been read to the resolution, every buffer made carries
\* it, whichever goroutines of earlier tries are still to set it again.
FoundIsKept ==
  (\E i \in 1..Tries : scan[i] = "found") => <<width, height>> = size
==============================================================================
