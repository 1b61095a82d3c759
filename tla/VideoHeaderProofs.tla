--------------------------- MODULE VideoHeaderProofs ---------------------------
(***************************************************************************)
(* Theorems about VideoHeader, for every set of sizes between 256 and      *)
(* 65535, every default and every number of tries.                         *)
(***************************************************************************)
EXTENDS VideoHeader, TLAPS

------------------------------------------------------------------------------
(* makeMagicBytes *)

LEMMA DivMod ==
  ASSUME NEW n \in Nat
  PROVE  /\ n \div 256 \in Nat /\ n % 256 \in Nat /\ n % 256 < 256
         /\ 256 * (n \div 256) + (n % 256) = n
OBVIOUS

LEMMA TwoBytes ==
  ASSUME NEW n \in TwoByte
  PROVE  /\ Bytes(n) = <<n \div 256, n % 256>>
         /\ n \div 256 \in Byte /\ n % 256 \in Byte
         /\ 256 * (n \div 256) + (n % 256) = n
<1>1. n \in Nat /\ 256 <= n /\ n < 65536
  BY DEF TwoByte
<1>2. /\ n \div 256 \in Nat /\ n % 256 \in Nat /\ n % 256 < 256
      /\ 256 * (n \div 256) + (n % 256) = n
  BY <1>1, DivMod
<1>3. n \div 256 < 256
  BY <1>1, <1>2
<1>4. Bytes(n) = <<n \div 256, n % 256>>
  BY <1>1 DEF Bytes
<1> QED  BY <1>2, <1>3, <1>4 DEF Byte

\* Two bytes copied to the fifth of eight fill it and the sixth; likewise the
\* seventh.
LEMMA CopyWidth ==
  ASSUME NEW buf, DOMAIN buf = 1..8, NEW x, NEW y
  PROVE  /\ DOMAIN Copy(buf, 5, <<x, y>>) = 1..8
         /\ Copy(buf, 5, <<x, y>>)[5] = x
         /\ Copy(buf, 5, <<x, y>>)[6] = y
         /\ \A i \in 1..4 : Copy(buf, 5, <<x, y>>)[i] = buf[i]
BY DEF Copy

LEMMA CopyHeight ==
  ASSUME NEW buf, DOMAIN buf = 1..8, NEW x, NEW y
  PROVE  /\ DOMAIN Copy(buf, 7, <<x, y>>) = 1..8
         /\ Copy(buf, 7, <<x, y>>)[7] = x
         /\ Copy(buf, 7, <<x, y>>)[8] = y
         /\ \A i \in 1..6 : Copy(buf, 7, <<x, y>>)[i] = buf[i]
BY DEF Copy

LEMMA JsmpIsEight ==
  /\ DOMAIN Jsmp = 1..8
  /\ \A i \in 1..8 : Jsmp[i] \in Byte
<1>1. DOMAIN Jsmp = 1..8
  BY DEF Jsmp
<1>2. /\ Jsmp[1] = 106 /\ Jsmp[2] = 115 /\ Jsmp[3] = 109 /\ Jsmp[4] = 112
      /\ Jsmp[5] = 0 /\ Jsmp[6] = 0 /\ Jsmp[7] = 0 /\ Jsmp[8] = 0
  BY DEF Jsmp
<1>3. ASSUME NEW i \in 1..8 PROVE Jsmp[i] \in Byte
  BY <1>2 DEF Byte
<1> QED  BY <1>1, <1>3

LEMMA MagicBytesAt ==
  ASSUME NEW w \in TwoByte, NEW h \in TwoByte
  PROVE  /\ DOMAIN MagicBytes(w, h) = 1..8
         /\ MagicBytes(w, h)[5] = w \div 256
         /\ MagicBytes(w, h)[6] = w % 256
         /\ MagicBytes(w, h)[7] = h \div 256
         /\ MagicBytes(w, h)[8] = h % 256
         /\ \A i \in 1..4 : MagicBytes(w, h)[i] = Jsmp[i]
<1> DEFINE x == w \div 256
           y == w % 256
           first == Copy(Jsmp, 5, <<x, y>>)
           u == h \div 256
           v == h % 256
           m == Copy(first, 7, <<u, v>>)
<1>1. MagicBytes(w, h) = m
  BY TwoBytes DEF MagicBytes
<1>2. /\ DOMAIN first = 1..8
      /\ first[5] = x /\ first[6] = y
      /\ \A i \in 1..4 : first[i] = Jsmp[i]
  <2> HIDE DEF x, y
  <2> QED  BY JsmpIsEight, CopyWidth
<1>3. /\ DOMAIN m = 1..8
      /\ m[7] = u /\ m[8] = v
      /\ \A i \in 1..6 : m[i] = first[i]
  <2> HIDE DEF u, v, first
  <2> QED  BY <1>2, CopyHeight
<1> HIDE DEF first, m
<1> QED  BY <1>1, <1>2, <1>3

\* A reader of two 16-bit big-endian numbers gets width and height back.
THEOREM HeaderDecodes ==
  ASSUME NEW w \in TwoByte, NEW h \in TwoByte
  PROVE  Decoded(MagicBytes(w, h)) = <<w, h>>
<1> DEFINE m == MagicBytes(w, h)
<1>1. /\ m[5] = w \div 256 /\ m[6] = w % 256
      /\ m[7] = h \div 256 /\ m[8] = h % 256
  BY MagicBytesAt
<1>2. /\ 256 * (w \div 256) + (w % 256) = w
      /\ 256 * (h \div 256) + (h % 256) = h
  BY TwoBytes
<1> HIDE DEF m
<1>3. 256 * m[5] + m[6] = w /\ 256 * m[7] + m[8] = h
  BY <1>1, <1>2, Zenon
<1> QED  BY <1>3 DEF Decoded, m

LEMMA MagicBytesAreBytes ==
  ASSUME NEW w \in TwoByte, NEW h \in TwoByte
  PROVE  MagicBytes(w, h) \in [1..8 -> Byte]
<1> DEFINE m == MagicBytes(w, h)
<1>1. \A i \in 1..8 : m[i] \in Byte
  <2> SUFFICES ASSUME NEW i \in 1..8 PROVE m[i] \in Byte
    OBVIOUS
  <2>1. CASE i \in 1..4  BY <2>1, MagicBytesAt, JsmpIsEight
  <2>2. CASE i \in 5..6  BY <2>2, MagicBytesAt, TwoBytes
  <2>3. CASE i \in 7..8  BY <2>3, MagicBytesAt, TwoBytes
  <2> QED  BY <2>1, <2>2, <2>3
<1>2. m = [i \in DOMAIN m |-> m[i]]
  BY DEF MagicBytes, Copy
<1> QED  BY <1>1, <1>2, MagicBytesAt

------------------------------------------------------------------------------
(* Types *)

LEMMA SizesAreTwoBytes ==
  /\ \A n \in Size : n \in TwoByte
  /\ Default[1] \in Size /\ Default[2] \in Size
  /\ Tries \in Nat
BY HeaderAssumption DEF TwoByte

LEMMA HeaderTypeInit == HeaderInit => HeaderTypeOK
<1> SUFFICES ASSUME HeaderInit PROVE HeaderTypeOK
  OBVIOUS
<1>1. told \in [bytes : [1..8 -> Byte] \cup {<< >>}, size : (Size \X Size) \cup {<< >>}]
  BY DEF HeaderInit, NotTold
<1>2. scan \in [1..Tries -> {"off", "scan", "width", "found", "nothing"}]
  BY DEF HeaderInit
<1>3. try \in 0..Tries
  BY SizesAreTwoBytes DEF HeaderInit
<1>4. /\ size \in Size \X Size /\ width \in Size /\ height \in Size
      /\ loaded \in Size \cup {0} /\ buffer \in (Size \X Size) \cup {<< >>}
  BY SizesAreTwoBytes DEF HeaderInit
<1>5. reading \in BOOLEAN
  BY Zenon DEF HeaderInit
<1> QED  BY <1>1, <1>2, <1>3, <1>4, <1>5 DEF HeaderTypeOK

LEMMA HeaderTypeStep == HeaderTypeOK /\ [HeaderNext]_headerVars => HeaderTypeOK'
<1> SUFFICES ASSUME HeaderTypeOK, [HeaderNext]_headerVars PROVE HeaderTypeOK'
  OBVIOUS
<1> USE SizesAreTwoBytes
<1>1. CASE FfmpegStarts  BY <1>1 DEF FfmpegStarts, HeaderTypeOK
<1>2. CASE FfmpegNotStarted  BY <1>2 DEF FfmpegNotStarted, HeaderTypeOK
<1>3. CASE LoadsWidth  BY <1>3 DEF LoadsWidth, HeaderTypeOK
<1>4. CASE Delivers  BY <1>4 DEF Delivers, HeaderTypeOK
<1>5. CASE FfmpegExits  BY <1>5 DEF FfmpegExits, HeaderTypeOK
<1>6. ASSUME NEW i \in 1..Tries, FindsWidth(i) PROVE HeaderTypeOK'
  BY <1>6 DEF FindsWidth, HeaderTypeOK
<1>7. ASSUME NEW i \in 1..Tries, FindsHeight(i) PROVE HeaderTypeOK'
  BY <1>7 DEF FindsHeight, HeaderTypeOK
<1>8. ASSUME NEW i \in 1..Tries, FindsNothing(i) PROVE HeaderTypeOK'
  BY <1>8 DEF FindsNothing, HeaderTypeOK
<1>9. CASE TellsViewer
  <2>1. buffer \in Size \X Size  BY <1>9 DEF TellsViewer, HeaderTypeOK
  <2>2. MagicBytes(buffer[1], buffer[2]) \in [1..8 -> Byte]
    BY <2>1, MagicBytesAreBytes
  <2> QED  BY <1>9, <2>1, <2>2 DEF TellsViewer, HeaderTypeOK
<1>10. CASE UNCHANGED headerVars  BY <1>10 DEF headerVars, HeaderTypeOK
<1> QED
  BY <1>1, <1>2, <1>3, <1>4, <1>5, <1>6, <1>7, <1>8, <1>9, <1>10 DEF HeaderNext

\* A session keeps sizes, and stores none that was not logged; every header is
\* eight bytes.
THEOREM HeaderTypeCorrect == HeaderSpec => []HeaderTypeOK
BY HeaderTypeInit, HeaderTypeStep, PTL DEF HeaderSpec

------------------------------------------------------------------------------
(* Headers and buffers *)

ToldFromBuffer ==
  told # NotTold =>
    /\ told.size \in Size \X Size
    /\ told.bytes = MagicBytes(told.size[1], told.size[2])

LEMMA ToldStep ==
  HeaderTypeOK /\ ToldFromBuffer /\ [HeaderNext]_headerVars => ToldFromBuffer'
<1> SUFFICES ASSUME HeaderTypeOK, ToldFromBuffer, [HeaderNext]_headerVars
             PROVE  ToldFromBuffer'
  OBVIOUS
<1>1. CASE TellsViewer
  BY <1>1 DEF TellsViewer, HeaderTypeOK, ToldFromBuffer
<1>2. CASE UNCHANGED told
  BY <1>2 DEF ToldFromBuffer
<1> QED
  BY <1>1, <1>2 DEF HeaderNext, headerVars, FfmpegStarts, FfmpegNotStarted,
     LoadsWidth, Delivers, FfmpegExits, FindsWidth, FindsHeight, FindsNothing

\* Every viewer is told the size that the first buffer it got carries.
THEOREM HeadersTellSize == HeaderSpec => []HeaderTellsSize
<1>1. HeaderInit => ToldFromBuffer
  BY DEF HeaderInit, ToldFromBuffer
<1>2. ToldFromBuffer => HeaderTellsSize
  <2> SUFFICES ASSUME ToldFromBuffer, told # NotTold
               PROVE  Decoded(told.bytes) = told.size
    BY DEF HeaderTellsSize
  <2>1. /\ told.size \in Size \X Size
        /\ told.bytes = MagicBytes(told.size[1], told.size[2])
    BY DEF ToldFromBuffer
  <2>2. Decoded(told.bytes) = <<told.size[1], told.size[2]>>
    BY <2>1, HeaderDecodes, SizesAreTwoBytes
  <2> QED  BY <2>1, <2>2
<1> QED  BY <1>1, <1>2, ToldStep, HeaderTypeCorrect, PTL DEF HeaderSpec

------------------------------------------------------------------------------
(* What was found stays *)

\* A log reader sets the width before the height.
FoundInv ==
  /\ (\E i \in 1..Tries : scan[i] \in {"width", "found"}) => width = size[1]
  /\ (\E i \in 1..Tries : scan[i] = "found") => height = size[2]

LEMMA FoundStep ==
  HeaderTypeOK /\ FoundInv /\ [HeaderNext]_headerVars => FoundInv'
<1> SUFFICES ASSUME HeaderTypeOK, FoundInv, [HeaderNext]_headerVars
             PROVE  FoundInv'
  OBVIOUS
<1>1. CASE FfmpegExits
  BY <1>1 DEF FfmpegExits, HeaderTypeOK, FoundInv
<1>2. ASSUME NEW i \in 1..Tries, FindsWidth(i) PROVE FoundInv'
  BY <1>2 DEF FindsWidth, HeaderTypeOK, FoundInv
<1>3. ASSUME NEW i \in 1..Tries, FindsHeight(i) PROVE FoundInv'
  BY <1>3 DEF FindsHeight, HeaderTypeOK, FoundInv
<1>4. ASSUME NEW i \in 1..Tries, FindsNothing(i) PROVE FoundInv'
  BY <1>4 DEF FindsNothing, HeaderTypeOK, FoundInv
<1>5. CASE UNCHANGED <<size, width, height, scan>>
  BY <1>5 DEF FoundInv
<1> QED
  BY <1>1, <1>2, <1>3, <1>4, <1>5 DEF HeaderNext, headerVars, FfmpegStarts,
     FfmpegNotStarted, LoadsWidth, Delivers, TellsViewer

\* Readers of earlier logs, delayed as they may be, never take the size back.
THEOREM FoundStaysKept == HeaderSpec => []FoundIsKept
<1>1. HeaderInit => FoundInv
  BY DEF HeaderInit, FoundInv
<1>2. HeaderTypeOK /\ FoundInv => FoundIsKept
  BY DEF HeaderTypeOK, FoundInv, FoundIsKept
<1> QED  BY <1>1, <1>2, FoundStep, HeaderTypeCorrect, PTL DEF HeaderSpec
==============================================================================
