------------------------------ MODULE StreamHints ------------------------------
(***************************************************************************)
(* What the reader tells the player about a stream (GetHints and           *)
(* GetStreamCodecName in OMXReader.cpp, COMXStreamInfo), and the frame     *)
(* time that the player makes of it (OpenDecoder in                        *)
(* OMXTranscoderVideo.cpp).                                                *)
(*                                                                         *)
(* A stream of libavformat is a record; a rational number is [num, den].   *)
(* Numbers that the code only copies (width, channels, ...) are left out.  *)
(***************************************************************************)
EXTENDS Timing

\* COMXStreamInfo::Clear
NoHints == [rate |-> 0, scale |-> 0, ptsInvalid |-> FALSE, forced |-> FALSE,
            aspect |-> [num |-> 0, den |-> 1]]

\* The frame rate: the average one of Matroska, or the one that libavformat has
\* guessed, or none, unless both parts of it are there.
IsRate(q) == q.num # 0 /\ q.den # 0
FrameRate(st, matroska) ==
    IF matroska /\ IsRate(st.avg) THEN st.avg
    ELSE IF IsRate(st.real) THEN st.real ELSE [num |-> 0, den |-> 0]

\* SelectAspect: Matroska is trusted, any other container only when its aspect
\* is not 0 or 1 or when the codec has none.
SelectAspect(st, matroska) ==
    IF matroska /\ st.sar.num # 0 THEN [forced |-> TRUE, sar |-> st.sar]
    ELSE IF st.sar.den \in {0, 1} /\ st.sar.num \in {0, 1} /\ st.codecSar.num # 0
    THEN [forced |-> FALSE, sar |-> st.codecSar]
    ELSE [forced |-> TRUE, sar |-> IF st.sar.num # 0 THEN st.sar ELSE [num |-> 0, den |-> 1]]

\* GetHints of a stream, on hints that are clear.
GetHints(st, matroska, avi) ==
    IF st.type # "video" THEN NoHints
    ELSE LET rate   == FrameRate(st, matroska)
             aspect == SelectAspect(st, matroska)
         IN [rate |-> rate.num, scale |-> rate.den,
             ptsInvalid |-> avi /\ st.codec = "h264",
             forced |-> aspect.forced,
             aspect |-> [num |-> aspect.sar.num * st.width, den |-> aspect.sar.den * st.height]]

\* GetStreamCodecName: a FourCC of four characters, which only video streams
\* have, the profile of DTS, or the name of the decoder, if there is one.
CodecName(st) ==
    IF st.type = "video" /\ Len(st.fourcc) = 4 THEN st.fourcc
    ELSE IF st.codec = "dts"
    THEN CASE st.profile = "ma"  -> "dtshd_ma"
           [] st.profile = "hra" -> "dtshd_hra"
           [] OTHER              -> "dca"
    ELSE st.decoder

\* OpenDecoder: m_frametime in thirds of a microsecond.  More than 100 frames a
\* second, or less than 5, are taken for an error.
Default == 120000                                        \* 25 frames a second
FrameTime(hints) ==
    IF hints.rate = 0 \/ hints.scale = 0 THEN Default
    ELSE LET d == NormalizeFrameduration((3000000 * hints.scale) \div hints.rate)
         IN IF d < 30000 \/ d > 600000 THEN Default ELSE d
=============================================================================
