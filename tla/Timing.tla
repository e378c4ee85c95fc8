--------------------------------- MODULE Timing ---------------------------------
(***************************************************************************)
(* The arithmetic of time and of addresses.                                *)
(*                                                                         *)
(* Timestamps are doubles in the code, which does not care for "a          *)
(* completly exact timestamp" (OMXReader.cpp); here they are integers in   *)
(* any unit, so that what follows is about the algorithms and not about    *)
(* rounding.                                                               *)
(***************************************************************************)
EXTENDS Integers, Sequences

-----------------------------------------------------------------------------
(***************************************************************************)
(* The deadline of a wait (OMXCore.cpp): add_timespecs adds milliseconds   *)
(* to a time.                                                              *)
(***************************************************************************)

Billion == 1000000000

\* The loop carries while nsec > 1000000000: how often, for a sum of n.
Carries(n) == IF n > Billion THEN (n - 1) \div Billion ELSE 0

AddTimespecs(t, ms) ==
    LET nsec == t.nsec + ms * 1000000
    IN [sec |-> t.sec + Carries(nsec), nsec |-> nsec - Billion * Carries(nsec)]

\* What pthread_cond_timedwait takes for a time.
IsTime(t) == t.sec \in Nat /\ t.nsec \in Nat /\ t.nsec < Billion

-----------------------------------------------------------------------------
(***************************************************************************)
(* OMX_TICKS without 64 bit integers (OMXCore.h).                          *)
(***************************************************************************)

Two32 == 4294967296
Two63 == 9223372036854775808

ToOMXTime(pts) == [low |-> pts % Two32, high |-> (pts \div Two32) % Two32]

\* Two 32 bit halves in a signed number of 64 bits.
FromOMXTime(ticks) ==
    LET bits == ticks.low + Two32 * ticks.high
    IN IF bits >= Two63 THEN bits - 2 * Two63 ELSE bits

-----------------------------------------------------------------------------
(***************************************************************************)
(* Timestamps of the reader (OMXReader.cpp).  start is the start time of   *)
(* the file, 0 when it has none, and slack is 0.1 s in the unit in use.    *)
(***************************************************************************)

\* ConvertTimestamp of a timestamp that is not AV_NOPTS_VALUE.
ConvertTimestamp(ts, start, slack) ==
    IF ts > start THEN ts - start
    ELSE IF ts + slack > start THEN 0
    ELSE ts

\* UpdateCurrentPTS: the least of the converted cur_dts of the streams that have
\* one; dts is the set of them, and there is one.
UpdateCurrentPts(dts, start, slack) ==
    CHOOSE c \in {ConvertTimestamp(d, start, slack) : d \in dts} :
       \A d \in dts : c <= ConvertTimestamp(d, start, slack)

\* GetChapter: the number of the first chapter that contains the time now, or 0.
IsInChapter(chapter, now, start, slack) ==
    /\ now >= ConvertTimestamp(chapter.start, start, slack)
    /\ now < ConvertTimestamp(chapter.end, start, slack)
GetChapter(chapters, now, start, slack) ==
    LET those == {i \in 1 .. Len(chapters) : IsInChapter(chapters[i], now, start, slack)}
    IN IF those = {} THEN 0 ELSE CHOOSE i \in those : \A j \in those : i <= j

-----------------------------------------------------------------------------
(***************************************************************************)
(* Chapters, in microseconds: the table that GetStreams makes, and the     *)
(* position that SeekChapter asks libavformat for.                         *)
(***************************************************************************)

MaxOmxChapters == 64

\* The first of the chapters, in milliseconds; a file without video has none.
ChapterTable(chapters, hasVideo, start, slack) ==
    [i \in 1 .. IF hasVideo /\ Len(chapters) <= MaxOmxChapters THEN Len(chapters)
               ELSE IF hasVideo THEN MaxOmxChapters ELSE 0 |->
       ConvertTimestamp(chapters[i].start, start, slack) \div 1000]

\* SeekTime: av_seek_frame is asked for this position.
SeekTarget(ms, start) == (IF ms < 0 THEN 0 ELSE ms) * 1000 + start

\* SeekChapter knows all chapters of the file, and takes any number below 1 for 1.
Chapter(n) == IF n < 1 THEN 1 ELSE n
CanSeekChapter(chapters, n) == Chapter(n) <= Len(chapters)
SeekChapter(chapters, n, start, slack) ==
    SeekTarget(ConvertTimestamp(chapters[Chapter(n)].start, start, slack) \div 1000, start)

-----------------------------------------------------------------------------
(***************************************************************************)
(* NormalizeFrameduration, in thirds of a microsecond.                     *)
(***************************************************************************)

\* 1.001/24, 1/24, 1/25, 1.001/30, 1/30, 1/50, 1.001/60 and 1/60 s.
Durations == {125125, 125000, 120000, 100100, 100000, 60000, 50050, 50000}
Tolerance == 60                                   \* 20 microseconds

Distance(x, y) == IF x > y THEN x - y ELSE y - x
Near(d) == {c \in Durations : Distance(d, c) < Tolerance}

\* Of two that are equally near the longer comes first in the table.
Precedes(d, c, e) ==
    \/ Distance(d, c) < Distance(d, e)
    \/ Distance(d, c) = Distance(d, e) /\ c >= e

NormalizeFrameduration(d) ==
    IF Near(d) = {} THEN d ELSE CHOOSE c \in Near(d) : \A e \in Near(d) : Precedes(d, c, e)

-----------------------------------------------------------------------------
(***************************************************************************)
(* _aligned_malloc (XMemUtils.cpp): malloc has returned full for           *)
(* size + alignTo + pointer bytes.  alignTo is a power of two, so that     *)
(* ALIGN clears what is left over by a division.                           *)
(***************************************************************************)

Align(value, alignTo) == (value + alignTo - 1) - ((value + alignTo - 1) % alignTo)
Aligned(full, alignTo, pointer) == Align(full + pointer, alignTo)
=============================================================================
