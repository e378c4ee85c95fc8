---------------------------- MODULE ConversionProofs ----------------------------
(***************************************************************************)
(* Proofs about what converts: what Timing and StreamHints compute, for    *)
(* every input, and the memory of CBitstreamConverter, for any packets and *)
(* extradata.                                                              *)
(***************************************************************************)
EXTENDS Bitstream, StreamHints, WellFoundedInduction, FiniteSetTheorems, FunctionTheorems,
        SequenceTheorems, TLAPS


-----------------------------------------------------------------------------
(***************************************************************************)
(* Times, frame rates and addresses.                                       *)
(***************************************************************************)

\* The carry of add_timespecs leaves a remainder of at most a second, which is
\* a whole second just when the sum is a number of seconds.
LEMMA Carried ==
    ASSUME NEW n \in Nat
    PROVE  /\ Carries(n) \in Nat
           /\ n - Billion * Carries(n) \in Nat
           /\ n - Billion * Carries(n) <= Billion
           /\ n - Billion * Carries(n) = Billion <=> n # 0 /\ n % Billion = 0
<1>1. CASE n > Billion
  <2> DEFINE k == (n - 1) \div Billion
             r == (n - 1) % Billion
  <2>1. Carries(n) = k
    BY <1>1 DEF Carries
  <2>2. k \in Nat /\ r \in Nat /\ r < Billion /\ n = Billion * k + r + 1
    BY <1>1, SMTT(20) DEF Billion
  <2> HIDE DEF k, r
  <2>3. n % Billion = 0 <=> r = Billion - 1
    BY <2>2, SMTT(20) DEF Billion
  <2> QED
    BY <1>1, <2>1, <2>2, <2>3, SMTT(20) DEF Billion
<1>2. CASE ~(n > Billion)
  <2>1. Carries(n) = 0
    BY <1>2 DEF Carries
  <2>2. n % Billion = 0 <=> n = 0 \/ n = Billion
    BY <1>2, SMTT(20) DEF Billion
  <2> QED
    BY <1>2, <2>1, <2>2, SMTT(20) DEF Billion
<1> QED
  BY <1>1, <1>2

\* add_timespecs does not lose time, and what it returns is a time that
\* pthread_cond_timedwait accepts, but for a sum of whole seconds: then nsec is
\* 1000000000, and the wait returns at once with EINVAL.
THEOREM DeadlineIsExact ==
    ASSUME NEW sec \in Nat, NEW nsec \in Nat, nsec < Billion, NEW ms \in Nat
    PROVE  LET n == nsec + ms * 1000000
               d == AddTimespecs([sec |-> sec, nsec |-> nsec], ms)
           IN /\ d.sec * Billion + d.nsec = sec * Billion + n
              /\ IsTime(d) <=> n = 0 \/ n % Billion # 0
<1> DEFINE n == nsec + ms * 1000000
           c == Carries(n)
<1>1. n \in Nat
  BY SMTT(20) DEF Billion
<1>2. /\ c \in Nat
      /\ n - Billion * c \in Nat /\ n - Billion * c <= Billion
      /\ n - Billion * c = Billion <=> n # 0 /\ n % Billion = 0
  BY <1>1, Carried
<1>3. AddTimespecs([sec |-> sec, nsec |-> nsec], ms)
         = [sec |-> sec + c, nsec |-> n - Billion * c]
  BY DEF AddTimespecs
<1> HIDE DEF n, c
<1>4. (sec + c) * Billion + (n - Billion * c) = sec * Billion + n
  BY <1>1, <1>2, SMTT(20) DEF Billion
<1>5. IsTime([sec |-> sec + c, nsec |-> n - Billion * c]) <=> n = 0 \/ n % Billion # 0
  <2>1. sec + c \in Nat
    BY <1>2
  <2>2. /\ n - Billion * c \in Nat
        /\ n - Billion * c < Billion <=> n = 0 \/ n % Billion # 0
    BY <1>1, <1>2, SMTT(20) DEF Billion
  <2> QED
    BY <2>1, <2>2 DEF IsTime
<1> QED
  BY <1>3, <1>4, <1>5 DEF n

\* A time survives the two halves of OMX_TICKS, also a negative one.
THEOREM TicksRoundTrip ==
    \A pts \in (-Two63) .. (Two63 - 1) : FromOMXTime(ToOMXTime(pts)) = pts
  BY SMTT(30) DEF FromOMXTime, ToOMXTime, Two32, Two63

\* ConvertTimestamp keeps the order of timestamps that are not earlier than the
\* start by the slack or more.
THEOREM OrderIsKept ==
    ASSUME NEW start \in Int, NEW slack \in Nat, NEW a \in Int, NEW b \in Int,
           a + slack > start, a <= b
    PROVE  ConvertTimestamp(a, start, slack) <= ConvertTimestamp(b, start, slack)
  BY DEF ConvertTimestamp

\* It does not keep the order of all timestamps, when the file starts later than
\* the slack: one from before that is passed on as it is, the start becomes 0.
THEOREM OrderIsLost ==
    ASSUME NEW start \in Int, NEW slack \in Nat, 0 < slack, slack < start
    PROVE  \E a, b \in Int :
              a < b /\ ConvertTimestamp(a, start, slack) > ConvertTimestamp(b, start, slack)
<1>1. WITNESS start - slack \in Int, start \in Int
<1> QED
  BY DEF ConvertTimestamp

\* At most one chapter contains the current time, so that the first that
\* GetChapter finds is the only one, as long as chapters follow each other and
\* none begins before the start of the file by the slack or more.
THEOREM OneChapter ==
    ASSUME NEW start \in Int, NEW slack \in Nat, NEW now \in Int,
           NEW c, c.start \in Int, c.end \in Int,
           NEW d, d.start \in Int, d.end \in Int,
           c.start <= c.end, c.end <= d.start,
           c.start + slack > start,
           IsInChapter(c, now, start, slack)
    PROVE  ~IsInChapter(d, now, start, slack)
<1>1. ConvertTimestamp(c.end, start, slack) <= ConvertTimestamp(d.start, start, slack)
  <2>1. c.end + slack > start
    OBVIOUS
  <2> QED
    BY <2>1, OrderIsKept
<1> QED
  BY <1>1 DEF IsInChapter, ConvertTimestamp

\* SeekChapter asks for a position less than a millisecond before the chapter
\* begins, and for the beginning itself only when that is a whole number of
\* milliseconds from the start of the file: at any other position sought GetChapter
\* does not find the chapter.  A chapter that begins before the file does is sought
\* at the start, if the slack covers it, and else too late by about the start time.
THEOREM ChapterIsSought ==
    ASSUME NEW start \in Nat, NEW slack \in Nat \ {0}, NEW n \in Int,
           NEW chapters, CanSeekChapter(chapters, n),
           chapters[Chapter(n)].start \in Nat, chapters[Chapter(n)].end \in Nat
    PROVE  LET c == chapters[Chapter(n)]
               t == SeekChapter(chapters, n, start, slack)
           IN /\ start <= c.start => /\ t <= c.start /\ c.start < t + 1000
                                     /\ (c.start - start) % 1000 # 0 =>
                                           ~IsInChapter(c, ConvertTimestamp(t, start, slack), start, slack)
              /\ c.start < start /\ start < c.start + slack => t = start
              /\ c.start + slack <= start /\ 1000 <= start => c.start < t
<1> DEFINE c  == chapters[Chapter(n)]
           at == ConvertTimestamp(c.start, start, slack)
           t  == SeekChapter(chapters, n, start, slack)
           ms == at \div 1000
<1>1. at \in Nat
  BY DEF ConvertTimestamp
<1>2. ms \in Nat /\ t = ms * 1000 + start
  <2>1. ms \in Nat
    BY <1>1
  <2>2. t = SeekTarget(ms, start)
    BY DEF SeekChapter
  <2> HIDE DEF ms, t
  <2> QED
    BY <2>1, <2>2 DEF SeekTarget
<1>3. at = ms * 1000 + (at % 1000) /\ (at % 1000) \in 0 .. 999
  <2> HIDE DEF at
  <2> QED
    BY ONLY <1>1
<1>4. t \in Nat /\ start <= t /\ t - start <= at /\ at < t - start + 1000
  <2> HIDE DEF at, ms, t
  <2> QED
    BY <1>1, <1>2, <1>3
<1>5. ASSUME start <= c.start
      PROVE  t <= c.start /\ c.start < t + 1000
  <2>1. at = c.start - start
    BY <1>5 DEF ConvertTimestamp
  <2> HIDE DEF at, t
  <2> QED
    BY <1>4, <1>5, <2>1
<1>6. ASSUME start <= c.start, (c.start - start) % 1000 # 0
      PROVE  ~IsInChapter(c, ConvertTimestamp(t, start, slack), start, slack)
  <2>1. at = c.start - start
    BY <1>6 DEF ConvertTimestamp
  <2>2. t - start < at
    <3>1. at % 1000 # 0
      BY ONLY <1>6, <2>1
    <3> HIDE DEF at, ms, t
    <3> DEFINE r == at % 1000
    <3>2. r # 0 /\ r \in 0 .. 999 /\ at = ms * 1000 + r
      BY ONLY <3>1, <1>3
    <3> HIDE DEF r
    <3> QED
      BY ONLY <3>2, <1>1, <1>2, start \in Nat
  <2>3. ConvertTimestamp(t, start, slack) = t - start
    <3> HIDE DEF t
    <3> QED
      BY <1>4 DEF ConvertTimestamp
  <2> HIDE DEF t
  <2> QED
    BY <1>1, <1>4, <2>2, <2>3 DEF IsInChapter
<1>7. ASSUME c.start < start, start < c.start + slack
      PROVE  t = start
  <2>1. at = 0
    BY <1>7 DEF ConvertTimestamp
  <2>2. ms = 0
    BY <2>1
  <2> HIDE DEF at, ms, t
  <2> QED
    BY <1>2, <2>2
<1>8. ASSUME c.start + slack <= start, 1000 <= start
      PROVE  c.start < t
  <2>1. at = c.start
    BY <1>8 DEF ConvertTimestamp
  <2> HIDE DEF at, t
  <2> QED
    BY <1>4, <1>8, <2>1
<1> QED
  BY <1>5, <1>6, <1>7, <1>8

\* NormalizeFrameduration returns a common duration that is nearest, or its
\* argument.
LEMMA NormalizedIsNear ==
    ASSUME NEW d \in Int
    PROVE  \/ Near(d) = {} /\ NormalizeFrameduration(d) = d
           \/ /\ NormalizeFrameduration(d) \in Near(d)
              /\ \A e \in Near(d) : Precedes(d, NormalizeFrameduration(d), e)
<1>1. CASE Near(d) = {}
  BY <1>1 DEF NormalizeFrameduration
<1>2. CASE Near(d) # {}
  <2>1. \E c \in Near(d) : \A e \in Near(d) : Precedes(d, c, e)
    <3>1. PICK c \in Near(d) : TRUE
      BY <1>2
    <3>2. \A e \in Near(d) :
             \/ e = c
             \/ {c, e} = {100100, 100000}
             \/ {c, e} = {50050, 50000}
      BY <3>1 DEF Near, Durations, Tolerance, Distance
    <3>3. CASE \A e \in Near(d) : Precedes(d, c, e)
      BY <3>1, <3>3
    <3>4. CASE \E e \in Near(d) : ~Precedes(d, c, e)
      <4>1. PICK e \in Near(d) : ~Precedes(d, c, e)
        BY <3>4
      <4>2. c \in Int /\ e \in Int
        BY DEF Near, Durations
      <4>3. Precedes(d, e, c) /\ Precedes(d, e, e)
        BY <4>1, <4>2 DEF Precedes, Distance
      <4>4. e # c
        BY <4>1, <4>2 DEF Precedes, Distance
      <4>5. \A f \in Near(d) : f = c \/ f = e
        BY <3>2, <4>4
      <4> QED
        BY <4>3, <4>5
    <3> QED
      BY <3>3, <3>4
  <2>2. NormalizeFrameduration(d)
           = CHOOSE c \in Near(d) : \A e \in Near(d) : Precedes(d, c, e)
    BY <1>2 DEF NormalizeFrameduration
  <2> QED
    BY <2>1, <2>2
<1> QED
  BY <1>1, <1>2

\* What is normalized is within 20 microseconds of what was given, and
\* normalizing it again changes nothing: although the bands of 1.001/60 and 1/60
\* and those of 1.001/30 and 1/30 overlap, no duration moves from one to the
\* other.
THEOREM NormalizedOnce ==
    ASSUME NEW d \in Int
    PROVE  /\ Distance(d, NormalizeFrameduration(d)) < Tolerance
           /\ NormalizeFrameduration(NormalizeFrameduration(d)) = NormalizeFrameduration(d)
<1> DEFINE n == NormalizeFrameduration(d)
<1>1. CASE Near(d) = {}
  <2>1. n = d
    BY <1>1 DEF NormalizeFrameduration
  <2> QED
    BY <2>1 DEF Distance, Tolerance
<1>2. CASE Near(d) # {}
  <2>1. n \in Near(d) /\ n \in Int
    BY <1>2, NormalizedIsNear DEF Near, Durations
  <2>2. n \in Near(n) /\ Distance(n, n) = 0
    BY <2>1 DEF Near, Tolerance, Distance
  <2>3. NormalizeFrameduration(n) \in Near(n) /\ Precedes(n, NormalizeFrameduration(n), n)
    BY <2>1, <2>2, NormalizedIsNear
  <2>4. NormalizeFrameduration(n) \in Int
    BY <2>3 DEF Near, Durations
  <2>5. NormalizeFrameduration(n) = n
    BY <2>1, <2>3, <2>4 DEF Precedes, Distance
  <2>6. Distance(d, n) < Tolerance
    BY <2>1 DEF Near
  <2> QED
    BY <2>5, <2>6
<1> QED
  BY <1>1, <1>2

\* The hints have both parts of a frame rate or none, whatever the container says
\* of either, so that the player never divides by a part that is missing.
THEOREM RateHasScale ==
    ASSUME NEW st, NEW matroska \in BOOLEAN
    PROVE  LET rate == FrameRate(st, matroska) IN rate.num = 0 <=> rate.den = 0
  BY DEF FrameRate, IsRate

\* Whatever the hints say, the frame time is that of 5 to 100 frames a second: it
\* is 25 frames a second, or what the hints say but for at most 20 microseconds.
THEOREM FrameTimeIsUsable ==
    ASSUME NEW hints, hints.rate \in Nat, hints.scale \in Nat
    PROVE  /\ 30000 <= FrameTime(hints) /\ FrameTime(hints) <= 600000
           /\ \/ FrameTime(hints) = Default
              \/ Distance((3000000 * hints.scale) \div hints.rate, FrameTime(hints)) < Tolerance
<1>1. CASE hints.rate = 0 \/ hints.scale = 0
  BY <1>1 DEF FrameTime, Default
<1>2. CASE hints.rate # 0 /\ hints.scale # 0
  <2> DEFINE d == (3000000 * hints.scale) \div hints.rate
             n == NormalizeFrameduration(d)
  <2>1. d \in Int
    BY <1>2
  <2>2. Distance(d, n) < Tolerance
    BY <2>1, NormalizedOnce
  <2>3. n \in Int
    <3>1. CASE Near(d) = {}
      BY <2>1, <3>1 DEF NormalizeFrameduration
    <3>2. CASE Near(d) # {}
      BY <2>1, <3>2, NormalizedIsNear DEF Near, Durations
    <3> QED
      BY <3>1, <3>2
  <2>4. FrameTime(hints) = IF n < 30000 \/ n > 600000 THEN Default ELSE n
    BY <1>2 DEF FrameTime
  <2> HIDE DEF d, n
  <2>5. CASE n < 30000 \/ n > 600000
    BY <2>4, <2>5 DEF Default
  <2>6. CASE ~(n < 30000 \/ n > 600000)
    BY <2>2, <2>3, <2>4, <2>6 DEF d
  <2> QED
    BY <2>5, <2>6
<1> QED
  BY <1>1, <1>2

\* The address that _aligned_malloc returns is aligned, and the size bytes from
\* it and the pointer before it are within what malloc gave.
THEOREM AlignedFits ==
    ASSUME NEW full \in Nat, NEW size \in Nat, NEW pointer \in Nat,
           NEW alignTo \in Nat \ {0}
    PROVE  LET p == Aligned(full, alignTo, pointer)
           IN /\ p % alignTo = 0
              /\ full <= p - pointer
              /\ p + size < full + size + alignTo + pointer
<1> DEFINE v == full + pointer + alignTo - 1
           k == v \div alignTo
           p == Aligned(full, alignTo, pointer)
<1>1. v \in Nat /\ v % alignTo \in 0 .. alignTo - 1
  OBVIOUS
<1>2. p = v - (v % alignTo)
  BY DEF Aligned, Align
<1>3. v = alignTo * k + (v % alignTo) /\ k \in Int
  OBVIOUS
<1>4. p = alignTo * k
  BY <1>1, <1>2, <1>3
<1>5. (alignTo * k) % alignTo = 0
  BY <1>3
<1>6. full <= p - pointer /\ p < full + alignTo + pointer
  <2> HIDE DEF p
  <2> QED
    BY <1>1, <1>2
<1> QED
  BY <1>4, <1>5, <1>6, <1>1, <1>2

-----------------------------------------------------------------------------
(***************************************************************************)
(* The search for start codes.                                             *)
(***************************************************************************)

LEMMA LeastOf ==
    ASSUME NEW T \in SUBSET Nat, T # {}
    PROVE  \E x \in T : \A y \in T : x <= y
<1>1. PICK x \in T : \A y \in T : ~ (<<y, x>> \in OpToRel(<, Nat))
  BY WFMin, NatLessThanWellFounded
<1>2. ASSUME NEW y \in T, y < x PROVE FALSE
  <2>1. <<y, x>> \in OpToRel(<, Nat)
    BY <1>2 DEF OpToRel
  <2>. QED  BY <1>1, <2>1
<1>. QED  BY <1>2

LEMMA LeastIs ==
    ASSUME NEW T \in SUBSET Nat, T # {}
    PROVE  Least(T) \in T /\ \A y \in T : Least(T) <= y
BY LeastOf DEF Least

\* How many words the second loop visits: the words are every fourth address from
\* the first one on, so it leaves off after the last of them.
LEMMA WordsCounted ==
    ASSUME NEW first \in Nat, NEW last \in Int
    PROVE  LET words == {w \in first .. last : (w - first) % 4 = 0}
               rest  == first + 4 * Cardinality(words)
           IN /\ rest \in Nat /\ first <= rest /\ last < rest
              /\ first <= last => rest <= last + 4
              /\ last < first => rest = first
              /\ \A q \in first .. rest - 1 : \E w \in words : q \in w .. w + 3
              /\ \A w \in words : w + 3 < rest
<1> DEFINE words == {w \in first .. last : (w - first) % 4 = 0}
           k     == IF last < first THEN 0 ELSE (last - first) \div 4 + 1
           f     == [i \in 1 .. k |-> first + 4 * (i - 1)]
<1>1. /\ k \in Nat
      /\ last < first => k = 0
      /\ first <= last => first + 4 * k <= last + 4 /\ last < first + 4 * k
  OBVIOUS
<1>2. \A i \in 1 .. k : first + 4 * (i - 1) \in words
  BY <1>1
<1>3. \A w \in words : \E i \in 1 .. k : w = first + 4 * (i - 1)
  <2> SUFFICES ASSUME NEW w \in words PROVE \E i \in 1 .. k : w = first + 4 * (i - 1)
    OBVIOUS
  <2> DEFINE i == (w - first) \div 4 + 1
  <2>1. i \in Int /\ w = first + 4 * (i - 1)
    OBVIOUS
  <2> HIDE DEF i
  <2>2. i \in 1 .. k
    BY <1>1, <2>1
  <2> QED
    BY <2>1, <2>2
<1> HIDE DEF k, words
<1>4. f \in Bijection(1 .. k, words)
  <2>1. f \in [1 .. k -> words]
    BY <1>2
  <2>2. \A i, j \in 1 .. k : f[i] = f[j] => i = j
    BY <1>1
  <2>3. \A w \in words : \E i \in 1 .. k : f[i] = w
    BY <1>3
  <2> QED
    BY <2>1, <2>2, <2>3, Fun_IsBij
<1>5. Cardinality(words) = k
  BY <1>1, <1>4, FS_CountingElements DEF ExistsBijection
<1>6. \A q \in first .. first + 4 * k - 1 : \E w \in words : q \in w .. w + 3
  <2> SUFFICES ASSUME NEW q \in first .. first + 4 * k - 1
               PROVE  \E w \in words : q \in w .. w + 3
    OBVIOUS
  <2> DEFINE i == (q - first) \div 4 + 1
  <2>1. /\ i \in Int
        /\ first + 4 * (i - 1) <= q /\ q <= first + 4 * (i - 1) + 3
    BY <1>1
  <2> HIDE DEF i
  <2>2. i \in 1 .. k
    BY <1>1, <2>1
  <2> QED
    BY <1>1, <1>2, <2>1, <2>2
<1>7. \A w \in words : w + 3 < first + 4 * k
  BY <1>1, <1>3
<1> DEFINE rest == first + 4 * Cardinality(words)
<1>8. rest = first + 4 * k
  BY <1>5
<1> HIDE DEF rest
<1>9. /\ rest \in Nat /\ first <= rest /\ last < rest
      /\ first <= last => rest <= last + 4
      /\ last < first => rest = first
      /\ \A q \in first .. rest - 1 : \E w \in words : q \in w .. w + 3
      /\ \A w \in words : w + 3 < rest
  BY <1>1, <1>6, <1>7, <1>8
<1> QED
  BY <1>9, Zenon DEF words, rest

\* The three loops of avc_find_startcode_internal together look at every position
\* but the last three.
LEMMA EveryPositionIsTried ==
    ASSUME NEW b, NEW align \in 0 .. 3, NEW end \in Nat, NEW p \in 0 .. end, p < end - 3
    PROVE  LET codes == {q \in p .. end - 4 : StartsAt(b, q)}
           IN FindInternal(b, align, p, end) = IF codes = {} THEN end ELSE Least(codes)
<1> DEFINE codes   == {q \in p .. end - 4 : StartsAt(b, q)}
           aligned == Lesser(p + 4 - ((align + p) % 4), end - 3)
           words   == {w \in aligned .. end - 7 : (w - aligned) % 4 = 0}
           rest    == aligned + 4 * Cardinality(words)
           before  == {q \in p .. aligned - 1 : StartsAt(b, q)}
           within  == UNION {InWord(b, w) : w \in words}
           after   == {q \in rest .. end - 4 : StartsAt(b, q)}
           found   == before \cup within \cup after
<1>1. aligned \in Nat /\ p < aligned /\ aligned <= end - 3
  BY DEF Lesser
<1>2. FindInternal(b, align, p, end) = IF found = {} THEN end ELSE Least(found)
  <2>1. ~(p >= end - 3)
    OBVIOUS
  <2>2. FindInternal(b, align, p, end)
          = IF p >= end - 3 \/ found = {} THEN end ELSE Least(found)
    BY DEF FindInternal
  <2> HIDE DEF found
  <2> QED
    BY <2>1, <2>2
<1> HIDE DEF aligned
<1>3. /\ rest \in Nat /\ aligned <= rest /\ rest <= end - 3
      /\ \A q \in aligned .. rest - 1 : \E w \in words : q \in w .. w + 3
      /\ \A w \in words : w + 3 < rest
  <2>1. end - 7 \in Int
    OBVIOUS
  <2>2. /\ rest \in Nat /\ aligned <= rest /\ end - 7 < rest
        /\ aligned <= end - 7 => rest <= end - 7 + 4
        /\ end - 7 < aligned => rest = aligned
        /\ \A q \in aligned .. rest - 1 : \E w \in words : q \in w .. w + 3
        /\ \A w \in words : w + 3 < rest
    BY <1>1, <2>1, WordsCounted, Zenon
  <2> HIDE DEF words, rest
  <2> QED
    BY <1>1, <2>2
<1>4. \A w \in words : InWord(b, w) = {q \in w .. w + 3 : StartsAt(b, q)}
  BY DEF InWord, StartsAt
<1>5. \A w \in words : w \in Nat /\ aligned <= w
  BY <1>1
<1> HIDE DEF words, rest
<1>6. found = codes
  <2>1. ASSUME NEW q \in found PROVE q \in codes
    <3>1. CASE q \in before
      BY <1>1, <3>1
    <3>2. CASE q \in within
      <4>1. PICK w \in words : q \in w .. w + 3 /\ StartsAt(b, q)
        BY <1>4, <3>2
      <4> QED
        BY <1>1, <1>3, <1>5, <4>1
    <3>3. CASE q \in after
      BY <1>1, <1>3, <3>3
    <3> HIDE DEF before, within, after
    <3> QED
      BY <2>1, <3>1, <3>2, <3>3
  <2>2. ASSUME NEW q \in codes PROVE q \in found
    <3>1. CASE q < aligned
      <4>1. q \in before
        BY <1>1, <3>1
      <4> QED
        BY <4>1, Zenon
    <3>2. CASE aligned <= q /\ q < rest
      <4>1. PICK w \in words : q \in w .. w + 3
        BY <1>1, <1>3, <3>2
      <4>2. q \in within
        BY <1>4, <4>1
      <4> QED
        BY <4>2, Zenon
    <3>3. CASE rest <= q
      <4>1. q \in after
        BY <1>1, <1>3, <3>3
      <4> QED
        BY <4>1, Zenon
    <3> QED
      BY <1>1, <1>3, <3>1, <3>2, <3>3
  <2> QED
    BY <2>1, <2>2
<1> QED
  BY <1>2, <1>6

\* avc_find_startcode finds the first start code from p on that is not in the last
\* three bytes, and a byte 0 before it that is not before p, wherever the data begins in
\* memory; without a start code it returns the end.
THEOREM StartCodeIsFirst ==
    ASSUME NEW b \in Seq(0 .. 255), NEW align \in 0 .. 3,
           NEW end \in 0 .. Len(b), NEW p \in 0 .. end
    PROVE  LET codes == {q \in p .. end - 4 : StartsAt(b, q)}
               out   == FindStartCode(b, align, p, end)
           IN IF codes = {} THEN out = end
              ELSE \E q \in codes :
                      /\ \A r \in codes : q <= r
                      /\ out = IF p < q /\ At(b, q - 1) = 0 THEN q - 1 ELSE q
<1> DEFINE codes == {q \in p .. end - 4 : StartsAt(b, q)}
           found == FindInternal(b, align, p, end)
<1>1. end \in Nat /\ p \in Nat
  OBVIOUS
<1>2. found = IF codes = {} THEN end ELSE Least(codes)
  <2>1. CASE p < end - 3
    BY <1>1, <2>1, EveryPositionIsTried
  <2>2. CASE ~(p < end - 3)
    BY <1>1, <2>2 DEF FindInternal
  <2> QED
    BY <2>1, <2>2
<1>3. FindStartCode(b, align, p, end)
        = IF p < found /\ found < end /\ At(b, found - 1) = 0 THEN found - 1 ELSE found
  BY DEF FindStartCode
<1>4. codes \in SUBSET Nat /\ \A q \in codes : q < end
  BY <1>1
<1> HIDE DEF codes, found
<1>5. CASE codes = {}
  BY <1>1, <1>2, <1>3, <1>5 DEF codes
<1>6. CASE codes # {}
  <2>1. found \in codes /\ \A r \in codes : found <= r
    BY <1>2, <1>4, <1>6, LeastIs
  <2>2. found < end
    BY <1>4, <2>1
  <2> QED
    BY <1>3, <1>6, <2>1, <2>2 DEF codes
<1> QED
  BY <1>5, <1>6

-----------------------------------------------------------------------------
(***************************************************************************)
(* From start codes to lengths: avc_parse_nal_units finds the NAL units.   *)
(***************************************************************************)

\* Induction, for a set of numbers.
LEMMA NatSetInduction ==
    ASSUME NEW S, 0 \in S, \A n \in Nat : n \in S => n + 1 \in S
    PROVE  Nat \subseteq S
<1> DEFINE T == Nat \ S
<1> SUFFICES ASSUME T # {} PROVE FALSE
  OBVIOUS
<1>1. PICK x \in T : \A y \in T : x <= y
  BY LeastOf
<1>2. x \in Nat /\ x # 0
  OBVIOUS
<1>3. x - 1 \in T /\ x - 1 < x
  BY <1>2
<1>. QED  BY <1>1, <1>3

\* f holds the concatenations of the first parts of s, up to n of them.
IsFlat(f, s, n) ==
    /\ f = [i \in 1 .. n |-> f[i]]
    /\ \A i \in 1 .. n : f[i] = IF i = 1 THEN s[1] ELSE f[i - 1] \o s[i]

LEMMA FlatExists ==
    ASSUME NEW s, Len(s) \in Nat
    PROVE  \E f : IsFlat(f, s, Len(s))
<1> DEFINE N == {n \in Nat : \E f : IsFlat(f, s, n)}
<1>1. 0 \in N
  <2>. DEFINE f == [i \in 1 .. 0 |-> s]
  <2>1. IsFlat(f, s, 0)
    BY DEF IsFlat
  <2>. QED  BY <2>1
<1>2. ASSUME NEW n \in Nat, n \in N PROVE n + 1 \in N
  <2>1. PICK f : IsFlat(f, s, n)
    BY <1>2
  <2>. DEFINE last == IF n = 0 THEN s[1] ELSE f[n] \o s[n + 1]
              g == [i \in 1 .. n + 1 |-> IF i = n + 1 THEN last ELSE f[i]]
  <2>2. \A i \in 1 .. n : g[i] = f[i]
    OBVIOUS
  <2>3. g[n + 1] = last
    OBVIOUS
  <2>4. g = [i \in 1 .. n + 1 |-> g[i]]
    OBVIOUS
  <2>. HIDE DEF g
  <2>5. ASSUME NEW i \in 1 .. n + 1
        PROVE  g[i] = IF i = 1 THEN s[1] ELSE g[i - 1] \o s[i]
    <3>1. CASE i = n + 1
      <4>1. CASE n = 0
        BY <2>3, <3>1, <4>1
      <4>2. CASE n # 0
        <5>1. i # 1 /\ i - 1 = n /\ n \in 1 .. n
          BY <3>1, <4>2
        <5>2. g[i] = f[n] \o s[n + 1]
          BY <2>3, <3>1, <4>2
        <5>. QED  BY <2>2, <3>1, <5>1, <5>2
      <4>. QED  BY <4>1, <4>2
    <3>2. CASE i \in 1 .. n
      <4>1. f[i] = IF i = 1 THEN s[1] ELSE f[i - 1] \o s[i]
        BY <2>1, <3>2 DEF IsFlat
      <4>2. g[i] = f[i] /\ (i # 1 => g[i - 1] = f[i - 1])
        BY <2>2, <3>2
      <4>. QED  BY <4>1, <4>2
    <3>. QED  BY <3>1, <3>2
  <2>6. IsFlat(g, s, n + 1)
    BY <2>4, <2>5 DEF IsFlat
  <2>. QED  BY <2>6
<1>. HIDE DEF N
<1>3. Len(s) \in N
  BY <1>1, <1>2, NatSetInduction
<1>. QED  BY <1>3 DEF N

\* FlattenSeq is the last of the concatenations.
LEMMA FlattenIsFlat ==
    ASSUME NEW s, Len(s) \in Nat \ {0}
    PROVE  \E f : IsFlat(f, s, Len(s)) /\ FlattenSeq(s) = f[Len(s)]
<1> DEFINE body(f) == [i \in 1 .. Len(s) |-> IF i = 1 THEN s[i] ELSE f[i - 1] \o s[i]]
           flat == CHOOSE f : f = body(f)
<1>1. \A f : f = body(f) <=> IsFlat(f, s, Len(s))
  <2>. SUFFICES ASSUME NEW f PROVE f = body(f) <=> IsFlat(f, s, Len(s))
    OBVIOUS
  <2>1. ASSUME f = body(f) PROVE IsFlat(f, s, Len(s))
    <3>1. \A i \in 1 .. Len(s) : f[i] = IF i = 1 THEN s[i] ELSE f[i - 1] \o s[i]
      BY <2>1
    <3>2. f = [i \in 1 .. Len(s) |-> f[i]]
      BY <2>1
    <3>. QED  BY <3>1, <3>2 DEF IsFlat
  <2>2. ASSUME IsFlat(f, s, Len(s)) PROVE f = body(f)
    BY <2>2 DEF IsFlat
  <2>. QED  BY <2>1, <2>2
<1>2. \E f : f = body(f)
  BY <1>1, FlatExists
<1>3. flat = body(flat)
  BY <1>2
<1>4. FlattenSeq(s) = flat[Len(s)]
  BY DEF FlattenSeq
<1>5. IsFlat(flat, s, Len(s))
  BY <1>1, <1>3
<1>. HIDE DEF flat
<1>. QED  BY <1>4, <1>5

\* b consists of the parts of s, the next after the one before: part i ends at e[i].
Consists(b, s, e) ==
    /\ e \in [0 .. Len(s) -> Nat] /\ e[0] = 0 /\ Len(b) = e[Len(s)]
    /\ \A i \in 1 .. Len(s) :
          /\ e[i] = e[i - 1] + Len(s[i])
          /\ \A j \in 1 .. Len(s[i]) : b[e[i - 1] + j] = s[i][j]

\* Every part of s is in FlattenSeq(s), and nothing else is.
LEMMA PartsInOrder ==
    ASSUME NEW T, NEW s \in Seq(Seq(T))
    PROVE  FlattenSeq(s) \in Seq(T) /\ \E e : Consists(FlattenSeq(s), s, e)
<1>1. CASE Len(s) = 0
  <2>1. s = <<>> /\ FlattenSeq(s) = <<>>
    BY <1>1 DEF FlattenSeq
  <2>. DEFINE e == [i \in 0 .. 0 |-> 0]
  <2>2. e \in [0 .. Len(s) -> Nat] /\ e[0] = 0
    BY <1>1
  <2>3. FlattenSeq(s) \in Seq(T) /\ Len(FlattenSeq(s)) = e[Len(s)]
    <3>1. FlattenSeq(s) \in Seq(T) /\ Len(FlattenSeq(s)) = 0
      <4>1. FlattenSeq(s) = s /\ s \in Seq(T)
        BY <2>1
      <4>. QED  BY <1>1, <4>1
    <3>. HIDE DEF e
    <3>. QED  BY <1>1, <2>2, <3>1
  <2>4. 1 .. Len(s) = {}
    BY <1>1
  <2>. HIDE DEF e
  <2>5. Consists(FlattenSeq(s), s, e)
    BY <2>2, <2>3, <2>4 DEF Consists
  <2>. QED  BY <2>3, <2>5
<1>2. CASE Len(s) # 0
  <2>1. PICK f : IsFlat(f, s, Len(s)) /\ FlattenSeq(s) = f[Len(s)]
    BY <1>2, FlattenIsFlat
  <2>2. ASSUME NEW i \in 1 .. Len(s) PROVE s[i] \in Seq(T) /\ Len(s[i]) \in Nat
    OBVIOUS
  <2>. DEFINE e == [i \in 0 .. Len(s) |-> IF i = 0 THEN 0 ELSE Len(f[i])]
              Holds(n) == /\ f[n] \in Seq(T) /\ e[n] = Len(f[n])
                          /\ \A i \in 1 .. n :
                                /\ e[i] \in Nat /\ e[i - 1] \in Nat
                                /\ e[i] = e[i - 1] + Len(s[i])
                                /\ e[i] <= Len(f[n])
                                /\ \A j \in 1 .. Len(s[i]) : f[n][e[i - 1] + j] = s[i][j]
              N == {n \in Nat : n + 1 <= Len(s) => Holds(n + 1)}
  <2>3. /\ e[0] = 0 /\ \A i \in 1 .. Len(s) : e[i] = Len(f[i])
    OBVIOUS
  <2>. HIDE DEF e
  <2>4. 0 \in N
    <3>0. 1 \in 1 .. Len(s)
      BY <1>2
    <3>1. f[1] = s[1]
      BY <2>1, <3>0 DEF IsFlat
    <3>2. Holds(1)
      BY <2>2, <2>3, <3>0, <3>1
    <3>. QED  BY <3>2
  <2>5. ASSUME NEW n \in Nat, n \in N PROVE n + 1 \in N
    <3>. SUFFICES ASSUME n + 2 <= Len(s) PROVE Holds(n + 2)
      OBVIOUS
    <3>1. Holds(n + 1)
      BY <2>5
    <3>. DEFINE a == f[n + 1]
                c == s[n + 2]
    <3>2. f[n + 2] = a \o c
      <4>1. n + 2 \in 1 .. Len(s) /\ n + 2 # 1 /\ (n + 2) - 1 = n + 1
        OBVIOUS
      <4>. QED  BY <2>1, <4>1 DEF IsFlat
    <3>3. a \in Seq(T) /\ c \in Seq(T) /\ e[n + 1] = Len(a)
      BY <2>2, <3>1
    <3>4. /\ a \o c \in Seq(T) /\ Len(a \o c) = Len(a) + Len(c)
          /\ \A j \in 1 .. Len(a) : (a \o c)[j] = a[j]
          /\ \A j \in 1 .. Len(c) : (a \o c)[Len(a) + j] = c[j]
      <4>. HIDE DEF a, c
      <4>. QED  BY <3>3, ConcatProperties
    <3>5. e[n + 2] = Len(f[n + 2])
      BY <2>3
    <3>6. ASSUME NEW i \in 1 .. n + 1
          PROVE  /\ e[i] \in Nat /\ e[i - 1] \in Nat
                 /\ e[i] = e[i - 1] + Len(s[i])
                 /\ e[i] <= Len(f[n + 2])
                 /\ \A j \in 1 .. Len(s[i]) : f[n + 2][e[i - 1] + j] = s[i][j]
      <4>1. /\ e[i] \in Nat /\ e[i - 1] \in Nat
            /\ e[i] = e[i - 1] + Len(s[i]) /\ e[i] <= Len(a)
            /\ \A j \in 1 .. Len(s[i]) : a[e[i - 1] + j] = s[i][j]
        BY <3>1
      <4>2. Len(a) \in Nat /\ Len(c) \in Nat /\ Len(s[i]) \in Nat
        BY <2>2, <3>3
      <4>3. Len(f[n + 2]) = Len(a) + Len(c) /\ \A j \in 1 .. Len(a) : f[n + 2][j] = a[j]
        BY <3>2, <3>4
      <4>4. e[i] <= Len(f[n + 2])
        <5>. HIDE DEF a, c
        <5>. QED  BY <4>1, <4>2, <4>3
      <4>5. ASSUME NEW j \in 1 .. Len(s[i]) PROVE f[n + 2][e[i - 1] + j] = s[i][j]
        <5>1. e[i - 1] + j \in 1 .. Len(a)
          <6>. HIDE DEF a, c
          <6>. QED  BY <4>1, <4>2, SMTT(40)
        <5>. QED  BY <4>1, <4>3, <5>1
      <4>. QED  BY <4>1, <4>4, <4>5
    <3>7. /\ e[n + 2] \in Nat /\ e[n + 1] \in Nat
          /\ e[n + 2] = e[n + 1] + Len(s[n + 2])
          /\ e[n + 2] <= Len(f[n + 2])
          /\ \A j \in 1 .. Len(s[n + 2]) : f[n + 2][e[n + 1] + j] = s[n + 2][j]
      <4>1. c = s[n + 2]
        OBVIOUS
      <4>. HIDE DEF a, c
      <4>2. Len(a) \in Nat /\ Len(c) \in Nat
        BY <3>3
      <4>3. e[n + 2] = Len(a) + Len(c) /\ e[n + 1] = Len(a) /\ e[n + 2] = Len(f[n + 2])
        BY <3>2, <3>3, <3>4, <3>5, Zenon
      <4>4. \A j \in 1 .. Len(c) : f[n + 2][e[n + 1] + j] = c[j]
        BY <3>2, <3>4, <4>3, Zenon
      <4>5. e[n + 2] \in Nat /\ e[n + 1] \in Nat /\ e[n + 2] = e[n + 1] + Len(c)
            /\ e[n + 2] <= Len(f[n + 2])
        <5> DEFINE x == e[n + 2]
                   y == e[n + 1]
                   u == Len(a)
                   v == Len(c)
                   w == Len(f[n + 2])
        <5>1. u \in Nat /\ v \in Nat /\ x = u + v /\ y = u /\ x = w
          BY <4>2, <4>3, Zenon
        <5>. HIDE DEF x, y, u, v, w
        <5>2. x \in Nat /\ y \in Nat /\ x = y + v /\ x <= w
          BY ONLY <5>1
        <5>. QED  BY <5>2, Zenon DEF x, y, v, w
      <4>. QED  BY <4>1, <4>4, <4>5, Zenon
    <3>8. f[n + 2] \in Seq(T)
      BY <3>2, <3>4
    <3>9. \A i \in 1 .. n + 2 : i \in 1 .. n + 1 \/ (i = n + 2 /\ i - 1 = n + 1)
      OBVIOUS
    <3>. HIDE DEF a, c
    <3>. QED  BY <3>5, <3>6, <3>7, <3>8, <3>9
  <2>. HIDE DEF N
  <2>6. Len(s) - 1 \in N
    <3>1. Nat \subseteq N
      BY <2>4, <2>5, NatSetInduction
    <3>. QED  BY <1>2, <3>1
  <2>7. Holds(Len(s))
    <3>1. Len(s) - 1 + 1 = Len(s)
      OBVIOUS
    <3>. QED  BY <2>6, <3>1 DEF N
  <2>8. e \in [0 .. Len(s) -> Nat]
    <3>1. \A i \in 0 .. Len(s) : e[i] \in Nat
      BY <2>3, <2>7
    <3>2. e = [i \in 0 .. Len(s) |-> e[i]]
      BY DEF e
    <3>. QED  BY <3>1, <3>2
  <2>9. Consists(FlattenSeq(s), s, e)
    BY <2>1, <2>3, <2>7, <2>8 DEF Consists
  <2>. QED  BY <2>1, <2>7, <2>9
<1>. QED  BY <1>1, <1>2

LEMMA IsSeq ==
    ASSUME NEW T, NEW n \in Nat, NEW f \in [1 .. n -> T]
    PROVE  f \in Seq(T)
OBVIOUS

LEMMA Joined ==
    ASSUME NEW T, NEW c \in Seq(T), NEW u \in Seq(T)
    PROVE  /\ c \o u \in Seq(T) /\ Len(c \o u) = Len(c) + Len(u)
           /\ \A j \in 1 .. Len(c) : (c \o u)[j] = c[j]
           /\ \A j \in 1 .. Len(u) : (c \o u)[Len(c) + j] = u[j]
BY ConcatProperties

\* How long the start code of unit i is.
CodeSize(i) == IF i = 1 THEN 4 ELSE 3

\* In b the units lie one after the other, each behind its start code: unit i begins
\* at s[i] and ends at e[i].
Laid(b, nals, s, e) ==
    /\ b \in Seq(0 .. 255) /\ nals \in Seq(Seq(0 .. 255))
    /\ s \in [1 .. Len(nals) -> Nat] /\ e \in [0 .. Len(nals) -> Nat]
    /\ e[0] = 0 /\ Len(b) = e[Len(nals)]
    /\ \A i \in 1 .. Len(nals) :
          /\ IsPlain(nals[i])
          /\ e[i - 1] + 3 <= s[i] /\ s[i] <= e[i - 1] + 4 /\ (i # 1 => s[i] = e[i - 1] + 3)
          /\ \A q \in e[i - 1] .. s[i] - 2 : At(b, q) = 0
          /\ At(b, s[i] - 1) = 1
          /\ \A j \in 0 .. Len(nals[i]) - 1 : At(b, s[i] + j) = nals[i][j + 1]
          /\ e[i] = s[i] + Len(nals[i])

LEMMA UnitsAreLaid ==
    ASSUME NEW nals \in Seq(Seq(0 .. 255)), \A i \in DOMAIN nals : IsPlain(nals[i])
    PROVE  \E s, e : Laid(AnnexB(nals), nals, s, e)
<1> DEFINE code(i) == IF i = 1 THEN <<0, 0, 0, 1>> ELSE <<0, 0, 1>>
           part    == [i \in DOMAIN nals |-> code(i) \o nals[i]]
           b       == AnnexB(nals)
<1>1. ASSUME NEW i \in 1 .. Len(nals)
      PROVE  /\ part[i] \in Seq(0 .. 255) /\ Len(nals[i]) \in Nat
             /\ Len(part[i]) = CodeSize(i) + Len(nals[i])
             /\ \A j \in 1 .. CodeSize(i) - 1 : part[i][j] = 0
             /\ part[i][CodeSize(i)] = 1
             /\ \A j \in 1 .. Len(nals[i]) : part[i][CodeSize(i) + j] = nals[i][j]
  <2>1. nals[i] \in Seq(0 .. 255) /\ Len(nals[i]) \in Nat
    OBVIOUS
  <2>2. part[i] = code(i) \o nals[i]
    <3>1. i \in DOMAIN nals
      OBVIOUS
    <3>. QED  BY <3>1, Zenon
  <2>3. /\ code(i) \in Seq(0 .. 255) /\ Len(code(i)) = CodeSize(i)
        /\ CodeSize(i) \in Nat \ {0} /\ code(i)[CodeSize(i)] = 1
        /\ \A j \in 1 .. CodeSize(i) - 1 : code(i)[j] = 0
    <3>1. CASE i = 1
      BY <3>1 DEF CodeSize
    <3>2. CASE i # 1
      BY <3>2 DEF CodeSize
    <3>. QED  BY <3>1, <3>2
  <2>. HIDE DEF part, code
  <2>4. /\ part[i] \in Seq(0 .. 255) /\ Len(part[i]) = CodeSize(i) + Len(nals[i])
        /\ \A j \in 1 .. CodeSize(i) : part[i][j] = code(i)[j]
        /\ \A j \in 1 .. Len(nals[i]) : part[i][CodeSize(i) + j] = nals[i][j]
    <3>1. \A c \in Seq(0 .. 255), u \in Seq(0 .. 255) :
             /\ c \o u \in Seq(0 .. 255) /\ Len(c \o u) = Len(c) + Len(u)
             /\ \A j \in 1 .. Len(c) : (c \o u)[j] = c[j]
             /\ \A j \in 1 .. Len(u) : (c \o u)[Len(c) + j] = u[j]
      BY Joined
    <3>2. LET w == code(i) \o nals[i]
          IN /\ w \in Seq(0 .. 255) /\ Len(w) = Len(code(i)) + Len(nals[i])
             /\ \A j \in 1 .. Len(code(i)) : w[j] = code(i)[j]
             /\ \A j \in 1 .. Len(nals[i]) : w[Len(code(i)) + j] = nals[i][j]
      BY <2>1, <2>3, <3>1, Zenon
    <3>. QED  BY <2>2, <2>3, <3>2
  <2>5. CodeSize(i) \in 1 .. CodeSize(i) /\ 1 .. CodeSize(i) - 1 \subseteq 1 .. CodeSize(i)
    BY <2>3
  <2>. QED  BY <2>1, <2>3, <2>4, <2>5
<1>2. part \in Seq(Seq(0 .. 255)) /\ Len(part) = Len(nals)
  <2>1. DOMAIN nals = 1 .. Len(nals) /\ Len(nals) \in Nat
    OBVIOUS
  <2>2. part = [i \in 1 .. Len(nals) |-> part[i]]
    BY <2>1
  <2>. HIDE DEF part
  <2>3. part \in [1 .. Len(nals) -> Seq(0 .. 255)]
    BY <1>1, <2>2
  <2>4. part \in Seq(Seq(0 .. 255))
    BY <2>1, <2>3, IsSeq, Zenon
  <2>5. DOMAIN part = 1 .. Len(nals) /\ DOMAIN part = 1 .. Len(part) /\ Len(part) \in Nat
    BY <2>3, <2>4, LenProperties
  <2>. QED  BY <2>1, <2>4, <2>5
<1>3. b = FlattenSeq(part)
  BY DEF AnnexB
<1>. HIDE DEF part, code, b
<1>4. FlattenSeq(part) \in Seq(0 .. 255) /\ \E e : Consists(FlattenSeq(part), part, e)
  BY <1>2, PartsInOrder
<1>10. PICK e : Consists(b, part, e)
  BY <1>3, <1>4
<1>5. /\ e \in [0 .. Len(nals) -> Nat] /\ e[0] = 0
      /\ b \in Seq(0 .. 255) /\ Len(b) = e[Len(nals)]
      /\ Len(nals) \in Nat
  BY <1>2, <1>3, <1>4, <1>10 DEF Consists
<1> DEFINE s == [i \in 1 .. Len(nals) |-> e[i - 1] + CodeSize(i)]
<1>6. ASSUME NEW i \in 1 .. Len(nals)
      PROVE  /\ s[i] \in Nat
             /\ e[i - 1] + 3 <= s[i] /\ s[i] <= e[i - 1] + 4 /\ (i # 1 => s[i] = e[i - 1] + 3)
             /\ \A q \in e[i - 1] .. s[i] - 2 : At(b, q) = 0
             /\ At(b, s[i] - 1) = 1
             /\ \A j \in 0 .. Len(nals[i]) - 1 : At(b, s[i] + j) = nals[i][j + 1]
             /\ e[i] = s[i] + Len(nals[i])
  <2> DEFINE from == e[i - 1]
             at   == s[i]
             size == CodeSize(i)
             len  == Len(nals[i])
  <2>1. from \in Nat
    <3>1. i - 1 \in 0 .. Len(nals)
      BY <1>5
    <3>. QED  BY <1>5, <3>1
  <2>2. size \in Nat /\ size >= 3 /\ size <= 4 /\ (i # 1 => size = 3)
    BY DEF CodeSize
  <2>3. /\ \A j \in 1 .. size - 1 : part[i][j] = 0
        /\ part[i][size] = 1
        /\ \A j \in 1 .. len : part[i][size + j] = nals[i][j]
        /\ Len(part[i]) = size + len /\ len \in Nat
    BY <1>1
  <2>4. i \in 1 .. Len(part)
    BY <1>2
  <2>5. /\ e[i] = from + Len(part[i])
        /\ \A j \in 1 .. Len(part[i]) : b[from + j] = part[i][j]
    BY <1>10, <2>4 DEF Consists
  <2>6. at = from + size
    OBVIOUS
  <2>. HIDE DEF from, size, len, s, at
  <2>7. ASSUME NEW q \in from .. at - 2 PROVE At(b, q) = 0
    <3>1. PICK j \in Nat : j = q + 1 - from
      BY <2>1, <2>2, <2>6
    <3>2. j \in 1 .. size - 1 /\ j \in 1 .. size + len /\ from + j = q + 1
      BY <2>1, <2>2, <2>3, <2>6, <3>1
    <3>. QED  BY <2>3, <2>5, <3>2 DEF At
  <2>8. At(b, at - 1) = 1
    <3>1. size \in 1 .. size + len /\ from + size = at - 1 + 1
      BY <2>1, <2>2, <2>3, <2>6
    <3>. QED  BY <2>3, <2>5, <3>1 DEF At
  <2>9. ASSUME NEW j \in 0 .. len - 1 PROVE At(b, at + j) = nals[i][j + 1]
    <3>1. j + 1 \in 1 .. len /\ size + (j + 1) \in 1 .. size + len
          /\ from + (size + (j + 1)) = at + j + 1
      BY <2>1, <2>2, <2>3, <2>6
    <3>2. part[i][size + (j + 1)] = nals[i][j + 1]
      BY <2>3, <3>1
    <3>3. b[from + (size + (j + 1))] = part[i][size + (j + 1)]
      BY <2>3, <2>5, <3>1
    <3>. QED  BY <3>1, <3>2, <3>3 DEF At
  <2>10. /\ at \in Nat /\ from + 3 <= at /\ at <= from + 4
         /\ (i # 1 => at = from + 3) /\ e[i] = at + len
    <3>1. e[i] = from + (size + len)
      BY <2>3, <2>5
    <3>. QED  BY <2>1, <2>2, <2>3, <2>6, <3>1
  <2>. QED  BY <2>7, <2>8, <2>9, <2>10 DEF from, len, at
<1>7. s \in [1 .. Len(nals) -> Nat]
  <2>1. s = [i \in 1 .. Len(nals) |-> s[i]]
    OBVIOUS
  <2>. HIDE DEF s
  <2>. QED  BY <1>6, <2>1
<1>. HIDE DEF s
<1>8. ASSUME NEW i \in 1 .. Len(nals) PROVE IsPlain(nals[i])
  OBVIOUS
<1>9. Laid(b, nals, s, e)
  BY <1>5, <1>6, <1>7, <1>8 DEF Laid
<1>. QED  BY <1>9 DEF b

\* No unit ends beyond the data, and behind a unit that is not the last there are a start
\* code and a byte.
LEMMA LaidWithin ==
    ASSUME NEW b, NEW nals, NEW s, NEW e, Laid(b, nals, s, e), NEW i \in 1 .. Len(nals)
    PROVE  /\ Len(nals) \in Nat /\ Len(b) \in Nat
           /\ s[i] \in Nat /\ e[i - 1] \in Nat /\ e[i] \in Nat
           /\ nals[i] \in Seq(0 .. 255) /\ IsPlain(nals[i]) /\ Len(nals[i]) \in Nat
           /\ e[i - 1] + 3 <= s[i] /\ s[i] < e[i] /\ e[i] = s[i] + Len(nals[i])
           /\ e[i] <= Len(b)
           /\ i # Len(nals) => e[i] + 4 <= Len(b) /\ StartsAt(b, e[i])
           /\ i = Len(nals) => e[i] = Len(b)
<1>1. /\ Len(nals) \in Nat /\ Len(b) \in Nat /\ Len(b) = e[Len(nals)]
      /\ \A k \in 0 .. Len(nals) : e[k] \in Nat
      /\ \A k \in 1 .. Len(nals) : s[k] \in Nat
  <2>1. /\ b \in Seq(0 .. 255) /\ nals \in Seq(Seq(0 .. 255)) /\ Len(b) = e[Len(nals)]
        /\ s \in [1 .. Len(nals) -> Nat] /\ e \in [0 .. Len(nals) -> Nat]
    BY Zenon DEF Laid
  <2>2. Len(nals) \in Nat /\ Len(b) \in Nat
    BY <2>1
  <2>3. /\ \A k \in 0 .. Len(nals) : e[k] \in Nat
        /\ \A k \in 1 .. Len(nals) : s[k] \in Nat
    BY <2>1
  <2>. QED  BY <2>1, <2>2, <2>3, Zenon
<1>2. ASSUME NEW k \in 1 .. Len(nals)
      PROVE  /\ k - 1 \in 0 .. Len(nals) /\ k \in 0 .. Len(nals)
             /\ nals[k] \in Seq(0 .. 255) /\ IsPlain(nals[k])
             /\ Len(nals[k]) \in Nat /\ Len(nals[k]) # 0
             /\ e[k - 1] + 3 <= s[k] /\ e[k] = s[k] + Len(nals[k])
  <2>1. nals[k] \in Seq(0 .. 255)
    BY DEF Laid
  <2>2. /\ IsPlain(nals[k]) /\ e[k - 1] + 3 <= s[k] /\ e[k] = s[k] + Len(nals[k])
    BY Zenon DEF Laid
  <2>3. nals[k] # <<>>
    BY <2>2 DEF IsPlain
  <2>. QED  BY <1>1, <2>1, <2>2, <2>3
<1>3. ASSUME NEW k \in 1 .. Len(nals) PROVE e[k - 1] + 4 <= e[k]
  <2>1. e[k - 1] \in Nat /\ e[k] \in Nat /\ s[k] \in Nat /\ Len(nals[k]) \in Nat
    BY <1>1, <1>2
  <2>2. Len(nals[k]) # 0 /\ e[k - 1] + 3 <= s[k] /\ e[k] = s[k] + Len(nals[k])
    BY <1>2
  <2>. QED  BY <2>1, <2>2, SMTT(40)
<1> DEFINE N == {n \in Nat : i + n <= Len(nals) => e[i] + 4 * n <= e[i + n]}
<1>4. 0 \in N
  BY <1>1, <1>2
<1>5. ASSUME NEW n \in Nat, n \in N PROVE n + 1 \in N
  <2>. SUFFICES ASSUME i + (n + 1) <= Len(nals) PROVE e[i] + 4 * (n + 1) <= e[i + (n + 1)]
    BY DEF N
  <2>1. e[i] + 4 * n <= e[i + n]
    BY <1>1, <1>5
  <2>2. /\ i + (n + 1) \in 1 .. Len(nals) /\ i + (n + 1) - 1 = i + n
        /\ i + (n + 1) \in 0 .. Len(nals) /\ i + n \in 0 .. Len(nals) /\ i \in 0 .. Len(nals)
    BY <1>1
  <2>3. e[i + n] + 4 <= e[i + (n + 1)]
    BY <1>3, <2>2
  <2>4. e[i] \in Nat /\ e[i + n] \in Nat /\ e[i + (n + 1)] \in Nat
    BY <1>1, <2>2
  <2>. QED  BY <2>1, <2>3, <2>4
<1>. HIDE DEF N
<1>6. PICK left \in Nat : left = Len(nals) - i
  <2>1. Len(nals) - i \in Nat
    BY <1>1
  <2>. QED  BY <2>1, Zenon
<1>7. left \in N /\ i + left = Len(nals)
  <2>1. Nat \subseteq N
    BY <1>4, <1>5, NatSetInduction
  <2>. QED  BY <1>1, <1>6, <2>1
<1>8. e[i] + 4 * left <= Len(b)
  <2>1. i + left <= Len(nals)
    BY <1>1, <1>7
  <2>2. e[i] + 4 * left <= e[i + left]
    BY <1>7, <2>1 DEF N
  <2>. QED  BY <1>1, <1>7, <2>2
<1>9. ASSUME i # Len(nals) PROVE StartsAt(b, e[i])
  <2>1. i + 1 \in 1 .. Len(nals) /\ i + 1 # 1 /\ i + 1 - 1 = i
    BY <1>1, <1>9
  <2>2. /\ s[i + 1] = e[i + 1 - 1] + 3 /\ At(b, s[i + 1] - 1) = 1
        /\ \A q \in e[i + 1 - 1] .. s[i + 1] - 2 : At(b, q) = 0
    <3>1. \A k \in 1 .. Len(nals) :
             /\ k # 1 => s[k] = e[k - 1] + 3
             /\ At(b, s[k] - 1) = 1
             /\ \A q \in e[k - 1] .. s[k] - 2 : At(b, q) = 0
      BY Zenon DEF Laid
    <3>. QED  BY <2>1, <3>1
  <2>3. e[i] \in Nat
    BY <1>1, <1>2
  <2>4. s[i + 1] = e[i] + 3 /\ \A q \in e[i] .. s[i + 1] - 2 : At(b, q) = 0
    BY <2>1, <2>2
  <2>5. s[i + 1] - 1 = e[i] + 2 /\ s[i + 1] - 2 = e[i] + 1
    BY <2>3, <2>4
  <2>6. e[i] \in e[i] .. e[i] + 1 /\ e[i] + 1 \in e[i] .. e[i] + 1
    BY <2>3
  <2>. QED  BY <2>2, <2>4, <2>5, <2>6 DEF StartsAt
<1>10. e[i] \in Nat /\ e[i - 1] \in Nat /\ s[i] \in Nat
  BY <1>1, <1>2
<1>11. e[i] <= Len(b) /\ (i # Len(nals) => e[i] + 4 <= Len(b)) /\ s[i] < e[i]
  <2>1. i # Len(nals) => left # 0
    BY <1>1, <1>6
  <2>2. e[i] <= Len(b) /\ (i # Len(nals) => e[i] + 4 <= Len(b))
    BY <1>1, <1>8, <1>10, <2>1
  <2>3. Len(nals[i]) \in Nat /\ Len(nals[i]) # 0 /\ e[i] = s[i] + Len(nals[i])
    BY <1>2
  <2>. QED  BY <1>10, <2>2, <2>3
<1>. QED  BY <1>1, <1>2, <1>9, <1>10, <1>11, Zenon

\* The loop over the zeros of a start code gets behind the 1.
LEMMA CodeIsPassed ==
    ASSUME NEW b, NEW from \in Nat, NEW one \in Nat, from <= one, one < Len(b), Len(b) \in Nat,
           \A q \in from .. one - 1 : At(b, q) = 0, At(b, one) = 1
    PROVE  PastCode(b, from) = one + 1
<1> DEFINE used == {q \in from .. Len(b) - 1 : At(b, q) # 0}
<1>1. one \in used
  OBVIOUS
<1>2. ASSUME NEW q \in used PROVE one <= q
  OBVIOUS
<1>3. used \in SUBSET Nat /\ used # {}
  BY <1>1
<1>4. PastCode(b, from) = Least(used) + 1
  BY <1>3 DEF PastCode
<1>. HIDE DEF used
<1>5. Least(used) \in used /\ Least(used) <= one
  BY <1>1, <1>3, LeastIs
<1>6. Least(used) \in Nat /\ one <= Least(used)
  BY <1>2, <1>3, <1>5
<1>. QED  BY <1>4, <1>5, <1>6

\* From the first byte of a unit the search gets to its end.
LEMMA UnitIsPassed ==
    ASSUME NEW b \in Seq(0 .. 255), NEW align \in 0 .. 3, NEW nal \in Seq(0 .. 255), IsPlain(nal),
           NEW start \in Nat, NEW stop \in Nat, stop = start + Len(nal), stop <= Len(b),
           \A j \in 0 .. Len(nal) - 1 : At(b, start + j) = nal[j + 1],
           stop = Len(b) \/ (stop + 4 <= Len(b) /\ StartsAt(b, stop))
    PROVE  FindStartCode(b, align, start, Len(b)) = stop
<1> DEFINE end   == Len(b)
           codes == {q \in start .. end - 4 : StartsAt(b, q)}
           out   == FindStartCode(b, align, start, end)
<1>1. /\ end \in Nat /\ Len(nal) \in Nat /\ Len(nal) # 0
      /\ start \in 0 .. end /\ end \in 0 .. Len(b) /\ start < stop
  <2>1. nal # <<>>
    BY DEF IsPlain
  <2>2. Len(nal) \in Nat /\ Len(nal) # 0
    BY <2>1
  <2>. QED  BY <2>2
<1>2. IF codes = {} THEN out = end
      ELSE \E q \in codes :
              /\ \A r \in codes : q <= r
              /\ out = IF start < q /\ At(b, q - 1) = 0 THEN q - 1 ELSE q
  BY <1>1, StartCodeIsFirst, ZenonT(40)
<1>3. At(b, stop - 1) # 0
  <2>1. PICK j \in Nat : j = Len(nal) - 1
    <3>1. Len(nal) - 1 \in Nat
      BY <1>1
    <3>. QED  BY <3>1, Zenon
  <2>2. j \in 0 .. Len(nal) - 1 /\ start + j = stop - 1 /\ j + 1 = Len(nal)
    BY <1>1, <2>1
  <2>3. At(b, start + j) = nal[j + 1] /\ nal[Len(nal)] # 0
    BY <2>2 DEF IsPlain, Last
  <2>. QED  BY <2>2, <2>3
<1>4. ASSUME NEW q \in start .. stop - 1, StartsAt(b, q) PROVE FALSE
  <2>1. At(b, q) = 0 /\ At(b, q + 1) = 0 /\ At(b, q + 2) = 1
    BY <1>4 DEF StartsAt
  <2>2. CASE q = stop - 1
    BY <1>3, <2>1, <2>2
  <2>3. CASE q = stop - 2
    <3>1. q + 1 = stop - 1
      BY <2>3
    <3>. QED  BY <1>3, <2>1, <3>1
  <2>4. CASE q + 2 < stop
    <3>1. PICK j \in Nat : j = q - start
      OBVIOUS
    <3>2. /\ j \in 0 .. Len(nal) - 3
          /\ j \in 0 .. Len(nal) - 1 /\ j + 1 \in 0 .. Len(nal) - 1 /\ j + 2 \in 0 .. Len(nal) - 1
          /\ start + j = q /\ start + (j + 1) = q + 1 /\ start + (j + 2) = q + 2
      BY <1>1, <2>4, <3>1
    <3>3. At(nal, j) = At(b, q) /\ At(nal, j + 1) = At(b, q + 1) /\ At(nal, j + 2) = At(b, q + 2)
      BY <3>2 DEF At
    <3>4. StartsAt(nal, j)
      BY <2>1, <3>3 DEF StartsAt
    <3>. QED  BY <3>2, <3>4 DEF IsPlain
  <2>. QED  BY <1>1, <2>2, <2>3, <2>4
<1>5. \A q \in codes : stop <= q
  BY <1>1, <1>4
<1>6. CASE stop = end
  <2>1. codes = {}
    BY <1>1, <1>5, <1>6
  <2>. QED  BY <1>2, <1>6, <2>1
<1>7. CASE stop # end
  <2>1. stop \in codes
    BY <1>1, <1>7
  <2>. HIDE DEF codes, out, end
  <2>2. PICK q \in codes : /\ \A r \in codes : q <= r
                           /\ out = IF start < q /\ At(b, q - 1) = 0 THEN q - 1 ELSE q
    BY <1>2, <2>1
  <2>3. q = stop
    <3>1. q <= stop /\ stop <= q
      BY <1>5, <2>1, <2>2
    <3>2. q \in Int
      BY <1>1 DEF codes
    <3>. QED  BY <3>1, <3>2
  <2>4. out = stop
    BY <1>3, <2>2, <2>3
  <2>. QED  BY <2>4 DEF out, end
<1>. QED  BY <1>6, <1>7

IsDescent(f, end, start, next, piece) ==
    f = [p \in 0 .. end |-> IF start[p] = end THEN <<>> ELSE piece[p] \o f[next[p]]]

\* A recursive function on positions is defined when it calls itself only further on.
LEMMA DescentExists ==
    ASSUME NEW end \in Nat, NEW start, NEW next, NEW piece,
           \A p \in 0 .. end : start[p] # end => next[p] \in p + 1 .. end
    PROVE  \E f : IsDescent(f, end, start, next, piece)
<1> DEFINE Value(f, p) == IF start[p] = end THEN <<>> ELSE piece[p] \o f[next[p]]
           IsFrom(f, low) == \A p \in low .. end : f[p] = Value(f, p)
           N == {n \in Nat : n <= end => \E f : IsFrom(f, end - n)}
<1>1. 0 \in N
  <2> DEFINE f == [p \in 0 .. end |-> <<>>]
  <2>1. IsFrom(f, end)
    <3>. SUFFICES ASSUME NEW p \in end .. end PROVE f[p] = Value(f, p)
      OBVIOUS
    <3>1. p = end /\ p \in 0 .. end /\ p + 1 .. end = {}
      OBVIOUS
    <3>2. start[p] = end
      BY <3>1
    <3>. QED  BY <3>1, <3>2
  <2>2. end - 0 = end
    OBVIOUS
  <2>. QED  BY <2>1, <2>2
<1>2. ASSUME NEW n \in Nat, n \in N PROVE n + 1 \in N
  <2>. SUFFICES ASSUME n + 1 <= end PROVE \E f : IsFrom(f, end - (n + 1))
    OBVIOUS
  <2>1. PICK f : IsFrom(f, end - n)
    BY <1>2
  <2>2. PICK low \in Nat : low = end - (n + 1)
    <3>1. end - (n + 1) \in Nat
      OBVIOUS
    <3>. QED  BY <3>1, Zenon
  <2>3. low \in 0 .. end /\ low + 1 = end - n /\ low < end
    BY <2>2
  <2> DEFINE g == [p \in 0 .. end |-> IF p = low THEN Value(f, low) ELSE f[p]]
  <2>4. ASSUME NEW p \in low + 1 .. end PROVE g[p] = f[p]
    BY <2>3
  <2>5. g[low] = Value(f, low)
    BY <2>3
  <2>. HIDE DEF g
  <2>6. ASSUME NEW p \in low .. end PROVE Value(g, p) = Value(f, p)
    <3>1. CASE start[p] = end
      BY <3>1
    <3>2. CASE start[p] # end
      <4>1. p \in 0 .. end
        BY <2>3
      <4>2. next[p] \in p + 1 .. end
        BY <3>2, <4>1
      <4>3. next[p] \in low + 1 .. end
        BY <2>3, <4>2
      <4>4. g[next[p]] = f[next[p]]
        BY <2>4, <4>3
      <4>. QED  BY <4>4
    <3>. QED  BY <3>1, <3>2
  <2>7. ASSUME NEW p \in low .. end PROVE g[p] = Value(g, p)
    <3>1. CASE p = low
      BY <2>5, <2>6, <3>1
    <3>2. CASE p # low
      <4>1. p \in low + 1 .. end /\ p \in end - n .. end
        BY <2>3, <3>2
      <4>. QED  BY <2>1, <2>4, <2>6, <4>1
    <3>. QED  BY <3>1, <3>2
  <2>8. IsFrom(g, end - (n + 1))
    BY <2>2, <2>7
  <2>. QED  BY <2>8
<1>. HIDE DEF N
<1>3. end \in N
  BY <1>1, <1>2, NatSetInduction
<1>4. PICK f : IsFrom(f, 0)
  <2>1. end - end = 0 /\ end <= end
    OBVIOUS
  <2>. QED  BY <1>3, <2>1 DEF N
<1> DEFINE g == [p \in 0 .. end |-> f[p]]
<1>5. ASSUME NEW p \in 0 .. end PROVE g[p] = Value(g, p)
  <2>1. start[p] # end => next[p] \in 0 .. end
    OBVIOUS
  <2>2. f[p] = Value(f, p)
    BY <1>4
  <2>. QED  BY <2>1, <2>2
<1>6. g = [p \in 0 .. end |-> Value(g, p)]
  <2>1. g = [p \in 0 .. end |-> g[p]]
    OBVIOUS
  <2>. HIDE DEF g
  <2>. QED  BY <1>5, <2>1
<1>7. IsDescent(g, end, start, next, piece)
  BY <1>6 DEF IsDescent
<1>. QED  BY <1>7

\* What the loop of avc_parse_nal_units does from each position: it ends, or it takes a
\* unit and goes on behind it.
LEMMA UnitsFrom ==
    ASSUME NEW b \in Seq(0 .. 255), NEW align \in 0 .. 3
    PROVE  \E f : /\ NalUnits(b, align) = f[FindStartCode(b, align, 0, Len(b))]
                  /\ \A p \in 0 .. Len(b) :
                        LET start == PastCode(b, p)
                            next  == FindStartCode(b, align, start, Len(b))
                        IN f[p] = IF start = Len(b) THEN <<>>
                                  ELSE <<Slice(b, start, next)>> \o f[next]
<1> DEFINE end     == Len(b)
           start   == [p \in 0 .. end |-> PastCode(b, p)]
           next    == [p \in 0 .. end |-> FindStartCode(b, align, PastCode(b, p), end)]
           piece   == [p \in 0 .. end |-> <<Slice(b, PastCode(b, p),
                                                   FindStartCode(b, align, PastCode(b, p), end))>>]
           body(f) == [p \in 0 .. end |->
                         LET from == PastCode(b, p)
                             to   == FindStartCode(b, align, from, end)
                         IN IF from = end THEN <<>> ELSE <<Slice(b, from, to)>> \o f[to]]
           units   == CHOOSE f : f = body(f)
<1>1. end \in Nat
  OBVIOUS
<1>2. ASSUME NEW p \in 0 .. end
      PROVE  PastCode(b, p) \in 0 .. end /\ (PastCode(b, p) # end => p < PastCode(b, p))
  <2> DEFINE used == {q \in p .. Len(b) - 1 : At(b, q) # 0}
  <2>1. PastCode(b, p) = IF used = {} THEN Len(b) ELSE Least(used) + 1
    BY DEF PastCode
  <2>2. used \in SUBSET Nat /\ \A q \in used : p <= q /\ q + 1 <= end
    BY <1>1
  <2>. HIDE DEF used
  <2>3. CASE used = {}
    BY <1>1, <2>1, <2>3
  <2>4. CASE used # {}
    <3>1. Least(used) \in used
      BY <2>2, <2>4, LeastIs
    <3>2. Least(used) \in Nat /\ p <= Least(used) /\ Least(used) + 1 <= end
      BY <2>2, <3>1
    <3>. QED  BY <1>1, <2>1, <2>4, <3>2
  <2>. QED  BY <2>3, <2>4
<1>3. ASSUME NEW p \in 0 .. end
      PROVE  FindStartCode(b, align, p, end) \in p .. end
  <2> DEFINE codes == {q \in p .. end - 4 : StartsAt(b, q)}
             out   == FindStartCode(b, align, p, end)
  <2>1. end \in 0 .. Len(b)
    BY <1>1
  <2>2. IF codes = {} THEN out = end
        ELSE \E q \in codes :
                /\ \A r \in codes : q <= r
                /\ out = IF p < q /\ At(b, q - 1) = 0 THEN q - 1 ELSE q
    BY <2>1, StartCodeIsFirst
  <2>3. \A q \in codes : q \in Int /\ p <= q /\ q <= end
    BY <1>1
  <2>. HIDE DEF codes, out
  <2>4. CASE codes = {}
    BY <1>1, <2>2, <2>4 DEF out
  <2>5. CASE codes # {}
    <3>1. PICK q \in codes : out = IF p < q /\ At(b, q - 1) = 0 THEN q - 1 ELSE q
      BY <2>2, <2>5
    <3>2. q \in Int /\ p <= q /\ q <= end
      BY <2>3
    <3>3. out \in p .. end
      BY <1>1, <3>1, <3>2
    <3>. QED  BY <3>3 DEF out
  <2>. QED  BY <2>4, <2>5
<1>4. ASSUME NEW p \in 0 .. end
      PROVE  /\ start[p] = PastCode(b, p)
             /\ next[p] = FindStartCode(b, align, PastCode(b, p), end)
             /\ piece[p] = <<Slice(b, PastCode(b, p),
                                   FindStartCode(b, align, PastCode(b, p), end))>>
  OBVIOUS
<1>. HIDE DEF start, next, piece
<1>5. ASSUME NEW p \in 0 .. end, start[p] # end PROVE next[p] \in p + 1 .. end
  <2>1. PastCode(b, p) \in 0 .. end /\ p < PastCode(b, p)
    BY <1>2, <1>4, <1>5
  <2>2. next[p] \in PastCode(b, p) .. end
    BY <1>3, <1>4, <2>1
  <2>. QED  BY <1>1, <2>1, <2>2
<1>6. \E f : IsDescent(f, end, start, next, piece)
  <2>1. \A p \in 0 .. end : start[p] # end => next[p] \in p + 1 .. end
    BY <1>5
  <2>. HIDE DEF end
  <2>. QED  BY ONLY <1>1, <2>1, DescentExists
<1>7. ASSUME NEW f, IsDescent(f, end, start, next, piece) PROVE f = body(f)
  <2>1. f = [p \in 0 .. end |-> IF start[p] = end THEN <<>> ELSE piece[p] \o f[next[p]]]
    BY <1>7 DEF IsDescent
  <2>2. body(f) = [p \in 0 .. end |->
                     IF start[p] = end THEN <<>> ELSE piece[p] \o f[next[p]]]
    BY <1>4
  <2>. QED  BY <2>1, <2>2, Zenon
<1>8. units = body(units)
  <2>1. \E f : f = body(f)
    BY <1>6, <1>7
  <2>. QED  BY <2>1
<1>9. NalUnits(b, align) = units[FindStartCode(b, align, 0, end)]
  BY DEF NalUnits
<1>10. ASSUME NEW p \in 0 .. end
       PROVE  LET from == PastCode(b, p)
                  to   == FindStartCode(b, align, from, end)
              IN units[p] = IF from = end THEN <<>> ELSE <<Slice(b, from, to)>> \o units[to]
  <2>. HIDE DEF units
  <2>. QED  BY <1>8
<1>. HIDE DEF units
<1>. QED  BY <1>9, <1>10

\* In data without a byte the search ends at once.
LEMMA NothingIsFound ==
    ASSUME NEW b, NEW align, Len(b) = 0
    PROVE  FindStartCode(b, align, 0, Len(b)) = 0
<1>1. FindInternal(b, align, 0, Len(b)) = 0
  BY DEF FindInternal
<1>. QED  BY <1>1 DEF FindStartCode

\* A start code at the beginning is found, of three bytes or of four.
LEMMA CodeAtTheStart ==
    ASSUME NEW b \in Seq(0 .. 255), NEW align \in 0 .. 3, NEW at \in Nat,
           3 <= at, at <= 4, at < Len(b),
           \A q \in 0 .. at - 2 : At(b, q) = 0, At(b, at - 1) = 1
    PROVE  FindStartCode(b, align, 0, Len(b)) = 0
<1> DEFINE end   == Len(b)
           codes == {q \in 0 .. end - 4 : StartsAt(b, q)}
           out   == FindStartCode(b, align, 0, end)
<1>1. end \in Nat /\ 0 \in 0 .. end /\ end \in 0 .. Len(b)
  OBVIOUS
<1>2. IF codes = {} THEN out = end
      ELSE \E q \in codes :
              /\ \A r \in codes : q <= r
              /\ out = IF 0 < q /\ At(b, q - 1) = 0 THEN q - 1 ELSE q
  BY <1>1, StartCodeIsFirst
<1>. HIDE DEF out, end
<1>3. PICK z \in Nat : z = at - 3
  <2>1. at - 3 \in Nat
    OBVIOUS
  <2>. QED  BY <2>1, Zenon
<1>4. z \in codes
  <2>1. /\ z \in 0 .. end - 4 /\ z \in 0 .. at - 2 /\ z + 1 \in 0 .. at - 2
        /\ z + 2 = at - 1
    BY <1>1, <1>3 DEF end
  <2>2. StartsAt(b, z)
    BY <2>1 DEF StartsAt
  <2>. QED  BY <2>1, <2>2
<1>5. ASSUME NEW q \in codes PROVE z <= q
  <2>1. q \in Nat /\ At(b, q + 2) = 1
    BY <1>1 DEF StartsAt
  <2>. SUFFICES ASSUME q < z PROVE FALSE
    BY <2>1
  <2>2. q + 2 \in 0 .. at - 2
    BY <1>3, <2>1
  <2>. QED  BY <2>1, <2>2
<1>6. PICK q \in codes : /\ \A r \in codes : q <= r
                         /\ out = IF 0 < q /\ At(b, q - 1) = 0 THEN q - 1 ELSE q
  BY <1>2, <1>4
<1>7. q = z
  <2>1. q \in Nat /\ q <= z /\ z <= q
    BY <1>1, <1>4, <1>5, <1>6
  <2>. QED  BY <2>1
<1>8. z = 0 \/ (z = 1 /\ At(b, 0) = 0)
  <2>1. z = 0 \/ z = 1
    BY <1>3
  <2>2. 0 \in 0 .. at - 2
    OBVIOUS
  <2>. QED  BY <2>1, <2>2
<1>9. out = 0
  BY <1>6, <1>7, <1>8
<1>. QED  BY <1>9 DEF out, end

\* avc_parse_nal_units undoes what put the start codes between the units.
THEOREM UnitsOfAnnexB ==
    ASSUME NEW nals \in Seq(Seq(0 .. 255)), \A i \in DOMAIN nals : IsPlain(nals[i]),
           NEW align \in 0 .. 3
    PROVE  NalUnits(AnnexB(nals), align) = nals
<1> DEFINE b   == AnnexB(nals)
           n   == Len(nals)
           end == Len(b)
<1>1. PICK s, e : Laid(b, nals, s, e)
  BY UnitsAreLaid
<1>2. /\ b \in Seq(0 .. 255) /\ n \in Nat /\ end \in Nat /\ e[0] = 0 /\ end = e[n]
  <2>1. b \in Seq(0 .. 255) /\ e[0] = 0 /\ end = e[n]
    BY <1>1, Zenon DEF Laid
  <2>. HIDE DEF b
  <2>. QED  BY <2>1
<1>3. PICK f : /\ NalUnits(b, align) = f[FindStartCode(b, align, 0, end)]
               /\ \A p \in 0 .. end :
                     LET start == PastCode(b, p)
                         next  == FindStartCode(b, align, start, end)
                     IN f[p] = IF start = end THEN <<>>
                               ELSE <<Slice(b, start, next)>> \o f[next]
  <2>. HIDE DEF b
  <2>. QED  BY <1>2, UnitsFrom
<1>. HIDE DEF b
<1>4. ASSUME NEW i \in 1 .. n
      PROVE  f[e[i - 1]] = <<nals[i]>> \o f[e[i]]
  <2> DEFINE from == e[i - 1]
             at   == s[i]
             to   == e[i]
             nal  == nals[i]
  <2>1. /\ at \in Nat /\ from \in Nat /\ to \in Nat
        /\ nal \in Seq(0 .. 255) /\ IsPlain(nal) /\ Len(nal) \in Nat
        /\ from + 3 <= at /\ at < to /\ to = at + Len(nal) /\ to <= end
        /\ i # n => to + 4 <= end /\ StartsAt(b, to)
        /\ i = n => to = end
    <3>1. /\ s[i] \in Nat /\ e[i - 1] \in Nat /\ e[i] \in Nat
          /\ nals[i] \in Seq(0 .. 255) /\ IsPlain(nals[i]) /\ Len(nals[i]) \in Nat
          /\ e[i - 1] + 3 <= s[i] /\ s[i] < e[i] /\ e[i] = s[i] + Len(nals[i])
          /\ e[i] <= Len(b)
          /\ i # Len(nals) => e[i] + 4 <= Len(b) /\ StartsAt(b, e[i])
          /\ i = Len(nals) => e[i] = Len(b)
      BY <1>1, LaidWithin
    <3>. QED  BY <3>1, Zenon
  <2>2. /\ \A q \in from .. at - 2 : At(b, q) = 0
        /\ At(b, at - 1) = 1
        /\ \A j \in 0 .. Len(nal) - 1 : At(b, at + j) = nal[j + 1]
    BY <1>1, Zenon DEF Laid
  <2>. HIDE DEF from, at, to, nal, n, end
  <2>3. PastCode(b, from) = at
    <3>1. PICK one \in Nat : one = at - 1
      <4>1. at - 1 \in Nat
        BY <2>1
      <4>. QED  BY <4>1, Zenon
    <3>2. /\ from <= one /\ one < end /\ one + 1 = at /\ one - 1 = at - 2
      BY <1>2, <2>1, <3>1
    <3>3. (\A q \in from .. one - 1 : At(b, q) = 0) /\ At(b, one) = 1
      BY <2>2, <3>1, <3>2
    <3>4. PastCode(b, from) = one + 1
      BY <1>2, <2>1, <3>2, <3>3, CodeIsPassed DEF end
    <3>. QED  BY <3>2, <3>4
  <2>4. FindStartCode(b, align, at, end) = to
    <3>1. to = end \/ (to + 4 <= end /\ StartsAt(b, to))
      BY <2>1
    <3>. QED  BY <1>2, <2>1, <2>2, <3>1, UnitIsPassed, SMTT(40) DEF end
  <2>5. Slice(b, at, to) = nal
    <3>1. Slice(b, at, to) = SubSeq(b, at + 1, to)
      BY DEF Slice
    <3>2. /\ SubSeq(b, at + 1, to) \in Seq(0 .. 255) /\ Len(SubSeq(b, at + 1, to)) = Len(nal)
          /\ \A j \in 1 .. Len(nal) : SubSeq(b, at + 1, to)[j] = b[at + j]
      <4>1. /\ at + 1 \in Int /\ to \in Int /\ at + 1 <= to /\ to - (at + 1) + 1 = Len(nal)
            /\ \A j \in 1 .. Len(nal) : at + 1 + j - 1 = at + j
        BY <2>1
      <4>2. \A k \in at + 1 .. to : b[k] \in 0 .. 255
        <5>1. \A k \in 1 .. Len(b) : b[k] \in 0 .. 255
          <6>1. b \in [1 .. Len(b) -> 0 .. 255]
            BY <1>2, LenProperties
          <6>. QED  BY <6>1
        <5>2. \A k \in at + 1 .. to : k \in 1 .. Len(b)
          BY <1>2, <2>1 DEF end
        <5>. QED  BY <5>1, <5>2
      <4>3. LET u == SubSeq(b, at + 1, to)
            IN /\ u \in Seq(0 .. 255)
               /\ Len(u) = IF at + 1 <= to THEN to - (at + 1) + 1 ELSE 0
               /\ \A j \in 1 .. to - (at + 1) + 1 : u[j] = b[at + 1 + j - 1]
        BY <4>1, <4>2, SubSeqProperties
      <4>. QED  BY <4>1, <4>3
    <3>3. ASSUME NEW j \in 1 .. Len(nal) PROVE b[at + j] = nal[j]
      <4>1. PICK k \in Nat : k = j - 1
        OBVIOUS
      <4>2. k \in 0 .. Len(nal) - 1 /\ k + 1 = j /\ at + k + 1 = at + j
        BY <2>1, <4>1
      <4>. QED  BY <2>2, <4>2 DEF At
    <3>4. \A j \in 1 .. Len(nal) : SubSeq(b, at + 1, to)[j] = nal[j]
      BY <3>2, <3>3
    <3>5. SubSeq(b, at + 1, to) = nal
      BY ONLY <2>1, <3>2, <3>4, SeqEqual
    <3>. QED  BY <3>1, <3>5
  <2>6. from \in 0 .. end /\ at # end
    BY <1>2, <2>1
  <2>7. f[from] = <<nal>> \o f[to]
    BY <1>3, <2>3, <2>4, <2>5, <2>6
  <2>. QED  BY <2>7 DEF from, to, nal
<1>5. f[end] = <<>>
  <2>1. PastCode(b, end) = end
    <3>1. {q \in end .. end - 1 : At(b, q) # 0} = {}
      BY <1>2
    <3>. QED  BY <3>1 DEF PastCode
  <2>2. end \in 0 .. end
    BY <1>2
  <2>. HIDE DEF end
  <2>. QED  BY <1>3, <2>1, <2>2
<1> DEFINE N == {k \in Nat : k <= n => f[e[n - k]] = SubSeq(nals, n - k + 1, n)}
<1>6. 0 \in N
  <2>1. n - 0 = n /\ SubSeq(nals, n - 0 + 1, n) = <<>>
    BY <1>2
  <2>. HIDE DEF n, end
  <2>. QED  BY <1>2, <1>5, <2>1
<1>7. ASSUME NEW k \in Nat, k \in N PROVE k + 1 \in N
  <2>. SUFFICES ASSUME k + 1 <= n
                PROVE  f[e[n - (k + 1)]] = SubSeq(nals, n - (k + 1) + 1, n)
    <3>. HIDE DEF n
    <3>. QED  BY <1>2
  <2>1. PICK i \in Nat : i = n - k
    <3>1. n - k \in Nat
      BY <1>2
    <3>. QED  BY <3>1, Zenon
  <2>2. i \in 1 .. n /\ i - 1 = n - (k + 1) /\ n - (k + 1) + 1 = i /\ n - k + 1 = i + 1
    BY <1>2, <2>1
  <2>3. f[e[i]] = SubSeq(nals, i + 1, n)
    BY <1>2, <1>7, <2>1, <2>2
  <2>4. SubSeq(nals, i, n) = <<nals[i]>> \o SubSeq(nals, i + 1, n)
    BY <1>2, <2>2, SMTT(40)
  <2>. HIDE DEF n
  <2>. QED  BY <1>4, <2>2, <2>3, <2>4
<1>. HIDE DEF N
<1>8. f[e[0]] = SubSeq(nals, 1, n)
  <2>1. n \in N
    BY <1>2, <1>6, <1>7, NatSetInduction
  <2>2. n <= n /\ n - n = 0 /\ n - n + 1 = 1
    BY <1>2
  <2>. HIDE DEF n
  <2>. QED  BY <2>1, <2>2 DEF N
<1>9. FindStartCode(b, align, 0, end) = 0
  <2>1. CASE n = 0
    BY <1>2, <2>1, NothingIsFound
  <2>2. CASE n # 0
    <3>1. 1 \in 1 .. n /\ 1 - 1 = 0
      BY <1>2, <2>2
    <3>2. s[1] \in Nat /\ s[1] < e[1] /\ e[1] <= end /\ e[1] \in Nat
      BY <1>1, <3>1, LaidWithin
    <3>3. \A i \in 1 .. n : /\ e[i - 1] + 3 <= s[i] /\ s[i] <= e[i - 1] + 4
                            /\ \A q \in e[i - 1] .. s[i] - 2 : At(b, q) = 0
                            /\ At(b, s[i] - 1) = 1
      BY <1>1, Zenon DEF Laid
    <3>4. /\ e[0] + 3 <= s[1] /\ s[1] <= e[0] + 4
          /\ \A q \in e[0] .. s[1] - 2 : At(b, q) = 0
          /\ At(b, s[1] - 1) = 1
      BY <3>1, <3>3
    <3>. DEFINE at == s[1]
    <3>5. /\ at \in Nat /\ 3 <= at /\ at <= 4 /\ at < Len(b)
          /\ \A q \in 0 .. at - 2 : At(b, q) = 0
          /\ At(b, at - 1) = 1
      <4>1. /\ 0 + 3 <= at /\ at <= 0 + 4
            /\ \A q \in 0 .. at - 2 : At(b, q) = 0
            /\ At(b, at - 1) = 1
        BY ONLY <1>2, <3>4
      <4>2. at \in Nat /\ at < e[1] /\ e[1] <= Len(b) /\ e[1] \in Nat /\ Len(b) \in Nat
        BY <1>2, <3>2
      <4>. HIDE DEF at
      <4>3. 3 <= at /\ at <= 4
        BY ONLY <4>1, <4>2
      <4>4. at < Len(b)
        <5>. DEFINE to == e[1]
                    l  == Len(b)
        <5>1. at \in Nat /\ to \in Nat /\ l \in Nat /\ at < to /\ to <= l
          BY <4>2
        <5>. HIDE DEF to, l
        <5>2. at < l
          BY ONLY <5>1
        <5>. QED  BY <5>2 DEF l
      <4>. QED  BY <4>1, <4>2, <4>3, <4>4
    <3>. HIDE DEF at
    <3>6. b \in Seq(0 .. 255)
      BY <1>2
    <3>7. FindStartCode(b, align, 0, Len(b)) = 0
      BY ONLY <3>5, <3>6, CodeAtTheStart, align \in 0 .. 3
    <3>. QED  BY <3>7
  <2>. QED  BY <2>1, <2>2
<1>10. SubSeq(nals, 1, n) = nals
  BY <1>2
<1>. HIDE DEF n, end
<1>. QED  BY <1>2, <1>3, <1>8, <1>9, <1>10 DEF b

-----------------------------------------------------------------------------
(***************************************************************************)
(* The blocks of the bitstream converter.                                  *)
(***************************************************************************)

LEMMA FreedOwned ==
    ASSUME NEW some, Freed(some), misuse = FALSE, some \ {0} \subseteq heap
    PROVE  heap' = heap \ some /\ misuse' = FALSE
<1>1. (misuse \/ ~(some \ {0} \subseteq heap)) = FALSE
  OBVIOUS
<1>. QED  BY <1>1 DEF Freed

LEMMA AllocatedNew ==
    ASSUME NEW block, NEW some, Allocated(block, some), misuse = FALSE, some \ {0} \subseteq heap,
           blocks \in Nat, heap \subseteq 1 .. blocks
    PROVE  /\ block = blocks + 1 /\ blocks' = blocks + 1 /\ block \notin heap /\ block \in Nat \ {0}
           /\ heap' = (heap \ some) \cup {block} /\ heap' \subseteq 1 .. blocks'
           /\ misuse' = FALSE
<1>1. (misuse \/ ~(some \ {0} \subseteq heap)) = FALSE
  OBVIOUS
<1>2. block = blocks + 1 /\ blocks' = blocks + 1 /\ heap' = (heap \ some) \cup {block}
  BY DEF Allocated
<1>3. misuse' = FALSE
  BY <1>1 DEF Allocated
<1>4. blocks + 1 \notin heap /\ blocks + 1 \in Nat \ {0}
  OBVIOUS
<1>5. heap' \subseteq 1 .. blocks + 1
  <2>1. blocks + 1 \in 1 .. blocks + 1 /\ 1 .. blocks \subseteq 1 .. blocks + 1
    OBVIOUS
  <2>. QED  BY <1>2, <2>1
<1>. QED  BY <1>2, <1>3, <1>4, <1>5

\* The blocks that the object's pointers name while it is open are allocated, each by one
\* pointer, and no others are; the parameter sets are there only while it converts to start codes.
OpenOwns ==
    /\ heap = {spsPps, extraBlock, bufferBlock} \ {0}
    /\ spsPps # 0 => spsPps \notin {extraBlock, bufferBlock} /\ bitstream
    /\ extraBlock # 0 => extraBlock # bufferBlock

\* Of a closed one the pointer to the last buffer is left, which nothing frees
\* again.
ClosedOwns ==
    /\ spsPps = 0 /\ extraBlock = 0 /\ bitstream = FALSE
    /\ heap \subseteq {bufferBlock}
    /\ bytestream => bufferBlock = 0

MemoryInv ==
    /\ pc \in {"new", "open", "closed", "gone", "aborted"}
    /\ misuse = FALSE
    /\ blocks \in Nat /\ heap \subseteq 1 .. blocks
    /\ pc = "new" => /\ spsPps = 0 /\ extraBlock = 0 /\ bufferBlock = 0 /\ heap = {}
                     /\ bitstream = FALSE /\ bytestream = FALSE
    /\ pc = "open" => OpenOwns
    /\ pc = "closed" => ClosedOwns
    /\ pc = "gone" => heap \subseteq {bufferBlock}

LEMMA OpenKeeps == MemoryInv /\ (OpenFails \/ OpenAnnexB \/ OpenAvcc) => MemoryInv'
<1> SUFFICES ASSUME MemoryInv, OpenFails \/ OpenAnnexB \/ OpenAvcc PROVE MemoryInv'
  OBVIOUS
<1>1. /\ pc = "new" /\ spsPps = 0 /\ extraBlock = 0 /\ bufferBlock = 0 /\ heap = {}
      /\ bitstream = FALSE /\ bytestream = FALSE /\ misuse = FALSE /\ blocks \in Nat
  BY DEF MemoryInv, OpenFails, OpenAnnexB, OpenAvcc
<1>2. CASE OpenFails
  BY <1>1, <1>2 DEF OpenFails, memoryVars, MemoryInv, ClosedOwns
<1>3. CASE OpenAnnexB
  <2>. DEFINE sets == ParameterSets(stream.extra)
  <2>1. /\ bitstream' = sets.ok /\ pc' = "open" /\ extraBlock' = 0 /\ bufferBlock' = 0
    BY <1>1, <1>3 DEF OpenAnnexB
  <2>2. CASE sets.ok /\ sets.out # <<>>
    <3>1. Allocated(spsPps', {})
      BY <1>3, <2>2 DEF OpenAnnexB
    <3>2. /\ spsPps' = blocks + 1 /\ blocks' = blocks + 1 /\ heap' = {spsPps'}
          /\ spsPps' \in Nat \ {0} /\ heap' \subseteq 1 .. blocks' /\ misuse' = FALSE
      BY <1>1, <3>1, AllocatedNew
    <3>3. bitstream'
      BY <2>1, <2>2
    <3>. QED  BY <2>1, <3>2, <3>3 DEF MemoryInv, OpenOwns
  <2>3. CASE ~(sets.ok /\ sets.out # <<>>)
    <3>1. spsPps' = 0 /\ UNCHANGED <<heap, blocks, misuse>>
      BY <1>3, <2>3 DEF OpenAnnexB
    <3>. QED  BY <1>1, <2>1, <3>1 DEF MemoryInv, OpenOwns
  <2>. QED  BY <2>2, <2>3
<1>4. CASE OpenAvcc
  <2>. DEFINE x == stream.extra
  <2>1. bitstream' = FALSE
    BY <1>1, <1>4 DEF OpenAvcc
  <2>2. CASE x[1] # 1 /\ ~HasSets(x)
    <3>1. pc' = "aborted" /\ UNCHANGED memoryVars
      BY <1>4, <2>2 DEF OpenAvcc
    <3>. QED  BY <1>1, <3>1 DEF MemoryInv, memoryVars
  <2>3. CASE ~(x[1] # 1 /\ ~HasSets(x))
    <3>1. pc' = "open" /\ Allocated(extraBlock', {}) /\ spsPps' = 0 /\ bufferBlock' = 0
      BY <1>1, <1>4, <2>3 DEF OpenAvcc
    <3>2. /\ blocks' = blocks + 1 /\ heap' = {extraBlock'}
          /\ extraBlock' \in Nat \ {0} /\ heap' \subseteq 1 .. blocks' /\ misuse' = FALSE
      BY <1>1, <3>1, AllocatedNew
    <3>. QED  BY <2>1, <3>1, <3>2 DEF MemoryInv, OpenOwns
  <2>. QED  BY <2>2, <2>3
<1>. QED  BY <1>2, <1>3, <1>4

\* Both Close of the client and that of the destructor.
LEMMA CloseKeeps == MemoryInv /\ Close => MemoryInv'
<1> SUFFICES ASSUME MemoryInv, Close PROVE MemoryInv'
  OBVIOUS
<1>. DEFINE some == {} \cup (IF bitstream THEN {spsPps} ELSE {})
                       \cup (IF bitstream \/ bytestream THEN {bufferBlock} ELSE {})
                       \cup {extraBlock}
<1>1. /\ Freed(some) /\ spsPps' = (IF bitstream THEN 0 ELSE spsPps)
      /\ extraBlock' = 0 /\ bitstream' = FALSE
      /\ bufferBlock' = (IF bytestream THEN 0 ELSE bufferBlock)
      /\ UNCHANGED <<bytestream, blocks>>
      /\ pc \in {"open", "closed"} /\ pc' = (IF pc = "open" THEN "closed" ELSE "gone")
  BY DEF Close, Closed
<1>2. misuse = FALSE /\ blocks \in Nat /\ heap \subseteq 1 .. blocks
  BY DEF MemoryInv
<1>3. CASE pc = "open"
  <2>1. OpenOwns
    BY <1>3 DEF MemoryInv
  <2>2. some \ {0} \subseteq heap
    BY <2>1 DEF OpenOwns
  <2>. HIDE DEF some
  <2>3. heap' = heap \ some /\ misuse' = FALSE
    BY <1>1, <1>2, <2>2, FreedOwned
  <2>4. spsPps' = 0
    BY <1>1, <2>1 DEF OpenOwns
  <2>5. heap' \subseteq {bufferBlock'}
    <3>1. extraBlock \in some /\ (spsPps # 0 => spsPps \in some)
          /\ (bytestream => bufferBlock \in some)
      BY <2>1 DEF OpenOwns, some
    <3>. QED  BY <1>1, <2>1, <2>3, <3>1 DEF OpenOwns
  <2>. QED  BY <1>1, <1>2, <1>3, <2>3, <2>4, <2>5 DEF MemoryInv, ClosedOwns
<1>4. CASE pc = "closed"
  <2>1. ClosedOwns
    BY <1>4 DEF MemoryInv
  <2>2. some \ {0} = {}
    BY <2>1 DEF ClosedOwns
  <2>. HIDE DEF some
  <2>3. heap' = heap \ some /\ misuse' = FALSE
    BY <1>1, <1>2, <2>2, FreedOwned
  <2>4. heap' \subseteq {bufferBlock'}
    BY <1>1, <1>2, <2>1, <2>3 DEF ClosedOwns
  <2>. QED  BY <1>1, <1>2, <1>4, <2>3, <2>4 DEF MemoryInv
<1>. QED  BY <1>1, <1>3, <1>4

\* Whichever way Convert goes, it gives the old buffer back before it makes another.
LEMMA ConvertKeeps == MemoryInv /\ (Convert \/ ConvertNothing) => MemoryInv'
<1> SUFFICES ASSUME MemoryInv, Convert \/ ConvertNothing PROVE MemoryInv'
  OBVIOUS
<1>1. /\ pc = "open" /\ pc' = "open" /\ OpenOwns
      /\ misuse = FALSE /\ blocks \in Nat /\ heap \subseteq 1 .. blocks
  BY DEF MemoryInv, Convert, ConvertNothing
<1>2. {bufferBlock} \ {0} \subseteq heap
  BY <1>1 DEF OpenOwns
<1>3. ASSUME Allocated(bufferBlock', {bufferBlock}), UNCHANGED <<bitstream, spsPps, extraBlock>>
      PROVE  MemoryInv'
  <2>1. /\ blocks' = blocks + 1 /\ bufferBlock' \notin heap /\ bufferBlock' \in Nat \ {0}
        /\ heap' = (heap \ {bufferBlock}) \cup {bufferBlock'} /\ heap' \subseteq 1 .. blocks'
        /\ misuse' = FALSE
    BY <1>1, <1>2, <1>3, AllocatedNew
  <2>2. OpenOwns'
    BY <1>1, <1>3, <2>1 DEF OpenOwns
  <2>. QED  BY <1>1, <2>1, <2>2 DEF MemoryInv
<1>4. ASSUME Freed({bufferBlock}), bufferBlock' = NoBuffer,
             UNCHANGED <<bitstream, spsPps, extraBlock, blocks>>
      PROVE  MemoryInv'
  <2>1. heap' = heap \ {bufferBlock} /\ misuse' = FALSE
    BY <1>1, <1>2, <1>4, FreedOwned
  <2>2. OpenOwns'
    BY <1>1, <1>4, <2>1 DEF OpenOwns, NoBuffer
  <2>. QED  BY <1>1, <1>4, <2>1, <2>2 DEF MemoryInv
<1>5. CASE ConvertNothing
  BY <1>4, <1>5 DEF ConvertNothing, modeVars
<1>6. CASE Convert
  <2>1. PICK p \in stream.packets :
           ConvertBitstream(p) \/ ConvertGivesUp(p) \/ ConvertToLengths(p) \/ PassThrough(p)
    BY <1>6 DEF Convert
  <2>2. CASE ConvertBitstream(p) \/ ConvertToLengths(p)
    BY <1>3, <2>2 DEF ConvertBitstream, ConvertToLengths
  <2>3. CASE PassThrough(p)
    BY <1>4, <2>3 DEF PassThrough
  <2>4. CASE ConvertGivesUp(p)
    <3>. DEFINE some == {bufferBlock} \cup (IF bitstream THEN {spsPps} ELSE {})
                           \cup (IF bitstream \/ bytestream THEN {NoBuffer} ELSE {})
                           \cup {extraBlock}
    <3>1. /\ bitstream /\ Freed(some) /\ bufferBlock' = 0 /\ extraBlock' = 0 /\ spsPps' = 0
          /\ UNCHANGED blocks
      BY <2>4 DEF ConvertGivesUp, Closed, NoBuffer
    <3>2. some \ {0} = heap
      BY <1>1, <3>1 DEF OpenOwns, NoBuffer
    <3>. HIDE DEF some
    <3>3. heap' = heap \ some /\ misuse' = FALSE
      BY <1>1, <3>1, <3>2, FreedOwned
    <3>4. heap' = {}
      BY <1>1, <3>2, <3>3
    <3>. QED  BY <1>1, <3>1, <3>3, <3>4 DEF MemoryInv, OpenOwns
  <2>. QED  BY <2>1, <2>2, <2>3, <2>4
<1>. QED  BY <1>5, <1>6

\* However the conversion ends and whatever the packets hold, Close and the destructor
\* free every block once, but for the last buffer of a converter from lengths of three bytes.
THEOREM BlocksAreFreed == Spec => []FreedOnce
<1>1. Init => MemoryInv
  BY DEF Init, MemoryInv
<1>2. MemoryInv /\ [Next]_vars => MemoryInv'
  <2> SUFFICES ASSUME MemoryInv, [Next]_vars PROVE MemoryInv'
    OBVIOUS
  <2>1. CASE UNCHANGED vars
    BY <2>1 DEF vars, modeVars, memoryVars, MemoryInv, OpenOwns, ClosedOwns
  <2>. QED  BY <2>1, OpenKeeps, CloseKeeps, ConvertKeeps DEF Next
<1>3. MemoryInv => FreedOnce
  BY DEF MemoryInv, FreedOnce
<1>. QED  BY <1>1, <1>2, <1>3, PTL DEF Spec

-----------------------------------------------------------------------------
(***************************************************************************)
(* The units that the client gets from start codes.                        *)
(***************************************************************************)

LEMMA Appended ==
    ASSUME NEW T, NEW q \in Seq(T), NEW x
    PROVE  /\ \E U : Append(q, x) \in Seq(U)
           /\ DOMAIN q = 1 .. Len(q) /\ Len(q) \in Nat
           /\ Len(Append(q, x)) = Len(q) + 1
           /\ DOMAIN Append(q, x) = 1 .. Len(q) + 1
           /\ \A k \in 1 .. Len(q) : Append(q, x)[k] = q[k]
           /\ Append(q, x)[Len(q) + 1] = x
<1> DEFINE U == T \cup {x}
<1>1. q \in Seq(U) /\ x \in U
  OBVIOUS
<1>. HIDE DEF U
<1>2. Append(q, x) \in Seq(U)
  BY <1>1
<1>3. \E S : Append(q, x) \in Seq(S)
  BY <1>2
<1>. QED  BY <1>1, <1>2, <1>3

\* What a packet of plain units was before its start codes.
IsFound(p, out) ==
    p.cut = 0 /\ (\A i \in DOMAIN p.nals : IsPlain(p.nals[i])) => out = LengthPrefixed(p.nals, 4)

\* A converter from start codes was opened with extradata that has start codes, so that the
\* packets have them too, and converts to nothing else.
FoundInv ==
    /\ stream \in Streams
    /\ fed \in Seq(stream.packets) /\ (\E T : got \in Seq(T)) /\ Len(got) = Len(fed)
    /\ blocks \in Nat
    /\ pc = "new" => fed = <<>> /\ got = <<>> /\ bitstream = FALSE /\ bytestream = FALSE
    /\ bytestream => bitstream = FALSE /\ stream.extra[1] # 1
    /\ bytestream => \A k \in DOMAIN got : IsFound(fed[k], got[k])

LEMMA PacketOfPlainUnits ==
    ASSUME stream \in Streams, stream.extra[1] # 1, NEW p \in stream.packets
    PROVE  IsFound(p, LengthPrefixed(NalUnits(Packet(p), p.align), 4))
<1> SUFFICES ASSUME p.cut = 0, \A i \in DOMAIN p.nals : IsPlain(p.nals[i])
             PROVE  NalUnits(Packet(p), p.align) = p.nals
  BY DEF IsFound
<1> DEFINE nals == p.nals
           b    == AnnexB(nals)
<1>1. nals \in Seq(Seq(0 .. 255)) /\ p.align \in 0 .. 3
  <2>1. p.nals \in Seq(Seq(0 .. 255) \ {<<>>}) /\ p.align \in 0 .. 3
    BY BitstreamAssumption DEF IsPacket
  <2>. QED  BY <2>1
<1>2. b \in Seq(0 .. 255)
  <2>1. \A i \in DOMAIN nals : IsPlain(nals[i])
    OBVIOUS
  <2>. HIDE DEF nals
  <2>2. PICK s, e : Laid(AnnexB(nals), nals, s, e)
    BY <1>1, <2>1, UnitsAreLaid
  <2>. QED  BY <2>2, Zenon DEF Laid
<1>3. Packet(p) = SubSeq(b, 1, Len(b) - 0)
  BY Zenon DEF Packet
<1>4. NalUnits(b, p.align) = nals
  <2>. HIDE DEF nals
  <2>1. \A i \in DOMAIN nals : IsPlain(nals[i])
    BY DEF nals
  <2>. QED  BY <1>1, <2>1, UnitsOfAnnexB
<1>. HIDE DEF b
<1>5. Packet(p) = b
  BY <1>2, <1>3
<1>. QED  BY <1>4, <1>5 DEF b

LEMMA GivenIsFound ==
    ASSUME FoundInv, bytestream, NEW p \in stream.packets,
           ConvertBitstream(p) \/ ConvertGivesUp(p) \/ ConvertToLengths(p) \/ PassThrough(p),
           UNCHANGED bytestream
    PROVE  IsFound(p, GetConvertBuffer) /\ bitstream' = FALSE /\ blocks' \in Nat
<1>1. /\ stream \in Streams /\ bitstream = FALSE /\ stream.extra[1] # 1 /\ blocks \in Nat
  BY DEF FoundInv
<1>2. ConvertToLengths(p)
  BY <1>1 DEF ConvertBitstream, ConvertGivesUp, PassThrough
<1>3. buffer' = LengthPrefixed(NalUnits(Packet(p), p.align), 4) /\ UNCHANGED bitstream
  BY <1>2, Zenon DEF ConvertToLengths
<1>4. bufferBlock' = blocks + 1 /\ blocks' = blocks + 1
  BY <1>2 DEF ConvertToLengths, Allocated
<1>5. GetConvertBuffer = buffer'
  BY <1>1, <1>4 DEF GetConvertBuffer
<1>. QED  BY <1>1, <1>3, <1>4, <1>5, PacketOfPlainUnits

LEMMA BlocksAreNumbered ==
    ASSUME blocks \in Nat, Next
    PROVE  blocks' \in Nat
<1>1. ASSUME NEW block, NEW some, Allocated(block, some) PROVE blocks' \in Nat
  BY <1>1 DEF Allocated
<1>2. CASE OpenFails \/ Close \/ ConvertNothing
  BY <1>2 DEF OpenFails, Close, ConvertNothing, memoryVars
<1>3. CASE OpenAnnexB
  <2>1. \/ Allocated(spsPps', {})
        \/ UNCHANGED blocks
    BY <1>3 DEF OpenAnnexB
  <2>. QED  BY <1>1, <2>1
<1>4. CASE OpenAvcc
  <2>1. \/ Allocated(extraBlock', {})
        \/ UNCHANGED blocks
    BY <1>4 DEF OpenAvcc, memoryVars
  <2>. QED  BY <1>1, <2>1
<1>5. CASE Convert
  <2>1. \/ Allocated(bufferBlock', {bufferBlock})
        \/ UNCHANGED blocks
    BY <1>5 DEF Convert, ConvertBitstream, ConvertGivesUp, ConvertToLengths, PassThrough
  <2>. QED  BY <1>1, <2>1
<1>. QED  BY <1>2, <1>3, <1>4, <1>5 DEF Next

LEMMA FoundKept == FoundInv /\ [Next]_vars => FoundInv'
<1> SUFFICES ASSUME FoundInv, [Next]_vars PROVE FoundInv'
  OBVIOUS
<1>1. CASE UNCHANGED vars
  BY <1>1 DEF vars, modeVars, memoryVars, FoundInv
<1>2. CASE OpenFails \/ OpenAnnexB \/ OpenAvcc
  <2>1. /\ pc = "new" /\ fed = <<>> /\ got = <<>> /\ bitstream = FALSE /\ bytestream = FALSE
    BY <1>2 DEF OpenFails, OpenAnnexB, OpenAvcc, FoundInv
  <2>2. UNCHANGED <<stream, fed, got>> /\ pc' # "new"
    BY <1>2 DEF OpenFails, OpenAnnexB, OpenAvcc
  <2>3. bytestream' => bitstream' = FALSE /\ stream.extra[1] # 1
    BY <1>2, <2>1 DEF OpenFails, OpenAnnexB, OpenAvcc
  <2>4. DOMAIN got = {}
    BY <2>1
  <2>. QED  BY <1>2, <2>1, <2>2, <2>3, <2>4, BlocksAreNumbered DEF FoundInv, Next
<1>3. CASE Close \/ ConvertNothing
  <2>1. UNCHANGED <<stream, bytestream, fed, got>> /\ pc' # "new"
    BY <1>3 DEF Close, ConvertNothing, modeVars
  <2>2. bitstream' = FALSE \/ UNCHANGED bitstream
    BY <1>3 DEF Close, Closed, ConvertNothing, modeVars
  <2>. QED  BY <1>3, <2>1, <2>2, BlocksAreNumbered DEF FoundInv, Next
<1>4. CASE Convert
  <2>1. /\ UNCHANGED <<pc, stream, bytestream>> /\ pc = "open"
    BY <1>4 DEF Convert
  <2>2. PICK p \in stream.packets :
           /\ ConvertBitstream(p) \/ ConvertGivesUp(p) \/ ConvertToLengths(p) \/ PassThrough(p)
           /\ fed' = Append(fed, p) /\ got' = Append(got, GetConvertBuffer)
    BY <1>4 DEF Convert, Give
  <2>3. PICK T : got \in Seq(T)
    BY DEF FoundInv
  <2>. DEFINE out == GetConvertBuffer
              n   == Len(fed)
  <2>4. fed \in Seq(stream.packets) /\ Len(got) = n /\ n \in Nat
    BY DEF FoundInv
  <2>5. bytestream => IsFound(p, out) /\ bitstream' = FALSE
    BY <2>1, <2>2, GivenIsFound
  <2>. HIDE DEF out
  <2>6. /\ \E U : got' \in Seq(U)
        /\ Len(got') = n + 1 /\ DOMAIN got' = 1 .. n + 1 /\ DOMAIN got = 1 .. n
        /\ \A k \in 1 .. n : got'[k] = got[k]
        /\ got'[n + 1] = out
    <3>1. got' = Append(got, out) /\ Len(got) = n
      BY <2>2, <2>4 DEF out
    <3>. HIDE DEF n
    <3>2. /\ \E U : Append(got, out) \in Seq(U)
          /\ DOMAIN got = 1 .. Len(got)
          /\ Len(Append(got, out)) = Len(got) + 1
          /\ DOMAIN Append(got, out) = 1 .. Len(got) + 1
          /\ \A k \in 1 .. Len(got) : Append(got, out)[k] = got[k]
          /\ Append(got, out)[Len(got) + 1] = out
      BY <2>3, Appended, SMTT(40)
    <3>. QED  BY <3>1, <3>2, Zenon
  <2>7. /\ fed' \in Seq(stream.packets) /\ Len(fed') = n + 1
        /\ \A k \in 1 .. n : fed'[k] = fed[k]
        /\ fed'[n + 1] = p
    BY <2>2, <2>4
  <2>. HIDE DEF n
  <2>8. bytestream => \A k \in DOMAIN got' : IsFound(fed'[k], got'[k])
    <3> SUFFICES ASSUME bytestream, NEW k \in 1 .. n + 1 PROVE IsFound(fed'[k], got'[k])
      BY <2>6
    <3>1. CASE k = n + 1
      BY <2>5, <2>6, <2>7, <3>1
    <3>2. CASE k # n + 1
      <4>1. k \in 1 .. n
        BY <2>4, <3>2
      <4>. QED  BY <2>6, <2>7, <4>1 DEF FoundInv
    <3>. QED  BY <3>1, <3>2
  <2>9. blocks' \in Nat
    BY <1>4, BlocksAreNumbered DEF Next, FoundInv
  <2>. QED  BY <2>1, <2>5, <2>6, <2>7, <2>8, <2>9 DEF FoundInv
<1>. QED  BY <1>1, <1>2, <1>3, <1>4 DEF Next

-----------------------------------------------------------------------------
(***************************************************************************)
(* From lengths to start codes: a reader of the output finds the NAL units *)
(* of the input.                                                           *)
(***************************************************************************)

\* c is b and then a start code, whose last three bytes are at z, and the bytes of nal.
Extended(b, z, nal, c) ==
    /\ b \in Seq(0 .. 255) /\ nal \in Seq(0 .. 255) /\ c \in Seq(0 .. 255)
    /\ z \in Nat /\ z \in {Len(b), Len(b) + 1}
    /\ Len(c) = z + 3 + Len(nal)
    /\ \A q \in 0 .. Len(b) - 1 : At(c, q) = At(b, q)
    /\ \A q \in Len(b) .. z + 1 : At(c, q) = 0
    /\ At(c, z + 2) = 1
    /\ \A j \in 0 .. Len(nal) - 1 : At(c, z + 3 + j) = At(nal, j)

\* A start code and the bytes of a unit extend what comes before them.
LEMMA CodeExtends ==
    ASSUME NEW b \in Seq(0 .. 255), NEW nal \in Seq(0 .. 255),
           NEW code \in {<<0, 0, 0, 1>>, <<0, 0, 1>>}
    PROVE  Extended(b, Len(b) + Len(code) - 3, nal, b \o code \o nal)
<1> DEFINE n == Len(b)
           k == Len(code)
           m == Len(nal)
           c == (b \o code) \o nal
<1>1. /\ code \in Seq(0 .. 255) /\ k \in {3, 4} /\ code[k] = 1
      /\ \A j \in 1 .. k - 1 : code[j] = 0
  <2>1. CASE code = <<0, 0, 0, 1>>
    <3>1. \A j \in 1 .. 3 : j \in {1, 2, 3}
      OBVIOUS
    <3>. QED  BY <2>1, <3>1
  <2>2. CASE code = <<0, 0, 1>>
    <3>1. \A j \in 1 .. 2 : j \in {1, 2}
      OBVIOUS
    <3>. QED  BY <2>2, <3>1
  <2>. QED  BY <2>1, <2>2, Zenon
<1>2. n \in Nat /\ m \in Nat
  OBVIOUS
<1>3. /\ b \o code \in Seq(0 .. 255) /\ Len(b \o code) = n + k
      /\ \A j \in 1 .. n : (b \o code)[j] = b[j]
      /\ \A j \in 1 .. k : (b \o code)[n + j] = code[j]
  BY <1>1, Joined
<1>4. /\ c \in Seq(0 .. 255) /\ Len(c) = n + k + m
      /\ \A j \in 1 .. n + k : c[j] = (b \o code)[j]
      /\ \A j \in 1 .. m : c[n + k + j] = nal[j]
  BY <1>3, Joined
<1>. HIDE DEF n, k, m, c
<1>5. \A q \in 0 .. n - 1 : c[q + 1] = b[q + 1]
  <2>. SUFFICES ASSUME NEW q \in 0 .. n - 1 PROVE c[q + 1] = b[q + 1]
    OBVIOUS
  <2>1. q + 1 \in 1 .. n /\ q + 1 \in 1 .. n + k
    BY <1>1, <1>2
  <2>. QED  BY <1>3, <1>4, <2>1
<1>6. ASSUME NEW j \in 1 .. k PROVE c[n + j] = code[j]
  <2>1. n + j \in 1 .. n + k
    BY <1>1, <1>2
  <2>. QED  BY <1>3, <1>4, <2>1
<1>7. \A q \in n .. n + k - 3 + 1 : c[q + 1] = 0
  <2>. SUFFICES ASSUME NEW q \in n .. n + k - 2 PROVE c[q + 1] = 0
    BY <1>1, <1>2
  <2>1. PICK j \in Nat : j = q - n + 1
    BY <1>2
  <2>2. j \in 1 .. k /\ j \in 1 .. k - 1 /\ n + j = q + 1
    BY <1>1, <1>2, <2>1
  <2>. QED  BY <1>1, <1>6, <2>2
<1>8. c[n + k - 3 + 2 + 1] = 1
  <2>1. n + k - 3 + 2 + 1 = n + k /\ k \in 1 .. k
    BY <1>1, <1>2
  <2>. QED  BY <1>1, <1>6, <2>1
<1>9. \A j \in 0 .. m - 1 : c[n + k - 3 + 3 + j + 1] = nal[j + 1]
  <2>. SUFFICES ASSUME NEW j \in 0 .. m - 1 PROVE c[n + k - 3 + 3 + j + 1] = nal[j + 1]
    OBVIOUS
  <2>1. j + 1 \in 1 .. m /\ n + k - 3 + 3 + j + 1 = n + k + (j + 1)
    BY <1>1, <1>2
  <2>. QED  BY <1>4, <2>1
<1>10. n + k - 3 \in Nat /\ n + k - 3 \in {n, n + 1} /\ n + k + m = n + k - 3 + 3 + m
  BY <1>1, <1>2
<1>11. Extended(b, n + k - 3, nal, c)
  BY <1>4, <1>5, <1>7, <1>8, <1>9, <1>10 DEF Extended, At, n, m
<1>. QED  BY <1>11 DEF n, k, c

\* b is empty or does not end with a zero.
NoZeroAtEnd(b) == Len(b) # 0 => At(b, Len(b) - 1) # 0

\* A plain unit brings one start code, its own, behind all others.
LEMMA OneMoreCode ==
    ASSUME NEW b, NEW z, NEW nal, NEW c, Extended(b, z, nal, c), NoZeroAtEnd(b), IsPlain(nal)
    PROVE  /\ CodesOf(c) = CodesOf(b) \cup {z}
           /\ \A p \in CodesOf(b) : p \in Nat /\ p + 3 <= z
           /\ NoZeroAtEnd(c)
<1> DEFINE n == Len(b)
           m == Len(nal)
<1>1. /\ n \in Nat /\ m \in Nat /\ z \in Nat /\ z \in {n, n + 1} /\ Len(c) = z + 3 + m
      /\ \A q \in 0 .. n - 1 : At(c, q) = At(b, q)
      /\ \A q \in n .. z + 1 : At(c, q) = 0
      /\ At(c, z + 2) = 1
      /\ \A j \in 0 .. m - 1 : At(c, z + 3 + j) = At(nal, j)
  <2>1. b \in Seq(0 .. 255) /\ nal \in Seq(0 .. 255)
    BY DEF Extended
  <2>2. n \in Nat /\ m \in Nat
    BY <2>1
  <2>. QED  BY <2>2, Zenon DEF Extended
<1>2. m # 0 /\ At(nal, m - 1) # 0 /\ \A q \in 0 .. m - 3 : ~StartsAt(nal, q)
  <2>1. nal \in Seq(0 .. 255) /\ nal # <<>> /\ nal[m] # 0 /\ \A q \in 0 .. m - 3 : ~StartsAt(nal, q)
    BY DEF IsPlain, Last, Extended
  <2>2. m # 0 /\ m - 1 + 1 = m
    BY <2>1
  <2>. QED  BY <2>1, <2>2 DEF At
<1>3. n # 0 => At(b, n - 1) # 0
  BY DEF NoZeroAtEnd
<1>. HIDE DEF n, m
<1>4. ASSUME NEW p \in 0 .. n - 3 PROVE StartsAt(c, p) <=> StartsAt(b, p)
  <2>1. p \in 0 .. n - 1 /\ p + 1 \in 0 .. n - 1 /\ p + 2 \in 0 .. n - 1
    BY <1>1
  <2>. QED  BY <1>1, <2>1 DEF StartsAt
<1>5. StartsAt(c, z)
  <2>1. z \in n .. z + 1 /\ z + 1 \in n .. z + 1
    BY <1>1
  <2>. QED  BY <1>1, <2>1 DEF StartsAt
<1>6. ASSUME NEW p \in Nat, StartsAt(c, p), p \notin 0 .. n - 3, p <= z + 3 + m - 3 PROVE p = z
  <2>0. At(c, p) = 0 /\ At(c, p + 1) = 0 /\ At(c, p + 2) = 1
    BY <1>6 DEF StartsAt
  <2>1. p # n - 2 /\ p # n - 1
    <3>1. n # 0 => At(c, n - 1) # 0
      <4>1. n # 0 => n - 1 \in 0 .. n - 1
        BY <1>1
      <4>. QED  BY <1>1, <1>3, <4>1
    <3>2. p = n - 2 => p + 1 = n - 1 /\ n # 0
      BY <1>1
    <3>3. p = n - 1 => n # 0
      BY <1>1
    <3>. QED  BY <2>0, <3>1, <3>2, <3>3
  <2>2. ~(n = p /\ z = n + 1)
    <3>1. n = p /\ z = n + 1 => p + 2 \in n .. z + 1
      BY <1>1
    <3>2. n = p /\ z = n + 1 => At(c, p + 2) = 0
      BY <1>1, <3>1
    <3>. QED  BY <2>0, <3>2
  <2>3. p # z + 1 /\ p # z + 2
    <3>1. p = z + 1 => p + 1 = z + 2
      BY <1>1
    <3>. QED  BY <1>1, <2>0, <3>1
  <2>4. ~(z + 3 <= p)
    <3>. SUFFICES ASSUME z + 3 <= p PROVE FALSE
      OBVIOUS
    <3>1. PICK j \in Nat : j = p - (z + 3)
      BY <1>1
    <3>2. /\ j \in 0 .. m - 3 /\ j \in 0 .. m - 1 /\ j + 1 \in 0 .. m - 1 /\ j + 2 \in 0 .. m - 1
          /\ z + 3 + j = p /\ z + 3 + (j + 1) = p + 1 /\ z + 3 + (j + 2) = p + 2
      BY <1>1, <1>6, <3>1
    <3>3. At(nal, j) = At(c, p) /\ At(nal, j + 1) = At(c, p + 1) /\ At(nal, j + 2) = At(c, p + 2)
      BY <1>1, <3>2
    <3>. QED  BY <1>2, <2>0, <3>2, <3>3 DEF StartsAt
  <2>. QED  BY <1>1, <1>6, <2>1, <2>2, <2>3, <2>4
<1>7. ASSUME NEW p PROVE p \in CodesOf(c) <=> p \in CodesOf(b) \cup {z}
  <2>1. CodesOf(c) = {q \in 0 .. z + 3 + m - 3 : StartsAt(c, q)}
    BY <1>1 DEF CodesOf
  <2>2. CodesOf(b) = {q \in 0 .. n - 3 : StartsAt(b, q)}
    BY DEF CodesOf, n
  <2>3. z \in 0 .. z + 3 + m - 3
    BY <1>1
  <2>4. 0 .. n - 3 \subseteq 0 .. z + 3 + m - 3
    BY <1>1
  <2>5. p \in 0 .. z + 3 + m - 3 => p \in Nat /\ p <= z + 3 + m - 3
    BY <1>1
  <2>. QED  BY <1>4, <1>5, <1>6, <2>1, <2>2, <2>3, <2>4, <2>5
<1>8. \A p \in CodesOf(b) : p \in Nat /\ p + 3 <= z
  <2>1. \A p \in 0 .. n - 3 : p \in Nat /\ p + 3 <= z
    BY <1>1
  <2>. QED  BY <2>1 DEF CodesOf, n
<1>9. NoZeroAtEnd(c)
  <2>1. m - 1 \in 0 .. m - 1 /\ z + 3 + (m - 1) = Len(c) - 1
    BY <1>1, <1>2
  <2>2. At(c, Len(c) - 1) = At(nal, m - 1)
    BY <1>1, <2>1
  <2>. QED  BY <1>2, <2>2 DEF NoZeroAtEnd
<1>. QED  BY <1>7, <1>8, <1>9

\* The codes before a position are as many as they were, whatever is added behind it.
LEMMA NthGrows ==
    ASSUME NEW S, IsFiniteSet(S), NEW z \in Nat, \A p \in S : p \in Nat /\ p < z
    PROVE  /\ Cardinality(S) \in Nat /\ Cardinality(S \cup {z}) = Cardinality(S) + 1
           /\ Nth(S \cup {z}, Cardinality(S) + 1) = z
           /\ \A i \in 1 .. Cardinality(S) : Nth(S \cup {z}, i) = Nth(S, i)
<1> DEFINE T == S \cup {z}
           n == Cardinality(S)
           Before(R, x) == {y \in R : y < x}
<1>1. n \in Nat /\ Cardinality(T) = n + 1
  <2>1. z \notin S
    OBVIOUS
  <2>2. Cardinality(S) \in Nat /\ Cardinality(S \cup {z}) = Cardinality(S) + 1
    BY <2>1, FS_CardinalityType, FS_AddElement
  <2>. QED  BY <2>2
<1>2. Before(T, z) = S
  OBVIOUS
<1>3. ASSUME NEW x \in S
      PROVE  /\ Before(T, x) = Before(S, x)
             /\ Cardinality(Before(S, x)) \in Nat /\ Cardinality(Before(S, x)) < n
  <2>1. Before(T, x) = Before(S, x) /\ Before(S, x) \subseteq S
    OBVIOUS
  <2>2. x \notin Before(S, x)
    OBVIOUS
  <2>. HIDE DEF Before
  <2>3. IsFiniteSet(Before(S, x)) /\ Before(S, x) # S
    BY <2>1, <2>2, FS_Subset
  <2>4. Cardinality(Before(S, x)) \in Nat
    BY <2>3, FS_CardinalityType
  <2>5. Cardinality(Before(S, x)) <= n /\ Cardinality(Before(S, x)) # n
    BY <2>1, <2>3, FS_Subset
  <2>. QED  BY <1>1, <2>1, <2>4, <2>5
<1>4. Nth(T, n + 1) = z
  <2> DEFINE k == n + 1
  <2>1. \A x : x \in T /\ Cardinality(Before(T, x)) = k - 1 <=> x = z
    <3>1. ASSUME NEW x \in S PROVE Cardinality(Before(T, x)) # n
      <4>. HIDE DEF n
      <4>. QED  BY <1>1, <1>3
    <3>2. Cardinality(Before(T, z)) = n
      BY <1>2
    <3>. HIDE DEF n, Before
    <3>3. k - 1 = n
      BY <1>1
    <3>. HIDE DEF k
    <3>. QED  BY <3>1, <3>2, <3>3
  <2>. HIDE DEF k
  <2>2. Nth(T, k) = CHOOSE x : x \in T /\ Cardinality(Before(T, x)) = k - 1
    BY Zenon DEF Nth
  <2>. HIDE DEF T, Before
  <2>3. Nth(T, k) = z
    BY ONLY <2>1, <2>2
  <2>. QED  BY <2>3 DEF k
<1>5. ASSUME NEW i \in 1 .. n PROVE Nth(T, i) = Nth(S, i)
  <2>1. i - 1 # n
    BY <1>1
  <2>2. \A x : (x \in T /\ Cardinality(Before(T, x)) = i - 1)
                  <=> (x \in S /\ Cardinality(Before(S, x)) = i - 1)
    <3>. HIDE DEF Before
    <3>. QED  BY <1>2, <1>3, <2>1
  <2>3. Nth(T, i) = CHOOSE x : x \in T /\ Cardinality(Before(T, x)) = i - 1
    BY Zenon DEF Nth
  <2>4. Nth(S, i) = CHOOSE x : x \in S /\ Cardinality(Before(S, x)) = i - 1
    BY Zenon DEF Nth
  <2>. HIDE DEF T, n, Before
  <2>. QED  BY <2>2, <2>3, <2>4
<1>. QED  BY <1>1, <1>4, <1>5

\* A zero more at the end is trimmed with the rest.
LEMMA TrimmedZero ==
    ASSUME NEW u \in Seq(0 .. 255), NEW w \in Seq(0 .. 255), Len(w) = Len(u) + 1,
           w[Len(u) + 1] = 0, \A j \in 1 .. Len(u) : w[j] = u[j]
    PROVE  Trimmed(w) = Trimmed(u)
<1> DEFINE n == Len(u)
           rest(v) == {k \in 0 .. Len(v) : \A i \in k + 1 .. Len(v) : v[i] = 0}
           A == rest(u)
           B == rest(w)
<1>1. n \in Nat /\ Len(w) = n + 1 /\ w[n + 1] = 0 /\ \A j \in 1 .. n : w[j] = u[j]
  OBVIOUS
<1>2. A = {k \in 0 .. n : \A i \in k + 1 .. n : u[i] = 0}
  OBVIOUS
<1>3. B = {k \in 0 .. n + 1 : \A i \in k + 1 .. n + 1 : w[i] = 0}
  BY <1>1
<1>. HIDE DEF A, B, n
<1>4. n \in A
  <2>1. n + 1 .. n = {} /\ n \in 0 .. n
    BY <1>1
  <2>. QED  BY <1>2, <2>1
<1>5. ASSUME NEW k \in 0 .. n PROVE k \in A <=> k \in B
  <2>1. k \in 0 .. n + 1 /\ \A i \in k + 1 .. n : i \in 1 .. n /\ i \in k + 1 .. n + 1
    BY <1>1
  <2>2. \A i \in k + 1 .. n + 1 : i \in k + 1 .. n \/ i = n + 1
    BY <1>1
  <2>. QED  BY <1>1, <1>2, <1>3, <2>1, <2>2
<1>6. A \in SUBSET Nat /\ B \in SUBSET Nat /\ A # {} /\ B # {} /\ A \subseteq 0 .. n
  <2>1. n \in 0 .. n
    BY <1>1
  <2>. QED  BY <1>1, <1>2, <1>3, <1>4, <1>5, <2>1
<1>7. /\ Least(A) \in A /\ \A k \in A : Least(A) <= k
      /\ Least(B) \in B /\ \A k \in B : Least(B) <= k
  BY <1>6, LeastIs
<1>8. Least(A) \in 0 .. n /\ Least(B) \in 0 .. n
  <2>1. Least(A) \in 0 .. n /\ n \in B
    BY <1>1, <1>4, <1>5, <1>6, <1>7
  <2>2. Least(B) \in Nat /\ Least(B) <= n
    BY <1>6, <1>7, <2>1
  <2>. QED  BY <1>1, <2>1, <2>2
<1>9. Least(A) = Least(B)
  <2>1. Least(A) \in B /\ Least(B) \in A
    BY <1>5, <1>7, <1>8
  <2>2. Least(A) <= Least(B) /\ Least(B) <= Least(A)
    BY <1>7, <2>1
  <2>. QED  BY <1>1, <1>8, <2>2
<1>10. Trimmed(u) = SubSeq(u, 1, Least(A)) /\ Trimmed(w) = SubSeq(w, 1, Least(B))
  BY Zenon DEF Trimmed, A, B
<1>11. SubSeq(w, 1, Least(A)) = SubSeq(u, 1, Least(A))
  <2>1. PICK k \in 0 .. n : k = Least(A)
    BY <1>8
  <2>2. \A i \in 1 .. k : w[i] = u[i]
    BY <1>1
  <2>3. SubSeq(w, 1, k) = SubSeq(u, 1, k)
    BY <1>1, <2>2 DEF n
  <2>. QED  BY <2>1, <2>3
<1>. QED  BY <1>9, <1>10, <1>11

\* Of a unit that does not end with a zero nothing is trimmed.
LEMMA TrimmedPlain ==
    ASSUME NEW nal \in Seq(0 .. 255), IsPlain(nal)
    PROVE  Trimmed(nal) = nal
<1> DEFINE n == Len(nal)
           A == {k \in 0 .. n : \A i \in k + 1 .. n : nal[i] = 0}
<1>1. n \in Nat /\ n # 0 /\ nal[n] # 0
  <2>1. nal # <<>> /\ nal[n] # 0
    BY DEF IsPlain, Last
  <2>. QED  BY <2>1
<1>2. Trimmed(nal) = SubSeq(nal, 1, Least(A))
  BY Zenon DEF Trimmed
<1>3. SubSeq(nal, 1, n) = nal
  OBVIOUS
<1>. HIDE DEF n
<1>4. A = {n}
  <2>1. n \in 0 .. n /\ n + 1 .. n = {}
    BY <1>1
  <2>2. ASSUME NEW k \in A PROVE k = n
    <3>1. k # n => n \in k + 1 .. n
      BY <1>1
    <3>. QED  BY <1>1, <3>1
  <2>. QED  BY <2>1, <2>2
<1>5. Least(A) = n
  <2>1. A \in SUBSET Nat /\ A # {}
    BY <1>1, <1>4
  <2>. HIDE DEF A
  <2>2. Least(A) \in A
    BY <2>1, LeastIs
  <2>. QED  BY <1>4, <2>2
<1>. QED  BY <1>2, <1>3, <1>5

\* A reader of b finds the units, and would find no other if more followed.
IsCoded(b, units) ==
    /\ b \in Seq(0 .. 255) /\ units \in Seq(Seq(0 .. 255))
    /\ NoZeroAtEnd(b)
    /\ Cardinality(CodesOf(b)) = Len(units)
    /\ \A i \in 1 .. Len(units) : Nth(CodesOf(b), i) \in CodesOf(b)
    /\ SplitAtCodes(b) = units

\* Nothing holds no unit.
LEMMA NothingIsCoded == IsCoded(<<>>, <<>>)
<1>1. CodesOf(<<>>) = {} /\ Cardinality({}) = 0
  <2>1. 0 .. Len(<<>>) - 3 = {}
    OBVIOUS
  <2>. QED  BY <2>1, FS_EmptySet DEF CodesOf
<1>2. SplitAtCodes(<<>>) = <<>>
  <2>1. 1 .. 0 = {}
    OBVIOUS
  <2>. QED  BY <1>1, <2>1 DEF SplitAtCodes
<1>3. NoZeroAtEnd(<<>>)
  BY DEF NoZeroAtEnd
<1>4. <<>> \in Seq(0 .. 255) /\ <<>> \in Seq(Seq(0 .. 255)) /\ Len(<<>>) = 0
  OBVIOUS
<1>5. 1 .. Len(<<>>) = {}
  BY <1>4
<1>. QED  BY <1>1, <1>2, <1>3, <1>4, <1>5 DEF IsCoded

\* The bytes up to a position are the same in c as in b.
LEMMA SameSlice ==
    ASSUME NEW b \in Seq(0 .. 255), NEW c \in Seq(0 .. 255), NEW m \in Nat,
           m <= Len(b), m <= Len(c), \A q \in 0 .. m - 1 : At(c, q) = At(b, q),
           NEW from \in Nat
    PROVE  Slice(c, from, m) = Slice(b, from, m)
<1>1. ASSUME NEW i \in 1 .. m PROVE c[i] = b[i]
  <2>1. i - 1 \in 0 .. m - 1 /\ i - 1 + 1 = i
    OBVIOUS
  <2>. QED  BY <2>1 DEF At
<1>2. SubSeq(c, from + 1, m) = SubSeq(b, from + 1, m)
  <2>1. \A i \in from + 1 .. m : i \in 1 .. m
    OBVIOUS
  <2>. QED  BY <1>1, <2>1
<1>. QED  BY <1>2 DEF Slice

\* Append, entry by entry.
LEMMA AppendIsFunction ==
    ASSUME NEW U, NEW s \in Seq(U), NEW x \in U
    PROVE  Append(s, x) = [i \in 1 .. Len(s) + 1 |-> IF i = Len(s) + 1 THEN x ELSE s[i]]
<1> DEFINE t == Append(s, x)
           n == Len(s)
           f == [i \in 1 .. n + 1 |-> IF i = n + 1 THEN x ELSE s[i]]
<1>1. n \in Nat /\ t \in Seq(U) /\ Len(t) = n + 1 /\ \A i \in 1 .. n : t[i] = s[i] /\ s[i] \in U
  OBVIOUS
<1>2. t[n + 1] = x
  OBVIOUS
<1>. HIDE DEF t, n
<1>3. t = [i \in 1 .. n + 1 |-> t[i]]
  <2>1. DOMAIN t = 1 .. n + 1
    BY <1>1, LenProperties
  <2>2. t = [i \in DOMAIN t |-> t[i]]
    BY <1>1
  <2>. QED  BY <2>1, <2>2
<1>4. \A i \in 1 .. n + 1 : t[i] = f[i]
  <2>1. \A i \in 1 .. n + 1 : i # n + 1 => i \in 1 .. n
    BY ONLY <1>1
  <2>. QED  BY <1>1, <1>2, <2>1
<1>. QED  BY <1>3, <1>4 DEF t, n

\* One more code and a plain unit behind it are one more unit for the reader.
LEMMA OneMoreUnit ==
    ASSUME NEW b, NEW units, IsCoded(b, units), NEW z, NEW nal, NEW c,
           Extended(b, z, nal, c), IsPlain(nal)
    PROVE  IsCoded(c, Append(units, nal))
<1> DEFINE S == CodesOf(b)
           T == CodesOf(c)
           n == Len(units)
<1>0. /\ b \in Seq(0 .. 255) /\ nal \in Seq(0 .. 255) /\ c \in Seq(0 .. 255)
      /\ units \in Seq(Seq(0 .. 255)) /\ z \in Nat
  BY DEF Extended, IsCoded
<1>1. /\ b \in Seq(0 .. 255) /\ nal \in Seq(0 .. 255) /\ c \in Seq(0 .. 255)
      /\ units \in Seq(Seq(0 .. 255)) /\ n \in Nat /\ Len(b) \in Nat /\ Len(nal) \in Nat
      /\ z \in Nat /\ z \in {Len(b), Len(b) + 1} /\ Len(c) = z + 3 + Len(nal)
      /\ NoZeroAtEnd(b) /\ Cardinality(S) = n
      /\ \A i \in 1 .. n : Nth(S, i) \in S
  BY DEF Extended, IsCoded
<1>2. /\ T = S \cup {z} /\ NoZeroAtEnd(c)
      /\ \A p \in S : p \in Nat /\ p + 3 <= z
  BY <1>1, OneMoreCode
<1>3. ASSUME NEW p \in S PROVE p \in 0 .. Len(b) - 3
  BY DEF CodesOf
<1>4. IsFiniteSet(S)
  <2>1. 0 \in Int /\ Len(b) - 3 \in Int
    BY <1>1
  <2>2. IsFiniteSet(0 .. Len(b) - 3)
    BY <2>1, FS_Interval
  <2>. QED  BY <1>3, <2>2, FS_Subset
<1>. HIDE DEF S, T
<1>5. /\ Cardinality(T) = n + 1 /\ Nth(T, n + 1) = z
      /\ \A i \in 1 .. n : Nth(T, i) = Nth(S, i)
  <2>1. \A p \in S : p \in Nat /\ p < z
    BY <1>1, <1>2
  <2>2. /\ Cardinality(S \cup {z}) = Cardinality(S) + 1
        /\ Nth(S \cup {z}, Cardinality(S) + 1) = z
        /\ \A i \in 1 .. Cardinality(S) : Nth(S \cup {z}, i) = Nth(S, i)
    BY ONLY <1>0, <1>4, <2>1, NthGrows
  <2>. HIDE DEF n
  <2>. QED  BY <1>1, <1>2, <2>2
<1> DEFINE Unit(x, R, i) == Trimmed(Slice(x, Nth(R, i) + 3, IF i = Cardinality(R) THEN Len(x) ELSE Nth(R, i + 1)))
<1>6. /\ SplitAtCodes(b) = [i \in 1 .. n |-> Unit(b, S, i)]
      /\ SplitAtCodes(c) = [i \in 1 .. n + 1 |-> Unit(c, T, i)]
  BY <1>1, <1>5, Zenon DEF SplitAtCodes, S, T
<1>7. units = [i \in 1 .. n |-> Unit(b, S, i)]
  BY <1>6 DEF IsCoded
<1>8. /\ \A q \in 0 .. Len(b) - 1 : At(c, q) = At(b, q)
      /\ \A q \in Len(b) .. z + 1 : At(c, q) = 0
      /\ \A j \in 0 .. Len(nal) - 1 : At(c, z + 3 + j) = At(nal, j)
  BY Zenon DEF Extended
<1>9. ASSUME NEW i \in 1 .. n PROVE Unit(c, T, i) = units[i]
  <2>1. units[i] = Unit(b, S, i)
    <3>. HIDE DEF Unit
    <3>. QED  BY <1>7
  <2>2. PICK p \in S : p = Nth(S, i) /\ p = Nth(T, i)
    BY <1>1, <1>5
  <2>3. p \in Nat /\ p + 3 \in Nat /\ p + 3 <= Len(b)
    BY <1>1, <1>3, SMTT(40)
  <2>4. CASE i # n
    <3>1. i + 1 \in 1 .. n
      BY <1>1, <2>4
    <3>2. PICK q \in S : q = Nth(S, i + 1) /\ q = Nth(T, i + 1)
      BY <1>1, <1>5, <3>1
    <3>3. q \in Nat /\ q <= Len(b) /\ q <= Len(c)
      BY <1>1, <1>3
    <3>4. \A r \in 0 .. q - 1 : At(c, r) = At(b, r)
      <4>1. 0 .. q - 1 \subseteq 0 .. Len(b) - 1
        BY <1>1, <3>3
      <4>. QED  BY <1>8, <4>1
    <3>5. Slice(c, p + 3, q) = Slice(b, p + 3, q)
      BY ONLY <1>0, <2>3, <3>3, <3>4, SameSlice, SMTT(40)
    <3>6. i # n + 1
      BY <1>1
    <3>. QED  BY <1>1, <1>5, <2>1, <2>2, <2>4, <3>2, <3>5, <3>6
  <2>5. CASE i = n
    <3>1. i # n + 1 /\ i + 1 = n + 1
      BY <1>1, <2>5
    <3>2. Unit(c, T, i) = Trimmed(Slice(c, p + 3, z)) /\ Unit(b, S, i) = Trimmed(Slice(b, p + 3, Len(b)))
      BY <1>1, <1>5, <2>2, <2>5, <3>1
    <3>3. Slice(c, p + 3, Len(b)) = Slice(b, p + 3, Len(b))
      <4>1. Len(b) \in Nat /\ Len(b) <= Len(b) /\ Len(b) <= Len(c)
        BY <1>1
      <4>. QED  BY ONLY <1>0, <1>8, <2>3, <4>1, SameSlice, ZenonT(40)
    <3>4. CASE z = Len(b)
      BY <2>1, <3>2, <3>3, <3>4
    <3>5. CASE z = Len(b) + 1
      <4> DEFINE u == Slice(c, p + 3, Len(b))
                 w == Slice(c, p + 3, Len(b) + 1)
                 f == p + 4
                 l == Len(b)
      <4>1. /\ f \in Int /\ l \in Int /\ l + 1 \in Int /\ f <= l + 1 /\ f >= 1 /\ l + 1 <= Len(c)
            /\ Len(c) \in Nat
        BY <1>1, <2>3
      <4>2. \A k \in f .. l + 1 : c[k] \in 0 .. 255
        <5>1. \A k \in 1 .. Len(c) : c[k] \in 0 .. 255
          BY <1>0, LenProperties, ZenonT(40)
        <5>. HIDE DEF f, l
        <5>2. \A k \in f .. l + 1 : k \in 1 .. Len(c)
          BY <4>1
        <5>. QED  BY <5>1, <5>2
      <4>3. u = SubSeq(c, f, l) /\ w = SubSeq(c, f, l + 1)
        <5>1. p + 3 + 1 = p + 4
          BY <2>3
        <5>. QED  BY <5>1 DEF Slice
      <4>. HIDE DEF u, w, f, l
      <4>4. /\ u \in Seq(0 .. 255) /\ Len(u) = l - f + 1
            /\ \A j \in 1 .. l - f + 1 : u[j] = c[f + j - 1]
        <5>1. \A k \in f .. l : c[k] \in 0 .. 255
          BY <4>1, <4>2
        <5>2. LET v == SubSeq(c, f, l)
              IN /\ v \in Seq(0 .. 255) /\ Len(v) = IF f <= l THEN l - f + 1 ELSE 0
                 /\ \A j \in 1 .. l - f + 1 : v[j] = c[f + j - 1]
          BY <4>1, <5>1, SubSeqProperties
        <5>. QED  BY <4>1, <4>3, <5>2
      <4>5. /\ w \in Seq(0 .. 255) /\ Len(w) = l + 1 - f + 1
            /\ \A j \in 1 .. l + 1 - f + 1 : w[j] = c[f + j - 1]
        <5>2. LET v == SubSeq(c, f, l + 1)
              IN /\ v \in Seq(0 .. 255) /\ Len(v) = IF f <= l + 1 THEN l + 1 - f + 1 ELSE 0
                 /\ \A j \in 1 .. l + 1 - f + 1 : v[j] = c[f + j - 1]
          BY <4>1, <4>2, SubSeqProperties
        <5>. QED  BY <4>1, <4>3, <5>2
      <4>6. w[Len(u) + 1] = 0
        <5>1. At(c, l) = 0
          <6>1. Len(b) \in Len(b) .. z + 1
            BY <1>1
          <6>. QED  BY <1>8, <6>1 DEF l
        <5>2. l - f + 1 + 1 \in 1 .. l + 1 - f + 1 /\ f + (l - f + 1 + 1) - 1 = l + 1
          BY <4>1
        <5>. QED  BY <4>4, <4>5, <5>1, <5>2 DEF At
      <4>7. Len(w) = Len(u) + 1 /\ \A j \in 1 .. Len(u) : w[j] = u[j]
        <5>1. l + 1 - f + 1 = l - f + 1 + 1 /\ \A j \in 1 .. l - f + 1 : j \in 1 .. l + 1 - f + 1
          BY <4>1
        <5>. QED  BY <4>4, <4>5, <5>1
      <4>8. Trimmed(w) = Trimmed(u)
        BY ONLY <4>4, <4>5, <4>6, <4>7, TrimmedZero
      <4>. QED  BY <2>1, <3>2, <3>3, <3>5, <4>8 DEF u, w
    <3>. QED  BY <1>1, <3>4, <3>5
  <2>. QED  BY <2>4, <2>5
<1>10. Unit(c, T, n + 1) = nal
  <2>1. Unit(c, T, n + 1) = Trimmed(Slice(c, z + 3, Len(c)))
    BY <1>5
  <2>2. Slice(c, z + 3, Len(c)) = nal
    <3> DEFINE f == z + 4
               l == Len(c)
               m == Len(nal)
               u == SubSeq(c, f, l)
    <3>1. f \in Int /\ l \in Nat /\ m \in Nat /\ l - f + 1 = m /\ f >= 1
          /\ (f <= l \/ m = 0)
      BY <1>1
    <3>2. \A k \in f .. l : c[k] \in 0 .. 255
      <4>1. \A k \in 1 .. Len(c) : c[k] \in 0 .. 255
        BY <1>0, LenProperties, ZenonT(40)
      <4>2. \A k \in f .. l : k \in 1 .. Len(c)
        BY <1>1, <3>1
      <4>. QED  BY <4>1, <4>2
    <3>. HIDE DEF f, l
    <3>3. /\ u \in Seq(0 .. 255) /\ Len(u) = IF f <= l THEN l - f + 1 ELSE 0
          /\ \A j \in 1 .. l - f + 1 : u[j] = c[f + j - 1]
      BY <3>1, <3>2, SubSeqProperties
    <3>. HIDE DEF u, m
    <3>4. ASSUME NEW j \in 1 .. m PROVE u[j] = nal[j]
      <4>1. j - 1 \in 0 .. m - 1 /\ j - 1 + 1 = j /\ z + 3 + (j - 1) + 1 = z + 4 + j - 1
        BY <1>1, <3>1
      <4>2. At(c, z + 3 + (j - 1)) = At(nal, j - 1)
        BY <1>8, <4>1 DEF m
      <4>3. c[z + 4 + j - 1] = nal[j]
        BY <4>1, <4>2 DEF At
      <4>. QED  BY <3>1, <3>3, <4>3 DEF f
    <3>5. Len(u) = m
      BY <3>1, <3>3
    <3>6. u = nal
      BY ONLY <1>1, <3>3, <3>4, <3>5, m = Len(nal), SeqEqual DEF m
    <3>7. z + 3 + 1 = f
      BY <1>1 DEF f
    <3>. QED  BY <3>6, <3>7 DEF Slice, u, l
  <2>. QED  BY <1>1, <2>1, <2>2, TrimmedPlain
<1>. HIDE DEF Unit
<1>11. SplitAtCodes(c) = Append(units, nal)
  <2>1. Append(units, nal) = [i \in 1 .. n + 1 |-> IF i = n + 1 THEN nal ELSE units[i]]
    <3> DEFINE U == Seq(0 .. 255)
    <3>1. units \in Seq(U) /\ nal \in U
      BY <1>0
    <3>. HIDE DEF U
    <3>. QED  BY <3>1, AppendIsFunction DEF n
  <2>2. ASSUME NEW i \in 1 .. n + 1 PROVE Unit(c, T, i) = IF i = n + 1 THEN nal ELSE units[i]
    <3>0. n \in Nat
      BY <1>1
    <3>. HIDE DEF n
    <3>1. i # n + 1 => i \in 1 .. n
      BY <3>0
    <3>. QED  BY <1>9, <1>10, <3>1
  <2>. HIDE DEF n
  <2>. QED  BY <1>6, <2>1, <2>2
<1>12. ASSUME NEW i \in 1 .. n + 1 PROVE Nth(T, i) \in T
  <2>0. n \in Nat
    BY <1>1
  <2>. HIDE DEF n
  <2>1. i # n + 1 => i \in 1 .. n
    BY <2>0
  <2>. QED  BY <1>1, <1>2, <1>5, <2>1
<1>13. Append(units, nal) \in Seq(Seq(0 .. 255)) /\ Len(Append(units, nal)) = n + 1
  BY ONLY <1>0
<1>. HIDE DEF n
<1>. QED  BY <1>1, <1>2, <1>5, <1>11, <1>12, <1>13 DEF IsCoded, T

\* With a start code in front, a plain unit is one more, whatever came before.
LEMMA UnitIsCoded ==
    ASSUME NEW b, NEW units, IsCoded(b, units), NEW nal \in Seq(0 .. 255), IsPlain(nal),
           NEW code \in {<<0, 0, 0, 1>>, <<0, 0, 1>>}
    PROVE  IsCoded(b \o code \o nal, Append(units, nal))
<1>1. b \in Seq(0 .. 255)
  BY DEF IsCoded
<1>2. Extended(b, Len(b) + Len(code) - 3, nal, b \o code \o nal)
  BY <1>1, CodeExtends
<1>. QED  BY <1>2, OneMoreUnit

\* Bytes in three parts are bytes.
LEMMA BytesJoined ==
    ASSUME NEW s \in Seq(0 .. 255), NEW t \in Seq(0 .. 255), NEW u \in Seq(0 .. 255)
    PROVE  s \o t \in Seq(0 .. 255) /\ (s \o t) \o u = s \o (t \o u)
<1> DEFINE T == 0 .. 255
<1>. HIDE DEF T
<1>1. s \in Seq(T) /\ t \in Seq(T) /\ u \in Seq(T)
  BY DEF T
<1>2. s \o t \in Seq(T) /\ (s \o t) \o u = s \o (t \o u)
  BY ONLY <1>1, ConcatAssociative
<1>. QED  BY <1>2 DEF T

\* The first k + 1 elements are the first k and one more.
LEMMA PrefixGrows ==
    ASSUME NEW T, NEW s \in Seq(T), NEW n \in Nat, n + 1 <= Len(s)
    PROVE  /\ SubSeq(s, 1, n) \in Seq(T) /\ s[n + 1] \in T
           /\ SubSeq(s, 1, n + 1) = Append(SubSeq(s, 1, n), s[n + 1])
OBVIOUS

\* The first element alone.
LEMMA FirstOnly ==
    ASSUME NEW T, NEW s \in Seq(T), 1 <= Len(s)
    PROVE  SubSeq(s, 1, 1) = <<s[1]>>
<1>1. s[1] \in T /\ Len(SubSeq(s, 1, 1)) = 1 /\ SubSeq(s, 1, 1)[1] = s[1] /\ SubSeq(s, 1, 1) \in Seq(T)
  OBVIOUS
<1>2. <<s[1]>> \in Seq(T) /\ Len(<<s[1]>>) = 1 /\ <<s[1]>>[1] = s[1]
  BY <1>1
<1> DEFINE u == SubSeq(s, 1, 1)
           v == <<s[1]>>
<1>. HIDE DEF u, v
<1>3. \A i \in 1 .. 1 : u[i] = v[i]
  BY <1>1, <1>2 DEF u, v
<1>4. u = v
  BY ONLY <1>1, <1>2, <1>3, SeqEqual DEF u, v
<1>. QED  BY <1>4 DEF u, v

\* The parameter sets follow what is there.
LEMMA SetsAreCoded ==
    ASSUME NEW b, NEW units, IsCoded(b, units), NEW sets \in Seq(Seq(0 .. 255)),
           \A i \in DOMAIN sets : IsPlain(sets[i])
    PROVE  IsCoded(b \o SetsCoded(sets), units \o sets) /\ SetsCoded(sets) \in Seq(0 .. 255)
<1> DEFINE n    == Len(sets)
           code == <<0, 0, 0, 1>>
           part == [i \in DOMAIN sets |-> code \o sets[i]]
<1>1. /\ n \in Nat /\ DOMAIN sets = 1 .. n /\ b \in Seq(0 .. 255) /\ units \in Seq(Seq(0 .. 255))
      /\ code \in Seq(0 .. 255) /\ \A i \in 1 .. n : sets[i] \in Seq(0 .. 255)
  BY DEF IsCoded
<1>2. /\ DOMAIN part = 1 .. n /\ Len(part) = n
      /\ \A i \in 1 .. n : part[i] = code \o sets[i] /\ part[i] \in Seq(0 .. 255)
  <2>1. DOMAIN part = 1 .. n /\ \A i \in 1 .. n : part[i] = code \o sets[i]
    BY <1>1
  <2>2. \A i \in 1 .. n : part[i] \in Seq(0 .. 255)
    <3>. SUFFICES ASSUME NEW i \in 1 .. n PROVE part[i] \in Seq(0 .. 255)
      OBVIOUS
    <3> DEFINE u == sets[i]
    <3>1. part[i] = code \o u /\ u \in Seq(0 .. 255)
      BY <1>1, <2>1
    <3>. HIDE DEF code, part, u
    <3>. QED  BY <1>1, <3>1, BytesJoined
  <2>3. part \in Seq(Seq(0 .. 255))
    <3>1. part = [i \in 1 .. n |-> part[i]]
      BY <2>1
    <3>2. part \in [1 .. n -> Seq(0 .. 255)]
      BY <2>2, <3>1
    <3>. HIDE DEF part, n
    <3>. QED  BY <1>1, <3>2, IsSeq
  <2>4. Len(part) = n
    <3>. HIDE DEF part
    <3>1. DOMAIN part = 1 .. Len(part) /\ Len(part) \in Nat
      BY <2>3, LenProperties
    <3>. HIDE DEF n
    <3>. QED  BY <1>1, <2>1, <3>1
  <2>. HIDE DEF part
  <2>. QED  BY <2>1, <2>2, <2>4
<1>3. SetsCoded(sets) = FlattenSeq(part)
  BY DEF SetsCoded
<1>. HIDE DEF part
<1>4. CASE n = 0
  <2>1. SetsCoded(sets) = <<>>
    <3>1. part = <<>>
      <4>1. part \in Seq(Seq(0 .. 255))
        <5>1. part = [i \in 1 .. n |-> part[i]]
          BY <1>2 DEF part
        <5>2. part \in [1 .. n -> Seq(0 .. 255)]
          BY <1>2, <5>1
        <5>. HIDE DEF n
        <5>. QED  BY <1>1, <5>2, IsSeq
      <4>2. Len(part) = 0
        BY <1>2, <1>4
      <4>. QED  BY <4>1, <4>2, EmptySeq
    <3>. QED  BY <1>3, <3>1 DEF FlattenSeq
  <2>2. sets = <<>>
    BY <1>4
  <2>. QED  BY <1>1, <2>1, <2>2, ConcatEmptySeq
<1>5. CASE n # 0
  <2>1. PICK f : IsFlat(f, part, n) /\ SetsCoded(sets) = f[n]
    <3>. HIDE DEF n
    <3>1. Len(part) \in Nat \ {0}
      BY <1>1, <1>2, <1>5
    <3>. QED  BY <1>2, <1>3, <3>1, FlattenIsFlat
  <2> DEFINE Holds(k) == /\ f[k] \in Seq(0 .. 255)
                         /\ IsCoded(b \o f[k], units \o SubSeq(sets, 1, k))
             N == {k \in Nat : k + 1 <= n => Holds(k + 1)}
  <2>2. 0 \in N
    <3>1. 1 \in 1 .. n
      BY <1>1, <1>5
    <3>2. f[1] = code \o sets[1] /\ f[1] \in Seq(0 .. 255)
      <4>. HIDE DEF n, code
      <4>. QED  BY <1>2, <2>1, <3>1 DEF IsFlat
    <3>3. b \o f[1] = b \o code \o sets[1]
      <4>. HIDE DEF code
      <4>1. sets[1] \in Seq(0 .. 255)
        BY <1>1, <3>1
      <4> DEFINE u == sets[1]
      <4>. HIDE DEF u
      <4>2. u \in Seq(0 .. 255)
        BY <4>1 DEF u
      <4>3. (b \o code) \o u = b \o (code \o u)
        BY ONLY <1>1, <4>2, BytesJoined, SMTT(40)
      <4>. QED  BY <3>2, <4>3 DEF u
    <3>4. units \o SubSeq(sets, 1, 1) = Append(units, sets[1])
      <4>1. SubSeq(sets, 1, 1) = <<sets[1]>>
        <5>1. 1 <= Len(sets)
          BY <1>1, <3>1
        <5>. QED  BY <5>1, FirstOnly
      <4>2. sets[1] \in Seq(0 .. 255)
        BY <1>1, <3>1
      <4>. QED  BY ONLY <1>1, <4>1, <4>2, AppendIsConcat
    <3>5. IsPlain(sets[1]) /\ sets[1] \in Seq(0 .. 255)
      BY <1>1, <3>1
    <3>6. IsCoded(b \o code \o sets[1], Append(units, sets[1]))
      BY <3>5, UnitIsCoded
    <3>7. Holds(1)
      BY <3>2, <3>3, <3>4, <3>6
    <3>. QED  BY <3>7
  <2>3. ASSUME NEW k \in Nat, k \in N PROVE k + 1 \in N
    <3>. SUFFICES ASSUME k + 1 + 1 <= n PROVE Holds(k + 1 + 1)
      OBVIOUS
    <3>1. Holds(k + 1)
      BY <1>1, <2>3
    <3>. DEFINE j == k + 1
                s == sets[j + 1]
    <3>2. j \in Nat /\ j + 1 \in 1 .. n /\ j + 1 # 1 /\ (j + 1) - 1 = j /\ j + 1 <= n
      BY <1>1
    <3>3. Holds(j)
      BY <3>1
    <3>. HIDE DEF j
    <3>4. f[j + 1] = f[j] \o (code \o s) /\ s \in Seq(0 .. 255) /\ IsPlain(s)
      <4>. HIDE DEF n, code
      <4>. QED  BY <1>1, <1>2, <2>1, <3>2, ZenonT(40) DEF IsFlat
    <3>. HIDE DEF s
    <3>5. b \o f[j + 1] = (b \o f[j]) \o code \o s
      <4>. DEFINE g == f[j]
      <4>1. g \in Seq(0 .. 255) /\ b \in Seq(0 .. 255) /\ code \in Seq(0 .. 255)
        BY <1>1, <3>3
      <4>. HIDE DEF g, code
      <4> DEFINE h == code \o s
                 a == b \o g
      <4>2. a \in Seq(0 .. 255) /\ h \in Seq(0 .. 255)
        BY <3>4, <4>1, BytesJoined
      <4>3. b \o (g \o h) = a \o h
        <5>. HIDE DEF h
        <5>. QED  BY ONLY <4>1, <4>2, BytesJoined, SMTT(40)
      <4>4. a \o (code \o s) = (a \o code) \o s
        <5>. HIDE DEF a, h
        <5>1. a \in Seq(0 .. 255) /\ code \in Seq(0 .. 255) /\ s \in Seq(0 .. 255)
          BY <3>4, <4>1, <4>2
        <5>2. (a \o code) \o s = a \o (code \o s)
          BY ONLY <5>1, BytesJoined, SMTT(40)
        <5>. QED  BY <5>2
      <4>. QED  BY <3>4, <4>3, <4>4 DEF g
    <3>6. units \o SubSeq(sets, 1, j + 1) = Append(units \o SubSeq(sets, 1, j), s)
      <4>1. /\ SubSeq(sets, 1, j) \in Seq(Seq(0 .. 255))
            /\ SubSeq(sets, 1, j + 1) = Append(SubSeq(sets, 1, j), s)
        BY <3>2, PrefixGrows DEF s
      <4>. DEFINE u == SubSeq(sets, 1, j)
      <4>. HIDE DEF u
      <4>2. Append(units \o u, s) = units \o Append(u, s)
        <5> DEFINE T == Seq(0 .. 255)
        <5>1. units \in Seq(T) /\ u \in Seq(T) /\ s \in T
          BY <1>1, <3>4, <4>1 DEF u
        <5>. HIDE DEF T
        <5>2. <<s>> \in Seq(T) /\ units \o u \in Seq(T)
          BY ONLY <5>1
        <5>3. Append(units \o u, s) = (units \o u) \o <<s>> /\ Append(u, s) = u \o <<s>>
          BY ONLY <5>1, <5>2, AppendIsConcat
        <5>. QED  BY ONLY <5>1, <5>2, <5>3, ConcatAssociative
      <4>. QED  BY <4>1, <4>2 DEF u
    <3>7. IsCoded(b \o f[j + 1], units \o SubSeq(sets, 1, j + 1))
      BY <3>3, <3>4, <3>5, <3>6, UnitIsCoded
    <3>8. f[j + 1] \in Seq(0 .. 255)
      <4>. DEFINE g == f[j]
      <4>1. g \in Seq(0 .. 255) /\ code \in Seq(0 .. 255)
        BY <1>1, <3>3
      <4>. HIDE DEF g, code
      <4>. QED  BY <3>4, <4>1, Joined DEF g
    <3>. QED  BY <3>7, <3>8 DEF j
  <2>. HIDE DEF N
  <2>4. Holds(n)
    <3>1. PICK k \in Nat : k + 1 = n
      <4>1. n - 1 \in Nat /\ n - 1 + 1 = n
        BY <1>1, <1>5
      <4>. QED  BY <4>1, Zenon
    <3>2. k \in N
      BY <2>2, <2>3, NatSetInduction
    <3>3. k + 1 <= n
      BY <1>1, <3>1
    <3>4. Holds(k + 1)
      BY <3>2, <3>3 DEF N
    <3>. HIDE DEF n
    <3>. QED  BY <3>1, <3>4
  <2>5. SubSeq(sets, 1, n) = sets
    OBVIOUS
  <2>. HIDE DEF n
  <2>. QED  BY <2>1, <2>4, <2>5
<1>. QED  BY <1>4, <1>5

\* One more part is one more concatenation.
LEMMA FlattenGrows ==
    ASSUME NEW T, NEW s \in Seq(Seq(T)), NEW x \in Seq(T)
    PROVE  FlattenSeq(Append(s, x)) = FlattenSeq(s) \o x /\ FlattenSeq(s) \in Seq(T)
<1> DEFINE n == Len(s)
           t == Append(s, x)
<1>1. n \in Nat /\ t \in Seq(Seq(T)) /\ Len(t) = n + 1 /\ t[n + 1] = x
      /\ \A i \in 1 .. n : t[i] = s[i] /\ s[i] \in Seq(T)
  OBVIOUS
<1>. HIDE DEF t
<1>2. PICK f : IsFlat(f, t, n + 1) /\ FlattenSeq(t) = f[n + 1]
  <2>1. Len(t) \in Nat \ {0}
    BY <1>1
  <2>. HIDE DEF n
  <2>. QED  BY <1>1, <2>1, FlattenIsFlat
<1>3. \A i \in 1 .. n + 1 : f[i] = IF i = 1 THEN t[1] ELSE f[i - 1] \o t[i]
  BY <1>2 DEF IsFlat
<1>4. CASE n = 0
  <2>1. s = <<>> /\ FlattenSeq(s) = s
    BY <1>4 DEF FlattenSeq
  <2>2. 1 \in 1 .. n + 1 /\ n + 1 = 1
    BY <1>4
  <2>3. FlattenSeq(t) = x
    BY <1>1, <1>2, <1>3, <2>2
  <2>4. <<>> \in Seq(T)
    OBVIOUS
  <2>. HIDE DEF n
  <2>. QED  BY <2>1, <2>3, <2>4, ConcatEmptySeq DEF t
<1>5. CASE n # 0
  <2>1. PICK g : IsFlat(g, s, n) /\ FlattenSeq(s) = g[n]
    <3>1. Len(s) \in Nat \ {0}
      BY <1>1, <1>5
    <3>. QED  BY <3>1, FlattenIsFlat
  <2>2. \A i \in 1 .. n : g[i] = IF i = 1 THEN s[1] ELSE g[i - 1] \o s[i]
    BY <2>1 DEF IsFlat
  <2>. HIDE DEF n
  <2> DEFINE N == {k \in Nat : k + 1 <= n => f[k + 1] = g[k + 1] /\ g[k + 1] \in Seq(T)}
  <2>3. 0 \in N
    <3>1. 1 \in 1 .. n /\ 1 \in 1 .. n + 1 /\ 0 + 1 = 1
      BY <1>1, <1>5
    <3>2. f[1] = g[1] /\ g[1] \in Seq(T)
      BY <1>1, <1>3, <2>2, <3>1
    <3>. QED  BY <3>2
  <2>4. ASSUME NEW k \in Nat, k \in N PROVE k + 1 \in N
    <3>. SUFFICES ASSUME k + 1 + 1 <= n
                  PROVE  f[k + 1 + 1] = g[k + 1 + 1] /\ g[k + 1 + 1] \in Seq(T)
      OBVIOUS
    <3> DEFINE j == k + 1
    <3>1. j \in Nat /\ j + 1 \in 1 .. n /\ j + 1 \in 1 .. n + 1 /\ j + 1 # 1 /\ j + 1 - 1 = j
      BY <1>1
    <3>2. f[j] = g[j] /\ g[j] \in Seq(T)
      BY <1>1, <2>4
    <3>. HIDE DEF j
    <3>3. f[j + 1] = f[j] \o t[j + 1] /\ g[j + 1] = g[j] \o s[j + 1]
      <4> DEFINE m == j + 1
      <4>1. m \in 1 .. n /\ m \in 1 .. n + 1 /\ m # 1 /\ m - 1 = j
        BY <3>1
      <4>. HIDE DEF m
      <4>2. f[m] = f[j] \o t[m] /\ g[m] = g[j] \o s[m]
        BY <1>3, <2>2, <4>1
      <4>. QED  BY <4>2 DEF m
    <3>4. t[j + 1] = s[j + 1] /\ s[j + 1] \in Seq(T)
      BY <1>1, <3>1
    <3>5. g[j] \o s[j + 1] \in Seq(T)
      BY <3>2, <3>4
    <3>. QED  BY <3>2, <3>3, <3>4, <3>5 DEF j
  <2>. HIDE DEF N
  <2>5. f[n] = g[n] /\ g[n] \in Seq(T)
    <3>1. PICK k \in Nat : k + 1 = n
      <4>1. n - 1 \in Nat /\ n - 1 + 1 = n
        BY <1>1, <1>5
      <4>. QED  BY <4>1, Zenon
    <3>2. k \in N
      BY <2>3, <2>4, NatSetInduction
    <3>3. k + 1 <= n
      BY <1>1, <3>1
    <3>. QED  BY <3>1, <3>2, <3>3 DEF N
  <2>6. n + 1 \in 1 .. n + 1 /\ n + 1 # 1 /\ n + 1 - 1 = n
    BY <1>1, <1>5
  <2>7. f[n + 1] = f[n] \o x
    <3> DEFINE m == n + 1
    <3>1. m \in 1 .. n + 1 /\ m # 1 /\ m - 1 = n
      BY <1>1, <1>5
    <3>2. t[m] = x
      BY <1>1
    <3>. HIDE DEF m
    <3>3. f[m] = f[n] \o x
      BY <1>3, <3>1, <3>2
    <3>. QED  BY <3>3 DEF m
  <2>. QED  BY <1>2, <2>1, <2>5, <2>7 DEF t
<1>. QED  BY <1>1, <1>4, <1>5

\* No IDR unit came, or a slice of another type since the last one: what
\* m_sps_pps_context.first_idr says.
FirstIdr(h) ==
    \A j \in 1 .. Len(h) :
       UnitType(h[j][1]) = 5 => \E k \in j + 1 .. Len(h) : UnitType(h[k][1]) = 1

\* What the client gets of a unit that follows the units h.
Shown(h, nal, sets) ==
    IF FirstIdr(h) /\ UnitType(nal[1]) = 5 THEN Append(sets, nal) ELSE <<nal>>

\* One more unit: what a decoder needs of the units so far stays, and first_idr decides on the new one.
LEMMA HistoryGrows ==
    ASSUME NEW h \in Seq(Seq(0 .. 255)), NEW nal \in Seq(0 .. 255), NEW params,
           SplitAtCodes(params) \in Seq(Seq(0 .. 255))
    PROVE  /\ WithSets(Append(h, nal), params) = WithSets(h, params) \o Shown(h, nal, SplitAtCodes(params))
           /\ WithSets(h, params) \in Seq(Seq(0 .. 255))
           /\ FirstIdr(Append(h, nal)) <=>
                 ~(FirstIdr(h) /\ UnitType(nal[1]) = 5) /\ (FirstIdr(h) \/ UnitType(nal[1]) = 1)
<1> DEFINE n    == Len(h)
           g    == Append(h, nal)
           sets == SplitAtCodes(params)
           T    == Seq(0 .. 255)
           Of(x, i) == IF NeedsSets(x, i) THEN Append(sets, x[i]) ELSE <<x[i]>>
           whole(x) == [i \in DOMAIN x |-> Of(x, i)]
<1>. HIDE DEF sets
<1>1. /\ n \in Nat /\ DOMAIN h = 1 .. n /\ g \in Seq(T) /\ Len(g) = n + 1 /\ DOMAIN g = 1 .. n + 1
      /\ g[n + 1] = nal /\ nal \in T
      /\ \A i \in 1 .. n : g[i] = h[i] /\ h[i] \in T
  OBVIOUS
<1>2. sets \in Seq(T)
  BY DEF sets
<1>. HIDE DEF g, n, T
<1>3. ASSUME NEW i \in 1 .. n PROVE NeedsSets(g, i) <=> NeedsSets(h, i)
  <2>1. \A j \in 1 .. i - 1 : j \in 1 .. n
    BY <1>1
  <2>2. \A j \in 1 .. i - 1 : \A k \in j + 1 .. i - 1 : k \in 1 .. n
    BY <1>1
  <2> DEFINE A(x, j) == UnitType(x[j][1])
  <2>3. \A j \in 1 .. n : A(g, j) = A(h, j)
    BY <1>1
  <2>4. /\ NeedsSets(g, i) <=> A(g, i) = 5 /\ \A j \in 1 .. i - 1 :
              A(g, j) = 5 => \E k \in j + 1 .. i - 1 : A(g, k) = 1
        /\ NeedsSets(h, i) <=> A(h, i) = 5 /\ \A j \in 1 .. i - 1 :
              A(h, j) = 5 => \E k \in j + 1 .. i - 1 : A(h, k) = 1
    BY Zenon DEF NeedsSets
  <2>. HIDE DEF A
  <2>. QED  BY <2>1, <2>2, <2>3, <2>4
<1>4. NeedsSets(g, n + 1) <=> FirstIdr(h) /\ UnitType(nal[1]) = 5
  <2>1. n + 1 - 1 = n
    BY <1>1
  <2>2. \A j \in 1 .. n : \A k \in j + 1 .. n : k \in 1 .. n
    BY <1>1
  <2> DEFINE A(x, j) == UnitType(x[j][1])
  <2>3. (\A j \in 1 .. n : A(g, j) = A(h, j)) /\ A(g, n + 1) = UnitType(nal[1])
    BY <1>1
  <2>4. NeedsSets(g, n + 1) <=> A(g, n + 1) = 5 /\ \A j \in 1 .. n :
           A(g, j) = 5 => \E k \in j + 1 .. n : A(g, k) = 1
    <3> DEFINE m == n + 1
    <3>1. NeedsSets(g, m) <=> A(g, m) = 5 /\ \A j \in 1 .. m - 1 :
             A(g, j) = 5 => \E k \in j + 1 .. m - 1 : A(g, k) = 1
      BY Zenon DEF NeedsSets
    <3>2. m - 1 = n
      BY <1>1
    <3>. HIDE DEF A, m
    <3>3. NeedsSets(g, m) <=> A(g, m) = 5 /\ \A j \in 1 .. n :
             A(g, j) = 5 => \E k \in j + 1 .. n : A(g, k) = 1
      BY ONLY <3>1, <3>2
    <3>. QED  BY <3>3 DEF m
  <2>5. FirstIdr(h) <=> \A j \in 1 .. n : A(h, j) = 5 => \E k \in j + 1 .. n : A(h, k) = 1
    BY Zenon DEF FirstIdr, n
  <2>. HIDE DEF A
  <2>. QED  BY <2>2, <2>3, <2>4, <2>5
<1>5. ASSUME NEW x, NEW i, x[i] \in T PROVE Of(x, i) \in Seq(T)
  <2> DEFINE y == x[i]
  <2>1. y \in T
    BY <1>5
  <2>. HIDE DEF y
  <2>2. Append(sets, y) \in Seq(T) /\ <<y>> \in Seq(T)
    BY <1>2, <2>1
  <2>. QED  BY <2>2 DEF y
<1>6. whole(h) \in Seq(Seq(T))
  <2>1. whole(h) \in [1 .. n -> Seq(T)]
    <3>. HIDE DEF Of
    <3>. QED  BY <1>1, <1>5
  <2>. HIDE DEF whole
  <2>. QED  BY <1>1, <2>1, IsSeq
<1>7. whole(g) = Append(whole(h), Of(g, n + 1))
  <2>1. ASSUME NEW i \in 1 .. n PROVE Of(g, i) = Of(h, i)
    BY <1>1, <1>3
  <2>2. Len(whole(h)) = n
    <3>. HIDE DEF Of
    <3>1. DOMAIN whole(h) = 1 .. n
      BY <1>1
    <3>2. DOMAIN whole(h) = 1 .. Len(whole(h)) /\ Len(whole(h)) \in Nat
      <4>. HIDE DEF whole
      <4>. QED  BY <1>6, LenProperties
    <3>. HIDE DEF whole
    <3>. QED  BY <1>1, <3>1, <3>2
  <2>3. whole(g) = [i \in 1 .. n + 1 |-> IF i = n + 1 THEN Of(g, n + 1) ELSE whole(h)[i]]
    <3>1. \A i \in 1 .. n + 1 : i # n + 1 => i \in 1 .. n
      BY <1>1
    <3>2. \A i \in 1 .. n : whole(h)[i] = Of(h, i)
      BY <1>1
    <3>. HIDE DEF Of
    <3>. QED  BY <1>1, <2>1, <3>1, <3>2
  <2>. HIDE DEF whole, Of
  <2>4. Append(whole(h), Of(g, n + 1))
          = [i \in 1 .. n + 1 |-> IF i = n + 1 THEN Of(g, n + 1) ELSE whole(h)[i]]
    BY <1>6, <2>2
  <2>. QED  BY <2>3, <2>4
<1>8. Of(g, n + 1) = Shown(h, nal, sets)
  BY <1>1, <1>4 DEF Shown
<1>9. WithSets(g, params) = FlattenSeq(whole(g)) /\ WithSets(h, params) = FlattenSeq(whole(h))
  BY Zenon DEF WithSets, sets
<1>10. Of(g, n + 1) \in Seq(T)
  BY <1>1, <1>5
<1>11. FlattenSeq(Append(whole(h), Of(g, n + 1))) = FlattenSeq(whole(h)) \o Of(g, n + 1)
       /\ FlattenSeq(whole(h)) \in Seq(T)
  <2>. HIDE DEF whole, Of
  <2>. QED  BY <1>6, <1>10, FlattenGrows
<1>12. FirstIdr(g) <=>
          ~(FirstIdr(h) /\ UnitType(nal[1]) = 5) /\ (FirstIdr(h) \/ UnitType(nal[1]) = 1)
  <2>1. \A j \in 1 .. n : n + 1 \in j + 1 .. n + 1
    BY <1>1
  <2>2. n + 1 + 1 .. n + 1 = {} /\ n + 1 \in 1 .. n + 1
    BY <1>1
  <2>3. \A j \in 1 .. n + 1 : j # n + 1 => j \in 1 .. n
    BY <1>1
  <2>4. \A j \in 1 .. n : \A k \in j + 1 .. n + 1 : k # n + 1 => k \in j + 1 .. n /\ k \in 1 .. n
    BY <1>1
  <2>5. \A j \in 1 .. n : j + 1 .. n \subseteq j + 1 .. n + 1 /\ j \in 1 .. n + 1
    BY <1>1
  <2>5a. \A j \in 1 .. n : \A k \in j + 1 .. n : k \in 1 .. n
    BY <1>1
  <2> DEFINE A(j) == UnitType(h[j][1])
  <2>6. FirstIdr(h) <=> \A j \in 1 .. n : A(j) = 5 => \E k \in j + 1 .. n : A(k) = 1
    BY DEF FirstIdr, n
  <2>7. FirstIdr(g) <=> \A j \in 1 .. n + 1 :
           UnitType(g[j][1]) = 5 => \E k \in j + 1 .. n + 1 : UnitType(g[k][1]) = 1
    BY <1>1 DEF FirstIdr
  <2>8. /\ \A j \in 1 .. n : UnitType(g[j][1]) = A(j)
        /\ UnitType(g[n + 1][1]) = UnitType(nal[1])
    BY <1>1
  <2>. HIDE DEF A
  <2>9. CASE UnitType(nal[1]) = 1
    <3>1. \A j \in 1 .. n : \E k \in j + 1 .. n + 1 : UnitType(g[k][1]) = 1
      BY <2>1, <2>8, <2>9
    <3>2. UnitType(g[n + 1][1]) # 5 /\ UnitType(nal[1]) # 5
      BY <2>8, <2>9
    <3>. QED  BY <2>3, <2>7, <2>9, <3>1, <3>2
  <2>10. CASE UnitType(nal[1]) = 5
    <3>1. ~FirstIdr(g)
      BY <2>2, <2>7, <2>8, <2>10
    <3>. QED  BY <2>10, <3>1
  <2>11. CASE UnitType(nal[1]) # 1 /\ UnitType(nal[1]) # 5
    <3>1. ASSUME NEW j \in 1 .. n
          PROVE  (\E k \in j + 1 .. n + 1 : UnitType(g[k][1]) = 1) <=> (\E k \in j + 1 .. n : A(k) = 1)
      BY <2>4, <2>5, <2>5a, <2>8, <2>11
    <3>2. FirstIdr(g) <=> FirstIdr(h)
      BY <2>3, <2>5, <2>6, <2>7, <2>8, <2>11, <3>1
    <3>. QED  BY <2>11, <3>2
  <2>. QED  BY <2>9, <2>10, <2>11
<1>. HIDE DEF whole, Of
<1>. QED  BY <1>7, <1>8, <1>9, <1>11, <1>12 DEF g, sets, T

\* A reader of the parameter sets finds each of them.
LEMMA SetsAreRead ==
    ASSUME NEW sets \in Seq(Seq(0 .. 255)), \A i \in DOMAIN sets : IsPlain(sets[i])
    PROVE  SplitAtCodes(SetsCoded(sets)) = sets
<1>1. IsCoded(<<>> \o SetsCoded(sets), <<>> \o sets) /\ SetsCoded(sets) \in Seq(0 .. 255)
  BY NothingIsCoded, SetsAreCoded
<1>2. <<>> \o SetsCoded(sets) = SetsCoded(sets) /\ <<>> \o sets = sets
  BY <1>1, ConcatEmptySeq
<1>. QED  BY <1>1, <1>2 DEF IsCoded

\* A unit goes into the output with the parameter sets where they belong, and first_idr
\* keeps up with the units.
LEMMA UnitIsConverted ==
    ASSUME NEW done, NEW us, IsCoded(done.out, us),
           NEW sets \in Seq(Seq(0 .. 255)), \A i \in DOMAIN sets : IsPlain(sets[i]),
           NEW unit, unit.nal \in Seq(0 .. 255), IsPlain(unit.nal), unit.type = UnitType(unit.nal[1]),
           NEW h \in Seq(Seq(0 .. 255)), done.first <=> FirstIdr(h)
    PROVE  LET after == ConvertUnit(done, unit, SetsCoded(sets))
           IN /\ IsCoded(after.out, us \o Shown(h, unit.nal, sets))
              /\ after.first <=>
                    ~(FirstIdr(h) /\ UnitType(unit.nal[1]) = 5)
                    /\ (FirstIdr(h) \/ UnitType(unit.nal[1]) = 1)
<1> DEFINE nal    == unit.nal
           out    == done.out
           params == SetsCoded(sets)
           code   == IF out = <<>> THEN <<0, 0, 0, 1>> ELSE <<0, 0, 1>>
           after  == ConvertUnit(done, unit, params)
           U      == Seq(0 .. 255)
<1>1. /\ us \in Seq(U) /\ out \in Seq(0 .. 255) /\ nal \in U
      /\ code \in {<<0, 0, 0, 1>>, <<0, 0, 1>>}
  BY DEF IsCoded
<1>2. IsCoded(out \o params, us \o sets) /\ params \in Seq(0 .. 255)
  BY SetsAreCoded
<1>3. CASE done.first /\ unit.type = 5
  <2>1. after.out = out \o params \o code \o nal /\ after.first = FALSE
    BY <1>3 DEF ConvertUnit, Copied
  <2>2. Shown(h, nal, sets) = Append(sets, nal)
    BY <1>3 DEF Shown
  <2>. HIDE DEF after, code, params, nal, out, U
  <2>3. IsCoded(out \o params \o code \o nal, Append(us \o sets, nal))
    BY <1>1, <1>2, UnitIsCoded DEF U, nal
  <2>4. Append(us \o sets, nal) = us \o Append(sets, nal)
    <3>1. sets \in Seq(U)
      BY DEF U
    <3>2. <<nal>> \in Seq(U) /\ us \o sets \in Seq(U)
      BY ONLY <1>1, <3>1
    <3>3. Append(us \o sets, nal) = (us \o sets) \o <<nal>> /\ Append(sets, nal) = sets \o <<nal>>
      BY ONLY <1>1, <3>1, <3>2, AppendIsConcat
    <3>4. us \in Seq(U) /\ sets \in Seq(U) /\ <<nal>> \in Seq(U)
      BY <1>1, <3>1, <3>2
    <3> DEFINE last == <<nal>>
    <3>. HIDE DEF last
    <3>5. (us \o sets) \o last = us \o (sets \o last)
      BY ONLY <3>4, ConcatAssociative, SMTT(40) DEF last
    <3>. QED  BY <3>3, <3>5 DEF last
  <2>. QED  BY <1>3, <2>1, <2>2, <2>3, <2>4 DEF after, params, nal
<1>4. CASE ~(done.first /\ unit.type = 5)
  <2>1. after.out = out \o <<>> \o code \o nal /\ (after.first <=> done.first \/ unit.type = 1)
    BY <1>4 DEF ConvertUnit, Copied, AfterSlice
  <2>2. Shown(h, nal, sets) = <<nal>>
    BY <1>4 DEF Shown
  <2>3. out \o <<>> = out
    BY <1>1, ConcatEmptySeq
  <2>. HIDE DEF after, code, params, nal, out, U
  <2>4. IsCoded(out \o code \o nal, Append(us, nal))
    BY <1>1, UnitIsCoded DEF U, nal, out
  <2>5. Append(us, nal) = us \o <<nal>>
    BY ONLY <1>1, AppendIsConcat
  <2>. QED  BY <1>4, <2>1, <2>2, <2>3, <2>4, <2>5 DEF after, params, nal
<1>. QED  BY <1>3, <1>4

\* d holds the output and first_idr after each number of units.
IsDone(d, n, start, units, params) ==
    d = [i \in 0 .. n |-> IF i = 0 THEN start ELSE ConvertUnit(d[i - 1], units[i], params)]

\* The loop of BitstreamConvert has a result after each unit.
LEMMA DoneExists ==
    ASSUME NEW n \in Nat, NEW start, NEW units, NEW params
    PROVE  \E d : IsDone(d, n, start, units, params)
<1> DEFINE N == {k \in Nat : \E d : IsDone(d, k, start, units, params)}
<1>1. 0 \in N
  <2> DEFINE d == [i \in 0 .. 0 |-> start]
  <2>1. IsDone(d, 0, start, units, params)
    <3>1. \A i \in 0 .. 0 : i = 0
      OBVIOUS
    <3>2. d = [i \in 0 .. 0 |-> IF i = 0 THEN start ELSE ConvertUnit(d[i - 1], units[i], params)]
      BY <3>1
    <3>. QED  BY <3>2, Zenon DEF IsDone
  <2>. QED  BY <2>1
<1>2. ASSUME NEW k \in Nat, k \in N PROVE k + 1 \in N
  <2>1. PICK d : IsDone(d, k, start, units, params)
    BY <1>2
  <2> DEFINE last == ConvertUnit(d[k], units[k + 1], params)
             g    == [i \in 0 .. k + 1 |-> IF i = k + 1 THEN last ELSE d[i]]
  <2>. HIDE DEF last
  <2>2. g[k + 1] = last /\ \A i \in 0 .. k : g[i] = d[i]
    OBVIOUS
  <2>3. g = [i \in 0 .. k + 1 |-> g[i]]
    OBVIOUS
  <2>. HIDE DEF g
  <2>4. ASSUME NEW i \in 0 .. k + 1
        PROVE  g[i] = IF i = 0 THEN start ELSE ConvertUnit(g[i - 1], units[i], params)
    <3>1. CASE i = k + 1
      <4>1. i # 0 /\ i - 1 = k /\ k \in 0 .. k
        BY <3>1
      <4>2. g[i - 1] = d[k]
        BY <2>2, <4>1
      <4>. QED  BY <2>2, <3>1, <4>1, <4>2 DEF last
    <3>2. CASE i # k + 1
      <4>1. i \in 0 .. k /\ (i # 0 => i - 1 \in 0 .. k)
        BY <3>2
      <4>2. d[i] = IF i = 0 THEN start ELSE ConvertUnit(d[i - 1], units[i], params)
        BY <2>1, <4>1 DEF IsDone
      <4>3. g[i] = d[i] /\ (i # 0 => g[i - 1] = d[i - 1])
        BY <2>2, <4>1
      <4>. QED  BY <4>2, <4>3
    <3>. QED  BY <3>1, <3>2
  <2>5. g = [i \in 0 .. k + 1 |->
               IF i = 0 THEN start ELSE ConvertUnit(g[i - 1], units[i], params)]
    BY <2>3, <2>4
  <2>6. IsDone(g, k + 1, start, units, params)
    BY <2>5 DEF IsDone
  <2>. QED  BY <2>6
<1>. HIDE DEF N
<1>3. n \in N
  BY <1>1, <1>2, NatSetInduction
<1>. QED  BY <1>3 DEF N

\* BitstreamConvert is the last of them.
LEMMA ConvertIsDone ==
    ASSUME NEW b, NEW ctx, Len(UnitsWithin(b, ctx.lengthSize)) \in Nat
    PROVE  LET units == UnitsWithin(b, ctx.lengthSize)
           IN \E d : /\ IsDone(d, Len(units), [out |-> <<>>, first |-> ctx.firstIdr], units, ctx.params)
                     /\ BitstreamConvert(b, ctx) = d[Len(units)]
<1> DEFINE units == UnitsWithin(b, ctx.lengthSize)
           n     == Len(units)
           start == [out |-> <<>>, first |-> ctx.firstIdr]
           body(d) == [i \in 0 .. n |-> IF i = 0 THEN start
                                        ELSE ConvertUnit(d[i - 1], units[i], ctx.params)]
           done  == CHOOSE d : d = body(d)
<1>1. \A d : d = body(d) <=> IsDone(d, n, start, units, ctx.params)
  BY Zenon DEF IsDone
<1>2. BitstreamConvert(b, ctx) = done[n]
  BY DEF BitstreamConvert
<1>. HIDE DEF body, units, start
<1>3. \E d : IsDone(d, n, start, units, ctx.params)
  <2>1. n \in Nat
    BY DEF units
  <2>. HIDE DEF n
  <2>. QED  BY <2>1, DoneExists
<1>4. done = body(done)
  BY <1>1, <1>3
<1>5. IsDone(done, n, start, units, ctx.params)
  BY <1>1, <1>4
<1>. HIDE DEF done
<1>. QED  BY <1>2, <1>5 DEF units, start

\* The output of a packet continues what the client got of the units h before it, and so
\* does first_idr.
LEMMA PacketIsConverted ==
    ASSUME NEW b, NEW ctx, NEW nals \in Seq(Seq(0 .. 255)), \A i \in DOMAIN nals : IsPlain(nals[i]),
           Len(UnitsWithin(b, ctx.lengthSize)) = Len(nals),
           \A i \in 1 .. Len(nals) :
              /\ UnitsWithin(b, ctx.lengthSize)[i].nal = nals[i]
              /\ UnitsWithin(b, ctx.lengthSize)[i].type = UnitType(nals[i][1]),
           NEW sets \in Seq(Seq(0 .. 255)), \A i \in DOMAIN sets : IsPlain(sets[i]),
           ctx.params = SetsCoded(sets),
           NEW h \in Seq(Seq(0 .. 255)), ctx.firstIdr <=> FirstIdr(h)
    PROVE  LET done == BitstreamConvert(b, ctx)
           IN /\ SplitAtCodes(done.out) \in Seq(Seq(0 .. 255))
              /\ WithSets(h \o nals, ctx.params) = WithSets(h, ctx.params) \o SplitAtCodes(done.out)
              /\ done.first <=> FirstIdr(h \o nals)
<1> DEFINE n      == Len(nals)
           units  == UnitsWithin(b, ctx.lengthSize)
           params == ctx.params
           start  == [out |-> <<>>, first |-> ctx.firstIdr]
           U      == Seq(0 .. 255)
           past(k) == h \o SubSeq(nals, 1, k)
<1>1. /\ n \in Nat /\ DOMAIN nals = 1 .. n /\ h \in Seq(U) /\ nals \in Seq(U)
      /\ \A i \in 1 .. n : nals[i] \in U /\ IsPlain(nals[i])
  <2>1. n \in Nat /\ DOMAIN nals = 1 .. n /\ h \in Seq(U) /\ nals \in Seq(U)
    OBVIOUS
  <2>. HIDE DEF n, U
  <2>2. \A i \in 1 .. n : nals[i] \in U
    BY ONLY <2>1
  <2>3. \A i \in 1 .. n : IsPlain(nals[i])
    BY <2>1
  <2>. QED  BY <2>1, <2>2, <2>3
<1>2. /\ Len(units) = n
      /\ \A i \in 1 .. n : units[i].nal = nals[i] /\ units[i].type = UnitType(nals[i][1])
  OBVIOUS
<1>. HIDE DEF units
<1>3. PICK d : IsDone(d, n, start, units, params) /\ BitstreamConvert(b, ctx) = d[n]
  <2>1. Len(UnitsWithin(b, ctx.lengthSize)) \in Nat
    BY <1>1, <1>2 DEF units
  <2>2. LET many == UnitsWithin(b, ctx.lengthSize)
        IN \E e : /\ IsDone(e, Len(many), [out |-> <<>>, first |-> ctx.firstIdr], many, ctx.params)
                  /\ BitstreamConvert(b, ctx) = e[Len(many)]
    BY <2>1, ConvertIsDone, Zenon
  <2>. HIDE DEF n
  <2>. QED  BY <1>2, <2>2 DEF units
<1>4. /\ d[0] = start
      /\ \A i \in 1 .. n : d[i] = ConvertUnit(d[i - 1], units[i], params)
  <2>. HIDE DEF start, params, n
  <2>1. d = [i \in 0 .. n |-> IF i = 0 THEN start ELSE ConvertUnit(d[i - 1], units[i], params)]
    BY <1>3 DEF IsDone
  <2>2. 0 \in 0 .. n /\ \A i \in 1 .. n : i \in 0 .. n /\ i # 0
    BY <1>1
  <2>. QED  BY <2>1, <2>2
<1>5. params = SetsCoded(sets) /\ SplitAtCodes(params) = sets
  BY SetsAreRead
<1> DEFINE Right(k, us) == /\ IsCoded(d[k].out, us)
                           /\ WithSets(past(k), params) = WithSets(h, params) \o us
                           /\ d[k].first <=> FirstIdr(past(k))
           N == {k \in Nat : k <= n => \E us : Right(k, us)}
<1>6. \A g \in Seq(U) : WithSets(g, params) \in Seq(U)
  <2>. SUFFICES ASSUME NEW g \in Seq(U) PROVE WithSets(g, params) \in Seq(U)
    OBVIOUS
  <2>1. <<>> \in U /\ SplitAtCodes(params) \in Seq(Seq(0 .. 255)) /\ g \in Seq(Seq(0 .. 255))
    BY <1>5
  <2>. HIDE DEF params
  <2>. QED  BY <2>1, HistoryGrows
<1>7. 0 \in N
  <2>1. past(0) = h
    <3>1. SubSeq(nals, 1, 0) = <<>>
      BY SubSeqEmpty
    <3>. HIDE DEF U
    <3>. QED  BY <1>1, <3>1, ConcatEmptySeq
  <2>2. WithSets(h, params) \o <<>> = WithSets(h, params)
    <3>1. WithSets(h, params) \in Seq(U)
      BY <1>1, <1>6
    <3>. HIDE DEF U, params
    <3>. QED  BY <3>1, ConcatEmptySeq
  <2>3. d[0].out = <<>> /\ (d[0].first <=> FirstIdr(h))
    BY <1>4
  <2>4. Right(0, <<>>)
    BY <2>1, <2>2, <2>3, NothingIsCoded
  <2>. QED  BY <2>4
<1>8. ASSUME NEW k \in Nat, k \in N PROVE k + 1 \in N
  <2>0. n \in Nat
    BY <1>1
  <2>. SUFFICES ASSUME k + 1 <= n PROVE \E us : Right(k + 1, us)
    <3>. HIDE DEF Right
    <3>. QED  OBVIOUS
  <2>1. PICK us : Right(k, us)
    <3>. HIDE DEF Right, n
    <3>1. k <= n
      BY <2>0
    <3>. QED  BY <1>8, <3>1
  <2> DEFINE i   == k + 1
             nal == nals[i]
             g   == past(k)
             more == Shown(g, nal, sets)
  <2>2. i \in 1 .. n /\ i - 1 = k /\ nal \in U /\ IsPlain(nal)
    BY <1>1
  <2>3. /\ SubSeq(nals, 1, k) \in Seq(U) /\ nal \in U
        /\ SubSeq(nals, 1, i) = Append(SubSeq(nals, 1, k), nal)
    BY PrefixGrows
  <2>4. g \in Seq(U) /\ past(i) = Append(g, nal)
    <3> DEFINE p == SubSeq(nals, 1, k)
    <3>1. p \in Seq(U) /\ nal \in U /\ past(i) = h \o Append(p, nal) /\ g = h \o p
      BY <2>3
    <3>. HIDE DEF p, U, nal, past, g
    <3>2. <<nal>> \in Seq(U) /\ h \o p \in Seq(U)
      BY ONLY <1>1, <3>1
    <3>3. Append(h \o p, nal) = (h \o p) \o <<nal>> /\ Append(p, nal) = p \o <<nal>>
      BY ONLY <1>1, <3>1, <3>2, AppendIsConcat
    <3>4. (h \o p) \o <<nal>> = h \o (p \o <<nal>>)
      BY ONLY <1>1, <3>1, <3>2, ConcatAssociative, SMTT(40)
    <3>. QED  BY <3>1, <3>2, <3>3, <3>4
  <2>5. /\ IsCoded(d[k].out, us) /\ (d[k].first <=> FirstIdr(g))
        /\ WithSets(g, params) = WithSets(h, params) \o us
    BY <2>1
  <2>6. d[i] = ConvertUnit(d[k], units[i], params) /\ units[i].nal = nal
        /\ units[i].type = UnitType(nal[1])
    BY <1>2, <1>4, <2>2
  <2>. HIDE DEF i, nal, g, params, past, start, n
  <2>7. /\ IsCoded(d[i].out, us \o more)
        /\ d[i].first <=> ~(FirstIdr(g) /\ UnitType(nal[1]) = 5) /\ (FirstIdr(g) \/ UnitType(nal[1]) = 1)
    <3> DEFINE e == d[k]
               u == units[i]
    <3>1. /\ IsCoded(e.out, us) /\ (e.first <=> FirstIdr(g))
          /\ u.nal = nal /\ u.nal \in Seq(0 .. 255) /\ IsPlain(u.nal) /\ u.type = UnitType(u.nal[1])
          /\ g \in Seq(Seq(0 .. 255)) /\ d[i] = ConvertUnit(e, u, SetsCoded(sets))
      BY <1>5, <2>2, <2>4, <2>5, <2>6
    <3>. HIDE DEF e, u
    <3>0. sets \in Seq(Seq(0 .. 255)) /\ \A j \in DOMAIN sets : IsPlain(sets[j])
      OBVIOUS
    <3>2. LET after == ConvertUnit(e, u, SetsCoded(sets))
          IN /\ IsCoded(after.out, us \o Shown(g, u.nal, sets))
             /\ after.first <=>
                   ~(FirstIdr(g) /\ UnitType(u.nal[1]) = 5)
                   /\ (FirstIdr(g) \/ UnitType(u.nal[1]) = 1)
      BY ONLY <3>0, <3>1, UnitIsConverted, ZenonT(90)
    <3>. QED  BY <3>1, <3>2
  <2>8. /\ WithSets(Append(g, nal), params) = WithSets(g, params) \o more
        /\ FirstIdr(Append(g, nal)) <=>
              ~(FirstIdr(g) /\ UnitType(nal[1]) = 5) /\ (FirstIdr(g) \/ UnitType(nal[1]) = 1)
    <3>1. g \in Seq(Seq(0 .. 255)) /\ nal \in Seq(0 .. 255)
          /\ SplitAtCodes(params) = sets /\ sets \in Seq(Seq(0 .. 255))
      BY <1>5, <2>2, <2>4
    <3>. QED  BY ONLY <3>1, HistoryGrows, ZenonT(40) DEF more
  <2>9. WithSets(g, params) \o more = WithSets(h, params) \o (us \o more)
    <3> DEFINE w == WithSets(h, params)
    <3>1. w \in Seq(U) /\ us \in Seq(U)
      BY <1>1, <1>6, <2>5 DEF IsCoded
    <3>2. more \in Seq(U)
      <4>1. sets \in Seq(U) /\ nal \in U
        BY <2>2
      <4>. HIDE DEF U
      <4>2. Append(sets, nal) \in Seq(U) /\ <<nal>> \in Seq(U)
        BY ONLY <4>1
      <4>. QED  BY <4>2 DEF Shown
    <3>. HIDE DEF w, U, more
    <3>3. (w \o us) \o more = w \o (us \o more)
      BY ONLY <3>1, <3>2, ConcatAssociative, SMTT(40)
    <3>. QED  BY <2>5, <3>3 DEF w
  <2>. HIDE DEF more
  <2>10. Right(i, us \o more)
    BY <2>4, <2>7, <2>8, <2>9
  <2>. QED  BY <2>10 DEF i
<1>. HIDE DEF N
<1>9. \E us : Right(n, us)
  <2>1. n \in N /\ n \in Nat
    BY <1>1, <1>7, <1>8, NatSetInduction
  <2>. HIDE DEF n, Right
  <2>2. n <= n
    BY <2>1
  <2>. QED  BY <2>1, <2>2 DEF N
<1>10. past(n) = h \o nals
  <2>1. SubSeq(nals, 1, n) = nals
    OBVIOUS
  <2>. QED  BY <2>1
<1>. HIDE DEF n, past
<1>. QED  BY <1>3, <1>9, <1>10 DEF IsCoded

-----------------------------------------------------------------------------
(***************************************************************************)
(* The units of a packet with lengths.                                     *)
(***************************************************************************)

\* f holds the numbers that the first bytes at p make.
IsValue(f, b, p, n) ==
    f[0] = 0 /\ \A i \in 1 .. n : f[i] = 256 * f[i - 1] + At(b, p + i - 1)

\* What Number computes, byte by byte.
LEMMA NumberIsValue ==
    ASSUME NEW b, NEW p \in Nat, NEW n \in {1, 2, 4}
    PROVE  \E f : IsValue(f, b, p, n) /\ Number(b, p, n) = f[n]
<1> DEFINE body(f) == [i \in 0 .. n |-> IF i = 0 THEN 0 ELSE 256 * f[i - 1] + At(b, p + i - 1)]
           value == CHOOSE f : f = body(f)
           byte(i) == At(b, p + i - 1)
<1>1. Number(b, p, n) = value[n]
  BY DEF Number
<1>2. \E f : f = body(f)
  <2> DEFINE a1 == 256 * 0 + byte(1)
             a2 == 256 * a1 + byte(2)
             a3 == 256 * a2 + byte(3)
             a4 == 256 * a3 + byte(4)
             f  == [i \in 0 .. n |-> IF i = 0 THEN 0 ELSE IF i = 1 THEN a1
                                     ELSE IF i = 2 THEN a2 ELSE IF i = 3 THEN a3 ELSE a4]
  <2>. HIDE DEF byte
  <2>1. /\ f[0] = 0 /\ f[1] = 256 * f[0] + byte(1)
        /\ n >= 2 => f[2] = 256 * f[1] + byte(2)
        /\ n >= 3 => f[3] = 256 * f[2] + byte(3) /\ f[4] = 256 * f[3] + byte(4)
    <3>. HIDE DEF a1, a2, a3, a4
    <3>1. f[0] = 0 /\ f[1] = a1 /\ (n >= 2 => f[2] = a2) /\ (n >= 3 => f[3] = a3 /\ f[4] = a4)
      OBVIOUS
    <3>. HIDE DEF f
    <3>2. a1 = 256 * 0 + byte(1) /\ a2 = 256 * a1 + byte(2) /\ a3 = 256 * a2 + byte(3)
          /\ a4 = 256 * a3 + byte(4)
      BY Zenon DEF a1, a2, a3, a4
    <3>. QED  BY <3>1, <3>2
  <2>2. f = [i \in 0 .. n |-> f[i]]
    OBVIOUS
  <2>. HIDE DEF f
  <2>3. ASSUME NEW i \in 0 .. n PROVE f[i] = IF i = 0 THEN 0 ELSE 256 * f[i - 1] + byte(i)
    <3>1. i = 0 \/ i = 1 \/ (n >= 2 /\ i = 2) \/ (n >= 3 /\ i = 3) \/ (n >= 3 /\ i = 4)
      OBVIOUS
    <3>2. CASE i = 0
      BY <2>1, <3>2
    <3>3. CASE i = 1
      <4>1. i # 0 /\ i - 1 = 0
        BY <3>3
      <4>. QED  BY <2>1, <3>3, <4>1
    <3>4. CASE n >= 2 /\ i = 2
      <4>1. i # 0 /\ i - 1 = 1
        BY <3>4
      <4>. QED  BY <2>1, <3>4, <4>1
    <3>5. CASE n >= 3 /\ i = 3
      <4>1. i # 0 /\ i - 1 = 2
        BY <3>5
      <4>. QED  BY <2>1, <3>5, <4>1
    <3>6. CASE n >= 3 /\ i = 4
      <4>1. i # 0 /\ i - 1 = 3
        BY <3>6
      <4>. QED  BY <2>1, <3>6, <4>1
    <3>. QED  BY <3>1, <3>2, <3>3, <3>4, <3>5, <3>6
  <2>4. f = body(f)
    BY <2>2, <2>3 DEF byte
  <2>. QED  BY <2>4
<1>3. value = body(value)
  BY <1>2
<1>. HIDE DEF value
<1>4. IsValue(value, b, p, n)
  <2>1. value[0] = 0
    BY <1>3
  <2>2. ASSUME NEW i \in 1 .. n PROVE value[i] = 256 * value[i - 1] + At(b, p + i - 1)
    <3>1. i \in 0 .. n /\ i # 0
      OBVIOUS
    <3>. QED  BY <1>3, <3>1
  <2>. QED  BY <2>1, <2>2 DEF IsValue
<1>. QED  BY <1>1, <1>4

\* The number that n bytes make.
BytesMake(v, c, n) ==
    v = IF n = 1 THEN c[1] ELSE IF n = 2 THEN 256 * c[1] + c[2]
        ELSE 256 * (256 * (256 * c[1] + c[2]) + c[3]) + c[4]

\* Number of bytes that make v is v.
LEMMA NumberOfBytes ==
    ASSUME NEW b, NEW p \in Nat, NEW n \in {1, 2, 4}, NEW c \in [1 .. n -> Nat],
           \A i \in 1 .. n : At(b, p + i - 1) = c[i]
    PROVE  BytesMake(Number(b, p, n), c, n)
<1>1. PICK f : IsValue(f, b, p, n) /\ Number(b, p, n) = f[n]
  BY NumberIsValue
<1>2. f[0] = 0 /\ \A i \in 1 .. n : f[i] = 256 * f[i - 1] + c[i]
  BY <1>1, Zenon DEF IsValue
<1>3. 1 - 1 = 0 /\ 2 - 1 = 1 /\ 3 - 1 = 2 /\ 4 - 1 = 3
  OBVIOUS
<1>4. 1 \in 1 .. n /\ c[1] \in Nat /\ f[1] = 256 * f[0] + c[1]
  BY <1>2, <1>3
<1>5. f[1] = c[1]
  BY <1>2, <1>4
<1>6. n >= 2 => c[2] \in Nat /\ f[2] = 256 * f[1] + c[2]
  <2>1. n >= 2 => 2 \in 1 .. n
    OBVIOUS
  <2>. QED  BY <1>2, <1>3, <2>1
<1>7. n = 4 => c[3] \in Nat /\ f[3] = 256 * f[2] + c[3]
  <2>1. n = 4 => 3 \in 1 .. n
    OBVIOUS
  <2>. QED  BY <1>2, <1>3, <2>1
<1>8. n = 4 => c[4] \in Nat /\ f[4] = 256 * f[3] + c[4]
  <2>1. n = 4 => 4 \in 1 .. n
    OBVIOUS
  <2>. QED  BY <1>2, <1>3, <2>1
<1>9. CASE n = 1
  BY <1>1, <1>5, <1>9 DEF BytesMake
<1>10. CASE n = 2
  BY <1>1, <1>5, <1>6, <1>10 DEF BytesMake
<1>11. CASE n = 4
  BY <1>1, <1>5, <1>6, <1>7, <1>8, <1>11 DEF BytesMake
<1>. QED  BY <1>9, <1>10, <1>11

\* A number below 256 ^ n is what its n bytes make.
LEMMA Divided ==
    ASSUME NEW v \in Nat
    PROVE  \E q \in Nat, r \in Nat : q = v \div 256 /\ r = v % 256 /\ r < 256 /\ v = 256 * q + r
<1>1. v \div 256 \in Nat /\ v % 256 \in 0 .. 255
  BY SMT
<1>2. PICK q \in Nat : q = v \div 256
  BY <1>1, Zenon
<1>3. PICK r \in 0 .. 255 : r = v % 256
  BY <1>1, Zenon
<1>4. r \in Nat /\ r < 256
  BY SMT
<1>5. v = 256 * q + r
  BY <1>2, <1>3, <1>4, SMT
<1>. QED  BY <1>2, <1>3, <1>4, <1>5

\* Two bytes that Written makes of v make v.
LEMMA TwoBytes ==
    ASSUME NEW v \in Nat, v < 65536, NEW a \in Nat, a = (v \div 256) % 256, NEW b \in Nat, b = v % 256
    PROVE  256 * a + b = v
<1>1. PICK q \in Nat, r \in Nat : q = v \div 256 /\ r = v % 256 /\ r < 256 /\ v = 256 * q + r
  BY Divided, SMT
<1>2. q % 256 = q
  BY <1>1, SMT
<1>3. a = q /\ b = r
  BY <1>1, <1>2, SMT
<1>. QED  BY <1>1, <1>3, SMT

\* Four bytes that Written makes of v make v.
LEMMA FourBytes ==
    ASSUME NEW v \in Nat, v < 4294967296,
           NEW a \in Nat, a = (v \div 16777216) % 256, NEW b \in Nat, b = (v \div 65536) % 256,
           NEW c \in Nat, c = (v \div 256) % 256, NEW d \in Nat, d = v % 256
    PROVE  256 * (256 * (256 * a + b) + c) + d = v
<1>1. PICK q \in Nat, r \in Nat : q = v \div 256 /\ r = v % 256 /\ r < 256 /\ v = 256 * q + r
  BY Divided, SMT
<1>2. PICK s \in Nat, t \in Nat : s = q \div 256 /\ t = q % 256 /\ t < 256 /\ q = 256 * s + t
  BY Divided, SMT
<1>3. PICK x \in Nat, y \in Nat : x = s \div 256 /\ y = s % 256 /\ y < 256 /\ s = 256 * x + y
  BY Divided, SMT
<1>4. s = v \div 65536
  BY <1>1, <1>2, SMT
<1>5. x = v \div 16777216
  BY <1>3, <1>4, SMT
<1>6. x % 256 = x
  BY <1>1, <1>2, <1>3, SMT
<1>7. a = x /\ b = y /\ c = t /\ d = r
  BY <1>1, <1>2, <1>3, <1>4, <1>5, <1>6, SMT
<1>. QED  BY <1>1, <1>2, <1>3, <1>7, SMT

\* What is read from bytes is a natural number.
LEMMA NumberIsNat ==
    ASSUME NEW b \in Seq(0 .. 255), NEW p \in Nat, NEW n \in {1, 2, 4}, p + n <= Len(b)
    PROVE  Number(b, p, n) \in Nat
<1> DEFINE c == [i \in 1 .. n |-> At(b, p + i - 1)]
<1>1. ASSUME NEW i \in 1 .. n PROVE At(b, p + i - 1) \in Nat
  <2>1. p + i - 1 + 1 \in 1 .. Len(b)
    OBVIOUS
  <2>2. b[p + i - 1 + 1] \in 0 .. 255
    BY <2>1, ElementOfSeq
  <2>3. At(b, p + i - 1) \in 0 .. 255
    BY <2>2, Zenon DEF At
  <2>4. \A x \in 0 .. 255 : x \in Nat
    OBVIOUS
  <2>. QED  BY <2>3, <2>4, Zenon
<1>2. c \in [1 .. n -> Nat] /\ \A i \in 1 .. n : At(b, p + i - 1) = c[i]
  BY <1>1
<1>. HIDE DEF c
<1>3. BytesMake(Number(b, p, n), c, n)
  BY <1>2, NumberOfBytes
<1>4. c[1] \in Nat /\ (n >= 2 => c[2] \in Nat) /\ (n = 4 => c[3] \in Nat /\ c[4] \in Nat)
  BY <1>2
<1> DEFINE c1 == c[1]
           c2 == c[2]
           c3 == c[3]
           c4 == c[4]
<1>5. Number(b, p, n) = IF n = 1 THEN c1 ELSE IF n = 2 THEN 256 * c1 + c2
                        ELSE 256 * (256 * (256 * c1 + c2) + c3) + c4
  BY <1>3 DEF BytesMake
<1>6. c1 \in Nat /\ (n >= 2 => c2 \in Nat) /\ (n = 4 => c3 \in Nat /\ c4 \in Nat)
  BY <1>4
<1>. HIDE DEF c1, c2, c3, c4
<1>7. n = 1 \/ n = 2 \/ n = 4
  OBVIOUS
<1>. QED  BY <1>5, <1>6, <1>7

\* A number that fits is read as it was written.
LEMMA NumberIsWritten ==
    ASSUME NEW b, NEW p \in Nat, NEW n \in {1, 2, 4}, NEW v \in Nat, v < 256 ^ n,
           \A j \in 1 .. n : b[p + j] = Written(v, n)[j]
    PROVE  Number(b, p, n) = v
<1> DEFINE c == Written(v, n)
           P(k) == 256 ^ k
<1>0. /\ P(0) = 1 /\ P(1) = 256 /\ P(2) = 65536 /\ P(3) = 16777216 /\ P(4) = 4294967296
      /\ v \div 1 = v
  BY SMT
<1>1. /\ c = [i \in 1 .. n |-> (v \div P(n - i)) % 256]
      /\ v < P(n)
  BY SMT DEF Written
<1>. HIDE DEF P, c
<1>2. ASSUME NEW i \in 1 .. n
      PROVE  At(b, p + i - 1) = c[i] /\ c[i] = (v \div P(n - i)) % 256 /\ c[i] \in Nat
  <2>1. p + i - 1 + 1 = p + i
    OBVIOUS
  <2>2. At(b, p + i - 1) = c[i]
    BY <2>1 DEF At, c
  <2>3. c[i] = (v \div P(n - i)) % 256
    BY <1>1
  <2> DEFINE d == P(n - i)
             w == v \div d
  <2>4. d \in Nat /\ d > 0
    <3>1. n - i = 0 \/ n - i = 1 \/ n - i = 2 \/ n - i = 3
      BY SMT
    <3>. QED  BY <1>0, <3>1, SMT
  <2>. HIDE DEF d
  <2>5. w \in Nat
    BY <2>4, SMT
  <2>. HIDE DEF w
  <2>6. w % 256 \in Nat
    BY <2>5, SMT
  <2>. QED  BY <2>2, <2>3, <2>6, SMT DEF w, d
<1>3. BytesMake(Number(b, p, n), c, n)
  <2>1. c \in [1 .. n -> Nat]
    <3>1. c = [i \in 1 .. n |-> c[i]]
      BY <1>1
    <3>. QED  BY <1>2, <3>1
  <2>2. p \in Nat /\ n \in {1, 2, 4} /\ \A i \in 1 .. n : At(b, p + i - 1) = c[i]
    BY <1>2
  <2>. QED  BY ONLY <2>1, <2>2, NumberOfBytes
<1>4. CASE n = 1
  <2>1. 1 \in 1 .. n /\ n - 1 = 0
    BY <1>4
  <2>2. c[1] = v % 256 /\ v < 256
    BY <1>0, <1>1, <1>2, <1>4, <2>1, SMT
  <2>. QED  BY <1>3, <1>4, <2>2, SMT DEF BytesMake
<1>5. CASE n = 2
  <2>1. 1 \in 1 .. n /\ n - 1 = 1 /\ 2 \in 1 .. n /\ n - 2 = 0
    BY <1>5
  <2>2. c[1] = (v \div 256) % 256 /\ c[1] \in Nat /\ c[2] = v % 256 /\ c[2] \in Nat
    BY <1>0, <1>2, <2>1, SMT
  <2>3. v < 65536
    BY <1>0, <1>1, <1>5, SMT
  <2>4. 256 * c[1] + c[2] = v
    BY <2>2, <2>3, TwoBytes, SMT
  <2>. QED  BY <1>3, <1>5, <2>4, SMT DEF BytesMake
<1>6. CASE n = 4
  <2>1. /\ 1 \in 1 .. n /\ n - 1 = 3 /\ 2 \in 1 .. n /\ n - 2 = 2
        /\ 3 \in 1 .. n /\ n - 3 = 1 /\ 4 \in 1 .. n /\ n - 4 = 0
    BY <1>6
  <2>2. /\ c[1] = (v \div 16777216) % 256 /\ c[1] \in Nat
        /\ c[2] = (v \div 65536) % 256 /\ c[2] \in Nat
        /\ c[3] = (v \div 256) % 256 /\ c[3] \in Nat
        /\ c[4] = v % 256 /\ c[4] \in Nat
    BY <1>0, <1>2, <2>1, SMT
  <2>3. v < 4294967296
    BY <1>0, <1>1, <1>6, SMT
  <2>4. 256 * (256 * (256 * c[1] + c[2]) + c[3]) + c[4] = v
    BY <2>2, <2>3, FourBytes, SMT
  <2>. QED  BY <1>3, <1>6, <2>4, SMT DEF BytesMake
<1>. QED  BY <1>4, <1>5, <1>6

\* Where the bytes of nal are, they are the slice.
LEMMA SliceIs ==
    ASSUME NEW b \in Seq(0 .. 255), NEW nal \in Seq(0 .. 255), NEW at \in Nat, NEW to \in Nat,
           to = at + Len(nal), to <= Len(b), nal # <<>>,
           \A j \in 1 .. Len(nal) : b[at + j] = nal[j]
    PROVE  Slice(b, at, to) = nal
<1> DEFINE u == SubSeq(b, at + 1, to)
           n == Len(nal)
<1>1. n \in Nat /\ n > 0
  OBVIOUS
<1>2. /\ at + 1 \in Int /\ to \in Int /\ at + 1 <= to /\ to - (at + 1) + 1 = n
      /\ \A j \in 1 .. n : at + 1 + j - 1 = at + j
  BY <1>1
<1>3. \A k \in at + 1 .. to : b[k] \in 0 .. 255
  <2>1. \A k \in at + 1 .. to : k \in 1 .. Len(b)
    BY <1>1
  <2>. QED  BY <2>1, ElementOfSeq
<1>4. LET v == SubSeq(b, at + 1, to)
      IN /\ v \in Seq(0 .. 255)
         /\ Len(v) = IF at + 1 <= to THEN to - (at + 1) + 1 ELSE 0
         /\ \A j \in 1 .. to - (at + 1) + 1 : v[j] = b[at + 1 + j - 1]
  BY <1>2, <1>3, SubSeqProperties
<1>. HIDE DEF u
<1>5. u \in Seq(0 .. 255) /\ Len(u) = n /\ \A j \in 1 .. n : u[j] = nal[j]
  BY <1>2, <1>4 DEF u
<1>6. u = nal
  <2>1. nal \in Seq(0 .. 255) /\ Len(u) = Len(nal) /\ \A j \in 1 .. Len(nal) : u[j] = nal[j]
    BY <1>5
  <2>. QED  BY ONLY <1>5, <2>1, SeqEqual
<1>. QED  BY <1>6 DEF u, Slice

\* A function that takes one element after the other returns all of them.
LEMMA WalkedThrough ==
    ASSUME NEW T, NEW rs \in Seq(T), NEW f, NEW e,
           \A i \in 1 .. Len(rs) : f[e[i - 1]] = <<rs[i]>> \o f[e[i]], f[e[Len(rs)]] = <<>>
    PROVE  f[e[0]] = rs
<1> DEFINE n == Len(rs)
           N == {k \in Nat : k <= n => f[e[n - k]] = SubSeq(rs, n - k + 1, n)}
<1>1. n \in Nat
  OBVIOUS
<1>2. 0 \in N
  <2>1. n - 0 = n /\ SubSeq(rs, n - 0 + 1, n) = <<>>
    BY <1>1
  <2>2. f[e[n]] = <<>>
    OBVIOUS
  <2>. HIDE DEF n
  <2>. QED  BY <1>1, <2>1, <2>2
<1>3. ASSUME NEW k \in Nat, k \in N PROVE k + 1 \in N
  <2>. SUFFICES ASSUME k + 1 <= n
                PROVE  f[e[n - (k + 1)]] = SubSeq(rs, n - (k + 1) + 1, n)
    <3>. HIDE DEF n
    <3>. QED  BY <1>1
  <2>1. PICK i \in Nat : i = n - k
    <3>1. n - k \in Nat
      BY <1>1
    <3>. QED  BY <3>1, Zenon
  <2>2. i \in 1 .. n /\ i - 1 = n - (k + 1) /\ n - (k + 1) + 1 = i /\ n - k + 1 = i + 1
    BY <1>1, <2>1
  <2>3. f[e[i]] = SubSeq(rs, i + 1, n)
    BY <1>1, <1>3, <2>1, <2>2
  <2>4. SubSeq(rs, i, n) = <<rs[i]>> \o SubSeq(rs, i + 1, n)
    BY <1>1, <2>2
  <2>5. f[e[i - 1]] = <<rs[i]>> \o f[e[i]]
    BY <2>2
  <2>. HIDE DEF n
  <2>. QED  BY <2>2, <2>3, <2>4, <2>5
<1>. HIDE DEF N
<1>4. f[e[0]] = SubSeq(rs, 1, n)
  <2>1. n \in N
    BY <1>1, <1>2, <1>3, NatSetInduction
  <2>2. n <= n /\ n - n = 0 /\ n - n + 1 = 1
    BY <1>1
  <2>. HIDE DEF n
  <2>. QED  BY <2>1, <2>2 DEF N
<1>5. SubSeq(rs, 1, n) = rs
  OBVIOUS
<1>. QED  BY <1>4, <1>5

\* What the walk over a packet takes at p.
UnitAt(b, n, p) ==
    LET start == p + n
        next  == start + Number(b, p, n)
    IN [nal |-> Slice(b, start, next), type |-> UnitType(At(b, start)), next |-> next]
EndsAt(b, n, p) == p + n > Len(b) \/ p + n + Number(b, p, n) > Len(b)

\* UnitsWithin takes one unit after the other.
LEMMA WithinWalks ==
    ASSUME NEW b \in Seq(0 .. 255), NEW n \in {1, 2, 4}
    PROVE  \E f : /\ UnitsWithin(b, n) = f[0]
                  /\ \A p \in 0 .. Len(b) :
                        f[p] = IF EndsAt(b, n, p) THEN <<>>
                               ELSE <<UnitAt(b, n, p)>> \o f[UnitAt(b, n, p).next]
<1> DEFINE end     == Len(b)
           start   == [p \in 0 .. end |-> IF EndsAt(b, n, p) THEN end ELSE end + 1]
           next    == [p \in 0 .. end |-> UnitAt(b, n, p).next]
           piece   == [p \in 0 .. end |-> <<UnitAt(b, n, p)>>]
           body(f) == [p \in 0 .. end |->
                         LET from == p + n
                             to   == from + Number(b, p, n)
                         IN IF from > end \/ to > end THEN <<>>
                            ELSE <<[nal |-> Slice(b, from, to), type |-> UnitType(At(b, from)),
                                    next |-> to]>> \o f[to]]
           units   == CHOOSE f : f = body(f)
<1>1. end \in Nat
  OBVIOUS
<1>2. ASSUME NEW p \in 0 .. end
      PROVE  /\ start[p] = end <=> EndsAt(b, n, p)
             /\ next[p] = UnitAt(b, n, p).next
             /\ piece[p] = <<UnitAt(b, n, p)>>
  BY <1>1
<1>. HIDE DEF start, next, piece
<1>3. ASSUME NEW p \in 0 .. end, start[p] # end PROVE next[p] \in p + 1 .. end
  <2>1. ~EndsAt(b, n, p) /\ next[p] = UnitAt(b, n, p).next
    BY <1>2, <1>3
  <2>2. UnitAt(b, n, p).next = p + n + Number(b, p, n)
    BY DEF UnitAt
  <2>3. p + n <= end /\ p \in Nat
    BY <1>1, <2>1 DEF EndsAt
  <2>4. Number(b, p, n) \in Nat
    BY <2>3, NumberIsNat
  <2> DEFINE v == Number(b, p, n)
  <2>5. ~(p + n + v > end) /\ next[p] = p + n + v /\ v \in Nat
    BY <2>1, <2>2, <2>4 DEF EndsAt
  <2>. HIDE DEF v
  <2>. QED  BY <1>1, <2>3, <2>5
<1>4. \E f : IsDescent(f, end, start, next, piece)
  <2>1. \A p \in 0 .. end : start[p] # end => next[p] \in p + 1 .. end
    BY <1>3
  <2>. HIDE DEF end
  <2>. QED  BY ONLY <1>1, <2>1, DescentExists
<1>5. ASSUME NEW f, IsDescent(f, end, start, next, piece) PROVE f = body(f)
  <2>1. f = [p \in 0 .. end |-> IF start[p] = end THEN <<>> ELSE piece[p] \o f[next[p]]]
    BY <1>5 DEF IsDescent
  <2>2. ASSUME NEW p \in 0 .. end
        PROVE  (IF start[p] = end THEN <<>> ELSE piece[p] \o f[next[p]])
                 = LET from == p + n
                       to   == from + Number(b, p, n)
                   IN IF from > end \/ to > end THEN <<>>
                      ELSE <<[nal |-> Slice(b, from, to), type |-> UnitType(At(b, from)),
                              next |-> to]>> \o f[to]
    <3>1. (IF start[p] = end THEN <<>> ELSE piece[p] \o f[next[p]])
             = IF EndsAt(b, n, p) THEN <<>> ELSE <<UnitAt(b, n, p)>> \o f[UnitAt(b, n, p).next]
      BY <1>2
    <3>2. UnitAt(b, n, p).next = p + n + Number(b, p, n)
      BY DEF UnitAt
    <3>. QED  BY <3>1, <3>2 DEF UnitAt, EndsAt
  <2>3. body(f) = [p \in 0 .. end |->
                     IF start[p] = end THEN <<>> ELSE piece[p] \o f[next[p]]]
    BY <2>2
  <2>. QED  BY <2>1, <2>3, Zenon
<1>6. units = body(units)
  <2>1. \E f : f = body(f)
    BY <1>4, <1>5
  <2>. QED  BY <2>1
<1>7. UnitsWithin(b, n) = units[0]
  BY DEF UnitsWithin
<1>. HIDE DEF units
<1>8. ASSUME NEW p \in 0 .. end
      PROVE  units[p] = IF EndsAt(b, n, p) THEN <<>>
                        ELSE <<UnitAt(b, n, p)>> \o units[UnitAt(b, n, p).next]
  <2>1. units[p] = body(units)[p]
    BY <1>6
  <2>2. UnitAt(b, n, p).next = p + n + Number(b, p, n)
    BY DEF UnitAt
  <2>. QED  BY <2>1, <2>2 DEF UnitAt, EndsAt
<1>. QED  BY <1>7, <1>8

Taken(nal, to) == [nal |-> nal, type |-> UnitType(nal[1]), next |-> to]

\* The bytes of nal are in c from from + n to to, behind their number.
IsHeld(c, n, from, nal, to) ==
    /\ c \in Seq(0 .. 255) /\ n \in {1, 2, 4} /\ from \in Nat
    /\ nal \in Seq(0 .. 255) /\ nal # <<>> /\ Len(nal) < 256 ^ n
    /\ to = from + n + Len(nal) /\ to <= Len(c)
    /\ \A j \in 1 .. n : c[from + j] = Written(Len(nal), n)[j]
    /\ \A j \in 1 .. Len(nal) : c[from + n + j] = nal[j]

\* A unit behind its length is taken.
LEMMA UnitIsTaken ==
    ASSUME NEW c, NEW n, NEW from, NEW nal, NEW to, IsHeld(c, n, from, nal, to)
    PROVE  ~EndsAt(c, n, from) /\ UnitAt(c, n, from) = Taken(nal, to)
<1> DEFINE v == Len(nal)
           at == from + n
<1>0. /\ c \in Seq(0 .. 255) /\ n \in {1, 2, 4} /\ from \in Nat
      /\ nal \in Seq(0 .. 255) /\ nal # <<>> /\ Len(nal) < 256 ^ n
      /\ to = from + n + Len(nal) /\ to <= Len(c)
      /\ \A j \in 1 .. n : c[from + j] = Written(Len(nal), n)[j]
      /\ \A j \in 1 .. Len(nal) : c[from + n + j] = nal[j]
  BY Zenon DEF IsHeld
<1>1. v \in Nat /\ v > 0 /\ at \in Nat /\ to \in Nat /\ to = at + v /\ Len(c) \in Nat
  BY <1>0
<1>2. Number(c, from, n) = v
  <2>1. /\ v \in Nat /\ from \in Nat /\ n \in {1, 2, 4} /\ v < 256 ^ n
        /\ \A j \in 1 .. n : c[from + j] = Written(v, n)[j]
    BY <1>0, <1>1
  <2>. HIDE DEF v
  <2>. QED  BY ONLY <2>1, NumberIsWritten, Zenon
<1>3. ~EndsAt(c, n, from)
  BY <1>0, <1>1, <1>2 DEF EndsAt
<1>4. Slice(c, at, to) = nal
  <2>1. \A j \in 1 .. Len(nal) : c[at + j] = nal[j]
    BY <1>0
  <2>. HIDE DEF at
  <2>. QED  BY <1>0, <1>1, <2>1, SliceIs
<1>5. At(c, at) = nal[1]
  <2>1. 1 \in 1 .. Len(nal) /\ from + n + 1 = at + 1
    BY <1>0, <1>1
  <2>2. c[from + n + 1] = nal[1]
    BY <1>0, <2>1
  <2>. QED  BY <2>2 DEF At
<1>6. UnitAt(c, n, from) = [nal |-> Slice(c, at, to), type |-> UnitType(At(c, at)), next |-> to]
  <2>1. from + n + Number(c, from, n) = to
    BY <1>0, <1>1, <1>2
  <2>. QED  BY <2>1 DEF UnitAt
<1>. QED  BY <1>3, <1>4, <1>5, <1>6 DEF Taken

\* b consists of the units, each behind its length: unit i ends at e[i].
IsPrefixed(b, nals, n, e) ==
    /\ b \in Seq(0 .. 255)
    /\ e \in [0 .. Len(nals) -> Nat] /\ e[0] = 0 /\ Len(b) = e[Len(nals)]
    /\ \A i \in 1 .. Len(nals) :
          /\ e[i] = e[i - 1] + n + Len(nals[i])
          /\ \A j \in 1 .. n : b[e[i - 1] + j] = Written(Len(nals[i]), n)[j]
          /\ \A j \in 1 .. Len(nals[i]) : b[e[i - 1] + n + j] = nals[i][j]

\* Written gives bytes.
LEMMA WrittenIsBytes ==
    ASSUME NEW v \in Nat, NEW n \in {1, 2, 4}
    PROVE  Written(v, n) \in Seq(0 .. 255) /\ Len(Written(v, n)) = n
<1> DEFINE P(k) == 256 ^ k
           w == Written(v, n)
<1>0. P(0) = 1 /\ P(1) = 256 /\ P(2) = 65536 /\ P(3) = 16777216
  BY SMT
<1>1. w = [i \in 1 .. n |-> (v \div P(n - i)) % 256]
  BY SMT DEF Written
<1>. HIDE DEF P, w
<1>2. ASSUME NEW i \in 1 .. n PROVE w[i] \in 0 .. 255
  <2>1. w[i] = (v \div P(n - i)) % 256
    BY <1>1, SMT
  <2> DEFINE d == P(n - i)
             x == v \div d
  <2>2. d \in Nat /\ d > 0
    <3>1. n - i = 0 \/ n - i = 1 \/ n - i = 2 \/ n - i = 3
      BY SMT
    <3>. QED  BY <1>0, <3>1, SMT
  <2>. HIDE DEF d
  <2>3. x \in Nat
    BY <2>2, SMT
  <2>. HIDE DEF x
  <2>4. x % 256 \in 0 .. 255
    BY <2>3, SMT
  <2>. QED  BY <2>1, <2>4, SMT DEF x, d
<1>3. w \in [1 .. n -> 0 .. 255] /\ n \in Nat
  BY <1>1, <1>2
<1>4. w \in Seq(0 .. 255)
  BY <1>3, IsSeq
<1>5. Len(w) = n
  BY <1>3, <1>4
<1>. QED  BY <1>4, <1>5 DEF w

\* LengthPrefixed puts each unit behind its length.
LEMMA UnitsArePrefixed ==
    ASSUME NEW nals \in Seq(Seq(0 .. 255)), NEW n \in {1, 2, 4}
    PROVE  \E e : IsPrefixed(LengthPrefixed(nals, n), nals, n, e)
<1> DEFINE size(i) == Written(Len(nals[i]), n)
           part    == [i \in DOMAIN nals |-> size(i) \o nals[i]]
           m       == Len(nals)
           b       == LengthPrefixed(nals, n)
<1>0. m \in Nat /\ DOMAIN nals = 1 .. m
  OBVIOUS
<1>1. ASSUME NEW i \in 1 .. m
      PROVE  /\ part[i] \in Seq(0 .. 255) /\ Len(nals[i]) \in Nat
             /\ Len(part[i]) = n + Len(nals[i])
             /\ \A j \in 1 .. n : part[i][j] = size(i)[j]
             /\ \A j \in 1 .. Len(nals[i]) : part[i][n + j] = nals[i][j]
  <2>1. nals[i] \in Seq(0 .. 255) /\ Len(nals[i]) \in Nat
    OBVIOUS
  <2>2. part[i] = size(i) \o nals[i]
    BY <1>0, Zenon
  <2>3. size(i) \in Seq(0 .. 255) /\ Len(size(i)) = n
    BY <2>1, WrittenIsBytes, ZenonT(40)
  <2> DEFINE w == size(i)
             u == nals[i]
  <2>. HIDE DEF w, u, size, part
  <2>4. /\ w \in Seq(0 .. 255) /\ u \in Seq(0 .. 255) /\ Len(w) = n /\ part[i] = w \o u
    BY <2>1, <2>2, <2>3 DEF w, u
  <2>5. /\ w \o u \in Seq(0 .. 255) /\ Len(w \o u) = Len(w) + Len(u)
        /\ \A j \in 1 .. Len(w) : (w \o u)[j] = w[j]
        /\ \A j \in 1 .. Len(u) : (w \o u)[Len(w) + j] = u[j]
    BY <2>4, Joined, SMTT(40)
  <2>. QED  BY <2>1, <2>4, <2>5 DEF w, u
<1>2. part \in Seq(Seq(0 .. 255)) /\ Len(part) = m
  <2>1. part = [i \in 1 .. m |-> part[i]]
    BY <1>0
  <2>. HIDE DEF part, m
  <2>2. part \in [1 .. m -> Seq(0 .. 255)]
    BY <1>1, <2>1
  <2>3. part \in Seq(Seq(0 .. 255))
    BY <1>0, <2>2, IsSeq, Zenon
  <2>4. DOMAIN part = 1 .. m /\ DOMAIN part = 1 .. Len(part) /\ Len(part) \in Nat
    BY <2>2, <2>3, LenProperties
  <2>. QED  BY <1>0, <2>3, <2>4
<1>3. b = FlattenSeq(part)
  BY DEF LengthPrefixed
<1>. HIDE DEF part, b, size
<1>4. FlattenSeq(part) \in Seq(0 .. 255) /\ \E e : Consists(FlattenSeq(part), part, e)
  BY <1>2, PartsInOrder
<1>5. PICK e : Consists(b, part, e)
  BY <1>3, <1>4
<1>6. /\ e \in [0 .. m -> Nat] /\ e[0] = 0 /\ b \in Seq(0 .. 255) /\ Len(b) = e[m]
  BY <1>2, <1>3, <1>4, <1>5 DEF Consists
<1>7. ASSUME NEW i \in 1 .. m
      PROVE  /\ e[i] = e[i - 1] + n + Len(nals[i])
             /\ \A j \in 1 .. n : b[e[i - 1] + j] = Written(Len(nals[i]), n)[j]
             /\ \A j \in 1 .. Len(nals[i]) : b[e[i - 1] + n + j] = nals[i][j]
  <2> DEFINE from == e[i - 1]
             len  == Len(nals[i])
             u    == part[i]
  <2>1. from \in Nat
    <3>1. i - 1 \in 0 .. m
      BY <1>0
    <3>. HIDE DEF m
    <3>. QED  BY <1>6, <3>1
  <2>2. e[i] = from + Len(u) /\ \A j \in 1 .. Len(u) : b[from + j] = u[j]
    BY <1>2, <1>5 DEF Consists
  <2>3. /\ Len(u) = n + len /\ len \in Nat
        /\ \A j \in 1 .. n : u[j] = Written(len, n)[j]
        /\ \A j \in 1 .. len : u[n + j] = nals[i][j]
    BY <1>1 DEF size
  <2>. HIDE DEF from, len, u
  <2>4. e[i] = from + n + len
    BY <2>1, <2>2, <2>3
  <2>5. ASSUME NEW j \in 1 .. n PROVE b[from + j] = Written(len, n)[j]
    <3>1. j \in 1 .. Len(u)
      BY <2>3
    <3>. QED  BY <2>2, <2>3, <3>1
  <2>6. ASSUME NEW j \in 1 .. len PROVE b[from + n + j] = nals[i][j]
    <3>0. n \in Nat /\ j \in Nat /\ from + (n + j) = from + n + j
      BY <2>1, <2>3, SMTT(40)
    <3>1. n + j \in 1 .. Len(u) /\ from + (n + j) = from + n + j
      BY <2>3, <3>0
    <3>2. b[from + (n + j)] = u[n + j]
      BY <2>2, <3>1
    <3>. QED  BY <2>3, <3>1, <3>2
  <2>. QED  BY <2>4, <2>5, <2>6 DEF from, len
<1>8. IsPrefixed(b, nals, n, e)
  BY <1>6, <1>7 DEF IsPrefixed
<1>. QED  BY <1>8 DEF b

\* No unit ends beyond the data.
LEMMA PrefixedWithin ==
    ASSUME NEW b, NEW nals \in Seq(Seq(0 .. 255)), NEW n \in {1, 2, 4}, NEW e,
           IsPrefixed(b, nals, n, e), NEW k \in 0 .. Len(nals), NEW i \in 0 .. k
    PROVE  e[i] \in Nat /\ e[k] \in Nat /\ e[i] <= e[k]
<1> DEFINE m == Len(nals)
           N == {d \in Nat : i + d <= m => e[i] <= e[i + d]}
<1>1. m \in Nat /\ e \in [0 .. m -> Nat] /\ i \in Nat /\ k \in Nat /\ i \in 0 .. m
  BY DEF IsPrefixed
<1>2. \A j \in 1 .. m : e[j] = e[j - 1] + n + Len(nals[j]) /\ Len(nals[j]) \in Nat
  <2>1. \A j \in 1 .. m : e[j] = e[j - 1] + n + Len(nals[j])
    BY DEF IsPrefixed
  <2>2. \A j \in 1 .. m : Len(nals[j]) \in Nat
    <3>. SUFFICES ASSUME NEW j \in 1 .. m PROVE Len(nals[j]) \in Nat
      OBVIOUS
    <3>1. nals[j] \in Seq(0 .. 255)
      OBVIOUS
    <3>. QED  BY <3>1
  <2>. QED  BY <2>1, <2>2
<1>. HIDE DEF m
<1>3. 0 \in N
  <2>1. i + 0 = i /\ e[i] <= e[i]
    BY <1>1
  <2>. QED  BY <2>1
<1>4. ASSUME NEW d \in Nat, d \in N PROVE d + 1 \in N
  <2>. SUFFICES ASSUME i + (d + 1) <= m PROVE e[i] <= e[i + (d + 1)]
    OBVIOUS
  <2> DEFINE j == i + (d + 1)
  <2>1. j \in 1 .. m /\ j - 1 = i + d /\ i + d <= m /\ i + d \in 0 .. m
    BY <1>1
  <2>2. e[i] <= e[i + d]
    BY <1>4, <2>1
  <2>. HIDE DEF j
  <2>3. e[j] = e[j - 1] + n + Len(nals[j]) /\ Len(nals[j]) \in Nat
    BY <1>2, <2>1
  <2> DEFINE l == Len(nals[j])
             x == e[j - 1]
  <2>4. e[j] = x + n + l /\ l \in Nat /\ x \in Nat /\ e[i] \in Nat /\ e[i] <= x
    BY <1>1, <2>1, <2>2, <2>3
  <2>. HIDE DEF l, x
  <2>5. e[i] <= e[j]
    BY <2>4
  <2>. QED  BY <2>5 DEF j
<1>5. PICK d \in Nat : d = k - i
  <2>1. k - i \in Nat
    BY <1>1
  <2>. QED  BY <2>1, Zenon
<1>6. d \in N /\ i + d = k /\ k <= m
  <2>1. Nat \subseteq N
    <3>. HIDE DEF N
    <3>. QED  BY <1>3, <1>4, NatSetInduction
  <2>2. i + d = k /\ k <= m
    BY <1>1, <1>5 DEF m
  <2>. QED  BY <2>1, <2>2
<1>7. e[k] \in Nat /\ e[i] \in Nat
  <2>1. k \in 0 .. m
    BY <1>1, <1>6
  <2>. QED  BY <1>1, <2>1
<1>. QED  BY <1>6, <1>7

\* c is the beginning of b and ends within unit k + 1, or behind the last unit.
IsBeginning(c, k, b, nals, n, e) ==
    /\ nals \in Seq(Seq(0 .. 255)) /\ n \in {1, 2, 4} /\ IsPrefixed(b, nals, n, e)
    /\ \A i \in DOMAIN nals : nals[i] # <<>> /\ Len(nals[i]) < 256 ^ n
    /\ c \in Seq(0 .. 255) /\ Len(c) <= Len(b) /\ \A j \in 1 .. Len(c) : c[j] = b[j]
    /\ k \in 0 .. Len(nals) /\ e[k] <= Len(c)
    /\ k = Len(nals) \/ Len(c) < e[k + 1]

\* The first k units are taken.
LEMMA FirstUnitsAreTaken ==
    ASSUME NEW c, NEW k, NEW b, NEW nals, NEW n, NEW e, IsBeginning(c, k, b, nals, n, e)
    PROVE  UnitsWithin(c, n) = [i \in 1 .. k |-> Taken(nals[i], e[i])]
<1> SUFFICES ASSUME nals \in Seq(Seq(0 .. 255)), n \in {1, 2, 4}, IsPrefixed(b, nals, n, e),
                    \A i \in DOMAIN nals : nals[i] # <<>> /\ Len(nals[i]) < 256 ^ n,
                    c \in Seq(0 .. 255), Len(c) <= Len(b), \A j \in 1 .. Len(c) : c[j] = b[j],
                    k \in 0 .. Len(nals), e[k] <= Len(c), k = Len(nals) \/ Len(c) < e[k + 1]
             PROVE  UnitsWithin(c, n) = [i \in 1 .. k |-> Taken(nals[i], e[i])]
  BY Zenon DEF IsBeginning
<1> DEFINE m == Len(nals)
           l == Len(c)
           R == {Taken(nals[i], e[i]) : i \in 1 .. k}
           rs == [i \in 1 .. k |-> Taken(nals[i], e[i])]
<1>0. \A i \in 1 .. m : nals[i] # <<>> /\ Len(nals[i]) < 256 ^ n
  <2>1. DOMAIN nals = 1 .. m
    OBVIOUS
  <2>. QED  BY <2>1
<1>1. /\ m \in Nat /\ k \in Nat /\ k <= m /\ l \in Nat
      /\ k = m \/ l < e[k + 1]
      /\ e[k] <= l
  OBVIOUS
<1>. HIDE DEF l
<1>2. PICK f : /\ UnitsWithin(c, n) = f[0]
               /\ \A p \in 0 .. Len(c) :
                     f[p] = IF EndsAt(c, n, p) THEN <<>>
                            ELSE <<UnitAt(c, n, p)>> \o f[UnitAt(c, n, p).next]
  BY WithinWalks
<1>3. e[0] = 0 /\ Len(b) = e[m]
  BY DEF IsPrefixed
<1>4. ASSUME NEW i \in 1 .. m
      PROVE  /\ e[i] = e[i - 1] + n + Len(nals[i])
             /\ \A j \in 1 .. n : b[e[i - 1] + j] = Written(Len(nals[i]), n)[j]
             /\ \A j \in 1 .. Len(nals[i]) : b[e[i - 1] + n + j] = nals[i][j]
             /\ e[i - 1] \in Nat /\ e[i] \in Nat
             /\ nals[i] \in Seq(0 .. 255) /\ nals[i] # <<>> /\ Len(nals[i]) < 256 ^ n
             /\ Len(nals[i]) \in Nat
  <2>1. /\ e[i] = e[i - 1] + n + Len(nals[i])
        /\ \A j \in 1 .. n : b[e[i - 1] + j] = Written(Len(nals[i]), n)[j]
        /\ \A j \in 1 .. Len(nals[i]) : b[e[i - 1] + n + j] = nals[i][j]
    BY Zenon DEF IsPrefixed
  <2>2. nals[i] \in Seq(0 .. 255) /\ Len(nals[i]) \in Nat
    OBVIOUS
  <2>3. nals[i] # <<>> /\ Len(nals[i]) < 256 ^ n
    BY <1>0
  <2>4. e \in [0 .. m -> Nat]
    BY DEF IsPrefixed
  <2>5. i \in 0 .. m /\ i - 1 \in 0 .. m
    <3>. HIDE DEF m
    <3>. QED  BY <1>1
  <2>. HIDE DEF m
  <2>. QED  BY <2>1, <2>2, <2>3, <2>4, <2>5
<1>5. ASSUME NEW i \in 1 .. k
      PROVE  f[e[i - 1]] = <<Taken(nals[i], e[i])>> \o f[e[i]]
  <2> DEFINE from == e[i - 1]
             to   == e[i]
             nal  == nals[i]
  <2>1. i \in 1 .. m
    <3>. HIDE DEF m
    <3>. QED  BY <1>1
  <2>2. /\ from \in Nat /\ to \in Nat /\ nal \in Seq(0 .. 255) /\ nal # <<>>
        /\ Len(nal) < 256 ^ n /\ Len(nal) \in Nat /\ to = from + n + Len(nal)
        /\ \A j \in 1 .. n : b[from + j] = Written(Len(nal), n)[j]
        /\ \A j \in 1 .. Len(nal) : b[from + n + j] = nal[j]
    BY <1>4, <2>1
  <2>3. to <= l
    <3>1. i \in 0 .. k
      BY <1>1
    <3>2. e[i] <= e[k] /\ e[k] \in Nat
      BY <3>1, PrefixedWithin, ZenonT(40)
    <3> DEFINE last == e[k]
    <3>3. last <= l /\ to <= last /\ last \in Nat
      BY <1>1, <3>2
    <3>. HIDE DEF last, to
    <3>. QED  BY <1>1, <2>2, <3>3
  <2>. HIDE DEF from, to, nal
  <2>4. ASSUME NEW j \in 1 .. n PROVE c[from + j] = Written(Len(nal), n)[j]
    <3>1. from + j \in 1 .. Len(c)
      <4> DEFINE v == Len(nal)
      <4>1. v \in Nat /\ l \in Nat /\ to = from + n + v /\ to <= l /\ from \in Nat
        BY <1>1, <2>2, <2>3
      <4>. HIDE DEF v
      <4>2. from + j \in 1 .. l
        BY <4>1
      <4>. QED  BY <4>2 DEF l
    <3>. QED  BY <2>2, <3>1
  <2>5. ASSUME NEW j \in 1 .. Len(nal) PROVE c[from + n + j] = nal[j]
    <3>1. from + n + j \in 1 .. Len(c)
      <4> DEFINE v == Len(nal)
      <4>1. v \in Nat /\ l \in Nat /\ to = from + n + v /\ to <= l /\ from \in Nat /\ j \in 1 .. v
        BY <1>1, <2>2, <2>3
      <4>. HIDE DEF v
      <4>2. from + n + j \in 1 .. l
        BY <4>1
      <4>. QED  BY <4>2 DEF l
    <3>. QED  BY <2>2, <3>1
  <2>6. ~EndsAt(c, n, from) /\ UnitAt(c, n, from) = Taken(nal, to)
    <3>1. /\ c \in Seq(0 .. 255) /\ n \in {1, 2, 4} /\ from \in Nat
          /\ nal \in Seq(0 .. 255) /\ nal # <<>> /\ Len(nal) < 256 ^ n
          /\ to = from + n + Len(nal) /\ to <= Len(c)
      BY <2>2, <2>3 DEF l
    <3>2. /\ \A j \in 1 .. n : c[from + j] = Written(Len(nal), n)[j]
          /\ \A j \in 1 .. Len(nal) : c[from + n + j] = nal[j]
      BY <2>4, <2>5
    <3>3. IsHeld(c, n, from, nal, to)
      BY <3>1, <3>2, Zenon DEF IsHeld
    <3>. QED  BY ONLY <3>3, UnitIsTaken
  <2>7. from \in 0 .. Len(c)
    <3> DEFINE v == Len(nal)
    <3>1. v \in Nat /\ l \in Nat /\ to = from + n + v /\ to <= l /\ from \in Nat
      BY <1>1, <2>2, <2>3
    <3>. HIDE DEF v
    <3>2. from \in 0 .. l
      BY <3>1
    <3>. QED  BY <3>2 DEF l
  <2>8. Taken(nal, to).next = to
    BY DEF Taken
  <2>9. f[from] = <<Taken(nal, to)>> \o f[to]
    <3>1. f[from] = IF EndsAt(c, n, from) THEN <<>>
                    ELSE <<UnitAt(c, n, from)>> \o f[UnitAt(c, n, from).next]
      BY <1>2, <2>7
    <3>. QED  BY <2>6, <2>8, <3>1
  <2>. QED  BY <2>9 DEF from, to, nal
<1>6. f[e[k]] = <<>>
  <2> DEFINE from == e[k]
  <2>1. from \in Nat /\ from \in 0 .. l
    <3>0. k \in Nat
      BY <1>1
    <3>1. k \in 0 .. k
      BY <3>0
    <3>2. from \in Nat /\ from <= l
      BY <1>1, <3>1, PrefixedWithin, ZenonT(40)
    <3>. HIDE DEF from
    <3>. QED  BY <1>1, <3>2
  <2>2. EndsAt(c, n, from)
    <3>0. EndsAt(c, n, from) <=> from + n > l \/ from + n + Number(c, from, n) > l
      BY DEF EndsAt, l
    <3>1. CASE k = m
      <4>1. l = from
        <5>1. Len(c) <= Len(b) /\ Len(b) = from
          BY <1>3, <3>1
        <5>2. l <= from
          BY <5>1 DEF l
        <5>. HIDE DEF from
        <5>. QED  BY <1>1, <2>1, <5>2
      <4>. HIDE DEF from
      <4>2. from + n > l
        BY <2>1, <4>1
      <4>. QED  BY <3>0, <4>2
    <3>2. CASE k # m /\ from + n <= l
      <4> DEFINE i   == k + 1
                 nal == nals[i]
                 v   == Len(nal)
      <4>1. i \in 1 .. m /\ i - 1 = k
        <5>. HIDE DEF m
        <5>. QED  BY <1>1, <3>2
      <4>. HIDE DEF i
      <4>2. /\ e[i] = from + n + v /\ v \in Nat /\ v < 256 ^ n
            /\ \A j \in 1 .. n : b[from + j] = Written(v, n)[j]
        BY <1>4, <4>1, SMTT(40)
      <4>3. l < e[i]
        BY <1>1, <3>2 DEF i
      <4>. HIDE DEF nal, v, from
      <4>4. ASSUME NEW j \in 1 .. n PROVE c[from + j] = Written(v, n)[j]
        <5>1. from + j \in 1 .. l
          BY <1>1, <2>1, <3>2, SMTT(40)
        <5>2. c[from + j] = b[from + j]
          BY <5>1 DEF l
        <5>. QED  BY <4>2, <5>2
      <4>5. Number(c, from, n) = v
        <5>1. n \in {1, 2, 4}
          OBVIOUS
        <5>. QED  BY ONLY <2>1, <4>2, <4>4, <5>1, NumberIsWritten, ZenonT(40)
      <4>6. from + n + Number(c, from, n) > l
        <5> DEFINE to == e[i]
        <5>1. to = from + n + v /\ l < to
          BY <4>2, <4>3
        <5>. HIDE DEF to
        <5>. QED  BY <1>1, <2>1, <4>2, <4>5, <5>1
      <4>. QED  BY <3>0, <4>6
    <3>3. CASE ~(from + n <= l)
      <4>1. from + n > l
        <5>. HIDE DEF from
        <5>. QED  BY <1>1, <2>1, <3>3
      <4>. QED  BY <3>0, <4>1
    <3>. QED  BY <3>1, <3>2, <3>3
  <2>3. f[from] = IF EndsAt(c, n, from) THEN <<>>
                  ELSE <<UnitAt(c, n, from)>> \o f[UnitAt(c, n, from).next]
    <3>1. from \in 0 .. Len(c)
      BY <2>1 DEF l
    <3>. HIDE DEF from
    <3>. QED  BY <1>2, <3>1
  <2>. QED  BY <2>2, <2>3
<1>7. rs \in [1 .. k -> R]
  OBVIOUS
<1>8. rs \in Seq(R) /\ Len(rs) = k /\ \A i \in 1 .. k : rs[i] = Taken(nals[i], e[i])
  <2>1. \A i \in 1 .. k : rs[i] = Taken(nals[i], e[i])
    OBVIOUS
  <2>. HIDE DEF rs, R
  <2>2. rs \in Seq(R)
    BY <1>1, <1>7, IsSeq, Zenon
  <2>3. DOMAIN rs = 1 .. k /\ DOMAIN rs = 1 .. Len(rs) /\ Len(rs) \in Nat
    BY <1>7, <2>2, LenProperties
  <2>4. k \in Nat
    BY <1>1
  <2>5. Len(rs) = k
    <3> DEFINE q == Len(rs)
    <3>1. 1 .. k = 1 .. q /\ q \in Nat
      BY <2>3
    <3>. HIDE DEF q
    <3>2. q = k
      BY <2>4, <3>1
    <3>. QED  BY <3>2 DEF q
  <2>. QED  BY <2>1, <2>2, <2>5
<1>. HIDE DEF rs, R
<1>9. f[e[0]] = rs
  <2>1. \A i \in 1 .. Len(rs) : f[e[i - 1]] = <<rs[i]>> \o f[e[i]]
    BY <1>5, <1>8
  <2>2. f[e[Len(rs)]] = <<>> /\ rs \in Seq(R)
    BY <1>6, <1>8
  <2>. QED  BY ONLY <2>1, <2>2, WalkedThrough, Zenon
<1>. QED  BY <1>2, <1>3, <1>9 DEF rs

\* A length that the check of IsConforming lets through fits.
LEMMA LengthFits ==
    ASSUME NEW n \in {1, 2, 4}, NEW v \in Nat, v \div (256 ^ (n - 1)) < 256
    PROVE  v < 256 ^ n
<1> DEFINE P(k) == 256 ^ k
<1>0. /\ P(0) = 1 /\ P(1) = 256 /\ P(2) = 65536 /\ P(3) = 16777216 /\ P(4) = 4294967296
      /\ v \div 1 = v
  BY SMT
<1>1. v \div P(n - 1) < 256
  BY SMT
<1>. HIDE DEF P
<1>2. CASE n = 1
  <2>1. n - 1 = 0
    BY <1>2, SMT
  <2>2. v < P(n)
    BY <1>0, <1>1, <1>2, <2>1, SMT
  <2>. QED  BY <2>2, SMT DEF P
<1>3. CASE n = 2
  <2>1. n - 1 = 1
    BY <1>3, SMT
  <2>2. v \div 256 < 256
    BY <1>0, <1>1, <2>1, SMT
  <2>3. v < 65536
    BY <2>2, SMT
  <2>4. v < P(n)
    BY <1>0, <1>3, <2>3, SMT
  <2>. QED  BY <2>4, SMT DEF P
<1>4. CASE n = 4
  <2>1. n - 1 = 3
    BY <1>4, SMT
  <2>2. v \div 16777216 < 256
    BY <1>0, <1>1, <2>1, SMT
  <2>3. v < 4294967296
    BY <2>2, SMT
  <2>4. v < P(n)
    BY <1>0, <1>4, <2>3, SMT
  <2>. QED  BY <2>4, SMT DEF P
<1>. QED  BY <1>2, <1>3, <1>4

\* What IsConforming says of a packet with lengths of n bytes.
Conforms(p, n) ==
    /\ p.nals \in Seq(Seq(0 .. 255)) /\ p.cut \in Nat
    /\ \A i \in DOMAIN p.nals : IsPlain(p.nals[i]) /\ p.nals[i] # <<>> /\ Len(p.nals[i]) < 256 ^ n
    /\ p.cut # 0 => p.nals # <<>> /\ p.cut < n + Len(Last(p.nals))

\* The first h elements.
LEMMA PrefixIs ==
    ASSUME NEW T, NEW s \in Seq(T), NEW h \in Nat, h <= Len(s)
    PROVE  /\ SubSeq(s, 1, h) \in Seq(T) /\ Len(SubSeq(s, 1, h)) = h
           /\ \A j \in 1 .. h : SubSeq(s, 1, h)[j] = s[j]
OBVIOUS

\* Of a packet that is not cut all units are taken, and a cut is noticed.
IsPacketOf(c, p, n) ==
    /\ n \in {1, 2, 4} /\ Conforms(p, n)
    /\ LET b == LengthPrefixed(p.nals, n) IN c = SubSeq(b, 1, Len(b) - p.cut)
    /\ ~IsCut(c, n)

LEMMA UnitsOfPacket ==
    ASSUME NEW p, NEW n, NEW c, IsPacketOf(c, p, n)
    PROVE  /\ Len(UnitsWithin(c, n)) = Len(p.nals)
           /\ \A i \in 1 .. Len(p.nals) :
                 /\ UnitsWithin(c, n)[i].nal = p.nals[i]
                 /\ UnitsWithin(c, n)[i].type = UnitType(p.nals[i][1])
<1> SUFFICES ASSUME n \in {1, 2, 4}, Conforms(p, n),
                    LET b == LengthPrefixed(p.nals, n) IN c = SubSeq(b, 1, Len(b) - p.cut),
                    ~IsCut(c, n)
             PROVE  /\ Len(UnitsWithin(c, n)) = Len(p.nals)
                    /\ \A i \in 1 .. Len(p.nals) :
                          /\ UnitsWithin(c, n)[i].nal = p.nals[i]
                          /\ UnitsWithin(c, n)[i].type = UnitType(p.nals[i][1])
  BY Zenon DEF IsPacketOf
<1> DEFINE nals == p.nals
           cut  == p.cut
           b    == LengthPrefixed(nals, n)
           m    == Len(nals)
           l    == Len(b)
<1>1. /\ nals \in Seq(Seq(0 .. 255)) /\ cut \in Nat
      /\ \A i \in DOMAIN nals : nals[i] # <<>> /\ Len(nals[i]) < 256 ^ n
      /\ cut # 0 => nals # <<>> /\ cut < n + Len(Last(nals))
  BY DEF Conforms
<1>2. PICK e : IsPrefixed(b, nals, n, e)
  BY <1>1, UnitsArePrefixed
<1>3. m \in Nat /\ DOMAIN nals = 1 .. m
  BY <1>1
<1>4. /\ b \in Seq(0 .. 255) /\ e \in [0 .. m -> Nat] /\ e[0] = 0 /\ l = e[m]
      /\ \A i \in 1 .. m : e[i] = e[i - 1] + n + Len(nals[i])
  BY <1>2, Zenon DEF IsPrefixed
<1>5. c = SubSeq(b, 1, l - cut)
  BY Zenon
<1>. HIDE DEF b
<1>6. l \in Nat
  BY <1>4
<1>. HIDE DEF nals, cut, m, l
<1>7. ASSUME NEW k \in 0 .. m, NEW h \in Nat, h = l - cut, e[k] <= h, k = m \/ h < e[k + 1]
      PROVE  UnitsWithin(c, n) = [i \in 1 .. k |-> Taken(nals[i], e[i])] /\ Len(c) = h
  <2>1. /\ c \in Seq(0 .. 255) /\ Len(c) = h /\ \A j \in 1 .. h : c[j] = b[j]
    <3>0. h <= l
      BY <1>1, <1>6, <1>7
    <3>1. c = SubSeq(b, 1, h)
      BY <1>5, <1>7
    <3>2. b \in Seq(0 .. 255) /\ h \in Nat /\ h <= Len(b)
      BY <1>4, <3>0 DEF l
    <3>3. /\ SubSeq(b, 1, h) \in Seq(0 .. 255) /\ Len(SubSeq(b, 1, h)) = h
          /\ \A j \in 1 .. h : SubSeq(b, 1, h)[j] = b[j]
      BY ONLY <3>2, PrefixIs
    <3>. QED  BY <3>1, <3>3
  <2>2. Len(c) <= Len(b)
    BY <1>1, <1>6, <1>7, <2>1 DEF l
  <2>3. \A j \in 1 .. Len(c) : c[j] = b[j]
    BY <2>1
  <2>4. k \in 0 .. Len(nals) /\ e[k] <= Len(c) /\ (k = Len(nals) \/ Len(c) < e[k + 1])
    BY <1>7, <2>1 DEF m
  <2>5. UnitsWithin(c, n) = [i \in 1 .. k |-> Taken(nals[i], e[i])]
    <3>1. /\ nals \in Seq(Seq(0 .. 255)) /\ n \in {1, 2, 4} /\ c \in Seq(0 .. 255)
          /\ \A i \in DOMAIN nals : nals[i] # <<>> /\ Len(nals[i]) < 256 ^ n
      BY <1>1, <2>1
    <3>2. IsBeginning(c, k, b, nals, n, e)
      BY <1>2, <2>2, <2>3, <2>4, <3>1, Zenon DEF IsBeginning
    <3>. QED  BY ONLY <3>2, FirstUnitsAreTaken
  <2>. QED  BY <2>1, <2>5
<1>8. CASE cut = 0
  <2>1. m \in 0 .. m /\ l - cut = l /\ e[m] <= l
    BY <1>3, <1>4, <1>6, <1>8
  <2>2. UnitsWithin(c, n) = [i \in 1 .. m |-> Taken(nals[i], e[i])]
    BY <1>6, <1>7, <2>1
  <2> DEFINE units == UnitsWithin(c, n)
  <2>. HIDE DEF units
  <2>3. units = [i \in 1 .. m |-> Taken(nals[i], e[i])]
    BY <2>2 DEF units
  <2>4. Len(units) = m
    BY <1>3, <2>3
  <2>5. \A i \in 1 .. m : units[i].nal = nals[i] /\ units[i].type = UnitType(nals[i][1])
    BY <2>3 DEF Taken
  <2>. QED  BY <2>4, <2>5 DEF units, m, nals
<1>9. CASE cut # 0
  <2>1. m > 0 /\ Last(nals) = nals[m] /\ cut < n + Len(nals[m])
    BY <1>1, <1>3, <1>9 DEF Last, m
  <2>2. PICK k \in Nat : k = m - 1
    <3>1. m - 1 \in Nat
      BY <1>3, <2>1
    <3>. QED  BY <3>1, Zenon
  <2>3. k \in 0 .. m /\ k + 1 = m /\ m \in 1 .. m /\ m - 1 = k /\ m \in 0 .. m /\ k # m
    BY <1>3, <2>1, <2>2
  <2> DEFINE from == e[k]
             v    == Len(nals[m])
  <2>4. from \in Nat /\ l = from + n + v /\ v \in Nat /\ cut < n + v
    <3>1. nals[m] \in Seq(0 .. 255)
      BY <1>1, <1>3, <2>3
    <3>2. e[k] \in Nat /\ Len(nals[m]) \in Nat
      <4>1. e \in [0 .. m -> Nat] /\ k \in 0 .. m
        BY <1>4, <2>3
      <4>2. e[k] \in Nat
        BY ONLY <4>1
      <4>. QED  BY <3>1, <4>2
    <3>3. e[m] = e[m - 1] + n + Len(nals[m])
      BY <1>4, <2>3
    <3>. QED  BY <1>4, <2>1, <2>3, <3>2, <3>3
  <2>. HIDE DEF v
  <2>5. PICK h \in Nat : h = l - cut
    <3>1. l - cut \in Nat
      <4>. HIDE DEF from
      <4>. QED  BY <1>1, <1>6, <2>4
    <3>. QED  BY <3>1, Zenon
  <2>6. from < h /\ h < l
    <3>. HIDE DEF from
    <3>. QED  BY <1>1, <1>6, <1>9, <2>4, <2>5
  <2>7. e[k] <= h /\ h < e[k + 1]
    <3>1. from <= h
      <4>. HIDE DEF from
      <4>. QED  BY <2>4, <2>6
    <3>. QED  BY <1>4, <2>3, <2>6, <3>1
  <2>8. UnitsWithin(c, n) = [i \in 1 .. k |-> Taken(nals[i], e[i])] /\ Len(c) = h
    BY <1>7, <2>3, <2>5, <2>7
  <2> DEFINE units == UnitsWithin(c, n)
  <2>9. units # <<>> /\ Last(units).next = h
    BY <2>8 DEF IsCut
  <2>. HIDE DEF units
  <2>10. units = [i \in 1 .. k |-> Taken(nals[i], e[i])]
    BY <2>8 DEF units
  <2>11. Len(units) = k
    BY <2>10
  <2>12. k # 0
    <3>. SUFFICES ASSUME k = 0 PROVE FALSE
      OBVIOUS
    <3>1. 1 .. k = {}
      OBVIOUS
    <3>2. units = <<>>
      BY <2>10, <3>1
    <3>. QED  BY <2>9, <3>2
  <2>13. Last(units) = Taken(nals[k], e[k])
    <3>1. k \in 1 .. k
      BY <2>12
    <3>. QED  BY <2>10, <2>11, <3>1 DEF Last
  <2>14. Last(units).next = from
    BY <2>13 DEF Taken
  <2>. HIDE DEF from
  <2>. QED  BY <2>4, <2>6, <2>9, <2>14
<1>. QED  BY <1>8, <1>9

\* Over a sequence and one more, what is made of each is one more as well.
LEMMA GotGrows ==
    ASSUME NEW T, NEW q \in Seq(T), NEW x,
           NEW U, [k \in DOMAIN q |-> SplitAtCodes(q[k])] \in Seq(U), SplitAtCodes(x) \in U
    PROVE  LET r == Append(q, x)
           IN [k \in DOMAIN r |-> SplitAtCodes(r[k])]
                 = Append([k \in DOMAIN q |-> SplitAtCodes(q[k])], SplitAtCodes(x))
<1> DEFINE r == Append(q, x)
           n == Len(q)
           s == [k \in DOMAIN q |-> SplitAtCodes(q[k])]
           y == SplitAtCodes(x)
<1>1. /\ DOMAIN q = 1 .. n /\ n \in Nat /\ DOMAIN r = 1 .. n + 1
      /\ \A k \in 1 .. n : r[k] = q[k]
      /\ r[n + 1] = x
  BY Appended
<1>2. s \in Seq(U) /\ y \in U
  OBVIOUS
<1>3. DOMAIN s = 1 .. n /\ \A k \in 1 .. n : s[k] = SplitAtCodes(q[k])
  BY <1>1
<1>. HIDE DEF r, n, s, y
<1>4. Len(s) = n
  <2> DEFINE l == Len(s)
  <2>1. 1 .. n = 1 .. l /\ l \in Nat
    BY <1>2, <1>3, LenProperties
  <2>. HIDE DEF l
  <2>2. l = n
    BY <1>1, <2>1
  <2>. QED  BY <2>2 DEF l
<1>5. Append(s, y) = [k \in 1 .. n + 1 |-> IF k = n + 1 THEN y ELSE s[k]]
  BY <1>2, <1>4, AppendIsFunction
<1>6. ASSUME NEW k \in 1 .. n + 1 PROVE SplitAtCodes(r[k]) = IF k = n + 1 THEN y ELSE s[k]
  <2>1. k # n + 1 => k \in 1 .. n
    BY <1>1
  <2>. QED  BY <1>1, <1>3, <2>1 DEF y
<1>7. [k \in DOMAIN r |-> SplitAtCodes(r[k])] = Append(s, y)
  BY <1>1, <1>5, <1>6
<1>. QED  BY <1>7 DEF r, s, y

\* The same of the packets and their units.
LEMMA FedGrows ==
    ASSUME NEW T, NEW q \in Seq(T), NEW x,
           NEW U, [k \in DOMAIN q |-> q[k].nals] \in Seq(U), x.nals \in U
    PROVE  LET r == Append(q, x)
           IN [k \in DOMAIN r |-> r[k].nals] = Append([k \in DOMAIN q |-> q[k].nals], x.nals)
<1> DEFINE r == Append(q, x)
           n == Len(q)
           s == [k \in DOMAIN q |-> q[k].nals]
           y == x.nals
<1>1. /\ DOMAIN q = 1 .. n /\ n \in Nat /\ DOMAIN r = 1 .. n + 1
      /\ \A k \in 1 .. n : r[k] = q[k]
      /\ r[n + 1] = x
  BY Appended
<1>2. s \in Seq(U) /\ y \in U
  OBVIOUS
<1>3. DOMAIN s = 1 .. n /\ \A k \in 1 .. n : s[k] = q[k].nals
  BY <1>1
<1>. HIDE DEF r, n, s, y
<1>4. Len(s) = n
  <2> DEFINE l == Len(s)
  <2>1. 1 .. n = 1 .. l /\ l \in Nat
    BY <1>2, <1>3, LenProperties
  <2>. HIDE DEF l
  <2>2. l = n
    BY <1>1, <2>1
  <2>. QED  BY <2>2 DEF l
<1>5. Append(s, y) = [k \in 1 .. n + 1 |-> IF k = n + 1 THEN y ELSE s[k]]
  BY <1>2, <1>4, AppendIsFunction
<1>6. ASSUME NEW k \in 1 .. n + 1 PROVE r[k].nals = IF k = n + 1 THEN y ELSE s[k]
  <2>1. k # n + 1 => k \in 1 .. n
    BY <1>1
  <2>. QED  BY <1>1, <1>3, <2>1 DEF y
<1>7. [k \in DOMAIN r |-> r[k].nals] = Append(s, y)
  BY <1>1, <1>5, <1>6
<1>. QED  BY <1>7 DEF r, s, y

\* The units of all packets, and what the client got of all of them.
AllFed == FlattenSeq([k \in DOMAIN fed |-> fed[k].nals])
AllGot == FlattenSeq([k \in DOMAIN got |-> SplitAtCodes(got[k])])

\* A converter to start codes was opened with the parameter sets of avcC, and has given the
\* client what a decoder of Annex B needs.
KeptInv ==
    /\ FoundInv
    /\ pc = "new" => threeToFour = FALSE
    /\ bitstream =>
          /\ threeToFour = FALSE /\ bytestream = FALSE
          /\ stream.extra[1] = 1 /\ Len(stream.extra) >= 7
          /\ ParameterSets(stream.extra).ok
          /\ context = [lengthSize |-> (stream.extra[5] % 4) + 1, firstIdr |-> context.firstIdr,
                        params |-> ParameterSets(stream.extra).out]
          /\ context.firstIdr <=> FirstIdr(AllFed)
          /\ [k \in DOMAIN fed |-> fed[k].nals] \in Seq(Seq(Seq(0 .. 255)))
          /\ [k \in DOMAIN got |-> SplitAtCodes(got[k])] \in Seq(Seq(Seq(0 .. 255)))
          /\ AllGot = WithSets(AllFed, context.params)

\* A converter to start codes has lengths of one, two or four bytes and plain parameter sets.
LEMMA ConverterConforms ==
    ASSUME stream \in Streams, IsConforming(stream), stream.extra[1] = 1, Len(stream.extra) >= 7,
           ParameterSets(stream.extra).ok
    PROVE  LET n    == (stream.extra[5] % 4) + 1
               sets == SplitAtCodes(ParameterSets(stream.extra).out)
           IN /\ n \in {1, 2, 4}
              /\ sets \in Seq(Seq(0 .. 255)) /\ ParameterSets(stream.extra).out = SetsCoded(sets)
              /\ \A i \in DOMAIN sets : IsPlain(sets[i])
              /\ \A p \in stream.packets : Conforms(p, n)
<1> DEFINE x    == stream.extra
           n    == (x[5] % 4) + 1
           sets == SplitAtCodes(ParameterSets(x).out)
<1>1. x \in Seq(0 .. 255) /\ 5 \in 1 .. Len(x)
  BY BitstreamAssumption
<1>2. x[5] \in 0 .. 255
  <2>. HIDE DEF x
  <2>. QED  BY <1>1, ElementOfSeq
<1>3. x[5] % 4 # 2
  <2>. SUFFICES ASSUME x[5] % 4 = 2 PROVE FALSE
    OBVIOUS
  <2>1. At(x, 4) = x[5]
    BY DEF At
  <2>2. ParameterSets(x) = [ok |-> FALSE, out |-> <<>>]
    <3>1. At(x, 4) % 4 = 2
      BY <2>1
    <3>. HIDE DEF x
    <3>. QED  BY <3>1 DEF ParameterSets
  <2>. QED  BY <2>2
<1>4. n \in {1, 2, 4}
  <2> DEFINE v == x[5]
  <2>1. v \in 0 .. 255 /\ v % 4 # 2
    BY <1>2, <1>3
  <2>. HIDE DEF v
  <2>2. (v % 4) + 1 \in {1, 2, 4}
    <3> DEFINE r == v % 4
    <3>1. r \in 0 .. 3 /\ r # 2
      BY ONLY <2>1
    <3>. HIDE DEF r
    <3>2. r + 1 \in {1, 2, 4}
      BY <3>1
    <3>. QED  BY <3>2 DEF r
  <2>. QED  BY <2>2 DEF v
<1>5. /\ sets \in Seq(Seq(0 .. 255)) /\ ParameterSets(x).out = SetsCoded(sets)
      /\ \A i \in DOMAIN sets : IsPlain(sets[i])
      /\ \A p \in stream.packets :
            /\ \A i \in DOMAIN p.nals :
                  IsPlain(p.nals[i]) /\ Len(p.nals[i]) \div (256 ^ (n - 1)) < 256
            /\ p.cut # 0 => p.nals # <<>> /\ p.cut < n + Len(Last(p.nals))
  BY Zenon DEF IsConforming
<1>6. ASSUME NEW p \in stream.packets PROVE Conforms(p, n)
  <2>1. p.nals \in Seq(Seq(0 .. 255)) /\ p.cut \in Nat
    <3>1. p.nals \in Seq(Seq(0 .. 255) \ {<<>>}) /\ p.cut \in Nat
      BY BitstreamAssumption DEF IsPacket
    <3>. QED  BY <3>1
  <2>2. ASSUME NEW i \in DOMAIN p.nals
        PROVE  IsPlain(p.nals[i]) /\ p.nals[i] # <<>> /\ Len(p.nals[i]) < 256 ^ n
    <3> DEFINE v == Len(p.nals[i])
    <3>1. IsPlain(p.nals[i]) /\ v \div (256 ^ (n - 1)) < 256
      <4>1. \A j \in DOMAIN p.nals :
               IsPlain(p.nals[j]) /\ Len(p.nals[j]) \div (256 ^ (n - 1)) < 256
        <5>. HIDE DEF n, sets, x
        <5>. QED  BY <1>5
      <4>. QED  BY <4>1
    <3>2. v \in Nat
      <4>1. p.nals[i] \in Seq(0 .. 255)
        BY <2>1
      <4>. QED  BY <4>1
    <3>3. p.nals[i] # <<>>
      BY <3>1, Zenon DEF IsPlain
    <3>. HIDE DEF v, n
    <3>4. v < 256 ^ n
      BY ONLY <1>4, <3>1, <3>2, LengthFits, ZenonT(40)
    <3>. QED  BY <3>1, <3>3, <3>4 DEF v
  <2>. HIDE DEF n
  <2>. QED  BY <1>5, <2>1, <2>2, Zenon DEF Conforms
<1>. QED  BY <1>4, <1>5, <1>6, Zenon

\* A packet that is converted: what the client gets of it goes on with what it got before.
LEMMA GivenIsKept ==
    ASSUME KeptInv, IsConforming(stream), bitstream, NEW p \in stream.packets,
           ConvertBitstream(p)
    PROVE  /\ threeToFour' = FALSE
           /\ p.nals \in Seq(Seq(0 .. 255))
           /\ GetConvertBuffer = buffer'
           /\ SplitAtCodes(buffer') \in Seq(Seq(0 .. 255))
           /\ WithSets(AllFed \o p.nals, context.params)
                 = WithSets(AllFed, context.params) \o SplitAtCodes(buffer')
           /\ context' = [lengthSize |-> context.lengthSize, firstIdr |-> context'.firstIdr,
                          params |-> context.params]
           /\ context'.firstIdr <=> FirstIdr(AllFed \o p.nals)
<1> DEFINE x    == stream.extra
           n    == (x[5] % 4) + 1
           read == ParameterSets(x)
           sets == SplitAtCodes(read.out)
           c    == Packet(p)
           done == BitstreamConvert(c, context)
<1>1. /\ stream \in Streams /\ blocks \in Nat
      /\ threeToFour = FALSE /\ x[1] = 1 /\ Len(x) >= 7 /\ read.ok
      /\ context = [lengthSize |-> n, firstIdr |-> context.firstIdr, params |-> read.out]
      /\ context.firstIdr <=> FirstIdr(AllFed)
      /\ [k \in DOMAIN fed |-> fed[k].nals] \in Seq(Seq(Seq(0 .. 255)))
  BY Zenon DEF KeptInv, FoundInv
<1>2. /\ n \in {1, 2, 4}
      /\ sets \in Seq(Seq(0 .. 255)) /\ read.out = SetsCoded(sets)
      /\ \A i \in DOMAIN sets : IsPlain(sets[i])
      /\ Conforms(p, n)
  BY <1>1, ConverterConforms, Zenon
<1>3. /\ ~IsCut(c, context.lengthSize)
      /\ buffer' = done.out /\ context' = [context EXCEPT !.firstIdr = done.first]
      /\ bufferBlock' = blocks + 1 /\ UNCHANGED threeToFour /\ bitstream' = bitstream
  BY DEF ConvertBitstream, Allocated
<1>4. context.lengthSize = n /\ context.params = read.out
  <2>. HIDE DEF n, read
  <2>. QED  BY <1>1
<1>5. LET b == LengthPrefixed(p.nals, n) IN c = SubSeq(b, 1, Len(b) - p.cut)
  BY <1>1, Zenon DEF Packet
<1>. HIDE DEF x, n, read, sets, c, done
<1>6. /\ Len(UnitsWithin(c, n)) = Len(p.nals)
      /\ \A i \in 1 .. Len(p.nals) :
            /\ UnitsWithin(c, n)[i].nal = p.nals[i]
            /\ UnitsWithin(c, n)[i].type = UnitType(p.nals[i][1])
  <2>1. ~IsCut(c, n)
    BY <1>3, <1>4
  <2>2. IsPacketOf(c, p, n)
    BY <1>2, <1>5, <2>1, Zenon DEF IsPacketOf
  <2>. QED  BY ONLY <2>2, UnitsOfPacket
<1>7. p.nals \in Seq(Seq(0 .. 255)) /\ \A i \in DOMAIN p.nals : IsPlain(p.nals[i])
  BY <1>2, Zenon DEF Conforms
<1>8. AllFed \in Seq(Seq(0 .. 255))
  <2> DEFINE s == [k \in DOMAIN fed |-> fed[k].nals]
             T == Seq(0 .. 255)
  <2>1. s \in Seq(Seq(T)) /\ <<>> \in Seq(T)
    BY <1>1
  <2>. HIDE DEF s, T
  <2>2. FlattenSeq(s) \in Seq(T)
    BY ONLY <2>1, FlattenGrows
  <2>. QED  BY <2>2 DEF AllFed, s, T
<1>9. /\ SplitAtCodes(done.out) \in Seq(Seq(0 .. 255))
      /\ WithSets(AllFed \o p.nals, context.params)
            = WithSets(AllFed, context.params) \o SplitAtCodes(done.out)
      /\ done.first <=> FirstIdr(AllFed \o p.nals)
  <2> DEFINE nals == p.nals
             h    == AllFed
             ctx  == context
  <2>1. /\ nals \in Seq(Seq(0 .. 255)) /\ \A i \in DOMAIN nals : IsPlain(nals[i])
        /\ Len(UnitsWithin(c, ctx.lengthSize)) = Len(nals)
        /\ \A i \in 1 .. Len(nals) :
              /\ UnitsWithin(c, ctx.lengthSize)[i].nal = nals[i]
              /\ UnitsWithin(c, ctx.lengthSize)[i].type = UnitType(nals[i][1])
        /\ sets \in Seq(Seq(0 .. 255)) /\ \A i \in DOMAIN sets : IsPlain(sets[i])
        /\ ctx.params = SetsCoded(sets)
        /\ h \in Seq(Seq(0 .. 255)) /\ (ctx.firstIdr <=> FirstIdr(h))
    BY <1>1, <1>2, <1>4, <1>6, <1>7, <1>8
  <2>. HIDE DEF nals, h, ctx
  <2>2. LET after == BitstreamConvert(c, ctx)
        IN /\ SplitAtCodes(after.out) \in Seq(Seq(0 .. 255))
           /\ WithSets(h \o nals, ctx.params) = WithSets(h, ctx.params) \o SplitAtCodes(after.out)
           /\ after.first <=> FirstIdr(h \o nals)
    BY ONLY <2>1, PacketIsConverted, ZenonT(60)
  <2>. QED  BY <2>2 DEF nals, h, ctx, done
<1>10. GetConvertBuffer = buffer'
  BY <1>1, <1>3 DEF GetConvertBuffer
<1>11. context' = [lengthSize |-> context.lengthSize, firstIdr |-> context'.firstIdr,
                   params |-> context.params]
  BY <1>1, <1>3, <1>4
<1>12. context'.firstIdr = done.first
  BY <1>1, <1>3
<1>. QED  BY <1>1, <1>3, <1>7, <1>9, <1>10, <1>11, <1>12

\* No step keeps bitstream but a conversion to start codes and what changes neither of fed,
\* got and context.
LEMMA KeptKept ==
    ASSUME \A s \in Streams : IsConforming(s)
    PROVE  KeptInv /\ [Next]_vars => KeptInv'
<1> SUFFICES ASSUME KeptInv, [Next]_vars PROVE KeptInv'
  OBVIOUS
<1>0. FoundInv /\ FoundInv'
  BY FoundKept DEF KeptInv
<1>1. CASE UNCHANGED <<pc, stream, bitstream, bytestream, threeToFour, context, fed, got>>
  BY <1>0, <1>1 DEF KeptInv, AllFed, AllGot
<1>2. CASE OpenFails \/ OpenAvcc
  <2>1. pc = "new" /\ pc' # "new" /\ bitstream = FALSE
    BY <1>0, <1>2 DEF OpenFails, OpenAvcc, FoundInv
  <2>2. bitstream' = bitstream
    BY <1>2 DEF OpenFails, OpenAvcc
  <2>. QED  BY <1>0, <2>1, <2>2 DEF KeptInv
<1>3. CASE OpenAnnexB
  <2> DEFINE x    == stream.extra
             read == ParameterSets(x)
  <2>1. /\ pc = "new" /\ threeToFour = FALSE /\ bytestream = FALSE
        /\ fed = <<>> /\ got = <<>>
    BY <1>0, <1>3 DEF OpenAnnexB, KeptInv, FoundInv
  <2>2. /\ UNCHANGED <<stream, bytestream, threeToFour, fed, got>> /\ pc' = "open"
        /\ bitstream' = read.ok
        /\ context' = [lengthSize |-> (x[5] % 4) + 1, firstIdr |-> read.ok, params |-> read.out]
        /\ Len(x) >= 7 /\ x[1] = 1
    <3>1. ~Refused(TRUE)
      BY <1>3 DEF OpenAnnexB
    <3>2. ~(Len(x) < 7) /\ x[1] = 1
      BY <3>1 DEF Refused
    <3>3. x \in Seq(0 .. 255)
      BY <1>0, BitstreamAssumption DEF FoundInv
    <3>4. Len(x) >= 7
      <4>. HIDE DEF x
      <4>. QED  BY <3>2, <3>3
    <3>5. /\ UNCHANGED <<stream, bytestream, threeToFour, fed, got>> /\ pc' = "open"
          /\ bitstream' = read.ok
          /\ context' = [lengthSize |-> (x[5] % 4) + 1, firstIdr |-> read.ok, params |-> read.out]
      BY <1>3, Zenon DEF OpenAnnexB
    <3>. QED  BY <3>2, <3>4, <3>5
  <2>3. /\ [k \in DOMAIN fed |-> fed[k].nals] = <<>>
        /\ [k \in DOMAIN got |-> SplitAtCodes(got[k])] = <<>>
    BY <2>1
  <2>4. AllFed' = <<>> /\ AllGot' = <<>>
    <3>1. FlattenSeq(<<>>) = <<>>
      BY DEF FlattenSeq
    <3>2. AllFed' = FlattenSeq([k \in DOMAIN fed |-> fed[k].nals])
          /\ AllGot' = FlattenSeq([k \in DOMAIN got |-> SplitAtCodes(got[k])])
      BY <2>2 DEF AllFed, AllGot
    <3>. QED  BY <2>3, <3>1, <3>2
  <2>5. FirstIdr(<<>>) = TRUE
    <3>1. 1 .. Len(<<>>) = {}
      OBVIOUS
    <3>. QED  BY <3>1 DEF FirstIdr
  <2>6. ASSUME NEW params PROVE WithSets(<<>>, params) = <<>>
    <3>1. DOMAIN <<>> = {}
      OBVIOUS
    <3>2. [i \in DOMAIN <<>> |-> IF NeedsSets(<<>>, i) THEN Append(SplitAtCodes(params), <<>>[i])
                                 ELSE <<<<>>[i]>>] = <<>>
      BY <3>1
    <3>3. FlattenSeq(<<>>) = <<>>
      BY DEF FlattenSeq
    <3>. QED  BY <3>2, <3>3, Zenon DEF WithSets
  <2>. HIDE DEF x, read
  <2>7. context'.firstIdr = read.ok /\ context'.params = read.out
    BY <2>2
  <2>8. bitstream' =>
          /\ threeToFour' = FALSE /\ bytestream' = FALSE
          /\ stream'.extra[1] = 1 /\ Len(stream'.extra) >= 7
          /\ ParameterSets(stream'.extra).ok
          /\ context' = [lengthSize |-> (stream'.extra[5] % 4) + 1, firstIdr |-> context'.firstIdr,
                         params |-> ParameterSets(stream'.extra).out]
          /\ context'.firstIdr <=> FirstIdr(AllFed')
          /\ [k \in DOMAIN fed' |-> fed'[k].nals] \in Seq(Seq(Seq(0 .. 255)))
          /\ [k \in DOMAIN got' |-> SplitAtCodes(got'[k])] \in Seq(Seq(Seq(0 .. 255)))
          /\ AllGot' = WithSets(AllFed', context'.params)
    <3>1. <<>> \in Seq(Seq(Seq(0 .. 255)))
      OBVIOUS
    <3>2. /\ [k \in DOMAIN fed' |-> fed'[k].nals] \in Seq(Seq(Seq(0 .. 255)))
          /\ [k \in DOMAIN got' |-> SplitAtCodes(got'[k])] \in Seq(Seq(Seq(0 .. 255)))
      BY <2>2, <2>3, <3>1
    <3>3. AllGot' = WithSets(AllFed', context'.params)
      BY <2>4, <2>6
    <3>4. bitstream' => (context'.firstIdr <=> FirstIdr(AllFed'))
      BY <2>2, <2>4, <2>5, <2>7
    <3>5. /\ threeToFour' = FALSE /\ bytestream' = FALSE
          /\ stream'.extra[1] = 1 /\ Len(stream'.extra) >= 7
          /\ bitstream' => ParameterSets(stream'.extra).ok
          /\ context' = [lengthSize |-> (stream'.extra[5] % 4) + 1, firstIdr |-> context'.firstIdr,
                         params |-> ParameterSets(stream'.extra).out]
      BY <2>1, <2>2, <2>7 DEF x, read
    <3>. QED  BY <3>2, <3>3, <3>4, <3>5
  <2>. QED  BY <1>0, <2>2, <2>8 DEF KeptInv
<1>4. CASE Close
  <2>1. bitstream' = FALSE /\ pc' # "new"
    BY <1>4 DEF Close, Closed
  <2>. QED  BY <1>0, <2>1 DEF KeptInv
<1>5. CASE ConvertNothing
  <2>1. UNCHANGED <<pc, stream, bitstream, bytestream, threeToFour, context, fed, got>>
    BY <1>5 DEF ConvertNothing, modeVars
  <2>. QED  BY <1>1, <2>1
<1>6. CASE Convert
  <2>1. /\ UNCHANGED <<pc, stream, bytestream>> /\ pc = "open"
    BY <1>6 DEF Convert
  <2>2. PICK p \in stream.packets :
           /\ ConvertBitstream(p) \/ ConvertGivesUp(p) \/ ConvertToLengths(p) \/ PassThrough(p)
           /\ fed' = Append(fed, p) /\ got' = Append(got, GetConvertBuffer)
    BY <1>6 DEF Convert, Give
  <2>3. CASE ~bitstream'
    BY <1>0, <2>1, <2>3 DEF KeptInv
  <2>4. CASE bitstream'
    <3>1. ConvertBitstream(p) /\ bitstream
      <4>1. CASE ConvertGivesUp(p)
        BY <2>4, <4>1 DEF ConvertGivesUp, Closed
      <4>2. CASE PassThrough(p) \/ ConvertToLengths(p)
        <5>1. bitstream' = bitstream
          BY <4>2, Zenon DEF PassThrough, ConvertToLengths
        <5>2. bitstream
          BY <2>4, <5>1, Zenon
        <5>3. threeToFour = FALSE /\ bytestream = FALSE
          BY <5>2, Zenon DEF KeptInv
        <5>. QED  BY <4>2, <5>2, <5>3, Zenon DEF PassThrough, ConvertToLengths
      <4>3. CASE ConvertBitstream(p)
        BY <4>3 DEF ConvertBitstream
      <4>. QED  BY <2>2, <4>1, <4>2, <4>3
    <3>2. IsConforming(stream) /\ stream \in Streams
      BY <1>0 DEF FoundInv
    <3> DEFINE nals == p.nals
               out  == buffer'
               w    == SplitAtCodes(out)
    <3>3. /\ threeToFour' = FALSE
          /\ nals \in Seq(Seq(0 .. 255))
          /\ GetConvertBuffer = out
          /\ w \in Seq(Seq(0 .. 255))
          /\ WithSets(AllFed \o nals, context.params) = WithSets(AllFed, context.params) \o w
          /\ context' = [lengthSize |-> context.lengthSize, firstIdr |-> context'.firstIdr,
                         params |-> context.params]
          /\ context'.firstIdr <=> FirstIdr(AllFed \o nals)
      BY <3>1, <3>2, GivenIsKept
    <3>4. /\ bytestream = FALSE /\ stream.extra[1] = 1 /\ Len(stream.extra) >= 7
          /\ ParameterSets(stream.extra).ok
          /\ context = [lengthSize |-> (stream.extra[5] % 4) + 1, firstIdr |-> context.firstIdr,
                        params |-> ParameterSets(stream.extra).out]
          /\ [k \in DOMAIN fed |-> fed[k].nals] \in Seq(Seq(Seq(0 .. 255)))
          /\ [k \in DOMAIN got |-> SplitAtCodes(got[k])] \in Seq(Seq(Seq(0 .. 255)))
          /\ AllGot = WithSets(AllFed, context.params)
      BY <3>1, Zenon DEF KeptInv
    <3>. HIDE DEF nals, out, w
    <3>5. /\ [k \in DOMAIN fed' |-> fed'[k].nals] = Append([k \in DOMAIN fed |-> fed[k].nals], nals)
          /\ [k \in DOMAIN fed' |-> fed'[k].nals] \in Seq(Seq(Seq(0 .. 255)))
          /\ AllFed' = AllFed \o nals
      <4> DEFINE U == Seq(0 .. 255)
                 V == Seq(U)
                 s == [k \in DOMAIN fed |-> fed[k].nals]
                 r == Append(fed, p)
                 t == [k \in DOMAIN r |-> r[k].nals]
      <4>1. fed \in Seq(stream.packets) /\ s \in Seq(V) /\ nals \in V /\ fed' = r
        BY <1>0, <2>2, <3>3, <3>4 DEF FoundInv
      <4>2. t = Append(s, nals)
        <5>1. fed \in Seq(stream.packets) /\ [k \in DOMAIN fed |-> fed[k].nals] \in Seq(V)
              /\ p.nals \in V
          BY <4>1 DEF nals
        <5>. HIDE DEF V
        <5>2. LET q == Append(fed, p)
              IN [k \in DOMAIN q |-> q[k].nals] = Append([k \in DOMAIN fed |-> fed[k].nals], p.nals)
          BY ONLY <5>1, FedGrows
        <5>. QED  BY <5>2, Zenon DEF nals
      <4>3. [k \in DOMAIN fed' |-> fed'[k].nals] = t
        BY <4>1, Zenon
      <4>4. AllFed' = FlattenSeq(t)
        BY <4>1, Zenon DEF AllFed
      <4>. HIDE DEF U, s, r, t
      <4>5. FlattenSeq(Append(s, nals)) = FlattenSeq(s) \o nals /\ Append(s, nals) \in Seq(Seq(U))
        <5>1. s \in Seq(Seq(U)) /\ nals \in Seq(U)
          BY <4>1
        <5>. QED  BY ONLY <5>1, FlattenGrows
      <4>. QED  BY <4>2, <4>3, <4>4, <4>5 DEF AllFed, s, U
    <3>6. /\ [k \in DOMAIN got' |-> SplitAtCodes(got'[k])] \in Seq(Seq(Seq(0 .. 255)))
          /\ AllGot' = AllGot \o w
      <4> DEFINE U == Seq(0 .. 255)
                 V == Seq(U)
                 s == [k \in DOMAIN got |-> SplitAtCodes(got[k])]
                 r == Append(got, out)
                 t == [k \in DOMAIN r |-> SplitAtCodes(r[k])]
      <4>1. PICK T : got \in Seq(T)
        BY <1>0 DEF FoundInv
      <4>2. s \in Seq(V) /\ w \in V /\ got' = r
        BY <2>2, <3>3, <3>4
      <4>3. t = Append(s, w)
        <5>1. got \in Seq(T) /\ [k \in DOMAIN got |-> SplitAtCodes(got[k])] \in Seq(V)
              /\ SplitAtCodes(out) \in V
          BY <4>1, <4>2 DEF w
        <5>. HIDE DEF V
        <5>2. LET q == Append(got, out)
              IN [k \in DOMAIN q |-> SplitAtCodes(q[k])]
                    = Append([k \in DOMAIN got |-> SplitAtCodes(got[k])], SplitAtCodes(out))
          BY ONLY <5>1, GotGrows
        <5>. QED  BY <5>2, Zenon DEF w
      <4>4. [k \in DOMAIN got' |-> SplitAtCodes(got'[k])] = t
        BY <4>2, Zenon
      <4>5. AllGot' = FlattenSeq(t)
        BY <4>2, Zenon DEF AllGot
      <4>. HIDE DEF U, s, r, t
      <4>6. FlattenSeq(Append(s, w)) = FlattenSeq(s) \o w /\ Append(s, w) \in Seq(Seq(U))
        <5>1. s \in Seq(Seq(U)) /\ w \in Seq(U)
          BY <4>2
        <5>. QED  BY ONLY <5>1, FlattenGrows
      <4>. QED  BY <4>3, <4>4, <4>5, <4>6 DEF AllGot, s, U
    <3>7. context'.params = context.params /\ context'.lengthSize = context.lengthSize
      BY <3>3
    <3>8. AllGot' = WithSets(AllFed', context'.params)
      BY <3>3, <3>4, <3>5, <3>6, <3>7
    <3>9. context'.firstIdr <=> FirstIdr(AllFed')
      BY <3>3, <3>5
    <3>10. context' = [lengthSize |-> (stream'.extra[5] % 4) + 1, firstIdr |-> context'.firstIdr,
                       params |-> ParameterSets(stream'.extra).out]
      BY <2>1, <3>3, <3>4
    <3>. QED  BY <1>0, <2>1, <3>3, <3>4, <3>5, <3>6, <3>8, <3>9, <3>10 DEF KeptInv
  <2>. QED  BY <2>3, <2>4
<1>7. CASE UNCHANGED vars
  <2>1. UNCHANGED <<pc, stream, bitstream, bytestream, threeToFour, context, fed, got>>
    BY <1>7 DEF vars, modeVars, dataVars
  <2>. QED  BY <1>1, <2>1
<1>. QED  BY <1>2, <1>3, <1>4, <1>5, <1>6, <1>7 DEF Next

\* Whatever the packets, the units and their bytes, a reader of Annex B that reads what the
\* client got finds the units of the packets, none missing, cut or joined, with the parameter
\* sets where a decoder needs them; and what the client got from start codes are the units
\* with their lengths.
THEOREM UnitsKept ==
    ASSUME \A s \in Streams : IsConforming(s)
    PROVE  Spec => []UnitsAreKept
<1>1. Init => KeptInv
  <2>. SUFFICES ASSUME Init PROVE KeptInv
    OBVIOUS
  <2>1. \E T : <<>> \in Seq(T)
    BY <<>> \in Seq({})
  <2>. QED  BY <2>1 DEF Init, FoundInv, KeptInv
<1>2. KeptInv /\ [Next]_vars => KeptInv'
  BY KeptKept
<1>3. KeptInv => UnitsAreKept
  <2>. SUFFICES ASSUME KeptInv PROVE UnitsAreKept
    OBVIOUS
  <2>1. bitstream => AllGot = WithSets(AllFed, context.params)
    BY DEF KeptInv
  <2>2. bytestream => \A k \in DOMAIN got : IsFound(fed[k], got[k])
    BY DEF KeptInv, FoundInv
  <2>. QED  BY <2>1, <2>2 DEF UnitsAreKept, AllGot, AllFed, IsFound
<1>. QED  BY <1>1, <1>2, <1>3, PTL DEF Spec
=============================================================================
