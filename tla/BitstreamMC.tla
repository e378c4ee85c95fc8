------------------------------ MODULE BitstreamMC ------------------------------
(***************************************************************************)
(* An instance of Bitstream for TLC, and the algorithms of Bitstream and   *)
(* BitReaders against their definitions over bounded inputs.               *)
(***************************************************************************)
EXTENDS Bitstream, BitReaders

SPS   == <<103, 66, 0, 30>>
PPS   == <<104, 206>>
IDR   == <<101, 7>>
Slice1 == <<65, 0, 3, 9>>
SEI   == <<6>>

Whole(nals) == [nals |-> nals, cut |-> 0, align |-> 0]

\* avcC with the version, profile and lengths given.
AvcC(version, lengths) ==
    <<version, 66, 0, 30, lengths, 225>> \o <<0, 4>> \o SPS \o <<1>> \o <<0, 2>> \o PPS

\* Slices, IDR pictures of two slices, a picture with an SEI, and a cut packet.
Pictures ==
    {Whole(<<Slice1>>), Whole(<<IDR, IDR>>), Whole(<<SEI, IDR>>), Whole(<<IDR, Slice1>>)}
CutPicture == [nals |-> <<SEI, IDR>>, cut |-> 1, align |-> 0]

\* The same with start codes, wherever they are in memory.
Aligned == UNION {{[p EXCEPT !.align = a] : p \in Pictures} : a \in 0 .. 3}

StartCodes == <<0, 0, 0, 1>>

SomeStreams ==
    {[extra |-> AvcC(1, 255), packets |-> Pictures \cup {CutPicture}],
     [extra |-> AvcC(1, 253), packets |-> Pictures],
     [extra |-> AvcC(1, 254), packets |-> Pictures],
     [extra |-> SubSeq(AvcC(1, 255), 1, 16), packets |-> {Whole(<<IDR>>)}],
     [extra |-> StartCodes \o SPS \o StartCodes \o PPS, packets |-> Aligned],
     [extra |-> StartCodes \o SPS, packets |-> {Whole(<<IDR>>)}],
     [extra |-> AvcC(2, 255), packets |-> {Whole(<<IDR>>)}]}

-----------------------------------------------------------------------------

\* The streams are as the standards have them.
ASSUME StreamsConform == \A s \in SomeStreams : IsConforming(s)

\* avc_find_startcode finds the first start code, with the 0 before it, wherever
\* the data begins in memory; one in the last three bytes it does not find.
ASSUME FindsFirstCode ==
    \A n \in 0 .. 9, align \in 0 .. 3 : \A b \in [1 .. n -> {0, 1}] :
       LET codes == {p \in 0 .. n - 4 : StartsAt(b, p)}
           first == Least(codes)
       IN FindStartCode(b, align, 0, n) =
             IF codes = {} THEN n
             ELSE IF first > 0 /\ At(b, first - 1) = 0 THEN first - 1 ELSE first

\* read_bits and get_bits return the n bits at the position, and 0 past the end.
ASSUME BitsAreRead ==
    \A pos \in 0 .. 24, n \in 1 .. 8 :
       LET b    == <<165, 60, 129>>
           bits == FlattenSeq([i \in 1 .. 3 |-> BitsOf(b[i])])
           r    == [pos |-> pos, oflow |-> FALSE]
       IN IF pos + n > 24
       THEN /\ GetBits(b, r, n) = 0
            /\ AfterGetBits(b, r, n) = [r EXCEPT !.oflow = TRUE]
            /\ AfterReadBits(b, r, n) = AfterGetBits(b, r, n)
       ELSE /\ GetBits(b, r, n) = NalRead(bits, pos, n)
            /\ AfterReadBits(b, r, n) = [pos |-> pos + n, oflow |-> FALSE]
            /\ AfterSkipBits(b, r, n) = AfterReadBits(b, r, n)
            /\ AfterGetBits(b, r, n) = r

\* The standard's rule: of the bytes of a unit, a 3 after two bytes 0 that follow
\* the last such 3 is not part of the payload.
Payload(b) ==
    LET step(done, byte) ==
            IF byte = 3 /\ done.zeros >= 2 THEN [done EXCEPT !.zeros = 0]
            ELSE [out |-> Append(done.out, byte),
                  zeros |-> IF byte = 0 THEN done.zeros + 1 ELSE 0]
    IN FoldLeft(step, [out |-> <<>>, zeros |-> 0], b).out

Occurs(part, b) == \E i \in 0 .. Len(b) - Len(part) : SubSeq(b, i + 1, i + Len(part)) = part

\* The cache holds the payload, but for units in which 0 0 3 0 3 occurs: the code
\* counts the zero before the 3 that it left out and leaves out the second 3 as
\* well.  Three zeros in a row do not occur in a unit.
ASSUME PayloadIsRead ==
    \A n \in 0 .. 7 : \A b \in [1 .. n -> {0, 3, 5}] :
       ~Occurs(<<0, 0, 0>>, b) => (CachedBytes(b) = Payload(b) <=> ~Occurs(<<0, 0, 3, 0, 3>>, b))

\* A writer of the fields that parseh264_sps reads.
UeBits(v) ==
    LET n == CHOOSE k \in 0 .. 8 : 2 ^ k <= v + 1 /\ v + 1 < 2 ^ (k + 1)
    IN [i \in 1 .. n |-> 0] \o [i \in 1 .. n + 1 |-> ((v + 1) \div (2 ^ (n + 1 - i))) % 2]
BytesOf(bits) ==
    [i \in 1 .. (Len(bits) + 7) \div 8 |->
       LET eight == SubSeq(bits \o [j \in 1 .. 7 |-> 0], 8 * i - 7, 8 * i)
       IN NalRead(eight, 0, 8)]
SpsBits(profile, frameNum, poc, refs, progressive) ==
    BitsOf(profile) \o BitsOf(0) \o BitsOf(30) \o UeBits(0)
    \o (IF profile = 100 THEN UeBits(3) \o <<0>> \o UeBits(0) \o UeBits(0) \o <<0, 0>> ELSE <<>>)
    \o UeBits(frameNum) \o UeBits(poc) \o (IF poc = 0 THEN UeBits(4) ELSE <<>>)
    \o UeBits(refs) \o <<0>> \o UeBits(39) \o UeBits(29) \o <<progressive, 1, 1>>

\* What parseh264_sps reports is what was written, for baseline and high profile.
ASSUME SpsIsParsed ==
    \A profile \in {66, 100}, frameNum \in {0, 5, 12, 13}, poc \in {0, 2},
       refs \in 0 .. 4, progressive \in {0, 1} :
       LET b == BytesOf(SpsBits(profile, frameNum, poc, refs, progressive))
       IN ~Occurs(<<0, 0>>, b) =>
             ParseSps(b) = IF frameNum > 12 THEN <<>> ELSE <<progressive = 0, refs>>
=============================================================================
