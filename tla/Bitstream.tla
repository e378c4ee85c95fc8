------------------------------- MODULE Bitstream -------------------------------
(***************************************************************************)
(* CBitstreamConverter (BitstreamConverter.cpp), byte by byte: H.264 with  *)
(* length-prefixed NAL units (avcC) is converted to start codes (Annex B)  *)
(* or back, from the packets that a client converts one after the other.   *)
(* The class is linked into the program, which does not use it yet; the    *)
(* client here opens an object once, converts, reads the converted buffer  *)
(* after each call, closes and deletes it.                                 *)
(*                                                                         *)
(* Bytes are numbers, buffers are sequences of them, and positions count   *)
(* from 0 as in the code.  An allocated block is a number.                 *)
(***************************************************************************)
EXTENDS Naturals, Sequences, FiniteSets, SequencesExt

CONSTANTS
    Streams,     \* [extra: the extradata, packets: a set of packets], see below
    MaxPackets   \* how many packets the client converts (bound)

\* A packet is its NAL units, how many of its last bytes are missing, and where
\* its memory begins modulo 4.
IsPacket(p) == /\ p.nals \in Seq(Seq(0 .. 255) \ {<<>>})
               /\ p.cut \in Nat /\ p.align \in 0 .. 3

ASSUME BitstreamAssumption ==
    /\ \A s \in Streams :
          /\ s.extra \in Seq(0 .. 255)
          /\ \A p \in s.packets : IsPacket(p) /\ (s.extra[5] = 254 => p.cut = 0)
    /\ MaxPackets \in Nat

VARIABLES
    pc,            \* what the client may do: "new", "open", "closed", "gone";
                   \* "aborted" after an assert
    stream,        \* the stream that the client converts
    toAnnexB,      \* m_to_annexb
    h264,          \* m_codec = AV_CODEC_ID_H264
    bitstream,     \* m_convert_bitstream
    bytestream,    \* m_convert_bytestream
    threeToFour,   \* m_convert_3byteTo4byteNALSize
    context,       \* m_sps_pps_context: lengthSize, firstIdr, and the parameter sets
    spsPps,        \* its sps_pps_data: a block, or 0
    extradata,     \* what m_extradata holds
    extraBlock,    \* m_extradata: a block, or 0
    buffer,        \* what m_convertBuffer holds
    bufferBlock,   \* m_convertBuffer: a block, or 0
    input,         \* m_inputBuffer: <<>> for NULL, <<the packet>> otherwise
    heap,          \* the blocks that are allocated
    blocks,        \* history: how many blocks have been allocated
    misuse,        \* history: a block was freed that was not allocated
    fed,           \* history: the packets
    got            \* history: what the client got for each of them

modeVars   == <<toAnnexB, h264, bitstream, bytestream, threeToFour>>
memoryVars == <<spsPps, extraBlock, bufferBlock, heap, blocks, misuse>>
dataVars   == <<context, extradata, buffer, input>>
vars == <<pc, stream, modeVars, memoryVars, dataVars, fed, got>>

Init ==
    /\ pc = "new" /\ stream \in Streams
    /\ toAnnexB = FALSE /\ h264 = FALSE
    /\ bitstream = FALSE /\ bytestream = FALSE /\ threeToFour = FALSE
    /\ context = [lengthSize |-> 1, firstIdr |-> FALSE, params |-> <<>>]
    /\ spsPps = 0 /\ extraBlock = 0 /\ bufferBlock = 0
    /\ extradata = <<>> /\ buffer = <<>> /\ input = <<>>
    /\ heap = {} /\ blocks = 0 /\ misuse = FALSE
    /\ fed = <<>> /\ got = <<>>

-----------------------------------------------------------------------------
(***************************************************************************)
(* Bytes.                                                                  *)
(***************************************************************************)

At(b, p) == b[p + 1]
Slice(b, from, to) == SubSeq(b, from + 1, to)          \* from .. to - 1

Least(S)    == CHOOSE x \in S : \A y \in S : x <= y
Lesser(x, y) == IF x < y THEN x ELSE y

\* n bytes at p, the most significant first (OMX_RB16, OMX_RB24, OMX_RB32).
Number(b, p, n) ==
    LET Value[i \in 0 .. n] == IF i = 0 THEN 0 ELSE 256 * Value[i - 1] + At(b, p + i - 1)
    IN Value[n]

\* v in n bytes (avio_wb16, avio_wb32, avio_w8).
Written(v, n) == [i \in 1 .. n |-> (v \div (256 ^ (n - i))) % 256]

UnitType(byte) == byte % 32

-----------------------------------------------------------------------------
(***************************************************************************)
(* Start codes.                                                            *)
(***************************************************************************)

StartsAt(b, p) == At(b, p) = 0 /\ At(b, p + 1) = 0 /\ At(b, p + 2) = 1

\* One round of the second loop of avc_find_startcode_internal: a word without a
\* byte 0 has no code.
InWord(b, p) ==
    IF \E q \in p .. p + 3 : At(b, q) = 0 THEN {q \in p .. p + 3 : StartsAt(b, q)} ELSE {}

\* Bytes up to the next aligned address, words of four, bytes: the three loops
\* leave off 3 and 6 bytes before the end, and nothing found is the end.
FindInternal(b, align, p, end) ==
    LET aligned == Lesser(p + 4 - ((align + p) % 4), end - 3)
        words   == {w \in aligned .. end - 7 : (w - aligned) % 4 = 0}
        rest    == aligned + 4 * Cardinality(words)
        found   == {q \in p .. aligned - 1 : StartsAt(b, q)}
                   \cup (UNION {InWord(b, w) : w \in words})
                   \cup {q \in rest .. end - 4 : StartsAt(b, q)}
    IN IF p >= end - 3 \/ found = {} THEN end ELSE Least(found)

\* avc_find_startcode: a byte 0 before the code belongs to it.
FindStartCode(b, align, p, end) ==
    LET out == FindInternal(b, align, p, end)
    IN IF p < out /\ out < end /\ At(b, out - 1) = 0 THEN out - 1 ELSE out

\* while (nal_start < end && !*(nal_start++));
PastCode(b, p) ==
    LET used == {q \in p .. Len(b) - 1 : At(b, q) # 0}
    IN IF used = {} THEN Len(b) ELSE Least(used) + 1

\* avc_parse_nal_units: the NAL units of b.
NalUnits(b, align) ==
    LET end == Len(b)
        From[p \in 0 .. end] ==
            LET start == PastCode(b, p)
                next  == FindStartCode(b, align, start, end)
            IN IF start = end THEN <<>>
               ELSE <<Slice(b, start, next)>> \o From[next]
    IN From[FindStartCode(b, align, 0, end)]

\* NAL units with start codes.
AnnexB(nals) ==
    FlattenSeq([i \in DOMAIN nals |->
        (IF i = 1 THEN <<0, 0, 0, 1>> ELSE <<0, 0, 1>>) \o nals[i]])

LengthPrefixed(nals, n) == FlattenSeq([i \in DOMAIN nals |-> Written(Len(nals[i]), n) \o nals[i]])

\* isom_write_avcc: the last SPS and the last PPS among the units that are not
\* shorter than a byte.  An assert fails without them, and when the length of one
\* does not fit into the two bytes written for it.
UnitsOf(b, type) == SelectSeq(NalUnits(b, 0), LAMBDA u : u # <<>> /\ UnitType(u[1]) = type)
HasSets(b) ==
    /\ UnitsOf(b, 7) # <<>> /\ UnitsOf(b, 8) # <<>>
    /\ Len(Last(UnitsOf(b, 7))) \in 4 .. 65535 /\ Len(Last(UnitsOf(b, 8))) <= 65535
Avcc(b) ==
    LET sps == Last(UnitsOf(b, 7))
        pps == Last(UnitsOf(b, 8))
    IN <<1, sps[2], sps[3], sps[4], 255, 225>> \o LengthPrefixed(<<sps>>, 2)
       \o <<1>> \o LengthPrefixed(<<pps>>, 2)

-----------------------------------------------------------------------------
(***************************************************************************)
(* From lengths to start codes.                                            *)
(***************************************************************************)

\* The units of the extradata, each with a start code, or none and FALSE.
SetsWithin(b) ==
    LET sps == At(b, 5) % 32
        Units[left \in 0 .. 255, p \in 0 .. Len(b), second \in BOOLEAN] ==
            \* left units from p on; the PPS come when second is FALSE
            IF left = 0
            THEN IF second THEN [ok |-> TRUE, out |-> <<>>]
                 ELSE Units[At(b, p), p + 1, TRUE]
            ELSE LET size == Number(b, p, 2)
                     next == p + 2 + size
                 IN IF p + 2 > Len(b) \/ next > Len(b) THEN [ok |-> FALSE, out |-> <<>>]
                    ELSE LET rest == Units[left - 1, next, second]
                         IN [rest EXCEPT !.out = <<0, 0, 0, 1>> \o Slice(b, p + 2, next) \o @]
    IN Units[sps, 6, FALSE]

\* BitstreamConvertInit: the parameter sets, but none for lengths of three bytes.
ParameterSets(b) == IF At(b, 4) % 4 = 2 THEN [ok |-> FALSE, out |-> <<>>] ELSE SetsWithin(b)

\* BitstreamAllocAndCopy: the first start code of a buffer has four bytes.
Copied(out, params, nal) ==
    out \o params \o (IF out = <<>> THEN <<0, 0, 0, 1>> ELSE <<0, 0, 1>>) \o nal

\* Mutant: first_idr is not set again.
AfterSliceOnce(first, type) == first

\* first_idr after a NAL unit that got no parameter sets.
AfterSlice(first, type) == first \/ type = 1

\* The units of a packet with lengths of n bytes, as far as they are within it.  A
\* unit that has no byte at all takes the type of the byte after it.
UnitsWithin(b, n) ==
    LET end == Len(b)
        From[p \in 0 .. end] ==
            LET start == p + n
                next  == start + Number(b, p, n)
            IN IF start > end \/ next > end THEN <<>>
               ELSE <<[nal |-> Slice(b, start, next), type |-> UnitType(At(b, start)),
                       next |-> next]>> \o From[next]
    IN From[0]

\* One of them is not: "goto fail".
IsCut(b, n) == UnitsWithin(b, n) = <<>> \/ Last(UnitsWithin(b, n)).next # Len(b)

\* One more unit: the output and first_idr after it.
ConvertUnit(done, unit, params) ==
    IF done.first /\ unit.type = 5
    THEN [out |-> Copied(done.out, params, unit.nal), first |-> FALSE]
    ELSE [out |-> Copied(done.out, <<>>, unit.nal), first |-> AfterSlice(done.first, unit.type)]

\* BitstreamConvert of a packet that is not cut.
BitstreamConvert(b, ctx) ==
    LET units == UnitsWithin(b, ctx.lengthSize)
        Done[i \in 0 .. Len(units)] ==
            IF i = 0 THEN [out |-> <<>>, first |-> ctx.firstIdr]
            ELSE ConvertUnit(Done[i - 1], units[i], ctx.params)
    IN Done[Len(units)]

-----------------------------------------------------------------------------
(***************************************************************************)
(* Memory.                                                                 *)
(***************************************************************************)

\* Frees the blocks; NULL is none.
Freed(some) ==
    /\ heap' = heap \ some
    /\ misuse' = (misuse \/ ~(some \ {0} \subseteq heap))

\* Allocates one more after freeing some.
Allocated(block, some) ==
    /\ block = blocks + 1 /\ blocks' = blocks + 1
    /\ heap' = (heap \ some) \cup {block}
    /\ misuse' = (misuse \/ ~(some \ {0} \subseteq heap))

-----------------------------------------------------------------------------
(***************************************************************************)
(* Open, Close and the destructor.                                         *)
(***************************************************************************)

\* What makes Open return FALSE.
Refused(annexB) ==
    \/ Len(stream.extra) < 7
    \/ LET x == stream.extra
       IN IF annexB THEN x[1] # 1
          ELSE IF x[1] = 1 THEN x[5] # 254 ELSE SubSeq(x, 1, 4) # <<0, 0, 0, 1>>

OpenFails ==
    /\ pc = "new"
    /\ \E annexB, codec \in BOOLEAN :
          /\ ~codec \/ Refused(annexB)
          /\ toAnnexB' = annexB /\ h264' = codec
    /\ pc' = "closed"
    /\ UNCHANGED <<stream, bitstream, bytestream, threeToFour, memoryVars, dataVars,
                   fed, got>>

\* avcC: BitstreamConvertInit.  Open returns TRUE whatever it says.
OpenAnnexB ==
    /\ pc = "new" /\ ~Refused(TRUE)
    /\ LET sets == ParameterSets(stream.extra)
       IN /\ bitstream' = sets.ok
          /\ context' = [lengthSize |-> (stream.extra[5] % 4) + 1, firstIdr |-> sets.ok,
                         params |-> sets.out]
          /\ IF sets.ok /\ sets.out # <<>> THEN Allocated(spsPps', {})
             ELSE spsPps' = 0 /\ UNCHANGED <<heap, blocks, misuse>>
    /\ toAnnexB' = TRUE /\ h264' = TRUE
    /\ pc' = "open"
    /\ UNCHANGED <<stream, bytestream, threeToFour, extraBlock, bufferBlock, extradata,
                   buffer, input, fed, got>>

\* Annex B, or avcC with lengths of three bytes.
OpenAvcc ==
    /\ pc = "new" /\ ~Refused(FALSE)
    /\ LET x == stream.extra
       IN IF x[1] # 1 /\ ~HasSets(x)
          THEN pc' = "aborted" /\ UNCHANGED <<memoryVars, extradata, bytestream, threeToFour>>
          ELSE /\ pc' = "open"
               /\ bytestream' = (x[1] # 1) /\ threeToFour' = (x[1] = 1)
               /\ extradata' = IF x[1] = 1 THEN [x EXCEPT ![5] = 255] ELSE Avcc(x)
               /\ Allocated(extraBlock', {})
               /\ UNCHANGED <<spsPps, bufferBlock>>
    /\ toAnnexB' = FALSE /\ h264' = TRUE
    /\ UNCHANGED <<stream, bitstream, context, buffer, input, fed, got>>

\* Close, of which some (blocks) were freed before: what is freed in all.  The
\* buffer of a converter from three bytes is not freed, and the pointer to the
\* buffer of a converter to start codes is kept.
Closed(freed, oldBuffer) ==
    /\ Freed(freed \cup (IF bitstream THEN {spsPps} ELSE {})
                   \cup (IF bitstream \/ bytestream THEN {oldBuffer} ELSE {})
                   \cup {extraBlock})
    /\ spsPps' = IF bitstream THEN 0 ELSE spsPps
    /\ extraBlock' = 0 /\ extradata' = <<>>
    /\ bitstream' = FALSE /\ threeToFour' = FALSE

Close ==
    /\ pc \in {"open", "closed"}
    /\ Closed({}, bufferBlock)
    /\ bufferBlock' = IF bytestream THEN 0 ELSE bufferBlock
    /\ input' = <<>>
    /\ pc' = IF pc = "open" THEN "closed" ELSE "gone"
    /\ UNCHANGED <<stream, toAnnexB, h264, bytestream, context, buffer, blocks, fed, got>>

-----------------------------------------------------------------------------
(***************************************************************************)
(* Convert, GetConvertBuffer and GetConvertSize.                           *)
(***************************************************************************)

\* The bytes of a packet, as the demuxer gives them.
Packet(p) ==
    LET x   == stream.extra
        all == IF x[1] = 1 THEN LengthPrefixed(p.nals, (x[5] % 4) + 1)
               ELSE AnnexB(p.nals)
    IN SubSeq(all, 1, Len(all) - p.cut)

\* Mutant: the pointer to the old buffer is kept when nothing replaces it.
KeepBuffer == bufferBlock

\* m_convertBuffer = NULL
NoBuffer == 0

\* GetConvertBuffer, after Convert.
GetConvertBuffer ==
    IF (bitstream' \/ bytestream' \/ threeToFour') /\ bufferBlock' # 0
    THEN buffer' ELSE input'[1]
Give(p) == fed' = Append(fed, p) /\ got' = Append(got, GetConvertBuffer)

\* To start codes.
ConvertBitstream(p) ==
    /\ bitstream /\ ~IsCut(Packet(p), context.lengthSize)
    /\ LET done == BitstreamConvert(Packet(p), context)
       IN buffer' = done.out /\ context' = [context EXCEPT !.firstIdr = done.first]
    /\ Allocated(bufferBlock', {bufferBlock})
    /\ input' = <<>>
    /\ UNCHANGED <<bitstream, threeToFour, spsPps, extraBlock, extradata>>

\* "error converting. disable converter": Close, with the packet as it is.
ConvertGivesUp(p) ==
    /\ bitstream /\ IsCut(Packet(p), context.lengthSize)
    /\ Closed({bufferBlock}, NoBuffer)
    /\ bufferBlock' = NoBuffer
    /\ input' = <<Packet(p)>>
    /\ UNCHANGED <<buffer, context, blocks>>

\* From start codes to lengths of four bytes, and from lengths of three to two.
ConvertToLengths(p) ==
    /\ bytestream \/ threeToFour
    /\ buffer' = IF bytestream
                 THEN LengthPrefixed(NalUnits(Packet(p), p.align), 4)
                 ELSE LET units == UnitsWithin(Packet(p), 3)
                      IN LengthPrefixed([i \in DOMAIN units |-> units[i].nal], 2)
    /\ Allocated(bufferBlock', {bufferBlock})
    /\ input' = <<Packet(p)>>
    /\ UNCHANGED <<bitstream, threeToFour, context, spsPps, extraBlock, extradata>>

\* Nothing to convert.
PassThrough(p) ==
    /\ ~bitstream /\ ~bytestream /\ ~threeToFour
    /\ Freed({bufferBlock}) /\ bufferBlock' = NoBuffer
    /\ input' = <<Packet(p)>>
    /\ UNCHANGED <<bitstream, threeToFour, context, spsPps, extraBlock, extradata,
                   buffer, blocks>>

Convert ==
    /\ pc = "open" /\ Len(fed) < MaxPackets
    /\ UNCHANGED <<pc, stream, toAnnexB, h264, bytestream>>
    /\ \E p \in stream.packets :
          /\ \/ ConvertBitstream(p) \/ ConvertGivesUp(p)
             \/ ConvertToLengths(p) \/ PassThrough(p)
          /\ Give(p)

\* Convert(NULL) frees the last buffer and returns FALSE.
ConvertNothing ==
    /\ pc = "open" /\ bufferBlock # 0
    /\ Freed({bufferBlock}) /\ bufferBlock' = NoBuffer
    /\ input' = <<>>
    /\ UNCHANGED <<pc, stream, modeVars, spsPps, extraBlock, blocks, context, extradata,
                   buffer, fed, got>>

-----------------------------------------------------------------------------

Next ==
    \/ OpenFails \/ OpenAnnexB \/ OpenAvcc \/ Close
    \/ Convert \/ ConvertNothing

Spec == Init /\ [][Next]_vars

-----------------------------------------------------------------------------
(***************************************************************************)
(* Properties.                                                             *)
(***************************************************************************)

\* A reader of Annex B: what is between two start codes, without the zeros at
\* its end.
Trimmed(nal) ==
    SubSeq(nal, 1, Least({n \in 0 .. Len(nal) : \A i \in n + 1 .. Len(nal) : nal[i] = 0}))
CodesOf(b) == {p \in 0 .. Len(b) - 3 : StartsAt(b, p)}
Nth(S, i) == CHOOSE x \in S : Cardinality({y \in S : y < x}) = i - 1
SplitAtCodes(b) ==
    LET codes == CodesOf(b)
        count == Cardinality(codes)
    IN [i \in 1 .. count |->
          Trimmed(Slice(b, Nth(codes, i) + 3, IF i = count THEN Len(b) ELSE Nth(codes, i + 1)))]

\* What a decoder of Annex B needs: the parameter sets before the first IDR unit
\* and before each IDR unit that is the first since a slice of another type.
NeedsSets(nals, i) ==
    /\ UnitType(nals[i][1]) = 5
    /\ \A j \in 1 .. i - 1 : UnitType(nals[j][1]) = 5 =>
          \E k \in j + 1 .. i - 1 : UnitType(nals[k][1]) = 1
WithSets(nals, params) ==
    FlattenSeq([i \in DOMAIN nals |->
        IF NeedsSets(nals, i) THEN Append(SplitAtCodes(params), nals[i]) ELSE <<nals[i]>>])

\* What Annex B allows: no start code within the unit, and no zero at its end.
IsPlain(nal) ==
    /\ nal # <<>> /\ Last(nal) # 0
    /\ \A q \in 0 .. Len(nal) - 3 : ~StartsAt(nal, q)

\* Streams as the standards have them: the parameter sets in avcC and the units of its
\* packets are what Annex B allows, their lengths fit, and a packet that is cut is cut
\* within its last unit.
SetsCoded(sets) == FlattenSeq([i \in DOMAIN sets |-> <<0, 0, 0, 1>> \o sets[i]])
IsConforming(s) ==
    Len(s.extra) >= 7 /\ s.extra[1] = 1 =>
       LET size == (s.extra[5] % 4) + 1
           read == ParameterSets(s.extra)
           sets == SplitAtCodes(read.out)
       IN /\ read.ok => /\ sets \in Seq(Seq(0 .. 255)) /\ read.out = SetsCoded(sets)
                        /\ \A i \in DOMAIN sets : IsPlain(sets[i])
          /\ \A p \in s.packets :
                /\ \A i \in DOMAIN p.nals :
                      IsPlain(p.nals[i]) /\ Len(p.nals[i]) \div (256 ^ (size - 1)) < 256
                /\ p.cut # 0 => p.nals # <<>> /\ p.cut < size + Len(Last(p.nals))

\* The client gets the NAL units of the input, none missing, cut or joined with
\* another.  To start codes: over all packets together, with the parameter sets
\* where a decoder needs them, counted across packets, as long as none is cut.
\* From start codes: of each packet, wherever the loops over bytes and words meet.
UnitsAreKept ==
    /\ toAnnexB /\ bitstream =>
          FlattenSeq([k \in DOMAIN got |-> SplitAtCodes(got[k])])
             = WithSets(FlattenSeq([k \in DOMAIN fed |-> fed[k].nals]), context.params)
    /\ bytestream => \A k \in DOMAIN got :
          fed[k].cut = 0 /\ (\A i \in DOMAIN fed[k].nals : IsPlain(fed[k].nals[i]))
             => got[k] = LengthPrefixed(fed[k].nals, 4)

\* Every block is freed, and none twice, on every path through a failing
\* conversion, Close and the destructor, but for the last buffer of a converter
\* from three bytes.
FreedOnce ==
    /\ ~misuse
    /\ pc = "gone" => heap \subseteq {bufferBlock}
=============================================================================
