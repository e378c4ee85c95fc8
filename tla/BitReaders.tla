------------------------------- MODULE BitReaders -------------------------------
(***************************************************************************)
(* The readers of CBitstreamConverter: plain bits (bits_reader_t), the     *)
(* bits of a NAL unit without its emulation prevention bytes               *)
(* (nal_bitstream), and the parser of a sequence parameter set on top.     *)
(* Pure functions of a sequence of bytes.  uint32_t is computed modulo     *)
(* 2^32; positions are counted in bits from 0.                             *)
(***************************************************************************)
EXTENDS Naturals, Sequences, SequencesExt

-----------------------------------------------------------------------------
(***************************************************************************)
(* read_bits, get_bits and skip_bits.  A reader is [pos, oflow]: buffer and *)
(* offbits are pos \div 8 and pos % 8.                                     *)
(***************************************************************************)

\* bits_reader_set
BitsReader == [pos |-> 0, oflow |-> FALSE]

BytesFor(r, n) == ((r.pos % 8) + n + 7) \div 8
GoesPast(b, r, n) == (r.pos \div 8) + BytesFor(r, n) > Len(b)

\* get_bits(n): the bytes that hold the n bits, most significant first, without
\* the bits before them and after them; 0 when they go past the end.
GetBits(b, r, n) ==
    LET first  == r.pos \div 8
        nbytes == BytesFor(r, n)
        all    == FoldLeft(LAMBDA v, byte : 256 * v + byte, 0, SubSeq(b, first + 1, first + nbytes))
        before == 2 ^ (8 * nbytes - (r.pos % 8))
        after  == 2 ^ (8 * nbytes - n - (r.pos % 8))
    IN IF GoesPast(b, r, n) THEN 0 ELSE (all % before) \div after

\* get_bits stays where it is, read_bits moves on unless the bits go past the end,
\* skip_bits always does.
AfterGetBits(b, r, n)  == [r EXCEPT !.oflow = @ \/ GoesPast(b, r, n)]
AfterReadBits(b, r, n) ==
    IF GoesPast(b, r, n) THEN AfterGetBits(b, r, n) ELSE [r EXCEPT !.pos = @ + n]
AfterSkipBits(b, r, n) ==
    [pos |-> r.pos + n, oflow |-> r.oflow \/ (r.pos + n) \div 8 > Len(b)]

-----------------------------------------------------------------------------
(***************************************************************************)
(* nal_bs_read.  The bytes reach the cache in order, and a read takes bits *)
(* from it: reading at a position of all those bits is the same.           *)
(***************************************************************************)

\* The bytes that reach the cache: a 3 after two bytes 0 in the cache is left
\* out, unless the byte before it was left out as well.
CachedBytes(b) ==
    LET step(done, byte) ==
            LET n == Len(done.out)
            IN IF /\ byte = 3 /\ ~done.left
                  /\ n >= 2 /\ done.out[n] = 0 /\ done.out[n - 1] = 0
               THEN [done EXCEPT !.left = TRUE]
               ELSE [out |-> Append(done.out, byte), left |-> FALSE]
    IN FoldLeft(step, [out |-> <<>>, left |-> FALSE], b).out

BitsOf(byte) == [i \in 1 .. 8 |-> (byte \div (2 ^ (8 - i))) % 2]
NalBits(b) == FlattenSeq([i \in DOMAIN CachedBytes(b) |-> BitsOf(CachedBytes(b)[i])])

\* nal_bs_read(n) at pos: as many bits as there are.
NalRead(bits, pos, n) == FoldLeft(LAMBDA v, bit : 2 * v + bit, 0, SubSeq(bits, pos + 1, pos + n))

\* nal_bs_read_ue at pos: its value and the position after it.  At the end of
\* the data the last bit 0 is not counted.  The loop stops at 32 bits 0 (i < 32),
\* where 1 << i is undefined: the result has no value.
NalReadUe(bits, pos) ==
    LET ones  == {i \in pos + 1 .. Len(bits) : bits[i] = 1}
        one   == CHOOSE i \in ones : \A j \in ones : i <= j
        zeros == one - 1 - pos
        short == IF pos >= Len(bits) THEN 0 ELSE Len(bits) - pos - 1
    IN IF ones = {} /\ short < 32 THEN [value |-> (2 ^ short) - 1, next |-> Len(bits)]
       ELSE IF ones # {} /\ zeros < 32
       THEN [value |-> (2 ^ zeros) - 1 + NalRead(bits, one, zeros), next |-> one + zeros]
       ELSE [value |-> "undefined", next |-> Min({pos + 65, Len(bits)})]

\* nal_bs_eos
NalEos(bits, pos) == pos >= Len(bits)

-----------------------------------------------------------------------------
(***************************************************************************)
(* parseh264_sps.                                                          *)
(***************************************************************************)

HighProfiles == {100, 110, 122, 244, 44, 83, 86}

\* <<interlaced, max_ref_frames>>, or <<>> when the parser gives up.  It reads
\* on from the first field, profile_idc; "unfinished" fields are not read.
ParseSps(b) ==
    LET bits     == NalBits(b)
        Ue(pos)  == NalReadUe(bits, pos)
        id       == Ue(24)
        high     == NalRead(bits, 0, 8) \in HighProfiles
        chroma   == Ue(id.next)
        luma     == Ue(IF chroma.value = 3 THEN chroma.next + 1 ELSE chroma.next)
        depth    == Ue(luma.next)
        frameNum == Ue(IF high THEN depth.next + 2 ELSE id.next)
        poc      == Ue(frameNum.next)
        refs     == Ue(IF poc.value = 0 THEN Ue(poc.next).next ELSE poc.next)
        height   == Ue(Ue(refs.next + 1).next)
    IN IF frameNum.value > 12 THEN <<>>
       ELSE <<NalRead(bits, height.next, 1) = 0, refs.value>>
=============================================================================
