------------------------------- MODULE Deflate -------------------------------
(***************************************************************************)
(* The gzip member that the zinfo code reads, and the contract of the two  *)
(* zlib inflate calls it makes (src/ztoc/compression/gzip_zinfo.c, lines   *)
(* 249 and 377/469).  zlib itself is not part of the repository: this      *)
(* module is the environment of the builder and of the extractors.         *)
(*                                                                         *)
(* A member is a gzip header, a sequence of deflate blocks and the 8-byte  *)
(* trailer.  A block is a block header, a sequence of symbols and an       *)
(* end-of-block code.  Every piece is a "unit" with a length in bits, so   *)
(* block boundaries fall at arbitrary bit positions, as in real streams.   *)
(* A symbol emits one byte: a literal, or a copy of the byte 'dist' back   *)
(* in the uncompressed data (an LZ77 match of length one), which is what   *)
(* makes the saved window necessary to resume decoding.                    *)
(***************************************************************************)
EXTENDS ZinfoWindow, Sequences, SequencesExt

CONSTANTS
    GZHDR,     \* bytes of the gzip header (10 when no optional field is set)
    Blocks     \* the member's deflate blocks: [hdr, syms, eob, last]

\* zlib return codes, as in zlib.h
Z_OK == 0
Z_STREAM_END == 1
Z_NEED_DICT == 2
Z_ERRNO == -1
Z_DATA_ERROR == -3
Z_MEM_ERROR == -4
Z_BUF_ERROR == -5

TRAILER == 8    \* CRC32 and ISIZE

Lit(v, nb) == [kind |-> "lit", nb |-> nb, val |-> v, dist |-> 0]
Ref(d, nb) == [kind |-> "ref", nb |-> nb, val |-> 0, dist |-> d]
Mark(k, nb) == [kind |-> k, nb |-> nb, val |-> 0, dist |-> 0]

BlockUnits(b) == <<Mark("bhdr", b.hdr)>> \o b.syms \o <<Mark("eob", b.eob)>>

Body == <<Mark("ghdr", 8 * GZHDR)>>
          \o FlattenSeq([k \in 1..Len(Blocks) |-> BlockUnits(Blocks[k])])

BodyEnd[i \in 0..Len(Body)] == IF i = 0 THEN 0 ELSE BodyEnd[i-1] + Body[i].nb

\* After the last block the stream is padded to a byte and the trailer follows.
Units == Body \o <<Mark("trailer", ((8 - (BodyEnd[Len(Body)] % 8)) % 8) + 8 * TRAILER)>>

\* End[i]: bit position just after unit i.
End[i \in 0..Len(Units)] == IF i = 0 THEN 0 ELSE End[i-1] + Units[i].nb

StartBit(i) == End[i] - Units[i].nb

CeilByte(bits) == (bits + 7) \div 8

StreamBytes == End[Len(Units)] \div 8

IsOut(x) == x.kind \in {"lit", "ref"}

\* The byte a symbol emits, given the uncompressed data preceding it.
Emit(x, hist) == IF x.kind = "lit" THEN x.val ELSE hist[Len(hist) - x.dist + 1]

\* Hist[i]: the uncompressed data produced by units 1..i (reference decoder).
Hist[i \in 0..Len(Units)] ==
    IF i = 0 THEN <<>>
    ELSE LET h == Hist[i-1]
         IN IF IsOut(Units[i]) THEN Append(h, Emit(Units[i], h)) ELSE h

Data == Hist[Len(Units)]

OutBefore(i) == Len(Hist[i-1])

\* The block starts: the points at which inflate(Z_BLOCK) reports a block
\* boundary that is not after the last block.
BlockStartSeq == SelectSeq([i \in 1..Len(Units) |-> i], LAMBDA i : Units[i].kind = "bhdr")

BlockStarts == Range(BlockStartSeq)

LastEob == Len(Units) - 1

\* The WINSIZE bytes of uncompressed data before offset out, zero-padded.
Window(out) ==
    [j \in 0..WINSIZE-1 |-> IF out - WINSIZE + j >= 0
                              THEN Data[out - WINSIZE + j + 1] ELSE 0]

ASSUME /\ GZHDR \in Nat \ {0}
       /\ Len(Blocks) > 0
       /\ \A k \in 1..Len(Blocks) : Blocks[k].last <=> k = Len(Blocks)
       /\ \A i \in DOMAIN Units : Units[i].nb > 0
       /\ \A i \in DOMAIN Units :
             Units[i].kind = "ref" => Units[i].dist \in 1..Len(Hist[i-1])

-----------------------------------------------------------------------------
(***************************************************************************)
(* inflate(&strm, Z_BLOCK) on a gzip stream (gzip_zinfo.c:249).  The       *)
(* inflater is at unit u, has taken the input bytes before 'taken' and may *)
(* take bytes up to 'limit'; 'room' is avail_out.  The call decodes units  *)
(* until it reaches a block boundary (having decoded something: zlib skips *)
(* the check on entry), the output is full, the input is exhausted, or the *)
(* trailer is checked.  At a boundary data_type is 128, plus 64 after the  *)
(* last block, plus the unused bits of the last byte taken.  Unit 'bad'    *)
(* (0 for none) is corrupt.                                                *)
(***************************************************************************)
RECURSIVE ZBlockFrom(_, _, _, _, _, _, _)
ZBlockFrom(u, taken, limit, room, bad, out, moved) ==
    LET x == Units[u]
        Stop(t, r, dt) == [u |-> u, taken |-> t, out |-> out, ret |-> r, dtype |-> dt]
    IN CASE moved /\ x.kind \in {"bhdr", "trailer"} ->
                Stop(taken, Z_OK, 128 + (IF x.kind = "trailer" THEN 64 ELSE 0)
                                      + taken * 8 - StartBit(u))
         [] u = bad -> Stop(taken, Z_DATA_ERROR, 0)
         [] CeilByte(End[u]) > limit ->
                Stop(limit, IF moved \/ limit > taken THEN Z_OK ELSE Z_BUF_ERROR, 0)
         [] IsOut(x) /\ room = 0 -> Stop(taken, Z_OK, 0)
         [] x.kind = "trailer" ->
                [u |-> u + 1, taken |-> CeilByte(End[u]), out |-> out,
                 ret |-> Z_STREAM_END, dtype |-> 64]
         [] OTHER ->
                ZBlockFrom(u + 1, CeilByte(End[u]), limit,
                           IF IsOut(x) THEN room - 1 ELSE room, bad,
                           IF IsOut(x) THEN Append(out, Data[OutBefore(u) + 1]) ELSE out,
                           TRUE)

ZBlock(u, taken, limit, room, bad) == ZBlockFrom(u, taken, limit, room, bad, <<>>, FALSE)

(***************************************************************************)
(* inflate(&strm, Z_NO_FLUSH) on a raw stream (gzip_zinfo.c:377, 469).     *)
(* 'hist' is the dictionary followed by everything inflated since; a match *)
(* copies from it, so a wrong dictionary yields wrong bytes.  The raw      *)
(* stream ends at the end-of-block code of the last block, and a call     *)
(* after the end returns Z_STREAM_END again.  Unit 'bad' (0 for none) is  *)
(* corrupt.  u = 0 means                                                   *)
(* decoding did not start at a block boundary: zlib then decodes garbage,  *)
(* abstracted as a data error.                                             *)
(***************************************************************************)
RECURSIVE NoFlushFrom(_, _, _, _, _, _, _, _)
NoFlushFrom(u, taken, limit, room, bad, hist, out, moved) ==
    LET x == Units[u]
        Stop(t, r) == [u |-> u, taken |-> t, hist |-> hist, out |-> out, ret |-> r]
    IN CASE u > LastEob -> Stop(taken, Z_STREAM_END)      \* zlib's DONE state
         [] x.kind = "ghdr" \/ u = bad -> Stop(taken, Z_DATA_ERROR)
         [] CeilByte(End[u]) > limit ->
                Stop(limit, IF moved \/ limit > taken THEN Z_OK ELSE Z_BUF_ERROR)
         [] IsOut(x) /\ room = 0 -> Stop(taken, Z_OK)
         [] u = LastEob ->
                [u |-> u + 1, taken |-> CeilByte(End[u]), hist |-> hist, out |-> out,
                 ret |-> Z_STREAM_END]
         [] OTHER ->
                LET b == Emit(x, hist)
                IN NoFlushFrom(u + 1, CeilByte(End[u]), limit,
                               IF IsOut(x) THEN room - 1 ELSE room, bad,
                               IF IsOut(x) THEN Append(hist, b) ELSE hist,
                               IF IsOut(x) THEN Append(out, b) ELSE out,
                               TRUE)

NoFlush(u, taken, limit, room, bad, hist) ==
    IF u = 0 THEN [u |-> 0, taken |-> taken, hist |-> hist, out |-> <<>>, ret |-> Z_DATA_ERROR]
    ELSE NoFlushFrom(u, taken, limit, room, bad, hist, <<>>, FALSE)

\* The unit at which raw inflate resumes when primed at bit position p.
UnitAt(p) == IF \E i \in BlockStarts : StartBit(i) = p
               THEN CHOOSE i \in BlockStarts : StartBit(i) = p ELSE 0
=============================================================================
