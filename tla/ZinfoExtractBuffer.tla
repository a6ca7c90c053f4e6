------------------------- MODULE ZinfoExtractBuffer -------------------------
(***************************************************************************)
(* The buffer extractor: extract_data_from_buffer                         *)
(* (src/ztoc/compression/gzip_zinfo.c:413-492).                            *)
(*                                                                         *)
(* The caller hands over the compressed bytes of the member from the      *)
(* chosen checkpoint on (from in - 1 when the checkpoint has bits, so the *)
(* first byte is the priming byte) up to some end, and the checkpoint's   *)
(* number.  The extractor primes with the first byte, advances the data   *)
(* pointer, loads the window, then runs the same skip/fill loops as the   *)
(* file variant, refilling from memory: min(remaining, CHUNK) bytes at a  *)
(* time, with no end-of-input test.  Buffer positions are kept as         *)
(* positions in the member: the buffer is bytes [start, dend).            *)
(***************************************************************************)
EXTENDS Deflate, FiniteSets

CONSTANTS
    CHUNK,       \* refill size (1 << 14, scaled)
    UINT,        \* 2^32, scaled: the range of unsigned
    Indexes,     \* checkpoint lists the caller may pass
    Offsets,     \* requested uncompressed offsets
    Lens,        \* requested lengths
    DataEnds,    \* where the caller's buffer ends, as a member position
    Corrupt      \* the buffer's corrupt unit, 0 for none

VARIABLES
    pc,          \* "start", "outer", "inner", "done"
    list, off0, len,
    first,       \* first_checkpoint, a C index from 0
    start, dend, \* the caller's buffer: member bytes [start, dend)
    bad,         \* its corrupt unit
    dpos,        \* the data pointer, as a member position
    remaining,
    overread,    \* some byte outside [start, dend) was read
    offset, availIn, availOut, dest, buf, skip, zu, hist, ret

vars == <<pc, list, off0, len, first, start, dend, bad, dpos, remaining, overread,
          offset, availIn, availOut, dest, buf, skip, zu, hist, ret>>

TypeOK ==
    /\ pc \in {"start", "outer", "inner", "done"}
    /\ list \in Indexes /\ off0 \in Offsets /\ len \in Lens
    /\ first \in 0..Len(list) - 1 /\ dend \in DataEnds /\ bad \in Corrupt
    /\ start \in 0..dend /\ dpos \in start..dend + 1
    /\ remaining \in 0..dend - start
    /\ overread \in BOOLEAN
    /\ offset \in Int /\ availIn \in 0..CHUNK /\ availOut \in Nat
    /\ dest \in {"discard", "buf"} /\ buf \in Seq(Nat)
    /\ skip \in {0, 1} /\ zu \in 0..Len(Units) /\ hist \in Seq(Nat)
    /\ ret \in Int

-----------------------------------------------------------------------------
\* The checkpoint search of pt_index_from_ucmp_offset (lines 96-108), by
\* which the caller picks first_checkpoint.
RECURSIVE Scan(_, _, _, _)
Scan(l, off, i, r) ==
    IF r - 1 # 0 /\ l[i + 1].out <= off THEN Scan(l, off, i + 1, r - 1) ELSE i

\* res, the C index of here: one less than its position in the sequence.
PtIndex(l, off) == Scan(l, off, 1, Len(l)) - 1

\* get_bits (lines 88-90): the bits of checkpoint cp, a C index from 0.
GetBits(l, cp) == l[cp + 1].bits

\* get_comp_off (lines 114-116): the compressed offset of checkpoint cp.
GetCompOff(l, cp) == l[cp + 1].in

\* has_bits (lines 142-146): false for a checkpoint at or past have.
HasBits(l, cp) == cp < Len(l) /\ l[cp + 1].bits # 0

\* Where the caller's buffer starts for first_checkpoint cp: the priming
\* byte before comp_off when the checkpoint has bits.
DataStart(l, cp) == GetCompOff(l, cp) - (IF HasBits(l, cp) THEN 1 ELSE 0)

\* (unsigned)x
Unsigned(x) == IF x >= 0 THEN x ELSE x + UINT

AsSeq(w) == [j \in 1..WINSIZE |-> w[j - 1]]

\* A data pointer left on the priming byte.
PrimeAdvanceNone(bits) == 0

\* data++ after inflatePrime (line 435).
PrimeAdvance(bits) == IF bits # 0 THEN 1 ELSE 0

\* A refill that always counts a full chunk.
RefillCountFull(rem) == CHUNK

\* min(remaining, CHUNK) (line 462).
RefillCount(rem) == IF rem < CHUNK THEN rem ELSE CHUNK

\* A fill loop that does not leave at the end of the stream.
StreamEndedNever(r) == FALSE

\* ret == Z_STREAM_END (lines 474-475).
StreamEnded(r) == r = Z_STREAM_END

Init ==
    /\ pc = "start"
    /\ list \in Indexes /\ off0 \in Offsets /\ len \in Lens
    /\ first = PtIndex(list, off0)
    /\ start = DataStart(list, first)
    /\ dend \in {e \in DataEnds : e > start} /\ bad \in Corrupt
    /\ dpos = start /\ remaining = 0 /\ overread = FALSE
    /\ offset = off0 /\ availIn = 0 /\ availOut = 0 /\ dest = "discard"
    /\ buf = <<>> /\ skip = 0 /\ zu = 0 /\ hist = <<>> /\ ret = Z_OK

Finish(r) == ret' = r /\ pc' = "done"

\* inflateInit2 fails (lines 428-430).
StartFails ==
    /\ pc = "start" /\ len >= 0
    /\ Finish(Z_MEM_ERROR)
    /\ UNCHANGED <<list, off0, len, first, start, dend, bad, dpos, remaining, overread,
                   offset, availIn, availOut, dest, buf, skip, zu, hist>>

(***************************************************************************)
(* The prologue (lines 422-442): len < 0; get_bits; inflatePrime with the  *)
(* high bits of data[0] and data++; inflateSetDictionary; offset -= out;   *)
(* remaining = datalen.  The inflater resumes at the bit just before the  *)
(* next byte it is fed, less the primed bits: if that is not a block      *)
(* start, it decodes garbage (zu = 0).                                     *)
(***************************************************************************)
Start ==
    /\ pc = "start"
    /\ \/ len < 0 /\ Finish(0)
          /\ UNCHANGED <<dpos, remaining, offset, skip, zu, hist>>
       \/ /\ len >= 0
          /\ LET bits == GetBits(list, first)
                 c == list[first + 1]
                 d1 == start + PrimeAdvance(bits)
             IN /\ dpos' = d1
                /\ zu' = UnitAt(d1 * 8 - bits)
                /\ hist' = AsSeq(c.window)
                /\ offset' = off0 - c.out
                /\ remaining' = dend - start
                /\ skip' = 1
                /\ pc' = "outer"
                /\ UNCHANGED ret
    /\ UNCHANGED <<list, off0, len, first, start, dend, bad, overread, availIn, availOut,
                   dest, buf>>

\* The head of the outer loop (lines 445-458): where the output goes.
Outer ==
    /\ pc = "outer"
    /\ LET atOff == offset = 0 /\ skip = 1
       IN /\ CASE offset > WINSIZE ->
                    availOut' = WINSIZE /\ dest' = "discard" /\ offset' = offset - WINSIZE
               [] offset # 0 ->
                    availOut' = Unsigned(offset) /\ dest' = "discard" /\ offset' = 0
               [] OTHER ->
                    /\ availOut' = IF atOff THEN len ELSE availOut
                    /\ dest' = IF atOff THEN "buf" ELSE dest
                    /\ UNCHANGED offset
          /\ skip' = IF atOff THEN 0 ELSE skip
    /\ pc' = "inner"
    /\ UNCHANGED <<list, off0, len, first, start, dend, bad, dpos, remaining, overread,
                   availIn, buf, zu, hist, ret>>

(***************************************************************************)
(* One iteration of the fill loop (lines 460-476) and, when it ends, the  *)
(* outer loop's tail (lines 479-486).  An empty input is refilled with    *)
(* min(remaining, CHUNK) bytes copied from data, which advances; nothing  *)
(* tests for zero bytes.  A byte copied from outside the caller's buffer  *)
(* is not the member's: if inflate decodes a unit that uses it, the       *)
(* outcome may be the member's data or a data error.                       *)
(***************************************************************************)
Inner ==
    /\ pc = "inner"
    /\ LET n == IF availIn = 0 THEN RefillCount(remaining) ELSE 0
           d1 == dpos + n
           ain0 == IF availIn = 0 THEN n ELSE availIn IN
       \E z \in {NoFlush(zu, d1 - ain0, d1, availOut, bad, hist)} :
       LET ao == availOut - Len(z.out)
       IN /\ remaining' = remaining - n
          /\ dpos' = d1
          /\ overread' = (overread \/ d1 > dend)
          /\ \E garbled \in IF z.taken > dend THEN BOOLEAN ELSE {FALSE} :
               LET r0 == IF garbled THEN Z_DATA_ERROR ELSE z.ret
                   r == IF r0 = Z_NEED_DICT THEN Z_DATA_ERROR ELSE r0
               IN /\ availIn' = d1 - z.taken /\ availOut' = ao
                  /\ zu' = z.u /\ hist' = z.hist
                  /\ buf' = IF dest = "buf" THEN buf \o z.out ELSE buf
                  /\ CASE r \in {Z_MEM_ERROR, Z_DATA_ERROR} -> Finish(r)
                       [] StreamEnded(r) -> Finish(IF skip = 1 THEN 0 ELSE len - ao)
                       [] ao # 0 -> pc' = "inner" /\ UNCHANGED ret
                       [] skip = 1 -> pc' = "outer" /\ UNCHANGED ret
                       [] OTHER -> Finish(len - ao)
    /\ UNCHANGED <<list, off0, len, first, start, dend, bad, offset, dest, skip>>

Done ==
    /\ pc = "done"
    /\ UNCHANGED vars

Next == StartFails \/ Start \/ Outer \/ Inner \/ Done

(* One sequential call: its own steps are taken once enabled; the          *)
(* allocation failure of inflateInit2 is possible, never forced.           *)
Spec == Init /\ [][Next]_vars /\ WF_vars(Start \/ Outer \/ Inner)

-----------------------------------------------------------------------------
(***************************************************************************)
(* Properties.                                                             *)
(***************************************************************************)
Min2(a, b) == IF a < b THEN a ELSE b

\* The bytes a request should return (spec section 8).
Expected ==
    IF len <= 0 \/ off0 >= Len(Data) THEN <<>>
    ELSE SubSeq(Data, off0 + 1, Min2(off0 + len, Len(Data)))

\* The buffer holds the deflate data from the checkpoint to the end.
Covers == dend >= CeilByte(End[LastEob])

(* An extraction from an intact buffer that covers the rest of the deflate *)
(* data                                                                    *)
(* returns exactly the requested bytes of the uncompressed stream, unless *)
(* inflateInit2 failed: it is about the priming byte and data++, the      *)
(* dictionary, the skip loop and the memory refill of                     *)
(* extract_data_from_buffer.                                               *)
BufferExtractCorrect ==
    pc = "done" /\ Covers /\ bad = 0 /\ ret # Z_MEM_ERROR =>
        /\ ret = Len(Expected)
        /\ buf = Expected

(* Every extraction from memory ends.                                      *)
BufferTerminates == <>(pc = "done")

(* extract_data_from_buffer reads only the caller's buffer, bytes         *)
(* [0, datalen) of data: the priming byte and every refill memcpy stay    *)
(* inside it.                                                              *)
BufferReadInBounds == ~overread
=============================================================================
