---------------------------- MODULE ZinfoExtract ----------------------------
(***************************************************************************)
(* The extractor: extract_data_from_file and extract_data_from_fp          *)
(* (src/ztoc/compression/gzip_zinfo.c:309-409).                            *)
(*                                                                         *)
(* Given an index, an uncompressed offset and a length, the extractor     *)
(* picks the last checkpoint at or before the offset, seeks to it, primes *)
(* the raw inflater with the bits of the byte before in (if any), loads   *)
(* the checkpoint's window as the dictionary, inflates and discards up to  *)
(* WINSIZE bytes at a time until the offset, then inflates into the       *)
(* caller's buffer.  Each step is the prologue, one iteration of the outer *)
(* loop's head (lines 349-362) or one iteration of the inner loop with the *)
(* outer loop's tail (lines 364-390).                                      *)
(***************************************************************************)
EXTENDS Deflate, FiniteSets

CONSTANTS
    CHUNK,       \* fread size (1 << 14, scaled)
    UINT,        \* 2^32: the range of unsigned, for the (unsigned) cast, scaled
    Indexes,     \* checkpoint lists the caller may pass (built by ZinfoBuild)
    Offsets,     \* requested uncompressed offsets
    Lens,        \* requested lengths
    FileLens,    \* lengths of the file on disk (intact or cut short)
    Corrupt      \* the file's corrupt unit, 0 for none

GZIP_ZINFO_FILE_NOT_FOUND == -80

VARIABLES
    pc,          \* "start", "outer", "inner", "done"
    list,        \* index->list
    off0, len,   \* the request
    flen,        \* the file's length
    bad,         \* its corrupt unit
    offset,      \* the code's offset: bytes still to skip
    here,        \* the chosen checkpoint
    fpos,        \* file position: the next byte fread returns
    availIn, availOut,
    dest,        \* where next_out points: "discard" or "buf"
    buf,         \* the bytes written to the caller's buffer
    skip,
    zu, hist,    \* raw inflater: next unit, dictionary and output so far
    ret

vars == <<pc, list, off0, len, flen, bad, offset, here, fpos, availIn, availOut,
          dest, buf, skip, zu, hist, ret>>

TypeOK ==
    /\ pc \in {"start", "outer", "inner", "done"}
    /\ list \in Indexes /\ off0 \in Offsets /\ len \in Lens /\ flen \in FileLens
    /\ bad \in Corrupt /\ offset \in Int /\ here \in DOMAIN list
    /\ fpos \in 0..flen /\ availIn \in 0..CHUNK /\ availOut \in Nat
    /\ dest \in {"discard", "buf"} /\ buf \in Seq(Nat)
    /\ skip \in {0, 1}
    /\ zu \in 0..Len(Units) /\ hist \in Seq(Nat)
    /\ ret \in Int

-----------------------------------------------------------------------------
(* The checkpoint search of lines 321-324: from the first checkpoint,     *)
(* advance while the next one's out is <= off, at most have - 1 times.    *)
RECURSIVE Scan(_, _, _, _)
Scan(l, off, i, r) ==
    IF r - 1 # 0 /\ l[i + 1].out <= off THEN Scan(l, off, i + 1, r - 1) ELSE i

PtIndex(l, off) == Scan(l, off, 1, Len(l))

\* (unsigned)x
Unsigned(x) == IF x >= 0 THEN x ELSE x + UINT

AsSeq(w) == [j \in 1..WINSIZE |-> w[j - 1]]

Init ==
    /\ pc = "start"
    /\ list \in Indexes /\ off0 \in Offsets /\ len \in Lens /\ flen \in FileLens
    /\ bad \in Corrupt /\ offset = off0 /\ here = 1 /\ fpos = 0
    /\ availIn = 0 /\ availOut = 0 /\ dest = "discard" /\ buf = <<>>
    /\ skip = 0 /\ zu = 0 /\ hist = <<>> /\ ret = Z_OK

Finish(r) == ret' = r /\ pc' = "done"

\* A seek that ignores the bits of the checkpoint.
SeekPosWhole(c) == c.in

\* The fseeko target of line 331: the byte before in when the checkpoint
\* starts inside it.
SeekPos(c) == c.in - (IF c.bits # 0 THEN 1 ELSE 0)

\* A refill that counts a full chunk even at the end of the file.
FillCountFull(fl, pos) == CHUNK

\* fread(input, 1, CHUNK, in) (line 366) at file position pos.
FillCount(fl, pos) == IF CHUNK < fl - pos THEN CHUNK ELSE fl - pos

\* A refill that never reports the end of the input.
EndOfInputIgnored(n) == FALSE

\* strm.avail_in == 0 after the fread (line 371): the file is exhausted.
EndOfInput(n) == n = 0

(***************************************************************************)
(* extract_data_from_file and the prologue of extract_data_from_fp (lines *)
(* 401-406, 316-346): fopen; len < 0; the checkpoint search; inflateInit2  *)
(* raw; fseeko to in - 1 if the checkpoint has bits, else to in; getc and  *)
(* inflatePrime with the byte's high 'bits' bits; inflateSetDictionary.    *)
(* The inflater then resumes at bit (in - 1) * 8 + 8 - bits.  The         *)
(* environment's failures are StartFails: fopen (line 403), inflateInit2   *)
(* (line 328), fseeko returning -1, which is returned as is (lines         *)
(* 331-333), and a read error in getc, Z_ERRNO (lines 335-337).            *)
(***************************************************************************)
StartFails ==
    /\ pc = "start"
    /\ \/ Finish(GZIP_ZINFO_FILE_NOT_FOUND) /\ UNCHANGED here
       \/ len >= 0 /\ Finish(Z_MEM_ERROR) /\ here' = PtIndex(list, off0)
       \/ len >= 0 /\ Finish(-1) /\ here' = PtIndex(list, off0)
       \/ /\ len >= 0 /\ list[PtIndex(list, off0)].bits # 0
          /\ Finish(Z_ERRNO) /\ here' = PtIndex(list, off0)
    /\ UNCHANGED <<list, off0, len, flen, bad, offset, fpos, availIn, availOut, dest, buf,
                   skip, zu, hist>>

Start ==
    /\ pc = "start"
    /\ LET h == PtIndex(list, off0)
           c == list[h]
           seekTo == SeekPos(c)
       IN \/ len < 0 /\ Finish(0) /\ UNCHANGED <<offset, here, fpos, skip, zu, hist>>
          \/ /\ len >= 0 /\ c.bits # 0 /\ seekTo >= flen  \* getc at end of file
             /\ Finish(Z_DATA_ERROR)
             /\ here' = h /\ fpos' = seekTo /\ UNCHANGED <<offset, skip, zu, hist>>
          \/ /\ len >= 0 /\ (c.bits = 0 \/ seekTo < flen)
             /\ here' = h
             /\ fpos' = IF c.bits # 0 THEN seekTo + 1 ELSE seekTo
             /\ zu' = UnitAt(IF c.bits # 0 THEN seekTo * 8 + 8 - c.bits ELSE seekTo * 8)
             /\ hist' = AsSeq(c.window)
             /\ offset' = off0 - c.out
             /\ skip' = 1
             /\ pc' = "outer"
             /\ UNCHANGED ret
    /\ UNCHANGED <<list, off0, len, flen, bad, availIn, availOut, dest, buf>>

\* The head of the outer loop (lines 349-362): where the output goes.
Outer ==
    /\ pc = "outer"
    /\ LET atOff == offset = 0 /\ skip = 1
           ao1 == IF atOff THEN len ELSE availOut
           d1 == IF atOff THEN "buf" ELSE dest
       IN /\ CASE offset > WINSIZE ->
                    availOut' = WINSIZE /\ dest' = "discard" /\ offset' = offset - WINSIZE
               [] offset # 0 ->
                    availOut' = Unsigned(offset) /\ dest' = "discard" /\ offset' = 0
               [] OTHER ->
                    availOut' = ao1 /\ dest' = d1 /\ UNCHANGED offset
          /\ skip' = IF atOff THEN 0 ELSE skip
    /\ pc' = "inner"
    /\ UNCHANGED <<list, off0, len, flen, bad, here, fpos, availIn, buf, zu, hist, ret>>

(***************************************************************************)
(* One iteration of the inner loop (lines 364-384), and when it ends the  *)
(* outer loop's tail (lines 387-393): refill the input when empty (a read *)
(* error or end of file ends the extraction), inflate, fail on a memory or *)
(* data error, stop at the end of the stream, loop while avail_out # 0,   *)
(* then repeat the outer loop while skipping.  The result is the bytes    *)
(* written after the offset, or 0 if the offset was never reached.        *)
(***************************************************************************)
Inner ==
    /\ pc = "inner"
    /\ LET n == FillCount(flen, fpos)
       IN \/ /\ availIn = 0 /\ EndOfInput(n)
             /\ Finish(Z_DATA_ERROR)
             /\ UNCHANGED <<fpos, availIn, availOut, buf, zu, hist, skip>>
          \/ /\ availIn # 0 \/ ~EndOfInput(n)
             /\ LET ain0 == IF availIn = 0 THEN n ELSE availIn
                    fp1 == IF availIn = 0 THEN fpos + n ELSE fpos IN
                \E z \in {NoFlush(zu, fp1 - ain0, fp1, availOut, bad, hist)} :
                LET ao == availOut - Len(z.out)
                    r == IF z.ret = Z_NEED_DICT THEN Z_DATA_ERROR ELSE z.ret
                IN /\ fpos' = fp1 /\ availIn' = fp1 - z.taken /\ availOut' = ao
                   /\ zu' = z.u /\ hist' = z.hist
                   /\ buf' = IF dest = "buf" THEN buf \o z.out ELSE buf
                   /\ CASE r \in {Z_MEM_ERROR, Z_DATA_ERROR} -> Finish(r)
                        [] r = Z_STREAM_END ->
                             Finish(IF skip = 1 THEN 0 ELSE len - ao)
                        [] ao # 0 -> pc' = "inner" /\ UNCHANGED ret
                        [] skip = 1 -> pc' = "outer" /\ UNCHANGED ret
                        [] OTHER -> Finish(len - ao)
             /\ UNCHANGED skip
    /\ UNCHANGED <<list, off0, len, flen, bad, offset, here, dest>>

\* ferror(in) after a refill (lines 367-370).
ReadError ==
    /\ pc = "inner" /\ availIn = 0
    /\ Finish(Z_ERRNO)
    /\ UNCHANGED <<list, off0, len, flen, bad, offset, here, fpos, availIn, availOut,
                   dest, buf, skip, zu, hist>>

Done ==
    /\ pc = "done"
    /\ UNCHANGED vars

Next == StartFails \/ Start \/ Outer \/ Inner \/ ReadError \/ Done

(* One sequential call: its own steps are taken once enabled; the          *)
(* environment's failures are possible, never forced.                      *)
Spec == Init /\ [][Next]_vars /\ WF_vars(Start \/ Outer \/ Inner)

-----------------------------------------------------------------------------
(***************************************************************************)
(* Properties.                                                             *)
(***************************************************************************)
Min2(a, b) == IF a < b THEN a ELSE b

\* The bytes a request should return (spec section 8).
Expected ==
    IF len <= 0 \/ off0 >= Len(Data) THEN <<>>
    ELSE SubSeq(Data, off0 + 1, Min2(off0 + len, Len(Data)))

EnvFailures == {GZIP_ZINFO_FILE_NOT_FOUND, Z_ERRNO, Z_MEM_ERROR}

\* The file holds all of the deflate data (raw inflate never reads the
\* gzip trailer, so a file missing only (part of) the trailer qualifies).
HasDeflateData == flen >= CeilByte(End[LastEob])

(* A finished extraction from a file that holds all the deflate data, intact,*)
(* returns exactly the bytes of the uncompressed stream from the offset,   *)
(* min(len, size - offset) of them, written to the caller's buffer, unless *)
(* the environment failed.                                                 *)
(* It is about the checkpoint search, the seek and priming, the           *)
(* dictionary, the chunked skip to the offset and the result arithmetic    *)
(* of extract_data_from_fp.                                                *)
ExtractCorrect ==
    pc = "done" /\ HasDeflateData /\ bad = 0 /\ ret \notin EnvFailures =>
        /\ ret = Len(Expected)
        /\ buf = Expected

(* Every extraction ends: the file variant never loops without progress,  *)
(* also when the file is cut short.                                        *)
ExtractTerminates == <>(pc = "done")
=============================================================================
