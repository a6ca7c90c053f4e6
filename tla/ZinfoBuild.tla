----------------------------- MODULE ZinfoBuild -----------------------------
(***************************************************************************)
(* The index builder: generate_zinfo_from_file, generate_zinfo_from_fp and *)
(* add_checkpoint (src/ztoc/compression/gzip_zinfo.c:150-307).            *)
(*                                                                         *)
(* The builder reads the file CHUNK bytes at a time, calls                *)
(* inflate(Z_BLOCK) into a WINSIZE-byte window used as a ring, keeps its  *)
(* own counters totin/totout, and at a block boundary that is not after   *)
(* the last block, and more than span bytes after the last checkpoint (or *)
(* at output 0), appends a checkpoint holding the linearized ring.  Each  *)
(* step of the model is one iteration of the outer loop (fread) or of the *)
(* inner loop (inflate and what follows it).  Numeric fields are kept     *)
(* decoded: encode_int32/encode_offset are applied on every store and     *)
(* decode_* on every load, so their composition is the identity on every  *)
(* host.                                                                   *)
(***************************************************************************)
EXTENDS Deflate, ZinfoPlacement, FiniteSets

CONSTANTS
    CHUNK,       \* fread size (1 << 14 in gzip_zinfo.c, scaled)
    INITSIZE,    \* entries of the first list allocation (8, "<< 3")
    Spans,       \* spans the caller may pass
    Files,       \* files the caller may name: [len, bad]
    ShrinkOutcomes, \* outcomes the allocator may give the shrinking realloc
    NULL

GZIP_ZINFO_FILE_NOT_FOUND == -80
ZINFO_VERSION_CUR == 2

VARIABLES
    pc,          \* "open", "read", "inflate", "done"
    span, file,  \* the call's arguments
    fpos,        \* bytes fread so far
    availIn,     \* strm.avail_in
    availOut,    \* strm.avail_out
    ring,        \* window[WINSIZE], written at next_out = window + WINSIZE - avail_out
    zu,          \* zlib's position: the next unit it decodes
    totin, totout, last,
    index,       \* NULL or [list, size, span, version]
    heap,        \* live allocations: the zinfo struct and its list
    ret,
    idx          \* *idx, the result handed to the caller

vars == <<pc, span, file, fpos, availIn, availOut, ring, zu, totin, totout,
          last, index, heap, ret, idx>>

Checkpoint == [in : Nat, out : Nat, bits : 0..7, window : [0..WINSIZE-1 -> Nat]]

TypeOK ==
    /\ pc \in {"open", "read", "inflate", "done"}
    /\ span \in Spans /\ file \in Files
    /\ fpos \in 0..file.len
    /\ availIn \in 0..CHUNK /\ availOut \in 0..WINSIZE
    /\ ring \in [0..WINSIZE-1 -> Nat]
    /\ totin \in Nat /\ totout \in Nat /\ last \in Nat
    /\ index \in {NULL} \cup [list : Seq(Checkpoint) \cup {NULL}, size : Nat, span : Int, version : Nat]
    /\ idx \in {NULL} \cup [list : Seq(Checkpoint) \cup {NULL}, size : Nat, span : Int, version : Nat]
    /\ heap \in [{"zinfo", "list"} -> Int]
    /\ ret \in Int

-----------------------------------------------------------------------------
\* free_zinfo (gzip_zinfo.c:150-155): frees the list and the struct.
FreeZinfo(h, ix) ==
    IF ix = NULL THEN h ELSE [h EXCEPT !.zinfo = @ - 1, !.list = @ - 1]

\* A copy that forgets the ring's rotation.
LinearWindowUnrotated(w, left) == [j \in 0..WINSIZE-1 |-> w[j]]

\* The ring linearized as add_checkpoint copies it: the 'left' bytes from
\* window + WINSIZE - left, then the WINSIZE - left bytes from window.
LinearWindow(w, left) ==
    [j \in 0..WINSIZE-1 |-> IF j < left THEN w[WINSIZE - left + j] ELSE w[j - left]]

(***************************************************************************)
(* add_checkpoint (gzip_zinfo.c:161-200): the list and heap after adding  *)
(* cp.  The first call allocates the struct and an INITSIZE-entry list, a *)
(* full list is doubled with realloc; allocOk says whether the allocation  *)
(* made by this call succeeds.  On failure the existing index is freed and *)
(* NULL returned.                                                          *)
(***************************************************************************)
\* A version that returns NULL on a failed realloc without freeing the index.
AddCheckpointLeaky(ix, cp, allocOk) ==
    CASE ix = NULL /\ ~allocOk -> [ix |-> NULL, heap |-> heap]
      [] ix = NULL ->
            [ix |-> [list |-> <<cp>>, size |-> INITSIZE, span |-> 0, version |-> 0],
             heap |-> [heap EXCEPT !.zinfo = @ + 1, !.list = @ + 1]]
      [] Len(ix.list) = ix.size /\ ~allocOk -> [ix |-> NULL, heap |-> heap]
      [] Len(ix.list) = ix.size ->
            [ix |-> [ix EXCEPT !.list = Append(@, cp), !.size = 2 * @], heap |-> heap]
      [] OTHER -> [ix |-> [ix EXCEPT !.list = Append(@, cp)], heap |-> heap]

AddCheckpoint(ix, cp, allocOk) ==
    CASE ix = NULL /\ ~allocOk -> [ix |-> NULL, heap |-> heap]
      [] ix = NULL ->
            [ix |-> [list |-> <<cp>>, size |-> INITSIZE, span |-> 0, version |-> 0],
             heap |-> [heap EXCEPT !.zinfo = @ + 1, !.list = @ + 1]]
      [] Len(ix.list) = ix.size /\ ~allocOk -> [ix |-> NULL, heap |-> FreeZinfo(heap, ix)]
      [] Len(ix.list) = ix.size ->
            [ix |-> [ix EXCEPT !.list = Append(@, cp), !.size = 2 * @], heap |-> heap]
      [] OTHER -> [ix |-> [ix EXCEPT !.list = Append(@, cp)], heap |-> heap]

\* The bits field without the "& 7" mask.
CheckpointBitsUnmasked(dtype) == dtype % 256

\* (uint8_t)(strm.data_type & 7) (line 270): the unused bits of the last
\* byte taken at a block boundary.
CheckpointBits(dtype) == dtype % 8

\* The placement test with >= span.
NewAccessPointAtSpan(tout, lst, s) == tout = 0 \/ tout - lst >= s

\* The placement test of line 269: the first boundary (output 0) or more
\* than span bytes of output since the last checkpoint.
NewAccessPoint(tout, lst, s) == tout = 0 \/ tout - lst > s

\* fread(input, 1, CHUNK, in) (line 226) at file position fpos.
ReadCount(f, pos) == IF CHUNK < f.len - pos THEN CHUNK ELSE f.len - pos

\* The epilogue's realloc(index->list, ... * index->have) (line 283), whose
\* result is stored over index->list unchecked: when the allocator fails
\* the shrink the old list stays allocated and index->list becomes NULL.
ShrinkList(l, ok) == IF ok THEN l ELSE NULL

\* build_index_error (gzip_zinfo.c:294-297): inflateEnd, free the index.
Fail(r) ==
    /\ ret' = r
    /\ heap' = FreeZinfo(heap, index)
    /\ index' = NULL
    /\ pc' = "done"

-----------------------------------------------------------------------------
Init ==
    /\ pc = "open"
    /\ span \in Spans /\ file \in Files
    /\ fpos = 0 /\ availIn = 0 /\ availOut = 0
    /\ ring = [j \in 0..WINSIZE-1 |-> 0]
    /\ zu = 1
    /\ totin = 0 /\ totout = 0 /\ last = 0
    /\ index = NULL /\ heap = [a \in {"zinfo", "list"} |-> 0]
    /\ ret = Z_OK /\ idx = NULL

\* generate_zinfo_from_file and the start of generate_zinfo_from_fp
\* (lines 300-303, 210-222): fopen, then inflateInit2(47).
Open ==
    /\ pc = "open"
    /\ \/ ret' = GZIP_ZINFO_FILE_NOT_FOUND
       \/ ret' = Z_MEM_ERROR
    /\ pc' = "done"
    /\ UNCHANGED <<span, file, fpos, availIn, availOut, ring, zu, totin, totout,
                   last, index, heap, idx>>

OpenOk ==
    /\ pc = "open"
    /\ pc' = "read"
    /\ UNCHANGED <<span, file, fpos, availIn, availOut, ring, zu, totin, totout,
                   last, index, heap, ret, idx>>

\* The outer loop body up to the inner loop (lines 224-235): end of file
\* is a data error, else inflate what was read.
Read ==
    /\ pc = "read"
    /\ LET n == ReadCount(file, fpos)
       IN \/ n = 0 /\ Fail(Z_DATA_ERROR) /\ UNCHANGED <<availIn, fpos>>
          \/ /\ n > 0
             /\ availIn' = n /\ fpos' = fpos + n
             /\ pc' = "inflate"
             /\ UNCHANGED <<index, heap, ret>>
    /\ UNCHANGED <<span, file, availOut, ring, zu, totin, totout, last, idx>>

\* ferror(in) after the fread (lines 227-230).
ReadError ==
    /\ pc = "read"
    /\ Fail(Z_ERRNO)
    /\ UNCHANGED <<span, file, fpos, availIn, availOut, ring, zu, totin, totout, last, idx>>

(***************************************************************************)
(* One iteration of the inner loop (lines 238-278): reset the ring when   *)
(* full, inflate(Z_BLOCK), update the counters, fail on a memory or data   *)
(* error, stop at the end of the stream (and then run the epilogue, lines *)
(* 282-291), else maybe add a checkpoint, and loop while input remains.   *)
(***************************************************************************)
Inflate ==
    /\ pc = "inflate"
    /\ LET out0 == IF availOut = 0 THEN WINSIZE ELSE availOut IN
       \E z \in {ZBlock(zu, fpos - availIn, fpos, out0, file.bad)} :
       LET ain == fpos - z.taken
           aout == out0 - Len(z.out)
           tin == totin + availIn - ain
           tout == totout + out0 - aout
           r == IF z.ret = Z_NEED_DICT THEN Z_DATA_ERROR ELSE z.ret
           from == WINSIZE - out0
           ring1 == [j \in 0..WINSIZE-1 |->
                       IF j >= from /\ j < from + Len(z.out) THEN z.out[j - from + 1]
                       ELSE ring[j]]
           boundary == (z.dtype \div 128) % 2 = 1 /\ (z.dtype \div 64) % 2 = 0
           cp == [in |-> tin, out |-> tout, bits |-> CheckpointBits(z.dtype),
                  window |-> LinearWindow(ring1, aout)]
           next == IF ain # 0 THEN "inflate" ELSE "read"
       IN /\ zu' = z.u /\ availIn' = ain /\ availOut' = aout /\ ring' = ring1
          /\ totin' = tin /\ totout' = tout
          /\ CASE r \in {Z_MEM_ERROR, Z_DATA_ERROR} ->
                    Fail(r) /\ UNCHANGED <<last, idx>>
               [] r = Z_STREAM_END ->
                    \E ok \in ShrinkOutcomes :
                      /\ index' = [index EXCEPT !.list = ShrinkList(@, ok),
                                                !.size = Len(index.list),
                                                !.span = span,
                                                !.version = ZINFO_VERSION_CUR]
                      /\ idx' = index'
                      /\ ret' = Len(index.list)
                      /\ pc' = "done"
                      /\ UNCHANGED <<last, heap>>
               [] boundary /\ NewAccessPoint(tout, last, span) ->
                    \E ok \in BOOLEAN :
                      LET a == AddCheckpoint(index, cp, ok)
                      IN IF a.ix = NULL
                           THEN /\ ret' = Z_MEM_ERROR
                                /\ heap' = FreeZinfo(a.heap, a.ix)
                                /\ index' = a.ix /\ pc' = "done"
                                /\ UNCHANGED <<last, idx>>
                           ELSE /\ index' = a.ix /\ heap' = a.heap
                                /\ last' = tout /\ ret' = r /\ pc' = next
                                /\ UNCHANGED idx
               [] OTHER ->
                    /\ ret' = r /\ pc' = next
                    /\ UNCHANGED <<index, heap, last, idx>>
    /\ UNCHANGED <<span, file, fpos>>

\* The caller holds the result; the build is over.
Done ==
    /\ pc = "done"
    /\ UNCHANGED vars

Next == Open \/ OpenOk \/ Read \/ ReadError \/ Inflate \/ Done

(* The builder is one sequential call: each of its own steps is taken once *)
(* enabled.  The environment's failures (fopen, inflateInit2, ferror) are  *)
(* possible, never forced.                                                 *)
Spec == Init /\ [][Next]_vars /\ WF_vars(OpenOk \/ Read \/ Inflate)

-----------------------------------------------------------------------------
(***************************************************************************)
(* Properties.                                                             *)
(***************************************************************************)
Lists == {ix.list : ix \in {index, idx} \ {NULL}} \ {NULL}

(* Every checkpoint the builder records, while building and in the result, *)
(* is a point from which raw inflate can resume (spec invariants 3-5):     *)
(* in*8 - bits is the first bit of a block (never the point after the last *)
(* block), out is the uncompressed offset there, and the window is the     *)
(* WINSIZE bytes before out.  It is about the data_type test, the totin/   *)
(* totout bookkeeping and the ring linearization in add_checkpoint.        *)
CheckpointsResumable ==
    \A l \in Lists : \A i \in DOMAIN l :
        \E b \in BlockStarts : /\ l[i].in * 8 - l[i].bits = StartBit(b)
                              /\ l[i].out = OutBefore(b)
                              /\ l[i].window = Window(l[i].out)

(* The spec's ordering invariant 2: uncompressed offsets strictly increase *)
(* and compressed offsets do not decrease along the list built by the     *)
(* placement test of generate_zinfo_from_fp.                               *)
CheckpointsOrdered ==
    \A l \in Lists : \A i \in 1..Len(l) - 1 :
        l[i].out < l[i+1].out /\ l[i].in <= l[i+1].in

Live(ix) ==
    [a \in {"zinfo", "list"} |->
        IF ix = NULL \/ (a = "list" /\ ix.list = NULL) THEN 0 ELSE 1]

(* Memory: at every step exactly the allocations owned by the index are   *)
(* live (the builder's index while it runs, the caller's *idx after), so   *)
(* no error path of generate_zinfo_from_fp or add_checkpoint leaks the     *)
(* list or the struct, or frees one twice.                                 *)
MemorySafe == heap = Live(IF pc = "done" THEN idx ELSE index)

(* Refinement: the builder implements ZinfoBuildSpec; its outcome is the  *)
(* spec's index for an intact file, Z_DATA_ERROR for a truncated or       *)
(* corrupt one, or an environment failure, and the build terminates.      *)
BuildReference == [s \in Spans |-> RefIndex(s)]

Abs == INSTANCE ZinfoBuildSpec WITH
           result <- [done |-> pc = "done", ret |-> ret, idx |-> idx],
           Reference <- BuildReference

BuildRefinesSpec == Abs!Spec
=============================================================================
