----------------------------- MODULE ZinfoCodec -----------------------------
(***************************************************************************)
(* The blob codec and the index accessors that read a decoded index:      *)
(* zinfo_to_blob, blob_to_zinfo, get_blob_size, pt_index_from_ucmp_offset  *)
(* and free_zinfo (src/ztoc/compression/gzip_zinfo.c:96-155, 497-602).     *)
(*                                                                         *)
(* One caller's session: an index, either built (handed over by the       *)
(* builder) or decoded from a blob, is looked up, serialized into a buffer *)
(* of get_blob_size bytes and freed; a serialized built index is loaded    *)
(* again, on a host of either byte order.  A blob is its header fields    *)
(* (the int32 checkpoint count and the span), the packed checkpoints it   *)
(* holds and the trailing bytes that do not make a whole checkpoint; a    *)
(* numeric field of a blob is its bytes read as a little-endian number.   *)
(* The index keeps its fields as the code stores them, encoded with       *)
(* htole (lines 59-73), and every read decodes them.  Sizes are computed  *)
(* in 32-bit unsigned arithmetic, modulo UINT; int32 and offset_t fields  *)
(* are both scaled to the bytes of UINT.                                   *)
(***************************************************************************)
EXTENDS ZinfoWindow, Sequences

CONSTANTS
    UINT,        \* 2^32, scaled: the range of unsigned and of int32
    Inputs,      \* [blob, orig]: a blob the caller loads and the index it
                 \*  was serialized from (NULL for one from elsewhere)
    Built,       \* indexes the builder hands over: [list, span]
    Offsets,     \* uncompressed offsets looked up
    NULL, JUNK   \* no index/blob; a value read past the end of a buffer

PACKED_CHECKPOINT_SIZE == 8 + 8 + 1 + WINSIZE
BLOB_HEADER_SIZE == 4 + 8
ZINFO_VERSION_ONE == 1
ZINFO_VERSION_CUR == 2
GZIP_ZINFO_INDEX_NULL == -81

BlobLen(b) == BLOB_HEADER_SIZE + PACKED_CHECKPOINT_SIZE * Len(b.cps) + b.extra

\* A negative extra is a buffer shorter than the header.
ASSUME \A i \in Inputs : /\ i.blob.count \in -(UINT \div 2)..(UINT \div 2 - 1)
                         /\ i.blob.extra \in -BLOB_HEADER_SIZE..PACKED_CHECKPOINT_SIZE - 1
                         /\ i.blob.extra < 0 => i.blob.cps = <<>>

VARIABLES
    pc,          \* "from", "use", "to", "free", "done"
    blob,        \* the blob being decoded, or NULL
    orig,        \* the index that blob was made from (NULL if unknown)
    index,       \* NULL or [version, have, size, list, span]
    heap,        \* live allocations: [zinfo, list]
    out,         \* the blob zinfo_to_blob wrote, or NULL
    cap,         \* bytes of the buffer the caller allocated for it
    ret,
    overread,    \* blob_to_zinfo read past the end of its buffer
    listOob,     \* an accessor read a list entry past the list
    looked,      \* the offset last looked up (-1: none)
    host         \* byte order of the machine running the session

vars == <<pc, blob, orig, index, heap, out, cap, ret, overread, listOob, looked, host>>

-----------------------------------------------------------------------------
\* (unsigned)x, and an unsigned returned as int.
U32(x) == x % UINT
AsInt(u) == IF u >= UINT \div 2 THEN u - UINT ELSE u

ByteOrders == {"le", "be"}

\* The bytes of a scaled int32 or offset_t.
WIDTH == CHOOSE n \in 1..4 : 256^n = UINT
ASSUME \E n \in 1..4 : 256^n = UINT

\* x, an unsigned number of n bytes, with its bytes reversed.
RECURSIVE ByteSwap(_, _)
ByteSwap(x, n) == IF n = 0 THEN 0 ELSE (x % 256) * 256^(n - 1) + ByteSwap(x \div 256, n - 1)

\* htole/letoh on a host of byte order h: the identity on a little-endian
\* host, a byte swap on a big-endian one.  It is also what memcpy does
\* between a field in memory and its bytes in a blob, read little-endian.
LE(h, x) == IF h = "be" THEN AsInt(ByteSwap(U32(x), WIDTH)) ELSE x

\* encode_offset, decode_offset, encode_int32, decode_int32 (lines 59-73).
EncodeOffset(x) == LE(host, x)
DecodeOffset(x) == LE(host, x)
EncodeInt32(x) == LE(host, x)
DecodeInt32(x) == LE(host, x)

\* Mutant: the decoded field written, as if it were a host value.
FieldBytesDecoded(x) == LE(host, DecodeInt32(x))

\* The bytes zinfo_to_blob copies from a stored header field (lines
\* 508-511).
FieldBytes(x) == LE(host, x)

\* A checkpoint's bytes copied between memory and a blob (lines 522-527,
\* 587-592): the two offsets change byte order, bits and window do not.
CopyCheckpoint(c) == IF c = JUNK THEN JUNK ELSE [c EXCEPT !.in = LE(host, @), !.out = LE(host, @)]

\* The fields of an index as the code reads them.
Have(ix) == DecodeInt32(ix.have)
Decoded(c) == IF c = JUNK THEN JUNK ELSE [c EXCEPT !.in = DecodeOffset(@), !.out = DecodeOffset(@)]
DecodedList(ix) == [i \in DOMAIN ix.list |-> Decoded(ix.list[i])]

\* get_ucomp_off (lines 110-112): the uncompressed offset of checkpoint cp.
GetUcompOff(ix, cp) == DecodeOffset(ix.list[cp + 1].out)

\* get_max_span_id (lines 136-140): have - 1, or 0 for a NULL index.
GetMaxSpanId(ix) == IF ix = NULL THEN 0 ELSE Have(ix) - 1

\* Mutant: the v1 decrement left out.
BlobSizeNoV1Skip(ix) ==
    IF ix = NULL THEN 0
    ELSE U32(PACKED_CHECKPOINT_SIZE * U32(DecodeInt32(ix.size)) + BLOB_HEADER_SIZE)

(***************************************************************************)
(* get_blob_size (lines 118-134): size, less one for a v1 index, times     *)
(* PACKED_CHECKPOINT_SIZE plus the header, all unsigned.                   *)
(***************************************************************************)
BlobSize(ix) ==
    IF ix = NULL THEN 0
    ELSE LET n == U32(DecodeInt32(ix.size))
                  - (IF DecodeInt32(ix.version) = ZINFO_VERSION_ONE THEN 1 ELSE 0)
         IN U32(PACKED_CHECKPOINT_SIZE * U32(n) + BLOB_HEADER_SIZE)

\* Packed checkpoint k (from 0) of blob b: the bytes at
\* 12 + PACKED_CHECKPOINT_SIZE * k, which lie in the buffer only when the
\* blob holds a whole checkpoint there.
ReadSlot(b, k) == IF k < Len(b.cps) THEN b.cps[k + 1] ELSE JUNK

\* Mutant: checkpoint 0 at compressed offset 0, the gzip header forgotten.
Pt0NoHeader == [in |-> EncodeOffset(0), out |-> 0, bits |-> 0, window |-> [j \in 0..WINSIZE - 1 |-> 0]]

\* The synthetic checkpoint 0 of a v1 blob (lines 576-582).
Pt0 == [in |-> EncodeOffset(10), out |-> 0, bits |-> 0, window |-> [j \in 0..WINSIZE - 1 |-> 0]]

\* Mutant: any buffer at least as long as the claimed size taken for v2.
BlobVersionLenient(b) ==
    LET claimed == U32(PACKED_CHECKPOINT_SIZE * U32(b.count) + BLOB_HEADER_SIZE)
    IN CASE claimed >= BlobLen(b) -> ZINFO_VERSION_CUR
         [] claimed - PACKED_CHECKPOINT_SIZE = BlobLen(b) -> ZINFO_VERSION_ONE
         [] OTHER -> 0

\* The version blob_to_zinfo infers from the length (lines 554-565), 0 for
\* an invalid length.  claimed_size is the 32-bit unsigned product widened
\* to offset_t.
BlobVersion(b) ==
    LET claimed == U32(PACKED_CHECKPOINT_SIZE * U32(b.count) + BLOB_HEADER_SIZE)
    IN CASE claimed = BlobLen(b) -> ZINFO_VERSION_CUR
         [] claimed - PACKED_CHECKPOINT_SIZE = BlobLen(b) -> ZINFO_VERSION_ONE
         [] OTHER -> 0

\* Mutants: only the list freed; the NULL check dropped.
FreeZinfoListOnly(h, ix) == IF ix = NULL THEN h ELSE [h EXCEPT !.list = @ - 1]
FreeZinfoUnguarded(h, ix) == [h EXCEPT !.zinfo = @ - 1, !.list = @ - 1]

\* free_zinfo (lines 150-155).
FreeZinfo(h, ix) == IF ix = NULL THEN h ELSE [h EXCEPT !.zinfo = @ - 1, !.list = @ - 1]

Live(ix) == [a \in {"zinfo", "list"} |-> IF ix = NULL THEN 0 ELSE 1]

\* A checkpoint as add_checkpoint stores it (lines 188-191).
StoredCheckpoint(c) == [c EXCEPT !.in = EncodeOffset(@), !.out = EncodeOffset(@)]

\* The index generate_zinfo_from_fp hands over (lines 283-289): its
\* counts, span and version encoded.
AsIndex(ix) ==
    [version |-> EncodeInt32(ZINFO_VERSION_CUR), have |-> EncodeInt32(Len(ix.list)),
     size |-> EncodeInt32(Len(ix.list)),
     list |-> [i \in DOMAIN ix.list |-> StoredCheckpoint(ix.list[i])],
     span |-> EncodeOffset(ix.span)]

Init ==
    /\ host \in ByteOrders
    /\ \/ \E i \in Inputs : blob = i.blob /\ orig = i.orig /\ index = NULL
                            /\ pc = "from" /\ heap = Live(NULL)
       \/ \E ix \in Built \cup {NULL} :
             /\ index = IF ix = NULL THEN NULL ELSE AsIndex(ix)
             /\ orig = ix /\ blob = NULL /\ pc = "use" /\ heap = Live(index)
    /\ out = NULL /\ cap = 0 /\ ret = 0 /\ overread = FALSE /\ listOob = FALSE
    /\ looked = -1

\* blob_to_zinfo returns NULL, the heap left as h.
Refuse(h) == index' = NULL /\ heap' = h /\ pc' = "done" /\ UNCHANGED overread

(***************************************************************************)
(* blob_to_zinfo (lines 535-602): refuse a blob shorter than the header;  *)
(* malloc the struct; read the count and span; infer the version from the *)
(* length, returning NULL on any other length; malloc count entries (a    *)
(* negative count asks for more than can exist); on failure free_zinfo;   *)
(* for v1 write the synthetic checkpoint 0; copy the packed checkpoints   *)
(* from first_checkpoint_index to count - 1; have = size = count.  The   *)
(* count and span are memcpy'd in; the count is decoded to use it.        *)
(***************************************************************************)
FromBlob ==
    /\ pc = "from"
    /\ \E structOk, listOk \in BOOLEAN :
         LET b == blob
             v == BlobVersion(b)
             first == IF v = ZINFO_VERSION_ONE THEN 1 ELSE 0
             list == [i \in 1..b.count |->
                        IF i = 1 /\ first = 1 THEN Pt0
                        ELSE CopyCheckpoint(ReadSlot(b, i - 1 - first))]
         IN CASE BlobLen(b) < BLOB_HEADER_SIZE \/ ~structOk -> Refuse(heap)
              [] v = 0 -> Refuse([heap EXCEPT !.zinfo = @ + 1])
              [] b.count < 0 \/ ~listOk -> Refuse(heap)
              [] OTHER ->
                   /\ index' = [version |-> EncodeInt32(v), have |-> LE(host, b.count),
                                size |-> LE(host, b.count), list |-> list,
                                span |-> LE(host, b.span)]
                   /\ heap' = [heap EXCEPT !.zinfo = @ + 1, !.list = @ + 1]
                   /\ overread' = (overread \/ b.count - first > Len(b.cps))
                   /\ pc' = "use"
    /\ UNCHANGED <<blob, orig, out, cap, ret, listOob, looked, host>>

\* Mutant: a walk that stops at a checkpoint exactly at off.
RECURSIVE WalkStrict(_, _, _, _, _)
WalkStrict(ix, off, res, r, rd) ==
    IF r - 1 = 0 THEN [res |-> res, reads |-> rd]
    ELSE LET k == res + 1
             e == IF k < Len(ix.list) THEN ix.list[k + 1] ELSE JUNK
         IN IF e # JUNK /\ DecodeOffset(e.out) < off
              THEN WalkStrict(ix, off, res + 1, r - 1, rd \cup {k})
              ELSE [res |-> res, reads |-> rd \cup {k}]

\* A walk that tests ret before decrementing it (while (ret-- && ...)).
RECURSIVE WalkPostDecrement(_, _, _, _, _)
WalkPostDecrement(ix, off, res, r, rd) ==
    IF r = 0 THEN [res |-> res, reads |-> rd]
    ELSE LET k == res + 1
             e == IF k < Len(ix.list) THEN ix.list[k + 1] ELSE JUNK
         IN IF e # JUNK /\ DecodeOffset(e.out) <= off
              THEN WalkPostDecrement(ix, off, res + 1, r - 1, rd \cup {k})
              ELSE [res |-> res, reads |-> rd \cup {k}]

(***************************************************************************)
(* The loop of pt_index_from_ucmp_offset (lines 99-107): res from 0, ret  *)
(* from have; while (--ret && here[1].out <= off) advance.  rd collects   *)
(* the entries read.  An entry past the list is not the index's: what it *)
(* holds is undefined, and the walk is cut there.                         *)
(***************************************************************************)
RECURSIVE Walk(_, _, _, _, _)
Walk(ix, off, res, r, rd) ==
    IF r - 1 = 0 THEN [res |-> res, reads |-> rd]
    ELSE LET k == res + 1
             e == IF k < Len(ix.list) THEN ix.list[k + 1] ELSE JUNK
         IN IF e # JUNK /\ DecodeOffset(e.out) <= off
              THEN Walk(ix, off, res + 1, r - 1, rd \cup {k})
              ELSE [res |-> res, reads |-> rd \cup {k}]

\* pt_index_from_ucmp_offset (lines 96-108), the lookup every extraction
\* starts with: -1 for no index.
Lookup ==
    /\ pc = "use"
    /\ \E off \in Offsets :
         /\ looked' = off
         /\ IF index = NULL THEN ret' = -1 /\ UNCHANGED listOob
            ELSE LET w == Walk(index, off, 0, Have(index), {})
                 IN /\ ret' = w.res
                    /\ listOob' = (listOob \/ \E k \in w.reads : k >= Len(index.list))
    /\ pc' = "to"
    /\ UNCHANGED <<blob, orig, index, heap, out, cap, overread, host>>

\* A serializer that writes checkpoint 0 of a v1 index too.
FirstCheckpointAlways0(ix) == 0

\* first_checkpoint_index of zinfo_to_blob (lines 512-518): a v1 index is
\* re-serialized without its checkpoint 0.
FirstCheckpoint(ix) == IF DecodeInt32(ix.version) = ZINFO_VERSION_ONE THEN 1 ELSE 0

(***************************************************************************)
(* The caller sizes a buffer with get_blob_size and calls zinfo_to_blob   *)
(* (lines 497-533): a NULL index is an error, a NULL buffer returns 0;     *)
(* otherwise it copies have and span_size, then checkpoints               *)
(* first_checkpoint_index .. have - 1, and returns get_blob_size as int.   *)
(***************************************************************************)
ToBlob ==
    /\ pc = "to"
    /\ \E bufNull \in BOOLEAN :
         CASE index = NULL -> ret' = GZIP_ZINFO_INDEX_NULL /\ out' = NULL /\ cap' = 0
           [] bufNull -> ret' = 0 /\ out' = NULL /\ cap' = 0
           [] OTHER ->
                /\ out' = [count |-> FieldBytes(index.have), span |-> FieldBytes(index.span),
                           extra |-> 0,
                           cps |-> LET f == FirstCheckpoint(index)
                                   IN [i \in 1..Have(index) - f |->
                                         CopyCheckpoint(index.list[i + f])]]
                /\ cap' = BlobSize(index)
                /\ ret' = AsInt(BlobSize(index))
    /\ pc' = "free"
    /\ UNCHANGED <<blob, orig, index, heap, overread, listOob, looked, host>>

\* The caller frees the index with free_zinfo.
Free ==
    /\ pc = "free"
    /\ heap' = FreeZinfo(heap, index)
    /\ index' = NULL
    /\ pc' = "done"
    /\ UNCHANGED <<blob, orig, out, cap, ret, overread, listOob, looked, host>>

\* The caller stores the blob of a built index and later loads it again,
\* on a machine of either byte order.
Reload ==
    /\ pc = "done" /\ blob = NULL /\ out # NULL
    /\ blob' = out /\ out' = NULL /\ cap' = 0 /\ pc' = "from"
    /\ host' \in ByteOrders
    /\ UNCHANGED <<orig, index, heap, ret, overread, listOob, looked>>

Done ==
    /\ pc = "done"
    /\ UNCHANGED vars

Next == FromBlob \/ Lookup \/ ToBlob \/ Free \/ Reload \/ Done

Spec == Init /\ [][Next]_vars

-----------------------------------------------------------------------------
(***************************************************************************)
(* Properties.                                                             *)
(***************************************************************************)
\* struct gzip_checkpoint, with in and out in stored form.
Checkpoint == [in : Int, out : Int, bits : 0..7, window : [0..WINSIZE - 1 -> Nat]]

\* struct gzip_zinfo: version, have, size, list and span_size, the numeric
\* fields in stored form; an entry read from past a blob is JUNK.
Zinfo == [version : Int, have : Int, size : Int,
          list : Seq(Checkpoint \cup {JUNK}), span : Int]

Blob == [count : Int, span : Int, cps : Seq(Checkpoint \cup {JUNK}), extra : Int]

TypeOK ==
    /\ pc \in {"from", "use", "to", "free", "done"}
    /\ blob \in Blob \cup {NULL} /\ out \in Blob \cup {NULL}
    /\ index \in Zinfo \cup {NULL}
    /\ heap \in [{"zinfo", "list"} -> Nat]
    /\ cap \in 0..UINT - 1 /\ ret \in Int
    /\ overread \in BOOLEAN /\ listOob \in BOOLEAN /\ looked \in Offsets \cup {-1}
    /\ host \in ByteOrders

(* Spec 4.D and 8: an index decoded from a blob, v1 or v2, is serialized   *)
(* back to exactly that blob: the same count, span and packed checkpoints *)
(* and the same length.  It is about the version inference from the      *)
(* length in blob_to_zinfo and the v1 skip in zinfo_to_blob.              *)
BlobRoundTrip ==
    out # NULL /\ blob # NULL => out = blob

(* Spec 8 and 9: decoding the blob of an index, on a host of either byte  *)
(* order, yields that index's checkpoints and span, for a v2 blob and for *)
(* a v1 blob of a stream whose gzip header is 10 bytes, where the         *)
(* synthetic checkpoint 0 of blob_to_zinfo stands in for the omitted one. *)
(* It is about the encode/decode of every field the builder and           *)
(* blob_to_zinfo store and the accessors read.                            *)
IndexRoundTrip ==
    index # NULL /\ orig # NULL
      => DecodedList(index) = orig.list /\ DecodeOffset(index.span) = orig.span

(* The blob zinfo_to_blob writes of an index, on a host of either byte    *)
(* order, is the same little-endian layout (lines 55-58): its count, span *)
(* and checkpoints, less checkpoint 0 for a v1 index.  It is about the    *)
(* memcpy of stored, encoded fields in zinfo_to_blob.                     *)
BlobOfIndex ==
    out # NULL /\ orig # NULL
      => /\ out.count = Len(orig.list) /\ out.span = orig.span /\ out.extra = 0
         /\ out.cps \in {orig.list, Tail(orig.list)}

(* blob_to_zinfo reads only the len bytes of the buffer it is given.       *)
BlobReadInBounds == ~overread

(* zinfo_to_blob returns the number of bytes it wrote (gzip_zinfo.h:118-  *)
(* 122), and they fit the buffer of get_blob_size bytes the caller made.  *)
BlobSized ==
    out # NULL => ret = BlobLen(out) /\ BlobLen(out) <= cap

(* pt_index_from_ucmp_offset reads only the entries of the list.           *)
ListReadsInBounds == ~listOob

(* Spec 7: at every step exactly the allocations of the live index exist: *)
(* no path of blob_to_zinfo leaks the struct or the list, and free_zinfo   *)
(* releases both.                                                          *)
MemorySafe == heap = Live(index)

(* Spec 4.C and 8, through the accessors the caller reads an index with: *)
(* on every non-empty decoded or built index of sorted checkpoints,       *)
(* pt_index_from_ucmp_offset returns a span id up to get_max_span_id whose *)
(* get_ucomp_off is at or before the offset (or the first), and the next *)
(* span starts after it: its --ret loop stops neither one entry early nor *)
(* late.                                                                   *)
LookupCorrect ==
    pc = "to" /\ index # NULL /\ index.list # <<>>
      /\ JUNK \notin {index.list[i] : i \in DOMAIN index.list}
      => /\ ret \in 0..GetMaxSpanId(index)
         /\ ret = 0 \/ GetUcompOff(index, ret) <= looked
         /\ ret < GetMaxSpanId(index) => looked < GetUcompOff(index, ret + 1)
=============================================================================
