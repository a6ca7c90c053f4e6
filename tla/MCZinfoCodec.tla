---------------------------- MODULE MCZinfoCodec ----------------------------
(***************************************************************************)
(* The codec on the indexes the builder makes of MCStreams (span 0: ten   *)
(* checkpoints, span 10: two), their v2 and v1 blobs, and blobs from       *)
(* elsewhere: one byte too long, cut short inside the last checkpoint, a   *)
(* header cut short, a count one too high or too low, an empty list, and   *)
(* a count whose size wraps.                                               *)
(***************************************************************************)
EXTENDS MCStreams, ZinfoCodec

MCSpans == {0, 10}

MCBuilt == {[list |-> RefIndex(s).list, span |-> s] : s \in MCSpans}

V2Blob(ix) == [count |-> Len(ix.list), span |-> ix.span, cps |-> ix.list, extra |-> 0]

\* A v1 blob omits checkpoint 0.
V1Blob(ix) == [V2Blob(ix) EXCEPT !.cps = Tail(ix.list)]

Valid == {[blob |-> V2Blob(ix), orig |-> ix] : ix \in MCBuilt}
         \cup {[blob |-> V1Blob(ix), orig |-> ix] : ix \in MCBuilt}

Foreign(b) == [blob |-> b, orig |-> NULL]

\* A blob of 11 bytes: no room for the header.
ShortHeader == {Foreign([count |-> 0, span |-> 0, cps |-> <<>>, extra |-> -1])}

\* Blobs of a length no count of theirs matches, or with no room for a header.
Malformed ==
    {Foreign([V2Blob(ix) EXCEPT !.extra = 1]) : ix \in MCBuilt}
    \cup {Foreign([V2Blob(ix) EXCEPT !.count = @ - 1]) : ix \in MCBuilt}
    \cup {Foreign([V2Blob(ix) EXCEPT !.cps = Front(@),
                                      !.extra = PACKED_CHECKPOINT_SIZE - 1]) : ix \in MCBuilt}
    \cup ShortHeader

\* Blobs of a consistent length whose count the builder never writes: one
\* more than the checkpoints held (read as v1), and zero.
Odd ==
    {Foreign([V2Blob(ix) EXCEPT !.count = @ + 1]) : ix \in MCBuilt}
    \cup {Foreign([count |-> 0, span |-> 0, cps |-> <<>>, extra |-> 0])}

\* A blob that holds no whole checkpoint, only header and trailing bytes,
\* whose count makes PACKED_CHECKPOINT_SIZE * count + 12 wrap to its length
\* modulo UINT (a count of 131005 and 31641 bytes at 2^32).
WrapCount == CHOOSE c \in 2..UINT \div 2 - 1 :
                LET rest == U32(PACKED_CHECKPOINT_SIZE * c + BLOB_HEADER_SIZE) - BLOB_HEADER_SIZE
                IN rest \in 1..PACKED_CHECKPOINT_SIZE - 1
Wrapping ==
    {Foreign([count |-> WrapCount, span |-> 0, cps |-> <<>>,
              extra |-> U32(PACKED_CHECKPOINT_SIZE * WrapCount + BLOB_HEADER_SIZE)
                          - BLOB_HEADER_SIZE])}

MCInputsAll == Valid \cup Malformed \cup Odd
MCInputsWellFormed == Valid \cup ShortHeader \cup {Foreign([V2Blob(ix) EXCEPT !.count = @ + 1]) : ix \in MCBuilt}
MCInputsLeak == Valid \cup Malformed
MCInputsEmpty == Valid \cup Odd
MCInputsWrap == Valid \cup Wrapping

MCOffsets == 0..Len(Data) + 1
=============================================================================
