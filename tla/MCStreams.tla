----------------------------- MODULE MCStreams -----------------------------
(***************************************************************************)
(* The gzip members the models are checked on.  MCBlocks has ten blocks   *)
(* whose boundaries fall at many bit offsets (checkpoints with 0, 2, 3,    *)
(* 4, 5 and 7 bits), matches that reach back across block boundaries       *)
(* and up to the whole 3-byte window, and 15 bytes of output.              *)
(***************************************************************************)
EXTENDS ZinfoPlacement

B(h, s, e, l) == [hdr |-> h, syms |-> s, eob |-> e, last |-> l]

MCBlocks ==
    << B(3, <<Lit(1, 5), Lit(2, 6)>>, 7, FALSE),
       B(5, <<Ref(2, 6)>>, 4, FALSE),
       B(3, <<Lit(3, 8), Ref(3, 5)>>, 7, FALSE),
       B(6, <<Ref(1, 3)>>, 2, FALSE),
       B(3, <<Lit(1, 6)>>, 7, FALSE),
       B(4, <<Ref(3, 4), Lit(2, 5)>>, 3, FALSE),
       B(3, <<Ref(2, 9)>>, 7, FALSE),
       B(5, <<Lit(3, 5)>>, 6, FALSE),
       B(3, <<Ref(1, 4), Ref(3, 6)>>, 7, FALSE),
       B(3, <<Lit(1, 5), Ref(2, 5)>>, 7, TRUE) >>

(* The same member written by a compressor that flushed before writing    *)
(* any data (Z_SYNC_FLUSH, or Flush() in Go's compress/gzip): the first   *)
(* block is an empty stored block, 3 header bits, 5 bits of padding and   *)
(* LEN/NLEN, with no output.                                               *)
MCBlocksFlushedFirst ==
    <<B(3, <<>>, 37, FALSE)>> \o SubSeq(MCBlocks, 1, 2) \o <<MCBlocks[10]>>

\* The indexes the builder produces for the stream by the placement rule
\* (MCZinfoBuild checks the builder against it): span 0, a checkpoint at
\* every block, and span 10, two checkpoints.
MCIndexes == {RefIndex(0).list, RefIndex(10).list}

\* A corrupt unit for the extractors: none, or the literal of the last block.
MCCorrupt == {0, Len(Units) - 3}
=============================================================================
