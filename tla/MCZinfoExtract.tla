--------------------------- MODULE MCZinfoExtract ---------------------------
(***************************************************************************)
(* A model of the file extractor on the indexes the builder produces for  *)
(* MCBlocks with span 0 (a checkpoint at every block) and span 10 (two    *)
(* checkpoints, so that a request skips several windows), every offset in *)
(* and just past the 15-byte stream, lengths that end inside and past the *)
(* stream, a negative length, and the file intact, missing half of its    *)
(* trailer, or cut inside the deflate data.                               *)
(***************************************************************************)
EXTENDS ZinfoExtract, MCStreams

MCOffsets == 0..Len(Data) + 1

MCLens == {-1, 0, 1, 3, 20}

MCFileLens == {StreamBytes, StreamBytes - 4, StreamBytes - 12}
=============================================================================
