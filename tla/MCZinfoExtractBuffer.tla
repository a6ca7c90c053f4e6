------------------------ MODULE MCZinfoExtractBuffer ------------------------
(***************************************************************************)
(* The buffer extractor on the indexes of MCStreams, every offset in and  *)
(* just past the stream, with first_checkpoint the checkpoint for the     *)
(* offset.  The caller's buffer ends at the end of the deflate data or at *)
(* the end of the member; MCDataEndsShort adds a buffer that stops three  *)
(* bytes short of the end of the deflate data.                             *)
(***************************************************************************)
EXTENDS ZinfoExtractBuffer, MCStreams

MCOffsets == 0..Len(Data) + 1

MCLens == {-1, 0, 1, 3, 20}

DeflateEnd == CeilByte(End[LastEob])

MCDataEnds == {DeflateEnd, StreamBytes}

MCDataEndsShort == {DeflateEnd - 3, StreamBytes}
=============================================================================
