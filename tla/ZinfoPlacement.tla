--------------------------- MODULE ZinfoPlacement ---------------------------
(***************************************************************************)
(* The index the spec (section 4.B) says a build of the member produces:  *)
(* walking the block starts in stream order, a checkpoint at each one     *)
(* that is at output 0 or more than span bytes after the previous         *)
(* checkpoint, holding the position, the unused bits of the byte before   *)
(* and the window before it.  No variables: the reference of              *)
(* ZinfoBuildSpec, and the indexes the extractor models are given.         *)
(***************************************************************************)
EXTENDS Deflate

\* The checkpoint the spec places at block start b: in_off is the first
\* full byte after the boundary, bits the unused bits of the byte before.
RefCheckpoint(b) ==
    LET in == CeilByte(StartBit(b))
    IN [in |-> in, out |-> OutBefore(b), bits |-> in * 8 - StartBit(b),
        window |-> Window(OutBefore(b))]

\* The placement rule applied to the block starts in stream order.
RECURSIVE Place(_, _, _, _)
Place(bs, s, lastOut, acc) ==
    IF bs = <<>> THEN acc
    ELSE LET b == Head(bs)
             o == OutBefore(b)
         IN IF o = 0 \/ o - lastOut > s
              THEN Place(Tail(bs), s, o, Append(acc, RefCheckpoint(b)))
              ELSE Place(Tail(bs), s, lastOut, acc)

RefIndex(s) ==
    LET l == Place(BlockStartSeq, s, 0, <<>>)
    IN [list |-> l, size |-> Len(l), span |-> s, version |-> 2]
=============================================================================
