---------------------------- MODULE MCZinfoBuild ----------------------------
(***************************************************************************)
(* A model of the builder on the members of MCStreams: a 3-byte window so *)
(* that the ring wraps often, 8-byte reads so that reads end inside units *)
(* and at block boundaries, the real 8-entry first allocation (span 0     *)
(* gives ten checkpoints, so the list is doubled), and three files: the   *)
(* intact member, one cut 5 bytes short, one with a corrupt symbol.        *)
(***************************************************************************)
EXTENDS ZinfoBuild, MCStreams

MCFiles ==
    { [len |-> StreamBytes, bad |-> 0],
      [len |-> StreamBytes - 5, bad |-> 0],
      [len |-> StreamBytes, bad |-> 20] }
=============================================================================
