---------------------------- MODULE ZinfoWindow ----------------------------
(***************************************************************************)
(* The window size shared by the stream, the index and its blob: every    *)
(* checkpoint holds the WINSIZE bytes of output before it, and a packed    *)
(* checkpoint in a blob is 8 + 8 + 1 + WINSIZE bytes                        *)
(* (src/compression/gzip_zinfo.h:62-70).                                   *)
(***************************************************************************)
EXTENDS Integers

CONSTANT WINSIZE    \* 32768U in gzip_zinfo.h, scaled

ASSUME WINSIZE \in Nat \ {0}
=============================================================================
