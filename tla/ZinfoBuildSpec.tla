--------------------------- MODULE ZinfoBuildSpec ---------------------------
(***************************************************************************)
(* What a build promises (spec section 4.B), with no loop, ring or         *)
(* counters: a call on an intact file returns, in one step, the index with *)
(* a checkpoint at every block start that is at output 0 or more than span *)
(* bytes after the previous checkpoint, each holding the window before it; *)
(* a truncated or corrupt file yields Z_DATA_ERROR; a failure of the       *)
(* environment (no file, a read error, no memory) yields its code.  The    *)
(* build always ends.  ZinfoBuild is checked to implement this.            *)
(***************************************************************************)
EXTENDS ZinfoPlacement

CONSTANTS
    Spans, Files, NULL,
    Reference    \* the reference index for every span

ASSUME Reference = [s \in Spans |-> RefIndex(s)]

VARIABLES span, file, result

Intact(f) == f.bad = 0 /\ f.len = StreamBytes

EnvFailures == {-80, Z_ERRNO, Z_MEM_ERROR}

\* A result is the call's return value and *idx.
Failed(r) == [done |-> TRUE, ret |-> r, idx |-> NULL]

Outcomes(s, f) ==
    (IF Intact(f)
       THEN {[done |-> TRUE, ret |-> Reference[s].size, idx |-> Reference[s]]}
       ELSE {Failed(Z_DATA_ERROR)})
    \cup {Failed(r) : r \in EnvFailures}

Pending == [done |-> FALSE, ret |-> 0, idx |-> NULL]

Init ==
    /\ span \in Spans /\ file \in Files
    /\ result = Pending

Build ==
    /\ result = Pending
    /\ result' \in Outcomes(span, file)
    /\ UNCHANGED <<span, file>>

Spec == Init /\ [][Build]_<<span, file, result>> /\ WF_<<span, file, result>>(Build)
=============================================================================
