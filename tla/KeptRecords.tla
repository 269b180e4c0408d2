---------------------------- MODULE KeptRecords ----------------------------
(***************************************************************************)
(* What is kept of a call beyond the process that handled it: its rows     *)
(* (StoredCall) and its recording (CallTape).  Both live through stops     *)
(* between any two writes.  They share the database and no row of it, and  *)
(* neither reads what the other writes, so a property of one is decided by *)
(* the behaviours in which only that one moves.  `kept` says which.        *)
(***************************************************************************)
EXTENDS StoredCall, CallTape

VARIABLE kept

keptVars == <<vars, tapeVars, kept>>

KeptInit ==
    /\ kept \in {"rows", "tape"}
    /\ Init /\ TapeInit
    /\ kept = "rows" => keep = Min(Retentions)

InRows == kept = "rows" /\ UNCHANGED <<tapeVars, kept>>

InTape == kept = "tape" /\ UNCHANGED <<vars, kept>>

KeptNext ==
    \/ InRows /\ Next
    \/ InTape /\ TapeNext

KeptSpec == KeptInit /\ [][KeptNext]_keptVars

-----------------------------------------------------------------------------
\* For TLC: handlers are interchangeable, and so are recorded calls.
Interchangeable == Permutations(Jobs) \cup Permutations(Calls)
=============================================================================
