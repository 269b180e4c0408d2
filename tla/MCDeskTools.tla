---------------------------- MODULE MCDeskTools ----------------------------
(* Instances of DeskTools for TLC. *)
EXTENDS DeskTools

CONSTANTS room, excess

\* As in comparison.yaml, the room counts for more than the excess.
MCWeight == (room :> 2) @@ (excess :> 1)
=============================================================================
