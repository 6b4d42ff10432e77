------------------------------ MODULE MCIdMap ------------------------------
(* A small instance of IdMap for TLC: ids of two bits. *)
EXTENDS IdMap, TLC
=============================================================================
