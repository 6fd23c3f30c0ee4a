----------------------------- MODULE MCRegistry -----------------------------
(* Registry on a small instance. *)
EXTENDS Registry, TLC

CONSTANTS k1, k2
=============================================================================
