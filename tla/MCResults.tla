----------------------------- MODULE MCResults -----------------------------
(* Small instances of Results for TLC. *)
EXTENDS Results

CONSTANTS d1, d2
=============================================================================
