----------------------------- MODULE MCLlmCache -----------------------------
(* Small instances of LlmCache for TLC. *)
EXTENDS LlmCache

CONSTANTS q1, q2, h1, h2, h3, p1, p2

(* The first two threads run in one pipeline process, the third in another. *)
TwoProcesses == [h \in Threads |-> IF h = h3 THEN p2 ELSE p1]
=============================================================================
