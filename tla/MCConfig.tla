------------------------------ MODULE MCConfig ------------------------------
(* Small instances of RuntimeConfig for TLC. *)
EXTENDS RuntimeConfig

CONSTANTS topk, secret, v0, v1, bad, api, worker, a1, a2, b1

AllDeployed == [k \in Keys |-> v0]

(* An override is in force when the service starts, and somebody has put a
   row for a credential into the table by hand. *)
OldRows == [k \in Keys |-> v1]

ApiAndWorker == [h \in Threads |-> IF h = b1 THEN worker ELSE api]
=============================================================================
