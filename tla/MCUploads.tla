----------------------------- MODULE MCUploads -----------------------------
(* Small instances of Uploads for TLC. *)
EXTENDS Uploads

CONSTANTS u1, u2, u3, a, meta, alice, bob, r1, r2

(* Alice has two files, Bob has one. *)
Owner == [u \in Ids |-> IF u = u3 THEN bob ELSE alice]

(* One submission carries Alice's token, the other none. *)
Caller == [r \in Requests |-> IF r = r1 THEN alice ELSE Anonymous]

(* Alice's files have the same name, Bob's that of the metadata. *)
OwnNames == [u \in Ids |-> IF u = u3 THEN meta ELSE a]
=============================================================================
