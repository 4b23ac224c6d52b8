-------------------------- MODULE MCChildProcess --------------------------
(* A child of two lines, pipes of one line, a tail of two, one killed worker. *)
EXTENDS ChildProcess
=============================================================================
