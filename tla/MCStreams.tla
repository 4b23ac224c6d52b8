----------------------------- MODULE MCStreams -----------------------------
(* A task with one wait, one re-run and one fault, watched by one stream.    *)
EXTENDS Streams

AllKinds == {"status", "report", "chat", "scenario"}

ChatOnly == {"chat"}
=============================================================================
