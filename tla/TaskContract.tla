---------------------------- MODULE TaskContract ----------------------------
(***************************************************************************)
(* What a client that only submits tasks is promised, and sees through     *)
(* GET /tasks/{external_id}: a submitted task waits, runs and settles; a   *)
(* failed run may be repeated after a worker died before acknowledging it, *)
(* a finished task never changes again.  Who carries the task, over which  *)
(* messages and with what reservation, is left out.                        *)
(***************************************************************************)
EXTENDS TaskState

CONSTANT Tasks

VARIABLES status, result

vars == <<status, result>>

Init ==
    /\ status = [t \in Tasks |-> "absent"]
    /\ result = [t \in Tasks |-> FALSE]

Move(t, from, to) ==
    /\ status[t] \in from
    /\ status' = [status EXCEPT ![t] = to]

Submit(t) == Move(t, {"absent"}, "queued") /\ UNCHANGED result

Wait(t) == Move(t, {"queued", "running", "failed"}, "waiting_capacity") /\ UNCHANGED result

Start(t) == Move(t, {"queued", "waiting_capacity", "failed"}, "running") /\ UNCHANGED result

Succeed(t) == Move(t, {"running"}, "finished") /\ result' = [result EXCEPT ![t] = TRUE]

Fail(t) == Move(t, {"running", "waiting_capacity"}, "failed") /\ UNCHANGED result

Next == \E t \in Tasks : Submit(t) \/ Wait(t) \/ Start(t) \/ Succeed(t) \/ Fail(t)

Spec == Init /\ [][Next]_vars
=============================================================================
