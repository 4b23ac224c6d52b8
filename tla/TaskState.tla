----------------------------- MODULE TaskState -----------------------------
(***************************************************************************)
(* The two pure policies the task service is built on: the status machine  *)
(* of a pipeline task (service/domain/task_state.py) and the reservation   *)
(* of priority capacity (service/domain/capacity_policy.py).               *)
(***************************************************************************)
EXTENDS Integers

Status == {"queued", "waiting_capacity", "running", "finished", "failed"}

(* Mutants, here and in the other modules, are operators named Mut...: the *)
(* definition after them as a plausible bug would have it.  Nothing uses   *)
(* them but the mutation runs PROJECT.json lists.                          *)
MutReopens ==
    [s \in Status |-> IF s \in {"running", "queued", "waiting_capacity"}
                      THEN Status \ {s} ELSE {"queued", "running"}]

(* _ALLOWED_TRANSITIONS; a status without an entry has no successor. *)
AllowedTransitions ==
    [s \in Status |->
        CASE s = "queued"           -> {"waiting_capacity", "running", "failed"}
          [] s = "waiting_capacity" -> {"running", "failed"}
          [] s = "running"          -> {"finished", "failed"}
          [] s = "failed"           -> {"queued"}
          [] s = "finished"         -> {}]

CanTransition(current, target) == target \in AllowedTransitions[current]

Terminal == {"finished", "failed"}

Active == Status \ Terminal

MutFitsAlways(current, priority, limit) == TRUE

(* try_reserve: refused when the sum would pass the limit, else the new sum. *)
Fits(current, priority, limit) == current + priority <= limit

MutReleaseUnfloored(current, priority) == current - priority

(* release: never negative. *)
Release(current, priority) ==
    IF current >= priority THEN current - priority ELSE 0
=============================================================================
