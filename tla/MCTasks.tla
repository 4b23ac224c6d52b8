------------------------------ MODULE MCTasks ------------------------------
(* Small instances of TaskLifecycle for TLC: one worker process of two      *)
(* threads, or the two worker processes of the deployment.                  *)
EXTENDS TaskLifecycle, TLC

CONSTANTS t1, t2, r1, r2, r3, w1, w2, default, llm

(* A light and a heavy task, or tasks that are all alike. *)
ByTask == [t \in Tasks |-> IF t = t1 THEN 1 ELSE 2]
Equal == [t \in Tasks |-> 1]

OneQueue == [t \in Tasks |-> default]
OnePool == [w \in Threads |-> default]

(* Scenario tasks go to the default queue, uploads to the llm one, each      *)
(* served by a worker process of its own.                                   *)
TwoQueues == [t \in Tasks |-> IF t = t1 THEN default ELSE llm]
TwoPools == [w \in Threads |-> IF w = w1 THEN default ELSE llm]

(* Requests and threads are interchangeable, and tasks of one priority are. *)
Symmetry == Permutations(Requests) \cup Permutations(Threads) \cup Permutations(Tasks)
=============================================================================
