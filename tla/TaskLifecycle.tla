--------------------------- MODULE TaskLifecycle ---------------------------
(***************************************************************************)
(* The life of a pipeline task across the API, the Celery broker, the      *)
(* worker threads and the beat job, all meeting in the database.           *)
(*                                                                         *)
(* Every database session is modelled by the points at which another       *)
(* process can interleave with it: what it loads is kept as a snapshot     *)
(* ("seen", "read"), what it writes reaches the row when it commits, and   *)
(* only the columns that differ from the snapshot are written.  Sessions   *)
(* run under READ COMMITTED; a row read FOR UPDATE is read, computed with  *)
(* and committed in one step.                                              *)
(*                                                                         *)
(* A message is named by the request that enqueued it: a request enqueues  *)
(* at most once, so the name is as unique as a Celery task id.  A retry    *)
(* goes out under the same id with its count one higher; two copies of one *)
(* id and one count are not told apart.                                    *)
(***************************************************************************)
EXTENDS TaskState, FiniteSets

CONSTANTS
    Tasks,          \* ids of pipeline_tasks rows
    Priority,       \* [Tasks -> 1..MaxPriority], fixed when the row is created
    MaxPriority,
    MaxSum,         \* priority_max_sum
    Keys,           \* idempotency keys clients use
    Requests,       \* API requests of one behaviour; bounds creates and enqueues
    Ops,            \* which operations the clients of this instance call
    Queues,         \* Celery queues, each served by one worker process
    QueueOf,        \* [Tasks -> Queues], the routing of enqueue_pipeline_task
    Threads,        \* threads of the worker processes (-P threads)
    PoolOf,         \* [Threads -> Queues]
    MaxRetries,     \* retries of a message that finds no capacity (50)
    Faults,         \* which faults this instance meets
    MaxFaults,      \* how often they may strike, all together
    NoKey, NoTask, NoMsg, NoJob

CreateOps == {"create", "create_retry", "create_force"}

AllOps == CreateOps \cup {"cancel", "recompute"}

AllFaults == {"worker_crash", "crash_after_retry", "api_crash", "enqueue_error",
              "revoke_lost", "redelivery"}

ASSUME CapacityAssumption ==
    /\ IsFiniteSet(Tasks)
    /\ MaxPriority \in Nat
    /\ MaxSum \in Nat
    /\ Priority \in [Tasks -> 1..MaxPriority]

ASSUME DeploymentAssumption ==
    /\ QueueOf \in [Tasks -> Queues]
    /\ PoolOf \in [Threads -> Queues]
    /\ Ops \subseteq AllOps
    /\ MaxRetries \in Nat
    /\ Faults \subseteq AllFaults
    /\ MaxFaults \in Nat

ASSUME NoneAssumption ==
    /\ NoKey \notin Keys
    /\ NoTask \notin Tasks
    /\ NoMsg \notin Requests

VARIABLES
    row,        \* pipeline_tasks with task_idempotency_keys, by task id
    sum,        \* the config row priority_current_sum
    broker,     \* deliveries a worker may take
    revoked,    \* message ids the worker processes were told to drop
    req,        \* API requests in flight
    thread,     \* worker threads
    beat,       \* the running reconcile_priority_current_sum, if any
    faults      \* how many faults have struck

vars == <<row, sum, broker, revoked, req, thread, beat, faults>>

Row == [status : Status \cup {"absent"}, celery : Requests \cup {NoMsg},
        result : BOOLEAN, error : BOOLEAN, key : Keys \cup {NoKey}]

Delivery == [id : Requests, task : Tasks, retries : 0..MaxRetries]

NoRow == [status |-> "absent", celery |-> NoMsg, result |-> FALSE,
          error |-> FALSE, key |-> NoKey]

(* The columns of a loaded row that a commit may compare with. *)
Loaded(r) == [status |-> r.status, error |-> r.error, result |-> r.result]

Snapshot == [status : Status \cup {"absent"}, error : BOOLEAN, result : BOOLEAN]

Nothing == Loaded(NoRow)

NewRequest == [pc |-> "new", task |-> NoTask, key |-> NoKey, seen |-> Nothing]

IdleThread == [pc |-> "idle", job |-> NoJob, seen |-> Nothing, read |-> 0,
               ok |-> FALSE]

IdleBeat == [pc |-> "idle", actual |-> 0]

Init ==
    /\ row = [t \in Tasks |-> NoRow]
    /\ sum = 0
    /\ broker = {}
    /\ revoked = {}
    /\ req = [r \in Requests |-> NewRequest]
    /\ thread = [w \in Threads |-> IdleThread]
    /\ beat = IdleBeat
    /\ faults = 0
-----------------------------------------------------------------------------
(* A column as a commit leaves it: the unit of work emits it only when the  *)
(* new value differs from the one the session loaded.                       *)
Flushed(loaded, new, current) == IF new = loaded THEN current ELSE new

(* One fault of kind k strikes. *)
Strikes(k) ==
    /\ k \in Faults
    /\ faults < MaxFaults
    /\ faults' = faults + 1

Created == {t \in Tasks : row[t].status # "absent"}

Running == {t \in Tasks : row[t].status = "running"}

(* SELECT sum(priority) over a set of tasks, counted in units of priority. *)
Units(S) == {u \in Tasks \X (1..MaxPriority) : u[1] \in S /\ u[2] <= Priority[u[1]]}

PrioritySum(S) == Cardinality(Units(S))

-----------------------------------------------------------------------------
(* API: create_task, recompute and cancel.                                 *)

MutHolderAlive(k) == {t \in Created : k # NoKey /\ row[t].key = k /\ row[t].status # "failed"}

(* The row a key names; a request without a key never finds one. *)
Holder(k) == {t \in Created : k # NoKey /\ row[t].key = k}

MutRerunUnasked(op, status) == status # "running"

(* should_rerun of create_task. *)
ShouldRerun(op, status) ==
    \/ op = "create_force" /\ status \in {"failed", "finished", "queued", "waiting_capacity"}
    \/ op = "create_retry" /\ status = "failed"

(* control.revoke of the message a row names.  The broadcast is best effort:
   an exception is swallowed and a worker that is down never hears it. *)
Revoke(t) ==
    IF row[t].celery = NoMsg
    THEN UNCHANGED <<revoked, faults>>
    ELSE \/ revoked' = revoked \cup {row[t].celery} /\ UNCHANGED faults
         \/ Strikes("revoke_lost") /\ UNCHANGED revoked

RevokeIfPending(t) ==
    IF row[t].status \in {"queued", "waiting_capacity"}
    THEN Revoke(t) ELSE UNCHANGED <<revoked, faults>>

(* The request goes on at pc with nothing of task t loaded. *)
Become(r, pc, t) == req' = [req EXCEPT ![r] = [NewRequest EXCEPT !.pc = pc, !.task = t]]

(* Load task t in the request's session and go on at pc. *)
LoadRow(r, t, pc) ==
    req' = [req EXCEPT ![r] = [NewRequest EXCEPT !.pc = pc, !.task = t, !.seen = Loaded(row[t])]]

(* create_task finds no row for the key, so it will insert one. *)
SubmitNew(r, k) ==
    /\ req[r].pc = "new"
    /\ Ops \cap CreateOps # {}
    /\ Holder(k) = {}
    /\ req' = [req EXCEPT ![r] = [NewRequest EXCEPT !.pc = "insert", !.key = k]]
    /\ UNCHANGED <<row, sum, broker, revoked, thread, beat, faults>>

(* create_task returns the row of a repeated key as it is. *)
SubmitKnown(r, op, k) ==
    /\ req[r].pc = "new"
    /\ op \in Ops \cap CreateOps
    /\ \E t \in Holder(k) :
          /\ ~ShouldRerun(op, row[t].status)
          /\ Become(r, "done", t)
    /\ UNCHANGED <<row, sum, broker, revoked, thread, beat, faults>>

(* create_task decides to run the row of a repeated key again. *)
SubmitRerun(r, op, k) ==
    /\ req[r].pc = "new"
    /\ op \in Ops \cap CreateOps
    /\ \E t \in Holder(k) :
          /\ ShouldRerun(op, row[t].status)
          /\ RevokeIfPending(t)
          /\ LoadRow(r, t, "reset")
    /\ UNCHANGED <<row, sum, broker, thread, beat>>

(* POST /recompute: every status but running is accepted. *)
Recompute(r, t) ==
    /\ req[r].pc = "new"
    /\ "recompute" \in Ops
    /\ row[t].status \in {"finished", "failed", "queued", "waiting_capacity"}
    /\ RevokeIfPending(t)
    /\ LoadRow(r, t, "reset")
    /\ UNCHANGED <<row, sum, broker, thread, beat>>

(* DELETE: the message is revoked whatever the status.  terminate=True does
   nothing to a thread of the threads pool. *)
Cancel(r, t) ==
    /\ req[r].pc = "new"
    /\ "cancel" \in Ops
    /\ row[t].status \in Active
    /\ Revoke(t)
    /\ LoadRow(r, t, "cancel")
    /\ UNCHANGED <<row, sum, broker, thread, beat>>

(* 409: recompute of a running task, cancel of a terminal one. *)
Refuse(r, t) ==
    /\ req[r].pc = "new"
    /\ \/ "recompute" \in Ops /\ row[t].status = "running"
       \/ "cancel" \in Ops /\ row[t].status \in Terminal
    /\ Become(r, "done", t)
    /\ UNCHANGED <<row, sum, broker, revoked, thread, beat, faults>>

(* Row and key go in together; the unique key makes the loser of a race roll
   back and return the winner.  A request without a key starts here. *)
Insert(r, k) ==
    /\ \/ req[r].pc = "insert" /\ req[r].key = k
       \/ req[r].pc = "new" /\ Ops \cap CreateOps # {} /\ k = NoKey
    /\ \/ \E t \in Holder(k) : Become(r, "done", t) /\ UNCHANGED row
       \/ /\ Holder(k) = {}
          /\ \E t \in Tasks \ Created :
                /\ row' = [row EXCEPT ![t] = [NoRow EXCEPT !.status = "queued", !.key = k]]
                /\ Become(r, "enqueue", t)
    /\ UNCHANGED <<sum, broker, revoked, thread, beat, faults>>

(* The re-run commits: error, result and status are reset. *)
ResetRow(r) ==
    LET t == req[r].task
        seen == req[r].seen
    IN  /\ req[r].pc = "reset"
        /\ row' = [row EXCEPT
                     ![t].status = Flushed(seen.status, "queued", @),
                     ![t].error  = Flushed(seen.error, FALSE, @),
                     ![t].result = Flushed(seen.result, FALSE, @)]
        /\ Become(r, "enqueue", t)
        /\ UNCHANGED <<sum, broker, revoked, thread, beat, faults>>

(* After the commit the expired row is loaded again, then the message goes
   out under a fresh id. *)
Enqueue(r) ==
    LET t == req[r].task
    IN  /\ req[r].pc = "enqueue"
        /\ LoadRow(r, t, "stamp")
        /\ broker' = broker \cup {[id |-> r, task |-> t, retries |-> 0]}
        /\ UNCHANGED <<row, sum, revoked, thread, beat, faults>>

(* The broker refuses.  The handler marks the task failed and raises; the
   exception leaves session_scope, which rolls the mark back. *)
EnqueueFails(r) ==
    /\ req[r].pc = "enqueue"
    /\ Strikes("enqueue_error")
    /\ Become(r, "done", req[r].task)
    /\ UNCHANGED <<row, sum, broker, revoked, thread, beat>>

MutStampNoId(r) ==
    /\ req[r].pc = "stamp"
    /\ Become(r, "done", req[r].task)
    /\ UNCHANGED <<row, sum, broker, revoked, thread, beat, faults>>

(* The session ends: status queued and the Celery id reach the row. *)
Stamp(r) ==
    LET t == req[r].task
    IN  /\ req[r].pc = "stamp"
        /\ row' = [row EXCEPT
                     ![t].status = Flushed(req[r].seen.status, "queued", @),
                     ![t].celery = r]
        /\ Become(r, "done", t)
        /\ UNCHANGED <<sum, broker, revoked, thread, beat, faults>>

(* Only a pending task is marked; a running one is answered as it is. *)
CommitCancel(r) ==
    LET t == req[r].task
    IN  /\ req[r].pc = "cancel"
        /\ IF req[r].seen.status \in {"queued", "waiting_capacity"}
           THEN row' = [row EXCEPT ![t].status = "failed", ![t].error = TRUE]
           ELSE UNCHANGED row
        /\ Become(r, "done", t)
        /\ UNCHANGED <<sum, broker, revoked, thread, beat, faults>>

ApiCrash(r) ==
    /\ req[r].pc \notin {"new", "done"}
    /\ Strikes("api_crash")
    /\ Become(r, "done", req[r].task)
    /\ UNCHANGED <<row, sum, broker, revoked, thread, beat>>
-----------------------------------------------------------------------------
(* Worker: execute_pipeline_task, with start_task and finish_task inside.  *)

(* The session closes: the thread goes on at pc with its message only. *)
Goto(w, pc) ==
    thread' = [thread EXCEPT ![w] = [IdleThread EXCEPT !.pc = pc, !.job = thread[w].job]]

(* A free thread takes a message of its queue. *)
Deliver(w, d) ==
    /\ d \in broker
    /\ d.id \notin revoked
    /\ thread[w].pc = "idle"
    /\ PoolOf[w] = QueueOf[d.task]
    /\ broker' = broker \ {d}
    /\ thread' = [thread EXCEPT ![w].pc = "load", ![w].job = d]
    /\ UNCHANGED <<row, sum, revoked, req, beat, faults>>

Discard(d) ==
    /\ d \in broker
    /\ d.id \in revoked
    /\ broker' = broker \ {d}
    /\ UNCHANGED <<row, sum, revoked, req, thread, beat, faults>>

(* Phase 1 loads the row.  A row that is already running is taken for the
   leftover of a dead worker. *)
LoadTask(w) ==
    LET seen == Loaded(row[thread[w].job.task])
    IN  /\ thread[w].pc = "load"
        /\ thread' = [thread EXCEPT ![w].seen = seen,
                        ![w].pc = IF seen.status = "running" THEN "stale" ELSE "reserve"]
        /\ UNCHANGED <<row, sum, broker, revoked, req, beat, faults>>

(* The leftover's reservation is read without a lock. *)
ReadStaleSum(w) ==
    /\ thread[w].pc = "stale"
    /\ thread' = [thread EXCEPT ![w].pc = "reserve", ![w].read = sum]
    /\ UNCHANGED <<row, sum, broker, revoked, req, beat, faults>>

(* The sum start_task computes with.  After the unlocked read the row is in
   the session's identity map, and the later FOR UPDATE read returns it as
   it is there; otherwise the locked read is the first one. *)
LoadedSum(w) == IF thread[w].seen.status = "running" THEN thread[w].read ELSE sum

BaseSum(w) ==
    IF thread[w].seen.status = "running"
    THEN Release(thread[w].read, Priority[thread[w].job.task]) ELSE sum

(* running and failed rows are put back to queued before anything else. *)
StartStatus(w) ==
    IF thread[w].seen.status \in {"running", "failed"}
    THEN "queued" ELSE thread[w].seen.status

(* The commit of start_task with the task's status and the sum it ends with. *)
CommitStart(w, status, newSum) ==
    LET t == thread[w].job.task
        seen == thread[w].seen
    IN  /\ sum' = Flushed(LoadedSum(w), newSum, sum)
        /\ row' = [row EXCEPT
                     ![t].status = Flushed(seen.status, status, @),
                     ![t].error  = IF seen.status = "failed"
                                   THEN Flushed(seen.error, FALSE, @) ELSE @]

Reserve(w) ==
    LET p == Priority[thread[w].job.task]
    IN  /\ thread[w].pc = "reserve"
        /\ Fits(BaseSum(w), p, MaxSum)
        /\ CanTransition(StartStatus(w), "running")
        /\ CommitStart(w, "running", BaseSum(w) + p)
        /\ Goto(w, "run")
        /\ UNCHANGED <<broker, revoked, req, beat, faults>>

MutMayWaitOnce(status) == CanTransition(status, "waiting_capacity")

(* A task already in waiting_capacity is here on a capacity retry. *)
MayWait(status) == status = "waiting_capacity" \/ CanTransition(status, "waiting_capacity")

Wait(w) ==
    /\ thread[w].pc = "reserve"
    /\ ~Fits(BaseSum(w), Priority[thread[w].job.task], MaxSum)
    /\ MayWait(StartStatus(w))
    /\ CommitStart(w, "waiting_capacity", BaseSum(w))
    /\ Goto(w, "retry")
    /\ UNCHANGED <<broker, revoked, req, beat, faults>>

(* ensure_transition raises, for a finished task, and the session rolls
   back. *)
RefuseStart(w) ==
    /\ thread[w].pc = "reserve"
    /\ IF Fits(BaseSum(w), Priority[thread[w].job.task], MaxSum)
       THEN ~CanTransition(StartStatus(w), "running")
       ELSE ~MayWait(StartStatus(w))
    /\ Goto(w, "ack")
    /\ UNCHANGED <<row, sum, broker, revoked, req, beat, faults>>

(* self.retry publishes the message anew; the one at hand is acknowledged
   only after Retry has left the task function. *)
RetryLater(w) ==
    LET d == thread[w].job
    IN  /\ thread[w].pc = "retry"
        /\ d.retries < MaxRetries
        /\ broker' = broker \cup {[d EXCEPT !.retries = @ + 1]}
        /\ Goto(w, "republished")
        /\ UNCHANGED <<row, sum, revoked, req, beat, faults>>

(* MaxRetriesExceededError: the task fails whatever its status is by now. *)
GiveUp(w) ==
    LET d == thread[w].job
    IN  /\ thread[w].pc = "retry"
        /\ d.retries = MaxRetries
        /\ row' = [row EXCEPT ![d.task].status = "failed", ![d.task].error = TRUE]
        /\ Goto(w, "ack")
        /\ UNCHANGED <<sum, broker, revoked, req, beat, faults>>

(* Phase 2 ends, with an output or with an exception, and Phase 3 loads the
   sum, without a lock, and the row. *)
PipelineEnds(w, ok) ==
    /\ thread[w].pc = "run"
    /\ thread' = [thread EXCEPT ![w].pc = "commit", ![w].ok = ok, ![w].read = sum,
                    ![w].seen = Loaded(row[thread[w].job.task])]
    /\ UNCHANGED <<row, sum, broker, revoked, req, beat, faults>>

FinishCommit(w) ==
    LET t == thread[w].job.task
        seen == thread[w].seen
        read == thread[w].read
    IN  /\ thread[w].pc = "commit"
        /\ sum' = Flushed(read, Release(read, Priority[t]), sum)
        /\ row' = [row EXCEPT
                     ![t].status = Flushed(seen.status,
                                     IF thread[w].ok THEN "finished" ELSE "failed", @),
                     ![t].result = IF thread[w].ok THEN TRUE ELSE @,
                     ![t].error  = IF thread[w].ok THEN @ ELSE TRUE]
        /\ Goto(w, "ack")
        /\ UNCHANGED <<broker, revoked, req, beat, faults>>

(* acks_late: the message leaves the broker when the task function is done. *)
Ack(w) ==
    /\ thread[w].pc \in {"ack", "republished"}
    /\ thread' = [thread EXCEPT ![w] = IdleThread]
    /\ UNCHANGED <<row, sum, broker, revoked, req, beat, faults>>

MutAckedEarly(lost) == {}

(* acks_late with reject_on_worker_lost: what dying threads held is back. *)
Returned(lost) == {thread[w].job : w \in lost}

(* The worker process of a queue dies: its unacknowledged messages go back
   to the broker, its list of revoked ids is lost, and so is the beat job if
   it ran there.  A death between the publish of a retry and the ack of the
   old message leaves both with the broker: a fault of its own. *)
WorkerCrash(q) ==
    LET pool == {w \in Threads : PoolOf[w] = q}
        lost == {w \in pool : thread[w].pc # "idle"}
    IN  /\ lost # {}
        /\ Strikes(IF \E w \in lost : thread[w].pc = "republished"
                   THEN "crash_after_retry" ELSE "worker_crash")
        /\ broker' = broker \cup Returned(lost)
        /\ thread' = [w \in Threads |-> IF w \in pool THEN IdleThread ELSE thread[w]]
        /\ revoked' = {m \in revoked : QueueOf[req[m].task] # q}
        /\ beat' \in {beat, IdleBeat}
        /\ UNCHANGED <<row, sum, req>>

(* The visibility timeout of the broker passes while the task still runs. *)
Redeliver(w) ==
    /\ thread[w].pc # "idle"
    /\ Strikes("redelivery")
    /\ broker' = broker \cup {thread[w].job}
    /\ UNCHANGED <<row, sum, revoked, req, thread, beat>>
-----------------------------------------------------------------------------
(* Beat: reconcile_priority_current_sum.                                   *)

ReconcileRead ==
    /\ beat.pc = "idle"
    /\ beat' = [pc |-> "write", actual |-> PrioritySum(Running)]
    /\ UNCHANGED <<row, sum, broker, revoked, req, thread, faults>>

MutReconcileRaises ==
    /\ beat.pc = "write"
    /\ sum' = IF sum > beat.actual THEN sum ELSE beat.actual
    /\ beat' = IdleBeat
    /\ UNCHANGED <<row, broker, revoked, req, thread, faults>>

ReconcileWrite ==
    /\ beat.pc = "write"
    /\ sum' = beat.actual
    /\ beat' = IdleBeat
    /\ UNCHANGED <<row, broker, revoked, req, thread, faults>>
-----------------------------------------------------------------------------
ApiStep(r) ==
    \/ \E k \in Keys : SubmitNew(r, k)
    \/ \E k \in Keys \cup {NoKey} : Insert(r, k)
    \/ \E op \in CreateOps, k \in Keys : SubmitKnown(r, op, k) \/ SubmitRerun(r, op, k)
    \/ \E t \in Tasks : Recompute(r, t) \/ Cancel(r, t) \/ Refuse(r, t)
    \/ ResetRow(r)
    \/ Enqueue(r)
    \/ EnqueueFails(r)
    \/ Stamp(r)
    \/ CommitCancel(r)
    \/ ApiCrash(r)

(* What a thread does with the message it holds. *)
WorkerStep(w) ==
    \/ LoadTask(w)
    \/ ReadStaleSum(w)
    \/ Reserve(w)
    \/ Wait(w)
    \/ RefuseStart(w)
    \/ RetryLater(w)
    \/ GiveUp(w)
    \/ \E ok \in BOOLEAN : PipelineEnds(w, ok)
    \/ FinishCommit(w)
    \/ Ack(w)

BeatStep == ReconcileRead \/ ReconcileWrite

Next ==
    \/ \E r \in Requests : ApiStep(r)
    \/ \E w \in Threads : WorkerStep(w) \/ Redeliver(w)
    \/ \E w \in Threads, d \in broker : Deliver(w, d)
    \/ \E d \in broker : Discard(d)
    \/ \E q \in Queues : WorkerCrash(q)
    \/ BeatStep

Spec == Init /\ [][Next]_vars

(* Threads work, the broker delivers, beat keeps its schedule and a request
   that has committed its row goes on.  Nothing makes a client send one. *)
Fairness ==
    /\ \A w \in Threads : WF_vars(WorkerStep(w))
    /\ \A t \in Tasks : WF_vars(\E w \in Threads, d \in broker :
                                   d.task = t /\ Deliver(w, d))
    /\ WF_vars(\E d \in broker : Discard(d))
    /\ \A r \in Requests : WF_vars(ResetRow(r) \/ Enqueue(r) \/ Stamp(r) \/ CommitCancel(r))
    /\ WF_vars(BeatStep)

FairSpec == Spec /\ Fairness
-----------------------------------------------------------------------------
RequestPc == {"new", "insert", "reset", "enqueue", "stamp", "cancel", "done"}

(* A request past its lookup has a task. *)
RequestState ==
    {x \in [pc : RequestPc, task : Tasks \cup {NoTask}, key : Keys \cup {NoKey},
            seen : Snapshot] :
        x.pc \in {"reset", "enqueue", "stamp", "cancel"} => x.task \in Tasks}

ThreadPc == {"idle", "load", "stale", "reserve", "retry", "republished", "run",
             "commit", "ack"}

(* A thread at work has a message. *)
ThreadState ==
    {x \in [pc : ThreadPc, job : Delivery \cup {NoJob}, seen : Snapshot, read : Nat,
            ok : BOOLEAN] :
        x.pc # "idle" => x.job \in Delivery}

(* Every variable keeps to its type; a process at work has what it works on. *)
TypeOK ==
    /\ row \in [Tasks -> Row]
    /\ sum \in Nat
    /\ broker \subseteq Delivery
    /\ revoked \subseteq Requests
    /\ req \in [Requests -> RequestState]
    /\ thread \in [Threads -> ThreadState]
    /\ beat \in [pc : {"idle", "write"}, actual : Nat]
    /\ faults \in Nat

(* Two clients that send the same Idempotency-Key at the same time get the
   same task: no key ever names two rows (the race of two create_task calls
   that both looked the key up before either inserted it). *)
OneTaskPerKey ==
    \A t, u \in Created : row[t].key = row[u].key /\ row[t].key # NoKey => t = u

(* Nobody works on a row that is not committed yet: a worker never receives
   such an id, so the "task_not_visible_yet" retry of execute_pipeline_task
   never has anything to wait for. *)
MessageHasRow ==
    /\ \A d \in broker : d.task \in Created
    /\ \A w \in Threads : thread[w].pc # "idle" => thread[w].job.task \in Created
    /\ \A r \in Requests : req[r].pc \in {"reset", "enqueue", "stamp", "cancel"}
                             => req[r].task \in Created

(* A thread that has published the retry of its message will do no more for
   it than acknowledge it. *)
Busy(w) == thread[w].pc \notin {"idle", "republished"}

(* The threads that work on a message of task t, and those in its pipeline. *)
Holding(t) == {w \in Threads : Busy(w) /\ thread[w].job.task = t}

Executing(t) == {w \in Holding(t) : thread[w].pc = "run"}

(* The pipeline of one task never runs twice at the same time. *)
NoDoubleExecution ==
    \A t \in Tasks : \A v, w \in Executing(t) : v = w

(* Why: as long as clients only create and cancel, the broker delivers a
   message again only after its holder died, and no worker dies between a
   retry and the ack of what it repeats, a task has one message to act on at
   most, wherever it is, and no second one on the way. *)
SingleMessage ==
    /\ \A d, e \in broker : d.task = e.task => d = e
    /\ \A d \in broker, w \in Threads : Busy(w) => thread[w].job.task # d.task
    /\ \A v, w \in Threads :
          v # w /\ Busy(v) /\ Busy(w) => thread[v].job.task # thread[w].job.task
    /\ \A r \in Requests : req[r].pc = "enqueue" =>
          /\ \A d \in broker : d.task # req[r].task
          /\ \A w \in Threads : Busy(w) => thread[w].job.task # req[r].task
          /\ \A q \in Requests \ {r} : req[q].pc = "enqueue" => req[q].task # req[r].task
    /\ \A r \in Requests : req[r].pc # "reset"

(* A task somebody waits for has somebody who will carry it on: a message
   that will be delivered, a thread that holds one, or the request that is
   about to send or to settle it. *)
NoOrphan ==
    \A t \in Created : row[t].status \in Active =>
        \/ \E d \in broker : d.task = t /\ d.id \notin revoked
        \/ Holding(t) # {}
        \/ \E r \in Requests : req[r].task = t /\ req[r].pc \in {"enqueue", "stamp"}

(* cancel and re-run revoke the id the row names, so every message that can
   still be delivered must be that one, or be on its way into the row. *)
RevokeReachesMessage ==
    \A d \in broker : row[d.task].celery = d.id \/ req[d.id].pc = "stamp"

(* The books stay between nothing and what all tasks weigh together or the
   limit allows, however many messages, redeliveries and lost updates there
   are. *)
BooksBounded == 0 <= sum /\ (sum <= MaxSum \/ sum <= PrioritySum(Tasks))

(* Every submitted task ends in a terminal state and stays in one, over
   capacity retries and a worker's death. *)
EveryTaskSettles ==
    \A t \in Tasks : <>[](row[t].status \in Terminal \cup {"absent"})

(* Whatever lost updates and dead workers did to the books, they agree with
   the running tasks in the end: "Guards against capacity leaks when a
   worker dies" (reconcile_priority_current_sum). *)
CapacityRepaired == <>[](sum = PrioritySum(Running))

(* A client that only submits sees a task as TaskContract promises it. *)
Contract == INSTANCE TaskContract WITH
    status <- [t \in Tasks |-> row[t].status],
    result <- [t \in Tasks |-> row[t].result]

KeepsContract == Contract!Spec
=============================================================================
