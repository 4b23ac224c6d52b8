------------------------ MODULE TaskLifecycle_proofs ------------------------
(***************************************************************************)
(* Proofs about TaskLifecycle for every number of tasks, requests, threads *)
(* and queues, every priority, every limit and every combination of        *)
(* faults: type correctness, the keys of the submissions, messages and     *)
(* their rows, the capacity books; and, each under the assumptions on      *)
(* clients and faults it needs, that a task runs on one thread at a time,  *)
(* that a cancel reaches its message, that no task is left without a       *)
(* carrier, and that TaskContract is implemented.                          *)
(***************************************************************************)
EXTENDS TaskLifecycle, FiniteSetTheorems, TLAPS

(* A weight of tasks is a natural number, and grows with the set. *)
LEMMA PrioritySumType ==
    ASSUME NEW S \in SUBSET Tasks
    PROVE  /\ PrioritySum(S) \in Nat
           /\ PrioritySum(S) <= PrioritySum(Tasks)
<1>1. IsFiniteSet(1..MaxPriority)
  BY FS_Interval, CapacityAssumption
<1>2. IsFiniteSet(Tasks \X (1..MaxPriority))
  BY <1>1, FS_Product, CapacityAssumption
<1>3. IsFiniteSet(Units(Tasks))
  BY <1>2, FS_Subset DEF Units
<1>4. Units(S) \in SUBSET Units(Tasks)
  BY DEF Units
<1>5. /\ IsFiniteSet(Units(S))
      /\ Cardinality(Units(S)) <= Cardinality(Units(Tasks))
  BY <1>3, <1>4, FS_Subset
<1>6. QED
  BY <1>5, FS_CardinalityType DEF PrioritySum

(* A row of which three columns are written. *)
LEMMA RowWritten ==
    ASSUME NEW t \in Tasks, row \in [Tasks -> Row], NEW a, NEW b, NEW c,
           row' = [row EXCEPT ![t] = [@ EXCEPT !.status = a, !.result = b, !.error = c]]
    PROVE  /\ row'[t].status = a /\ row'[t].result = b /\ row'[t].error = c
           /\ row'[t].celery = row[t].celery /\ row'[t].key = row[t].key
           /\ \A u \in Tasks \ {t} : row'[u] = row[u]
           /\ a \in Status \cup {"absent"} /\ b \in BOOLEAN /\ c \in BOOLEAN
                 => row' \in [Tasks -> Row]
<1>1. DOMAIN row = Tasks /\ row[t] \in Row
  OBVIOUS
<1>2. PICK new : new = [row[t] EXCEPT !.status = a, !.result = b, !.error = c]
  OBVIOUS
<1>3. /\ new.status = a /\ new.result = b /\ new.error = c
      /\ new.celery = row[t].celery /\ new.key = row[t].key
      /\ a \in Status \cup {"absent"} /\ b \in BOOLEAN /\ c \in BOOLEAN => new \in Row
  BY <1>1, <1>2 DEF Row
<1>4. row' = [row EXCEPT ![t] = new]
  BY <1>2
<1> QED
  BY <1>1, <1>3, <1>4

LEMMA ReleaseType ==
    ASSUME NEW a \in Nat, NEW b \in Nat
    PROVE  Release(a, b) \in Nat /\ Release(a, b) <= a
BY DEF Release

LEMMA Snapshots ==
    /\ NoRow \in Row
    /\ Nothing \in Snapshot
    /\ \A x \in Row : Loaded(x) \in Snapshot
BY DEF NoRow, Row, Nothing, Loaded, Snapshot, Status

LEMMA InitType == Init => TypeOK
<1>1. NewRequest \in RequestState
  BY Snapshots DEF NewRequest, RequestState, RequestPc
<1>2. IdleThread \in ThreadState
  BY Snapshots DEF IdleThread, ThreadState, ThreadPc
<1>3. QED
  BY <1>1, <1>2, Snapshots DEF Init, TypeOK, IdleBeat

(* The state a request takes on is well typed. *)
LEMMA BecomeType ==
    ASSUME TypeOK, NEW r \in Requests, NEW t \in Tasks \cup {NoTask},
           NEW pc \in RequestPc, Become(r, pc, t), t \in Tasks \/ pc = "done"
    PROVE  req' \in [Requests -> RequestState]
<1>1. [NewRequest EXCEPT !.pc = pc, !.task = t] \in RequestState
  BY Snapshots DEF NewRequest, RequestState, RequestPc
<1>2. QED
  BY <1>1 DEF Become, TypeOK

LEMMA LoadRowType ==
    ASSUME TypeOK, NEW r \in Requests, NEW t \in Tasks,
           NEW pc \in RequestPc, LoadRow(r, t, pc)
    PROVE  req' \in [Requests -> RequestState]
<1>1. [NewRequest EXCEPT !.pc = pc, !.task = t, !.seen = Loaded(row[t])] \in RequestState
  BY Snapshots DEF NewRequest, RequestState, RequestPc, TypeOK
<1>2. QED
  BY <1>1 DEF LoadRow, TypeOK

(* A busy request names a task, whatever it is busy with. *)
LEMMA RequestTask ==
    ASSUME TypeOK, NEW r \in Requests
    PROVE  /\ req[r].task \in Tasks \/ req[r].task = NoTask
           /\ req[r].pc \in {"reset", "enqueue", "stamp", "cancel"} => req[r].task \in Tasks
           /\ req[r].seen \in Snapshot
BY DEF TypeOK, RequestState

(* A column keeps its type over a commit. *)
LEMMA FlushedType ==
    ASSUME NEW T, NEW loaded, NEW new \in T, NEW current \in T
    PROVE  Flushed(loaded, new, current) \in T
BY DEF Flushed

(* Each step of an API request keeps the types. *)
LEMMA ApiType ==
    ASSUME TypeOK, NEW r \in Requests, ApiStep(r)
    PROVE  TypeOK'
<1> USE DEF TypeOK
<1>r. ASSUME UNCHANGED <<broker, thread, beat>>, row' \in [Tasks -> Row],
             sum' \in Nat, revoked' \subseteq Requests, faults' \in Nat,
             req' \in [Requests -> RequestState]
      PROVE  TypeOK'
  BY <1>r
<1>s. ASSUME NEW k, Strikes(k)
      PROVE  faults' \in Nat
  BY <1>s DEF Strikes
<1>v. ASSUME NEW t \in Tasks, Revoke(t)
      PROVE  revoked' \subseteq Requests /\ faults' \in Nat
  BY <1>v, <1>s DEF Revoke, Row
<1>w. ASSUME NEW t \in Tasks, RevokeIfPending(t)
      PROVE  revoked' \subseteq Requests /\ faults' \in Nat
  BY <1>w, <1>v DEF RevokeIfPending
<1>1. ASSUME NEW k \in Keys, SubmitNew(r, k)
      PROVE  TypeOK'
  <2>1. [NewRequest EXCEPT !.pc = "insert", !.key = k] \in RequestState
    BY Snapshots DEF NewRequest, RequestState, RequestPc
  <2>2. req' \in [Requests -> RequestState]
    BY <2>1, <1>1 DEF SubmitNew
  <2>3. QED
    BY <2>2, <1>1, <1>r DEF SubmitNew
<1>2. ASSUME NEW k \in Keys \cup {NoKey}, Insert(r, k)
      PROVE  TypeOK'
  <2>1. PICK t \in Tasks :
          \/ Become(r, "done", t) /\ UNCHANGED row
          \/ /\ row' = [row EXCEPT ![t] = [NoRow EXCEPT !.status = "queued", !.key = k]]
             /\ Become(r, "enqueue", t)
    BY <1>2 DEF Insert, Holder, Created
  <2>2. [NoRow EXCEPT !.status = "queued", !.key = k] \in Row
    BY DEF NoRow, Row, Status
  <2>3. row' \in [Tasks -> Row]
    BY <2>1, <2>2
  <2>4. req' \in [Requests -> RequestState]
    BY <2>1, BecomeType DEF RequestPc
  <2>5. QED
    BY <2>3, <2>4, <1>2, <1>r DEF Insert
<1>3. ASSUME NEW op \in CreateOps, NEW k \in Keys, SubmitKnown(r, op, k)
      PROVE  TypeOK'
  <2>1. PICK t \in Tasks : Become(r, "done", t)
    BY <1>3 DEF SubmitKnown, Holder, Created
  <2>2. req' \in [Requests -> RequestState]
    BY <2>1, BecomeType DEF RequestPc
  <2>3. QED
    BY <2>2, <1>3, <1>r DEF SubmitKnown
<1>4. ASSUME NEW op \in CreateOps, NEW k \in Keys, SubmitRerun(r, op, k)
      PROVE  TypeOK'
  <2>1. PICK t \in Tasks : RevokeIfPending(t) /\ LoadRow(r, t, "reset")
    BY <1>4 DEF SubmitRerun, Holder, Created
  <2>2. req' \in [Requests -> RequestState]
    BY <2>1, LoadRowType DEF RequestPc
  <2>3. QED
    BY <2>1, <2>2, <1>4, <1>w, <1>r DEF SubmitRerun
<1>5. ASSUME NEW t \in Tasks, Recompute(r, t)
      PROVE  TypeOK'
  <2>1. req' \in [Requests -> RequestState]
    BY <1>5, LoadRowType DEF Recompute, RequestPc
  <2>2. QED
    BY <2>1, <1>5, <1>w, <1>r DEF Recompute
<1>6. ASSUME NEW t \in Tasks, Cancel(r, t)
      PROVE  TypeOK'
  <2>1. req' \in [Requests -> RequestState]
    BY <1>6, LoadRowType DEF Cancel, RequestPc
  <2>2. QED
    BY <2>1, <1>6, <1>v, <1>r DEF Cancel
<1>7. ASSUME NEW t \in Tasks, Refuse(r, t)
      PROVE  TypeOK'
  <2>1. req' \in [Requests -> RequestState]
    BY <1>7, BecomeType DEF Refuse, RequestPc
  <2>2. QED
    BY <2>1, <1>7, <1>r DEF Refuse
<1>8. CASE ResetRow(r)
  <2>1. req[r].task \in Tasks
    BY <1>8, RequestTask DEF ResetRow
  <2>2. req' \in [Requests -> RequestState]
    BY <2>1, <1>8, BecomeType DEF ResetRow, RequestPc
  <2>3. row' \in [Tasks -> Row]
    <3>1. PICK t : t = req[r].task
      OBVIOUS
    <3>2. PICK a : a = Flushed(req[r].seen.status, "queued", row[t].status)
      OBVIOUS
    <3>3. PICK b : b = Flushed(req[r].seen.result, FALSE, row[t].result)
      OBVIOUS
    <3>4. PICK c : c = Flushed(req[r].seen.error, FALSE, row[t].error)
      OBVIOUS
    <3>5. row[t] \in Row /\ t \in Tasks
      BY <2>1, <3>1
    <3>6. a \in Status \cup {"absent"} /\ b \in BOOLEAN /\ c \in BOOLEAN
      BY <3>2, <3>3, <3>4, <3>5 DEF Flushed, Row, Status
    <3>7. row' = [row EXCEPT ![t] = [@ EXCEPT !.status = a, !.error = c, !.result = b]]
      BY <1>8, <3>1, <3>2, <3>3, <3>4 DEF ResetRow
    <3>8. row' = [row EXCEPT ![t] = [@ EXCEPT !.status = a, !.result = b, !.error = c]]
      BY <3>5, <3>7 DEF Row
    <3> QED
      BY <3>5, <3>6, <3>8, RowWritten
  <2>4. QED
    BY <2>2, <2>3, <1>8, <1>r DEF ResetRow
<1>9. CASE Enqueue(r)
  <2>1. req[r].task \in Tasks
    BY <1>9, RequestTask DEF Enqueue
  <2>2. req' \in [Requests -> RequestState]
    BY <2>1, <1>9, LoadRowType DEF Enqueue, RequestPc
  <2>3. [id |-> r, task |-> req[r].task, retries |-> 0] \in Delivery
    BY <2>1, DeploymentAssumption DEF Delivery
  <2>4. QED
    BY <2>2, <2>3, <1>9 DEF Enqueue
<1>10. CASE EnqueueFails(r)
  <2>1. req' \in [Requests -> RequestState]
    BY <1>10, RequestTask, BecomeType DEF EnqueueFails, RequestPc
  <2>2. QED
    BY <2>1, <1>10, <1>s, <1>r DEF EnqueueFails
<1>11. CASE Stamp(r)
  <2>1. req[r].task \in Tasks
    BY <1>11, RequestTask DEF Stamp
  <2>2. req' \in [Requests -> RequestState]
    BY <2>1, <1>11, BecomeType DEF Stamp, RequestPc
  <2>3. row' \in [Tasks -> Row]
    BY <2>1, <1>11 DEF Stamp, Flushed, Row, Status
  <2>4. QED
    BY <2>2, <2>3, <1>11, <1>r DEF Stamp
<1>12. CASE CommitCancel(r)
  <2>1. req[r].task \in Tasks
    BY <1>12, RequestTask DEF CommitCancel
  <2>2. req' \in [Requests -> RequestState]
    BY <2>1, <1>12, BecomeType DEF CommitCancel, RequestPc
  <2>3. row' \in [Tasks -> Row]
    BY <2>1, <1>12 DEF CommitCancel, Row, Status
  <2>4. QED
    BY <2>2, <2>3, <1>12, <1>r DEF CommitCancel
<1>13. CASE ApiCrash(r)
  <2>1. req' \in [Requests -> RequestState]
    BY <1>13, RequestTask, BecomeType DEF ApiCrash, RequestPc
  <2>2. QED
    BY <2>1, <1>13, <1>s, <1>r DEF ApiCrash
<1>14. QED
  BY <1>1, <1>2, <1>3, <1>4, <1>5, <1>6, <1>7, <1>8, <1>9, <1>10, <1>11, <1>12, <1>13
     DEF ApiStep

(* What a busy thread has in hand is well typed. *)
LEMMA ThreadHands ==
    ASSUME TypeOK, NEW w \in Threads, thread[w].pc # "idle"
    PROVE  /\ thread[w].job \in Delivery
           /\ thread[w].job.task \in Tasks
           /\ Priority[thread[w].job.task] \in Nat
           /\ thread[w].seen \in Snapshot
           /\ thread[w].read \in Nat
<1>1. thread[w] \in ThreadState
  BY DEF TypeOK
<1>2. thread[w].job \in Delivery /\ thread[w].seen \in Snapshot /\ thread[w].read \in Nat
  BY <1>1 DEF ThreadState
<1>3. thread[w].job.task \in Tasks
  BY <1>2 DEF Delivery
<1>4. QED
  BY <1>2, <1>3, CapacityAssumption

LEMMA GotoType ==
    ASSUME TypeOK, NEW w \in Threads, NEW pc \in ThreadPc, thread[w].pc # "idle",
           Goto(w, pc)
    PROVE  thread' \in [Threads -> ThreadState]
<1>1. [IdleThread EXCEPT !.pc = pc, !.job = thread[w].job] \in ThreadState
  BY Snapshots, ThreadHands DEF IdleThread, ThreadState
<1>2. QED
  BY <1>1 DEF Goto, TypeOK

LEMMA IdleType == IdleThread \in ThreadState
BY Snapshots DEF IdleThread, ThreadState, ThreadPc

(* The sum start_task computes with and the one it loaded are natural. *)
LEMMA SumsType ==
    ASSUME TypeOK, NEW w \in Threads, thread[w].pc # "idle"
    PROVE  BaseSum(w) \in Nat /\ LoadedSum(w) \in Nat
BY ThreadHands, ReleaseType DEF BaseSum, LoadedSum, TypeOK

LEMMA FinishWrites ==
    ASSUME NEW w \in Threads, thread[w].job.task \in Tasks, row \in [Tasks -> Row],
           FinishCommit(w)
    PROVE  LET t == thread[w].job.task IN
           /\ row'[t].status = Flushed(thread[w].seen.status,
                                       IF thread[w].ok THEN "finished" ELSE "failed", row[t].status)
           /\ row'[t].result = (IF thread[w].ok THEN TRUE ELSE row[t].result)
           /\ row'[t].celery = row[t].celery /\ row'[t].key = row[t].key
           /\ \A u \in Tasks \ {t} : row'[u] = row[u]
<1> DEFINE t == thread[w].job.task
           end == IF thread[w].ok THEN "finished" ELSE "failed"
<1>1. PICK a : a = Flushed(thread[w].seen.status, end, row[t].status)
  OBVIOUS
<1>2. PICK b : b = IF thread[w].ok THEN TRUE ELSE row[t].result
  OBVIOUS
<1>3. PICK c : c = IF thread[w].ok THEN row[t].error ELSE TRUE
  OBVIOUS
<1>4. row' = [row EXCEPT ![t] = [@ EXCEPT !.status = a, !.result = b, !.error = c]]
  BY <1>1, <1>2, <1>3 DEF FinishCommit
<1>5. t \in Tasks
  OBVIOUS
<1> HIDE DEF t, end
<1>6. PICK new : new = [row[t] EXCEPT !.status = a, !.result = b, !.error = c]
  OBVIOUS
<1>7. /\ new.status = a /\ new.result = b
      /\ new.celery = row[t].celery /\ new.key = row[t].key
  BY <1>5, <1>6 DEF Row
<1>8. row' = [row EXCEPT ![t] = new]
  BY <1>4, <1>6
<1>9. row'[t] = new /\ \A u \in Tasks \ {t} : row'[u] = row[u]
  BY <1>5, <1>8
<1> QED
  BY <1>1, <1>2, <1>7, <1>9 DEF t, end

(* The commit of a start writes the status and clears the error. *)
LEMMA StartWrites ==
    ASSUME NEW w \in Threads, thread[w].job.task \in Tasks, row \in [Tasks -> Row],
           NEW s, NEW n, CommitStart(w, s, n)
    PROVE  LET t == thread[w].job.task IN
           /\ row'[t].status = Flushed(thread[w].seen.status, s, row[t].status)
           /\ row'[t].result = row[t].result
           /\ row'[t].celery = row[t].celery /\ row'[t].key = row[t].key
           /\ \A u \in Tasks \ {t} : row'[u] = row[u]
           /\ s \in Status => row' \in [Tasks -> Row]
<1> DEFINE t == thread[w].job.task
<1>1. PICK a : a = Flushed(thread[w].seen.status, s, row[t].status)
  OBVIOUS
<1>2. PICK c : c = IF thread[w].seen.status = "failed"
                   THEN Flushed(thread[w].seen.error, FALSE, row[t].error) ELSE row[t].error
  OBVIOUS
<1>3. row' = [row EXCEPT ![t] = [@ EXCEPT !.status = a, !.error = c]]
  BY <1>1, <1>2 DEF CommitStart
<1>4. t \in Tasks /\ row[t] \in Row
  OBVIOUS
<1>5. /\ s \in Status => a \in Status \cup {"absent"}
      /\ c \in BOOLEAN
  BY <1>1, <1>2, <1>4 DEF Flushed, Row
<1> HIDE DEF t
<1>6. PICK new : new = [row[t] EXCEPT !.status = a, !.error = c]
  OBVIOUS
<1>7. /\ new.status = a /\ new.result = row[t].result
      /\ new.celery = row[t].celery /\ new.key = row[t].key
      /\ s \in Status => new \in Row
  BY <1>4, <1>5, <1>6 DEF Row
<1>8. row' = [row EXCEPT ![t] = new]
  BY <1>3, <1>6
<1>9. /\ row'[t] = new /\ \A u \in Tasks \ {t} : row'[u] = row[u]
      /\ s \in Status => row' \in [Tasks -> Row]
  BY <1>4, <1>7, <1>8
<1> QED
  BY <1>1, <1>7, <1>9 DEF t

LEMMA CommitStartType ==
    ASSUME TypeOK, NEW w \in Threads, thread[w].pc # "idle",
           NEW s \in Status, NEW n \in Nat, CommitStart(w, s, n)
    PROVE  row' \in [Tasks -> Row] /\ sum' \in Nat
<1>1. thread[w].job.task \in Tasks
  BY ThreadHands
<1>2. sum' \in Nat
  BY DEF CommitStart, Flushed, TypeOK
<1>3. row' \in [Tasks -> Row]
  BY <1>1, StartWrites DEF TypeOK
<1>4. QED
  BY <1>2, <1>3

(* Each step of a worker thread keeps the types. *)
LEMMA WorkerType ==
    ASSUME TypeOK, NEW w \in Threads, WorkerStep(w)
    PROVE  TypeOK'
<1> USE DEF TypeOK
<1>t. ASSUME UNCHANGED <<broker, revoked, req, beat, faults>>, row' \in [Tasks -> Row],
             sum' \in Nat, thread' \in [Threads -> ThreadState]
      PROVE  TypeOK'
  BY <1>t
<1>1. CASE LoadTask(w)
  <2>1. thread[w].pc # "idle"
    BY <1>1 DEF LoadTask
  <2>2. Loaded(row[thread[w].job.task]) \in Snapshot
    BY <2>1, ThreadHands, Snapshots
  <2>3. thread' \in [Threads -> ThreadState]
    <3>1. PICK seen : seen = Loaded(row[thread[w].job.task])
      OBVIOUS
    <3>2. PICK pc : pc = IF seen.status = "running" THEN "stale" ELSE "reserve"
      OBVIOUS
    <3>3. thread[w] \in ThreadState /\ thread[w].job \in Delivery
      BY <2>1, ThreadHands
    <3>4. [thread[w] EXCEPT !.seen = seen, !.pc = pc] \in ThreadState
      BY <2>2, <3>1, <3>2, <3>3 DEF ThreadState, ThreadPc
    <3>5. thread' = [thread EXCEPT ![w] = [@ EXCEPT !.seen = seen, !.pc = pc]]
      BY <1>1, <3>1, <3>2 DEF LoadTask
    <3> QED
      BY <3>4, <3>5
  <2>4. QED
    BY <2>3, <1>1, <1>t DEF LoadTask
<1>2. CASE ReadStaleSum(w)
  <2>1. thread[w] \in ThreadState /\ thread[w].job \in Delivery
    BY <1>2, ThreadHands DEF ReadStaleSum
  <2>2. [thread[w] EXCEPT !.pc = "reserve", !.read = sum] \in ThreadState
    BY <2>1 DEF ThreadState, ThreadPc
  <2>3. thread' = [thread EXCEPT ![w] = [thread[w] EXCEPT !.pc = "reserve", !.read = sum]]
    BY <1>2 DEF ReadStaleSum
  <2>4. thread' \in [Threads -> ThreadState]
    BY <2>2, <2>3
  <2>5. QED
    BY <2>4, <1>2, <1>t DEF ReadStaleSum
<1>3. CASE Reserve(w)
  <2>1. thread[w].pc # "idle"
    BY <1>3 DEF Reserve
  <2>2. BaseSum(w) + Priority[thread[w].job.task] \in Nat
    BY <2>1, SumsType, ThreadHands
  <2>3. row' \in [Tasks -> Row] /\ sum' \in Nat
    BY <2>1, <2>2, <1>3, CommitStartType DEF Reserve, Status
  <2>4. thread' \in [Threads -> ThreadState]
    BY <2>1, <1>3, GotoType DEF Reserve, ThreadPc
  <2>5. QED
    BY <2>3, <2>4, <1>3, <1>t DEF Reserve
<1>4. CASE Wait(w)
  <2>1. thread[w].pc # "idle"
    BY <1>4 DEF Wait
  <2>2. row' \in [Tasks -> Row] /\ sum' \in Nat
    BY <2>1, <1>4, SumsType, CommitStartType DEF Wait, Status
  <2>3. thread' \in [Threads -> ThreadState]
    BY <2>1, <1>4, GotoType DEF Wait, ThreadPc
  <2>4. QED
    BY <2>2, <2>3, <1>4, <1>t DEF Wait
<1>5. CASE RefuseStart(w)
  <2>1. thread' \in [Threads -> ThreadState]
    BY <1>5, GotoType DEF RefuseStart, ThreadPc
  <2>2. QED
    BY <2>1, <1>5, <1>t DEF RefuseStart
<1>6. CASE RetryLater(w)
  <2>1. thread[w].job \in Delivery
    BY <1>6, ThreadHands DEF RetryLater
  <2>2. [thread[w].job EXCEPT !.retries = @ + 1] \in Delivery
    BY <2>1, <1>6, DeploymentAssumption DEF RetryLater, Delivery
  <2>3. thread' \in [Threads -> ThreadState]
    BY <1>6, GotoType DEF RetryLater, ThreadPc
  <2>4. broker' \subseteq Delivery
    BY <2>2, <1>6 DEF RetryLater
  <2>5. QED
    BY <2>3, <2>4, <1>6 DEF RetryLater
<1>7. CASE GiveUp(w)
  <2>1. thread[w].job.task \in Tasks
    BY <1>7, ThreadHands DEF GiveUp
  <2>2. row' \in [Tasks -> Row]
    BY <2>1, <1>7 DEF GiveUp, Row, Status
  <2>3. thread' \in [Threads -> ThreadState]
    BY <1>7, GotoType DEF GiveUp, ThreadPc
  <2>4. QED
    BY <2>2, <2>3, <1>7, <1>t DEF GiveUp
<1>8. ASSUME NEW ok \in BOOLEAN, PipelineEnds(w, ok)
      PROVE  TypeOK'
  <2>1. thread[w].pc # "idle"
    BY <1>8 DEF PipelineEnds
  <2>2. Loaded(row[thread[w].job.task]) \in Snapshot
    BY <2>1, ThreadHands, Snapshots
  <2> DEFINE read == Loaded(row[thread[w].job.task])
             new == [thread[w] EXCEPT !.pc = "commit", !.ok = ok, !.read = sum, !.seen = read]
  <2>3. thread[w] \in ThreadState /\ thread[w].job \in Delivery
    BY <2>1, ThreadHands
  <2>4. new \in ThreadState
    BY <2>2, <2>3 DEF ThreadState, ThreadPc
  <2>5. thread' = [thread EXCEPT ![w] = new]
    BY <1>8 DEF PipelineEnds
  <2>6. thread' \in [Threads -> ThreadState]
    <3> HIDE DEF new
    <3>1. QED
      BY <2>4, <2>5
  <2>7. QED
    BY <2>6, <1>8, <1>t DEF PipelineEnds
<1>9. CASE FinishCommit(w)
  <2>0. thread[w] \in ThreadState /\ thread[w].pc = "commit"
    BY <1>9 DEF FinishCommit
  <2>1. thread[w].pc # "idle" /\ thread[w].ok \in BOOLEAN
    BY <2>0 DEF ThreadState
  <2>2. sum' \in Nat
    BY <2>1, <1>9, ThreadHands, ReleaseType DEF FinishCommit, Flushed
  <2>3. row' \in [Tasks -> Row]
    <3> DEFINE t == thread[w].job.task
    <3>1. t \in Tasks /\ row[t] \in Row
      BY <2>1, ThreadHands
    <3>2. CASE thread[w].ok
      BY <3>1, <3>2, <1>9 DEF FinishCommit, Flushed, Row, Status
    <3>3. CASE ~thread[w].ok
      BY <3>1, <3>3, <1>9 DEF FinishCommit, Flushed, Row, Status
    <3>4. QED
      BY <3>2, <3>3
  <2>4. thread' \in [Threads -> ThreadState]
    BY <2>1, <1>9, GotoType DEF FinishCommit, ThreadPc
  <2>5. QED
    BY <2>2, <2>3, <2>4, <1>9, <1>t DEF FinishCommit
<1>10. CASE Ack(w)
  <2>1. thread' \in [Threads -> ThreadState]
    BY <1>10, IdleType DEF Ack
  <2>2. QED
    BY <2>1, <1>10, <1>t DEF Ack
<1>11. QED
  BY <1>1, <1>2, <1>3, <1>4, <1>5, <1>6, <1>7, <1>8, <1>9, <1>10 DEF WorkerStep

(* Each step of the broker, a dying worker or the beat job keeps the types. *)
LEMMA OtherType ==
    ASSUME TypeOK,
           \/ \E w \in Threads : Redeliver(w)
           \/ \E w \in Threads, d \in broker : Deliver(w, d)
           \/ \E d \in broker : Discard(d)
           \/ \E q \in Queues : WorkerCrash(q)
           \/ BeatStep
    PROVE  TypeOK'
<1> USE DEF TypeOK
<1>1. ASSUME NEW w \in Threads, Redeliver(w)
      PROVE  TypeOK'
  BY <1>1, ThreadHands DEF Redeliver, Strikes
<1>2. ASSUME NEW w \in Threads, NEW d \in broker, Deliver(w, d)
      PROVE  TypeOK'
  <2>1. thread' \in [Threads -> ThreadState]
    BY <1>2 DEF Deliver, ThreadState, ThreadPc
  <2>2. QED
    BY <2>1, <1>2 DEF Deliver
<1>3. ASSUME NEW d \in broker, Discard(d)
      PROVE  TypeOK'
  BY <1>3 DEF Discard
<1>4. ASSUME NEW q \in Queues, WorkerCrash(q)
      PROVE  TypeOK'
  <2>1. \A w \in Threads : thread[w].pc # "idle" => thread[w].job \in Delivery
    BY ThreadHands
  <2>2. broker' \subseteq Delivery
    BY <2>1, <1>4 DEF WorkerCrash, Returned
  <2>3. thread' \in [Threads -> ThreadState]
    BY <1>4, IdleType DEF WorkerCrash, Returned
  <2>4. beat' \in [pc : {"idle", "write"}, actual : Nat]
    BY <1>4 DEF WorkerCrash, Returned, IdleBeat
  <2>5. revoked' \subseteq Requests /\ faults' \in Nat
    BY <1>4 DEF WorkerCrash, Returned, Strikes
  <2>6. QED
    BY <2>2, <2>3, <2>4, <2>5, <1>4 DEF WorkerCrash, Returned
<1>5. CASE BeatStep
  <2>1. PrioritySum(Running) \in Nat
    BY PrioritySumType DEF Running
  <2>2. QED
    BY <2>1, <1>5 DEF BeatStep, ReconcileRead, ReconcileWrite, IdleBeat
<1>6. QED
  BY <1>1, <1>2, <1>3, <1>4, <1>5

LEMMA NextType == TypeOK /\ [Next]_vars => TypeOK'
<1> SUFFICES ASSUME TypeOK, [Next]_vars
             PROVE  TypeOK'
  OBVIOUS
<1>1. CASE UNCHANGED vars
  BY <1>1 DEF vars, TypeOK
<1>2. CASE Next
  BY <1>2, ApiType, WorkerType, OtherType DEF Next
<1>3. QED
  BY <1>1, <1>2

(* Every variable keeps to its type, whatever the clients, workers and      *)
(* faults do.                                                              *)
THEOREM TypeCorrect == Spec => []TypeOK
BY InitType, NextType, PTL DEF Spec

-----------------------------------------------------------------------------
(***************************************************************************)
(* Idempotency keys, messages and rows, the books.                         *)
(***************************************************************************)
(* A step leaves the keys alone, and which rows there are. *)
RowsKept ==
    \A t \in Tasks : /\ row'[t].key = row[t].key
                     /\ row'[t].status = "absent" <=> row[t].status = "absent"

LEMMA KeptKeys ==
    ASSUME OneTaskPerKey, RowsKept
    PROVE  OneTaskPerKey' /\ Created' = Created
<1>1. Created' = Created
  BY DEF RowsKept, Created
<1>2. QED
  BY <1>1 DEF RowsKept, OneTaskPerKey, Created

LEMMA SameRows ==
    ASSUME UNCHANGED row
    PROVE  RowsKept
BY DEF RowsKept

(* Keys of an API step: only Insert touches them, and it looks first. *)
LEMMA ApiKeys ==
    ASSUME TypeOK, OneTaskPerKey, MessageHasRow, NEW r \in Requests, ApiStep(r)
    PROVE  OneTaskPerKey' /\ Created \subseteq Created'
<1> USE DEF TypeOK
<1>1. ASSUME NEW k \in Keys \cup {NoKey}, Insert(r, k)
      PROVE  OneTaskPerKey' /\ Created \subseteq Created'
  <2>1. CASE UNCHANGED row
    BY <2>1, SameRows, KeptKeys
  <2>2. CASE ~ UNCHANGED row
    <3>1. PICK t \in Tasks \ Created :
            row' = [row EXCEPT ![t] = [NoRow EXCEPT !.status = "queued", !.key = k]]
      BY <2>2, <1>1 DEF Insert
    <3>2. Holder(k) = {}
      BY <2>2, <1>1 DEF Insert
    <3>3. row'[t].key = k /\ row'[t].status = "queued"
      BY <3>1 DEF NoRow
    <3>4. \A u \in Tasks \ {t} : row'[u] = row[u]
      BY <3>1
    <3>5. Created' = Created \cup {t}
      BY <3>3, <3>4 DEF Created
    <3>6. \A u \in Created : k = NoKey \/ row[u].key # k
      BY <3>2 DEF Holder
    <3>7. ASSUME NEW u \in Created', NEW v \in Created',
                 row'[u].key = row'[v].key, row'[u].key # NoKey
          PROVE  u = v
      <4>1. CASE u = t /\ v # t
        BY <4>1, <3>3, <3>4, <3>5, <3>6, <3>7 DEF Created
      <4>2. CASE v = t /\ u # t
        BY <4>2, <3>3, <3>4, <3>5, <3>6, <3>7 DEF Created
      <4>3. CASE u # t /\ v # t
        BY <4>3, <3>4, <3>5, <3>7 DEF OneTaskPerKey, Created
      <4>4. QED
        BY <4>1, <4>2, <4>3
    <3>8. QED
      BY <3>5, <3>7 DEF OneTaskPerKey
  <2>3. QED
    BY <2>1, <2>2
<1>2. CASE ResetRow(r)
  <2>1. req[r].task \in Created
    BY <1>2 DEF ResetRow, MessageHasRow
  <2>2. RowsKept
    BY <2>1, <1>2 DEF ResetRow, RowsKept, Flushed, Created, Row
  <2>3. QED
    BY <2>2, KeptKeys
<1>3. CASE Stamp(r)
  <2>1. req[r].task \in Created
    BY <1>3 DEF Stamp, MessageHasRow
  <2>2. RowsKept
    BY <2>1, <1>3 DEF Stamp, RowsKept, Flushed, Created, Row
  <2>3. QED
    BY <2>2, KeptKeys
<1>4. CASE CommitCancel(r)
  <2>1. req[r].task \in Created
    BY <1>4 DEF CommitCancel, MessageHasRow
  <2>2. RowsKept
    BY <2>1, <1>4 DEF CommitCancel, RowsKept, Created, Row
  <2>3. QED
    BY <2>2, KeptKeys
<1>5. CASE UNCHANGED row
  BY <1>5, SameRows, KeptKeys
<1>6. QED
  BY <1>1, <1>2, <1>3, <1>4, <1>5
     DEF ApiStep, SubmitNew, SubmitKnown, SubmitRerun, Recompute, Cancel, Refuse,
         Enqueue, EnqueueFails, ApiCrash

(* A worker only moves rows that are there. *)
LEMMA WorkerKeys ==
    ASSUME TypeOK, MessageHasRow, NEW w \in Threads, WorkerStep(w)
    PROVE  RowsKept
<1> USE DEF TypeOK
<1>1. ASSUME NEW s \in Status, NEW n, thread[w].pc # "idle", CommitStart(w, s, n)
      PROVE  RowsKept
  <2>1. thread[w].job.task \in Created
    BY <1>1 DEF MessageHasRow
  <2>2. QED
    BY <2>1, <1>1, StartWrites DEF RowsKept, Flushed, Created, Status
<1>2. CASE Reserve(w)
  BY <1>2, <1>1 DEF Reserve, Status
<1>3. CASE Wait(w)
  BY <1>3, <1>1 DEF Wait, Status
<1>4. CASE GiveUp(w)
  <2>1. thread[w].job.task \in Created
    BY <1>4 DEF GiveUp, MessageHasRow
  <2>2. QED
    BY <2>1, <1>4 DEF GiveUp, RowsKept, Created, Row
<1>5. CASE FinishCommit(w)
  <2>1. thread[w].job.task \in Created
    BY <1>5 DEF FinishCommit, MessageHasRow
  <2> DEFINE t == thread[w].job.task
  <2>2. \A u \in Tasks \ {t} : row'[u] = row[u]
    BY <1>5 DEF FinishCommit
  <2>3. row'[t].key = row[t].key
    BY <2>1, <1>5, FinishWrites DEF Created
  <2>4. row'[t].status \in {row[t].status, "finished", "failed"}
    BY <2>1, <1>5, FinishWrites DEF Created, Flushed
  <2>5. QED
    BY <2>1, <2>2, <2>3, <2>4 DEF RowsKept, Created
<1>6. CASE UNCHANGED row
  BY <1>6, SameRows
<1>7. QED
  BY <1>2, <1>3, <1>4, <1>5, <1>6
     DEF WorkerStep, LoadTask, ReadStaleSum, RefuseStart, RetryLater, PipelineEnds, Ack

(* Requests, messages and threads only get hold of rows that are there. *)
LEMMA ApiRows ==
    ASSUME TypeOK, OneTaskPerKey, MessageHasRow, NEW r \in Requests, ApiStep(r)
    PROVE  MessageHasRow'
<1> USE DEF TypeOK
<1>0. Created \subseteq Created'
  BY ApiKeys
<1>b. ASSUME NEW t \in Tasks \cup {NoTask}, NEW pc \in RequestPc, Become(r, pc, t),
             pc \in {"reset", "enqueue", "stamp", "cancel"} => t \in Created',
             UNCHANGED <<broker, thread>>
      PROVE  MessageHasRow'
  <2>1. req'[r].task = t /\ req'[r].pc = pc
    BY <1>b DEF Become, NewRequest
  <2>2. \A q \in Requests \ {r} : req'[q] = req[q]
    BY <1>b DEF Become
  <2>3. QED
    BY <1>0, <1>b, <2>1, <2>2 DEF MessageHasRow
<1>l. ASSUME NEW t \in Created, NEW pc \in RequestPc, LoadRow(r, t, pc),
             broker' \subseteq broker \cup {[id |-> r, task |-> t, retries |-> 0]},
             UNCHANGED thread
      PROVE  MessageHasRow'
  <2>1. req'[r].task = t
    BY <1>l DEF LoadRow, NewRequest
  <2>2. \A q \in Requests \ {r} : req'[q] = req[q]
    BY <1>l DEF LoadRow
  <2>3. QED
    BY <1>0, <1>l, <2>1, <2>2 DEF MessageHasRow
<1>1. ASSUME NEW k \in Keys, SubmitNew(r, k)
      PROVE  MessageHasRow'
  <2>1. req'[r].pc = "insert"
    BY <1>1 DEF SubmitNew, NewRequest
  <2>2. \A q \in Requests \ {r} : req'[q] = req[q]
    BY <1>1 DEF SubmitNew
  <2>3. QED
    BY <1>0, <1>1, <2>1, <2>2 DEF SubmitNew, MessageHasRow
<1>2. ASSUME NEW k \in Keys \cup {NoKey}, Insert(r, k)
      PROVE  MessageHasRow'
  <2>1. CASE \E t \in Holder(k) : Become(r, "done", t)
    BY <2>1, <1>2, <1>b DEF Insert, Holder, Created, RequestPc
  <2>2. CASE \E t \in Tasks \ Created :
                /\ row' = [row EXCEPT ![t] = [NoRow EXCEPT !.status = "queued", !.key = k]]
                /\ Become(r, "enqueue", t)
    <3>1. PICK t \in Tasks \ Created :
                /\ row' = [row EXCEPT ![t] = [NoRow EXCEPT !.status = "queued", !.key = k]]
                /\ Become(r, "enqueue", t)
      BY <2>2
    <3>2. t \in Created'
      BY <3>1 DEF Created, NoRow
    <3>3. UNCHANGED <<broker, thread>>
      BY <1>2 DEF Insert
    <3>4. QED
      BY <3>1, <3>2, <3>3, <1>b DEF RequestPc
  <2>3. QED
    BY <2>1, <2>2, <1>2 DEF Insert
<1>3. ASSUME NEW op \in CreateOps, NEW k \in Keys,
             SubmitKnown(r, op, k) \/ SubmitRerun(r, op, k)
      PROVE  MessageHasRow'
  <2>1. CASE SubmitKnown(r, op, k)
    BY <2>1, <1>b DEF SubmitKnown, Holder, Created, RequestPc
  <2>2. CASE SubmitRerun(r, op, k)
    BY <2>2, <1>l DEF SubmitRerun, Holder, Created, RequestPc
  <2>3. QED
    BY <1>3, <2>1, <2>2
<1>4. ASSUME NEW t \in Tasks, Recompute(r, t) \/ Cancel(r, t) \/ Refuse(r, t)
      PROVE  MessageHasRow'
  <2>1. CASE Refuse(r, t)
    BY <2>1, <1>b DEF Refuse, RequestPc
  <2>2. CASE Recompute(r, t) \/ Cancel(r, t)
    <3>1. t \in Created
      BY <2>2 DEF Recompute, Cancel, Created, Active, Status
    <3>2. UNCHANGED <<broker, thread>>
      BY <2>2 DEF Recompute, Cancel
    <3>3. \E pc \in RequestPc : LoadRow(r, t, pc)
      BY <2>2 DEF Recompute, Cancel, RequestPc
    <3>4. QED
      BY <3>1, <3>2, <3>3, <1>l
  <2>3. QED
    BY <1>4, <2>1, <2>2
<1>5. CASE ResetRow(r)
  <2>1. req[r].task \in Created
    BY <1>5 DEF ResetRow, MessageHasRow
  <2>2. QED
    BY <2>1, <1>0, <1>5, <1>b DEF ResetRow, RequestPc, Created
<1>6. CASE Enqueue(r)
  <2>1. req[r].task \in Created
    BY <1>6 DEF Enqueue, MessageHasRow
  <2>2. QED
    BY <2>1, <1>6, <1>l DEF Enqueue, RequestPc
<1>7. CASE EnqueueFails(r) \/ Stamp(r) \/ CommitCancel(r) \/ ApiCrash(r)
  <2>1. Become(r, "done", req[r].task) /\ UNCHANGED <<broker, thread>>
    BY <1>7 DEF EnqueueFails, Stamp, CommitCancel, ApiCrash
  <2>2. QED
    BY <2>1, <1>b, RequestTask DEF RequestPc
<1>8. QED
  BY <1>1, <1>2, <1>3, <1>4, <1>5, <1>6, <1>7 DEF ApiStep

(* A thread moves alone, and keeps the message it holds until it is idle.   *)
LEMMA WorkerMoves ==
    ASSUME TypeOK, NEW w \in Threads, WorkerStep(w)
    PROVE  /\ \A v \in Threads \ {w} : thread'[v] = thread[v]
           /\ thread'[w].pc = "idle" \/ thread'[w].job = thread[w].job
<1> USE DEF TypeOK
<1>a. ASSUME NEW pc, Goto(w, pc)
      PROVE  /\ \A v \in Threads \ {w} : thread'[v] = thread[v]
             /\ thread'[w].job = thread[w].job
  BY <1>a DEF Goto, IdleThread
<1>b. ASSUME thread' = [thread EXCEPT ![w] = IdleThread]
      PROVE  /\ \A v \in Threads \ {w} : thread'[v] = thread[v]
             /\ thread'[w].pc = "idle"
  BY <1>b DEF IdleThread
<1>c. ASSUME LoadTask(w) \/ ReadStaleSum(w) \/ \E ok \in BOOLEAN : PipelineEnds(w, ok)
      PROVE  /\ \A v \in Threads \ {w} : thread'[v] = thread[v]
             /\ thread'[w].job = thread[w].job
  <2>0. /\ thread[w] \in ThreadState
        /\ DOMAIN thread = Threads
    OBVIOUS
  <2> HIDE DEF TypeOK
  <2>1. CASE LoadTask(w)
    BY <2>0, <2>1 DEF LoadTask, ThreadState
  <2>2. CASE ReadStaleSum(w)
    BY <2>0, <2>2 DEF ReadStaleSum, ThreadState
  <2>3. ASSUME NEW ok \in BOOLEAN, PipelineEnds(w, ok)
        PROVE  /\ \A v \in Threads \ {w} : thread'[v] = thread[v]
               /\ thread'[w].job = thread[w].job
    BY <2>0, <2>3 DEF PipelineEnds, ThreadState
  <2>4. QED
    BY <1>c, <2>1, <2>2, <2>3
<1>1. \A v \in Threads \ {w} : thread'[v] = thread[v]
  BY <1>a, <1>b, <1>c
     DEF WorkerStep, Reserve, Wait, RefuseStart, RetryLater, GiveUp, FinishCommit, Ack
<1>2. thread'[w].pc = "idle" \/ thread'[w].job = thread[w].job
  BY <1>a, <1>b, <1>c
     DEF WorkerStep, Reserve, Wait, RefuseStart, RetryLater, GiveUp, FinishCommit, Ack
<1>3. QED
  BY <1>1, <1>2

LEMMA WorkerRows ==
    ASSUME TypeOK, MessageHasRow, NEW w \in Threads, WorkerStep(w)
    PROVE  MessageHasRow'
<1> USE DEF TypeOK
<1>0. Created' = Created
  BY WorkerKeys DEF RowsKept, Created
<1>1. thread[w].pc # "idle"
  BY DEF WorkerStep, LoadTask, ReadStaleSum, Reserve, Wait, RefuseStart, RetryLater,
         GiveUp, PipelineEnds, FinishCommit, Ack
<1>2. thread[w].job.task \in Created
  BY <1>1 DEF MessageHasRow
<1>3. UNCHANGED req
  BY DEF WorkerStep, LoadTask, ReadStaleSum, Reserve, Wait, RefuseStart, RetryLater,
         GiveUp, PipelineEnds, FinishCommit, Ack
<1>4. /\ \A v \in Threads \ {w} : thread'[v] = thread[v]
      /\ thread'[w].pc = "idle" \/ thread'[w].job = thread[w].job
  BY WorkerMoves
<1>6. \A d \in broker' : d \in broker \/ d.task = thread[w].job.task
  <2>1. CASE RetryLater(w)
    BY <2>1, <1>1, ThreadHands DEF RetryLater, Delivery
  <2>2. CASE UNCHANGED broker
    BY <2>2
  <2>3. QED
    BY <2>1, <2>2
       DEF WorkerStep, LoadTask, ReadStaleSum, Reserve, Wait, RefuseStart, GiveUp,
           PipelineEnds, FinishCommit, Ack
<1>7. QED
  BY <1>0, <1>2, <1>3, <1>4, <1>6 DEF MessageHasRow

LEMMA OtherRows ==
    ASSUME TypeOK, MessageHasRow,
           \/ \E w \in Threads : Redeliver(w)
           \/ \E w \in Threads, d \in broker : Deliver(w, d)
           \/ \E d \in broker : Discard(d)
           \/ \E q \in Queues : WorkerCrash(q)
           \/ BeatStep
    PROVE  UNCHANGED row /\ MessageHasRow'
<1> USE DEF TypeOK, MessageHasRow, Created
<1>1. ASSUME NEW w \in Threads, Redeliver(w)
      PROVE  UNCHANGED row /\ MessageHasRow'
  BY <1>1 DEF Redeliver
<1>2. ASSUME NEW w \in Threads, NEW d \in broker, Deliver(w, d)
      PROVE  UNCHANGED row /\ MessageHasRow'
  BY <1>2 DEF Deliver, ThreadState
<1>3. ASSUME NEW d \in broker, Discard(d)
      PROVE  UNCHANGED row /\ MessageHasRow'
  BY <1>3 DEF Discard
<1>4. ASSUME NEW q \in Queues, WorkerCrash(q)
      PROVE  UNCHANGED row /\ MessageHasRow'
  BY <1>4 DEF WorkerCrash, Returned, IdleThread
<1>5. CASE BeatStep
  BY <1>5 DEF BeatStep, ReconcileRead, ReconcileWrite
<1>6. QED
  BY <1>1, <1>2, <1>3, <1>4, <1>5

(* Two clients that send one Idempotency-Key at the same time get one task, *)
(* and no worker ever sees the id of a row that is not committed.           *)
THEOREM KeysAndRows == Spec => [](OneTaskPerKey /\ MessageHasRow)
<1> DEFINE IInv == TypeOK /\ OneTaskPerKey /\ MessageHasRow
<1>1. Init => IInv
  <2>1. Init => Created = {}
    BY DEF Init, Created, NoRow
  <2>2. QED
    BY <2>1, InitType DEF Init, OneTaskPerKey, MessageHasRow, NewRequest, IdleThread
<1>2. IInv /\ [Next]_vars => IInv'
  <2> SUFFICES ASSUME IInv, [Next]_vars
               PROVE  IInv'
    OBVIOUS
  <2>1. TypeOK'
    BY NextType
  <2>2. CASE UNCHANGED vars
    BY <2>2, <2>1 DEF vars, OneTaskPerKey, MessageHasRow, Created
  <2>3. ASSUME NEW r \in Requests, ApiStep(r)
        PROVE  OneTaskPerKey' /\ MessageHasRow'
    BY <2>3, ApiKeys, ApiRows
  <2>4. ASSUME NEW w \in Threads, WorkerStep(w)
        PROVE  OneTaskPerKey' /\ MessageHasRow'
    BY <2>4, WorkerKeys, KeptKeys, WorkerRows
  <2>5. ASSUME \/ \E w \in Threads : Redeliver(w)
               \/ \E w \in Threads, d \in broker : Deliver(w, d)
               \/ \E d \in broker : Discard(d)
               \/ \E q \in Queues : WorkerCrash(q)
               \/ BeatStep
        PROVE  OneTaskPerKey' /\ MessageHasRow'
    BY <2>5, OtherRows, SameRows, KeptKeys
  <2>6. QED
    BY <2>1, <2>2, <2>3, <2>4, <2>5 DEF Next
<1>3. IInv => OneTaskPerKey /\ MessageHasRow
  OBVIOUS
<1>4. QED
  BY <1>1, <1>2, <1>3, PTL DEF Spec
-----------------------------------------------------------------------------
(* A sum the books may show: within the limit, or no more than all tasks    *)
(* weigh together (the beat job writes what runs, limit or not).            *)
Bounded(n) == n <= MaxSum \/ n <= PrioritySum(Tasks)

(* Sums in flight, in a worker's session or in the beat job's, are as good  *)
(* as the one on the books: that is why a stale one does no harm here.      *)
SumsBounded ==
    /\ Bounded(sum)
    /\ Bounded(beat.actual)
    /\ \A w \in Threads : Bounded(thread[w].read)

LEMMA BoundedFacts ==
    /\ PrioritySum(Tasks) \in Nat
    /\ Bounded(0)
    /\ \A a, b \in Nat : Bounded(a) /\ b <= a => Bounded(b)
<1>1. PrioritySum(Tasks) \in Nat
  BY PrioritySumType
<1>2. QED
  BY <1>1, CapacityAssumption DEF Bounded

(* A session that commits either leaves the sum or writes a bounded one. *)
LEMMA WorkerBooks ==
    ASSUME TypeOK, SumsBounded, NEW w \in Threads, WorkerStep(w)
    PROVE  SumsBounded'
<1> USE DEF TypeOK
<1>1. thread[w].pc # "idle"
  BY DEF WorkerStep, LoadTask, ReadStaleSum, Reserve, Wait, RefuseStart, RetryLater,
         GiveUp, PipelineEnds, FinishCommit, Ack
<1>2. /\ thread[w].read \in Nat
      /\ Priority[thread[w].job.task] \in Nat
      /\ thread[w] \in ThreadState
  BY <1>1, ThreadHands
<1>3. BaseSum(w) \in Nat /\ Bounded(BaseSum(w))
  BY <1>1, <1>2, SumsType, ReleaseType, BoundedFacts DEF BaseSum, SumsBounded
<1>g. ASSUME NEW pc, Goto(w, pc)
      PROVE  \A v \in Threads : thread'[v].read = thread[v].read \/ thread'[v].read = 0
  BY <1>g DEF Goto, IdleThread
<1>t. ASSUME Bounded(sum'), UNCHANGED beat,
             \A v \in Threads : thread'[v].read = thread[v].read \/ thread'[v].read = 0
      PROVE  SumsBounded'
  BY <1>t, BoundedFacts DEF SumsBounded, Bounded
<1>4. CASE Reserve(w)
  <2>1. Bounded(BaseSum(w) + Priority[thread[w].job.task])
    BY <1>4 DEF Reserve, Fits, Bounded
  <2>2. Bounded(sum')
    BY <2>1, <1>4 DEF Reserve, CommitStart, Flushed, SumsBounded
  <2>3. QED
    BY <2>2, <1>4, <1>g, <1>t DEF Reserve
<1>5. CASE Wait(w)
  <2>1. Bounded(sum')
    BY <1>3, <1>5 DEF Wait, CommitStart, Flushed, SumsBounded
  <2>2. QED
    BY <2>1, <1>5, <1>g, <1>t DEF Wait
<1>6. CASE FinishCommit(w)
  <2> DEFINE new == Release(thread[w].read, Priority[thread[w].job.task])
  <2>a. new \in Nat /\ new <= thread[w].read
    BY <1>2, ReleaseType
  <2>b. Bounded(thread[w].read)
    BY DEF SumsBounded
  <2>1. Bounded(new)
    <3> HIDE DEF new
    <3>1. QED
      BY <2>a, <2>b, <1>2, BoundedFacts
  <2>2. Bounded(sum')
    BY <2>1, <1>6 DEF FinishCommit, Flushed, SumsBounded
  <2>3. QED
    BY <2>2, <1>6, <1>g, <1>t DEF FinishCommit
<1>7. CASE RefuseStart(w) \/ GiveUp(w) \/ RetryLater(w)
  BY <1>7, <1>g, <1>t DEF RefuseStart, GiveUp, RetryLater, SumsBounded
<1>8. CASE Ack(w)
  <2>1. thread' = [thread EXCEPT ![w] = IdleThread]
    BY <1>8 DEF Ack
  <2>2. \A v \in Threads : thread'[v].read = thread[v].read \/ thread'[v].read = 0
    BY <2>1 DEF IdleThread
  <2>3. QED
    BY <2>2, <1>8, <1>t DEF Ack, SumsBounded
<1>9. CASE LoadTask(w)
  <2> DEFINE seen == Loaded(row[thread[w].job.task])
             pc == IF seen.status = "running" THEN "stale" ELSE "reserve"
             new == [[thread[w] EXCEPT !.seen = seen] EXCEPT !.pc = pc]
  <2>0. thread' = [thread EXCEPT ![w] = new]
    BY <1>9 DEF LoadTask
  <2>a. new.read = thread[w].read
    BY <1>2 DEF ThreadState
  <2> HIDE DEF new
  <2>1. \A v \in Threads : thread'[v].read = thread[v].read
    BY <2>0, <2>a
  <2>2. QED
    BY <2>1, <1>9, <1>t DEF LoadTask, SumsBounded
<1>10. CASE ReadStaleSum(w)
  <2>1. thread'[w].read = sum /\ \A v \in Threads \ {w} : thread'[v] = thread[v]
    BY <1>2, <1>10 DEF ReadStaleSum, ThreadState
  <2>2. QED
    BY <2>1, <1>10 DEF ReadStaleSum, SumsBounded, Bounded
<1>11. ASSUME NEW ok \in BOOLEAN, PipelineEnds(w, ok)
       PROVE  SumsBounded'
  <2>1. thread'[w].read = sum /\ \A v \in Threads \ {w} : thread'[v] = thread[v]
    BY <1>2, <1>11 DEF PipelineEnds, ThreadState
  <2>2. QED
    BY <2>1, <1>11 DEF PipelineEnds, SumsBounded, Bounded
<1>12. QED
  BY <1>4, <1>5, <1>6, <1>7, <1>8, <1>9, <1>10, <1>11 DEF WorkerStep

LEMMA OtherBooks ==
    ASSUME TypeOK, SumsBounded,
           \/ \E w \in Threads : Redeliver(w)
           \/ \E w \in Threads, d \in broker : Deliver(w, d)
           \/ \E d \in broker : Discard(d)
           \/ \E q \in Queues : WorkerCrash(q)
           \/ BeatStep
    PROVE  SumsBounded'
<1> USE DEF TypeOK
<1>1. ASSUME NEW w \in Threads, Redeliver(w)
      PROVE  SumsBounded'
  BY <1>1 DEF Redeliver, SumsBounded, Bounded
<1>2. ASSUME NEW w \in Threads, NEW d \in broker, Deliver(w, d)
      PROVE  SumsBounded'
  <2>1. \A v \in Threads : thread'[v].read = thread[v].read
    BY <1>2 DEF Deliver, ThreadState
  <2>2. QED
    BY <2>1, <1>2 DEF Deliver, SumsBounded, Bounded
<1>3. ASSUME NEW d \in broker, Discard(d)
      PROVE  SumsBounded'
  BY <1>3 DEF Discard, SumsBounded, Bounded
<1>4. ASSUME NEW q \in Queues, WorkerCrash(q)
      PROVE  SumsBounded'
  <2>1. \A v \in Threads : thread'[v].read = thread[v].read \/ thread'[v].read = 0
    BY <1>4 DEF WorkerCrash, Returned, IdleThread
  <2>2. beat' = beat \/ beat'.actual = 0
    BY <1>4 DEF WorkerCrash, Returned, IdleBeat
  <2>3. UNCHANGED sum
    BY <1>4 DEF WorkerCrash, Returned
  <2>4. QED
    BY <2>1, <2>2, <2>3, BoundedFacts DEF SumsBounded, Bounded
<1>5. CASE ReconcileRead
  <2>1. PrioritySum(Running) <= PrioritySum(Tasks)
    BY PrioritySumType DEF Running
  <2>2. QED
    BY <2>1, <1>5 DEF ReconcileRead, SumsBounded, Bounded
<1>6. CASE ReconcileWrite
  BY <1>6, BoundedFacts DEF ReconcileWrite, SumsBounded, Bounded, IdleBeat
<1>7. QED
  BY <1>1, <1>2, <1>3, <1>4, <1>5, <1>6 DEF BeatStep

(* The books never go below zero, nor above what the limit or the tasks     *)
(* themselves account for, whatever updates are lost on the way.            *)
THEOREM BooksStayBounded == Spec => []BooksBounded
<1> DEFINE IInv == TypeOK /\ SumsBounded
<1>1. Init => IInv
  BY InitType, BoundedFacts DEF Init, SumsBounded, IdleThread, IdleBeat
<1>2. IInv /\ [Next]_vars => IInv'
  <2> SUFFICES ASSUME IInv, [Next]_vars
               PROVE  IInv'
    OBVIOUS
  <2>1. TypeOK'
    BY NextType
  <2>2. CASE UNCHANGED vars
    BY <2>2, <2>1 DEF vars, SumsBounded, Bounded
  <2>3. ASSUME NEW r \in Requests, ApiStep(r)
        PROVE  SumsBounded'
    <3>1. UNCHANGED <<sum, thread, beat>>
      BY <2>3 DEF ApiStep, SubmitNew, Insert, SubmitKnown, SubmitRerun, Recompute, Cancel,
                  Refuse, ResetRow, Enqueue, EnqueueFails, Stamp, CommitCancel, ApiCrash
    <3>2. QED
      BY <3>1 DEF SumsBounded, Bounded
  <2>4. QED
    BY <2>1, <2>2, <2>3, WorkerBooks, OtherBooks DEF Next
<1>3. IInv => BooksBounded
  BY BoundedFacts DEF TypeOK, SumsBounded, Bounded, BooksBounded
<1>4. QED
  BY <1>1, <1>2, <1>3, PTL DEF Spec

-----------------------------------------------------------------------------
(***************************************************************************)
(* When a task is executed by one thread at a time: where each worker       *)
(* process has one thread, or else for clients that create and cancel only, *)
(* a broker that does not deliver a message again while its holder lives,   *)
(* and workers that do not die between a retry and the ack of the message   *)
(* it repeats.  The other operations break it (the run TasksRerunRace), and *)
(* so do the two faults.                                                    *)
(***************************************************************************)
OneThreadEach == \A v, w \in Threads : PoolOf[v] = PoolOf[w] => v = w

SecondMessageFaults == {"redelivery", "crash_after_retry"}

(* No two threads are busy with one task. *)
Apart ==
    \A v, w \in Threads :
       v # w /\ Busy(v) /\ Busy(w) => thread[v].job.task # thread[w].job.task

(* A thread that has a message, to act on or to acknowledge. *)
Holds(w) == thread[w].pc # "idle"

(* Requests that do not get to "enqueue" or "reset" keep SingleMessage.     *)
LEMMA QuietRequest ==
    ASSUME SingleMessage, UNCHANGED <<broker, thread>>, NEW r \in Requests,
           \A q \in Requests \ {r} : req'[q] = req[q],
           req'[r].pc \notin {"enqueue", "reset"}
    PROVE  SingleMessage'
BY DEF SingleMessage, Busy

LEMMA ApiSingle ==
    ASSUME Ops \subseteq {"create", "cancel"},
           TypeOK, MessageHasRow, SingleMessage, NEW r \in Requests, ApiStep(r)
    PROVE  SingleMessage'
<1> USE DEF TypeOK
<1>q. \A q \in Requests \ {r} : req'[q] = req[q]
  BY DEF ApiStep, SubmitNew, Insert, SubmitKnown, SubmitRerun, Recompute, Cancel, Refuse,
         ResetRow, Enqueue, EnqueueFails, Stamp, CommitCancel, ApiCrash, Become, LoadRow
<1>b. ASSUME NEW t, Become(r, "done", t), UNCHANGED <<broker, thread>>
      PROVE  SingleMessage'
  <2>1. req'[r].pc = "done"
    BY <1>b DEF Become, NewRequest
  <2>2. QED
    BY <2>1, <1>b, <1>q, QuietRequest
<1>1. ASSUME NEW k \in Keys, SubmitNew(r, k)
      PROVE  SingleMessage'
  <2>1. req'[r].pc = "insert"
    BY <1>1 DEF SubmitNew, NewRequest
  <2>2. QED
    BY <2>1, <1>1, <1>q, QuietRequest DEF SubmitNew
<1>2. ASSUME NEW k \in Keys \cup {NoKey}, Insert(r, k)
      PROVE  SingleMessage'
  <2>0. UNCHANGED <<broker, thread>>
    BY <1>2 DEF Insert
  <2>1. CASE \E t \in Holder(k) : Become(r, "done", t)
    BY <2>0, <2>1, <1>b
  <2>2. CASE \E t \in Tasks \ Created : Become(r, "enqueue", t)
    <3>1. PICK t \in Tasks \ Created : Become(r, "enqueue", t)
      BY <2>2
    <3>2. req'[r].pc = "enqueue" /\ req'[r].task = t
      BY <3>1 DEF Become, NewRequest
    <3>3. /\ \A d \in broker : d.task # t
          /\ \A w \in Threads : Busy(w) => thread[w].job.task # t
          /\ \A q \in Requests : req[q].pc = "enqueue" => req[q].task # t
      BY <3>1 DEF MessageHasRow, Busy
    <3>4. QED
      BY <2>0, <3>2, <3>3, <1>q DEF SingleMessage, Busy
  <2>3. QED
    BY <2>1, <2>2, <1>2 DEF Insert
<1>3. ASSUME NEW op \in CreateOps, NEW k \in Keys, SubmitKnown(r, op, k)
      PROVE  SingleMessage'
  BY <1>3, <1>b DEF SubmitKnown
<1>4. ASSUME NEW op \in CreateOps, NEW k \in Keys, SubmitRerun(r, op, k)
      PROVE  FALSE
  BY <1>4 DEF SubmitRerun, ShouldRerun, CreateOps
<1>5. ASSUME NEW t \in Tasks, Recompute(r, t)
      PROVE  FALSE
  BY <1>5 DEF Recompute
<1>6. ASSUME NEW t \in Tasks, Cancel(r, t)
      PROVE  SingleMessage'
  <2>1. req'[r].pc = "cancel"
    BY <1>6 DEF Cancel, LoadRow, NewRequest
  <2>2. QED
    BY <2>1, <1>6, <1>q, QuietRequest DEF Cancel
<1>7. ASSUME NEW t \in Tasks, Refuse(r, t)
      PROVE  SingleMessage'
  BY <1>7, <1>b DEF Refuse
<1>8. ASSUME ResetRow(r)
      PROVE  FALSE
  BY <1>8 DEF ResetRow, SingleMessage
<1>9. CASE Enqueue(r)
  <2> DEFINE t == req[r].task
  <2>1. req'[r].pc = "stamp" /\ UNCHANGED thread
    BY <1>9 DEF Enqueue, LoadRow, NewRequest
  <2>2. \A d \in broker' : d \in broker \/ d = [id |-> r, task |-> t, retries |-> 0]
    BY <1>9 DEF Enqueue
  <2>3. /\ \A d \in broker : d.task # t
        /\ \A w \in Threads : Busy(w) => thread[w].job.task # t
        /\ \A q \in Requests \ {r} : req[q].pc = "enqueue" => req[q].task # t
    BY <1>9 DEF Enqueue, SingleMessage
  <2>4. QED
    BY <2>1, <2>2, <2>3, <1>q DEF SingleMessage, Busy
<1>10. CASE EnqueueFails(r) \/ Stamp(r) \/ CommitCancel(r) \/ ApiCrash(r)
  <2>1. Become(r, "done", req[r].task) /\ UNCHANGED <<broker, thread>>
    BY <1>10 DEF EnqueueFails, Stamp, CommitCancel, ApiCrash
  <2>2. QED
    BY <2>1, <1>b
<1>11. QED
  BY <1>1, <1>2, <1>3, <1>4, <1>5, <1>6, <1>7, <1>8, <1>9, <1>10 DEF ApiStep

(* A thread that is not busy any more can only acknowledge. *)
LEMMA WorkerBusy ==
    ASSUME TypeOK, NEW w \in Threads, WorkerStep(w)
    PROVE  /\ Busy(w) \/ UNCHANGED <<row, broker>>
           /\ Busy(w)' => Busy(w)
<1> USE DEF TypeOK
<1>1. CASE Ack(w)
  <2>1. thread'[w].pc = "idle"
    BY <1>1 DEF Ack, IdleThread
  <2>2. QED
    BY <2>1, <1>1 DEF Ack, Busy
<1>2. CASE ~Ack(w)
  <2>1. Busy(w)
    BY <1>2 DEF WorkerStep, LoadTask, ReadStaleSum, Reserve, Wait, RefuseStart, RetryLater,
                GiveUp, PipelineEnds, FinishCommit, Busy
  <2>2. QED
    BY <2>1
<1>3. QED
  BY <1>1, <1>2

(* A thread keeps its message or puts it back as a retry; then it only has  *)
(* the old one to acknowledge.                                              *)
LEMMA WorkerSingle ==
    ASSUME TypeOK, SingleMessage, NEW w \in Threads, WorkerStep(w)
    PROVE  SingleMessage'
<1> USE DEF TypeOK
<1>1. UNCHANGED req /\ Holds(w)
  BY DEF WorkerStep, LoadTask, ReadStaleSum, Reserve, Wait, RefuseStart, RetryLater,
         GiveUp, PipelineEnds, FinishCommit, Ack, Holds
<1>2. \A v \in Threads \ {w} : thread'[v] = thread[v]
  BY WorkerMoves
<1>3. CASE UNCHANGED broker
  <2>1. \A v \in Threads : Busy(v)' => Busy(v) /\ thread'[v].job = thread[v].job
    BY <1>2, WorkerMoves, WorkerBusy DEF Busy
  <2>2. QED
    BY <1>1, <1>3, <2>1 DEF SingleMessage
<1>4. CASE RetryLater(w)
  <2>1. thread'[w].pc = "republished" /\ Busy(w)
    BY <1>4 DEF RetryLater, Goto, Busy
  <2> DEFINE again == [thread[w].job EXCEPT !.retries = @ + 1]
             t == thread[w].job.task
  <2>2. again.task = t
    BY <1>1, ThreadHands DEF Holds, Delivery
  <2>3. broker' = broker \cup {again}
    BY <1>4 DEF RetryLater
  <2>4. /\ \A d \in broker : d.task # t
        /\ \A v \in Threads \ {w} : Busy(v) => thread[v].job.task # t
        /\ \A r \in Requests : req[r].pc = "enqueue" => req[r].task # t
    BY <2>1 DEF SingleMessage
  <2>5. ~Busy(w)' /\ \A v \in Threads \ {w} : Busy(v)' <=> Busy(v)
    BY <1>2, <2>1 DEF Busy
  <2> HIDE DEF again, t
  <2>6. QED
    BY <1>1, <1>2, <2>2, <2>3, <2>4, <2>5 DEF SingleMessage
<1>5. QED
  BY <1>3, <1>4 DEF WorkerStep, LoadTask, ReadStaleSum, Reserve, Wait, RefuseStart,
         GiveUp, PipelineEnds, FinishCommit, Ack

LEMMA OtherSingle ==
    ASSUME Faults \cap SecondMessageFaults = {}, TypeOK, SingleMessage,
           \/ \E w \in Threads : Redeliver(w)
           \/ \E w \in Threads, d \in broker : Deliver(w, d)
           \/ \E d \in broker : Discard(d)
           \/ \E q \in Queues : WorkerCrash(q)
           \/ BeatStep
    PROVE  SingleMessage'
<1> USE DEF TypeOK
<1>f. "redelivery" \notin Faults /\ "crash_after_retry" \notin Faults
  BY DEF SecondMessageFaults
<1>1. ASSUME NEW w \in Threads, Redeliver(w)
      PROVE  FALSE
  BY <1>f, <1>1 DEF Redeliver, Strikes
<1>2. ASSUME NEW w \in Threads, NEW d \in broker, Deliver(w, d)
      PROVE  SingleMessage'
  <2>1. /\ thread'[w].job = d
        /\ \A v \in Threads \ {w} : thread'[v] = thread[v]
        /\ broker' = broker \ {d} /\ UNCHANGED req
    BY <1>2 DEF Deliver, ThreadState
  <2>2. /\ \A e \in broker' : e \in broker /\ e.task # d.task
        /\ \A v \in Threads : Busy(v) => thread[v].job.task # d.task
        /\ \A r \in Requests : req[r].pc = "enqueue" => d.task # req[r].task
    BY <1>2, <2>1 DEF SingleMessage
  <2>3. \A v \in Threads \ {w} : Busy(v)' <=> Busy(v)
    BY <2>1 DEF Busy
  <2>4. QED
    BY <2>1, <2>2, <2>3 DEF SingleMessage
<1>3. ASSUME NEW d \in broker, Discard(d)
      PROVE  SingleMessage'
  BY <1>3 DEF Discard, SingleMessage, Busy
<1>4. ASSUME NEW q \in Queues, WorkerCrash(q)
      PROVE  SingleMessage'
  <2>0. \A w \in Threads : PoolOf[w] = q /\ Holds(w) => Busy(w)
    BY <1>f, <1>4 DEF WorkerCrash, Strikes, Holds, Busy
  <2>1. /\ \A d \in broker' : \/ d \in broker
                              \/ \E w \in Threads : PoolOf[w] = q /\ Busy(w) /\ d = thread[w].job
        /\ \A w \in Threads : IF PoolOf[w] = q THEN thread'[w].pc = "idle"
                                               ELSE thread'[w] = thread[w]
        /\ UNCHANGED req
    BY <2>0, <1>4 DEF WorkerCrash, Returned, Holds, IdleThread
  <2>2. \A w \in Threads : Busy(w)' => PoolOf[w] # q /\ Busy(w) /\ thread'[w] = thread[w]
    BY <2>1 DEF Busy
  <2>3. \A d, e \in broker' : d.task = e.task => d = e
    BY <2>1 DEF SingleMessage
  <2>4. \A d \in broker', w \in Threads : Busy(w)' => thread'[w].job.task # d.task
    BY <2>1, <2>2 DEF SingleMessage
  <2>5. \A r \in Requests : req[r].pc = "enqueue" => \A d \in broker' : d.task # req[r].task
    BY <2>1 DEF SingleMessage
  <2>6. QED
    BY <2>1, <2>2, <2>3, <2>4, <2>5 DEF SingleMessage
<1>5. CASE BeatStep
  BY <1>5 DEF BeatStep, ReconcileRead, ReconcileWrite, SingleMessage, Busy
<1>6. QED
  BY <1>1, <1>2, <1>3, <1>4, <1>5

LEMMA SingleStep ==
    ASSUME Ops \subseteq {"create", "cancel"}, Faults \cap SecondMessageFaults = {},
           TypeOK, MessageHasRow, SingleMessage, [Next]_vars
    PROVE  SingleMessage'
<1>1. CASE UNCHANGED vars
  BY <1>1 DEF vars, SingleMessage, Busy
<1>2. ASSUME NEW r \in Requests, ApiStep(r)
      PROVE  SingleMessage'
  BY <1>2, ApiSingle
<1>3. ASSUME NEW w \in Threads, WorkerStep(w)
      PROVE  SingleMessage'
  BY <1>3, WorkerSingle
<1>4. QED
  BY <1>1, <1>2, <1>3, OtherSingle DEF Next

(* A message is taken by the worker process of its task's queue only. *)
Routed == \A w \in Threads : Holds(w) => QueueOf[thread[w].job.task] = PoolOf[w]

LEMMA RoutedStep ==
    ASSUME TypeOK, Routed, [Next]_vars
    PROVE  Routed'
<1>s. ASSUME \A w \in Threads : Holds(w)' => Holds(w) /\ thread'[w].job = thread[w].job
      PROVE  Routed'
  BY <1>s DEF Routed
<1>u. CASE UNCHANGED thread
  BY <1>u, <1>s DEF Holds
<1>1. ASSUME NEW w \in Threads, WorkerStep(w)
      PROVE  Routed'
  <2>1. Holds(w)
    BY <1>1 DEF WorkerStep, LoadTask, ReadStaleSum, Reserve, Wait, RefuseStart, RetryLater,
                GiveUp, PipelineEnds, FinishCommit, Ack, Holds
  <2>2. QED
    BY <1>1, <1>s, <2>1, WorkerMoves DEF Holds
<1>2. ASSUME NEW w \in Threads, NEW d \in broker, Deliver(w, d)
      PROVE  Routed'
  <2>0. thread[w] \in ThreadState /\ DOMAIN thread = Threads
    BY DEF TypeOK
  <2>1. /\ thread'[w].job = d /\ PoolOf[w] = QueueOf[d.task]
        /\ \A v \in Threads \ {w} : thread'[v] = thread[v]
    BY <1>2, <2>0 DEF Deliver, ThreadState
  <2>2. QED
    BY <2>1 DEF Routed, Holds
<1>3. ASSUME NEW q \in Queues, WorkerCrash(q)
      PROVE  Routed'
  BY <1>3, <1>s DEF WorkerCrash, Holds, IdleThread
<1>4. ASSUME NEW r \in Requests, ApiStep(r)
      PROVE  UNCHANGED thread
  BY <1>4 DEF ApiStep, SubmitNew, Insert, SubmitKnown, SubmitRerun, Recompute, Cancel,
              Refuse, ResetRow, Enqueue, EnqueueFails, Stamp, CommitCancel, ApiCrash
<1>5. QED
  BY <1>u, <1>1, <1>2, <1>3, <1>4
     DEF Next, vars, Redeliver, Discard, BeatStep, ReconcileRead, ReconcileWrite

(* No two threads are busy with one task: two messages of it wait for the   *)
(* one thread of their queue, or there are no two to act on.                *)
LEMMA ApartAlways ==
    ASSUME \/ OneThreadEach
           \/ Ops \subseteq {"create", "cancel"} /\ Faults \cap SecondMessageFaults = {}
    PROVE  Spec => []Apart
<1>1. CASE OneThreadEach
  <2>1. Init => Routed
    BY DEF Init, Routed, Holds, IdleThread
  <2>2. TypeOK /\ Routed /\ [Next]_vars => Routed'
    BY RoutedStep
  <2>3. Routed => Apart
    BY <1>1 DEF OneThreadEach, Routed, Apart, Busy, Holds
  <2>4. QED
    BY <2>1, <2>2, <2>3, TypeCorrect, PTL DEF Spec
<1>2. CASE Ops \subseteq {"create", "cancel"} /\ Faults \cap SecondMessageFaults = {}
  <2>1. Init => SingleMessage
    BY DEF Init, SingleMessage, NewRequest, IdleThread, Busy
  <2>2. TypeOK /\ MessageHasRow /\ SingleMessage /\ [Next]_vars => SingleMessage'
    BY <1>2, SingleStep
  <2>3. SingleMessage => Apart
    BY DEF SingleMessage, Apart
  <2>4. QED
    BY <2>1, <2>2, <2>3, TypeCorrect, KeysAndRows, PTL DEF Spec
<1>3. QED
  BY <1>1, <1>2

(* The pipeline of one task never runs twice at the same time where each    *)
(* worker process has one thread; and with any number of threads, over any  *)
(* number of capacity retries and worker deaths, while clients create and   *)
(* cancel only, the broker redelivers nothing a live worker holds, and no   *)
(* worker dies between publishing a retry and acknowledging the message it  *)
(* repeats: such a death leaves two messages of the task, and two threads   *)
(* may take them.                                                           *)
THEOREM ExecutesOnce ==
    ASSUME \/ OneThreadEach
           \/ Ops \subseteq {"create", "cancel"} /\ Faults \cap SecondMessageFaults = {}
    PROVE  Spec => []NoDoubleExecution
<1>1. Apart => NoDoubleExecution
  BY DEF Apart, NoDoubleExecution, Executing, Holding
<1>2. Spec => []Apart
  BY ApartAlways
<1>3. QED
  BY <1>1, <1>2, PTL

-----------------------------------------------------------------------------
(***************************************************************************)
(* Which message a row names: as long as clients create and cancel only, a *)
(* task has one request that sends for it, and every message of the task,  *)
(* waiting or held, carries the id that request writes into the row.       *)
(***************************************************************************)
Messages == broker \cup {thread[w].job : w \in {v \in Threads : Holds(v)}}

Sending(r) == req[r].pc \in {"enqueue", "stamp"}

Named ==
    /\ \A m \in Messages :
          \/ row[m.task].celery = m.id
          \/ req[m.id].pc = "stamp" /\ req[m.id].task = m.task
    /\ \A r, q \in Requests :
          Sending(r) /\ Sending(q) /\ req[r].task = req[q].task => r = q
    /\ \A r \in Requests, m \in Messages :
          Sending(r) /\ m.task = req[r].task => req[r].pc = "stamp" /\ m.id = r
    /\ \A r \in Requests : req[r].pc # "reset"

(* A message names a request and a task. *)
LEMMA MessagesType ==
    ASSUME TypeOK, MessageHasRow
    PROVE  \A m \in Messages : m \in Delivery /\ m.task \in Created
<1>1. \A d \in broker : d \in Delivery /\ d.task \in Created
  BY DEF TypeOK, MessageHasRow
<1>2. \A w \in Threads : Holds(w) => thread[w].job \in Delivery /\ thread[w].job.task \in Created
  BY ThreadHands DEF MessageHasRow, Holds
<1>3. QED
  BY <1>1, <1>2 DEF Messages

(* A worker's step makes no message of another id or for another task. *)
LEMMA WorkerMessages ==
    ASSUME TypeOK, NEW w \in Threads, WorkerStep(w)
    PROVE  \A m \in Messages' : \E n \in Messages : n.id = m.id /\ n.task = m.task
<1>1. Holds(w)
  BY DEF WorkerStep, LoadTask, ReadStaleSum, Reserve, Wait, RefuseStart, RetryLater,
         GiveUp, PipelineEnds, FinishCommit, Ack, Holds
<1>2. /\ \A v \in Threads \ {w} : thread'[v] = thread[v]
      /\ thread'[w].pc = "idle" \/ thread'[w].job = thread[w].job
  BY WorkerMoves
<1>3. \A v \in Threads : Holds(v)' => Holds(v) /\ thread'[v].job = thread[v].job
  BY <1>1, <1>2 DEF Holds
<1>4. \A d \in broker' :
        d \in broker \/ (d.id = thread[w].job.id /\ d.task = thread[w].job.task)
  <2>1. CASE RetryLater(w)
    BY <2>1, <1>1, ThreadHands DEF RetryLater, Delivery, Holds
  <2>2. CASE UNCHANGED broker
    BY <2>2
  <2>3. QED
    BY <2>1, <2>2
       DEF WorkerStep, LoadTask, ReadStaleSum, Reserve, Wait, RefuseStart, GiveUp,
           PipelineEnds, FinishCommit, Ack
<1>5. thread[w].job \in Messages
  BY <1>1 DEF Messages
<1>6. QED
  BY <1>3, <1>4, <1>5 DEF Messages

(* Deliveries, redeliveries and dying workers make no new message. *)
LEMMA OtherMessages ==
    ASSUME TypeOK,
           \/ \E w \in Threads : Redeliver(w)
           \/ \E w \in Threads, d \in broker : Deliver(w, d)
           \/ \E d \in broker : Discard(d)
           \/ \E q \in Queues : WorkerCrash(q)
           \/ BeatStep
    PROVE  /\ Messages' \subseteq Messages
           /\ UNCHANGED <<row, req>>
<1>1. ASSUME NEW w \in Threads, Redeliver(w)
      PROVE  Messages' \subseteq Messages /\ UNCHANGED <<row, req>>
  BY <1>1 DEF Redeliver, Messages, Holds
<1>2. ASSUME NEW w \in Threads, NEW d \in broker, Deliver(w, d)
      PROVE  Messages' \subseteq Messages /\ UNCHANGED <<row, req>>
  <2>0. thread[w] \in ThreadState /\ DOMAIN thread = Threads
    BY DEF TypeOK
  <2>1. /\ thread'[w].job = d
        /\ \A v \in Threads \ {w} : thread'[v] = thread[v]
    BY <2>0, <1>2 DEF Deliver, ThreadState
  <2>2. \A v \in Threads : Holds(v)' => v = w \/ (Holds(v) /\ thread'[v] = thread[v])
    BY <2>1 DEF Holds
  <2>3. broker' \subseteq broker /\ d \in broker /\ UNCHANGED <<row, req>>
    BY <1>2 DEF Deliver
  <2>4. QED
    BY <2>1, <2>2, <2>3 DEF Messages
<1>3. ASSUME NEW d \in broker, Discard(d)
      PROVE  Messages' \subseteq Messages /\ UNCHANGED <<row, req>>
  BY <1>3 DEF Discard, Messages, Holds
<1>4. ASSUME NEW q \in Queues, WorkerCrash(q)
      PROVE  Messages' \subseteq Messages /\ UNCHANGED <<row, req>>
  <2>1. broker' \subseteq Messages
    BY <1>4 DEF WorkerCrash, Returned, Messages, Holds
  <2>2. \A v \in Threads : Holds(v)' => Holds(v) /\ thread'[v] = thread[v]
    BY <1>4 DEF WorkerCrash, Holds, IdleThread
  <2>3. QED
    BY <2>1, <2>2, <1>4 DEF WorkerCrash, Messages
<1>5. CASE BeatStep
  BY <1>5 DEF BeatStep, ReconcileRead, ReconcileWrite, Messages, Holds
<1>6. QED
  BY <1>1, <1>2, <1>3, <1>4, <1>5

(* No worker writes the id a row names. *)
LEMMA WorkerNames ==
    ASSUME TypeOK, NEW w \in Threads, WorkerStep(w)
    PROVE  \A t \in Tasks : row'[t].celery = row[t].celery
<1> USE DEF TypeOK, Row
<1>1. ASSUME NEW s, NEW n, CommitStart(w, s, n)
      PROVE  \A t \in Tasks : row'[t].celery = row[t].celery
  BY <1>1 DEF CommitStart
<1>2. CASE Reserve(w)
  BY <1>2, <1>1 DEF Reserve
<1>3. CASE Wait(w)
  BY <1>3, <1>1 DEF Wait
<1>4. CASE GiveUp(w)
  BY <1>4 DEF GiveUp
<1>5. CASE FinishCommit(w)
  <2>1. thread[w].job.task \in Tasks
    BY <1>5, ThreadHands DEF FinishCommit
  <2> QED
    BY <1>5, <2>1, FinishWrites
<1>6. CASE UNCHANGED row
  BY <1>6
<1>7. QED
  BY <1>2, <1>3, <1>4, <1>5, <1>6
     DEF WorkerStep, LoadTask, ReadStaleSum, RefuseStart, RetryLater, PipelineEnds, Ack

(* A request that sends nothing, and whose row keeps its id, keeps Named. *)
LEMMA QuietNames ==
    ASSUME TypeOK, MessageHasRow, Named, NEW r \in Requests,
           Messages' = Messages,
           \A q \in Requests \ {r} : req'[q] = req[q],
           req[r].pc # "stamp", req'[r].pc \notin {"reset", "enqueue", "stamp"},
           \A t \in Created : row'[t].celery = row[t].celery
    PROVE  Named'
<1>1. \A m \in Messages : m.id \in Requests /\ m.task \in Created
  BY MessagesType DEF Delivery
<1>2. \A q \in Requests : Sending(q)' => Sending(q) /\ req'[q] = req[q]
  BY DEF Sending
<1>3. QED
  BY <1>1, <1>2 DEF Named, Sending

LEMMA ApiNames ==
    ASSUME Ops \subseteq {"create", "cancel"}, "api_crash" \notin Faults,
           TypeOK, MessageHasRow, Named, NEW r \in Requests, ApiStep(r)
    PROVE  Named'
<1>q. \A q \in Requests \ {r} : req'[q] = req[q]
  BY DEF ApiStep, SubmitNew, Insert, SubmitKnown, SubmitRerun, Recompute, Cancel, Refuse,
         ResetRow, Enqueue, EnqueueFails, Stamp, CommitCancel, ApiCrash, Become, LoadRow,
         TypeOK
<1>t. \A m \in Messages : m.id \in Requests /\ m.task \in Created /\ m.task \in Tasks
  BY MessagesType DEF Delivery
<1>m. ASSUME UNCHANGED <<broker, thread>>
      PROVE  Messages' = Messages
  BY <1>m DEF Messages, Holds
<1>b. ASSUME NEW t, Become(r, "done", t), UNCHANGED <<broker, thread, row>>, req[r].pc # "stamp"
      PROVE  Named'
  <2>1. req'[r].pc = "done"
    BY <1>b DEF Become, NewRequest, TypeOK
  <2>2. QED
    BY <2>1, <1>b, <1>m, <1>q, QuietNames
<1>1. ASSUME NEW k \in Keys, SubmitNew(r, k)
      PROVE  Named'
  <2>1. req'[r].pc = "insert" /\ req[r].pc = "new"
    BY <1>1 DEF SubmitNew, NewRequest, TypeOK
  <2>2. QED
    BY <2>1, <1>1, <1>m, <1>q, QuietNames DEF SubmitNew
<1>2. ASSUME NEW k \in Keys \cup {NoKey}, Insert(r, k)
      PROVE  Named'
  <2>0. UNCHANGED <<broker, thread>> /\ req[r].pc \in {"insert", "new"}
    BY <1>2 DEF Insert
  <2>1. CASE UNCHANGED row /\ \E t \in Holder(k) : Become(r, "done", t)
    BY <2>0, <2>1, <1>b
  <2>2. CASE \E t \in Tasks \ Created :
                /\ row' = [row EXCEPT ![t] = [NoRow EXCEPT !.status = "queued", !.key = k]]
                /\ Become(r, "enqueue", t)
    <3>1. PICK t \in Tasks \ Created :
                /\ row' = [row EXCEPT ![t] = [NoRow EXCEPT !.status = "queued", !.key = k]]
                /\ Become(r, "enqueue", t)
      BY <2>2
    <3>2. req'[r].pc = "enqueue" /\ req'[r].task = t
      BY <3>1 DEF Become, NewRequest, TypeOK
    <3>3. \A u \in Created : row'[u] = row[u]
      BY <3>1 DEF Created
    <3>4. \A q \in Requests : Sending(q) => req[q].task # t
      BY <3>1 DEF MessageHasRow, Sending
    <3>5. \A m \in Messages : m.task # t
      BY <3>1, <1>t
    <3>6. Messages' = Messages
      BY <2>0, <1>m
    <3>7. QED
      BY <2>0, <3>2, <3>3, <3>4, <3>5, <3>6, <1>q, <1>t DEF Named, Sending
  <2>3. QED
    BY <2>1, <2>2, <1>2 DEF Insert
<1>3. ASSUME NEW op \in CreateOps, NEW k \in Keys, SubmitKnown(r, op, k)
      PROVE  Named'
  BY <1>3, <1>b DEF SubmitKnown
<1>4. ASSUME NEW op \in CreateOps, NEW k \in Keys, SubmitRerun(r, op, k)
      PROVE  FALSE
  BY <1>4 DEF SubmitRerun, ShouldRerun, CreateOps
<1>5. ASSUME NEW t \in Tasks, Recompute(r, t)
      PROVE  FALSE
  BY <1>5 DEF Recompute
<1>6. ASSUME NEW t \in Tasks, Cancel(r, t)
      PROVE  Named'
  <2>1. req'[r].pc = "cancel" /\ req[r].pc = "new" /\ UNCHANGED <<broker, thread, row>>
    BY <1>6 DEF Cancel, LoadRow, NewRequest, TypeOK
  <2>2. QED
    BY <2>1, <1>m, <1>q, QuietNames
<1>7. ASSUME NEW t \in Tasks, Refuse(r, t)
      PROVE  Named'
  BY <1>7, <1>b DEF Refuse
<1>8. ASSUME ResetRow(r)
      PROVE  FALSE
  BY <1>8 DEF ResetRow, Named
<1>9. CASE Enqueue(r)
  <2> DEFINE t == req[r].task
             new == [id |-> r, task |-> t, retries |-> 0]
  <2>1. /\ req'[r].pc = "stamp" /\ req'[r].task = t /\ req[r].pc = "enqueue"
        /\ UNCHANGED <<thread, row>>
    BY <1>9 DEF Enqueue, LoadRow, NewRequest, TypeOK
  <2>2. Messages' = Messages \cup {new}
    BY <1>9 DEF Enqueue, Messages, Holds
  <2>3. new.id = r /\ new.task = t
    OBVIOUS
  <2>4. \A m \in Messages : m.task # t
    BY <2>1 DEF Named, Sending
  <2>5. \A m \in Messages : m.id = r => row[m.task].celery = m.id
    BY <2>1 DEF Named
  <2> HIDE DEF t, new
  <2>6. \A m \in Messages' :
          \/ row'[m.task].celery = m.id
          \/ req'[m.id].pc = "stamp" /\ req'[m.id].task = m.task
    BY <2>1, <2>2, <2>3, <2>5, <1>q, <1>t DEF Named
  <2>7. \A q \in Requests : Sending(q)' <=> Sending(q)
    BY <2>1, <1>q DEF Sending
  <2>8. \A q \in Requests : req'[q].task = req[q].task
    BY <2>1, <1>q DEF t
  <2>9. \A p, q \in Requests : Sending(p)' /\ Sending(q)' /\ req'[p].task = req'[q].task => p = q
    BY <2>7, <2>8 DEF Named
  <2>10. \A q \in Requests \ {r} : Sending(q) => req[q].task # t
    BY <2>1 DEF Named, Sending, t
  <2>11. \A q \in Requests, m \in Messages' :
            Sending(q)' /\ m.task = req'[q].task => req'[q].pc = "stamp" /\ m.id = q
    BY <2>1, <2>2, <2>3, <2>4, <2>7, <2>8, <2>10, <1>q DEF Named
  <2>12. QED
    BY <2>1, <2>6, <2>9, <2>11, <1>q DEF Named
<1>10. CASE EnqueueFails(r)
  BY <1>10, <1>b DEF EnqueueFails
<1>11. CASE Stamp(r)
  <2> DEFINE t == req[r].task
  <2>1. /\ req'[r].pc = "done" /\ req[r].pc = "stamp"
        /\ UNCHANGED <<broker, thread>>
    BY <1>11 DEF Stamp, Become, NewRequest, TypeOK
  <2>2. t \in Tasks
    BY <2>1, RequestTask
  <2>3. row'[t].celery = r /\ \A u \in Tasks \ {t} : row'[u] = row[u]
    BY <2>2, <1>11 DEF Stamp, TypeOK, Row
  <2>4. Messages' = Messages
    BY <2>1, <1>m
  <2>5. \A m \in Messages : m.task = t => m.id = r
    BY <2>1 DEF Named, Sending
  <2>6. \A m \in Messages : m.task # t /\ m.id = r => row[m.task].celery = m.id
    BY <2>1 DEF Named
  <2>7. \A m \in Messages' :
          \/ row'[m.task].celery = m.id
          \/ req'[m.id].pc = "stamp" /\ req'[m.id].task = m.task
    BY <2>3, <2>4, <2>5, <2>6, <1>q, <1>t DEF Named
  <2>8. \A q \in Requests : Sending(q)' => Sending(q) /\ req'[q] = req[q]
    BY <2>1, <1>q DEF Sending
  <2>9. QED
    BY <2>1, <2>4, <2>7, <2>8, <1>q DEF Named
<1>12. CASE CommitCancel(r)
  <2>1. /\ req'[r].pc = "done" /\ req[r].pc = "cancel"
        /\ UNCHANGED <<broker, thread>>
    BY <1>12 DEF CommitCancel, Become, NewRequest, TypeOK
  <2>2. \A t \in Created : row'[t].celery = row[t].celery
    BY <1>12 DEF CommitCancel, TypeOK, Row, Created
  <2>3. QED
    BY <2>1, <2>2, <1>m, <1>q, QuietNames
<1>13. ASSUME ApiCrash(r)
       PROVE  FALSE
  BY <1>13 DEF ApiCrash, Strikes
<1>14. QED
  BY <1>1, <1>2, <1>3, <1>4, <1>5, <1>6, <1>7, <1>8, <1>9, <1>10, <1>11, <1>12, <1>13
     DEF ApiStep

LEMMA WorkerNamed ==
    ASSUME TypeOK, Named, NEW w \in Threads, WorkerStep(w), MessageHasRow
    PROVE  Named'
<1>1. UNCHANGED req
  BY DEF WorkerStep, LoadTask, ReadStaleSum, Reserve, Wait, RefuseStart, RetryLater,
         GiveUp, PipelineEnds, FinishCommit, Ack
<1>2. \A m \in Messages : m.task \in Tasks
  BY MessagesType DEF Delivery
<1>3. \A m \in Messages' : \E n \in Messages : n.id = m.id /\ n.task = m.task
  BY WorkerMessages
<1>4. \A t \in Tasks : row'[t].celery = row[t].celery
  BY WorkerNames
<1>5. QED
  BY <1>1, <1>2, <1>3, <1>4 DEF Named, Sending

(* While clients create and cancel only and no API process dies between a   *)
(* message and its row, what cancel revokes is what the broker holds:       *)
(* every message that can be delivered is the one its row names, or about   *)
(* to be, over retries, redeliveries and dying workers.                     *)
THEOREM RevokesReachMessages ==
    ASSUME Ops \subseteq {"create", "cancel"}, "api_crash" \notin Faults
    PROVE  Spec => []RevokeReachesMessage
<1>1. Init => Named
  BY DEF Init, Named, NewRequest, IdleThread, Messages, Holds, Sending
<1>2. TypeOK /\ MessageHasRow /\ Named /\ [Next]_vars => Named'
  <2> SUFFICES ASSUME TypeOK, MessageHasRow, Named, [Next]_vars
               PROVE  Named'
    OBVIOUS
  <2>1. CASE UNCHANGED vars
    <3>1. Messages' = Messages
      BY <2>1 DEF vars, Messages, Holds
    <3>2. QED
      BY <2>1, <3>1 DEF vars, Named, Sending
  <2>2. ASSUME NEW r \in Requests, ApiStep(r)
        PROVE  Named'
    BY <2>2, ApiNames
  <2>3. ASSUME NEW w \in Threads, WorkerStep(w)
        PROVE  Named'
    BY <2>3, WorkerNamed
  <2>4. ASSUME Messages' \subseteq Messages, UNCHANGED <<row, req>>
        PROVE  Named'
    BY <2>4 DEF Named, Sending
  <2>5. QED
    BY <2>1, <2>2, <2>3, <2>4, OtherMessages DEF Next
<1>3. Named => RevokeReachesMessage
  BY DEF Named, RevokeReachesMessage, Messages
<1>4. QED
  BY <1>1, <1>2, <1>3, TypeCorrect, KeysAndRows, PTL DEF Spec

-----------------------------------------------------------------------------
(***************************************************************************)
(* Clients that submit and nothing else: nothing is revoked, and a row is  *)
(* queued and untouched until its message is out.                          *)
(***************************************************************************)
OnlyCreates ==
    /\ revoked = {}
    /\ \A r \in Requests : req[r].pc \in {"new", "insert", "enqueue", "stamp", "done"}
    /\ \A r \in Requests : req[r].pc = "stamp" => req[r].seen.status = "queued"
    /\ \A r \in Requests : req[r].pc = "enqueue" =>
          /\ row[req[r].task].status = "queued"
          /\ \A m \in Messages : m.task # req[r].task
          /\ \A q \in Requests \ {r} : req[q].pc = "enqueue" => req[q].task # req[r].task

(* A thread that will leave its task's row settled, or its message with the *)
(* broker: not so one that loaded a settled row, which another message of   *)
(* the task may have put back to work since.                                *)
CarriesOn(w) ==
    \/ thread[w].pc \in {"load", "run", "retry"}
    \/ thread[w].pc \in {"stale", "reserve", "commit"} /\ thread[w].seen.status \in Active

Carried(t) ==
    \/ \E d \in broker : d.task = t
    \/ \E w \in Holding(t) : CarriesOn(w)
    \/ \E r \in Requests : req[r].pc = "enqueue" /\ req[r].task = t

EveryTaskCarried == \A t \in Created : row[t].status \in Active => Carried(t)

(* With one message per task, its holder is alone with the row.             *)
HolderKnows ==
    \A w \in Threads :
      /\ thread[w].pc \in {"stale", "reserve", "commit"} =>
            thread[w].seen = Loaded(row[thread[w].job.task])
      /\ thread[w].pc \in {"run", "commit"} => row[thread[w].job.task].status = "running"
      /\ thread[w].pc = "retry" => row[thread[w].job.task].status = "waiting_capacity"

(* What the requests of submitting clients can do, in four steps: nothing   *)
(* to the tasks, a new row, its message, its id.                            *)
QuietStep(r) ==
    /\ UNCHANGED <<row, broker, thread, revoked>>
    /\ \A q \in Requests \ {r} : req'[q] = req[q]
    /\ req'[r].pc \in {"insert", "done"}
    /\ req[r].pc = "enqueue" => "api_crash" \in Faults \/ "enqueue_error" \in Faults

NewRow(r) ==
    \E t \in Tasks \ Created, k \in Keys \cup {NoKey} :
       /\ row' = [row EXCEPT ![t] = [NoRow EXCEPT !.status = "queued", !.key = k]]
       /\ Become(r, "enqueue", t)
       /\ req[r].pc \in {"new", "insert"}
       /\ UNCHANGED <<broker, thread, revoked>>

LEMMA SubmitterSteps ==
    ASSUME Ops \subseteq {"create"}, TypeOK, OnlyCreates, NEW r \in Requests, ApiStep(r)
    PROVE  QuietStep(r) \/ NewRow(r) \/ Enqueue(r) \/ Stamp(r)
<1>q. \A q \in Requests \ {r} : req'[q] = req[q]
  BY DEF ApiStep, SubmitNew, Insert, SubmitKnown, SubmitRerun, Recompute, Cancel, Refuse,
         ResetRow, Enqueue, EnqueueFails, Stamp, CommitCancel, ApiCrash, Become, LoadRow,
         TypeOK
<1>b. ASSUME NEW t, Become(r, "done", t), UNCHANGED <<row, broker, thread, revoked>>,
             req[r].pc = "enqueue" => "api_crash" \in Faults \/ "enqueue_error" \in Faults
      PROVE  QuietStep(r)
  <2>1. req'[r].pc = "done"
    BY <1>b DEF Become, NewRequest, TypeOK
  <2>2. QED
    BY <2>1, <1>b, <1>q DEF QuietStep
<1>1. ASSUME NEW k \in Keys, SubmitNew(r, k)
      PROVE  QuietStep(r)
  <2>1. req'[r].pc = "insert" /\ req[r].pc = "new"
    BY <1>1 DEF SubmitNew, NewRequest, TypeOK
  <2>2. QED
    BY <2>1, <1>1, <1>q DEF QuietStep, SubmitNew
<1>2. ASSUME NEW k \in Keys \cup {NoKey}, Insert(r, k)
      PROVE  QuietStep(r) \/ NewRow(r)
  <2>1. /\ UNCHANGED <<broker, thread, revoked>>
        /\ req[r].pc \in {"new", "insert"}
    BY <1>2 DEF Insert
  <2>2. CASE UNCHANGED row /\ \E t \in Holder(k) : Become(r, "done", t)
    BY <2>1, <2>2, <1>b
  <2>3. CASE \E t \in Tasks \ Created :
                /\ row' = [row EXCEPT ![t] = [NoRow EXCEPT !.status = "queued", !.key = k]]
                /\ Become(r, "enqueue", t)
    BY <2>1, <2>3 DEF NewRow
  <2>4. QED
    BY <2>2, <2>3, <1>2 DEF Insert
<1>3. ASSUME NEW op \in CreateOps, NEW k \in Keys, SubmitKnown(r, op, k)
      PROVE  QuietStep(r)
  BY <1>3, <1>b DEF SubmitKnown
<1>4. ASSUME NEW op \in CreateOps, NEW k \in Keys, SubmitRerun(r, op, k)
      PROVE  FALSE
  BY <1>4 DEF SubmitRerun, ShouldRerun, CreateOps
<1>5. ASSUME NEW t \in Tasks, Recompute(r, t) \/ Cancel(r, t) \/ Refuse(r, t)
      PROVE  FALSE
  BY <1>5 DEF Recompute, Cancel, Refuse
<1>6. ASSUME ResetRow(r) \/ CommitCancel(r)
      PROVE  FALSE
  BY <1>6 DEF ResetRow, CommitCancel, OnlyCreates
<1>7. CASE EnqueueFails(r)
  BY <1>7, <1>b DEF EnqueueFails, Strikes
<1>8. CASE ApiCrash(r)
  BY <1>8, <1>b DEF ApiCrash, Strikes
<1>9. QED
  BY <1>1, <1>2, <1>3, <1>4, <1>5, <1>6, <1>7, <1>8 DEF ApiStep

(* The stamp of a submission moves nothing but the id. *)
LEMMA StampsQueued ==
    ASSUME TypeOK, OnlyCreates, NEW r \in Requests, Stamp(r)
    PROVE  /\ row' = [row EXCEPT ![req[r].task].celery = r]
           /\ \A t \in Tasks : Loaded(row'[t]) = Loaded(row[t])
           /\ \A q \in Requests \ {r} : req'[q] = req[q]
           /\ req[r].pc = "stamp" /\ req'[r].pc = "done"
           /\ UNCHANGED <<broker, thread, revoked>>
<1> DEFINE t == req[r].task
<1>1. req[r].pc = "stamp" /\ req[r].seen.status = "queued"
  BY DEF Stamp, OnlyCreates
<1>2. t \in Tasks
  BY <1>1, RequestTask
<1>3. row' = [row EXCEPT ![t].celery = r]
  BY <1>1, <1>2 DEF Stamp, Flushed, TypeOK, Row
<1>4. \A u \in Tasks : Loaded(row'[u]) = Loaded(row[u])
  BY <1>2, <1>3 DEF Loaded, TypeOK, Row
<1>5. /\ \A q \in Requests \ {r} : req'[q] = req[q]
      /\ req'[r].pc = "done"
      /\ UNCHANGED <<broker, thread, revoked>>
  BY DEF Stamp, Become, NewRequest, TypeOK
<1>6. QED
  BY <1>1, <1>3, <1>4, <1>5

(* A worker touches the row of its own task only. *)
LEMMA WorkerRow ==
    ASSUME TypeOK, NEW w \in Threads, WorkerStep(w)
    PROVE  /\ \A t \in Tasks : t # thread[w].job.task => row'[t] = row[t]
           /\ UNCHANGED <<req, revoked>>
           /\ Holds(w)
<1> USE DEF TypeOK
<1>1. ASSUME NEW s, NEW n, CommitStart(w, s, n)
      PROVE  \A t \in Tasks : t # thread[w].job.task => row'[t] = row[t]
  BY <1>1 DEF CommitStart
<1>2. CASE Reserve(w)
  BY <1>2, <1>1 DEF Reserve, Holds
<1>3. CASE Wait(w)
  BY <1>3, <1>1 DEF Wait, Holds
<1>4. CASE GiveUp(w)
  BY <1>4 DEF GiveUp, Holds
<1>5. CASE FinishCommit(w)
  BY <1>5 DEF FinishCommit, Holds
<1>6. CASE UNCHANGED row
  BY <1>2, <1>3, <1>4, <1>5, <1>6
     DEF WorkerStep, LoadTask, ReadStaleSum, RefuseStart, RetryLater, PipelineEnds, Ack, Holds
<1>7. QED
  BY <1>2, <1>3, <1>4, <1>5, <1>6
     DEF WorkerStep, LoadTask, ReadStaleSum, RefuseStart, RetryLater, PipelineEnds, Ack

(* OnlyCreates is inductive, whatever faults strike. *)
LEMMA CreatesOnly ==
    ASSUME Ops \subseteq {"create"}, TypeOK, MessageHasRow, OnlyCreates, [Next]_vars
    PROVE  OnlyCreates'
<1>t. \A m \in Messages : m.task \in Created /\ m.task \in Tasks
  BY MessagesType DEF Delivery
<1>m. ASSUME UNCHANGED <<broker, thread>>
      PROVE  Messages' = Messages
  BY <1>m DEF Messages, Holds
<1>1. CASE UNCHANGED vars
  BY <1>1, <1>m DEF vars, OnlyCreates
<1>2. ASSUME NEW r \in Requests, QuietStep(r)
      PROVE  OnlyCreates'
  BY <1>2, <1>m DEF OnlyCreates, QuietStep
<1>3. ASSUME NEW r \in Requests, NewRow(r)
      PROVE  OnlyCreates'
  <2>1. PICK t \in Tasks \ Created, k \in Keys \cup {NoKey} :
          /\ row' = [row EXCEPT ![t] = [NoRow EXCEPT !.status = "queued", !.key = k]]
          /\ Become(r, "enqueue", t)
    BY <1>3 DEF NewRow
  <2>2. /\ req'[r].pc = "enqueue" /\ req'[r].task = t
        /\ \A q \in Requests \ {r} : req'[q] = req[q]
    BY <2>1 DEF Become, NewRequest, TypeOK
  <2>3. row'[t].status = "queued" /\ \A u \in Tasks \ {t} : row'[u] = row[u]
    BY <2>1 DEF NoRow, TypeOK
  <2>4. \A q \in Requests : req[q].pc = "enqueue" => req[q].task \in Tasks /\ req[q].task # t
    BY RequestTask DEF MessageHasRow
  <2>5. Messages' = Messages /\ UNCHANGED revoked
    BY <1>3, <1>m DEF NewRow
  <2>6. \A m \in Messages : m.task # t
    BY <1>t
  <2>7. QED
    BY <2>2, <2>3, <2>4, <2>5, <2>6 DEF OnlyCreates
<1>4. ASSUME NEW r \in Requests, Enqueue(r)
      PROVE  OnlyCreates'
  <2> DEFINE t == req[r].task
             new == [id |-> r, task |-> t, retries |-> 0]
  <2>1. /\ req[r].pc = "enqueue" /\ row[t].status = "queued"
        /\ \A q \in Requests \ {r} : req[q].pc = "enqueue" => req[q].task # t
    BY <1>4 DEF Enqueue, OnlyCreates
  <2>2. /\ req'[r].pc = "stamp" /\ req'[r].seen.status = "queued"
        /\ \A q \in Requests \ {r} : req'[q] = req[q]
        /\ UNCHANGED <<row, revoked>>
    BY <2>1, <1>4 DEF Enqueue, LoadRow, NewRequest, Loaded, TypeOK
  <2>3. Messages' = Messages \cup {new} /\ new.task = t
    BY <1>4 DEF Enqueue, Messages, Holds
  <2> HIDE DEF new, t
  <2>4. QED
    BY <2>1, <2>2, <2>3 DEF OnlyCreates
<1>5. ASSUME NEW r \in Requests, Stamp(r)
      PROVE  OnlyCreates'
  <2>1. \A t \in Tasks : row'[t].status = row[t].status
    BY <1>5, StampsQueued DEF Loaded
  <2>2. \A q \in Requests : req[q].pc = "enqueue" => req[q].task \in Tasks
    BY RequestTask
  <2>3. /\ \A q \in Requests \ {r} : req'[q] = req[q]
        /\ req'[r].pc = "done"
        /\ UNCHANGED <<broker, thread, revoked>>
    BY <1>5, StampsQueued
  <2>4. Messages' = Messages
    BY <2>3, <1>m
  <2>5. \A q \in Requests : req'[q].pc \in {"enqueue", "stamp"} => req'[q] = req[q]
    BY <2>3
  <2>6. QED
    BY <2>1, <2>2, <2>3, <2>4, <2>5 DEF OnlyCreates
<1>6. ASSUME NEW w \in Threads, WorkerStep(w)
      PROVE  OnlyCreates'
  <2>1. thread[w].job \in Messages
    BY <1>6, WorkerRow DEF Messages
  <2>2. \A r \in Requests : req[r].pc = "enqueue" =>
           req[r].task \in Tasks /\ req[r].task # thread[w].job.task
    BY <2>1, RequestTask DEF OnlyCreates
  <2>3. \A m \in Messages' : \E n \in Messages : n.task = m.task
    BY <1>6, WorkerMessages
  <2>4. QED
    BY <2>2, <2>3, <1>6, WorkerRow DEF OnlyCreates
<1>7. ASSUME \/ \E w \in Threads : Redeliver(w)
             \/ \E w \in Threads, d \in broker : Deliver(w, d)
             \/ \E d \in broker : Discard(d)
             \/ \E q \in Queues : WorkerCrash(q)
             \/ BeatStep
      PROVE  OnlyCreates'
  <2>1. Messages' \subseteq Messages /\ UNCHANGED <<row, req>>
    BY <1>7, OtherMessages
  <2>2. revoked' \subseteq revoked
    BY <1>7 DEF Redeliver, Deliver, Discard, WorkerCrash, BeatStep, ReconcileRead, ReconcileWrite
  <2>3. QED
    BY <2>1, <2>2 DEF OnlyCreates
<1>8. QED
  BY <1>1, <1>2, <1>3, <1>4, <1>5, <1>6, <1>7, SubmitterSteps DEF Next

(* What a worker's step leaves of its own task: a settled row, itself at    *)
(* work, a message, or, when it did not carry the task, the status as it    *)
(* was.                                                                    *)
LEMMA WorkerCarries ==
    ASSUME TypeOK, MessageHasRow, NEW w \in Threads, WorkerStep(w)
    PROVE  LET t == thread[w].job.task
           IN  \/ row'[t].status \notin Active
               \/ thread'[w].job.task = t /\ CarriesOn(w)'
               \/ \E d \in broker' : d.task = t
               \/ ~CarriesOn(w) /\ row'[t].status = row[t].status
<1> DEFINE t == thread[w].job.task
           Left == \/ row'[t].status \notin Active
                   \/ thread'[w].job.task = t /\ CarriesOn(w)'
                   \/ \E d \in broker' : d.task = t
                   \/ ~CarriesOn(w) /\ row'[t].status = row[t].status
<1>0. Holds(w) /\ t \in Tasks
  BY WorkerRow, ThreadHands DEF Holds
<1>r. row[t] \in Row /\ thread[w] \in ThreadState /\ thread[w].seen \in Snapshot
  BY <1>0 DEF TypeOK, ThreadState
<1>g. ASSUME NEW pc \in {"run", "retry"}, Goto(w, pc)
      PROVE  Left
  <2>1. thread'[w].pc = pc /\ thread'[w].job = thread[w].job
    BY <1>g DEF Goto, IdleThread, TypeOK
  <2>2. QED
    BY <2>1 DEF CarriesOn, Holds
<1>1. CASE LoadTask(w)
  <2>1. /\ thread'[w].seen = Loaded(row[t])
        /\ thread'[w].pc \in {"stale", "reserve"}
        /\ thread'[w].job = thread[w].job
        /\ UNCHANGED row
    BY <1>1, <1>r DEF LoadTask, TypeOK, ThreadState
  <2>2. QED
    BY <2>1 DEF Loaded, CarriesOn, Holds
<1>2. CASE ReadStaleSum(w)
  <2>1. /\ thread'[w].seen = thread[w].seen
        /\ thread'[w].pc = "reserve" /\ thread[w].pc = "stale"
        /\ thread'[w].job = thread[w].job
        /\ UNCHANGED row
    BY <1>2, <1>r DEF ReadStaleSum, TypeOK, ThreadState
  <2>2. QED
    BY <2>1 DEF CarriesOn, Holds
<1>3. CASE Reserve(w)
  BY <1>3, <1>g DEF Reserve
<1>4. CASE Wait(w)
  BY <1>4, <1>g DEF Wait
<1>5. CASE RefuseStart(w)
  <2>1. thread[w].pc = "reserve" /\ UNCHANGED row
    BY <1>5 DEF RefuseStart
  <2>2. \/ ~CanTransition(StartStatus(w), "running")
        \/ ~MayWait(StartStatus(w))
    BY <1>5 DEF RefuseStart
  <2>3. thread[w].seen.status \notin Active
    BY <2>2 DEF StartStatus, MayWait, CanTransition, AllowedTransitions, Active, Status, Terminal
  <2>4. QED
    BY <2>1, <2>3 DEF CarriesOn
<1>6. CASE RetryLater(w)
  <2> DEFINE again == [thread[w].job EXCEPT !.retries = @ + 1]
  <2>1. again \in broker'
    BY <1>6 DEF RetryLater
  <2>2. again.task = t
    BY <1>0, ThreadHands DEF Delivery, Holds
  <2> HIDE DEF again
  <2>3. QED
    BY <2>1, <2>2
<1>7. CASE GiveUp(w)
  <2>1. row'[t].status = "failed"
    BY <1>7, <1>0 DEF GiveUp, TypeOK, Row
  <2>2. QED
    BY <2>1 DEF Active, Terminal
<1>8. ASSUME NEW ok \in BOOLEAN, PipelineEnds(w, ok)
      PROVE  Left
  <2>1. /\ thread'[w].seen = Loaded(row[t])
        /\ thread'[w].pc = "commit"
        /\ thread'[w].job = thread[w].job
        /\ UNCHANGED row
    BY <1>8, <1>r DEF PipelineEnds, TypeOK, ThreadState
  <2>2. QED
    BY <2>1 DEF Loaded, CarriesOn, Holds
<1>9. CASE FinishCommit(w)
  <2> DEFINE end == IF thread[w].ok THEN "finished" ELSE "failed"
  <2>1. row'[t].status = Flushed(thread[w].seen.status, end, row[t].status)
    BY <1>9, <1>0, FinishWrites DEF TypeOK
  <2>2. end \in Terminal
    BY DEF Terminal
  <2>3. thread[w].pc = "commit"
    BY <1>9 DEF FinishCommit
  <2>4. QED
    BY <2>1, <2>2, <2>3 DEF Flushed, CarriesOn, Active
<1>10. CASE Ack(w)
  BY <1>10 DEF Ack, CarriesOn
<1>11. QED
  BY <1>1, <1>2, <1>3, <1>4, <1>5, <1>6, <1>7, <1>8, <1>9, <1>10 DEF WorkerStep

(* A worker's step loses no message of the broker, and no other thread.     *)
LEMMA WorkerLeaves ==
    ASSUME TypeOK, NEW w \in Threads, WorkerStep(w)
    PROVE  /\ broker \subseteq broker'
           /\ \A v \in Threads \ {w} : thread'[v] = thread[v]
BY WorkerMoves DEF WorkerStep, LoadTask, ReadStaleSum, Reserve, Wait, RefuseStart,
       RetryLater, GiveUp, PipelineEnds, FinishCommit, Ack

LEMMA WorkerKeepsCarried ==
    ASSUME TypeOK, MessageHasRow, EveryTaskCarried, NEW w \in Threads, WorkerStep(w)
    PROVE  EveryTaskCarried'
<1>0. Holds(w) /\ thread[w].job.task \in Tasks /\ UNCHANGED req
  BY WorkerRow, ThreadHands DEF Holds
<1>t. PICK t \in Tasks : t = thread[w].job.task
  BY <1>0
<1>1. Created' = Created
  BY WorkerKeys DEF RowsKept, Created
<1>2. \A v \in Threads \ {w} : thread'[v] = thread[v]
  BY WorkerLeaves
<1>3. broker \subseteq broker'
  BY WorkerLeaves
<1>4. ASSUME NEW u \in Tasks, Carried(u), u # t \/ ~CarriesOn(w)
      PROVE  Carried(u)'
  BY <1>0, <1>t, <1>2, <1>3, <1>4 DEF Carried, Holding, CarriesOn, Busy
<1>5. ASSUME NEW u \in Created, row'[u].status \in Active, u # t
      PROVE  Carried(u)'
  <2>1. row'[u] = row[u]
    BY <1>5, <1>t, WorkerRow DEF Created
  <2>2. QED
    BY <2>1, <1>4, <1>5 DEF EveryTaskCarried, Created
<1>6. ASSUME t \in Created, row'[t].status \in Active
      PROVE  Carried(t)'
  <2>1. CASE thread'[w].job.task = t /\ CarriesOn(w)'
    BY <2>1 DEF Carried, Holding, CarriesOn, Busy
  <2>2. CASE \E d \in broker' : d.task = t
    BY <2>2 DEF Carried
  <2>3. CASE ~CarriesOn(w) /\ row'[t].status = row[t].status
    BY <2>3, <1>4, <1>6 DEF EveryTaskCarried, Created
  <2>4. QED
    BY <2>1, <2>2, <2>3, <1>6, <1>t, WorkerCarries
<1>7. QED
  BY <1>1, <1>5, <1>6 DEF EveryTaskCarried

LEMMA SubmitKeepsCarried ==
    ASSUME Ops \subseteq {"create"}, Faults \cap {"api_crash", "enqueue_error"} = {},
           TypeOK, MessageHasRow, OnlyCreates, EveryTaskCarried,
           NEW r \in Requests, ApiStep(r)
    PROVE  EveryTaskCarried'
<1>s. ASSUME NEW u \in Tasks, Carried(u), broker \subseteq broker', UNCHANGED thread,
             \A q \in Requests : req[q].pc = "enqueue" /\ req[q].task = u => req'[q] = req[q]
      PROVE  Carried(u)'
  BY <1>s DEF Carried, Holding, CarriesOn, Busy
<1>1. CASE QuietStep(r)
  <2>1. \A q \in Requests : req[q].pc = "enqueue" => req'[q] = req[q]
    BY <1>1 DEF QuietStep
  <2>2. UNCHANGED <<row, broker, thread>>
    BY <1>1 DEF QuietStep
  <2>3. QED
    BY <2>1, <2>2, <1>s DEF EveryTaskCarried, Created
<1>2. CASE NewRow(r)
  <2>1. PICK t \in Tasks \ Created, k \in Keys \cup {NoKey} :
          /\ row' = [row EXCEPT ![t] = [NoRow EXCEPT !.status = "queued", !.key = k]]
          /\ Become(r, "enqueue", t)
          /\ req[r].pc \in {"new", "insert"}
          /\ UNCHANGED <<broker, thread, revoked>>
    BY <1>2 DEF NewRow
  <2>2. /\ req'[r].pc = "enqueue" /\ req'[r].task = t
        /\ \A q \in Requests \ {r} : req'[q] = req[q]
    BY <2>1 DEF Become, NewRequest, TypeOK
  <2>3. \A u \in Tasks \ {t} : row'[u] = row[u]
    BY <2>1
  <2>4. Carried(t)'
    BY <2>2 DEF Carried
  <2>5. \A u \in Tasks : Carried(u) => Carried(u)'
    BY <2>1, <2>2, <1>s
  <2>6. QED
    BY <2>3, <2>4, <2>5 DEF EveryTaskCarried, Created
<1>3. CASE Enqueue(r)
  <2>0. PICK t \in Tasks : t = req[r].task
    BY <1>3, RequestTask DEF Enqueue
  <2>1. /\ broker' = broker \cup {[id |-> r, task |-> t, retries |-> 0]}
        /\ UNCHANGED <<row, thread>>
        /\ \A q \in Requests \ {r} : req'[q] = req[q]
    BY <2>0, <1>3 DEF Enqueue, LoadRow
  <2>2. Carried(t)'
    <3>1. PICK d : d = [id |-> r, task |-> t, retries |-> 0]
      OBVIOUS
    <3>2. d \in broker' /\ d.task = t
      BY <2>1, <3>1
    <3>3. QED
      BY <3>2 DEF Carried
  <2>3. \A u \in Tasks, q \in Requests :
           u # t /\ req[q].pc = "enqueue" /\ req[q].task = u => req'[q] = req[q]
    BY <2>0, <2>1
  <2>4. \A u \in Tasks : Carried(u) /\ u # t => Carried(u)'
    BY <2>1, <2>3, <1>s
  <2>5. QED
    BY <2>1, <2>2, <2>4 DEF EveryTaskCarried, Created
<1>4. CASE Stamp(r)
  <2>1. /\ \A t \in Tasks : row'[t].status = row[t].status
        /\ \A q \in Requests : req[q].pc = "enqueue" => req'[q] = req[q]
        /\ UNCHANGED <<broker, thread>>
    BY <1>4, StampsQueued DEF Loaded
  <2>2. QED
    BY <2>1, <1>s DEF EveryTaskCarried, Created
<1>5. QED
  BY <1>1, <1>2, <1>3, <1>4, SubmitterSteps

(* A delivery takes the message along; nothing is discarded, as nothing is  *)
(* revoked; what dying threads held is back with the broker.                *)
LEMMA OtherKeepsCarried ==
    ASSUME TypeOK, OnlyCreates, EveryTaskCarried,
           \/ \E w \in Threads : Redeliver(w)
           \/ \E w \in Threads, d \in broker : Deliver(w, d)
           \/ \E d \in broker : Discard(d)
           \/ \E q \in Queues : WorkerCrash(q)
           \/ BeatStep
    PROVE  EveryTaskCarried'
<1>0. UNCHANGED <<row, req>>
  BY OtherMessages
<1>c. ASSUME \A u \in Tasks : Carried(u) => Carried(u)'
      PROVE  EveryTaskCarried'
  BY <1>0, <1>c DEF EveryTaskCarried, Created
<1>1. ASSUME NEW w \in Threads, Redeliver(w)
      PROVE  EveryTaskCarried'
  BY <1>0, <1>1, <1>c DEF Redeliver, Carried, Holding, CarriesOn, Busy
<1>2. ASSUME NEW w \in Threads, NEW d \in broker, Deliver(w, d)
      PROVE  EveryTaskCarried'
  <2>0. thread[w] \in ThreadState /\ DOMAIN thread = Threads
    BY DEF TypeOK
  <2>1. /\ thread'[w].job = d /\ thread'[w].pc = "load" /\ thread[w].pc = "idle"
        /\ \A v \in Threads \ {w} : thread'[v] = thread[v]
        /\ broker' = broker \ {d}
    BY <2>0, <1>2 DEF Deliver, ThreadState
  <2>2. Carried(d.task)'
    BY <2>1 DEF Carried, Holding, CarriesOn, Busy
  <2>3. \A u \in Tasks \ {d.task} : Carried(u) => Carried(u)'
    BY <2>1, <1>0 DEF Carried, Holding, CarriesOn, Busy
  <2>4. QED
    BY <2>2, <2>3, <1>c
<1>3. ASSUME NEW d \in broker, Discard(d)
      PROVE  FALSE
  BY <1>3 DEF Discard, OnlyCreates
<1>4. ASSUME NEW q \in Queues, WorkerCrash(q)
      PROVE  EveryTaskCarried'
  <2>1. /\ broker \subseteq broker'
        /\ \A v \in Threads : PoolOf[v] = q /\ Holds(v) => thread[v].job \in broker'
        /\ \A v \in Threads : PoolOf[v] # q => thread'[v] = thread[v]
    BY <1>4 DEF WorkerCrash, Returned, Holds
  <2>2. \A u \in Tasks : Carried(u) => Carried(u)'
    BY <2>1, <1>0 DEF Carried, Holding, CarriesOn, Busy, Holds
  <2>3. QED
    BY <2>2, <1>c
<1>5. CASE BeatStep
  BY <1>0, <1>5, <1>c DEF BeatStep, ReconcileRead, ReconcileWrite, Carried, Holding, CarriesOn, Busy
<1>6. QED
  BY <1>1, <1>2, <1>3, <1>4, <1>5

(* A submitted task is never left without somebody to carry it on, however  *)
(* often workers die, messages come twice and capacity runs out, as long as *)
(* clients only submit and a request that has its row gets its message out. *)
THEOREM NoTaskIsOrphaned ==
    ASSUME Ops \subseteq {"create"}, Faults \cap {"api_crash", "enqueue_error"} = {}
    PROVE  Spec => []NoOrphan
<1>1. Init => OnlyCreates /\ EveryTaskCarried
  BY DEF Init, OnlyCreates, NewRequest, EveryTaskCarried, Created, NoRow
<1>2. TypeOK /\ MessageHasRow /\ OnlyCreates /\ EveryTaskCarried /\ [Next]_vars
        => OnlyCreates' /\ EveryTaskCarried'
  <2> SUFFICES ASSUME TypeOK, MessageHasRow, OnlyCreates, EveryTaskCarried, [Next]_vars
               PROVE  EveryTaskCarried'
    BY CreatesOnly
  <2>1. CASE UNCHANGED vars
    BY <2>1 DEF vars, EveryTaskCarried, Created, Carried, Holding, CarriesOn, Busy
  <2>2. CASE Next
    BY <2>2, SubmitKeepsCarried, WorkerKeepsCarried, OtherKeepsCarried DEF Next
  <2>3. QED
    BY <2>1, <2>2
<1>3. OnlyCreates /\ EveryTaskCarried => NoOrphan
  BY DEF OnlyCreates, EveryTaskCarried, NoOrphan, Carried
<1>4. QED
  BY <1>1, <1>2, <1>3, TypeCorrect, KeysAndRows, PTL DEF Spec

-----------------------------------------------------------------------------
(***************************************************************************)
(* The contract of a client that only submits, step by step.  A row's one  *)
(* holder is alone with it (HolderKnows), so each of its commits finds the *)
(* status it loaded and makes one move of the contract, or none.           *)
(***************************************************************************)
Moved(t, from, to) == row[t].status \in from /\ row'[t].status = to

SameResult(t) == row'[t].result = row[t].result

(* What one step does to the row of task t, as its client may see it. *)
Promised(t) ==
    \/ row'[t].status = row[t].status /\ SameResult(t)
    \/ Moved(t, {"absent"}, "queued") /\ SameResult(t)
    \/ Moved(t, {"queued", "running", "failed"}, "waiting_capacity") /\ SameResult(t)
    \/ Moved(t, {"queued", "waiting_capacity", "failed"}, "running") /\ SameResult(t)
    \/ Moved(t, {"running"}, "finished") /\ row'[t].result
    \/ Moved(t, {"running", "waiting_capacity"}, "failed") /\ SameResult(t)

(* The holder's part: what it knows after its step, and what it promised. *)
HolderAfter(w) ==
    LET t == thread[w].job.task
    IN  /\ thread'[w].pc \in {"stale", "reserve", "commit"} =>
              thread'[w].seen = Loaded(row'[t])
        /\ thread'[w].pc \in {"run", "commit"} => row'[t].status = "running"
        /\ thread'[w].pc = "retry" => row'[t].status = "waiting_capacity"
        /\ Promised(t)

LEMMA WorkerKnows ==
    ASSUME TypeOK, MessageHasRow, HolderKnows, NEW w \in Threads, WorkerStep(w)
    PROVE  HolderAfter(w)
<1> DEFINE t == thread[w].job.task
           seen == thread[w].seen
<1>0. t \in Tasks /\ t \in Created
  BY WorkerRow, ThreadHands DEF Holds, MessageHasRow
<1>r. /\ row[t] \in Row /\ row[t].status \in Status
      /\ thread[w] \in ThreadState /\ DOMAIN thread = Threads
  BY <1>0 DEF TypeOK, Created, Row
<1>k. thread[w].pc \in {"stale", "reserve", "commit"} =>
         seen.status = row[t].status /\ seen = Loaded(row[t])
  BY DEF HolderKnows, Loaded
<1>u. ASSUME UNCHANGED row
      PROVE  Promised(t)
  BY <1>u DEF Promised, SameResult
<1>g. ASSUME NEW pc, Goto(w, pc)
      PROVE  thread'[w].pc = pc
  BY <1>g DEF Goto, IdleThread, TypeOK
<1>c. ASSUME NEW s, NEW n, thread[w].pc = "reserve", CommitStart(w, s, n)
      PROVE  row'[t].status = s /\ SameResult(t)
  BY <1>c, <1>0, <1>r, <1>k DEF CommitStart, Flushed, SameResult, TypeOK, Row
<1>1. CASE LoadTask(w)
  <2>1. /\ thread'[w].seen = Loaded(row[t])
        /\ thread'[w].pc \in {"stale", "reserve"}
        /\ UNCHANGED row
    BY <1>1, <1>r DEF LoadTask, ThreadState
  <2>2. QED
    BY <2>1, <1>u DEF HolderAfter
<1>2. CASE ReadStaleSum(w)
  <2>1. /\ thread'[w].seen = seen
        /\ thread'[w].pc = "reserve" /\ thread[w].pc = "stale"
        /\ UNCHANGED row
    BY <1>2, <1>r DEF ReadStaleSum, ThreadState
  <2>2. QED
    BY <2>1, <1>u, <1>k DEF HolderAfter
<1>3. CASE Reserve(w)
  <2>1. thread[w].pc = "reserve" /\ thread'[w].pc = "run"
    BY <1>3, <1>g DEF Reserve
  <2>2. row'[t].status = "running" /\ SameResult(t)
    BY <1>3, <2>1, <1>c DEF Reserve
  <2>3. row[t].status # "finished"
    BY <1>3, <2>1, <1>k DEF Reserve, StartStatus, CanTransition, AllowedTransitions, Status
  <2>4. Promised(t)
    BY <2>2, <2>3, <1>r DEF Promised, Moved, Status
  <2>5. QED
    BY <2>1, <2>2, <2>4 DEF HolderAfter
<1>4. CASE Wait(w)
  <2>1. thread[w].pc = "reserve" /\ thread'[w].pc = "retry"
    BY <1>4, <1>g DEF Wait
  <2>2. row'[t].status = "waiting_capacity" /\ SameResult(t)
    BY <1>4, <2>1, <1>c DEF Wait
  <2>3. row[t].status # "finished"
    BY <1>4, <2>1, <1>k
       DEF Wait, MayWait, StartStatus, CanTransition, AllowedTransitions, Status
  <2>4. Promised(t)
    BY <2>2, <2>3, <1>r DEF Promised, Moved, Status
  <2>5. QED
    BY <2>1, <2>2, <2>4 DEF HolderAfter
<1>5. CASE RefuseStart(w)
  <2>1. thread'[w].pc = "ack" /\ UNCHANGED row
    BY <1>5, <1>g DEF RefuseStart
  <2>2. QED
    BY <2>1, <1>u DEF HolderAfter
<1>6. CASE RetryLater(w) \/ Ack(w)
  <2>1. thread'[w].pc \in {"idle", "republished"} /\ UNCHANGED row
    BY <1>6, <1>r, <1>g DEF RetryLater, Ack, IdleThread
  <2>2. QED
    BY <2>1, <1>u DEF HolderAfter
<1>7. CASE GiveUp(w)
  <2>1. thread'[w].pc = "ack" /\ row[t].status = "waiting_capacity"
    BY <1>7, <1>g DEF GiveUp, HolderKnows
  <2>2. row'[t].status = "failed" /\ SameResult(t)
    BY <1>7, <1>0 DEF GiveUp, SameResult, TypeOK, Row
  <2>3. QED
    BY <2>1, <2>2 DEF HolderAfter, Promised, Moved
<1>8. ASSUME NEW ok \in BOOLEAN, PipelineEnds(w, ok)
      PROVE  HolderAfter(w)
  <2>1. /\ thread'[w].seen = Loaded(row[t])
        /\ thread'[w].pc = "commit" /\ thread[w].pc = "run"
        /\ UNCHANGED row
    BY <1>8, <1>r DEF PipelineEnds, ThreadState
  <2>2. row[t].status = "running"
    BY <2>1 DEF HolderKnows
  <2>3. QED
    BY <2>1, <2>2, <1>u DEF HolderAfter
<1>9. CASE FinishCommit(w)
  <2>1. thread'[w].pc = "ack" /\ thread[w].pc = "commit"
    BY <1>9, <1>g DEF FinishCommit
  <2>2. row[t].status = "running" /\ seen.status = "running"
    BY <2>1, <1>k DEF HolderKnows
  <2>3. CASE thread[w].ok
    <3>1. row'[t].status = "finished" /\ row'[t].result
      BY <1>9, <2>2, <2>3, <1>0 DEF FinishCommit, Flushed, TypeOK, Row
    <3>2. QED
      BY <2>1, <2>2, <3>1 DEF HolderAfter, Promised, Moved
  <2>4. CASE ~thread[w].ok
    <3>1. row'[t].status = "failed" /\ SameResult(t)
      BY <1>9, <2>2, <2>4, <1>0 DEF FinishCommit, Flushed, SameResult, TypeOK, Row
    <3>2. QED
      BY <2>1, <2>2, <3>1 DEF HolderAfter, Promised, Moved
  <2>5. QED
    BY <2>3, <2>4
<1>10. QED
  BY <1>1, <1>2, <1>3, <1>4, <1>5, <1>6, <1>7, <1>8, <1>9 DEF WorkerStep

(* There is no result before there is a row. *)
NoEarlyResult == \A t \in Tasks \ Created : ~row[t].result

(* One step of the system touches the row of one task at most, and moves it *)
(* as promised.                                                            *)
OneMove ==
    \/ \A t \in Tasks : row'[t].status = row[t].status /\ SameResult(t)
    \/ \E t \in Tasks : /\ Promised(t)
                       /\ \A u \in Tasks \ {t} : row'[u] = row[u]

LEMMA HolderStep ==
    ASSUME Ops \subseteq {"create"}, TypeOK, MessageHasRow, Apart, OnlyCreates,
           HolderKnows, NoEarlyResult, [Next]_vars
    PROVE  HolderKnows' /\ OneMove
<1>j. \A v \in Threads : Holds(v) => thread[v].job.task \in Created /\ thread[v].job.task \in Tasks
  BY DEF MessageHasRow, Holds, Created
<1>k. ASSUME UNCHANGED thread,
             \A t \in Created : Loaded(row'[t]) = Loaded(row[t])
      PROVE  HolderKnows'
  <2>1. ASSUME NEW v \in Threads, thread[v].pc # "idle"
        PROVE  LET t == thread[v].job.task IN
               Loaded(row'[t]) = Loaded(row[t]) /\ row'[t].status = row[t].status
    <3>1. PICK t : t = thread[v].job.task
      OBVIOUS
    <3>2. t \in Created
      BY <2>1, <3>1, <1>j DEF Holds
    <3>3. Loaded(row'[t]) = Loaded(row[t])
      BY <1>k, <3>2
    <3> QED
      BY <3>1, <3>3 DEF Loaded
  <2> QED
    BY <2>1, <1>k DEF HolderKnows
<1>1. CASE UNCHANGED vars
  BY <1>1, <1>k DEF vars, OneMove, SameResult
<1>2. ASSUME NEW r \in Requests, QuietStep(r) \/ Enqueue(r)
      PROVE  HolderKnows' /\ OneMove
  BY <1>2, <1>k DEF QuietStep, Enqueue, OneMove, SameResult
<1>3. ASSUME NEW r \in Requests, NewRow(r)
      PROVE  HolderKnows' /\ OneMove
  <2>1. PICK t \in Tasks \ Created, k \in Keys \cup {NoKey} :
          /\ row' = [row EXCEPT ![t] = [NoRow EXCEPT !.status = "queued", !.key = k]]
          /\ UNCHANGED thread
    BY <1>3 DEF NewRow
  <2>2. \A u \in Tasks \ {t} : row'[u] = row[u]
    BY <2>1
  <2>3. row[t].status = "absent" /\ row'[t].status = "queued"
    BY <2>1 DEF Created, NoRow, TypeOK
  <2>4. SameResult(t)
    <3>1. row[t].result = FALSE
      BY <2>1 DEF NoEarlyResult, TypeOK, Row
    <3>2. row'[t].result = FALSE
      BY <2>1 DEF NoRow, TypeOK
    <3>3. QED
      BY <3>1, <3>2 DEF SameResult
  <2>5. QED
    BY <2>1, <2>2, <2>3, <2>4, <1>k DEF OneMove, Promised, Moved, Created
<1>4. ASSUME NEW r \in Requests, Stamp(r)
      PROVE  HolderKnows' /\ OneMove
  <2>1. UNCHANGED thread /\ \A t \in Tasks : Loaded(row'[t]) = Loaded(row[t])
    BY <1>4, StampsQueued
  <2>2. QED
    BY <2>1, <1>k DEF OneMove, SameResult, Loaded, Created
<1>5. ASSUME NEW w \in Threads, WorkerStep(w)
      PROVE  HolderKnows' /\ OneMove
  <2>0. Holds(w)
    BY <1>5, WorkerRow
  <2>1. PICK t \in Tasks : t = thread[w].job.task
    BY <2>0, <1>j
  <2>2. HolderAfter(w)
    BY <1>5, WorkerKnows
  <2>3. \A u \in Tasks \ {t} : row'[u] = row[u]
    BY <2>1, <1>5, WorkerRow
  <2>4. \A v \in Threads \ {w} : thread'[v] = thread[v]
    BY <1>5, WorkerLeaves
  <2>5. \A v \in Threads \ {w} : Busy(v) => row'[thread[v].job.task] = row[thread[v].job.task]
    <3>1. CASE Busy(w)
      BY <2>1, <2>3, <3>1, <1>j DEF Apart, Busy, Holds
    <3>2. CASE UNCHANGED row
      BY <3>2
    <3>3. QED
      BY <3>1, <3>2, <1>5, WorkerBusy
  <2>6. thread'[w].pc = "idle" \/ thread'[w].job.task = t
    BY <2>1, <1>5, WorkerMoves
  <2>7. HolderKnows'
    BY <2>1, <2>2, <2>4, <2>5, <2>6 DEF HolderKnows, HolderAfter, Busy
  <2>8. OneMove
    BY <2>1, <2>2, <2>3 DEF OneMove, HolderAfter
  <2>9. QED
    BY <2>7, <2>8
<1>6. ASSUME \/ \E w \in Threads : Redeliver(w)
             \/ \E w \in Threads, d \in broker : Deliver(w, d)
             \/ \E d \in broker : Discard(d)
             \/ \E q \in Queues : WorkerCrash(q)
             \/ BeatStep
      PROVE  HolderKnows' /\ OneMove
  <2>0. UNCHANGED row
    BY <1>6, OtherMessages
  <2>1. \A v \in Threads : thread'[v] = thread[v] \/ thread'[v].pc \in {"idle", "load"}
    <3>1. DOMAIN thread = Threads /\ \A v \in Threads : thread[v] \in ThreadState
      BY DEF TypeOK
    <3>2. ASSUME NEW w \in Threads, NEW d \in broker, Deliver(w, d)
          PROVE  \A v \in Threads : thread'[v] = thread[v] \/ thread'[v].pc \in {"idle", "load"}
      BY <3>1, <3>2 DEF Deliver, ThreadState
    <3>3. ASSUME NEW q \in Queues, WorkerCrash(q)
          PROVE  \A v \in Threads : thread'[v] = thread[v] \/ thread'[v].pc \in {"idle", "load"}
      BY <3>1, <3>3 DEF WorkerCrash, IdleThread
    <3>4. CASE UNCHANGED thread
      BY <3>4
    <3>5. QED
      BY <3>2, <3>3, <3>4, <1>6
         DEF Redeliver, Discard, BeatStep, ReconcileRead, ReconcileWrite
  <2>2. QED
    BY <2>0, <2>1 DEF HolderKnows, OneMove, SameResult
<1>7. QED
  BY <1>1, <1>2, <1>3, <1>4, <1>5, <1>6, SubmitterSteps DEF Next

LEMMA NoEarlyResultStep ==
    ASSUME TypeOK, NoEarlyResult, OneMove
    PROVE  NoEarlyResult'
<1>1. ASSUME NEW t \in Tasks, row'[t].status = "absent"
      PROVE  row[t].status = "absent" /\ SameResult(t)
  BY <1>1 DEF OneMove, Promised, Moved, SameResult
<1>2. QED
  BY <1>1 DEF NoEarlyResult, Created, SameResult

(* Under the refinement mapping, a promised move is a step of TaskContract. *)
LEMMA MoveIsStep ==
    ASSUME TypeOK, TypeOK', OneMove
    PROVE  [Contract!Next]_(Contract!vars)
<1> DEFINE status == [t \in Tasks |-> row[t].status]
           result == [t \in Tasks |-> row[t].result]
<1>1. CASE \A t \in Tasks : row'[t].status = row[t].status /\ SameResult(t)
  BY <1>1 DEF Contract!vars, SameResult
<1>2. ASSUME NEW t \in Tasks, Promised(t), \A u \in Tasks \ {t} : row'[u] = row[u]
      PROVE  [Contract!Next]_(Contract!vars)
  <2>m. ASSUME NEW from, NEW to, Moved(t, from, to)
        PROVE  Contract!Move(t, from, to)
    BY <1>2, <2>m DEF Moved, Contract!Move
  <2>s. ASSUME SameResult(t)
        PROVE  result' = result
    BY <1>2, <2>s DEF SameResult
  <2>1. CASE row'[t].status = row[t].status /\ SameResult(t)
    <3>1. status' = status
      BY <1>2, <2>1
    <3>2. QED
      BY <2>1, <2>s, <3>1 DEF Contract!vars
  <2>2. CASE Moved(t, {"absent"}, "queued") /\ SameResult(t)
    BY <2>2, <2>m, <2>s DEF Contract!Next, Contract!Submit
  <2>3. CASE Moved(t, {"queued", "running", "failed"}, "waiting_capacity") /\ SameResult(t)
    BY <2>3, <2>m, <2>s DEF Contract!Next, Contract!Wait
  <2>4. CASE Moved(t, {"queued", "waiting_capacity", "failed"}, "running") /\ SameResult(t)
    BY <2>4, <2>m, <2>s DEF Contract!Next, Contract!Start
  <2>5. CASE Moved(t, {"running"}, "finished") /\ row'[t].result
    <3>1. row'[t].result = TRUE
      BY <2>5 DEF TypeOK, Row
    <3>2. result' = [result EXCEPT ![t] = TRUE]
      BY <1>2, <3>1
    <3>3. QED
      BY <2>5, <2>m, <3>2 DEF Contract!Next, Contract!Succeed
  <2>6. CASE Moved(t, {"running", "waiting_capacity"}, "failed") /\ SameResult(t)
    BY <2>6, <2>m, <2>s DEF Contract!Next, Contract!Fail
  <2>7. QED
    BY <2>1, <2>2, <2>3, <2>4, <2>5, <2>6, <1>2 DEF Promised
<1>3. QED
  BY <1>1, <1>2 DEF OneMove

(* The detailed life of a task implements the contract: a client that only  *)
(* submits never sees a finished task change, a task fail before it ran or  *)
(* waited, or a result without an end, over any number of worker deaths,    *)
(* broker refusals and API crashes.  Where a worker process has one thread  *)
(* this covers every fault; with several, the two faults that give a task a *)
(* second message to act on are left out, because one thread's snapshot of  *)
(* the row may then be stale when it commits.                               *)
THEOREM ImplementsContract ==
    ASSUME Ops \subseteq {"create"},
           OneThreadEach \/ Faults \cap SecondMessageFaults = {}
    PROVE  Spec => KeepsContract
<1> DEFINE IInv == OnlyCreates /\ HolderKnows /\ NoEarlyResult
<1>1. Init => IInv /\ Contract!Init
  BY DEF Init, OnlyCreates, HolderKnows, NoEarlyResult, NewRequest,
         IdleThread, NoRow, Contract!Init
<1>2. TypeOK /\ TypeOK' /\ MessageHasRow /\ Apart /\ IInv /\ [Next]_vars
        => IInv' /\ [Contract!Next]_(Contract!vars)
  <2> SUFFICES ASSUME TypeOK, TypeOK', MessageHasRow, Apart, IInv, [Next]_vars
               PROVE  IInv' /\ [Contract!Next]_(Contract!vars)
    OBVIOUS
  <2>1. OnlyCreates'
    BY CreatesOnly
  <2>2. HolderKnows' /\ OneMove
    BY HolderStep
  <2>3. QED
    BY <2>1, <2>2, NoEarlyResultStep, MoveIsStep
<1>3. Spec => []Apart
  BY ApartAlways
<1>4. QED
  BY <1>1, <1>2, <1>3, TypeCorrect, KeysAndRows, PTL DEF Spec, KeepsContract, Contract!Spec
=============================================================================
