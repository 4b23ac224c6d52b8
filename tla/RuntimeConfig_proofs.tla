------------------------ MODULE RuntimeConfig_proofs ------------------------
(* Type correctness of RuntimeConfig, and what the runtime lock protects:   *)
(* the environment of a process is its deployed one under the overrides.    *)
EXTENDS RuntimeConfig, TLAPS

LEMMA IdleThreadType == IdleThread \in ThreadState
<1>1. PICK k \in Keys : TRUE  BY ConfigAssumption
<1>2. (CHOOSE j \in Keys : TRUE) \in Keys  BY <1>1
<1>3. Nowhere \in Environment  BY DEF Nowhere, Environment, Slot
<1> QED  BY <1>2, <1>3 DEF IdleThread, ThreadState, ThreadPc, Slot

LEMMA EffectTypes ==
    ASSUME TypeOK, NEW h \in Threads
    PROVE  /\ ProcOf[h] \in Processes
           /\ thread[h] \in ThreadState
           /\ env[ProcOf[h]] \in Environment
           /\ Nowhere \in Environment /\ Absent \in Slot
BY ConfigAssumption DEF TypeOK, Nowhere, Environment, Slot

(* The thread a Goto, a Finish or a Served leaves behind is a thread. *)
LEMMA GotoType ==
    ASSUME TypeOK, NEW h \in Threads, NEW pc \in ThreadPc, Goto(h, pc)
    PROVE  thread' \in [Threads -> ThreadState]
<1>1. [thread[h] EXCEPT !.pc = pc, !.view = Nowhere, !.old = Absent, !.ok = TRUE] \in ThreadState
      BY EffectTypes DEF ThreadState
<1> QED  BY <1>1 DEF Goto, TypeOK

LEMMA FinishType ==
    ASSUME TypeOK, NEW h \in Threads, Finish(h)
    PROVE  thread' \in [Threads -> ThreadState]
BY EffectTypes, IdleThreadType DEF Finish, TypeOK

LEMMA ForceType ==
    ASSUME TypeOK, NEW h \in Threads,
           thread' = [thread EXCEPT ![h] = [IdleThread EXCEPT !.pc = "sync", !.then = "idle"]]
    PROVE  thread' \in [Threads -> ThreadState]
<1>1. [IdleThread EXCEPT !.pc = "sync", !.then = "idle"] \in ThreadState
      BY IdleThreadType DEF ThreadState, ThreadPc
<1> QED  BY <1>1 DEF TypeOK

LEMMA ServedType ==
    ASSUME TypeOK, NEW h \in Threads, Served(h)
    PROVE  thread' \in [Threads -> ThreadState]
<1>1. Goto(h, "validate") \/ Goto(h, "commit") \/ Finish(h)
      \/ thread' = [thread EXCEPT ![h] = [IdleThread EXCEPT !.pc = "sync", !.then = "idle"]]
      BY DEF Served
<1>2. {"validate", "commit"} \subseteq ThreadPc  BY DEF ThreadPc
<1> QED  BY <1>1, <1>2, GotoType, FinishType, ForceType

LEMMA StartType ==
    ASSUME TypeOK, NEW h \in Threads, NEW op \in {"get", "reload", "put", "delete"},
           NEW k \in Keys, NEW v \in Slot, Start(h, op, k, v)
    PROVE  thread' \in [Threads -> ThreadState]
<1>1. [IdleThread EXCEPT !.pc = IF fresh[ProcOf[h]] THEN "build" ELSE "sync",
                         !.op = op, !.key = k, !.value = v] \in ThreadState
      BY IdleThreadType DEF ThreadState, ThreadPc
<1> QED  BY <1>1 DEF Start, TypeOK

LEMMA InitType == Init => TypeOK
<1> SUFFICES ASSUME Init PROVE TypeOK  OBVIOUS
<1>1. Nowhere \in Environment  BY DEF Nowhere, Environment, Slot
<1> QED  BY <1>1, ConfigAssumption, IdleThreadType DEF Init, TypeOK

LEMMA StepType == TypeOK /\ [Next]_vars => TypeOK'
<1> SUFFICES ASSUME TypeOK, [Next]_vars PROVE TypeOK'  OBVIOUS
<1> USE ConfigAssumption
<1>1. ASSUME NEW h \in Threads, Get(h) \/ Reload(h) PROVE TypeOK'
  <2>1. IdleThread.key \in Keys /\ Absent \in Slot  BY IdleThreadType DEF ThreadState, Slot
  <2>2. thread' \in [Threads -> ThreadState]  BY <1>1, <2>1, StartType DEF Get, Reload
  <2>3. changes' \in Nat  BY <1>1 DEF Get, Reload, TypeOK
  <2> QED  BY <1>1, <2>2, <2>3 DEF Get, Reload, Start, TypeOK
<1>2. ASSUME NEW h \in Threads, Change(h) PROVE TypeOK'
  <2>1. PICK op \in {"put", "delete"}, k \in Keys, v \in Slot : Start(h, op, k, v)
    <3>1. PICK k \in Keys : \/ \E v \in Values \cup Bad : Start(h, "put", k, v)
                            \/ Start(h, "delete", k, Absent)
          BY <1>2 DEF Change
    <3>2. CASE \E v \in Values \cup Bad : Start(h, "put", k, v)
      <4>1. PICK v \in Slot : Start(h, "put", k, v)  BY <3>2 DEF Slot
      <4> QED  BY <4>1
    <3>3. CASE Start(h, "delete", k, Absent)
      <4>1. Absent \in Slot  BY DEF Slot
      <4> QED  BY <3>3, <4>1
    <3> QED  BY <3>1, <3>2, <3>3
  <2>2. thread' \in [Threads -> ThreadState]  BY <2>1, StartType
  <2>3. changes' = changes + 1  BY <1>2, Zenon DEF Change
  <2> QED  BY <2>1, <2>2, <2>3 DEF Start, TypeOK
<1>3. ASSUME NEW h \in Threads, SkipSync(h) PROVE TypeOK'
  <2>1. thread' \in [Threads -> ThreadState]  BY <1>3, GotoType DEF SkipSync, ThreadPc
  <2> QED  BY <1>3, <2>1 DEF SkipSync, TypeOK
<1>4. ASSUME NEW h \in Threads, LoadRows(h) PROVE TypeOK'
  <2>1. thread' \in [Threads -> ThreadState]
    <3>1. PICK new : new = [thread[h] EXCEPT !.pc = "apply", !.view = store]  OBVIOUS
    <3>2. thread[h] \in ThreadState /\ store \in Environment /\ "apply" \in ThreadPc
          BY EffectTypes DEF TypeOK, ThreadPc
    <3>3. new \in ThreadState  BY <3>1, <3>2 DEF ThreadState
    <3>4. thread' = [thread EXCEPT ![h] = new]  BY <1>4, <3>1 DEF LoadRows
    <3> QED  BY <3>3, <3>4 DEF TypeOK
  <2> QED  BY <1>4, <2>1, EffectTypes DEF LoadRows, TypeOK
<1>5. ASSUME NEW h \in Threads, LoadFails(h) PROVE TypeOK'
  <2>1. thread[h].then \in ThreadPc  BY EffectTypes DEF ThreadState, ThreadPc
  <2>2. thread' \in [Threads -> ThreadState]  BY <1>5, <2>1, GotoType DEF LoadFails
  <2> QED  BY <1>5, <2>2, EffectTypes DEF LoadFails, Fails, TypeOK
<1>6. ASSUME NEW h \in Threads, ApplyRows(h) PROVE TypeOK'
  <2> DEFINE p == ProcOf[h]  rows == thread[h].view
  <2>1. p \in Processes /\ rows \in Environment  BY EffectTypes DEF ThreadState
  <2>2. \A k \in Keys : /\ rows[k] \in Slot /\ env[p][k] \in Slot
                        /\ applied[p][k] \in Slot /\ baseline[p][k] \in Slot \cup {Unset}
                        /\ Restored(p, k) \in Slot /\ Captured(p, k) \in Slot
        BY <2>1, EffectTypes DEF TypeOK, Environment, Restored, Captured
  <2>3. env' \in [Processes -> Environment]
        BY <1>6, <2>1, <2>2 DEF ApplyRows, TypeOK, Environment
  <2>4. applied' \in [Processes -> Environment]
        BY <1>6, <2>1, <2>2, EffectTypes DEF ApplyRows, TypeOK, Environment
  <2>5. baseline' \in [Processes -> [Keys -> Slot \cup {Unset}]]
        BY <1>6, <2>1, <2>2 DEF ApplyRows, TypeOK
  <2>6. {"clear", thread[h].then} \subseteq ThreadPc  BY EffectTypes DEF ThreadState, ThreadPc
  <2>7. thread' \in [Threads -> ThreadState]  BY <1>6, <2>6, GotoType DEF ApplyRows
  <2> QED  BY <1>6, <2>1, <2>3, <2>4, <2>5, <2>7 DEF ApplyRows, TypeOK
<1>7. ASSUME NEW h \in Threads, ClearCache(h) PROVE TypeOK'
  <2>1. thread[h].then \in ThreadPc  BY EffectTypes DEF ThreadState, ThreadPc
  <2>2. thread' \in [Threads -> ThreadState]  BY <1>7, <2>1, GotoType DEF ClearCache
  <2> QED  BY <1>7, <2>2, EffectTypes DEF ClearCache, TypeOK
<1>8. ASSUME NEW h \in Threads, BuildHit(h) PROVE TypeOK'
  BY <1>8, ServedType DEF BuildHit, TypeOK
<1>9. ASSUME NEW h \in Threads, BuildRead(h) PROVE TypeOK'
  <2>1. thread' \in [Threads -> ThreadState]
    <3>1. [thread[h] EXCEPT !.pc = "store", !.view = env[ProcOf[h]]] \in ThreadState
          BY EffectTypes DEF ThreadState, ThreadPc
    <3> QED  BY <1>9, <3>1 DEF BuildRead, TypeOK
  <2> QED  BY <1>9, <2>1 DEF BuildRead, TypeOK
<1>10. ASSUME NEW h \in Threads, BuildRaises(h) PROVE TypeOK'
  BY <1>10, FinishType DEF BuildRaises, TypeOK
<1>11. ASSUME NEW h \in Threads, BuildStore(h) PROVE TypeOK'
  <2>1. thread' \in [Threads -> ThreadState]  BY <1>11, ServedType DEF BuildStore
  <2>2. cache' \in [Processes -> Environment \cup {NoSettings}]
        BY <1>11, EffectTypes DEF BuildStore, TypeOK, ThreadState
  <2> QED  BY <1>11, <2>1, <2>2 DEF BuildStore, TypeOK
<1>12. ASSUME NEW h \in Threads, ValidateSet(h) PROVE TypeOK'
  <2>1. /\ env[ProcOf[h]][thread[h].key] \in Slot
        /\ thread[h].key \in Keys /\ thread[h].value \in Slot
        BY EffectTypes DEF ThreadState, Environment
  <2>2. thread' \in [Threads -> ThreadState]
    <3>1. [thread[h] EXCEPT !.pc = "try", !.old = env[ProcOf[h]][thread[h].key]] \in ThreadState
          BY <2>1, EffectTypes DEF ThreadState, ThreadPc
    <3> QED  BY <1>12, <3>1 DEF ValidateSet, TypeOK
  <2>3. env' \in [Processes -> Environment]
        BY <1>12, <2>1, EffectTypes DEF ValidateSet, TypeOK, Environment
  <2> QED  BY <1>12, <2>2, <2>3, EffectTypes DEF ValidateSet, TypeOK
<1>13. ASSUME NEW h \in Threads, ValidateTry(h) PROVE TypeOK'
  <2> DEFINE ok == cache[ProcOf[h]] # NoSettings \/ Valid(env[ProcOf[h]])
  <2>0. ok \in BOOLEAN  BY DEF Valid
  <2>1. thread' \in [Threads -> ThreadState]
    <3>1. [thread[h] EXCEPT !.pc = "restore", !.ok = ok] \in ThreadState
      <4> HIDE DEF ok
      <4> QED  BY <2>0, EffectTypes DEF ThreadState, ThreadPc
    <3> QED  BY <1>13, <3>1 DEF ValidateTry, TypeOK
  <2>2. cache' \in [Processes -> Environment \cup {NoSettings}]
        BY <1>13, EffectTypes DEF ValidateTry, TypeOK
  <2> QED  BY <1>13, <2>1, <2>2 DEF ValidateTry, TypeOK
<1>14. ASSUME NEW h \in Threads, ValidateRestore(h) PROVE TypeOK'
  <2>1. thread[h].old \in Slot /\ thread[h].key \in Keys  BY EffectTypes DEF ThreadState
  <2>2. env' \in [Processes -> Environment]
        BY <1>14, <2>1, EffectTypes DEF ValidateRestore, TypeOK, Environment
  <2>3. thread' \in [Threads -> ThreadState]
        BY <1>14, GotoType, FinishType DEF ValidateRestore, ThreadPc
  <2> QED  BY <1>14, <2>2, <2>3, EffectTypes DEF ValidateRestore, TypeOK
<1>15. ASSUME NEW h \in Threads, CommitChange(h) PROVE TypeOK'
  <2>1. thread[h].value \in Slot /\ thread[h].key \in Keys  BY EffectTypes DEF ThreadState
  <2>2. store' \in Environment  BY <1>15, <2>1 DEF CommitChange, TypeOK, Environment
  <2>3. thread' \in [Threads -> ThreadState]  BY <1>15, ForceType DEF CommitChange
  <2> QED  BY <1>15, <2>2, <2>3 DEF CommitChange, TypeOK
<1>16. ASSUME NEW h \in Threads, CommitFails(h) PROVE TypeOK'
  BY <1>16, FinishType DEF CommitFails, Fails, TypeOK
<1>17. ASSUME NEW p \in Processes, Expire(p) PROVE TypeOK'
  BY <1>17 DEF Expire, TypeOK
<1>18. ASSUME NEW p \in Processes, Restart(p) PROVE TypeOK'
  <2>1. Nowhere \in Environment  BY DEF Nowhere, Environment, Slot
  <2>2. thread' \in [Threads -> ThreadState]  BY <1>18, IdleThreadType DEF Restart, TypeOK
  <2> QED  BY <1>18, <2>1, <2>2 DEF Restart, Fails, TypeOK
<1>19. CASE UNCHANGED vars  BY <1>19 DEF vars, TypeOK
<1> QED
  BY <1>1, <1>2, <1>3, <1>4, <1>5, <1>6, <1>7, <1>8, <1>9, <1>10, <1>11, <1>12, <1>13, <1>14,
     <1>15, <1>16, <1>17, <1>18, <1>19 DEF Next, Step

(* Every variable of every process keeps to its type, whatever the admin
   API, the database and restarts do (config_runtime.py, settings.py). *)
THEOREM ConfigTypeCorrect == Spec => []TypeOK
<1> QED  BY InitType, StepType, PTL DEF Spec
-----------------------------------------------------------------------------
(* A thread between the candidate value and its removal holds the lock, and  *)
(* the environment differs from the layered one in that key only; a thread   *)
(* about to apply rows holds the lock over the layered environment.          *)
Locked(h) == thread[h].pc \in {"apply", "try", "restore"}

Trying(h) == thread[h].pc \in {"try", "restore"}

LockInv == \A h \in Threads : Locked(h) <=> lock[ProcOf[h]] = h

BaselineInv ==
    \A p \in Processes, k \in Keys :
        /\ baseline[p][k] = IF applied[p][k] = Absent THEN Unset ELSE Deployed[k]
        /\ k \in Deny => applied[p][k] = Absent

EnvInv ==
    \A p \in Processes : (\A h \in Threads : ProcOf[h] = p => ~Trying(h)) => env[p] = Layered(p)

TryInv ==
    \A h \in Threads :
        /\ thread[h].pc = "validate" => thread[h].key \notin Deny
        /\ Trying(h) =>
              /\ thread[h].key \notin Deny
              /\ thread[h].old = Layered(ProcOf[h])[thread[h].key]
              /\ env[ProcOf[h]] = [Layered(ProcOf[h]) EXCEPT ![thread[h].key] = thread[h].value]

Inv == TypeOK /\ LockInv /\ BaselineInv /\ EnvInv /\ TryInv

LEMMA InitInv == Init => Inv
<1> SUFFICES ASSUME Init PROVE Inv  OBVIOUS
<1>1. TypeOK  BY InitType
<1>2. \A h \in Threads : thread[h].pc = "idle"  BY DEF Init, IdleThread
<1>3. LockInv  BY <1>2, ConfigAssumption, NoneConfigAssumption DEF Init, LockInv, Locked
<1>4. BaselineInv  BY DEF Init, BaselineInv, Nowhere
<1>5. \A p \in Processes : env[p] = Layered(p)
      BY ConfigAssumption DEF Init, Layered, Nowhere, Environment
<1>6. EnvInv  BY <1>5 DEF EnvInv
<1>7. TryInv  BY <1>2 DEF TryInv, Trying
<1> QED  BY <1>1, <1>3, <1>4, <1>6, <1>7 DEF Inv

(* A step of a thread that neither takes nor holds the lock, and that leaves *)
(* the environments and the books of the sync alone.                         *)
Quiet(h) ==
    /\ ~Locked(h) /\ ~Locked(h)'
    /\ \A g \in Threads \ {h} : thread'[g] = thread[g]
    /\ (thread[h].pc = "validate")' => (thread[h].key)' \notin Deny
    /\ UNCHANGED <<env, applied, baseline, lock>>

LEMMA QuietKeeps ==
    ASSUME Inv, TypeOK', NEW h \in Threads, Quiet(h)
    PROVE  Inv'
<1> USE DEF Quiet, Inv
<1>1. \A g \in Threads : Locked(g)' = Locked(g) /\ Trying(g)' = Trying(g)
      BY DEF Locked, Trying
<1>2. \A p \in Processes : Layered(p)' = Layered(p)  BY DEF Layered
<1>3. LockInv'  BY <1>1 DEF LockInv
<1>4. BaselineInv'  BY DEF BaselineInv
<1>5. EnvInv'  BY <1>1, <1>2 DEF EnvInv
<1>6. ASSUME NEW g \in Threads
      PROVE  /\ (thread[g].pc = "validate")' => (thread[g].key)' \notin Deny
             /\ Trying(g)' =>
                  /\ (thread[g].key)' \notin Deny
                  /\ (thread[g].old)' = (Layered(ProcOf[g])[thread[g].key])'
                  /\ (env[ProcOf[g]])' =
                        ([Layered(ProcOf[g]) EXCEPT ![thread[g].key] = thread[g].value])'
  <2>1. CASE g = h  BY <2>1, <1>1 DEF Locked, Trying
  <2>2. CASE g # h
    <3>1. thread'[g] = thread[g] /\ ProcOf[g] \in Processes  BY <2>2, ConfigAssumption
    <3> QED  BY <3>1, <1>1, <1>2 DEF TryInv
  <2> QED  BY <2>1, <2>2
<1>7. TryInv'  BY <1>6 DEF TryInv
<1> QED  BY <1>3, <1>4, <1>5, <1>7

(* Where the usual ends of a step leave a thread. *)
LEMMA GotoQuiet ==
    ASSUME TypeOK, NEW h \in Threads, ~Locked(h), NEW pc, Goto(h, pc),
           pc \notin {"apply", "try", "restore"},
           pc = "validate" => thread[h].key \notin Deny,
           UNCHANGED <<env, applied, baseline, lock>>
    PROVE  Quiet(h)
<1>1. thread'[h].pc = pc /\ thread'[h].key = thread[h].key
      BY EffectTypes DEF Goto, TypeOK, ThreadState
<1>2. \A g \in Threads \ {h} : thread'[g] = thread[g]  BY DEF Goto, TypeOK
<1> QED  BY <1>1, <1>2 DEF Quiet, Locked

LEMMA ReplacedQuiet ==
    ASSUME TypeOK, NEW h \in Threads, ~Locked(h), NEW x, thread' = [thread EXCEPT ![h] = x],
           x.pc \notin {"apply", "try", "restore", "validate"},
           UNCHANGED <<env, applied, baseline, lock>>
    PROVE  Quiet(h)
BY DEF Quiet, Locked, TypeOK

LEMMA FinishQuiet ==
    ASSUME TypeOK, NEW h \in Threads, ~Locked(h), Finish(h),
           UNCHANGED <<env, applied, baseline, lock>>
    PROVE  Quiet(h)
<1>1. IdleThread.pc = "idle"  BY DEF IdleThread
<1> QED  BY <1>1, ReplacedQuiet DEF Finish

LEMMA ForceQuiet ==
    ASSUME TypeOK, NEW h \in Threads, ~Locked(h),
           thread' = [thread EXCEPT ![h] = [IdleThread EXCEPT !.pc = "sync", !.then = "idle"]],
           UNCHANGED <<env, applied, baseline, lock>>
    PROVE  Quiet(h)
<1>1. [IdleThread EXCEPT !.pc = "sync", !.then = "idle"].pc = "sync"
      BY IdleThreadType DEF ThreadState
<1> QED  BY <1>1, ReplacedQuiet

LEMMA ServedQuiet ==
    ASSUME TypeOK, NEW h \in Threads, ~Locked(h), Served(h),
           UNCHANGED <<env, applied, baseline, lock>>
    PROVE  Quiet(h)
<1>1. \/ Goto(h, "validate") /\ thread[h].key \notin Deny
      \/ Goto(h, "commit")
      \/ Finish(h)
      \/ thread' = [thread EXCEPT ![h] = [IdleThread EXCEPT !.pc = "sync", !.then = "idle"]]
      BY DEF Served, Overridable
<1> QED  BY <1>1, GotoQuiet, FinishQuiet, ForceQuiet

LEMMA StartQuiet ==
    ASSUME TypeOK, NEW h \in Threads, NEW op, NEW k, NEW v, Start(h, op, k, v)
    PROVE  Quiet(h)
<1> DEFINE x == [IdleThread EXCEPT !.pc = IF fresh[ProcOf[h]] THEN "build" ELSE "sync",
                                   !.op = op, !.key = k, !.value = v]
<1>1. x.pc \in {"build", "sync"}  BY IdleThreadType DEF ThreadState
<1>2. ~Locked(h)  BY DEF Start, At, Locked
<1>3. thread' = [thread EXCEPT ![h] = x]  BY DEF Start
<1>4. UNCHANGED <<env, applied, baseline, lock>>  BY DEF Start
<1> HIDE DEF x
<1> QED  BY <1>1, <1>2, <1>3, <1>4, ReplacedQuiet
-----------------------------------------------------------------------------
(* The steps under the lock. *)

LEMMA LockExcludes ==
    ASSUME Inv, NEW g \in Threads, NEW h \in Threads, Locked(g), Locked(h),
           ProcOf[g] = ProcOf[h]
    PROVE  g = h
BY DEF Inv, LockInv

LEMMA LoadRowsKeeps ==
    ASSUME Inv, TypeOK', NEW h \in Threads, LoadRows(h)
    PROVE  Inv'
<1> USE DEF Inv
<1>1. /\ thread'[h].pc = "apply" /\ thread[h].pc = "sync"
      /\ \A g \in Threads \ {h} : thread'[g] = thread[g]
      BY EffectTypes DEF LoadRows, MaySync, At, TypeOK, ThreadState
<1>2. \A g \in Threads : Trying(g)' = Trying(g)  BY <1>1 DEF Trying
<1>3. \A p \in Processes : Layered(p)' = Layered(p)  BY DEF LoadRows, Layered
<1>4. LockInv'
  <2>1. lock[ProcOf[h]] = NoThread /\ lock' = [lock EXCEPT ![ProcOf[h]] = h]
        BY DEF LoadRows, MaySync
  <2> QED  BY <1>1, <2>1, ConfigAssumption, NoneConfigAssumption DEF LockInv, Locked, TypeOK
<1>5. BaselineInv'  BY DEF LoadRows, BaselineInv
<1>6. EnvInv'  BY <1>2, <1>3 DEF LoadRows, EnvInv
<1>7. TryInv'
  <2> SUFFICES ASSUME NEW g \in Threads PROVE TryInv!(g)'  BY DEF TryInv
  <2>1. CASE g = h  BY <2>1, <1>1 DEF Trying
  <2>2. CASE g # h
    <3>1. thread'[g] = thread[g] /\ ProcOf[g] \in Processes  BY <2>2, <1>1, ConfigAssumption
    <3> QED  BY <3>1, <1>2, <1>3 DEF TryInv, LoadRows
  <2> QED  BY <2>1, <2>2
<1> QED  BY <1>4, <1>5, <1>6, <1>7

(* The rows are applied: the layered environment moves with the books. *)
LEMMA ApplyRowsKeeps ==
    ASSUME Inv, TypeOK', NEW h \in Threads, ApplyRows(h)
    PROVE  Inv'
<1> USE DEF Inv
<1> DEFINE p == ProcOf[h]
           rows == thread[h].view
           moved == Moved(p, rows)
           gone == Gone(p, rows)
<1>0. p \in Processes /\ rows \in Environment  BY EffectTypes DEF ThreadState
<1>1. /\ thread[h].pc = "apply"
      /\ thread'[h].pc \in {"clear", "build", "idle"}
      /\ \A g \in Threads \ {h} : thread'[g] = thread[g]
  <2>1. thread[h].pc = "apply"  BY DEF ApplyRows, At
  <2>2. thread[h].then \in {"build", "idle"}  BY EffectTypes DEF ThreadState
  <2>3. PICK pc \in {"clear", "build", "idle"} : Goto(h, pc)
        BY <2>2, Zenon DEF ApplyRows
  <2>4. thread'[h].pc = pc  BY <2>3, EffectTypes DEF Goto, TypeOK, ThreadState
  <2>5. \A g \in Threads \ {h} : thread'[g] = thread[g]  BY <2>3 DEF Goto, TypeOK
  <2> QED  BY <2>1, <2>4, <2>5
<1>2. \A g \in Threads : ProcOf[g] = p => ~Trying(g) /\ (g # h => ~Locked(g))
      BY <1>1, LockExcludes DEF Trying, Locked
<1>3. env[p] = Layered(p)  BY <1>0, <1>2 DEF EnvInv
<1>4. \A k \in moved : k \in Keys \ Deny /\ rows[k] \in Slot \ {Absent}
      BY <1>0 DEF Moved, Overridden, Environment
<1>5. \A k \in gone : k \in Keys /\ k \notin moved /\ applied[p][k] # Absent
      BY <1>4 DEF Gone
<1>6. /\ env' = [env EXCEPT ![p] = [k \in Keys |->
                    IF k \in moved THEN rows[k]
                    ELSE IF k \in gone THEN Restored(p, k) ELSE @[k]]]
      /\ applied' = [applied EXCEPT ![p] = [k \in Keys |->
                        IF k \in moved THEN rows[k]
                        ELSE IF k \in gone THEN Absent ELSE @[k]]]
      /\ baseline' = [baseline EXCEPT ![p] = [k \in Keys |->
                         IF k \in moved THEN Captured(p, k)
                         ELSE IF k \in gone THEN Unset ELSE @[k]]]
      /\ lock' = [lock EXCEPT ![p] = NoThread]
      BY DEF ApplyRows
<1> HIDE DEF moved, gone, rows
<1>7. \A k \in Keys : Deployed[k] \in Slot /\ Deployed[k] # Unset
      BY ConfigAssumption, NoneConfigAssumption DEF Environment
<1>8. \A k \in moved : Captured(p, k) = Deployed[k]
      BY <1>0, <1>3, <1>4, <1>7 DEF Captured, BaselineInv, Layered
<1>9. \A k \in gone : Restored(p, k) = Deployed[k]
      BY <1>0, <1>5, <1>7 DEF Restored, BaselineInv
<1>10. \A q \in Processes \ {p} : /\ env'[q] = env[q] /\ applied'[q] = applied[q]
                                 /\ baseline'[q] = baseline[q] /\ lock'[q] = lock[q]
       BY <1>6 DEF TypeOK
<1>11. \A q \in Processes \ {p} : Layered(q)' = Layered(q)  BY <1>10 DEF Layered
<1>12. BaselineInv'
  <2> SUFFICES ASSUME NEW q \in Processes, NEW k \in Keys
               PROVE  /\ baseline'[q][k] = IF applied'[q][k] = Absent THEN Unset ELSE Deployed[k]
                      /\ k \in Deny => applied'[q][k] = Absent
      BY DEF BaselineInv
  <2>1. CASE q # p  BY <2>1, <1>10 DEF BaselineInv
  <2>2. CASE q = p
    <3>1. applied'[p][k] = IF k \in moved THEN rows[k]
                           ELSE IF k \in gone THEN Absent ELSE applied[p][k]
          BY <1>0, <1>6 DEF TypeOK
    <3>2. baseline'[p][k] = IF k \in moved THEN Captured(p, k)
                            ELSE IF k \in gone THEN Unset ELSE baseline[p][k]
          BY <1>0, <1>6 DEF TypeOK
    <3> QED  BY <1>0, <2>2, <3>1, <3>2, <1>4, <1>8 DEF BaselineInv
  <2> QED  BY <2>1, <2>2
<1>13. env'[p] = Layered(p)'
  <2>1. env'[p] = [k \in Keys |-> IF k \in moved THEN rows[k]
                                  ELSE IF k \in gone THEN Restored(p, k) ELSE env[p][k]]
        BY <1>0, <1>6 DEF TypeOK
  <2>2. applied'[p] = [k \in Keys |-> IF k \in moved THEN rows[k]
                                      ELSE IF k \in gone THEN Absent ELSE applied[p][k]]
        BY <1>0, <1>6 DEF TypeOK
  <2>3. Layered(p)' = [k \in Keys |-> IF applied'[p][k] = Absent THEN Deployed[k]
                                      ELSE applied'[p][k]]
        BY DEF Layered
  <2>4. \A k \in Keys : env[p][k] = IF applied[p][k] = Absent THEN Deployed[k]
                                    ELSE applied[p][k]
        BY <1>3 DEF Layered
  <2>5. \A k \in Keys : (IF k \in moved THEN rows[k]
                         ELSE IF k \in gone THEN Restored(p, k) ELSE env[p][k])
                      = IF applied'[p][k] = Absent THEN Deployed[k] ELSE applied'[p][k]
        BY <2>2, <2>4, <1>4, <1>9
  <2> QED  BY <2>1, <2>3, <2>5
<1>14. LockInv'
  <2>1. \A g \in Threads : ProcOf[g] \in Processes  BY ConfigAssumption
  <2>2. lock'[p] = NoThread  BY <1>0, <1>6 DEF TypeOK
  <2>3. \A g \in Threads \ {h} : Locked(g)' = Locked(g)  BY <1>1 DEF Locked
  <2>4. ~Locked(h)'  BY <1>1 DEF Locked
  <2> QED  BY <2>1, <2>2, <2>3, <2>4, <1>2, <1>10, NoneConfigAssumption DEF LockInv
<1>15. \A g \in Threads : Trying(g)' = Trying(g)  BY <1>1 DEF Trying
<1>16. EnvInv'  BY <1>10, <1>11, <1>13, <1>15 DEF EnvInv
<1>17. TryInv'
  <2> SUFFICES ASSUME NEW g \in Threads PROVE TryInv!(g)'  BY DEF TryInv
  <2>1. CASE g = h  BY <2>1, <1>1 DEF Trying
  <2>2. CASE g # h
    <3>1. thread'[g] = thread[g] /\ ProcOf[g] \in Processes  BY <2>2, <1>1, ConfigAssumption
    <3>2. CASE ProcOf[g] = p  BY <3>1, <3>2, <1>2, <1>15 DEF TryInv
    <3>3. CASE ProcOf[g] # p
      <4>1. /\ env'[ProcOf[g]] = env[ProcOf[g]] /\ Layered(ProcOf[g])' = Layered(ProcOf[g])
            BY <3>1, <3>3, <1>10, <1>11
      <4> QED  BY <3>1, <4>1, <1>15 DEF TryInv
    <3> QED  BY <3>2, <3>3
  <2> QED  BY <2>1, <2>2
<1> QED  BY <1>12, <1>14, <1>16, <1>17

(* The candidate goes in: only its key leaves the layered environment. *)
LEMMA ValidateSetKeeps ==
    ASSUME Inv, TypeOK', NEW h \in Threads, ValidateSet(h)
    PROVE  Inv'
<1> USE DEF Inv
<1> DEFINE p == ProcOf[h]
           k == thread[h].key
<1>0. p \in Processes /\ k \in Keys  BY EffectTypes DEF ThreadState
<1>1. /\ thread[h].pc = "validate" /\ lock[p] = NoThread
      /\ lock' = [lock EXCEPT ![p] = h]
      /\ env' = [env EXCEPT ![p][k] = thread[h].value]
      /\ UNCHANGED <<applied, baseline>>
      BY DEF ValidateSet, At
<1>2. /\ thread'[h].pc = "try" /\ thread'[h].key = k /\ thread'[h].value = thread[h].value
      /\ thread'[h].old = env[p][k]
      /\ \A g \in Threads \ {h} : thread'[g] = thread[g]
      BY EffectTypes DEF ValidateSet, TypeOK, ThreadState
<1>3. \A q \in Processes : Layered(q)' = Layered(q)  BY <1>1 DEF Layered
<1>4. \A g \in Threads : ProcOf[g] = p => ~Locked(g)
      BY <1>1, NoneConfigAssumption DEF LockInv
<1>5. env[p] = Layered(p)  BY <1>0, <1>4 DEF EnvInv, Locked, Trying
<1>6. env'[p] = [Layered(p) EXCEPT ![k] = thread[h].value]
      BY <1>0, <1>1, <1>5 DEF TypeOK
<1>7. \A q \in Processes \ {p} : env'[q] = env[q] /\ lock'[q] = lock[q]
      BY <1>1 DEF TypeOK
<1>8. \A g \in Threads \ {h} : Locked(g)' = Locked(g) /\ Trying(g)' = Trying(g)
      BY <1>2 DEF Locked, Trying
<1>9. Locked(h)' /\ Trying(h)'  BY <1>2 DEF Locked, Trying
<1>10. LockInv'
  <2>1. lock'[p] = h  BY <1>0, <1>1 DEF TypeOK
  <2>2. \A g \in Threads : ProcOf[g] \in Processes  BY ConfigAssumption
  <2> QED  BY <2>1, <2>2, <1>4, <1>7, <1>8, <1>9 DEF LockInv
<1>11. BaselineInv'  BY <1>1 DEF BaselineInv
<1>12. EnvInv'  BY <1>3, <1>7, <1>8, <1>9 DEF EnvInv
<1>13. TryInv'
  <2> SUFFICES ASSUME NEW g \in Threads PROVE TryInv!(g)'  BY DEF TryInv
  <2>1. CASE g = h
    <3>1. k \notin Deny  BY <1>1 DEF TryInv
    <3> QED  BY <2>1, <3>1, <1>0, <1>2, <1>3, <1>5, <1>6
  <2>2. CASE g # h
    <3>1. thread'[g] = thread[g] /\ ProcOf[g] \in Processes  BY <2>2, <1>2, ConfigAssumption
    <3>2. CASE ProcOf[g] = p
      <4>1. ~Trying(g)'  BY <2>2, <3>2, <1>4, <1>8 DEF Locked, Trying
      <4> QED  BY <3>1, <4>1 DEF TryInv
    <3>3. CASE ProcOf[g] # p
      <4>1. /\ env'[ProcOf[g]] = env[ProcOf[g]] /\ Layered(ProcOf[g])' = Layered(ProcOf[g])
            BY <3>1, <3>3, <1>3, <1>7
      <4> QED  BY <2>2, <3>1, <4>1, <1>8 DEF TryInv
    <3> QED  BY <3>2, <3>3
  <2> QED  BY <2>1, <2>2
<1> QED  BY <1>10, <1>11, <1>12, <1>13

LEMMA ValidateTryKeeps ==
    ASSUME Inv, TypeOK', NEW h \in Threads, ValidateTry(h)
    PROVE  Inv'
<1> USE DEF Inv
<1>1. /\ thread[h].pc = "try" /\ thread'[h].pc = "restore"
      /\ thread'[h].key = thread[h].key /\ thread'[h].value = thread[h].value
      /\ thread'[h].old = thread[h].old
      /\ \A g \in Threads \ {h} : thread'[g] = thread[g]
      BY EffectTypes DEF ValidateTry, At, TypeOK, ThreadState
<1>2. UNCHANGED <<env, applied, baseline, lock>>  BY DEF ValidateTry
<1>3. \A q \in Processes : Layered(q)' = Layered(q)  BY <1>2 DEF Layered
<1>4. \A g \in Threads : Locked(g)' = Locked(g) /\ Trying(g)' = Trying(g)
      BY <1>1 DEF Locked, Trying
<1>5. LockInv'  BY <1>2, <1>4 DEF LockInv
<1>6. BaselineInv'  BY <1>2 DEF BaselineInv
<1>7. EnvInv'  BY <1>2, <1>3, <1>4 DEF EnvInv
<1>8. TryInv'
  <2> SUFFICES ASSUME NEW g \in Threads PROVE TryInv!(g)'  BY DEF TryInv
  <2>1. ProcOf[g] \in Processes  BY ConfigAssumption
  <2>2. CASE g = h  BY <2>1, <2>2, <1>1, <1>2, <1>3, <1>4 DEF TryInv
  <2>3. CASE g # h
    <3>1. thread'[g] = thread[g]  BY <2>3, <1>1
    <3> QED  BY <2>1, <3>1, <1>2, <1>3, <1>4 DEF TryInv
  <2> QED  BY <2>2, <2>3
<1> QED  BY <1>5, <1>6, <1>7, <1>8

(* The candidate goes out again, rejected or not. *)
LEMMA ValidateRestoreKeeps ==
    ASSUME Inv, TypeOK', NEW h \in Threads, ValidateRestore(h)
    PROVE  Inv'
<1> USE DEF Inv
<1> DEFINE p == ProcOf[h]
           k == thread[h].key
<1>0. p \in Processes /\ k \in Keys  BY EffectTypes DEF ThreadState
<1>1. /\ thread[h].pc = "restore"
      /\ lock' = [lock EXCEPT ![p] = NoThread]
      /\ env' = [env EXCEPT ![p][k] = thread[h].old]
      /\ UNCHANGED <<applied, baseline>>
      /\ Goto(h, "commit") \/ Finish(h)
      BY DEF ValidateRestore, At
<1>2. /\ thread'[h].pc \in {"commit", "idle"}
      /\ \A g \in Threads \ {h} : thread'[g] = thread[g]
  <2>1. CASE Goto(h, "commit")  BY <2>1, EffectTypes DEF Goto, TypeOK, ThreadState
  <2>2. CASE Finish(h)  BY <2>2, EffectTypes DEF Finish, IdleThread, TypeOK
  <2> QED  BY <1>1, <2>1, <2>2
<1>3. \A q \in Processes : Layered(q)' = Layered(q)  BY <1>1 DEF Layered
<1>4. Locked(h) /\ Trying(h) /\ ~Locked(h)' /\ ~Trying(h)'  BY <1>1, <1>2 DEF Locked, Trying
<1>5. \A g \in Threads \ {h} : Locked(g)' = Locked(g) /\ Trying(g)' = Trying(g)
      BY <1>2 DEF Locked, Trying
<1>6. \A g \in Threads \ {h} : ProcOf[g] = p => ~Locked(g)  BY <1>4, LockExcludes
<1>7. env'[p] = Layered(p)
  <2>1. env[p] = [Layered(p) EXCEPT ![k] = thread[h].value] /\ thread[h].old = Layered(p)[k]
        BY <1>4 DEF TryInv
  <2>2. env'[p] = [env[p] EXCEPT ![k] = thread[h].old]  BY <1>0, <1>1 DEF TypeOK
  <2> QED  BY <2>1, <2>2, <1>0 DEF Layered
<1>8. \A q \in Processes \ {p} : env'[q] = env[q] /\ lock'[q] = lock[q]
      BY <1>1 DEF TypeOK
<1>9. LockInv'
  <2>1. lock'[p] = NoThread  BY <1>0, <1>1 DEF TypeOK
  <2>2. \A g \in Threads : ProcOf[g] \in Processes  BY ConfigAssumption
  <2> QED  BY <2>1, <2>2, <1>4, <1>5, <1>6, <1>8, NoneConfigAssumption DEF LockInv
<1>10. BaselineInv'  BY <1>1 DEF BaselineInv
<1>11. EnvInv'
  <2> SUFFICES ASSUME NEW q \in Processes, \A g \in Threads : ProcOf[g] = q => ~Trying(g)'
               PROVE  env'[q] = Layered(q)'
      BY DEF EnvInv
  <2>1. CASE q = p  BY <2>1, <1>3, <1>7
  <2>2. CASE q # p  BY <2>2, <1>3, <1>5, <1>8 DEF EnvInv
  <2> QED  BY <2>1, <2>2
<1>12. TryInv'
  <2> SUFFICES ASSUME NEW g \in Threads PROVE TryInv!(g)'  BY DEF TryInv
  <2>1. CASE g = h  BY <2>1, <1>2, <1>4
  <2>2. CASE g # h
    <3>1. thread'[g] = thread[g] /\ ProcOf[g] \in Processes  BY <2>2, <1>2, ConfigAssumption
    <3>2. CASE ProcOf[g] = p
      <4>1. ~Trying(g)'  BY <2>2, <3>2, <1>5, <1>6 DEF Locked, Trying
      <4> QED  BY <3>1, <4>1 DEF TryInv
    <3>3. CASE ProcOf[g] # p
      <4>1. /\ env'[ProcOf[g]] = env[ProcOf[g]] /\ Layered(ProcOf[g])' = Layered(ProcOf[g])
            BY <3>1, <3>3, <1>3, <1>8
      <4> QED  BY <2>2, <3>1, <4>1, <1>5 DEF TryInv
    <3> QED  BY <3>2, <3>3
  <2> QED  BY <2>1, <2>2
<1> QED  BY <1>9, <1>10, <1>11, <1>12

(* A process starts again from its deployed environment. *)
LEMMA RestartKeeps ==
    ASSUME Inv, TypeOK', NEW p \in Processes, Restart(p)
    PROVE  Inv'
<1> USE DEF Inv
<1>1. /\ env' = [env EXCEPT ![p] = Deployed]
      /\ applied' = [applied EXCEPT ![p] = Nowhere]
      /\ baseline' = [baseline EXCEPT ![p] = [k \in Keys |-> Unset]]
      /\ lock' = [lock EXCEPT ![p] = NoThread]
      /\ thread' = [h \in Threads |-> IF ProcOf[h] = p THEN IdleThread ELSE thread[h]]
      BY DEF Restart
<1>2. IdleThread.pc = "idle"  BY DEF IdleThread
<1>3. \A q \in Processes \ {p} : /\ env'[q] = env[q] /\ applied'[q] = applied[q]
                                /\ baseline'[q] = baseline[q] /\ lock'[q] = lock[q]
      BY <1>1 DEF TypeOK
<1>4. /\ env'[p] = Deployed /\ applied'[p] = Nowhere /\ lock'[p] = NoThread
      /\ baseline'[p] = [k \in Keys |-> Unset]
      BY <1>1 DEF TypeOK
<1>5. \A g \in Threads : ProcOf[g] \in Processes  BY ConfigAssumption
<1>6. \A g \in Threads : ProcOf[g] = p => thread'[g].pc = "idle"  BY <1>1, <1>2
<1>7. \A g \in Threads : ProcOf[g] # p => thread'[g] = thread[g]  BY <1>1
<1>8. \A q \in Processes \ {p} : Layered(q)' = Layered(q)  BY <1>3 DEF Layered
<1>9. Layered(p)' = Deployed  BY <1>4, ConfigAssumption DEF Layered, Nowhere, Environment
<1>10. LockInv'
  <2> SUFFICES ASSUME NEW g \in Threads PROVE (Locked(g) <=> lock[ProcOf[g]] = g)'
      BY DEF LockInv
  <2>1. CASE ProcOf[g] = p  BY <2>1, <1>4, <1>6, NoneConfigAssumption DEF Locked
  <2>2. CASE ProcOf[g] # p  BY <2>2, <1>3, <1>5, <1>7 DEF LockInv, Locked
  <2> QED  BY <2>1, <2>2
<1>11. BaselineInv'
  <2> SUFFICES ASSUME NEW q \in Processes, NEW k \in Keys
               PROVE  /\ baseline'[q][k] = IF applied'[q][k] = Absent THEN Unset ELSE Deployed[k]
                      /\ k \in Deny => applied'[q][k] = Absent
      BY DEF BaselineInv
  <2>1. CASE q = p  BY <2>1, <1>4 DEF Nowhere
  <2>2. CASE q # p  BY <2>2, <1>3 DEF BaselineInv
  <2> QED  BY <2>1, <2>2
<1>12. EnvInv'
  <2> SUFFICES ASSUME NEW q \in Processes, \A g \in Threads : ProcOf[g] = q => ~Trying(g)'
               PROVE  env'[q] = Layered(q)'
      BY DEF EnvInv
  <2>1. CASE q = p  BY <2>1, <1>4, <1>9
  <2>2. CASE q # p
    <3>1. \A g \in Threads : ProcOf[g] = q => ~Trying(g)  BY <2>2, <1>7 DEF Trying
    <3> QED  BY <2>2, <3>1, <1>3, <1>8 DEF EnvInv
  <2> QED  BY <2>1, <2>2
<1>13. TryInv'
  <2> SUFFICES ASSUME NEW g \in Threads PROVE TryInv!(g)'  BY DEF TryInv
  <2>1. CASE ProcOf[g] = p  BY <2>1, <1>6 DEF Trying
  <2>2. CASE ProcOf[g] # p
    <3>1. thread'[g] = thread[g] /\ Trying(g)' = Trying(g)  BY <2>2, <1>7 DEF Trying
    <3>2. /\ env'[ProcOf[g]] = env[ProcOf[g]] /\ Layered(ProcOf[g])' = Layered(ProcOf[g])
          BY <2>2, <1>3, <1>5, <1>8
    <3> QED  BY <3>1, <3>2 DEF TryInv
  <2> QED  BY <2>1, <2>2
<1> QED  BY <1>10, <1>11, <1>12, <1>13
-----------------------------------------------------------------------------
LEMMA StepInv == Inv /\ [Next]_vars => Inv'
<1> SUFFICES ASSUME Inv, [Next]_vars PROVE Inv'  OBVIOUS
<1>0. TypeOK /\ TypeOK'  BY StepType DEF Inv
<1> USE <1>0
<1>1. ASSUME NEW h \in Threads, Get(h) \/ Reload(h) \/ Change(h) PROVE Inv'
  <2>1. CASE Get(h)  BY <2>1, StartQuiet, QuietKeeps DEF Get
  <2>2. CASE Reload(h)  BY <2>2, StartQuiet, QuietKeeps DEF Reload
  <2>3. CASE Change(h)
    <3>1. PICK k \in Keys : \/ \E v \in Values \cup Bad : Start(h, "put", k, v)
                            \/ Start(h, "delete", k, Absent)
          BY <2>3 DEF Change
    <3> QED  BY <3>1, StartQuiet, QuietKeeps
  <2> QED  BY <1>1, <2>1, <2>2, <2>3
<1>2. ASSUME NEW h \in Threads, SkipSync(h) PROVE Inv'
  <2>1. ~Locked(h)  BY <1>2 DEF SkipSync, At, Locked
  <2> QED  BY <1>2, <2>1, GotoQuiet, QuietKeeps DEF SkipSync
<1>3. ASSUME NEW h \in Threads, LoadRows(h) PROVE Inv'  BY <1>3, LoadRowsKeeps
<1>4. ASSUME NEW h \in Threads, LoadFails(h) PROVE Inv'
  <2>1. ~Locked(h)  BY <1>4 DEF LoadFails, MaySync, At, Locked
  <2>2. thread[h].then \in {"build", "idle"}  BY EffectTypes DEF ThreadState
  <2>3. Goto(h, thread[h].then) /\ UNCHANGED <<env, applied, baseline, lock>>
        BY <1>4 DEF LoadFails
  <2> QED  BY <2>1, <2>2, <2>3, GotoQuiet, QuietKeeps
<1>5. ASSUME NEW h \in Threads, ApplyRows(h) PROVE Inv'  BY <1>5, ApplyRowsKeeps
<1>6. ASSUME NEW h \in Threads, ClearCache(h) PROVE Inv'
  <2>1. ~Locked(h)  BY <1>6 DEF ClearCache, At, Locked
  <2>2. thread[h].then \in {"build", "idle"}  BY EffectTypes DEF ThreadState
  <2>3. Goto(h, thread[h].then) /\ UNCHANGED <<env, applied, baseline, lock>>
        BY <1>6 DEF ClearCache
  <2> QED  BY <2>1, <2>2, <2>3, GotoQuiet, QuietKeeps
<1>7. ASSUME NEW h \in Threads, BuildHit(h) \/ BuildStore(h) PROVE Inv'
  <2>1. ~Locked(h)  BY <1>7 DEF BuildHit, BuildStore, At, Locked
  <2>2. Served(h) /\ UNCHANGED <<env, applied, baseline, lock>>
        BY <1>7 DEF BuildHit, BuildStore
  <2> QED  BY <2>1, <2>2, ServedQuiet, QuietKeeps
<1>8. ASSUME NEW h \in Threads, BuildRead(h) PROVE Inv'
  <2>1. thread[h].pc = "build" /\ thread'[h].pc = "store"
        BY <1>8, EffectTypes DEF BuildRead, At, TypeOK, ThreadState
  <2>2. \A g \in Threads \ {h} : thread'[g] = thread[g]  BY <1>8 DEF BuildRead, TypeOK
  <2>3. Quiet(h)  BY <1>8, <2>1, <2>2 DEF Quiet, Locked, BuildRead
  <2> QED  BY <2>3, QuietKeeps
<1>9. ASSUME NEW h \in Threads, BuildRaises(h) PROVE Inv'
  <2>1. ~Locked(h)  BY <1>9 DEF BuildRaises, At, Locked
  <2> QED  BY <1>9, <2>1, FinishQuiet, QuietKeeps DEF BuildRaises
<1>10. ASSUME NEW h \in Threads, ValidateSet(h) PROVE Inv'  BY <1>10, ValidateSetKeeps
<1>11. ASSUME NEW h \in Threads, ValidateTry(h) PROVE Inv'  BY <1>11, ValidateTryKeeps
<1>12. ASSUME NEW h \in Threads, ValidateRestore(h) PROVE Inv'  BY <1>12, ValidateRestoreKeeps
<1>13. ASSUME NEW h \in Threads, CommitChange(h) PROVE Inv'
  <2>1. ~Locked(h)  BY <1>13 DEF CommitChange, At, Locked
  <2> QED  BY <1>13, <2>1, ForceQuiet, QuietKeeps DEF CommitChange
<1>14. ASSUME NEW h \in Threads, CommitFails(h) PROVE Inv'
  <2>1. ~Locked(h)  BY <1>14 DEF CommitFails, At, Locked
  <2> QED  BY <1>14, <2>1, FinishQuiet, QuietKeeps DEF CommitFails
<1>15. ASSUME NEW p \in Processes, Restart(p) PROVE Inv'  BY <1>15, RestartKeeps
<1>16. ASSUME UNCHANGED <<env, applied, baseline, lock, thread>> PROVE Inv'
  BY <1>16 DEF Inv, LockInv, Locked, BaselineInv, EnvInv, Layered, TryInv, Trying
<1>17. ASSUME NEW p \in Processes, Expire(p) PROVE Inv'  BY <1>16, <1>17 DEF Expire
<1>18. CASE UNCHANGED vars  BY <1>16, <1>18 DEF vars
<1> QED
  BY <1>1, <1>2, <1>3, <1>4, <1>5, <1>6, <1>7, <1>8, <1>9, <1>10, <1>11, <1>12, <1>13, <1>14,
     <1>15, <1>17, <1>18 DEF Next, Step

LEMMA InvIsLayered == Inv => EnvIsLayered
<1> SUFFICES ASSUME Inv, NEW p \in Processes, lock[p] = NoThread PROVE env[p] = Layered(p)
    BY DEF EnvIsLayered
<1>1. \A h \in Threads : ProcOf[h] = p => ~Trying(h)
      BY NoneConfigAssumption DEF Inv, LockInv, Locked, Trying
<1> QED  BY <1>1 DEF Inv, EnvInv

LEMMA InvProtects == Inv => ProtectedStay
<1> SUFFICES ASSUME Inv, NEW p \in Processes, NEW k \in Deny PROVE env[p][k] = Deployed[k]
    BY DEF ProtectedStay
<1> USE DEF Inv
<1>1. k \in Keys  BY ConfigAssumption
<1>2. Layered(p)[k] = Deployed[k]  BY <1>1 DEF Layered, BaselineInv
<1>3. CASE \A h \in Threads : ProcOf[h] = p => ~Trying(h)  BY <1>2, <1>3 DEF EnvInv
<1>4. CASE \E h \in Threads : ProcOf[h] = p /\ Trying(h)
  <2>1. PICK h \in Threads : ProcOf[h] = p /\ Trying(h)  BY <1>4
  <2>2. thread[h].key # k /\ env[p] = [Layered(p) EXCEPT ![thread[h].key] = thread[h].value]
        BY <2>1 DEF TryInv
  <2> QED  BY <1>1, <1>2, <2>2 DEF Layered
<1> QED  BY <1>3, <1>4

(* Validation and sync leave no trace in an environment once the runtime    *)
(* lock is free: every key has its deployed value or the override that was  *)
(* applied, so deleting an override brings the deployed value back          *)
(* (_sync_env, _validation_error).                                          *)
THEOREM EnvironmentIsLayered == Spec => []EnvIsLayered
<1> QED  BY InitInv, StepInv, InvIsLayered, PTL DEF Spec

(* No row of the table and no admin request ever changes a credential or a   *)
(* boot-only key in any process (_DENY).                                     *)
THEOREM ProtectedKeysStay == Spec => []ProtectedStay
<1> QED  BY InitInv, StepInv, InvProtects, PTL DEF Spec
=============================================================================
