---------------------------- MODULE RuntimeConfig ----------------------------
(***************************************************************************)
(* Runtime configuration overrides: the config_override table, and in      *)
(* every process the environment it is synced into and the typed Settings  *)
(* cached on top of that environment.                                      *)
(*                                                                         *)
(* A thread is followed through get_settings and, in the API process,      *)
(* through the admin handler behind it.  The runtime lock is held over the *)
(* read of the table and the write of the environment; the cache of        *)
(* Settings is an lru_cache that has no part in that lock: it stores what  *)
(* a build has read when the build is over, whatever was cleared meanwhile.*)
(***************************************************************************)
EXTENDS Naturals

CONSTANTS
    Keys,           \* environment variables
    Deny,           \* _DENY: credentials and boot-only keys
    Values,         \* values Settings accepts
    Bad,            \* values Settings rejects ("TOP_K=abc")
    Deployed,       \* the environment a process is deployed with
    Rows,           \* what config_override holds when the service starts
    Processes,      \* api, worker, worker_llm
    Api,            \* the one that serves the admin API
    Threads,
    ProcOf,         \* [Threads -> Processes]
    MaxChanges,     \* admin requests: changes of the table, reloads; bounds the run
    MaxFaults,      \* database errors and restarts, all together
    Absent, Unset, NoThread, NoSettings

Slot == Values \cup Bad \cup {Absent}

Environment == [Keys -> Slot]

(* Settings are built from the whole environment or not at all. *)
Valid(e) == \A k \in Keys : e[k] \notin Bad

ASSUME ConfigAssumption ==
    /\ Keys # {} /\ Deny \subseteq Keys
    /\ Deployed \in Environment /\ Valid(Deployed)
    /\ Rows \in Environment
    /\ Api \in Processes
    /\ ProcOf \in [Threads -> Processes]
    /\ MaxChanges \in Nat /\ MaxFaults \in Nat

ASSUME NoneConfigAssumption ==
    /\ Absent \notin Values \cup Bad
    /\ Unset \notin Slot
    /\ NoThread \notin Threads
    /\ NoSettings \notin Environment

VARIABLES
    store,      \* config_override: Absent where a key has no row
    env,        \* os.environ of each process
    applied,    \* _applied: what the sync has written into it
    baseline,   \* _baseline: what was there before, Unset where not taken
    fresh,      \* SYNC_TTL has not passed since _last_sync
    cache,      \* what _build_settings_cached holds
    lock,       \* the holder of the runtime lock of each process
    thread,
    changes, faults

vars == <<store, env, applied, baseline, fresh, cache, lock, thread, changes, faults>>

Nowhere == [k \in Keys |-> Absent]

IdleThread == [pc |-> "idle", op |-> "get", key |-> CHOOSE k \in Keys : TRUE,
               value |-> Absent, view |-> Nowhere, old |-> Absent, ok |-> TRUE,
               then |-> "build"]

Init ==
    /\ store = Rows
    /\ env = [p \in Processes |-> Deployed]
    /\ applied = [p \in Processes |-> Nowhere]
    /\ baseline = [p \in Processes |-> [k \in Keys |-> Unset]]
    /\ fresh = [p \in Processes |-> FALSE]
    /\ cache = [p \in Processes |-> NoSettings]
    /\ lock = [p \in Processes |-> NoThread]
    /\ thread = [h \in Threads |-> IdleThread]
    /\ changes = 0
    /\ faults = 0
-----------------------------------------------------------------------------
At(h, pc) == thread[h].pc = pc

(* The thread goes on at pc and forgets what it has read. *)
Goto(h, pc) ==
    thread' = [thread EXCEPT ![h].pc = pc, ![h].view = Nowhere, ![h].old = Absent, ![h].ok = TRUE]

Finish(h) == thread' = [thread EXCEPT ![h] = IdleThread]

Fails ==
    /\ faults < MaxFaults
    /\ faults' = faults + 1

(* A request or a pipeline run asks for the settings.  _last_sync is read
   without the lock. *)
Start(h, op, k, v) ==
    /\ At(h, "idle")
    /\ op # "get" => ProcOf[h] = Api
    /\ thread' = [thread EXCEPT ![h] = [IdleThread EXCEPT
                    !.pc = IF fresh[ProcOf[h]] THEN "build" ELSE "sync",
                    !.op = op, !.key = k, !.value = v]]
    /\ UNCHANGED <<store, env, applied, baseline, fresh, cache, lock, faults>>

Get(h) ==
    /\ Start(h, "get", IdleThread.key, Absent)
    /\ UNCHANGED changes

(* A forced sync, as after a change; it needs no change to be of interest. *)
Reload(h) ==
    /\ changes < MaxChanges
    /\ changes' = changes + 1
    /\ Start(h, "reload", IdleThread.key, Absent)

Change(h) ==
    /\ changes < MaxChanges
    /\ changes' = changes + 1
    /\ \E k \in Keys :
          \/ \E v \in Values \cup Bad : Start(h, "put", k, v)
          \/ Start(h, "delete", k, Absent)
-----------------------------------------------------------------------------
(* apply_overrides.  A forced sync follows an admin write.                 *)

Forced(h) == thread[h].then = "idle"

(* The lock is free and the table has to be read. *)
MaySync(h) ==
    /\ At(h, "sync")
    /\ lock[ProcOf[h]] = NoThread
    /\ Forced(h) \/ ~fresh[ProcOf[h]]

(* Under the lock it turns out that another thread has synced meanwhile. *)
SkipSync(h) ==
    /\ At(h, "sync")
    /\ lock[ProcOf[h]] = NoThread
    /\ ~Forced(h) /\ fresh[ProcOf[h]]
    /\ Goto(h, "build")
    /\ UNCHANGED <<store, env, applied, baseline, fresh, cache, lock, changes, faults>>

LoadRows(h) ==
    /\ MaySync(h)
    /\ lock' = [lock EXCEPT ![ProcOf[h]] = h]
    /\ thread' = [thread EXCEPT ![h].pc = "apply", ![h].view = store]
    /\ UNCHANGED <<store, env, applied, baseline, fresh, cache, changes, faults>>

(* A database error is swallowed; the environment stays as it is and counts
   as synced. *)
LoadFails(h) ==
    /\ MaySync(h)
    /\ Fails
    /\ fresh' = [fresh EXCEPT ![ProcOf[h]] = TRUE]
    /\ Goto(h, thread[h].then)
    /\ UNCHANGED <<store, env, applied, baseline, cache, lock, changes>>

MutOverriddenAll(rows) == {k \in Keys : rows[k] # Absent}

(* The keys rows override; a row of a protected key is ignored. *)
Overridden(rows) == {k \in Keys \ Deny : rows[k] # Absent}

(* The keys whose override is new or has another value. *)
Moved(p, rows) == {k \in Overridden(rows) : applied[p][k] # rows[k]}

MutGoneNever(p, rows) == {}

(* The keys whose override is gone from the table. *)
Gone(p, rows) == {k \in Keys : applied[p][k] # Absent /\ rows[k] = Absent}

(* The deployed value is remembered the first time a key is overridden. *)
Captured(p, k) == IF baseline[p][k] = Unset THEN env[p][k] ELSE baseline[p][k]

Restored(p, k) == IF baseline[p][k] = Unset THEN Absent ELSE baseline[p][k]

(* _sync_env, and the release of the lock. *)
ApplyRows(h) ==
    LET p == ProcOf[h]
        rows == thread[h].view
        moved == Moved(p, rows)
        gone == Gone(p, rows)
    IN  /\ At(h, "apply")
        /\ env' = [env EXCEPT ![p] = [k \in Keys |->
                     IF k \in moved THEN rows[k]
                     ELSE IF k \in gone THEN Restored(p, k) ELSE @[k]]]
        /\ applied' = [applied EXCEPT ![p] = [k \in Keys |->
                         IF k \in moved THEN rows[k]
                         ELSE IF k \in gone THEN Absent ELSE @[k]]]
        /\ baseline' = [baseline EXCEPT ![p] = [k \in Keys |->
                          IF k \in moved THEN Captured(p, k)
                          ELSE IF k \in gone THEN Unset ELSE @[k]]]
        /\ fresh' = [fresh EXCEPT ![p] = TRUE]
        /\ lock' = [lock EXCEPT ![p] = NoThread]
        /\ Goto(h, IF moved \cup gone # {} THEN "clear" ELSE thread[h].then)
        /\ UNCHANGED <<store, cache, changes, faults>>

MutClearNothing(h) ==
    /\ At(h, "clear")
    /\ Goto(h, thread[h].then)
    /\ UNCHANGED <<store, env, applied, baseline, fresh, cache, lock, changes, faults>>

(* The cached Settings are dropped after the lock is released. *)
ClearCache(h) ==
    /\ At(h, "clear")
    /\ cache' = [cache EXCEPT ![ProcOf[h]] = NoSettings]
    /\ Goto(h, thread[h].then)
    /\ UNCHANGED <<store, env, applied, baseline, fresh, lock, changes, faults>>

(* SYNC_TTL seconds pass. *)
Expire(p) ==
    /\ fresh[p]
    /\ fresh' = [fresh EXCEPT ![p] = FALSE]
    /\ UNCHANGED <<store, env, applied, baseline, cache, lock, thread, changes, faults>>
-----------------------------------------------------------------------------
(* _build_settings_cached, and the handler that goes on with its result.   *)

(* is_overridable. *)
Overridable(p, k) == k \notin Deny /\ env[p][k] # Absent

(* What the thread does once it has the settings: an admin handler goes on
   past verify_admin, anything else is over. *)
Served(h) ==
    CASE thread[h].op = "put" /\ Overridable(ProcOf[h], thread[h].key) -> Goto(h, "validate")
      [] thread[h].op = "delete" -> Goto(h, "commit")
      [] thread[h].op = "reload" ->
            thread' = [thread EXCEPT ![h] = [IdleThread EXCEPT !.pc = "sync", !.then = "idle"]]
      [] OTHER -> Finish(h)

BuildHit(h) ==
    /\ At(h, "build")
    /\ cache[ProcOf[h]] # NoSettings
    /\ Served(h)
    /\ UNCHANGED <<store, env, applied, baseline, fresh, cache, lock, changes, faults>>

(* A build reads the environment without the runtime lock. *)
BuildRead(h) ==
    /\ At(h, "build")
    /\ cache[ProcOf[h]] = NoSettings
    /\ Valid(env[ProcOf[h]])
    /\ thread' = [thread EXCEPT ![h].pc = "store", ![h].view = env[ProcOf[h]]]
    /\ UNCHANGED <<store, env, applied, baseline, fresh, cache, lock, changes, faults>>

(* get_settings raises: the request fails, verify_admin of an admin one too. *)
BuildRaises(h) ==
    /\ At(h, "build")
    /\ cache[ProcOf[h]] = NoSettings
    /\ ~Valid(env[ProcOf[h]])
    /\ Finish(h)
    /\ UNCHANGED <<store, env, applied, baseline, fresh, cache, lock, changes, faults>>

(* The lru_cache keeps what a build returns unless an entry is there. *)
BuildStore(h) ==
    LET p == ProcOf[h]
    IN  /\ At(h, "store")
        /\ cache' = [cache EXCEPT ![p] = IF @ = NoSettings THEN thread[h].view ELSE @]
        /\ Served(h)
        /\ UNCHANGED <<store, env, applied, baseline, fresh, lock, changes, faults>>
-----------------------------------------------------------------------------
(* put_config_key: _validation_error, then set_override.                   *)

(* Under the lock the candidate goes into the environment and the cached
   Settings are dropped. *)
ValidateSet(h) ==
    LET p == ProcOf[h]
        k == thread[h].key
    IN  /\ At(h, "validate")
        /\ lock[p] = NoThread
        /\ lock' = [lock EXCEPT ![p] = h]
        /\ thread' = [thread EXCEPT ![h].pc = "try", ![h].old = env[p][k]]
        /\ env' = [env EXCEPT ![p][k] = thread[h].value]
        /\ cache' = [cache EXCEPT ![p] = NoSettings]
        /\ UNCHANGED <<store, applied, baseline, fresh, changes, faults>>

(* The build that has to fail on a bad value; another thread's build may
   have put Settings into the cache in between. *)
ValidateTry(h) ==
    LET p == ProcOf[h]
    IN  /\ At(h, "try")
        /\ thread' = [thread EXCEPT ![h].pc = "restore",
                        ![h].ok = cache[p] # NoSettings \/ Valid(env[p])]
        /\ cache' = [cache EXCEPT ![p] =
                       IF @ = NoSettings /\ Valid(env[p]) THEN env[p] ELSE @]
        /\ UNCHANGED <<store, env, applied, baseline, fresh, lock, changes, faults>>

MutValidateKeeps(h) ==
    LET p == ProcOf[h]
    IN  /\ At(h, "restore")
        /\ cache' = [cache EXCEPT ![p] = NoSettings]
        /\ lock' = [lock EXCEPT ![p] = NoThread]
        /\ IF thread[h].ok THEN Goto(h, "commit") ELSE Finish(h)
        /\ UNCHANGED <<store, env, applied, baseline, fresh, changes, faults>>

ValidateRestore(h) ==
    LET p == ProcOf[h]
    IN  /\ At(h, "restore")
        /\ env' = [env EXCEPT ![p][thread[h].key] = thread[h].old]
        /\ cache' = [cache EXCEPT ![p] = NoSettings]
        /\ lock' = [lock EXCEPT ![p] = NoThread]
        /\ IF thread[h].ok THEN Goto(h, "commit") ELSE Finish(h)
        /\ UNCHANGED <<store, applied, baseline, fresh, changes, faults>>

(* set_override and delete_override: the row is committed, a forced sync of
   this process follows. *)
CommitChange(h) ==
    /\ At(h, "commit")
    /\ store' = [store EXCEPT ![thread[h].key] = thread[h].value]
    /\ thread' = [thread EXCEPT ![h] = [IdleThread EXCEPT !.pc = "sync", !.then = "idle"]]
    /\ UNCHANGED <<env, applied, baseline, fresh, cache, lock, changes, faults>>

CommitFails(h) ==
    /\ At(h, "commit")
    /\ Fails
    /\ Finish(h)
    /\ UNCHANGED <<store, env, applied, baseline, fresh, cache, lock, changes>>

(* A process is restarted: it starts from its deployed environment. *)
Restart(p) ==
    /\ Fails
    /\ env' = [env EXCEPT ![p] = Deployed]
    /\ applied' = [applied EXCEPT ![p] = Nowhere]
    /\ baseline' = [baseline EXCEPT ![p] = [k \in Keys |-> Unset]]
    /\ fresh' = [fresh EXCEPT ![p] = FALSE]
    /\ cache' = [cache EXCEPT ![p] = NoSettings]
    /\ lock' = [lock EXCEPT ![p] = NoThread]
    /\ thread' = [h \in Threads |-> IF ProcOf[h] = p THEN IdleThread ELSE thread[h]]
    /\ UNCHANGED <<store, changes>>
-----------------------------------------------------------------------------
(* What a thread does once it has started. *)
Step(h) ==
    \/ SkipSync(h)
    \/ LoadRows(h)
    \/ ApplyRows(h)
    \/ ClearCache(h)
    \/ BuildHit(h)
    \/ BuildRead(h)
    \/ BuildRaises(h)
    \/ BuildStore(h)
    \/ ValidateSet(h)
    \/ ValidateTry(h)
    \/ ValidateRestore(h)
    \/ CommitChange(h)

Next ==
    \/ \E h \in Threads :
          Get(h) \/ Reload(h) \/ Change(h) \/ Step(h) \/ LoadFails(h) \/ CommitFails(h)
    \/ \E p \in Processes : Expire(p) \/ Restart(p)

Spec == Init /\ [][Next]_vars

(* Threads run, time passes, and every process is asked for its settings
   again and again (each request, each pipeline run).  Nobody has to send an
   admin request, and the table may be unreadable MaxFaults times. *)
Fairness ==
    /\ \A h \in Threads : WF_vars(Step(h)) /\ WF_vars(Get(h))
    /\ \A p \in Processes : WF_vars(Expire(p))

FairSpec == Spec /\ Fairness
-----------------------------------------------------------------------------
ThreadPc == {"idle", "sync", "apply", "clear", "build", "store", "validate", "try",
             "restore", "commit"}

ThreadState ==
    [pc : ThreadPc, op : {"get", "reload", "put", "delete"}, key : Keys, value : Slot,
     view : Environment, old : Slot, ok : BOOLEAN, then : {"build", "idle"}]

(* Every variable keeps to its type. *)
TypeOK ==
    /\ store \in Environment
    /\ env \in [Processes -> Environment]
    /\ applied \in [Processes -> Environment]
    /\ baseline \in [Processes -> [Keys -> Slot \cup {Unset}]]
    /\ fresh \in [Processes -> BOOLEAN]
    /\ cache \in [Processes -> Environment \cup {NoSettings}]
    /\ lock \in [Processes -> Threads \cup {NoThread}]
    /\ thread \in [Threads -> ThreadState]
    /\ changes \in Nat
    /\ faults \in Nat

(* The deployed value of every key, covered by what the sync has applied. *)
Layered(p) == [k \in Keys |-> IF applied[p][k] = Absent THEN Deployed[k] ELSE applied[p][k]]

(* A validation that is over, rejected or not, leaves no trace, and however
   often a key was overridden and overridden again, it is the deployed value
   that comes back: while nobody holds the runtime lock the environment is
   the deployed one under the applied overrides. *)
EnvIsLayered == \A p \in Processes : lock[p] = NoThread => env[p] = Layered(p)

(* Credentials and boot-only keys keep their deployed values in every
   process and at every moment, even if a row for one is in the table. *)
ProtectedStay == \A p \in Processes, k \in Deny : env[p][k] = Deployed[k]

(* What the table asks for. *)
Effective == [k \in Keys |-> IF k \in Overridden(store) THEN store[k] ELSE Deployed[k]]

(* The environment of every process, which its pipeline child inherits, comes
   to hold the table's overrides and nothing else, over syncs that read an older
   table, database errors and restarts.  It says nothing of the Settings the
   process itself uses: of those, see SettingsReach. *)
OverridesReach == <>[](\A p \in Processes : env[p] = Effective)

(* What a build in progress has read is still the environment. *)
NoBuildOvertaken == \A h \in Threads : At(h, "store") => thread[h].view = env[ProcOf[h]]

(* "Each process periodically syncs them into its own os.environ and busts the
   Settings cache, so [they] all pick up changes" (config_runtime.py): in the
   end every process has the table's Settings or builds them anew, whatever
   threads, validations and restarts come between, as long as no build is
   overtaken by a change of the environment.  Without that reservation the code
   does not keep it: a build that is under way while the cache is cleared puts
   its old Settings there, and no later sync finds anything to change. *)
SettingsReach ==
    []NoBuildOvertaken => <>[](\A p \in Processes : cache[p] \in {NoSettings, Effective})
=============================================================================
