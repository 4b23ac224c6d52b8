------------------------------ MODULE Results ------------------------------
(***************************************************************************)
(* The result of a task over its runs: the artifact a runner writes into   *)
(* outputs_dir or uploads to the bucket, the copy the API fetches back to  *)
(* serve it, and the beat job that deletes old files.                      *)
(*                                                                         *)
(* How a task gets a worker, and that only one worker runs it, is the      *)
(* matter of TaskLifecycle.  A result is known by the run it comes from.   *)
(***************************************************************************)
EXTENDS Naturals

CONSTANTS
    Readers,        \* concurrent downloads of the result
    Modes,          \* where artifacts live: "local", "minio"
    Namings,        \* TRUE: the pipeline, which puts the time into the name of
                    \* the artifact; FALSE: the deterministic runners, which do not
    MaxRuns,        \* executions of the task; bounds the run
    MaxFaults,      \* deaths of processes and failing calls, all together
    NoFile

ASSUME ResultsAssumption ==
    /\ Modes \subseteq {"local", "minio"}
    /\ Namings \subseteq BOOLEAN
    /\ MaxRuns \in Nat
    /\ MaxFaults \in Nat
    /\ NoFile \notin 0..MaxRuns

VARIABLES
    mode,       \* the storage backend, chosen once
    stamped,    \* the runner of the task, which its submission fixes
    row,        \* status and result_path of the task, and its last run
    worker,
    outputs,    \* outputs_dir: artifacts ("local") or copies of them ("minio")
    objects,    \* the bucket: the run of the object of each name, or 0
    cleaner,    \* cleanup_stale_output_files_task
    reader,
    faults

vars == <<mode, stamped, row, worker, outputs, objects, cleaner, reader, faults>>

(* Names of artifacts; 0 is the one without a time. *)
Names == 0..MaxRuns

Gone == [state |-> "none", run |-> 0]

IdleWorker == [pc |-> "idle", run |-> 0]

IdleCleaner == [pc |-> "idle", referenced |-> {}, left |-> {}, file |-> 0]

IdleReader == [pc |-> "idle", name |-> 0, got |-> 0]

Init ==
    /\ mode \in Modes
    /\ stamped \in Namings
    /\ row = [status |-> "queued", result |-> NoFile, run |-> 0]
    /\ worker = IdleWorker
    /\ outputs = [n \in Names |-> Gone]
    /\ objects = [n \in Names |-> 0]
    /\ cleaner = IdleCleaner
    /\ reader = [d \in Readers |-> IdleReader]
    /\ faults = 0
-----------------------------------------------------------------------------
Fails ==
    /\ faults < MaxFaults
    /\ faults' = faults + 1

(* A recompute, or a submission under the same key with force_recompute: the
   task is queued anew and forgets its result. *)
Rerun ==
    /\ row.status \in {"queued", "finished", "failed"}
    /\ row' = [row EXCEPT !.status = "queued", !.result = NoFile]
    /\ UNCHANGED <<mode, stamped, worker, outputs, objects, cleaner, reader, faults>>

(* A task that waits, or one whose worker has died. *)
StartRun ==
    /\ worker.pc = "idle"
    /\ row.status \in {"queued", "running"}
    /\ row.run < MaxRuns
    /\ row' = [row EXCEPT !.status = "running", !.run = @ + 1]
    /\ worker' = [pc |-> "run", run |-> row.run + 1]
    /\ UNCHANGED <<mode, stamped, outputs, objects, cleaner, reader, faults>>

ArtifactName(run) == IF stamped THEN run ELSE 0

(* The artifact is written to outputs_dir, or to a scratch directory and
   uploaded to the bucket; an object or file of that name is replaced. *)
Produce ==
    LET n == ArtifactName(worker.run)
    IN  /\ worker.pc = "run"
        /\ worker' = [worker EXCEPT !.pc = "finish"]
        /\ \/ /\ mode = "local"
              /\ outputs' = [outputs EXCEPT ![n] = [state |-> "new", run |-> worker.run]]
              /\ UNCHANGED objects
           \/ /\ mode = "minio"
              /\ objects' = [objects EXCEPT ![n] = worker.run]
              /\ UNCHANGED outputs
        /\ UNCHANGED <<mode, stamped, row, cleaner, reader, faults>>

(* finish_task with the path the runner has returned. *)
FinishRun ==
    /\ worker.pc = "finish"
    /\ row' = [row EXCEPT !.status = "finished", !.result = ArtifactName(worker.run)]
    /\ worker' = IdleWorker
    /\ UNCHANGED <<mode, stamped, outputs, objects, cleaner, reader, faults>>

(* finish_task with an error. *)
RunFails ==
    /\ worker.pc = "run"
    /\ Fails
    /\ row' = [row EXCEPT !.status = "failed"]
    /\ worker' = IdleWorker
    /\ UNCHANGED <<mode, stamped, outputs, objects, cleaner, reader>>

WorkerDies ==
    /\ worker.pc # "idle"
    /\ Fails
    /\ worker' = IdleWorker
    /\ UNCHANGED <<mode, stamped, row, outputs, objects, cleaner, reader>>
-----------------------------------------------------------------------------
(* cleanup_stale_output_files_task.                                        *)

Exists(n) == outputs[n].state # "none"

(* outputs_cleanup_max_age_hours pass: a week, and neither a run nor a
   cleanup takes that long. *)
Age(n) ==
    /\ outputs[n].state = "new"
    /\ worker.pc = "idle"
    /\ cleaner.pc = "idle"
    /\ outputs' = [outputs EXCEPT ![n].state = "old"]
    /\ UNCHANGED <<mode, stamped, row, worker, objects, cleaner, reader, faults>>

MutReferencedByName == {row.result} \cap Names

(* The result_path of the task, where it is a path: the minio:// one names no
   file of outputs_dir. *)
Referenced == IF mode = "local" THEN {row.result} \cap Names ELSE {}

CleanStart ==
    /\ cleaner.pc = "idle"
    /\ cleaner' = [cleaner EXCEPT !.pc = "scan", !.referenced = Referenced,
                                  !.left = {n \in Names : Exists(n)}]
    /\ UNCHANGED <<mode, stamped, row, worker, outputs, objects, reader, faults>>

MutMayRemoveAnyAge(n) == Exists(n) /\ n \notin cleaner.referenced

MutMayRemoveNever(n) == FALSE

MayRemove(n) == outputs[n].state = "old" /\ n \notin cleaner.referenced

(* The age of a file is looked at, and the file is removed a step later. *)
CleanLook(n) ==
    /\ cleaner.pc = "scan"
    /\ n \in cleaner.left
    /\ cleaner' = [cleaner EXCEPT !.left = @ \ {n}, !.file = n,
                                  !.pc = IF MayRemove(n) THEN "unlink" ELSE "scan"]
    /\ UNCHANGED <<mode, stamped, row, worker, outputs, objects, reader, faults>>

CleanUnlink ==
    /\ cleaner.pc = "unlink"
    /\ outputs' = [outputs EXCEPT ![cleaner.file] = Gone]
    /\ cleaner' = [cleaner EXCEPT !.pc = "scan"]
    /\ UNCHANGED <<mode, stamped, row, worker, objects, reader, faults>>

CleanEnd ==
    /\ cleaner.pc = "scan"
    /\ cleaner.left = {}
    /\ cleaner' = IdleCleaner
    /\ UNCHANGED <<mode, stamped, row, worker, outputs, objects, reader, faults>>

(* The worker process of the cleanup dies. *)
CleanDies ==
    /\ cleaner.pc # "idle"
    /\ Fails
    /\ cleaner' = IdleCleaner
    /\ UNCHANGED <<mode, stamped, row, worker, outputs, objects, reader>>
-----------------------------------------------------------------------------
(* GET /tasks/{external_id}/result.                                        *)

EndRead(d) == reader' = [reader EXCEPT ![d] = IdleReader]

(* A finished task is asked for, and its result is remote and no file of its
   name is in outputs_dir: it is fetched there.  What is there is served as it
   is, which changes nothing. *)
OpenResult(d) ==
    /\ reader[d].pc = "idle"
    /\ row.status = "finished"
    /\ mode = "minio"
    /\ ~Exists(row.result)
    /\ reader' = [reader EXCEPT ![d] = [IdleReader EXCEPT !.pc = "fetch", !.name = row.result]]
    /\ UNCHANGED <<mode, stamped, row, worker, outputs, objects, cleaner, faults>>

(* The object is read into a part file of its own. *)
FetchObject(d) ==
    /\ reader[d].pc = "fetch"
    /\ reader' = [reader EXCEPT ![d].pc = "rename", ![d].got = objects[reader[d].name]]
    /\ UNCHANGED <<mode, stamped, row, worker, outputs, objects, cleaner, faults>>

(* The part file is renamed into place, over what may be there by now, and
   served. *)
FetchRename(d) ==
    /\ reader[d].pc = "rename"
    /\ outputs' = [outputs EXCEPT ![reader[d].name] = [state |-> "new", run |-> reader[d].got]]
    /\ EndRead(d)
    /\ UNCHANGED <<mode, stamped, row, worker, objects, cleaner, faults>>

FetchFails(d) ==
    /\ reader[d].pc \in {"fetch", "rename"}
    /\ Fails
    /\ EndRead(d)
    /\ UNCHANGED <<mode, stamped, row, worker, outputs, objects, cleaner>>
-----------------------------------------------------------------------------
WorkerStep == StartRun \/ Produce \/ FinishRun

CleanStep == CleanStart \/ (\E n \in Names : CleanLook(n)) \/ CleanUnlink \/ CleanEnd

ReadStep(d) == FetchObject(d) \/ FetchRename(d)

Next ==
    \/ Rerun
    \/ WorkerStep \/ RunFails \/ WorkerDies
    \/ \E n \in Names : Age(n)
    \/ CleanStep \/ CleanDies
    \/ \E d \in Readers : OpenResult(d) \/ ReadStep(d) \/ FetchFails(d)

Spec == Init /\ [][Next]_vars

(* The beat keeps starting the cleanup, what has begun goes on, and a file that
   is left alone gets old. *)
FairSpec ==
    /\ Spec
    /\ WF_vars(CleanStep)
    /\ WF_vars(WorkerStep)
    /\ \A n \in Names : SF_vars(Age(n))
-----------------------------------------------------------------------------
RowState ==
    [status : {"queued", "running", "finished", "failed"}, result : Names \cup {NoFile},
     run : 0..MaxRuns]

FileState == [state : {"none", "new", "old"}, run : 0..MaxRuns]

CleanerState ==
    [pc : {"idle", "scan", "unlink"}, referenced : SUBSET Names, left : SUBSET Names, file : Names]

ReaderState ==
    [pc : {"idle", "fetch", "rename"}, name : Names, got : 0..MaxRuns]

(* Every variable keeps to its type. *)
TypeOK ==
    /\ mode \in Modes
    /\ stamped \in Namings
    /\ row \in RowState
    /\ worker \in [pc : {"idle", "run", "finish"}, run : 0..MaxRuns]
    /\ outputs \in [Names -> FileState]
    /\ objects \in [Names -> 0..MaxRuns]
    /\ cleaner \in CleanerState
    /\ reader \in [Readers -> ReaderState]
    /\ faults \in Nat

(* The result of a finished task is where result_path says, whatever the
   cleanup removes: the file, or the object, of that very run.  A file on disk
   whose name every run uses again is excepted: such a one the cleanup may look
   at while it is old and unlink when a re-run has written it anew. *)
ResultIsKept ==
    row.status = "finished" /\ (stamped \/ mode = "minio") =>
        \/ mode = "local" /\ Exists(row.result) /\ outputs[row.result].run = row.run
        \/ mode = "minio" /\ objects[row.result] = row.run

(* A copy of an object that a later run has replaced, which is found by its
   name and served for the result, does not stay for good, however often it is
   asked for and whatever downloads are under way: in the end it is removed or
   the result of that name is fetched again. *)
StaleCopiesGo ==
    \A n \in Names :
        (mode = "minio" /\ Exists(n) /\ outputs[n].run # objects[n])
            ~> (~Exists(n) \/ outputs[n].run = objects[n])

(* An old file of outputs_dir that no task refers to does not stay, though
   cleanups die and results are fetched back in the meantime. *)
StaleOutputsGo ==
    \A n \in Names :
        (outputs[n].state = "old" /\ n \notin Referenced)
            ~> (outputs[n].state # "old" \/ n \in Referenced)
=============================================================================
