--------------------------- MODULE Results_proofs ---------------------------
(***************************************************************************)
(* Theorems about Results, for any number of runs and of readers: types,   *)
(* and that a finished task keeps its result over every cleanup, but for   *)
(* a file on disk whose name every run uses again.                         *)
(***************************************************************************)
EXTENDS Results, TLAPS

LEMMA NamesTyped == 0 \in Names /\ \A n \in 0..MaxRuns : ArtifactName(n) \in Names
BY ResultsAssumption DEF Names, ArtifactName

(* A finished task names a result. *)
ResultNamed == row.status = "finished" => row.result \in Names

Typed == TypeOK /\ ResultNamed

LEMMA TypeInit == Init => Typed
BY ResultsAssumption DEF Init, Typed, ResultNamed, TypeOK, Names, RowState, FileState, CleanerState, ReaderState,
   IdleWorker, IdleCleaner, IdleReader, Gone

LEMMA TypeStep == Typed /\ [Next]_vars => TypeOK'
<1> SUFFICES ASSUME TypeOK, ResultNamed, [Next]_vars PROVE TypeOK'
  BY DEF Typed
<1> USE NamesTyped, ResultsAssumption DEF TypeOK
<1>1. CASE Rerun
  <2>1. row' \in RowState
    BY <1>1 DEF Rerun, RowState
  <2> QED
    BY <1>1, <2>1 DEF Rerun
<1>2. CASE StartRun
  <2>1. row.run + 1 \in 0..MaxRuns
    BY <1>2 DEF StartRun, RowState
  <2>2. row' \in RowState /\ worker' \in [pc : {"idle", "run", "finish"}, run : 0..MaxRuns]
    BY <1>2, <2>1 DEF StartRun, RowState
  <2> QED
    BY <1>2, <2>2 DEF StartRun
<1>3. CASE Produce
  <2>1. worker.run \in 0..MaxRuns /\ ArtifactName(worker.run) \in Names
    OBVIOUS
  <2>2. [state |-> "new", run |-> worker.run] \in FileState
    BY <2>1 DEF FileState
  <2>3. outputs' \in [Names -> FileState]
    BY <1>3, <2>1, <2>2 DEF Produce
  <2>4. objects' \in [Names -> 0..MaxRuns]
    BY <1>3, <2>1 DEF Produce
  <2>5. worker' \in [pc : {"idle", "run", "finish"}, run : 0..MaxRuns]
    BY <1>3 DEF Produce
  <2> QED
    BY <1>3, <2>3, <2>4, <2>5 DEF Produce
<1>4. CASE FinishRun
  <2>1. ArtifactName(worker.run) \in Names
    OBVIOUS
  <2>2. row' \in RowState
    BY <1>4, <2>1 DEF FinishRun, RowState
  <2>3. 0 \in 0..MaxRuns
    BY DEF Names
  <2> QED
    BY <1>4, <2>2, <2>3 DEF FinishRun, IdleWorker
<1>5. CASE RunFails \/ WorkerDies
  <2>1. row' \in RowState /\ faults' \in Nat
    BY <1>5 DEF RunFails, WorkerDies, Fails, RowState
  <2>2. 0 \in 0..MaxRuns
    BY DEF Names
  <2> QED
    BY <1>5, <2>1, <2>2 DEF RunFails, WorkerDies, IdleWorker
<1>6. ASSUME NEW n \in Names, Age(n) PROVE TypeOK'
  BY <1>6 DEF Age, FileState
<1>7. CASE CleanStart
  <2>1. Referenced \in SUBSET Names /\ {n \in Names : Exists(n)} \in SUBSET Names
    BY DEF Referenced
  <2>2. cleaner' \in CleanerState
    BY <1>7, <2>1 DEF CleanStart, CleanerState
  <2> QED
    BY <1>7, <2>2 DEF CleanStart
<1>8. ASSUME NEW n \in Names, CleanLook(n) PROVE TypeOK'
  BY <1>8 DEF CleanLook, CleanerState
<1>9. CASE CleanUnlink
  <2>1. Gone \in FileState
    BY DEF Gone, FileState, Names
  <2>2. cleaner' \in CleanerState /\ outputs' \in [Names -> FileState]
    BY <1>9, <2>1 DEF CleanUnlink, CleanerState
  <2> QED
    BY <1>9, <2>2 DEF CleanUnlink
<1>10. CASE CleanEnd \/ CleanDies
  BY <1>10 DEF CleanEnd, CleanDies, Fails, CleanerState, IdleCleaner
<1>11. ASSUME NEW d \in Readers, OpenResult(d) PROVE TypeOK'
  <2>1. row.run \in 0..MaxRuns /\ 0 \in 0..MaxRuns
    BY DEF RowState, Names
  <2>2. row.result \in Names
    BY <1>11 DEF OpenResult, ResultNamed
  <2>3. reader' \in [Readers -> ReaderState]
    BY <1>11, <2>1, <2>2 DEF OpenResult, ReaderState, IdleReader
  <2> QED
    BY <1>11, <2>3 DEF OpenResult
<1>12. ASSUME NEW d \in Readers, FetchRename(d) PROVE TypeOK'
  <2>1. reader' \in [Readers -> ReaderState]
    BY <1>12 DEF FetchRename, EndRead, IdleReader, ReaderState, Names
  <2>2. outputs' \in [Names -> FileState]
    BY <1>12 DEF FetchRename, ReaderState, FileState
  <2> QED
    BY <1>12, <2>1, <2>2 DEF FetchRename
<1>13. ASSUME NEW d \in Readers, FetchObject(d) PROVE TypeOK'
  <2>1. [reader[d] EXCEPT !.pc = "rename", !.got = objects[reader[d].name]] \in ReaderState
    BY DEF ReaderState
  <2>2. reader' = [reader EXCEPT ![d] = [reader[d] EXCEPT !.pc = "rename", !.got = objects[reader[d].name]]]
    BY <1>13 DEF FetchObject
  <2> QED
    BY <1>13, <2>1, <2>2 DEF FetchObject
<1>14. ASSUME NEW d \in Readers, FetchFails(d) PROVE TypeOK'
  BY <1>14 DEF FetchFails, EndRead, Fails, ReaderState, IdleReader
<1>15. CASE UNCHANGED vars
  BY <1>15 DEF vars
<1> QED
  BY <1>1, <1>2, <1>3, <1>4, <1>5, <1>6, <1>7, <1>8, <1>9, <1>10, <1>11, <1>12, <1>13, <1>14, <1>15
     DEF Next, WorkerStep, CleanStep, ReadStep

LEMMA NamedStep == Typed /\ [Next]_vars => ResultNamed'
<1> SUFFICES ASSUME Typed, [Next]_vars PROVE ResultNamed'
  OBVIOUS
<1>1. CASE row' = row
  BY <1>1 DEF Typed, ResultNamed
<1>2. CASE Rerun \/ StartRun \/ RunFails
  BY <1>2 DEF Rerun, StartRun, RunFails, ResultNamed, Typed, TypeOK, RowState
<1>3. CASE FinishRun
  <2>1. ArtifactName(worker.run) \in Names
    BY NamesTyped DEF Typed, TypeOK
  <2> QED
    BY <1>3, <2>1 DEF FinishRun, ResultNamed, Typed, TypeOK, RowState
<1> QED
  BY <1>1, <1>2, <1>3 DEF Next, WorkerStep, CleanStep, ReadStep, Produce, WorkerDies, Age,
     CleanStart, CleanLook, CleanUnlink, CleanEnd, CleanDies, OpenResult, FetchObject, FetchRename,
     FetchFails, vars

(* Every variable keeps to its type, for every instance. *)
THEOREM ResultsTypeCorrect == Spec => []TypeOK
<1>1. Typed /\ [Next]_vars => Typed'
  BY TypeStep, NamedStep DEF Typed
<1>2. Typed => TypeOK
  BY DEF Typed
<1> QED
  BY <1>1, <1>2, TypeInit, PTL DEF Spec

-----------------------------------------------------------------------------
(* A file that no other run writes to. *)
OwnFiles == mode = "local" /\ stamped

(* Such a file of a name is the one of that run, and there is none of a run
   that has not produced yet. *)
NamesAreRuns ==
    OwnFiles => \A n \in Names : Exists(n) => outputs[n].run = n /\ 1 <= n /\ n <= row.run

(* The worker is on the last run of the task. *)
WorkerIsLast ==
    worker.pc # "idle" =>
        /\ row.status = "running"
        /\ worker.run = row.run
        /\ 1 <= worker.run

(* Where the artifact of the last run is. *)
ArtifactIsThere ==
    /\ row.status = "finished" => row.result = ArtifactName(row.run) /\ 1 <= row.run
    /\ row.status = "finished" /\ OwnFiles => Exists(row.result)
    /\ row.status = "finished" /\ mode = "minio" => objects[row.result] = row.run
    /\ worker.pc = "run" /\ OwnFiles => ~Exists(worker.run)
    /\ worker.pc = "finish" /\ OwnFiles => outputs[worker.run].state = "new"
    /\ worker.pc = "finish" /\ mode = "minio" => objects[ArtifactName(worker.run)] = worker.run

(* What the cleanup knows is still true of every file that is old. *)
CleanerKnows ==
    OwnFiles =>
        /\ cleaner.pc # "idle" /\ row.result \in Names /\ outputs[row.result].state = "old"
               => row.result \in cleaner.referenced
        /\ cleaner.pc = "unlink"
               => outputs[cleaner.file].state = "old" /\ cleaner.file \notin cleaner.referenced

(* Only what is in the bucket is fetched. *)
ReaderFetches == \A d \in Readers : reader[d].pc \in {"fetch", "rename"} => mode = "minio"

Inv == Typed /\ NamesAreRuns /\ WorkerIsLast /\ ArtifactIsThere /\ CleanerKnows /\ ReaderFetches

LEMMA StampedName ==
    ASSUME OwnFiles, NEW run
    PROVE  ArtifactName(run) = run
BY DEF ArtifactName, OwnFiles

LEMMA NextName ==
    ASSUME TypeOK, row.run < MaxRuns
    PROVE  row.run + 1 \in Names /\ ~(row.run + 1 <= row.run)
<1>1. row.run \in 0..MaxRuns
  BY DEF TypeOK, RowState
<1> QED
  BY <1>1, ResultsAssumption DEF Names

(* Steps of the worker and of the clients' reruns. *)
LEMMA WorkerKeeps ==
    ASSUME Inv, Rerun \/ WorkerStep \/ RunFails \/ WorkerDies
    PROVE  NamesAreRuns' /\ WorkerIsLast' /\ ArtifactIsThere' /\ CleanerKnows' /\ ReaderFetches'
<1> USE ResultsAssumption DEF Inv, Typed, TypeOK, Exists
<1>0. row \in RowState /\ row.run \in 0..MaxRuns /\ worker.run \in Nat
  BY DEF RowState
<1>1. CASE Rerun
  <2>1. NamesAreRuns' /\ WorkerIsLast' /\ ReaderFetches'
    BY <1>1 DEF Rerun, NamesAreRuns, WorkerIsLast, ReaderFetches, RowState, OwnFiles
  <2>2. row'.status = "queued" /\ row'.result = NoFile
    BY <1>0, <1>1 DEF Rerun, RowState
  <2>3. ArtifactIsThere' /\ CleanerKnows'
    BY <1>1, <2>2 DEF Rerun, ArtifactIsThere, CleanerKnows, WorkerIsLast, Names, OwnFiles, ArtifactName
  <2> QED
    BY <2>1, <2>3
<1>2. CASE StartRun
  <2>1. /\ row'.status = "running" /\ row'.run = row.run + 1 /\ row'.result = row.result
        /\ worker'.pc = "run" /\ worker'.run = row.run + 1
        /\ row.run < MaxRuns
    BY <1>0, <1>2 DEF StartRun, RowState
  <2>2. NamesAreRuns' /\ WorkerIsLast' /\ ReaderFetches'
    BY <1>0, <1>2, <2>1 DEF StartRun, NamesAreRuns, WorkerIsLast, ReaderFetches, Names, OwnFiles
  <2>3. row.run + 1 \in Names /\ (OwnFiles => ~Exists(row.run + 1))
    <3>1. row.run + 1 \in Names /\ ~(row.run + 1 <= row.run)
      BY <2>1, NextName
    <3> QED
      BY <3>1 DEF NamesAreRuns
  <2>4. ArtifactIsThere' /\ CleanerKnows'
    BY <1>2, <2>1, <2>3 DEF StartRun, ArtifactIsThere, CleanerKnows, OwnFiles, ArtifactName
  <2> QED
    BY <2>2, <2>4
<1>3. CASE Produce
  <2> DEFINE n == worker.run
             m == ArtifactName(n)
  <2>1. m \in Names /\ n = row.run /\ 1 <= n /\ row.status = "running" /\ (OwnFiles => m = n)
    BY <1>3, NamesTyped, StampedName DEF Produce, WorkerIsLast
  <2>2. /\ worker'.pc = "finish" /\ worker'.run = n
        /\ UNCHANGED <<mode, stamped, row, cleaner, reader>>
    BY <1>3 DEF Produce
  <2>3. OwnFiles' = OwnFiles /\ ArtifactName(n)' = m
    BY <2>2 DEF OwnFiles, ArtifactName
  <2>4. WorkerIsLast' /\ ReaderFetches'
    BY <2>1, <2>2 DEF WorkerIsLast, ReaderFetches
  <2>5. CASE /\ mode = "local"
             /\ outputs' = [outputs EXCEPT ![m] = [state |-> "new", run |-> n]]
             /\ objects' = objects
    <3>1. \A k \in Names : k # m => outputs'[k] = outputs[k]
      BY <2>5
    <3>2. /\ outputs'[m].state = "new" /\ outputs'[m].run = n
          /\ OwnFiles => ~Exists(m)
      BY <1>3, <2>1, <2>5 DEF Produce, ArtifactIsThere
    <3>3. NamesAreRuns'
      BY <1>0, <2>1, <2>2, <2>3, <3>1, <3>2 DEF NamesAreRuns
    <3>4. ArtifactIsThere'
      BY <2>1, <2>2, <2>3, <2>5, <3>1, <3>2 DEF ArtifactIsThere
    <3>5. CleanerKnows'
      BY <2>1, <2>2, <2>3, <2>5, <3>1, <3>2 DEF CleanerKnows, CleanerState
    <3> QED
      BY <2>4, <3>3, <3>4, <3>5
  <2>6. CASE /\ mode = "minio"
             /\ objects' = [objects EXCEPT ![m] = n]
             /\ outputs' = outputs
    <3>1. objects'[m] = n /\ ~OwnFiles
      BY <2>1, <2>6 DEF OwnFiles
    <3>2. ArtifactIsThere'
      BY <2>1, <2>2, <2>3, <3>1 DEF ArtifactIsThere
    <3> QED
      BY <2>3, <2>4, <3>1, <3>2 DEF NamesAreRuns, CleanerKnows
  <2> QED
    BY <1>3, <2>5, <2>6 DEF Produce
<1>4. CASE FinishRun
  <2>1. /\ worker.run = row.run /\ 1 <= worker.run /\ ArtifactName(worker.run) \in Names
        /\ OwnFiles => ArtifactName(worker.run) = worker.run
    BY <1>4, NamesTyped, StampedName DEF FinishRun, WorkerIsLast
  <2>2. /\ row'.status = "finished" /\ row'.run = row.run /\ worker'.pc = "idle"
        /\ row'.result = ArtifactName(worker.run) /\ row'.result = ArtifactName(row.run)'
    BY <1>0, <1>4, <2>1 DEF FinishRun, RowState, IdleWorker, ArtifactName
  <2>3. UNCHANGED <<mode, stamped, outputs, objects, cleaner, reader>> /\ OwnFiles' = OwnFiles
    BY <1>4 DEF FinishRun, OwnFiles
  <2>4. NamesAreRuns' /\ WorkerIsLast' /\ ReaderFetches'
    BY <2>2, <2>3 DEF NamesAreRuns, WorkerIsLast, ReaderFetches
  <2>5. ArtifactIsThere' /\ CleanerKnows'
    BY <1>4, <2>1, <2>2, <2>3 DEF FinishRun, ArtifactIsThere, CleanerKnows
  <2> QED
    BY <2>4, <2>5
<1>5. CASE RunFails \/ WorkerDies
  <2>1. /\ worker'.pc = "idle" /\ row'.result = row.result /\ row'.run = row.run
        /\ row'.status \in {row.status, "failed"}
        /\ UNCHANGED <<mode, stamped, outputs, objects, cleaner, reader>>
    BY <1>0, <1>5 DEF RunFails, WorkerDies, RowState, IdleWorker
  <2>2. NamesAreRuns' /\ WorkerIsLast' /\ ReaderFetches'
    BY <2>1 DEF NamesAreRuns, WorkerIsLast, ReaderFetches, OwnFiles
  <2>3. ArtifactIsThere' /\ CleanerKnows'
    BY <2>1 DEF ArtifactIsThere, CleanerKnows, OwnFiles, ArtifactName
  <2> QED
    BY <2>2, <2>3
<1> QED
  BY <1>1, <1>2, <1>3, <1>4, <1>5 DEF WorkerStep

(* Steps of the cleanup, and the passing of time. *)
LEMMA CleanerKeeps ==
    ASSUME Inv, (\E n \in Names : Age(n)) \/ CleanStep \/ CleanDies
    PROVE  NamesAreRuns' /\ WorkerIsLast' /\ ArtifactIsThere' /\ CleanerKnows' /\ ReaderFetches'
<1> USE ResultsAssumption DEF Inv, Typed, TypeOK, Exists, OwnFiles, ArtifactName
<1>1. ASSUME NEW n \in Names, Age(n)
      PROVE  NamesAreRuns' /\ WorkerIsLast' /\ ArtifactIsThere' /\ CleanerKnows' /\ ReaderFetches'
  <2>1. \A m \in Names : outputs'[m].run = outputs[m].run
                           /\ (outputs'[m].state = "none" <=> outputs[m].state = "none")
    BY <1>1 DEF Age, FileState
  <2>2. UNCHANGED <<mode, stamped, row, worker, objects, cleaner, reader>>
        /\ worker.pc = "idle" /\ cleaner.pc = "idle"
    BY <1>1 DEF Age
  <2>3. NamesAreRuns' /\ WorkerIsLast' /\ ReaderFetches'
    BY <2>1, <2>2 DEF NamesAreRuns, WorkerIsLast, ReaderFetches
  <2>4. ArtifactIsThere' /\ CleanerKnows'
    BY <2>1, <2>2 DEF ArtifactIsThere, CleanerKnows, ResultNamed
  <2> QED
    BY <2>3, <2>4
<1>2. CASE UNCHANGED <<mode, stamped, row, worker, outputs, objects, reader>> /\ CleanerKnows'
  BY <1>2 DEF NamesAreRuns, WorkerIsLast, ArtifactIsThere, ReaderFetches
<1>3. CASE CleanStart
  <2>1. CleanerKnows'
    BY <1>3 DEF CleanStart, Referenced, CleanerKnows, CleanerState
  <2> QED
    BY <1>2, <1>3, <2>1 DEF CleanStart
<1>4. ASSUME NEW n \in Names, CleanLook(n)
      PROVE  NamesAreRuns' /\ WorkerIsLast' /\ ArtifactIsThere' /\ CleanerKnows' /\ ReaderFetches'
  <2>1. CleanerKnows'
    BY <1>4 DEF CleanLook, MayRemove, CleanerKnows, CleanerState
  <2> QED
    BY <1>2, <1>4, <2>1 DEF CleanLook
<1>5. CASE CleanUnlink
  <2> DEFINE f == cleaner.file
  <2>1. /\ f \in Names /\ outputs'[f].state = "none"
        /\ \A m \in Names : m # f => outputs'[m] = outputs[m]
        /\ cleaner'.pc = "scan" /\ cleaner'.referenced = cleaner.referenced
        /\ UNCHANGED <<mode, stamped, row, worker, objects, reader>>
    BY <1>5 DEF CleanUnlink, Gone, CleanerState
  <2>2. NamesAreRuns' /\ WorkerIsLast' /\ ReaderFetches'
    BY <2>1 DEF NamesAreRuns, WorkerIsLast, ReaderFetches
  <2>3. CleanerKnows'
    BY <1>5, <2>1 DEF CleanUnlink, CleanerKnows
  <2>4. ASSUME OwnFiles PROVE outputs[f].state = "old" /\ f # row.result
    BY <1>5, <2>1, <2>4 DEF CleanUnlink, CleanerKnows
  <2>5. ArtifactIsThere'
    BY <2>1, <2>4 DEF ArtifactIsThere, ResultNamed, Names
  <2> QED
    BY <2>2, <2>3, <2>5
<1>6. CASE CleanEnd \/ CleanDies
  <2>1. cleaner'.pc = "idle" /\ UNCHANGED <<mode, stamped, row, outputs>>
    BY <1>6 DEF CleanEnd, CleanDies, IdleCleaner
  <2>2. CleanerKnows'
    BY <2>1 DEF CleanerKnows
  <2> QED
    BY <1>2, <1>6, <2>2 DEF CleanEnd, CleanDies
<1> QED
  BY <1>1, <1>3, <1>4, <1>5, <1>6 DEF CleanStep

(* Steps of a reader. *)
LEMMA ReaderKeeps ==
    ASSUME Inv, NEW d \in Readers, OpenResult(d) \/ ReadStep(d) \/ FetchFails(d)
    PROVE  NamesAreRuns' /\ WorkerIsLast' /\ ArtifactIsThere' /\ CleanerKnows' /\ ReaderFetches'
<1> USE ResultsAssumption DEF Inv, Typed, TypeOK
<1>1. CASE UNCHANGED <<mode, stamped, row, worker, outputs, objects, cleaner>> /\ ReaderFetches'
  BY <1>1 DEF NamesAreRuns, WorkerIsLast, ArtifactIsThere, CleanerKnows, OwnFiles, ArtifactName, Exists
<1>2. CASE OpenResult(d)
  <2>1. UNCHANGED <<mode, stamped, row, worker, outputs, objects, cleaner>>
    BY <1>2 DEF OpenResult
  <2>2. ReaderFetches'
    BY <1>2 DEF OpenResult, ReaderFetches
  <2> QED
    BY <1>1, <2>1, <2>2
<1>3. CASE FetchRename(d)
  <2>1. mode = "minio" /\ UNCHANGED <<mode, stamped, row, worker, objects, cleaner>>
    BY <1>3 DEF FetchRename, ReaderFetches
  <2>2. ReaderFetches'
    BY <1>3 DEF FetchRename, EndRead, IdleReader, ReaderFetches, ReaderState
  <2> QED
    BY <2>1, <2>2 DEF NamesAreRuns, WorkerIsLast, ArtifactIsThere, CleanerKnows, OwnFiles, ArtifactName
<1>4. CASE FetchObject(d) \/ FetchFails(d)
  <2>1. UNCHANGED <<mode, stamped, row, worker, outputs, objects, cleaner>>
    BY <1>4 DEF FetchObject, FetchFails
  <2>2. ReaderFetches'
    BY <1>4 DEF FetchObject, FetchFails, EndRead, ReaderFetches, IdleReader, ReaderState
  <2> QED
    BY <1>1, <2>1, <2>2
<1> QED
  BY <1>2, <1>3, <1>4 DEF ReadStep

LEMMA InvStep ==
    ASSUME Inv, [Next]_vars
    PROVE  Inv'
<1>1. Typed'
  BY TypeStep, NamedStep DEF Inv, Typed
<1>2. CASE UNCHANGED vars
  BY <1>1, <1>2 DEF vars, Inv, NamesAreRuns, WorkerIsLast, ArtifactIsThere, CleanerKnows, ReaderFetches,
     Exists, OwnFiles, ArtifactName
<1> QED
  BY <1>1, <1>2, WorkerKeeps, CleanerKeeps, ReaderKeeps DEF Next, Inv

LEMMA InvInit == Init => Inv
BY TypeInit, ResultsAssumption
   DEF Init, Inv, NamesAreRuns, WorkerIsLast, ArtifactIsThere, CleanerKnows, ReaderFetches, Exists,
       Names, Gone, IdleWorker, IdleCleaner, IdleReader

(* No cleanup, however it is interleaved with runs and reruns, takes the result
   of a finished task: a file of a run's own, or an object of either naming. *)
THEOREM ResultsAreKept == Spec => []ResultIsKept
<1>1. Inv => ResultIsKept
  <2> SUFFICES ASSUME Inv, row.status = "finished", stamped \/ mode = "minio"
               PROVE  \/ mode = "local" /\ Exists(row.result) /\ outputs[row.result].run = row.run
                      \/ mode = "minio" /\ objects[row.result] = row.run
    BY DEF ResultIsKept
  <2>1. mode \in {"local", "minio"} /\ row.result \in Names
    BY ResultsAssumption DEF Inv, Typed, TypeOK, ResultNamed
  <2>2. CASE mode = "local"
    <3>1. OwnFiles /\ row.result = row.run
      BY <2>2, StampedName DEF OwnFiles, Inv, ArtifactIsThere
    <3> QED
      BY <2>1, <2>2, <3>1 DEF Inv, ArtifactIsThere, NamesAreRuns
  <2> QED
    BY <2>1, <2>2 DEF Inv, ArtifactIsThere
<1>2. Inv /\ [Next]_vars => Inv'
  BY InvStep
<1> QED
  BY <1>1, <1>2, InvInit, PTL DEF Spec
=============================================================================
