---------------------------- MODULE ChildProcess ----------------------------
(***************************************************************************)
(* A run of the pipeline in a process of its own                            *)
(* (service/infrastructure/runners/pipeline_runner.py).  The child writes   *)
(* log lines to its standard output, warnings and a last traceback to its   *)
(* standard error, and an artifact.  Two threads of the worker drain the    *)
(* pipes; its main thread groups the lines into log records, waits for the  *)
(* child, and takes the newest artifact it finds.  With an object storage   *)
(* the run has a scratch directory for its inputs and outputs.              *)
(*                                                                         *)
(* A worker that is killed leaves its child running, and the redelivered    *)
(* task starts another.  Of a line only its place and kind are kept.        *)
(***************************************************************************)
EXTENDS Integers, Sequences, FiniteSets, SequencesExt

CONSTANTS MaxLines, PipeSize, TailLines, MaxDeaths

ASSUME ChildAssumption ==
    /\ {MaxLines, MaxDeaths} \subseteq Nat
    /\ {PipeSize, TailLines} \subseteq Nat \ {0}

VARIABLES
    remote,   \* an object storage is configured
    child,    \* the process: its state, exit code and stage
    written,  \* lines it wrote to standard output so far
    out, err, \* the two pipes
    errTold,  \* what it wrote to standard error of its failure
    queue,    \* stdout_lines; Eof ends it
    tail,     \* stderr_lines
    worker,   \* pc of the run
    pending,  \* lines of the record that is held back
    emitted,  \* records that went to the log
    reported, \* what the run says of a failed child
    missed,   \* it was told before all of standard error was read
    disk,     \* whose artifacts there are, and who wrote one last
    scratch,  \* there is a scratch directory of the run
    orphan,   \* the child of a worker that was killed
    deaths    \* killed workers so far, for the bound

vars == <<remote, child, written, out, err, errTold, queue, tail, worker, pending, emitted,
          reported, missed, disk, scratch, orphan, deaths>>

pipes == <<out, err, queue, tail>>

OutKinds == {"record", "indent", "trace", "other"}

Eof == [n |-> 0, kind |-> "eof"]

NoChild == [state |-> "none", code |-> 0, stage |-> "work"]

NoArtifact == [of |-> {}, newest |-> "none"]
-----------------------------------------------------------------------------
(* The child. *)

Alive == child.state = "running"

ChildKeeps == UNCHANGED <<remote, queue, tail, worker, pending, emitted, reported, missed,
                          scratch, orphan, deaths>>

(* A write blocks while the pipe is full. *)
Room(pipe) == Len(pipe) < PipeSize

WriteLine ==
    /\ Alive /\ child.stage = "work" /\ written < MaxLines /\ Room(out)
    /\ \E kind \in OutKinds : out' = Append(out, [n |-> written + 1, kind |-> kind])
    /\ written' = written + 1
    /\ UNCHANGED <<child, err, errTold, disk>> /\ ChildKeeps

(* Progress bars, which the reader drops, and warnings. *)
Warn ==
    /\ Alive /\ child.stage = "work" /\ Room(err)
    /\ err' = Append(err, "warning")
    /\ child' = [child EXCEPT !.stage = "warned"]
    /\ UNCHANGED <<written, out, errTold, disk>> /\ ChildKeeps

Stage(from, to) == Alive /\ child.stage \in from /\ child' = [child EXCEPT !.stage = to]

(* An artifact is written, and written again to add the overlap report.      *)
Touch(by) == disk' = [of |-> disk.of \cup {by}, newest |-> by]

StartArtifact ==
    /\ Stage({"work", "warned"}, "writing")
    /\ Touch("own")
    /\ UNCHANGED <<written, out, err, errTold>> /\ ChildKeeps

EndArtifact ==
    /\ Stage({"writing"}, "wrote")
    /\ Touch("own")
    /\ UNCHANGED <<written, out, err, errTold>> /\ ChildKeeps

ExitWith(code) == child' = [child EXCEPT !.state = "exited", !.code = code]

ExitOk ==
    /\ Alive /\ child.stage = "wrote" /\ ExitWith(0)
    /\ UNCHANGED <<written, out, err, errTold, disk>> /\ ChildKeeps

(* An exception ends the child at any stage: header and cause go to standard *)
(* error first.                                                             *)
Crash ==
    /\ Stage({"work", "warned", "writing", "wrote"}, "header")
    /\ UNCHANGED <<written, out, err, errTold, disk>> /\ ChildKeeps

WriteTrace(what, next) ==
    /\ Stage({what}, next) /\ Room(err)
    /\ err' = Append(err, what)
    /\ errTold' = Append(errTold, what)
    /\ UNCHANGED <<written, out, disk>> /\ ChildKeeps

ExitFailed ==
    /\ Alive /\ child.stage = "dead" /\ ExitWith(1)
    /\ UNCHANGED <<written, out, err, errTold, disk>> /\ ChildKeeps

ChildStep ==
    \/ WriteLine \/ Warn \/ StartArtifact \/ EndArtifact \/ ExitOk \/ Crash \/ ExitFailed
    \/ WriteTrace("header", "cause") \/ WriteTrace("cause", "dead")
-----------------------------------------------------------------------------
(* The reader threads. *)

ReaderKeeps == UNCHANGED <<remote, child, written, errTold, worker, pending, emitted, reported,
                           missed, disk, scratch, orphan, deaths>>

Gone == child.state \in {"exited", "killed"}

DrainStdout ==
    /\ child.state # "none"
    /\ \/ /\ out # <<>>
          /\ queue' = Append(queue, Head(out))
          /\ out' = Tail(out)
       \/ /\ out = <<>> /\ Gone /\ ~Contains(queue, Eof) /\ worker \in {"reading", "killing"}
          /\ queue' = Append(queue, Eof)
          /\ UNCHANGED out
    /\ UNCHANGED <<err, tail>> /\ ReaderKeeps

MutNeverDrains == FALSE

DrainsStderr == err # <<>>

MutKeepsFirst(lines) == IF Len(lines) > TailLines THEN SubSeq(lines, 1, TailLines) ELSE lines

(* deque(maxlen=...) *)
Bounded(lines) ==
    IF Len(lines) > TailLines THEN SubSeq(lines, Len(lines) - TailLines + 1, Len(lines)) ELSE lines

DrainStderr ==
    /\ DrainsStderr
    /\ tail' = Bounded(Append(tail, Head(err)))
    /\ err' = Tail(err)
    /\ UNCHANGED <<out, queue>> /\ ReaderKeeps

ReaderStep == DrainStdout \/ DrainStderr

WorkerKeeps == UNCHANGED <<remote, written, errTold, missed, disk, orphan, deaths>>

Goto(pc) == worker' = pc

(* StorageAwarePipelineRunner: a scratch directory and the downloaded inputs. *)
Materialise ==
    /\ worker = "taken"
    /\ scratch' = remote
    /\ \/ Goto("ready")
       \/ remote /\ Goto("failing")
    /\ UNCHANGED <<child, pipes, pending, emitted, reported>> /\ WorkerKeeps

Spawn ==
    /\ worker = "ready"
    /\ child' = [NoChild EXCEPT !.state = "running"]
    /\ Goto("reading")
    /\ UNCHANGED <<pipes, pending, emitted, reported, scratch>> /\ WorkerKeeps

(* A record goes to the log if there is one. *)
WithRecord(log, record) == IF record = <<>> THEN log ELSE Append(log, record)

Emit(record) == emitted' = WithRecord(emitted, record)

(* _PipelineRecord.add_line *)
Attaches(line) ==
    /\ pending # <<>>
    /\ \/ line.kind \in {"trace", "indent"}
       \/ \E i \in DOMAIN pending : pending[i].kind = "trace"

Reading == worker = "reading"

ReadRecord ==
    /\ Reading /\ queue # <<>> /\ Head(queue).kind = "record"
    /\ Emit(pending)
    /\ pending' = <<Head(queue)>>
    /\ queue' = Tail(queue)
    /\ UNCHANGED <<out, err, tail, child, worker, reported, scratch>> /\ WorkerKeeps

ReadContinuation ==
    /\ Reading /\ queue # <<>> /\ Head(queue).kind \in OutKinds \ {"record"}
    /\ IF Attaches(Head(queue))
       THEN pending' = Append(pending, Head(queue)) /\ UNCHANGED emitted
       ELSE pending' = <<>> /\ emitted' = Append(WithRecord(emitted, pending), <<Head(queue)>>)
    /\ queue' = Tail(queue)
    /\ UNCHANGED <<out, err, tail, child, worker, reported, scratch>> /\ WorkerKeeps

(* Nothing came for half a second. *)
FlushPending ==
    /\ Reading /\ queue = <<>> /\ pending # <<>>
    /\ Emit(pending)
    /\ pending' = <<>>
    /\ UNCHANGED <<pipes, child, worker, reported, scratch>> /\ WorkerKeeps

MutDropsLast == <<>>

LastRecord == pending

EndOfOutput ==
    /\ Reading /\ queue # <<>> /\ Head(queue) = Eof
    /\ Emit(LastRecord)
    /\ pending' = <<>>
    /\ queue' = Tail(queue)
    /\ Goto("waiting")
    /\ UNCHANGED <<out, err, tail, child, reported, scratch>> /\ WorkerKeeps

KillChild == child' = IF Alive THEN [child EXCEPT !.state = "killed"] ELSE child

(* A time limit or the shutdown of the worker raises in the main thread. *)
Interrupt ==
    /\ worker \in {"reading", "waiting"}
    /\ KillChild
    /\ Goto("killing")
    /\ UNCHANGED <<pipes, pending, emitted, reported, scratch>> /\ WorkerKeeps

EndKilling ==
    /\ worker = "killing" /\ Gone
    /\ Goto("failing")
    /\ UNCHANGED <<child, pipes, pending, emitted, reported, scratch>> /\ WorkerKeeps

(* From the last traceback header on. *)
FromHeader(lines) ==
    IF Contains(lines, "header")
    THEN SubSeq(lines, SelectLastInSeq(lines, LAMBDA l : l = "header"), Len(lines))
    ELSE lines

(* proc.wait, and the readers are joined, for five seconds at most: the thread
   that reads standard error may not have come to its end by then. *)
ChildEnded ==
    /\ worker = "waiting" /\ Gone
    /\ missed' = (err # <<>>)
    /\ reported' = IF child.code = 0 THEN <<>> ELSE FromHeader(tail)
    /\ Goto(IF child.code = 0 THEN "choosing" ELSE "failing")
    /\ UNCHANGED <<remote, child, written, errTold, pipes, pending, emitted, disk, scratch,
                   orphan, deaths>>

(* The outputs a run looks at: those of its scratch directory, or the shared *)
(* directory, where a child without a worker may be writing too.             *)
Outputs == IF remote THEN disk.of \cap {"own"} ELSE disk.of

(* _build_output_glob: the newest artifact of the task. *)
Choose ==
    /\ worker = "choosing"
    /\ \/ Outputs = {} /\ Goto("failing") /\ UNCHANGED reported
       \/ \E by \in Outputs : /\ disk.newest \in Outputs => by = disk.newest
                              /\ reported' = <<by>>
                              /\ Goto("choice")
    /\ UNCHANGED <<child, pipes, pending, emitted, scratch>> /\ WorkerKeeps

(* The upload, which may fail, and the end of the scratch directory. *)
Return ==
    /\ worker = "choice"
    /\ scratch' = FALSE
    /\ \/ Goto("returned")
       \/ remote /\ Goto("failed")
    /\ UNCHANGED <<child, pipes, pending, emitted, reported>> /\ WorkerKeeps

MutKeepsScratch == scratch

CleanedScratch == FALSE

Fail ==
    /\ worker = "failing"
    /\ scratch' = CleanedScratch
    /\ Goto("failed")
    /\ UNCHANGED <<child, pipes, pending, emitted, reported>> /\ WorkerKeeps

WorkerStep ==
    \/ Materialise \/ Spawn \/ ReadRecord \/ ReadContinuation \/ FlushPending \/ EndOfOutput
    \/ EndKilling \/ ChildEnded \/ Choose \/ Return \/ Fail

(* The worker is killed: its child goes on, and the task is delivered again. *)
WorkerDies ==
    /\ worker = "reading" /\ Alive /\ deaths < MaxDeaths
    /\ deaths' = deaths + 1
    /\ orphan' = "running"
    /\ disk' = IF disk.of = {} THEN disk ELSE [of |-> {"orphan"}, newest |-> "orphan"]
    /\ child' = NoChild /\ written' = 0 /\ errTold' = <<>>
    /\ out' = <<>> /\ err' = <<>> /\ queue' = <<>> /\ tail' = <<>>
    /\ Goto("taken") /\ pending' = <<>> /\ emitted' = <<>> /\ reported' = <<>>
    /\ scratch' = FALSE /\ missed' = FALSE
    /\ UNCHANGED remote

(* Nobody reads the pipes of an orphan any more: it goes on to write its     *)
(* artifact, or it ends.                                                     *)
OrphanStep ==
    /\ orphan = "running"
    /\ \/ Touch("orphan") /\ UNCHANGED orphan
       \/ orphan' = "gone" /\ UNCHANGED disk
    /\ UNCHANGED <<remote, child, written, out, err, errTold, queue, tail, worker, pending,
                   emitted, reported, missed, scratch, deaths>>

Init ==
    /\ remote \in BOOLEAN
    /\ child = NoChild /\ written = 0 /\ errTold = <<>>
    /\ out = <<>> /\ err = <<>> /\ queue = <<>> /\ tail = <<>>
    /\ worker = "taken" /\ pending = <<>> /\ emitted = <<>> /\ reported = <<>>
    /\ missed = FALSE
    /\ disk = NoArtifact /\ scratch = FALSE /\ orphan = "none" /\ deaths = 0

Next == ChildStep \/ ReaderStep \/ WorkerStep \/ Interrupt \/ WorkerDies \/ OrphanStep

(* The system runs the child and the threads. *)
Fairness ==
    /\ WF_vars(ChildStep) /\ WF_vars(DrainStdout) /\ WF_vars(DrainStderr) /\ WF_vars(WorkerStep)

Spec == Init /\ [][Next]_vars /\ Fairness
-----------------------------------------------------------------------------
Ended == worker \in {"returned", "failed"}

(* The log of a run that came to its end holds every line the child wrote,    *)
(* once and in order, whenever the held-back record was flushed              *)
(* (_run_pipeline_process, its timeout and the flush after the loop).         *)
LogIsWhole ==
    worker \in {"choosing", "choice", "returned"} =>
        LET lines == FlattenSeq(emitted) IN
        /\ Len(lines) = written
        /\ \A i \in DOMAIN lines : lines[i].n = i

(* The task's error names the cause: what a failed child wrote last is in the *)
(* tail, and so is the header of its traceback where the tail is long enough  *)
(* (the readers are joined before stderr_lines is read).  A run whose join gave *)
(* up on the reader is excepted: it tells what was read by then.             *)
CauseIsReported ==
    worker \in {"failing", "failed"} /\ child.state = "exited" /\ child.code = 1
    /\ reported # <<>> /\ ~missed =>
        reported = IF TailLines >= 2 THEN errTold ELSE <<"cause">>

(* "never leave the child running on its own": a run that ended, interrupted  *)
(* or not, left no child and no scratch directory behind.                     *)
NothingLeft == Ended => ~Alive /\ ~scratch

(* A run ends: neither pipe fills up for good.                                *)
RunEnds == <>Ended
=============================================================================
