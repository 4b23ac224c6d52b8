------------------------ MODULE ChildProcess_proofs ------------------------
(***************************************************************************)
(* Theorems about ChildProcess for pipes and tails of any size, children of *)
(* any number of lines and any number of killed workers.                   *)
(***************************************************************************)
EXTENDS ChildProcess, WellFoundedInduction, TLAPS
-----------------------------------------------------------------------------
(* Lines of records, one record after the other.                           *)

Below == {pair \in Nat \X Nat : pair[1] < pair[2]}

LEMMA LeastNumber ==
  ASSUME NEW S, S \subseteq Nat, S # {}
  PROVE  \E least \in S : \A other \in S : least <= other
<1>1. OpToRel(<, Nat) = Below
  BY Zenon DEF OpToRel, Below
<1>2. IsWellFoundedOn(Below, Nat)
  BY <1>1, NatLessThanWellFounded, Zenon
<1>3. \E least \in S : \A other \in S : <<other, least>> \notin Below
  BY <1>2, WFMin, Zenon
<1>4. \A x, y \in S : <<y, x>> \notin Below => x <= y
  BY DEF Below
<1> QED
  BY <1>3, <1>4

LEMMA Induction ==
  ASSUME NEW S, 0 \in S, \A n \in Nat : n \in S => n + 1 \in S
  PROVE  Nat \subseteq S
<1> SUFFICES ASSUME Nat \ S # {} PROVE FALSE
  OBVIOUS
<1>1. PICK n \in Nat \ S : \A other \in Nat \ S : n <= other
  BY LeastNumber
<1>2. n - 1 \in Nat
  BY <1>1
<1>3. n - 1 \in S
  BY <1>1, <1>2
<1>4. (n - 1) + 1 \in S
  BY <1>2, <1>3
<1> QED
  BY <1>1, <1>4

(* What FlattenSeq computes, step by step.                                  *)
Lines(s, n, f) == f = [i \in 1..n |-> IF i = 1 THEN s[i] ELSE f[i - 1] \o s[i]]

LEMMA LineAt ==
  ASSUME NEW s, NEW n, NEW f, Lines(s, n, f), NEW i \in 1..n
  PROVE  f[i] = IF i = 1 THEN s[i] ELSE f[i - 1] \o s[i]
BY DEF Lines

LEMMA LinesExist ==
  ASSUME NEW s, NEW n \in Nat
  PROVE  \E f : Lines(s, n, f)
<1> DEFINE S == {m \in Nat : \E f : Lines(s, m, f)}
<1>1. 0 \in S
  <2>1. Lines(s, 0, [i \in 1..0 |-> 0])
    BY DEF Lines
  <2> QED
    BY <2>1
<1>2. ASSUME NEW m \in Nat, m \in S PROVE m + 1 \in S
  <2>1. PICK f : Lines(s, m, f)
    BY <1>2
  <2> DEFINE g == [i \in 1..(m + 1) |->
                     IF i <= m THEN f[i] ELSE IF i = 1 THEN s[i] ELSE f[i - 1] \o s[i]]
  <2>2. \A i \in 1..m : g[i] = f[i]
    OBVIOUS
  <2>3. \A i \in 1..m : f[i] = IF i = 1 THEN s[i] ELSE f[i - 1] \o s[i]
    BY <2>1 DEF Lines
  <2>4. \A i \in 1..(m + 1) : g[i] = IF i = 1 THEN s[i] ELSE g[i - 1] \o s[i]
    <3>1. TAKE i \in 1..(m + 1)
    <3>2. CASE i <= m
      BY <2>2, <2>3, <3>2
    <3>3. CASE i = m + 1
      BY <2>2, <3>3
    <3> QED
      BY <3>2, <3>3
  <2>5. Lines(s, m + 1, g)
    BY <2>4, Zenon DEF Lines
  <2> QED
    BY <2>5
<1> HIDE DEF S
<1>3. Nat \subseteq S
  BY <1>1, <1>2, Induction
<1> QED
  BY <1>3 DEF S

LEMMA LinesAgree ==
  ASSUME NEW s, NEW t, NEW m \in Nat, NEW n \in Nat, m <= n, NEW f, NEW g,
         Lines(s, m, f), Lines(t, n, g), \A i \in 1..m : s[i] = t[i]
  PROVE  \A i \in 1..m : f[i] = g[i]
<1> DEFINE S == {k \in Nat : k \in 1..m => f[k] = g[k]}
<1>1. 0 \in S
  OBVIOUS
<1>2. ASSUME NEW k \in Nat, k \in S, k + 1 \in 1..m PROVE f[k + 1] = g[k + 1]
  <2>1. /\ f[k + 1] = IF k + 1 = 1 THEN s[k + 1] ELSE f[(k + 1) - 1] \o s[k + 1]
        /\ g[k + 1] = IF k + 1 = 1 THEN t[k + 1] ELSE g[(k + 1) - 1] \o t[k + 1]
    <3>1. k + 1 \in 1..m /\ k + 1 \in 1..n
      BY <1>2
    <3> QED
      BY <3>1, LineAt
  <2>2. CASE k = 0
    BY <1>2, <2>1, <2>2
  <2>3. CASE k # 0
    BY <1>2, <2>1, <2>3
  <2> QED
    BY <2>2, <2>3
<1>3. \A k \in Nat : k \in S => k + 1 \in S
  BY <1>2
<1> HIDE DEF S
<1>4. Nat \subseteq S
  BY <1>1, <1>3, Induction
<1> QED
  BY <1>4 DEF S

LEMMA FlattenIsLines ==
  ASSUME NEW R, NEW s \in Seq(R), s # <<>>
  PROVE  \E f : Lines(s, Len(s), f) /\ FlattenSeq(s) = f[Len(s)]
<1> DEFINE f == CHOOSE f : Lines(s, Len(s), f)
<1>1. Lines(s, Len(s), f)
  <2>1. Len(s) \in Nat
    OBVIOUS
  <2>2. \E g : Lines(s, Len(s), g)
    BY <2>1, LinesExist
  <2> QED
    BY <2>2, Zenon
<1>2. FlattenSeq(s) = f[Len(s)]
  BY DEF FlattenSeq, Lines
<1> QED
  BY <1>1, <1>2

(* A record more, its lines more.                                           *)
LEMMA FlattenMore ==
  ASSUME NEW R, NEW s \in Seq(R), NEW r \in R, s # <<>>
  PROVE  FlattenSeq(Append(s, r)) = FlattenSeq(s) \o r
<1>1. PICK t : t = Append(s, r)
  OBVIOUS
<1>2. PICK n : n = Len(s)
  OBVIOUS
<1>3. /\ t \in Seq(R) /\ t # <<>> /\ Len(t) = n + 1 /\ n \in Nat /\ n \in 1..n
      /\ t[n + 1] = r /\ \A i \in 1..n : s[i] = t[i]
  BY <1>1, <1>2
<1>m. PICK m : m = n + 1
  OBVIOUS
<1>4. PICK g : Lines(t, m, g) /\ FlattenSeq(t) = g[m]
  BY <1>3, <1>m, FlattenIsLines
<1>5. PICK f : Lines(s, n, f) /\ FlattenSeq(s) = f[n]
  BY <1>2, FlattenIsLines
<1>6. \A i \in 1..n : f[i] = g[i]
  <2>1. n <= m /\ m \in Nat
    BY <1>3, <1>m
  <2> QED
    <3>1. Lines(s, n, f) /\ Lines(t, m, g)
      BY <1>4, <1>5
    <3> HIDE DEF Lines
    <3> QED
      BY <1>3, <2>1, <3>1, LinesAgree, SMTT(30)
<1>7. g[m] = g[n] \o r
  <2>1. m \in 1..m /\ m - 1 = n /\ m # 1
    BY <1>3, <1>m
  <2>2. g[m] = IF m = 1 THEN t[m] ELSE g[m - 1] \o t[m]
    <3>1. \A i \in 1..m : g[i] = IF i = 1 THEN t[i] ELSE g[i - 1] \o t[i]
      BY <1>4 DEF Lines
    <3> QED
      BY <2>1, <3>1
  <2> QED
    BY <1>3, <1>m, <2>1, <2>2
<1> QED
  BY <1>1, <1>3, <1>4, <1>5, <1>6, <1>7

LEMMA FlattenNone == FlattenSeq(<<>>) = <<>>
BY DEF FlattenSeq

LEMMA FlattenOne ==
  ASSUME NEW R, NEW r \in R
  PROVE  FlattenSeq(Append(<<>>, r)) = r
<1>1. PICK t : t = Append(<<>>, r)
  OBVIOUS
<1>2. t \in Seq(R) /\ t # <<>> /\ Len(t) = 1 /\ t[1] = r
  BY <1>1
<1>3. PICK g : Lines(t, 1, g) /\ FlattenSeq(t) = g[1]
  BY <1>2, FlattenIsLines
<1>4. g[1] = r
  <2>1. g[1] = IF 1 = 1 THEN t[1] ELSE g[1 - 1] \o t[1]
    BY <1>3, LineAt
  <2> QED
    BY <1>2, <2>1
<1> QED
  BY <1>1, <1>3, <1>4
-----------------------------------------------------------------------------
(* The invariant.                                                          *)

States == {"none", "running", "exited", "killed"}
Stages == {"work", "warned", "writing", "wrote", "header", "cause", "dead"}
Pcs == {"taken", "ready", "reading", "waiting", "killing", "choosing", "choice", "returned",
        "failing", "failed"}

Typed ==
    /\ remote \in BOOLEAN /\ worker \in Pcs /\ scratch \in BOOLEAN
    /\ child \in [state : States, code : {0, 1}, stage : Stages]
    /\ disk \in [of : SUBSET {"own", "orphan"}, newest : {"none", "own", "orphan"}]

(* Where the run is says whether its child has been started or has ended.   *)
NotStarted ==
    /\ child = NoChild /\ written = 0 /\ errTold = <<>>
    /\ out = <<>> /\ err = <<>> /\ queue = <<>> /\ tail = <<>>
    /\ pending = <<>> /\ emitted = <<>> /\ reported = <<>>

Life ==
    /\ worker \in {"taken", "ready"} => NotStarted
    /\ worker \in {"waiting", "choosing", "choice", "returned"} =>
         Gone /\ pending = <<>> /\ queue = <<>> /\ out = <<>>
    /\ worker \in {"failing", "failed"} => ~Alive
    /\ Ended => ~scratch

OutLine == [n : Nat, kind : OutKinds]

Numbered(lines, before) ==
    /\ lines \in Seq(OutLine)
    /\ \A i \in DOMAIN lines : lines[i].n = before + i

Logged == FlattenSeq(emitted)

Held == Len(Logged) + Len(pending)

(* The lines of the log, of the record that is held back, of the queue and of *)
(* the pipe are the lines the child wrote, in order.                         *)
LinesFit(lines) ==
    /\ Numbered(lines, Held) /\ Numbered(out, Held + Len(lines))
    /\ written = Held + Len(lines) + Len(out)
    /\ \/ queue = lines
       \/ queue = Append(lines, Eof) /\ Gone /\ out = <<>>

NothingLost ==
    worker \notin {"killing", "failing", "failed"} =>
        /\ emitted \in Seq(Seq(OutLine)) /\ Numbered(Logged, 0)
        /\ Numbered(pending, Len(Logged))
        /\ \E lines \in Seq(OutLine) : LinesFit(lines)

(* Standard error: the tail and the pipe end with what the child told of its *)
(* failure, as much of it as the tail has room for; before it, warnings.    *)
ErrLines == {"warning", "header", "cause"}

ErrText == tail \o err

EndsWith(text, told) ==
    \A i \in DOMAIN text :
        text[i] = IF Len(text) - i < Len(told) THEN told[Len(told) - (Len(text) - i)]
                  ELSE "warning"

TailFits ==
    /\ tail \in Seq(ErrLines) /\ err \in Seq(ErrLines) /\ errTold \in Seq(ErrLines)
    /\ Len(tail) <= TailLines
    /\ Len(ErrText) >= TailLines \/ Len(ErrText) >= Len(errTold)
    /\ EndsWith(ErrText, errTold)

Told(stage) ==
    CASE stage = "cause" -> <<"header">>
      [] stage = "dead"  -> <<"header", "cause">>
      [] OTHER           -> <<>>

CauseFits ==
    /\ errTold = Told(child.stage)
    /\ child.code = 1 => child.stage = "dead"
    /\ worker \in {"reading", "waiting", "killing"} => reported = <<>>
    /\ worker \in {"choosing", "choice", "returned"} => child.code = 0
    /\ CauseIsReported

ChildInv == Typed /\ Life /\ NothingLost /\ TailFits /\ CauseFits
-----------------------------------------------------------------------------
(* Types, and where the run is.                                            *)

LEMMA InitFits == Init => ChildInv
<1> SUFFICES ASSUME Init PROVE ChildInv
  OBVIOUS
<1>1. Typed /\ Life
  BY DEF Init, Typed, Life, NotStarted, NoChild, NoArtifact, States, Stages, Pcs, Alive, Ended
<1>2. NothingLost
  <2>1. Logged = <<>> /\ Held = 0
    BY FlattenNone DEF Init, Logged, Held
  <2>2. LinesFit(<<>>) /\ Numbered(<<>>, 0)
    BY <2>1 DEF Init, LinesFit, Numbered
  <2>3. emitted = <<>> /\ pending = <<>> /\ <<>> \in Seq(OutLine)
    BY DEF Init
  <2>4. emitted \in Seq(Seq(OutLine)) /\ Len(Logged) = 0
    BY <2>1, <2>3
  <2> QED
    BY <2>1, <2>2, <2>3, <2>4, Zenon DEF NothingLost
<1>3. TailFits
  <2>1. ErrText = <<>> /\ errTold = <<>> /\ tail = <<>> /\ err = <<>>
    BY DEF Init, ErrText
  <2> QED
    BY <2>1, ChildAssumption DEF TailFits, EndsWith
<1>4. CauseFits
  BY DEF Init, CauseFits, NoChild, Told, CauseIsReported
<1> QED
  BY <1>1, <1>2, <1>3, <1>4 DEF ChildInv

LEMMA ChildMoves ==
  ASSUME Typed, Life, ChildStep
  PROVE  /\ Typed' /\ Life'
         /\ Alive /\ worker \in {"reading", "killing"}
         /\ UNCHANGED <<remote, queue, tail, worker, pending, emitted, reported, missed, scratch>>
<1>1. Alive /\ ChildKeeps
  BY DEF ChildStep, WriteLine, Warn, StartArtifact, EndArtifact, Stage, ExitOk, Crash,
         WriteTrace, ExitFailed
<1>2. worker \in {"reading", "killing"}
  BY <1>1 DEF Typed, Life, NotStarted, NoChild, Alive, Gone, Pcs
<1>3. child' \in [state : States, code : {0, 1}, stage : Stages]
  BY DEF ChildStep, WriteLine, Warn, StartArtifact, EndArtifact, Stage, ExitOk, Crash,
         WriteTrace, ExitFailed, ExitWith, Typed, States, Stages
<1>4. disk' \in [of : SUBSET {"own", "orphan"}, newest : {"none", "own", "orphan"}]
  BY DEF ChildStep, WriteLine, Warn, StartArtifact, EndArtifact, Stage, ExitOk, Crash,
         WriteTrace, ExitFailed, Touch, Typed
<1> QED
  BY <1>1, <1>2, <1>3, <1>4 DEF ChildKeeps, Typed, Life, Ended

LEMMA ReadersMove ==
  ASSUME Typed, Life, ReaderStep
  PROVE  /\ Typed' /\ Life'
         /\ worker \notin {"taken", "ready"}
         /\ UNCHANGED <<remote, child, written, errTold, worker, pending, emitted, reported>>
<1>1. ReaderKeeps
  BY DEF ReaderStep, DrainStdout, DrainStderr
<1>2. worker \notin {"taken", "ready"}
  BY DEF ReaderStep, DrainStdout, DrainStderr, DrainsStderr, Life, NotStarted, NoChild
<1>3. worker \in {"waiting", "choosing", "choice", "returned"} => out' = out /\ queue' = queue
  BY DEF ReaderStep, DrainStdout, DrainStderr, Life
<1> QED
  BY <1>1, <1>2, <1>3 DEF ReaderKeeps, Typed, Life, Alive, Gone, Ended

(* The end of the output is read last, and nothing is left in the pipe.      *)
LEMMA EofIsLast ==
  ASSUME Typed, Life, NothingLost, EndOfOutput
  PROVE  queue' = <<>> /\ out' = <<>> /\ Gone /\ LinesFit(<<>>)
<1>1. PICK lines \in Seq(OutLine) : LinesFit(lines)
  BY DEF NothingLost, EndOfOutput, Reading
<1>2. \A i \in DOMAIN lines : lines[i] # Eof
  BY DEF OutLine, Eof, OutKinds
<1>3. queue = Append(lines, Eof) /\ Gone /\ out = <<>>
  BY <1>1, <1>2 DEF LinesFit, EndOfOutput
<1>4. lines = <<>>
  <2>1. Head(Append(lines, Eof)) = Eof
    BY <1>3 DEF EndOfOutput
  <2> QED
    BY <1>2, <2>1
<1>5. Tail(queue) = <<>>
  BY <1>3, <1>4
<1> QED
  BY <1>1, <1>3, <1>4, <1>5 DEF EndOfOutput

LEMMA WorkerMoves ==
  ASSUME Typed, Life, NothingLost, WorkerStep \/ Interrupt
  PROVE  Typed' /\ Life'
<1> USE DEF Typed, Life, WorkerKeeps, Goto, Ended, Pcs
<1>1. CASE Materialise
  BY <1>1 DEF Materialise, NotStarted, NoChild, Alive, pipes
<1>2. CASE Spawn
  BY <1>2 DEF Spawn, NoChild, States, Stages
<1>3. CASE ReadRecord \/ ReadContinuation \/ FlushPending
  BY <1>3 DEF ReadRecord, ReadContinuation, FlushPending, Reading, pipes
<1>4. CASE EndOfOutput
  <2>1. queue' = <<>> /\ out' = <<>> /\ Gone
    BY <1>4, EofIsLast, Zenon
  <2>2. worker' = "waiting" /\ pending' = <<>> /\ UNCHANGED <<child, scratch, remote, disk>>
    BY <1>4 DEF EndOfOutput
  <2> QED
    BY <2>1, <2>2 DEF Gone
<1>5. CASE Interrupt
  BY <1>5 DEF Interrupt, KillChild, Alive, pipes, States
<1>6. CASE EndKilling \/ ChildEnded \/ Choose \/ Return \/ Fail
  BY <1>6 DEF EndKilling, ChildEnded, Choose, Return, Fail, Gone, Alive, pipes, CleanedScratch
<1> QED
  BY <1>1, <1>2, <1>3, <1>4, <1>5, <1>6 DEF WorkerStep

(* A worker that dies takes everything with it but its child's artifact.    *)
LEMMA DeathMoves ==
  ASSUME Typed, WorkerDies
  PROVE  Typed' /\ Life' /\ NotStarted' /\ worker' = "taken"
BY DEF WorkerDies, Goto, Typed, Life, NotStarted, NoChild, States, Stages, Pcs, Ended, Alive

LEMMA OrphanMoves ==
  ASSUME Typed, OrphanStep
  PROVE  /\ Typed'
         /\ UNCHANGED <<remote, child, written, out, err, errTold, queue, tail, worker, pending,
                       emitted, reported, missed, scratch>>
BY DEF OrphanStep, Touch, Typed

LEMMA LifeStep == Typed /\ Life /\ NothingLost /\ [Next]_vars => Typed' /\ Life'
<1> SUFFICES ASSUME Typed, Life, NothingLost, [Next]_vars PROVE Typed' /\ Life'
  OBVIOUS
<1>1. CASE OrphanStep
  BY <1>1, OrphanMoves DEF Life, NotStarted, Gone, Alive, Ended
<1>2. CASE UNCHANGED vars
  BY <1>2 DEF vars, Typed, Life, NotStarted, Gone, Alive, Ended
<1> QED
  BY <1>1, <1>2, ChildMoves, ReadersMove, WorkerMoves, DeathMoves DEF Next
-----------------------------------------------------------------------------
(* The log.                                                                *)

LEMMA NumberedEnd ==
  ASSUME NEW lines, NEW before \in Nat, Numbered(lines, before), NEW line \in OutLine,
         line.n = before + Len(lines) + 1
  PROVE  Numbered(Append(lines, line), before)
BY DEF Numbered

LEMMA NumberedHead ==
  ASSUME NEW lines, NEW before \in Nat, Numbered(lines, before), lines # <<>>
  PROVE  /\ Head(lines) \in OutLine /\ Head(lines).n = before + 1
         /\ Numbered(Tail(lines), before + 1)
         /\ Len(Tail(lines)) = Len(lines) - 1
<1>1. lines \in Seq(OutLine) /\ \A i \in DOMAIN lines : lines[i].n = before + i
  BY DEF Numbered
<1>2. /\ Tail(lines) \in Seq(OutLine) /\ Len(Tail(lines)) = Len(lines) - 1
      /\ \A i \in DOMAIN Tail(lines) : Tail(lines)[i] = lines[i + 1] /\ i + 1 \in DOMAIN lines
      /\ Head(lines) = lines[1] /\ 1 \in DOMAIN lines
  BY <1>1
<1> QED
  BY <1>1, <1>2 DEF Numbered

LEMMA NumberedJoin ==
  ASSUME NEW lines, NEW more, NEW before \in Nat, Numbered(lines, before),
         Numbered(more, before + Len(lines))
  PROVE  Numbered(lines \o more, before)
<1>1. /\ lines \in Seq(OutLine) /\ \A i \in DOMAIN lines : lines[i].n = before + i
      /\ more \in Seq(OutLine)
      /\ \A i \in DOMAIN more : more[i].n = before + Len(lines) + i
  BY DEF Numbered
<1>2. \A i \in DOMAIN (lines \o more) :
        \/ i \in DOMAIN lines /\ (lines \o more)[i] = lines[i]
        \/ i - Len(lines) \in DOMAIN more /\ (lines \o more)[i] = more[i - Len(lines)]
  BY <1>1
<1>3. \A i \in DOMAIN (lines \o more) : (lines \o more)[i].n = before + i
  BY <1>1, <1>2
<1> QED
  BY <1>1, <1>3 DEF Numbered

LEMMA NumberedNone ==
  ASSUME NEW before \in Nat
  PROVE  Numbered(<<>>, before)
BY DEF Numbered

LEMMA NumberedOne ==
  ASSUME NEW before \in Nat, NEW line \in OutLine, line.n = before + 1
  PROVE  Numbered(<<line>>, before)
BY DEF Numbered

(* A log that goes on with a record is a log of its lines.                  *)
LogOf(log, lines) ==
    /\ log \in Seq(Seq(OutLine)) /\ FlattenSeq(log) = lines /\ Numbered(lines, 0)

LEMMA LogGrows ==
  ASSUME NEW log, NEW lines, LogOf(log, lines),
         NEW record, Numbered(record, Len(lines))
  PROVE  LogOf(WithRecord(log, record), lines \o record)
<1>1. record \in Seq(OutLine) /\ lines \in Seq(OutLine) /\ log \in Seq(Seq(OutLine))
  BY DEF LogOf, Numbered
<1>2. Numbered(lines \o record, 0)
  <2>1. Numbered(lines, 0) /\ 0 + Len(lines) = Len(lines)
    BY <1>1 DEF LogOf
  <2> QED
    BY <2>1, NumberedJoin
<1>3. CASE record = <<>>
  BY <1>1, <1>3 DEF LogOf, WithRecord
<1>4. CASE record # <<>>
  <2>1. WithRecord(log, record) = Append(log, record)
    BY <1>4 DEF WithRecord
  <2>2. Append(log, record) \in Seq(Seq(OutLine))
    <3>1. PICK R : R = Seq(OutLine)
      OBVIOUS
    <3>2. log \in Seq(R) /\ record \in R
      BY <1>1, <3>1
    <3>3. Append(log, record) \in Seq(R)
      BY <3>2
    <3> QED
      BY <3>1, <3>3
  <2>3. FlattenSeq(Append(log, record)) = lines \o record
    <3>1. CASE log = <<>>
      <4>1. lines = <<>>
        BY <3>1, FlattenNone DEF LogOf
      <4>2. FlattenSeq(Append(<<>>, record)) = record
        BY <1>1, FlattenOne
      <4> QED
        BY <1>1, <3>1, <4>1, <4>2
    <3>2. CASE log # <<>>
      BY <1>1, <3>2, FlattenMore DEF LogOf
    <3> QED
      BY <3>1, <3>2
  <2> QED
    BY <1>2, <2>1, <2>2, <2>3 DEF LogOf
<1> QED
  BY <1>3, <1>4

LEMMA HeldIsNat ==
  ASSUME NEW lines, LogOf(emitted, Logged), Numbered(pending, Len(Logged)), LinesFit(lines)
  PROVE  /\ Held \in Nat /\ Len(Logged) \in Nat
         /\ lines \in Seq(OutLine) /\ pending \in Seq(OutLine) /\ out \in Seq(OutLine)
BY DEF LogOf, Numbered, Held, LinesFit

LEMMA LostParts ==
  NothingLost <=>
     (worker \notin {"killing", "failing", "failed"} =>
        /\ LogOf(emitted, Logged) /\ Numbered(pending, Len(Logged))
        /\ \E lines : LinesFit(lines))
BY DEF NothingLost, LogOf, LinesFit, Numbered, Logged

LEMMA SameLines ==
  ASSUME NothingLost, UNCHANGED <<emitted, pending, queue, out, written>>, Gone => Gone',
         worker \in {"killing", "failing", "failed"} => worker' \in {"killing", "failing", "failed"}
  PROVE  NothingLost'
<1>1. Logged' = Logged /\ Held' = Held
  BY DEF Logged, Held
<1>2. \A lines : LinesFit(lines) => LinesFit(lines)'
  BY <1>1 DEF LinesFit
<1> QED
  BY <1>1, <1>2 DEF NothingLost

LEMMA WriteKeepsLines ==
  ASSUME NothingLost, WriteLine
  PROVE  NothingLost'
<1>1. UNCHANGED <<emitted, pending, queue, worker>> /\ ~Gone
  BY DEF WriteLine, ChildKeeps, Alive, Gone
<1>2. Logged' = Logged /\ Held' = Held
  BY <1>1 DEF Logged, Held
<1> SUFFICES ASSUME worker \notin {"killing", "failing", "failed"}
             PROVE  \E lines : LinesFit(lines)'
  BY <1>1, <1>2 DEF NothingLost, LinesFit, Numbered
<1>3. PICK lines : LinesFit(lines)
  BY DEF NothingLost
<1>4. /\ Held \in Nat /\ lines \in Seq(OutLine) /\ out \in Seq(OutLine)
      /\ queue = lines /\ written = Held + Len(lines) + Len(out)
      /\ Numbered(lines, Held) /\ Numbered(out, Held + Len(lines))
  BY <1>1, <1>3, HeldIsNat, LostParts DEF LinesFit
<1>5. PICK kind \in OutKinds : out' = Append(out, [n |-> written + 1, kind |-> kind])
  BY DEF WriteLine
<1>6. PICK line : line = [n |-> written + 1, kind |-> kind]
  OBVIOUS
<1>7. line \in OutLine /\ line.n = (Held + Len(lines)) + Len(out) + 1 /\ Held + Len(lines) \in Nat
  BY <1>4, <1>6 DEF OutLine
<1>8. Numbered(out', Held + Len(lines))
  BY <1>4, <1>5, <1>6, <1>7, NumberedEnd
<1>9. Len(out') = Len(out) + 1 /\ written' = written + 1
  BY <1>4, <1>5 DEF WriteLine
<1> QED
  BY <1>1, <1>2, <1>4, <1>8, <1>9 DEF LinesFit

LEMMA DrainKeepsLines ==
  ASSUME Typed, Life, NothingLost, DrainStdout
  PROVE  NothingLost'
<1>1. UNCHANGED <<emitted, pending, written, worker, child>>
  BY DEF DrainStdout, ReaderKeeps
<1>2. Logged' = Logged /\ Held' = Held /\ (Gone' <=> Gone)
  BY <1>1 DEF Logged, Held, Gone
<1> SUFFICES ASSUME worker \notin {"killing", "failing", "failed"}
             PROVE  \E lines : LinesFit(lines)'
  BY <1>1, <1>2 DEF NothingLost, LinesFit, Numbered
<1>3. PICK lines : LinesFit(lines)
  BY DEF NothingLost
<1>4. /\ Held \in Nat /\ lines \in Seq(OutLine) /\ out \in Seq(OutLine)
      /\ written = Held + Len(lines) + Len(out)
      /\ Numbered(lines, Held) /\ Numbered(out, Held + Len(lines))
  BY <1>3, HeldIsNat, LostParts DEF LinesFit
<1>5. CASE out # <<>>
  <2>1. queue = lines /\ queue' = Append(lines, Head(out)) /\ out' = Tail(out)
    BY <1>3, <1>5 DEF LinesFit, DrainStdout
  <2>2. /\ Head(out) \in OutLine /\ Head(out).n = Held + Len(lines) + 1
        /\ Numbered(Tail(out), (Held + Len(lines)) + 1)
        /\ Len(Tail(out)) = Len(out) - 1
    <3>1. Held + Len(lines) \in Nat
      BY <1>4
    <3> QED
      BY <1>4, <1>5, <3>1, NumberedHead
  <2>3. Numbered(queue', Held)
    BY <1>4, <2>1, <2>2, NumberedEnd
  <2>4. PICK now : now = queue'
    OBVIOUS
  <2>5. Len(now) = Len(lines) + 1
    BY <1>4, <2>1, <2>4
  <2>6. (Held + Len(lines)) + 1 = Held + Len(now)
    BY <1>4, <2>5
  <2>7. written = Held + Len(now) + Len(Tail(out))
    BY <1>4, <1>5, <2>2, <2>5
  <2>8. LinesFit(now)'
    BY <1>1, <1>2, <2>1, <2>2, <2>3, <2>4, <2>6, <2>7 DEF LinesFit
  <2> QED
    BY <2>8
<1>6. CASE out = <<>>
  <2>1. Gone /\ ~Contains(queue, Eof) /\ queue' = Append(queue, Eof) /\ out' = <<>>
    BY <1>6 DEF DrainStdout
  <2>2. queue = lines
    <3>1. Contains(Append(lines, Eof), Eof)
      BY <1>4 DEF Contains
    <3> QED
      BY <1>3, <2>1, <3>1 DEF LinesFit
  <2>3. LinesFit(lines)'
    BY <1>1, <1>2, <1>4, <1>6, <2>1, <2>2 DEF LinesFit
  <2> QED
    BY <2>3
<1> QED
  BY <1>5, <1>6

(* The next line of the queue is the next one of the child.                  *)
LEMMA NextLine ==
  ASSUME NEW lines, LinesFit(lines), Held \in Nat, lines \in Seq(OutLine),
         queue # <<>>, Head(queue).kind \in OutKinds
  PROVE  /\ Head(queue) \in OutLine /\ Head(queue).n = Held + 1
         /\ Numbered(Tail(lines), Held + 1) /\ Len(Tail(lines)) = Len(lines) - 1
         /\ \/ Tail(queue) = Tail(lines)
            \/ Tail(queue) = Append(Tail(lines), Eof) /\ Gone /\ out = <<>>
<1>1. lines # <<>>
  BY DEF LinesFit, Eof, OutKinds
<1>2. /\ Head(queue) = Head(lines)
      /\ \/ Tail(queue) = Tail(lines)
         \/ Tail(queue) = Append(Tail(lines), Eof) /\ Gone /\ out = <<>>
  <2>1. Head(Append(lines, Eof)) = Head(lines) /\ Tail(Append(lines, Eof)) = Append(Tail(lines), Eof)
    BY <1>1
  <2>2. queue = lines \/ (queue = Append(lines, Eof) /\ Gone /\ out = <<>>)
    BY DEF LinesFit
  <2> QED
    BY <2>1, <2>2
<1> QED
  BY <1>1, <1>2, NumberedHead DEF LinesFit

LEMMA ReadKeepsLines ==
  ASSUME NEW lines, LinesFit(lines), Held \in Nat, lines \in Seq(OutLine), out \in Seq(OutLine),
         queue # <<>>, Head(queue).kind \in OutKinds, queue' = Tail(queue),
         UNCHANGED <<out, written, child>>,
         NEW log, LogOf(emitted', log), Numbered(pending', Len(log)),
         Len(log) + Len(pending') = Held + 1
  PROVE  NothingLost'
<1>1. Logged' = log
  BY DEF Logged, LogOf
<1>2. Held' = Held + 1
  BY <1>1 DEF Held
<1>r. PICK rest : rest = Tail(lines)
  OBVIOUS
<1>l. Len(rest) = Len(lines) - 1 /\ Numbered(rest, Held + 1)
  BY <1>r, NextLine
<1>3. LinesFit(rest)'
  <2>1. (Held + 1) + Len(rest) = Held + Len(lines)
    BY <1>l
  <2>2. written = (Held + 1) + Len(rest) + Len(out)
    BY <2>1 DEF LinesFit
  <2>3. Numbered(out, (Held + 1) + Len(rest))
    BY <2>1 DEF LinesFit
  <2>4. queue' = rest \/ (queue' = Append(rest, Eof) /\ Gone' /\ out' = <<>>)
    BY <1>r, NextLine DEF Gone
  <2> QED
    BY <1>2, <1>l, <2>2, <2>3, <2>4 DEF LinesFit
<1> QED
  BY <1>1, <1>3, LostParts DEF NothingLost, LogOf, LinesFit, Numbered

(* The main thread moves lines from the queue to its record and to the log.  *)
LEMMA ReadingKeepsLines ==
  ASSUME Typed, NothingLost, ReadRecord \/ ReadContinuation
  PROVE  NothingLost'
<1>1. /\ worker = "reading" /\ queue # <<>> /\ Head(queue).kind \in OutKinds
      /\ queue' = Tail(queue) /\ UNCHANGED <<out, written, child>>
  BY DEF ReadRecord, ReadContinuation, Reading, WorkerKeeps, OutKinds
<1>2. LogOf(emitted, Logged) /\ Numbered(pending, Len(Logged)) /\ \E lines : LinesFit(lines)
  BY <1>1, LostParts
<1>3. PICK lines : LinesFit(lines)
  BY <1>2
<1>4. /\ Held \in Nat /\ Len(Logged) \in Nat
      /\ lines \in Seq(OutLine) /\ pending \in Seq(OutLine) /\ out \in Seq(OutLine)
  BY <1>2, <1>3, HeldIsNat
<1>5. PICK next : next = Head(queue)
  OBVIOUS
<1>6. next \in OutLine /\ next.n = Held + 1
  BY <1>1, <1>3, <1>4, <1>5, NextLine
<1>7. Logged \in Seq(OutLine) /\ Held = Len(Logged) + Len(pending)
  BY <1>2 DEF LogOf, Numbered, Held
<1>8. PICK log : log = Logged \o pending
  OBVIOUS
<1>9. LogOf(WithRecord(emitted, pending), log) /\ Len(log) = Held
  BY <1>2, <1>4, <1>7, <1>8, LogGrows
<1>10. Numbered(<<next>>, Len(log)) /\ Len(<<next>>) = 1
  BY <1>4, <1>6, <1>9, NumberedOne
<1>11. CASE ReadRecord
  <2>1. emitted' = WithRecord(emitted, pending) /\ pending' = <<next>>
    BY <1>5, <1>11 DEF ReadRecord, Emit
  <2> QED
    BY <1>1, <1>3, <1>4, <1>9, <1>10, <2>1, ReadKeepsLines
<1>12. CASE ReadContinuation /\ Attaches(Head(queue))
  <2>1. UNCHANGED emitted /\ pending' = Append(pending, next)
    BY <1>5, <1>12 DEF ReadContinuation
  <2>2. Numbered(pending', Len(Logged))
    BY <1>2, <1>4, <1>6, <1>7, <2>1, NumberedEnd
  <2>3. Len(pending') = Len(pending) + 1
    BY <1>4, <2>1
  <2>4. LogOf(emitted', Logged) /\ Len(Logged) + Len(pending') = Held + 1
    BY <1>2, <1>4, <1>7, <2>1, <2>3
  <2> QED
    BY <1>1, <1>3, <1>4, <2>2, <2>4, ReadKeepsLines
<1>13. CASE ReadContinuation /\ ~Attaches(Head(queue))
  <2>1. emitted' = Append(WithRecord(emitted, pending), <<next>>) /\ pending' = <<>>
    BY <1>5, <1>13 DEF ReadContinuation
  <2>2. emitted' = WithRecord(WithRecord(emitted, pending), <<next>>)
    BY <2>1 DEF WithRecord
  <2>3. PICK more : more = log \o <<next>>
    OBVIOUS
  <2>4. LogOf(emitted', more)
    BY <1>9, <1>10, <2>2, <2>3, LogGrows
  <2>5. Len(more) = Held + 1 /\ Len(more) \in Nat
    BY <1>4, <1>6, <1>7, <1>8, <1>9, <2>3
  <2>6. Numbered(pending', Len(more)) /\ Len(more) + Len(pending') = Held + 1
    BY <1>4, <2>1, <2>5, NumberedNone
  <2> QED
    BY <1>1, <1>3, <1>4, <2>4, <2>6, ReadKeepsLines
<1> QED
  BY <1>11, <1>12, <1>13

LEMMA EmittingKeepsLines ==
  ASSUME Typed, Life, NothingLost, FlushPending \/ EndOfOutput
  PROVE  NothingLost'
<1>1. /\ worker = "reading" /\ emitted' = WithRecord(emitted, pending) /\ pending' = <<>>
      /\ UNCHANGED <<out, written, child>>
  BY DEF FlushPending, EndOfOutput, LastRecord, Emit, Reading, WorkerKeeps, pipes
<1>2. LogOf(emitted, Logged) /\ Numbered(pending, Len(Logged)) /\ \E lines : LinesFit(lines)
  BY <1>1, LostParts
<1>3. PICK lines : /\ LinesFit(lines)
                   /\ queue' = lines \/ (queue' = Append(lines, Eof) /\ Gone /\ out = <<>>)
  <2>1. CASE FlushPending
    BY <1>2, <2>1 DEF FlushPending, pipes, LinesFit
  <2>2. CASE EndOfOutput
    BY <2>2, EofIsLast
  <2> QED
    BY <2>1, <2>2
<1>4. /\ Held \in Nat /\ Len(Logged) \in Nat
      /\ lines \in Seq(OutLine) /\ pending \in Seq(OutLine) /\ out \in Seq(OutLine)
  BY <1>2, <1>3, HeldIsNat
<1>5. PICK log : log = Logged \o pending
  OBVIOUS
<1>6. LogOf(emitted', log)
  BY <1>1, <1>2, <1>5, LogGrows
<1>7. Logged \in Seq(OutLine) /\ Len(log) = Held
  BY <1>2, <1>4, <1>5 DEF LogOf, Numbered, Held
<1>8. Logged' = log /\ Held' = Held
  BY <1>1, <1>4, <1>6, <1>7 DEF Logged, LogOf, Held
<1>9. LinesFit(lines)'
  BY <1>1, <1>3, <1>8 DEF LinesFit, Gone
<1>10. Numbered(pending', Len(log))
  BY <1>1, <1>4, <1>7, NumberedNone
<1> QED
  BY <1>6, <1>8, <1>9, <1>10 DEF NothingLost, LogOf, LinesFit, Numbered

LEMMA LogStep == Typed /\ Life /\ NothingLost /\ [Next]_vars => NothingLost'
<1> SUFFICES ASSUME Typed, Life, NothingLost, [Next]_vars PROVE NothingLost'
  OBVIOUS
<1>1. CASE ChildStep
  <2>1. CASE WriteLine
    BY <2>1, WriteKeepsLines
  <2>2. CASE ~WriteLine
    <3>1. UNCHANGED <<out, written>>
      BY <1>1, <2>2 DEF ChildStep, Warn, StartArtifact, EndArtifact, Stage, ExitOk, Crash,
         WriteTrace, ExitFailed
    <3>2. UNCHANGED <<emitted, pending, queue, worker>> /\ ~Gone
      BY <1>1, ChildMoves DEF Alive, Gone
    <3> QED
      BY <3>1, <3>2, SameLines
  <2> QED
    BY <2>1, <2>2
<1>2. CASE DrainStdout
  BY <1>2, DrainKeepsLines
<1>3. CASE DrainStderr
  <2>1. UNCHANGED <<emitted, pending, queue, out, written, worker, child>>
    BY <1>3 DEF DrainStderr, ReaderKeeps
  <2> QED
    BY <2>1, SameLines DEF Gone
<1>4. CASE ReadRecord \/ ReadContinuation
  BY <1>4, ReadingKeepsLines
<1>5. CASE FlushPending \/ EndOfOutput
  BY <1>5, EmittingKeepsLines
<1>6. CASE Materialise \/ Spawn \/ Interrupt \/ EndKilling \/ ChildEnded \/ Choose \/ Return \/ Fail
  <2>1. UNCHANGED <<emitted, pending, queue, out, written>>
    BY <1>6 DEF Materialise, Spawn, Interrupt, EndKilling, ChildEnded, Choose, Return, Fail,
                WorkerKeeps, pipes
  <2>2. Gone => Gone'
    BY <1>6 DEF Materialise, Spawn, Interrupt, KillChild, EndKilling, ChildEnded, Choose, Return,
                Fail, Gone, Alive, Life, NotStarted, NoChild
  <2>3. worker \in {"killing", "failing", "failed"} => worker' \in {"killing", "failing", "failed"}
    BY <1>6 DEF Materialise, Spawn, Interrupt, EndKilling, ChildEnded, Choose, Return, Fail, Goto
  <2> QED
    BY <2>1, <2>2, <2>3, SameLines
<1>7. CASE WorkerDies
  <2>1. NotStarted'
    BY <1>7, DeathMoves
  <2>2. Logged' = <<>> /\ Held' = 0
    BY <2>1, FlattenNone DEF NotStarted, Logged, Held
  <2>3. LinesFit(<<>>)' /\ Numbered(<<>>, 0)
    BY <2>1, <2>2, NumberedNone DEF NotStarted, LinesFit
  <2>4. <<>> \in Seq(OutLine) /\ emitted' \in Seq(Seq(OutLine))
    BY <2>1 DEF NotStarted
  <2>5. Numbered(pending', Len(Logged'))
    BY <2>1, <2>2, <2>3 DEF NotStarted
  <2> QED
    BY <2>2, <2>3, <2>4, <2>5 DEF NothingLost
<1>8. CASE OrphanStep
  BY <1>8, OrphanMoves, SameLines DEF Gone
<1>9. CASE UNCHANGED vars
  BY <1>9, SameLines DEF vars, Gone
<1> QED
  BY <1>1, <1>2, <1>3, <1>4, <1>5, <1>6, <1>7, <1>8, <1>9 DEF Next, ReaderStep, WorkerStep

LEMMA WholeLog == Life /\ NothingLost => LogIsWhole
<1> SUFFICES ASSUME Life, NothingLost, worker \in {"choosing", "choice", "returned"}
             PROVE  /\ Len(Logged) = written
                    /\ \A i \in DOMAIN Logged : Logged[i].n = i
  BY DEF LogIsWhole, Logged
<1>1. LogOf(emitted, Logged) /\ Numbered(pending, Len(Logged)) /\ \E lines : LinesFit(lines)
  BY LostParts
<1>2. PICK lines : LinesFit(lines)
  BY <1>1
<1>3. Len(Logged) \in Nat /\ lines \in Seq(OutLine) /\ Logged \in Seq(OutLine)
  BY <1>1, <1>2, HeldIsNat DEF LogOf, Numbered
<1>4. lines = <<>> /\ pending = <<>> /\ out = <<>>
  <2>1. queue = <<>> /\ pending = <<>> /\ out = <<>>
    BY DEF Life
  <2> QED
    BY <1>2, <1>3, <2>1 DEF LinesFit
<1>5. Len(Logged) = written
  BY <1>2, <1>3, <1>4 DEF LinesFit, Held
<1>6. \A i \in DOMAIN Logged : Logged[i].n = i
  BY <1>1, <1>3 DEF LogOf, Numbered
<1> QED
  BY <1>5, <1>6
-----------------------------------------------------------------------------
(* Standard error.                                                         *)

LEMMA EndsMore ==
  ASSUME NEW text \in Seq(ErrLines), NEW told \in Seq(ErrLines), NEW line \in ErrLines,
         EndsWith(text, told)
  PROVE  EndsWith(Append(text, line), Append(told, line))
<1>1. /\ Len(Append(text, line)) = Len(text) + 1 /\ Len(Append(told, line)) = Len(told) + 1
      /\ Len(text) \in Nat /\ Len(told) \in Nat
  OBVIOUS
<1>2. ASSUME NEW i \in DOMAIN Append(text, line)
      PROVE  Append(text, line)[i] =
               IF Len(text) + 1 - i < Len(told) + 1
               THEN Append(told, line)[Len(told) + 1 - (Len(text) + 1 - i)] ELSE "warning"
  <2>1. CASE i = Len(text) + 1
    BY <1>1, <2>1
  <2>2. CASE i \in DOMAIN text
    <3>1. Append(text, line)[i] = text[i]
      BY <2>2
    <3>2. CASE Len(text) - i < Len(told)
      <4>1. Len(told) - (Len(text) - i) \in DOMAIN told
        BY <1>1, <2>2, <3>2
      <4>2. Append(told, line)[Len(told) - (Len(text) - i)] = told[Len(told) - (Len(text) - i)]
        BY <4>1
      <4>3. text[i] = told[Len(told) - (Len(text) - i)]
        BY <2>2, <3>2 DEF EndsWith
      <4>4. /\ Len(text) + 1 - i < Len(told) + 1
            /\ Len(told) + 1 - (Len(text) + 1 - i) = Len(told) - (Len(text) - i)
        BY <1>1, <2>2, <3>2
      <4> QED
        BY <3>1, <4>2, <4>3, <4>4
    <3>3. CASE ~(Len(text) - i < Len(told))
      <4>1. text[i] = "warning"
        BY <2>2, <3>3 DEF EndsWith
      <4>2. ~(Len(text) + 1 - i < Len(told) + 1)
        BY <1>1, <2>2, <3>3
      <4> QED
        BY <3>1, <4>1, <4>2
    <3> QED
      BY <3>2, <3>3
  <2> QED
    BY <1>1, <2>1, <2>2
<1>3. PICK more : more = Append(text, line)
  OBVIOUS
<1>4. PICK heard : heard = Append(told, line)
  OBVIOUS
<1>5. Len(more) = Len(text) + 1 /\ Len(heard) = Len(told) + 1
  BY <1>1, <1>3, <1>4
<1>6. \A i \in DOMAIN more :
        more[i] = IF Len(more) - i < Len(heard) THEN heard[Len(heard) - (Len(more) - i)]
                  ELSE "warning"
  <2> SUFFICES ASSUME NEW i \in DOMAIN more
               PROVE  more[i] = IF Len(more) - i < Len(heard)
                                THEN heard[Len(heard) - (Len(more) - i)] ELSE "warning"
    OBVIOUS
  <2>1. more[i] = IF Len(text) + 1 - i < Len(told) + 1
                  THEN heard[Len(told) + 1 - (Len(text) + 1 - i)] ELSE "warning"
    BY <1>2, <1>3, <1>4
  <2> QED
    BY <1>5, <2>1
<1>7. EndsWith(more, heard)
  BY <1>6 DEF EndsWith
<1> QED
  BY <1>3, <1>4, <1>7

LEMMA EndsWarned ==
  ASSUME NEW text \in Seq(ErrLines), EndsWith(text, <<>>)
  PROVE  EndsWith(Append(text, "warning"), <<>>)
BY DEF EndsWith

LEMMA EndsTail ==
  ASSUME NEW text \in Seq(ErrLines), NEW told \in Seq(ErrLines), text # <<>>,
         EndsWith(text, told)
  PROVE  EndsWith(Tail(text), told)
<1>1. /\ Len(Tail(text)) = Len(text) - 1 /\ Len(text) \in Nat
      /\ \A i \in DOMAIN Tail(text) : Tail(text)[i] = text[i + 1] /\ i + 1 \in DOMAIN text
  OBVIOUS
<1>2. \A i \in DOMAIN Tail(text) : Len(Tail(text)) - i = Len(text) - (i + 1)
  BY <1>1
<1> QED
  BY <1>1, <1>2 DEF EndsWith

(* A bounded queue that takes one element gives up its oldest if it is full. *)
LEMMA BoundedTakes ==
  ASSUME NEW kept \in Seq(ErrLines), NEW line \in ErrLines, Len(kept) <= TailLines
  PROVE  /\ Bounded(Append(kept, line)) \in Seq(ErrLines)
         /\ Len(Bounded(Append(kept, line))) <= TailLines
         /\ Bounded(Append(kept, line)) = IF Len(kept) < TailLines THEN Append(kept, line)
                                          ELSE Tail(Append(kept, line))
<1>1. PICK lines : lines = Append(kept, line)
  OBVIOUS
<1>2. lines \in Seq(ErrLines) /\ Len(lines) = Len(kept) + 1 /\ Len(kept) \in Nat /\ TailLines \in Nat
  BY <1>1, ChildAssumption
<1>3. CASE Len(kept) < TailLines
  BY <1>1, <1>2, <1>3 DEF Bounded
<1>4. CASE Len(kept) = TailLines
  <2>1. Bounded(lines) = SubSeq(lines, 2, Len(lines))
    BY <1>2, <1>4 DEF Bounded
  <2>2. SubSeq(lines, 2, Len(lines)) = Tail(lines)
    BY <1>2
  <2> QED
    BY <1>1, <1>2, <1>4, <2>1, <2>2
<1> QED
  BY <1>2, <1>3, <1>4

LEMMA DrainKeepsTail ==
  ASSUME TailFits, DrainStderr
  PROVE  TailFits'
<1>1. /\ tail \in Seq(ErrLines) /\ err \in Seq(ErrLines) /\ errTold \in Seq(ErrLines)
      /\ err # <<>> /\ Len(tail) <= TailLines /\ TailLines \in Nat
      /\ EndsWith(ErrText, errTold)
  BY ChildAssumption DEF TailFits, DrainStderr, DrainsStderr
<1>2. Head(err) \in ErrLines /\ Tail(err) \in Seq(ErrLines)
  BY <1>1
<1>3. tail' = Bounded(Append(tail, Head(err))) /\ err' = Tail(err) /\ UNCHANGED errTold
  BY DEF DrainStderr, ReaderKeeps
<1>4. Append(tail, Head(err)) \o Tail(err) = ErrText /\ ErrText \in Seq(ErrLines)
  BY <1>1, <1>2 DEF ErrText
<1>5. CASE Len(tail) < TailLines
  <2>1. tail' = Append(tail, Head(err))
    BY <1>1, <1>2, <1>3, <1>5, BoundedTakes
  <2>2. ErrText' = ErrText
    BY <1>3, <1>4, <2>1 DEF ErrText
  <2>3. Len(tail') <= TailLines
    BY <1>1, <1>2, <1>5, <2>1
  <2>4. tail' \in Seq(ErrLines)
    BY <1>1, <1>2, <2>1
  <2> QED
    BY <1>2, <1>3, <2>2, <2>3, <2>4 DEF TailFits
<1>6. CASE Len(tail) = TailLines
  <2>1. tail' = Tail(Append(tail, Head(err))) /\ tail' \in Seq(ErrLines) /\ Len(tail') <= TailLines
    <3>1. ~(Len(tail) < TailLines)
      BY <1>1, <1>6
    <3> QED
      BY <1>1, <1>2, <1>3, <3>1, BoundedTakes
  <2>2. PICK more : more = Append(tail, Head(err))
    OBVIOUS
  <2>3. more \in Seq(ErrLines) /\ more # <<>> /\ Len(more) = TailLines + 1
    BY <1>1, <1>2, <1>6, <2>2
  <2>4. Tail(more) \o Tail(err) = Tail(more \o Tail(err))
    BY <1>2, <2>3
  <2>5. ErrText' = Tail(ErrText) /\ ErrText # <<>>
    <3>1. ErrText' = tail' \o err'
      BY DEF ErrText
    <3>2. ErrText' = Tail(more) \o Tail(err) /\ more \o Tail(err) = ErrText
      BY <1>3, <1>4, <2>1, <2>2, <3>1
    <3>3. more \o Tail(err) # <<>>
      BY <1>2, <2>3
    <3> QED
      BY <2>4, <3>2, <3>3
  <2>6. EndsWith(ErrText', errTold)
    BY <1>1, <1>4, <2>5, EndsTail
  <2>7. Len(ErrText') >= TailLines
    <3>1. Len(Tail(more)) = TailLines
      BY <1>1, <2>3
    <3>2. Len(Tail(more) \o Tail(err)) >= TailLines
      BY <1>1, <1>2, <2>3, <3>1
    <3> QED
      BY <1>3, <2>1, <2>2, <3>2 DEF ErrText
  <2> QED
    BY <1>1, <1>2, <1>3, <2>1, <2>6, <2>7 DEF TailFits
<1> QED
  BY <1>1, <1>5, <1>6

(* What the child writes of its failure it has told.                        *)
LEMMA WriteKeepsTail ==
  ASSUME TailFits, NEW line \in ErrLines, err' = Append(err, line), UNCHANGED tail,
         \/ errTold' = Append(errTold, line)
         \/ line = "warning" /\ errTold = <<>> /\ UNCHANGED errTold
  PROVE  TailFits'
<1>1. /\ tail \in Seq(ErrLines) /\ err \in Seq(ErrLines) /\ errTold \in Seq(ErrLines)
      /\ ErrText \in Seq(ErrLines) /\ EndsWith(ErrText, errTold) /\ TailLines \in Nat
  BY ChildAssumption DEF TailFits, ErrText
<1>2. ErrText' = Append(ErrText, line)
  BY <1>1 DEF ErrText
<1>3. EndsWith(ErrText', errTold')
  BY <1>1, <1>2, EndsMore, EndsWarned
<1>4. err' \in Seq(ErrLines) /\ errTold' \in Seq(ErrLines)
  <2>1. Append(err, line) \in Seq(ErrLines) /\ Append(errTold, line) \in Seq(ErrLines)
    BY <1>1
  <2> QED
    BY <1>1, <2>1
<1>5. Len(ErrText') = Len(ErrText) + 1 /\ Len(errTold') <= Len(errTold) + 1
  BY <1>1, <1>2
<1>6. Len(ErrText') >= TailLines \/ Len(ErrText') >= Len(errTold')
  BY <1>1, <1>4, <1>5 DEF TailFits
<1> QED
  BY <1>1, <1>3, <1>4, <1>6 DEF TailFits

LEMMA FromLastHeader ==
  ASSUME NEW lines \in Seq(ErrLines), EndsWith(lines, <<"header", "cause">>), Len(lines) >= 2
  PROVE  FromHeader(lines) = <<"header", "cause">>
<1> DEFINE I == {i \in 1..Len(lines) : lines[i] = "header"}
           last == Len(lines) - 1
<1>1. Len(lines) \in Nat /\ last \in 1..Len(lines)
  OBVIOUS
<1>2. /\ lines[Len(lines)] = "cause" /\ lines[last] = "header"
      /\ \A i \in 1..Len(lines) : i < last => lines[i] = "warning"
  <2>1. \A i \in 1..Len(lines) :
          lines[i] = IF Len(lines) - i < 2 THEN <<"header", "cause">>[2 - (Len(lines) - i)]
                     ELSE "warning"
    <3>1. PICK told : told = <<"header", "cause">>
      OBVIOUS
    <3>2. Len(told) = 2 /\ DOMAIN lines = 1..Len(lines)
      BY <3>1
    <3>3. EndsWith(lines, told)
      BY <3>1
    <3>4. \A i \in 1..Len(lines) :
            lines[i] = IF Len(lines) - i < 2 THEN told[2 - (Len(lines) - i)] ELSE "warning"
      BY <3>2, <3>3 DEF EndsWith
    <3> QED
      BY <3>1, <3>4
  <2> QED
    BY <1>1, <2>1
<1>3. I = {last}
  BY <1>1, <1>2
<1>4. Max(I) = last
  BY <1>1, <1>3 DEF Max
<1>5. Contains(lines, "header") /\ SelectLastInSeq(lines, LAMBDA l : l = "header") = last
  BY <1>1, <1>2, <1>3, <1>4 DEF Contains, SelectLastInSeq
<1>6. SubSeq(lines, last, Len(lines)) = <<"header", "cause">>
  <2>1. PICK cut : cut = SubSeq(lines, last, Len(lines))
    OBVIOUS
  <2>2. cut \in Seq(ErrLines) /\ Len(cut) = 2
    BY <1>1, <2>1
  <2>3. cut[1] = lines[last] /\ cut[2] = lines[Len(lines)]
    BY <1>1, <2>1
  <2>4. cut = <<cut[1], cut[2]>>
    BY <2>2
  <2> QED
    BY <1>2, <2>1, <2>3, <2>4
<1> QED
  BY <1>5, <1>6 DEF FromHeader

(* What is left of the tail when the readers are joined names the cause.     *)
LEMMA TailNamesCause ==
  ASSUME TailFits, err = <<>>, errTold = <<"header", "cause">>
  PROVE  FromHeader(tail) = IF TailLines >= 2 THEN errTold ELSE <<"cause">>
<1>1. /\ tail \in Seq(ErrLines) /\ EndsWith(tail, <<"header", "cause">>) /\ Len(errTold) = 2
      /\ Len(tail) <= TailLines /\ Len(tail) \in Nat /\ TailLines \in Nat \ {0}
      /\ Len(tail) >= TailLines \/ Len(tail) >= 2
  BY ChildAssumption DEF TailFits, ErrText
<1>2. CASE TailLines >= 2
  BY <1>1, <1>2, FromLastHeader
<1>3. CASE TailLines = 1
  <2>1. Len(tail) = 1
    <3>1. \A k \in Nat : k <= 1 /\ (k >= 1 \/ k >= 2) => k = 1
      OBVIOUS
    <3> QED
      BY <1>1, <1>3, <3>1
  <2>2. tail[1] = "cause"
    BY <1>1, <2>1 DEF EndsWith
  <2>3. tail = <<"cause">>
    BY <1>1, <2>1, <2>2
  <2>4. ~Contains(tail, "header")
    BY <2>1, <2>2 DEF Contains
  <2> QED
    BY <1>3, <2>3, <2>4 DEF FromHeader
<1> QED
  BY <1>1, <1>2, <1>3

LEMMA SameTail ==
  ASSUME TailFits, UNCHANGED <<tail, err, errTold>>
  PROVE  TailFits'
BY DEF TailFits, ErrText

LEMMA ChildKeepsCause ==
  ASSUME Typed, Life, TailFits, CauseFits, ChildStep
  PROVE  TailFits' /\ CauseFits'
<1>1. /\ Alive /\ worker \in {"reading", "killing"}
      /\ UNCHANGED <<tail, worker, reported, missed>>
  BY ChildMoves
<1>2. child.code = 0 \/ child.stage = "dead"
  BY DEF CauseFits, Typed
<1>3. CASE WriteLine \/ StartArtifact \/ EndArtifact \/ ExitOk \/ Crash \/ ExitFailed
  <2>1. UNCHANGED <<err, errTold>>
    BY <1>3 DEF WriteLine, StartArtifact, EndArtifact, ExitOk, Crash, ExitFailed
  <2>2. Told(child'.stage) = Told(child.stage) /\ (child'.code = 1 => child'.stage = "dead")
    BY <1>2, <1>3 DEF WriteLine, StartArtifact, EndArtifact, ExitOk, Crash, ExitFailed, ExitWith,
       Stage, Told, CauseFits, Typed
  <2> QED
    BY <1>1, <2>1, <2>2, SameTail DEF CauseFits, CauseIsReported
<1>4. CASE Warn
  <2>1. child.stage = "work" /\ child'.stage = "warned" /\ child'.code = child.code
    BY <1>4 DEF Warn, Typed
  <2>2. err' = Append(err, "warning") /\ UNCHANGED errTold /\ errTold = <<>>
    BY <1>4, <2>1 DEF Warn, CauseFits, Told
  <2>3. TailFits'
    BY <1>1, <2>2, WriteKeepsTail DEF ErrLines
  <2> QED
    BY <1>1, <1>2, <2>1, <2>2, <2>3 DEF CauseFits, CauseIsReported, Told
<1>5. ASSUME NEW what, NEW next, <<what, next>> \in {<<"header", "cause">>, <<"cause", "dead">>},
             WriteTrace(what, next)
      PROVE  TailFits' /\ CauseFits'
  <2>1. child.stage = what /\ child'.stage = next /\ child'.code = child.code
    BY <1>5 DEF WriteTrace, Stage, Typed
  <2>2. err' = Append(err, what) /\ errTold' = Append(errTold, what)
    BY <1>5 DEF WriteTrace
  <2>3. errTold' = Told(next)
    BY <1>5, <2>1, <2>2 DEF CauseFits, Told
  <2>4. TailFits'
    BY <1>1, <1>5, <2>2, WriteKeepsTail DEF ErrLines
  <2>5. child'.code = 0
    BY <1>2, <1>5, <2>1
  <2> QED
    BY <1>1, <2>1, <2>3, <2>4, <2>5 DEF CauseFits, CauseIsReported
<1> QED
  BY <1>3, <1>4, <1>5 DEF ChildStep

LEMMA EndKeepsCause ==
  ASSUME Typed, Life, TailFits, CauseFits, ChildEnded
  PROVE  CauseFits'
<1>1. /\ worker = "waiting" /\ Gone /\ missed' = (err # <<>>) /\ UNCHANGED <<child, errTold>>
      /\ reported' = IF child.code = 0 THEN <<>> ELSE FromHeader(tail)
      /\ worker' = IF child.code = 0 THEN "choosing" ELSE "failing"
  BY DEF ChildEnded, Goto
<1>2. CASE child.code = 1
  <2>1. errTold = <<"header", "cause">>
    BY <1>2 DEF CauseFits, Told
  <2>2. err = <<>> => reported' = IF TailLines >= 2 THEN errTold ELSE <<"cause">>
    BY <1>1, <1>2, <2>1, TailNamesCause
  <2> QED
    BY <1>1, <1>2, <2>2 DEF CauseFits, CauseIsReported
<1>3. CASE child.code = 0
  BY <1>1, <1>3 DEF CauseFits, CauseIsReported
<1> QED
  BY <1>2, <1>3 DEF Typed

LEMMA CauseStep ==
  Typed /\ Life /\ TailFits /\ CauseFits /\ [Next]_vars => TailFits' /\ CauseFits'
<1> SUFFICES ASSUME Typed, Life, TailFits, CauseFits, [Next]_vars PROVE TailFits' /\ CauseFits'
  OBVIOUS
<1>1. CASE ChildStep
  BY <1>1, ChildKeepsCause
<1>2. CASE DrainStdout
  <2>1. UNCHANGED <<tail, err, errTold, child, worker, reported, missed>>
    BY <1>2 DEF DrainStdout, ReaderKeeps
  <2> QED
    BY <2>1, SameTail DEF CauseFits, CauseIsReported
<1>3. CASE DrainStderr
  <2>1. UNCHANGED <<errTold, child, worker, reported, missed>>
    BY <1>3 DEF DrainStderr, ReaderKeeps
  <2> QED
    BY <1>3, <2>1, DrainKeepsTail DEF CauseFits, CauseIsReported
<1>4. CASE WorkerStep \/ Interrupt
  <2>1. UNCHANGED <<tail, err, errTold>>
    BY <1>4 DEF WorkerStep, Materialise, Spawn, ReadRecord, ReadContinuation, FlushPending,
       EndOfOutput, Interrupt, EndKilling, ChildEnded, Choose, Return, Fail, WorkerKeeps, pipes
  <2>2. TailFits'
    BY <2>1, SameTail
  <2>3. CASE Spawn
    BY <2>1, <2>2, <2>3 DEF Spawn, Goto, Life, NotStarted, NoChild, CauseFits, CauseIsReported
  <2>4. CASE Materialise
    BY <2>1, <2>2, <2>4 DEF Materialise, Goto, Life, NotStarted, NoChild, CauseFits, CauseIsReported
  <2>5. CASE ReadRecord \/ ReadContinuation \/ FlushPending \/ EndOfOutput
    BY <2>1, <2>2, <2>5 DEF ReadRecord, ReadContinuation, FlushPending, EndOfOutput, Reading, Goto, CauseFits,
       CauseIsReported
  <2>6. CASE Interrupt
    BY <2>1, <2>2, <2>6 DEF Interrupt, KillChild, Goto, CauseFits, CauseIsReported, Typed
  <2>7. CASE ChildEnded
    BY <2>2, <2>7, EndKeepsCause
  <2>8. CASE EndKilling \/ Choose \/ Return \/ Fail
    BY <2>1, <2>2, <2>8 DEF EndKilling, Choose, Return, Fail, Goto, WorkerKeeps, CauseFits, CauseIsReported
  <2> QED
    BY <1>4, <2>2, <2>3, <2>4, <2>5, <2>6, <2>7, <2>8 DEF WorkerStep
<1>5. CASE WorkerDies
  <2>1. NotStarted' /\ worker' = "taken"
    BY <1>5, DeathMoves
  <2>2. TailFits'
    <3>1. ErrText' = <<>> /\ tail' = <<>> /\ err' = <<>> /\ errTold' = <<>>
      BY <2>1 DEF NotStarted, ErrText
    <3> QED
      BY <3>1, ChildAssumption DEF TailFits, EndsWith
  <2> QED
    BY <2>1, <2>2 DEF NotStarted, NoChild, CauseFits, CauseIsReported, Told
<1>6. CASE OrphanStep
  BY <1>6, OrphanMoves, SameTail DEF CauseFits, CauseIsReported
<1>7. CASE UNCHANGED vars
  BY <1>7, SameTail DEF vars, CauseFits, CauseIsReported
<1> QED
  BY <1>1, <1>2, <1>3, <1>4, <1>5, <1>6, <1>7 DEF Next, ReaderStep
LEMMA InvStep == ChildInv /\ [Next]_vars => ChildInv'
BY LifeStep, LogStep, CauseStep DEF ChildInv

(* The log of a run that came to its end holds every line the child wrote,    *)
(* once and in order, however the readers, the flush of the held-back record  *)
(* and the end of the child fall.                                            *)
THEOREM LogsAreWhole == Spec => []LogIsWhole
<1>1. ChildInv => LogIsWhole
  BY WholeLog DEF ChildInv
<1> QED
  BY <1>1, InitFits, InvStep, PTL DEF Spec

(* The error of a failed run names the cause, for every length of the tail.   *)
THEOREM CausesAreReported == Spec => []CauseIsReported
<1>1. ChildInv => CauseIsReported
  BY DEF ChildInv, CauseFits
<1> QED
  BY <1>1, InitFits, InvStep, PTL DEF Spec

(* A run that ended left neither its child nor its scratch directory behind.  *)
THEOREM NothingIsLeft == Spec => []NothingLeft
<1>1. ChildInv => NothingLeft
  BY DEF ChildInv, Life, NothingLeft, Ended, Alive, Gone
<1> QED
  BY <1>1, InitFits, InvStep, PTL DEF Spec
=============================================================================
