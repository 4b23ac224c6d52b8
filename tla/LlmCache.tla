------------------------------ MODULE LlmCache ------------------------------
(***************************************************************************)
(* The disk cache of structured LLM answers.  One file per question, shared *)
(* by all pipeline processes without a lock: an answer is looked for, asked *)
(* from the model, looked for again and put in place by renaming a          *)
(* temporary file.  The model does not repeat itself, so every call may     *)
(* bring another answer.                                                    *)
(***************************************************************************)
EXTENDS Naturals

CONSTANTS
    Questions,      \* cache keys: model, parameters, prompts and schema
    Answers,        \* what the model may answer
    Threads,        \* threads of the pipeline processes that ask
    Processes,
    ProcOf,         \* [Threads -> Processes]
    Expiring,       \* LLM_CACHE_TTL_DAYS is not zero
    MaxFaults,      \* failing calls, failing writes and damaged files, all together
    NoQuestion, NoAnswer

ASSUME CacheAssumption ==
    /\ ProcOf \in [Threads -> Processes]
    /\ Expiring \in BOOLEAN
    /\ MaxFaults \in Nat
    /\ NoAnswer \notin Answers
    /\ NoQuestion \notin Questions

VARIABLES
    file,       \* the entry of each question
    writable,   \* LLMCache._writable of each process
    thread,
    faults

vars == <<file, writable, thread, faults>>

Entry == [state : {"missing", "damaged", "answer", "expired"}, value : Answers \cup {NoAnswer}]

Missing == [state |-> "missing", value |-> NoAnswer]

Damaged == [state |-> "damaged", value |-> NoAnswer]

Idle == [pc |-> "idle", question |-> NoQuestion, value |-> NoAnswer]

Init ==
    /\ file = [q \in Questions |-> Missing]
    /\ writable = [p \in Processes |-> TRUE]
    /\ thread = [h \in Threads |-> Idle]
    /\ faults = 0
-----------------------------------------------------------------------------
Fails ==
    /\ faults < MaxFaults
    /\ faults' = faults + 1

Return(h) == thread' = [thread EXCEPT ![h] = Idle]

(* LLMCache.get: anything but a readable entry in its time is a miss. *)
Usable(e) == e.state = "answer"

MutHoldsFile(e) == e.state # "missing"

MutHoldsNothing(e) == FALSE

(* LLMCache._holds_answer: the age of the entry does not count. *)
HoldsAnswer(e) == e.state \in {"answer", "expired"}

(* complete_json misses and asks the model.  A hit changes nothing. *)
Miss(h, q) ==
    /\ thread[h].pc = "idle"
    /\ ~Usable(file[q])
    /\ thread' = [thread EXCEPT ![h] = [Idle EXCEPT !.pc = "ask", !.question = q]]
    /\ UNCHANGED <<file, writable, faults>>

Answered(h, a) ==
    /\ thread[h].pc = "ask"
    /\ thread' = [thread EXCEPT ![h].pc = "check", ![h].value = a]
    /\ UNCHANGED <<file, writable, faults>>

(* A failed call raises through, an answer that is no object is returned:
   nothing is stored. *)
Unanswered(h) ==
    /\ thread[h].pc = "ask"
    /\ Fails
    /\ Return(h)
    /\ UNCHANGED <<file, writable>>

(* LLMCache.put gives way to an answer that is there already, and does
   nothing in a process that has failed to write once. *)
Keep(h) ==
    /\ thread[h].pc = "check"
    /\ ~writable[ProcOf[h]] \/ HoldsAnswer(file[thread[h].question])
    /\ Return(h)
    /\ UNCHANGED <<file, writable, faults>>

(* ... and goes on to write otherwise. *)
Proceed(h) ==
    /\ thread[h].pc = "check"
    /\ writable[ProcOf[h]]
    /\ ~HoldsAnswer(file[thread[h].question])
    /\ thread' = [thread EXCEPT ![h].pc = "write"]
    /\ UNCHANGED <<file, writable, faults>>

MutWriteInPlace(h) ==
    /\ thread[h].pc = "write"
    /\ thread' = [thread EXCEPT ![h].pc = "replace"]
    /\ file' = [file EXCEPT ![thread[h].question] = Damaged]
    /\ UNCHANGED <<writable, faults>>

(* The temporary file is written, out of everybody's sight. *)
WriteTemp(h) ==
    /\ thread[h].pc = "write"
    /\ thread' = [thread EXCEPT ![h].pc = "replace"]
    /\ UNCHANGED <<file, writable, faults>>

Replace(h) ==
    /\ thread[h].pc = "replace"
    /\ file' = [file EXCEPT ![thread[h].question] =
                  [state |-> "answer", value |-> thread[h].value]]
    /\ Return(h)
    /\ UNCHANGED <<writable, faults>>

(* The temporary file cannot be written or renamed: this process goes on
   without the cache. *)
WriteFails(h) ==
    /\ thread[h].pc \in {"write", "replace"}
    /\ Fails
    /\ writable' = [writable EXCEPT ![ProcOf[h]] = FALSE]
    /\ Return(h)
    /\ UNCHANGED file

(* A pipeline process ends, or is killed; the next one starts afresh. *)
ProcessEnds(p) ==
    /\ \/ Fails
       \/ ~writable[p] /\ UNCHANGED faults
    /\ writable' = [writable EXCEPT ![p] = TRUE]
    /\ thread' = [h \in Threads |-> IF ProcOf[h] = p THEN Idle ELSE thread[h]]
    /\ UNCHANGED file

(* A file is truncated behind the cache's back (no fsync before the rename). *)
Damage(q) ==
    /\ file[q].state \in {"answer", "expired"}
    /\ Fails
    /\ file' = [file EXCEPT ![q] = Damaged]
    /\ UNCHANGED <<writable, thread>>

Expire(q) ==
    /\ Expiring
    /\ file[q].state = "answer"
    /\ file' = [file EXCEPT ![q].state = "expired"]
    /\ UNCHANGED <<writable, thread, faults>>
-----------------------------------------------------------------------------
Put(h) == Keep(h) \/ Proceed(h) \/ WriteTemp(h) \/ Replace(h)

Next ==
    \/ \E h \in Threads, q \in Questions : Miss(h, q)
    \/ \E h \in Threads : \/ \E a \in Answers : Answered(h, a)
                          \/ Unanswered(h)
                          \/ Put(h)
                          \/ WriteFails(h)
    \/ \E p \in Processes : ProcessEnds(p)
    \/ \E q \in Questions : Damage(q) \/ Expire(q)

Spec == Init /\ [][Next]_vars

(* Every run asks all of its questions, so that one is not kept waiting for
   ever by another; the model answers in the end; and a process that has lost
   the cache ends some day. *)
Fairness ==
    /\ \A q \in Questions : SF_vars(\E h \in Threads : Miss(h, q))
    /\ \A h \in Threads : WF_vars((\E a \in Answers : Answered(h, a)) \/ Put(h))
    /\ \A p \in Processes : WF_vars(~writable[p] /\ ProcessEnds(p))

FairSpec == Spec /\ Fairness
-----------------------------------------------------------------------------
(* The questions with an answer on disk, in its time or not. *)
OnDisk == {q \in Questions : file[q].state \in {"answer", "expired"}}

(* Every variable keeps to its type. *)
TypeOK ==
    /\ file \in [Questions -> Entry]
    /\ writable \in [Processes -> BOOLEAN]
    /\ thread \in [Threads -> [pc : {"idle", "ask", "check", "write", "replace"},
                              question : Questions \cup {NoQuestion},
                              value : Answers \cup {NoAnswer}]]
    /\ faults \in Nat

(* "written atomically so concurrent workers share the directory without
   locking": an answer on disk stays readable while others write theirs, and
   only damage from outside takes it away. *)
AnswerNotLost ==
    [][\A q \in Questions :
          q \in OnDisk => q \in OnDisk' \/ Damage(q)]_vars

(* "answering it again overwrites the damaged file": whatever fails, tears a
   file or dies on the way, every question that is asked again and again has
   a readable answer on disk in the end. *)
CacheHeals == <>[](OnDisk = Questions)

(* "Keep whichever answer landed first so the entry stops moving": workers
   that race for one question may replace each other's answer, but not for
   ever, however often the question is asked again. *)
EntryStopsMoving ==
    \A q \in Questions : <>[][file'[q].value = file[q].value]_vars
=============================================================================
