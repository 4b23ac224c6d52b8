--------------------------- MODULE LlmCache_proofs ---------------------------
(***************************************************************************)
(* Theorems about the cache of answers, for any number of questions,        *)
(* answers, threads, processes and faults.  That the cache heals and that   *)
(* its entries come to rest is fairness, and stays with TLC.                *)
(***************************************************************************)
EXTENDS LlmCache, TLAPS

States == {"missing", "damaged", "answer", "expired"}

Places == {"idle", "ask", "check", "write", "replace"}

Slot == [pc : Places, question : Questions \cup {NoQuestion}, value : Answers \cup {NoAnswer}]

(* A thread that has asked holds a question, and one that was answered holds  *)
(* what the model said; what is on disk was said by the model.                *)
WholeThread(s) ==
    /\ s.pc # "idle" => s.question \in Questions
    /\ s.pc \in {"check", "write", "replace"} => s.value \in Answers

WholeAnswers ==
    /\ \A h \in Threads : WholeThread(thread[h])
    /\ \A q \in OnDisk : file[q].value \in Answers

CacheInv == TypeOK /\ WholeAnswers

LEMMA TypeParts ==
  TypeOK <=> /\ file \in [Questions -> Entry]
             /\ writable \in [Processes -> BOOLEAN]
             /\ thread \in [Threads -> Slot]
             /\ faults \in Nat
BY DEF TypeOK, Slot, Places

LEMMA IdleSlot == Idle \in Slot /\ WholeThread(Idle)
BY DEF Idle, Slot, Places, WholeThread

(* A step that leaves the files alone and moves one thread. *)
LEMMA OneThread ==
  ASSUME CacheInv, NEW h \in Threads, NEW s \in Slot, WholeThread(s),
         thread' = [thread EXCEPT ![h] = s], file' = file,
         writable' \in [Processes -> BOOLEAN], faults' \in Nat
  PROVE  CacheInv'
<1>1. thread' \in [Threads -> Slot] /\ \A g \in Threads : WholeThread(thread'[g])
  BY TypeParts DEF CacheInv, WholeAnswers
<1>2. TypeOK'
  BY <1>1, TypeParts DEF CacheInv, TypeOK, Slot, Places
<1> QED
  BY <1>1, <1>2 DEF CacheInv, WholeAnswers, OnDisk

(* A step that leaves the threads alone and touches one file. *)
LEMMA OneFile ==
  ASSUME CacheInv, NEW q \in Questions, NEW entry \in Entry,
         entry.state \in {"answer", "expired"} => entry.value \in Answers,
         file' = [file EXCEPT ![q] = entry], writable' = writable, faults' \in Nat,
         thread' \in [Threads -> Slot], \A h \in Threads : WholeThread(thread'[h])
  PROVE  CacheInv'
<1>1. file' \in [Questions -> Entry]
  BY DEF CacheInv, TypeOK
<1>2. \A r \in OnDisk' : file'[r].value \in Answers
  <2>1. ASSUME NEW r \in OnDisk' PROVE file'[r].value \in Answers
    <3>1. r \in Questions /\ file'[r].state \in {"answer", "expired"}
      BY DEF OnDisk
    <3>2. CASE r = q
      BY <3>1, <3>2 DEF CacheInv, TypeOK
    <3>3. CASE r # q
      BY <3>1, <3>3 DEF CacheInv, TypeOK, WholeAnswers, OnDisk
    <3> QED
      BY <3>2, <3>3
  <2> QED
    BY <2>1
<1>3. TypeOK'
  BY <1>1 DEF CacheInv, TypeOK, Slot, Places
<1> QED
  BY <1>2, <1>3 DEF CacheInv, WholeAnswers

LEMMA CacheInvInit == Init => CacheInv
<1> SUFFICES ASSUME Init PROVE CacheInv
  OBVIOUS
<1>1. Missing \in Entry /\ Missing.state = "missing"
  BY DEF Missing, Entry
<1>2. \A q \in Questions : file[q] = Missing
  BY DEF Init
<1>3. OnDisk = {}
  BY <1>1, <1>2 DEF OnDisk
<1>4. TypeOK
  BY <1>1, IdleSlot, TypeParts DEF Init
<1>5. \A h \in Threads : WholeThread(thread[h])
  BY IdleSlot DEF Init
<1> QED
  BY <1>3, <1>4, <1>5 DEF CacheInv, WholeAnswers

LEMMA CacheInvStep == CacheInv /\ [Next]_vars => CacheInv'
<1> SUFFICES ASSUME CacheInv, [Next]_vars PROVE CacheInv'
  OBVIOUS
<1>1. /\ file \in [Questions -> Entry] /\ writable \in [Processes -> BOOLEAN]
      /\ thread \in [Threads -> Slot] /\ faults \in Nat
      /\ \A h \in Threads : WholeThread(thread[h])
  BY TypeParts DEF CacheInv, WholeAnswers
<1>2. ASSUME NEW h \in Threads, NEW q \in Questions, Miss(h, q) PROVE CacheInv'
  <2>1. PICK s : s = [Idle EXCEPT !.pc = "ask", !.question = q]
    OBVIOUS
  <2>2. s \in Slot /\ WholeThread(s)
    BY <2>1 DEF Idle, Slot, Places, WholeThread
  <2> QED
    BY <1>1, <1>2, <2>1, <2>2, OneThread DEF Miss
<1>3. ASSUME NEW h \in Threads, NEW a \in Answers, Answered(h, a) PROVE CacheInv'
  <2>1. PICK s : s = [thread[h] EXCEPT !.pc = "check", !.value = a]
    OBVIOUS
  <2>2. s \in Slot /\ WholeThread(s)
    BY <1>1, <1>3, <2>1 DEF Answered, Slot, Places, WholeThread
  <2>3. thread' = [thread EXCEPT ![h] = s]
    BY <1>1, <1>3, <2>1 DEF Answered
  <2> QED
    BY <1>1, <1>3, <2>2, <2>3, OneThread DEF Answered
<1>4. ASSUME NEW h \in Threads, Unanswered(h) PROVE CacheInv'
  <2>1. thread' = [thread EXCEPT ![h] = Idle] /\ file' = file /\ writable' = writable
        /\ faults' \in Nat
    BY <1>1, <1>4 DEF Unanswered, Return, Fails
  <2> QED
    BY <1>1, <2>1, IdleSlot, OneThread
<1>5. ASSUME NEW h \in Threads, Keep(h) PROVE CacheInv'
  BY <1>1, <1>5, IdleSlot, OneThread DEF Keep, Return
<1>6. ASSUME NEW h \in Threads, NEW pc \in {"write", "replace"},
             thread[h].pc \in {"check", "write"},
             thread' = [thread EXCEPT ![h].pc = pc], UNCHANGED <<file, writable, faults>>
      PROVE  CacheInv'
  <2>1. PICK s : s = [thread[h] EXCEPT !.pc = pc]
    OBVIOUS
  <2>2. s \in Slot /\ WholeThread(s)
    BY <1>1, <1>6, <2>1 DEF Slot, Places, WholeThread
  <2>3. thread' = [thread EXCEPT ![h] = s]
    BY <1>1, <1>6, <2>1
  <2> QED
    BY <1>1, <1>6, <2>2, <2>3, OneThread
<1>7. ASSUME NEW h \in Threads, Proceed(h) \/ WriteTemp(h) PROVE CacheInv'
  BY <1>6, <1>7 DEF Proceed, WriteTemp
<1>8. ASSUME NEW h \in Threads, Replace(h) PROVE CacheInv'
  <2>1. thread[h].question \in Questions /\ thread[h].value \in Answers
    BY <1>1, <1>8 DEF Replace, WholeThread
  <2>2. PICK entry : entry = [state |-> "answer", value |-> thread[h].value]
    OBVIOUS
  <2>3. entry \in Entry /\ entry.value \in Answers
    BY <2>1, <2>2 DEF Entry
  <2>4. thread' \in [Threads -> Slot] /\ \A g \in Threads : WholeThread(thread'[g])
    BY <1>1, <1>8, IdleSlot DEF Replace, Return
  <2>5. file' = [file EXCEPT ![thread[h].question] = entry] /\ writable' = writable
        /\ faults' = faults
    BY <1>8, <2>2 DEF Replace
  <2> QED
    BY <1>1, <2>1, <2>3, <2>4, <2>5, OneFile
<1>9. ASSUME NEW h \in Threads, WriteFails(h) PROVE CacheInv'
  <2>1. thread' = [thread EXCEPT ![h] = Idle] /\ file' = file /\ faults' \in Nat
    BY <1>1, <1>9 DEF WriteFails, Return, Fails
  <2>2. writable' = [writable EXCEPT ![ProcOf[h]] = FALSE]
    BY <1>9 DEF WriteFails
  <2>3. writable' \in [Processes -> BOOLEAN]
    BY <1>1, <2>2
  <2> QED
    BY <1>1, <2>1, <2>3, IdleSlot, OneThread
<1>10. ASSUME NEW p \in Processes, ProcessEnds(p) PROVE CacheInv'
  <2>1. faults' \in Nat /\ writable' \in [Processes -> BOOLEAN] /\ file' = file
    BY <1>1, <1>10 DEF ProcessEnds, Fails
  <2>2. thread' \in [Threads -> Slot] /\ \A g \in Threads : WholeThread(thread'[g])
    BY <1>1, <1>10, IdleSlot DEF ProcessEnds
  <2>3. TypeOK'
    BY <1>1, <2>1, <2>2 DEF TypeOK, Slot, Places
  <2> QED
    BY <2>1, <2>2, <2>3 DEF CacheInv, WholeAnswers, OnDisk
<1>11. ASSUME NEW q \in Questions, Damage(q) PROVE CacheInv'
  <2>1. Damaged \in Entry /\ Damaged.state = "damaged"
    BY DEF Damaged, Entry
  <2>2. faults' \in Nat /\ file' = [file EXCEPT ![q] = Damaged] /\ writable' = writable
        /\ thread' = thread
    BY <1>1, <1>11 DEF Damage, Fails
  <2> QED
    BY <1>1, <2>1, <2>2, OneFile
<1>12. ASSUME NEW q \in Questions, Expire(q) PROVE CacheInv'
  <2>1. PICK entry : entry = [file[q] EXCEPT !.state = "expired"]
    OBVIOUS
  <2>2. file[q].state = "answer" /\ file[q] \in Entry /\ file[q].value \in Answers
    BY <1>1, <1>12 DEF Expire, CacheInv, WholeAnswers, OnDisk
  <2>3. entry \in Entry /\ entry.value \in Answers
    BY <2>1, <2>2 DEF Entry
  <2>4. file' = [file EXCEPT ![q] = entry] /\ UNCHANGED <<writable, thread, faults>>
    BY <1>1, <1>12, <2>1 DEF Expire
  <2> QED
    BY <1>1, <2>3, <2>4, OneFile
<1>13. CASE UNCHANGED vars
  BY <1>13 DEF vars, CacheInv, TypeOK, WholeAnswers, OnDisk
<1> QED
  BY <1>2, <1>3, <1>4, <1>5, <1>7, <1>8, <1>9, <1>10, <1>11, <1>12, <1>13 DEF Next, Put

LEMMA CacheInvHolds == Spec => []CacheInv
BY CacheInvInit, CacheInvStep, PTL DEF Spec

(* Every variable keeps to its type. *)
THEOREM CacheTypeCorrect == Spec => []TypeOK
<1>1. CacheInv => TypeOK
  BY DEF CacheInv
<1> QED
  BY <1>1, CacheInvHolds, PTL

(* What is on disk as an answer is one the model gave: no thread puts its     *)
(* entry in place before it was answered (LLMCache.put, complete_json).       *)
THEOREM AnswersAreWhole == Spec => []WholeAnswers
<1>1. CacheInv => WholeAnswers
  BY DEF CacheInv
<1> QED
  BY <1>1, CacheInvHolds, PTL

(* An answer on disk is only ever replaced by an answer, however many threads *)
(* of however many processes write without a lock; damage from outside alone  *)
(* takes it away.                                                             *)
THEOREM AnswersStay == Spec => AnswerNotLost
<1>1. CacheInv /\ [Next]_vars =>
         [\A q \in Questions : q \in OnDisk => q \in OnDisk' \/ Damage(q)]_vars
  <2> SUFFICES ASSUME CacheInv, Next, NEW q \in Questions, q \in OnDisk
               PROVE  q \in OnDisk' \/ Damage(q)
    OBVIOUS
  <2>1. DOMAIN file = Questions /\ file[q].state \in {"answer", "expired"}
    BY DEF CacheInv, TypeOK, OnDisk
  <2>2. CASE file' = file
    BY <2>1, <2>2 DEF OnDisk
  <2>3. ASSUME NEW h \in Threads, Replace(h) PROVE q \in OnDisk'
    <3>1. file'[q].state \in {"answer", "expired"}
      <4>1. CASE q = thread[h].question
        BY <2>1, <2>3, <4>1 DEF Replace
      <4>2. CASE q # thread[h].question
        BY <2>1, <2>3, <4>2 DEF Replace
      <4> QED
        BY <4>1, <4>2
    <3> QED
      BY <3>1 DEF OnDisk
  <2>4. ASSUME NEW r \in Questions, Damage(r), r # q PROVE q \in OnDisk'
    BY <2>1, <2>4 DEF Damage, OnDisk
  <2>5. ASSUME NEW r \in Questions, Expire(r) PROVE q \in OnDisk'
    <3>1. file[r] \in Entry
      BY DEF CacheInv, TypeOK
    <3>2. file'[q].state \in {"answer", "expired"}
      BY <2>1, <2>5, <3>1 DEF Expire, Entry
    <3> QED
      BY <3>2 DEF OnDisk
  <2>6. \/ file' = file
        \/ \E h \in Threads : Replace(h)
        \/ \E r \in Questions : Damage(r) \/ Expire(r)
    BY DEF Next, Put, Miss, Answered, Unanswered, Keep, Proceed, WriteTemp, WriteFails, ProcessEnds
  <2> QED
    BY <2>2, <2>3, <2>4, <2>5, <2>6
<1> QED
  BY <1>1, CacheInvHolds, PTL DEF Spec, AnswerNotLost
=============================================================================
