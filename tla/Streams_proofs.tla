--------------------------- MODULE Streams_proofs ---------------------------
(***************************************************************************)
(* Theorems about Streams, for any set of kinds and any bounds: types, that *)
(* a client gets every event once and in order, that a stream which has     *)
(* seen its task end has missed nothing but what was overtaken, and that a  *)
(* turn the chat history lost is announced.                                 *)
(***************************************************************************)
EXTENDS Streams, FiniteSetTheorems, TLAPS
-----------------------------------------------------------------------------
(* Ascending lists a finite set of ids, each once, from the least on.       *)

RankIn(ids, id) == Cardinality({other \in ids : other <= id})

LEMMA RankGrows ==
  ASSUME NEW ids \in SUBSET Nat, IsFiniteSet(ids), NEW a \in ids, NEW b \in ids, a < b
  PROVE  RankIn(ids, a) < RankIn(ids, b)
<1> DEFINE low == {other \in ids : other <= a}
           high == {other \in ids : other <= b}
<1>1. low \subseteq high /\ b \in high /\ b \notin low
  <2>1. \A id \in ids : id \in Nat
    OBVIOUS
  <2>2. b <= b /\ ~(b <= a) /\ \A id \in ids : id <= a => id <= b
    BY <2>1
  <2> QED
    BY <2>2
<1>2. IsFiniteSet(high) /\ IsFiniteSet(low)
  BY FS_Subset
<1>3. Cardinality(low) <= Cardinality(high) /\ Cardinality(low) # Cardinality(high)
  BY <1>1, <1>2, FS_Subset
<1>4. Cardinality(low) \in Nat /\ Cardinality(high) \in Nat
  BY <1>2, FS_CardinalityType
<1> HIDE DEF low, high
<1>5. Cardinality(low) < Cardinality(high)
  BY <1>3, <1>4
<1> QED
  BY <1>5 DEF RankIn, low, high

LEMMA RankOrders ==
  ASSUME NEW ids \in SUBSET Nat, IsFiniteSet(ids), NEW a \in ids, NEW b \in ids,
         RankIn(ids, a) \in Int, RankIn(ids, b) \in Int
  PROVE  /\ a = b \/ a < b \/ b < a
         /\ RankIn(ids, a) < RankIn(ids, b) => a < b
         /\ RankIn(ids, a) = RankIn(ids, b) => a = b
<1>1. a = b \/ a < b \/ b < a
  <2>1. a \in Nat /\ b \in Nat
    OBVIOUS
  <2> QED
    BY <2>1
<1>2. a < b => RankIn(ids, a) < RankIn(ids, b)
  BY RankGrows
<1>3. b < a => RankIn(ids, b) < RankIn(ids, a)
  BY RankGrows
<1> QED
  BY <1>1, <1>2, <1>3

LEMMA RankInRange ==
  ASSUME NEW ids \in SUBSET Nat, IsFiniteSet(ids), NEW a \in ids
  PROVE  RankIn(ids, a) \in 1..Cardinality(ids)
<1> DEFINE low == {other \in ids : other <= a}
<1>1. low \subseteq ids /\ a \in low
  OBVIOUS
<1>2. IsFiniteSet(low) /\ Cardinality(low) <= Cardinality(ids)
  BY <1>1, FS_Subset
<1>3. Cardinality(low) # 0
  BY <1>1, <1>2, FS_EmptySet
<1>4. Cardinality(low) \in Nat /\ Cardinality(ids) \in Nat
  BY <1>2, FS_CardinalityType
<1> HIDE DEF low
<1>5. Cardinality(low) \in 1..Cardinality(ids)
  BY <1>2, <1>3, <1>4
<1> QED
  BY <1>5 DEF RankIn, low

(* An injection between sets of one size is a surjection: every rank is taken. *)
LEMMA RankIsTaken ==
  ASSUME NEW ids \in SUBSET Nat, IsFiniteSet(ids), NEW n \in 1..Cardinality(ids)
  PROVE  \E id \in ids : RankIn(ids, id) = n
<1> DEFINE size == Cardinality(ids)
           rank == [id \in ids |-> RankIn(ids, id)]
<1>1. size \in Nat
  BY FS_CardinalityType
<1>2. IsFiniteSet(1..size) /\ Cardinality(1..size) = size
  BY <1>1, FS_Interval
<1>3. rank \in [ids -> 1..size]
  BY RankInRange
<1>4. \A a, b \in ids : rank[a] = rank[b] => a = b
  BY <1>1, RankInRange, RankOrders
<1>5. rank \in Injection(ids, 1..size)
  BY <1>3, <1>4 DEF Injection, IsInjective
<1>6. rank \in Surjection(ids, 1..size)
  BY <1>2, <1>5, FS_Injection
<1>7. \A k \in 1..size : \E id \in ids : rank[id] = k
  BY <1>6 DEF Surjection
<1> QED
  BY <1>7

LEMMA AscendingLists ==
  ASSUME NEW ids \in SUBSET Nat, IsFiniteSet(ids)
  PROVE  /\ Cardinality(ids) \in Nat
         /\ Ascending(ids) \in [1..Cardinality(ids) -> ids]
         /\ Ascending(ids) \in Seq(Nat) /\ Len(Ascending(ids)) = Cardinality(ids)
         /\ \A i, j \in 1..Cardinality(ids) : i < j => Ascending(ids)[i] < Ascending(ids)[j]
         /\ \A id \in ids : \E n \in 1..Cardinality(ids) : Ascending(ids)[n] = id
<1> DEFINE size == Cardinality(ids)
           list == Ascending(ids)
<1>1. size \in Nat
  BY FS_CardinalityType
<1>2. list = [n \in 1..size |-> CHOOSE id \in ids : RankIn(ids, id) = n]
  BY DEF Ascending, RankIn
<1>3. \A n \in 1..size : list[n] \in ids /\ RankIn(ids, list[n]) = n
  BY <1>2, RankIsTaken
<1>4. list \in [1..size -> ids]
  BY <1>2, <1>3
<1>5. list \in Seq(Nat) /\ Len(list) = size
  <2> HIDE DEF size, list
  <2>1. list \in [1..size -> Nat]
    BY <1>4
  <2> QED
    BY <1>1, <2>1
<1>6. \A i, j \in 1..size : i < j => list[i] < list[j]
  <2> SUFFICES ASSUME NEW i \in 1..size, NEW j \in 1..size, i < j
               PROVE  list[i] < list[j]
    OBVIOUS
  <2>1. /\ list[i] \in ids /\ RankIn(ids, list[i]) = i
        /\ list[j] \in ids /\ RankIn(ids, list[j]) = j
    BY <1>3
  <2>2. i \in Int /\ j \in Int
    BY <1>1
  <2>3. /\ RankIn(ids, list[i]) \in Int /\ RankIn(ids, list[j]) \in Int
        /\ RankIn(ids, list[i]) < RankIn(ids, list[j])
    BY <2>1, <2>2
  <2> HIDE DEF size, list
  <2> QED
    BY <2>1, <2>3, RankOrders
<1>7. \A id \in ids : \E n \in 1..size : list[n] = id
  <2> SUFFICES ASSUME NEW id \in ids PROVE \E n \in 1..size : list[n] = id
    OBVIOUS
  <2>1. PICK n \in 1..size : n = RankIn(ids, id)
    BY RankInRange
  <2>2. list[n] \in ids /\ RankIn(ids, list[n]) = n /\ n \in Int
    BY <1>1, <1>3
  <2> HIDE DEF size, list
  <2>3. list[n] = id
    BY <2>1, <2>2, RankOrders
  <2> QED
    BY <2>3
<1> QED
  BY <1>1, <1>4, <1>5, <1>6, <1>7
-----------------------------------------------------------------------------
(* Types need that the ids of open transactions have been drawn.             *)

IdsAreDrawn == \A w \in Writers : tx[w].id < nextId

Typed == TypeOK /\ IdsAreDrawn

Places == {"poll", "events", "final", "links", "answer", "end", "apology", "closed", "aborted"}

TxType == [open : BOOLEAN, loaded : Status, to : Status, id : Nat,
           lock : {"none", "wanted", "held"}]

StreamType == [kind : Kinds \cup {"any"}, pc : Places, cursor : Nat,
               last : Status \cup {"none"}, read : Status \cup {"none"}]

ChatType == [step : {"prepare", "question", "tokens", "answer", "end"}, user : BOOLEAN,
             persist : BOOLEAN, named : BOOLEAN,
             stored : SUBSET {"question", "answer"}, tokens : 0..MaxTokens]

SpentType == [waits : 0..MaxDetours, reruns : 0..MaxDetours, faults : 0..MaxFaults]

Sayings == {"report", "file", "error", "warning", "chat_created", "chunk", "final_chunk", "done"}

WriteType ==
    /\ row \in Status /\ nextId \in Nat \ {0}
    /\ events \subseteq 1..nextId /\ late \subseteq events
    /\ tx \in [Writers -> TxType]
    /\ worker \in {"free", "starting", "running", "ending"} /\ message \in BOOLEAN

ReadType ==
    /\ stream \in StreamType /\ told \in Seq(Nat) /\ said \subseteq Sayings /\ chat \in ChatType

LEMMA TypeParts ==
  /\ TypeOK <=> WriteType /\ ReadType /\ spent \in SpentType
  /\ TypeOK' <=> WriteType' /\ ReadType' /\ spent' \in SpentType
BY DEF TypeOK, WriteType, ReadType, TxType, StreamType, ChatType, SpentType, Sayings, Places

(* What a stream does after its loop leaves the writers, the cursor and what *)
(* was told alone, and does not lead back into the loop.                     *)
AfterLoop ==
    /\ UNCHANGED <<writing, told>>
    /\ stream'.cursor = stream.cursor
    /\ stream' = stream \/ stream'.pc \notin {"poll", "events"}
    /\ stream.pc = "events" => stream'.pc # "final"

LEMMA Tails ==
  ASSUME TypeOK,
         \/ CloseUnfinished \/ Report \/ AfterLinks \/ Apologize \/ Prepare \/ Token
         \/ AnswerEnds \/ EndAnswer \/ StreamFails
         \/ \E part \in {"question", "answer"} : Store(part)
  PROVE  AfterLoop /\ ReadType' /\ spent' \in SpentType
<1> USE TypeParts, StreamsAssumption
<1>0. stream \in StreamType /\ chat \in ChatType /\ spent \in SpentType /\ said \subseteq Sayings
      /\ told \in Seq(Nat)
  BY DEF ReadType
<1> USE <1>0 DEF ReadType, AfterLoop, Goto, Say, EndStream, Places, Sayings
<1>1. ASSUME NEW pc \in Places, stream' = [stream EXCEPT !.pc = pc]
      PROVE  stream' \in StreamType /\ stream'.cursor = stream.cursor /\ stream'.pc = pc
  BY <1>1 DEF StreamType
<1>2. ASSUME Fault PROVE spent' \in SpentType
  BY <1>2 DEF Fault, Spend, SpentType
<1>3. CASE CloseUnfinished
  BY <1>1, <1>3 DEF CloseUnfinished
<1>4. CASE Report
  BY <1>1, <1>4 DEF Report, AfterReport
<1>5. CASE AfterLinks
  <2>1. chat' \in ChatType
    BY ZenonT(40), <1>5 DEF AfterLinks, ChatType
  <2> QED
    BY <1>1, <1>5, <2>1 DEF AfterLinks
<1>6. CASE Apologize
  BY <1>1, <1>6 DEF Apologize
<1>7. CASE Prepare
  <2>1. chat' \in ChatType /\ spent' \in SpentType
    BY <1>2, <1>7 DEF Prepare, ChatType
  <2> QED
    BY <1>7, <2>1 DEF Prepare
<1>8. CASE Token \/ AnswerEnds
  <2>1. chat' \in ChatType
    BY SMTT(30), <1>8 DEF Token, AnswerEnds, ChatType
  <2> QED
    BY <1>8, <2>1 DEF Token, AnswerEnds
<1>9. CASE EndAnswer
  BY <1>1, <1>9 DEF EndAnswer
<1>10. ASSUME NEW part \in {"question", "answer"}, Store(part)
       PROVE  AfterLoop /\ ReadType' /\ spent' \in SpentType
  <2>1. chat' \in ChatType
    <3>1. NextStep(part) \in {"tokens", "end"} /\ Stores(part) \in ChatType
      BY <1>10 DEF NextStep, Stores, ChatType
    <3>2. \/ chat' = [chat EXCEPT !.step = NextStep(part)]
          \/ chat' = [Stores(part) EXCEPT !.step = NextStep(part)]
      BY <1>10, Zenon DEF Store
    <3> QED
      BY ZenonT(40), <3>1, <3>2 DEF ChatType
  <2>2. spent' \in SpentType
    <3>1. Fault \/ UNCHANGED spent
      BY <1>10, Zenon DEF Store
    <3> QED
      BY <1>2, <3>1
  <2>3. stream' \in StreamType /\ stream'.cursor = stream.cursor
        /\ stream'.pc \in {"answer", "end"} /\ stream.pc = "answer"
    BY ZenonT(40), <1>10 DEF Store, AtAnswer, StreamType
  <2>4. said' \subseteq Sayings /\ UNCHANGED <<told, writing>>
    BY <1>10 DEF Store, Warning
  <2> QED
    BY <2>1, <2>2, <2>3, <2>4
<1>11. CASE PollFails
  <2>1. stream' \in StreamType /\ stream'.cursor = stream.cursor
        /\ stream'.pc \in {"apology", "aborted"}
    BY <1>11 DEF PollFails, AfterException, StreamType
  <2> QED
    BY <1>2, <1>11, <2>1 DEF PollFails
<1>12. CASE ReportRefused
  BY <1>1, <1>2, <1>12 DEF ReportRefused, AfterReport
<1>13. CASE ReportBreaks
  BY <1>1, <1>2, <1>13 DEF ReportBreaks, AfterException
<1>14. CASE PrepareUnreachable
  BY <1>1, <1>2, <1>14 DEF PrepareUnreachable, Unreachable, AtAnswer
<1>15. CASE AnswerFails
  <2>1. chat' \in ChatType
    BY <1>15 DEF AnswerFails, ChatType
  <2> QED
    BY <1>2, <1>15, <2>1 DEF AnswerFails
<1>16. ASSUME NEW part \in {"question", "answer"}, StoreUnreachable(part)
       PROVE  AfterLoop /\ ReadType' /\ spent' \in SpentType
  <2>1. chat' \in ChatType
    BY <1>16 DEF StoreUnreachable, Unreachable, Stores, ChatType
  <2> QED
    BY <1>1, <1>2, <1>16, <2>1 DEF StoreUnreachable, Unreachable, AtAnswer
<1> QED
  BY <1>3, <1>4, <1>5, <1>6, <1>7, <1>8, <1>9, <1>10, <1>11, <1>12, <1>13, <1>14, <1>15, <1>16
     DEF StreamFails

LEMMA OpenedIsTx ==
  ASSUME row \in Status, NEW to \in Status, NEW changes \in BOOLEAN
  PROVE  Opened(to, changes) \in TxType /\ Opened(to, changes).id = 0
BY DEF Opened, TxType

LEMMA StatusNames ==
  /\ {"queued", "waiting_capacity", "running", "finished", "failed"} = Status
  /\ Terminal \subseteq Status
BY DEF Status, Terminal

LEMMA BeginKeeps ==
  ASSUME WriteType, NEW w \in Writers, NEW to \in Status, NEW changes \in BOOLEAN,
         Begin(w, to, changes)
  PROVE  /\ tx' \in [Writers -> TxType]
         /\ tx'[w].id = 0
         /\ \A other \in Writers \ {w} : tx'[other] = tx[other]
BY OpenedIsTx DEF Begin, WriteType

(* What the cancel, the recompute and the worker do to ids: nothing. *)
IdsStay ==
    /\ UNCHANGED <<events, nextId, stream, told, said, chat, late>>
    /\ \A w \in Writers : tx'[w] = tx[w] \/ tx'[w].id = 0

Others == Cancel \/ Recompute \/ Wait \/ Start \/ GiveUp \/ Refuse
            \/ \E to \in Terminal : Finish(to)

LEMMA OthersKeep ==
  ASSUME WriteType, spent \in SpentType, Others
  PROVE  IdsStay /\ WriteType' /\ spent' \in SpentType
<1> USE StatusNames, StreamsAssumption DEF WriteType, IdsStay, Others
<1>1. ASSUME NEW what \in {"waits", "reruns"}, Detour(what) PROVE spent' \in SpentType
  BY <1>1 DEF Detour, Spend, SpentType
<1>2. CASE Cancel
  <2>1. "failed" \in Status /\ Begin("api", "failed", TRUE) /\ "api" \in Writers
    BY <1>2 DEF Cancel, Writers
  <2> QED
    BY <1>2, <2>1, BeginKeeps DEF Cancel
<1>3. CASE Recompute
  <2>1. [Opened("queued", TRUE) EXCEPT !.loaded = "queued"] \in TxType
        /\ [Opened("queued", TRUE) EXCEPT !.loaded = "queued"].id = 0
    BY ZenonT(40), OpenedIsTx DEF TxType
  <2>2. spent' \in SpentType
    BY <1>1, <1>3 DEF Recompute
  <2>3. tx' = [tx EXCEPT !["api"] = [Opened("queued", TRUE) EXCEPT !.loaded = "queued"]]
    BY <1>3 DEF Recompute
  <2>4. tx' \in [Writers -> TxType] /\ \A w \in Writers : tx'[w] = tx[w] \/ tx'[w].id = 0
    BY <2>1, <2>3
  <2> QED
    BY <1>3, <2>2, <2>4 DEF Recompute
<1>4. ASSUME NEW to \in Status, Take(to)
      PROVE  IdsStay /\ WriteType'
  <2> DEFINE changes == to # "waiting_capacity" \/ row # "waiting_capacity"
  <2>1. Begin("worker", to, changes) /\ changes \in BOOLEAN /\ "worker" \in Writers
    BY <1>4 DEF Take, Writers
  <2> HIDE DEF changes
  <2> QED
    BY <1>4, <2>1, BeginKeeps DEF Take
<1>5. CASE Wait
  BY <1>1, <1>4, <1>5 DEF Wait
<1>6. CASE Start \/ GiveUp
  BY <1>4, <1>6 DEF Start, GiveUp
<1>7. CASE Refuse
  BY <1>7 DEF Refuse
<1>8. ASSUME NEW to \in Terminal, Finish(to)
      PROVE  IdsStay /\ WriteType' /\ spent' \in SpentType
  <2>1. Begin("worker", to, TRUE) /\ to \in Status /\ "worker" \in Writers
    BY <1>8 DEF Finish, Writers
  <2> QED
    BY <1>8, <2>1, BeginKeeps DEF Finish
<1> QED
  BY <1>2, <1>3, <1>5, <1>6, <1>7, <1>8

(* One writer draws the next id and nothing else changes. *)
Draws(w) ==
    /\ UNCHANGED <<row, events, worker, message, spent, stream, told, said, chat, late>>
    /\ nextId' = nextId + 1
    /\ tx[w].id = 0 /\ tx'[w].id = nextId
    /\ \A other \in Writers \ {w} : tx'[other] = tx[other]

LEMMA FlushDraws ==
  ASSUME WriteType, NEW w \in Writers, Flush(w)
  PROVE  Draws(w) /\ WriteType'
<1>1. tx' \in [Writers -> TxType] /\ tx'[w].id = nextId
      /\ \A other \in Writers \ {w} : tx'[other] = tx[other]
  BY DEF Flush, WriteType, TxType
<1> QED
  BY <1>1 DEF Flush, Draws, WriteType

(* One writer gives its id away. *)
Publishes(w) ==
    /\ UNCHANGED <<nextId, spent, stream, told, said, chat>>
    /\ tx[w].open /\ tx[w].id # 0 /\ tx'[w].id = 0
    /\ \A other \in Writers \ {w} : tx'[other] = tx[other]
    /\ events' = events \cup {tx[w].id}
    /\ late' = IF tx[w].id < stream.cursor THEN late \cup {tx[w].id} ELSE late

LEMMA CommitPublishes ==
  ASSUME WriteType, IdsAreDrawn, NEW w \in Writers, Commit(w)
  PROVE  Publishes(w) /\ WriteType'
<1> USE DEF WriteType
<1>1. NoTx \in TxType /\ NoTx.id = 0
  BY DEF NoTx, TxType, Status
<1>2. tx' = [tx EXCEPT ![w] = NoTx]
  BY DEF Commit
<1>3. tx' \in [Writers -> TxType] /\ tx'[w].id = 0
      /\ \A other \in Writers \ {w} : tx'[other] = tx[other]
  BY <1>1, <1>2
<1>4. tx[w].id \in 1..nextId /\ tx[w].to \in Status /\ tx[w] \in TxType
  <2>1. tx[w] \in TxType /\ tx[w].id < nextId /\ tx[w].id # 0
    BY DEF IdsAreDrawn, Commit
  <2> QED
    BY <2>1 DEF TxType
<1>5. row' \in Status /\ worker' \in {"free", "starting", "running", "ending"}
      /\ message' \in BOOLEAN
  BY <1>4 DEF Commit, Status
<1>6. Publishes(w)
  BY <1>3 DEF Commit, Publishes
<1> QED
  BY <1>3, <1>4, <1>5, <1>6 DEF Publishes

LEMMA EventsFinite ==
  ASSUME WriteType
  PROVE  NewEvents \in SUBSET Nat /\ IsFiniteSet(NewEvents)
<1>1. NewEvents \subseteq 1..nextId /\ nextId \in Nat
  BY DEF WriteType, NewEvents
<1>2. IsFiniteSet(1..nextId)
  BY <1>1, FS_Interval
<1>3. IsFiniteSet(NewEvents)
  BY <1>1, <1>2, FS_Subset
<1> QED
  BY <1>1, <1>3

(* What a poll tells and where it leaves the cursor. *)
LEMMA PollTells ==
  ASSUME TypeOK, ReadEvents
  PROVE  LET list == Ascending(NewEvents) IN
         /\ list \in Seq(Nat) /\ told' = told \o list /\ told' \in Seq(Nat)
         /\ Len(list) = Cardinality(NewEvents)
         /\ stream'.cursor = IF NewEvents = {} THEN stream.cursor ELSE list[Len(list)]
         /\ NewEvents # {} => Len(list) \in Nat \ {0} /\ stream'.cursor \in NewEvents
         /\ \A i \in 1..Len(list) : list[i] \in NewEvents
         /\ \A i, j \in 1..Len(list) : i < j => list[i] < list[j]
         /\ \A id \in NewEvents : \E n \in 1..Len(list) : list[n] = id
<1> DEFINE list == Ascending(NewEvents)
<1>1. NewEvents \in SUBSET Nat /\ IsFiniteSet(NewEvents)
  BY EventsFinite, TypeParts
<1>2. /\ list \in [1..Cardinality(NewEvents) -> NewEvents]
      /\ list \in Seq(Nat) /\ Len(list) = Cardinality(NewEvents)
      /\ Cardinality(NewEvents) \in Nat
      /\ \A i, j \in 1..Len(list) : i < j => list[i] < list[j]
      /\ \A id \in NewEvents : \E n \in 1..Len(list) : list[n] = id
  BY <1>1, AscendingLists
<1>3. stream \in StreamType /\ told \in Seq(Nat)
  BY TypeParts DEF ReadType
<1>4. told' = told \o list
  BY DEF ReadEvents
<1>5. stream'.cursor = IF NewEvents = {} THEN stream.cursor ELSE list[Len(list)]
  BY <1>2, <1>3 DEF ReadEvents, StreamType
<1>6. NewEvents # {} => Cardinality(NewEvents) \in Nat \ {0}
  BY <1>1, <1>2, FS_EmptySet
<1> HIDE DEF list
<1>7. NewEvents # {} => Len(list) \in 1..Len(list) /\ list[Len(list)] \in NewEvents
  BY <1>2, <1>6
<1>8. \A i \in 1..Len(list) : list[i] \in NewEvents
  BY <1>2
<1>9. told' \in Seq(Nat)
  BY <1>2, <1>3, <1>4
<1> QED
  BY <1>2, <1>4, <1>5, <1>6, <1>7, <1>8, <1>9 DEF list

LEMMA ReadTyped ==
  ASSUME Typed, ReadRow \/ ReadEvents
  PROVE  Typed'
<1> USE TypeParts, StatusNames DEF Typed, ReadType, WriteType, Places
<1>1. CASE ReadRow
  <2>1. stream' \in StreamType
    BY <1>1 DEF ReadRow, StreamType, Places
  <2> QED
    BY <1>1, <2>1 DEF ReadRow, writing, IdsAreDrawn
<1>2. CASE ReadEvents
  <2>1. stream'.cursor \in Nat /\ told' \in Seq(Nat)
    <3>1. stream.cursor \in Nat /\ NewEvents \subseteq Nat
      BY EventsFinite DEF StreamType
    <3> QED
      BY <1>2, <3>1, PollTells
  <2>2. stream' \in StreamType
    BY ZenonT(40), <1>2, <2>1 DEF ReadEvents, StreamType
  <2>3. WriteType' /\ IdsAreDrawn'
    <3>1. CASE stream.read \in Terminal
      <4>1. Forget
        BY <1>2, <3>1 DEF ReadEvents
      <4>2. NoTx \in TxType /\ NoTx.id = 0
        BY DEF NoTx, TxType, Status
      <4>3. tx' \in [Writers -> TxType] /\ \A w \in Writers : tx'[w].id = 0
        BY <4>1, <4>2 DEF Forget
      <4>4. row' \in Status /\ nextId' = 1 /\ events' = {} /\ late' = {}
            /\ worker' = "free" /\ message' = FALSE
        BY <3>1, <4>1 DEF Forget
      <4>5. IdsAreDrawn'
        BY <4>3, <4>4 DEF IdsAreDrawn
      <4>6. worker' \in {"free", "starting", "running", "ending"} /\ message' \in BOOLEAN
        BY <4>4
      <4>7. nextId' \in Nat \ {0} /\ events' \subseteq 1..nextId' /\ late' \subseteq events'
        BY <4>4
      <4> QED
        BY <4>3, <4>4, <4>5, <4>6, <4>7
    <3>2. CASE stream.read \notin Terminal
      <4>1. UNCHANGED writing
        BY <1>2, <3>2 DEF ReadEvents
      <4> QED
        BY <4>1 DEF writing, IdsAreDrawn
    <3> QED
      BY <3>1, <3>2
  <2> QED
    BY <1>2, <2>1, <2>2, <2>3 DEF ReadEvents
<1> QED
  BY <1>1, <1>2

LEMMA NextCases ==
  ASSUME Next
  PROVE  \/ \E w \in Writers : (Flush(w) \/ Commit(w)) /\ Watching
         \/ Others /\ Watching
         \/ ReadRow \/ ReadEvents
         \/ CloseUnfinished \/ Report \/ AfterLinks \/ Apologize \/ Prepare \/ Token
         \/ AnswerEnds \/ EndAnswer \/ StreamFails
         \/ \E part \in {"question", "answer"} : Store(part)
BY DEF Next, Write, WorkerStep, WriterStep, Others, Writers, StreamStep

LEMMA TypeInit == Init => Typed
<1> SUFFICES ASSUME Init PROVE Typed
  OBVIOUS
<1>1. row \in Status /\ Opened("queued", TRUE) \in TxType /\ Opened("queued", TRUE).id = 0
  BY OpenedIsTx, StatusNames DEF Init
<1>2. NoTx \in TxType /\ NoTx.id = 0
  BY DEF NoTx, TxType, Status
<1>3. tx \in [Writers -> TxType] /\ \A w \in Writers : tx[w].id = 0
  BY <1>1, <1>2 DEF Init
<1>4. WriteType /\ IdsAreDrawn
  <2>1. nextId = 1 /\ events = {} /\ late = {} /\ worker = "free" /\ message = TRUE
    BY DEF Init
  <2>2. IdsAreDrawn
    BY <1>3, <2>1 DEF IdsAreDrawn
  <2>3. nextId \in Nat \ {0} /\ events \subseteq 1..nextId /\ late \subseteq events
    BY <2>1
  <2> QED
    BY <1>1, <1>3, <2>1, <2>2, <2>3 DEF WriteType
<1>5. stream \in StreamType /\ chat \in ChatType /\ spent \in SpentType
  BY StreamsAssumption DEF Init, StreamType, ChatType, SpentType, Places
<1>6. told \in Seq(Nat) /\ said \subseteq Sayings
  BY DEF Init
<1> QED
  BY <1>4, <1>5, <1>6, TypeParts DEF Typed, ReadType

LEMMA TypeStep == Typed /\ [Next]_vars => Typed'
<1> SUFFICES ASSUME Typed, [Next]_vars PROVE Typed'
  OBVIOUS
<1> USE TypeParts DEF Typed
<1>1. ASSUME NEW w \in Writers, Flush(w) PROVE Typed'
  <2>1. Draws(w) /\ WriteType'
    BY <1>1, FlushDraws
  <2>2. \A other \in Writers : tx'[other].id < nextId'
    <3>1. nextId \in Nat /\ \A other \in Writers : tx[other].id \in Nat /\ tx[other].id < nextId
      BY DEF IdsAreDrawn, WriteType, TxType
    <3> QED
      BY <2>1, <3>1 DEF Draws
  <2> QED
    BY <2>1, <2>2 DEF Draws, ReadType, IdsAreDrawn
<1>2. ASSUME NEW w \in Writers, Commit(w) PROVE Typed'
  <2>1. Publishes(w) /\ WriteType'
    BY <1>2, CommitPublishes
  <2>2. \A other \in Writers : tx'[other].id < nextId'
    BY <2>1 DEF Publishes, IdsAreDrawn, WriteType
  <2> QED
    BY <2>1, <2>2 DEF Publishes, ReadType, IdsAreDrawn
<1>3. CASE Others
  <2>1. IdsStay /\ WriteType' /\ spent' \in SpentType
    BY <1>3, OthersKeep
  <2>2. \A w \in Writers : tx'[w].id < nextId'
    BY <2>1 DEF IdsStay, IdsAreDrawn, WriteType
  <2> QED
    BY <2>1, <2>2 DEF IdsStay, ReadType, IdsAreDrawn
<1>4. CASE ReadRow \/ ReadEvents
  BY <1>4, ReadTyped
<1>5. CASE \/ CloseUnfinished \/ Report \/ AfterLinks \/ Apologize \/ Prepare \/ Token
           \/ AnswerEnds \/ EndAnswer \/ StreamFails
           \/ \E part \in {"question", "answer"} : Store(part)
  <2>1. AfterLoop /\ ReadType' /\ spent' \in SpentType
    BY <1>5, Tails
  <2> QED
    BY <2>1 DEF AfterLoop, writing, WriteType, IdsAreDrawn
<1>6. CASE UNCHANGED vars
  BY <1>6 DEF vars, TypeOK, IdsAreDrawn
<1> QED
  BY <1>1, <1>2, <1>3, <1>4, <1>5, <1>6, NextCases

(* Every variable stays in its type: ids are drawn before they are          *)
(* committed, only drawn ids are told, and the bounds are kept.              *)
THEOREM StreamsTypeCorrect == Spec => []TypeOK
<1>1. Typed => TypeOK
  BY DEF Typed
<1> QED
  BY <1>1, TypeInit, TypeStep, PTL DEF Spec
-----------------------------------------------------------------------------
(* What was told is in order and not beyond the cursor.                      *)

ToldUpToCursor == \A i \in DOMAIN told : told[i] <= stream.cursor

(* While a stream polls: the cursor is an event or 0, no open transaction has *)
(* the id of an event or of the other one, and what lies behind the cursor    *)
(* was told or came late.                                                     *)
NothingSkipped ==
    Watching =>
        /\ stream.cursor \in events \cup {0}
        /\ \A w \in Writers : tx[w].id \notin events
        /\ \A v, w \in Writers : v # w /\ tx[v].id = tx[w].id => tx[v].id = 0
        /\ 0 \notin events /\ nextId \notin events
        /\ \A id \in events : id <= stream.cursor => id \in late \/ \E i \in DOMAIN told : told[i] = id

Orderly == StreamIsOrderly /\ ToldUpToCursor

StreamInv == Typed /\ Orderly /\ NothingSkipped

LEMMA OrderKept ==
  ASSUME Typed, Orderly, [Next]_vars
  PROVE  Orderly'
<1> USE DEF Orderly, StreamIsOrderly, ToldUpToCursor
<1>1. CASE ReadEvents
  <2> DEFINE list == Ascending(NewEvents)
  <2>1. /\ list \in Seq(Nat) /\ told' = told \o list /\ Len(list) = Cardinality(NewEvents)
        /\ \A i \in 1..Len(list) : list[i] \in NewEvents
        /\ \A i, j \in 1..Len(list) : i < j => list[i] < list[j]
        /\ stream'.cursor = IF NewEvents = {} THEN stream.cursor ELSE list[Len(list)]
        /\ NewEvents # {} => Len(list) \in Nat \ {0} /\ stream'.cursor \in NewEvents
    BY <1>1, PollTells DEF Typed
  <2>2. told \in Seq(Nat) /\ stream.cursor \in Nat
    BY TypeParts DEF Typed, ReadType, StreamType
  <2>3. \A id \in NewEvents : id \in Nat /\ id > stream.cursor
    BY TypeParts DEF Typed, WriteType, NewEvents, IsNew
  <2> HIDE DEF list
  <2>4. Len(told) \in Nat /\ Len(list) \in Nat /\ DOMAIN told = 1..Len(told)
        /\ DOMAIN told' = 1..(Len(told) + Len(list))
    BY <2>1, <2>2
  <2>5. \A i \in 1..Len(told) : told'[i] = told[i] /\ told[i] \in Nat
    BY <2>1, <2>2, <2>4
  <2>6. \A i \in 1..(Len(told) + Len(list)) : i > Len(told) =>
            i - Len(told) \in 1..Len(list) /\ told'[i] = list[i - Len(told)]
    BY <2>1, <2>2, <2>4
  <2>7. \A i \in 1..Len(list) : list[i] <= stream'.cursor
    <3>1. CASE NewEvents = {}
      BY <2>1, <3>1
    <3>2. CASE NewEvents # {}
      <4>1. stream'.cursor = list[Len(list)] /\ Len(list) \in 1..Len(list)
        BY <2>1, <3>2
      <4>2. \A i \in 1..Len(list) : i < Len(list) => list[i] < list[Len(list)]
        BY <2>1, <4>1
      <4>3. \A i \in 1..Len(list) : i = Len(list) \/ i < Len(list)
        BY <2>3
      <4> QED
        BY SMTT(30), <2>1, <2>3, <2>4, <4>1, <4>2, <4>3
    <3> QED
      BY <3>1, <3>2
  <2>8. stream.cursor <= stream'.cursor /\ stream'.cursor \in Nat
    BY <2>1, <2>2, <2>3
  <2>9. \A i \in DOMAIN told' : told'[i] <= stream'.cursor
    <3> SUFFICES ASSUME NEW i \in DOMAIN told' PROVE told'[i] <= stream'.cursor
      OBVIOUS
    <3>1. CASE i \in 1..Len(told)
      <4>1. told[i] <= stream.cursor /\ told'[i] = told[i] /\ told[i] \in Nat
        BY <2>4, <2>5, <3>1
      <4> QED
        BY <2>2, <2>8, <4>1
    <3>2. CASE i > Len(told)
      BY <2>4, <2>6, <2>7, <3>2
    <3> QED
      BY <2>4, <3>1, <3>2
  <2>10. \A i, j \in DOMAIN told' : i < j => told'[i] < told'[j]
    <3> SUFFICES ASSUME NEW i \in DOMAIN told', NEW j \in DOMAIN told', i < j
                 PROVE  told'[i] < told'[j]
      OBVIOUS
    <3>1. CASE j \in 1..Len(told)
      <4>1. i \in 1..Len(told)
        BY <2>4, <3>1
      <4>2. told'[i] = told[i] /\ told'[j] = told[j] /\ told[i] < told[j]
        BY <2>4, <2>5, <3>1, <4>1
      <4> QED
        BY <4>2
    <3>2. CASE i \in 1..Len(told) /\ j > Len(told)
      <4>1. told'[i] = told[i] /\ told[i] \in Nat /\ told[i] <= stream.cursor
        BY <2>4, <2>5, <3>2
      <4>2. j - Len(told) \in 1..Len(list) /\ told'[j] = list[j - Len(told)]
        BY <2>4, <2>6, <3>2
      <4>3. told'[j] \in NewEvents
        BY <2>1, <4>2
      <4> QED
        BY <2>2, <2>3, <4>1, <4>3
    <3>3. CASE i > Len(told) /\ j > Len(told)
      <4>1. i - Len(told) \in 1..Len(list) /\ told'[i] = list[i - Len(told)]
        BY <2>4, <2>6, <3>3
      <4>2. j - Len(told) \in 1..Len(list) /\ told'[j] = list[j - Len(told)]
        BY <2>4, <2>6, <3>3
      <4>3. i - Len(told) < j - Len(told)
        BY <2>4
      <4> QED
        BY <2>1, <4>1, <4>2, <4>3
    <3> QED
      BY <2>4, <3>1, <3>2, <3>3
  <2> QED
    BY <2>9, <2>10
<1>2. CASE told' = told /\ stream'.cursor = stream.cursor
  BY <1>2
<1>3. stream \in StreamType
  BY TypeParts DEF Typed, ReadType
<1>4. ASSUME NEW w \in Writers, Flush(w) \/ Commit(w) PROVE Orderly'
  BY <1>2, <1>4 DEF Flush, Commit
<1>5. CASE Others
  BY <1>2, <1>5, OthersKeep, TypeParts DEF Typed, IdsStay
<1>6. CASE ReadRow
  BY <1>2, <1>3, <1>6 DEF ReadRow, StreamType
<1>7. CASE \/ CloseUnfinished \/ Report \/ AfterLinks \/ Apologize \/ Prepare \/ Token
           \/ AnswerEnds \/ EndAnswer \/ StreamFails
           \/ \E part \in {"question", "answer"} : Store(part)
  BY <1>2, <1>7, Tails DEF Typed, AfterLoop
<1>8. CASE UNCHANGED vars
  BY <1>2, <1>8 DEF vars
<1> QED
  BY <1>1, <1>4, <1>5, <1>6, <1>7, <1>8, NextCases

(* A poll tells every event it has not told before and that was not late.    *)
LEMMA PollLeavesNothing ==
  ASSUME Typed, NothingSkipped, ReadEvents
  PROVE  /\ \A id \in events : id \in late \/ \E i \in DOMAIN told' : told'[i] = id
         /\ stream'.cursor \in events \cup {0}
<1> DEFINE list == Ascending(NewEvents)
<1>1. /\ list \in Seq(Nat) /\ told' = told \o list
      /\ \A id \in NewEvents : \E n \in 1..Len(list) : list[n] = id
      /\ stream'.cursor = IF NewEvents = {} THEN stream.cursor ELSE list[Len(list)]
      /\ NewEvents # {} => stream'.cursor \in NewEvents
  BY PollTells DEF Typed
<1>2. told \in Seq(Nat) /\ stream.cursor \in Nat /\ events \subseteq Nat
  BY TypeParts DEF Typed, ReadType, WriteType, StreamType
<1>3. Watching
  BY DEF ReadEvents, Watching
<1> HIDE DEF list
<1>4. \A n \in 1..Len(list) : Len(told) + n \in DOMAIN told' /\ told'[Len(told) + n] = list[n]
  BY <1>1, <1>2
<1>5. \A i \in DOMAIN told : i \in DOMAIN told' /\ told'[i] = told[i]
  BY SMTT(30), <1>1, <1>2
<1>6. ASSUME NEW id \in events PROVE id \in late \/ \E i \in DOMAIN told' : told'[i] = id
  <2>1. CASE id <= stream.cursor
    BY <1>3, <1>5, <2>1 DEF NothingSkipped
  <2>2. CASE id > stream.cursor
    <3>1. id \in NewEvents
      BY <2>2 DEF NewEvents, IsNew
    <3>2. PICK n \in 1..Len(list) : list[n] = id
      BY <1>1, <3>1
    <3> QED
      BY <1>4, <3>2
  <2> QED
    BY <1>2, <2>1, <2>2
<1>7. stream'.cursor \in events \cup {0}
  BY <1>1, <1>3 DEF NothingSkipped, NewEvents
<1> QED
  BY <1>6, <1>7

LEMMA SkippedStep ==
  ASSUME Typed, NothingSkipped, [Next]_vars
  PROVE  NothingSkipped'
<1> USE DEF Watching
<1>0. /\ stream \in StreamType /\ nextId \in Nat /\ events \subseteq 1..nextId
      /\ \A w \in Writers : tx[w].id \in Nat /\ tx[w].id < nextId
  BY TypeParts DEF Typed, ReadType, WriteType, TxType, IdsAreDrawn
<1>1. ASSUME NEW w \in Writers, Flush(w), Watching PROVE NothingSkipped'
  <2>1. Draws(w)
    BY <1>1, FlushDraws, TypeParts DEF Typed
  <2>2. \A v \in Writers : tx'[v].id \notin events'
    BY <1>1, <2>1 DEF Draws, NothingSkipped
  <2>3. \A u, v \in Writers : u # v /\ tx'[u].id = tx'[v].id => tx'[u].id = 0
    BY <1>0, <1>1, <2>1 DEF Draws, NothingSkipped
  <2>4. 0 \notin events' /\ nextId' \notin events'
    BY <1>0, <1>1, <2>1 DEF Draws, NothingSkipped
  <2> QED
    BY <1>1, <2>1, <2>2, <2>3, <2>4 DEF Draws, NothingSkipped
<1>2. ASSUME NEW w \in Writers, Commit(w), Watching PROVE NothingSkipped'
  <2>1. Publishes(w)
    BY <1>2, CommitPublishes, TypeParts DEF Typed
  <2>2. \A v \in Writers : tx'[v].id \notin events'
    BY <1>2, <2>1 DEF Publishes, NothingSkipped
  <2>3. \A u, v \in Writers : u # v /\ tx'[u].id = tx'[v].id => tx'[u].id = 0
    BY <1>2, <2>1 DEF Publishes, NothingSkipped
  <2>4. 0 \notin events' /\ nextId' \notin events'
    BY <1>0, <1>2, <2>1 DEF Publishes, NothingSkipped
  <2>5. tx[w].id # stream.cursor
    BY <1>2, <2>1 DEF Publishes, NothingSkipped
  <2>6. ASSUME NEW id \in events', id <= stream.cursor
        PROVE  id \in late' \/ \E i \in DOMAIN told : told[i] = id
    <3>1. CASE id \in events
      BY <1>2, <2>1, <2>6, <3>1 DEF Publishes, NothingSkipped
    <3>2. CASE id = tx[w].id
      BY <1>0, <2>1, <2>5, <2>6, <3>2 DEF Publishes, StreamType
    <3> QED
      BY <2>1, <3>1, <3>2 DEF Publishes
  <2>7. stream.cursor \in events' \cup {0}
    BY <1>2, <2>1 DEF Publishes, NothingSkipped
  <2> QED
    BY <2>1, <2>2, <2>3, <2>4, <2>6, <2>7 DEF Publishes, NothingSkipped
<1>3. CASE Others /\ Watching
  <2>1. IdsStay
    BY <1>3, OthersKeep, TypeParts DEF Typed
  <2>2. \A u, v \in Writers : u # v /\ tx'[u].id = tx'[v].id => tx'[u].id = 0
    BY <1>3, <2>1 DEF IdsStay, NothingSkipped
  <2>3. \A v \in Writers : tx'[v].id \notin events'
    BY <1>3, <2>1 DEF IdsStay, NothingSkipped
  <2> QED
    BY <1>3, <2>1, <2>2, <2>3 DEF IdsStay, NothingSkipped
<1>4. CASE ReadRow
  <2>1. UNCHANGED <<writing, told>> /\ stream'.cursor = stream.cursor /\ Watching
    BY <1>0, <1>4 DEF ReadRow, StreamType
  <2> QED
    BY <2>1 DEF writing, NothingSkipped
<1>5. CASE ReadEvents
  <2>1. CASE stream.read \in Terminal
    <3>1. stream'.pc = "final"
      BY <1>0, <1>5, <2>1 DEF ReadEvents, StreamType
    <3> QED
      BY <3>1 DEF NothingSkipped
  <2>2. CASE stream.read \notin Terminal
    <3>1. UNCHANGED writing /\ Watching
      BY <1>5, <2>2 DEF ReadEvents
    <3> QED
      BY <1>5, <3>1, PollLeavesNothing DEF NothingSkipped, writing
  <2> QED
    BY <2>1, <2>2
<1>6. CASE \/ CloseUnfinished \/ Report \/ AfterLinks \/ Apologize \/ Prepare \/ Token
           \/ AnswerEnds \/ EndAnswer \/ StreamFails
           \/ \E part \in {"question", "answer"} : Store(part)
  <2>1. AfterLoop
    BY <1>6, Tails DEF Typed
  <2> QED
    BY <2>1 DEF AfterLoop, writing, NothingSkipped
<1>7. CASE UNCHANGED vars
  BY <1>7 DEF vars, NothingSkipped
<1> QED
  BY <1>1, <1>2, <1>3, <1>4, <1>5, <1>6, <1>7, NextCases

LEMMA InvInit == Init => StreamInv
<1> SUFFICES ASSUME Init PROVE StreamInv
  OBVIOUS
<1>1. told = <<>> /\ events = {} /\ late = {} /\ nextId = 1 /\ stream.cursor = 0
  BY DEF Init
<1>2. \A w \in Writers : tx[w].id = 0
  BY DEF Init, Opened, NoTx
<1>3. Orderly
  BY <1>1 DEF Orderly, StreamIsOrderly, ToldUpToCursor
<1>4. NothingSkipped
  BY <1>1, <1>2 DEF NothingSkipped
<1> QED
  BY <1>3, <1>4, TypeInit DEF StreamInv

LEMMA InvStep == StreamInv /\ [Next]_vars => StreamInv'
BY TypeStep, OrderKept, SkippedStep DEF StreamInv

(* A client gets every event once and in the order of the ids, however polls, *)
(* commits and re-runs fall and whatever fails.                               *)
THEOREM StreamsAreOrderly == Spec => []StreamIsOrderly
<1>1. StreamInv => StreamIsOrderly
  BY DEF StreamInv, Orderly
<1> QED
  BY <1>1, InvInit, InvStep, PTL DEF Spec

(* Only the poll leads from the events to the end of the loop. *)
LEMMA LoopEndsOnPoll ==
  ASSUME Typed, [Next]_vars, stream.pc = "events", stream'.pc = "final"
  PROVE  ReadEvents
<1>0. stream \in StreamType
  BY TypeParts DEF Typed, ReadType
<1>1. ASSUME NEW w \in Writers, Flush(w) \/ Commit(w) PROVE FALSE
  BY <1>1 DEF Flush, Commit
<1>2. CASE Others
  BY <1>2, OthersKeep, TypeParts DEF Typed, IdsStay
<1>3. CASE ReadRow
  BY <1>3 DEF ReadRow
<1>4. CASE \/ CloseUnfinished \/ Report \/ AfterLinks \/ Apologize \/ Prepare \/ Token
           \/ AnswerEnds \/ EndAnswer \/ StreamFails
           \/ \E part \in {"question", "answer"} : Store(part)
  BY <1>4, Tails DEF Typed, AfterLoop
<1>5. CASE UNCHANGED vars
  BY <1>5 DEF vars
<1> QED
  BY <1>1, <1>2, <1>3, <1>4, <1>5, NextCases

(* A stream that has seen its task end has told every committed event, but    *)
(* for those that were committed behind its cursor.                           *)
THEOREM StreamsMissNothing == Spec => NothingMissed
<1>1. StreamInv /\ [Next]_vars =>
        [stream.pc = "events" /\ stream'.pc = "final" =>
           events \ late \subseteq {told'[i] : i \in DOMAIN told'}]_vars
  <2> SUFFICES ASSUME StreamInv, [Next]_vars, stream.pc = "events", stream'.pc = "final"
               PROVE  events \ late \subseteq {told'[i] : i \in DOMAIN told'}
    OBVIOUS
  <2>1. ReadEvents
    BY LoopEndsOnPoll DEF StreamInv
  <2> QED
    BY <2>1, PollLeavesNothing DEF StreamInv
<1> QED
  BY <1>1, InvInit, InvStep, PTL DEF Spec, NothingMissed
-----------------------------------------------------------------------------
(* The history of a conversation.                                           *)

Announced == "warning" \in said \/ "error" \in said

(* Before the links are sent there is no conversation.  From then on, a       *)
(* user's conversation keeps persist, and every turn it has passed is in the  *)
(* history, unless the client was told of a loss.                            *)
NothingAsked == chat.step = "prepare" /\ ~chat.user

HistoryIsWhole ==
    /\ chat.persist
    /\ chat.step \in {"tokens", "answer", "end"} => "question" \in chat.stored
    /\ chat.step = "end" => "answer" \in chat.stored
    /\ stream.pc \in {"end", "closed"} => chat.step = "end"

HistoryInv ==
    /\ stream.pc \notin {"answer", "end", "closed"} => NothingAsked
    /\ chat.user => HistoryIsWhole \/ Announced

LEMMA HistoryInit == Init => HistoryInv
BY DEF Init, HistoryInv, NothingAsked

(* The writers and the poll leave the conversation alone.                    *)
LEMMA PollKeepsHistory ==
  ASSUME Typed, HistoryInv,
         \/ \E w \in Writers : (Flush(w) \/ Commit(w)) /\ Watching
         \/ Others /\ Watching
         \/ ReadRow \/ ReadEvents \/ PollFails
  PROVE  HistoryInv'
<1>0. stream \in StreamType
  BY TypeParts DEF Typed, ReadType
<1>1. stream.pc \in {"poll", "events"} /\ UNCHANGED chat
  <2>1. ASSUME NEW w \in Writers, Flush(w) \/ Commit(w), Watching
        PROVE  stream.pc \in {"poll", "events"} /\ UNCHANGED chat
    BY <2>1 DEF Flush, Commit, Watching
  <2>2. CASE Others /\ Watching
    BY <2>2, OthersKeep, TypeParts DEF Typed, IdsStay, Watching
  <2>3. CASE ReadRow \/ ReadEvents \/ PollFails
    BY <2>3 DEF ReadRow, ReadEvents, PollFails, Watching
  <2> QED
    BY <2>1, <2>2, <2>3
<1> QED
  BY <1>1 DEF HistoryInv, NothingAsked

LEMMA ReportKeepsHistory ==
  ASSUME Typed, HistoryInv,
         \/ CloseUnfinished \/ Report \/ ReportRefused \/ ReportBreaks
         \/ AfterLinks \/ Apologize
  PROVE  HistoryInv'
<1>0. stream \in StreamType /\ chat \in ChatType
  BY TypeParts DEF Typed, ReadType
<1>1. stream.pc \in {"final", "links", "apology"} /\ NothingAsked
  BY DEF CloseUnfinished, EndStream, Report, ReportRefused, ReportBreaks, AfterLinks,
         Apologize, HistoryInv
<1>2. CASE AfterLinks
  <2>1. CASE UNCHANGED chat
    BY <1>1, <2>1 DEF HistoryInv, NothingAsked
  <2>2. ASSUME NEW user \in BOOLEAN, NEW named \in BOOLEAN, Goto("answer"),
               chat' = [chat EXCEPT !.user = user, !.persist = user, !.named = named]
        PROVE  HistoryInv'
    BY <1>0, <1>1, <2>2 DEF HistoryInv, HistoryIsWhole, NothingAsked, Goto, ChatType, StreamType
  <2> QED
    BY <1>2, <2>1, <2>2 DEF AfterLinks
<1>3. CASE CloseUnfinished \/ Report \/ ReportRefused \/ ReportBreaks \/ Apologize
  <2>1. UNCHANGED chat
    BY <1>3 DEF CloseUnfinished, Report, ReportRefused, ReportBreaks, Apologize
  <2> QED
    BY <1>1, <2>1 DEF HistoryInv, NothingAsked
<1> QED
  BY <1>2, <1>3

(* A conversation only goes on with its next turn stored or its loss told.   *)
LEMMA AnswerKeepsHistory ==
  ASSUME Typed, HistoryInv,
         \/ Prepare \/ Token \/ AnswerEnds \/ EndAnswer \/ PrepareUnreachable \/ AnswerFails
         \/ \E part \in {"question", "answer"} : Store(part) \/ StoreUnreachable(part)
  PROVE  HistoryInv'
<1>0. stream \in StreamType /\ chat \in ChatType
  BY TypeParts DEF Typed, ReadType
<1>a. said \subseteq said' => (Announced => Announced')
  BY DEF Announced
<1>1. CASE Prepare
  BY <1>0, <1>1, <1>a DEF Prepare, AtAnswer, Say, HistoryInv, HistoryIsWhole, Announced, ChatType
<1>2. CASE PrepareUnreachable
  BY <1>0, <1>2 DEF PrepareUnreachable, Unreachable, AtAnswer, Say, Goto, HistoryInv,
                    Announced, StreamType
<1>3. CASE Token
  BY <1>0, <1>3, <1>a DEF Token, AtAnswer, Say, HistoryInv, HistoryIsWhole, ChatType
<1>4. CASE AnswerEnds
  BY <1>0, <1>4 DEF AnswerEnds, AtAnswer, HistoryInv, HistoryIsWhole, Announced, ChatType
<1>5. CASE AnswerFails
  BY <1>0, <1>5 DEF AnswerFails, AtAnswer, Say, HistoryInv, Announced
<1>6. CASE EndAnswer
  BY <1>0, <1>6, <1>a DEF EndAnswer, Say, Goto, HistoryInv, HistoryIsWhole, StreamType
<1>7. ASSUME NEW part \in {"question", "answer"}, Store(part)
      PROVE  HistoryInv'
  <2>1. /\ stream.pc = "answer" /\ chat.step = part
        /\ chat'.step = NextStep(part) /\ chat'.user = chat.user
        /\ stream'.pc = IF NextStep(part) = "end" THEN "end" ELSE "answer"
        /\ said \subseteq said'
    BY <1>0, <1>7 DEF Store, AtAnswer, Stores, Say, ChatType, StreamType
  <2>2. CASE ~chat.user \/ Announced'
    BY <2>1, <2>2 DEF HistoryInv, NextStep
  <2>3. CASE chat.user /\ ~Announced'
    <3>1. HistoryIsWhole
      BY <1>a, <2>1, <2>3 DEF HistoryInv
    <3>2. chat' = [Stores(part) EXCEPT !.step = NextStep(part)]
      BY <1>7, <2>3, <3>1 DEF Store, Say, Warning, Announced, HistoryIsWhole
    <3>3. chat'.persist = chat.persist /\ chat'.stored = chat.stored \cup {part}
      BY <1>0, <3>2 DEF Stores, ChatType
    <3> QED
      BY <2>1, <3>1, <3>3 DEF HistoryInv, HistoryIsWhole, NextStep
  <2> QED
    BY <2>2, <2>3
<1>8. ASSUME NEW part \in {"question", "answer"}, StoreUnreachable(part)
      PROVE  HistoryInv'
  BY <1>0, <1>8 DEF StoreUnreachable, Unreachable, AtAnswer, Say, Goto, HistoryInv, Announced,
                    StreamType
<1> QED
  BY <1>1, <1>2, <1>3, <1>4, <1>5, <1>6, <1>7, <1>8

LEMMA HistoryStep == Typed /\ HistoryInv /\ [Next]_vars => HistoryInv'
<1> SUFFICES ASSUME Typed, HistoryInv, [Next]_vars PROVE HistoryInv'
  OBVIOUS
<1>1. CASE Next
  BY <1>1, NextCases, PollKeepsHistory, ReportKeepsHistory, AnswerKeepsHistory DEF StreamFails
<1>2. CASE UNCHANGED vars
  BY <1>2 DEF vars, HistoryInv, HistoryIsWhole, NothingAsked, Announced
<1> QED
  BY <1>1, <1>2

(* A conversation that belongs to a user is in the history, question and      *)
(* answer, or its client was told that something went wrong, whichever call   *)
(* of the history or the model fails.                                        *)
THEOREM LossesAreAnnounced == Spec => []LossIsAnnounced
<1>1. Typed /\ HistoryInv => LossIsAnnounced
  <2> SUFFICES ASSUME Typed, HistoryInv, Closed, chat.user, chat.stored # {"question", "answer"},
                      ~Announced
               PROVE  FALSE
    BY DEF LossIsAnnounced, Announced
  <2>1. HistoryIsWhole /\ chat.step = "end"
    BY DEF HistoryInv, HistoryIsWhole, Closed
  <2>2. chat.stored \subseteq {"question", "answer"}
    BY TypeParts DEF Typed, ReadType, ChatType
  <2> QED
    BY <2>1, <2>2 DEF HistoryIsWhole
<1>2. Init => Typed /\ HistoryInv
  BY TypeInit, HistoryInit
<1>3. Typed /\ HistoryInv /\ [Next]_vars => Typed' /\ HistoryInv'
  BY TypeStep, HistoryStep
<1> QED
  BY <1>1, <1>2, <1>3, PTL DEF Spec
=============================================================================
