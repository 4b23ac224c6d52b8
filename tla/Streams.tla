------------------------------ MODULE Streams ------------------------------
(***************************************************************************)
(* The event streams of one task.  A stream polls the row and the events   *)
(* of its task and tells its client what changed; the chat stream goes on  *)
(* with an answer of the chat model and stores question and answer in the  *)
(* chat history.  Four generators:                                         *)
(*   status    _task_sse_generator, service/api/tasks.py                   *)
(*   report    task_stream_with_report_generator, the same file            *)
(*   chat      task_stream_with_chat_generator, the same file              *)
(*   scenario  _scenario_task_sse_generator, service/api/scenarios.py      *)
(* They poll with the same loop: which one a stream is matters, and is       *)
(* chosen, when its loop ends.                                              *)
(*                                                                         *)
(* The API and one worker write the row and its events.  A transaction     *)
(* draws the id of its event and locks the row when it flushes; the models *)
(* have no relationship(), so the two may come in either order.            *)
(***************************************************************************)
EXTENDS TaskState, Sequences, FiniteSets

CONSTANTS Kinds, MaxDetours, MaxTokens, MaxFaults

ASSUME StreamsAssumption ==
    /\ Kinds \subseteq {"status", "report", "chat", "scenario"}
    /\ {MaxDetours, MaxTokens, MaxFaults} \subseteq Nat

VARIABLES
    row,       \* committed status of the task
    events,    \* ids of the committed events
    nextId,    \* the sequence of event ids
    tx,        \* the open transaction of each writer
    worker,    \* what the worker is doing for the task
    message,   \* the broker holds a message of the task
    spent,     \* waits, re-runs and faults so far, for the bounds
    stream,    \* the stream: its place and its local variables
    told,      \* the ids of the events its client got, in order
    said,      \* what else its client got
    chat,      \* the conversation: local variables of stream_chat_answer
    late       \* ids that were committed behind the stream's cursor

vars == <<row, events, nextId, tx, worker, message, spent, stream, told, said, chat, late>>

writing == <<row, events, nextId, tx, worker, message, late>>

Writers == {"api", "worker"}
-----------------------------------------------------------------------------
(* Writers. *)

NoTx == [open |-> FALSE, loaded |-> "queued", to |-> "queued", id |-> 0,
         lock |-> "none"]

(* A transaction that read the row, wants it in status "to" and adds an     *)
(* event.  "changes": some column of the row changes, so it will be locked. *)
Opened(to, changes) ==
    [open |-> TRUE, loaded |-> row, to |-> to, id |-> 0,
     lock |-> IF changes THEN "wanted" ELSE "none"]

Begin(w, to, changes) ==
    /\ ~tx[w].open
    /\ tx' = [tx EXCEPT ![w] = Opened(to, changes)]

RowIsFree(w) == \A other \in Writers \ {w} : tx[other].lock # "held"

(* The flush: the event gets its id, before or after the row is locked. *)
Flush(w) ==
    /\ tx[w].open /\ tx[w].id = 0
    /\ nextId' = nextId + 1
    /\ \/ tx' = [tx EXCEPT ![w].id = nextId]
       \/ /\ tx[w].lock = "wanted" /\ RowIsFree(w)
          /\ tx' = [tx EXCEPT ![w].id = nextId, ![w].lock = "held"]
    /\ UNCHANGED <<row, events, worker, message, spent, stream, told, said, chat, late>>

(* The status is written when it differs from the one that was loaded. *)
Commit(w) ==
    /\ tx[w].open /\ tx[w].id # 0
    /\ tx[w].lock = "wanted" => RowIsFree(w)
    /\ row' = IF tx[w].to # tx[w].loaded THEN tx[w].to ELSE row
    /\ events' = events \cup {tx[w].id}
    /\ late' = IF tx[w].id < stream.cursor THEN late \cup {tx[w].id} ELSE late
    /\ tx' = [tx EXCEPT ![w] = NoTx]
    /\ worker' = IF w = "api" THEN worker
                 ELSE CASE tx[w].to = "running" -> "running"
                        [] OTHER                -> "free"
    /\ message' = (message \/ (w = "worker" /\ tx[w].to = "waiting_capacity"))
    /\ UNCHANGED <<nextId, spent, stream, told, said, chat>>

Spend(what) == spent' = [spent EXCEPT ![what] = @ + 1]

(* Waits and re-runs are bounded together. *)
Detour(what) == spent.waits + spent.reruns < MaxDetours /\ Spend(what)

(* DELETE /tasks/{external_id}, of a task that waits for a worker *)
Cancel ==
    /\ row \in {"queued", "waiting_capacity"}
    /\ Begin("api", "failed", TRUE)
    /\ message' = FALSE
    /\ UNCHANGED <<row, events, nextId, worker, spent, stream, told, said, chat, late>>

(* POST /tasks/{external_id}/recompute: the row is committed as queued       *)
(* before the message is sent; the transaction that follows stamps the id of *)
(* the message.                                                             *)
Recompute ==
    /\ row # "running" /\ ~tx["api"].open
    /\ RowIsFree("api")
    /\ Detour("reruns")
    /\ row' = "queued"
    /\ message' = TRUE
    /\ tx' = [tx EXCEPT !["api"] = [Opened("queued", TRUE) EXCEPT !.loaded = "queued"]]
    /\ UNCHANGED <<events, nextId, worker, stream, told, said, chat, late>>

(* The worker's start: a task that finds no capacity waits, and its message *)
(* comes back; one that gave up too often fails.                            *)
Take(to) ==
    /\ message /\ worker = "free" /\ row # "finished"
    /\ message' = FALSE
    /\ worker' = "starting"
    /\ Begin("worker", to, to # "waiting_capacity" \/ row # "waiting_capacity")
    /\ UNCHANGED <<row, events, nextId, stream, told, said, chat, late>>

Wait == Detour("waits") /\ Take("waiting_capacity")

Start == Take("running") /\ UNCHANGED spent

GiveUp == spent.waits > 0 /\ Take("failed") /\ UNCHANGED spent

(* A message whose task has finished: start_task refuses the transition. *)
Refuse ==
    /\ message /\ worker = "free" /\ row = "finished"
    /\ message' = FALSE
    /\ UNCHANGED <<row, events, nextId, tx, worker, spent, stream, told, said, chat, late>>

Finish(to) ==
    /\ worker = "running"
    /\ worker' = "ending"
    /\ Begin("worker", to, TRUE)
    /\ UNCHANGED <<row, events, nextId, message, spent, stream, told, said, chat, late>>

WriterStep(w) == Flush(w) \/ Commit(w)

WorkerStep ==
    \/ WriterStep("worker")
    \/ Wait \/ Start \/ GiveUp \/ Refuse
    \/ \E to \in Terminal : Finish(to)
-----------------------------------------------------------------------------
(* Streams. *)

MutSeenAgain(id, cursor) == id >= cursor

(* TaskEvent.id > last_event_id *)
IsNew(id, cursor) == id > cursor

(* Order by id. *)
Ascending(ids) ==
    [n \in 1..Cardinality(ids) |->
        CHOOSE id \in ids : Cardinality({other \in ids : other <= id}) = n]

Say(what) == said' = said \cup what /\ UNCHANGED told

Goto(pc) == stream' = [stream EXCEPT !.pc = pc]

MutEscapes(kind) == "aborted"

(* Where an exception leads: out of the generator, or to the handler that   *)
(* ends the chat stream.                                                    *)
AfterException(kind) == IF kind = "chat" THEN "apology" ELSE "aborted"

Fault == spent.faults < MaxFaults /\ Spend("faults")

(* A poll reads the row and, in a second statement of a READ COMMITTED       *)
(* transaction, the events.                                                  *)
ReadRow ==
    /\ stream.pc = "poll"
    /\ stream' = [stream EXCEPT !.pc = "events", !.read = row]
    /\ UNCHANGED <<writing, told, said, spent, chat>>

MutEndsFirst == IF stream.read \in Terminal THEN {} ELSE {id \in events : id > stream.cursor}

NewEvents == {id \in events : IsNew(id, stream.cursor)}

(* A stream that has seen the end of its task reads neither the row nor the  *)
(* events again: the model forgets the writers there.  A client that goes is *)
(* left out too: its stream ends at the next yield, and what it got by then  *)
(* is what a client that stays has at that point.                            *)
Forget ==
    /\ row' = stream.read /\ events' = {} /\ late' = {} /\ nextId' = 1
    /\ tx' = [w \in Writers |-> NoTx]
    /\ worker' = "free" /\ message' = FALSE

ReadEvents ==
    LET new == NewEvents
        over == stream.read \in Terminal IN
    /\ stream.pc = "events"
    /\ told' = told \o Ascending(new)
    /\ \E kind \in IF over THEN Kinds ELSE {"any"} :
         stream' = [stream EXCEPT
            !.kind = kind,
            !.pc = IF over THEN "final" ELSE "poll",
            !.cursor = IF new = {} THEN @ ELSE Ascending(new)[Cardinality(new)],
            !.last = stream.read]
    /\ IF over THEN Forget ELSE UNCHANGED writing
    /\ UNCHANGED <<spent, chat, said>>

(* No connection, or a statement that fails. *)
PollFails ==
    /\ stream.pc \in {"poll", "events"}
    /\ Fault
    /\ \E kind \in Kinds :
          stream' = [stream EXCEPT !.kind = kind, !.pc = AfterException(kind)]
    /\ UNCHANGED <<writing, told, said, chat>>
-----------------------------------------------------------------------------
(* The last stage.  A finished task has a report and links to its layers;   *)
(* an HTTPException of the report becomes an error event, and the scenario   *)
(* stream swallows whatever its report raises.                               *)

Finished == stream.read = "finished"

EndStream == stream.pc = "final" /\ (stream.kind = "status" \/ ~Finished)

CloseUnfinished ==
    /\ EndStream
    /\ Say({"done"})
    /\ Goto("closed")
    /\ UNCHANGED <<writing, spent, chat>>

AfterReport(items) ==
    IF stream.kind = "scenario"
    THEN Say(items \cup {"done"}) /\ Goto("closed")
    ELSE Say(items \cup {"file"}) /\ Goto("links")

Report ==
    /\ stream.pc = "final" /\ ~EndStream
    /\ AfterReport({"report"})
    /\ UNCHANGED <<writing, spent, chat>>

ReportRefused ==
    /\ stream.pc = "final" /\ ~EndStream
    /\ Fault
    /\ AfterReport(IF stream.kind = "scenario" THEN {} ELSE {"error"})
    /\ UNCHANGED <<writing, chat>>

ReportBreaks ==
    /\ stream.pc = "final" /\ ~EndStream /\ stream.kind # "scenario"
    /\ Fault
    /\ Goto(AfterException(stream.kind))
    /\ UNCHANGED <<writing, told, said, chat>>

(* Whether the request has a user and names a chat matters from here on. *)
AfterLinks ==
    /\ stream.pc = "links"
    /\ \/ /\ stream.kind = "report"
          /\ Say({"done"}) /\ Goto("closed") /\ UNCHANGED chat
       \/ /\ stream.kind = "chat"
          /\ UNCHANGED <<told, said>> /\ Goto("answer")
          /\ \E user, named \in BOOLEAN :
                chat' = [chat EXCEPT !.user = user, !.persist = user, !.named = named]
    /\ UNCHANGED <<writing, spent>>

Apologize ==
    /\ stream.pc = "apology"
    /\ Say({"error", "done"})
    /\ Goto("closed")
    /\ UNCHANGED <<writing, spent, chat>>

-----------------------------------------------------------------------------
(* The answer: stream_chat_answer, run by _stream_chat_answer_managed.       *)

AtAnswer(step) == stream.pc = "answer" /\ chat.step = step

(* What a call of the chat history may come to.  A refusal is a              *)
(* ChatStorageError; a transport error of httpx is not, and the request may  *)
(* have arrived.                                                            *)
Unreachable(next) ==
    /\ Fault
    /\ chat' = next
    /\ Say({"error"})
    /\ Goto("end")
    /\ UNCHANGED writing

(* get_chat of a chat the client named; create_chat of one it did not.       *)
Prepare ==
    /\ AtAnswer("prepare")
    /\ \/ /\ chat.persist
          /\ Say(IF chat.named THEN {} ELSE {"chat_created"})
          /\ chat' = [chat EXCEPT !.step = "question"]
          /\ UNCHANGED spent
       \/ /\ ~chat.persist
          /\ chat' = [chat EXCEPT !.step = "tokens"]
          /\ UNCHANGED <<told, said, spent>>
       \/ /\ chat.persist /\ Fault
          /\ Say({"warning"})
          /\ chat' = [chat EXCEPT !.step = IF chat.named THEN "question" ELSE "tokens",
                                 !.persist = chat.named]
    /\ UNCHANGED <<writing, stream>>

PrepareUnreachable == AtAnswer("prepare") /\ chat.persist /\ Unreachable(chat)

MutNoWarning == {}

Warning == {"warning"}

Stores(part) == [chat EXCEPT !.stored = @ \cup {part}]

NextStep(part) == IF part = "question" THEN "tokens" ELSE "end"

(* add_message of the user's turn, then of the assistant's with the links to *)
(* the layers, which every finished task has.                               *)
Store(part) ==
    /\ AtAnswer(part)
    /\ \/ /\ chat.persist
          /\ chat' = [Stores(part) EXCEPT !.step = NextStep(part)]
          /\ UNCHANGED <<told, said, spent>>
       \/ /\ chat.persist /\ Fault
          /\ Say(Warning)
          /\ chat' = [chat EXCEPT !.step = NextStep(part)]
       \/ /\ ~chat.persist
          /\ chat' = [chat EXCEPT !.step = NextStep(part)]
          /\ UNCHANGED <<told, said, spent>>
    /\ stream' = [stream EXCEPT !.pc = IF chat'.step = "end" THEN "end" ELSE @]
    /\ UNCHANGED writing

StoreUnreachable(part) ==
    /\ AtAnswer(part) /\ chat.persist
    /\ \E next \in {chat, Stores(part)} : Unreachable(next)

Token ==
    /\ AtAnswer("tokens") /\ chat.tokens < MaxTokens
    /\ Say({"chunk"})
    /\ chat' = [chat EXCEPT !.tokens = @ + 1]
    /\ UNCHANGED <<writing, spent, stream>>

AnswerEnds ==
    /\ AtAnswer("tokens")
    /\ chat' = [chat EXCEPT !.step = "answer"]
    /\ UNCHANGED <<writing, told, said, spent, stream>>

(* ChatLlmError: a refusal, a broken stream or no connection. *)
AnswerFails ==
    /\ AtAnswer("tokens") /\ Fault
    /\ Say({"error"})
    /\ chat' = [chat EXCEPT !.step = "answer"]
    /\ UNCHANGED <<writing, stream>>

EndAnswer ==
    /\ stream.pc = "end"
    /\ Say({"done"} \cup IF chat.tokens > 0 THEN {"final_chunk"} ELSE {})
    /\ Goto("closed")
    /\ UNCHANGED <<writing, spent, chat>>
-----------------------------------------------------------------------------
StreamStep ==
    \/ ReadRow \/ ReadEvents \/ CloseUnfinished \/ Report \/ AfterLinks
    \/ Apologize \/ Prepare \/ Token \/ AnswerEnds \/ EndAnswer
    \/ \E part \in {"question", "answer"} : Store(part)

StreamFails ==
    \/ PollFails \/ ReportRefused \/ ReportBreaks
    \/ PrepareUnreachable \/ AnswerFails
    \/ \E part \in {"question", "answer"} : StoreUnreachable(part)

(* A task that was just created: its row is committed, its message is sent,  *)
(* and the transaction that stamps the message's id on it is open.           *)
Init ==
    /\ row = "queued" /\ events = {} /\ nextId = 1 /\ late = {}
    /\ tx = [w \in Writers |-> IF w = "api" THEN Opened("queued", TRUE) ELSE NoTx]
    /\ worker = "free" /\ message = TRUE
    /\ spent = [waits |-> 0, reruns |-> 0, faults |-> 0]
    /\ stream = [kind |-> "any", pc |-> "poll", cursor |-> 0, last |-> "none", read |-> "none"]
    /\ told = <<>> /\ said = {}
    /\ chat = [step |-> "prepare", user |-> FALSE, persist |-> FALSE, named |-> FALSE,
              stored |-> {}, tokens |-> 0]

Watching == stream.pc \in {"poll", "events"}

Write ==
    /\ Watching
    /\ WorkerStep \/ WriterStep("api") \/ Cancel \/ Recompute

Next ==
    \/ Write
    \/ StreamStep \/ StreamFails

(* The event loop goes on with a stream whose awaits return, the worker      *)
(* takes its messages and ends its runs, requests end.                       *)
Fairness ==
    /\ WF_vars(StreamStep)
    /\ WF_vars(Watching /\ WorkerStep)
    /\ WF_vars(Watching /\ WriterStep("api"))

Spec == Init /\ [][Next]_vars /\ Fairness
-----------------------------------------------------------------------------
TypeOK ==
    /\ row \in Status /\ nextId \in Nat \ {0}
    /\ events \subseteq 1..nextId /\ late \subseteq events
    /\ tx \in [Writers -> [open : BOOLEAN, loaded : Status, to : Status, id : Nat,
                           lock : {"none", "wanted", "held"}]]
    /\ worker \in {"free", "starting", "running", "ending"} /\ message \in BOOLEAN
    /\ spent \in [waits : 0..MaxDetours, reruns : 0..MaxDetours, faults : 0..MaxFaults]
    /\ stream \in [kind : Kinds \cup {"any"},
                   pc : {"poll", "events", "final", "links", "answer", "end",
                         "apology", "closed", "aborted"},
                   cursor : Nat, last : Status \cup {"none"}, read : Status \cup {"none"}]
    /\ told \in Seq(Nat)
    /\ said \subseteq {"report", "file", "error", "warning",
                       "chat_created", "chunk", "final_chunk", "done"}
    /\ chat \in [step : {"prepare", "question", "tokens", "answer", "end"}, user : BOOLEAN,
                 persist : BOOLEAN, named : BOOLEAN,
                 stored : SUBSET {"question", "answer"}, tokens : 0..MaxTokens]

Closed == stream.pc = "closed"

(* However polls, commits and re-runs fall, a client gets every event once    *)
(* and in the order of the ids (the cursor last_event_id).                    *)
StreamIsOrderly == \A i, j \in DOMAIN told : i < j => told[i] < told[j]

(* When a stream has seen its task end, its client has got every event that  *)
(* was committed, but for those that an event with a higher id overtook: the *)
(* row is read before the events, so the event of the transaction that ended *)
(* the task is among them.                                                   *)
NothingMissed ==
    [][stream.pc = "events" /\ stream'.pc = "final" =>
         events \ late \subseteq {told'[i] : i \in DOMAIN told'}]_vars

(* A conversation that belongs to a user is in the history, question and     *)
(* answer, or its client was told that something went wrong.                 *)
LossIsAnnounced ==
    Closed /\ chat.user /\ Finished /\ chat.stored # {"question", "answer"} =>
        "warning" \in said \/ "error" \in said

(* Every stream ends once its task has settled, and a chat stream ends with   *)
(* done ("done is emitted unconditionally"), whatever call fails on the way.  *)
StreamEnds ==
    <>[](\/ Closed /\ "done" \in said
         \/ stream.pc = "aborted" /\ stream.kind # "chat")

(* What the docstring of chat_answer.py promises of the history ("a          *)
(* ChatStorage failure is surfaced as a warning event but never aborts the   *)
(* token stream"): the model is asked whatever the history answers.          *)
AnswerIsStreamed ==
    Closed /\ stream.kind = "chat" /\ "file" \in said => chat.step \notin {"prepare", "question"}
=============================================================================
