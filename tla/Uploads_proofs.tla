--------------------------- MODULE Uploads_proofs ---------------------------
(***************************************************************************)
(* Theorems about Uploads, for any number of uploads, layers and requests: *)
(* types, the promise that an upload stays its time, and that a layer of a *)
(* task is the one that was uploaded for it unless another file is copied  *)
(* over it, whatever the clients call their files.                         *)
(***************************************************************************)
EXTENDS Uploads, TLAPS

(* A step of request r that leaves it in state q. *)
LEMMA RequestUpdate ==
    ASSUME TypeOK, NEW r \in Requests, NEW q \in RequestState,
           request' = [request EXCEPT ![r] = q]
    PROVE  request' \in [Requests -> RequestState]
BY DEF TypeOK

LEMMA IdleIsRequest == IdleRequest \in RequestState
<1>1. 1 \in Slots
  BY UploadsAssumption DEF Slots
<1>2. NoInputs \in [Slots -> Bytes \cup {NoBytes}]
  BY DEF NoInputs
<1> QED
  BY <1>1, <1>2 DEF IdleRequest, RequestState, Sources

(* The next layer of a request is a layer. *)
LEMMA NextSlotTyped ==
    ASSUME TypeOK, NEW r \in Requests, NEW q \in RequestState,
           NEW again \in {"resolve", "ingest"}, NEW then \in {"ingest", "commit"},
           NextSlot(r, again, then, q)
    PROVE  request' \in [Requests -> RequestState]
<1>1. 1 \in Slots
  BY UploadsAssumption DEF Slots
<1>2. CASE q.slot = NumSlots
  <2>1. [q EXCEPT !.pc = then, !.slot = 1] \in RequestState
    BY <1>1 DEF RequestState
  <2> QED
    BY <1>2, <2>1, RequestUpdate DEF NextSlot
<1>3. CASE q.slot # NumSlots
  <2>1. q.slot + 1 \in Slots
    BY <1>3, UploadsAssumption DEF RequestState, Slots
  <2>2. [q EXCEPT !.pc = again, !.slot = @ + 1] \in RequestState
    BY <2>1 DEF RequestState
  <2> QED
    BY <1>3, <2>2, RequestUpdate DEF NextSlot
<1> QED
  BY <1>2, <1>3

LEMMA TypeInit == Init => TypeOK
BY IdleIsRequest DEF Init, TypeOK, UploadState

LEMMA TypeStep == TypeOK /\ [Next]_vars => TypeOK'
<1> SUFFICES ASSUME TypeOK, [Next]_vars PROVE TypeOK'
  OBVIOUS
<1> USE DEF TypeOK
<1>1. ASSUME NEW u \in Ids, Reserve(u) \/ Register(u) \/ UploadFails(u) \/ Expire(u) \/ Purge(u)
      PROVE  TypeOK'
  <2>1. upload' \in [Ids -> UploadState]
    <3>1. CASE Reserve(u)
      BY <3>1 DEF Reserve, UploadState
    <3>2. CASE Register(u)
      BY <3>2 DEF Register, UploadState
    <3>3. CASE UploadFails(u)
      BY <3>3 DEF UploadFails, UploadState
    <3>4. CASE Expire(u)
      BY <3>4 DEF Expire, UploadState
    <3>5. CASE Purge(u)
      BY <3>5 DEF Purge, UploadState
    <3> QED
      BY <1>1, <3>1, <3>2, <3>3, <3>4, <3>5
  <2>2. request' = request /\ faults' \in Nat
    BY <1>1, UploadsAssumption DEF Reserve, Register, UploadFails, Expire, Purge, Fails
  <2> QED
    BY <2>1, <2>2
<1>2. ASSUME NEW r \in Requests, NEW plan \in [Slots -> Sources], Submit(r, plan)
      PROVE  TypeOK'
  <2>1. [request[r] EXCEPT !.pc = "resolve", !.plan = plan] \in RequestState
    BY DEF RequestState
  <2>2. request' = [request EXCEPT ![r] = [request[r] EXCEPT !.pc = "resolve", !.plan = plan]]
    BY <1>2 DEF Submit
  <2> QED
    BY <1>2, <2>1, <2>2, RequestUpdate DEF Submit
<1>3. ASSUME NEW r \in Requests, PassInline(r)
      PROVE  TypeOK'
  <2>1. request[r] \in RequestState
    OBVIOUS
  <2> QED
    BY <1>3, <2>1, NextSlotTyped DEF PassInline
<1>4. ASSUME NEW r \in Requests, EndRequest(r)
      PROVE  request' \in [Requests -> RequestState]
  BY <1>4, IdleIsRequest, RequestUpdate DEF EndRequest
<1>5. ASSUME NEW r \in Requests, Resolve(r)
      PROVE  TypeOK'
  <2>1. CASE EndRequest(r)
    BY <1>4, <1>5, <2>1 DEF Resolve
  <2>2. CASE request' = [request EXCEPT ![r].pc = "copy"]
    <3>1. [request[r] EXCEPT !.pc = "copy"] \in RequestState
      BY DEF RequestState
    <3> QED
      BY <1>5, <2>2, <3>1, RequestUpdate DEF Resolve
  <2> QED
    BY <1>5, <2>1, <2>2 DEF Resolve
<1>6. ASSUME NEW r \in Requests, Copy(r)
      PROVE  TypeOK'
  <2> DEFINE u == Source(r)
             q == [request[r] EXCEPT !.scratch[ScratchName(u)] = Stored(u)]
  <2>1. CASE EndRequest(r)
    BY <1>4, <1>6, <2>1 DEF Copy
  <2>2. CASE NextSlot(r, "resolve", "ingest", q)
    <3>1. u \in Sources
      BY DEF Source, RequestState
    <3>2. Stored(u) \in Bytes
      BY <3>1 DEF Stored, Bytes
    <3>3. q \in RequestState
      BY <3>2 DEF RequestState
    <3> QED
      BY <1>6, <2>2, <3>3, NextSlotTyped DEF Copy
  <2> QED
    BY <1>6, <2>1, <2>2 DEF Copy
<1>7. ASSUME NEW r \in Requests, Ingest(r)
      PROVE  TypeOK'
  <2> DEFINE u == Source(r)
             q == [request[r] EXCEPT !.inputs[request[r].slot] = Handle(r, u)]
  <2>1. Handle(r, u) \in Bytes \cup {NoBytes}
    <3>1. CASE u = Inline
      BY <3>1 DEF Handle, Bytes, Sources
    <3>2. CASE u # Inline
      <4>1. ScratchName(u) \in Filenames
        BY <3>2, UploadsAssumption DEF ScratchName, Source, RequestState, Sources
      <4> QED
        BY <3>2, <4>1 DEF Handle, RequestState
    <3> QED
      BY <3>1, <3>2
  <2>2. q \in RequestState
    BY <2>1 DEF RequestState
  <2> QED
    BY <1>7, <2>2, NextSlotTyped DEF Ingest
<1>8. ASSUME NEW r \in Requests, Commit(r) \/ SubmitFails(r)
      PROVE  TypeOK'
  <2>1. upload' = upload /\ faults' \in Nat /\ EndRequest(r)
    BY <1>8, UploadsAssumption DEF Commit, SubmitFails, Fails
  <2> QED
    BY <1>4, <2>1
<1>9. CASE UNCHANGED vars
  BY <1>9 DEF vars
<1> QED
  BY <1>1, <1>2, <1>3, <1>5, <1>6, <1>7, <1>8, <1>9 DEF Next, RequestStep

(* Every variable keeps to its type, for every instance. *)
THEOREM UploadsTypeCorrect == Spec => []TypeOK
BY TypeInit, TypeStep, PTL DEF Spec

(* No step but a failing transfer removes an upload that is still being
   transferred, or one that has not reached its age: the purge never takes a
   directory without metadata for an abandoned one too early. *)
THEOREM UploadsStay == Spec => UploadsAreKept
<1>1. TypeOK /\ [Next]_vars =>
        [\A u \in Ids :
           upload[u].state \in {"streaming", "stored"} /\ ~upload[u].late
               => upload'[u].state # "removed" \/ UploadFails(u)]_vars
  <2> SUFFICES ASSUME TypeOK, Next, NEW u \in Ids,
                      upload[u].state \in {"streaming", "stored"}, ~upload[u].late
               PROVE  upload'[u].state # "removed" \/ UploadFails(u)
    OBVIOUS
  <2> USE DEF TypeOK, UploadState
  <2>1. ASSUME NEW v \in Ids, Reserve(v) \/ Register(v) \/ Expire(v)
        PROVE  upload'[u].state # "removed"
    BY <2>1 DEF Reserve, Register, Expire
  <2>2. ASSUME NEW v \in Ids, UploadFails(v)
        PROVE  upload'[u].state # "removed" \/ UploadFails(u)
    <3>1. CASE v = u
      BY <2>2, <3>1
    <3>2. CASE v # u
      <4>1. upload'[u] = upload[u]
        BY <2>2, <3>2 DEF UploadFails
      <4> QED
        BY <4>1
    <3> QED
      BY <3>1, <3>2
  <2>3. ASSUME NEW v \in Ids, Purge(v)
        PROVE  upload'[u].state # "removed"
    BY <2>3 DEF Purge, Purgeable
  <2>4. ASSUME NEW r \in Requests,
               (\E plan \in [Slots -> Sources] : Submit(r, plan)) \/ RequestStep(r) \/ SubmitFails(r)
        PROVE  upload' = upload
    BY <2>4 DEF Submit, RequestStep, PassInline, Resolve, Copy, Ingest, Commit, SubmitFails
  <2> QED
    BY <2>1, <2>2, <2>3, <2>4 DEF Next
<1> QED
  BY <1>1, UploadsTypeCorrect, PTL DEF Spec, UploadsAreKept
-----------------------------------------------------------------------------
(* Some layer before n has written over the copy of slot s. *)
OverwrittenBefore(plan, s, n) ==
    \/ NameOf[plan[s]] = MetaName
    \/ \E t \in Slots : /\ s < t /\ t < n
                        /\ plan[t] \in Ids \ {plan[s]}
                        /\ NameOf[plan[t]] = NameOf[plan[s]]

(* What the layers of a request have been turned into so far: those before
   the current one have been copied, and then read; a copy that has been made
   holds what was uploaded while no later one is written over it. *)
CopiesBefore(q, n) ==
    \A s \in Slots : s < n /\ q.plan[s] # Inline /\ ~OverwrittenBefore(q.plan, s, n)
                        => q.scratch[ScratchName(q.plan[s])] = q.plan[s]

InputsBefore(q, n) ==
    \A s \in Slots : s < n /\ ~Overwritten(q.plan, s) => q.inputs[s] = q.plan[s]

Progress(q) ==
    /\ q.pc = "idle" => q.slot = 1
    /\ q.pc \in {"resolve", "copy"} => CopiesBefore(q, q.slot)
    /\ q.pc = "copy" => q.plan[q.slot] # Inline
    /\ q.pc = "ingest" => CopiesBefore(q, NumSlots + 1) /\ InputsBefore(q, q.slot)
    /\ q.pc = "commit" => InputsBefore(q, NumSlots + 1)

Inv == TypeOK /\ \A r \in Requests : Progress(request[r])

LEMMA IdleProgress == Progress(IdleRequest)
BY DEF Progress, IdleRequest

(* The step to the next layer keeps the account if that layer is done. *)
LEMMA NextSlotProgress ==
    ASSUME TypeOK, NEW r \in Requests, NEW q \in RequestState,
           NEW again \in {"resolve", "ingest"}, NEW then \in {"ingest", "commit"},
           NextSlot(r, again, then, q),
           \/ /\ again = "resolve" /\ then = "ingest"
              /\ CopiesBefore(q, q.slot + 1)
           \/ /\ again = "ingest" /\ then = "commit"
              /\ CopiesBefore(q, NumSlots + 1)
              /\ InputsBefore(q, q.slot + 1)
    PROVE  Progress(request'[r])
<1> USE UploadsAssumption
<1>1. CASE q.slot = NumSlots
  <2> DEFINE p == [q EXCEPT !.pc = then, !.slot = 1]
  <2>1. request'[r] = p
    BY <1>1 DEF NextSlot, TypeOK
  <2>2. p.pc = then /\ p.slot = 1 /\ p.plan = q.plan /\ p.scratch = q.scratch /\ p.inputs = q.inputs
    BY DEF RequestState
  <2>3. \A n : (CopiesBefore(p, n) <=> CopiesBefore(q, n)) /\ (InputsBefore(p, n) <=> InputsBefore(q, n))
    BY <2>2 DEF CopiesBefore, InputsBefore
  <2>4. InputsBefore(p, 1)
    BY DEF InputsBefore, Slots
  <2> QED
    BY <1>1, <2>1, <2>2, <2>3, <2>4 DEF Progress
<1>2. CASE q.slot # NumSlots
  <2> DEFINE p == [q EXCEPT !.pc = again, !.slot = @ + 1]
  <2>1. request'[r] = p
    BY <1>2 DEF NextSlot, TypeOK
  <2>2. p.pc = again /\ p.slot = q.slot + 1 /\ p.plan = q.plan /\ p.scratch = q.scratch /\ p.inputs = q.inputs
    BY DEF RequestState
  <2>3. \A n : (CopiesBefore(p, n) <=> CopiesBefore(q, n)) /\ (InputsBefore(p, n) <=> InputsBefore(q, n))
    BY <2>2 DEF CopiesBefore, InputsBefore
  <2> QED
    BY <2>1, <2>2, <2>3 DEF Progress
<1> QED
  BY <1>1, <1>2

(* The copy of one layer leaves those of other names alone. *)
LEMMA CopyProgress ==
    ASSUME Inv, NEW r \in Requests, Copy(r)
    PROVE  Progress(request'[r])
<1> DEFINE q == request[r]
           u == Source(r)
           p == [q EXCEPT !.scratch[ScratchName(u)] = Stored(u)]
<1>1. q \in RequestState /\ q.pc = "copy" /\ CopiesBefore(q, q.slot) /\ u # Inline /\ u = q.plan[q.slot]
  BY DEF Inv, TypeOK, Copy, Progress, Source
<1>2. CASE EndRequest(r)
  BY <1>2, IdleProgress DEF EndRequest, Inv, TypeOK
<1>3. CASE NextSlot(r, "resolve", "ingest", p)
  <2>1. u \in Ids /\ Stored(u) \in Bytes /\ ScratchName(u) \in Filenames /\ q.slot \in Slots
    BY <1>1, UploadsAssumption DEF Stored, RequestState, Sources, ScratchName, Bytes
  <2>2. p \in RequestState
    BY <1>1, <2>1 DEF RequestState
  <2>3. p.plan = q.plan /\ p.slot = q.slot
    BY <1>1 DEF RequestState
  <2>4. ASSUME NEW s \in Slots, s < q.slot + 1, q.plan[s] # Inline,
               ~OverwrittenBefore(q.plan, s, q.slot + 1)
        PROVE  p.scratch[ScratchName(q.plan[s])] = q.plan[s]
    <3>1. q.plan[s] \in Ids /\ ScratchName(q.plan[s]) \in Filenames
      BY <1>1, <2>4, UploadsAssumption DEF RequestState, Sources, ScratchName
    <3>2. CASE q.plan[s] = u
      <4>1. Stored(u) = u
        BY <2>4, <3>2 DEF OverwrittenBefore, Stored
      <4> QED
        BY <1>1, <2>1, <3>1, <3>2, <4>1 DEF RequestState
    <3>3. CASE q.plan[s] # u
      <4>1. s < q.slot /\ q.slot < q.slot + 1
        BY <1>1, <2>1, <2>4, <3>3, UploadsAssumption DEF Slots
      <4>2. ScratchName(q.plan[s]) # ScratchName(u)
        BY <1>1, <2>1, <2>4, <3>3, <4>1 DEF OverwrittenBefore, ScratchName
      <4>3. ~OverwrittenBefore(q.plan, s, q.slot)
        BY <2>1, <2>4, UploadsAssumption DEF OverwrittenBefore, Slots
      <4>4. q.scratch[ScratchName(q.plan[s])] = q.plan[s]
        BY <1>1, <2>4, <4>1, <4>3 DEF CopiesBefore
      <4> QED
        BY <1>1, <3>1, <4>2, <4>4 DEF RequestState
    <3> QED
      BY <3>2, <3>3
  <2>5. CopiesBefore(p, p.slot + 1)
    BY <2>3, <2>4 DEF CopiesBefore
  <2> QED
    BY <1>3, <2>2, <2>5, NextSlotProgress DEF Inv
<1> QED
  BY <1>2, <1>3 DEF Copy

LEMMA IngestProgress ==
    ASSUME Inv, NEW r \in Requests, Ingest(r)
    PROVE  Progress(request'[r])
<1> DEFINE q == request[r]
           u == Source(r)
           p == [q EXCEPT !.inputs[q.slot] = Handle(r, u)]
<1>1. q \in RequestState /\ CopiesBefore(q, NumSlots + 1) /\ InputsBefore(q, q.slot) /\ u = q.plan[q.slot]
  BY DEF Inv, TypeOK, Ingest, Progress, Source
<1>2. q.slot \in Slots /\ q.slot < NumSlots + 1 /\ u \in Sources
  BY <1>1, UploadsAssumption DEF RequestState, Slots
<1>3. ASSUME ~Overwritten(q.plan, q.slot) PROVE Handle(r, u) = u
  <2>1. CASE u = Inline
    BY <2>1 DEF Handle
  <2>2. CASE u # Inline
    <3>1. ~OverwrittenBefore(q.plan, q.slot, NumSlots + 1)
      BY <1>1, <1>2, <1>3, <2>2 DEF Overwritten, OverwrittenBefore, Sources
    <3>2. q.scratch[ScratchName(u)] = u
      BY <1>1, <1>2, <2>2, <3>1 DEF CopiesBefore
    <3> QED
      BY <2>2, <3>2 DEF Handle
  <2> QED
    BY <2>1, <2>2
<1>4. p \in RequestState
  <2>1. CASE u = Inline
    BY <1>1, <2>1 DEF Handle, RequestState, Bytes, Sources
  <2>2. CASE u # Inline
    <3>1. ScratchName(u) \in Filenames
      BY <1>2, <2>2, UploadsAssumption DEF ScratchName, Sources
    <3> QED
      BY <1>1, <2>2, <3>1 DEF Handle, RequestState
  <2> QED
    BY <2>1, <2>2
<1>5. p.plan = q.plan /\ p.scratch = q.scratch /\ p.slot = q.slot
  BY <1>1 DEF RequestState
<1>6. CopiesBefore(p, NumSlots + 1)
  BY <1>1, <1>5 DEF CopiesBefore
<1>7. ASSUME NEW s \in Slots, s < q.slot + 1, ~Overwritten(q.plan, s)
      PROVE  p.inputs[s] = q.plan[s]
  <2>1. CASE s = q.slot
    BY <1>1, <1>3, <1>7, <2>1 DEF RequestState
  <2>2. CASE s # q.slot
    <3>1. s < q.slot
      BY <1>1, <1>7, <2>2, UploadsAssumption DEF RequestState, Slots
    <3>2. q.inputs[s] = q.plan[s]
      BY <1>1, <1>7, <3>1 DEF InputsBefore
    <3> QED
      BY <1>1, <2>2, <3>2 DEF RequestState
  <2> QED
    BY <2>1, <2>2
<1>8. InputsBefore(p, p.slot + 1)
  BY <1>5, <1>7 DEF InputsBefore
<1>9. NextSlot(r, "ingest", "commit", p)
  BY DEF Ingest
<1> QED
  BY <1>4, <1>6, <1>8, <1>9, NextSlotProgress DEF Inv

LEMMA PassProgress ==
    ASSUME Inv, NEW r \in Requests, PassInline(r)
    PROVE  Progress(request'[r])
<1> DEFINE q == request[r]
<1>1. q \in RequestState /\ CopiesBefore(q, q.slot) /\ q.plan[q.slot] = Inline
  BY DEF Inv, TypeOK, PassInline, Progress, Source
<1>2. ASSUME NEW s \in Slots, s < q.slot + 1, q.plan[s] # Inline,
             ~OverwrittenBefore(q.plan, s, q.slot + 1)
      PROVE  q.scratch[ScratchName(q.plan[s])] = q.plan[s]
  <2>1. s < q.slot
    BY <1>1, <1>2, UploadsAssumption DEF RequestState, Slots
  <2>2. ~OverwrittenBefore(q.plan, s, q.slot)
    BY <1>1, <1>2, UploadsAssumption DEF OverwrittenBefore, Slots, RequestState
  <2> QED
    BY <1>1, <1>2, <2>1, <2>2 DEF CopiesBefore
<1>3. CopiesBefore(q, q.slot + 1)
  BY <1>2 DEF CopiesBefore
<1>4. NextSlot(r, "resolve", "ingest", q)
  BY DEF PassInline
<1> QED
  BY <1>1, <1>3, <1>4, NextSlotProgress DEF Inv

(* A step of one request leaves the others as they are. *)
LEMMA OthersStay ==
    ASSUME TypeOK, NEW r \in Requests, NEW o \in Requests \ {r},
           (\E plan \in [Slots -> Sources] : Submit(r, plan)) \/ RequestStep(r) \/ SubmitFails(r)
    PROVE  request'[o] = request[o]
<1> USE DEF TypeOK
<1>1. ASSUME NEW plan \in [Slots -> Sources], Submit(r, plan) PROVE request'[o] = request[o]
  BY <1>1 DEF Submit
<1>2. ASSUME EndRequest(r) PROVE request'[o] = request[o]
  BY <1>2 DEF EndRequest
<1>3. ASSUME NEW again, NEW then, NEW q, NextSlot(r, again, then, q) PROVE request'[o] = request[o]
  BY <1>3 DEF NextSlot
<1>4. CASE PassInline(r)
  BY <1>3, <1>4 DEF PassInline
<1>5. CASE Resolve(r)
  BY <1>2, <1>5 DEF Resolve
<1>6. CASE Copy(r)
  BY <1>2, <1>3, <1>6 DEF Copy
<1>7. CASE Ingest(r)
  BY <1>3, <1>7 DEF Ingest
<1>8. CASE Commit(r) \/ SubmitFails(r)
  BY <1>2, <1>8 DEF Commit, SubmitFails
<1> QED
  BY <1>1, <1>4, <1>5, <1>6, <1>7, <1>8 DEF RequestStep

LEMMA InvStep ==
    ASSUME Inv, [Next]_vars
    PROVE  Inv'
<1>1. TypeOK'
  BY TypeStep DEF Inv
<1>2. ASSUME NEW o \in Requests PROVE Progress(request'[o])
  <2>0. Progress(request[o]) /\ request[o] \in RequestState
    BY DEF Inv, TypeOK
  <2>1. CASE request' = request
    BY <2>0, <2>1
  <2>2. ASSUME NEW r \in Requests,
               (\E plan \in [Slots -> Sources] : Submit(r, plan)) \/ RequestStep(r) \/ SubmitFails(r)
        PROVE  Progress(request'[o])
    <3>1. CASE r # o
      BY <2>0, <2>2, <3>1, OthersStay DEF Inv
    <3>2. CASE r = o
      <4> SUFFICES Progress(request'[r])
        BY <3>2
      <4>1. ASSUME NEW plan \in [Slots -> Sources], Submit(r, plan) PROVE Progress(request'[r])
        <5>1. request[r].pc = "idle"
          BY <4>1 DEF Submit
        <5>2. request'[r] = [request[r] EXCEPT !.pc = "resolve", !.plan = plan]
          BY <4>1 DEF Submit, Inv, TypeOK
        <5> QED
          <6>1. request'[r].pc = "resolve" /\ request'[r].slot = request[r].slot
            BY <2>0, <3>2, <5>2 DEF RequestState
          <6>2. CopiesBefore(request'[r], request'[r].slot)
            BY <2>0, <3>2, <5>1, <6>1 DEF CopiesBefore, Progress, Slots
          <6> QED
            BY <6>1, <6>2 DEF Progress
      <4>2. CASE EndRequest(r)
        BY <4>2, IdleProgress DEF EndRequest, Inv, TypeOK
      <4>3. CASE Resolve(r)
        <5>1. CASE request' = [request EXCEPT ![r].pc = "copy"]
          <6>1. request'[r] = [request[r] EXCEPT !.pc = "copy"]
            BY <5>1 DEF Inv, TypeOK
          <6>2. request[r].pc = "resolve" /\ request[r].plan[request[r].slot] # Inline
            BY <4>3 DEF Resolve, Source
          <6>3. CopiesBefore(request[r], request[r].slot)
            BY <2>0, <3>2, <6>2 DEF Progress
          <6>4. /\ request'[r].pc = "copy" /\ request'[r].slot = request[r].slot
                /\ request'[r].plan = request[r].plan /\ request'[r].scratch = request[r].scratch
            BY <2>0, <3>2, <6>1 DEF RequestState
          <6> QED
            BY <6>2, <6>3, <6>4 DEF Progress, CopiesBefore
        <5> QED
          BY <4>2, <4>3, <5>1 DEF Resolve
      <4>4. CASE Commit(r) \/ SubmitFails(r)
        BY <4>2, <4>4 DEF Commit, SubmitFails
      <4> QED
        BY <2>2, <3>2, <4>1, <4>3, <4>4, CopyProgress, IngestProgress, PassProgress DEF RequestStep
    <3> QED
      BY <3>1, <3>2
  <2>3. ASSUME NEW u \in Ids, Reserve(u) \/ Register(u) \/ UploadFails(u) \/ Expire(u) \/ Purge(u)
        PROVE  request' = request
    BY <2>3 DEF Reserve, Register, UploadFails, Expire, Purge
  <2>4. CASE UNCHANGED vars
    BY <2>1, <2>4 DEF vars
  <2> QED
    BY <2>1, <2>2, <2>3, <2>4 DEF Next
<1> QED
  BY <1>1, <1>2 DEF Inv

(* A layer of a task is the file that was uploaded for it unless another one
   is copied over it, whatever else is uploaded, purged or submitted meanwhile
   and whatever the clients call their files. *)
THEOREM InputsAreTheUploads == Spec => []InputsAsUploaded
<1>1. Init => Inv
  <2>1. Init => \A r \in Requests : request[r] = IdleRequest
    BY DEF Init
  <2> QED
    BY <2>1, TypeInit, IdleProgress DEF Inv
<1>2. Inv /\ [Next]_vars => Inv'
  BY InvStep
<1>3. Inv => InputsAsUploaded
  <2> SUFFICES ASSUME Inv, NEW r \in Requests, request[r].pc = "commit",
                      NEW s \in Slots, ~Overwritten(request[r].plan, s)
               PROVE  request[r].inputs[s] = request[r].plan[s]
    BY DEF InputsAsUploaded
  <2>1. InputsBefore(request[r], NumSlots + 1)
    BY DEF Inv, Progress
  <2> QED
    BY <2>1, UploadsAssumption DEF InputsBefore, Slots
<1> QED
  BY <1>1, <1>2, <1>3, PTL DEF Spec
=============================================================================
