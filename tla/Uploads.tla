------------------------------ MODULE Uploads ------------------------------
(***************************************************************************)
(* Files uploaded before a task exists: the directory of each upload id,   *)
(* the copies a submission makes of them in a scratch directory of its own *)
(* and reads its inputs from, and the beat job that deletes what is too    *)
(* old.  Bytes are known by where they come from.                          *)
(***************************************************************************)
EXTENDS Naturals

CONSTANTS
    Ids,            \* upload ids
    Filenames,      \* names clients give their files
    NameOf,         \* [Ids -> Filenames]
    MetaName,       \* "meta.json", which a client's file may be called too
    Users, OwnerOf, \* [Ids -> Users]
    NumSlots,       \* layers of a submission, resolved and ingested in order
    Requests,       \* concurrent submissions
    CallerOf,       \* [Requests -> Users or Anonymous]
    MaxFaults,      \* deaths of the API process and failing calls, all together
    Anonymous, Inline, MetaBytes, NoBytes

Slots == 1..NumSlots

(* A slot is filled by id or by a file in the request itself. *)
Sources == Ids \cup {Inline}

Bytes == Sources \cup {MetaBytes}

ASSUME UploadsAssumption ==
    /\ NameOf \in [Ids -> Filenames]
    /\ OwnerOf \in [Ids -> Users]
    /\ CallerOf \in [Requests -> Users \cup {Anonymous}]
    /\ NumSlots \in Nat \ {0}
    /\ MaxFaults \in Nat

ASSUME NoneUploadsAssumption ==
    /\ Anonymous \notin Users
    /\ Inline \notin Ids
    /\ MetaBytes \notin Sources
    /\ NoBytes \notin Bytes

VARIABLES
    upload,     \* the directory of each upload id
    request,
    faults

vars == <<upload, request, faults>>

NoInputs == [s \in Slots |-> NoBytes]

IdleRequest == [pc |-> "idle", plan |-> [s \in Slots |-> Inline], slot |-> 1,
                scratch |-> [n \in Filenames |-> NoBytes], inputs |-> NoInputs]

Init ==
    /\ upload = [u \in Ids |-> [state |-> "none", late |-> FALSE]]
    /\ request = [r \in Requests |-> IdleRequest]
    /\ faults = 0
-----------------------------------------------------------------------------
Fails ==
    /\ faults < MaxFaults
    /\ faults' = faults + 1

(* POST /uploads: the directory is there, the file is streamed into it. *)
Reserve(u) ==
    /\ upload[u].state = "none"
    /\ upload' = [upload EXCEPT ![u].state = "streaming"]
    /\ UNCHANGED <<request, faults>>

(* meta.json is written: the id is handed to the client. *)
Register(u) ==
    /\ upload[u].state = "streaming"
    /\ upload' = [upload EXCEPT ![u].state = "stored"]
    /\ UNCHANGED <<request, faults>>

(* The upload fails and cleans up behind itself, or the API process dies and
   leaves a directory without metadata. *)
UploadFails(u) ==
    /\ upload[u].state = "streaming"
    /\ Fails
    /\ \E s \in {"removed", "abandoned"} : upload' = [upload EXCEPT ![u].state = s]
    /\ UNCHANGED request

(* UPLOADS_MAX_AGE_HOURS pass.  A transfer takes less than that. *)
Expire(u) ==
    /\ upload[u].state \in {"stored", "abandoned"}
    /\ ~upload[u].late
    /\ upload' = [upload EXCEPT ![u].late = TRUE]
    /\ UNCHANGED <<request, faults>>

MutPurgeableUnread(d) ==
    \/ d.state \in {"streaming", "abandoned"}
    \/ d.state = "stored" /\ d.late

MutPurgeableRead(d) == d.state = "stored" /\ d.late

(* Metadata that has expired, or none in a directory older than any upload
   may get. *)
Purgeable(d) == d.state \in {"streaming", "stored", "abandoned"} /\ d.late

Purge(u) ==
    /\ Purgeable(upload[u])
    /\ upload' = [upload EXCEPT ![u].state = "removed"]
    /\ UNCHANGED <<request, faults>>
-----------------------------------------------------------------------------
(* A submission.                                                           *)

(* The bytes under the name of the upload: the metadata is written into the
   same directory, over a file of that name. *)
Stored(u) == IF NameOf[u] = MetaName THEN MetaBytes ELSE u

MutScratchName(u) == CHOOSE n \in Filenames : TRUE

(* The scratch directory of the request is one for all of its layers. *)
ScratchName(u) == NameOf[u]

Owned(u, r) == CallerOf[r] \in {Anonymous, OwnerOf[u]}

Source(r) == request[r].plan[request[r].slot]

(* On to the next layer, or to the next stage after the last one. *)
NextSlot(r, again, then, q) ==
    request' = [request EXCEPT ![r] =
        IF q.slot = NumSlots THEN [q EXCEPT !.pc = then, !.slot = 1]
        ELSE [q EXCEPT !.pc = again, !.slot = @ + 1]]

EndRequest(r) == request' = [request EXCEPT ![r] = IdleRequest]

(* A client names uploads it has got the ids of. *)
Submit(r, plan) ==
    /\ request[r].pc = "idle"
    /\ \A s \in Slots : plan[s] \in Ids => upload[plan[s]].state \in {"stored", "removed"}
    /\ request' = [request EXCEPT ![r].pc = "resolve", ![r].plan = plan]
    /\ UNCHANGED <<upload, faults>>

(* A file of the request itself needs no resolving. *)
PassInline(r) ==
    /\ request[r].pc = "resolve"
    /\ Source(r) = Inline
    /\ NextSlot(r, "resolve", "ingest", request[r])
    /\ UNCHANGED <<upload, faults>>

(* describe_upload: 403, 404 or 410 for an upload of somebody else, one that is
   gone or one that has expired. *)
Resolve(r) ==
    LET u == Source(r)
    IN  /\ request[r].pc = "resolve"
        /\ u # Inline
        /\ IF upload[u].state = "stored" /\ ~upload[u].late /\ Owned(u, r)
           THEN request' = [request EXCEPT ![r].pc = "copy"]
           ELSE EndRequest(r)
        /\ UNCHANGED <<upload, faults>>

(* The file is copied and the copy opened, unread.  The purge may have come
   in between: the request dies of the missing file. *)
Copy(r) ==
    LET u == Source(r)
    IN  /\ request[r].pc = "copy"
        /\ IF upload[u].state = "stored"
           THEN NextSlot(r, "resolve", "ingest",
                         [request[r] EXCEPT !.scratch[ScratchName(u)] = Stored(u)])
           ELSE EndRequest(r)
        /\ UNCHANGED <<upload, faults>>

(* What the handle of a slot yields by now. *)
Handle(r, u) == IF u = Inline THEN Inline ELSE request[r].scratch[ScratchName(u)]

(* The handles are read, one after the other, into the inputs of the task. *)
Ingest(r) ==
    /\ request[r].pc = "ingest"
    /\ NextSlot(r, "ingest", "commit",
                [request[r] EXCEPT !.inputs[request[r].slot] = Handle(r, Source(r))])
    /\ UNCHANGED <<upload, faults>>

(* create_task takes the inputs over, and the scratch directory goes. *)
Commit(r) ==
    /\ request[r].pc = "commit"
    /\ EndRequest(r)
    /\ UNCHANGED <<upload, faults>>

(* An input is refused or cannot be stored, or the API process dies. *)
SubmitFails(r) ==
    /\ request[r].pc # "idle"
    /\ Fails
    /\ EndRequest(r)
    /\ UNCHANGED upload
-----------------------------------------------------------------------------
RequestStep(r) == PassInline(r) \/ Resolve(r) \/ Copy(r) \/ Ingest(r) \/ Commit(r)

Next ==
    \/ \E u \in Ids : Reserve(u) \/ Register(u) \/ UploadFails(u) \/ Expire(u) \/ Purge(u)
    \/ \E r \in Requests : \/ \E plan \in [Slots -> Sources] : Submit(r, plan)
                           \/ RequestStep(r)
                           \/ SubmitFails(r)

Spec == Init /\ [][Next]_vars

(* The beat keeps starting the purge, which ends with nothing left to remove. *)
FairSpec == Spec /\ WF_vars(\E u \in Ids : Purge(u))
-----------------------------------------------------------------------------
UploadState == [state : {"none", "streaming", "stored", "abandoned", "removed"}, late : BOOLEAN]

RequestState ==
    [pc : {"idle", "resolve", "copy", "ingest", "commit"}, plan : [Slots -> Sources],
     slot : Slots, scratch : [Filenames -> Bytes \cup {NoBytes}],
     inputs : [Slots -> Bytes \cup {NoBytes}]]

(* Every variable keeps to its type. *)
TypeOK ==
    /\ upload \in [Ids -> UploadState]
    /\ request \in [Requests -> RequestState]
    /\ faults \in Nat

(* The copy made for slot s is written over before it is read, or was never the
   file: a later layer brings another upload of the same file name, or the
   metadata has taken its place already. *)
Overwritten(plan, s) ==
    /\ plan[s] \in Ids
    /\ \/ NameOf[plan[s]] = MetaName
       \/ \E t \in Slots : /\ s < t
                           /\ plan[t] \in Ids \ {plan[s]}
                           /\ NameOf[plan[t]] = NameOf[plan[s]]

(* A layer of a task whose copy nothing is written over is the file that was
   uploaded under the id the client put into that slot: over purges, failures,
   other requests and layers without a file (_resolve_file_slot).  Of two files
   of one name the code really takes the second for both layers. *)
InputsAsUploaded ==
    \A r \in Requests : request[r].pc = "commit" =>
        \A s \in Slots : ~Overwritten(request[r].plan, s)
                            => request[r].inputs[s] = request[r].plan[s]

(* An upload stays as long as its client was promised, and one that is still
   being transferred is not taken for rubbish. *)
UploadsAreKept ==
    [][\A u \in Ids :
          upload[u].state \in {"streaming", "stored"} /\ ~upload[u].late
              => upload'[u].state # "removed" \/ UploadFails(u)]_vars

(* Nothing stays for ever in the uploads volume: neither an expired upload nor
   what a dead process has left of one. *)
ExpiredUploadsGo == <>[](\A u \in Ids : upload[u].late => upload[u].state = "removed")
=============================================================================
