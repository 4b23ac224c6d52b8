----------------------------- MODULE Scenarios ------------------------------
(***************************************************************************)
(* Tasks over the data of an Urban API scenario (service/api/scenarios.py):*)
(* the check of its buildings and services and the placement of a service. *)
(* Requests run concurrently and wait for the Urban API between their      *)
(* steps, while the scenario goes on being edited.  A row is kept under a  *)
(* key made of what was asked for and of the version the scenario had.     *)
(***************************************************************************)
EXTENDS Integers, Sequences, FiniteSets

CONSTANTS
    Clients,
    Contents,      \* the scenario after each edit
    MaxLost        \* bound: calls of the Urban API that fail

(* A content is [sources, zones, houses, others, services]; others are the  *)
(* buildings that are no dwellings.                                          *)
ASSUME ContentsAssumption == Len(Contents) \in Nat \ {0} /\ DOMAIN Contents = 1..Len(Contents)

VARIABLES
    version,       \* the edits of the scenario so far
    clients,       \* what every request asks, has read and is answered
    kept,          \* key -> row
    lost

scenarioVars == <<version, clients, kept, lost>>

NoCodeFound == 0
NotFetched == 0

(* An ask is [kind, source, query, house, files, cadastre, force]; query is  *)
(* the name of a service, house tells that dwellings are asked for, files    *)
(* and cadastre stand for the user's own files, by their digest.             *)
ScenarioInit(asks) ==
    /\ version = 1 /\ kept = <<>> /\ lost = 0
    /\ clients \in [Clients -> {[at |-> "info", ask |-> ask, upd |-> NotFetched,
                                 code |-> NoCodeFound, zones |-> NotFetched,
                                 objects |-> NotFetched, others |-> FALSE,
                                 services |-> NotFetched, answer |-> <<>>] : ask \in asks}]

Now == Contents[version]

AskOf(c) == clients[c].ask

IsPlacing(c) == AskOf(c).kind = "place"

MutKey(client) ==
    IF client.ask.kind = "place"
    THEN <<"place", client.ask.source, client.code, client.upd, client.ask.files,
           client.ask.cadastre>>
    ELSE <<"classify", client.ask.source, client.ask.house, client.upd, client.ask.files,
           client.ask.cadastre>>

(* namespaced_key *)
KeyOf(client) ==
    IF client.ask.kind = "place"
    THEN <<"place", client.ask.source, client.code, client.ask.query, client.upd,
           client.ask.files, client.ask.cadastre>>
    ELSE <<"classify", client.ask.source, client.ask.house, client.upd, client.ask.files,
           client.ask.cadastre>>

Proceed(c, client, at) == clients' = [clients EXCEPT ![c] = [client EXCEPT !.at = at]]

Ends(c, client, answer) ==
    clients' = [clients EXCEPT ![c] = [client EXCEPT !.at = "done", !.answer = answer]]

(* A row under the key is the answer unless it is to be made anew. *)
LookUpKey(c, client, next) ==
    IF KeyOf(client) \in DOMAIN kept /\ ~client.ask.force
    THEN Ends(c, client, <<"task", KeyOf(client)>>)
    ELSE Proceed(c, client, next)

(* The version is read before anything else. *)
WithInfo(client) == [client EXCEPT !.upd = version]

ReadInfo(c) ==
    /\ clients[c].at = "info"
    /\ IF IsPlacing(c) THEN Proceed(c, WithInfo(clients[c]), "sources")
       ELSE LookUpKey(c, WithInfo(clients[c]), "sources")
    /\ UNCHANGED <<version, kept, lost>>

ReadSources(c) ==
    /\ clients[c].at = "sources"
    /\ IF AskOf(c).source \notin Now.sources THEN Ends(c, clients[c], <<"422">>)
       ELSE Proceed(c, clients[c], IF IsPlacing(c) THEN "resolve" ELSE "zones")
    /\ UNCHANGED <<version, kept, lost>>

(* What the service means, as the embedder and the model say this time. *)
Resolve(c, code) ==
    /\ clients[c].at = "resolve"
    /\ IF code = NoCodeFound THEN Ends(c, clients[c], <<"422">>)
       ELSE LookUpKey(c, [clients[c] EXCEPT !.code = code], "zones")
    /\ UNCHANGED <<version, kept, lost>>

ReadZones(c) ==
    /\ clients[c].at = "zones"
    /\ Proceed(c, [clients[c] EXCEPT !.zones = version], "objects")
    /\ UNCHANGED <<version, kept, lost>>

ReadObjects(c) ==
    /\ clients[c].at = "objects"
    /\ Proceed(c, [clients[c] EXCEPT !.objects = version], "services")
    /\ UNCHANGED <<version, kept, lost>>

(* The buildings a request has read. *)
BuildingsOf(client) ==
    LET content == Contents[client.objects]
    IN  IF client.ask.kind = "place" THEN content.houses \o content.others
        ELSE IF client.ask.house /\ ~client.others THEN content.houses
        ELSE content.others

ServicesOf(client) ==
    IF client.services = NotFetched THEN <<>> ELSE Contents[client.services].services

(* No houses and no services: the other buildings are read instead. *)
Checked(c, client) ==
    IF Contents[client.zones].zones = <<>> THEN Ends(c, client, <<"422">>)
    ELSE IF client.ask.kind # "place" /\ BuildingsOf(client) \o ServicesOf(client) = <<>>
    THEN Ends(c, client, <<"422">>)
    ELSE Proceed(c, client, "create")

AfterServices(c, client) ==
    IF /\ client.ask.kind = "classify" /\ client.ask.house
       /\ BuildingsOf(client) = <<>> /\ ServicesOf(client) = <<>>
    THEN Proceed(c, client, "fallback")
    ELSE Checked(c, client)

ReadServices(c) ==
    /\ clients[c].at = "services"
    /\ AfterServices(c, [clients[c] EXCEPT !.services = version])
    /\ UNCHANGED <<version, kept, lost>>

ReadFallback(c) ==
    /\ clients[c].at = "fallback"
    /\ Checked(c, [clients[c] EXCEPT !.objects = version, !.others = TRUE])
    /\ UNCHANGED <<version, kept, lost>>

(* Only a check does without its services. *)
UrbanFails(c) ==
    /\ clients[c].at \in {"info", "sources", "zones", "objects", "services", "fallback"}
    /\ lost < MaxLost
    /\ IF clients[c].at = "services" /\ ~IsPlacing(c) THEN AfterServices(c, clients[c])
       ELSE Ends(c, clients[c], <<"502">>)
    /\ lost' = lost + 1
    /\ UNCHANGED <<version, kept>>

(* The layers a request leaves with its row. *)
RowFor(client) ==
    [ask |-> client.ask, code |-> client.code, zones |-> client.zones,
     objects |-> client.objects, services |-> client.services, others |-> client.others]

With(key, row) == [k \in DOMAIN kept \cup {key} |-> IF k = key THEN row ELSE kept[k]]

(* _persist_and_create_scenario_task and create_task: a row that is running *)
(* is left as it is, another is made anew when that is asked for.            *)
Create(c, running) ==
    LET key == KeyOf(clients[c])
    IN  /\ clients[c].at = "create"
        /\ IF key \in DOMAIN kept
           THEN /\ Ends(c, clients[c], <<"task", key>>)
                /\ kept' = IF AskOf(c).force /\ ~running THEN With(key, RowFor(clients[c])) ELSE kept
           ELSE Proceed(c, clients[c], "insert") /\ UNCHANGED kept
        /\ UNCHANGED <<version, lost>>

(* The key is bound, unless somebody else was first. *)
Insert(c) ==
    LET key == KeyOf(clients[c])
    IN  /\ clients[c].at = "insert"
        /\ Ends(c, clients[c], <<"task", key>>)
        /\ kept' = IF key \in DOMAIN kept THEN kept ELSE With(key, RowFor(clients[c]))
        /\ UNCHANGED <<version, lost>>

EditScenario ==
    /\ version < Len(Contents) /\ \E c \in Clients : clients[c].at # "done"
    /\ version' = version + 1
    /\ UNCHANGED <<clients, kept, lost>>

ScenarioStep(Codes) ==
    \/ \E c \in Clients :
          \/ ReadInfo(c) \/ ReadSources(c) \/ ReadZones(c) \/ ReadObjects(c)
          \/ ReadServices(c) \/ ReadFallback(c) \/ UrbanFails(c) \/ Insert(c)
          \/ \E code \in Codes : Resolve(c, code)
          \/ \E running \in BOOLEAN : Create(c, running)
    \/ EditScenario

Served(c) == clients[c].at = "done" /\ clients[c].answer[1] = "task"

Answers(c) == kept[clients[c].answer[2]]
-----------------------------------------------------------------------------
(* Properties.                                                             *)

(* The task a request is given answers what it asked: the same kind of task,  *)
(* the same service under the code it was resolved to, the same source, type  *)
(* and files; and it holds a scenario no older than the one the request met   *)
(* when it began, whatever was edited meanwhile.  Requests share rows by a    *)
(* key only, and the row may be their own, that of another who came first, or *)
(* an old one (scenarios.py _build_scenario_classification_task,              *)
(* _build_scenario_placement_task: "Isolate services sharing the same ВРИ").  *)
ServedFits ==
    \A c \in Clients : Served(c) =>
        LET row == Answers(c) IN
        /\ \A f \in {"kind", "source", "files", "cadastre"} : row.ask[f] = AskOf(c)[f]
        /\ row.code = clients[c].code
        /\ IF IsPlacing(c) THEN row.ask.query = AskOf(c).query ELSE row.ask.house = AskOf(c).house
        /\ row.zones >= clients[c].upd /\ row.objects >= clients[c].upd
        /\ row.services # NotFetched => row.services >= clients[c].upd
=============================================================================
