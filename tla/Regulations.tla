---------------------------- MODULE Regulations -----------------------------
(***************************************************************************)
(* The direct check of a use against the regulations of a territory        *)
(* (service/api/regulations.py): the document of the territory and its     *)
(* zones (infrastructure/pzz_regulations.py), the zones of a functional    *)
(* zone type (pzz_zone_types.py) and the verdict (check_vri.py).           *)
(*                                                                         *)
(* Requests of one process share its caches.  They run in one thread: what *)
(* happens between two awaits is one step.  NormGraph may read a document   *)
(* anew at any moment, under the same version.                              *)
(***************************************************************************)
EXTENDS ObjectFit, FiniteSetsExt

CONSTANTS
    Callers,      \* concurrent requests
    Editions,     \* the zones NormGraph has read, one sequence per reading
    ParentType,   \* functional zone type -> the type it is a subtype of, or itself
    ByPrefix,     \* functional zone type -> the base codes its prefix stands for
    ModelAnswers, \* answers of the model: base code -> types; <<>> is no answer
    MaxExpiries,  \* bound: cache entries that run out
    MaxFailures   \* bound: failures of a service

(* Zones are records [code, base, sections, limits]; a limit is a record    *)
(* [kind, value, only, except, building], NoLimit for one that is not set.  *)
Types == DOMAIN ParentType

Samples == 3      \* _MAPPING_SAMPLES

NoEdition == 0

NoLock == 0

NoMapping == [by |-> "none", zones |-> [t \in Types |-> {}]]

VARIABLES
    asks,        \* the request of every caller
    calls,       \* for each caller [at, edition, lock, mapping, answer]
    edition,     \* what NormGraph would answer now
    known,       \* the caches of territory and documents that are filled
    zonesCache,  \* the edition cached under the document and its version
    mappings,    \* cached mappings of the model, by edition key
    fallbacks,   \* mappings by prefix, cached for some minutes
    lockOf,      \* _MAPPING_LOCKS: edition key -> lock
    locks,       \* lock -> who holds it; a lock nobody keeps stays unused
    questions,   \* how often the model was asked about an edition, by its key
    expiries, failures

regVars == <<asks, calls, edition, known, zonesCache, mappings, fallbacks, lockOf, locks,
             questions, expiries, failures>>

Free == "free"

ASSUME CallersAssumption == Free \notin Callers

ZonesOf(c) == Editions[calls[c].edition]

MutEditionKey(e) == <<>>

(* edition_key: what was read of the zones, not the version it carries.  The *)
(* limits are left out: readings that differ in them alone share a mapping.   *)
EditionKey(e) ==
    [i \in DOMAIN Editions[e] |-> [code |-> Editions[e][i].code, base |-> Editions[e][i].base,
                                   sections |-> Editions[e][i].sections]]

Keys == {EditionKey(e) : e \in DOMAIN Editions}
-----------------------------------------------------------------------------
(* The zones of the functional zone types.                                 *)

CodesIn(zones) == {zones[i].code : i \in DOMAIN zones}

Expanded(zones, bases) == {zones[i].code : i \in {i \in DOMAIN zones : zones[i].base \in bases}}

(* parse_mapping: a base zone stands for its subzones, a zone of a subtype  *)
(* is one of the type.                                                      *)
Parsed(answer, zones) ==
    [t \in Types |->
        Expanded(zones, {b \in DOMAIN answer : \E s \in answer[b] : s = t \/ ParentType[s] = t})]

Usable(answers, zones) ==
    SelectSeq([i \in DOMAIN answers |-> Parsed(answers[i], zones)],
              LAMBDA m : \E t \in Types : m[t] # {})

(* vote: more than half of the usable answers *)
Voted(usable, zones) ==
    [t \in Types |->
        {code \in CodesIn(zones) :
            2 * Cardinality({i \in DOMAIN usable : code \in usable[i][t]}) > Len(usable)}]

PrefixMapping(zones) == [t \in Types |-> Expanded(zones, ByPrefix[t])]
-----------------------------------------------------------------------------
(* The verdict.                                                            *)

(* Regulations.zone_verdict *)
InZone(code, zone) ==
    FitVerdict(code, 1, [k \in {1} |-> zone.sections])

LimitApplies(row, code, residential) ==
    /\ row.building = "residential" => residential
    /\ row.building = "non_residential" => ~residential
    /\ row.only # {} => IsAllowed(code, row.only)
    /\ ~IsAllowed(code, row.except)

(* The rows for the use itself win over the general ones; the least limit.  *)
LimitsOf(zone, kind, code, residential) ==
    LET rows  == {r \in zone.limits : r.kind = kind /\ LimitApplies(r, code, residential)}
        named == {r \in rows : r.only # {}}
    IN  {r.value : r \in IF named = {} THEN rows ELSE named} \ {NoLimit}

(* check_parameters, for the measures that are known *)
Parameters(zone, code, measured, residential) ==
    LET limit(kind) == LimitsOf(zone, kind, code, residential)
        limited     == {kind \in DOMAIN measured : limit(kind) # {}}
        checked     == {kind \in limited : measured[kind] # NoFloors}
    IN  IF \E kind \in checked : measured[kind] > Min(limit(kind)) THEN "exceeded"
        ELSE IF checked # {} THEN "ok" ELSE "not_checked"

Weakest(verdicts) ==
    IF "allowed_auxiliary" \in verdicts THEN "allowed_auxiliary"
    ELSE IF "allowed_conditional" \in verdicts THEN "allowed_conditional"
    ELSE "allowed_main"

(* _aggregate, check *)
Overall(verdicts) ==
    IF verdicts # {} /\ \A v \in verdicts : Allowed(v) THEN Weakest(verdicts)
    ELSE IF verdicts = {"not_allowed"} THEN "not_allowed"
    ELSE IF \E v \in verdicts : Allowed(v) THEN "depends_on_zone"
    ELSE IF Cardinality(verdicts) = 1 THEN CHOOSE v \in verdicts : TRUE
    ELSE "unclear"

(* The verdict over one zone or the zones of a type; several zones without   *)
(* a description are unclear together, and no zone is told of an unknown use. *)
CheckOf(ask, zones, codes) ==
    LET at == {i \in DOMAIN zones : ask.code # NoVri /\ zones[i].code \in codes}
        verdicts == {InZone(ask.code, zones[i]) : i \in at}
    IN  [verdict |-> IF at = {} THEN "unclear"
                     ELSE IF Cardinality(at) > 1 /\ verdicts = {"no_zone_metadata"} THEN "unclear"
                     ELSE Overall(verdicts),
         zones |-> {[code |-> zones[i].code,
                     parameters |-> Parameters(zones[i], ask.code, ask.measured, ask.residential)] :
                       i \in at}]
-----------------------------------------------------------------------------
(* Requests.                                                               *)

Go(c, at) == calls' = [calls EXCEPT ![c].at = at]

End(c, answer) == calls' = [calls EXCEPT ![c].at = "done", ![c].answer = answer]

RegInit(requests) ==
    /\ asks \in [Callers -> requests]
    /\ calls = [c \in Callers |-> [at |-> "start", edition |-> NoEdition, lock |-> NoLock,
                                   mapping |-> NoMapping, answer |-> <<>>]]
    /\ edition = 1 /\ known = {} /\ zonesCache = NoEdition
    /\ mappings = <<>> /\ fallbacks = <<>> /\ lockOf = <<>>
    /\ locks = <<>> /\ questions = [key \in Keys |-> 0]
    /\ expiries = 0 /\ failures = 0

(* The chain of territories and the list of documents, cached when they have *)
(* been asked for; neither changes while the requests run.                   *)
FindDocument(c) ==
    /\ calls[c].at = "start"
    /\ known' = {"territories", "documents"}
    /\ IF zonesCache # NoEdition
       THEN calls' = [calls EXCEPT ![c].at = "zones", ![c].edition = zonesCache]
       ELSE Go(c, "ask zones")
    /\ UNCHANGED <<asks, edition, zonesCache, mappings, fallbacks, lockOf, locks, questions,
                   expiries, failures>>

(* Urban API or NormGraph fails, or knows no document: 502, 404. *)
NoDocument(c) ==
    /\ calls[c].at \in {"start", "ask zones"} /\ failures < MaxFailures
    /\ \E status \in {404, 502} : End(c, <<status>>)
    /\ failures' = failures + 1
    /\ UNCHANGED <<asks, edition, known, zonesCache, mappings, fallbacks, lockOf, locks,
                   questions, expiries>>

NormGraphAnswers(c) ==
    /\ calls[c].at = "ask zones"
    /\ calls' = [calls EXCEPT ![c].at = "got zones", ![c].edition = edition]
    /\ UNCHANGED <<asks, edition, known, zonesCache, mappings, fallbacks, lockOf, locks,
                   questions, expiries, failures>>

StoreZones(c) ==
    /\ calls[c].at = "got zones"
    /\ zonesCache' = calls[c].edition
    /\ Go(c, "zones")
    /\ UNCHANGED <<asks, edition, known, mappings, fallbacks, lockOf, locks, questions,
                   expiries, failures>>

Cached(key) == IF key \in DOMAIN mappings THEN mappings[key]
               ELSE IF key \in DOMAIN fallbacks THEN fallbacks[key] ELSE NoMapping

WithMapping(c, mapping) ==
    calls' = [calls EXCEPT ![c].at = "mapped", ![c].mapping = mapping, ![c].lock = NoLock]

(* A zone that is named is looked up, the zones of a type are asked for.     *)
LookForMapping(c) ==
    LET key == EditionKey(calls[c].edition) IN
    /\ calls[c].at = "zones"
    /\ IF asks[c].zone # NoKey
       THEN /\ End(c, IF asks[c].zone \notin CodesIn(ZonesOf(c)) THEN <<404>>
                      ELSE <<200, CheckOf(asks[c], ZonesOf(c), {asks[c].zone})>>)
            /\ UNCHANGED <<lockOf, locks>>
       ELSE IF Cached(key) # NoMapping
       THEN WithMapping(c, Cached(key)) /\ UNCHANGED <<lockOf, locks>>
       ELSE IF key \in DOMAIN lockOf
       THEN /\ calls' = [calls EXCEPT ![c].at = "wait", ![c].lock = lockOf[key]]
            /\ UNCHANGED <<lockOf, locks>>
       ELSE /\ locks' = Append(locks, Free)
            /\ lockOf' = [k \in DOMAIN lockOf \cup {key} |->
                             IF k = key THEN Len(locks) + 1 ELSE lockOf[k]]
            /\ calls' = [calls EXCEPT ![c].at = "wait", ![c].lock = Len(locks) + 1]
    /\ UNCHANGED <<asks, edition, known, zonesCache, mappings, fallbacks, questions,
                   expiries, failures>>

MutNoRecheck(key) == NoMapping

(* The cache is looked at once more under the lock. *)
Recheck(key) == Cached(key)

Acquire(c) ==
    LET key == EditionKey(calls[c].edition) IN
    /\ calls[c].at = "wait" /\ locks[calls[c].lock] = Free
    /\ IF Recheck(key) # NoMapping
       THEN WithMapping(c, Recheck(key)) /\ UNCHANGED <<locks, questions>>
       ELSE /\ locks' = [locks EXCEPT ![calls[c].lock] = c]
            /\ questions' = [questions EXCEPT ![key] = @ + 1]
            /\ Go(c, "ask model")
    /\ UNCHANGED <<asks, edition, known, zonesCache, mappings, fallbacks, lockOf,
                   expiries, failures>>

(* Three answers at once; without a usable one the zones are told by prefix. *)
ModelTells(c, answers) ==
    LET key    == EditionKey(calls[c].edition)
        usable == Usable(answers, ZonesOf(c))
        voted  == Voted(usable, ZonesOf(c))
        byModel == \E t \in Types : voted[t] # {}
        mapping == IF byModel THEN [by |-> "llm", zones |-> voted]
                   ELSE [by |-> "prefix", zones |-> PrefixMapping(ZonesOf(c))]
        with(cache) == [k \in DOMAIN cache \cup {key} |-> IF k = key THEN mapping ELSE cache[k]]
    IN  /\ calls[c].at = "ask model"
        /\ mappings'  = IF byModel THEN with(mappings) ELSE mappings
        /\ fallbacks' = IF byModel THEN fallbacks ELSE with(fallbacks)
        /\ lockOf' = [k \in DOMAIN lockOf \ {key} |-> lockOf[k]]
        /\ locks' = [locks EXCEPT ![calls[c].lock] = Free]
        /\ WithMapping(c, mapping)
        /\ UNCHANGED <<asks, edition, known, zonesCache, questions, expiries, failures>>

(* An error that is no failure of the model passes through: 500.  The lock   *)
(* is released and stays in the table.                                       *)
ModelBreaks(c) ==
    /\ calls[c].at = "ask model" /\ failures < MaxFailures
    /\ locks' = [locks EXCEPT ![calls[c].lock] = Free]
    /\ End(c, <<500>>)
    /\ failures' = failures + 1
    /\ UNCHANGED <<asks, edition, known, zonesCache, mappings, fallbacks, lockOf, questions,
                   expiries>>

AnswerType(c) ==
    /\ calls[c].at = "mapped"
    /\ End(c, <<200, CheckOf(asks[c], ZonesOf(c), calls[c].mapping.zones[asks[c].type])>>)
    /\ UNCHANGED <<asks, edition, known, zonesCache, mappings, fallbacks, lockOf, locks,
                   questions, expiries, failures>>

(* NormGraph reads the document anew. *)
ReadAnew ==
    /\ edition < Len(Editions) /\ \E c \in Callers : calls[c].at # "done"
    /\ edition' = edition + 1
    /\ UNCHANGED <<asks, calls, known, zonesCache, mappings, fallbacks, lockOf, locks,
                   questions, expiries, failures>>

(* The time of a cache entry is over. *)
Expire ==
    /\ expiries < MaxExpiries /\ \E c \in Callers : calls[c].at # "done"
    /\ expiries' = expiries + 1
    /\ \/ known # {} /\ known' = {} /\ UNCHANGED <<zonesCache, mappings, fallbacks>>
       \/ /\ zonesCache # NoEdition /\ zonesCache' = NoEdition
          /\ UNCHANGED <<known, mappings, fallbacks>>
       \/ DOMAIN mappings # {} /\ mappings' = <<>> /\ UNCHANGED <<known, zonesCache, fallbacks>>
       \/ DOMAIN fallbacks # {} /\ fallbacks' = <<>> /\ UNCHANGED <<known, zonesCache, mappings>>
    /\ UNCHANGED <<asks, calls, edition, lockOf, locks, questions, failures>>

RegStep ==
    \/ \E c \in Callers :
          \/ FindDocument(c) \/ NoDocument(c) \/ NormGraphAnswers(c) \/ StoreZones(c)
          \/ LookForMapping(c) \/ Acquire(c) \/ ModelBreaks(c) \/ AnswerType(c)
          \/ \E answers \in [1..Samples -> ModelAnswers] : ModelTells(c, answers)
    \/ ReadAnew \/ Expire

AllAnswered == \A c \in Callers : calls[c].at = "done"
-----------------------------------------------------------------------------
(* Properties.                                                             *)

(* A mapping is used with the zones it was made for, although NormGraph reads *)
(* documents anew under the same version and zones and mappings expire apart:  *)
(* every zone it names is among the zones the request is checked against       *)
(* (pzz_regulations.py edition_key).                                           *)
MappingFitsZones ==
    \A c \in Callers : calls[c].at = "mapped" =>
        \A t \in Types : calls[c].mapping.zones[t] \subseteq CodesIn(ZonesOf(c))

(* Requests that come together ask the model about an edition once, and again *)
(* only after a call has broken.  (When a mapping runs out while a request     *)
(* still waits for the lock it was made under, that one and a newcomer with a  *)
(* new lock may both ask.)  (pzz_regulations.py zone_type_mapping)             *)
ModelAskedOnce ==
    expiries = 0 => \A key \in Keys : questions[key] <= 1 + failures
=============================================================================
