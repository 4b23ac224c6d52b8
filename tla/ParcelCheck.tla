---------------------------- MODULE ParcelCheck -----------------------------
(***************************************************************************)
(* The check of parcels against their zones, and the classification without *)
(* zones (pipeline_modules/business/pipeline_impl.py run_pipeline, with    *)
(* matching_layer.py and postprocess_layer.py).                            *)
(*                                                                         *)
(* Parcels that ask the same question are checked once.  A pool of workers *)
(* takes the questions in order; each decides by the items of the zone, or *)
(* asks a model and shares the answer through a cache.  What is refused is *)
(* given candidates afterwards, and marked for manual review when the      *)
(* templates permit one of them.                                           *)
(*                                                                         *)
(* A text is known by what the rules read in it, Words[text]; zone codes   *)
(* are numbers whose digits are the dotted parts of the code.              *)
(***************************************************************************)
EXTENDS Candidates, Overlaps

CONSTANTS
    Words,          \* the texts of parcels, with what is read in them
    Workers,        \* PIPELINE_LLM_WORKERS threads
    Replies,        \* what a model replies to a zone check: [verdict, hint]
    Rankings,       \* what it replies to a ranking, NoReply for a failure
    MaxFaults       \* bound: failures per run

(* Beside the fields of Wording: the items it names or that describe it,   *)
(* the item nearest to it in wording and the one nearest in meaning, and   *)
(* the zones whose description fits it.                                     *)
ZoneFields == {"canon", "residential", "named", "covered", "close", "embed", "kin", "near"}

ASSUME WordsAssumption ==
    /\ \A t, u \in DOMAIN Words : Words[t].canon = Words[u].canon =>
          \A f \in ZoneFields : Words[t][f] = Words[u][f]
    /\ \A t, u \in DOMAIN Words : Words[t].lower = Words[u].lower => Words[t] = Words[u]

VARIABLES
    input,      \* the layers, templates and settings of the run
    stage,      \* "waiting", "classify", "rerank", "written", "failed"
    sites,      \* for each parcel its actual zone and the zones it crosses
    queue,      \* the questions no worker has taken
    busy,       \* for each worker its question and what it does with it
    rows,       \* the decided questions
    answers,    \* llm_zone_check_cache
    ranks,      \* llm_rerank_cache of the classification
    heard,      \* every verdict a model has given, with its question
    tops,       \* candidates of what is refused, by canonical form
    features,   \* the rows of the result
    overlaps,   \* the overlap report, if there is one
    faults

checkVars == <<stage, sites, queue, busy, rows, answers, ranks, heard, tops, features,
               overlaps, faults>>

Idle == <<"idle">>
-----------------------------------------------------------------------------
(* Templates of zones: [code, base, main, conditional, auxiliary, bare];   *)
(* bare are the codes of the items that are named without their code.      *)

Sections == <<"main", "conditional", "auxiliary">>

AllowedIn(section) ==
    CASE section = "main"        -> "allowed_main"
      [] section = "conditional" -> "allowed_conditional"
      [] section = "auxiliary"   -> "allowed_auxiliary"

WithCode(code)  == {i \in DOMAIN input.templates : input.templates[i].code = code}

WithBase(code)  == {i \in DOMAIN input.templates : input.templates[i].base = code}

(* resolve_zone_reference: the last template of the code, else the only one*)
(* of that base code; 0 is none.                                           *)
Reference(code) ==
    IF WithCode(code) # {} THEN Max(WithCode(code))
    ELSE IF \E i \in WithBase(code) : WithBase(code) = {i}
    THEN CHOOSE i \in WithBase(code) : WithBase(code) = {i}
    ELSE 0

(* zone_items_lookup: the items under the code itself, by section *)
Items(zone) ==
    UNION {{<<s, c>> : c \in input.templates[i][s]} : i \in WithCode(zone), s \in Range(Sections)}

Strongest(items) ==
    AllowedIn(Sections[Min({k \in DOMAIN Sections : \E item \in items : item[1] = Sections[k]})])

Coded(items, codes) == {item \in items : item[2] \in codes}

OnlyOne(items) == IF Cardinality(items) = 1 THEN items ELSE {}

(* The nearest item by wording, when the description of the zone fits. *)
Nearest(items, w) ==
    LET k == SelectInSeq(w.near, LAMBDA c : Coded(items, {c}) # {})
    IN  IF k = 0 THEN {} ELSE Coded(items, {w.near[k]})

(* The matches tried in turn; one that leaves a doubt between two items is *)
(* no match: find_exact_zone_candidates, fast_string_match_in_zone,        *)
(* fast_embed_match_in_zone.                                               *)
Matches(w, zone) ==
    LET items == Items(zone)
    IN  IF w.canon = "" THEN <<>>
        ELSE << Coded(items, w.named),
                Coded(items, w.covered),
                OnlyOne(Coded(items, {w.close})),
                IF zone \in w.kin THEN Nearest(items, w) ELSE {},
                IF input.embeds THEN OnlyOne(Coded(items, {w.embed})) ELSE {} >>

(* The place of the first that is a match, 0 for none. *)
FirstMatch(matches) == SelectInSeq(matches, LAMBDA m : m # {})

(* What the rules of _process_row decide: a verdict, or "ask" *)
ByRules(w, zone) ==
    LET matches == Matches(w, zone)
        first   == FirstMatch(matches)
        generic == Coded(Items(zone), {Generic})
    IN  IF zone = NoCode THEN "no_actual_zone"
        ELSE IF Reference(zone) = 0 THEN "no_zone_metadata"
        ELSE IF w.residential THEN IF generic = {} THEN "unclear" ELSE Strongest(generic)
        ELSE IF first # 0 THEN Strongest(matches[first])
        ELSE "ask"

CanonicalVerdicts == {"allowed_main", "allowed_conditional", "allowed_auxiliary",
                      "not_allowed", "unclear", "no_actual_zone", "no_zone_metadata"}

(* normalize_llm_verdict *)
Normal(reply) ==
    IF reply.verdict \in CanonicalVerdicts THEN reply.verdict
    ELSE IF reply.verdict = "allowed" THEN AllowedIn(reply.hint)
    ELSE "unclear"

(* Without a model: nothing was compared by meaning, or nothing was found. *)
WithoutModel == IF input.embeds THEN "not_allowed" ELSE "unclear"
-----------------------------------------------------------------------------
(* What the templates permit by the codes as they are written.             *)

Written(i) == (input.templates[i].main \cup input.templates[i].auxiliary)
                 \ input.templates[i].bare

(* The template behind a key: the last of that code, else the first of that *)
(* base code among those that have a code of their own.                      *)
BehindKey(code) ==
    IF WithCode(code) # {} THEN Max(WithCode(code)) ELSE Min(WithBase(code) \ WithCode(NoCode))

MutZoneAllowed == [code \in {input.templates[i].code : i \in DOMAIN input.templates} \ {NoCode}
                      |-> Written(BehindKey(code))]

(* build_zone_allowed_vri_codes *)
ZoneAllowed ==
    [code \in (UNION {{input.templates[i].code, input.templates[i].base} :
                         i \in DOMAIN input.templates \ WithCode(NoCode)}) \ {NoCode}
        |-> Written(BehindKey(code))]

(* The code with its last dotted parts cut off, longest first. *)
Shortened(code) == <<code \div 10, code \div 100>>

(* find_allowed_candidate_codes *)
AllowedCandidates(zone, codes) ==
    LET k   == SelectInSeq(Shortened(zone), LAMBDA p : p \in DOMAIN ZoneAllowed)
        own == IF zone \in DOMAIN ZoneAllowed THEN ZoneAllowed[zone] ELSE {}
        codesOfZone == IF own # {} \/ k = 0 THEN own ELSE ZoneAllowed[Shortened(zone)[k]]
    IN  IF zone = NoCode THEN {} ELSE Range(codes) \cap codesOfZone
-----------------------------------------------------------------------------
(* Questions.                                                              *)

Wrd(i) == Words[input.parcels[i].text]

(* build_source_with_spatial_attributes *)
Joined ==
    [i \in DOMAIN input.parcels |->
        IF input.check
        THEN [zone    |-> ActualZone(input.parcels[i], input.zones),
              crossed |-> Crossed(input.parcels[i], input.zones)]
        ELSE [zone |-> NoCode, crossed |-> {}]]

Zone(i) == sites[i].zone

(* __comparison_key__: the wording and where the parcel lies, or the text *)
KeyAt(i, site) == IF input.check THEN <<Wrd(i).canon, site.zone, site.crossed>>
                  ELSE <<input.parcels[i].text>>

Key(i) == KeyAt(i, sites[i])

FirstWith(key) == Min({i \in DOMAIN input.parcels : Key(i) = key})

(* drop_duplicates: a question is known by its first parcel *)
Questions(joined) ==
    {i \in DOMAIN joined : \A j \in 1..(i - 1) : KeyAt(j, joined[j]) # KeyAt(i, joined[i])}

AskKey(i) == <<Wrd(i).canon, Zone(i)>>

Row(verdict, method, top) == [verdict |-> verdict, method |-> method, top |-> top]

(* What is in a table already stays. *)
Extended(table, key, entry) ==
    [k \in DOMAIN table \cup {key} |-> IF k \in DOMAIN table THEN table[k] ELSE entry]

Decide(w, row) ==
    /\ rows' = Extended(rows, busy[w][2], row)
    /\ busy' = [busy EXCEPT ![w] = Idle]

CheckInit ==
    /\ sites = <<>> /\ queue = {} /\ busy = [w \in Workers |-> Idle] /\ rows = <<>>
    /\ answers = <<>> /\ ranks = <<>> /\ heard = {} /\ tops = <<>> /\ features = <<>>
    /\ overlaps = {} /\ faults = 0

(* Layers, templates and embeddings are loaded and the pool is started. *)
Load ==
    /\ stage = "waiting"
    /\ stage' = "classify"
    /\ sites' = Joined
    /\ queue' = Questions(Joined)
    /\ UNCHANGED <<busy, rows, answers, ranks, heard, tops, features, overlaps, faults>>

(* A layer cannot be read, the embedding service does not answer, or the   *)
(* result cannot be written.                                               *)
Break ==
    /\ stage \in {"waiting", "rerank"} /\ faults < MaxFaults
    /\ stage' = "failed"
    /\ faults' = faults + 1
    /\ UNCHANGED <<sites, queue, busy, rows, answers, ranks, heard, tops, features, overlaps>>

(* In the order of the parcels. *)
Take(w) ==
    /\ stage = "classify" /\ busy[w] = Idle /\ queue # {}
    /\ busy' = [busy EXCEPT ![w] = <<"decide", Min(queue)>>]
    /\ queue' = queue \ {Min(queue)}
    /\ UNCHANGED <<sites, stage, rows, answers, ranks, heard, tops, features, overlaps, faults>>

Decides(w) == stage = "classify" /\ busy[w][1] = "decide"

(* By the rules, by an answer another worker has had, without a model, or   *)
(* it has to be asked; the prompt cannot be built for a template without a  *)
(* code.                                                                    *)
Look(w) ==
    LET i == busy[w][2]
        ruled == ByRules(Wrd(i), Zone(i))
    IN  /\ Decides(w) /\ input.check
        /\ \/ /\ ruled # "ask"
              /\ Decide(w, Row(ruled, "rule", <<>>))
           \/ /\ ruled = "ask" /\ AskKey(i) \in DOMAIN answers
              /\ Decide(w, Row(answers[AskKey(i)], "llm", <<>>))
           \/ /\ ruled = "ask" /\ AskKey(i) \notin DOMAIN answers /\ ~input.llm
              /\ Decide(w, Row(WithoutModel, "rule", <<>>))
           \/ /\ ruled = "ask" /\ AskKey(i) \notin DOMAIN answers /\ input.llm
              /\ IF input.templates[Reference(Zone(i))].code = NoCode
                 THEN Decide(w, Row("unclear", "error", <<>>))
                 ELSE /\ busy' = [busy EXCEPT ![w] = <<"ask", i>>]
                      /\ UNCHANGED rows
        /\ UNCHANGED <<sites, stage, queue, answers, ranks, heard, tops, features, overlaps, faults>>

MutOverwrites(cache, key, answer) == [Extended(cache, key, answer) EXCEPT ![key] = answer]

SetDefault(cache, key, answer) == Extended(cache, key, answer)

(* The first answer to a question is everyone's. *)
Answered(w, verdict) ==
    LET key == AskKey(busy[w][2])
    IN  /\ answers' = SetDefault(answers, key, verdict)
        /\ Decide(w, Row(answers'[key], "llm", <<>>))

Answer(w, reply) ==
    /\ stage = "classify" /\ busy[w][1] = "ask"
    /\ Answered(w, Normal(reply))
    /\ heard' = heard \cup {<<AskKey(busy[w][2]), Normal(reply)>>}
    /\ UNCHANGED <<sites, stage, queue, ranks, tops, features, overlaps, faults>>

MutUnanswered == "not_allowed"

(* A failed call is missing evidence. *)
Unanswered == "unclear"

AskFails(w) ==
    /\ stage = "classify" /\ busy[w][1] = "ask" /\ faults < MaxFaults
    /\ Answered(w, Unanswered)
    /\ faults' = faults + 1
    /\ UNCHANGED <<sites, stage, queue, ranks, heard, tops, features, overlaps>>

(* The verdict a classification without zones has. *)
Unchecked(w) == IF w.manual THEN "unclear" ELSE "classifier_only"

Classified(w, ranking) ==
    LET word == Wrd(busy[w][2])
    IN  Decide(w, Row(Unchecked(word), "ranked", OfClassified(word, ranking)))

Fast(word) == Policies(word, Recall(word))

(* The same for a classification without zones. *)
LookUp(w) ==
    LET word == Wrd(busy[w][2])
        ask  == ~word.residential /\ NeedsModel(word, FirstOf(Fast(word), RecallN), input.llm)
    IN  /\ Decides(w) /\ ~input.check
        /\ \/ ~ask /\ Classified(w, FirstOf(Fast(word), TopN))
           \/ ask /\ word.lower \in DOMAIN ranks /\ Classified(w, ranks[word.lower])
           \/ /\ ask /\ word.lower \notin DOMAIN ranks
              /\ busy' = [busy EXCEPT ![w] = <<"rank", busy[w][2]>>]
              /\ UNCHANGED rows
        /\ UNCHANGED <<sites, stage, queue, answers, ranks, heard, tops, features, overlaps, faults>>

RankedBy(w, attempt, reply) ==
    LET word == Wrd(busy[w][2])
        ranking == ModelRanking(FirstOf(Fast(word), RecallN), attempt, reply)
    IN  /\ stage = "classify" /\ busy[w][1] = "rank"
        /\ ranks' = SetDefault(ranks, word.lower, ranking)
        /\ Classified(w, ranks'[word.lower])
        /\ UNCHANGED <<sites, stage, queue, answers, heard, tops, features, overlaps, faults>>

(* An error inside of a worker is a row for manual review. *)
Crash(w) ==
    /\ Decides(w) /\ faults < MaxFaults
    /\ Decide(w, Row("unclear", "error", <<>>))
    /\ faults' = faults + 1
    /\ UNCHANGED <<sites, stage, queue, answers, ranks, heard, tops, features, overlaps>>

AllDecided ==
    /\ stage = "classify" /\ queue = {} /\ \A w \in Workers : busy[w] = Idle
    /\ stage' = "rerank"
    /\ UNCHANGED <<sites, queue, busy, rows, answers, ranks, heard, tops, features, overlaps, faults>>
-----------------------------------------------------------------------------
(* After the pool.                                                         *)

Refused == {i \in DOMAIN rows : rows[i].verdict = "not_allowed"}

RefusedCanons == {Wrd(i).canon : i \in Refused} \ {""}

FirstRefused(canon) == Min({i \in Refused : Wrd(i).canon = canon})

(* One wording that was refused gets its candidates. *)
Rerank(canon, attempt, reply) ==
    /\ stage = "rerank" /\ canon \notin DOMAIN tops
    /\ tops' = Extended(tops, canon,
                        OfRefused(Wrd(FirstRefused(canon)), input.llm, attempt, reply))
    /\ UNCHANGED <<sites, stage, queue, busy, rows, answers, ranks, heard, features, overlaps, faults>>

(* An error while candidates are looked for leaves none to start from. *)
RerankFails(canon) ==
    LET word == Wrd(FirstRefused(canon))
    IN  /\ stage = "rerank" /\ canon \notin DOMAIN tops /\ faults < MaxFaults
        /\ tops' = Extended(tops, canon, FirstOf(Policies(word, Promoted(word, <<>>)), TopN))
        /\ faults' = faults + 1
        /\ UNCHANGED <<sites, stage, queue, busy, rows, answers, ranks, heard, features, overlaps>>

TopOf(i) == LET row == rows[FirstWith(Key(i))] IN
            IF row.verdict = "not_allowed" /\ Wrd(i).canon # "" THEN tops[Wrd(i).canon]
            ELSE row.top

(* mark_manual_review_for_allowed_top_candidates *)
Label(i) ==
    LET verdict == rows[FirstWith(Key(i))].verdict
    IN  IF verdict = "not_allowed" /\ AllowedCandidates(Zone(i), TopOf(i)) # {}
        THEN "unclear" ELSE verdict

(* A parcel shows the text its question was first asked with. *)
ResultRow(i) == [verdict |-> Label(i), zone |-> Zone(i), top |-> TopOf(i),
                 text |-> input.parcels[FirstWith(Key(i))].text]

WriteResult(failed) ==
    /\ stage = "rerank" /\ RefusedCanons \subseteq DOMAIN tops
    /\ failed => input.check /\ faults < MaxFaults
    /\ stage' = "written"
    /\ features' = [i \in DOMAIN input.parcels |-> ResultRow(i)]
    /\ overlaps' = IF input.check /\ ~failed
                   THEN {[summary |-> Summary(input.parcels, input.zones, input.mo),
                          notes |-> [i \in DOMAIN input.parcels |->
                                        Notes(input.parcels, i, input.zones, input.mo)]]}
                   ELSE {}
    /\ faults' = IF failed THEN faults + 1 ELSE faults
    /\ UNCHANGED <<sites, queue, busy, rows, answers, ranks, heard, tops>>

CheckStep ==
    \/ Load \/ Break \/ AllDecided
    \/ \E w \in Workers :
          \/ Take(w) \/ Look(w) \/ LookUp(w) \/ AskFails(w) \/ Crash(w)
          \/ \E reply \in Replies : Answer(w, reply)
          \/ \E attempt \in {1, 2}, reply \in Rankings : RankedBy(w, attempt, reply)
    \/ \E canon \in RefusedCanons :
          \/ RerankFails(canon)
          \/ \E attempt \in {1, 2}, reply \in Rankings : Rerank(canon, attempt, reply)
    \/ \E failed \in BOOLEAN : WriteResult(failed)
-----------------------------------------------------------------------------
(* Properties.                                                             *)

(* Parcels that ask the same get the same: one verdict for one wording in   *)
(* one zone whatever else the parcels touch, one list of candidates for one *)
(* text in whatever case, although several workers ask at once and a model  *)
(* answers each of them differently; only an error inside a worker stands    *)
(* apart (pipeline_impl.py _process_row, the two caches).                    *)
SameQuestionSameAnswer ==
    \A i, j \in DOMAIN rows :
        /\ rows[i].method # "error" /\ rows[j].method # "error"
        /\ IF input.check THEN AskKey(i) = AskKey(j) ELSE Wrd(i).lower = Wrd(j).lower
        => rows[i].verdict = rows[j].verdict /\ rows[i].top = rows[j].top

(* A parcel is refused for a reason: a model said so of its wording in its   *)
(* zone, or the model is switched off and the comparison by meaning found     *)
(* nothing.  Failures, errors and replies nobody understands never refuse     *)
(* (LLM_CHECK_FAILED_REASON, CLASSIFICATION_FAILED_REASON).                   *)
RefusedOnEvidence ==
    \A i \in Refused : IF input.llm THEN <<AskKey(i), "not_allowed">> \in heard
                       ELSE input.embeds

(* No parcel stays refused while a candidate it is shown is a main or         *)
(* auxiliary use in the very template it was checked against, although the    *)
(* check and the marking look the template up each in its own way             *)
(* (matching_layer.py resolve_zone_reference, postprocess_layer.py).          *)
RefusalMatchesReference ==
    \A i \in DOMAIN features :
        LET f == features[i] IN
        f.verdict = "not_allowed" /\ input.templates[Reference(f.zone)].code # NoCode
            => Range(f.top) \cap Written(Reference(f.zone)) = {}
=============================================================================
