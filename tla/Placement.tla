----------------------------- MODULE Placement ------------------------------
(***************************************************************************)
(* Where a service may stand (runners/placement_pzz_runner.py): every zone *)
(* gets a class of suitability, the strict norms and the sanitary zones of *)
(* production cut parts off it, and the soft norms mark what is near.      *)
(* Also how the service gets its code (resolve_service_vri.py) and where   *)
(* the norms come from (domain/placement.py, placement_context.py).        *)
(*                                                                         *)
(* The ground is a line of cells, a buffer the cells within its width.     *)
(***************************************************************************)
EXTENDS ObjectFit, FiniteSetsExt

CONSTANTS
    Ground,        \* a set of integers
    SzzWidth,      \* hazard class -> width of the sanitary zone, in cells
    Sensitive,     \* the target codes a sanitary zone excludes
    MinOverlap     \* share of zone codes a document must have, in percent

ASSUME PlacementAssumption ==
    /\ Ground \subseteq Int
    /\ SzzWidth \in [1..5 -> Nat]

NoClass == 0
DefaultClass == 4      \* DEFAULT_HAZARD_CLASS

Buffer(cells, width) == {c \in Ground : \E b \in cells : c - b \in -width..width}

Union(parcels) == UNION {parcel.cells : parcel \in parcels}
-----------------------------------------------------------------------------
(* The code of the service: written out, known by name, found by meaning,  *)
(* or chosen by a model.  A name is known by what each step finds.         *)

Query(Codes) == [written : Codes \cup {NoVri}, exact : SUBSET Codes,
                 stem : Codes \cup {NoVri}, semantic : Codes \cup {NoVri},
                 model : Codes \cup {NoVri}]

(* resolve_service_vri; what an embedder or a model that fails finds is     *)
(* NoVri.  A name of two codes is looked up by its words.                    *)
ServiceCodeOf(q) ==
    LET found == SelectSeq(<<q.written, Only(q.exact), q.stem, q.semantic, q.model>>,
                           LAMBDA c : c # NoVri)
    IN  IF found = <<>> THEN NoVri ELSE Head(found)
-----------------------------------------------------------------------------
(* Norms.  A restriction is known by its template, the layer on the other  *)
(* side of it ("unknown" when there is no data of that kind, "none" when   *)
(* the service takes no part), its geometry mode and its distance.         *)

Templates == {"distance_from_source", "presence_within", "accessibility_within",
              "object_attribute_threshold", "unsupported"}

Restriction(Documents) ==
    [template : Templates, other : {"housing", "target", "unknown", "none"},
     on_source : BOOLEAN, distance : 0..2, group : Nat, doc : Documents]

Rule(strictness, effect, layer, distance) ==
    [strictness |-> strictness, effect |-> effect, layer |-> layer, distance |-> distance]

UncheckedRule == Rule("unchecked", "none", "none", 0)

(* rule_from_restriction *)
RuleOf(r) ==
    CASE r.template = "object_attribute_threshold" -> Rule("soft", "none", "none", 0)
      [] r.template = "distance_from_source" /\ r.other \in {"housing", "target"} ->
            IF r.on_source THEN Rule("strict", "exclude_on", r.other, 0)
            ELSE IF r.distance = 0 THEN UncheckedRule
            ELSE Rule("strict", "exclude_near", r.other, r.distance)
      [] r.template \in {"presence_within", "accessibility_within"} /\ r.other = "housing" ->
            IF r.distance = 0 THEN UncheckedRule
            ELSE Rule("soft", "prefer_near", "housing", r.distance)
      [] OTHER -> UncheckedRule

(* A document of the regulations: [id, codes, territory, mapping], newest   *)
(* first.  _pick_regulations: the one that knows most of the zones.         *)
Overlap(codes, d) == (100 * Cardinality(codes \cap d.codes)) \div Cardinality(codes)

NoTerritory == 0

TerritoryDocuments(documents, territory) ==
    {i \in DOMAIN documents : documents[i].codes # {}
        /\ territory \in {NoTerritory, documents[i].territory}}

BestDocument(codes, documents, territory) ==
    LET all  == TerritoryDocuments(documents, territory)
        best == {i \in all : \A j \in all :
                    Overlap(codes, documents[i]) >= Overlap(codes, documents[j])}
    IN  IF codes = {} \/ all = {} THEN {}
        ELSE {i \in {Min(best)} : Overlap(codes, documents[i]) >= MinOverlap}

(* build_placement_context: the first restriction of a group gives a rule,  *)
(* which goes by the place of its restriction.  What fails to be read is    *)
(* left out; without the list of documents nothing tells their provisions   *)
(* from norms.                                                              *)
ContextOf(codes, graph, territory, readsDocuments, readsNorms) ==
    LET known == IF readsDocuments THEN {graph.documents[i].id : i \in DOMAIN graph.documents} ELSE {}
        best  == IF readsDocuments THEN BestDocument(codes, graph.documents, territory) ELSE {}
        given == graph.restrictions
        norms == {i \in DOMAIN given : given[i].doc \notin known \cup graph.excluded}
        first == {i \in norms : \A j \in norms : j < i => given[j].group # given[i].group}
    IN  [mapping |-> IF best = {} THEN <<>> ELSE graph.documents[Min(best)].mapping,
         rules |-> IF readsNorms THEN [i \in first |-> RuleOf(given[i])] ELSE <<>>]
-----------------------------------------------------------------------------
(* Parcels: [says, point, cells], where says are the marks found in the     *)
(* text: "code", "family" (of the target), "vocational", "preschool",       *)
(* "school", "production", "housing", "not housing".  vocational stands for *)
(* a text that names nothing else.                                          *)

(* classify_parcel *)
ParcelKind(says, target) ==
    IF says \cap {"code", "family"} # {}
    THEN IF target.general /\ "vocational" \in says THEN "other"
         ELSE IF target.school /\ "preschool" \in says /\ "school" \notin says THEN "other"
         ELSE "target"
    ELSE IF "production" \in says THEN "production"
    ELSE IF "housing" \in says /\ "not housing" \notin says THEN "housing"
    ELSE "other"

OfKind(parcels, target, kind) ==
    {parcels[i] : i \in {i \in DOMAIN parcels : ParcelKind(parcels[i].says, target) = kind}}

(* _zone_permissions: the user's file, NormGraph, the template *)
Permissions(uploaded, default, numeric, context) ==
    IF numeric \/ DOMAIN context.mapping = {}
       \/ (uploaded.numeric = numeric /\ DOMAIN uploaded.map # {})
    THEN MappingInUse(uploaded, default, numeric)
    ELSE context.mapping

MutWidth(class) == IF class = NoClass THEN 0 ELSE SzzWidth[class]

(* szz_width_m *)
Width(class) == SzzWidth[IF class = NoClass THEN DefaultClass ELSE class]

(* _szz: the width of a production parcel is that of the class its zone names*)
Szz(production, zones) ==
    UNION {Buffer(p.cells, LET at == Containing(p, zones) IN
                           Width(IF at = {} THEN NoClass ELSE zones[Min(at)].hazard)) :
              p \in production}

(* The existing objects of this type: an upload wins, even an empty one.     *)
Existing(parcels, objects, target) ==
    Union(OfKind(IF objects.given THEN objects.layer ELSE parcels, target, "target"))

LayerOf(rule, housing, existing) == IF rule.layer = "target" THEN existing ELSE housing

(* The rules that have data to be applied to; norm_cuts joins equal ones.    *)
Applied(rules, strictness, housing, existing) ==
    {rules[i] : i \in {i \in DOMAIN rules :
        rules[i].strictness = strictness /\ rules[i].effect # "none"
        /\ LayerOf(rules[i], housing, existing) # {}}}

CutOf(rule, housing, existing) == Buffer(LayerOf(rule, housing, existing), rule.distance)

(* The cuts of a placement in the order they are applied in: the sanitary    *)
(* zones, then the strict norms.                                             *)
Cuts(p, context) ==
    LET housing  == Union(OfKind(p.parcels, p.target, "housing"))
        existing == Existing(p.parcels, p.objects, p.target)
        szz      == IF p.target.code \in Sensitive
                    THEN Szz(OfKind(p.parcels, p.target, "production"), p.zones) ELSE {}
        strict   == Applied(context.rules, "strict", housing, existing)
    IN  [k \in {0} \cup DOMAIN context.rules |->
            IF k = 0 THEN szz
            ELSE IF context.rules[k] \in strict THEN CutOf(context.rules[k], housing, existing)
            ELSE {}]

(* The soft norms mark what is within the least of their distances.          *)
Reach(p, context) ==
    LET housing == Union(OfKind(p.parcels, p.target, "housing"))
        near    == {r.distance : r \in Applied(context.rules, "soft", housing, {})}
    IN  IF near = {} THEN {} ELSE Buffer(housing, Min(near))

ClassOf(verdict) ==
    CASE verdict = "allowed_main" -> "A"
      [] verdict \in {"allowed_conditional", "allowed_auxiliary"} -> "B"
      [] verdict = "not_allowed" -> "C"
      [] OTHER -> "D"

Suitable == {"A", "A*", "B", "B*"}

WithExisting(class) == CASE class = "A" -> "A*" [] class = "B" -> "B*" [] OTHER -> class

Part(zone, class, cells) == [zone |-> zone, class |-> class, cells |-> cells]

MutUncut(cells, cuts) == cells

(* What a suitable zone keeps. *)
Kept(cells, cuts) == cells \ UNION {cuts[k] : k \in DOMAIN cuts}

(* What each cut takes of a zone the earlier cuts have left.                 *)
TakenBy(cells, cuts, k) ==
    (cells \cap cuts[k]) \ UNION {cuts[j] : j \in {j \in DOMAIN cuts : j < k}}

ZoneParts(p, context, mapping, i) ==
    LET cells   == p.zones[i].cells
        class   == ClassOf(FitVerdict(p.target.code, p.zones[i].code, mapping))
        targets == OfKind(IF p.objects.given THEN p.objects.layer ELSE p.parcels,
                          p.target, "target")
        starred == \E target \in targets : target.point \in cells
        cuts    == Cuts(p, context)
    IN  IF class \notin Suitable THEN {Part(i, class, cells)}
        ELSE {part \in {Part(i, IF starred THEN WithExisting(class) ELSE class,
                             Kept(cells, cuts))}
                       \cup {Part(i, "C", TakenBy(cells, cuts, k)) : k \in DOMAIN cuts} :
                part.cells # {}}

(* The parts of every zone and the overlays of a placement. *)
Placed(p, context, mapping) ==
    [parts |-> UNION {ZoneParts(p, context, mapping, i) :
                        i \in {i \in DOMAIN p.zones : p.zones[i].code # NoKey}},
     reach |-> Reach(p, context)]
=============================================================================
