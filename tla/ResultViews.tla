---------------------------- MODULE ResultViews ----------------------------
(***************************************************************************)
(* What the API shows of a finished task (service/api/tasks.py): the links *)
(* to its layers, the file endpoint the links point at, and the reports    *)
(* counted from the features of its result.                                *)
(*                                                                         *)
(* A layer is known by its slot.  A stored path is "none", in the object   *)
(* storage or in the directory of task inputs; names, titles and wording   *)
(* are left out.                                                           *)
(***************************************************************************)
EXTENDS Integers, FiniteSets, Sequences

Stored == {"none", "remote", "local"}

TaskKinds == {"parcels", "classify", "building", "placement", "scenario",
              "scenario_placement"}

InputSlots == {"cadastral", "zones", "mo_boundaries", "existing_objects"}

SplitSlots == {"result_buildings", "result_services"}

PlacementLayers == {"placement_classes", "placement_szz", "placement_norms",
                    "placement_reach", "placement_existing"}

(* The columns of a row that decide about its layers: the stored inputs,   *)
(* whether a NormGraph context and a VRI that production zones exclude are *)
(* there, and where the result is.                                         *)
ViewedTask == [kind : TaskKinds, inputs : [InputSlots -> Stored],
               context : BOOLEAN, szz : BOOLEAN, result : Stored]

IsPlacement(t) == t.kind \in {"placement", "scenario_placement"}

IsBuilding(t) == t.kind = "building"

(* The "sc:" prefix of the idempotency key. *)
IsScenario(t) == t.kind \in {"scenario", "scenario_placement"}

Has(t, slot) == t.inputs[slot] # "none"
-----------------------------------------------------------------------------
(* Links.                                                                  *)

InputLinks(t) == {slot \in InputSlots : Has(t, slot)}

(* A scenario links its zones and the cadastre the user added, which is     *)
(* told from its own objects by the second slot being filled.               *)
ScenarioLinks(t) ==
    {slot \in {"functional_zones", "cadastral"} :
        /\ Has(t, "zones")
        /\ slot = "cadastral" => Has(t, "existing_objects") /\ Has(t, "cadastral")}

PlacementSlots(t) ==
    {slot \in PlacementLayers :
        \/ slot = "placement_classes"
        \/ /\ Has(t, "cadastral") \/ Has(t, "existing_objects")
           /\ slot = "placement_szz" => Has(t, "cadastral") /\ t.szz
           /\ slot \in {"placement_norms", "placement_reach"} => t.context}

(* build_result_geo_layers of a row seen as finished; "scenario" is what    *)
(* the endpoint says of the task.                                           *)
ResultLinks(t, scenario) ==
    IF t.result = "none" THEN {}
    ELSE IF IsPlacement(t) THEN PlacementSlots(t)
    ELSE IF IsBuilding(t) \/ scenario THEN SplitSlots
    ELSE {"result"}

MutSplitOfBuildingsOnly(t, slot, status) ==
    CASE slot \in SplitSlots -> IF IsBuilding(t) /\ status = "finished" THEN 200 ELSE 404
      [] OTHER               -> 200

(* The answer of GET /files/{slot}/{external_id} to an existing task whose  *)
(* files are there.                                                         *)
FileAnswer(t, slot, status) ==
    LET finished == status = "finished" /\ t.result # "none" IN
    CASE slot \in SplitSlots ->
           IF finished /\ (IsBuilding(t) \/ IsScenario(t)) THEN 200 ELSE 404
      [] slot \in PlacementLayers -> IF finished /\ IsPlacement(t) THEN 200 ELSE 404
      [] slot = "functional_zones" -> IF Has(t, "zones") THEN 200 ELSE 404
      [] slot = "result" -> IF finished THEN 200 ELSE 404
      [] slot \in InputSlots -> IF Has(t, slot) THEN 200 ELSE 404
      [] OTHER -> 404
-----------------------------------------------------------------------------
(* Reports.  A feature of a result carries the label of its verdict, the    *)
(* code of its zone and, in a check of buildings, its category and the      *)
(* basis of the choice; artifacts from before the category lack it.         *)

CorrectLabels == {"allowed_main", "allowed_conditional", "allowed_auxiliary"}

WrongLabels == {"not_allowed"}

NoZone == 0

Feature(Labels, Zones) ==
    [verdict : Labels, zone : Zones \cup {NoZone},
     category : {"building", "service", "absent"}, basis : {"service", "type"}]

MutUnknownIsWrong(verdict) == IF verdict \in CorrectLabels THEN "correct" ELSE "wrong"

(* _classify_verdict *)
Fit(verdict) ==
    CASE verdict \in CorrectLabels -> "correct"
      [] verdict \in WrongLabels   -> "wrong"
      [] OTHER                     -> "unclear"

(* _building_feature_category, with its fallback for old artifacts *)
Category(f) ==
    IF f.category # "absent" THEN f.category
    ELSE IF f.basis = "service" THEN "service" ELSE "building"

(* The features one half of a split result is served with. *)
SplitLayer(features, slot) ==
    {i \in DOMAIN features :
        Category(features[i]) = IF slot = "result_services" THEN "service" ELSE "building"}

(* The counters a report has for all of its rows and for each bucket. *)
Totals(features, rows) ==
    LET count(fit) == Cardinality({i \in rows : Fit(features[i].verdict) = fit})
    IN  [total |-> Cardinality(rows), correct |-> count("correct"), wrong |-> count("wrong"),
         unclear |-> count("unclear")]

ZoneCodes(features) == {features[i].zone : i \in DOMAIN features}

(* build_object_zone_fit_response: the summary and one bucket per zone code, *)
(* with one more for the rows outside of every zone.                         *)
ZoneFitReport(features, building) ==
    LET inZone(z) == {i \in DOMAIN features : features[i].zone = z}
    IN  [summary |-> Totals(features, DOMAIN features),
         zones_count |-> Cardinality(ZoneCodes(features) \ {NoZone}),
         not_in_zone |-> Cardinality(inZone(NoZone)),
         by_verdict |-> [v \in {features[i].verdict : i \in DOMAIN features} |->
                            Cardinality({i \in DOMAIN features : features[i].verdict = v})],
         by_category |-> IF building
                         THEN [c \in {"building", "service"} |->
                                 Cardinality({i \in DOMAIN features : Category(features[i]) = c})]
                         ELSE <<>>,
         zones |-> [z \in ZoneCodes(features) |-> Totals(features, inZone(z))]]

(* The manual-review lines of the chat summary: labels that are neither      *)
(* allowed nor refused.                                                      *)
ReviewReasons(report) ==
    {v \in DOMAIN report.by_verdict : v \notin CorrectLabels \cup WrongLabels}

(* build_classification_context: a small report goes in whole, of a large    *)
(* one only the first rows that need attention.                              *)
GroundingRows(features, fits, cap) ==
    LET problem == {i \in DOMAIN features : Fit(features[i].verdict) # "correct"}
    IN  IF fits THEN DOMAIN features
        ELSE {i \in problem : Cardinality({j \in problem : j <= i}) <= cap}
=============================================================================
