---------------------------- MODULE Submissions -----------------------------
(***************************************************************************)
(* From uploaded files to a task (service/api/classifier.py): the checks   *)
(* of the files, the columns that are found in them                        *)
(* (use_cases/detect_columns.py), the descriptions of zones given as a     *)
(* table (use_cases/convert_zone_table.py), the review of zones the        *)
(* built-in template does not know (use_cases/building_zone_review.py),    *)
(* the row that is created and the runner it is routed to.                 *)
(*                                                                         *)
(* A request is [mode, auto, files, labels, service, confirmed, key]:      *)
(* files maps slots to files; an auto request has its columns found, the   *)
(* other takes the caller's word.  A zone code stands for its normal form. *)
(***************************************************************************)
EXTENDS ObjectFit, SequencesExt

CONSTANTS
    Template,     \* the built-in letter-index mapping
    ReviewLimit   \* building_pzz_zone_suggest_threshold

Modes == {"pzz_check", "classify_only", "building_pzz_check", "placement"}

(* "json" is .json or no extension at all. *)
Formats == {"json", "geojson", "vector", "table", "other"}

Faults == {"none", "gone", "huge", "broken", "type", "crs"}

Roles == {"vri", "code", "name", "type", "service", "floors", "permission"}

(* known: the roles whose well-known column holds values; blank: those whose*)
(* well-known column is empty; found: those a model has a filled column for.*)
File == [format : Formats, fault : Faults, known : SUBSET Roles, blank : SUBSET Roles,
         found : SUBSET Roles]

Given(r, slot) == slot \in DOMAIN r.files

(* The refusals that come first decide: "ok" when there is none. *)
FirstRefusal(checks) ==
    LET k == SelectInSeq(checks, LAMBDA s : s # "ok")
    IN  IF k = 0 THEN "ok" ELSE checks[k]

(* _ingest_geo_upload, _upload_to_feature_collection *)
GeoRefusal(file) ==
    IF file.format \in {"table", "other"} THEN "415"
    ELSE CASE file.fault = "huge" -> "413"
           [] file.fault \in {"broken", "type"} -> "400"
           [] file.fault = "crs" -> "422"
           [] OTHER -> "ok"

(* _ingest_upload of a slot that takes JSON only *)
JsonRefusal(file) ==
    IF file.format # "json" THEN "415"
    ELSE CASE file.fault = "huge" -> "413"
           [] file.fault \in {"broken", "type"} -> "400"
           [] OTHER -> "ok"

GeoSlot(r, slot) == IF Given(r, slot) THEN GeoRefusal(r.files[slot]) ELSE "ok"

JsonSlot(r, slot) == IF Given(r, slot) THEN JsonRefusal(r.files[slot]) ELSE "ok"

Required(r, slot) == IF Given(r, slot) THEN "ok" ELSE "422"
-----------------------------------------------------------------------------
(* Columns.                                                                *)

MutColumn(file, role, model) ==
    IF role \in file.known THEN "filled" ELSE IF role \in file.blank THEN "blank"
    ELSE IF model /\ role \in file.found THEN "filled" ELSE "none"

(* detect_columns_for_file: columns without values are not offered. *)
Column(file, role, model) ==
    IF role \in file.known \/ (model /\ role \in file.found) THEN "filled" ELSE "none"

Resolved(r, slot, role, model) == Column(r.files[slot], role, model) # "none"

(* The columns a mode cannot do without, of those that are found. *)
ColumnsFound(r, model) ==
    CASE r.mode = "building_pzz_check" ->
            /\ Resolved(r, "zones", "code", model)
            /\ \E role \in {"type", "service"} : Resolved(r, "cadastral", role, model)
      [] r.mode = "placement" ->
            /\ Resolved(r, "zones", "code", model)
            /\ Given(r, "cadastral") => Resolved(r, "cadastral", "vri", model)
      [] OTHER ->
            /\ Resolved(r, "cadastral", "vri", model)
            /\ r.mode = "pzz_check" =>
                  \A role \in {"code", "name"} : Resolved(r, "zones", role, model)

(* What the row says of the columns of its layers. *)
RowColumns(r, model) ==
    IF ~r.auto /\ r.mode # "building_pzz_check"
    THEN [role \in Roles |-> "claimed"]
    ELSE [role \in Roles |->
            IF role \in {"code", "name"}
            THEN IF Given(r, "zones") THEN Column(r.files["zones"], role, model) ELSE "none"
            ELSE IF Given(r, "cadastral") THEN Column(r.files["cadastral"], role, model)
            ELSE "none"]
-----------------------------------------------------------------------------
(* Descriptions of zones.  A table is a sequence of [zone, code, permission]*)

(* _permission_bucket; what it does not know is filed under the main uses. *)
Bucket(row, permitted) ==
    IF permitted /\ row.permission \in {"conditional", "auxiliary"} THEN row.permission
    ELSE "main"

(* convert_zone_table *)
Converted(table, permitted) ==
    LET used == {table[i] : i \in {i \in DOMAIN table :
                                      table[i].zone # NoKey /\ table[i].code # NoVri}}
    IN  [zone \in {row.zone : row \in used} |->
            [s \in {"main", "conditional", "auxiliary"} |->
                {row.code : row \in {row \in used : row.zone = zone /\ Bucket(row, permitted) = s}}]]

(* _convert_descriptions_if_table *)
TableRefusal(r, model) ==
    IF ~Given(r, "labels") THEN "ok"
    ELSE IF r.files["labels"].format # "table"
    THEN IF r.files["labels"].format = "json" THEN "ok" ELSE "415"
    ELSE IF r.files["labels"].fault = "broken"
            \/ \E role \in {"code", "vri"} : ~Resolved(r, "labels", role, model)
    THEN "detection_failed" ELSE "ok"

(* The endpoints that turn a table into the JSON the slot takes. *)
TurnsTables(r) == r.mode = "building_pzz_check" \/ (r.auto /\ r.mode # "classify_only")

IsTable(r) == Given(r, "labels") /\ r.files["labels"].format = "table"

(* The mapping the labels of a request hold. *)
Described(r, model) ==
    IF IsTable(r)
    THEN [numeric |-> FALSE,
          map |-> Converted(r.labels.table, Resolved(r, "labels", "permission", model))]
    ELSE [numeric |-> r.labels.numeric, map |-> r.labels.map]
-----------------------------------------------------------------------------
(* The review of the zones of a building check.                            *)

ZoneCodesOf(zones) == {zones[i].code : i \in DOMAIN zones} \ {NoKey}

Uncovered(r) == ZoneCodesOf(r.zones) \ DOMAIN Template

(* review_building_zones *)
Review(r) ==
    IF Numeric(r.zones) \/ Given(r, "labels")
    THEN [action |-> "proceed", approximate |-> FALSE]
    ELSE [approximate |-> TRUE,
          action |-> IF r.confirmed # <<>> \/ Uncovered(r) = {} THEN "proceed"
                     ELSE IF Cardinality(Uncovered(r)) >= ReviewLimit THEN "suggest_upload"
                     ELSE "confirm"]

MutOverlay(confirmed) ==
    [zone \in DOMAIN confirmed |->
        IF confirmed[zone] \in DOMAIN Template THEN Template[confirmed[zone]]
        ELSE [s \in {"main", "conditional", "auxiliary"} |-> {}]]

(* build_confirmed_overlay; a match to a zone that is not in the template is*)
(* dropped.                                                                  *)
Overlay(confirmed) ==
    LET matched == {z \in DOMAIN confirmed : confirmed[z] \in DOMAIN Template}
    IN  [zone \in DOMAIN Template \cup matched |->
            IF zone \in matched THEN Template[confirmed[zone]] ELSE Template[zone]]

(* remaining_uncovered: what the disclaimer names *)
Remaining(r) == Uncovered(r) \ DOMAIN r.confirmed

(* The model offers matches, or nothing. *)
Reviewed(r, offers) ==
    IF Review(r).action = "confirm" /\ ~offers THEN "suggest_upload" ELSE Review(r).action

(* The descriptions a building check starts with. *)
BuildingLabels(r, model) ==
    IF Review(r).approximate /\ r.confirmed # <<>>
    THEN [numeric |-> FALSE, map |-> Overlay(r.confirmed)]
    ELSE IF Given(r, "labels") THEN Described(r, model)
    ELSE [numeric |-> FALSE, map |-> <<>>]
-----------------------------------------------------------------------------
(* Answers: a refusal, a step the caller has to take, or "created".        *)

(* The slots an endpoint asks for, in its order. *)
MissingSlot(r) ==
    FirstRefusal(
        CASE r.mode = "placement" ->
                <<Required(r, "zones"), IF r.service = NoName THEN "422" ELSE "ok">>
          [] r.mode = "classify_only" -> <<Required(r, "cadastral")>>
          [] OTHER -> <<Required(r, "cadastral"), Required(r, "zones")>>)

(* _resolve_file_slot: an upload that is gone, or somebody else's *)
Gone(r) == IF \E slot \in DOMAIN r.files : r.files[slot].fault = "gone" THEN "404" ELSE "ok"

(* Objects that exist already are for a placement only. *)
StrayObjects(r) ==
    IF Given(r, "existing") /\ r.mode # "placement" THEN "422" ELSE "ok"

(* normalize_placement_objects: an unreadable layer, or one without types *)
BadObjects(r) ==
    IF /\ Given(r, "existing") /\ r.existing # <<>>
       /\ r.files["existing"].known \cap {"type", "service"} = {}
    THEN "422" ELSE "ok"

(* Layers are read once for their columns, in this order, and once more     *)
(* when the task is created.                                                *)
Layers(r) ==
    LET order == IF r.mode = "placement" THEN <<"zones", "cadastral", "existing">>
                 ELSE IF r.mode = "classify_only" THEN <<"cadastral">>
                 ELSE <<"cadastral", "zones">>
    IN  FirstRefusal([i \in DOMAIN order |-> GeoSlot(r, order[i])])

(* _create_pipeline_task *)
CreateRefusal(r) ==
    FirstRefusal(<<GeoSlot(r, "cadastral"),
                   IF r.mode = "classify_only" THEN "ok" ELSE GeoSlot(r, "zones"),
                   IF r.mode = "pzz_check" THEN GeoSlot(r, "mo") ELSE "ok",
                   IF TurnsTables(r) /\ IsTable(r) THEN "ok" ELSE JsonSlot(r, "labels"),
                   IF r.mode = "building_pzz_check" THEN "ok" ELSE JsonSlot(r, "classifier")>>)

(* The answer of the endpoint; model tells whether the model answers        *)
(* questions about columns, offers whether it has matches for unknown zones, code    *)
(* what the service means.                                                   *)
AnswerOf(r, model, offers, code) ==
    FirstRefusal(
        CASE ~r.auto /\ r.mode # "building_pzz_check" -> <<MissingSlot(r), Gone(r), CreateRefusal(r), "created">>
          [] r.mode = "building_pzz_check" ->
                <<StrayObjects(r), MissingSlot(r), Gone(r), TableRefusal(r, model), Layers(r),
                  IF Layers(r) # "ok" \/ ColumnsFound(r, model) THEN "ok" ELSE "detection_failed",
                  IF Reviewed(r, offers) = "proceed" THEN "ok" ELSE Reviewed(r, offers),
                  CreateRefusal(r), "created">>
          [] r.mode = "placement" ->
                <<MissingSlot(r), IF code = NoVri THEN "detection_failed" ELSE "ok",
                  TableRefusal(r, model), Layers(r), BadObjects(r),
                  IF ColumnsFound(r, model) THEN "ok" ELSE "detection_failed",
                  CreateRefusal(r), "created">>
          [] OTHER ->
                <<StrayObjects(r), MissingSlot(r),
                  IF r.mode = "pzz_check" THEN TableRefusal(r, model) ELSE "ok", Layers(r),
                  IF ColumnsFound(r, model) THEN "ok" ELSE "detection_failed",
                  CreateRefusal(r), "created">>)

MutPrefix(r) == IF r.mode = "placement" THEN "plc"
                ELSE IF ~r.key THEN "none"
                ELSE IF r.mode = "building_pzz_check" THEN "bld"
                ELSE IF r.mode = "pzz_check" THEN "pzz" ELSE "clf"

(* The prefix of the idempotency key; a row without one has no key. *)
Prefix(r) == IF r.mode = "placement" THEN "plc"
             ELSE IF r.mode = "building_pzz_check" THEN "bld"
             ELSE IF ~r.key THEN "none"
             ELSE IF r.mode = "pzz_check" THEN "pzz" ELSE "clf"

(* The row of an accepted request. *)
Created(r, model, code) ==
    [prefix |-> Prefix(r), code |-> IF r.mode = "placement" THEN code ELSE NoVri,
     check |-> r.mode # "classify_only",
     slots |-> DOMAIN r.files \ (CASE r.mode = "classify_only" -> {"zones", "mo", "existing"}
                                   [] r.mode = "pzz_check"     -> {"existing"}
                                   [] r.mode = "placement"     -> {"mo"}
                                   [] OTHER -> {"mo", "existing", "classifier"}),
     columns |-> RowColumns(r, model),
     described |-> Given(r, "labels") \/ r.mode = "pzz_check",
     context |-> r.mode = "placement",
     warned |-> IF r.mode = "building_pzz_check" /\ Review(r).approximate THEN Remaining(r) ELSE {}]

(* start_task and PipelineRunnerFactory.create *)
RunnerOf(row, deterministic) ==
    IF row.code # NoVri THEN "placement"
    ELSE IF row.prefix = "bld" THEN "building"
    ELSE IF row.prefix = "sc" /\ (deterministic \/ "existing" \in row.slots) THEN "scenario"
    ELSE "pipeline"

(* The layers and columns a runner cannot do without. *)
HasWhatItNeeds(runner, row) ==
    LET has(role) == row.columns[role] \in {"filled", "claimed"} IN
    CASE runner = "placement" ->
            /\ "zones" \in row.slots /\ has("code")
            /\ "cadastral" \in row.slots => has("vri")
      [] runner = "building" ->
            {"cadastral", "zones"} \subseteq row.slots /\ has("code")
            /\ (has("type") \/ has("service"))
      [] OTHER ->
            /\ "cadastral" \in row.slots /\ has("vri")
            /\ row.check => "zones" \in row.slots /\ has("code") /\ has("name") /\ row.described
=============================================================================
