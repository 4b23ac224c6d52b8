----------------------------- MODULE CheckFlow ------------------------------
(***************************************************************************)
(* A request from its files, or from a scenario, to what is shown of its    *)
(* result: Submissions or Scenarios make the row, the runner the row is     *)
(* routed to checks the parcels, buildings or zones, ResultViews shows the  *)
(* result.  The third branch are direct checks against the regulations of   *)
(* a territory, which make no task.                                         *)
(***************************************************************************)
EXTENDS ParcelCheck, Placement, Submissions, Scenarios, Regulations, ResultViews

CONSTANTS
    Requests,         \* requests with files, with the contents of these
    ScenarioAsks,     \* requests for a scenario
    RegulationAsks,   \* direct checks
    Queries,          \* what is found for the name of a service
    Meanings,         \* what unknown names of types are recovered as
    Targets,          \* code -> [code, general, school]
    NumericMapping,   \* functional_zones_to_pzz_mapping.json
    DefaultTemplates, \* default_pzz_zone_labels_path, as ParcelCheck reads it
    Graph,            \* what NormGraph answers
    Deterministic     \* settings.scenario_deterministic

(* The zones of a layer are a list; a hazard class is read from 1 to 5 or not *)
(* at all.                                                                    *)
ZonesFit(zones) ==
    /\ DOMAIN zones \subseteq Nat
    /\ \A i \in DOMAIN zones : zones[i].hazard \in {NoClass} \cup DOMAIN SzzWidth

(* The API has an endpoint for each of the two. *)
ASSUME AsksAssumption == \A ask \in ScenarioAsks : ask.kind \in {"classify", "place"}

(* Only the endpoint that finds the columns places services; the parcels and   *)
(* objects of a layer are lists; every text is known by what is read in it.    *)
ASSUME RequestsAssumption ==
    \A r \in Requests :
        /\ r.mode \in Modes /\ (r.mode = "placement" => r.auto)
        /\ ZonesFit(r.zones)
        /\ r.parcels \in Seq(Range(r.parcels)) /\ r.objects \in Seq(Range(r.objects))
        /\ \A i \in DOMAIN r.parcels : r.parcels[i].text \in DOMAIN Words

ASSUME LayersAssumption ==
    /\ \A i \in DOMAIN Contents :
          /\ ZonesFit(Contents[i].zones)
          /\ \A f \in {"houses", "others", "services"} :
                Contents[i][f] \in Seq(Range(Contents[i][f]))
    /\ DOMAIN Graph.restrictions \subseteq Nat \ {0}

VARIABLES
    branch,    \* "file", "scenario" or "regulation"
    request,
    phase,     \* "submit", "queued", "running", and how it ended
    row,       \* the row of the task
    task,      \* the row as the views see it
    result     \* the features, or the parts and overlays, of the artifact

flowVars == <<branch, request, phase, row, task, result>>

vars == <<flowVars, input, checkVars, scenarioVars, regVars>>

NoRow == <<>>

Defaults == [numeric \in BOOLEAN |-> IF numeric THEN NumericMapping ELSE Template]

Init ==
    /\ phase = "submit" /\ row = NoRow /\ task = NoRow /\ result = <<>>
    /\ input = <<>> /\ stage = "none" /\ CheckInit
    /\ \/ branch = "file" /\ request \in Requests /\ ScenarioInit({NoRow}) /\ RegInit({NoRow})
       \/ branch = "scenario" /\ request = NoRow /\ ScenarioInit(ScenarioAsks) /\ RegInit({NoRow})
       \/ branch = "regulation" /\ request = NoRow /\ ScenarioInit({NoRow})
          /\ RegInit(RegulationAsks)

Others == <<scenarioVars, regVars>>
-----------------------------------------------------------------------------
(* Requests with files.                                                    *)

TemplatesOf(map) ==
    LET zones == SetToSortSeq(DOMAIN map, <)
    IN  [i \in DOMAIN zones |->
            [code |-> zones[i], base |-> NoCode, main |-> map[zones[i]].main,
             conditional |-> map[zones[i]].conditional,
             auxiliary |-> map[zones[i]].auxiliary, bare |-> {}]]

LabelsOf(r, model) ==
    IF r.mode = "building_pzz_check" THEN BuildingLabels(r, model)
    ELSE IF Given(r, "labels") THEN Described(r, model)
    ELSE [numeric |-> FALSE, map |-> <<>>]

PipelineInput(r, labels) ==
    [check |-> r.mode = "pzz_check", llm |-> r.llm, embeds |-> r.embeds,
     parcels |-> r.parcels, zones |-> IF r.mode = "pzz_check" THEN r.zones ELSE <<>>,
     mo |-> IF Given(r, "mo") THEN r.mo ELSE <<>>,
     templates |-> IF ~Given(r, "labels") THEN DefaultTemplates
                   ELSE IF IsTable(r) THEN TemplatesOf(labels.map) ELSE r.labels.templates]

KindOf(r) ==
    CASE r.mode = "pzz_check"          -> "parcels"
      [] r.mode = "classify_only"      -> "classify"
      [] r.mode = "building_pzz_check" -> "building"
      [] OTHER                         -> "placement"

Held(slot, slots) == IF slot \in slots THEN "local" ELSE "none"

View(kind, slots, code) ==
    [kind |-> kind, context |-> kind \in {"placement", "scenario_placement"},
     szz |-> code \in Sensitive, result |-> "local",
     inputs |-> [cadastral |-> Held("cadastral", slots), zones |-> Held("zones", slots),
                 mo_boundaries |-> Held("mo", slots),
                 existing_objects |-> Held("existing", slots)]]

Submit ==
    /\ branch = "file" /\ phase = "submit"
    /\ \E model \in BOOLEAN, offers \in BOOLEAN, query \in Queries :
          LET code   == ServiceCodeOf(query)
              answer == AnswerOf(request, model, offers, code)
              made   == Created(request, model, code)
          IN  IF answer # "created"
              THEN phase' = answer /\ UNCHANGED <<row, task>>
              ELSE /\ phase' = "queued"
                   /\ row' = [made |-> made, labels |-> LabelsOf(request, model)]
                   /\ task' = View(KindOf(request), made.slots, made.code)
    /\ UNCHANGED <<branch, request, result, input, checkVars, Others>>

Runs(runner) ==
    branch = "file" /\ phase = "queued" /\ RunnerOf(row.made, Deterministic) = runner

StartPipeline ==
    /\ Runs("pipeline")
    /\ phase' = "running" /\ stage' = "waiting"
    /\ input' = PipelineInput(request, row.labels)
    /\ UNCHANGED <<branch, request, row, task, result, sites, queue, busy, rows, answers, ranks,
                   heard, tops, features, overlaps, faults, Others>>

RunPipeline ==
    /\ branch = "file" /\ phase = "running"
    /\ CheckStep
    /\ UNCHANGED <<flowVars, input, Others>>

EndPipeline ==
    /\ branch = "file" /\ phase = "running" /\ stage \in {"written", "failed"}
    /\ phase' = IF stage = "written" THEN "finished" ELSE "failed"
    /\ result' = [i \in DOMAIN features |->
                    Shown(features[i].verdict, features[i].zone, "absent", "type")]
    /\ UNCHANGED <<branch, request, row, task, input, checkVars, Others>>

(* The model is asked for some of the names it knows. *)
Told(meant, names) == [n \in DOMAIN meant \cap names |-> meant[n]]

RunBuildings ==
    /\ Runs("building")
    /\ \E model \in Meanings :
          LET mapping == MappingInUse(row.labels, Defaults, Numeric(request.zones))
              meant == [types |-> Told(model.types, UnknownTypes(request.objects)),
                        services |-> Told(model.services, UnknownServices(request.objects))]
          IN  result' = [i \in DOMAIN request.objects |->
                            BuildingRow(request.objects[i], request.zones, mapping, meant)]
    /\ phase' = "finished"
    /\ UNCHANGED <<branch, request, row, task, input, checkVars, Others>>

PlacedFrom(code, zones, parcels, objects, labels, codes) ==
    \E readsDocuments \in BOOLEAN, readsNorms \in BOOLEAN :
        LET p == [target |-> Targets[code], zones |-> zones, parcels |-> parcels,
                  objects |-> objects]
            context == ContextOf(codes, Graph, NoTerritory, readsDocuments, readsNorms)
            mapping == Permissions(labels, Defaults, Numeric(zones), context)
        IN  result' = [p |-> p, context |-> context, mapping |-> mapping,
                       placed |-> Placed(p, context, mapping)]

RunPlacement ==
    /\ Runs("placement")
    /\ PlacedFrom(row.made.code, request.zones,
                  IF "cadastral" \in row.made.slots THEN request.cadastre ELSE <<>>,
                  [given |-> "existing" \in row.made.slots, layer |-> request.existing],
                  row.labels, ZoneCodesOf(request.zones))
    /\ phase' = "finished"
    /\ UNCHANGED <<branch, request, row, task, input, checkVars, Others>>
-----------------------------------------------------------------------------
(* Requests for a scenario.                                                *)

ScenarioMoves ==
    /\ branch = "scenario" /\ phase = "submit"
    /\ ScenarioStep({ServiceCodeOf(query) : query \in Queries})
    /\ UNCHANGED <<flowVars, input, checkVars, regVars>>

(* The row somebody was served is run as it is then, on the layers it holds. *)
RowOf(c) == Answers(c)

ObjectsOf(made) ==
    BuildingsOf([ask |-> made.ask, objects |-> made.objects, others |-> made.others])
        \o ServicesOf([services |-> made.services])

ScenarioSlots(made) ==
    {"cadastral", "zones"} \cup (IF made.ask.cadastre # <<>> THEN {"existing"} ELSE {})

ScenarioLabels(made) ==
    [numeric |-> made.ask.files # <<>>, map |-> made.ask.files]

ScenarioRowMade(made) ==
    [prefix |-> "sc", code |-> made.code, check |-> TRUE, slots |-> ScenarioSlots(made)]

RunScenario(c) ==
    LET made  == RowOf(c)
        zones == Contents[made.zones].zones
    IN  /\ branch = "scenario" /\ phase = "submit"
        /\ \A d \in Clients : clients[d].at = "done"
        /\ Served(c)
        /\ row' = [made |-> made, labels |-> ScenarioLabels(made)]
        /\ task' = View(IF IsPlacing(c) THEN "scenario_placement" ELSE "scenario",
                        ScenarioSlots(made), made.code)
        /\ \/ /\ RunnerOf(ScenarioRowMade(made), Deterministic) = "scenario"
              /\ phase' = "finished"
              /\ LET mapping == ScenarioMapping(ScenarioLabels(made), Defaults)
                 IN  result' = [i \in DOMAIN ObjectsOf(made) |->
                                  ScenarioRow(ObjectsOf(made)[i], zones, mapping, made.ask.cadastre)]
           \/ /\ RunnerOf(ScenarioRowMade(made), Deterministic) = "placement"
              /\ phase' = "finished"
              /\ PlacedFrom(made.code, zones,
                            IF made.ask.cadastre # <<>> THEN made.ask.cadastre ELSE ObjectsOf(made),
                            [given |-> made.ask.cadastre # <<>>, layer |-> ObjectsOf(made)],
                            ScenarioLabels(made), {})
           \/ /\ RunnerOf(ScenarioRowMade(made), Deterministic) = "pipeline"
              /\ phase' = "left to the pipeline" /\ UNCHANGED result
        /\ UNCHANGED <<branch, request, input, checkVars, Others>>
-----------------------------------------------------------------------------
RegulationMoves ==
    /\ branch = "regulation"
    /\ RegStep
    /\ UNCHANGED <<flowVars, input, checkVars, scenarioVars>>

Ended ==
    CASE branch = "file"       -> phase \notin {"submit", "queued", "running"}
      [] branch = "scenario"   -> /\ \A c \in Clients : clients[c].at = "done"
                                  /\ phase # "submit" \/ \A c \in Clients : ~Served(c)
      [] branch = "regulation" -> AllAnswered

(* Nothing but the end stops a request. *)
Done == Ended /\ UNCHANGED vars

Next ==
    \/ Submit \/ StartPipeline \/ RunPipeline \/ EndPipeline \/ RunBuildings \/ RunPlacement
    \/ ScenarioMoves \/ \E c \in Clients : RunScenario(c)
    \/ RegulationMoves \/ Done

Spec == Init /\ [][Next]_vars
-----------------------------------------------------------------------------
(* Properties.                                                             *)

IsPlaced == phase = "finished" /\ IsPlacement(task)

IsChecked == phase = "finished" /\ ~IsPlacement(task)

(* A request that is accepted after its columns were found is routed to a     *)
(* runner that has every layer and column it cannot do without, filled with   *)
(* values; and a building check that runs on the built-in template describes  *)
(* every zone its disclaimer does not name, if the matches the user confirmed *)
(* were among those that were offered (classifier.py, detect_columns.py,       *)
(* building_zone_review.py against start_task.py and the runners).             *)
AcceptedCanRun ==
    branch = "file" /\ row # NoRow =>
        /\ HasWhatItNeeds(RunnerOf(row.made, Deterministic), row.made)
        /\ (request.mode = "building_pzz_check" /\ Review(request).approximate
              /\ \A z \in DOMAIN request.confirmed : request.confirmed[z] \in DOMAIN Template) =>
            ZoneCodesOf(request.zones) \ row.made.warned
                \subseteq DOMAIN MappingInUse(row.labels, Defaults, FALSE)

(* The parts of a placement divide every zone: none of its ground is lost and *)
(* none is shown under two classes.  What is shown as suitable keeps clear of *)
(* every production parcel by the least width of a sanitary zone when its     *)
(* service is excluded there, and of every object of its kind that a strict   *)
(* norm keeps apart (placement_pzz_runner.py run).                            *)
PlacementPartitions ==
    IsPlaced =>
        LET p == result.p
            parts == result.placed.parts
            suitable == UNION {part.cells : part \in {q \in parts : q.class \in Suitable}}
            least == Min({SzzWidth[k] : k \in DOMAIN SzzWidth})
        IN  /\ \A i \in {i \in DOMAIN p.zones : p.zones[i].code # NoKey} :
                  /\ UNION {part.cells : part \in {q \in parts : q.zone = i}} = p.zones[i].cells
                  /\ \A q, s \in parts :
                        q.zone = i /\ s.zone = i /\ q # s => q.cells \cap s.cells = {}
            /\ p.target.code \in Sensitive =>
                  \A i \in DOMAIN p.parcels :
                      ParcelKind(p.parcels[i].says, p.target) = "production" =>
                          suitable \cap Buffer(p.parcels[i].cells, least) = {}
            /\ \A k \in DOMAIN result.context.rules :
                  LET rule == result.context.rules[k] IN
                  rule.effect = "exclude_near" /\ rule.layer = "target" /\ p.objects.given =>
                      \A i \in DOMAIN p.objects.layer :
                          ParcelKind(p.objects.layer[i].says, p.target) = "target" =>
                              suitable \cap Buffer(p.objects.layer[i].cells, rule.distance) = {}

(* What a scenario with a cadastre shows as allowed lies on parcels alone,    *)
(* and every one of them permits its use (scenario_cadastre.py                *)
(* CadastreChecker.check, deterministic_scenario_runner.py run).              *)
AllowedOnBoth ==
    branch = "scenario" /\ IsChecked /\ row.made.ask.cadastre # <<>> =>
        \A i \in DOMAIN result :
            LET object == ObjectsOf(row.made)[i]
                land   == row.made.ask.cadastre
            IN  Allowed(result[i].verdict) =>
                  /\ \A cell \in object.cells : \E k \in DOMAIN land : cell \in land[k].cells
                  /\ \A k \in DOMAIN land : object.cells \cap land[k].cells # {} =>
                        Permits(ScenarioUse(object).code, land[k].codes)

(* Every layer a finished task links to is served, the links of the scenario  *)
(* endpoints included (tasks.py build_result_geo_layers, get_task_file).       *)
LinksAreServed ==
    phase = "finished" =>
        \A slot \in ResultLinks(task, IsScenario(task))
                        \cup (IF IsScenario(task) THEN ScenarioLinks(task) ELSE InputLinks(task)) :
            FileAnswer(task, slot, "finished") = 200

(* The counters of the report, its zones, its two categories and the lines     *)
(* of manual review in the chat summary add up (tasks.py                        *)
(* build_object_zone_fit_response).                                             *)
ReportAddsUp ==
    IsChecked =>
        LET report == ZoneFitReport(result, IsBuilding(task) \/ IsScenario(task))
            sum(f) == MapThenSumSet(LAMBDA k : f[k], DOMAIN f)
        IN  /\ report.summary.correct + report.summary.wrong + report.summary.unclear = Len(result)
            /\ sum([z \in DOMAIN report.zones |-> report.zones[z].unclear])
                  = report.summary.unclear
            /\ sum([v \in ReviewReasons(report) |-> report.by_verdict[v]])
                  = report.summary.unclear
            /\ \A cap \in 0..Len(result) :
                  Cardinality(GroundingRows(result, FALSE, cap))
                      = Min({cap, report.summary.wrong + report.summary.unclear})
            /\ report.by_category # <<>> =>
                  \A c \in {"building", "service"} : report.by_category[c]
                      = Cardinality(SplitLayer(result, IF c = "service" THEN "result_services"
                                                       ELSE "result_buildings"))

(* The summary of the overlaps counts what the columns of the parcels show      *)
(* (overlap_layer.py run_overlap_checks).                                       *)
OverlapsAgree ==
    \A o \in overlaps :
        LET parcelsWhere(Which(_)) == Cardinality({i \in DOMAIN o.notes : Which(o.notes[i])})
        IN  /\ o.summary.parcels_with_overlaps = parcelsWhere(LAMBDA n : n.parcels # {})
            /\ o.summary.parcels_in_multiple_zones = parcelsWhere(LAMBDA n : n.zones # {})
            /\ o.summary.parcels_in_multiple_mo = parcelsWhere(LAMBDA n : n.straddles)
            /\ o.summary.parcels_outside_mo = parcelsWhere(LAMBDA n : n.outside)

(* What a client is shown of a finished task fits together: every link leads  *)
(* to a layer, and the report, its buckets, the split layers, the review        *)
(* lines and the rows the chat is grounded on count the same features, and the  *)
(* overlaps are summed up as they are listed (tasks.py, chat_answer.py).        *)
ViewsAgree == LinksAreServed /\ ReportAddsUp /\ OverlapsAgree
=============================================================================
