----------------------------- MODULE ObjectFit ------------------------------
(***************************************************************************)
(* The check of buildings and services against the zones they stand in,    *)
(* without the LLM pipeline: uploaded buildings                            *)
(* (runners/uploaded_building_pzz_runner.py) and the objects of an         *)
(* Urban API scenario (runners/deterministic_scenario_runner.py), with the *)
(* dictionary lookups they share (runners/_deterministic_pzz.py) and the   *)
(* check against a cadastre (scenario_cadastre.py).                        *)
(*                                                                         *)
(* A code of the classifier is a number whose digits are its dotted parts. *)
(* A name of a type is known by what the alias dictionary says of it.      *)
(***************************************************************************)
EXTENDS Integers, Sequences, FiniteSets

CONSTANTS
    Names,         \* names and ids: text -> [id, exact, begins, dwelling]
    TypeVri,       \* physical_object_type_id -> code, NoVri, or Banded
    Bands,         \* residential_floor_bands: <<[upto, code], ...>>
    BandFallback,  \* fallback_vri_code
    ServiceVri,    \* service_type_id -> code
    FunctionalZones \* the codes that parse as a functional_zone_type_id

NoVri == 0
Banded == 1
NoId == 0
NoName == ""
NoFloors == -1
NoLimit == -1
NoKey == 0
Dwelling == 4           \* the type of residential buildings
NonResidential == 5     \* the type of buildings whose use is that of its services

(* Type ids and service ids are apart, as their dictionaries are. *)
ASSUME NamesAssumption ==
    /\ \A n \in DOMAIN Names : DOMAIN Names[n] = {"id", "exact", "begins", "dwelling"}
    /\ NoName \notin DOMAIN Names
    /\ Dwelling \in DOMAIN TypeVri => TypeVri[Dwelling] = Banded
-----------------------------------------------------------------------------
(* Zones: sequences of [code, cells], with the codes as they are written;  *)
(* mappings: zone key -> the codes permitted in each section.              *)

Sectioned == <<"main", "conditional", "auxiliary">>

Only(ids) == IF Cardinality(ids) = 1 THEN CHOOSE id \in ids : TRUE ELSE NoId

(* A code stands for itself and for every code one of them is a prefix of. *)
Related(a, b) == a = b \/ a \div 10 = b \/ a \div 100 = b \/ b \div 10 = a \/ b \div 100 = a

(* is_allowed *)
IsAllowed(code, allowed) == \E a \in allowed \ {NoVri} : Related(a, code)

(* zone_codes_are_numeric *)
Numeric(zones) ==
    LET codes == {zones[i].code : i \in DOMAIN zones} \ {NoKey}
    IN  codes # {} /\ codes \subseteq FunctionalZones

(* load_zone_mapping_for_request: a file that cannot be read, that is of   *)
(* the other schema or that maps no zone counts as none.                   *)
MappingInUse(uploaded, default, numeric) ==
    IF uploaded.numeric = numeric /\ DOMAIN uploaded.map # {} THEN uploaded.map
    ELSE default[numeric]

(* The scenario runner: its zones are numbered, and a mapping of functional   *)
(* zones that was uploaded counts even if it maps none.                       *)
ScenarioMapping(uploaded, default) ==
    IF uploaded.numeric THEN uploaded.map ELSE default[TRUE]

(* build_zone_gdf and join_objects_to_zones: the first zone in the order of *)
(* the layer that has the representative point of the object.               *)
Containing(object, zones) ==
    {i \in DOMAIN zones : zones[i].code # NoKey /\ object.point \in zones[i].cells}

ZoneOf(object, zones) ==
    LET found == Containing(object, zones)
    IN  IF found = {} THEN NoKey
        ELSE zones[CHOOSE i \in found : \A j \in found : i <= j].code

(* verdict *)
FitVerdict(code, zone, mapping) ==
    LET sections == IF zone \in DOMAIN mapping THEN mapping[zone]
                    ELSE [s \in {"main", "conditional", "auxiliary"} |-> {}]
        hits == SelectSeq(Sectioned, LAMBDA s : IsAllowed(code, sections[s]))
    IN  CASE zone = NoKey -> "no_actual_zone"
          [] zone # NoKey /\ code = NoVri -> "unclear"
          [] zone # NoKey /\ code # NoVri /\ \A s \in DOMAIN sections : sections[s] = {} ->
                "no_zone_metadata"
          [] OTHER -> IF hits = <<>> THEN "not_allowed"
                      ELSE CASE Head(hits) = "main" -> "allowed_main"
                             [] Head(hits) = "conditional" -> "allowed_conditional"
                             [] OTHER -> "allowed_auxiliary"
-----------------------------------------------------------------------------
(* The use of an object.                                                   *)

(* resolve_po_type_vri *)
TypeCode(type, floors) ==
    LET fitting == SelectSeq(Bands, LAMBDA b : b.upto = NoLimit \/ floors <= b.upto)
    IN  IF type \notin DOMAIN TypeVri THEN NoVri
        ELSE IF TypeVri[type] # Banded THEN TypeVri[type]
        ELSE IF floors = NoFloors \/ fitting = <<>> THEN BandFallback
        ELSE Head(fitting).code

ServiceCode(service) == IF service \in DOMAIN ServiceVri THEN ServiceVri[service] ELSE NoVri

(* An id, an alias of one entry, or a name that begins with the aliases of  *)
(* one entry (_as_int, _lookup_alias).                                      *)
LookedUp(name) ==
    IF name = NoName THEN NoId
    ELSE IF Names[name].id # NoId THEN Names[name].id
    ELSE IF Only(Names[name].exact) # NoId THEN Only(Names[name].exact)
    ELSE Only(Names[name].begins)

(* The names that are given to the embedder and then to the model; what     *)
(* they mean is NoId where neither of them can tell (_resolve_unknown_names)*)
UnknownTypes(objects) ==
    {objects[i].type : i \in {i \in DOMAIN objects :
        /\ objects[i].type # NoName /\ LookedUp(objects[i].type) = NoId
        /\ ~Names[objects[i].type].dwelling}}

UnknownServices(objects) ==
    {objects[i].service : i \in {i \in DOMAIN objects :
        objects[i].service # NoName /\ LookedUp(objects[i].service) = NoId}}

Recovered(name, meant) ==
    IF LookedUp(name) # NoId THEN LookedUp(name)
    ELSE IF name \in DOMAIN meant THEN meant[name] ELSE NoId

IsDwelling(object, type) ==
    type = Dwelling \/ (type = NoId /\ object.type # NoName /\ Names[object.type].dwelling)

(* _extract, _resolve_vri: by the floors of a dwelling, by the service, by  *)
(* the type.  meant holds what the unknown names were recovered as.         *)
BuildingUse(object, meant) ==
    LET type    == Recovered(object.type, meant.types)
        service == ServiceCode(Recovered(object.service, meant.services))
    IN  IF IsDwelling(object, type) /\ TypeCode(Dwelling, object.floors) # NoVri
        THEN [code |-> TypeCode(Dwelling, object.floors), basis |-> "type"]
        ELSE IF service # NoVri THEN [code |-> service, basis |-> "service"]
        ELSE [code |-> TypeCode(type, object.floors), basis |-> "type"]

(* A service is a row that names one and is no dwelling. *)
BuildingCategory(object, meant) ==
    IF object.service # NoName /\ ~IsDwelling(object, Recovered(object.type, meant.types))
    THEN "service" ELSE "building"

(* _resolve of the scenario: its objects carry ids. *)
ScenarioUse(object) ==
    IF object.service # NoName
    THEN [code |-> ServiceCode(Names[object.service].id), basis |-> "service"]
    ELSE [code |-> IF object.type = NoName THEN NoVri
                   ELSE TypeCode(Names[object.type].id, object.floors),
          basis |-> "type"]
-----------------------------------------------------------------------------
(* The cadastre of a scenario: [codes, unresolved, cells].                 *)

(* _permits: a parcel's code permits what is below it; N.0 stands for N.   *)
Permits(code, codes) ==
    \E c \in codes :
        LET parent == IF c % 10 = 0 THEN c \div 10 ELSE c
        IN  code \in {c, parent} \/ parent \in {code \div 10, code \div 100}

ParcelCheckOf(code, parcel) ==
    IF code # NoVri /\ Permits(code, parcel.codes) THEN "yes"
    ELSE IF \/ code = NoVri \/ parcel.unresolved
            \/ \E c \in parcel.codes : code \in {c \div 10, c \div 100} THEN "unknown"
    ELSE "no"

Under(object, cadastre) == {i \in DOMAIN cadastre : object.cells \cap cadastre[i].cells # {}}

MutAnyParcel(object, code, cadastre) ==
    LET checks == {ParcelCheckOf(code, cadastre[i]) : i \in Under(object, cadastre)}
    IN  IF checks = {} THEN "unknown"
        ELSE IF "yes" \in checks THEN "yes" ELSE IF "no" \in checks THEN "no" ELSE "unknown"

(* CadastreChecker.check *)
LandFit(object, code, cadastre) ==
    LET checks  == {ParcelCheckOf(code, cadastre[i]) : i \in Under(object, cadastre)}
        partial == ~(object.cells \subseteq
                        UNION {cadastre[i].cells : i \in Under(object, cadastre)})
    IN  IF checks = {} THEN "unknown"
        ELSE IF "no" \in checks THEN "no"
        ELSE IF partial \/ "unknown" \in checks THEN "unknown" ELSE "yes"
-----------------------------------------------------------------------------
(* The features of a result.                                               *)

Shown(verdict, zone, category, basis) ==
    [verdict |-> verdict, zone |-> zone, category |-> category, basis |-> basis]

Allowed(verdict) == verdict \in {"allowed_main", "allowed_conditional", "allowed_auxiliary"}

(* UploadedBuildingPzzRunner.run *)
BuildingRow(object, zones, mapping, meant) ==
    LET use  == BuildingUse(object, meant)
        zone == ZoneOf(object, zones)
    IN  Shown(FitVerdict(use.code, zone, mapping), zone, BuildingCategory(object, meant), use.basis)

MutZoneWins(fit, land) == fit

(* The cadastre refuses, and what it cannot say is not allowed either. *)
WithLand(fit, land) ==
    IF land = "no" THEN "not_allowed"
    ELSE IF land = "unknown" /\ Allowed(fit) THEN "unclear" ELSE fit

(* DeterministicScenarioRunner.run; an empty cadastre stands for none *)
ScenarioRow(object, zones, mapping, cadastre) ==
    LET use  == ScenarioUse(object)
        zone == ZoneOf(object, zones)
        fit  == FitVerdict(use.code, zone, mapping)
        open == /\ fit = "unclear" /\ object.service = NoName /\ object.type # NoName
                /\ Names[object.type].id = NonResidential
        told == IF open THEN "vri_undetermined" ELSE fit
    IN  Shown(IF cadastre = <<>> THEN told ELSE WithLand(told, LandFit(object, use.code, cadastre)),
              zone, IF object.service # NoName THEN "service" ELSE "building", use.basis)
=============================================================================
