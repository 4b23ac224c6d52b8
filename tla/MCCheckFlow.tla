----------------------------- MODULE MCCheckFlow ----------------------------
(* A small town: six cells of ground, two zones, a handful of texts, types   *)
(* and codes, and requests that meet the branches of each check.             *)
EXTENDS CheckFlow

Main(codes) == [main |-> codes, conditional |-> {}, auxiliary |-> {}]

MCNames ==
    [n \in {"4", "5", "7", "school", "house", "shop", "mart"} |->
        CASE n = "4"      -> [id |-> 4, exact |-> {}, begins |-> {}, dwelling |-> FALSE]
          [] n = "5"      -> [id |-> 5, exact |-> {}, begins |-> {}, dwelling |-> FALSE]
          [] n = "7"      -> [id |-> 7, exact |-> {}, begins |-> {}, dwelling |-> FALSE]
          [] n = "school" -> [id |-> 0, exact |-> {22}, begins |-> {22}, dwelling |-> FALSE]
          [] n = "house"  -> [id |-> 0, exact |-> {}, begins |-> {}, dwelling |-> TRUE]
          [] n = "shop"   -> [id |-> 0, exact |-> {6, 7}, begins |-> {}, dwelling |-> FALSE]
          [] n = "mart"   -> [id |-> 0, exact |-> {}, begins |-> {}, dwelling |-> FALSE]]

MCTypeVri == [t \in {4, 5, 6, 7} |-> CASE t = 4 -> Banded [] t = 5 -> NoVri [] OTHER -> 44]

MCBands == <<[upto |-> 3, code |-> 21], [upto |-> NoLimit, code |-> 26]>>

MCServiceVri == [s \in {22} |-> 351]

MCTemplate == [z \in {11, 12} |-> IF z = 11 THEN Main({21}) ELSE Main({35, 44})]

MCNumericMapping == [z \in {7, 8} |-> IF z = 7 THEN Main({21, 35}) ELSE Main({44})]

MCSzzWidth == <<3, 2, 2, 1, 1>>

MCTargets == [c \in {351, 44} |-> [code |-> c, general |-> c = 351, school |-> c = 351]]

Restricted(template, other, onSource, distance, group, doc) ==
    [template |-> template, other |-> other, on_source |-> onSource, distance |-> distance,
     group |-> group, doc |-> doc]

MCGraph ==
    [documents |-> <<[id |-> "pzz", codes |-> {11, 12}, territory |-> 1,
                      mapping |-> [z \in {11} |-> Main({351})]]>>,
     excluded |-> {"annulled"},
     restrictions |-> << Restricted("distance_from_source", "target", FALSE, 1, 1, "norm"),
                         Restricted("distance_from_source", "target", FALSE, 1, 1, "norm"),
                         Restricted("accessibility_within", "housing", FALSE, 1, 2, "norm"),
                         Restricted("distance_from_source", "housing", TRUE, 0, 3, "pzz"),
                         Restricted("unsupported", "none", FALSE, 0, 4, "annulled") >>]

(* Queries: one that is found by its meaning and one that nothing is found for *)
NoFinds == [written |-> NoVri, exact |-> {}, stem |-> NoVri, semantic |-> NoVri, model |-> NoVri]

MCQueries == {[NoFinds EXCEPT !.semantic = 351], [NoFinds EXCEPT !.exact = {44, 351}, !.model = 44],
              NoFinds}

MCMeanings == {[types |-> <<>>, services |-> <<>>],
               [types |-> [n \in {"mart"} |-> 7], services |-> [n \in {"mart"} |-> 22]]}
-----------------------------------------------------------------------------
(* The check of parcels. *)

Word(canon) ==
    [canon |-> canon, lower |-> canon, explicit |-> NoMatch, strong |-> NoMatch,
     shortlist |-> NoMatch, banned |-> {}, manual |-> FALSE, residential |-> FALSE,
     sure |-> FALSE, near |-> <<21, 32>>, named |-> {}, covered |-> {}, close |-> NoMatch,
     embed |-> NoMatch, kin |-> {}]

MCWords ==
    [t \in {"a", "A", "named", "house", ""} |->
        CASE t = "a"     -> Word("a")
          [] t = "A"     -> [Word("a") EXCEPT !.lower = "A"]
          [] t = "named" -> [Word("named") EXCEPT !.named = {21}, !.sure = TRUE,
                                                  !.shortlist = 44, !.banned = {32}]
          [] t = "house" -> [Word("house") EXCEPT !.residential = TRUE, !.strong = 32]
          [] t = ""      -> Word("")]

MCReplies == {[verdict |-> v, hint |-> "main"] : v \in {"not_allowed", "allowed", "perhaps"}}

MCRankings == {NoReply, <<32>>}

Parcel(text, cells) == [text |-> text, code |-> NoCode, family |-> "polygon", cells |-> cells]

Area(code, cells) ==
    [code |-> code, family |-> "polygon", cells |-> cells, hazard |-> NoClass]

Zoned(code, base, main) ==
    [code |-> code, base |-> base, main |-> main, conditional |-> {}, auxiliary |-> {}, bare |-> {}]

MCDefaultTemplates == <<Zoned(11, 1, {32}), Zoned(NoCode, 12, {21})>>
-----------------------------------------------------------------------------
(* Requests with files. *)

Sound(roles) ==
    [format |-> "geojson", fault |-> "none", known |-> roles, blank |-> {}, found |-> {}]

Json == [Sound({}) EXCEPT !.format = "json"]

TwoZones == <<Area(11, {1, 2, 3}), Area(12, {4, 5, 6})>>

NoLabels == [numeric |-> FALSE, map |-> <<>>, templates |-> <<>>, table |-> <<>>]

Check ==
    [mode |-> "pzz_check", auto |-> TRUE, key |-> FALSE, service |-> NoName, confirmed |-> <<>>,
     files |-> [cadastral |-> Sound({"vri"}), zones |-> Sound({"code", "name"})],
     labels |-> NoLabels, llm |-> TRUE, embeds |-> TRUE,
     parcels |-> <<Parcel("a", {1, 2}), Parcel("A", {2, 3, 4}), Parcel("named", {4, 5})>>,
     zones |-> TwoZones, mo |-> <<>>, cadastre |-> <<>>, objects |-> <<>>, existing |-> <<>>]

Classify == [Check EXCEPT !.mode = "classify_only", !.files = [cadastral |-> Sound({"vri"})]]

Thing(type, service, floors, point) ==
    [type |-> type, service |-> service, floors |-> floors, point |-> point, cells |-> {point}]

Building ==
    [Check EXCEPT !.mode = "building_pzz_check",
                  !.files = [cadastral |-> Sound({"type"}), zones |-> Sound({"code"})],
                  !.objects = <<Thing("house", NoName, 2, 1), Thing("shop", "school", NoFloors, 4),
                                Thing("mart", NoName, 5, 5), Thing("5", "mart", NoFloors, 9)>>]

Lot(says, cells) ==
    [says |-> says, point |-> CHOOSE c \in cells : TRUE, cells |-> cells, codes |-> {},
     unresolved |-> FALSE]

Place ==
    [Check EXCEPT !.mode = "placement", !.service = "school", !.llm = FALSE,
                  !.files = [zones |-> Sound({"code"}), cadastral |-> Sound({"vri"})],
                  !.cadastre = <<Lot({"production"}, {4}), Lot({"housing"}, {1}),
                                 Lot({"family"}, {6})>>]

(* A file that is not what the slot takes, in every slot there is. *)
Spoilt ==
    {[r EXCEPT !.files[slot].format = format, !.files[slot].fault = fault] :
        r \in {Check, [Check EXCEPT !.auto = FALSE], Place}, slot \in {"cadastral", "zones"},
        format \in Formats, fault \in Faults}

WithSlot(r, slot, file) == [r EXCEPT !.files = (slot :> file) @@ @]

Table == [Sound({"code"}) EXCEPT !.format = "table", !.found = {"vri"}]

Rows == <<[zone |-> 11, code |-> 21, permission |-> "main"],
          [zone |-> 13, code |-> 44, permission |-> "conditional"],
          [zone |-> NoKey, code |-> 44, permission |-> "main"]>>

ParcelRequests ==
    {[Check EXCEPT !.llm = llm, !.embeds = embeds] : llm \in BOOLEAN, embeds \in BOOLEAN}
    \cup {WithSlot([Check EXCEPT !.mo = <<Area(1, {1, 2, 3}), Area(2, {4})>>,
                                 !.parcels = <<Parcel("", {1}), Parcel("house", {3, 4, 5}),
                                               Parcel("a", {1}), Parcel("a", {1})>>],
                   "mo", Sound({})),
          WithSlot([Check EXCEPT !.labels.table = Rows, !.llm = FALSE], "labels", Table),
          WithSlot([Check EXCEPT !.labels.templates = <<Zoned(11, 1, {21}), Zoned(12, 1, {32})>>],
                   "labels", Json),
          WithSlot([Check EXCEPT !.parcels = <<Parcel("a", {4, 5}), Parcel("named", {4})>>,
                                 !.labels.templates = <<Zoned(11, 1, {21}), Zoned(120, 12, {32})>>],
                   "labels", Json)}

ClassifyRequests ==
    {[Classify EXCEPT !.auto = auto, !.key = TRUE, !.llm = llm,
                      !.parcels = <<Parcel("a", {1}), Parcel("A", {1}), Parcel("a", {2}),
                                    Parcel("named", {2})>>] :
        auto \in BOOLEAN, llm \in BOOLEAN}

Unknown == <<Area(11, {1, 2, 3}), Area(13, {4, 5, 6})>>

BuildingRequests ==
    {[Building EXCEPT !.zones = zones, !.confirmed = confirmed] :
        zones \in {TwoZones, Unknown, <<Area(7, {1, 2, 3}), Area(8, {4, 5})>>,
                   <<Area(13, {1}), Area(14, {4, 5})>>},
        confirmed \in {<<>>, [z \in {13} |-> 12], [z \in {13} |-> 99]}}
    \cup {[Building EXCEPT !.key = key, !.auto = auto, !.files["cadastral"].known = {},
                           !.files["cadastral"].blank = blank,
                           !.files["cadastral"].found = found] :
            key \in BOOLEAN, auto \in BOOLEAN, blank \in {{}, {"type"}}, found \in {{}, {"service"}}}
    \cup {WithSlot([Building EXCEPT !.labels.table = Rows, !.zones = Unknown], "labels", file) :
            file \in {Table, [Table EXCEPT !.fault = "broken"], [Table EXCEPT !.format = "other"],
                      [Table EXCEPT !.known = {}]}}
    \cup {WithSlot([Building EXCEPT !.labels.map = [z \in {12} |-> Main({351})]], "labels", Json),
          WithSlot(Building, "existing", Sound({}))}

Made(layer) == WithSlot([Place EXCEPT !.existing = layer], "existing", Sound({"type"}))

PlacementRequests ==
    {Place, [Place EXCEPT !.service = NoName],
     [Place EXCEPT !.files = [zones |-> Sound({"code"})]],
     [Place EXCEPT !.files["cadastral"].known = {}],
     [Place EXCEPT !.zones = <<[Area(11, {1, 2, 3}) EXCEPT !.hazard = 2],
                               [Area(12, {4, 5, 6}) EXCEPT !.hazard = 5]>>],
     [Place EXCEPT !.zones = <<Area(7, {1, 2, 3, 5}), Area(8, {4}), Area(NoKey, {6})>>],
     Made(<<>>), Made(<<Lot({"family"}, {2}), Lot({"family", "vocational"}, {6})>>),
     WithSlot([Place EXCEPT !.existing = <<Lot({}, {2})>>], "existing", Sound({})),
     WithSlot([Place EXCEPT !.labels.map = [z \in {12} |-> Main({351})]], "labels", Json)}

MCRequests ==
    Spoilt \cup ParcelRequests \cup ClassifyRequests \cup BuildingRequests \cup PlacementRequests
-----------------------------------------------------------------------------
(* Requests for a scenario. *)

Stood(type, service, floors, cells, says) ==
    [type |-> type, service |-> service, floors |-> floors, cells |-> cells,
     point |-> CHOOSE c \in cells : TRUE, says |-> says]

Town ==
    [sources |-> {"pzz"}, zones |-> <<Area(7, {1, 2, 3}), Area(8, {4, 5, 6})>>,
     houses |-> <<Stood("4", NoName, 2, {1, 2}, {"housing"}), Stood("4", NoName, 2, {3}, {"housing"})>>,
     others |-> <<Stood("5", NoName, NoFloors, {4}, {"production"}),
                  Stood("7", NoName, NoFloors, {3, 4}, {})>>,
     services |-> <<>>]

MCContents == <<[Town EXCEPT !.houses = <<>>], Town>>

Parcelled == << [Lot({"housing"}, {1}) EXCEPT !.codes = {21}],
                [Lot({"production"}, {2, 3}) EXCEPT !.codes = {44}],
                [Lot({"family"}, {4}) EXCEPT !.codes = {440}] >>

Wish ==
    [kind |-> "classify", source |-> "pzz", query |-> NoName, house |-> TRUE, files |-> <<>>,
     cadastre |-> <<>>, force |-> FALSE]

MCScenarioAsks ==
    {[Wish EXCEPT !.cadastre = land, !.force = force] :
        land \in {<<>>, Parcelled}, force \in BOOLEAN}
    \cup {[Wish EXCEPT !.house = FALSE, !.files = [z \in {7, 8} |-> Main({21, 44})],
                       !.cadastre = Parcelled],
          [Wish EXCEPT !.source = "other"]}
    \cup {[Wish EXCEPT !.kind = "place", !.query = query] : query \in {"school", "kindergarten"}}
-----------------------------------------------------------------------------
(* Direct checks. *)

Limit(value, only) ==
    [kind |-> "floors", value |-> value, only |-> only, except |-> {}, building |-> "any"]

Regulated(code, base, codes, limits) ==
    [code |-> code, base |-> base, sections |-> Main(codes), limits |-> limits]

(* The second reading differs from the first in a limit alone. *)
MCEditions ==
    << <<Regulated(101, 10, {21}, {Limit(3, {}), Limit(5, {21})}),
         Regulated(102, 10, {44}, {})>>,
       <<Regulated(101, 10, {21}, {Limit(3, {})}), Regulated(102, 10, {44}, {})>>,
       <<Regulated(101, 10, {21}, {}), Regulated(103, 10, {}, {})>> >>

MCParentType == [t \in {1, 2} |-> 1]

MCByPrefix == [t \in {1, 2} |-> {10}]

MCModelAnswers == {<<>>, [b \in {10} |-> {1}]}

MCRegulationAsks ==
    {[zone |-> zone, type |-> 1, code |-> 21, measured |-> [k \in {"floors"} |-> 4],
      residential |-> TRUE] : zone \in {NoKey, 101, 102}}
=============================================================================
