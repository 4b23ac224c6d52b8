------------------------------ MODULE Overlaps ------------------------------
(***************************************************************************)
(* Where parcels lie: the zone the check of a parcel is made against       *)
(* (pipeline_modules/business/spatial_layer.py) and the overlaps of the    *)
(* input layers that are reported beside it (overlap_layer.py).            *)
(*                                                                         *)
(* The ground is a set of cells of one unit of area; a layer is a sequence *)
(* of objects, each with the code (for municipalities: the label) of what  *)
(* it belongs to, its geometry family and its cells.  Reprojection, repair *)
(* of geometries and the wording of notes are left out.                    *)
(***************************************************************************)
EXTENDS Integers, Sequences, FiniteSetsExt

CONSTANTS MinArea,    \* the least area that counts, exclusive, in cells
          MinShare    \* the least share that counts, exclusive, in thousandths

ASSUME MinArea \in Nat /\ MinShare \in 0..1000

NoCode == 0

(* A code is a number: zones of equal size are taken in the order of codes.*)
Object(Codes, Ground) ==
    [code : Codes \cup {NoCode}, family : {"polygon", "line"}, cells : SUBSET Ground]

(* The codes of the objects of a layer that keep a polygon once repaired.  *)
Polygons(layer) == {i \in DOMAIN layer : layer[i].family = "polygon" /\ layer[i].cells # {}}

CodesOf(layer) == {layer[i].code : i \in Polygons(layer)} \ {NoCode}

(* _is_significant, _meaningful_intersection_mask *)
Significant(cells, base) ==
    LET area == Cardinality(cells)
    IN  area > MinArea /\ area * 1000 > Cardinality(base) * MinShare
-----------------------------------------------------------------------------
(* The actual zone.  The pieces of a parcel in the objects of one zone are *)
(* united before they are measured.                                        *)

PieceIn(object, layer, code) ==
    object.cells \cap UNION {layer[i].cells : i \in {i \in Polygons(layer) : layer[i].code = code}}

Crossed(object, layer) ==
    {code \in CodesOf(layer) : Significant(PieceIn(object, layer, code), object.cells)}

(* _summarize_dominant_zones *)
ActualZone(object, layer) ==
    LET size(code) == Cardinality(PieceIn(object, layer, code))
    IN  IF Crossed(object, layer) = {} THEN NoCode
        ELSE Min({code \in Crossed(object, layer) :
                    \A other \in Crossed(object, layer) : size(code) >= size(other)})
-----------------------------------------------------------------------------
(* The overlap report.                                                     *)

(* find_layer_overlaps *)
LayerOverlaps(layer) ==
    {pair \in Polygons(layer) \X Polygons(layer) :
        LET left == layer[pair[1]].cells
            right == layer[pair[2]].cells
        IN  /\ pair[1] < pair[2]
            /\ Significant(left \cap right,
                           IF Cardinality(left) <= Cardinality(right) THEN left ELSE right)}

(* The area of the pieces of an object under one code, measured object by   *)
(* object of the layer and added up.                                        *)
AddedArea(object, layer, code) ==
    MapThenSumSet(LAMBDA i : Cardinality(object.cells \cap layer[i].cells),
                  {i \in Polygons(layer) : layer[i].code = code})

(* _parcel_zone_shares: the codes an object has a share in, of polygons only*)
Shares(object, layer) ==
    {code \in CodesOf(layer) :
        LET area == AddedArea(object, layer, code)
        IN  /\ object.family = "polygon"
            /\ area > MinArea
            /\ area * 1000 > Cardinality(object.cells) * MinShare}

(* The share that is listed first.  Equal ones keep the order in which the  *)
(* spatial index returned the pieces.                                       *)
MainShares(object, layer) ==
    {code \in Shares(object, layer) :
        \A other \in Shares(object, layer) :
            AddedArea(object, layer, code) >= AddedArea(object, layer, other)}

(* _mo_placements *)
Outside(object, layer) ==
    /\ object.family = "polygon" /\ Polygons(layer) # {}
    /\ Significant(object.cells \ UNION {layer[i].cells : i \in Polygons(layer)}, object.cells)

Straddles(object, mo) == Cardinality(Shares(object, mo)) > 1

(* The columns of a parcel: the parcels it overlaps, the zones it lies in   *)
(* when there are several, whose share may be given as that of its zone, and*)
(* its place among the municipalities.                                      *)
Notes(parcels, i, zones, mo) ==
    [parcels |-> {j \in DOMAIN parcels :
                     <<i, j>> \in LayerOverlaps(parcels) \/ <<j, i>> \in LayerOverlaps(parcels)},
     zones |-> IF Cardinality(Shares(parcels[i], zones)) > 1 THEN Shares(parcels[i], zones) ELSE {},
     main |-> MainShares(parcels[i], zones),
     straddles |-> Straddles(parcels[i], mo),
     outside |-> Outside(parcels[i], mo)]

(* The summary of run_overlap_checks.  An empty layer of municipalities     *)
(* stands for none.                                                         *)
Summary(parcels, zones, mo) ==
    [parcel_overlaps |-> Cardinality(LayerOverlaps(parcels)),
     parcels_with_overlaps |->
        Cardinality(UNION {{pair[1], pair[2]} : pair \in LayerOverlaps(parcels)}),
     parcels_in_multiple_zones |->
        Cardinality({i \in DOMAIN parcels : Cardinality(Shares(parcels[i], zones)) > 1}),
     zone_overlaps |-> Cardinality(LayerOverlaps(zones)),
     parcels_in_multiple_mo |-> Cardinality({i \in DOMAIN parcels : Straddles(parcels[i], mo)}),
     parcels_outside_mo |-> Cardinality({i \in DOMAIN parcels : Outside(parcels[i], mo)})]
=============================================================================
