------------------------- MODULE MCPassageMeasurement -------------------------
EXTENDS PassageMeasurement

Row(vehicle, scope, at, candidates) ==
    [vehicle |-> vehicle, scope |-> scope, version |-> Version, at |-> at, candidates |-> candidates]

(* A route of five with sectors of two, the last one of one: progress, whether *)
(* on a boundary, in a sector, ambiguous or missing.                           *)
Positions == {{}, {0}, {1}, {2}, {3}, {5}, {1, 4}, {0, 2}, {2, 4}, {1, 3, 5}}

(* Three rows of a vehicle, in one branch or two, whose gaps are so short that *)
(* two boundaries may be crossed at once, the longest allowed, or too long.    *)
OneVehicle ==
    {<<Row(1, "a", 1, first), Row(1, "a", second[1], second[2]), Row(1, scope, second[1] + third[1], third[2])>> :
        first \in Positions, second \in {2, 3, 4} \X Positions, third \in {1, 2, 3} \X Positions,
        scope \in {"a", "b"}}

(* Four rows, a gap apart.                                                     *)
FourRows ==
    {<<Row(1, "a", 1, c1), Row(1, "a", 2, c2), Row(1, "a", 4, c3), Row(1, scope, 6, c4)>> :
        c1 \in Positions, c2, c3 \in {{}, {1}, {2}, {1, 4}, {2, 4}, {1, 3, 5}}, c4 \in Positions, scope \in {"a", "b"}}

(* Two vehicles whose rows come mixed, repeated and in disorder, one of them    *)
(* projected on another version of the shape, and so in another scope; and two *)
(* rows that conflict.                                                         *)
Mixed ==
    {<<Row(2, "a", 2, c1), Row(1, "a", 2, c2), Row(2, "a", 1, c3), Row(1, "a", 1, c2), Row(2, "a", 2, c1),
       last>> :
        c1, c2, c3 \in Positions,
        last \in {Row(1, "a", 3, {5}), [Row(1, "redrawn", 3, {5}) EXCEPT !.version = "other"]}}
Disagreeing == {<<Row(1, "a", 1, {0}), Row(1, "a", 1, c)>> : c \in Positions}

SomeBatches == OneVehicle \cup FourRows \cup Mixed \cup Disagreeing
=============================================================================
