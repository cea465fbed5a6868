--------------------------- MODULE MCTrafficTiles ---------------------------
EXTENDS TrafficTiles

CONSTANTS first, second, north, south

TwoSnapshots == {first, second}
TwoTiles == {north, south}

(* Two snapshots that share a tile, one of them with another tile.             *)
SharedTile == {[s \in TwoSnapshots |-> IF s = first THEN {north, south} ELSE {south}]}
=============================================================================
