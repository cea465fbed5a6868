-------------------------- MODULE MCRealtimeStore --------------------------
(* One pair of vehicles on one branch and a third vehicle that is never      *)
(* mapped, whose timestamps alone make an answer a new one.                  *)
EXTENDS RealtimeStore

CONSTANTS busA, busB, busC, branch, unmapped, shape, renamed, redrawn, here, there

MCVehicles == {busA, busB, busC}
MCPairs == {<<busA, busB>>}
MCScopes == {shape, renamed, redrawn}
MCBranches == {branch, unmapped}
MCSpots == {here, there}
MCMetres == [p \in MCSpots \X MCSpots |-> IF p[1] = p[2] THEN 0 ELSE DistanceMeters + 1]

(* "renamed" is the geometry of "shape" under another identifier. *)
MCVersionOf == [s \in MCScopes |-> IF s = renamed THEN shape ELSE s]

Reloads == {[x \in {branch} |-> s] : s \in MCScopes}

at(v, t, place) == [vehicle |-> v, at |-> t, branch |-> IF v = busC THEN unmapped ELSE branch, spot |-> place]

(* Pairs that meet and advance; that part with corrected coordinates and an    *)
(* older position beside the newest one; one unit that advances alone, beside  *)
(* news of the third vehicle.                                                  *)
MCBatches ==
    {{at(busA, t, here), at(busB, t, here)} : t \in 1..2}
    \cup {{at(busA, 1, here), at(busA, 2, there), at(busB, 2, there)}}
    \cup {{at(busA, 2, here), at(busB, 1, here), at(busC, 2, here)}}
=============================================================================
