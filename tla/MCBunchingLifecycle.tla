------------------------ MODULE MCBunchingLifecycle ------------------------
(* One pair of vehicles.  MaximumAge is 2 and the skew 1 (five minutes      *)
(* against one in the code), with one tolerated absence, the configured one.*)
EXTENDS BunchingLifecycle

CONSTANTS busA, busB, route, other, routeReloaded

MCVehicles == {busA, busB}
MCPairs == {<<busA, busB>>}

(* A vehicle may serve another branch, and a reload may change the shape of *)
(* the first one, back and forth.                                           *)
ManyScopes == {route, other, routeReloaded}
ManyCatalogues == {{route, other}, {routeReloaded}}

MCVersionOf == [s \in Scopes |-> s]
=============================================================================
