------------------------- MODULE MCBottlenecksStore -------------------------
(* MissingCaptureLimit is 2 (four in the code), so that a sequence opens,     *)
(* closes and is followed by another one within the captures explored.        *)
EXTENDS BottlenecksStore

CONSTANTS v, w, one, two

OneVehicle == {v}
TwoVehicles == {v, w}
TwoScopes == {one, two}

(* Scopes of both branches, and the reloads that drop one of them. *)
BothScopes == {{one, two}}
Reloads == {{one}, {two}}

(* Nothing, or one of three GPS times in any order, a late one included; two   *)
(* rows at once, one of them late.                                             *)
MixedDeliveries == {{}, {<<v, 2>>}, {<<v, 1>>, <<v, 3>>}}

(* Two vehicles, one of them without rows at times.                            *)
PairDeliveries == {{}, {<<v, 1>>}, {<<v, 3>>, <<w, 1>>}}
=============================================================================
