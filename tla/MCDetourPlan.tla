----------------------------- MODULE MCDetourPlan -----------------------------
EXTENDS DetourPlan

(* The pieces of a route of n stops of which these halves of segments are      *)
(* inside the search area.                                                     *)
Pieces(n, halves) ==
    LET Of(s) == LET h == {k \in {0, 1} : Whole * s + k \in halves}
                 IN  IF h = {} THEN <<>>
                     ELSE <<[segment |-> s, start |-> IF 0 \in h THEN 0 ELSE 1, end |-> IF 1 \in h THEN 2 ELSE 1]>>
    IN  FlattenSeq([s \in 1..(n - 1) |-> Of(s - 1)])

Reached(n, halves, availability) ==
    \A s \in 0..(n - 1) : availability[s] # Required => {2 * s, 2 * s - 1} \cap halves # {}

RequestsOf(n, areas, availabilities, criteria) ==
    {[stops |-> n, availability |-> a, pieces |-> Pieces(n, h), criterion |-> c, refusal |-> "none"] :
        <<a, h, c>> \in {x \in availabilities \X areas \X criteria : Reached(n, x[2], x[1])}}

Availabilities(n) == [0..(n - 1) -> {Forced, Optional, Required}]

(* Routes of three stops, whatever the cut takes; routes of four with an        *)
(* interval at each end; and a request that is refused.                         *)
ShortRoutes ==
    RequestsOf(3, {{0, 1, 2, 3}, {0, 1, 2}, {1, 2}, {2, 3}, {0, 3}}, Availabilities(3), {ShortestTime, FewestLostStops})
TwoIntervals ==
    RequestsOf(4, {{1, 4, 5}, {0, 1, 3, 4}}, Availabilities(4), {ShortestTime})
Unanswerable ==
    {[stops |-> 2, availability |-> [s \in {0, 1} |-> Required], pieces |-> Pieces(2, {1}), criterion |-> ShortestTime,
      refusal |-> e] : e \in {"invalid_cut", "route_not_affected", TileLimit}}

(* A route of four stops inside the area.                                       *)
LongRoute ==
    RequestsOf(4, {0..5}, {[s \in 0..3 |-> IF s = 1 THEN Optional ELSE Required]}, {ShortestTime})

\* A route that returns, one street away from where it went.
ReturningRoute == <<<<0, 0>>, <<3, 0>>, <<3, 1>>, <<0, 1>>>>

(* Edited variants: stops of the route left out or swapped, and up to two new    *)
(* ones, on the way out, on the way back or off the route.                       *)
NewPlaces == {<<1, 0>>, <<2, 0>>, <<2, 1>>, <<4, 2>>}
Kept == {<<0, 3>>, <<0, 1, 2, 3>>, <<1, 2>>, <<0, 2>>, <<2, 1>>, <<1>>, <<>>}
WithNew(some) ==
    {InsertAt(v, i, Added(place)) : <<v, i, place>> \in {x \in some \X (1..5) \X NewPlaces : x[2] <= Len(x[1]) + 1}}
SomeVariants ==
    LET plain == {[i \in DOMAIN k |-> Retained(k[i])] : k \in Kept}
        edited == plain \cup WithNew(plain) \cup WithNew(WithNew(plain))
    IN  {[stops |-> 4, proposed |-> v] : v \in {w \in edited : Len(w) > 1}}

SomeRequests == ShortRoutes \cup TwoIntervals \cup LongRoute \cup Unanswerable

\* Paths to the east, one slower, and one to the west.
FewPaths ==
    {[seconds |-> t, leaving |-> 90, arriving |-> 90] : t \in {1, 2}}
    \cup {[seconds |-> 1, leaving |-> 270, arriving |-> 270]}
=============================================================================
