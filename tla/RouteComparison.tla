--------------------------- MODULE RouteComparison ---------------------------
(***************************************************************************)
(* CompareDetour of internal/simulation: a variant of a route beside the   *)
(* route.  Both sides are estimated at once, the first to fail cancels the *)
(* other, and the passengers of the variant are then charged by where its  *)
(* stops lie along the original route.                                     *)
(*                                                                         *)
(* A stop of a variant has its order in the original route, or NewStop and *)
(* a place.  Places lie on a grid and the street between two stops of the  *)
(* route is straight along an axis, so that its measure is its length and  *)
(* the nearest point of it is one of the grid.  What an estimate finds is  *)
(* left out, for it moves no control: it succeeds or it fails.             *)
(***************************************************************************)
EXTENDS Integers, Sequences, FiniteSets

CONSTANT Places    \* of the stops of the original route, from its first one on

Straight(a, b) == (a[1] = b[1]) # (a[2] = b[2])

ASSUME PlacesAssumption ==
    /\ Places \in Seq(Int \X Int)
    /\ \A i \in 1..(Len(Places) - 1) : Straight(Places[i], Places[i + 1])

VARIABLE comparison

NewStop == -1
Place(order) == Places[order + 1]
Retained(order) == [order |-> order, place |-> Place(order)]
Added(place) == [order |-> NewStop, place |-> place]

IsRetained(stop) == stop.order # NewStop

-----------------------------------------------------------------------------
(* Where the stops of a variant lie along the original route. *)

Size(n) == IF n < 0 THEN -n ELSE n
Along(a, b) == Size(a[1] - b[1]) + Size(a[2] - b[2])
Squared(a, b) == (a[1] - b[1]) * (a[1] - b[1]) + (a[2] - b[2]) * (a[2] - b[2])

\* The distance from the first stop, measured segment by segment.
cumulative(order) ==
    LET upTo[k \in 0..order] == IF k = 0 THEN 0 ELSE upTo[k - 1] + Along(Place(k - 1), Place(k))
    IN  upTo[order]

\* The variant keeps the order of the stops that it keeps.
validateDetourStops(proposed) ==
    \A i, j \in DOMAIN proposed :
        i < j /\ IsRetained(proposed[i]) /\ IsRetained(proposed[j]) => proposed[i].order < proposed[j].order

Clamp(n, a, b) == LET low == IF a < b THEN a ELSE b
                      high == IF a < b THEN b ELSE a
                  IN  IF n < low THEN low ELSE IF n > high THEN high ELSE n

\* The nearest place of a street, on which the target falls.
closestFraction(from, to, target) == <<Clamp(target[1], from[1], to[1]), Clamp(target[2], from[2], to[2])>>

\* The nearest of the streets from stop lower to stop upper, the first of several.
projectOntoBaseline(lower, upper, target) ==
    LET Nearest(k) == closestFraction(Place(k), Place(k + 1), target)
        Off(k) == Squared(Nearest(k), target)
        best == CHOOSE k \in lower..(upper - 1) :
                    \A m \in lower..(upper - 1) : Off(k) < Off(m) \/ (Off(k) = Off(m) /\ k <= m)
    IN  IF lower >= upper THEN cumulative(lower) ELSE cumulative(best) + Along(Place(best), Nearest(best))

RetainedBefore(proposed, i) == {j \in 1..(i - 1) : IsRetained(proposed[j])}
RetainedAfter(proposed, i) == {j \in (i + 1)..Len(proposed) : IsRetained(proposed[j])}

\* Mutant: new stops are projected onto the whole of the original route.
surroundingsWhole(n, proposed, i) == <<0, n - 1>>

\* The retained stops around stop i of the variant, or the ends of the route.
surroundings(n, proposed, i) ==
    LET before == RetainedBefore(proposed, i)
        after == RetainedAfter(proposed, i)
    IN  <<IF before = {} THEN 0 ELSE proposed[CHOOSE j \in before : \A k \in before : k <= j].order,
          IF after = {} THEN n - 1 ELSE proposed[CHOOSE j \in after : \A k \in after : j <= k].order>>

\* Positions never decrease from a new stop's predecessor to it.
detourFarePositions(n, proposed) ==
    LET position[i \in DOMAIN proposed] ==
            LET around == surroundings(n, proposed, i)
                projected == projectOntoBaseline(around[1], around[2], proposed[i].place)
            IN  IF IsRetained(proposed[i]) THEN cumulative(proposed[i].order)
                ELSE IF i > 1 /\ projected < position[i - 1] THEN position[i - 1] ELSE projected
    IN  position

\* Two retained stops are as far as the segments between them say; any others, as
\* their positions.
detourFareTravelTime(n, proposed) ==
    LET position == detourFarePositions(n, proposed)
    IN  [i \in 1..(Len(proposed) - 1) |->
            IF IsRetained(proposed[i]) /\ IsRetained(proposed[i + 1])
            THEN cumulative(proposed[i + 1].order) - cumulative(proposed[i].order)
            ELSE position[i + 1] - position[i]]

\* What the revenue charges from stop i to stop j of the variant.
pairDistance(fares, i, j) ==
    LET upTo[k \in i..j] == IF k = i THEN 0 ELSE upTo[k - 1] + fares[k - 1]
    IN  upTo[j]

-----------------------------------------------------------------------------
(* The comparison itself.  Each side asks for its demand, and then for its  *)
(* travel times.                                                            *)

Sides == {"baseline", "proposed"}

NoComparison ==
    [state |-> "none", stops |-> 0, proposed |-> <<>>, sides |-> [s \in Sides |-> "demand"],
     failure |-> "none", fares |-> <<>>]

Over == {"done", "stopped"}

StartComparison(n, proposed) ==
    comparison' = IF validateDetourStops(proposed)
                  THEN [NoComparison EXCEPT !.state = "estimating", !.stops = n, !.proposed = proposed]
                  ELSE [NoComparison EXCEPT !.state = "ended", !.failure = "validation"]

\* The group keeps its first error.
Cause(failure, error) == IF failure = "none" THEN error ELSE failure

\* A side goes on or fails; it is cancelled with the request, or when the other
\* one has failed.
Estimate(side, over) ==
    /\ comparison.state = "estimating"
    /\ comparison.sides[side] \notin Over
    /\ \/ comparison' = [comparison EXCEPT !.sides[side] = IF @ = "demand" THEN "travel_time" ELSE "done"]
       \/ comparison' = [comparison EXCEPT !.sides[side] = "stopped",
                                           !.failure = Cause(@, IF over \/ @ # "none" THEN "context" ELSE "internal")]

\* The group waits for both sides, whether they succeed or not.
Estimated ==
    /\ comparison.state = "estimating"
    /\ \A side \in Sides : comparison.sides[side] \in Over
    /\ comparison' = [comparison EXCEPT !.state = IF comparison.failure = "none" THEN "charging" ELSE "ended"]

\* The revenue of both sides, each with the tariffs it reads.
Charge(over) ==
    /\ comparison.state = "charging"
    /\ \/ comparison' = [comparison EXCEPT !.state = "ended", !.failure = IF over THEN "context" ELSE "internal"]
       \/ comparison' = [comparison EXCEPT !.state = "ended",
                        !.fares = detourFareTravelTime(comparison.stops, comparison.proposed)]

CompareStep(over) == (\E side \in Sides : Estimate(side, over)) \/ Estimated \/ Charge(over)

\* How far a comparison has gone.
Progress(c) ==
    LET Of(side) == CASE c.sides[side] = "demand" -> 0 [] c.sides[side] = "travel_time" -> 1 [] OTHER -> 2
    IN  Of("baseline") + Of("proposed")
        + CASE c.state = "none" -> 0 [] c.state = "estimating" -> 1 [] c.state = "charging" -> 2 [] OTHER -> 3

-----------------------------------------------------------------------------
\* "Passengers pay as if the bus had taken the original route": no pair of stops
\* is charged a negative distance, or more than the route; and two retained stops
\* pay the original distance, whatever new ones lie between them, even where these
\* are nearer to another leg of the route.
FaresFollowOriginal ==
    comparison.fares # <<>> =>
        LET proposed == comparison.proposed
            retained == {i \in DOMAIN proposed : IsRetained(proposed[i])}
            Charged(i, j) == pairDistance(comparison.fares, i, j)
            Original(i, j) == cumulative(proposed[j].order) - cumulative(proposed[i].order)
        IN  \A i, j \in DOMAIN proposed :
                i < j =>
                    /\ Charged(i, j) >= 0
                    /\ i \in retained /\ j \in retained => Charged(i, j) = Original(i, j)
                    /\ Charged(i, j) <= cumulative(comparison.stops - 1)
=============================================================================
