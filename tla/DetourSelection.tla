--------------------------- MODULE DetourSelection ---------------------------
(***************************************************************************)
(* How the detour planner chooses the stops and the paths of a variant and *)
(* sews them into the route: mergeInsidePieces, buildIntervalPlans, Select *)
(* and reconstructRoute, over locations counted in halves of a segment.    *)
(*                                                                         *)
(* The geometry of a path is abstracted to its two ends and to the         *)
(* bearings it leaves and arrives with.  A routing point is identified by  *)
(* its interval and its node, and there is one path at most between two,   *)
(* so that the edges of a path never break a tie.                          *)
(***************************************************************************)
EXTENDS Integers, Sequences, FiniteSets, SequencesExt

Forced == "forced_unavailable"
Optional == "optional"
Required == "required"

ShortestTime == "MENOR_TIEMPO"
FewestLostStops == "MENOR_PARADAS_PERDIDAS"

NoDetour == "no_detour_within_search_area"
CoverageInsufficient == "traffic_coverage_insufficient"
Internal == "internal"

Whole == 2                \* halves of a segment
Unknown == -1             \* the bearing of a path that has none
Reversal == 150           \* degrees

\* Those of the numbers from 0 to n, in order: SelectSeq, as a recursive function.
InOrder(n, some) ==
    LET upTo[k \in 0..n] ==
            LET before == IF k = 0 THEN <<>> ELSE upTo[k - 1]
            IN  IF k \in some THEN Append(before, k) ELSE before
    IN  upTo[n]

Scalar(segment, fraction) == Whole * segment + fraction
StopScalar(stop) == Whole * stop

-----------------------------------------------------------------------------
(* The intervals of a route, and the nodes and pairs of each. *)

contiguousPieces(left, right) ==
    \/ left.segment = right.segment /\ left.end = right.start
    \/ right.segment = left.segment + 1 /\ left.end = Whole /\ right.start = 0

\* A piece goes on with the interval before it, or begins another.
mergeInsidePieces(pieces) ==
    LET merged[k \in 0..Len(pieces)] ==
            LET before == merged[k - 1]
                entry == Scalar(pieces[k].segment, pieces[k].start)
                exit == Scalar(pieces[k].segment, pieces[k].end)
            IN  IF k = 0 THEN <<>>
                ELSE IF k > 1 /\ contiguousPieces(pieces[k - 1], pieces[k])
                THEN [before EXCEPT ![Len(before)].exit = exit]
                ELSE Append(before, [entry |-> entry, exit |-> exit])
    IN  merged[Len(pieces)]

Stops(request) == 0..(request.stops - 1)
LastScalar(request) == StopScalar(request.stops - 1)

\* A stop where the interval begins or ends has an anchor in its place, unless
\* the route begins or ends there too.
AtAnchor(request, interval, stop) ==
    \/ StopScalar(stop) = interval.entry /\ interval.entry > 0
    \/ StopScalar(stop) = interval.exit /\ interval.exit < LastScalar(request)

Within(interval, stop) == interval.entry <= StopScalar(stop) /\ StopScalar(stop) <= interval.exit

\* Mutant: a forced stop in the place of an anchor is kept.
boundaryKept(request, interval) == {}

boundaryOmitted(request, interval) ==
    {s \in Stops(request) :
        Within(interval, s) /\ AtAnchor(request, interval, s) /\ request.availability[s] = Forced}

Anchor(scalar) == [at |-> scalar, availability |-> Required, isAnchor |-> TRUE]
StopNode(request, stop) ==
    [at |-> StopScalar(stop), availability |-> request.availability[stop], isAnchor |-> FALSE]

\* The nodes of an intervalPlan, in the order of the route.
IntervalNodes(request, interval) ==
    LET inside == InOrder(request.stops - 1,
                          {s \in Stops(request) : Within(interval, s) /\ ~AtAnchor(request, interval, s)})
    IN  (IF interval.entry > 0 THEN <<Anchor(interval.entry)>> ELSE <<>>)
        \o [i \in DOMAIN inside |-> StopNode(request, inside[i])]
        \o (IF interval.exit < LastScalar(request) THEN <<Anchor(interval.exit)>> ELSE <<>>)

HasPoint(node) == node.availability # Forced

containsRequired(nodes, first, last) == \E i \in first..last : nodes[i].availability = Required

intervalPairs(nodes) ==
    {pair \in (1..Len(nodes)) \X (1..Len(nodes)) :
        /\ pair[1] < pair[2]
        /\ HasPoint(nodes[pair[1]]) /\ HasPoint(nodes[pair[2]])
        /\ ~containsRequired(nodes, pair[1] + 1, pair[2] - 1)}

-----------------------------------------------------------------------------
(* Select.  A state is the nodes kept so far and the seconds between them. *)

angularDifference(a, b) ==
    LET difference == (IF a > b THEN a - b ELSE b - a) % 360
    IN  IF difference > 180 THEN 360 - difference ELSE difference

\* Whether two paths turn back at the node they share.
Turns(arriving, leaving) ==
    arriving # Unknown /\ leaving # Unknown /\ angularDifference(arriving, leaving) >= Reversal

reversesAtJunction(kept, end, paths) ==
    /\ Len(kept) > 1
    /\ Turns(paths[<<kept[Len(kept) - 1], Last(kept)>>].arriving, paths[<<Last(kept), end>>].leaving)

\* The order of compareInts, over sequences of integers.
compareInts(left, right) ==
    \/ IsStrictPrefix(left, right)
    \/ \E i \in DOMAIN left \cap DOMAIN right :
        left[i] < right[i] /\ \A j \in 1..(i - 1) : left[j] = right[j]

statePrecedes(candidate, current, criterion) ==
    LET Rank(state) == IF criterion = ShortestTime
                       THEN <<state.seconds, -Len(state.kept)>>
                       ELSE <<-Len(state.kept), state.seconds>>
    IN  compareInts(Rank(candidate) \o candidate.kept, Rank(current) \o current.kept)

\* The best of a set of states: of none, there is none.
Best(states, criterion) == {s \in states : \A other \in states \ {s} : statePrecedes(s, other, criterion)}

Alone(nodes, end) ==
    IF containsRequired(nodes, 1, end - 1) THEN {} ELSE {[kept |-> <<end>>, seconds |-> 0]}

\* What a path from each of these starts makes of the states that end there.
Extended(paths, states, starts, end) ==
    UNION {{[kept |-> Append(s.kept, end), seconds |-> s.seconds + paths[<<start, end>>].seconds] :
                s \in {t \in states[start] : ~reversesAtJunction(t.kept, end, paths)}} :
            start \in {i \in starts : <<i, end>> \in DOMAIN paths}}

\* Mutant: one state per node, be it a lone stop or more.
bestAtAlone(nodes, paths, criterion, states, end) ==
    IF HasPoint(nodes[end])
    THEN Best(Alone(nodes, end) \cup Extended(paths, states, 1..(end - 1), end), criterion)
    ELSE {}

\* The best states that end at a node, given those of the nodes before it: with
\* that node alone, and with more.
bestAt(nodes, paths, criterion, states, end) ==
    LET starts == {i \in 1..(end - 1) : ~containsRequired(nodes, i + 1, end - 1)}
    IN  IF HasPoint(nodes[end])
        THEN Alone(nodes, end) \cup Best(Extended(paths, states, starts, end), criterion)
        ELSE {}

bestByEnd(nodes, paths, criterion) ==
    LET upTo[end \in 0..Len(nodes)] ==
            LET states == upTo[end - 1]
            IN  IF end = 0 THEN <<>> ELSE Append(states, bestAt(nodes, paths, criterion, states, end))
    IN  upTo[Len(nodes)]

\* The selection, none when no path keeps two nodes and all that are required.
Select(nodes, paths, criterion) ==
    LET states == bestByEnd(nodes, paths, criterion)
    IN  Best({s \in UNION {states[end] : end \in {i \in DOMAIN nodes : ~containsRequired(nodes, i + 1, Len(nodes))}} :
                Len(s.kept) > 1},
             criterion)

\* The same selection over pairs that are known to be joined, without paths.
topologyCanResolve(nodes, pairs, criterion) ==
    Select(nodes, [pair \in pairs |-> [seconds |-> 0, leaving |-> Unknown, arriving |-> Unknown]], criterion) # {}

-----------------------------------------------------------------------------
(* The variant: its stops, and the path between each two of them as a      *)
(* sequence of pieces of the original route and of the detours.            *)

Piece(kind, from, to) == [kind |-> kind, from |-> from, to |-> to]
originalSlice(from, to) == IF from = to THEN <<>> ELSE <<Piece("original", from, to)>>

Refused(error) == [error |-> error, stops |-> <<>>, paths |-> <<>>]

\* From a kept stop to the next: the original up to each replacement between
\* them, then the replacement, and the original that is left.
reconstructPath(replacements, start, end) ==
    LET walk[k \in 0..Len(replacements)] ==
            LET before == walk[k - 1]
                next == replacements[k]
            IN  IF k = 0 THEN [cursor |-> start, pieces |-> <<>>, crosses |-> FALSE]
                ELSE IF next.to <= start \/ next.from >= end THEN before
                ELSE [cursor |-> next.to,
                      pieces |-> before.pieces \o originalSlice(before.cursor, next.from) \o <<next>>,
                      crosses |-> before.crosses \/ next.from < before.cursor \/ next.to > end]
        last == walk[Len(replacements)]
    IN  [pieces |-> last.pieces \o originalSlice(last.cursor, end), crosses |-> last.crosses]

Earlier(a, b) == a.from < b.from \/ (a.from = b.from /\ a.to < b.to)

\* The replacements sorted, each put in its place among those before it.
sortReplacements(replacements) ==
    LET sorted[k \in 0..Len(replacements)] ==
            LET before == sorted[k - 1]
                notAfter == {j \in DOMAIN before : ~Earlier(replacements[k], before[j])}
            IN  IF k = 0 THEN <<>> ELSE InsertAt(before, Cardinality(notAfter) + 1, replacements[k])
    IN  sorted[Len(replacements)]

\* Mutant: the stops that the paths leave out are kept.
keptStopsWhole(request, omitted) == [i \in 1..request.stops |-> i - 1]

keptStops(request, omitted) == InOrder(request.stops - 1, Stops(request) \ omitted)

reconstructRoute(request, omitted, replacements) ==
    LET sorted == sortReplacements(replacements)
        stops == keptStops(request, omitted)
        walks == [i \in 1..(Len(stops) - 1) |->
                    reconstructPath(sorted, StopScalar(stops[i]), StopScalar(stops[i + 1]))]
    IN  IF Len(stops) < 2 THEN Refused(NoDetour)
        ELSE IF \/ \E i \in DOMAIN sorted : sorted[i].from >= sorted[i].to
                \/ \E i \in 1..(Len(sorted) - 1) : sorted[i].to > sorted[i + 1].from
                \/ \E i \in DOMAIN walks : walks[i].crosses
             THEN Refused(Internal)
             ELSE [error |-> "none", stops |-> stops, paths |-> [i \in DOMAIN walks |-> walks[i].pieces]]

\* An intervalPlan: the nodes of an interval, and the stops it loses at its ends.
buildIntervalPlans(request) ==
    LET intervals == mergeInsidePieces(request.pieces)
    IN  [i \in DOMAIN intervals |->
            LET nodes == IntervalNodes(request, intervals[i])
            IN  [entry |-> intervals[i].entry, exit |-> intervals[i].exit, nodes |-> nodes,
                 pairs |-> intervalPairs(nodes), omitted |-> boundaryOmitted(request, intervals[i])]]

\* What the planner makes of the routing of its intervals: the paths of the pairs
\* that have one, and the pairs that the topology alone would join.
Assemble(request, plans, routing) ==
    LET selected == [i \in DOMAIN plans |-> Select(plans[i].nodes, routing[i].paths, request.criterion)]
        failed == {i \in DOMAIN plans : selected[i] = {}}
        first == CHOOSE i \in failed : \A j \in failed : i <= j
        Lost(i, kept) ==
            {plans[i].nodes[n].at \div Whole : n \in {m \in DOMAIN plans[i].nodes \ Range(kept) : ~plans[i].nodes[m].isAnchor}}
        Detours(nodes, kept) ==
            [k \in 1..(Len(kept) - 1) |-> Piece("detour", nodes[kept[k]].at, nodes[kept[k + 1]].at)]
        Kept(i) == (CHOOSE s \in selected[i] : TRUE).kept
        chosen == [i \in DOMAIN plans |->
            LET kept == Kept(i)
            IN  [omitted |-> plans[i].omitted \cup Lost(i, kept), detours |-> Detours(plans[i].nodes, kept)]]
    IN  IF failed = {}
        THEN reconstructRoute(request,
                              UNION {chosen[i].omitted : i \in DOMAIN plans},
                              FlattenSeq([i \in DOMAIN plans |-> chosen[i].detours]))
        ELSE Refused(IF topologyCanResolve(plans[first].nodes, routing[first].joined, request.criterion)
                     THEN CoverageInsufficient ELSE NoDetour)
=============================================================================
