------------------------------ MODULE DetourPlan ------------------------------
(***************************************************************************)
(* Service.Plan, for one request: up to three attempts at a variant (with  *)
(* the normal graph, with a larger one, and with the larger one without    *)
(* traffic), each of which analyzes the cut, asks for traffic, routes the  *)
(* intervals in one transaction, selects, sews and compares.               *)
(*                                                                         *)
(* The database and the provider answer anew in every attempt, and the     *)
(* request may be over at any moment.                                      *)
(*                                                                         *)
(* A client may also edit a variant and ask for its comparison alone: such *)
(* a request begins where a plan would compare.                            *)
(***************************************************************************)
EXTENDS DetourSelection, RouteComparison

CONSTANTS
    Requests,    \* records: stops, availability, pieces, criterion, refusal
    Variants,    \* records: stops, and the proposed variant of a comparison
    Paths        \* that the database may find between two points

ASSUME PathsAssumption ==
    Paths \subseteq [seconds: Nat, leaving: 0..359 \cup {Unknown}, arriving: 0..359 \cup {Unknown}]

InputErrors == {"validation", "invalid_cut"}
AnalysisErrors == {"cut_outside_graph", "cut_not_matched", "route_not_affected"}
TileLimit == "traffic_tile_limit_exceeded"
Refusals == InputErrors \cup AnalysisErrors \cup {TileLimit}
TrafficErrors == {"traffic_unavailable", "traffic_stale"}
AnchorNotMatched == "anchor_not_matched"
RequiredStopNotMatched == "required_stop_not_matched"
ContextOver == "context"
Errors == Refusals \cup TrafficErrors
    \cup {AnchorNotMatched, RequiredStopNotMatched, NoDetour, CoverageInsufficient, ContextOver, Internal}

\* The pieces of a route inside the search area come in its order, and every
\* stop that a cut may take lies within that area, which is the widest radius.
ASSUME RequestsAssumption ==
    \A r \in Requests :
        /\ r.stops \in 2..Len(Places)
        /\ r.availability \in [Stops(r) -> {Forced, Optional, Required}]
        /\ r.criterion \in {ShortestTime, FewestLostStops}
        /\ r.refusal \in Refusals \cup {"none"}
        /\ r.pieces \in Seq([segment: Nat, start: Nat, end: Nat])
        /\ \A i \in DOMAIN r.pieces :
            /\ r.pieces[i].segment \in 0..(r.stops - 2)
            /\ 0 <= r.pieces[i].start /\ r.pieces[i].start < r.pieces[i].end /\ r.pieces[i].end <= Whole
            /\ i > 1 => Scalar(r.pieces[i - 1].segment, r.pieces[i - 1].end)
                            <= Scalar(r.pieces[i].segment, r.pieces[i].start)
        /\ \A s \in Stops(r) :
            r.availability[s] # Required => \E interval \in Range(mergeInsidePieces(r.pieces)) : Within(interval, s)

\* route.Validate: two stops at least, each once.
ASSUME VariantsAssumption ==
    \A v \in Variants :
        /\ v.stops \in 2..Len(Places) /\ Len(v.proposed) >= 2
        /\ v.proposed \in Seq([order: (0..(v.stops - 1)) \cup {NewStop}, place: Int \X Int])
        /\ \A i, j \in DOMAIN v.proposed :
            i # j /\ v.proposed[i].order = v.proposed[j].order => v.proposed[i].order = NewStop

VARIABLES
    request,    \* for a plan, or for a comparison
    demo,       \* demoTrafficFallback
    over,       \* the request was cancelled or its deadline passed
    attempt,
    pc,         \* what the attempt does next
    original,   \* the error of the first attempt
    fallback,   \* the attempt has no observations of traffic
    plans,      \* the intervals of the attempt, from buildIntervalPlans
    routing,    \* what the database found for each interval
    answer      \* of the plan

vars == <<request, demo, over, attempt, pc, original, fallback, plans, routing, answer, comparison>>
given == <<request, demo>>

Stages == <<"analyze", "snapshot", "route", "select", "compare", "answered">>

StageOf(stage) == CHOOSE i \in DOMAIN Stages : Stages[i] = stage

WithTraffic == 1
LargerGraph == 2
WithoutTraffic == 3

Unanswered == [error |-> "unanswered", stops |-> <<>>, paths |-> <<>>, fallback |-> FALSE]

Init ==
    /\ \/ request \in Requests /\ demo \in BOOLEAN /\ pc = "analyze"
       \/ request \in Variants /\ demo = FALSE /\ pc = "compare"
    /\ over = FALSE
    /\ attempt = WithTraffic
    /\ original = "none"
    /\ fallback = FALSE
    /\ plans = <<>>
    /\ routing = <<>>
    /\ answer = Unanswered
    /\ comparison = NoComparison

-----------------------------------------------------------------------------
(* Plan: what follows the error of an attempt.  The retries are decided by  *)
(* the first error, which is also what the plan returns if they fail.       *)

shouldRetryWithLargerGraph(error) == error \in {NoDetour, AnchorNotMatched, RequiredStopNotMatched}

shouldRetryWithoutTraffic(error) ==
    error \in TrafficErrors \cup {CoverageInsufficient, NoDetour, AnchorNotMatched, RequiredStopNotMatched}

Retry(next) ==
    /\ attempt' = next
    /\ pc' = "analyze"
    /\ fallback' = (next = WithoutTraffic)
    /\ answer' = Unanswered

Refuse(error) ==
    /\ answer' = [Unanswered EXCEPT !.error = error]
    /\ pc' = "answered"
    /\ UNCHANGED <<attempt, fallback>>

\* Mutant: a failed retry is tried again.
FailAgain(error) ==
    LET first == IF attempt = WithTraffic THEN error ELSE original
    IN  /\ original' = first
        /\ IF attempt # WithoutTraffic /\ shouldRetryWithLargerGraph(first) THEN Retry(LargerGraph)
           ELSE IF attempt # WithoutTraffic /\ shouldRetryWithoutTraffic(first) /\ ~over THEN Retry(WithoutTraffic)
           ELSE Refuse(first)
        /\ plans' = <<>>
        /\ routing' = <<>>
        /\ comparison' = NoComparison
        /\ UNCHANGED <<given, over>>

\* Mutant: the plan returns the error of its last attempt.
FailWithLast(error) ==
    LET first == IF attempt = WithTraffic THEN error ELSE original
    IN  /\ original' = first
        /\ IF attempt = WithTraffic /\ shouldRetryWithLargerGraph(first) THEN Retry(LargerGraph)
           ELSE IF attempt # WithoutTraffic /\ shouldRetryWithoutTraffic(first) /\ ~over THEN Retry(WithoutTraffic)
           ELSE Refuse(error)
        /\ plans' = <<>>
        /\ routing' = <<>>
        /\ comparison' = NoComparison
        /\ UNCHANGED <<given, over>>

Fail(error) ==
    LET first == IF attempt = WithTraffic THEN error ELSE original
    IN  /\ original' = first
        /\ IF attempt = WithTraffic /\ shouldRetryWithLargerGraph(first) THEN Retry(LargerGraph)
           ELSE IF attempt # WithoutTraffic /\ shouldRetryWithoutTraffic(first) /\ ~over THEN Retry(WithoutTraffic)
           ELSE Refuse(first)
        /\ plans' = <<>>
        /\ routing' = <<>>
        /\ comparison' = NoComparison
        /\ UNCHANGED <<given, over>>

Continue(next) ==
    /\ pc' = next
    /\ UNCHANGED <<given, over, attempt, original, comparison>>

-----------------------------------------------------------------------------
(* planWithMargin, one step per call it makes. *)

\* The input is validated before the database is asked, and the tiles of the
\* area counted after.
Analyze ==
    /\ pc = "analyze"
    /\ IF request.refusal \in InputErrors THEN Fail(request.refusal)
       ELSE \/ Fail(IF over THEN ContextOver ELSE Internal)
            \/ /\ ~over
               /\ IF request.refusal \in AnalysisErrors THEN Fail(request.refusal)
                  ELSE IF request.pieces = <<>> THEN Fail(Internal)
                  ELSE IF request.refusal = TileLimit THEN Fail(TileLimit)
                  ELSE /\ Continue(IF attempt = WithoutTraffic THEN "route" ELSE "snapshot")
                       /\ plans' = buildIntervalPlans(request)
                       /\ UNCHANGED <<fallback, routing, answer>>

\* A snapshot may fail as cancelled though this request is not over, when it
\* waits for a tile that another one downloads.
Snapshot ==
    /\ pc = "snapshot"
    /\ \/ Continue("route") /\ fallback' = FALSE /\ UNCHANGED <<plans, routing, answer>>
       \/ \E error \in TrafficErrors \cup {TileLimit, ContextOver} :
            IF demo /\ ~over
            THEN Continue("route") /\ fallback' = TRUE /\ UNCHANGED <<plans, routing, answer>>
            ELSE Fail(error)

\* The points are sought in the order of the route, and the first that has no
\* street decides when it is not optional; those that are have no paths.
Unmatched(nodes) ==
    {IF nodes[n].isAnchor THEN AnchorNotMatched ELSE RequiredStopNotMatched :
        n \in {m \in DOMAIN nodes : nodes[m].availability = Required}}

\* The pairs of one interval, among those of all.
OfInterval(found, i) == {f[2] : f \in {g \in found : g[1] = i}}

\* What the database finds for the pairs of the intervals: paths for some, at the
\* prices of the traffic, and to diagnose, those that the topology alone joins.
Route ==
    /\ pc = "route"
    /\ IF \E i \in DOMAIN plans : Len(plans[i].nodes) < 2 THEN Fail(NoDetour)
       ELSE \/ Fail(IF over THEN ContextOver ELSE Internal)
            \/ /\ ~over
               /\ \E i \in DOMAIN plans : \E error \in Unmatched(plans[i].nodes) : Fail(error)
            \/ /\ ~over
               /\ LET pairs == UNION {{<<i, pair>> : pair \in plans[i].pairs} : i \in DOMAIN plans}
                  IN  \E found \in SUBSET pairs : \E paths \in [found -> Paths], joined \in {found, pairs} :
                        routing' = [i \in DOMAIN plans |->
                            [paths |-> [pair \in OfInterval(found, i) |-> paths[<<i, pair>>]], joined |-> OfInterval(joined, i)]]
               /\ Continue("select")
               /\ UNCHANGED <<fallback, plans, answer>>

\* Selection, reconstruction and validation; the answer waits for Compare.
SelectAndSew ==
    /\ pc = "select"
    /\ LET variant == Assemble(request, plans, routing)
       IN  IF variant.error # "none" THEN Fail(variant.error)
           ELSE /\ Continue("compare")
                /\ answer' = [error |-> "unanswered", stops |-> variant.stops, paths |-> variant.paths,
                              fallback |-> fallback]
                /\ routing' = <<>>
                /\ UNCHANGED <<fallback, plans>>

\* The comparison begins with the stops that the variant keeps, or as edited.
BeginComparison ==
    /\ pc = "compare"
    /\ comparison.state = "none"
    /\ StartComparison(request.stops,
                       IF request \in Variants THEN request.proposed
                       ELSE [i \in DOMAIN answer.stops |-> Retained(answer.stops[i])])
    /\ UNCHANGED <<given, over, attempt, pc, original, fallback, plans, routing, answer>>

Compare ==
    /\ pc = "compare"
    /\ CompareStep(over)
    /\ UNCHANGED <<given, over, attempt, pc, original, fallback, plans, routing, answer>>

Compared ==
    /\ pc = "compare"
    /\ comparison.state = "ended"
    /\ IF comparison.failure # "none" THEN Fail(comparison.failure)
       ELSE /\ Continue("answered")
            /\ answer' = [answer EXCEPT !.error = "none"]
            /\ UNCHANGED <<fallback, plans, routing>>

\* The client leaves, or the time that the handler gives the request passes.
EndRequest ==
    /\ ~over /\ pc # "answered"
    /\ over' = TRUE
    /\ UNCHANGED <<given, attempt, pc, original, fallback, plans, routing, answer, comparison>>

Answered == pc = "answered" /\ UNCHANGED vars

Next ==
    \/ Analyze \/ Snapshot \/ Route \/ SelectAndSew
    \/ BeginComparison \/ Compare \/ Compared
    \/ EndRequest \/ Answered

Spec == Init /\ [][Next]_vars

-----------------------------------------------------------------------------
\* A variant keeps the stops that the cut must not cost, none that it reaches and
\* two at least, in order, "Los tramos que el corte no alcanza se conservan
\* exactamente como llegaron": its paths lead from each stop to the next, piece
\* by piece, original outside the intervals and detour within.
VariantHonoursCut ==
    LET Kept(i) == answer.stops[i]
        Inside(piece) == \E k \in DOMAIN plans : plans[k].entry <= piece.from /\ piece.to <= plans[k].exit
        Outside(piece) == \A k \in DOMAIN plans : piece.to <= plans[k].entry \/ plans[k].exit <= piece.from
    IN  answer.stops # <<>> =>
            /\ Len(answer.stops) >= 2
            /\ \A i \in 1..(Len(answer.stops) - 1) : Kept(i) < Kept(i + 1)
            /\ {s \in Stops(request) : request.availability[s] = Required} \subseteq Range(answer.stops)
            /\ \A i \in DOMAIN answer.stops : request.availability[Kept(i)] # Forced
            /\ \A i \in DOMAIN answer.paths :
                LET path == answer.paths[i]
                IN  /\ path[1].from = StopScalar(Kept(i)) /\ Last(path).to = StopScalar(Kept(i + 1))
                    /\ \A p \in 1..(Len(path) - 1) : path[p].to = path[p + 1].from
                    /\ \A p \in DOMAIN path :
                        IF path[p].kind = "detour" THEN Inside(path[p]) ELSE Outside(path[p])

\* What is selected can be sewn: no choice of paths in the intervals makes
\* replacements that overlap, are empty or cross a stop that is kept, which would
\* be an internal failure and end the plan.
SelectionsCanBeSewn ==
    pc = "select" => Assemble(request, plans, routing).error # Internal

\* The ways to cross an interval: the nodes kept, by the definition of Select.
Crossings(nodes, paths) ==
    LET required == {n \in DOMAIN nodes : nodes[n].availability = Required}
        Joined(kept) == \A k \in 1..(Len(kept) - 1) : <<kept[k], kept[k + 1]>> \in DOMAIN paths
        Turning(kept) == \E k \in 2..(Len(kept) - 1) :
            Turns(paths[<<kept[k - 1], kept[k]>>].arriving, paths[<<kept[k], kept[k + 1]>>].leaving)
    IN  {kept \in {InOrder(Len(nodes), some) : some \in {k \in SUBSET DOMAIN nodes : required \subseteq k}} :
            Len(kept) > 1 /\ Joined(kept) /\ ~Turning(kept)}

State(kept, paths) ==
    LET seconds[k \in DOMAIN kept] ==
            IF k = 1 THEN 0 ELSE seconds[k - 1] + paths[<<kept[k - 1], kept[k]>>].seconds
    IN  [kept |-> kept, seconds |-> seconds[Len(kept)]]

\* No worse by the time, then the stops kept; or by the stops, then the time.
NoWorse(a, b, criterion) ==
    LET more == Len(a.kept) - Len(b.kept)
        longer == a.seconds - b.seconds
    IN  IF criterion = ShortestTime THEN longer < 0 \/ (longer = 0 /\ more >= 0)
        ELSE more > 0 \/ (more = 0 /\ longer <= 0)

\* Where no two paths of an interval turn back at a node they share, Select finds
\* a crossing to which the criterion prefers no other, and fails only when there
\* is none.  (Where they do, it may not: it keeps one way to reach each node, and
\* the next path may turn back from that one alone.)
BestWithoutTurns ==
    pc = "select" =>
        \A i \in DOMAIN plans :
            LET paths == routing[i].paths
                ways == {State(kept, paths) : kept \in Crossings(plans[i].nodes, paths)}
                found == Select(plans[i].nodes, paths, request.criterion)
            IN  (\A a, b \in DOMAIN paths : a[2] = b[1] => ~Turns(paths[a].arriving, paths[b].leaving))
                => /\ found = {} <=> ways = {}
                   /\ \A s \in found : s \in ways /\ \A w \in ways : NoWorse(s, w, request.criterion)

\* "Si ese intento tambien falla se devuelve el error original": whatever the
\* retries meet, a plan that fails tells why its first attempt did; and a
\* comparison that fails tells why, not that its other side was cancelled for it.
OriginalErrorReturned ==
    /\ pc = "answered" /\ answer.error # "none" => answer.error = original
    /\ comparison.failure = ContextOver => over

\* Every plan is answered, whatever its calls return: no step but the end of the
\* request leaves it where it was, none takes it back, and none is missing before
\* the answer (the runs check that there is no deadlock).
AttemptsAdvance ==
    [][\/ over' # over
       \/ attempt' > attempt
       \/ attempt' = attempt /\ StageOf(pc') > StageOf(pc)
       \/ attempt' = attempt /\ pc' = pc /\ Progress(comparison') > Progress(comparison)]_vars
=============================================================================
