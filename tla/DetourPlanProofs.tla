-------------------------- MODULE DetourPlanProofs --------------------------
(***************************************************************************)
(* Proofs about a plan, for any requests, variants, places and paths: its  *)
(* first error is answered, every step advances, the distances that fares  *)
(* are charged by are those of the original route, the variants it answers *)
(* honour the cut and are always sewn, and what is selected where no path  *)
(* turns back is the best that there is.                                   *)
(***************************************************************************)
EXTENDS DetourPlan, WellFoundedInduction, SequenceTheorems, FiniteSetTheorems, TLAPS

States == {"none", "estimating", "charging", "ended"}
SideStates == {"demand", "travel_time", "done", "stopped"}
Failures == {"none", "validation", "context", "internal"}

ComparisonTyped ==
    /\ comparison = [state |-> comparison.state, stops |-> comparison.stops,
                     proposed |-> comparison.proposed, sides |-> comparison.sides,
                     failure |-> comparison.failure, fares |-> comparison.fares]
    /\ comparison.state \in States
    /\ comparison.sides \in [Sides -> SideStates]
    /\ comparison.failure \in Failures

\* A comparison that has not begun is the empty one.
ComparisonBegins == comparison.state = "none" => comparison = NoComparison

AnswerTyped ==
    answer = [error |-> answer.error, stops |-> answer.stops,
              paths |-> answer.paths, fallback |-> answer.fallback]

PlanTyped ==
    /\ pc \in {"analyze", "snapshot", "route", "select", "compare", "answered"}
    /\ attempt \in {WithTraffic, LargerGraph, WithoutTraffic}
    /\ over \in BOOLEAN

IInv ==
    /\ PlanTyped
    /\ AnswerTyped
    /\ ComparisonTyped
    /\ ComparisonBegins
    /\ OriginalErrorReturned

-----------------------------------------------------------------------------
LEMMA StageOrder ==
    /\ StageOf("analyze") = 1 /\ StageOf("snapshot") = 2 /\ StageOf("route") = 3
    /\ StageOf("select") = 4 /\ StageOf("compare") = 5 /\ StageOf("answered") = 6
<1>1. DOMAIN Stages = 1..6
  BY DEF Stages
<1>2. /\ Stages[1] = "analyze" /\ Stages[2] = "snapshot" /\ Stages[3] = "route"
      /\ Stages[4] = "select" /\ Stages[5] = "compare" /\ Stages[6] = "answered"
  BY DEF Stages
<1>3. \A i, j \in 1..6 : Stages[i] = Stages[j] => i = j
  BY <1>2
<1>4. \A i \in 1..6 : StageOf(Stages[i]) = i
  BY <1>1, <1>3 DEF StageOf
<1>q. QED
  BY <1>2, <1>4

\* A failure begins another attempt, or answers with the first error.
LEMMA FailAdvances ==
    ASSUME IInv, NEW error, Fail(error), pc # "answered"
    PROVE  IInv' /\ (attempt' > attempt \/ (attempt' = attempt /\ StageOf(pc') > StageOf(pc)))
<1> DEFINE first == IF attempt = WithTraffic THEN error ELSE original
<1>1. /\ original' = first /\ comparison' = NoComparison /\ over' = over
      /\ (\E next \in {LargerGraph, WithoutTraffic} : Retry(next) /\ next > attempt) \/ Refuse(first)
  BY DEF Fail, IInv, PlanTyped, given, WithTraffic, LargerGraph, WithoutTraffic
<1> HIDE DEF first
<1>2. ComparisonTyped' /\ ComparisonBegins' /\ comparison'.failure = "none"
  BY <1>1 DEF ComparisonTyped, ComparisonBegins, NoComparison, States, SideStates, Failures, Sides
<1>3. CASE \E next \in {LargerGraph, WithoutTraffic} : Retry(next) /\ next > attempt
  BY <1>1, <1>2, <1>3
  DEF Retry, IInv, PlanTyped, AnswerTyped, Unanswered, OriginalErrorReturned, ContextOver
<1>4. CASE Refuse(first)
  <2>1. /\ answer' = [error |-> first, stops |-> <<>>, paths |-> <<>>, fallback |-> FALSE]
        /\ pc' = "answered" /\ attempt' = attempt
    BY <1>4 DEF Refuse, Unanswered
  <2>2. StageOf(pc') > StageOf(pc)
    BY <2>1, StageOrder DEF IInv, PlanTyped
  <2>q. QED
    BY <1>1, <1>2, <2>1, <2>2
    DEF IInv, PlanTyped, AnswerTyped, OriginalErrorReturned, ContextOver
<1>q. QED
  BY <1>1, <1>3, <1>4

-----------------------------------------------------------------------------
(* The comparison goes on, and tells of a cancellation only when the request *)
(* is over.                                                                *)

SideRank(place) == IF place = "demand" THEN 0 ELSE IF place = "travel_time" THEN 1 ELSE 2
StateRank(place) ==
    IF place = "none" THEN 0 ELSE IF place = "estimating" THEN 1 ELSE IF place = "charging" THEN 2 ELSE 3

LEMMA ProgressRanks ==
    ASSUME NEW c
    PROVE  Progress(c) = SideRank(c.sides["baseline"]) + SideRank(c.sides["proposed"]) + StateRank(c.state)
BY DEF Progress, SideRank, StateRank

LEMMA Ranks ==
    ASSUME NEW place
    PROVE  /\ place = "demand" => SideRank(place) = 0
           /\ place = "travel_time" => SideRank(place) = 1
           /\ place \in {"done", "stopped"} => SideRank(place) = 2
           /\ place = "none" => StateRank(place) = 0
           /\ place = "estimating" => StateRank(place) = 1
           /\ place = "charging" => StateRank(place) = 2
           /\ place = "ended" => StateRank(place) = 3
BY DEF SideRank, StateRank

LEMMA EstimateAdvances ==
    ASSUME IInv, NEW side \in Sides, Estimate(side, over), over' = over
    PROVE  /\ ComparisonTyped' /\ ComparisonBegins'
           /\ comparison'.failure = "context" => over
           /\ Progress(comparison') > Progress(comparison)
<1>1. /\ ComparisonTyped /\ comparison.state = "estimating" /\ comparison.sides[side] \in {"demand", "travel_time"}
      /\ comparison.failure = "context" => over
  BY DEF IInv, ComparisonTyped, SideStates, Estimate, Over, OriginalErrorReturned, ContextOver
<1>2. \E place \in {"travel_time", "done", "stopped"}, failure \in Failures :
         /\ comparison' = [state |-> comparison.state, stops |-> comparison.stops,
                           proposed |-> comparison.proposed,
                           sides |-> [comparison.sides EXCEPT ![side] = place],
                           failure |-> failure, fares |-> comparison.fares]
         /\ SideRank(place) > SideRank(comparison.sides[side])
         /\ failure = "context" => over
  <2>1. CASE comparison' = [comparison EXCEPT !.sides[side] = IF @ = "demand" THEN "travel_time" ELSE "done"]
    <3> DEFINE place == IF comparison.sides[side] = "demand" THEN "travel_time" ELSE "done"
    <3>1. comparison' = [state |-> comparison.state, stops |-> comparison.stops,
                         proposed |-> comparison.proposed,
                         sides |-> [comparison.sides EXCEPT ![side] = place],
                         failure |-> comparison.failure, fares |-> comparison.fares]
      BY <1>1, <2>1 DEF ComparisonTyped
    <3>2. SideRank(place) > SideRank(comparison.sides[side])
      BY <1>1, Ranks
    <3>q. QED
      BY <1>1, <3>1, <3>2 DEF ComparisonTyped
  <2>2. CASE comparison' = [comparison EXCEPT !.sides[side] = "stopped",
                              !.failure = Cause(@, IF over \/ @ # "none" THEN "context" ELSE "internal")]
    <3> DEFINE failure == Cause(comparison.failure,
                                IF over \/ comparison.failure # "none" THEN "context" ELSE "internal")
    <3>1. comparison' = [state |-> comparison.state, stops |-> comparison.stops,
                         proposed |-> comparison.proposed,
                         sides |-> [comparison.sides EXCEPT ![side] = "stopped"],
                         failure |-> failure, fares |-> comparison.fares]
      BY <1>1, <2>2 DEF ComparisonTyped
    <3>2. failure \in Failures /\ (failure = "context" => over)
      BY <1>1 DEF Cause, ComparisonTyped, Failures
    <3>3. SideRank("stopped") > SideRank(comparison.sides[side])
      BY <1>1, Ranks
    <3>q. QED
      BY <3>1, <3>2, <3>3
  <2>q. QED
    BY <2>1, <2>2 DEF Estimate
<1>3. PICK place \in {"travel_time", "done", "stopped"}, failure \in Failures :
         /\ comparison' = [state |-> comparison.state, stops |-> comparison.stops,
                           proposed |-> comparison.proposed,
                           sides |-> [comparison.sides EXCEPT ![side] = place],
                           failure |-> failure, fares |-> comparison.fares]
         /\ SideRank(place) > SideRank(comparison.sides[side])
         /\ failure = "context" => over
  BY <1>2
<1>4. ComparisonTyped' /\ ComparisonBegins'
  BY <1>1, <1>3 DEF ComparisonTyped, ComparisonBegins, SideStates
<1>5. /\ comparison'.state = comparison.state
      /\ \A s \in Sides : comparison'.sides[s] = IF s = side THEN place ELSE comparison.sides[s]
  BY <1>1, <1>3 DEF ComparisonTyped
<1>6. \A s \in Sides : SideRank(comparison.sides[s]) \in Int /\ SideRank(comparison'.sides[s]) \in Int
  BY <1>1, <1>4, Ranks DEF ComparisonTyped, SideStates
<1>7. StateRank(comparison.state) = 1
  BY <1>1, Ranks
<1>8. Progress(comparison') > Progress(comparison)
  <2>1. CASE side = "baseline"
    <3>1. comparison'.sides["proposed"] = comparison.sides["proposed"] /\ comparison'.sides["baseline"] = place
      BY <1>5, <2>1 DEF Sides
    <3>2. /\ SideRank(place) \in Int /\ SideRank(comparison.sides["proposed"]) \in Int
          /\ SideRank(comparison.sides["baseline"]) \in Int
      BY <1>6, <3>1 DEF Sides
    <3>3. Progress(comparison) = SideRank(comparison.sides["baseline"]) + SideRank(comparison.sides["proposed"]) + 1
      BY <1>7, <3>2, ProgressRanks
    <3>4. Progress(comparison') = SideRank(place) + SideRank(comparison.sides["proposed"]) + 1
      BY <1>5, <1>7, <3>1, <3>2, ProgressRanks
    <3>q. QED
      BY <1>3, <2>1, <3>2, <3>3, <3>4
  <2>2. CASE side = "proposed"
    <3>1. comparison'.sides["baseline"] = comparison.sides["baseline"] /\ comparison'.sides["proposed"] = place
      BY <1>5, <2>2 DEF Sides
    <3>2. /\ SideRank(place) \in Int /\ SideRank(comparison.sides["baseline"]) \in Int
          /\ SideRank(comparison.sides["proposed"]) \in Int
      BY <1>6, <3>1 DEF Sides
    <3>3. Progress(comparison) = SideRank(comparison.sides["proposed"]) + SideRank(comparison.sides["baseline"]) + 1
      BY <1>7, <3>2, ProgressRanks
    <3>4. Progress(comparison') = SideRank(place) + SideRank(comparison.sides["baseline"]) + 1
      BY <1>5, <1>7, <3>1, <3>2, ProgressRanks
    <3>q. QED
      BY <1>3, <2>2, <3>2, <3>3, <3>4
  <2>q. QED
    BY <2>1, <2>2 DEF Sides
<1>q. QED
  BY <1>3, <1>4, <1>8

LEMMA CompareAdvances ==
    ASSUME IInv, CompareStep(over), over' = over
    PROVE  /\ ComparisonTyped' /\ ComparisonBegins'
           /\ comparison'.failure = "context" => over
           /\ Progress(comparison') > Progress(comparison)
<1>1. ComparisonTyped /\ (comparison.failure = "context" => over)
  BY DEF IInv, OriginalErrorReturned, ContextOver
<1>2. ASSUME NEW side \in Sides, Estimate(side, over)
      PROVE  /\ ComparisonTyped' /\ ComparisonBegins'
             /\ comparison'.failure = "context" => over
             /\ Progress(comparison') > Progress(comparison)
  BY <1>2, EstimateAdvances
<1>3. ASSUME Estimated \/ Charge(over)
      PROVE  /\ ComparisonTyped' /\ ComparisonBegins'
             /\ comparison'.failure = "context" => over
             /\ Progress(comparison') > Progress(comparison)
  <2>1. /\ comparison' = [state |-> comparison'.state, stops |-> comparison.stops,
                          proposed |-> comparison.proposed, sides |-> comparison.sides,
                          failure |-> comparison'.failure, fares |-> comparison'.fares]
        /\ comparison'.failure \in Failures /\ (comparison'.failure = "context" => over)
        /\ \/ comparison.state = "estimating" /\ comparison'.state \in {"charging", "ended"}
           \/ comparison.state = "charging" /\ comparison'.state = "ended"
    <3>1. CASE Estimated
      BY <1>1, <3>1 DEF Estimated, ComparisonTyped, Failures
    <3>2. CASE Charge(over)
      BY <1>1, <3>2 DEF Charge, ComparisonTyped, Failures
    <3>q. QED
      BY <1>3, <3>1, <3>2
  <2>2. ComparisonTyped' /\ ComparisonBegins'
    BY <1>1, <2>1 DEF ComparisonTyped, ComparisonBegins, States
  <2>3. /\ comparison'.sides = comparison.sides
        /\ StateRank(comparison'.state) > StateRank(comparison.state)
        /\ StateRank(comparison'.state) \in Int /\ StateRank(comparison.state) \in Int
    BY <2>1, Ranks
  <2>4. \A s \in Sides : SideRank(comparison.sides[s]) \in Int
    BY <1>1, Ranks DEF ComparisonTyped, SideStates
  <2>q. QED
    BY <2>1, <2>2, <2>3, <2>4, ProgressRanks DEF Sides
<1>q. QED
  BY <1>2, <1>3 DEF CompareStep

LEMMA StartAdvances ==
    ASSUME IInv, NEW n, NEW proposed, StartComparison(n, proposed), comparison.state = "none"
    PROVE  /\ ComparisonTyped' /\ ComparisonBegins' /\ comparison'.failure # "context"
           /\ Progress(comparison') > Progress(comparison)
<1>1. comparison = NoComparison
  BY DEF IInv, ComparisonBegins
<1>2. \/ comparison' = [state |-> "estimating", stops |-> n, proposed |-> proposed,
                        sides |-> [s \in Sides |-> "demand"], failure |-> "none", fares |-> <<>>]
      \/ comparison' = [state |-> "ended", stops |-> 0, proposed |-> <<>>,
                        sides |-> [s \in Sides |-> "demand"], failure |-> "validation", fares |-> <<>>]
  BY DEF StartComparison, NoComparison
<1>3. [s \in Sides |-> "demand"] \in [Sides -> SideStates]
  BY DEF SideStates
<1>4. ComparisonTyped' /\ ComparisonBegins' /\ comparison'.failure # "context"
  BY <1>2, <1>3 DEF ComparisonTyped, ComparisonBegins, States, Failures
<1>5. /\ comparison'.sides = comparison.sides /\ comparison.state = "none"
      /\ comparison'.state \in {"estimating", "ended"}
      /\ \A s \in Sides : comparison.sides[s] = "demand"
  BY <1>1, <1>2 DEF NoComparison
<1>q. QED
  BY <1>4, <1>5, Ranks, ProgressRanks DEF Sides

-----------------------------------------------------------------------------
(* The steps of the plan. *)

Advances ==
    \/ over' # over
    \/ attempt' > attempt
    \/ attempt' = attempt /\ StageOf(pc') > StageOf(pc)
    \/ attempt' = attempt /\ pc' = pc /\ Progress(comparison') > Progress(comparison)

\* A call of an attempt that succeeds leads to a later one, before the answer.
LEMMA ContinueAdvances ==
    ASSUME IInv, NEW next \in {"route", "snapshot", "select", "compare"}, Continue(next),
           StageOf(next) > StageOf(pc), AnswerTyped'
    PROVE  IInv' /\ Advances
BY DEF IInv, PlanTyped, ComparisonTyped, ComparisonBegins, OriginalErrorReturned, ContextOver,
       Continue, Advances, given

LEMMA StepAdvances ==
    ASSUME IInv, [Next]_vars
    PROVE  IInv' /\ (Advances \/ UNCHANGED vars)
<1>0. /\ StageOf("analyze") = 1 /\ StageOf("snapshot") = 2 /\ StageOf("route") = 3
      /\ StageOf("select") = 4 /\ StageOf("compare") = 5 /\ StageOf("answered") = 6
  BY StageOrder
<1>f. ASSUME NEW error, Fail(error), pc # "answered"
      PROVE  IInv' /\ Advances
  BY <1>f, FailAdvances DEF Advances
<1>1. CASE Analyze
  <2>1. CASE \E error : Fail(error)
    BY <1>1, <1>f, <2>1 DEF Analyze
  <2>2. CASE ~ \E error : Fail(error)
    <3>1. PICK next \in {"route", "snapshot"} : Continue(next)
      BY <1>1, <2>2 DEF Analyze
    <3>2. pc = "analyze" /\ answer' = answer
      BY <1>1, <2>2 DEF Analyze
    <3>q. QED
      BY <1>0, <3>1, <3>2, ContinueAdvances DEF IInv, AnswerTyped
  <2>q. QED
    BY <2>1, <2>2
<1>2. CASE Snapshot
  <2>1. CASE \E error : Fail(error)
    BY <1>2, <1>f, <2>1 DEF Snapshot
  <2>2. CASE ~ \E error : Fail(error)
    <3>1. Continue("route") /\ pc = "snapshot" /\ answer' = answer
      BY <1>2, <2>2 DEF Snapshot
    <3>q. QED
      BY <1>0, <3>1, ContinueAdvances DEF IInv, AnswerTyped
  <2>q. QED
    BY <2>1, <2>2
<1>3. CASE Route
  <2>1. CASE \E error : Fail(error)
    BY <1>3, <1>f, <2>1 DEF Route
  <2>2. CASE ~ \E error : Fail(error)
    <3>1. Continue("select") /\ pc = "route" /\ answer' = answer
      BY <1>3, <2>2 DEF Route
    <3>q. QED
      BY <1>0, <3>1, ContinueAdvances DEF IInv, AnswerTyped
  <2>q. QED
    BY <2>1, <2>2
<1>4. CASE SelectAndSew
  <2> DEFINE variant == Assemble(request, plans, routing)
  <2>1. CASE variant.error # "none"
    BY <1>4, <1>f, <2>1 DEF SelectAndSew
  <2>2. CASE variant.error = "none"
    <3>1. /\ Continue("compare") /\ pc = "select"
          /\ answer' = [error |-> "unanswered", stops |-> variant.stops, paths |-> variant.paths,
                        fallback |-> fallback]
      BY <1>4, <2>2 DEF SelectAndSew
    <3> HIDE DEF variant
    <3>q. QED
      BY <1>0, <3>1, ContinueAdvances DEF AnswerTyped
  <2>q. QED
    BY <2>1, <2>2
<1>5. CASE BeginComparison
  <2>1. /\ pc = "compare" /\ comparison.state = "none" /\ UNCHANGED <<over, attempt, pc, original, answer>>
        /\ \E n, proposed : StartComparison(n, proposed)
    BY <1>5 DEF BeginComparison
  <2>2. /\ ComparisonTyped' /\ ComparisonBegins' /\ comparison'.failure # "context"
        /\ Progress(comparison') > Progress(comparison)
    BY <2>1, StartAdvances
  <2>q. QED
    BY <2>1, <2>2 DEF IInv, PlanTyped, AnswerTyped, OriginalErrorReturned, ContextOver, Advances
<1>6. CASE Compare
  <2>1. /\ pc = "compare" /\ UNCHANGED <<over, attempt, pc, original, answer>> /\ CompareStep(over)
    BY <1>6 DEF Compare
  <2>2. /\ ComparisonTyped' /\ ComparisonBegins' /\ (comparison'.failure = "context" => over)
        /\ Progress(comparison') > Progress(comparison)
    BY <2>1, CompareAdvances
  <2>q. QED
    BY <2>1, <2>2 DEF IInv, PlanTyped, AnswerTyped, OriginalErrorReturned, ContextOver, Advances
<1>7. CASE Compared
  <2>1. CASE comparison.failure # "none"
    BY <1>7, <1>f, <2>1 DEF Compared
  <2>2. CASE comparison.failure = "none"
    <3>1. /\ Continue("answered") /\ pc = "compare"
          /\ answer' = [error |-> "none", stops |-> answer.stops,
                        paths |-> answer.paths, fallback |-> answer.fallback]
      BY <1>7, <2>2 DEF Compared, IInv, AnswerTyped
    <3>2. attempt' = attempt /\ StageOf(pc') > StageOf(pc)
      BY <1>0, <3>1 DEF Continue
    <3>q. QED
      BY <3>1, <3>2 DEF IInv, PlanTyped, AnswerTyped, ComparisonTyped, ComparisonBegins,
         OriginalErrorReturned, ContextOver, Continue, Advances, given
  <2>q. QED
    BY <2>1, <2>2
<1>8. CASE EndRequest
  BY <1>8 DEF EndRequest, IInv, PlanTyped, AnswerTyped, ComparisonTyped, ComparisonBegins,
     OriginalErrorReturned, ContextOver, Advances
<1>9. CASE UNCHANGED vars
  BY <1>9 DEF vars, IInv, PlanTyped, AnswerTyped, ComparisonTyped, ComparisonBegins,
     OriginalErrorReturned, ContextOver
<1>q. QED
  BY <1>1, <1>2, <1>3, <1>4, <1>5, <1>6, <1>7, <1>8, <1>9 DEF Next, Answered

\* The stages, the answer and the comparison of a plan, and its first error, in
\* every state.
THEOREM Invariance == Spec => []IInv
<1>1. Init => IInv
  <2> SUFFICES ASSUME Init PROVE IInv
    OBVIOUS
  <2>1. comparison = NoComparison /\ [s \in Sides |-> "demand"] \in [Sides -> SideStates]
    BY DEF Init, SideStates
  <2>2. ComparisonTyped /\ ComparisonBegins /\ comparison.failure = "none"
    BY <2>1 DEF ComparisonTyped, ComparisonBegins, NoComparison, States, Failures
  <2>q. QED
    BY <2>2 DEF Init, IInv, PlanTyped, AnswerTyped, Unanswered, OriginalErrorReturned, ContextOver
<1>2. IInv /\ [Next]_vars => IInv'
  BY StepAdvances
<1>q. QED
  BY <1>1, <1>2, PTL DEF Spec

\* A plan that fails tells why its first attempt did, and a comparison tells of a
\* cancellation only when the request is over.
THEOREM FirstErrorReturned == Spec => []OriginalErrorReturned
<1>1. IInv => OriginalErrorReturned
  BY DEF IInv
<1>q. QED
  BY <1>1, Invariance, PTL

\* Every step of a plan takes it to a later stage or attempt, and never back.
THEOREM EveryStepAdvances == Spec => AttemptsAdvance
<1>1. IInv /\ [Next]_vars => [\/ over' # over
                              \/ attempt' > attempt
                              \/ attempt' = attempt /\ StageOf(pc') > StageOf(pc)
                              \/ /\ attempt' = attempt /\ pc' = pc
                                 /\ Progress(comparison') > Progress(comparison)]_vars
  BY StepAdvances DEF Advances
<1>q. QED
  BY <1>1, Invariance, PTL DEF Spec, AttemptsAdvance

-----------------------------------------------------------------------------
(* Induction over numbers, as facts about sets of them, and the functions  *)
(* that a recursion over numbers defines.                                  *)

\* A set of numbers that is not empty has a least one.
LEMMA LeastNumber ==
    ASSUME NEW N, N \subseteq Nat, N # {}
    PROVE  \E m \in N : \A k \in N : m <= k
<1>a. IsWellFoundedOn(OpToRel(<, Nat), Nat)
  BY NatLessThanWellFounded
<1> DEFINE below == OpToRel(<, Nat)
<1>1. \E m \in N : \A k \in N : ~ (<<k, m>> \in below)
  <2>1. IsWellFoundedOn(below, Nat)
    BY <1>a
  <2> HIDE DEF below
  <2>q. QED
    BY <2>1, WFMin
<1>2. \A k, m \in N : ~ (<<k, m>> \in below) => ~ (k < m)
  BY DEF OpToRel
<1> HIDE DEF below
<1>3. \A k, m \in N : ~ (k < m) => m <= k
  OBVIOUS
<1>q. QED
  BY <1>1, <1>2, <1>3

\* What holds of a number, and of each once it holds of the one before, holds up
\* to the bound.
LEMMA Ascends ==
    ASSUME NEW a \in Int, NEW n \in Int, NEW N, a \in N, \A i \in (a + 1)..n : i - 1 \in N => i \in N
    PROVE  \A i \in a..n : i \in N
<1> DEFINE missing == {i \in Nat : a + i <= n /\ a + i \notin N}
<1>1. SUFFICES missing = {}
  <2>1. ASSUME missing = {}, NEW i \in a..n PROVE i \in N
    <3>1. i - a \in Nat /\ a + (i - a) = i /\ i <= n
      BY <2>1
    <3>2. i - a \notin missing
      BY <2>1
    <3>q. QED
      BY <3>1, <3>2
  <2>q. QED
    BY <2>1
<1>2. SUFFICES ASSUME missing # {} PROVE FALSE
  OBVIOUS
<1>3. PICK m \in missing : \A k \in missing : m <= k
  <2>1. missing \subseteq Nat
    OBVIOUS
  <2> HIDE DEF missing
  <2>q. QED
    BY <2>1, <1>2, LeastNumber
<1>4. m # 0 /\ a + m \in (a + 1)..n
  BY <1>3
<1>5. m - 1 \in Nat /\ m - 1 \notin missing
  BY <1>3, <1>4
<1>6. (a + m) - 1 \in N
  <2>1. a + (m - 1) = (a + m) - 1 /\ a + (m - 1) <= n
    BY <1>3, <1>4
  <2>q. QED
    BY <1>5, <2>1
<1>q. QED
  BY <1>3, <1>4, <1>6

\* A recursion that takes a member of a set to another defines a function.
Steps(S, n, first, step) == n \in Nat /\ first \in S /\ step \in [(1..n) \X S -> S]

Follows(f, S, n, first, step) ==
    f \in [0..n -> S] /\ f[0] = first /\ \A k \in 1..n : f[k] = step[<<k, f[k - 1]>>]

LEMMA Recursion ==
    ASSUME NEW S, NEW n, NEW first, NEW step, Steps(S, n, first, step)
    PROVE  \E f : Follows(f, S, n, first, step)
<1>0. n \in Nat /\ first \in S /\ step \in [(1..n) \X S -> S]
  BY DEF Steps
<1> DEFINE upTo(m, f) == f \in [0..m -> S] /\ f[0] = first /\ \A k \in 1..m : f[k] = step[<<k, f[k - 1]>>]
           N == {m \in 0..n : \E f : upTo(m, f)}
<1>1. 0 \in N
  <2> DEFINE z == [i \in 0..0 |-> first]
  <2>1. upTo(0, z)
    BY <1>0
  <2> HIDE DEF z
  <2>2. \E f : upTo(0, f)
    BY <2>1
  <2>q. QED
    BY <1>0, <2>2
<1>2. ASSUME NEW m \in 1..n, m - 1 \in N
      PROVE  m \in N
  <2>1. PICK f : upTo(m - 1, f)
    BY <1>2
  <2> DEFINE g == [i \in 0..m |-> IF i = m THEN step[<<m, f[m - 1]>>] ELSE f[i]]
  <2>2. f[m - 1] \in S /\ step[<<m, f[m - 1]>>] \in S
    BY <1>0, <2>1
  <2>3. \A i \in 0..m : i # m => i \in 0..(m - 1)
    OBVIOUS
  <2>4. g \in [0..m -> S] /\ g[0] = first
    BY <2>1, <2>2, <2>3
  <2>5. \A k \in 1..m : g[k] = step[<<k, g[k - 1]>>]
    <3>1. TAKE k \in 1..m
    <3>2. k - 1 \in 0..(m - 1) /\ g[k - 1] = f[k - 1]
      OBVIOUS
    <3>3. CASE k = m
      <4>1. g[m] = step[<<m, f[m - 1]>>] /\ g[m - 1] = f[m - 1]
        BY <3>2, <3>3
      <4> HIDE DEF g
      <4>q. QED
        BY <3>3, <4>1
    <3>4. CASE k # m
      BY <3>2, <3>4, <2>1
    <3>q. QED
      BY <3>3, <3>4
  <2> HIDE DEF g
  <2>6. \E h : upTo(m, h)
    BY <2>4, <2>5
  <2> HIDE DEF upTo
  <2>q. QED
    BY <2>6
<1> HIDE DEF N
<1>3. \A i \in 0..n : i \in N
  BY <1>0, <1>1, <1>2, Ascends
<1>4. \E f : upTo(n, f)
  BY <1>0, <1>3 DEF N
<1>q. QED
  BY <1>4 DEF Follows

-----------------------------------------------------------------------------
(* The distances along the original route.                                  *)

LEMMA PlacesAreInts ==
    /\ Len(Places) \in Nat /\ DOMAIN Places = 1..Len(Places)
    /\ \A k \in 0..(Len(Places) - 1) : Place(k) \in Int \X Int
<1>1. Places \in Seq(Int \X Int)
  BY PlacesAssumption
<1>2. Len(Places) \in Nat /\ DOMAIN Places = 1..Len(Places)
  BY <1>1
<1>3. \A k \in 1..Len(Places) : Places[k] \in Int \X Int
  BY <1>1
<1>4. ASSUME NEW k \in 0..(Len(Places) - 1) PROVE Place(k) \in Int \X Int
  <2>1. k + 1 \in 1..Len(Places)
    BY <1>2
  <2>q. QED
    BY <2>1, <1>3 DEF Place
<1>q. QED
  BY <1>2, <1>4

LEMMA AlongIsNat ==
    ASSUME NEW a \in Int \X Int, NEW b \in Int \X Int
    PROVE  Along(a, b) \in Nat
BY DEF Along, Size

\* The distances of the stops from the first one, which grow with the order.
Distances(d) ==
    /\ d \in [0..(Len(Places) - 1) -> Nat]
    /\ \A k \in 1..(Len(Places) - 1) : d[k] = d[k - 1] + Along(Place(k - 1), Place(k))
    /\ \A k \in 0..(Len(Places) - 1) : cumulative(k) = d[k]
    /\ \A j, k \in 0..(Len(Places) - 1) : j <= k => d[j] <= d[k]

LEMMA CumulativeIs ==
    ASSUME NEW n \in 0..(Len(Places) - 1), NEW d \in [0..(Len(Places) - 1) -> Nat], d[0] = 0,
           \A k \in 1..(Len(Places) - 1) : d[k] = d[k - 1] + Along(Place(k - 1), Place(k))
    PROVE  cumulative(n) = d[n]
<1> DEFINE step(f) == [k \in 0..n |-> IF k = 0 THEN 0 ELSE f[k - 1] + Along(Place(k - 1), Place(k))]
           upTo == CHOOSE f : f = step(f)
           g == [k \in 0..n |-> d[k]]
<1>0. Len(Places) \in Nat /\ n \in Nat
  BY PlacesAreInts
<1>1. g = step(g)
  <2>1. ASSUME NEW k \in 0..n PROVE g[k] = step(g)[k]
    <3>1. CASE k = 0
      BY <3>1
    <3>2. CASE k # 0
      <4>1. k - 1 \in 0..n /\ k \in 1..(Len(Places) - 1)
        BY <1>0, <3>2
      <4>2. d[k] = d[k - 1] + Along(Place(k - 1), Place(k))
        BY <4>1
      <4>q. QED
        BY <4>1, <4>2, <3>2
    <3>q. QED
      BY <3>1, <3>2
  <2>q. QED
    BY <2>1
<1>2. upTo = step(upTo)
  <2> HIDE DEF g, step
  <2>q. QED
    BY <1>1
<1>3. cumulative(n) = upTo[n]
  BY DEF cumulative
<1>a. \A k \in 0..n : upTo[k] = IF k = 0 THEN 0 ELSE upTo[k - 1] + Along(Place(k - 1), Place(k))
  BY <1>2
<1> HIDE DEF upTo, g, step
<1> DEFINE N == {k \in 0..n : upTo[k] = d[k]}
<1>4. 0 \in N
  BY <1>0, <1>a
<1>5. ASSUME NEW k \in 1..n, k - 1 \in N PROVE k \in N
  <2>1. upTo[k] = upTo[k - 1] + Along(Place(k - 1), Place(k))
    BY <1>0, <1>a
  <2>2. k \in 1..(Len(Places) - 1)
    BY <1>0
  <2>q. QED
    BY <1>5, <2>1, <2>2
<1> HIDE DEF N
<1>6. \A k \in 0..n : k \in N
  <2>1. 0 \in Int /\ n \in Int /\ 0 + 1 = 1
    BY <1>0
  <2>q. QED
    BY <1>4, <1>5, <2>1, Ascends, Zenon
<1>q. QED
  BY <1>0, <1>3, <1>6 DEF N

\* The sums of a sequence of lengths.
LEMMA SumsExist ==
    ASSUME NEW n \in Nat, NEW length \in [1..n -> Nat]
    PROVE  \E d \in [0..n -> Nat] : d[0] = 0 /\ \A k \in 1..n : d[k] = d[k - 1] + length[k]
<1> DEFINE step == [p \in (1..n) \X Nat |-> p[2] + length[p[1]]]
<1>1. Steps(Nat, n, 0, step)
  BY DEF Steps
<1>2. \A k \in 1..n, x \in Nat : step[<<k, x>>] = x + length[k]
  OBVIOUS
<1> HIDE DEF step
<1>3. PICK d \in [0..n -> Nat] : d[0] = 0 /\ \A k \in 1..n : d[k] = step[<<k, d[k - 1]>>]
  <2>1. PICK d : Follows(d, Nat, n, 0, step)
    BY <1>1, Recursion
  <2>q. QED
    BY <2>1 DEF Follows
<1>4. ASSUME NEW k \in 1..n PROVE d[k] = d[k - 1] + length[k]
  <2>1. k - 1 \in 0..n
    OBVIOUS
  <2>2. d[k - 1] \in Nat
    BY <2>1
  <2>q. QED
    BY <1>2, <1>3, <2>2
<1>q. QED
  BY <1>3, <1>4

LEMMA SumsGrow ==
    ASSUME NEW n \in Nat, NEW length \in [1..n -> Nat], NEW d \in [0..n -> Nat],
           \A k \in 1..n : d[k] = d[k - 1] + length[k]
    PROVE  \A j, k \in 0..n : j <= k => d[j] <= d[k]
<1>1. ASSUME NEW j \in 0..n PROVE \A k \in j..n : d[j] <= d[k]
  <2> DEFINE N == {k \in j..n : d[j] <= d[k]}
  <2>1. j \in N
    OBVIOUS
  <2>2. ASSUME NEW k \in (j + 1)..n, k - 1 \in N PROVE k \in N
    <3>1. k \in 1..n /\ k - 1 \in 0..n
      OBVIOUS
    <3>2. d[j] \in Nat /\ d[k - 1] \in Nat /\ d[k] \in Nat /\ length[k] \in Nat
      BY <3>1
    <3>3. d[k] = d[k - 1] + length[k]
      BY <3>1
    <3>q. QED
      BY <2>2, <3>2, <3>3
  <2> HIDE DEF N
  <2>3. \A k \in j..n : k \in N
    <3>1. j \in Int /\ n \in Int
      OBVIOUS
    <3>q. QED
      BY <2>1, <2>2, <3>1, Ascends, Zenon
  <2>q. QED
    BY <2>3 DEF N
<1>q. QED
  BY <1>1

LEMMA DistancesGrow ==
    ASSUME Len(Places) > 0
    PROVE  \E d : Distances(d)
<1> DEFINE length(n) == [k \in 1..n |-> Along(Place(k - 1), Place(k))]
<1>1. PICK n \in Nat : n = Len(Places) - 1
  <2>1. Len(Places) - 1 \in Nat
    BY PlacesAreInts
  <2>q. QED
    BY <2>1
<1>2. \A k \in 0..n : Place(k) \in Int \X Int
  BY <1>1, PlacesAreInts
<1>3. ASSUME NEW k \in 1..n PROVE Along(Place(k - 1), Place(k)) \in Nat
  <2>1. Place(k - 1) \in Int \X Int /\ Place(k) \in Int \X Int
    BY <1>2
  <2>q. QED
    BY <2>1, AlongIsNat
<1>4. length(n) \in [1..n -> Nat] /\ \A k \in 1..n : length(n)[k] = Along(Place(k - 1), Place(k))
  BY <1>3
<1> HIDE DEF length
<1>5. PICK d \in [0..n -> Nat] : d[0] = 0 /\ \A k \in 1..n : d[k] = d[k - 1] + length(n)[k]
  BY <1>4, SumsExist
<1>6. \A k \in 1..n : d[k] = d[k - 1] + Along(Place(k - 1), Place(k))
  BY <1>4, <1>5
<1>7. \A k \in 0..n : cumulative(k) = d[k]
  BY <1>1, <1>5, <1>6, CumulativeIs
<1>8. \A j, k \in 0..n : j <= k => d[j] <= d[k]
  BY <1>4, <1>5, SumsGrow
<1>q. QED
  BY <1>1, <1>6, <1>7, <1>8 DEF Distances

\* The nearest point of a street between two places is between them.
LEMMA NearestIsOnTheWay ==
    ASSUME NEW a \in Int \X Int, NEW b \in Int \X Int, NEW target \in Int \X Int
    PROVE  /\ closestFraction(a, b, target) \in Int \X Int
           /\ Along(a, closestFraction(a, b, target)) <= Along(a, b)
<1>1. \A n, x, y \in Int : Clamp(n, x, y) \in Int /\ Size(x - Clamp(n, x, y)) <= Size(x - y)
  BY DEF Clamp, Size
<1> DEFINE c == <<Clamp(target[1], a[1], b[1]), Clamp(target[2], a[2], b[2])>>
<1>2. /\ Size(a[1] - c[1]) <= Size(a[1] - b[1]) /\ Size(a[2] - c[2]) <= Size(a[2] - b[2])
      /\ c \in Int \X Int
  BY <1>1
<1>3. \A x \in Int : Size(x) \in Nat
  BY DEF Size
<1>4. /\ Size(a[1] - c[1]) \in Nat /\ Size(a[1] - b[1]) \in Nat
      /\ Size(a[2] - c[2]) \in Nat /\ Size(a[2] - b[2]) \in Nat
  BY <1>2, <1>3
<1>5. Along(a, c) <= Along(a, b)
  BY <1>2, <1>4 DEF Along
<1>q. QED
  BY <1>2, <1>5 DEF closestFraction

LEMMA SquaredIsNat ==
    ASSUME NEW a \in Int \X Int, NEW b \in Int \X Int
    PROVE  Squared(a, b) \in Nat
<1>1. \A x \in Int : x * x \in Int /\ x * x >= 0
  OBVIOUS
<1>2. a[1] - b[1] \in Int /\ a[2] - b[2] \in Int
  OBVIOUS
<1> DEFINE x == a[1] - b[1]
           y == a[2] - b[2]
<1>3. x * x \in Int /\ x * x >= 0 /\ y * y \in Int /\ y * y >= 0
  BY <1>1, <1>2
<1>4. Squared(a, b) = x * x + y * y
  BY DEF Squared
<1> HIDE DEF x, y
<1>5. x * x + y * y \in Nat
  BY <1>3
<1>q. QED
  BY <1>4, <1>5

\* Among numbers with a measure, the first of those that measure least.
LEMMA FirstOfTheLeast ==
    ASSUME NEW a \in Int, NEW n \in Int, a <= n, NEW off \in [a..n -> Nat]
    PROVE  \E k \in a..n : \A m \in a..n : off[k] < off[m] \/ (off[k] = off[m] /\ k <= m)
<1> DEFINE offs == {off[k] : k \in a..n}
<1>1. PICK least \in offs : \A o \in offs : least <= o
  <2>1. offs \subseteq Nat /\ off[a] \in offs
    OBVIOUS
  <2> HIDE DEF offs
  <2>q. QED
    BY <2>1, LeastNumber
<1> DEFINE places == {p \in Nat : a + p <= n /\ off[a + p] = least}
<1>2. PICK p \in places : \A q \in places : p <= q
  <2>1. PICK k \in a..n : off[k] = least
    BY <1>1
  <2>2. k - a \in Nat /\ a + (k - a) = k
    OBVIOUS
  <2>3. k - a \in places
    BY <2>1, <2>2
  <2>4. places \subseteq Nat
    OBVIOUS
  <2> HIDE DEF places
  <2>q. QED
    BY <2>3, <2>4, LeastNumber
<1>3. a + p \in a..n /\ off[a + p] = least
  BY <1>2
<1>4. ASSUME NEW m \in a..n PROVE off[a + p] < off[m] \/ (off[a + p] = off[m] /\ a + p <= m)
  <2>1. off[m] \in Nat /\ least \in Nat /\ least <= off[m]
    BY <1>1
  <2>2. CASE off[m] = least
    <3>1. m - a \in Nat /\ a + (m - a) = m /\ m <= n
      OBVIOUS
    <3>2. m - a \in places
      BY <2>2, <3>1
    <3>3. p <= m - a /\ p \in Nat
      BY <1>2, <3>2
    <3>4. a + p <= m
      BY <3>3
    <3>q. QED
      BY <1>3, <2>2, <3>4
  <2>3. CASE off[m] # least
    BY <1>3, <2>1, <2>3
  <2>q. QED
    BY <2>2, <2>3
<1>q. QED
  BY <1>3, <1>4

\* A new stop is projected onto the streets between the stops around it.
LEMMA ProjectionIsBetween ==
    ASSUME NEW d, Distances(d), NEW lower \in 0..(Len(Places) - 1), NEW upper \in 0..(Len(Places) - 1),
           lower <= upper, NEW target \in Int \X Int
    PROVE  /\ projectOntoBaseline(lower, upper, target) \in Nat
           /\ d[lower] <= projectOntoBaseline(lower, upper, target)
           /\ projectOntoBaseline(lower, upper, target) <= d[upper]
<1>0. /\ Len(Places) \in Nat /\ \A k \in 0..(Len(Places) - 1) : Place(k) \in Int \X Int
      /\ d[lower] \in Nat /\ d[upper] \in Nat
  BY PlacesAreInts DEF Distances
<1>1. CASE lower >= upper
  <2>1. projectOntoBaseline(lower, upper, target) = cumulative(lower) /\ lower = upper
    BY <1>0, <1>1 DEF projectOntoBaseline
  <2>q. QED
    BY <1>0, <2>1 DEF Distances
<1>2. CASE lower < upper
  <2> DEFINE Nearest(k) == closestFraction(Place(k), Place(k + 1), target)
             Off(k) == Squared(Nearest(k), target)
             Is(k) == k \in lower..(upper - 1) /\ \A m \in lower..(upper - 1) : Off(k) < Off(m) \/ (Off(k) = Off(m) /\ k <= m)
             best == CHOOSE k \in lower..(upper - 1) :
                        \A m \in lower..(upper - 1) : Off(k) < Off(m) \/ (Off(k) = Off(m) /\ k <= m)
  <2>1. projectOntoBaseline(lower, upper, target) = cumulative(best) + Along(Place(best), Nearest(best))
    BY <1>0, <1>2 DEF projectOntoBaseline
  <2>2. ASSUME NEW k \in lower..(upper - 1)
        PROVE  /\ Nearest(k) \in Int \X Int
               /\ Along(Place(k), Nearest(k)) <= Along(Place(k), Place(k + 1))
               /\ Along(Place(k), Nearest(k)) \in Nat
               /\ Off(k) \in Nat
    <3>1. Place(k) \in Int \X Int /\ Place(k + 1) \in Int \X Int
      <4>1. \A n \in Nat : \A a, b \in 0..(n - 1) : \A i \in a..(b - 1) : i \in 0..(n - 1) /\ i + 1 \in 0..(n - 1)
        OBVIOUS
      <4>2. k \in 0..(Len(Places) - 1) /\ k + 1 \in 0..(Len(Places) - 1)
        BY <1>0, <4>1, Zenon
      <4>q. QED
        BY <4>2, <1>0, Zenon
    <3>2. /\ closestFraction(Place(k), Place(k + 1), target) \in Int \X Int
          /\ Along(Place(k), closestFraction(Place(k), Place(k + 1), target)) <= Along(Place(k), Place(k + 1))
      BY <3>1, NearestIsOnTheWay
    <3>q. QED
      BY <3>1, <3>2, AlongIsNat, SquaredIsNat
  <2>3. \E k : Is(k)
    <3> DEFINE off == [k \in lower..(upper - 1) |-> Off(k)]
    <3>1. off \in [lower..(upper - 1) -> Nat] /\ \A k \in lower..(upper - 1) : off[k] = Off(k)
      BY <2>2
    <3>2. lower \in Int /\ upper - 1 \in Int /\ lower <= upper - 1
      BY <1>0, <1>2
    <3> HIDE DEF off, Off
    <3>3. \E k \in lower..(upper - 1) : \A m \in lower..(upper - 1) : off[k] < off[m] \/ (off[k] = off[m] /\ k <= m)
      BY <3>1, <3>2, FirstOfTheLeast
    <3>q. QED
      BY <3>1, <3>3
  <2>4. best \in lower..(upper - 1)
    <3> HIDE DEF Off
    <3>q. QED
      BY <2>3
  <2> HIDE DEF best
  <2>5. /\ Along(Place(best), Nearest(best)) \in Nat
        /\ Along(Place(best), Nearest(best)) <= Along(Place(best), Place(best + 1))
    BY <2>2, <2>4
  <2>6. /\ best \in 0..(Len(Places) - 1) /\ best + 1 \in 1..(Len(Places) - 1)
        /\ best + 1 \in 0..(Len(Places) - 1) /\ (best + 1) - 1 = best /\ lower <= best /\ best + 1 <= upper
    <3>1. \A n \in Nat : \A a, b \in 0..(n - 1) : \A k \in a..(b - 1) :
             /\ k \in 0..(n - 1) /\ k + 1 \in 1..(n - 1)
             /\ k + 1 \in 0..(n - 1) /\ (k + 1) - 1 = k /\ a <= k /\ k + 1 <= b
      OBVIOUS
    <3>q. QED
      BY <1>0, <2>4, <3>1, Zenon
  <2>7. d[best + 1] = d[(best + 1) - 1] + Along(Place((best + 1) - 1), Place(best + 1))
    BY <2>6 DEF Distances
  <2>8. d[best + 1] = d[best] + Along(Place(best), Place(best + 1))
    BY <2>6, <2>7
  <2>9. cumulative(best) = d[best] /\ d[lower] <= d[best] /\ d[best + 1] <= d[upper] /\ d[best] \in Nat /\ d[best + 1] \in Nat
    BY <2>6 DEF Distances
  <2>10. Along(Place(best), Place(best + 1)) \in Nat
    BY <1>0, <2>6, AlongIsNat
  <2> DEFINE x == Along(Place(best), Nearest(best))
             y == Along(Place(best), Place(best + 1))
  <2>11. x \in Nat /\ y \in Nat /\ x <= y
    BY <2>5, <2>10
  <2>12. projectOntoBaseline(lower, upper, target) = d[best] + x /\ d[best + 1] = d[best] + y
    BY <2>1, <2>8, <2>9
  <2> HIDE DEF x, y
  <2>13. /\ d[lower] \in Nat /\ d[upper] \in Nat /\ d[best] \in Nat /\ d[best + 1] \in Nat
         /\ d[lower] <= d[best] /\ d[best + 1] <= d[upper]
    BY <1>0, <2>9
  <2>a. \A p, q, u \in Nat : q + u \in Nat /\ (p <= q => p <= q + u)
    OBVIOUS
  <2>b. \A q, u, v \in Nat : u <= v => q + u <= q + v
    OBVIOUS
  <2>14. d[best] + x \in Nat /\ d[lower] <= d[best] + x /\ d[best] + x <= d[best] + y
    BY <2>11, <2>13, <2>a, <2>b, Zenon
  <2>c. \A p, q, u \in Nat : p <= q /\ q <= u => p <= u
    OBVIOUS
  <2>15. d[best] + x <= d[upper]
    <3>1. d[best] + x <= d[best + 1]
      BY <2>12, <2>14, Zenon
    <3>q. QED
      BY <2>13, <2>14, <2>c, <3>1, Zenon
  <2>q. QED
    BY <2>12, <2>14, <2>15, Zenon
<1>q. QED
  BY <1>0, <1>1, <1>2

-----------------------------------------------------------------------------
(* Where the stops of a variant are, for the fares.                        *)

VariantStops(n) == [order: (0..(n - 1)) \cup {NewStop}, place: Int \X Int]

ValidVariant(n, proposed) ==
    n \in 2..Len(Places) /\ proposed \in Seq(VariantStops(n)) /\ validateDetourStops(proposed)

LEMMA VariantTyped ==
    ASSUME NEW n, NEW proposed, ValidVariant(n, proposed)
    PROVE  /\ n \in Nat /\ n >= 2 /\ Len(Places) \in Nat /\ n <= Len(Places)
           /\ Len(proposed) \in Nat /\ DOMAIN proposed = 1..Len(proposed)
           /\ \A i \in DOMAIN proposed : proposed[i].place \in Int \X Int
           /\ \A i \in DOMAIN proposed : IsRetained(proposed[i]) => proposed[i].order \in 0..(n - 1)
           /\ \A i, j \in DOMAIN proposed :
                i <= j /\ IsRetained(proposed[i]) /\ IsRetained(proposed[j]) => proposed[i].order <= proposed[j].order
<1>1. n \in Nat /\ n >= 2 /\ Len(Places) \in Nat /\ n <= Len(Places)
  BY PlacesAreInts DEF ValidVariant
<1>2. proposed \in Seq(VariantStops(n))
  BY DEF ValidVariant
<1>3. Len(proposed) \in Nat /\ DOMAIN proposed = 1..Len(proposed) /\ \A i \in DOMAIN proposed : proposed[i] \in VariantStops(n)
  BY <1>2
<1>4. \A i \in DOMAIN proposed : proposed[i].place \in Int \X Int /\ proposed[i].order \in (0..(n - 1)) \cup {NewStop}
  BY <1>3 DEF VariantStops
<1>5. \A i \in DOMAIN proposed : IsRetained(proposed[i]) => proposed[i].order \in 0..(n - 1)
  BY <1>4 DEF IsRetained
<1>6. ASSUME NEW i \in DOMAIN proposed, NEW j \in DOMAIN proposed, i <= j,
             IsRetained(proposed[i]), IsRetained(proposed[j])
      PROVE  proposed[i].order <= proposed[j].order
  <2>1. proposed[i].order \in Int /\ proposed[j].order \in Int
    BY <1>1, <1>5, <1>6
  <2>2. CASE i = j
    BY <2>1, <2>2
  <2>3. CASE i < j
    <3>1. proposed[i].order < proposed[j].order
      BY <1>6, <2>3 DEF ValidVariant, validateDetourStops
    <3>q. QED
      BY <2>1, <3>1
  <2>q. QED
    BY <1>3, <1>6, <2>2, <2>3
<1>q. QED
  BY <1>1, <1>3, <1>4, <1>5, <1>6

\* A new stop is projected between the retained ones around it, which are in order.
LEMMA SurroundingsInOrder ==
    ASSUME NEW n, NEW proposed, ValidVariant(n, proposed), NEW i \in DOMAIN proposed
    PROVE  \E lower, upper \in 0..(n - 1) :
               /\ surroundings(n, proposed, i) = <<lower, upper>>
               /\ lower <= upper
               /\ \A j \in DOMAIN proposed : j > i /\ IsRetained(proposed[j]) => upper <= proposed[j].order
<1> DEFINE before == RetainedBefore(proposed, i)
           after == RetainedAfter(proposed, i)
           last == CHOOSE j \in before : \A k \in before : k <= j
           first == CHOOSE j \in after : \A k \in after : j <= k
           lower == IF before = {} THEN 0 ELSE proposed[last].order
           upper == IF after = {} THEN n - 1 ELSE proposed[first].order
<1>1. /\ n \in Nat /\ n >= 2 /\ Len(proposed) \in Nat /\ DOMAIN proposed = 1..Len(proposed)
      /\ \A k \in DOMAIN proposed : IsRetained(proposed[k]) => proposed[k].order \in 0..(n - 1)
      /\ \A k, m \in DOMAIN proposed :
            k <= m /\ IsRetained(proposed[k]) /\ IsRetained(proposed[m]) => proposed[k].order <= proposed[m].order
  BY VariantTyped
<1>2. surroundings(n, proposed, i) = <<lower, upper>>
  BY DEF surroundings
<1>3. before \subseteq Nat /\ after \subseteq Nat
  BY <1>1 DEF RetainedBefore, RetainedAfter
<1>4. /\ \A k \in before : k \in DOMAIN proposed /\ k < i /\ IsRetained(proposed[k])
      /\ \A k \in after : k \in DOMAIN proposed /\ i < k /\ IsRetained(proposed[k])
      /\ \A k \in DOMAIN proposed : k > i /\ IsRetained(proposed[k]) => k \in after
  BY <1>1 DEF RetainedBefore, RetainedAfter
<1> HIDE DEF before, after
<1>5. before # {} => last \in before
  <2> SUFFICES ASSUME before # {} PROVE \E j \in before : \A k \in before : k <= j
    OBVIOUS
  <2> DEFINE back == {i - k : k \in before}
  <2>1. back \subseteq Nat /\ back # {}
    BY <1>1, <1>3, <1>4
  <2>2. PICK b \in back : \A c \in back : b <= c
    <3> HIDE DEF back
    <3>q. QED
      BY <2>1, LeastNumber
  <2>3. PICK j \in before : b = i - j
    BY <2>2
  <2>4. \A k \in before : i - j <= i - k
    BY <2>2, <2>3
  <2>q. QED
    BY <1>1, <1>3, <2>3, <2>4
<1>6. after # {} => first \in after /\ \A k \in after : first <= k
  <2> SUFFICES ASSUME after # {} PROVE \E j \in after : \A k \in after : j <= k
    OBVIOUS
  <2>q. QED
    BY <1>3, LeastNumber
<1> HIDE DEF last, first
<1>7. lower \in 0..(n - 1) /\ upper \in 0..(n - 1)
  BY <1>1, <1>4, <1>5, <1>6
<1>8. lower <= upper
  <2>1. CASE before = {} \/ after = {}
    BY <1>1, <1>7, <2>1
  <2>2. CASE before # {} /\ after # {}
    <3>1. last \in DOMAIN proposed /\ first \in DOMAIN proposed /\ last <= first
      BY <1>1, <1>4, <1>5, <1>6, <2>2
    <3>q. QED
      BY <1>1, <1>4, <1>5, <1>6, <2>2, <3>1
  <2>q. QED
    BY <2>1, <2>2
<1>9. ASSUME NEW j \in DOMAIN proposed, j > i, IsRetained(proposed[j])
      PROVE  upper <= proposed[j].order
  <2>1. j \in after /\ first \in after /\ first <= j
    BY <1>4, <1>6, <1>9
  <2>q. QED
    BY <1>1, <1>4, <2>1
<1>q. QED
  BY <1>2, <1>7, <1>8, <1>9

\* The positions of the variant's stops.
Positions(n, proposed, position) ==
    \A i \in DOMAIN proposed :
        /\ position[i] \in Nat /\ position[i] <= cumulative(n - 1)
        /\ \A j \in DOMAIN proposed : j >= i /\ IsRetained(proposed[j]) => position[i] <= cumulative(proposed[j].order)
        /\ IsRetained(proposed[i]) => position[i] = cumulative(proposed[i].order)
        /\ i > 1 => position[i - 1] <= position[i]

Projection(n, proposed, i) ==
    projectOntoBaseline(surroundings(n, proposed, i)[1], surroundings(n, proposed, i)[2], proposed[i].place)

LEMMA ProjectionFits ==
    ASSUME NEW n, NEW proposed, ValidVariant(n, proposed), NEW i \in DOMAIN proposed
    PROVE  /\ Projection(n, proposed, i) \in Nat
           /\ Projection(n, proposed, i) <= cumulative(n - 1)
           /\ \A j \in DOMAIN proposed :
                j > i /\ IsRetained(proposed[j]) => Projection(n, proposed, i) <= cumulative(proposed[j].order)
<1>1. /\ n \in Nat /\ n >= 2 /\ Len(Places) \in Nat /\ n <= Len(Places)
      /\ \A j \in DOMAIN proposed : IsRetained(proposed[j]) => proposed[j].order \in 0..(n - 1)
      /\ proposed[i].place \in Int \X Int
  BY VariantTyped
<1>2. PICK lower, upper \in 0..(n - 1) :
         /\ surroundings(n, proposed, i) = <<lower, upper>>
         /\ lower <= upper
         /\ \A j \in DOMAIN proposed : j > i /\ IsRetained(proposed[j]) => upper <= proposed[j].order
  BY SurroundingsInOrder
<1>3. PICK d : Distances(d)
  BY <1>1, DistancesGrow
<1>4. \A k \in 0..(n - 1) : k \in 0..(Len(Places) - 1) /\ cumulative(k) = d[k] /\ d[k] \in Nat
  <2>1. \A k \in 0..(n - 1) : k \in 0..(Len(Places) - 1)
    BY <1>1
  <2>2. \A k \in 0..(Len(Places) - 1) : cumulative(k) = d[k] /\ d[k] \in Nat
    BY <1>3 DEF Distances
  <2>q. QED
    BY <2>1, <2>2, Zenon
<1> DEFINE projected == projectOntoBaseline(lower, upper, proposed[i].place)
<1>5. projected \in Nat /\ projected <= d[upper]
  BY <1>1, <1>2, <1>3, <1>4, ProjectionIsBetween
<1>6. Projection(n, proposed, i) = projected
  BY <1>2 DEF Projection
<1> HIDE DEF projected
<1>7. ASSUME NEW k \in 0..(n - 1), upper <= k PROVE projected <= cumulative(k)
  <2>1. d[upper] <= d[k] /\ d[upper] \in Nat /\ d[k] \in Nat
    BY <1>3, <1>4, <1>7 DEF Distances
  <2>q. QED
    BY <1>4, <1>5, <2>1
<1>8. n - 1 \in 0..(n - 1) /\ upper <= n - 1
  BY <1>1
<1>q. QED
  BY <1>1, <1>2, <1>5, <1>6, <1>7, <1>8

\* The positions are defined, stop by stop.
LEMMA PositionsDefined ==
    ASSUME NEW n, NEW proposed, ValidVariant(n, proposed)
    PROVE  /\ DOMAIN detourFarePositions(n, proposed) = DOMAIN proposed
           /\ \A i \in DOMAIN proposed :
                detourFarePositions(n, proposed)[i] =
                    IF IsRetained(proposed[i]) THEN cumulative(proposed[i].order)
                    ELSE IF i > 1 /\ Projection(n, proposed, i) < detourFarePositions(n, proposed)[i - 1]
                         THEN detourFarePositions(n, proposed)[i - 1] ELSE Projection(n, proposed, i)
<1> DEFINE size == Len(proposed)
           at(i, before) ==
               IF IsRetained(proposed[i]) THEN cumulative(proposed[i].order)
               ELSE IF i > 1 /\ Projection(n, proposed, i) < before THEN before ELSE Projection(n, proposed, i)
           equation(f) == [i \in DOMAIN proposed |-> at(i, f[i - 1])]
           position == CHOOSE f : f = equation(f)
<1>1. size \in Nat /\ DOMAIN proposed = 1..size
  BY VariantTyped
<1>2. detourFarePositions(n, proposed) = position
  BY DEF detourFarePositions, Projection
<1>3. \E f : f = equation(f)
  <2> DEFINE step == [p \in (1..size) \X Nat |-> at(p[1], p[2])]
  <2>1. \A i \in 1..size, x \in Nat : at(i, x) \in Nat
    <3>1. ASSUME NEW i \in 1..size, NEW x \in Nat PROVE at(i, x) \in Nat
      <4>1. Projection(n, proposed, i) \in Nat
        BY <1>1, ProjectionFits
      <4>2. IsRetained(proposed[i]) => cumulative(proposed[i].order) \in Nat
        <5>1. PICK d : Distances(d)
          BY VariantTyped, DistancesGrow
        <5>2. IsRetained(proposed[i]) => proposed[i].order \in 0..(Len(Places) - 1)
          BY <1>1, VariantTyped
        <5>q. QED
          BY <5>1, <5>2 DEF Distances
      <4>q. QED
        BY <4>1, <4>2
    <3>q. QED
      BY <3>1
  <2> HIDE DEF at, size
  <2>2. step \in [(1..size) \X Nat -> Nat] /\ \A i \in 1..size, x \in Nat : step[<<i, x>>] = at(i, x)
    BY <2>1
  <2>3. Steps(Nat, size, 0, step)
    BY <1>1, <2>2 DEF Steps
  <2> HIDE DEF step
  <2>4. PICK f : Follows(f, Nat, size, 0, step)
    BY <2>3, Recursion
  <2>5. \A i \in 1..size : i - 1 \in 0..size /\ f[i - 1] \in Nat /\ f[i] = at(i, f[i - 1])
    <3>1. ASSUME NEW i \in 1..size PROVE i - 1 \in 0..size /\ f[i - 1] \in Nat /\ f[i] = at(i, f[i - 1])
      <4>1. i - 1 \in 0..size
        BY <1>1
      <4>2. f[i - 1] \in Nat /\ f[i] = step[<<i, f[i - 1]>>]
        BY <2>4, <4>1 DEF Follows
      <4>q. QED
        BY <2>2, <4>1, <4>2
    <3>q. QED
      BY <3>1
  <2> DEFINE g == [i \in DOMAIN proposed |-> f[i]]
  <2>6. ASSUME NEW i \in DOMAIN proposed PROVE g[i] = at(i, g[i - 1])
    <3>1. CASE i = 1
      <4>1. at(1, f[0]) = at(1, g[0])
        BY DEF at
      <4>q. QED
        BY <1>1, <2>5, <3>1, <4>1
    <3>2. CASE i # 1
      <4>1. i - 1 \in DOMAIN proposed
        BY <1>1, <3>2
      <4>q. QED
        BY <1>1, <2>5, <4>1
    <3>q. QED
      BY <3>1, <3>2
  <2>7. g = equation(g)
    BY <2>6
  <2> HIDE DEF g, equation
  <2>q. QED
    BY <2>7
<1>4. position = equation(position)
  <2> HIDE DEF equation
  <2>q. QED
    BY <1>3
<1> HIDE DEF position, at
<1>5. DOMAIN position = DOMAIN proposed /\ \A i \in DOMAIN proposed : position[i] = at(i, position[i - 1])
  BY <1>4
<1>q. QED
  BY <1>2, <1>5 DEF at

LEMMA PositionsGrow ==
    ASSUME NEW n, NEW proposed, ValidVariant(n, proposed)
    PROVE  Positions(n, proposed, detourFarePositions(n, proposed))
<1> DEFINE position == detourFarePositions(n, proposed)
           Fine(i) ==
               /\ position[i] \in Nat /\ position[i] <= cumulative(n - 1)
               /\ \A j \in DOMAIN proposed :
                    j >= i /\ IsRetained(proposed[j]) => position[i] <= cumulative(proposed[j].order)
               /\ IsRetained(proposed[i]) => position[i] = cumulative(proposed[i].order)
               /\ i > 1 => position[i - 1] <= position[i]
           N == {i \in DOMAIN proposed : Fine(i)}
<1>1. /\ Len(proposed) \in Nat /\ DOMAIN proposed = 1..Len(proposed)
      /\ \A i \in DOMAIN proposed : IsRetained(proposed[i]) =>
            /\ cumulative(proposed[i].order) \in Nat /\ cumulative(proposed[i].order) <= cumulative(n - 1)
            /\ \A j \in DOMAIN proposed :
                i <= j /\ IsRetained(proposed[j]) => cumulative(proposed[i].order) <= cumulative(proposed[j].order)
      /\ cumulative(n - 1) \in Nat
  <2>1. /\ n \in Nat /\ n >= 2 /\ Len(Places) \in Nat /\ n <= Len(Places)
        /\ Len(proposed) \in Nat /\ DOMAIN proposed = 1..Len(proposed)
        /\ \A i \in DOMAIN proposed : IsRetained(proposed[i]) => proposed[i].order \in 0..(n - 1)
        /\ \A i, j \in DOMAIN proposed :
                i <= j /\ IsRetained(proposed[i]) /\ IsRetained(proposed[j]) => proposed[i].order <= proposed[j].order
    BY VariantTyped
  <2>2. PICK d : Distances(d)
    BY <2>1, DistancesGrow
  <2>3. /\ \A k \in 0..(Len(Places) - 1) : cumulative(k) \in Nat
        /\ \A j, k \in 0..(Len(Places) - 1) : j <= k => cumulative(j) <= cumulative(k)
    BY <2>2 DEF Distances
  <2>4. n - 1 \in 0..(Len(Places) - 1) /\ \A k \in 0..(n - 1) : k \in 0..(Len(Places) - 1) /\ k <= n - 1
    BY <2>1
  <2>q. QED
    BY <2>1, <2>3, <2>4, Zenon
<1>2. \A i \in DOMAIN proposed :
        position[i] = IF IsRetained(proposed[i]) THEN cumulative(proposed[i].order)
                      ELSE IF i > 1 /\ Projection(n, proposed, i) < position[i - 1]
                           THEN position[i - 1] ELSE Projection(n, proposed, i)
  BY PositionsDefined
<1> HIDE DEF position
<1>3. ASSUME NEW i \in DOMAIN proposed, i > 1 => i - 1 \in N
      PROVE  i \in N
  <2>1. i > 1 =>
            /\ i - 1 \in DOMAIN proposed
            /\ position[i - 1] \in Nat /\ position[i - 1] <= cumulative(n - 1)
            /\ \A j \in DOMAIN proposed :
                j >= i /\ IsRetained(proposed[j]) => position[i - 1] <= cumulative(proposed[j].order)
    BY <1>1, <1>3
  <2>2. CASE IsRetained(proposed[i])
    <3>1. position[i] = cumulative(proposed[i].order) /\ position[i] \in Nat /\ position[i] <= cumulative(n - 1)
      BY <1>1, <1>2, <2>2
    <3>2. i > 1 => position[i - 1] <= position[i]
      BY <1>1, <2>1, <2>2, <3>1
    <3>3. \A j \in DOMAIN proposed : j >= i /\ IsRetained(proposed[j]) => position[i] <= cumulative(proposed[j].order)
      BY <1>1, <2>2, <3>1
    <3>q. QED
      BY <3>1, <3>2, <3>3
  <2>3. CASE ~IsRetained(proposed[i])
    <3>1. /\ Projection(n, proposed, i) \in Nat
          /\ Projection(n, proposed, i) <= cumulative(n - 1)
          /\ \A j \in DOMAIN proposed :
                j > i /\ IsRetained(proposed[j]) => Projection(n, proposed, i) <= cumulative(proposed[j].order)
      BY ProjectionFits
    <3>2. \A j \in DOMAIN proposed : j >= i /\ IsRetained(proposed[j]) => j > i
      BY <1>1, <2>3
    <3>3. position[i] = IF i > 1 /\ Projection(n, proposed, i) < position[i - 1]
                        THEN position[i - 1] ELSE Projection(n, proposed, i)
      BY <1>2, <2>3
    <3>4. CASE i > 1 /\ Projection(n, proposed, i) < position[i - 1]
      BY <2>1, <2>3, <3>3, <3>4
    <3>5. CASE ~(i > 1 /\ Projection(n, proposed, i) < position[i - 1])
      BY <2>1, <2>3, <3>1, <3>2, <3>3, <3>5
    <3>q. QED
      BY <3>4, <3>5
  <2>q. QED
    BY <2>2, <2>3
<1>4. \A i \in DOMAIN proposed : i \in N
  <2>1. CASE DOMAIN proposed = {}
    BY <2>1
  <2>2. CASE DOMAIN proposed # {}
    <3>1. 1 \in N
      BY <1>1, <1>3, <2>2
    <3> HIDE DEF N
    <3>2. ASSUME NEW i \in (1 + 1)..Len(proposed), i - 1 \in N PROVE i \in N
      <4>1. i \in DOMAIN proposed
        BY <1>1
      <4>q. QED
        BY <1>3, <3>2, <4>1
    <3>3. \A i \in 1..Len(proposed) : i \in N
      <4>1. 1 \in Int /\ Len(proposed) \in Int
        BY <1>1
      <4>q. QED
        BY <3>1, <3>2, <4>1, Ascends, Zenon
    <3>q. QED
      BY <1>1, <3>3
  <2>q. QED
    BY <2>1, <2>2
<1>q. QED
  BY <1>4 DEF Positions, position

-----------------------------------------------------------------------------
(* What the passengers of a variant pay.                                   *)

\* The charges between two stops add up to the distance between their positions.
LEMMA ChargesAddUp ==
    ASSUME NEW position, NEW fares, NEW size \in Nat,
           \A i \in 1..size : position[i] \in Int,
           \A i \in 1..(size - 1) : fares[i] = position[i + 1] - position[i],
           NEW i \in 1..size, NEW j \in 1..size, i <= j
    PROVE  pairDistance(fares, i, j) = position[j] - position[i]
<1> DEFINE equation(f) == [k \in i..j |-> IF k = i THEN 0 ELSE f[k - 1] + fares[k - 1]]
           upTo == CHOOSE f : f = equation(f)
           g == [k \in i..j |-> position[k] - position[i]]
<1>1. pairDistance(fares, i, j) = upTo[j]
  BY DEF pairDistance
<1>2. ASSUME NEW k \in i..j, k # i
      PROVE  k - 1 \in i..j /\ fares[k - 1] = position[k] - position[k - 1] /\ position[k] \in Int /\ position[k - 1] \in Int
  <2>1. k - 1 \in i..j /\ k - 1 \in 1..(size - 1) /\ (k - 1) + 1 = k /\ k \in 1..size /\ k - 1 \in 1..size
    BY <1>2
  <2>2. fares[k - 1] = position[(k - 1) + 1] - position[k - 1]
    BY <2>1
  <2>q. QED
    BY <2>1, <2>2
<1>3. position[i] \in Int
  OBVIOUS
<1>4. g = equation(g)
  <2>1. ASSUME NEW k \in i..j PROVE g[k] = IF k = i THEN 0 ELSE g[k - 1] + fares[k - 1]
    <3>1. CASE k = i
      BY <1>3, <3>1
    <3>2. CASE k # i
      <4>1. g[k] = position[k] - position[i] /\ g[k - 1] = position[k - 1] - position[i]
        BY <1>2, <3>2
      <4> HIDE DEF g
      <4>q. QED
        BY <1>2, <1>3, <3>2, <4>1
    <3>q. QED
      BY <3>1, <3>2
  <2>q. QED
    BY <2>1
<1>5. upTo = equation(upTo)
  <2> HIDE DEF g, equation
  <2>q. QED
    BY <1>4
<1> HIDE DEF upTo, g
<1>6. \A k \in i..j : upTo[k] = IF k = i THEN 0 ELSE upTo[k - 1] + fares[k - 1]
  BY <1>5
<1> HIDE DEF equation
<1> DEFINE N == {k \in i..j : upTo[k] = position[k] - position[i]}
<1>7. i \in N
  BY <1>3, <1>6
<1>8. ASSUME NEW k \in (i + 1)..j, k - 1 \in N PROVE k \in N
  <2>1. k \in i..j /\ k # i
    OBVIOUS
  <2>2. upTo[k] = upTo[k - 1] + fares[k - 1] /\ upTo[k - 1] = position[k - 1] - position[i]
    BY <1>6, <1>8, <2>1
  <2>q. QED
    BY <1>2, <1>3, <2>1, <2>2
<1> HIDE DEF N
<1>9. j \in N
  <2>1. i \in Int /\ j \in Int /\ j \in i..j
    OBVIOUS
  <2>q. QED
    BY <1>7, <1>8, <2>1, Ascends, Zenon
<1>q. QED
  BY <1>1, <1>9 DEF N

Charged(n, proposed, fares) ==
    \A i, j \in DOMAIN proposed :
        i < j =>
            /\ pairDistance(fares, i, j) >= 0
            /\ IsRetained(proposed[i]) /\ IsRetained(proposed[j]) =>
                    pairDistance(fares, i, j) = cumulative(proposed[j].order) - cumulative(proposed[i].order)
            /\ pairDistance(fares, i, j) <= cumulative(n - 1)

LEMMA ChargesFollow ==
    ASSUME NEW n, NEW proposed, ValidVariant(n, proposed)
    PROVE  Charged(n, proposed, detourFareTravelTime(n, proposed))
<1> DEFINE position == detourFarePositions(n, proposed)
           fares == detourFareTravelTime(n, proposed)
           size == Len(proposed)
<1>1. size \in Nat /\ DOMAIN proposed = 1..size
  BY VariantTyped
<1>2. /\ \A i \in DOMAIN proposed :
            /\ position[i] \in Nat /\ position[i] <= cumulative(n - 1)
            /\ IsRetained(proposed[i]) => position[i] = cumulative(proposed[i].order)
            /\ i > 1 => position[i - 1] <= position[i]
  BY PositionsGrow DEF Positions
<1>3. fares = [i \in 1..(size - 1) |->
                  IF IsRetained(proposed[i]) /\ IsRetained(proposed[i + 1])
                  THEN cumulative(proposed[i + 1].order) - cumulative(proposed[i].order)
                  ELSE position[i + 1] - position[i]]
  BY DEF detourFareTravelTime
<1>c. cumulative(n - 1) \in Nat
  <2>1. PICK d : Distances(d)
    BY VariantTyped, DistancesGrow
  <2>2. n - 1 \in 0..(Len(Places) - 1)
    BY VariantTyped
  <2>q. QED
    BY <2>1, <2>2 DEF Distances
<1> HIDE DEF position, fares, size
<1>4. ASSUME NEW i \in 1..(size - 1) PROVE fares[i] = position[i + 1] - position[i]
  <2>1. i \in DOMAIN proposed /\ i + 1 \in DOMAIN proposed
    BY <1>1
  <2>q. QED
    BY <1>2, <1>3, <2>1
<1>5. \A i \in 1..size : position[i] \in Int
  BY <1>1, <1>2
<1>6. ASSUME NEW i \in 1..size PROVE \A k \in i..size : position[i] <= position[k]
  <2> DEFINE N == {k \in i..size : position[i] <= position[k]}
  <2>1. i \in N
    BY <1>1, <1>5
  <2>2. ASSUME NEW k \in (i + 1)..size, k - 1 \in N PROVE k \in N
    <3>1. k \in DOMAIN proposed /\ k > 1 /\ k \in 1..size /\ k - 1 \in 1..size /\ k \in i..size
      BY <1>1
    <3>q. QED
      BY <1>2, <1>5, <2>2, <3>1
  <2> HIDE DEF N
  <2>3. \A k \in i..size : k \in N
    <3>1. i \in Int /\ size \in Int
      BY <1>1
    <3>q. QED
      BY <2>1, <2>2, <3>1, Ascends, Zenon
  <2>q. QED
    BY <2>3 DEF N
<1>7. ASSUME NEW i \in DOMAIN proposed, NEW j \in DOMAIN proposed, i < j
      PROVE  /\ pairDistance(fares, i, j) >= 0
             /\ IsRetained(proposed[i]) /\ IsRetained(proposed[j]) =>
                    pairDistance(fares, i, j) = cumulative(proposed[j].order) - cumulative(proposed[i].order)
             /\ pairDistance(fares, i, j) <= cumulative(n - 1)
  <2>1. i \in 1..size /\ j \in 1..size /\ i <= j /\ j \in i..size
    BY <1>1, <1>7
  <2>2. pairDistance(fares, i, j) = position[j] - position[i]
    BY <1>1, <1>4, <1>5, <2>1, ChargesAddUp
  <2>3. /\ position[i] \in Nat /\ position[j] \in Nat /\ position[i] <= position[j] /\ position[j] <= cumulative(n - 1)
    BY <1>2, <1>6, <2>1
  <2>q. QED
    BY <1>2, <1>c, <2>2, <2>3
<1>q. QED
  BY <1>7 DEF Charged, fares

-----------------------------------------------------------------------------
(* The stops that a variant keeps.                                         *)

\* What InOrder lists: the numbers of the set up to the bound, each once.
Lists(s, n, some) ==
    /\ s \in Seq((0..n) \cap some)
    /\ \A i, j \in DOMAIN s : i < j => s[i] < s[j]
    /\ \A x \in (0..n) \cap some : \E i \in DOMAIN s : s[i] = x

LEMMA ListsGoesOn ==
    ASSUME NEW n \in Nat, NEW some, NEW s, n # 0 => Lists(s, n - 1, some), n = 0 => s = <<>>
    PROVE  Lists(IF n \in some THEN Append(s, n) ELSE s, n, some)
<1>1. /\ s \in Seq((0..(n - 1)) \cap some)
      /\ \A i, j \in DOMAIN s : i < j => s[i] < s[j]
      /\ \A x \in (0..(n - 1)) \cap some : \E i \in DOMAIN s : s[i] = x
  <2>1. CASE n = 0
    BY <2>1
  <2>2. CASE n # 0
    BY <2>2 DEF Lists
  <2>q. QED
    BY <2>1, <2>2
<1>2. Len(s) \in Nat /\ DOMAIN s = 1..Len(s) /\ \A i \in DOMAIN s : s[i] \in (0..(n - 1)) \cap some
  BY <1>1
<1>3. CASE n \in some
  <2> DEFINE t == Append(s, n)
  <2>1. s \in Seq((0..n) \cap some) /\ n \in (0..n) \cap some
    <3>1. (0..(n - 1)) \cap some \subseteq (0..n) \cap some
      OBVIOUS
    <3>q. QED
      BY <1>1, <1>3, <3>1
  <2>2. /\ t \in Seq((0..n) \cap some) /\ Len(t) = Len(s) + 1 /\ DOMAIN t = 1..(Len(s) + 1)
        /\ t[Len(s) + 1] = n /\ \A i \in 1..Len(s) : t[i] = s[i]
    BY <2>1
  <2> HIDE DEF t
  <2>3. ASSUME NEW i \in DOMAIN t, NEW j \in DOMAIN t, i < j PROVE t[i] < t[j]
    <3>1. i \in DOMAIN s /\ t[i] = s[i] /\ s[i] \in 0..(n - 1)
      BY <1>2, <2>2, <2>3
    <3>2. CASE j = Len(s) + 1
      BY <2>2, <3>1, <3>2
    <3>3. CASE j # Len(s) + 1
      <4>1. j \in DOMAIN s /\ t[j] = s[j]
        BY <1>2, <2>2, <3>3
      <4>q. QED
        BY <1>1, <2>3, <3>1, <4>1
    <3>q. QED
      BY <3>2, <3>3
  <2>4. ASSUME NEW x \in (0..n) \cap some PROVE \E i \in DOMAIN t : t[i] = x
    <3>1. CASE x = n
      <4>1. Len(s) + 1 \in DOMAIN t
        BY <1>2, <2>2
      <4>q. QED
        BY <2>2, <3>1, <4>1
    <3>2. CASE x # n
      <4>1. x \in (0..(n - 1)) \cap some
        BY <3>2
      <4>2. PICK i \in DOMAIN s : s[i] = x
        BY <1>1, <4>1
      <4>q. QED
        BY <1>2, <2>2, <4>2
    <3>q. QED
      BY <3>1, <3>2
  <2>q. QED
    BY <1>3, <2>2, <2>3, <2>4 DEF Lists, t
<1>4. CASE n \notin some
  <2>1. (0..(n - 1)) \cap some = (0..n) \cap some
    BY <1>4
  <2>q. QED
    BY <1>1, <1>4, <2>1 DEF Lists
<1>q. QED
  BY <1>3, <1>4

LEMMA InOrderLists ==
    ASSUME NEW n \in Nat, NEW some
    PROVE  Lists(InOrder(n, some), n, some)
<1> DEFINE next(k, s) == IF k \in some THEN Append(s, k) ELSE s
           equation(f) == [k \in 0..n |-> LET before == IF k = 0 THEN <<>> ELSE f[k - 1]
                                          IN  IF k \in some THEN Append(before, k) ELSE before]
           upTo == CHOOSE f : f = equation(f)
<1>1. InOrder(n, some) = upTo[n]
  BY DEF InOrder
<1>2. \E f : f = equation(f)
  <2> DEFINE first == next(0, <<>>)
             step == [p \in (1..n) \X Seq(Nat) |-> next(p[1], p[2])]
  <2>1. \A k \in 0..n, s \in Seq(Nat) : next(k, s) \in Seq(Nat)
    OBVIOUS
  <2>2. first \in Seq(Nat)
    BY <2>1
  <2> HIDE DEF next
  <2>3. step \in [(1..n) \X Seq(Nat) -> Seq(Nat)] /\ \A k \in 1..n, s \in Seq(Nat) : step[<<k, s>>] = next(k, s)
    BY <2>1
  <2> HIDE DEF step, first
  <2>4. PICK f : Follows(f, Seq(Nat), n, first, step)
    <3>1. Steps(Seq(Nat), n, first, step)
      BY <2>2, <2>3 DEF Steps
    <3>q. QED
      BY <3>1, Recursion
  <2>5. ASSUME NEW k \in 0..n PROVE f[k] = next(k, IF k = 0 THEN <<>> ELSE f[k - 1])
    <3>1. CASE k = 0
      BY <2>4, <3>1 DEF Follows, first
    <3>2. CASE k # 0
      <4>1. k \in 1..n /\ k - 1 \in 0..n
        BY <3>2
      <4>2. f[k - 1] \in Seq(Nat) /\ f[k] = step[<<k, f[k - 1]>>]
        BY <2>4, <4>1 DEF Follows
      <4>q. QED
        BY <2>3, <3>2, <4>1, <4>2
    <3>q. QED
      BY <3>1, <3>2
  <2>6. DOMAIN f = 0..n /\ f = [k \in 0..n |-> f[k]]
    BY <2>4 DEF Follows
  <2>7. f = equation(f)
    BY <2>5, <2>6 DEF next
  <2> HIDE DEF equation
  <2>q. QED
    BY <2>7
<1>3. upTo = equation(upTo)
  <2> HIDE DEF equation
  <2>q. QED
    BY <1>2
<1> HIDE DEF upTo
<1>4. \A k \in 0..n : upTo[k] = LET before == IF k = 0 THEN <<>> ELSE upTo[k - 1]
                                IN  IF k \in some THEN Append(before, k) ELSE before
  BY <1>3
<1> HIDE DEF equation
<1> DEFINE N == {k \in 0..n : Lists(upTo[k], k, some)}
<1>5. ASSUME NEW k \in 0..n, k # 0 => k - 1 \in N PROVE k \in N
  <2> DEFINE s == IF k = 0 THEN <<>> ELSE upTo[k - 1]
  <2>1. (k # 0 => Lists(s, k - 1, some)) /\ (k = 0 => s = <<>>)
    BY <1>5
  <2>2. upTo[k] = IF k \in some THEN Append(s, k) ELSE s
    BY <1>4
  <2> HIDE DEF s
  <2>q. QED
    BY <2>1, <2>2, ListsGoesOn
<1> HIDE DEF N
<1>6. n \in N
  <2>1. 0 \in N
    BY <1>5
  <2>2. ASSUME NEW k \in (0 + 1)..n, k - 1 \in N PROVE k \in N
    <3>1. k \in 0..n
      OBVIOUS
    <3>q. QED
      BY <1>5, <2>2, <3>1
  <2>3. 0 \in Int /\ n \in Int /\ n \in 0..n
    OBVIOUS
  <2>q. QED
    BY <2>1, <2>2, <2>3, Ascends, Zenon
<1>q. QED
  BY <1>1, <1>6 DEF N

LEMMA KeptStopsTyped ==
    ASSUME request.stops \in 2..Len(Places), NEW omitted
    PROVE  keptStops(request, omitted) \in Seq(Stops(request))
<1>1. request.stops - 1 \in Nat
  BY PlacesAreInts
<1>2. Lists(keptStops(request, omitted), request.stops - 1, Stops(request) \ omitted)
  BY <1>1, InOrderLists DEF keptStops
<1>3. (0..(request.stops - 1)) \cap (Stops(request) \ omitted) \subseteq Stops(request)
  BY DEF Stops
<1>q. QED
  BY <1>2, <1>3 DEF Lists

LEMMA AssembledStops ==
    ASSUME request.stops \in 2..Len(Places)
    PROVE  Assemble(request, plans, routing).stops \in Seq(Stops(request))
<1>1. ASSUME NEW error PROVE Refused(error).stops \in Seq(Stops(request))
  BY DEF Refused
<1>2. ASSUME NEW omitted, NEW replacements
      PROVE  reconstructRoute(request, omitted, replacements).stops \in Seq(Stops(request))
  <2>1. \/ reconstructRoute(request, omitted, replacements) \in {Refused(NoDetour), Refused(Internal)}
        \/ reconstructRoute(request, omitted, replacements).stops = keptStops(request, omitted)
    BY DEF reconstructRoute
  <2>q. QED
    BY <1>1, <2>1, KeptStopsTyped
<1>3. \/ \E error : Assemble(request, plans, routing) = Refused(error)
      \/ \E omitted, replacements :
            Assemble(request, plans, routing) = reconstructRoute(request, omitted, replacements)
  BY DEF Assemble
<1>q. QED
  BY <1>1, <1>2, <1>3

-----------------------------------------------------------------------------
(* What a comparison charges, from the request that began it.              *)

FareInv ==
    /\ request \in Requests \cup Variants
    /\ answer.stops \in Seq(Stops(request))
    /\ comparison.state \in {"estimating", "charging"} =>
            ValidVariant(comparison.stops, comparison.proposed) /\ comparison.fares = <<>>
    /\ FaresFollowOriginal

LEMMA RequestTyped ==
    ASSUME request \in Requests \cup Variants
    PROVE  /\ request.stops \in 2..Len(Places)
           /\ request \in Variants => request.proposed \in Seq(VariantStops(request.stops))
BY RequestsAssumption, VariantsAssumption DEF VariantStops

\* A failure, a retry and an answer charge nothing.
LEMMA NothingCharged ==
    ASSUME comparison' = NoComparison
    PROVE  /\ comparison'.state \notin {"estimating", "charging"}
           /\ FaresFollowOriginal'
BY DEF NoComparison, FaresFollowOriginal

LEMMA FailCharges ==
    ASSUME FareInv, NEW error, Fail(error)
    PROVE  FareInv'
<1>1. request' = request /\ comparison' = NoComparison
  BY DEF Fail, given
<1>2. answer'.stops = <<>>
  BY DEF Fail, Retry, Refuse, Unanswered
<1>q. QED
  BY <1>1, <1>2, NothingCharged DEF FareInv

LEMMA EstimateCharges ==
    ASSUME FareInv, ComparisonTyped, CompareStep(over), UNCHANGED <<request, answer>>
    PROVE  FareInv'
<1>1. CASE \E side \in Sides : Estimate(side, over)
  <2>1. /\ comparison.state = "estimating" /\ comparison'.state = comparison.state
        /\ comparison'.stops = comparison.stops /\ comparison'.proposed = comparison.proposed
        /\ comparison'.fares = comparison.fares
    <3>1. PICK side \in Sides : Estimate(side, over)
      BY <1>1
    <3>2. comparison = [state |-> comparison.state, stops |-> comparison.stops,
                        proposed |-> comparison.proposed, sides |-> comparison.sides,
                        failure |-> comparison.failure, fares |-> comparison.fares]
      BY DEF ComparisonTyped
    <3>3. \/ comparison' = [comparison EXCEPT !.sides[side] = IF @ = "demand" THEN "travel_time" ELSE "done"]
          \/ comparison' = [comparison EXCEPT !.sides[side] = "stopped",
                                !.failure = Cause(@, IF over \/ @ # "none" THEN "context" ELSE "internal")]
      BY <3>1 DEF Estimate
    <3>q. QED
      BY <3>1, <3>2, <3>3 DEF Estimate
  <2>q. QED
    BY <2>1 DEF FareInv, FaresFollowOriginal
<1>2. CASE Estimated
  <2>1. /\ comparison.state = "estimating" /\ comparison'.stops = comparison.stops
        /\ comparison'.proposed = comparison.proposed /\ comparison'.fares = comparison.fares
    BY <1>2 DEF Estimated, ComparisonTyped
  <2>q. QED
    BY <2>1 DEF FareInv, FaresFollowOriginal
<1>3. CASE Charge(over)
  <2>1. /\ comparison.state = "charging" /\ comparison'.state = "ended"
        /\ comparison'.stops = comparison.stops /\ comparison'.proposed = comparison.proposed
        /\ comparison'.fares \in {comparison.fares, detourFareTravelTime(comparison.stops, comparison.proposed)}
    BY <1>3 DEF Charge, ComparisonTyped
  <2>2. ValidVariant(comparison.stops, comparison.proposed) /\ comparison.fares = <<>>
    BY <2>1 DEF FareInv
  <2>3. comparison'.fares # <<>> => Charged(comparison'.stops, comparison'.proposed, comparison'.fares)
    BY <2>1, <2>2, ChargesFollow
  <2>4. FaresFollowOriginal'
    BY <2>3 DEF FaresFollowOriginal, Charged
  <2>q. QED
    BY <2>1, <2>4 DEF FareInv
<1>q. QED
  BY <1>1, <1>2, <1>3 DEF CompareStep

\* A comparison begins with a variant that was edited, or that keeps stops of the route.
LEMMA StartCharges ==
    ASSUME FareInv, BeginComparison
    PROVE  FareInv'
<1> DEFINE kept == [i \in DOMAIN answer.stops |-> Retained(answer.stops[i])]
           proposed == IF request \in Variants THEN request.proposed ELSE kept
<1>1. UNCHANGED <<request, answer>> /\ StartComparison(request.stops, proposed)
  BY DEF BeginComparison, given
<1>2. request.stops \in 2..Len(Places) /\ proposed \in Seq(VariantStops(request.stops))
  <2>1. request.stops \in 2..Len(Places)
        /\ (request \in Variants => request.proposed \in Seq(VariantStops(request.stops)))
    BY RequestTyped DEF FareInv
  <2>2. kept \in Seq(VariantStops(request.stops))
    <3>1. answer.stops \in Seq(Stops(request))
      BY DEF FareInv
    <3>2. /\ Len(answer.stops) \in Nat /\ DOMAIN answer.stops = 1..Len(answer.stops)
          /\ \A i \in DOMAIN answer.stops : answer.stops[i] \in Stops(request)
      BY <3>1
    <3>3. \A s \in Stops(request) : Retained(s) \in VariantStops(request.stops)
      <4>1. ASSUME NEW s \in Stops(request) PROVE Retained(s) \in VariantStops(request.stops)
        <5>1. s \in 0..(request.stops - 1) /\ s \in 0..(Len(Places) - 1)
          BY <2>1, PlacesAreInts DEF Stops
        <5>2. Place(s) \in Int \X Int
          BY <5>1, PlacesAreInts
        <5>q. QED
          BY <5>1, <5>2 DEF Retained, VariantStops
      <4>q. QED
        BY <4>1
    <3>4. \A i \in 1..Len(answer.stops) : Retained(answer.stops[i]) \in VariantStops(request.stops)
      BY <3>2, <3>3
    <3>q. QED
      BY <3>2, <3>4
  <2>q. QED
    BY <2>1, <2>2
<1> HIDE DEF proposed
<1>3. CASE validateDetourStops(proposed)
  <2>1. /\ comparison'.state = "estimating" /\ comparison'.stops = request.stops
        /\ comparison'.proposed = proposed /\ comparison'.fares = <<>>
    BY <1>1, <1>3 DEF StartComparison, NoComparison
  <2>2. ValidVariant(comparison'.stops, comparison'.proposed)
    BY <1>2, <1>3, <2>1 DEF ValidVariant
  <2>q. QED
    BY <1>1, <2>1, <2>2 DEF FareInv, FaresFollowOriginal
<1>4. CASE ~validateDetourStops(proposed)
  <2>1. comparison'.state = "ended" /\ comparison'.fares = <<>>
    BY <1>1, <1>4 DEF StartComparison, NoComparison
  <2>q. QED
    BY <1>1, <2>1 DEF FareInv, FaresFollowOriginal
<1>q. QED
  BY <1>3, <1>4

LEMMA FareInit == Init => FareInv
<1> SUFFICES ASSUME Init PROVE FareInv
  OBVIOUS
<1>1. request \in Requests \cup Variants /\ comparison = NoComparison /\ answer.stops = <<>>
  BY DEF Init, Unanswered
<1>q. QED
  BY <1>1 DEF FareInv, NoComparison, FaresFollowOriginal

LEMMA FareStep ==
    ASSUME IInv, FareInv, [Next]_vars
    PROVE  FareInv'
<1>0. ASSUME UNCHANGED <<request, comparison>>, answer'.stops = answer.stops
      PROVE  FareInv'
  BY <1>0 DEF FareInv, FaresFollowOriginal
<1>f. ASSUME NEW error, Fail(error)
      PROVE  FareInv'
  BY <1>f, FailCharges
<1>c. \A next : Continue(next) => UNCHANGED <<request, comparison>>
  BY DEF Continue, given
<1>1. CASE Analyze
  <2>1. CASE \E error : Fail(error)
    BY <1>f, <2>1
  <2>2. CASE ~ \E error : Fail(error)
    <3>1. (\E next : Continue(next)) /\ answer' = answer
      BY <1>1, <2>2 DEF Analyze
    <3>q. QED
      BY <1>0, <1>c, <3>1
  <2>q. QED
    BY <2>1, <2>2
<1>2. CASE Snapshot
  <2>1. CASE \E error : Fail(error)
    BY <1>f, <2>1
  <2>2. CASE ~ \E error : Fail(error)
    <3>1. (\E next : Continue(next)) /\ answer' = answer
      BY <1>2, <2>2 DEF Snapshot
    <3>q. QED
      BY <1>0, <1>c, <3>1
  <2>q. QED
    BY <2>1, <2>2
<1>3. CASE Route
  <2>1. CASE \E error : Fail(error)
    BY <1>f, <2>1
  <2>2. CASE ~ \E error : Fail(error)
    <3>1. (\E next : Continue(next)) /\ answer' = answer
      BY <1>3, <2>2 DEF Route
    <3>q. QED
      BY <1>0, <1>c, <3>1
  <2>q. QED
    BY <2>1, <2>2
<1>4. CASE SelectAndSew
  <2>1. CASE \E error : Fail(error)
    BY <1>f, <2>1
  <2>2. CASE ~ \E error : Fail(error)
    <3>1. UNCHANGED <<request, comparison>> /\ answer'.stops = Assemble(request, plans, routing).stops
      BY <1>4, <1>c, <2>2 DEF SelectAndSew
    <3>2. answer'.stops \in Seq(Stops(request))
      BY <3>1, RequestTyped, AssembledStops DEF FareInv
    <3>q. QED
      BY <3>1, <3>2 DEF FareInv, FaresFollowOriginal
  <2>q. QED
    BY <2>1, <2>2
<1>5. CASE BeginComparison
  BY <1>5, StartCharges
<1>6. CASE Compare
  <2>1. UNCHANGED <<request, answer>> /\ CompareStep(over)
    BY <1>6 DEF Compare, given
  <2>q. QED
    BY <2>1, EstimateCharges DEF IInv
<1>7. CASE Compared
  <2>1. CASE comparison.failure # "none"
    BY <1>7, <1>f, <2>1 DEF Compared
  <2>2. CASE comparison.failure = "none"
    <3>1. (\E next : Continue(next)) /\ answer'.stops = answer.stops
      BY <1>7, <2>2 DEF Compared, IInv, AnswerTyped
    <3>q. QED
      BY <1>0, <1>c, <3>1
  <2>q. QED
    BY <2>1, <2>2
<1>8. CASE EndRequest
  BY <1>0, <1>8 DEF EndRequest, given
<1>9. CASE UNCHANGED vars
  BY <1>0, <1>9 DEF vars
<1>q. QED
  BY <1>1, <1>2, <1>3, <1>4, <1>5, <1>6, <1>7, <1>8, <1>9 DEF Next, Answered

\* No pair of stops of a variant is charged a negative distance or more than the
\* route, and two retained stops pay the original distance between them: the
\* positions grow along the variant, for a new stop is projected between the
\* retained ones around it, and the charges between two stops add up to the
\* distance between their positions.
THEOREM FaresAreOriginal == Spec => []FaresFollowOriginal
<1>1. Init => FareInv
  BY FareInit
<1>2. IInv /\ FareInv /\ [Next]_vars => FareInv'
  BY FareStep
<1>3. FareInv => FaresFollowOriginal
  BY DEF FareInv
<1>q. QED
  BY <1>1, <1>2, <1>3, Invariance, PTL DEF Spec

-----------------------------------------------------------------------------
(* The intervals of a route: apart and in order.                           *)

\* A recursion as a loop is defined by it: a function that satisfies its equation.
LEMMA LoopExists ==
    ASSUME NEW S, NEW n, NEW first, NEW step, Steps(S, n, first, step)
    PROVE  \E f \in [0..n -> S] : f = [k \in 0..n |-> IF k = 0 THEN first ELSE step[<<k, f[k - 1]>>]]
<1>1. PICK f : Follows(f, S, n, first, step)
  BY Recursion
<1>2. f \in [0..n -> S] /\ f[0] = first /\ \A k \in 1..n : f[k] = step[<<k, f[k - 1]>>]
  BY <1>1 DEF Follows
<1>3. n \in Nat
  BY DEF Steps
<1>4. \A k \in 0..n : f[k] = IF k = 0 THEN first ELSE step[<<k, f[k - 1]>>]
  <2>1. TAKE k \in 0..n
  <2>2. k # 0 => k \in 1..n
    BY <1>3
  <2>q. QED
    BY <1>2, <2>2
<1>5. f = [k \in 0..n |-> f[k]]
  BY <1>2
<1>6. f = [k \in 0..n |-> IF k = 0 THEN first ELSE step[<<k, f[k - 1]>>]]
  BY <1>4, <1>5
<1>q. QED
  BY <1>2, <1>6

RoutePiece == [segment: Nat, start: Nat, end: Nat]
Interval == [entry: Nat, exit: Nat]

Begins(piece) == Scalar(piece.segment, piece.start)
Ends(piece) == Scalar(piece.segment, piece.end)

PiecesInOrder(pieces, last) ==
    /\ pieces \in Seq(RoutePiece)
    /\ \A i \in DOMAIN pieces :
        /\ Begins(pieces[i]) < Ends(pieces[i]) /\ Ends(pieces[i]) <= last
        /\ i > 1 => Ends(pieces[i - 1]) <= Begins(pieces[i])

Intervals == Seq(Interval)

IntervalsInOrder(s, last) ==
    /\ s \in Intervals
    /\ \A i \in DOMAIN s : s[i].entry < s[i].exit /\ s[i].exit <= last
    /\ \A i, j \in DOMAIN s : i < j => s[i].exit <= s[j].entry

\* The loop of mergeInsidePieces, after some pieces.
Merge(pieces, k, before) ==
    IF k > 1 /\ contiguousPieces(pieces[k - 1], pieces[k])
    THEN [before EXCEPT ![Len(before)].exit = Ends(pieces[k])]
    ELSE Append(before, [entry |-> Begins(pieces[k]), exit |-> Ends(pieces[k])])

Merged(pieces, last, k, s) ==
    /\ IntervalsInOrder(s, last)
    /\ k = 0 => s = <<>>
    /\ k > 0 => \A i \in DOMAIN s : s[i].exit <= Ends(pieces[k])

LEMMA EndsAreNat ==
    ASSUME NEW pieces, NEW last, PiecesInOrder(pieces, last), NEW k \in DOMAIN pieces
    PROVE  Begins(pieces[k]) \in Nat /\ Ends(pieces[k]) \in Nat
<1>1. pieces \in Seq(RoutePiece)
  BY DEF PiecesInOrder
<1>2. pieces[k] \in RoutePiece
  BY <1>1
<1>q. QED
  BY <1>2 DEF RoutePiece, Begins, Ends, Scalar, Whole

\* Whatever the next piece, what the loop makes of a list of intervals is a list.
LEMMA MergeTyped ==
    ASSUME NEW pieces, NEW last, PiecesInOrder(pieces, last), NEW k \in DOMAIN pieces, NEW s \in Intervals
    PROVE  Merge(pieces, k, s) \in Intervals
<1>1. Begins(pieces[k]) \in Nat /\ Ends(pieces[k]) \in Nat
  BY EndsAreNat
<1>2. ASSUME NEW e \in Nat PROVE [s EXCEPT ![Len(s)].exit = e] \in Intervals
  <2>1. s \in Seq(Interval) /\ Len(s) \in Nat /\ DOMAIN s = 1..Len(s)
    BY DEF Intervals
  <2>2. CASE Len(s) = 0
    <3>1. [s EXCEPT ![Len(s)].exit = e] = s
      BY <2>1, <2>2
    <3>q. QED
      BY <3>1
  <2>3. CASE Len(s) # 0
    <3>1. Len(s) \in 1..Len(s) /\ s[Len(s)] \in Interval
      BY <2>1, <2>3
    <3>2. [s[Len(s)] EXCEPT !.exit = e] \in Interval
      BY <3>1 DEF Interval
    <3>q. QED
      BY <2>1, <3>1, <3>2, ExceptSeq DEF Intervals
  <2>q. QED
    BY <2>2, <2>3
<1>3. \A b, e \in Nat : Append(s, [entry |-> b, exit |-> e]) \in Intervals
  BY DEF Intervals, Interval
<1>q. QED
  BY <1>1, <1>2, <1>3 DEF Merge

LEMMA MergeGoesOn ==
    ASSUME NEW pieces, NEW last \in Nat, PiecesInOrder(pieces, last), NEW k \in DOMAIN pieces,
           NEW s, Merged(pieces, last, k - 1, s)
    PROVE  Merged(pieces, last, k, Merge(pieces, k, s))
<1> DEFINE begin == Begins(pieces[k])
           end == Ends(pieces[k])
<1>0. pieces \in Seq(RoutePiece) /\ DOMAIN pieces = 1..Len(pieces) /\ Len(pieces) \in Nat
  BY DEF PiecesInOrder
<1>1. /\ begin \in Nat /\ end \in Nat /\ begin < end /\ end <= last
      /\ k \in Nat /\ k > 0
  <2>1. begin \in Nat /\ end \in Nat
    BY EndsAreNat
  <2>2. begin < end /\ end <= last
    BY DEF PiecesInOrder
  <2> HIDE DEF begin, end
  <2>q. QED
    BY <1>0, <2>1, <2>2
<1>2. \A i \in DOMAIN s : s[i].exit <= begin
  <2>1. CASE k = 1
    BY <2>1 DEF Merged
  <2>2. CASE k # 1
    <3>1. k > 1 /\ k - 1 \in DOMAIN pieces /\ k - 1 > 0
      BY <1>0, <1>1, <2>2
    <3>2. Ends(pieces[k - 1]) <= begin /\ Ends(pieces[k - 1]) \in Nat
      BY <3>1, EndsAreNat DEF PiecesInOrder
    <3>3. \A i \in DOMAIN s : s[i].exit <= Ends(pieces[k - 1]) /\ s[i].exit \in Nat
      <4>1. s \in Seq(Interval) /\ \A i \in DOMAIN s : s[i].exit <= Ends(pieces[k - 1])
        BY <3>1 DEF Merged, IntervalsInOrder, Intervals
      <4>2. \A i \in DOMAIN s : s[i] \in Interval
        BY <4>1
      <4>q. QED
        BY <4>1, <4>2 DEF Interval
    <3> HIDE DEF begin
    <3>q. QED
      BY <1>1, <3>2, <3>3
  <2>q. QED
    BY <2>1, <2>2
<1>3. /\ s \in Intervals /\ Len(s) \in Nat /\ DOMAIN s = 1..Len(s)
      /\ \A i \in DOMAIN s : /\ s[i] \in Interval
                             /\ s[i].entry < s[i].exit /\ s[i].exit <= last
      /\ \A i, j \in DOMAIN s : i < j => s[i].exit <= s[j].entry
  <2>1. /\ s \in Seq(Interval)
        /\ \A i \in DOMAIN s : s[i].entry < s[i].exit /\ s[i].exit <= last
        /\ \A i, j \in DOMAIN s : i < j => s[i].exit <= s[j].entry
    BY DEF Merged, IntervalsInOrder, Intervals
  <2>2. Len(s) \in Nat /\ DOMAIN s = 1..Len(s) /\ \A i \in DOMAIN s : s[i] \in Interval
    BY <2>1
  <2>q. QED
    BY <2>1, <2>2 DEF Intervals
<1> HIDE DEF begin, end
<1>4. CASE Merge(pieces, k, s) = [s EXCEPT ![Len(s)].exit = end]
  <2> DEFINE t == [s EXCEPT ![Len(s)].exit = end]
  <2>1. t \in Intervals /\ DOMAIN t = DOMAIN s
    <3>1. Merge(pieces, k, s) \in Intervals
      BY <1>3, MergeTyped
    <3>q. QED
      BY <1>4, <3>1
  <2>2. \A i \in DOMAIN s : t[i].entry = s[i].entry /\ t[i].exit = IF i = Len(s) THEN end ELSE s[i].exit
    BY <1>3 DEF Intervals
  <2> HIDE DEF t
  <2>3. \A i \in DOMAIN s : /\ s[i].exit <= t[i].exit /\ t[i].exit <= end /\ t[i].exit \in Nat
                            /\ s[i].entry \in Nat /\ s[i].exit \in Nat
    <3>1. \A i \in DOMAIN s : s[i].entry \in Nat /\ s[i].exit \in Nat
      BY <1>3 DEF Interval
    <3>q. QED
      BY <1>1, <1>2, <2>2, <3>1
  <2>4. \A i \in DOMAIN t : t[i].entry < t[i].exit /\ t[i].exit <= last
    BY <1>1, <1>3, <2>1, <2>2, <2>3
  <2>5. \A i, j \in DOMAIN t : i < j => t[i].exit <= t[j].entry
    BY <1>3, <2>1, <2>2
  <2>q. QED
    BY <1>1, <1>4, <2>1, <2>3, <2>4, <2>5 DEF Merged, IntervalsInOrder, t, end
<1>5. CASE Merge(pieces, k, s) = Append(s, [entry |-> begin, exit |-> end])
  <2> DEFINE t == Append(s, [entry |-> begin, exit |-> end])
  <2>1. /\ t \in Intervals /\ DOMAIN t = 1..(Len(s) + 1)
        /\ \A i \in DOMAIN s : t[i] = s[i]
        /\ t[Len(s) + 1].entry = begin /\ t[Len(s) + 1].exit = end
    BY <1>1, <1>3 DEF Intervals, Interval
  <2> HIDE DEF t
  <2>2. \A i \in DOMAIN t : i = Len(s) + 1 \/ i \in DOMAIN s
    BY <1>3, <2>1
  <2>3. ASSUME NEW i \in DOMAIN t PROVE t[i].entry < t[i].exit /\ t[i].exit <= last /\ t[i].exit <= end
    <3>1. CASE i = Len(s) + 1
      BY <1>1, <2>1, <3>1
    <3>2. CASE i # Len(s) + 1
      <4>1. i \in DOMAIN s /\ t[i] = s[i] /\ s[i] \in Interval
        BY <1>3, <2>1, <2>2, <3>2
      <4>2. s[i].exit \in Nat
        BY <4>1 DEF Interval
      <4>q. QED
        BY <1>1, <1>2, <1>3, <4>1, <4>2
    <3>q. QED
      BY <3>1, <3>2
  <2>4. ASSUME NEW i \in DOMAIN t, NEW j \in DOMAIN t, i < j PROVE t[i].exit <= t[j].entry
    <3>1. i \in DOMAIN s
      BY <1>3, <2>1, <2>2, <2>4
    <3>q. QED
      BY <1>2, <1>3, <2>1, <2>2, <2>4, <3>1
  <2>q. QED
    BY <1>1, <1>5, <2>1, <2>3, <2>4 DEF Merged, IntervalsInOrder, t, end
<1>q. QED
  BY <1>4, <1>5 DEF Merge, begin, end

LEMMA MergedInOrder ==
    ASSUME NEW pieces, NEW last \in Nat, PiecesInOrder(pieces, last)
    PROVE  IntervalsInOrder(mergeInsidePieces(pieces), last)
<1> DEFINE n == Len(pieces)
           equation(f) == [k \in 0..n |-> IF k = 0 THEN <<>> ELSE Merge(pieces, k, f[k - 1])]
           merged == CHOOSE f : f = equation(f)
<1>0. n \in Nat /\ DOMAIN pieces = 1..n
  BY DEF PiecesInOrder
<1>1. mergeInsidePieces(pieces) = merged[n]
  BY DEF mergeInsidePieces, Merge, Begins, Ends
<1> HIDE DEF n
<1>2. \E f : f = equation(f)
  <2> DEFINE step == [p \in (1..n) \X Intervals |-> Merge(pieces, p[1], p[2])]
  <2>1. \A k \in 1..n, s \in Intervals : Merge(pieces, k, s) \in Intervals
    BY <1>0, MergeTyped
  <2>2. /\ step \in [(1..n) \X Intervals -> Intervals]
        /\ \A k \in 1..n, s \in Intervals : step[<<k, s>>] = Merge(pieces, k, s)
    BY <2>1
  <2> HIDE DEF step
  <2>3. PICK f \in [0..n -> Intervals] : f = [k \in 0..n |-> IF k = 0 THEN <<>> ELSE step[<<k, f[k - 1]>>]]
    <3>1. Steps(Intervals, n, <<>>, step)
      BY <1>0, <2>2 DEF Steps, Intervals
    <3>q. QED
      BY <3>1, LoopExists
  <2>4. \A k \in 0..n : k # 0 => k \in 1..n /\ f[k - 1] \in Intervals
    BY <1>0, <2>3
  <2>5. f = equation(f)
    BY <2>2, <2>3, <2>4
  <2> HIDE DEF equation
  <2>q. QED
    BY <2>5
<1>3. merged = equation(merged)
  <2> HIDE DEF equation
  <2>q. QED
    BY <1>2
<1> HIDE DEF merged
<1>4. merged[0] = <<>> /\ \A k \in 1..n : merged[k] = Merge(pieces, k, merged[k - 1])
  BY <1>0, <1>3
<1> HIDE DEF equation
<1> DEFINE N == {k \in 0..n : Merged(pieces, last, k, merged[k])}
<1>5. 0 \in N
  <2>1. IntervalsInOrder(<<>>, last)
    BY DEF IntervalsInOrder, Intervals
  <2>q. QED
    BY <1>0, <1>4, <2>1 DEF Merged
<1>6. ASSUME NEW k \in (0 + 1)..n, k - 1 \in N PROVE k \in N
  <2>1. k \in 1..n /\ k \in 0..n
    BY <1>0
  <2>2. Merged(pieces, last, k - 1, merged[k - 1])
    BY <1>6
  <2>q. QED
    <3>1. Merged(pieces, last, k, Merge(pieces, k, merged[k - 1]))
      BY <1>0, <2>1, <2>2, MergeGoesOn
    <3>q. QED
      BY <1>4, <2>1, <3>1
<1> HIDE DEF N
<1>7. n \in N
  <2>1. 0 \in Int /\ n \in Int /\ n \in 0..n
    BY <1>0
  <2>q. QED
    BY <1>5, <1>6, <2>1, Ascends, Zenon
<1>q. QED
  BY <1>1, <1>7 DEF N, Merged

-----------------------------------------------------------------------------
(* Sequences in order, by a relation between their members.                *)

Chain(s, before) == \A i, j \in DOMAIN s : i < j => <<s[i], s[j]>> \in before

LEMMA ConcatChains ==
    ASSUME NEW S, NEW s \in Seq(S), NEW t \in Seq(S)
    PROVE  /\ s \o t \in Seq(S)
           /\ Range(s \o t) = Range(s) \cup Range(t)
           /\ \A before : Chain(s, before) /\ Chain(t, before) /\ Range(s) \X Range(t) \subseteq before
                            => Chain(s \o t, before)
<1> DEFINE u == s \o t
<1>1. /\ Len(s) \in Nat /\ Len(t) \in Nat /\ DOMAIN s = 1..Len(s) /\ DOMAIN t = 1..Len(t)
      /\ u \in Seq(S) /\ DOMAIN u = 1..(Len(s) + Len(t))
      /\ \A i \in 1..Len(s) : u[i] = s[i]
      /\ \A i \in 1..Len(t) : u[Len(s) + i] = t[i]
  OBVIOUS
<1> HIDE DEF u
<1>2. \A i \in DOMAIN u : \/ i \in DOMAIN s /\ u[i] = s[i]
                          \/ i > Len(s) /\ i - Len(s) \in DOMAIN t /\ u[i] = t[i - Len(s)]
  <2>1. ASSUME NEW i \in DOMAIN u, i \notin DOMAIN s
        PROVE  i > Len(s) /\ i - Len(s) \in DOMAIN t /\ u[i] = t[i - Len(s)]
    <3>1. i > Len(s) /\ i - Len(s) \in 1..Len(t) /\ Len(s) + (i - Len(s)) = i
      BY <1>1, <2>1
    <3>q. QED
      BY <1>1, <3>1
  <2>q. QED
    BY <1>1, <2>1
<1>3. Range(u) = Range(s) \cup Range(t)
  <2>1. ASSUME NEW x \in Range(u) PROVE x \in Range(s) \cup Range(t)
    BY <1>2 DEF Range
  <2>2. ASSUME NEW x \in Range(s) PROVE x \in Range(u)
    <3>1. PICK i \in DOMAIN s : x = s[i]
      BY DEF Range
    <3>2. i \in DOMAIN u /\ u[i] = x
      BY <1>1, <3>1
    <3>q. QED
      BY <3>2 DEF Range
  <2>3. ASSUME NEW x \in Range(t) PROVE x \in Range(u)
    <3>1. PICK i \in DOMAIN t : x = t[i]
      BY DEF Range
    <3>2. Len(s) + i \in DOMAIN u /\ u[Len(s) + i] = x
      BY <1>1, <3>1
    <3>q. QED
      BY <3>2 DEF Range
  <2>q. QED
    BY <2>1, <2>2, <2>3
<1>4. ASSUME NEW before, Chain(s, before), Chain(t, before), Range(s) \X Range(t) \subseteq before,
             NEW i \in DOMAIN u, NEW j \in DOMAIN u, i < j
      PROVE  <<u[i], u[j]>> \in before
  <2>1. CASE j \in DOMAIN s
    <3>1. i \in DOMAIN s
      BY <1>1, <1>4, <2>1
    <3>q. QED
      BY <1>1, <1>4, <2>1, <3>1 DEF Chain
  <2>2. CASE i \notin DOMAIN s
    <3>1. /\ i > Len(s) /\ i - Len(s) \in DOMAIN t /\ u[i] = t[i - Len(s)]
          /\ i \in Nat /\ j \in Nat
      BY <1>1, <1>2, <2>2
    <3>2. j - Len(s) \in DOMAIN t /\ u[j] = t[j - Len(s)] /\ i - Len(s) < j - Len(s)
      BY <1>1, <1>2, <1>4, <3>1
    <3>q. QED
      BY <1>4, <3>1, <3>2 DEF Chain
  <2>3. CASE i \in DOMAIN s /\ j \notin DOMAIN s
    <3>1. u[i] \in Range(s) /\ u[j] \in Range(t)
      BY <1>2, <1>1, <2>3 DEF Range
    <3>q. QED
      BY <1>4, <3>1
  <2>q. QED
    BY <2>1, <2>2, <2>3
<1>q. QED
  BY <1>1, <1>3, <1>4 DEF Chain, u

LEMMA LoneChains ==
    ASSUME NEW S, NEW x \in S
    PROVE  /\ <<x>> \in Seq(S) /\ Range(<<x>>) = {x} /\ \A before : Chain(<<x>>, before)
           /\ <<>> \in Seq(S) /\ Range(<<>>) = {} /\ \A before : Chain(<<>>, before)
<1>1. <<x>> \in Seq(S) /\ DOMAIN <<x>> = 1..1 /\ <<x>>[1] = x
  OBVIOUS
<1>2. <<>> \in Seq(S) /\ DOMAIN <<>> = {}
  OBVIOUS
<1>3. Range(<<x>>) = {x} /\ Range(<<>>) = {}
  BY <1>1, <1>2 DEF Range
<1>4. \A i, j \in 1..1 : ~(i < j)
  OBVIOUS
<1>q. QED
  BY <1>1, <1>2, <1>3, <1>4 DEF Chain

-----------------------------------------------------------------------------
(* The nodes of an interval.                                               *)

Node == [at: Nat, availability: {Forced, Optional, Required}, isAnchor: BOOLEAN]
InRouteOrder == {pair \in Node \X Node : pair[1].at < pair[2].at}

PlannedRequest(r) ==
    /\ r.stops \in Nat /\ r.stops >= 2
    /\ r.availability \in [Stops(r) -> {Forced, Optional, Required}]

IntervalIn(r, interval) ==
    /\ interval \in Interval
    /\ interval.entry < interval.exit /\ interval.exit <= LastScalar(r)

\* The nodes lie within the interval, with its anchors and those of its stops
\* that are not in their place.
NodesFit(r, interval, nodes) ==
    /\ nodes \in Seq(Node) /\ Chain(nodes, InRouteOrder)
    /\ \A x \in Range(nodes) :
        /\ interval.entry <= x.at /\ x.at <= interval.exit
        /\ ~x.isAnchor => \E s \in Stops(r) : x.at = StopScalar(s) /\ x.availability = r.availability[s]
    /\ interval.entry > 0 => Anchor(interval.entry) \in Range(nodes)
    /\ interval.exit < LastScalar(r) => Anchor(interval.exit) \in Range(nodes)
    /\ \A s \in Stops(r) : Within(interval, s) /\ ~AtAnchor(r, interval, s) => StopNode(r, s) \in Range(nodes)

LEMMA NodesAreFit ==
    ASSUME NEW r, PlannedRequest(r), NEW interval, IntervalIn(r, interval)
    PROVE  NodesFit(r, interval, IntervalNodes(r, interval))
<1> DEFINE some == {s \in Stops(r) : Within(interval, s) /\ ~AtAnchor(r, interval, s)}
           inside == InOrder(r.stops - 1, some)
           entryNodes == IF interval.entry > 0 THEN <<Anchor(interval.entry)>> ELSE <<>>
           stopNodes == [i \in DOMAIN inside |-> StopNode(r, inside[i])]
           exitNodes == IF interval.exit < LastScalar(r) THEN <<Anchor(interval.exit)>> ELSE <<>>
           nodes == entryNodes \o stopNodes \o exitNodes
<1>0. /\ interval.entry \in Nat /\ interval.exit \in Nat /\ interval.entry < interval.exit
      /\ r.stops \in Nat /\ r.stops >= 2 /\ LastScalar(r) \in Nat
  BY DEF IntervalIn, Interval, PlannedRequest, LastScalar, StopScalar, Whole
<1>1. IntervalNodes(r, interval) = nodes
  BY DEF IntervalNodes
<1>2. /\ inside \in Seq(some)
      /\ \A i, j \in DOMAIN inside : i < j => inside[i] < inside[j]
      /\ \A s \in some : \E i \in DOMAIN inside : inside[i] = s
  <2>1. Lists(inside, r.stops - 1, some)
    BY <1>0, InOrderLists
  <2>2. (0..(r.stops - 1)) \cap some = some
    BY DEF Stops
  <2> HIDE DEF inside, some
  <2>q. QED
    BY <2>1, <2>2 DEF Lists
<1>3. /\ Anchor(interval.entry) \in Node /\ Anchor(interval.exit) \in Node
      /\ \A s \in Stops(r) : StopNode(r, s) \in Node
  BY <1>0 DEF Anchor, StopNode, Node, PlannedRequest, Stops, StopScalar, Whole
<1>4. /\ stopNodes \in Seq(Node) /\ Range(stopNodes) = {StopNode(r, s) : s \in some}
      /\ Chain(stopNodes, InRouteOrder)
  <2>1. some \subseteq Stops(r)
    OBVIOUS
  <2> HIDE DEF inside, some
  <2>2. /\ Len(inside) \in Nat /\ DOMAIN inside = 1..Len(inside)
        /\ \A i \in DOMAIN inside : inside[i] \in some /\ inside[i] \in Stops(r)
    BY <1>2, <2>1
  <2>3. /\ DOMAIN stopNodes = DOMAIN inside
        /\ \A i \in DOMAIN inside : stopNodes[i] = StopNode(r, inside[i]) /\ stopNodes[i] \in Node
    BY <1>3, <2>2
  <2>4. stopNodes \in Seq(Node)
    BY <2>2, <2>3
  <2> HIDE DEF stopNodes
  <2>5. Range(stopNodes) = {StopNode(r, s) : s \in some}
    <3>1. ASSUME NEW s \in some PROVE StopNode(r, s) \in Range(stopNodes)
      <4>1. PICK i \in DOMAIN inside : inside[i] = s
        BY <1>2
      <4>2. i \in DOMAIN stopNodes /\ stopNodes[i] = StopNode(r, s)
        BY <2>3, <4>1
      <4>q. QED
        BY <4>2 DEF Range
    <3>2. ASSUME NEW x \in Range(stopNodes) PROVE \E s \in some : x = StopNode(r, s)
      <4>1. PICK i \in DOMAIN stopNodes : x = stopNodes[i]
        BY DEF Range
      <4>q. QED
        BY <2>2, <2>3, <4>1
    <3>q. QED
      BY <3>1, <3>2
  <2>6. ASSUME NEW i \in DOMAIN stopNodes, NEW j \in DOMAIN stopNodes, i < j
        PROVE  <<stopNodes[i], stopNodes[j]>> \in InRouteOrder
    <3>1. inside[i] < inside[j] /\ inside[i] \in Nat /\ inside[j] \in Nat
      BY <1>2, <2>2, <2>3, <2>6 DEF Stops
    <3>2. stopNodes[i].at = 2 * inside[i] /\ stopNodes[j].at = 2 * inside[j]
      BY <2>3 DEF StopNode, StopScalar, Whole
    <3>3. stopNodes[i].at < stopNodes[j].at
      BY <3>1, <3>2
    <3>q. QED
      BY <2>3, <3>3 DEF InRouteOrder
  <2>q. QED
    BY <2>4, <2>5, <2>6 DEF Chain
<1>5. /\ entryNodes \in Seq(Node) /\ Chain(entryNodes, InRouteOrder)
      /\ Range(entryNodes) = IF interval.entry > 0 THEN {Anchor(interval.entry)} ELSE {}
  BY <1>3, LoneChains
<1>6. /\ exitNodes \in Seq(Node) /\ Chain(exitNodes, InRouteOrder)
      /\ Range(exitNodes) = IF interval.exit < LastScalar(r) THEN {Anchor(interval.exit)} ELSE {}
  BY <1>3, LoneChains
<1>7. ASSUME NEW s \in some
      PROVE  /\ interval.entry <= StopNode(r, s).at /\ StopNode(r, s).at <= interval.exit
             /\ interval.entry > 0 => interval.entry < StopNode(r, s).at
             /\ interval.exit < LastScalar(r) => StopNode(r, s).at < interval.exit
             /\ StopNode(r, s).at \in Nat /\ StopNode(r, s) \in Node
             /\ StopNode(r, s).at = StopScalar(s) /\ StopNode(r, s).availability = r.availability[s]
  <2>1. StopNode(r, s).at = StopScalar(s) /\ StopNode(r, s).availability = r.availability[s] /\ s \in Stops(r)
    BY DEF StopNode
  <2>2. StopScalar(s) \in Nat
    BY <2>1, <1>0 DEF Stops, StopScalar, Whole
  <2>3. Within(interval, s) /\ ~AtAnchor(r, interval, s)
    OBVIOUS
  <2>q. QED
    BY <1>0, <1>3, <2>1, <2>2, <2>3 DEF Within, AtAnchor
<1>8. Anchor(interval.entry).at = interval.entry /\ Anchor(interval.exit).at = interval.exit
      /\ Anchor(interval.entry).isAnchor /\ Anchor(interval.exit).isAnchor
  BY DEF Anchor
<1> HIDE DEF some, inside, entryNodes, stopNodes, exitNodes
<1>9. /\ entryNodes \o stopNodes \in Seq(Node) /\ Chain(entryNodes \o stopNodes, InRouteOrder)
      /\ Range(entryNodes \o stopNodes) = Range(entryNodes) \cup Range(stopNodes)
  <2>1. ASSUME NEW a \in Range(entryNodes), NEW b \in Range(stopNodes) PROVE <<a, b>> \in InRouteOrder
    <3>1. interval.entry > 0 /\ a = Anchor(interval.entry)
      BY <1>5, <2>1
    <3>2. PICK s \in some : b = StopNode(r, s)
      BY <1>4
    <3>q. QED
      BY <1>3, <1>7, <1>8, <3>1, <3>2 DEF InRouteOrder
  <2>2. Range(entryNodes) \X Range(stopNodes) \subseteq InRouteOrder
    BY <2>1
  <2>q. QED
    BY <1>4, <1>5, <2>2, ConcatChains
<1>10. /\ nodes \in Seq(Node) /\ Chain(nodes, InRouteOrder)
       /\ Range(nodes) = Range(entryNodes) \cup Range(stopNodes) \cup Range(exitNodes)
  <2>1. ASSUME NEW a \in Range(entryNodes \o stopNodes), NEW b \in Range(exitNodes) PROVE <<a, b>> \in InRouteOrder
    <3>1. interval.exit < LastScalar(r) /\ b = Anchor(interval.exit)
      BY <1>6, <2>1
    <3>2. CASE a \in Range(entryNodes)
      <4>1. a = Anchor(interval.entry)
        BY <1>5, <3>2
      <4>q. QED
        BY <1>0, <1>3, <1>8, <3>1, <4>1 DEF InRouteOrder
    <3>3. CASE a \in Range(stopNodes)
      <4>1. PICK s \in some : a = StopNode(r, s)
        BY <1>4, <3>3
      <4>q. QED
        BY <1>3, <1>7, <1>8, <3>1, <4>1 DEF InRouteOrder
    <3>q. QED
      BY <1>9, <3>2, <3>3
  <2>2. Range(entryNodes \o stopNodes) \X Range(exitNodes) \subseteq InRouteOrder
    BY <2>1
  <2>q. QED
    <3> DEFINE head == entryNodes \o stopNodes
    <3>1. nodes = head \o exitNodes
      OBVIOUS
    <3> HIDE DEF head, nodes
    <3>2. /\ head \in Seq(Node) /\ Chain(head, InRouteOrder)
          /\ exitNodes \in Seq(Node) /\ Chain(exitNodes, InRouteOrder)
          /\ Range(head) \X Range(exitNodes) \subseteq InRouteOrder
      BY <1>6, <1>9, <2>2 DEF head
    <3>3. nodes \in Seq(Node) /\ Chain(nodes, InRouteOrder) /\ Range(nodes) = Range(head) \cup Range(exitNodes)
      BY <3>1, <3>2, ConcatChains
    <3>q. QED
      BY <1>9, <3>3 DEF head
<1> HIDE DEF nodes
<1>11. ASSUME NEW x \in Range(nodes)
       PROVE  /\ interval.entry <= x.at /\ x.at <= interval.exit
              /\ ~x.isAnchor => \E s \in Stops(r) : x.at = StopScalar(s) /\ x.availability = r.availability[s]
  <2>1. CASE x \in {Anchor(interval.entry), Anchor(interval.exit)}
    BY <1>0, <1>8, <2>1
  <2>2. CASE \E s \in some : x = StopNode(r, s)
    <3>1. PICK s \in some : x = StopNode(r, s)
      BY <2>2
    <3>2. s \in Stops(r)
      BY DEF some
    <3>q. QED
      BY <1>7, <3>1, <3>2
  <2>q. QED
    BY <1>4, <1>5, <1>6, <1>10, <2>1, <2>2
<1>12. \A s \in Stops(r) : Within(interval, s) /\ ~AtAnchor(r, interval, s) => StopNode(r, s) \in Range(nodes)
  BY <1>4, <1>10 DEF some
<1>q. QED
  BY <1>1, <1>5, <1>6, <1>10, <1>11, <1>12 DEF NodesFit

-----------------------------------------------------------------------------
(* What is selected in an interval: nodes in order, all that are required  *)
(* and none that is forced out.                                            *)

Way == [kept: Seq(Nat), seconds: Nat]

Timed(paths) == \A pair \in DOMAIN paths : paths[pair].seconds \in Nat

\* A way to a node, from the first that a path may begin with.
Reaches(nodes, end, kept) ==
    /\ kept \in Seq(1..Len(nodes)) /\ Len(kept) >= 1 /\ kept[Len(kept)] = end
    /\ \A i, j \in DOMAIN kept : i < j => kept[i] < kept[j]
    /\ \A i \in DOMAIN kept : HasPoint(nodes[kept[i]])
    /\ \A n \in 1..end : nodes[n].availability = Required => n \in Range(kept)

WaysTo(nodes, end, states) ==
    /\ states \in Seq(SUBSET Way) /\ Len(states) = end
    /\ \A e \in 1..end : \A s \in states[e] : Reaches(nodes, e, s.kept)

LEMMA AloneReaches ==
    ASSUME NEW nodes \in Seq(Node), NEW end \in 1..Len(nodes), HasPoint(nodes[end]), NEW s \in Alone(nodes, end)
    PROVE  s \in Way /\ Reaches(nodes, end, s.kept)
<1>1. s = [kept |-> <<end>>, seconds |-> 0] /\ ~containsRequired(nodes, 1, end - 1)
  BY DEF Alone
<1>2. /\ <<end>> \in Seq(1..Len(nodes)) /\ <<end>> \in Seq(Nat)
      /\ Range(<<end>>) = {end} /\ DOMAIN <<end>> = 1..1 /\ Len(<<end>>) = 1 /\ <<end>>[1] = end
  <2>1. end \in Nat
    OBVIOUS
  <2>q. QED
    BY <2>1, LoneChains
<1>3. ASSUME NEW n \in 1..end, nodes[n].availability = Required PROVE n = end
  <2>1. n # end => n \in 1..(end - 1)
    OBVIOUS
  <2>q. QED
    BY <1>1, <1>3, <2>1 DEF containsRequired
<1>4. s.kept = <<end>> /\ s \in Way
  BY <1>1, <1>2 DEF Way
<1>q. QED
  BY <1>2, <1>3, <1>4 DEF Reaches

LEMMA ExtendedReaches ==
    ASSUME NEW nodes \in Seq(Node), NEW end \in 1..Len(nodes), HasPoint(nodes[end]),
           NEW start \in 1..(end - 1), ~containsRequired(nodes, start + 1, end - 1),
           NEW kept, Reaches(nodes, start, kept)
    PROVE  Reaches(nodes, end, Append(kept, end)) /\ Append(kept, end) \in Seq(Nat)
<1> DEFINE longer == Append(kept, end)
<1>1. /\ kept \in Seq(1..Len(nodes)) /\ Len(kept) \in Nat /\ DOMAIN kept = 1..Len(kept) /\ Len(kept) >= 1
      /\ Len(nodes) \in Nat /\ start \in Nat /\ end \in Nat /\ start < end
      /\ kept[Len(kept)] = start
      /\ \A i \in DOMAIN kept : kept[i] \in Nat
  BY DEF Reaches
<1>2. /\ longer \in Seq(1..Len(nodes)) /\ longer \in Seq(Nat) /\ Len(longer) = Len(kept) + 1
      /\ DOMAIN longer = 1..(Len(kept) + 1) /\ longer[Len(kept) + 1] = end
      /\ \A i \in DOMAIN kept : longer[i] = kept[i]
  <2>1. kept \in Seq(Nat)
    BY <1>1
  <2>q. QED
    BY <1>1, <2>1
<1> HIDE DEF longer
<1>3. \A i \in DOMAIN longer : i = Len(kept) + 1 \/ i \in DOMAIN kept
  BY <1>1, <1>2
<1>4. \A i \in DOMAIN kept : kept[i] <= start
  <2>1. TAKE i \in DOMAIN kept
  <2>2. CASE i = Len(kept)
    BY <1>1, <2>2
  <2>3. CASE i # Len(kept)
    <3>1. Len(kept) \in DOMAIN kept /\ i < Len(kept)
      BY <1>1, <2>3
    <3>2. kept[i] < kept[Len(kept)]
      BY <3>1 DEF Reaches
    <3>q. QED
      BY <1>1, <3>2
  <2>q. QED
    BY <2>2, <2>3
<1>5. ASSUME NEW i \in DOMAIN longer, NEW j \in DOMAIN longer, i < j PROVE longer[i] < longer[j]
  <2>1. i \in DOMAIN kept
    BY <1>1, <1>2, <1>5
  <2>2. CASE j = Len(kept) + 1
    BY <1>1, <1>2, <1>4, <2>1, <2>2
  <2>3. CASE j # Len(kept) + 1
    <3>1. j \in DOMAIN kept
      BY <1>3, <2>3
    <3>q. QED
      BY <1>2, <1>5, <2>1, <3>1 DEF Reaches
  <2>q. QED
    BY <2>2, <2>3
<1>6. ASSUME NEW i \in DOMAIN longer PROVE HasPoint(nodes[longer[i]])
  BY <1>2, <1>3 DEF Reaches
<1>7. ASSUME NEW n \in 1..end, nodes[n].availability = Required PROVE n \in Range(longer)
  <2>1. CASE n = end
    <3>1. Len(kept) + 1 \in DOMAIN longer
      BY <1>1, <1>2
    <3>q. QED
      BY <1>2, <2>1, <3>1 DEF Range
  <2>2. CASE n \in 1..start
    <3>1. n \in Range(kept)
      BY <1>7, <2>2 DEF Reaches
    <3>2. PICK i \in DOMAIN kept : kept[i] = n
      BY <3>1 DEF Range
    <3>3. i \in DOMAIN longer /\ longer[i] = n
      BY <1>1, <1>2, <3>2
    <3>q. QED
      BY <3>3 DEF Range
  <2>3. CASE n \in (start + 1)..(end - 1)
    BY <1>7, <2>3 DEF containsRequired
  <2>q. QED
    BY <1>1, <2>1, <2>2, <2>3
<1>8. Len(longer) >= 1 /\ longer[Len(longer)] = end
  BY <1>1, <1>2
<1>q. QED
  BY <1>2, <1>5, <1>6, <1>7, <1>8 DEF Reaches, longer

LEMMA BestAtReaches ==
    ASSUME NEW nodes \in Seq(Node), NEW paths, Timed(paths), NEW criterion,
           NEW end \in 1..Len(nodes), NEW states, WaysTo(nodes, end - 1, states)
    PROVE  /\ bestAt(nodes, paths, criterion, states, end) \in SUBSET Way
           /\ \A s \in bestAt(nodes, paths, criterion, states, end) : Reaches(nodes, end, s.kept)
<1> SUFFICES ASSUME NEW s \in bestAt(nodes, paths, criterion, states, end)
             PROVE  s \in Way /\ Reaches(nodes, end, s.kept)
  OBVIOUS
<1> DEFINE starts == {i \in 1..(end - 1) : ~containsRequired(nodes, i + 1, end - 1)}
<1>1. HasPoint(nodes[end]) /\ s \in Alone(nodes, end) \cup Extended(paths, states, starts, end)
  BY DEF bestAt, Best
<1>2. CASE s \in Alone(nodes, end)
  BY <1>1, <1>2, AloneReaches
<1>3. CASE s \in Extended(paths, states, starts, end)
  <2>0. PICK start \in starts : \E t \in states[start] :
            /\ <<start, end>> \in DOMAIN paths
            /\ s = [kept |-> Append(t.kept, end), seconds |-> t.seconds + paths[<<start, end>>].seconds]
    BY <1>3 DEF Extended
  <2>1. PICK t \in states[start] :
            /\ <<start, end>> \in DOMAIN paths
            /\ s = [kept |-> Append(t.kept, end), seconds |-> t.seconds + paths[<<start, end>>].seconds]
    BY <2>0
  <2>2. start \in 1..(end - 1) /\ ~containsRequired(nodes, start + 1, end - 1)
    OBVIOUS
  <2>3. states[start] \subseteq Way /\ Reaches(nodes, start, t.kept)
    BY <2>2 DEF WaysTo
  <2>4. Reaches(nodes, end, Append(t.kept, end)) /\ Append(t.kept, end) \in Seq(Nat)
    BY <1>1, <2>2, <2>3, ExtendedReaches
  <2>5. t.seconds + paths[<<start, end>>].seconds \in Nat
    <3>1. t.seconds \in Nat
      BY <2>3 DEF Way
    <3>2. paths[<<start, end>>].seconds \in Nat
      BY <2>1 DEF Timed
    <3>q. QED
      BY <3>1, <3>2
  <2>6. s.kept = Append(t.kept, end) /\ s \in Way
    BY <2>1, <2>4, <2>5 DEF Way
  <2>q. QED
    BY <2>4, <2>6
<1>q. QED
  BY <1>1, <1>2, <1>3

LEMMA WaysGoOn ==
    ASSUME NEW nodes \in Seq(Node), NEW paths, Timed(paths), NEW criterion,
           NEW end \in 1..Len(nodes), NEW states, WaysTo(nodes, end - 1, states)
    PROVE  WaysTo(nodes, end, Append(states, bestAt(nodes, paths, criterion, states, end)))
<1> DEFINE best == bestAt(nodes, paths, criterion, states, end)
           more == Append(states, best)
<1>1. best \in SUBSET Way /\ \A s \in best : Reaches(nodes, end, s.kept)
  BY BestAtReaches
<1> HIDE DEF best
<1>2. /\ states \in Seq(SUBSET Way) /\ Len(states) = end - 1
      /\ \A e \in 1..(end - 1) : \A s \in states[e] : Reaches(nodes, e, s.kept)
  BY DEF WaysTo
<1>3. /\ more \in Seq(SUBSET Way) /\ Len(more) = end /\ more[end] = best
      /\ \A e \in 1..(end - 1) : more[e] = states[e]
  BY <1>1, <1>2
<1> HIDE DEF more
<1>4. \A e \in 1..end : e = end \/ e \in 1..(end - 1)
  OBVIOUS
<1>5. \A e \in 1..end : \A s \in more[e] : Reaches(nodes, e, s.kept)
  BY <1>1, <1>2, <1>3, <1>4
<1>q. QED
  BY <1>3, <1>5 DEF WaysTo, more, best

\* The states of each node are made of those of the nodes before it.
StatesUpTo(upTo, nodes, paths, criterion) ==
    /\ upTo[0] = <<>> /\ bestByEnd(nodes, paths, criterion) = upTo[Len(nodes)]
    /\ \A k \in 1..Len(nodes) : upTo[k] = Append(upTo[k - 1], bestAt(nodes, paths, criterion, upTo[k - 1], k))

LEMMA BestByEndGoesOn ==
    ASSUME NEW nodes \in Seq(Node), NEW paths, Timed(paths), NEW criterion
    PROVE  \E upTo : StatesUpTo(upTo, nodes, paths, criterion)
<1> DEFINE n == Len(nodes)
           next(k, v) == Append(v, bestAt(nodes, paths, criterion, v, k))
           equation(f) == [k \in 0..n |-> IF k = 0 THEN <<>> ELSE next(k, f[k - 1])]
           upTo == CHOOSE f : f = equation(f)
           S == Seq(SUBSET Way)
<1>0. n \in Nat
  OBVIOUS
<1>1. bestByEnd(nodes, paths, criterion) = upTo[n]
  BY DEF bestByEnd
<1>2. WaysTo(nodes, 0, <<>>)
  BY DEF WaysTo
<1>3. ASSUME NEW k \in 1..n, NEW v, WaysTo(nodes, k - 1, v) PROVE WaysTo(nodes, k, next(k, v))
  BY <1>3, WaysGoOn
<1> HIDE DEF n, next
<1>4. \E f : f = equation(f)
  <2> DEFINE step == [p \in (1..n) \X S |-> IF WaysTo(nodes, p[1] - 1, p[2]) THEN next(p[1], p[2]) ELSE <<>>]
  <2>1. ASSUME NEW k \in 1..n, NEW v \in S
        PROVE  (IF WaysTo(nodes, k - 1, v) THEN next(k, v) ELSE <<>>) \in S
    <3>1. WaysTo(nodes, k - 1, v) => next(k, v) \in S
      BY <1>3 DEF WaysTo
    <3>q. QED
      BY <3>1
  <2>2. /\ step \in [(1..n) \X S -> S]
        /\ \A k \in 1..n, v \in S : step[<<k, v>>] = IF WaysTo(nodes, k - 1, v) THEN next(k, v) ELSE <<>>
    BY <2>1
  <2> HIDE DEF step
  <2>a. <<>> \in S
    OBVIOUS
  <2> HIDE DEF S
  <2>3. PICK f : Follows(f, S, n, <<>>, step)
    <3>1. Steps(S, n, <<>>, step)
      BY <1>0, <2>2, <2>a, Zenon DEF Steps
    <3>q. QED
      BY <3>1, Recursion
  <2>4. f \in [0..n -> S] /\ f[0] = <<>> /\ \A k \in 1..n : f[k] = step[<<k, f[k - 1]>>]
    BY <2>3 DEF Follows
  <2>5. \A k \in 1..n : k - 1 \in 0..n /\ f[k - 1] \in S
    BY <1>0, <2>4
  <2> DEFINE N == {k \in 0..n : WaysTo(nodes, k, f[k])}
  <2>6. 0 \in N
    BY <1>0, <1>2, <2>4
  <2>7. ASSUME NEW k \in (0 + 1)..n, k - 1 \in N PROVE k \in N
    <3>1. k \in 1..n /\ k \in 0..n /\ WaysTo(nodes, k - 1, f[k - 1])
      BY <1>0, <2>7
    <3>2. f[k] = next(k, f[k - 1])
      BY <2>2, <2>4, <2>5, <3>1
    <3>q. QED
      BY <1>3, <3>1, <3>2
  <2> HIDE DEF N
  <2>8. \A k \in 0..n : k \in N
    <3>1. 0 \in Int /\ n \in Int
      BY <1>0
    <3>q. QED
      BY <2>6, <2>7, <3>1, Ascends, Zenon
  <2>9. \A k \in 0..n : f[k] = IF k = 0 THEN <<>> ELSE next(k, f[k - 1])
    <3>1. TAKE k \in 0..n
    <3>2. CASE k = 0
      BY <2>4, <3>2
    <3>3. CASE k # 0
      <4>1. k \in 1..n /\ k - 1 \in 0..n
        BY <1>0, <3>3
      <4>2. WaysTo(nodes, k - 1, f[k - 1])
        BY <2>8, <4>1 DEF N
      <4>q. QED
        BY <2>2, <2>4, <2>5, <3>3, <4>1, <4>2
    <3>q. QED
      BY <3>2, <3>3
  <2>10. f = [k \in 0..n |-> f[k]]
    BY <2>4
  <2>11. f = equation(f)
    BY <2>9, <2>10
  <2> HIDE DEF equation
  <2>q. QED
    BY <2>11
<1>5. upTo = equation(upTo)
  <2> HIDE DEF equation
  <2>q. QED
    BY <1>4
<1> HIDE DEF upTo
<1>6. upTo[0] = <<>> /\ \A k \in 1..n : upTo[k] = next(k, upTo[k - 1])
  BY <1>0, <1>5
<1> HIDE DEF equation
<1>q. QED
  BY <1>1, <1>6 DEF StatesUpTo, n, next

LEMMA BestByEndReaches ==
    ASSUME NEW nodes \in Seq(Node), NEW paths, Timed(paths), NEW criterion
    PROVE  WaysTo(nodes, Len(nodes), bestByEnd(nodes, paths, criterion))
<1> DEFINE n == Len(nodes)
<1>0. n \in Nat
  OBVIOUS
<1>a. PICK upTo : StatesUpTo(upTo, nodes, paths, criterion)
  BY BestByEndGoesOn
<1>1. /\ upTo[0] = <<>> /\ bestByEnd(nodes, paths, criterion) = upTo[n]
      /\ \A k \in 1..n : upTo[k] = Append(upTo[k - 1], bestAt(nodes, paths, criterion, upTo[k - 1], k))
  BY <1>a DEF StatesUpTo
<1> DEFINE N == {k \in 0..n : WaysTo(nodes, k, upTo[k])}
<1>2. 0 \in N
  <2>1. WaysTo(nodes, 0, <<>>)
    BY DEF WaysTo
  <2>q. QED
    BY <1>0, <1>1, <2>1
<1>3. ASSUME NEW k \in (0 + 1)..n, k - 1 \in N PROVE k \in N
  <2>1. k \in 1..n /\ k \in 0..n /\ WaysTo(nodes, k - 1, upTo[k - 1])
    BY <1>0, <1>3
  <2>2. WaysTo(nodes, k, upTo[k])
    BY <1>1, <2>1, WaysGoOn
  <2>q. QED
    BY <2>1, <2>2
<1> HIDE DEF N
<1>4. n \in N
  <2>1. 0 \in Int /\ n \in Int /\ n \in 0..n
    BY <1>0
  <2>q. QED
    BY <1>2, <1>3, <2>1, Ascends, Zenon
<1>q. QED
  BY <1>1, <1>4 DEF N

\* The nodes that a selection keeps.
Selected(nodes, kept) ==
    /\ kept \in Seq(1..Len(nodes)) /\ Len(kept) > 1
    /\ \A i, j \in DOMAIN kept : i < j => kept[i] < kept[j]
    /\ \A i \in DOMAIN kept : HasPoint(nodes[kept[i]])
    /\ \A n \in 1..Len(nodes) : nodes[n].availability = Required => n \in Range(kept)

LEMMA SelectKeeps ==
    ASSUME NEW nodes \in Seq(Node), NEW paths, Timed(paths), NEW criterion, NEW s \in Select(nodes, paths, criterion)
    PROVE  Selected(nodes, s.kept)
<1> DEFINE states == bestByEnd(nodes, paths, criterion)
<1>1. WaysTo(nodes, Len(nodes), states)
  BY BestByEndReaches
<1>2. PICK end \in DOMAIN nodes :
         s \in states[end] /\ Len(s.kept) > 1 /\ ~containsRequired(nodes, end + 1, Len(nodes))
  BY DEF Select, Best
<1> HIDE DEF states
<1>3. end \in 1..Len(nodes) /\ Len(nodes) \in Nat
  OBVIOUS
<1>4. Reaches(nodes, end, s.kept)
  BY <1>1, <1>2, <1>3 DEF WaysTo
<1>5. ASSUME NEW n \in 1..Len(nodes), nodes[n].availability = Required PROVE n \in Range(s.kept)
  <2>1. n \notin (end + 1)..Len(nodes)
    BY <1>2, <1>5 DEF containsRequired
  <2>2. n \in 1..end
    BY <1>3, <2>1
  <2>q. QED
    BY <1>4, <1>5, <2>2 DEF Reaches
<1>q. QED
  BY <1>2, <1>4, <1>5 DEF Reaches, Selected

-----------------------------------------------------------------------------
(* The order of the states, and the best of a finite set of them.          *)

\* Where two sequences first differ, if the one comes first.
Differs(s, t, i) ==
    /\ i \in 1..(Len(s) + 1) /\ i <= Len(t)
    /\ \A j \in 1..(i - 1) : s[j] = t[j]
    /\ i <= Len(s) => s[i] < t[i]

LEMMA ComparedInts ==
    ASSUME NEW s \in Seq(Int), NEW t \in Seq(Int)
    PROVE  compareInts(s, t) <=> \E i \in 1..Len(t) : Differs(s, t, i)
<1>0. /\ Len(s) \in Nat /\ DOMAIN s = 1..Len(s) /\ Len(t) \in Nat /\ DOMAIN t = 1..Len(t)
  OBVIOUS
<1>1. IsStrictPrefix(s, t) <=> Len(s) < Len(t) /\ \A j \in 1..Len(s) : s[j] = t[j]
  <2>1. /\ SubSeq(s, 1, Len(s)) \in Seq(Int) /\ Len(SubSeq(s, 1, Len(s))) = Len(s)
        /\ \A j \in 1..Len(s) : SubSeq(s, 1, Len(s))[j] = s[j]
    BY <1>0
  <2>2. Len(s) <= Len(t) => /\ SubSeq(t, 1, Len(s)) \in Seq(Int) /\ Len(SubSeq(t, 1, Len(s))) = Len(s)
                            /\ \A j \in 1..Len(s) : SubSeq(t, 1, Len(s))[j] = t[j]
    BY <1>0
  <2>3. Len(s) <= Len(t) => (SubSeq(s, 1, Len(s)) = SubSeq(t, 1, Len(s)) <=> \A j \in 1..Len(s) : s[j] = t[j])
    <3> DEFINE a == SubSeq(s, 1, Len(s))
               b == SubSeq(t, 1, Len(s))
    <3> SUFFICES ASSUME Len(s) <= Len(t) PROVE a = b <=> \A j \in 1..Len(s) : s[j] = t[j]
      OBVIOUS
    <3>1. /\ a \in Seq(Int) /\ Len(a) = Len(s) /\ \A j \in 1..Len(s) : a[j] = s[j]
          /\ b \in Seq(Int) /\ Len(b) = Len(s) /\ \A j \in 1..Len(s) : b[j] = t[j]
      BY <2>1, <2>2
    <3> HIDE DEF a, b
    <3>2. ASSUME \A j \in 1..Len(s) : s[j] = t[j] PROVE a = b
      <4>1. Len(a) = Len(b) /\ \A j \in 1..Len(a) : a[j] = b[j]
        BY <3>1, <3>2
      <4>q. QED
        BY <3>1, <4>1, SeqEqual
    <3>3. ASSUME a = b PROVE \A j \in 1..Len(s) : s[j] = t[j]
      <4>1. TAKE j \in 1..Len(s)
      <4>2. a[j] = b[j]
        BY <3>3
      <4>q. QED
        BY <3>1, <4>2
    <3>q. QED
      BY <3>2, <3>3
  <2>4. IsPrefix(s, t) <=> Len(s) <= Len(t) /\ \A j \in 1..Len(s) : s[j] = t[j]
    BY <2>3 DEF IsPrefix
  <2>5. ASSUME Len(s) = Len(t), \A j \in 1..Len(s) : s[j] = t[j] PROVE s = t
    BY <1>0, <2>5
  <2>6. IsStrictPrefix(s, t) <=> IsPrefix(s, t) /\ s # t
    BY DEF IsStrictPrefix
  <2>7. s = t => Len(s) = Len(t)
    OBVIOUS
  <2>8. Len(s) <= Len(t) /\ Len(s) # Len(t) <=> Len(s) < Len(t)
    <3>1. \A m, n \in Nat : m <= n /\ m # n <=> m < n
      OBVIOUS
    <3>q. QED
      BY <1>0, <3>1, Zenon
  <2>q. QED
    BY <2>4, <2>5, <2>6, <2>7, <2>8, Zenon
<1>2. ASSUME IsStrictPrefix(s, t) PROVE Differs(s, t, Len(s) + 1) /\ Len(s) + 1 \in 1..Len(t)
  BY <1>0, <1>1, <1>2 DEF Differs
<1>3. ASSUME NEW i \in DOMAIN s \cap DOMAIN t, s[i] < t[i], \A j \in 1..(i - 1) : s[j] = t[j]
      PROVE  Differs(s, t, i) /\ i \in 1..Len(t)
  BY <1>0, <1>3 DEF Differs
<1>4. ASSUME NEW i \in 1..Len(t), Differs(s, t, i) PROVE compareInts(s, t)
  <2>1. CASE i = Len(s) + 1
    <3>1. Len(s) < Len(t) /\ \A j \in 1..Len(s) : s[j] = t[j]
      BY <1>0, <1>4, <2>1 DEF Differs
    <3>q. QED
      BY <1>1, <3>1 DEF compareInts
  <2>2. CASE i # Len(s) + 1
    <3>1. i \in DOMAIN s \cap DOMAIN t /\ s[i] < t[i] /\ \A j \in 1..(i - 1) : s[j] = t[j]
      BY <1>0, <1>4, <2>2 DEF Differs
    <3>q. QED
      BY <3>1 DEF compareInts
  <2>q. QED
    BY <2>1, <2>2
<1>q. QED
  BY <1>2, <1>3, <1>4 DEF compareInts

LEMMA IntsTransitive ==
    ASSUME NEW s \in Seq(Int), NEW t \in Seq(Int), NEW u \in Seq(Int), compareInts(s, t), compareInts(t, u)
    PROVE  compareInts(s, u)
<1>0. /\ Len(s) \in Nat /\ Len(t) \in Nat /\ Len(u) \in Nat
      /\ \A i \in 1..Len(s) : s[i] \in Int
      /\ \A i \in 1..Len(t) : t[i] \in Int
      /\ \A i \in 1..Len(u) : u[i] \in Int
  OBVIOUS
<1>1. PICK i \in 1..Len(t) : Differs(s, t, i)
  BY ComparedInts
<1>2. PICK j \in 1..Len(u) : Differs(t, u, j)
  BY ComparedInts
<1>a. i \in Nat /\ j \in Nat /\ i <= Len(s) + 1 /\ j <= Len(t) + 1
  BY <1>0, <1>1, <1>2 DEF Differs
<1>3. CASE i < j
  <2>1. Differs(s, u, i)
    <3>1. i <= Len(u) /\ t[i] = u[i]
      BY <1>0, <1>a, <1>2, <1>3 DEF Differs
    <3>2. ASSUME NEW k \in 1..(i - 1) PROVE s[k] = t[k] /\ t[k] = u[k]
      <4>1. k \in 1..(j - 1)
        BY <1>a, <1>3
      <4>q. QED
        BY <1>1, <1>2, <4>1 DEF Differs
    <3>q. QED
      BY <1>1, <3>1, <3>2 DEF Differs
  <2>2. i \in 1..Len(u)
    BY <1>2, <1>3, <1>a
  <2>q. QED
    BY <2>1, <2>2, ComparedInts
<1>4. CASE ~(i < j)
  <2>1. j \in 1..(Len(s) + 1)
    BY <1>0, <1>a, <1>4
  <2>2. ASSUME NEW k \in 1..(j - 1) PROVE s[k] = t[k] /\ t[k] = u[k]
    <3>1. k \in 1..(i - 1)
      BY <1>a, <1>4
    <3>q. QED
      BY <1>1, <1>2, <3>1 DEF Differs
  <2>3. ASSUME j <= Len(s) PROVE s[j] < u[j]
    <3>1. j <= Len(t) /\ t[j] < u[j]
      <4>1. i <= Len(t) /\ (j <= Len(t) => t[j] < u[j])
        BY <1>1, <1>2 DEF Differs
      <4>2. \A a, b \in Nat : \A m \in Nat : ~(a < b) /\ a <= m => b <= m
        OBVIOUS
      <4>q. QED
        BY <1>0, <1>4, <1>a, <4>1, <4>2, Zenon
    <3>2. s[j] <= t[j]
      <4>1. CASE j = i
        <5>1. s[i] < t[i]
          BY <1>1, <2>3, <4>1 DEF Differs
        <5>2. s[i] \in Int /\ t[i] \in Int
          BY <1>0, <1>a, <2>3, <3>1, <4>1
        <5>q. QED
          BY <4>1, <5>1, <5>2
      <4>2. CASE j # i
        <5>1. j \in 1..(i - 1)
          BY <1>4, <1>a, <4>2
        <5>2. s[j] = t[j] /\ s[j] \in Int
          BY <1>0, <1>1, <2>3, <5>1 DEF Differs
        <5>q. QED
          BY <5>2
      <4>q. QED
        BY <4>1, <4>2
    <3>3. s[j] \in Int /\ t[j] \in Int /\ u[j] \in Int
      BY <1>0, <2>3, <3>1
    <3>q. QED
      BY <3>1, <3>2, <3>3
  <2>4. Differs(s, u, j)
    BY <2>1, <2>2, <2>3 DEF Differs
  <2>q. QED
    BY <2>4, ComparedInts
<1>q. QED
  BY <1>3, <1>4

LEMMA IntsIrreflexive ==
    ASSUME NEW s \in Seq(Int)
    PROVE  ~compareInts(s, s)
<1>1. /\ Len(s) \in Nat /\ \A i \in 1..Len(s) : s[i] \in Int
  OBVIOUS
<1>q. QED
  BY <1>1, ComparedInts DEF Differs

LEMMA IntsTotal ==
    ASSUME NEW s \in Seq(Int), NEW t \in Seq(Int), s # t
    PROVE  compareInts(s, t) \/ compareInts(t, s)
<1>0. /\ Len(s) \in Nat /\ DOMAIN s = 1..Len(s) /\ Len(t) \in Nat /\ DOMAIN t = 1..Len(t)
      /\ \A i \in 1..Len(s) : s[i] \in Int
      /\ \A i \in 1..Len(t) : t[i] \in Int
  OBVIOUS
<1> DEFINE D == {i \in Nat : i \in 1..Len(s) /\ i \in 1..Len(t) /\ s[i] # t[i]}
<1>1. CASE D = {}
  <2>1. \A i \in 1..Len(s) : i \in 1..Len(t) => s[i] = t[i]
    <3>1. \A i \in 1..Len(s) : i \in Nat
      BY <1>0
    <3>q. QED
      BY <1>1, <3>1
  <2> HIDE DEF D
  <2>2. Len(s) < Len(t) \/ Len(t) < Len(s)
    <3>1. ASSUME Len(s) = Len(t) PROVE FALSE
      BY <1>0, <2>1, <3>1, SeqEqual
    <3>2. \A m, n \in Nat : m = n \/ m < n \/ n < m
      OBVIOUS
    <3>q. QED
      BY <1>0, <3>1, <3>2
  <2>3. CASE Len(s) < Len(t)
    <3>1. Len(s) + 1 \in 1..Len(t) /\ Differs(s, t, Len(s) + 1)
      BY <1>0, <2>1, <2>3 DEF Differs
    <3>q. QED
      BY <3>1, ComparedInts
  <2>4. CASE Len(t) < Len(s)
    <3>1. Len(t) + 1 \in 1..Len(s) /\ Differs(t, s, Len(t) + 1)
      BY <1>0, <2>1, <2>4 DEF Differs
    <3>q. QED
      BY <3>1, ComparedInts
  <2>q. QED
    BY <2>2, <2>3, <2>4
<1>2. CASE D # {}
  <2>1. PICK i \in D : \A k \in D : i <= k
    <3>1. D \subseteq Nat
      OBVIOUS
    <3> HIDE DEF D
    <3>q. QED
      BY <1>2, <3>1, LeastNumber
  <2>2. i \in 1..Len(s) /\ i \in 1..Len(t) /\ s[i] # t[i] /\ s[i] \in Int /\ t[i] \in Int
    BY <1>0
  <2>3. ASSUME NEW j \in 1..(i - 1) PROVE s[j] = t[j]
    <3>1. j \in 1..Len(s) /\ j \in 1..Len(t) /\ j \in Nat /\ ~(i <= j)
      BY <1>0, <2>2
    <3>2. j \notin D
      BY <2>1, <3>1
    <3>q. QED
      BY <3>1, <3>2
  <2> HIDE DEF D
  <2>4. CASE s[i] < t[i]
    <3>1. Differs(s, t, i)
      BY <1>0, <2>2, <2>3, <2>4 DEF Differs
    <3>q. QED
      BY <2>2, <3>1, ComparedInts
  <2>5. CASE t[i] < s[i]
    <3>1. Differs(t, s, i)
      BY <1>0, <2>2, <2>3, <2>5 DEF Differs
    <3>q. QED
      BY <2>2, <3>1, ComparedInts
  <2>q. QED
    BY <2>2, <2>4, <2>5
<1>q. QED
  BY <1>1, <1>2

KeyOf(s, criterion) ==
    (IF criterion = ShortestTime THEN <<s.seconds, -Len(s.kept)>> ELSE <<-Len(s.kept), s.seconds>>) \o s.kept

LEMMA KeysAreInts ==
    ASSUME NEW s \in Way, NEW criterion
    PROVE  /\ KeyOf(s, criterion) \in Seq(Int) /\ Len(KeyOf(s, criterion)) = Len(s.kept) + 2
           /\ Len(s.kept) \in Nat /\ s.seconds \in Nat /\ s.kept \in Seq(Nat)
           /\ KeyOf(s, criterion)[1] = (IF criterion = ShortestTime THEN s.seconds ELSE -Len(s.kept))
           /\ KeyOf(s, criterion)[2] = (IF criterion = ShortestTime THEN -Len(s.kept) ELSE s.seconds)
           /\ \A i \in 1..Len(s.kept) : KeyOf(s, criterion)[i + 2] = s.kept[i]
<1> DEFINE kept == s.kept
           seconds == s.seconds
           a == IF criterion = ShortestTime THEN seconds ELSE -Len(kept)
           b == IF criterion = ShortestTime THEN -Len(kept) ELSE seconds
           key == KeyOf(s, criterion)
<1>1. kept \in Seq(Nat) /\ kept \in Seq(Int) /\ Len(kept) \in Nat /\ seconds \in Nat
  BY DEF Way
<1>2. key = <<a, b>> \o kept
  BY DEF KeyOf
<1>3. a \in Int /\ b \in Int
  <2> HIDE DEF kept, seconds
  <2>q. QED
    BY <1>1
<1> HIDE DEF a, b, kept, seconds, key
<1>4. key \in Seq(Int) /\ Len(key) = Len(kept) + 2 /\ key[1] = a /\ key[2] = b
      /\ \A i \in 1..Len(kept) : key[i + 2] = kept[i]
  BY <1>1, <1>2, <1>3
<1>q. QED
  BY <1>1, <1>4 DEF a, b, kept, seconds, key

LEMMA PrecedesByKeys ==
    ASSUME NEW s, NEW t, NEW criterion
    PROVE  statePrecedes(s, t, criterion) <=> compareInts(KeyOf(s, criterion), KeyOf(t, criterion))
<1> DEFINE Rank(state) == IF criterion = ShortestTime
                          THEN <<state.seconds, -Len(state.kept)>>
                          ELSE <<-Len(state.kept), state.seconds>>
<1>1. KeyOf(s, criterion) = Rank(s) \o s.kept /\ KeyOf(t, criterion) = Rank(t) \o t.kept
  BY Zenon DEF KeyOf
<1>2. statePrecedes(s, t, criterion) <=> compareInts(Rank(s) \o s.kept, Rank(t) \o t.kept)
  BY Zenon DEF statePrecedes
<1> HIDE DEF Rank
<1>q. QED
  BY <1>1, <1>2, Zenon

\* States are compared by all that they are.
LEMMA PrecedesIsAnOrder ==
    ASSUME NEW criterion
    PROVE  /\ \A s \in Way : ~statePrecedes(s, s, criterion)
           /\ \A s, t \in Way : s = t \/ statePrecedes(s, t, criterion) \/ statePrecedes(t, s, criterion)
           /\ \A s, t, u \in Way : statePrecedes(s, t, criterion) /\ statePrecedes(t, u, criterion)
                                      => statePrecedes(s, u, criterion)
<1>0. \A s \in Way : KeyOf(s, criterion) \in Seq(Int)
  BY KeysAreInts
<1>1. ASSUME NEW s \in Way PROVE ~statePrecedes(s, s, criterion)
  BY <1>0, PrecedesByKeys, IntsIrreflexive
<1>2. ASSUME NEW s \in Way, NEW t \in Way, s # t
      PROVE  statePrecedes(s, t, criterion) \/ statePrecedes(t, s, criterion)
  <2> DEFINE k == KeyOf(s, criterion)
             l == KeyOf(t, criterion)
  <2>1. ASSUME k = l PROVE FALSE
    <3>1. /\ Len(s.kept) + 2 = Len(t.kept) + 2 /\ Len(s.kept) \in Nat /\ Len(t.kept) \in Nat
          /\ s.kept \in Seq(Nat) /\ t.kept \in Seq(Nat)
          /\ (criterion = ShortestTime => s.seconds = t.seconds)
          /\ (criterion # ShortestTime => s.seconds = t.seconds)
          /\ \A i \in 1..Len(s.kept) : k[i + 2] = s.kept[i]
          /\ \A i \in 1..Len(t.kept) : l[i + 2] = t.kept[i]
      <4>1. /\ Len(k) = Len(s.kept) + 2 /\ Len(s.kept) \in Nat /\ s.kept \in Seq(Nat)
            /\ k[1] = (IF criterion = ShortestTime THEN s.seconds ELSE -Len(s.kept))
            /\ k[2] = (IF criterion = ShortestTime THEN -Len(s.kept) ELSE s.seconds)
            /\ \A i \in 1..Len(s.kept) : k[i + 2] = s.kept[i]
        BY KeysAreInts
      <4>2. /\ Len(l) = Len(t.kept) + 2 /\ Len(t.kept) \in Nat /\ t.kept \in Seq(Nat)
            /\ l[1] = (IF criterion = ShortestTime THEN t.seconds ELSE -Len(t.kept))
            /\ l[2] = (IF criterion = ShortestTime THEN -Len(t.kept) ELSE t.seconds)
            /\ \A i \in 1..Len(t.kept) : l[i + 2] = t.kept[i]
        BY KeysAreInts
      <4> HIDE DEF k, l
      <4>q. QED
        BY <2>1, <4>1, <4>2
    <3>2. Len(s.kept) = Len(t.kept) /\ s.seconds = t.seconds
      BY <3>1
    <3>3. \A i \in 1..Len(s.kept) : s.kept[i] = t.kept[i]
      <4> HIDE DEF k, l
      <4>q. QED
        BY <2>1, <3>1, <3>2
    <3>4. s.kept = t.kept
      BY <3>1, <3>2, <3>3, SeqEqual
    <3>q. QED
      BY <1>2, <3>2, <3>4 DEF Way
  <2>q. QED
    BY <1>0, <2>1, PrecedesByKeys, IntsTotal
<1>3. ASSUME NEW s \in Way, NEW t \in Way, NEW u \in Way,
             statePrecedes(s, t, criterion), statePrecedes(t, u, criterion)
      PROVE  statePrecedes(s, u, criterion)
  <2>1. compareInts(KeyOf(s, criterion), KeyOf(t, criterion)) /\ compareInts(KeyOf(t, criterion), KeyOf(u, criterion))
    BY <1>3, PrecedesByKeys
  <2>2. compareInts(KeyOf(s, criterion), KeyOf(u, criterion))
    BY <1>0, <2>1, IntsTransitive
  <2>q. QED
    BY <2>2, PrecedesByKeys
<1>q. QED
  BY <1>1, <1>2, <1>3

LEMMA PrecedesIsNoWorse ==
    ASSUME NEW s \in Way, NEW t \in Way, NEW criterion, statePrecedes(s, t, criterion)
    PROVE  NoWorse(s, t, criterion)
<1> DEFINE k == KeyOf(s, criterion)
           l == KeyOf(t, criterion)
           m == Len(s.kept)
           n == Len(t.kept)
           x == s.seconds
           y == t.seconds
<1>1. /\ k \in Seq(Int) /\ Len(k) = m + 2 /\ m \in Nat /\ x \in Nat
      /\ k[1] = (IF criterion = ShortestTime THEN x ELSE -m)
      /\ k[2] = (IF criterion = ShortestTime THEN -m ELSE x)
  BY KeysAreInts
<1>2. /\ l \in Seq(Int) /\ Len(l) = n + 2 /\ n \in Nat /\ y \in Nat
      /\ l[1] = (IF criterion = ShortestTime THEN y ELSE -n)
      /\ l[2] = (IF criterion = ShortestTime THEN -n ELSE y)
  BY KeysAreInts
<1>3. compareInts(k, l)
  BY PrecedesByKeys
<1> HIDE DEF k, l
<1>4. PICK i \in 1..Len(l) : Differs(k, l, i)
  BY <1>1, <1>2, <1>3, ComparedInts
<1>5. \/ k[1] < l[1]
      \/ k[1] = l[1] /\ k[2] < l[2]
      \/ k[1] = l[1] /\ k[2] = l[2]
  <2>1. /\ \A j \in 1..(i - 1) : k[j] = l[j]
        /\ i <= Len(k) => k[i] < l[i]
        /\ i \in Nat /\ i >= 1 /\ 1 <= Len(k) /\ 2 <= Len(k)
    <3>1. (\A j \in 1..(i - 1) : k[j] = l[j]) /\ (i <= Len(k) => k[i] < l[i])
      BY <1>4 DEF Differs
    <3>2. i \in Nat /\ i >= 1
      BY <1>2
    <3>3. \A a \in Nat : 1 <= a + 2 /\ 2 <= a + 2
      OBVIOUS
    <3>q. QED
      BY <1>1, <3>1, <3>2, <3>3, Zenon
  <2>2. CASE i = 1
    BY <2>1, <2>2
  <2>3. CASE i = 2
    BY <2>1, <2>3
  <2>4. CASE i > 2
    <3>1. 1 \in 1..(i - 1) /\ 2 \in 1..(i - 1)
      BY <2>1, <2>4
    <3>q. QED
      BY <2>1, <3>1
  <2>q. QED
    BY <2>1, <2>2, <2>3, <2>4
<1>6. NoWorse(s, t, criterion) <=> IF criterion = ShortestTime THEN x - y < 0 \/ (x - y = 0 /\ m - n >= 0)
                                   ELSE m - n > 0 \/ (m - n = 0 /\ x - y <= 0)
  BY DEF NoWorse
<1> HIDE DEF m, n, x, y
<1>q. QED
  BY <1>1, <1>2, <1>5, <1>6

\* Of states that there are, one is the best, and it is no worse than any.
LEMMA BestExists ==
    ASSUME NEW S \in SUBSET Way, IsFiniteSet(S), S # {}, NEW criterion
    PROVE  Best(S, criterion) # {}
<1> DEFINE Before(s) == {t \in S : statePrecedes(t, s, criterion)}
           D == {Cardinality(Before(s)) : s \in S}
<1>1. \A s \in S : IsFiniteSet(Before(s)) /\ Cardinality(Before(s)) \in Nat
  <2>1. ASSUME NEW s \in S PROVE IsFiniteSet(Before(s)) /\ Cardinality(Before(s)) \in Nat
    <3>1. Before(s) \in SUBSET S
      OBVIOUS
    <3> HIDE DEF Before
    <3>q. QED
      BY <3>1, FS_Subset, FS_CardinalityType
  <2>q. QED
    BY <2>1
<1>2. PICK s \in S : \A t \in S : Cardinality(Before(s)) <= Cardinality(Before(t))
  <2>1. D \subseteq Nat /\ D # {}
    BY <1>1
  <2>2. PICK m \in D : \A k \in D : m <= k
    <3> HIDE DEF D
    <3>q. QED
      BY <2>1, LeastNumber
  <2> HIDE DEF Before
  <2>q. QED
    BY <2>2
<1>3. ASSUME NEW t \in S, t # s PROVE statePrecedes(s, t, criterion)
  <2> SUFFICES ASSUME statePrecedes(t, s, criterion) PROVE FALSE
    BY <1>3, PrecedesIsAnOrder
  <2>1. Before(t) \subseteq Before(s)
    BY PrecedesIsAnOrder
  <2>2. t \in Before(s) /\ t \notin Before(t)
    BY PrecedesIsAnOrder
  <2> HIDE DEF Before
  <2>3. /\ Cardinality(Before(t)) <= Cardinality(Before(s))
        /\ Cardinality(Before(s)) = Cardinality(Before(t)) => Before(s) = Before(t)
    BY <1>1, <2>1, FS_Subset
  <2>4. \A a, b \in Nat : a <= b /\ b <= a => a = b
    OBVIOUS
  <2>q. QED
    BY <1>1, <1>2, <2>2, <2>3, <2>4
<1>q. QED
  BY <1>3 DEF Best

LEMMA BestIsNoWorse ==
    ASSUME NEW S \in SUBSET Way, NEW criterion, NEW s \in Best(S, criterion), NEW t \in S
    PROVE  s \in S /\ NoWorse(s, t, criterion)
<1>1. s \in S /\ (t # s => statePrecedes(s, t, criterion))
  BY DEF Best
<1>2. CASE t = s
  <2>1. s.seconds \in Nat /\ Len(s.kept) \in Nat
    BY <1>1, KeysAreInts
  <2>q. QED
    BY <1>1, <1>2, <2>1 DEF NoWorse
<1>q. QED
  BY <1>1, <1>2, PrecedesIsNoWorse

LEMMA NoWorseGoesOn ==
    ASSUME NEW criterion, NEW a, NEW b, NEW c,
           a.seconds \in Int, b.seconds \in Int, c.seconds \in Int,
           Len(a.kept) \in Int, Len(b.kept) \in Int, Len(c.kept) \in Int
    PROVE  /\ NoWorse(a, b, criterion) /\ NoWorse(b, c, criterion) => NoWorse(a, c, criterion)
           /\ NoWorse(a, a, criterion)
           /\ \A d, e : \A t \in Int :
                /\ NoWorse(a, b, criterion)
                /\ d.seconds = a.seconds + t /\ e.seconds = b.seconds + t
                /\ Len(d.kept) = Len(a.kept) + 1 /\ Len(e.kept) = Len(b.kept) + 1
                => NoWorse(d, e, criterion)
<1> DEFINE N(m, n, x, y) == IF criterion = ShortestTime THEN x - y < 0 \/ (x - y = 0 /\ m - n >= 0)
                            ELSE m - n > 0 \/ (m - n = 0 /\ x - y <= 0)
<1>1. \A s, t : NoWorse(s, t, criterion) <=> N(Len(s.kept), Len(t.kept), s.seconds, t.seconds)
  BY DEF NoWorse
<1>2. \A m, n, o, x, y, z \in Int : N(m, n, x, y) /\ N(n, o, y, z) => N(m, o, x, z)
  OBVIOUS
<1>3. \A m, x \in Int : N(m, m, x, x)
  OBVIOUS
<1>4. \A m, n, x, y, t \in Int : N(m, n, x, y) => N(m + 1, n + 1, x + t, y + t)
  OBVIOUS
<1> HIDE DEF N
<1>5. ASSUME NEW d, NEW e, NEW t \in Int, NoWorse(a, b, criterion),
             d.seconds = a.seconds + t, e.seconds = b.seconds + t,
             Len(d.kept) = Len(a.kept) + 1, Len(e.kept) = Len(b.kept) + 1
      PROVE  NoWorse(d, e, criterion)
  <2>1. N(Len(a.kept) + 1, Len(b.kept) + 1, a.seconds + t, b.seconds + t)
    BY <1>1, <1>4, <1>5
  <2>q. QED
    BY <1>1, <1>5, <2>1
<1>q. QED
  BY <1>1, <1>2, <1>3, <1>5

-----------------------------------------------------------------------------
(* The time of a way, and the ways to cross an interval.                   *)

TimeOf(kept, paths) == State(kept, paths).seconds

JoinedBy(kept, paths) == \A k \in 1..(Len(kept) - 1) : <<kept[k], kept[k + 1]>> \in DOMAIN paths

\* The times at which a way reaches its nodes.
Clocks(f, kept, paths) ==
    /\ f \in [1..Len(kept) -> Nat] /\ f[1] = 0
    /\ \A k \in 2..Len(kept) : f[k] = f[k - 1] + paths[<<kept[k - 1], kept[k]>>].seconds

LEMMA ClocksExist ==
    ASSUME NEW paths, Timed(paths), NEW kept, Len(kept) \in Nat, Len(kept) >= 1, JoinedBy(kept, paths)
    PROVE  \E f : Clocks(f, kept, paths)
<1> DEFINE n == Len(kept)
           length == [k \in 1..n |-> IF k = 1 THEN 0 ELSE paths[<<kept[k - 1], kept[k]>>].seconds]
<1>1. n \in Nat /\ n >= 1
  OBVIOUS
<1>2. \A k \in 2..n : paths[<<kept[k - 1], kept[k]>>].seconds \in Nat
  <2>1. TAKE k \in 2..n
  <2>2. k - 1 \in 1..(Len(kept) - 1) /\ (k - 1) + 1 = k
    BY <1>1
  <2>3. <<kept[k - 1], kept[k]>> \in DOMAIN paths
    BY <2>2 DEF JoinedBy
  <2>q. QED
    BY <2>3 DEF Timed
<1>3. length \in [1..n -> Nat] /\ length[1] = 0
      /\ \A k \in 2..n : length[k] = paths[<<kept[k - 1], kept[k]>>].seconds
  <2>1. \A k \in 1..n : k = 1 \/ k \in 2..n
    BY <1>1
  <2>2. \A k \in 2..n : k \in 1..n /\ k # 1
    BY <1>1
  <2> HIDE DEF n
  <2>q. QED
    BY <1>1, <1>2, <2>1, <2>2
<1> HIDE DEF length, n
<1>4. PICK d \in [0..n -> Nat] : d[0] = 0 /\ \A k \in 1..n : d[k] = d[k - 1] + length[k]
  BY <1>1, <1>3, SumsExist
<1> DEFINE f == [k \in 1..n |-> d[k]]
<1>5. f \in [1..n -> Nat] /\ f[1] = 0
  <2>1. 1 \in 1..n /\ 1 - 1 = 0 /\ 0 + 0 = 0
    BY <1>1
  <2>2. d[1] = d[1 - 1] + length[1]
    BY <1>4, <2>1
  <2>3. f[1] = 0
    BY <1>3, <1>4, <2>1, <2>2
  <2>4. \A k \in 1..n : d[k] \in Nat
    BY <1>1, <1>4
  <2>q. QED
    BY <2>3, <2>4
<1>6. ASSUME NEW k \in 2..n PROVE f[k] = f[k - 1] + paths[<<kept[k - 1], kept[k]>>].seconds
  <2>1. k \in 1..n /\ k - 1 \in 1..n
    BY <1>1
  <2>q. QED
    BY <1>3, <1>4, <2>1
<1> HIDE DEF f
<1>q. QED
  BY <1>5, <1>6 DEF Clocks, n

LEMMA ClocksAgree ==
    ASSUME NEW paths, NEW kept, NEW longer, Len(kept) \in Nat, Len(kept) >= 1, Len(longer) \in Nat,
           Len(kept) <= Len(longer), \A k \in 1..Len(kept) : longer[k] = kept[k],
           NEW f, Clocks(f, kept, paths), NEW g, Clocks(g, longer, paths)
    PROVE  \A k \in 1..Len(kept) : g[k] = f[k]
<1> DEFINE n == Len(kept)
           N == {k \in 1..n : g[k] = f[k]}
<1>1. 1 \in N
  BY DEF Clocks
<1>2. ASSUME NEW k \in (1 + 1)..n, k - 1 \in N PROVE k \in N
  <2>1. k \in 2..Len(kept) /\ k \in 2..Len(longer) /\ k - 1 \in 1..Len(kept) /\ k \in 1..Len(kept)
    OBVIOUS
  <2>2. longer[k] = kept[k] /\ longer[k - 1] = kept[k - 1]
    BY <2>1
  <2>3. /\ f[k] = f[k - 1] + paths[<<kept[k - 1], kept[k]>>].seconds
        /\ g[k] = g[k - 1] + paths[<<longer[k - 1], longer[k]>>].seconds
    BY <2>1 DEF Clocks
  <2>q. QED
    BY <1>2, <2>1, <2>2, <2>3
<1>3. 1 \in Int /\ n \in Int
  OBVIOUS
<1> HIDE DEF N
<1>4. \A k \in 1..n : k \in N
  BY <1>1, <1>2, <1>3, Ascends, Zenon
<1>q. QED
  BY <1>4 DEF N

LEMMA TimeIsClock ==
    ASSUME NEW paths, NEW kept, DOMAIN kept = 1..Len(kept), Len(kept) \in Nat, Len(kept) >= 1,
           NEW f, Clocks(f, kept, paths)
    PROVE  TimeOf(kept, paths) = f[Len(kept)] /\ State(kept, paths) = [kept |-> kept, seconds |-> f[Len(kept)]]
<1> DEFINE equation(g) == [k \in DOMAIN kept |->
                              IF k = 1 THEN 0 ELSE g[k - 1] + paths[<<kept[k - 1], kept[k]>>].seconds]
           seconds == CHOOSE g : g = equation(g)
<1>1. f = equation(f)
  <2>1. \A k \in 1..Len(kept) : k = 1 \/ k \in 2..Len(kept)
    OBVIOUS
  <2>2. \A k \in 1..Len(kept) : f[k] = IF k = 1 THEN 0 ELSE f[k - 1] + paths[<<kept[k - 1], kept[k]>>].seconds
    BY <2>1 DEF Clocks
  <2>3. f = [k \in 1..Len(kept) |-> f[k]]
    BY DEF Clocks
  <2>q. QED
    BY <2>2, <2>3
<1>2. seconds = equation(seconds)
  <2> HIDE DEF equation
  <2>q. QED
    BY <1>1
<1>3. State(kept, paths) = [kept |-> kept, seconds |-> seconds[Len(kept)]]
  BY DEF State
<1> HIDE DEF seconds
<1>4. \A k \in 1..Len(kept) :
         seconds[k] = IF k = 1 THEN 0 ELSE seconds[k - 1] + paths[<<kept[k - 1], kept[k]>>].seconds
  BY <1>2
<1> HIDE DEF equation
<1> DEFINE n == Len(kept)
           N == {k \in 1..n : seconds[k] = f[k]}
<1>5. 1 \in N
  <2>1. 1 \in 1..Len(kept)
    OBVIOUS
  <2>q. QED
    BY <1>4, <2>1 DEF Clocks
<1>6. ASSUME NEW k \in (1 + 1)..n, k - 1 \in N PROVE k \in N
  <2>1. k \in 2..Len(kept) /\ k \in 1..Len(kept) /\ k # 1
    OBVIOUS
  <2>2. /\ f[k] = f[k - 1] + paths[<<kept[k - 1], kept[k]>>].seconds
        /\ seconds[k] = seconds[k - 1] + paths[<<kept[k - 1], kept[k]>>].seconds
    BY <1>4, <2>1 DEF Clocks
  <2>q. QED
    BY <1>6, <2>1, <2>2
<1>7. 1 \in Int /\ n \in Int /\ n \in 1..n
  OBVIOUS
<1> HIDE DEF N
<1>8. n \in N
  BY <1>5, <1>6, <1>7, Ascends, Zenon
<1>9. seconds[Len(kept)] = f[Len(kept)]
  BY <1>8 DEF N
<1>q. QED
  BY <1>3, <1>9 DEF TimeOf

\* A lone node takes no time, and a path what it takes.
LEMMA TimeAdds ==
    ASSUME NEW paths, Timed(paths), NEW kept \in Seq(Nat), Len(kept) >= 1, JoinedBy(kept, paths), NEW end \in Nat
    PROVE  /\ TimeOf(kept, paths) \in Nat
           /\ State(kept, paths) = [kept |-> kept, seconds |-> TimeOf(kept, paths)]
           /\ Len(kept) = 1 => TimeOf(kept, paths) = 0
           /\ <<kept[Len(kept)], end>> \in DOMAIN paths =>
                /\ JoinedBy(Append(kept, end), paths)
                /\ TimeOf(Append(kept, end), paths) = TimeOf(kept, paths) + paths[<<kept[Len(kept)], end>>].seconds
<1> DEFINE n == Len(kept)
           longer == Append(kept, end)
<1>1. n \in Nat /\ n >= 1 /\ DOMAIN kept = 1..n
  OBVIOUS
<1>2. PICK f : Clocks(f, kept, paths)
  BY <1>1, ClocksExist
<1>3. TimeOf(kept, paths) = f[n] /\ State(kept, paths) = [kept |-> kept, seconds |-> f[n]]
  BY <1>1, <1>2, TimeIsClock
<1>4. f[n] \in Nat /\ (n = 1 => f[n] = 0)
  BY <1>1, <1>2 DEF Clocks
<1>5. ASSUME <<kept[n], end>> \in DOMAIN paths
      PROVE  JoinedBy(longer, paths) /\ TimeOf(longer, paths) = f[n] + paths[<<kept[n], end>>].seconds
  <2>1. /\ Len(longer) = n + 1 /\ DOMAIN longer = 1..(n + 1) /\ longer[n + 1] = end
        /\ \A k \in 1..n : longer[k] = kept[k]
    BY <1>1
  <2> HIDE DEF longer
  <2>2. JoinedBy(longer, paths)
    <3> SUFFICES ASSUME NEW k \in 1..(Len(longer) - 1) PROVE <<longer[k], longer[k + 1]>> \in DOMAIN paths
      BY DEF JoinedBy
    <3>1. CASE k = n
      BY <1>1, <1>5, <2>1, <3>1
    <3>2. CASE k # n
      <4>1. k \in 1..(n - 1) /\ k \in 1..n /\ k + 1 \in 1..n
        <5>1. \A m \in Nat : \A j \in 1..((m + 1) - 1) : j # m => j \in 1..(m - 1) /\ j \in 1..m /\ j + 1 \in 1..m
          OBVIOUS
        <5> HIDE DEF n
        <5>q. QED
          BY <1>1, <2>1, <3>2, <5>1
      <4>2. <<kept[k], kept[k + 1]>> \in DOMAIN paths
        BY <4>1 DEF JoinedBy
      <4>q. QED
        BY <2>1, <4>1, <4>2
    <3>q. QED
      BY <3>1, <3>2
  <2>3. Len(longer) \in Nat /\ Len(longer) >= 1 /\ n <= Len(longer) /\ n \in 1..n /\ n + 1 \in 2..Len(longer)
        /\ (n + 1) - 1 = n
    BY <1>1, <2>1
  <2>4. PICK g : Clocks(g, longer, paths)
    BY <2>2, <2>3, ClocksExist
  <2>5. TimeOf(longer, paths) = g[n + 1]
    BY <2>1, <2>3, <2>4, TimeIsClock
  <2>6. \A k \in 1..n : g[k] = f[k]
    <3>1. /\ Len(kept) \in Nat /\ Len(kept) >= 1 /\ Len(kept) <= Len(longer)
          /\ \A k \in 1..Len(kept) : longer[k] = kept[k]
      BY <1>1, <2>1, <2>3
    <3> HIDE DEF n
    <3>2. \A k \in 1..Len(kept) : g[k] = f[k]
      BY <1>2, <2>3, <2>4, <3>1, ClocksAgree
    <3>q. QED
      BY <3>2 DEF n
  <2>7. g[n + 1] = g[n] + paths[<<longer[n], longer[n + 1]>>].seconds
    BY <2>3, <2>4 DEF Clocks
  <2>q. QED
    BY <2>1, <2>2, <2>3, <2>5, <2>6, <2>7
<1>q. QED
  BY <1>3, <1>4, <1>5

-----------------------------------------------------------------------------
(* The ways to cross an interval, one path at a time.                      *)

\* A way to a node over paths that there are.
Crossing(nodes, paths, end, kept) == Reaches(nodes, end, kept) /\ JoinedBy(kept, paths)

NoTurns(paths) == \A a, b \in DOMAIN paths : a[2] = b[1] => ~Turns(paths[a].arriving, paths[b].leaving)

\* A way of more than a node is a way to the one before its end, and a path on.
LEMMA CrossingShortens ==
    ASSUME NEW nodes \in Seq(Node), NEW paths, NEW end \in 1..Len(nodes), NEW kept,
           Crossing(nodes, paths, end, kept), Len(kept) > 1
    PROVE  \E start \in 1..(end - 1) : \E prefix :
             /\ Crossing(nodes, paths, start, prefix) /\ kept = Append(prefix, end)
             /\ ~containsRequired(nodes, start + 1, end - 1) /\ <<start, end>> \in DOMAIN paths
<1> DEFINE m == Len(kept) - 1
           prefix == [k \in 1..m |-> kept[k]]
           start == kept[m]
<1>1. /\ kept \in Seq(1..Len(nodes)) /\ Len(kept) \in Nat /\ DOMAIN kept = 1..Len(kept) /\ kept[Len(kept)] = end
      /\ \A i, j \in DOMAIN kept : i < j => kept[i] < kept[j]
      /\ \A i \in DOMAIN kept : HasPoint(nodes[kept[i]])
      /\ \A n \in 1..end : nodes[n].availability = Required => n \in Range(kept)
  BY DEF Crossing, Reaches
<1>2. m \in Nat /\ m >= 1 /\ Len(kept) = m + 1 /\ Len(nodes) \in Nat /\ end \in Nat
  BY <1>1
<1> HIDE DEF m
<1>3. \A i \in 1..(m + 1) : i \in DOMAIN kept /\ kept[i] \in 1..Len(nodes) /\ kept[i] \in Nat /\ (i \in 1..m \/ i = m + 1)
  BY <1>1, <1>2
<1>4. m \in 1..(m + 1) /\ m + 1 \in 1..(m + 1) /\ m < m + 1 /\ m \in 1..m
      /\ \A i \in 1..m : i \in 1..(m + 1) /\ i < m + 1 /\ (i = m \/ i < m)
  BY <1>2
<1>5. start \in Nat /\ start < end /\ start \in 1..(end - 1) /\ kept[m + 1] = end
  <2>1. kept[m] < kept[m + 1] /\ kept[m + 1] = end /\ kept[m] \in 1..Len(nodes)
    BY <1>1, <1>2, <1>3, <1>4
  <2>2. \A a \in 1..Len(nodes) : a < end => a \in Nat /\ a \in 1..(end - 1)
    BY <1>2
  <2>q. QED
    BY <2>1, <2>2
<1>6. /\ prefix \in Seq(1..Len(nodes)) /\ Len(prefix) = m /\ DOMAIN prefix = 1..m
      /\ \A k \in 1..m : prefix[k] = kept[k]
  BY <1>2, <1>3, <1>4
<1>7. \A i \in 1..m : kept[i] <= start
  <2>1. TAKE i \in 1..m
  <2>2. CASE i = m
    BY <1>5, <2>2
  <2>3. CASE i < m
    <3>1. kept[i] < kept[m] /\ kept[i] \in Nat
      BY <1>1, <1>3, <1>4, <2>3
    <3>q. QED
      BY <1>5, <3>1
  <2>q. QED
    BY <1>4, <2>2, <2>3
<1> HIDE DEF prefix, start
<1>8. ASSUME NEW n \in 1..end, nodes[n].availability = Required
      PROVE  n = end \/ \E i \in 1..m : kept[i] = n
  <2>1. PICK i \in 1..(m + 1) : kept[i] = n
    <3>1. n \in Range(kept)
      BY <1>1, <1>8
    <3>q. QED
      BY <1>1, <1>2, <3>1 DEF Range
  <2>q. QED
    BY <1>3, <1>5, <2>1
<1>9. Reaches(nodes, start, prefix)
  <2>1. Len(prefix) >= 1 /\ prefix[Len(prefix)] = start
    BY <1>2, <1>4, <1>6 DEF start
  <2>2. \A i, j \in DOMAIN prefix : i < j => prefix[i] < prefix[j]
    BY <1>1, <1>3, <1>4, <1>6
  <2>3. \A i \in DOMAIN prefix : HasPoint(nodes[prefix[i]])
    BY <1>1, <1>3, <1>4, <1>6
  <2>4. ASSUME NEW n \in 1..start, nodes[n].availability = Required PROVE n \in Range(prefix)
    <3>1. n \in 1..end /\ n # end
      BY <1>2, <1>5
    <3>2. PICK i \in 1..m : kept[i] = n
      BY <1>8, <2>4, <3>1
    <3>q. QED
      BY <1>6, <3>2 DEF Range
  <2>q. QED
    BY <1>6, <2>1, <2>2, <2>3, <2>4 DEF Reaches
<1>10. JoinedBy(prefix, paths) /\ <<start, end>> \in DOMAIN paths
  <2>1. \A k \in 1..m : <<kept[k], kept[k + 1]>> \in DOMAIN paths
    <3>1. \A k \in 1..(Len(kept) - 1) : <<kept[k], kept[k + 1]>> \in DOMAIN paths
      BY DEF Crossing, JoinedBy
    <3>q. QED
      BY <3>1 DEF m
  <2>2. \A k \in 1..(m - 1) : k \in 1..m /\ k + 1 \in 1..m
    BY <1>2
  <2>q. QED
    BY <1>4, <1>5, <1>6, <2>1, <2>2 DEF JoinedBy, start
<1>11. ~containsRequired(nodes, start + 1, end - 1)
  <2> SUFFICES ASSUME NEW n \in (start + 1)..(end - 1), nodes[n].availability = Required PROVE FALSE
    BY DEF containsRequired
  <2>1. n \in 1..end /\ n # end /\ n \in Nat /\ ~(n <= start)
    BY <1>2, <1>5
  <2>q. QED
    BY <1>7, <1>8, <2>1
<1>12. kept = Append(prefix, end)
  <2> DEFINE longer == Append(prefix, end)
  <2>1. /\ longer \in Seq(1..Len(nodes)) /\ Len(longer) = m + 1 /\ longer[m + 1] = end
        /\ \A k \in 1..m : longer[k] = prefix[k]
    BY <1>2, <1>6
  <2> HIDE DEF longer
  <2>2. \A k \in 1..(m + 1) : kept[k] = longer[k]
    BY <1>3, <1>5, <1>6, <2>1
  <2>3. kept = longer
    BY <1>1, <1>2, <2>1, <2>2, SeqEqual
  <2>q. QED
    BY <2>3 DEF longer
<1>q. QED
  BY <1>5, <1>9, <1>10, <1>11, <1>12 DEF Crossing

\* The numbers of a set are listed in order in one way only.
LEMMA ListsBegin ==
    ASSUME NEW n \in Nat, NEW some, NEW s, Lists(s, n, some), NEW t, Lists(t, n, some)
    PROVE  Len(s) <= Len(t) /\ \A k \in 1..Len(s) : s[k] = t[k]
<1>1. /\ Len(s) \in Nat /\ DOMAIN s = 1..Len(s) /\ Len(t) \in Nat /\ DOMAIN t = 1..Len(t)
      /\ \A i \in 1..Len(s) : s[i] \in (0..n) \cap some /\ s[i] \in Nat
      /\ \A i \in 1..Len(t) : t[i] \in (0..n) \cap some /\ t[i] \in Nat
  <2>1. s \in Seq((0..n) \cap some) /\ t \in Seq((0..n) \cap some)
    BY DEF Lists
  <2>q. QED
    BY <2>1
<1>2. /\ \A i, j \in 1..Len(s) : i < j => s[i] < s[j]
      /\ \A i, j \in 1..Len(t) : i < j => t[i] < t[j]
      /\ \A x \in (0..n) \cap some : (\E i \in 1..Len(s) : s[i] = x) /\ (\E i \in 1..Len(t) : t[i] = x)
  BY <1>1 DEF Lists
<1> DEFINE N == {k \in 0..Len(s) : k <= Len(t) /\ \A j \in 1..k : s[j] = t[j]}
<1>3. 0 \in N
  BY <1>1
<1>4. ASSUME NEW k \in (0 + 1)..Len(s), k - 1 \in N PROVE k \in N
  <2>1. k \in 1..Len(s) /\ k - 1 <= Len(t) /\ \A j \in 1..(k - 1) : s[j] = t[j]
    BY <1>1, <1>4
  <2> HIDE DEF N
  <2>2. \A j \in 1..(k - 1) : j \in 1..Len(s) /\ j \in 1..Len(t) /\ j < k
    BY <1>1, <2>1
  <2>3. PICK i \in 1..Len(t) : t[i] = s[k]
    BY <1>1, <1>2, <2>1
  <2>4. i \notin 1..(k - 1)
    <3> SUFFICES ASSUME i \in 1..(k - 1) PROVE FALSE
      OBVIOUS
    <3>1. s[i] = s[k] /\ s[i] < s[k] /\ s[k] \in Nat
      BY <1>1, <1>2, <2>1, <2>2, <2>3
    <3>q. QED
      BY <3>1
  <2>5. k <= i /\ k \in 1..Len(t) /\ (i = k \/ k < i)
    BY <1>1, <2>1, <2>3, <2>4
  <2>6. PICK l \in 1..Len(s) : s[l] = t[k]
    BY <1>1, <1>2, <2>5
  <2>7. l \notin 1..(k - 1)
    <3> SUFFICES ASSUME l \in 1..(k - 1) PROVE FALSE
      OBVIOUS
    <3>1. t[l] = t[k] /\ t[l] < t[k] /\ t[k] \in Nat
      BY <1>1, <1>2, <2>1, <2>2, <2>5, <2>6
    <3>q. QED
      BY <3>1
  <2>8. l = k \/ k < l
    BY <1>1, <2>1, <2>6, <2>7
  <2>9. s[k] = t[k]
    <3>1. (k < l => s[k] < s[l]) /\ (k < i => t[k] < t[i]) /\ s[k] \in Nat /\ t[k] \in Nat
      BY <1>1, <1>2, <2>1, <2>3, <2>5, <2>6
    <3>2. \A a, b \in Nat : ~(a < b /\ b < a) /\ ~(a < a)
      OBVIOUS
    <3>q. QED
      BY <2>3, <2>5, <2>6, <2>8, <3>1, <3>2, Zenon
  <2>10. k \in 0..Len(s) /\ k <= Len(t) /\ \A j \in 1..k : j = k \/ j \in 1..(k - 1)
    BY <1>1, <2>1, <2>5
  <2>q. QED
    BY <2>1, <2>9, <2>10 DEF N
<1>5. 0 \in Int /\ Len(s) \in Int /\ Len(s) \in 0..Len(s)
  BY <1>1
<1> HIDE DEF N
<1>6. Len(s) \in N
  BY <1>3, <1>4, <1>5, Ascends, Zenon
<1>q. QED
  BY <1>6 DEF N

LEMMA ListedOnce ==
    ASSUME NEW n \in Nat, NEW some, NEW s, Lists(s, n, some), NEW t, Lists(t, n, some)
    PROVE  s = t
<1>1. s \in Seq((0..n) \cap some) /\ t \in Seq((0..n) \cap some)
  BY DEF Lists
<1>2. Len(s) <= Len(t) /\ Len(t) <= Len(s) /\ \A k \in 1..Len(s) : s[k] = t[k]
  BY ListsBegin
<1>3. Len(s) = Len(t)
  BY <1>1, <1>2
<1>q. QED
  BY <1>1, <1>2, <1>3, SeqEqual

-----------------------------------------------------------------------------
(* At each node, the states that are kept are no worse than any way to it. *)

\* A state that is as good as a way, and has more than a node when it has.
Covers(s, kept, paths, criterion) ==
    (Len(kept) > 1 => Len(s.kept) > 1) /\ NoWorse(s, State(kept, paths), criterion)

\* The states of a node: few, what their paths make of them, and as good as any.
BestFor(nodes, paths, criterion, end, best) ==
    /\ IsFiniteSet(best)
    /\ \A s \in best : JoinedBy(s.kept, paths) /\ s.seconds = TimeOf(s.kept, paths)
    /\ \A kept : Crossing(nodes, paths, end, kept) => \E s \in best : Covers(s, kept, paths, criterion)

BestWays(nodes, paths, criterion, end, states) ==
    /\ WaysTo(nodes, end, states)
    /\ \A e \in 1..end : BestFor(nodes, paths, criterion, e, states[e])

\* Of finitely many states, a path makes finitely many.
LEMMA ExtendedIsFinite ==
    ASSUME NEW paths, NEW states, NEW starts, IsFiniteSet(starts), NEW end, \A i \in starts : IsFiniteSet(states[i])
    PROVE  IsFiniteSet(Extended(paths, states, starts, end))
<1> DEFINE Going(i) == {t \in states[i] : ~reversesAtJunction(t.kept, end, paths)}
           Longer(i, s) == [kept |-> Append(s.kept, end), seconds |-> s.seconds + paths[<<i, end>>].seconds]
           From(i) == {Longer(i, s) : s \in Going(i)}
           begins == {i \in starts : <<i, end>> \in DOMAIN paths}
           sets == {From(i) : i \in begins}
<1>1. Extended(paths, states, starts, end) = UNION sets
  BY DEF Extended
<1>2. ASSUME NEW i \in begins PROVE IsFiniteSet(From(i))
  <2>1. IsFiniteSet(Going(i))
    <3>1. Going(i) \in SUBSET states[i] /\ IsFiniteSet(states[i])
      OBVIOUS
    <3> HIDE DEF Going
    <3>q. QED
      BY <3>1, FS_Subset
  <2> HIDE DEF Going, Longer
  <2> DEFINE M == [s \in Going(i) |-> Longer(i, s)]
  <2>2. M \in Surjection(Going(i), From(i))
    BY DEF Surjection
  <2> HIDE DEF M, From
  <2>q. QED
    BY <2>1, <2>2, FS_Surjection
<1>3. IsFiniteSet(begins)
  <2>1. begins \in SUBSET starts
    OBVIOUS
  <2> HIDE DEF begins
  <2>q. QED
    BY <2>1, FS_Subset
<1> HIDE DEF From, begins
<1>4. IsFiniteSet(sets)
  <2> DEFINE M == [i \in begins |-> From(i)]
  <2>1. M \in Surjection(begins, sets)
    BY DEF Surjection
  <2> HIDE DEF M, sets
  <2>q. QED
    BY <1>3, <2>1, FS_Surjection
<1>5. \A S \in sets : IsFiniteSet(S)
  BY <1>2
<1> HIDE DEF sets
<1>q. QED
  BY <1>1, <1>4, <1>5, FS_UNION

LEMMA WaysAreTimed ==
    ASSUME NEW nodes \in Seq(Node), NEW paths, Timed(paths), NEW end \in Nat, NEW kept, Crossing(nodes, paths, end, kept)
    PROVE  /\ kept \in Seq(Nat) /\ Len(kept) \in Nat /\ Len(kept) >= 1 /\ kept[Len(kept)] = end
           /\ TimeOf(kept, paths) \in Nat
           /\ State(kept, paths).kept = kept /\ State(kept, paths).seconds = TimeOf(kept, paths)
<1>1. kept \in Seq(1..Len(nodes)) /\ Len(kept) \in Nat /\ Len(kept) >= 1 /\ kept[Len(kept)] = end
  BY DEF Crossing, Reaches
<1>2. kept \in Seq(Nat)
  BY <1>1
<1>3. JoinedBy(kept, paths)
  BY DEF Crossing
<1>4. TimeOf(kept, paths) \in Nat /\ State(kept, paths) = [kept |-> kept, seconds |-> TimeOf(kept, paths)]
  BY <1>1, <1>2, <1>3, TimeAdds
<1>q. QED
  BY <1>1, <1>2, <1>4

LEMMA BestAtIsBest ==
    ASSUME NEW nodes \in Seq(Node), NEW paths, Timed(paths), NoTurns(paths), NEW criterion,
           NEW end \in 1..Len(nodes), NEW states, BestWays(nodes, paths, criterion, end - 1, states)
    PROVE  BestFor(nodes, paths, criterion, end, bestAt(nodes, paths, criterion, states, end))
<1> DEFINE best == bestAt(nodes, paths, criterion, states, end)
           starts == {i \in 1..(end - 1) : ~containsRequired(nodes, i + 1, end - 1)}
           extended == Extended(paths, states, starts, end)
           alone == Alone(nodes, end)
<1>0. /\ end \in Nat /\ WaysTo(nodes, end - 1, states) /\ starts \subseteq 1..(end - 1)
      /\ \A e \in 1..(end - 1) : BestFor(nodes, paths, criterion, e, states[e])
  BY DEF BestWays
<1>1. best = IF HasPoint(nodes[end]) THEN alone \cup Best(extended, criterion) ELSE {}
  BY DEF bestAt
<1>2. IsFiniteSet(extended)
  <2>1. IsFiniteSet(starts)
    <3>1. IsFiniteSet(1..(end - 1)) /\ starts \in SUBSET (1..(end - 1))
      BY <1>0, FS_Interval
    <3> HIDE DEF starts
    <3>q. QED
      BY <3>1, FS_Subset
  <2>2. \A i \in starts : IsFiniteSet(states[i])
    BY <1>0 DEF BestFor
  <2> HIDE DEF starts
  <2>q. QED
    BY <2>1, <2>2, ExtendedIsFinite
\* What a path makes of a state that is kept is a way, with its time.
<1>3. ASSUME NEW start \in starts, NEW t \in states[start], <<start, end>> \in DOMAIN paths
      PROVE  LET s == [kept |-> Append(t.kept, end), seconds |-> t.seconds + paths[<<start, end>>].seconds]
             IN  /\ s \in extended /\ s \in Way
                 /\ JoinedBy(s.kept, paths) /\ s.seconds = TimeOf(s.kept, paths)
                 /\ t \in Way /\ paths[<<start, end>>].seconds \in Nat
                 /\ Len(t.kept) \in Nat /\ Len(t.kept) >= 1 /\ Len(s.kept) = Len(t.kept) + 1
  <2> DEFINE more == paths[<<start, end>>].seconds
             s == [kept |-> Append(t.kept, end), seconds |-> t.seconds + more]
  <2>0. start \in 1..(end - 1) /\ start \in Nat
    BY <1>0
  <2>1. /\ t \in Way /\ t.kept \in Seq(Nat) /\ t.seconds \in Nat /\ Reaches(nodes, start, t.kept)
        /\ JoinedBy(t.kept, paths) /\ t.seconds = TimeOf(t.kept, paths)
    BY <1>0, <2>0 DEF WaysTo, BestFor, Way
  <2>2. Len(t.kept) \in Nat /\ Len(t.kept) >= 1 /\ t.kept[Len(t.kept)] = start
    BY <2>1 DEF Reaches
  <2>3. more \in Nat
    BY <1>3 DEF Timed
  <2>4. ~reversesAtJunction(t.kept, end, paths)
    <3> SUFFICES ASSUME Len(t.kept) > 1 PROVE ~Turns(paths[<<t.kept[Len(t.kept) - 1], Last(t.kept)>>].arriving,
                                                     paths[<<Last(t.kept), end>>].leaving)
      BY DEF reversesAtJunction
    <3>1. Last(t.kept) = start
      BY <2>2 DEF Last
    <3>2. Len(t.kept) - 1 \in 1..(Len(t.kept) - 1) /\ (Len(t.kept) - 1) + 1 = Len(t.kept)
      BY <2>2
    <3>3. <<t.kept[Len(t.kept) - 1], start>> \in DOMAIN paths
      BY <2>1, <2>2, <3>2 DEF JoinedBy
    <3>q. QED
      BY <1>3, <3>1, <3>3 DEF NoTurns
  <2>5. s \in extended
    <3> DEFINE From(i) == {[kept |-> Append(u.kept, end), seconds |-> u.seconds + paths[<<i, end>>].seconds] :
                              u \in {v \in states[i] : ~reversesAtJunction(v.kept, end, paths)}}
    <3>1. s \in From(start)
      BY <2>4
    <3>2. extended = UNION {From(i) : i \in {j \in starts : <<j, end>> \in DOMAIN paths}}
      BY DEF Extended
    <3> HIDE DEF From, extended, s, starts
    <3>q. QED
      BY <1>3, <3>1, <3>2
  <2>6. /\ JoinedBy(Append(t.kept, end), paths)
        /\ TimeOf(Append(t.kept, end), paths) = t.seconds + more
    BY <1>0, <1>3, <2>1, <2>2, TimeAdds
  <2>7. Append(t.kept, end) \in Seq(Nat) /\ Len(Append(t.kept, end)) = Len(t.kept) + 1
    BY <1>0, <2>1
  <2>8. s \in Way /\ s.kept = Append(t.kept, end) /\ s.seconds = t.seconds + more
    BY <2>1, <2>3, <2>7 DEF Way
  <2>q. QED
    BY <2>1, <2>2, <2>3, <2>5, <2>6, <2>7, <2>8
<1>4. ASSUME NEW s \in extended
      PROVE  s \in Way /\ JoinedBy(s.kept, paths) /\ s.seconds = TimeOf(s.kept, paths) /\ Len(s.kept) > 1
  <2>1. PICK start \in starts : \E t \in states[start] :
            /\ <<start, end>> \in DOMAIN paths
            /\ s = [kept |-> Append(t.kept, end), seconds |-> t.seconds + paths[<<start, end>>].seconds]
    BY <1>4 DEF Extended
  <2>2. PICK t \in states[start] :
            /\ <<start, end>> \in DOMAIN paths
            /\ s = [kept |-> Append(t.kept, end), seconds |-> t.seconds + paths[<<start, end>>].seconds]
    BY <2>1
  <2> HIDE DEF extended, starts
  <2>3. /\ s \in Way /\ JoinedBy(s.kept, paths) /\ s.seconds = TimeOf(s.kept, paths)
        /\ Len(t.kept) \in Nat /\ Len(t.kept) >= 1 /\ Len(s.kept) = Len(t.kept) + 1
    BY <1>3, <2>2
  <2>4. \A m \in Nat : m >= 1 => m + 1 > 1
    OBVIOUS
  <2>q. QED
    BY <2>3, <2>4
<1>5. ASSUME NEW s \in alone
      PROVE  /\ s.kept = <<end>> /\ s.seconds = 0 /\ Len(s.kept) = 1
             /\ JoinedBy(s.kept, paths) /\ s.seconds = TimeOf(s.kept, paths)
  <2>1. s = [kept |-> <<end>>, seconds |-> 0]
    BY DEF Alone
  <2>2. <<end>> \in Seq(Nat) /\ Len(<<end>>) = 1 /\ 1 >= 1 /\ 1..(1 - 1) = {}
    BY <1>0
  <2>3. JoinedBy(<<end>>, paths)
    BY <2>2 DEF JoinedBy
  <2>4. TimeOf(<<end>>, paths) = 0
    BY <1>0, <2>2, <2>3, TimeAdds
  <2>q. QED
    BY <2>1, <2>2, <2>3, <2>4
<1>6. IsFiniteSet(best)
  <2>1. IsFiniteSet(alone)
    <3>1. alone = {} \/ alone = {[kept |-> <<end>>, seconds |-> 0]}
      BY DEF Alone
    <3>2. IsFiniteSet({}) /\ IsFiniteSet({[kept |-> <<end>>, seconds |-> 0]})
      BY FS_EmptySet, FS_Singleton, Zenon
    <3> HIDE DEF alone
    <3>q. QED
      BY <3>1, <3>2, Zenon
  <2>2. Best(extended, criterion) \in SUBSET extended
    BY DEF Best
  <2> HIDE DEF alone, extended, best
  <2>3. IsFiniteSet(Best(extended, criterion))
    BY <1>2, <2>2, FS_Subset
  <2>q. QED
    BY <1>1, <2>1, <2>3, FS_Union, FS_EmptySet
<1>7. ASSUME NEW s \in best PROVE JoinedBy(s.kept, paths) /\ s.seconds = TimeOf(s.kept, paths)
  <2>1. s \in alone \/ s \in extended
    BY <1>1 DEF Best
  <2> HIDE DEF alone, extended, best
  <2>q. QED
    BY <1>4, <1>5, <2>1
<1>8. ASSUME NEW kept, Crossing(nodes, paths, end, kept) PROVE \E s \in best : Covers(s, kept, paths, criterion)
  <2>0. /\ kept \in Seq(Nat) /\ Len(kept) \in Nat /\ Len(kept) >= 1 /\ kept[Len(kept)] = end
        /\ TimeOf(kept, paths) \in Nat
        /\ State(kept, paths).kept = kept /\ State(kept, paths).seconds = TimeOf(kept, paths)
    BY <1>0, <1>8, WaysAreTimed
  <2>1. HasPoint(nodes[end])
    <3>1. Len(kept) \in DOMAIN kept
      BY <2>0
    <3>q. QED
      BY <1>8, <2>0, <3>1 DEF Crossing, Reaches
  <2>2. CASE Len(kept) = 1
    <3>1. kept = <<end>>
      BY <2>0, <2>2
    <3>2. ~containsRequired(nodes, 1, end - 1)
      <4> SUFFICES ASSUME NEW n \in 1..(end - 1), nodes[n].availability = Required PROVE FALSE
        BY DEF containsRequired
      <4>1. n \in 1..end /\ n # end
        BY <1>0
      <4>2. n \in Range(kept)
        BY <1>8, <4>1 DEF Crossing, Reaches
      <4>q. QED
        BY <2>0, <2>2, <4>1, <4>2 DEF Range
    <3> DEFINE s == [kept |-> <<end>>, seconds |-> 0]
    <3>3. s \in alone
      BY <3>2 DEF Alone
    <3>4. s \in best
      BY <1>1, <2>1, <3>3
    <3>5. s.kept = kept /\ s.seconds = State(kept, paths).seconds
      BY <1>5, <2>0, <3>1, <3>3
    <3>6. NoWorse(s, State(kept, paths), criterion)
      <4>1. 0 \in Int /\ 0 - 0 = 0 /\ Len(kept) - Len(kept) = 0
        BY <2>0
      <4>2. s.seconds = 0
        OBVIOUS
      <4> HIDE DEF s
      <4>q. QED
        BY <2>0, <3>5, <4>1, <4>2 DEF NoWorse
    <3>q. QED
      BY <2>2, <3>4, <3>6 DEF Covers
  <2>3. CASE Len(kept) > 1
    <3>1. PICK start \in 1..(end - 1) : \E prefix :
             /\ Crossing(nodes, paths, start, prefix) /\ kept = Append(prefix, end)
             /\ ~containsRequired(nodes, start + 1, end - 1) /\ <<start, end>> \in DOMAIN paths
      BY <1>8, <2>3, CrossingShortens
    <3>2. PICK prefix :
             /\ Crossing(nodes, paths, start, prefix) /\ kept = Append(prefix, end)
             /\ ~containsRequired(nodes, start + 1, end - 1) /\ <<start, end>> \in DOMAIN paths
      BY <3>1
    <3>3. start \in starts /\ start \in Nat
      BY <1>0, <3>2
    <3>4. PICK t \in states[start] : Covers(t, prefix, paths, criterion)
      BY <1>0, <3>2 DEF BestFor
    <3>5. /\ prefix \in Seq(Nat) /\ Len(prefix) \in Nat /\ Len(prefix) >= 1 /\ prefix[Len(prefix)] = start
          /\ TimeOf(prefix, paths) \in Nat
          /\ State(prefix, paths).kept = prefix /\ State(prefix, paths).seconds = TimeOf(prefix, paths)
      BY <3>2, <3>3, WaysAreTimed
    <3> DEFINE more == paths[<<start, end>>].seconds
               s == [kept |-> Append(t.kept, end), seconds |-> t.seconds + more]
    <3>6. /\ s \in extended /\ s \in Way /\ t \in Way /\ more \in Nat
          /\ Len(t.kept) \in Nat /\ Len(t.kept) >= 1 /\ Len(s.kept) = Len(t.kept) + 1 /\ s.seconds = t.seconds + more
      BY <1>3, <3>2, <3>3
    <3>7. Len(kept) = Len(prefix) + 1 /\ TimeOf(kept, paths) = TimeOf(prefix, paths) + more
      <4>1. JoinedBy(prefix, paths)
        BY <3>2 DEF Crossing
      <4>q. QED
        BY <1>0, <3>2, <3>5, <4>1, TimeAdds
    <3> HIDE DEF s, more, extended, alone, best, starts
    <3>8. NoWorse(s, State(kept, paths), criterion)
      <4> DEFINE a == State(prefix, paths)
                 b == State(kept, paths)
      <4>1. /\ a.kept = prefix /\ a.seconds \in Nat /\ b.seconds = a.seconds + more /\ b.kept = kept
            /\ Len(b.kept) = Len(a.kept) + 1
        BY <2>0, <3>5, <3>7
      <4>2. NoWorse(t, a, criterion)
        BY <3>4 DEF Covers
      <4>3. t.seconds \in Int /\ a.seconds \in Int /\ Len(t.kept) \in Int /\ Len(a.kept) \in Int /\ more \in Int
        <5>1. t.seconds \in Nat
          BY <3>6 DEF Way
        <5>2. \A m \in Nat : m \in Int
          OBVIOUS
        <5>q. QED
          BY <3>5, <3>6, <4>1, <5>1, <5>2
      <4> HIDE DEF a, b
      <4>q. QED
        BY <3>6, <4>1, <4>2, <4>3, NoWorseGoesOn, Zenon DEF b
    <3>9. extended \in SUBSET Way /\ extended # {}
      BY <1>4, <3>6
    <3>10. PICK c \in Best(extended, criterion) : TRUE
      BY <1>2, <3>9, BestExists
    <3>11. c \in extended /\ NoWorse(c, s, criterion)
      BY <3>6, <3>9, BestIsNoWorse
    <3>12. c \in best /\ Len(c.kept) > 1
      BY <1>1, <1>4, <2>1, <3>11
    <3>13. NoWorse(c, State(kept, paths), criterion)
      <4>1. c \in Way /\ s \in Way
        BY <1>4, <3>6, <3>11
      <4>2. /\ c.seconds \in Int /\ s.seconds \in Int /\ State(kept, paths).seconds \in Int
            /\ Len(c.kept) \in Int /\ Len(s.kept) \in Int /\ Len(State(kept, paths).kept) \in Int
        <5>1. c.seconds \in Nat /\ s.seconds \in Nat /\ c.kept \in Seq(Nat) /\ s.kept \in Seq(Nat)
          BY <4>1 DEF Way
        <5>2. Len(c.kept) \in Nat /\ Len(s.kept) \in Nat
          BY <5>1
        <5>3. \A m \in Nat : m \in Int
          OBVIOUS
        <5>q. QED
          BY <2>0, <5>1, <5>2, <5>3
      <4>q. QED
        BY <3>8, <3>11, <4>2, NoWorseGoesOn
    <3>q. QED
      BY <3>12, <3>13 DEF Covers
  <2>4. \A m \in Nat : m >= 1 => m = 1 \/ m > 1
    OBVIOUS
  <2>q. QED
    BY <2>0, <2>2, <2>3, <2>4, Zenon
<1> HIDE DEF best
<1>q. QED
  BY <1>6, <1>7, <1>8 DEF BestFor, best

LEMMA BestGoesOn ==
    ASSUME NEW nodes \in Seq(Node), NEW paths, Timed(paths), NoTurns(paths), NEW criterion,
           NEW end \in 1..Len(nodes), NEW states, BestWays(nodes, paths, criterion, end - 1, states)
    PROVE  BestWays(nodes, paths, criterion, end, Append(states, bestAt(nodes, paths, criterion, states, end)))
<1> DEFINE best == bestAt(nodes, paths, criterion, states, end)
           more == Append(states, best)
<1>1. WaysTo(nodes, end, more)
  BY WaysGoOn DEF BestWays
<1>2. BestFor(nodes, paths, criterion, end, best)
  BY BestAtIsBest
<1>3. /\ states \in Seq(SUBSET Way) /\ Len(states) = end - 1
      /\ \A e \in 1..(end - 1) : BestFor(nodes, paths, criterion, e, states[e])
  BY DEF BestWays, WaysTo
<1> HIDE DEF best
<1>4. more[end] = best /\ \A e \in 1..(end - 1) : more[e] = states[e]
  BY <1>3
<1> HIDE DEF more
<1>5. \A e \in 1..end : e = end \/ e \in 1..(end - 1)
  OBVIOUS
<1>6. \A e \in 1..end : BestFor(nodes, paths, criterion, e, more[e])
  BY <1>2, <1>3, <1>4, <1>5
<1>q. QED
  BY <1>1, <1>6 DEF BestWays, more, best

LEMMA BestByEndIsBest ==
    ASSUME NEW nodes \in Seq(Node), NEW paths, Timed(paths), NoTurns(paths), NEW criterion
    PROVE  BestWays(nodes, paths, criterion, Len(nodes), bestByEnd(nodes, paths, criterion))
<1> DEFINE n == Len(nodes)
<1>0. n \in Nat
  OBVIOUS
<1>a. PICK upTo : StatesUpTo(upTo, nodes, paths, criterion)
  BY BestByEndGoesOn
<1>1. /\ upTo[0] = <<>> /\ bestByEnd(nodes, paths, criterion) = upTo[n]
      /\ \A k \in 1..n : upTo[k] = Append(upTo[k - 1], bestAt(nodes, paths, criterion, upTo[k - 1], k))
  BY <1>a DEF StatesUpTo
<1> DEFINE N == {k \in 0..n : BestWays(nodes, paths, criterion, k, upTo[k])}
<1>2. 0 \in N
  <2>1. BestWays(nodes, paths, criterion, 0, <<>>)
    BY DEF BestWays, WaysTo
  <2>2. 0 \in 0..n
    BY <1>0
  <2>q. QED
    BY <1>1, <2>1, <2>2
<1>3. ASSUME NEW k \in (0 + 1)..n, k - 1 \in N PROVE k \in N
  <2>1. k \in 1..n /\ k \in 0..n /\ BestWays(nodes, paths, criterion, k - 1, upTo[k - 1])
    BY <1>0, <1>3
  <2>2. BestWays(nodes, paths, criterion, k, upTo[k])
    BY <1>1, <2>1, BestGoesOn
  <2>q. QED
    BY <2>1, <2>2
<1> HIDE DEF N
<1>4. n \in N
  <2>1. 0 \in Int /\ n \in Int /\ n \in 0..n
    BY <1>0
  <2>q. QED
    BY <1>2, <1>3, <2>1, Ascends, Zenon
<1>q. QED
  BY <1>1, <1>4 DEF N

\* Select finds a crossing to which the criterion prefers no other, and nothing
\* only when there is none.
LEMMA CrossingsCross ==
    ASSUME NEW nodes \in Seq(Node), NEW paths, DOMAIN paths \subseteq intervalPairs(nodes),
           NEW kept \in Crossings(nodes, paths)
    PROVE  \E end \in 1..Len(nodes) :
             Crossing(nodes, paths, end, kept) /\ Len(kept) > 1 /\ ~containsRequired(nodes, end + 1, Len(nodes))
<1> DEFINE n == Len(nodes)
           end == kept[Len(kept)]
<1>0. n \in Nat /\ DOMAIN nodes = 1..n
  OBVIOUS
<1>1. PICK some \in SUBSET DOMAIN nodes :
         /\ {m \in DOMAIN nodes : nodes[m].availability = Required} \subseteq some /\ kept = InOrder(n, some)
         /\ Len(kept) > 1 /\ \A k \in 1..(Len(kept) - 1) : <<kept[k], kept[k + 1]>> \in DOMAIN paths
  BY DEF Crossings
<1>2. Lists(kept, n, some)
  BY <1>0, <1>1, InOrderLists
<1> HIDE DEF n
<1>3. (0..n) \cap some = some /\ some \subseteq 1..n
  BY <1>0, <1>1
<1>4. /\ kept \in Seq(some) /\ kept \in Seq(1..n) /\ Len(kept) \in Nat /\ DOMAIN kept = 1..Len(kept)
      /\ \A i \in 1..Len(kept) : kept[i] \in some /\ kept[i] \in 1..n
      /\ \A i, j \in DOMAIN kept : i < j => kept[i] < kept[j]
      /\ \A x \in some : \E i \in 1..Len(kept) : kept[i] = x
  <2>1. kept \in Seq(some) /\ \A i, j \in DOMAIN kept : i < j => kept[i] < kept[j]
    BY <1>2, <1>3 DEF Lists
  <2>2. Len(kept) \in Nat /\ DOMAIN kept = 1..Len(kept)
    BY <2>1
  <2>3. \A i \in 1..Len(kept) : kept[i] \in some /\ kept[i] \in 1..n
    BY <1>3, <2>1
  <2>4. kept \in Seq(1..n)
    BY <1>3, <2>1, SeqMonotonic
  <2>5. \A x \in some : \E i \in 1..Len(kept) : kept[i] = x
    BY <1>2, <1>3, <2>2 DEF Lists
  <2>q. QED
    BY <2>1, <2>2, <2>3, <2>4, <2>5
<1>5. \A m \in 1..n : nodes[m].availability = Required => m \in some
  BY <1>0, <1>1
<1>6. Len(kept) >= 1 /\ Len(kept) \in 1..Len(kept) /\ end \in 1..n /\ end \in Nat
      /\ \A i \in 1..Len(kept) : i = Len(kept) \/ i < Len(kept)
  <2>1. Len(kept) >= 1 /\ Len(kept) \in 1..Len(kept) /\ \A i \in 1..Len(kept) : i = Len(kept) \/ i < Len(kept)
    <3>1. \A m \in Nat : m > 1 => m >= 1 /\ m \in 1..m /\ \A i \in 1..m : i = m \/ i < m
      OBVIOUS
    <3>q. QED
      BY <1>1, <1>4, <3>1, Zenon
  <2>2. end \in 1..n
    BY <1>4, <2>1
  <2>q. QED
    BY <1>0, <2>1, <2>2
<1>7. \A i \in 1..Len(kept) : kept[i] <= end
  <2>1. TAKE i \in 1..Len(kept)
  <2>2. kept[i] \in 1..n /\ (i < Len(kept) => kept[i] < kept[Len(kept)])
    BY <1>4, <1>6, Zenon
  <2>3. \A a \in 1..n, b \in Nat : a < b \/ a = b => a <= b
    BY <1>0
  <2>q. QED
    BY <1>6, <2>2, <2>3, Zenon
<1>8. JoinedBy(kept, paths)
  BY <1>1 DEF JoinedBy
<1>9. ASSUME NEW i \in DOMAIN kept PROVE HasPoint(nodes[kept[i]])
  <2>1. \A k \in 1..(Len(kept) - 1) : HasPoint(nodes[kept[k]]) /\ HasPoint(nodes[kept[k + 1]])
    <3>1. TAKE k \in 1..(Len(kept) - 1)
    <3>2. <<kept[k], kept[k + 1]>> \in intervalPairs(nodes)
      BY <1>1
    <3>q. QED
      BY <3>2 DEF intervalPairs
  <2>2. CASE i = Len(kept)
    <3>1. Len(kept) - 1 \in 1..(Len(kept) - 1) /\ (Len(kept) - 1) + 1 = Len(kept)
      BY <1>1, <1>4
    <3>q. QED
      BY <2>1, <2>2, <3>1
  <2>3. CASE i # Len(kept)
    <3>1. i \in 1..(Len(kept) - 1)
      BY <1>4, <2>3
    <3>q. QED
      BY <2>1, <3>1
  <2>q. QED
    BY <2>2, <2>3
<1> HIDE DEF end
<1>10. ASSUME NEW m \in 1..end, nodes[m].availability = Required PROVE m \in Range(kept)
  <2>1. m \in 1..n
    BY <1>0, <1>6
  <2>2. PICK i \in 1..Len(kept) : kept[i] = m
    BY <1>4, <1>5, <1>10, <2>1
  <2>q. QED
    BY <1>4, <2>2 DEF Range
<1>11. ~containsRequired(nodes, end + 1, n)
  <2> SUFFICES ASSUME NEW m \in (end + 1)..n, nodes[m].availability = Required PROVE FALSE
    BY DEF containsRequired
  <2>1. m \in 1..n /\ m \in Nat /\ ~(m <= end)
    BY <1>0, <1>6
  <2>q. QED
    BY <1>4, <1>5, <1>7, <2>1
<1>12. Crossing(nodes, paths, end, kept)
  BY <1>4, <1>6, <1>8, <1>9, <1>10 DEF Crossing, Reaches, end, n
<1>q. QED
  BY <1>1, <1>6, <1>11, <1>12 DEF n

LEMMA KeptIsListed ==
    ASSUME NEW n \in Nat, NEW kept \in Seq(1..n), \A i, j \in DOMAIN kept : i < j => kept[i] < kept[j]
    PROVE  kept = InOrder(n, Range(kept)) /\ Range(kept) \subseteq 1..n
<1>1. Range(kept) \subseteq 1..n /\ (0..n) \cap Range(kept) = Range(kept)
  BY DEF Range
<1>2. kept \in Seq(Range(kept))
  BY DEF Range
<1>3. \A x \in Range(kept) : \E i \in DOMAIN kept : kept[i] = x
  BY DEF Range
<1>4. Lists(kept, n, Range(kept))
  BY <1>1, <1>2, <1>3 DEF Lists
<1>5. Lists(InOrder(n, Range(kept)), n, Range(kept))
  BY InOrderLists
<1>q. QED
  BY <1>1, <1>4, <1>5, ListedOnce

LEMMA SelectIsBest ==
    ASSUME NEW nodes \in Seq(Node), NEW paths, Timed(paths), NoTurns(paths),
           DOMAIN paths \subseteq intervalPairs(nodes), NEW criterion
    PROVE  LET ways == {State(kept, paths) : kept \in Crossings(nodes, paths)}
               found == Select(nodes, paths, criterion)
           IN  /\ found = {} <=> ways = {}
               /\ \A s \in found : s \in ways /\ \A w \in ways : NoWorse(s, w, criterion)
<1> DEFINE ways == {State(kept, paths) : kept \in Crossings(nodes, paths)}
           found == Select(nodes, paths, criterion)
           states == bestByEnd(nodes, paths, criterion)
           n == Len(nodes)
           ends == {i \in DOMAIN nodes : ~containsRequired(nodes, i + 1, Len(nodes))}
           U == UNION {states[end] : end \in ends}
           C == {s \in U : Len(s.kept) > 1}
<1>0. n \in Nat /\ DOMAIN nodes = 1..n
  OBVIOUS
<1>1. found = Best(C, criterion)
  BY DEF Select
<1>2. /\ WaysTo(nodes, n, states) /\ \A e \in 1..n : BestFor(nodes, paths, criterion, e, states[e])
      /\ states \in Seq(SUBSET Way) /\ Len(states) = n
      /\ \A e \in 1..n : \A s \in states[e] : Reaches(nodes, e, s.kept)
  BY BestByEndIsBest DEF BestWays, WaysTo
<1> HIDE DEF states
<1>3. \A e \in ends : e \in 1..n /\ states[e] \subseteq Way /\ IsFiniteSet(states[e])
  <2>1. \A e \in 1..n : states[e] \subseteq Way
    BY <1>2
  <2>q. QED
    BY <1>0, <1>2, <2>1 DEF BestFor
<1>4. IsFiniteSet(C) /\ C \in SUBSET Way
  <2> DEFINE M == [e \in ends |-> states[e]]
             T == {states[end] : end \in ends}
  <2>1. IsFiniteSet(ends)
    <3>1. ends \in SUBSET (1..n) /\ IsFiniteSet(1..n)
      BY <1>0, FS_Interval
    <3> HIDE DEF ends, n
    <3>q. QED
      BY <3>1, FS_Subset
  <2>2. (\A S \in T : IsFiniteSet(S)) /\ U \in SUBSET Way
    BY <1>3
  <2>3. M \in Surjection(ends, T)
    BY DEF Surjection
  <2> HIDE DEF M, ends
  <2>4. IsFiniteSet(U)
    <3> HIDE DEF T
    <3>1. IsFiniteSet(T)
      BY <2>1, <2>3, FS_Surjection
    <3>q. QED
      BY <2>2, <3>1, FS_UNION DEF T
  <2>5. C \in SUBSET U
    OBVIOUS
  <2> HIDE DEF U, C
  <2>q. QED
    BY <2>2, <2>4, <2>5, FS_Subset
\* Of every crossing there is a state as good.
<1>5. ASSUME NEW w \in ways PROVE \E c \in C : NoWorse(c, w, criterion) /\ w.seconds \in Nat /\ Len(w.kept) \in Nat
  <2>1. PICK kept \in Crossings(nodes, paths) : w = State(kept, paths)
    OBVIOUS
  <2>2. PICK end \in 1..n :
           Crossing(nodes, paths, end, kept) /\ Len(kept) > 1 /\ ~containsRequired(nodes, end + 1, Len(nodes))
    BY CrossingsCross
  <2>3. PICK s \in states[end] : Covers(s, kept, paths, criterion)
    BY <1>2, <2>2 DEF BestFor
  <2>4. end \in ends /\ Len(s.kept) > 1
    BY <1>0, <2>2, <2>3 DEF Covers
  <2>5. s \in C
    BY <2>4
  <2>6. NoWorse(s, w, criterion)
    BY <2>1, <2>3 DEF Covers
  <2>7. end \in Nat
    BY <1>0
  <2>8. w.kept = kept /\ w.seconds \in Nat /\ Len(kept) \in Nat
    BY <2>1, <2>2, <2>7, WaysAreTimed
  <2> HIDE DEF C, ends, ways
  <2>q. QED
    BY <2>5, <2>6, <2>8
\* Every state is that of a crossing.
<1>6. ASSUME NEW s \in C PROVE s \in ways
  <2>1. PICK end \in ends : s \in states[end]
    OBVIOUS
  <2>2. end \in 1..n /\ ~containsRequired(nodes, end + 1, n) /\ Len(s.kept) > 1
    BY <1>0
  <2>3. /\ s \in Way /\ Reaches(nodes, end, s.kept) /\ JoinedBy(s.kept, paths) /\ s.seconds = TimeOf(s.kept, paths)
    BY <1>2, <1>3, <2>1, <2>2 DEF BestFor
  <2> DEFINE kept == s.kept
             some == Range(kept)
  <2>4. kept \in Seq(1..n) /\ kept \in Seq(Nat) /\ Len(kept) >= 1 /\ \A i, j \in DOMAIN kept : i < j => kept[i] < kept[j]
    BY <2>3 DEF Reaches, Way
  <2>5. s = State(kept, paths)
    <3>1. State(kept, paths) = [kept |-> kept, seconds |-> TimeOf(kept, paths)]
      BY <1>0, <2>3, <2>4, TimeAdds
    <3>2. s = [kept |-> s.kept, seconds |-> s.seconds]
      BY <2>3 DEF Way
    <3>q. QED
      BY <2>3, <3>1, <3>2
  <2>6. kept = InOrder(n, some) /\ some \subseteq 1..n
    BY <1>0, <2>4, KeptIsListed
  <2>7. {m \in DOMAIN nodes : nodes[m].availability = Required} \subseteq some
    <3> SUFFICES ASSUME NEW m \in 1..n, nodes[m].availability = Required PROVE m \in some
      BY <1>0
    <3>1. m \notin (end + 1)..n
      BY <2>2 DEF containsRequired
    <3>2. m \in 1..end
      BY <1>0, <2>2, <3>1
    <3>q. QED
      BY <2>3, <3>2 DEF Reaches
  <2>8. \A k \in 1..(Len(kept) - 1) : <<kept[k], kept[k + 1]>> \in DOMAIN paths
    BY <2>3 DEF JoinedBy
  <2>9. ASSUME NEW k \in 2..(Len(kept) - 1)
        PROVE  ~Turns(paths[<<kept[k - 1], kept[k]>>].arriving, paths[<<kept[k], kept[k + 1]>>].leaving)
    <3>1. k \in 1..(Len(kept) - 1) /\ k - 1 \in 1..(Len(kept) - 1) /\ (k - 1) + 1 = k
      <4>1. Len(kept) \in Nat
        BY <2>4
      <4>2. \A m \in Nat : \A j \in 2..(m - 1) : j \in 1..(m - 1) /\ j - 1 \in 1..(m - 1) /\ (j - 1) + 1 = j
        OBVIOUS
      <4> HIDE DEF kept
      <4>q. QED
        BY <4>1, <4>2
    <3>2. <<kept[k - 1], kept[k]>> \in DOMAIN paths /\ <<kept[k], kept[k + 1]>> \in DOMAIN paths
      BY <2>8, <3>1
    <3>q. QED
      BY <3>2 DEF NoTurns
  <2> HIDE DEF kept, some
  <2>10. kept \in Crossings(nodes, paths)
    BY <1>0, <2>2, <2>6, <2>7, <2>8, <2>9 DEF Crossings, kept
  <2>q. QED
    BY <2>5, <2>10
<1>7. found \subseteq C /\ (C # {} => found # {})
  <2> HIDE DEF C, found
  <2>1. Best(C, criterion) \subseteq C
    BY DEF Best
  <2>q. QED
    BY <1>1, <1>4, <2>1, BestExists
<1>8. ASSUME NEW s \in found, NEW w \in ways PROVE NoWorse(s, w, criterion)
  <2> HIDE DEF C, found, ways
  <2>1. PICK c \in C : NoWorse(c, w, criterion) /\ w.seconds \in Nat /\ Len(w.kept) \in Nat
    BY <1>5
  <2>2. NoWorse(s, c, criterion) /\ s \in Way /\ c \in Way
    BY <1>1, <1>4, <1>7, BestIsNoWorse
  <2>3. s.seconds \in Nat /\ c.seconds \in Nat /\ Len(s.kept) \in Nat /\ Len(c.kept) \in Nat
    BY <2>2, KeysAreInts
  <2>4. \A m \in Nat : m \in Int
    OBVIOUS
  <2>q. QED
    BY <2>1, <2>2, <2>3, <2>4, NoWorseGoesOn
<1> HIDE DEF C, found, ways
<1>9. found = {} <=> ways = {}
  BY <1>5, <1>6, <1>7
<1>q. QED
  BY <1>6, <1>7, <1>8, <1>9 DEF found, ways

-----------------------------------------------------------------------------
(* The detours of an interval lead from each node kept to the next.        *)

DetourPiece == [kind: {"detour"}, from: Nat, to: Nat]
Apart == {pair \in DetourPiece \X DetourPiece : pair[1].to <= pair[2].from}

At(nodes, kept, k) == nodes[kept[k]].at

DetoursOf(nodes, kept) ==
    [k \in 1..(Len(kept) - 1) |-> Piece("detour", nodes[kept[k]].at, nodes[kept[k + 1]].at)]

LostStops(nodes, kept) ==
    {nodes[n].at \div Whole : n \in {m \in DOMAIN nodes \ Range(kept) : ~nodes[m].isAnchor}}

LEMMA PlacesOfKept ==
    ASSUME NEW nodes \in Seq(Node), Chain(nodes, InRouteOrder), NEW kept, Selected(nodes, kept)
    PROVE  /\ Len(kept) \in Nat /\ Len(kept) > 1 /\ DOMAIN kept = 1..Len(kept)
           /\ \A k \in 1..Len(kept) : kept[k] \in DOMAIN nodes /\ At(nodes, kept, k) \in Nat
           /\ \A k \in 1..Len(kept) : nodes[kept[k]] \in Range(nodes)
           /\ \A j, k \in 1..Len(kept) : j < k => At(nodes, kept, j) < At(nodes, kept, k)
<1>1. /\ kept \in Seq(1..Len(nodes)) /\ Len(kept) > 1
      /\ \A i, j \in DOMAIN kept : i < j => kept[i] < kept[j]
  BY DEF Selected
<1>2. /\ Len(kept) \in Nat /\ DOMAIN kept = 1..Len(kept) /\ DOMAIN nodes = 1..Len(nodes)
      /\ \A k \in 1..Len(kept) : kept[k] \in DOMAIN nodes
  BY <1>1
<1>3. \A n \in DOMAIN nodes : nodes[n] \in Node /\ nodes[n] \in Range(nodes) /\ nodes[n].at \in Nat
  <2>1. \A n \in DOMAIN nodes : nodes[n] \in Node /\ nodes[n] \in Range(nodes)
    BY DEF Range
  <2>2. \A x \in Node : x.at \in Nat
    BY DEF Node
  <2>q. QED
    BY <2>1, <2>2
<1>4. \A m, n \in DOMAIN nodes : m < n => nodes[m].at < nodes[n].at
  BY DEF Chain, InRouteOrder
<1>q. QED
  BY <1>1, <1>2, <1>3, <1>4 DEF At

LEMMA DetoursInOrder ==
    ASSUME NEW nodes \in Seq(Node), Chain(nodes, InRouteOrder), NEW kept, Selected(nodes, kept)
    PROVE  /\ DetoursOf(nodes, kept) \in Seq(DetourPiece) /\ Chain(DetoursOf(nodes, kept), Apart)
           /\ DOMAIN DetoursOf(nodes, kept) = 1..(Len(kept) - 1)
           /\ \A k \in 1..(Len(kept) - 1) :
                /\ DetoursOf(nodes, kept)[k] = Piece("detour", At(nodes, kept, k), At(nodes, kept, k + 1))
                /\ DetoursOf(nodes, kept)[k].from = At(nodes, kept, k)
                /\ DetoursOf(nodes, kept)[k].to = At(nodes, kept, k + 1)
                /\ At(nodes, kept, k) < At(nodes, kept, k + 1)
<1> DEFINE d == DetoursOf(nodes, kept)
<1>1. /\ Len(kept) \in Nat /\ Len(kept) > 1
      /\ \A k \in 1..Len(kept) : At(nodes, kept, k) \in Nat
      /\ \A j, k \in 1..Len(kept) : j < k => At(nodes, kept, j) < At(nodes, kept, k)
  BY PlacesOfKept
<1>2. /\ DOMAIN d = 1..(Len(kept) - 1)
      /\ \A k \in 1..(Len(kept) - 1) : d[k] = Piece("detour", At(nodes, kept, k), At(nodes, kept, k + 1))
  BY DEF DetoursOf, At
<1>3. ASSUME NEW k \in 1..(Len(kept) - 1)
      PROVE  /\ d[k] \in DetourPiece
             /\ d[k].from = At(nodes, kept, k) /\ d[k].to = At(nodes, kept, k + 1)
             /\ At(nodes, kept, k) < At(nodes, kept, k + 1)
  <2>1. k \in 1..Len(kept) /\ k + 1 \in 1..Len(kept) /\ k < k + 1
    BY <1>1
  <2>2. At(nodes, kept, k) \in Nat /\ At(nodes, kept, k + 1) \in Nat
    BY <1>1, <2>1
  <2>q. QED
    BY <1>1, <1>2, <2>1, <2>2 DEF Piece, DetourPiece
<1> HIDE DEF d
<1>4. d \in Seq(DetourPiece)
  <2>1. d = [k \in 1..(Len(kept) - 1) |-> d[k]] /\ Len(kept) - 1 \in Nat
    BY <1>1 DEF d, DetoursOf
  <2>q. QED
    BY <1>3, <2>1
<1>5. ASSUME NEW i \in DOMAIN d, NEW j \in DOMAIN d, i < j PROVE <<d[i], d[j]>> \in Apart
  <2>1. i + 1 = j \/ i + 1 < j
    BY <1>2, <1>5
  <2>2. i + 1 \in 1..Len(kept) /\ j \in 1..Len(kept) /\ i \in 1..(Len(kept) - 1) /\ j \in 1..(Len(kept) - 1)
    BY <1>1, <1>2, <1>5
  <2>3. At(nodes, kept, i + 1) <= At(nodes, kept, j)
    BY <1>1, <2>1, <2>2
  <2>q. QED
    BY <1>3, <2>2, <2>3 DEF Apart
<1>q. QED
  BY <1>1, <1>2, <1>3, <1>4, <1>5 DEF Chain, d

\* Where no detour of an interval lies between two places, neither do the nodes kept.
LEMMA DetoursCover ==
    ASSUME NEW nodes \in Seq(Node), Chain(nodes, InRouteOrder), NEW kept, Selected(nodes, kept),
           NEW x \in Int, NEW y \in Int, x < y,
           \A k \in 1..(Len(kept) - 1) : At(nodes, kept, k + 1) <= x \/ y <= At(nodes, kept, k)
    PROVE  y <= At(nodes, kept, 1) \/ At(nodes, kept, Len(kept)) <= x
<1>1. /\ Len(kept) \in Nat /\ Len(kept) > 1
      /\ \A k \in 1..Len(kept) : At(nodes, kept, k) \in Nat
  BY PlacesOfKept
<1> SUFFICES ASSUME ~(y <= At(nodes, kept, 1)) PROVE At(nodes, kept, Len(kept)) <= x
  OBVIOUS
<1> DEFINE n == Len(kept) - 1
           N == {k \in 1..n : At(nodes, kept, k) < y}
<1>2. n \in Nat /\ n >= 1
  BY <1>1
<1>3. 1 \in N
  <2>1. 1 \in 1..n /\ At(nodes, kept, 1) \in Nat
    BY <1>1, <1>2
  <2>q. QED
    BY <2>1
<1>4. \A k \in N : At(nodes, kept, k + 1) <= x /\ At(nodes, kept, k + 1) \in Nat
  <2>1. TAKE k \in N
  <2>2. k \in 1..(Len(kept) - 1) /\ k + 1 \in 1..Len(kept) /\ k \in 1..Len(kept) /\ At(nodes, kept, k) < y
    BY <1>1
  <2>3. At(nodes, kept, k) \in Nat /\ At(nodes, kept, k + 1) \in Nat
    BY <1>1, <2>2
  <2>4. At(nodes, kept, k + 1) <= x \/ y <= At(nodes, kept, k)
    BY <2>2
  <2>q. QED
    BY <2>2, <2>3, <2>4
<1>5. ASSUME NEW k \in (1 + 1)..n, k - 1 \in N PROVE k \in N
  <2>1. k \in 1..n /\ (k - 1) + 1 = k
    BY <1>2
  <2>2. At(nodes, kept, k) <= x /\ At(nodes, kept, k) \in Nat
    BY <1>4, <1>5, <2>1
  <2>q. QED
    BY <2>1, <2>2
<1> HIDE DEF N
<1>6. n \in N
  <2>1. 1 \in Int /\ n \in Int /\ n \in 1..n
    BY <1>2
  <2> HIDE DEF n
  <2>q. QED
    BY <1>3, <1>5, <2>1, Ascends, Zenon
<1>7. n + 1 = Len(kept)
  BY <1>1
<1>q. QED
  BY <1>4, <1>6, <1>7

\* A stop that an interval does not lose lies at no detour, and is not before the
\* first node kept or after the last, but where the interval is not.
LEMMA KeptStopsAreClear ==
    ASSUME NEW r, PlannedRequest(r), NEW interval, IntervalIn(r, interval),
           NEW nodes, NodesFit(r, interval, nodes), NEW kept, Selected(nodes, kept)
    PROVE  /\ interval.entry <= At(nodes, kept, 1) /\ At(nodes, kept, Len(kept)) <= interval.exit
           /\ \A s \in Stops(r) \ LostStops(nodes, kept) :
                /\ \A k \in 1..(Len(kept) - 1) :
                    StopScalar(s) <= At(nodes, kept, k) \/ At(nodes, kept, k + 1) <= StopScalar(s)
                /\ interval.entry = At(nodes, kept, 1) \/ At(nodes, kept, 1) <= StopScalar(s)
                /\ interval.exit = At(nodes, kept, Len(kept)) \/ StopScalar(s) <= At(nodes, kept, Len(kept))
<1> DEFINE n == Len(kept)
           at(k) == At(nodes, kept, k)
<1>0. /\ interval.entry \in Nat /\ interval.exit \in Nat /\ interval.entry < interval.exit
      /\ LastScalar(r) \in Nat /\ interval.exit <= LastScalar(r)
      /\ \A s \in Stops(r) : StopScalar(s) \in Nat /\ StopScalar(s) <= LastScalar(r) /\ StopScalar(s) \div Whole = s
  BY DEF IntervalIn, Interval, PlannedRequest, LastScalar, Stops, StopScalar, Whole
<1>1. nodes \in Seq(Node) /\ Chain(nodes, InRouteOrder)
  BY DEF NodesFit
<1>2. /\ n \in Nat /\ n > 1 /\ DOMAIN kept = 1..n
      /\ \A k \in 1..n : kept[k] \in DOMAIN nodes /\ at(k) \in Nat /\ nodes[kept[k]] \in Range(nodes)
      /\ \A j, k \in 1..n : j < k => at(j) < at(k)
  BY <1>1, PlacesOfKept
<1>3. \A k \in 1..n : interval.entry <= at(k) /\ at(k) <= interval.exit
  BY <1>2 DEF NodesFit, At
<1>4. \A k \in 1..n : at(k) = nodes[kept[k]].at
  BY DEF At
<1> HIDE DEF at
<1>5. ASSUME NEW x \in Range(nodes), x.availability = Required PROVE at(1) <= x.at /\ x.at <= at(n)
  <2>1. PICK m \in DOMAIN nodes : nodes[m] = x
    BY DEF Range
  <2>2. m \in Range(kept)
    BY <1>1, <1>5, <2>1 DEF Selected
  <2>3. PICK k \in 1..n : kept[k] = m
    BY <1>2, <2>2 DEF Range
  <2>4. at(k) = x.at
    BY <1>4, <2>1, <2>3
  <2>5. 1 \in 1..n /\ n \in 1..n /\ (k = 1 \/ 1 < k) /\ (k = n \/ k < n)
    <3>1. n \in Nat /\ n > 1
      BY <1>2
    <3>q. QED
      BY <3>1
  <2>6. at(1) \in Nat /\ at(n) \in Nat /\ at(k) \in Nat /\ (1 < k => at(1) < at(k)) /\ (k < n => at(k) < at(n))
    BY <1>2, <2>5
  <2>q. QED
    BY <2>4, <2>5, <2>6
<1>6. interval.entry > 0 => at(1) = interval.entry
  <2>1. ASSUME interval.entry > 0 PROVE at(1) = interval.entry
    <3>1. /\ Anchor(interval.entry) \in Range(nodes) /\ Anchor(interval.entry).at = interval.entry
          /\ Anchor(interval.entry).availability = Required
      BY <2>1 DEF NodesFit, Anchor
    <3>2. at(1) <= interval.entry
      BY <1>5, <3>1
    <3>3. 1 \in 1..n
      BY <1>2
    <3>q. QED
      BY <1>0, <1>2, <1>3, <3>2, <3>3
  <2>q. QED
    BY <2>1
<1>7. interval.exit < LastScalar(r) => at(n) = interval.exit
  <2>1. ASSUME interval.exit < LastScalar(r) PROVE at(n) = interval.exit
    <3>1. /\ Anchor(interval.exit) \in Range(nodes) /\ Anchor(interval.exit).at = interval.exit
          /\ Anchor(interval.exit).availability = Required
      BY <2>1 DEF NodesFit, Anchor
    <3>2. interval.exit <= at(n)
      BY <1>5, <3>1
    <3>3. n \in 1..n
      BY <1>2
    <3>q. QED
      BY <1>0, <1>2, <1>3, <3>2, <3>3
  <2>q. QED
    BY <2>1
<1>8. ASSUME NEW s \in Stops(r) \ LostStops(nodes, kept), Within(interval, s), ~AtAnchor(r, interval, s)
      PROVE  \E k \in 1..n : at(k) = StopScalar(s)
  <2>1. StopNode(r, s) \in Range(nodes) /\ StopNode(r, s).at = StopScalar(s) /\ ~StopNode(r, s).isAnchor
    BY <1>8 DEF NodesFit, StopNode
  <2>2. PICK m \in DOMAIN nodes : nodes[m] = StopNode(r, s)
    BY <2>1 DEF Range
  <2>3. nodes[m].at \div Whole = s
    BY <1>0, <2>1, <2>2
  <2>4. m \in Range(kept)
    BY <1>8, <2>1, <2>2, <2>3 DEF LostStops
  <2>5. PICK k \in 1..n : kept[k] = m
    BY <1>2, <2>4 DEF Range
  <2>q. QED
    BY <1>4, <2>1, <2>2, <2>5
<1>9. ASSUME NEW s \in Stops(r) \ LostStops(nodes, kept)
      PROVE  /\ \A k \in 1..(n - 1) : StopScalar(s) <= at(k) \/ at(k + 1) <= StopScalar(s)
             /\ interval.entry = at(1) \/ at(1) <= StopScalar(s)
             /\ interval.exit = at(n) \/ StopScalar(s) <= at(n)
  <2> DEFINE here == StopScalar(s)
  <2>0. here \in Nat /\ here <= LastScalar(r)
    BY <1>0
  <2>1. 1 \in 1..n /\ n \in 1..n /\ at(1) \in Nat /\ at(n) \in Nat
    BY <1>2
  <2>2. ASSUME NEW k \in 1..(n - 1), at(k) < here, here < at(k + 1) PROVE FALSE
    <3>1. k \in 1..n /\ k + 1 \in 1..n /\ at(k) \in Nat /\ at(k + 1) \in Nat
      BY <1>2
    <3>2. interval.entry < here /\ here < interval.exit
      BY <1>0, <1>3, <2>0, <2>2, <3>1
    <3>3. Within(interval, s) /\ ~AtAnchor(r, interval, s)
      BY <1>0, <2>0, <3>2 DEF Within, AtAnchor
    <3>4. PICK j \in 1..n : at(j) = here
      BY <1>8, <3>3
    <3>5. j <= k \/ k + 1 <= j
      BY <1>2
    <3>6. (j < k => at(j) < at(k)) /\ (k + 1 < j => at(k + 1) < at(j)) /\ at(j) \in Nat
      BY <1>2, <3>1
    <3>7. CASE j <= k
      <4>1. j = k \/ j < k
        BY <3>7
      <4>2. at(j) <= at(k)
        BY <3>1, <3>6, <4>1
      <4>q. QED
        BY <2>0, <2>2, <3>1, <3>4, <4>2
    <3>8. CASE k + 1 <= j
      <4>1. j = k + 1 \/ k + 1 < j
        BY <3>8
      <4>2. at(k + 1) <= at(j)
        BY <3>1, <3>6, <4>1
      <4>q. QED
        BY <2>0, <2>2, <3>1, <3>4, <4>2
    <3>q. QED
      BY <3>5, <3>7, <3>8
  <2>3. ASSUME interval.entry # at(1), here < at(1) PROVE FALSE
    <3>1. interval.entry = 0 /\ here < interval.exit
      BY <1>0, <1>3, <1>6, <2>0, <2>1, <2>3
    <3>2. Within(interval, s) /\ ~AtAnchor(r, interval, s)
      BY <1>0, <2>0, <3>1 DEF Within, AtAnchor
    <3>3. PICK j \in 1..n : at(j) = here
      BY <1>8, <3>2
    <3>4. j = 1 \/ 1 < j
      OBVIOUS
    <3>5. at(1) <= at(j) /\ at(j) \in Nat
      BY <1>2, <2>1, <3>4
    <3>q. QED
      BY <2>0, <2>1, <2>3, <3>3, <3>5
  <2>4. ASSUME interval.exit # at(n), at(n) < here PROVE FALSE
    <3>1. interval.exit = LastScalar(r) /\ interval.entry < here
      BY <1>0, <1>3, <1>7, <2>0, <2>1, <2>4
    <3>2. Within(interval, s) /\ ~AtAnchor(r, interval, s)
      BY <1>0, <2>0, <3>1 DEF Within, AtAnchor
    <3>3. PICK j \in 1..n : at(j) = here
      BY <1>8, <3>2
    <3>4. j = n \/ j < n
      <4>1. n \in Nat
        BY <1>2
      <4>q. QED
        BY <4>1
    <3>5. at(j) <= at(n) /\ at(j) \in Nat
      <4>1. at(j) \in Nat /\ (j < n => at(j) < at(n))
        BY <1>2, <2>1
      <4>q. QED
        BY <2>1, <3>4, <4>1
    <3>q. QED
      BY <2>0, <2>1, <2>4, <3>3, <3>5
  <2>5. ASSUME NEW k \in 1..(n - 1) PROVE StopScalar(s) <= at(k) \/ at(k + 1) <= StopScalar(s)
    <3>1. at(k) \in Nat /\ at(k + 1) \in Nat
      <4>1. k \in 1..n /\ k + 1 \in 1..n
        BY <1>2
      <4>q. QED
        BY <1>2, <4>1
    <3>q. QED
      BY <2>0, <2>2, <3>1
  <2>q. QED
    BY <2>0, <2>1, <2>3, <2>4, <2>5
<1>10. interval.entry <= at(1) /\ at(n) <= interval.exit
  BY <1>2, <1>3
<1>q. QED
  BY <1>9, <1>10 DEF at, n

-----------------------------------------------------------------------------
(* The detours of the intervals together, in the order of the route.       *)

LEMMA FlattenUnfolds ==
    ASSUME NEW S, NEW seqs \in Seq(Seq(S)), Len(seqs) # 0
    PROVE  \E f : /\ FlattenSeq(seqs) = f[Len(seqs)]
                  /\ f[1] = seqs[1]
                  /\ \A i \in 2..Len(seqs) : f[i] = f[i - 1] \o seqs[i]
<1> DEFINE n == Len(seqs)
           equation(f) == [i \in 1..n |-> IF i = 1 THEN seqs[i] ELSE f[i - 1] \o seqs[i]]
           flatten == CHOOSE f : f = equation(f)
<1>0. n \in Nat /\ n >= 1 /\ \A i \in 1..n : seqs[i] \in Seq(S)
  OBVIOUS
<1>1. FlattenSeq(seqs) = flatten[n]
  BY DEF FlattenSeq
<1> HIDE DEF n
<1>2. \E f : f = equation(f)
  <2> DEFINE step == [p \in (1..n) \X Seq(S) |-> p[2] \o seqs[p[1]]]
  <2>1. \A k \in 1..n, v \in Seq(S) : v \o seqs[k] \in Seq(S)
    BY <1>0
  <2>2. /\ step \in [(1..n) \X Seq(S) -> Seq(S)]
        /\ \A k \in 1..n, v \in Seq(S) : step[<<k, v>>] = v \o seqs[k]
    BY <2>1
  <2> HIDE DEF step
  <2>3. PICK f : Follows(f, Seq(S), n, <<>>, step)
    <3>1. Steps(Seq(S), n, <<>>, step)
      BY <1>0, <2>2 DEF Steps
    <3>q. QED
      BY <3>1, Recursion
  <2>4. \A k \in 1..n : k - 1 \in 0..n /\ k \in 0..n /\ k # 0 /\ f[k - 1] \in Seq(S)
    BY <1>0, <2>3 DEF Follows
  <2>5. f[0] = <<>> /\ \A k \in 1..n : f[k] = f[k - 1] \o seqs[k]
    <3>1. f[0] = <<>> /\ \A k \in 1..n : f[k] = step[<<k, f[k - 1]>>]
      BY <2>3 DEF Follows
    <3>q. QED
      BY <2>2, <2>4, <3>1
  <2> DEFINE g == [i \in 1..n |-> f[i]]
  <2>6. ASSUME NEW i \in 1..n PROVE g[i] = IF i = 1 THEN seqs[i] ELSE g[i - 1] \o seqs[i]
    <3>1. CASE i = 1
      <4>1. f[1] = <<>> \o seqs[1] /\ seqs[1] \in Seq(S)
        <5>1. 1 \in 1..n /\ 1 - 1 = 0
          BY <1>0
        <5>q. QED
          BY <1>0, <2>5, <5>1
      <4>2. f[1] = seqs[1]
        BY <4>1, ConcatEmptySeq
      <4>q. QED
        BY <3>1, <4>2
    <3>2. CASE i # 1
      <4>1. i - 1 \in 1..n
        BY <1>0, <3>2
      <4>2. g[i] = f[i] /\ g[i - 1] = f[i - 1]
        BY <4>1
      <4> HIDE DEF g
      <4>q. QED
        BY <2>5, <3>2, <4>2
    <3>q. QED
      BY <3>1, <3>2
  <2>7. g = [i \in 1..n |-> g[i]]
    OBVIOUS
  <2> HIDE DEF g
  <2>8. g = equation(g)
    BY <2>6, <2>7
  <2> HIDE DEF equation
  <2>q. QED
    BY <2>8
<1>3. flatten = equation(flatten)
  <2> HIDE DEF equation
  <2>q. QED
    BY <1>2
<1> HIDE DEF flatten
<1>4. flatten[1] = seqs[1] /\ \A i \in 2..n : flatten[i] = flatten[i - 1] \o seqs[i]
  <2>1. \A i \in 1..n : flatten[i] = IF i = 1 THEN seqs[i] ELSE flatten[i - 1] \o seqs[i]
    BY <1>3
  <2>2. 1 \in 1..n /\ \A i \in 2..n : i \in 1..n /\ i # 1
    BY <1>0
  <2>q. QED
    BY <2>1, <2>2
<1>q. QED
  BY <1>1, <1>4 DEF n

LEMMA FlattenChains ==
    ASSUME NEW S, NEW before, NEW seqs \in Seq(Seq(S)),
           \A i \in DOMAIN seqs : Chain(seqs[i], before),
           \A i, j \in DOMAIN seqs : i < j => Range(seqs[i]) \X Range(seqs[j]) \subseteq before
    PROVE  /\ FlattenSeq(seqs) \in Seq(S) /\ Chain(FlattenSeq(seqs), before)
           /\ Range(FlattenSeq(seqs)) = UNION {Range(seqs[i]) : i \in DOMAIN seqs}
<1> DEFINE n == Len(seqs)
<1>0. n \in Nat /\ DOMAIN seqs = 1..n /\ \A i \in 1..n : seqs[i] \in Seq(S)
  OBVIOUS
<1>1. CASE n = 0
  <2>1. FlattenSeq(seqs) = <<>> /\ DOMAIN seqs = {}
    BY <1>0, <1>1 DEF FlattenSeq
  <2>2. Range(<<>>) = {} /\ Chain(<<>>, before) /\ <<>> \in Seq(S)
    BY DEF Range, Chain
  <2>q. QED
    BY <2>1, <2>2
<1>2. CASE n # 0
  <2>1. PICK f : /\ FlattenSeq(seqs) = f[n] /\ f[1] = seqs[1]
                 /\ \A i \in 2..n : f[i] = f[i - 1] \o seqs[i]
    BY <1>2, FlattenUnfolds
  <2> HIDE DEF n
  <2> DEFINE Flat(i) == /\ f[i] \in Seq(S) /\ Chain(f[i], before)
                        /\ Range(f[i]) = UNION {Range(seqs[j]) : j \in 1..i}
             N == {i \in 1..n : Flat(i)}
  <2>2. 1 \in N
    <3>1. 1 \in 1..n /\ 1..1 = {1}
      BY <1>0, <1>2
    <3>2. Range(f[1]) = UNION {Range(seqs[j]) : j \in 1..1}
      BY <2>1, <3>1
    <3>q. QED
      BY <1>0, <2>1, <3>1, <3>2
  <2>3. ASSUME NEW i \in (1 + 1)..n, i - 1 \in N PROVE i \in N
    <3>1. i \in 2..n /\ i \in 1..n /\ i - 1 \in 1..n /\ f[i] = f[i - 1] \o seqs[i]
      <4>1. i \in 2..n /\ i \in 1..n /\ i - 1 \in 1..n
        BY <1>0
      <4>q. QED
        BY <2>1, <4>1
    <3>2. Flat(i - 1)
      BY <2>3
    <3>3. \A j \in 1..(i - 1) : j \in 1..n /\ j < i
      BY <1>0, <3>1
    <3>4. Range(f[i - 1]) \X Range(seqs[i]) \subseteq before
      <4>1. ASSUME NEW x \in Range(f[i - 1]), NEW y \in Range(seqs[i]) PROVE <<x, y>> \in before
        <5>1. PICK j \in 1..(i - 1) : x \in Range(seqs[j])
          BY <3>2
        <5>2. Range(seqs[j]) \X Range(seqs[i]) \subseteq before
          BY <1>0, <3>1, <3>3
        <5>q. QED
          BY <5>1, <5>2
      <4>q. QED
        BY <4>1
    <3>5. /\ f[i - 1] \in Seq(S) /\ Chain(f[i - 1], before)
          /\ seqs[i] \in Seq(S) /\ Chain(seqs[i], before)
      BY <1>0, <3>1, <3>2
    <3>6. /\ f[i] \in Seq(S) /\ Chain(f[i], before) /\ Range(f[i]) = Range(f[i - 1]) \cup Range(seqs[i])
      BY <3>1, <3>4, <3>5, ConcatChains
    <3>7. \A j : j \in 1..i <=> j \in 1..(i - 1) \/ j = i
      BY <3>1
    <3>8. Range(f[i]) = UNION {Range(seqs[j]) : j \in 1..i}
      BY <3>2, <3>6, <3>7
    <3>q. QED
      BY <3>1, <3>6, <3>8
  <2> HIDE DEF N
  <2>4. n \in N
    <3>1. 1 \in Int /\ n \in Int /\ n \in 1..n
      BY <1>0, <1>2
    <3>q. QED
      BY <2>2, <2>3, <3>1, Ascends, Zenon
  <2>q. QED
    BY <1>0, <2>1, <2>4 DEF N
<1>q. QED
  BY <1>1, <1>2

\* Replacements that are apart are sorted already.
LEMMA ApartAreSorted ==
    ASSUME NEW s \in Seq(DetourPiece), Chain(s, Apart), \A x \in Range(s) : x.from < x.to
    PROVE  sortReplacements(s) = s
<1> DEFINE n == Len(s)
           place(k, v) == Cardinality({j \in DOMAIN v : ~Earlier(s[k], v[j])}) + 1
           equation(f) == [k \in 0..n |-> IF k = 0 THEN <<>> ELSE InsertAt(f[k - 1], place(k, f[k - 1]), s[k])]
           sorted == CHOOSE f : f = equation(f)
           upTo(k) == SubSeq(s, 1, k)
<1>0. n \in Nat /\ DOMAIN s = 1..n /\ \A i \in 1..n : s[i] \in DetourPiece
  OBVIOUS
<1>1. sortReplacements(s) = sorted[n]
  BY DEF sortReplacements
<1> HIDE DEF n
<1>2. \A k \in 0..n : /\ upTo(k) \in Seq(DetourPiece) /\ Len(upTo(k)) = k /\ DOMAIN upTo(k) = 1..k
                      /\ \A j \in 1..k : upTo(k)[j] = s[j]
  BY <1>0 DEF n
<1>3. ASSUME NEW k \in 1..n, NEW j \in 1..(k - 1) PROVE ~Earlier(s[k], s[j])
  <2>1. j \in 1..n /\ j < k
    BY <1>0
  <2>2. s[j].to <= s[k].from
    BY <1>0, <2>1 DEF Chain, Apart
  <2>3. s[j].from < s[j].to
    BY <1>0, <2>1 DEF Range
  <2>4. s[j] \in DetourPiece /\ s[k] \in DetourPiece
    BY <1>0, <2>1
  <2>5. s[j].from \in Nat /\ s[j].to \in Nat /\ s[k].from \in Nat
    BY <2>4 DEF DetourPiece
  <2>6. s[j].from < s[k].from
    BY <2>2, <2>3, <2>5
  <2>q. QED
    BY <2>5, <2>6 DEF Earlier
<1>4. ASSUME NEW k \in 1..n PROVE InsertAt(upTo(k - 1), place(k, upTo(k - 1)), s[k]) = upTo(k)
  <2>1. k - 1 \in 0..n /\ k \in 0..n /\ k - 1 \in Nat /\ k \in Nat
    BY <1>0
  <2> DEFINE v == upTo(k - 1)
  <2>2. v \in Seq(DetourPiece) /\ Len(v) = k - 1 /\ DOMAIN v = 1..(k - 1) /\ \A j \in 1..(k - 1) : v[j] = s[j]
    BY <1>2, <2>1
  <2> HIDE DEF v
  <2>3. {j \in DOMAIN v : ~Earlier(s[k], v[j])} = 1..(k - 1)
    BY <1>3, <2>2
  <2>4. Cardinality(1..(k - 1)) = k - 1
    <3>1. Cardinality(1..(k - 1)) = IF 1 > k - 1 THEN 0 ELSE (k - 1) - 1 + 1
      BY <2>1, FS_Interval
    <3>q. QED
      BY <2>1, <3>1
  <2>5. place(k, v) = k
    <3>1. place(k, v) = Cardinality(1..(k - 1)) + 1
      BY <2>3
    <3> HIDE DEF place
    <3>q. QED
      BY <2>1, <2>4, <3>1
  <2> HIDE DEF place
  <2>6. InsertAt(v, k, s[k]) = SubSeq(v, 1, k - 1) \o <<s[k]>> \o SubSeq(v, k, Len(v))
    BY DEF InsertAt
  <2>7. SubSeq(v, 1, k - 1) = v /\ SubSeq(v, k, Len(v)) = <<>>
    BY <2>1, <2>2
  <2>8. InsertAt(v, k, s[k]) = v \o <<s[k]>>
    BY <2>2, <2>6, <2>7
  <2> DEFINE w == v \o <<s[k]>>
  <2>9. w \in Seq(DetourPiece) /\ Len(w) = k /\ \A i \in 1..k : w[i] = s[i]
    <3>1. s[k] \in DetourPiece
      BY <1>0
    <3>2. w \in Seq(DetourPiece) /\ Len(w) = k /\ w[k] = s[k] /\ \A i \in 1..(k - 1) : w[i] = v[i]
      BY <2>1, <2>2, <3>1
    <3> HIDE DEF w
    <3>3. \A i \in 1..k : i = k \/ i \in 1..(k - 1)
      BY <2>1
    <3>q. QED
      BY <2>2, <3>2, <3>3
  <2> HIDE DEF w
  <2> DEFINE u == upTo(k)
  <2>10. u \in Seq(DetourPiece) /\ Len(u) = k /\ \A i \in 1..k : u[i] = s[i]
    BY <1>2, <2>1
  <2> HIDE DEF u
  <2>11. w = u
    BY <2>9, <2>10, SeqEqual
  <2>q. QED
    BY <2>5, <2>8, <2>11 DEF w, u, v
<1> HIDE DEF place
<1>5. upTo(0) = <<>>
  OBVIOUS
<1>6. \E f : f = equation(f)
  <2> DEFINE g == [k \in 0..n |-> upTo(k)]
  <2>1. ASSUME NEW k \in 0..n
        PROVE  g[k] = IF k = 0 THEN <<>> ELSE InsertAt(g[k - 1], place(k, g[k - 1]), s[k])
    <3>1. CASE k = 0
      BY <1>5, <3>1
    <3>2. CASE k # 0
      <4>1. k \in 1..n /\ k - 1 \in 0..n
        BY <1>0, <3>2
      <4>2. g[k] = upTo(k) /\ g[k - 1] = upTo(k - 1)
        BY <4>1
      <4> HIDE DEF g, upTo
      <4>q. QED
        BY <1>4, <3>2, <4>1, <4>2
    <3>q. QED
      BY <3>1, <3>2
  <2>2. g = [k \in 0..n |-> g[k]]
    OBVIOUS
  <2> HIDE DEF g
  <2>3. g = equation(g)
    BY <2>1, <2>2
  <2> HIDE DEF equation
  <2>q. QED
    BY <2>3
<1>7. sorted = equation(sorted)
  <2> HIDE DEF equation
  <2>q. QED
    BY <1>6
<1> HIDE DEF sorted
<1>8. sorted[0] = <<>> /\ \A k \in 1..n : sorted[k] = InsertAt(sorted[k - 1], place(k, sorted[k - 1]), s[k])
  BY <1>0, <1>7
<1> HIDE DEF equation, upTo
<1> DEFINE N == {k \in 0..n : sorted[k] = upTo(k)}
<1>9. 0 \in N
  BY <1>0, <1>5, <1>8
<1>10. ASSUME NEW k \in (0 + 1)..n, k - 1 \in N PROVE k \in N
  <2>1. k \in 1..n /\ k \in 0..n
    BY <1>0
  <2>q. QED
    BY <1>4, <1>8, <1>10, <2>1
<1> HIDE DEF N
<1>11. n \in N
  <2>1. 0 \in Int /\ n \in Int /\ n \in 0..n
    BY <1>0
  <2>q. QED
    BY <1>9, <1>10, <2>1, Ascends, Zenon
<1>12. upTo(n) = s
  BY <1>0 DEF upTo, n
<1>q. QED
  BY <1>1, <1>11, <1>12 DEF N

-----------------------------------------------------------------------------
(* The walk from a kept stop to the next.                                  *)

AnyPiece == [kind: {"original", "detour"}, from: Nat, to: Nat]

\* Pieces that lead from one place to another.
Leg(s, a, b) ==
    /\ s \in Seq(AnyPiece)
    /\ s = <<>> => a = b
    /\ s # <<>> => s[1].from = a /\ s[Len(s)].to = b
    /\ \A p \in 1..(Len(s) - 1) : s[p].to = s[p + 1].from

LEMMA LegsJoin ==
    ASSUME NEW a, NEW b, NEW c, NEW s, Leg(s, a, b), NEW t, Leg(t, b, c)
    PROVE  Leg(s \o t, a, c)
<1> DEFINE u == s \o t
<1>1. /\ s \in Seq(AnyPiece) /\ t \in Seq(AnyPiece) /\ Len(s) \in Nat /\ Len(t) \in Nat
      /\ (s = <<>> <=> Len(s) = 0) /\ (t = <<>> <=> Len(t) = 0)
  BY DEF Leg
<1>2. CASE s = <<>>
  <2>1. u = t
    BY <1>1, <1>2, ConcatEmptySeq
  <2>q. QED
    BY <1>2, <2>1 DEF Leg
<1>3. CASE t = <<>>
  <2>1. u = s
    BY <1>1, <1>3, ConcatEmptySeq
  <2>q. QED
    BY <1>3, <2>1 DEF Leg
<1>4. CASE s # <<>> /\ t # <<>>
  <2>1. /\ u \in Seq(AnyPiece) /\ Len(u) = Len(s) + Len(t) /\ u # <<>>
        /\ \A i \in 1..Len(s) : u[i] = s[i]
        /\ \A i \in 1..Len(t) : u[Len(s) + i] = t[i]
    BY <1>1, <1>4
  <2>2. Len(s) >= 1 /\ Len(t) >= 1
    BY <1>1, <1>4
  <2> HIDE DEF u
  <2>3. /\ s[1].from = a /\ s[Len(s)].to = b /\ t[1].from = b /\ t[Len(t)].to = c
        /\ \A p \in 1..(Len(s) - 1) : s[p].to = s[p + 1].from
        /\ \A p \in 1..(Len(t) - 1) : t[p].to = t[p + 1].from
    BY <1>4 DEF Leg
  <2>4. u[1] = s[1] /\ u[Len(u)] = t[Len(t)]
    <3>1. 1 \in 1..Len(s) /\ Len(t) \in 1..Len(t)
      BY <1>1, <2>2
    <3>q. QED
      BY <2>1, <3>1
  <2>5. ASSUME NEW p \in 1..(Len(u) - 1) PROVE u[p].to = u[p + 1].from
    <3>1. CASE p < Len(s)
      <4>1. p \in 1..(Len(s) - 1) /\ p \in 1..Len(s) /\ p + 1 \in 1..Len(s)
        BY <1>1, <3>1
      <4>q. QED
        BY <2>1, <2>3, <4>1
    <3>2. CASE p = Len(s)
      <4>1. p \in 1..Len(s) /\ 1 \in 1..Len(t)
        BY <1>1, <2>2, <3>2
      <4>q. QED
        BY <2>1, <2>3, <3>2, <4>1
    <3>3. CASE p > Len(s)
      <4> DEFINE q == p - Len(s)
      <4>1. /\ q \in 1..(Len(t) - 1) /\ q \in 1..Len(t) /\ q + 1 \in 1..Len(t)
            /\ Len(s) + q = p /\ Len(s) + (q + 1) = p + 1
        BY <1>1, <2>1, <3>3
      <4> HIDE DEF q
      <4>2. u[Len(s) + q] = t[q] /\ u[Len(s) + (q + 1)] = t[q + 1]
        BY <2>1, <4>1, Zenon
      <4>3. t[q].to = t[q + 1].from
        BY <2>3, <4>1, Zenon
      <4>q. QED
        BY <4>1, <4>2, <4>3, Zenon
    <3>q. QED
      BY <1>1, <3>1, <3>2, <3>3
  <2>q. QED
    BY <2>1, <2>3, <2>4, <2>5 DEF Leg, u
<1>q. QED
  BY <1>2, <1>3, <1>4

LEMMA OnePiece ==
    ASSUME NEW x \in AnyPiece
    PROVE  Leg(<<x>>, x.from, x.to) /\ Range(<<x>>) = {x}
<1>1. <<x>> \in Seq(AnyPiece) /\ Range(<<x>>) = {x}
  BY LoneChains
<1>2. Len(<<x>>) = 1 /\ <<x>>[1] = x /\ <<x>> # <<>> /\ 1..(Len(<<x>>) - 1) = {}
  OBVIOUS
<1>q. QED
  BY <1>1, <1>2 DEF Leg

LEMMA OriginalIsALeg ==
    ASSUME NEW a \in Nat, NEW b \in Nat
    PROVE  /\ Leg(originalSlice(a, b), a, b)
           /\ \A x \in Range(originalSlice(a, b)) : a # b /\ x.kind = "original" /\ x.from = a /\ x.to = b
<1>1. CASE a = b
  <2>1. originalSlice(a, b) = <<>> /\ Range(<<>>) = {}
    BY <1>1 DEF originalSlice, Range
  <2>2. Leg(<<>>, a, b)
    BY <1>1 DEF Leg
  <2>q. QED
    BY <2>1, <2>2
<1>2. CASE a # b
  <2> DEFINE x == Piece("original", a, b)
  <2>1. x \in AnyPiece /\ x.kind = "original" /\ x.from = a /\ x.to = b
    BY DEF Piece, AnyPiece
  <2> HIDE DEF x
  <2>2. originalSlice(a, b) = <<x>>
    BY <1>2 DEF originalSlice, x
  <2>q. QED
    BY <1>2, <2>1, <2>2, OnePiece
<1>q. QED
  BY <1>1, <1>2

\* The replacements of a variant: apart, in order, and each leads onwards.
Replacements(s) ==
    s \in Seq(DetourPiece) /\ Chain(s, Apart) /\ \A x \in Range(s) : x.from < x.to

\* A place that no replacement crosses.
Clear(s, place) == \A x \in Range(s) : place <= x.from \/ x.to <= place

\* Pieces from start to end: replacements, and of the original what they leave.
Sewn(s, start, end, pieces) ==
    \A x \in Range(pieces) :
        \/ x \in Range(s)
        \/ /\ x.kind = "original" /\ start <= x.from /\ x.from < x.to /\ x.to <= end
           /\ \A y \in Range(s) : y.to <= x.from \/ x.to <= y.from

\* The loop of reconstructPath, after some replacements.
Walker == [cursor: Nat, pieces: Seq(AnyPiece), crosses: BOOLEAN]

Walk(s, start, end, k, before) ==
    IF s[k].to <= start \/ s[k].from >= end THEN before
    ELSE [cursor |-> s[k].to,
          pieces |-> before.pieces \o originalSlice(before.cursor, s[k].from) \o <<s[k]>>,
          crosses |-> before.crosses \/ s[k].from < before.cursor \/ s[k].to > end]

Walked(s, start, end, k, w) ==
    /\ w \in Walker /\ ~w.crosses
    /\ start <= w.cursor /\ w.cursor <= end
    /\ w.cursor = start \/ \E j \in 1..k : w.cursor = s[j].to
    /\ \A j \in 1..k : s[j].to <= w.cursor \/ end <= s[j].from
    /\ Leg(w.pieces, start, w.cursor)
    /\ Sewn(s, start, end, w.pieces)

LEMMA ReplacementsTyped ==
    ASSUME NEW s, Replacements(s)
    PROVE  /\ Len(s) \in Nat /\ DOMAIN s = 1..Len(s)
           /\ \A i \in 1..Len(s) : /\ s[i] \in AnyPiece /\ s[i] \in Range(s)
                                   /\ s[i].from \in Nat /\ s[i].to \in Nat /\ s[i].from < s[i].to
           /\ \A i, j \in 1..Len(s) : i < j => s[i].to <= s[j].from
           /\ \A x \in Range(s) : \E i \in 1..Len(s) : x = s[i]
<1>1. s \in Seq(DetourPiece) /\ Chain(s, Apart) /\ \A x \in Range(s) : x.from < x.to
  BY DEF Replacements
<1>2. Len(s) \in Nat /\ DOMAIN s = 1..Len(s) /\ \A i \in 1..Len(s) : s[i] \in DetourPiece
  BY <1>1
<1>3. \A x \in DetourPiece : x \in AnyPiece /\ x.from \in Nat /\ x.to \in Nat
  BY DEF DetourPiece, AnyPiece
<1>4. \A i \in 1..Len(s) : s[i] \in Range(s)
  BY <1>2 DEF Range
<1>5. \A i, j \in 1..Len(s) : i < j => s[i].to <= s[j].from
  BY <1>1, <1>2 DEF Chain, Apart
<1>6. \A x \in Range(s) : \E i \in 1..Len(s) : x = s[i]
  BY <1>2 DEF Range
<1>q. QED
  BY <1>1, <1>2, <1>3, <1>4, <1>5, <1>6

LEMMA WalkTyped ==
    ASSUME NEW s, Replacements(s), NEW start \in Nat, NEW end \in Nat, NEW k \in 1..Len(s), NEW w \in Walker
    PROVE  Walk(s, start, end, k, w) \in Walker
<1>1. s[k] \in AnyPiece /\ s[k].from \in Nat /\ s[k].to \in Nat
  BY ReplacementsTyped
<1>2. w.cursor \in Nat /\ w.pieces \in Seq(AnyPiece) /\ w.crosses \in BOOLEAN
  BY DEF Walker
<1>3. originalSlice(w.cursor, s[k].from) \in Seq(AnyPiece)
  BY <1>1, <1>2, OriginalIsALeg DEF Leg
<1>4. w.pieces \o originalSlice(w.cursor, s[k].from) \o <<s[k]>> \in Seq(AnyPiece)
  BY <1>1, <1>2, <1>3
<1>q. QED
  BY <1>1, <1>2, <1>4 DEF Walk, Walker

LEMMA WalkGoesOn ==
    ASSUME NEW s, Replacements(s), NEW start \in Nat, NEW end \in Nat, Clear(s, start), Clear(s, end),
           NEW k \in 1..Len(s), NEW w, Walked(s, start, end, k - 1, w)
    PROVE  Walked(s, start, end, k, Walk(s, start, end, k, w))
<1> DEFINE next == s[k]
           v == Walk(s, start, end, k, w)
<1>0. /\ Len(s) \in Nat /\ next \in AnyPiece /\ next \in Range(s)
      /\ next.from \in Nat /\ next.to \in Nat /\ next.from < next.to
      /\ \A j \in 1..Len(s) : s[j].from \in Nat /\ s[j].to \in Nat /\ s[j].from < s[j].to
      /\ \A i, j \in 1..Len(s) : i < j => s[i].to <= s[j].from
      /\ \A x \in Range(s) : \E i \in 1..Len(s) : x = s[i]
  BY ReplacementsTyped
<1>1. /\ w \in Walker /\ ~w.crosses /\ start <= w.cursor /\ w.cursor <= end
      /\ w.cursor = start \/ \E j \in 1..(k - 1) : w.cursor = s[j].to
      /\ \A j \in 1..(k - 1) : s[j].to <= w.cursor \/ end <= s[j].from
      /\ Leg(w.pieces, start, w.cursor) /\ Sewn(s, start, end, w.pieces)
  BY DEF Walked
<1>2. w.cursor \in Nat /\ w.pieces \in Seq(AnyPiece)
  BY <1>1 DEF Walker
<1>3. /\ start <= next.from \/ next.to <= start
      /\ end <= next.from \/ next.to <= end
  BY <1>0 DEF Clear
<1>4. \A j \in 1..k : j = k \/ j \in 1..(k - 1)
  BY <1>0
<1>5. \A j \in 1..(k - 1) : j \in 1..Len(s) /\ j \in 1..k /\ j < k
  BY <1>0
<1>6. v \in Walker
  BY <1>1, WalkTyped
<1>7. CASE next.to <= start \/ next.from >= end
  <2>1. v = w
    BY <1>7 DEF Walk
  <2>2. next.to <= w.cursor \/ end <= next.from
    BY <1>0, <1>1, <1>2, <1>7
  <2>3. \A j \in 1..k : s[j].to <= w.cursor \/ end <= s[j].from
    BY <1>1, <1>4, <2>2
  <2>4. w.cursor = start \/ \E j \in 1..k : w.cursor = s[j].to
    BY <1>1, <1>5
  <2>q. QED
    BY <1>1, <2>1, <2>3, <2>4 DEF Walked
<1>8. CASE ~(next.to <= start \/ next.from >= end)
  <2> DEFINE slice == originalSlice(w.cursor, next.from)
             pieces == w.pieces \o slice \o <<next>>
  <2>1. v = [cursor |-> next.to, pieces |-> pieces,
             crosses |-> w.crosses \/ next.from < w.cursor \/ next.to > end]
    BY <1>8 DEF Walk
  <2>2. start <= next.from /\ next.to <= end /\ start < next.to /\ next.from < end
    BY <1>0, <1>3, <1>8
  <2>3. w.cursor <= next.from
    <3>1. CASE w.cursor = start
      BY <2>2, <3>1
    <3>2. CASE \E j \in 1..(k - 1) : w.cursor = s[j].to
      <4>1. PICK j \in 1..(k - 1) : w.cursor = s[j].to
        BY <3>2
      <4>2. j \in 1..Len(s) /\ j < k
        BY <1>5
      <4>q. QED
        BY <1>0, <4>1, <4>2
    <3>q. QED
      BY <1>1, <3>1, <3>2
  <2>4. v.cursor = next.to /\ v.pieces = pieces /\ ~v.crosses
    <3>1. ~(next.from < w.cursor) /\ ~(next.to > end)
      BY <1>0, <1>2, <2>2, <2>3
    <3> DEFINE crosses == w.crosses \/ next.from < w.cursor \/ next.to > end
    <3>2. ~crosses
      BY <1>1, <3>1, Zenon
    <3> HIDE DEF crosses, pieces
    <3>3. v = [cursor |-> next.to, pieces |-> pieces, crosses |-> crosses]
      BY <2>1 DEF crosses
    <3> HIDE DEF v
    <3>4. v.cursor = next.to /\ v.pieces = pieces /\ v.crosses = crosses
      BY <3>3
    <3>q. QED
      BY <3>2, <3>4, Zenon
  <2>5. start <= next.to /\ next.to <= end
    BY <1>0, <2>2
  <2>6. \E j \in 1..k : next.to = s[j].to
    OBVIOUS
  <2>7. \A j \in 1..k : s[j].to <= next.to \/ end <= s[j].from
    <3>1. \A j \in 1..(k - 1) : s[j].to <= next.to
      <4>1. TAKE j \in 1..(k - 1)
      <4>2. j \in 1..Len(s) /\ j < k
        BY <1>5
      <4>3. s[j].to <= next.from /\ s[j].to \in Nat
        BY <1>0, <4>2
      <4>4. \A a, b, c \in Nat : a <= b /\ b < c => a <= c
        OBVIOUS
      <4> HIDE DEF next
      <4>q. QED
        BY <1>0, <4>3, <4>4, Zenon
    <3>q. QED
      BY <1>0, <1>4, <3>1
  <2>8. Leg(slice, w.cursor, next.from) /\ Leg(<<next>>, next.from, next.to) /\ Range(<<next>>) = {next}
    BY <1>0, <1>2, OriginalIsALeg, OnePiece
  <2>9. \A x \in Range(slice) :
            w.cursor # next.from /\ x.kind = "original" /\ x.from = w.cursor /\ x.to = next.from
    BY <1>0, <1>2, OriginalIsALeg
  <2> HIDE DEF slice
  <2>10. Leg(w.pieces \o slice, start, next.from)
    BY <1>1, <2>8, LegsJoin
  <2>11. Leg(pieces, start, next.to)
    BY <2>8, <2>10, LegsJoin
  <2>12. Range(pieces) = Range(w.pieces) \cup Range(slice) \cup {next}
    <3>1. slice \in Seq(AnyPiece) /\ <<next>> \in Seq(AnyPiece)
      BY <2>8 DEF Leg
    <3>2. Range(w.pieces \o slice) = Range(w.pieces) \cup Range(slice) /\ w.pieces \o slice \in Seq(AnyPiece)
      BY <1>2, <3>1, ConcatChains
    <3> DEFINE head == w.pieces \o slice
    <3>3. pieces = head \o <<next>>
      OBVIOUS
    <3> HIDE DEF head, pieces
    <3>4. Range(pieces) = Range(head) \cup Range(<<next>>)
      <4>1. head \in Seq(AnyPiece)
        BY <3>2 DEF head
      <4> DEFINE tail == <<next>>
      <4>2. pieces = head \o tail /\ tail = <<next>>
        BY <3>3
      <4>3. tail \in Seq(AnyPiece)
        BY <3>1
      <4> HIDE DEF tail
      <4>4. Range(head \o tail) = Range(head) \cup Range(tail)
        BY <4>1, <4>3, ConcatChains
      <4>q. QED
        BY <4>2, <4>4, Zenon
    <3>q. QED
      BY <2>8, <3>2, <3>4 DEF head
  <2>13. ASSUME NEW x \in Range(slice)
         PROVE  /\ x.kind = "original" /\ start <= x.from /\ x.from < x.to /\ x.to <= end
                /\ \A y \in Range(s) : y.to <= x.from \/ x.to <= y.from
    <3>1. x.kind = "original" /\ x.from = w.cursor /\ x.to = next.from /\ w.cursor # next.from
      BY <2>9
    <3>2. start <= x.from /\ x.from < x.to /\ x.to <= end
      BY <1>0, <1>1, <1>2, <2>2, <2>3, <3>1
    <3>3. ASSUME NEW j \in 1..Len(s) PROVE s[j].to <= w.cursor \/ next.from <= s[j].from
      <4>1. CASE j \in 1..(k - 1)
        <5>1. s[j].to <= w.cursor \/ end <= s[j].from
          BY <1>1, <4>1
        <5>q. QED
          BY <1>0, <2>2, <5>1
      <4>2. CASE j = k
        BY <1>0, <4>2
      <4>3. CASE k < j
        <5>1. next.to <= s[j].from /\ s[j].from \in Nat
          BY <1>0, <4>3
        <5>q. QED
          BY <1>0, <5>1
      <4>q. QED
        BY <1>0, <4>1, <4>2, <4>3
    <3>q. QED
      BY <1>0, <3>1, <3>2, <3>3
  <2>14. Sewn(s, start, end, pieces)
    BY <1>0, <1>1, <2>12, <2>13 DEF Sewn
  <2> HIDE DEF pieces
  <2>q. QED
    BY <1>6, <2>4, <2>5, <2>6, <2>7, <2>11, <2>14 DEF Walked
<1>q. QED
  BY <1>7, <1>8

LEMMA PathsAreSewn ==
    ASSUME NEW s, Replacements(s), NEW start \in Nat, NEW end \in Nat, start < end, Clear(s, start), Clear(s, end)
    PROVE  LET path == reconstructPath(s, start, end)
           IN  /\ ~path.crosses
               /\ Leg(path.pieces, start, end)
               /\ Sewn(s, start, end, path.pieces)
<1> DEFINE n == Len(s)
           equation(f) == [k \in 0..n |-> IF k = 0 THEN [cursor |-> start, pieces |-> <<>>, crosses |-> FALSE]
                                          ELSE Walk(s, start, end, k, f[k - 1])]
           walk == CHOOSE f : f = equation(f)
           path == reconstructPath(s, start, end)
           first == [cursor |-> start, pieces |-> <<>>, crosses |-> FALSE]
<1>0. n \in Nat
  BY ReplacementsTyped
<1>1. path = [pieces |-> walk[n].pieces \o originalSlice(walk[n].cursor, end), crosses |-> walk[n].crosses]
  BY DEF reconstructPath, Walk
<1> HIDE DEF path
<1>2. first \in Walker
  BY DEF Walker
<1>3. Walked(s, start, end, 0, first)
  <2>1. Leg(<<>>, start, start) /\ Sewn(s, start, end, <<>>)
    BY DEF Leg, Sewn, Range
  <2>2. first.cursor = start /\ first.pieces = <<>> /\ first.crosses = FALSE
    OBVIOUS
  <2> HIDE DEF first
  <2>q. QED
    BY <1>2, <2>1, <2>2 DEF Walked
<1> HIDE DEF n
<1>4. \E f : f = equation(f)
  <2> DEFINE step == [p \in (1..n) \X Walker |-> Walk(s, start, end, p[1], p[2])]
  <2>1. \A k \in 1..n, v \in Walker : Walk(s, start, end, k, v) \in Walker
    BY WalkTyped DEF n
  <2>2. /\ step \in [(1..n) \X Walker -> Walker]
        /\ \A k \in 1..n, v \in Walker : step[<<k, v>>] = Walk(s, start, end, k, v)
    BY <2>1
  <2> HIDE DEF step, first
  <2>3. PICK f \in [0..n -> Walker] : f = [k \in 0..n |-> IF k = 0 THEN first ELSE step[<<k, f[k - 1]>>]]
    <3>1. Steps(Walker, n, first, step)
      BY <1>0, <1>2, <2>2 DEF Steps
    <3>q. QED
      BY <3>1, LoopExists
  <2>4. \A k \in 0..n : k # 0 => k \in 1..n /\ f[k - 1] \in Walker
    BY <1>0, <2>3
  <2>5. f = equation(f)
    BY <2>2, <2>3, <2>4 DEF first
  <2> HIDE DEF equation
  <2>q. QED
    BY <2>5
<1>5. walk = equation(walk)
  <2> HIDE DEF equation
  <2>q. QED
    BY <1>4
<1> HIDE DEF walk
<1>6. walk[0] = first /\ \A k \in 1..n : walk[k] = Walk(s, start, end, k, walk[k - 1])
  <2>1. \A k \in 0..n : walk[k] = IF k = 0 THEN first ELSE Walk(s, start, end, k, walk[k - 1])
    BY <1>5
  <2>2. 0 \in 0..n /\ \A k \in 1..n : k \in 0..n /\ k # 0
    BY <1>0
  <2> HIDE DEF first
  <2>q. QED
    BY <2>1, <2>2
<1> HIDE DEF equation, first
<1> DEFINE N == {k \in 0..n : Walked(s, start, end, k, walk[k])}
<1>7. 0 \in N
  BY <1>0, <1>3, <1>6
<1>8. ASSUME NEW k \in (0 + 1)..n, k - 1 \in N PROVE k \in N
  <2>1. k \in 1..n /\ k \in 0..n
    BY <1>0
  <2>2. Walked(s, start, end, k - 1, walk[k - 1])
    BY <1>8
  <2>3. Walked(s, start, end, k, Walk(s, start, end, k, walk[k - 1]))
    BY <2>1, <2>2, WalkGoesOn DEF n
  <2>q. QED
    BY <1>6, <2>1, <2>3
<1> HIDE DEF N
<1>9. n \in N
  <2>1. 0 \in Int /\ n \in Int /\ n \in 0..n
    BY <1>0
  <2>q. QED
    BY <1>7, <1>8, <2>1, Ascends, Zenon
<1> DEFINE w == walk[n]
           slice == originalSlice(w.cursor, end)
<1>10. Walked(s, start, end, n, w)
  BY <1>9 DEF N
<1>11. path.pieces = w.pieces \o slice /\ path.crosses = w.crosses
  BY <1>1
<1> HIDE DEF w
<1>12. /\ w.cursor \in Nat /\ w.pieces \in Seq(AnyPiece) /\ start <= w.cursor /\ w.cursor <= end /\ ~w.crosses
       /\ \A j \in 1..n : s[j].to <= w.cursor \/ end <= s[j].from
       /\ Leg(w.pieces, start, w.cursor) /\ Sewn(s, start, end, w.pieces)
  BY <1>10 DEF Walked, Walker
<1>13. /\ Leg(slice, w.cursor, end)
       /\ \A x \in Range(slice) : w.cursor # end /\ x.kind = "original" /\ x.from = w.cursor /\ x.to = end
  BY <1>12, OriginalIsALeg
<1> HIDE DEF slice
<1>14. Leg(w.pieces \o slice, start, end)
  BY <1>12, <1>13, LegsJoin
<1>15. Range(w.pieces \o slice) = Range(w.pieces) \cup Range(slice)
  <2>1. slice \in Seq(AnyPiece)
    BY <1>13 DEF Leg
  <2>q. QED
    BY <1>12, <2>1, ConcatChains
<1>16. ASSUME NEW x \in Range(slice)
       PROVE  /\ x.kind = "original" /\ start <= x.from /\ x.from < x.to /\ x.to <= end
              /\ \A y \in Range(s) : y.to <= x.from \/ x.to <= y.from
  <2>1. x.kind = "original" /\ x.from = w.cursor /\ x.to = end /\ w.cursor # end
    BY <1>13
  <2>2. \A y \in Range(s) : \E j \in 1..n : y = s[j]
    BY ReplacementsTyped DEF n
  <2>q. QED
    BY <1>12, <2>1, <2>2
<1>17. Sewn(s, start, end, w.pieces \o slice)
  BY <1>12, <1>15, <1>16 DEF Sewn
<1>q. QED
  BY <1>11, <1>12, <1>14, <1>17 DEF path

-----------------------------------------------------------------------------
(* The plans of a request, and what is assembled of them.                  *)

LEMMA RequestInOrder ==
    ASSUME NEW r \in Requests
    PROVE  /\ PlannedRequest(r) /\ LastScalar(r) \in Nat
           /\ PiecesInOrder(r.pieces, LastScalar(r))
           /\ \A s \in Stops(r) : r.availability[s] # Required =>
                \E interval \in Range(mergeInsidePieces(r.pieces)) : Within(interval, s)
<1>1. /\ r.stops \in 2..Len(Places)
      /\ r.availability \in [Stops(r) -> {Forced, Optional, Required}]
      /\ r.pieces \in Seq([segment: Nat, start: Nat, end: Nat])
      /\ \A i \in DOMAIN r.pieces :
            /\ r.pieces[i].segment \in 0..(r.stops - 2)
            /\ 0 <= r.pieces[i].start /\ r.pieces[i].start < r.pieces[i].end /\ r.pieces[i].end <= Whole
            /\ i > 1 => Scalar(r.pieces[i - 1].segment, r.pieces[i - 1].end)
                            <= Scalar(r.pieces[i].segment, r.pieces[i].start)
      /\ \A s \in Stops(r) : r.availability[s] # Required =>
            \E interval \in Range(mergeInsidePieces(r.pieces)) : Within(interval, s)
  BY RequestsAssumption
<1>2. r.stops \in Nat /\ r.stops >= 2
  BY <1>1, PlacesAreInts
<1>3. LastScalar(r) \in Nat /\ LastScalar(r) = 2 * (r.stops - 1)
  BY <1>2 DEF LastScalar, StopScalar, Whole
<1>4. r.pieces \in Seq(RoutePiece)
  BY <1>1 DEF RoutePiece
<1>5. ASSUME NEW i \in DOMAIN r.pieces
      PROVE  /\ Begins(r.pieces[i]) < Ends(r.pieces[i]) /\ Ends(r.pieces[i]) <= LastScalar(r)
             /\ i > 1 => Ends(r.pieces[i - 1]) <= Begins(r.pieces[i])
  <2> DEFINE piece == r.pieces[i]
  <2>1. /\ piece.segment \in 0..(r.stops - 2) /\ piece.start < piece.end /\ piece.end <= 2
        /\ i > 1 => Ends(r.pieces[i - 1]) <= Begins(piece)
    BY <1>1 DEF Whole, Begins, Ends
  <2>2. piece \in RoutePiece
    BY <1>4
  <2> HIDE DEF piece
  <2>3. piece.segment \in Nat /\ piece.start \in Nat /\ piece.end \in Nat
    BY <2>2 DEF RoutePiece
  <2>4. Begins(piece) = 2 * piece.segment + piece.start /\ Ends(piece) = 2 * piece.segment + piece.end
    BY DEF Begins, Ends, Scalar, Whole
  <2>5. Begins(piece) < Ends(piece) /\ Ends(piece) <= LastScalar(r)
    BY <1>2, <1>3, <2>1, <2>3, <2>4
  <2>q. QED
    BY <2>1, <2>5 DEF piece
<1>q. QED
  BY <1>1, <1>2, <1>3, <1>4, <1>5 DEF PlannedRequest, PiecesInOrder

\* The intervals of a plan are apart, and the nodes of each fit in it.
PlansFit(r, plan) ==
    /\ Len(plan) \in Nat /\ DOMAIN plan = 1..Len(plan)
    /\ \A i \in 1..Len(plan) :
        \E interval \in Interval :
            /\ IntervalIn(r, interval) /\ NodesFit(r, interval, plan[i].nodes)
            /\ plan[i].entry = interval.entry /\ plan[i].exit = interval.exit
            /\ plan[i].omitted = boundaryOmitted(r, interval)
    /\ \A i, j \in 1..Len(plan) : i < j => plan[i].exit <= plan[j].entry
    /\ \A s \in Stops(r) : r.availability[s] # Required =>
        \E i \in 1..Len(plan) : plan[i].entry <= StopScalar(s) /\ StopScalar(s) <= plan[i].exit

LEMMA BuiltPlansFit ==
    ASSUME NEW r \in Requests
    PROVE  PlansFit(r, buildIntervalPlans(r))
<1> DEFINE intervals == mergeInsidePieces(r.pieces)
           plan == buildIntervalPlans(r)
<1>1. /\ PlannedRequest(r) /\ IntervalsInOrder(intervals, LastScalar(r))
      /\ \A s \in Stops(r) : r.availability[s] # Required =>
            \E interval \in Range(intervals) : Within(interval, s)
  BY RequestInOrder, MergedInOrder
<1>2. /\ DOMAIN plan = DOMAIN intervals
      /\ \A i \in DOMAIN intervals :
            /\ plan[i].entry = intervals[i].entry /\ plan[i].exit = intervals[i].exit
            /\ plan[i].nodes = IntervalNodes(r, intervals[i])
            /\ plan[i].omitted = boundaryOmitted(r, intervals[i])
  BY DEF buildIntervalPlans
<1>3. plan = [i \in DOMAIN intervals |-> plan[i]]
  BY DEF buildIntervalPlans
<1> HIDE DEF intervals, plan
<1>4. /\ intervals \in Seq(Interval)
      /\ \A i \in DOMAIN intervals : intervals[i].entry < intervals[i].exit /\ intervals[i].exit <= LastScalar(r)
      /\ \A i, j \in DOMAIN intervals : i < j => intervals[i].exit <= intervals[j].entry
  BY <1>1 DEF IntervalsInOrder, Intervals
<1>5. Len(intervals) \in Nat /\ DOMAIN intervals = 1..Len(intervals) /\ \A i \in DOMAIN intervals : intervals[i] \in Interval
  BY <1>4
<1>6. Len(plan) = Len(intervals)
  BY <1>3, <1>5
<1>7. \A i \in DOMAIN intervals : IntervalIn(r, intervals[i])
  BY <1>4, <1>5 DEF IntervalIn
<1>8. \A i \in DOMAIN intervals : NodesFit(r, intervals[i], plan[i].nodes)
  BY <1>1, <1>2, <1>7, NodesAreFit
<1>9. ASSUME NEW s \in Stops(r), r.availability[s] # Required
      PROVE  \E i \in 1..Len(plan) : plan[i].entry <= StopScalar(s) /\ StopScalar(s) <= plan[i].exit
  <2>1. PICK interval \in Range(intervals) : Within(interval, s)
    BY <1>1, <1>9
  <2>2. PICK i \in DOMAIN intervals : intervals[i] = interval
    BY DEF Range
  <2>q. QED
    BY <1>2, <1>5, <1>6, <2>1, <2>2 DEF Within
<1>q. QED
  BY <1>2, <1>4, <1>5, <1>6, <1>7, <1>8, <1>9 DEF PlansFit, plan

\* What is kept in each interval, one choice for all.
Chosen(plan, kept) == \A i \in 1..Len(plan) : Selected(plan[i].nodes, kept[i])

OmittedBy(plan, kept) == UNION {plan[i].omitted \cup LostStops(plan[i].nodes, kept[i]) : i \in DOMAIN plan}
DetoursBy(plan, kept) == [i \in DOMAIN plan |-> DetoursOf(plan[i].nodes, kept[i])]

LEMMA AssembledOfChoices ==
    ASSUME NEW r, NEW plan, PlansFit(r, plan), NEW found, \A i \in DOMAIN plan : Timed(found[i].paths)
    PROVE  \/ Assemble(r, plan, found) \in {Refused(CoverageInsufficient), Refused(NoDetour)}
           \/ \E kept : /\ Chosen(plan, kept)
                        /\ Assemble(r, plan, found)
                            = reconstructRoute(r, OmittedBy(plan, kept), FlattenSeq(DetoursBy(plan, kept)))
<1> DEFINE selected == [i \in DOMAIN plan |-> Select(plan[i].nodes, found[i].paths, r.criterion)]
           failed == {i \in DOMAIN plan : selected[i] = {}}
           Way_(i) == (CHOOSE s \in selected[i] : TRUE).kept
           kept == [i \in DOMAIN plan |-> Way_(i)]
           Lost(i, k) ==
             {plan[i].nodes[n].at \div Whole : n \in {m \in DOMAIN plan[i].nodes \ Range(k) : ~plan[i].nodes[m].isAnchor}}
           Detours(nodes, k) ==
             [j \in 1..(Len(k) - 1) |-> Piece("detour", nodes[k[j]].at, nodes[k[j + 1]].at)]
           chosen == [i \in DOMAIN plan |->
             [omitted |-> plan[i].omitted \cup Lost(i, Way_(i)), detours |-> Detours(plan[i].nodes, Way_(i))]]
<1>1. CASE failed # {}
  BY <1>1 DEF Assemble
<1>2. CASE failed = {}
  <2>1. Assemble(r, plan, found)
            = reconstructRoute(r, UNION {chosen[i].omitted : i \in DOMAIN plan},
                               FlattenSeq([i \in DOMAIN plan |-> chosen[i].detours]))
    BY <1>2 DEF Assemble
  <2>2. ASSUME NEW i \in DOMAIN plan
        PROVE  /\ chosen[i].omitted = plan[i].omitted \cup LostStops(plan[i].nodes, kept[i])
               /\ chosen[i].detours = DetoursOf(plan[i].nodes, kept[i])
    <3>1. kept[i] = Way_(i)
      OBVIOUS
    <3>2. \A k : Lost(i, k) = LostStops(plan[i].nodes, k)
      BY DEF LostStops
    <3>3. \A k : Detours(plan[i].nodes, k) = DetoursOf(plan[i].nodes, k)
      BY DEF DetoursOf
    <3> HIDE DEF Lost, Detours, Way_, kept
    <3>4. chosen[i].omitted = plan[i].omitted \cup Lost(i, Way_(i)) /\ chosen[i].detours = Detours(plan[i].nodes, Way_(i))
      OBVIOUS
    <3>q. QED
      BY <3>1, <3>2, <3>3, <3>4
  <2>3. ASSUME NEW i \in 1..Len(plan) PROVE Selected(plan[i].nodes, kept[i])
    <3>1. i \in DOMAIN plan /\ plan[i].nodes \in Seq(Node) /\ Timed(found[i].paths)
      BY DEF PlansFit, NodesFit
    <3>2. selected[i] # {} /\ selected[i] = Select(plan[i].nodes, found[i].paths, r.criterion)
      BY <1>2, <3>1
    <3>3. \E s \in selected[i] : kept[i] = s.kept
      BY <3>1, <3>2
    <3> HIDE DEF selected, kept
    <3>q. QED
      BY <3>1, <3>2, <3>3, SelectKeeps
  <2> HIDE DEF chosen, kept
  <2>4. UNION {chosen[i].omitted : i \in DOMAIN plan} = OmittedBy(plan, kept)
    BY <2>2 DEF OmittedBy
  <2>5. [i \in DOMAIN plan |-> chosen[i].detours] = DetoursBy(plan, kept)
    BY <2>2 DEF DetoursBy
  <2>q. QED
    BY <2>1, <2>3, <2>4, <2>5 DEF Chosen
<1>q. QED
  BY <1>1, <1>2

LEMMA DetoursWithin ==
    ASSUME NEW nodes \in Seq(Node), Chain(nodes, InRouteOrder), NEW kept, Selected(nodes, kept),
           NEW x \in Range(DetoursOf(nodes, kept))
    PROVE  /\ x \in DetourPiece /\ x.from < x.to
           /\ At(nodes, kept, 1) <= x.from /\ x.to <= At(nodes, kept, Len(kept))
<1>1. /\ DetoursOf(nodes, kept) \in Seq(DetourPiece)
      /\ DOMAIN DetoursOf(nodes, kept) = 1..(Len(kept) - 1)
      /\ \A k \in 1..(Len(kept) - 1) :
            /\ DetoursOf(nodes, kept)[k].from = At(nodes, kept, k)
            /\ DetoursOf(nodes, kept)[k].to = At(nodes, kept, k + 1)
            /\ At(nodes, kept, k) < At(nodes, kept, k + 1)
  BY DetoursInOrder
<1>2. /\ Len(kept) \in Nat /\ Len(kept) > 1
      /\ \A k \in 1..Len(kept) : At(nodes, kept, k) \in Nat
      /\ \A j, k \in 1..Len(kept) : j < k => At(nodes, kept, j) < At(nodes, kept, k)
  BY PlacesOfKept
<1>3. PICK k \in DOMAIN DetoursOf(nodes, kept) : x = DetoursOf(nodes, kept)[k]
  BY DEF Range
<1>4. x \in DetourPiece /\ x.from = At(nodes, kept, k) /\ x.to = At(nodes, kept, k + 1) /\ x.from < x.to
  BY <1>1, <1>3
<1>5. /\ k \in 1..Len(kept) /\ k + 1 \in 1..Len(kept) /\ 1 \in 1..Len(kept) /\ Len(kept) \in 1..Len(kept)
      /\ (k = 1 \/ 1 < k) /\ (k + 1 = Len(kept) \/ k + 1 < Len(kept))
  BY <1>1, <1>2
<1>6. At(nodes, kept, 1) <= At(nodes, kept, k) /\ At(nodes, kept, k + 1) <= At(nodes, kept, Len(kept))
  BY <1>2, <1>5
<1>q. QED
  BY <1>4, <1>6

\* The detours that are chosen are replacements, each within its interval.
LEMMA ChosenDetours ==
    ASSUME NEW r, PlannedRequest(r), NEW plan, PlansFit(r, plan), NEW kept, Chosen(plan, kept)
    PROVE  /\ Replacements(FlattenSeq(DetoursBy(plan, kept)))
           /\ \A x \in Range(FlattenSeq(DetoursBy(plan, kept))) :
                \E i \in 1..Len(plan) : /\ x \in Range(DetoursOf(plan[i].nodes, kept[i]))
                                        /\ plan[i].entry <= x.from /\ x.to <= plan[i].exit
           /\ \A i \in 1..Len(plan) :
                Range(DetoursOf(plan[i].nodes, kept[i])) \subseteq Range(FlattenSeq(DetoursBy(plan, kept)))
<1> DEFINE seqs == DetoursBy(plan, kept)
           n == Len(plan)
<1>1. /\ n \in Nat /\ DOMAIN plan = 1..n /\ DOMAIN seqs = 1..n
      /\ \A i \in 1..n : seqs[i] = DetoursOf(plan[i].nodes, kept[i])
      /\ seqs = [i \in 1..n |-> seqs[i]]
  BY DEF PlansFit, DetoursBy
<1> HIDE DEF seqs, n
<1>2. ASSUME NEW i \in 1..n
      PROVE  /\ seqs[i] \in Seq(DetourPiece) /\ Chain(seqs[i], Apart)
             /\ \A x \in Range(seqs[i]) : /\ x \in DetourPiece /\ x.from < x.to
                                          /\ plan[i].entry <= x.from /\ x.to <= plan[i].exit
             /\ plan[i].entry \in Nat /\ plan[i].exit \in Nat
  <2>1. PICK interval \in Interval :
            /\ IntervalIn(r, interval) /\ NodesFit(r, interval, plan[i].nodes)
            /\ plan[i].entry = interval.entry /\ plan[i].exit = interval.exit
    BY DEF PlansFit, n
  <2>2. Selected(plan[i].nodes, kept[i])
    BY DEF Chosen, n
  <2>3. plan[i].nodes \in Seq(Node) /\ Chain(plan[i].nodes, InRouteOrder)
    BY <2>1 DEF NodesFit
  <2>4. interval.entry <= At(plan[i].nodes, kept[i], 1) /\ At(plan[i].nodes, kept[i], Len(kept[i])) <= interval.exit
    BY <2>1, <2>2, KeptStopsAreClear
  <2>5. /\ interval.entry \in Nat /\ interval.exit \in Nat
        /\ At(plan[i].nodes, kept[i], 1) \in Nat /\ At(plan[i].nodes, kept[i], Len(kept[i])) \in Nat
    <3>1. /\ Len(kept[i]) \in Nat /\ Len(kept[i]) > 1
          /\ \A k \in 1..Len(kept[i]) : At(plan[i].nodes, kept[i], k) \in Nat
      BY <2>2, <2>3, PlacesOfKept
    <3>2. 1 \in 1..Len(kept[i]) /\ Len(kept[i]) \in 1..Len(kept[i])
      BY <3>1
    <3>3. interval.entry \in Nat /\ interval.exit \in Nat
      BY DEF Interval
    <3>q. QED
      BY <3>1, <3>2, <3>3
  <2>6. seqs[i] \in Seq(DetourPiece) /\ Chain(seqs[i], Apart)
    BY <1>1, <2>2, <2>3, DetoursInOrder
  <2>7. ASSUME NEW x \in Range(seqs[i])
        PROVE  x \in DetourPiece /\ x.from < x.to /\ plan[i].entry <= x.from /\ x.to <= plan[i].exit
    <3>1. x \in Range(DetoursOf(plan[i].nodes, kept[i]))
      BY <1>1
    <3>2. /\ x \in DetourPiece /\ x.from < x.to
          /\ At(plan[i].nodes, kept[i], 1) <= x.from /\ x.to <= At(plan[i].nodes, kept[i], Len(kept[i]))
      BY <2>2, <2>3, <3>1, DetoursWithin
    <3>3. x.from \in Nat /\ x.to \in Nat
      BY <3>2 DEF DetourPiece
    <3>4. \A a, b, c \in Nat : a <= b /\ b <= c => a <= c
      OBVIOUS
    <3>q. QED
      BY <2>1, <2>4, <2>5, <3>2, <3>3, <3>4
  <2>q. QED
    BY <2>1, <2>5, <2>6, <2>7
<1>3. seqs \in Seq(Seq(DetourPiece))
  BY <1>1, <1>2
<1>4. ASSUME NEW i \in 1..n, NEW j \in 1..n, i < j PROVE Range(seqs[i]) \X Range(seqs[j]) \subseteq Apart
  <2>1. plan[i].exit <= plan[j].entry
    BY <1>4 DEF PlansFit, n
  <2>2. ASSUME NEW x \in Range(seqs[i]), NEW y \in Range(seqs[j]) PROVE <<x, y>> \in Apart
    <3>1. x \in DetourPiece /\ y \in DetourPiece /\ x.to <= plan[i].exit /\ plan[j].entry <= y.from
      BY <1>2
    <3>2. x.to \in Nat /\ y.from \in Nat /\ plan[i].exit \in Nat /\ plan[j].entry \in Nat
      BY <1>2, <3>1 DEF DetourPiece
    <3>3. x.to <= y.from
      BY <2>1, <3>1, <3>2
    <3>q. QED
      BY <3>1, <3>3 DEF Apart
  <2>q. QED
    BY <2>2
<1>5. /\ FlattenSeq(seqs) \in Seq(DetourPiece) /\ Chain(FlattenSeq(seqs), Apart)
      /\ Range(FlattenSeq(seqs)) = UNION {Range(seqs[i]) : i \in DOMAIN seqs}
  <2>1. \A i \in DOMAIN seqs : Chain(seqs[i], Apart)
    BY <1>1, <1>2
  <2>2. \A i, j \in DOMAIN seqs : i < j => Range(seqs[i]) \X Range(seqs[j]) \subseteq Apart
    BY <1>1, <1>4
  <2>q. QED
    BY <1>3, <2>1, <2>2, FlattenChains
<1>6. \A x \in Range(FlattenSeq(seqs)) :
         /\ x.from < x.to
         /\ \E i \in 1..n : /\ x \in Range(DetoursOf(plan[i].nodes, kept[i]))
                            /\ plan[i].entry <= x.from /\ x.to <= plan[i].exit
  <2> SUFFICES ASSUME NEW x \in Range(FlattenSeq(seqs))
               PROVE  /\ x.from < x.to
                      /\ \E i \in 1..n : /\ x \in Range(DetoursOf(plan[i].nodes, kept[i]))
                                         /\ plan[i].entry <= x.from /\ x.to <= plan[i].exit
    OBVIOUS
  <2>1. PICK i \in 1..n : x \in Range(seqs[i])
    BY <1>1, <1>5
  <2>2. x.from < x.to /\ plan[i].entry <= x.from /\ x.to <= plan[i].exit
    BY <1>2, <2>1
  <2>3. x \in Range(DetoursOf(plan[i].nodes, kept[i]))
    BY <1>1, <2>1
  <2>q. QED
    BY <2>2, <2>3
<1>7. \A i \in 1..n : Range(DetoursOf(plan[i].nodes, kept[i])) \subseteq Range(FlattenSeq(seqs))
  BY <1>1, <1>5
<1>q. QED
  BY <1>5, <1>6, <1>7 DEF Replacements, seqs, n

LEMMA HalvesOfStop ==
    ASSUME NEW s \in Int
    PROVE  StopScalar(s) = 2 * s /\ StopScalar(s) \div Whole = s
<1>1. StopScalar(s) = 2 * s /\ (2 * s) \div 2 = s
  BY DEF StopScalar, Whole
<1>q. QED
  BY <1>1 DEF Whole

\* No stop that is required is left out, and every one that is forced out is.
LEMMA OmittedStops ==
    ASSUME NEW r, PlannedRequest(r), NEW plan, PlansFit(r, plan), NEW kept, Chosen(plan, kept), NEW s \in Stops(r)
    PROVE  /\ r.availability[s] = Required => s \notin OmittedBy(plan, kept)
           /\ r.availability[s] = Forced => s \in OmittedBy(plan, kept)
<1>0. Forced # Required /\ Forced # Optional /\ \A t \in Stops(r) : t \in Int
  BY DEF Forced, Required, Optional, Stops
<1>1. ASSUME r.availability[s] = Required, s \in OmittedBy(plan, kept) PROVE FALSE
  <2>1. PICK i \in DOMAIN plan : s \in plan[i].omitted \/ s \in LostStops(plan[i].nodes, kept[i])
    BY <1>1 DEF OmittedBy
  <2>2. i \in 1..Len(plan)
    BY DEF PlansFit
  <2> DEFINE nodes == plan[i].nodes
             chosen == kept[i]
  <2>3. PICK interval \in Interval : NodesFit(r, interval, nodes) /\ plan[i].omitted = boundaryOmitted(r, interval)
    BY <2>2 DEF PlansFit
  <2>4. Selected(nodes, chosen)
    BY <2>2 DEF Chosen
  <2>5. s \notin plan[i].omitted
    BY <1>0, <1>1, <2>3 DEF boundaryOmitted
  <2>6. s \in LostStops(nodes, chosen)
    BY <2>1, <2>5
  <2> HIDE DEF nodes, chosen
  <2>7. PICK n \in DOMAIN nodes \ Range(chosen) : ~nodes[n].isAnchor /\ s = nodes[n].at \div Whole
    BY <2>6 DEF LostStops
  <2>8. nodes \in Seq(Node) /\ nodes[n] \in Range(nodes) /\ n \in 1..Len(nodes)
    BY <2>3 DEF NodesFit, Range
  <2>9. PICK t \in Stops(r) : nodes[n].at = StopScalar(t) /\ nodes[n].availability = r.availability[t]
    BY <2>3, <2>7, <2>8 DEF NodesFit
  <2>10. t = s
    BY <1>0, <2>7, <2>9, HalvesOfStop
  <2>q. QED
    BY <1>1, <2>4, <2>7, <2>8, <2>9, <2>10 DEF Selected
<1>2. ASSUME r.availability[s] = Forced PROVE s \in OmittedBy(plan, kept)
  <2>1. PICK i \in 1..Len(plan) : plan[i].entry <= StopScalar(s) /\ StopScalar(s) <= plan[i].exit
    BY <1>0, <1>2 DEF PlansFit
  <2> DEFINE nodes == plan[i].nodes
             chosen == kept[i]
  <2>2. PICK interval \in Interval :
            /\ NodesFit(r, interval, nodes) /\ plan[i].omitted = boundaryOmitted(r, interval)
            /\ plan[i].entry = interval.entry /\ plan[i].exit = interval.exit
    BY DEF PlansFit
  <2>3. Selected(nodes, chosen) /\ i \in DOMAIN plan
    BY DEF Chosen, PlansFit
  <2>4. Within(interval, s)
    BY <2>1, <2>2 DEF Within
  <2>5. CASE AtAnchor(r, interval, s)
    BY <1>2, <2>2, <2>3, <2>4, <2>5 DEF boundaryOmitted, OmittedBy
  <2>6. CASE ~AtAnchor(r, interval, s)
    <3>1. s \in LostStops(plan[i].nodes, kept[i])
      <4> HIDE DEF nodes, chosen
      <4>1. StopNode(r, s) \in Range(nodes)
        BY <2>2, <2>4, <2>6 DEF NodesFit
      <4>2. PICK n \in DOMAIN nodes : nodes[n] = StopNode(r, s)
        BY <4>1 DEF Range
      <4>3. nodes[n].at = StopScalar(s) /\ nodes[n].availability = Forced /\ ~nodes[n].isAnchor
        BY <1>2, <4>2 DEF StopNode
      <4>4. n \notin Range(chosen)
        BY <2>3, <4>3 DEF Selected, HasPoint, Range
      <4>5. nodes[n].at \div Whole = s
        BY <1>0, <4>3, HalvesOfStop
      <4>6. s \in LostStops(nodes, chosen)
        BY <4>2, <4>3, <4>4, <4>5 DEF LostStops
      <4>q. QED
        BY <4>6 DEF nodes, chosen
    <3>q. QED
      BY <2>3, <3>1 DEF OmittedBy
  <2>q. QED
    BY <2>5, <2>6
<1>q. QED
  BY <1>1, <1>2

\* A stop that is kept is clear of every detour.
LEMMA KeptIsClear ==
    ASSUME NEW r, PlannedRequest(r), NEW plan, PlansFit(r, plan), NEW kept, Chosen(plan, kept),
           NEW s \in Stops(r) \ OmittedBy(plan, kept)
    PROVE  Clear(FlattenSeq(DetoursBy(plan, kept)), StopScalar(s))
<1> SUFFICES ASSUME NEW x \in Range(FlattenSeq(DetoursBy(plan, kept)))
             PROVE  StopScalar(s) <= x.from \/ x.to <= StopScalar(s)
  BY DEF Clear
<1>1. PICK i \in 1..Len(plan) : x \in Range(DetoursOf(plan[i].nodes, kept[i]))
  BY ChosenDetours
<1> DEFINE nodes == plan[i].nodes
           chosen == kept[i]
<1>2. PICK interval \in Interval : IntervalIn(r, interval) /\ NodesFit(r, interval, nodes)
  BY DEF PlansFit
<1>3. Selected(nodes, chosen) /\ s \in Stops(r) \ LostStops(nodes, chosen)
  BY DEF Chosen, PlansFit, OmittedBy
<1>4. x \in Range(DetoursOf(nodes, chosen))
  BY <1>1
<1> HIDE DEF nodes, chosen
<1>5. nodes \in Seq(Node) /\ Chain(nodes, InRouteOrder)
  BY <1>2 DEF NodesFit
<1>6. PICK k \in DOMAIN DetoursOf(nodes, chosen) : x = DetoursOf(nodes, chosen)[k]
  BY <1>4 DEF Range
<1>7. k \in 1..(Len(chosen) - 1) /\ x.from = At(nodes, chosen, k) /\ x.to = At(nodes, chosen, k + 1)
  BY <1>3, <1>5, <1>6, DetoursInOrder
<1>q. QED
  BY <1>2, <1>3, <1>7, KeptStopsAreClear

\* What a path keeps of the original lies in no interval.
LEMMA OriginalIsOutside ==
    ASSUME NEW r, PlannedRequest(r), NEW plan, PlansFit(r, plan), NEW kept, Chosen(plan, kept),
           NEW s \in Stops(r) \ OmittedBy(plan, kept), NEW t \in Stops(r) \ OmittedBy(plan, kept),
           NEW from \in Nat, NEW to \in Nat, StopScalar(s) <= from, from < to, to <= StopScalar(t),
           \A y \in Range(FlattenSeq(DetoursBy(plan, kept))) : y.to <= from \/ to <= y.from,
           NEW i \in 1..Len(plan)
    PROVE  to <= plan[i].entry \/ plan[i].exit <= from
<1> DEFINE nodes == plan[i].nodes
           chosen == kept[i]
<1>1. PICK interval \in Interval :
          /\ IntervalIn(r, interval) /\ NodesFit(r, interval, nodes)
          /\ plan[i].entry = interval.entry /\ plan[i].exit = interval.exit
  BY DEF PlansFit
<1>2. /\ Selected(nodes, chosen)
      /\ s \in Stops(r) \ LostStops(nodes, chosen) /\ t \in Stops(r) \ LostStops(nodes, chosen)
  BY DEF Chosen, PlansFit, OmittedBy
<1>3. Range(DetoursOf(nodes, chosen)) \subseteq Range(FlattenSeq(DetoursBy(plan, kept)))
  BY ChosenDetours
<1> HIDE DEF nodes, chosen
<1>4. nodes \in Seq(Node) /\ Chain(nodes, InRouteOrder)
  BY <1>1 DEF NodesFit
<1>5. \A k \in 1..(Len(chosen) - 1) : At(nodes, chosen, k + 1) <= from \/ to <= At(nodes, chosen, k)
  <2> SUFFICES ASSUME NEW k \in 1..(Len(chosen) - 1)
               PROVE  At(nodes, chosen, k + 1) <= from \/ to <= At(nodes, chosen, k)
    OBVIOUS
  <2>1. /\ k \in DOMAIN DetoursOf(nodes, chosen)
        /\ DetoursOf(nodes, chosen)[k].from = At(nodes, chosen, k)
        /\ DetoursOf(nodes, chosen)[k].to = At(nodes, chosen, k + 1)
    BY <1>2, <1>4, DetoursInOrder
  <2>2. DetoursOf(nodes, chosen)[k] \in Range(DetoursOf(nodes, chosen))
    BY <2>1 DEF Range
  <2>q. QED
    BY <1>3, <2>1, <2>2
<1>6. to <= At(nodes, chosen, 1) \/ At(nodes, chosen, Len(chosen)) <= from
  BY <1>2, <1>4, <1>5, DetoursCover
<1>7. /\ interval.entry = At(nodes, chosen, 1) \/ At(nodes, chosen, 1) <= StopScalar(s)
      /\ interval.exit = At(nodes, chosen, Len(chosen)) \/ StopScalar(t) <= At(nodes, chosen, Len(chosen))
  BY <1>1, <1>2, KeptStopsAreClear
<1>8. /\ At(nodes, chosen, 1) \in Nat /\ At(nodes, chosen, Len(chosen)) \in Nat
      /\ StopScalar(s) \in Int /\ StopScalar(t) \in Int
  <2>1. Len(chosen) \in Nat /\ Len(chosen) > 1 /\ \A k \in 1..Len(chosen) : At(nodes, chosen, k) \in Nat
    BY <1>2, <1>4, PlacesOfKept
  <2>2. 1 \in 1..Len(chosen) /\ Len(chosen) \in 1..Len(chosen)
    BY <2>1
  <2>3. s \in Int /\ t \in Int
    BY DEF Stops
  <2>4. StopScalar(s) = 2 * s /\ StopScalar(t) = 2 * t
    BY <2>3, HalvesOfStop
  <2>5. StopScalar(s) \in Int /\ StopScalar(t) \in Int
    BY <2>3, <2>4
  <2>q. QED
    BY <2>1, <2>2, <2>5
<1>q. QED
  BY <1>1, <1>6, <1>7, <1>8

\* What VariantHonoursCut says of a variant, and of a path of it.
PathHonours(plan, path, start, end) ==
    /\ path[1].from = start /\ Last(path).to = end
    /\ \A p \in 1..(Len(path) - 1) : path[p].to = path[p + 1].from
    /\ \A p \in DOMAIN path :
        IF path[p].kind = "detour"
        THEN \E k \in DOMAIN plan : plan[k].entry <= path[p].from /\ path[p].to <= plan[k].exit
        ELSE \A k \in DOMAIN plan : path[p].to <= plan[k].entry \/ plan[k].exit <= path[p].from

Honours(r, plan, stops, paths) ==
    /\ Len(stops) >= 2
    /\ \A i \in 1..(Len(stops) - 1) : stops[i] < stops[i + 1]
    /\ {s \in Stops(r) : r.availability[s] = Required} \subseteq Range(stops)
    /\ \A i \in DOMAIN stops : r.availability[stops[i]] # Forced
    /\ \A i \in DOMAIN paths : PathHonours(plan, paths[i], StopScalar(stops[i]), StopScalar(stops[i + 1]))

\* A path from a kept stop to a later one honours the cut.
LEMMA SewnHonours ==
    ASSUME NEW r, PlannedRequest(r), NEW plan, PlansFit(r, plan), NEW kept, Chosen(plan, kept),
           NEW s \in Stops(r) \ OmittedBy(plan, kept), NEW t \in Stops(r) \ OmittedBy(plan, kept), s < t
    PROVE  LET path == reconstructPath(FlattenSeq(DetoursBy(plan, kept)), StopScalar(s), StopScalar(t))
           IN  ~path.crosses /\ PathHonours(plan, path.pieces, StopScalar(s), StopScalar(t))
<1> DEFINE R == FlattenSeq(DetoursBy(plan, kept))
           start == StopScalar(s)
           end == StopScalar(t)
           walk == reconstructPath(R, start, end)
           path == walk.pieces
<1>1. start \in Nat /\ end \in Nat /\ start < end
  <2>1. s \in Nat /\ t \in Nat
    BY DEF Stops
  <2>2. start = 2 * s /\ end = 2 * t
    BY <2>1, HalvesOfStop
  <2> HIDE DEF start, end
  <2>q. QED
    BY <2>1, <2>2
<1>2. Replacements(R) /\ Clear(R, start) /\ Clear(R, end)
  BY ChosenDetours, KeptIsClear
<1>3. ASSUME NEW x \in Range(R)
      PROVE  x.kind = "detour" /\ \E i \in DOMAIN plan : plan[i].entry <= x.from /\ x.to <= plan[i].exit
  <2>1. \E i \in DOMAIN plan : plan[i].entry <= x.from /\ x.to <= plan[i].exit
    BY ChosenDetours DEF PlansFit
  <2>2. x \in DetourPiece
    BY <1>2 DEF Replacements, Range
  <2>q. QED
    BY <2>1, <2>2 DEF DetourPiece
<1>4. ASSUME NEW from \in Nat, NEW to \in Nat, start <= from, from < to, to <= end,
             \A y \in Range(R) : y.to <= from \/ to <= y.from
      PROVE  \A i \in DOMAIN plan : to <= plan[i].entry \/ plan[i].exit <= from
  BY <1>4, OriginalIsOutside DEF PlansFit
<1> HIDE DEF R, start, end
<1>5. ~walk.crosses /\ Leg(path, start, end) /\ Sewn(R, start, end, path)
  BY <1>1, <1>2, PathsAreSewn
<1> HIDE DEF walk
<1>6. /\ path \in Seq(AnyPiece) /\ path # <<>>
      /\ path[1].from = start /\ path[Len(path)].to = end
      /\ \A p \in 1..(Len(path) - 1) : path[p].to = path[p + 1].from
  BY <1>1, <1>5 DEF Leg
<1>7. ASSUME NEW p \in DOMAIN path
      PROVE  IF path[p].kind = "detour"
             THEN \E k \in DOMAIN plan : plan[k].entry <= path[p].from /\ path[p].to <= plan[k].exit
             ELSE \A k \in DOMAIN plan : path[p].to <= plan[k].entry \/ plan[k].exit <= path[p].from
  <2>1. path[p] \in Range(path) /\ path[p] \in AnyPiece
    BY <1>6 DEF Range
  <2>2. CASE path[p] \in Range(R)
    BY <1>3, <2>2
  <2>3. CASE /\ path[p].kind = "original" /\ start <= path[p].from /\ path[p].from < path[p].to /\ path[p].to <= end
             /\ \A y \in Range(R) : y.to <= path[p].from \/ path[p].to <= y.from
    <3>1. path[p].from \in Nat /\ path[p].to \in Nat
      BY <2>1 DEF AnyPiece
    <3>q. QED
      BY <1>4, <2>3, <3>1
  <2>q. QED
    BY <1>5, <2>1, <2>2, <2>3 DEF Sewn
<1>8. PathHonours(plan, path, start, end)
  BY <1>6, <1>7 DEF PathHonours, Last
<1>q. QED
  BY <1>5, <1>8 DEF walk, R, start, end

\* The variant of a choice is sewn without an internal failure, and honours the cut.
LEMMA ReconstructedHonours ==
    ASSUME NEW r, PlannedRequest(r), NEW plan, PlansFit(r, plan), NEW kept, Chosen(plan, kept)
    PROVE  LET variant == reconstructRoute(r, OmittedBy(plan, kept), FlattenSeq(DetoursBy(plan, kept)))
           IN  \/ variant = Refused(NoDetour)
               \/ variant.error = "none" /\ Honours(r, plan, variant.stops, variant.paths)
<1> DEFINE R == FlattenSeq(DetoursBy(plan, kept))
           stops == keptStops(r, OmittedBy(plan, kept))
           Way_(i) == reconstructPath(R, StopScalar(stops[i]), StopScalar(stops[i + 1]))
           walks == [i \in 1..(Len(stops) - 1) |-> Way_(i)]
           variant == [error |-> "none", stops |-> stops, paths |-> [i \in DOMAIN walks |-> walks[i].pieces]]
<1>1. Replacements(R)
  BY ChosenDetours
<1>2. sortReplacements(R) = R
  BY <1>1, ApartAreSorted DEF Replacements
<1>3. /\ \A i \in DOMAIN R : ~(R[i].from >= R[i].to)
      /\ \A i \in 1..(Len(R) - 1) : ~(R[i].to > R[i + 1].from)
  <2> HIDE DEF R
  <2>1. /\ Len(R) \in Nat /\ DOMAIN R = 1..Len(R)
        /\ \A i \in 1..Len(R) : R[i].from \in Nat /\ R[i].to \in Nat /\ R[i].from < R[i].to
        /\ \A i, j \in 1..Len(R) : i < j => R[i].to <= R[j].from
    BY <1>1, ReplacementsTyped
  <2>2. \A a, b \in Nat : (a < b => ~(a >= b)) /\ (a <= b => ~(a > b))
    OBVIOUS
  <2>3. \A i \in 1..(Len(R) - 1) : i \in 1..Len(R) /\ i + 1 \in 1..Len(R) /\ i < i + 1
    BY <2>1
  <2>4. \A i \in 1..(Len(R) - 1) : R[i].to <= R[i + 1].from
    BY <2>1, <2>3
  <2>q. QED
    BY <2>1, <2>2, <2>3, <2>4
<1>4. /\ Len(stops) \in Nat /\ DOMAIN stops = 1..Len(stops)
      /\ \A i \in 1..Len(stops) : stops[i] \in Stops(r) \ OmittedBy(plan, kept)
      /\ \A i \in 1..(Len(stops) - 1) : stops[i] < stops[i + 1]
      /\ \A s \in Stops(r) \ OmittedBy(plan, kept) : \E i \in 1..Len(stops) : stops[i] = s
  <2>1. r.stops - 1 \in Nat
    BY DEF PlannedRequest
  <2>2. Lists(stops, r.stops - 1, Stops(r) \ OmittedBy(plan, kept))
    BY <2>1, InOrderLists DEF keptStops
  <2> HIDE DEF stops
  <2>3. (0..(r.stops - 1)) \cap (Stops(r) \ OmittedBy(plan, kept)) = Stops(r) \ OmittedBy(plan, kept)
    BY DEF Stops
  <2>4. /\ Len(stops) \in Nat /\ DOMAIN stops = 1..Len(stops)
        /\ \A i \in 1..Len(stops) : stops[i] \in Stops(r) \ OmittedBy(plan, kept)
    BY <2>2, <2>3 DEF Lists
  <2>5. \A i \in 1..(Len(stops) - 1) : i \in DOMAIN stops /\ i + 1 \in DOMAIN stops /\ i < i + 1
    BY <2>4
  <2>q. QED
    BY <2>2, <2>3, <2>4, <2>5 DEF Lists
<1> HIDE DEF stops
<1>5. ASSUME NEW i \in 1..(Len(stops) - 1)
      PROVE  ~Way_(i).crosses /\ PathHonours(plan, Way_(i).pieces, StopScalar(stops[i]), StopScalar(stops[i + 1]))
  <2>1. /\ stops[i] \in Stops(r) \ OmittedBy(plan, kept) /\ stops[i + 1] \in Stops(r) \ OmittedBy(plan, kept)
        /\ stops[i] < stops[i + 1]
    BY <1>4
  <2>q. QED
    BY <2>1, SewnHonours
<1> HIDE DEF R, Way_
<1>6. CASE Len(stops) < 2
  <2>1. reconstructRoute(r, OmittedBy(plan, kept), R) = Refused(NoDetour)
    BY <1>6 DEF reconstructRoute, stops
  <2>q. QED
    BY <2>1 DEF R
<1>7. CASE ~(Len(stops) < 2)
  <2>1. reconstructRoute(r, OmittedBy(plan, kept), R) = variant
    <3>1. ~ \E i \in DOMAIN walks : walks[i].crosses
      BY <1>5
    <3>2. reconstructRoute(r, OmittedBy(plan, kept), R)
            = IF \/ \E i \in DOMAIN R : R[i].from >= R[i].to
                 \/ \E i \in 1..(Len(R) - 1) : R[i].to > R[i + 1].from
                 \/ \E i \in DOMAIN walks : walks[i].crosses
              THEN Refused(Internal) ELSE variant
      BY <1>2, <1>7 DEF reconstructRoute, stops, Way_
    <3> HIDE DEF walks, variant
    <3>q. QED
      BY <1>3, <3>1, <3>2
  <2>2. /\ variant.error = "none" /\ variant.stops = stops /\ DOMAIN variant.paths = 1..(Len(stops) - 1)
        /\ \A i \in 1..(Len(stops) - 1) : variant.paths[i] = Way_(i).pieces
    OBVIOUS
  <2> HIDE DEF variant, walks
  <2>3. {s \in Stops(r) : r.availability[s] = Required} \subseteq Range(stops)
    <3> SUFFICES ASSUME NEW s \in Stops(r), r.availability[s] = Required PROVE s \in Range(stops)
      OBVIOUS
    <3>1. s \in Stops(r) \ OmittedBy(plan, kept)
      BY OmittedStops
    <3>q. QED
      BY <1>4, <3>1 DEF Range
  <2>4. \A i \in DOMAIN stops : r.availability[stops[i]] # Forced
    BY <1>4, OmittedStops
  <2>5. Len(stops) >= 2
    BY <1>4, <1>7
  <2>6. Honours(r, plan, variant.stops, variant.paths)
    BY <1>4, <1>5, <2>2, <2>3, <2>4, <2>5 DEF Honours
  <2>q. QED
    BY <2>1, <2>2, <2>6 DEF R
<1>q. QED
  BY <1>6, <1>7

LEMMA AssembledHonours ==
    ASSUME NEW r \in Requests, NEW found, \A i \in DOMAIN buildIntervalPlans(r) : Timed(found[i].paths)
    PROVE  LET variant == Assemble(r, buildIntervalPlans(r), found)
           IN  /\ variant.error # Internal
               /\ variant.error = "none" => Honours(r, buildIntervalPlans(r), variant.stops, variant.paths)
<1> DEFINE plan == buildIntervalPlans(r)
           variant == Assemble(r, plan, found)
<1>1. PlannedRequest(r) /\ PlansFit(r, plan)
  BY RequestInOrder, BuiltPlansFit
<1>2. \A i \in DOMAIN plan : Timed(found[i].paths)
  OBVIOUS
<1> HIDE DEF plan
<1>3. \/ variant \in {Refused(CoverageInsufficient), Refused(NoDetour)}
      \/ variant.error = "none" /\ Honours(r, plan, variant.stops, variant.paths)
  BY <1>1, <1>2, AssembledOfChoices, ReconstructedHonours
<1> HIDE DEF variant
<1>4. \A error : Refused(error).error = error
  BY DEF Refused
<1>5. /\ CoverageInsufficient # Internal /\ NoDetour # Internal /\ "none" # Internal
      /\ CoverageInsufficient # "none" /\ NoDetour # "none"
  BY DEF CoverageInsufficient, NoDetour, Internal
<1>q. QED
  BY <1>3, <1>4, <1>5 DEF variant, plan

-----------------------------------------------------------------------------
(* A plan with what its request asks, its intervals and the paths found.   *)

CutInv ==
    /\ pc \in {"analyze", "snapshot", "route", "select"} =>
            request \in Requests /\ answer.stops = <<>>
    /\ attempt # WithTraffic => request \in Requests
    /\ pc \in {"snapshot", "route", "select"} => plans = buildIntervalPlans(request)
    /\ pc = "select" =>
            \A i \in DOMAIN plans : Timed(routing[i].paths) /\ DOMAIN routing[i].paths \subseteq plans[i].pairs
    /\ VariantHonoursCut

\* A variant that is given up honours whatever the cut.
LEMMA NothingKept ==
    ASSUME answer'.stops = <<>>
    PROVE  VariantHonoursCut'
BY DEF VariantHonoursCut

\* A comparison that fails is not tried again: only a plan is.
LEMMA FailCuts ==
    ASSUME CutInv, NEW error, Fail(error), request \in Requests \/ error \in Failures
    PROVE  CutInv'
<1> DEFINE first == IF attempt = WithTraffic THEN error ELSE original
<1>1. /\ request' = request
      /\ (\E next : Retry(next)) \/ Refuse(first)
      /\ ~Refuse(first) => \/ shouldRetryWithLargerGraph(first) \/ shouldRetryWithoutTraffic(first)
  BY DEF Fail, given
<1>2. CASE Refuse(first)
  <2>1. answer'.stops = <<>> /\ pc' = "answered" /\ attempt' = attempt
    BY <1>2 DEF Refuse, Unanswered
  <2>q. QED
    BY <1>1, <2>1, NothingKept DEF CutInv
<1>3. CASE ~Refuse(first)
  <2>1. answer'.stops = <<>> /\ pc' = "analyze"
    BY <1>1, <1>3 DEF Retry, Unanswered
  <2>2. request \in Requests
    <3>1. CASE attempt # WithTraffic
      BY <3>1 DEF CutInv
    <3>2. CASE attempt = WithTraffic
      BY <1>1, <1>3, <3>2 DEF shouldRetryWithLargerGraph, shouldRetryWithoutTraffic, Failures,
         NoDetour, AnchorNotMatched, RequiredStopNotMatched, TrafficErrors, CoverageInsufficient
    <3>q. QED
      BY <3>1, <3>2
  <2>q. QED
    BY <1>1, <2>1, <2>2, NothingKept DEF CutInv
<1>q. QED
  BY <1>2, <1>3

\* What the database finds for an interval takes a time, and joins a pair of it.
LEMMA FoundIsTimed ==
    ASSUME NEW intervals,
           NEW found \in SUBSET UNION {{<<i, pair>> : pair \in intervals[i].pairs} : i \in DOMAIN intervals},
           NEW paths \in [found -> Paths], NEW i
    PROVE  /\ Timed([pair \in OfInterval(found, i) |-> paths[<<i, pair>>]])
           /\ OfInterval(found, i) \subseteq intervals[i].pairs
<1> SUFFICES ASSUME NEW pair \in OfInterval(found, i)
             PROVE  paths[<<i, pair>>].seconds \in Nat /\ pair \in intervals[i].pairs
  BY DEF Timed
<1>1. PICK f \in found : f[1] = i /\ f[2] = pair
  BY DEF OfInterval
<1>2. PICK j \in DOMAIN intervals : \E p \in intervals[j].pairs : f = <<j, p>>
  OBVIOUS
<1>3. f = <<i, pair>> /\ pair \in intervals[i].pairs
  BY <1>1, <1>2
<1>4. paths[<<i, pair>>] \in Paths
  BY <1>3
<1>q. QED
  BY <1>3, <1>4, PathsAssumption

LEMMA CutInit == Init => CutInv
<1> SUFFICES ASSUME Init PROVE CutInv
  OBVIOUS
<1>1. answer.stops = <<>> /\ attempt = WithTraffic /\ pc \in {"analyze", "compare"}
      /\ (pc = "analyze" => request \in Requests)
  BY DEF Init, Unanswered
<1>q. QED
  BY <1>1 DEF CutInv, VariantHonoursCut

LEMMA CutStep ==
    ASSUME IInv, CutInv, [Next]_vars
    PROVE  CutInv'
<1>f. ASSUME NEW error, Fail(error), pc \in {"analyze", "snapshot", "route", "select"}
      PROVE  CutInv'
  BY <1>f, FailCuts DEF CutInv
<1>c. ASSUME NEW next, Continue(next)
      PROVE  request' = request /\ attempt' = attempt /\ pc' = next
  BY <1>c DEF Continue, given
<1>u. ASSUME UNCHANGED <<request, attempt, pc, plans, routing, answer>>
      PROVE  CutInv'
  BY <1>u DEF CutInv, VariantHonoursCut
<1>1. CASE Analyze
  <2>1. CASE \E error : Fail(error)
    BY <1>1, <1>f, <2>1 DEF Analyze
  <2>2. CASE ~ \E error : Fail(error)
    <3>1. /\ pc = "analyze" /\ answer' = answer /\ plans' = buildIntervalPlans(request)
          /\ \E next \in {"route", "snapshot"} : Continue(next)
      BY <1>1, <2>2 DEF Analyze
    <3>2. request \in Requests /\ answer'.stops = <<>>
      BY <3>1 DEF CutInv
    <3>q. QED
      BY <1>c, <3>1, <3>2, NothingKept DEF CutInv
  <2>q. QED
    BY <2>1, <2>2
<1>2. CASE Snapshot
  <2>1. CASE \E error : Fail(error)
    BY <1>2, <1>f, <2>1 DEF Snapshot
  <2>2. CASE ~ \E error : Fail(error)
    <3>1. pc = "snapshot" /\ answer' = answer /\ plans' = plans /\ Continue("route")
      BY <1>2, <2>2 DEF Snapshot
    <3>2. request \in Requests /\ answer'.stops = <<>> /\ plans = buildIntervalPlans(request)
      BY <3>1 DEF CutInv
    <3>q. QED
      BY <1>c, <3>1, <3>2, NothingKept DEF CutInv
  <2>q. QED
    BY <2>1, <2>2
<1>3. CASE Route
  <2>1. CASE \E error : Fail(error)
    BY <1>3, <1>f, <2>1 DEF Route
  <2>2. CASE ~ \E error : Fail(error)
    <3> DEFINE pairs == UNION {{<<i, pair>> : pair \in plans[i].pairs} : i \in DOMAIN plans}
    <3>1. /\ pc = "route" /\ answer' = answer /\ plans' = plans /\ Continue("select")
          /\ \E found \in SUBSET pairs : \E paths \in [found -> Paths], joined \in {found, pairs} :
                routing' = [i \in DOMAIN plans |->
                    [paths |-> [pair \in OfInterval(found, i) |-> paths[<<i, pair>>]], joined |-> OfInterval(joined, i)]]
      BY <1>3, <2>2 DEF Route
    <3>2. request \in Requests /\ answer'.stops = <<>> /\ plans = buildIntervalPlans(request)
      BY <3>1 DEF CutInv
    <3>3. \A i \in DOMAIN plans : Timed(routing'[i].paths) /\ DOMAIN routing'[i].paths \subseteq plans[i].pairs
      <4>1. PICK found \in SUBSET pairs : \E paths \in [found -> Paths], joined \in {found, pairs} :
                routing' = [i \in DOMAIN plans |->
                    [paths |-> [pair \in OfInterval(found, i) |-> paths[<<i, pair>>]], joined |-> OfInterval(joined, i)]]
        BY <3>1
      <4>2. PICK paths \in [found -> Paths] : \E joined \in {found, pairs} :
                routing' = [i \in DOMAIN plans |->
                    [paths |-> [pair \in OfInterval(found, i) |-> paths[<<i, pair>>]], joined |-> OfInterval(joined, i)]]
        BY <4>1
      <4> DEFINE Of(i) == [pair \in OfInterval(found, i) |-> paths[<<i, pair>>]]
      <4>3. \A i \in DOMAIN plans : Timed(Of(i)) /\ DOMAIN Of(i) \subseteq plans[i].pairs
        <5>1. \A j : Timed(Of(j)) /\ OfInterval(found, j) \subseteq plans[j].pairs
          BY FoundIsTimed
        <5>2. \A j : DOMAIN Of(j) = OfInterval(found, j)
          OBVIOUS
        <5> HIDE DEF pairs, Of
        <5>q. QED
          BY <5>1, <5>2
      <4>4. PICK joined \in {found, pairs} :
                routing' = [i \in DOMAIN plans |-> [paths |-> Of(i), joined |-> OfInterval(joined, i)]]
        BY <4>2
      <4> HIDE DEF pairs, Of
      <4>5. \A i \in DOMAIN plans : routing'[i].paths = Of(i)
        BY <4>4
      <4>q. QED
        BY <4>3, <4>5
    <3>q. QED
      BY <1>c, <3>1, <3>2, <3>3, NothingKept DEF CutInv
  <2>q. QED
    BY <2>1, <2>2
<1>4. CASE SelectAndSew
  <2> DEFINE variant == Assemble(request, plans, routing)
  <2>1. CASE variant.error # "none"
    BY <1>4, <1>f, <2>1 DEF SelectAndSew
  <2>2. CASE variant.error = "none"
    <3>1. /\ pc = "select" /\ plans' = plans /\ Continue("compare")
          /\ answer'.stops = variant.stops /\ answer'.paths = variant.paths
      BY <1>4, <2>2 DEF SelectAndSew
    <3>2. /\ request \in Requests /\ plans = buildIntervalPlans(request)
          /\ \A i \in DOMAIN plans : Timed(routing[i].paths)
      BY <3>1 DEF CutInv
    <3>3. Honours(request, plans, variant.stops, variant.paths)
      BY <2>2, <3>2, AssembledHonours
    <3> HIDE DEF variant
    <3>4. VariantHonoursCut'
      <4>1. Honours(request, plans, answer.stops, answer.paths)'
        BY <1>c, <3>1, <3>3
      <4>q. QED
        BY <4>1 DEF VariantHonoursCut, Honours, PathHonours
    <3>q. QED
      BY <1>c, <3>1, <3>2, <3>4 DEF CutInv
  <2>q. QED
    BY <2>1, <2>2
<1>5. CASE BeginComparison
  BY <1>5, <1>u DEF BeginComparison, given
<1>6. CASE Compare
  BY <1>6, <1>u DEF Compare, given
<1>7. CASE Compared
  <2>1. CASE comparison.failure # "none"
    <3>1. Fail(comparison.failure) /\ comparison.failure \in Failures
      BY <1>7, <2>1 DEF Compared, IInv, ComparisonTyped
    <3>q. QED
      BY <3>1, FailCuts
  <2>2. CASE comparison.failure = "none"
    <3>1. /\ Continue("answered") /\ UNCHANGED <<plans, routing>>
          /\ answer'.stops = answer.stops /\ answer'.paths = answer.paths
      BY <1>7, <2>2 DEF Compared, IInv, AnswerTyped
    <3>2. VariantHonoursCut'
      BY <1>c, <3>1 DEF CutInv, VariantHonoursCut
    <3>q. QED
      BY <1>c, <3>1, <3>2 DEF CutInv
  <2>q. QED
    BY <2>1, <2>2
<1>8. CASE EndRequest
  BY <1>8, <1>u DEF EndRequest, given
<1>9. CASE UNCHANGED vars
  BY <1>9, <1>u DEF vars
<1>q. QED
  BY <1>1, <1>2, <1>3, <1>4, <1>5, <1>6, <1>7, <1>8, <1>9 DEF Next, Answered

LEMMA CutInvariance == Spec => []CutInv
<1>1. Init => CutInv
  BY CutInit
<1>2. IInv /\ CutInv /\ [Next]_vars => CutInv'
  BY CutStep
<1>q. QED
  BY <1>1, <1>2, Invariance, PTL DEF Spec

\* Whatever the database finds for the intervals of any request, the variant of a
\* plan keeps the stops that the cut must not cost and none that it reaches, and
\* its paths lead from each of them to the next, on the original outside the
\* intervals and on detours within: a stop that is kept lies at no detour, for
\* Select keeps the nodes of its interval in order with all that are required,
\* and the intervals are apart.
THEOREM CutIsHonoured == Spec => []VariantHonoursCut
<1>1. CutInv => VariantHonoursCut
  BY DEF CutInv
<1>q. QED
  BY <1>1, CutInvariance, PTL

\* The failure of reconstructRoute that ends a plan as internal never happens: the
\* detours that are chosen lead onwards, are apart, and cross no stop that is kept.
THEOREM AlwaysSewn == Spec => []SelectionsCanBeSewn
<1>1. CutInv => SelectionsCanBeSewn
  BY AssembledHonours DEF CutInv, SelectionsCanBeSewn
<1>q. QED
  BY <1>1, CutInvariance, PTL

\* What Select returns for an interval whose paths never turn back is a crossing to
\* which the criterion prefers no other, and it returns none only when none is
\* there: at each node, the one state that is kept of those that end there with
\* more than that node is as good as any way to it, whatever is kept before.
THEOREM BestIsSelected == Spec => []BestWithoutTurns
<1>1. ASSUME CutInv PROVE BestWithoutTurns
  <2> SUFFICES ASSUME pc = "select", NEW i \in DOMAIN plans, NoTurns(routing[i].paths)
               PROVE  LET paths == routing[i].paths
                          ways == {State(kept, paths) : kept \in Crossings(plans[i].nodes, paths)}
                          found == Select(plans[i].nodes, paths, request.criterion)
                      IN  /\ found = {} <=> ways = {}
                          /\ \A s \in found : s \in ways /\ \A w \in ways : NoWorse(s, w, request.criterion)
    BY Zenon DEF BestWithoutTurns, NoTurns
  <2>1. /\ request \in Requests /\ plans = buildIntervalPlans(request)
        /\ Timed(routing[i].paths) /\ DOMAIN routing[i].paths \subseteq plans[i].pairs
    BY <1>1 DEF CutInv
  <2>2. plans[i].nodes \in Seq(Node)
    BY <2>1, BuiltPlansFit DEF PlansFit, NodesFit
  <2>3. plans[i].pairs = intervalPairs(plans[i].nodes)
    BY <2>1 DEF buildIntervalPlans
  <2>4. DOMAIN routing[i].paths \subseteq intervalPairs(plans[i].nodes)
    BY <2>1, <2>3
  <2>q. QED
    BY <2>1, <2>2, <2>4, SelectIsBest
<1>q. QED
  BY <1>1, CutInvariance, PTL
=============================================================================
