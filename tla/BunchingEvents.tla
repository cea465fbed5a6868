--------------------------- MODULE BunchingEvents ---------------------------
(***************************************************************************)
(* The encounter domain of internal/bunching/events.go: what one reviewed  *)
(* capture does to the open encounters of every pair of vehicles.          *)
(*                                                                         *)
(* Times are natural numbers.  Coordinates, speeds and line names are left *)
(* out: the only geography the life cycle reads is the measured distance   *)
(* of a pair, and the only identity it compares is the operational scope.  *)
(***************************************************************************)
EXTENDS Integers, FiniteSets

CONSTANTS
    Vehicles,                \* identifiers of the GCBA feed
    Pairs,                   \* canonical pairs <<A, B>>, A before B
    Scopes,                  \* GCBA route and direction + GTFS route and shape
    VersionOf,               \* scope -> the scope without its shape identifier
    MaximumAge,              \* Policy.MaximumAge
    MaximumFutureSkew,       \* Policy.MaximumFutureSkew
    MissingCaptureTolerance, \* Policy.MissingCaptureTolerance
    DistanceMeters           \* Policy.DistanceMeters

ASSUME PolicyAssumption ==
    /\ MaximumAge \in Nat \ {0}
    /\ MaximumFutureSkew \in Nat
    /\ MissingCaptureTolerance \in Nat
    /\ DistanceMeters \in Nat \ {0}

\* Key() orders the two identifiers, so a pair is stored one way round only.
ASSUME PairsAssumption ==
    /\ Pairs \subseteq Vehicles \X Vehicles
    /\ \A p \in Pairs : <<p[2], p[1]>> \notin Pairs

\* The shape hash names a geometry, the shape identifier is the name the
\* catalogue gives it: two scopes may differ in the second alone.
ASSUME VersionAssumption == DOMAIN VersionOf = Scopes

minimumTime(a, b) == IF a < b THEN a ELSE b
maximumTime(a, b) == IF a > b THEN a ELSE b

Reasons == {"separated", "missing", "expired", "identity_changed"}

Event == [id: Nat, scope: Scopes, pair: Pairs,
          firstObservedAt: Int, lastObservedAt: Int, confirmedAt: Int,
          observedA: Int, observedB: Int,
          closedAt: Int, closeReason: Reasons \cup {"open"},
          observations: Nat, missingCaptures: Nat]

Key(e) == <<e.scope, e.pair>>
IsOpen(e) == e.closeReason = "open"

Version(e) == <<VersionOf[e.scope], e.pair>>

-----------------------------------------------------------------------------
(***************************************************************************)
(* A snapshot is a record                                                  *)
(*   [receivedAt, partial, hasNewPositions,                                *)
(*    positions : some vehicles -> [observedAt, scope],                    *)
(*    distances : some keys -> Nat,                                        *)
(*    previous  : the newest recently closed encounter of each key]        *)
(***************************************************************************)
Fresh(received, at) ==
    /\ at >= received - MaximumAge
    /\ at <= received + MaximumFutureSkew

\* find_bunching_pair_distances.sql: pairs of one version that are near, or
\* that have an open encounter in that version, near or not.
MeasuredPairs(events, positions, metres) ==
    {p \in Pairs :
        /\ p[1] \in DOMAIN positions /\ p[2] \in DOMAIN positions
        /\ LET version == VersionOf[positions[p[1]].scope]
           IN  /\ version = VersionOf[positions[p[2]].scope]
               /\ \/ metres[p] <= DistanceMeters
                  \/ \E e \in events : IsOpen(e) /\ Version(e) = <<version, p>>}

\* find_recent_closed_bunching.sql, the newest row of each key.
Previous(events, received) ==
    LET recent == {e \in events : ~IsOpen(e) /\ e.lastObservedAt >= received - MaximumAge}
    IN  {e \in recent : \A f \in recent : Key(f) = Key(e) => f.id <= e.id}

Snapshot(events, received, partial, new, positions, metres) ==
    LET measured == MeasuredPairs(events, positions, metres)
        keys == {<<positions[p[1]].scope, p>> : p \in measured}
    IN  [receivedAt |-> received, partial |-> partial, hasNewPositions |-> new,
         positions |-> positions,
         distances |-> [k \in keys |-> metres[k[2]]],
         previous |-> IF new THEN Previous(events, received) ELSE {}]

-----------------------------------------------------------------------------
Present(s, v) ==
    /\ v \in DOMAIN s.positions
    /\ Fresh(s.receivedAt, s.positions[v].observedAt)

Same(s, v, scope) == Present(s, v) /\ s.positions[v].scope = scope

\* Mutant: one advancing unit is enough.
AdvancesOneUnit(e, s) ==
    /\ Same(s, e.pair[1], e.scope) /\ Same(s, e.pair[2], e.scope)
    /\ \/ s.positions[e.pair[1]].observedAt > e.observedA
       \/ s.positions[e.pair[2]].observedAt > e.observedB

\* Both timestamps of the pair are strictly newer than the admitted ones.
Advances(e, s) ==
    /\ Same(s, e.pair[1], e.scope) /\ Same(s, e.pair[2], e.scope)
    /\ s.positions[e.pair[1]].observedAt > e.observedA
    /\ s.positions[e.pair[2]].observedAt > e.observedB

ObservationGap(e, s) ==
    /\ Advances(e, s)
    /\ \/ s.positions[e.pair[1]].observedAt - e.observedA > MaximumAge
       \/ s.positions[e.pair[2]].observedAt - e.observedB > MaximumAge

\* Mutant: only the gap expires, not the age of the confirmation.
ExpiresByGap(e, s) == ObservationGap(e, s)

Expires(e, s) ==
    \/ s.receivedAt - e.confirmedAt > MaximumAge
    \/ ObservationGap(e, s)

\* A unit seen in another scope with a newer timestamp than the admitted one.
Leaves(s, v, scope, admitted) ==
    /\ Present(s, v)
    /\ s.positions[v].scope # scope
    /\ s.positions[v].observedAt > admitted

ChangesIdentity(e, s) ==
    \/ Leaves(s, e.pair[1], e.scope, e.observedA)
    \/ Leaves(s, e.pair[2], e.scope, e.observedB)

Measured(e, s) ==
    /\ Same(s, e.pair[1], e.scope) /\ Same(s, e.pair[2], e.scope)
    /\ Key(e) \in DOMAIN s.distances

\* Mutant: an expiry is dated at the reception that finds it.
ClosingTimeOnReception(e, s, reason) == maximumTime(s.receivedAt, e.lastObservedAt)

\* Expiry is dated at the limit of the evidence, every other closure at the
\* reception; a closure never precedes the last admitted observation.
ClosingTime(e, s, reason) ==
    LET limit == e.confirmedAt + MaximumAge
        now == IF reason # "expired" THEN s.receivedAt
               ELSE IF ObservationGap(e, s)
                    THEN minimumTime(limit, minimumTime(e.observedA, e.observedB) + MaximumAge)
                    ELSE limit
    IN  maximumTime(now, e.lastObservedAt)

Close(e, s, reason) ==
    [e EXCEPT !.closedAt = ClosingTime(e, s, reason), !.closeReason = reason]

Confirm(e, s) ==
    LET a == s.positions[e.pair[1]].observedAt
        b == s.positions[e.pair[2]].observedAt
    IN  [e EXCEPT !.observedA = a, !.observedB = b,
                  !.lastObservedAt = maximumTime(a, b),
                  !.confirmedAt = s.receivedAt,
                  !.observations = @ + 1,
                  !.missingCaptures = 0]

Miss(e, s) ==
    LET missed == [e EXCEPT !.missingCaptures = @ + 1]
    IN  IF missed.missingCaptures > MissingCaptureTolerance
        THEN Close(missed, s, "missing")
        ELSE missed

\* What the review leaves of one open encounter (itself when nothing changed).
Review(e, s) ==
    CASE Expires(e, s) -> Close(e, s, "expired")
      [] ~Expires(e, s) /\ ChangesIdentity(e, s) -> Close(e, s, "identity_changed")
      [] ~Expires(e, s) /\ ~ChangesIdentity(e, s) /\ Measured(e, s) ->
            IF ~Advances(e, s) THEN e
            ELSE IF s.distances[Key(e)] > DistanceMeters
                 THEN Close(e, s, "separated")
                 ELSE Confirm(e, s)
      [] OTHER -> IF s.hasNewPositions THEN Miss(e, s) ELSE e

\* Mutant: any encounter whose units advanced gives way.
BlockedUntilAdvance(key, open, s) ==
    \E e \in open : Key(e) = key /\ ~Advances(e, s)

\* A key with an open encounter admits no other one, except that an expired
\* one whose two units advanced gives way to a new series in the same capture.
Blocked(key, open, s) ==
    \E e \in open : Key(e) = key /\ ~(Expires(e, s) /\ Advances(e, s))

\* Mutant: the recently closed encounters are not looked up.
OpensAnew(key, open, s) ==
    /\ s.hasNewPositions
    /\ key \in DOMAIN s.distances
    /\ ~Blocked(key, open, s)
    /\ s.distances[key] <= DistanceMeters
    /\ \A v \in {key[2][1], key[2][2]} : Same(s, v, key[1])

Opens(key, open, s) ==
    /\ s.hasNewPositions
    /\ key \in DOMAIN s.distances
    /\ ~Blocked(key, open, s)
    /\ s.distances[key] <= DistanceMeters
    /\ \A v \in {key[2][1], key[2][2]} : Same(s, v, key[1])
    /\ \A e \in s.previous : Key(e) = key =>
          /\ s.positions[key[2][1]].observedAt > e.observedA
          /\ s.positions[key[2][2]].observedAt > e.observedB

\* The row of a new encounter.  The identity column only orders the rows of a
\* key; a capture inserts at most one per key and captures are analysed in
\* strictly increasing reception time, so the reception orders them alike.
NewEvent(key, s) ==
    LET a == s.positions[key[2][1]].observedAt
        b == s.positions[key[2][2]].observedAt
    IN  [id |-> s.receivedAt, scope |-> key[1], pair |-> key[2],
         firstObservedAt |-> maximumTime(a, b), lastObservedAt |-> maximumTime(a, b),
         confirmedAt |-> s.receivedAt, observedA |-> a, observedB |-> b,
         closedAt |-> 0, closeReason |-> "open",
         observations |-> 1, missingCaptures |-> 0]

Opened(open, s) == {NewEvent(key, s) : key \in {k \in DOMAIN s.distances : Opens(k, open, s)}}

\* Mutant: closed encounters are reviewed like the open ones.
AdvanceAll(events, s) ==
    IF s.partial THEN events
    ELSE {Review(e, s) : e \in events} \cup Opened({e \in events : IsOpen(e)}, s)

\* The encounters after the capture: Advance followed by the writes of its
\* changes.  A partial capture changes none.
Advance(events, s) ==
    IF s.partial THEN events
    ELSE LET open == {e \in events : IsOpen(e)}
         IN  (events \ open) \cup {Review(e, s) : e \in open} \cup Opened(open, s)
=============================================================================
