----------------------- MODULE BunchingLifecycleProofs -----------------------
(***************************************************************************)
(* Proofs about the life of the encounters, for any vehicles, pairs,       *)
(* scopes, catalogue versions, policy and horizon.                         *)
(***************************************************************************)
EXTENDS BunchingLifecycle, TLAPS

\* What the later rows of a key are compared with: every row carries the times
\* of a past review and ends at the newest of its two samples.
EventsDated ==
    \A e \in events :
        /\ e.id <= reviewed
        /\ e.confirmedAt <= reviewed
        /\ e.firstObservedAt <= e.lastObservedAt
        /\ e.observedA <= e.lastObservedAt
        /\ e.observedB <= e.lastObservedAt
        /\ e.lastObservedAt \in {e.observedA, e.observedB}

\* The open row of a key is its newest row, so a confirmation never overtakes
\* the samples of another row.
OpenIsNewest ==
    \A e, f \in events : IsOpen(e) /\ Key(f) = Key(e) => f.id <= e.id

\* Every key that has rows has a newest one: it stands for the maximum that
\* the look-up of former encounters returns.
HasNewest ==
    \A e \in events : \E g \in events :
        /\ Key(g) = Key(e)
        /\ \A f \in events : Key(f) = Key(e) => f.id <= g.id

IInv ==
    /\ TypeOK
    /\ EventsDated
    /\ OpenIsNewest
    /\ HasNewest
    /\ KeyOrdersEncounters
    /\ NoSampleReuse
    /\ NoStaleOpen
    /\ ClosureWithinEvidence
    /\ MissingTolerated

-----------------------------------------------------------------------------
SnapshotType(s) ==
    /\ s.receivedAt \in Nat
    /\ \A v \in DOMAIN s.positions : s.positions[v].observedAt \in Int

\* A closure keeps the row and dates it within the evidence.
ClosedWithinEvidence(c) ==
    /\ c.closedAt >= c.lastObservedAt
    /\ c.closeReason = "expired" =>
          c.closedAt <= maximumTime(c.confirmedAt + MaximumAge, c.lastObservedAt)

SameRow(c, e) ==
    /\ Key(c) = Key(e) /\ c.id = e.id /\ c.firstObservedAt = e.firstObservedAt

SameEvidence(c, e) ==
    /\ c.observedA = e.observedA /\ c.observedB = e.observedB
    /\ c.lastObservedAt = e.lastObservedAt
    /\ c.confirmedAt = e.confirmedAt
    /\ c.observations = e.observations

\* A closed row is the same row on the same evidence, dated within it.
LEMMA CloseFacts ==
    ASSUME NEW e \in Event, NEW s, SnapshotType(s), NEW reason \in Reasons,
           NEW c, c = Close(e, s, reason)
    PROVE  /\ c \in Event /\ ~IsOpen(c)
           /\ SameRow(c, e) /\ SameEvidence(c, e)
           /\ c.missingCaptures = e.missingCaptures
           /\ ClosedWithinEvidence(c)
<1> DEFINE limit == e.confirmedAt + MaximumAge
           cut == minimumTime(e.observedA, e.observedB) + MaximumAge
           t == ClosingTime(e, s, reason)
<1>1. /\ limit \in Int /\ cut \in Int /\ s.receivedAt \in Int
      /\ e.lastObservedAt \in Int /\ minimumTime(limit, cut) \in Int
      /\ minimumTime(limit, cut) <= limit
  BY PolicyAssumption DEF SnapshotType, Event, minimumTime
<1>2. /\ t \in {maximumTime(s.receivedAt, e.lastObservedAt), maximumTime(limit, e.lastObservedAt),
                maximumTime(minimumTime(limit, cut), e.lastObservedAt)}
      /\ reason = "expired" => t # maximumTime(s.receivedAt, e.lastObservedAt)
                               \/ t \in {maximumTime(limit, e.lastObservedAt),
                                         maximumTime(minimumTime(limit, cut), e.lastObservedAt)}
  BY DEF ClosingTime
<1> HIDE DEF limit, cut, t
<1>3. /\ t \in Int /\ t >= e.lastObservedAt
      /\ reason = "expired" => t <= maximumTime(limit, e.lastObservedAt)
  BY <1>1, <1>2 DEF maximumTime
<1>4. /\ c.closedAt = t /\ c.closeReason = reason
      /\ c.id = e.id /\ c.scope = e.scope /\ c.pair = e.pair
      /\ c.firstObservedAt = e.firstObservedAt /\ c.lastObservedAt = e.lastObservedAt
      /\ c.observedA = e.observedA /\ c.observedB = e.observedB
      /\ c.confirmedAt = e.confirmedAt /\ c.observations = e.observations
      /\ c.missingCaptures = e.missingCaptures
  BY DEF Close, Event, t
<1>5. c \in Event
  BY <1>3 DEF Close, Event, t
<1>6. ~IsOpen(c)
  BY <1>4 DEF IsOpen, Reasons
<1>7. ClosedWithinEvidence(c)
  BY <1>3, <1>4 DEF ClosedWithinEvidence, limit
<1>8. QED
  BY <1>4, <1>5, <1>6, <1>7 DEF SameRow, SameEvidence, Key

\* What the review of an open row may change, and when.
Confirmed(r, e, s) ==
    /\ r.observedA > e.observedA /\ r.observedB > e.observedB
    /\ r.lastObservedAt = maximumTime(r.observedA, r.observedB)
    /\ r.confirmedAt = s.receivedAt
    /\ r.observations = e.observations + 1
    /\ IsOpen(r)

\* A confirmation keeps the row open and moves it to samples that are newer for
\* both units.
LEMMA ConfirmFacts ==
    ASSUME NEW e \in Event, IsOpen(e), NEW s, SnapshotType(s), Advances(e, s),
           NEW r, r = Confirm(e, s)
    PROVE  /\ r \in Event /\ SameRow(r, e) /\ Confirmed(r, e, s)
           /\ r.missingCaptures = 0
<1> DEFINE a == s.positions[e.pair[1]].observedAt
           b == s.positions[e.pair[2]].observedAt
           l == maximumTime(a, b)
<1>1. a \in Int /\ b \in Int /\ a > e.observedA /\ b > e.observedB
  BY DEF Advances, Same, Present, SnapshotType
<1>2. l \in Int
  BY <1>1 DEF maximumTime
<1>3. r = [e EXCEPT !.observedA = a, !.observedB = b, !.lastObservedAt = l,
                    !.confirmedAt = s.receivedAt,
                    !.observations = e.observations + 1, !.missingCaptures = 0]
  BY DEF Confirm, Event
<1> DEFINE n == e.observations + 1
<1>n. n \in Nat /\ s.receivedAt \in Int
  BY DEF Event, SnapshotType
<1> HIDE DEF a, b, l, n
<1>4. r \in Event
  <2>1. r = [id |-> e.id, scope |-> e.scope, pair |-> e.pair,
             firstObservedAt |-> e.firstObservedAt, lastObservedAt |-> l,
             confirmedAt |-> s.receivedAt, observedA |-> a, observedB |-> b,
             closedAt |-> e.closedAt, closeReason |-> e.closeReason,
             observations |-> n, missingCaptures |-> 0]
    BY <1>3 DEF Event, n
  <2>2. QED
    BY <1>1, <1>2, <1>n, <2>1 DEF Event
<1>5. /\ r.observedA = a /\ r.observedB = b /\ r.lastObservedAt = l
      /\ r.confirmedAt = s.receivedAt /\ r.observations = e.observations + 1
      /\ r.missingCaptures = 0 /\ r.closeReason = e.closeReason
      /\ r.id = e.id /\ r.scope = e.scope /\ r.pair = e.pair
      /\ r.firstObservedAt = e.firstObservedAt
  BY <1>3 DEF Event
<1>6. QED
  BY <1>1, <1>4, <1>5 DEF SameRow, Confirmed, Key, IsOpen, l

\* An absence changes neither the row nor its evidence: it is tolerated, or it
\* closes the row.
LEMMA MissFacts ==
    ASSUME NEW e \in Event, IsOpen(e), NEW s, SnapshotType(s),
           NEW r, r = Miss(e, s)
    PROVE  /\ r \in Event /\ SameRow(r, e) /\ SameEvidence(r, e)
           /\ r.missingCaptures > e.missingCaptures
           /\ IsOpen(r) => r.missingCaptures <= MissingCaptureTolerance
           /\ ~IsOpen(r) => ClosedWithinEvidence(r)
<1> DEFINE m == [e EXCEPT !.missingCaptures = @ + 1]
<1>1. m \in Event
  BY DEF Event
<1>2. SameRow(m, e) /\ SameEvidence(m, e) /\ IsOpen(m) /\ m.missingCaptures = e.missingCaptures + 1
  BY DEF Event, SameRow, SameEvidence, IsOpen, Key
<1>3. CASE m.missingCaptures > MissingCaptureTolerance
  <2>1. r = Close(m, s, "missing")
    BY <1>3 DEF Miss
  <2> HIDE DEF m
  <2>2. r \in Event /\ ~IsOpen(r) /\ SameRow(r, m) /\ SameEvidence(r, m)
        /\ r.missingCaptures = m.missingCaptures /\ ClosedWithinEvidence(r)
    <3>1. "missing" \in Reasons
      BY DEF Reasons
    <3>2. QED
      BY <1>1, <2>1, <3>1, CloseFacts
  <2>3. QED
    BY <1>2, <2>2 DEF SameRow, SameEvidence, Event
<1>4. CASE ~(m.missingCaptures > MissingCaptureTolerance)
  <2>1. r = m
    BY <1>4 DEF Miss
  <2> HIDE DEF m
  <2>2. QED
    BY <1>1, <1>2, <1>4, <2>1, PolicyAssumption DEF Event
<1>5. QED
  BY <1>3, <1>4

\* What the review of an open row may change, and when.
LEMMA ReviewFacts ==
    ASSUME NEW e \in Event, IsOpen(e), NEW s, SnapshotType(s),
           e.missingCaptures <= MissingCaptureTolerance,
           NEW r, r = Review(e, s)
    PROVE  /\ r \in Event /\ SameRow(r, e)
           /\ SameEvidence(r, e) \/ Confirmed(r, e, s)
           /\ r.missingCaptures < e.missingCaptures => Confirmed(r, e, s)
           /\ Expires(e, s) => ~IsOpen(r) /\ SameEvidence(r, e)
           /\ IsOpen(r) => r.missingCaptures <= MissingCaptureTolerance
           /\ ~IsOpen(r) => ClosedWithinEvidence(r)
<1>0. SameRow(e, e) /\ SameEvidence(e, e) /\ "missing" \in Reasons /\ "expired" \in Reasons
      /\ "separated" \in Reasons /\ "identity_changed" \in Reasons
      /\ e.missingCaptures \in Nat
  BY DEF SameRow, SameEvidence, Reasons, Event
<1>1. CASE Expires(e, s)
  <2>1. r = Close(e, s, "expired")
    BY <1>1 DEF Review
  <2>2. QED
    BY <1>0, <1>1, <2>1, CloseFacts
<1>2. CASE ~Expires(e, s) /\ ChangesIdentity(e, s)
  <2>1. r = Close(e, s, "identity_changed")
    BY <1>2 DEF Review
  <2>2. QED
    BY <1>0, <1>2, <2>1, CloseFacts
<1>3. CASE ~Expires(e, s) /\ ~ChangesIdentity(e, s) /\ Measured(e, s)
  <2>1. CASE ~Advances(e, s)
    <3>1. r = e
      BY <1>3, <2>1 DEF Review
    <3>2. QED
      BY <1>0, <1>3, <3>1
  <2>2. CASE Advances(e, s) /\ s.distances[Key(e)] > DistanceMeters
    <3>1. r = Close(e, s, "separated")
      BY <1>3, <2>2 DEF Review
    <3>2. QED
      BY <1>0, <1>3, <3>1, CloseFacts
  <2>3. CASE Advances(e, s) /\ ~(s.distances[Key(e)] > DistanceMeters)
    <3>1. r = Confirm(e, s)
      BY <1>3, <2>3 DEF Review
    <3>2. QED
      BY <1>3, <2>3, <3>1, ConfirmFacts, PolicyAssumption DEF Confirmed
  <2>4. QED
    BY <2>1, <2>2, <2>3
<1>4. CASE ~Expires(e, s) /\ ~ChangesIdentity(e, s) /\ ~Measured(e, s)
  <2>1. CASE ~s.hasNewPositions
    <3>1. r = e
      BY <1>4, <2>1 DEF Review
    <3>2. QED
      BY <1>0, <1>4, <3>1
  <2>2. CASE s.hasNewPositions
    <3>1. r = Miss(e, s)
      BY <1>4, <2>2 DEF Review
    <3>2. /\ r \in Event /\ SameRow(r, e) /\ SameEvidence(r, e)
          /\ r.missingCaptures > e.missingCaptures
          /\ IsOpen(r) => r.missingCaptures <= MissingCaptureTolerance
          /\ ~IsOpen(r) => ClosedWithinEvidence(r)
      BY <3>1, MissFacts
    <3>3. ~(r.missingCaptures < e.missingCaptures)
      BY <1>0, <3>2 DEF Event
    <3>4. QED
      BY <1>4, <3>2, <3>3
  <2>3. QED
    BY <2>1, <2>2
<1>5. QED
  BY <1>1, <1>2, <1>3, <1>4

-----------------------------------------------------------------------------
\* The row that a complete capture leaves of an existing one.
Successor(o, s) == IF IsOpen(o) THEN Review(o, s) ELSE o

OpenRows == {e \in events : IsOpen(e)}

Reviewing(s) ==
    /\ SnapshotType(s) /\ s.partial = FALSE
    /\ s.previous = IF s.hasNewPositions THEN Previous(events, s.receivedAt) ELSE {}
    /\ \A k \in DOMAIN s.distances : k[1] \in Scopes /\ k[2] \in Pairs /\ k = <<k[1], k[2]>>
    /\ s.receivedAt > reviewed
    /\ events' = Advance(events, s)
    /\ reviewed' = s.receivedAt

\* What a review makes of a row, open or closed: a closed one stays as it is, an
\* open one is reviewed, and in both cases it remains the same row.
LEMMA SuccessorFacts ==
    ASSUME IInv, NEW s, Reviewing(s), NEW o \in events, NEW x, x = Successor(o, s)
    PROVE  /\ x \in Event /\ SameRow(x, o)
           /\ SameEvidence(x, o) \/ (IsOpen(o) /\ Confirmed(x, o, s))
           /\ IsOpen(o) /\ Expires(o, s) => ~IsOpen(x) /\ SameEvidence(x, o)
           /\ IsOpen(x) => IsOpen(o) /\ x.missingCaptures <= MissingCaptureTolerance
           /\ ~IsOpen(x) => ClosedWithinEvidence(x)
<1>1. o \in Event
  BY DEF IInv, TypeOK
<1>2. CASE IsOpen(o)
  <2>1. x = Review(o, s)
    BY <1>2 DEF Successor
  <2>2. o.missingCaptures <= MissingCaptureTolerance
    BY <1>2 DEF IInv, MissingTolerated
  <2>3. QED
    BY <1>1, <1>2, <2>1, <2>2, ReviewFacts DEF Reviewing
<1>3. CASE ~IsOpen(o)
  <2>1. x = o
    BY <1>3 DEF Successor
  <2>2. SameRow(o, o) /\ SameEvidence(o, o)
    BY DEF SameRow, SameEvidence
  <2>3. ClosedWithinEvidence(o)
    BY <1>3 DEF IInv, ClosureWithinEvidence, ClosedWithinEvidence
  <2>4. QED
    BY <1>1, <1>3, <2>1, <2>2, <2>3
<1>4. QED
  BY <1>2, <1>3

\* Every row after the capture is a successor or a new row, and conversely
\* every row has its successor.
LEMMA Provenance ==
    ASSUME NEW s, Reviewing(s)
    PROVE  /\ \A x \in events' :
                 \/ \E o \in events : x = Successor(o, s)
                 \/ \E k \in DOMAIN s.distances : Opens(k, OpenRows, s) /\ x = NewEvent(k, s)
           /\ \A o \in events : Successor(o, s) \in events'
           /\ \A k \in DOMAIN s.distances : Opens(k, OpenRows, s) => NewEvent(k, s) \in events'
<1>1. events' = (events \ OpenRows) \cup {Review(e, s) : e \in OpenRows} \cup Opened(OpenRows, s)
  BY DEF Reviewing, Advance, OpenRows
<1>2. QED
  BY <1>1 DEF Opened, OpenRows, Successor

\* A new row is fresh evidence: newer than all the rows of its key.
LEMMA NewRowFacts ==
    ASSUME IInv, NEW s, Reviewing(s),
           NEW k \in DOMAIN s.distances, Opens(k, OpenRows, s),
           NEW n, n = NewEvent(k, s)
    PROVE  /\ n \in Event /\ IsOpen(n) /\ Key(n) = k /\ n.id = s.receivedAt
           /\ n.confirmedAt = s.receivedAt /\ n.missingCaptures = 0
           /\ n.firstObservedAt = n.lastObservedAt
           /\ n.lastObservedAt = maximumTime(n.observedA, n.observedB)
           /\ \A o \in events : Key(o) = k =>
                 /\ IsOpen(o) => Expires(o, s)
                 /\ o.observedA < n.observedA /\ o.observedB < n.observedB
                 /\ o.lastObservedAt < n.firstObservedAt
<1> DEFINE a == s.positions[k[2][1]].observedAt
           b == s.positions[k[2][2]].observedAt
           l == maximumTime(a, b)
<1>1. /\ k[1] \in Scopes /\ k[2] \in Pairs /\ k = <<k[1], k[2]>>
      /\ s.receivedAt \in Nat
  BY DEF Reviewing, SnapshotType
<1>2. /\ a \in Int /\ b \in Int
      /\ a >= s.receivedAt - MaximumAge /\ b >= s.receivedAt - MaximumAge
  BY DEF Opens, Same, Present, Fresh, Reviewing, SnapshotType
<1>3. l \in Int /\ l >= a /\ l >= b
  BY <1>2 DEF maximumTime
<1>4. n = [id |-> s.receivedAt, scope |-> k[1], pair |-> k[2],
           firstObservedAt |-> l, lastObservedAt |-> l,
           confirmedAt |-> s.receivedAt, observedA |-> a, observedB |-> b,
           closedAt |-> 0, closeReason |-> "open",
           observations |-> 1, missingCaptures |-> 0]
  BY DEF NewEvent
<1>5. \A o \in events : Key(o) = k /\ IsOpen(o) => Expires(o, s) /\ Advances(o, s)
  BY DEF Opens, Blocked, OpenRows
<1>6. \A o \in events : Key(o) = k /\ Advances(o, s) => a > o.observedA /\ b > o.observedB
  BY <1>1 DEF Advances, Key
<1>7. ASSUME NEW g \in events, Key(g) = k, \A f \in events : Key(f) = k => f.id <= g.id
      PROVE  a > g.observedA /\ b > g.observedB
  <2>1. g \in Event /\ g.observedA <= g.lastObservedAt /\ g.observedB <= g.lastObservedAt
    BY DEF IInv, TypeOK, EventsDated
  <2>2. CASE IsOpen(g)
    BY <1>5, <1>6, <1>7, <2>2
  <2>3. CASE ~IsOpen(g) /\ g.lastObservedAt >= s.receivedAt - MaximumAge
    <3>1. g \in Previous(events, s.receivedAt)
      BY <1>7, <2>3 DEF Previous
    <3>2. g \in s.previous
      BY <3>1 DEF Reviewing, Opens
    <3>3. QED
      BY <1>7, <3>2 DEF Opens
  <2>4. CASE ~(g.lastObservedAt >= s.receivedAt - MaximumAge)
    BY <1>1, <1>2, <2>1, <2>4, PolicyAssumption DEF Event
  <2>5. QED
    BY <2>2, <2>3, <2>4
<1> HIDE DEF a, b, l
<1>8. ASSUME NEW o \in events, Key(o) = k
      PROVE  o.observedA < a /\ o.observedB < b
  <2>1. PICK g \in events : Key(g) = k /\ \A f \in events : Key(f) = k => f.id <= g.id
    BY <1>8 DEF IInv, HasNewest
  <2>2. a > g.observedA /\ b > g.observedB
    BY <1>7, <2>1
  <2>3. o.id <= g.id /\ o \in Event /\ g \in Event
    BY <1>8, <2>1 DEF IInv, TypeOK
  <2>4. CASE o.id = g.id
    <3>1. o = g
      BY <1>8, <2>1, <2>4 DEF IInv, KeyOrdersEncounters
    <3>2. QED
      BY <1>2, <2>2, <2>3, <3>1 DEF Event
  <2>5. CASE o.id < g.id
    <3>1. o.observedA < g.observedA /\ o.observedB < g.observedB
      BY <1>8, <2>1, <2>5 DEF IInv, NoSampleReuse
    <3>2. QED
      BY <1>2, <2>2, <2>3, <3>1 DEF Event
  <2>6. QED
    BY <2>3, <2>4, <2>5 DEF Event
<1>9. ASSUME NEW o \in events, Key(o) = k
      PROVE  o.lastObservedAt < l
  <2>1. o \in Event /\ o.lastObservedAt \in {o.observedA, o.observedB}
    BY DEF IInv, TypeOK, EventsDated
  <2>2. QED
    BY <1>2, <1>3, <1>8, <1>9, <2>1 DEF Event
<1>10. n \in Event
  BY <1>1, <1>2, <1>3, <1>4 DEF Event
<1>11. Key(n) = k /\ IsOpen(n)
  BY <1>1, <1>4 DEF Key, IsOpen
<1>12. /\ n.id = s.receivedAt /\ n.confirmedAt = s.receivedAt /\ n.missingCaptures = 0
       /\ n.firstObservedAt = l /\ n.lastObservedAt = l
       /\ n.observedA = a /\ n.observedB = b
  BY <1>4
<1>13. QED
  BY <1>5, <1>8, <1>9, <1>10, <1>11, <1>12 DEF l

-----------------------------------------------------------------------------
\* A complete capture keeps the invariant: one step per conjunct, and in each
\* the rows come either from an old row or from the capture itself.
LEMMA ReviewKeepsInvariant ==
    ASSUME IInv, NEW s, Reviewing(s), latest' \in Nat, reviewed' \in 0..latest'
    PROVE  IInv'
<1> DEFINE New(x) == \E k \in DOMAIN s.distances : Opens(k, OpenRows, s) /\ x = NewEvent(k, s)
           Old(x) == \E o \in events : x = Successor(o, s)
<1>1. \A x \in events' : Old(x) \/ New(x)
  BY Provenance
<1>2. /\ s.receivedAt \in Nat /\ reviewed' = s.receivedAt /\ reviewed \in Nat
      /\ s.receivedAt > reviewed
  BY DEF Reviewing, SnapshotType, IInv, TypeOK
<1>3. \A o \in events : o \in Event /\ o.id <= reviewed /\ o.confirmedAt <= reviewed
  BY DEF IInv, TypeOK, EventsDated
<1>4. ASSUME NEW x \in events'
      PROVE  x \in Event /\ x.id <= s.receivedAt
  <2>1. CASE Old(x)
    <3>1. PICK o \in events : x = Successor(o, s)
      BY <2>1
    <3>2. x \in Event /\ x.id = o.id
      BY <3>1, SuccessorFacts DEF SameRow
    <3>3. QED
      BY <1>2, <1>3, <3>2 DEF Event
  <2>2. CASE New(x)
    <3>1. x \in Event /\ x.id = s.receivedAt
      BY <2>2, NewRowFacts
    <3>2. QED
      BY <1>2, <3>1
  <2>3. QED
    BY <1>1, <2>1, <2>2
<1>5. TypeOK'
  BY <1>4 DEF TypeOK
<1>6. EventsDated'
  <2> SUFFICES ASSUME NEW x \in events'
               PROVE  /\ x.confirmedAt <= s.receivedAt
                      /\ x.firstObservedAt <= x.lastObservedAt
                      /\ x.observedA <= x.lastObservedAt /\ x.observedB <= x.lastObservedAt
                      /\ x.lastObservedAt \in {x.observedA, x.observedB}
    BY <1>2, <1>4 DEF EventsDated
  <2>1. CASE Old(x)
    <3>1. PICK o \in events : x = Successor(o, s)
      BY <2>1
    <3>2. x \in Event /\ SameRow(x, o) /\ (SameEvidence(x, o) \/ Confirmed(x, o, s))
      BY <3>1, SuccessorFacts
    <3>3. /\ o \in Event /\ o.confirmedAt <= reviewed
          /\ o.firstObservedAt <= o.lastObservedAt
          /\ o.observedA <= o.lastObservedAt /\ o.observedB <= o.lastObservedAt
          /\ o.lastObservedAt \in {o.observedA, o.observedB}
      BY DEF IInv, TypeOK, EventsDated
    <3>4. CASE SameEvidence(x, o)
      BY <1>2, <3>2, <3>3, <3>4 DEF SameRow, SameEvidence, Event
    <3>5. CASE Confirmed(x, o, s)
      BY <1>2, <3>2, <3>3, <3>5 DEF SameRow, Confirmed, Event, maximumTime
    <3>6. QED
      BY <3>2, <3>4, <3>5
  <2>2. CASE New(x)
    <3>1. /\ x \in Event /\ x.confirmedAt = s.receivedAt
          /\ x.firstObservedAt = x.lastObservedAt
          /\ x.lastObservedAt = maximumTime(x.observedA, x.observedB)
      BY <2>2, NewRowFacts
    <3>2. QED
      BY <1>2, <3>1 DEF Event, maximumTime
  <2>3. QED
    BY <1>1, <2>1, <2>2
<1>7. OpenIsNewest'
  <2> SUFFICES ASSUME NEW x \in events', NEW y \in events', IsOpen(x), Key(y) = Key(x)
               PROVE  y.id <= x.id
    BY DEF OpenIsNewest
  <2>1. CASE New(x)
    <3>1. x.id = s.receivedAt
      BY <2>1, NewRowFacts
    <3>2. QED
      BY <1>4, <3>1
  <2>2. CASE Old(x) /\ Old(y)
    <3>1. PICK o \in events : x = Successor(o, s)
      BY <2>2
    <3>2. PICK q \in events : y = Successor(q, s)
      BY <2>2
    <3>3. IsOpen(o) /\ SameRow(x, o) /\ SameRow(y, q)
      BY <3>1, <3>2, SuccessorFacts
    <3>4. q.id <= o.id
      BY <3>3 DEF IInv, OpenIsNewest, SameRow
    <3>5. QED
      BY <3>3, <3>4 DEF SameRow
  <2>3. CASE Old(x) /\ New(y)
    <3>1. PICK o \in events : x = Successor(o, s)
      BY <2>3
    <3>2. PICK k \in DOMAIN s.distances : Opens(k, OpenRows, s) /\ y = NewEvent(k, s)
      BY <2>3
    <3>3. IsOpen(o) /\ SameRow(x, o)
      BY <3>1, SuccessorFacts
    <3>4. Key(y) = k
      BY <3>2, NewRowFacts
    <3>5. Expires(o, s)
      BY <3>2, <3>3, <3>4, NewRowFacts DEF SameRow
    <3>6. QED
      BY <3>1, <3>3, <3>5, SuccessorFacts
  <2>4. QED
    BY <1>1, <2>1, <2>2, <2>3
<1>8. HasNewest'
  <2> SUFFICES ASSUME NEW x \in events'
               PROVE  \E g \in events' : /\ Key(g) = Key(x)
                                         /\ \A y \in events' : Key(y) = Key(x) => y.id <= g.id
    BY DEF HasNewest
  <2>1. CASE \E n \in events' : New(n) /\ Key(n) = Key(x)
    <3>1. PICK n \in events' : New(n) /\ Key(n) = Key(x)
      BY <2>1
    <3>2. n.id = s.receivedAt
      BY <3>1, NewRowFacts
    <3>3. QED
      BY <1>4, <3>1, <3>2
  <2>2. CASE \A n \in events' : New(n) => Key(n) # Key(x)
    <3>1. PICK o \in events : x = Successor(o, s)
      BY <1>1, <2>2
    <3>2. PICK g \in events : /\ Key(g) = Key(o)
                              /\ \A f \in events : Key(f) = Key(o) => f.id <= g.id
      BY DEF IInv, HasNewest
    <3> DEFINE h == Successor(g, s)
    <3>3. h \in events' /\ SameRow(h, g) /\ SameRow(x, o)
      BY <3>1, Provenance, SuccessorFacts
    <3>4. ASSUME NEW y \in events', Key(y) = Key(x)
          PROVE  y.id <= h.id
      <4>1. PICK q \in events : y = Successor(q, s)
        BY <1>1, <2>2, <3>4
      <4>2. SameRow(y, q)
        BY <4>1, SuccessorFacts
      <4>3. q.id <= g.id
        BY <3>2, <3>3, <3>4, <4>2 DEF SameRow
      <4>4. QED
        BY <3>3, <4>2, <4>3 DEF SameRow
    <3>5. Key(h) = Key(x)
      BY <3>2, <3>3 DEF SameRow
    <3>6. QED
      BY <3>3, <3>4, <3>5
  <2>3. QED
    BY <2>1, <2>2
<1>9. KeyOrdersEncounters'
  <2> SUFFICES ASSUME NEW x \in events', NEW y \in events', Key(x) = Key(y), x.id = y.id
               PROVE  x = y
    BY DEF KeyOrdersEncounters
  <2>1. ASSUME NEW u \in events', NEW w \in events', Old(u), New(w)
        PROVE  u.id # w.id
    <3>1. PICK o \in events : u = Successor(o, s)
      BY <2>1
    <3>2. u.id = o.id
      BY <3>1, SuccessorFacts DEF SameRow
    <3>3. w.id = s.receivedAt
      BY <2>1, NewRowFacts
    <3>4. QED
      BY <1>2, <1>3, <3>2, <3>3 DEF Event
  <2>2. CASE Old(x) /\ Old(y)
    <3>1. PICK o \in events : x = Successor(o, s)
      BY <2>2
    <3>2. PICK q \in events : y = Successor(q, s)
      BY <2>2
    <3>3. SameRow(x, o) /\ SameRow(y, q)
      BY <3>1, <3>2, SuccessorFacts
    <3>4. o = q
      BY <3>3 DEF SameRow, IInv, KeyOrdersEncounters
    <3>5. QED
      BY <3>1, <3>2, <3>4
  <2>3. CASE New(x) /\ New(y)
    BY <2>3, NewRowFacts
  <2>4. QED
    BY <1>1, <2>1, <2>2, <2>3
<1>10. NoSampleReuse'
  <2> SUFFICES ASSUME NEW x \in events', NEW y \in events', Key(x) = Key(y), x.id < y.id
               PROVE  /\ x.observedA < y.observedA /\ x.observedB < y.observedB
                      /\ x.lastObservedAt < y.firstObservedAt
    BY DEF NoSampleReuse
  <2>1. ~New(x)
    <3>1. New(x) => x.id = s.receivedAt
      BY NewRowFacts
    <3>2. QED
      BY <1>2, <1>4, <3>1 DEF Event
  <2>2. PICK o \in events : x = Successor(o, s)
    BY <1>1, <2>1
  <2>3. /\ SameRow(x, o) /\ o \in Event
        /\ SameEvidence(x, o) \/ (IsOpen(o) /\ Confirmed(x, o, s))
        /\ IsOpen(o) /\ Expires(o, s) => SameEvidence(x, o)
    BY <1>3, <2>2, SuccessorFacts
  <2>4. CASE Old(y)
    <3>1. PICK q \in events : y = Successor(q, s)
      BY <2>4
    <3>2. /\ SameRow(y, q) /\ q \in Event /\ y \in Event
          /\ SameEvidence(y, q) \/ Confirmed(y, q, s)
      BY <1>3, <3>1, SuccessorFacts
    <3>3. o.id < q.id /\ Key(o) = Key(q)
      BY <2>3, <3>2 DEF SameRow
    <3>4. SameEvidence(x, o)
      <4>1. ~IsOpen(o)
        BY <3>2, <3>3, <2>3 DEF IInv, OpenIsNewest, Event
      <4>2. QED
        BY <2>3, <4>1
    <3>5. /\ o.observedA < q.observedA /\ o.observedB < q.observedB
          /\ o.lastObservedAt < q.firstObservedAt
      BY <3>3 DEF IInv, NoSampleReuse
    <3>6. y.observedA >= q.observedA /\ y.observedB >= q.observedB
      BY <3>2 DEF SameEvidence, Confirmed, Event
    <3>7. QED
      BY <2>3, <3>2, <3>4, <3>5, <3>6 DEF SameEvidence, SameRow, Event
  <2>5. CASE New(y)
    <3>1. PICK k \in DOMAIN s.distances : Opens(k, OpenRows, s) /\ y = NewEvent(k, s)
      BY <2>5
    <3>2. Key(o) = k
      BY <2>3, <3>1, NewRowFacts DEF SameRow
    <3>3. /\ IsOpen(o) => Expires(o, s)
          /\ o.observedA < y.observedA /\ o.observedB < y.observedB
          /\ o.lastObservedAt < y.firstObservedAt
      BY <3>1, <3>2, NewRowFacts
    <3>4. SameEvidence(x, o)
      BY <2>3, <3>3
    <3>5. QED
      BY <3>3, <3>4 DEF SameEvidence
  <2>6. QED
    BY <1>1, <2>4, <2>5
<1>11. NoStaleOpen'
  <2> SUFFICES ASSUME NEW x \in events', IsOpen(x)
               PROVE  s.receivedAt - x.confirmedAt <= MaximumAge
    BY <1>2 DEF NoStaleOpen
  <2>1. CASE Old(x)
    <3>1. PICK o \in events : x = Successor(o, s)
      BY <2>1
    <3>2. /\ IsOpen(o) /\ ~Expires(o, s)
          /\ SameEvidence(x, o) \/ Confirmed(x, o, s)
      BY <3>1, SuccessorFacts
    <3>3. ~(s.receivedAt - o.confirmedAt > MaximumAge)
      BY <3>2 DEF Expires
    <3>4. CASE SameEvidence(x, o)
      BY <1>2, <1>3, <3>3, <3>4, PolicyAssumption DEF SameEvidence, Event
    <3>5. CASE Confirmed(x, o, s)
      BY <1>2, <3>5, PolicyAssumption DEF Confirmed
    <3>6. QED
      BY <3>2, <3>4, <3>5
  <2>2. CASE New(x)
    <3>1. x.confirmedAt = s.receivedAt
      BY <2>2, NewRowFacts
    <3>2. QED
      BY <1>2, <3>1, PolicyAssumption
  <2>3. QED
    BY <1>1, <2>1, <2>2
<1>12. ClosureWithinEvidence' /\ MissingTolerated'
  <2>1. ASSUME NEW x \in events'
        PROVE  /\ ~IsOpen(x) => ClosedWithinEvidence(x)
               /\ IsOpen(x) => x.missingCaptures <= MissingCaptureTolerance
    <3>1. CASE Old(x)
      BY <3>1, SuccessorFacts
    <3>2. CASE New(x)
      BY <3>2, NewRowFacts, PolicyAssumption
    <3>3. QED
      BY <1>1, <3>1, <3>2
  <2>2. QED
    BY <2>1 DEF ClosureWithinEvidence, MissingTolerated, ClosedWithinEvidence
<1>13. QED
  BY <1>5, <1>6, <1>7, <1>8, <1>9, <1>10, <1>11, <1>12 DEF IInv

\* What Analyse feeds to Advance is a review in the sense above.
LEMMA AnalyseReviews ==
    ASSUME IInv, NEW received \in 1..MaximumTime, NEW catalogue \in Catalogues,
           NEW metres \in [Pairs -> {DistanceMeters, DistanceMeters + 1}], NEW new \in BOOLEAN,
           NEW positions \in FreshPositions(received, catalogue),
           Receive(received), Analyse(received, positions, metres, new)
    PROVE  \E s : Reviewing(s)
<1> DEFINE s == Snapshot(events, received, FALSE, new, positions, metres)
           measured == MeasuredPairs(events, positions, metres)
           keys == {<<positions[p[1]].scope, p>> : p \in measured}
<1>1. received \in Nat /\ received > latest /\ latest \in Nat /\ reviewed \in Nat /\ reviewed <= latest
  BY TimeAssumption DEF Receive, IInv, TypeOK
<1>2. PICK present \in SUBSET Vehicles :
         positions \in [present -> [observedAt : {t \in (received - MaximumAge)..(received + MaximumFutureSkew) : t > 0},
                                    scope : catalogue]]
  BY DEF FreshPositions
<1>3. \A v \in DOMAIN positions : positions[v].observedAt \in Int /\ positions[v].scope \in Scopes
  BY <1>1, <1>2, PolicyAssumption, CataloguesAssumption
<1>4. \A p \in measured : p \in Pairs /\ p[1] \in DOMAIN positions
  BY DEF MeasuredPairs
<1>5. /\ s.receivedAt = received /\ s.partial = FALSE /\ s.hasNewPositions = new
      /\ s.positions = positions /\ DOMAIN s.distances = keys
      /\ s.previous = IF new THEN Previous(events, received) ELSE {}
  BY DEF Snapshot
<1>6. \A k \in keys : k[1] \in Scopes /\ k[2] \in Pairs /\ k = <<k[1], k[2]>>
  BY <1>3, <1>4
<1>7. events' = Advance(events, s) /\ reviewed' = received
  BY DEF Analyse
<1> HIDE DEF s, keys, measured
<1>8. QED
  BY <1>1, <1>3, <1>5, <1>6, <1>7 DEF Reviewing, SnapshotType

\* The inductive invariant of the encounters: the safety invariants together with
\* the order of the rows of a key, which the look-up of former encounters and
\* the freshness of a capture keep.
THEOREM InductiveInvariant == Spec => []IInv
<1>1. Init => IInv
  BY DEF Init, IInv, TypeOK, EventsDated, OpenIsNewest, HasNewest, KeyOrdersEncounters,
         NoSampleReuse, NoStaleOpen, ClosureWithinEvidence, MissingTolerated
<1>2. IInv /\ [Next]_vars => IInv'
  <2> SUFFICES ASSUME IInv, [Next]_vars PROVE IInv'
    OBVIOUS
  <2>1. ASSUME NEW received \in 1..MaximumTime, Receive(received), AnalysePartial
        PROVE  IInv'
    <3>1. received \in Nat /\ latest \in Nat /\ latest' = received /\ received > latest
      BY <2>1, TimeAssumption DEF Receive, IInv, TypeOK
    <3>2. TypeOK'
      BY <2>1, <3>1 DEF AnalysePartial, IInv, TypeOK
    <3>3. QED
      BY <2>1, <3>2 DEF AnalysePartial, IInv, EventsDated, OpenIsNewest, HasNewest,
         KeyOrdersEncounters, NoSampleReuse, NoStaleOpen, ClosureWithinEvidence, MissingTolerated
  <2>2. ASSUME NEW received \in 1..MaximumTime, NEW catalogue \in Catalogues,
               NEW metres \in [Pairs -> {DistanceMeters, DistanceMeters + 1}], NEW new \in BOOLEAN,
               NEW positions \in FreshPositions(received, catalogue),
               Receive(received), Analyse(received, positions, metres, new)
        PROVE  IInv'
    <3>1. PICK s : Reviewing(s)
      BY <2>2, AnalyseReviews
    <3>2. latest' \in Nat /\ reviewed' \in 0..latest'
      BY <2>2, TimeAssumption DEF Receive, Analyse
    <3>3. QED
      BY <3>1, <3>2, ReviewKeepsInvariant
  <2>3. CASE UNCHANGED vars
    BY <2>3 DEF vars, IInv, TypeOK, EventsDated, OpenIsNewest, HasNewest, KeyOrdersEncounters,
         NoSampleReuse, NoStaleOpen, ClosureWithinEvidence, MissingTolerated
  <2>4. QED
    BY <2>1, <2>2, <2>3 DEF Next
<1>3. QED
  BY <1>1, <1>2, PTL DEF Spec

\* Type correctness of the rows the detector stores.
THEOREM TypeCorrect == Spec => []TypeOK
<1>1. IInv => TypeOK
  BY DEF IInv
<1>2. QED
  BY <1>1, InductiveInvariant, PTL

\* The encounters of a pair in a scope never share a sample, and a pair is never
\* open twice in a scope.
THEOREM EncountersAreDisjoint == Spec => [](NoSampleReuse /\ KeyOrdersEncounters /\ OneOpenPerKey)
<1>1. IInv => NoSampleReuse /\ KeyOrdersEncounters /\ OneOpenPerKey
  <2> SUFFICES ASSUME IInv PROVE OneOpenPerKey
    BY DEF IInv
  <2> SUFFICES ASSUME NEW e \in events, NEW f \in events, IsOpen(e), IsOpen(f), Key(e) = Key(f)
               PROVE  e = f
    BY DEF OneOpenPerKey
  <2>1. e.id <= f.id /\ f.id <= e.id /\ e.id \in Nat /\ f.id \in Nat
    BY DEF IInv, OpenIsNewest, TypeOK, Event
  <2>2. QED
    BY <2>1 DEF IInv, KeyOrdersEncounters
<1>2. QED
  BY <1>1, InductiveInvariant, PTL

\* No complete capture leaves an encounter open on stale evidence or beyond the
\* tolerated absences, and closures are dated within the evidence.
THEOREM OpenMeansRecent == Spec => [](NoStaleOpen /\ MissingTolerated /\ ClosureWithinEvidence)
<1>1. IInv => NoStaleOpen /\ MissingTolerated /\ ClosureWithinEvidence
  BY DEF IInv
<1>2. QED
  BY <1>1, InductiveInvariant, PTL

\* History is never rewritten: what a capture changes is open before it.
THEOREM HistoryIsKept == Spec => ClosedForGood
<1>1. ASSUME [Next]_vars
      PROVE  [\A e \in events : ~IsOpen(e) => e \in events']_vars
  <2>1. ASSUME NEW s, events' = Advance(events, s), NEW e \in events, ~IsOpen(e)
        PROVE  e \in events'
    BY <2>1 DEF Advance
  <2>2. CASE UNCHANGED vars
    BY <2>2
  <2>3. CASE AnalysePartial
    BY <2>3 DEF AnalysePartial
  <2>4. ASSUME NEW received, NEW positions, NEW metres, NEW new,
               Analyse(received, positions, metres, new)
        PROVE  \A e \in events : ~IsOpen(e) => e \in events'
    BY <2>4, <2>1 DEF Analyse
  <2>5. QED
    BY <1>1, <2>2, <2>3, <2>4 DEF Next
<1>2. QED
  BY <1>1, PTL DEF Spec, ClosedForGood

\* Closures are dated within the evidence, as the CHECK of the table demands: not
\* before the last admitted observation, and an expiry not after the limit.
THEOREM ClosuresAreDated == Spec => []ClosureWithinEvidence
<1>1. IInv => ClosureWithinEvidence
  BY DEF IInv
<1>2. QED
  BY <1>1, InductiveInvariant, PTL

\* What a review makes of the samples and absences of a row it keeps.
LEMMA SamplesOfReview ==
    ASSUME IInv, NEW s, Reviewing(s), NEW e \in events, NEW f \in events', Key(e) = Key(f), e.id = f.id
    PROVE  /\ f.observations # e.observations => f.observedA > e.observedA /\ f.observedB > e.observedB
           /\ f.missingCaptures < e.missingCaptures => f.observations > e.observations
           /\ f.observations >= e.observations
<1>1. e \in Event /\ e.id <= reviewed /\ reviewed \in Nat /\ s.receivedAt \in Nat /\ s.receivedAt > reviewed
  BY DEF IInv, TypeOK, EventsDated, Reviewing, SnapshotType
<1>2. \A k \in DOMAIN s.distances : Opens(k, OpenRows, s) /\ f = NewEvent(k, s) => f.id = s.receivedAt
  BY NewRowFacts
<1>3. PICK o \in events : f = Successor(o, s)
  BY <1>1, <1>2, Provenance DEF Event
<1>4. SameRow(f, o)
  BY <1>3, SuccessorFacts
<1>5. o = e
  BY <1>4 DEF SameRow, IInv, KeyOrdersEncounters
<1>6. e.observations \in Nat /\ e.missingCaptures \in Nat
  BY <1>1 DEF Event
<1>7. CASE ~IsOpen(e)
  <2>1. f = e
    BY <1>3, <1>5, <1>7 DEF Successor
  <2>2. QED
    BY <1>6, <2>1
<1>8. CASE IsOpen(e)
  <2>1. f = Review(e, s)
    BY <1>3, <1>5, <1>8 DEF Successor
  <2>2. e.missingCaptures <= MissingCaptureTolerance
    BY <1>8 DEF IInv, MissingTolerated
  <2>3. /\ SameEvidence(f, e) \/ Confirmed(f, e, s)
        /\ f.missingCaptures < e.missingCaptures => Confirmed(f, e, s)
    BY <1>1, <1>8, <2>1, <2>2, ReviewFacts DEF Reviewing
  <2>4. QED
    BY <1>6, <2>3 DEF SameEvidence, Confirmed
<1>9. QED
  BY <1>7, <1>8

\* Only a capture that advances both units adds a sample, and only a sample
\* forgives an absence.
THEOREM SamplesAdvanceBothUnits == Spec => SamplesNeedBothUnits
<1>1. IInv /\ [Next]_vars =>
        [\A e \in events, f \in events' :
            Key(e) = Key(f) /\ e.id = f.id =>
               /\ f.observations # e.observations =>
                     f.observedA > e.observedA /\ f.observedB > e.observedB
               /\ f.missingCaptures < e.missingCaptures => f.observations > e.observations
               /\ f.observations >= e.observations]_vars
  <2> SUFFICES ASSUME IInv, Next, NEW e \in events, NEW f \in events', Key(e) = Key(f), e.id = f.id
               PROVE  /\ f.observations # e.observations => f.observedA > e.observedA /\ f.observedB > e.observedB
                      /\ f.missingCaptures < e.missingCaptures => f.observations > e.observations
                      /\ f.observations >= e.observations
    OBVIOUS
  <2>1. CASE AnalysePartial
    <3>1. f \in events /\ e \in Event
      BY <2>1 DEF AnalysePartial, IInv, TypeOK
    <3>2. f = e
      BY <3>1 DEF IInv, KeyOrdersEncounters
    <3>3. QED
      BY <3>1, <3>2 DEF Event
  <2>2. ASSUME NEW received \in 1..MaximumTime, NEW catalogue \in Catalogues,
               NEW metres \in [Pairs -> {DistanceMeters, DistanceMeters + 1}], NEW new \in BOOLEAN,
               NEW positions \in FreshPositions(received, catalogue),
               Receive(received), Analyse(received, positions, metres, new)
        PROVE  \E s : Reviewing(s)
    BY <2>2, AnalyseReviews
  <2>3. CASE \E s : Reviewing(s)
    BY <2>3, SamplesOfReview
  <2>4. QED
    BY <2>1, <2>2, <2>3 DEF Next
<1>2. QED
  BY <1>1, InductiveInvariant, PTL DEF Spec, SamplesNeedBothUnits
=============================================================================
