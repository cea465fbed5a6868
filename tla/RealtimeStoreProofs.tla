------------------------- MODULE RealtimeStoreProofs -------------------------
(***************************************************************************)
(* Proofs about StoreCapture, for any catalogue versions, captures, policy *)
(* and horizon: the canonical rows and their counts, and that what is      *)
(* stored of the encounters is a behaviour of their life cycle, so that    *)
(* all that is proved of the life cycle holds of the table.                *)
(***************************************************************************)
EXTENDS RealtimeStore, FiniteSetTheorems, TLAPS

-----------------------------------------------------------------------------
(* Rows and captures.                                                      *)

\* The captures have a last reception.
HasLast(set) == set = {} \/ \E c \in set : \A d \in set : d.receivedAt <= c.receivedAt

\* Every identifier in use was taken before, and a vehicle and timestamp have
\* one row.
RowsKept ==
    /\ \A c \in captures : c.id < nextCapture
    /\ \A r \in raw : r.capture < nextCapture
    /\ \A r, q \in raw : r.vehicle = q.vehicle /\ r.at = q.at => r = q

\* Type correctness, but for the encounters, whose type follows from their life
\* cycle.
StoreTypeOK ==
    /\ catalogue \in CatalogueStates
    /\ captures \subseteq [id: 1..MaximumCaptures, receivedAt: 1..MaximumTime, partial: BOOLEAN,
                           analysed: BOOLEAN, fingerprint: SUBSET [vehicle: Vehicles, at: Nat, branch: Branches],
                           inserted: Nat]
    /\ raw \subseteq [vehicle: Vehicles, at: Nat, scope: Scopes, spot: Spots,
                      capture: 1..MaximumCaptures, receivedAt: 1..MaximumTime]
    /\ nextCapture \in 1..(MaximumCaptures + 1)
    /\ refused \in BOOLEAN

StoreInv ==
    /\ StoreTypeOK
    /\ RowsKept
    /\ InsertedRowsAgree
    /\ HasLast(Analysed) /\ HasLast(Reviewed)
    /\ UniqueOpen(events)

Receptions(set) == \A c \in set : c.receivedAt \in Nat \ {0}

\* The last reception is that of a capture, and none is later.
LEMMA LastFacts ==
    ASSUME NEW set, Receptions(set), HasLast(set)
    PROVE  /\ LastReceived(set) \in Nat
           /\ \A c \in set : c.receivedAt <= LastReceived(set)
           /\ set # {} => \E c \in set : c.receivedAt = LastReceived(set)
<1>1. CASE set = {}
  BY <1>1 DEF LastReceived
<1>2. CASE set # {}
  <2>1. PICK c \in set : \A d \in set : d.receivedAt <= c.receivedAt
    BY <1>2 DEF HasLast
  <2>2. LastReceived(set) = CHOOSE t \in {d.receivedAt : d \in set} : \A d \in set : d.receivedAt <= t
    BY <1>2 DEF LastReceived
  <2>3. \E t \in {d.receivedAt : d \in set} : \A d \in set : d.receivedAt <= t
    BY <2>1
  <2>4. /\ LastReceived(set) \in {d.receivedAt : d \in set}
        /\ \A d \in set : d.receivedAt <= LastReceived(set)
    BY <2>2, <2>3
  <2>q. QED
    BY <2>4 DEF Receptions
<1>q. QED
  BY <1>1, <1>2

\* A later capture is the last one.
LEMMA LastAdded ==
    ASSUME NEW set, Receptions(set), HasLast(set), NEW c, c.receivedAt \in Nat \ {0},
           c.receivedAt > LastReceived(set)
    PROVE  /\ HasLast(set \cup {c}) /\ Receptions(set \cup {c})
           /\ LastReceived(set \cup {c}) = c.receivedAt
           /\ \A d \in set \cup {c} : d.receivedAt = c.receivedAt => d = c
<1>1. \A d \in set : d.receivedAt < c.receivedAt /\ d.receivedAt \in Nat
  BY LastFacts DEF Receptions
<1>2. \A d \in set \cup {c} : d.receivedAt <= c.receivedAt
  BY <1>1
<1>3. HasLast(set \cup {c}) /\ Receptions(set \cup {c})
  BY <1>2 DEF HasLast, Receptions
<1>4. /\ LastReceived(set \cup {c}) \in Nat
      /\ c.receivedAt <= LastReceived(set \cup {c})
      /\ \E d \in set \cup {c} : d.receivedAt = LastReceived(set \cup {c})
  BY <1>3, LastFacts
<1>5. LastReceived(set \cup {c}) = c.receivedAt
  BY <1>2, <1>4
<1>6. \A d \in set \cup {c} : d.receivedAt = c.receivedAt => d = c
  BY <1>1
<1>q. QED
  BY <1>3, <1>5, <1>6

\* The clock of the complete captures never leads that of the analysed ones.
LEMMA ReviewsFollow ==
    ASSUME StoreInv
    PROVE  /\ Receptions(Analysed) /\ Receptions(Reviewed)
           /\ LastReceived(Analysed) \in Nat /\ LastReceived(Reviewed) \in Nat
           /\ LastReceived(Reviewed) <= LastReceived(Analysed)
<1>1. Receptions(Analysed) /\ Receptions(Reviewed)
  BY BoundAssumption DEF StoreInv, StoreTypeOK, Receptions, Analysed, Reviewed
<1>2. LastReceived(Analysed) \in Nat /\ LastReceived(Reviewed) \in Nat
  BY <1>1, LastFacts DEF StoreInv
<1>3. CASE Reviewed = {}
  <2>1. LastReceived(Reviewed) = 0
    BY <1>3 DEF LastReceived
  <2>q. QED
    BY <1>1, <1>2, <2>1
<1>4. CASE Reviewed # {}
  <2>1. PICK c \in Reviewed : c.receivedAt = LastReceived(Reviewed)
    BY <1>1, <1>4, LastFacts DEF StoreInv
  <2>2. c \in Analysed
    BY DEF Reviewed
  <2>3. c.receivedAt <= LastReceived(Analysed)
    BY <1>1, <2>2, LastFacts DEF StoreInv
  <2>q. QED
    BY <1>1, <1>2, <2>1, <2>3
<1>q. QED
  BY <1>3, <1>4

\* What a catalogue maps is a scope.
LEMMA Mapped ==
    ASSUME StoreInv
    PROVE  \A b \in DOMAIN catalogue : b \in Branches /\ catalogue[b] \in Scopes
BY CatalogueAssumption DEF StoreInv, StoreTypeOK

\* The rows of a new capture are typed and those it counts, they are of no
\* vehicle and timestamp that raw has, and every mapped position has its row.
LEMMA RowsAdded ==
    ASSUME StoreInv, NEW received \in 1..MaximumTime, NEW batch \in Batches, Accepts(received, batch)
    PROVE  /\ IsFiniteSet(NewRows(received, batch))
           /\ NewRows(received, batch) \subseteq
                 [vehicle: Vehicles, at: Nat, scope: Scopes, spot: Spots,
                  capture: {nextCapture}, receivedAt: {received}]
           /\ \A r, q \in raw \cup NewRows(received, batch) :
                 r.vehicle = q.vehicle /\ r.at = q.at => r = q
           /\ \A p \in Admitted(received, batch) : p.branch \in DOMAIN catalogue =>
                 \E r \in raw \cup NewRows(received, batch) : r.vehicle = p.vehicle /\ r.at = p.at
<1> DEFINE picked == {q \in Admitted(received, batch) :
                        /\ q.branch \in DOMAIN catalogue
                        /\ ~\E r \in raw : r.vehicle = q.vehicle /\ r.at = q.at}
           row(p) == [vehicle |-> p.vehicle, at |-> p.at, scope |-> catalogue[p.branch], spot |-> p.spot,
                      capture |-> nextCapture, receivedAt |-> received]
           rows == NewRows(received, batch)
           f == [p \in picked |-> row(p)]
<1>1. rows = {row(p) : p \in picked}
  BY DEF NewRows
<1>2. /\ IsFiniteSet(batch) /\ batch \subseteq Position
      /\ \A p, q \in batch : p.vehicle = q.vehicle /\ p.at = q.at => p = q
  BY BatchesAssumption
<1>3. picked \subseteq batch /\ \A p \in picked : p \in Position /\ p.branch \in DOMAIN catalogue
  BY <1>2 DEF Admitted
<1>4. IsFiniteSet(rows)
  <2>1. IsFiniteSet(picked)
    BY <1>2, <1>3, FS_Subset
  <2>2. f \in Surjection(picked, rows)
    BY <1>1 DEF Surjection
  <2> HIDE DEF f, picked, rows
  <2>q. QED
    BY <2>1, <2>2, FS_Surjection
<1>5. \A p \in picked : row(p) \in [vehicle: Vehicles, at: Nat, scope: Scopes, spot: Spots,
                                    capture: {nextCapture}, receivedAt: {received}]
  BY <1>3, Mapped DEF Position
<1>6. \A r \in rows : ~\E q \in raw : q.vehicle = r.vehicle /\ q.at = r.at
  BY <1>1
<1>7. ASSUME NEW r \in rows, NEW q \in rows, r.vehicle = q.vehicle, r.at = q.at
      PROVE  r = q
  <2>1. PICK p \in picked : r = row(p)
    BY <1>1
  <2>2. PICK o \in picked : q = row(o)
    BY <1>1
  <2>3. p = o
    BY <1>2, <1>3, <1>7, <2>1, <2>2
  <2>q. QED
    BY <2>1, <2>2, <2>3
<1>8. \A r, q \in raw : r.vehicle = q.vehicle /\ r.at = q.at => r = q
  BY DEF StoreInv, RowsKept
<1>9. \A p \in picked : row(p).vehicle = p.vehicle /\ row(p).at = p.at
  OBVIOUS
<1>10. \A p \in Admitted(received, batch) : p.branch \in DOMAIN catalogue =>
          p \in picked \/ \E r \in raw : r.vehicle = p.vehicle /\ r.at = p.at
  OBVIOUS
<1> HIDE DEF rows, picked, row
<1>11. \A p \in Admitted(received, batch) : p.branch \in DOMAIN catalogue =>
          \E r \in raw \cup rows : r.vehicle = p.vehicle /\ r.at = p.at
  BY <1>1, <1>9, <1>10
<1>12. rows \subseteq [vehicle: Vehicles, at: Nat, scope: Scopes, spot: Spots,
                       capture: {nextCapture}, receivedAt: {received}]
  BY <1>1, <1>5
<1>13. \A r, q \in raw \cup rows : r.vehicle = q.vehicle /\ r.at = q.at => r = q
  BY <1>6, <1>7, <1>8
<1>q. QED
  BY <1>4, <1>11, <1>12, <1>13 DEF rows

\* The last receptions after a capture: an analysed one moves the clock, and a
\* complete one both, whereas a late one moves none.
LEMMA ClockAfter ==
    ASSUME StoreInv, NEW received \in 1..MaximumTime, NEW batch, NEW partial \in BOOLEAN, NEW analysed \in BOOLEAN,
           Store(received, batch, partial, analysed), analysed => received > LastReceived(Analysed)
    PROVE  /\ HasLast(Analysed)' /\ HasLast(Reviewed)'
           /\ LastReceived(Analysed)' = IF analysed THEN received ELSE LastReceived(Analysed)
           /\ LastReceived(Reviewed)' = IF analysed /\ ~partial THEN received ELSE LastReceived(Reviewed)
           /\ analysed /\ ~partial =>
                 \A d \in Reviewed' : d.receivedAt = received => d = Capture(received, batch, partial, analysed)
<1> DEFINE c == Capture(received, batch, partial, analysed)
<1>1. /\ captures' = captures \cup {c}
      /\ c.receivedAt = received /\ c.partial = partial /\ c.analysed = analysed
  BY DEF Store, Capture
<1>2. received \in Nat \ {0}
  BY BoundAssumption
<1> HIDE DEF c
<1>3. /\ Analysed' = IF analysed THEN Analysed \cup {c} ELSE Analysed
      /\ Reviewed' = IF analysed /\ ~partial THEN Reviewed \cup {c} ELSE Reviewed
  BY <1>1 DEF Analysed, Reviewed
<1>4. HasLast(Analysed) /\ HasLast(Reviewed) /\ Receptions(Analysed) /\ Receptions(Reviewed)
  BY ReviewsFollow DEF StoreInv
<1>5. analysed => received > LastReceived(Reviewed)
  BY <1>2, ReviewsFollow
<1>6. analysed => /\ HasLast(Analysed \cup {c})
                  /\ LastReceived(Analysed \cup {c}) = received
  BY <1>1, <1>2, <1>4, LastAdded
<1>7. analysed => /\ HasLast(Reviewed \cup {c})
                  /\ LastReceived(Reviewed \cup {c}) = received
                  /\ \A d \in Reviewed \cup {c} : d.receivedAt = received => d = c
  BY <1>1, <1>2, <1>4, <1>5, LastAdded
<1>8. HasLast(Analysed') /\ LastReceived(Analysed') = IF analysed THEN received ELSE LastReceived(Analysed)
  BY <1>3, <1>4, <1>6
<1>9. /\ HasLast(Reviewed')
      /\ LastReceived(Reviewed') = IF analysed /\ ~partial THEN received ELSE LastReceived(Reviewed)
      /\ analysed /\ ~partial => \A d \in Reviewed' : d.receivedAt = received => d = c
  BY <1>3, <1>4, <1>7
<1>q. QED
  BY <1>8, <1>9 DEF HasLast, LastReceived, c

\* What Store writes keeps the invariant, whatever it leaves of the encounters,
\* as long as the unique index admits them.
LEMMA StoreKeeps ==
    ASSUME StoreInv, NEW received \in 1..MaximumTime, NEW batch \in Batches, Accepts(received, batch),
           NEW partial \in BOOLEAN, NEW analysed \in BOOLEAN,
           Store(received, batch, partial, analysed), analysed => received > LastReceived(Analysed),
           UniqueOpen(events')
    PROVE  StoreInv'
<1> DEFINE c == Capture(received, batch, partial, analysed)
           rows == NewRows(received, batch)
<1>1. /\ captures' = captures \cup {c} /\ raw' = raw \cup rows /\ nextCapture' = nextCapture + 1
      /\ refused' = FALSE /\ catalogue' = catalogue
  BY DEF Store
<1>2. /\ nextCapture \in 1..MaximumCaptures /\ MaximumCaptures \in Nat /\ MaximumTime \in Nat
  BY BoundAssumption DEF Accepts, StoreInv, StoreTypeOK
<1>3. /\ IsFiniteSet(rows)
      /\ rows \subseteq [vehicle: Vehicles, at: Nat, scope: Scopes, spot: Spots,
                         capture: {nextCapture}, receivedAt: {received}]
      /\ \A r, q \in raw \cup rows : r.vehicle = q.vehicle /\ r.at = q.at => r = q
  BY RowsAdded
<1>4. Cardinality(rows) \in Nat
  BY <1>3, FS_CardinalityType
<1>5. Fingerprint(batch) \in SUBSET [vehicle: Vehicles, at: Nat, branch: Branches]
  BY BatchesAssumption DEF Fingerprint, LatestOf, Position
<1>6. /\ c \in [id: 1..MaximumCaptures, receivedAt: 1..MaximumTime, partial: BOOLEAN,
                analysed: BOOLEAN, fingerprint: SUBSET [vehicle: Vehicles, at: Nat, branch: Branches],
                inserted: Nat]
      /\ c.id = nextCapture /\ c.receivedAt = received /\ c.inserted = Cardinality(rows)
  BY <1>2, <1>4, <1>5 DEF Capture
<1> HIDE DEF c, rows
<1>7. StoreTypeOK'
  <2>1. rows \subseteq [vehicle: Vehicles, at: Nat, scope: Scopes, spot: Spots,
                        capture: 1..MaximumCaptures, receivedAt: 1..MaximumTime]
    BY <1>2, <1>3
  <2>2. nextCapture' \in 1..(MaximumCaptures + 1)
    BY <1>1, <1>2
  <2>q. QED
    BY <1>1, <1>6, <2>1, <2>2 DEF StoreInv, StoreTypeOK
<1>8. RowsKept'
  <2>1. /\ \A d \in captures : d.id \in Nat /\ d.id < nextCapture
        /\ \A r \in raw : r.capture \in Nat /\ r.capture < nextCapture
    BY <1>2 DEF StoreInv, StoreTypeOK, RowsKept
  <2>2. \A r \in rows : r.capture = nextCapture
    BY <1>3
  <2>q. QED
    BY <1>1, <1>2, <1>3, <1>6, <2>1, <2>2 DEF RowsKept
<1>9. InsertedRowsAgree'
  <2>1. ASSUME NEW d \in captures'
        PROVE  Cardinality({r \in raw' : r.capture = d.id}) = d.inserted
    <3>1. CASE d = c
      <4>1. {r \in raw' : r.capture = d.id} = rows
        BY <1>1, <1>2, <1>3, <1>6, <3>1 DEF StoreInv, StoreTypeOK, RowsKept
      <4>q. QED
        BY <1>6, <3>1, <4>1
    <3>2. CASE d \in captures
      <4>1. d.id < nextCapture /\ d.id \in Nat
        BY <1>2, <3>2 DEF StoreInv, StoreTypeOK, RowsKept
      <4>2. {r \in raw' : r.capture = d.id} = {r \in raw : r.capture = d.id}
        BY <1>1, <1>2, <1>3, <4>1
      <4>q. QED
        BY <3>2, <4>2 DEF StoreInv, InsertedRowsAgree
    <3>q. QED
      BY <1>1, <2>1, <3>1, <3>2
  <2>2. ASSUME NEW r \in raw'
        PROVE  \E d \in captures' : d.id = r.capture /\ d.receivedAt = r.receivedAt
    <3>1. CASE r \in raw
      BY <1>1, <3>1 DEF StoreInv, InsertedRowsAgree
    <3>2. CASE r \in rows
      BY <1>1, <1>3, <1>6, <3>2
    <3>q. QED
      BY <1>1, <2>2, <3>1, <3>2
  <2>q. QED
    BY <2>1, <2>2 DEF InsertedRowsAgree
<1>10. HasLast(Analysed)' /\ HasLast(Reviewed)'
  BY ClockAfter
<1>11. UniqueOpen(events)'
  BY DEF UniqueOpen
<1>q. QED
  BY <1>7, <1>8, <1>9, <1>10, <1>11 DEF StoreInv

LEMMA InitInvariant == Init => StoreInv
<1> SUFFICES ASSUME Init PROVE StoreInv
  OBVIOUS
<1>1. StoreTypeOK
  <2>1. 1 \in 1..(MaximumCaptures + 1)
    BY BoundAssumption
  <2>q. QED
    BY <2>1 DEF Init, StoreTypeOK
<1>2. RowsKept /\ InsertedRowsAgree /\ UniqueOpen(events)
  BY DEF Init, RowsKept, InsertedRowsAgree, UniqueOpen
<1>3. Analysed = {} /\ Reviewed = {}
  BY DEF Init, Analysed, Reviewed
<1>q. QED
  BY <1>1, <1>2, <1>3 DEF StoreInv, HasLast

LEMMA InvariantKept == StoreInv /\ [Next]_vars => StoreInv'
<1> SUFFICES ASSUME StoreInv, [Next]_vars PROVE StoreInv'
  OBVIOUS
<1>1. ASSUME NEW received \in 1..MaximumTime, NEW batch \in Batches, NEW partial \in BOOLEAN,
             StoreLate(received, batch, partial)
      PROVE  StoreInv'
  <2>1. UniqueOpen(events') /\ Accepts(received, batch) /\ Store(received, batch, partial, FALSE)
    BY <1>1 DEF StoreLate, StoreInv
  <2>q. QED
    BY <2>1, StoreKeeps
<1>2. ASSUME NEW received \in 1..MaximumTime, NEW batch \in Batches, StorePartial(received, batch)
      PROVE  StoreInv'
  <2>1. /\ UniqueOpen(events') /\ Accepts(received, batch) /\ Store(received, batch, TRUE, TRUE)
        /\ received > LastReceived(Analysed)
    BY <1>2 DEF StorePartial, StoreInv
  <2>q. QED
    BY <2>1, StoreKeeps
<1>3. ASSUME NEW received \in 1..MaximumTime, NEW batch \in Batches, StoreComplete(received, batch)
      PROVE  StoreInv'
  <2>1. /\ UniqueOpen(events') /\ Accepts(received, batch) /\ Store(received, batch, FALSE, TRUE)
        /\ received > LastReceived(Analysed)
    BY <1>3 DEF StoreComplete
  <2>q. QED
    BY <2>1, StoreKeeps
<1>4. ASSUME UNCHANGED <<captures, raw, events>>, catalogue' \in CatalogueStates, refused' \in BOOLEAN,
             nextCapture' \in {nextCapture, nextCapture + 1}, nextCapture' <= MaximumCaptures + 1
      PROVE  StoreInv'
  <2>1. nextCapture \in Nat /\ nextCapture' \in 1..(MaximumCaptures + 1) /\ nextCapture <= nextCapture'
        /\ \A d \in captures : d.id \in Nat
        /\ \A r \in raw : r.capture \in Nat
    BY <1>4, BoundAssumption DEF StoreInv, StoreTypeOK
  <2>2. StoreTypeOK'
    BY <1>4, <2>1 DEF StoreInv, StoreTypeOK
  <2>3. RowsKept' /\ InsertedRowsAgree'
    BY <1>4, <2>1 DEF StoreInv, RowsKept, InsertedRowsAgree
  <2>4. HasLast(Analysed)' /\ HasLast(Reviewed)' /\ UniqueOpen(events)'
    BY <1>4 DEF StoreInv, HasLast, Analysed, Reviewed, UniqueOpen
  <2>q. QED
    BY <2>2, <2>3, <2>4 DEF StoreInv
<1>5. nextCapture \in Nat /\ MaximumCaptures \in Nat /\ nextCapture <= MaximumCaptures + 1
      /\ catalogue \in CatalogueStates /\ refused \in BOOLEAN
  BY BoundAssumption DEF StoreInv, StoreTypeOK
<1>6. ASSUME NEW received, NEW batch, StoreRefused(received, batch) PROVE StoreInv'
  BY <1>4, <1>5, <1>6 DEF StoreRefused, Accepts
<1>7. CASE StoreFails
  <2>1. /\ UNCHANGED <<captures, raw, events>> /\ catalogue' = catalogue /\ refused' = FALSE
        /\ nextCapture' = nextCapture + 1 /\ nextCapture <= MaximumCaptures
    BY <1>7 DEF StoreFails
  <2>2. nextCapture' \in {nextCapture, nextCapture + 1} /\ nextCapture' <= MaximumCaptures + 1
    BY <1>5, <2>1
  <2>3. catalogue' \in CatalogueStates /\ refused' \in BOOLEAN
    BY <1>5, <2>1
  <2>q. QED
    BY <1>4, <2>1, <2>2, <2>3
<1>8. CASE ReloadCatalogue
  BY <1>4, <1>5, <1>8 DEF ReloadCatalogue
<1>9. CASE UNCHANGED vars
  BY <1>4, <1>5, <1>9 DEF vars
<1>q. QED
  BY <1>1, <1>2, <1>3, <1>6, <1>7, <1>8, <1>9 DEF Next

\* The invariant of rows, captures and open encounters.
THEOREM Invariance == Spec => []StoreInv
BY InitInvariant, InvariantKept, PTL DEF Spec

\* Whatever is late, repeated or lost, the rows first received with a capture
\* are those it counted, which is what the bottleneck producer checks before it
\* reads them.
THEOREM CountsAgreeWithRows == Spec => []InsertedRowsAgree
<1>1. StoreInv => InsertedRowsAgree
  BY DEF StoreInv
<1>q. QED
  BY <1>1, Invariance, PTL

\* The first row stored for a vehicle and timestamp stays, alone.
THEOREM FirstRowStays == Spec => FirstRowIsCanonical
<1>1. StoreInv /\ StoreInv' /\ [Next]_vars =>
         [/\ raw \subseteq raw'
          /\ \A r, q \in raw' : r.vehicle = q.vehicle /\ r.at = q.at => r = q]_vars
  <2> SUFFICES ASSUME StoreInv', Next
               PROVE  /\ raw \subseteq raw'
                      /\ \A r, q \in raw' : r.vehicle = q.vehicle /\ r.at = q.at => r = q
    OBVIOUS
  <2>1. raw \subseteq raw'
    BY DEF Next, StoreLate, StorePartial, StoreComplete, StoreRefused, StoreFails, ReloadCatalogue, Store
  <2>2. \A r, q \in raw' : r.vehicle = q.vehicle /\ r.at = q.at => r = q
    BY DEF StoreInv, RowsKept
  <2>q. QED
    BY <2>1, <2>2
<1>q. QED
  BY <1>1, Invariance, PTL DEF Spec, FirstRowIsCanonical

-----------------------------------------------------------------------------
(* The store implements the life cycle of the encounters.                  *)

\* Two snapshots that differ in distances only, and in none across the limit.
SameNearness(s, t) ==
    /\ s.receivedAt = t.receivedAt /\ s.partial = t.partial
    /\ s.hasNewPositions = t.hasNewPositions /\ s.positions = t.positions
    /\ s.previous = t.previous
    /\ DOMAIN s.distances = DOMAIN t.distances
    /\ \A k \in DOMAIN s.distances :
          /\ s.distances[k] > DistanceMeters <=> t.distances[k] > DistanceMeters
          /\ s.distances[k] <= DistanceMeters <=> t.distances[k] <= DistanceMeters

\* Advance reads nothing of a distance but the side of the limit it is on.
LEMMA AdvanceReadsNearness ==
    ASSUME NEW s, NEW t, SameNearness(s, t), NEW set
    PROVE  Advance(set, s) = Advance(set, t)
<1>1. ASSUME NEW e, NEW v, NEW scope
      PROVE  Present(s, v) = Present(t, v) /\ Same(s, v, scope) = Same(t, v, scope)
  BY DEF SameNearness, Present, Same
<1>2. ASSUME NEW e
      PROVE  /\ Advances(e, s) = Advances(e, t) /\ ObservationGap(e, s) = ObservationGap(e, t)
             /\ Expires(e, s) = Expires(e, t) /\ ChangesIdentity(e, s) = ChangesIdentity(e, t)
             /\ Measured(e, s) = Measured(e, t)
  BY DEF SameNearness, Present, Same, Advances, ObservationGap, Expires, ChangesIdentity, Leaves, Measured
<1>3. ASSUME NEW e, NEW reason
      PROVE  Close(e, s, reason) = Close(e, t, reason) /\ Confirm(e, s) = Confirm(e, t)
  BY <1>2 DEF SameNearness, Close, ClosingTime, Confirm
<1>4. ASSUME NEW e
      PROVE  Miss(e, s) = Miss(e, t)
  BY <1>3 DEF Miss
<1>5. ASSUME NEW e
      PROVE  Review(e, s) = Review(e, t)
  <2>1. Measured(e, s) => (s.distances[Key(e)] > DistanceMeters <=> t.distances[Key(e)] > DistanceMeters)
    BY DEF Measured, SameNearness
  <2>2. s.hasNewPositions = t.hasNewPositions
    BY DEF SameNearness
  <2>q. QED
    BY <1>2, <1>3, <1>4, <2>1, <2>2 DEF Review
<1>6. ASSUME NEW open
      PROVE  Opened(open, s) = Opened(open, t)
  <2>1. \A k \in DOMAIN s.distances : Opens(k, open, s) <=> Opens(k, open, t)
    BY <1>1, <1>2 DEF SameNearness, Opens, Blocked
  <2>2. \A k : NewEvent(k, s) = NewEvent(k, t)
    BY DEF NewEvent, SameNearness
  <2>3. DOMAIN s.distances = DOMAIN t.distances
    BY DEF SameNearness
  <2>q. QED
    BY <2>1, <2>2, <2>3 DEF Opened
<1>q. QED
  BY <1>5, <1>6 DEF Advance, SameNearness

\* The distances the life cycle tells apart.
Nearness(metres) == [p \in Pairs |-> IF metres[p] <= DistanceMeters THEN DistanceMeters ELSE DistanceMeters + 1]

\* It is enough to know which pairs are near.
LEMMA NearnessSuffices ==
    ASSUME NEW set, NEW received, NEW new, NEW positions, NEW metres \in [Pairs -> Nat]
    PROVE  /\ Nearness(metres) \in [Pairs -> {DistanceMeters, DistanceMeters + 1}]
           /\ Advance(set, Snapshot(set, received, FALSE, new, positions, metres)) =
              Advance(set, Snapshot(set, received, FALSE, new, positions, Nearness(metres)))
<1> DEFINE near == Nearness(metres)
           s == Snapshot(set, received, FALSE, new, positions, metres)
           t == Snapshot(set, received, FALSE, new, positions, near)
           measured == MeasuredPairs(set, positions, metres)
           keys == {<<positions[p[1]].scope, p>> : p \in measured}
<1>1. \A p \in Pairs : /\ metres[p] \in Nat
                       /\ near[p] <= DistanceMeters <=> metres[p] <= DistanceMeters
                       /\ near[p] > DistanceMeters <=> metres[p] > DistanceMeters
  BY PolicyAssumption DEF Nearness
<1>2. near \in [Pairs -> {DistanceMeters, DistanceMeters + 1}]
  BY DEF Nearness
<1> HIDE DEF near
<1>3. MeasuredPairs(set, positions, near) = measured
  BY <1>1 DEF MeasuredPairs
<1>4. measured \subseteq Pairs
  BY DEF MeasuredPairs
<1>5. /\ DOMAIN s.distances = keys /\ DOMAIN t.distances = keys
      /\ \A k \in keys : s.distances[k] = metres[k[2]] /\ t.distances[k] = near[k[2]]
  BY <1>3 DEF Snapshot
<1>6. \A k \in keys : k[2] \in Pairs
  BY <1>4
<1>7. /\ s.receivedAt = t.receivedAt /\ s.partial = t.partial
      /\ s.hasNewPositions = t.hasNewPositions /\ s.positions = t.positions
      /\ s.previous = t.previous
  BY DEF Snapshot
<1> HIDE DEF s, t, keys, measured
<1>8. SameNearness(s, t)
  BY <1>1, <1>5, <1>6, <1>7 DEF SameNearness
<1>9. Advance(set, s) = Advance(set, t)
  BY <1>8, AdvanceReadsNearness
<1>q. QED
  BY <1>2, <1>9 DEF s, t, near

\* The instance of the life cycle is about the same encounters.
LEMMA SameDomain ==
    /\ \A e, s : Lifecycle!Advance(e, s) = Advance(e, s)
    /\ \A set, r, part, new, pos, metres :
          Lifecycle!Snapshot(set, r, part, new, pos, metres) = Snapshot(set, r, part, new, pos, metres)
<1>1. \A e, s : Lifecycle!Advance(e, s) = Advance(e, s)
  BY DEF Lifecycle!Advance, Advance, Lifecycle!Opened, Opened, Lifecycle!NewEvent, NewEvent,
         Lifecycle!Opens, Opens, Lifecycle!Blocked, Blocked, Lifecycle!IsOpen, IsOpen,
         Lifecycle!Review, Review, Lifecycle!Expires, Expires, Lifecycle!ObservationGap, ObservationGap,
         Lifecycle!Advances, Advances, Lifecycle!Same, Same, Lifecycle!Present, Present, Lifecycle!Fresh, Fresh,
         Lifecycle!Close, Close, Lifecycle!ClosingTime, ClosingTime, Lifecycle!maximumTime, maximumTime,
         Lifecycle!minimumTime, minimumTime, Lifecycle!ChangesIdentity, ChangesIdentity, Lifecycle!Leaves, Leaves,
         Lifecycle!Measured, Measured, Lifecycle!Key, Key, Lifecycle!Confirm, Confirm, Lifecycle!Miss, Miss
<1>2. \A set, r, part, new, pos, metres :
          Lifecycle!Snapshot(set, r, part, new, pos, metres) = Snapshot(set, r, part, new, pos, metres)
  BY DEF Lifecycle!Snapshot, Snapshot, Lifecycle!MeasuredPairs, MeasuredPairs, Lifecycle!Previous, Previous,
         Lifecycle!IsOpen, IsOpen, Lifecycle!Version, Version, Lifecycle!Key, Key
<1>q. QED
  BY <1>1, <1>2

\* The snapshot of a capture holds fresh positions in scopes of the catalogue,
\* each with its canonical row.
LEMMA SnapshotFacts ==
    ASSUME StoreInv, NEW received \in 1..MaximumTime, NEW batch \in Batches, Accepts(received, batch),
           NEW positions, positions = SnapshotPositions(received, batch),
           NEW rows, rows = raw \cup NewRows(received, batch)
    PROVE  /\ \A v \in DOMAIN positions : \E p \in LatestOf(Admitted(received, batch)) :
                 /\ p.vehicle = v /\ p.branch \in DOMAIN catalogue /\ Fresh(received, p.at)
                 /\ positions[v] = [observedAt |-> p.at, scope |-> catalogue[p.branch]]
           /\ \A p \in LatestOf(Admitted(received, batch)) :
                 p.branch \in DOMAIN catalogue /\ Fresh(received, p.at) => p.vehicle \in DOMAIN positions
           /\ positions \in [DOMAIN positions -> [observedAt : {t \in (received - MaximumAge)..(received + MaximumFutureSkew) : t > 0},
                                                  scope : {catalogue[b] : b \in DOMAIN catalogue}]]
           /\ DOMAIN positions \subseteq Vehicles
           /\ SnapshotMetres(rows, positions) \in [Pairs -> Nat]
<1> DEFINE usable == {p \in LatestOf(Admitted(received, batch)) :
                        p.branch \in DOMAIN catalogue /\ Fresh(received, p.at)}
           of(v) == CHOOSE p \in usable : p.vehicle = v
           spot(v) == (CHOOSE r \in rows : r.vehicle = v /\ r.at = positions[v].observedAt).spot
<1>1. positions = [v \in {p.vehicle : p \in usable} |-> [observedAt |-> of(v).at, scope |-> catalogue[of(v).branch]]]
  BY DEF SnapshotPositions
<1>2. \A v \in {p.vehicle : p \in usable} : of(v) \in usable /\ of(v).vehicle = v
  <2> HIDE DEF usable
  <2>q. QED
    OBVIOUS
<1>3. /\ batch \subseteq Position /\ Admitted(received, batch) \subseteq batch
      /\ LatestOf(Admitted(received, batch)) \subseteq Admitted(received, batch)
  BY BatchesAssumption DEF Admitted, LatestOf
<1>4. \A v \in DOMAIN positions :
        /\ of(v) \in LatestOf(Admitted(received, batch)) /\ of(v) \in Position
        /\ of(v).vehicle = v /\ of(v).branch \in DOMAIN catalogue /\ Fresh(received, of(v).at)
        /\ positions[v] = [observedAt |-> of(v).at, scope |-> catalogue[of(v).branch]]
  <2>1. usable \subseteq Position /\ usable \subseteq LatestOf(Admitted(received, batch))
        /\ \A p \in usable : p.branch \in DOMAIN catalogue /\ Fresh(received, p.at)
    BY <1>3
  <2> HIDE DEF usable
  <2>q. QED
    BY <1>1, <1>2, <2>1
<1>5. \A p \in usable : p.vehicle \in DOMAIN positions
  <2> HIDE DEF usable
  <2>q. QED
    BY <1>1
<1>6. received \in Nat /\ MaximumAge \in Nat /\ MaximumFutureSkew \in Nat
  BY BoundAssumption, PolicyAssumption
<1> DEFINE times == {t \in (received - MaximumAge)..(received + MaximumFutureSkew) : t > 0}
           scopes == {catalogue[b] : b \in DOMAIN catalogue}
<1>7. \A v \in DOMAIN positions : positions[v] \in [observedAt : times, scope : scopes]
  <2> SUFFICES ASSUME NEW v \in DOMAIN positions PROVE positions[v] \in [observedAt : times, scope : scopes]
    OBVIOUS
  <2>1. PICK p \in Position : /\ p.branch \in DOMAIN catalogue /\ Fresh(received, p.at)
                              /\ positions[v] = [observedAt |-> p.at, scope |-> catalogue[p.branch]]
    BY <1>4
  <2>2. p.at \in times
    BY <1>6, <2>1 DEF Fresh, Position
  <2>3. catalogue[p.branch] \in scopes
    BY <2>1
  <2> HIDE DEF times, scopes
  <2>q. QED
    BY <2>1, <2>2, <2>3
<1>8. positions \in [DOMAIN positions -> [observedAt : times, scope : scopes]]
  <2>1. positions = [v \in DOMAIN positions |-> positions[v]]
    BY <1>1
  <2> HIDE DEF times, scopes
  <2>q. QED
    BY <1>7, <2>1
<1>9. DOMAIN positions \subseteq Vehicles
  BY <1>4 DEF Position
<1>10. \A v \in DOMAIN positions : spot(v) \in Spots
  <2> SUFFICES ASSUME NEW v \in DOMAIN positions PROVE spot(v) \in Spots
    OBVIOUS
  <2>1. PICK p \in Admitted(received, batch) : /\ p.vehicle = v /\ p.branch \in DOMAIN catalogue
                                               /\ positions[v].observedAt = p.at
    BY <1>3, <1>4
  <2>2. \E r \in rows : r.vehicle = v /\ r.at = positions[v].observedAt
    BY <2>1, RowsAdded
  <2>3. \A r \in rows : r.spot \in Spots
    BY RowsAdded DEF StoreInv, StoreTypeOK
  <2>q. QED
    BY <2>2, <2>3
<1> HIDE DEF spot
<1>11. SnapshotMetres(rows, positions) =
         [p \in Pairs |-> IF {p[1], p[2]} \subseteq DOMAIN positions
                          THEN Metres[<<spot(p[1]), spot(p[2])>>]
                          ELSE DistanceMeters + 1]
  BY DEF SnapshotMetres, spot
<1>12. \A p \in Pairs : (IF {p[1], p[2]} \subseteq DOMAIN positions
                         THEN Metres[<<spot(p[1]), spot(p[2])>>]
                         ELSE DistanceMeters + 1) \in Nat
  BY <1>10, MetresAssumption, PolicyAssumption
<1>13. SnapshotMetres(rows, positions) \in [Pairs -> Nat]
  BY <1>11, <1>12
<1> HIDE DEF of, usable
<1>14. \A p \in LatestOf(Admitted(received, batch)) :
          p.branch \in DOMAIN catalogue /\ Fresh(received, p.at) => p.vehicle \in DOMAIN positions
  BY <1>5 DEF usable
<1>q. QED
  BY <1>4, <1>8, <1>9, <1>13, <1>14

\* A complete capture is a step of the life cycle.
LEMMA CompleteRefines ==
    ASSUME StoreInv, NEW received \in 1..MaximumTime, NEW batch \in Batches, StoreComplete(received, batch)
    PROVE  Lifecycle!Next
<1> DEFINE positions == SnapshotPositions(received, batch)
           rows == raw \cup NewRows(received, batch)
           metres == SnapshotMetres(rows, positions)
           scopes == {catalogue[b] : b \in DOMAIN catalogue}
           new == HasNewPositions(batch)
<1>1. /\ Accepts(received, batch) /\ Store(received, batch, FALSE, TRUE)
      /\ received > LastReceived(Analysed)
      /\ events' = AdvancedEvents(received, batch, raw') /\ raw' = rows
  BY DEF StoreComplete, Store
<1>2. /\ DOMAIN positions \subseteq Vehicles
      /\ positions \in [DOMAIN positions -> [observedAt : {t \in (received - MaximumAge)..(received + MaximumFutureSkew) : t > 0},
                                             scope : scopes]]
      /\ metres \in [Pairs -> Nat]
  BY <1>1, SnapshotFacts
<1>3. events' = Advance(events, Snapshot(events, received, FALSE, new, positions, metres))
  BY <1>1 DEF AdvancedEvents
<1>4. new \in BOOLEAN
  BY DEF HasNewPositions
<1> HIDE DEF positions, rows, metres, new
<1>5. /\ Nearness(metres) \in [Pairs -> {DistanceMeters, DistanceMeters + 1}]
      /\ events' = Advance(events, Snapshot(events, received, FALSE, new, positions, Nearness(metres)))
  BY <1>2, <1>3, NearnessSuffices
<1>6. events' = Lifecycle!Advance(events, Lifecycle!Snapshot(events, received, FALSE, new, positions, Nearness(metres)))
  BY <1>5, SameDomain
<1>7. LastReceived(Analysed)' = received /\ LastReceived(Reviewed)' = received
  BY <1>1, ClockAfter
<1>8. Lifecycle!Receive(received)
  BY <1>1, <1>7 DEF Lifecycle!Receive
<1>9. Lifecycle!Analyse(received, positions, Nearness(metres), new)
  BY <1>6, <1>7 DEF Lifecycle!Analyse
<1>10. positions \in Lifecycle!FreshPositions(received, scopes)
  BY <1>2 DEF Lifecycle!FreshPositions
<1>11. scopes \in {{c[b] : b \in DOMAIN c} : c \in CatalogueStates}
  BY DEF StoreInv, StoreTypeOK
<1> HIDE DEF scopes
<1>q. QED
  BY <1>4, <1>5, <1>8, <1>9, <1>10, <1>11 DEF Lifecycle!Next

\* Every step of the store is one of the life cycle, or none: what is late,
\* refused or lost moves neither the encounters nor their clock.
LEMMA StepInLifecycle == StoreInv /\ [Next]_vars => [Lifecycle!Next]_(Lifecycle!vars)
<1> SUFFICES ASSUME StoreInv, [Next]_vars PROVE [Lifecycle!Next]_(Lifecycle!vars)
  OBVIOUS
<1>1. ASSUME NEW received \in 1..MaximumTime, NEW batch \in Batches, NEW partial \in BOOLEAN,
             StoreLate(received, batch, partial)
      PROVE  UNCHANGED Lifecycle!vars
  <2>1. Store(received, batch, partial, FALSE) /\ events' = events
    BY <1>1 DEF StoreLate
  <2>2. UNCHANGED <<LastReceived(Analysed), LastReceived(Reviewed)>>
    BY <2>1, ClockAfter
  <2>q. QED
    BY <2>1, <2>2 DEF Lifecycle!vars
<1>2. ASSUME NEW received \in 1..MaximumTime, NEW batch \in Batches, StorePartial(received, batch)
      PROVE  Lifecycle!Next
  <2>1. Store(received, batch, TRUE, TRUE) /\ events' = events /\ received > LastReceived(Analysed)
    BY <1>2 DEF StorePartial
  <2>2. LastReceived(Analysed)' = received /\ LastReceived(Reviewed)' = LastReceived(Reviewed)
    BY <2>1, ClockAfter
  <2>q. QED
    BY <2>1, <2>2 DEF Lifecycle!Next, Lifecycle!Receive, Lifecycle!AnalysePartial
<1>3. ASSUME UNCHANGED <<captures, events>>
      PROVE  UNCHANGED Lifecycle!vars
  BY <1>3 DEF Lifecycle!vars, LastReceived, Analysed, Reviewed
<1>4. ASSUME NEW received, NEW batch, StoreRefused(received, batch)
      PROVE  UNCHANGED Lifecycle!vars
  BY <1>3, <1>4 DEF StoreRefused
<1>5. CASE StoreFails \/ ReloadCatalogue \/ UNCHANGED vars
  BY <1>3, <1>5 DEF StoreFails, ReloadCatalogue, vars
<1>q. QED
  BY <1>1, <1>2, <1>4, <1>5, CompleteRefines DEF Next

\* What is stored of the encounters is a behaviour of their life cycle, whatever
\* is late, partial, repeated, refused or lost, and whenever the catalogue is
\* reloaded.
THEOREM LifecycleImplemented == Spec => ImplementsLifecycle
<1>1. Init => Lifecycle!Init
  <2> SUFFICES ASSUME Init PROVE Lifecycle!Init
    OBVIOUS
  <2>1. Analysed = {} /\ Reviewed = {} /\ events = {}
    BY DEF Init, Analysed, Reviewed
  <2>2. LastReceived(Analysed) = 0
    BY <2>1 DEF LastReceived
  <2>3. LastReceived(Reviewed) = 0
    BY <2>1 DEF LastReceived
  <2>q. QED
    BY <2>1, <2>2, <2>3 DEF Lifecycle!Init
<1>q. QED
  BY <1>1, StepInLifecycle, Invariance, PTL DEF Spec, ImplementsLifecycle, Lifecycle!Spec

\* The proofs about the life cycle, for the encounters of the store.
Promise == INSTANCE BunchingLifecycleProofs WITH
    Catalogues <- {{c[b] : b \in DOMAIN c} : c \in CatalogueStates},
    latest <- LastReceived(Analysed),
    reviewed <- LastReceived(Reviewed)

\* The two instances of the life cycle are one.
LEMMA SameLifecycle == Lifecycle!Spec => Promise!Spec
<1>1. Lifecycle!Init => Promise!Init
  BY DEF Lifecycle!Init, Promise!Init
<1>2. \A e, s : Promise!Advance(e, s) = Lifecycle!Advance(e, s)
  BY DEF Lifecycle!Advance, Promise!Advance, Lifecycle!Opened, Promise!Opened,
         Lifecycle!NewEvent, Promise!NewEvent, Lifecycle!Opens, Promise!Opens,
         Lifecycle!Blocked, Promise!Blocked, Lifecycle!IsOpen, Promise!IsOpen,
         Lifecycle!Review, Promise!Review, Lifecycle!Expires, Promise!Expires,
         Lifecycle!ObservationGap, Promise!ObservationGap, Lifecycle!Advances, Promise!Advances,
         Lifecycle!Same, Promise!Same, Lifecycle!Present, Promise!Present, Lifecycle!Fresh, Promise!Fresh,
         Lifecycle!Close, Promise!Close, Lifecycle!ClosingTime, Promise!ClosingTime,
         Lifecycle!maximumTime, Promise!maximumTime, Lifecycle!minimumTime, Promise!minimumTime,
         Lifecycle!ChangesIdentity, Promise!ChangesIdentity, Lifecycle!Leaves, Promise!Leaves,
         Lifecycle!Measured, Promise!Measured, Lifecycle!Key, Promise!Key,
         Lifecycle!Confirm, Promise!Confirm, Lifecycle!Miss, Promise!Miss
<1>3. \A set, r, part, new, pos, metres :
          Lifecycle!Snapshot(set, r, part, new, pos, metres) = Promise!Snapshot(set, r, part, new, pos, metres)
  BY DEF Lifecycle!Snapshot, Promise!Snapshot, Lifecycle!MeasuredPairs, Promise!MeasuredPairs,
         Lifecycle!Previous, Promise!Previous, Lifecycle!IsOpen, Promise!IsOpen,
         Lifecycle!Version, Promise!Version, Lifecycle!Key, Promise!Key
<1>4. [Lifecycle!Next]_(Lifecycle!vars) => [Promise!Next]_(Promise!vars)
  BY <1>2, <1>3 DEF Lifecycle!Next, Promise!Next, Lifecycle!vars, Promise!vars, Lifecycle!Receive, Promise!Receive,
         Lifecycle!Analyse, Promise!Analyse, Lifecycle!AnalysePartial, Promise!AnalysePartial,
         Lifecycle!FreshPositions, Promise!FreshPositions
<1>q. QED
  BY <1>1, <1>4, PTL DEF Lifecycle!Spec, Promise!Spec

\* The constants of the life cycle are as it assumes.
LEMMA LifecycleAssumptions ==
    /\ {{c[b] : b \in DOMAIN c} : c \in CatalogueStates} \subseteq SUBSET Scopes
    /\ MaximumTime \in Nat
BY CatalogueAssumption, BoundAssumption

\* The stored encounters satisfy the invariant of their life cycle.
THEOREM StoredEncounters == Spec => []Promise!IInv
<1>1. Promise!Spec => []Promise!IInv
  BY LifecycleAssumptions, PolicyAssumption, PairsAssumption, VersionAssumption, Promise!InductiveInvariant
<1>2. Spec => Lifecycle!Spec
  BY LifecycleImplemented DEF ImplementsLifecycle
<1>q. QED
  BY <1>1, <1>2, SameLifecycle, PTL

\* Type correctness of all that is stored.
THEOREM TypeCorrect == Spec => []TypeOK
<1>1. Promise!IInv => events \subseteq Event
  BY DEF Promise!IInv, Promise!TypeOK, Promise!Event, Event, Promise!Reasons, Reasons
<1>2. StoreInv => StoreTypeOK
  BY DEF StoreInv
<1>3. StoreTypeOK /\ events \subseteq Event => TypeOK
  BY DEF StoreTypeOK, TypeOK
<1>q. QED
  BY <1>1, <1>2, <1>3, Invariance, StoredEncounters, PTL

\* The stored encounters of a pair in a scope never share a sample: the columns
\* observado_a_en and observado_b_en of the later one are newer, in the table
\* that late, repeated and failed captures and reloads go through.
THEOREM StoredEncountersAreDisjoint == Spec => [](Promise!NoSampleReuse /\ Promise!KeyOrdersEncounters)
<1>1. Promise!IInv => Promise!NoSampleReuse /\ Promise!KeyOrdersEncounters
  BY DEF Promise!IInv
<1>q. QED
  BY <1>1, StoredEncounters, PTL

-----------------------------------------------------------------------------
(* The unique index of the open encounters.                                *)

\* A review changes neither the scope nor the pair of a row, closes what
\* expires, and reopens nothing.
LEMMA ReviewedRow ==
    ASSUME NEW e \in Event, NEW s
    PROVE  /\ Review(e, s).scope = e.scope /\ Review(e, s).pair = e.pair
           /\ Expires(e, s) => ~IsOpen(Review(e, s))
<1>1. \A reason : LET c == Close(e, s, reason)
                  IN  c.scope = e.scope /\ c.pair = e.pair /\ c.closeReason = reason
  BY DEF Close, Event
<1>2. LET c == Confirm(e, s) IN c.scope = e.scope /\ c.pair = e.pair
  BY DEF Confirm, Event
<1>3. LET c == Miss(e, s) IN c.scope = e.scope /\ c.pair = e.pair
  BY DEF Miss, Close, Event
<1>4. Review(e, s) \in {Close(e, s, "expired"), Close(e, s, "identity_changed"), Close(e, s, "separated"),
                        e, Confirm(e, s), Miss(e, s)}
  BY DEF Review
<1>5. Expires(e, s) => Review(e, s) = Close(e, s, "expired")
  BY DEF Review
<1>6. Review(e, s).scope = e.scope /\ Review(e, s).pair = e.pair
  BY <1>1, <1>2, <1>3, <1>4
<1>q. QED
  BY <1>1, <1>5, <1>6 DEF IsOpen

\* Where the encounters after a capture would not fit the index, one was open
\* under another identifier of a geometry that the catalogue has.
LEMMA RefusalMeansRename ==
    ASSUME StoreInv, events \subseteq Event, NEW received \in 1..MaximumTime, NEW batch \in Batches,
           Accepts(received, batch),
           ~UniqueOpen(AdvancedEvents(received, batch, raw \cup NewRows(received, batch)))
    PROVE  \E e \in events : IsOpen(e) /\ \E b \in DOMAIN catalogue :
              catalogue[b] # e.scope /\ VersionOf[catalogue[b]] = VersionOf[e.scope]
<1> DEFINE positions == SnapshotPositions(received, batch)
           metres == SnapshotMetres(raw \cup NewRows(received, batch), positions)
           s == Snapshot(events, received, FALSE, HasNewPositions(batch), positions, metres)
           open == {e \in events : IsOpen(e)}
           after == Advance(events, s)
           measured == MeasuredPairs(events, positions, metres)
           Old(x) == \E e \in open : x = Review(e, s)
           New(x) == \E k \in DOMAIN s.distances : Opens(k, open, s) /\ x = NewEvent(k, s)
<1>1. after = AdvancedEvents(received, batch, raw \cup NewRows(received, batch))
  BY DEF AdvancedEvents
<1>2. PICK x, y \in after : IsOpen(x) /\ IsOpen(y) /\ Version(x) = Version(y) /\ x # y
  BY <1>1 DEF UniqueOpen
<1>3. after = (events \ open) \cup {Review(e, s) : e \in open} \cup Opened(open, s)
  BY DEF Advance, Snapshot
<1>4. \A z \in after : IsOpen(z) => Old(z) \/ New(z)
  BY <1>3 DEF Opened
<1>5. DOMAIN s.distances = {<<positions[p[1]].scope, p>> : p \in measured}
  BY DEF Snapshot
<1>6. \A k \in DOMAIN s.distances :
         /\ k = <<k[1], k[2]>>
         /\ k[2][1] \in DOMAIN positions /\ k[1] = positions[k[2][1]].scope
  <2>1. \A p \in measured : p[1] \in DOMAIN positions
    BY DEF MeasuredPairs
  <2> HIDE DEF measured, positions, s
  <2>q. QED
    BY <1>5, <2>1
<1>7. \A v \in DOMAIN positions : \E b \in DOMAIN catalogue : positions[v].scope = catalogue[b]
  <2>1. \A v \in DOMAIN positions : \E p \in LatestOf(Admitted(received, batch)) :
           /\ p.branch \in DOMAIN catalogue
           /\ positions[v] = [observedAt |-> p.at, scope |-> catalogue[p.branch]]
    BY SnapshotFacts
  <2> HIDE DEF positions
  <2>q. QED
    BY <2>1
<1>8. \A e \in open : e \in Event /\ e \in events /\ IsOpen(e)
  OBVIOUS
<1> HIDE DEF s, open, after, measured, positions, metres
<1>9. \A k : NewEvent(k, s).scope = k[1] /\ NewEvent(k, s).pair = k[2]
  BY DEF NewEvent
<1>10. ~(Old(x) /\ Old(y))
  <2> SUFFICES ASSUME Old(x), Old(y) PROVE FALSE
    OBVIOUS
  <2>1. PICK e \in open : x = Review(e, s)
    OBVIOUS
  <2>2. PICK f \in open : y = Review(f, s)
    OBVIOUS
  <2>3. Version(e) = Version(f)
    BY <1>2, <1>8, <2>1, <2>2, ReviewedRow DEF Version
  <2>4. e = f
    BY <1>8, <2>3 DEF StoreInv, UniqueOpen
  <2>q. QED
    BY <1>2, <2>1, <2>2, <2>4
<1>11. ~(New(x) /\ New(y))
  <2> SUFFICES ASSUME New(x), New(y) PROVE FALSE
    OBVIOUS
  <2>1. PICK k \in DOMAIN s.distances : x = NewEvent(k, s)
    OBVIOUS
  <2>2. PICK l \in DOMAIN s.distances : y = NewEvent(l, s)
    OBVIOUS
  <2>3. k[2] = l[2]
    BY <1>2, <1>9, <2>1, <2>2 DEF Version
  <2>4. k = l
    BY <1>6, <2>3
  <2>q. QED
    BY <1>2, <2>1, <2>2, <2>4
<1>12. ASSUME NEW n, NEW o, New(n), Old(o), IsOpen(o), Version(n) = Version(o)
       PROVE  \E e \in events : IsOpen(e) /\ \E b \in DOMAIN catalogue :
                 catalogue[b] # e.scope /\ VersionOf[catalogue[b]] = VersionOf[e.scope]
  <2>1. PICK k \in DOMAIN s.distances : Opens(k, open, s) /\ n = NewEvent(k, s)
    BY <1>12
  <2>2. PICK e \in open : o = Review(e, s)
    BY <1>12
  <2>3. /\ o.scope = e.scope /\ o.pair = e.pair /\ ~Expires(e, s)
    BY <1>8, <1>12, <2>2, ReviewedRow
  <2>4. VersionOf[k[1]] = VersionOf[e.scope] /\ k[2] = e.pair
    BY <1>9, <1>12, <2>1, <2>3 DEF Version
  <2>5. Key(e) # k
    BY <2>1, <2>3 DEF Opens, Blocked
  <2>6. k[1] # e.scope
    BY <1>6, <2>4, <2>5 DEF Key
  <2>7. PICK b \in DOMAIN catalogue : k[1] = catalogue[b]
    BY <1>6, <1>7
  <2>q. QED
    BY <1>8, <2>4, <2>6, <2>7
<1>q. QED
  BY <1>2, <1>4, <1>10, <1>11, <1>12

\* The unique index refuses a capture for a renamed geometry only: every other
\* capture fits it, whatever closes and opens in it.
THEOREM RefusalsAreRenames == Spec => RefusedForRenamesOnly
<1>1. TypeOK /\ StoreInv /\ [Next]_vars =>
         [nextCapture' # nextCapture /\ refused' =>
            \E e \in events : IsOpen(e) /\ \E b \in DOMAIN catalogue :
                catalogue[b] # e.scope /\ VersionOf[catalogue[b]] = VersionOf[e.scope]]_vars
  <2> SUFFICES ASSUME TypeOK, StoreInv, Next, nextCapture' # nextCapture, refused'
               PROVE  \E e \in events : IsOpen(e) /\ \E b \in DOMAIN catalogue :
                         catalogue[b] # e.scope /\ VersionOf[catalogue[b]] = VersionOf[e.scope]
    OBVIOUS
  <2>1. PICK received \in 1..MaximumTime, batch \in Batches : StoreRefused(received, batch)
    BY DEF Next, StoreLate, StorePartial, StoreComplete, Store, StoreFails, ReloadCatalogue
  <2>2. /\ Accepts(received, batch)
        /\ ~UniqueOpen(AdvancedEvents(received, batch, raw \cup NewRows(received, batch)))
    BY <2>1 DEF StoreRefused
  <2>3. events \subseteq Event
    BY DEF TypeOK
  <2>q. QED
    BY <2>2, <2>3, RefusalMeansRename
<1>q. QED
  BY <1>1, TypeCorrect, Invariance, PTL DEF Spec, RefusedForRenamesOnly

-----------------------------------------------------------------------------
(* Repeated answers.                                                       *)

\* A position of the last complete answer that its review could see.
Seen(d, x, v) ==
    /\ x \in d.fingerprint /\ x.vehicle = v
    /\ x.branch \in DOMAIN catalogue
    /\ x.at \div DayLength >= Cutoff(d.receivedAt)
    /\ Fresh(d.receivedAt, x.at)

\* The last complete answer has nothing left to say to the open encounters: none
\* of them is behind both of its positions.
Settled ==
    \A d \in Reviewed : d.receivedAt = LastReceived(Reviewed) =>
        /\ \A x \in d.fingerprint : x.at <= d.receivedAt + StorageSkew
        /\ \A e \in events : IsOpen(e) =>
              ~\E a, b \in d.fingerprint :
                  /\ Seen(d, a, e.pair[1]) /\ Seen(d, b, e.pair[2])
                  /\ a.at > e.observedA /\ b.at > e.observedB

\* Reloads rename and redraw, but map the branches they mapped.
SameBranches == \A c, d \in CatalogueStates : DOMAIN c = DOMAIN d

\* A later instant is not on an earlier day.
LEMMA DayGrows ==
    ASSUME NEW s \in Nat, NEW t \in Nat, s <= t
    PROVE  s \div DayLength \in Nat /\ t \div DayLength \in Nat /\ s \div DayLength <= t \div DayLength
BY BoundAssumption

\* The newest admitted position of a vehicle is its newest one, and conversely.
LEMMA LatestAdmitted ==
    ASSUME NEW received \in Nat, NEW batch \in Batches
    PROVE  LatestOf(Admitted(received, batch)) =
              {p \in LatestOf(batch) : p.at \div DayLength >= Cutoff(received)}
<1>1. \A p \in batch : p.at \in Nat
  BY BatchesAssumption DEF Position
<1>2. Cutoff(received) \in Int
  <2>1. received \div DayLength \in Nat
    BY DayGrows
  <2>q. QED
    BY <2>1, BoundAssumption DEF Cutoff
<1>3. ASSUME NEW p \in batch, NEW q \in batch, p.at \div DayLength >= Cutoff(received),
             ~(q.at \div DayLength >= Cutoff(received))
      PROVE  q.at <= p.at
  <2>1. /\ p.at \in Nat /\ q.at \in Nat /\ p.at \div DayLength \in Nat /\ q.at \div DayLength \in Nat
        /\ p.at <= q.at => p.at \div DayLength <= q.at \div DayLength
    BY <1>1, DayGrows
  <2>q. QED
    BY <1>2, <1>3, <2>1
<1>q. QED
  BY <1>1, <1>3 DEF LatestOf, Admitted

\* A review that keeps an encounter open leaves it with no position to take.
LEMMA ReviewSettles ==
    ASSUME NEW e \in events, e \in Event, IsOpen(e), NEW received, NEW new, NEW positions, NEW metres,
           NEW s, s = Snapshot(events, received, FALSE, new, positions, metres),
           e.pair[1] \in DOMAIN positions, e.pair[2] \in DOMAIN positions,
           Fresh(received, positions[e.pair[1]].observedAt), positions[e.pair[1]].observedAt \in Int,
           Fresh(received, positions[e.pair[2]].observedAt), positions[e.pair[2]].observedAt \in Int,
           IsOpen(Review(e, s))
    PROVE  ~(/\ positions[e.pair[1]].observedAt > Review(e, s).observedA
             /\ positions[e.pair[2]].observedAt > Review(e, s).observedB)
<1> DEFINE a == positions[e.pair[1]]
           b == positions[e.pair[2]]
           newer == a.observedAt > e.observedA /\ b.observedAt > e.observedB
<1>1. s.receivedAt = received /\ s.positions = positions
      /\ DOMAIN s.distances = {<<positions[p[1]].scope, p>> : p \in MeasuredPairs(events, positions, metres)}
  BY DEF Snapshot
<1>2. Present(s, e.pair[1]) /\ Present(s, e.pair[2])
  BY <1>1 DEF Present
<1>3. \A reason \in Reasons : ~IsOpen(Close(e, s, reason))
  BY DEF Close, Event, IsOpen, Reasons
<1>4. ~Expires(e, s)
  BY ReviewedRow
<1>5. CASE newer
  <2>1. ~ChangesIdentity(e, s)
    BY <1>3, <1>4 DEF Review, Reasons
  <2>2. a.scope = e.scope /\ b.scope = e.scope
    BY <1>1, <1>2, <1>5, <2>1 DEF ChangesIdentity, Leaves
  <2>3. Same(s, e.pair[1], e.scope) /\ Same(s, e.pair[2], e.scope) /\ Advances(e, s)
    BY <1>1, <1>2, <1>5, <2>2 DEF Same, Advances
  <2>4. e.pair \in MeasuredPairs(events, positions, metres)
    BY <2>2 DEF MeasuredPairs, Version, Event
  <2>5. <<e.scope, e.pair>> \in DOMAIN s.distances
    BY <1>1, <2>2, <2>4
  <2>6. Measured(e, s)
    BY <2>3, <2>5 DEF Measured, Key
  <2>7. Review(e, s) \in {Close(e, s, "separated"), Confirm(e, s)}
    BY <1>4, <2>1, <2>3, <2>6 DEF Review
  <2>8. Review(e, s) = Confirm(e, s)
    BY <1>3, <2>7 DEF Reasons
  <2>9. Confirm(e, s).observedA = s.positions[e.pair[1]].observedAt
    BY DEF Confirm, Event
  <2>10. Review(e, s).observedA = a.observedAt /\ a.observedAt \in Int
    BY <1>1, <2>8, <2>9
  <2>11. \A x, y \in Int : x = y => ~(x > y)
    OBVIOUS
  <2>12. ~(a.observedAt > Review(e, s).observedA)
    BY <2>10, <2>11
  <2>q. QED
    BY <2>12
<1>6. CASE ~newer
  <2>1. ~Advances(e, s)
    BY <1>1, <1>6 DEF Advances
  <2>2. Review(e, s) \in {e, Miss(e, s)}
    BY <1>3, <1>4, <2>1 DEF Review, Reasons
  <2>3. Miss(e, s).observedA = e.observedA /\ Miss(e, s).observedB = e.observedB
    BY DEF Miss, Close, Event
  <2>q. QED
    BY <1>6, <2>2, <2>3
<1>q. QED
  BY <1>5, <1>6

\* The newest position of a vehicle, if it is admitted, mapped and fresh, is the
\* one its snapshot holds, and the other way round.
LEMMA SnapshotIsLatest ==
    ASSUME StoreInv, NEW received \in 1..MaximumTime, NEW batch \in Batches, Accepts(received, batch),
           NEW positions, positions = SnapshotPositions(received, batch)
    PROVE  /\ \A p \in LatestOf(batch) :
                 /\ p.branch \in DOMAIN catalogue /\ p.at \div DayLength >= Cutoff(received) /\ Fresh(received, p.at)
                 => p.vehicle \in DOMAIN positions /\ positions[p.vehicle].observedAt = p.at
           /\ \A v \in DOMAIN positions : \E p \in LatestOf(batch) :
                 /\ p.vehicle = v /\ positions[v].observedAt = p.at
                 /\ p.branch \in DOMAIN catalogue /\ p.at \div DayLength >= Cutoff(received)
                 /\ Fresh(received, p.at)
           /\ \A v \in DOMAIN positions : /\ positions[v].observedAt \in Nat
                                          /\ Fresh(received, positions[v].observedAt)
<1>1. received \in Nat
  BY BoundAssumption
<1>2. LatestOf(Admitted(received, batch)) = {p \in LatestOf(batch) : p.at \div DayLength >= Cutoff(received)}
  BY <1>1, LatestAdmitted
<1>r. PICK rows : rows = raw \cup NewRows(received, batch)
  OBVIOUS
<1>3. \A v \in DOMAIN positions : \E p \in LatestOf(Admitted(received, batch)) :
         /\ p.vehicle = v /\ p.branch \in DOMAIN catalogue /\ Fresh(received, p.at)
         /\ positions[v] = [observedAt |-> p.at, scope |-> catalogue[p.branch]]
  BY <1>r, SnapshotFacts
<1>4. \A p \in LatestOf(Admitted(received, batch)) :
         p.branch \in DOMAIN catalogue /\ Fresh(received, p.at) => p.vehicle \in DOMAIN positions
  BY <1>r, SnapshotFacts
<1>5. \A v \in DOMAIN positions : \E p \in LatestOf(batch) :
         /\ p.vehicle = v /\ positions[v].observedAt = p.at
         /\ p.branch \in DOMAIN catalogue /\ p.at \div DayLength >= Cutoff(received)
         /\ Fresh(received, p.at)
  BY <1>2, <1>3
<1>6. \A p \in LatestOf(batch) : p.at \in Nat /\ \A q \in LatestOf(batch) : p.vehicle = q.vehicle => p.at = q.at
  BY BatchesAssumption DEF LatestOf, Position
<1>7. ASSUME NEW p \in LatestOf(batch), p.branch \in DOMAIN catalogue,
             p.at \div DayLength >= Cutoff(received), Fresh(received, p.at)
      PROVE  p.vehicle \in DOMAIN positions /\ positions[p.vehicle].observedAt = p.at
  <2>1. p.vehicle \in DOMAIN positions
    BY <1>2, <1>4, <1>7
  <2>q. QED
    BY <1>5, <1>6, <2>1
<1>8. \A v \in DOMAIN positions : positions[v].observedAt \in Nat /\ Fresh(received, positions[v].observedAt)
  BY <1>5, <1>6
<1>q. QED
  BY <1>5, <1>7, <1>8

\* After a complete capture the open encounters have taken what it said.
LEMMA CompleteSettles ==
    ASSUME StoreInv, events \subseteq Event, NEW received \in 1..MaximumTime, NEW batch \in Batches,
           StoreComplete(received, batch)
    PROVE  Settled'
<1> DEFINE c == Capture(received, batch, FALSE, TRUE)
           positions == SnapshotPositions(received, batch)
           metres == SnapshotMetres(raw', positions)
           s == Snapshot(events, received, FALSE, HasNewPositions(batch), positions, metres)
           open == {e \in events : IsOpen(e)}
<1>1. /\ Accepts(received, batch) /\ Store(received, batch, FALSE, TRUE) /\ catalogue' = catalogue
      /\ received > LastReceived(Analysed)
      /\ events' = Advance(events, s)
  BY DEF StoreComplete, Store, AdvancedEvents
<1>2. c.fingerprint = Fingerprint(batch) /\ c.receivedAt = received
  BY DEF Capture
<1>3. \A d \in Reviewed' : d.receivedAt = LastReceived(Reviewed)' => d = c
  BY <1>1, ClockAfter
<1>4. \A x \in Fingerprint(batch) : \E p \in LatestOf(batch) :
         x.vehicle = p.vehicle /\ x.at = p.at /\ x.branch = p.branch
  BY DEF Fingerprint
<1>5. \A x \in Fingerprint(batch) : x.at <= received + StorageSkew
  BY <1>1, <1>4 DEF Accepts, LatestOf
<1>6. events' = (events \ open) \cup {Review(e, s) : e \in open} \cup Opened(open, s)
  BY <1>1 DEF Advance, Snapshot
<1>7. DOMAIN s.distances = {<<positions[p[1]].scope, p>> : p \in MeasuredPairs(events, positions, metres)}
      /\ s.positions = positions
  BY DEF Snapshot
<1>8. ASSUME NEW x \in Fingerprint(batch), NEW v, Seen(c, x, v)
      PROVE  /\ v \in DOMAIN positions /\ positions[v].observedAt = x.at
             /\ positions[v].observedAt \in Int /\ Fresh(received, positions[v].observedAt)
  <2>1. PICK p \in LatestOf(batch) : x.vehicle = p.vehicle /\ x.at = p.at /\ x.branch = p.branch
    BY <1>4
  <2>2. /\ p.branch \in DOMAIN catalogue /\ p.at \div DayLength >= Cutoff(received) /\ Fresh(received, p.at)
        /\ p.vehicle = v
    BY <1>2, <1>8, <2>1 DEF Seen
  <2>q. QED
    BY <1>1, <2>1, <2>2, SnapshotIsLatest
<1> HIDE DEF c, positions, metres
<1>9. ASSUME NEW f \in events', IsOpen(f), NEW a \in Fingerprint(batch), NEW b \in Fingerprint(batch),
             Seen(c, a, f.pair[1]), Seen(c, b, f.pair[2]), a.at > f.observedA, b.at > f.observedB
      PROVE  FALSE
  <2>1. /\ f.pair[1] \in DOMAIN positions /\ f.pair[2] \in DOMAIN positions
        /\ positions[f.pair[1]].observedAt = a.at /\ positions[f.pair[2]].observedAt = b.at
        /\ positions[f.pair[1]].observedAt \in Int /\ Fresh(received, positions[f.pair[1]].observedAt)
        /\ positions[f.pair[2]].observedAt \in Int /\ Fresh(received, positions[f.pair[2]].observedAt)
    BY <1>8, <1>9
  <2>2. CASE f \in {Review(e, s) : e \in open}
    <3>1. PICK e \in open : f = Review(e, s)
      BY <2>2
    <3>2. e \in events /\ e \in Event /\ IsOpen(e)
      OBVIOUS
    <3>3. f.pair = e.pair
      BY <3>1, <3>2, ReviewedRow
    <3> HIDE DEF open
    <3>4. ~(/\ positions[e.pair[1]].observedAt > Review(e, s).observedA
            /\ positions[e.pair[2]].observedAt > Review(e, s).observedB)
      BY <1>9, <2>1, <3>1, <3>2, <3>3, ReviewSettles
    <3>q. QED
      BY <1>9, <2>1, <3>1, <3>3, <3>4
  <2>3. CASE f \in Opened(open, s)
    <3>1. PICK k \in DOMAIN s.distances : f = NewEvent(k, s)
      BY <2>3 DEF Opened
    <3>2. f.pair = k[2] /\ f.observedA = positions[k[2][1]].observedAt
      BY <1>7, <3>1 DEF NewEvent
    <3>3. \A x, y \in Int : x = y => ~(x > y)
      OBVIOUS
    <3>q. QED
      BY <1>9, <2>1, <3>2, <3>3
  <2>q. QED
    BY <1>6, <1>9, <2>2, <2>3
<1>10. ASSUME NEW d \in Reviewed', d.receivedAt = LastReceived(Reviewed)'
       PROVE  /\ \A x \in d.fingerprint : x.at <= d.receivedAt + StorageSkew
              /\ \A e \in events' : IsOpen(e) =>
                    ~\E a, b \in d.fingerprint :
                        /\ Seen(d, a, e.pair[1])' /\ Seen(d, b, e.pair[2])'
                        /\ a.at > e.observedA /\ b.at > e.observedB
  <2>1. d = c
    BY <1>3, <1>10
  <2>2. \A x, v : Seen(d, x, v)' <=> Seen(d, x, v)
    BY <1>1 DEF Seen, Cutoff, Fresh
  <2>q. QED
    BY <1>2, <1>5, <1>9, <2>1, <2>2
<1>q. QED
  BY <1>10 DEF Settled

\* Only a complete capture changes what the open encounters are compared with.
LEMMA SettledKept ==
    ASSUME SameBranches, StoreInv, TypeOK, Settled, [Next]_vars
    PROVE  Settled'
<1>1. ASSUME UNCHANGED events, UNCHANGED Reviewed, catalogue' \in CatalogueStates
      PROVE  Settled'
  <2>1. LastReceived(Reviewed)' = LastReceived(Reviewed)
    BY <1>1 DEF LastReceived
  <2>2. DOMAIN catalogue' = DOMAIN catalogue
    BY <1>1 DEF SameBranches, StoreInv, StoreTypeOK
  <2>3. ASSUME NEW d, NEW x, NEW v PROVE Seen(d, x, v)' <=> Seen(d, x, v)
    BY <2>2 DEF Seen, Cutoff, Fresh
  <2>q. QED
    BY <1>1, <2>1, <2>3 DEF Settled
<1>2. catalogue \in CatalogueStates
  BY DEF StoreInv, StoreTypeOK
<1>3. ASSUME NEW received, NEW batch, NEW partial, NEW analysed,
             Store(received, batch, partial, analysed), ~analysed \/ partial
      PROVE  UNCHANGED Reviewed /\ catalogue' = catalogue
  BY <1>3 DEF Store, Capture, Reviewed, Analysed
<1>4. ASSUME NEW received, NEW batch, NEW partial \in BOOLEAN, StoreLate(received, batch, partial)
      PROVE  Settled'
  <2>1. Store(received, batch, partial, FALSE) /\ events' = events
    BY <1>4 DEF StoreLate
  <2>q. QED
    BY <1>1, <1>2, <1>3, <2>1
<1>5. ASSUME NEW received, NEW batch, StorePartial(received, batch)
      PROVE  Settled'
  <2>1. Store(received, batch, TRUE, TRUE) /\ events' = events
    BY <1>5 DEF StorePartial
  <2>q. QED
    BY <1>1, <1>2, <1>3, <2>1
<1>6. ASSUME NEW received \in 1..MaximumTime, NEW batch \in Batches, StoreComplete(received, batch)
      PROVE  Settled'
  BY <1>6, CompleteSettles DEF TypeOK
<1>7. ASSUME UNCHANGED <<captures, events>>, catalogue' \in CatalogueStates
      PROVE  Settled'
  <2>1. UNCHANGED Reviewed
    BY <1>7 DEF Reviewed, Analysed
  <2>q. QED
    BY <1>1, <1>7, <2>1
<1>8. ASSUME NEW received, NEW batch, StoreRefused(received, batch) PROVE Settled'
  BY <1>2, <1>7, <1>8 DEF StoreRefused
<1>9. CASE StoreFails \/ ReloadCatalogue \/ UNCHANGED vars
  BY <1>2, <1>7, <1>9 DEF StoreFails, ReloadCatalogue, vars
<1>q. QED
  BY <1>4, <1>5, <1>6, <1>8, <1>9 DEF Next

\* A position of a repeated answer that its review sees, the review of the
\* answer before saw too: it was admitted then, mapped, and fresh.
LEMMA SeenBefore ==
    ASSUME SameBranches, StorageSkew <= MaximumFutureSkew, StoreInv, TypeOK, Settled,
           NEW received \in 1..MaximumTime, NEW batch \in Batches, Accepts(received, batch),
           NEW d \in Reviewed, d.receivedAt = LastReceived(Reviewed), d.fingerprint = Fingerprint(batch),
           received > LastReceived(Analysed),
           NEW positions, positions = SnapshotPositions(received, batch),
           NEW v \in DOMAIN positions
    PROVE  \E x \in d.fingerprint : Seen(d, x, v) /\ x.at = positions[v].observedAt
<1>1. PICK p \in LatestOf(batch) :
         /\ p.vehicle = v /\ positions[v].observedAt = p.at
         /\ p.branch \in DOMAIN catalogue /\ p.at \div DayLength >= Cutoff(received)
         /\ Fresh(received, p.at)
  BY SnapshotIsLatest
<1> DEFINE x == [vehicle |-> p.vehicle, at |-> p.at, branch |-> p.branch]
<1>2. x \in d.fingerprint
  BY DEF Fingerprint
<1>3. /\ d.receivedAt \in Nat /\ received \in Nat /\ d.receivedAt < received
      /\ p.at \in Nat /\ MaximumAge \in Nat /\ MaximumFutureSkew \in Nat /\ StorageSkew \in Nat
  BY BoundAssumption, PolicyAssumption, BatchesAssumption, ReviewsFollow DEF LatestOf, Position
<1>4. x.at = p.at /\ x.vehicle = v /\ x.branch = p.branch
  BY <1>1
<1> HIDE DEF x
<1>5. p.at <= d.receivedAt + StorageSkew
  BY <1>2, <1>4 DEF Settled
<1>6. Fresh(d.receivedAt, x.at)
  BY <1>1, <1>3, <1>4, <1>5 DEF Fresh
<1>7. x.at \div DayLength >= Cutoff(d.receivedAt)
  <2>1. /\ d.receivedAt \div DayLength \in Nat /\ received \div DayLength \in Nat
        /\ d.receivedAt \div DayLength <= received \div DayLength
    BY <1>3, DayGrows
  <2>2. x.at \div DayLength \in Nat
    BY <1>3, <1>4, DayGrows
  <2>3. Cutoff(d.receivedAt) <= Cutoff(received) /\ Cutoff(received) \in Int /\ Cutoff(d.receivedAt) \in Int
    BY <2>1, BoundAssumption DEF Cutoff
  <2>q. QED
    BY <1>1, <1>4, <2>2, <2>3
<1>q. QED
  BY <1>1, <1>2, <1>4, <1>6, <1>7 DEF Seen

\* What a repeated answer leaves of the encounters.
LEMMA RepeatedKeeps ==
    ASSUME SameBranches, StorageSkew <= MaximumFutureSkew, StoreInv, TypeOK, Settled,
           NEW received \in 1..MaximumTime, NEW batch \in Batches, StoreComplete(received, batch),
           NEW d \in Reviewed, d.receivedAt = LastReceived(Reviewed), d.fingerprint = Fingerprint(batch),
           NEW f \in events'
    PROVE  \E e \in events :
              /\ [f EXCEPT !.closedAt = 0, !.closeReason = "open"] = [e EXCEPT !.closedAt = 0, !.closeReason = "open"]
              /\ f = e \/ f.closeReason \in {"expired", "identity_changed"}
<1> DEFINE positions == SnapshotPositions(received, batch)
           metres == SnapshotMetres(raw', positions)
           s == Snapshot(events, received, FALSE, HasNewPositions(batch), positions, metres)
           open == {e \in events : IsOpen(e)}
<1>1. Accepts(received, batch) /\ received > LastReceived(Analysed) /\ events' = Advance(events, s)
  BY DEF StoreComplete, AdvancedEvents
<1>2. events' = (events \ open) \cup {Review(e, s) : e \in open} \cup Opened(open, s)
  BY <1>1 DEF Advance, Snapshot
<1>3. ~HasNewPositions(batch)
  BY DEF HasNewPositions
<1>4. s.positions = positions /\ s.receivedAt = received /\ s.hasNewPositions = FALSE
  BY <1>3 DEF Snapshot
<1>5. Opened(open, s) = {}
  BY <1>4 DEF Opened, Opens
<1> HIDE DEF s, metres
<1>6. CASE f \in events \ open
  BY <1>6
<1>7. CASE f \in {Review(e, s) : e \in open}
  <2>1. PICK e \in open : f = Review(e, s)
    BY <1>7
  <2>2. e \in events /\ e \in Event /\ IsOpen(e)
    BY DEF TypeOK
  <2>3. ~Advances(e, s)
    <3> SUFFICES ASSUME Advances(e, s) PROVE FALSE
      OBVIOUS
    <3>1. /\ e.pair[1] \in DOMAIN positions /\ e.pair[2] \in DOMAIN positions
          /\ positions[e.pair[1]].observedAt > e.observedA
          /\ positions[e.pair[2]].observedAt > e.observedB
      BY <1>4 DEF Advances, Same, Present
    <3>2. PICK a \in d.fingerprint : Seen(d, a, e.pair[1]) /\ a.at = positions[e.pair[1]].observedAt
      BY <1>1, <3>1, SeenBefore
    <3>3. PICK b \in d.fingerprint : Seen(d, b, e.pair[2]) /\ b.at = positions[e.pair[2]].observedAt
      BY <1>1, <3>1, SeenBefore
    <3> HIDE DEF positions
    <3>q. QED
      BY <2>2, <3>1, <3>2, <3>3 DEF Settled
  <2>4. f \in {Close(e, s, "expired"), Close(e, s, "identity_changed"), e}
    BY <1>4, <2>1, <2>3 DEF Review
  <2>5. \A reason : /\ [Close(e, s, reason) EXCEPT !.closedAt = 0, !.closeReason = "open"] =
                         [e EXCEPT !.closedAt = 0, !.closeReason = "open"]
                    /\ Close(e, s, reason).closeReason = reason
    BY <2>2 DEF Close, Event
  <2>q. QED
    BY <2>2, <2>4, <2>5
<1>q. QED
  BY <1>2, <1>5, <1>6, <1>7

\* "Respuestas repetidas no suman muestras ni duracion ni confirmacion": where
\* reloads map the branches they mapped, and the storage admits no clock that
\* the review does not, a repeated answer only closes encounters.
THEOREM RepeatedAnswersAddNothing ==
    ASSUME SameBranches, StorageSkew <= MaximumFutureSkew
    PROVE  Spec => RepeatedAnswerAddsNothing
<1>1. Init => Settled
  BY DEF Init, Settled, Reviewed, Analysed
<1>2. StoreInv /\ TypeOK /\ Settled /\ [Next]_vars => Settled'
  BY SettledKept
<1>3. StoreInv /\ TypeOK /\ Settled /\ [Next]_vars =>
        [\A c \in captures' \ captures :
           /\ c.analysed /\ ~c.partial
           /\ \E d \in Reviewed : d.receivedAt = LastReceived(Reviewed) /\ d.fingerprint = c.fingerprint
           => \A f \in events' : \E e \in events :
                 /\ [f EXCEPT !.closedAt = 0, !.closeReason = "open"] = [e EXCEPT !.closedAt = 0, !.closeReason = "open"]
                 /\ f = e \/ f.closeReason \in {"expired", "identity_changed"}]_vars
  <2> SUFFICES ASSUME StoreInv, TypeOK, Settled, Next,
                      NEW c \in captures' \ captures, c.analysed, ~c.partial,
                      NEW d \in Reviewed, d.receivedAt = LastReceived(Reviewed), d.fingerprint = c.fingerprint,
                      NEW f \in events'
               PROVE  \E e \in events :
                 /\ [f EXCEPT !.closedAt = 0, !.closeReason = "open"] = [e EXCEPT !.closedAt = 0, !.closeReason = "open"]
                 /\ f = e \/ f.closeReason \in {"expired", "identity_changed"}
    OBVIOUS
  <2>1. \A received, batch, partial, analysed :
           Store(received, batch, partial, analysed) => c = Capture(received, batch, partial, analysed)
    BY DEF Store
  <2>2. \A received, batch, partial, analysed :
           Store(received, batch, partial, analysed) => analysed /\ ~partial
    BY <2>1 DEF Capture
  <2>3. PICK received \in 1..MaximumTime, batch \in Batches : StoreComplete(received, batch)
    BY <2>2 DEF Next, StoreLate, StorePartial, StoreRefused, StoreFails, ReloadCatalogue
  <2>4. d.fingerprint = Fingerprint(batch)
    <3>1. Store(received, batch, FALSE, TRUE)
      BY <2>3 DEF StoreComplete
    <3>2. c = Capture(received, batch, FALSE, TRUE)
      BY <2>1, <3>1
    <3>q. QED
      BY <3>2 DEF Capture
  <2>q. QED
    BY <2>3, <2>4, RepeatedKeeps
<1>q. QED
  BY <1>1, <1>2, <1>3, Invariance, TypeCorrect, PTL DEF Spec, RepeatedAnswerAddsNothing
=============================================================================
