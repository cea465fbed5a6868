----------------------- MODULE BottlenecksStoreProofs -----------------------
(***************************************************************************)
(* Proofs about the stored captures and the producer that consumes them,   *)
(* for any vehicles, deliveries, retentions and clock steps.               *)
(***************************************************************************)
EXTENDS BottlenecksStore, FiniteSetTheorems, WellFoundedInduction, TLAPS

\* The captures and the rows that the ingestion stored: a capture counts the
\* rows it brought, raw has one row per vehicle and timestamp, and has lost
\* nothing but what expired.
SourceKept ==
    /\ IsFiniteSet(arrived)
    /\ \A r \in arrived : r.capture < nextCapture /\ r.at <= MaximumTime + StorageSkew
    /\ \A c \in captures :
          /\ c.id < nextCapture
          /\ c.inserted = Cardinality({r \in arrived : r.capture = c.id})
    /\ \A c, d \in captures : c.id = d.id => c = d
    /\ \A r, q \in raw : r.vehicle = q.vehicle /\ r.at = q.at => r = q
    /\ \A r \in arrived \ raw : Expired(r.at, RetentionDays)
    /\ \A r \in raw : \E c \in captures : c.id = r.capture

\* The checkpoint, the captures since the activation and those processed.
RunKept ==
    /\ run.activation <= run.checkpoint /\ run.checkpoint < nextCapture
    /\ run.checkpoint = run.activation <=> run.lastReceived = 0
    /\ DOMAIN states # {} => run.checkpoint # run.activation
    /\ ~run.active => /\ phase = "inactive" /\ DOMAIN states = {}
                      /\ ids = {} /\ consumed = {} /\ run.checkpoint = 0
    /\ \A k \in ids : run.activation < k
    /\ \A c \in captures : run.active /\ c.id > run.activation => c.id \in ids
    /\ IsFiniteSet(consumed)
    /\ \A c \in consumed : c.id \in ids /\ c.id <= run.checkpoint

Since(r) == {c \in consumed : c.id > r.capture /\ ~c.partial}

\* The rows of a vehicle that were processed and that no closure has taken.
Waiting(s, v) == {r \in Processed(v) : r.at > s.closedThrough}

\* The state of a vehicle: its descriptor is the one of its evidence, rows that
\* wait; the newest of them is the last seen, and the absences are the complete
\* captures processed since.
Sound(s, v) ==
    LET rows == s.open.evidence
    IN  /\ s.latestSeen \in Nat /\ s.closedThrough \in Nat /\ s.closedThrough <= s.latestSeen
        /\ rows \subseteq Waiting(s, v)
        /\ s.open = Accumulate(NoSequence, rows)
        /\ rows = {} => /\ s.closedThrough = s.latestSeen
                        /\ s.missing = IF s.latestSeen = 0 THEN 0 ELSE MissingCaptureLimit
        /\ rows # {} => /\ s.missing \in 0..(MissingCaptureLimit - 1)
                        /\ \A r \in rows : r.at <= s.latestSeen
                        /\ \E r \in rows : r.at = s.latestSeen /\ s.missing = Cardinality(Since(r))

StatesKept ==
    \A v \in DOMAIN states :
        /\ states[v].lastCapture = run.checkpoint
        /\ states[v].lastReceived = run.lastReceived
        /\ Sound(states[v], v)

\* What was published is not later than the closure.
PublishedKept ==
    \A v \in Vehicles : \A s \in published[v] : \A r \in s : r.at <= StateOf(v).closedThrough

IInv == TypeOK /\ SourceKept /\ RunKept /\ StatesKept /\ PublishedKept

-----------------------------------------------------------------------------
(* Days, and the bounds of sets of numbers.                                *)

\* A later instant is not on an earlier day.
LEMMA DayGrows ==
    ASSUME NEW s \in Nat, NEW t \in Nat, s <= t
    PROVE  Day(s) \in Nat /\ Day(t) \in Nat /\ Day(s) <= Day(t)
BY RetentionAssumption DEF Day

\* What is older than an expired instant expired too, under a shorter retention.
LEMMA OlderExpired ==
    ASSUME NEW s \in Nat, NEW t \in Nat, s <= t, clock \in Nat, Expired(t, RetentionDays)
    PROVE  Expired(s, RawRetentionDays)
<1>1. Day(s) \in Nat /\ Day(t) \in Nat /\ Day(s) <= Day(t) /\ Day(clock) \in Nat
  BY DayGrows
<1>2. RetentionDays \in Nat /\ RawRetentionDays \in Nat /\ RawRetentionDays <= RetentionDays
  BY RetentionAssumption
<1>3. Day(t) < Day(clock) - (RetentionDays - 1)
  BY DEF Expired
<1>4. Day(s) < Day(clock) - (RawRetentionDays - 1)
  BY <1>1, <1>2, <1>3
<1>q. QED
  BY <1>4 DEF Expired

\* What expired stays expired.
LEMMA ExpiredStays ==
    ASSUME NEW t \in Nat, NEW days \in Nat, clock \in Nat, clock' \in Nat, clock <= clock',
           Expired(t, days)
    PROVE  Expired(t, days)'
<1>1. Day(clock) \in Nat /\ Day(clock') \in Nat /\ Day(clock) <= Day(clock') /\ Day(t) \in Nat
  BY DayGrows
<1>2. Day(t) < Day(clock) - (days - 1)
  BY DEF Expired
<1>3. Day(t) < Day(clock') - (days - 1)
  BY <1>1, <1>2
<1>q. QED
  BY <1>3 DEF Expired, Day

\* A set of numbers that is not empty has a least one.
LEMMA LeastNumber ==
    ASSUME NEW N, N \subseteq Nat, N # {}
    PROVE  Least(N) \in N /\ \A k \in N : Least(N) <= k
<1>a. IsWellFoundedOn(OpToRel(<, Nat), Nat)
  BY NatLessThanWellFounded
<1> DEFINE below == OpToRel(<, Nat)
<1>1. \E m \in N : \A k \in N : ~ (<<k, m>> \in below)
  <2>1. IsWellFoundedOn(below, Nat)
    BY <1>a
  <2> HIDE DEF below
  <2>q. QED
    BY <2>1, WFMin
<1>2. \A k, m \in N : ~ (<<k, m>> \in below) => ~ (k < m)
  BY DEF OpToRel
<1> HIDE DEF below
<1>3. \A k, m \in N : ~ (k < m) => m <= k
  OBVIOUS
<1>4. \E m \in N : \A k \in N : m <= k
  BY <1>1, <1>2, <1>3
<1>q. QED
  BY <1>4 DEF Least

\* A bounded set of numbers that is not empty has a greatest one.
LEMMA GreatestNumber ==
    ASSUME NEW N, N \subseteq Nat, N # {}, NEW b \in Nat, \A k \in N : k <= b
    PROVE  Greatest(N) \in N /\ \A k \in N : k <= Greatest(N)
<1> DEFINE gaps == {b - k : k \in N}
<1>1. gaps \subseteq Nat /\ gaps # {}
  <2>1. \A k \in N : b - k \in Nat
    OBVIOUS
  <2>q. QED
    BY <2>1
<1>2. PICK g \in gaps : \A h \in gaps : g <= h
  <2> HIDE DEF gaps
  <2>q. QED
    BY <1>1, LeastNumber
<1>3. PICK m \in N : g = b - m
  BY <1>2
<1>4. \A k \in N : k <= m
  BY <1>2, <1>3
<1>q. QED
  BY <1>4 DEF Greatest

\* The least and the greatest number of two sets, found one after the other.
LEMMA LeastOfUnion ==
    ASSUME NEW N, NEW M, N \subseteq Nat, N # {}, M \subseteq Nat
    PROVE  Least(M \cup {Least(N)}) = Least(N \cup M)
<1>1. Least(N) \in N /\ \A k \in N : Least(N) <= k
  BY LeastNumber
<1> DEFINE all == N \cup M
           found == M \cup {Least(N)}
<1>2. all \subseteq Nat /\ all # {} /\ found \subseteq all /\ found \subseteq Nat /\ found # {}
  BY <1>1
<1>3. Least(all) \in all /\ (\A k \in all : Least(all) <= k) /\ Least(found) \in found /\ (\A k \in found : Least(found) <= k)
  <2> HIDE DEF all, found
  <2>q. QED
    BY <1>2, LeastNumber
<1>4. Least(found) \in Nat /\ Least(all) \in Nat /\ Least(all) <= Least(found)
  BY <1>2, <1>3
<1>5. Least(found) <= Least(all)
  <2>1. CASE Least(all) \in M
    BY <1>3, <2>1
  <2>2. CASE Least(all) \in N
    <3>1. Least(N) <= Least(all) /\ Least(found) <= Least(N) /\ Least(N) \in Nat
      BY <1>1, <1>2, <1>3, <2>2
    <3>q. QED
      BY <1>4, <3>1
  <2>q. QED
    BY <1>3, <2>1, <2>2
<1> HIDE DEF all, found
<1>6. Least(found) = Least(all)
  BY <1>4, <1>5
<1>q. QED
  BY <1>6 DEF all, found

LEMMA GreatestOfUnion ==
    ASSUME NEW N, NEW M, N \subseteq Nat, N # {}, M \subseteq Nat, NEW b \in Nat, \A k \in N \cup M : k <= b
    PROVE  Greatest(M \cup {Greatest(N)}) = Greatest(N \cup M)
<1>1. Greatest(N) \in N /\ \A k \in N : k <= Greatest(N)
  BY GreatestNumber
<1> DEFINE all == N \cup M
           found == M \cup {Greatest(N)}
<1>2. /\ all \subseteq Nat /\ all # {} /\ found \subseteq all /\ found \subseteq Nat /\ found # {}
      /\ (\A k \in all : k <= b) /\ (\A k \in found : k <= b)
  BY <1>1
<1>3. Greatest(all) \in all /\ \A k \in all : k <= Greatest(all)
  <2> HIDE DEF all, found
  <2>q. QED
    BY <1>2, GreatestNumber
<1>7. Greatest(found) \in found /\ \A k \in found : k <= Greatest(found)
  <2> HIDE DEF all, found
  <2>q. QED
    BY <1>2, GreatestNumber
<1>4. Greatest(found) \in Nat /\ Greatest(all) \in Nat /\ Greatest(found) <= Greatest(all)
  BY <1>2, <1>3, <1>7
<1>5. Greatest(all) <= Greatest(found)
  <2>1. CASE Greatest(all) \in M
    BY <1>7, <2>1
  <2>2. CASE Greatest(all) \in N
    <3>1. Greatest(all) <= Greatest(N) /\ Greatest(N) <= Greatest(found) /\ Greatest(N) \in Nat
      BY <1>1, <1>2, <1>7, <2>2
    <3>q. QED
      BY <1>4, <3>1
  <2>q. QED
    BY <1>3, <2>1, <2>2
<1> HIDE DEF all, found
<1>6. Greatest(found) = Greatest(all)
  BY <1>4, <1>5
<1>q. QED
  BY <1>6 DEF all, found

-----------------------------------------------------------------------------
(* The descriptor of a set of rows.                                        *)

LastTime == MaximumTime + StorageSkew

\* Rows as they are stored.
StoredRows(rows) ==
    /\ IsFiniteSet(rows)
    /\ \A r \in rows : r.at \in 0..LastTime /\ r.capture \in 0..MaximumCaptures

IdsOf(rows) == {r.capture : r \in rows}
TimesOf(rows) == {r.at : r \in rows}
ScopesOf(rows) == {r.scope : r \in rows}

DescriptorOf(rows) ==
    [first |-> Least(IdsOf(rows)), last |-> Greatest(IdsOf(rows)),
     earliest |-> Least(TimesOf(rows)), latest |-> Greatest(TimesOf(rows)),
     observations |-> Cardinality(rows), evidence |-> rows, scopes |-> ScopesOf(rows)]

\* The first and the last capture and time of rows that are stored.
LEMMA RowBounds ==
    ASSUME NEW rows, StoredRows(rows), rows # {}
    PROVE  /\ IdsOf(rows) \subseteq Nat /\ TimesOf(rows) \subseteq Nat
           /\ Least(IdsOf(rows)) \in IdsOf(rows) /\ Greatest(IdsOf(rows)) \in IdsOf(rows)
           /\ Least(TimesOf(rows)) \in TimesOf(rows) /\ Greatest(TimesOf(rows)) \in TimesOf(rows)
           /\ \A r \in rows : /\ Least(IdsOf(rows)) <= r.capture /\ r.capture <= Greatest(IdsOf(rows))
                              /\ Least(TimesOf(rows)) <= r.at /\ r.at <= Greatest(TimesOf(rows))
<1> DEFINE N == IdsOf(rows)
           M == TimesOf(rows)
<1>1. MaximumCaptures \in Nat /\ LastTime \in Nat
  BY BoundAssumption, RetentionAssumption DEF LastTime
<1>2. N \subseteq Nat /\ N # {} /\ M \subseteq Nat /\ M # {}
  BY <1>1 DEF StoredRows, IdsOf, TimesOf
<1>3. (\A k \in N : k <= MaximumCaptures) /\ (\A k \in M : k <= LastTime)
  BY <1>1 DEF StoredRows, IdsOf, TimesOf
<1>4. \A r \in rows : r.capture \in N /\ r.at \in M
  BY DEF IdsOf, TimesOf
<1> HIDE DEF N, M
<1>5. Least(N) \in N /\ (\A k \in N : Least(N) <= k) /\ Least(M) \in M /\ (\A k \in M : Least(M) <= k)
  BY <1>2, LeastNumber
<1>6. Greatest(N) \in N /\ \A k \in N : k <= Greatest(N)
  BY <1>1, <1>2, <1>3, GreatestNumber
<1>7. Greatest(M) \in M /\ \A k \in M : k <= Greatest(M)
  BY <1>1, <1>2, <1>3, GreatestNumber
<1>q. QED
  BY <1>2, <1>4, <1>5, <1>6, <1>7 DEF N, M

\* A set of rows has no more scopes than rows.
LEMMA ScopesCounted ==
    ASSUME NEW rows, IsFiniteSet(rows)
    PROVE  Cardinality(ScopesOf(rows)) <= Cardinality(rows)
<1> DEFINE f == [r \in rows |-> r.scope]
<1>1. f \in Surjection(rows, ScopesOf(rows))
  BY DEF Surjection, ScopesOf
<1> HIDE DEF f
<1>q. QED
  BY <1>1, FS_Surjection

\* What is accumulated from nothing describes the rows.
LEMMA Described ==
    ASSUME NEW rows, StoredRows(rows)
    PROVE  /\ rows = {} => Accumulate(NoSequence, rows) = NoSequence
           /\ rows # {} => Accumulate(NoSequence, rows) = DescriptorOf(rows)
           /\ Accumulate(NoSequence, rows).evidence = rows
           /\ IsOpenSequence(Accumulate(NoSequence, rows)) <=> rows # {}
<1>1. CASE rows = {}
  BY <1>1 DEF Accumulate, NoSequence, IsOpenSequence
<1>2. CASE rows # {}
  <2>1. ~IsOpenSequence(NoSequence) /\ Digest({}, rows) = rows
    BY DEF IsOpenSequence, NoSequence, Digest
  <2>2. Cardinality(rows) \in Nat /\ Cardinality(rows) # 0
    BY <1>2, FS_CardinalityType, FS_EmptySet DEF StoredRows
  <2>3. /\ IdsOf(rows) \cup {} = IdsOf(rows) /\ TimesOf(rows) \cup {} = TimesOf(rows)
        /\ NoSequence.scopes \cup ScopesOf(rows) = ScopesOf(rows)
        /\ NoSequence.observations + Cardinality(rows) = Cardinality(rows)
        /\ NoSequence.evidence = {}
    BY <2>2 DEF NoSequence
  <2>4. Accumulate(NoSequence, rows) = DescriptorOf(rows)
    BY <1>2, <2>1, <2>3 DEF Accumulate, DescriptorOf, IdsOf, TimesOf, ScopesOf
  <2>q. QED
    BY <1>2, <2>2, <2>4 DEF DescriptorOf, IsOpenSequence
<1>q. QED
  BY <1>1, <1>2

\* Rows may be accumulated in parts.
LEMMA AccumulatedInParts ==
    ASSUME NEW old, NEW new, StoredRows(old), StoredRows(new), old \cap new = {}
    PROVE  /\ StoredRows(old \cup new)
           /\ Accumulate(Accumulate(NoSequence, old), new) = Accumulate(NoSequence, old \cup new)
<1>1. StoredRows(old \cup new)
  BY FS_Union DEF StoredRows
<1>2. CASE new = {}
  BY <1>1, <1>2 DEF Accumulate
<1>3. CASE old = {}
  BY <1>1, <1>3, Described
<1>4. CASE old # {} /\ new # {}
  <2> DEFINE d == DescriptorOf(old)
             all == old \cup new
  <2>1. Accumulate(NoSequence, old) = d /\ IsOpenSequence(d)
    BY <1>4, Described
  <2>2. Accumulate(NoSequence, all) = DescriptorOf(all)
    BY <1>1, <1>4, Described
  <2>3. /\ IdsOf(all) = IdsOf(old) \cup IdsOf(new) /\ TimesOf(all) = TimesOf(old) \cup TimesOf(new)
        /\ ScopesOf(all) = ScopesOf(old) \cup ScopesOf(new)
    BY DEF IdsOf, TimesOf, ScopesOf
  <2>4. Digest(old, new) = all
    BY DEF Digest
  <2>5. Cardinality(old) + Cardinality(new) = Cardinality(all)
    <3>1. Cardinality(old \cap new) = 0
      BY FS_EmptySet
    <3>2. Cardinality(old) \in Nat /\ Cardinality(new) \in Nat
      BY FS_CardinalityType DEF StoredRows
    <3>3. Cardinality(all) = Cardinality(old) + Cardinality(new) - Cardinality(old \cap new)
      BY FS_Union DEF StoredRows
    <3>q. QED
      BY <3>1, <3>2, <3>3
  <2>7. MaximumCaptures \in Nat /\ LastTime \in Nat
    BY BoundAssumption, RetentionAssumption DEF LastTime
  <2>6. /\ IdsOf(old) \subseteq Nat /\ TimesOf(old) \subseteq Nat /\ IdsOf(old) # {} /\ TimesOf(old) # {}
        /\ IdsOf(new) \subseteq Nat /\ TimesOf(new) \subseteq Nat
        /\ \A k \in IdsOf(old) \cup IdsOf(new) : k <= MaximumCaptures
        /\ \A k \in TimesOf(old) \cup TimesOf(new) : k <= LastTime
    BY <1>4, <2>7 DEF StoredRows, IdsOf, TimesOf
  <2>8. /\ Least(IdsOf(new) \cup {Least(IdsOf(old))}) = Least(IdsOf(old) \cup IdsOf(new))
        /\ Least(TimesOf(new) \cup {Least(TimesOf(old))}) = Least(TimesOf(old) \cup TimesOf(new))
    BY <2>6, LeastOfUnion
  <2>9. Greatest(IdsOf(new) \cup {Greatest(IdsOf(old))}) = Greatest(IdsOf(old) \cup IdsOf(new))
    BY <2>6, <2>7, GreatestOfUnion
  <2>10. Greatest(TimesOf(new) \cup {Greatest(TimesOf(old))}) = Greatest(TimesOf(old) \cup TimesOf(new))
    BY <2>6, <2>7, GreatestOfUnion
  <2>12. Accumulate(d, new) = DescriptorOf(all)
    <3>1. /\ d.first = Least(IdsOf(old)) /\ d.last = Greatest(IdsOf(old))
          /\ d.earliest = Least(TimesOf(old)) /\ d.latest = Greatest(TimesOf(old))
          /\ d.observations = Cardinality(old) /\ d.evidence = old /\ d.scopes = ScopesOf(old)
      BY DEF DescriptorOf
    <3> HIDE DEF d, all
    <3>q. QED
      BY <1>4, <2>1, <2>3, <2>4, <2>5, <2>8, <2>9, <2>10, <3>1
         DEF Accumulate, DescriptorOf, IdsOf, TimesOf, ScopesOf
  <2>q. QED
    BY <1>1, <2>1, <2>2, <2>12
<1>q. QED
  BY <1>2, <1>3, <1>4

-----------------------------------------------------------------------------
(* What the invariant says of a vehicle.                                   *)

\* The rows a set of stored rows is made of.
LEMMA SomeStored ==
    ASSUME TypeOK, SourceKept, NEW rows \in SUBSET arrived
    PROVE  StoredRows(rows)
<1>1. IsFiniteSet(rows)
  BY FS_Subset DEF SourceKept
<1>2. \A r \in arrived : r.at \in 0..LastTime /\ r.capture \in 0..MaximumCaptures
  BY BoundAssumption DEF TypeOK, SourceKept, LastTime
<1>q. QED
  BY <1>1, <1>2 DEF StoredRows

\* A vehicle that was never seen has no state, and is in the state of one
\* without rows.
LEMMA EveryStateSound ==
    ASSUME TypeOK, StatesKept, NEW v \in Vehicles
    PROVE  Sound(StateOf(v), v)
<1>1. CASE v \in DOMAIN states
  BY <1>1 DEF StatesKept, StateOf
<1>2. CASE v \notin DOMAIN states
  <2> DEFINE s == NewProducerState(run.activation)
  <2>1. StateOf(v) = s
    BY <1>2 DEF StateOf
  <2>2. /\ s.latestSeen = 0 /\ s.closedThrough = 0 /\ s.missing = 0 /\ s.open = NoSequence
        /\ NoSequence.evidence = {}
    BY DEF NewProducerState, NoSequence
  <2>3. Accumulate(NoSequence, {}) = NoSequence
    BY DEF Accumulate
  <2> HIDE DEF s
  <2>q. QED
    BY <2>1, <2>2, <2>3 DEF Sound
<1>q. QED
  BY <1>1, <1>2

\* The evidence of a vehicle: stored rows, and open when there is one.
LEMMA EvidenceStored ==
    ASSUME TypeOK, SourceKept, StatesKept, NEW v \in Vehicles
    PROVE  /\ StateOf(v).open.evidence \subseteq Processed(v)
           /\ StateOf(v).open.evidence \subseteq arrived
           /\ StoredRows(StateOf(v).open.evidence)
           /\ IsOpenSequence(StateOf(v).open) <=> StateOf(v).open.evidence # {}
           /\ StateOf(v).open.evidence # {} => StateOf(v).open = DescriptorOf(StateOf(v).open.evidence)
<1> DEFINE s == StateOf(v)
           rows == s.open.evidence
<1>1. rows \subseteq Processed(v) /\ s.open = Accumulate(NoSequence, rows)
  BY EveryStateSound DEF Sound, Waiting
<1>2. rows \subseteq arrived
  BY <1>1 DEF Processed
<1>3. StoredRows(rows)
  BY <1>2, SomeStored
<1>q. QED
  BY <1>1, <1>2, <1>3, Described

\* The evidence of an open sequence that did not expire is still in raw.
LEMMA EvidenceInRaw ==
    ASSUME TypeOK, SourceKept, StatesKept, ~OpenExpired(states), NEW v \in Vehicles
    PROVE  StateOf(v).open.evidence \subseteq raw
<1> DEFINE s == StateOf(v)
           rows == s.open.evidence
<1>1. ASSUME NEW r \in rows, r \notin raw
      PROVE  FALSE
  <2>1. /\ rows \subseteq arrived /\ StoredRows(rows) /\ rows # {}
        /\ IsOpenSequence(s.open) /\ s.open = DescriptorOf(rows)
    BY <1>1, EvidenceStored
  <2>2. v \in DOMAIN states /\ s = states[v]
    <3>1. ~IsOpenSequence(NewProducerState(run.activation).open)
      BY DEF NewProducerState, NoSequence, IsOpenSequence
    <3>q. QED
      BY <2>1, <3>1 DEF StateOf
  <2>3. s.open.earliest = Least(TimesOf(rows))
    BY <2>1 DEF DescriptorOf
  <2>4. s.open.earliest \in Nat /\ s.open.earliest <= r.at
    BY <1>1, <2>1, <2>3, RowBounds
  <2>5. r.at \in Nat /\ Expired(r.at, RetentionDays)
    BY <1>1, <2>1 DEF SourceKept, StoredRows
  <2>6. Expired(s.open.earliest, RawRetentionDays)
    <3>1. clock \in Nat
      BY DEF TypeOK
    <3>q. QED
      BY <2>4, <2>5, <3>1, OlderExpired
  <2>q. QED
    BY <2>1, <2>2, <2>6 DEF OpenExpired, OpenStates
<1>q. QED
  BY <1>1

-----------------------------------------------------------------------------
(* The steps of the ingestion.                                             *)

\* What is stored, or purged, does not concern the states.
LEMMA StatesHeld ==
    ASSUME StatesKept, PublishedKept, UNCHANGED <<run, states, published, consumed>>,
           arrived \subseteq arrived', ids \subseteq ids'
    PROVE  StatesKept' /\ PublishedKept'
<1>1. ASSUME NEW v \in DOMAIN states
      PROVE  /\ states'[v].lastCapture = run'.checkpoint
             /\ states'[v].lastReceived = run'.lastReceived
             /\ Sound(states[v], v)'
  <2>1. Waiting(states[v], v) \subseteq Waiting(states[v], v)'
    BY DEF Waiting, Processed
  <2>2. \A r : Since(r)' = Since(r)
    BY DEF Since
  <2>q. QED
    BY <2>1, <2>2 DEF StatesKept, Sound
<1>2. \A v \in Vehicles : StateOf(v)' = StateOf(v)
  BY DEF StateOf
<1>q. QED
  BY <1>1, <1>2 DEF StatesKept, PublishedKept

LEMMA TickKeeps == IInv /\ Tick => IInv'
<1> SUFFICES ASSUME IInv, Tick PROVE IInv'
  OBVIOUS
<1>1. TypeOK'
  BY BoundAssumption DEF IInv, Tick, TypeOK, derived
<1>2. SourceKept'
  <2>1. \A r \in arrived : r.at \in Nat
    BY DEF IInv, TypeOK
  <2>2. clock \in Nat /\ clock' \in Nat /\ clock <= clock' /\ RetentionDays \in Nat
    BY RetentionAssumption, BoundAssumption DEF IInv, TypeOK, Tick
  <2>3. \A r \in arrived \ raw : Expired(r.at, RetentionDays)'
    BY <2>1, <2>2, ExpiredStays DEF IInv, SourceKept
  <2>q. QED
    BY <2>3 DEF IInv, SourceKept, Tick
<1>3. RunKept'
  BY DEF IInv, RunKept, Tick, derived
<1>4. StatesKept' /\ PublishedKept'
  BY StatesHeld DEF IInv, Tick, derived
<1>q. QED
  BY <1>1, <1>2, <1>3, <1>4 DEF IInv

LEMMA StoreFailsKeeps == IInv /\ StoreFails => IInv'
<1> SUFFICES ASSUME IInv, StoreFails PROVE IInv'
  OBVIOUS
<1>0. nextCapture' = nextCapture + 1 /\ nextCapture \in Nat
  BY BoundAssumption DEF IInv, TypeOK, StoreFails
<1>1. TypeOK'
  BY <1>0, BoundAssumption DEF IInv, StoreFails, TypeOK, derived
<1>2. SourceKept'
  <2>1. \A r \in arrived : r.capture \in Nat
    BY BoundAssumption DEF IInv, TypeOK
  <2>2. \A c \in captures : c.id \in Nat
    BY BoundAssumption DEF IInv, TypeOK
  <2>3. \A r \in arrived \ raw : Expired(r.at, RetentionDays)'
    BY DEF IInv, SourceKept, StoreFails, Expired, Day
  <2>q. QED
    BY <1>0, <2>1, <2>2, <2>3 DEF IInv, SourceKept, StoreFails
<1>3. RunKept'
  BY <1>0 DEF IInv, TypeOK, RunKept, StoreFails, derived
<1>4. StatesKept' /\ PublishedKept'
  BY StatesHeld DEF IInv, StoreFails, derived
<1>q. QED
  BY <1>1, <1>2, <1>3, <1>4 DEF IInv

LEMMA ReloadKeeps == IInv /\ ReloadCatalogue => IInv'
<1> SUFFICES ASSUME IInv, ReloadCatalogue PROVE IInv'
  OBVIOUS
<1>1. TypeOK'
  BY DEF IInv, ReloadCatalogue, TypeOK, derived
<1>2. SourceKept'
  BY DEF IInv, SourceKept, ReloadCatalogue, Expired, Day
<1>3. RunKept'
  BY DEF IInv, RunKept, ReloadCatalogue, derived
<1>4. StatesKept' /\ PublishedKept'
  BY StatesHeld DEF IInv, ReloadCatalogue, derived
<1>q. QED
  BY <1>1, <1>2, <1>3, <1>4 DEF IInv

\* The purge takes expired rows and captures that have none left.
LEMMA PurgeKeeps == IInv /\ Purge => IInv'
<1> SUFFICES ASSUME IInv, Purge PROVE IInv'
  OBVIOUS
<1>0. raw' \subseteq raw /\ captures' \subseteq captures
  BY DEF Purge
<1>1. TypeOK'
  <2>1. UNCHANGED <<clock, catalogue, nextCapture, arrived, ids, derived, phase>>
    BY DEF Purge
  <2>q. QED
    BY <1>0, <2>1 DEF IInv, TypeOK, derived
<1>2. SourceKept'
  <2>1. arrived' = arrived /\ clock' = clock /\ nextCapture' = nextCapture
    BY DEF Purge
  <2>2. \A r \in arrived' \ raw' : Expired(r.at, RetentionDays)'
    BY <2>1 DEF IInv, SourceKept, Purge, Expired, Day
  <2>3. \A r \in raw' : \E c \in captures' : c.id = r.capture
    BY <1>0 DEF IInv, SourceKept, Purge
  <2>q. QED
    BY <1>0, <2>1, <2>2, <2>3 DEF IInv, SourceKept
<1>3. RunKept'
  BY <1>0 DEF IInv, RunKept, Purge, derived
<1>4. StatesKept' /\ PublishedKept'
  BY StatesHeld DEF IInv, Purge, derived
<1>q. QED
  BY <1>1, <1>2, <1>3, <1>4 DEF IInv

\* The rows of a new capture are those it counts.
LEMMA NewRowsCounted ==
    ASSUME IInv, NEW delivery \in Deliveries, NEW scope \in Scopes, NEW received \in 1..MaximumTime,
           \A d \in delivery : d[2] <= received + StorageSkew, nextCapture <= MaximumCaptures
    PROVE  /\ IsFiniteSet(NewRows(delivery, scope, received))
           /\ NewRows(delivery, scope, received) \subseteq
                 [vehicle: Vehicles, at: 0..LastTime, scope: Scopes, capture: {nextCapture}]
           /\ NewRows(delivery, scope, received) \cap arrived = {}
           /\ \A r, q \in raw \cup NewRows(delivery, scope, received) :
                 r.vehicle = q.vehicle /\ r.at = q.at => r = q
<1> DEFINE picked == {e \in delivery : /\ Day(e[2]) >= Day(received) + 1 - RetentionDays
                                       /\ ~\E r \in raw : r.vehicle = e[1] /\ r.at = e[2]}
           row(d) == [vehicle |-> d[1], at |-> d[2], scope |-> scope, capture |-> nextCapture]
           rows == NewRows(delivery, scope, received)
           f == [d \in picked |-> row(d)]
<1>1. rows = {row(d) : d \in picked}
  BY DEF NewRows
<1>2. IsFiniteSet(picked) /\ \A d \in picked : d[1] \in Vehicles /\ d[2] \in Nat
  <2>1. IsFiniteSet(delivery) /\ delivery \subseteq Vehicles \X Nat
    BY DeliveriesAssumption
  <2>2. picked \in SUBSET delivery
    OBVIOUS
  <2>q. QED
    BY <2>1, <2>2, FS_Subset
<1>3. IsFiniteSet(rows)
  <2>1. f \in Surjection(picked, rows)
    BY <1>1 DEF Surjection
  <2> HIDE DEF f, picked, rows
  <2>q. QED
    BY <1>2, <2>1, FS_Surjection
<1>4. \A d \in picked : d[2] <= LastTime
  BY <1>2, BoundAssumption, RetentionAssumption DEF LastTime
<1>5. rows \subseteq [vehicle: Vehicles, at: 0..LastTime, scope: Scopes, capture: {nextCapture}]
  <2> HIDE DEF picked
  <2>q. QED
    BY <1>1, <1>2, <1>4, BoundAssumption, RetentionAssumption DEF LastTime
<1>6. rows \cap arrived = {}
  <2>1. \A r \in arrived : r.capture \in Nat /\ r.capture < nextCapture /\ nextCapture \in Nat
    BY BoundAssumption DEF IInv, TypeOK, SourceKept
  <2>2. \A r \in rows : r.capture = nextCapture
    BY <1>1
  <2> HIDE DEF rows
  <2>q. QED
    BY <2>1, <2>2
<1>7. \A r \in rows : ~\E q \in raw : q.vehicle = r.vehicle /\ q.at = r.at
  BY <1>1
<1>8. \A r, q \in rows : r.vehicle = q.vehicle /\ r.at = q.at => r = q
  <2>1. ASSUME NEW r \in rows, NEW q \in rows, r.vehicle = q.vehicle, r.at = q.at
        PROVE  r = q
    <3>1. PICK d \in picked : r = row(d)
      BY <1>1
    <3>2. PICK e \in picked : q = row(e)
      BY <1>1
    <3> HIDE DEF picked, rows
    <3>q. QED
      BY <2>1, <3>1, <3>2
  <2>q. QED
    BY <2>1
<1>9. \A r, q \in raw : r.vehicle = q.vehicle /\ r.at = q.at => r = q
  BY DEF IInv, SourceKept
<1> HIDE DEF rows
<1>10. \A r, q \in raw \cup rows : r.vehicle = q.vehicle /\ r.at = q.at => r = q
  BY <1>7, <1>8, <1>9
<1>q. QED
  BY <1>3, <1>5, <1>6, <1>10 DEF rows

LEMMA StoreKeeps ==
    ASSUME IInv, NEW delivery \in Deliveries, NEW scope \in Scopes, NEW partial \in BOOLEAN,
           NEW received \in {t \in (clock - ClockSlip)..clock : t > 0},
           StoreCapture(delivery, scope, received, partial)
    PROVE  IInv'
<1> DEFINE rows == NewRows(delivery, scope, received)
           capture == [id |-> nextCapture, receivedAt |-> received, partial |-> partial,
                       inserted |-> Cardinality(rows)]
<1>a. /\ nextCapture \in 1..MaximumCaptures /\ nextCapture' = nextCapture + 1
      /\ MaximumCaptures \in Nat /\ MaximumTime \in Nat
  BY BoundAssumption DEF IInv, TypeOK, StoreCapture
<1>b. received \in 1..MaximumTime /\ clock \in Nat
  BY RetentionAssumption, BoundAssumption DEF IInv, TypeOK
<1>c. /\ raw' = raw \cup rows /\ arrived' = arrived \cup rows /\ captures' = captures \cup {capture}
      /\ ids' = IF run.active THEN ids \cup {nextCapture} ELSE ids
      /\ UNCHANGED <<clock, catalogue, run, layouts, states, published, consumed, phase>>
  BY DEF StoreCapture, derived
<1>d. /\ IsFiniteSet(rows) /\ rows \cap arrived = {}
      /\ rows \subseteq [vehicle: Vehicles, at: 0..LastTime, scope: Scopes, capture: {nextCapture}]
      /\ \A r, q \in raw \cup rows : r.vehicle = q.vehicle /\ r.at = q.at => r = q
  <2>1. nextCapture <= MaximumCaptures /\ \A d \in delivery : d[2] <= received + StorageSkew
    BY DEF StoreCapture
  <2>q. QED
    BY <1>b, <2>1, NewRowsCounted
<1>e. Cardinality(rows) \in Nat
  BY <1>d, FS_CardinalityType
<1> HIDE DEF rows
<1>f. LastTime \in Nat
  BY BoundAssumption, RetentionAssumption DEF LastTime
<1>1. TypeOK'
  <2>1. capture \in [id: 1..MaximumCaptures, receivedAt: 1..MaximumTime, partial: BOOLEAN, inserted: Nat]
    BY <1>a, <1>b, <1>e
  <2>2. rows \subseteq [vehicle: Vehicles, at: Nat, scope: Scopes, capture: 1..MaximumCaptures]
    BY <1>a, <1>d, <1>f
  <2> HIDE DEF capture
  <2>3. /\ captures' \subseteq [id: 1..MaximumCaptures, receivedAt: 1..MaximumTime, partial: BOOLEAN, inserted: Nat]
        /\ arrived' \subseteq [vehicle: Vehicles, at: Nat, scope: Scopes, capture: 1..MaximumCaptures]
        /\ raw' \subseteq arrived'
    BY <1>c, <2>1, <2>2 DEF IInv, TypeOK
  <2>4. nextCapture' \in 1..(MaximumCaptures + 1) /\ ids' \subseteq 1..(nextCapture' - 1)
    BY <1>a, <1>c DEF IInv, TypeOK
  <2>5. published' \in [Vehicles -> SUBSET SUBSET arrived']
    <3>1. published \in [Vehicles -> SUBSET SUBSET arrived] /\ arrived \subseteq arrived'
      BY <1>c DEF IInv, TypeOK
    <3>2. published' = published
      BY <1>c
    <3>q. QED
      BY <3>1, <3>2
  <2>6. /\ clock \in 1..MaximumTime /\ catalogue \in CatalogueStates
        /\ run \in [active: BOOLEAN, activatedAt: 0..MaximumTime, activation: 0..MaximumCaptures,
                    checkpoint: 0..MaximumCaptures, lastReceived: 0..MaximumTime]
        /\ layouts \subseteq Scopes /\ DOMAIN states \subseteq Vehicles
        /\ phase \in {"inactive", "idle", "begun", "pinned"} \cup Stops
        /\ consumed \subseteq [id: 1..MaximumCaptures, partial: BOOLEAN]
    BY DEF IInv, TypeOK
  <2>q. QED
    BY <1>c, <2>3, <2>4, <2>5, <2>6 DEF TypeOK, Stops
<1>2. SourceKept'
  <2>1. IsFiniteSet(arrived')
    BY <1>c, <1>d, FS_Union DEF IInv, SourceKept
  <2>2. \A r \in arrived : r.capture \in Nat /\ r.capture < nextCapture /\ r.at <= LastTime
    BY <1>a DEF IInv, TypeOK, SourceKept, LastTime
  <2>3. \A r \in rows : r.capture = nextCapture /\ r.at <= LastTime
    BY <1>d, <1>f
  <2>4. \A r \in arrived' : r.capture < nextCapture' /\ r.at <= LastTime
    BY <1>a, <1>c, <2>2, <2>3
  <2>5. \A c \in captures : c.id \in Nat /\ c.id < nextCapture
    <3>1. captures \subseteq [id: 1..MaximumCaptures, receivedAt: 1..MaximumTime, partial: BOOLEAN, inserted: Nat]
      BY DEF IInv, TypeOK
    <3>2. \A c \in captures : c.id \in 1..MaximumCaptures
      BY <3>1
    <3>3. \A c \in captures : c.id < nextCapture
      BY DEF IInv, SourceKept
    <3>q. QED
      BY <1>a, <3>2, <3>3
  <2>6. ASSUME NEW c \in captures'
        PROVE  /\ c.id < nextCapture'
               /\ c.inserted = Cardinality({r \in arrived' : r.capture = c.id})
    <3>1. CASE c \in captures
      <4>1. {r \in arrived' : r.capture = c.id} = {r \in arrived : r.capture = c.id}
        BY <1>c, <2>3, <2>5, <3>1
      <4>q. QED
        BY <1>a, <2>5, <3>1, <4>1 DEF IInv, SourceKept
    <3>2. CASE c = capture
      <4>1. {r \in arrived' : r.capture = c.id} = rows
        BY <1>c, <2>2, <2>3, <3>2, <1>a
      <4>2. c.id = nextCapture /\ c.inserted = Cardinality(rows)
        BY <3>2
      <4>3. c.id < nextCapture'
        BY <1>a, <4>2
      <4>q. QED
        BY <4>1, <4>2, <4>3, Zenon
    <3>q. QED
      BY <1>c, <2>6, <3>1, <3>2
  <2>7. \A c, d \in captures' : c.id = d.id => c = d
    BY <1>a, <1>c, <2>5 DEF IInv, SourceKept
  <2>8. \A r \in arrived' \ raw' : Expired(r.at, RetentionDays)'
    BY <1>c DEF IInv, SourceKept, Expired, Day
  <2>9. \A r \in raw' : \E c \in captures' : c.id = r.capture
    <3>1. \A r \in rows : capture \in captures' /\ capture.id = r.capture
      BY <1>c, <2>3
    <3> HIDE DEF capture
    <3>q. QED
      BY <1>c, <3>1 DEF IInv, SourceKept
  <2>q. QED
    BY <1>c, <1>d, <2>1, <2>4, <2>6, <2>7, <2>8, <2>9 DEF SourceKept, LastTime
<1>3. RunKept'
  <2>1. run.checkpoint \in Nat /\ run.activation \in Nat
    BY <1>a DEF IInv, TypeOK
  <2>2. capture.id = nextCapture
    OBVIOUS
  <2> HIDE DEF capture
  <2>3. \A c \in captures' : run.active /\ c.id > run.activation => c.id \in ids'
    BY <1>c, <2>2 DEF IInv, RunKept
  <2>4. \A k \in ids' : run.activation < k
    BY <1>a, <1>c, <2>1 DEF IInv, RunKept
  <2>q. QED
    BY <1>a, <1>c, <2>1, <2>3, <2>4 DEF IInv, RunKept
<1>4. StatesKept' /\ PublishedKept'
  <2>1. arrived \subseteq arrived' /\ ids \subseteq ids'
    BY <1>c
  <2>q. QED
    BY <1>c, <2>1, StatesHeld DEF IInv
<1>q. QED
  BY <1>1, <1>2, <1>3, <1>4 DEF IInv

-----------------------------------------------------------------------------
(* The steps of the producer that commit nothing.                          *)

\* The verdict of a capture is a reason to stop, or not.
LEMMA Verdicts == \A c : Verdict(c) \in Stops \cup {"refused", "processed"}
BY DEF Verdict, Stops

\* A step of the transaction that commits nothing leaves what is stored.
LEMMA PhaseKeeps ==
    ASSUME IInv, UNCHANGED <<source, derived>>,
           phase' \in {"inactive", "idle", "begun", "pinned"} \cup Stops,
           run.active \/ phase' = "inactive"
    PROVE  IInv'
<1>1. /\ UNCHANGED <<clock, catalogue, captures, raw, nextCapture, arrived, ids>>
      /\ UNCHANGED <<run, layouts, states, published, consumed>>
  BY DEF source, derived
<1>2. TypeOK'
  BY <1>1 DEF IInv, TypeOK, Stops
<1>3. SourceKept'
  BY <1>1 DEF IInv, SourceKept, Expired, Day
<1>4. RunKept'
  BY <1>1 DEF IInv, RunKept
<1>5. StatesKept' /\ PublishedKept'
  BY <1>1, StatesHeld DEF IInv
<1>q. QED
  BY <1>2, <1>3, <1>4, <1>5 DEF IInv

\* The checks, the attempts that find nothing or fail, and the restarts.
Uncommitted == Resume \/ Begin \/ Pin \/ ProcessIdle \/ ProcessStops \/ ProcessRefused \/ Abort \/ Restart

LEMMA UncommittedKeeps == IInv /\ Uncommitted => IInv' /\ UNCHANGED <<source, derived>>
<1> SUFFICES ASSUME IInv, Uncommitted PROVE IInv' /\ UNCHANGED <<source, derived>>
  OBVIOUS
<1>1. UNCHANGED <<source, derived>>
  BY DEF Uncommitted, Resume, Begin, Pin, ProcessIdle, ProcessStops, ProcessRefused, Abort, Restart, Stop
<1>2. phase' \in {"inactive", "idle", "begun", "pinned"} \cup Stops
  BY Verdicts DEF Uncommitted, Resume, Begin, Pin, ProcessIdle, ProcessStops, ProcessRefused, Abort, Restart, Stop, Stops
<1>3. run.active \/ phase' = "inactive"
  <2>1. ~run.active => phase = "inactive"
    BY DEF IInv, RunKept
  <2>q. QED
    BY <2>1 DEF Uncommitted, Resume, Begin, Pin, ProcessIdle, ProcessStops, ProcessRefused, Abort, Restart
<1>q. QED
  BY <1>1, <1>2, <1>3, PhaseKeeps

\* The activation leaves out the captures that exist.
LEMMA ActivateKeeps == IInv /\ Activate => IInv'
<1> SUFFICES ASSUME IInv, Activate PROVE IInv'
  OBVIOUS
<1> DEFINE known == {c.id : c \in captures} \cup {0}
           last == Greatest(known)
<1>a. /\ ~run.active
      /\ run' = [active |-> TRUE, activatedAt |-> clock, activation |-> last,
                 checkpoint |-> last, lastReceived |-> 0]
      /\ phase' = "idle"
      /\ UNCHANGED <<clock, catalogue, captures, raw, nextCapture, arrived, ids, layouts, states, published, consumed>>
  BY DEF Activate, source
<1>b. /\ MaximumCaptures \in Nat /\ nextCapture \in Nat
      /\ \A c \in captures : c.id \in 1..MaximumCaptures /\ c.id < nextCapture
  <2>1. captures \subseteq [id: 1..MaximumCaptures, receivedAt: 1..MaximumTime, partial: BOOLEAN, inserted: Nat]
    BY DEF IInv, TypeOK
  <2>2. \A c \in captures : c.id \in 1..MaximumCaptures
    BY <2>1
  <2>3. \A c \in captures : c.id < nextCapture
    BY DEF IInv, SourceKept
  <2>q. QED
    BY <2>2, <2>3, BoundAssumption DEF IInv, TypeOK
<1>c. known \subseteq 0..MaximumCaptures /\ (\A k \in known : k < nextCapture) /\ known # {}
  BY <1>b, BoundAssumption DEF IInv, TypeOK
<1>d. last \in known /\ \A k \in known : k <= last
  <2>1. known \subseteq Nat /\ \A k \in known : k <= MaximumCaptures
    BY <1>b, <1>c
  <2> HIDE DEF known
  <2>q. QED
    BY <1>b, <1>c, <2>1, GreatestNumber
<1>e. last \in 0..MaximumCaptures /\ last < nextCapture
  BY <1>c, <1>d
<1>f. \A c \in captures : ~(c.id > last)
  <2>1. \A c \in captures : c.id \in known
    OBVIOUS
  <2>2. last \in Nat /\ \A c \in captures : c.id \in Nat
    BY <1>b, <1>c, <1>d
  <2> HIDE DEF known, last
  <2>3. \A c \in captures : c.id <= last
    BY <1>d, <2>1
  <2>q. QED
    BY <2>2, <2>3
<1>g. DOMAIN states = {} /\ ids = {} /\ consumed = {} /\ run.active = FALSE
  BY <1>a DEF IInv, RunKept, TypeOK
<1> HIDE DEF last, known
<1>1. TypeOK'
  <2>1. run' \in [active: BOOLEAN, activatedAt: 0..MaximumTime, activation: 0..MaximumCaptures,
                  checkpoint: 0..MaximumCaptures, lastReceived: 0..MaximumTime]
    <3>1. clock \in 0..MaximumTime /\ 0 \in 0..MaximumTime
      BY BoundAssumption DEF IInv, TypeOK
    <3>q. QED
      BY <1>a, <1>e, <3>1
  <2>q. QED
    BY <1>a, <2>1 DEF IInv, TypeOK
<1>2. SourceKept'
  BY <1>a DEF IInv, SourceKept, Expired, Day
<1>3. RunKept'
  <2>1. last \in Nat /\ last <= last
    BY <1>b, <1>e
  <2>2. /\ run'.active = TRUE /\ run'.activation = last /\ run'.checkpoint = last /\ run'.lastReceived = 0
    BY <1>a
  <2>3. IsFiniteSet(consumed)
    BY DEF IInv, RunKept
  <2>q. QED
    BY <1>a, <1>e, <1>f, <1>g, <2>1, <2>2, <2>3 DEF RunKept
<1>4. StatesKept'
  BY <1>a, <1>g DEF StatesKept
<1>5. PublishedKept'
  <2>1. \A v \in Vehicles : StateOf(v)'.closedThrough = StateOf(v).closedThrough
    BY <1>a DEF StateOf, NewProducerState
  <2>q. QED
    BY <1>a, <2>1 DEF IInv, PublishedKept
<1>q. QED
  BY <1>1, <1>2, <1>3, <1>4, <1>5 DEF IInv

LEMMA InitInvariant == Init => IInv
<1> SUFFICES ASSUME Init PROVE IInv
  OBVIOUS
<1>1. DOMAIN states = {}
  BY DEF Init
<1>2. IsFiniteSet({})
  BY FS_EmptySet
<1>3. TypeOK
  <2>1. MaximumTime \in Nat /\ MaximumTime >= 1 /\ MaximumCaptures \in Nat
    BY BoundAssumption
  <2>2. published \in [Vehicles -> SUBSET SUBSET arrived]
    BY DEF Init
  <2>q. QED
    BY <1>1, <2>1, <2>2 DEF Init, TypeOK
<1>4. SourceKept
  BY <1>2 DEF Init, SourceKept
<1>5. RunKept
  BY <1>1, <1>2 DEF Init, RunKept
<1>6. StatesKept /\ PublishedKept
  BY <1>1 DEF Init, StatesKept, PublishedKept
<1>q. QED
  BY <1>3, <1>4, <1>5, <1>6 DEF IInv

-----------------------------------------------------------------------------
(* The capture that is consumed.                                           *)

\* The next capture, when it is in order and its rows are those it counted.
Processable(c) ==
    /\ phase = "pinned" /\ ~OpenExpired(states)
    /\ Unread # {} /\ c = NextCapture /\ InOrder(c) /\ ~SourceIncomplete(c)

LEMMA CaptureFound ==
    ASSUME IInv, Unread # {}
    PROVE  /\ NextCapture \in captures
           /\ NextCapture.id \in 1..MaximumCaptures /\ NextCapture.receivedAt \in 1..MaximumTime
           /\ NextCapture.partial \in BOOLEAN
           /\ NextCapture.id > run.checkpoint
           /\ \A d \in Unread : NextCapture.id <= d.id
<1> DEFINE N == {d.id : d \in Unread}
<1>1. \A d \in captures : d.id \in 1..MaximumCaptures /\ d.receivedAt \in 1..MaximumTime /\ d.partial \in BOOLEAN
  BY DEF IInv, TypeOK
<1>2. N \subseteq Nat /\ N # {}
  BY <1>1, BoundAssumption DEF Unread
<1>3. PICK m \in N : \A k \in N : m <= k
  <2> HIDE DEF N
  <2>q. QED
    BY <1>2, LeastNumber
<1>4. PICK e \in Unread : \A d \in Unread : e.id <= d.id
  BY <1>3
<1>5. NextCapture \in Unread /\ \A d \in Unread : NextCapture.id <= d.id
  BY <1>4 DEF NextCapture
<1>q. QED
  BY <1>1, <1>5 DEF Unread

\* It was stored after the activation, and its rows are all there.
LEMMA CaptureComplete ==
    ASSUME IInv, NEW c, Processable(c)
    PROVE  /\ c \in captures /\ c.id \in 1..MaximumCaptures /\ c.receivedAt \in 1..MaximumTime
           /\ c.partial \in BOOLEAN
           /\ c.id > run.checkpoint /\ c.id < nextCapture /\ (\A d \in Unread : c.id <= d.id)
           /\ run.active /\ c.id \in ids
           /\ c.receivedAt >= run.lastReceived
           /\ RowsOf(c) = {r \in arrived : r.capture = c.id}
<1>1. /\ c \in captures /\ c.id \in 1..MaximumCaptures /\ c.receivedAt \in 1..MaximumTime
      /\ c.partial \in BOOLEAN
      /\ c.id > run.checkpoint /\ (\A d \in Unread : c.id <= d.id)
  BY CaptureFound DEF Processable
<1>2. run.active
  BY DEF IInv, RunKept, Processable
<1>3. c.id \in ids /\ c.id < nextCapture
  <2>1. run.activation \in Nat /\ run.checkpoint \in Nat /\ run.activation <= run.checkpoint
    BY BoundAssumption DEF IInv, TypeOK, RunKept
  <2>2. \A d \in captures : run.active /\ d.id > run.activation => d.id \in ids
    BY DEF IInv, RunKept
  <2>3. \A d \in captures : d.id < nextCapture
    BY DEF IInv, SourceKept
  <2>4. c.id \in Nat /\ c.id > run.activation
    BY <1>1, <2>1, BoundAssumption
  <2>q. QED
    BY <1>1, <1>2, <2>2, <2>3, <2>4
<1>4. InOrder(c) /\ ~SourceIncomplete(c)
  BY DEF Processable
<1>5. RowsOf(c) = {r \in arrived : r.capture = c.id}
  <2> DEFINE all == {r \in arrived : r.capture = c.id}
  <2>1. IsFiniteSet(all)
    BY FS_Subset DEF IInv, SourceKept
  <2>2. RowsOf(c) \in SUBSET all
    BY DEF RowsOf, IInv, TypeOK
  <2>3. Cardinality(RowsOf(c)) = Cardinality(all)
    BY <1>1, <1>4 DEF SourceIncomplete, IInv, SourceKept
  <2> HIDE DEF all
  <2>4. RowsOf(c) = all
    BY <2>1, <2>2, <2>3, FS_Subset
  <2>q. QED
    BY <2>4 DEF all
<1>q. QED
  BY <1>1, <1>2, <1>3, <1>4, <1>5 DEF InOrder

Evidence(v) == StateOf(v).open.evidence
Accepted(c, v) == AcceptedRows(StateOf(v), Input(c, v).new)

\* The rows of the open sequence of a vehicle and those it takes: they are in
\* raw, so that there is one for a timestamp, and none is taken twice.
LEMMA RowsTaken ==
    ASSUME IInv, NEW c, Processable(c), NEW v \in Vehicles
    PROVE  /\ Evidence(v) \subseteq raw /\ Accepted(c, v) \subseteq raw
           /\ \A r \in Evidence(v) : r.capture \in Nat /\ r.capture <= run.checkpoint
           /\ \A r \in Accepted(c, v) : r.capture = c.id
           /\ \A r \in Evidence(v) \cup Accepted(c, v) :
                 /\ r.at \in Nat /\ r.at > StateOf(v).closedThrough /\ r.vehicle = v
                 /\ r \in arrived /\ r.capture \in ids /\ r.capture <= c.id
           /\ \A r, q \in Evidence(v) \cup Accepted(c, v) : r.at = q.at => r = q
           /\ StoredRows(Evidence(v) \cup Accepted(c, v))
           /\ Accumulate(StateOf(v).open, Accepted(c, v)) =
                 Accumulate(NoSequence, Evidence(v) \cup Accepted(c, v))
           /\ IsOpenSequence(Accumulate(StateOf(v).open, Accepted(c, v)))
                 <=> Evidence(v) \cup Accepted(c, v) # {}
           /\ Accumulate(StateOf(v).open, Accepted(c, v)).evidence = Evidence(v) \cup Accepted(c, v)
           /\ IsOpenSequence(StateOf(v).open) <=> Evidence(v) # {}
<1> DEFINE E == Evidence(v)
           A == Accepted(c, v)
<1>0. TypeOK /\ SourceKept /\ StatesKept /\ ~OpenExpired(states) /\ raw \subseteq arrived
  BY DEF IInv, TypeOK, Processable
<1>1. /\ E \subseteq raw /\ StoredRows(E) /\ E \subseteq Waiting(StateOf(v), v)
      /\ StateOf(v).open = Accumulate(NoSequence, E)
      /\ IsOpenSequence(StateOf(v).open) <=> E # {}
  BY <1>0, EvidenceInRaw, EvidenceStored, EveryStateSound DEF Sound, Evidence
<1>2. A = {r \in raw : r.capture = c.id /\ r.vehicle = v /\ r.at > StateOf(v).closedThrough}
  BY DEF Accepted, AcceptedRows, Input, RowsOf
<1>3. c.id \in 1..MaximumCaptures /\ c.id \in ids /\ c.id > run.checkpoint /\ run.checkpoint \in Nat
  BY <1>0, CaptureComplete, BoundAssumption DEF TypeOK
<1>4. A \subseteq raw /\ StoredRows(A)
  BY <1>0, <1>2, SomeStored
<1>5. \A r \in raw : r.at \in Nat /\ r.capture \in Nat
  BY <1>0, BoundAssumption DEF TypeOK
<1>6. \A r \in E : /\ r.capture \in Nat /\ r.capture <= run.checkpoint /\ r.capture \in ids
                   /\ r.vehicle = v /\ r.at > StateOf(v).closedThrough
  BY <1>1, <1>5 DEF Waiting, Processed
<1>7. E \cap A = {}
  BY <1>2, <1>3, <1>6
<1> HIDE DEF E, A
<1>8. StoredRows(E \cup A) /\ Accumulate(StateOf(v).open, A) = Accumulate(NoSequence, E \cup A)
  BY <1>1, <1>4, <1>7, AccumulatedInParts
<1>9. \A r, q \in E \cup A : r.at = q.at => r = q
  <2>1. \A r \in E \cup A : r \in raw /\ r.vehicle = v
    BY <1>1, <1>2, <1>6
  <2>q. QED
    BY <1>0, <2>1 DEF SourceKept
<1>10. \A r \in E \cup A :
          /\ r.at \in Nat /\ r.at > StateOf(v).closedThrough /\ r.vehicle = v
          /\ r \in arrived /\ r.capture \in ids /\ r.capture <= c.id
  BY <1>0, <1>1, <1>2, <1>3, <1>5, <1>6
<1>11. /\ IsOpenSequence(Accumulate(StateOf(v).open, A)) <=> E \cup A # {}
       /\ Accumulate(StateOf(v).open, A).evidence = E \cup A
  BY <1>8, Described
<1>q. QED
  BY <1>1, <1>2, <1>4, <1>6, <1>8, <1>9, <1>10, <1>11 DEF E, A

Seen(c, v) == Greatest({r.at : r \in Accepted(c, v)} \cup {StateOf(v).latestSeen})

\* The last seen after a capture.
LEMMA SeenAfter ==
    ASSUME IInv, NEW c, Processable(c), NEW v \in Vehicles
    PROVE  /\ StateOf(v).latestSeen \in Nat /\ StateOf(v).closedThrough \in Nat
           /\ Seen(c, v) \in Nat /\ StateOf(v).latestSeen <= Seen(c, v)
           /\ \A r \in Accepted(c, v) : r.at <= Seen(c, v)
           /\ Seen(c, v) = StateOf(v).latestSeen \/ \E r \in Accepted(c, v) : r.at = Seen(c, v)
<1> DEFINE A == Accepted(c, v)
           N == {r.at : r \in A} \cup {StateOf(v).latestSeen}
           b == LastTime + StateOf(v).latestSeen
<1>1. StateOf(v).latestSeen \in Nat /\ StateOf(v).closedThrough \in Nat
  BY EveryStateSound DEF IInv, Sound
<1>2. LastTime \in Nat
  BY BoundAssumption, RetentionAssumption DEF LastTime
<1>3. \A r \in A : r.at \in Nat /\ r.at <= LastTime
  <2>1. StoredRows(Evidence(v) \cup A)
    BY RowsTaken
  <2> HIDE DEF A
  <2>q. QED
    BY <1>2, <2>1 DEF StoredRows
<1> HIDE DEF A
<1>4. N \subseteq Nat /\ N # {} /\ b \in Nat /\ \A k \in N : k <= b
  BY <1>1, <1>2, <1>3
<1>5. Greatest(N) \in N /\ \A k \in N : k <= Greatest(N)
  <2> HIDE DEF N, b
  <2>q. QED
    BY <1>4, GreatestNumber
<1>q. QED
  BY <1>1, <1>4, <1>5 DEF A, Seen

Updates(c, v) == Updated(StateOf(v), Input(c, v).new)
ClosesNow(c, v) == Closes(StateOf(v), Input(c, v))
MissingNow(c, v) == Absences(StateOf(v), Input(c, v))

\* Without a newer timestamp the sequence was open, if it takes anything, and its
\* newest row remains the newest.
LEMMA WithoutUpdate ==
    ASSUME IInv, NEW c, Processable(c), NEW v \in Vehicles, ~Updates(c, v)
    PROVE  /\ Seen(c, v) = StateOf(v).latestSeen
           /\ \A r \in Evidence(v) \cup Accepted(c, v) : r.at <= StateOf(v).latestSeen
           /\ Accepted(c, v) # {} => Evidence(v) # {}
<1> DEFINE s == StateOf(v)
           E == Evidence(v)
           A == Accepted(c, v)
<1>1. \A r \in A : ~(r.at > s.latestSeen)
  BY DEF Updates, Updated, Accepted
<1>2. \A r \in E \cup A : r.at \in Nat /\ r.at > s.closedThrough
  BY RowsTaken
<1>3. \A r \in A : r.at <= s.latestSeen
  BY <1>1, <1>2, SeenAfter
<1>4. Sound(s, v)
  BY EveryStateSound DEF IInv
<1>5. \A r \in E : r.at <= s.latestSeen
  BY <1>4 DEF Sound, Evidence
<1>6. E = {} => s.closedThrough = s.latestSeen
  BY <1>4 DEF Sound, Evidence
<1>7. A # {} => E # {}
  BY <1>1, <1>2, <1>6, SeenAfter
<1>8. Seen(c, v) = s.latestSeen
  BY <1>1, SeenAfter
<1>q. QED
  BY <1>3, <1>5, <1>7, <1>8

\* The absences after a capture.
LEMMA MissingAfter ==
    ASSUME IInv, NEW c, Processable(c), NEW v \in Vehicles
    PROVE  MissingNow(c, v) = IF Updates(c, v) THEN 0
                              ELSE IF ~c.partial /\ Evidence(v) # {} THEN StateOf(v).missing + 1
                              ELSE StateOf(v).missing
<1> DEFINE open == Accumulate(StateOf(v).open, Accepted(c, v))
<1>1. IsOpenSequence(open) <=> Evidence(v) \cup Accepted(c, v) # {}
  BY RowsTaken
<1>2. Input(c, v).partial = c.partial /\ c.partial \in BOOLEAN
  BY CaptureComplete DEF Input
<1>3. ~Updates(c, v) => (IsOpenSequence(open) <=> Evidence(v) # {})
  BY <1>1, WithoutUpdate
<1> DEFINE o == IsOpenSequence(open)
           u == Updates(c, v)
<1>4. MissingNow(c, v) = CASE u -> 0
                           [] ~u /\ ~c.partial /\ o -> StateOf(v).missing + 1
                           [] OTHER -> StateOf(v).missing
  BY <1>2 DEF MissingNow, Absences, Updates, Accepted
<1> HIDE DEF o, u
<1>5. CASE u
  BY <1>4, <1>5 DEF u
<1>6. CASE ~u /\ ~c.partial /\ o
  BY <1>3, <1>4, <1>6 DEF o, u
<1>7. CASE ~u /\ ~(~c.partial /\ o)
  BY <1>3, <1>4, <1>7 DEF o, u
<1>q. QED
  BY <1>5, <1>6, <1>7

\* A sequence closes at the last absence, when it was open and nothing newer came.
LEMMA ClosesAtLimit ==
    ASSUME IInv, NEW c, Processable(c), NEW v \in Vehicles
    PROVE  /\ ClosesNow(c, v) <=> /\ Evidence(v) # {} /\ ~Updates(c, v) /\ ~c.partial
                                  /\ StateOf(v).missing = MissingCaptureLimit - 1
           /\ ClosesNow(c, v) => MissingNow(c, v) = MissingCaptureLimit
           /\ Evidence(v) # {} => StateOf(v).missing \in 0..(MissingCaptureLimit - 1)
<1> DEFINE s == StateOf(v)
           E == Evidence(v)
<1>1. ClosesNow(c, v) <=> E \cup Accepted(c, v) # {} /\ MissingNow(c, v) = MissingCaptureLimit
  BY RowsTaken DEF ClosesNow, Closes, MissingNow, Accepted
<1>2. E # {} => s.missing \in 0..(MissingCaptureLimit - 1)
  BY EveryStateSound DEF IInv, Sound, Evidence
<1>3. MissingCaptureLimit \in Nat /\ MissingCaptureLimit # 0
  BY MissingAssumption
<1>4. ~Updates(c, v) /\ Accepted(c, v) # {} => E # {}
  BY WithoutUpdate
<1>5. CASE Updates(c, v)
  BY <1>1, <1>2, <1>3, <1>5, MissingAfter
<1>6. CASE ~Updates(c, v) /\ E = {}
  BY <1>1, <1>4, <1>6
<1>7. CASE ~Updates(c, v) /\ E # {} /\ ~c.partial
  BY <1>1, <1>2, <1>3, <1>7, MissingAfter
<1>8. CASE ~Updates(c, v) /\ E # {} /\ c.partial
  BY <1>1, <1>2, <1>3, <1>8, MissingAfter
<1>q. QED
  BY <1>1, <1>2, <1>5, <1>6, <1>7, <1>8, CaptureComplete

\* What a closure is given to measure is what the sequence took.
LEMMA ReplayTaken ==
    ASSUME IInv, NEW c, Processable(c), AllProducible(c), NEW v \in Vehicles, v \in Involved(c),
           ClosesNow(c, v)
    PROVE  Input(c, v).replay = Evidence(v) \cup Accepted(c, v)
<1> DEFINE i == Input(c, v)
           open == Accumulate(StateOf(v).open, Accepted(c, v))
<1>1. ReplayMatches(StateOf(v), open, i)
  <2>1. Producible(StateOf(v), i, run.activation)
    BY DEF AllProducible
  <2>q. QED
    BY <2>1 DEF Producible, ClosesNow, Accepted
<1>2. i.replay \in SUBSET arrived
  BY DEF Input, Replay, IInv, TypeOK
<1>3. StoredRows(i.replay)
  BY <1>2, SomeStored DEF IInv
<1>4. Accumulate(NoSequence, i.replay) = open
  BY <1>1 DEF ReplayMatches
<1> HIDE DEF i, open
<1>5. open.evidence = i.replay
  BY <1>3, <1>4, Described
<1>6. open.evidence = Evidence(v) \cup Accepted(c, v)
  BY RowsTaken DEF open
<1>q. QED
  BY <1>5, <1>6 DEF i

-----------------------------------------------------------------------------
(* The capture is committed.                                               *)

Commit(c) == ProcessCapture /\ Processable(c) /\ AllProducible(c)

LEMMA Committed ==
    ASSUME IInv, NEW c, Commit(c)
    PROVE  /\ layouts' = layouts \cup {r.scope : r \in RowsOf(c)}
           /\ states' = NextStates(c)
           /\ published' = [v \in Vehicles |-> published[v] \cup
                               IF v \in Involved(c) THEN ProducedSegments(StateOf(v), Input(c, v)) ELSE {}]
           /\ run' = [run EXCEPT !.checkpoint = c.id, !.lastReceived = c.receivedAt]
           /\ consumed' = consumed \cup {[id |-> c.id, partial |-> c.partial]}
           /\ phase' = "idle" /\ UNCHANGED <<clock, catalogue, captures, raw, nextCapture, arrived, ids>>
           /\ run'.checkpoint = c.id /\ run'.lastReceived = c.receivedAt
           /\ run'.active = run.active /\ run'.activation = run.activation
           /\ run'.activatedAt = run.activatedAt
<1>1. c = NextCapture
  BY DEF Commit, Processable
<1>2. /\ layouts' = layouts \cup {r.scope : r \in RowsOf(c)}
      /\ states' = NextStates(c)
      /\ published' = [v \in Vehicles |-> published[v] \cup
                          IF v \in Involved(c) THEN ProducedSegments(StateOf(v), Input(c, v)) ELSE {}]
      /\ run' = [run EXCEPT !.checkpoint = c.id, !.lastReceived = c.receivedAt]
      /\ consumed' = consumed \cup {[id |-> c.id, partial |-> c.partial]}
      /\ phase' = "idle" /\ UNCHANGED <<clock, catalogue, captures, raw, nextCapture, arrived, ids>>
  BY <1>1 DEF Commit, ProcessCapture, source
<1>3. run \in [active: BOOLEAN, activatedAt: 0..MaximumTime, activation: 0..MaximumCaptures,
               checkpoint: 0..MaximumCaptures, lastReceived: 0..MaximumTime]
  BY DEF IInv, TypeOK
<1>4. /\ run'.checkpoint = c.id /\ run'.lastReceived = c.receivedAt
      /\ run'.active = run.active /\ run'.activation = run.activation
      /\ run'.activatedAt = run.activatedAt
  BY <1>2, <1>3
<1>q. QED
  BY <1>2, <1>4

\* The vehicles it concerns, and the state it leaves each vehicle in.
LEMMA VehiclesOf ==
    ASSUME IInv, NEW c, Commit(c)
    PROVE  /\ Involved(c) \subseteq Vehicles /\ DOMAIN states' = Involved(c)
           /\ \A v \in Involved(c) :
                 /\ states'[v] = ProduceCapture(StateOf(v), Input(c, v))
                 /\ StateOf(v)' = ProduceCapture(StateOf(v), Input(c, v))
           /\ \A v \in Vehicles \ Involved(c) :
                 v \notin DOMAIN states /\ StateOf(v)' = NewProducerState(run.activation)
<1>1. Involved(c) \subseteq Vehicles
  BY DEF Involved, RowsOf, IInv, TypeOK
<1>2. states' = NextStates(c)
  BY Committed
<1>3. DOMAIN states' = Involved(c) /\ \A v \in Involved(c) : states'[v] = ProduceCapture(StateOf(v), Input(c, v))
  BY <1>2 DEF NextStates
<1>4. DOMAIN states \subseteq Involved(c) /\ run'.activation = run.activation
  BY Committed DEF Involved
<1>q. QED
  BY <1>1, <1>3, <1>4 DEF StateOf

\* The fields of a produced state.
LEMMA ProducedFields ==
    ASSUME IInv, NEW c, Commit(c), NEW v \in Involved(c)
    PROVE  /\ StateOf(v)'.lastCapture = c.id /\ StateOf(v)'.lastReceived = c.receivedAt
           /\ StateOf(v)'.latestSeen = Seen(c, v)
           /\ StateOf(v)'.closedThrough = IF ClosesNow(c, v) THEN Seen(c, v) ELSE StateOf(v).closedThrough
           /\ StateOf(v)'.missing = MissingNow(c, v)
           /\ StateOf(v)'.open = IF ClosesNow(c, v) THEN NoSequence
                                 ELSE Accumulate(NoSequence, Evidence(v) \cup Accepted(c, v))
           /\ Evidence(v)' = IF ClosesNow(c, v) THEN {} ELSE Evidence(v) \cup Accepted(c, v)
<1>1. StateOf(v)' = ProduceCapture(StateOf(v), Input(c, v)) /\ v \in Vehicles
  BY VehiclesOf
<1>2. /\ Accumulate(StateOf(v).open, Accepted(c, v)) =
            Accumulate(NoSequence, Evidence(v) \cup Accepted(c, v))
      /\ Accumulate(StateOf(v).open, Accepted(c, v)).evidence = Evidence(v) \cup Accepted(c, v)
  BY <1>1, RowsTaken DEF Commit
<1>3. Input(c, v).id = c.id /\ Input(c, v).receivedAt = c.receivedAt
  BY DEF Input
<1>4. NoSequence.evidence = {}
  BY DEF NoSequence
<1>5. /\ StateOf(v)'.lastCapture = c.id /\ StateOf(v)'.lastReceived = c.receivedAt
      /\ StateOf(v)'.latestSeen = Seen(c, v)
      /\ StateOf(v)'.closedThrough = IF ClosesNow(c, v) THEN Seen(c, v) ELSE StateOf(v).closedThrough
      /\ StateOf(v)'.missing = MissingNow(c, v)
      /\ StateOf(v)'.open = IF ClosesNow(c, v) THEN NoSequence
                            ELSE Accumulate(StateOf(v).open, Accepted(c, v))
  BY <1>1, <1>3 DEF ProduceCapture, Seen, ClosesNow, MissingNow, Accepted
<1>6. Evidence(v)' = StateOf(v)'.open.evidence
  BY DEF Evidence
<1>q. QED
  BY <1>2, <1>4, <1>5, <1>6

\* The complete captures since a row, after one more.
LEMMA SinceAfter ==
    ASSUME IInv, NEW c, Commit(c), NEW r, r.capture \in Nat
    PROVE  /\ IsFiniteSet(Since(r)) /\ Cardinality(Since(r)) \in Nat
           /\ r.capture = c.id => Cardinality(Since(r)') = 0
           /\ r.capture < c.id => Cardinality(Since(r)') = IF c.partial THEN Cardinality(Since(r))
                                                          ELSE Cardinality(Since(r)) + 1
<1> DEFINE e == [id |-> c.id, partial |-> c.partial]
<1>1. consumed' = consumed \cup {e}
  BY Committed
<1>2. Since(r) \in SUBSET consumed /\ IsFiniteSet(consumed)
  BY DEF Since, IInv, RunKept
<1>3. IsFiniteSet(Since(r)) /\ Cardinality(Since(r)) \in Nat
  BY <1>2, FS_Subset, FS_CardinalityType
<1>4. c.id \in Nat /\ c.id > run.checkpoint /\ c.partial \in BOOLEAN
  BY CaptureComplete, BoundAssumption DEF Commit
<1>5. \A k \in consumed : k.id \in Nat /\ k.id <= run.checkpoint
  BY BoundAssumption DEF IInv, RunKept, TypeOK
<1>6. run.checkpoint \in Nat
  BY BoundAssumption DEF IInv, TypeOK
<1>7. CASE r.capture = c.id
  <2>1. Since(r)' = {}
    BY <1>1, <1>4, <1>5, <1>6, <1>7 DEF Since
  <2>2. Cardinality({}) = 0
    BY FS_EmptySet
  <2>3. Cardinality(Since(r)') = 0
    BY <2>1, <2>2
  <2>q. QED
    BY <1>3, <1>7, <2>3
<1>8. CASE r.capture < c.id /\ c.partial
  <2>1. Since(r)' = Since(r)
    BY <1>1, <1>8 DEF Since
  <2>q. QED
    BY <1>3, <1>4, <1>8, <2>1
<1>9. CASE r.capture < c.id /\ ~c.partial
  <2>1. Since(r)' = Since(r) \cup {e}
    BY <1>1, <1>9 DEF Since
  <2>2. e \notin Since(r)
    BY <1>2, <1>4, <1>5, <1>6
  <2> HIDE DEF e
  <2>3. Cardinality(Since(r) \cup {e}) = Cardinality(Since(r)) + 1
    BY <1>3, <2>2, FS_AddElement
  <2>q. QED
    BY <1>3, <1>4, <1>9, <2>1, <2>3
<1>10. CASE ~(r.capture = c.id) /\ ~(r.capture < c.id)
  BY <1>3, <1>10
<1>q. QED
  BY <1>7, <1>8, <1>9, <1>10

\* The state that is committed is sound.
LEMMA ProducedSound ==
    ASSUME IInv, NEW c, Commit(c), NEW v \in Involved(c)
    PROVE  Sound(states[v], v)'
<1>p. PICK s, t, E, A : s = StateOf(v) /\ t = StateOf(v)' /\ E = Evidence(v) /\ A = Accepted(c, v)
  OBVIOUS
<1>0. v \in Vehicles /\ states'[v] = t /\ Processable(c)
  BY <1>p, VehiclesOf DEF Commit
<1>1. /\ t.latestSeen = Seen(c, v)
      /\ t.closedThrough = IF ClosesNow(c, v) THEN Seen(c, v) ELSE s.closedThrough
      /\ t.missing = MissingNow(c, v)
      /\ t.open = IF ClosesNow(c, v) THEN NoSequence ELSE Accumulate(NoSequence, E \cup A)
      /\ t.open.evidence = IF ClosesNow(c, v) THEN {} ELSE E \cup A
  BY <1>p, ProducedFields DEF Evidence
<1>2. /\ s.latestSeen \in Nat /\ s.closedThrough \in Nat
      /\ Seen(c, v) \in Nat /\ s.latestSeen <= Seen(c, v)
      /\ \A r \in A : r.at <= Seen(c, v)
      /\ Seen(c, v) = s.latestSeen \/ \E r \in A : r.at = Seen(c, v)
  BY <1>p, <1>0, SeenAfter
<1>3. /\ s.closedThrough <= s.latestSeen
      /\ E = {} => /\ s.closedThrough = s.latestSeen
                   /\ s.missing = IF s.latestSeen = 0 THEN 0 ELSE MissingCaptureLimit
      /\ E # {} => /\ s.missing \in 0..(MissingCaptureLimit - 1)
                   /\ \A r \in E : r.at <= s.latestSeen
                   /\ \E r \in E : r.at = s.latestSeen /\ s.missing = Cardinality(Since(r))
  BY <1>p, <1>0, EveryStateSound DEF IInv, Sound, Evidence
<1>4. /\ \A r \in E : r.capture \in Nat /\ r.capture < c.id
      /\ \A r \in A : r.capture = c.id /\ c.id \in Nat
      /\ \A r \in E \cup A : /\ r.at \in Nat /\ r.at > s.closedThrough /\ r.vehicle = v
                             /\ r \in arrived /\ r.capture \in ids /\ r.capture <= c.id
  <2>1. c.id \in Nat /\ c.id > run.checkpoint /\ run.checkpoint \in Nat
    BY <1>0, CaptureComplete, BoundAssumption DEF IInv, TypeOK
  <2>2. /\ \A r \in E : r.capture \in Nat /\ r.capture <= run.checkpoint
        /\ \A r \in A : r.capture = c.id
        /\ \A r \in E \cup A : /\ r.at \in Nat /\ r.at > s.closedThrough /\ r.vehicle = v
                               /\ r \in arrived /\ r.capture \in ids /\ r.capture <= c.id
    BY <1>p, <1>0, RowsTaken
  <2>q. QED
    BY <2>1, <2>2
<1>5. MissingCaptureLimit \in Nat /\ MissingCaptureLimit # 0
  BY MissingAssumption
<1>6. E \cup A \subseteq {r \in Processed(v)' : r.at > s.closedThrough}
  <2>1. arrived' = arrived /\ ids' = ids /\ run'.checkpoint = c.id
    BY Committed
  <2>q. QED
    BY <1>4, <2>1 DEF Processed
<1>7. CASE ClosesNow(c, v)
  <2>1. /\ E # {} /\ ~Updates(c, v) /\ MissingNow(c, v) = MissingCaptureLimit
        /\ Seen(c, v) = s.latestSeen
    BY <1>p, <1>0, <1>7, ClosesAtLimit, WithoutUpdate
  <2>2. s.latestSeen # 0
    <3>1. PICK r \in E : r.at \in Nat /\ r.at > s.closedThrough /\ r.at <= s.latestSeen
      BY <1>3, <1>4, <2>1
    <3>q. QED
      BY <1>2, <3>1
  <2>3. Accumulate(NoSequence, {}) = NoSequence
    BY DEF Accumulate
  <2>4. t.open = NoSequence /\ t.open.evidence = {} /\ t.closedThrough = Seen(c, v)
    BY <1>1, <1>7
  <2>5. /\ t.latestSeen \in Nat /\ t.closedThrough \in Nat /\ t.closedThrough <= t.latestSeen
        /\ t.closedThrough = t.latestSeen
        /\ t.missing = IF t.latestSeen = 0 THEN 0 ELSE MissingCaptureLimit
    BY <1>1, <1>2, <2>1, <2>2, <2>4
  <2>q. QED
    BY <1>0, <2>3, <2>4, <2>5 DEF Sound
<1>8. CASE ~ClosesNow(c, v)
  <2>1. /\ t.open = Accumulate(NoSequence, E \cup A) /\ t.open.evidence = E \cup A
        /\ t.closedThrough = s.closedThrough /\ t.latestSeen = Seen(c, v) /\ t.missing = MissingNow(c, v)
    BY <1>1, <1>8
  <2>2. E \cup A \subseteq Waiting(t, v)'
    BY <1>6, <2>1 DEF Waiting
  <2>3. E \cup A = {} => /\ t.closedThrough = t.latestSeen
                         /\ t.missing = IF t.latestSeen = 0 THEN 0 ELSE MissingCaptureLimit
    <3>1. SUFFICES ASSUME E = {}, A = {}
                   PROVE  /\ t.closedThrough = t.latestSeen
                          /\ t.missing = IF t.latestSeen = 0 THEN 0 ELSE MissingCaptureLimit
      OBVIOUS
    <3>2. ~Updates(c, v)
      BY <1>p, <3>1 DEF Updates, Updated, Accepted
    <3>3. Seen(c, v) = s.latestSeen /\ MissingNow(c, v) = s.missing
      BY <1>p, <1>0, <3>1, <3>2, WithoutUpdate, MissingAfter
    <3>q. QED
      BY <1>3, <2>1, <3>1, <3>3
  <2>4. ASSUME E \cup A # {}
        PROVE  /\ t.missing \in 0..(MissingCaptureLimit - 1)
               /\ \A r \in E \cup A : r.at <= t.latestSeen
               /\ \E r \in E \cup A : r.at = t.latestSeen /\ t.missing = Cardinality(Since(r)')
    <3>1. \A r \in E \cup A : r.at <= t.latestSeen
      <4>q. QED
        BY <1>2, <1>3, <1>4, <2>1
    <3>2. CASE Updates(c, v)
      <4>1. \E r \in A : r.at > s.latestSeen
        BY <1>p, <3>2 DEF Updates, Updated, Accepted
      <4>2. PICK r \in A : r.at = Seen(c, v)
        <5>q. QED
          BY <1>2, <1>4, <4>1
      <4>3. Cardinality(Since(r)') = 0
        BY <1>4, <4>2, SinceAfter
      <4>4. t.missing = 0
        BY <1>0, <2>1, <3>2, MissingAfter
      <4>q. QED
        BY <1>5, <2>1, <3>1, <4>2, <4>3, <4>4
    <3>3. CASE ~Updates(c, v)
      <4>1. E # {} /\ Seen(c, v) = s.latestSeen
        BY <1>p, <1>0, <2>4, <3>3, WithoutUpdate
      <4>2. PICK r \in E : r.at = s.latestSeen /\ s.missing = Cardinality(Since(r))
        BY <1>3, <4>1
      <4>3. r.capture \in Nat /\ r.capture < c.id
        BY <1>4
      <4>4. Cardinality(Since(r)') = IF c.partial THEN s.missing ELSE s.missing + 1
        BY <4>2, <4>3, SinceAfter
      <4>5. t.missing = IF ~c.partial THEN s.missing + 1 ELSE s.missing
        BY <1>p, <1>0, <2>1, <3>3, <4>1, MissingAfter
      <4>6. ~c.partial => s.missing # MissingCaptureLimit - 1
        BY <1>p, <1>0, <1>8, <3>3, <4>1, ClosesAtLimit
      <4>7. s.missing \in 0..(MissingCaptureLimit - 1) /\ c.partial \in BOOLEAN
        BY <1>0, <1>3, <4>1, CaptureComplete
      <4>8. t.missing \in 0..(MissingCaptureLimit - 1)
        BY <1>5, <4>5, <4>6, <4>7
      <4>9. t.missing = Cardinality(Since(r)')
        BY <4>4, <4>5, <4>7
      <4>q. QED
        BY <2>1, <3>1, <4>1, <4>2, <4>8, <4>9
    <3>q. QED
      BY <3>2, <3>3
  <2>5. t.latestSeen \in Nat /\ t.closedThrough \in Nat /\ t.closedThrough <= t.latestSeen
    <3>q. QED
      BY <1>2, <1>3, <2>1
  <2>6. /\ t.open.evidence \subseteq Waiting(t, v)'
        /\ t.open = Accumulate(NoSequence, t.open.evidence)
    BY <2>1, <2>2
  <2>q. QED
    BY <1>0, <2>1, <2>3, <2>4, <2>5, <2>6 DEF Sound
<1>q. QED
  BY <1>7, <1>8

\* What is published at a closure: segments of the rows the sequence took.
LEMMA PublishedAfter ==
    ASSUME IInv, NEW c, Commit(c), NEW v \in Vehicles
    PROVE  published'[v] = published[v] \cup
              IF v \in Involved(c) /\ ClosesNow(c, v) THEN Segments(Evidence(v) \cup Accepted(c, v)) ELSE {}
<1>1. published'[v] = published[v] \cup
          IF v \in Involved(c) THEN ProducedSegments(StateOf(v), Input(c, v)) ELSE {}
  <2>1. published' = [u \in Vehicles |-> published[u] \cup
                         IF u \in Involved(c) THEN ProducedSegments(StateOf(u), Input(c, u)) ELSE {}]
    BY Committed
  <2>q. QED
    BY <2>1
<1>2. CASE v \in Involved(c) /\ ClosesNow(c, v)
  BY <1>1, <1>2, ReplayTaken DEF ProducedSegments, ClosesNow, Commit
<1>3. CASE ~(v \in Involved(c) /\ ClosesNow(c, v))
  BY <1>1, <1>3 DEF ProducedSegments, ClosesNow
<1>q. QED
  BY <1>2, <1>3

LEMMA CommitKeeps ==
    ASSUME IInv, NEW c, Commit(c)
    PROVE  IInv'
<1>0. /\ Processable(c) /\ c \in captures /\ c.id \in 1..MaximumCaptures /\ c.receivedAt \in 1..MaximumTime
      /\ c.partial \in BOOLEAN /\ c.id > run.checkpoint /\ c.id < nextCapture
      /\ run.active /\ c.id \in ids
  BY CaptureComplete DEF Commit
<1>1. TypeOK'
  <2>1. run' \in [active: BOOLEAN, activatedAt: 0..MaximumTime, activation: 0..MaximumCaptures,
                  checkpoint: 0..MaximumCaptures, lastReceived: 0..MaximumTime]
    <3>1. /\ run \in [active: BOOLEAN, activatedAt: 0..MaximumTime, activation: 0..MaximumCaptures,
                      checkpoint: 0..MaximumCaptures, lastReceived: 0..MaximumTime]
          /\ run' = [run EXCEPT !.checkpoint = c.id, !.lastReceived = c.receivedAt]
      BY Committed DEF IInv, TypeOK
    <3>2. c.id \in 0..MaximumCaptures /\ c.receivedAt \in 0..MaximumTime
      BY <1>0, BoundAssumption
    <3>q. QED
      BY <3>1, <3>2
  <2>2. layouts' \subseteq Scopes
    <3>1. layouts' = layouts \cup {r.scope : r \in RowsOf(c)}
      BY Committed
    <3>2. layouts \subseteq Scopes /\ \A r \in RowsOf(c) : r.scope \in Scopes
      BY DEF IInv, TypeOK, RowsOf
    <3>q. QED
      BY <3>1, <3>2
  <2>3. DOMAIN states' \subseteq Vehicles
    BY VehiclesOf
  <2>4. published' \in [Vehicles -> SUBSET SUBSET arrived]
    <3>1. ASSUME NEW v \in Vehicles PROVE published'[v] \subseteq SUBSET arrived
      <4>1. Evidence(v) \cup Accepted(c, v) \subseteq arrived
        BY <1>0, RowsTaken
      <4>2. Segments(Evidence(v) \cup Accepted(c, v)) \subseteq SUBSET arrived
        BY <4>1 DEF Segments, SegmentOf
      <4>3. published[v] \subseteq SUBSET arrived
        BY DEF IInv, TypeOK
      <4>q. QED
        BY <4>2, <4>3, PublishedAfter
    <3>2. published' = [v \in Vehicles |-> published'[v]]
      BY Committed
    <3>q. QED
      BY <3>1, <3>2
  <2>5. consumed' \subseteq [id: 1..MaximumCaptures, partial: BOOLEAN]
    <3>1. consumed' = consumed \cup {[id |-> c.id, partial |-> c.partial]}
      BY Committed
    <3>2. consumed \subseteq [id: 1..MaximumCaptures, partial: BOOLEAN]
      BY DEF IInv, TypeOK
    <3>q. QED
      BY <1>0, <3>1, <3>2
  <2>6. phase' = "idle" /\ UNCHANGED <<clock, catalogue, captures, raw, nextCapture, arrived, ids>>
    BY Committed
  <2>q. QED
    BY <2>1, <2>2, <2>3, <2>4, <2>5, <2>6 DEF IInv, TypeOK
<1>2. SourceKept'
  <2>1. UNCHANGED <<clock, captures, raw, nextCapture, arrived>>
    BY Committed
  <2>q. QED
    BY <2>1 DEF IInv, SourceKept, Expired, Day
<1>3. RunKept'
  <2>1. /\ run'.checkpoint = c.id /\ run'.lastReceived = c.receivedAt
        /\ run'.active = run.active /\ run'.activation = run.activation
        /\ UNCHANGED <<captures, nextCapture, ids>>
        /\ consumed' = consumed \cup {[id |-> c.id, partial |-> c.partial]}
    BY Committed
  <2>2. run.activation \in Nat /\ run.checkpoint \in Nat /\ run.activation <= run.checkpoint /\ c.id \in Nat
    BY <1>0, BoundAssumption DEF IInv, TypeOK, RunKept
  <2>3. c.receivedAt # 0 /\ run.activation < c.id
    BY <1>0, <2>2, BoundAssumption
  <2>4. IsFiniteSet(consumed')
    BY <2>1, FS_AddElement DEF IInv, RunKept
  <2>5. \A k \in consumed' : k.id \in ids' /\ k.id <= c.id
    <3>1. \A k \in consumed : k.id \in Nat /\ k.id \in ids /\ k.id <= run.checkpoint
      BY BoundAssumption DEF IInv, RunKept, TypeOK
    <3>q. QED
      BY <1>0, <2>1, <2>2, <3>1
  <2>6. /\ \A k \in ids' : run'.activation < k
        /\ \A d \in captures' : run'.active /\ d.id > run'.activation => d.id \in ids'
    BY <2>1 DEF IInv, RunKept
  <2>q. QED
    BY <1>0, <2>1, <2>2, <2>3, <2>4, <2>5, <2>6 DEF RunKept
<1>4. StatesKept'
  <2>1. run'.checkpoint = c.id /\ run'.lastReceived = c.receivedAt /\ DOMAIN states' = Involved(c)
    BY Committed, VehiclesOf
  <2>2. ASSUME NEW v \in Involved(c)
        PROVE  states'[v].lastCapture = c.id /\ states'[v].lastReceived = c.receivedAt /\ Sound(states[v], v)'
    <3>1. states'[v] = StateOf(v)'
      BY <2>2, VehiclesOf
    <3>2. StateOf(v)'.lastCapture = c.id /\ StateOf(v)'.lastReceived = c.receivedAt
      BY <2>2, ProducedFields
    <3>q. QED
      BY <2>2, <3>1, <3>2, ProducedSound
  <2>q. QED
    BY <2>1, <2>2 DEF StatesKept
<1>5. PublishedKept'
  <2>1. ASSUME NEW v \in Vehicles, NEW g \in published'[v], NEW r \in g
        PROVE  r.at <= StateOf(v)'.closedThrough
    <3>1. /\ StateOf(v).latestSeen \in Nat /\ StateOf(v).closedThrough \in Nat
          /\ Seen(c, v) \in Nat /\ StateOf(v).latestSeen <= Seen(c, v)
          /\ \A q \in Accepted(c, v) : q.at <= Seen(c, v)
      BY <1>0, SeenAfter
    <3>2. StateOf(v).closedThrough <= StateOf(v).latestSeen
      BY EveryStateSound DEF IInv, Sound
    <3>3. \A q \in Evidence(v) : q.at <= StateOf(v).latestSeen
      BY EveryStateSound DEF IInv, Sound, Evidence
    <3>4. CASE g \in published[v]
      <4>1. r.at <= StateOf(v).closedThrough
        BY <3>4 DEF IInv, PublishedKept
      <4>2. r.at \in Nat
        BY <3>4 DEF IInv, TypeOK
      <4>3. CASE v \in Involved(c)
        <5>1. StateOf(v)'.closedThrough = IF ClosesNow(c, v) THEN Seen(c, v) ELSE StateOf(v).closedThrough
          BY <4>3, ProducedFields
        <5>q. QED
          BY <3>1, <3>2, <4>1, <4>2, <5>1
      <4>4. CASE v \notin Involved(c)
        <5>1. StateOf(v)' = NewProducerState(run.activation) /\ StateOf(v) = NewProducerState(run.activation)
          BY <4>4, VehiclesOf DEF StateOf
        <5>2. StateOf(v)'.closedThrough = StateOf(v).closedThrough
          BY <5>1 DEF NewProducerState
        <5>q. QED
          BY <4>1, <5>2
      <4>q. QED
        BY <4>3, <4>4
    <3>5. CASE g \notin published[v]
      <4>1. v \in Involved(c) /\ ClosesNow(c, v) /\ g \in Segments(Evidence(v) \cup Accepted(c, v))
        BY <2>1, <3>5, PublishedAfter
      <4>2. r \in Evidence(v) \cup Accepted(c, v)
        BY <2>1, <4>1 DEF Segments, SegmentOf
      <4>3. StateOf(v)'.closedThrough = Seen(c, v)
        BY <4>1, ProducedFields
      <4>4. r.at \in Nat
        BY <1>0, <4>2, RowsTaken
      <4>q. QED
        BY <3>1, <3>3, <4>2, <4>3, <4>4
    <3>q. QED
      BY <3>4, <3>5
  <2>q. QED
    BY <2>1 DEF PublishedKept
<1>q. QED
  BY <1>1, <1>2, <1>3, <1>4, <1>5 DEF IInv

\* A transaction that processes a capture is one that commits it.
LEMMA ProcessCommits == ProcessCapture => \E c : Commit(c)
<1> SUFFICES ASSUME ProcessCapture PROVE \E c : Commit(c)
  OBVIOUS
<1>1. Verdict(NextCapture) = "processed"
  BY DEF ProcessCapture
<1>2. InOrder(NextCapture) /\ ~SourceIncomplete(NextCapture) /\ AllProducible(NextCapture)
  BY <1>1 DEF Verdict
<1>q. QED
  BY <1>2 DEF ProcessCapture, Commit, Processable

LEMMA InvariantKept == IInv /\ [Next]_vars => IInv'
<1> SUFFICES ASSUME IInv, [Next]_vars PROVE IInv'
  OBVIOUS
<1>1. CASE Tick
  BY <1>1, TickKeeps
<1>2. ASSUME NEW delivery \in Deliveries, NEW scope \in Scopes, NEW partial \in BOOLEAN,
             NEW received \in {t \in (clock - ClockSlip)..clock : t > 0},
             StoreCapture(delivery, scope, received, partial)
      PROVE  IInv'
  BY <1>2, StoreKeeps
<1>3. CASE StoreFails
  BY <1>3, StoreFailsKeeps
<1>4. CASE Purge
  BY <1>4, PurgeKeeps
<1>5. CASE ReloadCatalogue
  BY <1>5, ReloadKeeps
<1>6. CASE Activate
  BY <1>6, ActivateKeeps
<1>7. CASE ProcessCapture
  BY <1>7, ProcessCommits, CommitKeeps
<1>8. CASE Uncommitted
  BY <1>8, UncommittedKeeps
<1>9. CASE UNCHANGED vars
  <2>1. UNCHANGED <<source, derived>> /\ phase' = phase
    BY <1>9 DEF vars
  <2>2. phase \in {"inactive", "idle", "begun", "pinned"} \cup Stops /\ (run.active \/ phase = "inactive")
    BY DEF IInv, TypeOK, RunKept
  <2>q. QED
    BY <2>1, <2>2, PhaseKeeps
<1>q. QED
  BY <1>1, <1>2, <1>3, <1>4, <1>5, <1>6, <1>7, <1>8, <1>9 DEF Next, Finish, Uncommitted

\* The stored captures, the checkpoint and the descriptors agree in every state,
\* whatever is delivered late or twice, purged, reloaded, undone or restarted.
THEOREM Invariance == Spec => []IInv
BY InitInvariant, InvariantKept, PTL DEF Spec

-----------------------------------------------------------------------------
(* What follows from the invariant.                                        *)

\* A state that is committed passes the validation of a recovery.
LEMMA SoundIsValid == IInv => StatesRecover
<1> SUFFICES ASSUME IInv, NEW v \in DOMAIN states
             PROVE  ValidState(states[v], run.activation) /\ states[v].lastCapture = run.checkpoint
  BY DEF StatesRecover
<1>p. PICK s, rows : s = states[v] /\ rows = s.open.evidence
  OBVIOUS
<1>1. /\ v \in Vehicles /\ s = StateOf(v)
      /\ s.lastCapture = run.checkpoint /\ s.lastReceived = run.lastReceived
      /\ Sound(s, v)
  BY <1>p DEF IInv, TypeOK, StatesKept, StateOf
<1>2. /\ run.activation \in Nat /\ run.checkpoint \in Nat /\ run.activation <= run.checkpoint
      /\ run.checkpoint = run.activation <=> run.lastReceived = 0
      /\ run.checkpoint # run.activation
  BY BoundAssumption DEF IInv, TypeOK, RunKept
<1>3. /\ s.latestSeen \in Nat /\ s.closedThrough \in Nat /\ s.closedThrough <= s.latestSeen
      /\ rows \subseteq Waiting(s, v) /\ s.open = Accumulate(NoSequence, rows)
      /\ rows = {} => /\ s.closedThrough = s.latestSeen
                      /\ s.missing = IF s.latestSeen = 0 THEN 0 ELSE MissingCaptureLimit
      /\ rows # {} => /\ s.missing \in 0..(MissingCaptureLimit - 1)
                      /\ \A r \in rows : r.at <= s.latestSeen
                      /\ \E r \in rows : r.at = s.latestSeen
  BY <1>p, <1>1 DEF Sound
<1>4. MissingCaptureLimit \in Nat /\ MissingCaptureLimit # 0
  BY MissingAssumption
<1>5. /\ rows \subseteq arrived /\ StoredRows(rows)
      /\ IsOpenSequence(s.open) <=> rows # {}
      /\ rows # {} => s.open = DescriptorOf(rows)
  BY <1>p, <1>1, EvidenceStored DEF IInv
<1>6. CASE rows = {}
  <2>1. s.open = NoSequence /\ ~IsOpenSequence(s.open)
    BY <1>3, <1>5, <1>6, Described
  <2>2. s.closedThrough = s.latestSeen /\ s.missing = IF s.latestSeen = 0 THEN 0 ELSE MissingCaptureLimit
    BY <1>3, <1>6
  <2>3. s.missing \in 0..MissingCaptureLimit
    BY <1>4, <2>2
  <2>4. s.latestSeen = 0 => s.closedThrough = 0 /\ s.missing = 0
    BY <2>2
  <2>5. s.latestSeen # 0 => s.missing = MissingCaptureLimit
    BY <2>2
  <2>6. ValidState(s, run.activation)
    BY <1>1, <1>2, <1>3, <2>1, <2>2, <2>3, <2>4, <2>5 DEF ValidState
  <2>q. QED
    BY <1>p, <1>1, <2>6
<1>7. CASE rows # {}
  <2>1. s.open = DescriptorOf(rows) /\ IsOpenSequence(s.open)
    BY <1>5, <1>7
  <2>2. /\ IdsOf(rows) \subseteq Nat /\ TimesOf(rows) \subseteq Nat
        /\ Least(IdsOf(rows)) \in IdsOf(rows) /\ Greatest(IdsOf(rows)) \in IdsOf(rows)
        /\ Least(TimesOf(rows)) \in TimesOf(rows) /\ Greatest(TimesOf(rows)) \in TimesOf(rows)
        /\ \A r \in rows : /\ Least(IdsOf(rows)) <= r.capture /\ r.capture <= Greatest(IdsOf(rows))
                           /\ Least(TimesOf(rows)) <= r.at /\ r.at <= Greatest(TimesOf(rows))
    BY <1>5, <1>7, RowBounds
  <2>3. /\ s.open.first = Least(IdsOf(rows)) /\ s.open.last = Greatest(IdsOf(rows))
        /\ s.open.earliest = Least(TimesOf(rows)) /\ s.open.latest = Greatest(TimesOf(rows))
        /\ s.open.observations = Cardinality(rows) /\ s.open.scopes = ScopesOf(rows)
    BY <2>1 DEF DescriptorOf
  <2>4. Cardinality(s.open.scopes) <= s.open.observations
    BY <1>5, <2>3, ScopesCounted DEF StoredRows
  <2>5. \A r \in rows : /\ r.capture \in ids /\ r.capture <= run.checkpoint /\ r.at > s.closedThrough
                        /\ r.at \in Nat /\ r.capture \in Nat
    BY <1>3, BoundAssumption DEF Waiting, Processed, IInv, TypeOK
  <2>6. \A k \in ids : run.activation < k
    BY DEF IInv, RunKept
  <2>7. PICK a \in rows : a.capture = s.open.first
    BY <2>2, <2>3 DEF IdsOf
  <2>8. PICK b \in rows : b.capture = s.open.last
    BY <2>2, <2>3 DEF IdsOf
  <2>9. PICK e \in rows : e.at = s.open.earliest
    BY <2>2, <2>3 DEF TimesOf
  <2>10. PICK l \in rows : l.at = s.open.latest
    BY <2>2, <2>3 DEF TimesOf
  <2>11. PICK n \in rows : n.at = s.latestSeen
    BY <1>3, <1>7
  <2>12. run.activation < s.open.first /\ s.open.last <= run.checkpoint
    BY <2>5, <2>6, <2>7, <2>8
  <2>13. s.open.first <= s.open.last
    <3>1. s.open.first <= a.capture /\ a.capture <= s.open.last
      BY <2>2, <2>3
    <3>q. QED
      BY <2>5, <2>7, <3>1
  <2>14. s.open.earliest <= s.open.latest
    <3>1. e.at <= s.open.latest
      BY <2>2, <2>3
    <3>q. QED
      BY <2>9, <3>1
  <2>15. s.open.latest = s.latestSeen
    <3>1. l.at <= s.latestSeen /\ n.at <= s.open.latest
      BY <1>3, <1>7, <2>2, <2>3
    <3>2. l.at \in Nat /\ n.at \in Nat
      BY <2>5
    <3>q. QED
      BY <2>10, <2>11, <3>1, <3>2
  <2>16. s.closedThrough < s.open.earliest
    BY <1>3, <2>5, <2>9
  <2>17. s.latestSeen # 0
    BY <1>3, <2>5, <2>11
  <2>18. s.missing \in 0..MissingCaptureLimit /\ s.missing # MissingCaptureLimit
    BY <1>3, <1>4, <1>7
  <2>q. QED
    BY <1>p, <1>1, <1>2, <1>3, <2>1, <2>4, <2>12, <2>13, <2>14, <2>15, <2>16, <2>17, <2>18 DEF ValidState
<1>q. QED
  BY <1>p, <1>1, <1>6, <1>7

\* The absences of an open sequence count from its newest row.
LEMMA SoundCountsAbsences == IInv => AbsencesAreConsecutive
<1> SUFFICES ASSUME IInv, NEW v \in OpenStates(states)
             PROVE  \E r \in Processed(v) :
                        /\ r.at = states[v].latestSeen
                        /\ states[v].missing = Cardinality({c \in consumed : c.id > r.capture /\ ~c.partial})
  BY DEF AbsencesAreConsecutive
<1>1. v \in DOMAIN states /\ v \in Vehicles /\ IsOpenSequence(states[v].open) /\ states[v] = StateOf(v)
  BY DEF OpenStates, IInv, TypeOK, StateOf
<1>2. Sound(states[v], v) /\ states[v].open.evidence # {}
  BY <1>1, EvidenceStored DEF IInv, StatesKept
<1>q. QED
  BY <1>2 DEF Sound, Waiting, Since

\* Every state that is committed is one that a recovery accepts.
THEOREM CommittedStatesRecover == Spec => []StatesRecover
BY Invariance, SoundIsValid, PTL

\* Partial, late and repeated captures, aborts and restarts are no absences: an
\* open sequence counts the complete captures since its newest row.
THEOREM AbsencesAreCounted == Spec => []AbsencesAreConsecutive
BY Invariance, SoundCountsAbsences, PTL

-----------------------------------------------------------------------------
(* The log that is implemented.                                            *)

LEMMA LogBegins == Init => Log!Init
BY DEF Init, Log!Init, StateOf, NewProducerState, NoSequence

\* The segments of rows: every row is in one.
LEMMA SegmentsCover ==
    ASSUME NEW rows, \A r \in rows : r.at \in Nat, \A r, q \in rows : r.at = q.at => r = q
    PROVE  /\ UNION Segments(rows) = rows
           /\ \A g \in Segments(rows) : g # {} /\ g \subseteq rows
<1>1. \A r \in rows : r \in SegmentOf(rows, r) /\ SegmentOf(rows, r) \subseteq rows
  BY DEF SegmentOf, Unbroken, Between
<1>q. QED
  BY <1>1 DEF Segments

\* A capture is received by every vehicle whose sequence goes on.
LEMMA ReceivedInLog ==
    ASSUME IInv, NEW c, Commit(c), NEW v \in Vehicles, ~(v \in Involved(c) /\ ClosesNow(c, v))
    PROVE  /\ StateOf(v).open.evidence \subseteq StateOf(v)'.open.evidence
           /\ \A r \in StateOf(v)'.open.evidence : r.at \in Nat /\ r.at > StateOf(v).closedThrough
           /\ \A r, q \in StateOf(v)'.open.evidence : r.at = q.at => r = q
           /\ StateOf(v)'.closedThrough = StateOf(v).closedThrough
           /\ published'[v] = published[v]
<1>1. published'[v] = published[v]
  BY PublishedAfter
<1>2. CASE v \in Involved(c)
  <2>1. /\ StateOf(v)'.open.evidence = Evidence(v) \cup Accepted(c, v)
        /\ StateOf(v)'.closedThrough = StateOf(v).closedThrough
    BY <1>2, ProducedFields DEF Evidence
  <2>2. /\ \A r \in Evidence(v) \cup Accepted(c, v) : r.at \in Nat /\ r.at > StateOf(v).closedThrough
        /\ \A r, q \in Evidence(v) \cup Accepted(c, v) : r.at = q.at => r = q
    BY RowsTaken DEF Commit
  <2>q. QED
    BY <1>1, <2>1, <2>2 DEF Evidence
<1>3. CASE v \notin Involved(c)
  <2>1. StateOf(v)' = NewProducerState(run.activation) /\ StateOf(v) = NewProducerState(run.activation)
    BY <1>3, VehiclesOf DEF StateOf
  <2>2. NewProducerState(run.activation).open.evidence = {}
    BY DEF NewProducerState, NoSequence
  <2>q. QED
    BY <1>1, <2>1, <2>2
<1>q. QED
  BY <1>2, <1>3

\* A closure measures every row that waited and those of the capture, at once.
LEMMA FinalizedInLog ==
    ASSUME IInv, NEW c, Commit(c), NEW v \in Vehicles, v \in Involved(c), ClosesNow(c, v)
    PROVE  LET rows == UNION (published'[v] \ published[v])
           IN  /\ StateOf(v).open.evidence \subseteq rows
               /\ \A r \in rows : r.at \in Nat /\ r.at > StateOf(v).closedThrough
               /\ \A r, q \in rows : r.at = q.at => r = q
               /\ \E r \in rows : StateOf(v)'.closedThrough = r.at /\ \A q \in rows : q.at <= r.at
               /\ published'[v] = published[v] \cup Segments(rows)
               /\ StateOf(v)'.open.evidence = {}
<1> DEFINE taken == Evidence(v) \cup Accepted(c, v)
<1>0. Processable(c)
  BY DEF Commit
<1>1. /\ \A r \in taken : r.at \in Nat /\ r.at > StateOf(v).closedThrough
      /\ \A r, q \in taken : r.at = q.at => r = q
  BY <1>0, RowsTaken
<1>2. published'[v] = published[v] \cup Segments(taken)
  BY PublishedAfter
<1>3. UNION Segments(taken) = taken /\ \A g \in Segments(taken) : g # {} /\ g \subseteq taken
  <2> HIDE DEF taken
  <2>q. QED
    BY <1>1, SegmentsCover
<1>4. \A g \in published[v] : \A r \in g : r.at <= StateOf(v).closedThrough
  BY DEF IInv, PublishedKept
<1>5. StateOf(v).closedThrough \in Nat
  BY <1>0, SeenAfter
<1>6. Segments(taken) \cap published[v] = {}
  <2>1. ASSUME NEW g \in Segments(taken), g \in published[v] PROVE FALSE
    <3>1. PICK r \in g : r \in taken
      BY <1>3, <2>1
    <3>2. r.at \in Nat /\ r.at > StateOf(v).closedThrough /\ r.at <= StateOf(v).closedThrough
      BY <1>1, <1>4, <2>1, <3>1
    <3>q. QED
      BY <1>5, <3>2
  <2>q. QED
    BY <2>1
<1>7. UNION (published'[v] \ published[v]) = taken
  <2>1. published'[v] \ published[v] = Segments(taken)
    <3> HIDE DEF taken
    <3>q. QED
      BY <1>2, <1>6
  <2>q. QED
    BY <1>3, <2>1
<1>8. /\ Evidence(v) # {} /\ Seen(c, v) = StateOf(v).latestSeen
      /\ \A r \in taken : r.at <= StateOf(v).latestSeen
  BY <1>0, ClosesAtLimit, WithoutUpdate
<1>9. \E r \in Evidence(v) : r.at = StateOf(v).latestSeen
  BY <1>8, EveryStateSound DEF IInv, Sound, Evidence
<1>10. StateOf(v)'.closedThrough = Seen(c, v) /\ StateOf(v)'.open.evidence = {}
  BY ProducedFields DEF Evidence
<1>11. \E r \in taken : StateOf(v)'.closedThrough = r.at /\ \A q \in taken : q.at <= r.at
  BY <1>8, <1>9, <1>10
<1>12. StateOf(v).open.evidence \subseteq taken
  BY DEF Evidence
<1> HIDE DEF taken
<1>q. QED
  BY <1>1, <1>2, <1>7, <1>10, <1>11, <1>12

\* Committing a capture is a step of the log, for every vehicle.
LEMMA CommitInLog ==
    ASSUME IInv, NEW c, Commit(c)
    PROVE  Log!Next
<1>1. published' = [v \in Vehicles |-> published'[v]]
  <2>1. published' = [v \in Vehicles |-> published[v] \cup
                         IF v \in Involved(c) THEN ProducedSegments(StateOf(v), Input(c, v)) ELSE {}]
    BY Committed
  <2>q. QED
    BY <2>1
<1>2. ASSUME NEW v \in Vehicles PROVE Log!Receive(v) \/ Log!Finalize(v)
  <2>1. CASE v \in Involved(c) /\ ClosesNow(c, v)
    <3>1. Log!Finalize(v)
      BY <2>1, FinalizedInLog DEF Log!Finalize, Log!Measurable, Log!Segments, Log!SegmentOf, Log!Unbroken,
            Log!Between, Segments, SegmentOf, Unbroken, Between
    <3>q. QED
      BY <3>1
  <2>2. CASE ~(v \in Involved(c) /\ ClosesNow(c, v))
    <3>1. Log!Receive(v)
      BY <2>2, ReceivedInLog DEF Log!Receive, Log!Measurable
    <3>q. QED
      BY <3>1
  <2>q. QED
    BY <2>1, <2>2
<1>q. QED
  BY <1>1, <1>2 DEF Log!Next

\* Every other step leaves the log as it is.
LEMMA LogHeld ==
    ASSUME UNCHANGED <<states, published>>, run'.activation = run.activation \/ DOMAIN states = {}
    PROVE  UNCHANGED Log!vars
<1>1. ASSUME NEW v \in Vehicles
      PROVE  StateOf(v)'.open = StateOf(v).open /\ StateOf(v)'.closedThrough = StateOf(v).closedThrough
  BY DEF StateOf, NewProducerState
<1>q. QED
  BY <1>1 DEF Log!vars

LEMMA StepInLog == IInv /\ [Next]_vars => [Log!Next]_(Log!vars)
<1> SUFFICES ASSUME IInv, [Next]_vars PROVE Log!Next \/ UNCHANGED Log!vars
  OBVIOUS
<1>1. CASE ProcessCapture
  BY <1>1, ProcessCommits, CommitInLog
<1>2. CASE Activate
  <2>1. UNCHANGED <<states, published>> /\ DOMAIN states = {}
    BY <1>2 DEF Activate, IInv, RunKept
  <2>q. QED
    BY <2>1, LogHeld
<1>3. CASE Uncommitted
  <2>1. UNCHANGED <<states, published, run>>
    BY <1>3, UncommittedKeeps DEF derived
  <2>q. QED
    BY <2>1, LogHeld
<1>4. CASE \/ Tick \/ StoreFails \/ Purge \/ ReloadCatalogue \/ UNCHANGED vars
           \/ \E delivery \in Deliveries, scope \in Scopes, partial \in BOOLEAN :
                 \E received \in {t \in (clock - ClockSlip)..clock : t > 0} :
                    StoreCapture(delivery, scope, received, partial)
  <2>1. UNCHANGED <<states, published, run>>
    BY <1>4 DEF Tick, StoreFails, Purge, ReloadCatalogue, StoreCapture, vars, derived
  <2>q. QED
    BY <2>1, LogHeld
<1>q. QED
  BY <1>1, <1>2, <1>3, <1>4 DEF Next, Finish, Uncommitted

\* Captures, transactions, layouts and descriptors implement the log: rows wait
\* until the sequence closes, are measured at once and only once, though they
\* arrive late or twice, are purged, and transactions are undone or repeated.
THEOREM LogImplemented == Spec => ImplementsLog
<1>1. Init => Log!Init
  BY LogBegins
<1>2. IInv /\ [Next]_vars => [Log!Next]_(Log!vars)
  BY StepInLog
<1>q. QED
  BY <1>1, <1>2, Invariance, PTL DEF Spec, ImplementsLog, Log!Spec

\* The theorem of the log, for the log that is implemented.
Promise == INSTANCE SequenceLogProofs WITH
    pending <- [v \in Vehicles |-> StateOf(v).open.evidence],
    closed <- [v \in Vehicles |-> StateOf(v).closedThrough],
    measured <- published

LEMMA SameLog == Log!Spec => Promise!Spec
<1>1. Log!Init => Promise!Init
  BY DEF Log!Init, Promise!Init
<1>2. [Log!Next]_(Log!vars) => [Promise!Next]_(Promise!vars)
  BY DEF Log!Next, Promise!Next, Log!vars, Promise!vars, Log!Receive, Promise!Receive,
         Log!Finalize, Promise!Finalize, Log!Measurable, Promise!Measurable,
         Log!Segments, Promise!Segments, Log!SegmentOf, Promise!SegmentOf,
         Log!Unbroken, Promise!Unbroken, Log!Between, Promise!Between
<1>q. QED
  BY <1>1, <1>2, PTL DEF Log!Spec, Promise!Spec

\* The published segments of a vehicle share no row and do not interleave in GPS
\* time, and none crosses a change of scope.
THEOREM PublishedOnce == Spec => []Promise!MeasuredOnce
<1>1. Promise!Spec => []Promise!MeasuredOnce
  BY MissingAssumption, Promise!RowsMeasuredOnce
<1>2. Spec => Log!Spec
  BY LogImplemented DEF ImplementsLog
<1>q. QED
  BY <1>1, <1>2, SameLog, PTL

-----------------------------------------------------------------------------
(* No capture is skipped.                                                  *)

\* The captures that were stored since the activation and not processed are there.
AllRead == \A k \in ids : k > run.checkpoint => \E c \in captures : c.id = k

SourceTaken == NoCaptureSkipped /\ EvidenceIsSource

LEMMA TakenWaits ==
    ASSUME EvidenceIsSource, NEW v \in Vehicles
    PROVE  Waiting(StateOf(v), v) = Evidence(v)
BY DEF EvidenceIsSource, Waiting, Evidence

\* When all of them are there, the next one is the only one the checkpoint passes.
LEMMA OnlyNextPassed ==
    ASSUME IInv, AllRead, NEW c, Processable(c), NEW k \in ids, k > run.checkpoint, k <= c.id
    PROVE  k = c.id
<1>1. PICK d \in captures : d.id = k
  BY DEF AllRead
<1>2. d \in Unread
  BY <1>1 DEF Unread
<1>3. c.id <= d.id /\ c.id \in Nat /\ d.id \in Nat
  BY <1>2, CaptureComplete, BoundAssumption DEF IInv, TypeOK
<1>q. QED
  BY <1>1, <1>3

LEMMA CommitTakes ==
    ASSUME IInv, SourceTaken, AllRead, NEW c, Commit(c)
    PROVE  SourceTaken'
<1>0. /\ Processable(c) /\ c.id \in Nat /\ c.id > run.checkpoint /\ run.checkpoint \in Nat /\ c.id \in ids
      /\ RowsOf(c) = {r \in arrived : r.capture = c.id}
      /\ \A k \in ids : k \in Nat
  BY CaptureComplete, BoundAssumption DEF Commit, IInv, TypeOK
<1>1. /\ run'.checkpoint = c.id /\ ids' = ids /\ arrived' = arrived
      /\ consumed' = consumed \cup {[id |-> c.id, partial |-> c.partial]}
  BY Committed
<1>2. \A k \in ids : k <= c.id <=> k <= run.checkpoint \/ k = c.id
  BY <1>0, OnlyNextPassed
<1>3. NoCaptureSkipped'
  <2>1. {d.id : d \in consumed'} = {d.id : d \in consumed} \cup {c.id}
    <3>1. PICK e : e = [id |-> c.id, partial |-> c.partial]
      OBVIOUS
    <3>2. consumed' = consumed \cup {e} /\ e.id = c.id
      BY <1>1, <3>1
    <3>q. QED
      BY <3>2
  <2>2. {k \in ids : k <= c.id} = {k \in ids : k <= run.checkpoint} \cup {c.id}
    BY <1>0, <1>2
  <2>q. QED
    BY <1>1, <2>1, <2>2 DEF NoCaptureSkipped, SourceTaken
<1>4. ASSUME NEW v \in Vehicles
      PROVE  {r \in Processed(v)' : r.at > StateOf(v)'.closedThrough} = Evidence(v)'
  <2>1. Processed(v)' = Processed(v) \cup {r \in RowsOf(c) : r.vehicle = v}
    BY <1>0, <1>1, <1>2 DEF Processed
  <2>2. Waiting(StateOf(v), v) = Evidence(v)
    BY TakenWaits DEF SourceTaken
  <2>3. Accepted(c, v) = {r \in RowsOf(c) : r.vehicle = v /\ r.at > StateOf(v).closedThrough}
    BY DEF Accepted, AcceptedRows, Input
  <2>4. {r \in Processed(v)' : r.at > StateOf(v).closedThrough} = Evidence(v) \cup Accepted(c, v)
    BY <2>1, <2>2, <2>3 DEF Waiting
  <2>5. CASE v \notin Involved(c)
    <3>1. StateOf(v)' = NewProducerState(run.activation) /\ StateOf(v) = NewProducerState(run.activation)
      BY <2>5, VehiclesOf DEF StateOf
    <3>2. Accepted(c, v) = {}
      BY <2>3, <2>5 DEF Involved
    <3>q. QED
      BY <2>4, <3>1, <3>2 DEF Evidence
  <2>6. CASE v \in Involved(c) /\ ~ClosesNow(c, v)
    <3>1. /\ StateOf(v)'.closedThrough = StateOf(v).closedThrough
          /\ Evidence(v)' = Evidence(v) \cup Accepted(c, v)
      BY <2>6, ProducedFields
    <3>q. QED
      BY <2>4, <3>1
  <2>7. CASE v \in Involved(c) /\ ClosesNow(c, v)
    <3>1. StateOf(v)'.closedThrough = Seen(c, v) /\ Evidence(v)' = {}
      BY <2>7, ProducedFields
    <3>2. /\ Seen(c, v) = StateOf(v).latestSeen
          /\ \A r \in Evidence(v) \cup Accepted(c, v) : r.at <= StateOf(v).latestSeen
      BY <1>0, <2>7, ClosesAtLimit, WithoutUpdate
    <3>3. StateOf(v).latestSeen \in Nat /\ StateOf(v).closedThrough \in Nat
          /\ StateOf(v).closedThrough <= StateOf(v).latestSeen
      BY EveryStateSound DEF IInv, Sound
    <3>4. \A r \in Processed(v)' : r.at \in Nat
      BY <1>1 DEF Processed, IInv, TypeOK
    <3>5. ASSUME NEW r \in Processed(v)', r.at > Seen(c, v) PROVE FALSE
      <4>1. r.at > StateOf(v).closedThrough
        BY <3>2, <3>3, <3>4, <3>5
      <4>2. r \in Evidence(v) \cup Accepted(c, v)
        BY <2>4, <4>1
      <4>q. QED
        BY <3>2, <3>3, <3>4, <3>5, <4>2
    <3>q. QED
      BY <3>1, <3>5
  <2>q. QED
    BY <2>5, <2>6, <2>7
<1>q. QED
  BY <1>3, <1>4 DEF SourceTaken, EvidenceIsSource, Evidence

\* Steps that commit nothing take nothing, and what is stored comes after the
\* checkpoint.
LEMMA TakenHeld ==
    ASSUME IInv, SourceTaken, UNCHANGED <<states, consumed>>,
           \/ UNCHANGED run
           \/ ids = {} /\ DOMAIN states = {} /\ consumed = {} /\ ids' = ids,
           arrived \subseteq arrived', ids \subseteq ids',
           \A r \in arrived' \ arrived : r.capture = nextCapture,
           ids' \subseteq ids \cup {nextCapture}
    PROVE  SourceTaken'
<1>0. nextCapture \in Nat /\ run.checkpoint \in Nat /\ run.checkpoint < nextCapture
  BY BoundAssumption DEF IInv, TypeOK, RunKept
<1>1. CASE UNCHANGED run
  <2>1. \A k \in ids' : k <= run.checkpoint <=> k \in ids /\ k <= run.checkpoint
    BY <1>0
  <2>2. NoCaptureSkipped'
    <3>1. {k \in ids' : k <= run.checkpoint} = {k \in ids : k <= run.checkpoint}
      BY <2>1
    <3>q. QED
      BY <1>1, <3>1 DEF NoCaptureSkipped, SourceTaken
  <2>3. ASSUME NEW v \in Vehicles PROVE Processed(v)' = Processed(v) /\ StateOf(v)' = StateOf(v)
    <3>1. \A r \in arrived' : r.capture \in ids' /\ r.capture <= run.checkpoint
                              => r \in arrived /\ r.capture \in ids
      BY <1>0, <2>1
    <3>q. QED
      BY <1>1, <3>1 DEF Processed, StateOf
  <2>q. QED
    BY <2>2, <2>3 DEF SourceTaken, EvidenceIsSource
<1>2. CASE ids = {} /\ DOMAIN states = {} /\ consumed = {} /\ ids' = ids
  <2>1. \A v \in Vehicles : Processed(v)' = {} /\ StateOf(v)'.open.evidence = {}
    BY <1>2 DEF Processed, StateOf, NewProducerState, NoSequence
  <2>q. QED
    BY <1>2, <2>1 DEF SourceTaken, EvidenceIsSource, NoCaptureSkipped
<1>q. QED
  BY <1>1, <1>2

LEMMA TakenKept ==
    ASSUME IInv, SourceTaken, [Next]_vars, phase = "pinned" => AllRead
    PROVE  SourceTaken'
<1>1. CASE ProcessCapture
  <2>1. AllRead
    BY <1>1 DEF ProcessCapture
  <2>q. QED
    BY <1>1, <2>1, ProcessCommits, CommitTakes
<1>2. CASE Activate
  BY <1>2, TakenHeld DEF Activate, source, IInv, RunKept
<1>3. CASE Uncommitted
  BY <1>3, UncommittedKeeps, TakenHeld DEF source, derived
<1>4. ASSUME NEW delivery \in Deliveries, NEW scope \in Scopes, NEW partial \in BOOLEAN,
             NEW received \in {t \in (clock - ClockSlip)..clock : t > 0},
             StoreCapture(delivery, scope, received, partial)
      PROVE  SourceTaken'
  <2>1. \A r \in arrived' \ arrived : r.capture = nextCapture
    BY <1>4 DEF StoreCapture, NewRows
  <2>2. /\ UNCHANGED <<run, states, consumed>> /\ arrived \subseteq arrived'
        /\ ids \subseteq ids' /\ ids' \subseteq ids \cup {nextCapture}
    BY <1>4 DEF StoreCapture, derived
  <2>q. QED
    BY <2>1, <2>2, TakenHeld
<1>5. CASE Tick \/ StoreFails \/ Purge \/ ReloadCatalogue \/ UNCHANGED vars
  <2>1. UNCHANGED <<run, states, consumed, arrived, ids>>
    BY <1>5 DEF Tick, StoreFails, Purge, ReloadCatalogue, vars, source, derived
  <2>q. QED
    BY <2>1, TakenHeld
<1>q. QED
  BY <1>1, <1>2, <1>3, <1>4, <1>5 DEF Next, Finish, Uncommitted

LEMMA InitTaken == Init => SourceTaken
<1> SUFFICES ASSUME Init PROVE SourceTaken
  OBVIOUS
<1>1. DOMAIN states = {} /\ ids = {} /\ consumed = {} /\ arrived = {}
  BY DEF Init
<1>2. \A v \in Vehicles : Processed(v) = {} /\ StateOf(v).open.evidence = {}
  BY <1>1 DEF Processed, StateOf, NewProducerState, NoSequence
<1>q. QED
  BY <1>1, <1>2 DEF SourceTaken, EvidenceIsSource, NoCaptureSkipped

\* Clocks that do not step back receive the captures in their order, none before
\* what the retention checks refer to: a capture that was not processed is purged
\* only once the producer would stop.
ClockKept ==
    /\ run.activatedAt <= clock /\ run.lastReceived <= clock
    /\ \A c \in captures : c.receivedAt <= clock
    /\ \A c, d \in captures : c.id <= d.id => c.receivedAt <= d.receivedAt
    /\ run.active => \A c \in Unread : Reference <= c.receivedAt
    /\ \A k \in ids : k > run.checkpoint =>
          \/ \E c \in captures : c.id = k
          \/ phase # "pinned" /\ Expired(Reference, RawRetentionDays)

LEMMA InitClock == Init => ClockKept
BY DEF Init, ClockKept

LEMMA Typed ==
    ASSUME TypeOK
    PROVE  /\ clock \in Nat /\ nextCapture \in Nat
           /\ run.activatedAt \in Nat /\ run.lastReceived \in Nat /\ run.checkpoint \in Nat
           /\ run.activation \in Nat /\ Reference \in Nat
           /\ \A c \in captures : c.id \in Nat /\ c.receivedAt \in Nat
           /\ \A k \in ids : k \in Nat
<1>1. run \in [active: BOOLEAN, activatedAt: 0..MaximumTime, activation: 0..MaximumCaptures,
               checkpoint: 0..MaximumCaptures, lastReceived: 0..MaximumTime]
  BY DEF TypeOK
<1>2. MaximumTime \in Nat /\ MaximumCaptures \in Nat
  BY BoundAssumption
<1>3. /\ run.activatedAt \in Nat /\ run.lastReceived \in Nat /\ run.checkpoint \in Nat
      /\ run.activation \in Nat
  BY <1>1, <1>2
<1>4. Reference \in Nat
  BY <1>3 DEF Reference
<1>5. \A c \in captures : c.id \in 1..MaximumCaptures /\ c.receivedAt \in 1..MaximumTime
  BY DEF TypeOK
<1>6. clock \in Nat /\ nextCapture \in Nat /\ \A k \in ids : k \in Nat
  BY <1>2 DEF TypeOK
<1>q. QED
  BY <1>2, <1>3, <1>4, <1>5, <1>6

\* The steps after which the run and the captures are the same.
LEMMA ClockHeld ==
    ASSUME IInv, ClockKept, UNCHANGED <<run, captures, ids, clock>>,
           phase' = "pinned" => phase = "pinned" \/ ~Expired(Reference, RawRetentionDays)
    PROVE  ClockKept'
<1>1. Unread' = Unread /\ Reference' = Reference
  BY DEF Unread, Reference
<1>2. Expired(Reference, RawRetentionDays)' <=> Expired(Reference, RawRetentionDays)
  BY <1>1 DEF Expired, Day
<1>q. QED
  BY <1>1, <1>2 DEF ClockKept

LEMMA ClockTicks == IInv /\ ClockKept /\ Tick => ClockKept'
<1> SUFFICES ASSUME IInv, ClockKept, Tick PROVE ClockKept'
  OBVIOUS
<1>1. clock' = clock + 1 /\ UNCHANGED <<run, captures, ids, phase>>
  BY DEF Tick, derived
<1>2. Unread' = Unread /\ Reference' = Reference
  BY <1>1 DEF Unread, Reference
<1>3. Reference \in Nat /\ clock \in Nat /\ run.activatedAt \in Nat /\ run.lastReceived \in Nat
      /\ \A c \in captures : c.receivedAt \in Nat
  BY Typed DEF IInv
<1>4. RawRetentionDays \in Nat /\ clock' \in Nat /\ clock <= clock'
  BY <1>1, <1>3, RetentionAssumption
<1>5. Expired(Reference, RawRetentionDays) => Expired(Reference, RawRetentionDays)'
  <2>1. ASSUME NEW t \in Nat, Expired(t, RawRetentionDays) PROVE Expired(t, RawRetentionDays)'
    BY <1>3, <1>4, <2>1, ExpiredStays
  <2>2. ASSUME Expired(Reference, RawRetentionDays)
        PROVE  Day(Reference) < Day(clock') - (RawRetentionDays - 1)
    <3>1. PICK t \in Nat : t = Reference
      BY <1>3
    <3>2. Expired(t, RawRetentionDays)'
      BY <2>1, <2>2, <3>1
    <3>q. QED
      BY <3>1, <3>2 DEF Expired, Day
  <2>q. QED
    BY <1>2, <2>2 DEF Expired, Day
<1>6. /\ run'.activatedAt <= clock' /\ run'.lastReceived <= clock'
      /\ \A c \in captures' : c.receivedAt <= clock'
  BY <1>1, <1>3 DEF ClockKept
<1>q. QED
  BY <1>1, <1>2, <1>5, <1>6 DEF ClockKept

\* A capture that is purged before it is processed was received at the reference
\* or later, so that the reference has expired too.
LEMMA ClockPurges == IInv /\ ClockKept /\ Purge => ClockKept'
<1> SUFFICES ASSUME IInv, ClockKept, Purge PROVE ClockKept'
  OBVIOUS
<1>1. /\ UNCHANGED <<run, ids, clock, phase>> /\ captures' \subseteq captures /\ phase # "pinned"
      /\ \A c \in captures \ captures' : ~(Day(c.receivedAt) >= Day(clock) + 1 - RetentionDays)
  BY DEF Purge, derived
<1>2. Unread' \subseteq Unread /\ Reference' = Reference
  BY <1>1 DEF Unread, Reference
<1>3. Expired(Reference, RawRetentionDays)' <=> Expired(Reference, RawRetentionDays)
  BY <1>1, <1>2 DEF Expired, Day
<1>4. ASSUME NEW c \in captures, c \notin captures', c.id > run.checkpoint, c.id \in ids
      PROVE  Expired(Reference, RawRetentionDays)
  <2>1. run.active
    BY <1>4 DEF IInv, RunKept
  <2>2. Reference <= c.receivedAt
    BY <1>4, <2>1 DEF ClockKept, Unread
  <2>3. c.receivedAt \in Nat /\ Reference \in Nat /\ clock \in Nat
    BY Typed DEF IInv
  <2>4. Expired(c.receivedAt, RetentionDays)
    <3>1. Day(c.receivedAt) \in Nat /\ Day(clock) \in Nat
      BY <2>3, DayGrows
    <3>2. ~(Day(c.receivedAt) >= Day(clock) + 1 - RetentionDays)
      BY <1>1, <1>4
    <3>3. Day(c.receivedAt) < Day(clock) - (RetentionDays - 1)
      BY <3>1, <3>2, RetentionAssumption
    <3>q. QED
      BY <3>3 DEF Expired
  <2>q. QED
    BY <2>2, <2>3, <2>4, OlderExpired
<1>5. ASSUME NEW k \in ids, k > run.checkpoint
      PROVE  (\E c \in captures' : c.id = k) \/ Expired(Reference, RawRetentionDays)
  <2>1. CASE Expired(Reference, RawRetentionDays)
    BY <2>1
  <2>2. CASE \E c \in captures : c.id = k
    BY <1>4, <1>5, <2>2
  <2>q. QED
    BY <1>5, <2>1, <2>2 DEF ClockKept
<1>q. QED
  BY <1>1, <1>2, <1>3, <1>5 DEF ClockKept

LEMMA ClockStores ==
    ASSUME ClockSlip = 0, IInv, ClockKept,
           NEW delivery \in Deliveries, NEW scope \in Scopes, NEW partial \in BOOLEAN,
           NEW received \in {t \in (clock - ClockSlip)..clock : t > 0},
           StoreCapture(delivery, scope, received, partial)
    PROVE  ClockKept'
<1>0. PICK e : e = [id |-> nextCapture, receivedAt |-> received, partial |-> partial,
                    inserted |-> Cardinality(NewRows(delivery, scope, received))]
  OBVIOUS
<1>1. /\ UNCHANGED <<run, clock, phase>> /\ captures' = captures \cup {e}
      /\ ids' = IF run.active THEN ids \cup {nextCapture} ELSE ids
      /\ e.id = nextCapture /\ e.receivedAt = received
  BY <1>0 DEF StoreCapture, derived
<1>2. /\ clock \in Nat /\ nextCapture \in Nat /\ Reference \in Nat
      /\ \A c \in captures : c.id \in Nat /\ c.receivedAt \in Nat
  BY Typed DEF IInv
<1>3. received = clock
  BY <1>2
<1>4. \A c \in captures : c.id < nextCapture /\ c.receivedAt <= clock
  BY DEF IInv, SourceKept, ClockKept
<1>5. Reference' = Reference /\ Reference <= clock
  BY <1>1 DEF Reference, ClockKept
<1>6. Expired(Reference, RawRetentionDays)' <=> Expired(Reference, RawRetentionDays)
  BY <1>1, <1>5 DEF Expired, Day
<1>7. \A c, d \in captures' : c.id <= d.id => c.receivedAt <= d.receivedAt
  <2>1. ASSUME NEW c \in captures', NEW d \in captures', c.id <= d.id
        PROVE  c.receivedAt <= d.receivedAt
    <3>1. CASE d = e
      BY <1>1, <1>2, <1>3, <1>4, <2>1, <3>1
    <3>2. CASE d # e /\ c = e
      BY <1>1, <1>2, <1>4, <2>1, <3>2
    <3>3. CASE d # e /\ c # e
      BY <1>1, <2>1, <3>3 DEF ClockKept
    <3>q. QED
      BY <3>1, <3>2, <3>3
  <2>q. QED
    BY <2>1
<1>8. run'.active => \A c \in Unread' : Reference' <= c.receivedAt
  <2>1. \A c \in Unread' : c \in Unread \/ c = e
    BY <1>1 DEF Unread
  <2>q. QED
    BY <1>1, <1>3, <1>5, <2>1 DEF ClockKept
<1>9. \A k \in ids' : k > run'.checkpoint =>
         \/ \E c \in captures' : c.id = k
         \/ phase' # "pinned" /\ Expired(Reference, RawRetentionDays)'
  BY <1>1, <1>6 DEF ClockKept
<1>q. QED
  BY <1>1, <1>2, <1>3, <1>4, <1>7, <1>8, <1>9 DEF ClockKept

LEMMA ClockActivates == IInv /\ ClockKept /\ Activate => ClockKept'
<1> SUFFICES ASSUME IInv, ClockKept, Activate PROVE ClockKept'
  OBVIOUS
<1>1. /\ run'.activatedAt = clock /\ run'.lastReceived = 0
      /\ run'.checkpoint = Greatest({c.id : c \in captures} \cup {0})
      /\ UNCHANGED <<captures, ids, clock>>
  BY DEF Activate, source
<1>2. clock \in Nat /\ ids = {} /\ \A c \in captures : c.id \in Nat
  BY Typed DEF IInv, Activate, RunKept
<1>3. Unread' = {}
  <2>1. RunKept' /\ run'.active /\ ids' = {} /\ run'.activation = run'.checkpoint
    BY <1>1, <1>2, ActivateKeeps DEF Activate, IInv
  <2>2. \A c \in captures' : ~(c.id > run'.activation)
    BY <2>1 DEF RunKept
  <2>q. QED
    BY <2>1, <2>2 DEF Unread
<1>q. QED
  BY <1>1, <1>2, <1>3 DEF ClockKept

LEMMA ClockCommits ==
    ASSUME IInv, ClockKept, NEW c, Commit(c)
    PROVE  ClockKept'
<1>1. /\ c \in captures /\ c.id > run.checkpoint /\ c.receivedAt \in 1..MaximumTime
      /\ \A d \in Unread : c.id <= d.id
  BY CaptureComplete DEF Commit
<1>2. /\ run'.checkpoint = c.id /\ run'.lastReceived = c.receivedAt /\ run'.activatedAt = run.activatedAt
      /\ phase' = "idle" /\ UNCHANGED <<captures, ids, clock>>
  BY Committed
<1>3. /\ run.checkpoint \in Nat /\ c.id \in Nat /\ \A d \in captures : d.id \in Nat /\ d.receivedAt \in Nat
      /\ \A k \in ids : k \in Nat
  BY <1>1, Typed DEF IInv
<1>4. Reference' = c.receivedAt
  BY <1>1, <1>2, BoundAssumption DEF Reference
<1>5. \A d \in Unread' : Reference' <= d.receivedAt
  BY <1>1, <1>2, <1>3, <1>4 DEF Unread, ClockKept
<1>6. \A k \in ids : k > c.id => \E d \in captures : d.id = k
  BY <1>1, <1>3 DEF ClockKept, Commit, Processable
<1>q. QED
  BY <1>1, <1>2, <1>5, <1>6 DEF ClockKept

LEMMA ClockKeeps == ClockSlip = 0 /\ IInv /\ ClockKept /\ [Next]_vars => ClockKept'
<1> SUFFICES ASSUME ClockSlip = 0, IInv, ClockKept, [Next]_vars PROVE ClockKept'
  OBVIOUS
<1>1. CASE Tick
  BY <1>1, ClockTicks
<1>2. ASSUME NEW delivery \in Deliveries, NEW scope \in Scopes, NEW partial \in BOOLEAN,
             NEW received \in {t \in (clock - ClockSlip)..clock : t > 0},
             StoreCapture(delivery, scope, received, partial)
      PROVE  ClockKept'
  BY <1>2, ClockStores
<1>3. CASE Purge
  BY <1>3, ClockPurges
<1>4. CASE Activate
  BY <1>4, ClockActivates
<1>5. CASE ProcessCapture
  BY <1>5, ProcessCommits, ClockCommits
<1>6. CASE StoreFails \/ ReloadCatalogue \/ UNCHANGED vars
  <2>1. UNCHANGED <<run, captures, ids, clock, phase>>
    BY <1>6 DEF StoreFails, ReloadCatalogue, vars, source, derived
  <2>q. QED
    BY <2>1, ClockHeld
<1>7. CASE Uncommitted
  <2>1. UNCHANGED <<run, captures, ids, clock>>
    BY <1>7, UncommittedKeeps DEF source, derived
  <2>2. phase' = "pinned" => ~Expired(Reference, RawRetentionDays)
    BY <1>7, Verdicts DEF Uncommitted, Resume, Begin, Pin, ProcessIdle, ProcessStops, ProcessRefused,
          Abort, Restart, Stop, Stops
  <2>q. QED
    BY <2>1, <2>2, ClockHeld
<1>q. QED
  BY <1>1, <1>2, <1>3, <1>4, <1>5, <1>6, <1>7 DEF Next, Finish, Uncommitted

\* Where the clock of the ingestion does not step back, the checkpoint goes past
\* no capture that was not read, and the descriptors stand for exactly the rows
\* received since the activation that no closure has taken.
LEMMA TakenAlways == ASSUME ClockSlip = 0 PROVE Spec => [](IInv /\ ClockKept /\ SourceTaken)
<1>1. Init => IInv /\ ClockKept /\ SourceTaken
  BY InitInvariant, InitClock, InitTaken
<1>2. (IInv /\ ClockKept /\ SourceTaken) /\ [Next]_vars => (IInv /\ ClockKept /\ SourceTaken)'
  <2> SUFFICES ASSUME IInv, ClockKept, SourceTaken, [Next]_vars
               PROVE  IInv' /\ ClockKept' /\ SourceTaken'
    OBVIOUS
  <2>1. phase = "pinned" => AllRead
    BY DEF ClockKept, AllRead
  <2>2. SourceTaken'
    BY <2>1, TakenKept
  <2>3. IInv' /\ ClockKept'
    BY InvariantKept, ClockKeeps
  <2>q. QED
    BY <2>2, <2>3
<1>q. QED
  BY <1>1, <1>2, PTL DEF Spec

\* No checkpoint goes past a capture stored since the activation that was not
\* processed, though the purge runs between the producer's reads: a producer that
\* lost a capture stops.
THEOREM NothingSkipped == ASSUME ClockSlip = 0 PROVE Spec => []NoCaptureSkipped
<1>1. Spec => [](IInv /\ ClockKept /\ SourceTaken)
  BY TakenAlways
<1>2. SourceTaken => NoCaptureSkipped
  BY DEF SourceTaken
<1>q. QED
  BY <1>1, <1>2, PTL

\* The descriptor of an open sequence, of which only bounds and an XOR are stored,
\* stands for exactly the rows received since the activation that no closure took.
THEOREM DescriptorsStandForRows == ASSUME ClockSlip = 0 PROVE Spec => []EvidenceIsSource
<1>1. Spec => [](IInv /\ ClockKept /\ SourceTaken)
  BY TakenAlways
<1>2. SourceTaken => EvidenceIsSource
  BY DEF SourceTaken
<1>q. QED
  BY <1>1, <1>2, PTL

-----------------------------------------------------------------------------
(* The source stays complete.                                              *)

\* Without a purge raw keeps every row and every capture since the activation.
NothingPurged ==
    /\ raw = arrived
    /\ \A k \in ids : \E c \in captures : c.id = k

\* When the store reads a replay, and what it reads then.
LEMMA ReplayRead ==
    ASSUME IInv, NEW c, Processable(c), NEW v \in Vehicles
    PROVE  Replay(c, v) = IF ClosesNow(c, v)
                          THEN {r \in raw : /\ r.vehicle = v
                                            /\ r.capture \in StateOf(v).open.first..c.id
                                            /\ r.at > StateOf(v).closedThrough}
                          ELSE {}
<1> DEFINE newer == \E r \in RowsOf(c) : r.vehicle = v /\ r.at > StateOf(v).latestSeen
<1>1. StateOf(v).latestSeen \in Nat /\ StateOf(v).closedThrough \in Nat
      /\ StateOf(v).closedThrough <= StateOf(v).latestSeen
  BY EveryStateSound DEF IInv, Sound
<1>2. \A r \in RowsOf(c) : r.at \in Nat
  BY DEF RowsOf, IInv, TypeOK
<1>3. Accepted(c, v) = {r \in RowsOf(c) : r.vehicle = v /\ r.at > StateOf(v).closedThrough}
  BY DEF Accepted, AcceptedRows, Input
<1>4. Updates(c, v) <=> \E r \in Accepted(c, v) : r.at > StateOf(v).latestSeen
  BY DEF Updates, Updated, Accepted
<1>5. newer <=> Updates(c, v)
  BY <1>1, <1>2, <1>3, <1>4
<1>6. IsOpenSequence(StateOf(v).open) <=> Evidence(v) # {}
  BY RowsTaken
<1> DEFINE foreseen == /\ IsOpenSequence(StateOf(v).open) /\ ~c.partial /\ ~newer
                       /\ StateOf(v).missing = MissingCaptureLimit - 1
<1>7. foreseen <=> ClosesNow(c, v)
  BY <1>5, <1>6, ClosesAtLimit
<1>8. Replay(c, v) = IF foreseen
                     THEN {r \in raw : /\ r.vehicle = v
                                       /\ r.capture \in StateOf(v).open.first..c.id
                                       /\ r.at > StateOf(v).closedThrough}
                     ELSE {}
  BY DEF Replay
<1> HIDE DEF foreseen
<1>q. QED
  BY <1>7, <1>8

\* The replay of a closure holds the rows of the sequence and those it takes.
LEMMA ReplayIsEvidence ==
    ASSUME IInv, SourceTaken, NothingPurged, NEW c, Processable(c), NEW v \in Vehicles, ClosesNow(c, v)
    PROVE  Replay(c, v) = Evidence(v) \cup Accepted(c, v)
<1>p. PICK E, A, first : /\ E = Evidence(v) /\ A = Accepted(c, v) /\ first = StateOf(v).open.first
  OBVIOUS
<1>1. /\ c.id \in Nat /\ c.id > run.checkpoint /\ run.checkpoint \in Nat /\ run.active
      /\ run.activation \in Nat /\ run.activation <= run.checkpoint
      /\ \A r \in raw : r.capture \in Nat /\ r.at \in Nat
  <2>1. c.id \in 1..MaximumCaptures /\ c.id > run.checkpoint /\ run.active
    BY CaptureComplete
  <2>2. /\ run.checkpoint \in Nat /\ run.activation \in Nat /\ run.activation <= run.checkpoint
        /\ \A r \in raw : r.capture \in Nat /\ r.at \in Nat
    BY BoundAssumption DEF IInv, TypeOK, RunKept
  <2>3. c.id \in Nat
    BY <2>1, BoundAssumption
  <2>q. QED
    BY <2>1, <2>2, <2>3
<1>2. /\ E \subseteq raw /\ A \subseteq raw /\ E # {}
      /\ \A r \in E : r.capture \in Nat /\ r.capture <= run.checkpoint
      /\ \A r \in A : r.capture = c.id
      /\ \A r \in E \cup A : r.vehicle = v /\ r.at > StateOf(v).closedThrough
  BY <1>p, RowsTaken, ClosesAtLimit
<1>3. /\ first \in IdsOf(E) /\ \A r \in E : first <= r.capture
  <2>1. StoredRows(E) /\ StateOf(v).open = DescriptorOf(E)
    BY <1>p, <1>2, EvidenceStored DEF Evidence, IInv
  <2>2. first = Least(IdsOf(E))
    BY <1>p, <2>1 DEF DescriptorOf
  <2>q. QED
    BY <1>2, <2>1, <2>2, RowBounds
<1>4. first \in Nat /\ first <= run.checkpoint /\ run.activation < first
  <2>1. PICK r \in E : r.capture = first
    BY <1>3 DEF IdsOf
  <2>2. r.capture \in ids
    BY <1>p, <2>1, RowsTaken
  <2>3. \A k \in ids : run.activation < k
    BY DEF IInv, RunKept
  <2>q. QED
    BY <1>2, <2>1, <2>2, <2>3
<1>5. Replay(c, v) = {r \in raw : r.vehicle = v /\ r.capture \in first..c.id /\ r.at > StateOf(v).closedThrough}
  BY <1>p, ReplayRead
<1>6. \A r \in E \cup A : r \in Replay(c, v)
  BY <1>1, <1>2, <1>3, <1>4, <1>5
<1>7. ASSUME NEW r \in Replay(c, v) PROVE r \in E \cup A
  <2>1. /\ r \in raw /\ r.vehicle = v /\ r.capture \in first..c.id /\ r.at > StateOf(v).closedThrough
        /\ r.capture \in Nat
    BY <1>1, <1>5
  <2>2. r.capture \in ids
    <3>1. PICK d \in captures : d.id = r.capture
      BY <2>1 DEF IInv, SourceKept
    <3>2. d.id > run.activation
      BY <1>1, <1>4, <2>1, <3>1
    <3>q. QED
      BY <1>1, <3>1, <3>2 DEF IInv, RunKept
  <2>3. CASE r.capture <= run.checkpoint
    <3>1. r \in Processed(v)
      BY <2>1, <2>2, <2>3 DEF Processed, NothingPurged
    <3>2. r \in Waiting(StateOf(v), v)
      BY <2>1, <3>1 DEF Waiting
    <3>q. QED
      BY <1>p, <3>2, TakenWaits DEF SourceTaken
  <2>4. CASE ~(r.capture <= run.checkpoint)
    <3>1. AllRead
      BY DEF AllRead, NothingPurged
    <3>2. r.capture > run.checkpoint /\ r.capture <= c.id
      BY <1>1, <1>4, <2>1, <2>4
    <3>3. r.capture = c.id
      BY <2>2, <3>1, <3>2, OnlyNextPassed
    <3>4. r \in Accepted(c, v)
      BY <2>1, <3>3 DEF Accepted, AcceptedRows, Input, RowsOf
    <3>q. QED
      BY <1>p, <3>4
  <2>q. QED
    BY <2>3, <2>4
<1>q. QED
  BY <1>p, <1>6, <1>7

\* The domain finds nothing wrong with a capture that is in order and complete.
LEMMA CaptureProducible ==
    ASSUME IInv, SourceTaken, NothingPurged, NEW c, Processable(c)
    PROVE  AllProducible(c)
<1> SUFFICES ASSUME NEW v \in Involved(c)
             PROVE  Producible(StateOf(v), Input(c, v), run.activation)
  BY DEF AllProducible
<1>p. PICK s, i, rows : s = StateOf(v) /\ i = Input(c, v) /\ rows = Evidence(v) \cup Accepted(c, v)
  OBVIOUS
<1>0. /\ v \in Vehicles /\ c.id \in Nat /\ c.id > run.checkpoint /\ run.checkpoint \in Nat
      /\ run.activation \in Nat /\ run.activation <= run.checkpoint
      /\ c.receivedAt \in Nat /\ c.receivedAt >= run.lastReceived
  <2>1. c.id \in 1..MaximumCaptures /\ c.id > run.checkpoint /\ c.receivedAt \in 1..MaximumTime /\ c.receivedAt >= run.lastReceived
    BY CaptureComplete
  <2>2. /\ v \in Vehicles /\ run.checkpoint \in Nat /\ run.activation \in Nat /\ run.activation <= run.checkpoint
    BY BoundAssumption DEF Involved, RowsOf, IInv, TypeOK, RunKept
  <2>3. c.id \in Nat /\ c.receivedAt \in Nat
    BY <2>1, BoundAssumption
  <2>q. QED
    BY <2>1, <2>2, <2>3
<1>1. /\ i.id = c.id /\ i.receivedAt = c.receivedAt /\ i.replay = Replay(c, v)
      /\ i.new = {r \in RowsOf(c) : r.vehicle = v}
  BY <1>p DEF Input
<1>2. i.id > s.lastCapture /\ i.receivedAt >= s.lastReceived
  <2>1. CASE v \in DOMAIN states
    BY <1>p, <1>0, <1>1, <2>1 DEF StateOf, IInv, StatesKept
  <2>2. CASE v \notin DOMAIN states
    <3>1. s.lastCapture = run.activation /\ s.lastReceived = 0
      BY <1>p, <2>2 DEF StateOf, NewProducerState
    <3>q. QED
      BY <1>0, <1>1, <3>1
  <2>q. QED
    BY <2>1, <2>2
<1>3. \A r \in i.new : r.capture = i.id
  BY <1>1 DEF RowsOf
<1>4. CASE ~ClosesNow(c, v)
  <2>1. i.replay = {}
    BY <1>0, <1>1, <1>4, ReplayRead
  <2>q. QED
    BY <1>p, <1>2, <1>3, <1>4, <2>1 DEF Producible, ClosesNow
<1>5. CASE ClosesNow(c, v)
  <2> DEFINE open == Accumulate(s.open, AcceptedRows(s, i.new))
  <2>1. i.replay = rows
    BY <1>p, <1>0, <1>1, <1>5, ReplayIsEvidence
  <2>2. /\ StoredRows(rows) /\ open = Accumulate(NoSequence, rows)
        /\ \A r \in rows : r.at > s.closedThrough /\ r.capture <= c.id
        /\ rows # {}
    <3>1. /\ Evidence(v) # {}
          /\ rows # {}
      BY <1>p, <1>0, <1>5, ClosesAtLimit
    <3>2. AcceptedRows(s, i.new) = Accepted(c, v)
      BY <1>p, <1>1 DEF Accepted
    <3>3. open = Accumulate(StateOf(v).open, Accepted(c, v))
      BY <1>p, <3>2
    <3>4. open = Accumulate(NoSequence, rows) /\ StoredRows(rows)
      BY <1>p, <1>0, <3>3, RowsTaken
    <3>5. \A r \in rows : r.at > s.closedThrough /\ r.capture <= c.id
      BY <1>p, <1>0, RowsTaken
    <3>q. QED
      BY <3>1, <3>4, <3>5
  <2>3. open = DescriptorOf(rows)
    BY <2>2, Described
  <2>4. open.observations = Cardinality(rows) /\ open.first = Least(IdsOf(rows))
    BY <2>3 DEF DescriptorOf
  <2>5. \A r \in rows : Least(IdsOf(rows)) <= r.capture /\ r.capture \in Nat /\ Least(IdsOf(rows)) \in Nat
    BY <2>2, RowBounds DEF IdsOf
  <2>6. \A r \in rows : r.capture \in open.first..i.id
    BY <1>0, <1>1, <2>2, <2>4, <2>5
  <2>7. ReplayMatches(s, open, i)
    BY <2>1, <2>2, <2>4, <2>6 DEF ReplayMatches
  <2>q. QED
    BY <1>p, <1>2, <1>3, <1>5, <2>7 DEF Producible, ClosesNow
<1>q. QED
  BY <1>4, <1>5

LEMMA VerdictComplete ==
    ASSUME IInv, SourceTaken, NothingPurged, phase = "pinned", ~OpenExpired(states), Unread # {}
    PROVE  Verdict(NextCapture) # "source_incomplete"
<1>p. PICK c : c = NextCapture
  OBVIOUS
<1>1. c \in captures
  BY <1>p, CaptureFound
<1>2. RowsOf(c) = {r \in arrived : r.capture = c.id}
  BY DEF RowsOf, NothingPurged
<1>3. ~SourceIncomplete(c)
  BY <1>1, <1>2 DEF SourceIncomplete, IInv, SourceKept
<1>4. CASE InOrder(c)
  <2>1. AllProducible(c)
    BY <1>p, <1>3, <1>4, CaptureProducible DEF Processable
  <2>q. QED
    BY <1>p, <1>3, <1>4, <2>1 DEF Verdict
<1>5. CASE ~InOrder(c)
  BY <1>p, <1>5 DEF Verdict
<1>q. QED
  BY <1>4, <1>5

LEMMA NothingPurgedKept ==
    IInv /\ NothingPurged /\ [Next]_vars /\ (~Purge \/ UNCHANGED vars) => NothingPurged'
<1> SUFFICES ASSUME IInv, NothingPurged, [Next]_vars, ~Purge \/ UNCHANGED vars PROVE NothingPurged'
  OBVIOUS
<1>1. ASSUME NEW delivery \in Deliveries, NEW scope \in Scopes, NEW partial \in BOOLEAN,
             NEW received \in {t \in (clock - ClockSlip)..clock : t > 0},
             StoreCapture(delivery, scope, received, partial)
      PROVE  NothingPurged'
  <2>0. PICK e : e = [id |-> nextCapture, receivedAt |-> received, partial |-> partial,
                      inserted |-> Cardinality(NewRows(delivery, scope, received))]
    OBVIOUS
  <2>1. /\ captures' = captures \cup {e} /\ e.id = nextCapture
        /\ ids' \subseteq ids \cup {nextCapture}
        /\ raw' = raw \cup NewRows(delivery, scope, received)
        /\ arrived' = arrived \cup NewRows(delivery, scope, received)
    BY <1>1, <2>0 DEF StoreCapture
  <2>q. QED
    BY <2>1 DEF NothingPurged
<1>2. CASE Tick \/ StoreFails \/ ReloadCatalogue \/ Activate \/ UNCHANGED vars
  BY <1>2 DEF Tick, StoreFails, ReloadCatalogue, Activate, vars, source, NothingPurged
<1>3. CASE Uncommitted
  BY <1>3, UncommittedKeeps DEF source, NothingPurged
<1>4. CASE ProcessCapture
  BY <1>4, ProcessCommits, Committed DEF NothingPurged
<1>q. QED
  BY <1>1, <1>2, <1>3, <1>4 DEF Next, Finish, Uncommitted

LEMMA CompleteKept ==
    IInv /\ SourceTaken /\ NothingPurged /\ SourceStaysComplete /\ [Next]_vars => SourceStaysComplete'
<1> SUFFICES ASSUME IInv, SourceTaken, NothingPurged, SourceStaysComplete, [Next]_vars
             PROVE  phase' # "source_incomplete"
  BY DEF SourceStaysComplete
<1>1. CASE ProcessStops
  BY <1>1, VerdictComplete DEF ProcessStops, Stop
<1>2. CASE ~ProcessStops
  BY <1>2 DEF Next, Finish, Tick, StoreCapture, StoreFails, Purge, ReloadCatalogue, Activate, Resume, Begin, Pin,
         ProcessIdle, ProcessRefused, ProcessCapture, Abort, Restart, Stop, vars, SourceStaysComplete
<1>q. QED
  BY <1>1, <1>2

\* Without a purge the clock of the ingestion needs no hypothesis.
PreservedInv == IInv /\ SourceTaken /\ NothingPurged /\ SourceStaysComplete

LEMMA PreservedAlways == Spec /\ [][~Purge]_vars => []PreservedInv
<1>1. Init => PreservedInv
  BY InitInvariant, InitTaken DEF Init, NothingPurged, SourceStaysComplete, PreservedInv
<1>2. PreservedInv /\ [Next]_vars /\ [~Purge]_vars => PreservedInv'
  <2> SUFFICES ASSUME PreservedInv, [Next]_vars, [~Purge]_vars PROVE PreservedInv'
    OBVIOUS
  <2>1. phase = "pinned" => AllRead
    BY DEF NothingPurged, AllRead, PreservedInv
  <2>q. QED
    BY <2>1, InvariantKept, TakenKept, NothingPurgedKept, CompleteKept DEF PreservedInv
<1>q. QED
  BY <1>1, <1>2, PTL DEF Spec

\* Without a purge, whatever clocks and deliveries do, the counts of the ingestion
\* agree with raw, a replay is read exactly when the producer closes, and it is the
\* evidence that was accepted: the source is never found incomplete.
THEOREM SourceNeverIncomplete == Spec /\ [][~Purge]_vars => []SourceStaysComplete
<1>1. PreservedInv => SourceStaysComplete
  BY DEF PreservedInv
<1>q. QED
  BY <1>1, PreservedAlways, PTL

\* Without a purge no capture is skipped and every descriptor stands for its rows,
\* however the clock of the ingestion steps back.
THEOREM PreservedHistoryIsTaken == Spec /\ [][~Purge]_vars => [](NoCaptureSkipped /\ EvidenceIsSource)
<1>1. PreservedInv => NoCaptureSkipped /\ EvidenceIsSource
  BY DEF PreservedInv, SourceTaken
<1>q. QED
  BY <1>1, PreservedAlways, PTL
=============================================================================
