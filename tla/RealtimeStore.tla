--------------------------- MODULE RealtimeStore ---------------------------
(***************************************************************************)
(* RealtimeRepository.StoreCapture with bunching enabled: one transaction, *)
(* serialized by an advisory lock it takes first, that stores a capture,   *)
(* keeps the first row received for each vehicle and GPS timestamp, and    *)
(* advances the encounters.  Captures may arrive late or twice, a          *)
(* transaction may fail after it took its capture identifier, and the GTFS *)
(* catalogue may be reloaded between two captures.                         *)
(*                                                                         *)
(* The horizon is shorter than the retention of captures: the purge of     *)
(* MaintainPartitions is in BottlenecksStore.                              *)
(***************************************************************************)
EXTENDS BunchingEvents

CONSTANTS
    Branches,         \* GCBA route and direction
    CatalogueStates,  \* the mappings branch -> scope; an unmapped branch is absent
    Spots,            \* places a vehicle reports
    Metres,           \* <<spot, spot>> -> distance
    Batches,          \* what a decoded capture may carry
    DayLength,        \* GPS timestamps of one UTC day
    RetentionDays,
    StorageSkew,      \* the minute StoreCapture grants to a GPS clock
    MaximumTime,      \* bound on the reception times that are explored
    MaximumCaptures   \* bound on the capture identifiers that are taken

\* A position without a timestamp is refused; 0 stands for that one.
Position == [vehicle: Vehicles, at: Nat \ {0}, branch: Branches, spot: Spots]

\* decode drops the second row of a vehicle and timestamp.
ASSUME BatchesAssumption ==
    /\ Batches \subseteq SUBSET Position
    /\ \A batch \in Batches :
          /\ IsFiniteSet(batch)
          /\ \A p, q \in batch : p.vehicle = q.vehicle /\ p.at = q.at => p = q

ASSUME MetresAssumption == Metres \in [Spots \X Spots -> Nat]

ASSUME BoundAssumption ==
    /\ DayLength \in Nat \ {0} /\ RetentionDays \in Nat /\ StorageSkew \in Nat
    /\ MaximumTime \in Nat /\ MaximumCaptures \in Nat

ASSUME CatalogueAssumption ==
    \A c \in CatalogueStates : DOMAIN c \subseteq Branches /\ \A b \in DOMAIN c : c[b] \in Scopes

VARIABLES
    catalogue,    \* vialis.equivalencias_recorridos_gcba joined to vialis.recorridos
    captures,     \* vialis.capturas_colectivos
    raw,          \* vialis.posiciones_colectivos_raw
    events,       \* vialis.aglutinaciones_colectivos
    nextCapture,  \* the identity of capturas_colectivos
    refused       \* the unique index refused the last capture

vars == <<catalogue, captures, raw, events, nextCapture, refused>>

Init ==
    /\ catalogue \in CatalogueStates
    /\ captures = {}
    /\ raw = {}
    /\ events = {}
    /\ nextCapture = 1
    /\ refused = FALSE

-----------------------------------------------------------------------------
\* The last reception of a set of captures, 0 when there is none.
LastReceived(set) ==
    IF set = {} THEN 0 ELSE CHOOSE t \in {c.receivedAt : c \in set} : \A c \in set : c.receivedAt <= t

Analysed == {c \in captures : c.analysed}
Reviewed == {c \in Analysed : ~c.partial}

Cutoff(received) == (received \div DayLength) + 1 - RetentionDays
Admitted(received, batch) == {p \in batch : p.at \div DayLength >= Cutoff(received)}

\* The newest position of each vehicle.
LatestOf(batch) == {p \in batch : \A q \in batch : q.vehicle = p.vehicle => q.at <= p.at}

\* Coordinates are not part of it: the same timestamps are the same evidence.
Fingerprint(batch) == {[vehicle |-> p.vehicle, at |-> p.at, branch |-> p.branch] : p \in LatestOf(batch)}

\* Mutant: partial captures count as the previous answer.
HasNewPositionsOrPartial(batch) ==
    ~\E c \in Analysed : c.receivedAt = LastReceived(Analysed) /\ c.fingerprint = Fingerprint(batch)

HasNewPositions(batch) ==
    ~\E c \in Reviewed : c.receivedAt = LastReceived(Reviewed) /\ c.fingerprint = Fingerprint(batch)

\* Mutant: a corrected coordinate is another row.
NewRowsAndCorrections(received, batch) ==
    {[vehicle |-> p.vehicle, at |-> p.at, scope |-> catalogue[p.branch], spot |-> p.spot,
      capture |-> nextCapture, receivedAt |-> received] :
        p \in {q \in Admitted(received, batch) :
                  /\ q.branch \in DOMAIN catalogue
                  /\ ~\E r \in raw : r.vehicle = q.vehicle /\ r.at = q.at /\ r.spot = q.spot}}

\* insert_realtime_positions.sql: mapped positions whose vehicle and timestamp
\* raw does not have yet, in the scope of the catalogue of this moment.
NewRows(received, batch) ==
    {[vehicle |-> p.vehicle, at |-> p.at, scope |-> catalogue[p.branch], spot |-> p.spot,
      capture |-> nextCapture, receivedAt |-> received] :
        p \in {q \in Admitted(received, batch) :
                  /\ q.branch \in DOMAIN catalogue
                  /\ ~\E r \in raw : r.vehicle = q.vehicle /\ r.at = q.at}}

\* create_bunching_snapshot.sql: the newest position of each vehicle, if it is
\* mapped and fresh.  A vehicle whose newest position is not mapped is absent.
SnapshotPositions(received, batch) ==
    LET usable == {p \in LatestOf(Admitted(received, batch)) :
                      p.branch \in DOMAIN catalogue /\ Fresh(received, p.at)}
        of(v) == CHOOSE p \in usable : p.vehicle = v
    IN  [v \in {p.vehicle : p \in usable} |->
            [observedAt |-> of(v).at, scope |-> catalogue[of(v).branch]]]

\* Distances are measured between the canonical coordinates of raw.
SnapshotMetres(rows, positions) ==
    LET spot(v) == (CHOOSE r \in rows : r.vehicle = v /\ r.at = positions[v].observedAt).spot
    IN  [p \in Pairs |-> IF {p[1], p[2]} \subseteq DOMAIN positions
                         THEN Metres[<<spot(p[1]), spot(p[2])>>]
                         ELSE DistanceMeters + 1]

AdvancedEvents(received, batch, rows) ==
    LET positions == SnapshotPositions(received, batch)
    IN  Advance(events, Snapshot(events, received, FALSE, HasNewPositions(batch),
                                 positions, SnapshotMetres(rows, positions)))

\* idx_aglutinaciones_colectivos_abiertas does not know the shape identifier.
UniqueOpen(rows) ==
    \A e, f \in rows : IsOpen(e) /\ IsOpen(f) /\ Version(e) = Version(f) => e = f

\* Mutant: the count of the admitted rows instead of the inserted ones.
CaptureOfAdmitted(received, batch, partial, analysed) ==
    [id |-> nextCapture, receivedAt |-> received, partial |-> partial,
     analysed |-> analysed, fingerprint |-> IF analysed THEN Fingerprint(batch) ELSE {},
     inserted |-> Cardinality(Admitted(received, batch))]

Capture(received, batch, partial, analysed) ==
    [id |-> nextCapture, receivedAt |-> received, partial |-> partial,
     analysed |-> analysed, fingerprint |-> IF analysed THEN Fingerprint(batch) ELSE {},
     inserted |-> Cardinality(NewRows(received, batch))]

-----------------------------------------------------------------------------
\* No position beyond the skew, or the capture is refused before any write.
Accepts(received, batch) ==
    /\ nextCapture <= MaximumCaptures
    /\ \A p \in batch : p.at <= received + StorageSkew

Store(received, batch, partial, analysed) ==
    /\ captures' = captures \cup {Capture(received, batch, partial, analysed)}
    /\ raw' = raw \cup NewRows(received, batch)
    /\ nextCapture' = nextCapture + 1
    /\ refused' = FALSE
    /\ UNCHANGED catalogue

\* Not after the last analysed reception: raw is stored, encounters stay.
StoreLate(received, batch, partial) ==
    /\ Accepts(received, batch)
    /\ Analysed # {} /\ received <= LastReceived(Analysed)
    /\ Store(received, batch, partial, FALSE)
    /\ UNCHANGED events

StorePartial(received, batch) ==
    /\ Accepts(received, batch)
    /\ received > LastReceived(Analysed)
    /\ Store(received, batch, TRUE, TRUE)
    /\ UNCHANGED events

\* Mutant: late captures are analysed.
StoreCompleteLate(received, batch) ==
    /\ Accepts(received, batch)
    /\ Store(received, batch, FALSE, TRUE)
    /\ events' = AdvancedEvents(received, batch, raw')
    /\ UniqueOpen(events')

StoreComplete(received, batch) ==
    /\ Accepts(received, batch)
    /\ received > LastReceived(Analysed)
    /\ Store(received, batch, FALSE, TRUE)
    /\ events' = AdvancedEvents(received, batch, raw')
    /\ UniqueOpen(events')

\* A transaction that does not commit keeps only the identifier it took.
StoreRefused(received, batch) ==
    /\ Accepts(received, batch)
    /\ received > LastReceived(Analysed)
    /\ ~UniqueOpen(AdvancedEvents(received, batch, raw \cup NewRows(received, batch)))
    /\ nextCapture' = nextCapture + 1
    /\ refused' = TRUE
    /\ UNCHANGED <<catalogue, captures, raw, events>>

StoreFails ==
    /\ nextCapture <= MaximumCaptures
    /\ nextCapture' = nextCapture + 1
    /\ refused' = FALSE
    /\ UNCHANGED <<catalogue, captures, raw, events>>

\* cmd/initdb reloads the GTFS tables between two captures.
ReloadCatalogue ==
    /\ catalogue' \in CatalogueStates \ {catalogue}
    /\ UNCHANGED <<captures, raw, events, nextCapture, refused>>

Next ==
    \/ \E received \in 1..MaximumTime, batch \in Batches :
          \/ \E partial \in BOOLEAN : StoreLate(received, batch, partial)
          \/ StorePartial(received, batch)
          \/ StoreComplete(received, batch)
          \/ StoreRefused(received, batch)
    \/ StoreFails
    \/ ReloadCatalogue

Spec == Init /\ [][Next]_vars

-----------------------------------------------------------------------------
TypeOK ==
    /\ catalogue \in CatalogueStates
    /\ captures \subseteq [id: 1..MaximumCaptures, receivedAt: 1..MaximumTime, partial: BOOLEAN,
                           analysed: BOOLEAN, fingerprint: SUBSET [vehicle: Vehicles, at: Nat, branch: Branches],
                           inserted: Nat]
    /\ raw \subseteq [vehicle: Vehicles, at: Nat, scope: Scopes, spot: Spots,
                      capture: 1..MaximumCaptures, receivedAt: 1..MaximumTime]
    /\ events \subseteq Event
    /\ nextCapture \in 1..(MaximumCaptures + 1)
    /\ refused \in BOOLEAN

\* The bottleneck producer reads a capture's rows long after it was stored and
\* stops for good when their number is not the stored one.  So the rows first
\* received with a capture are exactly those it counted, though late, repeated
\* and failed captures bring the same positions.
InsertedRowsAgree ==
    /\ \A c \in captures : Cardinality({r \in raw : r.capture = c.id}) = c.inserted
    /\ \A r \in raw : \E c \in captures : c.id = r.capture /\ c.receivedAt = r.receivedAt

\* The first persisted observation of a vehicle and timestamp is canonical: a
\* correction that arrives later, or the scope of a later catalogue, neither
\* replaces it nor is stored beside it.
FirstRowIsCanonical ==
    [][/\ raw \subseteq raw'
       /\ \A r, q \in raw' : r.vehicle = q.vehicle /\ r.at = q.at => r = q]_vars

\* "Respuestas repetidas no suman muestras ni duracion ni confirmacion": a
\* capture with the fingerprint of the last complete one opens nothing, adds no
\* sample and counts no absence, whatever partial, late or failed captures came
\* in between; it can only close what expired, or what a reload moved to another
\* scope.  It says so of reloads that map the branches they mapped: positions of
\* a branch that none mapped are not reviewed, and may become a sample when the
\* same answer comes after a reload that maps it.
RepeatedAnswerAddsNothing ==
    [][\A c \in captures' \ captures :
          /\ c.analysed /\ ~c.partial
          /\ \E d \in Reviewed : d.receivedAt = LastReceived(Reviewed) /\ d.fingerprint = c.fingerprint
          => \A f \in events' : \E e \in events :
                /\ [f EXCEPT !.closedAt = 0, !.closeReason = "open"] = [e EXCEPT !.closedAt = 0, !.closeReason = "open"]
                /\ f = e \/ f.closeReason \in {"expired", "identity_changed"}]_vars

\* Every capture fits the unique index of the open encounters, which ignores the
\* shape identifier, unless an encounter was left open under another identifier of
\* a geometry in force: the closures of a capture are written before its openings,
\* and the domain opens no key it leaves open.
RefusedForRenamesOnly ==
    [][nextCapture' # nextCapture /\ refused' =>
         \E e \in events : IsOpen(e) /\ \E b \in DOMAIN catalogue :
             catalogue[b] # e.scope /\ VersionOf[catalogue[b]] = VersionOf[e.scope]]_vars

\* What is stored of the encounters is a behaviour of their life cycle, with its
\* clock read from the captures as the next transaction will read it.
Lifecycle == INSTANCE BunchingLifecycle WITH
    Catalogues <- {{c[b] : b \in DOMAIN c} : c \in CatalogueStates},
    latest <- LastReceived(Analysed),
    reviewed <- LastReceived(Reviewed)

\* Late, repeated and failed captures, partial coverage and the canonical rows
\* refine the life cycle of the encounters.
ImplementsLifecycle == Lifecycle!Spec
=============================================================================
