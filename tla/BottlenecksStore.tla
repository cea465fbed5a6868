-------------------------- MODULE BottlenecksStore --------------------------
(***************************************************************************)
(* The two independent writers of the bottleneck evidence and the database *)
(* between them.  Ingestion stores captures and purges expired ones under  *)
(* an advisory lock; ProcessNext, which takes no such lock, consumes the   *)
(* stored captures by identifier, one transaction per capture, and keeps a *)
(* checkpoint, the state of every vehicle and the final segments.          *)
(*                                                                         *)
(* A ProcessNext transaction is three steps, where the purge can come in   *)
(* between: it reads the run, then pins the raw partitions, then consumes  *)
(* a capture and commits.  A crash, a deadlock or a timeout undoes it.     *)
(***************************************************************************)
EXTENDS BottlenecksProducer

CONSTANTS
    Vehicles,
    Scopes,            \* operational scopes; a scope names one geometry
    CatalogueStates,   \* sets of scopes: what a reload may leave mapped
    DayLength,         \* instants of one UTC day
    RetentionDays,     \* days the ingestion keeps and admits
    RawRetentionDays,  \* days the measurement model counts on
    ClockSlip,         \* how far the ingestion clock may step back
    MaximumTime,       \* bound on the clock
    MaximumCaptures,   \* bound on the capture identifiers
    StorageSkew,       \* the minute the ingestion grants to a GPS clock
    Deliveries         \* sets of <<vehicle, GPS time>> a capture may bring

ASSUME RetentionAssumption ==
    /\ DayLength \in Nat \ {0}
    /\ RetentionDays \in Nat \ {0}
    /\ RawRetentionDays \in 1..RetentionDays
    /\ ClockSlip \in Nat
    /\ StorageSkew \in Nat

ASSUME BoundAssumption == MaximumTime \in Nat \ {0} /\ MaximumCaptures \in Nat

ASSUME DeliveriesAssumption ==
    \A delivery \in Deliveries : IsFiniteSet(delivery) /\ delivery \subseteq Vehicles \X Nat

VARIABLES
    clock,        \* the clock of workers and database
    catalogue,    \* scopes of the current GTFS catalogue
    captures,     \* vialis.capturas_colectivos
    raw,          \* vialis.posiciones_colectivos_raw
    nextCapture,  \* the identity of capturas_colectivos
    run,          \* the row of vialis.bottlenecks_modelos
    layouts,      \* vialis.bottlenecks_trazados
    states,       \* vialis.bottlenecks_estados_productor
    published,    \* vialis.bottlenecks_mediciones, by vehicle
    phase,        \* of the ProcessNext transaction, or why the producer stopped
    arrived,      \* history: every row ever stored
    ids,          \* history: the captures stored since the activation
    consumed      \* history: the captures that were processed

source == <<clock, catalogue, captures, raw, nextCapture, arrived, ids>>
derived == <<run, layouts, states, published, consumed>>
vars == <<source, derived, phase>>

Day(t) == t \div DayLength
Expired(t, days) == Day(t) < Day(clock) - (days - 1)

Stops == {"source_expired", "source_incomplete", "geometry_unavailable"}

\* The empty run: activation 0, nothing processed.
Init ==
    /\ clock = 1
    /\ catalogue \in CatalogueStates
    /\ captures = {} /\ raw = {} /\ nextCapture = 1
    /\ arrived = {} /\ ids = {} /\ consumed = {}
    /\ run = [active |-> FALSE, activatedAt |-> 0, activation |-> 0, checkpoint |-> 0, lastReceived |-> 0]
    /\ layouts = {}
    /\ states = [v \in {} |-> NewProducerState(0)]
    /\ published = [v \in Vehicles |-> {}]
    /\ phase = "inactive"

-----------------------------------------------------------------------------
(* Ingestion.  It shares a process with the producer, but the one of a      *)
(* former process, or of the version without a producer, may still commit   *)
(* while this one starts.                                                   *)

Tick ==
    /\ clock < MaximumTime
    /\ clock' = clock + 1
    /\ UNCHANGED <<catalogue, captures, raw, nextCapture, arrived, ids, derived, phase>>

\* The rows a delivery adds to raw: none older than the retention, none of a
\* known vehicle and timestamp.
NewRows(delivery, scope, received) ==
    {[vehicle |-> d[1], at |-> d[2], scope |-> scope, capture |-> nextCapture] :
        d \in {e \in delivery : /\ Day(e[2]) >= Day(received) + 1 - RetentionDays
                                /\ ~\E r \in raw : r.vehicle = e[1] /\ r.at = e[2]}}

StoreCapture(delivery, scope, received, partial) ==
    /\ nextCapture <= MaximumCaptures
    /\ scope \in catalogue
    /\ \A d \in delivery : d[2] <= received + StorageSkew
    /\ raw' = raw \cup NewRows(delivery, scope, received)
    /\ arrived' = arrived \cup NewRows(delivery, scope, received)
    /\ captures' = captures \cup
          {[id |-> nextCapture, receivedAt |-> received, partial |-> partial,
            inserted |-> Cardinality(NewRows(delivery, scope, received))]}
    /\ ids' = IF run.active THEN ids \cup {nextCapture} ELSE ids
    /\ nextCapture' = nextCapture + 1
    /\ UNCHANGED <<clock, catalogue, derived, phase>>

\* An ingestion transaction that does not commit leaves a gap.
StoreFails ==
    /\ nextCapture <= MaximumCaptures
    /\ nextCapture' = nextCapture + 1
    /\ UNCHANGED <<clock, catalogue, captures, raw, arrived, ids, derived, phase>>

\* MaintainPartitions without history preservation.  Dropping a partition waits
\* for the ACCESS SHARE lock of a pinned ProcessNext.
Purge ==
    /\ phase # "pinned"
    /\ raw' = {r \in raw : ~Expired(r.at, RetentionDays)}
    /\ captures' = {c \in captures : \/ Day(c.receivedAt) >= Day(clock) + 1 - RetentionDays
                                     \/ \E r \in raw' : r.capture = c.id}
    /\ <<raw, captures>>' # <<raw, captures>>
    /\ UNCHANGED <<clock, catalogue, nextCapture, arrived, ids, derived, phase>>

ReloadCatalogue ==
    /\ catalogue' \in CatalogueStates \ {catalogue}
    /\ UNCHANGED <<clock, captures, raw, nextCapture, arrived, ids, derived, phase>>

-----------------------------------------------------------------------------
(* The producer.                                                           *)

\* Activate: the identifiers that exist are excluded, there is no backfill.
Activate ==
    /\ phase = "inactive"
    /\ ~run.active
    /\ LET last == Greatest({c.id : c \in captures} \cup {0})
       IN  run' = [active |-> TRUE, activatedAt |-> clock, activation |-> last,
                   checkpoint |-> last, lastReceived |-> 0]
    /\ phase' = "idle"
    /\ UNCHANGED <<source, layouts, states, published, consumed>>

\* LoadProducerStates: a run that exists is resumed, whatever stopped it.
Resume ==
    /\ phase = "inactive"
    /\ run.active
    /\ phase' = "idle"
    /\ UNCHANGED <<source, derived>>

Stop(reason) ==
    /\ phase' = reason
    /\ UNCHANGED <<source, derived>>

Reference == IF run.lastReceived = 0 THEN run.activatedAt ELSE run.lastReceived

\* readRun and the first retention check.
Begin ==
    /\ phase = "idle"
    /\ IF Expired(Reference, RawRetentionDays)
       THEN Stop("source_expired")
       ELSE phase' = "begun" /\ UNCHANGED <<source, derived>>

\* Mutant: no check after the lock.
PinUnchecked ==
    /\ phase = "begun"
    /\ phase' = "pinned"
    /\ UNCHANGED <<source, derived>>

\* LOCK TABLE, and the check that a purge awaited meanwhile calls for.
Pin ==
    /\ phase = "begun"
    /\ IF Expired(Reference, RawRetentionDays)
       THEN Stop("source_expired")
       ELSE phase' = "pinned" /\ UNCHANGED <<source, derived>>

OpenStates(all) == {v \in DOMAIN all : IsOpenSequence(all[v].open)}

OpenExpired(all) ==
    \E v \in OpenStates(all) : Expired(all[v].open.earliest, RawRetentionDays)

\* Mutant: the identifiers are expected to have no gap.
UnreadNext == {c \in captures : c.id = run.checkpoint + 1}

Unread == {c \in captures : c.id > run.checkpoint}

NextCapture == CHOOSE c \in Unread : \A d \in Unread : c.id <= d.id
RowsOf(c) == {r \in raw : r.capture = c.id}

\* A vehicle that was never seen starts at the activation, not the checkpoint.
StateOf(v) == IF v \in DOMAIN states THEN states[v] ELSE NewProducerState(run.activation)

\* Mutant: the replay ends at the last capture of the descriptor.
ReplayOfDescriptor(c, v) ==
    LET state == StateOf(v)
        newer == \E r \in RowsOf(c) : r.vehicle = v /\ r.at > state.latestSeen
    IN  IF /\ IsOpenSequence(state.open) /\ ~c.partial /\ ~newer
           /\ state.missing = MissingCaptureLimit - 1
        THEN {r \in raw : /\ r.vehicle = v
                          /\ r.capture \in state.open.first..state.open.last
                          /\ r.at > state.closedThrough}
        ELSE {}

\* The store foresees the closure to read the replay with the capture.
Replay(c, v) ==
    LET state == StateOf(v)
        newer == \E r \in RowsOf(c) : r.vehicle = v /\ r.at > state.latestSeen
    IN  IF /\ IsOpenSequence(state.open) /\ ~c.partial /\ ~newer
           /\ state.missing = MissingCaptureLimit - 1
        THEN {r \in raw : /\ r.vehicle = v
                          /\ r.capture \in state.open.first..c.id
                          /\ r.at > state.closedThrough}
        ELSE {}

\* The input of ProduceCapture for one vehicle.
Input(c, v) ==
    [id |-> c.id, receivedAt |-> c.receivedAt, partial |-> c.partial,
     new |-> {r \in RowsOf(c) : r.vehicle = v}, replay |-> Replay(c, v)]

Involved(c) == DOMAIN states \cup {r.vehicle : r \in RowsOf(c)}

\* Mutant: only the vehicles of the capture are advanced.
NextStatesOfPresent(c) ==
    [v \in Involved(c) |->
        IF \E r \in RowsOf(c) : r.vehicle = v THEN ProduceCapture(StateOf(v), Input(c, v)) ELSE StateOf(v)]

NextStates(c) == [v \in Involved(c) |-> ProduceCapture(StateOf(v), Input(c, v))]

\* Geometry follows the scope saved in raw: a layout of the run, or the exact
\* version in the catalogue of this moment.
Resolvable(c) == \A r \in RowsOf(c) : r.scope \in layouts \cup catalogue

SourceIncomplete(c) == Cardinality(RowsOf(c)) # c.inserted

InOrder(c) == c.receivedAt >= run.lastReceived

AllProducible(c) == \A v \in Involved(c) : Producible(StateOf(v), Input(c, v), run.activation)

\* The checks of one capture up to the last; which one fails is its verdict.
Verdict(c) ==
    CASE ~InOrder(c) -> "refused"
      [] InOrder(c) /\ Expired(c.receivedAt, RawRetentionDays) -> "source_expired"
      [] OTHER ->
            IF SourceIncomplete(c) THEN "source_incomplete"
            ELSE IF ~Resolvable(c) THEN "geometry_unavailable"
            ELSE IF ~AllProducible(c) THEN "source_incomplete"
            ELSE IF OpenExpired(NextStates(c)) THEN "source_expired"
            ELSE "processed"

\* Nothing to read: neither an absence nor a change of the state.
ProcessIdle ==
    /\ phase = "pinned"
    /\ ~OpenExpired(states)
    /\ Unread = {}
    /\ phase' = "idle"
    /\ UNCHANGED <<source, derived>>

\* A lost source stops the producer for good, with the checkpoint where it was.
ProcessStops ==
    /\ phase = "pinned"
    /\ \/ OpenExpired(states) /\ Stop("source_expired")
       \/ /\ ~OpenExpired(states) /\ Unread # {}
          /\ Verdict(NextCapture) \in Stops
          /\ Stop(Verdict(NextCapture))

\* A capture received before the last processed one is an error like any other:
\* the loop tries again in the next cycle.
ProcessRefused ==
    /\ phase = "pinned"
    /\ ~OpenExpired(states) /\ Unread # {}
    /\ Verdict(NextCapture) = "refused"
    /\ phase' = "idle"
    /\ UNCHANGED <<source, derived>>

\* One capture: states, segments, layouts and checkpoint commit together.
ProcessCapture ==
    /\ phase = "pinned"
    /\ ~OpenExpired(states) /\ Unread # {}
    /\ LET c == NextCapture
       IN  /\ Verdict(c) = "processed"
           /\ layouts' = layouts \cup {r.scope : r \in RowsOf(c)}
           /\ states' = NextStates(c)
           /\ published' = [v \in Vehicles |-> published[v] \cup
                               IF v \in Involved(c) THEN ProducedSegments(StateOf(v), Input(c, v)) ELSE {}]
           /\ run' = [run EXCEPT !.checkpoint = c.id, !.lastReceived = c.receivedAt]
           /\ consumed' = consumed \cup {[id |-> c.id, partial |-> c.partial]}
    /\ phase' = "idle"
    /\ UNCHANGED source

\* Timeouts and transient database errors undo the transaction; the loop tries
\* again in the next cycle.
Abort ==
    /\ phase \in {"begun", "pinned"}
    /\ phase' = "idle"
    /\ UNCHANGED <<source, derived>>

\* The process ends, by itself or not, and is started again.
Restart ==
    /\ phase # "inactive"
    /\ phase' = "inactive"
    /\ UNCHANGED <<source, derived>>

Finish == ProcessIdle \/ ProcessStops \/ ProcessRefused \/ ProcessCapture

Next ==
    \/ Tick
    \/ \E delivery \in Deliveries, scope \in Scopes, partial \in BOOLEAN :
          \E received \in {t \in (clock - ClockSlip)..clock : t > 0} :
             StoreCapture(delivery, scope, received, partial)
    \/ StoreFails
    \/ Purge
    \/ ReloadCatalogue
    \/ Activate
    \/ Resume
    \/ Begin
    \/ Pin
    \/ Finish
    \/ Abort
    \/ Restart

Spec == Init /\ [][Next]_vars

\* The loop of ProducerWorker.Run goes on while it is not stopped, and the
\* process is started again.  Timeouts and restarts are transient: what is tried
\* again and again is not interrupted every time.
Fairness ==
    /\ WF_vars(Activate \/ Resume)
    /\ SF_vars(Begin)
    /\ SF_vars(Pin)
    /\ SF_vars(Finish)

FairSpec == Spec /\ Fairness

-----------------------------------------------------------------------------
TypeOK ==
    /\ clock \in 1..MaximumTime
    /\ catalogue \in CatalogueStates
    /\ captures \subseteq [id: 1..MaximumCaptures, receivedAt: 1..MaximumTime, partial: BOOLEAN, inserted: Nat]
    /\ arrived \subseteq [vehicle: Vehicles, at: Nat, scope: Scopes, capture: 1..MaximumCaptures]
    /\ raw \subseteq arrived
    /\ nextCapture \in 1..(MaximumCaptures + 1)
    /\ ids \subseteq 1..(nextCapture - 1)
    /\ run \in [active: BOOLEAN, activatedAt: 0..MaximumTime, activation: 0..MaximumCaptures,
               checkpoint: 0..MaximumCaptures, lastReceived: 0..MaximumTime]
    /\ layouts \subseteq Scopes
    /\ DOMAIN states \subseteq Vehicles
    /\ published \in [Vehicles -> SUBSET SUBSET arrived]
    /\ phase \in {"inactive", "idle", "begun", "pinned"} \cup Stops
    /\ consumed \subseteq [id: 1..MaximumCaptures, partial: BOOLEAN]

\* Rows of the source the checkpoint has gone past.
Processed(v) == {r \in arrived : r.vehicle = v /\ r.capture \in ids /\ r.capture <= run.checkpoint}

\* The descriptor of an open sequence, which keeps no rows, stands for exactly
\* the rows received since the activation and not closed, late insertions
\* included, whatever was purged, reloaded, aborted or restarted meanwhile.
EvidenceIsSource ==
    \A v \in Vehicles :
        {r \in Processed(v) : r.at > StateOf(v).closedThrough} = StateOf(v).open.evidence

\* "Cierra tras cuatro capturas correctas no parciales consecutivas sin timestamp
\* GPS mas nuevo": the absences of an open sequence are the complete captures
\* processed after the one that brought the newest timestamp.
AbsencesAreConsecutive ==
    \A v \in OpenStates(states) :
        \E r \in Processed(v) :
            /\ r.at = states[v].latestSeen
            /\ states[v].missing = Cardinality({c \in consumed : c.id > r.capture /\ ~c.partial})

\* The checkpoint never goes past a capture that was not read, though a purge
\* removes the captures that brought no row.
NoCaptureSkipped ==
    {c.id : c \in consumed} = {k \in ids : k <= run.checkpoint}

\* What is committed is what a recovery accepts: every state passes Validate and
\* stands at the checkpoint of the run.
StatesRecover ==
    \A v \in DOMAIN states :
        /\ ValidState(states[v], run.activation)
        /\ states[v].lastCapture = run.checkpoint

\* Without a purge the source is never found incomplete: the counts of the
\* ingestion agree with raw, the store reads a replay exactly when the producer
\* closes, and the replay is the accepted evidence.
SourceStaysComplete == phase # "source_incomplete"

\* Captures, transactions, layouts and descriptors implement the log: a sequence
\* only gathers rows later than the last closure until it closes, and the closure
\* measures all of them, from a replay of the source, at once and for good.
Log == INSTANCE SequenceLog WITH
    pending <- [v \in Vehicles |-> StateOf(v).open.evidence],
    closed <- [v \in Vehicles |-> StateOf(v).closedThrough],
    measured <- published

ImplementsLog == Log!Spec

\* "Permanent source/model failures stop this loop": what a transaction finds in
\* the stored captures, which no later attempt changes, is processed or stops
\* the producer; only timeouts and transient errors are tried again.
SourceFailuresStop ==
    Unread # {} => Verdict(NextCapture) \in Stops \cup {"processed"}

\* Every stored capture is processed, unless the producer stops.
CheckpointCatchesUp ==
    \A k \in 1..MaximumCaptures :
        k \in ids ~> (run.checkpoint >= k \/ phase \in Stops)
=============================================================================
