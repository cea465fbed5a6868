------------------------- MODULE BunchingLifecycle -------------------------
(***************************************************************************)
(* The life of the encounters, as the domain promises it: captures are     *)
(* analysed one at a time in strictly increasing order of reception, each  *)
(* against the encounters the former ones left.  What a capture carries is *)
(* arbitrary: any fresh positions, in the scopes of any catalogue version, *)
(* at any distance, whole or partial, news or not.                         *)
(***************************************************************************)
EXTENDS BunchingEvents

CONSTANTS
    Catalogues,   \* sets of scopes; a catalogue version resolves no other
    MaximumTime   \* bound on the reception times that are explored

ASSUME CataloguesAssumption ==
    Catalogues \subseteq SUBSET Scopes
ASSUME TimeAssumption == MaximumTime \in Nat

VARIABLES
    events,    \* vialis.aglutinaciones_colectivos
    latest,    \* max(recibido_en) of the analysed captures, 0 when there is none
    reviewed   \* the same of the complete ones

vars == <<events, latest, reviewed>>

Init ==
    /\ events = {}
    /\ latest = 0
    /\ reviewed = 0

\* The fresh positions of a batch, at most one per vehicle.
FreshPositions(received, catalogue) ==
    LET times == {t \in (received - MaximumAge)..(received + MaximumFutureSkew) : t > 0}
        position == [observedAt : times, scope : catalogue]
    IN  UNION {[present -> position] : present \in SUBSET Vehicles}

\* A reception not after the last analysed one never moves the clock.
Receive(received) ==
    /\ received > latest
    /\ latest' = received

Analyse(received, positions, metres, new) ==
    /\ reviewed' = received
    /\ events' = Advance(events, Snapshot(events, received, FALSE, new, positions, metres))

AnalysePartial == UNCHANGED <<events, reviewed>>

Next ==
    \E received \in 1..MaximumTime :
        /\ Receive(received)
        /\ \/ AnalysePartial
           \/ \E catalogue \in Catalogues :
                 \E positions \in FreshPositions(received, catalogue),
                    metres \in [Pairs -> {DistanceMeters, DistanceMeters + 1}], new \in BOOLEAN :
                       Analyse(received, positions, metres, new)

Spec == Init /\ [][Next]_vars

-----------------------------------------------------------------------------
TypeOK ==
    /\ events \subseteq Event
    /\ latest \in Nat
    /\ reviewed \in 0..latest

\* A pair has at most one open encounter in a scope, whatever expires, moves
\* away, changes catalogue version and returns: the map "blocked" of Advance
\* and the expiry that lifts it agree.
OneOpenPerKey ==
    \A e, f \in events : IsOpen(e) /\ IsOpen(f) /\ Key(e) = Key(f) => e = f

\* "Un par cerrado no reinicia otra serie con los mismos timestamps ya usados":
\* of two encounters of a pair in a scope, the later one rests on samples of
\* both units newer than all those of the earlier one.  The look-up of former
\* encounters only reaches MaximumAge back, so this needs the freshness of the
\* opening samples and the strict order of receptions as well.
NoSampleReuse ==
    \A e, f \in events :
        Key(e) = Key(f) /\ e.id < f.id =>
            /\ e.observedA < f.observedA
            /\ e.observedB < f.observedB
            /\ e.lastObservedAt < f.firstObservedAt

\* Two rows of a key never come from one capture: together with NoSampleReuse,
\* the encounters of a pair in a scope are disjoint intervals of GPS time.
KeyOrdersEncounters ==
    \A e, f \in events : Key(e) = Key(f) /\ e.id = f.id => e = f

\* After a complete capture no encounter stays open on evidence confirmed more
\* than MaximumAge before it, however many partial captures came between.
NoStaleOpen ==
    \A e \in events : IsOpen(e) => reviewed - e.confirmedAt <= MaximumAge

\* Administrative closures are dated within the evidence: never before the last
\* admitted observation (the table's CHECK), and an expiry never later than
\* MaximumAge after the confirming reception unless the observation itself
\* leads it.
ClosureWithinEvidence ==
    \A e \in events : ~IsOpen(e) =>
        /\ e.closedAt >= e.lastObservedAt
        /\ e.closeReason = "expired" =>
              e.closedAt <= maximumTime(e.confirmedAt + MaximumAge, e.lastObservedAt)

\* The tolerated absences are never exceeded by an encounter that stays open.
MissingTolerated ==
    \A e \in events : IsOpen(e) => e.missingCaptures <= MissingCaptureTolerance

\* A closed encounter is history: no capture reopens, moves or deletes it.
ClosedForGood ==
    [][\A e \in events : ~IsOpen(e) => e \in events']_vars

\* Nothing but a capture that advances both units adds a sample to an encounter,
\* and such a capture is the only thing that forgives an absence.
SamplesNeedBothUnits ==
    [][\A e \in events, f \in events' :
          Key(e) = Key(f) /\ e.id = f.id =>
             /\ f.observations # e.observations =>
                   f.observedA > e.observedA /\ f.observedB > e.observedB
             /\ f.missingCaptures < e.missingCaptures => f.observations > e.observations
             /\ f.observations >= e.observations]_vars
=============================================================================
