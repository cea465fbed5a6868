-------------------------- MODULE PassageMeasurement --------------------------
(***************************************************************************)
(* How passages are measured: the sectors of a shape, the conservative     *)
(* resolution of ambiguous positions, and the cursor that goes through the *)
(* positions of each vehicle; first for a batch, as Analyze does it, and   *)
(* then for the sequences of the producer, cut where the scope changes.    *)
(*                                                                         *)
(* Progress is in micrometers and time in nanoseconds, both as integers.   *)
(* The projections of a row are those within the maximum distance, whose   *)
(* distances tell nothing more apart: a row has a set of progresses, and a *)
(* scope is the provider's branch, with the version of the shape.          *)
(***************************************************************************)
EXTENDS Integers, Sequences, FiniteSets, SequencesExt

CONSTANTS
    LengthMeters, NominalMeters,
    MaximumGap,
    MaximumSpeed,    \* progress per unit of time
    Version,         \* of the shape that the layout divides
    Hour, HoursADay, \* in units of time, from the first midnight
    Batches          \* sequences of rows: vehicle, scope, version, at, candidates

ASSUME PolicyAssumption ==
    /\ LengthMeters \in Nat \ {0} /\ NominalMeters \in Nat \ {0}
    /\ MaximumGap \in Nat \ {0} /\ MaximumSpeed \in Nat \ {0}
    /\ Hour \in Nat \ {0} /\ HoursADay \in Nat \ {0}

\* The version of the shape is part of a scope.
ASSUME BatchesAssumption ==
    \A batch \in Batches : \A i, j \in DOMAIN batch :
        /\ batch[i].at \in Nat \ {0} /\ batch[i].candidates \subseteq Int
        /\ batch[i].scope = batch[j].scope => batch[i].version = batch[j].version

VARIABLES
    input,
    rows,        \* the rows, in order and once each
    pc,
    measured     \* what Measure made of the rows

vars == <<input, rows, pc, measured>>

-----------------------------------------------------------------------------
(* The layout. *)

\* NewLayout: a remainder under half a sector belongs to the one before.
sectors ==
    LET whole == LengthMeters \div NominalMeters
        remainder == LengthMeters - whole * NominalMeters
        count == IF whole = 0 \/ 2 * remainder >= NominalMeters THEN whole + 1 ELSE whole
    IN  [i \in 1..count |-> [start |-> (i - 1) * NominalMeters,
                             end |-> IF i = count THEN LengthMeters ELSE i * NominalMeters]]

\* The boundaries, numbered like the sector that each begins.
Boundaries == 1..(Len(sectors) + 1)
boundary(i) == IF i = Len(sectors) + 1 THEN LengthMeters ELSE sectors[i].start

-----------------------------------------------------------------------------
(* MatchConservatively. *)

Before(a, b) == a.vehicle < b.vehicle \/ (a.vehicle = b.vehicle /\ a.at < b.at)
SameInstant(a, b) == a.vehicle = b.vehicle /\ a.at = b.at

\* Only projections on the shape of the layout are candidates.
OnShape(row) ==
    [row EXCEPT !.candidates = IF row.version = Version THEN {c \in @ : 0 <= c /\ c <= LengthMeters} ELSE {}]

Conflicting(batch) ==
    \E i, j \in DOMAIN batch : SameInstant(batch[i], batch[j]) /\ OnShape(batch[i]) # OnShape(batch[j])

\* The rows in order, without their duplicates.
Canonical(batch) ==
    LET sorted == SortSeq([i \in DOMAIN batch |-> OnShape(batch[i])], Before)
        first == SelectSeq([i \in DOMAIN sorted |-> i], LAMBDA i : i = 1 \/ ~SameInstant(sorted[i - 1], sorted[i]))
    IN  [k \in DOMAIN first |-> sorted[first[k]]]

\* Mutant: the branch of the provider is not compared.
anchorAdjacentAnyScope(anchor, row) ==
    LET gap == IF anchor.at > row.at THEN anchor.at - row.at ELSE row.at - anchor.at
    IN  Cardinality(anchor.candidates) = 1 /\ anchor.vehicle = row.vehicle /\ gap > 0 /\ gap <= MaximumGap

anchorAdjacent(anchor, row) ==
    LET gap == IF anchor.at > row.at THEN anchor.at - row.at ELSE row.at - anchor.at
    IN  /\ Cardinality(anchor.candidates) = 1
        /\ anchor.vehicle = row.vehicle /\ anchor.scope = row.scope
        /\ gap > 0 /\ gap <= MaximumGap

reachable(from, to, gap) == to >= from /\ to - from <= MaximumSpeed * gap

Position(row) == CHOOSE c \in row.candidates : TRUE

\* What the anchors beside an ambiguous row leave of it.
Narrowed(all, i) ==
    LET row == all[i]
        before == i > 1 /\ anchorAdjacent(all[i - 1], row)
        after == i < Len(all) /\ anchorAdjacent(all[i + 1], row)
    IN  IF Cardinality(row.candidates) < 2 THEN row.candidates
        ELSE {c \in row.candidates :
                /\ before => reachable(Position(all[i - 1]), c, row.at - all[i - 1].at)
                /\ after => reachable(c, Position(all[i + 1]), all[i + 1].at - row.at)}

\* One sweep, in place: what a row becomes counts for the next one.
Sweep(all) ==
    LET swept[i \in 0..Len(all)] ==
            IF i = 0 THEN all
            ELSE LET soFar == swept[i - 1] IN [soFar EXCEPT ![i].candidates = Narrowed(soFar, i)]
    IN  swept[Len(all)]

\* Sweeps until one changes nothing: each of the others takes a candidate away.
MatchConservatively(all) ==
    LET bound == FoldLeftDomain(LAMBDA n, i : n + Cardinality(all[i].candidates), 0, all)
        matching[sweeps \in 0..bound] == IF sweeps = 0 THEN all ELSE Sweep(matching[sweeps - 1])
    IN  matching[bound]

-----------------------------------------------------------------------------
(* Measure.  The cursor holds the previous position and the passage that is *)
(* under way, each as a sequence of one or none, and the results so far.    *)

Nothing == [previous |-> <<>>, pending |-> <<>>, passages |-> <<>>, incomplete |-> <<>>, rejections |-> <<>>]

exactCrossing(at) == [at |-> at, beforeAt |-> at, afterAt |-> at]

later(a, b) == IF a > b THEN a ELSE b

\* The instant is truncated to the unit of time.
interpolate(a, b, progress) ==
    IF progress = Position(b) THEN exactCrossing(b.at)
    ELSE [at |-> a.at + ((b.at - a.at) * (progress - Position(a))) \div (Position(b) - Position(a)),
          beforeAt |-> a.at, afterAt |-> b.at]

Entry(sector, crossing) ==
    [sector |-> sector, crossing |-> crossing, interior |-> 0, maximumGap |-> crossing.afterAt - crossing.beforeAt]

\* A position at the beginning of a sector enters it.
startAtBoundary(row) ==
    LET begun == {i \in DOMAIN sectors : sectors[i].start = Position(row)}
    IN  IF begun = {} THEN <<>> ELSE <<Entry(CHOOSE i \in begun : TRUE, exactCrossing(row.at))>>

rejectObservation(row) == IF Cardinality(row.candidates) # 1 THEN "unresolved_match" ELSE "none"

rejectEdge(a, b) ==
    LET gap == b.at - a.at
        delta == Position(b) - Position(a)
    IN  IF a.scope # b.scope THEN "scope_changed"
        ELSE IF gap > MaximumGap THEN "gps_gap"
        ELSE IF delta < 0 THEN "backwards"
        ELSE IF delta > MaximumSpeed * gap THEN "implausible_speed"
        ELSE "none"

abandon(c, reason) ==
    IF c.pending = <<>> THEN c
    ELSE [c EXCEPT !.pending = <<>>,
                   !.incomplete = Append(@, [vehicle |-> c.previous[1].vehicle, scope |-> c.previous[1].scope,
                                             sector |-> c.pending[1].sector, entered |-> c.pending[1].crossing,
                                             reason |-> reason])]

Reject(c, reason) == [abandon(c, reason) EXCEPT !.rejections = Append(@, reason)]

Complete(c, row, exited) ==
    LET p == c.pending[1]
    IN  [c EXCEPT !.passages = Append(@,
            [vehicle |-> row.vehicle, scope |-> row.scope, sector |-> p.sector,
             entered |-> p.crossing, exited |-> exited, duration |-> exited.at - p.crossing.at,
             interior |-> p.interior,
             gap |-> later(p.maximumGap, exited.afterAt - exited.beforeAt),
             same |-> p.crossing.beforeAt = exited.beforeAt /\ p.crossing.afterAt = exited.afterAt])]

\* Boundary i is crossed on the way to a row: the sector before it ends, unless
\* in no time, and the one after it begins.
Cross(c, row, i) ==
    LET crossed == interpolate(c.previous[1], row, boundary(i))
        leaves == c.pending # <<>> /\ c.pending[1].sector = i - 1
        left == IF ~leaves THEN c
                ELSE IF crossed.at > c.pending[1].crossing.at THEN Complete(c, row, crossed)
                ELSE abandon(c, "degenerate_crossing")
    IN  [left EXCEPT !.pending = IF i \in DOMAIN sectors THEN <<Entry(i, crossed)>> ELSE <<>>]

\* Mutant: a pending entry does not note the gap to the new position.
FollowCrossingGap(c, row) ==
    LET on == {i \in Boundaries : Position(c.previous[1]) < boundary(i) /\ boundary(i) <= Position(row)}
        first == CHOOSE i \in on : \A j \in on : i <= j
        after[n \in 0..Cardinality(on)] == IF n = 0 THEN c ELSE Cross(after[n - 1], row, first + n - 1)
        there == after[Cardinality(on)]
        inside == there.pending # <<>> /\ LET s == sectors[there.pending[1].sector]
                                          IN  s.start < Position(row) /\ Position(row) < s.end
    IN  [there EXCEPT !.previous = <<row>>,
                      !.pending = IF inside THEN <<[@[1] EXCEPT !.interior = @ + 1]>> ELSE @]

\* The vehicle goes on: it crosses the boundaries up to the new position.
Follow(c, row) ==
    LET held == [c EXCEPT !.pending =
            IF @ = <<>> THEN @ ELSE <<[@[1] EXCEPT !.maximumGap = later(@, row.at - c.previous[1].at)]>>]
        on == {i \in Boundaries : Position(c.previous[1]) < boundary(i) /\ boundary(i) <= Position(row)}
        first == CHOOSE i \in on : \A j \in on : i <= j
        after[n \in 0..Cardinality(on)] == IF n = 0 THEN held ELSE Cross(after[n - 1], row, first + n - 1)
        there == after[Cardinality(on)]
        inside == there.pending # <<>> /\ LET s == sectors[there.pending[1].sector]
                                          IN  s.start < Position(row) /\ Position(row) < s.end
    IN  [there EXCEPT !.previous = <<row>>,
                      !.pending = IF inside THEN <<[@[1] EXCEPT !.interior = @ + 1]>> ELSE @]

\* Mutant: after a position that is rejected the passage goes on.
advanceOver(c, row) ==
    LET own == IF c.previous # <<>> /\ c.previous[1].vehicle # row.vehicle
               THEN [abandon(c, "batch_boundary") EXCEPT !.previous = <<>>]
               ELSE c
        Begin(d) == [d EXCEPT !.pending = startAtBoundary(row), !.previous = <<row>>]
        edge == rejectEdge(own.previous[1], row)
    IN  IF rejectObservation(row) # "none" THEN [own EXCEPT !.rejections = Append(@, rejectObservation(row))]
        ELSE IF own.previous = <<>> THEN Begin(own)
        ELSE IF edge # "none" THEN Begin(Reject(own, edge))
        ELSE Follow(own, row)

advance(c, row) ==
    LET own == IF c.previous # <<>> /\ c.previous[1].vehicle # row.vehicle
               THEN [abandon(c, "batch_boundary") EXCEPT !.previous = <<>>]
               ELSE c
        Begin(d) == [d EXCEPT !.pending = startAtBoundary(row), !.previous = <<row>>]
        edge == rejectEdge(own.previous[1], row)
    IN  IF rejectObservation(row) # "none" THEN [Reject(own, rejectObservation(row)) EXCEPT !.previous = <<>>]
        ELSE IF own.previous = <<>> THEN Begin(own)
        ELSE IF edge # "none" THEN Begin(Reject(own, edge))
        ELSE Follow(own, row)

Measure(all) ==
    LET after[n \in 0..Len(all)] == IF n = 0 THEN Nothing ELSE advance(after[n - 1], all[n])
    IN  abandon(after[Len(all)], "batch_boundary")

-----------------------------------------------------------------------------
(* The report of Analyze: how the matching left the rows, and the coverage, *)
(* which counts a position in the cell where and when it was seen and a     *)
(* passage, complete or not, in the cell of its entry.                      *)

Resolved(all) == {i \in DOMAIN all : rejectObservation(all[i]) = "none"}

\* The first sector that ends beyond; the end of the shape is of the last one.
SectorOf(progress) ==
    LET beyond == {i \in DOMAIN sectors : progress < sectors[i].end}
    IN  IF beyond = {} THEN Len(sectors) ELSE CHOOSE i \in beyond : \A j \in beyond : i <= j

Cell(sector, at) == [sector |-> sector, date |-> at \div (Hour * HoursADay), hour |-> (at \div Hour) % HoursADay]

CellOfRow(row) == Cell(SectorOf(Position(row)), row.at)

\* Mutant: the cell of the position that shows the entry.
CellOfEntryShown(p) == Cell(p.sector, p.entered.afterAt)

CellOfEntry(p) == Cell(p.sector, p.entered.at)

\* The counts of Matching: alternatives is what the rows could be at first.
MatchingCounts(raw, alternatives, all) ==
    LET Count(Is(_, _)) ==
            Cardinality({i \in DOMAIN all : Is(Cardinality(alternatives[i].candidates), Cardinality(all[i].candidates))})
    IN  [duplicates |-> Len(raw) - Len(all),
         spatiallyUnique |-> Count(LAMBDA before, after : before = 1 /\ after = 1),
         temporallyResolved |-> Count(LAMBDA before, after : before > 1 /\ after = 1),
         ambiguous |-> Count(LAMBDA before, after : after > 1),
         unmatched |-> Count(LAMBDA before, after : after = 0)]

Select(items, Test(_)) == {i \in DOMAIN items : Test(items[i])}

\* A cell holds its counts; the counts of a sector are those of its cells.
CoverageCell(all, m, cell) ==
    LET positions == {i \in Resolved(all) : CellOfRow(all[i]) = cell}
        passages == Select(m.passages, LAMBDA p : CellOfEntry(p) = cell)
        incomplete == Select(m.incomplete, LAMBDA p : CellOfEntry(p) = cell)
    IN  [matched |-> Cardinality(positions),
         gpsVehicles |-> {all[i].vehicle : i \in positions},
         valid |-> Cardinality(passages),
         passageVehicles |-> {m.passages[n].vehicle : n \in passages},
         incomplete |-> Cardinality(incomplete),
         interior |-> Cardinality({n \in passages : m.passages[n].interior > 0}),
         sameInterval |-> Cardinality({n \in passages : m.passages[n].interior = 0 /\ m.passages[n].same}),
         boundaryOnly |-> Cardinality({n \in passages : m.passages[n].interior = 0 /\ ~m.passages[n].same})]

buildCoverage(all, m) ==
    LET cells == {CellOfRow(all[i]) : i \in Resolved(all)}
                    \cup {CellOfEntry(p) : p \in Range(m.passages) \cup Range(m.incomplete)}
    IN  [cell \in cells |-> CoverageCell(all, m, cell)]

boundaryCensored(m) == Select(m.incomplete, LAMBDA p : p.reason = "batch_boundary")

SectorsWithValidPassages(coverage) == {cell.sector : cell \in {c \in DOMAIN coverage : coverage[c].valid > 0}}

EvidenceWithoutPassages(coverage) == {cell.sector : cell \in DOMAIN coverage} \ SectorsWithValidPassages(coverage)

-----------------------------------------------------------------------------
(* finalizeProducerSequence: the rows of one vehicle, cut where the scope   *)
(* changes, and each segment matched and measured on its own.               *)

Segments(all) ==
    LET Begins(i) == i = 1 \/ all[i].scope # all[i - 1].scope
        first == SelectSeq([i \in DOMAIN all |-> i], Begins)
    IN  [k \in DOMAIN first |-> SubSeq(all, first[k], IF k = Len(first) THEN Len(all) ELSE first[k + 1] - 1)]

\* Mutant: what the end of a segment leaves incomplete stays censored.
FinalReasonsOfBatch(incomplete, reason) == incomplete

FinalReasons(incomplete, reason) ==
    [i \in DOMAIN incomplete |-> [incomplete[i] EXCEPT !.reason = IF @ = "batch_boundary" THEN reason ELSE @]]

\* What is under way at the end of a segment is abandoned for a final reason.
Produced(all) ==
    LET segments == Segments(all)
    IN  [k \in DOMAIN segments |->
            LET m == Measure(MatchConservatively(segments[k]))
            IN  [passages |-> m.passages,
                 incomplete |-> FinalReasons(m.incomplete, IF k = Len(segments) THEN "missing_updates" ELSE "scope_changed"),
                 through |-> Last(segments[k]).at]]

\* validateMeasurementSupport, which the store asks for before it writes.
ValidCrossing(c, through) ==
    /\ c.beforeAt <= c.at /\ c.at <= c.afterAt
    /\ c.afterAt - c.beforeAt <= MaximumGap
    /\ c.afterAt <= through

validateMeasurementSupport(m) ==
    /\ \A i \in DOMAIN m.passages :
        LET p == m.passages[i]
        IN  /\ p.sector \in DOMAIN sectors
            /\ ValidCrossing(p.entered, m.through) /\ ValidCrossing(p.exited, m.through)
            /\ p.duration > 0 /\ p.duration = p.exited.at - p.entered.at
            /\ p.gap <= MaximumGap
            /\ p.gap >= p.entered.afterAt - p.entered.beforeAt
            /\ p.gap >= p.exited.afterAt - p.exited.beforeAt
            /\ p.same <=> p.entered.beforeAt = p.exited.beforeAt /\ p.entered.afterAt = p.exited.afterAt
    /\ \A i \in DOMAIN m.incomplete :
        /\ m.incomplete[i].sector \in DOMAIN sectors
        /\ ValidCrossing(m.incomplete[i].entered, m.through)
        /\ m.incomplete[i].reason # "batch_boundary"

-----------------------------------------------------------------------------
(* Analyze of one batch; the sweeps of the matching are steps. *)

Init ==
    /\ input \in Batches
    /\ rows = <<>>
    /\ pc = "read"
    /\ measured = Nothing

Read ==
    /\ pc = "read"
    /\ IF Conflicting(input)
       THEN pc' = "failed" /\ UNCHANGED rows
       ELSE pc' = "match" /\ rows' = Canonical(input)
    /\ UNCHANGED <<input, measured>>

Match ==
    /\ pc = "match"
    /\ rows' = Sweep(rows)
    /\ pc' = IF rows' = rows THEN "measure" ELSE "match"
    /\ UNCHANGED <<input, measured>>

MeasureRows ==
    /\ pc = "measure"
    /\ measured' = Measure(rows)
    /\ pc' = "measured"
    /\ UNCHANGED <<input, rows>>

Done == pc \in {"measured", "failed"} /\ UNCHANGED vars

Next == Read \/ Match \/ MeasureRows \/ Done

Spec == Init /\ [][Next]_vars

-----------------------------------------------------------------------------
(* What a vehicle may have done: the positions that its rows allow, each    *)
(* within reach of the one before.                                          *)

\* Rows side by side which one vehicle made in one branch, without a gap.
Joined(all, i) ==
    /\ i > 1
    /\ all[i - 1].vehicle = all[i].vehicle /\ all[i - 1].scope = all[i].scope
    /\ all[i].at - all[i - 1].at <= MaximumGap
    /\ all[i - 1].candidates # {} /\ all[i].candidates # {}

Chain(all, i) ==
    {k \in DOMAIN all : \A j \in (IF k < i THEN (k + 1)..i ELSE (i + 1)..k) : Joined(all, j)}

Trajectories(all, chain) ==
    {f \in [chain -> UNION {all[k].candidates : k \in chain}] :
        \A k \in chain :
            /\ f[k] \in all[k].candidates
            /\ k - 1 \in chain => reachable(f[k - 1], f[k], all[k].at - all[k - 1].at)}

\* "MatchConservatively never chooses the nearest alternative as a tie-break":
\* however far the resolution propagates, it discards no position of any
\* trajectory that the rows of a vehicle allow.
NoTrajectoryLost ==
    pc \in {"match", "measure", "measured"} =>
        LET all == Canonical(input)
        IN  \A i \in DOMAIN rows : \A f \in Trajectories(all, Chain(all, i)) :
                i \in DOMAIN f => f[i] \in rows[i].candidates

\* An edge that evidence supports: both positions resolved, nothing rejected.
Supported(i) ==
    /\ i > 1
    /\ rows[i - 1].vehicle = rows[i].vehicle
    /\ rejectObservation(rows[i - 1]) = "none" /\ rejectObservation(rows[i]) = "none"
    /\ rejectEdge(rows[i - 1], rows[i]) = "none"

Entries ==
    UNION {
        IF Supported(i)
        THEN {<<rows[i].vehicle, s, interpolate(rows[i - 1], rows[i], sectors[s].start)>> :
                s \in {n \in DOMAIN sectors : /\ Position(rows[i - 1]) < sectors[n].start
                                              /\ sectors[n].start <= Position(rows[i])}}
        ELSE {<<rows[i].vehicle, s, exactCrossing(rows[i].at)>> :
                s \in {n \in DOMAIN sectors : sectors[n].start = Position(rows[i])}} :
        i \in {k \in DOMAIN rows : rejectObservation(rows[k]) = "none"}}

\* Every supported entry to a sector is accounted for once: as a passage or, with
\* a reason, as incomplete, through rejections, gaps, changes of vehicle and of
\* branch, and passages that would take no time.
EntriesEndOnce ==
    pc = "measured" =>
        LET ended == measured.passages \o measured.incomplete
        IN  /\ Range([i \in DOMAIN ended |-> <<ended[i].vehicle, ended[i].sector, ended[i].entered>>]) = Entries
            /\ Len(ended) = Cardinality(Entries)

\* A passage spans no rejected position and no rejected edge: between the rows
\* that support its entry and its exit all edges are supported, the vehicle was
\* seen before the sector and after it, and the interior positions and the gap
\* it reports are those of all the rows between.
PassagesAreSupported ==
    pc = "measured" =>
        \A n \in DOMAIN measured.passages :
            LET p == measured.passages[n]
                sector == sectors[p.sector]
            IN  \E i, j \in DOMAIN rows :
                    /\ i < j
                    /\ rows[i].vehicle = p.vehicle /\ rows[i].at = p.entered.beforeAt
                    /\ rows[j].vehicle = p.vehicle /\ rows[j].at = p.exited.afterAt
                    /\ \A k \in (i + 1)..j : Supported(k) /\ rows[k].at - rows[k - 1].at <= p.gap
                    /\ \E k \in (i + 1)..j : rows[k].at - rows[k - 1].at = p.gap
                    /\ Position(rows[i]) <= sector.start /\ Position(rows[j]) >= sector.end
                    /\ p.interior = Cardinality({k \in i..j : /\ sector.start < Position(rows[k])
                                                              /\ Position(rows[k]) < sector.end})

\* The sequences of the producer, which are cut where the branch changes, yield
\* the passages that the batch does, and the store admits all that they measure.
SequencesAgree ==
    pc = "measured" =>
        LET all == Canonical(input)
        IN  \A vehicle \in {all[i].vehicle : i \in DOMAIN all} :
                LET own == SelectSeq(all, LAMBDA r : r.vehicle = vehicle)
                    produced == Produced(own)
                IN  /\ FlattenSeq([k \in DOMAIN produced |-> produced[k].passages])
                            = SelectSeq(measured.passages, LAMBDA p : p.vehicle = vehicle)
                    /\ \A k \in DOMAIN produced : validateMeasurementSupport(produced[k])

\* The report leaves nothing out and counts nothing twice: every raw position is
\* of one kind; an entry is counted in the one cell where and when it was made,
\* however late its passage ended; the positions that passages claim as interior
\* are among those of their sector; a vehicle leaves one passage censored at most.
ReportAddsUp ==
    pc = "measured" =>
        LET counts == MatchingCounts(input, Canonical(input), rows)
            coverage == buildCoverage(rows, measured)
            Of(sector, count(_)) ==
                MapThenSumSet(count, {c \in DOMAIN coverage : c.sector = sector})
        IN  /\ counts.duplicates + counts.spatiallyUnique + counts.temporallyResolved
                    + counts.ambiguous + counts.unmatched = Len(input)
            /\ \A e \in Entries : Cell(e[2], e[3].at) \in DOMAIN coverage
            /\ \A cell \in DOMAIN coverage :
                    /\ coverage[cell].valid + coverage[cell].incomplete
                            = Cardinality({e \in Entries : Cell(e[2], e[3].at) = cell})
                    /\ coverage[cell].valid
                            = coverage[cell].interior + coverage[cell].sameInterval + coverage[cell].boundaryOnly
            /\ \A s \in DOMAIN sectors :
                    MapThenSumSet(LAMBDA n : measured.passages[n].interior,
                                  Select(measured.passages, LAMBDA p : p.sector = s))
                        <= Of(s, LAMBDA c : coverage[c].matched)
            /\ EvidenceWithoutPassages(coverage) \cap {p.sector : p \in Range(measured.passages)} = {}
            /\ Cardinality(boundaryCensored(measured)) <= Cardinality({r.vehicle : r \in Range(rows)})
=============================================================================
