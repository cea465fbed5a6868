# A verification project for motor-vialis

TLA+ modules, TLC runs and TLAPS proofs kept beside the Go backend of
motor-vialis. They cover the parts that keep state between calls and have to
survive lateness, repetition, cancellation, crashes and reloads: the *encounters*
of buses that run bunched (H0011) and the *bottleneck producer* (H0012), with the
database transactions both are made of, the worker process they run in, the
loaders of the database, and the client that shares traffic tiles among the
requests of the API; and the algorithms whose results are hard to test by example:
the planning of a detour around a cut with the comparison that follows it, and the
measurement of passages from ambiguous positions.

Run everything from this directory: `tlc -config <cfg> <module>` for a run
listed below, `tlapm <module>.tla` for the eight modules of proofs (`*Proofs.tla`).

## 1. The system

motor-vialis is one PostgreSQL/PostGIS database, an HTTP API that reads it, a
worker process that fills it from a GPS feed, and command line programs that
load it.

```
 GCBA feed --> transport/gcba --> realtime.Worker --StoreCapture--> capturas, raw, aglutinaciones
                                        |  MaintainPartitions (creates, purges)      |
                                        |                                            v (reads)
                                        +-- bottlenecks.ProducerWorker --ProcessNext--> checkpoint, estados,
                                            (same process, other goroutine)            trazados, mediciones
 GTFS, CSV --> database/bootstrap --> recorridos, equivalencias (the catalogue)
 HTTP API  --> simulation, lines, combinaciones, bunching and bottleneck read models, TomTom tiles
```

### Components

| Component | Source | State it keeps | Operations | What makes it correct | Here |
|---|---|---|---|---|---|
| Encounter domain | `internal/bunching` | none; a function from open encounters and a snapshot to changes | `Advance`, `Fingerprint` | one open encounter per pair and scope; encounters of a pair are disjoint in GPS time; closures dated within the evidence; a repeated answer adds nothing | modelled (life cycle); read models left out |
| Realtime repository | `internal/database/postgres/realtime_repository.go`, `bunching_processor.go` | `capturas_colectivos`, `posiciones_colectivos_raw`, `aglutinaciones_colectivos` | `StoreCapture`, `MaintainPartitions` | the first row of a vehicle and timestamp is canonical; the stored count of rows agrees with the rows; late captures do not move encounters | modelled |
| Producer domain | `internal/bottlenecks/producer*.go` | `ProducerState` of a vehicle (value) | `ProduceCapture`, `Validate`, replay check | the descriptor stands for exactly the rows received and not closed; a row is measured once | modelled; the state it stores and the passages it measures are in two modules |
| Bottleneck store and loop | `internal/database/postgres/bottlenecks_*.go`, `internal/bottlenecks/worker.go` | run, checkpoint, states, layouts, measurements | `Activate`, `LoadProducerStates`, `ProcessNext` | every stored capture is processed once, in order, or the producer stops; commits are recoverable | modelled |
| Ingestion worker and process | `internal/realtime/worker.go`, `cmd/realtime-worker` | coverage reference, last maintenance; pools and loops | `run`, `runWorkerLoops`, `Worker.Run`, `ProducerWorker.Run` | a failure ends neither loop of the other; the pools outlive the loops; a signal ends the process; a partial capture is no reference | modelled |
| GCBA client | `internal/transport/gcba` | none between calls | `Capture` with retries | bounded attempts, `Retry-After` a minimum, the backoff within its limit | modelled with the process; decoding left out |
| Measurement and detection | `internal/bottlenecks/{matching,passages,segments,coverage,analysis,detection,...}.go` | none | `MatchConservatively`, `Measure`, `Analyze`, `Detect` | an ambiguity is never settled by chance; no passage over rejected evidence; every entry ends once; the producer measures what a batch would | matching, measurement and coverage modelled; speeds, medians and detection left out |
| Traffic tiles | `internal/traffic/tomtom` | LRU cache with downloads under way, rate gate | `Snapshot`, `load`, `invalidate`, `wait` | one download of a tile at a time; limits of entries and bytes; an invalid tile leaves; no more requests than the rate; every snapshot ends | modelled, decoding left out |
| Detours | `internal/simulation/detour`, `internal/database/postgres/detour_repository.go` | none | `Plan`: analysis, traffic, routing, selection, reconstruction | a variant keeps what the cut must not cost; the best crossing is selected; a failed plan tells its first error | modelled over abstract geometry; segment and cut paths left out |
| Route simulation, demand, revenue | `internal/simulation` | none | `CompareDetour`; estimates over one snapshot | passengers pay by the original route; one failing side ends the comparison | the comparison of a detour modelled; demand, times and tariffs left out |
| Lines and combinations | `internal/lines`, `internal/combinaciones` | none | ranking, alignment | numeric; alignment is a candidate | not modelled |
| Bootstrap and reload | `internal/database/bootstrap`, `cmd/initdb`, `cmd/reload-gtfs` | the schema and its tables | `Load`, `ReloadGTFS` | what is derived from the routes is of the routes that are served, or empty; a load that ends wrote all of its tables | modelled command string by command string; SQL and file formats left out |
| HTTP API, composition | `internal/httpapi`, `internal/app`, `cmd/api` | none | handlers | validation | not modelled |

### How they interact, and where it is hard

* **One writer at a time, but several transactions.** `StoreCapture`,
  `MaintainPartitions` and `Activate` take the same advisory lock and exclude each
  other, across processes. `ProcessNext` does not take it: it pins the raw
  partitions with `ACCESS SHARE`, which the dropping of a partition waits for. A
  purge can therefore run between the producer's read of its run and that lock.
* **Receptions need not be ordered.** The reception time is a wall clock. The
  database orders captures by identity; encounters are only advanced by receptions
  strictly later than the last analysed one; the producer refuses a reception
  earlier than that of its checkpoint.
* **GPS times need not be ordered either.** A capture brings late rows, repeated
  rows, corrected coordinates for a known timestamp and times ahead of the
  reception. Raw keeps the first row of a vehicle and timestamp.
* **Absence is evidence.** A vehicle not seen for enough *complete* captures ends
  an encounter or a sequence. Partial captures, repeated answers, retries and idle
  cycles must not count as absences.
* **A sequence is kept as a descriptor.** The producer stores no rows of an open
  sequence: only bounds, a count and an XOR of digests. When the sequence closes it
  reads the rows again from raw and compares. Anything that makes the two differ
  stops the producer for good.
* **A load is many transactions.** `initdb` and `reload-gtfs` send one command
  string after another, each of which commits. They may fail between two of them, be
  run again, and nothing excludes a second loader.
* **Identity changes under the data.** A GTFS reload changes the scope (branch and
  geometry) later positions are resolved to, while encounters and sequences of the
  former one are open.
* **Downloads are shared, contexts are not.** Goroutines of several snapshots wait
  for one download; each group has a context of its own, which its first error
  cancels, but the download runs under the context of whoever began it.
* **Two loops, one process.** Ingestion and producer have separate pools and share
  only a context. Either may fail; the end of ingestion ends the other.
* **A plan is up to three attempts**, each of several calls to the database and the
  provider, which answer anew every time, while the request may end.
* **Matching propagates.** An ambiguous position is resolved by its neighbours, which
  their own neighbours resolved; the same rows are measured in a batch and, cut
  into sequences, by the producer.
* **Time runs out.** Raw is kept for some days; an open sequence or an idle
  checkpoint may reach the retention.

The hazards these lead to are listed one by one, with their lines, in
`PROJECT.json`.

## 2. Modules

| Module | Models |
|---|---|
| `BunchingEvents` | `internal/bunching/events.go`: `Advance` and its parts (`Expires`, `Leaves`, `ClosingTime`, `Confirm`, `Miss`, `Blocked`, `Opens`), with the snapshot as the database builds it |
| `BunchingLifecycle` | the abstract specification of the encounters: captures analysed in strictly increasing reception order, arbitrary contents |
| `BunchingLifecycleProofs` | its inductive invariant and theorems |
| `RealtimeStore` | `StoreCapture` over the database tables; refines `BunchingLifecycle` |
| `RealtimeStoreProofs` | its invariant, the refinement, and what follows for the table |
| `BottlenecksProducer` | `internal/bottlenecks/producer.go` and `producer_replay.go`: descriptor, absences, closure, replay check, segments |
| `SequenceLog` | the abstract specification of the producer: rows wait, then all of them are measured at once, for good |
| `SequenceLogProofs` | its inductive invariant and theorem |
| `BottlenecksStore` | ingestion, purge, reload and the producer's transactions around one database; refines `SequenceLog` |
| `BottlenecksStoreProofs` | its inductive invariant, the refinement, and the theorems about clocks and purges |
| `PassageMeasurement` | `internal/bottlenecks/{segments,matching,passages,coverage}.go`, `finalizeProducerSequence`, and the store's validation of a measurement: a batch of rows from reading to report |
| `TrafficTiles` | `internal/traffic/tomtom/cache.go` and `client.go`, with `mapTrafficError` of the planner: concurrent snapshots over the cache and the gate |
| `TrafficTilesProofs` | the inductive invariant of downloads, cache and gate, and its theorems |
| `RealtimeProcess` | `cmd/realtime-worker`, `internal/realtime/worker.go`, the retries of `internal/transport/gcba/client.go` and the loop of `internal/bottlenecks/worker.go` |
| `RealtimeProcessProofs` | the inductive invariant of loops, pools and retries, and its theorems |
| `DatabaseLoad` | `internal/database/bootstrap`: the wait, the checks and the command strings of `initdb` and `reload-gtfs` |
| `DatabaseLoadProofs` | the bound on the wait, for every budget and interval, what is derived from the routes, and what a load that ends has written |
| `DetourSelection` | `internal/simulation/detour/{selector,reconstruct}.go` and `buildIntervalPlans`: operators over one attempt |
| `RouteComparison` | `internal/simulation/{comparison,detour_fare}.go`: the two sides of a comparison, and the distances that fares are charged by |
| `DetourPlan` | `internal/simulation/detour/service.go`: `Plan` and its attempts; composes `DetourSelection` and `RouteComparison` |
| `DetourPlanProofs` | the control of a plan (its first error, and that it advances), the variants it answers, the best that is selected, and the distances that fares are charged by |
| `MC...` | constants for TLC |

An operator whose comment begins with *Mutant* is the definition that follows it
with a plausible slip in it. No specification uses it; it is there so that each
property can be seen to fail when the code is wrong (`PROJECT.json`, "mutants").

### Encounters: `BunchingEvents`, `BunchingLifecycle`

The set `events` is the table `aglutinaciones_colectivos`. One action, `Next`,
is one analysed capture: the guard `received > latest` of `Receive` is the
comparison with `max(recibido_en)` (`bunching_processor.go`), a partial capture
moves the clock and nothing else, a complete one is `Advance`. In `Advance`
expiry comes before the change of identity, that before the distance, and that
before the absence, as in the code. `Blocked` is the map of keys that admit no new
encounter in this capture, and `Previous` the look-up of recently closed rows of
`find_recent_closed_bunching.sql`, which reaches `MaximumAge` back and no further.

Distances, speeds, coordinates and line names are abstracted to what the life
cycle reads: a measured distance against the policy, and the operational scope.
The identity column is the reception of the capture that inserted the row: it
only orders the rows of one key.

### Storage: `RealtimeStore`

`captures`, `raw`, `events`, `catalogue` are the tables, `nextCapture` the identity
column. `StoreLate`, `StorePartial` and `StoreComplete` are the three paths of
`StoreCapture` (reception not after the last analysed one; partial; complete). The
transaction is one step because it takes the advisory lock first. `StoreFails` is
a rollback: the identity it took is not given back. `StoreRefused` is the
rollback the unique index of open encounters causes. `ReloadCatalogue` is `cmd/initdb`
or `cmd/reload-gtfs` between two captures.

The index and the domain disagree about what a key is: the domain's includes the
shape identifier, the index's does not. After a reload that *renames* a geometry, an
encounter left open under the former name makes the insertion of the next one
collide, and the whole capture, raw included, is rolled back. `MCRealtimeStore`
explores it: captures are refused only then (`RefusedForRenamesOnly`), and what is stored
stays consistent.

The catalogues explored always keep the branch mapped. A reload that unmapped a
branch and a later one that mapped it again would let a repeated answer add a
sample, since the fingerprint does not tell whether a position was mapped: TLC
finds it at once when the catalogues of `MCRealtimeStore` include the empty one. The
documentation asks for the worker to be stopped during a reload
(`docs/h0012_cuellos_botella.md`), and nothing is claimed of that case. A repeated
answer does close encounters: those that expired meanwhile, and those whose scope a
reload changed, as `RepeatedAnswerAddsNothing` says.

### Producer: `BottlenecksProducer`, `SequenceLog`, `BottlenecksStore`

The descriptor of an open sequence is the record `NoSequence` shows. The XOR of
digests is the symmetric difference of sets of rows (`Digest`): it forgets order,
and a row added twice cancels itself out, which is what an XOR does; collisions of
the hash are not modelled. `ProduceCapture`, `Absences`, `Closes`, `ReplayMatches` and
`ValidState` follow the functions of the same purpose. `Segments` cuts the replay
where the scope changes; the measurements of a segment are represented by the rows
they are computed from.

`BottlenecksStore` puts the two independent writers around one database. A
`ProcessNext` transaction is three steps, `Begin`, `Pin`, and one of `ProcessIdle`,
`ProcessStops`, `ProcessRefused`, `ProcessCapture`, because the purge can come between the
first two and not after the second. `Verdict` is the sequence of checks of one
capture in the order of the code. Everything a capture writes is one step, the
commit. `Abort` is a timeout, a deadlock or a lost connection; `Restart` is the end
and new start of the process, after which `Resume` takes up the stored run even if
the producer had stopped. `arrived`, `ids` and `consumed` are history variables: no
action reads them.

With history preserved, which is the configured default, `MaintainPartitions`
creates partitions and purges nothing; `Purge` models the other setting. The
creation of partitions is left out, as a missing partition only makes a storage
fail (`StoreFails`).

### Measurement: `PassageMeasurement`

Progress along the shape is an integer, as micrometers are in the code, and time
another one, so that the truncation of an interpolated instant is part of the
model. A row is its set of candidate progresses: the projection that found them
is PostGIS's. `Read` is the sorting, the removal of duplicates and the refusal of
two different rows of one instant; `Match` is one sweep of `MatchConservatively`, *in
place* and in order, so that what a row becomes counts for the next one in the same
sweep; `MeasureRows` is the cursor, `advance` by `advance`. `reachable`,
`anchorAdjacent`, `rejectEdge`, `interpolate`, `Cross` and `abandon` follow the functions
they are named for. `Produced` is `finalizeProducerSequence` on the same rows: segments
of one scope, each matched and measured on its own, and final reasons for what is left
incomplete; `validateMeasurementSupport` is what the store asks of it before it writes.

Two things a reader may not expect. Where two anchors contradict each other, what is
left of a row between them may depend on the order of the sweep; the property is that
no position of a *possible* trajectory is lost. And batch and producer agree on the
passages, not on the reasons of what is incomplete: an unmatched row of another scope
is an `unresolved_match` to the one and a `scope_changed` to the other. A row
projected on another version of the shape has no candidates on the layout of the batch;
the producer measures it on a layout of its own, which is the one-layout case again.

### Loaders: `DatabaseLoad`

A command string is a record: the tables it needs, creates, replaces and empties, and
the ones whose rows its rows come from. A table is the set of loads its rows come
from, and `Joined` says that a join with an empty table is empty. That is what the
property needs (whose rows are these?) and no more. `RunScript` sends the next one; it
commits, or the load ends there (`Accepted` is why the database or the file refuses it).
`Fail` ends a load for any other reason at any point. `VACUUM` cannot share a
transaction, so its failure fails a load whose rows are already there. `Migrate` is
`sql/migrar_combinaciones.sql`, which an operator applies, and `StoreCapture` the worker
that uses the same schema. Two loaders may run at once: no lock excludes them.

A load that fails after `InitDB` leaves the schema, so it has to be run again with
`--reset`; that is what the code says and the model does (`resolveExistingSchema`).
A reload does not check the rows of its files before it replaces the staging: what
it leaves then is covered by `DerivedFollowCatalogue`.

### Detours: `DetourSelection`, `RouteComparison`, `DetourPlan`

A location of the route is a number of halves of a segment. `mergeInsidePieces`,
`IntervalNodes`, `intervalPairs`, `bestByEnd`, `Select`, `sortReplacements`,
`reconstructPath`, `reconstructRoute` and `Assemble` translate the code over such
locations; a loop of the code is a recursive function over its index, which says what
the loop has made so far. A path is its seconds and the bearings it
leaves and arrives with, one path at most for a pair of nodes. `Select` is the
dynamic program of the code, with its tie-breaks; `topologyCanResolve` the same over
pairs without paths.

`DetourPlan` is one request: `Analyze`, `Snapshot`, `Route`, `SelectAndSew`, then the
comparison; `Fail` is `Plan`, which decides from the *first* error whether to try
again with a larger graph, without traffic, or to answer. In `Route` the database finds
any paths for any of the pairs, in every attempt anew. The request may end before any
step (`EndRequest`). A route whose own course crosses itself inside the search area,
so that pieces overlap, is assumed away (`RequestsAssumption`); so is a stop that the
cut may take outside that area, which is the widest radius of a cut.

`Select` keeps one way to reach each node (two at most, the node alone and with more).
When the only continuation of the best one turns back there, the planner may select a
crossing that is not the best, or find none although there is one, where
`Select` is said to resolve the stops "according to the requested lexicographic
criterion" (`selector.go:21`). `BestWithoutTurns` therefore states optimality where no two
paths of an interval turn back at a node they share.

`RouteComparison` runs the two sides of `CompareDetour` in one `errgroup` (`Estimate`,
`Estimated`) and then charges (`Charge`). Places are those of a grid and streets straight
along an axis, so that the projection of a new stop onto a street
(`projectOntoBaseline`, with its preference for the first of equals) is exact in
integers. What demand, times and tariffs amount to moves no control: each estimate
succeeds or fails. A request for the comparison of an edited variant begins where a
plan compares.

### Traffic: `TrafficTiles`

A snapshot runs one goroutine per tile; `pc` says where each stands between two
points where others may act. Steps under the cache's mutex are one action each:
`Hit`, `Join` and `Lead` are the three outcomes of the look-up (the removal of an
entry that is no longer usable is part of the last two), `Publish` the end of a
download. `Ask` is apart because the time is read before the mutex is taken, and
`Decode` because the tile is kept before it is decoded. `recent` is the list and the
map at once: an entry is in both or in neither. `TakeSlot` gives a slot of the gate,
which is never given back. `Fails` is `errgroup`: the first error is kept and the
context of the group ends. `End` is `group.Wait`, the age of the oldest tile, and
what `mapTrafficError` makes of an error.

A tile is its size and whether it can be decoded. A download fails as *unavailable*
or, once its context is done, as *canceled*. A timeout while the body is read is
counted as unavailable, though `net/http` may report it as a deadline, which
`mapTrafficError` treats as a cancellation; that could only add counterexamples to
`MCTrafficCancellation`. The gate reads the system clock and the client one that tests may
replace; the model has one clock.
`callerGone` and `requested` are history variables.

### Process: `RealtimeProcess`

`main` follows `run`: connect, check the schema, prepare the producer, run the loops,
join, close the pools in reverse order. The actions of `Ingest` follow `Worker.Run` with
`Client.Capture` inlined, those of `Produce` follow `ProducerWorker.Run`. A context that is
done (`Done`: the signal or the coordinator's cancellation) ends waits and requests,
and each loop looks at it where the code does: a capture that arrives after it is
not stored. Database calls are steps that succeed or fail; their effects are in
`RealtimeStore` and `BottlenecksStore`, where `Restart` is what `Initialize` does
to a stored run. `captures` counts the budget of a producer cycle.

## 3. Runs

All bounds are constants of the cfg. `CHECK_DEADLOCK FALSE` is said where the bound
on time, captures or loads ends a behaviour, or the process has ended.

| Run | Question | Bounds |
|---|---|---|
| `MCBunchingLifecycle` | are the encounters of a pair disjoint in every scope, recent, dated within their evidence, and never changed once closed? | one pair, three scopes in two catalogue versions, 4 receptions |
| `MCRealtimeStore` | with late, repeated, partial and failed captures and reloads, is raw canonical, do counts agree with rows, does the store implement the life cycle, and is a capture refused for a renamed geometry only? | 3 captures, receptions 1..3, a geometry as it was, renamed, or redrawn, four batches |
| `MCBottlenecksSequences` | does the descriptor stand for the source, and the store implement the log, with late rows, a clock that steps back, aborts and restarts? | one vehicle, two scopes, 4 captures, slip of 1, no purge |
| `MCBottlenecksLiveness` | around a purge, is anything skipped, and is every stored capture processed, unless the producer stops? | two vehicles, reloads that drop a branch, 4 days, retention of 2, 2 captures, no slip |
| `MCTrafficTiles` | is a tile downloaded once at a time, does an invalid one leave, do cache and gate keep their limits, and does every snapshot end? | two snapshots that share a tile, one with another tile; sizes 1 and 2, two entries and two bytes; every response expires |
| `MCRealtimeProcess` | do pools outlive loops, retries wait, a stopped producer stay isolated, and a signal end the process? | four attempts, coverage up to 5, two days, two captures per cycle |
| `MCDatabaseLoad` | are transfers and ranking always of the routes that are served, has a load that says it ended written all of its tables, and does a loader wait as long as it may? | two loads of any kind, overlapping or not, good files or one of three defects; budget 4, interval 2, a database that answers at 0..6 |
| `MCDetourPlan` | does a variant keep what the cut must not cost, is the best crossing selected and sewn, is the first error answered, does a plan always advance, and do passengers pay by the original route? | routes of up to four stops with one or two intervals, three paths; variants with up to two new stops |
| `MCPassageMeasurement` | does matching lose no possible trajectory, does every entry end once, are passages supported, do the producer's sequences agree with a batch, and does the report add up? | three or four rows of a vehicle, or six of two; ten sets of candidates |
| `MCTrafficCancellation` | does a live request get its last attempt without traffic? **No** | the snapshots of `MCTrafficTiles`, one size, two instants |
| `MCBottlenecksClock` | does every failure in the stored source stop the loop, as documented? **No** | 2 captures, slip of 1 |
| `MCDatabaseReload` | does a database that has the tables of `ddl.sql` pass the check of a reload? **No** | as `MCDatabaseLoad` |

The type invariants (`TypeOK`) are in no run, for they say nothing of the code
that the other properties rest on; those of `BunchingLifecycle`,
`SequenceLog`, `RealtimeStore`, `BottlenecksStore`, `TrafficTiles` and `RealtimeProcess` are
proved, and the others hold in the state spaces of the runs above.
`OneOpenPerKey`, what the unique index of open encounters guards, is proved as well, and
`RefusedForRenamesOnly` would fail without it.

Why the bounds are enough:

* *Encounters.* `MaximumAge` is 2 and the skew 1 (five minutes and one): with them a
  sample is fresh, stale, ahead of the reception, or separated from the former one
  by a gap, in every combination, within two receptions. Opening, confirming, missing
  (one tolerated, as configured), expiring or changing scope, and opening again takes at
  most four receptions. That no longer history breaks the invariants is proved, for any
  number of receptions, scopes and pairs (section 4). Pairs do not interact: each is
  reviewed from its own rows and samples.
* *Storage.* Three captures are a first, one in between (partial, late or failed),
  and the one that must not be misled by it. The third vehicle is unmapped: its
  timestamps make an answer new without evidence of the pair, alone or beside one unit
  of the pair that advances without the other.
* *Sequences.* `MissingCaptureLimit` is 2 (4 in the code): a sequence opens, has one
  absence, is saved or closes, and late rows follow, within four captures. Two
  absences tell "one before the limit" from "at the limit", which is all the code
  compares. Rows may be at three GPS times, delivered in any order, beyond the
  reception by `StorageSkew`.
* *Days.* `DayLength` 1 makes every step of the clock a day, so that a purge and the
  retention checks meet; `DayLength` 9 keeps a run within one day, where they never do.
* *Tiles.* A goroutine that leads, one that waits for it, and a third whose
  failure or arrival disturbs them: the first snapshot has both tiles and the second
  shares one. Two entries of the LRU list, sizes 1 and 2 and two bytes make an arrival
  evict one entry or both. Every response expires, so that entries are met in each of
  their states, an expired one included, with a download under way. The clock goes on
  beyond `MaximumTime` as far as the slots given.
* *Process.* The backoff goes 2, 4, 7, 7: it doubles, meets the limit early, and stays.
  `Retry-After` is below the backoff, between, and beyond the limit. Two days make
  maintenance due again after it succeeded or failed.
* *Loads.* Two loads suffice for what two runs can do to each other: one that fails and
  one that follows it, or two that overlap at any pair of command strings. The database
  begins empty or as a release left it that had the flows in a table of their own. The
  wait has a budget of 4 and an interval of 2, and the database answers at any moment up to
  6: a loader gives up as early as the bound allows (the database answers at 3, one more
  than the budget without its last interval), or makes one more try after a pause that
  straddles the end of the budget, and waits as long as 7. That bound and what is derived
  from the routes are proved for any number of loads (section 4).
* *Detours.* Three stops, each forced, optional or required, with an interval from, to,
  around or between them; four with an interval at each end, so that two selections
  are sewn; four inside one interval, so that a path skips a node, a selection keeps
  two ways to a node, and paths turn back. A path to the east, a slower one and one to the
  west make every tie, preference and turn.
* *Comparisons.* The route goes out and comes back one street away, so a new stop may be
  nearer to the other leg; one is off the route. Two new stops, side by side or
  apart, are what it takes for the second to fall behind the first.
* *Measurement.* Five metres in sectors of two: the last sector is a remainder that is
  kept apart. Candidates are on a boundary, inside, several or none; gaps cross two boundaries
  at once, are the longest allowed, or too long. An ambiguity is resolved from one side,
  from both, by propagation over two rows, or not. A day has two hours of two units, so that
  hour and date change within a passage.

Not every property is checked in every run; each is checked where its hazard
occurs and its mutant shows.

### Fairness

`FairSpec` of each module is used for its liveness properties only; the process run
checks its safety properties under it too, which changes nothing for them.

*Producer* (`CheckpointCatchesUp`). `ProducerWorker.Run` calls
`ProcessNext` again in each cycle, whatever a transient failure was, until a permanent
one or the end of the context: `Begin`, `Pin` and `Finish` are strongly fair because
an abort or a restart may disable them again and again, and a timeout or a restart that
interrupted *every* attempt is not what the code can answer for. The process is
started again and resumes its run, `WF(Activate \/ Resume)`. Nothing is assumed
of ingestion, the purge, reloads, aborts or restarts. `ClockSlip` is 0: with a clock
that steps back the property is false, which is the first finding.

*Tiles* (`SnapshotsEnd`). Each goroutine runs (weakly fair), a download ends because the HTTP
client has a timeout, and time goes by, so the gate opens. Nothing is assumed of
callers or of which error comes first.

*Plans* (`AttemptsAdvance`). No fairness is assumed: the property is a variant, that
every step but the end of the request takes the plan further, and the run checks for
deadlock.

*Process* (`ProducerStopIsIsolated`, `SignalEndsProcess`). Each of the three goroutines runs.
Requests, storage, maintenance and producer cycles all have a timeout and the
context of the process. Nothing is assumed of signals, of days, or of calls
succeeding.

### First finding: a reception that goes back is retried without end

`worker.go:45` says that permanent source failures stop the loop, and
`h0012_cuellos_botella.md:162` that transient ones are retried. A stored capture
received *before* the last processed one, which ingestion stores as a late capture,
makes `ProcessNext` fail with a plain error ("invalid producer capture metadata"). The
loop takes it for transient. The metadata never change, so every cycle fails on the
same capture, no later one is processed, and the producer neither advances nor
announces that it stopped, until the retention of its last reception expires.
`MCBottlenecksClock` shows the state; `SourceFailuresStop` is the documented promise.

### Second finding: a live request fails with another's cancellation

The planner promises one last attempt without traffic when the traffic fails and the
request is still alive (`service.go:129`). A goroutine that waits for a download of
another snapshot is told its error. When that snapshot was cancelled, because its
caller left or because another of its tiles failed, the error is `context.Canceled`;
`mapTrafficError` takes it for the request's own cancellation and returns it as it is,
`shouldRetryWithoutTraffic` does not know it, and the live request fails.
`MCTrafficCancellation` shows it; `LiveRequestsFallBack` is the documented promise.

### Third finding: a reload refuses every current database

`README.md:36` offers `reload-gtfs` for a database that is already populated, and
`sql/recorridos/README.md:451` asks for the migration to be applied before.
`checkGTFSReloadSchema` counts columns of `combinaciones_lineas_flujos`, a table that
`ddl.sql` no longer creates and that the migration drops, so every new or migrated
database is refused with the advice to apply that migration. Only one that was not
migrated passes, and there the last script fails after the routes were replaced.
`MCDatabaseReload` shows it. In `MCDatabaseLoad` the reloads that run are therefore those of
old databases, migrated meanwhile or not.

## 4. Proofs

The theorems hold for every value of the constants that satisfies the named
assumptions of the modules, which TLC evaluates in the runs:

* encounters and storage: any policy, vehicles, pairs, scopes, catalogues and batches
  (`PolicyAssumption`, `PairsAssumption`, `VersionAssumption`, `CataloguesAssumption`,
  `TimeAssumption`, `BatchesAssumption`, `CatalogueAssumption`), any measured distances
  (`MetresAssumption`), any horizon (`BoundAssumption`);
* producer: any finite deliveries (`DeliveriesAssumption`), limit of absences
  (`MissingAssumption`), length of a day and retentions (`RetentionAssumption`), any horizon
  (`BoundAssumption`);
* tiles: any snapshots, tiles, sizes, limits, interval and expiries (`LimitsAssumption`,
  `RequestsAssumption`);
* process: any budgets, limits of backoff and `Retry-After` (`OptionsAssumption`,
  `BoundAssumption`);
* loaders: any number of loads, any defects, budget and interval (`WaitAssumption`,
  `DefectsAssumption`);
* plans: any requests, variants, places and paths (`PathsAssumption`,
  `RequestsAssumption`, `VariantsAssumption`, `PlacesAssumption`).

Bounds such as `MaximumTime` and `MaximumCaptures` are constants too: the theorems
hold for each of them, however large.

### `BunchingLifecycleProofs`

`TypeCorrect`, `EncountersAreDisjoint`, `OpenMeansRecent` and `HistoryIsKept` follow from
`InductiveInvariant`. The safety invariants are not inductive by themselves. The code
never compares a new encounter with all former ones: it looks at the *newest* row
closed within `MaximumAge`. What makes that enough is

* `EventsDated`: every row was written by an analysed complete capture, and its
  samples are dated within what that capture admitted (none leads its confirmation
  by more than the skew, none precedes it by more than the age);
* `OpenIsNewest`: an open encounter is the newest row of its key;
* `HasNewest`: a key with rows has a newest one, which stands for the maximum that the
  query returns.

With them, a new encounter is compared with the newest row of its key when that row
is recent, and is fresher than every row when it is not: a fresh sample is newer
than a row older than `MaximumAge`. The proof of the step has one lemma for each
operator (what `Review` keeps and may change, what `Opened` admits), and one step for
each conjunct.

`ClosuresAreDated` follows from the invariant too. `SamplesAdvanceBothUnits` is an action
property: a row keeps its key and identity, `Review` changes a row only through
`Confirm`, `Miss` or a closure (`SamplesOfReview`), and a new row has an identity that no
other has.

### `RealtimeStoreProofs`

`StoreInv` is what the transactions read: identities are taken once, a vehicle and
timestamp have one row, the counts of captures are those of their rows, captures have a
last reception, and a geometry has one open encounter per pair (the index). From it:

* `CountsAgreeWithRows`, `FirstRowStays`: a later capture adds only rows whose vehicle and
  timestamp are new, so it changes neither the rows nor the count of a former one.
* `LifecycleImplemented`: every transaction is a step of `BunchingLifecycle` or a stutter,
  with its clock mapped to the last analysed reception and its last review to the last
  complete one, as the queries compute them. The snapshot the database builds is one that
  the abstract capture admits; a late capture, a rollback, a refusal and a reload leave
  the mapped state alone.
* `StoredEncounters`, `StoredEncountersAreDisjoint`, `TypeCorrect`: the theorems of the
  life cycle, carried to the table along the refinement.
* `RefusalsAreRenames`: the domain opens no key that it leaves open, closures are written
  before openings, and the keys of one pair differ from those of the index only by the
  name of a geometry.
* `RepeatedAnswersAddNothing` needs an invariant of its own, `Settled`: no open encounter is
  behind both positions of the last complete answer. A position that a review of the
  repeated answer sees was seen by the one before, since later receptions admit fewer old
  positions (`SeenBefore`). Two hypotheses: `SameBranches`, that reloads map the branches
  they mapped (section 2 says what happens otherwise), and `StorageSkew <=
  MaximumFutureSkew`; in the code both are one minute, and with a larger `StorageSkew` a
  position stored too early to be reviewed becomes a sample when it is repeated, as TLC
  shows with a skew of 2 against 1 and positions two instants apart.

### `SequenceLogProofs`

`RowsMeasuredOnce`: in every behaviour of the abstract producer the measured segments
of a vehicle are of one scope each and disjoint in GPS time. The lemmas are about
`Segments`: being unbroken is an equivalence on rows with distinct times, so two
segments that share a row are equal (`SharedRow`), each is convex (`Convex`), and two
different ones are ordered (`SegmentsOrdered`). The invariant adds that what waits is
later than the closure and what was measured is not.

### `BottlenecksStoreProofs`

`IInv` has four parts. `SourceKept`: a capture counts the rows it brought, and raw has lost
nothing but what expired. `RunKept`: the checkpoint, the captures stored since the
activation and those consumed. `StatesKept`: the descriptor of a vehicle is the one of its
*evidence*, processed rows that no closure has taken; the newest of them is the last seen,
and the absences are the complete captures consumed since it. `PublishedKept`: what was
published is not later than the closure. The proof follows `ProcessCapture` vehicle by
vehicle (accept, miss, close, replay). From it:

* `LogImplemented`: each transaction adds rows to what waits, or closes it and publishes
  the segments of a replay that equals it, or is a stutter. `PublishedOnce` carries
  `RowsMeasuredOnce` to the store.
* `CommittedStatesRecover`, `AbsencesAreCounted`.
* `NothingSkipped`, `DescriptorsStandForRows`: with the further invariant `ClockKept`, under
  the hypothesis `ClockSlip = 0`, that the clock of the ingestion does not step back. It
  says that receptions are in the order of identities, and that a capture which the purge
  has taken unprocessed is found by the retention check of the producer, which then
  stops. The hypothesis is needed: with a slip of 1 in the bounds of
  `MCBottlenecksLiveness`, TLC finds a capture whose reception stepped back to an expired
  day, and which is purged while the producer, whose own reference is not that old, goes
  on to the next one.
* `PreservedHistoryIsTaken`: without a purge, which is the default configuration, the same
  holds whatever the clock does, as in `MCBottlenecksSequences`.
* `SourceNeverIncomplete`: in a behaviour without a `Purge` step, the store reads a replay
  exactly when the producer closes (it foresees the closure by a condition of its own)
  and it equals the evidence. With a purge the source may be found incomplete, and the
  producer stops as it should.

### `TrafficTilesProofs`

`IInv` says who leads a download (`FlightsLed`: the downloads listed are those of the
goroutines that are between the look-up and the publication, one per tile), that a
goroutine holds or awaits a tile it asked for (`OwnTile`), that the list and its bytes agree
(`CacheKept`), and that the slots given are an interval apart (`SlotsSpaced`). From it
`DownloadsAreShared`, `CacheStaysWithinLimits`, `InvalidTilesAreDropped` and
`DownloadsAreSpaced`. Two of its steps are inductions over data: the bytes of the list
after an entry is removed or the oldest ones are evicted. They are done without the
library's induction theorems, on a set of numbers: a set of counterexamples would have
a least element (`LeastNumber`, from `WFMin` of `WellFoundedInduction`).
`SlotsSpaced` is stronger than the rate: it bounds, for *every* instant, the slots up to
it, since a slot is given long before it is used.

### `RealtimeProcessProofs`

`CallsHavePools` and `RetriesAlwaysWait`. The stages of `run` order the loops and the pools
(`LoopsJoined`, `PoolsOpen`): the pools close once both loops have returned. A backoff
beyond the first attempt is beyond its start or at its limit (`BackoffGrows`), and a pause
remembers what it was chosen from (`PauseCovers`).

### `DetourPlanProofs`

`FirstErrorReturned` and `EveryStepAdvances`. The invariant types the stages and says that a
comparison which has not begun is empty (`ComparisonBegins`), without which
its progress could fall when it begins. What the selection and the reconstruction compute
plays no part: these two hold for any outcome of theirs.

The other four are about what the algorithms compute, for routes of any length. Each
loop is a recursive function of the model; the library's induction theorems cannot be
used, so a few lemmas take their place: `Ascends` (a set of numbers with the first, and
with the successor of each, has the last), and `Recursion` and `LoopExists` (a loop has a
function that satisfies its equation, without which nothing could be said of its values).

* `CutIsHonoured` and `AlwaysSewn`: a variant keeps the stops it must and none it must
  not, and its paths lead from stop to stop, on the original outside the intervals and on
  detours within; and no choice of paths ends a plan as an internal failure. `CutInv`
  adds to the invariant that an attempt works on the intervals of its own request, and
  that only a plan, never a comparison alone, is tried again; and, for the next theorem,
  that the paths found for an interval join pairs of its nodes. The argument has five parts.
  `MergedInOrder`: the intervals are apart and in order. `NodesAreFit`: the nodes of each
  are in the order of the route, within it, with its anchors and every stop an anchor does
  not stand for. `SelectKeeps`: whatever the dynamic program selects keeps nodes in order,
  all that are required and none that is forced out; so it holds for the selections that
  are not the best too. `ChosenDetours`, `KeptIsClear`: the detours of all intervals
  together are sorted and apart, and no stop that is kept lies under one. `PathsAreSewn`:
  then the walk from a kept stop to the next meets each detour whole, never behind its
  cursor, and what it takes of the original lies beside every detour; that it lies beside
  every *interval* is `OriginalIsOutside`, since the detours of an interval leave no gap.
* `BestIsSelected`: where no path of an interval turns back, what `Select` returns is a
  crossing to which the criterion prefers no other, and it returns none only when there is
  none. That a state is kept at all is that states are compared by all that they are, a
  strict order (`PrecedesIsAnOrder`), so that of finitely many one is the best
  (`BestExists`). That nothing is lost with the others is by induction over the nodes
  (`BestByEndIsBest`): every way to a node with more than that node is a way to an earlier
  one and a path on (`CrossingShortens`), a state no worse than the former stays so with the
  path (`NoWorseGoesOn`), and no turn forbids the path (`BestAtIsBest`), which is where
  the hypothesis is used and where the code may fail without it.
* `FaresAreOriginal`: positions along the baseline never fall along a variant
  (`PositionsGrow`, which rests on `ProjectionIsBetween`: a new stop is projected between the
  retained stops around it, and streets never lead back), and the charges between two
  stops add up to the distance between their positions (`ChargesAddUp`). `FareInv` carries
  the validity of the variant from the start of the comparison to the charge.

### `DatabaseLoadProofs`

`WaitIsBounded`: a loader gives up only a database that was not ready when the last
interval of its budget began, and has then waited two intervals more than the budget
at most: one for the pause that began within it, one for the last attempt. The
invariant, `WaitInv`, adds that a load which still tries has not waited longer than the
budget and one interval (`Paused`), without which the bound is not inductive. The
steps of the other loads and of the scripts leave it alone (`WaitKept`).

`DerivedTablesFollow`: transfers and ranking are of the routes that are there, or empty. The
invariant, `TablesInv`, adds that the tables exist together (one script creates them) and
that what an O-D combination came from is still there (`CombinationsSupported`), so that
building the combinations again loses no load the ranking has read: between two drops of
the schema the trips and their hexagons only gain rows. Every command of both pipelines is
one of a set (`PipelinesTyped`), and all but five of them write none of these tables
(`CommandsKnown`), whichever load sends them and whatever has run in between.

`SuccessIsComplete`: a load that says it ended, and during which no other changed the
tables, has written them all, each from its own files alone. `SuccessInv` says how far an
undisturbed load is: `FilledAt` is the place of a pipeline that fills a table, every table
filled before the place of the load is of that load only, and every other is of it or
empty (`WholeLoad`). A command keeps it when the tables it reads are filled earlier and
those it clears are filled later, which is checked place by place (`Sound`, `StepsSound`).
A reload that the check let through stops before it ends (the third finding), and its
part of the invariant says why (`PartialLoad`).

### Only model-checked

* `CheckpointCatchesUp`, `SnapshotsEnd`, `ProducerStopIsIsolated`, `SignalEndsProcess`: liveness
  under fairness is outside the prover's reach, as is `ENABLED`.
* The properties of `PassageMeasurement`: what sorted and filtered sequences contain is
  checked over bounded inputs against definitions that are not recursive (`Trajectories`,
  `Entries`). Sorting and filtering by an operator (`SortSeq`, `SelectSeq`) are opaque to
  the provers.
* `SourceFailuresStop`, `LiveRequestsFallBack`, `MigratedDatabasesReload`: the code violates them.

## 5. Not modelled, and why

* The formats: JSON of the feed, MVT tiles, GeoJSON, CSV. They are conversions without
  state.
* Geometry: projections, distances and intersections are computed by PostGIS.
  The models take their results as arbitrary values.
* Demand, tariffs and travel time: arithmetic on floating-point data of one snapshot.
  Plain comparisons, which charge measured distances, are left out with them.
* Speeds, medians and the detection of slow sectors (`detection.go`), and the loop over
  targets of `batch.go`: statistics over the passages modelled, and one call per target.
* Lines, similarity, combinations, segment routes and cut paths: one query each and a
  ranking of what it returns.
* The current and historical read models of the encounters.
* The HTTP handlers: validation and composition without state.
* The validation of a generated variant (`route.Validate`, `service.go:312`), which
  `SelectAndSew` does not refuse by: the query draws every path from and to the
  points it was asked for, so that the branch is defensive, and no property depends on it.
* The counters of rejected positions by reason in a produced measurement: `Produced`
  tells why a passage is incomplete and not how many rows each reason rejected
  (`ScopeChanged`, `producer_replay.go:173`), nor does it measure the rows of another shape
  version, which have no candidates on the layout of the batch.
* The steps between lock and commit of `StoreCapture` and `Activate`. Both hold the
  advisory lock, and `Activate` a `SHARE` lock of the table for imports by hand, so each
  is one step of `BottlenecksStore`. That no capture below the watermark of an activation
  becomes visible later is therefore taken from those locks and not checked.
* In the producer: several models in one database, which share no row but raw; the
  budget of captures per cycle, which only ends a cycle early (`Abort` and the next
  `Begin` give the same behaviours); the persistence of single measurements.

## 6. Plan

Done, in this order: encounters with their proofs, storage and its refinement, the
producer and its store, the log with its proof, the tiles, the process; then the
loaders with the proof of their wait, the planning of detours, their comparison, and
the measurement of passages with its report.

Next, the most valuable first:

1. Purge composed with encounters: what the purge of the last analysed capture does to
   the clock of late captures.
2. The order in which identifiers of captures become visible: insertion, activation and
   `ProcessNext` between their locks and their commits, imports by hand included.
3. Detection: which cells may call a sector slow, and with how many vehicles and dates.
4. Line alignment, and the read models of the encounters.

Proofs next: what a single step of matching and of the cursor of `PassageMeasurement`
keeps; and the purge composed with the encounters, once it is modelled.
