-------------------------- MODULE RealtimeProcess --------------------------
(***************************************************************************)
(* The process cmd/realtime-worker: its start, the ingestion loop with the *)
(* retries of the GCBA client, the producer loop beside it, and the end,   *)
(* in which the producer is cancelled and joined before the pools close.   *)
(*                                                                         *)
(* What the calls do to the database is in RealtimeStore and               *)
(* BottlenecksStore; here they succeed, fail or time out.                  *)
(***************************************************************************)
EXTENDS Integers

CONSTANTS
    MaximumFresh,        \* fresh vehicles of a capture
    RatioNumerator,      \* CoverageWarningRatio, as a fraction
    RatioDenominator,
    MaximumAttempts,
    InitialBackoff,
    MaximumBackoff,
    RetryAfters,         \* what Retry-After may ask for, 0 for nothing
    MaxCapturesPerCycle,
    MaximumDay           \* bound on the UTC day

ASSUME OptionsAssumption ==
    /\ MaximumFresh \in Nat
    /\ RatioNumerator \in Nat \ {0} /\ RatioDenominator \in Nat /\ RatioNumerator < RatioDenominator
    /\ MaximumAttempts \in Nat \ {0} /\ MaxCapturesPerCycle \in Nat \ {0}
    /\ InitialBackoff \in Nat \ {0} /\ MaximumBackoff \in Nat /\ InitialBackoff <= MaximumBackoff
    /\ RetryAfters \subseteq Nat

ASSUME BoundAssumption == MaximumDay \in Nat \ {0}

VARIABLES
    signalled,     \* SIGINT or SIGTERM
    main,          \* where run stands
    cancelled,     \* the coordinator cancelled the loops
    ingestPool,    \* the connection pools are open
    producerPool,
    today,
    ingest,        \* where the ingestion loop stands
    cycleDay,      \* the day its cycle began
    maintained,    \* the day whose maintenance succeeded, 0 for none
    reference,     \* the coverage reference
    attempt,       \* of the capture under way
    delay,         \* its backoff
    pause,         \* the wait it chose, and what the provider asked for
    producer,      \* where the producer loop stands
    captures,      \* captures of its cycle
    stopped        \* it found a permanent failure

loops == <<ingest, cycleDay, maintained, reference, attempt, delay, pause>>
production == <<producer, captures, stopped>>
process == <<main, cancelled, ingestPool, producerPool>>
vars == <<signalled, process, today, loops, production>>

NoPause == [chosen |-> 0, asked |-> 0]

Init ==
    /\ signalled = FALSE
    /\ main = "connecting" /\ cancelled = FALSE
    /\ ingestPool = FALSE /\ producerPool = FALSE
    /\ today = 1
    /\ ingest = "idle" /\ cycleDay = 0 /\ maintained = 0 /\ reference = 0
    /\ attempt = 0 /\ delay = InitialBackoff /\ pause = NoPause
    /\ producer = "idle" /\ captures = 0 /\ stopped = FALSE

Done == signalled \/ cancelled

-----------------------------------------------------------------------------
(* run of main.go, prepareBottlenecks and runWorkerLoops.  A failure of the *)
(* start, or a signal, leads to the deferred closes.                        *)

Connect ==
    /\ main = "connecting"
    /\ \/ main' = "exited" /\ UNCHANGED ingestPool
       \/ main' = "checking" /\ ingestPool' = TRUE
    /\ UNCHANGED <<signalled, cancelled, producerPool, today, loops, production>>

CheckSchema ==
    /\ main = "checking"
    /\ \/ main' = "closing" /\ UNCHANGED producerPool
       \/ main' = "initializing" /\ producerPool' = TRUE
    /\ UNCHANGED <<signalled, cancelled, ingestPool, today, loops, production>>

Initialize ==
    /\ main = "initializing"
    /\ \/ main' = "closing" /\ UNCHANGED <<ingest, producer>>
       \/ main' = "running" /\ ingest' = "top" /\ producer' = "top"
    /\ UNCHANGED <<signalled, cancelled, ingestPool, producerPool, today, cycleDay, maintained,
                   reference, attempt, delay, pause, captures, stopped>>

IngestReturned ==
    /\ main = "running"
    /\ ingest = "returned"
    /\ cancelled' = TRUE
    /\ main' = "joining"
    /\ UNCHANGED <<signalled, ingestPool, producerPool, today, loops, production>>

\* Mutant: the producer is cancelled and not waited for.
JoinAtOnce ==
    /\ main = "joining"
    /\ main' = "closing"
    /\ UNCHANGED <<signalled, cancelled, ingestPool, producerPool, today, loops, production>>

Join ==
    /\ main = "joining"
    /\ producer = "returned"
    /\ main' = "closing"
    /\ UNCHANGED <<signalled, cancelled, ingestPool, producerPool, today, loops, production>>

\* The deferred calls run in reverse order.
Close ==
    /\ main = "closing"
    /\ IF producerPool
       THEN producerPool' = FALSE /\ UNCHANGED <<main, ingestPool>>
       ELSE ingestPool' = FALSE /\ main' = "exited" /\ UNCHANGED producerPool
    /\ UNCHANGED <<signalled, cancelled, today, loops, production>>

Signal ==
    /\ ~signalled
    /\ signalled' = TRUE
    /\ UNCHANGED <<process, today, loops, production>>

NewDay ==
    /\ today < MaximumDay
    /\ today' = today + 1
    /\ UNCHANGED <<signalled, process, loops, production>>

-----------------------------------------------------------------------------
(* Worker.Run and Client.Capture.                                          *)

BeginCycle ==
    /\ ingest = "top"
    /\ IF Done
       THEN ingest' = "returned" /\ UNCHANGED <<cycleDay, attempt, delay>>
       ELSE /\ cycleDay' = today
            /\ ingest' = IF today # maintained THEN "maintaining" ELSE "capturing"
            /\ attempt' = 1 /\ delay' = InitialBackoff
    /\ UNCHANGED <<signalled, process, today, maintained, reference, pause, production>>

\* A maintenance that fails is tried again in the next cycle.
Maintain ==
    /\ ingest = "maintaining"
    /\ maintained' \in {maintained, cycleDay}
    /\ ingest' = IF Done THEN "returned" ELSE "capturing"
    /\ UNCHANGED <<signalled, process, today, cycleDay, reference, attempt, delay, pause, production>>

Low(fresh) ==
    \/ fresh = 0
    \/ reference > 0 /\ fresh * RatioDenominator < reference * RatioNumerator

\* A capture arrives; a low one is stored as partial and does not become the
\* reference of those that follow.
Captured ==
    /\ ingest = "capturing"
    /\ ~Done
    /\ \E fresh \in 0..MaximumFresh :
          reference' = IF Low(fresh) THEN reference ELSE fresh
    /\ ingest' = "storing"
    /\ UNCHANGED <<signalled, process, today, cycleDay, maintained, attempt, delay, pause, production>>

\* Mutant: the limit of the backoff applies to Retry-After too.
CaptureFailedWithinLimit ==
    /\ ingest = "capturing"
    /\ ~Done
    /\ \/ ingest' = "waiting" /\ UNCHANGED pause
       \/ /\ attempt < MaximumAttempts
          /\ \E asked \in RetryAfters :
                pause' = [chosen |-> IF asked > delay /\ asked <= MaximumBackoff THEN asked ELSE delay,
                          asked |-> asked]
          /\ ingest' = "pausing"
    /\ UNCHANGED <<signalled, process, today, cycleDay, maintained, reference, attempt, delay, production>>

\* Transport errors, 429 and 5xx are tried again, the others are not.
CaptureFailed ==
    /\ ingest = "capturing"
    /\ ~Done
    /\ \/ ingest' = "waiting" /\ UNCHANGED pause
       \/ /\ attempt < MaximumAttempts
          /\ \E asked \in RetryAfters :
                pause' = [chosen |-> IF asked > delay THEN asked ELSE delay, asked |-> asked]
          /\ ingest' = "pausing"
    /\ UNCHANGED <<signalled, process, today, cycleDay, maintained, reference, attempt, delay, production>>

Retry ==
    /\ ingest = "pausing"
    /\ ingest' = "capturing"
    /\ attempt' = attempt + 1
    /\ delay' = IF delay >= MaximumBackoff \div 2 THEN MaximumBackoff ELSE delay * 2
    /\ pause' = NoPause
    /\ UNCHANGED <<signalled, process, today, cycleDay, maintained, reference, production>>

\* Stored or not, the next cycle begins after the interval.
StoreCapture ==
    /\ ingest = "storing"
    /\ ingest' = IF Done THEN "returned" ELSE "waiting"
    /\ UNCHANGED <<signalled, process, today, cycleDay, maintained, reference, attempt, delay, pause, production>>

IntervalEnds ==
    /\ ingest = "waiting"
    /\ ~Done
    /\ ingest' = "top"
    /\ UNCHANGED <<signalled, process, today, cycleDay, maintained, reference, attempt, delay, pause, production>>

\* Requests, pauses and intervals end at once when the context does.
IngestCancelled ==
    /\ ingest \in {"capturing", "pausing", "waiting"}
    /\ Done
    /\ ingest' = "returned"
    /\ pause' = NoPause
    /\ UNCHANGED <<signalled, process, today, cycleDay, maintained, reference, attempt, delay, production>>

-----------------------------------------------------------------------------
(* ProducerWorker.Run.                                                     *)

BeginProduction ==
    /\ producer = "top"
    /\ producer' = IF Done THEN "returned" ELSE "processing"
    /\ captures' = 0
    /\ UNCHANGED <<signalled, process, today, loops, stopped>>

\* One more capture, within the budget of the cycle.
Processed ==
    /\ producer = "processing"
    /\ ~Done
    /\ captures' = captures + 1
    /\ producer' = IF captures + 1 < MaxCapturesPerCycle THEN "processing" ELSE "pausing"
    /\ UNCHANGED <<signalled, process, today, loops, stopped>>

\* Nothing to read, a transient failure, or the end of the cycle's time.
ProcessedNothing ==
    /\ producer = "processing"
    /\ ~Done
    /\ producer' = "pausing"
    /\ UNCHANGED <<signalled, process, today, loops, captures, stopped>>

\* Mutant: the failure ends the group of both loops.
StopsBoth ==
    /\ producer = "processing"
    /\ ~Done
    /\ producer' = "returned"
    /\ stopped' = TRUE
    /\ cancelled' = TRUE
    /\ UNCHANGED <<signalled, main, ingestPool, producerPool, today, loops, captures>>

StopsForGood ==
    /\ producer = "processing"
    /\ ~Done
    /\ producer' = "returned"
    /\ stopped' = TRUE
    /\ UNCHANGED <<signalled, process, today, loops, captures>>

ProductionIntervalEnds ==
    /\ producer = "pausing"
    /\ ~Done
    /\ producer' = "top"
    /\ UNCHANGED <<signalled, process, today, loops, captures, stopped>>

\* Mutant: only the wait between cycles watches the context.
ProducerCancelledWaiting ==
    /\ producer = "pausing"
    /\ Done
    /\ producer' = "returned"
    /\ UNCHANGED <<signalled, process, today, loops, captures, stopped>>

ProducerCancelled ==
    /\ producer \in {"processing", "pausing"}
    /\ Done
    /\ producer' = "returned"
    /\ UNCHANGED <<signalled, process, today, loops, captures, stopped>>

Ingest ==
    \/ BeginCycle \/ Maintain \/ Captured \/ CaptureFailed \/ Retry
    \/ StoreCapture \/ IntervalEnds \/ IngestCancelled

Produce ==
    \/ BeginProduction \/ Processed \/ ProcessedNothing \/ StopsForGood
    \/ ProductionIntervalEnds \/ ProducerCancelled

Run == Connect \/ CheckSchema \/ Initialize \/ IngestReturned \/ Join \/ Close

Next == Run \/ Ingest \/ Produce \/ Signal \/ NewDay

Spec == Init /\ [][Next]_vars

\* Every call ends: requests and storage have timeouts and a context.
Fairness == WF_vars(Run) /\ WF_vars(Ingest) /\ WF_vars(Produce)

FairSpec == Spec /\ Fairness

-----------------------------------------------------------------------------
TypeOK ==
    /\ signalled \in BOOLEAN /\ cancelled \in BOOLEAN /\ stopped \in BOOLEAN
    /\ ingestPool \in BOOLEAN /\ producerPool \in BOOLEAN
    /\ main \in {"connecting", "checking", "initializing", "running", "joining", "closing", "exited"}
    /\ ingest \in {"idle", "top", "maintaining", "capturing", "pausing", "storing", "waiting", "returned"}
    /\ producer \in {"idle", "top", "processing", "pausing", "returned"}
    /\ today \in 1..MaximumDay /\ cycleDay \in 0..today /\ maintained \in 0..cycleDay
    /\ reference \in 0..MaximumFresh
    /\ attempt \in 0..MaximumAttempts
    /\ delay \in InitialBackoff..MaximumBackoff
    /\ pause \in [chosen: Nat, asked: RetryAfters \cup {0}]
    /\ captures \in 0..MaxCapturesPerCycle

\* "Ingestion termination or process cancellation cancels and joins the producer
\* before any pool closes": no loop is in a database call without its pool.
DatabaseCallsHavePools ==
    /\ ingest \in {"maintaining", "storing"} => ingestPool
    /\ producer = "processing" => producerPool

\* "Retry-After is a minimum wait, even if greater than MaximumBackoff": a retry
\* waits for what the provider asked and for its own backoff, which grows with
\* the attempt and stays within its limits.
RetriesWait ==
    ingest = "pausing" =>
        /\ pause.chosen >= pause.asked
        /\ pause.chosen >= delay
        /\ pause.chosen > pause.asked => pause.chosen <= MaximumBackoff
        /\ attempt > 1 => delay > InitialBackoff \/ delay = MaximumBackoff

\* A producer that stopped leaves the ingestion at work: cycle after cycle.
ProducerStopIsIsolated == stopped ~> (ingest = "storing" \/ ingest = "waiting" \/ signalled)

\* After a signal the process ends, whatever its loops were doing.
SignalEndsProcess == signalled ~> main = "exited"
=============================================================================
