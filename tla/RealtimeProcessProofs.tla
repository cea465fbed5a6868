------------------------ MODULE RealtimeProcessProofs ------------------------
(***************************************************************************)
(* Proofs about the worker process, for any budgets, backoff limits and    *)
(* Retry-After values.                                                     *)
(***************************************************************************)
EXTENDS RealtimeProcess, TLAPS

\* The loops begin when the start succeeded, and both have returned before the
\* pools close: what run knows of them, at each of its stages.
LoopsJoined ==
    /\ main \in {"connecting", "checking", "initializing"} => ingest = "idle" /\ producer = "idle"
    /\ main = "running" => ingest # "idle" /\ producer # "idle"
    /\ main = "joining" => ingest = "returned" /\ producer # "idle"
    /\ main \in {"closing", "exited"} =>
          ingest \in {"idle", "returned"} /\ producer \in {"idle", "returned"}

PoolsOpen ==
    /\ main \in {"checking", "initializing", "running", "joining"} => ingestPool
    /\ main \in {"initializing", "running", "joining"} => producerPool

\* The attempts of one capture, from the first, and the backoff they reached.
BackoffGrows ==
    /\ ingest = "maintaining" => attempt = 1
    /\ ingest \in {"capturing", "pausing"} =>
          /\ attempt >= 1
          /\ attempt > 1 => delay > InitialBackoff \/ delay = MaximumBackoff
    /\ ingest = "pausing" => attempt < MaximumAttempts

\* What a pause was chosen from.
PauseCovers ==
    ingest = "pausing" =>
        /\ pause.chosen >= pause.asked /\ pause.chosen >= delay
        /\ pause.chosen > pause.asked => pause.chosen = delay

BudgetKept == producer = "processing" => captures < MaxCapturesPerCycle

IInv ==
    /\ TypeOK
    /\ LoopsJoined
    /\ PoolsOpen
    /\ BackoffGrows
    /\ PauseCovers
    /\ BudgetKept

-----------------------------------------------------------------------------
\* Doubling, or stopping at the limit, moves the backoff beyond its start.
LEMMA BackoffAdvances ==
    ASSUME NEW d \in InitialBackoff..MaximumBackoff,
           NEW e, e = IF d >= MaximumBackoff \div 2 THEN MaximumBackoff ELSE d * 2
    PROVE  /\ e \in InitialBackoff..MaximumBackoff
           /\ e > InitialBackoff \/ e = MaximumBackoff
BY OptionsAssumption

\* The start and the end of the process: main moves, the loops stay.
LEMMA RunKeeps == IInv /\ Run => IInv'
<1> SUFFICES ASSUME IInv, Run PROVE IInv'
  OBVIOUS
<1> USE DEF IInv, TypeOK, LoopsJoined, PoolsOpen, BackoffGrows, PauseCovers, BudgetKept,
            vars, process, loops, production
<1>1. CASE Connect
  BY <1>1 DEF Connect
<1>2. CASE CheckSchema
  BY <1>2 DEF CheckSchema
<1>3. CASE Initialize
  BY <1>3 DEF Initialize
<1>4. CASE IngestReturned
  BY <1>4 DEF IngestReturned
<1>5. CASE Join
  BY <1>5 DEF Join
<1>6. CASE Close
  <2>1. CASE producerPool
    BY <1>6, <2>1 DEF Close
  <2>2. CASE ~producerPool
    BY <1>6, <2>2 DEF Close
  <2>q. QED
    BY <2>1, <2>2
<1>q. QED
  BY <1>1, <1>2, <1>3, <1>4, <1>5, <1>6 DEF Run

\* The ingestion loop: it works only while main runs, and its retries keep the limits.
LEMMA IngestKeeps == IInv /\ Ingest => IInv'
<1> SUFFICES ASSUME IInv, Ingest PROVE IInv'
  OBVIOUS
<1> USE DEF IInv, TypeOK, LoopsJoined, PoolsOpen, BackoffGrows, PauseCovers, BudgetKept,
            vars, process, loops, production
<1>1. CASE BeginCycle
  BY <1>1, OptionsAssumption DEF BeginCycle
<1>2. CASE Maintain
  BY <1>2 DEF Maintain
<1>3. CASE Captured
  BY <1>3, OptionsAssumption DEF Captured, Low
<1>4. CASE CaptureFailed
  BY <1>4, OptionsAssumption DEF CaptureFailed
<1>5. CASE Retry
  BY <1>5, OptionsAssumption, BackoffAdvances DEF Retry, NoPause
<1>6. CASE StoreCapture
  BY <1>6 DEF StoreCapture
<1>7. CASE IntervalEnds
  BY <1>7 DEF IntervalEnds
<1>8. CASE IngestCancelled
  BY <1>8, OptionsAssumption DEF IngestCancelled, NoPause
<1>q. QED
  BY <1>1, <1>2, <1>3, <1>4, <1>5, <1>6, <1>7, <1>8 DEF Ingest

\* The producer loop: it works while main runs or waits for it.
LEMMA ProduceKeeps == IInv /\ Produce => IInv'
<1> SUFFICES ASSUME IInv, Produce PROVE IInv'
  OBVIOUS
<1> USE DEF IInv, TypeOK, LoopsJoined, PoolsOpen, BackoffGrows, PauseCovers, BudgetKept,
            vars, process, loops, production
<1>1. CASE BeginProduction
  BY <1>1, OptionsAssumption DEF BeginProduction
<1>2. CASE Processed
  BY <1>2, OptionsAssumption DEF Processed
<1>3. CASE ProcessedNothing
  BY <1>3 DEF ProcessedNothing
<1>4. CASE StopsForGood
  BY <1>4 DEF StopsForGood
<1>5. CASE ProductionIntervalEnds
  BY <1>5 DEF ProductionIntervalEnds
<1>6. CASE ProducerCancelled
  BY <1>6 DEF ProducerCancelled
<1>q. QED
  BY <1>1, <1>2, <1>3, <1>4, <1>5, <1>6 DEF Produce

\* The invariant is inductive.
LEMMA IInvKept == IInv /\ [Next]_vars => IInv'
<1> SUFFICES ASSUME IInv, [Next]_vars PROVE IInv'
  OBVIOUS
<1> USE DEF IInv, TypeOK, LoopsJoined, PoolsOpen, BackoffGrows, PauseCovers, BudgetKept,
            vars, process, loops, production
<1>1. CASE Signal
  BY <1>1 DEF Signal
<1>2. CASE NewDay
  BY <1>2, BoundAssumption DEF NewDay
<1>3. CASE UNCHANGED vars
  BY <1>3
<1>q. QED
  BY <1>1, <1>2, <1>3, RunKeeps, IngestKeeps, ProduceKeeps DEF Next

\* The pools, the loops, the attempts of a capture and the budget of a cycle, in
\* every state: wherever a signal, a failure or a new day comes.
THEOREM Invariance == Spec => []IInv
<1>1. Init => IInv
  <2> SUFFICES ASSUME Init PROVE IInv
    OBVIOUS
  <2>1. TypeOK
    <3>1. pause \in [chosen: Nat, asked: RetryAfters \cup {0}]
      BY DEF Init, NoPause
    <3>2. today \in 1..MaximumDay /\ cycleDay \in 0..today /\ maintained \in 0..cycleDay
      BY BoundAssumption DEF Init
    <3>3. /\ reference \in 0..MaximumFresh /\ attempt \in 0..MaximumAttempts
          /\ delay \in InitialBackoff..MaximumBackoff /\ captures \in 0..MaxCapturesPerCycle
      BY OptionsAssumption DEF Init
    <3>q. QED
      BY <3>1, <3>2, <3>3 DEF Init, TypeOK
  <2>2. LoopsJoined /\ PoolsOpen /\ BackoffGrows /\ PauseCovers /\ BudgetKept
    BY DEF Init, LoopsJoined, PoolsOpen, BackoffGrows, PauseCovers, BudgetKept
  <2>q. QED
    BY <2>1, <2>2 DEF IInv
<1>q. QED
  BY <1>1, IInvKept, PTL DEF Spec

\* A loop that is in a database call has its pool open: the pools close when the
\* ingestion has returned and the producer was cancelled and joined.
THEOREM CallsHavePools == Spec => []DatabaseCallsHavePools
<1>1. IInv => DatabaseCallsHavePools
  BY DEF IInv, TypeOK, LoopsJoined, PoolsOpen, DatabaseCallsHavePools
<1>q. QED
  BY <1>1, Invariance, PTL

\* A retry waits at least what the provider asked and its own backoff; what goes
\* beyond the provider's wait stays within the limit.
THEOREM RetriesAlwaysWait == Spec => []RetriesWait
<1>1. IInv => RetriesWait
  BY OptionsAssumption DEF IInv, TypeOK, BackoffGrows, PauseCovers, RetriesWait
<1>q. QED
  BY <1>1, Invariance, PTL
=============================================================================
