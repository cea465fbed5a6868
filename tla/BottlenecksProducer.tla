------------------------ MODULE BottlenecksProducer ------------------------
(***************************************************************************)
(* ProduceCapture of internal/bottlenecks: what one capture does to the    *)
(* sequence a vehicle has open, and what the closure of a sequence yields. *)
(*                                                                         *)
(* A row of raw is a record [vehicle, at, scope, capture]; a vehicle has   *)
(* one row per GPS timestamp.  Projections and the measurements of a       *)
(* segment are left out: a segment is the rows it is measured from.  Zero  *)
(* stands for the zero time of the code.                                   *)
(***************************************************************************)
EXTENDS Integers, FiniteSets

CONSTANT MissingCaptureLimit

ASSUME MissingAssumption == MissingCaptureLimit \in Nat \ {0}

Least(S) == CHOOSE x \in S : \A y \in S : x <= y
Greatest(S) == CHOOSE x \in S : \A y \in S : x >= y

-----------------------------------------------------------------------------
\* The descriptor of an open sequence.  It keeps no rows: "evidence" is the
\* XOR of their digests, so a row that is added twice cancels itself out.
NoSequence == [first |-> 0, last |-> 0, earliest |-> 0, latest |-> 0,
               observations |-> 0, evidence |-> {}, scopes |-> {}]

IsOpenSequence(open) == open.observations > 0

\* Mutant: the digest of the last capture only.
DigestOfCapture(evidence, rows) == rows

Digest(evidence, rows) == (evidence \ rows) \cup (rows \ evidence)

\* accumulateProducerEvidence over a set of rows; the order does not matter.
Accumulate(open, rows) ==
    IF rows = {} THEN open
    ELSE LET ids == {r.capture : r \in rows}
             times == {r.at : r \in rows}
             started == IsOpenSequence(open)
         IN  [first |-> Least(ids \cup (IF started THEN {open.first} ELSE {})),
              last |-> Greatest(ids \cup (IF started THEN {open.last} ELSE {})),
              earliest |-> Least(times \cup (IF started THEN {open.earliest} ELSE {})),
              latest |-> Greatest(times \cup (IF started THEN {open.latest} ELSE {})),
              observations |-> open.observations + Cardinality(rows),
              evidence |-> Digest(open.evidence, rows),
              scopes |-> open.scopes \cup {r.scope : r \in rows}]

-----------------------------------------------------------------------------
NewProducerState(activation) ==
    [lastCapture |-> activation, lastReceived |-> 0, latestSeen |-> 0,
     closedThrough |-> 0, missing |-> 0, open |-> NoSequence]

\* ProducerState.Validate, which every write and every recovery repeats.
ValidState(state, activation) ==
    /\ activation <= state.lastCapture
    /\ state.missing \in 0..MissingCaptureLimit
    /\ (state.lastCapture = activation) <=> (state.lastReceived = 0)
    /\ IF state.latestSeen = 0
       THEN state.open = NoSequence /\ state.closedThrough = 0 /\ state.missing = 0
       ELSE /\ state.lastCapture # activation
            /\ state.closedThrough <= state.latestSeen
            /\ IF ~IsOpenSequence(state.open)
               THEN state.closedThrough = state.latestSeen /\ state.missing = MissingCaptureLimit
               ELSE /\ activation < state.open.first
                    /\ state.open.first <= state.open.last
                    /\ state.open.last <= state.lastCapture
                    /\ state.open.earliest <= state.open.latest
                    /\ state.open.latest = state.latestSeen
                    /\ state.closedThrough < state.open.earliest
                    /\ Cardinality(state.open.scopes) <= state.open.observations
                    /\ state.missing # MissingCaptureLimit

\* Finalized evidence never reopens: the rows of a capture that count.
AcceptedRows(state, rows) == {r \in rows : r.at > state.closedThrough}

\* The sequence and the watermark after the new rows, before absences.
Updated(state, rows) == \E r \in AcceptedRows(state, rows) : r.at > state.latestSeen

\* Mutant: partial captures are absences too.
AbsencesAndPartials(state, capture) ==
    CASE Updated(state, capture.new) -> 0
      [] ~Updated(state, capture.new) /\ IsOpenSequence(state.open) -> state.missing + 1
      [] OTHER -> state.missing

Absences(state, capture) ==
    LET open == Accumulate(state.open, AcceptedRows(state, capture.new))
    IN  CASE Updated(state, capture.new) -> 0
          [] ~Updated(state, capture.new) /\ ~capture.partial /\ IsOpenSequence(open) -> state.missing + 1
          [] OTHER -> state.missing

Closes(state, capture) ==
    /\ IsOpenSequence(Accumulate(state.open, AcceptedRows(state, capture.new)))
    /\ Absences(state, capture) = MissingCaptureLimit

\* finalizeProducerSequence: the replay is the evidence that was accepted.
ReplayMatches(state, open, capture) ==
    /\ Cardinality(capture.replay) = open.observations
    /\ \A r \in capture.replay : r.capture \in open.first..capture.id /\ r.at > state.closedThrough
    /\ Accumulate(NoSequence, capture.replay) = open

\* A segment: the rows of one scope between two rows of others, in GPS order.
Between(r, m, q) == (r.at <= m.at /\ m.at <= q.at) \/ (q.at <= m.at /\ m.at <= r.at)
Unbroken(rows, r, q) == \A m \in rows : Between(r, m, q) => m.scope = r.scope
SegmentOf(rows, r) == {q \in rows : Unbroken(rows, r, q)}
Segments(rows) == {SegmentOf(rows, r) : r \in rows}

\* The errors of ProduceCapture; the store turns every one into a lost source.
Producible(state, capture, activation) ==
    /\ capture.id > state.lastCapture
    /\ capture.receivedAt >= state.lastReceived
    /\ \A r \in capture.new : r.capture = capture.id
    /\ IF Closes(state, capture)
       THEN ReplayMatches(state, Accumulate(state.open, AcceptedRows(state, capture.new)), capture)
       ELSE capture.replay = {}

\* Mutant: a closure does not move the watermark.
ProduceCaptureReopening(state, capture) ==
    LET accepted == AcceptedRows(state, capture.new)
    IN  [lastCapture |-> capture.id, lastReceived |-> capture.receivedAt,
         latestSeen |-> Greatest({r.at : r \in accepted} \cup {state.latestSeen}),
         closedThrough |-> state.closedThrough,
         missing |-> Absences(state, capture),
         open |-> IF Closes(state, capture) THEN NoSequence ELSE Accumulate(state.open, accepted)]

ProduceCapture(state, capture) ==
    LET accepted == AcceptedRows(state, capture.new)
        seen == Greatest({r.at : r \in accepted} \cup {state.latestSeen})
        closes == Closes(state, capture)
    IN  [lastCapture |-> capture.id, lastReceived |-> capture.receivedAt, latestSeen |-> seen,
         closedThrough |-> IF closes THEN seen ELSE state.closedThrough,
         missing |-> Absences(state, capture),
         open |-> IF closes THEN NoSequence ELSE Accumulate(state.open, accepted)]

ProducedSegments(state, capture) ==
    IF Closes(state, capture) THEN Segments(capture.replay) ELSE {}
=============================================================================
