---------------------------- MODULE SequenceLog ----------------------------
(***************************************************************************)
(* What the bottleneck producer promises, without captures, checkpoints or *)
(* descriptors: the rows of a vehicle wait until its sequence closes; then *)
(* all of them, and no others, are measured at once, segment by segment in *)
(* GPS order, and nothing older is taken any more.                         *)
(***************************************************************************)
EXTENDS BottlenecksProducer

CONSTANT Vehicles

VARIABLES
    pending,   \* vehicle -> the rows that wait
    closed,    \* vehicle -> the GPS time its measurements reach
    measured   \* vehicle -> the segments that were measured

vars == <<pending, closed, measured>>

Init ==
    /\ pending = [v \in Vehicles |-> {}]
    /\ closed = [v \in Vehicles |-> 0]
    /\ measured = [v \in Vehicles |-> {}]

\* Rows of one vehicle, later than what was measured, one per GPS time.
Measurable(v, rows) ==
    /\ \A r \in rows : r.at \in Nat /\ r.at > closed[v]
    /\ \A r, q \in rows : r.at = q.at => r = q

Receive(v) ==
    /\ pending[v] \subseteq pending'[v]
    /\ Measurable(v, pending'[v])
    /\ UNCHANGED <<closed[v], measured[v]>>

Finalize(v) ==
    LET rows == UNION (measured'[v] \ measured[v])
    IN  /\ pending[v] \subseteq rows
        /\ Measurable(v, rows)
        /\ \E r \in rows : closed'[v] = r.at /\ \A q \in rows : q.at <= r.at
        /\ measured'[v] = measured[v] \cup Segments(rows)
        /\ pending'[v] = {}

\* One capture concerns every vehicle.
Next ==
    /\ pending' = [v \in Vehicles |-> pending'[v]]
    /\ closed' = [v \in Vehicles |-> closed'[v]]
    /\ measured' = [v \in Vehicles |-> measured'[v]]
    /\ \A v \in Vehicles : Receive(v) \/ Finalize(v)

Spec == Init /\ [][Next]_vars

-----------------------------------------------------------------------------
TypeOK ==
    /\ DOMAIN pending = Vehicles
    /\ closed \in [Vehicles -> Nat]
    /\ DOMAIN measured = Vehicles

\* What waits is later than what was measured.
PendingIsLater == \A v \in Vehicles : Measurable(v, pending[v])

\* What was measured is not later than the closure.
MeasuredIsClosed ==
    \A v \in Vehicles : \A s \in measured[v] : \A r \in s : r.at \in Nat /\ r.at <= closed[v]

Before(s, t) == \A r \in s, q \in t : r.at < q.at

\* A row is measured once: two segments of a vehicle share no row and do not
\* interleave in GPS time, and a segment never crosses a change of scope.
MeasuredOnce ==
    \A v \in Vehicles : \A s, t \in measured[v] :
        /\ \A r, q \in s : r.scope = q.scope
        /\ s # t => Before(s, t) \/ Before(t, s)
=============================================================================
