------------------------- MODULE SequenceLogProofs -------------------------
(* The promise of SequenceLog: whatever arrives and in whatever order the    *)
(* sequences close, no row is measured twice.                                *)
EXTENDS SequenceLog, TLAPS

\* Rows of one vehicle as raw keeps them: one per GPS time.
Rows(rows) ==
    /\ \A r \in rows : r.at \in Nat
    /\ \A r, q \in rows : r.at = q.at => r = q

\* Two segments that share a row are one: being unbroken is symmetric and
\* transitive.
LEMMA SharedRow ==
    ASSUME NEW rows, Rows(rows), NEW r \in rows, NEW x \in SegmentOf(rows, r)
    PROVE  SegmentOf(rows, x) = SegmentOf(rows, r)
<1>1. x \in rows /\ Unbroken(rows, r, x)
  BY DEF SegmentOf
<1>2. Between(r, x, x) /\ r.at \in Nat /\ x.at \in Nat
  BY <1>1 DEF Rows, Between
<1>3. x.scope = r.scope
  BY <1>1, <1>2 DEF Unbroken
<1>4. ASSUME NEW y \in rows
      PROVE  Unbroken(rows, x, y) <=> Unbroken(rows, r, y)
  <2>1. ASSUME NEW m \in rows
        PROVE  /\ Between(x, m, y) => Between(r, m, x) \/ Between(r, m, y)
               /\ Between(r, m, y) => Between(r, m, x) \/ Between(x, m, y)
    BY <1>2, <1>4, <2>1 DEF Rows, Between
  <2>2. QED
    BY <2>1, <1>1, <1>3 DEF Unbroken
<1>5. QED
  BY <1>4 DEF SegmentOf

\* A segment is convex: it holds every row between two of its rows.
LEMMA Convex ==
    ASSUME NEW rows, Rows(rows), NEW r \in rows, NEW x \in SegmentOf(rows, r),
           NEW z \in SegmentOf(rows, r), NEW m \in rows, Between(x, m, z)
    PROVE  m \in SegmentOf(rows, r)
<1>1. x \in rows /\ z \in rows /\ Unbroken(rows, r, x) /\ Unbroken(rows, r, z)
  BY DEF SegmentOf
<1>2. ASSUME NEW k \in rows, Between(r, k, m)
      PROVE  Between(r, k, x) \/ Between(r, k, z)
  BY <1>1, <1>2 DEF Rows, Between
<1>3. Unbroken(rows, r, m)
  BY <1>1, <1>2 DEF Unbroken
<1>4. QED
  BY <1>3 DEF SegmentOf

\* The segments of rows are sets of rows of one scope, not empty, and ordered by
\* GPS time.
LEMMA SegmentsOrdered ==
    ASSUME NEW rows, Rows(rows), NEW s \in Segments(rows), NEW t \in Segments(rows)
    PROVE  /\ s \subseteq rows
           /\ \A r, q \in s : r.scope = q.scope
           /\ s # t => Before(s, t) \/ Before(t, s)
<1>1. PICK r \in rows : s = SegmentOf(rows, r)
  BY DEF Segments
<1>2. PICK q \in rows : t = SegmentOf(rows, q)
  BY DEF Segments
<1>3. s \subseteq rows /\ t \subseteq rows
  BY <1>1, <1>2 DEF SegmentOf
<1>4. ASSUME NEW x \in s
      PROVE  x.scope = r.scope
  <2>1. Between(r, x, x) /\ Unbroken(rows, r, x) /\ x \in rows
    BY <1>1, <1>4 DEF SegmentOf, Rows, Between
  <2>2. QED
    BY <2>1 DEF Unbroken
<1>5. ASSUME NEW x \in s, x \in t
      PROVE  s = t
  BY <1>1, <1>2, <1>5, SharedRow
<1>6. ASSUME NEW x \in s, NEW y \in t, ~(x.at < y.at), NEW z \in s, NEW w \in t, ~(w.at < z.at)
      PROVE  s = t
  <2>1. x \in rows /\ y \in rows /\ z \in rows /\ w \in rows
    BY <1>3
  <2>2. x.at \in Nat /\ y.at \in Nat /\ z.at \in Nat /\ w.at \in Nat
    BY <2>1 DEF Rows
  <2>3. Between(x, y, z) \/ Between(y, z, w)
    BY <2>2, <1>6 DEF Between
  <2>4. CASE Between(x, y, z)
    <3>1. y \in s
      BY <2>1, <2>4, <1>1, Convex
    <3>2. QED
      BY <3>1, <1>5
  <2>5. CASE Between(y, z, w)
    <3>1. z \in t
      BY <2>1, <2>5, <1>2, Convex
    <3>2. QED
      BY <3>1, <1>5
  <2>6. QED
    BY <2>3, <2>4, <2>5
<1>7. QED
  BY <1>3, <1>4, <1>6 DEF Before

IInv == TypeOK /\ PendingIsLater /\ MeasuredIsClosed /\ MeasuredOnce

\* The invariant of one vehicle.
Inv1(v) ==
    /\ closed[v] \in Nat
    /\ Measurable(v, pending[v])
    /\ \A s \in measured[v] : \A r \in s : r.at \in Nat /\ r.at <= closed[v]
    /\ \A s, t \in measured[v] :
        /\ \A r, q \in s : r.scope = q.scope
        /\ s # t => Before(s, t) \/ Before(t, s)

\* The invariant holds of no rows.
LEMMA InitIInv == Init => IInv
BY DEF Init, IInv, TypeOK, PendingIsLater, Measurable, MeasuredIsClosed, MeasuredOnce

\* A reception keeps the invariant of its vehicle.
LEMMA ReceiveInv1 ==
    ASSUME NEW v \in Vehicles, Inv1(v), Receive(v)
    PROVE  Inv1(v)'
BY DEF Receive, Inv1, Measurable

\* A closure keeps it: the segments that are measured are ordered among
\* themselves, and every one is later than those that were.
LEMMA FinalizeInv1 ==
    ASSUME NEW v \in Vehicles, Inv1(v), Finalize(v)
    PROVE  Inv1(v)'
<1> DEFINE rows == UNION (measured'[v] \ measured[v])
<1>1. /\ Measurable(v, rows)
      /\ \E r \in rows : closed'[v] = r.at /\ \A q \in rows : q.at <= r.at
      /\ measured'[v] = measured[v] \cup Segments(rows)
      /\ pending'[v] = {}
  BY DEF Finalize
<1> HIDE DEF rows
<1>2. Rows(rows) /\ \A r \in rows : r.at > closed[v]
  BY <1>1 DEF Rows, Measurable
<1>3. closed'[v] \in Nat /\ closed'[v] > closed[v] /\ \A q \in rows : q.at <= closed'[v]
  BY <1>1, <1>2 DEF Rows, Inv1
<1>4. Measurable(v, pending[v])'
  BY <1>1 DEF Measurable
<1>5. \A s \in measured'[v] : \A r \in s : r.at \in Nat /\ r.at <= closed'[v]
  <2>1. \A s \in measured[v] : \A r \in s : r.at \in Nat /\ r.at <= closed'[v]
    BY <1>3 DEF Inv1
  <2>2. \A s \in Segments(rows) : \A r \in s : r.at \in Nat /\ r.at <= closed'[v]
    BY <1>2, <1>3, SegmentsOrdered DEF Rows
  <2>3. QED
    BY <1>1, <2>1, <2>2
<1>6. ASSUME NEW s \in measured'[v], NEW t \in measured'[v]
      PROVE  /\ \A r, q \in s : r.scope = q.scope
             /\ s # t => Before(s, t) \/ Before(t, s)
  <2>1. ASSUME NEW e \in measured[v], NEW f \in Segments(rows)
        PROVE  Before(e, f)
    <3>1. f \subseteq rows
      BY <1>2, SegmentsOrdered
    <3>2. \A r \in e : r.at \in Nat /\ r.at <= closed[v]
      BY DEF Inv1
    <3>3. \A q \in f : q.at \in Nat /\ q.at > closed[v]
      BY <3>1, <1>2 DEF Rows
    <3>4. QED
      BY <3>2, <3>3 DEF Before, Inv1
  <2>2. CASE s \in measured[v] /\ t \in measured[v]
    BY <2>2 DEF Inv1
  <2>3. CASE s \in Segments(rows) /\ t \in Segments(rows)
    BY <2>3, <1>2, SegmentsOrdered
  <2>4. CASE s \in measured[v] /\ t \in Segments(rows)
    BY <2>4, <2>1 DEF Inv1
  <2>5. CASE s \in Segments(rows) /\ t \in measured[v]
    BY <2>5, <2>1, <1>2, SegmentsOrdered
  <2>6. QED
    BY <1>1, <2>2, <2>3, <2>4, <2>5
<1>7. QED
  BY <1>3, <1>4, <1>5, <1>6 DEF Inv1

\* IInv is the shape of the variables and the invariant of every vehicle.
LEMMA IInvByVehicle ==
    IInv <=> TypeOK /\ \A v \in Vehicles : Inv1(v)
BY DEF IInv, TypeOK, PendingIsLater, MeasuredIsClosed, MeasuredOnce, Inv1

\* Every step keeps the invariant.
LEMMA StepIInv == IInv /\ [Next]_vars => IInv'
<1> SUFFICES ASSUME IInv, [Next]_vars
             PROVE  IInv'
  OBVIOUS
<1>1. TypeOK /\ \A v \in Vehicles : Inv1(v)
  BY IInvByVehicle
<1>2. CASE Next
  <2>1. \A v \in Vehicles : Inv1(v)'
    BY <1>1, <1>2, ReceiveInv1, FinalizeInv1 DEF Next
  <2>2. TypeOK'
    BY <1>2, <2>1 DEF Next, TypeOK, Inv1
  <2>3. QED
    BY <2>1, <2>2 DEF IInv, TypeOK, PendingIsLater, MeasuredIsClosed, MeasuredOnce, Inv1
<1>3. CASE UNCHANGED vars
  BY <1>3 DEF vars, IInv, TypeOK, PendingIsLater, Measurable, MeasuredIsClosed, MeasuredOnce
<1>4. QED
  BY <1>2, <1>3

\* In every behaviour of the abstract producer, for every vehicle, the measured
\* segments are of one scope each and disjoint in GPS time: no row is measured
\* twice, however late or repeated the evidence arrives.
THEOREM RowsMeasuredOnce == Spec => []MeasuredOnce
<1>1. IInv => MeasuredOnce
  BY DEF IInv
<1>2. QED
  BY InitIInv, StepIInv, <1>1, PTL DEF Spec
=============================================================================
