------------------------- MODULE TrafficTilesProofs -------------------------
(***************************************************************************)
(* Proofs about the tile cache, its shared downloads and its gate, for any *)
(* snapshots, tiles, sizes, limits and delays.                             *)
(***************************************************************************)
EXTENDS TrafficTiles, FiniteSetTheorems, SequenceTheorems, WellFoundedInduction, TLAPS

InFlight == {"queued", "gated", "fetching", "fetched"}

\* The downloads that the cache lists are those of the goroutines that lead one,
\* and there is one for a tile.
FlightsLed ==
    /\ flights = {g \in Active : pc[g] \in InFlight}
    /\ \A g, h \in flights : g[2] = h[2] => g = h

\* What a goroutine has, or waits for, is a tile it asked for.
OwnTile ==
    \A g \in Goroutines :
        /\ ~Failed(got[g]) => got[g].tile = g[2]
        /\ pc[g] = "waiting" => leader[g][2] = g[2]

\* The bytes and the entries of a cache are those of its sequence.
CacheKept ==
    /\ recent \in Seq(Entry)
    /\ CacheWithinLimits

Gated == {g \in Goroutines : pc[g] = "gated"}
SlotsUntil(instant) == {g \in Gated : time[g] <= instant}

\* Every slot given so far, waited for or used, is an interval apart from the
\* others: up to no instant are there more slots than intervals.
SlotsSpaced ==
    /\ IsFiniteSet(Gated)
    /\ next = 0 => requested = 0 /\ Gated = {}
    /\ next > 0 => (requested + Cardinality(Gated)) * Interval < next
    /\ \A g \in Gated : time[g] < next
    /\ \A instant \in Nat : instant >= clock =>
          (requested + Cardinality(SlotsUntil(instant)) - 1) * Interval < instant

IInv ==
    /\ clock > 0
    /\ TypeOK
    /\ FlightsLed
    /\ OwnTile
    /\ CacheKept
    /\ InvalidTilesLeave
    /\ SlotsSpaced

-----------------------------------------------------------------------------
(* Induction, as facts about sets of numbers.                              *)

\* A set of numbers that is not empty has a least one.
LEMMA LeastNumber ==
    ASSUME NEW N, N \subseteq Nat, N # {}
    PROVE  \E m \in N : \A k \in N : m <= k
<1>a. IsWellFoundedOn(OpToRel(<, Nat), Nat)
  BY NatLessThanWellFounded
<1> DEFINE below == OpToRel(<, Nat)
<1>1. \E m \in N : \A k \in N : ~ (<<k, m>> \in below)
  <2>1. IsWellFoundedOn(below, Nat)
    BY <1>a
  <2> HIDE DEF below
  <2>q. QED
    BY <2>1, WFMin
<1>2. \A k, m \in N : ~ (<<k, m>> \in below) => ~ (k < m)
  BY DEF OpToRel
<1> HIDE DEF below
<1>3. \A k, m \in N : ~ (k < m) => m <= k
  OBVIOUS
<1>q. QED
  BY <1>1, <1>2, <1>3

\* What holds of 0, and of a number once it holds of the one before, holds up to
\* the bound.
LEMMA Ascends ==
    ASSUME NEW n \in Nat, NEW N, 0 \in N, \A i \in 1..n : i - 1 \in N => i \in N
    PROVE  \A i \in 0..n : i \in N
<1> DEFINE missing == {i \in 0..n : i \notin N}
<1>1. CASE missing = {}
  BY <1>1
<1>2. CASE missing # {}
  <2>1. PICK m \in missing : \A k \in missing : m <= k
    <3>1. missing \subseteq Nat
      OBVIOUS
    <3> HIDE DEF missing
    <3>q. QED
      BY <3>1, <1>2, LeastNumber
  <2>2. m # 0 /\ m \in 1..n
    BY <2>1
  <2>3. m - 1 \in 0..n /\ m - 1 \notin missing
    BY <2>1, <2>2
  <2>q. QED
    BY <2>1, <2>2, <2>3
<1>q. QED
  BY <1>1, <1>2

-----------------------------------------------------------------------------
(* The bytes of a sequence of entries.                                     *)

Sums(s, f) ==
    /\ f \in [0..Len(s) -> Nat]
    /\ f[0] = 0
    /\ \A i \in 1..Len(s) : f[i] = f[i - 1] + s[i].size

LEMMA SizesAreNat ==
    ASSUME NEW s \in Seq(Entry)
    PROVE  \A i \in 1..Len(s) : s[i] \in Entry /\ s[i].size \in Nat
<1>1. \A e \in Entry : e.size \in Nat
  BY LimitsAssumption DEF Entry
<1>q. QED
  BY <1>1

\* The partial sums of a sequence exist.
LEMMA SumsExist ==
    ASSUME NEW s \in Seq(Entry)
    PROVE  \E f : Sums(s, f)
<1> DEFINE upTo(n, f) == /\ f \in [0..n -> Nat] /\ f[0] = 0
                         /\ \A i \in 1..n : f[i] = f[i - 1] + s[i].size
           N == {n \in 0..Len(s) : \E f : upTo(n, f)}
<1>1. 0 \in N
  <2> DEFINE z == [i \in 0..0 |-> 0]
  <2>1. upTo(0, z)
    OBVIOUS
  <2> HIDE DEF z
  <2>2. \E f : upTo(0, f)
    BY <2>1
  <2>q. QED
    BY <2>2
<1>2. ASSUME NEW n \in 1..Len(s), n - 1 \in N
      PROVE  n \in N
  <2>1. PICK f : upTo(n - 1, f)
    BY <1>2
  <2>2. s[n].size \in Nat
    BY SizesAreNat
  <2> DEFINE g == [i \in 0..n |-> IF i = n THEN f[n - 1] + s[n].size ELSE f[i]]
  <2>3. f[n - 1] \in Nat /\ \A i \in 0..n : i # n => i \in 0..(n - 1)
    BY <2>1
  <2>4. g \in [0..n -> Nat] /\ g[0] = 0
    BY <2>1, <2>2, <2>3
  <2>5. \A i \in 1..n : g[i] = g[i - 1] + s[i].size
    <3>1. TAKE i \in 1..n
    <3>2. CASE i = n
      BY <3>2, <2>3
    <3>3. CASE i # n
      BY <3>3, <2>1
    <3>q. QED
      BY <3>2, <3>3
  <2> HIDE DEF g
  <2>6. \E h : upTo(n, h)
    BY <2>4, <2>5
  <2> HIDE DEF upTo
  <2>q. QED
    BY <2>6
<1>a. Len(s) \in Nat
  OBVIOUS
<1> HIDE DEF N
<1>3. \A i \in 0..Len(s) : i \in N
  BY <1>a, <1>1, <1>2, Ascends
<1>q. QED
  BY <1>3 DEF N, Sums

\* Bytes is the last of the partial sums.
LEMMA BytesSums ==
    ASSUME NEW s \in Seq(Entry)
    PROVE  \E f : Sums(s, f) /\ Bytes(s) = f[Len(s)]
<1> DEFINE step(f) == [n \in 0..Len(s) |-> IF n = 0 THEN 0 ELSE f[n - 1] + s[n].size]
           sum == CHOOSE f : f = step(f)
<1>1. PICK f : Sums(s, f)
  BY SumsExist
<1>2. f = step(f)
  BY <1>1 DEF Sums
<1>3. sum = step(sum)
  BY <1>2
<1> HIDE DEF sum
<1> DEFINE N == {n \in 0..Len(s) : sum[n] \in Nat}
<1>4. 0 \in N
  BY <1>3
<1>5. \A n \in 1..Len(s) : n - 1 \in N => n \in N
  BY <1>3, SizesAreNat
<1>a. Len(s) \in Nat
  OBVIOUS
<1> HIDE DEF N
<1>6. \A i \in 0..Len(s) : i \in N
  BY <1>a, <1>4, <1>5, Ascends
<1>7. Sums(s, sum)
  <2>1. sum \in [0..Len(s) -> Nat]
    BY <1>3, <1>6 DEF N
  <2>2. sum[0] = 0 /\ \A i \in 1..Len(s) : sum[i] = sum[i - 1] + s[i].size
    BY <1>3, <1>a
  <2>q. QED
    BY <2>1, <2>2 DEF Sums
<1>8. Bytes(s) = sum[Len(s)]
  BY DEF Bytes, sum
<1>q. QED
  BY <1>7, <1>8

\* The bytes of two sequences, one after the other.
LEMMA BytesConcat ==
    ASSUME NEW s \in Seq(Entry), NEW t \in Seq(Entry)
    PROVE  /\ Bytes(s) \in Nat
           /\ Bytes(s \o t) = Bytes(s) + Bytes(t)
<1>1. PICK f : Sums(s, f) /\ Bytes(s) = f[Len(s)]
  BY BytesSums
<1>2. PICK g : Sums(t, g) /\ Bytes(t) = g[Len(t)]
  BY BytesSums
<1>3. s \o t \in Seq(Entry) /\ Len(s \o t) = Len(s) + Len(t) /\ Len(s) \in Nat /\ Len(t) \in Nat
  OBVIOUS
<1>4. PICK h : Sums(s \o t, h) /\ Bytes(s \o t) = h[Len(s \o t)]
  BY <1>3, BytesSums
<1> DEFINE S == {i \in 0..Len(s) : h[i] = f[i]}
           T == {j \in 0..Len(t) : h[Len(s) + j] = f[Len(s)] + g[j]}
<1>5. \A i \in 0..Len(s) : i \in S
  <2>1. 0 \in S
    BY <1>1, <1>4 DEF Sums
  <2>2. \A i \in 1..Len(s) : i - 1 \in S => i \in S
    BY <1>1, <1>3, <1>4 DEF Sums
  <2> HIDE DEF S
  <2>q. QED
    BY <1>3, <2>1, <2>2, Ascends
<1>6. \A j \in 0..Len(t) : j \in T
  <2>1. 0 \in T
    <3>a. Len(s) \in 0..Len(s) /\ Len(s) + 0 = Len(s)
      BY <1>3
    <3>b. h[Len(s)] = f[Len(s)]
      BY <1>5, <3>a
    <3>c. f[Len(s)] \in Nat /\ g[0] = 0
      BY <1>1, <1>2, <3>a DEF Sums
    <3>1. h[Len(s)] = f[Len(s)] /\ f[Len(s)] \in Nat /\ g[0] = 0 /\ Len(s) + 0 = Len(s)
      BY <3>a, <3>b, <3>c
    <3>q. QED
      BY <3>1, <1>3
  <2>2. ASSUME NEW j \in 1..Len(t), j - 1 \in T
        PROVE  j \in T
    <3>1. /\ (s \o t)[Len(s) + j] = t[j] /\ Len(s) + j \in 1..Len(s \o t)
          /\ (Len(s) + j) - 1 = Len(s) + (j - 1)
      BY <1>3
    <3>2. /\ h[Len(s) + j] = h[Len(s) + (j - 1)] + t[j].size
          /\ g[j] = g[j - 1] + t[j].size
      BY <3>1, <1>2, <1>4 DEF Sums
    <3>3. f[Len(s)] \in Nat /\ g[j - 1] \in Nat /\ t[j].size \in Nat
      BY <1>1, <1>2, SizesAreNat DEF Sums
    <3>q. QED
      BY <2>2, <3>2, <3>3
  <2> HIDE DEF T
  <2>q. QED
    BY <1>3, <2>1, <2>2, Ascends
<1>7. Len(t) \in T /\ f[Len(s)] \in Nat
  BY <1>1, <1>3, <1>6 DEF Sums
<1>q. QED
  BY <1>1, <1>2, <1>3, <1>4, <1>7

LEMMA BytesOne ==
    ASSUME NEW e \in Entry
    PROVE  Bytes(<<e>>) = e.size
<1>1. <<e>> \in Seq(Entry)
  OBVIOUS
<1>2. PICK f : Sums(<<e>>, f) /\ Bytes(<<e>>) = f[Len(<<e>>)]
  BY <1>1, BytesSums
<1>3. Len(<<e>>) = 1 /\ <<e>>[1] = e /\ e.size \in Nat
  BY LimitsAssumption DEF Entry
<1>4. f[1] = f[0] + e.size /\ f[0] = 0
  BY <1>2, <1>3 DEF Sums
<1>q. QED
  BY <1>2, <1>3, <1>4

-----------------------------------------------------------------------------
(* What the changes of the cache do to its entries and its bytes.          *)

Distinct(entries) ==
    \A i, j \in DOMAIN entries : entries[i].tile = entries[j].tile => i = j

Within(part, whole) ==
    \A i \in DOMAIN part : \E j \in DOMAIN whole : part[i] = whole[j]

\* Every entry of the part is of the whole, or the one that is added to it.
WithinOr(part, e, whole) ==
    \A i \in DOMAIN part : part[i] = e \/ \E j \in DOMAIN whole : part[i] = whole[j]

Lacks(entries, t) == \A i \in DOMAIN entries : entries[i].tile # t

\* Removing one entry of a sequence that has each tile once.
LEMMA RemoveFacts ==
    ASSUME NEW s \in Seq(Entry), Distinct(s), NEW i \in 1..Len(s), NEW r, r = RemoveAt(s, i)
    PROVE  /\ r \in Seq(Entry) /\ Len(r) = Len(s) - 1
           /\ Distinct(r) /\ Within(r, s) /\ Lacks(r, s[i].tile)
           /\ Bytes(s) = Bytes(r) + s[i].size
<1> DEFINE a == SubSeq(s, 1, i - 1)
           b == SubSeq(s, i + 1, Len(s))
           shift(k) == IF k < i THEN k ELSE k + 1
<1>1. /\ a \in Seq(Entry) /\ Len(a) = i - 1 /\ \A k \in 1..(i - 1) : a[k] = s[k]
      /\ b \in Seq(Entry) /\ Len(b) = Len(s) - i /\ \A k \in 1..(Len(s) - i) : b[k] = s[i + k]
      /\ Len(s) \in Nat
  BY SubSeqProperties
<1>2. r = a \o b
  BY DEF RemoveAt
<1>6. s = a \o (<<s[i]>> \o b)
  <2>1. SubSeq(s, 1, i - 1) \o SubSeq(s, i, Len(s)) = s
    <3>1. /\ 1 \in 1..(Len(s) + 1) /\ i - 1 \in (1 - 1)..Len(s) /\ Len(s) \in (i - 1)..Len(s)
          /\ (i - 1) + 1 = i
      BY <1>1
    <3>q. QED
      BY <3>1, ConcatAdjacentSubSeq, SubSeqFull
  <2>2. SubSeq(s, i, Len(s)) = <<s[i]>> \o SubSeq(s, i + 1, Len(s))
    BY <1>1, SubSeqRecursiveFirst
  <2>q. QED
    BY <2>1, <2>2
<1> HIDE DEF a, b
<1>3. /\ r \in Seq(Entry) /\ Len(r) = Len(s) - 1 /\ DOMAIN r = 1..(Len(s) - 1)
      /\ \A k \in 1..(Len(s) - 1) : r[k] = s[shift(k)]
  <2>1. /\ r \in Seq(Entry) /\ Len(r) = Len(s) - 1
        /\ \A k \in 1..(Len(s) - 1) : r[k] = IF k <= i - 1 THEN a[k] ELSE b[k - (i - 1)]
    <3>1. Len(a) + Len(b) = Len(s) - 1
      BY <1>1
    <3>2. /\ a \o b \in Seq(Entry) /\ Len(a \o b) = Len(a) + Len(b)
          /\ \A k \in 1..(Len(a) + Len(b)) :
                (a \o b)[k] = IF k <= Len(a) THEN a[k] ELSE b[k - Len(a)]
      BY <1>1, ConcatProperties, Zenon
    <3>q. QED
      BY <1>1, <1>2, <3>1, <3>2
  <2>2. ASSUME NEW k \in 1..(Len(s) - 1)
        PROVE  r[k] = s[shift(k)]
    <3>1. CASE k < i
      BY <3>1, <2>1, <1>1
    <3>2. CASE ~ (k < i)
      <4>1. k - (i - 1) \in 1..(Len(s) - i) /\ i + (k - (i - 1)) = k + 1
        BY <3>2, <1>1
      <4>2. r[k] = b[k - (i - 1)]
        BY <3>2, <2>1, <1>1
      <4>q. QED
        BY <3>2, <4>1, <4>2, <1>1
    <3>q. QED
      BY <3>1, <3>2
  <2>q. QED
    BY <2>1, <2>2, <1>1
<1>4. Distinct(r) /\ Within(r, s) /\ Lacks(r, s[i].tile)
  <2>1. ASSUME NEW k \in DOMAIN r
        PROVE  shift(k) \in DOMAIN s /\ shift(k) # i /\ r[k] = s[shift(k)]
    <3>1. k \in 1..(Len(s) - 1) /\ DOMAIN s = 1..Len(s)
      BY <1>1, <1>3
    <3>2. shift(k) \in 1..Len(s) /\ shift(k) # i
      BY <3>1, <1>1
    <3>q. QED
      BY <3>1, <3>2, <1>3
  <2>2. \A j, k \in DOMAIN r : shift(j) = shift(k) => j = k
    BY <1>3
  <2>3. i \in DOMAIN s
    BY <1>1
  <2> HIDE DEF shift
  <2>q. QED
    BY <2>1, <2>2, <2>3 DEF Distinct, Within, Lacks
<1>7. Bytes(s) = Bytes(r) + s[i].size
  <2>1. s[i] \in Entry /\ <<s[i]>> \in Seq(Entry) /\ <<s[i]>> \o b \in Seq(Entry)
    BY <1>1
  <2>2. /\ Bytes(s) = Bytes(a) + Bytes(<<s[i]>> \o b)
        /\ Bytes(<<s[i]>> \o b) = Bytes(<<s[i]>>) + Bytes(b)
        /\ Bytes(r) = Bytes(a) + Bytes(b)
        /\ Bytes(a) \in Nat /\ Bytes(b) \in Nat
    BY <1>1, <1>2, <1>6, <2>1, BytesConcat
  <2>3. Bytes(<<s[i]>>) = s[i].size /\ s[i].size \in Nat
    BY <2>1, BytesOne, SizesAreNat
  <2>q. QED
    BY <2>2, <2>3
<1>q. QED
  BY <1>3, <1>4, <1>7

\* A tile leaves the cache: it, and only it, with its bytes.
LEMMA WithoutFacts ==
    ASSUME recent \in Seq(Entry), Distinct(recent), NEW t
    PROVE  /\ Without(t) \in Seq(Entry) /\ Len(Without(t)) <= Len(recent)
           /\ Distinct(Without(t)) /\ Within(Without(t), recent) /\ Lacks(Without(t), t)
           /\ Cached(t) =>
                 /\ EntryOf(t) \in Entry /\ EntryOf(t).tile = t
                 /\ Within(<<EntryOf(t)>>, recent)
                 /\ Bytes(recent) = Bytes(Without(t)) + EntryOf(t).size
                 /\ Len(Without(t)) = Len(recent) - 1
           /\ ~ Cached(t) => Without(t) = recent
<1>1. DOMAIN recent = 1..Len(recent) /\ Len(recent) \in Nat
  BY LenProperties
<1>2. CASE Cached(t)
  <2> DEFINE i == PositionOf(t)
  <2>1. i \in 1..Len(recent) /\ recent[i].tile = t
    BY <1>1, <1>2 DEF Cached, PositionOf
  <2>2. Without(t) = RemoveAt(recent, i) /\ EntryOf(t) = recent[i]
    BY <1>2 DEF Without, EntryOf
  <2>3. Within(<<EntryOf(t)>>, recent)
    BY <1>1, <2>1, <2>2 DEF Within
  <2> HIDE DEF i
  <2>4. /\ Without(t) \in Seq(Entry) /\ Len(Without(t)) = Len(recent) - 1
        /\ Distinct(Without(t)) /\ Within(Without(t), recent) /\ Lacks(Without(t), t)
        /\ Bytes(recent) = Bytes(Without(t)) + EntryOf(t).size
    BY <2>1, <2>2, RemoveFacts
  <2>q. QED
    BY <1>1, <1>2, <2>1, <2>2, <2>3, <2>4
<1>3. CASE ~ Cached(t)
  <2>1. Without(t) = recent
    BY <1>3 DEF Without
  <2>2. Within(recent, recent) /\ Lacks(recent, t)
    BY <1>3 DEF Within, Lacks, Cached
  <2>3. Len(recent) <= Len(recent)
    BY <1>1
  <2>4. /\ Without(t) \in Seq(Entry) /\ Len(Without(t)) <= Len(recent)
        /\ Distinct(Without(t)) /\ Within(Without(t), recent) /\ Lacks(Without(t), t)
    BY <2>1, <2>2, <2>3
  <2>q. QED
    BY <1>3, <2>1, <2>4
<1>q. QED
  BY <1>2, <1>3

\* An entry goes to the front of a cache without its tile.
LEMMA PushFacts ==
    ASSUME NEW w \in Seq(Entry), Distinct(w), NEW e \in Entry, Lacks(w, e.tile),
           NEW p, p = <<e>> \o w
    PROVE  /\ p \in Seq(Entry) /\ Len(p) = Len(w) + 1
           /\ Distinct(p) /\ Bytes(p) = e.size + Bytes(w) /\ Bytes(w) \in Nat
           /\ SubSeq(p, 1, 1) = <<e>>
           /\ WithinOr(p, e, w)
<1>1. /\ <<e>> \in Seq(Entry) /\ p \in Seq(Entry) /\ Len(p) = Len(w) + 1 /\ Len(w) \in Nat
      /\ DOMAIN p = 1..(Len(w) + 1) /\ DOMAIN w = 1..Len(w)
  OBVIOUS
<1>2. p[1] = e /\ \A i \in 2..Len(p) : p[i] = w[i - 1]
  OBVIOUS
<1>3. Distinct(p)
  <2> SUFFICES ASSUME NEW i \in DOMAIN p, NEW j \in DOMAIN p, p[i].tile = p[j].tile
               PROVE  i = j
    BY DEF Distinct
  <2>1. ASSUME NEW k \in DOMAIN p, k # 1
        PROVE  k \in 2..Len(p) /\ k - 1 \in DOMAIN w
    <3>1. k \in 1..(Len(w) + 1)
      BY <1>1
    <3>2. k \in 2..(Len(w) + 1) /\ k - 1 \in 1..Len(w)
      BY <3>1, <2>1, <1>1
    <3>q. QED
      BY <3>2, <1>1
  <2>2. \A k \in 2..Len(p) : k - 1 \in DOMAIN w => p[k].tile # p[1].tile
    BY <1>2 DEF Lacks
  <2>3. CASE i = 1 \/ j = 1
    BY <2>1, <2>2, <2>3
  <2>4. CASE i # 1 /\ j # 1
    <3>1. i - 1 = j - 1
      BY <1>2, <2>1, <2>4 DEF Distinct
    <3>q. QED
      BY <3>1, <1>1
  <2>q. QED
    BY <2>3, <2>4
<1>4. Bytes(p) = e.size + Bytes(w) /\ Bytes(w) \in Nat
  BY <1>1, BytesConcat, BytesOne
<1>5. WithinOr(p, e, w)
  <2> SUFFICES ASSUME NEW i \in DOMAIN p
               PROVE  p[i] = e \/ \E j \in DOMAIN w : p[i] = w[j]
    BY DEF WithinOr
  <2>1. CASE i = 1
    BY <2>1, <1>2
  <2>2. CASE i # 1
    <3>1. i - 1 \in DOMAIN w /\ p[i] = w[i - 1]
      BY <1>1, <1>2, <2>2
    <3>q. QED
      BY <3>1
  <2>q. QED
    BY <2>1, <2>2
<1>6. SubSeq(p, 1, 1) = <<e>>
  <2>1. SubSeq(p, 1, 1) = <<p[1]>> \o SubSeq(p, 2, 1)
    BY <1>1, SubSeqRecursiveFirst
  <2>2. SubSeq(p, 2, 1) = <<>> /\ <<e>> \o <<>> = <<e>>
    BY <1>1, SubSeqEmpty, ConcatEmptySeq
  <2>q. QED
    BY <1>2, <2>1, <2>2
<1>q. QED
  BY <1>1, <1>3, <1>4, <1>5, <1>6

\* The entries at the back give way.
LEMMA PrefixFacts ==
    ASSUME NEW s \in Seq(Entry), Distinct(s), NEW n \in 0..Len(s), NEW p, p = SubSeq(s, 1, n)
    PROVE  /\ p \in Seq(Entry) /\ Len(p) = n
           /\ Distinct(p) /\ Within(p, s)
           /\ Bytes(p) = Bytes(s) - Bytes(SubSeq(s, n + 1, Len(s))) /\ Bytes(p) \in Nat
<1>1. /\ p \in Seq(Entry) /\ Len(p) = n /\ \A k \in 1..n : p[k] = s[k]
      /\ SubSeq(s, n + 1, Len(s)) \in Seq(Entry) /\ Len(s) \in Nat
  BY SubSeqProperties
<1>2. DOMAIN p = 1..n /\ 1..n \subseteq DOMAIN s
  BY <1>1, LenProperties
<1>3. Distinct(p) /\ Within(p, s)
  BY <1>1, <1>2 DEF Distinct, Within
<1>4. s = p \o SubSeq(s, n + 1, Len(s))
  <2>1. 1 \in 1..(Len(s) + 1) /\ n \in (1 - 1)..Len(s) /\ Len(s) \in n..Len(s)
    BY <1>1
  <2>q. QED
    BY <2>1, ConcatAdjacentSubSeq, SubSeqFull
<1>5. /\ Bytes(s) = Bytes(p) + Bytes(SubSeq(s, n + 1, Len(s)))
      /\ Bytes(p) \in Nat /\ Bytes(SubSeq(s, n + 1, Len(s))) \in Nat
  BY <1>1, <1>4, BytesConcat
<1>q. QED
  BY <1>1, <1>3, <1>5

\* addLocked keeps the limits, the tiles once each and the count of the bytes: the
\* new entry alone always fits, so there is a longest part that does.
LEMMA AddKeeps ==
    ASSUME CacheKept, NEW e \in Entry, Add(e)
    PROVE  /\ CacheKept'
           /\ WithinOr(recent', e, recent)
<1>1. /\ recent \in Seq(Entry) /\ Distinct(recent)
      /\ usedBytes = Bytes(recent) /\ Len(recent) <= MaximumEntries /\ usedBytes <= MaximumBytes
  BY DEF CacheKept, CacheWithinLimits, Distinct
<1>2. CASE e.size > MaximumBytes
  <2>1. recent' = recent /\ usedBytes' = usedBytes
    BY <1>2 DEF Add
  <2>2. CacheKept'
    BY <1>1, <2>1 DEF CacheKept, CacheWithinLimits, Distinct
  <2>q. QED
    BY <2>1, <2>2 DEF WithinOr
<1>3. CASE ~ (e.size > MaximumBytes)
  <2> DEFINE w == Without(e.tile)
             all == <<e>> \o w
             used == e.size + IF Cached(e.tile) THEN usedBytes - EntryOf(e.tile).size ELSE usedBytes
             rest(n) == Bytes(SubSeq(all, n + 1, Len(all)))
             fits(n) == n <= MaximumEntries /\ used - rest(n) <= MaximumBytes
             good(n) == /\ fits(n)
                        /\ \A m \in (n + 1)..Len(all) :
                              m > MaximumEntries \/ used - rest(m) > MaximumBytes
             kept == CHOOSE n \in 0..Len(all) : good(n)
  <2>1. recent' = SubSeq(all, 1, kept) /\ usedBytes' = used - rest(kept)
    BY <1>3 DEF Add
  <2>2. /\ w \in Seq(Entry) /\ Distinct(w) /\ Within(w, recent) /\ Lacks(w, e.tile)
        /\ Cached(e.tile) => /\ EntryOf(e.tile) \in Entry
                             /\ Bytes(recent) = Bytes(w) + EntryOf(e.tile).size
        /\ ~ Cached(e.tile) => w = recent
    BY <1>1, WithoutFacts
  <2> HIDE DEF w
  <2>3. /\ all \in Seq(Entry) /\ Len(all) = Len(w) + 1 /\ Distinct(all)
        /\ Bytes(all) = e.size + Bytes(w) /\ Bytes(w) \in Nat /\ SubSeq(all, 1, 1) = <<e>>
        /\ WithinOr(all, e, w)
    <3>1. all = <<e>> \o w
      OBVIOUS
    <3> HIDE DEF all
    <3>q. QED
      BY <3>1, <2>2, PushFacts
  <2>4. used = Bytes(all) /\ e.size \in Nat /\ used \in Nat /\ Len(all) \in Nat /\ 1 \in 0..Len(all)
    <3>1. \A x \in Entry : x.size \in Nat
      BY LimitsAssumption DEF Entry
    <3>2. Len(w) \in Nat
      BY <2>2
    <3>3. CASE Cached(e.tile)
      BY <1>1, <2>2, <2>3, <3>1, <3>2, <3>3
    <3>4. CASE ~ Cached(e.tile)
      BY <1>1, <2>2, <2>3, <3>1, <3>2, <3>4
    <3>q. QED
      BY <3>3, <3>4
  <2> HIDE DEF all, used
  <2>5. \A n \in 0..Len(all) :
           /\ SubSeq(all, 1, n) \in Seq(Entry) /\ Len(SubSeq(all, 1, n)) = n
           /\ Distinct(SubSeq(all, 1, n)) /\ Within(SubSeq(all, 1, n), all)
           /\ Bytes(SubSeq(all, 1, n)) = used - rest(n) /\ used - rest(n) \in Nat
    BY <2>3, <2>4, PrefixFacts
  <2>6. Bytes(SubSeq(all, 1, 1)) = e.size
    BY <2>3, BytesOne
  <2> HIDE DEF rest
  <2>7. fits(1)
    BY <1>3, <2>4, <2>5, <2>6, LimitsAssumption
  <2>8. \E n \in 0..Len(all) : fits(n) /\ \A m \in (n + 1)..Len(all) : ~ fits(m)
    <3> DEFINE N == {k \in 0..Len(all) : fits(Len(all) - k)}
    <3> HIDE DEF fits
    <3>1. Len(all) - 1 \in N /\ N \subseteq Nat
      BY <2>4, <2>7
    <3>2. PICK k \in N : \A j \in N : k <= j
      <4> HIDE DEF N
      <4>q. QED
        BY <3>1, LeastNumber
    <3>3. Len(all) - k \in 0..Len(all) /\ fits(Len(all) - k)
      BY <2>4, <3>2
    <3>4. ASSUME NEW m \in (Len(all) - k + 1)..Len(all), fits(m)
          PROVE  FALSE
      <4>1. Len(all) - m \in N /\ Len(all) - m < k
        BY <2>4, <3>2, <3>4
      <4>q. QED
        BY <3>2, <4>1
    <3>q. QED
      BY <3>3, <3>4
  <2>9. kept \in 0..Len(all) /\ fits(kept)
    <3>1. \A m \in 0..Len(all) : ~ fits(m) => m > MaximumEntries \/ used - rest(m) > MaximumBytes
      <4>1. \A m \in 0..Len(all) : used - rest(m) \in Int
        BY <2>5
      <4>q. QED
        BY <4>1, LimitsAssumption
    <3>2. \E n \in 0..Len(all) : good(n)
      BY <2>4, <2>8, <3>1
    <3>q. QED
      BY <3>2
  <2> HIDE DEF kept
  <2>10. /\ recent' \in Seq(Entry) /\ Len(recent') <= MaximumEntries
         /\ usedBytes' = Bytes(recent') /\ usedBytes' <= MaximumBytes
         /\ Distinct(recent')
    BY <2>1, <2>5, <2>9
  <2>11. WithinOr(recent', e, recent)
    BY <2>1, <2>2, <2>3, <2>5, <2>9 DEF Within, WithinOr
  <2>q. QED
    BY <2>10, <2>11 DEF CacheKept, CacheWithinLimits, Distinct
<1>q. QED
  BY <1>2, <1>3

-----------------------------------------------------------------------------
(* The cache, through the steps of the goroutines.                         *)

LEMMA DropKeeps ==
    ASSUME CacheKept, NEW t, Drop(t)
    PROVE  CacheKept' /\ Within(recent', recent) /\ Lacks(recent', t)
<1>1. /\ recent \in Seq(Entry) /\ Distinct(recent) /\ Len(recent) \in Nat
      /\ usedBytes = Bytes(recent) /\ Len(recent) <= MaximumEntries /\ usedBytes <= MaximumBytes
  BY DEF CacheKept, CacheWithinLimits, Distinct
<1>2. /\ Without(t) \in Seq(Entry) /\ Len(Without(t)) <= Len(recent)
      /\ Distinct(Without(t)) /\ Within(Without(t), recent) /\ Lacks(Without(t), t)
      /\ Cached(t) => /\ EntryOf(t) \in Entry
                      /\ Bytes(recent) = Bytes(Without(t)) + EntryOf(t).size
      /\ ~ Cached(t) => Without(t) = recent
  BY <1>1, WithoutFacts
<1>3. recent' = Without(t) /\ usedBytes' = IF Cached(t) THEN usedBytes - EntryOf(t).size ELSE usedBytes
  BY DEF Drop
<1>4. /\ Bytes(Without(t)) \in Nat /\ Bytes(recent) \in Nat /\ Len(Without(t)) \in Nat
      /\ \A e \in Entry : e.size \in Nat
  <2>1. \A e \in Entry : e.size \in Nat
    BY LimitsAssumption DEF Entry
  <2>q. QED
    BY <1>1, <1>2, <2>1, BytesConcat, LenProperties
<1>5. usedBytes' = Bytes(recent') /\ usedBytes' <= MaximumBytes /\ Len(recent') <= MaximumEntries
  <2>1. CASE Cached(t)
    BY <1>1, <1>2, <1>3, <1>4, <2>1, LimitsAssumption
  <2>2. CASE ~ Cached(t)
    BY <1>1, <1>2, <1>3, <2>2
  <2>q. QED
    BY <2>1, <2>2
<1>q. QED
  BY <1>2, <1>3, <1>5 DEF CacheKept, CacheWithinLimits, Distinct

LEMMA FrontKeeps ==
    ASSUME CacheKept, NEW t, Cached(t),
           recent' = <<EntryOf(t)>> \o Without(t), usedBytes' = usedBytes
    PROVE  CacheKept' /\ Within(recent', recent)
<1>1. /\ recent \in Seq(Entry) /\ Distinct(recent) /\ Len(recent) \in Nat
      /\ usedBytes = Bytes(recent) /\ Len(recent) <= MaximumEntries /\ usedBytes <= MaximumBytes
  BY DEF CacheKept, CacheWithinLimits, Distinct
<1>2. /\ Without(t) \in Seq(Entry) /\ Distinct(Without(t)) /\ Within(Without(t), recent)
      /\ EntryOf(t) \in Entry /\ EntryOf(t).tile = t /\ Lacks(Without(t), t)
      /\ Within(<<EntryOf(t)>>, recent)
      /\ Bytes(recent) = Bytes(Without(t)) + EntryOf(t).size
      /\ Len(Without(t)) = Len(recent) - 1
  BY <1>1, WithoutFacts
<1>3. /\ recent' \in Seq(Entry) /\ Len(recent') = Len(Without(t)) + 1 /\ Distinct(recent')
      /\ Bytes(recent') = EntryOf(t).size + Bytes(Without(t)) /\ Bytes(Without(t)) \in Nat
      /\ WithinOr(recent', EntryOf(t), Without(t))
  BY <1>2, PushFacts
<1>4. EntryOf(t).size \in Nat
  BY <1>2, LimitsAssumption DEF Entry
<1>5. CacheKept'
  <2>1. Len(recent') <= MaximumEntries /\ usedBytes' = Bytes(recent') /\ usedBytes' <= MaximumBytes
    BY <1>1, <1>2, <1>3, <1>4
  <2>q. QED
    BY <1>3, <2>1 DEF CacheKept, CacheWithinLimits, Distinct
<1>6. \E i \in DOMAIN recent : recent[i] = EntryOf(t)
  <2>1. 1 \in DOMAIN <<EntryOf(t)>> /\ <<EntryOf(t)>>[1] = EntryOf(t)
    OBVIOUS
  <2>q. QED
    BY <1>2, <2>1 DEF Within
<1>7. Within(recent', recent)
  <2>1. \A j \in DOMAIN Without(t) : \E k \in DOMAIN recent : Without(t)[j] = recent[k]
    BY <1>2 DEF Within
  <2>2. \A i \in DOMAIN recent' :
           recent'[i] = EntryOf(t) \/ \E j \in DOMAIN Without(t) : recent'[i] = Without(t)[j]
    BY <1>3 DEF WithinOr
  <2> SUFFICES ASSUME NEW i \in DOMAIN recent'
               PROVE  \E k \in DOMAIN recent : recent'[i] = recent[k]
    BY DEF Within
  <2>q. QED
    BY <1>6, <2>1, <2>2
<1>q. QED
  BY <1>5, <1>7

\* What a download returned is an entry or an error, and not both.
LEMMA Results ==
    /\ \A e \in Entry : ~ Failed(e)
    /\ \A r \in [error: Errors \cup {"none"}] : Failed(r)
    /\ \A code : Failed(Error(code))
<1>1. \A e \in Entry : DOMAIN e = {"tile", "size", "fetchedAt", "expires", "valid"}
  BY DEF Entry
<1>2. \A r \in [error: Errors \cup {"none"}] : DOMAIN r = {"error"}
  OBVIOUS
<1>3. \A code : DOMAIN [error |-> code] = {"error"}
  OBVIOUS
<1>q. QED
  BY <1>1, <1>2, <1>3 DEF Failed, Error

\* The cache keeps its limits in every step, and gains no entry but the one that
\* a goroutine publishes.
LEMMA CacheSteps ==
    ASSUME IInv, NEW g \in Active, Step(g)
    PROVE  /\ CacheKept'
           /\ \/ Within(recent', recent)
              \/ pc[g] = "fetched" /\ ~ Failed(got[g]) /\ WithinOr(recent', got[g], recent)
<1>1. CacheKept /\ got[g] \in Entry \cup [error: Errors \cup {"none"}]
  BY DEF IInv, TypeOK, Active
<1>2. ASSUME UNCHANGED <<recent, usedBytes>>
      PROVE  CacheKept' /\ Within(recent', recent)
  BY <1>1, <1>2 DEF CacheKept, CacheWithinLimits, Within
<1>3. CASE Ask(g) \/ TakeSlot(g) \/ GateOpens(g) \/ GateCancelled(g) \/ Fetch(g) \/ Told(g)
           \/ WaitCancelled(g) \/ LoadFailed(g)
  BY <1>2, <1>3 DEF Ask, TakeSlot, GateOpens, GateCancelled, Fetch, Told, WaitCancelled, LoadFailed, cache
<1>4. CASE Hit(g)
  BY <1>1, <1>4, FrontKeeps DEF Hit, Usable
<1>5. CASE Join(g) \/ Lead(g)
  BY <1>1, <1>5, DropKeeps DEF Join, Lead
<1>6. CASE Publish(g)
  <2>1. CASE Failed(got[g])
    BY <1>2, <1>6, <2>1 DEF Publish
  <2>2. CASE ~ Failed(got[g])
    <3>1. got[g] \in Entry /\ Add(got[g]) /\ pc[g] = "fetched"
      BY <1>1, <1>6, <2>2, Results DEF Publish
    <3>q. QED
      BY <1>1, <2>2, <3>1, AddKeeps
  <2>q. QED
    BY <2>1, <2>2
<1>7. CASE Decode(g)
  BY <1>1, <1>2, <1>7, DropKeeps DEF Decode
<1>q. QED
  BY <1>3, <1>4, <1>5, <1>6, <1>7 DEF Step

LEMMA CacheOtherSteps ==
    ASSUME IInv, UNCHANGED cache
    PROVE  CacheKept'
BY DEF IInv, CacheKept, CacheWithinLimits, cache

-----------------------------------------------------------------------------
(* The goroutines, their downloads and what they have.                     *)

LEMMA ActiveStays == wanted' = wanted => Active' = Active
BY DEF Active, Goroutines

\* The steps of a goroutine keep the types.
LEMMA TypeSteps ==
    ASSUME IInv, NEW g \in Active, Step(g), CacheKept'
    PROVE  TypeOK'
<1> USE DEF TypeOK
<1>1. /\ g \in Goroutines /\ g[1] \in Snapshots /\ TypeOK /\ wanted' = wanted /\ Active' = Active
  BY ActiveStays DEF IInv, Active, Goroutines, Step, Ask, Hit, Join, Lead, TakeSlot, GateOpens,
     GateCancelled, Fetch, Publish, Told, WaitCancelled, Decode, LoadFailed
<1>2. recent' \in Seq(Entry) /\ usedBytes' \in Nat
  BY BytesConcat DEF CacheKept, CacheWithinLimits
<1>3. \A code \in Errors \cup {"none"} : Error(code) \in [error: Errors \cup {"none"}]
  BY DEF Error
<1>4. CASE Ask(g)
  BY <1>1, <1>2, <1>4 DEF Ask, Notes, Goto, cache, group
<1>5. CASE Hit(g)
  <2>1. EntryOf(g[2]) \in Entry
    BY <1>5, WithoutFacts DEF Hit, Usable, IInv, CacheKept, CacheWithinLimits, Distinct
  <2>q. QED
    BY <1>1, <1>2, <1>5, <2>1 DEF Hit, Notes, Goto, Returns, group
<1>6. CASE Join(g) \/ Lead(g)
  <2>1. Active \subseteq Goroutines
    BY DEF Active
  <2>2. CASE Join(g)
    BY <1>1, <1>2, <2>1, <2>2 DEF Join, Notes, Goto, group
  <2>3. CASE Lead(g)
    BY <1>1, <1>2, <2>1, <2>3 DEF Lead, Notes, Goto, group
  <2>q. QED
    BY <1>6, <2>2, <2>3
<1>7. CASE TakeSlot(g)
  BY <1>1, <1>2, <1>7, LimitsAssumption DEF TakeSlot, Notes, Goto, cache, group, later
<1>8. CASE GateOpens(g)
  BY <1>1, <1>2, <1>8 DEF GateOpens, Notes, Goto, cache, group
<1>9. CASE GateCancelled(g)
  BY <1>1, <1>2, <1>3, <1>9 DEF GateCancelled, Notes, Goto, Returns, cache, group, Errors
<1>10. CASE Fetch(g)
  <2>1. got' \in [Goroutines -> Entry \cup [error: Errors \cup {"none"}]]
    <3>1. CASE \E size \in Sizes, valid \in BOOLEAN, delay \in Expiries :
             Returns(g, [tile |-> g[2], size |-> size, fetchedAt |-> clock,
                         expires |-> IF delay = 0 THEN 0 ELSE clock + delay, valid |-> valid])
      <4>1. PICK size \in Sizes, valid \in BOOLEAN, delay \in Expiries :
              Returns(g, [tile |-> g[2], size |-> size, fetchedAt |-> clock,
                          expires |-> IF delay = 0 THEN 0 ELSE clock + delay, valid |-> valid])
        BY <3>1
      <4>2. (IF delay = 0 THEN 0 ELSE clock + delay) \in Nat /\ g[2] \in Tiles
        BY <1>1, LimitsAssumption DEF Goroutines
      <4>3. [tile |-> g[2], size |-> size, fetchedAt |-> clock,
             expires |-> IF delay = 0 THEN 0 ELSE clock + delay, valid |-> valid] \in Entry
        BY <1>1, <4>2 DEF Entry
      <4>q. QED
        BY <1>1, <4>1, <4>3 DEF Returns
    <3>2. ASSUME NEW code \in Errors, Returns(g, Error(code))
          PROVE  got' \in [Goroutines -> Entry \cup [error: Errors \cup {"none"}]]
      <4>1. Error(code) \in [error: Errors \cup {"none"}]
        BY <1>3
      <4>q. QED
        BY <1>1, <3>2, <4>1 DEF Returns
    <3>q. QED
      BY <1>10, <3>1, <3>2 DEF Fetch, Errors
  <2>q. QED
    BY <1>1, <1>2, <1>10, <2>1 DEF Fetch, Goto, cache, group
<1>11. CASE Publish(g)
  BY <1>1, <1>2, <1>11 DEF Publish, Goto, group
<1>12. CASE Told(g)
  BY <1>1, <1>2, <1>12 DEF Told, Goto, Returns, cache, group
<1>13. CASE WaitCancelled(g)
  BY <1>1, <1>2, <1>3, <1>13 DEF WaitCancelled, Goto, Returns, cache, group, Errors
<1>14. CASE Decode(g)
  BY <1>1, <1>2, <1>14 DEF Decode, Goto, Fails, group, Errors
<1>15. CASE LoadFailed(g)
  <2>1. got[g].error \in Errors \cup {"none"}
    BY <1>1, <1>15, Results DEF LoadFailed
  <2>q. QED
    BY <1>1, <1>2, <1>15, <2>1 DEF LoadFailed, Goto, Fails, cache, group, Errors
<1>q. QED
  BY <1>4, <1>5, <1>6, <1>7, <1>8, <1>9, <1>10, <1>11, <1>12, <1>13, <1>14, <1>15 DEF Step

\* The other steps keep them too.
LEMMA TypeOtherSteps ==
    ASSUME IInv, (\E s \in Snapshots : End(s) \/ CallerLeaves(s)) \/ Tick \/ UNCHANGED vars
    PROVE  TypeOK'
<1> USE DEF TypeOK
<1>1. TypeOK /\ wanted' = wanted /\ Active' = Active
  BY ActiveStays DEF IInv, End, CallerLeaves, Tick, vars
<1>2. ASSUME NEW s \in Snapshots, End(s)
      PROVE  TypeOK'
  <2>1. outcome'[s] \in {"ok", "canceled", "traffic_unavailable", "traffic_stale"}
    BY <1>1, <1>2 DEF End, MapTrafficError
  <2>q. QED
    BY <1>1, <1>2, <2>1 DEF End, cache
<1>3. ASSUME NEW s \in Snapshots, CallerLeaves(s)
      PROVE  TypeOK'
  BY <1>1, <1>3 DEF CallerLeaves, cache
<1>4. CASE Tick
  BY <1>1, <1>4 DEF Tick, cache, group
<1>5. CASE UNCHANGED vars
  BY <1>1, <1>5 DEF vars, cache, group
<1>q. QED
  BY <1>2, <1>3, <1>4, <1>5

\* The cache lists the downloads that goroutines lead, one for a tile.
LEMMA FlightsSteps ==
    ASSUME IInv, NEW g \in Active, Step(g)
    PROVE  FlightsLed'
<1>1. /\ g \in Goroutines /\ Active \subseteq Goroutines /\ Active' = Active
      /\ pc \in [Goroutines -> {"started", "asked", "queued", "gated", "fetching", "fetched",
                                "waiting", "loaded", "returned"}]
      /\ flights = {h \in Active : pc[h] \in InFlight}
      /\ \A h, k \in flights : h[2] = k[2] => h = k
  BY ActiveStays DEF IInv, TypeOK, FlightsLed, Active, Step, Ask, Hit, Join, Lead, TakeSlot, GateOpens,
     GateCancelled, Fetch, Publish, Told, WaitCancelled, Decode, LoadFailed
<1> DEFINE moved == \E place \in {"asked", "queued", "gated", "fetching", "fetched", "waiting",
                                  "loaded", "returned"} :
                       /\ Goto(g, place) /\ (pc[g] \in InFlight <=> place \in InFlight)
                       /\ flights' = flights
<1>2. ASSUME moved
      PROVE  FlightsLed'
  BY <1>1, <1>2 DEF Goto, FlightsLed, InFlight
<1> HIDE DEF moved
<1>3. CASE Ask(g) \/ TakeSlot(g) \/ GateOpens(g) \/ GateCancelled(g) \/ Fetch(g)
  <2>1. moved
    BY <1>3 DEF moved, Ask, TakeSlot, GateOpens, GateCancelled, Fetch, InFlight, cache
  <2>q. QED
    BY <1>2, <2>1
<1>4. CASE Hit(g) \/ Join(g) \/ Told(g) \/ WaitCancelled(g) \/ Decode(g) \/ LoadFailed(g)
  <2>1. moved
    BY <1>4 DEF moved, Hit, Join, Told, WaitCancelled, Decode, LoadFailed, InFlight, cache
  <2>q. QED
    BY <1>2, <2>1
<1>5. CASE Lead(g)
  <2>1. \A h \in Active : pc'[h] \in InFlight <=> h \in flights \/ h = g
    BY <1>1, <1>5 DEF Lead, Goto, InFlight
  <2>2. flights' = flights \cup {g} /\ \A l \in flights : l[2] # g[2]
    BY <1>5 DEF Lead
  <2>q. QED
    BY <1>1, <2>1, <2>2 DEF FlightsLed
<1>6. CASE Publish(g)
  <2>1. \A h \in Active : pc'[h] \in InFlight <=> h \in flights /\ h # g
    BY <1>1, <1>6 DEF Publish, Goto, InFlight
  <2>2. flights' = flights \ {g}
    BY <1>6 DEF Publish
  <2>q. QED
    BY <1>1, <2>1, <2>2 DEF FlightsLed
<1>q. QED
  BY <1>3, <1>4, <1>5, <1>6 DEF Step

\* A goroutine has, and waits for, the tile it asked for: a hit, a download and
\* what a leader returned are of that tile.
LEMMA OwnTileSteps ==
    ASSUME IInv, NEW g \in Active, Step(g)
    PROVE  OwnTile'
<1>1. /\ g \in Goroutines /\ OwnTile
      /\ pc \in [Goroutines -> {"started", "asked", "queued", "gated", "fetching", "fetched",
                                "waiting", "loaded", "returned"}]
      /\ got \in [Goroutines -> Entry \cup [error: Errors \cup {"none"}]]
      /\ leader \in [Goroutines -> Goroutines]
      /\ flights \subseteq Goroutines
  BY DEF IInv, TypeOK, Active
<1>2. \A code : Failed(Error(code))
  BY Results
<1>3. CASE Ask(g) \/ Lead(g) \/ TakeSlot(g) \/ GateOpens(g) \/ Publish(g) \/ Decode(g) \/ LoadFailed(g)
  BY <1>1, <1>3 DEF OwnTile, Ask, Lead, TakeSlot, GateOpens, Publish, Decode, LoadFailed, Goto
<1>4. CASE Hit(g)
  <2>1. EntryOf(g[2]).tile = g[2]
    BY <1>4, WithoutFacts DEF Hit, Usable, IInv, CacheKept, CacheWithinLimits, Distinct
  <2>q. QED
    BY <1>1, <1>4, <2>1 DEF OwnTile, Hit, Goto, Returns
<1>5. CASE Join(g)
  BY <1>1, <1>5 DEF OwnTile, Join, Goto
<1>6. CASE GateCancelled(g)
  BY <1>1, <1>2, <1>6 DEF OwnTile, GateCancelled, Goto, Returns
<1>7. CASE Fetch(g)
  <2>1. leader' = leader /\ Goto(g, "fetched")
    BY <1>7 DEF Fetch
  <2>2. \E r : Returns(g, r) /\ (~ Failed(r) => r.tile = g[2])
    <3>1. CASE \E size \in Sizes, valid \in BOOLEAN, delay \in Expiries :
             Returns(g, [tile |-> g[2], size |-> size, fetchedAt |-> clock,
                         expires |-> IF delay = 0 THEN 0 ELSE clock + delay, valid |-> valid])
      BY <3>1
    <3>2. CASE Returns(g, Error("unavailable")) \/ Returns(g, Error("canceled"))
      BY <1>2, <3>2
    <3>q. QED
      BY <1>7, <3>1, <3>2 DEF Fetch
  <2>q. QED
    BY <1>1, <2>1, <2>2 DEF OwnTile, Goto, Returns
<1>8. CASE Told(g)
  BY <1>1, <1>8 DEF OwnTile, Told, Goto, Returns
<1>9. CASE WaitCancelled(g)
  BY <1>1, <1>2, <1>9 DEF OwnTile, WaitCancelled, Goto, Returns
<1>q. QED
  BY <1>3, <1>4, <1>5, <1>6, <1>7, <1>8, <1>9 DEF Step

\* An invalid entry is in the hands of a goroutine that has loaded it: the one
\* that published it, until a goroutine that has it drops the tile.
LEMMA InvalidSteps ==
    ASSUME IInv, NEW g \in Active, Step(g), TypeOK', CacheKept'
    PROVE  InvalidTilesLeave'
<1>1. /\ g \in Goroutines /\ Active \subseteq Goroutines /\ Active' = Active
      /\ pc \in [Goroutines -> {"started", "asked", "queued", "gated", "fetching", "fetched",
                                "waiting", "loaded", "returned"}]
      /\ got \in [Goroutines -> Entry \cup [error: Errors \cup {"none"}]]
      /\ InvalidTilesLeave
      /\ \A i \in DOMAIN recent : recent[i] \in Entry
  BY ActiveStays, LenProperties
  DEF IInv, TypeOK, Active, CacheKept, Step, Ask, Hit, Join, Lead, TakeSlot, GateOpens,
      GateCancelled, Fetch, Publish, Told, WaitCancelled, Decode, LoadFailed
<1> DEFINE held(e) == \E h \in Active : pc'[h] = "loaded" /\ got'[h] = e
<1> SUFFICES ASSUME NEW i \in DOMAIN recent', ~ recent'[i].valid
             PROVE  held(recent'[i])
  BY <1>1 DEF InvalidTilesLeave
<1>2. \/ Within(recent', recent)
      \/ pc[g] = "fetched" /\ ~ Failed(got[g]) /\ WithinOr(recent', got[g], recent)
  BY CacheSteps
<1>3. ASSUME NEW h \in Active, h # g, pc[h] = "loaded"
      PROVE  pc'[h] = "loaded" /\ got'[h] = got[h]
  BY <1>1, <1>3 DEF Step, Ask, Hit, Join, Lead, TakeSlot, GateOpens, GateCancelled, Fetch, Publish,
     Told, WaitCancelled, Decode, LoadFailed, Goto, Returns
<1>4. ASSUME NEW j \in DOMAIN recent, recent'[i] = recent[j]
      PROVE  held(recent'[i])
  <2>1. PICK h \in Active : pc[h] = "loaded" /\ got[h] = recent[j]
    BY <1>1, <1>4 DEF InvalidTilesLeave
  <2>2. CASE h # g
    BY <1>1, <1>3, <1>4, <2>1, <2>2
  <2>3. CASE h = g
    <3>1. ~ Failed(got[g]) /\ ~ got[g].valid /\ got[g].tile = g[2]
      BY <1>1, <1>4, <2>1, <2>3, Results DEF IInv, OwnTile
    <3>2. Decode(g)
      BY <2>1, <2>3, <3>1 DEF Step, Ask, Hit, Join, Lead, TakeSlot, GateOpens, GateCancelled, Fetch,
         Publish, Told, WaitCancelled, LoadFailed
    <3>3. Lacks(recent', g[2])
      BY <3>1, <3>2, DropKeeps DEF Decode, IInv
    <3>q. QED
      BY <1>4, <2>1, <2>3, <3>1, <3>3 DEF Lacks
  <2>q. QED
    BY <2>2, <2>3
<1>5. CASE Within(recent', recent)
  BY <1>4, <1>5 DEF Within
<1>6. CASE pc[g] = "fetched" /\ ~ Failed(got[g]) /\ WithinOr(recent', got[g], recent)
  <2>1. Publish(g)
    BY <1>6 DEF Step, Ask, Hit, Join, Lead, TakeSlot, GateOpens, GateCancelled, Fetch, Told,
       WaitCancelled, Decode, LoadFailed
  <2>2. pc'[g] = "loaded" /\ got'[g] = got[g]
    BY <1>1, <2>1 DEF Publish, Goto
  <2>3. CASE recent'[i] = got[g]
    BY <1>1, <2>2, <2>3
  <2>4. CASE \E j \in DOMAIN recent : recent'[i] = recent[j]
    BY <1>4, <2>4
  <2>q. QED
    BY <1>6, <2>3, <2>4 DEF WithinOr
<1>q. QED
  BY <1>2, <1>5, <1>6

-----------------------------------------------------------------------------
(* The gate.                                                               *)

LEMMA IntervalsGrow ==
    ASSUME NEW a \in Int, NEW b \in Int, a <= b
    PROVE  /\ a * Interval \in Int /\ a * Interval <= b * Interval
           /\ (a + 1) * Interval = a * Interval + Interval
BY LimitsAssumption

\* A part of the gated goroutines is finite.
LEMMA SlotsCounted ==
    ASSUME IInv
    PROVE  \A instant : /\ IsFiniteSet(SlotsUntil(instant))
                        /\ Cardinality(SlotsUntil(instant)) \in Nat
                        /\ Cardinality(SlotsUntil(instant)) <= Cardinality(Gated)
                        /\ Cardinality(Gated) \in Nat
<1>1. IsFiniteSet(Gated) /\ \A instant : SlotsUntil(instant) \subseteq Gated
  BY DEF IInv, SlotsSpaced, SlotsUntil
<1>q. QED
  BY <1>1, FS_Subset, FS_CardinalityType

\* Nothing about the slots changes: time goes by.
LEMMA SlotsSame ==
    ASSUME IInv, Gated' = Gated, \A g \in Gated : time'[g] = time[g],
           requested' = requested, next' = next, clock' \in {clock, clock + 1}
    PROVE  SlotsSpaced'
<1>1. \A instant : SlotsUntil(instant)' = SlotsUntil(instant)
  BY DEF SlotsUntil
<1>2. \A instant \in Nat : instant >= clock' => instant >= clock
  BY DEF IInv, TypeOK
<1>q. QED
  BY <1>1, <1>2 DEF IInv, SlotsSpaced

\* A slot leaves the gate, for a download or with its goroutine.
LEMMA SlotLeaves ==
    ASSUME IInv, NEW g \in Gated, Gated' = Gated \ {g}, \A h \in Gated \ {g} : time'[h] = time[h],
           next' = next, clock' = clock,
           \/ requested' = requested
           \/ requested' = requested + 1 /\ time[g] <= clock
    PROVE  SlotsSpaced'
<1>1. /\ IsFiniteSet(Gated) /\ requested \in Nat /\ clock \in Nat /\ next \in Nat
      /\ time \in [Goroutines -> Nat] /\ g \in Goroutines /\ SlotsSpaced
  BY DEF IInv, TypeOK, SlotsSpaced, Gated
<1>2. IsFiniteSet(Gated') /\ Cardinality(Gated') = Cardinality(Gated) - 1 /\ Cardinality(Gated) \in Nat
  BY <1>1, FS_RemoveElement, FS_CardinalityType
<1>3. /\ next # 0 /\ (requested + Cardinality(Gated)) * Interval < next
      /\ requested' + Cardinality(Gated') <= requested + Cardinality(Gated)
      /\ requested' \in Nat /\ Cardinality(Gated') \in Int
  BY <1>1, <1>2 DEF SlotsSpaced
<1>4. (requested' + Cardinality(Gated')) * Interval < next
  BY <1>1, <1>2, <1>3, IntervalsGrow
<1>5. ASSUME NEW instant \in Nat, instant >= clock
      PROVE  (requested' + Cardinality(SlotsUntil(instant)') - 1) * Interval < instant
  <2> DEFINE before == SlotsUntil(instant)
             after == SlotsUntil(instant)'
  <2>1. /\ IsFiniteSet(before) /\ Cardinality(before) \in Nat
        /\ (requested + Cardinality(before) - 1) * Interval < instant
    BY <1>1, <1>5, SlotsCounted DEF SlotsSpaced
  <2>2. after = before \ {g}
    BY DEF SlotsUntil
  <2>3. Cardinality(after) = IF g \in before THEN Cardinality(before) - 1 ELSE Cardinality(before)
    BY <2>1, <2>2, FS_RemoveElement
  <2>4. time[g] <= clock => g \in before
    BY <1>1, <1>5 DEF SlotsUntil
  <2> HIDE DEF before, after
  <2>5. /\ requested' + Cardinality(after) - 1 <= requested + Cardinality(before) - 1
        /\ requested' + Cardinality(after) - 1 \in Int /\ requested + Cardinality(before) - 1 \in Int
    BY <1>1, <1>3, <2>1, <2>3, <2>4
  <2>6. (requested' + Cardinality(after) - 1) * Interval < instant
    <3> DEFINE a == requested' + Cardinality(after) - 1
               b == requested + Cardinality(before) - 1
    <3>1. a * Interval \in Int /\ a * Interval <= b * Interval /\ b * Interval \in Int
      BY <2>5, IntervalsGrow
    <3> HIDE DEF a, b
    <3>2. b * Interval < instant
      BY <2>1 DEF b
    <3>q. QED
      BY <3>1, <3>2 DEF a
  <2>q. QED
    BY <2>6 DEF after
<1>6. \A h \in Gated' : time'[h] < next'
  BY <1>1 DEF SlotsSpaced
<1>q. QED
  BY <1>2, <1>3, <1>4, <1>5, <1>6 DEF SlotsSpaced

\* A slot is taken, an interval after the last one or now.
LEMMA SlotTaken ==
    ASSUME IInv, NEW g \in Goroutines, TakeSlot(g)
    PROVE  SlotsSpaced'
<1> DEFINE slot == later(clock, next)
           taken == requested + Cardinality(Gated)
<1>1. /\ IsFiniteSet(Gated) /\ requested \in Nat /\ clock \in Nat /\ clock > 0 /\ next \in Nat
      /\ time \in [Goroutines -> Nat] /\ SlotsSpaced /\ Interval \in Nat /\ Interval > 0
      /\ Cardinality(Gated) \in Nat
  BY FS_CardinalityType, LimitsAssumption DEF IInv, TypeOK, SlotsSpaced
<1>2. /\ Gated' = Gated \cup {g} /\ g \notin Gated
      /\ time'[g] = IF next <= clock THEN 0 ELSE next
      /\ \A h \in Gated : time'[h] = time[h]
      /\ next' = slot + Interval /\ clock' = clock /\ requested' = requested
  BY <1>1 DEF TakeSlot, Goto, Notes, Gated, IInv, TypeOK
<1>3. IsFiniteSet(Gated') /\ Cardinality(Gated') = Cardinality(Gated) + 1
  BY <1>1, <1>2, FS_AddElement
<1>4. slot \in Nat /\ slot >= clock /\ slot >= next /\ slot > 0
  BY <1>1 DEF later
<1>5. taken \in Nat /\ taken * Interval \in Int /\ taken * Interval < slot
  <2>1. taken \in Nat /\ taken * Interval \in Int
    BY <1>1
  <2>2. CASE next = 0
    <3>1. Gated = {} /\ requested = 0
      BY <1>1, <2>2 DEF SlotsSpaced
    <3>2. taken = 0
      BY <3>1, FS_EmptySet
    <3>q. QED
      BY <1>1, <1>4, <2>1, <3>2
  <2>3. CASE next # 0
    <3>1. taken * Interval < next
      BY <1>1, <2>3 DEF SlotsSpaced
    <3>q. QED
      BY <1>1, <1>4, <2>1, <3>1
  <2>q. QED
    BY <2>2, <2>3
<1>6. next' # 0 /\ (requested' + Cardinality(Gated')) * Interval < next'
  <2>1. requested' + Cardinality(Gated') = taken + 1
    BY <1>1, <1>2, <1>3
  <2>2. (taken + 1) * Interval = taken * Interval + Interval
    BY <1>5, IntervalsGrow
  <2> HIDE DEF slot, taken
  <2>q. QED
    BY <1>1, <1>2, <1>4, <1>5, <2>1, <2>2
<1>7. \A h \in Gated' : time'[h] < next'
  BY <1>1, <1>2, <1>4 DEF SlotsSpaced, Gated
<1>8. ASSUME NEW instant \in Nat, instant >= clock
      PROVE  (requested' + Cardinality(SlotsUntil(instant)') - 1) * Interval < instant
  <2> DEFINE before == SlotsUntil(instant)
             after == SlotsUntil(instant)'
  <2>1. /\ IsFiniteSet(before) /\ Cardinality(before) \in Nat /\ Cardinality(before) <= Cardinality(Gated)
        /\ (requested + Cardinality(before) - 1) * Interval < instant /\ g \notin before
    BY <1>1, <1>2, <1>8, SlotsCounted DEF SlotsSpaced, SlotsUntil
  <2>2. CASE instant >= slot
    <3>1. after = before \cup {g}
      BY <1>1, <1>2, <1>4, <2>2 DEF SlotsUntil, later
    <3>2. Cardinality(after) = Cardinality(before) + 1
      BY <2>1, <3>1, FS_AddElement
    <3> HIDE DEF before, after
    <3>3. requested' + Cardinality(after) - 1 = requested + Cardinality(before)
      BY <1>1, <1>2, <2>1, <3>2
    <3>4. requested + Cardinality(before) <= taken /\ requested + Cardinality(before) \in Int
      BY <1>1, <2>1
    <3>5. /\ (requested + Cardinality(before)) * Interval <= taken * Interval
          /\ (requested + Cardinality(before)) * Interval \in Int
      BY <1>5, <3>4, IntervalsGrow
    <3> HIDE DEF slot, taken
    <3>6. (requested' + Cardinality(after) - 1) * Interval < instant
      BY <1>4, <1>5, <2>2, <3>3, <3>5
    <3>q. QED
      BY <3>6 DEF after
  <2>3. CASE ~ (instant >= slot)
    <3>1. after = before
      BY <1>1, <1>2, <1>8, <2>3 DEF SlotsUntil, later
    <3>q. QED
      BY <1>2, <2>1, <3>1
  <2>q. QED
    BY <2>2, <2>3
<1>q. QED
  BY <1>2, <1>3, <1>6, <1>7, <1>8 DEF SlotsSpaced

LEMMA SlotsSteps ==
    ASSUME IInv, NEW g \in Active, Step(g)
    PROVE  SlotsSpaced'
<1>1. /\ g \in Goroutines
      /\ pc \in [Goroutines -> {"started", "asked", "queued", "gated", "fetching", "fetched",
                                "waiting", "loaded", "returned"}]
      /\ time \in [Goroutines -> Nat]
  BY DEF IInv, TypeOK, Active
<1>2. CASE Ask(g) \/ Hit(g) \/ Join(g) \/ Lead(g)
  <2>1. /\ Gated' = Gated /\ \A h \in Gated : time'[h] = time[h]
        /\ requested' = requested /\ next' = next /\ clock' = clock
    BY <1>1, <1>2 DEF Ask, Hit, Join, Lead, Goto, Notes, Gated
  <2>q. QED
    BY <2>1, SlotsSame
<1>3. CASE Fetch(g) \/ Publish(g) \/ Told(g) \/ WaitCancelled(g) \/ Decode(g) \/ LoadFailed(g)
  <2>1. /\ Gated' = Gated /\ time' = time
        /\ requested' = requested /\ next' = next /\ clock' = clock
    BY <1>1, <1>3 DEF Fetch, Publish, Told, WaitCancelled, Decode, LoadFailed, Goto, Gated
  <2>q. QED
    BY <2>1, SlotsSame
<1>4. CASE TakeSlot(g)
  BY <1>1, <1>4, SlotTaken
<1>5. CASE GateOpens(g) \/ GateCancelled(g)
  <2>1. /\ g \in Gated /\ Gated' = Gated \ {g} /\ \A h \in Gated \ {g} : time'[h] = time[h]
        /\ next' = next /\ clock' = clock
        /\ \/ requested' = requested
           \/ requested' = requested + 1 /\ time[g] <= clock
    <3>1. g \in Gated /\ Gated' = Gated \ {g} /\ \A h \in Gated \ {g} : time'[h] = time[h]
      BY <1>1, <1>5 DEF GateOpens, GateCancelled, Goto, Notes, Gated
    <3>q. QED
      BY <1>5, <3>1 DEF GateOpens, GateCancelled
  <2>q. QED
    BY <2>1, SlotLeaves
<1>q. QED
  BY <1>2, <1>3, <1>4, <1>5 DEF Step

-----------------------------------------------------------------------------
LEMMA InitInvariant == Init => IInv
<1> SUFFICES ASSUME Init PROVE IInv
  OBVIOUS
<1>1. recent = <<>> /\ recent \in Seq(Entry) /\ DOMAIN recent = {} /\ Len(recent) = 0
  BY DEF Init
<1>2. TypeOK
  <2>1. got \in [Goroutines -> Entry \cup [error: Errors \cup {"none"}]]
    BY DEF Init, Error
  <2>2. leader \in [Goroutines -> Goroutines]
    BY DEF Init
  <2>q. QED
    BY <1>1, <2>1, <2>2 DEF Init, TypeOK
<1>3. CacheKept /\ InvalidTilesLeave
  <2>1. Bytes(recent) = 0
    <3>1. PICK f : Sums(recent, f) /\ Bytes(recent) = f[Len(recent)]
      BY <1>1, BytesSums
    <3>q. QED
      BY <1>1, <3>1 DEF Sums
  <2>q. QED
    BY <1>1, <2>1, LimitsAssumption DEF Init, CacheKept, CacheWithinLimits, InvalidTilesLeave
<1>4. FlightsLed
  BY DEF Init, FlightsLed, InFlight, Active
<1>5. OwnTile
  BY Results DEF Init, OwnTile
<1>6. SlotsSpaced
  <2>1. Gated = {} /\ \A instant : SlotsUntil(instant) = {}
    BY DEF Init, Gated, SlotsUntil
  <2>2. IsFiniteSet({}) /\ Cardinality({}) = 0
    BY FS_EmptySet
  <2>3. \A instant \in Nat : (requested + Cardinality(SlotsUntil(instant)) - 1) * Interval < instant
    <3>1. (0 + 0 - 1) * Interval < 0
      BY LimitsAssumption
    <3>2. \A instant : requested + Cardinality(SlotsUntil(instant)) - 1 = 0 + 0 - 1
      BY <2>1, <2>2 DEF Init
    <3> DEFINE product == (0 + 0 - 1) * Interval
    <3>3. product < 0 /\ product \in Int
      BY <3>1, LimitsAssumption
    <3>4. \A instant : (requested + Cardinality(SlotsUntil(instant)) - 1) * Interval = product
      BY <3>2
    <3> HIDE DEF product
    <3>q. QED
      BY <3>3, <3>4
  <2>q. QED
    BY <2>1, <2>2, <2>3 DEF Init, SlotsSpaced
<1>q. QED
  BY <1>2, <1>3, <1>4, <1>5, <1>6 DEF IInv, Init

LEMMA InvariantKept == IInv /\ [Next]_vars => IInv'
<1> SUFFICES ASSUME IInv, [Next]_vars PROVE IInv'
  OBVIOUS
<1>1. ASSUME NEW g \in Active, Step(g)
      PROVE  IInv'
  <2>1. CacheKept' /\ TypeOK'
    BY <1>1, CacheSteps, TypeSteps
  <2>2. clock' > 0
    BY <1>1 DEF IInv, Step, Ask, Hit, Join, Lead, TakeSlot, GateOpens, GateCancelled, Fetch, Publish,
       Told, WaitCancelled, Decode, LoadFailed
  <2>q. QED
    BY <1>1, <2>1, <2>2, FlightsSteps, OwnTileSteps, InvalidSteps, SlotsSteps DEF IInv
<1>2. CASE (\E s \in Snapshots : End(s) \/ CallerLeaves(s)) \/ Tick \/ UNCHANGED vars
  <2>1. /\ UNCHANGED <<wanted, recent, usedBytes, flights, next, pc, time, leader, got, requested>>
        /\ clock' \in {clock, clock + 1}
    BY <1>2 DEF End, CallerLeaves, Tick, vars, cache
  <2>2. TypeOK'
    BY <1>2, TypeOtherSteps
  <2>3. CacheKept' /\ Active' = Active
    BY <2>1, CacheOtherSteps, ActiveStays DEF cache
  <2>4. FlightsLed' /\ OwnTile' /\ InvalidTilesLeave'
    BY <2>1, <2>3 DEF IInv, FlightsLed, OwnTile, InvalidTilesLeave
  <2>5. SlotsSpaced'
    BY <2>1, SlotsSame DEF Gated
  <2>6. clock' > 0
    BY <2>1 DEF IInv, TypeOK
  <2>q. QED
    BY <2>2, <2>3, <2>4, <2>5, <2>6 DEF IInv
<1>q. QED
  BY <1>1, <1>2 DEF Next

\* The downloads, the list of the cache, its bytes and the slots of the gate, in
\* every state.
THEOREM Invariance == Spec => []IInv
BY InitInvariant, InvariantKept, PTL DEF Spec

\* A tile is downloaded once at a time.
THEOREM DownloadsAreShared == Spec => []SingleFlight
<1>1. IInv => SingleFlight
  BY DEF IInv, FlightsLed, InFlight, SingleFlight
<1>q. QED
  BY <1>1, Invariance, PTL

\* The cache stays within its entries and its bytes, has each tile once, and
\* counts the bytes it keeps.
THEOREM CacheStaysWithinLimits == Spec => []CacheWithinLimits
<1>1. IInv => CacheWithinLimits
  BY DEF IInv, CacheKept
<1>q. QED
  BY <1>1, Invariance, PTL

\* An entry that cannot be decoded is in the hands of a goroutine that drops it.
THEOREM InvalidTilesAreDropped == Spec => []InvalidTilesLeave
<1>1. IInv => InvalidTilesLeave
  BY DEF IInv
<1>q. QED
  BY <1>1, Invariance, PTL

\* The downloads that have begun are no more than the intervals that have.
THEOREM DownloadsAreSpaced == Spec => []RateLimited
<1>1. IInv => RateLimited
  <2> SUFFICES ASSUME IInv PROVE RateLimited
    OBVIOUS
  <2>1. clock \in Nat /\ clock > 0 /\ requested \in Nat /\ clock >= clock
    BY DEF IInv, TypeOK
  <2>2. Cardinality(SlotsUntil(clock)) \in Nat
    BY SlotsCounted
  <2>3. (requested + Cardinality(SlotsUntil(clock)) - 1) * Interval < clock
    BY <2>1 DEF IInv, SlotsSpaced
  <2>4. (requested - 1) * Interval \in Int /\ (requested - 1) * Interval < clock
    <3> DEFINE a == requested - 1
               b == requested + Cardinality(SlotsUntil(clock)) - 1
    <3>1. a \in Int /\ b \in Int /\ a <= b
      BY <2>1, <2>2
    <3>2. a * Interval \in Int /\ b * Interval \in Int /\ a * Interval <= b * Interval
      BY <3>1, IntervalsGrow
    <3>3. b * Interval < clock
      BY <2>3
    <3> HIDE DEF b
    <3>q. QED
      BY <2>1, <3>2, <3>3
  <2>5. requested - 1 <= (clock - 1) \div Interval
    <3> DEFINE q == (clock - 1) \div Interval
    <3>1. q \in Int /\ clock - 1 < (q + 1) * Interval
      BY <2>1, LimitsAssumption
    <3>2. CASE requested - 1 > q
      <4>1. (q + 1) * Interval <= (requested - 1) * Interval /\ (q + 1) * Interval \in Int
        BY <2>1, <3>1, <3>2, IntervalsGrow
      <4> HIDE DEF q
      <4>q. QED
        BY <2>1, <2>4, <3>1, <4>1
    <3>q. QED
      BY <2>1, <3>1, <3>2
  <2>q. QED
    BY <2>1, <2>5, LimitsAssumption DEF RateLimited
<1>q. QED
  BY <1>1, Invariance, PTL
=============================================================================
