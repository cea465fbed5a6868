---------------------------- MODULE TrafficTiles ----------------------------
(***************************************************************************)
(* The TomTom client: traffic snapshots that run at the same time, each    *)
(* with one goroutine per tile, over one cache that shares downloads and   *)
(* keeps the tiles used last, and one gate that spaces the requests.       *)
(*                                                                         *)
(* The first error of a snapshot cancels its other goroutines.  What is    *)
(* shared is not cancelled alone: a goroutine may wait for the download of *)
(* another snapshot.                                                       *)
(***************************************************************************)
EXTENDS Integers, Sequences, FiniteSets, SequencesExt

CONSTANTS
    Snapshots,       \* calls of Client.Snapshot
    Tiles,
    Requests,        \* what they may ask for: functions snapshot -> tiles
    Sizes,           \* bytes of a tile
    MaximumEntries,  \* of the cache
    MaximumBytes,
    TTL,
    Interval,        \* of the gate, one second over the requests per second
    Expiries,        \* delays until Expires of a response, 0 for none
    MaximumTime      \* bound on the clock

ASSUME LimitsAssumption ==
    /\ MaximumEntries \in Nat \ {0} /\ MaximumBytes \in Nat \ {0}
    /\ TTL \in Nat \ {0} /\ Interval \in Nat \ {0}
    /\ Sizes \subseteq Nat \ {0} /\ Expiries \subseteq Nat
ASSUME RequestsAssumption ==
    \A wanted \in Requests : DOMAIN wanted = Snapshots /\ \A s \in Snapshots : wanted[s] # {} /\ wanted[s] \subseteq Tiles

VARIABLES
    clock,
    wanted,      \* the tiles of each snapshot
    recent,      \* the cache, the entry used last at the front
    usedBytes,
    flights,     \* the goroutines that lead a download
    next,        \* rateGate.next
    pc,          \* of the goroutine <<snapshot, tile>>
    time,        \* the time it read before load, then the slot it waits for
    leader,      \* the goroutine whose download it waits for
    got,         \* what its load returned
    cancelled,   \* the snapshots whose group context is done
    callerGone,  \* those whose caller went away
    failure,     \* the first error of each snapshot
    outcome,     \* what the planner makes of each snapshot
    requested    \* history: how many downloads have begun

cache == <<recent, usedBytes, flights>>
group == <<cancelled, callerGone, failure, outcome>>
vars == <<clock, wanted, cache, next, pc, time, leader, got, group, requested>>

Goroutines == Snapshots \X Tiles
Active == {g \in Goroutines : g[2] \in wanted[g[1]]}

Entry == [tile: Tiles, size: Sizes, fetchedAt: Nat, expires: Nat, valid: BOOLEAN]
Errors == {"canceled", "unavailable"}
Error(code) == [error |-> code]
Failed(result) == "error" \in DOMAIN result

later(a, b) == IF a > b THEN a ELSE b

Init ==
    /\ clock = 1
    /\ wanted \in Requests
    /\ recent = <<>> /\ usedBytes = 0 /\ flights = {}
    /\ next = 0
    /\ pc = [g \in Goroutines |-> "started"]
    /\ time = [g \in Goroutines |-> 0]
    /\ leader = [g \in Goroutines |-> g]
    /\ got = [g \in Goroutines |-> Error("none")]
    /\ cancelled = {} /\ callerGone = {}
    /\ failure = [s \in Snapshots |-> "none"]
    /\ outcome = [s \in Snapshots |-> "none"]
    /\ requested = 0

-----------------------------------------------------------------------------
(* The cache, under its mutex. *)

Cached(t) == \E i \in DOMAIN recent : recent[i].tile = t
PositionOf(t) == CHOOSE i \in DOMAIN recent : recent[i].tile = t
EntryOf(t) == recent[PositionOf(t)]
Without(t) == IF Cached(t) THEN RemoveAt(recent, PositionOf(t)) ELSE recent

Bytes(entries) ==
    LET sum[n \in 0..Len(entries)] == IF n = 0 THEN 0 ELSE sum[n - 1] + entries[n].size
    IN  sum[Len(entries)]

Usable(t, now) ==
    /\ Cached(t)
    /\ now - EntryOf(t).fetchedAt <= TTL
    /\ EntryOf(t).expires # 0 => now < EntryOf(t).expires

Drop(t) ==
    /\ recent' = Without(t)
    /\ usedBytes' = IF Cached(t) THEN usedBytes - EntryOf(t).size ELSE usedBytes

\* addLocked.  A tile beyond the limit is not kept; otherwise the entries at the
\* back give way, one by one, until the new one fits.
Add(e) ==
    IF e.size > MaximumBytes
    THEN UNCHANGED <<recent, usedBytes>>
    ELSE LET all == <<e>> \o Without(e.tile)
             used == e.size + IF Cached(e.tile) THEN usedBytes - EntryOf(e.tile).size ELSE usedBytes
             usedBy(n) == used - Bytes(SubSeq(all, n + 1, Len(all)))
             kept == CHOOSE n \in 0..Len(all) :
                        /\ n <= MaximumEntries /\ usedBy(n) <= MaximumBytes
                        /\ \A m \in (n + 1)..Len(all) : m > MaximumEntries \/ usedBy(m) > MaximumBytes
         IN  /\ recent' = SubSeq(all, 1, kept)
             /\ usedBytes' = usedBy(kept)

-----------------------------------------------------------------------------
(* One goroutine of a snapshot. *)

Goto(g, place) == pc' = [pc EXCEPT ![g] = place]
Returns(g, value) == got' = [got EXCEPT ![g] = value]
Notes(g, instant) == time' = [time EXCEPT ![g] = instant]

\* The time is read before the mutex is taken.
Ask(g) ==
    /\ pc[g] = "started"
    /\ Notes(g, clock)
    /\ Goto(g, "asked")
    /\ UNCHANGED <<clock, wanted, cache, next, leader, got, group, requested>>

Hit(g) ==
    /\ pc[g] = "asked"
    /\ Usable(g[2], time[g])
    /\ recent' = <<EntryOf(g[2])>> \o Without(g[2])
    /\ Returns(g, EntryOf(g[2]))
    /\ Notes(g, 0)
    /\ Goto(g, "loaded")
    /\ UNCHANGED <<clock, wanted, usedBytes, flights, next, leader, group, requested>>

\* A tile that is not usable is dropped, and the download under way shared.
Join(g) ==
    /\ pc[g] = "asked"
    /\ ~Usable(g[2], time[g])
    /\ \E l \in flights :
          /\ l[2] = g[2]
          /\ leader' = [leader EXCEPT ![g] = l]
    /\ Drop(g[2])
    /\ Notes(g, 0)
    /\ Goto(g, "waiting")
    /\ UNCHANGED <<clock, wanted, flights, next, got, group, requested>>

\* Mutant: the downloads under way are not looked up.
LeadAlone(g) ==
    /\ pc[g] = "asked"
    /\ ~Usable(g[2], time[g])
    /\ flights' = flights \cup {g}
    /\ Drop(g[2])
    /\ Notes(g, 0)
    /\ Goto(g, "queued")
    /\ UNCHANGED <<clock, wanted, next, leader, got, group, requested>>

Lead(g) ==
    /\ pc[g] = "asked"
    /\ ~Usable(g[2], time[g])
    /\ \A l \in flights : l[2] # g[2]
    /\ flights' = flights \cup {g}
    /\ Drop(g[2])
    /\ Notes(g, 0)
    /\ Goto(g, "queued")
    /\ UNCHANGED <<clock, wanted, next, leader, got, group, requested>>

\* Mutant: the next slot counts from now.
TakeSlotFromNow(g) ==
    /\ pc[g] = "queued"
    /\ Notes(g, IF next <= clock THEN 0 ELSE next)
    /\ next' = clock + Interval
    /\ Goto(g, "gated")
    /\ UNCHANGED <<clock, wanted, cache, leader, got, group, requested>>

\* rateGate.wait: the slot is taken for good, used or not; one that is now, noted
\* as 0, is not waited for.
TakeSlot(g) ==
    /\ pc[g] = "queued"
    /\ Notes(g, IF next <= clock THEN 0 ELSE next)
    /\ next' = later(clock, next) + Interval
    /\ Goto(g, "gated")
    /\ UNCHANGED <<clock, wanted, cache, leader, got, group, requested>>

GateOpens(g) ==
    /\ pc[g] = "gated"
    /\ time[g] <= clock
    /\ requested' = requested + 1
    /\ Notes(g, 0)
    /\ Goto(g, "fetching")
    /\ UNCHANGED <<clock, wanted, cache, next, leader, got, group>>

GateCancelled(g) ==
    /\ pc[g] = "gated"
    /\ time[g] # 0
    /\ g[1] \in cancelled
    /\ Returns(g, Error("canceled"))
    /\ Notes(g, 0)
    /\ Goto(g, "fetched")
    /\ UNCHANGED <<clock, wanted, cache, next, leader, group, requested>>

\* The download ends, by its own timeout at the latest.
Fetch(g) ==
    /\ pc[g] = "fetching"
    /\ \/ \E size \in Sizes, valid \in BOOLEAN, delay \in Expiries :
             Returns(g, [tile |-> g[2], size |-> size, fetchedAt |-> clock,
                         expires |-> IF delay = 0 THEN 0 ELSE clock + delay, valid |-> valid])
       \/ Returns(g, Error("unavailable"))
       \/ g[1] \in cancelled /\ Returns(g, Error("canceled"))
    /\ Goto(g, "fetched")
    /\ UNCHANGED <<clock, wanted, cache, next, time, leader, group, requested>>

\* The entry is kept, and the waiting goroutines are told, whatever the result.
Publish(g) ==
    /\ pc[g] = "fetched"
    /\ IF Failed(got[g]) THEN UNCHANGED <<recent, usedBytes>> ELSE Add(got[g])
    /\ flights' = flights \ {g}
    /\ Goto(g, "loaded")
    /\ UNCHANGED <<clock, wanted, next, time, leader, got, group, requested>>

\* Mutant: only a download that succeeds is announced.
ToldOfSuccess(g) ==
    /\ pc[g] = "waiting"
    /\ pc[leader[g]] \in {"loaded", "returned"}
    /\ ~Failed(got[leader[g]])
    /\ Returns(g, got[leader[g]])
    /\ leader' = [leader EXCEPT ![g] = g]
    /\ Goto(g, "loaded")
    /\ UNCHANGED <<clock, wanted, cache, next, time, group, requested>>

Told(g) ==
    /\ pc[g] = "waiting"
    /\ pc[leader[g]] \in {"loaded", "returned"}
    /\ Returns(g, got[leader[g]])
    /\ leader' = [leader EXCEPT ![g] = g]
    /\ Goto(g, "loaded")
    /\ UNCHANGED <<clock, wanted, cache, next, time, group, requested>>

WaitCancelled(g) ==
    /\ pc[g] = "waiting"
    /\ g[1] \in cancelled
    /\ Returns(g, Error("canceled"))
    /\ leader' = [leader EXCEPT ![g] = g]
    /\ Goto(g, "loaded")
    /\ UNCHANGED <<clock, wanted, cache, next, time, group, requested>>

\* errgroup keeps the first error and cancels the others.
Fails(s, error) ==
    /\ failure' = [failure EXCEPT ![s] = IF @ = "none" THEN error ELSE @]
    /\ cancelled' = cancelled \cup {s}
    /\ UNCHANGED <<callerGone, outcome>>

\* Mutant: bytes are given back though the entry has gone already.
DecodeReleasing(g) ==
    /\ pc[g] = "loaded"
    /\ ~Failed(got[g])
    /\ IF got[g].valid
       THEN UNCHANGED <<recent, usedBytes, group>>
       ELSE /\ recent' = Without(g[2])
            /\ usedBytes' = usedBytes - got[g].size
            /\ Fails(g[1], "unavailable")
    /\ Goto(g, "returned")
    /\ UNCHANGED <<clock, wanted, flights, next, time, leader, got, requested>>

\* Mutant: a cancelled snapshot leaves the cache alone.
DecodeUnlessCancelled(g) ==
    /\ pc[g] = "loaded"
    /\ ~Failed(got[g])
    /\ IF got[g].valid \/ g[1] \in cancelled
       THEN UNCHANGED <<recent, usedBytes, group>>
       ELSE Drop(g[2]) /\ Fails(g[1], "unavailable")
    /\ Goto(g, "returned")
    /\ UNCHANGED <<clock, wanted, flights, next, time, leader, got, requested>>

\* The tile is decoded; one that cannot be leaves the cache.
Decode(g) ==
    /\ pc[g] = "loaded"
    /\ ~Failed(got[g])
    /\ IF got[g].valid
       THEN UNCHANGED <<recent, usedBytes, group>>
       ELSE Drop(g[2]) /\ Fails(g[1], "unavailable")
    /\ Goto(g, "returned")
    /\ UNCHANGED <<clock, wanted, flights, next, time, leader, got, requested>>

LoadFailed(g) ==
    /\ pc[g] = "loaded"
    /\ Failed(got[g])
    /\ Fails(g[1], got[g].error)
    /\ Goto(g, "returned")
    /\ UNCHANGED <<clock, wanted, cache, next, time, leader, got, requested>>

-----------------------------------------------------------------------------
\* mapTrafficError of the planner: a cancellation stays one, whoever's it was.
MapTrafficError(error) == IF error = "canceled" THEN "canceled" ELSE "traffic_unavailable"

\* Wait, then the age of the oldest tile.
End(s) ==
    /\ outcome[s] = "none"
    /\ \A t \in wanted[s] : pc[<<s, t>>] = "returned"
    /\ outcome' = [outcome EXCEPT ![s] =
          IF failure[s] # "none" THEN MapTrafficError(failure[s])
          ELSE IF \E t \in wanted[s] : clock - got[<<s, t>>].fetchedAt > TTL THEN "traffic_stale"
          ELSE "ok"]
    /\ UNCHANGED <<clock, wanted, cache, next, pc, time, leader, got, cancelled, callerGone, failure, requested>>

CallerLeaves(s) ==
    /\ outcome[s] = "none"
    /\ callerGone' = callerGone \cup {s}
    /\ cancelled' = cancelled \cup {s}
    /\ UNCHANGED <<clock, wanted, cache, next, pc, time, leader, got, failure, outcome, requested>>

\* Beyond the bound the clock only goes as far as the slots that were given.
Tick ==
    /\ clock < MaximumTime \/ \E g \in Active : pc[g] = "gated" /\ time[g] > clock
    /\ clock' = clock + 1
    /\ UNCHANGED <<wanted, cache, next, pc, time, leader, got, group, requested>>

Step(g) ==
    \/ Ask(g) \/ Hit(g) \/ Join(g) \/ Lead(g)
    \/ TakeSlot(g) \/ GateOpens(g) \/ GateCancelled(g) \/ Fetch(g) \/ Publish(g)
    \/ Told(g) \/ WaitCancelled(g) \/ Decode(g) \/ LoadFailed(g)

Next ==
    \/ \E g \in Active : Step(g)
    \/ \E s \in Snapshots : End(s) \/ CallerLeaves(s)
    \/ Tick

Spec == Init /\ [][Next]_vars

\* Goroutines run, downloads end by their timeout, and time goes by.
Fairness ==
    /\ \A g \in Goroutines : WF_vars(g \in Active /\ Step(g))
    /\ \A s \in Snapshots : WF_vars(End(s))
    /\ WF_vars(Tick)

FairSpec == Spec /\ Fairness

-----------------------------------------------------------------------------
TypeOK ==
    /\ clock \in Nat /\ next \in Nat /\ usedBytes \in Nat /\ requested \in Nat
    /\ wanted \in Requests
    /\ recent \in Seq(Entry)
    /\ flights \subseteq Active
    /\ pc \in [Goroutines -> {"started", "asked", "queued", "gated", "fetching", "fetched",
                              "waiting", "loaded", "returned"}]
    /\ time \in [Goroutines -> Nat]
    /\ leader \in [Goroutines -> Goroutines]
    /\ got \in [Goroutines -> Entry \cup [error: Errors \cup {"none"}]]
    /\ callerGone \subseteq cancelled /\ cancelled \subseteq Snapshots
    /\ failure \in [Snapshots -> Errors \cup {"none"}]
    /\ outcome \in [Snapshots -> {"none", "ok", "canceled", "traffic_unavailable", "traffic_stale"}]

\* "deduplicacion concurrente": a tile is downloaded once at a time, whatever
\* expires, fails, is cancelled or is invalidated meanwhile.
SingleFlight ==
    \A g, h \in Active :
        /\ pc[g] \in {"queued", "gated", "fetching", "fetched"}
        /\ pc[h] \in {"queued", "gated", "fetching", "fetched"}
        /\ g[2] = h[2]
        => g = h

\* The cache stays within its limits, keeps a tile once, and the bytes it counts
\* are those it keeps, through expiries, invalidations and evictions.
CacheWithinLimits ==
    /\ Len(recent) <= MaximumEntries
    /\ usedBytes = Bytes(recent) /\ usedBytes <= MaximumBytes
    /\ \A i, j \in DOMAIN recent : recent[i].tile = recent[j].tile => i = j

\* A tile that cannot be decoded does not stay: while one is cached, a goroutine
\* that will invalidate it is on its way.
InvalidTilesLeave ==
    \A i \in DOMAIN recent :
        ~recent[i].valid => \E g \in Active : pc[g] = "loaded" /\ got[g] = recent[i]

\* "hasta 10 QPS": the downloads begun so far are no more than the slots there
\* were, however many goroutines wait or are cancelled at the gate.
RateLimited == requested <= (clock - 1) \div Interval + 1

\* A snapshot whose caller is there ends as traffic, stale traffic or a traffic
\* error, for which the planner has a fallback, and never as cancelled: "si el
\* error original es de trafico [...] y la request sigue viva, planifica UNA vez
\* mas sin observaciones de TomTom".
LiveRequestsFallBack ==
    \A s \in Snapshots : outcome[s] = "canceled" => s \in callerGone

\* Every snapshot ends, though it waits for downloads that others lead.
SnapshotsEnd == \A s \in Snapshots : <>(outcome[s] # "none")
=============================================================================
