----------------------------- MODULE FlowWindow -----------------------------
(***************************************************************************)
(* The flow collector (telemetry/flow/collector.rs): datagrams are folded  *)
(* into per-exporter time buckets, closed buckets are published to the     *)
(* database behind a generation barrier, failed publications go back into  *)
(* memory, and every interface of a published bucket is marked on the wake *)
(* queue of FlowWake.  quality.rs decides from the published rows whether  *)
(* a bucket is evidence.                                                   *)
(*                                                                         *)
(* Only the interface dimension is modelled: ports, AS numbers and talkers *)
(* are accumulated, capped and marked the same way, each on its own.       *)
(***************************************************************************)
EXTENDS FlowWake, Integers

CONSTANTS Exporters,     \* (source address, protocol, observation domain)
          Devices, NoDevice,
          Enrolled,      \* exporter -> the device its address resolves to
          Ifaces,        \* ifIndex; Interfaces is Devices \X Ifaces, all enrolled
          Datagrams,     \* exporter -> its datagrams [e, gen, n, seq, uptime, iface]
          SeqMod,        \* 2^32: datagram sequence numbers wrap
          UptimeMod,     \* 2^32: so does the uptime
          Tolerance,     \* UPTIME_REORDER_TOLERANCE_MS
          BucketSecs, MaxOpen, MaxIfaceKeys,
          MaxClock, MaxArrivals, MaxFaults   \* bounds of the instance

ASSUME FlowAssumption == /\ Interfaces = Devices \X Ifaces
                         /\ {SeqMod, UptimeMod, Tolerance, BucketSecs, MaxOpen} \subseteq Nat \ {0}

\* What the collector takes for the datagram after c: the next number, and an
\* uptime that went on or wrapped.
UptimeWraps(from, to) == from > UptimeMod - 1 - Tolerance /\ to < Tolerance

Follows(c, d) == d.seq = (c.seq + 1) % SeqMod /\ (c.uptime <= d.uptime \/ UptimeWraps(c.uptime, d.uptime))

\* Of one exporter: within a generation that is the next datagram (no 2^32 of
\* them are lost at a stretch), and it is one of another generation only if the
\* uptimes of the two do not overlap.
ASSUME DatagramAssumption ==
    \A e \in Exporters :
      /\ \A d \in Datagrams[e] : d.n \in Nat /\ d.seq \in 0 .. SeqMod - 1 /\ d.uptime \in 0 .. UptimeMod - 1
      /\ \A c, d \in Datagrams[e] : Follows(c, d) =>
           IF c.gen = d.gen THEN d.n = c.n + 1
           ELSE \A x, y \in Datagrams[e] : x.gen = c.gen /\ y.gen = d.gen => x.uptime < y.uptime

VARIABLES clock, allow,
          exporters,     \* exporter -> set of at most one Exporter record
          flush,         \* the flush pass: [phase, dev, closed, todo, gen, published]
          barrier,       \* flow_publication_barrier: [gen, ready]
          owner,         \* flow_exporters: exporter -> device_id
          first_seen,    \* flow_exporter_interfaces: <<exporter, device, iface>> -> bucket
          rows,          \* flow_iface_buckets: <<exporter, bucket, iface>> -> [dev, got]
          quality,       \* flow_bucket_quality: <<exporter, bucket>> -> complete
          arrivals, faults,
          arrived,       \* ghost: <<exporter, bucket>> -> how many datagrams reached the exporter
          snapped, late, \* ghosts: end of the last snapshot; buckets opened behind it
          adopted        \* ghost: <<exporter, bucket, device>> put back under another device

flowVars == <<clock, allow, exporters, flush, barrier, owner, first_seen, rows, quality,
              arrivals, faults, arrived, snapped, late, adopted>>
vars == <<flowVars, wakeVars>>

Bucket(t) == (t \div BucketSecs) * BucketSecs
Buckets == {Bucket(t) : t \in 0 .. MaxClock}
HalfRange == SeqMod \div 2
Wrapping(a, b, mod) == (a + mod - b) % mod
Never == -1

Empty == [x \in {} |-> 0]
With(f, x, v) == [y \in DOMAIN f \cup {x} |-> IF y = x THEN v ELSE f[y]]
Without(f, S) == [y \in DOMAIN f \ S |-> f[y]]
At(f, x, default) == IF x \in DOMAIN f THEN f[x] ELSE default

-----------------------------------------------------------------------------
(* Accumulators *)

Accum(base) == [got |-> {}, lost |-> FALSE, base |-> base]
KeysOf(acc) == {d.iface : d \in acc.got}

mark_all_dropped(acc) == [acc EXCEPT !.lost = TRUE]

fold(acc, d) ==
    IF d.iface \in KeysOf(acc) \/ Cardinality(KeysOf(acc)) < MaxIfaceKeys
      THEN [acc EXCEPT !.got = @ \cup {d}]
      ELSE [acc EXCEPT !.lost = TRUE]

Complete(acc) == acc.base /\ ~acc.lost

\* Merging may find no room for an interface; which one is the map's order.
merge_from(acc, other) ==
    LET all == KeysOf(acc) \cup KeysOf(other)
        kept == { K \in SUBSET all : KeysOf(acc) \subseteq K /\ Cardinality(K) <= MaxIfaceKeys
                                     /\ (K = all \/ Cardinality(K) = MaxIfaceKeys) }
    IN { [got |-> acc.got \cup {d \in other.got : d.iface \in K},
          lost |-> acc.lost \/ other.lost \/ K # all,
          base |-> acc.base /\ other.base] : K \in kept }

-----------------------------------------------------------------------------
(* Exporters *)

NewExporter(dev, now) == [dev |-> dev, buckets |-> Empty, seq |-> Never, bucket |-> Never,
                          uptime |-> Never, started |-> now, seen |-> now]

\* Insert-or-get: the exporter with the bucket in it, or unchanged when the
\* backlog is full of newer buckets.
bucket_entry_bounded(ex, ts) ==
    LET opened(b) == With(b, ts, Accum(ts >= ex.started))
        oldest == CHOOSE o \in DOMAIN ex.buckets : \A p \in DOMAIN ex.buckets : o <= p
    IN IF ts \in DOMAIN ex.buckets THEN ex
       ELSE IF Cardinality(DOMAIN ex.buckets) < MaxOpen
              THEN [ex EXCEPT !.buckets = opened(ex.buckets)]
       ELSE IF ts <= oldest THEN ex
       ELSE [ex EXCEPT !.buckets = opened(Without(ex.buckets, {oldest}))]

InBucket(ex, ts, Change(_)) ==
    LET e == bucket_entry_bounded(ex, ts)
    IN IF ts \in DOMAIN e.buckets THEN [e EXCEPT !.buckets[ts] = Change(@)] ELSE e

UptimeWrapped(ex, d) ==
    /\ ex.uptime # Never
    /\ UptimeWraps(ex.uptime, d.uptime)

UptimeRestarted(ex, d) ==
    ex.uptime # Never /\ ~UptimeWrapped(ex, d) /\ ex.uptime - d.uptime > Tolerance

Missing(ex, d) ==
    LET delta == Wrapping(d.seq, ex.seq, SeqMod)
    IN ex.seq # Never /\ delta > 1 /\ delta < HalfRange

Advances(ex, d) ==
    \/ ex.seq = Never
    \/ LET delta == Wrapping(d.seq, ex.seq, SeqMod) IN delta > 0 /\ delta < HalfRange

\* The exporter after it has seen d, and whether datagrams are missing before d.
observe_sequence(ex, d, now, ts) ==
    IF UptimeRestarted(ex, d)
      THEN [missing |-> FALSE,
            ex |-> [ex EXCEPT !.started = now, !.seq = d.seq, !.bucket = ts, !.uptime = d.uptime,
                              !.buckets = [b \in DOMAIN @ |-> IF b = ts THEN [@[b] EXCEPT !.base = FALSE]
                                                                        ELSE @[b]]]]
      ELSE LET regressed == ex.uptime # Never /\ ~UptimeWrapped(ex, d) /\ d.uptime < ex.uptime
               one == IF regressed THEN InBucket(ex, ts, LAMBDA a : [a EXCEPT !.base = FALSE]) ELSE ex
               two == IF Missing(ex, d) /\ ex.bucket # ts /\ ex.bucket \in DOMAIN one.buckets
                        THEN [one EXCEPT !.buckets[ex.bucket] = mark_all_dropped(@)] ELSE one
           IN [missing |-> Missing(ex, d),
               ex |-> IF Advances(ex, d)
                        THEN [two EXCEPT !.seq = d.seq, !.bucket = ts, !.uptime = d.uptime] ELSE two]

\* Mutant: duplicates and late datagrams are folded like any other.
Repeated_None(before, after) == FALSE

\* A valid datagram that neither advanced the watermark nor opened a new
\* generation is a duplicate or late: it is marked, never folded.
Repeated(before, after) ==
    before.seq # Never /\ after.seq = before.seq /\ after.started = before.started

\* A malformed datagram, and one whose data sets have no template, count as
\* seen and lost.
Received(ex, d, decoded, now, ts) ==
    LET seen == [ex EXCEPT !.seen = now]
        obs == observe_sequence(seen, d, now, ts)
        Fold(a) == fold(IF obs.missing THEN mark_all_dropped(a) ELSE a, d)
    IN IF ~decoded \/ Repeated(seen, obs.ex)
         THEN InBucket(obs.ex, ts, mark_all_dropped)
         ELSE InBucket(obs.ex, ts, Fold)

-----------------------------------------------------------------------------
(* Receiving *)

Idle == [phase |-> "idle", dev |-> [e \in Exporters |-> NoDevice],
         closed |-> [e \in Exporters |-> Empty], todo |-> {}, gen |-> 0, published |-> {}]

Init == /\ WakeInit
        /\ clock = 0 /\ arrivals = 0 /\ faults = 0
        /\ allow = [e \in Exporters |-> NoDevice]
        /\ exporters = [e \in Exporters |-> {}]
        /\ flush = Idle
        /\ barrier = [gen |-> 0, ready |-> TRUE]
        /\ owner = [e \in Exporters |-> NoDevice]
        /\ first_seen = Empty /\ rows = Empty /\ quality = Empty
        /\ arrived = Empty /\ snapped = 0 /\ late = {} /\ adopted = {}

\* What an exporter's state held before it is dropped must not look whole
\* afterwards.  The clock has seconds: what arrived in the very second in which
\* the new state starts cannot be told from its own.
Forgotten(e, now) == [k \in {j \in DOMAIN arrived : ~(j[1] = e /\ j[2] = now)} |-> arrived[k]]

\* One of the failures the instance allows
Fault == faults < MaxFaults /\ faults' = faults + 1

\* recv_loop reads the clock, then waits for the lock: the second it works
\* with may have passed (lag).  A datagram of an unknown source leaves no trace.
Receive(e, d, decoded, lag) ==
    LET now == clock - lag
        ts == Bucket(now)
        kept == {x \in exporters[e] : x.dev = allow[e]}
        fresh == kept = {}
        before == IF fresh THEN NewExporter(allow[e], now) ELSE CHOOSE x \in kept : TRUE
        ghost == IF fresh THEN Forgotten(e, now) ELSE arrived
    IN /\ arrivals < MaxArrivals /\ arrivals' = arrivals + 1
       /\ now >= 0 /\ \A x \in exporters[e] : x.seen <= now
       /\ allow[e] # NoDevice
       /\ IF decoded THEN UNCHANGED faults ELSE Fault
       /\ exporters' = [exporters EXCEPT ![e] = {Received(before, d, decoded, now, ts)}]
       /\ arrived' = With(ghost, <<e, ts>>, At(ghost, <<e, ts>>, 0) + 1)
       /\ late' = IF ts + BucketSecs <= snapped THEN late \cup {<<e, ts>>} ELSE late
       /\ UNCHANGED <<clock, allow, flush, barrier, owner, first_seen, rows, quality, snapped, adopted, wakeVars>>

\* A new source arrives while the exporter map is full: the least recently
\* seen exporter is evicted.
EvictExporter(e) ==
    /\ Fault
    /\ \E x \in exporters[e] : \A f \in Exporters : \A y \in exporters[f] : x.seen <= y.seen
    /\ exporters' = [exporters EXCEPT ![e] = {}]
    /\ arrived' = Forgotten(e, clock)
    /\ UNCHANGED <<clock, allow, flush, barrier, owner, first_seen, rows, quality, arrivals, snapped, late, adopted, wakeVars>>

\* The allowlist is rebuilt whole.  A device that does not resolve, or a failed
\* load, leaves its sources out; an address may have moved to another device.
RefreshAllowlist(new) ==
    /\ allow # new
    /\ IF new = Enrolled THEN UNCHANGED faults ELSE Fault
    /\ allow' = new
    /\ UNCHANGED <<clock, exporters, flush, barrier, owner, first_seen, rows, quality, arrivals, arrived, snapped, late, adopted, wakeVars>>

Tick == /\ clock < MaxClock /\ clock' = clock + 1
        /\ UNCHANGED <<allow, exporters, flush, barrier, owner, first_seen, rows, quality, arrivals, faults, arrived, snapped, late, adopted, wakeVars>>

-----------------------------------------------------------------------------
(* The flush pass *)

Closed(ex) == {ts \in DOMAIN ex.buckets : ts + BucketSecs <= clock}

\* The exporters of the pass whose row names another device, or that have none:
\* flush_exporter upserts the others without changing them.
Stale(dev) == {e \in Exporters : dev[e] \notin {NoDevice, owner[e]}}

\* Every exporter is in the pass, with its closed buckets if it has any.  A pass
\* without a bucket leaves the barrier alone, and leaves no trace at all unless
\* an exporter's row is stale.
Snapshot ==
    LET state(e) == CHOOSE x \in exporters[e] : TRUE
        dev == [e \in Exporters |-> IF exporters[e] = {} THEN NoDevice ELSE state(e).dev]
        taken == [e \in Exporters |-> IF exporters[e] = {} THEN {} ELSE Closed(state(e))]
        full == {e \in Exporters : taken[e] # {}}
    IN /\ flush.phase = "idle"
       /\ full # {} \/ Stale(dev) # {}
       /\ flush' = [Idle EXCEPT !.phase = IF full = {} THEN "write" ELSE "barrier",
                       !.gen = 1 - barrier.gen, !.dev = dev,
                       !.todo = IF full = {} THEN Stale(dev) ELSE full,
                       !.closed = [e \in Exporters |-> [ts \in taken[e] |-> state(e).buckets[ts]]]]
       /\ exporters' = [e \in Exporters |-> {[x EXCEPT !.buckets = Without(@, Closed(x))] : x \in exporters[e]}]
       /\ snapped' = clock
       /\ UNCHANGED <<clock, allow, barrier, owner, first_seen, rows, quality, arrivals, faults, arrived, late, adopted, wakeVars>>

\* The generations are random identifiers: only whether they are equal matters.
RaiseBarrier ==
    /\ flush.phase = "barrier"
    /\ barrier' = [gen |-> flush.gen, ready |-> FALSE]
    /\ flush' = [flush EXCEPT !.phase = "register"]
    /\ UNCHANGED <<clock, allow, exporters, owner, first_seen, rows, quality, arrivals, faults, arrived, snapped, late, adopted, wakeVars>>

Members(e) == {<<e, flush.dev[e], i>> : i \in Ifaces}

Contributes(m) == {ts \in DOMAIN flush.closed[m[1]] : m[3] \in KeysOf(flush.closed[m[1]][ts])}

Earliest(S) == CHOOSE t \in S : \A u \in S : t <= u

RegisteredWith(new) ==
    [ m \in DOMAIN first_seen \cup new |->
        Earliest((IF m \in DOMAIN first_seen THEN {first_seen[m]} ELSE {})
                 \cup (IF m \in new THEN Contributes(m) ELSE {})) ]

\* Mutant: contributors are not registered before the buckets are written.
RegisterContributors_Skip(e) ==
    /\ flush.phase = "register" /\ e \in flush.todo
    /\ owner' = [owner EXCEPT ![e] = flush.dev[e]]
    /\ quality' = Without(quality, {<<e, ts>> : ts \in DOMAIN flush.closed[e]})
    /\ flush' = [flush EXCEPT !.todo = @ \ {e}]
    /\ UNCHANGED <<clock, allow, exporters, barrier, first_seen, rows, arrivals, faults, arrived, snapped, late, adopted, wakeVars>>

\* prepare_flush_batch_inner for one exporter: its row names the device, its
\* quality rows of these buckets go, its interfaces become contributors.
RegisterContributors(e) ==
    /\ flush.phase = "register" /\ e \in flush.todo
    /\ owner' = [owner EXCEPT ![e] = flush.dev[e]]
    /\ quality' = Without(quality, {<<e, ts>> : ts \in DOMAIN flush.closed[e]})
    /\ first_seen' = RegisteredWith({m \in Members(e) : Contributes(m) # {}})
    /\ flush' = [flush EXCEPT !.todo = @ \ {e}]
    /\ UNCHANGED <<clock, allow, exporters, barrier, rows, arrivals, faults, arrived, snapped, late, adopted, wakeVars>>

OpenBarrier ==
    /\ flush.phase = "register" /\ flush.todo = {}
    /\ barrier = [gen |-> flush.gen, ready |-> FALSE]
    /\ barrier' = [barrier EXCEPT !.ready = TRUE]
    /\ flush' = [flush EXCEPT !.phase = "write", !.todo = Stale(flush.dev)]
    /\ UNCHANGED <<clock, allow, exporters, owner, first_seen, rows, quality, arrivals, faults, arrived, snapped, late, adopted, wakeVars>>

\* flush_exporter begins by upserting the exporter's row.
UpsertExporter(e) ==
    /\ flush.phase = "write" /\ e \in flush.todo
    /\ owner' = [owner EXCEPT ![e] = flush.dev[e]]
    /\ flush' = [flush EXCEPT !.todo = @ \ {e}]
    /\ UNCHANGED <<clock, allow, exporters, barrier, first_seen, rows, quality, arrivals, faults, arrived, snapped, late, adopted, wakeVars>>

\* write_bucket: totals, membership and quality of one bucket in one
\* transaction that requires the pass's own generation to be open.
Written(e, ts) ==
    LET acc == flush.closed[e][ts]
        keys == {<<e, ts, i>> : i \in KeysOf(acc)}
    IN /\ barrier = [gen |-> flush.gen, ready |-> TRUE]
       /\ rows' = [k \in DOMAIN rows \cup keys |->
                     IF k \in keys THEN [dev |-> At(rows, k, [dev |-> flush.dev[e], got |-> {}]).dev,
                                         got |-> {d \in acc.got : d.iface = k[3]}]
                     ELSE rows[k]]
       /\ first_seen' = RegisteredWith({m \in Members(e) : ts \in Contributes(m)})
       /\ quality' = With(quality, <<e, ts>>, Complete(acc))

\* The newest bucket of an exporter is written first.
Newest(e) == {ts \in DOMAIN flush.closed[e] : \A u \in DOMAIN flush.closed[e] : u <= ts}

WriteBucket(e) ==
    /\ flush.phase = "write"
    /\ \E ts \in Newest(e) :
         /\ Written(e, ts)
         /\ flush' = [flush EXCEPT !.closed[e] = Without(@, {ts}),
                        !.published = @ \cup {<<flush.dev[e], i>> : i \in KeysOf(flush.closed[e][ts])}]
    /\ UNCHANGED <<clock, allow, exporters, barrier, owner, arrivals, faults, arrived, snapped, late, adopted, wakeVars>>

-----------------------------------------------------------------------------
(* Failures: everything not written goes back into memory. *)

\* Buckets are put back one at a time, each evicting an older one or refused:
\* in any order the newest MaxOpen of both survive, and a bucket that was
\* reopened meanwhile is merged.
Newer(S) == {t \in S : Cardinality({u \in S : u > t}) < MaxOpen}

PutBack(ex, closed) ==
    LET kept == Newer(DOMAIN ex.buckets \cup DOMAIN closed)
        results(t) == IF t \notin DOMAIN closed THEN {ex.buckets[t]}
                      ELSE IF t \notin DOMAIN ex.buckets THEN {closed[t]}
                      ELSE merge_from(ex.buckets[t], closed[t])
    IN { [ex EXCEPT !.buckets = b] :
           b \in {f \in [kept -> UNION {results(t) : t \in kept}] : \A t \in kept : f[t] \in results(t)} }

\* requeue_flushes: an exporter that is gone takes its buckets with it; one that
\* came back for another device gets them all the same.
Requeue(E) ==
    /\ exporters' \in { f \in [Exporters -> UNION {UNION {{{y} : y \in PutBack(x, flush.closed[e])} : x \in exporters[e]} : e \in E}
                                            \cup {exporters[e] : e \in Exporters}] :
                          \A e \in Exporters : IF e \in E /\ exporters[e] # {}
                                                 THEN \E x \in exporters[e] : \E y \in PutBack(x, flush.closed[e]) : f[e] = {y}
                                                 ELSE f[e] = exporters[e] }
    /\ adopted' = adopted \cup UNION { {<<e, ts, flush.dev[e]>> : ts \in DOMAIN flush.closed[e]} :
                                         e \in {f \in E : \E x \in exporters[f] : x.dev # flush.dev[f]} }

PrepareFails ==
    /\ Fault /\ flush.phase \in {"barrier", "register"}
    /\ Requeue(Exporters)
    /\ flush' = Idle
    /\ UNCHANGED <<clock, allow, barrier, owner, first_seen, rows, quality, arrivals, arrived, snapped, late, wakeVars>>

\* The upsert or a bucket's transaction fails, or its commit is not confirmed although the
\* database has it: this exporter's unwritten buckets are kept for the next pass.
WriteFails(e) ==
    /\ Fault /\ flush.phase = "write" /\ (e \in flush.todo \/ DOMAIN flush.closed[e] # {})
    /\ Requeue({e})
    /\ flush' = [flush EXCEPT !.closed[e] = Empty, !.todo = @ \ {e}]
    /\ \/ \E ts \in Newest(e) : Written(e, ts)
       \/ UNCHANGED <<first_seen, rows, quality>>
    /\ UNCHANGED <<clock, allow, barrier, owner, arrivals, arrived, snapped, late, wakeVars>>

\* After every exporter was tried the published interfaces are marked; an
\* interface whose identifier cannot be looked up is left out.
MarkPublished ==
    /\ flush.phase = "write" /\ flush.todo = {} /\ \A e \in Exporters : DOMAIN flush.closed[e] = {}
    /\ \E ids \in SUBSET flush.published :
         /\ IF ids = flush.published THEN UNCHANGED faults ELSE Fault
         /\ IF ids = {} THEN UNCHANGED wakeVars ELSE MarkInterfaces(ids)
    /\ flush' = Idle
    /\ UNCHANGED <<clock, allow, exporters, barrier, owner, first_seen, rows, quality, arrivals, arrived, snapped, late, adopted>>

\* A collector task ends: the supervisor starts the collector anew, with
\* nothing in memory.
CollectorRestarts ==
    /\ Fault
    /\ exporters' = [e \in Exporters |-> {}] /\ flush' = Idle
    /\ allow' = [e \in Exporters |-> NoDevice]
    /\ arrived' = [k \in {j \in DOMAIN arrived : j[2] # clock} |-> arrived[k]]
    /\ UNCHANGED <<clock, barrier, owner, first_seen, rows, quality, arrivals, snapped, late, adopted, wakeVars>>

WakeLoop == WakeStep /\ UNCHANGED flowVars

Next == \/ \E e \in Exporters : \/ \E d \in Datagrams[e], lag \in 0 .. 1 :
                                     \E decoded \in BOOLEAN : Receive(e, d, decoded, lag)
                                \/ EvictExporter(e)
                                \/ RegisterContributors(e) \/ UpsertExporter(e)
                                \/ WriteBucket(e) \/ WriteFails(e)
        \/ \E new \in [Exporters -> Devices \cup {NoDevice}] : RefreshAllowlist(new)
        \/ Tick \/ Snapshot \/ RaiseBarrier \/ OpenBarrier
        \/ PrepareFails \/ MarkPublished \/ CollectorRestarts
        \/ WakeLoop

Spec == Init /\ [][Next]_vars /\ WakeFairness

-----------------------------------------------------------------------------
(* Evidence *)

\* bucket_evidence: every contributor known by then that still exports for the
\* device has its row and a complete quality verdict, and no registration is
\* under way.
Expected(dev, i, ts) ==
    {m \in DOMAIN first_seen : m[2] = dev /\ m[3] = i /\ first_seen[m] <= ts /\ owner[m[1]] = dev}

Available(dev, i, ts) ==
    /\ barrier.ready
    /\ Expected(dev, i, ts) # {}
    /\ \A m \in Expected(dev, i, ts) :
         /\ <<m[1], ts, i>> \in DOMAIN rows /\ rows[<<m[1], ts, i>>].dev = dev
         /\ At(quality, <<m[1], ts>>, FALSE)

RowOf(e, ts) == UNION {rows[k].got : k \in {j \in DOMAIN rows : j[1] = e /\ j[2] = ts}}

\* No number of one generation is missing between two of S.
Gapless(S) == \A c, d \in S : c.gen = d.gen => \A n \in c.n .. d.n : \E x \in S : x.gen = c.gen /\ x.n = n

\* A bucket published as complete holds every datagram that reached its
\* exporter in that window, once, with no number missing in between, after any
\* mix of losses, repeats, restarts, evictions, failed writes and requeues
\* (collector.rs, observe_sequence, merge_from, requeue_flushes).  Excepted
\* is a bucket that a datagram reopened after its snapshot was taken.
CompleteIsWhole ==
    \A k \in DOMAIN quality : quality[k] /\ k \notin late =>
        Cardinality(RowOf(k[1], k[2])) = At(arrived, k, 0) /\ Gapless(RowOf(k[1], k[2]))

\* Totals for an interface and window of the device that a snapshot has seen
\* and the database has not.
Unpublished(e, acc, i, ts) ==
    ~({d \in acc.got : d.iface = i} \subseteq At(rows, <<e, ts, i>>, [got |-> {}]).got)

Withheld(e, dev, i, ts) ==
    \/ ts \in DOMAIN flush.closed[e] /\ flush.dev[e] = dev /\ Unpublished(e, flush.closed[e][ts], i, ts)
    \/ \E x \in exporters[e] : /\ x.dev = dev /\ ts \in DOMAIN x.buckets /\ ts + BucketSecs <= snapped
                               /\ Unpublished(e, x.buckets[ts], i, ts)

\* Reopened behind its snapshot, or put back under another device
Stray(e, ts) == <<e, ts>> \in late \/ \E a \in adopted : a[1] = e /\ a[2] = ts

\* A bucket offered to detection as evidence is the whole cohort: no exporter
\* of the device still holds totals for that interface and window that the
\* database does not have, in a pass or put back by a failed one
\* (collector.rs, prepare_flush_batch; quality.rs, bucket_evidence).
EvidenceIsCohort ==
    \A dev \in Devices, i \in Ifaces, ts \in Buckets : Available(dev, i, ts) =>
        \A e \in Exporters : Withheld(e, dev, i, ts) => Stray(e, ts)

\* Totals that arrived for one device are never stored as another's, also when
\* the exporter's address moves while its buckets are being written (the
\* comment in recv_loop, collector.rs:687-689).
NotAcrossDevices ==
    \A a \in adopted, k \in DOMAIN rows : k[1] = a[1] /\ k[2] = a[2] => rows[k].dev = a[3]
=============================================================================
