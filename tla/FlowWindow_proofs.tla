------------------------- MODULE FlowWindow_proofs -------------------------
(***************************************************************************)
(* Proofs about the flow pipeline for any number of exporters, devices and  *)
(* interfaces, and any queue capacity.                                      *)
(***************************************************************************)
EXTENDS FlowWindow, FiniteSetTheorems, WellFoundedInduction, TLAPS

-----------------------------------------------------------------------------
(* The wake queue *)

\* What the queue owes apart from the batch in flight.
Queued == IF full_rescan THEN Interfaces ELSE pending

\* An evaluation under way has a batch, is not ahead of the marks, and every
\* mark it began too early to see is queued again.
ReadingIsCurrent ==
    reading # NotReading =>
        /\ in_flight # {}
        /\ reading \in [Interfaces -> Nat]
        /\ \A i \in Interfaces : /\ judged[i] <= reading[i] /\ reading[i] <= latest[i]
                                 /\ reading[i] # latest[i] => i \in Queued

WakeInv ==
    /\ full_rescan \in BOOLEAN
    /\ \A b, c \in in_flight : b = c
    /\ latest \in [Interfaces -> Nat] /\ judged \in [Interfaces -> Nat]
    /\ \A i \in Interfaces : judged[i] <= latest[i]
    /\ ReadingIsCurrent /\ NoMarkLost

\* Nothing that was there leaves by an insertion, and what finds no room asks
\* for a rescan (wake.rs, insert_bounded).
LEMMA InsertedKeeps ==
    ASSUME NEW ids, NEW into, NEW rescan \in BOOLEAN, NEW r \in Inserted(ids, into, rescan)
    PROVE  /\ into \subseteq r.set /\ r.set \subseteq into \cup ids
           /\ r.full \in BOOLEAN /\ (rescan => r.full)
           /\ r.full \/ ids \subseteq r.set
<1>1. PICK fit \in Fitting(ids, into) :
         r = [set |-> into \cup fit, full |-> rescan \/ fit # ids \ into]
  BY DEF Inserted
<1>2. fit \subseteq ids \ into
  BY DEF Fitting
<1>3. r.set = into \cup fit /\ r.full = (rescan \/ fit # ids \ into)
  BY <1>1
<1>4. r.full \/ ids \subseteq r.set
  BY <1>2, <1>3
<1>5. r.full \in BOOLEAN /\ (rescan => r.full)
  BY <1>3
<1>6. QED
  BY <1>2, <1>3, <1>4, <1>5

\* The collector touches the queue only by marking.
LEMMA WakeFrame ==
    Next => WakeStep \/ (\E ids : MarkInterfaces(ids)) \/ UNCHANGED wakeVars
<1> SUFFICES ASSUME Next
             PROVE  WakeStep \/ (\E ids : MarkInterfaces(ids)) \/ UNCHANGED wakeVars
  OBVIOUS
<1>1. ASSUME NEW e, NEW d, NEW decoded, NEW lag, Receive(e, d, decoded, lag)
      PROVE UNCHANGED wakeVars
  BY <1>1, Zenon DEF Receive
<1>2. ASSUME NEW e, EvictExporter(e) PROVE UNCHANGED wakeVars
  BY <1>2, Zenon DEF EvictExporter
<1>3. ASSUME NEW e, RegisterContributors(e) PROVE UNCHANGED wakeVars
  BY <1>3, Zenon DEF RegisterContributors
<1>4. ASSUME NEW e, WriteBucket(e) \/ UpsertExporter(e) PROVE UNCHANGED wakeVars
  BY <1>4, Zenon DEF WriteBucket, UpsertExporter
<1>5. ASSUME NEW e, WriteFails(e) PROVE UNCHANGED wakeVars
  BY <1>5, Zenon DEF WriteFails
<1>6. ASSUME NEW new, RefreshAllowlist(new) PROVE UNCHANGED wakeVars
  BY <1>6, Zenon DEF RefreshAllowlist
<1>7. CASE Tick \/ Snapshot \/ RaiseBarrier \/ OpenBarrier \/ PrepareFails \/ CollectorRestarts
  BY <1>7, Zenon DEF Tick, Snapshot, RaiseBarrier, OpenBarrier, PrepareFails, CollectorRestarts
<1>8. CASE MarkPublished
  BY <1>8, Zenon DEF MarkPublished
<1>9. CASE WakeLoop
  BY <1>9, Zenon DEF WakeLoop
<1>10. QED
  BY <1>1, <1>2, <1>3, <1>4, <1>5, <1>6, <1>7, <1>8, <1>9 DEF Next

LEMMA OwedIs ==
    \A i : i \in Owed <=> (\E batch \in in_flight : i \in Covered(batch)) \/ i \in Queued
<1> SUFFICES ASSUME NEW i
             PROVE  i \in Owed <=> (\E batch \in in_flight : i \in Covered(batch)) \/ i \in Queued
  OBVIOUS
<1> DEFINE Flying == UNION {Covered(batch) : batch \in in_flight}
<1>1. i \in Flying <=> \E batch \in in_flight : i \in Covered(batch)
  BY Zenon
<1>2. Owed = Flying \cup Queued
  BY Zenon DEF Owed, Queued
<1> HIDE DEF Flying
<1>3. QED
  BY <1>1, <1>2

LEMMA OwedIsNext ==
    \A i : i \in Owed' <=> (\E batch \in in_flight' : i \in Covered(batch)) \/ i \in Queued'
<1> SUFFICES ASSUME NEW i
             PROVE  i \in Owed' <=> (\E batch \in in_flight' : i \in Covered(batch)) \/ i \in Queued'
  OBVIOUS
<1> DEFINE Flying == UNION {Covered(batch) : batch \in in_flight'}
<1>1. i \in Flying <=> \E batch \in in_flight' : i \in Covered(batch)
  BY Zenon
<1>2. Owed' = Flying \cup Queued'
  BY Zenon DEF Owed, Queued, Covered
<1> HIDE DEF Flying
<1>3. QED
  BY <1>1, <1>2

\* One lemma per step of the queue.
LEMMA MarkKeeps == ASSUME WakeInv, NEW ids, MarkInterfaces(ids) PROVE WakeInv'
<1>1. PICK r \in Inserted(ids, pending, full_rescan) : pending' = r.set /\ full_rescan' = r.full
  BY DEF MarkInterfaces
<1>2. /\ pending \subseteq pending' /\ full_rescan' \in BOOLEAN
      /\ full_rescan => full_rescan'
      /\ full_rescan' \/ ids \subseteq pending'
  BY <1>1, InsertedKeeps DEF WakeInv
<1>3. \A i \in Interfaces : i \in Queued \/ i \in ids => i \in Queued'
  BY <1>2 DEF Queued
<1>4. /\ latest' \in [Interfaces -> Nat] /\ UNCHANGED <<in_flight, reading, judged>>
      /\ \A i \in Interfaces : /\ latest'[i] >= latest[i]
                               /\ latest'[i] # latest[i] => i \in ids
  BY DEF MarkInterfaces, WakeInv
<1>5. ReadingIsCurrent'
  BY <1>3, <1>4 DEF ReadingIsCurrent, WakeInv
<1>6. NoMarkLost'
  <2> SUFFICES ASSUME NEW i \in Interfaces, judged[i] # latest'[i] PROVE i \in Owed'
    BY <1>4 DEF NoMarkLost
  <2>1. i \in Owed \/ i \in ids
    BY <1>4 DEF WakeInv, NoMarkLost
  <2>2. QED
    BY <2>1, <1>3, <1>4, OwedIs, OwedIsNext
<1>7. QED
  BY <1>2, <1>4, <1>5, <1>6 DEF WakeInv

\* Whatever the batch covers, what was owed is owed or judged now.
LEMMA TakeKeeps == ASSUME WakeInv, WaitAndTake PROVE WakeInv'
<1> USE WakeAssumption DEF WakeInv
<1>1. /\ reading' = latest /\ UNCHANGED <<latest, judged>>
      /\ in_flight' # {} /\ full_rescan' \in BOOLEAN /\ (\A b, c \in in_flight' : b = c)
  BY DEF WaitAndTake
<1>2. ReadingIsCurrent'
  BY <1>1 DEF ReadingIsCurrent
<1>3. \A i \in Interfaces : i \in Owed => i \in Owed'
  <2>1. CASE in_flight # {}
    BY <2>1 DEF WaitAndTake, Owed, Covered
  <2>2. CASE in_flight = {}
    <3>1. \A i : i \in Owed => i \in Queued
      BY <2>2, OwedIs
    <3>2. in_flight' = {[ids |-> pending, full |-> full_rescan]}
      BY <2>2 DEF WaitAndTake
    <3>3. Covered([ids |-> pending, full |-> full_rescan]) = Queued
      BY DEF Covered, Queued
    <3>4. \A i : i \in Queued => i \in Owed'
      BY <3>2, <3>3, OwedIsNext
    <3>5. QED
      BY <3>1, <3>4
  <2>3. QED
    BY <2>1, <2>2
<1>4. NoMarkLost'
  BY <1>1, <1>3 DEF NoMarkLost
<1>5. QED
  BY <1>1, <1>2, <1>4

\* A mark made after the evaluation began is still queued when it succeeds.
LEMMA SuccessKeeps == ASSUME WakeInv, CompleteSuccess PROVE WakeInv'
<1> USE DEF WakeInv
<1>1. PICK batch \in in_flight :
         judged' = [i \in Interfaces |-> IF i \in Covered(batch) THEN reading[i] ELSE judged[i]]
  BY DEF CompleteSuccess
<1>2. /\ reading # NotReading /\ reading' = NotReading /\ in_flight' = {}
      /\ UNCHANGED <<pending, full_rescan, latest>>
  BY DEF CompleteSuccess
<1>3. judged' \in [Interfaces -> Nat] /\ \A i \in Interfaces : judged'[i] <= latest[i]
  BY <1>1, <1>2 DEF ReadingIsCurrent
<1>4. ReadingIsCurrent'
  BY <1>2 DEF ReadingIsCurrent, NotReading
<1>5. NoMarkLost'
  <2> SUFFICES ASSUME NEW i \in Interfaces, judged'[i] # latest[i] PROVE i \in Owed'
    BY <1>2 DEF NoMarkLost
  <2>1. i \in Queued => i \in Owed'
    BY <1>2, OwedIsNext DEF Queued
  <2>2. CASE i \in Covered(batch)
    BY <1>1, <1>2, <2>1, <2>2 DEF ReadingIsCurrent
  <2>3. CASE i \notin Covered(batch)
    <3>1. i \in Owed
      BY <1>1, <2>3 DEF NoMarkLost
    <3>2. QED
      BY <2>1, <2>3, <3>1, OwedIs
  <2>4. QED
    BY <2>2, <2>3
<1>6. QED
  BY <1>2, <1>3, <1>4, <1>5

\* A failed batch is put back whole, or as a rescan.
LEMMA FailureKeeps == ASSUME WakeInv, CompleteFailure PROVE WakeInv'
<1> USE DEF WakeInv
<1>1. PICK batch \in in_flight :
         \E r \in Inserted(batch.ids, pending, full_rescan \/ batch.full) :
            pending' = r.set /\ full_rescan' = r.full
  BY DEF CompleteFailure
<1>2. /\ reading' = NotReading /\ in_flight' = {} /\ UNCHANGED <<latest, judged>>
  BY DEF CompleteFailure
<1>3. /\ pending \subseteq pending' /\ full_rescan' \in BOOLEAN
      /\ full_rescan \/ batch.full => full_rescan'
      /\ full_rescan' \/ batch.ids \subseteq pending'
  <2> DEFINE rescan == full_rescan \/ batch.full
  <2>1. rescan \in BOOLEAN /\ (full_rescan \/ batch.full => rescan)
    OBVIOUS
  <2>2. PICK r \in Inserted(batch.ids, pending, rescan) : pending' = r.set /\ full_rescan' = r.full
    BY <1>1
  <2> HIDE DEF rescan
  <2>3. QED
    BY <2>1, <2>2, InsertedKeeps
<1>4. ReadingIsCurrent'
  BY <1>2 DEF ReadingIsCurrent, NotReading
<1>5. NoMarkLost'
  <2> SUFFICES ASSUME NEW i \in Interfaces, i \in Owed PROVE i \in Owed'
    BY <1>2 DEF NoMarkLost
  <2>1. i \in Covered(batch) \/ i \in Queued
    BY OwedIs
  <2>2. i \in Queued'
    BY <1>3, <2>1 DEF Queued, Covered
  <2>3. QED
    BY <2>2, OwedIsNext
<1>6. QED
  BY <1>2, <1>3, <1>4, <1>5

LEMMA RestartKeeps == ASSUME WakeInv, LoopRestarts PROVE WakeInv'
  BY DEF WakeInv, LoopRestarts, ReadingIsCurrent, NoMarkLost, Owed, Covered

LEMMA WakeIdle == ASSUME WakeInv, UNCHANGED wakeVars PROVE WakeInv'
  BY DEF WakeInv, wakeVars, ReadingIsCurrent, Queued, NoMarkLost, Owed, Covered

LEMMA WakeInvStep == WakeInv /\ [Next]_vars => WakeInv'
<1> SUFFICES ASSUME WakeInv, [Next]_vars PROVE WakeInv'
  OBVIOUS
<1>1. WakeStep \/ (\E ids : MarkInterfaces(ids)) \/ UNCHANGED wakeVars
  BY WakeFrame DEF vars
<1>2. QED
  BY <1>1, MarkKeeps, TakeKeeps, SuccessKeeps, FailureKeeps, RestartKeeps, WakeIdle DEF WakeStep

LEMMA WakeInvariance == Spec => []WakeInv
<1>1. Init => WakeInv
  <2> SUFFICES ASSUME WakeInit PROVE WakeInv
    BY DEF Init
  <2>1. /\ full_rescan \in BOOLEAN /\ (\A b, c \in in_flight : b = c)
        /\ latest \in [Interfaces -> Nat] /\ judged \in [Interfaces -> Nat]
    BY DEF WakeInit
  <2>5. \A i \in Interfaces : judged[i] = latest[i] /\ judged[i] <= latest[i]
    BY DEF WakeInit
  <2>2. ReadingIsCurrent
    BY DEF WakeInit, ReadingIsCurrent
  <2>3. NoMarkLost
    BY <2>5 DEF NoMarkLost
  <2>4. QED
    BY <2>1, <2>2, <2>3, <2>5 DEF WakeInv
<1>2. QED
  BY <1>1, WakeInvStep, PTL DEF Spec

\* No mark is lost, for any capacity of the dirty set and any interleaving of
\* publications, overflows, failed evaluations and loop restarts (wake.rs,
\* mark_interfaces and complete_failure; scheduler.rs,
\* flow_detection_wake_loop).
THEOREM MarksKept == Spec => []NoMarkLost
<1>1. WakeInv => NoMarkLost
  BY DEF WakeInv
<1>2. QED
  BY <1>1, WakeInvariance, PTL

\* The safety half of the promise to the collector: the queue and its loop
\* implement OwedEvaluation, in which an evaluation never goes back and is
\* never credited with a publication that it began too early to read.
THEOREM PromiseImplemented == Spec => Promise!Safety
<1>1. Init => Promise!Init
  BY DEF Init, WakeInit, Promise!Init
<1>2. WakeInv /\ [Next]_vars => [Promise!Next]_(Promise!vars)
  <2> SUFFICES ASSUME WakeInv, [Next]_vars, ~ UNCHANGED <<latest, judged>>
               PROVE  Promise!Next
    BY DEF Promise!vars
  <2>1. CompleteSuccess \/ \E ids : MarkInterfaces(ids)
    BY WakeFrame DEF vars, wakeVars, WakeStep, WaitAndTake, CompleteFailure, LoopRestarts
  <2>2. CASE CompleteSuccess
    <3>1. PICK batch \in in_flight :
             judged' = [i \in Interfaces |-> IF i \in Covered(batch) THEN reading[i] ELSE judged[i]]
      BY <2>2 DEF CompleteSuccess
    <3>2. \A i \in Interfaces : judged'[i] \in judged[i] .. latest[i]
      BY <2>2, <3>1 DEF CompleteSuccess, WakeInv, ReadingIsCurrent
    <3>3. DOMAIN judged' = Interfaces /\ UNCHANGED latest
      BY <2>2, <3>1 DEF CompleteSuccess
    <3>4. QED
      BY <3>2, <3>3 DEF Promise!Next, Promise!Evaluate
  <2>3. ASSUME NEW ids, MarkInterfaces(ids) PROVE Promise!Next
    <3>1. Promise!Mark(ids \cap Interfaces)
      BY <2>3 DEF MarkInterfaces, Promise!Mark
    <3>2. QED
      BY <3>1 DEF Promise!Next
  <2>4. QED
    BY <2>1, <2>2, <2>3
<1>3. QED
  BY <1>1, <1>2, WakeInvariance, PTL DEF Spec, Promise!Safety

-----------------------------------------------------------------------------
(* Buckets in memory *)

\* The shape of an accumulator, of a map of buckets and of an exporter's state.
IsAccum(a) == a = [f \in {"got", "lost", "base"} |-> a[f]]

IsBuckets(b) == /\ b = [ts \in DOMAIN b |-> b[ts]] /\ DOMAIN b \subseteq Nat
                /\ \A ts \in DOMAIN b : IsAccum(b[ts])

IsExporter(x) ==
    /\ x = [f \in {"dev", "buckets", "seq", "bucket", "uptime", "started", "seen"} |-> x[f]]
    /\ IsBuckets(x.buckets)

\* y is x with at most the bucket ts opened or changed: other buckets may be
\* gone, but the datagrams of those that remain are the same, and none has
\* become complete.
Near(x, y, ts) ==
    /\ IsExporter(y) /\ y.dev = x.dev
    /\ \A t \in DOMAIN y.buckets : t # ts =>
         /\ t \in DOMAIN x.buckets /\ y.buckets[t].got = x.buckets[t].got
         /\ Complete(y.buckets[t]) => Complete(x.buckets[t])

LEMMA NearTrans ==
    ASSUME NEW x, NEW y, NEW z, NEW ts, Near(x, y, ts), Near(y, z, ts) PROVE Near(x, z, ts)
  BY DEF Near

\* A bucket whose accumulator is replaced
LEMMA NearReplace ==
    ASSUME NEW x, IsExporter(x), NEW ts \in DOMAIN x.buckets, NEW v, IsAccum(v)
    PROVE  Near(x, [x EXCEPT !.buckets[ts] = v], ts)
<1> DEFINE y == [x EXCEPT !.buckets[ts] = v]
<1>1. /\ y.dev = x.dev /\ y.buckets = [x.buckets EXCEPT ![ts] = v]
      /\ y = [f \in {"dev", "buckets", "seq", "bucket", "uptime", "started", "seen"} |-> y[f]]
  BY DEF IsExporter
<1>2. IsBuckets(y.buckets)
  BY <1>1 DEF IsExporter, IsBuckets
<1>3. QED
  BY <1>1, <1>2 DEF Near, IsExporter, IsBuckets

LEMMA AccumShapes ==
    /\ \A base : IsAccum(Accum(base))
    /\ \A a : IsAccum(a) => /\ IsAccum(mark_all_dropped(a)) /\ mark_all_dropped(a).got = a.got
                            /\ ~ Complete(mark_all_dropped(a))
    /\ \A a : IsAccum(a) => IsAccum([a EXCEPT !.base = FALSE]) /\ [a EXCEPT !.base = FALSE].got = a.got
    /\ \A a, d : IsAccum(a) => IsAccum(fold(a, d))
<1>1. \A base : IsAccum(Accum(base))
  BY DEF IsAccum, Accum
<1>2. ASSUME NEW a, IsAccum(a)
      PROVE  IsAccum(mark_all_dropped(a)) /\ mark_all_dropped(a).got = a.got /\ ~ Complete(mark_all_dropped(a))
  BY <1>2 DEF IsAccum, mark_all_dropped, Complete
<1>3. ASSUME NEW a, IsAccum(a)
      PROVE  IsAccum([a EXCEPT !.base = FALSE]) /\ [a EXCEPT !.base = FALSE].got = a.got
  BY <1>3 DEF IsAccum
<1>4. ASSUME NEW a, NEW d, IsAccum(a) PROVE IsAccum(fold(a, d))
  BY <1>4 DEF IsAccum, fold
<1>5. QED
  BY <1>1, <1>2, <1>3, <1>4

LEMMA WithBuckets ==
    ASSUME NEW b, IsBuckets(b), NEW ts \in Nat, NEW v, IsAccum(v) PROVE IsBuckets(With(b, ts, v))
  BY DEF IsBuckets, With

LEMMA WithoutBuckets ==
    ASSUME NEW b, IsBuckets(b), NEW S PROVE IsBuckets(Without(b, S))
  BY DEF IsBuckets, Without

\* The buckets b of x, or fewer, with ts opened
LEMMA NearWith ==
    ASSUME NEW x, IsExporter(x), NEW ts \in Nat, NEW v, IsAccum(v), NEW b, IsBuckets(b),
           \A t \in DOMAIN b : t \in DOMAIN x.buckets /\ b[t] = x.buckets[t]
    PROVE  Near(x, [x EXCEPT !.buckets = With(b, ts, v)], ts)
<1> DEFINE c == With(b, ts, v)
           y == [x EXCEPT !.buckets = c]
<1>0. IsBuckets(c)
  BY WithBuckets
<1>1. \A t \in DOMAIN c : t # ts => t \in DOMAIN x.buckets /\ c[t] = x.buckets[t]
  BY DEF With
<1> HIDE DEF c
<1>2. y.dev = x.dev /\ y.buckets = c /\ IsExporter(y)
  BY <1>0 DEF IsExporter
<1> HIDE DEF y
<1>3. Near(x, y, ts)
  BY <1>1, <1>2 DEF Near
<1>4. QED
  BY <1>3 DEF y, c

\* Opening a bucket, with or without an eviction
LEMMA NearOpened ==
    ASSUME NEW x, IsExporter(x), NEW ts \in Nat PROVE Near(x, bucket_entry_bounded(x, ts), ts)
<1>1. Near(x, x, ts)
  BY DEF Near
<1>2. IsBuckets(x.buckets)
  BY DEF IsExporter
<1>3. \A base : IsAccum(Accum(base))
  BY AccumShapes
<1>4. \A base : Near(x, [x EXCEPT !.buckets = With(x.buckets, ts, Accum(base))], ts)
  BY <1>2, <1>3, NearWith
<1>5. ASSUME NEW S, NEW base
      PROVE  Near(x, [x EXCEPT !.buckets = With(Without(x.buckets, S), ts, Accum(base))], ts)
  <2>1. PICK b : b = Without(x.buckets, S)
    OBVIOUS
  <2>2. IsBuckets(b)
    BY <1>2, <2>1, WithoutBuckets
  <2>3. \A t \in DOMAIN b : t \in DOMAIN x.buckets /\ b[t] = x.buckets[t]
    BY <2>1 DEF Without
  <2>4. QED
    BY <1>3, <2>1, <2>2, <2>3, NearWith
<1>6. QED
  BY <1>1, <1>4, <1>5 DEF bucket_entry_bounded

\* Changing the accumulator of a bucket, opened if need be
LEMMA NearChanged ==
    ASSUME NEW x, IsExporter(x), NEW ts \in Nat, NEW y,
           LET e == bucket_entry_bounded(x, ts)
           IN IF ts \in DOMAIN e.buckets
                THEN \E v : IsAccum(v) /\ y = [e EXCEPT !.buckets[ts] = v] ELSE y = e
    PROVE  Near(x, y, ts)
<1>1. PICK e : e = bucket_entry_bounded(x, ts)
  OBVIOUS
<1>2. Near(x, e, ts) /\ IsExporter(e)
  BY <1>1, NearOpened DEF Near
<1>3. CASE ts \in DOMAIN e.buckets
  <2>1. PICK v : IsAccum(v) /\ y = [e EXCEPT !.buckets[ts] = v]
    BY <1>1, <1>3
  <2>2. Near(e, y, ts)
    BY <1>2, <1>3, <2>1, NearReplace
  <2>3. QED
    BY <1>2, <2>2, NearTrans
<1>4. QED
  BY <1>1, <1>2, <1>3

LEMMA OpenedAccum ==
    ASSUME NEW x, IsExporter(x), NEW ts \in Nat, ts \in DOMAIN bucket_entry_bounded(x, ts).buckets
    PROVE  IsAccum(bucket_entry_bounded(x, ts).buckets[ts])
<1>1. IsExporter(bucket_entry_bounded(x, ts))
  BY NearOpened DEF Near
<1>2. QED
  BY <1>1 DEF IsExporter, IsBuckets

LEMMA NearUnbased ==
    ASSUME NEW x, IsExporter(x), NEW ts \in Nat
    PROVE  Near(x, InBucket(x, ts, LAMBDA a : [a EXCEPT !.base = FALSE]), ts)
<1>1. PICK e : e = bucket_entry_bounded(x, ts)
  OBVIOUS
<1>2. ts \in DOMAIN e.buckets => IsAccum([e.buckets[ts] EXCEPT !.base = FALSE])
  BY <1>1, OpenedAccum, AccumShapes
<1>3. InBucket(x, ts, LAMBDA a : [a EXCEPT !.base = FALSE])
        = IF ts \in DOMAIN e.buckets
            THEN [e EXCEPT !.buckets[ts] = [e.buckets[ts] EXCEPT !.base = FALSE]] ELSE e
  BY <1>1 DEF InBucket
<1>4. QED
  BY <1>1, <1>2, <1>3, NearChanged

LEMMA NearDropped ==
    ASSUME NEW x, IsExporter(x), NEW ts \in Nat PROVE Near(x, InBucket(x, ts, mark_all_dropped), ts)
<1>1. PICK e : e = bucket_entry_bounded(x, ts)
  OBVIOUS
<1>2. ts \in DOMAIN e.buckets => IsAccum(mark_all_dropped(e.buckets[ts]))
  BY <1>1, OpenedAccum, AccumShapes
<1>3. InBucket(x, ts, mark_all_dropped)
        = IF ts \in DOMAIN e.buckets
            THEN [e EXCEPT !.buckets[ts] = mark_all_dropped(e.buckets[ts])] ELSE e
  BY <1>1 DEF InBucket, mark_all_dropped
<1>4. QED
  BY <1>1, <1>2, <1>3, NearChanged

\* A loss noted on the bucket of the last datagram leaves its totals alone.
LEMMA NearMarked ==
    ASSUME NEW x, IsExporter(x), NEW ts, NEW t \in DOMAIN x.buckets
    PROVE  Near(x, [x EXCEPT !.buckets[t] = mark_all_dropped(@)], ts)
<1>1. PICK v : v = mark_all_dropped(x.buckets[t])
  OBVIOUS
<1>2. IsAccum(v) /\ v.got = x.buckets[t].got /\ ~ Complete(v)
  BY <1>1, AccumShapes DEF IsExporter, IsBuckets
<1> DEFINE y == [x EXCEPT !.buckets[t] = v]
<1>3. /\ y.dev = x.dev /\ y.buckets = [x.buckets EXCEPT ![t] = v]
      /\ y = [f \in {"dev", "buckets", "seq", "bucket", "uptime", "started", "seen"} |-> y[f]]
  BY DEF IsExporter
<1>4. IsBuckets(y.buckets)
  BY <1>2, <1>3 DEF IsExporter, IsBuckets
<1>5. Near(x, y, ts)
  BY <1>2, <1>3, <1>4 DEF Near, IsExporter, IsBuckets
<1>6. QED
  BY <1>1, <1>5

LEMMA NearFields ==
    ASSUME NEW x, IsExporter(x), NEW ts
    PROVE  /\ \A now : Near(x, [x EXCEPT !.seen = now], ts)
           /\ \A s, b, u : Near(x, [x EXCEPT !.seq = s, !.bucket = b, !.uptime = u], ts)
<1>1. ASSUME NEW now PROVE Near(x, [x EXCEPT !.seen = now], ts)
  BY DEF Near, IsExporter
<1>2. ASSUME NEW s, NEW b, NEW u PROVE Near(x, [x EXCEPT !.seq = s, !.bucket = b, !.uptime = u], ts)
  BY DEF Near, IsExporter
<1>3. QED
  BY <1>1, <1>2

LEMMA NearRestarted ==
    ASSUME NEW x, IsExporter(x), NEW ts, NEW now, NEW s, NEW u
    PROVE  Near(x, [x EXCEPT !.started = now, !.seq = s, !.bucket = ts, !.uptime = u,
                             !.buckets = [b \in DOMAIN @ |-> IF b = ts THEN [@[b] EXCEPT !.base = FALSE]
                                                                       ELSE @[b]]], ts)
<1>1. PICK c : c = [b \in DOMAIN x.buckets |-> IF b = ts THEN [x.buckets[b] EXCEPT !.base = FALSE]
                                                           ELSE x.buckets[b]]
  OBVIOUS
<1>2. IsBuckets(c)
  <2>1. \A b \in DOMAIN x.buckets : IsAccum(x.buckets[b]) /\ IsAccum([x.buckets[b] EXCEPT !.base = FALSE])
    BY AccumShapes DEF IsExporter, IsBuckets
  <2>2. QED
    BY <1>1, <2>1 DEF IsExporter, IsBuckets
<1>3. \A t \in DOMAIN c : t # ts => t \in DOMAIN x.buckets /\ c[t] = x.buckets[t]
  BY <1>1
<1>5. Near(x, [x EXCEPT !.started = now, !.seq = s, !.bucket = ts, !.uptime = u, !.buckets = c], ts)
  BY <1>2, <1>3 DEF Near, IsExporter
<1>4. QED
  BY <1>1, <1>5

LEMMA NearObserved ==
    ASSUME NEW x, IsExporter(x), NEW d, NEW now, NEW ts \in Nat
    PROVE  Near(x, observe_sequence(x, d, now, ts).ex, ts)
<1>1. CASE UptimeRestarted(x, d)
  BY <1>1, NearRestarted DEF observe_sequence
<1>2. CASE ~UptimeRestarted(x, d)
  <2>1. PICK one : one = IF x.uptime # Never /\ ~UptimeWrapped(x, d) /\ d.uptime < x.uptime
                           THEN InBucket(x, ts, LAMBDA a : [a EXCEPT !.base = FALSE]) ELSE x
    OBVIOUS
  <2>2. PICK two : two = IF Missing(x, d) /\ x.bucket # ts /\ x.bucket \in DOMAIN one.buckets
                           THEN [one EXCEPT !.buckets[x.bucket] = mark_all_dropped(@)] ELSE one
    OBVIOUS
  <2>3. Near(x, one, ts) /\ IsExporter(one)
    <3>1. Near(x, x, ts)
      BY DEF Near
    <3>2. QED
      BY <2>1, <3>1, NearUnbased DEF Near
  <2>4. Near(x, two, ts) /\ IsExporter(two)
    <3>3. Near(one, one, ts)
      BY <2>3 DEF Near
    <3>1. Near(one, two, ts)
      BY <2>2, <2>3, <3>3, NearMarked
    <3>2. QED
      BY <2>3, <3>1, NearTrans DEF Near
  <2>5. Near(x, [two EXCEPT !.seq = d.seq, !.bucket = ts, !.uptime = d.uptime], ts)
    BY <2>4, NearFields, NearTrans
  <2>6. observe_sequence(x, d, now, ts).ex
          = IF Advances(x, d) THEN [two EXCEPT !.seq = d.seq, !.bucket = ts, !.uptime = d.uptime] ELSE two
    BY <1>2, <2>1, <2>2 DEF observe_sequence
  <2>7. QED
    BY <2>4, <2>5, <2>6
<1>3. QED
  BY <1>1, <1>2

\* A datagram changes the totals of its own bucket only.
LEMMA NearReceived ==
    ASSUME NEW x, IsExporter(x), NEW d, NEW decoded \in BOOLEAN, NEW now, NEW ts \in Nat
    PROVE  Near(x, Received(x, d, decoded, now, ts), ts)
<1>1. PICK seen : seen = [x EXCEPT !.seen = now]
  OBVIOUS
<1>2. PICK obs : obs = observe_sequence(seen, d, now, ts)
  OBVIOUS
<1>3. Near(x, seen, ts) /\ IsExporter(seen)
  <2>1. Near(x, seen, ts)
    BY <1>1, NearFields
  <2>2. QED
    BY <2>1 DEF Near
<1>4. Near(x, obs.ex, ts) /\ IsExporter(obs.ex)
  BY <1>2, <1>3, NearObserved, NearTrans DEF Near
<1>5. Near(x, InBucket(obs.ex, ts, mark_all_dropped), ts)
  BY <1>4, NearDropped, NearTrans
<1>6. Near(x, InBucket(obs.ex, ts, LAMBDA a : fold(IF obs.missing THEN mark_all_dropped(a) ELSE a, d)), ts)
  <2>1. PICK e : e = bucket_entry_bounded(obs.ex, ts)
    OBVIOUS
  <2>2. PICK v : v = fold(IF obs.missing THEN mark_all_dropped(e.buckets[ts]) ELSE e.buckets[ts], d)
    OBVIOUS
  <2>3. ts \in DOMAIN e.buckets => IsAccum(v)
    BY <1>4, <2>1, <2>2, OpenedAccum, AccumShapes
  <2>4. InBucket(obs.ex, ts, LAMBDA a : fold(IF obs.missing THEN mark_all_dropped(a) ELSE a, d))
          = IF ts \in DOMAIN e.buckets THEN [e EXCEPT !.buckets[ts] = v] ELSE e
    BY <2>1, <2>2 DEF InBucket
  <2>5. QED
    BY <1>4, <2>1, <2>3, <2>4, NearChanged, NearTrans
<1>7. Received(x, d, decoded, now, ts)
        \in {InBucket(obs.ex, ts, mark_all_dropped),
             InBucket(obs.ex, ts, LAMBDA a : fold(IF obs.missing THEN mark_all_dropped(a) ELSE a, d))}
  BY <1>1, <1>2 DEF Received
<1>8. QED
  BY <1>5, <1>6, <1>7

LEMMA BucketNat == ASSUME NEW t \in Nat PROVE Bucket(t) \in Nat
<1>1. BucketSecs \in Nat \ {0}
  BY FlowAssumption
<1>2. t \div BucketSecs \in Nat
  BY <1>1
<1>3. \A a, b \in Nat : a * b \in Nat
  OBVIOUS
<1>4. QED
  BY <1>1, <1>2, <1>3 DEF Bucket

LEMMA EarliestIs ==
    ASSUME NEW S, S \subseteq Nat, S # {}
    PROVE  Earliest(S) \in S /\ \A t \in S : Earliest(S) <= t
<1>1. PICK x \in S : \A y \in S : ~ (<<y, x>> \in OpToRel(<, Nat))
  BY WFMin, NatLessThanWellFounded
<1>2. ASSUME NEW y \in S PROVE x <= y
  <2>1. <<y, x>> \in Nat \X Nat /\ (y < x => <<y, x>> \in OpToRel(<, Nat))
    BY DEF OpToRel
  <2>2. ~ (y < x)
    BY <1>1, <2>1
  <2>3. QED
    BY <2>2
<1>3. QED
  BY <1>2 DEF Earliest

-----------------------------------------------------------------------------
(* Evidence *)

\* What the model's variables are, as far as the argument needs it
FlowShape ==
    /\ clock \in Nat /\ snapped \in Nat /\ snapped <= clock
    /\ DOMAIN exporters = Exporters
    /\ \A e \in Exporters : /\ \A x, y \in exporters[e] : x = y
                            /\ \A x \in exporters[e] : IsExporter(x)
    /\ flush = [f \in {"phase", "dev", "closed", "todo", "gen", "published"} |-> flush[f]]
    /\ flush.closed = [e \in Exporters |-> flush.closed[e]]
    /\ \A e \in Exporters : IsBuckets(flush.closed[e])
    /\ owner = [e \in Exporters |-> owner[e]]
    /\ \A m \in DOMAIN first_seen : first_seen[m] \in Nat

\* Totals that the database may not have: in the pass, or in memory although
\* their window ended before the last snapshot.
InPass(e, ts, got, dev) ==
    ts \in DOMAIN flush.closed[e] /\ got = flush.closed[e][ts].got /\ dev = flush.dev[e]

Parked(e, ts, got, dev) ==
    /\ ts + BucketSecs <= snapped
    /\ \E x \in exporters[e] : ts \in DOMAIN x.buckets /\ got = x.buckets[ts].got /\ dev = x.dev

\* Their exporter is a contributor, and has no complete verdict for the bucket
\* unless its row holds them.
Secured(e, ts, got, dev) ==
    \A i \in Ifaces : (\E d \in got : d.iface = i) =>
        /\ <<e, dev, i>> \in DOMAIN first_seen /\ first_seen[<<e, dev, i>>] <= ts /\ owner[e] = dev
        /\ At(quality, <<e, ts>>, FALSE) =>
             {d \in got : d.iface = i} \subseteq At(rows, <<e, ts, i>>, [got |-> {}]).got

\* No exporter has a verdict for the bucket, and none is written before this one
\* is registered.
Untouched(e, ts) ==
    /\ \A k \in DOMAIN quality : k[2] # ts
    /\ flush.phase = "idle" \/ (flush.phase \in {"barrier", "register"} /\ e \in flush.todo)

Safe(e, ts, got, dev) == Secured(e, ts, got, dev) \/ Untouched(e, ts)

VerdictsClosed == \A k \in DOMAIN quality : k[2] \in Nat /\ k[2] + BucketSecs <= snapped

PassSafe ==
    \A e \in Exporters : \A ts, got, dev : InPass(e, ts, got, dev) =>
        /\ ts + BucketSecs <= snapped /\ flush.phase # "idle"
        /\ Stray(e, ts) \/ Safe(e, ts, got, dev)

ParkedSafe ==
    \A e \in Exporters : \A ts, got, dev : Parked(e, ts, got, dev) =>
        \/ Stray(e, ts)
        \/ /\ ts \notin DOMAIN flush.closed[e]
           /\ flush.phase # "idle" => flush.phase = "write" /\ dev = flush.dev[e]
           /\ Safe(e, ts, got, dev)

CohortInv == FlowShape /\ VerdictsClosed /\ PassSafe /\ ParkedSafe

LEMMA CohortImplies == CohortInv => EvidenceIsCohort
<1> SUFFICES ASSUME CohortInv, NEW dev \in Devices, NEW i \in Ifaces, NEW ts \in Buckets,
                    Available(dev, i, ts), NEW e \in Exporters, Withheld(e, dev, i, ts), ~ Stray(e, ts)
             PROVE  FALSE
  BY DEF EvidenceIsCohort
<1>1. PICK got : /\ InPass(e, ts, got, dev) \/ Parked(e, ts, got, dev)
                 /\ ~({d \in got : d.iface = i} \subseteq At(rows, <<e, ts, i>>, [got |-> {}]).got)
  <2>1. CASE ts \in DOMAIN flush.closed[e] /\ flush.dev[e] = dev /\ Unpublished(e, flush.closed[e][ts], i, ts)
    BY <2>1 DEF InPass, Unpublished
  <2>2. CASE \E x \in exporters[e] : /\ x.dev = dev /\ ts \in DOMAIN x.buckets /\ ts + BucketSecs <= snapped
                                     /\ Unpublished(e, x.buckets[ts], i, ts)
    BY <2>2 DEF Parked, Unpublished
  <2>3. QED
    BY <2>1, <2>2 DEF Withheld
<1>2. Safe(e, ts, got, dev)
  BY <1>1 DEF CohortInv, PassSafe, ParkedSafe
<1>3. PICK d \in got : d.iface = i
  BY <1>1
<1>4. CASE Secured(e, ts, got, dev)
  <2>1. <<e, dev, i>> \in Expected(dev, i, ts)
    BY <1>3, <1>4 DEF Secured, Expected
  <2>2. At(quality, <<e, ts>>, FALSE)
    BY <2>1 DEF Available
  <2>3. QED
    BY <1>1, <1>3, <1>4, <2>2 DEF Secured
<1>5. CASE Untouched(e, ts)
  <2>1. PICK m \in Expected(dev, i, ts) : At(quality, <<m[1], ts>>, FALSE)
    BY DEF Available
  <2>2. <<m[1], ts>> \in DOMAIN quality
    BY <2>1 DEF At
  <2>3. QED
    BY <1>5, <2>2 DEF Untouched
<1>6. QED
  BY <1>2, <1>4, <1>5 DEF Safe

store == <<owner, first_seen, rows, quality>>

LEMMA SecuredFrame ==
    ASSUME UNCHANGED store, NEW e, NEW ts, NEW got, NEW dev
    PROVE  Secured(e, ts, got, dev)' <=> Secured(e, ts, got, dev)
  BY DEF store, Secured, At

\* A step that leaves the pass and the database alone, and adds nothing to what
\* is parked but strays
LEMMA MemoryStep ==
    ASSUME CohortInv, FlowShape', UNCHANGED <<flush, store, snapped>>,
           late \subseteq late', adopted \subseteq adopted',
           \A e \in Exporters : \A ts, got, dev :
              Parked(e, ts, got, dev)' => Parked(e, ts, got, dev) \/ <<e, ts>> \in late'
    PROVE  CohortInv'
<1> USE DEF CohortInv
<1>1. VerdictsClosed'
  BY DEF VerdictsClosed, store
<1>2. \A e, ts : Stray(e, ts) => Stray(e, ts)'
  BY DEF Stray
<1>3. \A e, ts, got, dev : Safe(e, ts, got, dev) => Safe(e, ts, got, dev)'
  BY SecuredFrame DEF Safe, Untouched, store
<1>4. PassSafe'
  <2> SUFFICES ASSUME NEW e \in Exporters, NEW ts, NEW got, NEW dev, InPass(e, ts, got, dev)'
               PROVE  /\ ts + BucketSecs <= snapped' /\ flush'.phase # "idle"
                      /\ Stray(e, ts)' \/ Safe(e, ts, got, dev)'
    BY DEF PassSafe
  <2>1. InPass(e, ts, got, dev)
    BY DEF InPass
  <2>2. QED
    BY <2>1, <1>2, <1>3 DEF PassSafe
<1>5. ParkedSafe'
  <2> SUFFICES ASSUME NEW e \in Exporters, NEW ts, NEW got, NEW dev, Parked(e, ts, got, dev)', ~ Stray(e, ts)'
               PROVE  /\ ts \notin DOMAIN flush'.closed[e]
                      /\ flush'.phase # "idle" => flush'.phase = "write" /\ dev = flush'.dev[e]
                      /\ Safe(e, ts, got, dev)'
    BY DEF ParkedSafe
  <2>1. Parked(e, ts, got, dev)
    BY DEF Stray
  <2>2. QED
    BY <2>1, <1>2, <1>3 DEF ParkedSafe
<1>6. QED
  BY <1>1, <1>4, <1>5

\* A datagram for a window that a snapshot has passed makes its bucket a stray.
LEMMA ReceiveStep ==
    ASSUME CohortInv, NEW f \in Exporters, NEW d, NEW decoded \in BOOLEAN, NEW lag \in 0 .. 1,
           Receive(f, d, decoded, lag)
    PROVE  CohortInv'
<1> USE DEF CohortInv
<1> DEFINE now == clock - lag
           kept == {x \in exporters[f] : x.dev = allow[f]}
           before == IF kept = {} THEN NewExporter(allow[f], now) ELSE CHOOSE x \in kept : TRUE
           after == Received(before, d, decoded, now, Bucket(now))
<1>1. /\ now >= 0 /\ exporters' = [exporters EXCEPT ![f] = {after}]
      /\ UNCHANGED <<flush, store, snapped, clock, adopted>>
      /\ late' = IF Bucket(now) + BucketSecs <= snapped THEN late \cup {<<f, Bucket(now)>>} ELSE late
  BY DEF Receive, store
<1>2. now \in Nat /\ Bucket(now) \in Nat
  BY <1>1, BucketNat DEF FlowShape
<1>3. IsExporter(before) /\ (before \in exporters[f] \/ before.buckets = Empty)
  <2>1. CASE kept = {}
    <3>1. before = NewExporter(allow[f], now)
      BY <2>1
    <3> HIDE DEF before
    <3>2. before.buckets = Empty /\ IsBuckets(Empty)
      BY <3>1 DEF NewExporter, IsBuckets, Empty
    <3>3. before = [g \in {"dev", "buckets", "seq", "bucket", "uptime", "started", "seen"} |-> before[g]]
      BY <3>1 DEF NewExporter
    <3>4. QED
      BY <3>2, <3>3 DEF IsExporter
  <2>2. CASE kept # {}
    BY <2>2 DEF FlowShape
  <2>3. QED
    BY <2>1, <2>2
<1> HIDE DEF now, before
<1>4. Near(before, after, Bucket(now))
  BY <1>2, <1>3, NearReceived
<1> HIDE DEF after
<1>5. FlowShape'
  BY <1>1, <1>4 DEF FlowShape, Near, store
<1>6. ASSUME NEW e \in Exporters, NEW ts, NEW got, NEW dev, Parked(e, ts, got, dev)'
      PROVE  Parked(e, ts, got, dev) \/ <<e, ts>> \in late'
  <2>1. CASE e # f
    BY <1>1, <1>6, <2>1 DEF Parked, FlowShape
  <2>2. CASE e = f
    <3>1. /\ ts + BucketSecs <= snapped /\ ts \in DOMAIN after.buckets
          /\ got = after.buckets[ts].got /\ dev = after.dev
      BY <1>1, <1>6, <2>2 DEF Parked, FlowShape
    <3>2. CASE ts = Bucket(now)
      BY <1>1, <2>2, <3>1, <3>2
    <3>3. CASE ts # Bucket(now)
      <4>1. ts \in DOMAIN before.buckets /\ got = before.buckets[ts].got /\ dev = before.dev
        BY <1>4, <3>1, <3>3 DEF Near
      <4>2. before \in exporters[f]
        BY <1>3, <4>1 DEF Empty
      <4>3. QED
        BY <2>2, <3>1, <4>1, <4>2 DEF Parked
    <3>4. QED
      BY <3>2, <3>3
  <2>3. QED
    BY <2>1, <2>2
<1>7. late \subseteq late'
  BY <1>1
<1>8. QED
  BY <1>1, <1>5, <1>6, <1>7, MemoryStep

LEMMA QuietStep ==
    ASSUME CohortInv,
           \/ \E e \in Exporters : EvictExporter(e)
           \/ \E new \in [Exporters -> Devices \cup {NoDevice}] : RefreshAllowlist(new)
           \/ Tick \/ UNCHANGED flowVars
    PROVE  CohortInv'
<1> USE DEF CohortInv
<1>1. CASE \E e \in Exporters : EvictExporter(e)
  <2>1. PICK f \in Exporters : EvictExporter(f)
    BY <1>1
  <2>2. exporters' = [exporters EXCEPT ![f] = {}] /\ UNCHANGED <<flush, store, snapped, clock, late, adopted>>
    BY <2>1 DEF EvictExporter, store
  <2>3. FlowShape'
    BY <2>2 DEF FlowShape, store
  <2>4. \A e \in Exporters : \A ts, got, dev : Parked(e, ts, got, dev)' => Parked(e, ts, got, dev)
    BY <2>2 DEF Parked, FlowShape
  <2>5. QED
    BY <2>2, <2>3, <2>4, MemoryStep
<1>2. CASE ~ \E e \in Exporters : EvictExporter(e)
  <2>1. /\ UNCHANGED <<exporters, flush, store, snapped, late, adopted>>
        /\ clock' = clock \/ clock' = clock + 1
    BY <1>2 DEF RefreshAllowlist, Tick, flowVars, store
  <2>2. FlowShape'
    BY <2>1 DEF FlowShape, store
  <2>3. \A e \in Exporters : \A ts, got, dev : Parked(e, ts, got, dev)' => Parked(e, ts, got, dev)
    BY <2>1 DEF Parked
  <2>4. QED
    BY <2>1, <2>2, <2>3, MemoryStep
<1>3. QED
  BY <1>1, <1>2

\* What is taken is new to the database, unless a failed pass put it back.
LEMMA SnapshotStep == ASSUME CohortInv, Snapshot PROVE CohortInv'
<1> USE DEF CohortInv
<1> DEFINE state(e) == CHOOSE x \in exporters[e] : TRUE
           dev == [e \in Exporters |-> IF exporters[e] = {} THEN NoDevice ELSE state(e).dev]
           taken == [e \in Exporters |-> IF exporters[e] = {} THEN {} ELSE Closed(state(e))]
           full == {e \in Exporters : taken[e] # {}}
           closed == [e \in Exporters |-> [ts \in taken[e] |-> state(e).buckets[ts]]]
<1>1. /\ flush.phase = "idle" /\ UNCHANGED <<store, clock, late, adopted>> /\ snapped' = clock
      /\ exporters' = [e \in Exporters |-> {[x EXCEPT !.buckets = Without(@, Closed(x))] : x \in exporters[e]}]
      /\ flush' = [Idle EXCEPT !.phase = IF full = {} THEN "write" ELSE "barrier",
                       !.gen = 1 - barrier.gen, !.dev = dev,
                       !.todo = IF full = {} THEN Stale(dev) ELSE full, !.closed = closed]
  BY DEF Snapshot, store
<1>2. /\ flush'.phase = (IF full = {} THEN "write" ELSE "barrier") /\ flush'.dev = dev /\ flush'.closed = closed
      /\ (full # {} => flush'.todo = full)
      /\ flush' = [f \in {"phase", "dev", "closed", "todo", "gen", "published"} |-> flush'[f]]
  BY <1>1 DEF Idle
<1>3. \A e \in Exporters : \A x \in exporters[e] : state(e) = x /\ taken[e] = Closed(x) /\ dev[e] = x.dev
  BY DEF FlowShape
<1>4. ASSUME NEW e \in Exporters, exporters[e] = {} PROVE taken[e] = {}
  BY <1>4
<1> DEFINE left(x) == [x EXCEPT !.buckets = Without(@, Closed(x))]
<1>5. ASSUME NEW e \in Exporters, NEW x \in exporters[e]
      PROVE  /\ IsExporter(left(x)) /\ left(x).dev = x.dev
             /\ DOMAIN left(x).buckets = DOMAIN x.buckets \ Closed(x)
  <2>1. IsExporter(x)
    BY DEF FlowShape
  <2>2. IsBuckets(Without(x.buckets, Closed(x)))
    BY <2>1, WithoutBuckets DEF IsExporter
  <2>3. DOMAIN Without(x.buckets, Closed(x)) = DOMAIN x.buckets \ Closed(x)
    BY DEF Without
  <2>4. QED
    BY <2>1, <2>2, <2>3 DEF IsExporter
<1>6. ASSUME NEW e \in Exporters PROVE IsBuckets(closed[e])
  <2>1. CASE exporters[e] = {}
    BY <1>4, <2>1 DEF IsBuckets
  <2>2. CASE exporters[e] # {}
    <3>1. PICK x \in exporters[e] : TRUE
      BY <2>2
    <3>2. IsBuckets(x.buckets) /\ Closed(x) \subseteq DOMAIN x.buckets
      BY DEF FlowShape, IsExporter, Closed
    <3>3. closed[e] = [ts \in Closed(x) |-> x.buckets[ts]]
      BY <1>3, <3>1
    <3> HIDE DEF closed
    <3>4. QED
      BY <3>2, <3>3 DEF IsBuckets
  <2>3. QED
    BY <2>1, <2>2
<1>7. ASSUME NEW e \in Exporters, NEW ts \in DOMAIN closed[e]
      PROVE  \E x \in exporters[e] : /\ ts \in DOMAIN x.buckets /\ ts + BucketSecs <= clock
                                     /\ closed[e][ts] = x.buckets[ts] /\ dev[e] = x.dev /\ e \in full
  <2>1. PICK x \in exporters[e] : TRUE
    BY <1>4, <1>7
  <2>2. ts \in Closed(x) /\ closed[e][ts] = x.buckets[ts] /\ e \in full
    BY <1>3, <2>1
  <2>3. QED
    BY <1>3, <2>1, <2>2 DEF Closed
<1> HIDE DEF left
<1>8. DOMAIN exporters' = Exporters /\ \A e \in Exporters : exporters'[e] = {left(x) : x \in exporters[e]}
  BY <1>1 DEF left
<1>9. DOMAIN closed = Exporters /\ closed = [e \in Exporters |-> closed[e]]
  OBVIOUS
<1> HIDE DEF state, dev, taken, full, closed
<1>10. FlowShape'
  <2>1. \A e \in Exporters : /\ \A x, y \in exporters'[e] : x = y
                             /\ \A x \in exporters'[e] : IsExporter(x)
    BY <1>5, <1>8 DEF FlowShape
  <2>2. clock' \in Nat /\ snapped' \in Nat /\ snapped' <= clock'
    BY <1>1 DEF FlowShape
  <2>3. flush'.closed = [e \in Exporters |-> flush'.closed[e]] /\ \A e \in Exporters : IsBuckets(flush'.closed[e])
    BY <1>2, <1>6, <1>9
  <2>4. owner' = [e \in Exporters |-> owner'[e]] /\ \A m \in DOMAIN first_seen' : first_seen'[m] \in Nat
    BY <1>1 DEF FlowShape, store
  <2>5. QED
    BY <1>2, <1>8, <2>1, <2>2, <2>3, <2>4 DEF FlowShape
<1>11. snapped <= snapped'
  BY <1>1 DEF FlowShape
<1>12. VerdictsClosed'
  <2>1. \A k \in DOMAIN quality : k[2] \in Nat /\ k[2] + BucketSecs <= snapped /\ BucketSecs \in Nat
    BY FlowAssumption DEF VerdictsClosed
  <2>2. \A k \in DOMAIN quality : k[2] \in Nat /\ k[2] + BucketSecs <= snapped'
    BY <1>11, <1>10, <2>1 DEF FlowShape
  <2>3. QED
    BY <1>1, <2>2 DEF VerdictsClosed, store
<1>13. PassSafe'
  <2> SUFFICES ASSUME NEW e \in Exporters, NEW ts, NEW got, NEW d, InPass(e, ts, got, d)', ~ Stray(e, ts)'
               PROVE  ts + BucketSecs <= snapped' /\ flush'.phase # "idle" /\ Safe(e, ts, got, d)'
    <3>1. \A e \in Exporters : \A ts, got, d : InPass(e, ts, got, d)' =>
            ts + BucketSecs <= snapped' /\ flush'.phase # "idle"
      BY <1>1, <1>2, <1>7 DEF InPass
    <3>2. QED
      BY <3>1 DEF PassSafe
  <2>1. PICK x \in exporters[e] : /\ ts \in DOMAIN x.buckets /\ ts + BucketSecs <= clock
                                  /\ closed[e][ts] = x.buckets[ts] /\ dev[e] = x.dev /\ e \in full
    BY <1>2, <1>7 DEF InPass
  <2>2. got = x.buckets[ts].got /\ d = x.dev /\ flush'.phase = "barrier" /\ e \in flush'.todo
    BY <1>2, <2>1 DEF InPass
  <2>3. ~ Stray(e, ts)
    BY <1>1 DEF Stray
  <2>4. Safe(e, ts, got, d)'
    <3>1. CASE Parked(e, ts, got, d)
      <4>1. Safe(e, ts, got, d)
        BY <2>3, <3>1 DEF ParkedSafe
      <4>2. QED
        BY <1>1, <2>2, <4>1, SecuredFrame DEF Safe, Untouched, store
    <3>2. CASE ~ Parked(e, ts, got, d)
      <4>1. ~ (ts + BucketSecs <= snapped)
        BY <2>1, <2>2, <3>2 DEF Parked
      <4>2. \A k \in DOMAIN quality : k[2] # ts
        BY <4>1 DEF VerdictsClosed
      <4>3. QED
        BY <1>1, <2>2, <4>2 DEF Safe, Untouched, store
    <3>3. QED
      BY <3>1, <3>2
  <2>5. QED
    BY <1>1, <2>1, <2>2, <2>4
<1>14. ParkedSafe'
  <2> SUFFICES ASSUME NEW e \in Exporters, NEW ts, NEW got, NEW d, Parked(e, ts, got, d)' PROVE FALSE
    BY DEF ParkedSafe
  <2>1. PICK x \in exporters[e] : ts \in DOMAIN left(x).buckets /\ ts + BucketSecs <= clock
    BY <1>1, <1>8 DEF Parked
  <2>2. QED
    BY <1>5, <2>1 DEF Closed
<1>15. QED
  BY <1>10, <1>12, <1>13, <1>14

\* Registering interfaces keeps every contributor, with the earliest bucket.
LEMMA RegisteredIs ==
    ASSUME FlowShape, NEW e \in Exporters, NEW new,
           \A m \in new : m \in Members(e) /\ Contributes(m) # {},
           first_seen' = RegisteredWith(new)
    PROVE  /\ DOMAIN first_seen' = DOMAIN first_seen \cup new
           /\ \A m \in DOMAIN first_seen' : first_seen'[m] \in Nat
           /\ \A m \in DOMAIN first_seen : first_seen'[m] <= first_seen[m]
           /\ \A m \in new : \A ts \in Contributes(m) : first_seen'[m] <= ts
<1> DEFINE times(m) == (IF m \in DOMAIN first_seen THEN {first_seen[m]} ELSE {})
                       \cup (IF m \in new THEN Contributes(m) ELSE {})
<1>1. first_seen' = [m \in DOMAIN first_seen \cup new |-> Earliest(times(m))]
  BY DEF RegisteredWith
<1>2. \A m \in new : Contributes(m) \subseteq Nat
  <2>1. \A m \in new : m[1] = e
    BY DEF Members
  <2>2. DOMAIN flush.closed[e] \subseteq Nat
    BY DEF FlowShape, IsBuckets
  <2>3. QED
    BY <2>1, <2>2 DEF Contributes
<1>3. ASSUME NEW m \in DOMAIN first_seen \cup new
      PROVE  Earliest(times(m)) \in times(m) /\ \A t \in times(m) : Earliest(times(m)) <= t
  <2>1. times(m) \subseteq Nat /\ times(m) # {}
    BY <1>2 DEF FlowShape
  <2> HIDE DEF times
  <2>2. QED
    BY <2>1, EarliestIs
<1>4. \A m \in DOMAIN first_seen \cup new : first_seen'[m] = Earliest(times(m)) /\ times(m) \subseteq Nat
  BY <1>1, <1>2 DEF FlowShape
<1>5. DOMAIN first_seen' = DOMAIN first_seen \cup new
  BY <1>1
<1>6. \A m \in DOMAIN first_seen : first_seen[m] \in times(m)
  OBVIOUS
<1>7. \A m \in new : Contributes(m) \subseteq times(m)
  OBVIOUS
<1> HIDE DEF times
<1>8. QED
  BY <1>3, <1>4, <1>5, <1>6, <1>7

LEMMA BarrierStep == ASSUME CohortInv, RaiseBarrier \/ OpenBarrier PROVE CohortInv'
<1> USE DEF CohortInv
<1>1. /\ UNCHANGED <<store, clock, snapped, late, adopted, exporters>>
      /\ flush' = [flush EXCEPT !.phase = "register"]
         \/ flush' = [flush EXCEPT !.phase = "write", !.todo = Stale(flush.dev)]
  BY DEF RaiseBarrier, OpenBarrier, store
<1>2. /\ flush'.closed = flush.closed /\ flush'.dev = flush.dev
      /\ flush' = [f \in {"phase", "dev", "closed", "todo", "gen", "published"} |-> flush'[f]]
      /\ \/ flush.phase = "barrier" /\ flush'.phase = "register"
         \/ flush.phase = "register" /\ flush.todo = {} /\ flush'.phase = "write"
  <2>1. CASE RaiseBarrier
    BY <2>1 DEF RaiseBarrier, FlowShape
  <2>2. CASE OpenBarrier
    BY <2>2 DEF OpenBarrier, FlowShape
  <2>3. QED
    BY <2>1, <2>2
<1>3. FlowShape'
  BY <1>1, <1>2 DEF FlowShape, store
<1>4. VerdictsClosed'
  BY <1>1 DEF VerdictsClosed, store
<1>5. \A e, ts : Stray(e, ts)' <=> Stray(e, ts)
  BY <1>1 DEF Stray
<1>6. ASSUME NEW e \in Exporters, NEW ts, NEW got, NEW dev, InPass(e, ts, got, dev) \/ Parked(e, ts, got, dev)
      PROVE  Safe(e, ts, got, dev) => Safe(e, ts, got, dev)'
  BY <1>1, <1>2, SecuredFrame DEF Safe, Untouched, store
<1>7. PassSafe'
  <2> SUFFICES ASSUME NEW e \in Exporters, NEW ts, NEW got, NEW dev, InPass(e, ts, got, dev)'
               PROVE  /\ ts + BucketSecs <= snapped' /\ flush'.phase # "idle"
                      /\ Stray(e, ts)' \/ Safe(e, ts, got, dev)'
    BY DEF PassSafe
  <2>1. InPass(e, ts, got, dev)
    BY <1>2 DEF InPass
  <2>2. QED
    BY <1>1, <1>2, <1>5, <1>6, <2>1 DEF PassSafe
<1>8. ParkedSafe'
  <2> SUFFICES ASSUME NEW e \in Exporters, NEW ts, NEW got, NEW dev, Parked(e, ts, got, dev)'
               PROVE  Stray(e, ts)'
    BY DEF ParkedSafe
  <2>1. Parked(e, ts, got, dev)
    BY <1>1 DEF Parked
  <2>2. QED
    BY <1>2, <1>5, <2>1 DEF ParkedSafe
<1>9. QED
  BY <1>3, <1>4, <1>7, <1>8

\* Once its exporter is registered a bucket counts as missing until its row is
\* written.
LEMMA RegisterStep ==
    ASSUME CohortInv, NEW f \in Exporters, RegisterContributors(f) PROVE CohortInv'
<1> USE DEF CohortInv
<1> DEFINE new == {m \in Members(f) : Contributes(m) # {}}
<1>1. /\ flush.phase = "register" /\ UNCHANGED <<exporters, rows, clock, snapped, late, adopted>>
      /\ owner' = [owner EXCEPT ![f] = flush.dev[f]]
      /\ quality' = Without(quality, {<<f, ts>> : ts \in DOMAIN flush.closed[f]})
      /\ first_seen' = RegisteredWith(new)
      /\ flush' = [flush EXCEPT !.todo = @ \ {f}]
  BY DEF RegisterContributors
<1>2. /\ flush'.closed = flush.closed /\ flush'.dev = flush.dev /\ flush'.phase = flush.phase
      /\ flush'.todo = flush.todo \ {f}
      /\ flush' = [g \in {"phase", "dev", "closed", "todo", "gen", "published"} |-> flush'[g]]
  BY <1>1 DEF FlowShape
<1>3. /\ DOMAIN first_seen' = DOMAIN first_seen \cup new
      /\ \A m \in DOMAIN first_seen' : first_seen'[m] \in Nat
      /\ \A m \in DOMAIN first_seen : first_seen'[m] <= first_seen[m] /\ first_seen[m] \in Nat
      /\ \A m \in new : \A ts \in Contributes(m) : first_seen'[m] <= ts
  <2>1. \A m \in new : m \in Members(f) /\ Contributes(m) # {}
    OBVIOUS
  <2> HIDE DEF new
  <2>2. QED
    BY <1>1, <2>1, RegisteredIs DEF FlowShape
<1>4. FlowShape'
  BY <1>1, <1>2, <1>3 DEF FlowShape
<1>5. /\ \A k \in DOMAIN quality' : k \in DOMAIN quality /\ quality'[k] = quality[k]
      /\ \A ts \in DOMAIN flush.closed[f] : <<f, ts>> \notin DOMAIN quality'
      /\ DOMAIN quality' \subseteq DOMAIN quality
  BY <1>1 DEF Without
<1>6. VerdictsClosed'
  BY <1>1, <1>5 DEF VerdictsClosed
<1>7. \A e, ts : Stray(e, ts)' <=> Stray(e, ts)
  BY <1>1 DEF Stray
<1>8. ASSUME NEW e \in Exporters, e # f, NEW ts \in Nat, NEW got, NEW dev, Safe(e, ts, got, dev)
      PROVE  Safe(e, ts, got, dev)'
  <2>1. CASE Secured(e, ts, got, dev)
    <3>1. \A k : At(quality', k, FALSE) => At(quality, k, FALSE)
      BY <1>5 DEF At
    <3>2. owner'[e] = owner[e] /\ rows' = rows
      BY <1>1, <1>8
    <3>3. \A m \in DOMAIN first_seen : m \in DOMAIN first_seen' /\ (first_seen[m] <= ts => first_seen'[m] <= ts)
      BY <1>3, <1>8
    <3>4. Secured(e, ts, got, dev)'
      BY <2>1, <3>1, <3>2, <3>3 DEF Secured
    <3>5. QED
      BY <3>4 DEF Safe
  <2>2. CASE Untouched(e, ts)
    BY <1>2, <1>5, <1>8, <2>2 DEF Safe, Untouched
  <2>3. QED
    BY <1>8, <2>1, <2>2 DEF Safe
<1>9. ASSUME NEW ts, NEW got, NEW dev, InPass(f, ts, got, dev)
      PROVE  Secured(f, ts, got, dev)'
  <2>1. ts \in DOMAIN flush.closed[f] /\ got = flush.closed[f][ts].got /\ dev = flush.dev[f]
    BY <1>9 DEF InPass
  <2>2. owner'[f] = dev /\ ~ At(quality', <<f, ts>>, FALSE)
    BY <1>1, <1>5, <2>1 DEF FlowShape, At
  <2>3. ASSUME NEW i \in Ifaces, \E d \in got : d.iface = i
        PROVE  <<f, dev, i>> \in DOMAIN first_seen' /\ first_seen'[<<f, dev, i>>] <= ts
    <3>1. ts \in Contributes(<<f, dev, i>>) /\ <<f, dev, i>> \in Members(f)
      BY <2>1, <2>3 DEF Contributes, Members, KeysOf
    <3>2. <<f, dev, i>> \in new
      BY <3>1
    <3> HIDE DEF new
    <3>3. QED
      BY <1>3, <3>1, <3>2
  <2>4. QED
    BY <2>2, <2>3 DEF Secured
<1>10. PassSafe'
  <2> SUFFICES ASSUME NEW e \in Exporters, NEW ts, NEW got, NEW dev, InPass(e, ts, got, dev)'
               PROVE  /\ ts + BucketSecs <= snapped' /\ flush'.phase # "idle"
                      /\ Stray(e, ts)' \/ Safe(e, ts, got, dev)'
    BY DEF PassSafe
  <2>1. InPass(e, ts, got, dev) /\ ts \in Nat
    BY <1>2 DEF InPass, FlowShape, IsBuckets
  <2>2. QED
    BY <1>1, <1>2, <1>7, <1>8, <1>9, <2>1 DEF PassSafe, Safe
<1>11. ParkedSafe'
  <2> SUFFICES ASSUME NEW e \in Exporters, NEW ts, NEW got, NEW dev, Parked(e, ts, got, dev)'
               PROVE  Stray(e, ts)'
    BY DEF ParkedSafe
  <2>1. Parked(e, ts, got, dev)
    BY <1>1 DEF Parked
  <2>2. QED
    BY <1>1, <1>7, <2>1 DEF ParkedSafe
<1>12. QED
  BY <1>4, <1>6, <1>10, <1>11

\* In the write phase the row of an exporter names the device of its buckets.
LEMMA UpsertStep == ASSUME CohortInv, NEW f \in Exporters, UpsertExporter(f) PROVE CohortInv'
<1> USE DEF CohortInv
<1>1. /\ flush.phase = "write" /\ UNCHANGED <<exporters, first_seen, rows, quality, clock, snapped, late, adopted>>
      /\ owner' = [owner EXCEPT ![f] = flush.dev[f]] /\ flush' = [flush EXCEPT !.todo = @ \ {f}]
  BY DEF UpsertExporter
<1>2. /\ flush'.closed = flush.closed /\ flush'.dev = flush.dev /\ flush'.phase = flush.phase
      /\ flush' = [g \in {"phase", "dev", "closed", "todo", "gen", "published"} |-> flush'[g]]
      /\ owner'[f] = flush.dev[f] /\ \A e \in Exporters : e # f => owner'[e] = owner[e]
  BY <1>1 DEF FlowShape
<1>3. FlowShape'
  BY <1>1, <1>2 DEF FlowShape
<1>4. VerdictsClosed'
  BY <1>1 DEF VerdictsClosed
<1>5. \A e, ts : Stray(e, ts)' <=> Stray(e, ts)
  BY <1>1 DEF Stray
<1>6. ASSUME NEW e \in Exporters, NEW ts, NEW got, NEW dev, Safe(e, ts, got, dev), e = f => dev = flush.dev[e]
      PROVE  Safe(e, ts, got, dev)'
  <2>1. Secured(e, ts, got, dev)
    BY <1>1, <1>6 DEF Safe, Untouched
  <2>2. owner[e] = dev => owner'[e] = dev
    BY <1>2, <1>6
  <2>3. Secured(e, ts, got, dev)'
    BY <1>1, <2>1, <2>2 DEF Secured, At
  <2>4. QED
    BY <2>3 DEF Safe
<1>7. PassSafe'
  <2> SUFFICES ASSUME NEW e \in Exporters, NEW ts, NEW got, NEW dev, InPass(e, ts, got, dev)'
               PROVE  /\ ts + BucketSecs <= snapped' /\ flush'.phase # "idle"
                      /\ Stray(e, ts)' \/ Safe(e, ts, got, dev)'
    BY DEF PassSafe
  <2>1. InPass(e, ts, got, dev) /\ dev = flush.dev[e]
    BY <1>2 DEF InPass
  <2>2. QED
    BY <1>1, <1>2, <1>5, <1>6, <2>1 DEF PassSafe
<1>8. ParkedSafe'
  <2> SUFFICES ASSUME NEW e \in Exporters, NEW ts, NEW got, NEW dev, Parked(e, ts, got, dev)', ~ Stray(e, ts)'
               PROVE  /\ ts \notin DOMAIN flush'.closed[e]
                      /\ flush'.phase # "idle" => flush'.phase = "write" /\ dev = flush'.dev[e]
                      /\ Safe(e, ts, got, dev)'
    BY DEF ParkedSafe
  <2>1. Parked(e, ts, got, dev)
    BY <1>1 DEF Parked
  <2>2. ts \notin DOMAIN flush.closed[e] /\ dev = flush.dev[e] /\ Safe(e, ts, got, dev)
    BY <1>1, <1>5, <2>1 DEF ParkedSafe
  <2>3. QED
    BY <1>1, <1>2, <1>6, <2>2
<1>9. QED
  BY <1>3, <1>4, <1>7, <1>8

\* Writing a bucket leaves what other buckets rest on, and its own rows hold
\* all its totals.
LEMMA WrittenKeeps ==
    ASSUME FlowShape, NEW f \in Exporters, NEW t \in DOMAIN flush.closed[f], Written(f, t),
           UNCHANGED owner, NEW e \in Exporters, NEW ts \in Nat, NEW got, NEW dev,
           Secured(e, ts, got, dev), <<e, ts>> = <<f, t>> => got = flush.closed[f][t].got
    PROVE  Secured(e, ts, got, dev)'
<1> DEFINE acc == flush.closed[f][t]
           keys == {<<f, t, i>> : i \in KeysOf(acc)}
           new == {m \in Members(f) : t \in Contributes(m)}
<1>1. /\ rows' = [k \in DOMAIN rows \cup keys |->
                     IF k \in keys THEN [dev |-> At(rows, k, [dev |-> flush.dev[f], got |-> {}]).dev,
                                         got |-> {d \in acc.got : d.iface = k[3]}]
                     ELSE rows[k]]
      /\ first_seen' = RegisteredWith(new)
      /\ quality' = With(quality, <<f, t>>, Complete(acc))
  BY DEF Written
<1>2. \A m \in DOMAIN first_seen : m \in DOMAIN first_seen' /\ first_seen'[m] \in Nat
                                   /\ first_seen'[m] <= first_seen[m] /\ first_seen[m] \in Nat
  <2>1. first_seen' = RegisteredWith(new) /\ \A m \in new : m \in Members(f) /\ Contributes(m) # {}
    BY <1>1
  <2> HIDE DEF new
  <2>2. /\ DOMAIN first_seen' = DOMAIN first_seen \cup new
        /\ \A m \in DOMAIN first_seen' : first_seen'[m] \in Nat
        /\ \A m \in DOMAIN first_seen : first_seen'[m] <= first_seen[m]
    BY <2>1, RegisteredIs
  <2>3. QED
    BY <2>2 DEF FlowShape
<1>3. SUFFICES ASSUME NEW i \in Ifaces, \E d \in got : d.iface = i
               PROVE  /\ <<e, dev, i>> \in DOMAIN first_seen' /\ first_seen'[<<e, dev, i>>] <= ts /\ owner'[e] = dev
                      /\ At(quality', <<e, ts>>, FALSE) =>
                           {d \in got : d.iface = i} \subseteq At(rows', <<e, ts, i>>, [got |-> {}]).got
  BY DEF Secured
<1>4. /\ <<e, dev, i>> \in DOMAIN first_seen /\ first_seen[<<e, dev, i>>] <= ts /\ owner[e] = dev
      /\ At(quality, <<e, ts>>, FALSE) =>
           {d \in got : d.iface = i} \subseteq At(rows, <<e, ts, i>>, [got |-> {}]).got
  BY <1>3 DEF Secured
<1>5. <<e, dev, i>> \in DOMAIN first_seen' /\ first_seen'[<<e, dev, i>>] <= ts /\ owner'[e] = dev
  BY <1>2, <1>4
<1>6. CASE <<e, ts>> = <<f, t>>
  <2>1. got = acc.got /\ i \in KeysOf(acc)
    BY <1>3, <1>6 DEF KeysOf
  <2>2. <<e, ts, i>> \in keys
    BY <1>6, <2>1
  <2> HIDE DEF acc, keys
  <2>3. <<e, ts, i>> \in DOMAIN rows' /\ rows'[<<e, ts, i>>].got = {d \in acc.got : d.iface = i}
    BY <1>1, <2>2
  <2>4. QED
    BY <1>5, <2>1, <2>3 DEF At
<1>7. CASE <<e, ts>> # <<f, t>>
  <2>1. <<e, ts, i>> \notin keys
    BY <1>7
  <2> HIDE DEF acc, keys
  <2>2. At(rows', <<e, ts, i>>, [got |-> {}]) = At(rows, <<e, ts, i>>, [got |-> {}])
    BY <1>1, <2>1 DEF At
  <2>3. At(quality', <<e, ts>>, FALSE) = At(quality, <<e, ts>>, FALSE)
    BY <1>1, <1>7 DEF At, With
  <2>4. QED
    BY <1>4, <1>5, <2>2, <2>3
<1>8. QED
  BY <1>6, <1>7

LEMMA WrittenShape ==
    ASSUME FlowShape, VerdictsClosed, PassSafe, NEW f \in Exporters, NEW t \in DOMAIN flush.closed[f], Written(f, t)
    PROVE  /\ \A m \in DOMAIN first_seen' : first_seen'[m] \in Nat
           /\ \A k \in DOMAIN quality' : k[2] \in Nat /\ k[2] + BucketSecs <= snapped
<1> DEFINE new == {m \in Members(f) : t \in Contributes(m)}
<1>1. first_seen' = RegisteredWith(new) /\ quality' = With(quality, <<f, t>>, Complete(flush.closed[f][t]))
  BY DEF Written
<1>2. \A m \in new : m \in Members(f) /\ Contributes(m) # {}
  OBVIOUS
<1>3. t \in Nat /\ t + BucketSecs <= snapped
  BY DEF FlowShape, IsBuckets, PassSafe, InPass
<1>4. \A k \in DOMAIN quality' : k \in DOMAIN quality \/ k = <<f, t>>
  BY <1>1 DEF With
<1> HIDE DEF new
<1>5. \A m \in DOMAIN first_seen' : first_seen'[m] \in Nat
  BY <1>1, <1>2, RegisteredIs
<1>6. QED
  BY <1>3, <1>4, <1>5 DEF VerdictsClosed

LEMMA WriteStep == ASSUME CohortInv, NEW f \in Exporters, WriteBucket(f) PROVE CohortInv'
<1> USE DEF CohortInv
<1>1. PICK t \in Newest(f) :
         /\ Written(f, t)
         /\ flush' = [flush EXCEPT !.closed[f] = Without(@, {t}),
                        !.published = @ \cup {<<flush.dev[f], i>> : i \in KeysOf(flush.closed[f][t])}]
  BY DEF WriteBucket
<1>2. /\ flush.phase = "write" /\ t \in DOMAIN flush.closed[f]
      /\ UNCHANGED <<exporters, owner, clock, snapped, late, adopted>>
  BY DEF WriteBucket, Newest
<1>3. /\ flush'.closed = [flush.closed EXCEPT ![f] = Without(flush.closed[f], {t})]
      /\ flush'.dev = flush.dev /\ flush'.phase = flush.phase
      /\ flush' = [g \in {"phase", "dev", "closed", "todo", "gen", "published"} |-> flush'[g]]
  BY <1>1 DEF FlowShape
<1>4. IsBuckets(Without(flush.closed[f], {t}))
  BY WithoutBuckets DEF FlowShape
<1>5. \A m \in DOMAIN first_seen' : first_seen'[m] \in Nat
  BY <1>1, <1>2, WrittenShape
<1>6. FlowShape'
  BY <1>2, <1>3, <1>4, <1>5 DEF FlowShape
<1>7. VerdictsClosed'
  BY <1>1, <1>2, WrittenShape DEF VerdictsClosed
<1>8. \A e, ts : Stray(e, ts)' <=> Stray(e, ts)
  BY <1>2 DEF Stray
<1>9. ASSUME NEW e \in Exporters, NEW ts, NEW got, NEW dev
      PROVE  InPass(e, ts, got, dev)' => InPass(e, ts, got, dev) /\ <<e, ts>> # <<f, t>>
  BY <1>3 DEF InPass, FlowShape, Without
<1>10. ASSUME NEW e \in Exporters, NEW ts \in Nat, NEW got, NEW dev, Safe(e, ts, got, dev), <<e, ts>> # <<f, t>>
       PROVE  Safe(e, ts, got, dev)'
  <2>1. Secured(e, ts, got, dev)
    BY <1>2, <1>10 DEF Safe, Untouched
  <2>2. Secured(e, ts, got, dev)'
    BY <1>1, <1>2, <1>10, <2>1, WrittenKeeps
  <2>3. QED
    BY <2>2 DEF Safe
<1>11. PassSafe'
  <2> SUFFICES ASSUME NEW e \in Exporters, NEW ts, NEW got, NEW dev, InPass(e, ts, got, dev)'
               PROVE  /\ ts + BucketSecs <= snapped' /\ flush'.phase # "idle"
                      /\ Stray(e, ts)' \/ Safe(e, ts, got, dev)'
    BY DEF PassSafe
  <2>1. InPass(e, ts, got, dev) /\ <<e, ts>> # <<f, t>>
    BY <1>9
  <2>2. ts \in Nat
    BY <2>1 DEF InPass, FlowShape, IsBuckets
  <2>3. QED
    BY <1>2, <1>3, <1>8, <1>10, <2>1, <2>2 DEF PassSafe
<1>12. ParkedSafe'
  <2> SUFFICES ASSUME NEW e \in Exporters, NEW ts, NEW got, NEW dev, Parked(e, ts, got, dev)', ~ Stray(e, ts)'
               PROVE  /\ ts \notin DOMAIN flush'.closed[e]
                      /\ flush'.phase # "idle" => flush'.phase = "write" /\ dev = flush'.dev[e]
                      /\ Safe(e, ts, got, dev)'
    BY DEF ParkedSafe
  <2>1. Parked(e, ts, got, dev) /\ ts \in Nat
    BY <1>2 DEF Parked, FlowShape, IsExporter, IsBuckets
  <2>2. ts \notin DOMAIN flush.closed[e] /\ dev = flush.dev[e] /\ Safe(e, ts, got, dev)
    BY <1>2, <1>8, <2>1 DEF ParkedSafe
  <2>3. <<e, ts>> # <<f, t>>
    BY <1>2, <2>2
  <2>4. ts \notin DOMAIN flush'.closed[e]
    BY <1>3, <2>2 DEF FlowShape, Without
  <2>5. QED
    BY <1>2, <1>3, <1>10, <2>1, <2>2, <2>3, <2>4
<1>13. QED
  BY <1>6, <1>7, <1>11, <1>12

LEMMA MergedShape ==
    ASSUME NEW a, NEW b, NEW r \in merge_from(a, b) PROVE IsAccum(r)
  BY DEF merge_from, IsAccum

\* A bucket of an exporter into which others were put back was there, or is one
\* of the others, or both.
LEMMA PutBackIs ==
    ASSUME NEW x, IsExporter(x), NEW closed, IsBuckets(closed), NEW y \in PutBack(x, closed)
    PROVE  /\ IsExporter(y) /\ y.dev = x.dev
           /\ \A ts \in DOMAIN y.buckets :
                \/ ts \in DOMAIN x.buckets /\ ts \in DOMAIN closed
                \/ ts \in DOMAIN x.buckets /\ y.buckets[ts] = x.buckets[ts]
                \/ ts \in DOMAIN closed /\ y.buckets[ts] = closed[ts]
<1> DEFINE kept == Newer(DOMAIN x.buckets \cup DOMAIN closed)
           results(t) == IF t \notin DOMAIN closed THEN {x.buckets[t]}
                         ELSE IF t \notin DOMAIN x.buckets THEN {closed[t]}
                         ELSE merge_from(x.buckets[t], closed[t])
<1>1. PICK b \in [kept -> UNION {results(t) : t \in kept}] :
         /\ \A t \in kept : b[t] \in results(t)
         /\ y = [x EXCEPT !.buckets = b]
  BY DEF PutBack
<1>2. kept \subseteq DOMAIN x.buckets \cup DOMAIN closed
  BY DEF Newer
<1>3. \A t \in kept : \/ t \in DOMAIN x.buckets /\ t \in DOMAIN closed /\ b[t] \in merge_from(x.buckets[t], closed[t])
                      \/ t \in DOMAIN x.buckets /\ b[t] = x.buckets[t]
                      \/ t \in DOMAIN closed /\ b[t] = closed[t]
  BY <1>1, <1>2
<1>4. b = [t \in kept |-> b[t]] /\ DOMAIN b = kept
  BY <1>1
<1> HIDE DEF kept, results
<1>5. IsBuckets(b)
  <2>1. \A t \in kept : IsAccum(b[t])
    BY <1>3, MergedShape DEF IsExporter, IsBuckets
  <2>2. kept \subseteq Nat
    BY <1>2 DEF IsExporter, IsBuckets
  <2>3. QED
    BY <1>4, <2>1, <2>2 DEF IsBuckets
<1>6. y.buckets = b /\ y.dev = x.dev /\ IsExporter(y)
  BY <1>1, <1>5 DEF IsExporter
<1>7. QED
  BY <1>3, <1>4, <1>6

\* What a failed pass puts back was in the pass, and goes to an exporter of the
\* same device unless it is a stray from then on.
LEMMA RequeueIs ==
    ASSUME CohortInv, NEW E \in SUBSET Exporters, Requeue(E), UNCHANGED <<late, snapped>>
    PROVE  /\ DOMAIN exporters' = Exporters
           /\ \A e \in Exporters : /\ \A x, y \in exporters'[e] : x = y
                                   /\ \A x \in exporters'[e] : IsExporter(x)
           /\ \A e, ts : Stray(e, ts) => Stray(e, ts)'
           /\ \A e \in Exporters : \A ts, got, dev :
                Parked(e, ts, got, dev)' =>
                  \/ Stray(e, ts)'
                  \/ Parked(e, ts, got, dev)
                  \/ InPass(e, ts, got, dev) /\ e \in E
<1> USE DEF CohortInv
<1>1. /\ DOMAIN exporters' = Exporters
      /\ \A e \in Exporters :
            \/ /\ e \in E /\ exporters[e] # {}
               /\ \E x \in exporters[e] : \E y \in PutBack(x, flush.closed[e]) : exporters'[e] = {y}
            \/ exporters'[e] = exporters[e]
  BY DEF Requeue
<1>2. adopted \subseteq adopted' /\ late' = late
  BY DEF Requeue
<1>3. \A e, ts : Stray(e, ts) => Stray(e, ts)'
  BY <1>2 DEF Stray
<1>4. ASSUME NEW e \in Exporters
      PROVE  /\ \A x, y \in exporters'[e] : x = y
             /\ \A x \in exporters'[e] : IsExporter(x)
  BY <1>1, PutBackIs DEF FlowShape
<1>5. ASSUME NEW e \in Exporters, NEW ts, NEW got, NEW dev, Parked(e, ts, got, dev)',
             ~ Parked(e, ts, got, dev), ~ Stray(e, ts)'
      PROVE  InPass(e, ts, got, dev) /\ e \in E
  <2>1. exporters'[e] # exporters[e]
    BY <1>5 DEF Parked
  <2>0. PICK x \in exporters[e] : e \in E /\ \E y \in PutBack(x, flush.closed[e]) : exporters'[e] = {y}
    BY <1>1, <2>1
  <2>2. PICK y \in PutBack(x, flush.closed[e]) : exporters'[e] = {y} /\ e \in E
    BY <2>0
  <2>3. /\ IsExporter(y) /\ y.dev = x.dev
        /\ \A t \in DOMAIN y.buckets :
             \/ t \in DOMAIN x.buckets /\ t \in DOMAIN flush.closed[e]
             \/ t \in DOMAIN x.buckets /\ y.buckets[t] = x.buckets[t]
             \/ t \in DOMAIN flush.closed[e] /\ y.buckets[t] = flush.closed[e][t]
    BY PutBackIs DEF FlowShape
  <2>4. /\ ts + BucketSecs <= snapped /\ ts \in DOMAIN y.buckets
        /\ got = y.buckets[ts].got /\ dev = x.dev
    BY <1>5, <2>2, <2>3 DEF Parked
  <2>5. ~ (ts \in DOMAIN x.buckets /\ ts \in DOMAIN flush.closed[e])
    <3>1. ts \in DOMAIN x.buckets => Parked(e, ts, x.buckets[ts].got, x.dev)
      BY <2>4 DEF Parked
    <3>2. QED
      BY <1>3, <1>5, <3>1 DEF ParkedSafe
  <2>6. ~ (ts \in DOMAIN x.buckets /\ y.buckets[ts] = x.buckets[ts])
    BY <1>5, <2>4 DEF Parked
  <2>7. ts \in DOMAIN flush.closed[e] /\ got = flush.closed[e][ts].got
    BY <2>3, <2>4, <2>5, <2>6
  <2>8. dev = flush.dev[e]
    <3>1. SUFFICES ASSUME x.dev # flush.dev[e] PROVE FALSE
      BY <2>4
    <3>2. <<e, ts, flush.dev[e]>> \in adopted'
      <4>1. e \in {g \in E : \E z \in exporters[g] : z.dev # flush.dev[g]}
        BY <2>2, <3>1
      <4>2. <<e, ts, flush.dev[e]>> \in {<<e, t, flush.dev[e]>> : t \in DOMAIN flush.closed[e]}
        BY <2>7
      <4>3. {<<e, t, flush.dev[e]>> : t \in DOMAIN flush.closed[e]}
              \in { {<<h, t, flush.dev[h]>> : t \in DOMAIN flush.closed[h]} :
                      h \in {g \in E : \E z \in exporters[g] : z.dev # flush.dev[g]} }
        BY <4>1
      <4>4. QED
        BY <4>2, <4>3 DEF Requeue
    <3>3. QED
      BY <1>5, <3>2 DEF Stray
  <2>9. QED
    BY <2>2, <2>7, <2>8 DEF InPass
<1>6. QED
  BY <1>1, <1>3, <1>4, <1>5

LEMMA IdleIs ==
    /\ Idle.phase = "idle" /\ Idle.closed = [e \in Exporters |-> Empty]
    /\ Idle = [f \in {"phase", "dev", "closed", "todo", "gen", "published"} |-> Idle[f]]
    /\ Idle.closed = [e \in Exporters |-> Idle.closed[e]]
    /\ \A e \in Exporters : IsBuckets(Idle.closed[e]) /\ DOMAIN Idle.closed[e] = {}
  BY DEF Idle, Empty, IsBuckets

LEMMA PrepareFailsStep == ASSUME CohortInv, PrepareFails PROVE CohortInv'
<1> USE DEF CohortInv
<1>1. /\ Requeue(Exporters) /\ flush' = Idle
      /\ UNCHANGED <<store, clock, snapped, late>>
  BY DEF PrepareFails, store
<1>2. /\ DOMAIN exporters' = Exporters
      /\ \A e \in Exporters : /\ \A x, y \in exporters'[e] : x = y
                              /\ \A x \in exporters'[e] : IsExporter(x)
      /\ \A e, ts : Stray(e, ts) => Stray(e, ts)'
      /\ \A e \in Exporters : \A ts, got, dev :
           Parked(e, ts, got, dev)' =>
             Stray(e, ts)' \/ Parked(e, ts, got, dev) \/ InPass(e, ts, got, dev)
  BY <1>1, RequeueIs
<1>3. FlowShape'
  BY <1>1, <1>2, IdleIs DEF FlowShape, store
<1>4. VerdictsClosed'
  BY <1>1 DEF VerdictsClosed, store
<1>5. PassSafe'
  BY <1>1, IdleIs DEF PassSafe, InPass
<1>6. ASSUME NEW e \in Exporters, NEW ts, NEW got, NEW dev, Safe(e, ts, got, dev)
      PROVE  Safe(e, ts, got, dev)'
  BY <1>1, <1>6, IdleIs, SecuredFrame DEF Safe, Untouched, store
<1>7. ParkedSafe'
  <2> SUFFICES ASSUME NEW e \in Exporters, NEW ts, NEW got, NEW dev, Parked(e, ts, got, dev)', ~ Stray(e, ts)'
               PROVE  /\ ts \notin DOMAIN flush'.closed[e] /\ flush'.phase = "idle"
                      /\ Safe(e, ts, got, dev)'
    BY DEF ParkedSafe
  <2>1. Parked(e, ts, got, dev) \/ InPass(e, ts, got, dev)
    BY <1>2
  <2>2. ~ Stray(e, ts)
    BY <1>2
  <2>3. Safe(e, ts, got, dev)
    BY <2>1, <2>2 DEF ParkedSafe, PassSafe
  <2>4. QED
    BY <1>1, <1>6, <2>3, IdleIs
<1>8. QED
  BY <1>3, <1>4, <1>5, <1>7

\* Whether or not the database has the bucket it failed on
LEMMA WriteFailsStep == ASSUME CohortInv, NEW f \in Exporters, WriteFails(f) PROVE CohortInv'
<1> USE DEF CohortInv
<1>1. /\ flush.phase = "write" /\ Requeue({f})
      /\ flush' = [flush EXCEPT !.closed[f] = Empty, !.todo = @ \ {f}]
      /\ UNCHANGED <<owner, clock, snapped, late>>
      /\ (\E t \in DOMAIN flush.closed[f] : Written(f, t)) \/ UNCHANGED <<first_seen, rows, quality>>
  BY DEF WriteFails, Newest
<1>2. /\ DOMAIN exporters' = Exporters
      /\ \A e \in Exporters : /\ \A x, y \in exporters'[e] : x = y
                              /\ \A x \in exporters'[e] : IsExporter(x)
      /\ \A e, ts : Stray(e, ts) => Stray(e, ts)'
      /\ \A e \in Exporters : \A ts, got, dev :
           Parked(e, ts, got, dev)' =>
             Stray(e, ts)' \/ Parked(e, ts, got, dev) \/ (InPass(e, ts, got, dev) /\ e \in {f})
  BY <1>1, RequeueIs
<1>3. /\ flush'.closed = [flush.closed EXCEPT ![f] = Empty]
      /\ flush'.dev = flush.dev /\ flush'.phase = flush.phase
      /\ flush' = [g \in {"phase", "dev", "closed", "todo", "gen", "published"} |-> flush'[g]]
  BY <1>1 DEF FlowShape
<1>4. IsBuckets(Empty) /\ DOMAIN Empty = {}
  BY DEF IsBuckets, Empty
<1>5. /\ \A m \in DOMAIN first_seen' : first_seen'[m] \in Nat
      /\ \A k \in DOMAIN quality' : k[2] \in Nat /\ k[2] + BucketSecs <= snapped
  BY <1>1, WrittenShape DEF FlowShape, VerdictsClosed
<1>6. FlowShape'
  BY <1>1, <1>2, <1>3, <1>4, <1>5 DEF FlowShape
<1>7. VerdictsClosed'
  BY <1>1, <1>5 DEF VerdictsClosed
<1>8. ASSUME NEW e \in Exporters, NEW ts, NEW got, NEW dev, ~ Stray(e, ts),
             InPass(e, ts, got, dev) \/ Parked(e, ts, got, dev)
      PROVE  Safe(e, ts, got, dev)'
  <2>1. ts \in Nat
    BY <1>8 DEF InPass, Parked, FlowShape, IsExporter, IsBuckets
  <2>2. Secured(e, ts, got, dev)
    BY <1>1, <1>8 DEF PassSafe, ParkedSafe, Safe, Untouched
  <2>3. CASE UNCHANGED <<first_seen, rows, quality>>
    BY <1>1, <2>2, <2>3, SecuredFrame DEF Safe, store
  <2>4. ASSUME NEW t \in DOMAIN flush.closed[f], Written(f, t) PROVE Safe(e, ts, got, dev)'
    <3>1. <<e, ts>> = <<f, t>> => got = flush.closed[f][t].got
      BY <1>8 DEF InPass, ParkedSafe
    <3>2. UNCHANGED owner
      BY <1>1
    <3>3. Secured(e, ts, got, dev)'
      BY <2>1, <2>2, <2>4, <3>1, <3>2, WrittenKeeps
    <3>4. QED
      BY <3>3 DEF Safe
  <2>5. QED
    BY <1>1, <2>3, <2>4
<1>9. PassSafe'
  <2> SUFFICES ASSUME NEW e \in Exporters, NEW ts, NEW got, NEW dev, InPass(e, ts, got, dev)'
               PROVE  /\ ts + BucketSecs <= snapped' /\ flush'.phase # "idle"
                      /\ Stray(e, ts)' \/ Safe(e, ts, got, dev)'
    BY DEF PassSafe
  <2>1. InPass(e, ts, got, dev)
    BY <1>3, <1>4 DEF InPass, FlowShape
  <2>2. QED
    BY <1>1, <1>2, <1>3, <1>8, <2>1 DEF PassSafe
<1>10. ParkedSafe'
  <2> SUFFICES ASSUME NEW e \in Exporters, NEW ts, NEW got, NEW dev, Parked(e, ts, got, dev)', ~ Stray(e, ts)'
               PROVE  /\ ts \notin DOMAIN flush'.closed[e]
                      /\ flush'.phase # "idle" => flush'.phase = "write" /\ dev = flush'.dev[e]
                      /\ Safe(e, ts, got, dev)'
    BY DEF ParkedSafe
  <2>1. Parked(e, ts, got, dev) \/ (InPass(e, ts, got, dev) /\ e = f)
    BY <1>2
  <2>2. ~ Stray(e, ts)
    BY <1>2
  <2>3. Safe(e, ts, got, dev)'
    BY <1>8, <2>1, <2>2
  <2>4. dev = flush.dev[e]
    BY <1>1, <2>1, <2>2 DEF InPass, ParkedSafe
  <2>5. ts \notin DOMAIN flush'.closed[e]
    BY <1>3, <1>4, <2>1, <2>2 DEF FlowShape, ParkedSafe
  <2>6. QED
    BY <1>1, <1>3, <2>3, <2>4, <2>5
<1>11. QED
  BY <1>6, <1>7, <1>9, <1>10

LEMMA PassEnds == ASSUME CohortInv, MarkPublished \/ CollectorRestarts PROVE CohortInv'
<1> USE DEF CohortInv
<1>1. /\ flush' = Idle /\ UNCHANGED <<store, clock, snapped, late, adopted>>
      /\ \/ exporters' = exporters /\ flush.phase = "write"
         \/ exporters' = [e \in Exporters |-> {}]
  BY DEF MarkPublished, CollectorRestarts, store
<1>2. FlowShape'
  BY <1>1, IdleIs DEF FlowShape, store
<1>3. VerdictsClosed'
  BY <1>1 DEF VerdictsClosed, store
<1>4. PassSafe'
  BY <1>1, IdleIs DEF PassSafe, InPass
<1>5. ParkedSafe'
  <2> SUFFICES ASSUME NEW e \in Exporters, NEW ts, NEW got, NEW dev, Parked(e, ts, got, dev)', ~ Stray(e, ts)'
               PROVE  /\ ts \notin DOMAIN flush'.closed[e] /\ flush'.phase = "idle"
                      /\ Safe(e, ts, got, dev)'
    BY DEF ParkedSafe
  <2>1. Parked(e, ts, got, dev) /\ ~ Stray(e, ts) /\ flush.phase = "write"
    BY <1>1 DEF Parked, Stray
  <2>2. Secured(e, ts, got, dev)
    BY <2>1 DEF ParkedSafe, Safe, Untouched
  <2>3. QED
    BY <1>1, <2>2, IdleIs, SecuredFrame DEF Safe
<1>6. QED
  BY <1>2, <1>3, <1>4, <1>5

LEMMA CohortStep == CohortInv /\ [Next]_vars => CohortInv'
<1> SUFFICES ASSUME CohortInv, [Next]_vars PROVE CohortInv'
  OBVIOUS
<1>1. CASE \E e \in Exporters : \E d \in Datagrams[e], lag \in 0 .. 1 :
             \E decoded \in BOOLEAN : Receive(e, d, decoded, lag)
  BY <1>1, ReceiveStep
<1>2. ASSUME NEW e \in Exporters, RegisterContributors(e) PROVE CohortInv'
  BY <1>2, RegisterStep
<1>3. ASSUME NEW e \in Exporters, UpsertExporter(e) PROVE CohortInv'
  BY <1>3, UpsertStep
<1>4. ASSUME NEW e \in Exporters, WriteBucket(e) PROVE CohortInv'
  BY <1>4, WriteStep
<1>5. ASSUME NEW e \in Exporters, WriteFails(e) PROVE CohortInv'
  BY <1>5, WriteFailsStep
<1>6. CASE \/ \E e \in Exporters : EvictExporter(e)
           \/ \E new \in [Exporters -> Devices \cup {NoDevice}] : RefreshAllowlist(new)
           \/ Tick \/ WakeLoop \/ UNCHANGED vars
  BY <1>6, QuietStep DEF vars, WakeLoop
<1>7. CASE Snapshot
  BY <1>7, SnapshotStep
<1>8. CASE RaiseBarrier \/ OpenBarrier
  BY <1>8, BarrierStep
<1>9. CASE PrepareFails
  BY <1>9, PrepareFailsStep
<1>10. CASE MarkPublished \/ CollectorRestarts
  BY <1>10, PassEnds
<1>11. QED
  BY <1>1, <1>2, <1>3, <1>4, <1>5, <1>6, <1>7, <1>8, <1>9, <1>10 DEF Next

LEMMA CohortInit == Init => CohortInv
<1> SUFFICES ASSUME Init PROVE CohortInv
  OBVIOUS
<1>1. /\ clock = 0 /\ snapped = 0 /\ flush = Idle /\ first_seen = Empty /\ quality = Empty
      /\ exporters = [e \in Exporters |-> {}] /\ owner = [e \in Exporters |-> NoDevice]
  BY DEF Init
<1>2. FlowShape
  BY <1>1, IdleIs DEF FlowShape, Empty
<1>3. VerdictsClosed
  BY <1>1 DEF VerdictsClosed, Empty
<1>4. PassSafe
  BY <1>1, IdleIs DEF PassSafe, InPass
<1>5. ParkedSafe
  BY <1>1 DEF ParkedSafe, Parked
<1>6. QED
  BY <1>2, <1>3, <1>4, <1>5 DEF CohortInv

\* Detection is offered a bucket only when no exporter of the device still holds
\* totals for it, for any number of exporters and devices, any capacities and
\* any mix of failures, evictions, moves of an address and restarts
\* (collector.rs, prepare_flush_batch; quality.rs, bucket_evidence).
THEOREM EvidenceWhole == Spec => []EvidenceIsCohort
<1>1. QED
  BY CohortInit, CohortStep, CohortImplies, PTL DEF Spec

-----------------------------------------------------------------------------
(* Complete buckets *)

\* Begin and end of a bucket, and the order of buckets
LEMMA BucketSpan ==
    ASSUME NEW t \in Nat
    PROVE  /\ Bucket(t) \in Nat /\ Bucket(t) <= t /\ t < Bucket(t) + BucketSecs
           /\ \A u \in Nat : t <= u => Bucket(t) <= Bucket(u)
           /\ \A u \in Nat : Bucket(u) <= t /\ t <= u => Bucket(t) = Bucket(u)
<1>1. BucketSecs \in Nat /\ BucketSecs > 0
  BY FlowAssumption
<1>2. ASSUME NEW u \in Nat
      PROVE  /\ u \div BucketSecs \in Nat
             /\ u = BucketSecs * (u \div BucketSecs) + (u % BucketSecs) /\ u % BucketSecs \in 0 .. BucketSecs - 1
  BY <1>1
<1>3. \A p, q \in Nat : p < q => BucketSecs * p + BucketSecs <= BucketSecs * q
  <2>1. ASSUME NEW p \in Nat, NEW q \in Nat, p < q PROVE BucketSecs * (p + 1) <= BucketSecs * q
    BY <1>1, <2>1
  <2>2. \A p \in Nat : BucketSecs * (p + 1) = BucketSecs * p + BucketSecs
    BY <1>1
  <2>3. QED
    BY <1>1, <2>1, <2>2
<1>4. \A p \in Nat : p * BucketSecs = BucketSecs * p /\ BucketSecs * p \in Nat
  BY <1>1
<1>5. ASSUME NEW u \in Nat
      PROVE  /\ Bucket(u) = BucketSecs * (u \div BucketSecs)
             /\ Bucket(u) \in Nat /\ Bucket(u) <= u /\ u < Bucket(u) + BucketSecs
  <2>1. u \div BucketSecs \in Nat
    BY <1>2
  <2>2. Bucket(u) = BucketSecs * (u \div BucketSecs) /\ Bucket(u) \in Nat
    BY <1>4, <2>1 DEF Bucket
  <2>3. u = Bucket(u) + (u % BucketSecs) /\ u % BucketSecs \in 0 .. BucketSecs - 1
    BY <1>2, <2>2
  <2>4. QED
    BY <1>1, <2>2, <2>3
<1>6. ASSUME NEW u \in Nat, NEW v \in Nat, Bucket(u) < Bucket(v) PROVE Bucket(u) + BucketSecs <= Bucket(v)
  <2>1. PICK p \in Nat, q \in Nat : p = u \div BucketSecs /\ q = v \div BucketSecs
    BY <1>2
  <2>2. BucketSecs * p < BucketSecs * q
    BY <1>5, <1>6, <2>1
  <2>3. p < q
    <3>1. q < p => BucketSecs * q + BucketSecs <= BucketSecs * p
      BY <1>3
    <3>2. p = q => BucketSecs * p = BucketSecs * q
      OBVIOUS
    <3>3. QED
      BY <1>1, <1>4, <2>2, <3>1, <3>2
  <2>4. QED
    BY <1>3, <1>5, <2>1, <2>3
<1>7. PICK b \in Nat : b = Bucket(t)
  BY <1>5
<1>8. b <= t /\ t < b + BucketSecs
  BY <1>5, <1>7
<1>9. ASSUME NEW u \in Nat
      PROVE  /\ t <= u => b <= Bucket(u)
             /\ Bucket(u) <= t /\ t <= u => b = Bucket(u)
  <2>1. PICK c \in Nat : c = Bucket(u) /\ c <= u /\ u < c + BucketSecs
    BY <1>5
  <2>2. (b < c => b + BucketSecs <= c) /\ (c < b => c + BucketSecs <= b)
    BY <1>6, <1>7, <2>1
  <2>3. (t <= u => b <= c) /\ (c <= t /\ t <= u => b = c)
    BY <1>1, <1>8, <2>1, <2>2
  <2>4. QED
    BY <2>1, <2>3
<1>10. QED
  BY <1>7, <1>8, <1>9

-----------------------------------------------------------------------------
(* Continuous numbering *)

\* All uptimes of one generation of e are below those of another.
Below(e, g, h) == \A c, d \in Datagrams[e] : c.gen = g /\ d.gen = h => c.uptime < d.uptime

\* S ends in L: in its generation nothing of S is after it, and the other
\* generations of S are below its own.
Chain(e, S, L) ==
    /\ L \in S /\ S \subseteq Datagrams[e]
    /\ \A c \in S : IF c.gen = L.gen THEN c.n <= L.n ELSE Below(e, c.gen, L.gen)

LEMMA ChainStarts ==
    ASSUME NEW e \in Exporters, NEW d \in Datagrams[e] PROVE Gapless({d}) /\ Chain(e, {d}, d)
<1>1. d.n \in Nat
  BY DatagramAssumption
<1>2. \A n \in d.n .. d.n : n = d.n
  BY <1>1
<1>3. QED
  BY <1>1, <1>2 DEF Gapless, Chain

LEMMA ChainGrows ==
    ASSUME NEW e \in Exporters, NEW S, NEW L, NEW d \in Datagrams[e],
           Gapless(S), Chain(e, S, L), Follows(L, d)
    PROVE  d \notin S /\ Gapless(S \cup {d}) /\ Chain(e, S \cup {d}, d)
<1>1. L \in S /\ S \subseteq Datagrams[e] /\ L \in Datagrams[e]
  BY DEF Chain
<1>2. \A c \in Datagrams[e] : c.n \in Nat /\ c.uptime \in Nat
  BY DatagramAssumption
<1>3. CASE L.gen = d.gen
  <2>1. d.n = L.n + 1
    BY <1>1, <1>3, DatagramAssumption
  <2>2. \A c \in S : c.gen = d.gen => c.n <= L.n
    BY <1>3 DEF Chain
  <2>3. d \notin S
    BY <1>1, <1>2, <2>1, <2>2
  <2>4. Chain(e, S \cup {d}, d)
    BY <1>1, <1>2, <1>3, <2>1, <2>2 DEF Chain
  <2>5. ASSUME NEW c \in S, c.gen = d.gen, NEW n \in c.n .. d.n
        PROVE  \E x \in S \cup {d} : x.gen = c.gen /\ x.n = n
    <3>1. n \in c.n .. L.n \/ n = d.n
      BY <1>1, <1>2, <2>1, <2>5
    <3>2. n \in c.n .. L.n => \E x \in S : x.gen = c.gen /\ x.n = n
      BY <1>1, <1>3, <2>5 DEF Gapless
    <3>3. QED
      BY <2>5, <3>1, <3>2
  <2>6. ASSUME NEW c \in S, c.gen = d.gen, NEW n \in d.n .. c.n PROVE FALSE
    BY <1>1, <1>2, <2>1, <2>2, <2>6
  <2>7. \A n \in d.n .. d.n : n = d.n
    BY <1>2
  <2>8. Gapless(S \cup {d})
    <3> SUFFICES ASSUME NEW a \in S \cup {d}, NEW b \in S \cup {d}, a.gen = b.gen, NEW n \in a.n .. b.n
                 PROVE  \E x \in S \cup {d} : x.gen = a.gen /\ x.n = n
      BY DEF Gapless
    <3>1. CASE a \in S /\ b \in S
      BY <3>1 DEF Gapless
    <3>2. CASE a \in S /\ b = d
      BY <2>5, <3>2
    <3>3. CASE a = d /\ b \in S
      BY <2>6, <3>3
    <3>4. CASE a = d /\ b = d
      BY <2>7, <3>4
    <3>5. QED
      BY <3>1, <3>2, <3>3, <3>4
  <2>9. QED
    BY <2>3, <2>4, <2>8
<1>4. CASE L.gen # d.gen
  <2>1. Below(e, L.gen, d.gen)
    BY <1>1, <1>4, DatagramAssumption DEF Below
  <2>2. ASSUME NEW c \in S PROVE c.gen # d.gen /\ Below(e, c.gen, d.gen)
    <3>1. c.gen = L.gen \/ Below(e, c.gen, L.gen)
      BY DEF Chain
    <3>2. c \in Datagrams[e]
      BY <1>1
    <3>3. L.uptime < d.uptime
      BY <1>1, <2>1 DEF Below
    <3>4. ASSUME Below(e, c.gen, L.gen) PROVE c.gen # d.gen /\ Below(e, c.gen, d.gen)
      <4>1. c.uptime < L.uptime
        BY <1>1, <3>2, <3>4 DEF Below
      <4>2. c.gen = d.gen => L.uptime < c.uptime
        BY <1>1, <2>1, <3>2 DEF Below
      <4>3. \A x, y \in Datagrams[e] : x.gen = c.gen /\ y.gen = d.gen => x.uptime < L.uptime /\ L.uptime < y.uptime
        BY <1>1, <2>1, <3>4 DEF Below
      <4>4. QED
        BY <1>1, <1>2, <3>2, <4>1, <4>2, <4>3 DEF Below
    <3>5. QED
      BY <1>4, <2>1, <3>1, <3>4
  <2>3. d \notin S /\ Chain(e, S \cup {d}, d)
    BY <1>1, <1>2, <2>2 DEF Chain
  <2>4. \A n \in d.n .. d.n : n = d.n
    BY <1>2
  <2>5. Gapless(S \cup {d})
    <3> SUFFICES ASSUME NEW a \in S \cup {d}, NEW b \in S \cup {d}, a.gen = b.gen, NEW n \in a.n .. b.n
                 PROVE  \E x \in S \cup {d} : x.gen = a.gen /\ x.n = n
      BY DEF Gapless
    <3>1. CASE a \in S /\ b \in S
      BY <3>1 DEF Gapless
    <3>2. CASE a = d /\ b = d
      BY <2>4, <3>2
    <3>3. QED
      BY <2>2, <3>1, <3>2
  <2>6. QED
    BY <2>3, <2>5
<1>5. QED
  BY <1>3, <1>4

\* Of the datagrams that are neither late nor leave a gap there is one number.
LEMMA NextNumber ==
    ASSUME NEW s \in 0 .. SeqMod - 1, NEW q \in 0 .. SeqMod - 1,
           Wrapping(q, s, SeqMod) > 0, ~ (Wrapping(q, s, SeqMod) > 1)
    PROVE  q = (s + 1) % SeqMod
<1>1. SeqMod \in Nat /\ SeqMod > 0
  BY FlowAssumption
<1>2. (q + SeqMod - s) % SeqMod = 1 /\ SeqMod > 1
  <2>1. PICK r : r = (q + SeqMod - s) % SeqMod
    OBVIOUS
  <2>2. r \in 0 .. SeqMod - 1
    BY <1>1, <2>1
  <2>3. r > 0 /\ ~ (r > 1)
    BY <2>1 DEF Wrapping
  <2>4. QED
    BY <1>1, <2>1, <2>2, <2>3
<1>3. PICK m \in Nat : m = SeqMod
  BY <1>1
<1>4. \A u \in 0 .. 2 * m - 1 : u % m = IF u < m THEN u ELSE u - m
  <2>1. ASSUME NEW u \in 0 .. 2 * m - 1 PROVE u % m = IF u < m THEN u ELSE u - m
    <3>1. /\ u \div m \in Nat /\ u % m \in 0 .. m - 1
          /\ u = m * (u \div m) + (u % m)
      BY <1>1, <1>3
    <3>2. u \div m = 0 \/ u \div m = 1
      <4>1. PICK k \in Nat : k = u \div m
        BY <3>1
      <4>2. k >= 2 => m * k >= m * 2
        BY <1>3
      <4>3. m * k <= u
        BY <3>1, <4>1, <1>1, <1>3
      <4>4. QED
        BY <4>1, <4>2, <4>3, <1>3
    <3>3. QED
      BY <3>1, <3>2, <1>3
  <2>2. QED
    BY <2>1
<1>5. q + m - s \in 0 .. 2 * m - 1 /\ s + 1 \in 0 .. 2 * m - 1
  BY <1>2, <1>3
<1>6. QED
  BY <1>2, <1>3, <1>4, <1>5

-----------------------------------------------------------------------------
(* What a datagram does to the bucket it arrives in *)

\* The same state apart from buckets
SameHead(x, y) == /\ y.seq = x.seq /\ y.uptime = x.uptime /\ y.bucket = x.bucket
                  /\ y.started = x.started /\ y.seen = x.seen

\* No bucket of x is after ts.
UpTo(x, ts) == \A b \in DOMAIN x.buckets : b <= ts

\* The bucket ts of x, or what it would be if it were opened
Cell(x, ts) == IF ts \in DOMAIN x.buckets THEN x.buckets[ts] ELSE Accum(ts >= x.started)

LEMMA OpenedHead ==
    ASSUME NEW x, IsExporter(x), NEW ts \in Nat
    PROVE  SameHead(x, bucket_entry_bounded(x, ts))
<1>1. \A b : SameHead(x, [x EXCEPT !.buckets = b])
  BY DEF SameHead, IsExporter
<1>2. SameHead(x, x)
  BY DEF SameHead
<1>3. QED
  BY <1>1, <1>2 DEF bucket_entry_bounded

\* A bucket after all others is always opened.
LEMMA OpenedIs ==
    ASSUME NEW x, IsExporter(x), NEW ts \in Nat, UpTo(x, ts), NEW e, e = bucket_entry_bounded(x, ts)
    PROVE  /\ IsExporter(e) /\ UpTo(e, ts)
           /\ ts \in DOMAIN e.buckets /\ e.buckets[ts] = Cell(x, ts)
<1>1. IsExporter(e)
  BY NearOpened DEF Near
<1> DEFINE opened(b) == With(b, ts, Accum(ts >= x.started))
           S == DOMAIN x.buckets
<1>2. CASE ts \in S
  BY <1>1, <1>2 DEF bucket_entry_bounded, Cell
<1>3. CASE ts \notin S
  <2>1. S \subseteq Nat
    BY DEF IsExporter, IsBuckets
  <2>2. ~ (Cardinality(S) < MaxOpen) => Earliest(S) \in S
    <3>1. S = {} => Cardinality(S) < MaxOpen
      <4>1. Cardinality({}) = 0 /\ MaxOpen \in Nat \ {0}
        BY FS_EmptySet, FlowAssumption
      <4>2. QED
        BY <4>1
    <3> HIDE DEF S
    <3>2. QED
      BY <2>1, <3>1, EarliestIs
  <2>3. Earliest(S) \in S => ~ (ts <= Earliest(S))
    BY <1>3, <2>1 DEF UpTo
  <2>4. \/ e = [x EXCEPT !.buckets = opened(x.buckets)]
        \/ e = [x EXCEPT !.buckets = opened(Without(x.buckets, {Earliest(S)}))]
    BY <1>3, <2>2, <2>3 DEF bucket_entry_bounded, Earliest
  <2>5. PICK b : e = [x EXCEPT !.buckets = opened(b)] /\ DOMAIN b \subseteq S
    BY <2>4 DEF Without
  <2>6. e.buckets = With(b, ts, Accum(ts >= x.started))
    BY <2>5 DEF IsExporter
  <2>7. DOMAIN e.buckets = DOMAIN b \cup {ts} /\ e.buckets[ts] = Accum(ts >= x.started)
    BY <2>6 DEF With
  <2>8. QED
    BY <1>1, <1>3, <2>5, <2>7 DEF UpTo, Cell
<1>4. QED
  BY <1>2, <1>3

\* The head of an exporter after a datagram
Heads(x, d, now, z) ==
    /\ z.started \in {x.started, now}
    /\ \/ z.seq = d.seq /\ z.uptime = d.uptime
       \/ x.seq # Never /\ z.seq = x.seq /\ z.uptime = x.uptime /\ z.started = x.started

\* The state the datagram leaves before its bucket is looked up
LEMMA ObservedHead ==
    ASSUME NEW x, IsExporter(x), NEW d, NEW now, NEW ts \in Nat, NEW z, z = observe_sequence(x, d, now, ts).ex
    PROVE  Heads(x, d, now, z) /\ z.seen = x.seen
<1>1. CASE UptimeRestarted(x, d)
  <2>1. PICK c : z = [x EXCEPT !.started = now, !.seq = d.seq, !.bucket = ts, !.uptime = d.uptime, !.buckets = c]
    BY <1>1 DEF observe_sequence
  <2>2. QED
    BY <2>1 DEF Heads, IsExporter
<1>2. CASE ~ UptimeRestarted(x, d)
  <2>1. PICK one : one = IF x.uptime # Never /\ ~UptimeWrapped(x, d) /\ d.uptime < x.uptime
                           THEN InBucket(x, ts, LAMBDA a : [a EXCEPT !.base = FALSE]) ELSE x
    OBVIOUS
  <2>2. PICK two : two = IF Missing(x, d) /\ x.bucket # ts /\ x.bucket \in DOMAIN one.buckets
                           THEN [one EXCEPT !.buckets[x.bucket] = mark_all_dropped(@)] ELSE one
    OBVIOUS
  <2>3. z = IF Advances(x, d) THEN [two EXCEPT !.seq = d.seq, !.bucket = ts, !.uptime = d.uptime] ELSE two
    BY <1>2, <2>1, <2>2 DEF observe_sequence
  <2>4. SameHead(x, one) /\ IsExporter(one)
    <3>1. PICK e : e = bucket_entry_bounded(x, ts)
      OBVIOUS
    <3>2. SameHead(x, e) /\ IsExporter(e)
      BY <3>1, OpenedHead, NearOpened DEF Near
    <3>3. one \in {x, e, [e EXCEPT !.buckets[ts] = [e.buckets[ts] EXCEPT !.base = FALSE]]}
      BY <2>1, <3>1 DEF InBucket
    <3>4. IsExporter(one)
      <4>1. Near(x, x, ts)
        BY DEF Near
      <4>2. Near(x, one, ts)
        BY <2>1, <4>1, NearUnbased
      <4>3. QED
        BY <4>2 DEF Near
    <3>5. \A v : SameHead(x, [e EXCEPT !.buckets[ts] = v])
      BY <3>2 DEF SameHead, IsExporter
    <3>6. QED
      BY <3>2, <3>3, <3>4, <3>5 DEF SameHead
  <2>5. SameHead(x, two) /\ two = [f \in {"dev", "buckets", "seq", "bucket", "uptime", "started", "seen"} |-> two[f]]
    <3>1. one = [f \in {"dev", "buckets", "seq", "bucket", "uptime", "started", "seen"} |-> one[f]]
      BY <2>4 DEF IsExporter
    <3>2. QED
      BY <2>2, <2>4, <3>1 DEF SameHead
  <2>6. Advances(x, d) => z.seq = d.seq /\ z.uptime = d.uptime /\ z.started = two.started /\ z.seen = two.seen
    BY <2>3, <2>5
  <2>7. x.seq = Never => Advances(x, d)
    BY DEF Advances
  <2>8. QED
    BY <2>3, <2>5, <2>6, <2>7 DEF Heads, SameHead
<1>3. QED
  BY <1>1, <1>2

LEMMA NearUpTo ==
    ASSUME NEW x, NEW y, NEW ts \in Nat, Near(x, y, ts), UpTo(x, ts) PROVE UpTo(y, ts)
  BY DEF Near, UpTo

\* A bucket that is complete after the number and uptime of a datagram were
\* noted was so before, and neither a restart nor a regression was seen.
LEMMA ObservedCell ==
    ASSUME NEW x, IsExporter(x), NEW d, NEW now, NEW ts \in Nat, UpTo(x, ts),
           NEW z, z = observe_sequence(x, d, now, ts).ex
    PROVE  /\ IsExporter(z) /\ UpTo(z, ts)
           /\ ts \notin DOMAIN z.buckets => ts \notin DOMAIN x.buckets
           /\ ts \in DOMAIN z.buckets /\ Complete(z.buckets[ts]) =>
                /\ ts \in DOMAIN x.buckets /\ z.buckets[ts] = x.buckets[ts]
                /\ ~ UptimeRestarted(x, d)
                /\ z.started = x.started /\ (z.seq = x.seq \/ Advances(x, d))
                /\ x.uptime = Never \/ UptimeWraps(x.uptime, d.uptime) \/ ~ (d.uptime < x.uptime)
<1>1. Near(x, z, ts) /\ IsExporter(z) /\ UpTo(z, ts)
  BY NearObserved, NearUpTo DEF Near
<1>2. CASE UptimeRestarted(x, d)
  <2>1. PICK c : c = [b \in DOMAIN x.buckets |-> IF b = ts THEN [x.buckets[b] EXCEPT !.base = FALSE]
                                                             ELSE x.buckets[b]]
    OBVIOUS
  <2>2. z = [x EXCEPT !.started = now, !.seq = d.seq, !.bucket = ts, !.uptime = d.uptime, !.buckets = c]
    BY <1>2, <2>1 DEF observe_sequence
  <2>3. z.buckets = c
    BY <2>2 DEF IsExporter
  <2>4. ts \in DOMAIN x.buckets => IsAccum(x.buckets[ts])
    BY DEF IsExporter, IsBuckets
  <2>5. ts \in DOMAIN z.buckets => ~ Complete(z.buckets[ts])
    BY <2>1, <2>3, <2>4 DEF Complete, IsAccum
  <2>6. QED
    BY <1>1, <2>1, <2>3, <2>5
<1>3. CASE ~ UptimeRestarted(x, d)
  <2> DEFINE regressed == x.uptime # Never /\ ~UptimeWrapped(x, d) /\ d.uptime < x.uptime
  <2>1. PICK one : one = IF regressed THEN InBucket(x, ts, LAMBDA a : [a EXCEPT !.base = FALSE]) ELSE x
    OBVIOUS
  <2>2. PICK two : two = IF Missing(x, d) /\ x.bucket # ts /\ x.bucket \in DOMAIN one.buckets
                           THEN [one EXCEPT !.buckets[x.bucket] = mark_all_dropped(@)] ELSE one
    OBVIOUS
  <2>3. z = IF Advances(x, d) THEN [two EXCEPT !.seq = d.seq, !.bucket = ts, !.uptime = d.uptime] ELSE two
    BY <1>3, <2>1, <2>2 DEF observe_sequence
  <2>4. /\ SameHead(x, one) /\ IsExporter(one)
        /\ regressed => ts \in DOMAIN one.buckets /\ ~ Complete(one.buckets[ts])
    <3>1. PICK e : e = bucket_entry_bounded(x, ts)
      OBVIOUS
    <3>2. SameHead(x, e) /\ IsExporter(e) /\ ts \in DOMAIN e.buckets
      BY <3>1, OpenedHead, OpenedIs
    <3>3. CASE regressed
      <4>1. one = [e EXCEPT !.buckets[ts] = [e.buckets[ts] EXCEPT !.base = FALSE]]
        BY <2>1, <3>1, <3>2, <3>3 DEF InBucket
      <4>2. one.buckets = [e.buckets EXCEPT ![ts] = [e.buckets[ts] EXCEPT !.base = FALSE]]
        BY <3>2, <4>1 DEF IsExporter
      <4>3. IsAccum(e.buckets[ts])
        BY <3>2 DEF IsExporter, IsBuckets
      <4>4. ts \in DOMAIN one.buckets /\ ~ Complete(one.buckets[ts])
        BY <3>2, <4>2, <4>3 DEF Complete, IsAccum
      <4>5. SameHead(x, one)
        BY <3>2, <4>1 DEF SameHead, IsExporter
      <4>6. IsExporter(one)
        BY <2>1, <3>3, NearUnbased DEF Near
      <4>7. QED
        BY <4>4, <4>5, <4>6
    <3>4. CASE ~ regressed
      BY <2>1, <3>4 DEF SameHead
    <3>5. QED
      BY <3>3, <3>4
  <2>5. /\ SameHead(x, two) /\ DOMAIN two.buckets = DOMAIN one.buckets
        /\ ts \in DOMAIN one.buckets => two.buckets[ts] = one.buckets[ts]
        /\ two = [f \in {"dev", "buckets", "seq", "bucket", "uptime", "started", "seen"} |-> two[f]]
    <3>1. one = [f \in {"dev", "buckets", "seq", "bucket", "uptime", "started", "seen"} |-> one[f]]
      BY <2>4 DEF IsExporter
    <3>2. QED
      BY <2>2, <2>4, <3>1 DEF SameHead
  <2>6. z.buckets = two.buckets /\ z.started = two.started /\ (~ Advances(x, d) => z.seq = two.seq)
    BY <2>3, <2>5
  <2>7. ~ regressed => one = x
    BY <2>1
  <2>8. ~ regressed => x.uptime = Never \/ UptimeWraps(x.uptime, d.uptime) \/ ~ (d.uptime < x.uptime)
    BY DEF UptimeWrapped
  <2> HIDE DEF regressed
  <2>9. QED
    BY <1>1, <1>3, <2>4, <2>5, <2>6, <2>7, <2>8 DEF SameHead
<1>4. QED
  BY <1>2, <1>3

\* A bucket that is complete after a datagram holds it: as its first, or as the
\* one that follows the last one the exporter sent.
Takes(x, d, now, ts, y) ==
    /\ Near(x, y, ts) /\ Heads(x, d, now, y) /\ y.seen = now
    /\ UpTo(x, ts) =>
         /\ ts \in DOMAIN y.buckets
         /\ Complete(y.buckets[ts]) =>
              /\ y.seq = d.seq /\ y.uptime = d.uptime
              /\ \/ ts \notin DOMAIN x.buckets /\ y.buckets[ts].got = {d} /\ ts >= y.started
                 \/ /\ ts \in DOMAIN x.buckets /\ Complete(x.buckets[ts])
                    /\ y.buckets[ts].got = x.buckets[ts].got \cup {d}
                    /\ x.seq = Never \/ (Advances(x, d) /\ ~ Missing(x, d))
                    /\ x.uptime = Never \/ UptimeWraps(x.uptime, d.uptime) \/ ~ (d.uptime < x.uptime)

LEMMA ReceivedIs ==
    ASSUME NEW x, IsExporter(x), NEW d, NEW decoded \in BOOLEAN, NEW now, NEW ts \in Nat
    PROVE  Takes(x, d, now, ts, Received(x, d, decoded, now, ts))
<1>0. PICK y : y = Received(x, d, decoded, now, ts)
  OBVIOUS
<1>1. PICK seen : seen = [x EXCEPT !.seen = now]
  OBVIOUS
<1>2. PICK obs : obs = observe_sequence(seen, d, now, ts)
  OBVIOUS
<1>3. PICK z : z = obs.ex
  OBVIOUS
<1>4. /\ IsExporter(seen) /\ seen.buckets = x.buckets /\ seen.seq = x.seq /\ seen.uptime = x.uptime
      /\ seen.started = x.started /\ seen.seen = now
  BY <1>1 DEF IsExporter
<1>5. IsExporter(z) /\ Heads(x, d, now, z) /\ z.seen = now
  BY <1>2, <1>3, <1>4, ObservedHead, NearObserved DEF Near, Heads
<1>6. PICK e : e = bucket_entry_bounded(z, ts)
  OBVIOUS
<1>7. SameHead(z, e) /\ IsExporter(e)
  BY <1>5, <1>6, OpenedHead, NearOpened DEF Near
<1> DEFINE lost == ~decoded \/ Repeated(seen, z)
           a == e.buckets[ts]
           v == IF lost THEN mark_all_dropped(a)
                ELSE fold(IF obs.missing THEN mark_all_dropped(a) ELSE a, d)
<1>8. y = IF ts \in DOMAIN e.buckets THEN [e EXCEPT !.buckets[ts] = v] ELSE e
  <2>1. y = IF lost THEN InBucket(z, ts, mark_all_dropped)
            ELSE InBucket(z, ts, LAMBDA b : fold(IF obs.missing THEN mark_all_dropped(b) ELSE b, d))
    BY <1>0, <1>1, <1>2, <1>3 DEF Received
  <2>2. InBucket(z, ts, mark_all_dropped)
          = IF ts \in DOMAIN e.buckets THEN [e EXCEPT !.buckets[ts] = mark_all_dropped(a)] ELSE e
    BY <1>6 DEF InBucket, mark_all_dropped
  <2>3. InBucket(z, ts, LAMBDA b : fold(IF obs.missing THEN mark_all_dropped(b) ELSE b, d))
          = IF ts \in DOMAIN e.buckets
              THEN [e EXCEPT !.buckets[ts] = fold(IF obs.missing THEN mark_all_dropped(a) ELSE a, d)] ELSE e
    BY <1>6 DEF InBucket
  <2>4. CASE lost
    BY <2>1, <2>2, <2>4
  <2>5. CASE ~lost
    BY <2>1, <2>3, <2>5
  <2>6. QED
    BY <2>4, <2>5
<1>9. \A w : SameHead(e, [e EXCEPT !.buckets[ts] = w])
  BY <1>7 DEF SameHead, IsExporter
<1>10. SameHead(z, y)
  BY <1>7, <1>8, <1>9 DEF SameHead
<1>11. Near(x, y, ts) /\ Heads(x, d, now, y) /\ y.seen = now
  BY <1>0, <1>5, <1>10, NearReceived DEF Heads, SameHead
<1>12. ASSUME UpTo(x, ts) PROVE ts \in DOMAIN y.buckets /\ y.buckets[ts] = v /\ a = Cell(z, ts)
  <2>1. UpTo(z, ts)
    BY <1>2, <1>3, <1>4, <1>12, ObservedCell DEF UpTo
  <2>2. ts \in DOMAIN e.buckets /\ a = Cell(z, ts)
    BY <1>5, <1>6, <2>1, OpenedIs
  <2> HIDE DEF v
  <2>3. y.buckets = [e.buckets EXCEPT ![ts] = v]
    BY <1>7, <1>8, <2>2 DEF IsExporter
  <2>4. QED
    BY <2>2, <2>3
<1>13. ASSUME UpTo(x, ts), Complete(y.buckets[ts])
       PROVE  ~ lost /\ ~ obs.missing /\ Complete(a) /\ y.buckets[ts].got = a.got \cup {d}
  <2>1. IsAccum(a) /\ y.buckets[ts] = v
    BY <1>7, <1>12, <1>13, <1>6, <1>5, OpenedIs, OpenedAccum, ObservedCell, <1>2, <1>3, <1>4 DEF UpTo
  <2>2. ~ lost /\ ~ obs.missing
    <3>1. \A b, g : IsAccum(b) => ~ Complete(mark_all_dropped(b)) /\ ~ Complete(fold(mark_all_dropped(b), g))
      BY DEF IsAccum, mark_all_dropped, fold, Complete
    <3>2. QED
      BY <1>13, <2>1, <3>1
  <2>3. QED
    BY <1>13, <2>1, <2>2 DEF fold, Complete, IsAccum
<1>14. ~ obs.missing /\ ~ UptimeRestarted(seen, d) => ~ Missing(x, d)
  BY <1>2, <1>4 DEF observe_sequence, Missing
<1>15. ~ lost => x.seq = Never \/ ~ (z.seq = x.seq /\ z.started = x.started)
  BY <1>4 DEF Repeated
<1>16. \A w : Advances(seen, w) <=> Advances(x, w)
  BY <1>4 DEF Advances
<1>17. ASSUME UpTo(x, ts), Complete(y.buckets[ts])
       PROVE  /\ y.seq = d.seq /\ y.uptime = d.uptime
              /\ \/ ts \notin DOMAIN x.buckets /\ y.buckets[ts].got = {d} /\ ts >= y.started
                 \/ /\ ts \in DOMAIN x.buckets /\ Complete(x.buckets[ts])
                    /\ y.buckets[ts].got = x.buckets[ts].got \cup {d}
                    /\ x.seq = Never \/ (Advances(x, d) /\ ~ Missing(x, d))
                    /\ x.uptime = Never \/ UptimeWraps(x.uptime, d.uptime) \/ ~ (d.uptime < x.uptime)
  <2>1. ~ lost /\ ~ obs.missing /\ Complete(a) /\ y.buckets[ts].got = a.got \cup {d} /\ a = Cell(z, ts)
    BY <1>12, <1>13, <1>17
  <2>2. z.seq = d.seq /\ z.uptime = d.uptime
    BY <1>5, <1>15, <2>1 DEF Heads
  <2>3. /\ ts \notin DOMAIN z.buckets => ts \notin DOMAIN x.buckets
        /\ ts \in DOMAIN z.buckets /\ Complete(z.buckets[ts]) =>
             /\ ts \in DOMAIN x.buckets /\ z.buckets[ts] = x.buckets[ts]
             /\ ~ UptimeRestarted(seen, d)
             /\ z.started = x.started /\ (z.seq = x.seq \/ Advances(x, d))
             /\ x.uptime = Never \/ UptimeWraps(x.uptime, d.uptime) \/ ~ (d.uptime < x.uptime)
    <3>1. UpTo(seen, ts)
      BY <1>4, <1>17 DEF UpTo
    <3>2. QED
      BY <1>2, <1>3, <1>4, <1>16, <3>1, ObservedCell
  <2> HIDE DEF lost, v, a
  <2>4. CASE ts \notin DOMAIN z.buckets
    <3>1. a.got = {} /\ ts >= z.started
      BY <2>1, <2>4 DEF Cell, Accum, Complete
    <3>2. QED
      BY <1>10, <2>1, <2>2, <2>3, <2>4, <3>1 DEF SameHead
  <2>5. CASE ts \in DOMAIN z.buckets
    <3>1. a = z.buckets[ts]
      BY <2>1, <2>5 DEF Cell
    <3>2. QED
      BY <1>10, <1>14, <1>15, <2>1, <2>2, <2>3, <2>5, <3>1 DEF SameHead
  <2>6. QED
    BY <2>4, <2>5
<1>18. QED
  BY <1>0, <1>11, <1>12, <1>17 DEF Takes

-----------------------------------------------------------------------------
(* Whole buckets *)

Past(ts) == ts + BucketSecs <= snapped

\* S is everything that arrived in the window, without a gap.
Good(e, ts, S) == IsFiniteSet(S) /\ Cardinality(S) = At(arrived, <<e, ts>>, 0) /\ Gapless(S)

\* A bucket in memory or in the pass
Held(e, ts, acc) ==
    \/ ts \in DOMAIN flush.closed[e] /\ acc = flush.closed[e][ts]
    \/ \E x \in exporters[e] : ts \in DOMAIN x.buckets /\ acc = x.buckets[ts]

HeldWhole ==
    \A e \in Exporters : \A ts, acc :
      Held(e, ts, acc) /\ <<e, ts>> \notin late /\ Complete(acc) => Good(e, ts, acc.got)

\* A bucket in the pass is not in memory as well, unless it was reopened.
HeldOnce ==
    \A e \in Exporters : \A ts \in DOMAIN flush.closed[e] : \A x \in exporters[e] :
      ts \in DOMAIN x.buckets => <<e, ts>> \in late

\* An exporter has sent something, nothing after the clock, and no bucket of it
\* is after its last datagram unless it was put back.
ExporterHeads ==
    \A e \in Exporters : \A x \in exporters[e] :
      /\ x.seen \in Nat /\ x.seen <= clock
      /\ x.seq \in 0 .. SeqMod - 1 /\ x.uptime \in 0 .. UptimeMod - 1
      /\ \A b \in DOMAIN x.buckets : b <= Bucket(x.seen) \/ Past(b)

\* Nothing arrived in a window that begins after the last datagram of the
\* exporter, or, when it is gone, at or after the clock.
ArrivedBefore ==
    \A k \in DOMAIN arrived :
      /\ k[1] \in Exporters /\ k[2] \in Nat /\ Bucket(k[2]) = k[2]
      /\ exporters[k[1]] = {} => k[2] < clock
      /\ \A x \in exporters[k[1]] : k[2] <= x.seen

\* The bucket of the last datagram is there until a snapshot may take it, and if
\* it is complete the last datagram ends it.
CurrentWhole ==
    \A e \in Exporters : \A x \in exporters[e] : ~ Past(Bucket(x.seen)) =>
      /\ Bucket(x.seen) \in DOMAIN x.buckets
      /\ Complete(x.buckets[Bucket(x.seen)]) =>
           /\ Good(e, Bucket(x.seen), x.buckets[Bucket(x.seen)].got)
           /\ \E L : /\ Chain(e, x.buckets[Bucket(x.seen)].got, L)
                     /\ x.seq = L.seq /\ x.uptime = L.uptime

\* Rows are about buckets a snapshot took; those of a bucket that is to be
\* written again are the same as it has.
RowsAgree ==
    \A k \in DOMAIN rows :
      /\ k[1] \in Exporters /\ k[2] \in Nat /\ Past(k[2])
      /\ <<k[1], k[2]>> \notin late =>
           \A acc : Held(k[1], k[2], acc) => rows[k].got = {d \in acc.got : d.iface = k[3]}

PublishedWhole ==
    \A k \in DOMAIN quality :
      /\ k[1] \in Exporters /\ k = <<k[1], k[2]>>
      /\ quality[k] /\ k \notin late => Good(k[1], k[2], RowOf(k[1], k[2]))

WholeInv == /\ HeldWhole /\ HeldOnce /\ ExporterHeads /\ ArrivedBefore /\ CurrentWhole
            /\ RowsAgree /\ PublishedWhole

LEMMA WholeImplies == WholeInv => CompleteIsWhole
  BY DEF WholeInv, PublishedWhole, CompleteIsWhole, Good

\* There is nothing at first.
LEMMA WholeInit == Init => WholeInv
<1> SUFFICES ASSUME Init PROVE WholeInv
  OBVIOUS
<1>1. /\ \A e \in Exporters : exporters[e] = {} /\ DOMAIN flush.closed[e] = {}
      /\ DOMAIN arrived = {} /\ DOMAIN rows = {} /\ DOMAIN quality = {}
  BY DEF Init, Idle, Empty
<1>2. HeldWhole /\ HeldOnce /\ ExporterHeads /\ CurrentWhole
  BY <1>1 DEF HeldWhole, Held, HeldOnce, ExporterHeads, CurrentWhole
<1>3. ArrivedBefore /\ RowsAgree /\ PublishedWhole
  BY <1>1 DEF ArrivedBefore, RowsAgree, PublishedWhole
<1>4. QED
  BY <1>2, <1>3 DEF WholeInv

LEMMA BucketSecsPositive == BucketSecs \in Nat /\ BucketSecs > 0
  BY FlowAssumption

\* What is in the pass has been in a snapshot.
LEMMA PassIsPast ==
    ASSUME CohortInv, NEW e \in Exporters, NEW ts \in DOMAIN flush.closed[e]
    PROVE  ts \in Nat /\ Past(ts) /\ ts < clock
<1>1. ts \in Nat /\ Past(ts)
  BY DEF CohortInv, FlowShape, IsBuckets, PassSafe, InPass, Past
<1>2. QED
  BY <1>1, BucketSecsPositive DEF CohortInv, FlowShape, Past

LEMMA HeldNat ==
    ASSUME CohortInv, NEW e \in Exporters, NEW ts, NEW acc, Held(e, ts, acc) PROVE ts \in Nat
  BY DEF CohortInv, FlowShape, IsExporter, IsBuckets, Held

\* Rows and verdicts of a written bucket
LEMMA WrittenIs ==
    ASSUME CohortInv, RowsAgree, NEW f \in Exporters, NEW t \in DOMAIN flush.closed[f], Written(f, t)
    PROVE  /\ \A k \in DOMAIN rows' : <<k[1], k[2]>> # <<f, t>> => k \in DOMAIN rows /\ rows'[k] = rows[k]
           /\ \A k \in DOMAIN rows' : <<k[1], k[2]>> = <<f, t>> /\ <<f, t>> \notin late =>
                rows'[k].got = {d \in flush.closed[f][t].got : d.iface = k[3]}
           /\ \A e, ts : <<e, ts>> # <<f, t>> => RowOf(e, ts)' = RowOf(e, ts)
           /\ <<f, t>> \notin late => RowOf(f, t)' = flush.closed[f][t].got
           /\ quality' = With(quality, <<f, t>>, Complete(flush.closed[f][t]))
<1> DEFINE acc == flush.closed[f][t]
           keys == {<<f, t, i>> : i \in KeysOf(acc)}
<1>1. /\ DOMAIN rows' = DOMAIN rows \cup keys
      /\ \A k \in keys : rows'[k].got = {d \in acc.got : d.iface = k[3]}
      /\ \A k \in DOMAIN rows' : k \notin keys => rows'[k] = rows[k]
      /\ quality' = With(quality, <<f, t>>, Complete(acc))
  BY DEF Written
<1>2. \A k \in keys : k[1] = f /\ k[2] = t
  OBVIOUS
<1>3. \A k \in DOMAIN rows' : <<k[1], k[2]>> # <<f, t>> => k \in DOMAIN rows /\ rows'[k] = rows[k]
  <2> HIDE DEF keys
  <2>1. QED
    BY <1>1, <1>2
<1>4. ASSUME NEW k \in DOMAIN rows', k[1] = f, k[2] = t, <<f, t>> \notin late
      PROVE  rows'[k].got = {d \in acc.got : d.iface = k[3]}
  <2>1. CASE k \in keys
    BY <1>1, <2>1
  <2>2. CASE k \notin keys
    <3>1. k \in DOMAIN rows /\ rows'[k] = rows[k] /\ Held(f, t, acc)
      BY <1>1, <2>2 DEF Held
    <3> HIDE DEF keys, acc
    <3>2. rows[k].got = {d \in acc.got : d.iface = k[3]}
      BY <1>4, <3>1 DEF RowsAgree
    <3>3. QED
      BY <3>1, <3>2
  <2>3. QED
    BY <2>1, <2>2
<1>5. \A k \in DOMAIN rows : k \in DOMAIN rows'
  BY <1>1
<1>6. ASSUME NEW e, NEW ts, <<e, ts>> # <<f, t>> PROVE RowOf(e, ts)' = RowOf(e, ts)
  <2>1. {j \in DOMAIN rows' : j[1] = e /\ j[2] = ts} = {j \in DOMAIN rows : j[1] = e /\ j[2] = ts}
    BY <1>3, <1>5, <1>6
  <2>2. \A j \in DOMAIN rows' : j[1] = e /\ j[2] = ts => rows'[j] = rows[j]
    BY <1>3, <1>6
  <2>3. QED
    BY <2>1, <2>2 DEF RowOf
<1>7. ASSUME <<f, t>> \notin late PROVE RowOf(f, t)' = acc.got
  <2>1. ASSUME NEW d \in RowOf(f, t)' PROVE d \in acc.got
    <3>1. PICK k \in DOMAIN rows' : k[1] = f /\ k[2] = t /\ d \in rows'[k].got
      BY <2>1 DEF RowOf
    <3>2. QED
      BY <1>4, <1>7, <3>1
  <2>2. ASSUME NEW d \in acc.got PROVE d \in RowOf(f, t)'
    <3>1. <<f, t, d.iface>> \in keys
      BY <2>2 DEF KeysOf
    <3>2. d \in rows'[<<f, t, d.iface>>].got /\ <<f, t, d.iface>> \in DOMAIN rows'
      BY <1>1, <3>1
    <3> HIDE DEF keys, acc
    <3>3. QED
      BY <3>2 DEF RowOf
  <2>3. QED
    BY <2>1, <2>2
<1> HIDE DEF acc, keys
<1>8. QED
  BY <1>1, <1>3, <1>4, <1>6, <1>7 DEF acc

LEMMA GoodKept ==
    ASSUME NEW e, NEW ts, NEW S, At(arrived', <<e, ts>>, 0) = At(arrived, <<e, ts>>, 0)
    PROVE  Good(e, ts, S)' <=> Good(e, ts, S)
  BY DEF Good

\* A step without a datagram: what is held was held, and what is written is
\* what the pass has.
LEMMA HeldStep ==
    ASSUME CohortInv, CohortInv', WholeInv, late' = late, snapped <= snapped',
           \A e \in Exporters : \A ts, acc : <<e, ts>> \notin late /\ Held(e, ts, acc)' => Held(e, ts, acc),
           \A e \in Exporters : \A ts \in Nat : Past(ts) \/ (\E acc : Held(e, ts, acc)') =>
             At(arrived', <<e, ts>>, 0) = At(arrived, <<e, ts>>, 0),
           \/ rows' = rows /\ \A k \in DOMAIN quality' : k \in DOMAIN quality /\ quality'[k] = quality[k]
           \/ \E f \in Exporters : \E t \in DOMAIN flush.closed[f] : Written(f, t)
    PROVE  HeldWhole' /\ RowsAgree' /\ PublishedWhole'
<1> USE DEF WholeInv
<1>1. HeldWhole'
  <2> SUFFICES ASSUME NEW e \in Exporters, NEW ts, NEW acc, Held(e, ts, acc)', <<e, ts>> \notin late', Complete(acc)
               PROVE  Good(e, ts, acc.got)'
    BY DEF HeldWhole
  <2>1. Good(e, ts, acc.got)
    BY DEF HeldWhole
  <2>2. At(arrived', <<e, ts>>, 0) = At(arrived, <<e, ts>>, 0)
    BY HeldNat
  <2>3. QED
    BY <2>1, <2>2, GoodKept
<1>2. \A ts \in Nat : Past(ts) => Past(ts)'
  BY BucketSecsPositive DEF Past, CohortInv, FlowShape
<1>3. \A k \in DOMAIN quality : k[2] \in Nat /\ Past(k[2])
  BY DEF CohortInv, VerdictsClosed, Past
<1>4. CASE rows' = rows /\ \A k \in DOMAIN quality' : k \in DOMAIN quality /\ quality'[k] = quality[k]
  <2>1. RowsAgree'
    <3> SUFFICES ASSUME NEW k \in DOMAIN rows
                 PROVE  /\ k[1] \in Exporters /\ k[2] \in Nat /\ Past(k[2])'
                        /\ <<k[1], k[2]>> \notin late =>
                             \A acc : Held(k[1], k[2], acc)' => rows[k].got = {d \in acc.got : d.iface = k[3]}
      BY <1>4 DEF RowsAgree
    <3>1. k[1] \in Exporters /\ k[2] \in Nat /\ Past(k[2])
      BY DEF RowsAgree
    <3>2. QED
      BY <1>2, <3>1 DEF RowsAgree
  <2>2. PublishedWhole'
    <3> SUFFICES ASSUME NEW k \in DOMAIN quality'
                 PROVE  /\ k[1] \in Exporters /\ k = <<k[1], k[2]>>
                        /\ quality'[k] /\ k \notin late' => Good(k[1], k[2], RowOf(k[1], k[2]))'
      BY DEF PublishedWhole
    <3>1. k \in DOMAIN quality /\ quality'[k] = quality[k]
      BY <1>4
    <3>2. PICK S : S = RowOf(k[1], k[2]) /\ S = RowOf(k[1], k[2])'
      BY <1>4 DEF RowOf
    <3>3. /\ k[1] \in Exporters /\ k = <<k[1], k[2]>>
          /\ quality[k] /\ k \notin late => Good(k[1], k[2], S)
      BY <3>1, <3>2 DEF PublishedWhole
    <3>4. At(arrived', <<k[1], k[2]>>, 0) = At(arrived, <<k[1], k[2]>>, 0)
      BY <1>3, <3>1, <3>3
    <3>5. Good(k[1], k[2], S) => Good(k[1], k[2], S)'
      BY <3>4, GoodKept
    <3>6. QED
      BY <3>1, <3>2, <3>3, <3>5
  <2>3. QED
    BY <1>1, <2>1, <2>2
<1>5. CASE \E f \in Exporters : \E t \in DOMAIN flush.closed[f] : Written(f, t)
  <2>0. PICK f \in Exporters : \E t \in DOMAIN flush.closed[f] : Written(f, t)
    BY <1>5
  <2>1. PICK t \in DOMAIN flush.closed[f] : Written(f, t)
    BY <2>0
  <2>2. PICK new : new = flush.closed[f][t]
    OBVIOUS
  <2>3. /\ \A k \in DOMAIN rows' : <<k[1], k[2]>> # <<f, t>> => k \in DOMAIN rows /\ rows'[k] = rows[k]
        /\ \A k \in DOMAIN rows' : <<k[1], k[2]>> = <<f, t>> /\ <<f, t>> \notin late =>
             rows'[k].got = {d \in new.got : d.iface = k[3]}
        /\ \A e, ts : <<e, ts>> # <<f, t>> => RowOf(e, ts)' = RowOf(e, ts)
        /\ <<f, t>> \notin late => RowOf(f, t)' = new.got
        /\ quality' = With(quality, <<f, t>>, Complete(new))
    BY <2>1, <2>2, WrittenIs
  <2>4. t \in Nat /\ Past(t) /\ Held(f, t, new)
    BY <2>2, PassIsPast DEF Held
  <2>5. \A acc : <<f, t>> \notin late /\ Held(f, t, acc) => acc = new
    BY <2>2 DEF Held, HeldOnce
  <2>6. RowsAgree'
    <3> SUFFICES ASSUME NEW k \in DOMAIN rows'
                 PROVE  /\ k[1] \in Exporters /\ k[2] \in Nat /\ Past(k[2])'
                        /\ <<k[1], k[2]>> \notin late' =>
                             \A acc : Held(k[1], k[2], acc)' => rows'[k].got = {d \in acc.got : d.iface = k[3]}
      BY DEF RowsAgree
    <3>1. CASE <<k[1], k[2]>> = <<f, t>>
      <4>1. k[1] = f /\ k[2] = t
        BY <3>1
      <4>2. \A acc : <<f, t>> \notin late /\ Held(f, t, acc)' => acc = new
        BY <2>5
      <4>3. QED
        BY <1>2, <2>3, <2>4, <4>1, <4>2
    <3>2. CASE <<k[1], k[2]>> # <<f, t>>
      <4>1. k \in DOMAIN rows /\ rows'[k] = rows[k]
        BY <2>3, <3>2
      <4>2. k[1] \in Exporters /\ k[2] \in Nat /\ Past(k[2])
        BY <4>1 DEF RowsAgree
      <4>3. QED
        BY <1>2, <4>1, <4>2 DEF RowsAgree
    <3>3. QED
      BY <3>1, <3>2
  <2>7. PublishedWhole'
    <3> SUFFICES ASSUME NEW k \in DOMAIN quality'
                 PROVE  /\ k[1] \in Exporters /\ k = <<k[1], k[2]>>
                        /\ quality'[k] /\ k \notin late' => Good(k[1], k[2], RowOf(k[1], k[2]))'
      BY DEF PublishedWhole
    <3>1. CASE k = <<f, t>>
      <4>1. quality'[k] = Complete(new)
        BY <2>3, <3>1 DEF With
      <4>2. ASSUME Complete(new), <<f, t>> \notin late PROVE Good(f, t, new.got)'
        <5>1. Good(f, t, new.got)
          BY <2>4, <4>2 DEF HeldWhole
        <5>2. At(arrived', <<f, t>>, 0) = At(arrived, <<f, t>>, 0)
          BY <2>4
        <5>3. QED
          BY <5>1, <5>2, GoodKept
      <4>3. k[1] = f /\ k[2] = t
        BY <3>1
      <4>4. QED
        BY <2>3, <3>1, <4>1, <4>2, <4>3
    <3>2. CASE k # <<f, t>>
      <4>1. k \in DOMAIN quality /\ quality'[k] = quality[k]
        BY <2>3, <3>2 DEF With
      <4>2. k[1] \in Exporters /\ k = <<k[1], k[2]>>
        BY <4>1 DEF PublishedWhole
      <4>3. PICK S : S = RowOf(k[1], k[2]) /\ S = RowOf(k[1], k[2])'
        BY <2>3, <3>2, <4>2
      <4>4. quality[k] /\ k \notin late => Good(k[1], k[2], S)
        BY <4>1, <4>3 DEF PublishedWhole
      <4>5. At(arrived', <<k[1], k[2]>>, 0) = At(arrived, <<k[1], k[2]>>, 0)
        BY <1>3, <4>1, <4>2
      <4>6. Good(k[1], k[2], S) => Good(k[1], k[2], S)'
        BY <4>5, GoodKept
      <4>7. QED
        BY <4>1, <4>2, <4>3, <4>4, <4>6
    <3>3. QED
      BY <3>1, <3>2
  <2>8. QED
    BY <1>1, <2>6, <2>7
<1>6. QED
  BY <1>4, <1>5

\* A step that at most gives up the exporters F, some of the pass and some
\* verdicts, or writes a bucket of the pass
LEMMA ShrinkStep ==
    ASSUME CohortInv, CohortInv', WholeInv, late' = late, snapped' = snapped,
           NEW F \in SUBSET Exporters, clock <= clock', F # {} => clock' = clock,
           \A e \in Exporters : exporters'[e] = IF e \in F THEN {} ELSE exporters[e],
           DOMAIN arrived' = {k \in DOMAIN arrived : ~ (k[1] \in F /\ k[2] = clock)},
           \A k \in DOMAIN arrived' : arrived'[k] = arrived[k],
           \A e \in Exporters : \A ts \in DOMAIN flush'.closed[e] :
             ts \in DOMAIN flush.closed[e] /\ flush'.closed[e][ts] = flush.closed[e][ts],
           \/ rows' = rows /\ \A k \in DOMAIN quality' : k \in DOMAIN quality /\ quality'[k] = quality[k]
           \/ \E f \in Exporters : \E t \in DOMAIN flush.closed[f] : Written(f, t)
    PROVE  WholeInv'
<1> USE DEF WholeInv
<1>1. clock \in Nat /\ clock' \in Nat /\ snapped \in Nat /\ snapped <= clock
  BY DEF CohortInv, FlowShape
<1>2. \A e \in Exporters : \A ts, acc : Held(e, ts, acc)' => Held(e, ts, acc)
  BY DEF Held
<1>3. ASSUME NEW e \in Exporters, NEW ts, ~ (e \in F /\ ts = clock)
      PROVE  At(arrived', <<e, ts>>, 0) = At(arrived, <<e, ts>>, 0)
  BY <1>3 DEF At
<1>4. ASSUME NEW e \in Exporters, NEW ts \in Nat, Past(ts) \/ (\E acc : Held(e, ts, acc)')
      PROVE  ~ (e \in F /\ ts = clock)
  <2>1. CASE Past(ts)
    BY <1>1, <2>1, BucketSecsPositive DEF Past
  <2>2. CASE e \in F /\ \E acc : Held(e, ts, acc)'
    <3>1. ts \in DOMAIN flush.closed[e]
      BY <2>2 DEF Held
    <3>2. ts < clock
      BY <3>1, PassIsPast
    <3>3. QED
      BY <1>1, <3>2
  <2>3. QED
    BY <1>4, <2>1, <2>2
<1>5. HeldWhole' /\ RowsAgree' /\ PublishedWhole'
  <2>1. \A e \in Exporters : \A ts \in Nat : Past(ts) \/ (\E acc : Held(e, ts, acc)') =>
             At(arrived', <<e, ts>>, 0) = At(arrived, <<e, ts>>, 0)
    BY <1>3, <1>4
  <2>2. snapped <= snapped'
    BY <1>1
  <2>3. QED
    BY <1>2, <2>1, <2>2, HeldStep
<1>6. HeldOnce'
  BY DEF HeldOnce
<1>7. ASSUME NEW e \in Exporters, NEW x \in exporters'[e] PROVE e \notin F /\ x \in exporters[e]
  OBVIOUS
<1>8. ExporterHeads'
  <2> SUFFICES ASSUME NEW e \in Exporters, NEW x \in exporters'[e]
               PROVE  /\ x.seen \in Nat /\ x.seen <= clock'
                      /\ x.seq \in 0 .. SeqMod - 1 /\ x.uptime \in 0 .. UptimeMod - 1
                      /\ \A b \in DOMAIN x.buckets : b <= Bucket(x.seen) \/ Past(b)'
    BY DEF ExporterHeads
  <2>1. x \in exporters[e]
    BY <1>7
  <2>2. /\ x.seen \in Nat /\ x.seen <= clock
        /\ x.seq \in 0 .. SeqMod - 1 /\ x.uptime \in 0 .. UptimeMod - 1
        /\ \A b \in DOMAIN x.buckets : b <= Bucket(x.seen) \/ Past(b)
    BY <2>1 DEF ExporterHeads
  <2>3. x.seen <= clock'
    BY <1>1, <2>2
  <2>4. QED
    BY <2>2, <2>3 DEF Past
<1>9. ArrivedBefore'
  <2> SUFFICES ASSUME NEW k \in DOMAIN arrived'
               PROVE  /\ k[1] \in Exporters /\ k[2] \in Nat /\ Bucket(k[2]) = k[2]
                      /\ exporters'[k[1]] = {} => k[2] < clock'
                      /\ \A x \in exporters'[k[1]] : k[2] <= x.seen
    BY DEF ArrivedBefore
  <2>1. /\ k[1] \in Exporters /\ k[2] \in Nat /\ Bucket(k[2]) = k[2]
        /\ exporters[k[1]] = {} => k[2] < clock
        /\ \A x \in exporters[k[1]] : k[2] <= x.seen
    BY DEF ArrivedBefore
  <2>2. CASE exporters[k[1]] = {}
    BY <1>1, <2>1, <2>2
  <2>3. CASE exporters[k[1]] # {} /\ k[1] \notin F
    BY <2>1, <2>3
  <2>4. CASE exporters[k[1]] # {} /\ k[1] \in F
    <3>1. PICK x \in exporters[k[1]] : x.seen \in Nat /\ x.seen <= clock
      BY <2>1, <2>4 DEF ExporterHeads
    <3>2. k[2] <= clock /\ k[2] # clock
      BY <1>1, <2>1, <2>4, <3>1
    <3>3. QED
      BY <1>1, <2>1, <2>4, <3>2
  <2>5. QED
    BY <2>2, <2>3, <2>4
<1>10. CurrentWhole'
  <2> SUFFICES ASSUME NEW e \in Exporters, NEW x \in exporters'[e], NEW ts, ts = Bucket(x.seen), ~ Past(ts)'
               PROVE  /\ ts \in DOMAIN x.buckets
                      /\ Complete(x.buckets[ts]) =>
                           /\ Good(e, ts, x.buckets[ts].got)'
                           /\ \E L : /\ Chain(e, x.buckets[ts].got, L)
                                     /\ x.seq = L.seq /\ x.uptime = L.uptime
    BY DEF CurrentWhole
  <2>1. x \in exporters[e] /\ e \notin F /\ ~ Past(ts)
    BY <1>7 DEF Past
  <2>2. /\ ts \in DOMAIN x.buckets
        /\ Complete(x.buckets[ts]) =>
             /\ Good(e, ts, x.buckets[ts].got)
             /\ \E L : /\ Chain(e, x.buckets[ts].got, L)
                       /\ x.seq = L.seq /\ x.uptime = L.uptime
    BY <2>1 DEF CurrentWhole
  <2>3. At(arrived', <<e, ts>>, 0) = At(arrived, <<e, ts>>, 0)
    BY <1>3, <2>1
  <2>4. Good(e, ts, x.buckets[ts].got)' <=> Good(e, ts, x.buckets[ts].got)
    BY <2>3, GoodKept
  <2>5. QED
    BY <2>2, <2>4
<1>11. QED
  BY <1>5, <1>6, <1>8, <1>9, <1>10

LEMMA IdleClosed == \A e \in Exporters : DOMAIN Idle.closed[e] = {}
  BY DEF Idle, Empty

\* Steps that give up an exporter's state
LEMMA WholeForgets ==
    ASSUME CohortInv, CohortInv', WholeInv, (\E f \in Exporters : EvictExporter(f)) \/ CollectorRestarts
    PROVE  WholeInv'
<1>1. ASSUME NEW f \in Exporters, EvictExporter(f) PROVE WholeInv'
  <2>1. /\ UNCHANGED <<late, snapped, clock, flush, rows, quality>>
        /\ arrived' = Forgotten(f, clock) /\ exporters' = [exporters EXCEPT ![f] = {}]
    BY <1>1 DEF EvictExporter
  <2>2. /\ DOMAIN arrived' = {k \in DOMAIN arrived : ~ (k[1] \in {f} /\ k[2] = clock)}
        /\ \A k \in DOMAIN arrived' : arrived'[k] = arrived[k]
    BY <2>1 DEF Forgotten
  <2>3. \A e \in Exporters : exporters'[e] = IF e \in {f} THEN {} ELSE exporters[e]
    BY <2>1 DEF CohortInv, FlowShape
  <2>4. {f} \in SUBSET Exporters /\ clock <= clock'
    BY <2>1 DEF CohortInv, FlowShape
  <2>5. QED
    BY <2>1, <2>2, <2>3, <2>4, ShrinkStep
<1>2. ASSUME CollectorRestarts PROVE WholeInv'
  <2>1. /\ UNCHANGED <<late, snapped, clock, rows, quality>> /\ flush' = Idle
        /\ arrived' = [k \in {j \in DOMAIN arrived : j[2] # clock} |-> arrived[k]]
        /\ \A e \in Exporters : exporters'[e] = {}
    BY <1>2 DEF CollectorRestarts
  <2>2. \A k \in DOMAIN arrived : k[1] \in Exporters
    BY DEF WholeInv, ArrivedBefore
  <2>3. /\ DOMAIN arrived' = {k \in DOMAIN arrived : ~ (k[1] \in Exporters /\ k[2] = clock)}
        /\ \A k \in DOMAIN arrived' : arrived'[k] = arrived[k]
    BY <2>1, <2>2
  <2>4. /\ \A e \in Exporters : exporters'[e] = IF e \in Exporters THEN {} ELSE exporters[e]
        /\ \A e \in Exporters : DOMAIN flush'.closed[e] = {}
        /\ clock <= clock'
    BY <2>1, IdleClosed DEF CohortInv, FlowShape
  <2>5. QED
    BY <2>1, <2>3, <2>4, ShrinkStep
<1>3. QED
  BY <1>1, <1>2

\* Steps of the pass that write no bucket, the clock and the allowlist
LEMMA WholeQuiet ==
    ASSUME CohortInv, CohortInv', WholeInv,
           \/ \E f \in Exporters : RegisterContributors(f) \/ UpsertExporter(f)
           \/ \E new \in [Exporters -> Devices \cup {NoDevice}] : RefreshAllowlist(new)
           \/ Tick \/ RaiseBarrier \/ OpenBarrier \/ MarkPublished \/ UNCHANGED flowVars
    PROVE  WholeInv'
<1>1. UNCHANGED <<late, snapped, rows, exporters, arrived>> /\ (clock' = clock \/ clock' = clock + 1)
  BY DEF RegisterContributors, UpsertExporter, RefreshAllowlist, Tick, RaiseBarrier, OpenBarrier,
         MarkPublished, flowVars
<1>2. \A k \in DOMAIN quality' : k \in DOMAIN quality /\ quality'[k] = quality[k]
  BY DEF RegisterContributors, UpsertExporter, RefreshAllowlist, Tick, RaiseBarrier, OpenBarrier,
         MarkPublished, flowVars, Without
<1>3. \A e \in Exporters : \A ts \in DOMAIN flush'.closed[e] :
        ts \in DOMAIN flush.closed[e] /\ flush'.closed[e][ts] = flush.closed[e][ts]
  <2>1. flush'.closed = flush.closed \/ flush' = Idle
    BY DEF RegisterContributors, UpsertExporter, RefreshAllowlist, Tick, RaiseBarrier, OpenBarrier,
           MarkPublished, flowVars, CohortInv, FlowShape
  <2>2. QED
    BY <2>1, IdleClosed
<1>4. clock <= clock'
  BY <1>1 DEF CohortInv, FlowShape
<1>5. PICK F \in SUBSET Exporters : F = {}
  OBVIOUS
<1>6. /\ F # {} => clock' = clock
      /\ \A e \in Exporters : exporters'[e] = IF e \in F THEN {} ELSE exporters[e]
      /\ DOMAIN arrived' = {k \in DOMAIN arrived : ~ (k[1] \in F /\ k[2] = clock)}
      /\ \A k \in DOMAIN arrived' : arrived'[k] = arrived[k]
  BY <1>1, <1>5
<1>7. QED
  BY <1>1, <1>2, <1>3, <1>4, <1>6, ShrinkStep

\* The bucket written leaves the pass.
LEMMA WholeWrites ==
    ASSUME CohortInv, CohortInv', WholeInv, NEW f \in Exporters, WriteBucket(f) PROVE WholeInv'
<1>1. PICK t \in Newest(f) :
         /\ Written(f, t)
         /\ flush' = [flush EXCEPT !.closed[f] = Without(@, {t}),
                        !.published = @ \cup {<<flush.dev[f], i>> : i \in KeysOf(flush.closed[f][t])}]
  BY DEF WriteBucket
<1>2. UNCHANGED <<late, snapped, clock, exporters, arrived>> /\ t \in DOMAIN flush.closed[f]
  BY DEF WriteBucket, Newest
<1>3. flush'.closed = [flush.closed EXCEPT ![f] = Without(flush.closed[f], {t})]
  BY <1>1 DEF CohortInv, FlowShape
<1>4. \A e \in Exporters : \A ts \in DOMAIN flush'.closed[e] :
        ts \in DOMAIN flush.closed[e] /\ flush'.closed[e][ts] = flush.closed[e][ts]
  BY <1>3 DEF Without, CohortInv, FlowShape
<1>5. clock <= clock'
  BY <1>2 DEF CohortInv, FlowShape
<1>6. PICK F \in SUBSET Exporters : F = {}
  OBVIOUS
<1>7. /\ F # {} => clock' = clock
      /\ \A e \in Exporters : exporters'[e] = IF e \in F THEN {} ELSE exporters[e]
      /\ DOMAIN arrived' = {k \in DOMAIN arrived : ~ (k[1] \in F /\ k[2] = clock)}
      /\ \A k \in DOMAIN arrived' : arrived'[k] = arrived[k]
  BY <1>2, <1>6
<1>8. QED
  BY <1>1, <1>2, <1>4, <1>5, <1>7, ShrinkStep

\* A snapshot moves the buckets that have ended into the pass.
LEMMA SnapshotIs ==
    ASSUME CohortInv, Snapshot
    PROVE  /\ snapped' = clock /\ UNCHANGED <<clock, rows, quality, arrived, late>>
           /\ \A e \in Exporters : \A y \in exporters'[e] : \E x \in exporters[e] :
                /\ SameHead(x, y) /\ DOMAIN y.buckets = DOMAIN x.buckets \ Closed(x)
                /\ \A ts \in DOMAIN y.buckets : y.buckets[ts] = x.buckets[ts]
           /\ \A e \in Exporters : exporters'[e] = {} => exporters[e] = {}
           /\ \A e \in Exporters : \A ts \in DOMAIN flush'.closed[e] : \E x \in exporters[e] :
                ts \in Closed(x) /\ flush'.closed[e][ts] = x.buckets[ts]
<1> DEFINE state(e) == CHOOSE x \in exporters[e] : TRUE
           dev == [e \in Exporters |-> IF exporters[e] = {} THEN NoDevice ELSE state(e).dev]
           taken == [e \in Exporters |-> IF exporters[e] = {} THEN {} ELSE Closed(state(e))]
           full == {e \in Exporters : taken[e] # {}}
           closed == [e \in Exporters |-> [ts \in taken[e] |-> state(e).buckets[ts]]]
           left(x) == [x EXCEPT !.buckets = Without(@, Closed(x))]
<1>1. /\ UNCHANGED <<clock, rows, quality, arrived, late>> /\ snapped' = clock
      /\ exporters' = [e \in Exporters |-> {left(x) : x \in exporters[e]}]
      /\ flush' = [Idle EXCEPT !.phase = IF full = {} THEN "write" ELSE "barrier",
                       !.gen = 1 - barrier.gen, !.dev = dev,
                       !.todo = IF full = {} THEN Stale(dev) ELSE full, !.closed = closed]
  BY DEF Snapshot
<1>2. flush'.closed = closed
  BY <1>1 DEF Idle
<1>3. ASSUME NEW e \in Exporters, NEW x \in exporters[e]
      PROVE  /\ SameHead(x, left(x)) /\ DOMAIN left(x).buckets = DOMAIN x.buckets \ Closed(x)
             /\ \A ts \in DOMAIN left(x).buckets : left(x).buckets[ts] = x.buckets[ts]
  <2>1. IsExporter(x)
    BY DEF CohortInv, FlowShape
  <2>2. left(x).buckets = Without(x.buckets, Closed(x)) /\ SameHead(x, left(x))
    BY <2>1 DEF IsExporter, SameHead
  <2>3. QED
    BY <2>2 DEF Without
<1>4. ASSUME NEW e \in Exporters, NEW ts \in DOMAIN closed[e]
      PROVE  \E x \in exporters[e] : ts \in Closed(x) /\ closed[e][ts] = x.buckets[ts]
  <2>1. PICK x \in exporters[e] : x = state(e)
    BY <1>4
  <2>2. ts \in Closed(x) /\ closed[e][ts] = x.buckets[ts]
    BY <2>1
  <2>3. QED
    BY <2>2
<1> HIDE DEF state, dev, taken, full, closed, left
<1>5. \A e \in Exporters : exporters'[e] = {left(x) : x \in exporters[e]}
  BY <1>1
<1>6. QED
  BY <1>1, <1>2, <1>3, <1>4, <1>5

LEMMA WholeSnapshot == ASSUME CohortInv, CohortInv', WholeInv, Snapshot PROVE WholeInv'
<1> USE DEF WholeInv
<1>1. /\ snapped' = clock /\ UNCHANGED <<clock, rows, quality, arrived, late>>
      /\ \A e \in Exporters : \A y \in exporters'[e] : \E x \in exporters[e] :
           /\ SameHead(x, y) /\ DOMAIN y.buckets = DOMAIN x.buckets \ Closed(x)
           /\ \A ts \in DOMAIN y.buckets : y.buckets[ts] = x.buckets[ts]
      /\ \A e \in Exporters : exporters'[e] = {} => exporters[e] = {}
      /\ \A e \in Exporters : \A ts \in DOMAIN flush'.closed[e] : \E x \in exporters[e] :
           ts \in Closed(x) /\ flush'.closed[e][ts] = x.buckets[ts]
  BY SnapshotIs
<1>2. \A e \in Exporters : \A x, y \in exporters[e] : x = y
  BY DEF CohortInv, FlowShape
<1>3. snapped <= snapped' /\ \A ts \in Nat : Past(ts)' <=> ts + BucketSecs <= clock
  BY <1>1 DEF CohortInv, FlowShape, Past
<1>4. \A ts \in Nat : Past(ts) => Past(ts)'
  BY <1>3, BucketSecsPositive DEF CohortInv, FlowShape, Past
<1>5. \A e \in Exporters : \A ts, acc : Held(e, ts, acc)' => Held(e, ts, acc)
  <2> SUFFICES ASSUME NEW e \in Exporters, NEW ts, NEW acc, Held(e, ts, acc)' PROVE Held(e, ts, acc)
    OBVIOUS
  <2>1. CASE ts \in DOMAIN flush'.closed[e] /\ acc = flush'.closed[e][ts]
    BY <1>1, <2>1 DEF Held, Closed
  <2>2. CASE \E y \in exporters'[e] : ts \in DOMAIN y.buckets /\ acc = y.buckets[ts]
    <3>1. PICK y \in exporters'[e] : ts \in DOMAIN y.buckets /\ acc = y.buckets[ts]
      BY <2>2
    <3>2. PICK x \in exporters[e] : /\ DOMAIN y.buckets = DOMAIN x.buckets \ Closed(x)
                                    /\ \A u \in DOMAIN y.buckets : y.buckets[u] = x.buckets[u]
      BY <1>1
    <3>3. QED
      BY <3>1, <3>2 DEF Held
  <2>3. QED
    BY <2>1, <2>2 DEF Held
<1>6. HeldWhole' /\ RowsAgree' /\ PublishedWhole'
  BY <1>1, <1>3, <1>5, HeldStep
<1>7. HeldOnce'
  <2> SUFFICES ASSUME NEW e \in Exporters, NEW ts \in DOMAIN flush'.closed[e], NEW y \in exporters'[e],
                      ts \in DOMAIN y.buckets
               PROVE  FALSE
    BY DEF HeldOnce
  <2>1. PICK x \in exporters[e] : ts \in Closed(x)
    BY <1>1
  <2>2. PICK z \in exporters[e] : DOMAIN y.buckets = DOMAIN z.buckets \ Closed(z)
    BY <1>1
  <2>3. z = x
    BY <1>2
  <2>4. QED
    BY <2>1, <2>2, <2>3
<1>8. ExporterHeads'
  <2> SUFFICES ASSUME NEW e \in Exporters, NEW y \in exporters'[e]
               PROVE  /\ y.seen \in Nat /\ y.seen <= clock'
                      /\ y.seq \in 0 .. SeqMod - 1 /\ y.uptime \in 0 .. UptimeMod - 1
                      /\ \A b \in DOMAIN y.buckets : b <= Bucket(y.seen) \/ Past(b)'
    BY DEF ExporterHeads
  <2>1. PICK x \in exporters[e] : SameHead(x, y) /\ DOMAIN y.buckets = DOMAIN x.buckets \ Closed(x)
    BY <1>1
  <2>2. /\ x.seen \in Nat /\ x.seen <= clock
        /\ x.seq \in 0 .. SeqMod - 1 /\ x.uptime \in 0 .. UptimeMod - 1
        /\ \A b \in DOMAIN x.buckets : b <= Bucket(x.seen) \/ Past(b)
    BY DEF ExporterHeads
  <2>3. DOMAIN x.buckets \subseteq Nat
    BY DEF CohortInv, FlowShape, IsExporter, IsBuckets
  <2>4. QED
    BY <1>1, <1>4, <2>1, <2>2, <2>3 DEF SameHead
<1>9. ArrivedBefore'
  <2> SUFFICES ASSUME NEW k \in DOMAIN arrived
               PROVE  /\ k[1] \in Exporters /\ k[2] \in Nat /\ Bucket(k[2]) = k[2]
                      /\ exporters'[k[1]] = {} => k[2] < clock
                      /\ \A y \in exporters'[k[1]] : k[2] <= y.seen
    BY <1>1 DEF ArrivedBefore
  <2>1. /\ k[1] \in Exporters /\ k[2] \in Nat /\ Bucket(k[2]) = k[2]
        /\ exporters[k[1]] = {} => k[2] < clock
        /\ \A x \in exporters[k[1]] : k[2] <= x.seen
    BY DEF ArrivedBefore
  <2>2. \A y \in exporters'[k[1]] : \E x \in exporters[k[1]] : y.seen = x.seen
    BY <1>1, <2>1 DEF SameHead
  <2>3. QED
    BY <1>1, <2>1, <2>2
<1>10. CurrentWhole'
  <2> SUFFICES ASSUME NEW e \in Exporters, NEW y \in exporters'[e], NEW ts, ts = Bucket(y.seen), ~ Past(ts)'
               PROVE  /\ ts \in DOMAIN y.buckets
                      /\ Complete(y.buckets[ts]) =>
                           /\ Good(e, ts, y.buckets[ts].got)'
                           /\ \E L : /\ Chain(e, y.buckets[ts].got, L)
                                     /\ y.seq = L.seq /\ y.uptime = L.uptime
    BY DEF CurrentWhole
  <2>1. PICK x \in exporters[e] : /\ SameHead(x, y) /\ DOMAIN y.buckets = DOMAIN x.buckets \ Closed(x)
                                  /\ \A u \in DOMAIN y.buckets : y.buckets[u] = x.buckets[u]
    BY <1>1
  <2>2. ts = Bucket(x.seen) /\ ts \in Nat /\ ~ Past(ts)
    <3>1. x.seen \in Nat
      BY DEF ExporterHeads
    <3>2. QED
      BY <1>4, <2>1, <3>1, BucketSpan DEF SameHead
  <2>3. /\ ts \in DOMAIN x.buckets
        /\ Complete(x.buckets[ts]) =>
             /\ Good(e, ts, x.buckets[ts].got)
             /\ \E L : /\ Chain(e, x.buckets[ts].got, L)
                       /\ x.seq = L.seq /\ x.uptime = L.uptime
    BY <2>2 DEF CurrentWhole
  <2>4. ts \in DOMAIN y.buckets /\ y.buckets[ts] = x.buckets[ts]
    BY <1>3, <2>1, <2>2, <2>3 DEF Closed
  <2>5. Good(e, ts, y.buckets[ts].got)' <=> Good(e, ts, y.buckets[ts].got)
    BY <1>1, GoodKept
  <2>6. QED
    BY <2>1, <2>3, <2>4, <2>5 DEF SameHead
<1>11. QED
  BY <1>6, <1>7, <1>8, <1>9, <1>10

\* The head of an exporter stays, and so does a bucket after all others.
LEMMA PutBackHead ==
    ASSUME NEW x, IsExporter(x), NEW closed, IsBuckets(closed), NEW y \in PutBack(x, closed)
    PROVE  /\ SameHead(x, y)
           /\ \A ts \in DOMAIN x.buckets : ts \notin DOMAIN closed /\ UpTo(x, ts) /\ (\A u \in DOMAIN closed : u <= ts) =>
                ts \in DOMAIN y.buckets /\ y.buckets[ts] = x.buckets[ts]
<1> DEFINE all == DOMAIN x.buckets \cup DOMAIN closed
           kept == Newer(all)
           results(t) == IF t \notin DOMAIN closed THEN {x.buckets[t]}
                         ELSE IF t \notin DOMAIN x.buckets THEN {closed[t]}
                         ELSE merge_from(x.buckets[t], closed[t])
<1>1. PICK b \in [kept -> UNION {results(t) : t \in kept}] :
         /\ \A t \in kept : b[t] \in results(t)
         /\ y = [x EXCEPT !.buckets = b]
  BY DEF PutBack
<1>2. all \subseteq Nat
  BY DEF IsExporter, IsBuckets
<1>3. ASSUME NEW ts \in DOMAIN x.buckets, ts \notin DOMAIN closed, UpTo(x, ts), \A u \in DOMAIN closed : u <= ts
      PROVE  ts \in kept /\ b[ts] = x.buckets[ts]
  <2>1. {u \in all : u > ts} = {}
    BY <1>2, <1>3 DEF UpTo
  <2>2. Cardinality({u \in all : u > ts}) < MaxOpen
    <3>1. Cardinality({}) = 0 /\ MaxOpen \in Nat \ {0}
      BY FS_EmptySet, FlowAssumption
    <3> HIDE DEF all
    <3>2. QED
      BY <2>1, <3>1
  <2>3. ts \in kept
    BY <2>2 DEF Newer
  <2>4. QED
    BY <1>1, <1>3, <2>3
<1>4. DOMAIN b = kept
  BY <1>1
<1> HIDE DEF kept, results, all
<1>5. y.buckets = b /\ SameHead(x, y)
  BY <1>1 DEF IsExporter, SameHead
<1>6. QED
  BY <1>3, <1>4, <1>5

\* A step that puts the unwritten buckets of the exporters E back
LEMMA WholeRequeue ==
    ASSUME CohortInv, CohortInv', WholeInv, NEW E \in SUBSET Exporters, Requeue(E),
           UNCHANGED <<late, snapped, clock, arrived>>,
           \A e \in Exporters : \A ts \in DOMAIN flush'.closed[e] :
             e \notin E /\ ts \in DOMAIN flush.closed[e] /\ flush'.closed[e][ts] = flush.closed[e][ts],
           \/ rows' = rows /\ \A k \in DOMAIN quality' : k \in DOMAIN quality /\ quality'[k] = quality[k]
           \/ \E f \in Exporters : \E t \in DOMAIN flush.closed[f] : Written(f, t)
    PROVE  WholeInv'
<1> USE DEF WholeInv
<1>1. \A e \in Exporters :
         \/ e \in E /\ \E x \in exporters[e] : \E y \in PutBack(x, flush.closed[e]) : exporters'[e] = {y}
         \/ exporters'[e] = exporters[e]
  BY DEF Requeue
<1>2. ASSUME NEW e \in Exporters, NEW y \in exporters'[e]
      PROVE  \E x \in exporters[e] :
               /\ SameHead(x, y)
               /\ y # x => e \in E
               /\ \A ts \in DOMAIN y.buckets :
                    \/ ts \in DOMAIN x.buckets /\ ts \in DOMAIN flush.closed[e]
                    \/ ts \in DOMAIN x.buckets /\ y.buckets[ts] = x.buckets[ts]
                    \/ ts \in DOMAIN flush.closed[e] /\ y.buckets[ts] = flush.closed[e][ts]
               /\ \A ts \in DOMAIN x.buckets :
                    ts \notin DOMAIN flush.closed[e] /\ UpTo(x, ts) /\ (\A u \in DOMAIN flush.closed[e] : u <= ts) =>
                      ts \in DOMAIN y.buckets /\ y.buckets[ts] = x.buckets[ts]
  <2>1. CASE exporters'[e] = exporters[e]
    BY <1>2, <2>1 DEF SameHead
  <2>2. ASSUME NEW x \in exporters[e], e \in E, y \in PutBack(x, flush.closed[e])
        PROVE  /\ SameHead(x, y)
               /\ \A ts \in DOMAIN y.buckets :
                    \/ ts \in DOMAIN x.buckets /\ ts \in DOMAIN flush.closed[e]
                    \/ ts \in DOMAIN x.buckets /\ y.buckets[ts] = x.buckets[ts]
                    \/ ts \in DOMAIN flush.closed[e] /\ y.buckets[ts] = flush.closed[e][ts]
               /\ \A ts \in DOMAIN x.buckets :
                    ts \notin DOMAIN flush.closed[e] /\ UpTo(x, ts) /\ (\A u \in DOMAIN flush.closed[e] : u <= ts) =>
                      ts \in DOMAIN y.buckets /\ y.buckets[ts] = x.buckets[ts]
    <3>1. IsExporter(x) /\ IsBuckets(flush.closed[e])
      BY DEF CohortInv, FlowShape
    <3>2. QED
      BY <2>2, <3>1, PutBackIs, PutBackHead
  <2>3. QED
    BY <1>1, <1>2, <2>1, <2>2
<1>3. \A e \in Exporters : exporters'[e] = {} => exporters[e] = {}
  BY <1>1
<1>4. clock \in Nat /\ snapped \in Nat /\ \A ts : Past(ts)' <=> Past(ts)
  BY DEF CohortInv, FlowShape, Past
<1>5. \A e \in Exporters : \A ts, acc : <<e, ts>> \notin late /\ Held(e, ts, acc)' => Held(e, ts, acc)
  <2> SUFFICES ASSUME NEW e \in Exporters, NEW ts, NEW acc, <<e, ts>> \notin late, Held(e, ts, acc)'
               PROVE  Held(e, ts, acc)
    OBVIOUS
  <2>1. CASE ts \in DOMAIN flush'.closed[e] /\ acc = flush'.closed[e][ts]
    BY <2>1 DEF Held
  <2>2. CASE \E y \in exporters'[e] : ts \in DOMAIN y.buckets /\ acc = y.buckets[ts]
    <3>1. PICK y \in exporters'[e] : ts \in DOMAIN y.buckets /\ acc = y.buckets[ts]
      BY <2>2
    <3>2. PICK x \in exporters[e] :
             \/ ts \in DOMAIN x.buckets /\ ts \in DOMAIN flush.closed[e]
             \/ ts \in DOMAIN x.buckets /\ y.buckets[ts] = x.buckets[ts]
             \/ ts \in DOMAIN flush.closed[e] /\ y.buckets[ts] = flush.closed[e][ts]
      BY <1>2, <3>1
    <3>3. ~ (ts \in DOMAIN x.buckets /\ ts \in DOMAIN flush.closed[e])
      BY DEF HeldOnce
    <3>4. QED
      BY <3>1, <3>2, <3>3 DEF Held
  <2>3. QED
    BY <2>1, <2>2 DEF Held
<1>6. HeldWhole' /\ RowsAgree' /\ PublishedWhole'
  BY <1>4, <1>5, HeldStep
<1>7. HeldOnce'
  <2> SUFFICES ASSUME NEW e \in Exporters, NEW ts \in DOMAIN flush'.closed[e], NEW y \in exporters'[e],
                      ts \in DOMAIN y.buckets
               PROVE  <<e, ts>> \in late
    BY DEF HeldOnce
  <2>1. e \notin E /\ ts \in DOMAIN flush.closed[e]
    OBVIOUS
  <2>2. y \in exporters[e]
    BY <1>1, <2>1
  <2>3. QED
    BY <2>1, <2>2 DEF HeldOnce
<1>8. ExporterHeads'
  <2> SUFFICES ASSUME NEW e \in Exporters, NEW y \in exporters'[e]
               PROVE  /\ y.seen \in Nat /\ y.seen <= clock'
                      /\ y.seq \in 0 .. SeqMod - 1 /\ y.uptime \in 0 .. UptimeMod - 1
                      /\ \A b \in DOMAIN y.buckets : b <= Bucket(y.seen) \/ Past(b)'
    BY DEF ExporterHeads
  <2>1. PICK x \in exporters[e] :
           /\ SameHead(x, y)
           /\ \A ts \in DOMAIN y.buckets : ts \in DOMAIN x.buckets \/ ts \in DOMAIN flush.closed[e]
    BY <1>2
  <2>2. /\ x.seen \in Nat /\ x.seen <= clock
        /\ x.seq \in 0 .. SeqMod - 1 /\ x.uptime \in 0 .. UptimeMod - 1
        /\ \A b \in DOMAIN x.buckets : b <= Bucket(x.seen) \/ Past(b)
    BY DEF ExporterHeads
  <2>3. \A b \in DOMAIN flush.closed[e] : Past(b)
    BY PassIsPast
  <2>4. QED
    BY <1>4, <2>1, <2>2, <2>3 DEF SameHead
<1>9. ArrivedBefore'
  <2> SUFFICES ASSUME NEW k \in DOMAIN arrived
               PROVE  /\ k[1] \in Exporters /\ k[2] \in Nat /\ Bucket(k[2]) = k[2]
                      /\ exporters'[k[1]] = {} => k[2] < clock
                      /\ \A y \in exporters'[k[1]] : k[2] <= y.seen
    BY DEF ArrivedBefore
  <2>1. /\ k[1] \in Exporters /\ k[2] \in Nat /\ Bucket(k[2]) = k[2]
        /\ exporters[k[1]] = {} => k[2] < clock
        /\ \A x \in exporters[k[1]] : k[2] <= x.seen
    BY DEF ArrivedBefore
  <2>2. \A y \in exporters'[k[1]] : \E x \in exporters[k[1]] : y.seen = x.seen
    BY <1>2, <2>1 DEF SameHead
  <2>3. QED
    BY <1>3, <2>1, <2>2
<1>10. CurrentWhole'
  <2> SUFFICES ASSUME NEW e \in Exporters, NEW y \in exporters'[e], NEW ts, ts = Bucket(y.seen), ~ Past(ts)'
               PROVE  /\ ts \in DOMAIN y.buckets
                      /\ Complete(y.buckets[ts]) =>
                           /\ Good(e, ts, y.buckets[ts].got)'
                           /\ \E L : /\ Chain(e, y.buckets[ts].got, L)
                                     /\ y.seq = L.seq /\ y.uptime = L.uptime
    BY DEF CurrentWhole
  <2>1. PICK x \in exporters[e] :
           /\ SameHead(x, y)
           /\ \A t \in DOMAIN x.buckets :
                t \notin DOMAIN flush.closed[e] /\ UpTo(x, t) /\ (\A u \in DOMAIN flush.closed[e] : u <= t) =>
                  t \in DOMAIN y.buckets /\ y.buckets[t] = x.buckets[t]
    BY <1>2
  <2>2. ts = Bucket(x.seen) /\ ts \in Nat /\ ~ Past(ts)
    <3>1. x.seen \in Nat
      BY DEF ExporterHeads
    <3>2. QED
      BY <1>4, <2>1, <3>1, BucketSpan DEF SameHead
  <2>3. /\ ts \in DOMAIN x.buckets
        /\ Complete(x.buckets[ts]) =>
             /\ Good(e, ts, x.buckets[ts].got)
             /\ \E L : /\ Chain(e, x.buckets[ts].got, L)
                       /\ x.seq = L.seq /\ x.uptime = L.uptime
    BY <2>2 DEF CurrentWhole
  <2>4. \A b \in Nat : Past(b) => b < ts
    BY <1>4, <2>2, BucketSecsPositive DEF Past
  <2>5. UpTo(x, ts)
    <3> SUFFICES ASSUME NEW b \in DOMAIN x.buckets PROVE b <= ts
      BY DEF UpTo
    <3>1. b \in Nat
      BY DEF CohortInv, FlowShape, IsExporter, IsBuckets
    <3>2. b <= ts \/ Past(b)
      BY <2>2 DEF ExporterHeads
    <3>3. QED
      BY <2>2, <2>4, <3>1, <3>2
  <2>6. ts \notin DOMAIN flush.closed[e] /\ \A u \in DOMAIN flush.closed[e] : u <= ts
    <3>1. \A u \in DOMAIN flush.closed[e] : u \in Nat /\ Past(u)
      BY PassIsPast
    <3>2. QED
      BY <2>2, <2>4, <3>1
  <2>7. ts \in DOMAIN y.buckets /\ y.buckets[ts] = x.buckets[ts]
    BY <2>1, <2>3, <2>5, <2>6
  <2>8. Good(e, ts, y.buckets[ts].got)' <=> Good(e, ts, y.buckets[ts].got)
    BY GoodKept
  <2>9. QED
    BY <2>1, <2>3, <2>7, <2>8 DEF SameHead
<1>11. QED
  BY <1>6, <1>7, <1>8, <1>9, <1>10

\* Both failures put buckets back.
LEMMA WholeFails ==
    ASSUME CohortInv, CohortInv', WholeInv, PrepareFails \/ \E f \in Exporters : WriteFails(f) PROVE WholeInv'
<1>1. ASSUME PrepareFails PROVE WholeInv'
  <2>1. /\ Requeue(Exporters) /\ flush' = Idle
        /\ UNCHANGED <<late, snapped, clock, arrived, rows, quality>>
    BY <1>1 DEF PrepareFails
  <2>2. \A e \in Exporters : DOMAIN flush'.closed[e] = {}
    BY <2>1, IdleClosed
  <2>3. QED
    BY <2>1, <2>2, WholeRequeue
<1>2. ASSUME NEW f \in Exporters, WriteFails(f) PROVE WholeInv'
  <2>1. /\ Requeue({f}) /\ flush' = [flush EXCEPT !.closed[f] = Empty, !.todo = @ \ {f}]
        /\ UNCHANGED <<late, snapped, clock, arrived>>
        /\ (\E t \in DOMAIN flush.closed[f] : Written(f, t)) \/ UNCHANGED <<rows, quality>>
    BY <1>2 DEF WriteFails, Newest
  <2>2. flush'.closed = [flush.closed EXCEPT ![f] = Empty] /\ DOMAIN Empty = {}
    BY <2>1 DEF CohortInv, FlowShape, Empty
  <2>3. \A e \in Exporters : \A ts \in DOMAIN flush'.closed[e] :
          e \notin {f} /\ ts \in DOMAIN flush.closed[e] /\ flush'.closed[e][ts] = flush.closed[e][ts]
    BY <2>2 DEF CohortInv, FlowShape
  <2>4. {f} \in SUBSET Exporters
    OBVIOUS
  <2>5. QED
    BY <2>1, <2>3, <2>4, WholeRequeue
<1>3. QED
  BY <1>1, <1>2

\* The counts of other buckets stay.
LEMMA ArrivedKept ==
    ASSUME ArrivedBefore, NEW f, NEW now \in Nat, NEW ts, ts = Bucket(now),
           NEW ghost, ghost \in {Forgotten(f, now), arrived},
           arrived' = With(ghost, <<f, ts>>, At(ghost, <<f, ts>>, 0) + 1)
    PROVE  /\ DOMAIN arrived' \subseteq DOMAIN arrived \cup {<<f, ts>>}
           /\ \A e, t : <<e, t>> # <<f, ts>> => At(arrived', <<e, t>>, 0) = At(arrived, <<e, t>>, 0)
           /\ At(arrived', <<f, ts>>, 0) = At(ghost, <<f, ts>>, 0) + 1
<1>1. /\ DOMAIN ghost \subseteq DOMAIN arrived
      /\ \A k \in DOMAIN ghost : ghost[k] = arrived[k]
      /\ \A k \in DOMAIN arrived : k \in DOMAIN ghost \/ (k[1] = f /\ k[2] = now)
  BY DEF Forgotten
<1>2. /\ DOMAIN arrived' = DOMAIN ghost \cup {<<f, ts>>}
      /\ arrived'[<<f, ts>>] = At(ghost, <<f, ts>>, 0) + 1
      /\ \A k \in DOMAIN ghost : k # <<f, ts>> => arrived'[k] = ghost[k]
  BY DEF With
<1>3. ASSUME NEW e, NEW t, <<e, t>> # <<f, ts>>
      PROVE  At(arrived', <<e, t>>, 0) = At(arrived, <<e, t>>, 0)
  <2>1. <<e, t>> \in DOMAIN arrived => <<e, t>> \in DOMAIN ghost
    <3>1. <<e, t>> \in DOMAIN arrived => Bucket(t) = t
      BY DEF ArrivedBefore
    <3>2. QED
      BY <1>1, <1>3, <3>1
  <2>2. QED
    BY <1>1, <1>2, <1>3, <2>1 DEF At
<1>4. QED
  BY <1>1, <1>2, <1>3 DEF At

LEMMA NewIs ==
    ASSUME NEW dev, NEW now, NEW x, x = NewExporter(dev, now)
    PROVE  /\ IsExporter(x) /\ DOMAIN x.buckets = {}
           /\ x.seq = Never /\ x.uptime = Never /\ x.started = now
<1>1. x.buckets = Empty /\ IsBuckets(Empty) /\ DOMAIN Empty = {}
  BY DEF NewExporter, IsBuckets, Empty
<1>2. x = [g \in {"dev", "buckets", "seq", "bucket", "uptime", "started", "seen"} |-> x[g]]
  BY DEF NewExporter
<1>3. x.seq = Never /\ x.uptime = Never /\ x.started = now
  BY DEF NewExporter
<1>4. QED
  BY <1>1, <1>2, <1>3 DEF IsExporter

\* The bucket of a datagram that no snapshot may have taken is the last one.
LEMMA LiveIsLast ==
    ASSUME CohortInv, ExporterHeads, NEW f \in Exporters, NEW x \in exporters[f], NEW now \in Nat, x.seen <= now,
           ~ Past(Bucket(now))
    PROVE  /\ UpTo(x, Bucket(now)) /\ Bucket(x.seen) <= Bucket(now)
           /\ Bucket(now) \in DOMAIN x.buckets => Bucket(x.seen) = Bucket(now)
<1>1. PICK ts \in Nat : ts = Bucket(now) /\ ts <= now
  BY BucketSpan
<1>2. x.seen \in Nat /\ \A b \in DOMAIN x.buckets : b <= Bucket(x.seen) \/ Past(b)
  BY DEF ExporterHeads
<1>3. PICK last \in Nat : last = Bucket(x.seen) /\ last <= ts
  BY <1>1, <1>2, BucketSpan
<1>4. DOMAIN x.buckets \subseteq Nat
  BY DEF CohortInv, FlowShape, IsExporter, IsBuckets
<1>5. \A b \in DOMAIN x.buckets : b <= last \/ b < ts
  BY <1>1, <1>2, <1>3, <1>4, BucketSecsPositive DEF Past, CohortInv, FlowShape
<1>6. ts \in DOMAIN x.buckets => last = ts
  BY <1>1, <1>3, <1>5
<1>7. UpTo(x, ts)
  BY <1>1, <1>3, <1>4, <1>5 DEF UpTo
<1>8. QED
  BY <1>1, <1>3, <1>6, <1>7

\* A datagram that finds its bucket whole and follows its last one leaves it whole.
LEMMA WholeGrows ==
    ASSUME CohortInv, WholeInv, NEW f \in Exporters, NEW d \in Datagrams[f], NEW x \in exporters[f],
           NEW ts, ts = Bucket(x.seen), ~ Past(ts), Complete(x.buckets[ts]),
           Advances(x, d), ~ Missing(x, d), UptimeWraps(x.uptime, d.uptime) \/ ~ (d.uptime < x.uptime),
           At(arrived', <<f, ts>>, 0) = At(arrived, <<f, ts>>, 0) + 1
    PROVE  Good(f, ts, x.buckets[ts].got \cup {d})' /\ Chain(f, x.buckets[ts].got \cup {d}, d)
<1> USE DEF WholeInv
<1>1. PICK S : S = x.buckets[ts].got
  OBVIOUS
<1>2. Good(f, ts, S)
  BY <1>1 DEF CurrentWhole
<1>3. PICK L : Chain(f, S, L) /\ x.seq = L.seq /\ x.uptime = L.uptime
  BY <1>1 DEF CurrentWhole
<1>4. x.seq \in 0 .. SeqMod - 1 /\ x.uptime \in 0 .. UptimeMod - 1
  BY DEF ExporterHeads
<1>5. d.seq \in 0 .. SeqMod - 1 /\ d.uptime \in 0 .. UptimeMod - 1
  BY DatagramAssumption
<1>6. Wrapping(d.seq, x.seq, SeqMod) > 0 /\ ~ (Wrapping(d.seq, x.seq, SeqMod) > 1)
  BY <1>4 DEF Advances, Missing, Never
<1>7. d.seq = (L.seq + 1) % SeqMod
  BY <1>3, <1>4, <1>5, <1>6, NextNumber
<1>8. L.uptime <= d.uptime \/ UptimeWraps(L.uptime, d.uptime)
  <2>1. UptimeMod \in Nat
    BY FlowAssumption
  <2>2. QED
    BY <1>3, <1>4, <1>5, <2>1
<1>9. Follows(L, d)
  BY <1>7, <1>8 DEF Follows
<1>10. d \notin S /\ Gapless(S \cup {d}) /\ Chain(f, S \cup {d}, d)
  BY <1>2, <1>3, <1>9, ChainGrows DEF Good
<1>11. IsFiniteSet(S \cup {d}) /\ Cardinality(S \cup {d}) = Cardinality(S) + 1
  BY <1>2, <1>10, FS_AddElement DEF Good
<1>12. Good(f, ts, S \cup {d})'
  BY <1>2, <1>10, <1>11 DEF Good
<1>13. QED
  BY <1>1, <1>10, <1>12

\* What a datagram received at now does to exporter f: after is its new state.
Arrival(f, after, now) ==
    /\ now \in Nat /\ now <= clock
    /\ \A x \in exporters[f] : x.seen <= now
    /\ clock - now \in 0 .. 1
    /\ \A e \in Exporters : exporters'[e] = IF e = f THEN {after} ELSE exporters[e]
    /\ late' = IF Past(Bucket(now)) THEN late \cup {<<f, Bucket(now)>>} ELSE late
    /\ DOMAIN arrived' \subseteq DOMAIN arrived \cup {<<f, Bucket(now)>>}
    /\ \A e, t : <<e, t>> # <<f, Bucket(now)>> => At(arrived', <<e, t>>, 0) = At(arrived, <<e, t>>, 0)
    /\ after.seen = now /\ after.seq \in 0 .. SeqMod - 1 /\ after.uptime \in 0 .. UptimeMod - 1
    /\ \A t \in DOMAIN after.buckets : t # Bucket(now) =>
         \E x \in exporters[f] : /\ t \in DOMAIN x.buckets /\ after.buckets[t].got = x.buckets[t].got
                                 /\ Complete(after.buckets[t]) => Complete(x.buckets[t])
    /\ ~ Past(Bucket(now)) =>
         /\ Bucket(now) \in DOMAIN after.buckets
         /\ Complete(after.buckets[Bucket(now)]) =>
              /\ Good(f, Bucket(now), after.buckets[Bucket(now)].got)'
              /\ \E L : /\ Chain(f, after.buckets[Bucket(now)].got, L)
                        /\ after.seq = L.seq /\ after.uptime = L.uptime

LEMMA ArrivalIs ==
    ASSUME CohortInv, WholeInv, NEW f \in Exporters, NEW d \in Datagrams[f], NEW decoded \in BOOLEAN,
           NEW lag \in 0 .. 1, Receive(f, d, decoded, lag)
    PROVE  \E after, now : Arrival(f, after, now)
<1> USE DEF WholeInv
<1>1. clock \in Nat /\ snapped \in Nat /\ DOMAIN exporters = Exporters
  BY DEF CohortInv, FlowShape
<1>2. PICK now : now = clock - lag
  OBVIOUS
<1>3. PICK kept : kept = {x \in exporters[f] : x.dev = allow[f]}
  OBVIOUS
<1>4. PICK before : before = IF kept = {} THEN NewExporter(allow[f], now) ELSE CHOOSE x \in kept : TRUE
  OBVIOUS
<1>5. PICK ghost : ghost = IF kept = {} THEN Forgotten(f, now) ELSE arrived
  OBVIOUS
<1>6. PICK ts : ts = Bucket(now)
  OBVIOUS
<1>7. PICK after : after = Received(before, d, decoded, now, ts)
  OBVIOUS
<1>8. /\ now >= 0 /\ \A x \in exporters[f] : x.seen <= now
      /\ exporters' = [exporters EXCEPT ![f] = {after}]
      /\ arrived' = With(ghost, <<f, ts>>, At(ghost, <<f, ts>>, 0) + 1)
      /\ late' = IF Past(ts) THEN late \cup {<<f, ts>>} ELSE late
  BY <1>2, <1>3, <1>4, <1>5, <1>6, <1>7, Zenon DEF Receive, Past
<1>9. now \in Nat /\ now <= clock /\ clock - now \in 0 .. 1 /\ ts \in Nat /\ ts <= now
  BY <1>1, <1>2, <1>6, <1>8, BucketSpan
<1>10. /\ IsExporter(before) /\ (kept # {} => before \in exporters[f])
       /\ kept = {} => /\ DOMAIN before.buckets = {} /\ before.seq = Never /\ before.uptime = Never
                       /\ before.started = now
  <2>1. CASE kept = {}
    <3>1. before = NewExporter(allow[f], now)
      BY <1>4, <2>1
    <3>2. QED
      BY <2>1, <3>1, NewIs
  <2>2. CASE kept # {}
    <3>1. before \in kept
      BY <1>4, <2>2
    <3>2. QED
      BY <1>3, <2>2, <3>1 DEF CohortInv, FlowShape
  <2>3. QED
    BY <2>1, <2>2
<1>11. /\ DOMAIN arrived' \subseteq DOMAIN arrived \cup {<<f, ts>>}
       /\ \A e, t : <<e, t>> # <<f, ts>> => At(arrived', <<e, t>>, 0) = At(arrived, <<e, t>>, 0)
       /\ At(arrived', <<f, ts>>, 0) = At(ghost, <<f, ts>>, 0) + 1
  <2>1. ghost \in {Forgotten(f, now), arrived}
    BY <1>5
  <2>2. QED
    BY <1>6, <1>8, <1>9, <2>1, ArrivedKept
<1>12. Takes(before, d, now, ts, after)
  <2>1. IsExporter(before) /\ ts \in Nat
    BY <1>9, <1>10
  <2>2. QED
    BY <1>7, <2>1, ReceivedIs
<1>13. kept # {} => before.seq \in 0 .. SeqMod - 1 /\ before.uptime \in 0 .. UptimeMod - 1
  BY <1>10 DEF ExporterHeads
<1>14. after.seq \in 0 .. SeqMod - 1 /\ after.uptime \in 0 .. UptimeMod - 1
  <2>1. d.seq \in 0 .. SeqMod - 1 /\ d.uptime \in 0 .. UptimeMod - 1
    BY DatagramAssumption
  <2>2. QED
    BY <1>10, <1>12, <1>13, <2>1 DEF Takes, Heads
<1>15. \A t \in DOMAIN after.buckets : t # ts =>
          \E x \in exporters[f] : /\ t \in DOMAIN x.buckets /\ after.buckets[t].got = x.buckets[t].got
                                  /\ Complete(after.buckets[t]) => Complete(x.buckets[t])
  BY <1>10, <1>12 DEF Takes, Near
<1>16. ASSUME ~ Past(ts) PROVE UpTo(before, ts)
  <2>1. CASE kept = {}
    BY <1>10, <2>1 DEF UpTo
  <2>2. CASE kept # {}
    BY <1>6, <1>8, <1>9, <1>10, <1>16, <2>2, LiveIsLast
  <2>3. QED
    BY <2>1, <2>2
<1>17. ASSUME ~ Past(ts), Complete(after.buckets[ts])
       PROVE  /\ Good(f, ts, after.buckets[ts].got)'
              /\ \E L : /\ Chain(f, after.buckets[ts].got, L)
                        /\ after.seq = L.seq /\ after.uptime = L.uptime
  <2>1. after.seq = d.seq /\ after.uptime = d.uptime
    BY <1>12, <1>16, <1>17 DEF Takes
  <2>2. CASE ts \notin DOMAIN before.buckets /\ after.buckets[ts].got = {d} /\ ts >= after.started
    <3>1. <<f, ts>> \notin DOMAIN ghost
      <4>1. CASE kept = {}
        <5>1. after.started = now
          BY <1>10, <1>12, <4>1 DEF Takes, Heads
        <5>2. ts = now
          BY <1>9, <2>2, <5>1
        <5>3. QED
          BY <1>5, <4>1, <5>2 DEF Forgotten
      <4>2. CASE kept # {}
        <5>1. SUFFICES ASSUME <<f, ts>> \in DOMAIN arrived PROVE FALSE
          BY <1>5, <4>2
        <5>2. PICK x \in exporters[f] : x = before
          BY <1>10, <4>2
        <5>3. x.seen \in Nat /\ ts <= x.seen /\ x.seen <= now
          BY <1>8, <5>1, <5>2 DEF ArrivedBefore, ExporterHeads
        <5>4. Bucket(x.seen) = ts
          BY <1>6, <1>9, <5>3, BucketSpan
        <5>5. QED
          BY <1>17, <2>2, <5>2, <5>4 DEF CurrentWhole
      <4>3. QED
        BY <4>1, <4>2
    <3>2. At(arrived', <<f, ts>>, 0) = 1
      BY <1>11, <3>1 DEF At
    <3>3. IsFiniteSet({d}) /\ Cardinality({d}) = 1
      BY FS_Singleton
    <3>4. Gapless({d}) /\ Chain(f, {d}, d)
      BY ChainStarts
    <3>5. Good(f, ts, {d})'
      BY <3>2, <3>3, <3>4 DEF Good
    <3>6. QED
      BY <2>1, <2>2, <3>4, <3>5
  <2>3. CASE /\ ts \in DOMAIN before.buckets /\ Complete(before.buckets[ts])
             /\ after.buckets[ts].got = before.buckets[ts].got \cup {d}
             /\ before.seq = Never \/ (Advances(before, d) /\ ~ Missing(before, d))
             /\ before.uptime = Never \/ UptimeWraps(before.uptime, d.uptime) \/ ~ (d.uptime < before.uptime)
    <3>1. kept # {} /\ ghost = arrived
      BY <1>5, <1>10, <2>3
    <3>2. PICK x \in exporters[f] : x = before
      BY <1>10, <3>1
    <3>3. ts = Bucket(x.seen)
      BY <1>6, <1>8, <1>9, <1>17, <2>3, <3>2, LiveIsLast
    <3>4. before.seq # Never /\ before.uptime # Never
      BY <1>13, <3>1 DEF Never
    <3>5. Good(f, ts, x.buckets[ts].got \cup {d})' /\ Chain(f, x.buckets[ts].got \cup {d}, d)
      BY <1>11, <1>17, <2>3, <3>1, <3>2, <3>3, <3>4, WholeGrows
    <3>6. QED
      BY <2>1, <2>3, <3>2, <3>5
  <2>4. QED
    BY <1>12, <1>16, <1>17, <2>2, <2>3 DEF Takes
<1>18. \A e \in Exporters : exporters'[e] = IF e = f THEN {after} ELSE exporters[e]
  BY <1>1, <1>8
<1>19. Arrival(f, after, now)
  BY <1>6, <1>8, <1>9, <1>11, <1>12, <1>14, <1>15, <1>16, <1>17, <1>18 DEF Arrival, Takes
<1>20. QED
  BY <1>19

\* A datagram, whatever its bucket becomes
LEMMA WholeArrives ==
    ASSUME CohortInv, CohortInv', WholeInv, NEW f \in Exporters, NEW after, NEW now, Arrival(f, after, now),
           UNCHANGED <<flush, rows, quality, snapped, clock>>
    PROVE  WholeInv'
<1> USE DEF WholeInv
<1>1. PICK ts : ts = Bucket(now)
  OBVIOUS
<1>2. /\ now \in Nat /\ now <= clock /\ clock \in Nat /\ ts \in Nat /\ ts <= now
      /\ \A u : Past(u)' <=> Past(u)
  BY <1>1, BucketSpan DEF Arrival, CohortInv, FlowShape, Past
<1>3. /\ \A x \in exporters[f] : x.seen <= now
      /\ \A e \in Exporters : exporters'[e] = IF e = f THEN {after} ELSE exporters[e]
      /\ late \subseteq late' /\ (Past(ts) => <<f, ts>> \in late')
      /\ DOMAIN arrived' \subseteq DOMAIN arrived \cup {<<f, ts>>}
      /\ \A e, t : <<e, t>> # <<f, ts>> => At(arrived', <<e, t>>, 0) = At(arrived, <<e, t>>, 0)
      /\ after.seen = now /\ after.seq \in 0 .. SeqMod - 1 /\ after.uptime \in 0 .. UptimeMod - 1
  BY <1>1 DEF Arrival
<1>4. \A t \in DOMAIN after.buckets : t # ts =>
         \E x \in exporters[f] : /\ t \in DOMAIN x.buckets /\ after.buckets[t].got = x.buckets[t].got
                                 /\ Complete(after.buckets[t]) => Complete(x.buckets[t])
  BY <1>1 DEF Arrival
<1>5. ~ Past(ts) =>
         /\ ts \in DOMAIN after.buckets
         /\ Complete(after.buckets[ts]) =>
              /\ Good(f, ts, after.buckets[ts].got)'
              /\ \E L : /\ Chain(f, after.buckets[ts].got, L)
                        /\ after.seq = L.seq /\ after.uptime = L.uptime
  BY <1>1 DEF Arrival
<1>6. ASSUME NEW e \in Exporters, NEW t, NEW acc, Held(e, t, acc)', <<e, t>> # <<f, ts>>
      PROVE  \E old : Held(e, t, old) /\ acc.got = old.got /\ (Complete(acc) => Complete(old))
  <2>1. CASE t \in DOMAIN flush.closed[e] /\ acc = flush.closed[e][t]
    BY <2>1 DEF Held
  <2>2. ASSUME NEW y \in exporters'[e], t \in DOMAIN y.buckets, acc = y.buckets[t]
        PROVE  \E old : Held(e, t, old) /\ acc.got = old.got /\ (Complete(acc) => Complete(old))
    <3>1. CASE e # f
      <4>1. y \in exporters[e]
        BY <1>3, <3>1
      <4>2. QED
        BY <2>2, <4>1 DEF Held
    <3>2. CASE e = f
      <4>1. y = after /\ t # ts
        BY <1>3, <1>6, <3>2
      <4>2. PICK x \in exporters[e] : /\ t \in DOMAIN x.buckets /\ acc.got = x.buckets[t].got
                                      /\ Complete(acc) => Complete(x.buckets[t])
        BY <1>4, <2>2, <3>2, <4>1
      <4>3. Held(e, t, x.buckets[t])
        BY <4>2 DEF Held
      <4>4. QED
        BY <4>2, <4>3
    <3>3. QED
      BY <3>1, <3>2
  <2>3. QED
    BY <1>6, <2>1, <2>2 DEF Held
<1>7. HeldWhole'
  <2> SUFFICES ASSUME NEW e \in Exporters, NEW t, NEW acc, Held(e, t, acc)', <<e, t>> \notin late', Complete(acc)
               PROVE  Good(e, t, acc.got)'
    BY DEF HeldWhole
  <2>1. CASE <<e, t>> # <<f, ts>>
    <3>1. PICK old : Held(e, t, old) /\ acc.got = old.got /\ Complete(old)
      BY <1>6, <2>1
    <3>2. Good(e, t, acc.got)
      BY <1>3, <3>1 DEF HeldWhole
    <3>3. At(arrived', <<e, t>>, 0) = At(arrived, <<e, t>>, 0)
      BY <1>3, <2>1
    <3>4. QED
      BY <3>2, <3>3, GoodKept
  <2>2. CASE <<e, t>> = <<f, ts>>
    <3>1. e = f /\ t = ts /\ ~ Past(ts)
      BY <1>3, <2>2
    <3>2. ts \notin DOMAIN flush.closed[f]
      BY <3>1, PassIsPast
    <3>3. acc = after.buckets[ts]
      BY <1>3, <3>1, <3>2 DEF Held
    <3>4. QED
      BY <1>5, <3>1, <3>3
  <2>3. QED
    BY <2>1, <2>2
<1>8. HeldOnce'
  <2> SUFFICES ASSUME NEW e \in Exporters, NEW t \in DOMAIN flush.closed[e], NEW y \in exporters'[e],
                      t \in DOMAIN y.buckets
               PROVE  <<e, t>> \in late'
    BY DEF HeldOnce
  <2>1. CASE e # f
    BY <1>3, <2>1 DEF HeldOnce
  <2>2. CASE e = f /\ t = ts
    <3>1. Past(t)
      BY PassIsPast
    <3>2. QED
      BY <1>3, <2>2, <3>1
  <2>3. CASE e = f /\ t # ts
    <3>1. PICK x \in exporters[f] : t \in DOMAIN x.buckets
      BY <1>3, <1>4, <2>3
    <3>2. QED
      BY <1>3, <2>3, <3>1 DEF HeldOnce
  <2>4. QED
    BY <2>1, <2>2, <2>3
<1>9. ExporterHeads'
  <2> SUFFICES ASSUME NEW e \in Exporters, NEW y \in exporters'[e]
               PROVE  /\ y.seen \in Nat /\ y.seen <= clock'
                      /\ y.seq \in 0 .. SeqMod - 1 /\ y.uptime \in 0 .. UptimeMod - 1
                      /\ \A b \in DOMAIN y.buckets : b <= Bucket(y.seen) \/ Past(b)'
    BY DEF ExporterHeads
  <2>1. CASE e # f
    BY <1>2, <1>3, <2>1 DEF ExporterHeads
  <2>2. CASE e = f
    <3>1. y = after
      BY <1>3, <2>2
    <3>2. ASSUME NEW b \in DOMAIN after.buckets PROVE b <= ts \/ Past(b)
      <4>1. CASE b = ts
        BY <1>2, <4>1
      <4>2. CASE b # ts
        <5>1. PICK x \in exporters[f] : b \in DOMAIN x.buckets
          BY <1>4, <4>2
        <5>2. b \in Nat
          BY <5>1 DEF CohortInv, FlowShape, IsExporter, IsBuckets
        <5>3. x.seen \in Nat /\ (b <= Bucket(x.seen) \/ Past(b)) /\ x.seen <= now
          BY <1>3, <5>1 DEF ExporterHeads
        <5>4. Bucket(x.seen) \in Nat /\ Bucket(x.seen) <= ts
          BY <1>1, <1>2, <5>3, BucketSpan
        <5>5. QED
          BY <1>2, <5>2, <5>3, <5>4
      <4>3. QED
        BY <4>1, <4>2
    <3>3. QED
      BY <1>1, <1>2, <1>3, <3>1, <3>2
  <2>3. QED
    BY <2>1, <2>2
<1>10. ArrivedBefore'
  <2> SUFFICES ASSUME NEW k \in DOMAIN arrived'
               PROVE  /\ k[1] \in Exporters /\ k[2] \in Nat /\ Bucket(k[2]) = k[2]
                      /\ exporters'[k[1]] = {} => k[2] < clock
                      /\ \A y \in exporters'[k[1]] : k[2] <= y.seen
    BY DEF ArrivedBefore
  <2>1. CASE k = <<f, ts>>
    <3>1. k[1] = f /\ k[2] = ts
      BY <2>1
    <3>2. Bucket(ts) = ts
      <4>1. Bucket(now) <= ts /\ ts <= now
        BY <1>1, <1>2
      <4>2. QED
        BY <1>1, <1>2, <4>1, BucketSpan
    <3>3. QED
      BY <1>2, <1>3, <3>1, <3>2
  <2>2. CASE k \in DOMAIN arrived
    <3>1. /\ k[1] \in Exporters /\ k[2] \in Nat /\ Bucket(k[2]) = k[2]
          /\ exporters[k[1]] = {} => k[2] < clock
          /\ \A x \in exporters[k[1]] : k[2] <= x.seen
      BY <2>2 DEF ArrivedBefore
    <3>2. CASE k[1] # f
      BY <1>3, <3>1, <3>2
    <3>3. CASE k[1] = f
      <4>1. k[2] <= now
        <5>1. CASE exporters[f] = {}
          BY <1>2, <3>1, <3>3, <5>1 DEF Arrival
        <5>2. CASE exporters[f] # {}
          <6>1. PICK x \in exporters[f] : x.seen \in Nat /\ x.seen <= now /\ k[2] <= x.seen
            BY <1>3, <3>1, <3>3, <5>2 DEF ExporterHeads
          <6>2. QED
            BY <1>2, <3>1, <6>1
        <5>3. QED
          BY <5>1, <5>2
      <4>2. QED
        BY <1>3, <3>1, <3>3, <4>1
    <3>4. QED
      BY <3>2, <3>3
  <2>3. QED
    BY <1>3, <2>1, <2>2
<1>11. CurrentWhole'
  <2> SUFFICES ASSUME NEW e \in Exporters, NEW y \in exporters'[e], NEW t, t = Bucket(y.seen), ~ Past(t)'
               PROVE  /\ t \in DOMAIN y.buckets
                      /\ Complete(y.buckets[t]) =>
                           /\ Good(e, t, y.buckets[t].got)'
                           /\ \E L : /\ Chain(e, y.buckets[t].got, L)
                                     /\ y.seq = L.seq /\ y.uptime = L.uptime
    BY DEF CurrentWhole
  <2>1. ~ Past(t)
    BY <1>2
  <2>2. CASE e # f
    <3>1. y \in exporters[e]
      BY <1>3, <2>2
    <3>2. /\ t \in DOMAIN y.buckets
          /\ Complete(y.buckets[t]) =>
               /\ Good(e, t, y.buckets[t].got)
               /\ \E L : /\ Chain(e, y.buckets[t].got, L)
                         /\ y.seq = L.seq /\ y.uptime = L.uptime
      BY <2>1, <3>1 DEF CurrentWhole
    <3>3. At(arrived', <<e, t>>, 0) = At(arrived, <<e, t>>, 0)
      BY <1>3, <2>2
    <3>4. Good(e, t, y.buckets[t].got)' <=> Good(e, t, y.buckets[t].got)
      BY <3>3, GoodKept
    <3>5. QED
      BY <3>2, <3>4
  <2>3. CASE e = f
    <3>1. y = after /\ t = ts
      BY <1>1, <1>3, <2>3
    <3>2. QED
      BY <1>5, <2>1, <2>3, <3>1
  <2>4. QED
    BY <2>2, <2>3
<1>12. RowsAgree'
  <2> SUFFICES ASSUME NEW k \in DOMAIN rows
               PROVE  /\ k[1] \in Exporters /\ k[2] \in Nat /\ Past(k[2])'
                      /\ <<k[1], k[2]>> \notin late' =>
                           \A acc : Held(k[1], k[2], acc)' => rows[k].got = {d \in acc.got : d.iface = k[3]}
    BY DEF RowsAgree
  <2>1. k[1] \in Exporters /\ k[2] \in Nat /\ Past(k[2])
    BY DEF RowsAgree
  <2>2. ASSUME <<k[1], k[2]>> \notin late', NEW acc, Held(k[1], k[2], acc)'
        PROVE  rows[k].got = {d \in acc.got : d.iface = k[3]}
    <3>1. <<k[1], k[2]>> # <<f, ts>>
      BY <1>3, <2>1, <2>2
    <3>2. PICK old : Held(k[1], k[2], old) /\ acc.got = old.got
      BY <1>6, <2>1, <2>2, <3>1
    <3>3. rows[k].got = {d \in old.got : d.iface = k[3]}
      BY <1>3, <2>2, <3>2 DEF RowsAgree
    <3>4. QED
      BY <3>2, <3>3
  <2>3. QED
    BY <1>2, <2>1, <2>2
<1>13. PublishedWhole'
  <2> SUFFICES ASSUME NEW k \in DOMAIN quality
               PROVE  /\ k[1] \in Exporters /\ k = <<k[1], k[2]>>
                      /\ quality[k] /\ k \notin late' => Good(k[1], k[2], RowOf(k[1], k[2]))'
    BY DEF PublishedWhole
  <2>1. Past(k[2])
    BY DEF CohortInv, VerdictsClosed, Past
  <2>2. PICK S : S = RowOf(k[1], k[2]) /\ S = RowOf(k[1], k[2])'
    BY DEF RowOf
  <2>3. /\ k[1] \in Exporters /\ k = <<k[1], k[2]>>
        /\ quality[k] /\ k \notin late => Good(k[1], k[2], S)
    BY <2>2 DEF PublishedWhole
  <2>4. ASSUME quality[k], k \notin late' PROVE Good(k[1], k[2], S)'
    <3>1. <<k[1], k[2]>> # <<f, ts>>
      BY <1>3, <2>1, <2>3, <2>4
    <3>2. At(arrived', <<k[1], k[2]>>, 0) = At(arrived, <<k[1], k[2]>>, 0)
      BY <1>3, <3>1
    <3>3. Good(k[1], k[2], S)
      BY <1>3, <2>3, <2>4
    <3>4. QED
      BY <3>2, <3>3, GoodKept
  <2>5. QED
    BY <2>2, <2>3, <2>4
<1>14. QED
  BY <1>7, <1>8, <1>9, <1>10, <1>11, <1>12, <1>13

LEMMA WholeStep == CohortInv /\ CohortInv' /\ WholeInv /\ [Next]_vars => WholeInv'
<1> SUFFICES ASSUME CohortInv, CohortInv', WholeInv, [Next]_vars PROVE WholeInv'
  OBVIOUS
<1>1. ASSUME NEW f \in Exporters, NEW d \in Datagrams[f], NEW decoded \in BOOLEAN, NEW lag \in 0 .. 1,
             Receive(f, d, decoded, lag)
      PROVE  WholeInv'
  <2>1. UNCHANGED <<flush, rows, quality, snapped, clock>>
    BY <1>1 DEF Receive
  <2>2. \E after, now : Arrival(f, after, now)
    BY <1>1, ArrivalIs
  <2>3. QED
    BY <2>1, <2>2, WholeArrives
<1>2. CASE (\E e \in Exporters : EvictExporter(e)) \/ CollectorRestarts
  BY <1>2, WholeForgets
<1>3. CASE \/ \E e \in Exporters : RegisterContributors(e) \/ UpsertExporter(e)
           \/ \E new \in [Exporters -> Devices \cup {NoDevice}] : RefreshAllowlist(new)
           \/ Tick \/ RaiseBarrier \/ OpenBarrier \/ MarkPublished \/ WakeLoop \/ UNCHANGED vars
  BY <1>3, WholeQuiet DEF vars, WakeLoop
<1>4. CASE \E e \in Exporters : WriteBucket(e)
  BY <1>4, WholeWrites
<1>5. CASE Snapshot
  BY <1>5, WholeSnapshot
<1>6. CASE PrepareFails \/ \E e \in Exporters : WriteFails(e)
  BY <1>6, WholeFails
<1>7. QED
  BY <1>1, <1>2, <1>3, <1>4, <1>5, <1>6 DEF Next

\* A bucket published as complete holds every datagram of its window, once and
\* without a gap, for any number of exporters, any capacities and any mix of
\* losses, repeats, restarts, evictions, failed writes and requeues
\* (collector.rs, observe_sequence, bucket_entry_bounded, merge_from,
\* requeue_flushes).
THEOREM PublishedComplete == Spec => []CompleteIsWhole
<1>1. QED
  BY CohortInit, CohortStep, WholeInit, WholeStep, WholeImplies, PTL DEF Spec
=============================================================================
