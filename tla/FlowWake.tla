------------------------------ MODULE FlowWake ------------------------------
(***************************************************************************)
(* The bounded, coalescing wake queue between the flow collector and the   *)
(* detection engine (detection/wake.rs) and the single loop that drains it *)
(* (scheduler.rs, flow_detection_wake_loop).                               *)
(*                                                                         *)
(* latest and judged are the ghosts of OwedEvaluation: how often an        *)
(* interface was marked, and which mark the last successful evaluation     *)
(* had in front of it when it began to read.                               *)
(***************************************************************************)
EXTENDS Naturals, FiniteSets

CONSTANTS Interfaces,   \* device_interfaces.id
          MaxDirty      \* MAX_DIRTY_INTERFACES

ASSUME WakeAssumption == MaxDirty \in Nat /\ IsFiniteSet(Interfaces) /\ Interfaces # {}

VARIABLES pending, full_rescan,   \* State
          in_flight,              \* State.in_flight, a set of at most one batch
          reading,                \* the loop's evaluation: NotReading, or latest when it began
          latest, judged

wakeVars == <<pending, full_rescan, in_flight, reading, latest, judged>>

Batches == [ids : SUBSET Interfaces, full : BOOLEAN]
NotReading == [i \in {} |-> 0]

WakeInit == /\ pending = {} /\ full_rescan = FALSE /\ in_flight = {}
            /\ reading = NotReading
            /\ latest = [i \in Interfaces |-> 0]
            /\ judged = [i \in Interfaces |-> 0]

-----------------------------------------------------------------------------
\* The ids of a batch that find room: what is already there stays, and as many
\* of the others as MaxDirty allows go in.  Which ones depends on their order.
Fitting(ids, into) ==
    { S \in SUBSET (ids \ into) :
        Cardinality(S) = IF Cardinality(ids \cup into) <= MaxDirty
                         THEN Cardinality(ids \ into) ELSE MaxDirty - Cardinality(into) }

\* Mutant: the ids that find no room are dropped without asking for a rescan.
Inserted_Silent(ids, into, rescan) ==
    { [set |-> into \cup fit, full |-> rescan] : fit \in Fitting(ids, into) }

\* Inserting ids one at a time: what finds no room asks for a rescan.
Inserted(ids, into, rescan) ==
    { [set |-> into \cup fit, full |-> rescan \/ fit # ids \ into] : fit \in Fitting(ids, into) }

MarkInterfaces(ids) ==
    /\ \E r \in Inserted(ids, pending, full_rescan) :
          pending' = r.set /\ full_rescan' = r.full
    /\ latest' = [i \in Interfaces |-> IF i \in ids THEN latest[i] + 1 ELSE latest[i]]
    /\ UNCHANGED <<in_flight, reading, judged>>

\* A batch in flight is handed out again; otherwise everything pending is
\* taken in one batch.  The evaluation then reads what is committed.
WaitAndTake ==
    /\ reading = NotReading
    /\ in_flight # {} \/ full_rescan \/ pending # {}
    /\ IF in_flight # {}
         THEN UNCHANGED <<pending, full_rescan, in_flight>>
         ELSE /\ in_flight' = {[ids |-> pending, full |-> full_rescan]}
              /\ pending' = {} /\ full_rescan' = FALSE
    /\ reading' = latest
    /\ UNCHANGED <<latest, judged>>

\* Mutant: a rescan evaluates only the interfaces named in its batch.
Covered_Pending(batch) == batch.ids

\* evaluate_all_flow_rules for a rescan, evaluate_flow_interfaces otherwise
Covered(batch) == IF batch.full THEN Interfaces ELSE batch.ids

CompleteSuccess ==
    /\ reading # NotReading
    /\ \E batch \in in_flight :
          judged' = [i \in Interfaces |-> IF i \in Covered(batch) THEN reading[i] ELSE judged[i]]
    /\ in_flight' = {} /\ reading' = NotReading
    /\ UNCHANGED <<pending, full_rescan, latest>>

CompleteFailure ==
    /\ reading # NotReading
    /\ \E batch \in in_flight : \E r \in Inserted(batch.ids, pending, full_rescan \/ batch.full) :
          pending' = r.set /\ full_rescan' = r.full
    /\ in_flight' = {} /\ reading' = NotReading
    /\ UNCHANGED <<latest, judged>>

\* The loop's task is replaced by its supervisor while a batch is in flight.
LoopRestarts ==
    /\ reading # NotReading /\ reading' = NotReading
    /\ UNCHANGED <<pending, full_rescan, in_flight, latest, judged>>

WakeStep == WaitAndTake \/ CompleteSuccess \/ CompleteFailure \/ LoopRestarts

\* The loop always runs; the database answers an evaluation again and again.
WakeFairness == WF_wakeVars(WaitAndTake) /\ SF_wakeVars(CompleteSuccess)

-----------------------------------------------------------------------------
WakeTypeOK == /\ pending \in SUBSET Interfaces /\ full_rescan \in BOOLEAN
              /\ in_flight \in SUBSET Batches /\ Cardinality(in_flight) <= 1
              /\ reading \in {NotReading} \cup [Interfaces -> Nat]
              /\ latest \in [Interfaces -> Nat] /\ judged \in [Interfaces -> Nat]

\* What the queue still owes: pending, in flight, or under a rescan.
Owed == (UNION {Covered(batch) : batch \in in_flight})
        \cup (IF full_rescan THEN Interfaces ELSE pending)

\* No mark is lost: an interface whose last mark no successful evaluation has
\* seen is pending, in flight or under a full rescan, whatever the order of
\* marks, overflows, failures and restarts (wake.rs, mark_interfaces and
\* complete_failure).
NoMarkLost == \A i \in Interfaces : judged[i] # latest[i] => i \in Owed

Promise == INSTANCE OwedEvaluation WITH Interfaces <- Interfaces,
                                        latest <- latest, judged <- judged

\* The queue and its loop implement OwedEvaluation: every marked interface is
\* eventually evaluated against a publication at least as new as its mark.
WakeKeepsPromise == Promise!Spec
=============================================================================
