-------------------------- MODULE RerouteLifecycle --------------------------
(***************************************************************************)
(* The life of one reroute row: policy fence, slot reservation, the        *)
(* two-phase planned -> pending -> running -> verifying -> terminal         *)
(* machine, the device write in the middle of it, the terminal transaction, *)
(* controller crash, startup recovery and read-only reconciliation.         *)
(* Sources: reroute/executor.rs, reroute/guard.rs, reroute/state_machine.rs,*)
(* reroute/device_plan.rs, api/reroutes.rs, api/settings.rs, api/locks.rs.  *)
(*                                                                         *)
(* A reroute is identified before it exists ("none"): a request that is     *)
(* refused never gets a row.  A device is abstracted to the value of the    *)
(* one resource the reroutes on it contend for.                             *)
(***************************************************************************)
EXTENDS Integers

CONSTANTS
    Reroutes,       \* identities of reroute rows, each used by one request
    Devices,
    Values,         \* what a device's contended resource can hold
    DeviceOf,       \* [Reroutes -> Devices]
    OriginalOf,     \* [Reroutes -> Reroutes \cup {NoReroute}]: what r inverts
    Unattended,     \* requests under Automatic / Recovery authority
    NoReroute, Admin,
    MaxCrashes, MaxDbErrors, MaxDrifts, MaxFenceLosses, MaxPolicyChanges

ASSUME RerouteAssumption ==
    /\ DeviceOf \in [Reroutes -> Devices]
    /\ OriginalOf \in [Reroutes -> Reroutes \cup {NoReroute}]
    /\ \A r \in Reroutes :
          OriginalOf[r] # NoReroute =>
             /\ OriginalOf[r] # r
             /\ DeviceOf[OriginalOf[r]] = DeviceOf[r]
             /\ OriginalOf[OriginalOf[r]] = NoReroute
    /\ Unattended \subseteq Reroutes
    /\ NoReroute \notin Reroutes /\ Admin \notin Reroutes /\ Admin # NoReroute
    /\ Values # {}

ASSUME BoundAssumption ==
    /\ MaxCrashes \in Nat /\ MaxDbErrors \in Nat /\ MaxDrifts \in Nat
    /\ MaxFenceLosses \in Nat /\ MaxPolicyChanges \in Nat

VARIABLES
    state, effect,      \* reroutes.state, reroutes.mutation_effect
    before, after,      \* prior_state_json, after_state_json
    locked,             \* reroutes whose automatic device lock is uncleared
    dev,                \* what each device really holds
    pc, outcome, persistOk,   \* the executor task of each request
    fence,              \* holder of advisory lock 10:execution:policy
    armed, maintenance, \* enforce /\ automatic_actions_enabled; any global lock
    up,                 \* the controller process is running
    rec,                \* an operator reconciliation between read and commit
    wrote,              \* history: reroutes whose commands reached the device
    budget              \* what is left of the bounded environment events

db    == <<state, effect, before, after, locked>>
task  == <<pc, outcome, persistOk>>
world == <<dev, wrote>>
policy == <<armed, maintenance>>
vars  == <<state, effect, before, after, locked, dev, pc, outcome, persistOk,
           fence, armed, maintenance, up, rec, wrote, budget>>

InFlight  == {"planned", "pending", "running", "verifying"}
Terminal  == {"succeeded", "failed", "uncertain"}
RowStates == InFlight \cup Terminal \cup {"none"}
Effects   == {"pending", "changed", "noop", "unknown"}
\* What a device-blocking row looks like: running_on_device or has_uncertain.
Open      == InFlight \cup {"uncertain"}
PCs       == {"idle", "fenced", "checked", "reserved", "pended", "pushing", "pushed",
              "recorded", "done"}
\* Tasks between their last checked transition and their terminal transaction.
Writing   == {"pushing", "pushed", "recorded"}
Outcomes  == {"none", "ok", "refused", "ambiguous"}
Verdicts  == {"none", "changed", "not_applied", "conflict"}
Events    == {"crash", "dberr", "drift", "fenceloss", "policy"}
NoRec     == [reroute |-> NoReroute, verdict |-> "none"]

\* The type invariant.
TypeOK ==
    /\ state \in [Reroutes -> RowStates]
    /\ effect \in [Reroutes -> Effects]
    /\ before \in [Reroutes -> Values]
    /\ after \in [Reroutes -> Values]
    /\ locked \subseteq Reroutes
    /\ dev \in [Devices -> Values]
    /\ pc \in [Reroutes -> PCs]
    /\ outcome \in [Reroutes -> Outcomes]
    /\ persistOk \in [Reroutes -> BOOLEAN]
    /\ fence \in Reroutes \cup {NoReroute, Admin}
    /\ armed \in BOOLEAN /\ maintenance \in BOOLEAN /\ up \in BOOLEAN
    /\ rec \in [reroute : Reroutes \cup {NoReroute}, verdict : Verdicts]
    /\ wrote \subseteq Reroutes
    /\ budget \in [Events -> Nat]

Init ==
    /\ state = [r \in Reroutes |-> "none"]
    /\ effect = [r \in Reroutes |-> "pending"]
    /\ dev \in [Devices -> Values]
    /\ before = [r \in Reroutes |-> dev[DeviceOf[r]]]
    /\ after = before
    /\ locked = {}
    /\ pc = [r \in Reroutes |-> "idle"]
    /\ outcome = [r \in Reroutes |-> "none"]
    /\ persistOk = [r \in Reroutes |-> TRUE]
    /\ fence = NoReroute
    /\ armed \in BOOLEAN /\ maintenance = FALSE
    /\ up = TRUE
    /\ rec = NoRec
    /\ wrote = {}
    /\ budget = [e \in Events |->
                   CASE e = "crash"     -> MaxCrashes
                     [] e = "dberr"     -> MaxDbErrors
                     [] e = "drift"     -> MaxDrifts
                     [] e = "fenceloss" -> MaxFenceLosses
                     [] e = "policy"    -> MaxPolicyChanges]

Spend(e) == /\ budget[e] > 0
            /\ budget' = [budget EXCEPT ![e] = @ - 1]

Inverses(o) == {i \in Reroutes : OriginalOf[i] = o}

\* The task of r ends; its fence guard is released or dropped.  A guard whose
\* server session already died no longer holds the lock.
EndTask(r) ==
    /\ pc' = [pc EXCEPT ![r] = "done"]
    /\ outcome' = [outcome EXCEPT ![r] = "none"]
    /\ persistOk' = [persistOk EXCEPT ![r] = TRUE]
    /\ fence' = IF fence = r THEN NoReroute ELSE fence

-----------------------------------------------------------------------------
(* Admission *)

\* Mutant: a completed inverse no longer counts as a rival.
NoRivalInverseActiveOnly(r) ==
    OriginalOf[r] # NoReroute =>
        \A i \in Inverses(OriginalOf[r]) : i # r => state[i] \notin InFlight

\* No active or successful inverse of the same original.
NoRivalInverse(r) ==
    OriginalOf[r] # NoReroute =>
        \A i \in Inverses(OriginalOf[r]) :
            i # r => state[i] \notin InFlight \cup {"succeeded"}

\* validate_execution_authorization: an inverse needs an owned original.
Authorized(r) ==
    OriginalOf[r] # NoReroute =>
        /\ state[OriginalOf[r]] \in {"succeeded", "failed"}
        /\ effect[OriginalOf[r]] = "changed"
        /\ NoRivalInverse(r)

DeviceLocked(d) == \E q \in locked : DeviceOf[q] = d

\* guard::decide over the gates this model keeps (the rate throttles are in
\* RateGuard): maintenance, then device locks.
Gates(r) == ~maintenance /\ ~DeviceLocked(DeviceOf[r])

\* The policy fence is taken first, then mode, authorization and gates are
\* read under it.
Authorize(r) ==
    /\ up /\ pc[r] = "idle" /\ fence = NoReroute
    /\ r \in Unattended => armed
    /\ Authorized(r) /\ Gates(r)
    /\ pc' = [pc EXCEPT ![r] = "fenced"]
    /\ fence' = r
    /\ UNCHANGED <<db, world, policy, outcome, persistOk, up, rec, budget>>

\* Mutant: a planned row does not make the device busy.
DeviceHasCommittedRow(d) ==
    \E q \in Reroutes : DeviceOf[q] = d /\ state[q] \in Open \ {"planned"}

\* reserve_slot's authoritative re-check under the device advisory lock.
DeviceHasOpenRow(d) == \E q \in Reroutes : DeviceOf[q] = d /\ state[q] \in Open

SlotFree(r) ==
    /\ Gates(r)
    /\ ~DeviceHasOpenRow(DeviceOf[r])
    /\ NoRivalInverse(r)

\* The prepared snapshot that insert_reroute stores.  An inverse goes from the
\* original's after-state back to its before-state, or is a verified no-op that
\* found the restore state already present.
PreparedSnapshot(r, b, a) ==
    LET o == OriginalOf[r] IN
    o # NoReroute => /\ a = before[o]
                     /\ b \in {after[o], before[o]}

\* insert_reroute.
InsertRow(r) ==
    /\ \E b \in Values, a \in Values :
          /\ PreparedSnapshot(r, b, a)
          /\ before' = [before EXCEPT ![r] = b]
          /\ after' = [after EXCEPT ![r] = a]
    /\ state' = [state EXCEPT ![r] = "planned"]
    /\ effect' = [effect EXCEPT ![r] = "pending"]
    /\ UNCHANGED locked

\* reserve_and_persist: the check and the insert run on a data connection
\* while the advisory session holds the device lock.
CheckSlot(r) ==
    /\ up /\ pc[r] = "fenced" /\ fence = r
    /\ SlotFree(r)
    /\ pc' = [pc EXCEPT ![r] = "checked"]
    /\ UNCHANGED <<db, outcome, persistOk, world, policy, fence, up, rec, budget>>

Reserve(r) ==
    /\ up /\ pc[r] = "checked" /\ fence = r
    /\ InsertRow(r)
    /\ pc' = [pc EXCEPT ![r] = "reserved"]
    /\ UNCHANGED <<outcome, persistOk, world, policy, fence, up, rec, budget>>

\* The row was inserted but releasing the device guard failed, as it must once
\* the session that holds fence and device lock is dead: the caller is told the
\* slot was refused, the planned row stays.
ReserveOrphaned(r) ==
    /\ up /\ pc[r] = "checked"
    /\ \/ fence = r /\ Spend("dberr")
       \/ fence # r /\ UNCHANGED budget
    /\ InsertRow(r)
    /\ EndTask(r)
    /\ UNCHANGED <<world, policy, up, rec>>

\* Any later refusal (unreachable device, busy slot, read error): no row.
Refuse(r) ==
    /\ up /\ pc[r] \in {"fenced", "checked"}
    /\ EndTask(r)
    /\ UNCHANGED <<db, world, policy, up, rec, budget>>

-----------------------------------------------------------------------------
(* The state machine before the first command *)

\* The compare-and-set UPDATEs of run_state_machine.
ToPending(r) ==
    /\ up /\ pc[r] = "reserved" /\ state[r] = "planned"
    /\ state' = [state EXCEPT ![r] = "pending"]
    /\ pc' = [pc EXCEPT ![r] = "pended"]
    /\ UNCHANGED <<effect, before, after, locked, world, policy, outcome,
                   persistOk, fence, up, rec, budget>>

ToRunning(r) ==
    /\ up /\ pc[r] = "pended" /\ state[r] = "pending"
    /\ state' = [state EXCEPT ![r] = "running"]
    /\ pc' = [pc EXCEPT ![r] = "pushing"]
    /\ UNCHANGED <<effect, before, after, locked, world, policy, outcome,
                   persistOk, fence, up, rec, budget>>

\* Mutant: a cancellation noticed at the first transition is not handled.
AbortCancelledPendedOnly(r) ==
    /\ up /\ pc[r] = "pended" /\ state[r] # "pending"
    /\ EndTask(r)
    /\ UNCHANGED <<db, world, policy, up, rec, budget>>

\* The compare-and-set found the row cancelled: the abort UPDATE matches
\* nothing, the row stays as the cancellation left it.
AbortCancelled(r) ==
    /\ up
    /\ \/ pc[r] = "reserved" /\ state[r] # "planned"
       \/ pc[r] = "pended" /\ state[r] # "pending"
    /\ EndTask(r)
    /\ UNCHANGED <<db, world, policy, up, rec, budget>>

\* A statement before the first command failed: the required audit or alert,
\* or one of the two transitions, which may have been applied although its
\* reply was lost.  The abort UPDATE closes a planned or pending row as
\* failed/noop if it can be written, and otherwise leaves the row in flight.
AbortPreCommand(r) ==
    /\ up /\ Spend("dberr")
    /\ pc[r] \in {"reserved", "pended"}
    /\ state[r] = (IF pc[r] = "reserved" THEN "planned" ELSE "pending")
    /\ \/ /\ state' = [state EXCEPT ![r] = "failed"]
          /\ effect' = [effect EXCEPT ![r] = "noop"]
       \/ /\ \E s \in {state[r], IF pc[r] = "reserved" THEN "pending" ELSE "running"} :
                 state' = [state EXCEPT ![r] = s]
          /\ UNCHANGED effect
    /\ EndTask(r)
    /\ UNCHANGED <<before, after, locked, world, policy, up, rec>>

\* Mutant: a cancel that also takes running rows.
CancelRunning(r) ==
    /\ up /\ state[r] \in InFlight
    /\ state' = [state EXCEPT ![r] = "failed"]
    /\ UNCHANGED <<effect, before, after, locked, task, world, policy, fence, up,
                   rec, budget>>

\* POST /api/reroutes/{id}/cancel: the effect column keeps its default.
Cancel(r) ==
    /\ up /\ state[r] \in {"planned", "pending"}
    /\ state' = [state EXCEPT ![r] = "failed"]
    /\ UNCHANGED <<effect, before, after, locked, task, world, policy, fence, up,
                   rec, budget>>

-----------------------------------------------------------------------------
(* The device *)

\* execute_prepared under the retained native lock.  Nothing is sent when the
\* current value differs from the prepared one, or when the session fails
\* before the first command; an already satisfied action sends nothing.
PushRefused(r) ==
    /\ up /\ pc[r] = "pushing"
    /\ outcome' = [outcome EXCEPT ![r] = "refused"]
    /\ pc' = [pc EXCEPT ![r] = "pushed"]
    /\ UNCHANGED <<db, world, policy, persistOk, fence, up, rec, budget>>

PushSatisfied(r) ==
    /\ up /\ pc[r] = "pushing"
    /\ dev[DeviceOf[r]] = before[r] /\ before[r] = after[r]
    /\ outcome' = [outcome EXCEPT ![r] = "ok"]
    /\ pc' = [pc EXCEPT ![r] = "pushed"]
    /\ UNCHANGED <<db, world, policy, persistOk, fence, up, rec, budget>>

PushApplied(r) ==
    /\ up /\ pc[r] = "pushing"
    /\ dev[DeviceOf[r]] = before[r] /\ before[r] # after[r]
    /\ dev' = [dev EXCEPT ![DeviceOf[r]] = after[r]]
    /\ wrote' = wrote \cup {r}
    /\ outcome' = [outcome EXCEPT ![r] = "ok"]
    /\ pc' = [pc EXCEPT ![r] = "pushed"]
    /\ UNCHANGED <<db, policy, persistOk, fence, up, rec, budget>>

\* A read that proves neither state fails before anything is sent; the error
\* carries no certainty, so the executor treats it like a lost write.
PushUnread(r) ==
    /\ up /\ pc[r] = "pushing"
    /\ outcome' = [outcome EXCEPT ![r] = "ambiguous"]
    /\ pc' = [pc EXCEPT ![r] = "pushed"]
    /\ UNCHANGED <<db, world, policy, persistOk, fence, up, rec, budget>>

\* The session died or verification did not prove the after-state: the device
\* holds the old value, the new one, or something in between.
PushAmbiguous(r) ==
    /\ up /\ pc[r] = "pushing"
    /\ dev[DeviceOf[r]] = before[r] /\ before[r] # after[r]
    /\ \E v \in Values : dev' = [dev EXCEPT ![DeviceOf[r]] = v]
    /\ wrote' = wrote \cup {r}
    /\ outcome' = [outcome EXCEPT ![r] = "ambiguous"]
    /\ pc' = [pc EXCEPT ![r] = "pushed"]
    /\ UNCHANGED <<db, policy, persistOk, fence, up, rec, budget>>

-----------------------------------------------------------------------------
(* After the device *)

\* Outputs, steps and the running -> verifying transition are persisted; a
\* refusal skips verification.
Record(r) ==
    /\ up /\ pc[r] = "pushed"
    /\ state' = IF outcome[r] = "refused" THEN state
                ELSE [state EXCEPT ![r] = "verifying"]
    /\ pc' = [pc EXCEPT ![r] = "recorded"]
    /\ UNCHANGED <<effect, before, after, locked, world, policy, outcome,
                   persistOk, fence, up, rec, budget>>

\* One of those writes failed: the outcome can no longer be claimed.
RecordFailed(r) ==
    /\ up /\ pc[r] = "pushed" /\ Spend("dberr")
    /\ state' \in {state, IF outcome[r] = "refused" THEN state
                          ELSE [state EXCEPT ![r] = "verifying"]}
    /\ persistOk' = [persistOk EXCEPT ![r] = FALSE]
    /\ pc' = [pc EXCEPT ![r] = "recorded"]
    /\ UNCHANGED <<effect, before, after, locked, world, policy, outcome, fence,
                   up, rec>>

\* Mutant: an ambiguous apply is reported as done.
FinalStateOptimistic(r) == IF outcome[r] = "refused" THEN "failed" ELSE "succeeded"

\* final_state_for, with the overrides of run_state_machine.
FinalState(r) ==
    CASE ~persistOk[r] \/ outcome[r] = "ambiguous" -> "uncertain"
      [] persistOk[r] /\ outcome[r] = "refused"    -> "failed"
      [] OTHER                                     -> "succeeded"

FinalEffect(r) ==
    CASE ~persistOk[r] \/ outcome[r] = "ambiguous" -> "unknown"
      [] persistOk[r] /\ (outcome[r] = "refused" \/ before[r] = after[r]) -> "noop"
      [] OTHER                                     -> "changed"

\* Mutant: the terminal transaction commits without its device lock.
FinalizeTxNoLock(r) ==
    /\ state[r] \in {"running", "verifying"}
    /\ state' = [state EXCEPT ![r] = FinalState(r)]
    /\ effect' = [effect EXCEPT ![r] = FinalEffect(r)]
    /\ UNCHANGED <<before, after, locked>>

\* finalize's one transaction: row, device lock on uncertain, alert, audit.
FinalizeTx(r) ==
    /\ state[r] \in {"running", "verifying"}
    /\ state' = [state EXCEPT ![r] = FinalState(r)]
    /\ effect' = [effect EXCEPT ![r] = FinalEffect(r)]
    /\ locked' = IF FinalState(r) = "uncertain" THEN locked \cup {r} ELSE locked
    /\ UNCHANGED <<before, after>>

Finalize(r) ==
    /\ up /\ pc[r] = "recorded"
    /\ FinalizeTx(r)
    /\ EndTask(r)
    /\ UNCHANGED <<world, policy, up, rec, budget>>

\* The transaction failed, or committed with its reply lost: the caller is told
\* "uncertain"; an uncommitted row is left in flight for startup recovery.
FinalizeLost(r) ==
    /\ up /\ pc[r] = "recorded" /\ Spend("dberr")
    /\ FinalizeTx(r) \/ UNCHANGED db
    /\ EndTask(r)
    /\ UNCHANGED <<world, policy, up, rec>>

-----------------------------------------------------------------------------
(* Crash, startup recovery, reconciliation *)

Crash ==
    /\ up /\ Spend("crash")
    /\ up' = FALSE
    /\ pc' = [r \in Reroutes |-> IF pc[r] = "idle" THEN "idle" ELSE "done"]
    /\ outcome' = [r \in Reroutes |-> "none"]
    /\ persistOk' = [r \in Reroutes |-> TRUE]
    /\ fence' = NoReroute /\ rec' = NoRec
    /\ UNCHANGED <<db, world, policy>>

\* Mutant: recovery overlooks rows that were only planned.
StuckCommitted(r) == state[r] \in InFlight \ {"planned"}

\* The rows recover_on_startup selects.
Stuck(r) == state[r] \in InFlight

\* One row of state_machine::recover_on_startup, one transaction each.
RecoverRow(r) ==
    /\ ~up /\ Stuck(r)
    /\ state' = [state EXCEPT ![r] = "uncertain"]
    /\ effect' = [effect EXCEPT ![r] = "unknown"]
    /\ locked' = locked \cup {r}
    /\ UNCHANGED <<before, after, task, world, policy, fence, up, rec, budget>>

\* Startup goes on only when every stuck row was recovered.
Start ==
    /\ ~up /\ \A r \in Reroutes : ~Stuck(r)
    /\ up' = TRUE
    /\ UNCHANGED <<db, task, world, policy, fence, rec, budget>>

Reconcilable(r) ==
    \/ state[r] = "uncertain"
    \/ state[r] = "failed" /\ OriginalOf[r] # NoReroute /\ effect[r] = "changed"

\* The read-only comparison, under the policy fence.
ReconcileRead(r) ==
    /\ up /\ fence = NoReroute /\ rec = NoRec
    /\ Reconcilable(r)
    /\ fence' = Admin
    /\ rec' = [reroute |-> r,
               verdict |-> CASE dev[DeviceOf[r]] = after[r] /\ before[r] # after[r]
                                  -> "changed"
                             [] dev[DeviceOf[r]] = before[r] -> "not_applied"
                             [] OTHER -> "conflict"]
    /\ UNCHANGED <<db, task, world, policy, up, budget>>

\* The transaction re-checks the row, records the verdict and clears only the
\* lock correlated with this reroute.
ReconcileCommit ==
    LET r == rec.reroute IN
    /\ up /\ r # NoReroute
    /\ \/ /\ Reconcilable(r) /\ rec.verdict = "changed"
          /\ state' = [state EXCEPT ![r] = "succeeded"]
          /\ effect' = [effect EXCEPT ![r] = "changed"]
          /\ locked' = locked \ {r}
       \/ /\ Reconcilable(r) /\ rec.verdict = "not_applied"
          /\ state' = [state EXCEPT ![r] = "failed"]
          /\ effect' = [effect EXCEPT ![r] = "noop"]
          /\ locked' = locked \ {r}
       \/ /\ ~Reconcilable(r) \/ rec.verdict = "conflict"
          /\ UNCHANGED <<state, effect, locked>>
    /\ rec' = NoRec
    /\ fence' = IF fence = Admin THEN NoReroute ELSE fence
    /\ UNCHANGED <<before, after, task, world, policy, up, budget>>

-----------------------------------------------------------------------------
(* Policy and environment *)

\* PATCH /api/settings and /api/locks/global, each under the policy fence.
SetArmed ==
    /\ up /\ fence = NoReroute /\ Spend("policy")
    /\ armed' = ~armed
    /\ UNCHANGED <<db, task, world, maintenance, fence, up, rec>>

\* Mutant: the lock is set without taking the fence.
SetMaintenanceUnfenced ==
    /\ up /\ Spend("policy")
    /\ maintenance' = ~maintenance
    /\ UNCHANGED <<db, task, world, armed, fence, up, rec>>

SetMaintenance ==
    /\ up /\ fence = NoReroute /\ Spend("policy")
    /\ maintenance' = ~maintenance
    /\ UNCHANGED <<db, task, world, armed, fence, up, rec>>

\* The advisory session of the fence holder dies: the server frees the lock
\* while the holder goes on.
LoseFence ==
    /\ up /\ fence # NoReroute /\ Spend("fenceloss")
    /\ fence' = NoReroute
    /\ UNCHANGED <<db, task, world, policy, up, rec>>

\* Somebody configures the router by hand; impossible while a task retains the
\* device's native configuration lock.
NativeLocked(d) ==
    \E r \in Reroutes : DeviceOf[r] = d /\ pc[r] \notin {"idle", "done"}

Drift(d) ==
    /\ Spend("drift") /\ ~NativeLocked(d)
    /\ \E v \in Values \ {dev[d]} : dev' = [dev EXCEPT ![d] = v]
    /\ UNCHANGED <<db, task, wrote, policy, fence, up, rec>>

-----------------------------------------------------------------------------

\* One step of the executor task of r.
TaskStep(r) ==
    \/ CheckSlot(r) \/ Reserve(r) \/ ReserveOrphaned(r) \/ Refuse(r)
    \/ ToPending(r) \/ ToRunning(r) \/ AbortCancelled(r) \/ AbortPreCommand(r)
    \/ PushRefused(r) \/ PushSatisfied(r) \/ PushApplied(r) \/ PushAmbiguous(r)
    \/ PushUnread(r)
    \/ Record(r) \/ RecordFailed(r)
    \/ Finalize(r) \/ FinalizeLost(r)

Next ==
    \/ \E r \in Reroutes :
          \/ Authorize(r) \/ TaskStep(r) \/ Cancel(r)
          \/ RecoverRow(r) \/ ReconcileRead(r)
    \/ Crash \/ Start \/ ReconcileCommit
    \/ SetArmed \/ SetMaintenance \/ LoseFence
    \/ \E d \in Devices : Drift(d)

Spec == Init /\ [][Next]_vars

\* A started task runs on (it awaits only calls with timeouts), and a stopped
\* controller is restarted by its supervisor and recovers row by row.
FairSpec ==
    /\ Spec
    /\ \A r \in Reroutes : WF_vars(TaskStep(r)) /\ WF_vars(RecoverRow(r))
    /\ WF_vars(Start)

-----------------------------------------------------------------------------
(* Properties *)

\* At most one task per device is between the start of its push and its terminal
\* transaction, even when the session that serialized them is lost.
OneWriterPerDevice ==
    \A q, r \in Reroutes :
        (DeviceOf[q] = DeviceOf[r] /\ pc[q] \in Writing /\ pc[r] \in Writing) => q = r

\* While advisory sessions stay alive, at most one row per device is in flight
\* or unresolved, whatever else was lost, crashed or retried (reserve_slot's
\* running_on_device and has_uncertain).
OneOpenActionPerDevice ==
    \A q, r \in Reroutes :
        (DeviceOf[q] = DeviceOf[r] /\ state[q] \in Open /\ state[r] \in Open) => q = r

\* An uncertain row always has its own uncleared device lock: the terminal
\* transaction, startup recovery and reconciliation keep the two together.
UncertainIsLocked == \A r \in Reroutes : state[r] = "uncertain" => r \in locked

\* "Never treat sent as succeeded": the executor reports success only while the
\* device really holds the prepared after-state.
SuccessIsProved ==
    [][\A r \in Reroutes :
         (state[r] \in InFlight /\ state'[r] = "succeeded")
             => dev[DeviceOf[r]] = after[r]]_vars

\* A row whose commands reached a router is never closed as having done nothing
\* except by a reconciliation that read the before-state back: not by a cancel,
\* a pre-command abort, a refusal, a lost reply or a restart.
WriteNeverDisowned ==
    [][\A r \in wrote :
         (state[r] \in InFlight \cup {"uncertain"} /\ state'[r] = "failed")
             => rec.reroute = r /\ rec.verdict = "not_applied"]_vars

\* An original is inverted by at most one action that took or may have taken
\* effect on the router.
InvertedOnce ==
    \A i, j \in wrote :
        ( /\ OriginalOf[i] # NoReroute /\ OriginalOf[i] = OriginalOf[j]
          /\ state[i] \in Open \cup {"succeeded"} /\ state[j] \in Open \cup {"succeeded"} )
        => i = j

\* A completed disarm or maintenance lock is not bypassed by an action admitted
\* earlier: a command reaches a router only while the policy allows it.
PolicyNotBypassed ==
    [][\A r \in wrote' \ wrote : ~maintenance /\ (r \in Unattended => armed)]_vars

\* A device is never blocked for ever by a row nobody owns: a row a crash left
\* in flight is eventually recovered.
OrphansRecovered ==
    \A r \in Reroutes : (~up /\ state[r] \in InFlight) ~> (up /\ state[r] \notin InFlight)

\* Every reserved action is eventually decided: its task ends.
TasksEnd == \A r \in Reroutes : (pc[r] = "fenced") ~> (pc[r] = "done")
=============================================================================
