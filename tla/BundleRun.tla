----------------------------- MODULE BundleRun -----------------------------
(***************************************************************************)
(* A mitigation bundle (an ordered set of actions on several routers), the  *)
(* recovery children that undo bundles, and the durable ownership that      *)
(* keeps the two apart: device change windows, window memberships, recovery *)
(* claims and their settlement, startup repair and reconciliation.          *)
(* Sources: reroute/bundle.rs, reroute/recovery.rs, reroute/locks.rs,       *)
(* reroute/state_machine.rs, api/reroutes.rs.                               *)
(*                                                                         *)
(* One execution of an action is RerouteLifecycle seen from outside: a row  *)
(* is reserved, the router is or is not changed, a row outcome is stored    *)
(* and an outcome is reported, and the last two may differ.                 *)
(***************************************************************************)
EXTENDS Integers, FiniteSets

CONSTANTS
    Bundles,      \* forward activations
    Children,     \* recovery bundles
    Actions, Devices,
    HomeOf,       \* [Actions -> Bundles]
    DeviceOf,     \* [Actions -> Devices]
    Rank,         \* [Actions -> Nat]: reroute id order; position order in a bundle
    Destructive,  \* actions of safety phase 2
    FailurePolicies,   \* the policies bundles are created with
    None, Quarantine,
    Faults,       \* kinds of trouble the environment may cause
    MaxFaults     \* how often, altogether

FaultKinds == {"ambiguous", "refused", "blocked", "cancelled", "dberr", "crash",
               "unproven", "drift"}
Policies   == {"abort_and_compensate", "abort", "continue"}
Runs       == Bundles \cup Children

ASSUME BundleAssumption ==
    /\ IsFiniteSet(Actions) /\ HomeOf \in [Actions -> Bundles]
    /\ \A b \in Bundles : \E a \in Actions : HomeOf[a] = b    \* persist_actions
    /\ DeviceOf \in [Actions -> Devices]
    /\ Rank \in [Actions -> Nat]
    /\ \A a, e \in Actions : Rank[a] = Rank[e] => a = e
    /\ Destructive \subseteq Actions
    /\ FailurePolicies # {} /\ FailurePolicies \subseteq Policies
    /\ Bundles \cap Children = {}
    /\ None \notin Runs /\ Quarantine \notin Runs /\ None # Quarantine
    /\ Faults \subseteq FaultKinds /\ MaxFaults \in Nat

VARIABLES
    bstate,     \* reroute_bundles.state
    policy,     \* reroute_bundles.failure_policy
    row,        \* state and mutation_effect of each original reroute
    inv,        \* the same for inverses: by compensation of b, or by child c
    slot,       \* reroute_bundle_actions: is the slot linked to its reroute?
    eff,        \* what is really in force on the router
    window,     \* device_change_windows: owner per device
    member,     \* device_change_window_sources
    claim,      \* reroute_bundles.recovery_claim_token of each source
    settlement, \* recovery_attempt_sources of each child
    created,    \* recovery_attempt_device_memberships with created_by_attempt
    plan,       \* the originals in a child's immutable ledger
    task,       \* the runner's memory
    up, faults

vars == <<bstate, policy, row, inv, slot, eff, window, member, claim, settlement,
          created, plan, task, up, faults>>
ownership == <<window, member, claim, settlement, created, plan>>
rows      == <<row, inv, slot>>

\* (state, mutation_effect) of a row: changed and noop are succeeded, refused is
\* failed/noop, cancelled is failed/pending, uncertain is uncertain/unknown.
RowStatus == {"none", "inflight", "changed", "noop", "refused", "cancelled", "uncertain"}
Ambiguous == {"inflight", "uncertain", "cancelled"}
InFlight  == {"planned", "running", "compensating"}
BStates   == InFlight \cup {"none", "succeeded", "failed", "aborted", "compensated",
                            "compensation_blocked"}
Settlements == {"none", "active", "blocked", "restored", "known_no_write"}
PCs  == {"idle", "admitted", "windowed", "loop", "executing", "closing", "done"}
Tasks == [pc : PCs, undo : BOOLEAN, todo : SUBSET Actions, good : SUBSET Actions,
          failed : BOOLEAN, stop : {"no", "failed", "ambiguous", "lost"},
          got : RowStatus]
Idle == [pc |-> "idle", undo |-> FALSE, todo |-> {}, good |-> {}, failed |-> FALSE,
         stop |-> "no", got |-> "none"]
Ended == [Idle EXCEPT !.pc = "done"]

\* The type invariant.
TypeOK ==
    /\ bstate \in [Runs -> BStates]
    /\ policy \in [Bundles -> Policies]
    /\ row \in [Actions -> RowStatus]
    /\ inv \in [Runs -> [Actions -> RowStatus]]
    /\ slot \in [Actions -> {"queued", "linked", "unlinked"}]
    /\ eff \in [Actions -> {"off", "on", "partial"}]
    /\ window \in [Devices -> Runs \cup {None, Quarantine}]
    /\ member \subseteq Devices \X Bundles
    /\ claim \in [Bundles -> Children \cup {None}]
    /\ settlement \in [Children -> [Bundles -> Settlements]]
    /\ created \in [Children -> SUBSET (Devices \X Bundles)]
    /\ plan \in [Children -> SUBSET Actions]
    /\ task \in [Runs -> Tasks]
    /\ up \in BOOLEAN
    /\ faults \in 0..MaxFaults

Init ==
    /\ bstate = [x \in Runs |-> "none"]
    /\ policy \in [Bundles -> FailurePolicies]
    /\ row = [a \in Actions |-> "none"]
    /\ inv = [x \in Runs |-> [a \in Actions |-> "none"]]
    /\ slot = [a \in Actions |-> "queued"]
    /\ eff = [a \in Actions |-> "off"]
    /\ window = [d \in Devices |-> None]
    /\ member = {}
    /\ claim = [b \in Bundles |-> None]
    /\ settlement = [c \in Children |-> [b \in Bundles |-> "none"]]
    /\ created = [c \in Children |-> {}]
    /\ plan = [c \in Children |-> {}]
    /\ task = [x \in Runs |-> Idle]
    /\ up = TRUE
    /\ faults = MaxFaults

Fault(k) == k \in Faults /\ faults > 0 /\ faults' = faults - 1

-----------------------------------------------------------------------------
(* What the durable rows say *)

SiblingsOf(b) == {a \in Actions : HomeOf[a] = b}

\* A succeeded inverse closes its original.
Inverted(a, iv) == \E x \in Runs : iv[x][a] \in {"changed", "noop"}

\* outstanding_owned_originals, for the originals of a bundle or of a ledger.
Outstanding(S, rw, iv) ==
    {a \in S : rw[a] \in {"changed", "uncertain"} /\ ~Inverted(a, iv)}

\* The originals a recovery of s would invert (ownership_for_sources_on).
Owned(s) == {a \in SiblingsOf(s) : row[a] = "changed" /\ ~Inverted(a, inv)}

\* source_proof_on: no in-flight or ambiguous original or inverse.
NoAmbiguousEffect(s, rw, iv) ==
    \A a \in SiblingsOf(s) :
        /\ rw[a] \notin Ambiguous
        /\ \A x \in Runs : iv[x][a] \notin Ambiguous

\* Mutant: a bundle that is still in flight already counts as a source.
ActivationCoverageInFlight(s, rw, sl) ==
    /\ bstate[s] # "none"
    /\ \A a \in SiblingsOf(s) :
          \/ sl[a] = "linked" /\ rw[a] # "none"
          \/ sl[a] = "queued" /\ rw[a] = "none"

\* source_proof_on: the source is terminal and every ledger slot is either
\* linked to its reroute or was never started.
ActivationCoverage(s, rw, sl) ==
    /\ bstate[s] \notin InFlight \cup {"none"}
    /\ \A a \in SiblingsOf(s) :
          \/ sl[a] = "linked" /\ rw[a] # "none"
          \/ sl[a] = "queued" /\ rw[a] = "none"

SourceProof(s) == ActivationCoverage(s, row, slot) /\ NoAmbiguousEffect(s, row, inv)

ActionsOf(x) == IF x \in Children THEN plan[x] ELSE SiblingsOf(x)
DevicesOf(x) == {DeviceOf[a] : a \in ActionsOf(x)}

Members(d, M) == {b \in Bundles : <<d, b>> \in M}

-----------------------------------------------------------------------------
(* Terminal transactions *)

\* Mutant: every terminal outcome gives the devices back.
FinishAndReleaseAlways(b, s) ==
    LET M == {m \in member : m[2] # b} IN
    /\ bstate[b] \in InFlight
    /\ bstate' = [bstate EXCEPT ![b] = s]
    /\ member' = M
    /\ window' = [d \in Devices |-> IF window[d] = b THEN None ELSE window[d]]
    /\ UNCHANGED <<claim, settlement, created, plan>>

\* finish_and_release for a forward bundle: memberships go when the bundle
\* succeeded or owns nothing; a window goes with the last membership.
FinishAndRelease(b, s) ==
    LET M == IF s = "succeeded" \/ Outstanding(SiblingsOf(b), row, inv) = {}
             THEN {m \in member : m[2] # b} ELSE member IN
    /\ bstate[b] \in InFlight
    /\ bstate' = [bstate EXCEPT ![b] = s]
    /\ member' = M
    /\ window' = [d \in Devices |->
                    IF window[d] # b THEN window[d]
                    ELSE IF Members(d, M) = {} THEN None ELSE Quarantine]
    /\ UNCHANGED <<claim, settlement, created, plan>>

\* finish_blocked_with_alert: windows and memberships stay.
FinishBlocked(b) ==
    /\ bstate[b] \in InFlight
    /\ bstate' = [bstate EXCEPT ![b] = "compensation_blocked"]
    /\ UNCHANGED ownership

\* How finalize_recovery_child settles each source of c, from the rows rw, iv.
SourcesOf(c) == {s \in Bundles : settlement[c][s] # "none"}
Settled      == {"restored", "known_no_write"}

Freeze(c, rw, iv) ==
    \/ \E s \in SourcesOf(c) : settlement[c][s] \notin Settled /\ claim[s] # c
    \/ \E a \in plan[c] : iv[c][a] \in Ambiguous
    \/ \E s \in SourcesOf(c) : ~ActivationCoverage(s, rw, slot)
    \/ \E s \in SourcesOf(c) : ~NoAmbiguousEffect(s, rw, iv)

\* Mutant: a child that ended without an ambiguous row restored its source.
SettleOptimistic(c, s, terminal, rw, iv) ==
    IF Freeze(c, rw, iv) THEN "blocked" ELSE "restored"

Settle(c, s, terminal, rw, iv) ==
    LET left == Outstanding(SiblingsOf(s), rw, iv)
        ours == settlement[c][s] \in Settled \/ claim[s] = c IN
    CASE Freeze(c, rw, iv) \/ ~ours \/ (terminal = "succeeded" /\ left # {}) -> "blocked"
      [] OTHER -> IF left = {} /\ \E a \in SiblingsOf(s) : rw[a] # "none"
                  THEN "restored" ELSE "known_no_write"

\* finalize_recovery_child: settles every source of c in one transaction.
FinalizeChild(c, terminal, rw, iv) ==
    LET verdict  == [s \in SourcesOf(c) |-> Settle(c, s, terminal, rw, iv)]
        restored == {s \in SourcesOf(c) : verdict[s] = "restored"}
        retry    == {s \in SourcesOf(c) : verdict[s] = "known_no_write"}
        blocked  == {s \in SourcesOf(c) : verdict[s] = "blocked"}
        M == {m \in member : m[2] \notin restored
                             /\ ~(m[2] \in retry /\ m \in created[c])}
        free(d) == Members(d, M) = {}
        released(d) == window[d] \in restored /\ free(d)
    IN
    /\ settlement' = [settlement EXCEPT ![c] =
                        [s \in Bundles |-> IF s \in SourcesOf(c) THEN verdict[s] ELSE @[s]]]
    /\ claim' = [s \in Bundles |->
                   IF s \in restored \cup retry /\ claim[s] = c THEN None ELSE claim[s]]
    /\ member' = M
    /\ created' = [created EXCEPT ![c] = {m \in @ : m[2] \notin retry}]
    /\ bstate' = [x \in Runs |->
                    CASE x = c -> IF blocked # {} THEN "compensation_blocked"
                                  ELSE IF retry = {} THEN "succeeded" ELSE "failed"
                      [] x \in restored /\ claim[x] = c
                             /\ bstate[x] \in {"aborted", "compensation_blocked"}
                           -> "compensated"
                      [] OTHER -> bstate[x]]
    /\ window' = [d \in Devices |->
         IF released(d) THEN None
         ELSE IF blocked # {} THEN IF window[d] = c THEN Quarantine ELSE window[d]
         ELSE IF retry # {}
              THEN IF window[d] # c THEN window[d]
                   ELSE IF free(d) THEN None ELSE Quarantine
         ELSE IF window[d] \in {c, Quarantine} /\ d \in DevicesOf(c) /\ free(d)
              THEN None ELSE window[d]]
    /\ UNCHANGED plan

\* finish_and_release and finish_blocked_with_alert route a child here.
Finish(x, s) ==
    IF x \in Children
    THEN FinalizeChild(x, s, row, inv)
    ELSE IF s = "compensation_blocked" THEN FinishBlocked(x) ELSE FinishAndRelease(x, s)

-----------------------------------------------------------------------------
(* Admission *)

\* create and persist_actions: the whole sibling set is durable first.
Create(b) ==
    /\ up /\ bstate[b] = "none"
    /\ bstate' = [bstate EXCEPT ![b] = "planned"]
    /\ task' = [task EXCEPT ![b] = [Idle EXCEPT !.pc = "admitted", !.todo = SiblingsOf(b)]]
    /\ UNCHANGED <<policy, rows, eff, ownership, up, faults>>

\* Mutant: the claim token is overwritten.
ClaimableStolen(S) ==
    \A s \in S : SourceProof(s) /\ Owned(s) # {}

\* claim_sources_for_child_on, from any of its callers: every source proved,
\* unclaimed and owning something.
Claimable(S) ==
    \A s \in S : SourceProof(s) /\ Owned(s) # {} /\ claim[s] = None

AdmitChild(c, S) ==
    LET originals == UNION {Owned(s) : s \in S}
        fresh == {<<DeviceOf[a], HomeOf[a]>> : a \in originals} IN
    /\ up /\ bstate[c] = "none" /\ S # {} /\ Claimable(S)
    /\ bstate' = [bstate EXCEPT ![c] = "planned"]
    /\ claim' = [s \in Bundles |-> IF s \in S THEN c ELSE claim[s]]
    /\ settlement' = [settlement EXCEPT ![c] =
                        [s \in Bundles |-> IF s \in S THEN "active" ELSE "none"]]
    /\ created' = [created EXCEPT ![c] = fresh \ member]
    /\ member' = member \cup fresh
    /\ plan' = [plan EXCEPT ![c] = originals]
    /\ task' = [task EXCEPT ![c] = [Idle EXCEPT !.pc = "admitted", !.undo = TRUE,
                                                !.todo = originals]]
    /\ UNCHANGED <<policy, rows, eff, window, up, faults>>

\* acquire_bundle_change_windows for a forward bundle.
ForwardWindowsFree(b) ==
    \A d \in DevicesOf(b) :
        /\ Members(d, member) \subseteq {b}
        /\ window[d] \in {None, b}

\* claim_change_windows_for_recovery for a child.
ChildWindowsFree(c) ==
    /\ \A s \in SourcesOf(c) :
          SourceProof(s) /\ settlement[c][s] = "active" /\ claim[s] = c
    /\ UNION {Owned(s) : s \in SourcesOf(c)} = plan[c]
    /\ \A d \in DevicesOf(c) :
          /\ Members(d, member) \subseteq {s \in SourcesOf(c) : settlement[c][s] = "active"}
          /\ window[d] \in {None, Quarantine, c} \cup SourcesOf(c)

\* Mutant: memberships of other activations are not consulted.
WindowsFreeIgnoringMembers(x) ==
    \A d \in DevicesOf(x) : window[d] \in {None, Quarantine, x}

WindowsFree(x) == IF x \in Children THEN ChildWindowsFree(x) ELSE ForwardWindowsFree(x)

Acquire(x) ==
    /\ up /\ task[x].pc = "admitted" /\ WindowsFree(x)
    /\ window' = [d \in Devices |-> IF d \in DevicesOf(x) THEN x ELSE window[d]]
    /\ member' = IF x \in Children THEN member
                 ELSE member \cup {<<d, x>> : d \in DevicesOf(x)}
    /\ task' = [task EXCEPT ![x].pc = "windowed"]
    /\ UNCHANGED <<bstate, policy, rows, eff, claim, settlement, created, plan, up, faults>>

\* Mutant: a run waits for a quarantined device instead of failing.
AcquireRefusedWaits(x) ==
    /\ up /\ task[x].pc = "admitted" /\ ~WindowsFree(x)
    /\ \A d \in DevicesOf(x) : window[d] # Quarantine
    /\ Finish(x, "failed")
    /\ task' = [task EXCEPT ![x] = Ended]
    /\ UNCHANGED <<policy, rows, eff, up, faults>>

\* A foreign owner: the run fails before it touches a router.
AcquireRefused(x) ==
    /\ up /\ task[x].pc = "admitted" /\ ~WindowsFree(x)
    /\ Finish(x, "failed")
    /\ task' = [task EXCEPT ![x] = Ended]
    /\ UNCHANGED <<policy, rows, eff, up, faults>>

\* Native locks, transport identities or the whole-sequence preflight refuse.
PreflightRefused(x) ==
    /\ up /\ task[x].pc \in {"admitted", "windowed"} /\ Fault("refused")
    /\ Finish(x, "failed")
    /\ task' = [task EXCEPT ![x] = Ended]
    /\ UNCHANGED <<policy, rows, eff, up>>

Begin(x) ==
    /\ up /\ task[x].pc = "windowed"
    /\ bstate' = [bstate EXCEPT ![x] = "running"]
    /\ task' = [task EXCEPT ![x].pc = "loop"]
    /\ UNCHANGED <<policy, rows, eff, ownership, up, faults>>

-----------------------------------------------------------------------------
(* The sibling loop, for the apply, for a child's inverses and for compensation *)

Succeeded == {"changed", "noop"}

\* Mutant: compensation and recovery undo in the order of the apply.
NextActionUnordered(x) ==
    CHOOSE a \in task[x].todo : \A e \in task[x].todo : Rank[a] <= Rank[e]

\* Siblings are applied in ledger order and undone in reverse order.
NextAction(x) ==
    CHOOSE a \in task[x].todo : \A e \in task[x].todo :
        IF task[x].undo THEN Rank[a] >= Rank[e] ELSE Rank[a] <= Rank[e]

SetRow(x, a, s) ==
    IF task[x].undo THEN /\ inv' = [inv EXCEPT ![x][a] = s] /\ UNCHANGED row
                    ELSE /\ row' = [row EXCEPT ![a] = s]    /\ UNCHANGED inv

\* An open row on the device, of whatever run, blocks it (reserve_slot).
DeviceBusy(d) ==
    \E a \in Actions : /\ DeviceOf[a] = d
                       /\ \/ row[a] \in {"inflight", "uncertain"}
                          \/ \E x \in Runs : inv[x][a] \in {"inflight", "uncertain"}

\* What reserve_slot and the execution authority demand of x for a.
SlotFree(x, a) ==
    /\ window[DeviceOf[a]] = x
    /\ ~DeviceBusy(DeviceOf[a])
    /\ task[x].undo => /\ row[a] = "changed"
                       /\ \A y \in Runs : inv[y][a] \notin {"inflight"} \cup Succeeded

\* The replacement state could not be re-proved before a destructive action.
ReproofLost(x) ==
    /\ up /\ task[x].pc = "loop" /\ ~task[x].undo
    /\ NextAction(x) \in Destructive /\ task[x].good # {}
    /\ Fault("unproven")
    /\ task' = [task EXCEPT ![x].stop = "lost", ![x].pc = "closing"]
    /\ UNCHANGED <<bstate, policy, rows, eff, ownership, up>>

\* The row is reserved and the router is written; got is what the executor
\* knows when it is done.
Execute(x) ==
    LET a == NextAction(x)
        from == IF task[x].undo THEN "on" ELSE "off"
        goal == IF task[x].undo THEN "off" ELSE "on"
        Got(g) == task' = [task EXCEPT ![x].pc = "executing", ![x].got = g] IN
    /\ up /\ task[x].pc = "loop" /\ SlotFree(x, a)
    /\ SetRow(x, a, "inflight")
    /\ \/ /\ eff[a] = from /\ Got("changed")
          /\ eff' = [eff EXCEPT ![a] = goal] /\ UNCHANGED faults
       \/ /\ task[x].undo => eff[a] = "off"
          /\ Got("noop") /\ UNCHANGED <<eff, faults>>
       \/ Fault("refused") /\ Got("refused") /\ UNCHANGED eff
       \/ Fault("cancelled") /\ Got("cancelled") /\ UNCHANGED eff
       \/ /\ Fault("ambiguous") /\ Got("uncertain")
          /\ \E v \in {eff[a]} \cup (IF eff[a] = from THEN {goal, "partial"} ELSE {}) :
                eff' = [eff EXCEPT ![a] = v]
    /\ UNCHANGED <<bstate, policy, slot, ownership, up>>

\* Mutant: under the continue policy even an ambiguous sibling is passed over.
StopReasonContinue(x, s, lost) ==
    CASE ~task[x].undo /\ x \in Bundles /\ policy[x] = "continue" -> "no"
      [] lost \/ s \in Ambiguous -> "ambiguous"
      [] s \in Succeeded -> "no"
      [] OTHER -> "failed"

\* Why the loop stops after a sibling ended with status s: ambiguity always
\* does, a failure unless the bundle continues over failures.
StopReason(x, s, lost) ==
    CASE lost \/ s \in Ambiguous -> "ambiguous"
      [] s \in Succeeded /\ ~lost -> "no"
      [] OTHER -> IF x \in Bundles /\ ~task[x].undo /\ policy[x] = "continue"
                  THEN "no" ELSE "failed"

\* The end of one loop iteration: memory, and the stop decision.
Reported(x, a, s, lost) ==
    LET ok   == s \in Succeeded /\ ~lost
        stop == StopReason(x, s, lost)
        todo == task[x].todo \ {a} IN
    task' = [task EXCEPT ![x] =
               [task[x] EXCEPT
                         !.todo = todo, !.got = "none", !.stop = stop,
                         !.good = IF ok THEN @ \cup {a} ELSE @,
                         !.failed = @ \/ ~ok,
                         !.pc = IF stop # "no" \/ todo = {} THEN "closing" ELSE "loop"]]

LinkSlot(x, a, s) == slot' = IF task[x].undo THEN slot ELSE [slot EXCEPT ![a] = s]

\* The outcome is stored and reported, and the ledger slot linked to its row.
Report(x) ==
    LET a == NextAction(x) IN
    /\ up /\ task[x].pc = "executing"
    /\ SetRow(x, a, task[x].got)
    /\ LinkSlot(x, a, "linked")
    /\ Reported(x, a, task[x].got, FALSE)
    /\ UNCHANGED <<bstate, policy, eff, ownership, up, faults>>

\* The outcome could not be stored, or was stored and its reply lost: either way
\* it is reported as unknown.
ReportLost(x) ==
    LET a == NextAction(x) IN
    /\ up /\ task[x].pc = "executing" /\ task[x].got # "cancelled"
    /\ Fault("dberr")
    /\ \E s \in {task[x].got, "inflight", "uncertain"} : SetRow(x, a, s)
    /\ LinkSlot(x, a, "linked")
    /\ Reported(x, a, task[x].got, TRUE)
    /\ UNCHANGED <<bstate, policy, eff, ownership, up>>

\* The ledger UPDATE fails; its error is ignored.
ReportUnlinked(x) ==
    LET a == NextAction(x) IN
    /\ up /\ task[x].pc = "executing" /\ ~task[x].undo /\ Fault("dberr")
    /\ SetRow(x, a, task[x].got)
    /\ Reported(x, a, task[x].got, FALSE)
    /\ UNCHANGED <<bstate, policy, slot, eff, ownership, up>>

\* A gate or the reservation refused: no row (or, when only the release of the
\* reservation failed, a row nobody drives); the slot records an unknown effect.
Blocked(x) ==
    LET a == NextAction(x) IN
    /\ up /\ task[x].pc = "loop"
    /\ \/ Fault("blocked") /\ UNCHANGED <<row, inv>>
       \/ ~SlotFree(x, a) /\ UNCHANGED <<row, inv, faults>>
       \/ SlotFree(x, a) /\ Fault("dberr") /\ SetRow(x, a, "inflight")
    /\ LinkSlot(x, a, "unlinked")
    /\ Reported(x, a, "none", FALSE)
    /\ UNCHANGED <<bstate, policy, eff, ownership, up>>

-----------------------------------------------------------------------------
(* Closing a run *)

Applied(b) == {a \in task[b].good : row[a] = "changed"}

\* Does the run end well, apart from the final proof?
RanThrough(x) == task[x].pc = "closing" /\ task[x].stop = "no" /\ ~task[x].failed

\* The final projected state of the siblings could not be proved.
FinalStateLost(x) ==
    /\ up /\ RanThrough(x) /\ task[x].good # {} /\ ~(x \in Bundles /\ task[x].undo)
    /\ Fault("unproven")
    /\ task' = [task EXCEPT ![x].stop = "lost"]
    /\ UNCHANGED <<bstate, policy, rows, eff, ownership, up>>

\* Which terminal state the code asks for.
Verdict(x) ==
    IF x \in Children
    THEN IF RanThrough(x) /\ Outstanding(plan[x], row, inv) = {}
         THEN "succeeded" ELSE "compensation_blocked"
    ELSE IF task[x].undo
         THEN IF RanThrough(x) THEN "compensated" ELSE "compensation_blocked"
    ELSE CASE task[x].stop \in {"ambiguous", "lost"} -> "compensation_blocked"
           [] task[x].stop = "no" -> IF task[x].failed THEN "aborted" ELSE "succeeded"
           [] OTHER -> IF policy[x] # "abort_and_compensate" \/ Applied(x) = {}
                       THEN "aborted" ELSE "compensating"

\* quarantine_changed_actions, when the projected state of a forward run is lost.
QuarantineChanged(x) ==
    row' = IF x \in Bundles /\ task[x].stop = "lost"
           THEN [a \in Actions |-> IF a \in Applied(x) THEN "uncertain" ELSE row[a]]
           ELSE row

Close(x) ==
    /\ up /\ task[x].pc = "closing" /\ Verdict(x) # "compensating"
    /\ Finish(x, Verdict(x))
    /\ QuarantineChanged(x)
    /\ task' = [task EXCEPT ![x] = Ended]
    /\ UNCHANGED <<policy, inv, slot, eff, up, faults>>

\* The terminal transaction failed (or the run never got its lock runtime): the
\* bundle stays in flight until the next start.
CloseLost(x) ==
    /\ up /\ task[x].pc \in {"admitted", "closing"} /\ Fault("dberr")
    /\ \/ UNCHANGED row
       \/ task[x].pc = "closing" /\ QuarantineChanged(x)
    /\ task' = [task EXCEPT ![x] = Ended]
    /\ UNCHANGED <<bstate, policy, inv, slot, eff, ownership, up>>

\* Automatic compensation of the siblings that were applied.
Compensate(b) ==
    /\ up /\ task[b].pc = "closing" /\ Verdict(b) = "compensating"
    /\ bstate' = [bstate EXCEPT ![b] = "compensating"]
    /\ task' = [task EXCEPT ![b] = [Idle EXCEPT !.pc = "loop", !.undo = TRUE,
                                                !.todo = Applied(b)]]
    /\ UNCHANGED <<policy, rows, eff, ownership, up, faults>>

-----------------------------------------------------------------------------
(* Crash and startup *)

Crash ==
    /\ up /\ Fault("crash")
    /\ up' = FALSE
    /\ task' = [x \in Runs |-> IF task[x].pc = "idle" THEN Idle ELSE Ended]
    /\ UNCHANGED <<bstate, policy, rows, eff, ownership>>

InFlightRows ==
    \/ \E a \in Actions : row[a] = "inflight"
    \/ \E x \in Runs, a \in Actions : inv[x][a] = "inflight"

\* Mutant: an interrupted action is taken not to have happened.
RecoverRowsOptimistic ==
    /\ ~up /\ InFlightRows
    /\ row' = [a \in Actions |-> IF row[a] = "inflight" THEN "refused" ELSE row[a]]
    /\ inv' = [x \in Runs |-> [a \in Actions |->
                  IF inv[x][a] = "inflight" THEN "refused" ELSE inv[x][a]]]
    /\ UNCHANGED <<bstate, policy, slot, eff, ownership, task, up, faults>>

\* state_machine::recover_on_startup.
RecoverRows ==
    /\ ~up /\ InFlightRows
    /\ row' = [a \in Actions |-> IF row[a] = "inflight" THEN "uncertain" ELSE row[a]]
    /\ inv' = [x \in Runs |-> [a \in Actions |->
                  IF inv[x][a] = "inflight" THEN "uncertain" ELSE inv[x][a]]]
    /\ UNCHANGED <<bstate, policy, slot, eff, ownership, task, up, faults>>

ActiveChild(c) == \E s \in Bundles : settlement[c][s] = "active"

\* bundle::recover_on_startup: children with an active association are settled.
RecoverChild(c) ==
    /\ ~up /\ ~InFlightRows /\ ActiveChild(c)
    /\ FinalizeChild(c, CASE bstate[c] = "succeeded" -> "succeeded"
                          [] bstate[c] \in {"failed", "aborted"} -> "failed"
                          [] OTHER -> "compensation_blocked", row, inv)
    /\ UNCHANGED <<policy, rows, eff, task, up, faults>>

\* Then the interrupted bundles; a foreign window on an owned device aborts
\* startup.  Memberships are left as they are.
RecoverBundle(b) ==
    LET left    == Outstanding(SiblingsOf(b), row, inv)
        devices == {DeviceOf[a] : a \in left} IN
    /\ ~up /\ ~InFlightRows /\ ~(\E c \in Children : ActiveChild(c))
    /\ bstate[b] \in InFlight
    /\ \A d \in devices : window[d] \in {None, b}
    /\ bstate' = [bstate EXCEPT ![b] =
                     IF left # {} THEN "compensation_blocked" ELSE "aborted"]
    /\ window' = [d \in Devices |->
                     IF d \in devices THEN b
                     ELSE IF left = {} /\ window[d] = b THEN None ELSE window[d]]
    /\ UNCHANGED <<policy, rows, eff, member, claim, settlement, created, plan, task,
                   up, faults>>

Start ==
    /\ ~up /\ ~InFlightRows
    /\ ~(\E c \in Children : ActiveChild(c))
    /\ \A b \in Bundles : bstate[b] \notin InFlight
    /\ up' = TRUE
    /\ UNCHANGED <<bstate, policy, rows, eff, ownership, task, faults>>

-----------------------------------------------------------------------------
(* Reconciliation and the world *)

\* reconcile_uncertain on an original.  A partial state is a conflict and
\* resolves nothing.  When the bundle then owns nothing it gives everything back.
Reconcile(a) ==
    LET b  == HomeOf[a]
        rw == [row EXCEPT ![a] = IF eff[a] = "on" THEN "changed" ELSE "refused"]
        clean == /\ \A e \in SiblingsOf(b) : rw[e] # "uncertain"
                 /\ Outstanding(SiblingsOf(b), rw, inv) = {} IN
    /\ up /\ row[a] = "uncertain" /\ eff[a] # "partial"
    /\ row' = rw
    /\ window' = [d \in Devices |-> IF clean /\ window[d] = b THEN None ELSE window[d]]
    /\ member' = IF clean THEN {m \in member : m[2] # b} ELSE member
    /\ bstate' = IF clean /\ bstate[b] = "compensation_blocked"
                 THEN [bstate EXCEPT ![b] = "compensated"] ELSE bstate
    /\ UNCHANGED <<policy, inv, slot, eff, claim, settlement, created, plan, task, up,
                   faults>>

\* ... on an inverse.  A child's inverse may complete the child; the inverse of a
\* compensation carries no bundle id, so nothing else is looked at.
ReconcileInverse(x, a) ==
    LET iv == [inv EXCEPT ![x][a] = IF eff[a] = "off" THEN "changed" ELSE "refused"] IN
    /\ up /\ inv[x][a] = "uncertain" /\ eff[a] # "partial"
    /\ inv' = iv
    /\ IF x \in Children /\ Outstanding(plan[x], row, iv) = {}
       THEN FinalizeChild(x, "succeeded", row, iv)
       ELSE UNCHANGED <<bstate, ownership>>
    /\ UNCHANGED <<policy, row, slot, eff, task, up, faults>>

\* Somebody removes a change by hand from a router nobody holds locked, or
\* completes or removes one that was left half done.
Drift(a) ==
    /\ \A x \in Runs : task[x].pc \in {"loop", "executing", "closing"}
                          => DeviceOf[a] \notin DevicesOf(x)
    /\ \/ eff[a] = "on" /\ Fault("drift") /\ eff' = [eff EXCEPT ![a] = "off"]
       \/ /\ eff[a] = "partial" /\ UNCHANGED faults
          /\ \E v \in {"off", "on"} : eff' = [eff EXCEPT ![a] = v]
    /\ UNCHANGED <<bstate, policy, rows, ownership, task, up>>

-----------------------------------------------------------------------------

RunStep(x) ==
    \/ Acquire(x) \/ AcquireRefused(x) \/ PreflightRefused(x) \/ Begin(x)
    \/ ReproofLost(x) \/ Execute(x) \/ Report(x) \/ ReportLost(x) \/ ReportUnlinked(x)
    \/ Blocked(x) \/ FinalStateLost(x) \/ Close(x) \/ CloseLost(x) \/ Compensate(x)

StartupStep ==
    \/ RecoverRows \/ Start
    \/ \E c \in Children : RecoverChild(c)
    \/ \E b \in Bundles : RecoverBundle(b)

Next ==
    \/ \E b \in Bundles : Create(b)
    \/ \E c \in Children, S \in SUBSET Bundles : AdmitChild(c, S)
    \/ \E x \in Runs : RunStep(x)
    \/ Crash \/ StartupStep
    \/ \E a \in Actions : Reconcile(a) \/ Drift(a)
    \/ \E x \in Runs, a \in Actions : ReconcileInverse(x, a)

Spec == Init /\ [][Next]_vars

\* A spawned run is driven to its end and a stopped controller is restarted.
FairSpec == Spec /\ (\A x \in Runs : WF_vars(RunStep(x))) /\ WF_vars(StartupStep)

-----------------------------------------------------------------------------
(* Properties *)

\* Every change on a router is owned by a durable row that is not yet closed by
\* an inverse, so no restart, lost reply or reconciliation can forget it.
ChangeIsOwned ==
    \A a \in Actions : eff[a] # "off" =>
        row[a] \in {"inflight", "changed", "uncertain"} /\ ~Inverted(a, inv)

\* A router is quarantined for as long as a bundle that did not succeed has a
\* change on it: the membership outlives the run, the process and every recovery
\* attempt (finish_and_release, recover_on_startup, finalize_recovery_child).
QuarantineHeld ==
    \A a \in Actions :
        (eff[a] # "off" /\ bstate[HomeOf[a]] # "succeeded")
            => <<DeviceOf[a], HomeOf[a]>> \in member

\* A bundle never writes to a router that carries a change of another activation
\* which did not succeed.
ForeignWriteExcluded ==
    [][\A a, e \in Actions :
         ( /\ row[a] = "none" /\ row'[a] = "inflight" /\ slot'[a] # "unlinked"
           /\ DeviceOf[e] = DeviceOf[a] /\ HomeOf[e] # HomeOf[a] /\ eff[e] # "off" )
         => bstate[HomeOf[e]] = "succeeded"]_vars

\* "Any ambiguous apply or compensation freezes the entire set": a run starts no
\* further row while one of its rows is unresolved, whatever its failure policy.
AmbiguityFreezes ==
    [][\A a, e \in Actions :
         ( /\ \/ row[a] = "none" /\ row'[a] = "inflight"
             \/ \E x \in Runs : inv[x][a] = "none" /\ inv'[x][a] = "inflight"
           /\ HomeOf[e] = HomeOf[a] )
         => /\ row[e] # "uncertain" /\ row[e] # "cancelled"
            /\ \A x \in Runs : inv[x][e] # "uncertain"]_vars

\* Make before break: a destructive sibling is written only while every earlier
\* sibling is proved, and its replacement state is really in force.
MakeBeforeBreak ==
    \A a \in Destructive, e \in Actions :
        ( /\ eff[a] = "off" /\ eff'[a] # "off"
          /\ HomeOf[e] = HomeOf[a] /\ Rank[e] < Rank[a]
          /\ policy[HomeOf[a]] # "continue" )
        => row[e] \in Succeeded /\ (row[e] = "changed" => eff[e] = "on")

\* The reverse when a bundle is undone, by compensation or by any recovery: a
\* replacement is not withdrawn while a destructive change that relied on it is
\* or may be in force.
LastPathKept ==
    \A e \in Actions, a \in Destructive :
        ( /\ eff[e] = "on" /\ eff'[e] # "on" /\ task' # task
          /\ HomeOf[e] = HomeOf[a] /\ Rank[e] < Rank[a] )
        => eff[a] = "off"

\* Traffic keeps a path while a bundle is applied and while it is undone, by its
\* own compensation or by a recovery.
PathKept == [][MakeBeforeBreak /\ LastPathKept]_vars

\* An unsettled recovery attempt always holds the claim on its source, so no
\* second attempt runs against it and no older child can settle a newer claim.
ClaimExclusive ==
    \A c \in Children, s \in Bundles :
        settlement[c][s] \in {"active", "blocked"} => claim[s] = c

\* A closed verdict is true of the routers: nothing of a compensated or failed
\* bundle, and nothing a succeeded recovery set out to undo, is still in force.
VerdictIsTrue ==
    /\ \A a \in Actions : bstate[HomeOf[a]] \in {"compensated", "failed"} => eff[a] = "off"
    /\ \A c \in Children : bstate[c] = "succeeded" => \A a \in plan[c] : eff[a] = "off"

\* Startup is never wedged by a change window it does not expect.
StartupCompletes == ~up ~> up

\* A run ends whatever its siblings did.
RunsEnd == \A x \in Runs : (task[x].pc = "admitted") ~> (task[x].pc = "done")

\* "Once uncertainty is resolved, an operator can preview an exact recovery plan":
\* a closed bundle that owns changes, with no unresolved row and no recovery under
\* way, can be claimed by a recovery.
ResolvedIsRecoverable ==
    \A b \in Bundles :
        ( /\ up /\ bstate[b] \notin InFlight /\ Owned(b) # {}
          /\ \A a \in SiblingsOf(b) :
                /\ row[a] \notin {"inflight", "uncertain"}
                /\ \A x \in Runs : inv[x][a] \notin {"inflight", "uncertain"}
          /\ \A c \in Children : settlement[c][b] # "active" )
        => Claimable({b})

\* "retain bundle ownership until every original mutation is proved restored" -
\* and no longer: a closed bundle with nothing outstanding holds no device.
QuarantineReleased ==
    \A b \in Bundles :
        ( /\ up /\ bstate[b] \notin InFlight
          /\ \A a \in SiblingsOf(b) :
                row[a] \notin {"inflight", "uncertain"} /\ a \notin Owned(b)
          /\ \A c \in Children : settlement[c][b] # "active" )
        => \A d \in Devices : <<d, b>> \notin member /\ window[d] # b
=============================================================================
