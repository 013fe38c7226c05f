--------------------------- MODULE ManualMitigation ---------------------------
(***************************************************************************)
(* How an operator starts and reverts a run (api/manual_mitigations.rs,    *)
(* api/mitigation_presets.rs, the action endpoints of api/rules.rs, the    *)
(* revert endpoints of api/reroutes.rs and the timer of                    *)
(* reroute/recovery.rs).                                                   *)
(*                                                                         *)
(* A run comes from one definition: a saved preset, or the action set of a *)
(* rule.  It is admitted either directly ("Run now", published before any  *)
(* router is read) or by confirming a stored preview.  Its revert is a     *)
(* child that claims the run: requested directly, confirmed from a         *)
(* preview, or taken by the timer the run was given.                       *)
(*                                                                         *)
(* What the bundle does on the routers is module BundleRun's; here a run   *)
(* has an outcome.  Every admission is a transaction under the policy      *)
(* fence, hence one step; the fence is released, and the server task       *)
(* started, after it.  Clients repeat a request whose answer was lost.     *)
(***************************************************************************)
EXTENDS Naturals, Sequences, FiniteSets

CONSTANTS Requests,      \* client requests: each is repeated with its own id, or its own preview
          Direct,        \* those for "Run now"; the others preview first
          MaxRevision, MaxBundles, MaxFaults    \* bounds of the instance

ASSUME ManualAssumption == /\ Direct \subseteq Requests
                           /\ {MaxRevision, MaxBundles, MaxFaults} \subseteq Nat

VARIABLES def,       \* the definition: [kind, revision, content, open]
          ask,       \* request -> [pc, rev, content, plan]: a handler, or the preview it stored
          bundles,   \* sequence of runs and recovery children
          task,      \* bundle -> where its server task stands
          fence,     \* the bundle whose admission holds the policy fence, or 0
          armed,     \* Enforce with the automatic master switch on
          faults

vars == <<def, ask, bundles, task, fence, armed, faults>>

Idle == [pc |-> "idle", rev |-> 0, content |-> 0, plan |-> "none"]

Init == /\ \E k \in {"preset", "rule"} :
              def = [kind |-> k, revision |-> 1, content |-> 1, open |-> TRUE]
        /\ ask = [r \in Requests |-> Idle]
        /\ bundles = <<>> /\ task = <<>>
        /\ fence = 0 /\ armed = TRUE /\ faults = 0

Fault == faults < MaxFaults /\ faults' = faults + 1

Pending == {"planned", "running"}
Runs == {b \in DOMAIN bundles : bundles[b].parent = 0}

\* held: what the action rows say is on the routers; owns: remaining_mutations,
\* the column that refresh derives from them.
New(by, parent, path, rev, content) ==
    [by |-> by, parent |-> parent, path |-> path, rev |-> rev, content |-> content,
     state |-> "planned", held |-> "none", owns |-> FALSE, life |-> "inactive", claim |-> 0,
     timer |-> FALSE, cancelled |-> FALSE]

-----------------------------------------------------------------------------
(* Definitions *)

Active(b) == bundles[b].owns \/ bundles[b].state \in Pending \/ bundles[b].life # "inactive"

\* lock_action_edit: a rule's set is not edited under a run of it.
lock_action_edit == /\ fence = 0
                    /\ \A b \in Runs : ~Active(b) /\ bundles[b].state # "compensation_blocked"

Revised == /\ def.revision < MaxRevision
           /\ def' = [def EXCEPT !.revision = @ + 1, !.content = def.revision + 1]
           /\ UNCHANGED <<ask, bundles, task, fence, armed, faults>>

save == def.kind = "preset" /\ def.open /\ Revised

\* add_action, remove_action, reorder_actions and the full replacement alike
replace_actions == def.kind = "rule" /\ lock_action_edit /\ Revised

\* archive; for a rule, switching manual_apply_enabled off
Close == /\ def.open /\ def.revision < MaxRevision
         /\ def.kind = "rule" => fence = 0
         /\ def' = [def EXCEPT !.open = FALSE,
                               !.revision = IF def.kind = "preset" THEN @ + 1 ELSE @]
         /\ UNCHANGED <<ask, bundles, task, fence, armed, faults>>

-----------------------------------------------------------------------------
(* Requests: the revision and the actions are two reads *)

\* (with no room left for a bundle, nothing can come of a request)
ReadRevision(r) == /\ Len(bundles) < MaxBundles
                   /\ ask[r].pc = "idle" /\ ask[r].plan = "none" /\ def.open
                   /\ ask' = [ask EXCEPT ![r].pc = "read", ![r].rev = def.revision]
                   /\ UNCHANGED <<def, bundles, task, fence, armed, faults>>

LoadActions(r) == /\ ask[r].pc = "read"
                  /\ ask' = [ask EXCEPT ![r].pc = "loaded", ![r].content = def.content]
                  /\ UNCHANGED <<def, bundles, task, fence, armed, faults>>

\* Under the fence the routers are inspected and the plan is stored.
preview_actions(r) == /\ ask[r].pc = "loaded" /\ r \notin Direct /\ fence = 0
                      /\ ask' = [ask EXCEPT ![r].pc = "idle", ![r].plan = "fresh"]
                      /\ UNCHANGED <<def, bundles, task, fence, armed, faults>>

Expire(r) == /\ ask[r].plan = "fresh" /\ ask' = [ask EXCEPT ![r] = Idle]
             /\ UNCHANGED <<def, bundles, task, fence, armed, faults>>

\* Mutant: whatever is there now is what was reviewed.
Current_Open(rev) == def.open

Current(rev) == def.open /\ def.revision = rev

Duplicate(r) == \E b \in Runs : bundles[b].by = r

Push(b, step) == bundles' = Append(bundles, b) /\ task' = Append(task, step)
Room == Len(bundles) < MaxBundles /\ fence = 0

\* The answer names the run: the one there is, which nothing starts again, or
\* the one now published, under the fence until HandOver.
admit_direct_apply(r) ==
    /\ ask[r].pc = "loaded" /\ r \in Direct /\ fence = 0 /\ ask' = [ask EXCEPT ![r] = Idle]
    /\ \/ /\ Duplicate(r) \/ ~Current(ask[r].rev) \/ \E b \in Runs : Active(b)
          /\ UNCHANGED <<bundles, task, fence>>
       \/ /\ ~Duplicate(r) /\ Current(ask[r].rev) /\ \A b \in Runs : ~Active(b)
          /\ Room /\ Push(New(r, 0, "direct", ask[r].rev, ask[r].content), "published")
          /\ fence' = Len(bundles) + 1
    /\ UNCHANGED <<def, armed, faults>>

\* The confirmation of a preview: no look at other runs of the definition.
\* Consumed, it answers with its bundle.
accept_plan(r) ==
    /\ ask[r].plan = "fresh" /\ Room /\ Current(ask[r].rev)
    /\ Push(New(r, 0, "plan", ask[r].rev, ask[r].content), "accepted")
    /\ fence' = Len(bundles) + 1
    /\ ask' = [ask EXCEPT ![r] = [Idle EXCEPT !.plan = "consumed"]]
    /\ UNCHANGED <<def, armed, faults>>

-----------------------------------------------------------------------------
(* Reverts *)

Settled(s) == bundles[s].state \notin Pending
Unclaimed(s) == bundles[s].claim = 0
Owned(s) == Settled(s) /\ bundles[s].held = "changed"

\* Mutant: the claim is not compared.
claim_sources_for_child_on_Any(s) == Owned(s)

claim_sources_for_child_on(s) == Owned(s) /\ Unclaimed(s)

Claimed(s, child) ==
    /\ bundles' = Append([bundles EXCEPT ![s].claim = Len(bundles) + 1, ![s].life = "claimed"], child)

admit_direct_recovery(s) ==
    /\ Room /\ s \in Runs /\ claim_sources_for_child_on(s)
    /\ Claimed(s, New("operator", s, "direct", 0, 0)) /\ task' = Append(task, "published")
    /\ fence' = Len(bundles) + 1
    /\ UNCHANGED <<def, ask, armed, faults>>

\* The confirmation of a revert preview finds the ownership it was made for
\* unchanged, or is refused; consumed, it answers with its child ever after.
accept_revert(s) ==
    /\ Room /\ s \in Runs /\ claim_sources_for_child_on(s)
    /\ Claimed(s, New("operator", s, "plan", 0, 0)) /\ task' = Append(task, "accepted")
    /\ fence' = Len(bundles) + 1
    /\ UNCHANGED <<def, ask, armed, faults>>

\* Time is not modelled: a deadline that is set may have come.
Due(s) == /\ bundles[s].timer /\ bundles[s].life = "scheduled"
          /\ Unclaimed(s) /\ ~bundles[s].cancelled

admit_one_due ==
    /\ armed /\ Room
    /\ \E s \in Runs : /\ Due(s) /\ claim_sources_for_child_on(s)
                       /\ Claimed(s, New("timer", s, "direct", 0, 0))
    /\ task' = Append(task, "published") /\ fence' = Len(bundles) + 1
    /\ UNCHANGED <<def, ask, armed, faults>>

bundle_take_control(s) ==
    /\ bundles[s].life \in {"active", "scheduled"} /\ Unclaimed(s) /\ bundles[s].timer
    /\ bundles' = [bundles EXCEPT ![s].cancelled = TRUE, ![s].timer = FALSE,
                                  ![s].life = IF bundles[s].owns THEN "active" ELSE "inactive"]
    /\ UNCHANGED <<def, ask, task, fence, armed, faults>>

SetArmed == /\ Fault /\ fence = 0 /\ armed' = ~armed
            /\ UNCHANGED <<def, ask, bundles, task, fence>>

-----------------------------------------------------------------------------
(* The terminal transactions *)

Final(outcome) == CASE outcome \in {"changed", "noop"} -> "succeeded"
                    [] outcome = "failed" -> "failed"
                    [] OTHER -> "compensation_blocked"

\* finish_and_release of a run: its rows are settled, its columns not yet.
RunEnds(b, outcome) ==
    [bundles[b] EXCEPT !.state = Final(outcome),
                       !.held = CASE outcome \in {"changed", "partial"} -> "changed"
                                  [] outcome = "unknown" -> "unknown"
                                  [] OTHER -> "none"]

\* finalize_recovery_child for the source: restored, known_no_write or blocked.
SourceEnds(s, outcome) ==
    CASE outcome = "changed" ->
           [bundles[s] EXCEPT !.state = IF @ = "compensation_blocked" THEN "compensated" ELSE @,
                              !.held = "none", !.owns = FALSE, !.life = "inactive",
                              !.claim = 0, !.timer = FALSE]
      [] outcome = "failed" ->
           [bundles[s] EXCEPT !.life = IF bundles[s].owns THEN "active" ELSE "inactive",
                              !.claim = 0, !.timer = FALSE]
      [] OTHER -> [bundles[s] EXCEPT !.life = "blocked"]

\* Every bundle of DOMAIN o ends with its outcome.
Ended(o) ==
    [b \in DOMAIN bundles |->
        IF b \in DOMAIN o
        THEN IF bundles[b].parent = 0 THEN RunEnds(b, o[b])
             ELSE [bundles[b] EXCEPT !.state = Final(o[b])]
        ELSE IF \E c \in DOMAIN o : bundles[c].parent = b
             THEN SourceEnds(b, o[CHOOSE c \in DOMAIN o : bundles[c].parent = b])
             ELSE bundles[b]]

Failed(b) == Ended([c \in {b} |-> "failed"])

\* What an interrupted bundle may have left: nothing once it is only planned.
Interrupted(b) == IF bundles[b].state = "planned" THEN {"failed"}
                  ELSE IF bundles[b].parent = 0 THEN {"failed", "partial", "unknown"}
                  ELSE {"failed", "changed", "unknown"}

-----------------------------------------------------------------------------
(* Server tasks *)

At(b, step) == b \in DOMAIN task /\ task[b] = step
Ends(b) == task' = [task EXCEPT ![b] = "none"]
Goes(b, step) == task' = [task EXCEPT ![b] = step]

\* A direct admission has committed: the fence is released, then the caller
\* starts the supervised task, or hands the child to the recovery workers.
HandOver(b) == /\ At(b, "published") /\ Goes(b, "spawned") /\ fence' = 0
               /\ UNCHANGED <<def, ask, bundles, armed, faults>>

\* The release fails, the commit is never confirmed, or the handler is dropped
\* before it starts the task: the run is published, nobody works on it, and a
\* request that is repeated is answered with it.
HandOverLost(b) == /\ Fault /\ At(b, "published") /\ Goes(b, "abandoned") /\ fence' = 0
                   /\ UNCHANGED <<def, ask, bundles, armed>>

\* The rest of accept_plan: the action ledger and admit_bundle, then the task.
Materialize(b) == /\ At(b, "accepted") /\ Goes(b, "ready") /\ fence' = 0
                  /\ UNCHANGED <<def, ask, bundles, armed, faults>>

AdmissionRefused(b) == /\ At(b, "accepted") /\ bundles' = Failed(b) /\ Ends(b) /\ fence' = 0
                       /\ UNCHANGED <<def, ask, armed, faults>>

\* The refusal itself is not stored: the bundle waits for the next start.
RefusalLost(b) == /\ Fault /\ At(b, "accepted") /\ Ends(b) /\ fence' = 0
                  /\ UNCHANGED <<def, ask, bundles, armed>>

\* The compare-and-set of preparation_phase from published to preparing (the
\* task's step stands for the phase), then the routers are read.
Prepare(b) == /\ At(b, "spawned") /\ bundles[b].state = "planned" /\ Goes(b, "preparing")
              /\ UNCHANGED <<def, ask, bundles, fence, armed, faults>>

\* What the worker asks again under the fence once the routers are read.
Authority(b) == CASE bundles[b].parent = 0 -> Current(bundles[b].rev)
                  [] bundles[b].by = "timer" -> armed
                  [] OTHER -> bundles[bundles[b].parent].claim = b

Recheck(b) == /\ At(b, "preparing") /\ fence = 0 /\ Authority(b) /\ Goes(b, "ready")
              /\ UNCHANGED <<def, ask, bundles, fence, armed, faults>>

\* A router that cannot be read, authority that is gone, a refused admission;
\* or the recovery workers take no more children.
PreparationFails(b) == /\ \/ At(b, "preparing") \/ At(b, "ready")
                          \/ At(b, "spawned") /\ bundles[b].by = "timer"
                       /\ bundles[b].state = "planned"
                       /\ bundles' = Failed(b) /\ Ends(b)
                       /\ UNCHANGED <<def, ask, fence, armed, faults>>

\* A child waits for nothing: while the run's own task still holds the
\* routers' configuration locks, it is refused (PreparationFails).
StartRun(b) == /\ At(b, "ready") /\ bundles[b].state = "planned"
               /\ bundles[b].parent # 0 => task[bundles[b].parent] = "none"
               /\ bundles' = [bundles EXCEPT ![b].state = "running"] /\ Goes(b, "running")
               /\ UNCHANGED <<def, ask, fence, armed, faults>>

RunDone(b) == /\ At(b, "running")
              /\ \E o \in {"changed", "noop", "failed", "partial", "unknown"} :
                    /\ bundles[b].parent # 0 => o \in {"changed", "failed", "unknown"}
                    /\ bundles' = Ended([c \in {b} |-> o])
              /\ Goes(b, IF bundles[b].parent = 0 THEN "refresh" ELSE "none")
              /\ UNCHANGED <<def, ask, fence, armed, faults>>

\* recovery::refresh: remaining_mutations and the lifecycle, from the rows.
Refreshed(b) ==
    [bundles[b] EXCEPT !.owns = bundles[b].held # "none",
                       !.life = IF @ \in {"scheduled", "claimed"} THEN @
                                ELSE [none |-> "inactive", changed |-> "active",
                                      unknown |-> "blocked"][bundles[b].held]]

Refresh(b) == /\ At(b, "refresh")
              /\ bundles' = [bundles EXCEPT ![b] = Refreshed(b)]
              /\ Goes(b, IF bundles[b].state = "succeeded" THEN "schedule" ELSE "none")
              /\ UNCHANGED <<def, ask, fence, armed, faults>>

\* schedule_if_eligible, a statement of its own after the terminal one: it
\* looks at no claim.  A rule's run has no revert_after_seconds.
Schedule(b) ==
    /\ At(b, "schedule") /\ Ends(b)
    /\ LET r == Refreshed(b)
       IN bundles' = [bundles EXCEPT ![b] =
              IF def.kind = "preset" /\ r.owns /\ ~r.timer /\ ~r.cancelled
              THEN [r EXCEPT !.timer = TRUE, !.life = "scheduled"] ELSE r]
    /\ UNCHANGED <<def, ask, fence, armed, faults>>

\* The error is logged; nothing tries again.
ScheduleLost(b) == /\ Fault /\ Ends(b)
                   /\ At(b, "refresh") \/ At(b, "schedule")
                   /\ UNCHANGED <<def, ask, bundles, fence, armed>>

\* Mutant: no task has a supervisor.
Supervised_None(b) == FALSE

\* Direct runs and recovery workers have one; the task of a confirmed preview has not.
Supervised(b) == bundles[b].path = "direct"

\* A panic, or a direct worker that returns an error.
Panic(b) == /\ Fault /\ \E step \in {"spawned", "preparing", "ready", "running"} : At(b, step)
            /\ Goes(b, IF Supervised(b) THEN "settling" ELSE "none")
            /\ UNCHANGED <<def, ask, bundles, fence, armed>>

\* The terminal transaction of a started run, or the timer worker's report of
\* an early failure, fails; its error is dropped and the task returns.
TerminalLost(b) == /\ Fault /\ bundles[b].path = "direct" /\ Goes(b, "abandoned")
                   /\ \/ At(b, "running")
                      \/ /\ bundles[b].by = "timer"
                         /\ \E step \in {"spawned", "preparing", "ready"} : At(b, step)
                   /\ UNCHANGED <<def, ask, bundles, fence, armed>>

\* settle_supervised_manual_failure.  A run that was started is quarantined
\* whatever it did.
SettlePanicked(b) ==
    /\ At(b, "settling") /\ Ends(b)
    /\ \E o \in Interrupted(b) :
          bundles' = IF bundles[b].parent = 0 /\ bundles[b].state = "running"
                     THEN [bundles EXCEPT ![b] = [RunEnds(b, o) EXCEPT !.state = "compensation_blocked",
                                                                      !.life = "blocked"]]
                     ELSE Ended([c \in {b} |-> o])
    /\ UNCHANGED <<def, ask, fence, armed, faults>>

\* Four attempts for a direct task, one for the timer's: then it is an alert.
SettlementGivesUp(b) == /\ At(b, "settling") /\ Goes(b, "abandoned")
                        /\ UNCHANGED <<def, ask, bundles, fence, armed, faults>>

-----------------------------------------------------------------------------
(* bundle::recover_on_startup: recovery children, then runs *)

Unfinished == {b \in DOMAIN bundles : bundles[b].state \in Pending}

Restart ==
    /\ Fault /\ fence' = 0
    /\ task' = [b \in DOMAIN task |-> "none"]
    /\ ask' = [r \in Requests |-> IF ask[r].plan = "none" THEN Idle ELSE ask[r]]
    /\ \E o \in [Unfinished -> {"changed", "failed", "partial", "unknown"}] :
          /\ \A b \in Unfinished : o[b] \in Interrupted(b)
          /\ bundles' = Ended(o)
    /\ UNCHANGED <<def, armed>>

-----------------------------------------------------------------------------
Task(b) == \/ HandOver(b) \/ Materialize(b) \/ AdmissionRefused(b) \/ Prepare(b) \/ Recheck(b) \/ PreparationFails(b)
           \/ StartRun(b) \/ RunDone(b) \/ Refresh(b) \/ Schedule(b)
           \/ SettlePanicked(b) \/ SettlementGivesUp(b)

Next == \/ save \/ replace_actions \/ Close \/ SetArmed \/ Restart \/ admit_one_due
        \/ \E r \in Requests : \/ ReadRevision(r) \/ LoadActions(r) \/ preview_actions(r) \/ Expire(r)
                               \/ admit_direct_apply(r) \/ accept_plan(r)
        \/ \E b \in DOMAIN bundles :
              \/ admit_direct_recovery(b) \/ accept_revert(b)
              \/ bundle_take_control(b) \/ Task(b)
              \/ HandOverLost(b) \/ RefusalLost(b) \/ ScheduleLost(b)
              \/ Panic(b) \/ TerminalLost(b)

Spec == Init /\ [][Next]_vars

-----------------------------------------------------------------------------
(* Properties *)

\* A request that the client repeats (a direct id, or the confirmation of one
\* preview) starts one run, and a run is reverted by one child at a time and
\* once: "Reloading or reconnecting ... never starts a second revert".
NothingTwice ==
    /\ \A b, c \in Runs : bundles[b].by = bundles[c].by => b = c
    /\ \A s \in Runs : Cardinality({c \in DOMAIN bundles : /\ bundles[c].parent = s
                                                        /\ bundles[c].state # "failed"}) <= 1

\* A run carries the actions of the revision it names, although the two are
\* read separately and the definition may be edited in between; and while a
\* run of a rule is unfinished, the rule's action set does not move.
RunIsItsDefinition ==
    \A b \in Runs : /\ bundles[b].content = bundles[b].rev
                    /\ def.kind = "rule" /\ bundles[b].state \in Pending => bundles[b].rev = def.revision

\* A direct run, a direct revert or the timer's revert is unfinished with
\* nobody working on it only if its start, its terminal transaction or its
\* settlement was lost, never by a panic alone; and until the next start ends
\* it nobody takes its place: its source stays claimed by it, and no other
\* direct run of the definition is published.
DirectRunsAttended ==
    \A b \in Unfinished : bundles[b].path = "direct" /\ task[b] \in {"none", "abandoned"} =>
        /\ task[b] = "abandoned"
        /\ bundles[b].parent # 0 => bundles[bundles[b].parent].claim = b
        /\ bundles[b].parent = 0 => \A c \in Runs : c > b => bundles[c].path = "plan"

\* "Start the already-published recovery in a server-owned supervised task.
\* Losing the API connection cannot cancel this work; a panic or preparation
\* failure settles the durable child".  Checked in ManualAbandoned.cfg.
DirectRunsNeverAbandoned ==
    \A b \in Unfinished : bundles[b].path = "direct" => task[b] \notin {"none", "abandoned"}
=============================================================================
