# A TLA+ verification of the rerouter controller

The rerouter controller watches routers (SNMP, flow export), decides that traffic
should be moved, and changes router configuration over SSH. What can go wrong is
not one wrong command but a wrong *sequence*: two actions on one router, a crash
between a write and its record, a change nobody owns any more, an undo that takes
the last path away. This directory models the part of the controller that decides
those sequences, and the parts that feed it or report on it (detection, flow
collection, alerts, operators' requests, accounts), checks them with TLC and proves
most of the safety properties with TLAPS.

## 1. Inventory

Paths are relative to `src/backend-rust/src`.

| Part | State it keeps | Operations | Interacts with |
|---|---|---|---|
| Executor (`reroute/executor.rs`, `rollback.rs`) | `reroutes` row: state, mutation effect, before/after snapshot; task memory; policy fence | authorize, reserve, planned → pending → running → verifying → terminal, abort, cancel | guard, device plan, SSH, bundle runner |
| Guard (`reroute/guard.rs`) | rate reservations, advisory locks | gates, slot reservation, bundle admission | executor, bundles, settings |
| State machine (`reroute/state_machine.rs`) | rows, device locks | startup recovery, read-only reconciliation | bundles, recovery children |
| Bundles (`reroute/bundle.rs`) | `reroute_bundles`, ledger slots, change windows | create, run siblings in order, failure policy, compensate, close, startup repair | executor, locks, recovery |
| Recovery (`reroute/recovery.rs`, `locks.rs`) | claims, settlements, window memberships | prove a source, claim it, take its windows, settle it | bundles, state machine |
| Device plan, preparation and SSH (`reroute/device_plan.rs`, `preparation.rs`, `prefix_list.rs`, `ssh/mod.rs`) | prepared actions, native configuration locks, transport identities | prepare, lock, compare, apply, verify, undo | executor, bundles, manual mitigations |
| Settings and locks API (`api/settings.rs`, `api/locks.rs`) | mode, switches, maintenance lock | change a setting under the policy fence | guard, executor |
| Advisory locks (`db/advisory.rs`) | server sessions | acquire, release, drop | everything above |
| Manual mitigations (`api/manual_mitigations.rs`, `api/mitigation_presets.rs`) | previews, definitions and their revisions, run timers | preview, accept, run now, revert, take control, save, archive | bundles, recovery, rules |
| Detection (`detection/engine.rs`, `condition.rs`, `api/rules.rs`) | rule rows and states, streaks, worker queue | evaluate, fire, clear, recover, edit, switch | bundles, recovery, telemetry |
| Flow collector (`telemetry/flow/*`) and wake queue (`detection/wake.rs`) | exporters, open buckets, published rows, contributor registry, barrier, dirty interfaces | receive, snapshot, register, write, put back, mark, evaluate | detection |
| Alerts (`alerts/*`, `api/notifications.rs`) | alert rows, delivery intents, claims, attempts, targets | materialise, claim, send, record, retry, settle, escalate | every transaction above writes an alert |
| Scheduler, SNMP (`scheduler.rs`, `telemetry/snmp.rs`) | deadlines, counters | poll, discover, retention, wake loop | detection, telemetry |
| Accounts (`auth/*`, `api/users.rs`) | account and session rows, failure counts, used steps and codes, roles | login, second factor, step-up, reset, role change, deletion | API |
| Text (`reroute/templates.rs`, `policy.rs`, ...) | none | render and parse IOS text | device plan |
| Frontend, installer, mailer, webhook | none of its own | presentation and I/O | API |

The hard behaviours are the interleaving of requests for one router, failures of
the database between two steps that belong together, lost replies, process death
at any point, router sessions that die with the outcome unknown, manual changes on
a router, and everything that has to be released again afterwards. `PROJECT.json`
lists them as hazards, each at its line.

Correctness, per part: the executor must never claim what it did not prove nor
disown what it may have done; the guard must keep one action per router and the
budget; a bundle must own every change it made until somebody undid it, freeze on
ambiguity and never remove a path before its replacement works; recovery must have
one attempt per source and true verdicts; startup must always finish; settings
changes must bind actions admitted before them. A device plan must replace only what
the operator saw and know truly whether it changed anything. A rule must fire on
evidence it had, write with the authority it still has and remember what it owns; the
collector must not call a bucket complete that is not, and whatever it published must
be evaluated; the dispatcher must settle every alert and truly; a request must start
one run, of the definition it was made for; a code opens one session and somebody can
always administer the installation.

## 2. Modules

`RerouteLifecycle.tla` - one action on one router. State: the stored row (`state`,
`effect`, `before`, `after`), the uncleared automatic locks, what the router really
holds (`dev`), the task (`pc`, what the push `outcome` was, whether it could be
recorded), the policy fence, armed/maintenance, the process being up, an operator's
reconciliation between its read and its commit. One action per await-separated step
of `execute_with_inner`, `reserve_and_persist` and `run_state_machine`; `Cancel`,
`ReconcileRead`/`ReconcileCommit`, `SetArmed` and `SetMaintenance` are the API
handlers, `RecoverRow`/`Start` the startup. A database error may hit any statement,
with the statement applied or not; a router write may be refused, satisfied,
applied, unreadable or ambiguous. A router is reduced to the value of the one
resource the actions on it contend for, which is all that the exact before/after
comparison of `device_plan.rs` distinguishes.

`BundleRun.tla` - bundles and recovery children over several routers. An execution
of an action is RerouteLifecycle seen from outside: `Execute` reserves the row and
writes the router, `Report`, `ReportLost`, `ReportUnlinked` and `Blocked` are the
ways its outcome reaches the runner. State: bundle rows, original and inverse
reroutes, ledger slots, change windows and memberships, claims, settlements, and
what is really in force (`eff`). `FinalizeChild` is `finalize_recovery_child`,
called by a run's end, by startup and by reconciliation. All three failure policies
of `FailurePolicy` are checked, although the callers in the repository only create
bundles with abort-and-compensate.

`RateGuard.tla` - the action rate limit: `admit_bundle`, the rate section of
`reserve_and_persist_inner`, the spending in `insert_reroute`, the return of unspent
reservations, for the routing budget and for the per-router budgets of
configuration-only bundles. Time is a counter; rows and bundles carry creation times.
A bundle's ledger exists from its creation (in the automatic path it is written just
before admission): the per-router count then sees a bundle earlier than the code
does, never later. The locks of several routers are taken in one step; the code
takes them in the order of the device ids.

`PrefixList.tla` - `plan_add`, `plan_remove`, `midpoint` and first match, over sets of
entries with addresses of `Width` bits. A refusal of the parser is a refusal here.

`DevicePlan.tla` - immutable plans and the sessions that run them, over the whole
catalogue of actions. A router is a record of the fields the catalogue writes plus an
operational state that follows the configuration after a while and may flap; a
snapshot is a function from the keys it covers to values. Preparation reads each
router through ordinary sessions and projects earlier siblings; `acquire` opens the
sessions and takes the native locks; `Preflight` compares the projected sequence;
commands are accepted, rejected or unanswered one at a time; then verification, the
re-proof of what a destructive action relies on, compensation and a later rollback.
Other operators edit routers that are not locked, device rows change address, sessions
die. `seen`, `found` and `start` are history, read by the properties only. `V6` says
whether the static routes of an instance are IPv6: those are read by prefix under the lock,
IPv4 ones by their exact line only, so that another line of the prefix reads as absent.

`DetectionRule.tla` - one rule, its evaluator, the decisions it publishes (activations
and recovery children), the bounded queue and its workers, and the operators who edit,
switch, disarm and clear meanwhile. A router action is its durable effect: what
happens inside one is the business of the modules above. An edit replaces the condition
(`Conditions`): mode, thresholds, duration, samples; a new metric, operator or selector
is a new threshold. It holds the policy fence but not the observation lock, so an
evaluation goes on with the row it loaded before (`ev.rule`) and writes its result over
the state the edit reset. `streak` is history: each round with its value, the threshold
and revision of the row it was compared with, and whether an edit had overtaken it when
it was written. A worker's settlement is one transaction that may fail
(`SettlementLost`, `SettlePanicked`): then it has not happened.

`FlowWake.tla` - the wake queue and the loop that drains it; `OwedEvaluation.tla` - what
it promises, without a queue. `FlowWindow.tla` extends FlowWake with the collector:
the datagrams are real ones (sequence number, uptime, generation, interface) and a
bucket is the set of datagrams it holds, so "complete" has a meaning the counters of
the code do not carry. Arithmetic wraps at `SeqMod` and `UptimeMod`. The collector sees
only numbers and uptimes, so `DatagramAssumption` says what an exporter may send: the
datagram it would take for the next one (`Follows`) is the next one of its generation, or
one of a generation whose uptimes do not overlap. That rules out a loss of exactly 2^32
datagrams and a restart whose numbers and uptimes mesh with those before it; any other
loss, repeat, reordering, wrap and restart is allowed. Only the interface
dimension is kept; the others are accumulated and marked the same way. `owner` is the
device an exporter's row names, written by the registration of its contributors and by
the upsert each pass begins with (`UpsertExporter`). A put-back may reach an exporter that
came back for another device; `adopted` remembers which buckets that happened to.

`AlertOutbox.tla` - the outbox. Time is what it decides: a backoff or a lease has run
out, a recorded delivery is still inside the deduplication window or the hour.

`ManualMitigation.tla` - how an operator starts and reverts a run: the two ways of
admission, the three ways of a revert (direct, preview, timer), the server task that
drives a run, its supervisor, and a definition that changes. Every admission is one
transaction under the policy fence and therefore one step. What follows the commit is
not: the release of the fence and the start of the task (`HandOver`) are a step of
their own that may never come (`HandOverLost`), because the release fails, the commit is
not confirmed or the handler is dropped, and a repeated request finds the run and starts
nothing. A terminal transaction may fail (`TerminalLost`) and the settlement of a panic
may give up (`SettlementGivesUp`). A run left in one of these ways is `abandoned`.

`LoginSession.tla`, `UserAdmin.tla` - sign-in of one account, statement by statement,
and role changes and deletions of accounts. `MCAccounts` explores them in one run,
each with the other at rest: they share no state.

How they compose: BundleRun's `Execute` is RerouteLifecycle seen from outside, and a
decision of DetectionRule or a run of ManualMitigation is a bundle of BundleRun seen
from outside (claims, settlement and ownership keep their names). DevicePlan refines
the push of RerouteLifecycle (refused, satisfied, applied, unread, ambiguous) to single
commands. FlowWindow contains FlowWake, and FlowWake implements OwedEvaluation.

`MC*.tla` give the constants their values. The `*_proofs.tla` hold the theorems
(section 4), each about the module it extends; `Authority_proofs` is about RerouteLifecycle,
LoginSession and UserAdmin, `FlowWindow_proofs` also about FlowWake, `DevicePlan_proofs` also
about PrefixList. Definitions introduced by a comment "Mutant:" are deliberately wrong
variants of the definition after them, used to show that the properties can fail.

## 3. Runs

| Run | What it shows | Bounds |
|---|---|---|
| `RerouteLifecycle` | one writer per router, uncertain rows locked, one effective inverse, success only when proved, writes never disowned | two actions, two rival inverses of one of them, one router, two values; one crash, one database error, one manual change, one lost session |
| `ReroutePolicy` | one open row per router, no command after a completed disarm or maintenance lock, orphans recovered, tasks end | three requests, two policy changes, one crash, one database error, sessions alive |
| `BundleRun` | ownership, quarantine, exclusive claims, true verdicts, freeze on ambiguity, a path kept on the way in and out | two bundles sharing a router, two recovery attempts, any two faults of eight kinds, all policies |
| `BundleLive` | startup completes, runs end | two bundles, one recovery, any two of four kinds of fault |
| `BundleCrashRecoverable` | violation, finding 2 | one crash |
| `RateGuard` | limit respected, admitted bundles covered | two routing bundles (two actions and one), a standalone request, budget 2; two bundles on one router, budget 1; one restart; window of two ticks, no bundle outlives it |
| `DevicePlan` | an added entry is reached, a write replaces only what was previewed, no-effect is true of the router, undo restores | seven plans of two or three actions that cover the catalogue, two devices and three endpoints, lists with room, without room and with a shadowing deny; IPv6 static routes (the theorems also cover IPv4); one foreign edit, one fault |
| `DetectionRule` | fires on an unbroken streak of matching rounds, writes under authority, keeps what it owns, a failed decision owns nothing | an alert-only sum of two SNMP members with hysteresis and an automatic flow rule with a time window; clock 0..4, two decisions, two workers, queue of one, one edit (to one of two other conditions, a disabled rule or a switch), one fault or crash |
| `FlowWindow` | complete buckets are whole, evidence covers its cohort, no mark is lost, the queue implements its promise | two exporters of one device, two interfaces, a restart and a wrap of the sequence; two arrivals, five seconds in buckets of two, one open bucket, one interface key, one dirty interface, one fault |
| `AlertOutbox` | settled truly, no resend once recorded, every alert settles | a rule alert raised twice, a recipient and a webhook, two attempts, a rate limit of one, one slot per class, two faults or edits |
| `ManualMitigation` | nothing started twice, a run is its definition, direct runs are unattended only if their start, end or settlement was lost, and then nothing takes their place | one direct and one previewed request, a preset or a rule with two revisions, three bundles, one fault or restart |
| `Accounts` | a code opens one session and sessions in use date from after the last reset; a superadmin is kept | two concurrent clients, two steps, two sessions, one reset, one failing statement, lock after two failures; three accounts, two requests |

Further configurations show the other findings; each violates the one property it
lists: `ReroutePolicyFenceLost`, `BundleBlockedRecoverable`, `BundleRetryRecoverable`,
`BundleCrashReleased`, `BundleCompensationReleased`, `RateGuardLongRun`,
`DetectionOwnership`, `DetectionEdit`, `DevicePlanQuiet`, `DevicePlanStatic`, `FlowMoved`
and `ManualAbandoned` (for example
`tlc -config DetectionOwnership.cfg MCDetectionRule`).

Why the bounds are enough: every guard of the lifecycle compares a request with one
other row of the same router or of the same original, so three requests already give
every pair with a witness; four give two pairs. Two values distinguish before from
after; a third would only add conflicts, which two values produce through drift. The
bundle with a constructive action on one router and a destructive one on another is
the smallest with an order to violate, and the second bundle the smallest that can
be shut out. Two faults let one hit the repair of the other. For the properties proved in
section 4 the bounds do not matter.

In DevicePlan two actions give one that projects onto the other, and two routers one
that is locked while the other is not. In DetectionRule two decisions are an
activation with its recovery, or two activations around a clear; five instants hold a
streak, a gap and a stale sample. The limits of the collector, of the wake queue and of
the dispatcher are set to one so that overflow is the normal case. Three bundles are
two runs and the revert of one, or a run with two rival reverts.

Deadlock checking is off: the system may come to rest (all requests decided, all
budgets spent).

Fairness is assumed only where the code provides it: a started task or bundle run
goes on, because it awaits only calls with timeouts; a stopped controller is started
again (`Restart=always` in `deploy/systemd/rerouter-controller.service`) and performs
its recovery steps. No fairness is assumed of operators, reconciliation, recovery
requests or the environment. The wake loop is restarted by `spawn_supervised`, so
taking a batch is weakly fair; its success is strongly fair: an evaluation that is tried
again and again does not fail every time. The dispatcher's loop is weakly fair
(`alerts::spawn_dispatcher` starts it again); leases and backoffs run out and recorded
deliveries grow old because the clock goes on. Nothing is assumed of the mail server:
with it refusing for ever an alert settles as a permanent failure.

## 4. Proofs

Every theorem holds for any sets of requests, bundles, routers, targets, clients and so
on and for any bounds on the environment; the assumptions are those the modules state
about their constants, and where a theorem needs more it says so as a hypothesis. No
property below is inductive as it stands: each proof module begins with the invariant
that is, and has one lemma or step per action.

**The lifecycle of an action** (`Authority_proofs`), from `RerouteAssumption` (an
inverse acts on its original's router and is not itself inverted) and `BoundAssumption`:

* `OneWriter`, `UncertainLocked`, `Inverted`, `SuccessProved`, `WriteOwned`: the
  properties of the run `RerouteLifecycle`, and `TypeCorrect`;
* `OneOpenAction` and `PolicyObeyed`: two safety properties of `ReroutePolicy`, under
  `MaxFenceLosses = 0`. The hypothesis is needed: `ReroutePolicyFenceLost.cfg`
  refutes the second without it.

`IInv` adds what each step relies on:

* `PcMatchesRow`: where a task is decides which states its row can have (the
  compare-and-set transitions; a cancellation is the only foreign change);
* `DownIsIdle`, `OutcomeSet`, `WroteIsPastPush`, `ChangedIsSucceeded`: the task and
  the stored effect agree about what was sent;
* `OkIsApplied`: a verified value is still there, because the native lock is held
  until the terminal transaction - this carries `SuccessProved`;
* `ActiveIsAlone` and `InverseIsAlone`: an action that may still write is alone on
  its router and among the inverses of its original, and a second inverse is not
  started once one took effect;
* `CheckedIsFree`: what the slot check saw holds as long as the session that made it
  lives. It is what makes `Reserve` preserve the previous two even though the session
  may die at any time: a reservation whose session died cannot continue
  (`ReserveOrphaned`).

`FencedInv` adds that with live sessions a task that is not over holds the policy
fence (`TaskHoldsFence`), so nothing it read under the fence changes (`PolicyFrozen`,
`SlotFrozen`).

**Bundles and recovery** (`BundleRun_proofs`), from `BundleAssumption` (the actions are
finitely many and ranked without ties, a bundle has at least one: `persist_actions`
refuses an empty one). The four invariants of the run `BundleRun` - `ChangesStayOwned`,
`QuarantineOutlivesRuns`, `ClaimsExclude`, `VerdictsAreTrue` - and its three action
properties - `ForeignWritesExcluded`, `AmbiguityStops`, `PathsKept` - for all three
failure policies and any number of crashes, lost replies and manual changes. `BundleInv`
has three parts:

* rows (`RowInv`): a change in force has a row that knows of it; an action without a row
  was neither applied nor undone; at most one change of a bundle is unaccounted for;
* runners (`RunInv`): what a runner remembers fits its rows. While a bundle is applied
  (`Forwards`) the siblings to come are untouched and, unless an outcome was ambiguous,
  what is in force is exactly what the runner counts as good; while it is undone
  (`Undos`) what is still in force is still to be undone. Open rows keep runs apart on a
  router (`Alone`), and a bundle being applied shares its routers only with activations
  that succeeded (`Apart`);
* owners (`OwnerInv`): a claimed source has ended and is resolved, and its claim's
  settlement is true of the rows (`Sources`); what is owned keeps its router's membership
  (`RowsHeld`), from which `QuarantineHeld` follows; a recovery adds memberships only for
  activations that had given theirs back (`CreatedForSucceeded`), so that its end cannot
  release somebody else's.

**The rate limit** (`RateGuard_proofs`): `LimitHolds` and `AdmissionCovers`, under
`BundlesFit` - no bundle runs longer than the window it draws from. The code does not
guarantee that (finding 7), and without it `RateGuardLongRun.cfg` refutes the limit. The
invariant says that a check made under the locks still holds when its reservation or
row is stored (`CheckedFits`, `PassedFits`), because the rows and admitted siblings that
weigh on a scope only grow under that scope's lock and otherwise age out; `OnePassed`
and `UnadmittedIsNew` make a sibling spend its bundle's reservation once.

**The wake queue** (`FlowWindow_proofs`): `MarksKept` (`NoMarkLost`) and
`PromiseImplemented`, the safety half of the refinement of `OwedEvaluation`: every step
of the collector or the loop is a mark, an evaluation or a stutter of the promise.
`WakeInv` adds `ReadingIsCurrent`: an evaluation under way is not ahead of the marks,
and every mark it began too early to see has been queued again.

**Flow evidence** (`FlowWindow_proofs`): `EvidenceWhole` (`EvidenceIsCohort`), for any
exporters, devices, datagrams, capacities and faults, from the constants' assumptions of
the model alone. A bucket accepted as evidence lacks nothing an exporter still holds for
that device, unless the exporter's bucket is a `Stray`: reopened behind its snapshot, or put
back under another device (finding 10). `CohortInv` follows the datagrams that may not
be stored yet: those in the pass (`PassSafe`) and those in memory although their window
ended before the last snapshot, put back by a failure (`ParkedSafe`). For both it is `Safe`
to judge their bucket:

* `Secured`: the exporter's row names the device, each interface they touch is a contributor
  from that bucket or earlier, and a verdict that says complete has them in its row; or
* `Untouched`: no exporter has a verdict for the bucket at all, and none can come before
  this exporter is registered, because every write of a pass waits for the barrier.

`VerdictsClosed` - a verdict is about a bucket that ended before the last snapshot - keeps
buckets that are still open out of the argument.

The registration keeps the earliest bucket of each contributor; that a set of buckets has
an earliest one is the well-foundedness of the natural numbers (`EarliestIs`).

**Complete buckets** (`FlowWindow_proofs`): `PublishedComplete` (`CompleteIsWhole`), from
`DatagramAssumption`, for any exporters, moduli, capacities and faults. `WholeInv`, on top
of `CohortInv`, follows a bucket from its first datagram to its rows:

* the bucket of the exporter's last datagram (`CurrentWhole`), as long as no snapshot may
  have taken it: if it is complete it holds what arrived, without a gap, and the last
  datagram ends it (`Chain`), so one that advances the watermark by one extends it
  (`ChainGrows`); every other outcome of `observe_sequence` leaves the bucket incomplete
  (`ReceivedIs`). That nothing arrived in the window before the bucket was opened is
  `ArrivedBefore`, that the exporter has no newer bucket is `ExporterHeads`;
* buckets in memory and in the pass (`HeldWhole`), never in both unless one was reopened
  behind its snapshot (`HeldOnce`), so a put-back never merges two buckets called complete
  into one that is not;
* the database (`RowsAgree`, `PublishedWhole`): rows of a bucket that will be written again
  after an unconfirmed commit are already what it holds.

**The outbox** (`AlertOutbox_proofs`): `OutcomesAreTrue` (`SettledIsTrue`) and
`RecordedNotResent`. `OutboxInv` says what is known of the intent in hand at each phase
and that a recorded delivery is remembered as long as its target exists. It says nothing
of the order of the queue: a claim reads the intent again, so what a batch picked may be
stale without harm.

**Operators' runs** (`ManualMitigation_proofs`): `RunsAndRevertsOnce`,
`RunsMatchDefinitions`, `DirectRunsSupervised`. `ManualInv`: a request that has its run
cannot start another (`Answered`); a child of a run holds the run's claim until it ends,
and past that when what it left is unknown (`ClaimsKept`), so at most one revert has not
failed (`OneRevert`); a request's reading agrees with itself while the revision it read
is in force (`ReadingsAgree`). That a panic alone abandons nothing, and that an abandoned
run keeps its claim and is the only direct run published, is `DirectRunsSupervised`
(`DirectRunsAttended`); that no run is abandoned at all does not hold (finding 13).

**Accounts** (`Authority_proofs`): `OwnerKept` (`SuperadminKept`) - whoever is between
check and commit holds the guard (`GuardIsHeld`) and what it found stays true
(`CheckedStays`) - and `CodesEarnSessions` (`SessionIsEarned`): since the last reset no
accepted step is ahead of the stored one, codes still in the account were never accepted
and live sessions date from after the reset.

**Detection** (`DetectionRule_proofs`), from `DetectionAssumption` (a rule has finitely
many members and at least one), for any rule, any conditions, values, actions,
decisions, workers, edits and faults. Two invariants, one on top of the other.

* `WorkerInv` (`WorkerCorrect`): where the worker of an activation stands says what its
  rows can be (`ActivationFits`); a command under way holds the policy fence
  (`ActHoldsFence`), an edit under way holds it otherwise (`EditHoldsFence`), so what was
  authorized under the fence is still so (`ActAuthorized`); a decision about to be
  submitted has no worker and no row yet (`EvFits`). `Calm` and `Follows` say what every
  settlement (release, finalisation of a child, quarantine, startup) leaves alone, and
  each operator that settles is shown to obey them once. From it follow
  `FailuresOwnNothing` (`FailedOwnsNothing`) and `WritesAuthorized`
  (`WriteUnderAuthority`).
* `Evidence` (`CountsAreBacked`): the match count and the cursors of the stored state, and
  of the state an evaluation in progress read before an edit or an operator may have
  cleared it, are those of a streak of rounds (`Backed`, `Deciding`). The streak is
  `Unbroken`: every round matched the row it was compared with, moved every member and
  kept the gap limit, and its revision is that of the round before unless an edit overtook
  that one. Its last round is of the revision it is continued under, or overtaken
  (`Under`). This is what survives an edit: the edit clears the state, so a count that is
  there afterwards was either made under the new row or written by an evaluation the edit
  overtook. From it follow `FiringsProved` (`FiringIsProved`) and `OwnershipKept`
  (`QuietKeepsOwnership`). That a rule never fires on rounds of an old condition would be
  stronger and does not hold (finding 12).

`QuietKeepsOwnership` is about rules that are firing or awaiting recovery. A rule that was
cleared by finding 8 while its action was in flight, and that matches again, is
`matching` while it owns a change; the next quiet sample publishes it clear
(`engine.rs:734`). That case takes one more instant than the run has; the proof attempt
showed it, and it is a consequence of the finding and not a second cause.

**Device plans** (`DevicePlan_proofs`), from `DevicePlanAssumption` (devices are numbers, no
host is called like a missing session, drafts and routers are of the catalogue's kinds, lists
are finite), for any devices, endpoints, lists, routes, plans, edits and faults.

* `PlanAddReaches` and `AddAlwaysReached` (`AddIsReached`): first match and `midpoint` are
  defined by the least and the greatest of a finite set of sequence numbers, so what they
  return follows from the existence of those (`LeastExists`, `LastIs`) without induction. An
  entry put before the first match is itself the first match, whatever the list; that lists
  stay finite through every command and edit is part of `TypeInv`.
* `Inv1`: where the run stands says what its plan and sessions are. A plan consists of
  actions whose commands write only slots that their before-state binds (`PlanInv`); a
  session of a device is open on the endpoint whose key is pinned, and two devices never
  hold the same endpoint (`SessionInv`).
* `FailureWithoutEffectIsClean` (`NoEffectIsClean`): until the first command of an action
  that may change state has completed, the router is as the action found it and the session
  outside any sub-mode (`CleanInv`).
* `OnlyPreviewedReplaced` (`WriteReplacesPreviewed`): `PreviewInv` says that the
  value of a slot read while the plan was made is what some action expects before which no
  sibling projects that key (`Expects`), and that every slot the plan binds was read; `SyncInv`
  that under the locks
  every bound slot is the value previewed or written. The preflight establishes the second
  from the first, and nobody else writes a locked router. An IPv4 static route is exempt
  (`Guarded`): its before-state does not determine the slot, which is finding 11.
* `UndoneIsRestored` (`UndoRestores`): `ForwardInv` says that of the changes a forward run
  has begun, the first of a router to bind a slot expects the value the slot had before the
  run (`FirstExpects`, `Orig`), and that every slot replaced is bound by one that may have
  written (`Wrote`). Reversed, the first becomes the last (`Restores`), so `BackwardInv`
  follows each replaced slot to the inverse that puts its value back and says that the value
  is there once that inverse is done: the inverse was verified, and no later one binds the
  slot. It holds for compensation under the same locks and for a rollback that takes them
  anew, after other operators had their turn.

Only model-checked:

* liveness (`OrphansRecovered`, `TasksEnd`, `StartupCompletes`, `RunsEnd`,
  `EveryAlertSettles`, the progress half of `WakeKeepsPromise`), which the prover does not
  support under fairness.

## 5. Findings

1. **Policy fence and dead sessions** (`ReroutePolicyFenceLost`). The executor does
   not notice that the session holding the fence died after reservation; a
   maintenance lock set then is bypassed. `docs/manual-mitigations.md:87-89` says a
   completed change cannot be bypassed.
2. **Crash during a sibling** (`BundleCrashRecoverable`). The slot learns its reroute
   only after the executor returned (`bundle.rs:981`); after a crash in between the
   source proof refuses the bundle for ever.
3. **Refused sibling** (`BundleBlockedRecoverable`). A sibling without a reroute is
   stored with effect `unknown` (`bundle.rs:985`), which is an invalid slot.
4. **Retry after reconciliation** (`BundleRetryRecoverable`). A child's inverse found
   not applied leaves the claim on the source (`state_machine.rs:216`).
5. **Aborted at startup** (`BundleCrashReleased`). The memberships of an interrupted
   bundle that owns nothing are not removed (`bundle.rs:1818`).
6. **Reconciled compensation** (`BundleCompensationReleased`). The inverse of a
   compensation has no bundle id, so its reconciliation releases nothing.
7. **Reservation of an old bundle** (`RateGuardLongRun`). A reservation counts only
   while the bundle's creation is inside the window (`guard.rs:804`).

8. **Clear rule, applied change** (`DetectionOwnership`). A forward action in flight
   when its condition recovers is not counted as owned; the quiet evaluation publishes
   the rule clear and the action then ends as changed. The comment at
   `detection/engine.rs:708-709` says quiet samples must never clear that marker.
9. **Two attachments of one peer** (`DevicePlanQuiet`). The before-state of a second
   export-policy action carries its own required lists (`device_plan.rs:1443`, and
   `prepare_export_policy`), so it never equals the projection of the first and the
   preflight of such a plan always fails.
10. **Address moved during a failing pass** (`FlowMoved`). `requeue_flushes` finds an
   exporter by address alone (`collector.rs:1049`); one that came back for another device
   gets the old device's buckets and the next pass stores them under the new device. The
   comment at `collector.rs:687-689` says they are dropped.
11. **Static route configured after the preview** (`DevicePlanStatic`). The check for another
   static route of the prefix (`ensure_no_conflicting_static`, `device_plan.rs:2431`) runs at
   preparation only. Under the lock an IPv4 route is looked up by its exact line, so one that
   an operator configured in between with other attributes reads as absent and is overwritten
   or gets a second path. The comment at `device_plan.rs:2280-2281` says that is outside the
   plan. Found by the attempt to prove `WriteReplacesPreviewed`, which no longer claims it of
   IPv4 static routes.
12. **Edit during an evaluation** (`DetectionEdit`). An edit resets the rule's state under
   the policy fence, an evaluation that loaded the old row compares with it
   (`engine.rs:438-441`) and writes the state afterwards without looking
   (`engine.rs:2318`, `1224`). The next evaluation counts that round for the new condition
   and may fire on it. The comment at `engine.rs:2873-2875` says the old progress does not
   carry over. The activation itself still needs the revision that fired to be in force.
13. **Committed run without a task** (`ManualAbandoned`). A direct apply or revert is
   committed, then the fence is released and an error of that is returned
   (`manual_mitigations.rs:776-780`, `151-155`; `recovery.rs:422`), and the task is started
   only by the caller afterwards; a retry is answered with the run and starts nothing. The
   settlement of a panic gives up after four attempts (`engine.rs:1727-1747`), the timer's
   after one. Until the next start the run is unfinished, its source claimed and nobody
   works on it. The comment at `manual_mitigations.rs:159-161` says this work cannot be
   cancelled by losing the connection and that a failure settles the child.

Only finding 2 is among the listed runs; the configurations of the others are named
with them.

Seen while reading, without a configuration: `docs/reroute-engine.md:777-779` says
startup closes every bundle as `aborted`, the code also uses `compensation_blocked`;
`cancel` leaves `mutation_effect = 'pending'` (`api/reroutes.rs:382`), which the
source proof treats as ambiguous and no reconciliation resolves; a row whose
reservation was reported as refused because the guard could not be released blocks
its router until the next start. `plan_remove` ("so `prefix` stops being advertised",
`prefix_list.rs:397`) removes the first exact permit although a later broader permit
may still match. A gap in a datagram sequence that shows after its bucket was
snapshotted is not marked on that bucket (`docs/flow-telemetry.md:226`). The lookup of
interface ids before a mark ignores errors (`collector.rs:1025`), so that mark is lost
although `docs/flow-telemetry.md:284` says a wake never is. A process that dies, or a
query that fails, between the end of a run and `schedule_if_eligible`
(`bundle.rs:1114`) leaves a timed recovery without its timer.

## 6. Not modelled

Text (IOS parsing and rendering, alert bodies), network I/O (SMTP, webhooks, SNMP,
packet decoding), the frontend, installation and cryptography. Their results enter
the models as nondeterministic inputs. Cooldowns and interface protection are refusals
like the ones modelled and were left out of the gates. The polling and discovery
schedule and retention only decide when something is read and when old rows go; SNMP
counter arithmetic and the choice of a flow target are computations on data no property
here reads. Creation, import and deletion of rules, the listing endpoints and the
storage of device fields have no protocol of their own.

## 7. Plan

Modelled: every component with a protocol of its own (section 2). Proved: every invariant
and action property of the passing runs (section 4), and the step half of the refinement of
`OwedEvaluation`. What is left is liveness, which stays with TLC.
