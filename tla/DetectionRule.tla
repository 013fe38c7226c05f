--------------------------- MODULE DetectionRule ---------------------------
(***************************************************************************)
(* One detection rule: the samples it reads, the evaluator that advances   *)
(* its durable state, the automatic activations and recoveries it          *)
(* publishes, the worker queue that runs them, and the operators who edit, *)
(* disarm and clear it meanwhile (detection/engine.rs, api/rules.rs).      *)
(*                                                                         *)
(* A router action is abstracted to its durable effect; BundleRun and      *)
(* RerouteLifecycle model what happens inside one.                         *)
(***************************************************************************)
EXTENDS Integers, FiniteSets, Sequences, FiniteSetsExt

CONSTANTS
    Shapes,     \* the rules to start from: the metric is a flow estimate or an SNMP
                \* rate, its members, threshold_value, recovery_mode,
                \* recovery_threshold_value, duration_seconds, consecutive_samples,
                \* automatic_reroute_enabled
    Conditions, \* what an edit may set: recovery_mode, threshold_value and its kin.
                \* A new metric, operator or selector is a new threshold here: what
                \* matters is the row a round of evidence was compared with.
    Values,     \* what a member may report
    StaleAfter, \* telemetry.stale_after_seconds; also the largest gap in a streak
    Actions,    \* enabled actions of the rule
    Workers,    \* consumers of the work queue
    QueueCap,   \* its capacity
    MaxTime, MaxDecisions, MaxEdits, MaxFaults

ASSUME DetectionAssumption ==
    /\ Shapes \subseteq [flow : BOOLEAN, members : SUBSET Nat, mode : {"manual", "threshold", "auto"},
                        fire : Int, recover : Int, duration : Nat, samples : Nat, auto : BOOLEAN]
    /\ \A s \in Shapes : s.recover <= s.fire /\ IsFiniteSet(s.members) /\ s.members # {}
    /\ Conditions \subseteq [mode : {"manual", "threshold", "auto"}, fire : Int, recover : Int,
                             duration : Nat, samples : Nat]
    /\ \A c \in Conditions : c.recover <= c.fire
    /\ {StaleAfter, Actions, Workers, QueueCap} \subseteq Nat \ {0}
    /\ {MaxTime, MaxDecisions, MaxEdits, MaxFaults} \subseteq Nat

VARIABLES
    clock, sample,  \* wall clock; the current metric row of each member
    rule, armed,    \* the rules row; enforce mode with the automatic master switch
    st,             \* the rule_states row
    ev,             \* the evaluation in progress, under the observation lock
    bundle,         \* the published decisions, in order
    fence, op,      \* holder of the policy fence; the operator request in progress
    up,
    streak,         \* the rounds of evidence behind the current match count
    edits, faults

vars == <<clock, sample, rule, armed, st, ev, bundle, fence, op, up, streak, edits, faults>>
telemetry == <<clock, sample>>
budget == <<edits, faults>>

None == 0
Never == -1
Idle == [pc |-> "idle"]
Submitting(id) == [pc |-> "submit", id |-> id, next |-> "idle"]
Fault == faults < MaxFaults /\ faults' = faults + 1
Edit == edits < MaxEdits /\ edits' = edits + 1

Members == rule.members
Decisions == DOMAIN bundle
Forward == {b \in Decisions : bundle[b].kind = "activation"}
Children == {b \in Decisions : bundle[b].kind = "recovery"}
Rows == 1..Actions
Open(b) == bundle[b].state \in {"planned", "running"}
-----------------------------------------------------------------------------
(* Evidence.                                                               *)

Fresh(m) == sample[m].ok # "invalid" /\ clock - sample[m].ts \in 0..StaleAfter

\* interface_, flow_ and aggregate_observation: any missing, invalid or stale
\* member blocks the whole observation, which is as old as its oldest member.
Observable == \A m \in Members : Fresh(m)
Observation ==
    [value    |-> MapThenSumSet(LAMBDA m : sample[m].val, Members),
     at       |-> Min({sample[m].ts : m \in Members}),
     evidence |-> [m \in Members |-> sample[m].ts],
     sound    |-> \A m \in Members : sample[m].ok = "good"]

\* The condition of rule row r, which for the evaluator is the one it loaded.
Matches(r, obs) == obs.value >= r.fire
RecoveredSide(r, obs) == r.mode # "threshold" \/ obs.value <= r.recover

\* Mutant: one member that moved is enough.
evidence_advanced_Any(prev, cur) == \E m \in DOMAIN cur : cur[m] > prev[m]

\* A scheduler tick or a fast member cannot count a slow member twice.
evidence_advanced(prev, cur) == \A m \in DOMAIN cur : cur[m] > prev[m]

persistence_satisfied(r, held, count) ==
    /\ r.duration = 0 \/ held >= r.duration
    /\ r.samples = 0 \/ count >= r.samples

\* automatic_condition_recovery_qualified, on the evidence of this instant.
RecoveryQualified ==
    /\ rule.enabled /\ rule.revert /\ st.state = "awaiting"
    /\ Observable /\ Observation.sound
    /\ ~Matches(rule, Observation) /\ RecoveredSide(rule, Observation)

\* automatic_flow_evidence_qualified: SNMP rules need no corroboration.
EvidenceQualified == rule.flow => Observable /\ Observation.sound
-----------------------------------------------------------------------------
(* What the rule still owns on routers.                                    *)

Undone(b, i) == bundle[b].inv[i] = "done"
Outstanding(b) == {i \in Rows : bundle[b].eff[i] \in {"changed", "unknown"} /\ ~Undone(b, i)}

Held == {b \in Forward : Outstanding(b) # {}}

\* Mutant: an action of unknown effect is taken to have changed nothing.
rule_owned_changes_Proved(eligible) ==
    {b \in Forward : /\ \E i \in Outstanding(b) : bundle[b].eff[i] = "changed"
                     /\ eligible => ~bundle[b].cancelled}

rule_owned_changes(eligible) ==
    {b \in Forward : Outstanding(b) # {} /\ (eligible => ~bundle[b].cancelled)}

\* The settled changes an automatic recovery may invert.
Originals ==
    {x \in Forward \X Rows :
        /\ bundle[x[1]].eff[x[2]] = "changed" /\ ~Undone(x[1], x[2])
        /\ ~bundle[x[1]].cancelled /\ ~bundle[x[1]].blocked}
SourcesOf(originals) == {x[1] : x \in originals}
ActiveChild == \E c \in Children : Open(c)

\* claim_sources_for_child_on: terminal, unambiguous, unclaimed sources whose
\* remaining changes are exactly the expected ones.
Claimable(originals) ==
    \A b \in SourcesOf(originals) :
        /\ ~Open(b) /\ bundle[b].claim = None
        /\ \A i \in Rows : bundle[b].eff[i] \notin {"pending", "unknown"}
                           /\ bundle[b].inv[i] \in {"none", "done"}
        /\ Outstanding(b) = {x[2] : x \in {y \in originals : y[1] = b}}

Decision(kind, src, rev) ==
    [kind |-> kind, state |-> "planned", phase |-> "published", rev |-> rev,
     job |-> "none", src |-> src, claim |-> None, cancelled |-> FALSE, blocked |-> FALSE,
     eff |-> [i \in Rows |-> "none"], inv |-> [i \in Rows |-> "none"]]
-----------------------------------------------------------------------------
Init ==
    /\ \E s \in Shapes :
          rule = [flow |-> s.flow, members |-> s.members, fire |-> s.fire, mode |-> s.mode,
                  recover |-> s.recover, duration |-> s.duration, samples |-> s.samples,
                  auto |-> s.auto, enabled |-> TRUE, revert |-> TRUE, rev |-> 0]
    /\ clock = 0 /\ armed = TRUE
    /\ sample \in [rule.members -> {[ts |-> 0, val |-> v, ok |-> "good"] : v \in Values}]
    /\ st = [state |-> "clear", first |-> Never, count |-> 0, rfirst |-> Never, rcount |-> 0,
             seen |-> [m \in Members |-> Never], at |-> Never]
    /\ ev = Idle /\ bundle = <<>> /\ fence = None /\ op = Idle /\ up = TRUE
    /\ streak = <<>> /\ edits = 0 /\ faults = 0

Tick ==
    /\ clock < MaxTime /\ clock' = clock + 1
    /\ UNCHANGED <<sample, rule, armed, st, ev, bundle, fence, op, up, streak, budget>>

\* A poll or a flushed bucket replaces the current row of one member.
Sample(m) ==
    /\ sample[m].ts < clock
    /\ \E v \in Values, ok \in {"good", "invalid"} \cup (IF rule.flow THEN {"low"} ELSE {}) :
          /\ sample' = [sample EXCEPT ![m] = [ts |-> clock, val |-> v, ok |-> ok]]
          /\ IF ok = "good" THEN UNCHANGED faults ELSE Fault
    /\ UNCHANGED <<clock, rule, armed, st, ev, bundle, fence, op, up, streak, edits>>
-----------------------------------------------------------------------------
(* The evaluator.  The rule row is read before the observation lock.       *)

EvalLoad ==
    /\ up /\ ev.pc = "idle" /\ rule.enabled
    /\ ev' = [pc |-> "loaded", rule |-> rule]
    /\ UNCHANGED <<telemetry, rule, armed, st, bundle, fence, op, up, streak, budget>>

\* reset_unproven_streak: a firing rule keeps firing without evidence.
reset_unproven_streak(s) ==
    [s EXCEPT !.state = IF @ = "matching" THEN "clear" ELSE @,
              !.first = Never, !.count = 0, !.rfirst = Never, !.rcount = 0]

Bridged(s, obs) == s.at = Never \/ obs.at - s.at <= StaleAfter

\* The observation and the prior state, up to the first branch.
EvalObserve ==
    LET obs == Observation
        prev == IF Bridged(st, obs) THEN st ELSE reset_unproven_streak(st)
        owned == rule_owned_changes(FALSE) # {}
        disowned == prev.state = "awaiting" /\ ~owned
    IN
    /\ up /\ ev.pc = "loaded"
    /\ IF ~Observable
       THEN st' = reset_unproven_streak(st) /\ ev' = Idle /\ streak' = <<>>
       ELSE IF ~evidence_advanced(st.seen, obs.evidence)
       THEN ev' = Idle /\ UNCHANGED <<st, streak>>
       ELSE /\ st' = prev
            /\ streak' = IF Bridged(st, obs) THEN streak ELSE <<>>
            /\ ev' = [pc |-> "decide", rule |-> ev.rule, obs |-> obs, held |-> Held,
                      prev |-> IF disowned
                               THEN [prev EXCEPT !.state = "clear", !.first = Never, !.count = 0]
                               ELSE prev]
    /\ UNCHANGED <<telemetry, rule, armed, bundle, fence, op, up, budget>>

\* publish_simple_observation: state, streaks and evidence cursor in one write.
Published(state, first, count, rfirst, rcount) ==
    [state |-> state, first |-> first, count |-> count, rfirst |-> rfirst, rcount |-> rcount,
     seen |-> ev.obs.evidence, at |-> ev.obs.at]
Quiet(state) == Published(state, Never, 0, Never, 0)

\* should_auto_execute and the flow gate, from the rule row loaded earlier.
should_auto_execute == armed /\ ev.rule.auto /\ (ev.rule.flow => ev.obs.sound)

\* on_fire: the state, the event, the alert and the planned activation commit
\* together; the worker is submitted afterwards.
on_fire(first, count) ==
    /\ st' = Published("firing", first, count, Never, 0)
    /\ IF should_auto_execute
       THEN /\ bundle' = Append(bundle, Decision("activation", {}, ev.rule.rev))
            /\ Len(bundle) < MaxDecisions
            /\ ev' = Submitting(Len(bundle) + 1)
       ELSE ev' = Idle /\ UNCHANGED bundle

\* What was compared, with which row, and whether an edit of that row had
\* committed by the time the round was written.
Round == [value |-> ev.obs.value, at |-> ev.obs.at, evidence |-> ev.obs.evidence,
          fire |-> ev.rule.fire, rev |-> ev.rule.rev, late |-> ev.rule.rev # rule.rev]

EvalMatched ==
    LET prev == ev.prev
        count == prev.count + 1
        first == IF prev.first = Never THEN ev.obs.at ELSE prev.first
        fires == /\ persistence_satisfied(ev.rule, ev.obs.at - first, count)
                 /\ prev.state \notin {"awaiting", "firing"}
        state == IF prev.state \in {"awaiting", "firing"} THEN "firing" ELSE "matching"
    IN
    /\ up /\ ev.pc = "decide" /\ Matches(ev.rule, ev.obs)
    /\ streak' = IF prev.state \in {"awaiting", "firing"} THEN <<>>
                 ELSE Append(IF prev.count = 0 THEN <<>> ELSE streak, Round)
    /\ IF fires THEN on_fire(first, count)
       ELSE /\ st' = Published(state, first, count, Never, 0)
            /\ ev' = Idle /\ UNCHANGED bundle
    /\ UNCHANGED <<telemetry, rule, armed, fence, op, up, budget>>

\* The oldest recovery that was published but never handed to a worker.
Unsubmitted == {c \in Children : bundle[c].state = "planned" /\ bundle[c].phase = "published"}

\* Not matching: hold, count towards recovery, or drop back to clear.
EvalQuiet ==
    LET prev == ev.prev
        r == ev.rule
        rfirst == IF prev.rfirst = Never THEN ev.obs.at ELSE prev.rfirst
        rcount == prev.rcount + 1
        done == IF r.flow THEN ev.obs.at - rfirst >= r.duration
                ELSE rcount >= Max({r.samples, 1})
        hold(rf, rc) == Published("firing", prev.first, prev.count, rf, rc)
    IN
    /\ up /\ ev.pc = "decide" /\ ~Matches(ev.rule, ev.obs)
    /\ streak' = <<>>
    /\ CASE prev.state = "firing" /\ (r.mode = "manual" \/ ~RecoveredSide(r, ev.obs)) ->
              st' = hold(Never, 0) /\ ev' = Idle
         [] prev.state = "firing" /\ r.mode # "manual" /\ RecoveredSide(r, ev.obs) ->
              IF done THEN ev' = [ev EXCEPT !.pc = "recover"] /\ UNCHANGED st
              ELSE /\ st' = (IF r.flow THEN hold(rfirst, prev.rcount) ELSE hold(Never, rcount))
                   /\ ev' = Idle
         [] prev.state = "awaiting" ->
              /\ st' = Quiet("awaiting")
              /\ ev' = IF Unsubmitted = {} THEN Idle
                       ELSE Submitting(Min(Unsubmitted))
         [] OTHER -> st' = Quiet("clear") /\ ev' = Idle
    /\ UNCHANGED <<telemetry, rule, armed, bundle, fence, op, up, budget>>

\* publish_recovery_attempt: the child, its claims on every source and the
\* awaiting state commit together.
publish_recovery_attempt ==
    LET c == Len(bundle) + 1 IN
    /\ c <= MaxDecisions
    /\ IF Claimable(Originals)
       THEN /\ bundle' = Append([b \in Decisions |->
                             IF b \in SourcesOf(Originals) THEN [bundle[b] EXCEPT !.claim = c]
                             ELSE bundle[b]], Decision("recovery", Originals, rule.rev))
            /\ st' = [st EXCEPT !.state = "awaiting", !.rfirst = Never, !.rcount = 0,
                                !.seen = ev.obs.evidence, !.at = ev.obs.at]
            /\ ev' = [pc |-> "submit", id |-> c, next |-> "clear",
                      rule |-> ev.rule, obs |-> ev.obs, held |-> ev.held]
       ELSE ev' = Idle /\ UNCHANGED <<bundle, st>>

\* recover_and_clear, up to its last look at the owned changes.
EvalRecover ==
    LET owned == rule_owned_changes(FALSE)
        simple(state) == st' = Quiet(state) /\ ev' = Idle /\ UNCHANGED bundle
        allowed == rule.enabled /\ rule.revert /\ armed
    IN
    /\ up /\ ev.pc = "recover"
    /\ CASE ~ev.rule.revert -> simple(IF owned = {} THEN "clear" ELSE "awaiting")
         [] ev.rule.revert /\ ev.rule.flow /\ ~ev.obs.sound -> simple("awaiting")
         [] ev.rule.revert /\ (ev.rule.flow => ev.obs.sound) ->
              IF owned # {} /\ rule_owned_changes(TRUE) = {} THEN simple("awaiting")
              ELSE IF ~allowed THEN ev' = Idle /\ UNCHANGED <<st, bundle>>
              ELSE IF Originals = {} \/ ActiveChild
              THEN ev' = [ev EXCEPT !.pc = "clear"] /\ UNCHANGED <<st, bundle>>
              ELSE publish_recovery_attempt
    /\ UNCHANGED <<telemetry, rule, armed, fence, op, up, streak, budget>>

EvalClear ==
    /\ up /\ ev.pc = "clear"
    /\ st' = IF rule_owned_changes(FALSE) = {} THEN Quiet("clear") ELSE st
    /\ ev' = Idle
    /\ UNCHANGED <<telemetry, rule, armed, bundle, fence, op, up, streak, budget>>
-----------------------------------------------------------------------------
(* Settlement of a decision.                                               *)

\* finalize_recovery_child: restored sources are released, sources a child
\* left untouched are released but refused to automatic recovery, and anything
\* ambiguous stays claimed.
finalize_recovery_child(bs, c) ==
    LET doubtful(b) == \E i \in Rows : \/ bs[b].eff[i] \in {"pending", "unknown"}
                                       \/ bs[b].inv[i] \in {"running", "unknown"}
        left(b) == \E i \in Rows : bs[b].eff[i] = "changed" /\ bs[b].inv[i] # "done"
        sources == SourcesOf(bs[c].src)
        frozen == \E b \in sources : doubtful(b) \/ bs[b].claim # c
        restored == {b \in sources : ~frozen /\ ~left(b)}
        settled(b) ==
            IF b = c THEN [bs[c] EXCEPT !.job = "none",
                             !.state = IF frozen THEN "blocked"
                                       ELSE IF restored = sources THEN "succeeded" ELSE "failed"]
            ELSE IF b \notin sources \/ bs[b].claim # c THEN bs[b]
            ELSE IF frozen THEN [bs[b] EXCEPT !.blocked = TRUE]
            ELSE IF b \in restored
            THEN [bs[b] EXCEPT !.claim = None, !.blocked = FALSE,
                               !.state = IF @ = "blocked" THEN "compensated" ELSE @]
            ELSE [bs[b] EXCEPT !.claim = None, !.blocked = TRUE]
    IN  [b \in DOMAIN bs |-> settled(b)]

\* finish_and_release of an activation.
finish_and_release(bs, b, state) == [bs EXCEPT ![b].state = state, ![b].job = "none"]

Failed(bs, b) ==
    IF bs[b].kind = "recovery" THEN finalize_recovery_child(bs, b)
    ELSE finish_and_release(bs, b, "failed")

\* In-flight rows of a decision become uncertain, with their device locked.
Quarantined(bs, b) ==
    LET mine(x, i) == x = b \/ <<x, i>> \in bs[b].src
    IN  [x \in DOMAIN bs |->
            [bs[x] EXCEPT
               !.eff = [i \in Rows |-> IF x = b /\ @[i] = "pending" THEN "unknown" ELSE @[i]],
               !.inv = [i \in Rows |-> IF mine(x, i) /\ @[i] = "running" THEN "unknown" ELSE @[i]]]]

NoRowYet(bs, b) ==
    \A x \in DOMAIN bs, i \in Rows :
        /\ x = b => bs[x].eff[i] = "none"
        /\ <<x, i>> \in bs[b].src => bs[x].inv[i] = "none"

\* Mutant: rows that are still in flight are not counted.
unstarted_Finished(bs, b) ==
    bs[b].state = "planned" \/ \A i \in Rows : bs[b].eff[i] \in {"none", "pending"}

unstarted(bs, b) == bs[b].state = "planned" /\ NoRowYet(bs, b)

quarantine_interrupted_worker_bundle(bs, b) ==
    LET q == Quarantined(bs, b)
    IN  IF Open(b) THEN finish_and_release(q, b, "blocked") ELSE q

settle_worker_failure(bs, b) ==
    LET frozen == quarantine_interrupted_worker_bundle(bs, b)
    IN  IF unstarted(bs, b) THEN Failed(bs, b)
        ELSE IF bs[b].kind = "recovery" THEN finalize_recovery_child(frozen, b)
        ELSE frozen

\* A recovery is handed over once (published -> preparing); a full queue
\* settles the decision at once, unless the settlement fails.
Submit ==
    LET b == ev.id
        handed == bundle[b].phase = "published"
        queued == {x \in Decisions : bundle[x].job = "queued"}
    IN
    /\ up /\ ev.pc = "submit"
    /\ \E next \in IF ~handed THEN {bundle}
                   ELSE IF Cardinality(queued) < QueueCap
                   THEN {[bundle EXCEPT ![b].phase = "preparing", ![b].job = "queued"]}
                   ELSE {settle_worker_failure(bundle, b), [bundle EXCEPT ![b].phase = "preparing"]} :
          bundle' = next
    /\ ev' = IF ev.next = "idle" THEN Idle ELSE [ev EXCEPT !.pc = ev.next]
    /\ UNCHANGED <<telemetry, rule, armed, st, fence, op, up, streak, budget>>
-----------------------------------------------------------------------------
(* The workers.                                                            *)

\* What auto_execute_actions re-reads before and after preparation.
ActivationAuthority(b) ==
    rule.enabled /\ rule.auto /\ rule.rev = bundle[b].rev /\ armed /\ EvidenceQualified

\* What the recovery worker re-reads before and after preparation.
RecoveryAuthority(c) ==
    /\ armed /\ RecoveryQualified
    /\ \A b \in SourcesOf(bundle[c].src) :
          bundle[b].claim = c /\ ~bundle[b].cancelled /\ ~bundle[b].blocked

Authority(b) == IF b \in Forward THEN ActivationAuthority(b) ELSE RecoveryAuthority(b)
Job(b, job) == [bundle EXCEPT ![b].job = job]
Working == {b \in Decisions : bundle[b].job \in {"prepare", "run", "act", "undo", "dead"}}

Turn(b) ==
    /\ bundle[b].job = "queued" /\ Cardinality(Working) < Workers
    /\ \A x \in Decisions : bundle[x].job = "queued" => b <= x

TakeJob(b) ==
    /\ up /\ Turn(b)
    /\ bundle' = IF Authority(b) THEN Job(b, "prepare") ELSE Failed(bundle, b)
    /\ UNCHANGED <<telemetry, rule, armed, st, ev, fence, op, up, streak, budget>>

\* Resolution and read-only preparation, then the second look under the fence,
\* the immutable ledger and admission; any refusal fails the whole decision.
Prepare(b) ==
    /\ up /\ bundle[b].job = "prepare"
    /\ \/ fence = None /\ Authority(b) /\ bundle' = [Job(b, "run") EXCEPT ![b].phase = "prepared"]
       \/ fence = None /\ ~Authority(b) /\ bundle' = Failed(bundle, b)
    /\ UNCHANGED <<telemetry, rule, armed, st, ev, fence, op, up, streak, budget>>

PrepareRefused(b) ==
    /\ up /\ bundle[b].job = "prepare" /\ Fault
    /\ bundle' = Failed(bundle, b)
    /\ UNCHANGED <<telemetry, rule, armed, st, ev, fence, op, up, streak, edits>>

\* The same, but the settlement fails; its error is dropped.
SettlementLost(b) ==
    /\ up /\ (Turn(b) \/ bundle[b].job = "prepare")
    /\ Fault /\ bundle' = Job(b, "none")
    /\ UNCHANGED <<telemetry, rule, armed, st, ev, fence, op, up, streak, edits>>

\* validate_execution_authorization of one action, under the policy fence that
\* the executor keeps until the action has ended.
ActionAuthorized(b) ==
    rule.enabled /\ rule.auto /\ st.state = "firing" /\ rule.rev = bundle[b].rev
    /\ armed /\ EvidenceQualified

InverseAuthorized(c, b) ==
    /\ armed /\ rule.revert /\ st.state = "awaiting" /\ RecoveryQualified
    /\ bundle[b].claim = c /\ ~bundle[b].cancelled

Todo(b) == {i \in Rows : bundle[b].eff[i] = "none"}
Changed(b) == {i \in Rows : bundle[b].eff[i] = "changed" /\ ~Undone(b, i)}

\* The next action of an activation starts, or the activation stops and
\* compensates what it changed.
StartAction(b) ==
    /\ up /\ b \in Forward /\ bundle[b].job = "run" /\ Todo(b) # {} /\ fence = None
    /\ IF ActionAuthorized(b)
       THEN /\ bundle' = [bundle EXCEPT ![b].job = "act", ![b].state = "running",
                                        ![b].eff[Min(Todo(b))] = "pending"]
            /\ fence' = b
       ELSE /\ bundle' = IF Changed(b) = {} THEN Failed(bundle, b) ELSE Job(b, "undo")
            /\ UNCHANGED fence
    /\ UNCHANGED <<telemetry, rule, armed, st, ev, op, up, streak, budget>>

\* Its outcome: applied, refused without effect, or unknown (which freezes).
EndAction(b) ==
    /\ up /\ b \in Forward /\ bundle[b].job = "act"
    /\ \E i \in Rows :
          LET with(e) == [bundle EXCEPT ![b].eff[i] = e] IN
          /\ bundle[b].eff[i] = "pending"
          /\ \/ bundle' = [with("changed") EXCEPT ![b].job = "run"] /\ UNCHANGED faults
             \/ /\ Fault
                /\ \/ bundle' = IF Changed(b) = {} THEN Failed(with("noop"), b)
                                ELSE [with("noop") EXCEPT ![b].job = "undo"]
                   \/ bundle' = finish_and_release(with("unknown"), b, "blocked")
    /\ fence' = None
    /\ UNCHANGED <<telemetry, rule, armed, st, ev, op, up, streak, edits>>

\* abort_and_compensate, newest change first; a failed inverse blocks.
Compensate(b) ==
    /\ up /\ b \in Forward /\ bundle[b].job = "undo" /\ fence = None
    /\ IF Changed(b) = {} THEN bundle' = finish_and_release(bundle, b, "compensated") /\ UNCHANGED faults
       ELSE \/ bundle' = [bundle EXCEPT ![b].inv[Max(Changed(b))] = "done"] /\ UNCHANGED faults
            \/ Fault /\ bundle' = finish_and_release(
                                      [bundle EXCEPT ![b].inv[Max(Changed(b))] = "unknown"], b, "blocked")
    /\ UNCHANGED <<telemetry, rule, armed, st, ev, fence, op, up, streak, edits>>

Succeed(b) ==
    /\ up /\ b \in Forward /\ bundle[b].job = "run" /\ Todo(b) = {}
    /\ bundle' = finish_and_release(bundle, b, "succeeded")
    /\ UNCHANGED <<telemetry, rule, armed, st, ev, fence, op, up, streak, budget>>

InverseTodo(c) == {x \in bundle[c].src : bundle[x[1]].inv[x[2]] = "none"}
Newest(S) == {x \in S : \A y \in S : x[1] > y[1] \/ (x[1] = y[1] /\ x[2] >= y[2])}

\* The inverses of a recovery run one by one; the last one settles the child.
StartInverse(c) ==
    LET next == {x \in Newest(InverseTodo(c)) : InverseAuthorized(c, x[1])} IN
    /\ up /\ c \in Children /\ bundle[c].job = "run" /\ fence = None
    /\ IF next = {} THEN bundle' = finalize_recovery_child(bundle, c) /\ UNCHANGED fence
       ELSE /\ \E x \in next :
                 bundle' = [bundle EXCEPT ![c].job = "act", ![c].state = "running",
                                          ![x[1]].inv[x[2]] = "running"]
            /\ fence' = c
    /\ UNCHANGED <<telemetry, rule, armed, st, ev, op, up, streak, budget>>

EndInverse(c) ==
    /\ up /\ c \in Children /\ bundle[c].job = "act"
    /\ \E x \in bundle[c].src :
          LET with(v) == [bundle EXCEPT ![x[1]].inv[x[2]] = v] IN
          /\ bundle[x[1]].inv[x[2]] = "running"
          /\ \/ bundle' = [with("done") EXCEPT ![c].job = "run"] /\ UNCHANGED faults
             \/ Fault /\ \E v \in {"none", "unknown"} : bundle' = finalize_recovery_child(with(v), c)
    /\ fence' = None
    /\ UNCHANGED <<telemetry, rule, armed, st, ev, op, up, streak, edits>>

\* A job panics: its fence goes with it, its consumer settles it next.
Panic(b) ==
    /\ up /\ bundle[b].job \in {"prepare", "run", "act", "undo"} /\ Fault
    /\ bundle' = Job(b, "dead")
    /\ fence' = IF fence = b THEN None ELSE fence
    /\ UNCHANGED <<telemetry, rule, armed, st, ev, op, up, streak, edits>>

\* The settlement fails altogether, or after the quarantine; nothing tries again.
SettlePanicked(b) ==
    /\ up /\ bundle[b].job = "dead"
    /\ \E settled \in {settle_worker_failure(bundle, b), bundle,
                       quarantine_interrupted_worker_bundle(bundle, b)} :
          bundle' = [settled EXCEPT ![b].job = "none"]
    /\ UNCHANGED <<telemetry, rule, armed, st, ev, fence, op, up, streak, budget>>
-----------------------------------------------------------------------------
(* Operators.  Edits of rules and settings take the policy fence.          *)

\* Mutant: the rule is edited without the fence.
FenceTaken_Never == FALSE
FenceTaken == fence # None

\* update: a firing or recovering rule keeps its condition; the check and the
\* write are separate statements.
EditCheck ==
    /\ up /\ op = Idle /\ ~FenceTaken /\ Edit
    /\ st.state \notin {"firing", "awaiting"}
    /\ op' = [pc |-> "edit"] /\ fence' = Never
    /\ UNCHANGED <<telemetry, rule, armed, st, ev, bundle, up, streak, faults>>

\* Mutant: a changed condition leaves the streak as it is.
Cleared_Kept == [st EXCEPT !.state = "clear", !.rfirst = Never, !.rcount = 0]

Cleared == [st EXCEPT !.state = "clear", !.first = Never, !.count = 0, !.rfirst = Never, !.rcount = 0]

\* A changed condition disarms the rule and clears its state in the same
\* transaction, or the rule is disabled.  The observation lock is not taken: an
\* evaluation in progress goes on with the row it loaded.  A flow rule counts
\* time, not samples.
EditCommit ==
    /\ up /\ op.pc = "edit"
    /\ \/ /\ \E c \in Conditions :
                /\ rule.flow => c.samples = 0
                /\ rule' = [rule EXCEPT !.mode = c.mode, !.fire = c.fire, !.recover = c.recover,
                                        !.duration = c.duration, !.samples = c.samples,
                                        !.rev = @ + 1, !.auto = FALSE]
          /\ st' = Cleared
       \/ rule' = [rule EXCEPT !.enabled = FALSE] /\ UNCHANGED st
    /\ op' = Idle /\ fence' = None
    /\ UNCHANGED <<telemetry, armed, ev, bundle, up, streak, budget>>

\* Switches that need no quiet rule, each under the fence.
SetSwitch ==
    /\ up /\ op = Idle /\ ~FenceTaken /\ Edit
    /\ \/ rule' = [rule EXCEPT !.auto = ~@] /\ UNCHANGED armed
       \/ rule' = [rule EXCEPT !.revert = ~@] /\ UNCHANGED armed
       \/ armed' = ~armed /\ UNCHANGED rule
    /\ UNCHANGED <<telemetry, st, ev, bundle, fence, op, up, streak, faults>>

\* bundle_take_control: no automatic recovery of a run nobody is recovering.
CancelRecovery(b) ==
    /\ up /\ Edit /\ b \in Forward /\ rule.enabled /\ rule.revert
    /\ ~Open(b) /\ Outstanding(b) # {} /\ bundle[b].claim = None /\ ~bundle[b].cancelled
    /\ \A i \in Rows : bundle[b].eff[i] # "unknown"
    /\ bundle' = [bundle EXCEPT ![b].cancelled = TRUE]
    /\ UNCHANGED <<telemetry, rule, armed, st, ev, fence, op, up, streak, faults>>

Unresolved(b) ==
    \E i \in Rows : bundle[b].eff[i] \in {"pending", "changed", "unknown"} /\ ~Undone(b, i)

\* clear: the operator's own run inverts every settled change of the rule ...
ManualInverse ==
    LET mine == {b \in Forward : Changed(b) # {}} IN
    /\ up /\ op = Idle /\ Edit /\ fence = None /\ mine # {}
    /\ \A b \in mine : /\ ~Open(b) /\ bundle[b].claim = None
                        /\ \A i \in Rows : bundle[b].eff[i] # "unknown" /\ bundle[b].inv[i] # "unknown"
    /\ bundle' = [b \in Decisions |->
                     [bundle[b] EXCEPT !.inv = [i \in Rows |-> IF i \in Changed(b) THEN "done" ELSE @[i]]]]
    /\ op' = [pc |-> "clear"]
    /\ UNCHANGED <<telemetry, rule, armed, st, ev, fence, up, streak, faults>>

\* ... and complete_manual_clear resets the state when nothing is unresolved.
ManualClear ==
    /\ up
    /\ \/ op = Idle /\ Edit /\ st.state # "clear"
       \/ op.pc = "clear" /\ UNCHANGED edits
    /\ st' = IF \E b \in Forward : Unresolved(b) THEN st ELSE Cleared
    /\ op' = Idle
    /\ UNCHANGED <<telemetry, rule, armed, ev, bundle, fence, up, streak, faults>>
-----------------------------------------------------------------------------
Crash ==
    /\ up /\ Fault /\ up' = FALSE
    /\ ev' = Idle /\ op' = Idle /\ fence' = None
    /\ bundle' = [b \in Decisions |-> [bundle[b] EXCEPT !.job = "none"]]
    /\ UNCHANGED <<telemetry, rule, armed, st, streak, edits>>

\* Startup: rows in flight become uncertain, then recovery children, then
\* activations are settled, before anything live starts.
Startup ==
    LET open == {b \in Decisions : Open(b)}
        rows == [b \in Decisions |->
                   [bundle[b] EXCEPT
                      !.eff = [i \in Rows |-> IF @[i] = "pending" THEN "unknown" ELSE @[i]],
                      !.inv = [i \in Rows |-> IF @[i] = "running" THEN "unknown" ELSE @[i]]]]
        children == open \cap Children
        settled == IF children = {} THEN rows
                   ELSE finalize_recovery_child(rows, CHOOSE c \in children : TRUE)
        owns(b) == \E i \in Rows : settled[b].eff[i] \in {"changed", "unknown"}
                                   /\ settled[b].inv[i] # "done"
    IN
    /\ ~up /\ up' = TRUE
    /\ bundle' = [b \in Decisions |->
                     IF b \in open \cap Forward
                     THEN [settled[b] EXCEPT !.state = IF owns(b) THEN "blocked" ELSE "aborted"]
                     ELSE settled[b]]
    /\ UNCHANGED <<telemetry, rule, armed, st, ev, fence, op, streak, budget>>

Evaluate == EvalLoad \/ EvalObserve \/ EvalMatched \/ EvalQuiet \/ EvalRecover \/ EvalClear \/ Submit
WorkOn(b) ==
    \/ TakeJob(b) \/ Prepare(b) \/ PrepareRefused(b) \/ SettlementLost(b) \/ StartAction(b) \/ EndAction(b)
    \/ Compensate(b) \/ Succeed(b) \/ StartInverse(b) \/ EndInverse(b) \/ SettlePanicked(b)
Operate ==
    \/ EditCheck \/ EditCommit \/ SetSwitch \/ ManualInverse \/ ManualClear
    \/ \E b \in Decisions : CancelRecovery(b)

Next ==
    \/ Tick \/ \E m \in Members : Sample(m)
    \/ Evaluate \/ Operate
    \/ \E b \in Decisions : WorkOn(b) \/ Panic(b)
    \/ Crash \/ Startup

Spec == Init /\ [][Next]_vars
-----------------------------------------------------------------------------
(* Properties.                                                             *)

Fires ==
    /\ ev.pc = "decide" /\ Matches(ev.rule, ev.obs) /\ st' # st
    /\ st'.state = "firing" /\ ev.prev.state \notin {"awaiting", "firing"}

\* A rule fires on an unbroken streak of matching evidence: every round matched
\* the rule row it was compared with, every round moved every member forward, no
\* two rounds are further apart than the gap limit, and the rounds are as many
\* and span as long as the row asks for.  Rounds under different conditions meet
\* in one streak only around an evaluation that an edit overtook.
FiringIsProved ==
    [][Fires => LET s == streak' IN
          /\ Len(s) >= ev.rule.samples
          /\ s[Len(s)].at - s[1].at >= ev.rule.duration
          /\ \A k \in 1..Len(s) : s[k].value >= s[k].fire
          /\ \A k \in 1..Len(s) - 1 :
                /\ \A m \in Members : s[k].evidence[m] < s[k + 1].evidence[m]
                /\ s[k + 1].at - s[k].at <= StaleAfter
                /\ s[k].rev # s[k + 1].rev => s[k].late]_vars

\* "Called when a rule is edited so its old match/firing progress doesn't carry
\* over against the new condition": an evaluation under the condition in force
\* fires on rounds that matched that condition.  Checked in DetectionEdit.cfg.
FiringIsOfOneCondition ==
    [][Fires /\ ev.rule.rev = rule.rev =>
          \A k \in 1..Len(streak') : streak'[k].rev = rule.rev]_vars

\* A router is changed by an activation only while the rule is enabled, armed
\* and unchanged since it fired, and automation is on: at the write itself, not
\* only when it was authorized.
WriteUnderAuthority ==
    [][\A b \in Forward, i \in Rows :
          bundle[b].eff[i] = "pending" /\ bundle'[b].eff[i] = "changed"
          => rule.enabled /\ rule.auto /\ armed /\ rule.rev = bundle[b].rev]_vars

\* An evaluation does not take a rule out of firing or awaiting recovery while
\* the rule still owned a change, proved or not, when that evaluation looked.
QuietKeepsOwnership ==
    [][ev.pc \in {"decide", "recover", "clear"} /\ ev' # ev
       /\ st.state \in {"firing", "awaiting"} /\ st'.state \notin {"firing", "awaiting"}
       => \A b \in ev.held : Outstanding(b) = {}]_vars

\* A decision that failed, or was undone, leaves nothing on a router, and
\* nothing of it is still under way, whatever panicked when.
FailedOwnsNothing ==
    \A b \in Forward : bundle[b].state \in {"failed", "aborted", "compensated"} =>
        \A i \in Rows : bundle[b].eff[i] \in {"none", "noop"} \/ Undone(b, i)

\* "Router ownership outlives the recovered condition.  Quiet samples must never
\* clear that ownership marker; only a verified inverse may do so."
OwnershipMarker ==
    st.state = "clear" => \A b \in Forward : Outstanding(b) = {}
=============================================================================
