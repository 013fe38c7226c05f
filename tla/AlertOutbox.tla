----------------------------- MODULE AlertOutbox -----------------------------
(***************************************************************************)
(* The durable alert outbox (alerts/dispatcher.rs).  Producers insert      *)
(* alerts; the one dispatcher turns each alert into an intent per target   *)
(* of its audience, claims due intents under a lease, sends, records the   *)
(* attempt and settles the intent, each in a transaction of its own.       *)
(* Recipients and webhooks come and go meanwhile (api/notifications.rs),   *)
(* and the process may die between any two of these steps.                 *)
(*                                                                         *)
(* Time is abstracted to what it decides: when a backoff or a lease has    *)
(* run out, and whether a recorded delivery is still inside the            *)
(* de-duplication window ("new") or the hour of the rate limit ("mid").    *)
(***************************************************************************)
EXTENDS Naturals, Sequences, FiniteSets, SequencesExt

CONSTANTS Script,         \* the alerts producers raise, in order: [key, critical, immediate]
          Targets,        \* recipients and webhook endpoints, by id: an id is never reused
          Email,          \* the targets reached through SMTP
          Admins,         \* the recipients linked to an administrator
          Subscribed,     \* the targets with a subscription at first
          MaxAttempts,    \* MAX_DELIVERY_ATTEMPTS
          RateLimit,      \* RATE_LIMIT_PER_HOUR
          CriticalSlots, NormalSlots,
          MaxFaults       \* bound of the instance: failures and edits

NoOne == "no-audience"

ASSUME OutboxAssumption == /\ {MaxAttempts, CriticalSlots, NormalSlots} \subseteq Nat \ {0}
                           /\ NoOne \notin Targets
                           /\ Email \cup Subscribed \subseteq Targets /\ Admins \subseteq Email

VARIABLES alerts,      \* sequence of kinds; the position is the id
          audience,    \* target -> "subscribed", "silent" or "removed"
          intents,     \* <<alert, target>> -> [state, outcome, attempts, claim]
          due,         \* unsettled intents whose next_attempt_at has come, oldest first
          waiting,     \* those whose next_attempt_at is to come: all back off equally long
          recorded,    \* intent -> age of its 'sent' row in alert_deliveries
          smtp,        \* SMTP is configured in this process
          disp,        \* the dispatcher: [phase, todo, batch, attempts, linked]
          reached, acked,   \* ghosts: intents delivered; intents whose delivery was recorded
          faults

vars == <<alerts, audience, intents, due, waiting, recorded, smtp, disp, reached, acked, faults>>

Escalation(i) == [key |-> i, critical |-> TRUE, immediate |-> TRUE]
IsEscalation(k) == k \notin Range(Script)

Fresh == [state |-> "pending", outcome |-> "none", attempts |-> 0, claim |-> "none"]
NoAudience == [state |-> "settled", outcome |-> "no_audience", attempts |-> 0, claim |-> "none"]
Resting == [phase |-> "idle", todo |-> <<>>, batch |-> <<>>, attempts |-> 0, linked |-> {}]

Init == /\ alerts = <<>>
        /\ audience = [t \in Targets |-> IF t \in Subscribed THEN "subscribed" ELSE "silent"]
        /\ intents = [i \in {} |-> Fresh] /\ due = <<>> /\ waiting = <<>>
        /\ recorded = [i \in {} |-> "new"]
        /\ smtp = TRUE
        /\ disp = Resting
        /\ reached = {} /\ acked = {} /\ faults = 0

Fault == faults < MaxFaults /\ faults' = faults + 1

Kind(i) == alerts[i[1]]
Exists(t) == audience[t] # "removed"

-----------------------------------------------------------------------------
(* Producers, operators, time *)

Raised == Len(SelectSeq(alerts, LAMBDA k : ~IsEscalation(k)))

Raise == /\ Raised + 1 \in DOMAIN Script
         /\ alerts' = Append(alerts, Script[Raised + 1])
         /\ UNCHANGED <<audience, intents, due, waiting, recorded, smtp, disp, reached, acked, faults>>

\* add_recipient of a known address, with its subscriptions, in one transaction
AddTarget(t) == /\ Fault /\ audience[t] = "silent"
                /\ audience' = [audience EXCEPT ![t] = "subscribed"]
                /\ UNCHANGED <<alerts, intents, due, waiting, recorded, smtp, disp, reached, acked>>

\* Replacing the subscriptions may leave a target without this kind of event.
Unsubscribe(t) == /\ Fault /\ audience[t] = "subscribed"
                  /\ audience' = [audience EXCEPT ![t] = "silent"]
                  /\ UNCHANGED <<alerts, intents, due, waiting, recorded, smtp, disp, reached, acked>>

\* remove_recipient and remove_webhook: the intents stay, without their
\* reference; the recorded deliveries go with the target.
RemoveTarget(t) == /\ Fault /\ Exists(t)
                   /\ audience' = [audience EXCEPT ![t] = "removed"]
                   /\ recorded' = [i \in {j \in DOMAIN recorded : j[2] # t} |-> recorded[i]]
                   /\ UNCHANGED <<alerts, intents, due, waiting, smtp, disp, reached, acked>>

\* Only the load of a batch asks whether a backoff or a lease has run out (the
\* claim asks again, of rows that were free and due then), so both may as well
\* happen while the dispatcher sleeps.
BackoffElapses == /\ disp.phase = "idle" /\ waiting # <<>>
                  /\ due' = Append(due, Head(waiting)) /\ waiting' = Tail(waiting)
                  /\ UNCHANGED <<alerts, audience, intents, recorded, smtp, disp, reached, acked, faults>>

LeaseExpires(i) == /\ disp.phase = "idle" /\ intents[i].claim = "live"
                   /\ intents' = [intents EXCEPT ![i].claim = "expired"]
                   /\ UNCHANGED <<alerts, audience, due, waiting, recorded, smtp, disp, reached, acked, faults>>

\* Time passes: what was new leaves the window, what was older leaves the hour.
Age == /\ disp.phase \in {"idle", "batch"} /\ \E i \in DOMAIN recorded : recorded[i] # "old"
       /\ recorded' = [i \in DOMAIN recorded |-> IF recorded[i] = "new" THEN "mid" ELSE "old"]
       /\ UNCHANGED <<alerts, audience, intents, due, waiting, smtp, disp, reached, acked, faults>>

-----------------------------------------------------------------------------
(* Materializing the audience *)

\* Per class the oldest few, the critical class first: a flood of one class
\* leaves the other its slots.
Slots(seq, Critical(_)) ==
    LET first(s, n) == SubSeq(s, 1, IF Len(s) < n THEN Len(s) ELSE n)
        Normal(x) == ~Critical(x)
    IN first(SelectSeq(seq, Critical), CriticalSlots) \o first(SelectSeq(seq, Normal), NormalSlots)

Unmaterialized(a) == \A i \in DOMAIN intents : i[1] # a

NewAlerts ==
    LET Critical(a) == alerts[a].critical
    IN Slots(SelectSeq([a \in DOMAIN alerts |-> a], Unmaterialized), Critical)

StartPass ==
    /\ disp.phase = "idle"
    /\ disp' = [Resting EXCEPT !.phase = "materialize", !.todo = NewAlerts]
    /\ UNCHANGED <<alerts, audience, intents, due, waiting, recorded, smtp, reached, acked, faults>>

Audience(k) == {t \in Targets : \/ audience[t] = "subscribed"
                                \/ k.critical /\ t \in Admins /\ Exists(t)}

materialize_alert ==
    LET a == Head(disp.todo)
        now == {<<a, t>> : t \in Audience(alerts[a])}
        new == IF now = {} THEN {<<a, NoOne>>} ELSE now
    IN /\ disp.phase = "materialize" /\ disp.todo # <<>>
       /\ a \in DOMAIN alerts          \* foreign key of the intents
       /\ intents' = [i \in DOMAIN intents \cup new |->
                        IF i \in DOMAIN intents THEN intents[i]
                        ELSE IF i[2] = NoOne THEN NoAudience ELSE Fresh]
       /\ due' = due \o SetToSeq({i \in now : i[2] \in Email}) \o SetToSeq({i \in now : i[2] \notin Email})
       /\ disp' = [disp EXCEPT !.todo = Tail(@)]
       /\ UNCHANGED <<alerts, audience, waiting, recorded, smtp, reached, acked, faults>>

\* Mutant: an abandoned claim stays claimed.
Free_Unclaimed(i) == intents[i].claim = "none"

Free(i) == intents[i].claim # "live"

\* What is left of the batch, and the rows in it that named their target when
\* they were loaded; when nothing is left, the pass is over.
Work(batch, linked) ==
    IF batch = <<>> THEN Resting
    ELSE [Resting EXCEPT !.phase = "batch", !.batch = batch, !.linked = linked \cap Range(batch)]

DueIntents ==
    LET Critical(i) == Kind(i).critical
    IN Slots(SelectSeq(due, Free), Critical)

LoadDue ==
    /\ disp.phase = "materialize" /\ disp.todo = <<>>
    /\ disp' = Work(DueIntents, {i \in DOMAIN intents : i[2] \in Targets /\ Exists(i[2])})
    /\ UNCHANGED <<alerts, audience, intents, due, waiting, recorded, smtp, reached, acked, faults>>

-----------------------------------------------------------------------------
(* One intent *)

Cur == Head(disp.batch)
Phase(p) == disp.phase = p /\ disp.batch # <<>>
Goto(p) == disp' = [disp EXCEPT !.phase = p]
NextIntent == disp' = Work(Tail(disp.batch), disp.linked)

Claim == /\ Phase("batch") /\ Cur \in DOMAIN intents
         /\ intents[Cur].state # "settled" /\ Free(Cur) /\ Contains(due, Cur)
         /\ intents' = [intents EXCEPT ![Cur].claim = "live"]
         /\ disp' = [disp EXCEPT !.phase = "claimed", !.attempts = intents[Cur].attempts]
         /\ UNCHANGED <<alerts, audience, due, waiting, recorded, smtp, reached, acked, faults>>

Dequeued(i) == SelectSeq(due, LAMBDA j : j # i)

retry_intent(i) == /\ intents' = [intents EXCEPT ![i].state = "retry", ![i].claim = "none"]
                   /\ due' = Dequeued(i) /\ waiting' = Append(waiting, i)

settle_intent(i, outcome) ==
    /\ intents' = [intents EXCEPT ![i].state = "settled", ![i].outcome = outcome, ![i].claim = "none"]
    /\ due' = Dequeued(i) /\ UNCHANGED waiting

\* Mutant: nothing is known of an earlier process's attempts.
intent_already_sent_Never(i) == FALSE

intent_already_sent(i) == i \in DOMAIN recorded

\* Mutant: a delivery to anybody counts.
recently_delivered_Anyone(i) ==
    \E j \in DOMAIN recorded : Kind(j).key = Kind(i).key /\ recorded[j] = "new"

recently_delivered(i) ==
    i \in disp.linked /\ \E j \in DOMAIN recorded :
                      j[2] = i[2] /\ Kind(j).key = Kind(i).key /\ recorded[j] = "new"

over_rate_limit(i) ==
    i \in disp.linked /\ Cardinality({j \in DOMAIN recorded : j[2] = i[2] /\ recorded[j] # "old"}) >= RateLimit

Suppressed(i) == ~Kind(i).immediate /\ recently_delivered(i)
Limited(i) == ~Kind(i).immediate /\ ~recently_delivered(i) /\ over_rate_limit(i)
NoMailer(i) == i[2] \in Email /\ ~smtp

SettleEarlier == /\ Phase("claimed") /\ intent_already_sent(Cur)
                 /\ settle_intent(Cur, "sent") /\ NextIntent
                 /\ UNCHANGED <<alerts, audience, recorded, smtp, reached, acked, faults>>

Suppress == /\ Phase("claimed") /\ ~intent_already_sent(Cur) /\ Suppressed(Cur)
            /\ settle_intent(Cur, "suppressed") /\ NextIntent
            /\ UNCHANGED <<alerts, audience, recorded, smtp, reached, acked, faults>>

Postpone == /\ Phase("claimed") /\ ~intent_already_sent(Cur) /\ ~Suppressed(Cur)
            /\ Limited(Cur) \/ NoMailer(Cur)
            /\ retry_intent(Cur) /\ NextIntent
            /\ UNCHANGED <<alerts, audience, recorded, smtp, reached, acked, faults>>

start_attempt == /\ Phase("claimed") /\ ~intent_already_sent(Cur)
                 /\ ~Suppressed(Cur) /\ ~Limited(Cur) /\ ~NoMailer(Cur)
                 /\ intents' = [intents EXCEPT ![Cur].attempts = @ + 1] /\ Goto("sending")
                 /\ UNCHANGED <<alerts, audience, due, waiting, recorded, smtp, reached, acked, faults>>

SendAccepted == /\ Phase("sending") /\ Goto("accepted")
                /\ reached' = reached \cup {Cur}
                /\ UNCHANGED <<alerts, audience, intents, due, waiting, recorded, smtp, acked, faults>>

\* A send that reports an error may still have arrived.
SendFails == /\ Fault /\ Phase("sending") /\ Goto("refused")
             /\ reached' \in {reached, reached \cup {Cur}}
             /\ UNCHANGED <<alerts, audience, intents, due, waiting, recorded, smtp, acked>>

\* The row names the target as it was loaded: once the target is gone the
\* insert fails and the intent is retried.
Recordable == Cur \in disp.linked => Exists(Cur[2])

record_sent == /\ Phase("accepted") /\ Recordable
               /\ recorded' = [i \in DOMAIN recorded \cup {Cur} |-> IF i = Cur THEN "new" ELSE recorded[i]]
               /\ acked' = acked \cup {Cur}
               /\ Goto("recorded")
               /\ UNCHANGED <<alerts, audience, intents, due, waiting, smtp, reached, faults>>

record_orphan == /\ Phase("accepted") \/ Phase("refused")
                 /\ ~Recordable
                 /\ retry_intent(Cur) /\ NextIntent
                 /\ UNCHANGED <<alerts, audience, recorded, smtp, reached, acked, faults>>

SettleSent == /\ Phase("recorded") /\ settle_intent(Cur, "sent") /\ NextIntent
              /\ UNCHANGED <<alerts, audience, recorded, smtp, reached, acked, faults>>

\* The count compared is the one loaded with the batch, before this attempt.
GivesUp == disp.attempts + 1 >= MaxAttempts

RetryRefused == /\ Phase("refused") /\ Recordable
                /\ ~GivesUp /\ retry_intent(Cur) /\ NextIntent
                /\ UNCHANGED <<alerts, audience, recorded, smtp, reached, acked, faults>>

settle_permanent_failure ==
    /\ Phase("refused") /\ Recordable
    /\ GivesUp /\ settle_intent(Cur, "permanent_failure") /\ NextIntent
    /\ alerts' = IF IsEscalation(Kind(Cur)) THEN alerts ELSE Append(alerts, Escalation(Cur))
    /\ UNCHANGED <<audience, recorded, smtp, reached, acked, faults>>

-----------------------------------------------------------------------------
(* Faults *)

\* A statement of process_intent fails and the claim is released ...
InternalError == /\ Fault /\ \E p \in {"claimed", "accepted", "refused", "recorded"} : Phase(p)
                 /\ retry_intent(Cur) /\ NextIntent
                 /\ UNCHANGED <<alerts, audience, recorded, smtp, reached, acked>>

\* ... or that fails too, and the pass ends with the claim in place; so it does
\* in a crash, after which SMTP may be configured differently.
PassEnds == /\ Fault /\ disp' = Resting /\ smtp' \in BOOLEAN
            /\ disp.phase # "idle" \/ smtp' # smtp
            /\ UNCHANGED <<alerts, audience, intents, due, waiting, recorded, reached, acked>>

Dispatcher == \/ StartPass \/ materialize_alert \/ LoadDue \/ Claim
              \/ SettleEarlier \/ Suppress \/ Postpone \/ start_attempt
              \/ record_sent \/ record_orphan \/ SettleSent \/ RetryRefused \/ settle_permanent_failure
              \/ SendAccepted \/ SendFails

Expiry == \E i \in DOMAIN intents : LeaseExpires(i)

Next == \/ Raise
        \/ \E t \in Targets : AddTarget(t) \/ Unsubscribe(t) \/ RemoveTarget(t)
        \/ Age \/ BackoffElapses \/ Expiry \/ Dispatcher
        \/ InternalError \/ PassEnds

\* The supervisor keeps one dispatcher running.  Time passes whatever the
\* dispatcher does, which for steps that wait for its sleep is strong fairness.
Spec == Init /\ [][Next]_vars /\ WF_vars(Dispatcher)
        /\ SF_vars(Age) /\ SF_vars(BackoffElapses) /\ SF_vars(Expiry)

-----------------------------------------------------------------------------
TypeOK == /\ \A i \in DOMAIN intents :
               /\ i \in (DOMAIN alerts) \X (Targets \cup {NoOne})
               /\ intents[i].state \in {"pending", "retry", "settled"}
               /\ (intents[i].state = "settled") <=> (intents[i].outcome # "none")
          /\ \A n \in DOMAIN due : intents[due[n]].state # "settled"
          /\ \A n \in DOMAIN waiting : intents[waiting[n]].state = "retry"
          /\ DOMAIN recorded \subseteq DOMAIN intents

\* The verdict an operator reads is what happened: 'sent' was delivered;
\* 'suppressed' repeats an alert that did reach the same target;
\* 'permanent_failure' used up its attempts and raised the alert about itself
\* (dispatcher.rs, process_intent and settle_permanent_failure).
SettledIsTrue ==
    \A i \in DOMAIN intents :
      /\ intents[i].outcome = "sent" => i \in reached
      /\ intents[i].outcome = "suppressed" =>
           \E j \in reached : j[2] = i[2] /\ j # i /\ Kind(j).key = Kind(i).key
      /\ intents[i].outcome = "permanent_failure" =>
           /\ intents[i].attempts >= MaxAttempts
           /\ IsEscalation(Kind(i)) \/ \E a \in DOMAIN alerts : alerts[a] = Escalation(i)

\* A target is sent the same alert again only when no earlier delivery was
\* recorded, whatever died in between; removing the target removes its records
\* (dispatcher.rs, process_intent).
NoResendOnceRecorded ==
    [][\A i \in acked : SendAccepted /\ Cur = i => audience[i[2]] = "removed"]_vars

\* Every alert is settled for its whole audience once SMTP stays configured:
\* no class starves the other, no crash strands a claim, and nothing is retried
\* for ever (dispatcher.rs, drain_once).
Settled(a) == /\ \E i \in DOMAIN intents : i[1] = a
              /\ \A i \in DOMAIN intents : i[1] = a => intents[i].state = "settled"
EveryAlertSettles ==
    <>[]smtp => \A a \in 1 .. Len(Script) : (a \in DOMAIN alerts) ~> Settled(a)
=============================================================================
