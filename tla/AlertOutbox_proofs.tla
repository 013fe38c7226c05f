-------------------------- MODULE AlertOutbox_proofs --------------------------
(***************************************************************************)
(* Proofs about the alert outbox (module AlertOutbox), for any alerts,      *)
(* targets, limits and number of failures.                                  *)
(*                                                                         *)
(* What a batch picks and in which order is left open here: the claim reads *)
(* the intent it is about again, so the proofs need nothing of the queue.   *)
(***************************************************************************)
EXTENDS AlertOutbox, TLAPS

-----------------------------------------------------------------------------
(* The inductive invariant *)

Kinds == Range(Script) \cup {Escalation(i) : i \in Nat \X (Targets \cup {NoOne})}

Row == [state : {"pending", "retry", "settled"},
        outcome : {"none", "no_audience", "sent", "suppressed", "permanent_failure"},
        attempts : Nat, claim : {"none", "live", "expired"}]

Rows == /\ alerts \in Seq(Kinds)
        /\ intents \in [DOMAIN intents -> Row]
        /\ \A i \in DOMAIN intents : i \in (DOMAIN alerts) \X (Targets \cup {NoOne})
        /\ audience \in [Targets -> {"subscribed", "silent", "removed"}]

\* What was recorded did arrive, and what arrived was an intent.
Deliveries == DOMAIN recorded \subseteq reached /\ reached \subseteq DOMAIN intents

\* A recorded delivery stays recorded while its target exists.
Remembered == \A i \in acked : \/ i \in DOMAIN recorded
                               \/ i[2] \in Targets /\ audience[i[2]] = "removed"

AtWork == disp.phase \in {"claimed", "sending", "accepted", "refused", "recorded"}

\* The intent in hand: how often it was tried, and what is known of it.
InHand ==
    /\ disp = [phase |-> disp.phase, todo |-> disp.todo, batch |-> disp.batch,
               attempts |-> disp.attempts, linked |-> disp.linked]
    /\ AtWork => /\ Cur \in DOMAIN intents /\ disp.attempts \in Nat
                 /\ intents[Cur].attempts = IF disp.phase = "claimed" THEN disp.attempts
                                            ELSE disp.attempts + 1
    /\ disp.phase = "sending" => Cur \notin DOMAIN recorded
    /\ disp.phase \in {"accepted", "recorded"} => Cur \in reached

OutboxInv == Rows /\ Deliveries /\ Remembered /\ InHand /\ SettledIsTrue

-----------------------------------------------------------------------------

LEMMA OutboxInit == Init => OutboxInv
<1> SUFFICES ASSUME Init PROVE OutboxInv
  OBVIOUS
<1>1. DOMAIN intents = {} /\ DOMAIN recorded = {}
  BY DEF Init
<1>2. Rows
  BY <1>1 DEF Init, Rows
<1>3. Deliveries /\ Remembered /\ SettledIsTrue
  BY <1>1 DEF Init, Deliveries, Remembered, SettledIsTrue
<1>4. InHand
  BY DEF Init, InHand, Resting, AtWork
<1>5. QED
  BY <1>2, <1>3, <1>4 DEF OutboxInv

\* Alerts are only added.
Grows == /\ alerts' \in Seq(Kinds) /\ DOMAIN alerts \subseteq DOMAIN alerts'
         /\ \A a \in DOMAIN alerts : alerts'[a] = alerts[a]

LEMMA AppendGrows ==
  ASSUME Rows, NEW k \in Kinds, alerts' = Append(alerts, k)
  PROVE  Grows /\ \E a \in DOMAIN alerts' : alerts'[a] = k
<1>1. alerts \in Seq(Kinds)
  BY DEF Rows
<1>2. Len(alerts) \in Nat /\ DOMAIN alerts = 1 .. Len(alerts) /\ DOMAIN alerts' = 1 .. Len(alerts) + 1
      /\ alerts' \in Seq(Kinds) /\ alerts'[Len(alerts) + 1] = k
      /\ \A a \in 1 .. Len(alerts) : alerts'[a] = alerts[a]
  BY <1>1
<1>3. QED
  BY <1>2 DEF Grows

\* Verdicts stay true while rows and deliveries only grow.
LEMMA VerdictsKept ==
  ASSUME OutboxInv, Grows, reached \subseteq reached',
         \A i \in DOMAIN intents' : \/ intents'[i].outcome \in {"none", "no_audience"}
                                    \/ /\ i \in DOMAIN intents /\ intents'[i].outcome = intents[i].outcome
                                       /\ intents'[i].attempts >= intents[i].attempts
                                       /\ intents'[i].attempts \in Nat
  PROVE  SettledIsTrue'
<1>1. \A i \in DOMAIN intents : Kind(i)' = Kind(i) /\ i[1] \in DOMAIN alerts /\ intents[i].attempts \in Nat
  BY DEF OutboxInv, Rows, Row, Grows, Kind
<1>2. MaxAttempts \in Nat
  BY OutboxAssumption
<1>3. ASSUME NEW i \in DOMAIN intents', intents'[i].outcome \in {"sent", "suppressed", "permanent_failure"}
      PROVE  /\ intents'[i].outcome = "sent" => i \in reached'
             /\ intents'[i].outcome = "suppressed" =>
                  \E j \in reached' : j[2] = i[2] /\ j # i /\ Kind(j)'.key = Kind(i)'.key
             /\ intents'[i].outcome = "permanent_failure" =>
                  /\ intents'[i].attempts >= MaxAttempts
                  /\ IsEscalation(Kind(i)') \/ \E a \in DOMAIN alerts' : alerts'[a] = Escalation(i)
  <2>1. i \in DOMAIN intents /\ intents'[i].outcome = intents[i].outcome /\ intents'[i].attempts >= intents[i].attempts
        /\ intents'[i].attempts \in Nat
    BY <1>3
  <2>2. \A j \in reached : j \in DOMAIN intents /\ j \in reached'
    BY DEF OutboxInv, Deliveries
  <2>3. /\ intents[i].outcome = "sent" => i \in reached
        /\ intents[i].outcome = "suppressed" =>
             \E j \in reached : j[2] = i[2] /\ j # i /\ Kind(j).key = Kind(i).key
        /\ intents[i].outcome = "permanent_failure" =>
             /\ intents[i].attempts >= MaxAttempts
             /\ IsEscalation(Kind(i)) \/ \E a \in DOMAIN alerts : alerts[a] = Escalation(i)
    BY <2>1 DEF OutboxInv, SettledIsTrue
  <2>4. CASE intents[i].outcome = "sent"
    BY <2>1, <2>2, <2>3, <2>4
  <2>5. CASE intents[i].outcome = "suppressed"
    BY <1>1, <2>1, <2>2, <2>3, <2>5
  <2>6. CASE intents[i].outcome = "permanent_failure"
    BY <1>1, <1>2, <2>1, <2>3, <2>6 DEF Grows
  <2>7. QED
    BY <1>3, <2>1, <2>4, <2>5, <2>6
<1>4. ASSUME NEW i \in DOMAIN intents'
      PROVE  /\ intents'[i].outcome = "sent" => i \in reached'
             /\ intents'[i].outcome = "suppressed" =>
                  \E j \in reached' : j[2] = i[2] /\ j # i /\ Kind(j)'.key = Kind(i)'.key
             /\ intents'[i].outcome = "permanent_failure" =>
                  /\ intents'[i].attempts >= MaxAttempts
                  /\ IsEscalation(Kind(i)') \/ \E a \in DOMAIN alerts' : alerts'[a] = Escalation(i)
  BY <1>3, <1>4
<1>5. QED
  BY <1>4 DEF SettledIsTrue

-----------------------------------------------------------------------------
(* Rows and the dispatcher's memory *)

LEMMA RetryFacts ==
  ASSUME Rows, NEW i \in DOMAIN intents, retry_intent(i)
  PROVE  /\ DOMAIN intents' = DOMAIN intents /\ intents' \in [DOMAIN intents -> Row]
         /\ \A j \in DOMAIN intents : /\ intents'[j].outcome = intents[j].outcome
                                      /\ intents'[j].attempts = intents[j].attempts
<1>1. intents \in [DOMAIN intents -> Row] /\ intents[i] \in Row
  BY DEF Rows
<1>2. PICK r : r = [intents[i] EXCEPT !.state = "retry", !.claim = "none"]
  OBVIOUS
<1>3. r \in Row /\ r.outcome = intents[i].outcome /\ r.attempts = intents[i].attempts
  BY <1>1, <1>2 DEF Row
<1>4. intents' = [intents EXCEPT ![i] = r]
  BY <1>1, <1>2 DEF retry_intent
<1>5. QED
  BY <1>1, <1>3, <1>4

LEMMA SettleFacts ==
  ASSUME Rows, NEW i \in DOMAIN intents, NEW o \in {"sent", "suppressed", "permanent_failure"},
         settle_intent(i, o)
  PROVE  /\ DOMAIN intents' = DOMAIN intents /\ intents' \in [DOMAIN intents -> Row]
         /\ \A j \in DOMAIN intents \ {i} : intents'[j] = intents[j]
         /\ intents'[i].outcome = o /\ intents'[i].attempts = intents[i].attempts
<1>1. intents \in [DOMAIN intents -> Row] /\ intents[i] \in Row
  BY DEF Rows
<1>2. PICK r : r = [intents[i] EXCEPT !.state = "settled", !.outcome = o, !.claim = "none"]
  OBVIOUS
<1>3. r \in Row /\ r.outcome = o /\ r.attempts = intents[i].attempts
  BY <1>1, <1>2 DEF Row
<1>4. intents' = [intents EXCEPT ![i] = r]
  BY <1>1, <1>2 DEF settle_intent
<1>5. QED
  BY <1>1, <1>3, <1>4

\* A dispatcher with no intent in hand.
LEMMA Unhanded ==
  ASSUME disp' = Resting \/ NextIntent \/ (\E b, l : disp' = Work(b, l))
  PROVE  InHand'
<1>1. disp' = Resting \/ \E b, l : disp' = Work(b, l)
  BY DEF NextIntent
<1>2. CASE disp' = Resting
  BY <1>2 DEF Resting, InHand, AtWork
<1>3. ASSUME NEW b, NEW l, disp' = Work(b, l) PROVE InHand'
  BY <1>3 DEF Work, Resting, InHand, AtWork
<1>4. QED
  BY <1>1, <1>2, <1>3

\* The rest follows when intents keep their verdicts and deliveries stay recorded.
LEMMA Quietly ==
  ASSUME OutboxInv, Grows, audience' = audience, recorded' = recorded, reached \subseteq reached', acked' = acked,
         DOMAIN intents' = DOMAIN intents, intents' \in [DOMAIN intents -> Row],
         reached' \subseteq DOMAIN intents,
         \A j \in DOMAIN intents : /\ intents'[j].outcome = intents[j].outcome
                                   /\ intents'[j].attempts >= intents[j].attempts,
         InHand'
  PROVE  OutboxInv'
<1>1. Rows'
  BY DEF OutboxInv, Rows, Grows
<1>2. Deliveries' /\ Remembered'
  BY DEF OutboxInv, Deliveries, Remembered
<1>3. \A j \in DOMAIN intents : intents'[j].attempts \in Nat
  BY DEF Row
<1>4. SettledIsTrue'
  BY <1>3, VerdictsKept
<1>5. QED
  BY <1>1, <1>2, <1>4 DEF OutboxInv

LEMMA Same == ASSUME Rows, alerts' = alerts PROVE Grows
  BY DEF Rows, Grows

-----------------------------------------------------------------------------
(* Producers, operators, time *)

LEMMA RaiseStep == ASSUME OutboxInv, Raise PROVE OutboxInv'
<1>1. Rows
  BY DEF OutboxInv
<1>2. PICK k \in Kinds : alerts' = Append(alerts, k)
  BY DEF Raise, Kinds, Range
<1>3. Grows
  BY <1>1, <1>2, AppendGrows
<1>4. UNCHANGED <<audience, intents, recorded, disp, reached, acked>>
  BY DEF Raise
<1>5. InHand'
  BY <1>4 DEF OutboxInv, InHand, AtWork, Cur
<1>6. /\ \A j \in DOMAIN intents : intents[j].attempts >= intents[j].attempts
  BY <1>1 DEF Rows, Row
<1>7. QED
  BY <1>1, <1>3, <1>4, <1>5, <1>6, Quietly DEF OutboxInv, Rows, Deliveries

LEMMA AudienceStep ==
  ASSUME OutboxInv, NEW t \in Targets, AddTarget(t) \/ Unsubscribe(t) \/ RemoveTarget(t)
  PROVE  OutboxInv'
<1>1. Rows /\ Deliveries /\ Remembered /\ InHand
  BY DEF OutboxInv
<1>2. UNCHANGED <<alerts, intents, disp, reached, acked>>
  BY DEF AddTarget, Unsubscribe, RemoveTarget
<1>3. PICK v \in {"subscribed", "silent", "removed"} :
         /\ audience' = [audience EXCEPT ![t] = v]
         /\ IF v = "removed" THEN recorded' = [i \in {j \in DOMAIN recorded : j[2] # t} |-> recorded[i]]
                             ELSE recorded' = recorded /\ audience[t] # "removed"
  BY DEF AddTarget, Unsubscribe, RemoveTarget
<1>4. /\ audience' \in [Targets -> {"subscribed", "silent", "removed"}] /\ audience'[t] = v
      /\ \A u \in Targets \ {t} : audience'[u] = audience[u]
  BY <1>1, <1>3 DEF Rows
<1>5. /\ DOMAIN recorded' \subseteq DOMAIN recorded
      /\ \A i \in DOMAIN recorded : i \in DOMAIN recorded' \/ (i[2] = t /\ v = "removed")
  BY <1>3
<1>6. Remembered'
  BY <1>1, <1>2, <1>3, <1>4, <1>5 DEF Remembered
<1>7. Rows' /\ Deliveries'
  BY <1>1, <1>2, <1>4, <1>5 DEF Rows, Deliveries
<1>8. InHand'
  BY <1>1, <1>2, <1>5 DEF InHand, AtWork, Cur
<1>9. SettledIsTrue'
  BY <1>2 DEF OutboxInv, SettledIsTrue, Kind
<1>10. QED
  BY <1>6, <1>7, <1>8, <1>9 DEF OutboxInv

LEMMA AgeStep == ASSUME OutboxInv, Age PROVE OutboxInv'
<1>1. DOMAIN recorded' = DOMAIN recorded /\ UNCHANGED <<alerts, audience, intents, disp, reached, acked>>
  BY DEF Age
<1>2. Rows' /\ Deliveries' /\ Remembered' /\ InHand' /\ SettledIsTrue'
  BY <1>1 DEF OutboxInv, Rows, Deliveries, Remembered, InHand, AtWork, Cur, SettledIsTrue, Kind
<1>3. QED
  BY <1>2 DEF OutboxInv

LEMMA QueueStep == ASSUME OutboxInv, BackoffElapses \/ UNCHANGED vars PROVE OutboxInv'
<1>1. UNCHANGED <<recorded, alerts, audience, intents, disp, reached, acked>>
  BY DEF BackoffElapses, vars
<1>2. Rows' /\ Deliveries' /\ Remembered' /\ InHand' /\ SettledIsTrue'
  BY <1>1 DEF OutboxInv, Rows, Deliveries, Remembered, InHand, AtWork, Cur, SettledIsTrue, Kind
<1>3. QED
  BY <1>2 DEF OutboxInv

\* The claim of one intent changes, and nothing else of it.
LEMMA ClaimSet ==
  ASSUME Rows, NEW i \in DOMAIN intents, NEW v \in {"live", "expired"},
         intents' = [intents EXCEPT ![i].claim = v]
  PROVE  /\ DOMAIN intents' = DOMAIN intents /\ intents' \in [DOMAIN intents -> Row]
         /\ \A j \in DOMAIN intents : /\ intents'[j].outcome = intents[j].outcome
                                      /\ intents'[j].attempts = intents[j].attempts
<1>1. intents \in [DOMAIN intents -> Row] /\ intents[i] \in Row
  BY DEF Rows
<1>2. PICK r : r = [intents[i] EXCEPT !.claim = v]
  OBVIOUS
<1>3. r \in Row /\ r.outcome = intents[i].outcome /\ r.attempts = intents[i].attempts
  BY <1>1, <1>2 DEF Row
<1>4. intents' = [intents EXCEPT ![i] = r]
  BY <1>1, <1>2
<1>5. QED
  BY <1>1, <1>3, <1>4

LEMMA LeaseStep == ASSUME OutboxInv, NEW i \in DOMAIN intents, LeaseExpires(i) PROVE OutboxInv'
<1>1. Rows /\ Deliveries /\ InHand
  BY DEF OutboxInv
<1>2. UNCHANGED <<alerts, audience, recorded, disp, reached, acked>> /\ disp.phase = "idle"
      /\ intents' = [intents EXCEPT ![i].claim = "expired"]
  BY DEF LeaseExpires
<1>3. /\ DOMAIN intents' = DOMAIN intents /\ intents' \in [DOMAIN intents -> Row]
      /\ \A j \in DOMAIN intents : /\ intents'[j].outcome = intents[j].outcome
                                   /\ intents'[j].attempts = intents[j].attempts
                                   /\ intents[j].attempts \in Nat
  BY <1>1, <1>2, ClaimSet DEF Rows, Row
<1>4. InHand'
  BY <1>1, <1>2 DEF InHand, AtWork, Cur
<1>5. QED
  BY <1>1, <1>2, <1>3, <1>4, Quietly, Same DEF Deliveries

-----------------------------------------------------------------------------
(* The dispatcher *)

LEMMA PassStep == ASSUME OutboxInv, StartPass \/ LoadDue \/ PassEnds PROVE OutboxInv'
<1>1. UNCHANGED <<alerts, audience, intents, recorded, reached, acked>>
  BY DEF StartPass, LoadDue, PassEnds
<1>2. InHand'
  <2>1. CASE StartPass
    BY <2>1 DEF StartPass, Resting, InHand, AtWork
  <2>2. CASE LoadDue \/ PassEnds
    BY <2>2, Unhanded DEF LoadDue, PassEnds
  <2>3. QED
    BY <2>1, <2>2
<1>3. Rows' /\ Deliveries' /\ Remembered' /\ SettledIsTrue'
  BY <1>1 DEF OutboxInv, Rows, Deliveries, Remembered, SettledIsTrue, Kind
<1>4. QED
  BY <1>2, <1>3 DEF OutboxInv

LEMMA MaterializeStep == ASSUME OutboxInv, materialize_alert PROVE OutboxInv'
<1>1. Rows /\ Deliveries /\ InHand
  BY DEF OutboxInv
<1>2. PICK a \in DOMAIN alerts : a = Head(disp.todo)
  BY DEF materialize_alert
<1>3. PICK now : now = {<<a, t>> : t \in Audience(alerts[a])}
  OBVIOUS
<1>4. PICK new : new = IF now = {} THEN {<<a, NoOne>>} ELSE now
  OBVIOUS
<1>5. /\ disp.phase = "materialize"
      /\ intents' = [i \in DOMAIN intents \cup new |->
                       IF i \in DOMAIN intents THEN intents[i]
                       ELSE IF i[2] = NoOne THEN NoAudience ELSE Fresh]
      /\ disp' = [disp EXCEPT !.todo = Tail(@)]
      /\ UNCHANGED <<alerts, audience, recorded, reached, acked>>
  BY <1>2, <1>3, <1>4 DEF materialize_alert
<1>6. new \subseteq (DOMAIN alerts) \X (Targets \cup {NoOne})
  BY <1>2, <1>3, <1>4 DEF Audience
<1>7. DOMAIN intents' = DOMAIN intents \cup new
  BY <1>5
<1>8. Fresh \in Row /\ NoAudience \in Row /\ Fresh.outcome = "none" /\ NoAudience.outcome = "no_audience"
  BY DEF Fresh, NoAudience, Row
<1>9. /\ \A i \in DOMAIN intents : intents'[i] = intents[i]
      /\ \A i \in DOMAIN intents' : i \in DOMAIN intents \/ intents'[i] \in {Fresh, NoAudience}
  BY <1>5, <1>7
<1>10. intents' \in [DOMAIN intents' -> Row]
  BY <1>1, <1>5, <1>7, <1>8 DEF Rows
<1>11. Rows'
  BY <1>1, <1>5, <1>6, <1>7, <1>10 DEF Rows
<1>12. Deliveries' /\ Remembered'
  BY <1>1, <1>5, <1>7 DEF OutboxInv, Deliveries, Remembered
<1>13. InHand'
  BY <1>1, <1>5 DEF InHand, AtWork
<1>14. SettledIsTrue'
  <2>1. \A i \in DOMAIN intents : intents[i].attempts \in Nat /\ intents[i].attempts >= intents[i].attempts
    BY <1>1 DEF Rows, Row
  <2>2. \A i \in DOMAIN intents' : \/ intents'[i].outcome \in {"none", "no_audience"}
                                   \/ /\ i \in DOMAIN intents /\ intents'[i].outcome = intents[i].outcome
                                      /\ intents'[i].attempts >= intents[i].attempts
                                      /\ intents'[i].attempts \in Nat
    BY <1>8, <1>9, <2>1
  <2>3. Grows /\ reached \subseteq reached'
    BY <1>1, <1>5, Same
  <2>4. QED
    BY <2>2, <2>3, VerdictsKept
<1>15. QED
  BY <1>11, <1>12, <1>13, <1>14 DEF OutboxInv

LEMMA ClaimStep == ASSUME OutboxInv, Claim PROVE OutboxInv'
<1>1. Rows /\ Deliveries /\ InHand
  BY DEF OutboxInv
<1>2. PICK i \in DOMAIN intents : i = Cur
  BY DEF Claim
<1>3. /\ intents' = [intents EXCEPT ![i].claim = "live"]
      /\ disp' = [disp EXCEPT !.phase = "claimed", !.attempts = intents[i].attempts]
      /\ UNCHANGED <<alerts, audience, recorded, reached, acked>>
  BY <1>2 DEF Claim
<1>4. /\ DOMAIN intents' = DOMAIN intents /\ intents' \in [DOMAIN intents -> Row]
      /\ \A j \in DOMAIN intents : /\ intents'[j].outcome = intents[j].outcome
                                   /\ intents'[j].attempts = intents[j].attempts
                                   /\ intents[j].attempts \in Nat
  BY <1>1, <1>3, ClaimSet DEF Rows, Row
<1>5. /\ disp' = [phase |-> "claimed", todo |-> disp.todo, batch |-> disp.batch,
                  attempts |-> intents[i].attempts, linked |-> disp.linked]
  BY <1>1, <1>3 DEF InHand
<1>6. InHand'
  BY <1>2, <1>4, <1>5 DEF InHand, AtWork, Cur
<1>7. QED
  BY <1>1, <1>3, <1>4, <1>6, Quietly, Same DEF Deliveries

\* Whatever ends with a retry.
LEMMA RetryStep == ASSUME OutboxInv, Postpone \/ record_orphan \/ RetryRefused \/ InternalError PROVE OutboxInv'
<1>1. Rows /\ Deliveries
  BY DEF OutboxInv
<1>2. AtWork
  BY DEF Postpone, record_orphan, RetryRefused, InternalError, Phase, AtWork
<1>3. PICK i \in DOMAIN intents : i = Cur
  BY <1>2 DEF OutboxInv, InHand
<1>4. retry_intent(i) /\ NextIntent /\ UNCHANGED <<alerts, audience, recorded, reached, acked>>
  BY <1>3 DEF Postpone, record_orphan, RetryRefused, InternalError
<1>5. /\ DOMAIN intents' = DOMAIN intents /\ intents' \in [DOMAIN intents -> Row]
      /\ \A j \in DOMAIN intents : /\ intents'[j].outcome = intents[j].outcome
                                   /\ intents'[j].attempts = intents[j].attempts
                                   /\ intents[j].attempts \in Nat
  BY <1>1, <1>4, RetryFacts DEF Rows, Row
<1>6. InHand'
  BY <1>4, Unhanded
<1>7. QED
  BY <1>1, <1>4, <1>5, <1>6, Quietly, Same DEF Deliveries

\* Whatever settles the intent in hand, with a verdict that is true.
LEMMA SettleStep ==
  ASSUME OutboxInv, NEW i \in DOMAIN intents, NEW o \in {"sent", "suppressed", "permanent_failure"},
         settle_intent(i, o), NextIntent, Grows, UNCHANGED <<audience, recorded, reached, acked>>,
         o = "sent" => i \in reached,
         o = "suppressed" => \E j \in reached : j[2] = i[2] /\ j # i /\ Kind(j).key = Kind(i).key,
         o = "permanent_failure" =>
           /\ intents[i].attempts >= MaxAttempts
           /\ IsEscalation(Kind(i)) \/ \E a \in DOMAIN alerts' : alerts'[a] = Escalation(i)
  PROVE  OutboxInv'
<1>1. Rows /\ Deliveries /\ Remembered
  BY DEF OutboxInv
<1>2. /\ DOMAIN intents' = DOMAIN intents /\ intents' \in [DOMAIN intents -> Row]
      /\ \A j \in DOMAIN intents \ {i} : intents'[j] = intents[j]
      /\ intents'[i].outcome = o /\ intents'[i].attempts = intents[i].attempts
  BY <1>1, SettleFacts
<1>3. Rows'
  BY <1>1, <1>2 DEF Rows, Grows
<1>4. Deliveries' /\ Remembered'
  BY <1>1, <1>2 DEF Deliveries, Remembered
<1>5. InHand'
  BY Unhanded
<1>6. \A j \in DOMAIN intents : Kind(j)' = Kind(j)
  BY <1>1 DEF Rows, Grows, Kind
<1>7. reached \subseteq DOMAIN intents
  BY <1>1 DEF Deliveries
<1>8. ASSUME NEW j \in DOMAIN intents
      PROVE  /\ intents'[j].outcome = "sent" => j \in reached
             /\ intents'[j].outcome = "suppressed" =>
                  \E k \in reached : k[2] = j[2] /\ k # j /\ Kind(k)'.key = Kind(j)'.key
             /\ intents'[j].outcome = "permanent_failure" =>
                  /\ intents'[j].attempts >= MaxAttempts
                  /\ IsEscalation(Kind(j)') \/ \E a \in DOMAIN alerts' : alerts'[a] = Escalation(j)
  <2>1. CASE j = i
    BY <1>2, <1>6, <1>7, <2>1
  <2>2. CASE j # i
    <3>1. intents'[j] = intents[j]
      BY <1>2, <2>2
    <3>2. /\ intents[j].outcome = "sent" => j \in reached
          /\ intents[j].outcome = "suppressed" =>
               \E k \in reached : k[2] = j[2] /\ k # j /\ Kind(k).key = Kind(j).key
          /\ intents[j].outcome = "permanent_failure" =>
               /\ intents[j].attempts >= MaxAttempts
               /\ IsEscalation(Kind(j)) \/ \E a \in DOMAIN alerts : alerts[a] = Escalation(j)
      BY DEF OutboxInv, SettledIsTrue
    <3>3. (\E a \in DOMAIN alerts : alerts[a] = Escalation(j)) => \E a \in DOMAIN alerts' : alerts'[a] = Escalation(j)
      BY DEF Grows
    <3>4. intents[j].outcome = "suppressed" => \E k \in reached : k[2] = j[2] /\ k # j /\ Kind(k)'.key = Kind(j)'.key
      BY <1>6, <1>7, <3>2
    <3>5. QED
      BY <1>6, <3>1, <3>2, <3>3, <3>4
  <2>3. QED
    BY <2>1, <2>2
<1>9. SettledIsTrue'
  BY <1>2, <1>8 DEF SettledIsTrue
<1>10. QED
  BY <1>3, <1>4, <1>5, <1>9 DEF OutboxInv

LEMMA VerdictStep ==
  ASSUME OutboxInv, SettleEarlier \/ Suppress \/ SettleSent \/ settle_permanent_failure
  PROVE  OutboxInv'
<1>1. Rows /\ Deliveries /\ InHand
  BY DEF OutboxInv
<1>2. AtWork
  BY DEF SettleEarlier, Suppress, SettleSent, settle_permanent_failure, Phase, AtWork
<1>3. PICK i \in DOMAIN intents : i = Cur
  BY <1>1, <1>2 DEF InHand
<1>4. NextIntent /\ UNCHANGED <<audience, recorded, reached, acked>>
  BY DEF SettleEarlier, Suppress, SettleSent, settle_permanent_failure
<1>5. CASE SettleEarlier
  <2>1. i \in reached /\ settle_intent(i, "sent") /\ alerts' = alerts
    BY <1>1, <1>3, <1>5 DEF SettleEarlier, intent_already_sent, Deliveries
  <2>2. QED
    BY <1>1, <1>4, <2>1, Same, SettleStep
<1>6. CASE SettleSent
  <2>1. i \in reached /\ settle_intent(i, "sent") /\ alerts' = alerts
    BY <1>1, <1>3, <1>6 DEF SettleSent, Phase, InHand
  <2>2. QED
    BY <1>1, <1>4, <2>1, Same, SettleStep
<1>7. CASE Suppress
  <2>1. settle_intent(i, "suppressed") /\ alerts' = alerts /\ i \notin DOMAIN recorded /\ recently_delivered(i)
    BY <1>3, <1>7 DEF Suppress, intent_already_sent, Suppressed
  <2>2. \E j \in reached : j[2] = i[2] /\ j # i /\ Kind(j).key = Kind(i).key
    BY <1>1, <2>1 DEF recently_delivered, Deliveries
  <2>3. QED
    BY <1>1, <1>4, <2>1, <2>2, Same, SettleStep
<1>8. CASE settle_permanent_failure
  <2>1. /\ settle_intent(i, "permanent_failure") /\ disp.phase = "refused" /\ disp.attempts + 1 >= MaxAttempts
        /\ alerts' = IF IsEscalation(Kind(i)) THEN alerts ELSE Append(alerts, Escalation(i))
    BY <1>3, <1>8 DEF settle_permanent_failure, Phase, GivesUp
  <2>2. intents[i].attempts >= MaxAttempts
    BY <1>1, <1>3, <2>1 DEF InHand, AtWork
  <2>3. CASE IsEscalation(Kind(i))
    BY <1>1, <1>4, <2>1, <2>2, <2>3, Same, SettleStep
  <2>4. CASE ~IsEscalation(Kind(i))
    <3>1. i \in Nat \X (Targets \cup {NoOne})
      BY <1>1 DEF Rows
    <3>2. PICK k \in Kinds : k = Escalation(i)
      BY <3>1 DEF Kinds
    <3>3. Grows /\ \E a \in DOMAIN alerts' : alerts'[a] = Escalation(i)
      BY <1>1, <2>1, <2>4, <3>2, AppendGrows
    <3>4. QED
      BY <1>4, <2>1, <2>2, <3>3, SettleStep
  <2>5. QED
    BY <2>3, <2>4
<1>9. QED
  BY <1>5, <1>6, <1>7, <1>8

LEMMA AttemptStep == ASSUME OutboxInv, start_attempt PROVE OutboxInv'
<1>1. Rows /\ Deliveries /\ InHand
  BY DEF OutboxInv
<1>2. AtWork /\ disp.phase = "claimed"
  BY DEF start_attempt, Phase, AtWork
<1>3. PICK i \in DOMAIN intents : i = Cur
  BY <1>1, <1>2 DEF InHand
<1>4. intents \in [DOMAIN intents -> Row] /\ intents[i] \in Row
  BY <1>1 DEF Rows
<1>5. PICK r : r = [intents[i] EXCEPT !.attempts = intents[i].attempts + 1]
  OBVIOUS
<1>6. r \in Row /\ r.outcome = intents[i].outcome /\ r.attempts = intents[i].attempts + 1 /\ intents[i].attempts \in Nat
  BY <1>4, <1>5 DEF Row
<1>7. intents' = [intents EXCEPT ![i] = r]
  BY <1>3, <1>4, <1>5 DEF start_attempt
<1>8. /\ i \notin DOMAIN recorded
      /\ disp' = [disp EXCEPT !.phase = "sending"]
      /\ UNCHANGED <<alerts, audience, recorded, reached, acked>>
  BY <1>3 DEF start_attempt, Goto, intent_already_sent
<1>9. /\ DOMAIN intents' = DOMAIN intents /\ intents' \in [DOMAIN intents -> Row]
      /\ \A j \in DOMAIN intents : /\ intents'[j].outcome = intents[j].outcome
                                   /\ intents'[j].attempts >= intents[j].attempts
      /\ intents'[i].attempts = intents[i].attempts + 1
  <2>1. \A j \in DOMAIN intents : intents[j].attempts \in Nat
    BY <1>4 DEF Row
  <2>2. QED
    BY <1>4, <1>6, <1>7, <2>1
<1>10. InHand'
  <2>1. disp' = [phase |-> "sending", todo |-> disp.todo, batch |-> disp.batch,
                 attempts |-> disp.attempts, linked |-> disp.linked]
    BY <1>1, <1>8 DEF InHand
  <2>2. intents[i].attempts = disp.attempts /\ disp.attempts \in Nat
    BY <1>1, <1>2, <1>3 DEF InHand
  <2>3. Cur' = i
    BY <1>3, <2>1 DEF Cur
  <2>4. QED
    BY <1>8, <1>9, <2>1, <2>2, <2>3 DEF InHand, AtWork
<1>11. QED
  BY <1>1, <1>8, <1>9, <1>10, Quietly, Same DEF Deliveries

LEMMA SendStep == ASSUME OutboxInv, SendAccepted \/ SendFails PROVE OutboxInv'
<1>1. Rows /\ Deliveries /\ InHand
  BY DEF OutboxInv
<1>2. AtWork /\ disp.phase = "sending"
  BY DEF SendAccepted, SendFails, Phase, AtWork
<1>3. PICK i \in DOMAIN intents : i = Cur
  BY <1>1, <1>2 DEF InHand
<1>4. PICK p \in {"accepted", "refused"} :
        /\ disp' = [disp EXCEPT !.phase = p] /\ reached' \in {reached, reached \cup {i}}
        /\ p = "accepted" => i \in reached'
        /\ UNCHANGED <<alerts, audience, intents, recorded, acked>>
  BY <1>3 DEF SendAccepted, SendFails, Goto
<1>5. InHand'
  <2>1. disp' = [phase |-> p, todo |-> disp.todo, batch |-> disp.batch,
                 attempts |-> disp.attempts, linked |-> disp.linked]
    BY <1>1, <1>4 DEF InHand
  <2>2. QED
    BY <1>1, <1>2, <1>3, <1>4, <2>1 DEF InHand, AtWork, Cur
<1>6. /\ \A j \in DOMAIN intents : intents[j].attempts >= intents[j].attempts
      /\ intents \in [DOMAIN intents -> Row]
  BY <1>1 DEF Rows, Row
<1>7. reached \subseteq reached' /\ reached' \subseteq DOMAIN intents
  BY <1>1, <1>4 DEF Deliveries
<1>8. QED
  BY <1>1, <1>4, <1>5, <1>6, <1>7, Quietly, Same

LEMMA RecordStep == ASSUME OutboxInv, record_sent PROVE OutboxInv'
<1>1. Rows /\ Deliveries /\ InHand /\ Remembered
  BY DEF OutboxInv
<1>2. AtWork /\ disp.phase = "accepted"
  BY DEF record_sent, Phase, AtWork
<1>3. PICK i \in DOMAIN intents : i = Cur
  BY <1>1, <1>2 DEF InHand
<1>4. /\ DOMAIN recorded' = DOMAIN recorded \cup {i} /\ acked' = acked \cup {i}
      /\ disp' = [disp EXCEPT !.phase = "recorded"]
      /\ UNCHANGED <<alerts, audience, intents, reached>>
  BY <1>3 DEF record_sent, Goto
<1>5. InHand'
  <2>1. disp' = [phase |-> "recorded", todo |-> disp.todo, batch |-> disp.batch,
                 attempts |-> disp.attempts, linked |-> disp.linked]
    BY <1>1, <1>4 DEF InHand
  <2>2. QED
    BY <1>1, <1>2, <1>4, <2>1 DEF InHand, AtWork, Cur
<1>6. Rows' /\ Deliveries' /\ Remembered'
  BY <1>1, <1>2, <1>3, <1>4 DEF Rows, Deliveries, Remembered, InHand
<1>7. SettledIsTrue'
  BY <1>4 DEF OutboxInv, SettledIsTrue, Kind
<1>8. QED
  BY <1>5, <1>6, <1>7 DEF OutboxInv

-----------------------------------------------------------------------------
(* The invariant holds, and what it says *)

LEMMA OutboxKeeps == ASSUME OutboxInv, [Next]_vars PROVE OutboxInv'
<1>1. CASE Dispatcher
  <2>1. CASE StartPass \/ LoadDue
    BY <2>1, PassStep
  <2>2. CASE materialize_alert
    BY <2>2, MaterializeStep
  <2>3. CASE Claim
    BY <2>3, ClaimStep
  <2>4. CASE SettleEarlier \/ Suppress \/ SettleSent \/ settle_permanent_failure
    BY <2>4, VerdictStep
  <2>5. CASE Postpone \/ record_orphan \/ RetryRefused
    BY <2>5, RetryStep
  <2>6. CASE start_attempt
    BY <2>6, AttemptStep
  <2>7. CASE record_sent
    BY <2>7, RecordStep
  <2>8. CASE SendAccepted \/ SendFails
    BY <2>8, SendStep
  <2>9. QED
    BY <1>1, <2>1, <2>2, <2>3, <2>4, <2>5, <2>6, <2>7, <2>8 DEF Dispatcher
<1>2. CASE Raise
  BY <1>2, RaiseStep
<1>3. ASSUME NEW t \in Targets, AddTarget(t) \/ Unsubscribe(t) \/ RemoveTarget(t) PROVE OutboxInv'
  BY <1>3, AudienceStep
<1>4. CASE Age
  BY <1>4, AgeStep
<1>5. CASE BackoffElapses \/ UNCHANGED vars
  BY <1>5, QueueStep
<1>6. CASE Expiry
  BY <1>6, LeaseStep DEF Expiry
<1>7. CASE InternalError
  BY <1>7, RetryStep
<1>8. CASE PassEnds
  BY <1>8, PassStep
<1>9. QED
  BY <1>1, <1>2, <1>3, <1>4, <1>5, <1>6, <1>7, <1>8 DEF Next

LEMMA OutboxHolds == Spec => []OutboxInv
  BY OutboxInit, OutboxKeeps, PTL DEF Spec

\* The outcome an operator reads of an intent is what happened to it, for any
\* script, audience and failures: sent was delivered, suppressed repeats what the
\* same target was sent, and a permanent failure used up its attempts and raised
\* its own alert (alerts/dispatcher.rs, process_intent, settle_permanent_failure).
THEOREM OutcomesAreTrue == Spec => []SettledIsTrue
<1>1. OutboxInv => SettledIsTrue
  BY DEF OutboxInv
<1>2. QED
  BY <1>1, OutboxHolds, PTL

\* A delivery that was recorded is never sent again while its target exists, in
\* whichever step a pass failed or the process died (alerts/dispatcher.rs,
\* intent_already_sent, record_attempt).
THEOREM RecordedNotResent == Spec => NoResendOnceRecorded
<1> DEFINE Once == \A i \in acked : SendAccepted /\ Cur = i => audience[i[2]] = "removed"
<1>1. OutboxInv => Once
  BY DEF OutboxInv, InHand, Remembered, SendAccepted, Phase
<1>2. OutboxInv /\ [Next]_vars => [Once]_vars
  BY <1>1
<1>3. Spec => [][Once]_vars
  BY <1>2, OutboxHolds, PTL DEF Spec
<1>4. QED
  BY <1>3 DEF NoResendOnceRecorded
=============================================================================
