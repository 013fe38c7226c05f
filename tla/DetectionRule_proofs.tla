------------------------- MODULE DetectionRule_proofs -------------------------
(***************************************************************************)
(* Proofs about a detection rule and its workers (module DetectionRule), for *)
(* any members, thresholds and streaks, any number of actions, decisions,    *)
(* workers, edits and faults.                                                *)
(***************************************************************************)
EXTENDS DetectionRule, FiniteSetTheorems, WellFoundedInduction, TLAPS

-----------------------------------------------------------------------------
(* Decisions and the policy fence *)

Effects == {"none", "pending", "changed", "noop", "unknown"}
Inverses == {"none", "running", "done", "unknown"}
Jobs == {"none", "queued", "prepare", "run", "act", "undo", "dead"}
Ended == {"failed", "aborted", "compensated"}

Row == [kind : {"activation", "recovery"},
        state : {"planned", "running", "succeeded", "blocked"} \cup Ended,
        phase : {"published", "preparing", "prepared"}, rev : Nat, job : Jobs,
        src : SUBSET (Nat \X Rows), claim : Nat, cancelled : BOOLEAN, blocked : BOOLEAN,
        eff : [Rows -> Effects], inv : [Rows -> Inverses]]

Rules == [flow : BOOLEAN, members : SUBSET Nat, mode : {"manual", "threshold", "auto"},
          fire : Int, recover : Int, duration : Nat, samples : Nat,
          auto : BOOLEAN, enabled : BOOLEAN, revert : BOOLEAN, rev : Nat]

\* Nothing of the activation is left, or can be, on a router.
OwnsNothing(r) == \A i \in Rows : r.eff[i] \in {"none", "noop"} \/ r.inv[i] = "done"

\* Where the worker of an activation stands tells what its rows can be; one that
\* has ended has no worker and, unless it succeeded or is blocked, owns nothing.
ActivationFits(r) ==
    /\ r.job # "none" => r.state \in {"planned", "running"}
    /\ r.job \in {"queued", "prepare"} => \A i \in Rows : r.eff[i] = "none"
    /\ r.job \in {"run", "undo"} => \A i \in Rows : r.eff[i] \in {"none", "noop", "changed"}
    /\ r.job = "act" => /\ \A i \in Rows : r.eff[i] # "unknown"
                        /\ \A i, j \in Rows : r.eff[i] = "pending" /\ r.eff[j] = "pending" => i = j
    /\ r.state \in Ended => OwnsNothing(r)

Bundles == /\ bundle \in Seq(Row)
           /\ \A b \in Decisions : bundle[b].kind = "activation" => ActivationFits(bundle[b])

\* A decision that was published and not handed over yet.
IsFresh(r) == /\ r.state = "planned" /\ r.job = "none" /\ r.claim = None
              /\ \A i \in Rows : r.eff[i] = "none"

\* r became q: the same decision, whose worker and rows fit if they did.
Steady(r, q) ==
    /\ q \in Row /\ q.kind = r.kind /\ q.rev = r.rev /\ q.src = r.src
    /\ r.kind = "activation" /\ ActivationFits(r) => ActivationFits(q)

\* ... without a new change on a router and without starting anything.
Calm(r, q) ==
    /\ Steady(r, q)
    /\ q.job = "act" => r.job = "act"
    /\ \A i \in Rows : q.eff[i] = "changed" => r.eff[i] = "changed"

\* So did every decision; those apart from b that were fresh still are.
Follows(bs, f, b) ==
    /\ f = [x \in DOMAIN bs |-> f[x]]
    /\ \A x \in DOMAIN bs : Calm(bs[x], f[x])
    /\ \A x \in DOMAIN bs : x # b /\ IsFresh(bs[x]) => IsFresh(f[x])

LEMMA FollowsIsSeq ==
  ASSUME NEW bs \in Seq(Row), NEW f, NEW b, Follows(bs, f, b)
  PROVE  f \in Seq(Row) /\ DOMAIN f = DOMAIN bs /\ Len(f) = Len(bs)
<1>1. \A x \in DOMAIN bs : f[x] \in Row
  BY DEF Follows, Calm, Steady
<1>2. DOMAIN bs = 1..Len(bs) /\ Len(bs) \in Nat
  OBVIOUS
<1>3. f = [x \in 1..Len(bs) |-> f[x]]
  BY <1>2 DEF Follows
<1> HIDE DEF Row
<1>4. f \in [1..Len(bs) -> Row]
  BY <1>1, <1>2, <1>3
<1>5. QED
  BY <1>2, <1>4

LEMMA FollowsOn ==
  ASSUME NEW bs \in Seq(Row), NEW f, NEW g, NEW b, Follows(bs, f, b), Follows(f, g, b)
  PROVE  Follows(bs, g, b)
<1>1. DOMAIN f = DOMAIN bs
  BY FollowsIsSeq
<1>2. g = [x \in DOMAIN bs |-> g[x]]
  BY <1>1 DEF Follows
<1>3. ASSUME NEW x \in DOMAIN bs PROVE Calm(bs[x], g[x]) /\ (x # b /\ IsFresh(bs[x]) => IsFresh(g[x]))
  <2>1. Calm(bs[x], f[x]) /\ Calm(f[x], g[x])
    BY <1>1 DEF Follows
  <2>2. x # b => (IsFresh(bs[x]) => IsFresh(f[x])) /\ (IsFresh(f[x]) => IsFresh(g[x]))
    BY <1>1 DEF Follows
  <2>3. Calm(bs[x], g[x])
    BY <2>1 DEF Calm, Steady
  <2>4. QED
    BY <2>2, <2>3
<1>4. QED
  BY <1>2, <1>3 DEF Follows

\* One field of a row at a time.
LEMMA RowUpdates ==
  ASSUME NEW r \in Row
  PROVE  /\ \A n \in Nat : [r EXCEPT !.claim = n] \in Row
         /\ \A v \in BOOLEAN : [r EXCEPT !.blocked = v] \in Row
         /\ \A v \in BOOLEAN : [r EXCEPT !.cancelled = v] \in Row
         /\ \A j \in Jobs : [r EXCEPT !.job = j] \in Row
         /\ \A t \in {"published", "preparing", "prepared"} : [r EXCEPT !.phase = t] \in Row
         /\ \A t \in {"planned", "running", "succeeded", "blocked"} \cup Ended : [r EXCEPT !.state = t] \in Row
         /\ \A e \in [Rows -> Effects] : [r EXCEPT !.eff = e] \in Row
         /\ \A e \in [Rows -> Inverses] : [r EXCEPT !.inv = e] \in Row
<1>1. \A n \in Nat : [r EXCEPT !.claim = n] \in Row
  BY DEF Row
<1>2. \A v \in BOOLEAN : [r EXCEPT !.blocked = v] \in Row
  BY DEF Row
<1>3. \A v \in BOOLEAN : [r EXCEPT !.cancelled = v] \in Row
  BY DEF Row
<1>4. \A j \in Jobs : [r EXCEPT !.job = j] \in Row
  BY DEF Row
<1>5. \A t \in {"planned", "running", "succeeded", "blocked"} \cup Ended : [r EXCEPT !.state = t] \in Row
  BY DEF Row
<1>6. \A e \in [Rows -> Effects] : [r EXCEPT !.eff = e] \in Row
  BY DEF Row
<1>7. \A e \in [Rows -> Inverses] : [r EXCEPT !.inv = e] \in Row
  BY DEF Row
<1>8. \A t \in {"published", "preparing", "prepared"} : [r EXCEPT !.phase = t] \in Row
  BY DEF Row
<1>9. QED
  BY <1>1, <1>2, <1>3, <1>4, <1>5, <1>6, <1>7, <1>8

LEMMA StayedCalm ==
  ASSUME NEW r \in Row
  PROVE  Calm(r, r)
BY DEF Calm, Steady

\* finish_and_release, of the decision b alone.
LEMMA ReleaseFollows ==
  ASSUME NEW bs \in Seq(Row), NEW b \in DOMAIN bs,
         NEW s \in {"succeeded", "blocked"} \cup Ended,
         bs[b].kind = "activation" /\ s \in Ended => OwnsNothing(bs[b])
  PROVE  Follows(bs, finish_and_release(bs, b, s), b)
<1> DEFINE f == finish_and_release(bs, b, s)
           q == [bs[b] EXCEPT !.state = s, !.job = "none"]
<1>1. f = [bs EXCEPT ![b].state = s, ![b].job = "none"]
  BY DEF finish_and_release
<1>2. /\ f = [x \in DOMAIN bs |-> f[x]]
      /\ f[b] = q
      /\ \A x \in DOMAIN bs : x # b => f[x] = bs[x]
  BY <1>1
<1>3. bs[b] \in Row /\ \A x \in DOMAIN bs : bs[x] \in Row
  OBVIOUS
<1>4. Calm(bs[b], q)
  <2>1. /\ q.state = s /\ q.job = "none" /\ q.kind = bs[b].kind /\ q.rev = bs[b].rev /\ q.src = bs[b].src
        /\ q.eff = bs[b].eff /\ q.inv = bs[b].inv
    BY <1>3 DEF Row
  <2>2. q \in Row
    BY <1>3 DEF Row, Ended, Jobs
  <2>3. bs[b].kind = "activation" => ActivationFits(q)
    <3> HIDE DEF q
    <3>1. bs[b].kind = "activation" /\ s \in Ended => OwnsNothing(q)
      BY <2>1 DEF OwnsNothing
    <3>2. QED
      BY <2>1, <3>1 DEF ActivationFits
  <2>4. QED
    BY <2>1, <2>2, <2>3 DEF Calm, Steady
<1>5. \A x \in DOMAIN bs : Calm(bs[x], f[x])
  BY <1>2, <1>3, <1>4, StayedCalm
<1> HIDE DEF f
<1>6. Follows(bs, f, b)
  BY <1>2, <1>5 DEF Follows
<1>7. QED
  BY <1>6 DEF f

\* finalize_recovery_child: an activation is closed as compensated only when
\* nothing of it is doubtful or left.
LEMMA FinalizeFollows ==
  ASSUME NEW bs \in Seq(Row), NEW c \in DOMAIN bs, bs[c].kind = "recovery"
  PROVE  /\ Follows(bs, finalize_recovery_child(bs, c), c)
         /\ \A x \in DOMAIN bs : /\ finalize_recovery_child(bs, c)[x].eff = bs[x].eff
                                 /\ finalize_recovery_child(bs, c)[x].inv = bs[x].inv
                                 /\ finalize_recovery_child(bs, c)[x].job \in {"none", bs[x].job}
<1> DEFINE doubtful(b) == \E i \in Rows : \/ bs[b].eff[i] \in {"pending", "unknown"}
                                          \/ bs[b].inv[i] \in {"running", "unknown"}
           left(b) == \E i \in Rows : bs[b].eff[i] = "changed" /\ bs[b].inv[i] # "done"
           sources == SourcesOf(bs[c].src)
           frozen == \E b \in sources : doubtful(b) \/ bs[b].claim # c
           restored == {b \in sources : ~frozen /\ ~left(b)}
           closed == [bs[c] EXCEPT !.job = "none",
                             !.state = IF frozen THEN "blocked"
                                       ELSE IF restored = sources THEN "succeeded" ELSE "failed"]
           settled(b) ==
            IF b = c THEN closed
            ELSE IF b \notin sources \/ bs[b].claim # c THEN bs[b]
            ELSE IF frozen THEN [bs[b] EXCEPT !.blocked = TRUE]
            ELSE IF b \in restored
            THEN [bs[b] EXCEPT !.claim = None, !.blocked = FALSE,
                               !.state = IF @ = "blocked" THEN "compensated" ELSE @]
            ELSE [bs[b] EXCEPT !.claim = None, !.blocked = TRUE]
           f == finalize_recovery_child(bs, c)
<1>1. f = [x \in DOMAIN bs |-> settled(x)]
  BY DEF finalize_recovery_child
<1>2. \A x \in DOMAIN bs : bs[x] \in Row
  OBVIOUS
<1>3. ASSUME NEW x \in DOMAIN bs
      PROVE  /\ settled(x) \in Row /\ settled(x).kind = bs[x].kind /\ settled(x).rev = bs[x].rev
             /\ settled(x).src = bs[x].src /\ settled(x).eff = bs[x].eff /\ settled(x).inv = bs[x].inv
             /\ settled(x).job \in {"none", bs[x].job}
             /\ x # c => settled(x).job = bs[x].job
             /\ x # c => \/ settled(x).state = bs[x].state
                         \/ /\ bs[x].state = "blocked" /\ settled(x).state = "compensated"
                            /\ x \in sources /\ ~frozen /\ ~left(x)
             /\ x # c /\ bs[x].claim # c => settled(x) = bs[x]
  <2> HIDE DEF doubtful, left, sources
  <2>0. bs[x] \in Row
    OBVIOUS
  <2>1. CASE x = c
    <3> DEFINE s == IF frozen THEN "blocked" ELSE IF restored = sources THEN "succeeded" ELSE "failed"
    <3>1. s \in {"blocked", "succeeded", "failed"}
      OBVIOUS
    <3>2. settled(x) = [bs[x] EXCEPT !.job = "none", !.state = s]
      BY <2>1
    <3> HIDE DEF s, settled, frozen, restored
    <3>3. settled(x) \in Row
      <4> DEFINE a == [bs[x] EXCEPT !.job = "none"]
      <4>1. a \in Row
        BY <2>0 DEF Row, Jobs
      <4>2. [a EXCEPT !.state = s] \in Row
        <5> HIDE DEF a
        <5>1. QED
          BY <3>1, <4>1 DEF Row, Ended
      <4>3. QED
        BY <3>2, <4>2
    <3>4. /\ settled(x).kind = bs[x].kind /\ settled(x).rev = bs[x].rev
          /\ settled(x).src = bs[x].src /\ settled(x).eff = bs[x].eff
          /\ settled(x).inv = bs[x].inv /\ settled(x).job = "none"
      BY <2>0, <3>2 DEF Row
    <3>5. QED
      BY <2>1, <3>3, <3>4
  <2>2. CASE x # c /\ (x \notin sources \/ bs[x].claim # c)
    <3>1. settled(x) = bs[x]
      BY <2>2
    <3> HIDE DEF settled
    <3>2. QED
      BY <2>0, <2>2, <3>1
  <2>3. CASE x # c /\ x \in sources /\ bs[x].claim = c /\ frozen
    <3>1. settled(x) = [bs[x] EXCEPT !.blocked = TRUE]
      BY <2>3
    <3> HIDE DEF settled
    <3>2. QED
      BY <2>0, <2>3, <3>1 DEF Row
  <2>4. CASE x # c /\ x \in sources /\ bs[x].claim = c /\ ~frozen /\ x \in restored
    <3> DEFINE s == IF bs[x].state = "blocked" THEN "compensated" ELSE bs[x].state
    <3>1. settled(x) = [bs[x] EXCEPT !.claim = 0, !.blocked = FALSE, !.state = s]
      BY <2>4 DEF None
    <3>2. ~left(x)
      BY <2>4
    <3>3. s = bs[x].state \/ (bs[x].state = "blocked" /\ s = "compensated")
      OBVIOUS
    <3>4. s \in {"planned", "running", "succeeded", "blocked"} \cup Ended
      BY <2>0, <3>3 DEF Row, Ended
    <3> HIDE DEF settled, s, frozen, restored
    <3> DEFINE p == [bs[x] EXCEPT !.claim = 0]
               q == [p EXCEPT !.blocked = FALSE]
    <3>a. p \in Row
      BY <2>0, RowUpdates
    <3>b. q \in Row
      BY <3>a, RowUpdates
    <3>c. settled(x) = [q EXCEPT !.state = s]
      BY <3>1
    <3> HIDE DEF q
    <3>5. settled(x) \in Row
      BY <3>b, <3>c, <3>4, RowUpdates
    <3>6. /\ settled(x).kind = bs[x].kind /\ settled(x).rev = bs[x].rev /\ settled(x).src = bs[x].src
          /\ settled(x).eff = bs[x].eff /\ settled(x).inv = bs[x].inv
          /\ settled(x).job = bs[x].job /\ settled(x).state = s
      BY <2>0, <3>1 DEF Row
    <3>7. QED
      BY <2>4, <3>2, <3>3, <3>5, <3>6
  <2>5. CASE x # c /\ x \in sources /\ bs[x].claim = c /\ ~frozen /\ x \notin restored
    <3>1. settled(x) = [bs[x] EXCEPT !.claim = 0, !.blocked = TRUE]
      BY <2>5 DEF None
    <3> HIDE DEF settled, frozen, restored
    <3> DEFINE p == [bs[x] EXCEPT !.claim = 0]
    <3>a. p \in Row
      BY <2>0, RowUpdates
    <3>b. settled(x) = [p EXCEPT !.blocked = TRUE]
      BY <3>1
    <3>2. settled(x) \in Row
      BY <3>a, <3>b, RowUpdates
    <3>3. /\ settled(x).kind = bs[x].kind /\ settled(x).rev = bs[x].rev /\ settled(x).src = bs[x].src
          /\ settled(x).eff = bs[x].eff /\ settled(x).inv = bs[x].inv
          /\ settled(x).job = bs[x].job /\ settled(x).state = bs[x].state
      BY <2>0, <3>1 DEF Row
    <3>4. QED
      BY <2>5, <3>2, <3>3
  <2>6. QED
    BY <2>1, <2>2, <2>3, <2>4, <2>5
<1>4. \A x \in DOMAIN bs : f[x] = settled(x)
  BY <1>1
<1> HIDE DEF f, settled
<1>5. ASSUME NEW x \in DOMAIN bs PROVE Calm(bs[x], f[x])
  <2>1. CASE x = c
    BY <1>3, <1>4, <2>1 DEF Calm, Steady
  <2>2. CASE x # c
    <3>1. ASSUME bs[x].kind = "activation", ActivationFits(bs[x]) PROVE ActivationFits(f[x])
      <4>1. /\ f[x].job = bs[x].job /\ f[x].eff = bs[x].eff /\ f[x].inv = bs[x].inv
        BY <1>3, <1>4, <2>2
      <4>2. CASE f[x].state = bs[x].state
        BY <3>1, <4>1, <4>2 DEF ActivationFits, OwnsNothing
      <4>3. CASE /\ bs[x].state = "blocked" /\ f[x].state = "compensated"
                 /\ x \in sources /\ ~frozen /\ ~left(x)
        <5>1. \A i \in Rows : bs[x].eff[i] \in Effects
          BY <1>2 DEF Row
        <5>2. OwnsNothing(f[x])
          BY <4>1, <4>3, <5>1 DEF OwnsNothing, Effects
        <5>3. bs[x].job = "none"
          BY <3>1, <4>3 DEF ActivationFits
        <5>4. QED
          BY <4>1, <5>2, <5>3 DEF ActivationFits
      <4>4. QED
        BY <1>3, <1>4, <2>2, <4>2, <4>3
    <3>2. QED
      BY <1>3, <1>4, <2>2, <3>1 DEF Calm, Steady
  <2>3. QED
    BY <2>1, <2>2
<1>6. ASSUME NEW x \in DOMAIN bs, x # c, IsFresh(bs[x]) PROVE IsFresh(f[x])
  <2>1. c # None
    BY DEF None
  <2>2. QED
    BY <1>3, <1>4, <1>6, <2>1 DEF IsFresh
<1>7. f = [x \in DOMAIN bs |-> f[x]]
  BY <1>1, <1>4
<1>8. Follows(bs, f, c)
  BY <1>5, <1>6, <1>7 DEF Follows
<1>9. QED
  BY <1>3, <1>4, <1>8 DEF f

LEMMA FailedFollows ==
  ASSUME NEW bs \in Seq(Row), NEW b \in DOMAIN bs, bs[b].kind = "activation" => OwnsNothing(bs[b])
  PROVE  Follows(bs, Failed(bs, b), b)
<1>1. CASE bs[b].kind = "recovery"
  BY <1>1, FinalizeFollows DEF Failed
<1>2. CASE bs[b].kind # "recovery"
  <2>1. Follows(bs, finish_and_release(bs, b, "failed"), b)
    BY ReleaseFollows DEF Ended
  <2>2. QED
    BY <1>2, <2>1 DEF Failed
<1>3. QED
  BY <1>1, <1>2

\* The rows in flight of a decision without a worker become uncertain.
LEMMA QuarantineFollows ==
  ASSUME NEW bs \in Seq(Row), NEW b \in DOMAIN bs,
         bs[b].kind = "activation" => bs[b].job \in {"none", "dead"}
  PROVE  /\ Follows(bs, Quarantined(bs, b), b)
         /\ \A x \in DOMAIN bs : Quarantined(bs, b)[x].job = bs[x].job
<1> DEFINE mine(x, i) == x = b \/ <<x, i>> \in bs[b].src
           E(x) == [i \in Rows |-> IF x = b /\ bs[x].eff[i] = "pending" THEN "unknown" ELSE bs[x].eff[i]]
           I(x) == [i \in Rows |-> IF mine(x, i) /\ bs[x].inv[i] = "running" THEN "unknown" ELSE bs[x].inv[i]]
           q(x) == [[bs[x] EXCEPT !.eff = E(x)] EXCEPT !.inv = I(x)]
           f == Quarantined(bs, b)
<1>1. f = [x \in DOMAIN bs |-> q(x)]
  BY DEF Quarantined
<1>2. ASSUME NEW x \in DOMAIN bs
      PROVE  /\ q(x) \in Row /\ q(x).kind = bs[x].kind /\ q(x).rev = bs[x].rev /\ q(x).src = bs[x].src
             /\ q(x).job = bs[x].job /\ q(x).state = bs[x].state /\ q(x).claim = bs[x].claim
             /\ q(x).eff = E(x) /\ q(x).inv = I(x)
  <2>0. bs[x] \in Row
    OBVIOUS
  <2>1. bs[x] \in Row /\ bs[x].eff \in [Rows -> Effects] /\ bs[x].inv \in [Rows -> Inverses]
    BY <2>0 DEF Row
  <2>2. E(x) \in [Rows -> Effects]
    BY <2>1 DEF Effects
  <2>3. I(x) \in [Rows -> Inverses]
    BY <2>1 DEF Inverses
  <2> HIDE DEF E, I
  <2> DEFINE p == [bs[x] EXCEPT !.eff = E(x)]
  <2>4. p \in Row
    BY <2>1, <2>2, RowUpdates
  <2>5. /\ p.kind = bs[x].kind /\ p.rev = bs[x].rev /\ p.src = bs[x].src
        /\ p.job = bs[x].job /\ p.state = bs[x].state /\ p.claim = bs[x].claim
        /\ p.eff = E(x)
    BY <2>1 DEF Row
  <2>6. q(x) = [p EXCEPT !.inv = I(x)]
    OBVIOUS
  <2> HIDE DEF p, q
  <2>7. q(x) \in Row
    BY <2>3, <2>4, <2>6, RowUpdates
  <2>8. /\ q(x).kind = p.kind /\ q(x).rev = p.rev /\ q(x).src = p.src /\ q(x).job = p.job
        /\ q(x).state = p.state /\ q(x).claim = p.claim /\ q(x).eff = p.eff /\ q(x).inv = I(x)
    BY <2>4, <2>6 DEF Row
  <2>9. QED
    BY <2>5, <2>7, <2>8
<1>3. ASSUME NEW x \in DOMAIN bs, NEW i \in Rows
      PROVE  /\ E(x)[i] \in {"unknown", bs[x].eff[i]} /\ (bs[x].eff[i] # "pending" => E(x)[i] = bs[x].eff[i])
             /\ x # b => E(x)[i] = bs[x].eff[i]
             /\ bs[x].inv[i] = "done" => I(x)[i] = "done"
  OBVIOUS
<1>4. \A x \in DOMAIN bs : f[x] = q(x)
  BY <1>1
<1>5. f = [x \in DOMAIN bs |-> f[x]]
  BY <1>1, <1>4
<1> HIDE DEF E, I, q, f
<1>6. ASSUME NEW x \in DOMAIN bs PROVE Calm(bs[x], f[x])
  <2>1. ASSUME bs[x].kind = "activation", ActivationFits(bs[x]) PROVE ActivationFits(f[x])
    <3>1. OwnsNothing(bs[x]) => OwnsNothing(f[x])
      BY <1>2, <1>3, <1>4 DEF OwnsNothing
    <3>2. CASE x = b
      BY <1>2, <1>4, <2>1, <3>1, <3>2 DEF ActivationFits
    <3>3. CASE x # b
      BY <1>2, <1>3, <1>4, <2>1, <3>1, <3>3 DEF ActivationFits
    <3>4. QED
      BY <3>2, <3>3
  <2>2. \A i \in Rows : f[x].eff[i] = "changed" => bs[x].eff[i] = "changed"
    BY <1>2, <1>3, <1>4
  <2>3. QED
    BY <1>2, <1>4, <2>1, <2>2 DEF Calm, Steady
<1>7. ASSUME NEW x \in DOMAIN bs, x # b, IsFresh(bs[x]) PROVE IsFresh(f[x])
  BY <1>2, <1>3, <1>4, <1>7 DEF IsFresh
<1>8. QED
  BY <1>2, <1>4, <1>5, <1>6, <1>7 DEF Follows, f

\* What becomes of a decision whose worker failed, or never got it; the
\* settlement may end with the quarantine.
LEMMA SettleFollows ==
  ASSUME bundle \in Seq(Row), NEW b \in Decisions,
         bundle[b].kind = "activation" => bundle[b].job \in {"none", "dead"}
  PROVE  /\ Follows(bundle, settle_worker_failure(bundle, b), b)
         /\ Follows(bundle, quarantine_interrupted_worker_bundle(bundle, b), b)
<1> DEFINE q == Quarantined(bundle, b)
           z == IF Open(b) THEN finish_and_release(q, b, "blocked") ELSE q
<1>0. b \in DOMAIN bundle /\ z = quarantine_interrupted_worker_bundle(bundle, b)
  BY DEF Decisions, quarantine_interrupted_worker_bundle
<1>9. Follows(bundle, z, b)
  <2>1. Follows(bundle, q, b) /\ q[b].job = bundle[b].job
    BY <1>0, QuarantineFollows
  <2>2. q \in Seq(Row) /\ DOMAIN q = DOMAIN bundle
    BY <1>0, <2>1, FollowsIsSeq
  <2>3. Follows(q, finish_and_release(q, b, "blocked"), b)
    BY <1>0, <2>2, ReleaseFollows DEF Ended
  <2>4. QED
    BY <1>0, <2>1, <2>2, <2>3, FollowsOn
<1> HIDE DEF q, z
<1>1. ASSUME unstarted(bundle, b) PROVE Follows(bundle, settle_worker_failure(bundle, b), b)
  <2>1. OwnsNothing(bundle[b])
    BY <1>0, <1>1 DEF unstarted, NoRowYet, OwnsNothing
  <2>2. QED
    BY <1>0, <1>1, <2>1, FailedFollows DEF settle_worker_failure
<1>2. ASSUME ~unstarted(bundle, b) PROVE Follows(bundle, settle_worker_failure(bundle, b), b)
  <2>1. z \in Seq(Row) /\ DOMAIN z = DOMAIN bundle /\ z[b].kind = bundle[b].kind
    BY <1>0, <1>9, FollowsIsSeq DEF Follows, Calm, Steady
  <2>2. CASE bundle[b].kind = "recovery"
    <3>1. Follows(z, finalize_recovery_child(z, b), b)
      BY <1>0, <2>1, <2>2, FinalizeFollows
    <3>2. Follows(bundle, finalize_recovery_child(z, b), b)
      BY <1>9, <3>1, FollowsOn
    <3>3. QED
      BY <1>0, <1>2, <2>2, <3>2 DEF settle_worker_failure
  <2>3. CASE bundle[b].kind # "recovery"
    BY <1>0, <1>2, <1>9, <2>3 DEF settle_worker_failure
  <2>4. QED
    BY <2>2, <2>3
<1>3. QED
  BY <1>0, <1>1, <1>2, <1>9

-----------------------------------------------------------------------------
(* The inductive invariant of the workers and the operators *)

\* A router command is sent under the policy fence and with the authority that
\* was checked under it.
ActHoldsFence == \A b \in Decisions : bundle[b].job = "act" => fence = b
ActAuthorized ==
    \A b \in Decisions :
        bundle[b].job = "act" /\ bundle[b].kind = "activation"
        => rule.enabled /\ rule.auto /\ armed /\ rule.rev = bundle[b].rev
EditHoldsFence == op.pc = "edit" => fence = Never

DownIsIdle == ~up => ev = Idle /\ \A b \in Decisions : bundle[b].job = "none"

\* The evaluation goes on after its submission.
Looking == ev.pc \in {"decide", "recover", "clear"} \/ (ev.pc = "submit" /\ ev.next = "clear")

\* What the evaluation carries: the rule it loaded, whose condition may have
\* been edited since, the changes it saw, and a decision no worker has.
EvFits ==
    /\ "pc" \in DOMAIN ev
    /\ ev.pc = "loaded" \/ Looking =>
         "rule" \in DOMAIN ev /\ ev.rule \in Rules
    /\ Looking => {"held", "obs"} \subseteq DOMAIN ev /\ ev.held \subseteq Forward
    /\ ev.pc = "submit" => /\ ev.next \in {"idle", "clear"} /\ ev.id \in Decisions
                           /\ bundle[ev.id].kind = "activation" => IsFresh(bundle[ev.id])

WorkerInv == /\ rule \in Rules /\ Bundles /\ ActHoldsFence /\ ActAuthorized
             /\ EditHoldsFence /\ DownIsIdle /\ EvFits

\* What every step keeps: decisions stay what they are, and a router is only
\* written by an action under way.
Continues == /\ DOMAIN bundle \subseteq DOMAIN bundle'
             /\ \A b \in Decisions : bundle'[b].kind = bundle[b].kind
Writes == \A b \in Decisions, i \in Rows :
             bundle[b].eff[i] = "pending" /\ bundle'[b].eff[i] = "changed" => bundle[b].job = "act"

LEMMA WorkerInit == Init => WorkerInv
<1> SUFFICES ASSUME Init PROVE WorkerInv
  OBVIOUS
<1>1. PICK s \in Shapes :
          rule = [flow |-> s.flow, members |-> s.members, fire |-> s.fire, mode |-> s.mode,
                  recover |-> s.recover, duration |-> s.duration, samples |-> s.samples,
                  auto |-> s.auto, enabled |-> TRUE, revert |-> TRUE, rev |-> 0]
  BY DEF Init
<1>2. rule \in Rules
  BY <1>1, DetectionAssumption DEF Rules
<1>3. bundle = <<>> /\ ev = [pc |-> "idle"] /\ op = [pc |-> "idle"] /\ up = TRUE
  BY DEF Init, Idle
<1>4. Decisions = {}
  BY <1>3 DEF Decisions
<1>5. Bundles
  BY <1>3, <1>4 DEF Bundles
<1>6. EvFits
  BY <1>3 DEF EvFits, Looking
<1>7. QED
  BY <1>2, <1>3, <1>4, <1>5, <1>6
  DEF WorkerInv, ActHoldsFence, ActAuthorized, EditHoldsFence, DownIsIdle

\* Steps that change no decision, no rule and no fence.
LEMMA BundleKept ==
  ASSUME WorkerInv, bundle' = bundle, rule' = rule, armed' = armed, fence' = fence,
         up' = up, op'.pc = "edit" => op.pc = "edit", EvFits', up \/ ev' = ev
  PROVE  WorkerInv' /\ Continues /\ Writes
<1>1. Decisions' = Decisions
  BY DEF Decisions
<1>2. Continues
  BY <1>1 DEF Continues, Decisions
<1>3. Writes
  <2> SUFFICES ASSUME NEW b \in Decisions, NEW i \in Rows,
                      bundle[b].eff[i] = "pending", bundle'[b].eff[i] = "changed"
               PROVE  FALSE
    BY DEF Writes
  <2> QED
    OBVIOUS
<1>4. Bundles'
  BY <1>1 DEF WorkerInv, Bundles
<1>5. ActHoldsFence' /\ ActAuthorized' /\ EditHoldsFence' /\ DownIsIdle'
  BY <1>1 DEF WorkerInv, ActHoldsFence, ActAuthorized, EditHoldsFence, DownIsIdle, Idle
<1>6. QED
  BY <1>2, <1>3, <1>4, <1>5 DEF WorkerInv

LEMMA MinOf ==
  ASSUME NEW S, S \subseteq Int, IsFiniteSet(S), S # {}
  PROVE  Min(S) \in S /\ \A y \in S : Min(S) <= y
<1> DEFINE u == [a \in S |-> {e \in S : e < a}]
           T == {u[a] : a \in S}
<1>1. \A a \in S : u[a] \in SUBSET S /\ IsFiniteSet(u[a])
  BY FS_Subset
<1>2. \A a, e \in S : e \in u[a] <=> e < a
  OBVIOUS
<1> HIDE DEF u
<1>3. T # {} /\ T \subseteq FiniteSubsetsOf(S)
  BY <1>1 DEF FiniteSubsetsOf
<1>4. IsWellFoundedOn(StrictSubsetOrdering(S), FiniteSubsetsOf(S))
  BY FS_StrictSubsetOrderingWellFounded
<1>5. PICK X \in T : \A Y \in T : ~(<<Y, X>> \in StrictSubsetOrdering(S))
  BY <1>3, <1>4, WFMin
<1>6. PICK a \in S : X = u[a]
  BY <1>5
<1>7. ASSUME NEW e \in S, e < a PROVE FALSE
  <2>0. \A x \in S : x \in Int
    OBVIOUS
  <2>1. u[e] \subseteq u[a] /\ e \in u[a] /\ e \notin u[e]
    <3>1. e \in u[a] /\ e \notin u[e]
      BY <2>0, <1>2, <1>7
    <3>2. ASSUME NEW x \in u[e] PROVE x \in u[a]
      <4>1. x \in S /\ x < e
        BY <1>1, <1>2
      <4>2. x < a
        BY <2>0, <4>1, <1>7
      <4>3. QED
        BY <1>2, <4>1, <4>2
    <3>3. QED
      BY <3>1, <3>2
  <2>2. <<u[e], u[a]>> \in StrictSubsetOrdering(S)
    BY <1>1, <2>1 DEF StrictSubsetOrdering
  <2>3. QED
    BY <1>5, <1>6, <2>2
<1>8. \A y \in S : a <= y
  <2>1. ASSUME NEW y \in S PROVE a <= y
    <3>1. a \in Int /\ y \in Int /\ ~(y < a)
      BY <1>7
    <3>2. QED
      BY <3>1
  <2>2. QED
    BY <2>1
<1>9. QED
  BY <1>8 DEF Min

\* The evaluator between two of its looks at the decisions.
LEMMA EvaluatorIdles ==
  ASSUME WorkerInv, bundle' = bundle, rule' = rule, armed' = armed, fence' = fence,
         op' = op, up' = up, up,
         \/ ev' = Idle
         \/ ev' = [pc |-> "loaded", rule |-> rule]
         \/ Looking /\ \E pc \in {"recover", "clear"} : ev' = [ev EXCEPT !.pc = pc]
         \/ ev.pc = "loaded" /\ \E o, p : ev' = [pc |-> "decide", rule |-> ev.rule, obs |-> o, held |-> Held, prev |-> p]
         \/ \E c \in Children : ev' = Submitting(c)
  PROVE  WorkerInv' /\ Continues /\ Writes
<1>0. /\ rule \in Rules /\ EvFits /\ Decisions' = Decisions /\ Forward' = Forward
      /\ \A b : bundle'[b] = bundle[b]
  BY DEF WorkerInv, Forward, Decisions
<1>1. CASE ev' = Idle
  <2>1. EvFits'
    BY <1>1 DEF EvFits, Looking, Idle
  <2>2. QED
    BY <2>1, BundleKept
<1>2. CASE ev' = [pc |-> "loaded", rule |-> rule]
  <2>1. EvFits'
    BY <1>0, <1>2 DEF EvFits, Looking
  <2>2. QED
    BY <2>1, BundleKept
<1>3. CASE Looking /\ \E pc \in {"recover", "clear"} : ev' = [ev EXCEPT !.pc = pc]
  <2>1. PICK pc \in {"recover", "clear"} : ev' = [ev EXCEPT !.pc = pc]
    BY <1>3
  <2>2. /\ ev'.pc = pc /\ DOMAIN ev' = DOMAIN ev
        /\ ev'.rule = ev.rule /\ ev'.held = ev.held
    BY <1>0, <1>3, <2>1 DEF EvFits
  <2>3. EvFits'
    BY <1>0, <1>3, <2>2 DEF EvFits, Looking
  <2>4. QED
    BY <2>3, BundleKept
<1>4. CASE ev.pc = "loaded" /\ \E o, p : ev' = [pc |-> "decide", rule |-> ev.rule, obs |-> o, held |-> Held, prev |-> p]
  <2>1. Held \subseteq Forward
    BY DEF Held
  <2>2. EvFits'
    BY <1>0, <1>4, <2>1 DEF EvFits, Looking
  <2>3. QED
    BY <2>2, BundleKept
<1>5. CASE \E c \in Children : ev' = Submitting(c)
  <2>1. PICK c \in Children : ev' = [pc |-> "submit", id |-> c, next |-> "idle"]
    BY <1>5 DEF Submitting
  <2>2. c \in Decisions /\ bundle[c].kind = "recovery"
    BY DEF Children
  <2>3. EvFits'
    BY <1>0, <2>1, <2>2 DEF EvFits, Looking
  <2>4. QED
    BY <2>3, BundleKept
<1>6. QED
  BY <1>1, <1>2, <1>3, <1>4, <1>5

LEMMA EvaluatorQuiet ==
  ASSUME WorkerInv, EvalLoad \/ EvalObserve \/ EvalQuiet \/ EvalClear
  PROVE  WorkerInv' /\ Continues /\ Writes
<1>1. CASE EvalLoad
  BY <1>1, EvaluatorIdles DEF EvalLoad
<1>2. CASE EvalObserve
  <2>1. /\ ev.pc = "loaded" /\ up /\ UNCHANGED <<rule, armed, bundle, fence, op, up>>
        /\ ev' = Idle \/ \E o, p : ev' = [pc |-> "decide", rule |-> ev.rule, obs |-> o, held |-> Held, prev |-> p]
    BY <1>2, Zenon DEF EvalObserve
  <2>2. QED
    BY <2>1, EvaluatorIdles
<1>3. CASE EvalQuiet
  <2>1. /\ ev.pc = "decide" /\ up /\ UNCHANGED <<rule, armed, bundle, fence, op, up>>
    BY <1>3, Zenon DEF EvalQuiet
  <2>2. \/ ev' = Idle
        \/ ev' = [ev EXCEPT !.pc = "recover"]
        \/ Unsubmitted # {} /\ ev' = Submitting(Min(Unsubmitted))
    BY <1>3 DEF EvalQuiet
  <2>3. CASE Unsubmitted # {} /\ ev' = Submitting(Min(Unsubmitted))
    <3>1. Unsubmitted \subseteq Children /\ Unsubmitted \subseteq 1..Len(bundle)
      BY DEF Unsubmitted, Children, Decisions, WorkerInv, Bundles
    <3>2. IsFiniteSet(Unsubmitted)
      <4>1. Len(bundle) \in Nat
        BY DEF WorkerInv, Bundles
      <4>2. IsFiniteSet(1..Len(bundle))
        BY <4>1, FS_Interval
      <4>3. QED
        BY <3>1, <4>2, FS_Subset
    <3>3. Unsubmitted \subseteq Int /\ Unsubmitted # {}
      BY <2>3, <3>1
    <3>4. Min(Unsubmitted) \in Unsubmitted
      BY <3>2, <3>3, MinOf
    <3>5. Min(Unsubmitted) \in Children
      BY <3>1, <3>4
    <3>6. QED
      BY <2>1, <2>3, <3>5, EvaluatorIdles
  <2>4. Looking
    BY <2>1 DEF Looking
  <2>5. QED
    BY <2>1, <2>2, <2>3, <2>4, EvaluatorIdles
<1>4. CASE EvalClear
  BY <1>4, EvaluatorIdles DEF EvalClear
<1>5. QED
  BY <1>1, <1>2, <1>3, <1>4

\* A decision is published with no row and no worker.
LEMMA PublishKeeps ==
  ASSUME WorkerInv, NEW k \in {"activation", "recovery"}, NEW src \in SUBSET (Nat \X Rows), NEW rev \in Nat,
         NEW f, f = [x \in Decisions |-> f[x]],
         \A x \in Decisions : \E n \in Nat : f[x] = [bundle[x] EXCEPT !.claim = n],
         bundle' = Append(f, Decision(k, src, rev)),
         rule' = rule, armed' = armed, fence' = fence, op' = op, up' = up, up,
         \/ ev' = Submitting(Len(bundle) + 1)
         \/ /\ Looking
            /\ ev' = [pc |-> "submit", id |-> Len(bundle) + 1, next |-> "clear",
                      rule |-> ev.rule, obs |-> ev.obs, held |-> ev.held]
  PROVE  WorkerInv' /\ Continues /\ Writes
<1> DEFINE n == Len(bundle)
           d == Decision(k, src, rev)
<1>1. bundle \in Seq(Row) /\ n \in Nat /\ Decisions = 1..n
  BY DEF WorkerInv, Bundles, Decisions
<1>2. ASSUME NEW x \in Decisions
      PROVE  /\ f[x] \in Row /\ f[x].kind = bundle[x].kind /\ f[x].job = bundle[x].job
             /\ f[x].rev = bundle[x].rev /\ f[x].eff = bundle[x].eff
             /\ f[x].state = bundle[x].state /\ f[x].inv = bundle[x].inv
  <2>1. PICK m \in Nat : f[x] = [bundle[x] EXCEPT !.claim = m]
    OBVIOUS
  <2>2. bundle[x] \in Row
    BY <1>1
  <2>3. f[x] \in Row
    BY <2>1, <2>2, RowUpdates
  <2>4. QED
    BY <2>1, <2>2, <2>3 DEF Row
<1>3. f \in Seq(Row) /\ Len(f) = n
  <2>1. f \in [1..n -> Row]
    BY <1>1, <1>2
  <2>2. QED
    BY <1>1, <2>1
<1> DEFINE none == [i \in Rows |-> "none"]
<1>4. d = [kind |-> k, state |-> "planned", phase |-> "published", rev |-> rev,
           job |-> "none", src |-> src, claim |-> 0, cancelled |-> FALSE, blocked |-> FALSE,
           eff |-> none, inv |-> none]
  BY Zenon DEF Decision, None
<1>5. d \in Row /\ d.kind = k /\ d.job = "none" /\ d.state = "planned" /\ d.claim = 0
      /\ \A i \in Rows : d.eff[i] = "none"
  <2>1. none \in [Rows -> Effects] /\ none \in [Rows -> Inverses] /\ \A i \in Rows : none[i] = "none"
    BY DEF Effects, Inverses
  <2> HIDE DEF none, d
  <2>2. d \in Row
    BY <1>4, <2>1 DEF Row, Jobs
  <2>3. QED
    BY <1>4, <2>1, <2>2
<1> HIDE DEF d
<1>6. /\ bundle' \in Seq(Row) /\ Decisions' = 1..(n + 1) /\ bundle'[n + 1] = d
      /\ \A x \in Decisions : bundle'[x] = f[x]
  BY <1>1, <1>3, <1>5 DEF d, Decisions
<1>7. ActivationFits(d) /\ IsFresh(d)
  BY <1>5 DEF ActivationFits, IsFresh, None, Ended
<1>8. Bundles'
  <2>1. ASSUME NEW x \in Decisions', bundle'[x].kind = "activation" PROVE ActivationFits(bundle'[x])
    <3>1. CASE x \in Decisions
      <4>1. ActivationFits(bundle[x])
        BY <1>2, <1>6, <2>1, <3>1 DEF WorkerInv, Bundles
      <4>2. QED
        BY <1>2, <1>6, <3>1, <4>1 DEF ActivationFits, OwnsNothing
    <3>2. CASE x = n + 1
      BY <1>6, <1>7, <3>2
    <3>3. QED
      BY <1>1, <1>6, <3>1, <3>2
  <2>2. QED
    BY <1>6, <2>1 DEF Bundles
<1>9. Continues
  BY <1>1, <1>2, <1>6 DEF Continues, Decisions
<1>10. Writes
  <2> SUFFICES ASSUME NEW b \in Decisions, NEW i \in Rows,
                      bundle[b].eff[i] = "pending", bundle'[b].eff[i] = "changed"
               PROVE  FALSE
    BY DEF Writes
  <2> QED
    BY <1>2, <1>6
<1>11. ASSUME NEW x \in Decisions', bundle'[x].job = "act"
       PROVE  x \in Decisions /\ bundle[x].job = "act" /\ bundle'[x].kind = bundle[x].kind
              /\ bundle'[x].rev = bundle[x].rev
  <2>1. x # n + 1
    BY <1>5, <1>6, <1>11
  <2>2. x \in Decisions
    BY <1>1, <1>6, <2>1
  <2>3. QED
    BY <1>2, <1>6, <1>11, <2>2
<1>12. ActHoldsFence' /\ ActAuthorized'
  BY <1>11 DEF WorkerInv, ActHoldsFence, ActAuthorized
<1>13. EditHoldsFence' /\ DownIsIdle'
  BY DEF WorkerInv, EditHoldsFence, DownIsIdle
<1>14. Forward \subseteq Forward'
  BY <1>1, <1>2, <1>6 DEF Forward
<1>15. EvFits'
  <2>1. n + 1 \in Decisions' /\ IsFresh(bundle'[n + 1])
    BY <1>1, <1>6, <1>7
  <2>2. CASE ev' = [pc |-> "submit", id |-> n + 1, next |-> "idle"]
    BY <2>1, <2>2 DEF EvFits, Looking
  <2>3. CASE Looking /\ ev' = [pc |-> "submit", id |-> n + 1, next |-> "clear",
                      rule |-> ev.rule, obs |-> ev.obs, held |-> ev.held]
    <3>1. ev.rule \in Rules /\ ev.held \subseteq Forward
      BY <2>3 DEF WorkerInv, EvFits
    <3>2. QED
      BY <1>14, <2>1, <2>3, <3>1 DEF EvFits, Looking
  <2>4. QED
    BY <2>2, <2>3 DEF Submitting
<1>16. QED
  BY <1>8, <1>9, <1>10, <1>12, <1>13, <1>15 DEF WorkerInv

LEMMA EvaluatorPublishes ==
  ASSUME WorkerInv, EvalMatched \/ EvalRecover
  PROVE  WorkerInv' /\ Continues /\ Writes
<1>0. bundle \in Seq(Row) /\ \A x \in Decisions : bundle[x] \in Row
  BY DEF WorkerInv, Bundles, Decisions
<1>1. CASE EvalMatched
  <2>1. /\ ev.pc = "decide" /\ up /\ UNCHANGED <<rule, armed, fence, op, up>>
        /\ \/ ev' = Idle /\ bundle' = bundle
           \/ /\ bundle' = Append(bundle, Decision("activation", {}, ev.rule.rev))
              /\ ev' = Submitting(Len(bundle) + 1)
    BY <1>1, Zenon DEF EvalMatched, on_fire
  <2>2. CASE ev' = Idle /\ bundle' = bundle
    BY <2>1, <2>2, EvaluatorIdles
  <2>3. CASE /\ bundle' = Append(bundle, Decision("activation", {}, ev.rule.rev))
             /\ ev' = Submitting(Len(bundle) + 1)
    <3>1. ev.rule.rev \in Nat
      BY <2>1 DEF WorkerInv, EvFits, Looking, Rules
    <3>2. bundle = [x \in Decisions |-> bundle[x]]
      BY <1>0 DEF Decisions
    <3>3. \A x \in Decisions : \E m \in Nat : bundle[x] = [bundle[x] EXCEPT !.claim = m]
      <4> SUFFICES ASSUME NEW x \in Decisions
                   PROVE  bundle[x].claim \in Nat /\ bundle[x] = [bundle[x] EXCEPT !.claim = bundle[x].claim]
        OBVIOUS
      <4> QED
        BY <1>0 DEF Row
    <3>4. rule' = rule /\ armed' = armed /\ fence' = fence /\ op' = op /\ up' = up /\ up
      BY <2>1
    <3>5. {} \in SUBSET (Nat \X Rows) /\ "activation" \in {"activation", "recovery"}
      OBVIOUS
    <3>6. QED
      BY <2>3, <3>1, <3>2, <3>3, <3>4, <3>5, PublishKeeps, Zenon
  <2>4. QED
    BY <2>1, <2>2, <2>3
<1>2. CASE EvalRecover
  <2>1. /\ ev.pc = "recover" /\ up /\ UNCHANGED <<rule, armed, fence, op, up>>
        /\ \/ ev' = Idle /\ bundle' = bundle
           \/ ev' = [ev EXCEPT !.pc = "clear"] /\ bundle' = bundle
           \/ publish_recovery_attempt
    BY <1>2 DEF EvalRecover
  <2>2. Looking
    BY <2>1 DEF Looking
  <2>3. CASE ev' = Idle /\ bundle' = bundle
    BY <2>1, <2>3, EvaluatorIdles
  <2>4. CASE ev' = [ev EXCEPT !.pc = "clear"] /\ bundle' = bundle
    BY <2>1, <2>2, <2>4, EvaluatorIdles
  <2>5. CASE publish_recovery_attempt
    <3> DEFINE c == Len(bundle) + 1
               f == [b \in Decisions |-> IF b \in SourcesOf(Originals) THEN [bundle[b] EXCEPT !.claim = c]
                                         ELSE bundle[b]]
    <3>1. CASE Claimable(Originals)
      <4>1. /\ bundle' = Append(f, Decision("recovery", Originals, rule.rev))
            /\ ev' = [pc |-> "submit", id |-> c, next |-> "clear",
                      rule |-> ev.rule, obs |-> ev.obs, held |-> ev.held]
        BY <2>5, <3>1 DEF publish_recovery_attempt
      <4>3. rule.rev \in Nat /\ c \in Nat
        BY <1>0 DEF WorkerInv, Rules
      <4>4. Originals \in SUBSET (Nat \X Rows)
        BY <1>0 DEF Originals, Forward, Decisions
      <4>5. \A x \in Decisions : \E m \in Nat : f[x] = [bundle[x] EXCEPT !.claim = m]
        <5> SUFFICES ASSUME NEW x \in Decisions
                     PROVE  \E m \in Nat : f[x] = [bundle[x] EXCEPT !.claim = m]
          OBVIOUS
        <5>1. CASE x \in SourcesOf(Originals)
          BY <4>3, <5>1
        <5>2. CASE x \notin SourcesOf(Originals)
          <6>1. bundle[x].claim \in Nat /\ bundle[x] = [bundle[x] EXCEPT !.claim = bundle[x].claim]
            BY <1>0 DEF Row
          <6>2. QED
            BY <5>2, <6>1
        <5>3. QED
          BY <5>1, <5>2
      <4>6. f = [x \in Decisions |-> f[x]]
        OBVIOUS
      <4> HIDE DEF f
      <4>7. rule' = rule /\ armed' = armed /\ fence' = fence /\ op' = op /\ up' = up /\ up
        BY <2>1
      <4>8. QED
        BY <2>2, <4>1, <4>3, <4>4, <4>5, <4>6, <4>7, PublishKeeps, Zenon
    <3>2. CASE ~Claimable(Originals)
      BY <2>1, <2>5, <3>2, EvaluatorIdles DEF publish_recovery_attempt
    <3>3. QED
      BY <3>1, <3>2
  <2>6. QED
    BY <2>1, <2>3, <2>4, <2>5
<1>3. QED
  BY <1>1, <1>2

-----------------------------------------------------------------------------
(* The workers *)

\* One step of the decision b.
LEMMA RowFollows ==
  ASSUME NEW bs \in Seq(Row), NEW b \in DOMAIN bs, NEW q, NEW f, f = [bs EXCEPT ![b] = q], Calm(bs[b], q)
  PROVE  Follows(bs, f, b)
<1>1. \A x \in DOMAIN bs : bs[x] \in Row
  OBVIOUS
<1>2. f[b] = q /\ (\A x \in DOMAIN bs : x # b => f[x] = bs[x]) /\ f = [x \in DOMAIN bs |-> f[x]]
  OBVIOUS
<1>3. \A x \in DOMAIN bs : Calm(bs[x], f[x])
  BY <1>1, <1>2, StayedCalm
<1>4. QED
  BY <1>2, <1>3 DEF Follows

\* A decision passes from one stage of its worker to another.
LEMMA JobCalm ==
  ASSUME NEW r \in Row, NEW j \in Jobs \ {"act"},
         r.kind = "activation" /\ ActivationFits(r) =>
           /\ j # "none" => r.state \in {"planned", "running"}
           /\ j \in {"queued", "prepare"} => \A i \in Rows : r.eff[i] = "none"
           /\ j \in {"run", "undo"} => \A i \in Rows : r.eff[i] \in {"none", "noop", "changed"}
  PROVE  /\ Calm(r, [r EXCEPT !.job = j])
         /\ \A t \in {"published", "preparing", "prepared"} : Calm(r, [r EXCEPT !.job = j, !.phase = t])
<1> DEFINE p == [r EXCEPT !.job = j]
<1>0. p \in Row
  BY RowUpdates
<1>1. p \in Row /\ p.job = j
  BY <1>0 DEF Row
<1>2. p.kind = r.kind /\ p.rev = r.rev /\ p.src = r.src /\ p.eff = r.eff /\ p.inv = r.inv /\ p.state = r.state
  BY DEF Row
<1> HIDE DEF p
<1>3. Calm(r, p)
  <2>1. r.kind = "activation" /\ ActivationFits(r) => ActivationFits(p)
    BY <1>1, <1>2 DEF ActivationFits, OwnsNothing
  <2>2. QED
    BY <1>1, <1>2, <2>1 DEF Calm, Steady
<1>4. ASSUME NEW t \in {"published", "preparing", "prepared"} PROVE Calm(r, [p EXCEPT !.phase = t])
  <2> DEFINE q == [p EXCEPT !.phase = t]
  <2>1. q \in Row
    BY <1>1, RowUpdates
  <2>2. /\ q.kind = p.kind /\ q.rev = p.rev /\ q.src = p.src /\ q.eff = p.eff /\ q.inv = p.inv
        /\ q.state = p.state /\ q.job = p.job
    BY <1>1 DEF Row
  <2> HIDE DEF q
  <2>3. ActivationFits(p) => ActivationFits(q)
    BY <2>2 DEF ActivationFits, OwnsNothing
  <2>4. QED
    BY <1>3, <2>1, <2>2, <2>3 DEF Calm, Steady, q
<1>5. QED
  BY <1>3, <1>4 DEF p

\* A step of some decision keeps the invariant when it keeps the evaluator's
\* decision and the fence of whoever is sending commands.
LEMMA SteadyKeeps ==
  ASSUME WorkerInv, NEW b, bundle' = [x \in Decisions |-> bundle'[x]],
         \A x \in Decisions : Steady(bundle[x], bundle'[x]),
         \A x \in Decisions : x # b /\ IsFresh(bundle[x]) => IsFresh(bundle'[x]),
         rule' = rule, armed' = armed, up' = up, up, EditHoldsFence',
         \A x \in Decisions : bundle'[x].job = "act" => fence' = x,
         \A x \in Decisions : bundle'[x].job = "act" /\ bundle[x].kind = "activation"
                              => rule.enabled /\ rule.auto /\ armed /\ rule.rev = bundle[x].rev,
         \/ ev' = ev /\ (b \in Decisions => ~IsFresh(bundle[b]))
         \/ ev' = Idle
         \/ ev.pc = "submit" /\ ev.next = "clear" /\ ev' = [ev EXCEPT !.pc = "clear"]
  PROVE  WorkerInv' /\ Continues
<1>1. bundle \in Seq(Row) /\ Decisions = 1..Len(bundle) /\ Len(bundle) \in Nat
  BY DEF WorkerInv, Bundles, Decisions
<1>2. /\ bundle' \in Seq(Row) /\ Decisions' = Decisions
  <2>1. \A x \in Decisions : bundle'[x] \in Row
    BY DEF Steady
  <2>2. bundle' \in [1..Len(bundle) -> Row]
    BY <1>1, <2>1
  <2>3. QED
    BY <1>1, <2>2 DEF Decisions
<1>3. Bundles'
  BY <1>2 DEF WorkerInv, Bundles, Steady
<1>4. Continues
  BY <1>2 DEF Continues, Decisions, Steady
<1>5. Forward' = Forward
  BY <1>2 DEF Forward, Steady
<1>6. ActHoldsFence' /\ ActAuthorized' /\ DownIsIdle'
  BY <1>2 DEF ActHoldsFence, ActAuthorized, DownIsIdle, Steady
<1>7. EvFits'
  <2>1. CASE ev' = ev /\ (b \in Decisions => ~IsFresh(bundle[b]))
    <3>1. ev.pc = "submit" /\ bundle[ev.id].kind = "activation" => IsFresh(bundle'[ev.id])
      BY <2>1 DEF WorkerInv, EvFits
    <3>2. ev.pc = "submit" => bundle'[ev.id].kind = bundle[ev.id].kind
      BY DEF WorkerInv, EvFits, Steady
    <3>3. QED
      BY <1>2, <1>5, <2>1, <3>1, <3>2 DEF WorkerInv, EvFits, Looking
  <2>2. CASE ev' = Idle
    BY <2>2 DEF EvFits, Looking, Idle
  <2>3. CASE ev.pc = "submit" /\ ev.next = "clear" /\ ev' = [ev EXCEPT !.pc = "clear"]
    <3>1. Looking /\ "pc" \in DOMAIN ev /\ {"rule", "held", "obs"} \subseteq DOMAIN ev
      BY <2>3 DEF WorkerInv, EvFits, Looking
    <3>2. ev'.pc = "clear" /\ DOMAIN ev' = DOMAIN ev /\ ev'.rule = ev.rule /\ ev'.held = ev.held
      BY <2>3, <3>1
    <3>3. QED
      BY <1>5, <3>1, <3>2 DEF WorkerInv, EvFits, Looking
  <2>4. QED
    BY <2>1, <2>2, <2>3
<1>8. QED
  BY <1>3, <1>4, <1>6, <1>7 DEF WorkerInv

LEMMA FollowsKeeps ==
  ASSUME WorkerInv, NEW b, Follows(bundle, bundle', b),
         rule' = rule, armed' = armed, up' = up, up, EditHoldsFence',
         \A x \in Decisions : bundle'[x].job = "act" /\ fence = x => fence' = x,
         \/ ev' = ev /\ (b \in Decisions => ~IsFresh(bundle[b]))
         \/ ev' = Idle
         \/ ev.pc = "submit" /\ ev.next = "clear" /\ ev' = [ev EXCEPT !.pc = "clear"]
  PROVE  WorkerInv' /\ Continues /\ Writes
<1>1. /\ bundle' = [x \in Decisions |-> bundle'[x]]
      /\ \A x \in Decisions : Calm(bundle[x], bundle'[x])
      /\ \A x \in Decisions : x # b /\ IsFresh(bundle[x]) => IsFresh(bundle'[x])
  BY DEF Follows, Decisions
<1>2. \A x \in Decisions : Steady(bundle[x], bundle'[x])
  BY <1>1 DEF Calm
<1>3. \A x \in Decisions : bundle'[x].job = "act" => bundle[x].job = "act"
  BY <1>1 DEF Calm
<1>4. \A x \in Decisions : bundle'[x].job = "act" => fence' = x
  BY <1>3 DEF WorkerInv, ActHoldsFence
<1>5. \A x \in Decisions : bundle'[x].job = "act" /\ bundle[x].kind = "activation"
                           => rule.enabled /\ rule.auto /\ armed /\ rule.rev = bundle[x].rev
  BY <1>3 DEF WorkerInv, ActAuthorized
<1>6. WorkerInv' /\ Continues
  BY <1>1, <1>2, <1>4, <1>5, SteadyKeeps, Zenon
<1>7. Writes
  <2> SUFFICES ASSUME NEW x \in Decisions, NEW i \in Rows,
                      bundle[x].eff[i] = "pending", bundle'[x].eff[i] = "changed"
               PROVE  FALSE
    BY DEF Writes
  <2> QED
    BY <1>1 DEF Calm
<1>8. QED
  BY <1>6, <1>7

LEMMA SubmitKeeps ==
  ASSUME WorkerInv, Submit
  PROVE  WorkerInv' /\ Continues /\ Writes
<1> DEFINE b == ev.id
<1>1. /\ up /\ ev.pc = "submit" /\ UNCHANGED <<rule, armed, fence, op, up>>
      /\ ev' = IF ev.next = "idle" THEN Idle ELSE [ev EXCEPT !.pc = ev.next]
      /\ \/ bundle' = bundle
         \/ bundle' = [bundle EXCEPT ![b].phase = "preparing", ![b].job = "queued"]
         \/ bundle' = settle_worker_failure(bundle, b)
         \/ bundle' = [bundle EXCEPT ![b].phase = "preparing"]
  BY Zenon DEF Submit
<1>2. /\ b \in Decisions /\ bundle \in Seq(Row) /\ bundle[b] \in Row
      /\ bundle[b].kind = "activation" => IsFresh(bundle[b])
      /\ ev.next \in {"idle", "clear"}
  BY <1>1 DEF WorkerInv, EvFits, Bundles, Decisions
<1>3. Follows(bundle, bundle', b)
  <2>1. CASE bundle' = bundle
    <3>1. bundle = [bundle EXCEPT ![b] = bundle[b]] /\ Calm(bundle[b], bundle[b])
      BY <1>2, StayedCalm
    <3>2. QED
      BY <1>2, <2>1, <3>1, RowFollows DEF Decisions
  <2>2. CASE bundle' = [bundle EXCEPT ![b].phase = "preparing", ![b].job = "queued"]
    <3> DEFINE q == [bundle[b] EXCEPT !.job = "queued", !.phase = "preparing"]
    <3>1. Calm(bundle[b], q)
      BY <1>2, JobCalm DEF Jobs, IsFresh
    <3>2. [bundle[b] EXCEPT !.phase = "preparing", !.job = "queued"] = q
      BY <1>2 DEF Row
    <3>3. bundle' = [bundle EXCEPT ![b] = q]
      BY <2>2, <3>2
    <3> HIDE DEF q
    <3>4. QED
      BY <1>2, <3>1, <3>3, RowFollows DEF Decisions
  <2>3. CASE bundle' = settle_worker_failure(bundle, b)
    BY <1>2, <2>3, SettleFollows DEF IsFresh
  <2>4. CASE bundle' = [bundle EXCEPT ![b].phase = "preparing"]
    <3> DEFINE q == [bundle[b] EXCEPT !.phase = "preparing"]
    <3>1. q \in Row
      BY <1>2, RowUpdates
    <3>2. /\ q.kind = bundle[b].kind /\ q.rev = bundle[b].rev /\ q.src = bundle[b].src /\ q.job = bundle[b].job
          /\ q.eff = bundle[b].eff /\ q.inv = bundle[b].inv /\ q.state = bundle[b].state
      BY <1>2 DEF Row
    <3>3. bundle' = [bundle EXCEPT ![b] = q]
      BY <1>2, <2>4
    <3> HIDE DEF q
    <3>4. Calm(bundle[b], q)
      BY <3>1, <3>2 DEF Calm, Steady, ActivationFits, OwnsNothing
    <3>5. QED
      BY <1>2, <3>3, <3>4, RowFollows DEF Decisions
  <2>5. QED
    BY <1>1, <2>1, <2>2, <2>3, <2>4
<1>4. ev' = Idle \/ (ev.pc = "submit" /\ ev.next = "clear" /\ ev' = [ev EXCEPT !.pc = "clear"])
  BY <1>1, <1>2
<1>5. EditHoldsFence'
  BY <1>1 DEF WorkerInv, EditHoldsFence
<1>6. QED
  BY <1>1, <1>3, <1>4, <1>5, FollowsKeeps

\* A worker's step that leaves the fence alone or gives it back.
LEMMA WorkKeeps ==
  ASSUME WorkerInv, NEW b \in Decisions, Follows(bundle, bundle', b), bundle[b].job # "none",
         UNCHANGED <<rule, armed, ev, op, up>>, up,
         \/ fence' = fence
         \/ fence' = None /\ fence = b /\ bundle'[b].job # "act"
  PROVE  WorkerInv' /\ Continues /\ Writes
<1>1. ~IsFresh(bundle[b])
  BY DEF IsFresh
<1>2. b # Never
  BY DEF Never, Decisions, WorkerInv, Bundles
<1>3. EditHoldsFence'
  BY <1>2 DEF WorkerInv, EditHoldsFence
<1>4. \A x \in Decisions : bundle'[x].job = "act" /\ fence = x => fence' = x
  OBVIOUS
<1>5. QED
  BY <1>1, <1>3, <1>4, FollowsKeeps

\* Before the first action of an activation there is nothing to own.
LEMMA NothingYet ==
  ASSUME WorkerInv, NEW b \in Decisions, bundle[b].kind = "activation", bundle[b].job \in {"queued", "prepare"}
  PROVE  OwnsNothing(bundle[b])
BY DEF WorkerInv, Bundles, ActivationFits, OwnsNothing

LEMMA TakeAndPrepare ==
  ASSUME WorkerInv, NEW b \in Decisions,
         TakeJob(b) \/ Prepare(b) \/ PrepareRefused(b) \/ SettlementLost(b)
  PROVE  WorkerInv' /\ Continues /\ Writes
<1>1. bundle \in Seq(Row) /\ b \in DOMAIN bundle /\ bundle[b] \in Row
      /\ (bundle[b].kind = "activation" => ActivationFits(bundle[b]))
  BY DEF WorkerInv, Bundles, Decisions
<1>2. /\ up /\ UNCHANGED <<rule, armed, ev, fence, op, up>> /\ bundle[b].job \in {"queued", "prepare"}
      /\ \/ bundle' = Job(b, "prepare")
         \/ bundle' = [Job(b, "run") EXCEPT ![b].phase = "prepared"]
         \/ bundle' = Failed(bundle, b)
         \/ bundle' = Job(b, "none")
  BY Zenon DEF TakeJob, Prepare, PrepareRefused, SettlementLost, Turn
<1>3. Follows(bundle, bundle', b)
  <2>0. bundle[b].kind = "activation" => /\ bundle[b].state \in {"planned", "running"}
                                         /\ \A i \in Rows : bundle[b].eff[i] = "none"
    BY <1>1, <1>2 DEF ActivationFits
  <2>1. CASE bundle' = Job(b, "prepare")
    <3>1. Calm(bundle[b], [bundle[b] EXCEPT !.job = "prepare"])
      BY <1>1, <2>0, JobCalm DEF Jobs
    <3>2. QED
      BY <1>1, <2>1, <3>1, RowFollows DEF Job
  <2>2. CASE bundle' = [Job(b, "run") EXCEPT ![b].phase = "prepared"]
    <3> DEFINE q == [bundle[b] EXCEPT !.job = "run", !.phase = "prepared"]
    <3>1. Calm(bundle[b], q)
      BY <1>1, <2>0, JobCalm DEF Jobs
    <3>2. bundle' = [bundle EXCEPT ![b] = q]
      BY <1>1, <2>2 DEF Job
    <3> HIDE DEF q
    <3>3. QED
      BY <1>1, <3>1, <3>2, RowFollows
  <2>3. CASE bundle' = Failed(bundle, b)
    BY <1>1, <1>2, <2>3, NothingYet, FailedFollows
  <2>4. CASE bundle' = Job(b, "none")
    <3>1. Calm(bundle[b], [bundle[b] EXCEPT !.job = "none"])
      BY <1>1, <2>0, JobCalm DEF Jobs
    <3>2. QED
      BY <1>1, <2>4, <3>1, RowFollows DEF Job
  <2>5. QED
    BY <1>2, <2>1, <2>2, <2>3, <2>4
<1>4. QED
  BY <1>2, <1>3, WorkKeeps

LEMMA PanicKeeps ==
  ASSUME WorkerInv, NEW b \in Decisions, Panic(b) \/ SettlePanicked(b)
  PROVE  WorkerInv' /\ Continues /\ Writes
<1>1. bundle \in Seq(Row) /\ b \in DOMAIN bundle /\ bundle[b] \in Row
      /\ (bundle[b].kind = "activation" => ActivationFits(bundle[b]))
  BY DEF WorkerInv, Bundles, Decisions
<1>2. CASE Panic(b)
  <2>1. /\ up /\ UNCHANGED <<rule, armed, ev, op, up>> /\ bundle[b].job # "none"
        /\ bundle' = Job(b, "dead") /\ fence' = IF fence = b THEN None ELSE fence
    BY <1>2 DEF Panic
  <2>2. Calm(bundle[b], [bundle[b] EXCEPT !.job = "dead"])
    BY <1>1, <2>1, JobCalm DEF Jobs, ActivationFits
  <2>3. bundle' = [bundle EXCEPT ![b] = [bundle[b] EXCEPT !.job = "dead"]] /\ bundle'[b].job = "dead"
    BY <1>1, <2>1 DEF Job, Row
  <2>4. Follows(bundle, bundle', b)
    BY <1>1, <2>2, <2>3, RowFollows
  <2>5. QED
    BY <2>1, <2>3, <2>4, WorkKeeps
<1>3. CASE SettlePanicked(b)
  <2>1. PICK f : /\ up /\ UNCHANGED <<rule, armed, ev, fence, op, up>> /\ bundle[b].job = "dead"
                 /\ bundle' = [f EXCEPT ![b].job = "none"]
                 /\ \/ f = settle_worker_failure(bundle, b)
                    \/ f = bundle
                    \/ f = quarantine_interrupted_worker_bundle(bundle, b)
    BY <1>3 DEF SettlePanicked
  <2>2. Follows(bundle, f, b)
    <3>1. CASE f = bundle
      <4>1. f = [bundle EXCEPT ![b] = bundle[b]] /\ Calm(bundle[b], bundle[b])
        BY <1>1, <3>1, StayedCalm
      <4>2. QED
        BY <1>1, <4>1, RowFollows
    <3>2. CASE f # bundle
      BY <1>1, <2>1, <3>2, SettleFollows
    <3>3. QED
      BY <3>1, <3>2
  <2>3. f \in Seq(Row) /\ b \in DOMAIN f /\ f[b] \in Row
    BY <1>1, <2>2, FollowsIsSeq
  <2>4. Calm(f[b], [f[b] EXCEPT !.job = "none"])
    BY <2>3, JobCalm DEF Jobs
  <2>5. Follows(f, bundle', b)
    BY <2>1, <2>3, <2>4, RowFollows
  <2>6. Follows(bundle, bundle', b)
    BY <1>1, <2>2, <2>5, FollowsOn
  <2>7. QED
    BY <2>1, <2>6, WorkKeeps
<1>4. QED
  BY <1>2, <1>3

\* A row with one effect replaced, and one at another stage.
WithEffect(r, m, e) == [r EXCEPT !.eff[m] = e]
Staged(r, j, s) == [r EXCEPT !.job = j, !.state = s]

LEMMA EffectRow ==
  ASSUME NEW r \in Row, NEW m, NEW e \in Effects
  PROVE  LET p == WithEffect(r, m, e) IN
         /\ p \in Row /\ p.kind = r.kind /\ p.rev = r.rev /\ p.src = r.src /\ p.inv = r.inv
         /\ p.job = r.job /\ p.state = r.state /\ p.claim = r.claim
         /\ \A i \in Rows : p.eff[i] = IF i = m THEN e ELSE r.eff[i]
<1> DEFINE E == [r.eff EXCEPT ![m] = e]
           p == WithEffect(r, m, e)
<1>1. r.eff \in [Rows -> Effects]
  BY DEF Row
<1>2. E \in [Rows -> Effects] /\ \A i \in Rows : E[i] = IF i = m THEN e ELSE r.eff[i]
  BY <1>1
<1>3. p = [r EXCEPT !.eff = E]
  BY DEF WithEffect
<1> HIDE DEF E, p
<1>4. p \in Row
  BY <1>2, <1>3, RowUpdates
<1>5. p.eff = E /\ p.kind = r.kind /\ p.rev = r.rev /\ p.src = r.src /\ p.inv = r.inv
      /\ p.job = r.job /\ p.state = r.state /\ p.claim = r.claim
  BY <1>3 DEF Row
<1>6. QED
  BY <1>2, <1>4, <1>5 DEF p

LEMMA StageRow ==
  ASSUME NEW p \in Row, NEW j \in Jobs, NEW s \in {"planned", "running", "succeeded", "blocked"} \cup Ended
  PROVE  LET q == Staged(p, j, s) IN
         /\ q \in Row /\ q.kind = p.kind /\ q.rev = p.rev /\ q.src = p.src /\ q.inv = p.inv
         /\ q.job = j /\ q.state = s /\ q.claim = p.claim /\ q.eff = p.eff
<1> DEFINE z == [p EXCEPT !.job = j]
           q == Staged(p, j, s)
<1>1. z \in Row
  BY RowUpdates
<1>2. q = [z EXCEPT !.state = s]
  BY DEF Staged
<1>3. z.kind = p.kind /\ z.rev = p.rev /\ z.src = p.src /\ z.inv = p.inv /\ z.job = j
      /\ z.claim = p.claim /\ z.eff = p.eff
  BY DEF Row
<1> HIDE DEF z, q
<1>4. q \in Row
  <2>1. \A t \in {"planned", "running", "succeeded", "blocked"} \cup Ended : [z EXCEPT !.state = t] \in Row
    BY <1>1, RowUpdates
  <2>2. QED
    BY <1>2, <2>1
<1>5. /\ q.kind = p.kind /\ q.rev = p.rev /\ q.src = p.src /\ q.inv = p.inv
      /\ q.job = j /\ q.state = s /\ q.claim = p.claim /\ q.eff = p.eff
  BY <1>1, <1>2, <1>3 DEF Row
<1>6. QED
  BY <1>4, <1>5 DEF q

LEMMA StartActionKeeps ==
  ASSUME WorkerInv, NEW b \in Decisions, StartAction(b)
  PROVE  WorkerInv' /\ Continues /\ Writes
<1>1. bundle \in Seq(Row) /\ b \in DOMAIN bundle /\ bundle[b] \in Row
  BY DEF WorkerInv, Bundles, Decisions
<1>2. /\ up /\ bundle[b].job = "run" /\ bundle[b].kind = "activation" /\ fence = None
      /\ UNCHANGED <<rule, armed, ev, op, up>>
  BY Zenon DEF StartAction, Forward
<1>3. ActivationFits(bundle[b]) /\ (\A i \in Rows : bundle[b].eff[i] \in {"none", "noop", "changed"})
      /\ bundle[b].state \in {"planned", "running"}
  BY <1>2 DEF WorkerInv, Bundles, ActivationFits
<1>4. CASE ActionAuthorized(b)
  <2> DEFINE m == Min(Todo(b))
             p == WithEffect(bundle[b], m, "pending")
             q == Staged(p, "act", "running")
  <2>1. /\ bundle' = [bundle EXCEPT ![b].job = "act", ![b].state = "running", ![b].eff[m] = "pending"]
        /\ fence' = b
    BY <1>4, Zenon DEF StartAction
  <2>2. [bundle[b] EXCEPT !.job = "act", !.state = "running", !.eff[m] = "pending"] = q
    BY <1>1 DEF Row, WithEffect, Staged
  <2>3. bundle' = [bundle EXCEPT ![b] = q]
    BY <1>1, <2>1, <2>2
  <2>4. /\ p \in Row /\ p.kind = bundle[b].kind /\ p.rev = bundle[b].rev /\ p.src = bundle[b].src
        /\ p.job = bundle[b].job
        /\ \A i \in Rows : p.eff[i] = IF i = m THEN "pending" ELSE bundle[b].eff[i]
    BY <1>1, EffectRow DEF Effects
  <2> HIDE DEF p, m
  <2>5. q \in Row /\ q.kind = p.kind /\ q.rev = p.rev /\ q.src = p.src /\ q.job = "act"
        /\ q.state = "running" /\ q.eff = p.eff
    BY <2>4, StageRow DEF Jobs
  <2> HIDE DEF q
  <2>6. ActivationFits(q)
    BY <1>3, <2>4, <2>5 DEF ActivationFits, Ended
  <2>7. Steady(bundle[b], q)
    BY <2>4, <2>5, <2>6 DEF Steady
  <2>8. /\ bundle'[b] = q /\ bundle' = [x \in Decisions |-> bundle'[x]]
        /\ \A x \in Decisions : x # b => bundle'[x] = bundle[x]
    BY <1>1, <2>3 DEF Decisions
  <2>9. \A x \in Decisions : Steady(bundle[x], bundle'[x])
    <3>1. \A x \in Decisions : bundle[x] \in Row
      BY <1>1 DEF Decisions
    <3>2. QED
      BY <2>7, <2>8, <3>1, StayedCalm DEF Calm
  <2>10. \A x \in Decisions : x # b => bundle[x].job # "act"
    <3>1. None \notin Decisions
      BY <1>1 DEF None, Decisions
    <3>2. QED
      BY <1>2, <3>1 DEF WorkerInv, ActHoldsFence
  <2>11. /\ \A x \in Decisions : bundle'[x].job = "act" => fence' = x
         /\ \A x \in Decisions : bundle'[x].job = "act" /\ bundle[x].kind = "activation"
                              => rule.enabled /\ rule.auto /\ armed /\ rule.rev = bundle[x].rev
    BY <1>4, <2>1, <2>8, <2>10 DEF ActionAuthorized
  <2>12. EditHoldsFence' /\ ~IsFresh(bundle[b])
    BY <1>2 DEF WorkerInv, EditHoldsFence, None, Never, IsFresh
  <2>13. /\ \A x \in Decisions : x # b /\ IsFresh(bundle[x]) => IsFresh(bundle'[x])
         /\ rule' = rule /\ armed' = armed /\ up' = up /\ up /\ ev' = ev
    BY <1>2, <2>8
  <2>14. WorkerInv' /\ Continues
    BY <2>8, <2>9, <2>11, <2>12, <2>13, SteadyKeeps
  <2>15. Writes
    <3> SUFFICES ASSUME NEW x \in Decisions, NEW i \in Rows,
                        bundle[x].eff[i] = "pending", bundle'[x].eff[i] = "changed"
                 PROVE  FALSE
      BY DEF Writes
    <3> QED
      BY <1>3, <2>8
  <2>16. QED
    BY <2>14, <2>15
<1>5. CASE ~ActionAuthorized(b)
  <2>1. fence' = fence /\ bundle' = IF Changed(b) = {} THEN Failed(bundle, b) ELSE Job(b, "undo")
    BY <1>5, Zenon DEF StartAction
  <2>2. CASE Changed(b) = {}
    <3>1. OwnsNothing(bundle[b])
      BY <1>3, <2>2 DEF Changed, OwnsNothing, Undone
    <3>2. Follows(bundle, bundle', b)
      BY <1>1, <2>1, <2>2, <3>1, FailedFollows
    <3>3. QED
      BY <1>2, <2>1, <3>2, WorkKeeps
  <2>3. CASE Changed(b) # {}
    <3>1. Calm(bundle[b], [bundle[b] EXCEPT !.job = "undo"])
      BY <1>1, <1>3, JobCalm DEF Jobs
    <3>2. Follows(bundle, bundle', b)
      BY <1>1, <2>1, <2>3, <3>1, RowFollows DEF Job
    <3>3. QED
      BY <1>2, <2>1, <3>2, WorkKeeps
  <2>4. QED
    BY <2>2, <2>3
<1>6. QED
  BY <1>4, <1>5

\* The outcome of an action under way.
LEMMA EndActionKeeps ==
  ASSUME WorkerInv, NEW b \in Decisions, EndAction(b)
  PROVE  WorkerInv' /\ Continues /\ Writes
<1> DEFINE r == bundle[b]
           with(i, e) == [bundle EXCEPT ![b].eff[i] = e]
<1>1. bundle \in Seq(Row) /\ b \in DOMAIN bundle /\ r \in Row
  BY DEF WorkerInv, Bundles, Decisions
<1>2. /\ up /\ r.job = "act" /\ r.kind = "activation" /\ fence' = None
      /\ UNCHANGED <<rule, armed, ev, op, up>>
  BY Zenon DEF EndAction, Forward
<1>3. PICK i \in Rows :
        /\ r.eff[i] = "pending"
        /\ \/ bundle' = [with(i, "changed") EXCEPT ![b].job = "run"]
           \/ bundle' = IF Changed(b) = {} THEN Failed(with(i, "noop"), b)
                        ELSE [with(i, "noop") EXCEPT ![b].job = "undo"]
           \/ bundle' = finish_and_release(with(i, "unknown"), b, "blocked")
  BY Zenon DEF EndAction
<1>4. ActivationFits(r)
  BY <1>2 DEF WorkerInv, Bundles
<1>5. /\ r.state \in {"planned", "running"}
      /\ \A j \in Rows : j # i => r.eff[j] \in {"none", "noop", "changed"}
  <2>1. \A j \in Rows : r.eff[j] \in Effects
    BY <1>1 DEF Row
  <2>2. QED
    BY <1>2, <1>3, <1>4, <2>1 DEF ActivationFits, Effects
<1>6. fence = b
  BY <1>2 DEF WorkerInv, ActHoldsFence
<1>7. CASE bundle' = [with(i, "changed") EXCEPT ![b].job = "run"]
  <2> DEFINE p == WithEffect(r, i, "changed")
             q == Staged(p, "run", r.state)
  <2>1. /\ p \in Row /\ p.kind = r.kind /\ p.rev = r.rev /\ p.src = r.src /\ p.state = r.state
        /\ \A j \in Rows : p.eff[j] = IF j = i THEN "changed" ELSE r.eff[j]
    BY <1>1, EffectRow DEF Effects
  <2>2. bundle' = [bundle EXCEPT ![b] = [p EXCEPT !.job = "run"]]
    BY <1>1, <1>7 DEF WithEffect
  <2> HIDE DEF p
  <2>3. [p EXCEPT !.job = "run"] = q
    BY <2>1 DEF Staged, Row
  <2>4. r.state \in {"planned", "running", "succeeded", "blocked"} \cup Ended
    BY <1>5
  <2>5. q \in Row /\ q.kind = p.kind /\ q.rev = p.rev /\ q.src = p.src /\ q.job = "run"
        /\ q.state = r.state /\ q.eff = p.eff
    <3>1. "run" \in Jobs
      BY DEF Jobs
    <3> HIDE DEF r
    <3>2. QED
      BY <2>1, <2>4, <3>1, StageRow
  <2> HIDE DEF q
  <2>6. ActivationFits(q)
    BY <1>5, <2>1, <2>5 DEF ActivationFits, Ended
  <2>7. Steady(r, q)
    BY <2>1, <2>5, <2>6 DEF Steady
  <2>8. /\ bundle'[b] = q /\ bundle' = [x \in Decisions |-> bundle'[x]]
        /\ \A x \in Decisions : x # b => bundle'[x] = bundle[x]
    BY <1>1, <2>2, <2>3 DEF Decisions
  <2>9. \A x \in Decisions : Steady(bundle[x], bundle'[x])
    <3>1. \A x \in Decisions : bundle[x] \in Row
      BY <1>1 DEF Decisions
    <3>2. QED
      BY <2>7, <2>8, <3>1, StayedCalm DEF Calm
  <2>10. \A x \in Decisions : bundle'[x].job # "act"
    <3>1. \A x \in Decisions : x # b => bundle[x].job # "act"
      BY <1>6 DEF WorkerInv, ActHoldsFence
    <3>2. QED
      BY <2>5, <2>8, <3>1
  <2>11. EditHoldsFence' /\ ~IsFresh(bundle[b])
    <3>1. b # Never
      BY <1>1 DEF Never
    <3>2. QED
      BY <1>2, <1>6, <3>1 DEF WorkerInv, EditHoldsFence, IsFresh
  <2>12. /\ \A x \in Decisions : x # b /\ IsFresh(bundle[x]) => IsFresh(bundle'[x])
         /\ rule' = rule /\ armed' = armed /\ up' = up /\ up /\ ev' = ev
    BY <1>2, <2>8
  <2>13. WorkerInv' /\ Continues
    BY <2>8, <2>9, <2>10, <2>11, <2>12, SteadyKeeps
  <2>14. Writes
    <3> SUFFICES ASSUME NEW x \in Decisions, NEW j \in Rows,
                        bundle[x].eff[j] = "pending", bundle'[x].eff[j] = "changed"
                 PROVE  bundle[x].job = "act"
      BY DEF Writes
    <3> QED
      BY <1>2, <2>8
  <2>15. QED
    BY <2>13, <2>14
<1>8. CASE bundle' = IF Changed(b) = {} THEN Failed(with(i, "noop"), b)
                     ELSE [with(i, "noop") EXCEPT ![b].job = "undo"]
  <2> DEFINE p == WithEffect(r, i, "noop")
             f == with(i, "noop")
  <2>1. /\ p \in Row /\ p.kind = r.kind /\ p.rev = r.rev /\ p.src = r.src /\ p.state = r.state
        /\ p.inv = r.inv /\ p.job = r.job
        /\ \A j \in Rows : p.eff[j] = IF j = i THEN "noop" ELSE r.eff[j]
    BY <1>1, EffectRow DEF Effects
  <2>2. f = [bundle EXCEPT ![b] = p]
    BY <1>1 DEF WithEffect
  <2> HIDE DEF p
  <2>3. ActivationFits(p)
    BY <1>2, <1>5, <2>1 DEF ActivationFits, Ended
  <2>4. Calm(r, p)
    BY <2>1, <2>3 DEF Calm, Steady
  <2>5. Follows(bundle, f, b) /\ f[b] = p
    <3> HIDE DEF f
    <3>1. QED
      BY <1>1, <2>2, <2>4, RowFollows
  <2>6. f \in Seq(Row) /\ b \in DOMAIN f
    BY <1>1, <2>5, FollowsIsSeq
  <2> HIDE DEF f
  <2>7. Follows(f, bundle', b) /\ bundle'[b].job # "act"
    <3>1. CASE Changed(b) = {}
      <4>1. OwnsNothing(p)
        BY <1>5, <2>1, <3>1 DEF Changed, OwnsNothing, Undone
      <4>2. bundle' = Failed(f, b)
        BY <1>8, <3>1 DEF f
      <4>3. bundle' = [f EXCEPT ![b].state = "failed", ![b].job = "none"]
        BY <1>2, <2>1, <2>5, <4>2 DEF Failed, finish_and_release
      <4>4. bundle'[b].job = "none"
        BY <2>1, <2>5, <2>6, <4>3 DEF Row
      <4>5. QED
        BY <2>5, <2>6, <4>1, <4>2, <4>4, FailedFollows
    <3>2. CASE Changed(b) # {}
      <4>1. bundle' = [f EXCEPT ![b] = [p EXCEPT !.job = "undo"]]
        BY <1>8, <2>5, <2>6, <3>2 DEF f
      <4>2. Calm(p, [p EXCEPT !.job = "undo"]) /\ [p EXCEPT !.job = "undo"].job = "undo"
        <5>1. \A j \in Rows : p.eff[j] \in {"none", "noop", "changed"}
          BY <1>5, <2>1
        <5>2. Calm(p, [p EXCEPT !.job = "undo"])
          BY <1>5, <2>1, <5>1, JobCalm DEF Jobs
        <5>3. QED
          BY <2>1, <5>2 DEF Row
      <4>3. Follows(f, bundle', b)
        BY <2>5, <2>6, <4>1, <4>2, RowFollows
      <4>4. QED
        BY <2>6, <4>1, <4>2, <4>3
    <3>3. QED
      BY <3>1, <3>2
  <2>8. Follows(bundle, bundle', b)
    BY <1>1, <2>5, <2>7, FollowsOn
  <2>9. QED
    BY <1>2, <1>6, <2>7, <2>8, WorkKeeps
<1>9. CASE bundle' = finish_and_release(with(i, "unknown"), b, "blocked")
  <2> DEFINE p == WithEffect(r, i, "unknown")
             q == Staged(p, "none", "blocked")
  <2>1. /\ p \in Row /\ p.kind = r.kind /\ p.rev = r.rev /\ p.src = r.src
        /\ \A j \in Rows : p.eff[j] = IF j = i THEN "unknown" ELSE r.eff[j]
    BY <1>1, EffectRow DEF Effects
  <2>2. bundle' = [bundle EXCEPT ![b] = [p EXCEPT !.state = "blocked", !.job = "none"]]
    BY <1>1, <1>9 DEF WithEffect, finish_and_release
  <2> HIDE DEF p
  <2>3. [p EXCEPT !.state = "blocked", !.job = "none"] = q
    BY <2>1 DEF Staged, Row
  <2>4. q \in Row /\ q.kind = p.kind /\ q.rev = p.rev /\ q.src = p.src /\ q.job = "none"
        /\ q.state = "blocked" /\ q.eff = p.eff
    BY <2>1, StageRow DEF Jobs
  <2> HIDE DEF q
  <2>5. Calm(r, q)
    BY <2>1, <2>4 DEF Calm, Steady, ActivationFits, Ended
  <2>6. Follows(bundle, bundle', b) /\ bundle'[b].job # "act"
    BY <1>1, <2>2, <2>3, <2>4, <2>5, RowFollows
  <2>7. QED
    BY <1>2, <1>6, <2>6, WorkKeeps
<1>10. QED
  BY <1>3, <1>7, <1>8, <1>9

\* A row with one inverse replaced: what was undone stays so once it is over.
WithInverse(r, m, v) == [r EXCEPT !.inv[m] = v]

LEMMA InverseRow ==
  ASSUME NEW r \in Row, NEW m, NEW v \in Inverses,
         r.kind = "activation" /\ r.state \in Ended /\ m \in Rows => v = "done" \/ r.inv[m] # "done"
  PROVE  LET p == WithInverse(r, m, v) IN
         Calm(r, p) /\ p.job = r.job /\ p.eff = r.eff /\ (IsFresh(r) => IsFresh(p))
<1> DEFINE I == [r.inv EXCEPT ![m] = v]
           p == WithInverse(r, m, v)
<1>1. r.inv \in [Rows -> Inverses]
  BY DEF Row
<1>2. I \in [Rows -> Inverses] /\ \A i \in Rows : I[i] = IF i = m THEN v ELSE r.inv[i]
  BY <1>1
<1>3. p = [r EXCEPT !.inv = I]
  BY DEF WithInverse
<1> HIDE DEF I, p
<1>4. p \in Row
  BY <1>2, <1>3, RowUpdates
<1>5. p.inv = I /\ p.kind = r.kind /\ p.rev = r.rev /\ p.src = r.src /\ p.eff = r.eff
      /\ p.job = r.job /\ p.state = r.state /\ p.claim = r.claim
  BY <1>3 DEF Row
<1>6. r.kind = "activation" /\ ActivationFits(r) => ActivationFits(p)
  <2> SUFFICES ASSUME r.kind = "activation", ActivationFits(r) PROVE ActivationFits(p)
    OBVIOUS
  <2>1. r.state \in Ended => OwnsNothing(p)
    BY <1>2, <1>5 DEF ActivationFits, OwnsNothing
  <2>2. QED
    BY <1>5, <2>1 DEF ActivationFits
<1>7. Calm(r, p)
  BY <1>4, <1>5, <1>6 DEF Calm, Steady
<1>8. IsFresh(r) => IsFresh(p)
  BY <1>5 DEF IsFresh
<1>9. QED
  BY <1>5, <1>7, <1>8 DEF p

Inverting(bs, y, m, v) == [bs EXCEPT ![y].inv[m] = v]

LEMMA InverseFollows ==
  ASSUME NEW bs \in Seq(Row), NEW y, NEW m, NEW v \in Inverses, NEW b,
         y \in DOMAIN bs /\ bs[y].kind = "activation" /\ bs[y].state \in Ended /\ m \in Rows
           => v = "done" \/ bs[y].inv[m] # "done"
  PROVE  Follows(bs, Inverting(bs, y, m, v), b)
<1> DEFINE f == Inverting(bs, y, m, v)
<1>1. \A x \in DOMAIN bs : bs[x] \in Row
  OBVIOUS
<1>2. f = [x \in DOMAIN bs |-> f[x]] /\ (\A x \in DOMAIN bs : x # y => f[x] = bs[x])
  BY DEF Inverting
<1>3. y \in DOMAIN bs => f[y] = WithInverse(bs[y], m, v)
  BY DEF WithInverse, Inverting
<1> HIDE DEF f
<1>4. ASSUME NEW x \in DOMAIN bs
      PROVE  Calm(bs[x], f[x]) /\ f[x].job = bs[x].job /\ (IsFresh(bs[x]) => IsFresh(f[x]))
  <2>1. CASE x = y
    BY <1>1, <1>3, <2>1, InverseRow
  <2>2. CASE x # y
    BY <1>1, <1>2, <2>2, StayedCalm
  <2>3. QED
    BY <2>1, <2>2
<1>5. Follows(bs, f, b)
  BY <1>2, <1>4 DEF Follows
<1>6. QED
  BY <1>5 DEF f

LEMMA UndoKeeps ==
  ASSUME WorkerInv, NEW b \in Decisions, Compensate(b) \/ Succeed(b)
  PROVE  WorkerInv' /\ Continues /\ Writes
<1>1. bundle \in Seq(Row) /\ b \in DOMAIN bundle /\ bundle[b] \in Row
  BY DEF WorkerInv, Bundles, Decisions
<1>2. CASE Succeed(b)
  <2>1. /\ up /\ bundle[b].job = "run" /\ UNCHANGED <<rule, armed, ev, fence, op, up>>
        /\ bundle' = finish_and_release(bundle, b, "succeeded")
    BY <1>2, Zenon DEF Succeed
  <2>2. Follows(bundle, bundle', b)
    BY <1>1, <2>1, ReleaseFollows DEF Ended
  <2>3. QED
    BY <2>1, <2>2, WorkKeeps
<1>3. CASE Compensate(b)
  <2> DEFINE m == Max(Changed(b))
  <2>1. /\ up /\ bundle[b].job = "undo" /\ bundle[b].kind = "activation"
        /\ UNCHANGED <<rule, armed, ev, fence, op, up>>
        /\ \/ Changed(b) = {} /\ bundle' = finish_and_release(bundle, b, "compensated")
           \/ bundle' = Inverting(bundle, b, m, "done")
           \/ bundle' = finish_and_release(Inverting(bundle, b, m, "unknown"), b, "blocked")
    BY <1>3, Zenon DEF Compensate, Forward, Inverting
  <2>2. ActivationFits(bundle[b])
    BY <2>1 DEF WorkerInv, Bundles
  <2>3. bundle[b].state \notin Ended
    BY <2>1, <2>2 DEF ActivationFits, Ended
  <2> HIDE DEF m
  <2>4. CASE Changed(b) = {} /\ bundle' = finish_and_release(bundle, b, "compensated")
    <3>1. OwnsNothing(bundle[b])
      BY <2>1, <2>2, <2>4 DEF ActivationFits, OwnsNothing, Changed, Undone
    <3>2. Follows(bundle, bundle', b)
      BY <1>1, <2>4, <3>1, ReleaseFollows DEF Ended
    <3>3. QED
      BY <2>1, <3>2, WorkKeeps
  <2>5. CASE bundle' = Inverting(bundle, b, m, "done")
    <3>1. Follows(bundle, bundle', b)
      BY <1>1, <2>3, <2>5, InverseFollows DEF Inverses
    <3>2. QED
      BY <2>1, <3>1, WorkKeeps
  <2>6. CASE bundle' = finish_and_release(Inverting(bundle, b, m, "unknown"), b, "blocked")
    <3> DEFINE f == Inverting(bundle, b, m, "unknown")
    <3>1. Follows(bundle, f, b)
      BY <1>1, <2>3, InverseFollows DEF Inverses
    <3> HIDE DEF f
    <3>2. f \in Seq(Row) /\ b \in DOMAIN f
      BY <1>1, <3>1, FollowsIsSeq
    <3>3. Follows(f, finish_and_release(f, b, "blocked"), b)
      BY <3>2, ReleaseFollows DEF Ended
    <3>4. Follows(bundle, bundle', b)
      BY <1>1, <2>6, <3>1, <3>3, FollowsOn DEF f
    <3>5. QED
      BY <2>1, <3>4, WorkKeeps
  <2>7. QED
    BY <2>1, <2>4, <2>5, <2>6
<1>4. QED
  BY <1>2, <1>3

LEMMA FinalizeCloses ==
  ASSUME NEW bs \in Seq(Row), NEW c \in DOMAIN bs
  PROVE  finalize_recovery_child(bs, c)[c].job = "none"
<1>1. bs[c] \in Row
  OBVIOUS
<1>2. \E s : finalize_recovery_child(bs, c)[c] = [bs[c] EXCEPT !.job = "none", !.state = s]
  BY DEF finalize_recovery_child
<1>3. QED
  BY <1>1, <1>2 DEF Row

LEMMA InverseKeeps ==
  ASSUME WorkerInv, NEW c \in Decisions, StartInverse(c) \/ EndInverse(c)
  PROVE  WorkerInv' /\ Continues /\ Writes
<1>1. bundle \in Seq(Row) /\ c \in DOMAIN bundle /\ bundle[c] \in Row
      /\ \A x \in Decisions : bundle[x] \in Row
  BY DEF WorkerInv, Bundles, Decisions
<1>2. CASE StartInverse(c)
  <2> DEFINE next == {x \in Newest(InverseTodo(c)) : InverseAuthorized(c, x[1])}
  <2>1. /\ up /\ bundle[c].kind = "recovery" /\ bundle[c].job = "run" /\ fence = None
        /\ UNCHANGED <<rule, armed, ev, op, up>>
        /\ \/ bundle' = finalize_recovery_child(bundle, c) /\ fence' = fence
           \/ /\ fence' = c
              /\ \E x \in next :
                   bundle' = [bundle EXCEPT ![c].job = "act", ![c].state = "running",
                                            ![x[1]].inv[x[2]] = "running"]
    BY <1>2, Zenon DEF StartInverse, Children
  <2>2. CASE bundle' = finalize_recovery_child(bundle, c) /\ fence' = fence
    <3>1. Follows(bundle, bundle', c)
      BY <1>1, <2>1, <2>2, FinalizeFollows
    <3>2. QED
      BY <2>1, <2>2, <3>1, WorkKeeps
  <2>3. CASE /\ fence' = c
             /\ \E x \in next :
                  bundle' = [bundle EXCEPT ![c].job = "act", ![c].state = "running",
                                           ![x[1]].inv[x[2]] = "running"]
    <3>1. PICK x \in next :
             bundle' = [bundle EXCEPT ![c].job = "act", ![c].state = "running",
                                      ![x[1]].inv[x[2]] = "running"]
      BY <2>3
    <3>2. bundle[x[1]].inv[x[2]] = "none"
      BY DEF Newest, InverseTodo
    <3> DEFINE q == Staged(bundle[c], "act", "running")
               f == [bundle EXCEPT ![c] = q]
    <3>3. bundle' = Inverting(f, x[1], x[2], "running")
      BY <1>1, <3>1 DEF Staged, Inverting
    <3>4. q \in Row /\ q.kind = bundle[c].kind /\ q.rev = bundle[c].rev /\ q.src = bundle[c].src
          /\ q.eff = bundle[c].eff
      BY <1>1, StageRow DEF Jobs
    <3> HIDE DEF q
    <3>5. /\ f \in Seq(Row) /\ DOMAIN f = Decisions /\ f[c] = q
          /\ \A y \in Decisions : y # c => f[y] = bundle[y]
      BY <1>1, <3>4 DEF Decisions
    <3> HIDE DEF f
    <3>6. Follows(f, bundle', c)
      <4>1. "running" \in Inverses
        BY DEF Inverses
      <4>2. x[1] \in DOMAIN f /\ f[x[1]].kind = "activation" => f[x[1]].inv[x[2]] # "done"
        BY <2>1, <3>2, <3>4, <3>5
      <4>3. QED
        BY <3>3, <3>5, <4>1, <4>2, InverseFollows
    <3>7. /\ bundle' = [y \in Decisions |-> bundle'[y]]
          /\ \A y \in Decisions : Calm(f[y], bundle'[y]) /\ (y # c /\ IsFresh(f[y]) => IsFresh(bundle'[y]))
      BY <3>5, <3>6 DEF Follows
    <3>8. \A y \in Decisions : Steady(bundle[y], bundle'[y])
      <4>1. ASSUME NEW y \in Decisions PROVE Steady(bundle[y], bundle'[y])
        <5>1. CASE y = c
          BY <2>1, <3>4, <3>5, <3>7, <5>1 DEF Calm, Steady
        <5>2. CASE y # c
          BY <3>5, <3>7, <5>2 DEF Calm
        <5>3. QED
          BY <5>1, <5>2
      <4>2. QED
        BY <4>1
    <3>9. \A y \in Decisions : bundle'[y].job = "act" => y = c
      <4>1. \A y \in Decisions : bundle[y].job # "act"
        <5>1. None \notin Decisions
          BY <1>1 DEF None, Decisions
        <5>2. QED
          BY <2>1, <5>1 DEF WorkerInv, ActHoldsFence
      <4>2. QED
        BY <3>5, <3>7, <4>1 DEF Calm
    <3>10. EditHoldsFence' /\ ~IsFresh(bundle[c])
      BY <2>1 DEF WorkerInv, EditHoldsFence, None, Never, IsFresh
    <3>11. /\ \A y \in Decisions : y # c /\ IsFresh(bundle[y]) => IsFresh(bundle'[y])
           /\ rule' = rule /\ armed' = armed /\ up' = up /\ up /\ ev' = ev
      BY <2>1, <3>5, <3>7
    <3>12. /\ \A y \in Decisions : bundle'[y].job = "act" => fence' = y
           /\ \A y \in Decisions : bundle'[y].job = "act" => bundle[y].kind # "activation"
      BY <2>1, <2>3, <3>9
    <3>13. WorkerInv' /\ Continues
      BY <3>7, <3>8, <3>10, <3>11, <3>12, SteadyKeeps
    <3>14. Writes
      <4> SUFFICES ASSUME NEW y \in Decisions, NEW i \in Rows,
                          bundle[y].eff[i] = "pending", bundle'[y].eff[i] = "changed"
                   PROVE  FALSE
        BY DEF Writes
      <4> QED
        BY <3>4, <3>5, <3>7 DEF Calm
    <3>15. QED
      BY <3>13, <3>14
  <2>4. QED
    BY <2>1, <2>2, <2>3
<1>3. CASE EndInverse(c)
  <2>1. /\ up /\ bundle[c].kind = "recovery" /\ bundle[c].job = "act" /\ fence' = None
        /\ UNCHANGED <<rule, armed, ev, op, up>>
        /\ \E x \in bundle[c].src :
             /\ bundle[x[1]].inv[x[2]] = "running"
             /\ \/ bundle' = [Inverting(bundle, x[1], x[2], "done") EXCEPT ![c].job = "run"]
                \/ \E v \in {"none", "unknown"} :
                     bundle' = finalize_recovery_child(Inverting(bundle, x[1], x[2], v), c)
    BY <1>3, Zenon DEF EndInverse, Children, Inverting
  <2>2. fence = c
    BY <2>1 DEF WorkerInv, ActHoldsFence
  <2>3. PICK x \in bundle[c].src, v \in Inverses :
             /\ bundle[x[1]].inv[x[2]] = "running"
             /\ \/ bundle' = [Inverting(bundle, x[1], x[2], v) EXCEPT ![c].job = "run"]
                \/ bundle' = finalize_recovery_child(Inverting(bundle, x[1], x[2], v), c)
    <3>1. {"done", "none", "unknown"} \subseteq Inverses
      BY DEF Inverses
    <3>2. QED
      BY <2>1, <3>1
  <2> DEFINE f == Inverting(bundle, x[1], x[2], v)
  <2>4. Follows(bundle, f, c)
    <3>1. bundle[x[1]].inv[x[2]] # "done"
      BY <2>3
    <3>2. QED
      BY <1>1, <3>1, InverseFollows
  <2> HIDE DEF f
  <2>5. f \in Seq(Row) /\ c \in DOMAIN f /\ f[c] \in Row /\ f[c].kind = "recovery"
    BY <1>1, <2>1, <2>4, FollowsIsSeq DEF Follows, Calm, Steady
  <2>6. CASE bundle' = [f EXCEPT ![c].job = "run"]
    <3>1. Calm(f[c], [f[c] EXCEPT !.job = "run"])
      BY <2>5, JobCalm DEF Jobs
    <3>2. Follows(f, bundle', c) /\ bundle'[c].job = "run"
      BY <2>5, <2>6, <3>1, RowFollows DEF Row
    <3>3. Follows(bundle, bundle', c)
      BY <1>1, <2>4, <3>2, FollowsOn
    <3>4. QED
      BY <2>1, <2>2, <3>2, <3>3, WorkKeeps
  <2>7. CASE bundle' = finalize_recovery_child(f, c)
    <3>1. Follows(f, bundle', c)
      BY <2>5, <2>7, FinalizeFollows
    <3>2. bundle'[c].job = "none"
      <4>1. bundle' = [y \in DOMAIN f |-> bundle'[y]] /\ c \in DOMAIN f
        BY <2>5, <3>1 DEF Follows
      <4>2. QED
        BY <2>5, <2>7, FinalizeCloses
    <3>3. Follows(bundle, bundle', c)
      BY <1>1, <2>4, <3>1, FollowsOn
    <3>4. QED
      BY <2>1, <2>2, <3>2, <3>3, WorkKeeps
  <2>8. QED
    BY <2>3, <2>6, <2>7 DEF f
<1>4. QED
  BY <1>2, <1>3

-----------------------------------------------------------------------------
(* Operators, crash and startup *)

LEMMA NobodyActs ==
  ASSUME WorkerInv, fence \in {None, Never}
  PROVE  \A b \in Decisions : bundle[b].job # "act"
<1>1. None \notin Decisions /\ Never \notin Decisions
  BY DEF WorkerInv, Bundles, None, Never, Decisions
<1>2. QED
  BY <1>1 DEF WorkerInv, ActHoldsFence

\* While nobody sends commands, policy may change under the evaluator and the
\* workers.
LEMMA PolicyKeeps ==
  ASSUME WorkerInv, up, up' = up, bundle' = bundle, ev' = ev, fence \in {None, Never},
         rule' \in Rules, EditHoldsFence'
  PROVE  WorkerInv' /\ Continues /\ Writes
<1>1. Decisions' = Decisions /\ Forward' = Forward /\ \A b : bundle'[b] = bundle[b]
  BY DEF Decisions, Forward
<1>2. Bundles'
  BY <1>1 DEF WorkerInv, Bundles
<1>3. ActHoldsFence' /\ ActAuthorized'
  BY <1>1, NobodyActs DEF ActHoldsFence, ActAuthorized
<1>4. EvFits'
  BY <1>1 DEF WorkerInv, EvFits, Looking
<1>5. DownIsIdle'
  BY DEF DownIsIdle
<1>6. Continues
  BY <1>1 DEF Continues, Decisions
<1>7. Writes
  <2> SUFFICES ASSUME NEW b \in Decisions, NEW i \in Rows,
                      bundle[b].eff[i] = "pending", bundle'[b].eff[i] = "changed"
               PROVE  FALSE
    BY DEF Writes
  <2> QED
    BY <1>1
<1>8. QED
  BY <1>2, <1>3, <1>4, <1>5, <1>6, <1>7 DEF WorkerInv

\* A rule whose condition was edited is a rule, of the next revision.
LEMMA EditedRule ==
  ASSUME NEW r \in Rules, NEW c \in Conditions
  PROVE  LET q == [r EXCEPT !.mode = c.mode, !.fire = c.fire, !.recover = c.recover,
                            !.duration = c.duration, !.samples = c.samples,
                            !.rev = @ + 1, !.auto = FALSE]
         IN  q \in Rules /\ q.members = r.members /\ q.rev # r.rev
<1>1. /\ c.mode \in {"manual", "threshold", "auto"} /\ c.fire \in Int /\ c.recover \in Int
      /\ c.duration \in Nat /\ c.samples \in Nat
  BY DetectionAssumption
<1>2. r.rev \in Nat /\ r.rev + 1 \in Nat /\ r.rev + 1 # r.rev
  BY DEF Rules
<1> DEFINE p1 == [r EXCEPT !.mode = c.mode]
           p2 == [p1 EXCEPT !.fire = c.fire]
           p3 == [p2 EXCEPT !.recover = c.recover]
           p4 == [p3 EXCEPT !.duration = c.duration]
           p5 == [p4 EXCEPT !.samples = c.samples]
           p6 == [p5 EXCEPT !.rev = r.rev + 1]
           p7 == [p6 EXCEPT !.auto = FALSE]
<1>3. p7 = [r EXCEPT !.mode = c.mode, !.fire = c.fire, !.recover = c.recover,
                     !.duration = c.duration, !.samples = c.samples, !.rev = @ + 1, !.auto = FALSE]
  BY DEF Rules
<1>4. p1 \in Rules /\ p1.members = r.members
  BY <1>1 DEF Rules
<1> HIDE DEF p1
<1>5. p2 \in Rules /\ p2.members = r.members
  BY <1>1, <1>4 DEF Rules
<1> HIDE DEF p2
<1>6. p3 \in Rules /\ p3.members = r.members
  BY <1>1, <1>5 DEF Rules
<1> HIDE DEF p3
<1>7. p4 \in Rules /\ p4.members = r.members
  BY <1>1, <1>6 DEF Rules
<1> HIDE DEF p4
<1>8. p5 \in Rules /\ p5.members = r.members
  BY <1>1, <1>7 DEF Rules
<1> HIDE DEF p5
<1>9. p6 \in Rules /\ p6.members = r.members /\ p6.rev = r.rev + 1
  BY <1>2, <1>8 DEF Rules
<1> HIDE DEF p6
<1>10. p7 \in Rules /\ p7.members = r.members /\ p7.rev = r.rev + 1
  BY <1>9 DEF Rules
<1> HIDE DEF p7
<1>11. QED
  BY <1>2, <1>3, <1>10

LEMMA EditsKeep ==
  ASSUME WorkerInv, EditCheck \/ EditCommit \/ SetSwitch
  PROVE  WorkerInv' /\ Continues /\ Writes
<1>0. rule \in Rules
  BY DEF WorkerInv
<1>1. CASE EditCheck
  <2>1. up /\ up' = up /\ bundle' = bundle /\ ev' = ev /\ rule' = rule /\ fence' = Never /\ fence = None
    BY <1>1, Zenon DEF EditCheck, FenceTaken
  <2>2. EditHoldsFence'
    BY <2>1 DEF EditHoldsFence
  <2>3. QED
    BY <1>0, <2>1, <2>2, PolicyKeeps
<1>2. CASE EditCommit
  <2>1. /\ up /\ up' = up /\ bundle' = bundle /\ ev' = ev /\ op.pc = "edit" /\ op' = [pc |-> "idle"]
        /\ \/ \E c \in Conditions :
                 rule' = [rule EXCEPT !.mode = c.mode, !.fire = c.fire, !.recover = c.recover,
                                      !.duration = c.duration, !.samples = c.samples,
                                      !.rev = @ + 1, !.auto = FALSE]
           \/ rule' = [rule EXCEPT !.enabled = FALSE]
    BY <1>2, Zenon DEF EditCommit, Idle
  <2>2. fence = Never /\ EditHoldsFence'
    BY <2>1 DEF WorkerInv, EditHoldsFence
  <2>3. rule' \in Rules
    <3>1. ASSUME NEW c \in Conditions,
                 rule' = [rule EXCEPT !.mode = c.mode, !.fire = c.fire, !.recover = c.recover,
                                      !.duration = c.duration, !.samples = c.samples,
                                      !.rev = @ + 1, !.auto = FALSE]
          PROVE  rule' \in Rules
      BY <1>0, <3>1, EditedRule
    <3>2. CASE rule' = [rule EXCEPT !.enabled = FALSE]
      BY <1>0, <3>2 DEF Rules
    <3>3. QED
      BY <2>1, <3>1, <3>2
  <2>4. QED
    BY <2>1, <2>2, <2>3, PolicyKeeps
<1>3. CASE SetSwitch
  <2>1. /\ up /\ up' = up /\ bundle' = bundle /\ ev' = ev /\ fence = None /\ fence' = fence /\ op' = op
        /\ \/ rule' = [rule EXCEPT !.auto = ~rule.auto]
           \/ rule' = [rule EXCEPT !.revert = ~rule.revert]
           \/ rule' = rule
    BY <1>3, Zenon DEF SetSwitch, FenceTaken
  <2>2. EditHoldsFence'
    BY <2>1 DEF WorkerInv, EditHoldsFence
  <2>3. rule' \in Rules
    <3>1. (~rule.auto) \in BOOLEAN /\ (~rule.revert) \in BOOLEAN
      OBVIOUS
    <3>2. \A v \in BOOLEAN : [rule EXCEPT !.auto = v] \in Rules
      BY <1>0 DEF Rules
    <3>3. \A v \in BOOLEAN : [rule EXCEPT !.revert = v] \in Rules
      BY <1>0 DEF Rules
    <3>4. QED
      BY <1>0, <2>1, <3>1, <3>2, <3>3, Zenon
  <2>4. QED
    BY <2>1, <2>2, <2>3, PolicyKeeps
<1>4. QED
  BY <1>1, <1>2, <1>3

\* An operator takes a run out of automatic recovery.
LEMMA CancelKeeps ==
  ASSUME WorkerInv, NEW b \in Decisions, CancelRecovery(b)
  PROVE  WorkerInv' /\ Continues /\ Writes
<1>1. bundle \in Seq(Row) /\ b \in DOMAIN bundle /\ bundle[b] \in Row
  BY DEF WorkerInv, Bundles, Decisions
<1>2. /\ up /\ ~Open(b) /\ bundle' = [bundle EXCEPT ![b].cancelled = TRUE]
      /\ UNCHANGED <<rule, armed, ev, fence, op, up>>
  BY Zenon DEF CancelRecovery
<1> DEFINE q == [bundle[b] EXCEPT !.cancelled = TRUE]
<1>3. q \in Row
  BY <1>1, RowUpdates
<1>4. /\ q.kind = bundle[b].kind /\ q.rev = bundle[b].rev /\ q.src = bundle[b].src /\ q.eff = bundle[b].eff
      /\ q.inv = bundle[b].inv /\ q.job = bundle[b].job /\ q.state = bundle[b].state
  BY <1>1 DEF Row
<1>5. bundle' = [bundle EXCEPT ![b] = q]
  BY <1>1, <1>2
<1> HIDE DEF q
<1>6. ActivationFits(bundle[b]) => ActivationFits(q)
  BY <1>4 DEF ActivationFits, OwnsNothing
<1>7. Calm(bundle[b], q)
  BY <1>3, <1>4, <1>6 DEF Calm, Steady
<1>8. Follows(bundle, bundle', b)
  BY <1>1, <1>5, <1>7, RowFollows
<1>9. EditHoldsFence' /\ ~IsFresh(bundle[b])
  BY <1>2 DEF WorkerInv, EditHoldsFence, IsFresh, Open
<1>10. QED
  BY <1>2, <1>8, <1>9, FollowsKeeps

\* A row whose inverses changed, without taking back what was undone.
LEMMA InversesCalm ==
  ASSUME NEW r \in Row, NEW I \in [Rows -> Inverses], \A i \in Rows : r.inv[i] = "done" => I[i] = "done"
  PROVE  LET q == [r EXCEPT !.inv = I] IN
         Calm(r, q) /\ q.inv = I /\ q.eff = r.eff /\ q.job = r.job /\ (IsFresh(r) => IsFresh(q))
<1> DEFINE q == [r EXCEPT !.inv = I]
<1>1. q \in Row
  BY RowUpdates
<1>2. q.inv = I /\ q.kind = r.kind /\ q.rev = r.rev /\ q.src = r.src /\ q.eff = r.eff
      /\ q.job = r.job /\ q.state = r.state /\ q.claim = r.claim
  BY DEF Row
<1> HIDE DEF q
<1>3. OwnsNothing(r) => OwnsNothing(q)
  BY <1>2 DEF OwnsNothing
<1>4. ActivationFits(r) => ActivationFits(q)
  BY <1>2, <1>3 DEF ActivationFits
<1>5. Calm(r, q)
  BY <1>1, <1>2, <1>4 DEF Calm, Steady
<1>6. IsFresh(r) => IsFresh(q)
  BY <1>2 DEF IsFresh
<1>7. QED
  BY <1>2, <1>5, <1>6 DEF q

LEMMA ManualKeeps ==
  ASSUME WorkerInv, ManualInverse \/ ManualClear
  PROVE  WorkerInv' /\ Continues /\ Writes
<1>1. bundle \in Seq(Row) /\ \A x \in Decisions : bundle[x] \in Row
  BY DEF WorkerInv, Bundles, Decisions
<1>2. CASE ManualInverse
  <2> DEFINE I(b) == [i \in Rows |-> IF i \in Changed(b) THEN "done" ELSE bundle[b].inv[i]]
  <2>1. /\ up /\ UNCHANGED <<rule, armed, ev, fence, up>> /\ op' = [pc |-> "clear"]
        /\ bundle' = [b \in Decisions |-> [bundle[b] EXCEPT !.inv = I(b)]]
    BY <1>2, Zenon DEF ManualInverse
  <2>2. ASSUME NEW x \in Decisions
        PROVE  Calm(bundle[x], bundle'[x]) /\ (IsFresh(bundle[x]) => IsFresh(bundle'[x]))
    <3>1. bundle[x].inv \in [Rows -> Inverses]
      BY <1>1 DEF Row
    <3>2. I(x) \in [Rows -> Inverses] /\ \A i \in Rows : bundle[x].inv[i] = "done" => I(x)[i] = "done"
      BY <3>1 DEF Inverses
    <3>3. bundle'[x] = [bundle[x] EXCEPT !.inv = I(x)]
      BY <2>1
    <3> HIDE DEF I
    <3>4. QED
      BY <1>1, <3>2, <3>3, InversesCalm
  <2>3. bundle' = [b \in DOMAIN bundle |-> bundle'[b]]
    BY <2>1 DEF Decisions
  <2>4. Follows(bundle, bundle', None)
    BY <2>2, <2>3 DEF Follows, Decisions
  <2>5. EditHoldsFence'
    BY <2>1 DEF EditHoldsFence
  <2>6. None \notin Decisions
    BY <1>1 DEF None, Decisions
  <2>7. QED
    BY <2>1, <2>4, <2>5, <2>6, FollowsKeeps
<1>3. CASE ManualClear
  <2>1. up /\ UNCHANGED <<rule, armed, ev, bundle, fence, up>> /\ op' = [pc |-> "idle"]
    BY <1>3, Zenon DEF ManualClear, Idle
  <2>2. EvFits'
    BY <2>1 DEF WorkerInv, EvFits, Looking, Forward, Decisions
  <2>3. QED
    BY <2>1, <2>2, BundleKept
<1>4. QED
  BY <1>2, <1>3

LEMMA CalmOn ==
  ASSUME NEW p, NEW q, NEW r, Calm(p, q), Calm(q, r)
  PROVE  Calm(p, r)
BY DEF Calm, Steady

\* The process stops, or starts: no decision has a worker.
LEMMA CalmSettles ==
  ASSUME WorkerInv, bundle' = [x \in Decisions |-> bundle'[x]],
         \A x \in Decisions : Calm(bundle[x], bundle'[x]) /\ bundle'[x].job = "none",
         rule' = rule, armed' = armed, ev' = Idle, EditHoldsFence'
  PROVE  WorkerInv' /\ Continues /\ Writes
<1>1. bundle \in Seq(Row) /\ Decisions = 1..Len(bundle) /\ Len(bundle) \in Nat
  BY DEF WorkerInv, Bundles, Decisions
<1>2. bundle' \in Seq(Row) /\ Decisions' = Decisions
  <2>1. \A x \in Decisions : bundle'[x] \in Row
    BY DEF Calm, Steady
  <2>2. bundle' \in [1..Len(bundle) -> Row]
    BY <1>1, <2>1
  <2>3. QED
    BY <1>1, <2>2 DEF Decisions
<1>3. Bundles'
  BY <1>2 DEF WorkerInv, Bundles, Calm, Steady
<1>4. Continues
  BY <1>2 DEF Continues, Decisions, Calm, Steady
<1>5. ActHoldsFence' /\ ActAuthorized' /\ DownIsIdle'
  <2>1. \A x \in Decisions' : bundle'[x].job = "none"
    BY <1>2
  <2>2. QED
    BY <2>1 DEF ActHoldsFence, ActAuthorized, DownIsIdle, Idle
<1>6. EvFits'
  BY DEF EvFits, Looking, Idle
<1>7. Writes
  <2> SUFFICES ASSUME NEW b \in Decisions, NEW i \in Rows,
                      bundle[b].eff[i] = "pending", bundle'[b].eff[i] = "changed"
               PROVE  FALSE
    BY DEF Writes
  <2> QED
    BY DEF Calm
<1>8. QED
  BY <1>3, <1>4, <1>5, <1>6, <1>7 DEF WorkerInv

LEMMA CrashKeeps ==
  ASSUME WorkerInv, Crash
  PROVE  WorkerInv' /\ Continues /\ Writes
<1>1. /\ rule' = rule /\ armed' = armed /\ ev' = Idle /\ op' = [pc |-> "idle"]
      /\ bundle' = [b \in Decisions |-> [bundle[b] EXCEPT !.job = "none"]]
  BY Zenon DEF Crash, Idle
<1>2. ASSUME NEW x \in Decisions PROVE Calm(bundle[x], bundle'[x]) /\ bundle'[x].job = "none"
  <2>1. bundle[x] \in Row /\ bundle'[x] = [bundle[x] EXCEPT !.job = "none"]
    BY <1>1 DEF WorkerInv, Bundles, Decisions
  <2>2. Calm(bundle[x], bundle'[x])
    <3>1. Calm(bundle[x], [bundle[x] EXCEPT !.job = "none"])
      BY <2>1, JobCalm DEF Jobs
    <3>2. QED
      BY <2>1, <3>1, Zenon
  <2>3. bundle'[x].job = "none"
    BY <2>1 DEF Row
  <2>4. QED
    BY <2>2, <2>3
<1>3. EditHoldsFence' /\ bundle' = [x \in Decisions |-> bundle'[x]]
  BY <1>1 DEF EditHoldsFence
<1>4. QED
  BY <1>1, <1>2, <1>3, CalmSettles

\* Rows in flight of a decision without a worker, when the process starts.
LEMMA UncertainCalm ==
  ASSUME NEW r \in Row, r.job = "none"
  PROVE  LET E == [i \in Rows |-> IF r.eff[i] = "pending" THEN "unknown" ELSE r.eff[i]]
             I == [i \in Rows |-> IF r.inv[i] = "running" THEN "unknown" ELSE r.inv[i]]
             q == [r EXCEPT !.eff = E, !.inv = I]
         IN  Calm(r, q) /\ q.job = "none" /\ \A i \in Rows : q.eff[i] # "pending"
<1> DEFINE E == [i \in Rows |-> IF r.eff[i] = "pending" THEN "unknown" ELSE r.eff[i]]
           I == [i \in Rows |-> IF r.inv[i] = "running" THEN "unknown" ELSE r.inv[i]]
           p == [r EXCEPT !.eff = E]
           q == [r EXCEPT !.eff = E, !.inv = I]
<1>1. r.eff \in [Rows -> Effects] /\ r.inv \in [Rows -> Inverses]
  BY DEF Row
<1>2. E \in [Rows -> Effects] /\ (\A i \in Rows : E[i] # "pending")
      /\ \A i \in Rows : E[i] \in {"none", "noop", "changed"} => E[i] = r.eff[i]
  BY <1>1 DEF Effects
<1>3. \A i \in Rows : r.eff[i] \in {"none", "noop"} => E[i] = r.eff[i]
  BY <1>1
<1>4. I \in [Rows -> Inverses] /\ \A i \in Rows : r.inv[i] = "done" => I[i] = "done"
  BY <1>1 DEF Inverses
<1> HIDE DEF E, I
<1>5. p \in Row
  BY <1>2, RowUpdates
<1>6. p.eff = E /\ p.kind = r.kind /\ p.rev = r.rev /\ p.src = r.src /\ p.inv = r.inv
      /\ p.job = r.job /\ p.state = r.state
  BY DEF Row
<1>7. q = [p EXCEPT !.inv = I]
  OBVIOUS
<1> HIDE DEF p, q
<1>8. Calm(r, p)
  <2>1. OwnsNothing(r) => OwnsNothing(p)
    BY <1>3, <1>6 DEF OwnsNothing
  <2>2. ActivationFits(r) => ActivationFits(p)
    BY <1>6, <2>1 DEF ActivationFits
  <2>3. QED
    BY <1>2, <1>5, <1>6, <2>2 DEF Calm, Steady
<1>9. Calm(p, q) /\ q.eff = p.eff /\ q.job = p.job
  BY <1>4, <1>5, <1>6, <1>7, InversesCalm
<1>10. Calm(r, q)
  BY <1>8, <1>9, CalmOn
<1>11. QED
  BY <1>2, <1>6, <1>9, <1>10 DEF q, E, I

\* What startup leaves of an open activation: blocked while it may own a change.
LEMMA StoppedCalm ==
  ASSUME NEW r \in Row, NEW s \in {"blocked", "aborted"}, r.job = "none",
         s = "aborted" => OwnsNothing(r)
  PROVE  LET q == [r EXCEPT !.state = s] IN Calm(r, q) /\ q.job = "none"
<1> DEFINE q == [r EXCEPT !.state = s]
<1>1. q \in Row
  <2>1. s \in {"planned", "running", "succeeded", "blocked"} \cup Ended
    BY DEF Ended
  <2>2. QED
    BY <2>1, RowUpdates
<1>2. q.state = s /\ q.kind = r.kind /\ q.rev = r.rev /\ q.src = r.src /\ q.eff = r.eff
      /\ q.job = r.job /\ q.inv = r.inv
  BY DEF Row
<1> HIDE DEF q
<1>3. ActivationFits(q)
  BY <1>2 DEF ActivationFits, OwnsNothing, Ended
<1>4. Calm(r, q)
  BY <1>1, <1>2, <1>3 DEF Calm, Steady
<1>5. QED
  BY <1>2, <1>4 DEF q

LEMMA StartupKeeps ==
  ASSUME WorkerInv, Startup
  PROVE  WorkerInv' /\ Continues /\ Writes
<1> DEFINE open == {b \in Decisions : Open(b)}
           E(b) == [i \in Rows |-> IF bundle[b].eff[i] = "pending" THEN "unknown" ELSE bundle[b].eff[i]]
           I(b) == [i \in Rows |-> IF bundle[b].inv[i] = "running" THEN "unknown" ELSE bundle[b].inv[i]]
           rows == [b \in Decisions |-> [bundle[b] EXCEPT !.eff = E(b), !.inv = I(b)]]
           children == open \cap Children
           settled == IF children = {} THEN rows
                      ELSE finalize_recovery_child(rows, CHOOSE c \in children : TRUE)
           owns(b) == \E i \in Rows : settled[b].eff[i] \in {"changed", "unknown"}
                                      /\ settled[b].inv[i] # "done"
           stopped(b) == [settled[b] EXCEPT !.state = IF owns(b) THEN "blocked" ELSE "aborted"]
<1>1. /\ ~up /\ UNCHANGED <<rule, armed, ev, fence, op>>
      /\ bundle' = [b \in Decisions |-> IF b \in open \cap Forward THEN stopped(b) ELSE settled[b]]
  BY Zenon DEF Startup
<1>2. /\ bundle \in Seq(Row) /\ Decisions = 1..Len(bundle) /\ Len(bundle) \in Nat
      /\ \A x \in Decisions : bundle[x] \in Row /\ bundle[x].job = "none"
  <2>1. bundle \in Seq(Row)
    BY DEF WorkerInv, Bundles
  <2>2. \A x \in Decisions : bundle[x].job = "none"
    BY <1>1, Zenon DEF WorkerInv, DownIsIdle
  <2>3. QED
    BY <2>1, <2>2 DEF Decisions
<1>3. ASSUME NEW x \in Decisions
      PROVE  Calm(bundle[x], rows[x]) /\ rows[x].job = "none" /\ \A i \in Rows : rows[x].eff[i] # "pending"
  BY <1>2, UncertainCalm
<1>4. rows \in Seq(Row) /\ DOMAIN rows = Decisions
  <2>1. \A x \in Decisions : rows[x] \in Row
    BY <1>3 DEF Calm, Steady
  <2>2. rows = [x \in Decisions |-> rows[x]]
    OBVIOUS
  <2> HIDE DEF rows
  <2>3. rows \in [1..Len(bundle) -> Row]
    BY <1>2, <2>1, <2>2
  <2>4. QED
    BY <1>2, <2>3
<1> HIDE DEF rows
<1>5. ASSUME NEW x \in Decisions
      PROVE  Calm(bundle[x], settled[x]) /\ settled[x].job = "none" /\ \A i \in Rows : settled[x].eff[i] # "pending"
  <2>1. CASE children = {}
    BY <1>3, <2>1
  <2>2. CASE children # {}
    <3> DEFINE c == CHOOSE d \in children : TRUE
    <3>1. c \in children
      BY <2>2
    <3>2. c \in Decisions /\ bundle[c].kind = "recovery"
      BY <3>1 DEF Children
    <3>3. settled = finalize_recovery_child(rows, c)
      BY <2>2
    <3> HIDE DEF c, settled
    <3>4. rows[c].kind = "recovery"
      BY <1>3, <3>2 DEF Calm, Steady
    <3>5. Calm(rows[x], settled[x]) /\ settled[x].eff = rows[x].eff /\ settled[x].job \in {"none", rows[x].job}
      BY <1>4, <3>2, <3>3, <3>4, FinalizeFollows DEF Follows
    <3>6. Calm(bundle[x], settled[x])
      BY <1>3, <3>5, CalmOn
    <3>7. QED
      BY <1>3, <3>5, <3>6
  <2>3. QED
    BY <2>1, <2>2
<1> HIDE DEF settled
<1>6. ASSUME NEW x \in Decisions PROVE Calm(bundle[x], bundle'[x]) /\ bundle'[x].job = "none"
  <2>1. CASE x \notin open \cap Forward
    BY <1>1, <1>5, <2>1
  <2>2. CASE x \in open \cap Forward
    <3> DEFINE s == IF owns(x) THEN "blocked" ELSE "aborted"
    <3>1. bundle'[x] = [settled[x] EXCEPT !.state = s]
      BY <1>1, <2>2
    <3>2. settled[x] \in Row /\ \A i \in Rows : settled[x].eff[i] \in Effects
      BY <1>5 DEF Calm, Steady, Row
    <3>3. s \in {"blocked", "aborted"} /\ (s = "aborted" => OwnsNothing(settled[x]))
      BY <1>5, <3>2 DEF OwnsNothing, Effects
    <3> HIDE DEF s
    <3>4. Calm(settled[x], bundle'[x]) /\ bundle'[x].job = "none"
      <4> DEFINE q == [settled[x] EXCEPT !.state = s]
      <4>1. Calm(settled[x], q) /\ q.job = "none"
        BY <1>5, <3>2, <3>3, StoppedCalm
      <4>2. QED
        BY <3>1, <4>1, Zenon
    <3>5. QED
      BY <1>5, <3>4, CalmOn
  <2>3. QED
    BY <2>1, <2>2
<1>7. bundle' = [x \in Decisions |-> bundle'[x]]
  BY <1>1
<1>8. ev' = Idle /\ EditHoldsFence'
  BY <1>1 DEF WorkerInv, DownIsIdle, EditHoldsFence
<1>9. QED
  BY <1>1, <1>6, <1>7, <1>8, CalmSettles

-----------------------------------------------------------------------------
(* The invariant holds, and what follows from it *)

LEMMA WorkerStep ==
  ASSUME WorkerInv, [Next]_vars
  PROVE  WorkerInv' /\ Continues /\ Writes
<1>0. ASSUME UNCHANGED <<rule, bundle, ev>> PROVE EvFits'
  BY <1>0 DEF WorkerInv, EvFits, Looking, Forward, Decisions
<1>1. CASE UNCHANGED vars
  BY <1>0, <1>1, BundleKept DEF vars
<1>2. CASE Tick \/ \E m \in Members : Sample(m)
  <2>1. UNCHANGED <<rule, armed, ev, bundle, fence, op, up>>
    BY <1>2, Zenon DEF Tick, Sample
  <2>2. QED
    BY <1>0, <2>1, BundleKept
<1>3. CASE Evaluate
  BY <1>3, EvaluatorQuiet, EvaluatorPublishes, SubmitKeeps DEF Evaluate
<1>4. CASE Operate
  BY <1>4, EditsKeep, ManualKeeps, CancelKeeps DEF Operate
<1>5. CASE \E b \in Decisions : WorkOn(b) \/ Panic(b)
  BY <1>5, TakeAndPrepare, StartActionKeeps, EndActionKeeps, UndoKeeps, InverseKeeps, PanicKeeps DEF WorkOn
<1>6. CASE Crash \/ Startup
  BY <1>6, CrashKeeps, StartupKeeps
<1>7. QED
  BY <1>1, <1>2, <1>3, <1>4, <1>5, <1>6 DEF Next

\* Decisions, workers, fence and evaluator fit each other in every reachable
\* state: a command is sent only by the holder of the fence, under the policy it
\* was authorized by, and a decision that ended has no worker.
THEOREM WorkerCorrect == Spec => []WorkerInv
<1>1. WorkerInv /\ [Next]_vars => WorkerInv'
  BY WorkerStep
<1>2. QED
  BY <1>1, WorkerInit, PTL DEF Spec

\* A decision that failed, was aborted or was compensated leaves nothing on a
\* router and nothing under way, whatever panicked, crashed or was refused.
THEOREM FailuresOwnNothing == Spec => []FailedOwnsNothing
<1>1. WorkerInv => FailedOwnsNothing
  BY DEF WorkerInv, Bundles, FailedOwnsNothing, Forward, ActivationFits, OwnsNothing, Ended, Undone
<1>2. QED
  BY <1>1, WorkerCorrect, PTL

\* At the moment an activation's change reaches a router the rule is enabled,
\* armed and unchanged since it fired, whatever was edited since it was checked.
THEOREM WritesAuthorized == Spec => WriteUnderAuthority
<1> DEFINE Authorized == \A b \in Forward, i \in Rows :
             bundle[b].eff[i] = "pending" /\ bundle'[b].eff[i] = "changed"
             => rule.enabled /\ rule.auto /\ armed /\ rule.rev = bundle[b].rev
<1>1. WorkerInv /\ [Next]_vars => [Authorized]_vars
  <2> SUFFICES ASSUME WorkerInv, [Next]_vars PROVE Authorized
    OBVIOUS
  <2>1. Writes
    BY WorkerStep
  <2>2. QED
    BY <2>1 DEF Writes, WorkerInv, ActAuthorized, Forward
<1>2. QED
  BY <1>1, WorkerCorrect, PTL DEF Spec, WriteUnderAuthority

-----------------------------------------------------------------------------
(* The evidence behind a firing *)

Owning == {"firing", "awaiting"}
States == [state : {"clear", "matching"} \cup Owning, first : Int, count : Nat,
           rfirst : Int, rcount : Nat, seen : [Members -> Int], at : Int]
Rests(s) == s.count = 0 /\ s.first = Never

TelemetryFits ==
    /\ clock \in Nat /\ IsFiniteSet(Members) /\ Members # {}
    /\ sample \in [Members -> [ts : Nat, val : Values, ok : {"good", "invalid", "low"}]]

\* The rounds of a streak matched the row they were compared with, each moved
\* every member, no gap is too large, and the row changes only after a round
\* that an edit overtook.
Unbroken(q) ==
    /\ \A k \in 1..Len(q) : q[k].value >= q[k].fire
    /\ \A k \in 1..Len(q) - 1 :
          /\ \A m \in Members : q[k].evidence[m] < q[k + 1].evidence[m]
          /\ q[k + 1].at - q[k].at <= StaleAfter
          /\ q[k].rev # q[k + 1].rev => q[k].late

\* The last round was compared with the row of revision rev, or overtaken.
Under(q, rev) == q[Len(q)].late \/ q[Len(q)].rev = rev

\* The match count and the cursors of a state are those of the streak.
Tied(s, q) ==
    /\ Len(q) = s.count /\ s.count > 0 /\ {s.first, s.at} \subseteq Nat /\ s.first <= s.at
    /\ q[1].at = s.first /\ q[s.count].at = s.at /\ q[s.count].evidence = s.seen
    /\ \A m \in Members : s.at <= s.seen[m]

Backed(s, q, rev) ==
    s.state \notin Owning => Rests(s) \/ (Tied(s, q) /\ Unbroken(q) /\ Under(q, rev))

IsRound(o) == /\ o.at \in Nat /\ o.evidence \in [Members -> Nat]
              /\ \A m \in Members : o.at <= o.evidence[m]

\* The observation o continues a state that has a count.
Advances(s, o) ==
    s.state \notin Owning /\ ~Rests(s) =>
        /\ s.at <= o.at /\ o.at - s.at <= StaleAfter
        /\ \A m \in Members : s.seen[m] < o.evidence[m]

\* While the evaluation decides, an operator may clear the stored state under
\* it; what it read stays backed, and what it believes disowned it saw so.
Deciding ==
    /\ "prev" \in DOMAIN ev /\ ev.prev \in States
    /\ Backed(ev.prev, streak, ev.rule.rev) /\ Advances(ev.prev, ev.obs)
    /\ ev.prev.state = "firing" /\ st.state \notin Owning => Rests(st)
    /\ ev.prev.state \notin Owning /\ st.state \in Owning => ev.held = {}

Evidence == /\ TelemetryFits /\ st \in States /\ (\E S : streak \in Seq(S))
            /\ Backed(st, streak, rule.rev)
            /\ ev.pc = "loaded" => Backed(st, streak, ev.rule.rev)
            /\ Looking => IsRound(ev.obs)
            /\ ev.pc = "decide" => Deciding

\* What a step that fires has proved, and one that lets go of a rule has seen.
FiringStep == Fires => LET s == streak' IN
          /\ Len(s) >= ev.rule.samples
          /\ s[Len(s)].at - s[1].at >= ev.rule.duration
          /\ \A k \in 1..Len(s) : s[k].value >= s[k].fire
          /\ \A k \in 1..Len(s) - 1 :
                /\ \A m \in Members : s[k].evidence[m] < s[k + 1].evidence[m]
                /\ s[k + 1].at - s[k].at <= StaleAfter
                /\ s[k].rev # s[k + 1].rev => s[k].late
QuietStep == ev.pc \in {"decide", "recover", "clear"} /\ ev' # ev
             /\ st.state \in {"firing", "awaiting"} /\ st'.state \notin {"firing", "awaiting"}
             => \A b \in ev.held : Outstanding(b) = {}

LEMMA EvidenceInit == Init => Evidence
<1> SUFFICES ASSUME Init PROVE Evidence
  OBVIOUS
<1>1. PICK s \in Shapes :
          rule = [flow |-> s.flow, members |-> s.members, fire |-> s.fire, mode |-> s.mode,
                  recover |-> s.recover, duration |-> s.duration, samples |-> s.samples,
                  auto |-> s.auto, enabled |-> TRUE, revert |-> TRUE, rev |-> 0]
  BY DEF Init
<1>2. Members = s.members
  BY <1>1 DEF Members
<1>3. TelemetryFits
  <2>1. clock = 0 /\ sample \in [Members -> {[ts |-> 0, val |-> v, ok |-> "good"] : v \in Values}]
    BY DEF Init, Members
  <2>2. {[ts |-> 0, val |-> v, ok |-> "good"] : v \in Values} \subseteq
           [ts : Nat, val : Values, ok : {"good", "invalid", "low"}]
    OBVIOUS
  <2>3. QED
    BY <1>2, <2>1, <2>2, DetectionAssumption DEF TelemetryFits
<1>4. st = [state |-> "clear", first |-> -1, count |-> 0, rfirst |-> -1, rcount |-> 0,
            seen |-> [m \in Members |-> -1], at |-> -1]
  BY Zenon DEF Init, Never
<1>5. st \in States /\ Rests(st)
  BY <1>4 DEF States, Rests, Never
<1>6. streak = <<>> /\ ev = [pc |-> "idle"]
  BY DEF Init, Idle
<1>7. \E S : streak \in Seq(S)
  <2>1. streak \in Seq({})
    BY <1>6
  <2>2. QED
    BY <2>1
<1>8. QED
  BY <1>3, <1>5, <1>6, <1>7 DEF Evidence, Backed, Looking

\* One field of a state at a time.
LEMMA StateUpdates ==
  ASSUME NEW s \in States
  PROVE  /\ \A t \in {"clear", "matching"} \cup Owning : [s EXCEPT !.state = t] \in States
         /\ \A n \in Int : [s EXCEPT !.first = n] \in States
         /\ \A n \in Nat : [s EXCEPT !.count = n] \in States
         /\ \A n \in Int : [s EXCEPT !.rfirst = n] \in States
         /\ \A n \in Nat : [s EXCEPT !.rcount = n] \in States
         /\ \A e \in [Members -> Int] : [s EXCEPT !.seen = e] \in States
         /\ \A n \in Int : [s EXCEPT !.at = n] \in States
<1>1. \A t \in {"clear", "matching"} \cup Owning : [s EXCEPT !.state = t] \in States
  BY DEF States
<1>2. \A n \in Int : [s EXCEPT !.first = n] \in States
  BY DEF States
<1>3. \A n \in Nat : [s EXCEPT !.count = n] \in States
  BY DEF States
<1>4. \A n \in Int : [s EXCEPT !.rfirst = n] \in States
  BY DEF States
<1>5. \A n \in Nat : [s EXCEPT !.rcount = n] \in States
  BY DEF States
<1>6. \A e \in [Members -> Int] : [s EXCEPT !.seen = e] \in States
  BY DEF States
<1>7. \A n \in Int : [s EXCEPT !.at = n] \in States
  BY DEF States
<1>8. QED
  BY <1>1, <1>2, <1>3, <1>4, <1>5, <1>6, <1>7

\* A state whose counts are reset.
LEMMA ResetState ==
  ASSUME NEW s \in States, NEW t \in {"clear", "matching"} \cup Owning
  PROVE  LET q == [s EXCEPT !.state = t, !.first = Never, !.count = 0, !.rfirst = Never, !.rcount = 0] IN
         q \in States /\ Rests(q) /\ q.state = t
<1> DEFINE a == [s EXCEPT !.state = t]
           b == [a EXCEPT !.first = Never]
           c == [b EXCEPT !.count = 0]
           d == [c EXCEPT !.rfirst = Never]
           q == [d EXCEPT !.rcount = 0]
<1>0. Never \in Int
  BY DEF Never
<1>1. a \in States /\ a.state = t
  <2>1. a \in States
    BY StateUpdates
  <2>2. QED
    BY <2>1 DEF States
<1>2. b \in States /\ b.state = t /\ b.first = Never
  <2> HIDE DEF a
  <2>1. b \in States
    BY <1>0, <1>1, StateUpdates
  <2>2. QED
    BY <1>1, <2>1 DEF States
<1>3. c \in States /\ c.state = t /\ c.first = Never /\ c.count = 0
  <2> HIDE DEF b
  <2>1. c \in States
    BY <1>2, StateUpdates
  <2>2. QED
    BY <1>2, <2>1 DEF States
<1>4. d \in States /\ d.state = t /\ d.first = Never /\ d.count = 0
  <2> HIDE DEF c
  <2>1. d \in States
    BY <1>0, <1>3, StateUpdates
  <2>2. QED
    BY <1>3, <2>1 DEF States
<1>5. q \in States /\ q.state = t /\ q.first = Never /\ q.count = 0
  <2> HIDE DEF d
  <2>1. q \in States
    BY <1>4, StateUpdates
  <2>2. QED
    BY <1>4, <2>1 DEF States
<1>6. q = [s EXCEPT !.state = t, !.first = Never, !.count = 0, !.rfirst = Never, !.rcount = 0]
  OBVIOUS
<1> HIDE DEF q
<1>7. QED
  BY <1>5, <1>6 DEF Rests

\* Steps of others: the state is kept or cleared, the streak is kept.
LEMMA OthersKeep ==
  ASSUME Evidence, TelemetryFits', rule'.members = rule.members,
         rule'.rev = rule.rev \/ st' = Cleared, streak' = streak, EvFits,
         \/ st' \in {st, Cleared} /\ ev' = ev
         \/ st' = st /\ ev' = Idle
         \/ st' = st /\ Looking /\ ev' = [ev EXCEPT !.pc = "clear"]
         \/ st' = st /\ ev.pc = "idle" /\ ev' = [pc |-> "loaded", rule |-> rule]
  PROVE  Evidence' /\ FiringStep /\ QuietStep
<1>1. /\ Members' = Members /\ States' = States /\ (\A q : Unbroken(q)' = Unbroken(q))
  BY DEF Members, States, Unbroken
<1>2. Cleared \in States /\ Rests(Cleared) /\ Cleared.state = "clear"
  <2>1. st \in States
    BY DEF Evidence
  <2>2. QED
    BY <2>1, ResetState DEF Cleared
<1>3. st' \in States /\ (st' = st \/ (Rests(st') /\ st'.state = "clear"))
  BY <1>2 DEF Evidence
<1>4. Backed(st, streak, rule.rev)' /\ st' \in States'
  <2>1. Backed(st, streak, rule.rev) /\ (rule'.rev = rule.rev \/ (Rests(st') /\ st'.state = "clear"))
    BY <1>2 DEF Evidence
  <2>2. QED
    BY <1>1, <1>3, <2>1 DEF Backed, Tied, Rests, Under, Members, Unbroken
<1>5. \E S : streak' \in Seq(S)
  BY DEF Evidence
<1>6. Looking' => IsRound(ev.obs)'
  <2>1. CASE ev' = ev
    BY <2>1, <1>1 DEF Evidence, Looking, IsRound
  <2>2. CASE ev' = Idle \/ ev' = [pc |-> "loaded", rule |-> rule]
    BY <2>2 DEF Looking, Idle
  <2>3. CASE Looking /\ ev' = [ev EXCEPT !.pc = "clear"]
    <3>1. ev'.obs = ev.obs
      BY <2>3
    <3>2. QED
      BY <1>1, <2>3, <3>1 DEF Evidence, IsRound
  <2>4. QED
    BY <2>1, <2>2, <2>3
<1>7. ev'.pc = "decide" => Deciding'
  <2>1. CASE ev' = ev
    <3> SUFFICES ASSUME ev.pc = "decide" PROVE Deciding'
      BY <2>1
    <3>1. Deciding
      BY DEF Evidence
    <3>2. Backed(ev.prev, streak, ev.rule.rev)' /\ Advances(ev.prev, ev.obs)'
      BY <2>1, <3>1, <1>1 DEF Deciding, Backed, Advances, Tied, Rests, Under, Members, Unbroken
    <3>3. QED
      BY <2>1, <3>1, <3>2, <1>1, <1>3 DEF Deciding, Rests, Owning
  <2>2. CASE ev' = Idle \/ ev' = [pc |-> "loaded", rule |-> rule]
    BY <2>2 DEF Idle
  <2>3. CASE Looking /\ ev' = [ev EXCEPT !.pc = "clear"]
    BY <2>3 DEF EvFits
  <2>4. QED
    BY <2>1, <2>2, <2>3
<1>8. ev'.pc = "loaded" => Backed(st, streak, ev.rule.rev)'
  <2>1. CASE ev' = ev
    <3>1. ev.pc = "loaded" => Backed(st, streak, ev.rule.rev)
      BY DEF Evidence
    <3>2. QED
      BY <2>1, <3>1, <1>1, <1>3 DEF Backed, Tied, Rests, Under, Members, Unbroken
  <2>2. CASE ev' = Idle
    BY <2>2 DEF Idle
  <2>3. CASE Looking /\ ev' = [ev EXCEPT !.pc = "clear"]
    BY <2>3 DEF EvFits
  <2>4. CASE st' = st /\ ev' = [pc |-> "loaded", rule |-> rule]
    <3>1. Backed(st, streak, rule.rev) /\ ev'.rule.rev = rule.rev
      BY <2>4 DEF Evidence
    <3>2. QED
      BY <2>4, <3>1, <1>1 DEF Backed, Tied, Rests, Under, Members, Unbroken
  <2>5. QED
    BY <2>1, <2>2, <2>3, <2>4
<1>9. FiringStep
  BY <1>3 DEF FiringStep, Fires
<1>10. QuietStep
  BY DEF QuietStep
<1>11. QED
  BY <1>4, <1>5, <1>6, <1>7, <1>8, <1>9, <1>10 DEF Evidence

\* An observation is as old as its oldest member.
LEMMA ObservationFits ==
  ASSUME TelemetryFits
  PROVE  /\ IsRound(Observation) /\ Observation.evidence = [m \in Members |-> sample[m].ts]
         /\ \E m \in Members : Observation.at = Observation.evidence[m]
<1> DEFINE f == [m \in Members |-> sample[m].ts]
           T == {sample[m].ts : m \in Members}
<1>1. \A m \in Members : sample[m].ts \in Nat
  BY DEF TelemetryFits
<1>2. f \in Surjection(Members, T)
  BY DEF Surjection
<1>3. IsFiniteSet(T)
  BY <1>2, FS_Surjection DEF TelemetryFits
<1>4. T \subseteq Int /\ T # {} /\ T \subseteq Nat
  BY <1>1 DEF TelemetryFits
<1>5. Min(T) \in T /\ \A y \in T : Min(T) <= y
  BY <1>3, <1>4, MinOf
<1>6. Observation.at = Min(T) /\ Observation.evidence = f
  BY DEF Observation
<1> HIDE DEF T
<1>7. IsRound(Observation)
  <2>1. Observation.at \in Nat
    BY <1>4, <1>5, <1>6
  <2>2. f \in [Members -> Nat] /\ \A m \in Members : f[m] \in T
    BY <1>1 DEF T
  <2> HIDE DEF f
  <2>3. QED
    BY <1>5, <1>6, <2>1, <2>2 DEF IsRound
<1>8. \E m \in Members : Min(T) = f[m]
  BY <1>5 DEF T
<1>9. QED
  BY <1>6, <1>7, <1>8

\* reset_unproven_streak drops the count and keeps a firing rule firing.
LEMMA ResetRests ==
  ASSUME NEW s \in States
  PROVE  /\ reset_unproven_streak(s) \in States /\ Rests(reset_unproven_streak(s))
         /\ reset_unproven_streak(s).state = IF s.state = "matching" THEN "clear" ELSE s.state
<1> DEFINE t == IF s.state = "matching" THEN "clear" ELSE s.state
<1>1. t \in {"clear", "matching"} \cup Owning
  BY DEF States
<1>2. reset_unproven_streak(s) = [s EXCEPT !.state = t, !.first = Never, !.count = 0, !.rfirst = Never, !.rcount = 0]
  BY DEF reset_unproven_streak
<1> HIDE DEF t
<1>3. LET q == [s EXCEPT !.state = t, !.first = Never, !.count = 0, !.rfirst = Never, !.rcount = 0] IN
         q \in States /\ Rests(q) /\ q.state = t
  BY <1>1, ResetState
<1>4. QED
  BY <1>2, <1>3 DEF t

\* An evaluation that finds the rule awaiting recovery and owning nothing.
LEMMA DisownedRests ==
  ASSUME NEW s \in States
  PROVE  LET q == [s EXCEPT !.state = "clear", !.first = Never, !.count = 0] IN
         q \in States /\ Rests(q) /\ q.state = "clear"
<1> DEFINE a == [s EXCEPT !.state = "clear"]
           b == [a EXCEPT !.first = Never]
           q == [b EXCEPT !.count = 0]
<1>0. Never \in Int
  BY DEF Never
<1>1. a \in States /\ a.state = "clear"
  <2>1. a \in States
    BY StateUpdates
  <2>2. QED
    BY <2>1 DEF States
<1>2. b \in States /\ b.state = "clear" /\ b.first = Never
  <2> HIDE DEF a
  <2>1. b \in States
    BY <1>0, <1>1, StateUpdates
  <2>2. QED
    BY <1>1, <2>1 DEF States
<1>3. q \in States /\ q.state = "clear" /\ q.first = Never /\ q.count = 0
  <2> HIDE DEF b
  <2>1. q \in States
    BY <1>2, StateUpdates
  <2>2. QED
    BY <1>2, <2>1 DEF States
<1>4. q = [s EXCEPT !.state = "clear", !.first = Never, !.count = 0]
  OBVIOUS
<1> HIDE DEF q
<1>5. QED
  BY <1>3, <1>4 DEF Rests

LEMMA ObserveBacked ==
  ASSUME WorkerInv, Evidence, EvalObserve
  PROVE  Evidence' /\ FiringStep /\ QuietStep
<1> DEFINE obs == Observation
           prev == IF Bridged(st, obs) THEN st ELSE reset_unproven_streak(st)
           gone == [prev EXCEPT !.state = "clear", !.first = Never, !.count = 0]
           disowned == prev.state = "awaiting" /\ ~(rule_owned_changes(FALSE) # {})
           seen == IF disowned THEN gone ELSE prev
<1>1. /\ ev.pc = "loaded" /\ UNCHANGED <<clock, sample, rule, bundle>>
      /\ \/ st' = reset_unproven_streak(st) /\ ev' = Idle /\ streak' = <<>>
         \/ ev' = Idle /\ st' = st /\ streak' = streak
         \/ /\ evidence_advanced(st.seen, obs.evidence)
            /\ st' = prev
            /\ streak' = IF Bridged(st, obs) THEN streak ELSE <<>>
            /\ ev' = [pc |-> "decide", rule |-> ev.rule, obs |-> obs, held |-> Held, prev |-> seen]
  BY Zenon DEF EvalObserve, telemetry
<1>2. /\ Members' = Members /\ States' = States /\ TelemetryFits' /\ (\A q : Unbroken(q)' = Unbroken(q))
  BY <1>1 DEF Members, States, TelemetryFits, Unbroken, Evidence
<1>3. FiringStep /\ QuietStep
  BY <1>1 DEF FiringStep, QuietStep, Fires
<1>4. /\ st \in States /\ (\E S : streak \in Seq(S)) /\ TelemetryFits
      /\ \A rev \in {rule.rev, ev.rule.rev} : Backed(st, streak, rev)
  BY <1>1 DEF Evidence
<1>5. \E S : <<>> \in Seq(S)
  <2>1. <<>> \in Seq({})
    OBVIOUS
  <2>2. QED
    BY <2>1
<1>6. CASE st' = reset_unproven_streak(st) /\ ev' = Idle /\ streak' = <<>>
  <2>1. st' \in States /\ Rests(st')
    BY <1>4, <1>6, ResetRests
  <2>2. Backed(st, streak, rule.rev)'
    BY <2>1 DEF Backed, Rests
  <2>3. ~Looking' /\ ev'.pc \notin {"decide", "loaded"}
    BY <1>6 DEF Looking, Idle
  <2>4. QED
    BY <1>2, <1>3, <1>5, <1>6, <2>1, <2>2, <2>3 DEF Evidence
<1>7. CASE ev' = Idle /\ st' = st /\ streak' = streak
  <2>1. rule'.members = rule.members /\ rule'.rev = rule.rev /\ EvFits
    BY <1>1 DEF WorkerInv
  <2>2. QED
    BY <1>2, <1>7, <2>1, OthersKeep
<1>8. CASE /\ evidence_advanced(st.seen, obs.evidence)
           /\ st' = prev
           /\ streak' = IF Bridged(st, obs) THEN streak ELSE <<>>
           /\ ev' = [pc |-> "decide", rule |-> ev.rule, obs |-> obs, held |-> Held, prev |-> seen]
  <2>1. /\ IsRound(obs) /\ DOMAIN obs.evidence = Members
        /\ \E m \in Members : obs.at = obs.evidence[m]
    BY <1>4, ObservationFits DEF IsRound
  <2> HIDE DEF obs
  <2>2. /\ prev \in States /\ Advances(prev, obs) /\ \E S : streak' \in Seq(S)
        /\ \A rev \in {rule.rev, ev.rule.rev} : Backed(prev, streak', rev)
    <3>1. CASE Bridged(st, obs)
      <4>1. prev = st /\ streak' = streak
        BY <1>8, <3>1
      <4>2. Advances(st, obs)
        <5> SUFFICES ASSUME st.state \notin Owning, ~Rests(st)
                     PROVE  /\ st.at <= obs.at /\ obs.at - st.at <= StaleAfter
                            /\ \A m \in Members : st.seen[m] < obs.evidence[m]
          BY DEF Advances
        <5>1. Tied(st, streak)
          BY <1>4 DEF Backed
        <5>2. \A m \in Members : st.seen[m] < obs.evidence[m]
          BY <1>8, <2>1 DEF evidence_advanced, IsRound
        <5>3. st.at \in Nat /\ \A m \in Members : st.at <= st.seen[m] /\ st.seen[m] \in Int
          BY <1>4, <5>1 DEF Tied, States
        <5>4. obs.at \in Nat /\ obs.evidence \in [Members -> Nat]
          BY <2>1 DEF IsRound
        <5>5. st.at <= obs.at
          BY <2>1, <5>2, <5>3, <5>4
        <5>6. obs.at - st.at <= StaleAfter
          BY <3>1, <5>3 DEF Bridged, Never
        <5>7. QED
          BY <5>2, <5>5, <5>6
      <4>3. QED
        BY <1>4, <4>1, <4>2
    <3>2. CASE ~Bridged(st, obs)
      <4>1. prev = reset_unproven_streak(st) /\ streak' = <<>>
        BY <1>8, <3>2
      <4>2. prev \in States /\ Rests(prev)
        BY <1>4, <4>1, ResetRests
      <4> HIDE DEF prev
      <4>3. QED
        BY <1>5, <4>1, <4>2 DEF Backed, Advances
    <3>3. QED
      BY <3>1, <3>2
  <2> HIDE DEF prev
  <2>3. gone \in States /\ Rests(gone) /\ gone.state = "clear"
    BY <2>2, DisownedRests
  <2> HIDE DEF gone
  <2>4. seen \in States /\ Backed(seen, streak', ev.rule.rev) /\ Advances(seen, obs)
    BY <2>2, <2>3 DEF Backed, Advances
  <2>5. seen # prev => seen.state = "clear" /\ Held = {}
    BY <2>3 DEF rule_owned_changes, Held
  <2> HIDE DEF seen
  <2>6. ev'.prev = seen /\ ev'.obs = obs /\ ev'.held = Held /\ "prev" \in DOMAIN ev' /\ ev'.pc = "decide"
        /\ ev'.rule = ev.rule
    BY <1>8
  <2>7. /\ Backed(ev.prev, streak, ev.rule.rev)' /\ Advances(ev.prev, ev.obs)'
        /\ Backed(st, streak, rule.rev)' /\ IsRound(ev.obs)'
    BY <1>1, <1>2, <1>8, <2>1, <2>2, <2>4, <2>6
    DEF Backed, Advances, IsRound, Tied, Rests, Under, Unbroken, Members
  <2>8. Deciding'
    BY <1>2, <1>8, <2>4, <2>5, <2>6, <2>7 DEF Deciding, Owning
  <2>9. QED
    BY <1>2, <1>3, <1>8, <2>2, <2>6, <2>7, <2>8 DEF Evidence
<1>9. QED
  BY <1>1, <1>6, <1>7, <1>8

\* A matching round that continues a streak.
LEMMA StreakGrows ==
  ASSUME NEW S, NEW q \in Seq(S), NEW o, Unbroken(q), o.value >= o.fire,
         q # <<>> => /\ \A m \in Members : q[Len(q)].evidence[m] < o.evidence[m]
                     /\ o.at - q[Len(q)].at <= StaleAfter
                     /\ Under(q, o.rev)
  PROVE  /\ Unbroken(Append(q, o)) /\ Len(Append(q, o)) = Len(q) + 1
         /\ Append(q, o) \in Seq(S \cup {o}) /\ Append(q, o)[Len(q) + 1] = o
         /\ q # <<>> => Append(q, o)[1] = q[1]
<1> DEFINE f == Append(q, o)
           n == Len(q)
<1>1. /\ n \in Nat /\ f \in Seq(S \cup {o}) /\ Len(f) = n + 1 /\ f[n + 1] = o
      /\ (\A k \in 1..n : f[k] = q[k]) /\ (q = <<>> <=> n = 0)
  <2>1. q \in Seq(S \cup {o})
    OBVIOUS
  <2>2. QED
    BY <2>1
<1> HIDE DEF f, n
<1>2. \A k \in 1..Len(f) : f[k].value >= f[k].fire
  <2> SUFFICES ASSUME NEW k \in 1..(n + 1) PROVE f[k].value >= f[k].fire
    BY <1>1
  <2>1. CASE k = n + 1
    BY <1>1, <2>1
  <2>2. CASE k # n + 1
    <3>1. k \in 1..n
      BY <1>1, <2>2
    <3>2. QED
      BY <1>1, <3>1 DEF Unbroken, n
  <2>3. QED
    BY <2>1, <2>2
<1>3. ASSUME NEW k \in 1..Len(f) - 1
      PROVE  /\ \A m \in Members : f[k].evidence[m] < f[k + 1].evidence[m]
             /\ f[k + 1].at - f[k].at <= StaleAfter
             /\ f[k].rev # f[k + 1].rev => f[k].late
  <2>1. k \in 1..n
    BY <1>1
  <2>2. CASE k = n
    <3>1. q # <<>> /\ f[k] = q[n] /\ f[k + 1] = o
      BY <1>1, <2>1, <2>2
    <3>2. QED
      BY <3>1 DEF n, Under
  <2>3. CASE k # n
    <3>1. k \in 1..n - 1 /\ k + 1 \in 1..n
      BY <1>1, <2>1, <2>3
    <3>2. f[k] = q[k] /\ f[k + 1] = q[k + 1]
      BY <1>1, <2>1, <3>1
    <3>3. QED
      BY <3>1, <3>2 DEF Unbroken, n
  <2>4. QED
    BY <2>2, <2>3
<1>4. q # <<>> => f[1] = q[1]
  BY <1>1
<1>5. Unbroken(f)
  BY <1>2, <1>3 DEF Unbroken
<1>6. QED
  BY <1>1, <1>4, <1>5 DEF f, n

LEMMA MatchedBacked ==
  ASSUME WorkerInv, Evidence, EvalMatched
  PROVE  Evidence' /\ FiringStep /\ QuietStep
<1> DEFINE prev == ev.prev
           count == prev.count + 1
           first == IF prev.first = Never THEN ev.obs.at ELSE prev.first
           enough == persistence_satisfied(ev.rule, ev.obs.at - first, count)
           fires == enough /\ prev.state \notin {"awaiting", "firing"}
           state == IF prev.state \in {"awaiting", "firing"} \/ fires THEN "firing" ELSE "matching"
           q == IF prev.count = 0 THEN <<>> ELSE streak
<1>1. /\ ev.pc = "decide" /\ Matches(ev.rule, ev.obs) /\ UNCHANGED <<clock, sample, rule>>
      /\ streak' = IF prev.state \in {"awaiting", "firing"} THEN <<>> ELSE Append(q, Round)
  BY Zenon DEF EvalMatched, telemetry
<1>2. st' = Published(state, first, count, Never, 0)
  <2>1. CASE fires
    BY <2>1, Zenon DEF EvalMatched, on_fire
  <2>2. CASE ~fires
    BY <2>2, Zenon DEF EvalMatched
  <2>3. QED
    BY <2>1, <2>2
<1>3. ev' = Idle \/ ev' = Submitting(Len(bundle) + 1)
  BY Zenon DEF EvalMatched, on_fire
<1>0. /\ Round.value >= Round.fire /\ Round.at = ev.obs.at /\ Round.evidence = ev.obs.evidence
      /\ Round.rev = ev.rule.rev /\ (Round.late \/ Round.rev = rule.rev)
  BY <1>1 DEF Round, Matches
<1>4. ~Looking' /\ ev'.pc \notin {"decide", "loaded"}
  BY <1>3 DEF Looking, Idle, Submitting
<1>5. Deciding /\ IsRound(ev.obs) /\ \E S : streak \in Seq(S)
  BY <1>1 DEF Evidence, Looking
<1>6. /\ Members' = Members /\ States' = States /\ TelemetryFits' /\ (\A p : Unbroken(p)' = Unbroken(p))
  BY <1>1 DEF Members, States, TelemetryFits, Unbroken, Evidence
<1>7. prev \in States /\ prev.count \in Nat /\ prev.first \in Int /\ ev.obs.at \in Nat
  BY <1>5 DEF Deciding, States, IsRound
<1>8. first \in Int /\ count \in Nat /\ state \in {"clear", "matching"} \cup Owning /\ Never \in Int
  BY <1>7 DEF Owning, Never
<1>9. /\ st' \in States /\ st'.state = state /\ st'.first = first /\ st'.count = count
      /\ st'.seen = ev.obs.evidence /\ st'.at = ev.obs.at
  <2> HIDE DEF first, count, state
  <2> DEFINE s == Published(state, first, count, Never, 0)
  <2>1. /\ s \in States /\ s.state = state /\ s.first = first /\ s.count = count
        /\ s.seen = ev.obs.evidence /\ s.at = ev.obs.at
    <3>1. ev.obs.evidence \in [Members -> Int] /\ ev.obs.at \in Int
      BY <1>5 DEF IsRound
    <3>2. QED
      BY <1>8, <3>1 DEF Published, States
  <2>2. st' = s
    BY <1>2
  <2> HIDE DEF s
  <2>3. QED
    BY <2>1, <2>2
<1>10. QuietStep
  <2> SUFFICES ASSUME st.state \in {"firing", "awaiting"}, st'.state \notin {"firing", "awaiting"}
               PROVE  ev.held = {}
    BY DEF QuietStep
  <2>1. prev.state \notin Owning
    BY <1>9 DEF Owning
  <2>2. QED
    BY <1>5, <2>1 DEF Deciding, Owning
<1>11. CASE prev.state \in Owning
  <2>1. streak' = <<>> /\ st'.state \in Owning
    BY <1>1, <1>9, <1>11 DEF Owning
  <2>2. FiringStep
    BY <1>11 DEF FiringStep, Fires, Owning
  <2>3. streak' \in Seq({})
    BY <2>1
  <2>4. QED
    BY <1>4, <1>6, <1>9, <1>10, <2>1, <2>2, <2>3 DEF Evidence, Backed
<1>12. CASE prev.state \notin Owning
  <2>1. streak' = Append(q, Round)
    BY <1>1, <1>12 DEF Owning
  <2>2. Rests(prev) \/ (Tied(prev, streak) /\ Unbroken(streak) /\ Under(streak, ev.rule.rev))
    BY <1>5, <1>12 DEF Deciding, Backed
  <2>3. Advances(prev, ev.obs)
    BY <1>5 DEF Deciding
  <2>4. PICK S : q \in Seq(S)
    <3>1. <<>> \in Seq({})
      OBVIOUS
    <3>2. QED
      BY <1>5, <3>1
  <2>5. CASE Rests(prev)
    <3>1. q = <<>> /\ first = ev.obs.at /\ count = 1
      BY <2>5 DEF Rests
    <3>2. Unbroken(q) /\ Len(q) = 0
      BY <3>1 DEF Unbroken
    <3>3. Round.value >= Round.fire
      BY <1>0
    <3> HIDE DEF q
    <3>4. Unbroken(streak') /\ Len(streak') = 1 /\ streak'[1] = Round /\ streak' \in Seq(S \cup {Round})
      <4>1. /\ Unbroken(Append(q, Round)) /\ Len(Append(q, Round)) = Len(q) + 1
            /\ Append(q, Round) \in Seq(S \cup {Round}) /\ Append(q, Round)[Len(q) + 1] = Round
        <5>1. q # <<>> => /\ \A m \in Members : q[Len(q)].evidence[m] < Round.evidence[m]
                          /\ Round.at - q[Len(q)].at <= StaleAfter
                          /\ Under(q, Round.rev)
          BY <3>1
        <5>2. QED
          BY <2>4, <3>2, <3>3, <5>1, StreakGrows DEF Unbroken, Under
      <4>2. Len(q) + 1 = 1
        BY <3>2
      <4>3. QED
        BY <2>1, <4>1, <4>2
    <3>5. Tied(st', streak')
      BY <1>0, <1>5, <1>9, <3>1, <3>4 DEF Tied, IsRound
    <3>6. QED
      <4>1. FiringStep
        <5> SUFFICES ASSUME Fires
                     PROVE  /\ Len(streak') >= ev.rule.samples
                            /\ streak'[Len(streak')].at - streak'[1].at >= ev.rule.duration
          BY <3>4 DEF FiringStep, Unbroken
        <5>1. fires
          BY <1>9 DEF Fires
        <5> HIDE DEF first
        <5>2. /\ ev.rule.duration = 0 \/ ev.obs.at - first >= ev.rule.duration
              /\ ev.rule.samples = 0 \/ count >= ev.rule.samples
              /\ ev.rule.duration \in Nat /\ ev.rule.samples \in Nat
          BY <1>1, <5>1 DEF persistence_satisfied, WorkerInv, EvFits, Looking, Rules
        <5>3. Len(streak') = count /\ streak'[Len(streak')].at = ev.obs.at /\ streak'[1].at = first
          BY <1>9, <3>5 DEF Tied
        <5>4. first <= ev.obs.at /\ first \in Nat
          BY <1>9, <3>5 DEF Tied
        <5>5. QED
          BY <1>7, <1>8, <5>2, <5>3, <5>4
      <4>2. Backed(st, streak, rule.rev)'
        BY <1>0, <1>1, <1>6, <3>4, <3>5 DEF Backed, Tied, Under, Unbroken, Members
      <4>3. QED
        BY <1>4, <1>6, <1>9, <1>10, <3>4, <4>1, <4>2 DEF Evidence
  <2>6. CASE ~Rests(prev)
    <3>1. Tied(prev, streak) /\ Unbroken(streak) /\ Under(streak, ev.rule.rev)
      BY <2>2, <2>6
    <3>2. q = streak /\ Len(q) = prev.count /\ prev.count > 0 /\ q # <<>> /\ first = prev.first
      BY <1>7, <3>1 DEF Tied, Never
    <3>3. /\ prev.at <= ev.obs.at /\ ev.obs.at - prev.at <= StaleAfter
          /\ \A m \in Members : prev.seen[m] < ev.obs.evidence[m]
      BY <1>12, <2>3, <2>6 DEF Advances
    <3>4. q[Len(q)].evidence = prev.seen /\ q[Len(q)].at = prev.at /\ q[1].at = first
          /\ {prev.first, prev.at} \subseteq Nat /\ prev.first <= prev.at
      BY <3>1, <3>2 DEF Tied
    <3>5. Round.value >= Round.fire
      BY <1>0
    <3>6. Unbroken(q) /\ Under(q, Round.rev)
      BY <1>0, <3>1, <3>2
    <3> HIDE DEF q, first
    <3>7. /\ Unbroken(streak') /\ Len(streak') = Len(q) + 1 /\ streak'[Len(q) + 1] = Round
          /\ streak' \in Seq(S \cup {Round}) /\ streak'[1] = q[1]
      BY <1>0, <2>1, <2>4, <3>2, <3>3, <3>4, <3>5, <3>6, StreakGrows
    <3>8. Tied(st', streak')
      <4>1. st'.count = Len(q) + 1 /\ Len(q) \in Nat /\ st'.first = prev.first
        BY <1>7, <1>9, <3>2
      <4>2. prev.first <= ev.obs.at
        BY <1>7, <3>3, <3>4
      <4>3. \A m \in Members : ev.obs.at <= ev.obs.evidence[m]
        BY <1>5 DEF IsRound
      <4>4. QED
        BY <1>0, <1>7, <1>9, <3>2, <3>4, <3>7, <4>1, <4>2, <4>3 DEF Tied
    <3>9. QED
      <4>1. FiringStep
        <5> SUFFICES ASSUME Fires
                     PROVE  /\ Len(streak') >= ev.rule.samples
                            /\ streak'[Len(streak')].at - streak'[1].at >= ev.rule.duration
          BY <3>7 DEF FiringStep, Unbroken
        <5>1. fires
          BY <1>9 DEF Fires
        <5> HIDE DEF first
        <5>2. /\ ev.rule.duration = 0 \/ ev.obs.at - first >= ev.rule.duration
              /\ ev.rule.samples = 0 \/ count >= ev.rule.samples
              /\ ev.rule.duration \in Nat /\ ev.rule.samples \in Nat
          BY <1>1, <5>1 DEF persistence_satisfied, WorkerInv, EvFits, Looking, Rules
        <5>3. Len(streak') = count /\ streak'[Len(streak')].at = ev.obs.at /\ streak'[1].at = first
          BY <1>9, <3>8 DEF Tied
        <5>4. first <= ev.obs.at /\ first \in Nat
          BY <1>9, <3>8 DEF Tied
        <5>5. QED
          BY <1>7, <1>8, <5>2, <5>3, <5>4
      <4>2. Backed(st, streak, rule.rev)'
        BY <1>0, <1>1, <1>6, <3>2, <3>7, <3>8 DEF Backed, Tied, Under, Unbroken, Members
      <4>3. QED
        BY <1>4, <1>6, <1>9, <1>10, <3>7, <4>1, <4>2 DEF Evidence
  <2>7. QED
    BY <2>5, <2>6
<1>13. QED
  BY <1>11, <1>12

\* The evaluation leaves a state that needs no streak behind it.
LEMMA SettledKeeps ==
  ASSUME Evidence, UNCHANGED <<clock, sample, rule>>, st' \in States, st'.state \in Owning \/ Rests(st'),
         \E S : streak' \in Seq(S), ev'.pc # "decide", Looking' => Looking /\ ev'.obs = ev.obs
  PROVE  Evidence'
<1>1. /\ Members' = Members /\ States' = States /\ TelemetryFits'
  BY DEF Members, States, TelemetryFits, Evidence
<1>2. Backed(st, streak, rule.rev)' /\ Backed(st, streak, ev.rule.rev)'
  BY DEF Backed, Rests
<1>3. Looking' => IsRound(ev.obs)'
  BY <1>1 DEF Evidence, IsRound
<1>4. QED
  BY <1>1, <1>2, <1>3 DEF Evidence

\* publish_simple_observation, with no count.
LEMMA QuietFits ==
  ASSUME IsRound(ev.obs), NEW t \in {"clear"} \cup Owning
  PROVE  /\ Quiet(t) \in States /\ Rests(Quiet(t)) /\ Quiet(t).state = t
<1>1. ev.obs.evidence \in [Members -> Int] /\ ev.obs.at \in Int
  BY DEF IsRound
<1>2. Quiet(t) = [state |-> t, first |-> -1, count |-> 0, rfirst |-> -1, rcount |-> 0,
                  seen |-> ev.obs.evidence, at |-> ev.obs.at]
  BY DEF Quiet, Published, Never
<1>3. QED
  BY <1>1, <1>2 DEF States, Rests, Never

LEMMA QuietBacked ==
  ASSUME WorkerInv, Evidence, EvalQuiet
  PROVE  Evidence' /\ FiringStep /\ QuietStep
<1> DEFINE prev == ev.prev
           rfirst == IF prev.rfirst = Never THEN ev.obs.at ELSE prev.rfirst
           hold(rf, rc) == Published("firing", prev.first, prev.count, rf, rc)
<1>1. /\ ev.pc = "decide" /\ ~Matches(ev.rule, ev.obs) /\ UNCHANGED <<clock, sample, rule>> /\ streak' = <<>>
  BY Zenon DEF EvalQuiet, telemetry
<1>2. \/ /\ ev' = Idle
         /\ \/ st' = hold(Never, 0) \/ st' = hold(rfirst, prev.rcount) \/ st' = hold(Never, prev.rcount + 1)
      \/ prev.state = "firing" /\ ev' = [ev EXCEPT !.pc = "recover"] /\ st' = st
      \/ st' = Quiet("awaiting") /\ (ev' = Idle \/ ev' = Submitting(Min(Unsubmitted)))
      \/ prev.state \notin Owning /\ st' = Quiet("clear") /\ ev' = Idle
  BY DEF EvalQuiet, Owning
<1>3. Deciding /\ IsRound(ev.obs) /\ st \in States
  BY <1>1 DEF Evidence, Looking
<1>4. FiringStep
  BY <1>1 DEF FiringStep, Fires
<1>5. streak' \in Seq({})
  BY <1>1
<1>6. /\ Quiet("awaiting") \in States /\ Quiet("awaiting").state = "awaiting"
      /\ Quiet("clear") \in States /\ Rests(Quiet("clear"))
  BY <1>3, QuietFits DEF Owning
<1>7. CASE /\ ev' = Idle
           /\ \/ st' = hold(Never, 0) \/ st' = hold(rfirst, prev.rcount) \/ st' = hold(Never, prev.rcount + 1)
  <2>1. /\ prev.first \in Int /\ prev.count \in Nat /\ prev.rcount \in Nat /\ prev.rfirst \in Int
        /\ ev.obs.evidence \in [Members -> Int] /\ ev.obs.at \in Int
    BY <1>3 DEF Deciding, States, IsRound
  <2>2. rfirst \in Int /\ prev.rcount + 1 \in Nat /\ Never \in Int
    BY <2>1 DEF Never
  <2>3. PICK rf \in Int, rc \in Nat : st' = hold(rf, rc)
    BY <1>7, <2>1, <2>2
  <2> HIDE DEF prev
  <2>4. st' \in States /\ st'.state = "firing"
    BY <2>1, <2>3 DEF Published, States, Owning
  <2>5. ~Looking' /\ ev'.pc # "decide"
    BY <1>7 DEF Looking, Idle
  <2>6. Evidence'
    BY <1>1, <1>5, <2>4, <2>5, SettledKeeps DEF Owning
  <2>7. QuietStep
    BY <2>4 DEF QuietStep
  <2>8. QED
    BY <1>4, <2>6, <2>7
<1>8. CASE prev.state = "firing" /\ ev' = [ev EXCEPT !.pc = "recover"] /\ st' = st
  <2>1. st.state \in Owning \/ Rests(st)
    BY <1>3, <1>8 DEF Deciding
  <2>2. "pc" \in DOMAIN ev
    BY DEF WorkerInv, EvFits
  <2>3. ev'.pc = "recover" /\ ev'.obs = ev.obs /\ Looking
    BY <1>1, <1>8, <2>2 DEF Looking
  <2>4. st' \in States /\ (st'.state \in Owning \/ Rests(st'))
    BY <1>3, <1>8, <2>1 DEF Rests
  <2>5. Evidence'
    BY <1>1, <1>5, <2>3, <2>4, SettledKeeps
  <2>6. QuietStep
    BY <1>8 DEF QuietStep
  <2>7. QED
    BY <1>4, <2>5, <2>6
<1>9. CASE st' = Quiet("awaiting") /\ (ev' = Idle \/ ev' = Submitting(Min(Unsubmitted)))
  <2>1. ~Looking' /\ ev'.pc # "decide"
    BY <1>9 DEF Looking, Idle, Submitting
  <2>2. st' \in States /\ st'.state = "awaiting"
    BY <1>6, <1>9
  <2>3. Evidence'
    BY <1>1, <1>5, <2>1, <2>2, SettledKeeps DEF Owning
  <2>4. QuietStep
    BY <2>2 DEF QuietStep
  <2>5. QED
    BY <1>4, <2>3, <2>4
<1>10. CASE prev.state \notin Owning /\ st' = Quiet("clear") /\ ev' = Idle
  <2>1. ~Looking' /\ ev'.pc # "decide"
    BY <1>10 DEF Looking, Idle
  <2>2. st' \in States /\ Rests(st')
    BY <1>6, <1>10 DEF Rests
  <2>3. Evidence'
    BY <1>1, <1>5, <2>1, <2>2, SettledKeeps
  <2>4. QuietStep
    BY <1>3, <1>10 DEF QuietStep, Deciding, Owning
  <2>5. QED
    BY <1>4, <2>3, <2>4
<1>11. QED
  BY <1>2, <1>7, <1>8, <1>9, <1>10

\* The last look: a rule is let go of only when nothing it owned is left.
LEMMA RecoverBacked ==
  ASSUME WorkerInv, Evidence, EvalRecover \/ EvalClear
  PROVE  Evidence' /\ FiringStep /\ QuietStep
<1> DEFINE owned == rule_owned_changes(FALSE)
           marked == [st EXCEPT !.state = "awaiting", !.rfirst = Never, !.rcount = 0,
                                !.seen = ev.obs.evidence, !.at = ev.obs.at]
<1>1. /\ ev.pc \in {"recover", "clear"} /\ UNCHANGED <<clock, sample, rule, streak>>
  BY Zenon DEF EvalRecover, EvalClear, telemetry
<1>2. \/ ev' = Idle /\ (st' = Quiet("awaiting") \/ (owned = {} /\ st' = Quiet("clear")) \/ st' = st)
      \/ ev' = [ev EXCEPT !.pc = "clear"] /\ st' = st
      \/ /\ ev' = [pc |-> "submit", id |-> Len(bundle) + 1, next |-> "clear",
                   rule |-> ev.rule, obs |-> ev.obs, held |-> ev.held]
         /\ st' = marked
  <2>1. CASE EvalRecover
    BY <2>1 DEF EvalRecover, publish_recovery_attempt
  <2>2. CASE EvalClear
    BY <2>2 DEF EvalClear
  <2>3. QED
    BY <2>1, <2>2
<1>3. Looking /\ IsRound(ev.obs) /\ st \in States /\ EvFits /\ \E S : streak' \in Seq(S)
  BY <1>1 DEF WorkerInv, Evidence, Looking
<1>4. FiringStep
  BY <1>1 DEF FiringStep, Fires
<1>5. ev.held \subseteq Forward
  BY <1>3 DEF EvFits
<1>6. owned = {} => \A b \in ev.held : Outstanding(b) = {}
  BY <1>5 DEF rule_owned_changes
<1>7. /\ Quiet("awaiting") \in States /\ Quiet("awaiting").state = "awaiting"
      /\ Quiet("clear") \in States /\ Rests(Quiet("clear"))
  BY <1>3, QuietFits DEF Owning
<1>8. CASE ev' = Idle /\ (st' = Quiet("awaiting") \/ (owned = {} /\ st' = Quiet("clear")))
  <2>1. ~Looking' /\ ev'.pc # "decide"
    BY <1>8 DEF Looking, Idle
  <2>2. st' \in States /\ (st'.state = "awaiting" \/ (owned = {} /\ Rests(st')))
    BY <1>7, <1>8 DEF Rests
  <2>3. Evidence'
    BY <1>1, <1>3, <2>1, <2>2, SettledKeeps DEF Owning
  <2>4. QuietStep
    BY <1>6, <2>2 DEF QuietStep
  <2>5. QED
    BY <1>4, <2>3, <2>4
<1>9. CASE st' = st /\ (ev' = Idle \/ ev' = [ev EXCEPT !.pc = "clear"])
  <2>1. TelemetryFits' /\ rule'.members = rule.members /\ rule'.rev = rule.rev
    BY <1>1 DEF Evidence, TelemetryFits, Members
  <2>2. QED
    BY <1>1, <1>3, <1>9, <2>1, OthersKeep
<1>10. CASE /\ ev' = [pc |-> "submit", id |-> Len(bundle) + 1, next |-> "clear",
                      rule |-> ev.rule, obs |-> ev.obs, held |-> ev.held]
            /\ st' = marked
  <2>1. ev'.pc = "submit" /\ ev'.obs = ev.obs
    BY <1>10
  <2>2. st' \in States /\ st'.state = "awaiting"
    <3> DEFINE a == [st EXCEPT !.state = "awaiting"]
               b == [a EXCEPT !.rfirst = Never]
               c == [b EXCEPT !.rcount = 0]
               d == [c EXCEPT !.seen = ev.obs.evidence]
               e == [d EXCEPT !.at = ev.obs.at]
    <3>0. Never \in Int /\ ev.obs.evidence \in [Members -> Int] /\ ev.obs.at \in Int
      BY <1>3 DEF Never, IsRound
    <3>1. a \in States /\ a.state = "awaiting"
      <4>1. a \in States
        BY <1>3, StateUpdates DEF Owning
      <4>2. QED
        BY <1>3, <4>1 DEF States
    <3>2. b \in States /\ b.state = "awaiting"
      <4> HIDE DEF a
      <4>1. b \in States
        BY <3>0, <3>1, StateUpdates
      <4>2. QED
        BY <3>1, <4>1 DEF States
    <3>3. c \in States /\ c.state = "awaiting"
      <4> HIDE DEF b
      <4>1. c \in States
        BY <3>2, StateUpdates
      <4>2. QED
        BY <3>2, <4>1 DEF States
    <3>4. d \in States /\ d.state = "awaiting"
      <4> HIDE DEF c
      <4>1. d \in States
        BY <3>0, <3>3, StateUpdates
      <4>2. QED
        BY <3>3, <4>1 DEF States
    <3>5. e \in States /\ e.state = "awaiting"
      <4> HIDE DEF d
      <4>1. e \in States
        BY <3>0, <3>4, StateUpdates
      <4>2. QED
        BY <3>4, <4>1 DEF States
    <3>6. st' = e
      BY <1>10
    <3> HIDE DEF e
    <3>7. QED
      BY <3>5, <3>6
  <2>3. Evidence'
    BY <1>1, <1>3, <2>1, <2>2, SettledKeeps DEF Owning
  <2>4. QuietStep
    BY <2>2 DEF QuietStep
  <2>5. QED
    BY <1>4, <2>3, <2>4
<1>11. QED
  BY <1>2, <1>8, <1>9, <1>10

LEMMA EvidenceStep ==
  ASSUME WorkerInv, Evidence, [Next]_vars
  PROVE  Evidence' /\ FiringStep /\ QuietStep
<1>0. EvFits /\ rule \in Rules /\ TelemetryFits
  BY DEF WorkerInv, Evidence
<1>1. ASSUME UNCHANGED <<clock, sample, rule, streak>>,
             \/ st' = st /\ ev' = ev
             \/ st' = Cleared /\ ev' = ev
             \/ st' = st /\ ev' = Idle
             \/ st' = st /\ Looking /\ ev' = [ev EXCEPT !.pc = "clear"]
             \/ st' = st /\ ev.pc = "idle" /\ ev' = [pc |-> "loaded", rule |-> rule]
      PROVE  Evidence' /\ FiringStep /\ QuietStep
  <2>1. TelemetryFits' /\ rule'.members = rule.members /\ rule'.rev = rule.rev
    BY <1>0, <1>1 DEF TelemetryFits, Members
  <2>2. QED
    BY <1>0, <1>1, <2>1, OthersKeep
<1>2. CASE UNCHANGED vars
  BY <1>1, <1>2 DEF vars
<1>3. CASE Tick \/ \E m \in Members : Sample(m)
  <2>1. UNCHANGED <<rule, st, ev, streak>>
    BY <1>3, Zenon DEF Tick, Sample
  <2>2. CASE Tick
    <3>1. TelemetryFits'
      BY <1>0, <2>1, <2>2 DEF Tick, TelemetryFits, Members
    <3>2. QED
      BY <1>0, <2>1, <3>1, OthersKeep
  <2>3. ASSUME NEW m \in Members, Sample(m) PROVE Evidence' /\ FiringStep /\ QuietStep
    <3> DEFINE T == [ts : Nat, val : Values, ok : {"good", "invalid", "low"}]
    <3>1. PICK v \in Values, ok \in {"good", "invalid", "low"} :
             sample' = [sample EXCEPT ![m] = [ts |-> clock, val |-> v, ok |-> ok]]
      BY <2>3 DEF Sample
    <3>2. clock' = clock
      BY <2>3 DEF Sample
    <3>3. [ts |-> clock, val |-> v, ok |-> ok] \in T
      BY <1>0 DEF TelemetryFits
    <3>4. sample \in [Members -> T]
      BY <1>0 DEF TelemetryFits
    <3> HIDE DEF T
    <3>5. sample' \in [Members -> T]
      BY <3>1, <3>3, <3>4
    <3>6. TelemetryFits'
      BY <1>0, <2>1, <3>2, <3>5 DEF TelemetryFits, Members, T
    <3>7. QED
      BY <1>0, <2>1, <3>6, OthersKeep
  <2>4. QED
    BY <1>3, <2>2, <2>3
<1>4. CASE Evaluate
  <2>1. CASE EvalLoad
    <3>1. UNCHANGED <<clock, sample, rule, streak, st>> /\ ev.pc = "idle" /\ ev' = [pc |-> "loaded", rule |-> rule]
      BY <2>1, Zenon DEF EvalLoad, telemetry
    <3>2. QED
      BY <1>1, <3>1
  <2>2. CASE Submit
    <3>1. UNCHANGED <<clock, sample, rule, streak, st>> /\ ev.pc = "submit"
          /\ ev' = IF ev.next = "idle" THEN Idle ELSE [ev EXCEPT !.pc = ev.next]
      BY <2>2, Zenon DEF Submit, telemetry
    <3>2. ev' = Idle \/ (Looking /\ ev' = [ev EXCEPT !.pc = "clear"])
      BY <1>0, <3>1 DEF EvFits, Looking
    <3>3. QED
      BY <1>1, <3>1, <3>2
  <2>3. QED
    BY <1>4, <2>1, <2>2, ObserveBacked, MatchedBacked, QuietBacked, RecoverBacked DEF Evaluate
<1>5. CASE Operate
  <2>1. CASE EditCommit \/ SetSwitch
    <3>1. UNCHANGED <<clock, sample, streak, ev>> /\ st' \in {st, Cleared}
      BY <2>1, Zenon DEF EditCommit, SetSwitch, telemetry
    <3>2. rule'.members = rule.members /\ (rule'.rev = rule.rev \/ st' = Cleared)
      <4>1. \/ /\ st' = Cleared
               /\ \E c \in Conditions :
                     rule' = [rule EXCEPT !.mode = c.mode, !.fire = c.fire, !.recover = c.recover,
                                          !.duration = c.duration, !.samples = c.samples,
                                          !.rev = @ + 1, !.auto = FALSE]
            \/ rule' = [rule EXCEPT !.enabled = FALSE]
            \/ rule' = [rule EXCEPT !.auto = ~rule.auto]
            \/ rule' = [rule EXCEPT !.revert = ~rule.revert]
            \/ rule' = rule
        BY <2>1, Zenon DEF EditCommit, SetSwitch
      <4>2. ASSUME NEW c \in Conditions,
                   rule' = [rule EXCEPT !.mode = c.mode, !.fire = c.fire, !.recover = c.recover,
                                        !.duration = c.duration, !.samples = c.samples,
                                        !.rev = @ + 1, !.auto = FALSE]
            PROVE  rule'.members = rule.members
        BY <1>0, <4>2, EditedRule
      <4>3. CASE \/ rule' = [rule EXCEPT !.enabled = FALSE]
                 \/ rule' = [rule EXCEPT !.auto = ~rule.auto]
                 \/ rule' = [rule EXCEPT !.revert = ~rule.revert]
                 \/ rule' = rule
        BY <1>0, <4>3 DEF Rules
      <4>4. QED
        BY <4>1, <4>2, <4>3
    <3>3. TelemetryFits'
      BY <1>0, <3>1, <3>2 DEF TelemetryFits, Members
    <3>4. QED
      BY <1>0, <3>1, <3>2, <3>3, OthersKeep
  <2>2. CASE EditCheck \/ ManualInverse \/ \E b \in Decisions : CancelRecovery(b)
    <3>1. UNCHANGED <<clock, sample, rule, streak, st, ev>>
      BY <2>2, Zenon DEF EditCheck, ManualInverse, CancelRecovery, telemetry
    <3>2. QED
      BY <1>1, <3>1
  <2>3. CASE ManualClear
    <3>1. UNCHANGED <<clock, sample, rule, streak, ev>> /\ (st' = st \/ st' = Cleared)
      BY <2>3, Zenon DEF ManualClear, telemetry
    <3>2. QED
      BY <1>1, <3>1
  <2>4. QED
    BY <1>5, <2>1, <2>2, <2>3 DEF Operate
<1>6. CASE \E b \in Decisions : WorkOn(b) \/ Panic(b)
  <2>1. UNCHANGED <<clock, sample, rule, streak, st, ev>>
    BY <1>6, Zenon DEF WorkOn, Panic, TakeJob, Prepare, PrepareRefused, SettlementLost, StartAction, EndAction,
                       Compensate, Succeed, StartInverse, EndInverse, SettlePanicked, telemetry
  <2>2. QED
    BY <1>1, <2>1
<1>7. CASE Crash \/ Startup
  <2>1. UNCHANGED <<clock, sample, rule, streak, st>> /\ (ev' = ev \/ ev' = Idle)
    BY <1>7, Zenon DEF Crash, Startup, telemetry
  <2>2. QED
    BY <1>1, <2>1
<1>8. QED
  BY <1>2, <1>3, <1>4, <1>5, <1>6, <1>7 DEF Next

\* In every reachable state, whatever conditions were set meanwhile, the stored
\* match count, and the one the evaluation in progress works from, are backed by
\* the unbroken streak they claim: rounds that matched the row they were compared
\* with, the last of them under the revision in force or overtaken by an edit.
THEOREM CountsAreBacked == Spec => []Evidence
<1>1. WorkerInv /\ Evidence /\ [Next]_vars => Evidence'
  BY EvidenceStep
<1>2. QED
  BY <1>1, EvidenceInit, WorkerCorrect, PTL DEF Spec

\* A rule fires only on an unbroken streak of rounds that matched the row they
\* were compared with, as many and as long as the evaluated row asks for, whatever
\* edits, restarts, stale samples and clears came between; two revisions meet in
\* one streak only after a round that an edit overtook.
THEOREM FiringsProved == Spec => FiringIsProved
<1>1. WorkerInv /\ Evidence /\ [Next]_vars => [FiringStep]_vars
  BY EvidenceStep
<1>2. QED
  BY <1>1, WorkerCorrect, CountsAreBacked, PTL DEF Spec, FiringIsProved, FiringStep

\* No evaluation takes a rule out of firing or awaiting recovery while a change
\* that it had seen the rule own is still on a router.
THEOREM OwnershipKept == Spec => QuietKeepsOwnership
<1>1. WorkerInv /\ Evidence /\ [Next]_vars => [QuietStep]_vars
  BY EvidenceStep
<1>2. QED
  BY <1>1, WorkerCorrect, CountsAreBacked, PTL DEF Spec, QuietKeepsOwnership, QuietStep
=============================================================================
