-------------------------- MODULE DevicePlan_proofs --------------------------
(***************************************************************************)
(* Proofs about prefix-list planning (PrefixList) and about immutable plans *)
(* and the locked sessions that run them (DevicePlan), for any number of    *)
(* devices, hosts, lists, entries, edits and faults, and any plan.          *)
(***************************************************************************)
EXTENDS DevicePlan, SequenceTheorems, FiniteSetTheorems, TLAPS

-----------------------------------------------------------------------------
(* Sets of numbers *)

LEMMA LeastExists ==
    ASSUME NEW S, S \subseteq Nat, S # {}
    PROVE  \E x \in S : \A y \in S : x <= y
<1>1. PICK x \in S : \A y \in S : ~ (<<y, x>> \in OpToRel(<, Nat))
  BY WFMin, NatLessThanWellFounded
<1>2. ASSUME NEW y \in S PROVE x <= y
  <2>1. <<y, x>> \in Nat \X Nat /\ (y < x => <<y, x>> \in OpToRel(<, Nat))
    BY DEF OpToRel
  <2>2. ~ (y < x)
    BY <1>1, <2>1
  <2>3. QED
    BY <2>2
<1>3. QED
  BY <1>2

\* A bounded set of numbers has a largest one, the least upper bound.
LEMMA LastIs ==
    ASSUME NEW S, S \subseteq Nat, S # {}, NEW n \in Nat, \A x \in S : x <= n
    PROVE  Last(S) \in S /\ \A y \in S : y <= Last(S)
<1> DEFINE T == {m \in Nat : \A x \in S : x <= m}
<1>1. n \in T
  OBVIOUS
<1>2. PICK m \in T : \A k \in T : m <= k
  BY <1>1, LeastExists
<1>3. m \in S
  <2>1. SUFFICES ASSUME m \notin S PROVE FALSE
    OBVIOUS
  <2>2. \A x \in S : x <= m - 1 /\ 0 <= x
    BY <2>1
  <2>3. m - 1 \in T
    <3>1. PICK x \in S : x <= m - 1 /\ 0 <= x
      BY <2>2
    <3>2. m - 1 \in Nat
      BY <3>1
    <3>3. QED
      BY <2>2, <3>2
  <2>4. QED
    BY <1>2, <2>3
<1>4. QED
  BY <1>2, <1>3 DEF Last

LEMMA LastIsNat ==
    ASSUME NEW S, S \subseteq Nat, NEW n \in Nat, \A x \in S : x <= n
    PROVE  Last(S) \in Nat
<1>1. CASE S = {}
  BY <1>1 DEF Last
<1>2. CASE S # {}
  BY <1>2, LastIs
<1>3. QED
  BY <1>1, <1>2

-----------------------------------------------------------------------------
(* Planning an entry *)

\* The sequences of a list are those IOS accepts.
Sequenced(list) == \A e \in list : e.seq \in MIN_SEQ..MAX_SEQ

\* First match: an entry that matches and that no matching one precedes.
LEMMA FirstMatchIs ==
    ASSUME NEW list, Sequenced(list), NEW r, Matching(list, r) # {}
    PROVE  /\ FirstMatch(list, r) \in list /\ Matches(FirstMatch(list, r), r)
           /\ \A e \in Matching(list, r) : FirstMatch(list, r).seq <= e.seq
<1> DEFINE M == Matching(list, r)
           S == {e.seq : e \in M}
<1>1. M \subseteq list /\ \A e \in M : Matches(e, r)
  BY DEF Matching
<1>2. S \subseteq Nat /\ S # {}
  BY <1>1, PrefixListAssumption DEF Sequenced, MIN_SEQ
<1>3. PICK s \in S : \A t \in S : s <= t
  BY <1>2, LeastExists
<1>4. PICK e \in M : e.seq = s
  BY <1>3
<1>5. \A f \in M : e.seq <= f.seq
  BY <1>3, <1>4
<1>6. FirstMatch(list, r) \in M /\ \A f \in M : FirstMatch(list, r).seq <= f.seq
  BY <1>4, <1>5 DEF FirstMatch
<1>7. QED
  BY <1>1, <1>6

\* A permit of r matches r.
LEMMA PermitMatches ==
    ASSUME NEW s, NEW r, r.len \in Nat
    PROVE  Matches(Permit(s, r), r) /\ Permit(s, r).permit /\ Permit(s, r).seq = s
BY DEF Matches, Permit, NoBound, same_network

\* A permit that precedes every entry that matches is the one the walk stops at.
LEMMA PrecedingIsReached ==
    ASSUME NEW list, Sequenced(list), NEW r, r.len \in Nat, NEW s \in MIN_SEQ..MAX_SEQ,
           \A e \in Matching(list, r) : s < e.seq
    PROVE  Permits(AfterAdd(list, s, r), r)
<1> DEFINE new == Permit(s, r)
           after == AfterAdd(list, s, r)
<1>1. Matches(new, r) /\ new.permit /\ new.seq = s
  BY PermitMatches
<1>2. new \in Matching(after, r)
  BY <1>1 DEF Matching, AfterAdd
<1>3. Sequenced(after)
  BY <1>1 DEF Sequenced, AfterAdd
<1>4. FirstMatch(after, r) \in Matching(after, r) /\ FirstMatch(after, r).seq <= s
  BY <1>1, <1>2, <1>3, FirstMatchIs DEF Matching
<1>5. \A e \in Matching(after, r) : e = new \/ e \in Matching(list, r)
  BY DEF Matching, AfterAdd
<1>6. \A e \in Matching(list, r) : e.seq \in Nat
  BY PrefixListAssumption DEF Matching, Sequenced, MIN_SEQ
<1>7. s \in Nat
  BY PrefixListAssumption DEF MIN_SEQ
<1>8. FirstMatch(after, r) = new
  BY <1>4, <1>5, <1>6, <1>7
<1>9. QED
  BY <1>1, <1>2, <1>8 DEF Permits

\* A sequence is used only when it is in range and free.
LEMMA UsedIsFree ==
    ASSUME NEW s, NEW list
    PROVE  /\ free_or_refuse(s, list).plan \in {"use", "refuse"}
           /\ free_or_refuse(s, list).plan = "use" =>
                /\ free_or_refuse(s, list).seq = s
                /\ s \in MIN_SEQ..MAX_SEQ /\ \A e \in list : e.seq # s
BY DEF free_or_refuse, Use, Refuse

LEMMA MidpointIs ==
    ASSUME NEW low \in Nat, NEW high \in Nat, midpoint(low, high) # 0
    PROVE  low < midpoint(low, high) /\ midpoint(low, high) < high
BY DEF midpoint

\* What an added entry has to be.
Reached(list, r, p) ==
    /\ p.plan = "use" => /\ p.seq \in MIN_SEQ..MAX_SEQ
                         /\ \A e \in list : e.seq # p.seq
                         /\ Permits(AfterAdd(list, p.seq, r), r)
    /\ p.plan = "already" => Permits(list, r)

\* Whatever a list holds, the sequence plan_add chooses is in range, free and
\* reached by the walk (plan_add, prefix_list.rs:410).
THEOREM PlanAddReaches ==
    ASSUME NEW list, Sequenced(list), NEW r, r.len \in Nat
    PROVE  Reached(list, r, plan_add(list, r))
<1>1. CASE Matching(list, r) = {}
  <2> DEFINE last == Last({e.seq : e \in list})
             candidate == IF last + APPEND_STEP > MAX_SEQ THEN MAX_SEQ ELSE last + APPEND_STEP
  <2>1. plan_add(list, r) = IF candidate <= last THEN Refuse ELSE free_or_refuse(candidate, list)
    BY <1>1 DEF plan_add, plan_append
  <2> HIDE DEF candidate
  <2>2. CASE plan_add(list, r) = Refuse
    BY <2>2 DEF Reached, Refuse
  <2>3. CASE plan_add(list, r) = free_or_refuse(candidate, list)
    <3>1. ASSUME candidate \in MIN_SEQ..MAX_SEQ
          PROVE Permits(AfterAdd(list, candidate, r), r)
      BY <1>1, <3>1, PrecedingIsReached
    <3>2. QED
      BY <2>3, <3>1, UsedIsFree DEF Reached
  <2>4. QED
    BY <2>1, <2>2, <2>3
<1>2. CASE Matching(list, r) # {} /\ FirstMatch(list, r).permit
  BY <1>2 DEF Reached, plan_add, AlreadySatisfied, Permits
<1>3. CASE Matching(list, r) # {} /\ ~FirstMatch(list, r).permit
  <2> DEFINE shadow == FirstMatch(list, r)
             before == {e.seq : e \in {f \in list : f.seq < shadow.seq}}
             candidate == midpoint(Last(before), shadow.seq)
  <2>1. plan_add(list, r) = IF candidate = 0 THEN Refuse ELSE free_or_refuse(candidate, list)
    BY <1>3 DEF plan_add, plan_before
  <2>2. shadow \in list /\ \A e \in Matching(list, r) : shadow.seq <= e.seq /\ e.seq \in Nat
    BY <1>3, FirstMatchIs, PrefixListAssumption DEF Matching, Sequenced, MIN_SEQ
  <2>3. shadow.seq \in Nat
    BY <2>2, PrefixListAssumption DEF Sequenced, MIN_SEQ
  <2> HIDE DEF shadow
  <2>4. before \subseteq Nat /\ \A x \in before : x <= shadow.seq
    BY <2>3, PrefixListAssumption DEF Sequenced, MIN_SEQ
  <2>5. Last(before) \in Nat
    BY <2>3, <2>4, LastIsNat
  <2> HIDE DEF before
  <2>6. candidate # 0 => candidate < shadow.seq
    BY <2>3, <2>5, MidpointIs
  <2> HIDE DEF candidate
  <2>7. CASE candidate = 0
    BY <2>1, <2>7 DEF Reached, Refuse
  <2>8. CASE candidate # 0
    <3>1. ASSUME candidate \in MIN_SEQ..MAX_SEQ
          PROVE Permits(AfterAdd(list, candidate, r), r)
      <4>1. candidate \in Nat
        BY <3>1, PrefixListAssumption DEF MIN_SEQ
      <4>2. \A e \in Matching(list, r) : candidate < e.seq
        BY <2>2, <2>3, <2>6, <2>8, <4>1
      <4>3. QED
        BY <3>1, <4>2, PrecedingIsReached
    <3>2. QED
      BY <2>1, <2>8, <3>1, UsedIsFree DEF Reached
  <2>9. QED
    BY <2>7, <2>8
<1>4. QED
  BY <1>1, <1>2, <1>3
-----------------------------------------------------------------------------
(* Sequences *)

\* s is a sequence, whatever it holds.
IsSeq(s) == s \in Seq({s[i] : i \in DOMAIN s})

LEMMA SeqIs ==
    ASSUME NEW S, NEW s \in Seq(S)
    PROVE  IsSeq(s) /\ Len(s) \in Nat /\ DOMAIN s = 1..Len(s)
<1>1. Len(s) \in Nat /\ DOMAIN s = 1..Len(s) /\ s \in [1..Len(s) -> S]
  BY LenProperties
<1>2. s \in [1..Len(s) -> {s[i] : i \in DOMAIN s}]
  BY <1>1
<1>3. s \in Seq({s[i] : i \in DOMAIN s})
  BY <1>1, <1>2, SeqDef
<1>4. QED
  BY <1>1, <1>3 DEF IsSeq

LEMMA IsSeqHas ==
    ASSUME NEW s, IsSeq(s)
    PROVE  Len(s) \in Nat /\ DOMAIN s = 1..Len(s) /\ s = [i \in 1..Len(s) |-> s[i]]
BY LenProperties DEF IsSeq

LEMMA FunctionIsSeq ==
    ASSUME NEW n \in Nat, NEW s, s = [i \in 1..n |-> s[i]]
    PROVE  IsSeq(s) /\ Len(s) = n /\ DOMAIN s = 1..n
<1>1. s \in [1..n -> {s[i] : i \in 1..n}]
  OBVIOUS
<1>2. s \in Seq({s[i] : i \in 1..n})
  BY <1>1, SeqDef
<1>3. DOMAIN s = 1..n
  OBVIOUS
<1>4. DOMAIN s = 1..Len(s) /\ Len(s) \in Nat /\ IsSeq(s)
  BY <1>2, SeqIs
<1>5. QED
  BY <1>3, <1>4

LEMMA AppendIs ==
    ASSUME NEW s, IsSeq(s), NEW x
    PROVE  /\ IsSeq(Append(s, x)) /\ Len(Append(s, x)) = Len(s) + 1
           /\ \A i \in 1..Len(s) : Append(s, x)[i] = s[i]
           /\ Append(s, x)[Len(s) + 1] = x
<1> DEFINE S == {s[i] : i \in DOMAIN s} \cup {x}
<1>1. s \in Seq(S)
  BY SeqMonotonic DEF IsSeq
<1>2. Append(s, x) \in Seq(S)
  BY <1>1
<1>3. IsSeq(Append(s, x))
  BY <1>2, SeqIs
<1>4. QED
  BY <1>1, <1>3

LEMMA EmptyIs == IsSeq(<<>>) /\ Len(<<>>) = 0
BY EmptySeq DEF IsSeq

LEMMA ConcatIs ==
    ASSUME NEW s, IsSeq(s), NEW t, IsSeq(t)
    PROVE  /\ IsSeq(s \o t) /\ Len(s \o t) = Len(s) + Len(t)
           /\ \A i \in 1..Len(s) : (s \o t)[i] = s[i]
           /\ \A i \in 1..Len(t) : (s \o t)[Len(s) + i] = t[i]
<1> DEFINE S == {s[i] : i \in DOMAIN s} \cup {t[i] : i \in DOMAIN t}
<1>1. s \in Seq(S) /\ t \in Seq(S)
  BY SeqMonotonic DEF IsSeq
<1> HIDE DEF S
<1>2. Len(s) \in Nat /\ Len(t) \in Nat
  BY IsSeqHas
<1>3. /\ s \o t \in Seq(S) /\ Len(s \o t) = Len(s) + Len(t)
      /\ \A i \in 1 .. Len(s) + Len(t) : (s \o t)[i] = IF i <= Len(s) THEN s[i] ELSE t[i - Len(s)]
  BY <1>1, ConcatProperties
<1>4. IsSeq(s \o t)
  BY <1>3, SeqIs
<1>5. ASSUME NEW i \in 1..Len(t) PROVE (s \o t)[Len(s) + i] = t[i]
  <2>1. Len(s) + i \in 1..(Len(s) + Len(t)) /\ ~(Len(s) + i <= Len(s)) /\ Len(s) + i - Len(s) = i
    BY <1>2
  <2>2. QED
    BY <1>3, <2>1
<1>6. QED
  BY <1>2, <1>3, <1>4, <1>5

LEMMA TailIs ==
    ASSUME NEW s, IsSeq(s), s # <<>>
    PROVE  /\ IsSeq(Tail(s)) /\ Len(Tail(s)) = Len(s) - 1 /\ Len(s) > 0
           /\ Head(s) = s[1] /\ \A i \in 1..Len(Tail(s)) : Tail(s)[i] = s[i + 1]
<1> DEFINE S == {s[i] : i \in DOMAIN s}
<1>1. s \in Seq(S)
  BY DEF IsSeq
<1> HIDE DEF S
<1>2. Tail(s) \in Seq(S) /\ Len(Tail(s)) = Len(s) - 1 /\ \A i \in 1..Len(Tail(s)) : Tail(s)[i] = s[i + 1]
  BY <1>1, HeadTailProperties
<1>3. IsSeq(Tail(s))
  BY <1>2, SeqIs
<1>4. Len(s) \in Nat \ {0}
  BY <1>1, EmptySeq
<1>5. QED
  BY <1>1, <1>2, <1>3, <1>4

\* The positions I of s, taken in order by h.
Enumerates(h, n, s, I) ==
    /\ n \in Nat /\ h \in [1..n -> I \cap DOMAIN s]
    /\ \A i, j \in 1..n : i < j => h[i] < h[j]
    /\ \A p \in I \cap DOMAIN s : \E i \in 1..n : h[i] = p

Picks(t, s, I) ==
    /\ IsSeq(t)
    /\ \E h : /\ Enumerates(h, Len(t), s, I)
              /\ \A i \in 1..Len(t) : t[i] = s[h[i]]

\* The recursion of Subsequence, up to n.
Upto(u, n, s, I) ==
    u = [i \in 0..n |-> IF i = 0 THEN <<>>
                        ELSE IF i \in I THEN Append(u[i - 1], s[i]) ELSE u[i - 1]]

LEMMA UptoExists ==
    ASSUME NEW s, NEW I, NEW n \in Nat
    PROVE  \E u : Upto(u, n, s, I)
<1> DEFINE B == {m \in Nat : ~ \E u : Upto(u, m, s, I)}
<1>1. SUFFICES ASSUME B # {} PROVE FALSE
  OBVIOUS
<1>2. PICK m \in B : \A k \in B : m <= k
  BY <1>1, LeastExists
<1>3. m # 0
  <2>1. Upto([i \in 0..0 |-> <<>>], 0, s, I)
    BY DEF Upto
  <2>2. QED
    BY <2>1, <1>2
<1>4. m - 1 \in Nat /\ m - 1 \notin B
  BY <1>2, <1>3
<1>5. PICK u : Upto(u, m - 1, s, I)
  BY <1>4
<1> DEFINE last == IF m \in I THEN Append(u[m - 1], s[m]) ELSE u[m - 1]
           w == [i \in 0..m |-> IF i = m THEN last ELSE u[i]]
<1>6. \A i \in 0..(m - 1) : u[i] = IF i = 0 THEN <<>> ELSE IF i \in I THEN Append(u[i - 1], s[i]) ELSE u[i - 1]
  <2> DEFINE g == [i \in 0..(m - 1) |-> IF i = 0 THEN <<>> ELSE IF i \in I THEN Append(u[i - 1], s[i]) ELSE u[i - 1]]
  <2>1. u = g
    BY <1>5 DEF Upto
  <2>2. \A i \in 0..(m - 1) : g[i] = IF i = 0 THEN <<>> ELSE IF i \in I THEN Append(u[i - 1], s[i]) ELSE u[i - 1]
    OBVIOUS
  <2> HIDE DEF g
  <2>3. QED
    BY <2>1, <2>2
<1>7. \A i \in 0..m : w[i] = IF i = 0 THEN <<>> ELSE IF i \in I THEN Append(w[i - 1], s[i]) ELSE w[i - 1]
  <2> SUFFICES ASSUME NEW i \in 0..m
               PROVE w[i] = IF i = 0 THEN <<>> ELSE IF i \in I THEN Append(w[i - 1], s[i]) ELSE w[i - 1]
    OBVIOUS
  <2>1. CASE i = m
    <3>1. m - 1 \in 0..m /\ m - 1 # m
      BY <1>3, <1>4
    <3>2. w[m - 1] = u[m - 1] /\ w[m] = last
      BY <3>1
    <3>3. QED
      BY <2>1, <3>2, <1>3
  <2>2. CASE i # m
    <3>1. i \in 0..(m - 1) /\ w[i] = u[i]
      BY <2>2
    <3>2. i # 0 => i - 1 \in 0..m /\ i - 1 # m
      BY <1>2
    <3>3. i # 0 => w[i - 1] = u[i - 1]
      BY <3>2
    <3>4. QED
      BY <3>1, <3>3, <1>6
  <2>3. QED
    BY <2>1, <2>2
<1>8. w = [i \in 0..m |-> w[i]]
  OBVIOUS
<1> HIDE DEF w
<1>9. Upto(w, m, s, I)
  BY <1>7, <1>8 DEF Upto
<1>10. QED
  BY <1>2, <1>9

LEMMA SubsequenceIs ==
    ASSUME NEW s, IsSeq(s), NEW I
    PROVE  Picks(Subsequence(s, I), s, I)
<1> DEFINE N == Len(s)
           D == DOMAIN s
<1>1. N \in Nat /\ D = 1..N
  BY IsSeqHas
<1>2. PICK w : Upto(w, N, s, I)
  BY <1>1, UptoExists
<1> DEFINE u == CHOOSE v : Upto(v, N, s, I)
<1>3. Upto(u, N, s, I) /\ Subsequence(s, I) = u[N]
  <2>1. Upto(u, N, s, I)
    BY <1>2
  <2>2. Subsequence(s, I) = u[N]
    BY DEF Subsequence, Upto
  <2>3. QED
    BY <2>1, <2>2
<1> HIDE DEF u
<1>4. \A i \in 0..N : u[i] = IF i = 0 THEN <<>> ELSE IF i \in I THEN Append(u[i - 1], s[i]) ELSE u[i - 1]
  <2> DEFINE g == [i \in 0..N |-> IF i = 0 THEN <<>> ELSE IF i \in I THEN Append(u[i - 1], s[i]) ELSE u[i - 1]]
  <2>1. u = g
    BY <1>3 DEF Upto
  <2>2. \A i \in 0..N : g[i] = IF i = 0 THEN <<>> ELSE IF i \in I THEN Append(u[i - 1], s[i]) ELSE u[i - 1]
    OBVIOUS
  <2> HIDE DEF g
  <2>3. QED
    BY <2>1, <2>2
<1> DEFINE J(n) == I \cap 1..n
           Good(n) == Picks(u[n], s, J(n))
           B == {n \in 0..N : ~Good(n)}
<1> HIDE DEF Good, D, N
<1>5. Good(0)
  <2>1. u[0] = <<>>
    BY <1>1, <1>4
  <2>2. J(0) \cap D = {} /\ 1..0 = {}
    OBVIOUS
  <2> DEFINE h == [i \in 1..0 |-> 0]
  <2>3. Enumerates(h, 0, s, J(0))
    BY <2>2 DEF Enumerates, D
  <2>4. QED
    BY <2>1, <2>3, EmptyIs DEF Good, Picks
<1>6. ASSUME NEW n \in 1..N, Good(n - 1) PROVE Good(n)
  <2>1. n \in Nat /\ n - 1 \in Nat /\ n \in 0..N /\ n # 0 /\ n \in D
    BY <1>1
  <2>2. PICK h : /\ Enumerates(h, Len(u[n - 1]), s, J(n - 1))
                 /\ \A i \in 1..Len(u[n - 1]) : u[n - 1][i] = s[h[i]]
    BY <1>6 DEF Good, Picks
  <2> DEFINE t == u[n - 1]
             m == Len(u[n - 1])
  <2>3. IsSeq(t) /\ m \in Nat
    BY <1>6, <2>2 DEF Good, Picks, Enumerates
  <2>4. CASE n \notin I
    <3>1. u[n] = t /\ J(n) = J(n - 1)
      BY <1>4, <2>1, <2>4
    <3>2. QED
      BY <1>6, <3>1 DEF Good
  <2>5. CASE n \in I
    <3>1. u[n] = Append(t, s[n])
      BY <1>4, <2>1, <2>5
    <3>2. IsSeq(u[n]) /\ Len(u[n]) = m + 1 /\ u[n][m + 1] = s[n] /\ \A i \in 1..m : u[n][i] = t[i]
      BY <2>3, <3>1, AppendIs
    <3>3. h \in [1..m -> J(n - 1) \cap D] /\ (\A i, j \in 1..m : i < j => h[i] < h[j])
          /\ (\A p \in J(n - 1) \cap D : \E i \in 1..m : h[i] = p)
      BY <2>2 DEF Enumerates, D
    <3> DEFINE g == [i \in 1..(m + 1) |-> IF i = m + 1 THEN n ELSE h[i]]
    <3>4. g[m + 1] = n /\ \A i \in 1..m : g[i] = h[i] /\ h[i] \in 1..(n - 1) /\ h[i] \in I /\ h[i] \in D
      <4>1. \A i \in 1..m : i \in 1..(m + 1) /\ i # m + 1
        BY <2>3
      <4>2. m + 1 \in 1..(m + 1)
        BY <2>3
      <4>3. QED
        BY <3>3, <4>1, <4>2
    <3>5. \A i \in 1..(m + 1) : i \in 1..m \/ i = m + 1
      BY <2>3
    <3>6. g \in [1..(m + 1) -> J(n) \cap D]
      <4>1. \A i \in 1..m : h[i] \in 1..n
        BY <2>1, <3>4
      <4>2. n \in J(n)
        BY <2>1, <2>5
      <4>3. ASSUME NEW i \in 1..(m + 1) PROVE g[i] \in J(n) \cap D
        BY <2>1, <3>4, <3>5, <4>1, <4>2
      <4> HIDE DEF J
      <4>4. QED
        BY <4>3
    <3>7. ASSUME NEW i \in 1..(m + 1), NEW j \in 1..(m + 1), i < j PROVE g[i] < g[j]
      <4>1. i \in 1..m
        BY <2>3, <3>7
      <4>2. CASE j = m + 1
        <5>1. g[j] = n /\ g[i] = h[i] /\ h[i] \in 1..(n - 1)
          BY <3>4, <4>1, <4>2
        <5> HIDE DEF g
        <5>2. QED
          BY <2>1, <5>1
      <4>3. CASE j \in 1..m
        BY <3>3, <3>4, <3>7, <4>1, <4>3
      <4>4. QED
        BY <3>5, <4>2, <4>3
    <3>8. ASSUME NEW p \in J(n) \cap D PROVE \E i \in 1..(m + 1) : g[i] = p
      <4>1. CASE p = n
        BY <2>3, <3>4, <4>1
      <4>2. CASE p # n
        <5>1. p \in J(n - 1) \cap D
          BY <2>1, <4>2
        <5>2. PICK i \in 1..m : h[i] = p
          BY <3>3, <5>1
        <5>3. i \in 1..(m + 1) /\ g[i] = p
          BY <2>3, <3>4, <5>2
        <5>4. QED
          BY <5>3
      <4>3. QED
        BY <4>1, <4>2
    <3> HIDE DEF g, J
    <3>9. Enumerates(g, m + 1, s, J(n))
      BY <2>3, <3>6, <3>7, <3>8 DEF Enumerates, D
    <3>10. \A i \in 1..(m + 1) : u[n][i] = s[g[i]]
      BY <2>2, <3>2, <3>4, <3>5
    <3>11. QED
      BY <3>2, <3>9, <3>10 DEF Good, Picks
  <2>6. QED
    BY <2>4, <2>5
<1>7. B = {}
  <2>1. SUFFICES ASSUME B # {} PROVE FALSE
    OBVIOUS
  <2>2. B \subseteq Nat
    BY <1>1
  <2>3. PICK n \in B : \A k \in B : n <= k
    BY <2>1, <2>2, LeastExists
  <2>4. n # 0
    BY <1>5, <2>3
  <2>5. n \in 1..N /\ n - 1 \in 0..N /\ n - 1 \notin B
    BY <1>1, <2>3, <2>4
  <2>6. QED
    BY <1>6, <2>3, <2>5
<1>8. Good(N)
  BY <1>1, <1>7
<1>9. J(N) \cap D = I \cap D
  BY <1>1
<1>10. QED
  <2>1. \A h, n : Enumerates(h, n, s, J(N)) <=> Enumerates(h, n, s, I)
    BY <1>9 DEF Enumerates, D
  <2> HIDE DEF J
  <2>2. QED
    BY <1>3, <1>8, <2>1 DEF Good, Picks
-----------------------------------------------------------------------------
(* Commands *)

\* The fields of a configuration a command may set.
Fields == {"list", "export", "rmap", "shut", "static", "mss", "ifshut"}

CommandOK(x) ==
    \/ x.c \in {"sub", "exit", "clear"}
    \/ x.c = "set" /\ x.f \in Fields \ {"list"}
    \/ x.c = "add" /\ x.n \in Lists /\ x.s \in MIN_SEQ..MAX_SEQ
    \/ x.c = "del" /\ x.n \in Lists

\* A command of the form prepared, and one that is sent, when it writes slots only.
Drafted(x, slots) ==
    x.c \in {"conf", "end"} \/ (CommandOK(x) /\ (Writes(x) => Slot(x) \in slots))
Sent(x, slots) == CommandOK(x) /\ (Writes(x) => Slot(x) \in slots)

\* Every sub-mode is left again.
Balanced(cs) ==
    \A i \in DOMAIN cs : cs[i].c = "sub" => \E j \in DOMAIN cs : i < j /\ cs[j].c = "exit"

CommandsOK(cs, slots) ==
    IsSeq(cs) /\ Balanced(cs) /\ \A i \in DOMAIN cs : Sent(cs[i], slots)

\* Positions of a concatenation.
LEMMA ConcatAt ==
    ASSUME NEW s, IsSeq(s), NEW t, IsSeq(t), NEW i \in DOMAIN (s \o t)
    PROVE  \/ i \in DOMAIN s /\ (s \o t)[i] = s[i]
           \/ i - Len(s) \in DOMAIN t /\ (s \o t)[i] = t[i - Len(s)]
<1>1. Len(s) \in Nat /\ DOMAIN s = 1..Len(s) /\ Len(t) \in Nat /\ DOMAIN t = 1..Len(t)
  BY IsSeqHas
<1>2. IsSeq(s \o t) /\ Len(s \o t) = Len(s) + Len(t)
  BY ConcatIs
<1>3. i \in 1..(Len(s) + Len(t))
  BY <1>2, IsSeqHas
<1>4. CASE i <= Len(s)
  BY <1>1, <1>3, <1>4, ConcatIs
<1>5. CASE ~(i <= Len(s))
  <2>1. i - Len(s) \in 1..Len(t) /\ Len(s) + (i - Len(s)) = i
    BY <1>1, <1>3, <1>5
  <2>2. QED
    BY <1>1, <2>1, ConcatIs
<1>6. QED
  BY <1>4, <1>5

LEMMA SubsequenceHas ==
    ASSUME NEW s, IsSeq(s), NEW I
    PROVE  /\ IsSeq(Subsequence(s, I))
           /\ \A i \in DOMAIN Subsequence(s, I) :
                 \E j \in I \cap DOMAIN s : Subsequence(s, I)[i] = s[j]
<1> DEFINE t == Subsequence(s, I)
<1>1. Picks(t, s, I)
  BY SubsequenceIs
<1> HIDE DEF t
<1>2. PICK h : Enumerates(h, Len(t), s, I) /\ \A i \in 1..Len(t) : t[i] = s[h[i]]
  BY <1>1 DEF Picks
<1>3. IsSeq(t) /\ DOMAIN t = 1..Len(t)
  BY <1>1, IsSeqHas DEF Picks
<1>4. \A i \in DOMAIN t : h[i] \in I \cap DOMAIN s /\ t[i] = s[h[i]]
  BY <1>2, <1>3 DEF Enumerates
<1>5. QED
  BY <1>3, <1>4 DEF t

\* What is sent while the lock is held leaves every sub-mode it enters, and holds
\* no command but those drafted (locked_commands, ssh/mod.rs).
LEMMA LockedCommandsOK ==
    ASSUME NEW cs, IsSeq(cs), NEW slots, \A i \in DOMAIN cs : Drafted(cs[i], slots)
    PROVE  CommandsOK(locked_commands(cs), slots)
<1> DEFINE nested == \E i \in DOMAIN cs : cs[i].c = "sub"
           exit == [c |-> "exit"]
           I == {i \in DOMAIN cs : cs[i].c \notin {"conf", "end", "clear"}}
           J == {i \in DOMAIN cs : cs[i].c = "clear"}
           body == Subsequence(cs, I)
           tail == Subsequence(cs, J)
           mid == IF nested THEN <<exit>> ELSE <<>>
           all == body \o mid \o tail
<1>1. locked_commands(cs) = all
  BY DEF locked_commands
<1>0. /\ \A j \in I : j \in DOMAIN cs /\ cs[j].c \notin {"conf", "end", "clear"}
      /\ \A j \in J : j \in DOMAIN cs /\ cs[j].c = "clear"
  OBVIOUS
<1> HIDE DEF I, J
<1>2. IsSeq(body) /\ \A i \in DOMAIN body : \E j \in I : body[i] = cs[j]
  BY SubsequenceHas
<1>3. IsSeq(tail) /\ \A i \in DOMAIN tail : \E j \in J : tail[i] = cs[j]
  BY SubsequenceHas
<1> HIDE DEF body, tail
<1>4. IsSeq(mid) /\ \A i \in DOMAIN mid : mid[i] = exit /\ nested
  <2>1. CASE nested
    <3>1. mid = [i \in 1..1 |-> mid[i]] /\ mid[1] = exit
      BY <2>1
    <3> HIDE DEF mid
    <3>2. IsSeq(mid) /\ DOMAIN mid = 1..1
      BY <3>1, FunctionIsSeq
    <3>3. QED
      BY <2>1, <3>1, <3>2
  <2>2. CASE ~nested
    BY <2>2, EmptyIs
  <2>3. QED
    BY <2>1, <2>2
<1>5. nested => 1 \in DOMAIN mid
  BY EmptyIs
<1> HIDE DEF mid
<1> DEFINE front == body \o mid
<1>6. /\ IsSeq(front) /\ Len(front) = Len(body) + Len(mid)
      /\ IsSeq(all) /\ Len(all) = Len(front) + Len(tail)
  BY <1>2, <1>3, <1>4, ConcatIs
<1>7. /\ Len(body) \in Nat /\ Len(mid) \in Nat /\ Len(tail) \in Nat /\ Len(front) \in Nat
      /\ DOMAIN body = 1..Len(body) /\ DOMAIN mid = 1..Len(mid) /\ DOMAIN tail = 1..Len(tail)
      /\ DOMAIN all = 1..Len(all)
  BY <1>2, <1>3, <1>4, <1>6, IsSeqHas
<1>8. ASSUME NEW i \in DOMAIN all
      PROVE  \/ i \in DOMAIN body /\ all[i] = body[i]
             \/ nested /\ all[i] = exit
             \/ \E j \in J : all[i] = cs[j]
  <2>1. \/ i \in DOMAIN front /\ all[i] = front[i]
        \/ i - Len(front) \in DOMAIN tail /\ all[i] = tail[i - Len(front)]
    BY <1>3, <1>6, ConcatAt
  <2>2. CASE i \in DOMAIN front /\ all[i] = front[i]
    <3>1. \/ i \in DOMAIN body /\ front[i] = body[i]
          \/ i - Len(body) \in DOMAIN mid /\ front[i] = mid[i - Len(body)]
      BY <1>2, <1>4, <2>2, ConcatAt
    <3> HIDE DEF front, all, exit, nested
    <3>2. QED
      BY <1>4, <2>2, <3>1
  <2> HIDE DEF front, all
  <2>3. QED
    BY <1>3, <2>1, <2>2
<1>9. ASSUME NEW i \in DOMAIN all PROVE Sent(all[i], slots)
  <2>1. ASSUME NEW j \in DOMAIN cs, cs[j].c \notin {"conf", "end"} PROVE Sent(cs[j], slots)
    BY <2>1 DEF Drafted, Sent
  <2>2. Sent(exit, slots)
    BY DEF Sent, CommandOK, Writes
  <2> HIDE DEF all, exit, nested
  <2>3. QED
    BY <1>0, <1>2, <1>8, <2>1, <2>2
<1>10. ASSUME NEW i \in DOMAIN all, all[i].c = "sub"
       PROVE  \E j \in DOMAIN all : i < j /\ all[j].c = "exit"
  <2>1. ~ (\E j \in J : all[i] = cs[j])
    BY <1>0, <1>10
  <2>2. all[i] # exit
    BY <1>10
  <2>3. i \in DOMAIN body /\ all[i] = body[i]
    BY <1>8, <2>1, <2>2
  <2>4. nested
    BY <1>0, <1>2, <1>10, <2>3
  <2> DEFINE j == Len(body) + 1
  <2>5. Len(mid) >= 1
    BY <1>5, <1>7, <2>4
  <2>6. j \in 1..Len(front) /\ i < j /\ j \in DOMAIN all
    BY <1>6, <1>7, <2>3, <2>5
  <2>7. all[j] = front[j]
    BY <1>3, <1>6, <2>6, ConcatIs
  <2>8. front[j] = mid[1]
    BY <1>2, <1>4, <1>7, <2>5, ConcatIs
  <2>9. all[j].c = "exit"
    BY <1>4, <1>5, <2>4, <2>7, <2>8
  <2> HIDE DEF j, all
  <2>10. QED
    BY <2>6, <2>9
<1>11. QED
  BY <1>1, <1>6, <1>9, <1>10 DEF CommandsOK, Balanced
AllDrafted(cs, slots) == IsSeq(cs) /\ \A i \in DOMAIN cs : Drafted(cs[i], slots)

LEMMA NoneDrafted ==
    ASSUME NEW slots
    PROVE  AllDrafted(<<>>, slots)
BY EmptyIs DEF AllDrafted

LEMMA ThreeDrafted ==
    ASSUME NEW slots, NEW x, NEW y, NEW z,
           Drafted(x, slots), Drafted(y, slots), Drafted(z, slots)
    PROVE  AllDrafted(<<x, y, z>>, slots)
<1> DEFINE t == <<x, y, z>>
<1>1. t \in Seq({x, y, z}) /\ Len(t) = 3 /\ t[1] = x /\ t[2] = y /\ t[3] = z
  OBVIOUS
<1> HIDE DEF t
<1>2. IsSeq(t) /\ DOMAIN t = 1..3
  BY <1>1, SeqIs
<1>3. QED
  BY <1>1, <1>2 DEF AllDrafted, t

LEMMA FourDrafted ==
    ASSUME NEW slots, NEW x, NEW y, NEW z, NEW u,
           Drafted(x, slots), Drafted(y, slots), Drafted(z, slots), Drafted(u, slots)
    PROVE  AllDrafted(<<x, y, z, u>>, slots)
<1> DEFINE t == <<x, y, z, u>>
<1>1. t \in Seq({x, y, z, u}) /\ Len(t) = 4 /\ t[1] = x /\ t[2] = y /\ t[3] = z /\ t[4] = u
  OBVIOUS
<1> HIDE DEF t
<1>2. IsSeq(t) /\ DOMAIN t = 1..4
  BY <1>1, SeqIs
<1>3. QED
  BY <1>1, <1>2 DEF AllDrafted, t

LEMMA FiveDrafted ==
    ASSUME NEW slots, NEW x, NEW y, NEW z, NEW u, NEW v,
           Drafted(x, slots), Drafted(y, slots), Drafted(z, slots), Drafted(u, slots),
           Drafted(v, slots)
    PROVE  AllDrafted(<<x, y, z, u, v>>, slots)
<1> DEFINE t == <<x, y, z, u, v>>
<1>1. /\ t \in Seq({x, y, z, u, v}) /\ Len(t) = 5
      /\ t[1] = x /\ t[2] = y /\ t[3] = z /\ t[4] = u /\ t[5] = v
  OBVIOUS
<1> HIDE DEF t
<1>2. IsSeq(t) /\ DOMAIN t = 1..5
  BY <1>1, SeqIs
<1>3. QED
  BY <1>1, <1>2 DEF AllDrafted, t

\* The commands of the catalogue.
LEMMA CatalogueDrafted ==
    ASSUME NEW slots
    PROVE  /\ Drafted(Conf, slots) /\ Drafted(End, slots) /\ Drafted(Clear, slots)
           /\ \A m : Drafted(Sub(m), slots)
           /\ \A f, v : f \in Fields \ {"list"} /\ <<f>> \in slots => Drafted(Set(f, v), slots)
           /\ \A n, s, r : n \in Lists /\ <<"list", n>> \in slots =>
                 /\ s \in MIN_SEQ..MAX_SEQ => Drafted(AddEntry(n, s, r), slots)
                 /\ Drafted(DelEntry(n, s, r), slots)
BY DEF Drafted, CommandOK, Writes, Slot, Conf, End, Clear, Sub, Set, AddEntry, DelEntry

-----------------------------------------------------------------------------
(* Snapshots and actions *)

LEMMA IsHas ==
    ASSUME NEW k, NEW v
    PROVE  DOMAIN Is(k, v) = {k} /\ Is(k, v)[k] = v /\ BoundSlots(Is(k, v)) = KeySlots(k)
BY DEF Is, BoundSlots

LEMMA OverHas ==
    ASSUME NEW f, NEW g
    PROVE  /\ DOMAIN Over(f, g) = DOMAIN f \cup DOMAIN g
           /\ \A k \in DOMAIN f : Over(f, g)[k] = f[k]
           /\ \A k \in DOMAIN g \ DOMAIN f : Over(f, g)[k] = g[k]
           /\ BoundSlots(Over(f, g)) = BoundSlots(f) \cup BoundSlots(g)
<1>1. /\ DOMAIN Over(f, g) = DOMAIN f \cup DOMAIN g
      /\ \A k \in DOMAIN f : Over(f, g)[k] = f[k]
      /\ \A k \in DOMAIN g \ DOMAIN f : Over(f, g)[k] = g[k]
  BY DEF Over
<1>2. BoundSlots(Over(f, g)) = BoundSlots(f) \cup BoundSlots(g)
  BY <1>1 DEF BoundSlots
<1>3. QED
  BY <1>1, <1>2

\* The value a key of a snapshot binds a slot to.
Bound(k, x, s) ==
    IF k[1] = "list" THEN x.entries
    ELSE IF k[1] = "static" THEN (IF x = "present" THEN k[2] ELSE None)
    ELSE IF k[1] = "export" THEN (IF s = <<"export">> THEN x.list ELSE x.rmap)
    ELSE x

\* A list that IOS can hold; a static route that is there or not.
ListOK(list) == IsFiniteSet(list) /\ Sequenced(list)
ValueOK(k, x) ==
    /\ k[1] = "list" => ListOK(x.entries)
    /\ k[1] = "static" => x \in {"present", "absent"}
SnapOK(snap) == \A k \in DOMAIN snap : ValueOK(k, snap[k])

ActionFields ==
    {"dev", "kind", "eff", "before", "after", "verify", "cmds", "undo", "restore"}

ActionOK(a) ==
    /\ a = [f \in ActionFields |-> a[f]]
    /\ a.dev \in Dev /\ a.eff \in {"change", "already"}
    /\ SnapOK(a.before) /\ SnapOK(a.after) /\ SnapOK(a.verify) /\ SnapOK(a.restore)
    /\ BoundSlots(a.after) = BoundSlots(a.before) /\ BoundSlots(a.restore) = BoundSlots(a.before)
    /\ BoundSlots(a.verify) \subseteq BoundSlots(a.before)
    /\ CommandsOK(a.cmds, BoundSlots(a.before)) /\ CommandsOK(a.undo, BoundSlots(a.before))

\* The inverse of a restores all that a binds.
Undoes(a) ==
    \A k \in DOMAIN a.before : KeySlots(k) # {} =>
        k \in DOMAIN a.restore /\ a.restore[k] = a.before[k]

LEMMA IsSnap ==
    ASSUME NEW k, NEW x, ValueOK(k, x)
    PROVE  SnapOK(Is(k, x))
<1> DEFINE o == Is(k, x)
<1>1. DOMAIN o = {k} /\ o[k] = x
  BY IsHas
<1> HIDE DEF o
<1>2. SnapOK(o)
  BY <1>1 DEF SnapOK
<1>3. QED
  BY <1>2 DEF o

LEMMA OverSnap ==
    ASSUME NEW f, NEW g, SnapOK(f), SnapOK(g)
    PROVE  SnapOK(Over(f, g))
<1> DEFINE o == Over(f, g)
<1>1. /\ DOMAIN o = DOMAIN f \cup DOMAIN g
      /\ \A k \in DOMAIN f : o[k] = f[k]
      /\ \A k \in DOMAIN g \ DOMAIN f : o[k] = g[k]
  BY OverHas
<1> HIDE DEF o
<1>2. SnapOK(o)
  BY <1>1 DEF SnapOK
<1>3. QED
  BY <1>2 DEF o

\* finish_prepared.
LEMMA PreparedIs ==
    ASSUME NEW a, a.dev \in Dev, NEW already \in BOOLEAN,
           NEW before, NEW after, NEW verify, NEW restore, NEW cs, NEW undo,
           SnapOK(before), SnapOK(after), SnapOK(verify), ~already => SnapOK(restore),
           BoundSlots(after) = BoundSlots(before), BoundSlots(verify) \subseteq BoundSlots(before),
           ~already => BoundSlots(restore) = BoundSlots(before),
           ~already => AllDrafted(cs, BoundSlots(before)) /\ AllDrafted(undo, BoundSlots(before))
    PROVE  LET p == Prepared(a, already, before, after, verify, cs, undo, restore) IN
           /\ ActionOK(p) /\ p.dev = a.dev /\ p.before = before
           /\ p.eff = "change" => p.restore = restore /\ ~already
<1> DEFINE p == Prepared(a, already, before, after, verify, cs, undo, restore)
<1>1. p = [f \in ActionFields |-> p[f]]
  BY DEF Prepared, ActionFields
<1>2. /\ p.dev = a.dev /\ p.before = before /\ p.after = after /\ p.verify = verify
      /\ p.eff = (IF already THEN "already" ELSE "change")
      /\ p.cmds = (IF already THEN <<>> ELSE locked_commands(cs))
      /\ p.undo = (IF already THEN <<>> ELSE locked_commands(undo))
      /\ p.restore = (IF already THEN before ELSE restore)
  BY DEF Prepared
<1> HIDE DEF p
<1>3. CommandsOK(<<>>, BoundSlots(before))
  BY EmptyIs DEF CommandsOK, Balanced
<1>4. ~already => /\ CommandsOK(locked_commands(cs), BoundSlots(before))
                  /\ CommandsOK(locked_commands(undo), BoundSlots(before))
  BY LockedCommandsOK DEF AllDrafted
<1>5. ActionOK(p)
  BY <1>1, <1>2, <1>3, <1>4 DEF ActionOK
<1>6. QED
  BY <1>2, <1>5 DEF p
-----------------------------------------------------------------------------
(* What a snapshot says of a configuration *)

LEMMA ValueAtIs ==
    ASSUME NEW c
    PROVE  /\ \A f : f # "list" => ValueAt(c, <<f>>) = c[f]
           /\ \A n : ValueAt(c, <<"list", n>>) = c.list[n]
BY DEF ValueAt

LEMMA KeySlotsAre ==
    ASSUME NEW k
    PROVE  /\ k[1] = "list" => KeySlots(k) = {<<"list", k[2]>>}
           /\ k[1] = "static" => KeySlots(k) = {<<"static">>}
           /\ k[1] = "peer" => KeySlots(k) = {<<"shut">>}
           /\ k[1] = "rmap" => KeySlots(k) = {<<"rmap">>}
           /\ k[1] = "mss" => KeySlots(k) = {<<"mss">>}
           /\ k[1] = "ifadmin" => KeySlots(k) = {<<"ifshut">>}
           /\ k[1] = "export" => KeySlots(k) = {<<"export">>, <<"rmap">>}
           /\ k[1] \notin {"list", "static", "peer", "rmap", "mss", "ifadmin", "export"} =>
                 KeySlots(k) = {}
BY DEF KeySlots

\* A state that holds is the value of every slot it binds.
LEMMA Binds ==
    ASSUME NEW h, NEW k, NEW x, ValueOK(k, x), Holds(h, k, x),
           NEW s \in KeySlots(k), s \in Guarded
    PROVE  ValueAt(cfg[h], s) = Bound(k, x, s)
<1> DEFINE c == cfg[h]
<1>1. CASE k[1] = "list"
  <2>1. Read(h, k).entries = c.list[k[2]] /\ Read(h, k) = x
    BY <1>1 DEF Read, Holds
  <2>2. s = <<"list", k[2]>>
    BY <1>1, KeySlotsAre
  <2>3. QED
    BY <1>1, <2>1, <2>2, ValueAtIs DEF Bound
<1>2. CASE k[1] = "static"
  <2>1. s = <<"static">>
    BY <1>2, KeySlotsAre
  <2>2. V6
    BY <2>1 DEF Guarded
  <2>3. x = ReadStatic(c, k)
    BY <1>2 DEF Read, Holds
  <2>4. x \in {"present", "absent"}
    BY <1>2 DEF ValueOK
  <2>5. c.static = IF x = "present" THEN k[2] ELSE None
    BY <2>2, <2>3, <2>4 DEF ReadStatic
  <2>6. QED
    BY <1>2, <2>1, <2>5, ValueAtIs DEF Bound
<1>3. CASE k[1] = "export"
  <2>1. s \in {<<"export">>, <<"rmap">>} /\ c.export = x.list /\ c.rmap = x.rmap
    BY <1>3, KeySlotsAre DEF Holds, ExportHolds
  <2>2. QED
    BY <1>3, <2>1, ValueAtIs DEF Bound
<1>4. CASE k[1] \in {"peer", "rmap"}
  <2>1. x = ReadNeighbor(c, oper[h], k)
    BY <1>4 DEF Read, Holds
  <2>2. QED
    BY <1>4, <2>1, KeySlotsAre, ValueAtIs DEF Bound, ReadNeighbor
<1>5. CASE k[1] \in {"mss", "ifadmin"}
  <2>1. x = ReadInterface(c, oper[h], k)
    BY <1>5 DEF Read, Holds
  <2>2. QED
    BY <1>5, <2>1, KeySlotsAre, ValueAtIs DEF Bound, ReadInterface
<1>6. k[1] \in {"list", "static", "peer", "rmap", "mss", "ifadmin", "export"}
  BY KeySlotsAre
<1>7. QED
  BY <1>1, <1>2, <1>3, <1>4, <1>5, <1>6

\* A configuration as IOS can hold it.
Formed(c) ==
    /\ c = [f \in Fields |-> c[f]]
    /\ c.list = [n \in Lists |-> c.list[n]]
    /\ \A n \in Lists : ListOK(c.list[n])

\* What preparing draft a from router h gives: a well-formed action whose
\* snapshot is what the router shows, but for what earlier actions left.
Shows(h, snap, proj) ==
    \A k \in DOMAIN snap \ DOMAIN proj : KeySlots(k) # {} => Holds(h, k, snap[k])

PreparedOK(p, a, h, proj) ==
    /\ ActionOK(p) /\ p.dev = a.dev
    /\ Shows(h, p.before, proj)
    /\ p.eff = "change" => Undoes(p)

\* finish_prepared, of a plan whose inverse restores the state found.
LEMMA PreparedShows ==
    ASSUME NEW a, a.dev \in Dev, NEW already \in BOOLEAN, NEW h, NEW proj,
           NEW before, NEW after, NEW verify, NEW restore, NEW cs, NEW undo,
           SnapOK(before), SnapOK(after), SnapOK(verify), ~already => SnapOK(restore),
           BoundSlots(after) = BoundSlots(before), BoundSlots(verify) \subseteq BoundSlots(before),
           ~already => BoundSlots(restore) = BoundSlots(before),
           ~already => AllDrafted(cs, BoundSlots(before)) /\ AllDrafted(undo, BoundSlots(before)),
           Shows(h, before, proj),
           ~already => \A k \in DOMAIN before : KeySlots(k) # {} =>
                          k \in DOMAIN restore /\ restore[k] = before[k]
    PROVE  PreparedOK(Prepared(a, already, before, after, verify, cs, undo, restore), a, h, proj)
<1> DEFINE p == Prepared(a, already, before, after, verify, cs, undo, restore)
<1>1. /\ ActionOK(p) /\ p.dev = a.dev /\ p.before = before
      /\ p.eff = "change" => p.restore = restore /\ ~already
  BY PreparedIs
<1> HIDE DEF p
<1>2. PreparedOK(p, a, h, proj)
  BY <1>1 DEF PreparedOK, Undoes
<1>3. QED
  BY <1>2 DEF p

\* A snapshot of two keys.
IsPair(o, k, x, j, y) ==
    /\ SnapOK(o) /\ BoundSlots(o) = KeySlots(k) \cup KeySlots(j)
    /\ DOMAIN o = {k, j} /\ o[k] = x
    /\ j # k => o[j] = y

LEMMA PairIs ==
    ASSUME NEW k, NEW x, NEW j, NEW y, ValueOK(k, x), ValueOK(j, y)
    PROVE  IsPair(Over(Is(k, x), Is(j, y)), k, x, j, y)
<1> DEFINE f == Is(k, x)
           g == Is(j, y)
<1>1. DOMAIN f = {k} /\ f[k] = x /\ BoundSlots(f) = KeySlots(k) /\ SnapOK(f)
  BY IsHas, IsSnap
<1>2. DOMAIN g = {j} /\ g[j] = y /\ BoundSlots(g) = KeySlots(j) /\ SnapOK(g)
  BY IsHas, IsSnap
<1> HIDE DEF f, g
<1>3. SnapOK(Over(f, g))
  BY <1>1, <1>2, OverSnap
<1> DEFINE o == Over(f, g)
<1>4. /\ DOMAIN o = DOMAIN f \cup DOMAIN g /\ BoundSlots(o) = BoundSlots(f) \cup BoundSlots(g)
      /\ \A m \in DOMAIN f : o[m] = f[m]
      /\ \A m \in DOMAIN g \ DOMAIN f : o[m] = g[m]
  BY OverHas
<1> HIDE DEF o
<1>5. IsPair(o, k, x, j, y)
  <2>1. SnapOK(o)
    BY <1>3 DEF o
  <2>2. QED
    BY <1>1, <1>2, <1>4, <2>1 DEF IsPair
<1>6. QED
  BY <1>5 DEF o, f, g

LEMMA PrepareNeighborShutdownIs ==
    ASSUME NEW a, a.dev \in Dev, NEW h, NEW proj
    PROVE  PreparedOK(PrepareNeighborShutdown(a, h, proj), a, h, proj)
<1> DEFINE down == a.kind = "disable"
           cur == Current(h, proj, <<"peer">>)
           already == cur = down
           snap(b, o) == Over(Is(<<"peer">>, b), Is(<<"peerop">>, o))
           before == snap(cur, Current(h, proj, <<"peerop">>))
           after == snap(down, IF down THEN "shut" ELSE "Established")
           cs == <<Conf, Sub("bgp"), Set("shut", down), End>>
           undo == <<Conf, Sub("bgp"), Set("shut", cur), End>>
<1>1. ASSUME NEW b, NEW o
      PROVE  /\ SnapOK(snap(b, o)) /\ BoundSlots(snap(b, o)) = {<<"shut">>}
             /\ DOMAIN snap(b, o) = {<<"peer">>, <<"peerop">>} /\ snap(b, o)[<<"peer">>] = b
  <2> DEFINE k == <<"peer">>
             j == <<"peerop">>
  <2>1. ValueOK(k, b) /\ ValueOK(j, o) /\ KeySlots(k) \cup KeySlots(j) = {<<"shut">>}
    BY KeySlotsAre DEF ValueOK
  <2> HIDE DEF k, j
  <2>2. IsPair(Over(Is(k, b), Is(j, o)), k, b, j, o)
    BY <2>1, PairIs
  <2>3. QED
    BY <2>1, <2>2 DEF k, j, IsPair
<1>2. Shows(h, before, proj)
  <2>1. DOMAIN before = {<<"peer">>, <<"peerop">>} /\ before[<<"peer">>] = cur
    BY <1>1
  <2>2. KeySlots(<<"peerop">>) = {}
    BY KeySlotsAre
  <2>3. <<"peer">> \notin DOMAIN proj => Holds(h, <<"peer">>, cur)
    BY DEF Current, Holds
  <2> HIDE DEF before, cur
  <2>4. QED
    BY <2>1, <2>2, <2>3 DEF Shows
<1>3. AllDrafted(cs, {<<"shut">>}) /\ AllDrafted(undo, {<<"shut">>})
  BY FourDrafted, CatalogueDrafted DEF Fields
<1>4. PrepareNeighborShutdown(a, h, proj) = Prepared(a, already, before, after, after, cs, undo, before)
  BY DEF PrepareNeighborShutdown
<1>5. BoundSlots(before) = {<<"shut">>} /\ BoundSlots(after) = {<<"shut">>} /\ SnapOK(before) /\ SnapOK(after)
  BY <1>1
<1>6. already \in BOOLEAN
  OBVIOUS
<1> HIDE DEF before, after, cs, undo, already
<1>7. PreparedOK(Prepared(a, already, before, after, after, cs, undo, before), a, h, proj)
  BY <1>2, <1>3, <1>5, <1>6, PreparedShows
<1>8. QED
  BY <1>4, <1>7

\* A snapshot of one key that is read from the configuration.
LEMMA SingleIs ==
    ASSUME NEW k, NEW x, ValueOK(k, x), NEW h, NEW proj,
           k \notin DOMAIN proj => Holds(h, k, x)
    PROVE  SnapOK(Is(k, x)) /\ BoundSlots(Is(k, x)) = KeySlots(k) /\ Shows(h, Is(k, x), proj)
<1> DEFINE o == Is(k, x)
<1>1. DOMAIN o = {k} /\ o[k] = x /\ BoundSlots(o) = KeySlots(k) /\ SnapOK(o)
  BY IsHas, IsSnap
<1> HIDE DEF o
<1>2. Shows(h, o, proj)
  BY <1>1 DEF Shows
<1>3. QED
  BY <1>1, <1>2 DEF o

LEMMA PrepareRouteMapIs ==
    ASSUME NEW a, a.dev \in Dev, NEW h, NEW proj, PrepareRouteMap(a, h, proj) # Refused
    PROVE  PreparedOK(PrepareRouteMap(a, h, proj), a, h, proj)
<1> DEFINE k == <<"rmap">>
           cur == Current(h, proj, k)
           want == IF a.kind = "mapset" THEN a.name ELSE None
           already == cur = want
           before == Is(k, cur)
           after == Is(k, want)
           cs == <<Conf, Sub("bgp"), Set("rmap", want), End, Clear>>
           undo == <<Conf, Sub("bgp"), Set("rmap", cur), End, Clear>>
<1>1. KeySlots(k) = {<<"rmap">>} /\ \A x : ValueOK(k, x)
  BY KeySlotsAre DEF ValueOK
<1>2. k \notin DOMAIN proj => Holds(h, k, cur)
  BY DEF Current, Holds
<1>3. SnapOK(before) /\ BoundSlots(before) = {<<"rmap">>} /\ Shows(h, before, proj)
  <2> HIDE DEF k, cur
  <2>1. QED
    BY <1>1, <1>2, SingleIs
<1>4. SnapOK(after) /\ BoundSlots(after) = {<<"rmap">>}
  BY <1>1, IsSnap, IsHas
<1>5. AllDrafted(cs, {<<"rmap">>}) /\ AllDrafted(undo, {<<"rmap">>})
  BY FiveDrafted, CatalogueDrafted DEF Fields
<1>6. PrepareRouteMap(a, h, proj) = Prepared(a, already, before, after, after, cs, undo, before)
  BY DEF PrepareRouteMap
<1>7. already \in BOOLEAN
  OBVIOUS
<1> HIDE DEF before, after, cs, undo, already
<1>8. PreparedOK(Prepared(a, already, before, after, after, cs, undo, before), a, h, proj)
  BY <1>3, <1>4, <1>5, <1>7, PreparedShows
<1>9. QED
  BY <1>6, <1>8

LEMMA PrepareInterfaceMssIs ==
    ASSUME NEW a, a.dev \in Dev, NEW h, NEW proj
    PROVE  PreparedOK(PrepareInterfaceMss(a, h, proj), a, h, proj)
<1> DEFINE k == <<"mss">>
           cur == Current(h, proj, k)
           already == cur = a.mss
           before == Is(k, cur)
           after == Is(k, a.mss)
           cs == <<Conf, Sub("interface"), Set("mss", a.mss), End>>
           undo == <<Conf, Sub("interface"), Set("mss", cur), End>>
<1>1. KeySlots(k) = {<<"mss">>} /\ \A x : ValueOK(k, x)
  BY KeySlotsAre DEF ValueOK
<1>2. k \notin DOMAIN proj => Holds(h, k, cur)
  BY DEF Current, Holds
<1>3. SnapOK(before) /\ BoundSlots(before) = {<<"mss">>} /\ Shows(h, before, proj)
  <2> HIDE DEF k, cur
  <2>1. QED
    BY <1>1, <1>2, SingleIs
<1>4. SnapOK(after) /\ BoundSlots(after) = {<<"mss">>}
  BY <1>1, IsSnap, IsHas
<1>5. AllDrafted(cs, {<<"mss">>}) /\ AllDrafted(undo, {<<"mss">>})
  BY FourDrafted, CatalogueDrafted DEF Fields
<1>6. PrepareInterfaceMss(a, h, proj) = Prepared(a, already, before, after, after, cs, undo, before)
  BY DEF PrepareInterfaceMss
<1>7. already \in BOOLEAN
  OBVIOUS
<1> HIDE DEF before, after, cs, undo, already
<1>8. PreparedOK(Prepared(a, already, before, after, after, cs, undo, before), a, h, proj)
  BY <1>3, <1>4, <1>5, <1>7, PreparedShows
<1>9. QED
  BY <1>6, <1>8

LEMMA PrepareInterfaceAdminIs ==
    ASSUME NEW a, a.dev \in Dev, NEW h, NEW proj, PrepareInterfaceAdmin(a, h, proj) # Refused
    PROVE  PreparedOK(PrepareInterfaceAdmin(a, h, proj), a, h, proj)
<1> DEFINE k == <<"ifadmin">>
           j == <<"ifop">>
           down == a.kind = "ifdown"
           cur == Current(h, proj, k)
           already == cur = down
           snap(b) == Over(Is(k, b), Is(j, b))
           before == snap(cur)
           after == snap(down)
           cs == <<Conf, Sub("interface"), Set("ifshut", down), End>>
           undo == <<Conf, Sub("interface"), Set("ifshut", cur), End>>
<1>1. /\ KeySlots(k) = {<<"ifshut">>} /\ KeySlots(j) = {}
      /\ \A x : ValueOK(k, x) /\ ValueOK(j, x)
  BY KeySlotsAre DEF ValueOK
<1>2. k \notin DOMAIN proj => Holds(h, k, cur)
  BY DEF Current, Holds
<1>3. ASSUME NEW b PROVE IsPair(snap(b), k, b, j, b)
  BY <1>1, PairIs
<1>4. IsPair(before, k, cur, j, cur) /\ IsPair(after, k, down, j, down)
  BY <1>3
<1>5. PrepareInterfaceAdmin(a, h, proj) = Prepared(a, already, before, after, after, cs, undo, before)
  BY DEF PrepareInterfaceAdmin
<1>6. AllDrafted(cs, {<<"ifshut">>}) /\ AllDrafted(undo, {<<"ifshut">>})
  BY FourDrafted, CatalogueDrafted DEF Fields
<1>7. already \in BOOLEAN
  OBVIOUS
<1> HIDE DEF before, after, cs, undo, already, cur, k, j
<1>8. Shows(h, before, proj)
  BY <1>1, <1>2, <1>4 DEF Shows, IsPair
<1>9. /\ SnapOK(before) /\ BoundSlots(before) = {<<"ifshut">>}
      /\ SnapOK(after) /\ BoundSlots(after) = {<<"ifshut">>}
  BY <1>1, <1>4 DEF IsPair
<1>10. PreparedOK(Prepared(a, already, before, after, after, cs, undo, before), a, h, proj)
  BY <1>6, <1>7, <1>8, <1>9, PreparedShows
<1>11. QED
  BY <1>5, <1>10

LEMMA PrepareStaticRouteIs ==
    ASSUME NEW a, a.dev \in Dev, NEW h, NEW proj, SnapOK(proj),
           PrepareStaticRoute(a, h, proj) # Refused
    PROVE  PreparedOK(PrepareStaticRoute(a, h, proj), a, h, proj)
<1> DEFINE k == <<"static", a.tag>>
           now == Current(h, proj, k)
           want == a.kind = "null"
           new == IF want THEN "present" ELSE "absent"
           v == IF want THEN a.tag ELSE None
           old == IF now = "present" THEN a.tag ELSE None
           already == now = new
           bgp(b) == IF a.tag = "tagged" THEN Is(<<"rtbh">>, b) ELSE <<>>
           rest(n, t) == Over(Is(<<"null0">>, n), bgp(t))
           snap(x, n, t) == Over(Is(k, x), rest(n, t))
           before == snap(now, Current(h, proj, <<"null0">>), Current(h, proj, <<"rtbh">>))
           after == snap(new, want, want)
           cs == <<Conf, Set("static", v), End>>
           undo == <<Conf, Set("static", old), End>>
<1>1. now # "other" /\ PrepareStaticRoute(a, h, proj) = Prepared(a, already, before, after, after, cs, undo, before)
  BY DEF PrepareStaticRoute
<1>2. KeySlots(k) = {<<"static">>} /\ k[1] = "static"
  BY KeySlotsAre
<1>3. k \notin DOMAIN proj => Holds(h, k, now)
  BY DEF Current, Holds
<1>4. ValueOK(k, now) /\ ValueOK(k, new)
  <2>1. now \in {"present", "absent"}
    <3>1. CASE k \in DOMAIN proj
      BY <1>2, <3>1 DEF SnapOK, ValueOK, Current
    <3>2. CASE k \notin DOMAIN proj
      <4>1. now = ReadStatic(cfg[h], k)
        BY <1>2, <3>2 DEF Current, Read
      <4>2. ReadStatic(cfg[h], k) \in {"present", "absent", "other"}
        BY DEF ReadStatic
      <4>3. QED
        BY <1>1, <4>1, <4>2
    <3>3. QED
      BY <3>1, <3>2
  <2>2. QED
    BY <2>1, <1>2 DEF ValueOK
<1>5. ASSUME NEW n, NEW t PROVE SnapOK(rest(n, t)) /\ BoundSlots(rest(n, t)) = {}
  <2> DEFINE f == Is(<<"null0">>, n)
             g == bgp(t)
  <2>1. \A x : ValueOK(<<"null0">>, x) /\ ValueOK(<<"rtbh">>, x)
    BY DEF ValueOK
  <2>2. KeySlots(<<"null0">>) = {} /\ KeySlots(<<"rtbh">>) = {}
    BY KeySlotsAre
  <2>3. SnapOK(f) /\ BoundSlots(f) = {}
    BY <2>1, <2>2, IsSnap, IsHas
  <2>4. SnapOK(g) /\ BoundSlots(g) = {}
    <3>1. SnapOK(Is(<<"rtbh">>, t)) /\ BoundSlots(Is(<<"rtbh">>, t)) = {}
      BY <2>1, <2>2, IsSnap, IsHas
    <3>2. SnapOK(<<>>) /\ BoundSlots(<<>>) = {}
      BY DEF SnapOK, BoundSlots
    <3>3. QED
      BY <3>1, <3>2
  <2> HIDE DEF f, g
  <2>5. SnapOK(Over(f, g))
    BY <2>3, <2>4, OverSnap
  <2>6. BoundSlots(Over(f, g)) = {}
    <3>1. BoundSlots(Over(f, g)) = BoundSlots(f) \cup BoundSlots(g)
      BY OverHas
    <3>2. QED
      BY <2>3, <2>4, <3>1
  <2>7. QED
    BY <2>5, <2>6 DEF f, g
<1> HIDE DEF rest
<1>6. ASSUME NEW x, ValueOK(k, x), NEW n, NEW t
      PROVE  /\ SnapOK(snap(x, n, t)) /\ BoundSlots(snap(x, n, t)) = {<<"static">>}
             /\ snap(x, n, t)[k] = x
             /\ \A j \in DOMAIN snap(x, n, t) : j # k => KeySlots(j) = {}
  <2> DEFINE f == Is(k, x)
             g == rest(n, t)
             o == Over(f, g)
  <2>1. DOMAIN f = {k} /\ f[k] = x /\ BoundSlots(f) = {<<"static">>} /\ SnapOK(f)
    <3> HIDE DEF k
    <3>1. QED
      BY <1>2, <1>6, IsHas, IsSnap
  <2>2. SnapOK(g) /\ BoundSlots(g) = {}
    BY <1>5
  <2> HIDE DEF f, g, k
  <2>3. SnapOK(o)
    BY <2>1, <2>2, OverSnap
  <2>4. /\ DOMAIN o = DOMAIN f \cup DOMAIN g /\ BoundSlots(o) = BoundSlots(f) \cup BoundSlots(g)
        /\ \A m \in DOMAIN f : o[m] = f[m]
    BY OverHas
  <2> HIDE DEF o
  <2>5. \A j \in DOMAIN g : KeySlots(j) = {}
    BY <2>2 DEF BoundSlots
  <2>6. SnapOK(o) /\ BoundSlots(o) = {<<"static">>} /\ o[k] = x /\ \A j \in DOMAIN o : j # k => KeySlots(j) = {}
    BY <2>1, <2>2, <2>3, <2>4, <2>5
  <2>7. QED
    BY <2>6 DEF f, g, o
<1>7. /\ SnapOK(before) /\ BoundSlots(before) = {<<"static">>} /\ before[k] = now
      /\ \A j \in DOMAIN before : j # k => KeySlots(j) = {}
  BY <1>4, <1>6
<1>8. SnapOK(after) /\ BoundSlots(after) = {<<"static">>}
  BY <1>4, <1>6
<1>9. AllDrafted(cs, {<<"static">>}) /\ AllDrafted(undo, {<<"static">>})
  BY ThreeDrafted, CatalogueDrafted DEF Fields
<1>10. already \in BOOLEAN
  OBVIOUS
<1> HIDE DEF before, after, cs, undo, already, now, k
<1>11. Shows(h, before, proj)
  BY <1>3, <1>7 DEF Shows
<1>12. PreparedOK(Prepared(a, already, before, after, after, cs, undo, before), a, h, proj)
  BY <1>7, <1>8, <1>9, <1>10, <1>11, PreparedShows
<1>13. QED
  BY <1>1, <1>12

LEMMA PrepareExportPolicyIs ==
    ASSUME NEW a, a.dev \in Dev, NEW h, NEW proj, PrepareExportPolicy(a, h, proj) # Refused
    PROVE  PreparedOK(PrepareExportPolicy(a, h, proj), a, h, proj)
<1> DEFINE k == <<"export">>
           cur == IF k \in DOMAIN proj THEN proj[k] ELSE ExportAttachment(h)
           lists == a.kind = "export_list"
           new == IF lists THEN [cur EXCEPT !.list = a.name] ELSE [cur EXCEPT !.rmap = a.name]
           need == {cur.list, new.list} \ {None}
           before == [cur EXCEPT !.need = need]
           after == [new EXCEPT !.need = need]
           permitted(n) == IF n = None THEN {} ELSE exact_permitted_prefixes(cur.defs[n])
           adv(now, all) == [x \in {<<"adv", r>> : r \in all} |-> x[2] \in now]
           all == permitted(cur.list) \cup permitted(new.list)
           verify(s, x) == Over(Is(k, x), adv(permitted(s.list), all))
           f == IF lists THEN "export" ELSE "rmap"
           v(x) == IF lists THEN x.list ELSE x.rmap
           already == before = after
           cs == <<Conf, Sub("bgp"), Set(f, v(new)), End, Clear>>
           undo == <<Conf, Sub("bgp"), Set(f, v(cur)), End, Clear>>
           slots == {<<"export">>, <<"rmap">>}
<1>1. PrepareExportPolicy(a, h, proj) =
        Prepared(a, already, Is(k, before), verify(new, after), verify(new, after), cs, undo,
                 verify(cur, before))
  BY DEF PrepareExportPolicy
<1>2. KeySlots(k) = slots /\ \A x : ValueOK(k, x)
  BY KeySlotsAre DEF ValueOK
<1>3. k \notin DOMAIN proj => Holds(h, k, before)
  <2> SUFFICES ASSUME k \notin DOMAIN proj PROVE Holds(h, k, before)
    OBVIOUS
  <2>1. cur = [list |-> cfg[h].export, rmap |-> cfg[h].rmap, defs |-> cfg[h].list, need |-> {}]
    BY DEF ExportAttachment
  <2> HIDE DEF cur, need
  <2>2. before.list = cfg[h].export /\ before.rmap = cfg[h].rmap /\ before.defs = cfg[h].list
    BY <2>1
  <2> HIDE DEF before
  <2>3. QED
    BY <2>2 DEF Holds, ExportHolds
<1>4. ASSUME NEW s, NEW x
      PROVE  SnapOK(verify(s, x)) /\ BoundSlots(verify(s, x)) = slots /\ k \in DOMAIN verify(s, x) /\ verify(s, x)[k] = x
  <2> DEFINE i == Is(k, x)
             g == adv(permitted(s.list), all)
             o == Over(i, g)
  <2>1. DOMAIN i = {k} /\ i[k] = x /\ BoundSlots(i) = slots /\ SnapOK(i)
    <3> HIDE DEF k, slots
    <3>1. QED
      BY <1>2, IsHas, IsSnap
  <2>2. \A j \in DOMAIN g : KeySlots(j) = {} /\ ValueOK(j, g[j])
    <3>1. DOMAIN g = {<<"adv", r>> : r \in all}
      OBVIOUS
    <3> HIDE DEF g, all
    <3>2. \A r, y : KeySlots(<<"adv", r>>) = {} /\ ValueOK(<<"adv", r>>, y)
      BY KeySlotsAre DEF ValueOK
    <3>3. QED
      BY <3>1, <3>2
  <2>3. SnapOK(g) /\ BoundSlots(g) = {}
    <3> HIDE DEF g
    <3>1. QED
      BY <2>2 DEF SnapOK, BoundSlots
  <2> HIDE DEF i, g, k, slots
  <2>4. SnapOK(o)
    BY <2>1, <2>3, OverSnap
  <2>5. /\ DOMAIN o = DOMAIN i \cup DOMAIN g /\ BoundSlots(o) = BoundSlots(i) \cup BoundSlots(g)
        /\ \A m \in DOMAIN i : o[m] = i[m]
    BY OverHas
  <2> HIDE DEF o
  <2>6. SnapOK(o) /\ BoundSlots(o) = slots /\ k \in DOMAIN o /\ o[k] = x
    BY <2>1, <2>3, <2>4, <2>5
  <2>7. QED
    BY <2>6 DEF i, g, o
<1>5. AllDrafted(cs, slots) /\ AllDrafted(undo, slots)
  <2>1. f \in Fields \ {"list"} /\ <<f>> \in slots
    BY DEF Fields
  <2> HIDE DEF f, v, slots
  <2>2. QED
    BY <2>1, FiveDrafted, CatalogueDrafted
<1>6. already \in BOOLEAN
  OBVIOUS
<1> DEFINE b == Is(k, before)
           r == verify(cur, before)
           n == verify(new, after)
<1>7. SnapOK(b) /\ BoundSlots(b) = slots /\ Shows(h, b, proj) /\ DOMAIN b = {k} /\ b[k] = before
  <2> HIDE DEF k, before, slots
  <2>1. SnapOK(b) /\ BoundSlots(b) = slots /\ Shows(h, b, proj)
    BY <1>2, <1>3, SingleIs
  <2>2. QED
    BY <2>1, IsHas
<1>8. SnapOK(r) /\ BoundSlots(r) = slots /\ k \in DOMAIN r /\ r[k] = before /\ SnapOK(n) /\ BoundSlots(n) = slots
  <2> HIDE DEF verify
  <2>1. QED
    BY <1>4
<1>9. PrepareExportPolicy(a, h, proj) = Prepared(a, already, b, n, n, cs, undo, r)
  BY <1>1
<1> HIDE DEF b, r, n, cs, undo, already, slots, k, before
<1>10. PreparedOK(Prepared(a, already, b, n, n, cs, undo, r), a, h, proj)
  BY <1>5, <1>6, <1>7, <1>8, PreparedShows
<1>11. QED
  BY <1>9, <1>10
-----------------------------------------------------------------------------
(* Planned lists *)

LEMMA AfterAddOK ==
    ASSUME NEW list, ListOK(list), NEW s \in MIN_SEQ..MAX_SEQ, NEW r
    PROVE  ListOK(AfterAdd(list, s, r))
<1>1. IsFiniteSet(list \cup {Permit(s, r)})
  BY FS_AddElement DEF ListOK
<1>2. Permit(s, r).seq = s
  BY DEF Permit
<1>3. QED
  BY <1>1, <1>2 DEF ListOK, AfterAdd, Sequenced

LEMMA SubListOK ==
    ASSUME NEW list, ListOK(list), NEW part, part \subseteq list
    PROVE  ListOK(part)
<1>1. IsFiniteSet(part)
  BY FS_Subset DEF ListOK
<1>2. QED
  BY <1>1 DEF ListOK, Sequenced

\* A planned sequence is one IOS accepts.
LEMMA PlannedIs ==
    ASSUME NEW list, Sequenced(list), NEW r, r.len \in Nat, NEW adding \in BOOLEAN
    PROVE  LET p == IF adding THEN plan_add(list, r) ELSE plan_remove(list, r) IN
           p \in {Refuse, AlreadySatisfied} \/ p.seq \in MIN_SEQ..MAX_SEQ
<1> DEFINE add == plan_add(list, r)
           rem == plan_remove(list, r)
<1>1. add \in {Refuse, AlreadySatisfied} \/ add.plan = "use"
  <2>1. \A s : free_or_refuse(s, list) = Refuse \/ free_or_refuse(s, list).plan = "use"
    BY DEF free_or_refuse, Use
  <2>2. plan_append(list) = Refuse \/ plan_append(list).plan = "use"
    BY <2>1 DEF plan_append
  <2>3. \A e : plan_before(list, e) = Refuse \/ plan_before(list, e).plan = "use"
    BY <2>1 DEF plan_before
  <2>4. QED
    BY <2>2, <2>3 DEF plan_add
<1>2. add.plan = "use" => add.seq \in MIN_SEQ..MAX_SEQ
  BY PlanAddReaches DEF Reached
<1>3. rem \in {Refuse, AlreadySatisfied} \/ rem.seq \in MIN_SEQ..MAX_SEQ
  <2>1. CASE Permits(list, r)
    <3>1. FirstMatch(list, r) \in list
      BY <2>1, FirstMatchIs DEF Permits
    <3>2. FirstMatch(list, r).seq \in MIN_SEQ..MAX_SEQ
      BY <3>1 DEF Sequenced
    <3>3. QED
      BY <3>2 DEF plan_remove, Use
  <2>2. CASE ~Permits(list, r)
    BY <2>2 DEF plan_remove
  <2>3. QED
    BY <2>1, <2>2
<1> HIDE DEF add, rem
<1>4. QED
  BY <1>1, <1>2, <1>3 DEF add, rem

\* A read that parses is the whole list.
LEMMA ParsedIsWhole ==
    ASSUME NEW full, ListOK(full), NEW shown, shown \subseteq full,
           NEW read, read = parse_prefix_list([declared |-> Cardinality(full), shown |-> shown]),
           read.ok
    PROVE  read.entries = full
<1>1. Cardinality(full) = Cardinality(shown) /\ read.entries = shown
  BY DEF parse_prefix_list
<1>2. full = shown
  BY <1>1, FS_Subset DEF ListOK
<1>3. QED
  BY <1>1, <1>2

LEMMA PreparePrefixListIs ==
    ASSUME NEW a, a.dev \in Dev, a.list \in Lists, a.route \in Routes,
           NEW h, Formed(cfg[h]), NEW proj, SnapOK(proj), NEW cut \in BOOLEAN,
           PreparePrefixList(a, h, proj, cut) # Refused
    PROVE  PreparedOK(PreparePrefixList(a, h, proj, cut), a, h, proj)
<1> DEFINE k == <<"list", a.list>>
           full == cfg[h].list[a.list]
           shown == IF cut THEN AfterRemove(full, Last({e.seq : e \in full})) ELSE full
           parsed == parse_prefix_list([declared |-> Cardinality(full), shown |-> shown])
           read == IF k \in DOMAIN proj THEN [ok |-> TRUE, entries |-> proj[k].entries]
                   ELSE parsed
           list == read.entries
           adding == a.kind = "add"
           p == IF adding THEN plan_add(list, a.route) ELSE plan_remove(list, a.route)
           j == <<"peerop">>
           m == <<"adv", a.route>>
           up == Is(j, "Established")
           val(es) == [entries |-> es, used |-> TRUE]
           here(es) == Is(k, val(es))
           adv(b) == Over(Is(m, b), up)
           ins == <<Conf, AddEntry(a.list, p.seq, a.route), End, Clear>>
           del == <<Conf, DelEntry(a.list, p.seq, a.route), End, Clear>>
           new == IF adding THEN AfterAdd(list, p.seq, a.route) ELSE AfterRemove(list, p.seq)
           before == Over(here(list), up)
           slots == {<<"list", a.list>>}
<1>1. /\ prefix_list_consumers(cfg[h], a.list) = {"peer"} /\ read.ok /\ p # Refuse
      /\ PreparePrefixList(a, h, proj, cut) =
           IF p = AlreadySatisfied
           THEN Prepared(a, TRUE, before, Over(here(list), adv(adding)), adv(adding), <<>>, <<>>, <<>>)
           ELSE Prepared(a, FALSE, before, Over(here(new), adv(adding)), Over(here(new), adv(adding)),
                         IF adding THEN ins ELSE del, IF adding THEN del ELSE ins,
                         Over(here(list), adv(~adding)))
  BY DEF PreparePrefixList
<1>2. KeySlots(k) = slots /\ KeySlots(j) = {} /\ KeySlots(m) = {}
      /\ (\A x : ValueOK(j, x) /\ ValueOK(m, x)) /\ k # j /\ k # m
      /\ \A es : ListOK(es) => ValueOK(k, val(es))
  BY KeySlotsAre DEF ValueOK
<1>3. ListOK(full)
  BY DEF Formed
<1>4. ListOK(list) /\ (k \notin DOMAIN proj => list = full)
  <2>1. CASE k \in DOMAIN proj
    <3>1. k[1] = "list" /\ list = proj[k].entries
      BY <2>1
    <3> HIDE DEF k, list
    <3>2. QED
      BY <2>1, <3>1 DEF SnapOK, ValueOK
  <2>2. CASE k \notin DOMAIN proj
    <3>1. shown \subseteq full /\ read = parsed /\ parsed.ok
      BY <1>1, <2>2 DEF AfterRemove
    <3> HIDE DEF full, shown
    <3>2. parsed.entries = full
      BY <1>3, <3>1, ParsedIsWhole
    <3> HIDE DEF parsed, read
    <3>3. QED
      BY <1>3, <3>1, <3>2
  <2>3. QED
    BY <2>1, <2>2
<1>5. p # AlreadySatisfied => p.seq \in MIN_SEQ..MAX_SEQ
  <2>1. a.route.len \in Nat /\ adding \in BOOLEAN
    BY DevicePlanAssumption
  <2> HIDE DEF list, adding
  <2>2. QED
    BY <1>1, <1>4, <2>1, PlannedIs DEF ListOK
<1>6. p # AlreadySatisfied => ListOK(new)
  <2> HIDE DEF p, list
  <2>1. AfterRemove(list, p.seq) \subseteq list
    BY DEF AfterRemove
  <2>2. QED
    BY <1>4, <1>5, <2>1, AfterAddOK, SubListOK
<1>7. k \notin DOMAIN proj => Holds(h, k, val(list))
  <2> SUFFICES ASSUME k \notin DOMAIN proj PROVE Holds(h, k, val(list))
    OBVIOUS
  <2>1. Read(h, k) = [entries |-> full, used |-> TRUE]
    BY <1>1 DEF Read
  <2>2. k[1] # "export" /\ list = full
    BY <1>4
  <2> HIDE DEF k, list, full
  <2>3. QED
    BY <2>1, <2>2 DEF Holds
<1> HIDE DEF new, p, list, full, read, parsed, shown
<1>8. ASSUME NEW b
      PROVE  SnapOK(adv(b)) /\ BoundSlots(adv(b)) = {}
  <2>1. IsPair(adv(b), m, b, j, "Established")
    <3> HIDE DEF m, j
    <3>1. QED
      BY <1>2, PairIs
  <2> HIDE DEF adv, m, j
  <2>2. QED
    BY <1>2, <2>1 DEF IsPair
<1>9. /\ SnapOK(before) /\ BoundSlots(before) = slots /\ DOMAIN before = {k, j}
      /\ before[k] = val(list)
  <2>1. IsPair(before, k, val(list), j, "Established")
    <3> HIDE DEF k, j, val
    <3>1. QED
      BY <1>2, <1>4, PairIs
  <2> HIDE DEF before, k, j, val
  <2>2. QED
    BY <1>2, <2>1 DEF IsPair
<1>10. ASSUME NEW es, ListOK(es), NEW b
       PROVE  /\ SnapOK(Over(here(es), adv(b))) /\ BoundSlots(Over(here(es), adv(b))) = slots
              /\ k \in DOMAIN Over(here(es), adv(b)) /\ Over(here(es), adv(b))[k] = val(es)
  <2> DEFINE f == here(es)
             g == adv(b)
             o == Over(f, g)
  <2>1. DOMAIN f = {k} /\ f[k] = val(es) /\ BoundSlots(f) = slots /\ SnapOK(f)
    <3> HIDE DEF k, val, slots
    <3>1. QED
      BY <1>2, <1>10, IsHas, IsSnap
  <2>2. SnapOK(g) /\ BoundSlots(g) = {}
    BY <1>8
  <2> HIDE DEF f, g, k, slots, val
  <2>3. SnapOK(o)
    BY <2>1, <2>2, OverSnap
  <2>4. /\ DOMAIN o = DOMAIN f \cup DOMAIN g /\ BoundSlots(o) = BoundSlots(f) \cup BoundSlots(g)
        /\ \A x \in DOMAIN f : o[x] = f[x]
    BY OverHas
  <2> HIDE DEF o
  <2>5. SnapOK(o) /\ BoundSlots(o) = slots /\ k \in DOMAIN o /\ o[k] = val(es)
    BY <2>1, <2>2, <2>3, <2>4
  <2>6. QED
    BY <2>5 DEF f, g, o
<1>11. p # AlreadySatisfied => AllDrafted(ins, slots) /\ AllDrafted(del, slots)
  BY <1>5, FourDrafted, CatalogueDrafted
<1> HIDE DEF ins, del
<1>12. Shows(h, before, proj)
  <2> HIDE DEF before, k, j, val
  <2>1. QED
    BY <1>2, <1>7, <1>9 DEF Shows
<1>13. CASE p = AlreadySatisfied
  <2> DEFINE after == Over(here(list), adv(adding))
             verify == adv(adding)
  <2>1. SnapOK(after) /\ BoundSlots(after) = slots /\ SnapOK(verify) /\ BoundSlots(verify) = {}
    BY <1>4, <1>8, <1>10
  <2> HIDE DEF before, after, verify, slots, k
  <2>2. PreparedOK(Prepared(a, TRUE, before, after, verify, <<>>, <<>>, <<>>), a, h, proj)
    BY <1>9, <1>12, <2>1, PreparedShows
  <2>3. QED
    BY <1>1, <1>13, <2>2 DEF after, verify, before
<1>14. CASE p # AlreadySatisfied
  <2> DEFINE after == Over(here(new), adv(adding))
             restore == Over(here(list), adv(~adding))
             cs == IF adding THEN ins ELSE del
             undo == IF adding THEN del ELSE ins
  <2>1. SnapOK(after) /\ BoundSlots(after) = slots
    BY <1>6, <1>10, <1>14
  <2>2. SnapOK(restore) /\ BoundSlots(restore) = slots /\ k \in DOMAIN restore /\ restore[k] = val(list)
    BY <1>4, <1>10
  <2>3. AllDrafted(cs, slots) /\ AllDrafted(undo, slots)
    BY <1>11, <1>14
  <2>4. \A x \in DOMAIN before : KeySlots(x) # {} => x \in DOMAIN restore /\ restore[x] = before[x]
    <3> HIDE DEF before, restore, k, val, j
    <3>1. QED
      BY <1>2, <1>9, <2>2
  <2> HIDE DEF before, after, restore, slots, k, cs, undo
  <2>5. PreparedOK(Prepared(a, FALSE, before, after, after, cs, undo, restore), a, h, proj)
    BY <1>9, <1>12, <2>1, <2>2, <2>3, <2>4, PreparedShows
  <2>6. QED
    BY <1>1, <1>14, <2>5 DEF after, restore, before, cs, undo
<1>15. QED
  BY <1>13, <1>14

LEMMA PrepareActionIs ==
    ASSUME NEW a, a.dev \in Dev, a.kind \in Kinds,
           a.kind \in {"add", "remove"} => a.list \in Lists /\ a.route \in Routes,
           NEW h, Formed(cfg[h]), NEW proj, SnapOK(proj), NEW cut \in BOOLEAN,
           PrepareAction(a, h, proj, cut) # Refused
    PROVE  PreparedOK(PrepareAction(a, h, proj, cut), a, h, proj)
<1> DEFINE p == PrepareAction(a, h, proj, cut)
<1>1. CASE a.kind \in {"add", "remove"}
  <2>1. p = PreparePrefixList(a, h, proj, cut)
    BY <1>1 DEF PrepareAction
  <2>2. QED
    BY <1>1, <2>1, PreparePrefixListIs
<1>2. CASE a.kind \in {"null", "unnull"}
  <2>1. p = PrepareStaticRoute(a, h, proj)
    BY <1>2 DEF PrepareAction
  <2>2. QED
    BY <2>1, PrepareStaticRouteIs
<1>3. CASE a.kind \in {"enable", "disable"}
  <2>1. p = PrepareNeighborShutdown(a, h, proj)
    BY <1>3 DEF PrepareAction
  <2>2. QED
    BY <2>1, PrepareNeighborShutdownIs
<1>4. CASE a.kind \in {"mapset", "mapunset"}
  <2>1. p = PrepareRouteMap(a, h, proj)
    BY <1>4 DEF PrepareAction
  <2>2. QED
    BY <2>1, PrepareRouteMapIs
<1>5. CASE a.kind = "mss"
  <2>1. p = PrepareInterfaceMss(a, h, proj)
    BY <1>5 DEF PrepareAction
  <2>2. QED
    BY <2>1, PrepareInterfaceMssIs
<1>6. CASE a.kind \in {"ifup", "ifdown"}
  <2>1. p = PrepareInterfaceAdmin(a, h, proj)
    BY <1>6 DEF PrepareAction
  <2>2. QED
    BY <2>1, PrepareInterfaceAdminIs
<1>7. CASE a.kind \in {"export_list", "export_map"}
  <2>1. p = PrepareExportPolicy(a, h, proj)
    BY <1>7 DEF PrepareAction
  <2>2. QED
    BY <2>1, PrepareExportPolicyIs
<1>8. QED
  BY <1>1, <1>2, <1>3, <1>4, <1>5, <1>6, <1>7 DEF Kinds
-----------------------------------------------------------------------------
(* Derived plans *)

LEMMA ProjectionHas ==
    ASSUME NEW acts, NEW i \in Nat, NEW left
    PROVE  /\ \A k \in DOMAIN Projection(acts, i, left) : \E j \in 1..(i - 1) :
                 /\ acts[j].dev = acts[i].dev /\ k \in DOMAIN left[j]
                 /\ Projection(acts, i, left)[k] = left[j][k]
           /\ \A j \in 1..(i - 1) : acts[j].dev = acts[i].dev =>
                 DOMAIN left[j] \subseteq DOMAIN Projection(acts, i, left)
<1> DEFINE J == {j \in 1..(i - 1) : acts[j].dev = acts[i].dev}
           D == UNION {DOMAIN left[j] : j \in J}
           at_(k) == Last({x \in J : k \in DOMAIN left[x]})
           P == [k \in D |-> left[at_(k)][k]]
<1>1. Projection(acts, i, left) = P
  BY DEF Projection
<1>2. ASSUME NEW k \in D PROVE at_(k) \in J /\ k \in DOMAIN left[at_(k)]
  <2> DEFINE S == {x \in J : k \in DOMAIN left[x]}
  <2>1. S # {} /\ S \subseteq Nat /\ \A x \in S : x <= i
    OBVIOUS
  <2>2. Last(S) \in S
    <3> HIDE DEF S
    <3>1. QED
      BY <2>1, LastIs
  <2>3. QED
    BY <2>2
<1>3. DOMAIN P = D /\ \A k \in D : P[k] = left[at_(k)][k]
  OBVIOUS
<1>4. \A j \in J : DOMAIN left[j] \subseteq D
  OBVIOUS
<1>5. \A j : j \in J <=> j \in 1..(i - 1) /\ acts[j].dev = acts[i].dev
  OBVIOUS
<1> HIDE DEF P, D, J, at_
<1>6. QED
  BY <1>1, <1>2, <1>3, <1>4, <1>5

LEMMA PrefixIs ==
    ASSUME NEW s, IsSeq(s), NEW n \in Nat, n <= Len(s)
    PROVE  /\ IsSeq(SubSeq(s, 1, n)) /\ Len(SubSeq(s, 1, n)) = n
           /\ DOMAIN SubSeq(s, 1, n) = 1..n /\ \A i \in 1..n : SubSeq(s, 1, n)[i] = s[i]
<1> DEFINE t == SubSeq(s, 1, n)
<1>1. Len(s) \in Nat /\ DOMAIN s = 1..Len(s)
  BY IsSeqHas
<1>2. t = [i \in 1..n |-> s[i]]
  BY <1>1 DEF SubSeq
<1> HIDE DEF t
<1>3. \A i \in 1..n : t[i] = s[i]
  BY <1>2
<1>4. t = [i \in 1..n |-> t[i]]
  BY <1>2
<1>5. QED
  BY <1>3, <1>4, FunctionIsSeq DEF t

\* The inverses of the changes of acts, last first: g gives their positions.
Reverses(back, acts, g) ==
    LET C == {i \in DOMAIN acts : acts[i].eff = "change"} IN
    /\ IsSeq(back) /\ g \in [DOMAIN back -> C]
    /\ \A i \in DOMAIN back : back[i] = InverseOf(acts[g[i]])
    /\ \A i, j \in DOMAIN back : i < j => g[j] < g[i]
    /\ \A p \in C : \E i \in DOMAIN back : g[i] = p

LEMMA InversesAre ==
    ASSUME NEW acts, IsSeq(acts)
    PROVE  \E g : Reverses(Inverses(acts), acts, g)
<1> DEFINE C == {i \in DOMAIN acts : acts[i].eff = "change"}
           c == Changed(acts)
           n == Len(c)
           back == Inverses(acts)
<1>1. Picks(c, acts, C)
  BY SubsequenceIs DEF Changed
<1> HIDE DEF c
<1>2. PICK h : Enumerates(h, n, acts, C) /\ \A i \in 1..n : c[i] = acts[h[i]]
  BY <1>1 DEF Picks
<1>3. IsSeq(c) /\ n \in Nat /\ DOMAIN c = 1..n
  BY <1>1, IsSeqHas DEF Picks
<1>4. back = [i \in 1..n |-> InverseOf(c[n + 1 - i])]
  BY <1>3 DEF Inverses, c
<1> HIDE DEF back, n
<1>5. IsSeq(back) /\ DOMAIN back = 1..n /\ \A i \in 1..n : back[i] = InverseOf(c[n + 1 - i])
  <2>1. \A i \in 1..n : back[i] = InverseOf(c[n + 1 - i])
    BY <1>4
  <2>2. back = [i \in 1..n |-> back[i]]
    BY <1>4
  <2>3. QED
    BY <1>3, <2>1, <2>2, FunctionIsSeq
<1>6. /\ h \in [1..n -> C] /\ \A i, j \in 1..n : i < j => h[i] < h[j]
      /\ \A p \in C : \E i \in 1..n : h[i] = p
  BY <1>2 DEF Enumerates
<1> DEFINE g == [i \in 1..n |-> h[n + 1 - i]]
<1> HIDE DEF C
<1>7. \A i \in 1..n : n + 1 - i \in 1..n /\ n + 1 - (n + 1 - i) = i
  BY <1>3
<1>8. g \in [1..n -> C]
  BY <1>6, <1>7
<1>9. \A i \in 1..n : g[i] = h[n + 1 - i]
  OBVIOUS
<1> HIDE DEF g
<1>10. \A i \in DOMAIN back : back[i] = InverseOf(acts[g[i]])
  BY <1>2, <1>5, <1>7, <1>9
<1>11. \A i, j \in DOMAIN back : i < j => g[j] < g[i]
  <2> SUFFICES ASSUME NEW i \in 1..n, NEW j \in 1..n, i < j PROVE g[j] < g[i]
    BY <1>5
  <2>1. n + 1 - j < n + 1 - i
    BY <1>3
  <2>2. QED
    BY <1>6, <1>7, <1>9, <2>1
<1>12. \A p \in C : \E i \in DOMAIN back : g[i] = p
  <2> SUFFICES ASSUME NEW p \in C PROVE \E i \in 1..n : g[i] = p
    BY <1>5
  <2>1. PICK i \in 1..n : h[i] = p
    BY <1>6
  <2>2. n + 1 - i \in 1..n /\ g[n + 1 - i] = p
    BY <1>7, <1>9, <2>1
  <2>3. QED
    BY <2>2
<1>13. Reverses(back, acts, g)
  BY <1>5, <1>8, <1>10, <1>11, <1>12 DEF Reverses, C
<1>14. QED
  BY <1>13 DEF back

LEMMA InverseOK ==
    ASSUME NEW a, ActionOK(a)
    PROVE  ActionOK(InverseOf(a)) /\ InverseOf(a).dev = a.dev
<1> DEFINE b == InverseOf(a)
<1>1. b = [f \in ActionFields |-> b[f]]
  BY DEF InverseOf, ActionFields
<1>2. /\ b.dev = a.dev /\ b.eff = "change" /\ b.before = a.after /\ b.after = a.restore
      /\ b.verify = a.restore /\ b.cmds = a.undo /\ b.undo = <<>> /\ b.restore = a.after
  BY DEF InverseOf
<1>3. CommandsOK(<<>>, BoundSlots(a.after))
  BY EmptyIs DEF CommandsOK, Balanced
<1> HIDE DEF b
<1>4. ActionOK(b)
  BY <1>1, <1>2, <1>3 DEF ActionOK
<1>5. QED
  BY <1>2, <1>4 DEF b

\* A rollback keeps the inverses, but for those already there.
Kept(now, back) ==
    /\ IsSeq(now) /\ DOMAIN now = DOMAIN back
    /\ \A i \in DOMAIN back :
          /\ ActionOK(now[i]) /\ now[i].dev = back[i].dev
          /\ now[i].after = back[i].after /\ now[i].verify = back[i].verify
          /\ BoundSlots(now[i].before) = BoundSlots(back[i].before)
          /\ MatchProjected(HostOf(back[i].dev), now[i].before,
                            Projection(back, i, AfterVerify(back)))

LEMMA ReconcileIs ==
    ASSUME NEW back, IsSeq(back), \A i \in DOMAIN back : ActionOK(back[i]),
           NEW now, now = reconcile_inverse_sequence(back),
           Refused \notin {now[i] : i \in DOMAIN now}
    PROVE  Kept(now, back)
<1>1. Len(back) \in Nat /\ DOMAIN back = 1..Len(back)
  BY IsSeqHas
<1>2. now = [i \in DOMAIN back |-> now[i]]
  BY DEF reconcile_inverse_sequence
<1>3. IsSeq(now) /\ DOMAIN now = DOMAIN back
  BY <1>1, <1>2, FunctionIsSeq
<1>4. ASSUME NEW i \in DOMAIN back
      PROVE  /\ ActionOK(now[i]) /\ now[i].dev = back[i].dev
             /\ now[i].after = back[i].after /\ now[i].verify = back[i].verify
             /\ BoundSlots(now[i].before) = BoundSlots(back[i].before)
             /\ MatchProjected(HostOf(back[i].dev), now[i].before,
                               Projection(back, i, AfterVerify(back)))
  <2> DEFINE a == back[i]
             h == HostOf(a.dev)
             proj == Projection(back, i, AfterVerify(back))
             b == [a EXCEPT !.eff = "already", !.before = a.after, !.cmds = <<>>]
  <2>1. now[i] # Refused
    BY <1>3
  <2>2. now[i] = IF MatchProjected(h, a.before, proj) THEN a
                 ELSE IF MatchProjected(h, a.after, proj) /\ MatchProjected(h, a.verify, proj)
                 THEN b ELSE Refused
    BY DEF reconcile_inverse_sequence
  <2>3. ActionOK(a)
    OBVIOUS
  <2> HIDE DEF a, h, proj
  <2>4. CASE now[i] = a /\ MatchProjected(h, a.before, proj)
    BY <2>3, <2>4 DEF a, h, proj
  <2>5. CASE now[i] = b /\ MatchProjected(h, a.after, proj)
    <3>1. b = [f \in ActionFields |-> b[f]] /\ b.dev = a.dev /\ b.eff = "already" /\ b.before = a.after
          /\ b.after = a.after /\ b.verify = a.verify /\ b.cmds = <<>> /\ b.undo = a.undo /\ b.restore = a.restore
      BY <2>3 DEF ActionOK, ActionFields
    <3>2. CommandsOK(<<>>, BoundSlots(a.after))
      BY EmptyIs DEF CommandsOK, Balanced
    <3> HIDE DEF b
    <3>3. ActionOK(b)
      BY <2>3, <3>1, <3>2 DEF ActionOK
    <3>4. BoundSlots(b.before) = BoundSlots(a.before)
      BY <2>3, <3>1 DEF ActionOK
    <3>5. QED
      BY <2>5, <3>1, <3>3, <3>4 DEF a, h, proj
  <2>6. QED
    BY <2>1, <2>2, <2>4, <2>5
<1>5. QED
  BY <1>3, <1>4 DEF Kept
-----------------------------------------------------------------------------
(* The inductive invariant *)

TypeInv ==
    /\ cfg = [h \in Host |-> cfg[h]] /\ \A h \in Host : Formed(cfg[h])
    /\ row \in [Dev -> [host : Host, pin : Host \cup {None}]]
    /\ sess \in [Dev -> Host \cup {None, "dead"}]
    /\ depth \in [Dev -> {0, 1}]
    /\ draft \in Drafts
    /\ seen = [h \in Host |-> seen[h]] /\ found = [h \in Host |-> found[h]]
    /\ at \in Nat /\ changed \in BOOLEAN /\ dir \in {"fwd", "undo", "back"}
    /\ pc \in {"prepare", "lock", "exec", "send", "verify", "end"}

PlanInv ==
    /\ IsSeq(plan) /\ \A i \in DOMAIN plan : ActionOK(plan[i])
    /\ pc # "end" => outcome = None
    /\ pc = "prepare" => Len(plan) <= Len(draft) /\ dir = "fwd"
    /\ pc \in {"exec", "send", "verify"} => at >= 1
    /\ pc \in {"send", "verify"} => at <= Len(plan)
    /\ IF pc = "send" THEN CommandsOK(cmds, BoundSlots(Act.before)) ELSE cmds = <<>>

\* A session is open with the host the device is pinned to, and with that only.
SessionInv ==
    /\ pc \in {"prepare", "end"} => \A d \in Dev : sess[d] = None
    /\ \A d \in Dev : sess[d] \in Host => sess[d] = row[d].pin
    /\ \A d, e \in Dev : sess[d] \in Host /\ sess[d] = sess[e] => d = e
    /\ \A i \in DOMAIN plan : row[plan[i].dev].pin \in Host

\* Before a command that counts as a change the routers are as the action found
\* them; a sub-mode is still to be left.
CleanInv ==
    /\ \A d \in Dev : depth[d] # 0 =>
          /\ pc = "send" /\ d = Act.dev /\ sess[d] \in Host
          /\ \E i \in DOMAIN cmds : cmds[i].c = "exit"
    /\ pc = "send" /\ ~changed =>
          \A d \in Dev : sess[d] \in Host => cfg[sess[d]] = start[sess[d]] /\ depth[d] = 0

\* Before the locks: a value seen is what the first action to bind it expects.
Expects(i, h, s) ==
    /\ row[plan[i].dev].pin = h
    /\ \E k \in DOMAIN plan[i].before :
          /\ s \in KeySlots(k) /\ seen[h][s] = Bound(k, plan[i].before[k], s)
          /\ \A m \in 1..(i - 1) : plan[m].dev = plan[i].dev => k \notin DOMAIN plan[m].after
PreviewInv ==
    pc \in {"prepare", "lock"} =>
        /\ \A i \in DOMAIN plan : BoundSlots(plan[i].before) \subseteq DOMAIN seen[row[plan[i].dev].pin]
        /\ \A h \in Host : \A s \in DOMAIN seen[h] \cap Guarded :
              \E i \in DOMAIN plan : Expects(i, h, s)

\* Under the locks: every slot the plan binds is as it was seen or written.
SyncInv ==
    pc \in {"exec", "send", "verify"} =>
        \A i \in DOMAIN plan : LET h == sess[plan[i].dev] IN
            h \in Host => \A s \in BoundSlots(plan[i].before) \cap Guarded :
                s \in DOMAIN seen[h] /\ seen[h][s] = ValueAt(cfg[h], s)

\* The changes of the plan, those the forward run has begun, and those of them
\* that may have written.
Changing == {i \in DOMAIN plan : plan[i].eff = "change"}
Begun == {i \in Changing : i < at \/ (i = at /\ pc \in {"send", "verify"})}
Wrote == {i \in Begun : i = at => changed}

Binding(acts, A, d, s) == {i \in A : acts[i].dev = d /\ s \in BoundSlots(acts[i].before)}

\* The first of the actions A of device d to bind s expects the value v.
FirstExpects(acts, A, d, s, v) ==
    \A i \in Binding(acts, A, d, s) :
        (\A j \in Binding(acts, A, d, s) : i <= j) =>
            \A k \in DOMAIN acts[i].before :
                s \in KeySlots(k) => Bound(k, acts[i].before[k], s) = v

Orig(h, s) == IF s \in DOMAIN found[h] THEN found[h][s] ELSE ValueAt(cfg[h], s)

ForwardInv ==
    dir = "fwd" =>
        /\ \A i \in Changing : Undoes(plan[i])
        /\ pc \in {"prepare", "lock"} => \A h \in Host : DOMAIN found[h] = {}
        /\ pc \in {"send", "verify"} => at \in Changing
        /\ pc \in {"exec", "send", "verify"} => \A d \in Dev : sess[d] \in Host =>
              /\ \A s \in DOMAIN found[sess[d]] : Binding(plan, Wrote, d, s) # {}
              /\ \A s \in Guarded : FirstExpects(plan, Begun, d, s, Orig(sess[d], s))
        /\ outcome = "succeeded" => \A d \in Targets :
              \A s \in DOMAIN found[row[d].pin] :
                 /\ Binding(plan, Changing, d, s) # {}
                 /\ s \in Guarded => FirstExpects(plan, Changing, d, s, found[row[d].pin][s])

\* The last of the actions of device d to bind s, m, restores the value v.
Restores(acts, m, d, s, v) ==
    /\ acts[m].dev = d
    /\ \E k \in DOMAIN acts[m].verify : s \in KeySlots(k) /\ Bound(k, acts[m].verify[k], s) = v
    /\ \A j \in DOMAIN acts : j > m /\ acts[j].dev = d => s \notin BoundSlots(acts[j].before)

BackwardInv ==
    dir # "fwd" /\ pc # "end" =>
        /\ \A i \in DOMAIN plan : plan[i].after = plan[i].verify
        /\ dir = "undo" => pc \notin {"prepare", "lock"} /\ \A i \in DOMAIN plan : plan[i].eff = "change"
        /\ dir = "undo" => \A d \in Dev : sess[d] \in Host =>
              \A s \in DOMAIN found[sess[d]] \cap Guarded : \E m \in DOMAIN plan :
                 /\ Restores(plan, m, d, s, found[sess[d]][s])
                 /\ at > m => ValueAt(cfg[sess[d]], s) = found[sess[d]][s]
        /\ dir = "back" =>
              /\ \A d \in Dev : sess[d] \in Host => d \in Targets
              /\ \A d \in Targets : \A s \in DOMAIN found[row[d].pin] \cap Guarded :
                    \E m \in DOMAIN plan : Restores(plan, m, d, s, found[row[d].pin][s])
-----------------------------------------------------------------------------
(* Types, plans and sessions *)

Inv1 == TypeInv /\ PlanInv /\ SessionInv

\* What a step leaves well formed.
Frame ==
    /\ cfg' = [h \in Host |-> cfg'[h]] /\ \A h \in Host : Formed(cfg'[h])
    /\ row' \in [Dev -> [host : Host, pin : Host \cup {None}]]
    /\ \A d \in Dev : row[d].pin \in Host => row'[d].pin = row[d].pin
    /\ draft' = draft
    /\ seen' = [h \in Host |-> seen'[h]] /\ found' = [h \in Host |-> found'[h]]
    /\ changed' \in BOOLEAN

LEMMA ApplyFormed ==
    ASSUME NEW c, Formed(c), NEW x, CommandOK(x)
    PROVE  Formed(Apply(c, x))
<1> DEFINE a == Apply(c, x)
<1>1. CASE x.c = "set" /\ x.f \in Fields \ {"list"}
  <2>1. a = [c EXCEPT ![x.f] = x.v]
    BY <1>1 DEF Apply
  <2> HIDE DEF a
  <2>2. a = [f \in Fields |-> a[f]] /\ a.list = c.list
    BY <1>1, <2>1 DEF Formed, Fields
  <2>3. Formed(a)
    BY <2>2 DEF Formed
  <2>4. QED
    BY <2>3 DEF a
<1>2. CASE x.c = "add" /\ x.n \in Lists /\ x.s \in MIN_SEQ..MAX_SEQ
  <2> DEFINE l == AfterAdd(AfterRemove(c.list[x.n], x.s), x.s, x.r)
             m == [c.list EXCEPT ![x.n] = l]
  <2>1. a = [c EXCEPT !.list = m]
    BY <1>2 DEF Apply
  <2>2. ListOK(c.list[x.n])
    BY <1>2 DEF Formed
  <2>3. AfterRemove(c.list[x.n], x.s) \subseteq c.list[x.n]
    BY DEF AfterRemove
  <2>4. ListOK(l)
    BY <1>2, <2>2, <2>3, SubListOK, AfterAddOK
  <2> HIDE DEF l
  <2>5. m = [n \in Lists |-> m[n]] /\ \A n \in Lists : m[n] = IF n = x.n THEN l ELSE c.list[n]
    BY <1>2 DEF Formed
  <2> HIDE DEF a, m
  <2>6. a = [f \in Fields |-> a[f]] /\ a.list = m
    BY <2>1 DEF Formed, Fields
  <2>7. Formed(a)
    BY <2>4, <2>5, <2>6 DEF Formed
  <2>8. QED
    BY <2>7 DEF a
<1>3. CASE x.c = "del" /\ x.n \in Lists
  <2> DEFINE l == c.list[x.n] \ {Permit(x.s, x.r)}
             m == [c.list EXCEPT ![x.n] = l]
  <2>1. a = [c EXCEPT !.list = m]
    BY <1>3 DEF Apply
  <2>2. ListOK(c.list[x.n]) /\ l \subseteq c.list[x.n]
    BY <1>3 DEF Formed
  <2>4. ListOK(l)
    BY <2>2, SubListOK
  <2> HIDE DEF l
  <2>5. m = [n \in Lists |-> m[n]] /\ \A n \in Lists : m[n] = IF n = x.n THEN l ELSE c.list[n]
    BY <1>3 DEF Formed
  <2> HIDE DEF a, m
  <2>6. a = [f \in Fields |-> a[f]] /\ a.list = m
    BY <2>1 DEF Formed, Fields
  <2>7. Formed(a)
    BY <2>4, <2>5, <2>6 DEF Formed
  <2>8. QED
    BY <2>7 DEF a
<1>4. CASE x.c \in {"sub", "exit", "clear"}
  BY <1>4 DEF Apply
<1>5. QED
  BY <1>1, <1>2, <1>3, <1>4 DEF CommandOK

LEMMA ConfigsFormed ==
    ASSUME NEW c \in Configs
    PROVE  Formed(c)
<1>1. c \in Config /\ \A n \in Lists : IsFiniteSet(c.list[n])
  BY DevicePlanAssumption
<1>2. c = [f \in Fields |-> c[f]] /\ c.list = [n \in Lists |-> c.list[n]]
  BY <1>1 DEF Config, Fields
<1>3. \A n \in Lists : \A e \in c.list[n] : e.seq \in MIN_SEQ..MAX_SEQ
  BY <1>1 DEF Config
<1>4. QED
  BY <1>1, <1>2, <1>3 DEF Formed, ListOK, Sequenced

LEMMA Inv1Init ==
    ASSUME Init PROVE Inv1
<1>1. None \notin Host /\ \A d \in Dev : Home[d] \in Host
  BY DevicePlanAssumption
<1>2. cfg = [h \in Host |-> cfg[h]] /\ \A h \in Host : Formed(cfg[h])
  <2>1. cfg \in [Host -> Configs]
    BY DevicePlanAssumption DEF Init
  <2>2. QED
    BY <2>1, ConfigsFormed
<1>3. row \in [Dev -> [host : Host, pin : Host \cup {None}]]
  BY <1>1 DEF Init
<1>4. TypeInv
  BY <1>2, <1>3 DEF Init, TypeInv, None
<1>5. PlanInv
  <2>1. Len(draft) \in Nat
    BY DevicePlanAssumption DEF Init
  <2>2. plan = <<>> /\ IsSeq(plan) /\ Len(plan) = 0 /\ DOMAIN plan = {}
    BY EmptyIs DEF Init
  <2>3. QED
    BY <2>1, <2>2 DEF Init, PlanInv
<1>6. SessionInv
  <2>1. DOMAIN plan = {}
    BY DEF Init
  <2>2. QED
    BY <1>1, <2>1 DEF Init, SessionInv, None
<1>7. QED
  BY <1>4, <1>5, <1>6 DEF Inv1

\* Pins stay.
LEMMA PinsStay ==
    ASSUME Inv1, Frame, plan' = plan
    PROVE  /\ IsSeq(plan') /\ \A i \in DOMAIN plan' : ActionOK(plan'[i])
           /\ \A i \in DOMAIN plan' : row'[plan'[i].dev].pin \in Host
BY DEF Inv1, PlanInv, SessionInv, Frame, ActionOK

LEMMA StopKeeps ==
    ASSUME Inv1, NEW v, Stop(v), Frame, plan' = plan, at' \in Nat, dir' \in {"fwd", "undo", "back"}
    PROVE  Inv1'
<1>1. None \notin Host
  BY DevicePlanAssumption
<1>2. pc' = "end" /\ cmds' = <<>> /\ (\A d \in Dev : sess'[d] = None)
      /\ sess' = [d \in Dev |-> None] /\ depth' = [d \in Dev |-> 0]
  BY DEF Stop, None
<1>3. TypeInv'
  BY <1>2 DEF TypeInv, Frame, Inv1
<1>4. PlanInv'
  BY <1>2, PinsStay DEF PlanInv
<1>5. SessionInv'
  BY <1>1, <1>2, PinsStay DEF SessionInv
<1>6. QED
  BY <1>3, <1>4, <1>5 DEF Inv1

LEMMA BackOK ==
    ASSUME NEW acts, IsSeq(acts), \A i \in DOMAIN acts : ActionOK(acts[i])
    PROVE  /\ IsSeq(Inverses(acts))
           /\ \A i \in DOMAIN Inverses(acts) :
                 /\ ActionOK(Inverses(acts)[i])
                 /\ \E j \in DOMAIN acts : Inverses(acts)[i].dev = acts[j].dev
<1> DEFINE back == Inverses(acts)
<1>1. PICK g : Reverses(back, acts, g)
  BY InversesAre
<1> HIDE DEF back
<1>2. ASSUME NEW i \in DOMAIN back
      PROVE  ActionOK(back[i]) /\ \E j \in DOMAIN acts : back[i].dev = acts[j].dev
  <2>1. g[i] \in DOMAIN acts /\ back[i] = InverseOf(acts[g[i]])
    BY <1>1 DEF Reverses
  <2>2. QED
    BY <2>1, InverseOK
<1>3. IsSeq(back)
  BY <1>1 DEF Reverses
<1>4. QED
  BY <1>2, <1>3 DEF back

LEMMA UndoOK ==
    ASSUME Inv1, at \in 1..Len(plan), NEW back, back = Inverses(SubSeq(plan, 1, at - 1))
    PROVE  /\ IsSeq(back)
           /\ \A i \in DOMAIN back : ActionOK(back[i]) /\ row[back[i].dev].pin \in Host
<1> DEFINE acts == SubSeq(plan, 1, at - 1)
<1>1. IsSeq(plan) /\ (\A i \in DOMAIN plan : ActionOK(plan[i]) /\ row[plan[i].dev].pin \in Host)
  BY DEF Inv1, PlanInv, SessionInv
<1>2. Len(plan) \in Nat /\ DOMAIN plan = 1..Len(plan)
  BY <1>1, IsSeqHas
<1>3. at - 1 \in Nat /\ at - 1 <= Len(plan)
  BY <1>2
<1>4. IsSeq(acts) /\ \A i \in DOMAIN acts : i \in DOMAIN plan /\ acts[i] = plan[i]
  BY <1>1, <1>2, <1>3, PrefixIs
<1>5. back = Inverses(acts)
  OBVIOUS
<1> HIDE DEF acts
<1>7. \A i \in DOMAIN acts : ActionOK(acts[i])
  BY <1>1, <1>4
<1>8. IsSeq(back) /\ \A i \in DOMAIN back : ActionOK(back[i]) /\ \E j \in DOMAIN acts : back[i].dev = acts[j].dev
  BY <1>4, <1>5, <1>7, BackOK
<1>9. QED
  BY <1>1, <1>4, <1>8

LEMMA NoEffectKeeps ==
    ASSUME Inv1, NoEffect, Frame, at \in 1..Len(plan), pc # "end"
    PROVE  Inv1'
<1> DEFINE back == Inverses(SubSeq(plan, 1, at - 1))
           to == IF dir = "fwd" THEN "aborted" ELSE "blocked"
<1>1. \/ Stop(to) /\ UNCHANGED <<plan, dir, at>>
      \/ /\ plan' = back /\ dir' = "undo" /\ at' = 1 /\ pc' = "exec" /\ cmds' = <<>>
         /\ outcome' = outcome /\ sess' = sess /\ depth' = depth
  BY DEF NoEffect, Running
<1>2. CASE Stop(to) /\ UNCHANGED <<plan, dir, at>>
  <2>1. at' \in Nat /\ dir' \in {"fwd", "undo", "back"}
    BY <1>2 DEF Inv1, TypeInv
  <2>2. QED
    BY <1>2, <2>1, StopKeeps
<1>3. CASE /\ plan' = back /\ dir' = "undo" /\ at' = 1 /\ pc' = "exec" /\ cmds' = <<>>
           /\ outcome' = outcome /\ sess' = sess /\ depth' = depth
  <2>1. IsSeq(back) /\ \A i \in DOMAIN back : ActionOK(back[i]) /\ row[back[i].dev].pin \in Host
    BY UndoOK
  <2> HIDE DEF back
  <2>2. TypeInv'
    BY <1>3 DEF TypeInv, Inv1, Frame
  <2>3. PlanInv'
    BY <1>3, <2>1 DEF PlanInv, Inv1
  <2>4. SessionInv'
    <3>1. \A i \in DOMAIN back : row'[back[i].dev].pin \in Host
      BY <2>1 DEF Frame, ActionOK
    <3>2. \A d \in Dev : sess'[d] \in Host => sess'[d] = row'[d].pin
      BY <1>3 DEF SessionInv, Inv1, Frame
    <3>3. QED
      BY <1>3, <3>1, <3>2 DEF SessionInv, Inv1
  <2>5. QED
    BY <2>2, <2>3, <2>4 DEF Inv1
<1>4. QED
  BY <1>1, <1>2, <1>3

LEMMA UnknownKeeps ==
    ASSUME Inv1, Unknown, Frame
    PROVE  Inv1'
<1>1. Stop("blocked") /\ plan' = plan /\ at' \in Nat /\ dir' \in {"fwd", "undo", "back"}
  BY DEF Unknown, Inv1, TypeInv
<1>2. QED
  BY <1>1, StopKeeps

\* A step that leaves the plan, the sessions and the sub-modes alone.
LEMMA SamePlanKeeps ==
    ASSUME Inv1, Frame, plan' = plan, sess' = sess, depth' \in [Dev -> {0, 1}], dir' = dir,
           outcome' = outcome, at' \in Nat,
           pc' \in {"lock", "exec", "send", "verify"}, pc # "end",
           pc' \in {"exec", "send", "verify"} => at' >= 1,
           pc' \in {"send", "verify"} => at' <= Len(plan),
           IF pc' = "send" THEN CommandsOK(cmds', BoundSlots(plan[at'].before)) ELSE cmds' = <<>>
    PROVE  Inv1'
<1>1. TypeInv'
  BY DEF TypeInv, Inv1, Frame
<1>2. PlanInv'
  BY PinsStay DEF PlanInv, Inv1, Act
<1>3. SessionInv'
  <2>1. \A d \in Dev : sess'[d] \in Host => sess'[d] = row'[d].pin
    BY DEF SessionInv, Inv1, Frame
  <2>2. QED
    BY PinsStay, <2>1 DEF SessionInv, Inv1
<1>4. QED
  BY <1>1, <1>2, <1>3 DEF Inv1

LEMMA ProceedKeeps ==
    ASSUME Inv1, Proceed, Frame, at \in 1..Len(plan), pc # "end"
    PROVE  Inv1'
<1>1. /\ plan' = plan /\ sess' = sess /\ depth' = depth /\ dir' = dir /\ outcome' = outcome
      /\ at' = at + 1 /\ pc' = "exec" /\ cmds' = <<>>
  BY DEF Proceed, Running
<1>2. at \in Nat /\ depth \in [Dev -> {0, 1}]
  BY DEF Inv1, TypeInv
<1>3. QED
  BY <1>1, <1>2, SamePlanKeeps

\* The draft being prepared, the host it is read from, and what the device's
\* earlier actions leave.
Draft == draft[Len(plan) + 1]
DraftHost == row[Draft.dev].host
DraftProj == Projection(Append(plan, [dev |-> Draft.dev]), Len(plan) + 1, After(plan))

PrepareStep(p) ==
    /\ PreparedOK(p, Draft, DraftHost, DraftProj)
    /\ plan' = Append(plan, p)
    /\ seen' = [seen EXCEPT ![DraftHost] = Over(@, ValuesAt(cfg[DraftHost], BoundSlots(p.before)))]
    /\ outcome' = outcome /\ sess' = sess /\ depth' = depth /\ pc' = pc /\ cmds' = cmds

PrepareFrame ==
    /\ pc = "prepare" /\ Draft.dev \in Dev /\ DraftHost \in Host
    /\ row[Draft.dev].pin \in {None, DraftHost}
    /\ row' = [row EXCEPT ![Draft.dev].pin = DraftHost]
    /\ Len(plan) < Len(draft) /\ Len(draft) \in Nat
    /\ UNCHANGED <<cfg, oper, ids, draft, dir, at, changed, found, start, edits>>

LEMMA PrepareActions ==
    ASSUME Inv1, prepare_actions
    PROVE  /\ PrepareFrame
           /\ \/ Stop("refused") /\ UNCHANGED <<plan, seen>>
              \/ \E p : PrepareStep(p)
<1> DEFINE a == Draft
           h == DraftHost
           acts == Append(plan, [dev |-> a.dev])
           proj == Projection(acts, Len(acts), After(plan))
<1>1. /\ draft \in Drafts /\ IsSeq(plan) /\ (\A i \in DOMAIN plan : ActionOK(plan[i]))
      /\ row \in [Dev -> [host : Host, pin : Host \cup {None}]]
      /\ \A x \in Host : Formed(cfg[x])
  BY DEF Inv1, TypeInv, PlanInv
<1>2. /\ pc = "prepare" /\ Len(plan) < Len(draft) /\ Reachable(a.dev) /\ persist_tofu(a.dev)
      /\ UNCHANGED <<cfg, oper, ids, draft, dir, at, changed, found, start, edits>>
  BY DEF prepare_actions, Draft
<1>3. Len(plan) \in Nat /\ DOMAIN plan = 1..Len(plan)
  BY <1>1, IsSeqHas
<1>4. /\ Len(draft) \in Nat /\ DOMAIN draft = 1..Len(draft)
      /\ \A i \in DOMAIN draft :
            /\ draft[i].dev \in Dev /\ draft[i].kind \in Kinds
            /\ draft[i].kind \in {"add", "remove"} => draft[i].list \in Lists /\ draft[i].route \in Routes
  BY <1>1, DevicePlanAssumption
<1>5. /\ a.dev \in Dev /\ a.kind \in Kinds
      /\ a.kind \in {"add", "remove"} => a.list \in Lists /\ a.route \in Routes
  BY <1>2, <1>3, <1>4 DEF Draft
<1>6. h \in Host /\ row[a.dev].pin \in {None, h} /\ row' = [row EXCEPT ![a.dev].pin = h]
  BY <1>1, <1>2, <1>5 DEF DraftHost, Reachable, persist_tofu
<1>7. PrepareFrame
  BY <1>2, <1>4, <1>5, <1>6 DEF PrepareFrame
<1>8. IsSeq(acts) /\ Len(acts) = Len(plan) + 1
  BY <1>1, AppendIs
<1>9. proj = DraftProj
  BY <1>8 DEF DraftProj
<1>10. SnapOK(proj)
  <2> DEFINE left == After(plan)
             i == Len(plan) + 1
  <2>1. \A j \in DOMAIN plan : left[j] = plan[j].after
    BY DEF After
  <2> HIDE DEF left, acts
  <2>2. \A k \in DOMAIN Projection(acts, i, left) : \E j \in 1..(i - 1) :
           k \in DOMAIN left[j] /\ Projection(acts, i, left)[k] = left[j][k]
    BY <1>3, ProjectionHas
  <2>3. SnapOK(Projection(acts, i, left))
    <3> SUFFICES ASSUME NEW k \in DOMAIN Projection(acts, i, left)
                 PROVE  ValueOK(k, Projection(acts, i, left)[k])
      BY DEF SnapOK
    <3>1. PICK j \in 1..(i - 1) : k \in DOMAIN left[j] /\ Projection(acts, i, left)[k] = left[j][k]
      BY <2>2
    <3>2. j \in DOMAIN plan /\ left[j] = plan[j].after /\ SnapOK(plan[j].after)
      BY <1>1, <1>3, <2>1 DEF ActionOK
    <3>3. QED
      BY <3>1, <3>2 DEF SnapOK
  <2>4. QED
    BY <1>8, <2>3 DEF left
<1>11. PICK cut \in BOOLEAN :
         LET p == PrepareAction(a, h, proj, cut) IN
         IF p = Refused
         THEN Stop("refused") /\ UNCHANGED <<plan, seen>>
         ELSE /\ plan' = Append(plan, p)
              /\ seen' = [seen EXCEPT ![h] = Over(@, ValuesAt(cfg[h], BoundSlots(p.before)))]
              /\ Running /\ UNCHANGED <<pc, cmds>>
  BY DEF prepare_actions, Draft, DraftHost
<1> DEFINE p == PrepareAction(a, h, proj, cut)
<1> HIDE DEF proj, acts
<1>12. CASE p = Refused
  BY <1>7, <1>11, <1>12
<1>13. CASE p # Refused
  <2>1. PreparedOK(p, a, h, proj)
    BY <1>1, <1>5, <1>6, <1>10, <1>13, PrepareActionIs
  <2>2. /\ plan' = Append(plan, p)
        /\ seen' = [seen EXCEPT ![h] = Over(@, ValuesAt(cfg[h], BoundSlots(p.before)))]
        /\ Running /\ UNCHANGED <<pc, cmds>>
    BY <1>11, <1>13
  <2> HIDE DEF p
  <2>3. PrepareStep(p)
    BY <1>9, <2>1, <2>2 DEF PrepareStep, Running
  <2>4. QED
    BY <1>7, <2>3
<1>14. QED
  BY <1>12, <1>13

LEMMA Inv1Prepare ==
    ASSUME Inv1, prepare_actions
    PROVE  Inv1'
<1>1. PrepareFrame
  BY PrepareActions
<1>2. /\ row \in [Dev -> [host : Host, pin : Host \cup {None}]]
      /\ row' \in [Dev -> [host : Host, pin : Host \cup {None}]]
      /\ row'[Draft.dev].pin = DraftHost
      /\ \A d \in Dev : row[d].pin \in Host => row'[d].pin = row[d].pin
  <2>1. row \in [Dev -> [host : Host, pin : Host \cup {None}]]
    BY DEF Inv1, TypeInv
  <2>2. None \notin Host
    BY DevicePlanAssumption
  <2>3. QED
    BY <1>1, <2>1, <2>2 DEF PrepareFrame
<1>3. CASE Stop("refused") /\ UNCHANGED <<plan, seen>>
  <2>1. Frame /\ at' \in Nat /\ dir' \in {"fwd", "undo", "back"}
    BY <1>1, <1>2, <1>3 DEF Frame, PrepareFrame, Inv1, TypeInv
  <2>2. QED
    BY <1>3, <2>1, StopKeeps
<1>4. ASSUME NEW p, PrepareStep(p) PROVE Inv1'
  <2>1. IsSeq(plan) /\ (\A i \in DOMAIN plan : ActionOK(plan[i]))
        /\ (\A i \in DOMAIN plan : row[plan[i].dev].pin \in Host)
        /\ seen = [h \in Host |-> seen[h]]
    BY DEF Inv1, TypeInv, PlanInv, SessionInv
  <2>2. Len(plan) \in Nat /\ DOMAIN plan = 1..Len(plan)
    BY <2>1, IsSeqHas
  <2>3. ActionOK(p) /\ p.dev = Draft.dev
    BY <1>4 DEF PrepareStep, PreparedOK
  <2>4. /\ IsSeq(plan') /\ Len(plan') = Len(plan) + 1 /\ DOMAIN plan' = 1..(Len(plan) + 1)
        /\ \A i \in DOMAIN plan' : (i \in DOMAIN plan /\ plan'[i] = plan[i]) \/ plan'[i] = p
    <3>1. plan' = Append(plan, p)
      BY <1>4 DEF PrepareStep
    <3>2. IsSeq(plan') /\ Len(plan') = Len(plan) + 1 /\ plan'[Len(plan) + 1] = p
          /\ \A i \in 1..Len(plan) : plan'[i] = plan[i]
      BY <2>1, <3>1, AppendIs
    <3>3. DOMAIN plan' = 1..(Len(plan) + 1)
      BY <3>2, IsSeqHas
    <3>4. QED
      BY <2>2, <3>2, <3>3
  <2>5. \A i \in DOMAIN plan' : ActionOK(plan'[i]) /\ row'[plan'[i].dev].pin \in Host
    <3> SUFFICES ASSUME NEW i \in DOMAIN plan'
                 PROVE  ActionOK(plan'[i]) /\ row'[plan'[i].dev].pin \in Host
      OBVIOUS
    <3>1. CASE i \in DOMAIN plan /\ plan'[i] = plan[i]
      <4>1. plan[i].dev \in Dev
        BY <2>1, <3>1 DEF ActionOK
      <4>2. QED
        BY <1>2, <2>1, <3>1, <4>1
    <3>2. CASE plan'[i] = p
      BY <1>1, <1>2, <2>3, <3>2 DEF PrepareFrame
    <3>3. QED
      BY <2>4, <3>1, <3>2
  <2>6. TypeInv'
    <3>1. seen' = [h \in Host |-> seen'[h]]
      BY <1>4, <2>1 DEF PrepareStep
    <3>2. QED
      BY <1>1, <1>2, <1>4, <3>1 DEF PrepareStep, PrepareFrame, Inv1, TypeInv
  <2>7. PlanInv'
    BY <1>1, <1>4, <2>2, <2>4, <2>5 DEF PlanInv, Inv1, PrepareStep, PrepareFrame
  <2>8. SessionInv'
    BY <1>1, <1>2, <1>4, <2>5 DEF SessionInv, Inv1, PrepareStep, PrepareFrame
  <2>9. QED
    BY <2>6, <2>7, <2>8 DEF Inv1
<1>5. QED
  BY <1>3, <1>4, PrepareActions

LEMMA FrameSame ==
    ASSUME Inv1, UNCHANGED <<cfg, row, draft, seen, found>>, changed' \in BOOLEAN
    PROVE  Frame
BY DEF Frame, Inv1, TypeInv

LEMMA Inv1Inspect ==
    ASSUME Inv1, inspect_actions
    PROVE  Inv1'
<1>1. Frame /\ at' = at /\ at \in Nat /\ dir' = dir /\ plan' = plan /\ dir \in {"fwd", "undo", "back"}
      /\ depth \in [Dev -> {0, 1}] /\ cmds = <<>> /\ pc = "prepare"
  BY FrameSame DEF inspect_actions, history, Inv1, TypeInv, PlanInv
<1>2. CASE Stop("refused")
  BY <1>1, <1>2, StopKeeps
<1>3. CASE pc' = "lock" /\ Running /\ cmds' = cmds
  BY <1>1, <1>3, SamePlanKeeps DEF Running
<1>4. QED
  BY <1>2, <1>3 DEF inspect_actions

LEMMA Inv1PrepareFails ==
    ASSUME Inv1, PrepareFails
    PROVE  Inv1'
<1>1. Frame /\ at' = at /\ at \in Nat /\ dir' = dir /\ plan' = plan /\ dir \in {"fwd", "undo", "back"}
      /\ Stop("refused")
  BY FrameSame DEF PrepareFails, history, Inv1, TypeInv
<1>2. QED
  BY <1>1, StopKeeps

\* The next device in lock order, and the session opened with it.
Locks(d) ==
    /\ d \in Targets /\ d \in Dev /\ sess[d] = None /\ row[d].pin = row[d].host /\ row[d].host \in Host
    /\ \A e \in Dev : sess[e] # row[d].host
    /\ sess' = [sess EXCEPT ![d] = row[d].host]
    /\ UNCHANGED <<pc, outcome, cmds, depth>>

LEMMA Acquires ==
    ASSUME Inv1, acquire
    PROVE  Stop("failed") \/ \E d : Locks(d)
<1>1. \A x \in Targets : x \in Dev
  BY DEF Inv1, PlanInv, ActionOK, Targets
<1>2. Unlocked \subseteq Targets /\ \A x \in Unlocked : sess[x] = None
  BY DEF Unlocked, None
<1>3. Unlocked \subseteq Nat /\ Unlocked # {}
  BY <1>1, <1>2, DevicePlanAssumption DEF acquire
<1>4. PICK x \in Unlocked : \A y \in Unlocked : x <= y
  BY <1>3, LeastExists
<1> DEFINE d == CHOOSE e \in Unlocked : \A y \in Unlocked : e <= y
<1>5. d \in Unlocked
  BY <1>4
<1>6. Stop("failed") \/ (/\ row[d].pin = row[d].host /\ ~Locked(row[d].host)
                         /\ sess' = [sess EXCEPT ![d] = row[d].host]
                         /\ UNCHANGED <<pc, outcome, cmds, depth>>)
  BY DEF acquire
<1> HIDE DEF d
<1>7. d \in Dev /\ d \in Targets /\ sess[d] = None /\ row[d].host \in Host
  BY <1>1, <1>2, <1>5 DEF Inv1, TypeInv
<1>8. QED
  BY <1>6, <1>7 DEF Locks, Locked

LEMMA Inv1Acquire ==
    ASSUME Inv1, acquire
    PROVE  Inv1'
<1>1. Frame /\ at' = at /\ at \in Nat /\ dir' = dir /\ plan' = plan /\ dir \in {"fwd", "undo", "back"}
      /\ row' = row /\ pc = "lock"
  BY FrameSame DEF acquire, history, Inv1, TypeInv
<1>2. CASE Stop("failed")
  BY <1>1, <1>2, StopKeeps
<1>3. ASSUME NEW d, Locks(d) PROVE Inv1'
  <2>1. TypeInv'
    BY <1>1, <1>3 DEF Locks, TypeInv, Inv1, Frame
  <2>2. PlanInv'
    BY <1>1, <1>3, PinsStay DEF Locks, PlanInv, Inv1
  <2>3. SessionInv'
    <3>1. \A e \in Dev : sess'[e] = IF e = d THEN row[d].host ELSE sess[e]
      BY <1>3 DEF Locks, Inv1, TypeInv
    <3>2. \A e \in Dev : sess'[e] \in Host => sess'[e] = row'[e].pin
      BY <1>1, <1>3, <3>1 DEF Locks, Inv1, SessionInv
    <3>3. \A e, f \in Dev : sess'[e] \in Host /\ sess'[e] = sess'[f] => e = f
      BY <1>3, <3>1 DEF Locks, Inv1, SessionInv
    <3>4. pc' \notin {"prepare", "end"}
      BY <1>1, <1>3 DEF Locks
    <3>5. QED
      BY <1>1, <3>2, <3>3, <3>4, PinsStay DEF SessionInv
  <2>4. QED
    BY <2>1, <2>2, <2>3 DEF Inv1
<1>4. QED
  BY <1>2, <1>3, Acquires

LEMMA Inv1AcquireFails ==
    ASSUME Inv1, AcquireFails
    PROVE  Inv1'
<1>1. Frame /\ at' = at /\ at \in Nat /\ dir' = dir /\ plan' = plan /\ dir \in {"fwd", "undo", "back"}
      /\ Stop("failed")
  BY FrameSame DEF AcquireFails, history, Inv1, TypeInv
<1>2. QED
  BY <1>1, StopKeeps

LEMMA Inv1Preflight ==
    ASSUME Inv1, Preflight
    PROVE  Inv1'
<1>1. Frame /\ at \in Nat /\ dir' = dir /\ plan' = plan /\ dir \in {"fwd", "undo", "back"}
      /\ depth \in [Dev -> {0, 1}] /\ cmds = <<>> /\ pc = "lock"
  BY FrameSame DEF Preflight, history, Inv1, TypeInv, PlanInv
<1>2. CASE Stop("failed") /\ at' = at
  BY <1>1, <1>2, StopKeeps
<1>3. CASE pc' = "exec" /\ at' = 1 /\ Running /\ cmds' = cmds
  BY <1>1, <1>3, SamePlanKeeps DEF Running
<1>4. QED
  BY <1>2, <1>3 DEF Preflight

LEMMA BusyAt ==
    ASSUME Inv1, Busy \/ pc \in {"send", "verify"}
    PROVE  at \in 1..Len(plan) /\ at \in DOMAIN plan /\ Act.dev \in Dev /\ ActionOK(Act)
<1>1. IsSeq(plan) /\ at \in Nat /\ at >= 1 /\ at <= Len(plan)
  BY DEF Inv1, TypeInv, PlanInv, Busy
<1>2. Len(plan) \in Nat /\ DOMAIN plan = 1..Len(plan)
  BY <1>1, IsSeqHas
<1>3. at \in DOMAIN plan
  BY <1>1, <1>2
<1>4. QED
  BY <1>2, <1>3 DEF Inv1, PlanInv, Act, ActionOK

LEMMA Inv1Execute ==
    ASSUME Inv1, execute_prepared
    PROVE  Inv1'
<1>1. Frame /\ pc = "exec" /\ Busy
  BY FrameSame DEF execute_prepared, Busy
<1>2. at \in 1..Len(plan) /\ ActionOK(Act)
  BY <1>1, BusyAt
<1>3. CASE Unknown
  BY <1>1, <1>3, UnknownKeeps
<1>4. CASE NoEffect
  BY <1>1, <1>2, <1>4, NoEffectKeeps
<1>5. CASE Proceed
  BY <1>1, <1>2, <1>5, ProceedKeeps
<1>6. CASE /\ pc' = "send" /\ cmds' = Act.cmds
           /\ Running /\ UNCHANGED <<plan, dir, at>>
  <2>1. CommandsOK(cmds', BoundSlots(plan[at'].before))
    BY <1>2, <1>6 DEF ActionOK, Act
  <2>2. at \in Nat /\ depth \in [Dev -> {0, 1}]
    BY DEF Inv1, TypeInv
  <2>3. QED
    BY <1>1, <1>2, <1>6, <2>1, <2>2, SamePlanKeeps DEF Running
<1>7. QED
  BY <1>3, <1>4, <1>5, <1>6 DEF execute_prepared

LEMMA Inv1ReadFails ==
    ASSUME Inv1, ReadFails
    PROVE  Inv1'
<1>1. Frame /\ Unknown
  BY FrameSame DEF ReadFails, history, Inv1, TypeInv
<1>2. QED
  BY <1>1, UnknownKeeps

LEMMA TailOK ==
    ASSUME NEW cs, NEW slots, CommandsOK(cs, slots), cs # <<>>
    PROVE  /\ CommandsOK(Tail(cs), slots) /\ Sent(Head(cs), slots)
           /\ Len(cs) = 1 => Tail(cs) = <<>>
           /\ Head(cs) = cs[1] /\ 1 \in DOMAIN cs /\ Len(cs) \in Nat /\ DOMAIN cs = 1..Len(cs)
           /\ \A i \in DOMAIN cs : i # 1 => i - 1 \in DOMAIN Tail(cs) /\ Tail(cs)[i - 1] = cs[i]
<1> DEFINE t == Tail(cs)
<1>1. IsSeq(cs) /\ Balanced(cs) /\ \A i \in DOMAIN cs : Sent(cs[i], slots)
  BY DEF CommandsOK
<1>2. Len(cs) \in Nat /\ DOMAIN cs = 1..Len(cs)
  BY <1>1, IsSeqHas
<1>3. IsSeq(t) /\ Len(t) = Len(cs) - 1 /\ Len(cs) > 0 /\ Head(cs) = cs[1]
      /\ \A i \in 1..Len(t) : t[i] = cs[i + 1]
  BY <1>1, TailIs
<1>4. Len(t) \in Nat /\ DOMAIN t = 1..Len(t) /\ t = [i \in 1..Len(t) |-> t[i]]
  BY <1>3, IsSeqHas
<1>5. Len(cs) = 1 => t = <<>>
  <2> SUFFICES ASSUME Len(cs) = 1 PROVE t = <<>>
    OBVIOUS
  <2>1. Len(t) = 0
    BY <1>3
  <2>2. t \in Seq({t[i] : i \in DOMAIN t})
    BY <1>3 DEF IsSeq
  <2> HIDE DEF t
  <2>3. QED
    BY <2>1, <2>2, EmptySeq
<1> HIDE DEF t
<1>6. \A i \in DOMAIN t : i + 1 \in DOMAIN cs /\ t[i] = cs[i + 1]
  BY <1>2, <1>3, <1>4
<1>7. \A i \in DOMAIN cs : i # 1 => i - 1 \in DOMAIN t /\ t[i - 1] = cs[i]
  <2> SUFFICES ASSUME NEW i \in DOMAIN cs, i # 1 PROVE i - 1 \in DOMAIN t /\ t[i - 1] = cs[i]
    OBVIOUS
  <2>1. i - 1 \in 1..Len(t) /\ (i - 1) + 1 = i
    BY <1>2, <1>3
  <2>2. QED
    BY <1>3, <1>4, <2>1
<1>8. Balanced(t)
  <2> SUFFICES ASSUME NEW i \in DOMAIN t, t[i].c = "sub"
               PROVE  \E j \in DOMAIN t : i < j /\ t[j].c = "exit"
    BY DEF Balanced
  <2>1. i + 1 \in DOMAIN cs /\ cs[i + 1].c = "sub"
    BY <1>6
  <2>2. PICK j \in DOMAIN cs : i + 1 < j /\ cs[j].c = "exit"
    BY <1>1, <2>1 DEF Balanced
  <2>3. j # 1 /\ i < j - 1
    BY <1>2, <1>4, <2>2
  <2>4. QED
    BY <1>7, <2>2, <2>3
<1>9. \A i \in DOMAIN t : Sent(t[i], slots)
  BY <1>1, <1>6
<1>10. 1 \in DOMAIN cs /\ Sent(Head(cs), slots)
  BY <1>1, <1>2, <1>3
<1>11. CommandsOK(t, slots)
  BY <1>3, <1>8, <1>9 DEF CommandsOK
<1>12. QED
  BY <1>2, <1>3, <1>5, <1>7, <1>10, <1>11 DEF t

\* The session a command goes to, and the command.
Live == sess[Act.dev]
Cmd == Head(cmds)

Sending ==
    /\ pc = "send" /\ at \in 1..Len(plan) /\ at \in DOMAIN plan /\ Act.dev \in Dev /\ ActionOK(Act)
    /\ Sent(Cmd, BoundSlots(Act.before))
    /\ Up => HostOf(Act.dev) = Live /\ Live \in Host

LEMMA SendingIs ==
    ASSUME Inv1, pc = "send", cmds # <<>>
    PROVE  Sending
<1>1. at \in 1..Len(plan) /\ at \in DOMAIN plan /\ Act.dev \in Dev /\ ActionOK(Act)
  BY BusyAt
<1>2. CommandsOK(cmds, BoundSlots(Act.before))
  BY DEF Inv1, PlanInv
<1>3. Sent(Cmd, BoundSlots(Act.before))
  BY <1>2, TailOK DEF Cmd
<1>4. Up => HostOf(Act.dev) = Live /\ Live \in Host
  BY DEF Up, HostOf, Live
<1>5. QED
  BY <1>1, <1>3, <1>4 DEF Sending

Accepted ==
    /\ Sending /\ Up /\ CommandsOK(cmds, BoundSlots(Act.before)) /\ cmds # <<>>
    /\ cfg' = [cfg EXCEPT ![Live] = Apply(@, Cmd)]
    /\ depth' = [depth EXCEPT ![Act.dev] =
                    CASE Cmd.c = "sub" -> 1 [] Cmd.c = "exit" -> 0 [] OTHER -> @]
    /\ IF Writes(Cmd)
       THEN /\ seen' = [seen EXCEPT ![Live] = Over(ValuesAt(cfg'[Live], {Slot(Cmd)}), @)]
            /\ found' = IF dir = "fwd"
                        THEN [found EXCEPT ![Live] = Over(@, ValuesAt(cfg[Live], {Slot(Cmd)}))]
                        ELSE found
       ELSE UNCHANGED <<seen, found>>
    /\ cmds' = Tail(cmds) /\ pc' = IF Len(cmds) = 1 THEN "verify" ELSE "send"
    /\ changed' = (changed \/ command_may_change_state(Cmd))
    /\ UNCHANGED <<oper, row, ids, sess, draft, plan, dir, at, outcome, start, edits, faults>>

LEMMA Accepts ==
    ASSUME Inv1, CommandAccepted
    PROVE  Accepted
<1>1. pc = "send" /\ Up /\ cmds # <<>>
  BY DEF CommandAccepted
<1>2. Sending
  BY <1>1, SendingIs
<1>3. CommandsOK(cmds, BoundSlots(Act.before))
  BY <1>1 DEF Inv1, PlanInv
<1>4. HostOf(Act.dev) = Live
  BY <1>1, <1>2 DEF Sending
<1>5. QED
  BY <1>1, <1>2, <1>3, <1>4 DEF CommandAccepted, Accepted, Written, Cmd

LEMMA Inv1Accepted ==
    ASSUME Inv1, CommandAccepted
    PROVE  Inv1'
<1>1. Accepted
  BY Accepts
<1>2. Frame
  <2>1. CommandOK(Cmd) /\ Live \in Host
    BY <1>1 DEF Accepted, Sending, Sent
  <2>2. cfg = [h \in Host |-> cfg[h]] /\ (\A h \in Host : Formed(cfg[h]))
        /\ seen = [h \in Host |-> seen[h]] /\ found = [h \in Host |-> found[h]] /\ changed \in BOOLEAN
        /\ row \in [Dev -> [host : Host, pin : Host \cup {None}]]
    BY DEF Inv1, TypeInv
  <2>3. cfg' = [h \in Host |-> cfg'[h]] /\ (\A h \in Host : Formed(cfg'[h]))
    <3>1. cfg' = [cfg EXCEPT ![Live] = Apply(@, Cmd)]
      BY <1>1 DEF Accepted
    <3>2. \A h \in Host : cfg'[h] = IF h = Live THEN Apply(cfg[h], Cmd) ELSE cfg[h]
      BY <2>2, <3>1
    <3>3. \A h \in Host : Formed(cfg'[h])
      BY <2>1, <2>2, <3>2, ApplyFormed
    <3>4. QED
      BY <2>2, <3>1, <3>3
  <2>4. seen' = [h \in Host |-> seen'[h]] /\ found' = [h \in Host |-> found'[h]]
    BY <1>1, <2>2 DEF Accepted
  <2>5. changed' \in BOOLEAN
    BY <1>1, <2>2 DEF Accepted, command_may_change_state
  <2>6. draft' = draft /\ row' = row
    BY <1>1 DEF Accepted
  <2>7. QED
    BY <2>2, <2>3, <2>4, <2>5, <2>6 DEF Frame
<1>3. /\ CommandsOK(Tail(cmds), BoundSlots(Act.before))
      /\ Len(cmds) = 1 => Tail(cmds) = <<>>
  BY <1>1, TailOK DEF Accepted
<1>4. /\ plan' = plan /\ sess' = sess /\ dir' = dir /\ outcome' = outcome /\ at' = at
      /\ at \in 1..Len(plan) /\ pc = "send" /\ cmds' = Tail(cmds)
      /\ pc' = IF Len(cmds) = 1 THEN "verify" ELSE "send"
  BY <1>1 DEF Accepted, Sending
<1>5. depth' \in [Dev -> {0, 1}] /\ at \in Nat
  <2>1. depth \in [Dev -> {0, 1}] /\ at \in Nat
    BY DEF Inv1, TypeInv
  <2>2. depth' = [depth EXCEPT ![Act.dev] =
                    CASE Cmd.c = "sub" -> 1 [] Cmd.c = "exit" -> 0 [] OTHER -> @]
    BY <1>1 DEF Accepted
  <2>3. QED
    BY <2>1, <2>2
<1>6. CommandsOK(cmds', BoundSlots(plan[at'].before))
  BY <1>3, <1>4 DEF Act
<1>7. QED
  BY <1>2, <1>3, <1>4, <1>5, <1>6, SamePlanKeeps

LEMMA Inv1Rejected ==
    ASSUME Inv1, CommandRejected
    PROVE  Inv1'
<1>1. Frame /\ pc = "send" /\ (Unknown \/ NoEffect)
  BY FrameSame DEF CommandRejected, history, Inv1, TypeInv
<1>2. at \in 1..Len(plan)
  BY <1>1, BusyAt
<1>3. QED
  BY <1>1, <1>2, UnknownKeeps, NoEffectKeeps

\* No answer: the command may have been applied, and if it had none to apply
\* nothing is.
Unanswered ==
    /\ Sending
    /\ cfg' = cfg \/ (Up /\ cfg' = [cfg EXCEPT ![Live] = Apply(@, Cmd)])
    /\ IF changed \/ command_may_change_state(Cmd) THEN Unknown ELSE NoEffect
    /\ UNCHANGED <<oper, row, ids, draft, changed, seen, found, start, edits>>

LEMMA Unanswers ==
    ASSUME Inv1, CommandUnanswered
    PROVE  Unanswered
<1>1. pc = "send" /\ cmds # <<>>
  BY DEF CommandUnanswered
<1>2. Sending
  BY <1>1, SendingIs
<1>3. Up => HostOf(Act.dev) = Live
  BY <1>2 DEF Sending
<1>4. cfg' = cfg \/ (Up /\ cfg' = [cfg EXCEPT ![Live] = Apply(@, Cmd)])
  BY <1>3 DEF CommandUnanswered, Cmd
<1>5. QED
  BY <1>2, <1>4 DEF CommandUnanswered, Unanswered, Cmd, history

LEMMA Inv1Unanswered ==
    ASSUME Inv1, CommandUnanswered
    PROVE  Inv1'
<1>1. Unanswered
  BY Unanswers
<1>2. CommandOK(Cmd) /\ (Up => Live \in Host) /\ at \in 1..Len(plan) /\ pc = "send"
  BY <1>1 DEF Unanswered, Sending, Sent
<1>3. cfg = [h \in Host |-> cfg[h]] /\ (\A h \in Host : Formed(cfg[h]))
      /\ seen = [h \in Host |-> seen[h]] /\ found = [h \in Host |-> found[h]] /\ changed \in BOOLEAN
      /\ row \in [Dev -> [host : Host, pin : Host \cup {None}]]
  BY DEF Inv1, TypeInv
<1>4. cfg' = [h \in Host |-> cfg'[h]] /\ (\A h \in Host : Formed(cfg'[h]))
  <2>1. CASE cfg' = cfg
    BY <1>3, <2>1
  <2>2. CASE Up /\ cfg' = [cfg EXCEPT ![Live] = Apply(@, Cmd)]
    <3>2. \A h \in Host : cfg'[h] = IF h = Live THEN Apply(cfg[h], Cmd) ELSE cfg[h]
      BY <1>3, <2>2
    <3>3. \A h \in Host : Formed(cfg'[h])
      BY <1>2, <1>3, <3>2, ApplyFormed
    <3>4. QED
      BY <1>3, <2>2, <3>3
  <2>3. QED
    BY <1>1, <2>1, <2>2 DEF Unanswered
<1>5. Frame
  BY <1>1, <1>3, <1>4 DEF Frame, Unanswered
<1>6. Unknown \/ NoEffect
  BY <1>1 DEF Unanswered
<1>7. QED
  BY <1>2, <1>5, <1>6, UnknownKeeps, NoEffectKeeps

LEMMA Inv1Verify ==
    ASSUME Inv1, verify_with_retry
    PROVE  Inv1'
<1>1. Frame /\ pc = "verify" /\ (Proceed \/ Unknown)
  BY FrameSame DEF verify_with_retry, history, Inv1, TypeInv
<1>2. at \in 1..Len(plan)
  BY <1>1, BusyAt
<1>3. QED
  BY <1>1, <1>2, UnknownKeeps, ProceedKeeps

LEMMA Inv1VerifyLost ==
    ASSUME Inv1, VerifyLost
    PROVE  Inv1'
<1>1. Frame /\ Unknown
  BY FrameSame DEF VerifyLost, history, Inv1, TypeInv
<1>2. QED
  BY <1>1, UnknownKeeps

LEMMA Inv1Finish ==
    ASSUME Inv1, Finish
    PROVE  Inv1'
<1>1. Frame /\ plan' = plan /\ dir' = dir /\ at' = at /\ at \in Nat /\ dir \in {"fwd", "undo", "back"}
  BY FrameSame DEF Finish, history, Inv1, TypeInv
<1>2. \E v : Stop(v)
  BY DEF Finish
<1>3. QED
  BY <1>1, <1>2, StopKeeps

\* A rollback is refused, or planned from the inverses.
RollsBack(now) ==
    /\ Kept(now, Inverses(plan))
    /\ \A d \in Targets : Reachable(d)
    /\ plan' = now /\ pc' = "lock" /\ outcome' = None
    /\ seen' = [h \in Host |-> ValuesAt(cfg[h],
                   UNION {BoundSlots(now[i].before) : i \in {j \in DOMAIN now : HostOf(now[j].dev) = h}})]
    /\ UNCHANGED <<cmds, sess, depth>>

LEMMA RollbackIs ==
    ASSUME Inv1, prepare_rollbacks
    PROVE  /\ pc = "end" /\ outcome = "succeeded" /\ dir = "fwd" /\ dir' = "back" /\ at' = 0 /\ changed' = FALSE
           /\ UNCHANGED <<cfg, oper, row, draft, found, start, edits, faults>>
           /\ \/ Stop("refused") /\ UNCHANGED <<plan, seen>>
              \/ \E now : RollsBack(now)
<1> DEFINE back == Inverses(plan)
           now == reconcile_inverse_sequence(back)
           bound(h) == UNION {BoundSlots(now[i].before) : i \in {j \in DOMAIN now : HostOf(now[j].dev) = h}}
<1>1. /\ pc = "end" /\ outcome = "succeeded" /\ dir = "fwd" /\ dir' = "back" /\ at' = 0 /\ changed' = FALSE
      /\ UNCHANGED <<cfg, oper, row, draft, found, start, edits, faults>>
  BY DEF prepare_rollbacks
<1>2. IF (\A d \in Targets : Reachable(d)) /\ Refused \notin {now[i] : i \in DOMAIN now}
      THEN /\ plan' = now /\ pc' = "lock" /\ ids' = row /\ outcome' = None
           /\ seen' = [h \in Host |-> ValuesAt(cfg[h], bound(h))]
           /\ UNCHANGED <<cmds, sess, depth>>
      ELSE Stop("refused") /\ UNCHANGED <<plan, ids, seen>>
  BY DEF prepare_rollbacks
<1>3. IsSeq(back) /\ \A i \in DOMAIN back : ActionOK(back[i])
  <2>1. IsSeq(plan) /\ \A i \in DOMAIN plan : ActionOK(plan[i])
    BY DEF Inv1, PlanInv
  <2>2. QED
    BY <2>1, BackOK
<1> HIDE DEF back
<1>4. CASE (\A d \in Targets : Reachable(d)) /\ Refused \notin {now[i] : i \in DOMAIN now}
  <2>1. Kept(now, back)
    <3> HIDE DEF now
    <3>1. now = reconcile_inverse_sequence(back)
      BY DEF now
    <3>2. QED
      BY <1>3, <1>4, <3>1, ReconcileIs
  <2>2. plan' = now /\ pc' = "lock" /\ outcome' = None
        /\ seen' = [h \in Host |-> ValuesAt(cfg[h], bound(h))]
        /\ UNCHANGED <<cmds, sess, depth>>
    BY <1>2, <1>4
  <2> HIDE DEF now
  <2>3. RollsBack(now)
    BY <1>4, <2>1, <2>2 DEF RollsBack, back
  <2>4. QED
    BY <1>1, <2>3
<1>5. CASE ~((\A d \in Targets : Reachable(d)) /\ Refused \notin {now[i] : i \in DOMAIN now})
  BY <1>1, <1>2, <1>5
<1>6. QED
  BY <1>4, <1>5

LEMMA Inv1Rollback ==
    ASSUME Inv1, prepare_rollbacks
    PROVE  Inv1'
<1>1. /\ pc = "end" /\ dir' = "back" /\ at' = 0 /\ changed' = FALSE
      /\ UNCHANGED <<cfg, row, draft, found>>
  BY RollbackIs
<1>2. CASE Stop("refused") /\ UNCHANGED <<plan, seen>>
  <2>1. Frame
    BY <1>1, <1>2, FrameSame
  <2>2. QED
    BY <1>1, <1>2, <2>1, StopKeeps
<1>3. ASSUME NEW now, RollsBack(now) PROVE Inv1'
  <2>1. IsSeq(plan) /\ (\A i \in DOMAIN plan : ActionOK(plan[i]))
        /\ (\A i \in DOMAIN plan : row[plan[i].dev].pin \in Host)
    BY DEF Inv1, PlanInv, SessionInv
  <2>2. /\ plan' = now /\ pc' = "lock" /\ outcome' = None /\ Kept(now, Inverses(plan))
        /\ UNCHANGED <<cmds, sess, depth>>
        /\ seen' = [h \in Host |-> seen'[h]]
    BY <1>3 DEF RollsBack
  <2>3. \A i \in DOMAIN now : ActionOK(now[i]) /\ row[now[i].dev].pin \in Host
    BY <2>1, <2>2, BackOK DEF Kept
  <2>4. IsSeq(now)
    BY <2>2 DEF Kept
  <2>5. TypeInv'
    BY <1>1, <2>2 DEF TypeInv, Inv1
  <2>6. PlanInv'
    BY <1>1, <2>2, <2>3, <2>4 DEF PlanInv, Inv1
  <2>7. SessionInv'
    BY <1>1, <2>2, <2>3 DEF SessionInv, Inv1
  <2>8. QED
    BY <2>5, <2>6, <2>7 DEF Inv1
<1>4. QED
  BY <1>2, <1>3, RollbackIs

\* The router's side: nothing of the run but the configuration of a host that
\* is not locked, the host of a device, a session.
LEMMA Inv1Foreign ==
    ASSUME Inv1, NEW h \in Host, ForeignEdit(h)
    PROVE  Inv1'
<1>1. PICK c \in Configs : cfg' = [cfg EXCEPT ![h] = c]
  BY DEF ForeignEdit
<1>2. UNCHANGED <<row, sess, depth, draft, plan, pc, dir, at, cmds, changed, outcome, seen, found>>
  BY DEF ForeignEdit, wires, run, history
<1>3. cfg' = [x \in Host |-> cfg'[x]] /\ \A x \in Host : Formed(cfg'[x])
  <2>1. cfg = [x \in Host |-> cfg[x]] /\ \A x \in Host : Formed(cfg[x])
    BY DEF Inv1, TypeInv
  <2>2. Formed(c)
    BY ConfigsFormed
  <2>3. QED
    BY <1>1, <2>1, <2>2
<1>4. QED
  BY <1>2, <1>3 DEF Inv1, TypeInv, PlanInv, SessionInv, Act

LEMMA Inv1EditDevice ==
    ASSUME Inv1, NEW d \in Dev, EditDevice(d)
    PROVE  Inv1'
<1>1. UNCHANGED <<cfg, sess, depth, draft, plan, pc, dir, at, cmds, changed, outcome, seen, found>>
  BY DEF EditDevice, run, history
<1>2. /\ row' \in [Dev -> [host : Host, pin : Host \cup {None}]]
      /\ \A e \in Dev : row'[e].pin = row[e].pin
  <2>1. PICK h \in Host : row' = [row EXCEPT ![d].host = h]
    BY DEF EditDevice
  <2>2. row \in [Dev -> [host : Host, pin : Host \cup {None}]]
    BY DEF Inv1, TypeInv
  <2>3. QED
    BY <2>1, <2>2
<1>3. \A i \in DOMAIN plan : plan[i].dev \in Dev
  BY DEF Inv1, PlanInv, ActionOK
<1>4. QED
  BY <1>1, <1>2, <1>3 DEF Inv1, TypeInv, PlanInv, SessionInv, Act

LEMMA Inv1Drop ==
    ASSUME Inv1, NEW d \in Dev, SessionDrop(d)
    PROVE  Inv1'
<1>1. UNCHANGED <<cfg, row, draft, plan, pc, dir, at, cmds, changed, outcome, seen, found>>
  BY DEF SessionDrop, run, history
<1>2. sess' = [sess EXCEPT ![d] = "dead"] /\ depth' = [depth EXCEPT ![d] = 0] /\ sess[d] \in Host
  BY DEF SessionDrop
<1>3. "dead" \notin Host /\ None \notin Host
  BY DevicePlanAssumption
<1>4. \A e \in Dev : sess'[e] = IF e = d THEN "dead" ELSE sess[e]
  BY <1>2 DEF Inv1, TypeInv
<1>5. TypeInv'
  BY <1>1, <1>2 DEF Inv1, TypeInv
<1>6. PlanInv'
  BY <1>1 DEF Inv1, PlanInv, Act
<1>7. pc \notin {"prepare", "end"}
  BY <1>2, <1>3 DEF Inv1, SessionInv
<1>8. SessionInv'
  BY <1>1, <1>3, <1>4, <1>7 DEF Inv1, SessionInv
<1>9. QED
  BY <1>5, <1>6, <1>8 DEF Inv1

LEMMA Inv1Idle ==
    ASSUME Inv1,
           UNCHANGED <<cfg, row, sess, depth, draft, plan, pc, dir, at, cmds, changed, outcome, seen, found>>
    PROVE  Inv1'
BY DEF Inv1, TypeInv, PlanInv, SessionInv, Act

LEMMA Inv1Next ==
    ASSUME Inv1, [Next]_vars
    PROVE  Inv1'
<1>1. CASE Process
  BY <1>1, Inv1Prepare, Inv1Inspect, Inv1PrepareFails, Inv1Acquire, Inv1AcquireFails, Inv1Preflight,
     Inv1Execute, Inv1ReadFails, Inv1Accepted, Inv1Rejected, Inv1Unanswered, Inv1Verify,
     Inv1VerifyLost, Inv1Finish, Inv1Rollback DEF Process
<1>2. CASE Environment
  <2>1. ASSUME NEW h \in Host, Converge(h) \/ Flap(h) PROVE Inv1'
    BY <2>1, Inv1Idle DEF Converge, Flap, wires, run, history
  <2>2. QED
    BY <1>2, <2>1, Inv1Foreign, Inv1EditDevice, Inv1Drop DEF Environment
<1>3. CASE UNCHANGED vars
  BY <1>3, Inv1Idle DEF vars, wires, run, history
<1>4. QED
  BY <1>1, <1>2, <1>3 DEF Next

LEMMA Inv1Always == Spec => []Inv1
<1>1. Init => Inv1
  BY Inv1Init
<1>2. Inv1 /\ [Next]_vars => Inv1'
  BY Inv1Next
<1>3. QED
  BY <1>1, <1>2, PTL DEF Spec

\* Whatever operators submit and edit, the sequence chosen for an entry of any
\* list a router ever holds is in range, free and reached (plan_add,
\* prefix_list.rs:410).
THEOREM AddAlwaysReached == Spec => []AddIsReached
<1>1. Inv1 => AddIsReached
  <2> SUFFICES ASSUME Inv1, NEW h \in Host, NEW n \in Lists, NEW r \in Routes
               PROVE  LET list == cfg[h].list[n]
                          p == plan_add(list, r)
                          works(q) == /\ \A e \in list : e.seq # q
                                      /\ Permits(AfterAdd(list, q, r), r)
                      IN  /\ p.plan = "use" => p.seq \in 1..MAX_SEQ /\ works(p.seq)
                          /\ p.plan = "already" => Permits(list, r)
    BY DEF AddIsReached
  <2>1. Sequenced(cfg[h].list[n])
    BY DEF Inv1, TypeInv, Formed, ListOK
  <2>2. r.len \in Nat
    BY DevicePlanAssumption
  <2>3. Reached(cfg[h].list[n], r, plan_add(cfg[h].list[n], r))
    BY <2>1, <2>2, PlanAddReaches
  <2>4. QED
    BY <2>3 DEF Reached, MIN_SEQ
<1>2. QED
  BY <1>1, Inv1Always, PTL
-----------------------------------------------------------------------------
(* A failure without effect *)

Ends == (dir' = "undo" /\ dir = "fwd") \/ (outcome' = "aborted" /\ outcome = None)

CleanStep ==
    Ends => \A d \in Targets : sess[d] \in Host => depth[d] = 0 /\ cfg'[sess[d]] = start'[sess[d]]

LEMMA TargetsAreDevices ==
    ASSUME Inv1
    PROVE  \A d \in Targets : d \in Dev
BY DEF Inv1, PlanInv, ActionOK, Targets

LEMMA OutsideSend ==
    ASSUME CleanInv, pc # "send"
    PROVE  \A d \in Dev : depth[d] = 0
BY DEF CleanInv

LEMMA StopClean ==
    ASSUME NEW v, Stop(v), v # "aborted", dir' \in {dir, "back"}
    PROVE  CleanInv' /\ CleanStep
<1>1. pc' = "end" /\ outcome' = v /\ \A d \in Dev : depth'[d] = 0
  BY DEF Stop
<1>2. QED
  BY <1>1 DEF CleanInv, CleanStep, Ends

\* A step outside any action.
LEMMA QuietClean ==
    ASSUME CleanInv, pc # "send", pc' # "send", depth' = depth, dir' \in {dir, "back"},
           outcome' # "aborted" \/ outcome' = outcome
    PROVE  CleanInv' /\ CleanStep
<1>1. \A d \in Dev : depth'[d] = 0
  BY OutsideSend
<1>2. None # "aborted"
  BY DEF None
<1>3. QED
  BY <1>1, <1>2 DEF CleanInv, CleanStep, Ends

LEMMA NoEffectClean ==
    ASSUME Inv1, NoEffect, \A d \in Dev : depth[d] = 0,
           \A d \in Dev : sess[d] \in Host => cfg'[sess[d]] = start'[sess[d]]
    PROVE  CleanInv' /\ CleanStep
<1>1. CleanStep
  BY TargetsAreDevices DEF CleanStep
<1>2. pc' # "send" /\ \A d \in Dev : depth'[d] = 0
  BY DEF NoEffect, Stop, Running
<1>3. QED
  BY <1>1, <1>2 DEF CleanInv

LEMMA UnknownClean ==
    ASSUME Unknown
    PROVE  CleanInv' /\ CleanStep
BY StopClean DEF Unknown

LEMMA CleanExecute ==
    ASSUME Inv1, CleanInv, execute_prepared
    PROVE  CleanInv' /\ CleanStep
<1>1. pc = "exec" /\ start' = cfg /\ changed' = FALSE /\ cfg' = cfg
  BY DEF execute_prepared, Busy
<1>2. \A d \in Dev : depth[d] = 0
  BY <1>1, OutsideSend
<1>3. CASE Unknown
  BY <1>3, UnknownClean
<1>4. CASE NoEffect
  BY <1>1, <1>2, <1>4, NoEffectClean
<1>5. CASE Proceed
  BY <1>1, <1>5, QuietClean DEF Proceed, Running
<1>6. CASE /\ pc' = "send" /\ cmds' = Act.cmds
           /\ Running /\ UNCHANGED <<plan, dir, at>>
  <2>1. CleanInv'
    BY <1>1, <1>2, <1>6 DEF CleanInv, Running
  <2>2. None # "aborted"
    BY DEF None
  <2>3. CleanStep
    BY <1>6, <2>2 DEF CleanStep, Ends, Running
  <2>4. QED
    BY <2>1, <2>3
<1>7. QED
  BY <1>3, <1>4, <1>5, <1>6 DEF execute_prepared

LEMMA CleanAccepted ==
    ASSUME Inv1, CleanInv, CommandAccepted
    PROVE  CleanInv' /\ CleanStep
<1>1. Accepted
  BY Accepts
<1>2. /\ Sending /\ Up /\ CommandsOK(cmds, BoundSlots(Act.before)) /\ cmds # <<>>
      /\ cfg' = [cfg EXCEPT ![Live] = Apply(@, Cmd)]
      /\ depth' = [depth EXCEPT ![Act.dev] =
                      CASE Cmd.c = "sub" -> 1 [] Cmd.c = "exit" -> 0 [] OTHER -> @]
      /\ cmds' = Tail(cmds) /\ pc' = IF Len(cmds) = 1 THEN "verify" ELSE "send"
      /\ changed' = (changed \/ command_may_change_state(Cmd))
      /\ UNCHANGED <<row, sess, plan, dir, at, outcome, start>>
  BY <1>1 DEF Accepted
<1>3. /\ pc = "send" /\ Act.dev \in Dev /\ CommandOK(Cmd) /\ Live \in Host
      /\ depth \in [Dev -> {0, 1}] /\ Act' = Act /\ Live = sess[Act.dev]
  BY <1>2 DEF Sending, Sent, Inv1, TypeInv, Act, Live
<1>4. /\ Cmd = cmds[1] /\ 1 \in DOMAIN cmds /\ Len(cmds) \in Nat /\ DOMAIN cmds = 1..Len(cmds)
      /\ \A i \in DOMAIN cmds : i # 1 => i - 1 \in DOMAIN cmds' /\ cmds'[i - 1] = cmds[i]
  BY <1>2, TailOK DEF Cmd
<1>5. \A d \in Dev : depth'[d] = IF d = Act.dev
                                 THEN (IF Cmd.c = "sub" THEN 1 ELSE IF Cmd.c = "exit" THEN 0 ELSE depth[d])
                                 ELSE depth[d]
  BY <1>2, <1>3
<1>6. ASSUME NEW d \in Dev, depth'[d] # 0
      PROVE  /\ pc' = "send" /\ d = Act.dev /\ sess[d] \in Host
             /\ \E i \in DOMAIN cmds' : cmds'[i].c = "exit"
  <2>1. d = Act.dev /\ Cmd.c # "exit"
    BY <1>3, <1>5, <1>6 DEF CleanInv
  <2>2. PICK i \in DOMAIN cmds : i # 1 /\ cmds[i].c = "exit"
    <3>1. CASE Cmd.c = "sub"
      <4>1. PICK j \in DOMAIN cmds : 1 < j /\ cmds[j].c = "exit"
        BY <1>2, <1>4, <3>1 DEF CommandsOK, Balanced
      <4>2. QED
        BY <4>1
    <3>2. CASE Cmd.c # "sub"
      <4>1. depth[d] # 0
        BY <1>5, <1>6, <2>1, <3>2
      <4>2. PICK i \in DOMAIN cmds : cmds[i].c = "exit"
        BY <4>1 DEF CleanInv
      <4>3. i # 1
        BY <1>4, <2>1, <4>2
      <4>4. QED
        BY <4>2, <4>3
    <3>3. QED
      BY <3>1, <3>2
  <2>3. Len(cmds) # 1
    BY <1>4, <2>2
  <2>4. i - 1 \in DOMAIN cmds' /\ cmds'[i - 1].c = "exit"
    BY <1>4, <2>2
  <2>5. QED
    BY <1>2, <1>3, <2>1, <2>3, <2>4
<1>7. ASSUME ~changed', NEW d \in Dev, sess[d] \in Host
      PROVE  cfg'[sess[d]] = start'[sess[d]] /\ depth'[d] = 0
  <2>1. ~changed /\ Cmd.c = "exit"
    BY <1>2, <1>3, <1>7 DEF command_may_change_state, CommandOK
  <2>2. cfg' = cfg
    <3>1. Apply(cfg[Live], Cmd) = cfg[Live]
      BY <2>1 DEF Apply
    <3>2. cfg = [h \in Host |-> cfg[h]]
      BY DEF Inv1, TypeInv
    <3>3. QED
      BY <1>2, <3>1, <3>2
  <2>3. cfg[sess[d]] = start[sess[d]] /\ depth[d] = 0
    BY <1>3, <1>7, <2>1 DEF CleanInv
  <2>4. QED
    BY <1>2, <1>5, <2>1, <2>2, <2>3
<1>8. CleanInv'
  BY <1>2, <1>3, <1>6, <1>7 DEF CleanInv
<1>9. None # "aborted"
  BY DEF None
<1>10. CleanStep
  BY <1>2, <1>9 DEF CleanStep, Ends
<1>11. QED
  BY <1>8, <1>10

LEMMA SendClean ==
    ASSUME Inv1, CleanInv, pc = "send", ~changed
    PROVE  /\ \A d \in Dev : depth[d] = 0
           /\ \A d \in Dev : sess[d] \in Host => cfg[sess[d]] = start[sess[d]]
BY DEF CleanInv

LEMMA CleanRejected ==
    ASSUME Inv1, CleanInv, CommandRejected
    PROVE  CleanInv' /\ CleanStep
<1>1. pc = "send" /\ start' = start /\ cfg' = cfg
  BY DEF CommandRejected, history
<1>2. CASE changed /\ Unknown
  BY <1>2, UnknownClean
<1>3. CASE ~changed /\ NoEffect
  <2>1. /\ \A d \in Dev : depth[d] = 0
        /\ \A d \in Dev : sess[d] \in Host => cfg[sess[d]] = start[sess[d]]
    BY <1>1, <1>3, SendClean
  <2>2. QED
    BY <1>1, <1>3, <2>1, NoEffectClean
<1>4. QED
  BY <1>2, <1>3 DEF CommandRejected

LEMMA CleanUnanswered ==
    ASSUME Inv1, CleanInv, CommandUnanswered
    PROVE  CleanInv' /\ CleanStep
<1>1. Unanswered /\ pc = "send"
  BY Unanswers DEF Unanswered, Sending
<1>2. CASE Unknown
  BY <1>2, UnknownClean
<1>3. CASE ~changed /\ ~command_may_change_state(Cmd) /\ NoEffect
  <2>1. /\ \A d \in Dev : depth[d] = 0
        /\ \A d \in Dev : sess[d] \in Host => cfg[sess[d]] = start[sess[d]]
    BY <1>1, <1>3, SendClean
  <2>2. Cmd.c = "exit"
    BY <1>1, <1>3 DEF Unanswered, Sending, Sent, CommandOK, command_may_change_state
  <2>3. cfg' = cfg
    <3>1. Apply(cfg[Live], Cmd) = cfg[Live]
      BY <2>2 DEF Apply
    <3>2. cfg = [h \in Host |-> cfg[h]]
      BY DEF Inv1, TypeInv
    <3>3. QED
      BY <1>1, <3>1, <3>2 DEF Unanswered
  <2>4. start' = start
    BY <1>1 DEF Unanswered
  <2>5. QED
    BY <1>3, <2>1, <2>3, <2>4, NoEffectClean
<1>4. QED
  BY <1>1, <1>2, <1>3 DEF Unanswered

LEMMA CleanNext ==
    ASSUME Inv1, CleanInv, [Next]_vars
    PROVE  CleanInv' /\ CleanStep
<1>1. CASE prepare_actions
  <2>1. PrepareFrame /\ ((Stop("refused") /\ UNCHANGED <<plan, seen>>) \/ \E p : PrepareStep(p))
    BY <1>1, PrepareActions
  <2>2. pc = "prepare" /\ dir' = dir
    BY <2>1 DEF PrepareFrame
  <2>3. QED
    BY <2>1, <2>2, StopClean, QuietClean DEF PrepareStep
<1>2. CASE inspect_actions
  BY <1>2, StopClean, QuietClean DEF inspect_actions, Running
<1>3. CASE PrepareFails
  BY <1>3, StopClean DEF PrepareFails
<1>4. CASE acquire
  <2>1. pc = "lock" /\ dir' = dir /\ (Stop("failed") \/ \E d : Locks(d))
    BY <1>4, Acquires DEF acquire
  <2>2. QED
    BY <2>1, StopClean, QuietClean DEF Locks
<1>5. CASE AcquireFails
  BY <1>5, StopClean DEF AcquireFails
<1>6. CASE Preflight
  BY <1>6, StopClean, QuietClean DEF Preflight, Running
<1>7. CASE execute_prepared
  BY <1>7, CleanExecute
<1>8. CASE ReadFails
  BY <1>8, UnknownClean DEF ReadFails
<1>9. CASE CommandAccepted
  BY <1>9, CleanAccepted
<1>10. CASE CommandRejected
  BY <1>10, CleanRejected
<1>11. CASE CommandUnanswered
  BY <1>11, CleanUnanswered
<1>12. CASE verify_with_retry
  BY <1>12, UnknownClean, QuietClean DEF verify_with_retry, Proceed, Running
<1>13. CASE VerifyLost
  BY <1>13, UnknownClean DEF VerifyLost
<1>14. CASE Finish
  BY <1>14, StopClean DEF Finish
<1>15. CASE prepare_rollbacks
  BY <1>15, RollbackIs, StopClean, QuietClean DEF RollsBack, None
<1>16. ASSUME NEW h \in Host, ForeignEdit(h) PROVE CleanInv' /\ CleanStep
  <2>1. PICK c : cfg' = [cfg EXCEPT ![h] = c]
    BY <1>16 DEF ForeignEdit
  <2>2. UNCHANGED <<sess, depth, plan, pc, dir, at, cmds, changed, outcome, start>> /\ ~Locked(h)
    BY <1>16 DEF ForeignEdit, wires, run, history
  <2>3. \A d \in Dev : sess[d] \in Host => cfg'[sess[d]] = cfg[sess[d]]
    BY <2>1, <2>2 DEF Locked, Inv1, TypeInv
  <2>4. QED
    BY <2>2, <2>3 DEF CleanInv, CleanStep, Ends, Act, None
<1>17. ASSUME NEW d \in Dev, EditDevice(d) PROVE CleanInv' /\ CleanStep
  <2>1. UNCHANGED <<cfg, sess, depth, plan, pc, dir, at, cmds, changed, outcome, start>>
    BY <1>17 DEF EditDevice, run, history
  <2>2. QED
    BY <2>1 DEF CleanInv, CleanStep, Ends, Act, None
<1>18. ASSUME NEW d \in Dev, SessionDrop(d) PROVE CleanInv' /\ CleanStep
  <2>1. UNCHANGED <<cfg, plan, pc, dir, at, cmds, changed, outcome, start>>
    BY <1>18 DEF SessionDrop, run, history
  <2>2. sess' = [sess EXCEPT ![d] = "dead"] /\ depth' = [depth EXCEPT ![d] = 0]
    BY <1>18 DEF SessionDrop
  <2>3. "dead" \notin Host
    BY DevicePlanAssumption
  <2>4. \A e \in Dev : sess'[e] = (IF e = d THEN "dead" ELSE sess[e]) /\ depth'[e] = (IF e = d THEN 0 ELSE depth[e])
    BY <2>2 DEF Inv1, TypeInv
  <2>5. CleanInv'
    BY <2>1, <2>3, <2>4 DEF CleanInv, Act
  <2>6. CleanStep
    BY <2>1 DEF CleanStep, Ends, None
  <2>7. QED
    BY <2>5, <2>6
<1>19. CASE \/ UNCHANGED vars
            \/ \E h \in Host : Converge(h) \/ Flap(h)
  <2>1. UNCHANGED <<cfg, sess, depth, plan, pc, dir, at, cmds, changed, outcome, start>>
    BY <1>19 DEF vars, wires, run, history, Converge, Flap
  <2>2. QED
    BY <2>1 DEF CleanInv, CleanStep, Ends, Act, None
<1>20. QED
  BY <1>1, <1>2, <1>3, <1>4, <1>5, <1>6, <1>7, <1>8, <1>9, <1>10, <1>11, <1>12, <1>13, <1>14, <1>15,
     <1>16, <1>17, <1>18, <1>19 DEF Next, Process, Environment

LEMMA CleanInit ==
    ASSUME Init PROVE CleanInv
BY DEF Init, CleanInv

\* Whatever the routers and the other operators do, a failure reported as without
\* effect left each router held as the action found it, outside any sub-mode
\* (plan_failure, ssh/mod.rs:2789).
THEOREM FailureWithoutEffectIsClean == Spec => NoEffectIsClean
<1>1. Init => Inv1 /\ CleanInv
  BY Inv1Init, CleanInit
<1>2. Inv1 /\ CleanInv /\ [Next]_vars => Inv1' /\ CleanInv'
  BY Inv1Next, CleanNext
<1>3. Inv1 /\ CleanInv /\ [Next]_vars =>
        [(dir' = "undo" /\ dir = "fwd") \/ (outcome' = "aborted" /\ outcome = None) =>
            \A d \in Targets : sess[d] \in Host => depth[d] = 0 /\ cfg'[sess[d]] = start'[sess[d]]]_vars
  BY CleanNext DEF CleanStep, Ends
<1>4. QED
  BY <1>1, <1>2, <1>3, PTL DEF Spec, NoEffectIsClean
-----------------------------------------------------------------------------
(* What a write replaces *)

\* The slot of a command is all of the configuration that it writes.
LEMMA ApplyAt ==
    ASSUME NEW c, Formed(c), NEW x, CommandOK(x), NEW s \in Slots, Writes(x) => s # Slot(x)
    PROVE  ValueAt(Apply(c, x), s) = ValueAt(c, s)
<1> DEFINE a == Apply(c, x)
<1>1. \/ \E n \in Lists : s = <<"list", n>>
      \/ \E f \in Fields \ {"list"} : s = <<f>>
  BY DEF Slots, Fields
<1>2. CASE x.c = "set" /\ x.f \in Fields \ {"list"}
  <2>1. a = [c EXCEPT ![x.f] = x.v] /\ s # <<x.f>>
    BY <1>2 DEF Apply, Writes, Slot
  <2> HIDE DEF a
  <2>2. \A f \in Fields : f # x.f => a[f] = c[f]
    BY <2>1 DEF Formed
  <2>3. CASE \E n \in Lists : s = <<"list", n>>
    <3>1. PICK n \in Lists : s = <<"list", n>>
      BY <2>3
    <3>2. a["list"] = c["list"]
      BY <1>2, <2>2 DEF Fields
    <3>3. a.list = c.list
      BY <3>2
    <3>4. QED
      BY <3>1, <3>3, ValueAtIs DEF a
  <2>4. CASE \E f \in Fields \ {"list"} : s = <<f>>
    <3>1. PICK f \in Fields \ {"list"} : s = <<f>>
      BY <2>4
    <3>2. a[f] = c[f]
      BY <2>1, <2>2, <3>1
    <3>3. QED
      BY <3>1, <3>2, ValueAtIs DEF a
  <2>5. QED
    BY <1>1, <2>3, <2>4
<1>3. CASE x.c \in {"add", "del"} /\ x.n \in Lists
  <2>1. PICK l : a = [c EXCEPT !.list = [c.list EXCEPT ![x.n] = l]]
    <3>1. CASE x.c = "add"
      BY <3>1 DEF Apply
    <3>2. CASE x.c = "del"
      BY <3>2 DEF Apply
    <3>3. QED
      BY <1>3, <3>1, <3>2
  <2> DEFINE m == [c.list EXCEPT ![x.n] = l]
  <2>2. s # <<"list", x.n>>
    BY <1>3 DEF Writes, Slot
  <2>3. \A n \in Lists : n # x.n => m[n] = c.list[n]
    BY DEF Formed
  <2> HIDE DEF a, m
  <2>4. a.list = m /\ \A f \in Fields \ {"list"} : a[f] = c[f]
    BY <2>1 DEF Formed, Fields, m
  <2>5. CASE \E n \in Lists : s = <<"list", n>>
    <3>1. PICK n \in Lists : s = <<"list", n>>
      BY <2>5
    <3>2. a.list[n] = c.list[n]
      BY <2>2, <2>3, <2>4, <3>1
    <3>3. QED
      BY <3>1, <3>2, ValueAtIs DEF a
  <2>6. CASE \E f \in Fields \ {"list"} : s = <<f>>
    <3>1. PICK f \in Fields \ {"list"} : s = <<f>>
      BY <2>6
    <3>2. a[f] = c[f]
      BY <2>4, <3>1
    <3>3. QED
      BY <3>1, <3>2, ValueAtIs DEF a
  <2>7. QED
    BY <1>1, <2>5, <2>6
<1>4. CASE x.c \in {"sub", "exit", "clear"}
  BY <1>4 DEF Apply
<1>5. QED
  BY <1>2, <1>3, <1>4 DEF CommandOK

LEMMA ValuesAtIs ==
    ASSUME NEW c, NEW S
    PROVE  DOMAIN ValuesAt(c, S) = S /\ \A s \in S : ValuesAt(c, S)[s] = ValueAt(c, s)
BY DEF ValuesAt

LEMMA GuardedAreSlots == Guarded \subseteq Slots
BY DEF Guarded

\* What a prepared action saw of the router is recorded, and expected by it
\* where no earlier action of the device binds it.
LEMMA PreviewPrepare ==
    ASSUME Inv1, PreviewInv, prepare_actions
    PROVE  PreviewInv'
<1>1. PrepareFrame
  BY PrepareActions
<1>2. CASE Stop("refused")
  BY <1>2 DEF Stop, PreviewInv
<1>3. ASSUME NEW p, PrepareStep(p) PROVE PreviewInv'
  <2>0. PICK n : n = Len(plan) + 1
    OBVIOUS
  <2> DEFINE e == Draft.dev
             u == DraftHost
             new == ValuesAt(cfg[u], BoundSlots(p.before))
  <2>1. /\ IsSeq(plan) /\ (\A i \in DOMAIN plan : ActionOK(plan[i]))
        /\ (\A i \in DOMAIN plan : row[plan[i].dev].pin \in Host)
        /\ seen = [h \in Host |-> seen[h]] /\ (\A i \in DOMAIN plan : plan[i].dev \in Dev)
        /\ row \in [Dev -> [host : Host, pin : Host \cup {None}]] /\ None \notin Host
    BY DevicePlanAssumption DEF Inv1, TypeInv, PlanInv, SessionInv, ActionOK
  <2>2. Len(plan) \in Nat /\ DOMAIN plan = 1..Len(plan) /\ n = Len(plan) + 1
    BY <2>0, <2>1, IsSeqHas
  <2>3. /\ ActionOK(p) /\ p.dev = e /\ Shows(u, p.before, DraftProj)
        /\ plan' = Append(plan, p) /\ seen' = [seen EXCEPT ![u] = Over(@, new)]
        /\ e \in Dev /\ u \in Host /\ row[e].pin \in {None, u} /\ row' = [row EXCEPT ![e].pin = u]
        /\ pc' = pc /\ pc = "prepare"
    BY <1>1, <1>3 DEF PrepareStep, PreparedOK, PrepareFrame
  <2>4. /\ IsSeq(plan') /\ plan'[n] = p /\ (\A i \in DOMAIN plan : plan'[i] = plan[i])
        /\ DOMAIN plan' = 1..n
    <3>1. IsSeq(plan') /\ Len(plan') = n /\ plan'[n] = p /\ \A i \in 1..Len(plan) : plan'[i] = plan[i]
      BY <2>0, <2>1, <2>3, AppendIs
    <3>2. QED
      BY <2>2, <3>1, IsSeqHas
  <2>5. /\ DOMAIN seen'[u] = DOMAIN seen[u] \cup BoundSlots(p.before)
        /\ \A s \in DOMAIN seen[u] : seen'[u][s] = seen[u][s]
        /\ \A s \in BoundSlots(p.before) \ DOMAIN seen[u] : seen'[u][s] = ValueAt(cfg[u], s)
        /\ \A h \in Host \ {u} : seen'[h] = seen[h]
    <3>1. seen'[u] = Over(seen[u], new) /\ \A h \in Host \ {u} : seen'[h] = seen[h]
      BY <2>1, <2>3
    <3>2. DOMAIN new = BoundSlots(p.before) /\ \A s \in BoundSlots(p.before) : new[s] = ValueAt(cfg[u], s)
      BY ValuesAtIs
    <3> DEFINE old == seen[u]
               o == Over(old, new)
    <3> HIDE DEF new, old
    <3>3. /\ DOMAIN o = DOMAIN old \cup DOMAIN new
          /\ \A k \in DOMAIN old : o[k] = old[k]
          /\ \A k \in DOMAIN new \ DOMAIN old : o[k] = new[k]
      BY OverHas
    <3>4. seen'[u] = o
      BY <3>1 DEF old
    <3> HIDE DEF o
    <3>5. QED
      BY <3>1, <3>2, <3>3, <3>4 DEF old
  <2> HIDE DEF new
  <2>6. row'[e].pin = u /\ \A i \in DOMAIN plan : row'[plan[i].dev].pin = row[plan[i].dev].pin
    BY <2>1, <2>3
  <2>7. /\ \A i \in DOMAIN plan : BoundSlots(plan[i].before) \subseteq DOMAIN seen[row[plan[i].dev].pin]
        /\ \A h \in Host : \A s \in DOMAIN seen[h] \cap Guarded : \E i \in DOMAIN plan : Expects(i, h, s)
    BY <2>3 DEF PreviewInv
  <2>8. \A i \in DOMAIN plan' : BoundSlots(plan'[i].before) \subseteq DOMAIN seen'[row'[plan'[i].dev].pin]
    <3> SUFFICES ASSUME NEW i \in DOMAIN plan'
                 PROVE  BoundSlots(plan'[i].before) \subseteq DOMAIN seen'[row'[plan'[i].dev].pin]
      OBVIOUS
    <3>1. CASE i \in DOMAIN plan
      <4>1. plan'[i] = plan[i] /\ row'[plan[i].dev].pin = row[plan[i].dev].pin
            /\ row[plan[i].dev].pin \in Host
            /\ BoundSlots(plan[i].before) \subseteq DOMAIN seen[row[plan[i].dev].pin]
        BY <2>1, <2>4, <2>6, <2>7, <3>1
      <4>2. \A h \in Host : DOMAIN seen[h] \subseteq DOMAIN seen'[h]
        BY <2>5
      <4>3. QED
        BY <4>1, <4>2
    <3>2. CASE i = n
      BY <2>3, <2>4, <2>5, <2>6, <3>2
    <3>3. QED
      BY <2>2, <2>4, <3>1, <3>2
  <2>9. ASSUME NEW h \in Host, NEW s \in DOMAIN seen'[h] \cap Guarded
        PROVE  \E i \in DOMAIN plan' : Expects(i, h, s)'
    <3>1. CASE s \in DOMAIN seen[h]
      <4>1. PICK i \in DOMAIN plan : Expects(i, h, s)
        BY <2>7, <2>9, <3>1
      <4>2. seen'[h][s] = seen[h][s] /\ i \in DOMAIN plan' /\ row'[plan'[i].dev].pin = row[plan[i].dev].pin
            /\ plan'[i] = plan[i] /\ \A m \in 1..(i - 1) : plan'[m] = plan[m]
        BY <2>2, <2>4, <2>5, <2>6, <3>1
      <4>3. Expects(i, h, s)'
        BY <4>1, <4>2 DEF Expects
      <4>4. QED
        BY <4>2, <4>3
    <3>2. CASE s \notin DOMAIN seen[h]
      <4>1. h = u /\ s \in BoundSlots(p.before) /\ seen'[h][s] = ValueAt(cfg[u], s)
        BY <2>5, <2>9, <3>2
      <4>2. PICK k \in DOMAIN p.before : s \in KeySlots(k)
        BY <4>1 DEF BoundSlots
      <4>3. ASSUME NEW m \in 1..(n - 1), plan[m].dev = e PROVE k \notin DOMAIN plan[m].after
        <5>1. m \in DOMAIN plan /\ row[e].pin = u
          BY <2>1, <2>2, <2>3, <4>3
        <5>2. BoundSlots(plan[m].after) \subseteq DOMAIN seen[u]
          BY <2>1, <2>7, <4>3, <5>1 DEF ActionOK
        <5>3. QED
          BY <3>2, <4>1, <4>2, <5>2 DEF BoundSlots
      <4>4. k \notin DOMAIN DraftProj
        <5> DEFINE acts == Append(plan, [dev |-> e])
                   left == After(plan)
        <5>1. \A j \in 1..Len(plan) : left[j] = plan[j].after /\ acts[j] = plan[j]
          BY <2>1, <2>2, AppendIs DEF After
        <5>2. acts[n].dev = e
          <6>1. acts[n] = [dev |-> e]
            BY <2>1, <2>2, AppendIs
          <6>2. [dev |-> e].dev = e
            OBVIOUS
          <6> HIDE DEF acts, e
          <6>3. QED
            BY <6>1, <6>2
        <5>3. DraftProj = Projection(acts, n, left)
          BY <2>2 DEF DraftProj
        <5> HIDE DEF acts, left
        <5>4. n - 1 = Len(plan)
          BY <2>2
        <5>5. ASSUME k \in DOMAIN Projection(acts, n, left) PROVE FALSE
          <6>1. PICK j \in 1..(n - 1) : acts[j].dev = acts[n].dev /\ k \in DOMAIN left[j]
            BY <2>2, <5>5, ProjectionHas
          <6>2. plan[j].dev = e /\ k \in DOMAIN plan[j].after
            BY <5>1, <5>2, <5>4, <6>1
          <6>3. QED
            BY <4>3, <6>1, <6>2
        <5>6. QED
          BY <5>3, <5>5
      <4>5. Holds(u, k, p.before[k])
        BY <2>3, <4>2, <4>4 DEF Shows
      <4>6. ValueAt(cfg[u], s) = Bound(k, p.before[k], s)
        <5>1. ValueOK(k, p.before[k]) /\ s \in Guarded
          BY <2>3, <2>9 DEF ActionOK, SnapOK
        <5>2. QED
          BY <4>2, <4>5, <5>1, Binds
      <4>7. \A m \in 1..(n - 1) : plan'[m] = plan[m]
        BY <2>2, <2>4
      <4>8. Expects(n, h, s)'
        <5>1. plan'[n].dev = e /\ plan'[n].before = p.before /\ row'[plan'[n].dev].pin = h
          BY <2>3, <2>4, <2>6, <4>1
        <5>2. seen'[h][s] = Bound(k, p.before[k], s)
          BY <4>1, <4>6
        <5>3. \A m \in 1..(n - 1) : plan'[m].dev = plan'[n].dev => k \notin DOMAIN plan'[m].after
          BY <4>3, <4>7, <5>1
        <5>4. k \in DOMAIN plan'[n].before /\ s \in KeySlots(k)
              /\ seen'[h][s] = Bound(k, plan'[n].before[k], s)
          BY <4>2, <5>1, <5>2
        <5>5. QED
          BY <5>1, <5>3, <5>4 DEF Expects
      <4>9. n \in DOMAIN plan'
        BY <2>2, <2>4
      <4>10. QED
        BY <4>8, <4>9
    <3>3. QED
      BY <3>1, <3>2
  <2>10. QED
    BY <2>8, <2>9 DEF PreviewInv
<1>4. QED
  BY <1>2, <1>3, PrepareActions

\* A rollback is prepared from what the routers show, the first action of a
\* device to bind a slot included.
LEMMA PreviewRollback ==
    ASSUME Inv1, prepare_rollbacks
    PROVE  PreviewInv'
<1>1. CASE Stop("refused")
  BY <1>1 DEF Stop, PreviewInv
<1>2. ASSUME NEW now, RollsBack(now) PROVE PreviewInv'
  <2>0. PICK back : back = Inverses(plan)
    OBVIOUS
  <2> DEFINE bound(h) == UNION {BoundSlots(now[i].before) : i \in {j \in DOMAIN now : HostOf(now[j].dev) = h}}
  <2>1. /\ pc = "end" /\ row' = row /\ cfg' = cfg /\ plan' = now /\ Kept(now, back)
        /\ \A d \in Targets : Reachable(d)
        /\ seen' = [h \in Host |-> ValuesAt(cfg[h], bound(h))]
    BY <1>2, <2>0, RollbackIs DEF RollsBack
  <2>2. /\ IsSeq(plan) /\ (\A i \in DOMAIN plan : ActionOK(plan[i]))
        /\ (\A i \in DOMAIN plan : row[plan[i].dev].pin \in Host) /\ None \notin Host
        /\ \A d \in Dev : sess[d] = None
    BY <2>1, DevicePlanAssumption DEF Inv1, PlanInv, SessionInv
  <2>3. /\ IsSeq(back) /\ \A i \in DOMAIN back : ActionOK(back[i]) /\ \E j \in DOMAIN plan : back[i].dev = plan[j].dev
    BY <2>0, <2>2, BackOK
  <2>4. \A i \in DOMAIN now : HostOf(now[i].dev) = row[now[i].dev].pin /\ HostOf(now[i].dev) \in Host
    <3> SUFFICES ASSUME NEW i \in DOMAIN now
                 PROVE  HostOf(now[i].dev) = row[now[i].dev].pin /\ HostOf(now[i].dev) \in Host
      OBVIOUS
    <3>1. now[i].dev = back[i].dev /\ i \in DOMAIN back /\ ActionOK(now[i])
      BY <2>1 DEF Kept
    <3>2. PICK j \in DOMAIN plan : back[i].dev = plan[j].dev
      BY <2>3, <3>1
    <3>3. now[i].dev \in Targets /\ now[i].dev \in Dev /\ row[now[i].dev].pin \in Host
      BY <2>2, <3>1, <3>2 DEF Targets, ActionOK
    <3>4. row[now[i].dev].pin = row[now[i].dev].host
      BY <2>1, <2>2, <3>3 DEF Reachable
    <3>5. QED
      BY <2>2, <3>3, <3>4 DEF HostOf
  <2>5. \A h \in Host : DOMAIN seen'[h] = bound(h) /\ \A s \in bound(h) : seen'[h][s] = ValueAt(cfg[h], s)
    <3> HIDE DEF bound
    <3>1. QED
      BY <2>1, ValuesAtIs
  <2>6. \A i \in DOMAIN now : BoundSlots(now[i].before) \subseteq DOMAIN seen'[row[now[i].dev].pin]
    <3> SUFFICES ASSUME NEW i \in DOMAIN now
                 PROVE  BoundSlots(now[i].before) \subseteq DOMAIN seen'[row[now[i].dev].pin]
      OBVIOUS
    <3>1. BoundSlots(now[i].before) \subseteq bound(HostOf(now[i].dev))
      OBVIOUS
    <3> HIDE DEF bound
    <3>2. QED
      BY <2>4, <2>5, <3>1
  <2>7. ASSUME NEW h \in Host, NEW s \in DOMAIN seen'[h] \cap Guarded
        PROVE  \E i \in DOMAIN now : Expects(i, h, s)'
    <3> DEFINE S == {i \in DOMAIN now : HostOf(now[i].dev) = h /\ s \in BoundSlots(now[i].before)}
    <3>1. s \in bound(h) /\ seen'[h][s] = ValueAt(cfg[h], s) /\ s \in Guarded
      BY <2>5, <2>7
    <3>2. S # {}
      BY <3>1
    <3>3. IsSeq(now) /\ DOMAIN now = DOMAIN back
      BY <2>1 DEF Kept
    <3>4. DOMAIN now = 1..Len(now) /\ Len(now) \in Nat
      BY <3>3, IsSeqHas
    <3>5. S \subseteq Nat
      BY <3>4
    <3>6. \A i : i \in S <=> i \in DOMAIN now /\ HostOf(now[i].dev) = h /\ s \in BoundSlots(now[i].before)
      OBVIOUS
    <3> HIDE DEF S, bound
    <3>7. PICK i \in S : \A j \in S : i <= j
      BY <3>2, <3>5, LeastExists
    <3>8. i \in DOMAIN now /\ HostOf(now[i].dev) = h /\ s \in BoundSlots(now[i].before) /\ i \in Nat
      BY <3>5, <3>6
    <3>9. PICK k \in DOMAIN now[i].before : s \in KeySlots(k)
      BY <3>8 DEF BoundSlots
    <3>10. ASSUME NEW m \in 1..(i - 1), now[m].dev = now[i].dev
           PROVE  s \notin BoundSlots(now[m].before) /\ m \in DOMAIN now
      <4>1. m \in DOMAIN now /\ ~(i <= m)
        BY <3>4, <3>8
      <4>2. m \notin S
        BY <3>7, <4>1
      <4>3. QED
        BY <3>6, <3>8, <3>10, <4>1, <4>2
    <3>11. ASSUME NEW m \in 1..(i - 1), now[m].dev = now[i].dev
           PROVE  k \notin DOMAIN now[m].after /\ k \notin DOMAIN now[m].verify
      <4>1. s \notin BoundSlots(now[m].before) /\ ActionOK(now[m])
        BY <2>1, <3>3, <3>10, <3>11 DEF Kept
      <4>2. s \notin BoundSlots(now[m].after) /\ s \notin BoundSlots(now[m].verify)
        BY <4>1 DEF ActionOK
      <4>3. QED
        BY <3>9, <4>2 DEF BoundSlots
    <3>12. k \notin DOMAIN Projection(back, i, AfterVerify(back))
      <4> DEFINE left == AfterVerify(back)
      <4>1. ASSUME NEW j \in DOMAIN back PROVE DOMAIN left[j] = DOMAIN back[j].after \cup DOMAIN back[j].verify
        <5> DEFINE f == back[j].after
                   g == back[j].verify
        <5>1. left[j] = Over(f, g)
          BY DEF AfterVerify
        <5> HIDE DEF left, f, g
        <5>2. DOMAIN Over(f, g) = DOMAIN f \cup DOMAIN g
          BY OverHas
        <5>3. QED
          BY <5>1, <5>2 DEF f, g
      <4> HIDE DEF left
      <4>2. ASSUME k \in DOMAIN Projection(back, i, left) PROVE FALSE
        <5>1. PICK j \in 1..(i - 1) : back[j].dev = back[i].dev /\ k \in DOMAIN left[j]
          BY <3>8, <4>2, ProjectionHas
        <5>2. j \in DOMAIN back /\ i \in DOMAIN back
          BY <3>3, <3>4, <3>8
        <5>3. now[j].dev = now[i].dev /\ now[j].after = back[j].after /\ now[j].verify = back[j].verify
          BY <2>1, <5>1, <5>2 DEF Kept
        <5>4. k \in DOMAIN now[j].after \cup DOMAIN now[j].verify
          BY <4>1, <5>1, <5>2, <5>3
        <5>5. QED
          BY <3>11, <5>1, <5>3, <5>4
      <4>3. QED
        BY <4>2 DEF left
    <3>13. Holds(h, k, now[i].before[k])
      <4>1. /\ MatchProjected(HostOf(back[i].dev), now[i].before, Projection(back, i, AfterVerify(back)))
            /\ now[i].dev = back[i].dev
        BY <2>1, <3>3, <3>8 DEF Kept
      <4>2. QED
        BY <3>8, <3>9, <3>12, <4>1 DEF MatchProjected
    <3>14. ValueOK(k, now[i].before[k])
      BY <2>1, <3>3, <3>8, <3>9 DEF Kept, ActionOK, SnapOK
    <3>15. ValueAt(cfg[h], s) = Bound(k, now[i].before[k], s)
      BY <3>1, <3>9, <3>13, <3>14, Binds
    <3>16. row'[plan'[i].dev].pin = h /\ plan' = now
      BY <2>1, <2>4, <3>8
    <3>17. seen'[h][s] = Bound(k, plan'[i].before[k], s) /\ k \in DOMAIN plan'[i].before
      BY <3>1, <3>9, <3>15, <3>16
    <3>18. Expects(i, h, s)'
      BY <3>9, <3>11, <3>16, <3>17 DEF Expects
    <3>19. QED
      BY <3>8, <3>18
  <2>8. QED
    BY <2>1, <2>6, <2>7 DEF PreviewInv
<1>3. QED
  BY <1>1, <1>2, RollbackIs

LEMMA PreviewKept ==
    ASSUME PreviewInv, plan' = plan, seen' = seen, \A i \in DOMAIN plan : row'[plan[i].dev].pin = row[plan[i].dev].pin,
           pc' \in {"prepare", "lock"} => pc \in {"prepare", "lock"}
    PROVE  PreviewInv'
<1> SUFFICES ASSUME pc' \in {"prepare", "lock"} PROVE PreviewInv'
  BY DEF PreviewInv
<1>1. /\ \A i \in DOMAIN plan : BoundSlots(plan[i].before) \subseteq DOMAIN seen[row[plan[i].dev].pin]
      /\ \A h \in Host : \A s \in DOMAIN seen[h] \cap Guarded : \E i \in DOMAIN plan : Expects(i, h, s)
  BY DEF PreviewInv
<1>2. \A i \in DOMAIN plan : BoundSlots(plan'[i].before) \subseteq DOMAIN seen'[row'[plan'[i].dev].pin]
  BY <1>1
<1>3. \A h, s : \A i \in DOMAIN plan : Expects(i, h, s) => Expects(i, h, s)'
  BY DEF Expects
<1>4. \A h \in Host : \A s \in DOMAIN seen'[h] \cap Guarded : \E i \in DOMAIN plan' : Expects(i, h, s)'
  BY <1>1, <1>3
<1>5. QED
  BY <1>2, <1>4 DEF PreviewInv

\* The run compares every slot that the plan binds before it starts.
LEMMA SyncPreflight ==
    ASSUME Inv1, PreviewInv, Preflight
    PROVE  SyncInv'
<1>1. CASE Stop("failed")
  BY <1>1 DEF Stop, SyncInv
<1>2. CASE pc' = "exec" /\ AllUp /\ verify_prepared_sequence(plan)
  <2>1. /\ UNCHANGED <<cfg, seen, sess, plan>> /\ pc = "lock"
        /\ \A i \in DOMAIN plan : ActionOK(plan[i]) /\ plan[i].dev \in Dev
        /\ \A d \in Dev : sess[d] \in Host => sess[d] = row[d].pin
        /\ IsSeq(plan)
    BY <1>2 DEF Preflight, Running, Stop, history, Inv1, PlanInv, SessionInv, ActionOK
  <2>2. \A i \in DOMAIN plan : sess[plan[i].dev] \in Host /\ sess[plan[i].dev] = row[plan[i].dev].pin
                               /\ HostOf(plan[i].dev) = row[plan[i].dev].pin
    BY <1>2, <2>1 DEF AllUp, Targets, HostOf
  <2>3. /\ \A i \in DOMAIN plan : BoundSlots(plan[i].before) \subseteq DOMAIN seen[row[plan[i].dev].pin]
        /\ \A h \in Host : \A s \in DOMAIN seen[h] \cap Guarded : \E i \in DOMAIN plan : Expects(i, h, s)
    BY <2>1 DEF PreviewInv
  <2>4. ASSUME NEW i \in DOMAIN plan, NEW s \in BoundSlots(plan[i].before) \cap Guarded
        PROVE  s \in DOMAIN seen[sess[plan[i].dev]]
               /\ seen[sess[plan[i].dev]][s] = ValueAt(cfg[sess[plan[i].dev]], s)
    <3>1. PICK h \in Host : h = sess[plan[i].dev]
      BY <2>2
    <3>2. s \in DOMAIN seen[h]
      BY <2>2, <2>3, <3>1
    <3>3. PICK j \in DOMAIN plan : Expects(j, h, s)
      BY <2>3, <3>2
    <3>4. row[plan[j].dev].pin = h
      BY <3>3 DEF Expects
    <3>5. PICK k \in DOMAIN plan[j].before :
             /\ s \in KeySlots(k) /\ seen[h][s] = Bound(k, plan[j].before[k], s)
             /\ \A m \in 1..(j - 1) : plan[m].dev = plan[j].dev => k \notin DOMAIN plan[m].after
      BY <3>3 DEF Expects
    <3>6. DOMAIN plan = 1..Len(plan) /\ Len(plan) \in Nat /\ j \in Nat
      BY <2>1, IsSeqHas
    <3>7. k \notin DOMAIN Projection(plan, j, After(plan))
      <4> DEFINE left == After(plan)
      <4>1. \A m \in DOMAIN plan : left[m] = plan[m].after
        BY DEF After
      <4> HIDE DEF left
      <4>2. ASSUME k \in DOMAIN Projection(plan, j, left) PROVE FALSE
        <5>1. PICK m \in 1..(j - 1) : plan[m].dev = plan[j].dev /\ k \in DOMAIN left[m]
          BY <3>6, <4>2, ProjectionHas
        <5>2. m \in DOMAIN plan
          BY <3>6
        <5>3. QED
          BY <3>5, <4>1, <5>1, <5>2
      <4>3. QED
        BY <4>2 DEF left
    <3>8. Holds(h, k, plan[j].before[k])
      <4>1. MatchProjected(HostOf(plan[j].dev), plan[j].before, Projection(plan, j, After(plan)))
        BY <1>2 DEF verify_prepared_sequence
      <4>2. HostOf(plan[j].dev) = h
        BY <2>2, <3>4
      <4>3. QED
        BY <3>7, <4>1, <4>2 DEF MatchProjected
    <3>9. ValueOK(k, plan[j].before[k])
      BY <2>1 DEF ActionOK, SnapOK
    <3>10. ValueAt(cfg[h], s) = Bound(k, plan[j].before[k], s)
      BY <3>5, <3>8, <3>9, Binds
    <3>11. QED
      BY <3>1, <3>2, <3>5, <3>10
  <2>5. QED
    BY <2>1, <2>4 DEF SyncInv
<1>3. QED
  BY <1>1, <1>2 DEF Preflight

\* A step that writes nothing and keeps the plan.
LEMMA SyncKept ==
    ASSUME SyncInv, Inv1, plan' = plan, seen' = seen,
           \A d \in Dev : sess'[d] \in Host => sess'[d] = sess[d] /\ cfg'[sess[d]] = cfg[sess[d]],
           pc' \in {"exec", "send", "verify"} => pc \in {"exec", "send", "verify"}
    PROVE  SyncInv'
<1>1. \A i \in DOMAIN plan : plan[i].dev \in Dev
  BY DEF Inv1, PlanInv, ActionOK
<1>2. SUFFICES ASSUME pc' \in {"exec", "send", "verify"}, NEW i \in DOMAIN plan, sess'[plan[i].dev] \in Host,
                      NEW s \in BoundSlots(plan[i].before) \cap Guarded
               PROVE  s \in DOMAIN seen[sess'[plan[i].dev]]
                      /\ seen[sess'[plan[i].dev]][s] = ValueAt(cfg'[sess'[plan[i].dev]], s)
  BY DEF SyncInv
<1>3. sess'[plan[i].dev] = sess[plan[i].dev] /\ cfg'[sess[plan[i].dev]] = cfg[sess[plan[i].dev]]
  BY <1>1, <1>2
<1>4. QED
  BY <1>2, <1>3 DEF SyncInv

\* The inverses bind what the changes bound.
LEMMA SyncNoEffect ==
    ASSUME SyncInv, Inv1, NoEffect, at \in 1..Len(plan), pc \in {"exec", "send", "verify"},
           cfg' = cfg, seen' = seen
    PROVE  SyncInv'
<1>1. CASE pc' = "end"
  BY <1>1 DEF SyncInv
<1>2. CASE plan' = Inverses(SubSeq(plan, 1, at - 1)) /\ sess' = sess
  <2>1. PICK acts : acts = SubSeq(plan, 1, at - 1)
    OBVIOUS
  <2>2. IsSeq(plan) /\ (\A i \in DOMAIN plan : ActionOK(plan[i]))
    BY DEF Inv1, PlanInv
  <2>3. Len(plan) \in Nat /\ DOMAIN plan = 1..Len(plan)
    BY <2>2, IsSeqHas
  <2>4. at - 1 \in Nat /\ at - 1 <= Len(plan)
    BY <2>3
  <2>5. IsSeq(acts) /\ \A i \in DOMAIN acts : i \in DOMAIN plan /\ acts[i] = plan[i]
    BY <2>1, <2>2, <2>3, <2>4, PrefixIs
  <2>6. PICK g : Reverses(plan', acts, g)
    BY <1>2, <2>1, <2>5, InversesAre
  <2>7. ASSUME NEW i \in DOMAIN plan'
        PROVE  \E j \in DOMAIN plan : plan'[i].dev = plan[j].dev /\ BoundSlots(plan'[i].before) = BoundSlots(plan[j].before)
    <3>1. g[i] \in DOMAIN acts /\ plan'[i] = InverseOf(acts[g[i]])
      BY <2>6 DEF Reverses
    <3>2. PICK j \in DOMAIN plan : plan'[i] = InverseOf(plan[j])
      BY <2>5, <3>1
    <3>3. plan'[i].dev = plan[j].dev /\ plan'[i].before = plan[j].after
      BY <3>2 DEF InverseOf
    <3>4. BoundSlots(plan[j].after) = BoundSlots(plan[j].before)
      BY <2>2 DEF ActionOK
    <3>5. QED
      BY <3>3, <3>4
  <2>8. QED
    BY <1>2, <2>7 DEF SyncInv
<1>3. QED
  BY <1>1, <1>2 DEF NoEffect, Stop, Running

\* What a command is sent to and writes, and what it replaces.
LEMMA CommandWrites ==
    ASSUME Inv1, Sending, Up, cfg' = [cfg EXCEPT ![Live] = Apply(@, Cmd)]
    PROVE  /\ \A h \in Host \ {Live} : cfg'[h] = cfg[h]
           /\ \A s \in Slots : (Writes(Cmd) => s # Slot(Cmd)) => ValueAt(cfg'[Live], s) = ValueAt(cfg[Live], s)
           /\ Writes(Cmd) => Slot(Cmd) \in BoundSlots(Act.before)
<1>1. cfg = [h \in Host |-> cfg[h]] /\ Live \in Host /\ Formed(cfg[Live]) /\ Sent(Cmd, BoundSlots(Act.before))
  BY DEF Inv1, TypeInv, Sending
<1>2. cfg'[Live] = Apply(cfg[Live], Cmd) /\ \A h \in Host \ {Live} : cfg'[h] = cfg[h]
  BY <1>1
<1>3. CommandOK(Cmd) /\ (Writes(Cmd) => Slot(Cmd) \in BoundSlots(Act.before))
  BY <1>1 DEF Sent
<1>4. \A s \in Slots : (Writes(Cmd) => s # Slot(Cmd)) => ValueAt(cfg'[Live], s) = ValueAt(cfg[Live], s)
  BY <1>1, <1>2, <1>3, ApplyAt
<1>5. QED
  BY <1>2, <1>3, <1>4

LEMMA SyncAccepted ==
    ASSUME Inv1, SyncInv, CommandAccepted
    PROVE  SyncInv'
<1>1. Accepted
  BY Accepts
<1>2. /\ Sending /\ Up /\ plan' = plan /\ sess' = sess /\ pc = "send"
      /\ cfg' = [cfg EXCEPT ![Live] = Apply(@, Cmd)]
      /\ Live \in Host /\ Live = sess[Act.dev] /\ Act.dev \in Dev
      /\ seen = [h \in Host |-> seen[h]]
  BY <1>1 DEF Accepted, Sending, Live, Inv1, TypeInv
<1>3. /\ \A h \in Host \ {Live} : seen'[h] = seen[h]
      /\ DOMAIN seen[Live] \subseteq DOMAIN seen'[Live]
      /\ \A s \in DOMAIN seen[Live] : (Writes(Cmd) => s # Slot(Cmd)) => seen'[Live][s] = seen[Live][s]
      /\ Writes(Cmd) => /\ Slot(Cmd) \in DOMAIN seen'[Live]
                        /\ seen'[Live][Slot(Cmd)] = ValueAt(cfg'[Live], Slot(Cmd))
  <2>1. CASE Writes(Cmd)
    <3>1. PICK new : new = ValuesAt(cfg'[Live], {Slot(Cmd)})
      OBVIOUS
    <3>2. PICK old : old = seen[Live]
      OBVIOUS
    <3>3. seen'[Live] = Over(new, old) /\ \A h \in Host \ {Live} : seen'[h] = seen[h]
      BY <1>1, <1>2, <2>1, <3>1, <3>2 DEF Accepted
    <3>4. DOMAIN new = {Slot(Cmd)} /\ new[Slot(Cmd)] = ValueAt(cfg'[Live], Slot(Cmd))
      BY <3>1, ValuesAtIs
    <3>5. /\ DOMAIN Over(new, old) = DOMAIN new \cup DOMAIN old
          /\ \A k \in DOMAIN new : Over(new, old)[k] = new[k]
          /\ \A k \in DOMAIN old \ DOMAIN new : Over(new, old)[k] = old[k]
      BY OverHas
    <3>6. QED
      BY <2>1, <3>2, <3>3, <3>4, <3>5
  <2>2. CASE ~Writes(Cmd)
    BY <1>1, <2>2 DEF Accepted
  <2>3. QED
    BY <2>1, <2>2
<1>4. SUFFICES ASSUME NEW i \in DOMAIN plan, sess[plan[i].dev] \in Host,
                      NEW s \in BoundSlots(plan[i].before) \cap Guarded
               PROVE  s \in DOMAIN seen'[sess[plan[i].dev]]
                      /\ seen'[sess[plan[i].dev]][s] = ValueAt(cfg'[sess[plan[i].dev]], s)
  BY <1>2 DEF SyncInv
<1>5. s \in DOMAIN seen[sess[plan[i].dev]] /\ seen[sess[plan[i].dev]][s] = ValueAt(cfg[sess[plan[i].dev]], s)
      /\ s \in Slots
  BY <1>2, <1>4, GuardedAreSlots DEF SyncInv
<1>6. CASE sess[plan[i].dev] # Live
  BY <1>2, <1>3, <1>4, <1>5, <1>6, CommandWrites
<1>7. CASE sess[plan[i].dev] = Live
  <2>1. CASE Writes(Cmd) => s # Slot(Cmd)
    BY <1>2, <1>3, <1>5, <1>7, <2>1, CommandWrites
  <2>2. CASE Writes(Cmd) /\ s = Slot(Cmd)
    BY <1>3, <1>7, <2>2
  <2>3. QED
    BY <2>1, <2>2
<1>8. QED
  BY <1>6, <1>7

\* A refusal or an unknown effect ends the run.
LEMMA EndKeeps ==
    ASSUME pc' = "end"
    PROVE  PreviewInv' /\ SyncInv'
BY DEF PreviewInv, SyncInv

LEMMA UnansweredWithoutEffect ==
    ASSUME Inv1, Unanswered, ~command_may_change_state(Cmd)
    PROVE  cfg' = cfg
<1>1. Cmd.c = "exit"
  BY DEF Unanswered, Sending, Sent, CommandOK, command_may_change_state
<1>2. Apply(cfg[Live], Cmd) = cfg[Live]
  BY <1>1 DEF Apply
<1>3. cfg = [h \in Host |-> cfg[h]]
  BY DEF Inv1, TypeInv
<1>4. QED
  BY <1>2, <1>3 DEF Unanswered

LEMMA SeenNext ==
    ASSUME Inv1, PreviewInv, SyncInv, [Next]_vars
    PROVE  PreviewInv' /\ SyncInv'
<1>0. \A i \in DOMAIN plan : plan[i].dev \in Dev
  BY DEF Inv1, PlanInv, ActionOK
<1>1. CASE prepare_actions
  <2>1. PrepareFrame /\ ((Stop("refused") /\ UNCHANGED <<plan, seen>>) \/ \E p : PrepareStep(p))
    BY <1>1, PrepareActions
  <2>2. pc' \in {"prepare", "end"}
    BY <2>1 DEF PrepareFrame, PrepareStep, Stop
  <2>3. QED
    BY <1>1, <2>2, PreviewPrepare DEF SyncInv
<1>2. CASE inspect_actions \/ acquire
  <2>1. plan' = plan /\ seen' = seen /\ row' = row /\ pc' \in {"lock", "end"} /\ pc \in {"prepare", "lock"}
    <3>1. CASE inspect_actions
      BY <3>1 DEF inspect_actions, Stop, history
    <3>2. CASE acquire
      BY <3>2, Acquires DEF acquire, Stop, Locks, history
    <3>3. QED
      BY <1>2, <3>1, <3>2
  <2>2. QED
    BY <2>1, PreviewKept DEF SyncInv
<1>3. CASE PrepareFails \/ AcquireFails \/ ReadFails \/ VerifyLost \/ Finish
  <2>1. pc' = "end"
    BY <1>3 DEF PrepareFails, AcquireFails, ReadFails, VerifyLost, Finish, Stop, Unknown
  <2>2. QED
    BY <2>1, EndKeeps
<1>4. CASE Preflight
  <2>1. pc' \in {"exec", "end"}
    BY <1>4 DEF Preflight, Stop
  <2>2. QED
    BY <1>4, <2>1, SyncPreflight DEF PreviewInv
<1>5. CASE execute_prepared
  <2>1. cfg' = cfg /\ seen' = seen /\ pc = "exec" /\ at \in 1..Len(plan)
    BY <1>5, BusyAt DEF execute_prepared, Busy
  <2>2. CASE Unknown
    BY <2>2, EndKeeps DEF Unknown, Stop
  <2>3. CASE NoEffect
    BY <2>1, <2>3, SyncNoEffect DEF PreviewInv, NoEffect, Stop, Running
  <2>4. CASE /\ plan' = plan /\ Running /\ pc' \in {"exec", "send"}
    BY <2>1, <2>4, SyncKept DEF PreviewInv, Running
  <2>5. QED
    BY <1>5, <2>2, <2>3, <2>4 DEF execute_prepared, Proceed
<1>6. CASE CommandAccepted
  BY <1>6, SyncAccepted, Accepts DEF Accepted, PreviewInv
<1>7. CASE CommandRejected
  <2>1. cfg' = cfg /\ seen' = seen /\ pc = "send" /\ at \in 1..Len(plan) /\ (Unknown \/ NoEffect)
    BY <1>7, BusyAt DEF CommandRejected, history
  <2>2. CASE Unknown
    BY <2>2, EndKeeps DEF Unknown, Stop
  <2>3. CASE NoEffect
    BY <2>1, <2>3, SyncNoEffect DEF PreviewInv, NoEffect, Stop, Running
  <2>4. QED
    BY <2>1, <2>2, <2>3
<1>8. CASE CommandUnanswered
  <2>1. Unanswered
    BY <1>8, Unanswers
  <2>2. seen' = seen /\ pc = "send" /\ at \in 1..Len(plan)
    BY <2>1 DEF Unanswered, Sending
  <2>3. CASE Unknown
    BY <2>3, EndKeeps DEF Unknown, Stop
  <2>4. CASE NoEffect /\ ~command_may_change_state(Cmd)
    <3>1. cfg' = cfg
      BY <2>1, <2>4, UnansweredWithoutEffect
    <3>2. QED
      BY <2>2, <2>4, <3>1, SyncNoEffect DEF PreviewInv, NoEffect, Stop, Running
  <2>5. QED
    BY <2>1, <2>3, <2>4 DEF Unanswered
<1>9. CASE verify_with_retry
  <2>1. cfg' = cfg /\ seen' = seen /\ pc = "verify" /\ (Unknown \/ Proceed)
    BY <1>9 DEF verify_with_retry, history
  <2>2. CASE Unknown
    BY <2>2, EndKeeps DEF Unknown, Stop
  <2>3. CASE Proceed
    BY <2>1, <2>3, SyncKept DEF PreviewInv, Proceed, Running
  <2>4. QED
    BY <2>1, <2>2, <2>3
<1>10. CASE prepare_rollbacks
  <2>1. pc' \in {"lock", "end"}
    BY <1>10, RollbackIs DEF RollsBack, Stop
  <2>2. QED
    BY <1>10, <2>1, PreviewRollback DEF SyncInv
<1>11. ASSUME NEW h \in Host, ForeignEdit(h) PROVE PreviewInv' /\ SyncInv'
  <2>1. PICK c : cfg' = [cfg EXCEPT ![h] = c]
    BY <1>11 DEF ForeignEdit
  <2>2. UNCHANGED <<row, sess, plan, pc, seen>> /\ ~Locked(h)
    BY <1>11 DEF ForeignEdit, wires, run, history
  <2>3. \A d \in Dev : sess[d] \in Host => cfg'[sess[d]] = cfg[sess[d]]
    BY <2>1, <2>2 DEF Locked, Inv1, TypeInv
  <2>4. QED
    BY <2>2, <2>3, PreviewKept, SyncKept
<1>12. ASSUME NEW d \in Dev, EditDevice(d) PROVE PreviewInv' /\ SyncInv'
  <2>1. UNCHANGED <<cfg, sess, plan, pc, seen>>
    BY <1>12 DEF EditDevice, run, history
  <2>2. \A e \in Dev : row'[e].pin = row[e].pin
    <3>1. PICK h \in Host : row' = [row EXCEPT ![d].host = h]
      BY <1>12 DEF EditDevice
    <3>2. row \in [Dev -> [host : Host, pin : Host \cup {None}]]
      BY DEF Inv1, TypeInv
    <3>3. QED
      BY <3>1, <3>2
  <2>3. QED
    BY <1>0, <2>1, <2>2, PreviewKept, SyncKept
<1>13. ASSUME NEW d \in Dev, SessionDrop(d) PROVE PreviewInv' /\ SyncInv'
  <2>1. UNCHANGED <<cfg, row, plan, pc, seen>> /\ sess' = [sess EXCEPT ![d] = "dead"]
    BY <1>13 DEF SessionDrop, run, history
  <2>2. "dead" \notin Host
    BY DevicePlanAssumption
  <2>3. \A e \in Dev : sess'[e] = IF e = d THEN "dead" ELSE sess[e]
    BY <2>1 DEF Inv1, TypeInv
  <2>4. QED
    BY <2>1, <2>2, <2>3, PreviewKept, SyncKept
<1>14. CASE \/ UNCHANGED vars
            \/ \E h \in Host : Converge(h) \/ Flap(h)
  <2>1. UNCHANGED <<cfg, row, sess, plan, pc, seen>>
    BY <1>14 DEF vars, wires, run, history, Converge, Flap
  <2>2. QED
    BY <2>1, PreviewKept, SyncKept
<1>15. QED
  BY <1>1, <1>2, <1>3, <1>4, <1>5, <1>6, <1>7, <1>8, <1>9, <1>10, <1>11, <1>12, <1>13, <1>14
     DEF Next, Process, Environment

LEMMA SeenInit ==
    ASSUME Init PROVE PreviewInv /\ SyncInv /\ edits = 0
<1>1. DOMAIN plan = {} /\ \A h \in Host : DOMAIN seen[h] = {}
  BY DEF Init
<1>2. QED
  BY <1>1 DEF Init, PreviewInv, SyncInv

LEMMA EditsNext ==
    ASSUME edits \in Nat, [Next]_vars
    PROVE  edits' \in Nat /\ (cfg' # cfg /\ edits' = edits => CommandAccepted \/ CommandUnanswered)
<1>1. CASE Process
  <2>1. CASE prepare_rollbacks
    BY <2>1 DEF prepare_rollbacks
  <2>2. CASE prepare_actions \/ inspect_actions \/ PrepareFails
    BY <2>2 DEF prepare_actions, inspect_actions, PrepareFails
  <2>3. CASE acquire \/ AcquireFails \/ Preflight
    BY <2>3 DEF acquire, AcquireFails, Preflight
  <2>4. CASE execute_prepared \/ ReadFails \/ Finish
    BY <2>4 DEF execute_prepared, ReadFails, Finish
  <2>5. CASE CommandAccepted \/ CommandRejected \/ CommandUnanswered
    BY <2>5 DEF CommandAccepted, CommandRejected, CommandUnanswered
  <2>6. CASE verify_with_retry \/ VerifyLost
    BY <2>6 DEF verify_with_retry, VerifyLost
  <2>7. QED
    BY <1>1, <2>1, <2>2, <2>3, <2>4, <2>5, <2>6 DEF Process
<1>2. CASE Environment
  <2>1. ASSUME NEW h \in Host, ForeignEdit(h) \/ Converge(h) \/ Flap(h) PROVE edits' \in Nat /\ (cfg' = cfg \/ edits' # edits)
    BY <2>1 DEF ForeignEdit, Converge, Flap, Edit
  <2>2. ASSUME NEW d \in Dev, EditDevice(d) \/ SessionDrop(d) PROVE edits' \in Nat /\ cfg' = cfg
    BY <2>2 DEF EditDevice, SessionDrop, Edit
  <2>3. QED
    BY <1>2, <2>1, <2>2 DEF Environment
<1>3. CASE UNCHANGED vars
  BY <1>3 DEF vars
<1>4. QED
  BY <1>1, <1>2, <1>3 DEF Next

\* Only a command that writes changes a router, in the slot it writes, which its
\* action binds.
LEMMA WriteReplaces ==
    ASSUME Inv1, SyncInv, CommandAccepted \/ CommandUnanswered, NEW s \in Guarded
    PROVE  ReplacesPreviewed(s)
<1>1. Sending /\ (cfg' = cfg \/ (Up /\ cfg' = [cfg EXCEPT ![Live] = Apply(@, Cmd)]))
  BY Accepts, Unanswers DEF Accepted, Unanswered
<1>2. CASE cfg' = cfg
  BY <1>2 DEF ReplacesPreviewed
<1>3. CASE Up /\ cfg' = [cfg EXCEPT ![Live] = Apply(@, Cmd)]
  <2>1. /\ \A h \in Host \ {Live} : cfg'[h] = cfg[h]
        /\ \A t \in Slots : (Writes(Cmd) => t # Slot(Cmd)) => ValueAt(cfg'[Live], t) = ValueAt(cfg[Live], t)
        /\ Writes(Cmd) => Slot(Cmd) \in BoundSlots(Act.before)
    BY <1>1, <1>3, CommandWrites
  <2>2. s \in Slots
    BY GuardedAreSlots
  <2>3. /\ at \in DOMAIN plan /\ Live = sess[plan[at].dev] /\ Act = plan[at] /\ Live \in Host /\ pc = "send"
    BY <1>1, <1>3 DEF Sending, Live, Act
  <2>4. SUFFICES ASSUME NEW h \in Host, ValueAt(cfg'[h], s) # ValueAt(cfg[h], s)
                 PROVE  s \in DOMAIN seen[h] /\ seen[h][s] = ValueAt(cfg[h], s)
    BY DEF ReplacesPreviewed
  <2>5. h = Live /\ Writes(Cmd) /\ s = Slot(Cmd)
    BY <2>1, <2>2, <2>4
  <2>6. s \in BoundSlots(plan[at].before) \cap Guarded
    BY <2>1, <2>3, <2>5
  <2>7. QED
    BY <2>3, <2>5, <2>6 DEF SyncInv
<1>4. QED
  BY <1>1, <1>2, <1>3

\* Whatever other operators do between the preview and the run, or between the run
\* and its rollback, a command replaces exactly the value the plan was prepared
\* from or that it wrote itself (verify_current under the native lock,
\* device_plan.rs:1512).
THEOREM OnlyPreviewedReplaced == Spec => WriteReplacesPreviewed
<1> DEFINE Inv == Inv1 /\ PreviewInv /\ SyncInv /\ edits \in Nat
<1>1. Init => Inv
  BY Inv1Init, SeenInit
<1>2. Inv /\ [Next]_vars => Inv'
  BY Inv1Next, SeenNext, EditsNext
<1>3. Inv /\ [Next]_vars => [ProcessWrote => \A s \in Guarded : ReplacesPreviewed(s)]_vars
  BY WriteReplaces, EditsNext DEF ProcessWrote
<1>4. QED
  BY <1>1, <1>2, <1>3, PTL DEF Spec, WriteReplacesPreviewed
-----------------------------------------------------------------------------
(* What a rollback restores *)

LEMMA LeastBinding ==
    ASSUME Inv1, NEW A, A \subseteq DOMAIN plan, NEW d, NEW s, Binding(plan, A, d, s) # {}
    PROVE  \E p \in Binding(plan, A, d, s) : \A j \in Binding(plan, A, d, s) : p <= j
<1>1. DOMAIN plan = 1..Len(plan)
  BY IsSeqHas DEF Inv1, PlanInv
<1> DEFINE S == Binding(plan, A, d, s)
<1>2. S \subseteq Nat /\ S # {}
  BY <1>1 DEF Binding
<1> HIDE DEF S
<1>3. \E p \in S : \A j \in S : p <= j
  BY <1>2, LeastExists
<1>4. QED
  BY <1>3 DEF S

\* The inverse of the first change to bind s restores what that change found.
LEMMA InverseRestores ==
    ASSUME Inv1, NEW acts, \A i \in DOMAIN acts : i \in DOMAIN plan /\ acts[i] = plan[i],
           NEW back, NEW g, Reverses(back, acts, g), NEW A, A = {i \in DOMAIN acts : plan[i].eff = "change"},
           NEW now, DOMAIN now = DOMAIN back,
           \A i \in DOMAIN back : /\ now[i].dev = back[i].dev /\ now[i].verify = back[i].verify
                                  /\ BoundSlots(now[i].before) = BoundSlots(back[i].before),
           NEW d, NEW s, NEW v, Binding(plan, A, d, s) # {}, FirstExpects(plan, A, d, s, v),
           \A i \in A : Undoes(plan[i])
    PROVE  \E m \in DOMAIN now : Restores(now, m, d, s, v)
<1>1. IsSeq(plan) /\ \A i \in DOMAIN plan : ActionOK(plan[i])
  BY DEF Inv1, PlanInv
<1>2. PICK p \in Binding(plan, A, d, s) : \A j \in Binding(plan, A, d, s) : p <= j
  BY LeastBinding
<1>3. /\ p \in A /\ p \in DOMAIN acts /\ p \in DOMAIN plan /\ plan[p].dev = d
      /\ s \in BoundSlots(plan[p].before) /\ acts[p] = plan[p] /\ acts[p].eff = "change"
  BY <1>2 DEF Binding
<1>4. PICK k \in DOMAIN plan[p].before : s \in KeySlots(k)
  BY <1>3 DEF BoundSlots
<1>5. Bound(k, plan[p].before[k], s) = v
  BY <1>2, <1>4 DEF FirstExpects
<1>6. k \in DOMAIN plan[p].restore /\ plan[p].restore[k] = plan[p].before[k]
  BY <1>3, <1>4 DEF Undoes
<1>7. PICK m \in DOMAIN back : g[m] = p
  BY <1>3 DEF Reverses
<1>8. back[m] = InverseOf(plan[p])
  BY <1>3, <1>7 DEF Reverses
<1>9. back[m].dev = d /\ back[m].verify = plan[p].restore
  BY <1>3, <1>8 DEF InverseOf
<1>10. ASSUME NEW j \in DOMAIN now, j > m, now[j].dev = d
       PROVE  s \notin BoundSlots(now[j].before)
  <2>0. PICK q : q = g[j]
    OBVIOUS
  <2>1. j \in DOMAIN back /\ m \in DOMAIN back /\ m < j
    <3>1. j \in Nat /\ m \in Nat
      BY <1>7, IsSeqHas DEF Reverses
    <3>2. QED
      BY <1>7, <1>10, <3>1
  <2>2. q < p /\ q \in DOMAIN acts /\ acts[q].eff = "change" /\ back[j] = InverseOf(acts[q])
    BY <1>7, <2>0, <2>1 DEF Reverses
  <2>3. q \in A /\ acts[q] = plan[q] /\ q \in DOMAIN plan
    BY <2>2
  <2>4. back[j].dev = plan[q].dev /\ back[j].before = plan[q].after
    BY <2>2, <2>3 DEF InverseOf
  <2>5. BoundSlots(now[j].before) = BoundSlots(plan[q].before) /\ plan[q].dev = d
    BY <1>1, <1>10, <2>1, <2>3, <2>4 DEF ActionOK
  <2>6. ~(p <= q)
    <3>1. p \in Nat /\ q \in Nat
      BY <1>1, <1>3, <2>3, IsSeqHas
    <3>2. QED
      BY <2>2, <3>1
  <2>7. QED
    BY <1>2, <2>3, <2>5, <2>6 DEF Binding
<1>11. now[m].dev = d /\ now[m].verify = plan[p].restore /\ m \in DOMAIN now
  BY <1>7, <1>9
<1>12. Restores(now, m, d, s, v)
  BY <1>4, <1>5, <1>6, <1>10, <1>11 DEF Restores
<1>13. QED
  BY <1>11, <1>12

\* The actions already begun come before the one at work.
LEMMA BegunIs ==
    ASSUME Inv1
    PROVE  /\ Begun \subseteq Changing /\ Changing \subseteq DOMAIN plan /\ Wrote \subseteq Begun
           /\ \A i \in DOMAIN plan : i \in Nat /\ i >= 1 /\ i <= Len(plan)
           /\ at \in Nat /\ Len(plan) \in Nat
<1>1. IsSeq(plan) /\ at \in Nat
  BY DEF Inv1, PlanInv, TypeInv
<1>2. \A i \in DOMAIN plan : i \in Nat /\ i >= 1 /\ i <= Len(plan)
  BY <1>1, IsSeqHas
<1>3. QED
  BY <1>1, <1>2, IsSeqHas DEF Begun, Changing, Wrote

\* Compensation starts with the inverses of the changes made, each slot written
\* restored by the last of them to bind it.
LEMMA BackwardNoEffect ==
    ASSUME Inv1, ForwardInv, BackwardInv, NoEffect, at \in 1..Len(plan), pc \in {"exec", "send"},
           pc = "send" => ~changed, cfg' = cfg, found' = found
    PROVE  BackwardInv' /\ ForwardInv'
<1>1. CASE pc' = "end" /\ dir' = dir /\ plan' = plan /\ outcome' # "succeeded"
  BY <1>1 DEF BackwardInv, ForwardInv, Changing
<1>2. CASE /\ dir = "fwd" /\ dir' = "undo" /\ at' = 1 /\ pc' = "exec" /\ sess' = sess
           /\ plan' = Inverses(SubSeq(plan, 1, at - 1))
  <2>1. PICK acts : acts = SubSeq(plan, 1, at - 1)
    OBVIOUS
  <2>2. IsSeq(plan) /\ (\A i \in DOMAIN plan : ActionOK(plan[i])) /\ DOMAIN plan = 1..Len(plan) /\ Len(plan) \in Nat
    BY IsSeqHas DEF Inv1, PlanInv
  <2>3. at - 1 \in Nat /\ at - 1 <= Len(plan)
    BY <2>2
  <2>4. IsSeq(acts) /\ DOMAIN acts = 1..(at - 1) /\ \A i \in DOMAIN acts : i \in DOMAIN plan /\ acts[i] = plan[i]
    BY <2>1, <2>2, <2>3, PrefixIs
  <2>5. PICK back : back = Inverses(acts)
    OBVIOUS
  <2>6. PICK g : Reverses(back, acts, g)
    BY <2>4, <2>5, InversesAre
  <2>7. plan' = back
    BY <1>2, <2>1, <2>5
  <2>8. \A i \in DOMAIN back : back[i].after = back[i].verify /\ back[i].eff = "change"
    BY <2>6 DEF Reverses, InverseOf
  <2>9. ASSUME NEW d \in Dev, sess[d] \in Host, NEW s \in DOMAIN found[sess[d]] \cap Guarded
        PROVE  \E m \in DOMAIN back : m \in Nat /\ m >= 1 /\ Restores(back, m, d, s, found[sess[d]][s])
    <3>1. PICK A : A = {i \in DOMAIN acts : plan[i].eff = "change"}
      OBVIOUS
    <3>2. A \subseteq Begun /\ A \subseteq DOMAIN plan /\ (\A i \in A : i < at) /\ (\A i \in Begun : i < at => i \in A)
      <4>1. \A i \in A : i \in Nat /\ i < at /\ i \in DOMAIN plan /\ plan[i].eff = "change"
        BY <2>3, <2>4, <3>1
      <4>2. ASSUME NEW i \in Begun, i < at PROVE i \in A
        <5>1. i \in DOMAIN plan /\ plan[i].eff = "change" /\ i \in Nat /\ i >= 1
          BY BegunIs DEF Changing
        <5>2. i \in DOMAIN acts
          BY <2>3, <2>4, <4>2, <5>1
        <5>3. QED
          BY <3>1, <5>1, <5>2
      <4>3. QED
        BY <4>1, <4>2 DEF Begun, Changing
    <3>3. \A i \in Wrote : i \in A
      <4>1. \A i \in Wrote : i \in Begun /\ i < at
        BY BegunIs DEF Wrote, Begun
      <4>2. QED
        BY <3>2, <4>1
    <3>4. /\ Binding(plan, Wrote, d, s) # {} /\ FirstExpects(plan, Begun, d, s, Orig(sess[d], s))
          /\ \A i \in Changing : Undoes(plan[i])
      BY <1>2, <2>9 DEF ForwardInv
    <3>5. Orig(sess[d], s) = found[sess[d]][s]
      BY <2>9 DEF Orig
    <3>6. Binding(plan, A, d, s) # {}
      BY <3>3, <3>4 DEF Binding
    <3>7. FirstExpects(plan, A, d, s, found[sess[d]][s])
      <4>1. ASSUME NEW i \in Binding(plan, A, d, s), \A j \in Binding(plan, A, d, s) : i <= j
            PROVE  i \in Binding(plan, Begun, d, s) /\ \A j \in Binding(plan, Begun, d, s) : i <= j
        <5>1. i \in Binding(plan, Begun, d, s) /\ i < at /\ i \in Nat
          BY <3>2, BegunIs DEF Binding
        <5>2. ASSUME NEW j \in Binding(plan, Begun, d, s) PROVE i <= j
          <6>1. j \in Begun /\ j \in Nat /\ (j < at => j \in Binding(plan, A, d, s))
            BY <3>2, BegunIs DEF Binding
          <6>2. CASE j < at
            BY <4>1, <6>1, <6>2
          <6>3. CASE ~(j < at)
            BY <2>3, <5>1, <6>1, <6>3
          <6>4. QED
            BY <6>2, <6>3
        <5>3. QED
          BY <5>1, <5>2
      <4>2. QED
        BY <3>4, <3>5, <4>1 DEF FirstExpects
    <3>8. \A i \in A : Undoes(plan[i])
      BY <3>2, <3>4, BegunIs
    <3>9. PICK m \in DOMAIN back : Restores(back, m, d, s, found[sess[d]][s])
      BY <2>4, <2>6, <3>1, <3>6, <3>7, <3>8, InverseRestores
    <3>10. m \in Nat /\ m >= 1
      BY <2>6, IsSeqHas DEF Reverses
    <3>11. QED
      BY <3>9, <3>10
  <2>10. ASSUME NEW d \in Dev, sess'[d] \in Host, NEW s \in DOMAIN found'[sess'[d]] \cap Guarded
         PROVE  \E m \in DOMAIN plan' :
                   /\ Restores(plan', m, d, s, found'[sess'[d]][s])
                   /\ at' > m => ValueAt(cfg'[sess'[d]], s) = found'[sess'[d]][s]
    <3>1. PICK m \in DOMAIN back : m \in Nat /\ m >= 1 /\ Restores(back, m, d, s, found[sess[d]][s])
      BY <1>2, <2>9, <2>10
    <3>2. ~(at' > m)
      BY <1>2, <3>1
    <3>3. Restores(plan', m, d, s, found'[sess'[d]][s])
      BY <1>2, <2>7, <3>1
    <3>4. QED
      BY <2>7, <3>2, <3>3
  <2>11. BackwardInv'
    BY <1>2, <2>7, <2>8, <2>10 DEF BackwardInv
  <2>12. QED
    BY <1>2, <2>11 DEF ForwardInv
<1>3. QED
  BY <1>1, <1>2 DEF NoEffect, Stop, Running
UndoInv == ForwardInv /\ BackwardInv

LEMMA EndUndo ==
    ASSUME UndoInv, pc' = "end", dir' = dir, plan' = plan, outcome' # "succeeded"
    PROVE  UndoInv'
BY DEF UndoInv, BackwardInv, ForwardInv, Changing

\* A step of the environment.
LEMMA UndoKept ==
    ASSUME Inv1, UndoInv, UNCHANGED <<plan, dir, found, at, pc, changed, outcome>>,
           \A d \in Dev : row'[d].pin = row[d].pin,
           \A d \in Dev : sess'[d] \in Host => sess'[d] = sess[d] /\ cfg'[sess[d]] = cfg[sess[d]]
    PROVE  UndoInv'
<1>1. Changing' = Changing /\ Begun' = Begun /\ Wrote' = Wrote /\ Targets' = Targets
  BY DEF Changing, Begun, Wrote, Targets
<1>2. \A d \in Targets : d \in Dev
  BY TargetsAreDevices
<1>3. \A d \in Dev : sess'[d] \in Host => \A s : Orig(sess[d], s)' = Orig(sess[d], s)
  BY DEF Orig
<1>4. ForwardInv'
  <2> SUFFICES ASSUME dir = "fwd" PROVE ForwardInv'
    BY DEF ForwardInv
  <2>1. \A i \in Changing' : Undoes(plan'[i])
    BY <1>1 DEF UndoInv, ForwardInv
  <2>2. pc' \in {"exec", "send", "verify"} => \A d \in Dev : sess'[d] \in Host =>
              /\ \A s \in DOMAIN found'[sess'[d]] : Binding(plan', Wrote', d, s) # {}
              /\ \A s \in Guarded : FirstExpects(plan', Begun', d, s, Orig(sess[d], s)')
    <3> SUFFICES ASSUME pc \in {"exec", "send", "verify"}, NEW d \in Dev, sess'[d] \in Host
                 PROVE  /\ \A s \in DOMAIN found'[sess'[d]] : Binding(plan', Wrote', d, s) # {}
                        /\ \A s \in Guarded : FirstExpects(plan', Begun', d, s, Orig(sess[d], s)')
      OBVIOUS
    <3>1. sess'[d] = sess[d] /\ \A s : Orig(sess[d], s)' = Orig(sess[d], s)
      BY <1>3
    <3>2. /\ \A s \in DOMAIN found[sess[d]] : Binding(plan, Wrote, d, s) # {}
          /\ \A s \in Guarded : FirstExpects(plan, Begun, d, s, Orig(sess[d], s))
      BY <3>1 DEF UndoInv, ForwardInv
    <3>3. QED
      BY <1>1, <3>1, <3>2
  <2>3. outcome' = "succeeded" => \A d \in Targets' :
              \A s \in DOMAIN found'[row'[d].pin] :
                 /\ Binding(plan', Changing', d, s) # {}
                 /\ s \in Guarded => FirstExpects(plan', Changing', d, s, found'[row'[d].pin][s])
    BY <1>1, <1>2 DEF UndoInv, ForwardInv
  <2>4. (pc' \in {"prepare", "lock"} => \A h \in Host : DOMAIN found'[h] = {})
        /\ (pc' \in {"send", "verify"} => at' \in Changing')
    BY <1>1 DEF UndoInv, ForwardInv
  <2>5. QED
    BY <2>1, <2>2, <2>3, <2>4 DEF ForwardInv
<1>5. BackwardInv'
  BY <1>1, <1>2 DEF UndoInv, BackwardInv
<1>6. QED
  BY <1>4, <1>5 DEF UndoInv

\* Before the run, the complete set is checked and the sessions are opened.
LEMMA BeforeRun ==
    ASSUME Inv1, UndoInv, UNCHANGED <<plan, dir, found, outcome, row>>, pc \in {"prepare", "lock"}, pc' = "lock",
           \A d \in Dev : sess'[d] \in Host => d \in Targets \/ sess[d] \in Host
    PROVE  UndoInv'
<1>1. Changing' = Changing /\ Targets' = Targets
  BY DEF Changing, Targets
<1>2. outcome = None /\ None # "succeeded"
  BY DEF Inv1, PlanInv, None
<1>3. ForwardInv'
  BY <1>1, <1>2 DEF UndoInv, ForwardInv
<1>4. BackwardInv'
  BY <1>1, <1>2 DEF UndoInv, BackwardInv
<1>5. QED
  BY <1>3, <1>4 DEF UndoInv

LEMMA UndoPrepare ==
    ASSUME Inv1, UndoInv, prepare_actions
    PROVE  UndoInv'
<1>1. PrepareFrame
  BY PrepareActions
<1>2. CASE Stop("refused") /\ UNCHANGED <<plan, seen>>
  BY <1>1, <1>2, EndUndo DEF Stop, PrepareFrame
<1>3. ASSUME NEW p, PrepareStep(p) PROVE UndoInv'
  <2>1. pc = "prepare" /\ pc' = pc /\ dir' = dir /\ found' = found /\ outcome' = outcome /\ outcome = None
        /\ plan' = Append(plan, p) /\ (p.eff = "change" => Undoes(p)) /\ dir = "fwd"
    BY <1>1, <1>3 DEF PrepareFrame, PrepareStep, PreparedOK, Inv1, PlanInv
  <2>2. IsSeq(plan)
    BY DEF Inv1, PlanInv
  <2>3. \A i \in DOMAIN plan' : (i \in DOMAIN plan /\ plan'[i] = plan[i]) \/ plan'[i] = p
    <3>1. IsSeq(plan') /\ Len(plan') = Len(plan) + 1 /\ plan'[Len(plan) + 1] = p
          /\ \A i \in 1..Len(plan) : plan'[i] = plan[i]
      BY <2>1, <2>2, AppendIs
    <3>2. Len(plan) \in Nat /\ DOMAIN plan = 1..Len(plan) /\ DOMAIN plan' = 1..(Len(plan) + 1)
      BY <2>2, <3>1, IsSeqHas
    <3>3. QED
      BY <3>1, <3>2
  <2>4. \A i \in Changing' : Undoes(plan'[i])
    BY <2>1, <2>3 DEF Changing, UndoInv, ForwardInv
  <2>5. None # "succeeded"
    BY DEF None
  <2>6. ForwardInv'
    BY <2>1, <2>4, <2>5 DEF UndoInv, ForwardInv
  <2>7. BackwardInv'
    BY <2>1 DEF BackwardInv
  <2>8. QED
    BY <2>6, <2>7 DEF UndoInv
<1>4. QED
  BY <1>2, <1>3, PrepareActions

LEMMA UndoPreflight ==
    ASSUME Inv1, UndoInv, Preflight
    PROVE  UndoInv'
<1>1. /\ UNCHANGED <<plan, dir, found, row, cfg>> /\ pc = "lock"
  BY DEF Preflight, history
<1>2. CASE Stop("failed")
  BY <1>1, <1>2, EndUndo DEF Stop
<1>3. CASE pc' = "exec" /\ at' = 1 /\ Running
  <2>1. Changing' = Changing /\ Targets' = Targets /\ Begun' = {}
    <3>1. \A i \in DOMAIN plan : i \in Nat /\ i >= 1
      BY BegunIs
    <3>2. QED
      BY <1>1, <1>3, <3>1 DEF Changing, Targets, Begun
  <2>2. sess' = sess /\ outcome' = None /\ None # "succeeded"
    BY <1>1, <1>3 DEF Running, Inv1, PlanInv, None
  <2>3. ForwardInv'
    <3> SUFFICES ASSUME dir = "fwd" PROVE ForwardInv'
      BY <1>1 DEF ForwardInv
    <3>1. \A h \in Host : DOMAIN found'[h] = {}
      BY <1>1 DEF UndoInv, ForwardInv
    <3>2. \A d, s, v : FirstExpects(plan', Begun', d, s, v)
      BY <2>1 DEF FirstExpects, Binding
    <3>3. \A i \in Changing' : Undoes(plan'[i])
      BY <1>1, <2>1 DEF UndoInv, ForwardInv
    <3>4. QED
      BY <1>3, <2>2, <3>1, <3>2, <3>3 DEF ForwardInv
  <2>4. BackwardInv'
    BY <1>1, <1>3, <2>1, <2>2 DEF UndoInv, BackwardInv
  <2>5. QED
    BY <2>3, <2>4 DEF UndoInv
<1>4. QED
  BY <1>2, <1>3 DEF Preflight

\* A change begins only where what it binds is as found.
LEMMA UndoBegin ==
    ASSUME Inv1, UndoInv, Busy, Up, VerifyCurrent(HostOf(Act.dev), Act.before), Act.eff = "change",
           pc' = "send", changed' = FALSE,
           UNCHANGED <<plan, dir, found, at, outcome, row, sess, cfg>>
    PROVE  UndoInv'
<1>1. /\ at \in DOMAIN plan /\ Act.dev \in Dev /\ ActionOK(plan[at]) /\ pc = "exec" /\ at \in Nat
      /\ Act = plan[at] /\ sess[Act.dev] \in Host /\ HostOf(Act.dev) = sess[Act.dev]
  BY BusyAt DEF Busy, Act, Up, HostOf, Inv1, TypeInv
<1>2. /\ Changing' = Changing /\ Targets' = Targets /\ Begun' = Begun \cup {at} /\ Wrote' = Wrote
      /\ at \in Changing /\ (\A i \in Begun : i < at /\ i \in Nat) /\ Wrote \subseteq Begun
  <2>1. Changing' = Changing /\ Targets' = Targets /\ at \in Changing
    BY <1>1 DEF Changing, Targets
  <2>2. \A i \in DOMAIN plan : i \in Nat
    BY BegunIs
  <2>3. Begun = {i \in Changing : i < at} /\ Begun' = {i \in Changing : i < at \/ i = at}
    BY <1>1, <2>1 DEF Begun
  <2>4. \A i \in Begun : i < at /\ i \in Nat /\ i # at
    BY <1>1, <2>2, <2>3 DEF Changing
  <2>5. Wrote = Begun /\ Wrote' = {i \in Begun' : i # at}
    BY <2>4 DEF Wrote
  <2>6. QED
    BY <2>1, <2>3, <2>4, <2>5
<1>3. outcome' = None /\ None # "succeeded"
  BY <1>1 DEF Inv1, PlanInv, None
<1>4. ForwardInv'
  <2> SUFFICES ASSUME dir = "fwd" PROVE ForwardInv'
    BY DEF ForwardInv
  <2>1. /\ \A i \in Changing : Undoes(plan[i])
        /\ \A d \in Dev : sess[d] \in Host =>
              /\ \A s \in DOMAIN found[sess[d]] : Binding(plan, Wrote, d, s) # {}
              /\ \A s \in Guarded : FirstExpects(plan, Begun, d, s, Orig(sess[d], s))
    BY <1>1 DEF UndoInv, ForwardInv
  <2>2. ASSUME NEW d \in Dev, sess[d] \in Host, NEW s \in Guarded
        PROVE  FirstExpects(plan, Begun \cup {at}, d, s, Orig(sess[d], s))
    <3> DEFINE B == Begun \cup {at}
    <3>1. SUFFICES ASSUME NEW i \in Binding(plan, B, d, s), \A j \in Binding(plan, B, d, s) : i <= j,
                          NEW k \in DOMAIN plan[i].before, s \in KeySlots(k)
                   PROVE  Bound(k, plan[i].before[k], s) = Orig(sess[d], s)
      BY DEF FirstExpects
    <3>2. CASE i \in Begun
      <4>1. i \in Binding(plan, Begun, d, s) /\ \A j \in Binding(plan, Begun, d, s) : i <= j
        BY <3>1, <3>2 DEF Binding
      <4>2. FirstExpects(plan, Begun, d, s, Orig(sess[d], s))
        BY <2>1, <2>2
      <4>3. QED
        BY <3>1, <4>1, <4>2 DEF FirstExpects
    <3>3. CASE i \notin Begun
      <4>1. i = at /\ plan[at].dev = d
        BY <3>1, <3>3 DEF Binding
      <4>2. Binding(plan, Begun, d, s) = {}
        <5>1. SUFFICES ASSUME NEW j \in Binding(plan, Begun, d, s) PROVE FALSE
          OBVIOUS
        <5>2. j \in Begun /\ j < at /\ j \in Nat /\ j \in Binding(plan, B, d, s)
          BY <1>2, <5>1 DEF Binding
        <5>3. at <= j
          BY <3>1, <4>1, <5>2
        <5>4. QED
          BY <1>1, <5>2, <5>3
      <4>3. s \notin DOMAIN found[sess[d]]
        BY <1>2, <2>1, <2>2, <4>2 DEF Binding
      <4>4. Holds(sess[d], k, plan[at].before[k])
        BY <1>1, <3>1, <4>1 DEF VerifyCurrent
      <4>5. ValueOK(k, plan[at].before[k])
        BY <1>1, <3>1, <4>1 DEF ActionOK, SnapOK
      <4>6. ValueAt(cfg[sess[d]], s) = Bound(k, plan[at].before[k], s)
        BY <2>2, <3>1, <4>4, <4>5, Binds
      <4>7. QED
        BY <4>1, <4>3, <4>6 DEF Orig
    <3>4. QED
      BY <3>2, <3>3
  <2>3. \A d \in Dev : sess'[d] \in Host =>
              /\ \A s \in DOMAIN found'[sess'[d]] : Binding(plan', Wrote', d, s) # {}
              /\ \A s \in Guarded : FirstExpects(plan', Begun', d, s, Orig(sess[d], s)')
    <3>1. \A d, s : Orig(sess[d], s)' = Orig(sess[d], s)
      BY DEF Orig
    <3>2. QED
      BY <1>2, <2>1, <2>2, <3>1
  <2>4. \A i \in Changing' : Undoes(plan'[i])
    BY <1>2, <2>1
  <2>5. at' \in Changing'
    BY <1>2
  <2>6. QED
    BY <1>3, <2>3, <2>4, <2>5 DEF ForwardInv
<1>5. BackwardInv'
  BY <1>1, <1>2 DEF UndoInv, BackwardInv
<1>6. QED
  BY <1>4, <1>5 DEF UndoInv

\* The run goes on to the next action, of which nothing is begun.
LEMMA UndoProceed ==
    ASSUME Inv1, UndoInv, Proceed, at \in 1..Len(plan), pc \in {"exec", "verify"},
           pc = "exec" => Act.eff # "change",
           UNCHANGED <<found, row, cfg>>,
           dir = "undo" => VerifyCurrent(HostOf(Act.dev), Act.verify)
    PROVE  UndoInv'
<1>1. /\ UNCHANGED <<plan, dir, sess, outcome>> /\ at' = at + 1 /\ pc' = "exec"
      /\ at \in Nat /\ at \in DOMAIN plan /\ Act = plan[at] /\ ActionOK(plan[at])
      /\ \A i \in DOMAIN plan : i \in Nat
  <2>1. /\ UNCHANGED <<plan, dir, sess, outcome>> /\ at' = at + 1 /\ pc' = "exec"
    BY DEF Proceed, Running
  <2>2. IsSeq(plan) /\ DOMAIN plan = 1..Len(plan) /\ \A i \in DOMAIN plan : ActionOK(plan[i])
    BY IsSeqHas DEF Inv1, PlanInv
  <2>3. QED
    BY <2>1, <2>2 DEF Inv1, TypeInv, Act
<1>2. Changing' = Changing /\ Targets' = Targets
  BY <1>1 DEF Changing, Targets
<1>3. dir = "fwd" => Begun' = Begun /\ Wrote \subseteq Wrote'
  <2>1. Begun' = {i \in Changing : i < at + 1}
    BY <1>1, <1>2 DEF Begun
  <2>2. \A i \in Changing : i < at + 1 <=> (i < at \/ i = at)
    BY <1>1 DEF Changing
  <2>3. CASE pc = "exec"
    <3>1. at \notin Changing
      BY <1>1, <2>3 DEF Changing
    <3>2. Begun' = Begun
      BY <2>1, <2>2, <2>3, <3>1 DEF Begun
    <3>3. Wrote' = Begun'
      BY <1>1, <2>1 DEF Wrote, Changing
    <3>4. QED
      BY <3>2, <3>3 DEF Wrote
  <2>4. CASE pc = "verify"
    <3>1. Begun' = Begun
      BY <2>1, <2>2, <2>4 DEF Begun
    <3>2. Wrote' = Begun'
      BY <1>1, <2>1 DEF Wrote, Changing
    <3>3. QED
      BY <3>1, <3>2 DEF Wrote
  <2>5. QED
    BY <2>3, <2>4
<1>4. outcome' = None /\ None # "succeeded"
  BY <1>1 DEF Inv1, PlanInv, None
<1>5. ForwardInv'
  <2> SUFFICES ASSUME dir = "fwd" PROVE ForwardInv'
    BY <1>1 DEF ForwardInv
  <2>1. /\ \A i \in Changing : Undoes(plan[i])
        /\ \A d \in Dev : sess[d] \in Host =>
              /\ \A s \in DOMAIN found[sess[d]] : Binding(plan, Wrote, d, s) # {}
              /\ \A s \in Guarded : FirstExpects(plan, Begun, d, s, Orig(sess[d], s))
    BY DEF UndoInv, ForwardInv
  <2>2. \A d \in Dev : sess'[d] \in Host =>
              /\ \A s \in DOMAIN found'[sess'[d]] : Binding(plan', Wrote', d, s) # {}
              /\ \A s \in Guarded : FirstExpects(plan', Begun', d, s, Orig(sess[d], s)')
    <3>1. \A d, s : Orig(sess[d], s)' = Orig(sess[d], s)
      BY <1>1 DEF Orig
    <3>2. \A d, s : Binding(plan, Wrote, d, s) \subseteq Binding(plan, Wrote', d, s)
      BY <1>3 DEF Binding
    <3>3. QED
      BY <1>1, <1>3, <2>1, <3>1, <3>2
  <2>3. \A i \in Changing' : Undoes(plan'[i])
    BY <1>1, <1>2, <2>1
  <2>4. QED
    BY <1>1, <1>4, <2>2, <2>3 DEF ForwardInv
<1>6. BackwardInv'
  <2> SUFFICES ASSUME dir # "fwd" PROVE BackwardInv'
    BY <1>1 DEF BackwardInv
  <2>1. CASE dir = "back"
    BY <1>1, <1>2, <2>1 DEF UndoInv, BackwardInv
  <2>2. CASE dir = "undo"
    <3>1. /\ \A i \in DOMAIN plan : plan[i].after = plan[i].verify
          /\ \A i \in DOMAIN plan : plan[i].eff = "change"
          /\ \A d \in Dev : sess[d] \in Host =>
              \A s \in DOMAIN found[sess[d]] \cap Guarded : \E m \in DOMAIN plan :
                 /\ Restores(plan, m, d, s, found[sess[d]][s])
                 /\ at > m => ValueAt(cfg[sess[d]], s) = found[sess[d]][s]
      BY <2>2 DEF UndoInv, BackwardInv
    <3>2. ASSUME NEW d \in Dev, sess[d] \in Host, NEW s \in DOMAIN found[sess[d]] \cap Guarded
          PROVE  \E m \in DOMAIN plan :
                    /\ Restores(plan, m, d, s, found[sess[d]][s])
                    /\ at + 1 > m => ValueAt(cfg[sess[d]], s) = found[sess[d]][s]
      <4>1. PICK m \in DOMAIN plan :
               /\ Restores(plan, m, d, s, found[sess[d]][s])
               /\ at > m => ValueAt(cfg[sess[d]], s) = found[sess[d]][s]
        BY <3>1, <3>2
      <4>2. CASE m # at
        <5>1. at + 1 > m => at > m
          BY <1>1, <4>2
        <5>2. QED
          BY <4>1, <5>1
      <4>3. CASE m = at
        <5>1. PICK k \in DOMAIN plan[at].verify : s \in KeySlots(k) /\ Bound(k, plan[at].verify[k], s) = found[sess[d]][s]
          BY <4>1, <4>3 DEF Restores
        <5>2. Act.dev = d /\ HostOf(d) = sess[d]
          BY <1>1, <3>2, <4>1, <4>3 DEF Restores, HostOf
        <5>3. Holds(sess[d], k, plan[at].verify[k])
          BY <1>1, <2>2, <5>1, <5>2 DEF VerifyCurrent
        <5>4. ValueOK(k, plan[at].verify[k])
          BY <1>1, <5>1 DEF ActionOK, SnapOK
        <5>5. ValueAt(cfg[sess[d]], s) = Bound(k, plan[at].verify[k], s)
          BY <3>2, <5>1, <5>3, <5>4, Binds
        <5>6. QED
          BY <4>1, <5>1, <5>5
      <4>4. QED
        BY <4>2, <4>3
    <3>3. QED
      BY <1>1, <2>2, <3>1, <3>2 DEF BackwardInv
  <2>3. QED
    BY <2>1, <2>2 DEF Inv1, TypeInv
<1>7. QED
  BY <1>5, <1>6 DEF UndoInv

LEMMA UndoExecute ==
    ASSUME Inv1, UndoInv, execute_prepared
    PROVE  UndoInv'
<1>1. /\ Busy /\ pc = "exec" /\ changed' = FALSE /\ UNCHANGED <<cfg, row, found>> /\ at \in 1..Len(plan)
      /\ at \in DOMAIN plan /\ ActionOK(Act)
  BY BusyAt DEF execute_prepared, Busy
<1>2. CASE Unknown
  BY <1>2, EndUndo DEF Unknown, Stop
<1>3. CASE NoEffect
  BY <1>1, <1>3, BackwardNoEffect DEF UndoInv
<1>4. CASE Act.eff = "already" /\ Proceed
  <2>1. dir # "undo"
    BY <1>1, <1>4 DEF UndoInv, BackwardInv, Act
  <2>2. QED
    BY <1>1, <1>4, <2>1, UndoProceed
<1>5. CASE /\ Act.eff # "already" /\ Up /\ VerifyCurrent(HostOf(Act.dev), Act.before)
           /\ pc' = "send" /\ Running /\ UNCHANGED <<plan, dir, at>>
  <2>1. Act.eff = "change"
    BY <1>1, <1>5 DEF ActionOK
  <2>2. QED
    BY <1>1, <1>5, <2>1, UndoBegin DEF Running
<1>6. QED
  BY <1>2, <1>3, <1>4, <1>5 DEF execute_prepared

\* A write keeps the values first replaced, and the slots that no later action
\* of the device binds.
LEMMA UndoAccepted ==
    ASSUME Inv1, UndoInv, CommandAccepted
    PROVE  UndoInv'
<1>1. Accepted
  BY Accepts
<1>2. /\ Sending /\ Up /\ pc = "send" /\ pc' \in {"send", "verify"}
      /\ cfg' = [cfg EXCEPT ![Live] = Apply(@, Cmd)]
      /\ changed' = (changed \/ command_may_change_state(Cmd))
      /\ UNCHANGED <<plan, dir, sess, row, at, outcome>>
      /\ at \in DOMAIN plan /\ Act.dev \in Dev /\ Live = sess[Act.dev] /\ Live \in Host
      /\ Act = plan[at] /\ at \in Nat
      /\ found = [h \in Host |-> found[h]]
  BY <1>1 DEF Accepted, Sending, Live, Act, Inv1, TypeInv
<1>3. /\ \A h \in Host \ {Live} : cfg'[h] = cfg[h]
      /\ \A s \in Slots : (Writes(Cmd) => s # Slot(Cmd)) => ValueAt(cfg'[Live], s) = ValueAt(cfg[Live], s)
      /\ Writes(Cmd) => Slot(Cmd) \in BoundSlots(plan[at].before)
  BY <1>2, CommandWrites
<1>4. \A d \in Dev : d # Act.dev => sess[d] # Live
  BY <1>2 DEF Inv1, SessionInv
<1>5. /\ Changing' = Changing /\ Targets' = Targets /\ Begun' = Begun /\ Wrote \subseteq Wrote'
      /\ at \in Changing /\ Writes(Cmd) => at \in Wrote'
  <2>1. Changing' = Changing /\ Targets' = Targets
    BY <1>2 DEF Changing, Targets
  <2>2. Begun' = Begun
    BY <1>2, <2>1 DEF Begun
  <2>3. Wrote \subseteq Wrote'
    BY <1>2, <2>2 DEF Wrote
  <2>4. ASSUME at \in Changing, Writes(Cmd) PROVE at \in Wrote'
    <3>1. changed'
      BY <1>2, <2>4 DEF Writes, command_may_change_state
    <3>2. at \in Begun'
      BY <1>2, <2>2, <2>4 DEF Begun
    <3>3. QED
      BY <1>2, <3>1, <3>2 DEF Wrote
  <2>5. QED
    BY <2>1, <2>2, <2>3, <2>4
<1>6. outcome' = None /\ None # "succeeded"
  BY <1>2 DEF Inv1, PlanInv, None
<1>7. ForwardInv'
  <2> SUFFICES ASSUME dir = "fwd" PROVE ForwardInv'
    BY <1>2 DEF ForwardInv
  <2>1. /\ \A i \in Changing : Undoes(plan[i])
        /\ \A d \in Dev : sess[d] \in Host =>
              /\ \A s \in DOMAIN found[sess[d]] : Binding(plan, Wrote, d, s) # {}
              /\ \A s \in Guarded : FirstExpects(plan, Begun, d, s, Orig(sess[d], s))
        /\ at \in Changing
    BY <1>2 DEF UndoInv, ForwardInv
  <2>2. /\ \A h \in Host \ {Live} : found'[h] = found[h]
        /\ \A s \in DOMAIN found[Live] : s \in DOMAIN found'[Live] /\ found'[Live][s] = found[Live][s]
        /\ \A s \in DOMAIN found'[Live] \ DOMAIN found[Live] :
              Writes(Cmd) /\ s = Slot(Cmd) /\ found'[Live][s] = ValueAt(cfg[Live], s)
        /\ Writes(Cmd) => Slot(Cmd) \in DOMAIN found'[Live]
    <3>1. CASE Writes(Cmd)
      <4>1. PICK new : new = ValuesAt(cfg[Live], {Slot(Cmd)})
        OBVIOUS
      <4>2. PICK old : old = found[Live]
        OBVIOUS
      <4>3. found'[Live] = Over(old, new) /\ \A h \in Host \ {Live} : found'[h] = found[h]
        BY <1>1, <1>2, <3>1, <4>1, <4>2 DEF Accepted
      <4>4. DOMAIN new = {Slot(Cmd)} /\ new[Slot(Cmd)] = ValueAt(cfg[Live], Slot(Cmd))
        BY <4>1, ValuesAtIs
      <4>5. /\ DOMAIN Over(old, new) = DOMAIN old \cup DOMAIN new
            /\ \A k \in DOMAIN old : Over(old, new)[k] = old[k]
            /\ \A k \in DOMAIN new \ DOMAIN old : Over(old, new)[k] = new[k]
        BY OverHas
      <4>6. QED
        BY <3>1, <4>2, <4>3, <4>4, <4>5
    <3>2. CASE ~Writes(Cmd)
      BY <1>1, <3>2 DEF Accepted
    <3>3. QED
      BY <3>1, <3>2
  <2>3. ASSUME NEW d \in Dev, sess[d] \in Host, NEW s \in Guarded
        PROVE  Orig(sess[d], s)' = Orig(sess[d], s)
    <3>1. s \in Slots
      BY GuardedAreSlots
    <3>2. CASE sess[d] # Live
      <4>1. cfg'[sess[d]] = cfg[sess[d]] /\ found'[sess[d]] = found[sess[d]] /\ sess' = sess
        BY <1>2, <1>3, <2>2, <2>3, <3>2
      <4>2. QED
        BY <4>1 DEF Orig
    <3>3. CASE sess[d] = Live
      <4>1. CASE s \in DOMAIN found[Live]
        BY <1>2, <2>2, <3>3, <4>1 DEF Orig
      <4>2. CASE s \notin DOMAIN found[Live] /\ s \in DOMAIN found'[Live]
        BY <1>2, <2>2, <3>3, <4>2 DEF Orig
      <4>3. CASE s \notin DOMAIN found'[Live]
        <5>1. s \notin DOMAIN found[Live] /\ (Writes(Cmd) => s # Slot(Cmd))
          BY <2>2, <4>3
        <5>2. ValueAt(cfg'[Live], s) = ValueAt(cfg[Live], s)
          BY <1>3, <3>1, <5>1
        <5>3. QED
          BY <1>2, <3>3, <4>3, <5>1, <5>2 DEF Orig
      <4>4. QED
        BY <4>1, <4>2, <4>3
    <3>4. QED
      BY <3>2, <3>3
  <2>4. ASSUME NEW d \in Dev, sess[d] \in Host, NEW s \in DOMAIN found'[sess[d]]
        PROVE  Binding(plan, Wrote', d, s) # {}
    <3>1. CASE s \in DOMAIN found[sess[d]]
      <4>1. Binding(plan, Wrote, d, s) # {}
        BY <2>1, <2>4, <3>1
      <4>2. Binding(plan, Wrote, d, s) \subseteq Binding(plan, Wrote', d, s)
        BY <1>5 DEF Binding
      <4>3. QED
        BY <4>1, <4>2
    <3>2. CASE s \notin DOMAIN found[sess[d]]
      <4>1. sess[d] = Live /\ Writes(Cmd) /\ s = Slot(Cmd)
        BY <2>2, <2>4, <3>2
      <4>2. d = Act.dev
        BY <1>4, <4>1
      <4>3. at \in Binding(plan, Wrote', d, s)
        BY <1>2, <1>3, <1>5, <2>1, <4>1, <4>2 DEF Binding
      <4>4. QED
        BY <4>3
    <3>3. QED
      BY <3>1, <3>2
  <2>5. \A d \in Dev : sess'[d] \in Host =>
              /\ \A s \in DOMAIN found'[sess'[d]] : Binding(plan', Wrote', d, s) # {}
              /\ \A s \in Guarded : FirstExpects(plan', Begun', d, s, Orig(sess[d], s)')
    <3> SUFFICES ASSUME NEW d \in Dev, sess[d] \in Host
                 PROVE  /\ \A s \in DOMAIN found'[sess[d]] : Binding(plan, Wrote', d, s) # {}
                        /\ \A s \in Guarded : FirstExpects(plan, Begun, d, s, Orig(sess[d], s)')
      BY <1>2, <1>5
    <3>1. QED
      BY <2>1, <2>3, <2>4
  <2>6. (\A i \in Changing' : Undoes(plan'[i])) /\ at' \in Changing'
    BY <1>2, <1>5, <2>1
  <2>7. QED
    BY <1>2, <1>6, <2>5, <2>6 DEF ForwardInv
<1>8. BackwardInv'
  <2> SUFFICES ASSUME dir # "fwd" PROVE BackwardInv'
    BY <1>2 DEF BackwardInv
  <2>1. found' = found
    BY <1>1 DEF Accepted
  <2>2. CASE dir = "back"
    BY <1>2, <1>5, <2>1, <2>2 DEF UndoInv, BackwardInv
  <2>3. CASE dir = "undo"
    <3>1. /\ \A i \in DOMAIN plan : plan[i].after = plan[i].verify
          /\ \A i \in DOMAIN plan : plan[i].eff = "change"
          /\ \A d \in Dev : sess[d] \in Host =>
              \A s \in DOMAIN found[sess[d]] \cap Guarded : \E m \in DOMAIN plan :
                 /\ Restores(plan, m, d, s, found[sess[d]][s])
                 /\ at > m => ValueAt(cfg[sess[d]], s) = found[sess[d]][s]
      BY <1>2, <2>3 DEF UndoInv, BackwardInv
    <3>2. ASSUME NEW d \in Dev, sess[d] \in Host, NEW s \in DOMAIN found[sess[d]] \cap Guarded
          PROVE  \E m \in DOMAIN plan :
                    /\ Restores(plan, m, d, s, found[sess[d]][s])
                    /\ at > m => ValueAt(cfg'[sess[d]], s) = found[sess[d]][s]
      <4>1. PICK m \in DOMAIN plan :
               /\ Restores(plan, m, d, s, found[sess[d]][s])
               /\ at > m => ValueAt(cfg[sess[d]], s) = found[sess[d]][s]
        BY <3>1, <3>2
      <4>2. ASSUME at > m PROVE ValueAt(cfg'[sess[d]], s) = ValueAt(cfg[sess[d]], s)
        <5>1. CASE d # Act.dev
          BY <1>3, <1>4, <3>2, <5>1
        <5>2. CASE d = Act.dev
          <6>1. s \notin BoundSlots(plan[at].before)
            BY <1>2, <4>1, <4>2, <5>2 DEF Restores
          <6>2. s \in Slots /\ (Writes(Cmd) => s # Slot(Cmd))
            BY <1>3, <6>1, GuardedAreSlots
          <6>3. QED
            BY <1>2, <1>3, <5>2, <6>2
        <5>3. QED
          BY <5>1, <5>2
      <4>3. QED
        BY <4>1, <4>2
    <3>3. QED
      BY <1>2, <2>1, <2>3, <3>1, <3>2 DEF BackwardInv
  <2>4. QED
    BY <2>2, <2>3 DEF Inv1, TypeInv
<1>9. QED
  BY <1>7, <1>8 DEF UndoInv

\* Success is reported with every change begun, and each slot written bound by
\* one of them.
LEMMA UndoFinish ==
    ASSUME Inv1, UndoInv, Finish
    PROVE  UndoInv'
<1>1. /\ UNCHANGED <<plan, dir, found, row>> /\ pc' = "end" /\ pc = "exec" /\ at > Len(plan)
  BY DEF Finish, Stop, history
<1>2. CASE outcome' # "succeeded"
  BY <1>1, <1>2, EndUndo
<1>3. CASE outcome' = "succeeded"
  <2>1. AllUp /\ dir = "fwd"
    BY <1>3 DEF Finish, Stop
  <2>2. /\ \A i \in Changing : Undoes(plan[i])
        /\ \A d \in Dev : sess[d] \in Host =>
              /\ \A s \in DOMAIN found[sess[d]] : Binding(plan, Wrote, d, s) # {}
              /\ \A s \in Guarded : FirstExpects(plan, Begun, d, s, Orig(sess[d], s))
    BY <1>1, <2>1 DEF UndoInv, ForwardInv
  <2>3. Changing' = Changing /\ Targets' = Targets /\ Begun = Changing /\ Wrote \subseteq Changing
    <3>1. \A i \in Changing : i < at
      BY <1>1, BegunIs
    <3>2. QED
      BY <1>1, <3>1, BegunIs DEF Changing, Targets, Begun
  <2>4. ASSUME NEW d \in Targets, NEW s \in DOMAIN found[row[d].pin]
        PROVE  /\ Binding(plan, Changing, d, s) # {}
               /\ s \in Guarded => FirstExpects(plan, Changing, d, s, found[row[d].pin][s])
    <3>1. d \in Dev /\ sess[d] \in Host /\ sess[d] = row[d].pin
      BY <2>1, TargetsAreDevices DEF AllUp, Inv1, SessionInv
    <3>2. Binding(plan, Wrote, d, s) # {} /\ (s \in Guarded => FirstExpects(plan, Begun, d, s, Orig(sess[d], s)))
      BY <2>2, <2>4, <3>1
    <3>3. Orig(sess[d], s) = found[row[d].pin][s]
      BY <2>4, <3>1 DEF Orig
    <3>4. Binding(plan, Changing, d, s) # {}
      BY <2>3, <3>2 DEF Binding
    <3>5. QED
      BY <2>3, <3>2, <3>3, <3>4
  <2>5. ForwardInv'
    BY <1>1, <2>2, <2>3, <2>4 DEF ForwardInv
  <2>6. BackwardInv'
    BY <1>1 DEF BackwardInv
  <2>7. QED
    BY <2>5, <2>6 DEF UndoInv
<1>4. QED
  BY <1>2, <1>3

\* A rollback keeps what the inverses restore.
LEMMA UndoRollback ==
    ASSUME Inv1, UndoInv, prepare_rollbacks
    PROVE  UndoInv'
<1>1. /\ pc = "end" /\ outcome = "succeeded" /\ dir = "fwd" /\ dir' = "back"
      /\ UNCHANGED <<row, found>>
  BY RollbackIs
<1>2. CASE Stop("refused")
  BY <1>1, <1>2 DEF Stop, UndoInv, ForwardInv, BackwardInv
<1>3. ASSUME NEW now, RollsBack(now) PROVE UndoInv'
  <2>1. PICK back : back = Inverses(plan)
    OBVIOUS
  <2>2. plan' = now /\ pc' = "lock" /\ sess' = sess /\ Kept(now, back)
    BY <1>3, <2>1 DEF RollsBack
  <2>3. IsSeq(plan) /\ (\A i \in DOMAIN plan : ActionOK(plan[i])) /\ None \notin Host
        /\ \A d \in Dev : sess[d] = None
    BY <1>1, DevicePlanAssumption DEF Inv1, PlanInv, SessionInv
  <2>4. PICK g : Reverses(back, plan, g)
    BY <2>1, <2>3, InversesAre
  <2>5. \A i \in DOMAIN back : /\ back[i].after = back[i].verify
                               /\ \E j \in DOMAIN plan : back[i].dev = plan[j].dev
    BY <2>4 DEF Reverses, InverseOf
  <2>6. /\ \A i \in Changing : Undoes(plan[i])
        /\ \A d \in Targets : \A s \in DOMAIN found[row[d].pin] :
                 /\ Binding(plan, Changing, d, s) # {}
                 /\ s \in Guarded => FirstExpects(plan, Changing, d, s, found[row[d].pin][s])
    BY <1>1 DEF UndoInv, ForwardInv
  <2>7. \A i \in DOMAIN now : now[i].after = now[i].verify
    BY <2>2, <2>5 DEF Kept
  <2>8. \A d \in Targets' : d \in Targets
    BY <2>2, <2>5 DEF Targets, Kept
  <2>9. ASSUME NEW d \in Targets', NEW s \in DOMAIN found[row[d].pin] \cap Guarded
        PROVE  \E m \in DOMAIN now : Restores(now, m, d, s, found[row[d].pin][s])
    <3>1. Binding(plan, Changing, d, s) # {} /\ FirstExpects(plan, Changing, d, s, found[row[d].pin][s])
      BY <2>6, <2>8, <2>9
    <3>2. DOMAIN now = DOMAIN back /\ \A i \in DOMAIN back :
             /\ now[i].dev = back[i].dev /\ now[i].verify = back[i].verify
             /\ BoundSlots(now[i].before) = BoundSlots(back[i].before)
      BY <2>2 DEF Kept
    <3>3. Changing = {i \in DOMAIN plan : plan[i].eff = "change"}
      BY DEF Changing
    <3>4. QED
      BY <2>4, <2>6, <3>1, <3>2, <3>3, InverseRestores
  <2>10. BackwardInv'
    BY <1>1, <2>2, <2>3, <2>7, <2>9 DEF BackwardInv
  <2>11. ForwardInv'
    BY <1>1 DEF ForwardInv
  <2>12. QED
    BY <2>10, <2>11 DEF UndoInv
<1>4. QED
  BY <1>2, <1>3, RollbackIs

UndoStep ==
    outcome' \in {"compensated", "rolled_back"} /\ outcome = None =>
        \A h \in {sess[d] : d \in Dev} \cap Host : \A s \in DOMAIN found[h] \cap Guarded :
            ValueAt(cfg[h], s) = found[h][s]

\* Only the end of a run that undoes reports so.
LEMMA UndoReported ==
    ASSUME Inv1, UndoInv, Finish
    PROVE  UndoStep
<1>1. pc = "exec" /\ at > Len(plan) /\ pc # "end"
  BY DEF Finish
<1>2. IsSeq(plan) /\ \A i \in DOMAIN plan : ActionOK(plan[i])
  BY DEF Inv1, PlanInv
<1>3. \A i \in DOMAIN plan : at > i
  BY <1>1, BegunIs
<1>4. SUFFICES ASSUME outcome' \in {"compensated", "rolled_back"}, NEW d \in Dev, sess[d] \in Host,
                      NEW s \in DOMAIN found[sess[d]] \cap Guarded
               PROVE  ValueAt(cfg[sess[d]], s) = found[sess[d]][s]
  BY DEF UndoStep
<1>5. CASE dir = "undo"
  <2>1. \E m \in DOMAIN plan : at > m => ValueAt(cfg[sess[d]], s) = found[sess[d]][s]
    BY <1>1, <1>4, <1>5 DEF UndoInv, BackwardInv
  <2>2. QED
    BY <1>3, <2>1
<1>6. CASE dir = "back"
  <2>1. AllUp /\ verify_projected_after(plan, Len(plan))
    BY <1>4, <1>6 DEF Finish, Stop
  <2>2. d \in Targets /\ (\A i \in DOMAIN plan : plan[i].after = plan[i].verify)
        /\ sess[d] = row[d].pin /\ HostOf(d) = sess[d]
    BY <1>1, <1>4, <1>6 DEF UndoInv, BackwardInv, Inv1, SessionInv, HostOf
  <2>3. PICK m \in DOMAIN plan : Restores(plan, m, d, s, found[sess[d]][s])
    BY <1>1, <1>4, <1>6, <2>2 DEF UndoInv, BackwardInv
  <2>4. plan[m].dev = d
    BY <2>3 DEF Restores
  <2>5. PICK k \in DOMAIN plan[m].verify : s \in KeySlots(k) /\ Bound(k, plan[m].verify[k], s) = found[sess[d]][s]
    BY <2>3 DEF Restores
  <2>6. \A j \in DOMAIN plan : /\ DOMAIN AfterVerify(plan)[j] = DOMAIN plan[j].after \cup DOMAIN plan[j].verify
                               /\ plan[j].after = plan[j].verify =>
                                     \A x \in DOMAIN plan[j].verify : AfterVerify(plan)[j][x] = plan[j].verify[x]
    <3> SUFFICES ASSUME NEW j \in DOMAIN plan
                 PROVE  /\ DOMAIN AfterVerify(plan)[j] = DOMAIN plan[j].after \cup DOMAIN plan[j].verify
                        /\ plan[j].after = plan[j].verify =>
                              \A x \in DOMAIN plan[j].verify : AfterVerify(plan)[j][x] = plan[j].verify[x]
      OBVIOUS
    <3>1. PICK left : left = AfterVerify(plan)[j]
      OBVIOUS
    <3>2. PICK f, v : f = plan[j].after /\ v = plan[j].verify
      OBVIOUS
    <3>3. left = Over(f, v)
      BY <3>1, <3>2 DEF AfterVerify
    <3>4. DOMAIN Over(f, v) = DOMAIN f \cup DOMAIN v /\ \A x \in DOMAIN f : Over(f, v)[x] = f[x]
      BY OverHas
    <3>5. QED
      BY <3>1, <3>2, <3>3, <3>4
  <2>7. k \in DOMAIN AfterVerify(plan)[m] /\ AfterVerify(plan)[m][k] = plan[m].verify[k] /\ m \in 1..Len(plan)
    BY <1>2, <2>2, <2>5, <2>6, IsSeqHas
  <2>8. \/ \E j \in (m + 1)..Len(plan) : plan[j].dev = d /\ k \in DOMAIN AfterVerify(plan)[j]
        \/ Holds(HostOf(plan[m].dev), k, plan[m].verify[k])
    BY <2>1, <2>4, <2>7 DEF verify_projected_after
  <2>9. ASSUME NEW j \in (m + 1)..Len(plan), plan[j].dev = d, k \in DOMAIN AfterVerify(plan)[j] PROVE FALSE
    <3>1. j \in DOMAIN plan /\ j > m
      <4>1. Len(plan) \in Nat /\ DOMAIN plan = 1..Len(plan)
        BY <1>2, IsSeqHas
      <4>2. QED
        BY <2>7, <4>1
    <3>2. k \in DOMAIN plan[j].after \cup DOMAIN plan[j].verify
      BY <2>6, <2>9, <3>1
    <3>3. s \in BoundSlots(plan[j].after) \cup BoundSlots(plan[j].verify)
      BY <2>5, <3>2 DEF BoundSlots
    <3>4. s \in BoundSlots(plan[j].before)
      BY <1>2, <3>1, <3>3 DEF ActionOK
    <3>5. QED
      BY <2>3, <2>9, <3>1, <3>4 DEF Restores
  <2>10. Holds(sess[d], k, plan[m].verify[k])
    BY <2>2, <2>4, <2>8, <2>9
  <2>11. ValueOK(k, plan[m].verify[k])
    BY <1>2, <2>5 DEF ActionOK, SnapOK
  <2>12. QED
    BY <1>4, <2>5, <2>10, <2>11, Binds
<1>7. CASE dir = "fwd"
  BY <1>4, <1>7 DEF Finish, Stop
<1>8. QED
  BY <1>5, <1>6, <1>7 DEF Inv1, TypeInv

LEMMA OtherReports ==
    ASSUME outcome' \in {outcome, None, "refused", "failed", "aborted", "blocked"}
    PROVE  UndoStep
BY DEF UndoStep, None

LEMMA UndoNext ==
    ASSUME Inv1, UndoInv, [Next]_vars
    PROVE  UndoInv' /\ UndoStep
<1>0. TypeInv /\ PlanInv /\ SessionInv
  BY DEF Inv1
<1>1. CASE prepare_actions
  <2>1. (Stop("refused") /\ UNCHANGED <<plan, seen>>) \/ \E p : PrepareStep(p)
    BY <1>1, PrepareActions
  <2>2. outcome' \in {outcome, "refused"}
    BY <2>1 DEF PrepareStep, Stop
  <2>3. QED
    BY <1>1, <2>2, UndoPrepare, OtherReports
<1>2. CASE inspect_actions
  <2>1. UNCHANGED <<plan, dir, found>> /\ pc = "prepare"
    BY <1>2 DEF inspect_actions, history
  <2>2. CASE Stop("refused")
    BY <2>1, <2>2, EndUndo, OtherReports DEF Stop
  <2>3. CASE pc' = "lock" /\ Running /\ row' = row
    BY <2>1, <2>3, BeforeRun, OtherReports DEF Running
  <2>4. QED
    BY <1>2, <2>2, <2>3 DEF inspect_actions
<1>3. CASE acquire
  <2>1. UNCHANGED <<plan, dir, found, row>> /\ pc = "lock"
    BY <1>3 DEF acquire, history
  <2>2. CASE Stop("failed")
    BY <2>1, <2>2, EndUndo, OtherReports DEF Stop
  <2>3. ASSUME NEW d, Locks(d) PROVE UndoInv' /\ UndoStep
    <3>1. \A e \in Dev : sess'[e] \in Host => e \in Targets \/ sess[e] \in Host
      BY <1>0, <2>3 DEF Locks, TypeInv
    <3>2. pc' = "lock" /\ outcome' = outcome
      BY <2>1, <2>3 DEF Locks
    <3>3. QED
      BY <2>1, <3>1, <3>2, BeforeRun, OtherReports
  <2>4. QED
    BY <1>3, <2>2, <2>3, Acquires
<1>4. CASE PrepareFails \/ AcquireFails
  <2>1. UNCHANGED <<plan, dir>> /\ pc' = "end" /\ outcome' \in {"refused", "failed"}
    BY <1>4 DEF PrepareFails, AcquireFails, Stop
  <2>2. QED
    BY <2>1, EndUndo, OtherReports
<1>5. CASE Preflight
  <2>1. outcome' \in {outcome, "failed"}
    BY <1>5 DEF Preflight, Stop, Running
  <2>2. QED
    BY <1>5, <2>1, UndoPreflight, OtherReports
<1>6. CASE execute_prepared
  <2>1. outcome' \in {outcome, "aborted", "blocked"}
    BY <1>6 DEF execute_prepared, Unknown, NoEffect, Proceed, Stop, Running
  <2>2. QED
    BY <1>6, <2>1, UndoExecute, OtherReports
<1>7. CASE ReadFails \/ VerifyLost
  <2>1. UNCHANGED <<plan, dir>> /\ pc' = "end" /\ outcome' = "blocked"
    BY <1>7 DEF ReadFails, VerifyLost, Unknown, Stop
  <2>2. QED
    BY <2>1, EndUndo, OtherReports
<1>8. CASE CommandAccepted
  <2>1. outcome' = outcome
    BY <1>8, Accepts DEF Accepted
  <2>2. QED
    BY <1>8, <2>1, UndoAccepted, OtherReports
<1>9. CASE CommandRejected
  <2>1. cfg' = cfg /\ found' = found /\ pc = "send" /\ at \in 1..Len(plan)
    BY <1>9, BusyAt DEF CommandRejected, history
  <2>2. CASE Unknown
    BY <2>2, EndUndo, OtherReports DEF Unknown, Stop
  <2>3. CASE NoEffect /\ ~changed
    <3>1. outcome' \in {outcome, "aborted", "blocked"}
      BY <2>3 DEF NoEffect, Stop, Running
    <3>2. QED
      BY <2>1, <2>3, <3>1, BackwardNoEffect, OtherReports DEF UndoInv
  <2>4. QED
    BY <1>9, <2>2, <2>3 DEF CommandRejected
<1>10. CASE CommandUnanswered
  <2>1. Unanswered
    BY <1>10, Unanswers
  <2>2. found' = found /\ pc = "send" /\ at \in 1..Len(plan)
    BY <2>1 DEF Unanswered, Sending
  <2>3. CASE Unknown
    BY <2>3, EndUndo, OtherReports DEF Unknown, Stop
  <2>4. CASE NoEffect /\ ~changed /\ ~command_may_change_state(Cmd)
    <3>1. outcome' \in {outcome, "aborted", "blocked"}
      BY <2>4 DEF NoEffect, Stop, Running
    <3>2. cfg' = cfg
      BY <2>1, <2>4, UnansweredWithoutEffect
    <3>3. QED
      BY <2>2, <2>4, <3>1, <3>2, BackwardNoEffect, OtherReports DEF UndoInv
  <2>5. QED
    BY <2>1, <2>3, <2>4 DEF Unanswered
<1>11. CASE verify_with_retry
  <2>1. UNCHANGED <<cfg, found, row>> /\ pc = "verify" /\ at \in 1..Len(plan)
    BY <1>11, BusyAt DEF verify_with_retry, history
  <2>2. CASE Unknown
    BY <2>2, EndUndo, OtherReports DEF Unknown, Stop
  <2>3. CASE VerifyCurrent(HostOf(Act.dev), Act.verify) /\ Proceed
    BY <2>1, <2>3, UndoProceed, OtherReports DEF Proceed, Running
  <2>4. QED
    BY <1>11, <2>2, <2>3 DEF verify_with_retry
<1>12. CASE Finish
  BY <1>12, UndoFinish, UndoReported
<1>13. CASE prepare_rollbacks
  <2>1. outcome' \in {None, "refused"}
    BY <1>13, RollbackIs DEF RollsBack, Stop
  <2>2. QED
    BY <1>13, <2>1, UndoRollback, OtherReports
<1>14. ASSUME NEW h \in Host, ForeignEdit(h) PROVE UndoInv' /\ UndoStep
  <2>1. PICK c : cfg' = [cfg EXCEPT ![h] = c]
    BY <1>14 DEF ForeignEdit
  <2>2. UNCHANGED <<row, sess, plan, pc, dir, at, changed, outcome, found>> /\ ~Locked(h)
    BY <1>14 DEF ForeignEdit, wires, run, history
  <2>3. \A d \in Dev : sess[d] \in Host => cfg'[sess[d]] = cfg[sess[d]]
    BY <1>0, <2>1, <2>2 DEF Locked, TypeInv
  <2>4. QED
    BY <2>2, <2>3, UndoKept, OtherReports
<1>15. ASSUME NEW d \in Dev, EditDevice(d) PROVE UndoInv' /\ UndoStep
  <2>1. UNCHANGED <<cfg, sess, plan, pc, dir, at, changed, outcome, found>>
    BY <1>15 DEF EditDevice, run, history
  <2>2. \A e \in Dev : row'[e].pin = row[e].pin
    <3>1. PICK h \in Host : row' = [row EXCEPT ![d].host = h]
      BY <1>15 DEF EditDevice
    <3>2. QED
      BY <1>0, <3>1 DEF TypeInv
  <2>3. QED
    BY <2>1, <2>2, UndoKept, OtherReports
<1>16. ASSUME NEW d \in Dev, SessionDrop(d) PROVE UndoInv' /\ UndoStep
  <2>1. UNCHANGED <<cfg, row, plan, pc, dir, at, changed, outcome, found>> /\ sess' = [sess EXCEPT ![d] = "dead"]
    BY <1>16 DEF SessionDrop, run, history
  <2>2. "dead" \notin Host
    BY DevicePlanAssumption
  <2>3. \A e \in Dev : sess'[e] = IF e = d THEN "dead" ELSE sess[e]
    BY <1>0, <2>1 DEF TypeInv
  <2>4. QED
    BY <2>1, <2>2, <2>3, UndoKept, OtherReports
<1>17. CASE \/ UNCHANGED vars
            \/ \E h \in Host : Converge(h) \/ Flap(h)
  <2>1. UNCHANGED <<cfg, row, sess, plan, pc, dir, at, changed, outcome, found>>
    BY <1>17 DEF vars, wires, run, history, Converge, Flap
  <2>2. QED
    BY <2>1, UndoKept, OtherReports
<1>18. QED
  BY <1>1, <1>2, <1>3, <1>4, <1>5, <1>6, <1>7, <1>8, <1>9, <1>10, <1>11, <1>12, <1>13, <1>14, <1>15,
     <1>16, <1>17 DEF Next, Process, Environment

LEMMA UndoInit ==
    ASSUME Init PROVE UndoInv
<1>1. DOMAIN plan = {} /\ (\A h \in Host : DOMAIN found[h] = {}) /\ outcome # "succeeded"
  BY DEF Init, None
<1>2. QED
  BY <1>1 DEF Init, UndoInv, ForwardInv, BackwardInv, Changing

\* A run reported as compensated or rolled back leaves every value that the
\* forward run replaced as it was found, on every router still held locked
\* (execute_inverse, device_plan.rs:1549).
THEOREM UndoneIsRestored == Spec => UndoRestores
<1>1. Init => Inv1 /\ UndoInv
  BY Inv1Init, UndoInit
<1>2. Inv1 /\ UndoInv /\ [Next]_vars => Inv1' /\ UndoInv'
  BY Inv1Next, UndoNext
<1>3. Inv1 /\ UndoInv /\ [Next]_vars =>
        [outcome' \in {"compensated", "rolled_back"} /\ outcome = None =>
            \A h \in {sess[d] : d \in Dev} \cap Host : \A s \in DOMAIN found[h] \cap Guarded :
                ValueAt(cfg[h], s) = found[h][s]]_vars
  BY UndoNext DEF UndoStep
<1>4. QED
  BY <1>1, <1>2, <1>3, PTL DEF Spec, UndoRestores
=============================================================================
