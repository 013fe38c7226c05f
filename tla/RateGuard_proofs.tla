------------------------- MODULE RateGuard_proofs -------------------------
(***************************************************************************)
(* Proofs about the action rate limit for any number of bundles, requests,  *)
(* scopes, limits and windows.  A bundle must not outlive the window of a   *)
(* scope it draws from (BundlesFit): a reservation older than the window is *)
(* not counted by the code.                                                 *)
(***************************************************************************)
EXTENDS RateGuard, FiniteSetTheorems, TLAPS

BundlesFit == \A s \in Limited(Scopes) : MaxAge <= Window[s]

\* The rows and the admitted siblings that weigh on a scope.
Charged(s) ==
    {r \in Requests \ Rollbacks : ScopeOf[r] = s /\ Within(at[r], s)} \cup Unspent(s)

Mine(b, s) == {a \in ActionsOf(b) : ScopeOf[a] = s}

\* An open bundle is younger than MaxAge.
OpenIsYoung ==
    \A b \in Bundles : bstate[b] = "open" => born[b] <= now /\ (born[b] = now \/ now - born[b] < MaxAge)

\* Before its admission a bundle has run nothing.
UnadmittedIsNew ==
    \A a \in Actions :
        (bstate[HomeOf[a]] \in {"none", "open"} /\ admission[HomeOf[a]] # "admitted") => at[a] = Never

\* A request that passed its check has no row yet, and its bundle is still open.
PassedIsPending ==
    \A r \in passed :
        /\ at[r] = Never
        /\ r \in Actions => bstate[HomeOf[r]] = "open" /\ admission[HomeOf[r]] = "admitted"
        /\ Throttled(r) => lock[ScopeOf[r]] = r

\* Two siblings never pass the check together.
OnePassed ==
    \A a, e \in Actions : (a \in passed /\ e \in passed /\ HomeOf[a] = HomeOf[e]) => a = e

CheckedIsOpen ==
    \A b \in Bundles :
        /\ admission[b] # "none" => bstate[b] = "open"
        /\ admission[b] = "checked" => \A s \in ScopesOf(b) : lock[s] = b

\* What an admission check found still holds until the reservation is stored,
\* and what a standalone request found until its row is.
CheckedFits ==
    \A b \in Bundles : admission[b] = "checked" =>
        \A s \in ScopesOf(b) : Cardinality(Charged(s) \cup Mine(b, s)) <= Limit[s]

PassedFits ==
    \A r \in passed : (r \in Singles /\ Throttled(r)) =>
        Cardinality(Charged(ScopeOf[r]) \cup {r}) <= Limit[ScopeOf[r]]

RateInv ==
    /\ TypeOK /\ OpenIsYoung /\ UnadmittedIsNew /\ PassedIsPending /\ OnePassed
    /\ CheckedIsOpen /\ CheckedFits /\ PassedFits /\ RateRespected /\ AdmittedIsCovered

-----------------------------------------------------------------------------
(* Finite sets *)

LEMMA SmallerFits ==
    ASSUME NEW S, NEW T, IsFiniteSet(T), S \subseteq T, NEW n \in Nat, Cardinality(T) <= n
    PROVE  Cardinality(S) <= n
<1>1. Cardinality(S) <= Cardinality(T) /\ IsFiniteSet(S)
  BY FS_Subset
<1>2. Cardinality(S) \in Nat /\ Cardinality(T) \in Nat
  BY <1>1, FS_CardinalityType
<1>3. QED
  BY <1>1, <1>2

LEMMA UnionBound ==
    ASSUME NEW S, NEW T, IsFiniteSet(S), IsFiniteSet(T)
    PROVE  /\ IsFiniteSet(S \cup T) /\ Cardinality(S \cup T) \in Nat
           /\ Cardinality(S) \in Nat /\ Cardinality(T) \in Nat
           /\ Cardinality(S \cup T) <= Cardinality(S) + Cardinality(T)
<1>1. /\ IsFiniteSet(S \cup T)
      /\ Cardinality(S \cup T) = Cardinality(S) + Cardinality(T) - Cardinality(S \cap T)
  BY FS_Union
<1>2. IsFiniteSet(S \cap T)
  BY FS_Intersection
<1>3. Cardinality(S \cap T) \in Nat /\ Cardinality(S) \in Nat /\ Cardinality(T) \in Nat
      /\ Cardinality(S \cup T) \in Nat
  BY <1>1, <1>2, FS_CardinalityType
<1>4. QED
  BY <1>1, <1>3

LEMMA Finite ==
    /\ IsFiniteSet(Actions)
    /\ \A s : IsFiniteSet(Charged(s)) /\ Charged(s) \subseteq Requests
    /\ \A b, s : IsFiniteSet(Mine(b, s)) /\ Mine(b, s) \subseteq Requests
<1>1. IsFiniteSet(Requests) /\ Actions \subseteq Requests
  BY RateAssumption DEF Requests
<1>2. \A s : Charged(s) \subseteq Requests
  BY <1>1 DEF Charged, Unspent
<1>3. \A b, s : Mine(b, s) \subseteq Requests
  BY <1>1 DEF Mine, ActionsOf
<1>4. QED
  BY <1>1, <1>2, <1>3, FS_Subset

-----------------------------------------------------------------------------
(* What a scope counts covers what its admitted bundles may still run *)

\* The siblings outside own that may still run, and the reservation pairs that
\* SumReserved counts.
Waiting(s, own) == {a \in Unspent(s) : HomeOf[a] \notin own}
Pairs(B) == {p \in B \X (1..Cardinality(Actions)) : p[2] <= reserved[p[1]]}

LEMMA WaitingIsReserving ==
    ASSUME TypeOK, OpenIsYoung, BundlesFit, NEW s \in Limited(Scopes), NEW own, NEW a \in Waiting(s, own)
    PROVE  /\ a \in Actions /\ ScopeOf[a] = s /\ HomeOf[a] \in Reserving(s, own)
           /\ bstate[HomeOf[a]] = "open" /\ admission[HomeOf[a]] = "admitted" /\ at[a] = Never
<1>1. /\ a \in Actions /\ ScopeOf[a] = s /\ HomeOf[a] \in Bundles \ own
      /\ bstate[HomeOf[a]] = "open" /\ admission[HomeOf[a]] = "admitted" /\ at[a] = Never
  BY RateAssumption DEF Waiting, Unspent
<1>2. s \in Scopes /\ Limit[s] > 0 /\ Window[s] \in Nat /\ Window[s] > 0 /\ MaxAge <= Window[s]
  BY RateAssumption DEF BundlesFit, Limited
<1>3. born[HomeOf[a]] \in Nat /\ now \in Nat
  BY <1>1 DEF TypeOK
<1>4. Within(born[HomeOf[a]], s)
  BY <1>1, <1>2, <1>3, RateAssumption DEF OpenIsYoung, Within, Never
<1>5. QED
  BY <1>1, <1>4 DEF Reserving, ActionsOf

\* A sibling that is in a limited scope is throttled, and one that draws from
\* the routing budget has only such siblings.
LEMMA RoutingSiblings ==
    ASSUME NEW a \in Actions, NEW e \in Actions, HomeOf[a] = HomeOf[e], ScopeOf[a] = Routing,
           Limit[Routing] > 0
    PROVE  ScopeOf[e] = Routing /\ Throttled(e)
  BY RateAssumption DEF Throttled

\* The number of siblings that admitted bundles may still run in a scope is
\* at most what the scope counts as outstanding: each waiting sibling gets a
\* reservation of its own bundle.
LEMMA OutstandingCovers ==
    ASSUME TypeOK, OpenIsYoung, AdmittedIsCovered, BundlesFit,
           NEW s \in Limited(Scopes), NEW own
    PROVE  /\ Cardinality(Waiting(s, own)) <= Outstanding(s, own)
           /\ Outstanding(s, own) \in Nat /\ IsFiniteSet(Waiting(s, own))
<1>1. IsFiniteSet(Actions) /\ IsFiniteSet(Bundles)
  BY Finite, RateAssumption
<1>2. Waiting(s, own) \subseteq Actions
  BY DEF Waiting, Unspent
<1>3. IsFiniteSet(Waiting(s, own)) /\ Cardinality(Waiting(s, own)) \in Nat
  BY <1>1, <1>2, FS_Subset, FS_CardinalityType
<1>4. CASE s # Routing
  <2> DEFINE All == {a \in Actions : HomeOf[a] \in Reserving(s, own) /\ ScopeOf[a] = s}
  <2>1. Waiting(s, own) \subseteq All
    BY WaitingIsReserving
  <2>2. All \subseteq Actions
    OBVIOUS
  <2>3. Outstanding(s, own) = Cardinality(All)
    BY <1>4 DEF Outstanding
  <2> HIDE DEF All
  <2>4. IsFiniteSet(All) /\ Cardinality(All) \in Nat
    BY <1>1, <2>2, FS_Subset, FS_CardinalityType
  <2>5. QED
    BY <1>3, <2>1, <2>3, <2>4, FS_Subset
<1>5. CASE s = Routing
  <2> DEFINE B == Reserving(s, own)
             N == Cardinality(Actions)
             W == Waiting(s, own)
             Of(b) == {a \in W : HomeOf[a] = b}
  <2>1. B \subseteq Bundles
    BY DEF Reserving
  <2>2. N \in Nat /\ IsFiniteSet(1..N)
    BY <1>1, FS_CardinalityType, FS_Interval
  <2>3. IsFiniteSet(B \X (1..N))
    BY <1>1, <2>1, <2>2, FS_Subset, FS_Product
  <2>4. Pairs(B) \subseteq B \X (1..N)
    BY DEF Pairs
  <2>5. IsFiniteSet(Pairs(B)) /\ Cardinality(Pairs(B)) \in Nat
    BY <2>3, <2>4, FS_Subset, FS_CardinalityType
  <2>6. Outstanding(s, own) = Cardinality(Pairs(B))
    BY <1>5 DEF Outstanding, SumReserved, Pairs
  \* The siblings of b that wait can be numbered up to its reservation.
  <2>7. ASSUME NEW b \in B
        PROVE  \E f \in [Of(b) -> 1..reserved[b]] :
                  \A a, e \in Of(b) : f[a] = f[e] => a = e
    <3> DEFINE Left == {a \in ActionsOf(b) : at[a] = Never /\ Throttled(a)}
               n == Cardinality(Of(b))
    <3>1. CASE Of(b) = {}
      <4>1. [a \in Of(b) |-> 1] \in [Of(b) -> 1..reserved[b]]
        BY <3>1
      <4>2. QED
        BY <3>1, <4>1
    <3>2. CASE Of(b) # {}
      <4>1. PICK a0 \in Of(b) : TRUE
        BY <3>2
      <4>2. /\ a0 \in Actions /\ HomeOf[a0] = b /\ ScopeOf[a0] = Routing
            /\ bstate[b] = "open" /\ admission[b] = "admitted" /\ b \in Bundles
        BY <1>5, <2>1, WaitingIsReserving
      <4>3. Limit[Routing] > 0
        BY <1>5 DEF Limited
      <4>4. ASSUME NEW a \in Of(b) PROVE a \in Left
        <5>1. a \in Actions /\ HomeOf[a] = b /\ at[a] = Never
          BY WaitingIsReserving
        <5>2. Throttled(a)
          BY <4>2, <4>3, <5>1, RoutingSiblings
        <5>3. QED
          BY <5>1, <5>2 DEF ActionsOf
      <4>5. Left \subseteq Actions
        BY DEF ActionsOf
      <4>6. IsFiniteSet(Left) /\ Cardinality(Left) \in Nat
        BY <1>1, <4>5, FS_Subset, FS_CardinalityType
      <4>7. Cardinality(Left) <= reserved[b] /\ reserved[b] \in Nat
        BY <2>2, <4>2 DEF AdmittedIsCovered, TypeOK
      <4>8. IsFiniteSet(Of(b)) /\ n \in Nat /\ n <= Cardinality(Left)
        <5>1. Of(b) \subseteq Left
          BY <4>4
        <5> HIDE DEF Of, Left
        <5>2. QED
          BY <4>6, <5>1, FS_Subset, FS_CardinalityType
      <4>9. ExistsBijection(1..n, Of(b))
        BY <4>8, FS_CardinalityType
      <4>10. PICK g \in Bijection(1..n, Of(b)) : TRUE
        BY <4>9 DEF ExistsBijection
      <4> HIDE DEF Of, Left
      <4>11. /\ g \in [1..n -> Of(b)]
             /\ \A a \in Of(b) : \E i \in 1..n : g[i] = a
        BY <4>10 DEF Bijection, Injection, Surjection
      <4> DEFINE f == [a \in Of(b) |-> CHOOSE i \in 1..n : g[i] = a]
      <4>12. \A a \in Of(b) : f[a] \in 1..n /\ g[f[a]] = a
        BY <4>11
      <4>13. \A a \in Of(b) : f[a] \in 1..reserved[b]
        BY <4>6, <4>7, <4>8, <4>12
      <4>14. f \in [Of(b) -> 1..reserved[b]]
        BY <4>13
      <4>15. \A a, e \in Of(b) : f[a] = f[e] => a = e
        BY <4>12
      <4> HIDE DEF f
      <4>16. QED
        BY <4>14, <4>15
    <3>3. QED
      BY <3>1, <3>2
  <2> DEFINE Number(b) == CHOOSE f \in [Of(b) -> 1..reserved[b]] :
                             \A a, e \in Of(b) : f[a] = f[e] => a = e
             h == [a \in W |-> <<HomeOf[a], Number(HomeOf[a])[a]>>]
  <2>8. ASSUME NEW b \in B
        PROVE  /\ Number(b) \in [Of(b) -> 1..reserved[b]]
               /\ \A a, e \in Of(b) : Number(b)[a] = Number(b)[e] => a = e
    BY <2>7
  <2>9. \A a \in W : HomeOf[a] \in B /\ a \in Of(HomeOf[a])
    BY WaitingIsReserving
  <2>10. \A b \in B : reserved[b] \in 0..N
    BY <2>1 DEF TypeOK
  <2> HIDE DEF Number, Of, W, B, N
  <2>11. \A a \in W : Number(HomeOf[a])[a] \in 1..reserved[HomeOf[a]]
    BY <2>8, <2>9
  <2>12. \A a \in W : h[a] \in Pairs(B)
    <3> TAKE a \in W
    <3>1. h[a] = <<HomeOf[a], Number(HomeOf[a])[a]>>
      OBVIOUS
    <3>2. Number(HomeOf[a])[a] \in 1..N /\ Number(HomeOf[a])[a] <= reserved[HomeOf[a]]
      BY <2>2, <2>9, <2>10, <2>11
    <3>3. QED
      BY <2>9, <3>1, <3>2 DEF Pairs, N
  <2>13. \A a, e \in W : h[a] = h[e] => a = e
    <3> SUFFICES ASSUME NEW a \in W, NEW e \in W, h[a] = h[e] PROVE a = e
      OBVIOUS
    <3>1. HomeOf[a] = HomeOf[e] /\ Number(HomeOf[a])[a] = Number(HomeOf[e])[e]
      OBVIOUS
    <3>2. QED
      BY <2>8, <2>9, <3>1
  <2>14. h \in [W -> Pairs(B)]
    BY <2>12
  <2> HIDE DEF h
  <2>15. h \in Injection(W, Pairs(B))
    BY <2>13, <2>14 DEF Injection, IsInjective
  <2>16. Cardinality(W) <= Cardinality(Pairs(B))
    BY <2>5, <2>15, FS_Injection
  <2>17. QED
    BY <1>3, <2>5, <2>6, <2>16 DEF W
<1>6. QED
  BY <1>3, <1>4, <1>5

\* So the check of an admission, or of a standalone request, sees all of it.
LEMMA ChargedIsCounted ==
    ASSUME TypeOK, OpenIsYoung, UnadmittedIsNew, AdmittedIsCovered, BundlesFit,
           NEW s \in Limited(Scopes), NEW own,
           \A b \in own : bstate[b] = "open" /\ admission[b] = "none"
    PROVE  /\ Cardinality(Charged(s)) <= Recent(s, own) + Outstanding(s, own)
           /\ Cardinality(Charged(s)) \in Nat
           /\ Recent(s, own) \in Nat /\ Outstanding(s, own) \in Nat
<1> DEFINE Rows == {r \in Requests : ScopeOf[r] = s /\ Within(at[r], s)
                                     /\ (r \in Actions => HomeOf[r] \notin own)}
<1>1. Recent(s, own) = Cardinality(Rows)
  BY DEF Recent
<1>2. Charged(s) \subseteq Rows \cup Waiting(s, own)
  BY DEF Charged, Unspent, Waiting, UnadmittedIsNew, Within
<1>3. Rows \subseteq Requests
  OBVIOUS
<1> HIDE DEF Rows
<1>4. IsFiniteSet(Rows)
  BY <1>3, RateAssumption, FS_Subset
<1>5. /\ Cardinality(Waiting(s, own)) <= Outstanding(s, own)
      /\ Outstanding(s, own) \in Nat /\ IsFiniteSet(Waiting(s, own))
  BY OutstandingCovers
<1>6. /\ IsFiniteSet(Rows \cup Waiting(s, own)) /\ Cardinality(Rows \cup Waiting(s, own)) \in Nat
      /\ Cardinality(Rows) \in Nat /\ Cardinality(Waiting(s, own)) \in Nat
      /\ Cardinality(Rows \cup Waiting(s, own)) <= Cardinality(Rows) + Cardinality(Waiting(s, own))
  BY <1>4, <1>5, UnionBound
<1>7. Cardinality(Charged(s)) <= Cardinality(Rows \cup Waiting(s, own))
  BY <1>2, <1>6, FS_Subset
<1>8. Cardinality(Charged(s)) \in Nat
  BY Finite, FS_CardinalityType
<1>9. QED
  BY <1>1, <1>5, <1>6, <1>7, <1>8

-----------------------------------------------------------------------------
(* Steps: types, ages and locks *)

LEMMA ThrottledIsLimited ==
    ASSUME NEW r \in Requests, Throttled(r)
    PROVE  ScopeOf[r] \in Limited(Scopes) /\ (r \in Actions => ScopeOf[r] \in ScopesOf(HomeOf[r]))
  BY RateAssumption DEF Throttled, Limited, ScopesOf, ActionsOf

\* A throttled sibling that passed its check still has a reservation to spend.
LEMMA PassedIsReserved ==
    ASSUME RateInv, NEW a \in passed, a \in Actions, Throttled(a)
    PROVE  reserved[HomeOf[a]] \in Nat /\ reserved[HomeOf[a]] > 0
<1> DEFINE b == HomeOf[a]
           Left == {e \in ActionsOf(b) : at[e] = Never /\ Throttled(e)}
<1>1. b \in Bundles /\ bstate[b] = "open" /\ admission[b] = "admitted" /\ at[a] = Never
  BY RateAssumption DEF RateInv, PassedIsPending
<1>2. a \in Left
  BY <1>1 DEF ActionsOf
<1>3. Left \subseteq Actions
  BY DEF ActionsOf
<1>4. Cardinality(Left) <= reserved[b]
  BY <1>1 DEF RateInv, AdmittedIsCovered
<1> HIDE DEF Left
<1>5. IsFiniteSet(Left) /\ Cardinality(Left) \in Nat
  BY <1>3, Finite, FS_Subset, FS_CardinalityType
<1>6. Cardinality(Left) # 0
  BY <1>2, <1>5, FS_EmptySet
<1>7. reserved[b] \in Nat
  <2>1. Cardinality(Actions) \in Nat
    BY Finite, FS_CardinalityType
  <2>2. QED
    BY <1>1, <2>1 DEF RateInv, TypeOK
<1>8. QED
  BY <1>4, <1>5, <1>6, <1>7

LEMMA TypeStep == RateInv /\ [Next]_vars => TypeOK'
<1> SUFFICES ASSUME RateInv, [Next]_vars PROVE TypeOK'
  OBVIOUS
<1>0. Cardinality(Actions) \in Nat
  BY Finite, FS_CardinalityType
<1> USE <1>0, RateAssumption DEF RateInv, TypeOK, Never
<1>1. ASSUME NEW b \in Bundles, Create(b) PROVE TypeOK'
  BY <1>1 DEF Create
<1>2. ASSUME NEW b \in Bundles, AdmitCheck(b) PROVE TypeOK'
  BY <1>2 DEF AdmitCheck
<1>3. ASSUME NEW b \in Bundles, AdmitRefused(b) PROVE TypeOK'
  BY <1>3 DEF AdmitRefused
<1>4. ASSUME NEW b \in Bundles, AdmitReserve(b) PROVE TypeOK'
  <2>1. ActionsOf(b) \subseteq Actions
    BY DEF ActionsOf
  <2>2. Cardinality(ActionsOf(b)) \in 0..Cardinality(Actions)
    BY <2>1, Finite, FS_Subset, FS_CardinalityType
  <2>3. QED
    BY <1>4, <2>2 DEF AdmitReserve, Unlock
<1>5. ASSUME NEW b \in Bundles, Close(b) PROVE TypeOK'
  BY <1>5 DEF Close
<1>6. ASSUME NEW r \in Requests, CheckRate(r) PROVE TypeOK'
  BY <1>6 DEF CheckRate
<1>7. ASSUME NEW r \in Requests, Insert(r) PROVE TypeOK'
  <2>1. reserved' \in [Bundles -> 0..Cardinality(Actions)]
    <3>1. CASE r \in Actions /\ Throttled(r)
      <4>1. HomeOf[r] \in Bundles /\ reserved[HomeOf[r]] > 0
        BY <1>7, <3>1, PassedIsReserved DEF Insert
      <4>2. reserved' = [reserved EXCEPT ![HomeOf[r]] = reserved[HomeOf[r]] - 1]
        BY <1>7, <3>1 DEF Insert
      <4>3. QED
        BY <4>1, <4>2
    <3>2. CASE ~(r \in Actions /\ Throttled(r))
      BY <1>7, <3>2 DEF Insert
    <3>3. QED
      BY <3>1, <3>2
  <2>2. QED
    BY <1>7, <2>1 DEF Insert, Unlock
<1>8. ASSUME NEW r \in Requests, InsertRefused(r) PROVE TypeOK'
  BY <1>8 DEF InsertRefused, Unlock
<1>9. CASE Tick
  BY <1>9 DEF Tick
<1>10. CASE Restart
  BY <1>10 DEF Restart
<1>11. CASE UNCHANGED vars
  BY <1>11 DEF vars
<1>12. QED
  BY <1>1, <1>2, <1>3, <1>4, <1>5, <1>6, <1>7, <1>8, <1>9, <1>10, <1>11 DEF Next

Ledger == OpenIsYoung /\ UnadmittedIsNew /\ PassedIsPending /\ OnePassed /\ CheckedIsOpen

LEMMA LedgerStep == RateInv /\ [Next]_vars => Ledger'
<1> SUFFICES ASSUME RateInv, [Next]_vars PROVE Ledger'
  OBVIOUS
<1> USE RateAssumption DEF RateInv, Ledger, OpenIsYoung, UnadmittedIsNew, PassedIsPending, OnePassed,
        CheckedIsOpen, TypeOK, Never, Throttled, Requests
<1>1. ASSUME NEW b \in Bundles, Create(b) PROVE Ledger'
  BY <1>1 DEF Create
<1>2. ASSUME NEW b \in Bundles, AdmitCheck(b) PROVE Ledger'
  BY <1>2 DEF AdmitCheck, ScopesOf, Limited, ActionsOf
<1>3. ASSUME NEW b \in Bundles, AdmitRefused(b) PROVE Ledger'
  BY <1>3 DEF AdmitRefused
<1>4. ASSUME NEW b \in Bundles, AdmitReserve(b) PROVE Ledger'
  BY <1>4 DEF AdmitReserve, Unlock, ScopesOf, Limited, ActionsOf
<1>5. ASSUME NEW b \in Bundles, Close(b) PROVE Ledger'
  BY <1>5 DEF Close, ActionsOf
<1>6. ASSUME NEW r \in Requests, CheckRate(r) PROVE Ledger'
  BY <1>6 DEF CheckRate, Asks, ScopesOf, Limited, ActionsOf
<1>7. ASSUME NEW r \in Requests, Insert(r) PROVE Ledger'
  BY <1>7 DEF Insert, Unlock, ScopesOf, Limited, ActionsOf
<1>8. ASSUME NEW r \in Requests, InsertRefused(r) PROVE Ledger'
  BY <1>8 DEF InsertRefused, Unlock, ScopesOf, Limited, ActionsOf
<1>9. CASE Tick
  BY <1>9 DEF Tick
<1>10. CASE Restart
  BY <1>10 DEF Restart
<1>11. CASE UNCHANGED vars
  BY <1>11 DEF vars
<1>12. QED
  BY <1>1, <1>2, <1>3, <1>4, <1>5, <1>6, <1>7, <1>8, <1>9, <1>10, <1>11 DEF Next

-----------------------------------------------------------------------------
(* Steps: reservations *)

Left(b) == {a \in ActionsOf(b) : at[a] = Never /\ Throttled(a)}

LEMMA LeftIsFinite ==
    \A b : IsFiniteSet(Left(b)) /\ Cardinality(Left(b)) \in Nat /\ Left(b) \subseteq Actions
<1>1. \A b : Left(b) \subseteq Actions
  BY DEF Left, ActionsOf
<1>2. QED
  BY <1>1, Finite, FS_Subset, FS_CardinalityType

\* A step that runs no sibling of b and leaves its reservation alone.
LEMMA CoveredFrame ==
    ASSUME RateInv, NEW b \in Bundles,
           bstate'[b] = "open" /\ admission'[b] = "admitted" =>
                bstate[b] = "open" /\ admission[b] = "admitted" /\ reserved'[b] = reserved[b],
           \A a \in Actions : at'[a] = Never => at[a] = Never
    PROVE  bstate'[b] = "open" /\ admission'[b] = "admitted" =>
                Cardinality(Left(b)') <= reserved'[b]
<1>1. Left(b)' \subseteq Left(b)
  BY DEF Left, ActionsOf, Throttled
<1>2. SUFFICES ASSUME bstate'[b] = "open" /\ admission'[b] = "admitted"
               PROVE  Cardinality(Left(b)') <= reserved[b]
  OBVIOUS
<1>3. Cardinality(Left(b)) <= reserved[b]
  BY <1>2 DEF RateInv, AdmittedIsCovered, Left
<1>4. reserved[b] \in Nat
  <2>1. Cardinality(Actions) \in Nat
    BY Finite, FS_CardinalityType
  <2>2. QED
    BY <2>1 DEF RateInv, TypeOK
<1>5. QED
  BY <1>1, <1>3, <1>4, LeftIsFinite, SmallerFits

LEMMA CoveredStep == RateInv /\ [Next]_vars => AdmittedIsCovered'
<1> SUFFICES ASSUME RateInv, [Next]_vars, NEW b \in Bundles
             PROVE  bstate'[b] = "open" /\ admission'[b] = "admitted"
                        => Cardinality(Left(b)') <= reserved'[b]
  BY DEF AdmittedIsCovered, Left, ActionsOf, Throttled
<1> DEFINE Goal == bstate'[b] = "open" /\ admission'[b] = "admitted"
                        => Cardinality(Left(b)') <= reserved'[b]
<1> USE DEF RateInv, TypeOK
<1>1. ASSUME NEW x \in Bundles,
             Create(x) \/ AdmitCheck(x) \/ AdmitRefused(x) \/ Close(x)
      PROVE  Goal
  BY <1>1, CoveredFrame DEF Create, AdmitCheck, AdmitRefused, Close, UnadmittedIsNew, CheckedIsOpen
<1>2. ASSUME NEW x \in Bundles, AdmitReserve(x) PROVE Goal
  <2>1. CASE x # b
    BY <1>2, <2>1, CoveredFrame DEF AdmitReserve
  <2>2. CASE x = b
    <3>1. at' = at /\ Left(b)' = Left(b)
      BY <1>2 DEF AdmitReserve, Left, ActionsOf, Throttled
    <3>2. CASE ScopesOf(b) = {}
      <4>1. Left(b) = {}
        BY <3>2, RateAssumption DEF Left, ActionsOf, Throttled, ScopesOf, Limited, Requests
      <4>2. reserved'[b] = 0
        BY <1>2, <2>2, <3>2 DEF AdmitReserve
      <4>3. QED
        BY <3>1, <4>1, <4>2, FS_EmptySet
    <3>3. CASE ScopesOf(b) # {}
      <4>1. reserved'[b] = Cardinality(ActionsOf(b))
        BY <1>2, <2>2, <3>3 DEF AdmitReserve
      <4>2. Left(b) \subseteq ActionsOf(b) /\ ActionsOf(b) \subseteq Actions
        BY DEF Left, ActionsOf
      <4>3. QED
        BY <3>1, <4>1, <4>2, Finite, FS_Subset
    <3>4. QED
      BY <3>2, <3>3
  <2>3. QED
    BY <2>1, <2>2
<1>3. ASSUME NEW r \in Requests, CheckRate(r) \/ InsertRefused(r) PROVE Goal
  BY <1>3, CoveredFrame DEF CheckRate, InsertRefused
<1>4. ASSUME NEW r \in Requests, Insert(r) PROVE Goal
  <2>1. /\ \A a \in Actions : at'[a] = Never => at[a] = Never
        /\ UNCHANGED <<bstate, admission>>
    BY <1>4 DEF Insert, PassedIsPending
  <2>2. CASE r \in Actions /\ Throttled(r) /\ HomeOf[r] = b
    <3>1. reserved'[b] = reserved[b] - 1 /\ reserved[b] \in Nat /\ reserved[b] > 0
      BY <1>4, <2>2, PassedIsReserved DEF Insert
    <3>2. r \in Left(b)
      BY <1>4, <2>2 DEF Insert, Left, ActionsOf, PassedIsPending
    <3>3. now # Never /\ at'[r] = now
      BY <1>4 DEF Insert, Never
    <3>4. Left(b)' \subseteq Left(b) \ {r}
      BY <2>1, <3>3 DEF Left, ActionsOf, Throttled
    <3>5. bstate[b] = "open" /\ admission[b] = "admitted" /\ Cardinality(Left(b)) <= reserved[b]
      BY <1>4, <2>2 DEF Insert, PassedIsPending, AdmittedIsCovered, Left
    <3>6. IsFiniteSet(Left(b) \ {r}) /\ Cardinality(Left(b) \ {r}) = Cardinality(Left(b)) - 1
      BY <3>2, LeftIsFinite, FS_RemoveElement
    <3>7. Cardinality(Left(b) \ {r}) <= reserved[b] - 1 /\ reserved[b] - 1 \in Nat
      BY <3>1, <3>5, <3>6, LeftIsFinite
    <3>8. QED
      BY <3>1, <3>4, <3>6, <3>7, SmallerFits
  <2>3. CASE ~(r \in Actions /\ Throttled(r) /\ HomeOf[r] = b)
    <3>1. reserved'[b] = reserved[b]
      BY <1>4, <2>3 DEF Insert
    <3>2. QED
      BY <2>1, <3>1, CoveredFrame
  <2>4. QED
    BY <2>2, <2>3
<1>5. CASE Tick
  BY <1>5, CoveredFrame DEF Tick
<1>6. CASE Restart
  BY <1>6 DEF Restart
<1>7. CASE UNCHANGED vars
  BY <1>7, CoveredFrame DEF vars
<1>8. QED
  BY <1>1, <1>2, <1>3, <1>4, <1>5, <1>6, <1>7 DEF Next

-----------------------------------------------------------------------------
(* Steps: the limit *)

Fitting == CheckedFits /\ PassedFits /\ RateRespected

LEMMA RespectedIs ==
    /\ RateRespected <=> \A s \in Limited(Scopes) : Cardinality(Charged(s)) <= Limit[s]
    /\ RateRespected' <=> \A s \in Limited(Scopes) : Cardinality(Charged(s)') <= Limit[s]
  BY DEF RateRespected, Charged, Within, Unspent

\* A scope that gains at most the set X fits if it fitted with X.
LEMMA GainFits ==
    ASSUME NEW s \in Limited(Scopes), NEW X, NEW Y, X \subseteq Requests, Y \subseteq Requests,
           Charged(s)' \subseteq Charged(s) \cup X, Cardinality(Charged(s) \cup X \cup Y) <= Limit[s]
    PROVE  Cardinality(Charged(s)' \cup Y) <= Limit[s]
<1>1. Charged(s)' \cup Y \subseteq Charged(s) \cup X \cup Y
  OBVIOUS
<1>2. Charged(s) \cup X \cup Y \subseteq Requests
  BY Finite
<1>3. IsFiniteSet(Charged(s) \cup X \cup Y)
  BY <1>2, RateAssumption, FS_Subset
<1>4. Limit[s] \in Nat
  BY RateAssumption DEF Limited
<1>5. QED
  BY <1>1, <1>3, <1>4, SmallerFits

\* A step by which no scope gains anything keeps every fit it found.
LEMMA ShrinkFits ==
    ASSUME RateInv, \A s \in Limited(Scopes) : Charged(s)' \subseteq Charged(s)
    PROVE  /\ RateRespected'
           /\ \A b \in Bundles : admission[b] = "checked" =>
                 \A s \in ScopesOf(b) : Cardinality(Charged(s)' \cup Mine(b, s)) <= Limit[s]
           /\ \A r \in passed : (r \in Singles /\ Throttled(r)) =>
                 Cardinality(Charged(ScopeOf[r])' \cup {r}) <= Limit[ScopeOf[r]]
<1>1. ASSUME NEW s \in Limited(Scopes) PROVE Cardinality(Charged(s)') <= Limit[s]
  <2>1. Cardinality(Charged(s)) <= Limit[s]
    BY RespectedIs DEF RateInv
  <2>2. Limit[s] \in Nat
    BY RateAssumption DEF Limited
  <2>3. QED
    BY <2>1, <2>2, Finite, SmallerFits
<1>2. ASSUME NEW b \in Bundles, admission[b] = "checked", NEW s \in ScopesOf(b)
      PROVE  Cardinality(Charged(s)' \cup Mine(b, s)) <= Limit[s]
  <2>1. s \in Limited(Scopes)
    BY RateAssumption DEF ScopesOf, Limited, ActionsOf, Requests
  <2>2. Cardinality(Charged(s) \cup {} \cup Mine(b, s)) <= Limit[s]
    <3>1. Charged(s) \cup {} \cup Mine(b, s) = Charged(s) \cup Mine(b, s)
      OBVIOUS
    <3>2. QED
      BY <1>2, <3>1 DEF RateInv, CheckedFits
  <2>3. Mine(b, s) \subseteq Requests
    BY Finite
  <2>4. QED
    BY <2>1, <2>2, <2>3, GainFits
<1>3. ASSUME NEW r \in passed, r \in Singles, Throttled(r)
      PROVE  Cardinality(Charged(ScopeOf[r])' \cup {r}) <= Limit[ScopeOf[r]]
  <2>1. r \in Requests /\ ScopeOf[r] \in Limited(Scopes)
    BY <1>3, ThrottledIsLimited DEF RateInv, TypeOK
  <2>2. Cardinality(Charged(ScopeOf[r]) \cup {} \cup {r}) <= Limit[ScopeOf[r]]
    <3>1. Charged(ScopeOf[r]) \cup {} \cup {r} = Charged(ScopeOf[r]) \cup {r}
      OBVIOUS
    <3>2. QED
      BY <1>3, <3>1 DEF RateInv, PassedFits
  <2>3. {r} \subseteq Requests /\ {} \subseteq Requests
    BY <2>1
  <2>4. Charged(ScopeOf[r])' \subseteq Charged(ScopeOf[r]) \cup {}
    BY <2>1
  <2>5. QED
    BY <2>1, <2>2, <2>3, <2>4, GainFits, Zenon
<1>4. QED
  BY <1>1, <1>2, <1>3, RespectedIs

\* The same, as the invariant after a step that starts no check.
LEMMA ShrinkKeeps ==
    ASSUME RateInv, \A s \in Limited(Scopes) : Charged(s)' \subseteq Charged(s),
           \A b \in Bundles : admission'[b] = "checked" => admission[b] = "checked",
           passed' \subseteq passed
    PROVE  Fitting'
<1>1. CheckedFits' <=> \A b \in Bundles : admission'[b] = "checked" =>
          \A s \in ScopesOf(b) : Cardinality(Charged(s)' \cup Mine(b, s)) <= Limit[s]
  BY DEF CheckedFits, ScopesOf, Limited, ActionsOf, Mine
<1>2. PassedFits' <=> \A r \in passed' : (r \in Singles /\ Throttled(r)) =>
          Cardinality(Charged(ScopeOf[r])' \cup {r}) <= Limit[ScopeOf[r]]
  BY DEF PassedFits, Throttled
<1>3. QED
  BY <1>1, <1>2, ShrinkFits DEF Fitting

\* Which steps make no scope gain anything.
LEMMA ChargedShrinks ==
    ASSUME RateInv,
           now' >= now, now' \in Nat,
           \A r \in Requests \ Rollbacks : at'[r] = at[r] \/ (r \in Actions /\ at[r] = Never /\ r \in passed),
           \A r \in Actions : at'[r] = Never => at[r] = Never,
           \A b \in Bundles : bstate'[b] = "open" /\ admission'[b] = "admitted" =>
                                bstate[b] = "open" /\ admission[b] = "admitted"
    PROVE  \A s \in Limited(Scopes) : Charged(s)' \subseteq Charged(s)
<1> SUFFICES ASSUME NEW s \in Limited(Scopes), NEW r \in Charged(s)' PROVE r \in Charged(s)
  OBVIOUS
<1>1. r \in Requests \ Rollbacks /\ ScopeOf[r] = s /\ Window[s] \in Nat
  BY RateAssumption DEF Charged, Unspent, Requests, Limited
<1>2. CASE r \in Actions /\ bstate[HomeOf[r]] = "open" /\ admission[HomeOf[r]] = "admitted" /\ at[r] = Never
  BY <1>1, <1>2 DEF Charged, Unspent
<1>3. CASE at'[r] = at[r] /\ at[r] # Never
  <2>1. at[r] \in Nat /\ now \in Nat
    BY <1>1, <1>3 DEF RateInv, TypeOK
  <2>2. r \notin Unspent(s)'
    BY <1>3 DEF Unspent
  <2>3. at[r] > now' - Window[s]
    BY <1>3, <2>2 DEF Charged, Within
  <2>4. Within(at[r], s)
    BY <1>1, <1>3, <2>1, <2>3 DEF Within
  <2>5. QED
    BY <1>1, <2>4 DEF Charged
<1>4. CASE at'[r] = Never
  <2>1. r \in Unspent(s)'
    BY <1>4 DEF Charged, Within
  <2>2. QED
    BY <1>2, <2>1, RateAssumption DEF Unspent
<1>5. CASE r \in Actions /\ at[r] = Never /\ r \in passed
  BY <1>2, <1>5 DEF RateInv, PassedIsPending
<1>6. QED
  BY <1>1, <1>3, <1>4, <1>5

\* An admission check: what the scope counts covers what weighs on it.
LEMMA AdmitCheckFits ==
    ASSUME RateInv, BundlesFit, NEW b \in Bundles, AdmitCheck(b), NEW s \in ScopesOf(b)
    PROVE  Cardinality(Charged(s) \cup Mine(b, s)) <= Limit[s]
<1>1. s \in Limited(Scopes)
  BY RateAssumption DEF ScopesOf, Limited, ActionsOf, Requests
<1>2. Recent(s, {b}) + Outstanding(s, {b}) + Cardinality(Mine(b, s)) <= Limit[s]
  BY DEF AdmitCheck, Fits, Mine
<1>3. \A c \in {b} : bstate[c] = "open" /\ admission[c] = "none"
  BY DEF AdmitCheck
<1>4. /\ Cardinality(Charged(s)) <= Recent(s, {b}) + Outstanding(s, {b})
      /\ Cardinality(Charged(s)) \in Nat /\ Recent(s, {b}) \in Nat /\ Outstanding(s, {b}) \in Nat
  BY <1>1, <1>3, ChargedIsCounted DEF RateInv
<1>5. /\ Cardinality(Charged(s) \cup Mine(b, s)) <= Cardinality(Charged(s)) + Cardinality(Mine(b, s))
      /\ Cardinality(Charged(s) \cup Mine(b, s)) \in Nat /\ Cardinality(Mine(b, s)) \in Nat
  BY Finite, UnionBound
<1>6. Limit[s] \in Nat
  BY <1>1, RateAssumption DEF Limited
<1>7. QED
  BY <1>2, <1>4, <1>5, <1>6

\* The check of a standalone request.
LEMMA CheckRateFits ==
    ASSUME RateInv, BundlesFit, NEW r \in Requests, CheckRate(r), r \in Singles, Throttled(r)
    PROVE  Cardinality(Charged(ScopeOf[r]) \cup {r}) <= Limit[ScopeOf[r]]
<1> DEFINE s == ScopeOf[r]
<1>1. s \in Limited(Scopes)
  BY ThrottledIsLimited
<1>2. Recent(s, {}) + Outstanding(s, {}) < Limit[s]
  BY RateAssumption DEF CheckRate, HasBudget
<1> HIDE DEF s
<1>4. /\ Cardinality(Charged(s)) <= Recent(s, {}) + Outstanding(s, {})
      /\ Cardinality(Charged(s)) \in Nat /\ Recent(s, {}) \in Nat /\ Outstanding(s, {}) \in Nat
  BY <1>1, ChargedIsCounted DEF RateInv
<1>5. IsFiniteSet({r}) /\ Cardinality({r}) = 1
  BY FS_Singleton
<1>6. /\ Cardinality(Charged(s) \cup {r}) <= Cardinality(Charged(s)) + Cardinality({r})
      /\ Cardinality(Charged(s) \cup {r}) \in Nat
  BY <1>5, Finite, UnionBound
<1>7. Limit[s] \in Nat
  BY <1>1, RateAssumption DEF Limited
<1>8. QED
  BY <1>2, <1>4, <1>5, <1>6, <1>7 DEF s

LEMMA FittingIs ==
    /\ CheckedFits' <=> \A b \in Bundles : admission'[b] = "checked" =>
          \A s \in ScopesOf(b) : Cardinality(Charged(s)' \cup Mine(b, s)) <= Limit[s]
    /\ PassedFits' <=> \A r \in passed' : (r \in Singles /\ Throttled(r)) =>
          Cardinality(Charged(ScopeOf[r])' \cup {r}) <= Limit[ScopeOf[r]]
  BY DEF CheckedFits, PassedFits, ScopesOf, Limited, ActionsOf, Mine, Throttled

\* Storing a reservation: only the scopes whose locks b holds gain, and they
\* gain what the check made room for.
LEMMA ReserveFits == ASSUME RateInv, NEW b \in Bundles, AdmitReserve(b) PROVE Fitting'
<1>1. /\ admission[b] = "checked" /\ admission' = [admission EXCEPT ![b] = "admitted"]
      /\ UNCHANGED <<now, bstate, born, at, passed>>
  BY DEF AdmitReserve
<1>2. \A s : Charged(s)' \subseteq Charged(s) \cup Mine(b, s)
  BY <1>1, RateAssumption DEF Charged, Unspent, Within, Mine, ActionsOf, RateInv, TypeOK
<1>3. \A s \in Limited(Scopes) : s \in ScopesOf(b) \/ Mine(b, s) = {}
  BY DEF ScopesOf, Limited, Mine
<1>4. \A s \in ScopesOf(b) : s \in Limited(Scopes) /\ lock[s] = b
  BY <1>1, RateAssumption DEF RateInv, CheckedIsOpen, ScopesOf, Limited, ActionsOf, Requests
<1>5. ASSUME NEW s \in Limited(Scopes), s \notin ScopesOf(b), NEW Y, Y \subseteq Requests,
             Cardinality(Charged(s) \cup Y) <= Limit[s]
      PROVE  Cardinality(Charged(s)' \cup Y) <= Limit[s]
  <2>1. Charged(s)' \cup Y \subseteq Charged(s) \cup Y
    BY <1>2, <1>3, <1>5
  <2>2. Charged(s) \cup Y \subseteq Requests
    BY <1>5, Finite
  <2>3. IsFiniteSet(Charged(s) \cup Y) /\ Limit[s] \in Nat
    BY <2>2, RateAssumption, FS_Subset DEF Limited
  <2>4. QED
    BY <1>5, <2>1, <2>3, SmallerFits
<1>6. RateRespected'
  <2> SUFFICES ASSUME NEW s \in Limited(Scopes) PROVE Cardinality(Charged(s)') <= Limit[s]
    BY RespectedIs
  <2>1. Limit[s] \in Nat
    BY RateAssumption DEF Limited
  <2>2. CASE s \in ScopesOf(b)
    <3>1. Cardinality(Charged(s) \cup Mine(b, s)) <= Limit[s]
      BY <1>1, <2>2 DEF RateInv, CheckedFits
    <3>2. IsFiniteSet(Charged(s) \cup Mine(b, s))
      BY Finite, UnionBound
    <3>3. QED
      BY <1>2, <2>1, <3>1, <3>2, SmallerFits
  <2>3. CASE s \notin ScopesOf(b)
    <3>1. Charged(s)' \subseteq Charged(s)
      BY <1>2, <1>3, <2>3
    <3>2. Cardinality(Charged(s)) <= Limit[s]
      BY RespectedIs DEF RateInv
    <3>3. QED
      BY <2>1, <3>1, <3>2, Finite, SmallerFits
  <2>4. QED
    BY <2>2, <2>3
<1>7. CheckedFits'
  <2> SUFFICES ASSUME NEW c \in Bundles, admission'[c] = "checked", NEW s \in ScopesOf(c)
               PROVE  Cardinality(Charged(s)' \cup Mine(c, s)) <= Limit[s]
    BY FittingIs
  <2>1. c # b /\ admission[c] = "checked"
    BY <1>1 DEF RateInv, TypeOK
  <2>2. s \in Limited(Scopes) /\ lock[s] = c
    BY <2>1, RateAssumption DEF RateInv, CheckedIsOpen, ScopesOf, Limited, ActionsOf, Requests
  <2>3. s \notin ScopesOf(b)
    BY <1>4, <2>1, <2>2
  <2>4. Cardinality(Charged(s) \cup Mine(c, s)) <= Limit[s]
    BY <2>1 DEF RateInv, CheckedFits
  <2>5. QED
    BY <1>5, <2>2, <2>3, <2>4, Finite
<1>8. PassedFits'
  <2> SUFFICES ASSUME NEW r \in passed, r \in Singles, Throttled(r)
               PROVE  Cardinality(Charged(ScopeOf[r])' \cup {r}) <= Limit[ScopeOf[r]]
    BY <1>1, FittingIs
  <2>1. r \in Requests /\ ScopeOf[r] \in Limited(Scopes) /\ lock[ScopeOf[r]] = r /\ r # b
    BY ThrottledIsLimited, RateAssumption DEF RateInv, TypeOK, PassedIsPending
  <2>2. ScopeOf[r] \notin ScopesOf(b)
    BY <1>4, <2>1
  <2>3. Cardinality(Charged(ScopeOf[r]) \cup {r}) <= Limit[ScopeOf[r]] /\ {r} \subseteq Requests
    BY <2>1 DEF RateInv, PassedFits
  <2>4. QED
    BY <1>5, <2>1, <2>2, <2>3
<1>9. QED
  BY <1>6, <1>7, <1>8 DEF Fitting

\* A standalone row: only its own scope gains, and only that row.
LEMMA InsertFits == ASSUME RateInv, NEW r \in Requests, Insert(r) PROVE Fitting'
<1>1. /\ at' = [at EXCEPT ![r] = now] /\ r \in passed /\ passed' = passed \ {r} /\ at[r] = Never
      /\ UNCHANGED <<now, bstate, born, admission>>
  BY DEF Insert, RateInv, PassedIsPending
<1>2. CASE r \notin Singles \/ ~Throttled(r)
  <2>1. \A s \in Limited(Scopes) : Charged(s)' \subseteq Charged(s)
    <3>1. CASE r \in Actions
      <4>1. now \in Nat /\ now # Never
        BY DEF RateInv, TypeOK, Never
      <4>2. /\ \A q \in Requests \ Rollbacks :
                  at'[q] = at[q] \/ (q \in Actions /\ at[q] = Never /\ q \in passed)
            /\ \A q \in Actions : at'[q] = Never => at[q] = Never
        BY <1>1, <3>1, <4>1 DEF RateInv, TypeOK, Requests
      <4>3. QED
        BY <1>1, <4>1, <4>2, ChargedShrinks
    <3>2. CASE r \notin Actions
      <4>1. r \in Rollbacks \/ ScopeOf[r] \notin Limited(Scopes)
        BY <1>2, <3>2 DEF Requests, Throttled, Limited
      <4>2. \A q \in Requests : q # r => at'[q] = at[q]
        BY <1>1 DEF RateInv, TypeOK
      <4>3. QED
        BY <1>1, <3>2, <4>1, <4>2 DEF Charged, Unspent, Within, Requests
    <3>3. QED
      BY <3>1, <3>2
  <2>2. QED
    BY <1>1, <2>1, ShrinkKeeps
<1>3. CASE r \in Singles /\ Throttled(r)
  <2> DEFINE t == ScopeOf[r]
  <2>1. t \in Limited(Scopes) /\ lock[t] = r /\ r \notin Bundles
    BY <1>1, <1>3, ThrottledIsLimited, RateAssumption DEF RateInv, PassedIsPending
  <2>2. \A q \in Requests : q # r => at'[q] = at[q]
    BY <1>1 DEF RateInv, TypeOK
  <2>3. r \notin Actions
    BY <1>3, RateAssumption
  <2>4. \A s : s # t => Charged(s)' \subseteq Charged(s)
    BY <1>1, <2>2, <2>3 DEF Charged, Unspent, Within, Requests
  <2>5. Charged(t)' \subseteq Charged(t) \cup {r}
    BY <1>1, <2>2, <2>3 DEF Charged, Unspent, Within, Requests
  <2>6. Cardinality(Charged(t) \cup {r}) <= Limit[t]
    BY <1>1, <1>3 DEF RateInv, PassedFits
  <2>7. IsFiniteSet({r}) /\ IsFiniteSet(Charged(t) \cup {r})
    BY FS_Singleton, Finite, UnionBound
  <2>8. ASSUME NEW s \in Limited(Scopes), s # t, NEW Y, Y \subseteq Requests,
               Cardinality(Charged(s) \cup Y) <= Limit[s]
        PROVE  Cardinality(Charged(s)' \cup Y) <= Limit[s]
    <3>1. Charged(s)' \cup Y \subseteq Charged(s) \cup Y
      BY <2>4, <2>8
    <3>2. Charged(s) \cup Y \subseteq Requests
      BY <2>8, Finite
    <3>3. IsFiniteSet(Charged(s) \cup Y) /\ Limit[s] \in Nat
      BY <3>2, RateAssumption, FS_Subset DEF Limited
    <3>4. QED
      BY <2>8, <3>1, <3>3, SmallerFits
  <2> HIDE DEF t
  <2>9. RateRespected'
    <3> SUFFICES ASSUME NEW s \in Limited(Scopes) PROVE Cardinality(Charged(s)') <= Limit[s]
      BY RespectedIs
    <3>1. Limit[s] \in Nat
      BY RateAssumption DEF Limited
    <3>2. CASE s = t
      BY <2>5, <2>6, <2>7, <3>1, <3>2, SmallerFits
    <3>3. CASE s # t
      <4>1. Charged(s)' \subseteq Charged(s) /\ Cardinality(Charged(s)) <= Limit[s]
        BY <2>4, <3>3, RespectedIs DEF RateInv
      <4>2. QED
        BY <3>1, <4>1, Finite, SmallerFits
    <3>4. QED
      BY <3>2, <3>3
  <2>10. CheckedFits'
    <3> SUFFICES ASSUME NEW c \in Bundles, admission[c] = "checked", NEW s \in ScopesOf(c)
                 PROVE  Cardinality(Charged(s)' \cup Mine(c, s)) <= Limit[s]
      BY <1>1, FittingIs
    <3>1. s \in Limited(Scopes) /\ lock[s] = c
      BY RateAssumption DEF RateInv, CheckedIsOpen, ScopesOf, Limited, ActionsOf, Requests
    <3>2. s # t
      BY <2>1, <3>1
    <3>3. Cardinality(Charged(s) \cup Mine(c, s)) <= Limit[s]
      BY DEF RateInv, CheckedFits
    <3>4. QED
      BY <2>8, <3>1, <3>2, <3>3, Finite
  <2>11. PassedFits'
    <3> SUFFICES ASSUME NEW q \in passed, q # r, q \in Singles, Throttled(q)
                 PROVE  Cardinality(Charged(ScopeOf[q])' \cup {q}) <= Limit[ScopeOf[q]]
      BY <1>1, FittingIs
    <3>1. q \in Requests /\ ScopeOf[q] \in Limited(Scopes) /\ lock[ScopeOf[q]] = q
      BY ThrottledIsLimited DEF RateInv, TypeOK, PassedIsPending
    <3>2. ScopeOf[q] # t
      BY <2>1, <3>1
    <3>3. Cardinality(Charged(ScopeOf[q]) \cup {q}) <= Limit[ScopeOf[q]] /\ {q} \subseteq Requests
      BY <3>1 DEF RateInv, PassedFits
    <3>4. QED
      BY <2>8, <3>1, <3>2, <3>3
  <2>12. QED
    BY <2>9, <2>10, <2>11 DEF Fitting
<1>4. QED
  BY <1>2, <1>3

LEMMA FittingStep == RateInv /\ BundlesFit /\ [Next]_vars => Fitting'
<1> SUFFICES ASSUME RateInv, BundlesFit, [Next]_vars PROVE Fitting'
  OBVIOUS
<1>0. now \in Nat
  BY DEF RateInv, TypeOK
\* A step that starts no check and inserts no row.
<1>a. ASSUME now' >= now, now' \in Nat, UNCHANGED at, passed' \subseteq passed,
             \A b \in Bundles : /\ bstate'[b] = "open" => bstate[b] = "open" \/ bstate[b] = "none"
                                /\ admission'[b] = admission[b] \/ admission'[b] = "none"
      PROVE  Fitting'
  <2>1. \A b \in Bundles : bstate'[b] = "open" /\ admission'[b] = "admitted" =>
                              bstate[b] = "open" /\ admission[b] = "admitted"
    BY <1>a DEF RateInv, CheckedIsOpen
  <2>2. \A s \in Limited(Scopes) : Charged(s)' \subseteq Charged(s)
    BY <1>a, <2>1, ChargedShrinks
  <2>3. QED
    BY <1>a, <2>2, ShrinkKeeps
<1>1. ASSUME NEW b \in Bundles, Create(b) \/ AdmitRefused(b) \/ Close(b) PROVE Fitting'
  BY <1>0, <1>1, <1>a DEF Create, AdmitRefused, Close, RateInv, TypeOK
<1>2. ASSUME NEW b \in Bundles, AdmitCheck(b) PROVE Fitting'
  <2>1. /\ UNCHANGED <<now, at, bstate, passed>>
        /\ \A c \in Bundles : admission'[c] = IF c = b THEN "checked" ELSE admission[c]
    BY <1>2 DEF AdmitCheck, RateInv, TypeOK
  <2>2. \A c \in Bundles : bstate'[c] = "open" /\ admission'[c] = "admitted" =>
                              bstate[c] = "open" /\ admission[c] = "admitted"
    BY <2>1
  <2>3. \A s \in Limited(Scopes) : Charged(s)' \subseteq Charged(s)
    BY <1>0, <2>1, <2>2, ChargedShrinks
  <2>4. ASSUME NEW s \in ScopesOf(b) PROVE Cardinality(Charged(s)' \cup Mine(b, s)) <= Limit[s]
    <3>1. s \in Limited(Scopes)
      BY RateAssumption DEF ScopesOf, Limited, ActionsOf, Requests
    <3>2. Cardinality(Charged(s) \cup Mine(b, s)) <= Limit[s]
      BY <1>2, AdmitCheckFits
    <3>3. IsFiniteSet(Charged(s) \cup Mine(b, s)) /\ Limit[s] \in Nat
      BY <3>1, Finite, UnionBound, RateAssumption DEF Limited
    <3>4. Charged(s)' \cup Mine(b, s) \subseteq Charged(s) \cup Mine(b, s)
      BY <2>3, <3>1
    <3>5. QED
      BY <3>2, <3>3, <3>4, SmallerFits
  <2>5. QED
    BY <2>1, <2>3, <2>4, ShrinkFits, FittingIs DEF Fitting
<1>3. ASSUME NEW b \in Bundles, AdmitReserve(b) PROVE Fitting'
  BY <1>3, ReserveFits
<1>4. ASSUME NEW r \in Requests, CheckRate(r) PROVE Fitting'
  <2>1. UNCHANGED <<now, at, bstate, admission>> /\ passed' = passed \cup {r}
    BY <1>4 DEF CheckRate
  <2>2. \A s \in Limited(Scopes) : Charged(s)' \subseteq Charged(s)
    BY <1>0, <2>1, ChargedShrinks
  <2>3. ASSUME r \in Singles, Throttled(r)
        PROVE  Cardinality(Charged(ScopeOf[r])' \cup {r}) <= Limit[ScopeOf[r]]
    <3>1. ScopeOf[r] \in Limited(Scopes)
      BY <2>3, ThrottledIsLimited
    <3>2. Cardinality(Charged(ScopeOf[r]) \cup {r}) <= Limit[ScopeOf[r]]
      BY <1>4, <2>3, CheckRateFits
    <3>3. IsFiniteSet({r})
      BY FS_Singleton
    <3>4. IsFiniteSet(Charged(ScopeOf[r]) \cup {r}) /\ Limit[ScopeOf[r]] \in Nat
      BY <3>1, <3>3, Finite, UnionBound, RateAssumption DEF Limited
    <3>5. Charged(ScopeOf[r])' \cup {r} \subseteq Charged(ScopeOf[r]) \cup {r}
      BY <2>2, <3>1
    <3>6. QED
      BY <3>2, <3>4, <3>5, SmallerFits
  <2>4. QED
    BY <2>1, <2>2, <2>3, ShrinkFits, FittingIs DEF Fitting
<1>5. ASSUME NEW r \in Requests, Insert(r) PROVE Fitting'
  BY <1>5, InsertFits
<1>6. ASSUME NEW r \in Requests, InsertRefused(r) PROVE Fitting'
  BY <1>0, <1>6, <1>a DEF InsertRefused
<1>7. CASE Tick
  BY <1>0, <1>7, <1>a DEF Tick
<1>8. CASE Restart
  BY <1>0, <1>8, <1>a DEF Restart
<1>9. CASE UNCHANGED vars
  BY <1>0, <1>9, <1>a DEF vars
<1>10. QED
  BY <1>1, <1>2, <1>3, <1>4, <1>5, <1>6, <1>7, <1>8, <1>9 DEF Next

-----------------------------------------------------------------------------
(* Theorems *)

LEMMA RateInitially == Init => RateInv
<1> SUFFICES ASSUME Init PROVE RateInv
  OBVIOUS
<1>0. Cardinality(Actions) \in Nat
  BY Finite, FS_CardinalityType
<1>1. TypeOK
  BY <1>0, RateAssumption DEF Init, TypeOK, Never
<1>2. OpenIsYoung /\ UnadmittedIsNew /\ PassedIsPending /\ OnePassed /\ CheckedIsOpen
  BY RateAssumption DEF Init, OpenIsYoung, UnadmittedIsNew, PassedIsPending, OnePassed,
     CheckedIsOpen, Requests
<1>3. CheckedFits /\ PassedFits /\ AdmittedIsCovered
  BY DEF Init, CheckedFits, PassedFits, AdmittedIsCovered
<1>4. \A s \in Limited(Scopes) : Charged(s) = {}
  BY RateAssumption DEF Init, Charged, Unspent, Within, Requests
<1>5. RateRespected
  <2>1. \A s \in Limited(Scopes) : Limit[s] \in Nat
    BY RateAssumption DEF Limited
  <2>2. QED
    BY <1>4, <2>1, RespectedIs, FS_EmptySet
<1>6. QED
  BY <1>1, <1>2, <1>3, <1>5 DEF RateInv

LEMMA RateStep == BundlesFit => (RateInv /\ [Next]_vars => RateInv')
  BY TypeStep, LedgerStep, CoveredStep, FittingStep DEF RateInv, Ledger, Fitting

\* The circuit breaker holds: while no bundle outlives the window of a scope it
\* draws from, the actions that ran within a window and those that admitted
\* bundles may still run never exceed the limit (guard.rs,
\* reserve_and_persist_inner; bundle.rs, admit_bundle).
THEOREM LimitHolds == BundlesFit => (Spec => []RateRespected)
<1> SUFFICES ASSUME BundlesFit PROVE Spec => []RateRespected
  OBVIOUS
<1>1. RateInv /\ [Next]_vars => RateInv'
  BY RateStep
<1>2. RateInv => RateRespected
  BY DEF RateInv
<1>3. QED
  BY <1>1, <1>2, RateInitially, PTL DEF Spec

\* Under the same condition a bundle that was admitted is never stopped half
\* way by the limiter: its reservation covers every sibling that has not run
\* (bundle.rs, admit_bundle; executor.rs, insert_reroute).
THEOREM AdmissionCovers == BundlesFit => (Spec => []AdmittedIsCovered)
<1> SUFFICES ASSUME BundlesFit PROVE Spec => []AdmittedIsCovered
  OBVIOUS
<1>1. RateInv /\ [Next]_vars => RateInv'
  BY RateStep
<1>2. RateInv => AdmittedIsCovered
  BY DEF RateInv
<1>3. QED
  BY <1>1, <1>2, RateInitially, PTL DEF Spec
=============================================================================
