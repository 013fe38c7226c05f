---------------------------- MODULE MCRateGuard ----------------------------
(* Two routing bundles compete with each other and with a standalone request  *)
(* for a budget of two; two configuration-only bundles share a router that    *)
(* allows one action.                                                         *)
EXTENDS RateGuard, TLC

CONSTANTS a1, a2, a3, p1, q1, b1, b2, k1, k2, r1, u1, d1

Homes  == (a1 :> b1) @@ (a2 :> b1) @@ (a3 :> b2)
          @@ (p1 :> k1) @@ (q1 :> k2)

MCHomeOf  == [a \in Actions |-> Homes[a]]
MCScopeOf == [r \in Requests |-> IF r \in {p1, q1} THEN d1 ELSE Routing]
MCLimit   == [s \in Scopes |-> IF s = Routing THEN 2 ELSE 1]
MCWindow  == [s \in Scopes |-> 2]
=============================================================================
