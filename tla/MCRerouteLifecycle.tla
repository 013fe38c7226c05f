------------------------ MODULE MCRerouteLifecycle ------------------------
(* Requests on one device: two actions of an operator, o1 and o2, and two    *)
(* rival inverses of o1, i1 and i2.                                         *)
EXTENDS RerouteLifecycle, TLC

CONSTANTS o1, o2, i1, i2, d1

MCDeviceOf   == [r \in Reroutes |-> d1]
MCOriginalOf == [r \in Reroutes |-> IF r \in {o1, o2} THEN NoReroute ELSE o1]
\* Values are only compared for equality, and the two inverses are alike where
\* both are unattended.
MCSymmetry   == Permutations(Values) \cup Permutations({i1, i2})
=============================================================================
