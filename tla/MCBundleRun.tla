---------------------------- MODULE MCBundleRun ----------------------------
(* Bundle b1 adds a path on d1 and then takes one away on d2; bundle b2 wants *)
(* d2 as well.  Recovery children undo either or both.                       *)
EXTENDS BundleRun, TLC

CONSTANTS a1, a2, a3, b1, b2, d1, d2

MCHomeOf   == (a1 :> b1) @@ (a2 :> b1) @@ (a3 :> b2)
MCDeviceOf == (a1 :> d1) @@ (a2 :> d2) @@ (a3 :> d2)
MCRank     == (a1 :> 1) @@ (a2 :> 2) @@ (a3 :> 3)
MCSymmetry == Permutations(Children)
=============================================================================
