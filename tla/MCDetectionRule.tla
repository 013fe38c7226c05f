-------------------------- MODULE MCDetectionRule --------------------------
(* An alert-only sum of two SNMP members with a hysteresis band, and an     *)
(* automatic flow rule with a time window.                                  *)
EXTENDS DetectionRule

MCShapes ==
    {[flow |-> FALSE, members |-> {1, 2}, mode |-> "threshold", fire |-> 2, recover |-> 0,
      duration |-> 0, samples |-> 2, auto |-> FALSE],
     [flow |-> TRUE, members |-> {1}, mode |-> "auto", fire |-> 1, recover |-> 1,
      duration |-> 1, samples |-> 0, auto |-> TRUE]}

\* An edit lowers the threshold of the first, or makes it a time window; it
\* makes the window of the second longer.
MCConditions ==
    {[mode |-> "threshold", fire |-> 1, recover |-> 0, duration |-> 0, samples |-> 2],
     [mode |-> "auto", fire |-> 1, recover |-> 1, duration |-> 2, samples |-> 0]}
=============================================================================
