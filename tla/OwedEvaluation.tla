--------------------------- MODULE OwedEvaluation ---------------------------
(***************************************************************************)
(* What the flow wake queue promises its callers, without a queue: every   *)
(* interface carries the number of the last publication it was marked for  *)
(* and the number of the last publication a successful evaluation has      *)
(* seen.  Marks only move the first, evaluations only move the second, and *)
(* never past the first; an interface whose two numbers differ is          *)
(* eventually evaluated.                                                   *)
(***************************************************************************)
EXTENDS Naturals

CONSTANT Interfaces
VARIABLES latest,   \* interface -> publications it was marked for
          judged    \* interface -> publications an evaluation has seen

vars == <<latest, judged>>

Init == latest = [i \in Interfaces |-> 0] /\ judged = [i \in Interfaces |-> 0]

Mark(I) == /\ latest' = [i \in Interfaces |-> IF i \in I THEN latest[i] + 1 ELSE latest[i]]
           /\ UNCHANGED judged

\* One evaluation brings any set of interfaces up to date with a publication
\* made no later than its end.
Evaluate == /\ \A i \in Interfaces : judged'[i] \in judged[i] .. latest[i]
            /\ DOMAIN judged' = Interfaces
            /\ UNCHANGED latest

Next == (\E I \in SUBSET Interfaces : Mark(I)) \/ Evaluate

\* What never happens: an evaluation goes back, or passes the last mark.
Safety == Init /\ [][Next]_vars

Behind(i) == judged[i] < latest[i]

Spec == Safety /\ \A i \in Interfaces : Behind(i) ~> (judged[i] = latest[i])
=============================================================================
