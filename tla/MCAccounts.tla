----------------------------- MODULE MCAccounts -----------------------------
(* Sign-in of an account, and the administration of accounts and roles.     *)
(* The account that signs in is not deleted, and nothing else is shared:    *)
(* each part is explored with the other one at rest.                        *)
EXTENDS LoginSession, UserAdmin, TLC

Init == LoginInit /\ AdminInit

Next == \/ LoginNext /\ UNCHANGED adminVars
           /\ guard = NoRequest /\ \A r \in Requests : request[r] = Waiting
           /\ Cardinality({u \in Users : role[u] # "none"}) = 1
        \/ AdminNext /\ sessions = <<>> /\ user = NewAccount /\ handler = [c \in Clients |-> Resting]
           /\ UNCHANGED loginVars

Symmetry == Permutations(Clients) \cup Permutations(Users) \cup Permutations(Requests)

Spec == Init /\ [][Next]_<<loginVars, adminVars>>
=============================================================================
