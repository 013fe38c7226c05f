------------------------------ MODULE UserAdmin ------------------------------
(***************************************************************************)
(* Accounts and roles (api/users.rs).  A demotion or a deletion asks in    *)
(* its transaction whether it would take the last superadmin, under an     *)
(* advisory lock that the same connection holds.                           *)
(***************************************************************************)
EXTENDS Naturals, FiniteSets

CONSTANTS Users,       \* the accounts there may be
          Requests     \* concurrent requests

NoRequest == "nobody"

ASSUME AdminAssumption == NoRequest \notin Requests

VARIABLES role,        \* user -> "superadmin", "other" or "none" (no such account)
          request,     \* request -> [pc, user, role]
          guard        \* the request that holds users:superadmin-guard, or NoRequest

adminVars == <<role, request, guard>>

Waiting == [pc |-> "idle", user |-> NoRequest, role |-> "none"]

\* What installation leaves: one superadmin.
AdminInit == /\ \E u \in Users : role = [v \in Users |-> IF v = u THEN "superadmin" ELSE "none"]
             /\ request = [r \in Requests |-> Waiting]
             /\ guard = NoRequest

Moves(r, pc) == request' = [request EXCEPT ![r].pc = pc]

create_user(u, as) == /\ role[u] = "none" /\ role' = [role EXCEPT ![u] = as]
                      /\ UNCHANGED <<request, guard>>

\* as = "none" is a deletion; one's own account is refused before this.
Ask(r, u, as) == /\ request[r].pc = "idle" /\ role[u] # "none"
                 /\ request' = [request EXCEPT ![r] = [pc |-> "lock", user |-> u, role |-> as]]
                 /\ UNCHANGED <<role, guard>>

\* Mutant: no lock is asked for.
GuardFree_Always == TRUE

GuardFree == guard = NoRequest

TakeGuard(r) == /\ request[r].pc = "lock" /\ GuardFree
                /\ guard' = r /\ Moves(r, "check")
                /\ UNCHANGED role

\* GET_LOCK gives up after five seconds.
GuardBusy(r) == /\ request[r].pc = "lock" /\ guard # NoRequest
                /\ request' = [request EXCEPT ![r] = Waiting]
                /\ UNCHANGED <<role, guard>>

Superadmins == {u \in Users : role[u] = "superadmin"}

is_only_superadmin_on(u) == Superadmins = {u}

\* The account is gone, or is the last superadmin and would not stay one.
Check(r) ==
    LET u == request[r].user
        refused == role[u] = "none" \/ (request[r].role # "superadmin" /\ is_only_superadmin_on(u))
    IN /\ request[r].pc = "check" /\ Moves(r, IF refused THEN "release" ELSE "commit")
       /\ UNCHANGED <<role, guard>>

Commit(r) == /\ request[r].pc = "commit" /\ Moves(r, "release")
             /\ role' = [role EXCEPT ![request[r].user] = request[r].role]
             /\ UNCHANGED guard

\* The lock is released; with its connection it would be lost together with
\* the transaction, so a lost connection is this step from any other.
release_superadmin_guard(r) ==
    /\ request[r].pc \in {"check", "commit", "release"}
    /\ request' = [request EXCEPT ![r] = Waiting]
    /\ guard' = IF guard = r THEN NoRequest ELSE guard
    /\ UNCHANGED role

AdminNext ==
    \/ \E u \in Users, as \in {"superadmin", "other"} : create_user(u, as)
    \/ \E r \in Requests :
          \/ \E u \in Users, as \in {"superadmin", "other", "none"} : Ask(r, u, as)
          \/ TakeGuard(r) \/ GuardBusy(r) \/ Check(r) \/ Commit(r) \/ release_superadmin_guard(r)

AdminSpec == AdminInit /\ [][AdminNext]_adminVars

-----------------------------------------------------------------------------
\* Whatever demotions and deletions run at once, somebody still manages the
\* installation: "two concurrent requests cannot each observe another
\* superadmin and leave the installation ownerless".
SuperadminKept == Superadmins # {}
=============================================================================
