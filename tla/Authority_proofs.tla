-------------------------- MODULE Authority_proofs --------------------------
(***************************************************************************)
(* Proofs about the authority to act: sign-in (LoginSession) and the        *)
(* administration of roles (UserAdmin) for any number of clients, requests, *)
(* accounts and resets, and the life of one router write with its gates and *)
(* slots (RerouteLifecycle) for any number of reroutes, devices and values. *)
(***************************************************************************)
EXTENDS RerouteLifecycle, LoginSession, UserAdmin, FiniteSetTheorems, TLAPS

-----------------------------------------------------------------------------
(* The last superadmin *)

Roles == {"superadmin", "other", "none"}
AdminPCs == {"idle", "lock", "check", "commit", "release"}

AdminType ==
    /\ role \in [Users -> Roles]
    /\ request \in [Requests -> [pc : AdminPCs, user : Users \cup {NoRequest}, role : Roles]]
    /\ \A r \in Requests : request[r].pc # "idle" => request[r].user \in Users
    /\ guard \in Requests \cup {NoRequest}

\* The request between its check and its commit is the one that holds the lock.
GuardIsHeld ==
    \A r \in Requests : request[r].pc \in {"check", "commit", "release"} => guard = r

\* What the check found still holds when the commit follows it.
CheckedStays ==
    \A r \in Requests :
        request[r].pc = "commit" =>
            request[r].role = "superadmin" \/ \E u \in Superadmins : u # request[r].user

AdminInv == AdminType /\ GuardIsHeld /\ CheckedStays /\ SuperadminKept

LEMMA AdminInitially == AdminInit => AdminInv
<1> SUFFICES ASSUME AdminInit PROVE AdminInv
  OBVIOUS
<1>1. PICK u \in Users : role = [v \in Users |-> IF v = u THEN "superadmin" ELSE "none"]
  BY DEF AdminInit
<1>2. u \in Superadmins
  BY <1>1 DEF Superadmins
<1>3. AdminType /\ GuardIsHeld /\ CheckedStays
  BY <1>1 DEF AdminInit, AdminType, GuardIsHeld, CheckedStays, Waiting, Roles, AdminPCs
<1>4. QED
  BY <1>2, <1>3 DEF AdminInv, SuperadminKept

LEMMA AdminStep == AdminInv /\ [AdminNext]_adminVars => AdminInv'
<1> SUFFICES ASSUME AdminInv, [AdminNext]_adminVars PROVE AdminInv'
  OBVIOUS
<1> USE AdminAssumption DEF AdminInv, AdminType, GuardIsHeld, CheckedStays, SuperadminKept,
        Superadmins, Roles, AdminPCs, Waiting, Moves
<1>1. ASSUME NEW u \in Users, NEW as \in {"superadmin", "other"}, create_user(u, as)
      PROVE AdminInv'
  BY <1>1 DEF create_user
<1>2. ASSUME NEW r \in Requests, NEW u \in Users, NEW as \in Roles, Ask(r, u, as)
      PROVE AdminInv'
  BY <1>2 DEF Ask
<1>3. ASSUME NEW r \in Requests, TakeGuard(r) PROVE AdminInv'
  BY <1>3 DEF TakeGuard, GuardFree
<1>4. ASSUME NEW r \in Requests, GuardBusy(r) PROVE AdminInv'
  BY <1>4 DEF GuardBusy
<1>5. ASSUME NEW r \in Requests, Check(r) PROVE AdminInv'
  BY <1>5 DEF Check, is_only_superadmin_on
<1>6. ASSUME NEW r \in Requests, Commit(r) PROVE AdminInv'
  BY <1>6 DEF Commit
<1>7. ASSUME NEW r \in Requests, release_superadmin_guard(r) PROVE AdminInv'
  BY <1>7 DEF release_superadmin_guard
<1>8. CASE UNCHANGED adminVars
  BY <1>8 DEF adminVars
<1>9. QED
  BY <1>1, <1>2, <1>3, <1>4, <1>5, <1>6, <1>7, <1>8 DEF AdminNext

\* Somebody still manages the installation, however many demotions and
\* deletions run at once (api/users.rs, is_only_superadmin_on under
\* users:superadmin-guard).
THEOREM OwnerKept == AdminSpec => []SuperadminKept
<1>1. AdminInv => SuperadminKept
  BY DEF AdminInv
<1>2. QED
  BY <1>1, AdminInitially, AdminStep, PTL DEF AdminSpec

-----------------------------------------------------------------------------
(* Sign-in *)

RecoveryCodes == {"recovery"} \X Nat \X Nat
Codes == {"step", "recovery"} \X Nat \X Nat
SessionRows == [live : BOOLEAN, verified : BOOLEAN, token : Clients \cup {"browser"}, gen : Nat]

UserType == user \in [secret : Nat, made : Nat, confirmed : BOOLEAN, last : Nat,
                      codes : SUBSET RecoveryCodes, failed : Nat, locked : BOOLEAN]
LoginPCs == {"idle", "failed", "expire", "create", "enroll", "account", "code", "rotate", "persist"}
HandlerType == handler \in [Clients -> [pc : LoginPCs, sid : Nat, secret : Nat, confirmed : BOOLEAN]]
SessionType == sessions \in Seq(SessionRows)
GrantType == /\ DOMAIN grants \subseteq [code : Codes, gen : Nat]
             /\ IsFiniteSet(DOMAIN grants)

\* A live session was opened since the last reset.
LiveIsCurrent == \A s \in DOMAIN sessions : sessions[s].live => sessions[s].gen = gen

\* No grant is ahead of the resets, and since the last one no accepted step is
\* ahead of the step stored in the account.
StepsBehind ==
    \A g \in DOMAIN grants :
        g.gen <= gen /\ (g.gen = gen /\ g.code[1] = "step" => g.code[3] <= user.last)

\* Recovery codes are numbered by the grants before them, so that the next
\* one issued is new; those in the account have not been accepted.
CodesUnspent ==
    /\ \A g \in DOMAIN grants : g.code[1] = "recovery" => g.code[3] < Cardinality(DOMAIN grants)
    /\ \A code \in user.codes : /\ code[3] <= Cardinality(DOMAIN grants)
                                /\ [code |-> code, gen |-> gen] \notin DOMAIN grants

AcceptedOnce == \A g \in DOMAIN grants : grants[g] = 1

LoginInv ==
    /\ gen \in Nat /\ UserType /\ HandlerType /\ SessionType /\ GrantType
    /\ LiveIsCurrent /\ StepsBehind /\ CodesUnspent /\ AcceptedOnce

LEMMA MovesTyped ==
    ASSUME HandlerType, NEW c \in Clients
    PROVE  /\ \A next \in LoginPCs : Goes(c, next) => HandlerType'
           /\ Answers(c) => HandlerType'
           /\ Fails(c) => HandlerType'
<1> USE DEF HandlerType, Resting, LoginPCs
<1>1. ASSUME NEW next \in LoginPCs, Goes(c, next) PROVE HandlerType'
  BY <1>1 DEF Goes
<1>2. Answers(c) => HandlerType'
  BY DEF Answers
<1>3. Fails(c) => HandlerType'
  <2>1. [Resting EXCEPT !.pc = "failed"] \in [pc : LoginPCs, sid : Nat, secret : Nat, confirmed : BOOLEAN]
    OBVIOUS
  <2>2. QED
    BY <2>1 DEF Fails
<1>4. QED
  BY <1>1, <1>2, <1>3

LEMMA HandlerStep == UserType /\ HandlerType /\ SessionType /\ [LoginNext]_loginVars => HandlerType'
<1> SUFFICES ASSUME UserType, HandlerType, SessionType, [LoginNext]_loginVars PROVE HandlerType'
  OBVIOUS
<1>0. user.secret \in Nat /\ user.confirmed \in BOOLEAN /\ DOMAIN sessions \subseteq Nat
  BY DEF UserType, SessionType
<1> USE <1>0 DEF HandlerType, Resting, LoginPCs
<1>1. ASSUME NEW c \in Clients, CheckPassword(c) PROVE HandlerType'
  <2>1. CASE Fails(c)
    BY <2>1, MovesTyped
  <2>2. CASE handler' = [handler EXCEPT ![c] = [pc |-> "expire", sid |-> 0, secret |-> user.secret,
                                                confirmed |-> user.confirmed]]
    BY <2>2
  <2>3. QED
    BY <1>1, <2>1, <2>2 DEF CheckPassword
<1>2. ASSUME NEW c \in Clients, expire_unverified_for_user(c) PROVE HandlerType'
  BY <1>2 DEF expire_unverified_for_user, Goes
<1>3. ASSUME NEW c \in Clients, create(c) PROVE HandlerType'
  BY <1>3, MovesTyped DEF create
<1>4. ASSUME NEW c \in Clients, enroll(c) PROVE HandlerType'
  BY <1>4, MovesTyped DEF enroll
<1>5. ASSUME NEW c \in Clients, bump_failure_and_maybe_lock(c) PROVE HandlerType'
  BY <1>5, MovesTyped DEF bump_failure_and_maybe_lock
<1>6. ASSUME NEW c \in Clients, LoadAccount(c) PROVE HandlerType'
  <2>1. CASE Answers(c)
    BY <2>1, MovesTyped
  <2>2. CASE handler' = [handler EXCEPT ![c].pc = "code", ![c].secret = user.secret,
                                        ![c].confirmed = user.confirmed]
    <3>1. handler[c] \in [pc : LoginPCs, sid : Nat, secret : Nat, confirmed : BOOLEAN]
      OBVIOUS
    <3>2. [handler[c] EXCEPT !.pc = "code", !.secret = user.secret, !.confirmed = user.confirmed]
            \in [pc : LoginPCs, sid : Nat, secret : Nat, confirmed : BOOLEAN]
      BY <3>1
    <3>3. handler' = [handler EXCEPT ![c] =
              [handler[c] EXCEPT !.pc = "code", !.secret = user.secret, !.confirmed = user.confirmed]]
      BY <2>2
    <3>4. QED
      BY <3>2, <3>3
  <2>3. QED
    BY <1>6, <2>1, <2>2 DEF LoadAccount
<1>7. ASSUME NEW c \in Clients, WrongCode(c) PROVE HandlerType'
  BY <1>7, MovesTyped DEF WrongCode
<1>8. ASSUME NEW c \in Clients, mark_totp_verified_and_rotate(c) PROVE HandlerType'
  BY <1>8 DEF mark_totp_verified_and_rotate, Goes
<1>9. ASSUME NEW c \in Clients, Persist(c) PROVE HandlerType'
  BY <1>9, MovesTyped DEF Persist
<1>10. ASSUME NEW c \in Clients, PersistFails(c) PROVE HandlerType'
  BY <1>10, MovesTyped DEF PersistFails
<1>11. ASSUME NEW c \in Clients, StatementFails(c) PROVE HandlerType'
  BY <1>11, MovesTyped DEF StatementFails
<1>12. ASSUME NEW c \in Clients, NEW s \in DOMAIN sessions, validate_pre2fa(c, s) PROVE HandlerType'
  BY <1>12 DEF validate_pre2fa
<1>13. ASSUME NEW c \in Clients, NEW step \in Steps, consume_totp_step(c, step) PROVE HandlerType'
  BY <1>13 DEF consume_totp_step, Accepted
<1>14. ASSUME NEW c \in Clients, NEW code \in user.codes, consume_recovery_code(c, code) PROVE HandlerType'
  BY <1>14 DEF consume_recovery_code, Accepted
<1>15. ASSUME NEW s \in DOMAIN sessions, logout(s) PROVE HandlerType'
  BY <1>15 DEF logout
<1>16. ASSUME NEW s \in DOMAIN sessions, NEW step \in Steps, verify_step_up(s, step) PROVE HandlerType'
  BY <1>16 DEF verify_step_up
<1>17. ASSUME LockExpires PROVE HandlerType'
  BY <1>17 DEF LockExpires
<1>18. ASSUME reset_2fa PROVE HandlerType'
  BY <1>18 DEF reset_2fa
<1>19. CASE UNCHANGED loginVars
  BY <1>19 DEF loginVars
<1>20. QED
  BY <1>1, <1>2, <1>3, <1>4, <1>5, <1>6, <1>7, <1>8, <1>9, <1>10, <1>11, <1>12, <1>13, <1>14, <1>15, <1>16, <1>17, <1>18, <1>19 DEF LoginNext

LEMMA SameShape ==
    ASSUME NEW S, NEW q \in Seq(S), NEW f \in [DOMAIN q -> S] PROVE f \in Seq(S)
<1>1. DOMAIN q = 1..Len(q) /\ Len(q) \in Nat
  OBVIOUS
<1>2. QED
  BY <1>1

LEMMA SessionStep == SessionType /\ gen \in Nat /\ [LoginNext]_loginVars => SessionType'
<1> SUFFICES ASSUME SessionType, gen \in Nat, [LoginNext]_loginVars PROVE SessionType'
  OBVIOUS
<1>0. sessions \in [DOMAIN sessions -> SessionRows]
  BY DEF SessionType
<1>00. SUFFICES sessions' \in [DOMAIN sessions -> SessionRows] \/ sessions' \in Seq(SessionRows)
  BY SameShape DEF SessionType
<1> USE <1>0 DEF SessionRows
<1>1. ASSUME NEW c \in Clients, CheckPassword(c) PROVE sessions' \in [DOMAIN sessions -> SessionRows]
  BY <1>1 DEF CheckPassword
<1>2. ASSUME NEW c \in Clients, expire_unverified_for_user(c) PROVE sessions' \in [DOMAIN sessions -> SessionRows]
  BY <1>2 DEF expire_unverified_for_user
<1>3. ASSUME NEW c \in Clients, create(c) PROVE sessions' \in Seq(SessionRows)
  BY <1>3 DEF create, SessionType
<1>4. ASSUME NEW c \in Clients, enroll(c) PROVE sessions' \in [DOMAIN sessions -> SessionRows]
  BY <1>4 DEF enroll
<1>5. ASSUME NEW c \in Clients, bump_failure_and_maybe_lock(c) PROVE sessions' \in [DOMAIN sessions -> SessionRows]
  BY <1>5 DEF bump_failure_and_maybe_lock
<1>6. ASSUME NEW c \in Clients, LoadAccount(c) PROVE sessions' \in [DOMAIN sessions -> SessionRows]
  BY <1>6 DEF LoadAccount
<1>7. ASSUME NEW c \in Clients, WrongCode(c) PROVE sessions' \in [DOMAIN sessions -> SessionRows]
  BY <1>7 DEF WrongCode
<1>8. ASSUME NEW c \in Clients, mark_totp_verified_and_rotate(c) PROVE sessions' \in [DOMAIN sessions -> SessionRows]
  BY <1>8 DEF mark_totp_verified_and_rotate
<1>9. ASSUME NEW c \in Clients, Persist(c) PROVE sessions' \in [DOMAIN sessions -> SessionRows]
  BY <1>9 DEF Persist
<1>10. ASSUME NEW c \in Clients, PersistFails(c) PROVE sessions' \in [DOMAIN sessions -> SessionRows]
  <2>1. PICK stored \in BOOLEAN, revoked \in BOOLEAN :
           /\ user' = IF stored THEN SignedIn(c) ELSE user
           /\ sessions' = [sessions EXCEPT ![handler[c].sid].live = @ /\ ~revoked]
    BY <1>10, Zenon DEF PersistFails
  <2>2. QED
    BY <2>1
<1>11. ASSUME NEW c \in Clients, StatementFails(c) PROVE sessions' \in [DOMAIN sessions -> SessionRows]
  BY <1>11 DEF StatementFails
<1>12. ASSUME NEW c \in Clients, NEW s \in DOMAIN sessions, validate_pre2fa(c, s) PROVE sessions' \in [DOMAIN sessions -> SessionRows]
  BY <1>12 DEF validate_pre2fa
<1>13. ASSUME NEW c \in Clients, NEW step \in Steps, consume_totp_step(c, step) PROVE sessions' \in [DOMAIN sessions -> SessionRows]
  BY <1>13 DEF consume_totp_step
<1>14. ASSUME NEW c \in Clients, NEW code \in user.codes, consume_recovery_code(c, code) PROVE sessions' \in [DOMAIN sessions -> SessionRows]
  BY <1>14 DEF consume_recovery_code
<1>15. ASSUME NEW s \in DOMAIN sessions, logout(s) PROVE sessions' \in [DOMAIN sessions -> SessionRows]
  BY <1>15 DEF logout
<1>16. ASSUME NEW s \in DOMAIN sessions, NEW step \in Steps, verify_step_up(s, step) PROVE sessions' \in [DOMAIN sessions -> SessionRows]
  BY <1>16 DEF verify_step_up
<1>17. ASSUME LockExpires PROVE sessions' \in [DOMAIN sessions -> SessionRows]
  BY <1>17 DEF LockExpires
<1>18. ASSUME reset_2fa PROVE sessions' \in [DOMAIN sessions -> SessionRows]
  BY <1>18 DEF reset_2fa
<1>19. CASE UNCHANGED loginVars
  BY <1>19 DEF loginVars
<1>20. QED
  BY <1>1, <1>2, <1>3, <1>4, <1>5, <1>6, <1>7, <1>8, <1>9, <1>10, <1>11, <1>12, <1>13, <1>14, <1>15, <1>16, <1>17, <1>18, <1>19 DEF LoginNext

LEMMA SignedInIs ==
    ASSUME UserType, HandlerType, gen \in Nat, GrantType, NEW c \in Clients
    PROVE  LET u == SignedIn(c)
               fresh == <<"recovery", gen, Cardinality(DOMAIN grants)>>
           IN /\ u \in [secret : Nat, made : Nat, confirmed : BOOLEAN, last : Nat,
                        codes : SUBSET RecoveryCodes, failed : Nat, locked : BOOLEAN]
              /\ u.last = user.last
              /\ u.codes = user.codes \/ u.codes = {fresh}
<1>1. Cardinality(DOMAIN grants) \in Nat
  BY FS_CardinalityType DEF GrantType
<1> HIDE DEF GrantType
<1>2. CASE handler[c].confirmed
  BY <1>2 DEF SignedIn, UserType, RecoveryCodes
<1>3. CASE ~handler[c].confirmed
  <2> DEFINE fresh == <<"recovery", gen, Cardinality(DOMAIN grants)>>
  <2>1. {fresh} \in SUBSET RecoveryCodes
    BY <1>1 DEF RecoveryCodes
  <2> DEFINE open == [user EXCEPT !.failed = 0, !.locked = FALSE]
  <2>2. SignedIn(c) = [open EXCEPT !.confirmed = TRUE, !.codes = {fresh}]
    BY <1>3 DEF SignedIn
  <2>5. /\ open \in [secret : Nat, made : Nat, confirmed : BOOLEAN, last : Nat,
                    codes : SUBSET RecoveryCodes, failed : Nat, locked : BOOLEAN]
        /\ open.last = user.last
    BY DEF UserType
  <2> HIDE DEF fresh, open
  <2>3. /\ SignedIn(c) \in [secret : Nat, made : Nat, confirmed : BOOLEAN, last : Nat,
                            codes : SUBSET RecoveryCodes, failed : Nat, locked : BOOLEAN]
        /\ SignedIn(c).last = user.last /\ SignedIn(c).codes = {fresh}
    BY <2>1, <2>2, <2>5
  <2>4. QED
    BY <2>3 DEF fresh
<1>4. QED
  BY <1>2, <1>3

LEMMA UserStep ==
    /\ UserType /\ HandlerType /\ GrantType /\ gen \in Nat
    /\ [LoginNext]_loginVars
    => UserType'
<1> SUFFICES ASSUME UserType, HandlerType, GrantType, gen \in Nat, [LoginNext]_loginVars
             PROVE  UserType'
  OBVIOUS
<1> USE LoginAssumption DEF UserType
<1>1. ASSUME NEW c \in Clients, CheckPassword(c) PROVE UserType'
  BY <1>1 DEF CheckPassword
<1>2. ASSUME NEW c \in Clients, expire_unverified_for_user(c) PROVE UserType'
  BY <1>2 DEF expire_unverified_for_user
<1>3. ASSUME NEW c \in Clients, create(c) PROVE UserType'
  BY <1>3 DEF create
<1>4. ASSUME NEW c \in Clients, enroll(c) PROVE UserType'
  <2>1. CASE handler[c].secret # 0
    BY <1>4, <2>1 DEF enroll
  <2>2. CASE handler[c].secret = 0
    <3>1. user' = [user EXCEPT !.secret = user.made + 1, !.made = user.made + 1]
      BY <1>4, <2>2 DEF enroll
    <3> DEFINE n == user.made + 1
    <3>2. n \in Nat /\ user' = [user EXCEPT !.secret = n, !.made = n]
      BY <3>1
    <3> HIDE DEF n
    <3>3. QED
      BY <3>2
  <2>3. QED
    BY <2>1, <2>2
<1>5. ASSUME NEW c \in Clients, bump_failure_and_maybe_lock(c) PROVE UserType'
  <2> DEFINE next == IF user.failed < Threshold THEN user.failed + 1 ELSE user.failed
             over == next >= Threshold
  <2>1. next \in Nat /\ over \in BOOLEAN
    OBVIOUS
  <2>2. user' = [user EXCEPT !.failed = next, !.locked = over]
    BY <1>5 DEF bump_failure_and_maybe_lock
  <2> HIDE DEF next, over
  <2>3. QED
    BY <2>1, <2>2
<1>6. ASSUME NEW c \in Clients, LoadAccount(c) PROVE UserType'
  BY <1>6 DEF LoadAccount
<1>7. ASSUME NEW c \in Clients, WrongCode(c) PROVE UserType'
  BY <1>7 DEF WrongCode
<1>8. ASSUME NEW c \in Clients, mark_totp_verified_and_rotate(c) PROVE UserType'
  BY <1>8 DEF mark_totp_verified_and_rotate
<1>9. ASSUME NEW c \in Clients, Persist(c) PROVE UserType'
  BY <1>9, SignedInIs DEF Persist
<1>10. ASSUME NEW c \in Clients, PersistFails(c) PROVE UserType'
  BY <1>10, SignedInIs DEF PersistFails
<1>11. ASSUME NEW c \in Clients, StatementFails(c) PROVE UserType'
  BY <1>11 DEF StatementFails
<1>12. ASSUME NEW c \in Clients, NEW s \in DOMAIN sessions, validate_pre2fa(c, s) PROVE UserType'
  BY <1>12 DEF validate_pre2fa
<1>13. ASSUME NEW c \in Clients, NEW step \in Steps, consume_totp_step(c, step) PROVE UserType'
  BY <1>13 DEF consume_totp_step
<1>14. ASSUME NEW c \in Clients, NEW code \in user.codes, consume_recovery_code(c, code) PROVE UserType'
  BY <1>14 DEF consume_recovery_code
<1>15. ASSUME NEW s \in DOMAIN sessions, logout(s) PROVE UserType'
  BY <1>15 DEF logout
<1>16. ASSUME NEW s \in DOMAIN sessions, NEW step \in Steps, verify_step_up(s, step) PROVE UserType'
  BY <1>16 DEF verify_step_up
<1>17. ASSUME LockExpires PROVE UserType'
  BY <1>17 DEF LockExpires
<1>18. ASSUME reset_2fa PROVE UserType'
  BY <1>18 DEF reset_2fa
<1>19. CASE UNCHANGED loginVars
  BY <1>19 DEF loginVars
<1>20. QED
  BY <1>1, <1>2, <1>3, <1>4, <1>5, <1>6, <1>7, <1>8, <1>9, <1>10, <1>11, <1>12, <1>13, <1>14, <1>15, <1>16, <1>17, <1>18, <1>19 DEF LoginNext

\* Rotation, expiry and logout revive no session; a reset ends them all.
LEMMA LiveStep == SessionType /\ LiveIsCurrent /\ [LoginNext]_loginVars => LiveIsCurrent'
<1> SUFFICES ASSUME SessionType, LiveIsCurrent, [LoginNext]_loginVars PROVE LiveIsCurrent'
  OBVIOUS
<1>0. \A s \in DOMAIN sessions : sessions[s] \in SessionRows
  BY DEF SessionType
<1> USE DEF SessionType, LiveIsCurrent, SessionRows
<1>1. ASSUME NEW c \in Clients, CheckPassword(c) PROVE LiveIsCurrent'
  BY <1>1 DEF CheckPassword
<1>2. ASSUME NEW c \in Clients, expire_unverified_for_user(c) PROVE LiveIsCurrent'
  <2>1. \A s \in DOMAIN sessions : /\ sessions'[s].live => sessions[s].live
                                  /\ sessions'[s].gen = sessions[s].gen
    <3> TAKE s \in DOMAIN sessions
    <3>1. sessions[s] \in SessionRows
      BY <1>0
    <3>2. sessions'[s] = [sessions[s] EXCEPT !.live = sessions[s].live /\ sessions[s].verified]
      BY <1>2 DEF expire_unverified_for_user
    <3>3. QED
      BY <3>1, <3>2
  <2>2. DOMAIN sessions' = DOMAIN sessions /\ gen' = gen
    BY <1>2 DEF expire_unverified_for_user
  <2>3. QED
    BY <2>1, <2>2
<1>3. ASSUME NEW c \in Clients, create(c) PROVE LiveIsCurrent'
  BY <1>3 DEF create
<1>4. ASSUME NEW c \in Clients, enroll(c) PROVE LiveIsCurrent'
  BY <1>4 DEF enroll
<1>5. ASSUME NEW c \in Clients, bump_failure_and_maybe_lock(c) PROVE LiveIsCurrent'
  BY <1>5 DEF bump_failure_and_maybe_lock
<1>6. ASSUME NEW c \in Clients, LoadAccount(c) PROVE LiveIsCurrent'
  BY <1>6 DEF LoadAccount
<1>7. ASSUME NEW c \in Clients, WrongCode(c) PROVE LiveIsCurrent'
  BY <1>7 DEF WrongCode
<1>8. ASSUME NEW c \in Clients, mark_totp_verified_and_rotate(c) PROVE LiveIsCurrent'
  BY <1>8 DEF mark_totp_verified_and_rotate
<1>9. ASSUME NEW c \in Clients, Persist(c) PROVE LiveIsCurrent'
  BY <1>9 DEF Persist
<1>10. ASSUME NEW c \in Clients, PersistFails(c) PROVE LiveIsCurrent'
  <2>1. PICK stored \in BOOLEAN, revoked \in BOOLEAN :
           /\ user' = IF stored THEN SignedIn(c) ELSE user
           /\ sessions' = [sessions EXCEPT ![handler[c].sid].live = @ /\ ~revoked]
    BY <1>10, Zenon DEF PersistFails
  <2>2. gen' = gen /\ DOMAIN sessions' = DOMAIN sessions
    BY <1>10, <2>1 DEF PersistFails
  <2>3. \A s \in DOMAIN sessions : /\ sessions'[s].live => sessions[s].live
                                  /\ sessions'[s].gen = sessions[s].gen
    <3> TAKE s \in DOMAIN sessions
    <3>1. sessions[s] \in SessionRows
      BY <1>0
    <3>2. \/ sessions'[s] = [sessions[s] EXCEPT !.live = sessions[s].live /\ ~revoked]
          \/ sessions'[s] = sessions[s]
      BY <2>1
    <3>3. QED
      BY <3>1, <3>2
  <2>4. QED
    BY <2>2, <2>3
<1>11. ASSUME NEW c \in Clients, StatementFails(c) PROVE LiveIsCurrent'
  BY <1>11 DEF StatementFails
<1>12. ASSUME NEW c \in Clients, NEW s \in DOMAIN sessions, validate_pre2fa(c, s) PROVE LiveIsCurrent'
  BY <1>12 DEF validate_pre2fa
<1>13. ASSUME NEW c \in Clients, NEW step \in Steps, consume_totp_step(c, step) PROVE LiveIsCurrent'
  BY <1>13 DEF consume_totp_step
<1>14. ASSUME NEW c \in Clients, NEW code \in user.codes, consume_recovery_code(c, code) PROVE LiveIsCurrent'
  BY <1>14 DEF consume_recovery_code
<1>15. ASSUME NEW s \in DOMAIN sessions, logout(s) PROVE LiveIsCurrent'
  BY <1>15 DEF logout
<1>16. ASSUME NEW s \in DOMAIN sessions, NEW step \in Steps, verify_step_up(s, step) PROVE LiveIsCurrent'
  BY <1>16 DEF verify_step_up
<1>17. ASSUME LockExpires PROVE LiveIsCurrent'
  BY <1>17 DEF LockExpires
<1>18. ASSUME reset_2fa PROVE LiveIsCurrent'
  <2>1. \A s \in DOMAIN sessions : ~sessions'[s].live
    <3> TAKE s \in DOMAIN sessions
    <3>1. sessions[s] \in SessionRows
      BY <1>0
    <3>2. sessions'[s] = [sessions[s] EXCEPT !.live = FALSE]
      BY <1>18 DEF reset_2fa
    <3>3. QED
      BY <3>1, <3>2
  <2>2. DOMAIN sessions' = DOMAIN sessions
    BY <1>18 DEF reset_2fa
  <2>3. QED
    BY <2>1, <2>2
<1>19. CASE UNCHANGED loginVars
  BY <1>19 DEF loginVars
<1>20. QED
  BY <1>1, <1>2, <1>3, <1>4, <1>5, <1>6, <1>7, <1>8, <1>9, <1>10, <1>11, <1>12, <1>13, <1>14, <1>15, <1>16, <1>17, <1>18, <1>19 DEF LoginNext

\* A code that was not granted before is granted once.
LEMMA GrantNew ==
    ASSUME GrantType, AcceptedOnce, gen \in Nat, NEW code \in Codes, Granted(code),
           [code |-> code, gen |-> gen] \notin DOMAIN grants
    PROVE  /\ GrantType' /\ AcceptedOnce'
           /\ DOMAIN grants' = DOMAIN grants \cup {[code |-> code, gen |-> gen]}
           /\ Cardinality(DOMAIN grants') = Cardinality(DOMAIN grants) + 1
           /\ Cardinality(DOMAIN grants) \in Nat
<1> DEFINE g == [code |-> code, gen |-> gen]
<1>1. g \in [code : Codes, gen : Nat]
  OBVIOUS
<1>2. g \notin DOMAIN grants
  OBVIOUS
<1>3. grants' = [x \in DOMAIN grants \cup {g} |-> IF x = g THEN 1 ELSE grants[x]]
  BY <1>2 DEF Granted
<1> HIDE DEF g
<1>4. DOMAIN grants' = DOMAIN grants \cup {g}
  BY <1>3
<1>5. IsFiniteSet(DOMAIN grants')
      /\ Cardinality(DOMAIN grants') = Cardinality(DOMAIN grants) + 1
  BY <1>2, <1>4, FS_AddElement DEF GrantType
<1>6. AcceptedOnce'
  BY <1>3 DEF AcceptedOnce
<1>7. Cardinality(DOMAIN grants) \in Nat
  BY FS_CardinalityType DEF GrantType
<1>8. QED
  BY <1>1, <1>4, <1>5, <1>6, <1>7 DEF GrantType, g

GrantInv == GrantType /\ AcceptedOnce /\ StepsBehind /\ CodesUnspent

\* A step that grants nothing and issues nothing.
LEMMA GrantFrame ==
    ASSUME GrantInv, gen' = gen, grants' = grants,
           user'.last = user.last, user'.codes = user.codes
    PROVE  GrantInv'
  BY DEF GrantInv, GrantType, AcceptedOnce, StepsBehind, CodesUnspent

\* A time step is accepted only above the last one, which remembers it.
LEMMA GrantStep ==
    ASSUME GrantInv, UserType, gen \in Nat, NEW secret \in Nat, NEW step \in Steps, Fresh(step),
           user' = [user EXCEPT !.last = step], gen' = gen, Granted(<<"step", secret, step>>)
    PROVE  GrantInv'
<1> DEFINE code == <<"step", secret, step>>
           g == [code |-> code, gen |-> gen]
<1>1. step \in Nat /\ user.last \in Nat /\ step > user.last
  BY LoginAssumption DEF UserType, Fresh
<1>2. code \in Codes /\ code[1] = "step" /\ code[3] = step
  BY <1>1 DEF Codes
<1>3. g.code = code /\ g.gen = gen
  OBVIOUS
<1>4. g \notin DOMAIN grants
  BY <1>1, <1>2, <1>3 DEF GrantInv, StepsBehind
<1>5. Granted(code)
  OBVIOUS
<1> HIDE DEF code
<1>6. /\ GrantType' /\ AcceptedOnce' /\ DOMAIN grants' = DOMAIN grants \cup {g}
      /\ Cardinality(DOMAIN grants') = Cardinality(DOMAIN grants) + 1
      /\ Cardinality(DOMAIN grants) \in Nat
  BY <1>2, <1>4, <1>5, GrantNew DEF GrantInv
<1>7. user'.last = step /\ user'.codes = user.codes
  BY DEF UserType
<1>8. \A x \in DOMAIN grants : x.code \in Codes /\ x.gen \in Nat
  BY DEF GrantInv, GrantType
<1>13. \A x \in Codes : x[3] \in Nat
  BY DEF Codes
<1>14. \A x \in user.codes : x[1] = "recovery" /\ x[3] \in Nat
  BY DEF UserType, RecoveryCodes
<1> HIDE DEF g
<1>10. StepsBehind'
  <2> SUFFICES ASSUME NEW x \in DOMAIN grants \cup {g}
               PROVE  x.gen <= gen /\ (x.gen = gen /\ x.code[1] = "step" => x.code[3] <= step)
    BY <1>6, <1>7 DEF StepsBehind
  <2>1. CASE x = g
    BY <2>1, <1>1, <1>2, <1>3
  <2>2. CASE x \in DOMAIN grants
    BY <2>2, <1>1, <1>8, <1>13 DEF GrantInv, StepsBehind
  <2>3. QED
    BY <2>1, <2>2
<1>11. CodesUnspent'
  <2>1. \A x \in DOMAIN grants' : x.code[1] = "recovery" => x.code[3] < Cardinality(DOMAIN grants')
    BY <1>2, <1>3, <1>6, <1>8, <1>13 DEF GrantInv, CodesUnspent
  <2>2. ASSUME NEW x \in user.codes
        PROVE  /\ x[3] <= Cardinality(DOMAIN grants')
               /\ [code |-> x, gen |-> gen] \notin DOMAIN grants'
    <3>1. x # code
      BY <1>2, <1>14
    <3>2. [code |-> x, gen |-> gen] # g
      BY <3>1 DEF g
    <3>3. QED
      BY <1>6, <1>14, <3>2 DEF GrantInv, CodesUnspent
  <2>3. QED
    BY <1>7, <2>1, <2>2 DEF CodesUnspent
<1>12. QED
  BY <1>6, <1>10, <1>11 DEF GrantInv

\* A recovery code leaves the account as it is accepted.
LEMMA GrantRecovery ==
    ASSUME GrantInv, UserType, gen \in Nat, NEW code \in user.codes,
           user' = [user EXCEPT !.codes = @ \ {code}], gen' = gen, Granted(code)
    PROVE  GrantInv'
<1> DEFINE g == [code |-> code, gen |-> gen]
<1>1. code \in Codes /\ code[1] = "recovery" /\ code[3] \in Nat
  BY DEF Codes, UserType, RecoveryCodes
<1>2. g \notin DOMAIN grants /\ code[3] <= Cardinality(DOMAIN grants)
  BY DEF GrantInv, CodesUnspent
<1>3. g.code = code /\ g.gen = gen
  OBVIOUS
<1>4. /\ GrantType' /\ AcceptedOnce' /\ DOMAIN grants' = DOMAIN grants \cup {g}
      /\ Cardinality(DOMAIN grants') = Cardinality(DOMAIN grants) + 1
      /\ Cardinality(DOMAIN grants) \in Nat
  BY <1>1, <1>2, GrantNew DEF GrantInv
<1>5. user'.last = user.last /\ user'.codes = user.codes \ {code}
  BY DEF UserType
<1>6. \A x \in DOMAIN grants : x.code[3] \in Nat /\ x.gen \in Nat
  BY DEF GrantInv, GrantType, Codes
<1>7. \A x \in user.codes : x[3] \in Nat /\ ([code |-> x, gen |-> gen] = g => x = code)
  BY DEF UserType, RecoveryCodes
<1> HIDE DEF g
<1>8. StepsBehind'
  BY <1>1, <1>3, <1>4, <1>5 DEF GrantInv, StepsBehind
<1>9. \A x \in DOMAIN grants' : x.code[1] = "recovery" => x.code[3] < Cardinality(DOMAIN grants')
  BY <1>1, <1>2, <1>3, <1>4, <1>6 DEF GrantInv, CodesUnspent
<1>10. \A x \in user.codes \ {code} : /\ x[3] <= Cardinality(DOMAIN grants')
                                     /\ [code |-> x, gen |-> gen] \notin DOMAIN grants'
  BY <1>4, <1>7 DEF GrantInv, CodesUnspent
<1>11. QED
  BY <1>4, <1>5, <1>8, <1>9, <1>10 DEF GrantInv, CodesUnspent

\* The code that a confirmation issues has a number that no accepted one has.
LEMMA GrantIssue ==
    ASSUME GrantInv, UserType, HandlerType, gen \in Nat, NEW c \in Clients,
           gen' = gen, grants' = grants, user' = SignedIn(c)
    PROVE  GrantInv'
<1> DEFINE fresh == <<"recovery", gen, Cardinality(DOMAIN grants)>>
<1>1. /\ user'.last = user.last
      /\ user'.codes = user.codes \/ user'.codes = {fresh}
  BY SignedInIs DEF GrantInv
<1>2. CASE user'.codes = user.codes
  BY <1>1, <1>2, GrantFrame
<1>3. CASE user'.codes = {fresh}
  <2>1. Cardinality(DOMAIN grants) \in Nat
    BY FS_CardinalityType DEF GrantInv, GrantType
  <2>2. fresh[1] = "recovery" /\ fresh[3] = Cardinality(DOMAIN grants)
    OBVIOUS
  <2> HIDE DEF fresh
  <2>3. [code |-> fresh, gen |-> gen] \notin DOMAIN grants
    BY <2>1, <2>2 DEF GrantInv, CodesUnspent
  <2>4. CodesUnspent'
    BY <1>3, <2>1, <2>2, <2>3 DEF GrantInv, CodesUnspent
  <2>5. QED
    BY <1>1, <2>4 DEF GrantInv, GrantType, AcceptedOnce, StepsBehind
<1>4. QED
  BY <1>1, <1>2, <1>3

LEMMA GrantsKept ==
    /\ GrantInv /\ UserType /\ HandlerType /\ gen \in Nat
    /\ [LoginNext]_loginVars
    => GrantInv'
<1> SUFFICES ASSUME GrantInv, UserType, HandlerType, gen \in Nat, [LoginNext]_loginVars
             PROVE  GrantInv'
  OBVIOUS
<1>1. ASSUME NEW c \in Clients, CheckPassword(c) PROVE GrantInv'
  BY <1>1, GrantFrame DEF CheckPassword
<1>2. ASSUME NEW c \in Clients, expire_unverified_for_user(c) PROVE GrantInv'
  BY <1>2, GrantFrame DEF expire_unverified_for_user
<1>3. ASSUME NEW c \in Clients, create(c) PROVE GrantInv'
  BY <1>3, GrantFrame DEF create
<1>4. ASSUME NEW c \in Clients, enroll(c) PROVE GrantInv'
  BY <1>4, GrantFrame DEF enroll, UserType
<1>5. ASSUME NEW c \in Clients, bump_failure_and_maybe_lock(c) PROVE GrantInv'
  BY <1>5, GrantFrame DEF bump_failure_and_maybe_lock, UserType
<1>6. ASSUME NEW c \in Clients, LoadAccount(c) PROVE GrantInv'
  BY <1>6, GrantFrame DEF LoadAccount
<1>7. ASSUME NEW c \in Clients, WrongCode(c) PROVE GrantInv'
  BY <1>7, GrantFrame DEF WrongCode
<1>8. ASSUME NEW c \in Clients, mark_totp_verified_and_rotate(c) PROVE GrantInv'
  BY <1>8, GrantFrame DEF mark_totp_verified_and_rotate
<1>9. ASSUME NEW c \in Clients, Persist(c) PROVE GrantInv'
  BY <1>9, GrantIssue DEF Persist
<1>10. ASSUME NEW c \in Clients, PersistFails(c) PROVE GrantInv'
  <2>1. CASE user' = SignedIn(c)
    BY <1>10, <2>1, GrantIssue DEF PersistFails
  <2>2. CASE user' = user
    BY <1>10, <2>2, GrantFrame DEF PersistFails
  <2>3. QED
    BY <1>10, <2>1, <2>2 DEF PersistFails
<1>11. ASSUME NEW c \in Clients, StatementFails(c) PROVE GrantInv'
  BY <1>11, GrantFrame DEF StatementFails
<1>12. ASSUME NEW c \in Clients, NEW s \in DOMAIN sessions, validate_pre2fa(c, s) PROVE GrantInv'
  BY <1>12, GrantFrame DEF validate_pre2fa
<1>13. ASSUME NEW c \in Clients, NEW step \in Steps, consume_totp_step(c, step) PROVE GrantInv'
  <2>1. handler[c].secret \in Nat
    BY DEF HandlerType
  <2>2. QED
    BY <1>13, <2>1, GrantStep DEF consume_totp_step
<1>14. ASSUME NEW c \in Clients, NEW code \in user.codes, consume_recovery_code(c, code) PROVE GrantInv'
  BY <1>14, GrantRecovery DEF consume_recovery_code
<1>15. ASSUME NEW s \in DOMAIN sessions, logout(s) PROVE GrantInv'
  BY <1>15, GrantFrame DEF logout
<1>16. ASSUME NEW s \in DOMAIN sessions, NEW step \in Steps, verify_step_up(s, step) PROVE GrantInv'
  <2>1. user.secret \in Nat
    BY DEF UserType
  <2>2. QED
    BY <1>16, <2>1, GrantStep DEF verify_step_up
<1>17. ASSUME LockExpires PROVE GrantInv'
  BY <1>17, GrantFrame DEF LockExpires, UserType
<1>18. ASSUME reset_2fa PROVE GrantInv'
  <2>1. gen' = gen + 1 /\ grants' = grants /\ user'.codes = {}
    BY <1>18 DEF reset_2fa, UserType
  <2>2. \A g \in DOMAIN grants : g.gen \in Nat /\ g.gen <= gen
    BY DEF GrantInv, GrantType, StepsBehind
  <2>3. StepsBehind'
    BY <2>1, <2>2 DEF StepsBehind
  <2>4. QED
    BY <2>1, <2>3 DEF GrantInv, GrantType, AcceptedOnce, CodesUnspent
<1>19. CASE UNCHANGED loginVars
  BY GrantFrame, <1>19 DEF loginVars
<1>20. QED
  BY <1>1, <1>2, <1>3, <1>4, <1>5, <1>6, <1>7, <1>8, <1>9, <1>10, <1>11, <1>12, <1>13, <1>14, <1>15, <1>16, <1>17, <1>18, <1>19 DEF LoginNext

LEMMA GenStep == gen \in Nat /\ [LoginNext]_loginVars => gen' \in Nat
<1> SUFFICES ASSUME gen \in Nat, [LoginNext]_loginVars PROVE gen' \in Nat
  OBVIOUS
<1>1. ASSUME NEW c \in Clients, CheckPassword(c) PROVE gen' \in Nat
  BY <1>1 DEF CheckPassword
<1>2. ASSUME NEW c \in Clients, expire_unverified_for_user(c) PROVE gen' \in Nat
  BY <1>2 DEF expire_unverified_for_user
<1>3. ASSUME NEW c \in Clients, create(c) PROVE gen' \in Nat
  BY <1>3 DEF create
<1>4. ASSUME NEW c \in Clients, enroll(c) PROVE gen' \in Nat
  BY <1>4 DEF enroll
<1>5. ASSUME NEW c \in Clients, bump_failure_and_maybe_lock(c) PROVE gen' \in Nat
  BY <1>5 DEF bump_failure_and_maybe_lock
<1>6. ASSUME NEW c \in Clients, LoadAccount(c) PROVE gen' \in Nat
  BY <1>6 DEF LoadAccount
<1>7. ASSUME NEW c \in Clients, WrongCode(c) PROVE gen' \in Nat
  BY <1>7 DEF WrongCode
<1>8. ASSUME NEW c \in Clients, mark_totp_verified_and_rotate(c) PROVE gen' \in Nat
  BY <1>8 DEF mark_totp_verified_and_rotate
<1>9. ASSUME NEW c \in Clients, Persist(c) PROVE gen' \in Nat
  BY <1>9 DEF Persist
<1>10. ASSUME NEW c \in Clients, PersistFails(c) PROVE gen' \in Nat
  BY <1>10 DEF PersistFails
<1>11. ASSUME NEW c \in Clients, StatementFails(c) PROVE gen' \in Nat
  BY <1>11 DEF StatementFails
<1>12. ASSUME NEW c \in Clients, NEW s \in DOMAIN sessions, validate_pre2fa(c, s) PROVE gen' \in Nat
  BY <1>12 DEF validate_pre2fa
<1>13. ASSUME NEW c \in Clients, NEW step \in Steps, consume_totp_step(c, step) PROVE gen' \in Nat
  BY <1>13 DEF consume_totp_step
<1>14. ASSUME NEW c \in Clients, NEW code \in user.codes, consume_recovery_code(c, code) PROVE gen' \in Nat
  BY <1>14 DEF consume_recovery_code
<1>15. ASSUME NEW s \in DOMAIN sessions, logout(s) PROVE gen' \in Nat
  BY <1>15 DEF logout
<1>16. ASSUME NEW s \in DOMAIN sessions, NEW step \in Steps, verify_step_up(s, step) PROVE gen' \in Nat
  BY <1>16 DEF verify_step_up
<1>17. ASSUME LockExpires PROVE gen' \in Nat
  BY <1>17 DEF LockExpires
<1>18. ASSUME reset_2fa PROVE gen' \in Nat
  BY <1>18 DEF reset_2fa
<1>19. CASE UNCHANGED loginVars
  BY <1>19 DEF loginVars
<1>20. QED
  BY <1>1, <1>2, <1>3, <1>4, <1>5, <1>6, <1>7, <1>8, <1>9, <1>10, <1>11, <1>12, <1>13, <1>14, <1>15, <1>16, <1>17, <1>18, <1>19 DEF LoginNext

LEMMA LoginInitially == LoginInit => LoginInv
<1> SUFFICES ASSUME LoginInit PROVE LoginInv
  OBVIOUS
<1>1. DOMAIN grants = {} /\ gen = 0 /\ sessions = << >>
  BY DEF LoginInit
<1>2. UserType
  BY DEF LoginInit, NewAccount, UserType
<1>3. HandlerType
  BY DEF LoginInit, Resting, HandlerType, LoginPCs
<1>4. SessionType /\ LiveIsCurrent
  BY <1>1 DEF SessionType, LiveIsCurrent
<1>5. GrantType
  BY <1>1, FS_EmptySet DEF GrantType
<1>6. user.codes = {}
  BY DEF LoginInit, NewAccount
<1>7. StepsBehind /\ CodesUnspent /\ AcceptedOnce
  BY <1>1, <1>6 DEF StepsBehind, CodesUnspent, AcceptedOnce
<1>8. QED
  BY <1>1, <1>2, <1>3, <1>4, <1>5, <1>7 DEF LoginInv

\* Between two resets no code is accepted twice, whichever requests, tabs and
\* step-ups present it at once, and every session in use was opened since the
\* last reset (auth/mod.rs, consume_totp_step and consume_recovery_code;
\* api/users.rs, reset_2fa).
THEOREM CodesEarnSessions == LoginSpec => []SessionIsEarned
<1>1. LoginInv /\ [LoginNext]_loginVars => LoginInv'
  BY HandlerStep, SessionStep, UserStep, LiveStep, GrantsKept, GenStep DEF LoginInv, GrantInv
<1>2. LoginInv => SessionIsEarned
  BY DEF LoginInv, SessionIsEarned, LiveIsCurrent, AcceptedOnce, Usable
<1>3. QED
  BY <1>1, <1>2, LoginInitially, PTL DEF LoginSpec
-----------------------------------------------------------------------------
(* The life of a router write.  IInv is the inductive invariant; it survives *)
(* the loss of the advisory session.  FencedInv is what holds on top of it   *)
(* while no session is lost.                                                 *)

\* The row a task works on is in the state its last transition left, or was
\* cancelled before the push.
PcMatchesRow ==
    \A r \in Reroutes :
        /\ pc[r] \in {"idle", "fenced", "checked"} => state[r] = "none"
        /\ pc[r] = "reserved" => state[r] \in {"planned", "failed"}
        /\ pc[r] = "pended" => state[r] \in {"pending", "failed"}
        /\ pc[r] \in {"pushing", "pushed"} => state[r] = "running"
        /\ pc[r] = "recorded" => state[r] \in {"running", "verifying"}

\* Only a success owns a change.
ChangedIsSucceeded ==
    \A r \in Reroutes : effect[r] = "changed" => state[r] = "succeeded"

DownIsIdle ==
    ~up => /\ \A r \in Reroutes : pc[r] \in {"idle", "done"}
           /\ rec = NoRec

\* A write happened in or before the task's push, and is not a refusal.
WroteIsPastPush ==
    \A r \in wrote :
        /\ pc[r] \in {"pushed", "recorded", "done"}
        /\ state[r] \notin {"none", "planned", "pending"}
        /\ outcome[r] # "refused"

OutcomeSet ==
    \A r \in Reroutes : pc[r] \in {"pushed", "recorded"} => outcome[r] # "none"

\* An "ok" outcome was verified under the native lock, which is still held.
OkIsApplied ==
    \A r \in Reroutes :
        (pc[r] \in {"pushed", "recorded"} /\ outcome[r] = "ok")
            => dev[DeviceOf[r]] = after[r]

\* r may still write, or is writing.
Active(r) == \/ pc[r] \in {"reserved", "pended"} /\ state[r] # "failed"
             \/ pc[r] \in Writing

\* r's write took, or may have taken, effect.
Effective(r) == r \in wrote /\ state[r] \in Open \cup {"succeeded"}

Rivals(q, r) == OriginalOf[q] # NoReroute /\ OriginalOf[q] = OriginalOf[r]

ActiveIsAlone ==
    \A q, r \in Reroutes :
        (DeviceOf[q] = DeviceOf[r] /\ Active(q) /\ Active(r)) => q = r

InverseIsAlone ==
    \A q, r \in Reroutes :
        (Rivals(q, r) /\ (Active(q) \/ Effective(q)) /\ (Active(r) \/ Effective(r)))
            => q = r

\* What the slot check established still holds while its session lives.
CheckedIsFree ==
    \A r \in Reroutes :
        (pc[r] = "checked" /\ fence = r) =>
            /\ \A q \in Reroutes : DeviceOf[q] = DeviceOf[r] => ~Active(q)
            /\ \A q \in Reroutes : Rivals(q, r) => ~Effective(q)

IInv ==
    /\ TypeOK /\ PcMatchesRow /\ ChangedIsSucceeded /\ DownIsIdle
    /\ WroteIsPastPush /\ OutcomeSet /\ OkIsApplied
    /\ UncertainIsLocked /\ ActiveIsAlone /\ InverseIsAlone /\ CheckedIsFree

\* Without session losses a running task holds the fence ...
TaskHoldsFence ==
    /\ budget["fenceloss"] = 0
    /\ \A r \in Reroutes : pc[r] \notin {"idle", "done"} => fence = r

\* ... so the policy it read, and the slot it checked, cannot change.
PolicyFrozen ==
    \A r \in Reroutes :
        pc[r] \notin {"idle", "done"} => ~maintenance /\ (r \in Unattended => armed)

SlotFrozen ==
    \A r \in Reroutes :
        pc[r] = "checked" =>
            \A q \in Reroutes : DeviceOf[q] = DeviceOf[r] => state[q] \notin Open

FencedInv ==
    /\ TaskHoldsFence /\ PolicyFrozen /\ SlotFrozen /\ OneOpenActionPerDevice

-----------------------------------------------------------------------------
(* Typing *)

\* Every step of every handler keeps rows, tasks, devices and budgets typed.
LEMMA TypeStep == TypeOK /\ [Next]_vars => TypeOK'
<1> SUFFICES ASSUME TypeOK, [Next]_vars PROVE TypeOK'
  OBVIOUS
<1> USE RerouteAssumption, BoundAssumption DEF TypeOK, RowStates, InFlight, Terminal,
        Effects, PCs, Outcomes, Verdicts, Events, db, task, world, policy
<1>1. ASSUME NEW r \in Reroutes, Authorize(r) PROVE TypeOK'
  BY <1>1 DEF Authorize, Spend
<1>2. ASSUME NEW r \in Reroutes, CheckSlot(r) PROVE TypeOK'
  BY <1>2 DEF CheckSlot
<1>3. ASSUME NEW r \in Reroutes, Reserve(r) PROVE TypeOK'
  BY <1>3 DEF Reserve, InsertRow
<1>4. ASSUME NEW r \in Reroutes, ReserveOrphaned(r) PROVE TypeOK'
  BY <1>4 DEF ReserveOrphaned, InsertRow, EndTask, Spend
<1>5. ASSUME NEW r \in Reroutes, Refuse(r) PROVE TypeOK'
  BY <1>5 DEF Refuse, EndTask
<1>6. ASSUME NEW r \in Reroutes, ToPending(r) PROVE TypeOK'
  BY <1>6 DEF ToPending
<1>7. ASSUME NEW r \in Reroutes, ToRunning(r) PROVE TypeOK'
  BY <1>7 DEF ToRunning
<1>8. ASSUME NEW r \in Reroutes, AbortCancelled(r) PROVE TypeOK'
  BY <1>8 DEF AbortCancelled, EndTask
<1>9. ASSUME NEW r \in Reroutes, AbortPreCommand(r) PROVE TypeOK'
  BY <1>9 DEF AbortPreCommand, EndTask, Spend
<1>10. ASSUME NEW r \in Reroutes, Cancel(r) PROVE TypeOK'
  BY <1>10 DEF Cancel
<1>11. ASSUME NEW r \in Reroutes, PushRefused(r) PROVE TypeOK'
  BY <1>11 DEF PushRefused
<1>12. ASSUME NEW r \in Reroutes, PushSatisfied(r) PROVE TypeOK'
  BY <1>12 DEF PushSatisfied
<1>13. ASSUME NEW r \in Reroutes, PushApplied(r) PROVE TypeOK'
  BY <1>13 DEF PushApplied
<1>14. ASSUME NEW r \in Reroutes, PushUnread(r) PROVE TypeOK'
  BY <1>14 DEF PushUnread
<1>15. ASSUME NEW r \in Reroutes, PushAmbiguous(r) PROVE TypeOK'
  BY <1>15 DEF PushAmbiguous
<1>16. ASSUME NEW r \in Reroutes, Record(r) PROVE TypeOK'
  BY <1>16 DEF Record
<1>17. ASSUME NEW r \in Reroutes, RecordFailed(r) PROVE TypeOK'
  BY <1>17 DEF RecordFailed, Spend
<1>18. ASSUME NEW r \in Reroutes, Finalize(r) PROVE TypeOK'
  BY <1>18 DEF Finalize, FinalizeTx, FinalState, FinalEffect, EndTask
<1>19. ASSUME NEW r \in Reroutes, FinalizeLost(r) PROVE TypeOK'
  BY <1>19 DEF FinalizeLost, FinalizeTx, FinalState, FinalEffect, EndTask, Spend
<1>20. ASSUME NEW r \in Reroutes, RecoverRow(r) PROVE TypeOK'
  BY <1>20 DEF RecoverRow, Stuck
<1>21. ASSUME NEW r \in Reroutes, ReconcileRead(r) PROVE TypeOK'
  BY <1>21 DEF ReconcileRead, Reconcilable
<1>22. CASE Crash
  <2>1. persistOk' \in [Reroutes -> BOOLEAN]
    BY <1>22, Zenon DEF Crash
  <2>2. pc' \in [Reroutes -> PCs]
    BY <1>22 DEF Crash
  <2>3. budget' \in [Events -> Nat]
    BY <1>22 DEF Crash, Spend
  <2>4. QED
    BY <1>22, <2>1, <2>2, <2>3 DEF Crash, NoRec
<1>23. CASE Start
  BY <1>23 DEF Start, Stuck
<1>24. CASE ReconcileCommit
  BY <1>24 DEF ReconcileCommit, Reconcilable, NoRec
<1>25. CASE SetArmed
  BY <1>25 DEF SetArmed, Spend
<1>26. CASE SetMaintenance
  BY <1>26 DEF SetMaintenance, Spend
<1>27. CASE LoseFence
  BY <1>27 DEF LoseFence, Spend
<1>28. ASSUME NEW d \in Devices, Drift(d) PROVE TypeOK'
  BY <1>28 DEF Drift, Spend, NativeLocked
<1>29. CASE UNCHANGED vars
  BY <1>29 DEF vars
<1>30. QED
  BY <1>1, <1>2, <1>3, <1>4, <1>5, <1>6, <1>7, <1>8, <1>9, <1>10, <1>11, <1>12, <1>13, <1>14, <1>15, <1>16, <1>17, <1>18, <1>19, <1>20, <1>21, <1>22, <1>23, <1>24, <1>25, <1>26, <1>27, <1>28, <1>29 DEF Next, TaskStep

\* The row, task and write history stay consistent.
LEMMA RowStep == IInv /\ [Next]_vars => (PcMatchesRow /\ ChangedIsSucceeded /\ DownIsIdle
                 /\ WroteIsPastPush /\ OutcomeSet /\ UncertainIsLocked)'
<1> DEFINE Goal == PcMatchesRow /\ ChangedIsSucceeded /\ DownIsIdle
                 /\ WroteIsPastPush /\ OutcomeSet /\ UncertainIsLocked
<1> SUFFICES ASSUME IInv, [Next]_vars PROVE Goal'
  OBVIOUS
<1>0. TypeOK /\ TypeOK'
  BY TypeStep DEF IInv
<1> USE <1>0, RerouteAssumption DEF IInv, PcMatchesRow, ChangedIsSucceeded, DownIsIdle,
        WroteIsPastPush, OutcomeSet, UncertainIsLocked,
        TypeOK, RowStates, InFlight, Terminal, Effects, PCs, Outcomes, Verdicts, db, task, world, policy, NoRec, Open
<1>1. ASSUME NEW r \in Reroutes, Authorize(r) PROVE Goal'
  BY <1>1 DEF Authorize
<1>2. ASSUME NEW r \in Reroutes, CheckSlot(r) PROVE Goal'
  BY <1>2 DEF CheckSlot
<1>3. ASSUME NEW r \in Reroutes, Reserve(r) PROVE Goal'
  BY <1>3 DEF Reserve, InsertRow
<1>4. ASSUME NEW r \in Reroutes, ReserveOrphaned(r) PROVE Goal'
  BY <1>4 DEF ReserveOrphaned, InsertRow, EndTask
<1>5. ASSUME NEW r \in Reroutes, Refuse(r) PROVE Goal'
  BY <1>5 DEF Refuse, EndTask
<1>6. ASSUME NEW r \in Reroutes, ToPending(r) PROVE Goal'
  BY <1>6 DEF ToPending
<1>7. ASSUME NEW r \in Reroutes, ToRunning(r) PROVE Goal'
  BY <1>7 DEF ToRunning
<1>8. ASSUME NEW r \in Reroutes, AbortCancelled(r) PROVE Goal'
  BY <1>8 DEF AbortCancelled, EndTask
<1>9. ASSUME NEW r \in Reroutes, AbortPreCommand(r) PROVE Goal'
  BY <1>9 DEF AbortPreCommand, EndTask
<1>10. ASSUME NEW r \in Reroutes, Cancel(r) PROVE Goal'
  BY <1>10 DEF Cancel
<1>11. ASSUME NEW r \in Reroutes, PushRefused(r) PROVE Goal'
  BY <1>11 DEF PushRefused
<1>12. ASSUME NEW r \in Reroutes, PushSatisfied(r) PROVE Goal'
  BY <1>12 DEF PushSatisfied
<1>13. ASSUME NEW r \in Reroutes, PushApplied(r) PROVE Goal'
  BY <1>13 DEF PushApplied
<1>14. ASSUME NEW r \in Reroutes, PushUnread(r) PROVE Goal'
  BY <1>14 DEF PushUnread
<1>15. ASSUME NEW r \in Reroutes, PushAmbiguous(r) PROVE Goal'
  BY <1>15 DEF PushAmbiguous
<1>16. ASSUME NEW r \in Reroutes, Record(r) PROVE Goal'
  BY <1>16 DEF Record
<1>17. ASSUME NEW r \in Reroutes, RecordFailed(r) PROVE Goal'
  BY <1>17 DEF RecordFailed
<1>18. ASSUME NEW r \in Reroutes, Finalize(r) PROVE Goal'
  BY <1>18 DEF Finalize, FinalizeTx, FinalState, FinalEffect, EndTask
<1>19. ASSUME NEW r \in Reroutes, FinalizeLost(r) PROVE Goal'
  BY <1>19 DEF FinalizeLost, FinalizeTx, FinalState, FinalEffect, EndTask
<1>20. ASSUME NEW r \in Reroutes, RecoverRow(r) PROVE Goal'
  BY <1>20 DEF RecoverRow, Stuck
<1>21. ASSUME NEW r \in Reroutes, ReconcileRead(r) PROVE Goal'
  BY <1>21 DEF ReconcileRead, Reconcilable
<1>22. CASE Crash
  BY <1>22 DEF Crash, NoRec
<1>23. CASE Start
  BY <1>23 DEF Start, Stuck
<1>24. CASE ReconcileCommit
  BY <1>24 DEF ReconcileCommit, Reconcilable, NoRec
<1>25. CASE SetArmed
  BY <1>25 DEF SetArmed
<1>26. CASE SetMaintenance
  BY <1>26 DEF SetMaintenance
<1>27. CASE LoseFence
  BY <1>27 DEF LoseFence
<1>28. ASSUME NEW d \in Devices, Drift(d) PROVE Goal'
  BY <1>28 DEF Drift, NativeLocked
<1>29. CASE UNCHANGED vars
  BY <1>29 DEF vars
<1>30. QED
  BY <1>1, <1>2, <1>3, <1>4, <1>5, <1>6, <1>7, <1>8, <1>9, <1>10, <1>11, <1>12, <1>13, <1>14, <1>15, <1>16, <1>17, <1>18, <1>19, <1>20, <1>21, <1>22, <1>23, <1>24, <1>25, <1>26, <1>27, <1>28, <1>29 DEF Next, TaskStep

\* A verified value stays on the device until the task has recorded it.
LEMMA OkStep == IInv /\ [Next]_vars => (OkIsApplied)'
<1> DEFINE Goal == OkIsApplied
<1> SUFFICES ASSUME IInv, [Next]_vars PROVE Goal'
  OBVIOUS
<1>0. TypeOK /\ TypeOK'
  BY TypeStep DEF IInv
<1> USE <1>0, RerouteAssumption DEF IInv, OkIsApplied, ActiveIsAlone, Active, PcMatchesRow,
        Writing, TypeOK, RowStates, InFlight, Terminal, Effects, PCs, Outcomes, Verdicts, db, task, world, policy
<1>1. ASSUME NEW r \in Reroutes, Authorize(r) PROVE Goal'
  BY <1>1 DEF Authorize
<1>2. ASSUME NEW r \in Reroutes, CheckSlot(r) PROVE Goal'
  BY <1>2 DEF CheckSlot
<1>3. ASSUME NEW r \in Reroutes, Reserve(r) PROVE Goal'
  BY <1>3 DEF Reserve, InsertRow
<1>4. ASSUME NEW r \in Reroutes, ReserveOrphaned(r) PROVE Goal'
  BY <1>4 DEF ReserveOrphaned, InsertRow, EndTask
<1>5. ASSUME NEW r \in Reroutes, Refuse(r) PROVE Goal'
  BY <1>5 DEF Refuse, EndTask
<1>6. ASSUME NEW r \in Reroutes, ToPending(r) PROVE Goal'
  BY <1>6 DEF ToPending
<1>7. ASSUME NEW r \in Reroutes, ToRunning(r) PROVE Goal'
  BY <1>7 DEF ToRunning
<1>8. ASSUME NEW r \in Reroutes, AbortCancelled(r) PROVE Goal'
  BY <1>8 DEF AbortCancelled, EndTask
<1>9. ASSUME NEW r \in Reroutes, AbortPreCommand(r) PROVE Goal'
  BY <1>9 DEF AbortPreCommand, EndTask
<1>10. ASSUME NEW r \in Reroutes, Cancel(r) PROVE Goal'
  BY <1>10 DEF Cancel
<1>11. ASSUME NEW r \in Reroutes, PushRefused(r) PROVE Goal'
  BY <1>11 DEF PushRefused
<1>12. ASSUME NEW r \in Reroutes, PushSatisfied(r) PROVE Goal'
  BY <1>12 DEF PushSatisfied
<1>13. ASSUME NEW r \in Reroutes, PushApplied(r) PROVE Goal'
  BY <1>13 DEF PushApplied
<1>14. ASSUME NEW r \in Reroutes, PushUnread(r) PROVE Goal'
  BY <1>14 DEF PushUnread
<1>15. ASSUME NEW r \in Reroutes, PushAmbiguous(r) PROVE Goal'
  BY <1>15 DEF PushAmbiguous
<1>16. ASSUME NEW r \in Reroutes, Record(r) PROVE Goal'
  BY <1>16 DEF Record
<1>17. ASSUME NEW r \in Reroutes, RecordFailed(r) PROVE Goal'
  BY <1>17 DEF RecordFailed
<1>18. ASSUME NEW r \in Reroutes, Finalize(r) PROVE Goal'
  BY <1>18 DEF Finalize, FinalizeTx, FinalState, FinalEffect, EndTask
<1>19. ASSUME NEW r \in Reroutes, FinalizeLost(r) PROVE Goal'
  BY <1>19 DEF FinalizeLost, FinalizeTx, FinalState, FinalEffect, EndTask
<1>20. ASSUME NEW r \in Reroutes, RecoverRow(r) PROVE Goal'
  BY <1>20 DEF RecoverRow, Stuck
<1>21. ASSUME NEW r \in Reroutes, ReconcileRead(r) PROVE Goal'
  BY <1>21 DEF ReconcileRead, Reconcilable
<1>22. CASE Crash
  BY <1>22 DEF Crash, NoRec
<1>23. CASE Start
  BY <1>23 DEF Start, Stuck
<1>24. CASE ReconcileCommit
  BY <1>24 DEF ReconcileCommit, Reconcilable, NoRec
<1>25. CASE SetArmed
  BY <1>25 DEF SetArmed
<1>26. CASE SetMaintenance
  BY <1>26 DEF SetMaintenance
<1>27. CASE LoseFence
  BY <1>27 DEF LoseFence
<1>28. ASSUME NEW d \in Devices, Drift(d) PROVE Goal'
  BY <1>28 DEF Drift, NativeLocked
<1>29. CASE UNCHANGED vars
  BY <1>29 DEF vars
<1>30. QED
  BY <1>1, <1>2, <1>3, <1>4, <1>5, <1>6, <1>7, <1>8, <1>9, <1>10, <1>11, <1>12, <1>13, <1>14, <1>15, <1>16, <1>17, <1>18, <1>19, <1>20, <1>21, <1>22, <1>23, <1>24, <1>25, <1>26, <1>27, <1>28, <1>29 DEF Next, TaskStep

\* No second task becomes active on a device.
LEMMA ActiveStep == IInv /\ [Next]_vars => (ActiveIsAlone)'
<1> DEFINE Goal == ActiveIsAlone
<1> SUFFICES ASSUME IInv, [Next]_vars PROVE Goal'
  OBVIOUS
<1>0. TypeOK /\ TypeOK'
  BY TypeStep DEF IInv
<1> USE <1>0, RerouteAssumption DEF IInv, ActiveIsAlone, CheckedIsFree, Active, PcMatchesRow, ChangedIsSucceeded,
        Writing, TypeOK, RowStates, InFlight, Terminal, Effects, PCs, Outcomes, Verdicts, db, task, world, policy
<1>1. ASSUME NEW r \in Reroutes, Authorize(r) PROVE Goal'
  BY <1>1 DEF Authorize
<1>2. ASSUME NEW r \in Reroutes, CheckSlot(r) PROVE Goal'
  BY <1>2 DEF CheckSlot
<1>3. ASSUME NEW r \in Reroutes, Reserve(r) PROVE Goal'
  BY <1>3 DEF Reserve, InsertRow
<1>4. ASSUME NEW r \in Reroutes, ReserveOrphaned(r) PROVE Goal'
  BY <1>4 DEF ReserveOrphaned, InsertRow, EndTask
<1>5. ASSUME NEW r \in Reroutes, Refuse(r) PROVE Goal'
  BY <1>5 DEF Refuse, EndTask
<1>6. ASSUME NEW r \in Reroutes, ToPending(r) PROVE Goal'
  BY <1>6 DEF ToPending
<1>7. ASSUME NEW r \in Reroutes, ToRunning(r) PROVE Goal'
  BY <1>7 DEF ToRunning
<1>8. ASSUME NEW r \in Reroutes, AbortCancelled(r) PROVE Goal'
  BY <1>8 DEF AbortCancelled, EndTask
<1>9. ASSUME NEW r \in Reroutes, AbortPreCommand(r) PROVE Goal'
  BY <1>9 DEF AbortPreCommand, EndTask
<1>10. ASSUME NEW r \in Reroutes, Cancel(r) PROVE Goal'
  BY <1>10 DEF Cancel
<1>11. ASSUME NEW r \in Reroutes, PushRefused(r) PROVE Goal'
  BY <1>11 DEF PushRefused
<1>12. ASSUME NEW r \in Reroutes, PushSatisfied(r) PROVE Goal'
  BY <1>12 DEF PushSatisfied
<1>13. ASSUME NEW r \in Reroutes, PushApplied(r) PROVE Goal'
  BY <1>13 DEF PushApplied
<1>14. ASSUME NEW r \in Reroutes, PushUnread(r) PROVE Goal'
  BY <1>14 DEF PushUnread
<1>15. ASSUME NEW r \in Reroutes, PushAmbiguous(r) PROVE Goal'
  BY <1>15 DEF PushAmbiguous
<1>16. ASSUME NEW r \in Reroutes, Record(r) PROVE Goal'
  BY <1>16 DEF Record
<1>17. ASSUME NEW r \in Reroutes, RecordFailed(r) PROVE Goal'
  BY <1>17 DEF RecordFailed
<1>18. ASSUME NEW r \in Reroutes, Finalize(r) PROVE Goal'
  BY <1>18 DEF Finalize, FinalizeTx, FinalState, FinalEffect, EndTask
<1>19. ASSUME NEW r \in Reroutes, FinalizeLost(r) PROVE Goal'
  BY <1>19 DEF FinalizeLost, FinalizeTx, FinalState, FinalEffect, EndTask
<1>20. ASSUME NEW r \in Reroutes, RecoverRow(r) PROVE Goal'
  BY <1>20 DEF RecoverRow, Stuck
<1>21. ASSUME NEW r \in Reroutes, ReconcileRead(r) PROVE Goal'
  BY <1>21 DEF ReconcileRead, Reconcilable
<1>22. CASE Crash
  BY <1>22 DEF Crash, NoRec
<1>23. CASE Start
  BY <1>23 DEF Start, Stuck
<1>24. CASE ReconcileCommit
  BY <1>24 DEF ReconcileCommit, Reconcilable, NoRec
<1>25. CASE SetArmed
  BY <1>25 DEF SetArmed
<1>26. CASE SetMaintenance
  BY <1>26 DEF SetMaintenance
<1>27. CASE LoseFence
  BY <1>27 DEF LoseFence
<1>28. ASSUME NEW d \in Devices, Drift(d) PROVE Goal'
  BY <1>28 DEF Drift, NativeLocked
<1>29. CASE UNCHANGED vars
  BY <1>29 DEF vars
<1>30. QED
  BY <1>1, <1>2, <1>3, <1>4, <1>5, <1>6, <1>7, <1>8, <1>9, <1>10, <1>11, <1>12, <1>13, <1>14, <1>15, <1>16, <1>17, <1>18, <1>19, <1>20, <1>21, <1>22, <1>23, <1>24, <1>25, <1>26, <1>27, <1>28, <1>29 DEF Next, TaskStep

\* Nobody takes a checked slot from the holder of the fence.
LEMMA CheckedStep == IInv /\ [Next]_vars => (CheckedIsFree)'
<1> DEFINE Goal == CheckedIsFree
<1> SUFFICES ASSUME IInv, [Next]_vars PROVE Goal'
  OBVIOUS
<1>0. TypeOK /\ TypeOK'
  BY TypeStep DEF IInv
<1> USE <1>0, RerouteAssumption DEF IInv, CheckedIsFree, Active, Effective, Rivals, PcMatchesRow,
        ChangedIsSucceeded, WroteIsPastPush,
        Writing, SlotFree, DeviceHasOpenRow, NoRivalInverse, Inverses, Open, TypeOK, RowStates, InFlight, Terminal, Effects, PCs, Outcomes, Verdicts, db, task, world, policy
<1>1. ASSUME NEW r \in Reroutes, Authorize(r) PROVE Goal'
  BY <1>1 DEF Authorize
<1>2. ASSUME NEW r \in Reroutes, CheckSlot(r) PROVE Goal'
  BY <1>2 DEF CheckSlot
<1>3. ASSUME NEW r \in Reroutes, Reserve(r) PROVE Goal'
  BY <1>3 DEF Reserve, InsertRow
<1>4. ASSUME NEW r \in Reroutes, ReserveOrphaned(r) PROVE Goal'
  BY <1>4 DEF ReserveOrphaned, InsertRow, EndTask
<1>5. ASSUME NEW r \in Reroutes, Refuse(r) PROVE Goal'
  BY <1>5 DEF Refuse, EndTask
<1>6. ASSUME NEW r \in Reroutes, ToPending(r) PROVE Goal'
  BY <1>6 DEF ToPending
<1>7. ASSUME NEW r \in Reroutes, ToRunning(r) PROVE Goal'
  BY <1>7 DEF ToRunning
<1>8. ASSUME NEW r \in Reroutes, AbortCancelled(r) PROVE Goal'
  BY <1>8 DEF AbortCancelled, EndTask
<1>9. ASSUME NEW r \in Reroutes, AbortPreCommand(r) PROVE Goal'
  BY <1>9 DEF AbortPreCommand, EndTask
<1>10. ASSUME NEW r \in Reroutes, Cancel(r) PROVE Goal'
  BY <1>10 DEF Cancel
<1>11. ASSUME NEW r \in Reroutes, PushRefused(r) PROVE Goal'
  BY <1>11 DEF PushRefused
<1>12. ASSUME NEW r \in Reroutes, PushSatisfied(r) PROVE Goal'
  BY <1>12 DEF PushSatisfied
<1>13. ASSUME NEW r \in Reroutes, PushApplied(r) PROVE Goal'
  BY <1>13 DEF PushApplied
<1>14. ASSUME NEW r \in Reroutes, PushUnread(r) PROVE Goal'
  BY <1>14 DEF PushUnread
<1>15. ASSUME NEW r \in Reroutes, PushAmbiguous(r) PROVE Goal'
  BY <1>15 DEF PushAmbiguous
<1>16. ASSUME NEW r \in Reroutes, Record(r) PROVE Goal'
  BY <1>16 DEF Record
<1>17. ASSUME NEW r \in Reroutes, RecordFailed(r) PROVE Goal'
  BY <1>17 DEF RecordFailed
<1>18. ASSUME NEW r \in Reroutes, Finalize(r) PROVE Goal'
  BY <1>18 DEF Finalize, FinalizeTx, FinalState, FinalEffect, EndTask
<1>19. ASSUME NEW r \in Reroutes, FinalizeLost(r) PROVE Goal'
  BY <1>19 DEF FinalizeLost, FinalizeTx, FinalState, FinalEffect, EndTask
<1>20. ASSUME NEW r \in Reroutes, RecoverRow(r) PROVE Goal'
  BY <1>20 DEF RecoverRow, Stuck
<1>21. ASSUME NEW r \in Reroutes, ReconcileRead(r) PROVE Goal'
  BY <1>21 DEF ReconcileRead, Reconcilable
<1>22. CASE Crash
  BY <1>22 DEF Crash, NoRec
<1>23. CASE Start
  BY <1>23 DEF Start, Stuck
<1>24. CASE ReconcileCommit
  BY <1>24 DEF ReconcileCommit, Reconcilable, NoRec
<1>25. CASE SetArmed
  BY <1>25 DEF SetArmed
<1>26. CASE SetMaintenance
  BY <1>26 DEF SetMaintenance
<1>27. CASE LoseFence
  BY <1>27 DEF LoseFence
<1>28. ASSUME NEW d \in Devices, Drift(d) PROVE Goal'
  BY <1>28 DEF Drift, NativeLocked
<1>29. CASE UNCHANGED vars
  BY <1>29 DEF vars
<1>30. QED
  BY <1>1, <1>2, <1>3, <1>4, <1>5, <1>6, <1>7, <1>8, <1>9, <1>10, <1>11, <1>12, <1>13, <1>14, <1>15, <1>16, <1>17, <1>18, <1>19, <1>20, <1>21, <1>22, <1>23, <1>24, <1>25, <1>26, <1>27, <1>28, <1>29 DEF Next, TaskStep

\* No second inverse of the same original becomes active or effective.
LEMMA InverseStep == IInv /\ [Next]_vars => (InverseIsAlone)'
<1> DEFINE Goal == InverseIsAlone
<1> SUFFICES ASSUME IInv, [Next]_vars PROVE Goal'
  OBVIOUS
<1>0. TypeOK /\ TypeOK'
  BY TypeStep DEF IInv
<1> USE <1>0, RerouteAssumption DEF IInv, InverseIsAlone, CheckedIsFree, Active, Effective, Rivals,
        PcMatchesRow, ChangedIsSucceeded, WroteIsPastPush, Writing, Open, TypeOK, RowStates, InFlight, Terminal, Effects, PCs, Outcomes, Verdicts, db, task, world, policy
<1>1. ASSUME NEW r \in Reroutes, Authorize(r) PROVE Goal'
  BY <1>1 DEF Authorize
<1>2. ASSUME NEW r \in Reroutes, CheckSlot(r) PROVE Goal'
  BY <1>2 DEF CheckSlot
<1>3. ASSUME NEW r \in Reroutes, Reserve(r) PROVE Goal'
  BY <1>3 DEF Reserve, InsertRow
<1>4. ASSUME NEW r \in Reroutes, ReserveOrphaned(r) PROVE Goal'
  BY <1>4 DEF ReserveOrphaned, InsertRow, EndTask
<1>5. ASSUME NEW r \in Reroutes, Refuse(r) PROVE Goal'
  BY <1>5 DEF Refuse, EndTask
<1>6. ASSUME NEW r \in Reroutes, ToPending(r) PROVE Goal'
  BY <1>6 DEF ToPending
<1>7. ASSUME NEW r \in Reroutes, ToRunning(r) PROVE Goal'
  BY <1>7 DEF ToRunning
<1>8. ASSUME NEW r \in Reroutes, AbortCancelled(r) PROVE Goal'
  BY <1>8 DEF AbortCancelled, EndTask
<1>9. ASSUME NEW r \in Reroutes, AbortPreCommand(r) PROVE Goal'
  BY <1>9 DEF AbortPreCommand, EndTask
<1>10. ASSUME NEW r \in Reroutes, Cancel(r) PROVE Goal'
  BY <1>10 DEF Cancel
<1>11. ASSUME NEW r \in Reroutes, PushRefused(r) PROVE Goal'
  BY <1>11 DEF PushRefused
<1>12. ASSUME NEW r \in Reroutes, PushSatisfied(r) PROVE Goal'
  BY <1>12 DEF PushSatisfied
<1>13. ASSUME NEW r \in Reroutes, PushApplied(r) PROVE Goal'
  BY <1>13 DEF PushApplied
<1>14. ASSUME NEW r \in Reroutes, PushUnread(r) PROVE Goal'
  BY <1>14 DEF PushUnread
<1>15. ASSUME NEW r \in Reroutes, PushAmbiguous(r) PROVE Goal'
  BY <1>15 DEF PushAmbiguous
<1>16. ASSUME NEW r \in Reroutes, Record(r) PROVE Goal'
  BY <1>16 DEF Record
<1>17. ASSUME NEW r \in Reroutes, RecordFailed(r) PROVE Goal'
  BY <1>17 DEF RecordFailed
<1>18. ASSUME NEW r \in Reroutes, Finalize(r) PROVE Goal'
  BY <1>18 DEF Finalize, FinalizeTx, FinalState, FinalEffect, EndTask
<1>19. ASSUME NEW r \in Reroutes, FinalizeLost(r) PROVE Goal'
  BY <1>19 DEF FinalizeLost, FinalizeTx, FinalState, FinalEffect, EndTask
<1>20. ASSUME NEW r \in Reroutes, RecoverRow(r) PROVE Goal'
  BY <1>20 DEF RecoverRow, Stuck
<1>21. ASSUME NEW r \in Reroutes, ReconcileRead(r) PROVE Goal'
  BY <1>21 DEF ReconcileRead, Reconcilable
<1>22. CASE Crash
  BY <1>22 DEF Crash, NoRec
<1>23. CASE Start
  BY <1>23 DEF Start, Stuck
<1>24. CASE ReconcileCommit
  BY <1>24 DEF ReconcileCommit, Reconcilable, NoRec
<1>25. CASE SetArmed
  BY <1>25 DEF SetArmed
<1>26. CASE SetMaintenance
  BY <1>26 DEF SetMaintenance
<1>27. CASE LoseFence
  BY <1>27 DEF LoseFence
<1>28. ASSUME NEW d \in Devices, Drift(d) PROVE Goal'
  BY <1>28 DEF Drift, NativeLocked
<1>29. CASE UNCHANGED vars
  BY <1>29 DEF vars
<1>30. QED
  BY <1>1, <1>2, <1>3, <1>4, <1>5, <1>6, <1>7, <1>8, <1>9, <1>10, <1>11, <1>12, <1>13, <1>14, <1>15, <1>16, <1>17, <1>18, <1>19, <1>20, <1>21, <1>22, <1>23, <1>24, <1>25, <1>26, <1>27, <1>28, <1>29 DEF Next, TaskStep

LEMMA InitInv == Init => IInv
<1> SUFFICES ASSUME Init PROVE IInv
  OBVIOUS
<1> USE RerouteAssumption DEF Init
<1>1. TypeOK
  <2>1. persistOk \in [Reroutes -> BOOLEAN]
    BY Zenon
  <2>2. /\ before \in [Reroutes -> Values]
        /\ after \in [Reroutes -> Values]
    OBVIOUS
  <2>3. budget \in [Events -> Nat]
    BY BoundAssumption DEF Events
  <2>4. QED
    BY <2>1, <2>2, <2>3 DEF TypeOK, RowStates, Effects, PCs, Outcomes, Verdicts, NoRec
<1>2. /\ PcMatchesRow /\ ChangedIsSucceeded /\ DownIsIdle /\ WroteIsPastPush
      /\ OutcomeSet /\ OkIsApplied /\ UncertainIsLocked
  BY DEF PcMatchesRow, ChangedIsSucceeded, DownIsIdle, WroteIsPastPush, OutcomeSet,
         OkIsApplied, UncertainIsLocked
<1>3. /\ ActiveIsAlone /\ InverseIsAlone /\ CheckedIsFree
  BY DEF ActiveIsAlone, InverseIsAlone, CheckedIsFree, Active, Effective, Writing
<1>4. QED
  BY <1>1, <1>2, <1>3 DEF IInv

LEMMA NextInv == IInv /\ [Next]_vars => IInv'
<1> SUFFICES ASSUME IInv, [Next]_vars PROVE IInv'
  OBVIOUS
<1>1. TypeOK'
  BY TypeStep DEF IInv
<1>2. QED
  BY <1>1, RowStep, OkStep, ActiveStep, CheckedStep, InverseStep DEF IInv

\* The inductive invariant holds in every reachable state.
THEOREM Invariance == Spec => []IInv
<1>1. QED
  BY InitInv, NextInv, PTL DEF Spec

\* Rows, tasks, devices and locks keep their types through every handler.
THEOREM TypeCorrect == Spec => []TypeOK
<1>1. IInv => TypeOK
  BY DEF IInv
<1>2. QED
  BY <1>1, Invariance, PTL

\* Two tasks never push to the same device at once, whatever sessions are lost.
THEOREM OneWriter == Spec => []OneWriterPerDevice
<1>1. IInv => OneWriterPerDevice
  BY DEF IInv, ActiveIsAlone, Active, OneWriterPerDevice
<1>2. QED
  BY <1>1, Invariance, PTL

\* Every uncertain row has its device lock.
THEOREM UncertainLocked == Spec => []UncertainIsLocked
<1>1. IInv => UncertainIsLocked
  BY DEF IInv
<1>2. QED
  BY <1>1, Invariance, PTL

\* At most one inverse of an original writes with effect.
THEOREM Inverted == Spec => []InvertedOnce
<1>1. IInv => InvertedOnce
  BY DEF IInv, TypeOK, InverseIsAlone, InvertedOnce, Effective, Rivals
<1>2. QED
  BY <1>1, Invariance, PTL

\* The executor claims success only for a value the device holds.
THEOREM SuccessProved == Spec => SuccessIsProved
<1> DEFINE Good == \A r \in Reroutes :
                     (state[r] \in InFlight /\ state'[r] = "succeeded")
                         => dev[DeviceOf[r]] = after[r]
<1>1. IInv /\ [Next]_vars => [Good]_vars
  <2> SUFFICES ASSUME IInv, Next,
                      NEW r \in Reroutes,
                      state[r] \in InFlight, state'[r] = "succeeded"
               PROVE  dev[DeviceOf[r]] = after[r]
    OBVIOUS
  <2>0. TypeOK
    BY DEF IInv
  <2>1. Finalize(r) \/ FinalizeLost(r)
    BY <2>0 DEF Next, TaskStep, TypeOK, InFlight, Authorize, CheckSlot, Reserve, ReserveOrphaned,
       InsertRow, Refuse, ToPending, ToRunning, AbortCancelled, AbortPreCommand, Cancel,
       PushRefused, PushSatisfied, PushApplied, PushUnread, PushAmbiguous, Record,
       RecordFailed, Finalize, FinalizeLost, FinalizeTx, Crash, RecoverRow, Start,
       ReconcileRead, ReconcileCommit, Reconcilable, SetArmed, SetMaintenance,
       LoseFence, Drift, db
  <2>2. pc[r] = "recorded" /\ FinalState(r) = "succeeded"
    BY <2>0, <2>1 DEF Finalize, FinalizeLost, FinalizeTx, TypeOK, db, InFlight
  <2>3. outcome[r] = "ok"
    BY <2>0, <2>2 DEF FinalState, IInv, OutcomeSet, TypeOK, Outcomes
  <2>4. QED
    BY <2>2, <2>3 DEF IInv, OkIsApplied
<1>2. QED
  BY <1>1, Invariance, PTL DEF Spec, SuccessIsProved

\* Only a reconciliation that read the before-state back disowns a write.
THEOREM WriteOwned == Spec => WriteNeverDisowned
<1> DEFINE Good == \A r \in wrote :
                     (state[r] \in InFlight \cup {"uncertain"} /\ state'[r] = "failed")
                         => rec.reroute = r /\ rec.verdict = "not_applied"
<1>1. IInv /\ [Next]_vars => [Good]_vars
  <2> SUFFICES ASSUME IInv, Next,
                      NEW r \in wrote,
                      state[r] \in InFlight \cup {"uncertain"}, state'[r] = "failed"
               PROVE  rec.reroute = r /\ rec.verdict = "not_applied"
    OBVIOUS
  <2>0. TypeOK /\ r \in Reroutes
    BY DEF IInv, TypeOK
  <2>1. /\ pc[r] \in {"pushed", "recorded", "done"}
        /\ state[r] \notin {"none", "planned", "pending"}
        /\ outcome[r] # "refused"
    BY DEF IInv, WroteIsPastPush
  <2>2. ASSUME NEW q \in Reroutes, Finalize(q) \/ FinalizeLost(q) PROVE FALSE
    BY <2>0, <2>1, <2>2 DEF Finalize, FinalizeLost, FinalizeTx, FinalState, TypeOK, db,
       InFlight
  <2>3. ReconcileCommit
    BY <2>0, <2>1, <2>2 DEF Next, TaskStep, TypeOK, InFlight, Authorize, CheckSlot, Reserve,
       ReserveOrphaned, InsertRow, Refuse, ToPending, ToRunning, AbortCancelled,
       AbortPreCommand, Cancel, PushRefused, PushSatisfied, PushApplied, PushUnread,
       PushAmbiguous, Record, RecordFailed, Crash, RecoverRow, Start, ReconcileRead,
       SetArmed, SetMaintenance, LoseFence, Drift, db
  <2>4. QED
    BY <2>0, <2>3 DEF ReconcileCommit, TypeOK, InFlight
<1>2. QED
  BY <1>1, Invariance, PTL DEF Spec, WriteNeverDisowned

-----------------------------------------------------------------------------
(* While no advisory session is lost *)

\* While no session dies, a task keeps the fence to its end.
LEMMA FenceStep == IInv /\ FencedInv /\ [Next]_vars => (TaskHoldsFence)'
<1> DEFINE Goal == TaskHoldsFence
<1> SUFFICES ASSUME IInv, FencedInv, [Next]_vars PROVE Goal'
  OBVIOUS
<1>0. TypeOK /\ TypeOK'
  BY TypeStep DEF IInv
<1> USE <1>0, RerouteAssumption DEF IInv, FencedInv, TaskHoldsFence, DownIsIdle, Spend, Events, EndTask,
        NoRec, TypeOK, RowStates, InFlight, Terminal, Effects, PCs, Outcomes, Verdicts, db, task, world, policy
<1>1. ASSUME NEW r \in Reroutes, Authorize(r) PROVE Goal'
  BY <1>1 DEF Authorize
<1>2. ASSUME NEW r \in Reroutes, CheckSlot(r) PROVE Goal'
  BY <1>2 DEF CheckSlot
<1>3. ASSUME NEW r \in Reroutes, Reserve(r) PROVE Goal'
  BY <1>3 DEF Reserve, InsertRow
<1>4. ASSUME NEW r \in Reroutes, ReserveOrphaned(r) PROVE Goal'
  BY <1>4 DEF ReserveOrphaned, InsertRow, EndTask
<1>5. ASSUME NEW r \in Reroutes, Refuse(r) PROVE Goal'
  BY <1>5 DEF Refuse, EndTask
<1>6. ASSUME NEW r \in Reroutes, ToPending(r) PROVE Goal'
  BY <1>6 DEF ToPending
<1>7. ASSUME NEW r \in Reroutes, ToRunning(r) PROVE Goal'
  BY <1>7 DEF ToRunning
<1>8. ASSUME NEW r \in Reroutes, AbortCancelled(r) PROVE Goal'
  BY <1>8 DEF AbortCancelled, EndTask
<1>9. ASSUME NEW r \in Reroutes, AbortPreCommand(r) PROVE Goal'
  BY <1>9 DEF AbortPreCommand, EndTask
<1>10. ASSUME NEW r \in Reroutes, Cancel(r) PROVE Goal'
  BY <1>10 DEF Cancel
<1>11. ASSUME NEW r \in Reroutes, PushRefused(r) PROVE Goal'
  BY <1>11 DEF PushRefused
<1>12. ASSUME NEW r \in Reroutes, PushSatisfied(r) PROVE Goal'
  BY <1>12 DEF PushSatisfied
<1>13. ASSUME NEW r \in Reroutes, PushApplied(r) PROVE Goal'
  BY <1>13 DEF PushApplied
<1>14. ASSUME NEW r \in Reroutes, PushUnread(r) PROVE Goal'
  BY <1>14 DEF PushUnread
<1>15. ASSUME NEW r \in Reroutes, PushAmbiguous(r) PROVE Goal'
  BY <1>15 DEF PushAmbiguous
<1>16. ASSUME NEW r \in Reroutes, Record(r) PROVE Goal'
  BY <1>16 DEF Record
<1>17. ASSUME NEW r \in Reroutes, RecordFailed(r) PROVE Goal'
  BY <1>17 DEF RecordFailed
<1>18. ASSUME NEW r \in Reroutes, Finalize(r) PROVE Goal'
  BY <1>18 DEF Finalize, FinalizeTx, FinalState, FinalEffect, EndTask
<1>19. ASSUME NEW r \in Reroutes, FinalizeLost(r) PROVE Goal'
  BY <1>19 DEF FinalizeLost, FinalizeTx, FinalState, FinalEffect, EndTask
<1>20. ASSUME NEW r \in Reroutes, RecoverRow(r) PROVE Goal'
  BY <1>20 DEF RecoverRow, Stuck
<1>21. ASSUME NEW r \in Reroutes, ReconcileRead(r) PROVE Goal'
  BY <1>21 DEF ReconcileRead, Reconcilable
<1>22. CASE Crash
  BY <1>22 DEF Crash, NoRec
<1>23. CASE Start
  BY <1>23 DEF Start, Stuck
<1>24. CASE ReconcileCommit
  BY <1>24 DEF ReconcileCommit, Reconcilable, NoRec
<1>25. CASE SetArmed
  BY <1>25 DEF SetArmed
<1>26. CASE SetMaintenance
  BY <1>26 DEF SetMaintenance
<1>27. CASE LoseFence
  BY <1>27 DEF LoseFence
<1>28. ASSUME NEW d \in Devices, Drift(d) PROVE Goal'
  BY <1>28 DEF Drift, NativeLocked
<1>29. CASE UNCHANGED vars
  BY <1>29 DEF vars
<1>30. QED
  BY <1>1, <1>2, <1>3, <1>4, <1>5, <1>6, <1>7, <1>8, <1>9, <1>10, <1>11, <1>12, <1>13, <1>14, <1>15, <1>16, <1>17, <1>18, <1>19, <1>20, <1>21, <1>22, <1>23, <1>24, <1>25, <1>26, <1>27, <1>28, <1>29 DEF Next, TaskStep

\* The policy cannot change under a task that holds the fence.
LEMMA PolicyStep == IInv /\ FencedInv /\ [Next]_vars => (PolicyFrozen)'
<1> DEFINE Goal == PolicyFrozen
<1> SUFFICES ASSUME IInv, FencedInv, [Next]_vars PROVE Goal'
  OBVIOUS
<1>0. TypeOK /\ TypeOK'
  BY TypeStep DEF IInv
<1> USE <1>0, RerouteAssumption DEF IInv, FencedInv, TaskHoldsFence, PolicyFrozen, DownIsIdle, Gates,
        EndTask, TypeOK, RowStates, InFlight, Terminal, Effects, PCs, Outcomes, Verdicts, db, task, world, policy
<1>1. ASSUME NEW r \in Reroutes, Authorize(r) PROVE Goal'
  BY <1>1 DEF Authorize
<1>2. ASSUME NEW r \in Reroutes, CheckSlot(r) PROVE Goal'
  BY <1>2 DEF CheckSlot
<1>3. ASSUME NEW r \in Reroutes, Reserve(r) PROVE Goal'
  BY <1>3 DEF Reserve, InsertRow
<1>4. ASSUME NEW r \in Reroutes, ReserveOrphaned(r) PROVE Goal'
  BY <1>4 DEF ReserveOrphaned, InsertRow, EndTask
<1>5. ASSUME NEW r \in Reroutes, Refuse(r) PROVE Goal'
  BY <1>5 DEF Refuse, EndTask
<1>6. ASSUME NEW r \in Reroutes, ToPending(r) PROVE Goal'
  BY <1>6 DEF ToPending
<1>7. ASSUME NEW r \in Reroutes, ToRunning(r) PROVE Goal'
  BY <1>7 DEF ToRunning
<1>8. ASSUME NEW r \in Reroutes, AbortCancelled(r) PROVE Goal'
  BY <1>8 DEF AbortCancelled, EndTask
<1>9. ASSUME NEW r \in Reroutes, AbortPreCommand(r) PROVE Goal'
  BY <1>9 DEF AbortPreCommand, EndTask
<1>10. ASSUME NEW r \in Reroutes, Cancel(r) PROVE Goal'
  BY <1>10 DEF Cancel
<1>11. ASSUME NEW r \in Reroutes, PushRefused(r) PROVE Goal'
  BY <1>11 DEF PushRefused
<1>12. ASSUME NEW r \in Reroutes, PushSatisfied(r) PROVE Goal'
  BY <1>12 DEF PushSatisfied
<1>13. ASSUME NEW r \in Reroutes, PushApplied(r) PROVE Goal'
  BY <1>13 DEF PushApplied
<1>14. ASSUME NEW r \in Reroutes, PushUnread(r) PROVE Goal'
  BY <1>14 DEF PushUnread
<1>15. ASSUME NEW r \in Reroutes, PushAmbiguous(r) PROVE Goal'
  BY <1>15 DEF PushAmbiguous
<1>16. ASSUME NEW r \in Reroutes, Record(r) PROVE Goal'
  BY <1>16 DEF Record
<1>17. ASSUME NEW r \in Reroutes, RecordFailed(r) PROVE Goal'
  BY <1>17 DEF RecordFailed
<1>18. ASSUME NEW r \in Reroutes, Finalize(r) PROVE Goal'
  BY <1>18 DEF Finalize, FinalizeTx, FinalState, FinalEffect, EndTask
<1>19. ASSUME NEW r \in Reroutes, FinalizeLost(r) PROVE Goal'
  BY <1>19 DEF FinalizeLost, FinalizeTx, FinalState, FinalEffect, EndTask
<1>20. ASSUME NEW r \in Reroutes, RecoverRow(r) PROVE Goal'
  BY <1>20 DEF RecoverRow, Stuck
<1>21. ASSUME NEW r \in Reroutes, ReconcileRead(r) PROVE Goal'
  BY <1>21 DEF ReconcileRead, Reconcilable
<1>22. CASE Crash
  BY <1>22 DEF Crash, NoRec
<1>23. CASE Start
  BY <1>23 DEF Start, Stuck
<1>24. CASE ReconcileCommit
  BY <1>24 DEF ReconcileCommit, Reconcilable, NoRec
<1>25. CASE SetArmed
  BY <1>25 DEF SetArmed
<1>26. CASE SetMaintenance
  BY <1>26 DEF SetMaintenance
<1>27. CASE LoseFence
  BY <1>27 DEF LoseFence
<1>28. ASSUME NEW d \in Devices, Drift(d) PROVE Goal'
  BY <1>28 DEF Drift, NativeLocked
<1>29. CASE UNCHANGED vars
  BY <1>29 DEF vars
<1>30. QED
  BY <1>1, <1>2, <1>3, <1>4, <1>5, <1>6, <1>7, <1>8, <1>9, <1>10, <1>11, <1>12, <1>13, <1>14, <1>15, <1>16, <1>17, <1>18, <1>19, <1>20, <1>21, <1>22, <1>23, <1>24, <1>25, <1>26, <1>27, <1>28, <1>29 DEF Next, TaskStep

\* No row of a device opens behind a checked slot, or beside another.
LEMMA SlotStep == IInv /\ FencedInv /\ [Next]_vars => (SlotFrozen /\ OneOpenActionPerDevice)'
<1> DEFINE Goal == SlotFrozen /\ OneOpenActionPerDevice
<1> SUFFICES ASSUME IInv, FencedInv, [Next]_vars PROVE Goal'
  OBVIOUS
<1>0. TypeOK /\ TypeOK'
  BY TypeStep DEF IInv
<1> USE <1>0, RerouteAssumption DEF IInv, FencedInv, TaskHoldsFence, SlotFrozen, OneOpenActionPerDevice,
        PcMatchesRow, ChangedIsSucceeded, SlotFree, DeviceHasOpenRow, Open, NoRec, TypeOK, RowStates, InFlight, Terminal, Effects, PCs, Outcomes, Verdicts, db, task, world, policy
<1>1. ASSUME NEW r \in Reroutes, Authorize(r) PROVE Goal'
  BY <1>1 DEF Authorize
<1>2. ASSUME NEW r \in Reroutes, CheckSlot(r) PROVE Goal'
  BY <1>2 DEF CheckSlot
<1>3. ASSUME NEW r \in Reroutes, Reserve(r) PROVE Goal'
  BY <1>3 DEF Reserve, InsertRow
<1>4. ASSUME NEW r \in Reroutes, ReserveOrphaned(r) PROVE Goal'
  BY <1>4 DEF ReserveOrphaned, InsertRow, EndTask
<1>5. ASSUME NEW r \in Reroutes, Refuse(r) PROVE Goal'
  BY <1>5 DEF Refuse, EndTask
<1>6. ASSUME NEW r \in Reroutes, ToPending(r) PROVE Goal'
  BY <1>6 DEF ToPending
<1>7. ASSUME NEW r \in Reroutes, ToRunning(r) PROVE Goal'
  BY <1>7 DEF ToRunning
<1>8. ASSUME NEW r \in Reroutes, AbortCancelled(r) PROVE Goal'
  BY <1>8 DEF AbortCancelled, EndTask
<1>9. ASSUME NEW r \in Reroutes, AbortPreCommand(r) PROVE Goal'
  BY <1>9 DEF AbortPreCommand, EndTask
<1>10. ASSUME NEW r \in Reroutes, Cancel(r) PROVE Goal'
  BY <1>10 DEF Cancel
<1>11. ASSUME NEW r \in Reroutes, PushRefused(r) PROVE Goal'
  BY <1>11 DEF PushRefused
<1>12. ASSUME NEW r \in Reroutes, PushSatisfied(r) PROVE Goal'
  BY <1>12 DEF PushSatisfied
<1>13. ASSUME NEW r \in Reroutes, PushApplied(r) PROVE Goal'
  BY <1>13 DEF PushApplied
<1>14. ASSUME NEW r \in Reroutes, PushUnread(r) PROVE Goal'
  BY <1>14 DEF PushUnread
<1>15. ASSUME NEW r \in Reroutes, PushAmbiguous(r) PROVE Goal'
  BY <1>15 DEF PushAmbiguous
<1>16. ASSUME NEW r \in Reroutes, Record(r) PROVE Goal'
  BY <1>16 DEF Record
<1>17. ASSUME NEW r \in Reroutes, RecordFailed(r) PROVE Goal'
  BY <1>17 DEF RecordFailed
<1>18. ASSUME NEW r \in Reroutes, Finalize(r) PROVE Goal'
  BY <1>18 DEF Finalize, FinalizeTx, FinalState, FinalEffect, EndTask
<1>19. ASSUME NEW r \in Reroutes, FinalizeLost(r) PROVE Goal'
  BY <1>19 DEF FinalizeLost, FinalizeTx, FinalState, FinalEffect, EndTask
<1>20. ASSUME NEW r \in Reroutes, RecoverRow(r) PROVE Goal'
  BY <1>20 DEF RecoverRow, Stuck
<1>21. ASSUME NEW r \in Reroutes, ReconcileRead(r) PROVE Goal'
  BY <1>21 DEF ReconcileRead, Reconcilable
<1>22. CASE Crash
  BY <1>22 DEF Crash, NoRec
<1>23. CASE Start
  BY <1>23 DEF Start, Stuck
<1>24. CASE ReconcileCommit
  BY <1>24 DEF ReconcileCommit, Reconcilable, NoRec
<1>25. CASE SetArmed
  BY <1>25 DEF SetArmed
<1>26. CASE SetMaintenance
  BY <1>26 DEF SetMaintenance
<1>27. CASE LoseFence
  BY <1>27 DEF LoseFence
<1>28. ASSUME NEW d \in Devices, Drift(d) PROVE Goal'
  BY <1>28 DEF Drift, NativeLocked
<1>29. CASE UNCHANGED vars
  BY <1>29 DEF vars
<1>30. QED
  BY <1>1, <1>2, <1>3, <1>4, <1>5, <1>6, <1>7, <1>8, <1>9, <1>10, <1>11, <1>12, <1>13, <1>14, <1>15, <1>16, <1>17, <1>18, <1>19, <1>20, <1>21, <1>22, <1>23, <1>24, <1>25, <1>26, <1>27, <1>28, <1>29 DEF Next, TaskStep

LEMMA FencedInit == MaxFenceLosses = 0 /\ Init => FencedInv
  BY RerouteAssumption
  DEF Init, FencedInv, TaskHoldsFence, PolicyFrozen, SlotFrozen,
      OneOpenActionPerDevice, Events, Open, InFlight

LEMMA FencedNext == IInv /\ FencedInv /\ [Next]_vars => FencedInv'
  BY FenceStep, PolicyStep, SlotStep DEF FencedInv

\* With no session lost, a device never has two rows in flight or unresolved.
THEOREM OneOpenAction == MaxFenceLosses = 0 => (Spec => []OneOpenActionPerDevice)
<1> SUFFICES ASSUME MaxFenceLosses = 0 PROVE Spec => []OneOpenActionPerDevice
  OBVIOUS
<1>1. Init => FencedInv
  BY FencedInit
<1>2. FencedInv => OneOpenActionPerDevice
  BY DEF FencedInv
<1>3. QED
  BY <1>1, <1>2, FencedNext, Invariance, PTL DEF Spec

\* With no session lost, a completed disarm or maintenance lock is never
\* followed by a write it forbids.
THEOREM PolicyObeyed == MaxFenceLosses = 0 => (Spec => PolicyNotBypassed)
<1> SUFFICES ASSUME MaxFenceLosses = 0 PROVE Spec => PolicyNotBypassed
  OBVIOUS
<1> DEFINE Good == \A r \in wrote' \ wrote : ~maintenance /\ (r \in Unattended => armed)
<1>1. Init => FencedInv
  BY FencedInit
<1>2. IInv /\ FencedInv /\ [Next]_vars => [Good]_vars
  <2> SUFFICES ASSUME IInv, FencedInv, Next, NEW r \in wrote' \ wrote
               PROVE  ~maintenance /\ (r \in Unattended => armed)
    OBVIOUS
  <2>1. \E q \in Reroutes : PushApplied(q) \/ PushAmbiguous(q)
    BY DEF Next, TaskStep, Authorize, CheckSlot, Reserve, ReserveOrphaned, Refuse,
       ToPending, ToRunning, AbortCancelled, AbortPreCommand, Cancel, PushRefused,
       PushSatisfied, PushUnread, Record, RecordFailed, Finalize, FinalizeLost, Crash,
       RecoverRow, Start, ReconcileRead, ReconcileCommit, SetArmed, SetMaintenance,
       LoseFence, Drift, world
  <2>2. r \in Reroutes /\ pc[r] = "pushing"
    BY <2>1 DEF PushApplied, PushAmbiguous
  <2>3. QED
    BY <2>2 DEF FencedInv, PolicyFrozen
<1>3. QED
  BY <1>1, <1>2, FencedNext, Invariance, PTL DEF Spec, PolicyNotBypassed
=============================================================================
