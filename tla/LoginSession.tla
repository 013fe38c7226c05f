----------------------------- MODULE LoginSession -----------------------------
(***************************************************************************)
(* Sign-in of one account (auth/mod.rs, auth/sessions.rs, auth/totp.rs and *)
(* reset_2fa of api/users.rs).                                             *)
(*                                                                         *)
(* A password buys a session that may only present a code; a code that is  *)
(* consumed verifies the session and rotates its token.  Codes are time    *)
(* steps of the enrolled secret, or recovery codes.  Requests run          *)
(* concurrently: each database statement is a step, each transaction one   *)
(* step.  The per-address throttle only refuses requests and is left out;  *)
(* so is the wall clock: a code is any step the authenticator showed.      *)
(***************************************************************************)
EXTENDS Naturals, Sequences, FiniteSets

CONSTANTS Clients,       \* concurrent requests
          Steps,         \* TOTP time steps
          Threshold,     \* [auth] lockout_threshold
          MaxSessions, MaxResets, MaxFaults    \* bounds of the instance

ASSUME LoginAssumption == /\ Steps \subseteq Nat \ {0}
                          /\ {Threshold, MaxSessions, MaxResets, MaxFaults} \subseteq Nat

VARIABLES user,       \* the account row
          sessions,   \* sequence of session rows
          handler,    \* client -> the request it has under way
          gen,        \* how often the second factor was reset
          grants,     \* ghost: [code, gen] -> how often that code was accepted
          loginFaults

loginVars == <<user, sessions, handler, gen, grants, loginFaults>>

Resting == [pc |-> "idle", sid |-> 0, secret |-> 0, confirmed |-> FALSE]

\* secret 0: none; the secrets are numbered as they are generated.
NewAccount == [secret |-> 0, made |-> 0, confirmed |-> FALSE, last |-> 0, codes |-> {},
               failed |-> 0, locked |-> FALSE]

LoginInit == /\ user = NewAccount /\ sessions = <<>>
             /\ handler = [c \in Clients |-> Resting]
             /\ gen = 0 /\ grants = [g \in {} |-> 0] /\ loginFaults = 0

LoginFault == loginFaults < MaxFaults /\ loginFaults' = loginFaults + 1

At(c, pc) == handler[c].pc = pc
Goes(c, pc) == handler' = [handler EXCEPT ![c].pc = pc]
Answers(c) == handler' = [handler EXCEPT ![c] = Resting]
Fails(c) == handler' = [handler EXCEPT ![c] = [Resting EXCEPT !.pc = "failed"]]

-----------------------------------------------------------------------------
(* POST /login *)

\* The account row, read once; then the password, and the enrollment code of
\* an account without a confirmed second factor.
CheckPassword(c) ==
    /\ At(c, "idle") /\ ~user.locked /\ Len(sessions) < MaxSessions
    /\ \/ Fails(c)
       \/ handler' = [handler EXCEPT ![c] = [pc |-> "expire", sid |-> 0, secret |-> user.secret,
                                             confirmed |-> user.confirmed]]
    /\ UNCHANGED <<user, sessions, gen, grants, loginFaults>>

expire_unverified_for_user(c) ==
    /\ At(c, "expire") /\ Goes(c, "create")
    /\ sessions' = [s \in DOMAIN sessions |->
                       [sessions[s] EXCEPT !.live = @ /\ sessions[s].verified]]
    /\ UNCHANGED <<user, gen, grants, loginFaults>>

create(c) ==
    /\ At(c, "create") /\ Len(sessions) < MaxSessions
    /\ sessions' = Append(sessions, [live |-> TRUE, verified |-> FALSE, token |-> "browser", gen |-> gen])
    /\ IF handler[c].confirmed /\ handler[c].secret # 0 THEN Answers(c)
       ELSE Goes(c, "enroll")
    /\ UNCHANGED <<user, gen, grants, loginFaults>>

\* A secret that was there is shown again; otherwise a new one replaces
\* whatever the row holds now.
enroll(c) ==
    /\ At(c, "enroll") /\ Answers(c)
    /\ user' = IF handler[c].secret # 0 THEN user
               ELSE [user EXCEPT !.secret = user.made + 1, !.made = @ + 1]
    /\ UNCHANGED <<sessions, gen, grants, loginFaults>>

\* bump_failure_and_maybe_lock, in a transaction
bump_failure_and_maybe_lock(c) ==
    /\ At(c, "failed") /\ Answers(c)
    /\ LET next == IF user.failed < Threshold THEN user.failed + 1 ELSE user.failed
       IN user' = [user EXCEPT !.failed = next, !.locked = next >= Threshold]
    /\ UNCHANGED <<sessions, gen, grants, loginFaults>>

\* The lock window passes; the counter stays.
LockExpires == /\ user.locked /\ user' = [user EXCEPT !.locked = FALSE]
               /\ UNCHANGED <<sessions, handler, gen, grants, loginFaults>>

-----------------------------------------------------------------------------
(* POST /totp.  Tabs share the cookie: any client may present any session. *)

validate_pre2fa(c, s) ==
    /\ At(c, "idle") /\ sessions[s].live /\ ~sessions[s].verified
    /\ handler' = [handler EXCEPT ![c] = [Resting EXCEPT !.pc = "account", !.sid = s]]
    /\ UNCHANGED <<user, sessions, gen, grants, loginFaults>>

LoadAccount(c) ==
    /\ At(c, "account")
    /\ IF user.locked THEN Answers(c)
       ELSE handler' = [handler EXCEPT ![c].pc = "code", ![c].secret = user.secret,
                                       ![c].confirmed = user.confirmed]
    /\ UNCHANGED <<user, sessions, gen, grants, loginFaults>>

Granted(code) ==
    LET g == [code |-> code, gen |-> gen]
        times == IF g \in DOMAIN grants THEN grants[g] + 1 ELSE 1
    IN grants' = [x \in DOMAIN grants \cup {g} |-> IF x = g THEN times ELSE grants[x]]
Accepted(c) == handler' = [handler EXCEPT ![c] = [@ EXCEPT !.pc = "rotate", !.secret = 0]]

\* Mutant: the step that was accepted last is accepted again.
Fresh_Equal(step) == step >= user.last

Fresh(step) == step > user.last

\* The code matches a step of the secret read earlier; the step is compared
\* and stored in one transaction.
consume_totp_step(c, step) ==
    /\ At(c, "code") /\ handler[c].secret # 0 /\ Fresh(step)
    /\ user' = [user EXCEPT !.last = step]
    /\ Granted(<<"step", handler[c].secret, step>>) /\ Accepted(c)
    /\ UNCHANGED <<sessions, gen, loginFaults>>

consume_recovery_code(c, code) ==
    /\ At(c, "code") /\ code \in user.codes
    /\ user' = [user EXCEPT !.codes = @ \ {code}]
    /\ Granted(code) /\ Accepted(c)
    /\ UNCHANGED <<sessions, gen, loginFaults>>

\* Wrong, or a replayed step: to the caller the same.
WrongCode(c) == /\ At(c, "code") /\ Fails(c)
                /\ UNCHANGED <<user, sessions, gen, grants, loginFaults>>

\* The new token is known to the request only, until it answers; a request
\* that rotated the same session before has a dead one.
mark_totp_verified_and_rotate(c) ==
    /\ At(c, "rotate") /\ Goes(c, "persist")
    /\ sessions' = [sessions EXCEPT ![handler[c].sid] = [@ EXCEPT !.verified = TRUE, !.token = c]]
    /\ UNCHANGED <<user, gen, grants, loginFaults>>

\* First confirmation: recovery codes are issued (one stands for the set),
\* random ones: numbered so that none is a code accepted before.
SignedIn(c) ==
    LET signedIn == [user EXCEPT !.failed = 0, !.locked = FALSE]
    IN IF handler[c].confirmed THEN signedIn
       ELSE [signedIn EXCEPT !.confirmed = TRUE, !.codes = {<<"recovery", gen, Cardinality(DOMAIN grants)>>}]

\* The new token reaches the browser with this answer.
Persist(c) ==
    /\ At(c, "persist") /\ Answers(c) /\ user' = SignedIn(c)
    /\ sessions' = [sessions EXCEPT ![handler[c].sid].token = IF @ = c THEN "browser" ELSE @]
    /\ UNCHANGED <<gen, grants, loginFaults>>

\* The update fails, or the account cannot be read back after it.  The
\* session is revoked, or that fails too; the browser gets no token.
PersistFails(c) ==
    /\ LoginFault /\ At(c, "persist") /\ Answers(c)
    /\ \E stored, revoked \in BOOLEAN :
          /\ user' = IF stored THEN SignedIn(c) ELSE user
          /\ sessions' = [sessions EXCEPT ![handler[c].sid].live = @ /\ ~revoked]
    /\ UNCHANGED <<gen, grants>>

\* A statement before that fails: the request ends there, whatever it did.
StatementFails(c) ==
    /\ LoginFault /\ handler[c].pc \in {"expire", "create", "enroll", "account", "code", "rotate"}
    /\ Answers(c)
    /\ UNCHANGED <<user, sessions, gen, grants>>

Usable(s) == sessions[s].live /\ sessions[s].verified /\ sessions[s].token = "browser"

logout(s) == /\ Usable(s) /\ sessions' = [sessions EXCEPT ![s].live = FALSE]
             /\ UNCHANGED <<user, handler, gen, grants, loginFaults>>

\* Step-up before a dangerous setting: password and a live code, no recovery code.
verify_step_up(s, step) ==
    /\ Usable(s) /\ user.secret # 0 /\ Fresh(step)
    /\ user' = [user EXCEPT !.last = step] /\ Granted(<<"step", user.secret, step>>)
    /\ UNCHANGED <<sessions, handler, gen, loginFaults>>

-----------------------------------------------------------------------------
(* POST /users/{id}/reset-2fa, in a transaction *)

reset_2fa ==
    /\ gen < MaxResets /\ gen' = gen + 1
    /\ user' = [user EXCEPT !.secret = 0, !.confirmed = FALSE, !.last = 0, !.codes = {}]
    /\ sessions' = [s \in DOMAIN sessions |-> [sessions[s] EXCEPT !.live = FALSE]]
    /\ UNCHANGED <<handler, grants, loginFaults>>

LoginNext ==
    \/ \E c \in Clients :
          \/ CheckPassword(c) \/ expire_unverified_for_user(c) \/ create(c) \/ enroll(c)
          \/ bump_failure_and_maybe_lock(c) \/ LoadAccount(c) \/ WrongCode(c)
          \/ mark_totp_verified_and_rotate(c) \/ Persist(c) \/ PersistFails(c) \/ StatementFails(c)
          \/ \E s \in DOMAIN sessions : validate_pre2fa(c, s)
          \/ \E step \in Steps : consume_totp_step(c, step)
          \/ \E code \in user.codes : consume_recovery_code(c, code)
    \/ \E s \in DOMAIN sessions : logout(s) \/ \E step \in Steps : verify_step_up(s, step)
    \/ LockExpires \/ reset_2fa

LoginSpec == LoginInit /\ [][LoginNext]_loginVars

-----------------------------------------------------------------------------
\* Between two resets a code is accepted once, whoever presents it and
\* wherever (two tabs, two logins, a step-up); and the sessions in use were
\* all opened since the last reset, although the challenge that verifies one
\* may have been half way when the reset committed.
SessionIsEarned ==
    /\ \A g \in DOMAIN grants : grants[g] = 1
    /\ \A s \in DOMAIN sessions : Usable(s) => sessions[s].gen = gen
=============================================================================
