----------------------------- MODULE RateGuard -----------------------------
(***************************************************************************)
(* The action rate limit: a bundle reserves its whole size at admission,    *)
(* its siblings spend the reservation one row at a time, standalone         *)
(* requests take what is left, corrective rows are counted but never        *)
(* refused.  Sources: reroute/guard.rs, reroute/bundle.rs.                  *)
(*                                                                         *)
(* A scope is a budget: the routing budget, or the budget of one router for *)
(* configuration-only bundles.  Both are a limit on the reroute rows created*)
(* within a sliding window, and both have an advisory lock.                 *)
(***************************************************************************)
EXTENDS Integers, FiniteSets

CONSTANTS
    Bundles,
    Actions,        \* siblings of the bundles
    Singles,        \* requests without a bundle
    Rollbacks,      \* corrective requests
    Scopes,
    Routing,        \* the shared scope; the others are one router each
    HomeOf,         \* [Actions -> Bundles]
    ScopeOf,        \* [Actions \cup Singles \cup Rollbacks -> Scopes]
    Limit, Window,  \* [Scopes -> Nat]; limit 0 switches a scope off
    MaxAge,         \* longest life of an open bundle, from its creation
    MaxTime, MaxCrashes,
    Free

Requests == Actions \cup Singles \cup Rollbacks
Never    == -1

\* Config::validate refuses a limit without a window; bundle_rate_scope refuses
\* a ledger that mixes routing and configuration-only siblings.
ASSUME RateAssumption ==
    /\ HomeOf \in [Actions -> Bundles]
    /\ ScopeOf \in [Requests -> Scopes]
    /\ Limit \in [Scopes -> Nat] /\ Window \in [Scopes -> Nat]
    /\ \A s \in Scopes : Limit[s] > 0 => Window[s] > 0
    /\ Routing \in Scopes
    /\ \A a, e \in Actions :
          HomeOf[a] = HomeOf[e] => (ScopeOf[a] = Routing <=> ScopeOf[e] = Routing)
    /\ \A r \in Singles : ScopeOf[r] = Routing
    /\ Actions \cap Singles = {} /\ Actions \cap Rollbacks = {}
    /\ Singles \cap Rollbacks = {}
    /\ Free \notin Bundles \cup Requests /\ Bundles \cap Requests = {}
    /\ IsFiniteSet(Bundles) /\ IsFiniteSet(Requests)
    /\ MaxAge \in Nat /\ MaxTime \in Nat /\ MaxCrashes \in Nat

VARIABLES
    now,
    bstate,     \* reroute_bundles.state: none, open (in flight), closed
    born,       \* reroute_bundles.created_at
    reserved,   \* reroute_bundles.rate_reserved_actions
    admission,  \* the runner: none, checked (lock held), admitted
    at,         \* reroutes.created_at of each request's row, or Never
    passed,     \* requests that passed the rate check and hold the lock
    lock,       \* advisory locks 20:reroute:rate-*
    crashes

vars == <<now, bstate, born, reserved, admission, at, passed, lock, crashes>>

\* The type invariant.
TypeOK ==
    /\ now \in 0..MaxTime
    /\ bstate \in [Bundles -> {"none", "open", "closed"}]
    /\ born \in [Bundles -> 0..MaxTime]
    /\ reserved \in [Bundles -> 0..Cardinality(Actions)]
    /\ admission \in [Bundles -> {"none", "checked", "admitted"}]
    /\ at \in [Requests -> 0..MaxTime \cup {Never}]
    /\ passed \subseteq Requests
    /\ lock \in [Scopes -> Bundles \cup Requests \cup {Free}]
    /\ crashes \in 0..MaxCrashes

Init ==
    /\ now = 0
    /\ bstate = [b \in Bundles |-> "none"]
    /\ born = [b \in Bundles |-> 0]
    /\ reserved = [b \in Bundles |-> 0]
    /\ admission = [b \in Bundles |-> "none"]
    /\ at = [r \in Requests |-> Never]
    /\ passed = {}
    /\ lock = [s \in Scopes |-> Free]
    /\ crashes = MaxCrashes

-----------------------------------------------------------------------------
(* Counting *)

ActionsOf(b)  == {a \in Actions : HomeOf[a] = b}
Limited(S)    == {s \in S : Limit[s] > 0}
\* created_at > now - window
Within(t, s)  == t # Never /\ t > now - Window[s]

\* scoped_recent_reroute_count: every row of the scope, corrective ones too,
\* except the rows of the asking bundle.
Recent(s, own) ==
    Cardinality({r \in Requests : ScopeOf[r] = s /\ Within(at[r], s)
                                  /\ (r \in Actions => HomeOf[r] \notin own)})

\* In-flight bundles younger than the window; the ledger of a bundle names the
\* scopes it draws from.
Reserving(s, own) ==
    {b \in Bundles \ own : /\ bstate[b] = "open" /\ Within(born[b], s)
                           /\ \E a \in ActionsOf(b) : ScopeOf[a] = s}

\* The unspent reservations in Reserving, summed.
SumReserved(B) == Cardinality({p \in B \X (1..Cardinality(Actions)) : p[2] <= reserved[p[1]]})

\* Mutant: the reservations of other bundles are forgotten.
OutstandingNone(s, own) == 0

\* Routing counts unspent reservations (scoped_outstanding_bundle_actions and
\* outstanding_bundle_actions_pool_on); a router's scope counts the whole ledger
\* of the bundle (scoped_outstanding_configuration_actions).
Outstanding(s, own) ==
    IF s = Routing THEN SumReserved(Reserving(s, own))
    ELSE Cardinality({a \in Actions : HomeOf[a] \in Reserving(s, own) /\ ScopeOf[a] = s})

-----------------------------------------------------------------------------
(* Bundles *)

Create(b) ==
    /\ bstate[b] = "none"
    /\ bstate' = [bstate EXCEPT ![b] = "open"]
    /\ born' = [born EXCEPT ![b] = now]
    /\ UNCHANGED <<now, reserved, admission, at, passed, lock, crashes>>

ScopesOf(b) == Limited({ScopeOf[a] : a \in ActionsOf(b)})
Fits(b) ==
    \A s \in ScopesOf(b) :
        Recent(s, {b}) + Outstanding(s, {b})
            + Cardinality({a \in ActionsOf(b) : ScopeOf[a] = s}) <= Limit[s]

\* admit_bundle: the locks of every limited scope are taken (in one order, so
\* that nobody waits in a circle) and the whole bundle must fit.
AdmitCheck(b) ==
    /\ bstate[b] = "open" /\ admission[b] = "none"
    /\ \A s \in ScopesOf(b) : lock[s] = Free
    /\ Fits(b)
    /\ lock' = [s \in Scopes |-> IF s \in ScopesOf(b) THEN b ELSE lock[s]]
    /\ admission' = [admission EXCEPT ![b] = "checked"]
    /\ UNCHANGED <<now, bstate, born, reserved, at, passed, crashes>>

\* Refused whole; the caller closes the bundle.
AdmitRefused(b) ==
    /\ bstate[b] = "open" /\ admission[b] = "none"
    /\ \A s \in ScopesOf(b) : lock[s] = Free
    /\ ~Fits(b)
    /\ bstate' = [bstate EXCEPT ![b] = "closed"]
    /\ UNCHANGED <<now, born, reserved, admission, at, passed, lock, crashes>>

Unlock(holder) == [s \in Scopes |-> IF lock[s] = holder THEN Free ELSE lock[s]]

\* Mutant: one sibling short.
AdmitReserveShort(b) ==
    /\ admission[b] = "checked"
    /\ reserved' = [reserved EXCEPT ![b] = Cardinality(ActionsOf(b)) - 1]
    /\ admission' = [admission EXCEPT ![b] = "admitted"]
    /\ lock' = Unlock(b)
    /\ UNCHANGED <<now, bstate, born, at, passed, crashes>>

\* With no limited scope nothing is reserved.
AdmitReserve(b) ==
    /\ admission[b] = "checked"
    /\ reserved' = [reserved EXCEPT ![b] =
                      IF ScopesOf(b) = {} THEN 0 ELSE Cardinality(ActionsOf(b))]
    /\ admission' = [admission EXCEPT ![b] = "admitted"]
    /\ lock' = Unlock(b)
    /\ UNCHANGED <<now, bstate, born, at, passed, crashes>>

\* Every terminal transaction gives back what was not spent.
Close(b) ==
    /\ bstate[b] = "open" /\ admission[b] # "checked"
    /\ \A a \in ActionsOf(b) : a \notin passed
    /\ bstate' = [bstate EXCEPT ![b] = "closed"]
    /\ reserved' = [reserved EXCEPT ![b] = 0]
    /\ admission' = [admission EXCEPT ![b] = "none"]
    /\ UNCHANGED <<now, born, at, passed, lock, crashes>>

-----------------------------------------------------------------------------
(* Rows *)

Asks(r) ==
    /\ at[r] = Never /\ r \notin passed
    /\ r \in Actions => /\ bstate[HomeOf[r]] = "open" /\ admission[HomeOf[r]] = "admitted"
                        /\ \A a \in ActionsOf(HomeOf[r]) : a \notin passed

\* Corrective requests, and any request of an unlimited scope, are not checked.
Throttled(r) == r \notin Rollbacks /\ Limit[ScopeOf[r]] > 0

\* A sibling needs its bundle's reservation, a standalone request free budget.
HasBudget(r) ==
    IF r \in Actions THEN reserved[HomeOf[r]] > 0
    ELSE Recent(ScopeOf[r], {}) + Outstanding(ScopeOf[r], {}) < Limit[ScopeOf[r]]

\* reserve_and_persist_inner under the rate lock.
CheckRate(r) ==
    /\ Asks(r)
    /\ Throttled(r) => lock[ScopeOf[r]] = Free /\ HasBudget(r)
    /\ lock' = IF Throttled(r) THEN [lock EXCEPT ![ScopeOf[r]] = r] ELSE lock
    /\ passed' = passed \cup {r}
    /\ UNCHANGED <<now, bstate, born, reserved, admission, at, crashes>>

\* insert_reroute: the row and the spent reservation are one transaction.
Insert(r) ==
    /\ r \in passed
    /\ at' = [at EXCEPT ![r] = now]
    /\ reserved' = IF r \in Actions /\ Throttled(r)
                   THEN [reserved EXCEPT ![HomeOf[r]] = @ - 1] ELSE reserved
    /\ passed' = passed \ {r}
    /\ lock' = Unlock(r)
    /\ UNCHANGED <<now, bstate, born, admission, crashes>>

\* A device gate of reserve_slot refuses after the rate check: nothing is spent.
InsertRefused(r) ==
    /\ r \in passed
    /\ passed' = passed \ {r}
    /\ lock' = Unlock(r)
    /\ UNCHANGED <<now, bstate, born, reserved, admission, at, crashes>>

-----------------------------------------------------------------------------
(* Time and restart *)

\* No open bundle gets older than MaxAge.
Tick ==
    /\ now < MaxTime
    /\ \A b \in Bundles : bstate[b] = "open" => now + 1 - born[b] < MaxAge
    /\ now' = now + 1
    /\ UNCHANGED <<bstate, born, reserved, admission, at, passed, lock, crashes>>

\* Sessions die with the process, and startup closes what was in flight before
\* anything else runs.
Restart ==
    /\ crashes > 0 /\ crashes' = crashes - 1
    /\ bstate' = [b \in Bundles |-> IF bstate[b] = "open" THEN "closed" ELSE bstate[b]]
    /\ reserved' = [b \in Bundles |-> IF bstate[b] = "open" THEN 0 ELSE reserved[b]]
    /\ admission' = [b \in Bundles |-> "none"]
    /\ passed' = {}
    /\ lock' = [s \in Scopes |-> Free]
    /\ UNCHANGED <<now, born, at>>

Next ==
    \/ \E b \in Bundles :
          Create(b) \/ AdmitCheck(b) \/ AdmitRefused(b) \/ AdmitReserve(b) \/ Close(b)
    \/ \E r \in Requests : CheckRate(r) \/ Insert(r) \/ InsertRefused(r)
    \/ Tick \/ Restart

Spec == Init /\ [][Next]_vars

-----------------------------------------------------------------------------
(* Properties *)

Unspent(s) ==
    {a \in Actions : /\ ScopeOf[a] = s /\ at[a] = Never
                     /\ bstate[HomeOf[a]] = "open" /\ admission[HomeOf[a]] = "admitted"}

\* The circuit breaker: within a window, the actions that ran and the ones that
\* admitted bundles may still run never exceed the limit, however bundles,
\* standalone requests, refusals and restarts interleave.
RateRespected ==
    \A s \in Limited(Scopes) :
        Cardinality({r \in Requests \ Rollbacks : ScopeOf[r] = s /\ Within(at[r], s)}
                    \cup Unspent(s)) <= Limit[s]

\* A bundle that was admitted is never stopped half way by the limiter: its
\* reservation covers every sibling that has not run.
AdmittedIsCovered ==
    \A b \in Bundles :
        (bstate[b] = "open" /\ admission[b] = "admitted")
            => Cardinality({a \in ActionsOf(b) : at[a] = Never /\ Throttled(a)}) <= reserved[b]
=============================================================================
