--------------------------- MODULE BundleRun_proofs ---------------------------
(***************************************************************************)
(* Proofs about mitigation bundles and their recovery (module BundleRun),   *)
(* for any number of bundles, recovery children, actions, routers and       *)
(* faults.                                                                  *)
(***************************************************************************)
EXTENDS BundleRun, FiniteSetTheorems, WellFoundedInduction, TLAPS

-----------------------------------------------------------------------------
(* The inductive invariant *)

Live(x) == task[x].pc \notin {"idle", "done"}
Forward(x) == Live(x) /\ ~task[x].undo
Undoing(x) == Live(x) /\ task[x].undo
Doing(x, a) == task[x].pc = "executing" /\ a = NextAction(x)

\* The bundles whose actions x applies or undoes.
Src(x) == IF x \in Children THEN SourcesOf(x) ELSE {x}

\* What an executor may report.
Outcomes == {"changed", "noop", "refused", "cancelled", "uncertain"}

\* What a runner remembers fits where it stands.
Shape(x) ==
    Live(x) =>
      /\ task[x].todo \subseteq ActionsOf(x) /\ task[x].good \subseteq ActionsOf(x)
      /\ x \in Children => task[x].undo
      /\ task[x].pc # "closing" => task[x].todo # {} /\ task[x].stop = "no"
      /\ task[x].pc = "closing" /\ task[x].stop = "no" => task[x].todo = {}
      /\ task[x].pc \in {"admitted", "windowed"} => task[x].todo = ActionsOf(x)
      /\ x \in Bundles /\ task[x].pc \in {"admitted", "windowed"} => ~task[x].undo
      /\ task[x].pc = "executing" => task[x].got \in Outcomes
      /\ x \in Bundles /\ task[x].undo => task[x].stop # "lost"
      /\ up

Shapes == \A x \in Runs : Shape(x)

\* A bundle that is driven is in flight; one in flight has no recovery, and one
\* that does not exist has no rows.
States ==
    /\ \A x \in Runs : bstate[x] = "none" <=> task[x].pc = "idle"
    /\ \A b \in Bundles : Live(b) => bstate[b] \in InFlight
    /\ \A a \in Actions : bstate[HomeOf[a]] = "none" => row[a] = "none"
    /\ \A a \in Actions, y \in Runs :
          bstate[HomeOf[a]] \in InFlight /\ y # HomeOf[a] => inv[y][a] = "none"
    /\ \A c \in Children : bstate[c] = "none" => plan[c] = {} /\ SourcesOf(c) = {}

\* An action without a row was neither applied nor undone.
RowBegins(a) == row[a] = "none" => eff[a] = "off" /\ \A y \in Runs : inv[y][a] = "none"
RowsBegin == \A a \in Actions : RowBegins(a)

\* While x applies its siblings: those to come are untouched, the one in hand has
\* a row that is open, and unless an outcome was ambiguous every change on a router is
\* known by its row and remembered.
ForwardFits(x, a) ==
    /\ inv[x][a] = "none"
    /\ a \in task[x].todo /\ ~Doing(x, a) => row[a] = "none"
    /\ Doing(x, a) => /\ row[a] = "inflight"
                      /\ task[x].got = "changed" => eff[a] = "on"
                      /\ task[x].got \in {"noop", "refused", "cancelled"} => eff[a] = "off"
    /\ task[x].stop # "ambiguous" /\ ~Doing(x, a) =>
         /\ row[a] \notin {"uncertain", "cancelled"}
         /\ eff[a] # "off" => row[a] = "changed" /\ a \in task[x].good
    /\ task[x].stop = "no" /\ policy[x] # "continue" /\ a \notin task[x].todo =>
         row[a] \in Succeeded /\ (row[a] = "changed" => eff[a] = "on")

Forwards == \A x \in Bundles, a \in Actions : HomeOf[a] = x /\ Forward(x) => ForwardFits(x, a)

\* While x undoes: what is still in force is still to be undone, and no row of the
\* bundles it undoes is unresolved unless x itself left one.
UndoFits(x, a) ==
    /\ Doing(x, a) => inv[x][a] = "inflight" /\ (task[x].got \in Succeeded => eff[a] = "off")
    /\ task[x].stop = "no" /\ eff[a] # "off" => a \in task[x].todo
    /\ task[x].stop # "ambiguous" =>
         row[a] \notin {"uncertain", "cancelled"} /\ \A y \in Runs : inv[y][a] # "uncertain"

Undos == \A x \in Runs, a \in Actions : HomeOf[a] \in Src(x) /\ Undoing(x) => UndoFits(x, a)

\* Open rows keep runs apart on a router.
Alone ==
    \A x, y \in Runs, a, e \in Actions :
        Doing(x, a) /\ Doing(y, e) /\ DeviceOf[a] = DeviceOf[e] => x = y

Inverses == \A x \in Runs, a \in Actions : inv[x][a] # "none" => a \in ActionsOf(x)
Plans == \A c \in Children : \A a \in plan[c] : settlement[c][HomeOf[a]] # "none"

\* The source s of child c has ended, its rows are resolved, and it is settled
\* with the other sources of c.
SourceFits(c, s) ==
    /\ \E a \in SiblingsOf(s) : row[a] # "none"
    /\ ActivationCoverage(s, row, slot) /\ \A a \in SiblingsOf(s) : row[a] \notin Ambiguous
    /\ \A z \in SourcesOf(c) : /\ settlement[c][s] = "active" <=> settlement[c][z] = "active"
                               /\ settlement[c][s] = "blocked" <=> settlement[c][z] = "blocked"
    /\ settlement[c][s] = "known_no_write" =>
         task[c].pc = "done" /\ \A a \in Actions : inv[c][a] \notin Ambiguous
    /\ settlement[c][s] = "restored" =>
         /\ Outstanding(SiblingsOf(s), row, inv) = {}
         /\ \A a \in SiblingsOf(s), y \in Runs : inv[y][a] \notin Ambiguous
    /\ settlement[c][s] \in {"active", "blocked"} => Outstanding(SiblingsOf(s), row, inv) \subseteq plan[c]
    /\ Live(c) /\ task[c].stop # "ambiguous" => settlement[c][s] = "active"
    /\ settlement[c][s] = "active" => bstate[c] \in InFlight

Sources == \A c \in Children : \A s \in SourcesOf(c) : SourceFits(c, s)

\* What is owned, by its row or by the router, keeps its router's membership.
RowHeld(a) ==
    (row[a] = "changed" \/ eff[a] # "off") /\ ~Inverted(a, inv) /\ bstate[HomeOf[a]] # "succeeded"
        => <<DeviceOf[a], HomeOf[a]>> \in member
RowsHeld == \A a \in Actions : RowHeld(a)

\* A recovery adds memberships only for activations that had given theirs back.
CreatedForSucceeded == \A c \in Children : \A m \in created[c] : bstate[m[2]] = "succeeded"

\* A bundle being applied has its routers to itself, but for activations that succeeded.
Apart ==
    \A b \in Bundles : Forward(b) /\ task[b].pc \in {"windowed", "loop", "executing"} =>
        \A d \in DevicesOf(b) : /\ <<d, b>> \in member
                                /\ \A z \in Members(d, member) : z = b \/ bstate[z] = "succeeded"

\* At most one change of a bundle is unaccounted for.
InflightAlone ==
    \A a, e \in Actions :
        HomeOf[a] = HomeOf[e] /\ row[e] = "inflight" /\ eff[e] # "off" => row[a] # "uncertain"

RowInv == RowsBegin /\ ChangeIsOwned /\ InflightAlone /\ Inverses
RunInv == Shapes /\ Forwards /\ Undos /\ Alone /\ Apart
OwnerInv == States /\ Plans /\ Sources /\ ClaimExclusive /\ RowsHeld /\ CreatedForSucceeded /\ VerdictIsTrue

BundleInv == TypeOK /\ RowInv /\ RunInv /\ OwnerInv

-----------------------------------------------------------------------------
(* Basic facts *)

LEMMA LargestExists ==
  ASSUME NEW S, IsFiniteSet(S), S # {}, NEW r \in [S -> Int]
  PROVE  \E a \in S : \A e \in S : r[a] >= r[e]
<1> DEFINE u == [a \in S |-> {e \in S : r[e] > r[a]}]
           T == {u[a] : a \in S}
<1>1. \A a \in S : u[a] \in SUBSET S /\ IsFiniteSet(u[a])
  BY FS_Subset
<1>2. \A a, e \in S : e \in u[a] <=> r[e] > r[a]
  OBVIOUS
<1> HIDE DEF u
<1>3. T # {} /\ T \subseteq FiniteSubsetsOf(S)
  BY <1>1 DEF FiniteSubsetsOf
<1>4. IsWellFoundedOn(StrictSubsetOrdering(S), FiniteSubsetsOf(S))
  BY FS_StrictSubsetOrderingWellFounded
<1>5. PICK X \in T : \A Y \in T : ~(<<Y, X>> \in StrictSubsetOrdering(S))
  BY <1>3, <1>4, WFMin
<1>6. PICK a \in S : X = u[a]
  BY <1>5
<1>7. \A e \in S : r[a] >= r[e]
  <2>1. SUFFICES ASSUME NEW e \in S, r[e] > r[a] PROVE FALSE
    OBVIOUS
  <2>2. u[e] \subseteq u[a] /\ e \in u[a] /\ e \notin u[e]
    BY <1>1, <1>2, <2>1
  <2>3. <<u[e], u[a]>> \in StrictSubsetOrdering(S)
    BY <1>1, <2>2 DEF StrictSubsetOrdering
  <2>4. QED
    BY <1>5, <1>6, <2>3
<1>8. QED
  BY <1>7

\* A set of actions has a first and a last one.
LEMMA FirstAndLast ==
  ASSUME NEW S \in SUBSET Actions, S # {}
  PROVE  /\ \E a \in S : \A e \in S : Rank[a] <= Rank[e]
         /\ \E a \in S : \A e \in S : Rank[a] >= Rank[e]
<1>1. IsFiniteSet(S) /\ \A a \in S : Rank[a] \in Nat
  BY BundleAssumption, FS_Subset
<1> DEFINE r == [a \in S |-> Rank[a]]
           n == [a \in S |-> 0 - Rank[a]]
<1>2. r \in [S -> Int] /\ n \in [S -> Int]
  BY <1>1
<1>3. PICK a \in S : \A e \in S : r[a] >= r[e]
  BY <1>1, <1>2, LargestExists
<1>4. PICK b \in S : \A e \in S : n[b] >= n[e]
  BY <1>1, <1>2, LargestExists
<1>5. \A e \in S : Rank[a] >= Rank[e] /\ Rank[b] <= Rank[e]
  BY <1>1, <1>3, <1>4
<1>6. QED
  BY <1>5

LEMMA NextIsPending ==
  ASSUME NEW x \in Runs, task[x].todo \subseteq Actions, task[x].todo # {}
  PROVE  /\ NextAction(x) \in task[x].todo
         /\ task[x].undo => \A e \in task[x].todo : Rank[NextAction(x)] >= Rank[e]
         /\ ~task[x].undo => \A e \in task[x].todo : Rank[NextAction(x)] <= Rank[e]
<1>1. \E a \in task[x].todo : \A e \in task[x].todo :
         IF task[x].undo THEN Rank[a] >= Rank[e] ELSE Rank[a] <= Rank[e]
  BY FirstAndLast
<1>2. /\ NextAction(x) \in task[x].todo
      /\ \A e \in task[x].todo : IF task[x].undo THEN Rank[NextAction(x)] >= Rank[e]
                                                 ELSE Rank[NextAction(x)] <= Rank[e]
  BY <1>1 DEF NextAction
<1>3. QED
  BY <1>2

LEMMA RunsAre ==
  /\ Bundles \subseteq Runs /\ Children \subseteq Runs
  /\ \A x \in Runs : (x \in Bundles) <=> (x \notin Children)
  /\ \A a \in Actions : HomeOf[a] \in Bundles /\ HomeOf[a] \in Runs /\ HomeOf[a] \notin Children
  BY BundleAssumption DEF Runs

LEMMA InitInv == Init => BundleInv
<1> SUFFICES ASSUME Init PROVE BundleInv
  OBVIOUS
<1> USE BundleAssumption, RunsAre
<1>1. TypeOK
  <2>1. Idle \in Tasks
    BY DEF Idle, Tasks, PCs, RowStatus
  <2>2. policy \in [Bundles -> Policies]
    BY DEF Init
  <2>3. "none" \in RowStatus /\ "none" \in BStates /\ "none" \in Settlements
    BY DEF RowStatus, BStates, Settlements
  <2>4. QED
    BY <2>1, <2>2, <2>3 DEF Init, TypeOK
<1>2. \A x \in Runs : ~Live(x) /\ task[x].pc = "idle"
  BY DEF Init, Live, Idle
<1>3. RowInv
  BY DEF Init, RowInv, RowsBegin, RowBegins, ChangeIsOwned, InflightAlone, Inverses
<1>4. RunInv
  BY <1>2 DEF RunInv, Shapes, Shape, Forwards, Forward, Undos, Undoing, Alone, Doing, Apart
<1>5. \A c \in Children : SourcesOf(c) = {} /\ plan[c] = {} /\ created[c] = {}
  BY DEF Init, SourcesOf
<1>6. States /\ Plans /\ Sources /\ ClaimExclusive
  BY <1>2, <1>5 DEF Init, States, Plans, Sources, ClaimExclusive, InFlight
<1>7. RowsHeld /\ CreatedForSucceeded /\ VerdictIsTrue
  BY <1>5 DEF Init, RowsHeld, RowHeld, CreatedForSucceeded, VerdictIsTrue
<1>8. QED
  BY <1>1, <1>3, <1>4, <1>6, <1>7 DEF BundleInv, OwnerInv

LEMMA TaskTyped == ASSUME TypeOK, NEW x \in Runs PROVE task[x] \in Tasks
  BY DEF TypeOK

\* A bundle that is driven is no recovery's source.
LEMMA DrivenIsNoSource ==
  ASSUME BundleInv, NEW x \in Bundles, Live(x), NEW c \in Children
  PROVE  x \notin SourcesOf(c)
<1>1. bstate[x] \in InFlight
  BY DEF BundleInv, OwnerInv, States
<1>2. QED
  BY <1>1 DEF BundleInv, OwnerInv, Sources, SourceFits, ActivationCoverage

\* The action a run has in hand is one of its own.
LEMMA InHand ==
  ASSUME BundleInv, NEW x \in Runs, task[x].pc \in {"loop", "executing"}
  PROVE  /\ NextAction(x) \in task[x].todo /\ NextAction(x) \in Actions
         /\ NextAction(x) \in ActionsOf(x) /\ HomeOf[NextAction(x)] \in Src(x)
         /\ Live(x) /\ task[x].stop = "no" /\ up
         /\ ~task[x].undo => x \in Bundles /\ HomeOf[NextAction(x)] = x
<1>1. Live(x) /\ Shape(x)
  BY DEF BundleInv, RunInv, Shapes, Live
<1>2. ActionsOf(x) \subseteq Actions
  BY RunsAre DEF BundleInv, TypeOK, ActionsOf, SiblingsOf
<1>3. task[x].todo \subseteq Actions /\ task[x].todo # {} /\ task[x].todo \subseteq ActionsOf(x)
      /\ task[x].stop = "no" /\ up /\ (x \in Children => task[x].undo)
  BY <1>1, <1>2 DEF Shape
<1>4. NextAction(x) \in task[x].todo
  BY <1>3, NextIsPending
<1>5. HomeOf[NextAction(x)] \in Src(x)
  <2>1. CASE x \in Children
    BY <1>3, <1>4, <2>1, RunsAre DEF Src, SourcesOf, ActionsOf, BundleInv, OwnerInv, Plans
  <2>2. CASE x \notin Children
    BY <1>3, <1>4, <2>2, RunsAre DEF Src, ActionsOf, SiblingsOf
  <2>3. QED
    BY <2>1, <2>2
<1>6. QED
  BY <1>1, <1>2, <1>3, <1>4, <1>5, RunsAre DEF Src

\* Two runs have no source in common.
LEMMA SourcesApart ==
  ASSUME BundleInv, NEW x \in Runs, NEW y \in Runs, x # y, Live(x), Live(y),
         \/ x \in Bundles \/ y \in Bundles
         \/ task[x].stop # "ambiguous" /\ task[y].stop # "ambiguous"
  PROVE  Src(x) \cap Src(y) = {}
<1>1. CASE x \in Bundles /\ y \in Bundles
  BY <1>1, RunsAre DEF Src
<1>2. CASE x \in Bundles /\ y \in Children
  BY <1>2, RunsAre, DrivenIsNoSource DEF Src
<1>3. CASE x \in Children /\ y \in Bundles
  BY <1>3, RunsAre, DrivenIsNoSource DEF Src
<1>4. CASE x \in Children /\ y \in Children
  <2>1. ASSUME NEW s \in SourcesOf(x), s \in SourcesOf(y) PROVE FALSE
    <3>1. settlement[x][s] = "active" /\ settlement[y][s] = "active" /\ s \in Bundles
      BY <1>4, <2>1, RunsAre DEF BundleInv, OwnerInv, Sources, SourceFits, SourcesOf
    <3>2. QED
      BY <1>4, <3>1 DEF BundleInv, OwnerInv, ClaimExclusive
  <2>2. QED
    BY <1>4, <2>1 DEF Src
<1>5. QED
  BY <1>1, <1>2, <1>3, <1>4, RunsAre

\* A run's memory changes, and nothing it or others did.
LEMMA MemoryStep ==
  ASSUME BundleInv, TypeOK', NEW x \in Runs,
         x \in Children => Live(x) /\ task[x].stop # "ambiguous",
         x \in Bundles => bstate[x] \in InFlight \cup {"none"},
         UNCHANGED <<policy, row, inv, eff, claim, settlement, created, plan, up>>,
         \A y \in Runs \ {x} : task'[y] = task[y] /\ bstate'[y] = bstate[y],
         bstate'[x] \in InFlight \/ (bstate'[x] = bstate[x] /\ Live(x)),
         \A a \in Actions : slot'[a] = slot[a] \/ HomeOf[a] = x,
         task'[x].pc \notin {"idle", "done", "executing"}, Shape(x)',
         \A a \in Actions : HomeOf[a] = x /\ Forward(x)' => ForwardFits(x, a)',
         \A a \in Actions : HomeOf[a] \in Src(x) /\ Undoing(x)' => UndoFits(x, a)',
         RowsHeld', Apart'
  PROVE  BundleInv'
<1> USE RunsAre
<1>1. RowInv'
  BY DEF BundleInv, RowInv, RowsBegin, RowBegins, ChangeIsOwned, InflightAlone, Inverses, ActionsOf, SiblingsOf, Inverted
<1>2. /\ Live(x)'
      /\ \A a \in Actions : ~Doing(x, a)'
      /\ \A y \in Runs : Src(y)' = Src(y) /\ ActionsOf(y)' = ActionsOf(y)
      /\ \A y \in Runs \ {x} : /\ NextAction(y)' = NextAction(y) /\ (Live(y)' <=> Live(y))
                               /\ (Forward(y)' <=> Forward(y)) /\ (Undoing(y)' <=> Undoing(y))
                               /\ \A a \in Actions : Doing(y, a)' <=> Doing(y, a)
  BY DEF Live, Forward, Undoing, Doing, Src, SourcesOf, ActionsOf, NextAction
<1>3. Shapes'
  <2>1. \A y \in Runs \ {x} : Shape(y)'
    BY <1>2 DEF BundleInv, RunInv, Shapes, Shape
  <2>2. QED
    BY <2>1 DEF Shapes
<1>4. Forwards'
  <2>1. ASSUME NEW y \in Bundles, NEW a \in Actions, HomeOf[a] = y, Forward(y), y # x PROVE ForwardFits(y, a)'
    BY <1>2, <2>1 DEF BundleInv, RunInv, Forwards, ForwardFits
  <2>2. QED
    BY <1>2, <2>1 DEF Forwards
<1>5. Undos'
  <2>1. ASSUME NEW y \in Runs, NEW a \in Actions, HomeOf[a] \in Src(y), Undoing(y), y # x PROVE UndoFits(y, a)'
    BY <1>2, <2>1 DEF BundleInv, RunInv, Undos, UndoFits
  <2>2. QED
    BY <1>2, <2>1 DEF Undos
<1>6. Alone'
  BY <1>2 DEF BundleInv, RunInv, Alone
<1>7. /\ \A b \in Bundles : \/ bstate'[b] = bstate[b]
                            \/ b = x /\ bstate[b] \in InFlight \cup {"none"} /\ bstate'[b] \in InFlight
      /\ bstate'[x] # "none" /\ (x \in Bundles => bstate'[x] \in InFlight)
  <2>1. Live(x) => bstate[x] # "none" /\ (x \in Bundles => bstate[x] \in InFlight)
    BY DEF BundleInv, OwnerInv, States, Live
  <2>2. QED
    BY <2>1 DEF InFlight
<1>8. States'
  <2>1. \A y \in Runs : (bstate[y] = "none" <=> task[y].pc = "idle") /\ (y # x => task'[y] = task[y])
    BY DEF BundleInv, OwnerInv, States
  <2>2. \A y \in Runs : bstate'[y] = "none" <=> task'[y].pc = "idle"
    BY <1>7, <2>1
  <2>3. \A b \in Bundles : Live(b)' => bstate'[b] \in InFlight
    BY <1>2, <1>7 DEF BundleInv, OwnerInv, States
  <2>4. \A a \in Actions : bstate'[HomeOf[a]] = "none" => row'[a] = "none"
    BY <1>7 DEF BundleInv, OwnerInv, States, InFlight
  <2>5. \A a \in Actions, y \in Runs :
          bstate'[HomeOf[a]] \in InFlight /\ y # HomeOf[a] => inv'[y][a] = "none"
    <3>1. \A a \in Actions, y \in Runs : bstate[HomeOf[a]] = "none" => inv[y][a] = "none"
      BY DEF BundleInv, OwnerInv, States, RowInv, RowsBegin, RowBegins
    <3>2. QED
      BY <1>7, <3>1 DEF BundleInv, OwnerInv, States
  <2>6. \A c \in Children : bstate'[c] = "none" => plan'[c] = {} /\ SourcesOf(c)' = {}
    BY <1>7 DEF BundleInv, OwnerInv, States, SourcesOf
  <2>7. QED
    BY <2>2, <2>3, <2>4, <2>5, <2>6 DEF States
<1>9. Plans' /\ ClaimExclusive'
  BY DEF BundleInv, OwnerInv, Plans, ClaimExclusive
<1>10. Sources'
  <2>1. ASSUME NEW c \in Children, NEW s \in SourcesOf(c) PROVE SourceFits(c, s)'
    <3>1. SourceFits(c, s) /\ s \in Bundles
      BY <2>1 DEF BundleInv, OwnerInv, Sources, SourcesOf
    <3>2. s # x /\ bstate'[s] = bstate[s]
      BY <3>1 DEF SourceFits, ActivationCoverage
    <3>3. ActivationCoverage(s, row, slot)'
      BY <3>1, <3>2 DEF SourceFits, ActivationCoverage, SiblingsOf
    <3>4. /\ Live(c)' /\ task'[c].stop # "ambiguous" => Live(c) /\ task[c].stop # "ambiguous"
          /\ task[c].pc = "done" => task'[c].pc = "done"
      BY <1>2 DEF Live
    <3>5. SourcesOf(c)' = SourcesOf(c) /\ SiblingsOf(s)' = SiblingsOf(s)
      BY DEF SourcesOf, SiblingsOf
    <3>6. bstate[c] \in InFlight => bstate'[c] \in InFlight
      BY DEF InFlight
    <3>7. QED
      BY <3>1, <3>3, <3>4, <3>5, <3>6 DEF SourceFits, Outstanding, Inverted
  <2>2. QED
    BY <2>1 DEF Sources, SourcesOf
<1>11. CreatedForSucceeded'
  BY <1>7 DEF BundleInv, OwnerInv, CreatedForSucceeded, TypeOK, InFlight
<1>12. VerdictIsTrue'
  BY <1>7 DEF BundleInv, OwnerInv, VerdictIsTrue, InFlight
<1>13. QED
  BY <1>1, <1>3, <1>4, <1>5, <1>6, <1>8, <1>9, <1>10, <1>11, <1>12 DEF BundleInv, RunInv, OwnerInv

\* The same, for a run that goes on applying or goes on undoing.
LEMMA QuietRun ==
  ASSUME BundleInv, TypeOK', NEW x \in Runs, Live(x), task[x].stop # "ambiguous",
         UNCHANGED <<policy, row, inv, eff, claim, settlement, created, plan, up>>,
         \A y \in Runs \ {x} : task'[y] = task[y] /\ bstate'[y] = bstate[y],
         bstate'[x] = bstate[x] \/ bstate'[x] = "running",
         \A a \in Actions : slot'[a] = slot[a] \/ HomeOf[a] = x,
         task'[x].pc \notin {"idle", "done", "executing"}, task'[x].undo = task[x].undo,
         Shape(x)',
         \A a \in Actions : HomeOf[a] = x /\ Forward(x) => ForwardFits(x, a)',
         \A a \in Actions : HomeOf[a] \in Src(x) /\ Undoing(x) => UndoFits(x, a)',
         RowsHeld', Apart'
  PROVE  BundleInv'
<1>1. x \in Bundles => bstate[x] \in InFlight
  BY DEF BundleInv, OwnerInv, States
<1>2. (Forward(x)' <=> Forward(x)) /\ (Undoing(x)' <=> Undoing(x))
  BY DEF Forward, Undoing, Live
<1>3. bstate'[x] \in InFlight \/ (bstate'[x] = bstate[x] /\ Live(x))
  BY DEF InFlight
<1>4. QED
  BY <1>1, <1>2, <1>3, MemoryStep

LEMMA TaskSet ==
  ASSUME TypeOK, NEW x \in Runs, NEW t \in Tasks, task' = [task EXCEPT ![x] = t]
  PROVE  task' \in [Runs -> Tasks] /\ task'[x] = t /\ \A y \in Runs \ {x} : task'[y] = task[y]
  BY DEF TypeOK

\* When a run's memory changes without a row, what fitted it still does.
LEMMA RunFitsStill ==
  ASSUME BundleInv, NEW x \in Runs, Live(x), UNCHANGED <<policy, row, inv, eff, settlement>>,
         task[x].pc # "executing", task'[x].pc # "executing", task[x].stop = "no",
         task'[x].todo = task[x].todo, task'[x].good = task[x].good
  PROVE  /\ \A a \in Actions : HomeOf[a] = x /\ Forward(x) => ForwardFits(x, a)'
         /\ \A a \in Actions : HomeOf[a] \in Src(x) /\ Undoing(x) => UndoFits(x, a)'
<1>1. \A a \in Actions : ~Doing(x, a) /\ ~Doing(x, a)'
  BY DEF Doing
<1>2. \A a \in Actions : HomeOf[a] = x /\ Forward(x) => ForwardFits(x, a)'
  BY <1>1, RunsAre DEF BundleInv, RunInv, Forwards, ForwardFits
<1>3. \A a \in Actions : HomeOf[a] \in Src(x) /\ Undoing(x) => UndoFits(x, a)'
  BY <1>1, RunsAre DEF BundleInv, RunInv, Undos, UndoFits
<1>4. QED
  BY <1>2, <1>3

LEMMA AcquireStep == ASSUME BundleInv, NEW x \in Runs, Acquire(x) PROVE BundleInv'
<1> USE RunsAre
<1> DEFINE t == [task[x] EXCEPT !.pc = "windowed"]
<1>1. TypeOK /\ task[x] \in Tasks
  BY TaskTyped DEF BundleInv
<1>2. /\ t \in Tasks /\ t.pc = "windowed" /\ t.todo = task[x].todo /\ t.good = task[x].good
      /\ t.undo = task[x].undo /\ t.stop = task[x].stop
  BY <1>1 DEF Tasks, PCs
<1>3. /\ task[x].pc = "admitted" /\ WindowsFree(x) /\ task' = [task EXCEPT ![x] = t]
      /\ UNCHANGED <<bstate, policy, row, inv, slot, eff, claim, settlement, created, plan, up, faults>>
      /\ member' = IF x \in Children THEN member ELSE member \cup {<<d, x>> : d \in DevicesOf(x)}
      /\ window' = [d \in Devices |-> IF d \in DevicesOf(x) THEN x ELSE window[d]]
  BY <1>1 DEF Acquire, rows
<1> HIDE DEF t
<1>4. task' \in [Runs -> Tasks] /\ task'[x] = t /\ \A y \in Runs \ {x} : task'[y] = task[y]
  BY <1>1, <1>2, <1>3, TaskSet
<1>5. Live(x) /\ Shape(x) /\ task[x].stop = "no"
  BY <1>3 DEF BundleInv, RunInv, Shapes, Shape, Live
<1>6. DevicesOf(x) \subseteq Devices
  BY BundleAssumption, <1>1 DEF DevicesOf, ActionsOf, SiblingsOf, TypeOK
<1>7. TypeOK'
  <2>1. window' \in [Devices -> Runs \cup {None, Quarantine}]
    BY <1>1, <1>3 DEF TypeOK
  <2>2. member' \subseteq Devices \X Bundles
    BY <1>1, <1>3, <1>6 DEF TypeOK
  <2>3. QED
    BY <1>1, <1>3, <1>4, <2>1, <2>2 DEF TypeOK
<1>8. Shape(x)'
  BY <1>2, <1>3, <1>4, <1>5 DEF Shape, Live, ActionsOf, SiblingsOf
<1>9. RowsHeld'
  BY <1>3 DEF BundleInv, OwnerInv, RowsHeld, RowHeld, Inverted
<1>10. Apart'
  <2>1. SUFFICES ASSUME NEW b \in Bundles, Forward(b)', task'[b].pc \in {"windowed", "loop", "executing"},
                        NEW d \in DevicesOf(b)
                 PROVE  <<d, b>> \in member' /\ \A z \in Members(d, member') : z = b \/ bstate[z] = "succeeded"
    BY <1>3 DEF Apart, DevicesOf, ActionsOf, SiblingsOf
  <2>2. CASE b = x
    <3>1. <<d, b>> \in member' /\ Members(d, member) \subseteq {b}
      BY <1>3, <2>1, <2>2 DEF WindowsFree, ForwardWindowsFree
    <3>2. \A z \in Members(d, member') : z = b
      BY <1>3, <2>2, <3>1 DEF Members
    <3>3. QED
      BY <3>1, <3>2
  <2>3. CASE b # x
    <3>1. /\ <<d, b>> \in member /\ \A z \in Members(d, member) : z = b \/ bstate[z] = "succeeded"
      BY <1>4, <2>1, <2>3 DEF BundleInv, RunInv, Apart, Forward, Live
    <3>2. x \in Bundles => d \notin DevicesOf(x)
      BY <1>3, <2>3, <3>1 DEF WindowsFree, ForwardWindowsFree, Members
    <3>3. QED
      BY <1>3, <3>1, <3>2 DEF Members
  <2>4. QED
    BY <2>2, <2>3
<1>11. QED
  BY <1>2, <1>3, <1>4, <1>5, <1>7, <1>8, <1>9, <1>10, RunFitsStill, QuietRun DEF Live

LEMMA BeginStep == ASSUME BundleInv, NEW x \in Runs, Begin(x) PROVE BundleInv'
<1> USE RunsAre
<1> DEFINE t == [task[x] EXCEPT !.pc = "loop"]
<1>1. TypeOK /\ task[x] \in Tasks
  BY TaskTyped DEF BundleInv
<1>2. /\ t \in Tasks /\ t.pc = "loop" /\ t.todo = task[x].todo /\ t.good = task[x].good
      /\ t.undo = task[x].undo /\ t.stop = task[x].stop
  BY <1>1 DEF Tasks, PCs
<1>3. /\ task[x].pc = "windowed" /\ task' = [task EXCEPT ![x] = t]
      /\ bstate' = [bstate EXCEPT ![x] = "running"]
      /\ UNCHANGED <<policy, row, inv, slot, eff, window, member, claim, settlement, created, plan, up, faults>>
  BY <1>1 DEF Begin, rows, ownership
<1> HIDE DEF t
<1>4. task' \in [Runs -> Tasks] /\ task'[x] = t /\ \A y \in Runs \ {x} : task'[y] = task[y]
  BY <1>1, <1>2, <1>3, TaskSet
<1>5. Live(x) /\ Shape(x) /\ task[x].stop = "no"
  BY <1>3 DEF BundleInv, RunInv, Shapes, Shape, Live
<1>6. /\ bstate' \in [Runs -> BStates] /\ bstate'[x] = "running"
      /\ \A y \in Runs \ {x} : bstate'[y] = bstate[y]
  BY <1>1, <1>3 DEF TypeOK, BStates, InFlight
<1>7. TypeOK'
  BY <1>1, <1>3, <1>4, <1>6 DEF TypeOK
<1>8. Shape(x)'
  BY <1>2, <1>3, <1>4, <1>5 DEF Shape, Live, ActionsOf, SiblingsOf
<1>9. \A b \in Bundles : (bstate'[b] = "succeeded" <=> bstate[b] = "succeeded")
  BY <1>5, <1>6 DEF BundleInv, OwnerInv, States, InFlight
<1>10. RowsHeld'
  BY <1>3, <1>9 DEF BundleInv, OwnerInv, RowsHeld, RowHeld, Inverted
<1>11. Apart'
  <2>1. \A b \in Bundles : Forward(b)' /\ task'[b].pc \in {"windowed", "loop", "executing"} =>
                           Forward(b) /\ task[b].pc \in {"windowed", "loop", "executing"}
    BY <1>2, <1>3, <1>4 DEF Forward, Live
  <2>2. QED
    BY <1>3, <1>9, <2>1 DEF BundleInv, RunInv, Apart, DevicesOf, ActionsOf, SiblingsOf, Members
<1>12. QED
  BY <1>2, <1>3, <1>4, <1>5, <1>6, <1>7, <1>8, <1>10, <1>11, RunFitsStill, QuietRun DEF Live

\* The state before a destructive action, or the final one, could not be proved.
LEMMA ProofLostStep == ASSUME BundleInv, NEW x \in Runs, ReproofLost(x) \/ FinalStateLost(x) PROVE BundleInv'
<1> USE RunsAre
<1> DEFINE t == [task[x] EXCEPT !.stop = "lost", !.pc = "closing"]
<1>1. TypeOK /\ task[x] \in Tasks
  BY TaskTyped DEF BundleInv
<1>2. /\ t \in Tasks /\ t.pc = "closing" /\ t.todo = task[x].todo /\ t.good = task[x].good
      /\ t.undo = task[x].undo /\ t.stop = "lost"
  BY <1>1 DEF Tasks, PCs
<1>3. /\ task[x].pc \in {"loop", "closing"} /\ task[x].stop = "no"
      /\ task' = [task EXCEPT ![x] = t]
      /\ UNCHANGED <<bstate, policy, row, inv, slot, eff, window, member, claim, settlement, created, plan, up>>
      /\ faults' = faults - 1 /\ faults > 0 /\ ~(x \in Bundles /\ task[x].undo)
  <2>1. CASE ReproofLost(x)
    BY <1>1, <2>1, InHand DEF ReproofLost, rows, ownership, Fault
  <2>2. CASE FinalStateLost(x)
    <3>1. task[x].pc = "closing"
      BY <2>2 DEF FinalStateLost, RanThrough
    <3>2. [task[x] EXCEPT !.stop = "lost"] = t
      BY <1>1, <3>1 DEF Tasks
    <3>3. QED
      BY <1>1, <2>2, <3>1, <3>2 DEF FinalStateLost, RanThrough, rows, ownership, Fault
  <2>3. QED
    BY <2>1, <2>2
<1> HIDE DEF t
<1>4. task' \in [Runs -> Tasks] /\ task'[x] = t /\ \A y \in Runs \ {x} : task'[y] = task[y]
  BY <1>1, <1>2, <1>3, TaskSet
<1>5. Live(x) /\ Shape(x)
  BY <1>3 DEF BundleInv, RunInv, Shapes, Shape, Live
<1>6. TypeOK'
  BY <1>1, <1>3, <1>4, BundleAssumption DEF TypeOK
<1>7. Shape(x)'
  BY <1>2, <1>3, <1>4, <1>5 DEF Shape, Live, ActionsOf, SiblingsOf
<1>8. RowsHeld'
  BY <1>3 DEF BundleInv, OwnerInv, RowsHeld, RowHeld, Inverted
<1>9. Apart'
  <2>1. \A b \in Bundles : Forward(b)' /\ task'[b].pc \in {"windowed", "loop", "executing"} =>
                           Forward(b) /\ task[b].pc \in {"windowed", "loop", "executing"}
    BY <1>2, <1>3, <1>4 DEF Forward, Live
  <2>2. QED
    BY <1>3, <2>1 DEF BundleInv, RunInv, Apart, DevicesOf, ActionsOf, SiblingsOf, Members
<1>10. QED
  BY <1>2, <1>3, <1>4, <1>5, <1>6, <1>7, <1>8, <1>9, RunFitsStill, QuietRun DEF Live

-----------------------------------------------------------------------------
(* A run works on the action in hand *)

\* Only the row of a, the inverse of a by x, and a itself on its router change.
OnlyRow(x, a) ==
    /\ UNCHANGED <<bstate, policy, member, claim, settlement, created, plan, up>>
    /\ \A y \in Runs \ {x} : task'[y] = task[y]
    /\ \A e \in Actions \ {a} : row'[e] = row[e] /\ eff'[e] = eff[e] /\ slot'[e] = slot[e]
    /\ \A y \in Runs, e \in Actions : y # x \/ e # a => inv'[y][e] = inv[y][e]
    /\ task[x].undo => row'[a] = row[a] /\ slot'[a] = slot[a] /\ row[a] # "none"
    /\ task[x].undo /\ eff[a] = "off" => eff'[a] = "off"
    /\ ~task[x].undo => inv'[x][a] = inv[x][a]
    \* an inverse is started only where none succeeded, and ended only where one is open
    /\ task[x].undo => \/ row[a] = "changed" /\ \A y \in Runs : inv[y][a] \notin Succeeded
                       \/ inv[x][a] = "inflight"

LEMMA RowStep ==
  ASSUME BundleInv, TypeOK', NEW x \in Runs, NEW a \in Actions, a = NextAction(x),
         task[x].pc \in {"loop", "executing"}, OnlyRow(x, a),
         task'[x].pc \notin {"idle", "done"}, task'[x].undo = task[x].undo,
         Shape(x)',
         \A e \in Actions : HomeOf[e] = x /\ Forward(x) => ForwardFits(x, e)',
         \A e \in Actions : HomeOf[e] \in Src(x) /\ Undoing(x) => UndoFits(x, e)',
         Alone', InflightAlone', RowBegins(a)', RowHeld(a)',
         eff'[a] # "off" => row'[a] \in {"inflight", "changed", "uncertain"} /\ ~Inverted(a, inv')
  PROVE  BundleInv'
<1> USE RunsAre DEF OnlyRow
<1>1. /\ a \in task[x].todo /\ a \in ActionsOf(x) /\ HomeOf[a] \in Src(x)
      /\ Live(x) /\ task[x].stop = "no" /\ (~task[x].undo => x \in Bundles /\ HomeOf[a] = x)
  BY InHand
<1>2. /\ Live(x)' /\ (Forward(x)' <=> Forward(x)) /\ (Undoing(x)' <=> Undoing(x))
      /\ \A y \in Runs : Src(y)' = Src(y) /\ ActionsOf(y)' = ActionsOf(y)
      /\ \A y \in Runs \ {x} : /\ NextAction(y)' = NextAction(y) /\ (Live(y)' <=> Live(y))
                               /\ (Forward(y)' <=> Forward(y)) /\ (Undoing(y)' <=> Undoing(y))
                               /\ \A e \in Actions : Doing(y, e)' <=> Doing(y, e)
  BY <1>1 DEF Live, Forward, Undoing, Doing, Src, SourcesOf, ActionsOf, NextAction
<1>3. \A e \in Actions \ {a} : Inverted(e, inv') <=> Inverted(e, inv)
  BY DEF Inverted
<1>4. RowInv'
  <2>1. RowsBegin'
    BY DEF BundleInv, RowInv, RowsBegin, RowBegins
  <2>2. ChangeIsOwned'
    BY <1>3 DEF BundleInv, RowInv, ChangeIsOwned
  <2>3. Inverses'
    <3>1. \A y \in Runs, e \in Actions : inv'[y][e] # "none" => e \in ActionsOf(y)
      BY <1>1 DEF BundleInv, RowInv, Inverses
    <3>2. QED
      BY <1>2, <3>1 DEF Inverses
  <2>4. QED
    BY <2>1, <2>2, <2>3 DEF RowInv
<1>5. Shapes'
  <2>1. \A y \in Runs \ {x} : Shape(y)'
    BY <1>2 DEF BundleInv, RunInv, Shapes, Shape
  <2>2. QED
    BY <2>1 DEF Shapes
<1>6. Forwards'
  <2>1. ASSUME NEW y \in Bundles, NEW e \in Actions, HomeOf[e] = y, Forward(y), y # x PROVE ForwardFits(y, e)'
    <3>1. e # a
      BY <1>1, <2>1, SourcesApart DEF Forward, Src
    <3>2. QED
      BY <1>2, <2>1, <3>1 DEF BundleInv, RunInv, Forwards, ForwardFits
  <2>2. QED
    BY <1>2, <2>1 DEF Forwards
<1>7. Undos'
  <2>1. ASSUME NEW y \in Runs, NEW e \in Actions, HomeOf[e] \in Src(y), Undoing(y), y # x PROVE UndoFits(y, e)'
    <3>1. UndoFits(y, e)
      BY <2>1 DEF BundleInv, RunInv, Undos
    <3>2. CASE task[y].stop = "ambiguous"
      <4>1. task[y].pc # "executing"
        BY <2>1, <3>2 DEF BundleInv, RunInv, Shapes, Shape, Undoing
      <4>2. QED
        BY <1>2, <2>1, <3>2, <4>1 DEF UndoFits, Doing
    <3>3. CASE task[y].stop # "ambiguous"
      <4>1. e # a
        BY <1>1, <2>1, <3>3, SourcesApart DEF Undoing
      <4>2. QED
        BY <1>2, <2>1, <3>1, <4>1 DEF UndoFits
    <3>4. QED
      BY <3>2, <3>3
  <2>2. QED
    BY <1>2, <2>1 DEF Undos
<1>8. Apart'
  <2>1. \A b \in Bundles : Forward(b)' /\ task'[b].pc \in {"windowed", "loop", "executing"} =>
                           Forward(b) /\ task[b].pc \in {"windowed", "loop", "executing"}
    BY <1>2
  <2>2. QED
    BY <2>1 DEF BundleInv, RunInv, Apart, DevicesOf, ActionsOf, SiblingsOf, Members
<1>9. States'
  <2>1. \A y \in Runs : bstate'[y] = "none" <=> task'[y].pc = "idle"
    BY <1>1 DEF BundleInv, OwnerInv, States, Live
  <2>2. \A b \in Bundles : Live(b)' => bstate'[b] \in InFlight
    BY <1>1, <1>2 DEF BundleInv, OwnerInv, States
  <2>3. \A e \in Actions : bstate'[HomeOf[e]] = "none" => row'[e] = "none"
    <3>1. bstate[HomeOf[a]] = "none" => row'[a] = "none"
      BY <1>1 DEF BundleInv, OwnerInv, States, InFlight
    <3>2. QED
      BY <3>1 DEF BundleInv, OwnerInv, States
  <2>4. \A e \in Actions, y \in Runs : bstate'[HomeOf[e]] \in InFlight /\ y # HomeOf[e] => inv'[y][e] = "none"
    <3>1. x # HomeOf[a] => bstate[HomeOf[a]] \notin InFlight
      BY <1>1 DEF Src, BundleInv, OwnerInv, Sources, SourceFits, ActivationCoverage
    <3>2. QED
      BY <3>1 DEF BundleInv, OwnerInv, States
  <2>5. \A c \in Children : bstate'[c] = "none" => plan'[c] = {} /\ SourcesOf(c)' = {}
    BY DEF BundleInv, OwnerInv, States, SourcesOf
  <2>6. QED
    BY <2>1, <2>2, <2>3, <2>4, <2>5 DEF States
<1>10. Plans' /\ ClaimExclusive' /\ CreatedForSucceeded'
  BY DEF BundleInv, OwnerInv, Plans, ClaimExclusive, CreatedForSucceeded
<1>11. RowsHeld'
  BY <1>3 DEF BundleInv, OwnerInv, RowsHeld, RowHeld
<1>12. VerdictIsTrue'
  <2>1. CASE task[x].undo
    <3>1. \A e \in Actions : eff[e] = "off" => eff'[e] = "off"
      BY <2>1
    <3>2. QED
      BY <3>1 DEF BundleInv, OwnerInv, VerdictIsTrue, TypeOK
  <2>2. CASE ~task[x].undo
    <3>1. bstate[HomeOf[a]] \in InFlight
      BY <1>1, <2>2 DEF BundleInv, OwnerInv, States
    <3>2. \A c \in Children : a \notin plan[c]
      BY <1>1, <2>2, DrivenIsNoSource DEF BundleInv, OwnerInv, Plans, SourcesOf
    <3>3. QED
      BY <3>1, <3>2 DEF BundleInv, OwnerInv, VerdictIsTrue, InFlight, TypeOK
  <2>3. QED
    BY <2>1, <2>2
<1>13. Sources'
  <2>1. ASSUME NEW c \in Children, NEW s \in SourcesOf(c) PROVE SourceFits(c, s)'
    <3>1. SourceFits(c, s) /\ s \in Bundles
      BY <2>1 DEF BundleInv, OwnerInv, Sources, SourcesOf
    <3>2. ~task[x].undo => HomeOf[a] # s
      BY <1>1, <2>1, DrivenIsNoSource
    <3>3. \A e \in SiblingsOf(s) : row'[e] = row[e] /\ slot'[e] = slot[e]
      BY <3>2 DEF SiblingsOf
    <3>4. ActivationCoverage(s, row, slot)'
      BY <3>1, <3>3 DEF SourceFits, ActivationCoverage, SiblingsOf
    <3>5. /\ Live(c)' /\ task'[c].stop # "ambiguous" => Live(c) /\ task[c].stop # "ambiguous"
          /\ task[c].pc = "done" => task'[c].pc = "done" /\ c # x
      BY <1>1, <1>2 DEF Live
    <3>6. SourcesOf(c)' = SourcesOf(c) /\ SiblingsOf(s)' = SiblingsOf(s) /\ SiblingsOf(s) \subseteq Actions
      BY DEF SourcesOf, SiblingsOf
    <3>7. \A e \in SiblingsOf(s) : Inverted(e, inv) => Inverted(e, inv')
      <4>1. CASE a \in SiblingsOf(s)
        <5>1. task[x].undo
          BY <3>2, <4>1 DEF SiblingsOf
        <5>2. inv[x][a] \notin Succeeded
          BY <5>1 DEF Succeeded
        <5>3. Inverted(a, inv) => Inverted(a, inv')
          BY <5>2 DEF Inverted, Succeeded
        <5>4. QED
          BY <1>3, <3>6, <5>3
      <4>2. CASE a \notin SiblingsOf(s)
        BY <1>3, <3>6, <4>2
      <4>3. QED
        BY <4>1, <4>2
    <3>8. Outstanding(SiblingsOf(s), row', inv') \subseteq Outstanding(SiblingsOf(s), row, inv)
      BY <3>3, <3>7 DEF Outstanding
    <3>9. settlement[c][s] = "restored" =>
            /\ Outstanding(SiblingsOf(s), row', inv') = {}
            /\ \A e \in SiblingsOf(s), y \in Runs : inv'[y][e] \notin Ambiguous
      <4>1. SUFFICES ASSUME settlement[c][s] = "restored"
                     PROVE  /\ Outstanding(SiblingsOf(s), row', inv') = {}
                            /\ \A e \in SiblingsOf(s), y \in Runs : inv'[y][e] \notin Ambiguous
        OBVIOUS
      <4>2. /\ Outstanding(SiblingsOf(s), row, inv) = {}
            /\ \A e \in SiblingsOf(s), y \in Runs : inv[y][e] \notin Ambiguous
        BY <3>1, <4>1 DEF SourceFits
      <4>3. a \notin SiblingsOf(s)
        BY <3>2, <4>2 DEF Outstanding, Inverted, Succeeded, Ambiguous, SiblingsOf
      <4>4. QED
        BY <3>6, <3>8, <4>2, <4>3
    <3>10. settlement[c][s] = "known_no_write" =>
            task'[c].pc = "done" /\ \A e \in Actions : inv'[c][e] \notin Ambiguous
      BY <3>1, <3>5 DEF SourceFits
    <3>11. /\ \E e \in SiblingsOf(s) : row'[e] # "none"
           /\ \A e \in SiblingsOf(s) : row'[e] \notin Ambiguous
      BY <3>1, <3>3 DEF SourceFits
    <3>12. /\ settlement[c][s] \in {"active", "blocked"} => Outstanding(SiblingsOf(s), row', inv') \subseteq plan[c]
           /\ Live(c)' /\ task'[c].stop # "ambiguous" => settlement[c][s] = "active"
           /\ settlement[c][s] = "active" => bstate'[c] \in InFlight
      BY <3>1, <3>5, <3>8 DEF SourceFits
    <3>13. QED
      BY <3>1, <3>4, <3>6, <3>9, <3>10, <3>11, <3>12 DEF SourceFits
  <2>2. QED
    BY <2>1 DEF Sources, SourcesOf
<1>14. QED
  BY <1>4, <1>5, <1>6, <1>7, <1>8, <1>9, <1>10, <1>11, <1>12, <1>13 DEF BundleInv, RunInv, OwnerInv

LEMMA SetRowTyped ==
  ASSUME TypeOK, NEW x \in Runs, NEW a \in Actions, NEW v \in RowStatus, SetRow(x, a, v)
  PROVE  /\ row' \in [Actions -> RowStatus] /\ inv' \in [Runs -> [Actions -> RowStatus]]
         /\ \A e \in Actions \ {a} : row'[e] = row[e]
         /\ \A y \in Runs, e \in Actions : y # x \/ e # a => inv'[y][e] = inv[y][e]
         /\ task[x].undo => row' = row /\ inv'[x][a] = v
         /\ ~task[x].undo => inv' = inv /\ row'[a] = v
<1>1. CASE task[x].undo
  <2>1. row' = row /\ inv' = [inv EXCEPT ![x] = [inv[x] EXCEPT ![a] = v]]
    BY <1>1 DEF SetRow
  <2>2. inv \in [Runs -> [Actions -> RowStatus]] /\ inv[x] \in [Actions -> RowStatus]
        /\ row \in [Actions -> RowStatus]
    BY DEF TypeOK
  <2>3. [inv[x] EXCEPT ![a] = v] \in [Actions -> RowStatus]
    BY <2>2
  <2>4. inv' \in [Runs -> [Actions -> RowStatus]]
    BY <2>1, <2>2, <2>3
  <2>5. inv'[x] = [inv[x] EXCEPT ![a] = v] /\ \A y \in Runs \ {x} : inv'[y] = inv[y]
    BY <2>1, <2>2
  <2>6. inv'[x][a] = v /\ \A e \in Actions \ {a} : inv'[x][e] = inv[x][e]
    BY <2>2, <2>5
  <2>7. QED
    BY <1>1, <2>1, <2>2, <2>4, <2>5, <2>6
<1>2. CASE ~task[x].undo
  BY <1>2 DEF SetRow, TypeOK
<1>3. QED
  BY <1>1, <1>2

\* What becomes of the router while the row is open.
Written(undo, g, v, w) ==
    LET from == IF undo THEN "on" ELSE "off"
        goal == IF undo THEN "off" ELSE "on" IN
    \/ g = "changed" /\ v = from /\ w = goal
    \/ g = "noop" /\ (undo => v = "off") /\ w = v
    \/ g \in {"refused", "cancelled"} /\ w = v
    \/ g = "uncertain" /\ (w = v \/ (v = from /\ w \in {goal, "partial"}))

\* The executor got g, and a is now w on its router.
Ran(x, a, g, w) ==
    /\ g \in Outcomes /\ w \in {"off", "on", "partial"}
    /\ task' = [task EXCEPT ![x].pc = "executing", ![x].got = g]
    /\ eff' = [eff EXCEPT ![a] = w] /\ Written(task[x].undo, g, eff[a], w)

LEMMA ExecuteEffects ==
  ASSUME BundleInv, NEW x \in Runs, Execute(x), NEW a, a = NextAction(x)
  PROVE  /\ \E g, w : Ran(x, a, g, w)
         /\ task[x].pc = "loop" /\ SlotFree(x, a) /\ SetRow(x, a, "inflight") /\ faults' \in 0 .. MaxFaults
         /\ UNCHANGED <<bstate, policy, slot, window, member, claim, settlement, created, plan, up>>
<1>1. a \in Actions /\ eff[a] \in {"off", "on", "partial"} /\ eff \in [Actions -> {"off", "on", "partial"}]
  BY InHand DEF Execute, BundleInv, TypeOK
<1>2. task[x].pc = "loop" /\ SlotFree(x, a) /\ SetRow(x, a, "inflight")
      /\ UNCHANGED <<bstate, policy, slot, window, member, claim, settlement, created, plan, up>>
  BY DEF Execute, ownership
<1>3. faults' \in 0 .. MaxFaults
  BY BundleAssumption DEF Execute, Fault, BundleInv, TypeOK
<1> DEFINE from == IF task[x].undo THEN "on" ELSE "off"
           goal == IF task[x].undo THEN "off" ELSE "on"
           Got(g) == task' = [task EXCEPT ![x].pc = "executing", ![x].got = g]
<1>4. \/ eff[a] = from /\ Got("changed") /\ eff' = [eff EXCEPT ![a] = goal]
      \/ (task[x].undo => eff[a] = "off") /\ Got("noop") /\ eff' = eff
      \/ Got("refused") /\ eff' = eff
      \/ Got("cancelled") /\ eff' = eff
      \/ /\ Got("uncertain")
         /\ \E v \in {eff[a]} \cup (IF eff[a] = from THEN {goal, "partial"} ELSE {}) :
               eff' = [eff EXCEPT ![a] = v]
  BY DEF Execute, Fault
<1>5. eff = [eff EXCEPT ![a] = eff[a]]
  BY <1>1
<1>6. CASE eff[a] = from /\ Got("changed") /\ eff' = [eff EXCEPT ![a] = goal]
  BY <1>2, <1>3, <1>6 DEF Written, Ran, Outcomes
<1>7. CASE (task[x].undo => eff[a] = "off") /\ Got("noop") /\ eff' = eff
  BY <1>1, <1>2, <1>3, <1>5, <1>7 DEF Written, Ran, Outcomes
<1>8. CASE eff' = eff /\ (Got("refused") \/ Got("cancelled"))
  BY <1>1, <1>2, <1>3, <1>5, <1>8 DEF Written, Ran, Outcomes
<1>9. CASE /\ Got("uncertain")
           /\ \E v \in {eff[a]} \cup (IF eff[a] = from THEN {goal, "partial"} ELSE {}) :
                 eff' = [eff EXCEPT ![a] = v]
  <2>1. PICK v \in {eff[a]} \cup (IF eff[a] = from THEN {goal, "partial"} ELSE {}) : eff' = [eff EXCEPT ![a] = v]
    BY <1>9
  <2>2. v \in {"off", "on", "partial"} /\ (v = eff[a] \/ (eff[a] = from /\ v \in {goal, "partial"}))
    <3>1. CASE eff[a] = from
      <4>1. v \in {eff[a], goal, "partial"}
        BY <2>1, <3>1
      <4>2. goal \in {"off", "on"}
        OBVIOUS
      <4>3. QED
        BY <1>1, <3>1, <4>1, <4>2
    <3>2. CASE eff[a] # from
      <4>1. v = eff[a]
        BY <2>1, <3>2
      <4>2. QED
        BY <1>1, <4>1
    <3>3. QED
      BY <3>1, <3>2
  <2>3. QED
    BY <1>2, <1>3, <1>9, <2>1, <2>2 DEF Written, Ran, Outcomes
<1>10. QED
  BY <1>4, <1>6, <1>7, <1>8, <1>9

LEMMA ExecuteStep == ASSUME BundleInv, NEW x \in Runs, Execute(x) PROVE BundleInv'
<1> USE RunsAre
<1>1. PICK a : a = NextAction(x)
  OBVIOUS
<1>0. PICK g, w : Ran(x, a, g, w)
  BY <1>1, ExecuteEffects
<1>2. /\ g \in Outcomes /\ w \in {"off", "on", "partial"}
      /\ task' = [task EXCEPT ![x].pc = "executing", ![x].got = g]
      /\ eff' = [eff EXCEPT ![a] = w] /\ Written(task[x].undo, g, eff[a], w)
  BY <1>0 DEF Ran
<1>3. /\ task[x].pc = "loop" /\ SlotFree(x, a) /\ SetRow(x, a, "inflight") /\ faults' \in 0 .. MaxFaults
      /\ UNCHANGED <<bstate, policy, slot, window, member, claim, settlement, created, plan, up>>
  BY <1>1, ExecuteEffects
<1> DEFINE t == [task[x] EXCEPT !.pc = "executing", !.got = g]
<1>4. TypeOK /\ task[x] \in Tasks
  BY TaskTyped DEF BundleInv
<1>5. /\ t \in Tasks /\ t.pc = "executing" /\ t.todo = task[x].todo /\ t.good = task[x].good
      /\ t.undo = task[x].undo /\ t.stop = task[x].stop /\ t.got = g
  BY <1>2, <1>4 DEF Tasks, PCs, RowStatus, Outcomes
<1>6. task' = [task EXCEPT ![x] = t]
  BY <1>2, <1>4 DEF TypeOK
<1> HIDE DEF t
<1>7. task' \in [Runs -> Tasks] /\ task'[x] = t /\ \A y \in Runs \ {x} : task'[y] = task[y]
  BY <1>4, <1>5, <1>6, TaskSet
<1>8. /\ a \in task[x].todo /\ a \in Actions /\ a \in ActionsOf(x) /\ HomeOf[a] \in Src(x)
      /\ Live(x) /\ task[x].stop = "no" /\ up /\ (~task[x].undo => x \in Bundles /\ HomeOf[a] = x)
  BY <1>1, <1>3, InHand
<1>9. /\ row' \in [Actions -> RowStatus] /\ inv' \in [Runs -> [Actions -> RowStatus]]
      /\ \A e \in Actions \ {a} : row'[e] = row[e]
      /\ \A y \in Runs, e \in Actions : y # x \/ e # a => inv'[y][e] = inv[y][e]
      /\ task[x].undo => row' = row /\ inv'[x][a] = "inflight"
      /\ ~task[x].undo => inv' = inv /\ row'[a] = "inflight"
  BY <1>3, <1>4, <1>8, SetRowTyped DEF RowStatus
<1>10. eff' \in [Actions -> {"off", "on", "partial"}] /\ eff'[a] = w /\ \A e \in Actions \ {a} : eff'[e] = eff[e]
  BY <1>2, <1>4, <1>8 DEF TypeOK
<1>11. TypeOK'
  BY <1>3, <1>4, <1>7, <1>9, <1>10 DEF TypeOK
<1>12. task[x].undo => row[a] = "changed" /\ \A y \in Runs : inv[y][a] \notin {"inflight"} \cup Succeeded
  BY <1>3 DEF SlotFree
<1>13. OnlyRow(x, a)
  <2>1. task[x].undo /\ eff[a] = "off" => w = "off"
    BY <1>2 DEF Written
  <2>2. QED
    BY <1>3, <1>7, <1>9, <1>10, <1>12, <2>1 DEF OnlyRow
<1>14. NextAction(x)' = a /\ (\A e \in Actions : Doing(x, e)' <=> e = a) /\ \A e \in Actions : ~Doing(x, e)
  BY <1>1, <1>3, <1>5, <1>7 DEF NextAction, Doing
<1>15. Shape(x)'
  <2>1. Shape(x) /\ Live(x) /\ task'[x].got \in Outcomes /\ ActionsOf(x)' = ActionsOf(x) /\ up'
    BY <1>2, <1>3, <1>5, <1>7, <1>8 DEF BundleInv, RunInv, Shapes, ActionsOf, SiblingsOf
  <2>2. QED
    BY <1>3, <1>5, <1>7, <2>1 DEF Shape, Outcomes
<1>16. ~task[x].undo => row[a] = "none" /\ eff[a] = "off" /\ \A y \in Runs : inv[y][a] = "none"
  BY <1>8, <1>14 DEF BundleInv, RunInv, RowInv, Forwards, ForwardFits, Forward, RowsBegin, RowBegins
<1>17. ASSUME NEW e \in Actions, HomeOf[e] = x, Forward(x) PROVE ForwardFits(x, e)'
  <2>1. ForwardFits(x, e) /\ ~task[x].undo /\ x \in Bundles
    BY <1>8, <1>17 DEF BundleInv, RunInv, Forwards, Forward
  <2>2. CASE e = a
    <3>1. /\ g = "changed" => w = "on"
          /\ g \in {"noop", "refused", "cancelled"} => w = "off"
      BY <1>2, <1>16, <2>1 DEF Written
    <3>2. QED
      BY <1>5, <1>7, <1>8, <1>9, <1>10, <1>14, <1>16, <2>1, <2>2, <3>1 DEF ForwardFits
  <2>3. CASE e # a
    BY <1>3, <1>5, <1>7, <1>9, <1>10, <1>14, <2>1, <2>3 DEF ForwardFits
  <2>4. QED
    BY <2>2, <2>3
<1>18. ASSUME NEW e \in Actions, HomeOf[e] \in Src(x), Undoing(x) PROVE UndoFits(x, e)'
  <2>1. UndoFits(x, e) /\ task[x].undo
    BY <1>18 DEF BundleInv, RunInv, Undos, Undoing
  <2>2. CASE e = a
    <3>1. g \in Succeeded => w = "off"
      BY <1>2, <2>1 DEF Written, Succeeded
    <3>2. inv'[x][a] # "uncertain"
      BY <1>9, <2>1
    <3>3. QED
      BY <1>5, <1>7, <1>8, <1>9, <1>10, <2>1, <2>2, <3>1, <3>2 DEF UndoFits
  <2>3. CASE e # a
    BY <1>5, <1>7, <1>9, <1>10, <1>14, <2>1, <2>3 DEF UndoFits
  <2>4. QED
    BY <2>2, <2>3
<1>19. Alone'
  <2>1. ASSUME NEW y \in Runs, NEW e \in Actions, Doing(y, e), y # x PROVE DeviceOf[e] # DeviceOf[a]
    <3>1. task[y].pc = "executing" /\ e = NextAction(y)
      BY <2>1 DEF Doing
    <3>2. HomeOf[e] \in Src(y) /\ Live(y) /\ (~task[y].undo => y \in Bundles /\ HomeOf[e] = y)
      BY <3>1, InHand
    <3>3. row[e] = "inflight" \/ inv[y][e] = "inflight"
      <4>1. CASE task[y].undo
        BY <2>1, <3>2, <4>1 DEF BundleInv, RunInv, Undos, Undoing, UndoFits
      <4>2. CASE ~task[y].undo
        BY <2>1, <3>2, <4>2 DEF BundleInv, RunInv, Forwards, Forward, ForwardFits
      <4>3. QED
        BY <4>1, <4>2
    <3>4. QED
      BY <1>3, <2>1, <3>3 DEF SlotFree, DeviceBusy
  <2>2. \A y \in Runs \ {x} : \A e \in Actions : Doing(y, e)' <=> Doing(y, e)
    BY <1>7 DEF Doing, NextAction
  <2>3. QED
    BY <1>14, <2>1, <2>2 DEF BundleInv, RunInv, Alone
<1>20. InflightAlone'
  <2>1. CASE task[x].undo
    BY <1>9, <1>10, <1>12, <2>1 DEF BundleInv, RowInv, InflightAlone
  <2>2. CASE ~task[x].undo
    <3>1. \A e \in Actions : HomeOf[e] = x => row[e] # "uncertain"
      BY <1>8, <1>14, <2>2 DEF BundleInv, RunInv, Forwards, Forward, ForwardFits
    <3>2. QED
      BY <1>8, <1>9, <1>10, <2>2, <3>1 DEF BundleInv, RowInv, InflightAlone
  <2>3. QED
    BY <2>1, <2>2
<1>21. RowBegins(a)'
  BY <1>9, <1>12 DEF RowBegins
<1>22. ~Inverted(a, inv')
  <2>1. CASE task[x].undo
    <3>1. \A y \in Runs : inv'[y][a] \notin {"changed", "noop"}
      BY <1>8, <1>9, <1>12, <2>1 DEF Succeeded
    <3>2. QED
      BY <3>1 DEF Inverted
  <2>2. CASE ~task[x].undo
    BY <1>9, <1>16, <2>2 DEF Inverted
  <2>3. QED
    BY <2>1, <2>2
<1>23. row'[a] \in {"inflight", "changed", "uncertain"}
  BY <1>9, <1>12
<1>24. RowHeld(a)'
  <2>1. CASE task[x].undo
    <3>1. ~Inverted(a, inv) /\ row[a] = "changed"
      BY <1>12, <2>1 DEF Inverted, Succeeded
    <3>2. bstate[HomeOf[a]] # "succeeded" => <<DeviceOf[a], HomeOf[a]>> \in member
      BY <1>8, <3>1 DEF BundleInv, OwnerInv, RowsHeld, RowHeld
    <3>3. QED
      BY <1>3, <3>2 DEF RowHeld
  <2>2. CASE ~task[x].undo
    <3>1. DeviceOf[a] \in DevicesOf(x) /\ Forward(x)
      BY <1>8, <2>2 DEF DevicesOf, Forward
    <3>2. <<DeviceOf[a], x>> \in member
      BY <1>3, <1>8, <2>2, <3>1 DEF BundleInv, RunInv, Apart
    <3>3. QED
      BY <1>3, <1>8, <2>2, <3>2 DEF RowHeld
  <2>3. QED
    BY <2>1, <2>2
<1>25. QED
  BY <1>1, <1>3, <1>5, <1>7, <1>8, <1>11, <1>13, <1>15, <1>17, <1>18, <1>19, <1>20, <1>21, <1>22,
     <1>23, <1>24, RowStep

LEMMA Stops ==
  ASSUME NEW x \in Runs, NEW s, NEW lost \in BOOLEAN
  PROVE  /\ StopReason(x, s, lost) \in {"no", "failed", "ambiguous"}
         /\ StopReason(x, s, lost) # "ambiguous" => ~lost /\ s \notin Ambiguous
         /\ StopReason(x, s, lost) = "no" =>
              (s \in Succeeded \/ (x \in Bundles /\ ~task[x].undo /\ policy[x] = "continue"))
<1>1. CASE lost \/ s \in Ambiguous
  BY <1>1 DEF StopReason, Ambiguous, Succeeded
<1>2. CASE ~lost /\ s \notin Ambiguous /\ s \in Succeeded
  BY <1>2 DEF StopReason
<1>3. CASE ~lost /\ s \notin Ambiguous /\ s \notin Succeeded
  BY <1>3 DEF StopReason
<1>4. QED
  BY <1>1, <1>2, <1>3

\* What a runner remembers after an iteration.
LEMMA ReportedTask ==
  ASSUME TypeOK, NEW x \in Runs, NEW a \in Actions, NEW s, NEW lost \in BOOLEAN, Reported(x, a, s, lost)
  PROVE  /\ task' \in [Runs -> Tasks] /\ \A y \in Runs \ {x} : task'[y] = task[y]
         /\ task'[x].undo = task[x].undo /\ task'[x].todo = task[x].todo \ {a}
         /\ task'[x].stop = StopReason(x, s, lost)
         /\ task'[x].good \subseteq task[x].good \cup {a} /\ task[x].good \subseteq task'[x].good
         /\ s \in Succeeded /\ ~lost => a \in task'[x].good
         /\ task'[x].pc = IF StopReason(x, s, lost) # "no" \/ task[x].todo \ {a} = {} THEN "closing" ELSE "loop"
<1> DEFINE stop == StopReason(x, s, lost)
           todo == task[x].todo \ {a}
           ok == s \in Succeeded /\ ~lost
           good == IF ok THEN task[x].good \cup {a} ELSE task[x].good
           pc == IF stop # "no" \/ todo = {} THEN "closing" ELSE "loop"
           failed == task[x].failed \/ ~ok
           t == [task[x] EXCEPT !.todo = todo, !.got = "none", !.stop = stop, !.good = good,
                                !.failed = failed, !.pc = pc]
<1>1. task[x] \in Tasks
  BY TaskTyped
<1>2. task' = [task EXCEPT ![x] = t]
  BY Zenon DEF Reported
<1>3. /\ stop \in {"no", "failed", "ambiguous", "lost"} /\ pc \in PCs /\ todo \in SUBSET Actions
      /\ good \in SUBSET Actions /\ failed \in BOOLEAN /\ "none" \in RowStatus
  BY <1>1, Stops DEF Tasks, PCs, RowStatus
<1> HIDE DEF stop, todo, good, pc, failed
<1>4. /\ t \in Tasks /\ t.undo = task[x].undo /\ t.todo = todo /\ t.stop = stop /\ t.good = good /\ t.pc = pc
  BY <1>1, <1>3 DEF Tasks
<1> HIDE DEF t
<1>5. task' \in [Runs -> Tasks] /\ task'[x] = t /\ \A y \in Runs \ {x} : task'[y] = task[y]
  BY <1>2, <1>4, TaskSet
<1>6. QED
  BY <1>4, <1>5 DEF stop, todo, good, pc

\* The row of the action in hand is given status v, and s is what the loop is told.
LEMMA RowReported ==
  ASSUME BundleInv, NEW x \in Runs, NEW a, a = NextAction(x), task[x].pc \in {"loop", "executing"},
         NEW v \in RowStatus, SetRow(x, a, v), NEW s, NEW lost \in BOOLEAN, Reported(x, a, s, lost),
         slot' \in [Actions -> {"queued", "linked", "unlinked"}],
         \A e \in Actions : slot'[e] = slot[e] \/ (e = a /\ ~task[x].undo),
         UNCHANGED <<bstate, policy, eff, window, member, claim, settlement, created, plan, up>>,
         faults' \in 0 .. MaxFaults,
         \/ /\ task[x].pc = "executing" /\ s = task[x].got /\ (lost => s # "cancelled")
            /\ v = s \/ (lost /\ v \in {"inflight", "uncertain"})
         \/ task[x].pc = "loop" /\ SlotFree(x, a) /\ v = "inflight" /\ s = "none" /\ ~lost
  PROVE  BundleInv'
<1> USE RunsAre
<1>1. /\ a \in task[x].todo /\ a \in Actions /\ a \in ActionsOf(x) /\ HomeOf[a] \in Src(x)
      /\ Live(x) /\ task[x].stop = "no" /\ up /\ (~task[x].undo => x \in Bundles /\ HomeOf[a] = x)
  BY InHand
<1>2. TypeOK /\ Shape(x)
  BY DEF BundleInv, RunInv, Shapes
<1> DEFINE stop == StopReason(x, s, lost)
<1>3. /\ task' \in [Runs -> Tasks] /\ \A y \in Runs \ {x} : task'[y] = task[y]
      /\ task'[x].undo = task[x].undo /\ task'[x].todo = task[x].todo \ {a}
      /\ task'[x].stop = stop
      /\ task'[x].good \subseteq task[x].good \cup {a} /\ task[x].good \subseteq task'[x].good
      /\ s \in Succeeded /\ ~lost => a \in task'[x].good
      /\ task'[x].pc = IF stop # "no" \/ task[x].todo \ {a} = {} THEN "closing" ELSE "loop"
  BY <1>1, <1>2, ReportedTask
<1>4. /\ stop \in {"no", "failed", "ambiguous"}
      /\ stop # "ambiguous" => ~lost /\ s \notin Ambiguous
      /\ stop = "no" => (s \in Succeeded \/ (x \in Bundles /\ ~task[x].undo /\ policy[x] = "continue"))
  BY Stops
<1> HIDE DEF stop
<1>5. /\ row' \in [Actions -> RowStatus] /\ inv' \in [Runs -> [Actions -> RowStatus]]
      /\ \A e \in Actions \ {a} : row'[e] = row[e]
      /\ \A y \in Runs, e \in Actions : y # x \/ e # a => inv'[y][e] = inv[y][e]
      /\ task[x].undo => row' = row /\ inv'[x][a] = v
      /\ ~task[x].undo => inv' = inv /\ row'[a] = v
  BY <1>1, <1>2, SetRowTyped
<1>6. TypeOK'
  BY <1>2, <1>3, <1>5 DEF TypeOK
<1>7. /\ task'[x].pc \in {"closing", "loop"} /\ (\A e \in Actions : ~Doing(x, e)')
      /\ \A e \in Actions : Doing(x, e) <=> (e = a /\ task[x].pc = "executing")
  BY <1>3 DEF Doing
<1>8. task[x].pc = "executing" => task[x].got \in Outcomes
  BY <1>1, <1>2 DEF Shape
\* what the action in hand looked like
<1>9. ASSUME ~task[x].undo
      PROVE  /\ inv[x][a] = "none" /\ v # "none"
             /\ eff[a] # "off" => v \in {"inflight", "changed", "uncertain"} /\ ~Inverted(a, inv)
             /\ stop # "ambiguous" => /\ v \notin {"uncertain", "cancelled"}
                                      /\ eff[a] # "off" => v = "changed" /\ s \in Succeeded /\ ~lost
             /\ stop = "no" /\ policy[x] # "continue" => v \in Succeeded /\ (v = "changed" => eff[a] = "on")
             /\ v = "changed" => eff[a] = "on"
  <2>1. ForwardFits(x, a) /\ RowBegins(a)
    BY <1>1, <1>9 DEF BundleInv, RunInv, Forwards, Forward, RowInv, RowsBegin
  <2>2. eff[a] # "off" => ~Inverted(a, inv)
    BY <1>1 DEF BundleInv, RowInv, ChangeIsOwned
  <2>3. CASE task[x].pc = "executing"
    <3>1. /\ s = "changed" => eff[a] = "on"
          /\ s \in {"noop", "refused", "cancelled"} => eff[a] = "off"
          /\ s \in Outcomes
      BY <1>7, <1>8, <1>1, <2>1, <2>3 DEF ForwardFits
    <3>2. eff[a] \in {"off", "on", "partial"}
      BY <1>1, <1>2 DEF TypeOK
    <3>3. QED
      BY <1>4, <2>1, <2>2, <2>3, <3>1, <3>2 DEF ForwardFits, Outcomes, Succeeded, Ambiguous
  <2>4. CASE task[x].pc = "loop"
    <3>1. eff[a] = "off" /\ inv[x][a] = "none"
      BY <1>1, <1>7, <2>1, <2>4 DEF ForwardFits, RowBegins
    <3>2. QED
      BY <1>4, <2>4, <3>1 DEF Succeeded
  <2>5. QED
    BY <2>3, <2>4
<1>10. ASSUME task[x].undo
       PROVE  /\ row[a] # "none" /\ (v \in Succeeded => eff[a] = "off") /\ inv[x][a] \notin Succeeded
              /\ \/ row[a] = "changed" /\ \A y \in Runs : inv[y][a] \notin Succeeded
                 \/ inv[x][a] = "inflight"
              /\ stop # "ambiguous" => v # "uncertain"
              /\ stop = "no" => eff[a] = "off"
  <2>1. UndoFits(x, a) /\ RowBegins(a)
    BY <1>1, <1>10 DEF BundleInv, RunInv, Undos, Undoing, RowInv, RowsBegin
  <2>2. CASE task[x].pc = "executing"
    <3>1. inv[x][a] = "inflight" /\ (s \in Succeeded => eff[a] = "off") /\ s \in Outcomes
      BY <1>7, <1>8, <1>1, <2>1, <2>2 DEF UndoFits
    <3>2. row[a] # "none"
      BY <2>1, <3>1 DEF RowBegins
    <3>3. QED
      BY <1>4, <1>10, <2>2, <3>1, <3>2 DEF Outcomes, Succeeded, Ambiguous
  <2>3. CASE task[x].pc = "loop"
    <3>1. row[a] = "changed" /\ (\A y \in Runs : inv[y][a] \notin Succeeded) /\ v = "inflight" /\ s = "none"
      BY <1>10, <2>3 DEF SlotFree
    <3>2. QED
      BY <1>4, <1>10, <3>1 DEF Succeeded
  <2>4. QED
    BY <2>2, <2>3
<1>11. OnlyRow(x, a)
  BY <1>1, <1>3, <1>5, <1>10 DEF OnlyRow
<1>12. Shape(x)'
  <2>1. ActionsOf(x)' = ActionsOf(x)
    BY DEF ActionsOf, SiblingsOf
  <2>2. task'[x].todo \subseteq ActionsOf(x) /\ task'[x].good \subseteq ActionsOf(x) /\ (x \in Children => task'[x].undo)
    BY <1>1, <1>2, <1>3 DEF Shape
  <2>3. /\ task'[x].pc # "closing" => task'[x].todo # {} /\ task'[x].stop = "no"
        /\ task'[x].pc = "closing" /\ task'[x].stop = "no" => task'[x].todo = {}
    BY <1>3
  <2>4. QED
    BY <1>1, <1>3, <1>4, <1>7, <2>1, <2>2, <2>3 DEF Shape
<1>13. ASSUME NEW e \in Actions, HomeOf[e] = x, Forward(x) PROVE ForwardFits(x, e)'
  <2>1. ForwardFits(x, e) /\ ~task[x].undo /\ x \in Bundles
    BY <1>1, <1>13 DEF BundleInv, RunInv, Forwards, Forward
  <2>2. CASE e = a
    BY <1>3, <1>5, <1>7, <1>9, <2>1, <2>2 DEF ForwardFits
  <2>3. CASE e # a
    BY <1>1, <1>3, <1>5, <1>7, <2>1, <2>3 DEF ForwardFits
  <2>4. QED
    BY <2>2, <2>3
<1>14. ASSUME NEW e \in Actions, HomeOf[e] \in Src(x), Undoing(x) PROVE UndoFits(x, e)'
  <2>1. UndoFits(x, e) /\ task[x].undo
    BY <1>14 DEF BundleInv, RunInv, Undos, Undoing
  <2>2. CASE e = a
    BY <1>1, <1>3, <1>5, <1>7, <1>10, <2>1, <2>2 DEF UndoFits
  <2>3. CASE e # a
    BY <1>1, <1>3, <1>5, <1>7, <2>1, <2>3 DEF UndoFits
  <2>4. QED
    BY <2>2, <2>3
<1>15. Alone'
  <2>1. \A y \in Runs \ {x} : \A e \in Actions : Doing(y, e)' <=> Doing(y, e)
    BY <1>3 DEF Doing, NextAction
  <2>2. QED
    BY <1>7, <2>1 DEF BundleInv, RunInv, Alone
<1>16. InflightAlone'
  <2>1. CASE task[x].undo
    BY <1>5, <2>1 DEF BundleInv, RowInv, InflightAlone
  <2>2. CASE ~task[x].undo
    <3>1. \A e \in Actions \ {a} : HomeOf[e] = x => row[e] # "uncertain" /\ (eff[e] # "off" => row[e] = "changed")
      BY <1>1, <1>7, <2>2 DEF BundleInv, RunInv, Forwards, Forward, ForwardFits
    <3>2. QED
      BY <1>1, <1>5, <2>2, <3>1 DEF BundleInv, RowInv, InflightAlone
  <2>3. QED
    BY <2>1, <2>2
<1>17. RowBegins(a)'
  BY <1>1, <1>5, <1>9, <1>10 DEF RowBegins
<1>18. eff'[a] # "off" => row'[a] \in {"inflight", "changed", "uncertain"} /\ ~Inverted(a, inv')
  <2>1. CASE task[x].undo
    <3>1. eff[a] # "off" => row[a] \in {"inflight", "changed", "uncertain"} /\ ~Inverted(a, inv) /\ v \notin Succeeded
      BY <1>1, <1>10, <2>1 DEF BundleInv, RowInv, ChangeIsOwned
    <3>2. QED
      BY <1>1, <1>5, <2>1, <3>1 DEF Inverted, Succeeded
  <2>2. CASE ~task[x].undo
    BY <1>5, <1>9, <2>2
  <2>3. QED
    BY <2>1, <2>2
<1>19. RowHeld(a)'
  <2>1. CASE task[x].undo
    <3>1. Inverted(a, inv) => Inverted(a, inv')
      BY <1>1, <1>5, <1>10, <2>1 DEF Inverted, Succeeded
    <3>2. QED
      BY <1>1, <1>5, <2>1, <3>1 DEF BundleInv, OwnerInv, RowsHeld, RowHeld
  <2>2. CASE ~task[x].undo
    <3>1. DeviceOf[a] \in DevicesOf(x) /\ Forward(x)
      BY <1>1, <2>2 DEF DevicesOf, Forward
    <3>2. <<DeviceOf[a], x>> \in member
      BY <1>1, <2>2, <3>1 DEF BundleInv, RunInv, Apart
    <3>3. QED
      BY <1>1, <2>2, <3>2 DEF RowHeld
  <2>3. QED
    BY <2>1, <2>2
<1>20. QED
  BY <1>1, <1>3, <1>6, <1>7, <1>11, <1>12, <1>13, <1>14, <1>15, <1>16, <1>17, <1>18, <1>19, RowStep

LEMMA LinkSlotTyped ==
  ASSUME TypeOK, NEW x \in Runs, NEW a \in Actions, NEW s \in {"linked", "unlinked"}, LinkSlot(x, a, s)
  PROVE  /\ slot' \in [Actions -> {"queued", "linked", "unlinked"}]
         /\ \A e \in Actions : slot'[e] = slot[e] \/ (e = a /\ ~task[x].undo)
<1>1. CASE task[x].undo
  BY <1>1 DEF LinkSlot, TypeOK
<1>2. CASE ~task[x].undo
  BY <1>2 DEF LinkSlot, TypeOK
<1>3. QED
  BY <1>1, <1>2

LEMMA FaultTyped == ASSUME TypeOK, NEW k, Fault(k) PROVE faults' \in 0 .. MaxFaults
  BY BundleAssumption DEF TypeOK, Fault

LEMMA ReportStep ==
  ASSUME BundleInv, NEW x \in Runs, Report(x) \/ ReportLost(x) \/ ReportUnlinked(x)
  PROVE  BundleInv'
<1>1. PICK a : a = NextAction(x)
  OBVIOUS
<1>2. task[x].pc = "executing" /\ TypeOK
  BY DEF Report, ReportLost, ReportUnlinked, BundleInv
<1>3. a \in Actions /\ task[x].got \in RowStatus
  BY <1>1, <1>2, InHand, TaskTyped DEF Tasks
<1>4. CASE Report(x)
  <2>1. PICK v \in RowStatus : v = task[x].got
    BY <1>3
  <2>2. /\ SetRow(x, a, v) /\ LinkSlot(x, a, "linked") /\ Reported(x, a, v, FALSE)
        /\ UNCHANGED <<bstate, policy, eff, window, member, claim, settlement, created, plan, up, faults>>
    BY <1>1, <1>4, <2>1 DEF Report, ownership
  <2>3. /\ slot' \in [Actions -> {"queued", "linked", "unlinked"}]
        /\ \A e \in Actions : slot'[e] = slot[e] \/ (e = a /\ ~task[x].undo)
    BY <1>2, <1>3, <2>2, LinkSlotTyped
  <2>4. faults' \in 0 .. MaxFaults
    BY <1>2, <2>2 DEF TypeOK
  <2>5. PICK l \in BOOLEAN : l = FALSE
    OBVIOUS
  <2>6. Reported(x, a, v, l)
    BY <2>2, <2>5, Zenon
  <2>7. QED
    BY <1>1, <1>2, <2>1, <2>2, <2>3, <2>4, <2>5, <2>6, RowReported
<1>5. CASE ReportLost(x)
  <2>1. PICK g \in RowStatus : g = task[x].got
    BY <1>3
  <2>2. PICK v \in {g, "inflight", "uncertain"} : SetRow(x, a, v)
    BY <1>1, <1>5, <2>1 DEF ReportLost
  <2>3. /\ LinkSlot(x, a, "linked") /\ Reported(x, a, g, TRUE) /\ g # "cancelled" /\ Fault("dberr")
        /\ UNCHANGED <<bstate, policy, eff, window, member, claim, settlement, created, plan, up>>
    BY <1>1, <1>5, <2>1 DEF ReportLost, ownership
  <2>4. /\ slot' \in [Actions -> {"queued", "linked", "unlinked"}]
        /\ \A e \in Actions : slot'[e] = slot[e] \/ (e = a /\ ~task[x].undo)
    BY <1>2, <1>3, <2>3, LinkSlotTyped
  <2>5. faults' \in 0 .. MaxFaults
    BY <1>2, <2>3, FaultTyped
  <2>6. v \in RowStatus /\ (v = g \/ v \in {"inflight", "uncertain"})
    BY <2>1, <2>2 DEF RowStatus
  <2>7. PICK l \in BOOLEAN : l = TRUE
    OBVIOUS
  <2>8. Reported(x, a, g, l)
    BY <2>3, <2>7, Zenon
  <2>9. /\ task[x].pc = "executing" /\ g = task[x].got /\ (l => g # "cancelled")
        /\ v = g \/ (l /\ v \in {"inflight", "uncertain"})
    BY <1>2, <2>1, <2>3, <2>6, <2>7
  <2>10. UNCHANGED <<bstate, policy, eff, window, member, claim, settlement, created, plan, up>> /\ v \in RowStatus
    BY <2>3, <2>6
  <2> HIDE <2>7
  <2>11. QED
    BY <1>1, <2>2, <2>4, <2>5, <2>8, <2>9, <2>10, RowReported
<1>6. CASE ReportUnlinked(x)
  <2>1. PICK v \in RowStatus : v = task[x].got
    BY <1>3
  <2>2. /\ SetRow(x, a, v) /\ Reported(x, a, v, FALSE) /\ Fault("dberr")
        /\ UNCHANGED <<bstate, policy, slot, eff, window, member, claim, settlement, created, plan, up>>
    BY <1>1, <1>6, <2>1 DEF ReportUnlinked, ownership
  <2>3. /\ slot' \in [Actions -> {"queued", "linked", "unlinked"}]
        /\ \A e \in Actions : slot'[e] = slot[e] \/ (e = a /\ ~task[x].undo)
    BY <1>2, <2>2 DEF TypeOK
  <2>4. faults' \in 0 .. MaxFaults
    BY <1>2, <2>2, FaultTyped
  <2>5. QED
    BY <1>1, <1>2, <2>1, <2>2, <2>3, <2>4, RowReported
<1>7. QED
  BY <1>4, <1>5, <1>6

LEMMA BlockedStep == ASSUME BundleInv, NEW x \in Runs, Blocked(x) PROVE BundleInv'
<1> USE RunsAre
<1>1. PICK a : a = NextAction(x)
  OBVIOUS
<1>2. task[x].pc = "loop" /\ TypeOK /\ Shape(x)
  BY DEF Blocked, BundleInv, RunInv, Shapes
<1>3. /\ a \in task[x].todo /\ a \in Actions /\ a \in ActionsOf(x) /\ HomeOf[a] \in Src(x)
      /\ Live(x) /\ task[x].stop = "no" /\ up /\ (~task[x].undo => x \in Bundles /\ HomeOf[a] = x)
  BY <1>1, <1>2, InHand
<1>4. /\ LinkSlot(x, a, "unlinked") /\ Reported(x, a, "none", FALSE)
      /\ UNCHANGED <<bstate, policy, eff, window, member, claim, settlement, created, plan, up>>
  BY <1>1 DEF Blocked, ownership
<1>5. /\ slot' \in [Actions -> {"queued", "linked", "unlinked"}]
      /\ \A e \in Actions : slot'[e] = slot[e] \/ (e = a /\ ~task[x].undo)
  BY <1>2, <1>3, <1>4, LinkSlotTyped
<1>6. faults' \in 0 .. MaxFaults
  <2>1. faults' = faults \/ Fault("blocked") \/ Fault("dberr")
    BY DEF Blocked
  <2>2. QED
    BY <1>2, <2>1, FaultTyped DEF TypeOK
<1>7. CASE SlotFree(x, a) /\ SetRow(x, a, "inflight")
  <2>1. PICK v \in RowStatus : v = "inflight"
    BY DEF RowStatus
  <2>2. PICK s : s = "none"
    OBVIOUS
  <2>3. PICK l \in BOOLEAN : l = FALSE
    OBVIOUS
  <2>4. Reported(x, a, s, l)
    BY <1>4, <2>2, <2>3, Zenon
  <2>5. QED
    BY <1>1, <1>2, <1>4, <1>5, <1>6, <1>7, <2>1, <2>2, <2>3, <2>4, RowReported
<1>8. CASE UNCHANGED <<row, inv>>
  <2>a. PICK l \in BOOLEAN : l = FALSE
    OBVIOUS
  <2>b. Reported(x, a, "none", l)
    BY <1>4, <2>a, Zenon
  <2> DEFINE stop == StopReason(x, "none", l)
  <2>1. /\ task' \in [Runs -> Tasks] /\ \A y \in Runs \ {x} : task'[y] = task[y]
        /\ task'[x].undo = task[x].undo /\ task'[x].todo = task[x].todo \ {a}
        /\ task'[x].stop = stop
        /\ task'[x].good \subseteq task[x].good \cup {a} /\ task[x].good \subseteq task'[x].good
        /\ task'[x].pc = IF stop # "no" \/ task[x].todo \ {a} = {} THEN "closing" ELSE "loop"
    BY <1>2, <1>3, <2>b, ReportedTask
  <2>2. /\ stop \in {"no", "failed", "ambiguous"}
        /\ stop = "no" => x \in Bundles /\ ~task[x].undo /\ policy[x] = "continue"
    BY Stops DEF Succeeded
  <2> HIDE DEF stop
  <2>3. TypeOK'
    BY <1>2, <1>4, <1>5, <1>6, <1>8, <2>1 DEF TypeOK
  <2>4. task'[x].pc \in {"closing", "loop"} /\ \A e \in Actions : ~Doing(x, e)' /\ ~Doing(x, e)
    BY <1>2, <2>1 DEF Doing
  <2>5. Shape(x)'
    <3>1. ActionsOf(x)' = ActionsOf(x)
      BY <1>4 DEF ActionsOf, SiblingsOf
    <3>2. task'[x].todo \subseteq ActionsOf(x) /\ task'[x].good \subseteq ActionsOf(x) /\ (x \in Children => task'[x].undo)
      BY <1>2, <1>3, <2>1 DEF Shape
    <3>3. /\ task'[x].pc # "closing" => task'[x].todo # {} /\ task'[x].stop = "no"
          /\ task'[x].pc = "closing" /\ task'[x].stop = "no" => task'[x].todo = {}
      BY <2>1
    <3>4. QED
      BY <1>3, <1>4, <2>1, <2>2, <2>4, <3>1, <3>2, <3>3 DEF Shape
  <2>6. ASSUME NEW e \in Actions, HomeOf[e] = x, Forward(x) PROVE ForwardFits(x, e)'
    <3>1. ForwardFits(x, e) /\ ForwardFits(x, a) /\ RowBegins(a) /\ ~task[x].undo
      BY <1>3, <2>6 DEF BundleInv, RunInv, Forwards, Forward, RowInv, RowsBegin
    <3>2. CASE e = a
      <4>1. row[a] = "none" /\ eff[a] = "off"
        BY <1>3, <2>4, <3>1 DEF ForwardFits, RowBegins
      <4>2. QED
        BY <1>4, <1>8, <2>1, <2>2, <2>4, <3>1, <3>2, <4>1 DEF ForwardFits
    <3>3. CASE e # a
      BY <1>3, <1>4, <1>8, <2>1, <2>4, <3>1, <3>3 DEF ForwardFits
    <3>4. QED
      BY <3>2, <3>3
  <2>7. ASSUME NEW e \in Actions, HomeOf[e] \in Src(x), Undoing(x) PROVE UndoFits(x, e)'
    <3>1. UndoFits(x, e) /\ stop # "no"
      BY <2>2, <2>7 DEF BundleInv, RunInv, Undos, Undoing
    <3>2. QED
      BY <1>3, <1>4, <1>8, <2>1, <2>4, <3>1 DEF UndoFits
  <2>8. RowsHeld'
    BY <1>4, <1>8 DEF BundleInv, OwnerInv, RowsHeld, RowHeld, Inverted
  <2>9. Apart'
    <3>1. \A b \in Bundles : Forward(b)' /\ task'[b].pc \in {"windowed", "loop", "executing"} =>
                             Forward(b) /\ task[b].pc \in {"windowed", "loop", "executing"}
      BY <1>2, <1>3, <2>1 DEF Forward, Live
    <3>2. QED
      BY <1>4, <3>1 DEF BundleInv, RunInv, Apart, DevicesOf, ActionsOf, SiblingsOf, Members
  <2>10. \A e \in Actions : slot'[e] = slot[e] \/ HomeOf[e] = x
    BY <1>3, <1>5
  <2>11. QED
    BY <1>3, <1>4, <1>8, <2>1, <2>3, <2>4, <2>5, <2>6, <2>7, <2>8, <2>9, <2>10, QuietRun
<1>9. QED
  BY <1>1, <1>7, <1>8 DEF Blocked

-----------------------------------------------------------------------------
(* The settlement of a recovery *)

\* Inverse rows of c are decided: one that was uncertain is found refused, or
\* done where the router carries no change.
Decided(c, iv) ==
    \A y \in Runs, e \in Actions :
        \/ iv[y][e] = inv[y][e]
        \/ /\ y = c /\ inv[y][e] = "uncertain"
           /\ iv[y][e] = "refused" \/ (iv[y][e] = "changed" /\ eff[e] = "off")

LEMMA DecidedFacts ==
  ASSUME BundleInv, NEW c \in Runs, NEW iv, Decided(c, iv)
  PROVE  /\ \A e \in Actions : Inverted(e, inv) => Inverted(e, iv)
         /\ \A e \in Actions : eff[e] # "off" => ~Inverted(e, iv)
         /\ \A S \in SUBSET Actions : Outstanding(S, row, iv) \subseteq Outstanding(S, row, inv)
         /\ \A y \in Runs, e \in Actions : /\ iv[y][e] # "none" => inv[y][e] # "none"
                                           /\ iv[y][e] = "uncertain" => inv[y][e] = "uncertain"
                                           /\ iv[y][e] \in Ambiguous => inv[y][e] \in Ambiguous
                                           /\ y # c => iv[y][e] = inv[y][e]
<1> USE RunsAre
<1>1. \A e \in Actions : Inverted(e, inv) => Inverted(e, iv)
  BY DEF Inverted, Decided
<1>2. \A e \in Actions : eff[e] # "off" => ~Inverted(e, iv)
  BY DEF Inverted, Decided, BundleInv, RowInv, ChangeIsOwned
<1>3. \A S \in SUBSET Actions : Outstanding(S, row, iv) \subseteq Outstanding(S, row, inv)
  BY <1>1 DEF Outstanding
<1>4. QED
  BY <1>1, <1>2, <1>3 DEF Decided, Ambiguous

\* Where c stands when it is settled.
Settling(c, terminal, iv) ==
    /\ bstate[c] # "none"
    /\ \/ \A s \in SourcesOf(c) : settlement[c][s] \in {"active", "blocked"}
       \/ (\A s \in SourcesOf(c) : settlement[c][s] = "restored") /\ iv = inv
    /\ terminal = "succeeded" => Outstanding(plan[c], row, iv) = {}

\* A source is blocked with all the others, or it is restored, or it can be tried again.
LEMMA SettleFacts ==
  ASSUME BundleInv, NEW c \in Children, NEW iv, NEW terminal, Decided(c, iv), Settling(c, terminal, iv),
         NEW s \in SourcesOf(c)
  PROVE  /\ Settle(c, s, terminal, row, iv) =
              IF Freeze(c, row, iv) THEN "blocked"
              ELSE IF Outstanding(SiblingsOf(s), row, iv) = {} THEN "restored" ELSE "known_no_write"
         /\ Settle(c, s, terminal, row, iv) = "known_no_write" => terminal # "succeeded"
         /\ ~Freeze(c, row, iv) => NoAmbiguousEffect(s, row, iv)
         /\ Freeze(c, row, iv) => settlement[c][s] \in {"active", "blocked"}
         /\ settlement[c][s] \in {"active", "blocked"} => claim[s] = c
<1> USE RunsAre
<1>1. s \in Bundles /\ SourceFits(c, s) /\ SiblingsOf(s) \subseteq Actions
  BY DEF BundleInv, OwnerInv, Sources, SourcesOf, SiblingsOf
<1>2. settlement[c][s] \in {"active", "blocked"} => claim[s] = c
  BY <1>1 DEF BundleInv, OwnerInv, ClaimExclusive
<1>3. settlement[c][s] \in Settled \/ claim[s] = c
  BY <1>2 DEF Settling, Settled
<1>4. terminal = "succeeded" => Outstanding(SiblingsOf(s), row, iv) = {}
  <2>1. CASE settlement[c][s] \in {"active", "blocked"}
    <3>1. Outstanding(SiblingsOf(s), row, iv) \subseteq plan[c]
      BY <1>1, <2>1, DecidedFacts DEF SourceFits
    <3>2. Outstanding(SiblingsOf(s), row, iv) \subseteq Outstanding(plan[c], row, iv)
      BY <3>1 DEF Outstanding
    <3>3. QED
      BY <3>2 DEF Settling
  <2>2. CASE settlement[c][s] \notin {"active", "blocked"}
    BY <1>1, <2>2 DEF SourceFits, Settling
  <2>3. QED
    BY <2>1, <2>2
<1>5. Freeze(c, row, iv) => settlement[c][s] \in {"active", "blocked"}
  <2>1. SUFFICES ASSUME settlement[c][s] \notin {"active", "blocked"} PROVE ~Freeze(c, row, iv)
    OBVIOUS
  <2>2. (\A z \in SourcesOf(c) : settlement[c][z] = "restored") /\ iv = inv
    BY <2>1 DEF Settling
  <2>3. \A z \in SourcesOf(c) : ActivationCoverage(z, row, slot) /\ NoAmbiguousEffect(z, row, iv)
    BY <2>2 DEF BundleInv, OwnerInv, Sources, SourceFits, NoAmbiguousEffect
  <2>4. \A e \in plan[c] : iv[c][e] \notin Ambiguous
    <3>1. \A e \in plan[c] : e \in Actions /\ HomeOf[e] \in SourcesOf(c)
      BY DEF BundleInv, OwnerInv, Plans, SourcesOf, TypeOK
    <3>2. QED
      BY <2>3, <3>1 DEF NoAmbiguousEffect, SiblingsOf
  <2>5. QED
    BY <2>2, <2>3, <2>4 DEF Freeze, Settled
<1>6. ~Freeze(c, row, iv) => NoAmbiguousEffect(s, row, iv)
  BY DEF Freeze
<1>7. \E a \in SiblingsOf(s) : row[a] # "none"
  BY <1>1 DEF SourceFits
<1>8. Settle(c, s, terminal, row, iv) =
         IF Freeze(c, row, iv) THEN "blocked"
         ELSE IF Outstanding(SiblingsOf(s), row, iv) = {} THEN "restored" ELSE "known_no_write"
  <2>1. CASE Freeze(c, row, iv)
    BY <2>1 DEF Settle
  <2>2. CASE ~Freeze(c, row, iv)
    BY <1>3, <1>4, <1>7, <2>2 DEF Settle
  <2>3. QED
    BY <2>1, <2>2
<1>9. QED
  BY <1>2, <1>4, <1>5, <1>6, <1>8

\* What finalize_recovery_child does with the sources R it found restored, T that can
\* be tried again and B it blocked.
Finalized(c, R, T, B) ==
    /\ SourcesOf(c) = R \cup T \cup B /\ R \cap T = {} /\ R \cap B = {} /\ T \cap B = {}
    /\ settlement' \in [Children -> [Bundles -> Settlements]]
    /\ \A z \in Children \ {c} : settlement'[z] = settlement[z] /\ created'[z] = created[z]
    /\ \A s \in Bundles : settlement'[c][s] =
          IF s \in R THEN "restored" ELSE IF s \in T THEN "known_no_write"
          ELSE IF s \in B THEN "blocked" ELSE "none"
    /\ claim' \in [Bundles -> Children \cup {None}]
    /\ \A s \in Bundles : claim'[s] = claim[s] \/ (claim[s] = c /\ s \in R \cup T)
    /\ member' \subseteq member
    /\ \A m \in member : m \in member' \/ m[2] \in R \/ (m[2] \in T /\ m \in created[c])
    /\ created' \in [Children -> SUBSET (Devices \X Bundles)] /\ created'[c] \subseteq created[c]
    /\ bstate' \in [Runs -> BStates] /\ bstate'[c] \in {"succeeded", "failed", "compensation_blocked"}
    /\ bstate'[c] = "succeeded" => SourcesOf(c) = R
    /\ \A x \in Runs \ {c} :
          \/ bstate'[x] = bstate[x]
          \/ x \in R /\ bstate[x] \in {"aborted", "compensation_blocked"} /\ bstate'[x] = "compensated"
    /\ window' \in [Devices -> Runs \cup {None, Quarantine}]
    /\ plan' = plan

SettledAs(c, terminal, iv, R, T, B) ==
    /\ R \subseteq Bundles /\ T \subseteq Bundles /\ B \subseteq Bundles /\ Finalized(c, R, T, B)
    /\ \A s \in R \cup T : NoAmbiguousEffect(s, row, iv)
    /\ \A s \in R : Outstanding(SiblingsOf(s), row, iv) = {}
    /\ T # {} => terminal # "succeeded"
    /\ B # {} => R = {} /\ T = {}
    /\ \A s \in B : settlement[c][s] \in {"active", "blocked"} /\ claim[s] = c
    /\ R \cup T # {} => \A a \in plan[c] : iv[c][a] \notin Ambiguous

LEMMA FinalizeFacts ==
  ASSUME BundleInv, NEW c \in Children, NEW iv, NEW terminal, Decided(c, iv), Settling(c, terminal, iv),
         FinalizeChild(c, terminal, row, iv)
  PROVE  \E R, T, B : SettledAs(c, terminal, iv, R, T, B)
<1> USE RunsAre
<1> DEFINE V(s) == Settle(c, s, terminal, row, iv)
<1>1. /\ \A s \in SourcesOf(c) : V(s) \in {"restored", "known_no_write", "blocked"}
      /\ \A s \in SourcesOf(c) : V(s) = "blocked" <=> Freeze(c, row, iv)
      /\ \A s \in SourcesOf(c) : V(s) = "restored" => Outstanding(SiblingsOf(s), row, iv) = {}
  BY SettleFacts
<1>2. /\ \A s \in SourcesOf(c) : V(s) = "known_no_write" => terminal # "succeeded"
      /\ \A s \in SourcesOf(c) : V(s) # "blocked" => NoAmbiguousEffect(s, row, iv)
      /\ \A s \in SourcesOf(c) : V(s) = "blocked" => settlement[c][s] \in {"active", "blocked"} /\ claim[s] = c
  BY <1>1, SettleFacts
<1> HIDE DEF V
<1>3. PICK verdict : verdict = [s \in SourcesOf(c) |-> V(s)]
  OBVIOUS
<1>4. PICK R : R = {s \in SourcesOf(c) : verdict[s] = "restored"}
  OBVIOUS
<1>5. PICK T : T = {s \in SourcesOf(c) : verdict[s] = "known_no_write"}
  OBVIOUS
<1>6. PICK B : B = {s \in SourcesOf(c) : verdict[s] = "blocked"}
  OBVIOUS
<1>7. PICK M : M = {m \in member : m[2] \notin R /\ ~(m[2] \in T /\ m \in created[c])}
  OBVIOUS
<1>8. /\ settlement' = [settlement EXCEPT ![c] =
                          [s \in Bundles |-> IF s \in SourcesOf(c) THEN verdict[s] ELSE settlement[c][s]]]
      /\ claim' = [s \in Bundles |-> IF s \in R \cup T /\ claim[s] = c THEN None ELSE claim[s]]
      /\ member' = M
      /\ created' = [created EXCEPT ![c] = {m \in created[c] : m[2] \notin T}]
      /\ bstate' = [x \in Runs |->
                      CASE x = c -> IF B # {} THEN "compensation_blocked"
                                    ELSE IF T = {} THEN "succeeded" ELSE "failed"
                        [] x \in R /\ claim[x] = c /\ bstate[x] \in {"aborted", "compensation_blocked"}
                             -> "compensated"
                        [] OTHER -> bstate[x]]
      /\ window' = [d \in Devices |->
           IF window[d] \in R /\ Members(d, M) = {} THEN None
           ELSE IF B # {} THEN IF window[d] = c THEN Quarantine ELSE window[d]
           ELSE IF T # {}
                THEN IF window[d] # c THEN window[d]
                     ELSE IF Members(d, M) = {} THEN None ELSE Quarantine
           ELSE IF window[d] \in {c, Quarantine} /\ d \in DevicesOf(c) /\ Members(d, M) = {}
                THEN None ELSE window[d]]
      /\ plan' = plan
  BY <1>3, <1>4, <1>5, <1>6, <1>7 DEF FinalizeChild, V
<1>9. TypeOK /\ SourcesOf(c) \subseteq Bundles
  BY DEF BundleInv, SourcesOf
<1>10. /\ \A s \in SourcesOf(c) : verdict[s] = V(s)
       /\ SourcesOf(c) = R \cup T \cup B /\ R \cap T = {} /\ R \cap B = {} /\ T \cap B = {}
       /\ R \in SUBSET Bundles /\ T \in SUBSET Bundles /\ B \in SUBSET Bundles
  BY <1>1, <1>3, <1>4, <1>5, <1>6, <1>9
<1>11. settlement' \in [Children -> [Bundles -> Settlements]]
  <2>1. [s \in Bundles |-> IF s \in SourcesOf(c) THEN verdict[s] ELSE settlement[c][s]] \in [Bundles -> Settlements]
    BY <1>1, <1>9, <1>10 DEF Settlements, TypeOK
  <2>2. QED
    BY <1>8, <1>9, <2>1 DEF TypeOK
<1>12. /\ \A z \in Children \ {c} : settlement'[z] = settlement[z] /\ created'[z] = created[z]
       /\ settlement'[c] = [s \in Bundles |-> IF s \in SourcesOf(c) THEN verdict[s] ELSE settlement[c][s]]
       /\ created'[c] = {m \in created[c] : m[2] \notin T}
  BY <1>8, <1>9 DEF TypeOK
<1>13. \A s \in Bundles : settlement'[c][s] =
          IF s \in R THEN "restored" ELSE IF s \in T THEN "known_no_write"
          ELSE IF s \in B THEN "blocked" ELSE "none"
  <2>1. \A s \in Bundles \ SourcesOf(c) : settlement[c][s] = "none"
    BY DEF SourcesOf
  <2>2. QED
    BY <1>4, <1>5, <1>6, <1>10, <1>12, <2>1
<1>14. /\ claim' \in [Bundles -> Children \cup {None}]
       /\ \A s \in Bundles : claim'[s] = claim[s] \/ (claim[s] = c /\ s \in R \cup T)
  BY <1>8, <1>9 DEF TypeOK
<1>15. /\ member' \subseteq member
       /\ \A m \in member : m \in member' \/ m[2] \in R \/ (m[2] \in T /\ m \in created[c])
  BY <1>7, <1>8
<1>16. created' \in [Children -> SUBSET (Devices \X Bundles)] /\ created'[c] \subseteq created[c]
  <2>1. {m \in created[c] : m[2] \notin T} \in SUBSET (Devices \X Bundles)
    BY <1>9 DEF TypeOK
  <2>2. QED
    BY <1>8, <1>9, <1>12, <2>1 DEF TypeOK
<1>17. /\ bstate'[c] \in {"succeeded", "failed", "compensation_blocked"}
       /\ bstate'[c] = "succeeded" => SourcesOf(c) = R
  <2>1. bstate'[c] = IF B # {} THEN "compensation_blocked" ELSE IF T = {} THEN "succeeded" ELSE "failed"
    BY <1>8, <1>10
  <2>2. QED
    BY <1>10, <2>1
<1>18. \A x \in Runs \ {c} :
          \/ bstate'[x] = bstate[x]
          \/ x \in R /\ bstate[x] \in {"aborted", "compensation_blocked"} /\ bstate'[x] = "compensated"
  BY <1>8
<1>19. bstate' \in [Runs -> BStates]
  <2>1. \A x \in Runs : bstate'[x] \in BStates
    BY <1>9, <1>17, <1>18 DEF BStates, TypeOK
  <2>2. bstate' = [x \in Runs |-> bstate'[x]]
    BY <1>8
  <2>3. QED
    BY <2>1, <2>2
<1>20. window' \in [Devices -> Runs \cup {None, Quarantine}]
  BY <1>8, <1>9 DEF TypeOK
<1>21. Finalized(c, R, T, B)
  BY <1>8, <1>10, <1>11, <1>12, <1>13, <1>14, <1>15, <1>16, <1>17, <1>18, <1>19, <1>20 DEF Finalized
<1>22. B # {} => R = {} /\ T = {}
  BY <1>1, <1>4, <1>5, <1>6, <1>10
<1>23. R \cup T # {} => \A a \in plan[c] : iv[c][a] \notin Ambiguous
  <2>1. R \cup T # {} => ~Freeze(c, row, iv)
    BY <1>1, <1>4, <1>5, <1>10
  <2>2. QED
    BY <2>1 DEF Freeze
<1>24. SettledAs(c, terminal, iv, R, T, B)
  BY <1>1, <1>2, <1>4, <1>5, <1>6, <1>10, <1>21, <1>22, <1>23 DEF SettledAs
<1>25. QED
  BY <1>24

\* Settling c preserves the invariant, whether its runner ends with it or not.
LEMMA FinalizeStep ==
  ASSUME BundleInv, NEW c \in Children, NEW iv \in [Runs -> [Actions -> RowStatus]], NEW terminal,
         Decided(c, iv), Settling(c, terminal, iv), FinalizeChild(c, terminal, row, iv),
         inv' = iv, UNCHANGED <<policy, row, slot, eff, up>>, faults' \in 0 .. MaxFaults,
         task' \in [Runs -> Tasks], \A y \in Runs \ {c} : task'[y] = task[y],
         task'[c] = task[c] \/ task'[c].pc = "done",
         Live(c)' => task'[c].stop = "ambiguous",
         terminal # "succeeded" => task'[c].pc = "done"
  PROVE  BundleInv'
<1> USE RunsAre
<1>0. PICK R, T, B : SettledAs(c, terminal, iv, R, T, B)
  BY FinalizeFacts
<1>1. /\ R \subseteq Bundles /\ T \subseteq Bundles /\ B \subseteq Bundles /\ Finalized(c, R, T, B)
      /\ \A s \in R \cup T : NoAmbiguousEffect(s, row, iv)
      /\ \A s \in R : Outstanding(SiblingsOf(s), row, iv) = {}
      /\ T # {} => terminal # "succeeded"
      /\ B # {} => R = {} /\ T = {}
      /\ \A s \in B : settlement[c][s] \in {"active", "blocked"} /\ claim[s] = c
      /\ R \cup T # {} => \A a \in plan[c] : iv[c][a] \notin Ambiguous
  BY <1>0 DEF SettledAs
<1>2. TypeOK'
  BY <1>1 DEF BundleInv, TypeOK, Finalized
<1>3. /\ \A e \in Actions : Inverted(e, inv) => Inverted(e, iv)
      /\ \A e \in Actions : eff[e] # "off" => ~Inverted(e, iv)
      /\ \A S \in SUBSET Actions : Outstanding(S, row, iv) \subseteq Outstanding(S, row, inv)
      /\ \A y \in Runs, e \in Actions : /\ iv[y][e] # "none" => inv[y][e] # "none"
                                        /\ iv[y][e] = "uncertain" => inv[y][e] = "uncertain"
                                        /\ iv[y][e] \in Ambiguous => inv[y][e] \in Ambiguous
                                        /\ y # c => iv[y][e] = inv[y][e]
  BY DecidedFacts
<1>4. /\ \A y \in Children : SourcesOf(y)' = SourcesOf(y)
      /\ \A y \in Runs : Src(y)' = Src(y) /\ ActionsOf(y)' = ActionsOf(y)
      /\ R \subseteq SourcesOf(c) /\ T \subseteq SourcesOf(c) /\ B \subseteq SourcesOf(c)
  <2>1. \A y \in Children : SourcesOf(y)' = SourcesOf(y)
    <3>1. \A y \in Children \ {c} : SourcesOf(y)' = SourcesOf(y)
      BY <1>1 DEF Finalized, SourcesOf
    <3>2. \A s \in Bundles : settlement'[c][s] # "none" <=> s \in SourcesOf(c)
      BY <1>1 DEF Finalized
    <3>3. SourcesOf(c)' = SourcesOf(c)
      BY <3>2 DEF SourcesOf
    <3>4. QED
      BY <3>1, <3>3
  <2>2. QED
    BY <1>1, <2>1 DEF Finalized, Src, ActionsOf, SiblingsOf
<1>5. \A s \in R : \A e \in SiblingsOf(s) : e \in Actions /\ eff[e] = "off"
  BY <1>1, <1>3 DEF BundleInv, RowInv, ChangeIsOwned, Outstanding, NoAmbiguousEffect, Ambiguous, SiblingsOf
<1>6. /\ \A y \in Runs \ {c} : /\ NextAction(y)' = NextAction(y) /\ (Live(y)' <=> Live(y))
                               /\ (Forward(y)' <=> Forward(y)) /\ (Undoing(y)' <=> Undoing(y))
                               /\ \A e \in Actions : Doing(y, e)' <=> Doing(y, e)
      /\ Live(c)' => Live(c) /\ task'[c] = task[c] /\ task[c].pc # "executing"
      /\ \A e \in Actions : ~Doing(c, e)'
  <2>1. Live(c)' => Live(c) /\ task'[c] = task[c] /\ task[c].pc # "executing"
    BY DEF Live, BundleInv, RunInv, Shapes, Shape
  <2>2. QED
    BY <2>1 DEF Live, Forward, Undoing, Doing, NextAction
<1>7. \A b \in Bundles : Live(b) => b \notin R /\ b \notin T /\ bstate'[b] = bstate[b]
  BY <1>1, <1>4, DrivenIsNoSource DEF Finalized
<1>8. /\ \A b \in Bundles : (bstate'[b] = "succeeded" <=> bstate[b] = "succeeded") /\ (bstate'[b] = "none" <=> bstate[b] = "none")
                            /\ (bstate'[b] \in InFlight => bstate'[b] = bstate[b])
      /\ \A z \in Children \ {c} : bstate'[z] = bstate[z]
  BY <1>1 DEF Finalized, InFlight
<1>9. RowInv'
  <2>1. RowsBegin' /\ InflightAlone'
    BY <1>3 DEF BundleInv, RowInv, RowsBegin, RowBegins, InflightAlone
  <2>2. ChangeIsOwned'
    BY <1>3 DEF BundleInv, RowInv, ChangeIsOwned
  <2>3. Inverses'
    BY <1>3, <1>4 DEF BundleInv, RowInv, Inverses
  <2>4. QED
    BY <2>1, <2>2, <2>3 DEF RowInv
<1>10. Shapes'
  <2>1. \A y \in Runs : Live(y)' => task'[y] = task[y] /\ Live(y)
    BY <1>6
  <2>2. \A y \in Runs : Shape(y)'
    BY <1>4, <2>1 DEF BundleInv, RunInv, Shapes, Shape
  <2>3. QED
    BY <2>2 DEF Shapes
<1>11. Forwards'
  <2>1. ASSUME NEW y \in Bundles, NEW a \in Actions, HomeOf[a] = y, Forward(y) PROVE ForwardFits(y, a)'
    <3>1. y # c
      OBVIOUS
    <3>2. QED
      BY <1>3, <1>6, <2>1, <3>1 DEF BundleInv, RunInv, Forwards, ForwardFits
  <2>2. QED
    BY <1>6, <2>1 DEF Forwards
<1>12. Undos'
  <2>1. ASSUME NEW y \in Runs, NEW a \in Actions, HomeOf[a] \in Src(y), Undoing(y)' PROVE UndoFits(y, a)'
    <3>1. CASE y = c
      <4>1. task'[c].stop = "ambiguous" /\ ~Doing(c, a)'
        BY <1>6, <2>1, <3>1 DEF Undoing
      <4>2. QED
        BY <3>1, <4>1 DEF UndoFits
    <3>2. CASE y # c
      <4>1. UndoFits(y, a)
        BY <1>6, <2>1, <3>2 DEF BundleInv, RunInv, Undos
      <4>2. QED
        BY <1>3, <1>6, <3>2, <4>1 DEF UndoFits
    <3>3. QED
      BY <3>1, <3>2
  <2>2. QED
    BY <1>4, <2>1 DEF Undos
<1>13. Alone'
  BY <1>6 DEF BundleInv, RunInv, Alone
<1>14. Apart'
  <2>1. SUFFICES ASSUME NEW b \in Bundles, Forward(b), task[b].pc \in {"windowed", "loop", "executing"},
                        NEW d \in DevicesOf(b)
                 PROVE  <<d, b>> \in member' /\ \A z \in Members(d, member') : z = b \/ bstate'[z] = "succeeded"
    <3>1. \A b \in Bundles : DevicesOf(b)' = DevicesOf(b)
      BY <1>4 DEF DevicesOf
    <3>2. QED
      BY <1>6, <3>1 DEF Apart
  <2>2. <<d, b>> \in member /\ \A z \in Members(d, member) : z = b \/ bstate[z] = "succeeded"
    BY <2>1 DEF BundleInv, RunInv, Apart
  <2>3. <<d, b>> \in member'
    BY <1>1, <1>7, <2>1, <2>2 DEF Finalized, Forward
  <2>4. QED
    BY <1>1, <1>8, <2>2, <2>3 DEF Finalized, Members
<1>15. States'
  <2>1. task[c].pc # "idle" /\ task'[c].pc # "idle" /\ bstate'[c] # "none"
    BY <1>1 DEF Settling, BundleInv, OwnerInv, States, Finalized
  <2>2. \A y \in Runs : bstate'[y] = "none" <=> task'[y].pc = "idle"
    BY <1>8, <2>1 DEF BundleInv, OwnerInv, States
  <2>3. \A b \in Bundles : Live(b)' => bstate'[b] \in InFlight
    BY <1>6, <1>7 DEF BundleInv, OwnerInv, States
  <2>4. \A a \in Actions : bstate'[HomeOf[a]] = "none" => row'[a] = "none"
    BY <1>8 DEF BundleInv, OwnerInv, States
  <2>5. \A a \in Actions, y \in Runs : bstate'[HomeOf[a]] \in InFlight /\ y # HomeOf[a] => inv'[y][a] = "none"
    BY <1>3, <1>8 DEF BundleInv, OwnerInv, States
  <2>6. \A z \in Children : bstate'[z] = "none" => plan'[z] = {} /\ SourcesOf(z)' = {}
    <3>1. plan' = plan
      BY <1>1 DEF Finalized
    <3>2. \A z \in Children \ {c} : bstate[z] = "none" => plan[z] = {} /\ SourcesOf(z) = {}
      BY DEF BundleInv, OwnerInv, States
    <3>3. QED
      BY <1>4, <1>8, <2>1, <3>1, <3>2
  <2>7. QED
    BY <2>2, <2>3, <2>4, <2>5, <2>6 DEF States
<1>16. Plans'
  <2>1. \A z \in Children : \A a \in plan[z] : a \in Actions /\ HomeOf[a] \in SourcesOf(z)'
    BY <1>4 DEF BundleInv, OwnerInv, Plans, SourcesOf, TypeOK
  <2>2. plan' = plan
    BY <1>1 DEF Finalized
  <2>3. QED
    BY <2>1, <2>2 DEF Plans, SourcesOf
<1>17. ClaimExclusive'
  <2>1. ASSUME NEW z \in Children \ {c}, NEW s \in Bundles, settlement'[z][s] \in {"active", "blocked"}
        PROVE  claim'[s] = z
    <3>1. claim[s] = z
      BY <1>1, <2>1 DEF BundleInv, OwnerInv, ClaimExclusive, Finalized
    <3>2. QED
      BY <1>1, <2>1, <3>1 DEF Finalized
  <2>2. ASSUME NEW s \in Bundles, settlement'[c][s] \in {"active", "blocked"} PROVE claim'[s] = c
    <3>1. s \in B /\ s \notin R /\ s \notin T
      BY <1>1, <2>2 DEF Finalized
    <3>2. QED
      BY <1>1, <3>1 DEF Finalized
  <2>3. QED
    BY <2>1, <2>2 DEF ClaimExclusive
<1>18. RowsHeld'
  <2>1. ASSUME NEW a \in Actions, row[a] = "changed" \/ eff[a] # "off", ~Inverted(a, iv),
               bstate'[HomeOf[a]] # "succeeded"
        PROVE  <<DeviceOf[a], HomeOf[a]>> \in member'
    <3>1. <<DeviceOf[a], HomeOf[a]>> \in member /\ bstate[HomeOf[a]] # "succeeded"
      BY <1>3, <1>8, <2>1 DEF BundleInv, OwnerInv, RowsHeld, RowHeld
    <3>2. HomeOf[a] \notin R
      BY <1>1, <1>5, <2>1 DEF Outstanding, SiblingsOf
    <3>3. <<DeviceOf[a], HomeOf[a]>> \notin created[c]
      BY <3>1 DEF BundleInv, OwnerInv, CreatedForSucceeded
    <3>4. QED
      BY <1>1, <3>1, <3>2, <3>3 DEF Finalized
  <2>2. QED
    BY <2>1 DEF RowsHeld, RowHeld
<1>19. CreatedForSucceeded'
  <2>1. ASSUME NEW z \in Children, NEW m \in created'[z] PROVE bstate'[m[2]] = "succeeded"
    <3>1. m \in created[z]
      BY <1>1, <2>1 DEF Finalized
    <3>2. m[2] \in Bundles
      BY <3>1 DEF BundleInv, TypeOK
    <3>3. QED
      BY <1>8, <3>1, <3>2 DEF BundleInv, OwnerInv, CreatedForSucceeded
  <2>2. QED
    BY <2>1 DEF CreatedForSucceeded
<1>20. VerdictIsTrue'
  <2>1. \A a \in Actions : bstate'[HomeOf[a]] \in {"compensated", "failed"} => eff[a] = "off"
    <3>1. ASSUME NEW a \in Actions, bstate'[HomeOf[a]] \in {"compensated", "failed"} PROVE eff[a] = "off"
      <4>1. CASE HomeOf[a] \in R
        BY <1>5, <4>1 DEF SiblingsOf
      <4>2. CASE HomeOf[a] \notin R
        <5>1. bstate'[HomeOf[a]] = bstate[HomeOf[a]]
          BY <1>1, <4>2 DEF Finalized
        <5>2. QED
          BY <3>1, <5>1 DEF BundleInv, OwnerInv, VerdictIsTrue
      <4>3. QED
        BY <4>1, <4>2
    <3>2. QED
      BY <3>1
  <2>2. bstate'[c] = "succeeded" => \A a \in plan[c] : eff[a] = "off"
    <3>1. SUFFICES ASSUME bstate'[c] = "succeeded", NEW a \in plan[c] PROVE eff[a] = "off"
      OBVIOUS
    <3>2. a \in Actions /\ HomeOf[a] \in R
      BY <1>1, <3>1 DEF BundleInv, OwnerInv, Plans, SourcesOf, TypeOK, Finalized
    <3>3. QED
      BY <1>5, <3>2 DEF SiblingsOf
  <2>3. plan' = plan
    BY <1>1 DEF Finalized
  <2>4. \A z \in Children : bstate'[z] = "succeeded" => \A a \in plan[z] : eff[a] = "off"
    BY <1>8, <2>2 DEF BundleInv, OwnerInv, VerdictIsTrue
  <2>5. QED
    BY <2>1, <2>3, <2>4 DEF VerdictIsTrue
<1>21. Sources'
  <2>1. ASSUME NEW z \in Children, NEW s \in SourcesOf(z) PROVE SourceFits(z, s)'
    <3>1. SourceFits(z, s) /\ s \in Bundles /\ SiblingsOf(s)' = SiblingsOf(s) /\ SiblingsOf(s) \subseteq Actions
      BY <2>1 DEF BundleInv, OwnerInv, Sources, SourcesOf, SiblingsOf
    <3>2. ActivationCoverage(s, row, slot)'
      <4>1. bstate'[s] \notin InFlight \cup {"none"}
        BY <1>8, <3>1 DEF SourceFits, ActivationCoverage
      <4>2. QED
        BY <3>1, <4>1 DEF SourceFits, ActivationCoverage
    <3>3. /\ \E a \in SiblingsOf(s) : row'[a] # "none"
          /\ \A a \in SiblingsOf(s) : row'[a] \notin Ambiguous
      BY <3>1 DEF SourceFits
    <3>4. /\ Outstanding(SiblingsOf(s), row, iv) \subseteq Outstanding(SiblingsOf(s), row, inv)
          /\ plan' = plan
      BY <1>1, <1>3, <3>1 DEF Finalized
    <3>5. CASE z # c
      <4>1. settlement'[z] = settlement[z] /\ task'[z] = task[z] /\ bstate'[z] = bstate[z] /\ (Live(z)' <=> Live(z))
        BY <1>1, <1>6, <1>8, <3>5 DEF Finalized
      <4>2. \A a \in Actions : iv[z][a] = inv[z][a]
        BY <1>3, <3>5
      <4>3. settlement[z][s] = "restored" => \A a \in SiblingsOf(s), y \in Runs : iv[y][a] \notin Ambiguous
        BY <1>3, <3>1 DEF SourceFits
      <4>4. /\ \A w \in SourcesOf(z) : /\ settlement[z][s] = "active" <=> settlement[z][w] = "active"
                                       /\ settlement[z][s] = "blocked" <=> settlement[z][w] = "blocked"
            /\ settlement[z][s] = "known_no_write" =>
                 task[z].pc = "done" /\ \A a \in Actions : iv[z][a] \notin Ambiguous
            /\ settlement[z][s] = "restored" => Outstanding(SiblingsOf(s), row, iv) = {}
            /\ settlement[z][s] \in {"active", "blocked"} => Outstanding(SiblingsOf(s), row, iv) \subseteq plan[z]
            /\ Live(z) /\ task[z].stop # "ambiguous" => settlement[z][s] = "active"
            /\ settlement[z][s] = "active" => bstate[z] \in InFlight
        BY <3>1, <3>4, <4>2 DEF SourceFits
      <4>5. QED
        BY <1>4, <3>1, <3>2, <3>3, <3>4, <4>1, <4>3, <4>4 DEF SourceFits
    <3>6. CASE z = c
      <4>1. /\ settlement'[c][s] \in {"restored", "known_no_write", "blocked"}
            /\ settlement'[c][s] = "restored" <=> s \in R
            /\ settlement'[c][s] = "known_no_write" <=> s \in T
            /\ settlement'[c][s] = "blocked" <=> s \in B
        BY <1>1, <2>1, <3>1, <3>6 DEF Finalized
      <4>2. \A w \in SourcesOf(c) : /\ settlement'[c][w] # "active"
                                    /\ settlement'[c][s] = "blocked" <=> settlement'[c][w] = "blocked"
        <5>1. \A w \in SourcesOf(c) : w \in Bundles /\ w \in R \cup T \cup B
          BY <1>1 DEF SourcesOf, Finalized
        <5>2. QED
          BY <1>1, <2>1, <3>6, <5>1 DEF Finalized
      <4>3. s \in T => task'[c].pc = "done" /\ \A a \in Actions : iv[c][a] \notin Ambiguous
        <5>1. SUFFICES ASSUME s \in T PROVE task'[c].pc = "done" /\ \A a \in Actions : iv[c][a] \notin Ambiguous
          OBVIOUS
        <5>2. \A a \in Actions \ plan[c] : iv[c][a] = "none"
          BY <1>3 DEF BundleInv, RowInv, Inverses, ActionsOf
        <5>3. QED
          BY <1>1, <5>1, <5>2 DEF Ambiguous
      <4>4. s \in R => /\ Outstanding(SiblingsOf(s), row, iv) = {}
                       /\ \A a \in SiblingsOf(s), y \in Runs : iv[y][a] \notin Ambiguous
        BY <1>1 DEF NoAmbiguousEffect
      <4>5. s \in B => Outstanding(SiblingsOf(s), row, iv) \subseteq plan[c]
        BY <1>1, <3>1, <3>4, <3>6 DEF SourceFits
      <4>6. QED
        BY <1>4, <3>1, <3>2, <3>3, <3>4, <3>6, <4>1, <4>2, <4>3, <4>4, <4>5 DEF SourceFits
    <3>7. QED
      BY <3>5, <3>6
  <2>2. QED
    BY <1>4, <2>1 DEF Sources
<1>22. QED
  BY <1>2, <1>9, <1>10, <1>11, <1>12, <1>13, <1>14, <1>15, <1>16, <1>17, <1>18, <1>19, <1>20, <1>21
     DEF BundleInv, RunInv, OwnerInv

\* The rows are as they were.
LEMMA NothingDecided == ASSUME NEW c \in Runs PROVE Decided(c, inv)
  BY DEF Decided

LEMMA EndedTask == Ended \in Tasks /\ Ended.pc = "done"
<1>1. Idle \in Tasks
  BY DEF Idle, Tasks, PCs, RowStatus
<1>2. QED
  BY <1>1 DEF Ended, Tasks, PCs

LEMMA LiveSettling ==
  ASSUME BundleInv, NEW c \in Children, Live(c), NEW terminal,
         terminal = "succeeded" => Outstanding(plan[c], row, inv) = {}
  PROVE  Settling(c, terminal, inv)
<1> USE RunsAre
<1>1. bstate[c] # "none"
  BY DEF BundleInv, OwnerInv, States, Live
<1>2. \A s \in SourcesOf(c) : SourceFits(c, s) /\ settlement[c][s] \in {"active", "blocked", "restored"}
  <2>1. ASSUME NEW s \in SourcesOf(c) PROVE SourceFits(c, s) /\ settlement[c][s] \in {"active", "blocked", "restored"}
    <3>1. SourceFits(c, s) /\ s \in Bundles /\ settlement[c][s] # "none"
      BY <2>1 DEF BundleInv, OwnerInv, Sources, SourcesOf
    <3>2. settlement[c][s] \in Settlements
      BY <3>1 DEF BundleInv, TypeOK
    <3>3. settlement[c][s] # "known_no_write"
      BY <3>1 DEF SourceFits, Live
    <3>4. QED
      BY <3>1, <3>2, <3>3 DEF Settlements
  <2>2. QED
    BY <2>1
<1>3. CASE \E s \in SourcesOf(c) : settlement[c][s] = "active"
  BY <1>1, <1>2, <1>3 DEF SourceFits, Settling
<1>4. CASE \E s \in SourcesOf(c) : settlement[c][s] = "blocked"
  BY <1>1, <1>2, <1>4 DEF SourceFits, Settling
<1>5. QED
  BY <1>1, <1>2, <1>3, <1>4 DEF Settling

\* A recovery's run ends with its settlement.
LEMMA ChildEnds ==
  ASSUME BundleInv, NEW c \in Children, Live(c), NEW terminal,
         terminal = "succeeded" => Outstanding(plan[c], row, inv) = {},
         FinalizeChild(c, terminal, row, inv), task' = [task EXCEPT ![c] = Ended],
         UNCHANGED <<policy, row, inv, slot, eff, up>>, faults' \in 0 .. MaxFaults
  PROVE  BundleInv'
<1> USE RunsAre
<1>1. TypeOK
  BY DEF BundleInv
<1>2. task' \in [Runs -> Tasks] /\ task'[c] = Ended /\ \A y \in Runs \ {c} : task'[y] = task[y]
  BY <1>1, EndedTask, TaskSet
<1>3. task'[c].pc = "done" /\ ~Live(c)'
  BY <1>2, EndedTask DEF Live
<1>4. PICK iv \in [Runs -> [Actions -> RowStatus]] : iv = inv
  BY <1>1 DEF TypeOK
<1>5. Decided(c, iv) /\ Settling(c, terminal, iv) /\ FinalizeChild(c, terminal, row, iv) /\ inv' = iv
  BY <1>4, NothingDecided, LiveSettling
<1>6. QED
  BY <1>2, <1>3, <1>5, FinalizeStep

LEMMA RecoverChildStep == ASSUME BundleInv, NEW c \in Children, RecoverChild(c) PROVE BundleInv'
<1> USE RunsAre
<1>1. PICK s \in Bundles : settlement[c][s] = "active"
  BY DEF RecoverChild, ActiveChild
<1>2. s \in SourcesOf(c) /\ SourceFits(c, s)
  BY <1>1 DEF SourcesOf, BundleInv, OwnerInv, Sources
<1>3. bstate[c] \in InFlight /\ ~Live(c)
  BY <1>1, <1>2 DEF SourceFits, RecoverChild, BundleInv, RunInv, Shapes, Shape
<1>4. task[c].pc = "done"
  BY <1>3 DEF Live, BundleInv, OwnerInv, States, InFlight
<1>5. FinalizeChild(c, "compensation_blocked", row, inv) /\ UNCHANGED <<policy, row, inv, slot, eff, task, up, faults>>
  BY <1>3 DEF RecoverChild, InFlight, rows
<1>6. TypeOK
  BY DEF BundleInv
<1>7. PICK terminal : terminal = "compensation_blocked"
  OBVIOUS
<1>8. PICK iv \in [Runs -> [Actions -> RowStatus]] : iv = inv
  BY <1>6 DEF TypeOK
<1>9. Settling(c, terminal, iv)
  BY <1>1, <1>2, <1>3, <1>7 DEF Settling, SourceFits, InFlight
<1>10. Decided(c, iv) /\ FinalizeChild(c, terminal, row, iv) /\ inv' = iv
  BY <1>5, <1>7, <1>8, NothingDecided
<1>11. /\ task' \in [Runs -> Tasks] /\ faults' \in 0 .. MaxFaults /\ task' = task /\ ~Live(c)'
       /\ task'[c].pc = "done"
  BY <1>3, <1>4, <1>5, <1>6 DEF TypeOK, Live
<1>12. QED
  BY <1>5, <1>9, <1>10, <1>11, FinalizeStep

\* An inverse is resolved, and no recovery is settled by it.
LEMMA InverseResolved ==
  ASSUME BundleInv, NEW x \in Runs, NEW iv \in [Runs -> [Actions -> RowStatus]], Decided(x, iv), inv' = iv,
         UNCHANGED <<bstate, policy, row, slot, eff, window, member, claim, settlement, created, plan, task, up, faults>>
  PROVE  BundleInv'
<1> USE RunsAre
<1>1. TypeOK'
  BY DEF BundleInv, TypeOK
<1>2. /\ \A e \in Actions : Inverted(e, inv) => Inverted(e, iv)
      /\ \A e \in Actions : eff[e] # "off" => ~Inverted(e, iv)
      /\ \A S \in SUBSET Actions : Outstanding(S, row, iv) \subseteq Outstanding(S, row, inv)
      /\ \A y \in Runs, e \in Actions : /\ iv[y][e] # "none" => inv[y][e] # "none"
                                        /\ iv[y][e] = "uncertain" => inv[y][e] = "uncertain"
                                        /\ iv[y][e] \in Ambiguous => inv[y][e] \in Ambiguous
  BY DecidedFacts
<1>3. \A y \in Runs, e \in Actions : inv[y][e] \in {"none", "inflight"} => iv[y][e] = inv[y][e]
  BY DEF Decided
<1>4. /\ \A y \in Runs : Src(y)' = Src(y) /\ ActionsOf(y)' = ActionsOf(y)
      /\ \A y \in Runs : /\ (Live(y)' <=> Live(y)) /\ (Forward(y)' <=> Forward(y)) /\ (Undoing(y)' <=> Undoing(y))
                         /\ \A e \in Actions : Doing(y, e)' <=> Doing(y, e)
      /\ \A y \in Children : SourcesOf(y)' = SourcesOf(y)
  BY DEF Src, SourcesOf, ActionsOf, SiblingsOf, Live, Forward, Undoing, Doing, NextAction
<1>5. RowInv'
  BY <1>2, <1>3, <1>4 DEF BundleInv, RowInv, RowsBegin, RowBegins, InflightAlone, ChangeIsOwned, Inverses
<1>6. Shapes' /\ Alone'
  BY <1>4 DEF BundleInv, RunInv, Shapes, Shape, Alone
<1>7. Apart'
  BY <1>4 DEF BundleInv, RunInv, Apart, DevicesOf, Members
<1>8. Forwards'
  BY <1>3, <1>4 DEF BundleInv, RunInv, Forwards, ForwardFits
<1>9. Undos'
  <2>1. ASSUME NEW y \in Runs, NEW a \in Actions, HomeOf[a] \in Src(y), Undoing(y) PROVE UndoFits(y, a)'
    <3>1. UndoFits(y, a)
      BY <2>1 DEF BundleInv, RunInv, Undos
    <3>2. QED
      BY <1>2, <1>3, <1>4, <3>1 DEF UndoFits
  <2>2. QED
    BY <1>4, <2>1 DEF Undos
<1>10. States'
  BY <1>3, <1>4 DEF BundleInv, OwnerInv, States
<1>11. Plans' /\ ClaimExclusive' /\ CreatedForSucceeded' /\ VerdictIsTrue'
  BY DEF BundleInv, OwnerInv, Plans, ClaimExclusive, CreatedForSucceeded, VerdictIsTrue
<1>12. RowsHeld'
  BY <1>2 DEF BundleInv, OwnerInv, RowsHeld, RowHeld
<1>13. Sources'
  <2>1. ASSUME NEW z \in Children, NEW s \in SourcesOf(z) PROVE SourceFits(z, s)'
    <3>1. SourceFits(z, s) /\ s \in Bundles /\ SiblingsOf(s)' = SiblingsOf(s) /\ SiblingsOf(s) \subseteq Actions
      BY <2>1 DEF BundleInv, OwnerInv, Sources, SourcesOf, SiblingsOf
    <3>2. ActivationCoverage(s, row, slot)'
      BY <3>1 DEF SourceFits, ActivationCoverage
    <3>3. Outstanding(SiblingsOf(s), row, iv) \subseteq Outstanding(SiblingsOf(s), row, inv)
      BY <1>2, <3>1
    <3>4. /\ settlement[z][s] = "known_no_write" =>
               task[z].pc = "done" /\ \A a \in Actions : iv[z][a] \notin Ambiguous
          /\ settlement[z][s] = "restored" => /\ Outstanding(SiblingsOf(s), row, iv) = {}
                                              /\ \A a \in SiblingsOf(s), y \in Runs : iv[y][a] \notin Ambiguous
          /\ settlement[z][s] \in {"active", "blocked"} => Outstanding(SiblingsOf(s), row, iv) \subseteq plan[z]
      BY <1>2, <3>1, <3>3 DEF SourceFits
    <3>5. /\ \E a \in SiblingsOf(s) : row[a] # "none"
          /\ \A a \in SiblingsOf(s) : row[a] \notin Ambiguous
          /\ \A w \in SourcesOf(z) : /\ settlement[z][s] = "active" <=> settlement[z][w] = "active"
                                     /\ settlement[z][s] = "blocked" <=> settlement[z][w] = "blocked"
          /\ Live(z) /\ task[z].stop # "ambiguous" => settlement[z][s] = "active"
          /\ settlement[z][s] = "active" => bstate[z] \in InFlight
      BY <3>1 DEF SourceFits
    <3>6. QED
      BY <1>4, <3>1, <3>2, <3>4, <3>5 DEF SourceFits
  <2>2. QED
    BY <1>4, <2>1 DEF Sources
<1>14. QED
  BY <1>1, <1>5, <1>6, <1>7, <1>8, <1>9, <1>10, <1>11, <1>12, <1>13 DEF BundleInv, RunInv, OwnerInv

LEMMA ReconcileInverseStep ==
  ASSUME BundleInv, NEW x \in Runs, NEW a \in Actions, ReconcileInverse(x, a)
  PROVE  BundleInv'
<1> USE RunsAre
<1>1. TypeOK
  BY DEF BundleInv
<1> DEFINE r == IF eff[a] = "off" THEN "changed" ELSE "refused"
<1>2. PICK iv : iv = [inv EXCEPT ![x][a] = r]
  OBVIOUS
<1>3. /\ inv[x][a] = "uncertain" /\ inv' = iv /\ UNCHANGED <<policy, row, slot, eff, task, up, faults>>
      /\ \/ x \in Children /\ Outstanding(plan[x], row, iv) = {} /\ FinalizeChild(x, "succeeded", row, iv)
         \/ UNCHANGED <<bstate, window, member, claim, settlement, created, plan>>
  BY <1>2 DEF ReconcileInverse, ownership
<1>4. /\ iv \in [Runs -> [Actions -> RowStatus]] /\ iv[x][a] = r
      /\ \A y \in Runs, e \in Actions : y # x \/ e # a => iv[y][e] = inv[y][e]
  <2>1. inv \in [Runs -> [Actions -> RowStatus]] /\ inv[x] \in [Actions -> RowStatus] /\ r \in RowStatus
    BY <1>1 DEF TypeOK, RowStatus
  <2> HIDE DEF r
  <2>2. PICK f : f = [inv[x] EXCEPT ![a] = r]
    OBVIOUS
  <2>3. f \in [Actions -> RowStatus] /\ f[a] = r /\ \A e \in Actions \ {a} : f[e] = inv[x][e]
    BY <2>1, <2>2
  <2>4. iv = [inv EXCEPT ![x] = f]
    BY <1>2, <2>2
  <2>5. QED
    BY <2>1, <2>3, <2>4
<1>5. Decided(x, iv)
  BY <1>3, <1>4 DEF Decided
<1>6. CASE UNCHANGED <<bstate, window, member, claim, settlement, created, plan>>
  BY <1>3, <1>4, <1>5, <1>6, InverseResolved
<1>7. CASE x \in Children /\ Outstanding(plan[x], row, iv) = {} /\ FinalizeChild(x, "succeeded", row, iv)
  <2>1. a \in plan[x] /\ HomeOf[a] \in SourcesOf(x)
    BY <1>3, <1>7 DEF BundleInv, RowInv, Inverses, ActionsOf, OwnerInv, Plans, SourcesOf
  <2>2. SourceFits(x, HomeOf[a]) /\ a \in SiblingsOf(HomeOf[a]) /\ HomeOf[a] \in Bundles
    BY <1>7, <2>1 DEF BundleInv, OwnerInv, Sources, SiblingsOf
  <2>3. settlement[x][HomeOf[a]] \in Settlements /\ settlement[x][HomeOf[a]] # "none"
    BY <1>1, <1>7, <2>1, <2>2 DEF TypeOK, SourcesOf
  <2>4. settlement[x][HomeOf[a]] \in {"active", "blocked"}
    <3>1. settlement[x][HomeOf[a]] # "restored"
      BY <1>3, <2>2 DEF SourceFits, Ambiguous
    <3>2. settlement[x][HomeOf[a]] # "known_no_write"
      BY <1>3, <2>2 DEF SourceFits, Ambiguous
    <3>3. QED
      BY <2>3, <3>1, <3>2 DEF Settlements
  <2>5. \A s \in SourcesOf(x) : settlement[x][s] \in {"active", "blocked"}
    BY <2>2, <2>4 DEF SourceFits
  <2>6. bstate[x] # "none"
    BY <1>7, <2>1 DEF BundleInv, OwnerInv, States
  <2>7. PICK terminal : terminal = "succeeded"
    OBVIOUS
  <2>8. Settling(x, terminal, iv) /\ FinalizeChild(x, terminal, row, iv)
    BY <1>7, <2>5, <2>6, <2>7 DEF Settling
  <2>9. Live(x)' => task'[x].stop = "ambiguous"
    <3>1. Live(x) => task[x].stop = "ambiguous"
      <4>1. SUFFICES ASSUME Live(x), task[x].stop # "ambiguous" PROVE FALSE
        OBVIOUS
      <4>2. Undoing(x) /\ HomeOf[a] \in Src(x)
        BY <1>7, <2>1, <4>1 DEF BundleInv, RunInv, Shapes, Shape, Undoing, Src
      <4>3. QED
        BY <1>3, <4>1, <4>2 DEF BundleInv, RunInv, Undos, UndoFits
    <3>2. QED
      BY <1>3, <3>1 DEF Live
  <2>10. task' \in [Runs -> Tasks] /\ faults' \in 0 .. MaxFaults /\ task' = task
    BY <1>1, <1>3 DEF TypeOK
  <2>11. QED
    BY <1>3, <1>4, <1>5, <1>7, <2>7, <2>8, <2>9, <2>10, FinalizeStep
<1>8. QED
  BY <1>3, <1>6, <1>7

-----------------------------------------------------------------------------
(* The end of a run *)

\* x is no longer driven: it is given up as it stands, or it reaches a terminal state.
\* Only a bundle's own rows and memberships change with it.
LEMMA RunEnds ==
  ASSUME BundleInv, TypeOK', NEW x \in Runs, x \in Bundles => bstate[x] \in InFlight,
         bstate[x] # "none", task'[x].pc = "done",
         UNCHANGED <<policy, inv, slot, eff, claim, settlement, created, plan, up>>,
         \A y \in Runs \ {x} : task'[y] = task[y] /\ bstate'[y] = bstate[y],
         \/ bstate'[x] = bstate[x]
         \/ x \in Bundles /\ bstate'[x] \notin InFlight \cup {"none"},
         member' \subseteq member, \A m \in member : m \in member' \/ m[2] = x,
         \A a \in Actions : row'[a] = row[a] \/ (HomeOf[a] = x /\ row[a] = "changed" /\ row'[a] = "uncertain"),
         \A a \in Actions : HomeOf[a] = x => RowHeld(a)',
         bstate'[x] \in {"compensated", "failed"} /\ x \in Bundles => \A a \in Actions : HomeOf[a] = x => eff[a] = "off",
         InflightAlone'
  PROVE  BundleInv'
<1> USE RunsAre
<1>1. \A c \in Children : x \notin SourcesOf(c)
  BY DEF BundleInv, OwnerInv, Sources, SourceFits, ActivationCoverage, SourcesOf
<1>2. /\ ~Live(x)' /\ (\A a \in Actions : ~Doing(x, a)')
      /\ \A y \in Runs : Src(y)' = Src(y) /\ ActionsOf(y)' = ActionsOf(y)
      /\ \A y \in Children : SourcesOf(y)' = SourcesOf(y)
      /\ \A y \in Runs \ {x} : /\ NextAction(y)' = NextAction(y) /\ (Live(y)' <=> Live(y))
                               /\ (Forward(y)' <=> Forward(y)) /\ (Undoing(y)' <=> Undoing(y))
                               /\ \A a \in Actions : Doing(y, a)' <=> Doing(y, a)
  BY DEF Live, Forward, Undoing, Doing, Src, SourcesOf, ActionsOf, SiblingsOf, NextAction
<1>3. RowInv'
  <2>1. RowsBegin'
    BY DEF BundleInv, RowInv, RowsBegin, RowBegins
  <2>2. ChangeIsOwned'
    <3>1. \A a \in Actions : Inverted(a, inv') <=> Inverted(a, inv)
      BY DEF Inverted
    <3>2. QED
      BY <3>1 DEF BundleInv, RowInv, ChangeIsOwned
  <2>3. Inverses'
    BY <1>2 DEF BundleInv, RowInv, Inverses
  <2>4. QED
    BY <2>1, <2>2, <2>3 DEF RowInv
<1>4. Shapes'
  <2>1. \A y \in Runs \ {x} : Shape(y)'
    BY <1>2 DEF BundleInv, RunInv, Shapes, Shape
  <2>2. QED
    BY <1>2, <2>1 DEF Shapes, Shape
<1>5. Forwards'
  <2>1. ASSUME NEW y \in Bundles, NEW a \in Actions, HomeOf[a] = y, Forward(y), y # x PROVE ForwardFits(y, a)'
    BY <1>2, <2>1 DEF BundleInv, RunInv, Forwards, ForwardFits
  <2>2. QED
    BY <1>2, <2>1 DEF Forwards, Forward
<1>6. Undos'
  <2>1. ASSUME NEW y \in Runs, NEW a \in Actions, HomeOf[a] \in Src(y), Undoing(y), y # x PROVE UndoFits(y, a)'
    <3>1. HomeOf[a] # x
      BY <1>1, <2>1 DEF Src
    <3>2. QED
      BY <1>2, <2>1, <3>1 DEF BundleInv, RunInv, Undos, UndoFits
  <2>2. QED
    BY <1>2, <2>1 DEF Undos, Undoing
<1>7. Alone'
  BY <1>2 DEF BundleInv, RunInv, Alone
<1>8. \A b \in Bundles : bstate[b] = "succeeded" => bstate'[b] = "succeeded" /\ b # x
  BY DEF InFlight
<1>9. Apart'
  <2>1. SUFFICES ASSUME NEW b \in Bundles, b # x, Forward(b), task[b].pc \in {"windowed", "loop", "executing"},
                        NEW d \in DevicesOf(b)
                 PROVE  <<d, b>> \in member' /\ \A z \in Members(d, member') : z = b \/ bstate'[z] = "succeeded"
    <3>1. \A b \in Bundles : DevicesOf(b)' = DevicesOf(b)
      BY <1>2 DEF DevicesOf
    <3>2. QED
      BY <1>2, <3>1 DEF Apart, Forward
  <2>2. <<d, b>> \in member /\ \A z \in Members(d, member) : z = b \/ bstate[z] = "succeeded"
    BY <2>1 DEF BundleInv, RunInv, Apart
  <2>3. QED
    BY <1>8, <2>1, <2>2 DEF Members
<1>10. States'
  <2>1. task[x].pc # "idle" /\ bstate'[x] # "none"
    BY DEF BundleInv, OwnerInv, States
  <2>2. \A y \in Runs : bstate'[y] = "none" <=> task'[y].pc = "idle"
    BY <2>1 DEF BundleInv, OwnerInv, States
  <2>3. \A b \in Bundles : Live(b)' => bstate'[b] \in InFlight
    BY <1>2 DEF BundleInv, OwnerInv, States
  <2>4. \A a \in Actions : bstate'[HomeOf[a]] = "none" => row'[a] = "none"
    BY <2>1 DEF BundleInv, OwnerInv, States
  <2>5. \A a \in Actions, y \in Runs : bstate'[HomeOf[a]] \in InFlight /\ y # HomeOf[a] => inv'[y][a] = "none"
    BY DEF BundleInv, OwnerInv, States
  <2>6. \A c \in Children : bstate'[c] = "none" => plan'[c] = {} /\ SourcesOf(c)' = {}
    BY <1>2 DEF BundleInv, OwnerInv, States
  <2>7. QED
    BY <2>2, <2>3, <2>4, <2>5, <2>6 DEF States
<1>11. Plans' /\ ClaimExclusive'
  BY DEF BundleInv, OwnerInv, Plans, ClaimExclusive
<1>12. CreatedForSucceeded'
  BY <1>8 DEF BundleInv, OwnerInv, CreatedForSucceeded, TypeOK
<1>13. RowsHeld'
  <2>1. ASSUME NEW a \in Actions, HomeOf[a] # x PROVE RowHeld(a)'
    <3>1. RowHeld(a) /\ row'[a] = row[a] /\ bstate'[HomeOf[a]] = bstate[HomeOf[a]] /\ (Inverted(a, inv') <=> Inverted(a, inv))
      BY <2>1 DEF BundleInv, OwnerInv, RowsHeld, Inverted
    <3>2. QED
      BY <2>1, <3>1 DEF RowHeld
  <2>2. QED
    BY <2>1 DEF RowsHeld
<1>14. VerdictIsTrue'
  BY DEF BundleInv, OwnerInv, VerdictIsTrue
<1>15. Sources'
  <2>1. ASSUME NEW c \in Children, NEW s \in SourcesOf(c) PROVE SourceFits(c, s)'
    <3>1. SourceFits(c, s) /\ s \in Bundles /\ s # x /\ SiblingsOf(s)' = SiblingsOf(s) /\ SiblingsOf(s) \subseteq Actions
      BY <1>1, <2>1 DEF BundleInv, OwnerInv, Sources, SourcesOf, SiblingsOf
    <3>2. \A a \in SiblingsOf(s) : row'[a] = row[a]
      BY <3>1 DEF SiblingsOf
    <3>3. ActivationCoverage(s, row, slot)'
      BY <3>1, <3>2 DEF SourceFits, ActivationCoverage
    <3>4. Outstanding(SiblingsOf(s), row', inv') = Outstanding(SiblingsOf(s), row, inv)
      BY <3>1, <3>2 DEF Outstanding, Inverted
    <3>5. /\ Live(c)' /\ task'[c].stop # "ambiguous" => Live(c) /\ task[c].stop # "ambiguous"
          /\ task[c].pc = "done" => task'[c].pc = "done"
          /\ bstate'[c] = bstate[c]
      BY <1>2
    <3>6. /\ \E a \in SiblingsOf(s) : row'[a] # "none"
          /\ \A a \in SiblingsOf(s) : row'[a] \notin Ambiguous
      BY <3>1, <3>2 DEF SourceFits
    <3>7. QED
      BY <1>2, <3>1, <3>3, <3>4, <3>5, <3>6 DEF SourceFits
  <2>2. QED
    BY <1>2, <2>1 DEF Sources
<1>16. QED
  BY <1>3, <1>4, <1>5, <1>6, <1>7, <1>9, <1>10, <1>11, <1>12, <1>13, <1>14, <1>15 DEF BundleInv, RunInv, OwnerInv

\* finish_and_release and finish_blocked_with_alert of a bundle: memberships are given
\* back, and only the bundle's own, unless something is outstanding.
LEMMA ReleaseFacts ==
  ASSUME TypeOK, NEW b \in Bundles, NEW s \in BStates,
         \/ FinishAndRelease(b, s)
         \/ s = "compensation_blocked" /\ FinishBlocked(b)
  PROVE  /\ bstate' \in [Runs -> BStates] /\ bstate'[b] = s /\ \A y \in Runs \ {b} : bstate'[y] = bstate[y]
         /\ bstate[b] \in InFlight
         /\ member' \subseteq member /\ \A m \in member : m \in member' \/ m[2] = b
         /\ s # "succeeded" /\ Outstanding(SiblingsOf(b), row, inv) # {} => member' = member
         /\ FinishBlocked(b) => member' = member
         /\ window' \in [Devices -> Runs \cup {None, Quarantine}]
         /\ UNCHANGED <<claim, settlement, created, plan>>
<1> USE RunsAre
<1>1. CASE FinishBlocked(b) /\ s = "compensation_blocked"
  BY <1>1 DEF FinishBlocked, ownership, TypeOK
<1>2. CASE FinishAndRelease(b, s)
  <2>1. bstate[b] \in InFlight /\ bstate' = [bstate EXCEPT ![b] = s] /\ UNCHANGED <<claim, settlement, created, plan>>
    BY <1>2 DEF FinishAndRelease
  <2>2. PICK M : M = IF s = "succeeded" \/ Outstanding(SiblingsOf(b), row, inv) = {}
                     THEN {m \in member : m[2] # b} ELSE member
    OBVIOUS
  <2>3. /\ member' = M
        /\ window' = [d \in Devices |-> IF window[d] # b THEN window[d]
                                        ELSE IF Members(d, M) = {} THEN None ELSE Quarantine]
    BY <1>2, <2>2 DEF FinishAndRelease
  <2>4. M \subseteq member /\ \A m \in member : m \in M \/ m[2] = b
    BY <2>2
  <2>5. s # "succeeded" /\ Outstanding(SiblingsOf(b), row, inv) # {} => M = member
    BY <2>2
  <2>6. window' \in [Devices -> Runs \cup {None, Quarantine}]
    BY <2>3 DEF TypeOK
  <2>7. FinishBlocked(b) => member' = member
    BY DEF FinishBlocked, ownership
  <2>8. QED
    BY <2>1, <2>3, <2>4, <2>5, <2>6, <2>7 DEF TypeOK
<1>3. QED
  BY <1>1, <1>2

\* A run refused before its first row.
LEMMA RefusedStep ==
  ASSUME BundleInv, NEW x \in Runs, AcquireRefused(x) \/ PreflightRefused(x)
  PROVE  BundleInv'
<1> USE RunsAre
<1>1. TypeOK
  BY DEF BundleInv
<1>2. /\ task[x].pc \in {"admitted", "windowed"} /\ Finish(x, "failed") /\ task' = [task EXCEPT ![x] = Ended]
      /\ UNCHANGED <<policy, row, inv, slot, eff, up>>
  BY DEF AcquireRefused, PreflightRefused, rows
<1>3. faults' \in 0 .. MaxFaults
  <2>1. faults' = faults \/ Fault("refused")
    BY DEF AcquireRefused, PreflightRefused
  <2>2. QED
    BY <1>1, <2>1, FaultTyped DEF TypeOK
<1>4. Live(x) /\ Shape(x)
  BY <1>2 DEF Live, BundleInv, RunInv, Shapes
<1>5. CASE x \in Children
  <2>1. PICK terminal : terminal = "failed"
    OBVIOUS
  <2>2. FinalizeChild(x, terminal, row, inv) /\ terminal # "succeeded"
    BY <1>2, <1>5, <2>1 DEF Finish
  <2>3. QED
    BY <1>2, <1>3, <1>4, <1>5, <2>2, ChildEnds
<1>6. CASE x \in Bundles
  <2>1. FinishAndRelease(x, "failed")
    BY <1>2, <1>6 DEF Finish
  <2>2. /\ bstate' \in [Runs -> BStates] /\ bstate'[x] = "failed" /\ \A y \in Runs \ {x} : bstate'[y] = bstate[y]
        /\ bstate[x] \in InFlight
        /\ member' \subseteq member /\ \A m \in member : m \in member' \/ m[2] = x
        /\ window' \in [Devices -> Runs \cup {None, Quarantine}]
        /\ UNCHANGED <<claim, settlement, created, plan>>
    <3>1. "failed" \in BStates
      BY DEF BStates
    <3>2. QED
      BY <1>1, <1>6, <2>1, <3>1, ReleaseFacts
  <2>3. \A a \in Actions : HomeOf[a] = x => row[a] = "none" /\ eff[a] = "off"
    <3>1. ASSUME NEW a \in Actions, HomeOf[a] = x PROVE row[a] = "none" /\ eff[a] = "off"
      <4>1. a \in task[x].todo /\ ~task[x].undo /\ ~Doing(x, a)
        BY <1>2, <1>4, <1>6, <3>1 DEF Shape, ActionsOf, SiblingsOf, Doing
      <4>2. ForwardFits(x, a) /\ RowBegins(a)
        BY <1>4, <1>6, <3>1, <4>1 DEF BundleInv, RunInv, Forwards, Forward, RowInv, RowsBegin
      <4>3. QED
        BY <4>1, <4>2 DEF ForwardFits, RowBegins
    <3>2. QED
      BY <3>1
  <2>4. task' \in [Runs -> Tasks] /\ task'[x].pc = "done" /\ \A y \in Runs \ {x} : task'[y] = task[y]
    BY <1>1, <1>2, EndedTask, TaskSet
  <2>5. TypeOK'
    BY <1>1, <1>2, <1>3, <2>2, <2>4 DEF TypeOK
  <2>6. \A a \in Actions : HomeOf[a] = x => RowHeld(a)'
    BY <1>2, <2>3 DEF RowHeld
  <2>7. InflightAlone'
    BY <1>2 DEF BundleInv, RowInv, InflightAlone
  <2>8. bstate[x] # "none" /\ bstate'[x] \notin InFlight \cup {"none"}
    BY <2>2 DEF InFlight
  <2>9. QED
    BY <1>2, <1>6, <2>2, <2>3, <2>4, <2>5, <2>6, <2>7, <2>8, RunEnds
<1>7. QED
  BY <1>5, <1>6

\* quarantine_changed_actions calls changes of x uncertain, while none of its rows is open
\* over a change.
LEMMA QuarantineFacts ==
  ASSUME BundleInv, NEW x \in Runs, task[x].pc = "closing", QuarantineChanged(x), UNCHANGED eff
  PROVE  /\ row' \in [Actions -> RowStatus]
         /\ \A a \in Actions : row'[a] = row[a] \/ (HomeOf[a] = x /\ row[a] = "changed" /\ row'[a] = "uncertain")
         /\ InflightAlone'
<1> USE RunsAre
<1>1. TypeOK /\ Live(x) /\ Shape(x)
  BY DEF BundleInv, RunInv, Shapes, Live
<1>2. CASE x \in Bundles /\ task[x].stop = "lost"
  <2>1. row' = [a \in Actions |-> IF a \in Applied(x) THEN "uncertain" ELSE row[a]]
    BY <1>2 DEF QuarantineChanged
  <2>2. \A a \in Applied(x) : a \in Actions /\ HomeOf[a] = x /\ row[a] = "changed"
    BY <1>1, <1>2 DEF Applied, Shape, ActionsOf, SiblingsOf
  <2>3. row' \in [Actions -> RowStatus]
    BY <1>1, <2>1 DEF TypeOK, RowStatus
  <2>4. \A a \in Actions : row'[a] = row[a] \/ (HomeOf[a] = x /\ row[a] = "changed" /\ row'[a] = "uncertain")
    BY <2>1, <2>2
  <2>5. \A e \in Actions : HomeOf[e] = x /\ eff[e] # "off" => row[e] = "changed"
    <3>1. ~task[x].undo
      BY <1>1, <1>2 DEF Shape
    <3>2. \A e \in Actions : ~Doing(x, e)
      BY DEF Doing
    <3>3. QED
      BY <1>1, <1>2, <3>1, <3>2 DEF BundleInv, RunInv, Forwards, Forward, ForwardFits
  <2>6. InflightAlone'
    BY <2>4, <2>5 DEF BundleInv, RowInv, InflightAlone
  <2>7. QED
    BY <2>3, <2>4, <2>6
<1>3. CASE ~(x \in Bundles /\ task[x].stop = "lost")
  <2>1. row' = row
    BY <1>3 DEF QuarantineChanged
  <2>2. QED
    BY <1>1, <2>1 DEF TypeOK, BundleInv, RowInv, InflightAlone
<1>4. QED
  BY <1>2, <1>3

LEMMA CloseLostStep == ASSUME BundleInv, NEW x \in Runs, CloseLost(x) PROVE BundleInv'
<1> USE RunsAre
<1>1. TypeOK
  BY DEF BundleInv
<1>2. /\ task[x].pc \in {"admitted", "closing"} /\ task' = [task EXCEPT ![x] = Ended] /\ Fault("dberr")
      /\ UNCHANGED <<bstate, policy, inv, slot, eff, window, member, claim, settlement, created, plan, up>>
      /\ row' = row \/ (task[x].pc = "closing" /\ QuarantineChanged(x))
  BY DEF CloseLost, ownership
<1>3. /\ row' \in [Actions -> RowStatus]
      /\ \A a \in Actions : row'[a] = row[a] \/ (HomeOf[a] = x /\ row[a] = "changed" /\ row'[a] = "uncertain")
      /\ InflightAlone'
  <2>1. CASE row' = row
    BY <1>1, <1>2, <2>1 DEF TypeOK, BundleInv, RowInv, InflightAlone
  <2>2. CASE task[x].pc = "closing" /\ QuarantineChanged(x)
    BY <1>2, <2>2, QuarantineFacts
  <2>3. QED
    BY <1>2, <2>1, <2>2
<1>4. task' \in [Runs -> Tasks] /\ task'[x].pc = "done" /\ \A y \in Runs \ {x} : task'[y] = task[y]
  BY <1>1, <1>2, EndedTask, TaskSet
<1>5. TypeOK'
  BY <1>1, <1>2, <1>3, <1>4, FaultTyped DEF TypeOK
<1>6. Live(x) /\ bstate[x] # "none" /\ (x \in Bundles => bstate[x] \in InFlight)
  BY <1>2 DEF Live, BundleInv, OwnerInv, States
<1>7. \A a \in Actions : RowHeld(a)'
  <2>1. \A a \in Actions : Inverted(a, inv') <=> Inverted(a, inv)
    BY <1>2 DEF Inverted
  <2>2. \A a \in Actions : row'[a] = "changed" => row[a] = "changed"
    BY <1>3
  <2>3. QED
    BY <1>2, <2>1, <2>2 DEF BundleInv, OwnerInv, RowsHeld, RowHeld
<1>8. x \in Bundles => bstate'[x] \notin {"compensated", "failed"}
  BY <1>2, <1>6 DEF InFlight
<1>9. QED
  BY <1>2, <1>3, <1>4, <1>5, <1>6, <1>7, <1>8, RunEnds

\* What the end of a bundle's run says about its actions.
LEMMA VerdictFacts ==
  ASSUME BundleInv, NEW b \in Bundles, task[b].pc = "closing"
  PROVE  /\ Verdict(b) \in {"compensation_blocked", "compensated", "aborted", "succeeded", "compensating"}
         /\ Verdict(b) = "compensated" => \A a \in Actions : HomeOf[a] = b => eff[a] = "off"
         /\ Verdict(b) \in {"compensated", "aborted"} =>
              \A a \in Actions : HomeOf[a] = b /\ eff[a] # "off" => row[a] = "changed"
         /\ task[b].stop = "lost" => Verdict(b) = "compensation_blocked"
         /\ Verdict(b) = "compensating" =>
              /\ ~task[b].undo /\ task[b].stop \notin {"ambiguous", "lost"} /\ Applied(b) # {}
<1> USE RunsAre
<1>1. TypeOK /\ Live(b) /\ Shape(b) /\ task[b] \in Tasks /\ b \notin Children
  BY TaskTyped DEF BundleInv, RunInv, Shapes, Live
<1>2. \A a \in Actions : ~Doing(b, a)
  BY DEF Doing
<1>3. CASE task[b].undo
  <2>1. task[b].stop # "lost"
    BY <1>1, <1>3 DEF Shape
  <2>2. CASE RanThrough(b)
    <3>1. Verdict(b) = "compensated"
      BY <1>1, <1>3, <2>2 DEF Verdict
    <3>2. task[b].stop = "no" /\ task[b].todo = {}
      BY <1>1, <2>2 DEF RanThrough, Shape
    <3>3. \A a \in Actions : HomeOf[a] = b => eff[a] = "off"
      BY <1>1, <1>3, <3>2 DEF BundleInv, RunInv, Undos, Undoing, UndoFits, Src
    <3>4. QED
      BY <2>1, <3>1, <3>3
  <2>3. CASE ~RanThrough(b)
    <3>1. Verdict(b) = "compensation_blocked"
      BY <1>1, <1>3, <2>3 DEF Verdict
    <3>2. QED
      BY <3>1
  <2>4. QED
    BY <2>2, <2>3
<1>4. CASE ~task[b].undo
  <2>1. CASE task[b].stop \in {"ambiguous", "lost"}
    <3>1. Verdict(b) = "compensation_blocked"
      BY <1>1, <1>4, <2>1 DEF Verdict
    <3>2. QED
      BY <3>1
  <2>2. CASE task[b].stop \notin {"ambiguous", "lost"}
    <3>1. \A a \in Actions : HomeOf[a] = b /\ eff[a] # "off" => row[a] = "changed"
      BY <1>1, <1>2, <1>4, <2>2 DEF BundleInv, RunInv, Forwards, Forward, ForwardFits
    <3>2. Verdict(b) \in {"aborted", "succeeded", "compensating"} /\ (Verdict(b) = "compensating" => Applied(b) # {})
      <4>1. CASE task[b].stop = "no"
        BY <1>1, <1>4, <4>1 DEF Verdict
      <4>2. CASE task[b].stop # "no"
        BY <1>1, <1>4, <2>2, <4>2 DEF Verdict
      <4>3. QED
        BY <4>1, <4>2
    <3>3. QED
      BY <1>4, <2>2, <3>1, <3>2
  <2>3. QED
    BY <2>1, <2>2
<1>5. QED
  BY <1>3, <1>4

LEMMA CloseStep == ASSUME BundleInv, NEW x \in Runs, Close(x) PROVE BundleInv'
<1> USE RunsAre
<1>1. TypeOK
  BY DEF BundleInv
<1>2. /\ task[x].pc = "closing" /\ Verdict(x) # "compensating" /\ Finish(x, Verdict(x)) /\ QuarantineChanged(x)
      /\ task' = [task EXCEPT ![x] = Ended] /\ UNCHANGED <<policy, inv, slot, eff, up, faults>>
  BY DEF Close
<1>3. Live(x) /\ faults' \in 0 .. MaxFaults
  BY <1>1, <1>2 DEF Live, TypeOK
<1>4. CASE x \in Children
  <2>1. row' = row
    BY <1>2, <1>4 DEF QuarantineChanged
  <2>2. PICK terminal : terminal = Verdict(x)
    OBVIOUS
  <2>3. FinalizeChild(x, terminal, row, inv) /\ (terminal = "succeeded" => Outstanding(plan[x], row, inv) = {})
    BY <1>2, <1>4, <2>2 DEF Finish, Verdict
  <2>4. QED
    BY <1>2, <1>3, <1>4, <2>1, <2>3, ChildEnds
<1>5. CASE x \in Bundles
  <2>1. PICK s : s = Verdict(x)
    OBVIOUS
  <2>2. s \in BStates /\ s \notin InFlight \cup {"none"} /\ s # "failed"
    BY <1>2, <1>5, <2>1, VerdictFacts DEF BStates, InFlight
  <2>3. (s = "compensation_blocked" /\ FinishBlocked(x)) \/ (s # "compensation_blocked" /\ FinishAndRelease(x, s))
    BY <1>2, <1>5, <2>1 DEF Finish
  <2>4. /\ bstate' \in [Runs -> BStates] /\ bstate'[x] = s /\ \A y \in Runs \ {x} : bstate'[y] = bstate[y]
        /\ bstate[x] \in InFlight
        /\ member' \subseteq member /\ \A m \in member : m \in member' \/ m[2] = x
        /\ s # "succeeded" /\ Outstanding(SiblingsOf(x), row, inv) # {} => member' = member
        /\ FinishBlocked(x) => member' = member
        /\ window' \in [Devices -> Runs \cup {None, Quarantine}]
        /\ UNCHANGED <<claim, settlement, created, plan>>
    BY <1>1, <1>5, <2>2, <2>3, ReleaseFacts
  <2>5. /\ row' \in [Actions -> RowStatus]
        /\ \A a \in Actions : row'[a] = row[a] \/ (HomeOf[a] = x /\ row[a] = "changed" /\ row'[a] = "uncertain")
        /\ InflightAlone'
    BY <1>2, QuarantineFacts
  <2>6. task' \in [Runs -> Tasks] /\ task'[x].pc = "done" /\ \A y \in Runs \ {x} : task'[y] = task[y]
    BY <1>1, <1>2, EndedTask, TaskSet
  <2>7. TypeOK'
    BY <1>1, <1>2, <2>4, <2>5, <2>6 DEF TypeOK
  <2>8. ASSUME NEW a \in Actions, HomeOf[a] = x PROVE RowHeld(a)'
    <3>1. Inverted(a, inv') <=> Inverted(a, inv)
      BY <1>2 DEF Inverted
    <3>2. bstate[x] # "succeeded" /\ RowHeld(a) /\ (row'[a] = "changed" => row[a] = "changed")
      BY <2>4, <2>5 DEF InFlight, BundleInv, OwnerInv, RowsHeld
    <3>3. CASE s = "compensation_blocked"
      BY <1>2, <2>3, <2>4, <2>8, <3>1, <3>2, <3>3 DEF RowHeld
    <3>4. CASE s \in {"compensated", "aborted"}
      <4>1. SUFFICES ASSUME row[a] = "changed" \/ eff[a] # "off", ~Inverted(a, inv)
                     PROVE  <<DeviceOf[a], HomeOf[a]>> \in member'
        BY <1>2, <3>1, <3>2 DEF RowHeld
      <4>2. row[a] = "changed"
        BY <1>2, <1>5, <2>1, <2>8, <3>4, <4>1, VerdictFacts
      <4>3. a \in Outstanding(SiblingsOf(x), row, inv)
        BY <2>8, <4>1, <4>2 DEF Outstanding, SiblingsOf
      <4>4. member' = member
        BY <2>4, <3>4, <4>3
      <4>5. QED
        BY <2>8, <3>2, <4>1, <4>4 DEF RowHeld
    <3>5. CASE s = "succeeded"
      BY <2>4, <2>8, <3>5 DEF RowHeld
    <3>6. QED
      BY <1>2, <1>5, <2>1, <3>3, <3>4, <3>5, VerdictFacts
  <2>9. bstate'[x] \in {"compensated", "failed"} => \A a \in Actions : HomeOf[a] = x => eff[a] = "off"
    BY <1>2, <1>5, <2>1, <2>2, <2>4, VerdictFacts
  <2>10. bstate[x] # "none"
    BY <2>4 DEF InFlight
  <2>11. QED
    BY <1>2, <1>5, <2>2, <2>4, <2>5, <2>6, <2>7, <2>8, <2>9, <2>10, RunEnds
<1>6. QED
  BY <1>4, <1>5

LEMMA RecoverBundleStep == ASSUME BundleInv, NEW b \in Bundles, RecoverBundle(b) PROVE BundleInv'
<1> USE RunsAre
<1>1. TypeOK
  BY DEF BundleInv
<1> DEFINE left == Outstanding(SiblingsOf(b), row, inv)
           devices == {DeviceOf[a] : a \in left}
           s == IF left # {} THEN "compensation_blocked" ELSE "aborted"
<1>2. /\ ~up /\ bstate[b] \in InFlight /\ bstate' = [bstate EXCEPT ![b] = s]
      /\ window' = [d \in Devices |-> IF d \in devices THEN b
                                      ELSE IF left = {} /\ window[d] = b THEN None ELSE window[d]]
      /\ UNCHANGED <<policy, row, inv, slot, eff, member, claim, settlement, created, plan, task, up, faults>>
  BY DEF RecoverBundle, rows
<1>3. s \in {"compensation_blocked", "aborted"}
  OBVIOUS
<1> HIDE DEF left, devices, s
<1>4. /\ bstate' \in [Runs -> BStates] /\ bstate'[b] = s /\ \A y \in Runs \ {b} : bstate'[y] = bstate[y]
      /\ window' \in [Devices -> Runs \cup {None, Quarantine}]
  BY <1>1, <1>2, <1>3 DEF TypeOK, BStates
<1>5. TypeOK'
  BY <1>1, <1>2, <1>4 DEF TypeOK
<1>6. task[b].pc = "done" /\ bstate[b] # "none" /\ bstate'[b] \notin InFlight \cup {"none"}
  BY <1>2, <1>3, <1>4 DEF BundleInv, OwnerInv, States, RunInv, Shapes, Shape, Live, InFlight
<1>7. \A a \in Actions : HomeOf[a] = b => RowHeld(a)'
  <2>1. bstate[b] # "succeeded"
    BY <1>2 DEF InFlight
  <2>2. QED
    BY <1>2, <2>1 DEF BundleInv, OwnerInv, RowsHeld, RowHeld, Inverted
<1>8. InflightAlone'
  BY <1>2 DEF BundleInv, RowInv, InflightAlone
<1>9. QED
  BY <1>2, <1>3, <1>4, <1>5, <1>6, <1>7, <1>8, RunEnds

-----------------------------------------------------------------------------
(* The beginning of a run, and of its compensation *)

LEMMA CompensateStep == ASSUME BundleInv, NEW b \in Runs, Compensate(b) PROVE BundleInv'
<1> USE RunsAre
<1>1. TypeOK /\ task[b] \in Tasks
  BY TaskTyped DEF BundleInv
<1>2. PICK t : t = [Idle EXCEPT !.pc = "loop", !.undo = TRUE, !.todo = Applied(b)]
  OBVIOUS
<1>3. /\ task[b].pc = "closing" /\ Verdict(b) = "compensating"
      /\ bstate' = [bstate EXCEPT ![b] = "compensating"] /\ task' = [task EXCEPT ![b] = t]
      /\ UNCHANGED <<policy, row, inv, slot, eff, window, member, claim, settlement, created, plan, up, faults>>
  BY <1>2 DEF Compensate, rows, ownership
<1>4. b \in Bundles
  <2>1. ASSUME b \in Children PROVE FALSE
    BY <1>3, <2>1 DEF Verdict
  <2>2. QED
    BY <2>1
<1>5. Live(b) /\ Shape(b) /\ bstate[b] \in InFlight /\ up
  BY <1>3, <1>4 DEF Live, Shape, BundleInv, RunInv, Shapes, OwnerInv, States
<1>6. ~task[b].undo /\ task[b].stop # "ambiguous" /\ Applied(b) # {}
  BY <1>3, <1>4, VerdictFacts
<1>7. Applied(b) \subseteq Actions /\ Applied(b) \subseteq ActionsOf(b)
  BY <1>1, <1>5 DEF Applied, Shape, Tasks
<1>8. t \in Tasks /\ t.pc = "loop" /\ t.undo = TRUE /\ t.todo = Applied(b) /\ t.good = {} /\ t.stop = "no"
  BY <1>2, <1>7 DEF Idle, Tasks, PCs, RowStatus
<1>9. task' \in [Runs -> Tasks] /\ task'[b] = t /\ \A y \in Runs \ {b} : task'[y] = task[y]
  BY <1>1, <1>3, <1>8, TaskSet
<1>10. /\ bstate' \in [Runs -> BStates] /\ bstate'[b] = "compensating" /\ \A y \in Runs \ {b} : bstate'[y] = bstate[y]
  BY <1>1, <1>3 DEF TypeOK, BStates, InFlight
<1>11. TypeOK'
  BY <1>1, <1>3, <1>9, <1>10 DEF TypeOK
<1>12. Shape(b)'
  <2>1. ActionsOf(b)' = ActionsOf(b)
    BY <1>3 DEF ActionsOf, SiblingsOf
  <2>2. QED
    BY <1>3, <1>4, <1>5, <1>6, <1>7, <1>8, <1>9, <2>1 DEF Shape
<1>13. ASSUME NEW a \in Actions, HomeOf[a] \in Src(b) PROVE UndoFits(b, a)'
  <2>1. HomeOf[a] = b
    BY <1>4, <1>13 DEF Src
  <2>2. ForwardFits(b, a) /\ ~Doing(b, a) /\ ~Doing(b, a)'
    BY <1>3, <1>4, <1>5, <1>6, <1>8, <1>9, <2>1 DEF BundleInv, RunInv, Forwards, Forward, Doing
  <2>3. eff[a] # "off" => a \in Applied(b)
    BY <1>6, <2>2 DEF ForwardFits, Applied
  <2>4. row[a] \notin {"uncertain", "cancelled"}
    BY <1>6, <2>2 DEF ForwardFits
  <2>5. \A y \in Runs : inv[y][a] # "uncertain"
    BY <1>5, <2>1, <2>2 DEF ForwardFits, BundleInv, OwnerInv, States
  <2>6. QED
    BY <1>3, <1>8, <1>9, <2>2, <2>3, <2>4, <2>5 DEF UndoFits
<1>14. RowsHeld'
  <2>1. bstate[b] # "succeeded" /\ \A a \in Actions : Inverted(a, inv') <=> Inverted(a, inv)
    BY <1>3, <1>5 DEF InFlight, Inverted
  <2>2. QED
    BY <1>3, <1>10, <2>1 DEF BundleInv, OwnerInv, RowsHeld, RowHeld
<1>15. Apart'
  <2>1. \A z \in Bundles : Forward(z)' => z # b /\ Forward(z) /\ task'[z] = task[z]
    BY <1>8, <1>9 DEF Forward, Live
  <2>2. \A z \in Bundles : bstate[z] = "succeeded" => bstate'[z] = "succeeded"
    BY <1>5, <1>10 DEF InFlight
  <2>3. QED
    BY <1>3, <2>1, <2>2 DEF BundleInv, RunInv, Apart, DevicesOf, ActionsOf, SiblingsOf, Members
<1>16. ~Forward(b)' /\ bstate'[b] \in InFlight
  BY <1>8, <1>9, <1>10 DEF Forward, InFlight
<1>17. QED
  BY <1>3, <1>4, <1>5, <1>8, <1>9, <1>10, <1>11, <1>12, <1>13, <1>14, <1>15, <1>16, MemoryStep

LEMMA CreateStep == ASSUME BundleInv, NEW b \in Bundles, Create(b) PROVE BundleInv'
<1> USE RunsAre
<1>1. TypeOK
  BY DEF BundleInv
<1>2. PICK t : t = [Idle EXCEPT !.pc = "admitted", !.todo = SiblingsOf(b)]
  OBVIOUS
<1>3. /\ up /\ bstate[b] = "none"
      /\ bstate' = [bstate EXCEPT ![b] = "planned"] /\ task' = [task EXCEPT ![b] = t]
      /\ UNCHANGED <<policy, row, inv, slot, eff, window, member, claim, settlement, created, plan, up, faults>>
  BY <1>2 DEF Create, rows, ownership
<1>4. SiblingsOf(b) \subseteq Actions /\ SiblingsOf(b) # {} /\ ActionsOf(b) = SiblingsOf(b)
  BY BundleAssumption DEF SiblingsOf, ActionsOf
<1>5. t \in Tasks /\ t.pc = "admitted" /\ ~t.undo /\ t.todo = SiblingsOf(b) /\ t.good = {} /\ t.stop = "no"
  BY <1>2, <1>4 DEF Idle, Tasks, PCs, RowStatus
<1>6. task' \in [Runs -> Tasks] /\ task'[b] = t /\ \A y \in Runs \ {b} : task'[y] = task[y]
  BY <1>1, <1>3, <1>5, TaskSet
<1>7. /\ bstate' \in [Runs -> BStates] /\ bstate'[b] = "planned" /\ \A y \in Runs \ {b} : bstate'[y] = bstate[y]
  BY <1>1, <1>3 DEF TypeOK, BStates, InFlight
<1>8. TypeOK'
  BY <1>1, <1>3, <1>6, <1>7 DEF TypeOK
<1>9. Shape(b)'
  <2>1. ActionsOf(b)' = SiblingsOf(b)
    BY <1>4 DEF ActionsOf, SiblingsOf
  <2>2. QED
    BY <1>3, <1>4, <1>5, <1>6, <2>1 DEF Shape
<1>10. ASSUME NEW a \in Actions, HomeOf[a] = b PROVE ForwardFits(b, a)'
  <2>1. row[a] = "none" /\ RowBegins(a)
    BY <1>3, <1>10 DEF BundleInv, OwnerInv, States, RowInv, RowsBegin
  <2>2. a \in SiblingsOf(b) /\ ~Doing(b, a)'
    BY <1>5, <1>6, <1>10 DEF SiblingsOf, Doing
  <2>3. QED
    BY <1>3, <1>5, <1>6, <2>1, <2>2 DEF ForwardFits, RowBegins
<1>11. RowsHeld'
  <2>1. \A a \in Actions : HomeOf[a] = b => row[a] = "none" /\ eff[a] = "off"
    BY <1>3 DEF BundleInv, OwnerInv, States, RowInv, RowsBegin, RowBegins
  <2>2. \A a \in Actions : Inverted(a, inv') <=> Inverted(a, inv)
    BY <1>3 DEF Inverted
  <2>3. QED
    BY <1>3, <1>7, <2>1, <2>2 DEF BundleInv, OwnerInv, RowsHeld, RowHeld
<1>12. Apart'
  <2>1. \A z \in Bundles : Forward(z)' /\ task'[z].pc \in {"windowed", "loop", "executing"} => z # b /\ Forward(z) /\ task'[z] = task[z]
    BY <1>5, <1>6 DEF Forward, Live
  <2>2. \A z \in Bundles : bstate[z] = "succeeded" => bstate'[z] = "succeeded"
    BY <1>3, <1>7
  <2>3. QED
    BY <1>3, <2>1, <2>2 DEF BundleInv, RunInv, Apart, DevicesOf, ActionsOf, SiblingsOf, Members
<1>13. ~Undoing(b)' /\ bstate'[b] \in InFlight
  BY <1>5, <1>6, <1>7 DEF Undoing, InFlight
<1>14. QED
  BY <1>3, <1>5, <1>6, <1>7, <1>8, <1>9, <1>10, <1>11, <1>12, <1>13, MemoryStep

-----------------------------------------------------------------------------
(* Crash and startup *)

\* Nobody is driven: what concerns runs holds of itself.
LEMMA NobodyDriven ==
  ASSUME \A x \in Runs : ~Live(x)'
  PROVE  RunInv'
<1>1. \A x \in Runs : ~Forward(x)' /\ ~Undoing(x)' /\ \A a \in Actions : ~Doing(x, a)'
  BY DEF Forward, Undoing, Doing, Live
<1>2. Shapes' /\ Alone'
  BY <1>1 DEF Shapes, Shape, Alone
<1>3. Forwards' /\ Undos' /\ Apart'
  BY <1>1, RunsAre DEF Forwards, Undos, Apart
<1>4. QED
  BY <1>2, <1>3 DEF RunInv

LEMMA CrashStep == ASSUME BundleInv, Crash PROVE BundleInv'
<1> USE RunsAre
<1>1. TypeOK
  BY DEF BundleInv
<1>2. /\ task' = [x \in Runs |-> IF task[x].pc = "idle" THEN Idle ELSE Ended] /\ up' = FALSE /\ Fault("crash")
      /\ UNCHANGED <<bstate, policy, row, inv, slot, eff, window, member, claim, settlement, created, plan>>
  BY DEF Crash, rows, ownership
<1>3. Idle \in Tasks /\ Idle.pc = "idle"
  BY DEF Idle, Tasks, PCs, RowStatus
<1>4. \A x \in Runs : task'[x] \in Tasks /\ task'[x].pc = IF task[x].pc = "idle" THEN "idle" ELSE "done"
  BY <1>2, <1>3, EndedTask
<1>5. TypeOK'
  BY <1>1, <1>2, <1>4, FaultTyped DEF TypeOK
<1>6. \A x \in Runs : ~Live(x)'
  BY <1>4 DEF Live
<1>7. RunInv'
  BY <1>6, NobodyDriven
<1>8. RowInv'
  BY <1>2 DEF BundleInv, RowInv, RowsBegin, RowBegins, ChangeIsOwned, InflightAlone, Inverses, ActionsOf, SiblingsOf, Inverted
<1>9. States'
  BY <1>2, <1>4, <1>6 DEF BundleInv, OwnerInv, States, SourcesOf
<1>10. Plans' /\ ClaimExclusive' /\ CreatedForSucceeded' /\ VerdictIsTrue'
  BY <1>2 DEF BundleInv, OwnerInv, Plans, ClaimExclusive, CreatedForSucceeded, VerdictIsTrue
<1>11. RowsHeld'
  BY <1>2 DEF BundleInv, OwnerInv, RowsHeld, RowHeld, Inverted
<1>12. Sources'
  <2>1. ASSUME NEW c \in Children, NEW s \in SourcesOf(c) PROVE SourceFits(c, s)'
    <3>1. SourceFits(c, s) /\ s \in Bundles
      BY <2>1 DEF BundleInv, OwnerInv, Sources, SourcesOf
    <3>2. ActivationCoverage(s, row, slot)'
      BY <1>2, <3>1 DEF SourceFits, ActivationCoverage, SiblingsOf
    <3>3. ~Live(c)' /\ (task[c].pc = "done" => task'[c].pc = "done")
      BY <1>4, <1>6
    <3>4. SourcesOf(c)' = SourcesOf(c) /\ SiblingsOf(s)' = SiblingsOf(s)
      BY <1>2 DEF SourcesOf, SiblingsOf
    <3>5. QED
      BY <1>2, <3>1, <3>2, <3>3, <3>4 DEF SourceFits, Outstanding, Inverted
  <2>2. QED
    BY <1>2, <2>1 DEF Sources, SourcesOf
<1>13. QED
  BY <1>5, <1>7, <1>8, <1>9, <1>10, <1>11, <1>12 DEF BundleInv, OwnerInv

LEMMA NobodyUp == ASSUME BundleInv, ~up PROVE \A x \in Runs : ~Live(x)
  BY DEF BundleInv, RunInv, Shapes, Shape

LEMMA StartStep == ASSUME BundleInv, Start PROVE BundleInv'
<1> USE RunsAre
<1>1. UNCHANGED <<bstate, policy, row, inv, slot, eff, window, member, claim, settlement, created, plan, task, faults>>
      /\ up' = TRUE /\ ~up
  BY DEF Start, rows, ownership
<1>2. \A x \in Runs : ~Live(x)'
  BY <1>1, NobodyUp DEF Live
<1>3. RunInv'
  BY <1>2, NobodyDriven
<1>4. TypeOK'
  BY <1>1 DEF BundleInv, TypeOK
<1>5. RowInv'
  BY <1>1 DEF BundleInv, RowInv, RowsBegin, RowBegins, ChangeIsOwned, InflightAlone, Inverses, ActionsOf, SiblingsOf, Inverted
<1>6. States' /\ Plans' /\ ClaimExclusive' /\ CreatedForSucceeded' /\ VerdictIsTrue'
  BY <1>1 DEF BundleInv, OwnerInv, States, SourcesOf, Live, Plans, ClaimExclusive, CreatedForSucceeded, VerdictIsTrue
<1>7. RowsHeld'
  BY <1>1 DEF BundleInv, OwnerInv, RowsHeld, RowHeld, Inverted
<1>8. Sources'
  BY <1>1 DEF BundleInv, OwnerInv, Sources, SourcesOf, SourceFits, ActivationCoverage, SiblingsOf, Outstanding, Inverted, Live
<1>9. QED
  BY <1>3, <1>4, <1>5, <1>6, <1>7, <1>8 DEF BundleInv, OwnerInv

LEMMA RecoverRowsStep == ASSUME BundleInv, RecoverRows PROVE BundleInv'
<1> USE RunsAre
<1>1. TypeOK
  BY DEF BundleInv
<1>2. /\ row' = [a \in Actions |-> IF row[a] = "inflight" THEN "uncertain" ELSE row[a]]
      /\ inv' = [x \in Runs |-> [a \in Actions |-> IF inv[x][a] = "inflight" THEN "uncertain" ELSE inv[x][a]]]
      /\ UNCHANGED <<bstate, policy, slot, eff, window, member, claim, settlement, created, plan, task, up, faults>>
      /\ ~up
  BY DEF RecoverRows, ownership
<1>3. /\ row' \in [Actions -> RowStatus] /\ inv' \in [Runs -> [Actions -> RowStatus]]
  BY <1>1, <1>2 DEF TypeOK, RowStatus
<1>4. /\ \A a \in Actions : row'[a] = row[a] \/ (row[a] = "inflight" /\ row'[a] = "uncertain")
      /\ \A a \in Actions : row'[a] # "inflight"
      /\ \A x \in Runs, a \in Actions : inv'[x][a] = inv[x][a] \/ (inv[x][a] = "inflight" /\ inv'[x][a] = "uncertain")
  BY <1>2
<1>5. TypeOK'
  BY <1>1, <1>2, <1>3 DEF TypeOK
<1>6. \A x \in Runs : ~Live(x)'
  BY <1>2, NobodyUp DEF Live
<1>7. RunInv'
  BY <1>6, NobodyDriven
<1>8. \A a \in Actions : Inverted(a, inv') <=> Inverted(a, inv)
  BY <1>4 DEF Inverted
<1>9. RowInv'
  <2>1. RowsBegin'
    BY <1>2, <1>4 DEF BundleInv, RowInv, RowsBegin, RowBegins
  <2>2. ChangeIsOwned'
    BY <1>2, <1>4, <1>8 DEF BundleInv, RowInv, ChangeIsOwned
  <2>3. InflightAlone'
    BY <1>4 DEF InflightAlone
  <2>4. Inverses'
    <3>1. \A x \in Runs, a \in Actions : inv'[x][a] # "none" => inv[x][a] # "none"
      BY <1>4
    <3>2. \A x \in Runs : ActionsOf(x)' = ActionsOf(x)
      BY <1>2 DEF ActionsOf, SiblingsOf
    <3>3. QED
      BY <3>1, <3>2 DEF BundleInv, RowInv, Inverses
  <2>5. QED
    BY <2>1, <2>2, <2>3, <2>4 DEF RowInv
<1>10. States'
  BY <1>2, <1>4 DEF BundleInv, OwnerInv, States, SourcesOf, Live
<1>11. Plans' /\ ClaimExclusive' /\ CreatedForSucceeded' /\ VerdictIsTrue'
  BY <1>2 DEF BundleInv, OwnerInv, Plans, ClaimExclusive, CreatedForSucceeded, VerdictIsTrue
<1>12. RowsHeld'
  BY <1>2, <1>4, <1>8 DEF BundleInv, OwnerInv, RowsHeld, RowHeld
<1>13. Sources'
  <2>1. ASSUME NEW c \in Children, NEW s \in SourcesOf(c) PROVE SourceFits(c, s)'
    <3>1. SourceFits(c, s) /\ s \in Bundles /\ SiblingsOf(s)' = SiblingsOf(s) /\ SiblingsOf(s) \subseteq Actions
      BY <2>1 DEF BundleInv, OwnerInv, Sources, SourcesOf, SiblingsOf
    <3>2. \A a \in SiblingsOf(s) : row'[a] = row[a]
      BY <1>4, <3>1 DEF SourceFits, Ambiguous
    <3>3. ActivationCoverage(s, row, slot)'
      BY <1>2, <3>1, <3>2 DEF SourceFits, ActivationCoverage
    <3>4. Outstanding(SiblingsOf(s), row', inv') = Outstanding(SiblingsOf(s), row, inv)
      BY <1>8, <3>1, <3>2 DEF Outstanding
    <3>5. \A x \in Runs, a \in Actions : inv'[x][a] \in Ambiguous => inv[x][a] \in Ambiguous
      BY <1>4 DEF Ambiguous
    <3>6. SourcesOf(c)' = SourcesOf(c) /\ ~Live(c)'
      BY <1>2, <1>6 DEF SourcesOf
    <3>7. /\ \E a \in SiblingsOf(s) : row'[a] # "none"
          /\ \A a \in SiblingsOf(s) : row'[a] \notin Ambiguous
      BY <3>1, <3>2 DEF SourceFits
    <3>8. /\ settlement[c][s] = "known_no_write" => task[c].pc = "done" /\ \A a \in Actions : inv'[c][a] \notin Ambiguous
          /\ settlement[c][s] = "restored" => \A a \in SiblingsOf(s), y \in Runs : inv'[y][a] \notin Ambiguous
      BY <3>1, <3>5 DEF SourceFits
    <3>9. QED
      BY <1>2, <3>1, <3>3, <3>4, <3>6, <3>7, <3>8 DEF SourceFits
  <2>2. QED
    BY <1>2, <2>1 DEF Sources, SourcesOf
<1>14. QED
  BY <1>5, <1>7, <1>9, <1>10, <1>11, <1>12, <1>13 DEF BundleInv, OwnerInv

-----------------------------------------------------------------------------
(* Reconciliation and the world *)

LEMMA DriftStep == ASSUME BundleInv, NEW a \in Actions, Drift(a) PROVE BundleInv'
<1> USE RunsAre
<1>1. TypeOK
  BY DEF BundleInv
<1>2. /\ \A x \in Runs : task[x].pc \in {"loop", "executing", "closing"} => DeviceOf[a] \notin DevicesOf(x)
      /\ eff[a] # "off" /\ UNCHANGED <<bstate, policy, row, inv, slot, window, member, claim, settlement, created, plan, task, up>>
      /\ \E v \in {"off", "on"} : eff' = [eff EXCEPT ![a] = v]
  BY DEF Drift, rows, ownership
<1>3. /\ eff' \in [Actions -> {"off", "on", "partial"}] /\ \A e \in Actions \ {a} : eff'[e] = eff[e]
  BY <1>1, <1>2 DEF TypeOK
<1>4. \A e \in Actions : eff'[e] # "off" => eff[e] # "off"
  BY <1>2, <1>3
<1>5. faults' \in 0 .. MaxFaults
  <2>1. faults' = faults \/ Fault("drift")
    BY DEF Drift
  <2>2. QED
    BY <1>1, <2>1, FaultTyped DEF TypeOK
<1>6. TypeOK'
  BY <1>1, <1>2, <1>3, <1>5 DEF TypeOK
<1>7. row[a] # "none"
  BY <1>2 DEF BundleInv, RowInv, RowsBegin, RowBegins
<1>8. RowInv'
  <2>1. \A e \in Actions : Inverted(e, inv') <=> Inverted(e, inv)
    BY <1>2 DEF Inverted
  <2>2. RowsBegin'
    BY <1>2, <1>3, <1>7 DEF BundleInv, RowInv, RowsBegin, RowBegins
  <2>3. ChangeIsOwned' /\ InflightAlone'
    BY <1>2, <1>4, <2>1 DEF BundleInv, RowInv, ChangeIsOwned, InflightAlone
  <2>4. Inverses'
    BY <1>2 DEF BundleInv, RowInv, Inverses, ActionsOf, SiblingsOf
  <2>5. QED
    BY <2>2, <2>3, <2>4 DEF RowInv
<1>9. /\ \A y \in Runs : Src(y)' = Src(y) /\ ActionsOf(y)' = ActionsOf(y)
      /\ \A y \in Runs : /\ (Live(y)' <=> Live(y)) /\ (Forward(y)' <=> Forward(y)) /\ (Undoing(y)' <=> Undoing(y))
                         /\ \A e \in Actions : Doing(y, e)' <=> Doing(y, e)
  BY <1>2 DEF Src, SourcesOf, ActionsOf, SiblingsOf, Live, Forward, Undoing, Doing, NextAction
<1>10. Shapes' /\ Alone'
  BY <1>2, <1>9 DEF BundleInv, RunInv, Shapes, Shape, Alone
<1>11. Apart'
  BY <1>2, <1>9 DEF BundleInv, RunInv, Apart, DevicesOf, Members
<1>12. ~Forward(HomeOf[a])
  <2>1. SUFFICES ASSUME Forward(HomeOf[a]) PROVE FALSE
    OBVIOUS
  <2>2. PICK b \in Bundles : b = HomeOf[a]
    OBVIOUS
  <2>3. Live(b) /\ Shape(b) /\ ForwardFits(b, a) /\ task[b] \in Tasks
    BY <1>1, <2>1, <2>2, TaskTyped DEF Forward, BundleInv, RunInv, Shapes, Forwards
  <2>4. DeviceOf[a] \in DevicesOf(b) /\ a \in ActionsOf(b)
    BY <2>2 DEF DevicesOf, ActionsOf, SiblingsOf
  <2>5. task[b].pc \in {"admitted", "windowed"}
    BY <1>2, <2>3, <2>4 DEF Live, Tasks, PCs
  <2>6. a \in task[b].todo /\ ~Doing(b, a)
    BY <2>3, <2>4, <2>5 DEF Shape, Doing
  <2>7. QED
    BY <1>7, <2>3, <2>6 DEF ForwardFits
<1>13. Forwards'
  <2>1. ASSUME NEW y \in Bundles, NEW e \in Actions, HomeOf[e] = y, Forward(y) PROVE ForwardFits(y, e)'
    <3>1. e # a
      BY <1>12, <2>1
    <3>2. QED
      BY <1>2, <1>3, <1>9, <2>1, <3>1 DEF BundleInv, RunInv, Forwards, ForwardFits
  <2>2. QED
    BY <1>9, <2>1 DEF Forwards
<1>14. Undos'
  <2>1. ASSUME NEW y \in Runs, NEW e \in Actions, HomeOf[e] \in Src(y), Undoing(y) PROVE UndoFits(y, e)'
    <3>1. UndoFits(y, e)
      BY <2>1 DEF BundleInv, RunInv, Undos
    <3>2. QED
      BY <1>2, <1>4, <1>6, <1>9, <3>1 DEF UndoFits, TypeOK
  <2>2. QED
    BY <1>9, <2>1 DEF Undos
<1>15. States' /\ Plans' /\ ClaimExclusive' /\ CreatedForSucceeded'
  BY <1>2, <1>9 DEF BundleInv, OwnerInv, States, SourcesOf, Plans, ClaimExclusive, CreatedForSucceeded
<1>16. VerdictIsTrue'
  BY <1>1, <1>2, <1>4 DEF BundleInv, OwnerInv, VerdictIsTrue, TypeOK
<1>17. RowsHeld'
  <2>1. \A e \in Actions : Inverted(e, inv') <=> Inverted(e, inv)
    BY <1>2 DEF Inverted
  <2>2. QED
    BY <1>2, <1>4, <2>1 DEF BundleInv, OwnerInv, RowsHeld, RowHeld
<1>18. Sources'
  BY <1>2, <1>9 DEF BundleInv, OwnerInv, Sources, SourcesOf, SourceFits, ActivationCoverage, SiblingsOf, Outstanding, Inverted
<1>19. QED
  BY <1>6, <1>8, <1>10, <1>11, <1>13, <1>14, <1>15, <1>16, <1>17, <1>18 DEF BundleInv, RunInv, OwnerInv

LEMMA ReconcileStep == ASSUME BundleInv, NEW a \in Actions, Reconcile(a) PROVE BundleInv'
<1> USE RunsAre
<1>1. TypeOK
  BY DEF BundleInv
<1>2. PICK b \in Bundles : b = HomeOf[a]
  OBVIOUS
<1> DEFINE r == IF eff[a] = "on" THEN "changed" ELSE "refused"
<1>3. PICK rw : rw = [row EXCEPT ![a] = r]
  OBVIOUS
<1>4. PICK clean \in BOOLEAN : clean <=> /\ \A e \in SiblingsOf(b) : rw[e] # "uncertain"
                                         /\ Outstanding(SiblingsOf(b), rw, inv) = {}
  OBVIOUS
<1>5. /\ row[a] = "uncertain" /\ eff[a] # "partial" /\ row' = rw
      /\ window' = [d \in Devices |-> IF clean /\ window[d] = b THEN None ELSE window[d]]
      /\ member' = IF clean THEN {m \in member : m[2] # b} ELSE member
      /\ bstate' = IF clean /\ bstate[b] = "compensation_blocked"
                   THEN [bstate EXCEPT ![b] = "compensated"] ELSE bstate
      /\ UNCHANGED <<policy, inv, slot, eff, claim, settlement, created, plan, task, up, faults>>
  BY <1>2, <1>3, <1>4 DEF Reconcile
<1>6. /\ row' \in [Actions -> RowStatus] /\ row'[a] = r /\ \A e \in Actions \ {a} : row'[e] = row[e]
  BY <1>1, <1>3, <1>5 DEF TypeOK, RowStatus
<1>7. (r = "changed" /\ eff[a] = "on") \/ (r = "refused" /\ eff[a] = "off")
  BY <1>1, <1>5 DEF TypeOK
<1> HIDE DEF r
<1>8. /\ member' \subseteq member /\ (\A m \in member : m \in member' \/ (m[2] = b /\ clean)) /\ (~clean => member' = member)
  BY <1>5
<1>9. /\ bstate' \in [Runs -> BStates] /\ \A y \in Runs \ {b} : bstate'[y] = bstate[y]
      /\ bstate'[b] = bstate[b] \/ (clean /\ bstate[b] = "compensation_blocked" /\ bstate'[b] = "compensated")
  <2>1. CASE clean /\ bstate[b] = "compensation_blocked"
    BY <1>1, <1>5, <2>1 DEF TypeOK, BStates
  <2>2. CASE ~(clean /\ bstate[b] = "compensation_blocked")
    BY <1>1, <1>5, <2>2 DEF TypeOK
  <2>3. QED
    BY <2>1, <2>2
<1>10. window' \in [Devices -> Runs \cup {None, Quarantine}]
  BY <1>1, <1>5 DEF TypeOK
<1>11. TypeOK'
  BY <1>1, <1>5, <1>6, <1>8, <1>9, <1>10 DEF TypeOK
<1>12. \A e \in Actions : Inverted(e, inv') <=> Inverted(e, inv)
  BY <1>5 DEF Inverted
<1>13. RowInv'
  <2>1. RowsBegin'
    BY <1>5, <1>6, <1>7 DEF BundleInv, RowInv, RowsBegin, RowBegins
  <2>2. ChangeIsOwned'
    BY <1>5, <1>6, <1>7, <1>12 DEF BundleInv, RowInv, ChangeIsOwned
  <2>3. InflightAlone'
    BY <1>5, <1>6, <1>7 DEF BundleInv, RowInv, InflightAlone
  <2>4. Inverses'
    BY <1>5 DEF BundleInv, RowInv, Inverses, ActionsOf, SiblingsOf
  <2>5. QED
    BY <2>1, <2>2, <2>3, <2>4 DEF RowInv
\* a bundle found clean has nothing on a router
<1>14. ASSUME clean, NEW e \in Actions, HomeOf[e] = b
       PROVE  eff[e] = "off" /\ (row'[e] = "changed" => Inverted(e, inv))
  <2>1. row'[e] \in {"changed", "uncertain"} => Inverted(e, inv)
    BY <1>4, <1>5, <1>14 DEF Outstanding, SiblingsOf
  <2>2. eff[e] # "off" => row'[e] = "inflight" /\ row[e] = "inflight"
    BY <1>5, <1>6, <1>7, <1>12, <1>13, <1>14, <2>1 DEF RowInv, ChangeIsOwned
  <2>3. eff[e] = "off"
    BY <1>2, <1>5, <1>14, <2>2 DEF BundleInv, RowInv, InflightAlone
  <2>4. QED
    BY <2>1, <2>3
<1>15. /\ \A y \in Runs : Src(y)' = Src(y) /\ ActionsOf(y)' = ActionsOf(y)
       /\ \A y \in Children : SourcesOf(y)' = SourcesOf(y)
       /\ \A y \in Runs : /\ (Live(y)' <=> Live(y)) /\ (Forward(y)' <=> Forward(y)) /\ (Undoing(y)' <=> Undoing(y))
                          /\ \A e \in Actions : Doing(y, e)' <=> Doing(y, e)
  BY <1>5 DEF Src, SourcesOf, ActionsOf, SiblingsOf, Live, Forward, Undoing, Doing, NextAction
<1>16. \A c \in Children : b \notin SourcesOf(c)
  BY <1>2, <1>5 DEF BundleInv, OwnerInv, Sources, SourceFits, SiblingsOf, Ambiguous
<1>17. Live(b) => task[b].stop = "ambiguous" /\ task[b].pc = "closing" /\ (~task[b].undo => a \notin task[b].todo)
  <2>1. SUFFICES ASSUME Live(b) PROVE task[b].stop = "ambiguous" /\ task[b].pc = "closing" /\ (~task[b].undo => a \notin task[b].todo)
    OBVIOUS
  <2>2. task[b].stop = "ambiguous" => task[b].pc = "closing"
    BY <2>1 DEF BundleInv, RunInv, Shapes, Shape
  <2>3. CASE task[b].undo
    <3>1. UndoFits(b, a)
      BY <1>2, <2>1, <2>3 DEF BundleInv, RunInv, Undos, Undoing, Src
    <3>2. QED
      BY <1>5, <2>2, <2>3, <3>1 DEF UndoFits
  <2>4. CASE ~task[b].undo
    <3>1. ForwardFits(b, a)
      BY <1>2, <2>1, <2>4 DEF BundleInv, RunInv, Forwards, Forward
    <3>2. ~Doing(b, a)
      BY <1>5, <3>1 DEF ForwardFits
    <3>3. QED
      BY <1>5, <2>2, <3>1, <3>2 DEF ForwardFits
  <2>5. QED
    BY <2>3, <2>4
<1>18. Shapes' /\ Alone'
  BY <1>5, <1>15 DEF BundleInv, RunInv, Shapes, Shape, Alone
<1>19. Forwards'
  <2>1. ASSUME NEW y \in Bundles, NEW e \in Actions, HomeOf[e] = y, Forward(y) PROVE ForwardFits(y, e)'
    <3>1. ForwardFits(y, e)
      BY <2>1 DEF BundleInv, RunInv, Forwards
    <3>2. CASE e # a
      BY <1>5, <1>6, <1>15, <2>1, <3>1, <3>2 DEF ForwardFits
    <3>3. CASE e = a
      <4>1. task[y].stop = "ambiguous" /\ task[y].pc = "closing" /\ a \notin task[y].todo /\ ~Doing(y, a)
        BY <1>2, <1>17, <2>1, <3>3 DEF Forward, Doing
      <4>2. QED
        BY <1>5, <1>15, <3>1, <3>3, <4>1 DEF ForwardFits
    <3>4. QED
      BY <3>2, <3>3
  <2>2. QED
    BY <1>15, <2>1 DEF Forwards
<1>20. Undos'
  <2>1. ASSUME NEW y \in Runs, NEW e \in Actions, HomeOf[e] \in Src(y), Undoing(y) PROVE UndoFits(y, e)'
    <3>1. UndoFits(y, e)
      BY <2>1 DEF BundleInv, RunInv, Undos
    <3>2. CASE e # a
      BY <1>5, <1>6, <1>15, <3>1, <3>2 DEF UndoFits
    <3>3. CASE e = a
      <4>1. y = b
        BY <1>2, <1>16, <2>1, <3>3 DEF Src
      <4>2. task[y].stop = "ambiguous" /\ ~Doing(y, a)
        BY <1>17, <2>1, <4>1 DEF Undoing, Doing
      <4>3. QED
        BY <1>5, <1>15, <3>3, <4>2 DEF UndoFits
    <3>4. QED
      BY <3>2, <3>3
  <2>2. QED
    BY <1>15, <2>1 DEF Undos
<1>21. \A z \in Bundles : bstate[z] = "succeeded" => bstate'[z] = "succeeded"
  BY <1>9
<1>22. Apart'
  <2>1. SUFFICES ASSUME NEW z \in Bundles, Forward(z), task[z].pc \in {"windowed", "loop", "executing"},
                        NEW d \in DevicesOf(z)
                 PROVE  <<d, z>> \in member' /\ \A w \in Members(d, member') : w = z \/ bstate'[w] = "succeeded"
    <3>1. \A z \in Bundles : DevicesOf(z)' = DevicesOf(z)
      BY <1>15 DEF DevicesOf
    <3>2. QED
      BY <1>5, <1>15, <3>1 DEF Apart
  <2>2. <<d, z>> \in member /\ \A w \in Members(d, member) : w = z \/ bstate[w] = "succeeded"
    BY <2>1 DEF BundleInv, RunInv, Apart
  <2>3. z # b
    BY <1>17, <2>1 DEF Forward
  <2>4. QED
    BY <1>8, <1>21, <2>2, <2>3 DEF Members
<1>23. States'
  <2>1. \A y \in Runs : /\ bstate'[y] = "none" <=> bstate[y] = "none"
                        /\ bstate'[y] \in InFlight <=> bstate[y] \in InFlight
    BY <1>9 DEF InFlight
  <2>2. \A e \in Actions : row'[e] = "none" <=> row[e] = "none"
    BY <1>5, <1>6, <1>7
  <2>3. QED
    BY <1>5, <1>15, <2>1, <2>2 DEF BundleInv, OwnerInv, States
<1>24. Plans' /\ ClaimExclusive'
  BY <1>5 DEF BundleInv, OwnerInv, Plans, ClaimExclusive
<1>25. CreatedForSucceeded'
  BY <1>1, <1>5, <1>21 DEF BundleInv, OwnerInv, CreatedForSucceeded, TypeOK
<1>26. RowsHeld'
  <2>1. ASSUME NEW e \in Actions, row'[e] = "changed" \/ eff[e] # "off", ~Inverted(e, inv), bstate'[HomeOf[e]] # "succeeded"
        PROVE  <<DeviceOf[e], HomeOf[e]>> \in member'
    <3>1. ~(clean /\ HomeOf[e] = b)
      BY <1>14, <2>1
    <3>2. row[e] = "changed" \/ eff[e] # "off"
      BY <1>6, <1>7, <2>1
    <3>3. <<DeviceOf[e], HomeOf[e]>> \in member
      BY <1>21, <2>1, <3>2 DEF BundleInv, OwnerInv, RowsHeld, RowHeld
    <3>4. QED
      BY <1>8, <3>1, <3>3
  <2>2. QED
    BY <1>5, <1>12, <2>1 DEF RowsHeld, RowHeld
<1>27. VerdictIsTrue'
  <2>1. \A e \in Actions : bstate'[HomeOf[e]] \in {"compensated", "failed"} => eff[e] = "off"
    BY <1>9, <1>14 DEF BundleInv, OwnerInv, VerdictIsTrue
  <2>2. \A c \in Children : bstate'[c] = bstate[c]
    BY <1>9
  <2>3. QED
    BY <1>5, <2>1, <2>2 DEF BundleInv, OwnerInv, VerdictIsTrue
<1>28. Sources'
  <2>1. ASSUME NEW c \in Children, NEW s \in SourcesOf(c) PROVE SourceFits(c, s)'
    <3>1. SourceFits(c, s) /\ s \in Bundles /\ s # b /\ SiblingsOf(s)' = SiblingsOf(s) /\ SiblingsOf(s) \subseteq Actions
      BY <1>16, <2>1 DEF BundleInv, OwnerInv, Sources, SourcesOf, SiblingsOf
    <3>2. \A e \in SiblingsOf(s) : row'[e] = row[e]
      BY <1>2, <1>6, <3>1 DEF SiblingsOf
    <3>3. ActivationCoverage(s, row, slot)'
      BY <1>5, <1>9, <3>1, <3>2 DEF SourceFits, ActivationCoverage
    <3>4. Outstanding(SiblingsOf(s), row', inv') = Outstanding(SiblingsOf(s), row, inv)
      BY <1>12, <3>1, <3>2 DEF Outstanding
    <3>5. /\ \E e \in SiblingsOf(s) : row'[e] # "none"
          /\ \A e \in SiblingsOf(s) : row'[e] \notin Ambiguous
          /\ bstate'[c] = bstate[c]
      BY <1>9, <3>1, <3>2 DEF SourceFits
    <3>6. QED
      BY <1>5, <1>15, <3>1, <3>3, <3>4, <3>5 DEF SourceFits
  <2>2. QED
    BY <1>15, <2>1 DEF Sources
<1>29. QED
  BY <1>11, <1>13, <1>18, <1>19, <1>20, <1>22, <1>23, <1>24, <1>25, <1>26, <1>27, <1>28
     DEF BundleInv, RunInv, OwnerInv

-----------------------------------------------------------------------------
(* Admission of a recovery *)

LEMMA AdmitChildStep ==
  ASSUME BundleInv, NEW c \in Children, NEW S \in SUBSET Bundles, AdmitChild(c, S)
  PROVE  BundleInv'
<1> USE RunsAre
<1>1. TypeOK
  BY DEF BundleInv
<1>2. PICK originals : originals = UNION {Owned(s) : s \in S}
  OBVIOUS
<1>3. PICK fresh : fresh = {<<DeviceOf[a], HomeOf[a]>> : a \in originals}
  OBVIOUS
<1> DEFINE t == [Idle EXCEPT !.pc = "admitted", !.undo = TRUE, !.todo = originals]
<1>4. /\ up /\ bstate[c] = "none" /\ S # {} /\ Claimable(S)
      /\ bstate' = [bstate EXCEPT ![c] = "planned"]
      /\ claim' = [s \in Bundles |-> IF s \in S THEN c ELSE claim[s]]
      /\ settlement' = [settlement EXCEPT ![c] = [s \in Bundles |-> IF s \in S THEN "active" ELSE "none"]]
      /\ created' = [created EXCEPT ![c] = fresh \ member]
      /\ member' = member \cup fresh
      /\ plan' = [plan EXCEPT ![c] = originals]
      /\ task' = [task EXCEPT ![c] = t]
      /\ UNCHANGED <<policy, row, inv, slot, eff, window, up, faults>>
  BY <1>2, <1>3 DEF AdmitChild, rows
\* what the proof of the sources says
<1>5. ASSUME NEW s \in S
      PROVE  /\ s \in Bundles /\ bstate[s] \notin InFlight \cup {"none"} /\ ActivationCoverage(s, row, slot)
             /\ Owned(s) # {} /\ claim[s] = None
             /\ \A a \in SiblingsOf(s) : row[a] \notin Ambiguous /\ \A y \in Runs : inv[y][a] \notin Ambiguous
  BY <1>4, <1>5 DEF Claimable, SourceProof, ActivationCoverage, NoAmbiguousEffect
<1>6. \A a : a \in originals <=> a \in Actions /\ HomeOf[a] \in S /\ row[a] = "changed" /\ ~Inverted(a, inv)
  <2>1. \A a : a \in originals <=> \E s \in S : a \in Owned(s)
    BY <1>2
  <2>2. \A s \in S : \A a : a \in Owned(s) <=> a \in Actions /\ HomeOf[a] = s /\ row[a] = "changed" /\ ~Inverted(a, inv)
    BY DEF Owned, SiblingsOf
  <2>3. QED
    BY <2>1, <2>2
<1>7. originals \subseteq Actions /\ originals # {}
  <2>1. PICK s \in S : TRUE
    BY <1>4
  <2>2. QED
    BY <1>2, <1>5, <1>6, <2>1
<1>8. /\ t \in Tasks /\ t.pc = "admitted" /\ t.undo = TRUE /\ t.todo = originals /\ t.good = {} /\ t.stop = "no"
  BY <1>7 DEF Idle, Tasks, PCs, RowStatus
<1> HIDE DEF t
<1>9. /\ task' \in [Runs -> Tasks] /\ task'[c] = t /\ \A y \in Runs \ {c} : task'[y] = task[y]
  BY <1>1, <1>4, <1>8 DEF TypeOK
<1>10. /\ bstate' \in [Runs -> BStates] /\ bstate'[c] = "planned" /\ \A y \in Runs \ {c} : bstate'[y] = bstate[y]
  BY <1>1, <1>4 DEF TypeOK, BStates, InFlight
<1>11. /\ plan' \in [Children -> SUBSET Actions] /\ plan'[c] = originals /\ \A z \in Children \ {c} : plan'[z] = plan[z]
  BY <1>1, <1>4, <1>7 DEF TypeOK
<1>12. /\ settlement' \in [Children -> [Bundles -> Settlements]]
       /\ \A s \in Bundles : settlement'[c][s] = IF s \in S THEN "active" ELSE "none"
       /\ \A z \in Children \ {c} : settlement'[z] = settlement[z]
  BY <1>1, <1>4 DEF TypeOK, Settlements
<1>13. claim' \in [Bundles -> Children \cup {None}]
  BY <1>1, <1>4 DEF TypeOK
<1>14. \A m : m \in fresh <=> \E a \in originals : m = <<DeviceOf[a], HomeOf[a]>>
  BY <1>3
<1>15. fresh \subseteq Devices \X Bundles
  BY <1>6, <1>14, BundleAssumption
<1>16. member' \subseteq Devices \X Bundles /\ created' \in [Children -> SUBSET (Devices \X Bundles)]
       /\ created'[c] = fresh \ member /\ \A z \in Children \ {c} : created'[z] = created[z]
  BY <1>1, <1>4, <1>15 DEF TypeOK
<1>17. TypeOK'
  BY <1>1, <1>4, <1>9, <1>10, <1>11, <1>12, <1>13, <1>16 DEF TypeOK
\* a membership the child adds is for an activation that succeeded
<1>18. \A m \in fresh : m \in member \/ (m[2] \in Bundles /\ bstate[m[2]] = "succeeded")
  BY <1>6, <1>14 DEF BundleInv, OwnerInv, RowsHeld, RowHeld
<1>19. SourcesOf(c) = {} /\ plan[c] = {} /\ task[c].pc = "idle"
  BY <1>4 DEF BundleInv, OwnerInv, States
<1>20. \A a \in Actions : inv[c][a] = "none"
  BY <1>19 DEF BundleInv, RowInv, Inverses, ActionsOf
<1>21. SourcesOf(c)' = S /\ \A z \in Children \ {c} : SourcesOf(z)' = SourcesOf(z)
  BY <1>12 DEF SourcesOf
<1>22. /\ Src(c)' = S /\ ActionsOf(c)' = originals
       /\ \A y \in Runs \ {c} : Src(y)' = Src(y) /\ ActionsOf(y)' = ActionsOf(y)
  BY <1>11, <1>21 DEF Src, ActionsOf, SiblingsOf
<1>23. /\ Live(c)' /\ Undoing(c)' /\ ~Forward(c)' /\ (\A a \in Actions : ~Doing(c, a)')
       /\ \A y \in Runs \ {c} : /\ (Live(y)' <=> Live(y)) /\ (Forward(y)' <=> Forward(y)) /\ (Undoing(y)' <=> Undoing(y))
                                /\ \A a \in Actions : Doing(y, a)' <=> Doing(y, a)
  BY <1>8, <1>9 DEF Live, Undoing, Forward, Doing, NextAction
<1>24. \A a \in Actions : Inverted(a, inv') <=> Inverted(a, inv)
  BY <1>4 DEF Inverted
<1>25. RowInv'
  <2>1. RowsBegin' /\ ChangeIsOwned' /\ InflightAlone'
    BY <1>4, <1>24 DEF BundleInv, RowInv, RowsBegin, RowBegins, ChangeIsOwned, InflightAlone
  <2>2. Inverses'
    BY <1>4, <1>20, <1>22 DEF BundleInv, RowInv, Inverses
  <2>3. QED
    BY <2>1, <2>2 DEF RowInv
<1>26. Shapes'
  <2>1. Shape(c)'
    BY <1>4, <1>7, <1>8, <1>9, <1>22 DEF Shape
  <2>2. \A y \in Runs \ {c} : Shape(y)'
    BY <1>4, <1>9, <1>22, <1>23 DEF BundleInv, RunInv, Shapes, Shape
  <2>3. QED
    BY <2>1, <2>2 DEF Shapes
<1>27. Forwards'
  <2>1. ASSUME NEW y \in Bundles, NEW a \in Actions, HomeOf[a] = y, Forward(y) PROVE ForwardFits(y, a)'
    BY <1>4, <1>9, <1>23, <2>1 DEF BundleInv, RunInv, Forwards, ForwardFits
  <2>2. QED
    BY <1>23, <2>1 DEF Forwards
<1>28. Undos'
  <2>1. ASSUME NEW y \in Runs \ {c}, NEW a \in Actions, HomeOf[a] \in Src(y), Undoing(y) PROVE UndoFits(y, a)'
    BY <1>4, <1>9, <1>23, <2>1 DEF BundleInv, RunInv, Undos, UndoFits
  <2>2. ASSUME NEW a \in Actions, HomeOf[a] \in S PROVE UndoFits(c, a)'
    <3>1. row[a] \notin Ambiguous /\ \A y \in Runs : inv[y][a] \notin Ambiguous
      BY <1>5, <2>2 DEF SiblingsOf
    <3>2. eff[a] # "off" => a \in originals
      BY <1>6, <2>2, <3>1 DEF BundleInv, RowInv, ChangeIsOwned, Ambiguous
    <3>3. QED
      BY <1>4, <1>8, <1>9, <1>23, <3>1, <3>2 DEF UndoFits, Ambiguous
  <2>3. QED
    BY <1>22, <1>23, <2>1, <2>2 DEF Undos
<1>29. Alone'
  BY <1>23 DEF BundleInv, RunInv, Alone
<1>30. Apart'
  <2>1. SUFFICES ASSUME NEW z \in Bundles, Forward(z), task[z].pc \in {"windowed", "loop", "executing"},
                        NEW d \in DevicesOf(z)
                 PROVE  <<d, z>> \in member' /\ \A w \in Members(d, member') : w = z \/ bstate'[w] = "succeeded"
    <3>1. \A z \in Bundles : DevicesOf(z)' = DevicesOf(z)
      BY <1>22 DEF DevicesOf
    <3>2. QED
      BY <1>9, <1>23, <3>1 DEF Apart
  <2>2. <<d, z>> \in member /\ \A w \in Members(d, member) : w = z \/ bstate[w] = "succeeded"
    BY <2>1 DEF BundleInv, RunInv, Apart
  <2>3. ASSUME NEW w \in Bundles, <<d, w>> \in fresh PROVE <<d, w>> \in member \/ bstate[w] = "succeeded"
    BY <1>18, <2>3
  <2>4. \A w \in Bundles : bstate'[w] = bstate[w]
    BY <1>10
  <2>5. QED
    BY <1>4, <2>2, <2>3, <2>4 DEF Members
<1>31. States'
  <2>1. \A a \in Actions : bstate'[HomeOf[a]] = bstate[HomeOf[a]]
    BY <1>10
  <2>2. \A x \in Runs : bstate'[x] = "none" <=> task'[x].pc = "idle"
    BY <1>8, <1>9, <1>10 DEF BundleInv, OwnerInv, States
  <2>3. \A b \in Bundles : Live(b)' => bstate'[b] \in InFlight
    BY <1>10, <1>23 DEF BundleInv, OwnerInv, States
  <2>4. \A z \in Children : bstate'[z] = "none" => plan'[z] = {} /\ SourcesOf(z)' = {}
    BY <1>10, <1>11, <1>21 DEF BundleInv, OwnerInv, States
  <2>5. QED
    BY <1>4, <2>1, <2>2, <2>3, <2>4 DEF BundleInv, OwnerInv, States
<1>32. Plans'
  BY <1>6, <1>11, <1>12 DEF BundleInv, OwnerInv, Plans
<1>33. ClaimExclusive'
  <2>1. ASSUME NEW z \in Children, NEW s \in Bundles, settlement'[z][s] \in {"active", "blocked"} PROVE claim'[s] = z
    <3>1. CASE z = c
      BY <1>4, <1>12, <2>1, <3>1
    <3>2. CASE z # c
      <4>1. claim[s] = z
        BY <1>12, <2>1, <3>2 DEF BundleInv, OwnerInv, ClaimExclusive
      <4>2. s \notin S
        BY <1>5, <4>1, BundleAssumption
      <4>3. QED
        BY <1>4, <4>1, <4>2
    <3>3. QED
      BY <3>1, <3>2
  <2>2. QED
    BY <2>1 DEF ClaimExclusive
<1>34. RowsHeld'
  <2>1. \A a \in Actions : bstate'[HomeOf[a]] = bstate[HomeOf[a]]
    BY <1>10
  <2>2. QED
    BY <1>4, <1>24, <2>1 DEF BundleInv, OwnerInv, RowsHeld, RowHeld
<1>35. CreatedForSucceeded'
  <2>1. ASSUME NEW z \in Children, NEW m \in created'[z] PROVE bstate'[m[2]] = "succeeded"
    <3>1. m[2] \in Bundles
      BY <1>16, <2>1
    <3>2. bstate[m[2]] = "succeeded"
      BY <1>16, <1>18, <2>1 DEF BundleInv, OwnerInv, CreatedForSucceeded
    <3>3. QED
      BY <1>10, <3>1, <3>2
  <2>2. QED
    BY <2>1 DEF CreatedForSucceeded
<1>36. VerdictIsTrue'
  <2>1. \A a \in Actions : bstate'[HomeOf[a]] = bstate[HomeOf[a]]
    BY <1>10
  <2>2. \A z \in Children : bstate'[z] = "succeeded" => \A a \in plan'[z] : eff'[a] = "off"
    BY <1>4, <1>10, <1>11 DEF BundleInv, OwnerInv, VerdictIsTrue
  <2>3. QED
    BY <1>4, <2>1, <2>2 DEF BundleInv, OwnerInv, VerdictIsTrue
<1>37. Sources'
  <2>1. ASSUME NEW s \in Bundles PROVE SiblingsOf(s)' = SiblingsOf(s) /\ SiblingsOf(s) \subseteq Actions
                                        /\ Outstanding(SiblingsOf(s), row', inv') = Outstanding(SiblingsOf(s), row, inv)
                                        /\ (ActivationCoverage(s, row, slot)' <=> ActivationCoverage(s, row, slot))
    <3>1. SiblingsOf(s)' = SiblingsOf(s) /\ SiblingsOf(s) \subseteq Actions
      BY DEF SiblingsOf
    <3>2. bstate'[s] = bstate[s]
      BY <1>10
    <3>3. QED
      BY <1>4, <1>24, <3>1, <3>2 DEF Outstanding, ActivationCoverage
  <2>2. ASSUME NEW z \in Children \ {c}, NEW s \in SourcesOf(z) PROVE SourceFits(z, s)'
    <3>1. s \in Bundles /\ SourceFits(z, s)
      BY <2>2 DEF BundleInv, OwnerInv, Sources, SourcesOf
    <3>2. QED
      BY <1>4, <1>9, <1>10, <1>11, <1>12, <1>21, <1>23, <2>1, <3>1 DEF SourceFits
  <2>3. ASSUME NEW s \in S PROVE SourceFits(c, s)'
    <3>1. s \in Bundles /\ settlement'[c][s] = "active" /\ \A z \in S : settlement'[c][z] = "active"
      BY <1>12, <2>3
    <3>2. \E a \in SiblingsOf(s) : row[a] # "none"
      BY <1>5, <2>3 DEF Owned
    <3>3. ActivationCoverage(s, row, slot) /\ \A a \in SiblingsOf(s) : row[a] \notin Ambiguous
      BY <1>5, <2>3
    <3>4. Outstanding(SiblingsOf(s), row, inv) \subseteq originals
      BY <1>6, <2>3, <3>3 DEF Outstanding, Ambiguous, SiblingsOf
    <3>5. bstate'[c] \in InFlight
      BY <1>10 DEF InFlight
    <3>6. QED
      BY <1>4, <1>11, <1>21, <2>1, <3>1, <3>2, <3>3, <3>4, <3>5 DEF SourceFits
  <2>4. QED
    BY <1>21, <2>2, <2>3 DEF Sources
<1>38. QED
  BY <1>17, <1>25, <1>26, <1>27, <1>28, <1>29, <1>30, <1>31, <1>32, <1>33, <1>34, <1>35, <1>36, <1>37
     DEF BundleInv, RunInv, OwnerInv

-----------------------------------------------------------------------------
(* The invariant holds *)

LEMMA RunKeeps == ASSUME BundleInv, NEW x \in Runs, RunStep(x) PROVE BundleInv'
<1>1. CASE Acquire(x) \/ Begin(x)
  BY <1>1, AcquireStep, BeginStep
<1>2. CASE AcquireRefused(x) \/ PreflightRefused(x)
  BY <1>2, RefusedStep
<1>3. CASE ReproofLost(x) \/ FinalStateLost(x)
  BY <1>3, ProofLostStep
<1>4. CASE Execute(x) \/ Blocked(x)
  BY <1>4, ExecuteStep, BlockedStep
<1>5. CASE Report(x) \/ ReportLost(x) \/ ReportUnlinked(x)
  BY <1>5, ReportStep
<1>6. CASE Close(x) \/ CloseLost(x) \/ Compensate(x)
  BY <1>6, CloseStep, CloseLostStep, CompensateStep
<1>7. QED
  BY <1>1, <1>2, <1>3, <1>4, <1>5, <1>6 DEF RunStep

LEMMA BundleKeeps == ASSUME BundleInv, Next PROVE BundleInv'
<1>1. ASSUME NEW b \in Bundles, Create(b) PROVE BundleInv'
  BY <1>1, CreateStep
<1>2. ASSUME NEW c \in Children, NEW S \in SUBSET Bundles, AdmitChild(c, S) PROVE BundleInv'
  BY <1>2, AdmitChildStep
<1>3. ASSUME NEW x \in Runs, RunStep(x) PROVE BundleInv'
  BY <1>3, RunKeeps
<1>4. CASE Crash
  BY <1>4, CrashStep
<1>5. CASE StartupStep
  <2>1. CASE RecoverRows \/ Start
    BY <2>1, RecoverRowsStep, StartStep
  <2>2. ASSUME NEW c \in Children, RecoverChild(c) PROVE BundleInv'
    BY <2>2, RecoverChildStep
  <2>3. ASSUME NEW b \in Bundles, RecoverBundle(b) PROVE BundleInv'
    BY <2>3, RecoverBundleStep
  <2>4. QED
    BY <1>5, <2>1, <2>2, <2>3 DEF StartupStep
<1>6. ASSUME NEW a \in Actions, Reconcile(a) \/ Drift(a) PROVE BundleInv'
  BY <1>6, ReconcileStep, DriftStep
<1>7. ASSUME NEW x \in Runs, NEW a \in Actions, ReconcileInverse(x, a) PROVE BundleInv'
  BY <1>7, ReconcileInverseStep
<1>8. QED
  BY <1>1, <1>2, <1>3, <1>4, <1>5, <1>6, <1>7 DEF Next

LEMMA BundleStutters == ASSUME BundleInv, UNCHANGED vars PROVE BundleInv'
<1>1. UNCHANGED <<bstate, policy, row, inv, slot, eff, window, member, claim, settlement,
                  created, plan, task, up, faults>>
  BY DEF vars
<1>2. TypeOK' /\ RowInv'
  BY <1>1 DEF BundleInv, TypeOK, RowInv, RowsBegin, RowBegins, ChangeIsOwned, InflightAlone,
     Inverses, ActionsOf, SiblingsOf, Inverted
<1>3. \A x \in Runs : /\ Src(x)' = Src(x) /\ ActionsOf(x)' = ActionsOf(x)
                      /\ (Live(x)' <=> Live(x)) /\ (Forward(x)' <=> Forward(x)) /\ (Undoing(x)' <=> Undoing(x))
                      /\ \A a \in Actions : Doing(x, a)' <=> Doing(x, a)
  BY <1>1 DEF Src, SourcesOf, ActionsOf, SiblingsOf, Live, Forward, Undoing, Doing, NextAction
<1>4. Shapes' /\ Alone'
  BY <1>1, <1>3 DEF BundleInv, RunInv, Shapes, Shape, Alone
<1>5. Forwards'
  BY <1>1, <1>3, RunsAre DEF BundleInv, RunInv, Forwards, ForwardFits
<1>6. Undos'
  BY <1>1, <1>3 DEF BundleInv, RunInv, Undos, UndoFits
<1>7. Apart'
  BY <1>1, <1>3, RunsAre DEF BundleInv, RunInv, Apart, DevicesOf, Members
<1>8. OwnerInv'
  <2>1. States' /\ Plans' /\ ClaimExclusive'
    BY <1>1, <1>3, RunsAre DEF BundleInv, OwnerInv, States, Plans, ClaimExclusive, SourcesOf
  <2>2. RowsHeld' /\ CreatedForSucceeded' /\ VerdictIsTrue'
    BY <1>1 DEF BundleInv, OwnerInv, RowsHeld, RowHeld, Inverted, CreatedForSucceeded, VerdictIsTrue
  <2>3. Sources'
    BY <1>1, <1>3, RunsAre DEF BundleInv, OwnerInv, Sources, SourcesOf, SourceFits, ActivationCoverage,
       SiblingsOf, Outstanding, Inverted
  <2>4. QED
    BY <2>1, <2>2, <2>3 DEF OwnerInv
<1>9. QED
  BY <1>2, <1>4, <1>5, <1>6, <1>7, <1>8 DEF BundleInv, RunInv

LEMMA BundleHolds == Spec => []BundleInv
<1>1. BundleInv /\ [Next]_vars => BundleInv'
  BY BundleKeeps, BundleStutters
<1>2. QED
  BY InitInv, <1>1, PTL DEF Spec

-----------------------------------------------------------------------------
(* What the invariant says *)

\* No crash, lost reply, refused step, recovery or reconciliation makes the
\* controller forget a change it made: every action in force on a router has a
\* row that is open, changed or uncertain and that no inverse has closed
\* (reroute/state_machine.rs, recover_on_startup; reroute/bundle.rs,
\* outstanding_owned_originals).
THEOREM ChangesStayOwned == Spec => []ChangeIsOwned
<1>1. BundleInv => ChangeIsOwned
  BY DEF BundleInv, RowInv
<1>2. QED
  BY <1>1, BundleHolds, PTL

\* A router that carries a change of an unfinished or failed activation keeps its
\* quarantine membership (reroute/bundle.rs, finish_and_release,
\* finalize_recovery_child; reroute/recovery.rs).
THEOREM QuarantineOutlivesRuns == Spec => []QuarantineHeld
<1>1. BundleInv => QuarantineHeld
  BY DEF BundleInv, RowInv, OwnerInv, RowsHeld, RowHeld, ChangeIsOwned, QuarantineHeld
<1>2. QED
  BY <1>1, BundleHolds, PTL

\* An unsettled recovery holds the claim on each of its sources, through crashes,
\* retries and partial settlements (reroute/recovery.rs,
\* claim_sources_for_child_on).
THEOREM ClaimsExclude == Spec => []ClaimExclusive
<1>1. BundleInv => ClaimExclusive
  BY DEF BundleInv, OwnerInv
<1>2. QED
  BY <1>1, BundleHolds, PTL

\* A bundle is called compensated or failed, and a recovery succeeded, only when
\* what it undid is off the routers (reroute/bundle.rs, finish_and_release,
\* finalize_recovery_child; state_machine.rs, reconcile_uncertain).
THEOREM VerdictsAreTrue == Spec => []VerdictIsTrue
<1>1. BundleInv => VerdictIsTrue
  BY DEF BundleInv, OwnerInv
<1>2. QED
  BY <1>1, BundleHolds, PTL

-----------------------------------------------------------------------------
(* What a step may not do *)

\* The step that opens a row: a run takes up its next action, whose slot is free.
Opens(x, a) ==
    /\ task[x].pc = "loop" /\ a = NextAction(x) /\ SlotFree(x, a)
    /\ Execute(x) \/ (~task[x].undo => slot'[a] = "unlinked")

LEMMA RunOpens ==
  ASSUME BundleInv, NEW x \in Runs, RunStep(x)
  PROVE  /\ \A a \in Actions : row[a] = "none" /\ row'[a] = "inflight" => ~task[x].undo /\ Opens(x, a)
         /\ \A y \in Runs, a \in Actions :
               inv[y][a] = "none" /\ inv'[y][a] = "inflight" => y = x /\ task[x].undo /\ Opens(x, a)
<1>1. TypeOK
  BY DEF BundleInv
<1>2. CASE /\ inv' = inv
           /\ \A a \in Actions : row'[a] = row[a] \/ row'[a] = "uncertain"
  BY <1>2
<1>3. CASE task[x].pc \in {"loop", "executing"} /\ \E v \in RowStatus : SetRow(x, NextAction(x), v)
  <2>1. PICK a : a = NextAction(x)
    OBVIOUS
  <2>2. a \in Actions
    BY <1>3, <2>1, InHand
  <2>3. PICK v \in RowStatus : SetRow(x, a, v)
    BY <1>3, <2>1
  <2>4. /\ \A e \in Actions \ {a} : row'[e] = row[e]
        /\ \A y \in Runs, e \in Actions : y # x \/ e # a => inv'[y][e] = inv[y][e]
        /\ task[x].undo => row' = row /\ inv'[x][a] = v
        /\ ~task[x].undo => inv' = inv /\ row'[a] = v
    BY <1>1, <2>2, <2>3, SetRowTyped
  <2>5. CASE task[x].pc = "executing"
    <3>1. CASE task[x].undo
      <4>1. UndoFits(x, a)
        BY <2>1, <2>2, <2>5, <3>1, InHand DEF BundleInv, RunInv, Undos, Undoing
      <4>2. inv[x][a] = "inflight"
        BY <2>1, <2>5, <4>1 DEF UndoFits, Doing
      <4>3. QED
        BY <2>4, <3>1, <4>2
    <3>2. CASE ~task[x].undo
      <4>1. ForwardFits(x, a)
        BY <2>1, <2>2, <2>5, <3>2, InHand DEF BundleInv, RunInv, Forwards, Forward
      <4>2. row[a] = "inflight"
        BY <2>1, <2>5, <4>1 DEF ForwardFits, Doing
      <4>3. QED
        BY <2>4, <3>2, <4>2
    <3>3. QED
      BY <3>1, <3>2
  <2>6. CASE task[x].pc = "loop"
    <3>1. Execute(x) \/ Blocked(x) \/ UNCHANGED <<row, inv>>
      BY <2>6 DEF RunStep, Acquire, AcquireRefused, PreflightRefused, Begin, ReproofLost, rows, Report, ReportLost,
         ReportUnlinked, FinalStateLost, RanThrough, Close, CloseLost, Compensate
    <3>2. CASE Execute(x)
      <4>1. SlotFree(x, a)
        BY <2>1, <3>2 DEF Execute
      <4>2. Opens(x, a)
        BY <2>1, <2>6, <3>2, <4>1 DEF Opens
      <4>3. QED
        BY <2>4, <4>2
    <3>3. CASE Blocked(x)
      <4>1. LinkSlot(x, a, "unlinked") /\ ((SlotFree(x, a) \/ UNCHANGED <<row, inv>>))
        BY <2>1, <3>3 DEF Blocked
      <4>2. ~task[x].undo => slot'[a] = "unlinked"
        BY <1>1, <2>2, <4>1 DEF LinkSlot, TypeOK
      <4>3. CASE UNCHANGED <<row, inv>>
        BY <4>3
      <4>4. CASE SlotFree(x, a)
        <5>1. Opens(x, a)
          BY <2>1, <2>6, <4>2, <4>4 DEF Opens
        <5>2. QED
          BY <2>4, <5>1
      <4>5. QED
        BY <4>1, <4>3, <4>4
    <3>4. CASE UNCHANGED <<row, inv>>
      BY <3>4
    <3>5. QED
      BY <3>1, <3>2, <3>3, <3>4
  <2>7. QED
    BY <1>3, <2>5, <2>6
<1>4. \/ task[x].pc \in {"loop", "executing"} /\ \E v \in RowStatus : SetRow(x, NextAction(x), v)
      \/ /\ inv' = inv
         /\ \A a \in Actions : row'[a] = row[a] \/ row'[a] = "uncertain"
  <2>1. CASE Acquire(x) \/ AcquireRefused(x) \/ PreflightRefused(x) \/ Begin(x) \/ ReproofLost(x)
             \/ FinalStateLost(x) \/ Compensate(x)
    BY <2>1 DEF Acquire, AcquireRefused, PreflightRefused, Begin, ReproofLost, FinalStateLost, Compensate, rows
  <2>2. CASE Close(x) \/ CloseLost(x)
    BY <1>1, <2>2 DEF Close, CloseLost, QuarantineChanged, TypeOK
  <2>3. CASE Execute(x) \/ Blocked(x)
    BY <2>3 DEF Execute, Blocked, RowStatus
  <2>4. CASE Report(x) \/ ReportLost(x) \/ ReportUnlinked(x)
    <3>1. task[x].got \in RowStatus
      BY <1>1, TaskTyped DEF Tasks
    <3>2. QED
      BY <2>4, <3>1 DEF Report, ReportLost, ReportUnlinked, RowStatus
  <2>5. QED
    BY <2>1, <2>2, <2>3, <2>4 DEF RunStep
<1>5. QED
  BY <1>2, <1>3, <1>4

LEMMA RowOpens ==
  ASSUME BundleInv, Next
  PROVE  /\ \A a \in Actions : row[a] = "none" /\ row'[a] = "inflight" => \E x \in Runs : ~task[x].undo /\ Opens(x, a)
         /\ \A y \in Runs, a \in Actions :
               inv[y][a] = "none" /\ inv'[y][a] = "inflight" => task[y].undo /\ Opens(y, a)
<1>1. TypeOK
  BY DEF BundleInv
<1>2. ASSUME NEW x \in Runs, RunStep(x)
      PROVE  /\ \A a \in Actions : row[a] = "none" /\ row'[a] = "inflight" => \E z \in Runs : ~task[z].undo /\ Opens(z, a)
             /\ \A y \in Runs, a \in Actions :
                   inv[y][a] = "none" /\ inv'[y][a] = "inflight" => task[y].undo /\ Opens(y, a)
  BY <1>2, RunOpens
<1>3. CASE /\ \A a \in Actions : row'[a] = row[a] \/ row'[a] # "inflight"
           /\ \A y \in Runs, a \in Actions : inv'[y][a] = inv[y][a] \/ inv'[y][a] # "inflight"
  BY <1>3
<1>4. \/ \E x \in Runs : RunStep(x)
      \/ /\ \A a \in Actions : row'[a] = row[a] \/ row'[a] # "inflight"
         /\ \A y \in Runs, a \in Actions : inv'[y][a] = inv[y][a] \/ inv'[y][a] # "inflight"
  <2>1. ASSUME NEW b \in Bundles, Create(b) PROVE UNCHANGED <<row, inv>>
    BY <2>1 DEF Create, rows
  <2>2. ASSUME NEW c \in Children, NEW S \in SUBSET Bundles, AdmitChild(c, S) PROVE UNCHANGED <<row, inv>>
    BY <2>2 DEF AdmitChild, rows
  <2>3. CASE Crash \/ Start
    BY <2>3 DEF Crash, Start, rows
  <2>4. CASE RecoverRows
    BY <1>1, <2>4 DEF RecoverRows, TypeOK
  <2>5. ASSUME NEW c \in Children, RecoverChild(c) PROVE UNCHANGED <<row, inv>>
    BY <2>5 DEF RecoverChild, rows
  <2>6. ASSUME NEW b \in Bundles, RecoverBundle(b) PROVE UNCHANGED <<row, inv>>
    BY <2>6 DEF RecoverBundle, rows
  <2>7. ASSUME NEW e \in Actions, Drift(e) PROVE UNCHANGED <<row, inv>>
    BY <2>7 DEF Drift, rows
  <2>8. ASSUME NEW e \in Actions, Reconcile(e)
        PROVE  inv' = inv /\ \A a \in Actions : row'[a] = row[a] \/ row'[a] # "inflight"
    BY <1>1, <2>8 DEF Reconcile, TypeOK
  <2>9. ASSUME NEW x \in Runs, NEW e \in Actions, ReconcileInverse(x, e)
        PROVE  row' = row /\ \A y \in Runs, a \in Actions : inv'[y][a] = inv[y][a] \/ inv'[y][a] # "inflight"
    <3>1. PICK v \in {"changed", "refused"} : inv' = [inv EXCEPT ![x] = [inv[x] EXCEPT ![e] = v]]
      BY <2>9 DEF ReconcileInverse
    <3>2. inv \in [Runs -> [Actions -> RowStatus]] /\ inv[x] \in [Actions -> RowStatus]
      BY <1>1 DEF TypeOK
    <3>3. inv'[x] = [inv[x] EXCEPT ![e] = v] /\ \A y \in Runs \ {x} : inv'[y] = inv[y]
      BY <3>1, <3>2
    <3>4. inv'[x][e] = v /\ \A a \in Actions \ {e} : inv'[x][a] = inv[x][a]
      BY <3>2, <3>3
    <3>5. QED
      BY <2>9, <3>3, <3>4 DEF ReconcileInverse
  <2>10. QED
    BY <2>1, <2>2, <2>3, <2>4, <2>5, <2>6, <2>7, <2>8, <2>9 DEF Next, StartupStep
<1>5. QED
  BY <1>2, <1>3, <1>4

\* A bundle never opens a row on a router that carries a change of another
\* activation which did not succeed, however the two were started, interrupted or
\* recovered (reroute/locks.rs, acquire_bundle_change_windows).
THEOREM ForeignWritesExcluded == Spec => ForeignWriteExcluded
<1> DEFINE Excluded ==
             \A a, e \in Actions :
               ( /\ row[a] = "none" /\ row'[a] = "inflight" /\ slot'[a] # "unlinked"
                 /\ DeviceOf[e] = DeviceOf[a] /\ HomeOf[e] # HomeOf[a] /\ eff[e] # "off" )
               => bstate[HomeOf[e]] = "succeeded"
<1>1. ASSUME BundleInv, Next PROVE Excluded
  <2>1. SUFFICES ASSUME NEW a \in Actions, NEW e \in Actions, row[a] = "none", row'[a] = "inflight", slot'[a] # "unlinked",
                        DeviceOf[e] = DeviceOf[a], HomeOf[e] # HomeOf[a], eff[e] # "off", bstate[HomeOf[e]] # "succeeded"
                 PROVE  FALSE
    OBVIOUS
  <2>2. PICK x \in Runs : ~task[x].undo /\ Opens(x, a)
    BY <1>1, <2>1, RowOpens
  <2>3. task[x].pc = "loop" /\ a = NextAction(x)
    BY <2>2 DEF Opens
  <2>4. x \in Bundles /\ HomeOf[a] = x /\ Forward(x)
    BY <1>1, <2>2, <2>3, InHand DEF Forward
  <2>5. DeviceOf[a] \in DevicesOf(x)
    BY <2>4, RunsAre DEF DevicesOf, ActionsOf, SiblingsOf
  <2>6. \A z \in Members(DeviceOf[a], member) : z = x \/ bstate[z] = "succeeded"
    BY <1>1, <2>3, <2>4, <2>5 DEF BundleInv, RunInv, Apart
  <2>7. ~Inverted(e, inv)
    BY <1>1, <2>1 DEF BundleInv, RowInv, ChangeIsOwned
  <2>8. <<DeviceOf[a], HomeOf[e]>> \in member
    BY <1>1, <2>1, <2>7 DEF BundleInv, OwnerInv, RowsHeld, RowHeld
  <2>9. QED
    BY <2>1, <2>4, <2>6, <2>8, RunsAre DEF Members
<1>2. BundleInv /\ [Next]_vars => [Excluded]_vars
  BY <1>1
<1>3. Spec => [][Excluded]_vars
  BY <1>2, BundleHolds, PTL DEF Spec
<1>4. QED
  BY <1>3 DEF ForeignWriteExcluded

\* A run, a compensation or a recovery opens no row while one of the bundles it
\* works on has an unresolved original or inverse (reroute/bundle.rs, the sibling
\* loop's stop; reroute/recovery.rs, source_proof_on).
THEOREM AmbiguityStops == Spec => AmbiguityFreezes
<1> DEFINE Frozen ==
             \A a, e \in Actions :
               ( /\ \/ row[a] = "none" /\ row'[a] = "inflight"
                   \/ \E x \in Runs : inv[x][a] = "none" /\ inv'[x][a] = "inflight"
                 /\ HomeOf[e] = HomeOf[a] )
               => /\ row[e] # "uncertain" /\ row[e] # "cancelled"
                  /\ \A x \in Runs : inv[x][e] # "uncertain"
<1>1. ASSUME BundleInv, NEW x \in Runs, NEW a \in Actions, Opens(x, a), NEW e \in Actions, HomeOf[e] = HomeOf[a]
      PROVE  row[e] # "uncertain" /\ row[e] # "cancelled" /\ \A y \in Runs : inv[y][e] # "uncertain"
  <2>1. task[x].pc = "loop" /\ a = NextAction(x)
    BY <1>1 DEF Opens
  <2>2. Live(x) /\ task[x].stop = "no" /\ HomeOf[e] \in Src(x)
    BY <1>1, <2>1, InHand
  <2>3. CASE task[x].undo
    <3>1. UndoFits(x, e)
      BY <1>1, <2>2, <2>3 DEF BundleInv, RunInv, Undos, Undoing
    <3>2. QED
      BY <2>2, <3>1 DEF UndoFits
  <2>4. CASE ~task[x].undo
    <3>1. x \in Bundles /\ HomeOf[e] = x
      BY <1>1, <2>1, <2>4, InHand
    <3>2. ForwardFits(x, e) /\ ~Doing(x, e)
      BY <1>1, <2>1, <2>2, <2>4, <3>1 DEF BundleInv, RunInv, Forwards, Forward, Doing
    <3>3. bstate[x] \in InFlight
      BY <1>1, <2>2, <3>1 DEF BundleInv, OwnerInv, States
    <3>4. \A y \in Runs : inv[y][e] = "none"
      BY <1>1, <3>1, <3>2, <3>3 DEF BundleInv, OwnerInv, States, ForwardFits
    <3>5. QED
      BY <2>2, <3>2, <3>4 DEF ForwardFits
  <2>5. QED
    BY <2>3, <2>4
<1>2. ASSUME BundleInv, Next PROVE Frozen
  BY <1>1, <1>2, RowOpens
<1>3. BundleInv /\ [Next]_vars => [Frozen]_vars
  BY <1>2
<1>4. Spec => [][Frozen]_vars
  BY <1>3, BundleHolds, PTL DEF Spec
<1>5. QED
  BY <1>4 DEF AmbiguityFreezes

\* Only an execution writes to a router; whoever drifts a router by hand moves no run.
LEMMA WhoWrites ==
  ASSUME BundleInv, Next, NEW a \in Actions, eff'[a] # eff[a], eff[a] = "off" \/ task' # task
  PROVE  \E x \in Runs : Execute(x)
<1>1. TypeOK
  BY DEF BundleInv
<1>2. SUFFICES ASSUME \A x \in Runs : ~Execute(x) PROVE FALSE
  OBVIOUS
<1>3. ASSUME NEW x \in Runs, RunStep(x) PROVE eff' = eff
  BY <1>2, <1>3 DEF RunStep, Acquire, AcquireRefused, PreflightRefused, Begin, ReproofLost, Report, ReportLost,
     ReportUnlinked, Blocked, FinalStateLost, Close, CloseLost, Compensate
<1>4. ASSUME NEW e \in Actions, Drift(e) PROVE FALSE
  <2>1. task' = task /\ eff[e] # "off" /\ \E v : eff' = [eff EXCEPT ![e] = v]
    BY <1>4 DEF Drift
  <2>2. QED
    BY <1>1, <2>1 DEF TypeOK
<1>5. (\E e \in Actions : Drift(e)) \/ eff' = eff
  BY <1>3 DEF Next, Create, AdmitChild, Crash, StartupStep, RecoverRows, Start, RecoverChild, RecoverBundle,
     Reconcile, ReconcileInverse
<1>6. QED
  BY <1>4, <1>5

\* Traffic keeps a path, for any order, number and interruption of runs: a
\* destructive action is written only over proved siblings that are in force, and
\* a replacement is withdrawn only once what relied on it is off the router
\* (reroute/bundle.rs, the apply loop and the reverse order of compensation and
\* recovery).
THEOREM PathsKept == Spec => PathKept
<1>1. ASSUME BundleInv, Next PROVE MakeBeforeBreak
  <2>1. SUFFICES ASSUME NEW a \in Destructive, NEW e \in Actions, eff[a] = "off", eff'[a] # "off",
                        HomeOf[e] = HomeOf[a], Rank[e] < Rank[a], policy[HomeOf[a]] # "continue"
                 PROVE  row[e] \in Succeeded /\ (row[e] = "changed" => eff[e] = "on")
    BY DEF MakeBeforeBreak
  <2>2. a \in Actions
    BY BundleAssumption
  <2>3. PICK x \in Runs : Execute(x)
    BY <1>1, <2>1, <2>2, WhoWrites
  <2>4. PICK n : n = NextAction(x)
    OBVIOUS
  <2>5. task[x].pc = "loop" /\ \E g, w : Ran(x, n, g, w)
    BY <1>1, <2>3, <2>4, ExecuteEffects
  <2>6. PICK g, w : Ran(x, n, g, w)
    BY <2>5
  <2>7. a = n /\ ~task[x].undo
    BY <1>1, <2>1, <2>2, <2>6 DEF Ran, Written, BundleInv, TypeOK
  <2>8. /\ x \in Bundles /\ HomeOf[a] = x /\ Live(x) /\ task[x].stop = "no" /\ task[x].todo # {}
        /\ task[x].todo \subseteq Actions
    BY <1>1, <2>4, <2>5, <2>7, InHand, TaskTyped DEF Tasks, BundleInv
  <2>9. e \notin task[x].todo
    <3>1. \A z \in task[x].todo : Rank[a] <= Rank[z]
      BY <2>4, <2>7, <2>8, NextIsPending
    <3>2. Rank[e] \in Nat /\ Rank[a] \in Nat
      BY <2>2, BundleAssumption
    <3>3. QED
      BY <2>1, <3>1, <3>2
  <2>10. ForwardFits(x, e)
    BY <1>1, <2>1, <2>7, <2>8 DEF BundleInv, RunInv, Forwards, Forward
  <2>11. QED
    BY <2>1, <2>8, <2>9, <2>10 DEF ForwardFits
<1>2. ASSUME BundleInv, Next PROVE LastPathKept
  <2>1. SUFFICES ASSUME NEW e \in Actions, NEW a \in Destructive, eff[e] = "on", eff'[e] # "on", task' # task,
                        HomeOf[e] = HomeOf[a], Rank[e] < Rank[a]
                 PROVE  eff[a] = "off"
    BY DEF LastPathKept
  <2>2. a \in Actions
    BY BundleAssumption
  <2>3. PICK x \in Runs : Execute(x)
    BY <1>2, <2>1, WhoWrites
  <2>4. PICK n : n = NextAction(x)
    OBVIOUS
  <2>5. task[x].pc = "loop" /\ \E g, w : Ran(x, n, g, w)
    BY <1>2, <2>3, <2>4, ExecuteEffects
  <2>6. PICK g, w : Ran(x, n, g, w)
    BY <2>5
  <2>7. e = n /\ task[x].undo
    BY <1>2, <2>1, <2>6 DEF Ran, Written, BundleInv, TypeOK
  <2>8. /\ HomeOf[a] \in Src(x) /\ Live(x) /\ task[x].stop = "no" /\ task[x].todo # {}
        /\ task[x].todo \subseteq Actions
    BY <1>2, <2>1, <2>4, <2>5, <2>7, InHand, TaskTyped DEF Tasks, BundleInv
  <2>9. a \notin task[x].todo
    <3>1. \A z \in task[x].todo : Rank[e] >= Rank[z]
      BY <2>4, <2>7, <2>8, NextIsPending
    <3>2. Rank[e] \in Nat /\ Rank[a] \in Nat
      BY <2>2, BundleAssumption
    <3>3. QED
      BY <2>1, <3>1, <3>2
  <2>10. UndoFits(x, a)
    BY <1>2, <2>2, <2>7, <2>8 DEF BundleInv, RunInv, Undos, Undoing
  <2>11. QED
    BY <2>8, <2>9, <2>10 DEF UndoFits
<1>3. BundleInv /\ [Next]_vars => [MakeBeforeBreak /\ LastPathKept]_vars
  BY <1>1, <1>2
<1>4. Spec => [][MakeBeforeBreak /\ LastPathKept]_vars
  BY <1>3, BundleHolds, PTL DEF Spec
<1>5. QED
  BY <1>4 DEF PathKept
=============================================================================
