------------------------ MODULE ManualMitigation_proofs ------------------------
(***************************************************************************)
(* Proofs about runs started and reverted by an operator (module            *)
(* ManualMitigation), for any number of requests, edits, runs and faults.   *)
(***************************************************************************)
EXTENDS ManualMitigation, FiniteSetTheorems, TLAPS

States == {"planned", "running", "succeeded", "failed", "compensation_blocked", "compensated"}
Lives == {"inactive", "active", "scheduled", "claimed", "blocked"}
Steps == {"none", "published", "spawned", "accepted", "preparing", "ready", "running", "refresh", "schedule",
          "settling", "abandoned"}
Outcomes == {"changed", "noop", "failed", "partial", "unknown"}

Definitions == [kind : {"preset", "rule"}, revision : Nat, content : Nat, open : BOOLEAN]
Asks == [pc : {"idle", "read", "loaded"}, rev : Nat, content : Nat, plan : {"none", "fresh", "consumed"}]
Rows == [by : Requests \cup {"operator", "timer"}, parent : Nat, path : {"direct", "plan"},
         rev : Nat, content : Nat, state : States, held : {"none", "changed", "unknown"},
         owns : BOOLEAN, life : Lives, claim : Nat, timer : BOOLEAN, cancelled : BOOLEAN]

Typed == /\ def \in Definitions
         /\ ask \in [Requests -> Asks]
         /\ bundles \in Seq(Rows) /\ task \in Seq(Steps) /\ Len(task) = Len(bundles)

\* The actions in force are those of the revision in force; archiving a preset
\* moves its revision alone.
DefinitionWhole == def.open \/ def.kind = "rule" => def.content = def.revision

\* What a request has read is of no revision to come, and agrees with itself as
\* long as the revision it read is in force.
ReadingsAgree ==
    \A r \in Requests :
        /\ ask[r].pc # "idle" \/ ask[r].plan = "fresh" => ask[r].rev <= def.revision
        /\ ask[r].pc = "loaded" \/ ask[r].plan = "fresh" =>
             (def.open /\ def.revision = ask[r].rev => ask[r].content = ask[r].rev)

\* A request that has its run cannot start another: a preview is consumed, and
\* a direct request has none.
Answered ==
    /\ \A r \in Direct : ask[r].plan = "none"
    /\ \A b \in DOMAIN bundles :
         bundles[b].parent = 0 =>
           /\ bundles[b].by \in Requests
           /\ bundles[b].by \in Direct \/ ask[bundles[b].by].plan = "consumed"
    /\ \A b, c \in DOMAIN bundles :
         bundles[b].parent = 0 /\ bundles[c].parent = 0 /\ bundles[b].by = bundles[c].by => b = c

\* A child reverts a run that has ended.  It holds the run's claim until it
\* ends, and past that when what it left is unknown; once it succeeded there is
\* nothing left to revert.
ChildOfRun(c, s) ==
    /\ s \in DOMAIN bundles /\ bundles[s].parent = 0 /\ bundles[s].state \notin Pending
    /\ bundles[c].state # "compensated"
    /\ bundles[c].state \in Pending \cup {"compensation_blocked"} => bundles[s].claim = c
    /\ bundles[c].state = "succeeded" => bundles[s].held = "none"

ClaimsKept == \A c \in DOMAIN bundles : bundles[c].parent # 0 => ChildOfRun(c, bundles[c].parent)

OneRevert ==
    \A c, d \in DOMAIN bundles :
        /\ bundles[c].parent # 0 /\ bundles[c].parent = bundles[d].parent
        /\ bundles[c].state # "failed" /\ bundles[d].state # "failed"
        => c = d

\* Where the task of bundle b stands tells how far the bundle is.
TaskFits(b) ==
    /\ task[b] \in {"published", "spawned", "accepted", "preparing", "ready"} => bundles[b].state = "planned"
    /\ task[b] = "accepted" => bundles[b].path = "plan"
    /\ task[b] = "running" => bundles[b].state = "running"
    /\ task[b] = "settling" => bundles[b].state \in Pending
    /\ task[b] \in {"refresh", "schedule"} => bundles[b].state \notin Pending
    /\ bundles[b].state \in Pending /\ bundles[b].path = "direct" => task[b] # "none"

TasksFit == \A b \in DOMAIN bundles : TaskFits(b)

RunsMatch ==
    \A b \in DOMAIN bundles :
        bundles[b].parent = 0 =>
          /\ bundles[b].content = bundles[b].rev
          /\ def.kind = "rule" /\ bundles[b].state \in Pending => bundles[b].rev = def.revision

\* No run is published directly behind an unfinished one.
DirectAlone ==
    \A b, c \in DOMAIN bundles :
        b < c /\ bundles[b].parent = 0 /\ bundles[c].parent = 0 /\ bundles[b].state \in Pending
        => bundles[c].path = "plan"

ManualInv == /\ Typed /\ DefinitionWhole /\ ReadingsAgree /\ Answered
             /\ ClaimsKept /\ OneRevert /\ TasksFit /\ RunsMatch /\ DirectAlone

-----------------------------------------------------------------------------
(* Rows *)

LEMMA ManualInitially == Init => ManualInv
<1> SUFFICES ASSUME Init PROVE ManualInv
  OBVIOUS
<1>1. Typed
  BY DEF Init, Typed, Definitions, Asks, Idle
<1>2. DOMAIN bundles = {}
  BY DEF Init
<1>3. DefinitionWhole /\ ReadingsAgree /\ Answered
  BY <1>2, ManualAssumption DEF Init, Idle, DefinitionWhole, ReadingsAgree, Answered
<1>4. ClaimsKept /\ OneRevert /\ TasksFit /\ RunsMatch /\ DirectAlone
  BY <1>2 DEF ClaimsKept, OneRevert, TasksFit, RunsMatch, DirectAlone
<1>5. QED
  BY <1>1, <1>3, <1>4 DEF ManualInv

LEMMA FunctionIsSequence ==
  ASSUME NEW S, NEW n \in Nat, NEW f \in [1 .. n -> S]
  PROVE  f \in Seq(S) /\ Len(f) = n
  OBVIOUS

\* What a step leaves alone of a row: where it came from and what it runs.
Identity(x, y) == /\ x.by = y.by /\ x.parent = y.parent /\ x.path = y.path
                  /\ x.rev = y.rev /\ x.content = y.content

\* Rows move, none is added, and none that had ended starts again.
RowsMove ==
    /\ bundles' \in Seq(Rows) /\ Len(bundles') = Len(bundles)
    /\ task' \in Seq(Steps) /\ Len(task') = Len(task)
    /\ \A b \in DOMAIN bundles : /\ Identity(bundles'[b], bundles[b])
                                 /\ bundles'[b].state \in Pending => bundles[b].state \in Pending

LEMMA DomainsOfRows ==
  ASSUME Typed
  PROVE  /\ DOMAIN bundles = 1 .. Len(bundles) /\ DOMAIN task = DOMAIN bundles /\ Len(bundles) \in Nat
         /\ \A b \in DOMAIN bundles : bundles[b] \in Rows /\ task[b] \in Steps
  BY DEF Typed

\* A restart forgets the requests in progress, not the previews.
AsksForgotten ==
    /\ ask' \in [Requests -> Asks]
    /\ \A r \in Requests : ask'[r] = ask[r] \/ (ask[r].plan = "none" /\ ask'[r] = Idle)

LEMMA MoveKeepsRows ==
  ASSUME ManualInv, RowsMove, UNCHANGED def, UNCHANGED ask \/ AsksForgotten
  PROVE  Typed' /\ DefinitionWhole' /\ ReadingsAgree' /\ Answered' /\ RunsMatch' /\ DirectAlone'
<1> USE DEF ManualInv, RowsMove
<1>1. Typed'
  BY DEF Typed, AsksForgotten
<1>2. DOMAIN bundles' = DOMAIN bundles
  BY DomainsOfRows, <1>1 DEF Typed
<1>3. DefinitionWhole' /\ ReadingsAgree'
  BY DEF DefinitionWhole, ReadingsAgree, AsksForgotten, Idle
<1>4. Answered'
  <2>1. \A r \in Requests : ask'[r].plan = ask[r].plan
    BY DEF AsksForgotten, Idle
  <2>2. QED
    BY <1>2, <2>1, ManualAssumption DEF Answered, Identity
<1>5. RunsMatch'
  BY <1>2 DEF RunsMatch, Identity
<1>6. DirectAlone'
  BY <1>2 DEF DirectAlone, Identity
<1>7. QED
  BY <1>1, <1>3, <1>4, <1>5, <1>6

\* A step that touches neither states, nor what is held, nor claims.
LEMMA CosmeticStep ==
  ASSUME ManualInv, RowsMove, UNCHANGED <<def, ask>>, TasksFit',
         \A b \in DOMAIN bundles : /\ bundles'[b].state = bundles[b].state
                                   /\ bundles'[b].held = bundles[b].held
                                   /\ bundles'[b].claim = bundles[b].claim
  PROVE  ManualInv'
<1>1. DOMAIN bundles' = DOMAIN bundles
  BY DomainsOfRows, MoveKeepsRows DEF ManualInv, RowsMove, Typed
<1>2. ClaimsKept'
  BY <1>1 DEF ManualInv, ClaimsKept, ChildOfRun, RowsMove, Identity
<1>3. OneRevert'
  BY <1>1 DEF ManualInv, OneRevert, RowsMove, Identity
<1>4. QED
  BY <1>2, <1>3, MoveKeepsRows DEF ManualInv

-----------------------------------------------------------------------------
(* How bundles end *)

\* The bundles of DOMAIN o end, each with an outcome it may have.
Ending(o) ==
    /\ DOMAIN o \subseteq DOMAIN bundles
    /\ \A b \in DOMAIN o : /\ bundles[b].state \in Pending /\ o[b] \in Outcomes
                           /\ bundles[b].parent # 0 => o[b] \in {"changed", "failed", "unknown"}

LEMMA FinalStates ==
  ASSUME NEW x \in Outcomes
  PROVE  /\ Final(x) \in {"succeeded", "failed", "compensation_blocked"}
         /\ x = "changed" => Final(x) = "succeeded"
         /\ x = "failed" => Final(x) = "failed"
         /\ x = "unknown" => Final(x) = "compensation_blocked"
  BY DEF Final, Outcomes

\* The child that ends for a source is the one that holds its claim.
LEMMA EndingChild ==
  ASSUME ManualInv, NEW o, Ending(o), NEW b \in DOMAIN bundles,
         NEW c \in DOMAIN o, bundles[c].parent = b
  PROVE  /\ b \notin DOMAIN o /\ c = bundles[b].claim /\ bundles[b].state \notin Pending
         /\ c = CHOOSE d \in DOMAIN o : bundles[d].parent = b
<1>1. b # 0
  BY DomainsOfRows DEF ManualInv
<1>2. \A d \in DOMAIN o : bundles[d].parent = b => bundles[b].claim = d /\ bundles[b].state \notin Pending
  BY <1>1 DEF ManualInv, ClaimsKept, ChildOfRun, Ending
<1>3. QED
  BY <1>2 DEF Ending

LEMMA EndedRow ==
  ASSUME ManualInv, NEW o, Ending(o), NEW b \in DOMAIN bundles
  PROVE  /\ Ended(o)[b] \in Rows /\ Identity(Ended(o)[b], bundles[b])
         /\ b \in DOMAIN o => /\ Ended(o)[b].state = Final(o[b]) /\ Ended(o)[b].claim = bundles[b].claim
                              /\ bundles[b].parent # 0 => Ended(o)[b].held = bundles[b].held
         /\ b \notin DOMAIN o => /\ Ended(o)[b].state \in Pending <=> bundles[b].state \in Pending
                                 /\ bundles[b].parent # 0 => Ended(o)[b] = bundles[b]
                                 /\ bundles[b].held = "none" => Ended(o)[b].held = "none"
         /\ \A c \in DOMAIN o : bundles[c].parent = b =>
               /\ o[c] = "changed" => Ended(o)[b].held = "none"
               /\ o[c] = "unknown" => Ended(o)[b].claim = bundles[b].claim
         /\ (\A c \in DOMAIN o : bundles[c].parent # b) /\ b \notin DOMAIN o => Ended(o)[b] = bundles[b]
<1> USE DEF Identity
<1>0. bundles[b] \in Rows /\ b # 0
  BY DomainsOfRows DEF ManualInv
<1>1. CASE b \in DOMAIN o
  <2>1. o[b] \in Outcomes /\ Final(o[b]) \in States
    BY <1>1, FinalStates DEF Ending, States
  <2>2. \A c \in DOMAIN o : bundles[c].parent # b
    BY <1>1, EndingChild
  <2>3. CASE bundles[b].parent = 0
    <3>1. Ended(o)[b] = RunEnds(b, o[b])
      BY <1>1, <2>3 DEF Ended
    <3>2. RunEnds(b, o[b]) \in Rows
      BY <1>0, <2>1 DEF RunEnds, Rows
    <3>3. QED
      BY <1>0, <1>1, <2>1, <2>2, <2>3, <3>1, <3>2 DEF RunEnds, Rows
  <2>4. CASE bundles[b].parent # 0
    <3>1. Ended(o)[b] = [bundles[b] EXCEPT !.state = Final(o[b])]
      BY <1>1, <2>4 DEF Ended
    <3>2. QED
      BY <1>0, <1>1, <2>1, <2>2, <2>4, <3>1 DEF Rows
  <2>5. QED
    BY <2>3, <2>4
<1>2. CASE b \notin DOMAIN o /\ \A c \in DOMAIN o : bundles[c].parent # b
  <2>1. Ended(o)[b] = bundles[b]
    BY <1>2 DEF Ended
  <2>2. QED
    BY <1>0, <1>2, <2>1
<1>3. CASE \E c \in DOMAIN o : bundles[c].parent = b
  <2>1. PICK c \in DOMAIN o : bundles[c].parent = b
    BY <1>3
  <2>2. b \notin DOMAIN o /\ bundles[b].state \notin Pending /\ c = CHOOSE d \in DOMAIN o : bundles[d].parent = b
    BY <2>1, EndingChild
  <2>3. \A d \in DOMAIN o : bundles[d].parent = b => d = c
    BY <2>1, EndingChild
  <2>4. Ended(o)[b] = SourceEnds(b, o[c])
    BY <2>1, <2>2 DEF Ended
  <2>5. o[c] \in {"changed", "failed", "unknown"}
    BY <1>0, <2>1 DEF Ending
  <2>6. bundles[b].parent = 0
    BY <1>0, <2>1 DEF ManualInv, ClaimsKept, ChildOfRun, Ending
  <2>7. SourceEnds(b, o[c]) \in Rows
    BY <1>0, <2>5 DEF SourceEnds, Rows, States, Lives
  <2>8. /\ Identity(SourceEnds(b, o[c]), bundles[b]) /\ SourceEnds(b, o[c]).state \notin Pending
        /\ bundles[b].held = "none" => SourceEnds(b, o[c]).held = "none"
        /\ o[c] = "changed" => SourceEnds(b, o[c]).held = "none"
        /\ o[c] = "unknown" => SourceEnds(b, o[c]).claim = bundles[b].claim
    BY <1>0, <2>2, <2>5 DEF SourceEnds, Rows, Pending
  <2>9. QED
    BY <2>1, <2>2, <2>3, <2>4, <2>6, <2>7, <2>8
<1>4. QED
  BY <1>1, <1>2, <1>3

LEMMA EndingMoves ==
  ASSUME ManualInv, NEW o, Ending(o), bundles' = Ended(o), task' \in Seq(Steps), Len(task') = Len(task)
  PROVE  RowsMove
<1>1. DOMAIN bundles = 1 .. Len(bundles) /\ Len(bundles) \in Nat
  BY DomainsOfRows DEF ManualInv
<1>2. bundles' = [b \in 1 .. Len(bundles) |-> Ended(o)[b]]
  BY <1>1 DEF Ended
<1>3. bundles' \in [1 .. Len(bundles) -> Rows]
  BY <1>1, <1>2, EndedRow
<1>4. bundles' \in Seq(Rows) /\ Len(bundles') = Len(bundles)
  BY <1>1, <1>3
<1>5. \A b \in DOMAIN bundles : /\ Identity(bundles'[b], bundles[b])
                                /\ bundles'[b].state \in Pending => bundles[b].state \in Pending
  BY EndedRow DEF Ending
<1>6. QED
  BY <1>4, <1>5 DEF RowsMove

\* Whatever ends, with whatever outcome, leaves the claims as they should be.
LEMMA EndingKeepsClaims ==
  ASSUME ManualInv, NEW o, Ending(o), bundles' = Ended(o), task' \in Seq(Steps), Len(task') = Len(task)
  PROVE  ClaimsKept' /\ OneRevert'
<1>1. DOMAIN bundles' = DOMAIN bundles
  BY DEF Ended
<1>2. ASSUME NEW c \in DOMAIN bundles, bundles'[c].parent # 0
      PROVE  /\ bundles[c].parent # 0 /\ bundles'[c].parent = bundles[c].parent
             /\ ChildOfRun(c, bundles[c].parent)' /\ (bundles'[c].state # "failed" => bundles[c].state # "failed")
  <2> DEFINE s == bundles[c].parent
  <2>1. bundles'[c].parent = s /\ s # 0
    BY <1>2, EndedRow DEF Identity
  <2>2. ChildOfRun(c, s)
    BY <2>1 DEF ManualInv, ClaimsKept
  <2>3. s \in DOMAIN bundles /\ bundles'[s].parent = 0
    BY <2>2, EndedRow DEF ChildOfRun, Identity
  <2>4. s \notin DOMAIN o /\ bundles'[s].state \notin Pending
    BY <2>2, <2>3, EndedRow DEF ChildOfRun, Ending
  <2>5. CASE c \in DOMAIN o
    <3>1. o[c] \in {"changed", "failed", "unknown"} /\ bundles[c].state \in Pending
      BY <2>1, <2>5 DEF Ending
    <3>2. bundles'[c].state = Final(o[c])
      BY <2>5, EndedRow
    <3>3. /\ o[c] = "changed" => bundles'[s].held = "none"
          /\ o[c] = "unknown" => bundles'[s].claim = bundles[s].claim
      BY <2>3, <2>5, EndedRow
    <3>4. QED
      BY <1>1, <2>1, <2>2, <2>3, <2>4, <3>1, <3>2, <3>3, FinalStates
         DEF ChildOfRun, Outcomes, Pending
  <2>6. CASE c \notin DOMAIN o
    <3>1. bundles'[c] = bundles[c]
      BY <2>1, <2>6, EndedRow
    <3>2. bundles[s].held = "none" => bundles'[s].held = "none"
      BY <2>3, <2>4, EndedRow
    <3>3. ASSUME bundles[c].state \in Pending \cup {"compensation_blocked"} PROVE bundles'[s].claim = c
      <4>1. bundles[s].claim = c
        BY <2>2, <3>3 DEF ChildOfRun
      <4>2. \A d \in DOMAIN o : bundles[d].parent # s
        BY <2>3, <2>6, <4>1, EndingChild
      <4>3. bundles'[s] = bundles[s]
        BY <2>3, <2>4, <4>2, EndedRow
      <4>4. QED
        BY <4>1, <4>3
    <3>4. QED
      BY <1>1, <2>1, <2>2, <2>3, <2>4, <3>1, <3>2, <3>3 DEF ChildOfRun
  <2>7. QED
    BY <2>5, <2>6
<1>3. ClaimsKept'
  BY <1>1, <1>2 DEF ClaimsKept
<1>4. OneRevert'
  BY <1>1, <1>2, EndedRow DEF OneRevert, ManualInv, Identity
<1>5. QED
  BY <1>3, <1>4

\* The bundles of DOMAIN o end and their tasks with them.
LEMMA EndingStep ==
  ASSUME ManualInv, NEW o, Ending(o), bundles' = Ended(o), UNCHANGED def, UNCHANGED ask \/ AsksForgotten,
         task' \in Seq(Steps), Len(task') = Len(task),
         \A b \in DOMAIN o : task'[b] \in {"none", "refresh"},
         \A b \in DOMAIN bundles \ DOMAIN o :
            task'[b] = task[b] \/ (task'[b] = "none" /\ bundles[b].state \notin Pending)
  PROVE  ManualInv'
<1>1. RowsMove
  BY EndingMoves
<1>2. DOMAIN bundles' = DOMAIN bundles
  BY DEF Ended
<1>3. ASSUME NEW b \in DOMAIN bundles PROVE TaskFits(b)'
  <2>1. CASE b \in DOMAIN o
    <3>1. bundles'[b].state \notin Pending
      BY <2>1, EndedRow, FinalStates DEF Ending, Pending
    <3>2. QED
      BY <2>1, <3>1 DEF TaskFits
  <2>2. CASE b \notin DOMAIN o
    <3>1. /\ task'[b] = task[b] \/ (task'[b] = "none" /\ bundles[b].state \notin Pending)
          /\ bundles'[b].path = bundles[b].path
          /\ bundles'[b].state \in Pending <=> bundles[b].state \in Pending
      BY <1>3, <2>2, EndedRow DEF Identity
    <3>2. bundles[b].state \in Pending => bundles'[b] = bundles[b]
      <4>1. SUFFICES ASSUME bundles[b].state \in Pending PROVE bundles'[b] = bundles[b]
        OBVIOUS
      <4>2. \A c \in DOMAIN o : bundles[c].parent # b
        BY <4>1, EndingChild
      <4>3. QED
        BY <2>2, <4>2, EndedRow
    <3>3. QED
      BY <3>1, <3>2 DEF TaskFits, ManualInv, TasksFit, Pending
  <2>3. QED
    BY <2>1, <2>2
<1>4. TasksFit'
  BY <1>2, <1>3 DEF TasksFit
<1>5. QED
  BY <1>1, <1>4, EndingKeepsClaims, MoveKeepsRows DEF ManualInv

-----------------------------------------------------------------------------
(* Definitions and requests *)

\* A step that leaves the bundles alone.
LEMMA QuietStep ==
  ASSUME ManualInv, UNCHANGED <<bundles, task>>,
         def' \in Definitions, ask' \in [Requests -> Asks],
         DefinitionWhole', ReadingsAgree',
         def'.kind = def.kind,
         def.kind = "rule" /\ def'.revision # def.revision => \A b \in Runs : bundles[b].state \notin Pending,
         \A r \in Direct : ask'[r].plan = "none",
         \A r \in Requests : ask[r].plan = "consumed" => ask'[r].plan = "consumed"
  PROVE  ManualInv'
<1>1. Typed'
  BY DEF ManualInv, Typed
<1>2. Answered'
  BY DEF ManualInv, Answered
<1>3. ClaimsKept' /\ OneRevert' /\ TasksFit'
  BY DEF ManualInv, ClaimsKept, ChildOfRun, OneRevert, TasksFit, TaskFits
<1>4. RunsMatch' /\ DirectAlone'
  BY DEF ManualInv, RunsMatch, Runs, DirectAlone
<1>5. QED
  BY <1>1, <1>2, <1>3, <1>4 DEF ManualInv

LEMMA DefinitionSteps == ASSUME ManualInv, save \/ replace_actions \/ Close PROVE ManualInv'
<1>1. def \in Definitions /\ ask \in [Requests -> Asks]
  BY DEF ManualInv, Typed
<1>2. UNCHANGED <<bundles, task, ask>>
  BY DEF save, replace_actions, Close, Revised
<1>3. \/ def' = [def EXCEPT !.revision = def.revision + 1, !.content = def.revision + 1]
      \/ def' = [def EXCEPT !.open = FALSE, !.revision = def.revision + 1]
      \/ def' = [def EXCEPT !.open = FALSE]
  BY <1>1 DEF save, replace_actions, Close, Revised, Definitions
<1>4. def.revision \in Nat /\ def.revision + 1 \in Nat
  BY <1>1 DEF Definitions
<1>5. def' \in Definitions /\ def'.kind = def.kind
  BY <1>1, <1>3, <1>4 DEF Definitions
<1>6. DefinitionWhole'
  BY <1>1 DEF save, replace_actions, Close, Revised, Definitions, ManualInv, DefinitionWhole
<1>7. def'.revision >= def.revision /\ (def'.open => def'.revision # def.revision)
  <2>1. \/ def'.revision = def.revision + 1
        \/ def'.revision = def.revision /\ def'.open = FALSE
    BY <1>1, <1>3 DEF Definitions
  <2>2. QED
    BY <1>4, <2>1
<1>8. ReadingsAgree'
  <2>1. ASSUME NEW r \in Requests, ask[r].pc # "idle" \/ ask[r].plan = "fresh"
        PROVE  ask[r].rev <= def'.revision /\ ~(def'.open /\ def'.revision = ask[r].rev)
    <3>1. ask[r].rev \in Nat /\ ask[r].rev <= def.revision /\ def'.revision \in Nat
      BY <1>1, <1>5, <2>1 DEF ManualInv, ReadingsAgree, Asks, Definitions
    <3>2. QED
      BY <1>7, <1>4, <3>1
  <2>2. QED
    BY <1>2, <2>1 DEF ReadingsAgree
<1>9. def.kind = "rule" /\ def'.revision # def.revision => \A b \in Runs : bundles[b].state \notin Pending
  BY <1>1 DEF save, replace_actions, Close, Revised, Definitions, lock_action_edit, Active
<1>10. QED
  BY <1>1, <1>2, <1>5, <1>6, <1>8, <1>9, QuietStep DEF ManualInv, Answered

LEMMA RequestSteps ==
  ASSUME ManualInv, NEW r \in Requests,
         ReadRevision(r) \/ LoadActions(r) \/ preview_actions(r) \/ Expire(r)
  PROVE  ManualInv'
<1>1. def \in Definitions /\ ask \in [Requests -> Asks]
  BY DEF ManualInv, Typed
<1>2. UNCHANGED <<bundles, task, def>>
  BY DEF ReadRevision, LoadActions, preview_actions, Expire
<1>3. ask' \in [Requests -> Asks] /\ \A q \in Requests : q # r => ask'[q] = ask[q]
  BY <1>1 DEF ReadRevision, LoadActions, preview_actions, Expire, Asks, Definitions, Idle
<1>4. /\ ask[r].plan = "consumed" => ask'[r].plan = "consumed"
      /\ r \in Direct /\ ask[r].plan = "none" => ask'[r].plan = "none"
  BY <1>1 DEF ReadRevision, LoadActions, preview_actions, Expire, Asks, Idle
<1>5. ReadingsAgree'
  <2>1. /\ ask'[r].pc # "idle" \/ ask'[r].plan = "fresh" => ask'[r].rev <= def.revision
        /\ ask'[r].pc = "loaded" \/ ask'[r].plan = "fresh" =>
             (def.open /\ def.revision = ask'[r].rev => ask'[r].content = ask'[r].rev)
    BY <1>1 DEF ReadRevision, LoadActions, preview_actions, Expire, Asks, Definitions, Idle,
                ManualInv, ReadingsAgree, DefinitionWhole
  <2>2. QED
    BY <1>2, <1>3, <2>1 DEF ManualInv, ReadingsAgree
<1>6. DefinitionWhole'
  BY <1>2 DEF ManualInv, DefinitionWhole
<1>7. QED
  BY <1>1, <1>2, <1>3, <1>4, <1>5, <1>6, QuietStep, ManualAssumption DEF ManualInv, Answered

-----------------------------------------------------------------------------
(* Admissions *)

LEMMA NewRows ==
  ASSUME NEW by \in Requests \cup {"operator", "timer"}, NEW parent \in Nat, NEW path \in {"direct", "plan"},
         NEW rev \in Nat, NEW content \in Nat
  PROVE  /\ New(by, parent, path, rev, content) \in Rows
         /\ New(by, parent, path, rev, content).state = "planned"
  BY DEF New, Rows, States, Lives

\* A run of request r is published: the only one, of the revision in force.
LEMMA RunPublished ==
  ASSUME ManualInv, NEW r \in Requests, NEW path \in {"direct", "plan"}, NEW step \in {"published", "accepted"},
         ask[r].pc = "loaded" \/ ask[r].plan = "fresh", ~Duplicate(r), Current(ask[r].rev),
         Push(New(r, 0, path, ask[r].rev, ask[r].content), step), step = "accepted" => path = "plan",
         path = "direct" => \A b \in Runs : ~Active(b),
         ask' \in [Requests -> Asks], \A q \in Requests : q # r => ask'[q] = ask[q], UNCHANGED def,
         ask'[r].pc = "idle", ask'[r].plan = IF r \in Direct THEN "none" ELSE "consumed"
  PROVE  ManualInv'
<1>0. PICK k : k = Len(bundles) + 1
  OBVIOUS
<1> DEFINE n == New(r, 0, path, ask[r].rev, ask[r].content)
<1>1. /\ Typed /\ Len(bundles) \in Nat /\ DOMAIN bundles = 1 .. Len(bundles) /\ DOMAIN task = DOMAIN bundles
      /\ \A b \in DOMAIN bundles : bundles[b] \in Rows /\ task[b] \in Steps
  BY DomainsOfRows DEF ManualInv
<1>2. n \in Rows /\ n.by = r /\ n.parent = 0 /\ n.path = path /\ n.state = "planned"
      /\ n.rev = ask[r].rev /\ n.content = ask[r].content
  BY <1>1, NewRows DEF Typed, Asks, New
<1> HIDE DEF n
<1>3. /\ bundles' = Append(bundles, n) /\ task' = Append(task, step)
      /\ bundles' \in Seq(Rows) /\ task' \in Seq(Steps) /\ Len(task') = Len(bundles')
  BY <1>1, <1>2 DEF Push, Typed, Steps, n
<1>4. /\ DOMAIN bundles' = DOMAIN bundles \cup {k} /\ k \notin DOMAIN bundles
      /\ bundles'[k] = n /\ task'[k] = step
      /\ \A b \in DOMAIN bundles : bundles'[b] = bundles[b] /\ task'[b] = task[b]
  BY <1>0, <1>1, <1>3 DEF Typed
<1>5. Typed' /\ DefinitionWhole'
  BY <1>1, <1>3 DEF Typed, ManualInv, DefinitionWhole
<1>6. ReadingsAgree'
  BY DEF ReadingsAgree, ManualInv
<1>7. n.content = n.rev /\ n.rev = def.revision
  BY <1>2 DEF ManualInv, ReadingsAgree, Current
<1>8. RunsMatch'
  BY <1>4, <1>7 DEF ManualInv, RunsMatch
<1>9. Answered'
  <2>1. \A b \in DOMAIN bundles : bundles[b].parent = 0 => bundles[b].by # r
    BY DEF Duplicate, Runs
  <2>2. QED
    BY <1>2, <1>4, <2>1, ManualAssumption DEF ManualInv, Answered
<1>10. ClaimsKept'
  BY <1>2, <1>4 DEF ManualInv, ClaimsKept, ChildOfRun
<1>11. OneRevert'
  BY <1>2, <1>4 DEF ManualInv, OneRevert
<1>12. TasksFit'
  <2>1. TaskFits(k)'
    BY <1>2, <1>4 DEF TaskFits, Pending
  <2>2. \A b \in DOMAIN bundles : TaskFits(b)'
    BY <1>4 DEF ManualInv, TasksFit, TaskFits
  <2>3. QED
    BY <1>4, <2>1, <2>2 DEF TasksFit
<1>13. DirectAlone'
  <2>1. path = "plan" \/ \A b \in DOMAIN bundles : bundles[b].parent = 0 => bundles[b].state \notin Pending
    BY DEF Active, Runs
  <2>2. ~(k < k) /\ \A b \in DOMAIN bundles : ~(k < b)
    BY <1>0, <1>1
  <2>3. SUFFICES ASSUME NEW b \in DOMAIN bundles', NEW c \in DOMAIN bundles', b < c,
                        bundles'[b].parent = 0, bundles'[c].parent = 0, bundles'[b].state \in Pending
                 PROVE  bundles'[c].path = "plan"
    BY DEF DirectAlone
  <2>4. b \in DOMAIN bundles /\ bundles[b].parent = 0 /\ bundles[b].state \in Pending
    BY <1>4, <2>2, <2>3
  <2>5. CASE c = k
    BY <1>2, <1>4, <2>1, <2>4, <2>5
  <2>6. CASE c # k
    <3>1. c \in DOMAIN bundles /\ bundles'[c] = bundles[c]
      BY <1>4, <2>6
    <3>2. QED
      BY <2>3, <2>4, <3>1 DEF ManualInv, DirectAlone
  <2>7. QED
    BY <2>5, <2>6
<1>14. QED
  BY <1>5, <1>6, <1>8, <1>9, <1>10, <1>11, <1>12, <1>13 DEF ManualInv

LEMMA RunAdmissions == ASSUME ManualInv, NEW r \in Requests, admit_direct_apply(r) \/ accept_plan(r) PROVE ManualInv'
<1>1. def \in Definitions /\ ask \in [Requests -> Asks] /\ Idle \in Asks
  BY DEF ManualInv, Typed, Idle, Asks
<1>2. CASE admit_direct_apply(r)
  <2>1. /\ ask' = [ask EXCEPT ![r] = Idle] /\ UNCHANGED def /\ r \in Direct /\ ask[r].pc = "loaded"
        /\ ask' \in [Requests -> Asks] /\ ask'[r] = Idle /\ \A q \in Requests : q # r => ask'[q] = ask[q]
    BY <1>1, <1>2 DEF admit_direct_apply
  <2>2. CASE UNCHANGED <<bundles, task>>
    <3>1. ReadingsAgree' /\ DefinitionWhole'
      BY <2>1 DEF ManualInv, ReadingsAgree, DefinitionWhole, Idle
    <3>2. /\ \A q \in Direct : ask'[q].plan = "none"
          /\ \A q \in Requests : ask[q].plan = "consumed" => ask'[q].plan = "consumed"
      BY <2>1, ManualAssumption DEF ManualInv, Answered, Idle
    <3>3. QED
      BY <1>1, <2>1, <2>2, <3>1, <3>2, QuietStep
  <2>3. CASE /\ ~Duplicate(r) /\ Current(ask[r].rev) /\ \A b \in Runs : ~Active(b)
             /\ Push(New(r, 0, "direct", ask[r].rev, ask[r].content), "published")
    BY <1>1, <2>1, <2>3, RunPublished DEF Idle
  <2>4. QED
    BY <1>2, <2>2, <2>3 DEF admit_direct_apply
<1>3. CASE accept_plan(r)
  <2>1. r \notin Direct /\ ask[r].plan = "fresh"
    BY <1>3 DEF accept_plan, ManualInv, Answered
  <2>2. ~Duplicate(r)
    BY <2>1 DEF Duplicate, Runs, ManualInv, Answered
  <2>3. [Idle EXCEPT !.plan = "consumed"] \in Asks /\ [Idle EXCEPT !.plan = "consumed"].pc = "idle"
        /\ [Idle EXCEPT !.plan = "consumed"].plan = "consumed"
    BY DEF Idle, Asks
  <2>4. ask' \in [Requests -> Asks] /\ ask'[r] = [Idle EXCEPT !.plan = "consumed"]
        /\ \A q \in Requests : q # r => ask'[q] = ask[q]
    BY <1>1, <1>3, <2>3 DEF accept_plan
  <2>5. Current(ask[r].rev) /\ Push(New(r, 0, "plan", ask[r].rev, ask[r].content), "accepted") /\ UNCHANGED def
    BY <1>3 DEF accept_plan
  <2>6. QED
    BY <2>1, <2>2, <2>3, <2>4, <2>5, RunPublished
<1>4. QED
  BY <1>2, <1>3

\* A child claims its source, which nobody has claimed and which is owned.
LEMMA ChildClaims ==
  ASSUME ManualInv, NEW s \in Runs, claim_sources_for_child_on(s), NEW by \in {"operator", "timer"},
         NEW path \in {"direct", "plan"}, NEW step \in {"published", "accepted"}, step = "accepted" => path = "plan",
         Claimed(s, New(by, s, path, 0, 0)), task' = Append(task, step), UNCHANGED <<def, ask>>
  PROVE  ManualInv'
<1>0. PICK c : c = Len(bundles) + 1
  OBVIOUS
<1> DEFINE n == New(by, s, path, 0, 0)
           moved == [bundles EXCEPT ![s].claim = c, ![s].life = "claimed"]
<1>1. /\ Typed /\ Len(bundles) \in Nat /\ DOMAIN bundles = 1 .. Len(bundles) /\ DOMAIN task = DOMAIN bundles
      /\ \A b \in DOMAIN bundles : bundles[b] \in Rows /\ task[b] \in Steps
  BY DomainsOfRows DEF ManualInv
<1>2. s \in DOMAIN bundles /\ s \in Nat /\ s # 0 /\ bundles[s].parent = 0 /\ c \in Nat /\ c # 0
  BY <1>0, <1>1 DEF Runs
<1>3. /\ n \in Rows /\ n.parent = s /\ n.path = path /\ n.state = "planned"
  <2>1. by \in Requests \cup {"operator", "timer"} /\ s \in Nat /\ 0 \in Nat
    BY <1>2
  <2>2. New(by, s, path, 0, 0) \in Rows /\ New(by, s, path, 0, 0).state = "planned"
    BY ONLY <2>1, path \in {"direct", "plan"}, NewRows
  <2>3. QED
    BY <2>2 DEF New
<1>4. /\ moved \in Seq(Rows) /\ Len(moved) = Len(bundles) /\ DOMAIN moved = DOMAIN bundles
      /\ \A b \in DOMAIN bundles : b # s => moved[b] = bundles[b]
      /\ moved[s] = [bundles[s] EXCEPT !.claim = c, !.life = "claimed"]
  <2>1. [bundles[s] EXCEPT !.claim = c, !.life = "claimed"] \in Rows
    BY <1>1, <1>2 DEF Rows, Lives
  <2>2. moved = [bundles EXCEPT ![s] = [bundles[s] EXCEPT !.claim = c, !.life = "claimed"]]
    BY <1>1, <1>2
  <2>3. moved \in [1 .. Len(bundles) -> Rows]
    BY <1>1, <1>2, <2>1, <2>2
  <2>4. moved \in Seq(Rows) /\ Len(moved) = Len(bundles)
    BY <1>1, <2>3, FunctionIsSequence
  <2>5. QED
    BY <1>1, <1>2, <2>2, <2>4
<1>5. /\ Identity(moved[s], bundles[s]) /\ moved[s].claim = c
      /\ moved[s].state = bundles[s].state /\ moved[s].held = bundles[s].held
  BY <1>1, <1>2, <1>4 DEF Rows, Identity
<1>6. bundles' = Append(moved, n)
  BY <1>0 DEF Claimed
<1> HIDE DEF n, moved
<1>7. /\ bundles' \in Seq(Rows) /\ task' \in Seq(Steps) /\ Len(task') = Len(bundles')
      /\ DOMAIN bundles' = DOMAIN bundles \cup {c} /\ c \notin DOMAIN bundles
      /\ bundles'[c] = n /\ task'[c] = step
      /\ \A b \in DOMAIN bundles : bundles'[b] = moved[b] /\ task'[b] = task[b]
  BY <1>0, <1>1, <1>3, <1>4, <1>6 DEF Typed, Steps
<1>8. /\ \A b \in DOMAIN bundles : /\ Identity(bundles'[b], bundles[b])
                                   /\ bundles'[b].state = bundles[b].state
                                   /\ bundles'[b].held = bundles[b].held
      /\ \A b \in DOMAIN bundles : b # s => bundles'[b] = bundles[b]
      /\ bundles'[s].claim = c
  <2>1. \A b \in DOMAIN bundles : b # s => bundles'[b] = bundles[b]
    BY <1>4, <1>7
  <2>2. bundles'[s] = moved[s]
    BY <1>2, <1>7
  <2>3. QED
    BY <1>5, <2>1, <2>2 DEF Identity
<1>9. Typed' /\ DefinitionWhole' /\ ReadingsAgree'
  BY <1>1, <1>7 DEF Typed, ManualInv, DefinitionWhole, ReadingsAgree
<1>10. Answered' /\ RunsMatch'
  BY <1>2, <1>3, <1>7, <1>8 DEF ManualInv, Answered, RunsMatch, Identity
<1>11. bundles[s].held = "changed" /\ bundles[s].claim = 0 /\ bundles[s].state \notin Pending
  BY DEF claim_sources_for_child_on, Owned, Unclaimed, Settled
<1>12. \A d \in DOMAIN bundles : bundles[d].parent = s => bundles[d].state = "failed"
  <2>1. SUFFICES ASSUME NEW d \in DOMAIN bundles, bundles[d].parent = s PROVE bundles[d].state = "failed"
    OBVIOUS
  <2>2. ChildOfRun(d, s) /\ d # 0 /\ bundles[d].state \in States
    BY <1>1, <1>2, <2>1 DEF ManualInv, ClaimsKept, Rows
  <2>3. QED
    BY <1>11, <2>2 DEF ChildOfRun, States, Pending
<1>13. ClaimsKept'
  <2>1. ChildOfRun(c, s)'
    BY <1>2, <1>3, <1>7, <1>8, <1>11 DEF ChildOfRun, Identity
  <2>2. ASSUME NEW d \in DOMAIN bundles, NEW p, p = bundles[d].parent, p # 0 PROVE ChildOfRun(d, p)'
    <3>1. ChildOfRun(d, p)
      BY <2>2 DEF ManualInv, ClaimsKept
    <3>2. CASE p = s
      BY <1>2, <1>7, <1>8, <1>11, <1>12, <2>2, <3>1, <3>2 DEF ChildOfRun, Identity, Pending
    <3>3. CASE p # s
      BY <1>7, <1>8, <2>2, <3>1, <3>3 DEF ChildOfRun, Identity
    <3>4. QED
      BY <3>2, <3>3
  <2>3. QED
    BY <1>3, <1>7, <1>8, <2>1, <2>2 DEF ClaimsKept, Identity
<1>14. OneRevert'
  BY <1>3, <1>7, <1>8, <1>12 DEF ManualInv, OneRevert, Identity
<1>15. TasksFit'
  <2>1. TaskFits(c)'
    BY <1>3, <1>7 DEF TaskFits, Pending
  <2>2. ASSUME NEW b \in DOMAIN bundles PROVE TaskFits(b)'
    <3>1. /\ TaskFits(b) /\ task'[b] = task[b] /\ bundles'[b].state = bundles[b].state
          /\ bundles'[b].path = bundles[b].path
      BY <1>7, <1>8 DEF ManualInv, TasksFit, Identity
    <3>2. QED
      BY <3>1 DEF TaskFits
  <2>3. QED
    BY <1>7, <2>1, <2>2 DEF TasksFit
<1>16. DirectAlone'
  BY <1>2, <1>3, <1>7, <1>8 DEF ManualInv, DirectAlone, Identity
<1>17. QED
  BY <1>9, <1>10, <1>13, <1>14, <1>15, <1>16 DEF ManualInv

LEMMA RevertAdmissions ==
  ASSUME ManualInv,
         admit_one_due \/ \E s \in DOMAIN bundles : admit_direct_recovery(s) \/ accept_revert(s)
  PROVE  ManualInv'
<1>1. CASE admit_one_due
  <2>1. PICK s \in Runs : claim_sources_for_child_on(s) /\ Claimed(s, New("timer", s, "direct", 0, 0))
    BY <1>1 DEF admit_one_due
  <2>2. task' = Append(task, "published") /\ UNCHANGED <<def, ask>>
    BY <1>1 DEF admit_one_due
  <2>3. QED
    BY <2>1, <2>2, ChildClaims
<1>2. ASSUME NEW s \in DOMAIN bundles, admit_direct_recovery(s) PROVE ManualInv'
  BY <1>2, ChildClaims DEF admit_direct_recovery
<1>3. ASSUME NEW s \in DOMAIN bundles, accept_revert(s) PROVE ManualInv'
  BY <1>3, ChildClaims DEF accept_revert
<1>4. QED
  BY <1>1, <1>2, <1>3

-----------------------------------------------------------------------------
(* Tasks *)

LEMMA TaskGoes ==
  ASSUME ManualInv, NEW b \in DOMAIN bundles, NEW step \in Steps, task' = [task EXCEPT ![b] = step]
  PROVE  /\ task' \in Seq(Steps) /\ Len(task') = Len(task) /\ task'[b] = step
         /\ \A c \in DOMAIN bundles : c # b => task'[c] = task[c]
<1>1. DOMAIN bundles = 1 .. Len(bundles) /\ DOMAIN task = DOMAIN bundles /\ Len(bundles) \in Nat
      /\ Len(task) = Len(bundles) /\ \A c \in DOMAIN bundles : task[c] \in Steps
  BY DomainsOfRows DEF ManualInv, Typed
<1>2. task \in [1 .. Len(task) -> Steps] /\ Len(task) \in Nat
  BY <1>1 DEF ManualInv, Typed
<1>3. task' \in [1 .. Len(task) -> Steps]
  BY <1>1, <1>2
<1>4. task' \in Seq(Steps) /\ Len(task') = Len(task)
  BY <1>2, <1>3, FunctionIsSequence
<1>5. QED
  BY <1>1, <1>4

\* One row is replaced by one of the same identity.
LEMMA RowReplaced ==
  ASSUME ManualInv, NEW b \in DOMAIN bundles, NEW x \in Rows, bundles' = [bundles EXCEPT ![b] = x],
         Identity(x, bundles[b]), x.state \in Pending => bundles[b].state \in Pending,
         task' \in Seq(Steps), Len(task') = Len(task)
  PROVE  /\ RowsMove /\ DOMAIN bundles' = DOMAIN bundles /\ bundles'[b] = x
         /\ \A c \in DOMAIN bundles : c # b => bundles'[c] = bundles[c]
<1>1. DOMAIN bundles = 1 .. Len(bundles) /\ Len(bundles) \in Nat /\ \A c \in DOMAIN bundles : bundles[c] \in Rows
  BY DomainsOfRows DEF ManualInv
<1>2. bundles' \in [1 .. Len(bundles) -> Rows]
  BY <1>1 DEF ManualInv, Typed
<1>3. bundles' \in Seq(Rows) /\ Len(bundles') = Len(bundles)
  BY <1>1, <1>2, FunctionIsSequence
<1>4. /\ DOMAIN bundles' = DOMAIN bundles /\ bundles'[b] = x
      /\ \A c \in DOMAIN bundles : c # b => bundles'[c] = bundles[c]
  BY <1>1, <1>2
<1>5. QED
  BY <1>3, <1>4 DEF RowsMove, Identity

\* A row changes neither its state, nor what is held, nor its claim; its task
\* goes from one place after the terminal transaction to the next, or nowhere.
LEMMA CosmeticRow ==
  ASSUME ManualInv, NEW b \in DOMAIN bundles, NEW x \in Rows, bundles' = [bundles EXCEPT ![b] = x],
         Identity(x, bundles[b]), x.state = bundles[b].state, x.held = bundles[b].held, x.claim = bundles[b].claim,
         UNCHANGED <<def, ask>>,
         \/ UNCHANGED task
         \/ /\ bundles[b].state \notin Pending
            /\ \E step \in {"none", "schedule"} : task' = [task EXCEPT ![b] = step]
  PROVE  ManualInv'
<1>1. /\ task' \in Seq(Steps) /\ Len(task') = Len(task)
      /\ \A c \in DOMAIN bundles : c # b => task'[c] = task[c]
      /\ task'[b] = task[b] \/ (bundles[b].state \notin Pending /\ task'[b] \in {"none", "schedule"})
  <2>1. CASE UNCHANGED task
    BY <2>1 DEF ManualInv, Typed
  <2>2. CASE /\ bundles[b].state \notin Pending
             /\ \E step \in {"none", "schedule"} : task' = [task EXCEPT ![b] = step]
    <3>1. PICK step \in {"none", "schedule"} : task' = [task EXCEPT ![b] = step]
      BY <2>2
    <3>2. step \in Steps
      BY DEF Steps
    <3>3. QED
      BY <2>2, <3>1, <3>2, TaskGoes
  <2>3. QED
    BY <2>1, <2>2
<1>2. /\ RowsMove /\ DOMAIN bundles' = DOMAIN bundles /\ bundles'[b] = x
      /\ \A c \in DOMAIN bundles : c # b => bundles'[c] = bundles[c]
  BY <1>1, RowReplaced
<1>3. ASSUME NEW c \in DOMAIN bundles PROVE TaskFits(c)'
  <2>1. TaskFits(c) /\ bundles'[c].state = bundles[c].state /\ bundles'[c].path = bundles[c].path
    BY <1>2 DEF ManualInv, TasksFit, Identity
  <2>2. task'[c] = task[c] \/ (bundles[c].state \notin Pending /\ task'[c] \in {"none", "schedule"})
    BY <1>1, Zenon
  <2>3. QED
    BY <2>1, <2>2 DEF TaskFits
<1>4. TasksFit'
  BY <1>2, <1>3 DEF TasksFit
<1>5. QED
  BY <1>2, <1>4, CosmeticStep

\* Only where a task stands changes.
LEMMA TaskStep ==
  ASSUME ManualInv, NEW b \in DOMAIN bundles, NEW step \in Steps, task' = [task EXCEPT ![b] = step],
         UNCHANGED <<def, ask, bundles>>, TaskFits(b)'
  PROVE  ManualInv'
<1>1. /\ task' \in Seq(Steps) /\ Len(task') = Len(task)
      /\ \A c \in DOMAIN bundles : c # b => task'[c] = task[c]
  BY TaskGoes
<1>2. RowsMove
  BY <1>1 DEF RowsMove, Identity, ManualInv, Typed
<1>3. TasksFit'
  BY <1>1 DEF ManualInv, TasksFit, TaskFits
<1>4. QED
  BY <1>2, <1>3, CosmeticStep

LEMMA TaskEnds ==
  ASSUME ManualInv, NEW b \in DOMAIN bundles, NEW x \in Outcomes, NEW step \in {"none", "refresh"},
         bundles[b].state \in Pending, bundles[b].parent # 0 => x \in {"changed", "failed", "unknown"},
         bundles' = Ended([c \in {b} |-> x]), task' = [task EXCEPT ![b] = step], UNCHANGED <<def, ask>>
  PROVE  ManualInv'
<1> DEFINE o == [c \in {b} |-> x]
<1>1. DOMAIN o = {b} /\ o[b] = x
  OBVIOUS
<1>2. Ending(o)
  BY <1>1 DEF Ending
<1>3. /\ task' \in Seq(Steps) /\ Len(task') = Len(task) /\ task'[b] = step
      /\ \A c \in DOMAIN bundles : c # b => task'[c] = task[c]
  BY TaskGoes DEF Steps
<1> HIDE DEF o
<1>4. bundles' = Ended(o)
  BY DEF o
<1>5. QED
  BY <1>1, <1>2, <1>3, <1>4, EndingStep

LEMMA TaskSteps == ASSUME ManualInv, NEW b \in DOMAIN bundles, Task(b) PROVE ManualInv'
<1>1. /\ bundles[b] \in Rows /\ TaskFits(b) /\ DOMAIN task = DOMAIN bundles
      /\ task \in [1 .. Len(bundles) -> Steps] /\ b \in 1 .. Len(bundles)
  BY DomainsOfRows DEF ManualInv, TasksFit, Typed
<1>2. CASE HandOver(b) \/ Materialize(b) \/ Prepare(b) \/ Recheck(b)
  <2>1. PICK step \in {"spawned", "ready", "preparing"} : task' = [task EXCEPT ![b] = step]
    BY <1>2 DEF HandOver, Materialize, Prepare, Recheck, Goes
  <2>2. task'[b] = step /\ step \in Steps /\ task[b] \in {"published", "accepted", "spawned", "preparing"}
        /\ UNCHANGED <<def, ask, bundles>>
    BY <1>1, <1>2, <2>1 DEF HandOver, Materialize, Prepare, Recheck, At, Steps
  <2>3. TaskFits(b)'
    BY <1>1, <2>2 DEF TaskFits
  <2>4. QED
    BY <2>1, <2>2, <2>3, TaskStep
<1>3. CASE AdmissionRefused(b) \/ PreparationFails(b)
  <2>1. bundles[b].state \in Pending /\ bundles' = Ended([c \in {b} |-> "failed"])
        /\ task' = [task EXCEPT ![b] = "none"] /\ UNCHANGED <<def, ask>>
    BY <1>1, <1>3 DEF AdmissionRefused, PreparationFails, At, TaskFits, Failed, Ends, Pending
  <2>2. QED
    BY <2>1, TaskEnds DEF Outcomes
<1>4. CASE RunDone(b)
  <2>1. PICK x \in Outcomes : /\ bundles[b].parent # 0 => x \in {"changed", "failed", "unknown"}
                              /\ bundles' = Ended([c \in {b} |-> x])
    BY <1>4 DEF RunDone, Outcomes
  <2>2. PICK step \in {"none", "refresh"} : task' = [task EXCEPT ![b] = step]
    BY <1>4 DEF RunDone, Goes
  <2>3. bundles[b].state \in Pending /\ UNCHANGED <<def, ask>>
    BY <1>1, <1>4 DEF RunDone, At, TaskFits, Pending
  <2>4. QED
    BY <2>1, <2>2, <2>3, TaskEnds
<1>5. /\ Refreshed(b) \in Rows /\ Identity(Refreshed(b), bundles[b])
      /\ Refreshed(b).state = bundles[b].state /\ Refreshed(b).held = bundles[b].held
      /\ Refreshed(b).claim = bundles[b].claim
  <2>1. [none |-> "inactive", changed |-> "active", unknown |-> "blocked"][bundles[b].held] \in Lives
    BY <1>1 DEF Rows, Lives
  <2>2. PICK life \in Lives :
          Refreshed(b) = [bundles[b] EXCEPT !.owns = bundles[b].held # "none", !.life = life]
    <3>1. CASE bundles[b].life \in {"scheduled", "claimed"}
      BY <1>1, <3>1 DEF Refreshed, Rows
    <3>2. CASE bundles[b].life \notin {"scheduled", "claimed"}
      BY <1>1, <2>1, <3>2 DEF Refreshed, Rows
    <3>3. QED
      BY <3>1, <3>2
  <2>3. QED
    BY <1>1, <2>2 DEF Rows, Identity
<1>6. CASE Refresh(b)
  <2>1. bundles[b].state \notin Pending /\ bundles' = [bundles EXCEPT ![b] = Refreshed(b)] /\ UNCHANGED <<def, ask>>
    BY <1>1, <1>6 DEF Refresh, At, TaskFits
  <2>2. \E step \in {"none", "schedule"} : task' = [task EXCEPT ![b] = step]
    BY <1>6 DEF Refresh, Goes
  <2>3. QED
    BY <1>5, <2>1, <2>2, CosmeticRow
<1>7. CASE Schedule(b)
  <2>1. PICK x : /\ x = Refreshed(b) \/ x = [Refreshed(b) EXCEPT !.timer = TRUE, !.life = "scheduled"]
                 /\ bundles' = [bundles EXCEPT ![b] = x]
    BY <1>7 DEF Schedule
  <2>2. /\ x \in Rows /\ Identity(x, bundles[b])
        /\ x.state = bundles[b].state /\ x.held = bundles[b].held /\ x.claim = bundles[b].claim
    BY <1>5, <2>1 DEF Rows, Lives, Identity
  <2>3. bundles[b].state \notin Pending /\ UNCHANGED <<def, ask>> /\ task' = [task EXCEPT ![b] = "none"]
    BY <1>1, <1>7 DEF Schedule, At, TaskFits, Ends
  <2>4. QED
    BY <2>1, <2>2, <2>3, CosmeticRow
<1>8. CASE StartRun(b)
  <2> DEFINE x == [bundles[b] EXCEPT !.state = "running"]
  <2>1. /\ bundles[b].state = "planned" /\ bundles' = [bundles EXCEPT ![b] = x] /\ UNCHANGED <<def, ask>>
        /\ task' = [task EXCEPT ![b] = "running"] /\ task[b] = "ready"
    BY <1>1, <1>8 DEF StartRun, Goes, At
  <2>2. /\ x \in Rows /\ Identity(x, bundles[b]) /\ x.state = "running"
        /\ x.held = bundles[b].held /\ x.claim = bundles[b].claim
    BY <1>1 DEF Rows, States, Identity
  <2> HIDE DEF x
  <2>3. /\ task' \in Seq(Steps) /\ Len(task') = Len(task) /\ task'[b] = "running"
        /\ \A c \in DOMAIN bundles : c # b => task'[c] = task[c]
    BY <2>1, TaskGoes DEF Steps
  <2>4. /\ RowsMove /\ DOMAIN bundles' = DOMAIN bundles /\ bundles'[b] = x
        /\ \A c \in DOMAIN bundles : c # b => bundles'[c] = bundles[c]
    BY <2>1, <2>2, <2>3, RowReplaced DEF Pending
  <2>5. ClaimsKept'
    BY <2>1, <2>2, <2>4 DEF ManualInv, ClaimsKept, ChildOfRun, Identity, Pending
  <2>6. OneRevert'
    BY <2>1, <2>2, <2>4 DEF ManualInv, OneRevert, Identity
  <2>7. TasksFit'
    <3>1. TaskFits(b)'
      BY <2>2, <2>3, <2>4 DEF TaskFits, Pending
    <3>2. \A c \in DOMAIN bundles : c # b => TaskFits(c)'
      BY <2>3, <2>4 DEF ManualInv, TasksFit, TaskFits
    <3>3. QED
      BY <2>4, <3>1, <3>2 DEF TasksFit
  <2>8. QED
    BY <2>1, <2>4, <2>5, <2>6, <2>7, MoveKeepsRows DEF ManualInv
<1>9. CASE SettlePanicked(b)
  <2>1. PICK x \in Interrupted(b) :
           bundles' = IF bundles[b].parent = 0 /\ bundles[b].state = "running"
                      THEN [bundles EXCEPT ![b] = [RunEnds(b, x) EXCEPT !.state = "compensation_blocked",
                                                                       !.life = "blocked"]]
                      ELSE Ended([c \in {b} |-> x])
    BY <1>9 DEF SettlePanicked
  <2>2. bundles[b].state \in Pending /\ task' = [task EXCEPT ![b] = "none"] /\ UNCHANGED <<def, ask>>
    BY <1>1, <1>9 DEF SettlePanicked, At, TaskFits, Ends
  <2>3. x \in Outcomes /\ (bundles[b].parent # 0 => x \in {"changed", "failed", "unknown"})
    BY DEF Interrupted, Outcomes
  <2>4. CASE ~(bundles[b].parent = 0 /\ bundles[b].state = "running")
    BY <2>1, <2>2, <2>3, <2>4, TaskEnds
  <2>5. CASE bundles[b].parent = 0 /\ bundles[b].state = "running"
    <3> DEFINE y == [RunEnds(b, x) EXCEPT !.state = "compensation_blocked", !.life = "blocked"]
    <3>1. RunEnds(b, x) \in Rows /\ Identity(RunEnds(b, x), bundles[b])
      BY <1>1, <2>3, FinalStates DEF RunEnds, Rows, Identity, States
    <3>2. y \in Rows /\ Identity(y, bundles[b]) /\ y.state = "compensation_blocked"
      BY <3>1 DEF Rows, Identity, States, Lives
    <3>3. bundles' = [bundles EXCEPT ![b] = y]
      BY <2>1, <2>5
    <3> HIDE DEF y
    <3>4. /\ task' \in Seq(Steps) /\ Len(task') = Len(task) /\ task'[b] = "none"
          /\ \A c \in DOMAIN bundles : c # b => task'[c] = task[c]
      BY <2>2, TaskGoes DEF Steps
    <3>5. /\ RowsMove /\ DOMAIN bundles' = DOMAIN bundles /\ bundles'[b] = y
          /\ \A c \in DOMAIN bundles : c # b => bundles'[c] = bundles[c]
      BY <2>2, <3>2, <3>3, <3>4, RowReplaced
    <3>6. \A c \in DOMAIN bundles : bundles[c].parent # b
      BY <1>1, <2>2 DEF ManualInv, ClaimsKept, ChildOfRun
    <3>7. ClaimsKept'
      BY <2>5, <3>2, <3>5, <3>6 DEF ManualInv, ClaimsKept, ChildOfRun, Identity
    <3>8. OneRevert'
      BY <2>5, <3>2, <3>5, <3>6 DEF ManualInv, OneRevert, Identity
    <3>9. TasksFit'
      <4>1. TaskFits(b)'
        BY <3>2, <3>4, <3>5 DEF TaskFits, Pending
      <4>2. \A c \in DOMAIN bundles : c # b => TaskFits(c)'
        BY <3>4, <3>5 DEF ManualInv, TasksFit, TaskFits
      <4>3. QED
        BY <3>5, <4>1, <4>2 DEF TasksFit
    <3>10. QED
      BY <2>2, <3>5, <3>7, <3>8, <3>9, MoveKeepsRows DEF ManualInv
  <2>6. QED
    BY <2>4, <2>5
<1>10. CASE SettlementGivesUp(b)
  <2>1. task' = [task EXCEPT ![b] = "abandoned"] /\ UNCHANGED <<def, ask, bundles>>
    BY <1>10 DEF SettlementGivesUp, Goes
  <2>2. task'[b] = "abandoned" /\ "abandoned" \in Steps
    BY <1>1, <2>1 DEF Steps
  <2>3. TaskFits(b)'
    BY <1>1, <2>2 DEF TaskFits
  <2>4. QED
    BY <2>1, <2>2, <2>3, TaskStep
<1>11. QED
  BY <1>2, <1>3, <1>4, <1>6, <1>7, <1>8, <1>9, <1>10 DEF Task

-----------------------------------------------------------------------------
(* Operators, faults and restarts *)

LEMMA TakeControlStep == ASSUME ManualInv, NEW s \in DOMAIN bundles, bundle_take_control(s) PROVE ManualInv'
<1> DEFINE x == [bundles[s] EXCEPT !.cancelled = TRUE, !.timer = FALSE,
                                   !.life = IF bundles[s].owns THEN "active" ELSE "inactive"]
<1>1. bundles[s] \in Rows
  BY DomainsOfRows DEF ManualInv
<1>2. /\ x \in Rows /\ Identity(x, bundles[s])
      /\ x.state = bundles[s].state /\ x.held = bundles[s].held /\ x.claim = bundles[s].claim
  BY <1>1 DEF Rows, Lives, Identity
<1>3. bundles' = [bundles EXCEPT ![s] = x] /\ UNCHANGED <<def, ask, task>>
  BY <1>1 DEF bundle_take_control
<1> HIDE DEF x
<1>4. QED
  BY <1>2, <1>3, CosmeticRow

LEMMA TaskFaults ==
  ASSUME ManualInv, NEW b \in DOMAIN bundles,
         HandOverLost(b) \/ RefusalLost(b) \/ ScheduleLost(b) \/ Panic(b) \/ TerminalLost(b)
  PROVE  ManualInv'
<1>1. /\ bundles[b] \in Rows /\ TaskFits(b) /\ DOMAIN task = DOMAIN bundles
  BY DomainsOfRows DEF ManualInv, TasksFit
<1>2. PICK step \in {"none", "settling", "abandoned"} :
        /\ task' = [task EXCEPT ![b] = step] /\ UNCHANGED <<def, ask, bundles>>
        /\ \/ step = "settling" /\ task[b] \in {"spawned", "preparing", "ready", "running"}
           \/ step = "abandoned"
           \/ step = "none" /\ ~(bundles[b].state \in Pending /\ bundles[b].path = "direct")
  <2>1. CASE RefusalLost(b)
    BY <1>1, <2>1 DEF RefusalLost, At, Ends, TaskFits
  <2>2. CASE ScheduleLost(b)
    BY <1>1, <2>2 DEF ScheduleLost, At, Ends, TaskFits
  <2>3. CASE Panic(b)
    BY <1>1, <2>3 DEF Panic, At, Goes, Supervised
  <2>4. CASE HandOverLost(b) \/ TerminalLost(b)
    BY <1>1, <2>4 DEF HandOverLost, TerminalLost, At, Goes
  <2>5. QED
    BY <2>1, <2>2, <2>3, <2>4
<1>3. step \in Steps /\ task'[b] = step
  BY <1>1, <1>2 DEF Steps
<1>4. TaskFits(b)'
  BY <1>1, <1>2, <1>3 DEF TaskFits, Pending
<1>5. QED
  BY <1>2, <1>3, <1>4, TaskStep

LEMMA RestartStep == ASSUME ManualInv, Restart PROVE ManualInv'
<1>1. PICK o \in [Unfinished -> {"changed", "failed", "partial", "unknown"}] :
         (\A b \in Unfinished : o[b] \in Interrupted(b)) /\ bundles' = Ended(o)
  BY DEF Restart
<1>2. DOMAIN o = Unfinished /\ Unfinished \subseteq DOMAIN bundles
  BY DEF Unfinished
<1>3. Ending(o)
  BY <1>1, <1>2 DEF Ending, Unfinished, Outcomes, Interrupted
<1>4. /\ DOMAIN task = DOMAIN bundles /\ DOMAIN bundles = 1 .. Len(bundles) /\ Len(bundles) \in Nat
      /\ Len(task) = Len(bundles)
  BY DomainsOfRows DEF ManualInv, Typed
<1>5. task' = [b \in 1 .. Len(bundles) |-> "none"]
  BY <1>4 DEF Restart
<1>6. task' \in [1 .. Len(bundles) -> Steps]
  BY <1>5 DEF Steps
<1>7. task' \in Seq(Steps) /\ Len(task') = Len(task)
  BY <1>4, <1>6, FunctionIsSequence
<1>8. \A b \in DOMAIN bundles : task'[b] = "none"
  BY <1>4, <1>5
<1>9. \A b \in DOMAIN bundles \ DOMAIN o : bundles[b].state \notin Pending
  BY <1>2 DEF Unfinished
<1>10. AsksForgotten
  <2>1. ask \in [Requests -> Asks] /\ Idle \in Asks
    BY DEF ManualInv, Typed, Asks, Idle
  <2>2. QED
    BY <2>1 DEF Restart, AsksForgotten
<1>11. UNCHANGED def
  BY DEF Restart
<1>12. QED
  BY <1>1, <1>2, <1>3, <1>7, <1>8, <1>9, <1>10, <1>11, EndingStep

LEMMA ManualStep == ManualInv /\ [Next]_vars => ManualInv'
<1> SUFFICES ASSUME ManualInv, [Next]_vars PROVE ManualInv'
  OBVIOUS
<1>1. CASE save \/ replace_actions \/ Close
  BY <1>1, DefinitionSteps
<1>2. CASE SetArmed \/ UNCHANGED vars
  <2>1. UNCHANGED <<def, ask, bundles, task>>
    BY <1>2 DEF SetArmed, vars
  <2>2. QED
    BY <2>1 DEF ManualInv, Typed, DefinitionWhole, ReadingsAgree, Answered, ClaimsKept, ChildOfRun,
                OneRevert, TasksFit, TaskFits, RunsMatch, DirectAlone
<1>3. CASE Restart
  BY <1>3, RestartStep
<1>4. CASE admit_one_due \/ \E s \in DOMAIN bundles : admit_direct_recovery(s) \/ accept_revert(s)
  BY <1>4, RevertAdmissions
<1>5. ASSUME NEW r \in Requests, ReadRevision(r) \/ LoadActions(r) \/ preview_actions(r) \/ Expire(r)
      PROVE ManualInv'
  BY <1>5, RequestSteps
<1>6. ASSUME NEW r \in Requests, admit_direct_apply(r) \/ accept_plan(r) PROVE ManualInv'
  BY <1>6, RunAdmissions
<1>7. ASSUME NEW b \in DOMAIN bundles, bundle_take_control(b) PROVE ManualInv'
  BY <1>7, TakeControlStep
<1>8. ASSUME NEW b \in DOMAIN bundles, Task(b) PROVE ManualInv'
  BY <1>8, TaskSteps
<1>9. ASSUME NEW b \in DOMAIN bundles,
             HandOverLost(b) \/ RefusalLost(b) \/ ScheduleLost(b) \/ Panic(b) \/ TerminalLost(b)
      PROVE ManualInv'
  BY <1>9, TaskFaults
<1>10. QED
  BY <1>1, <1>2, <1>3, <1>4, <1>5, <1>6, <1>7, <1>8, <1>9 DEF Next

LEMMA ManualHolds == Spec => []ManualInv
  BY ManualInitially, ManualStep, PTL DEF Spec

-----------------------------------------------------------------------------
(* What it means for the operator *)

\* A repeated request starts one run, and a run is reverted by one child that
\* did not fail, for any number of requests, previews, children, panics and
\* restarts (api/manual_mitigations.rs, admit_direct_apply and accept_plan;
\* reroute/recovery.rs, claim_sources_for_child_on and finalize_recovery_child).
THEOREM RunsAndRevertsOnce == Spec => []NothingTwice
<1>1. ASSUME ManualInv PROVE NothingTwice
  <2>1. \A b, c \in Runs : bundles[b].by = bundles[c].by => b = c
    BY <1>1 DEF ManualInv, Answered, Runs
  <2>2. ASSUME NEW s \in Runs
        PROVE  Cardinality({c \in DOMAIN bundles : bundles[c].parent = s /\ bundles[c].state # "failed"}) <= 1
    <3> DEFINE C == {c \in DOMAIN bundles : bundles[c].parent = s /\ bundles[c].state # "failed"}
    <3>1. s # 0
      BY <1>1, DomainsOfRows DEF ManualInv, Runs
    <3>2. \A c, d \in C : c = d
      BY <1>1, <3>1 DEF ManualInv, OneRevert
    <3>3. CASE C = {}
      BY <3>3, FS_EmptySet
    <3>4. CASE \E c \in C : C = {c}
      <4>1. PICK c \in C : C = {c}
        BY <3>4
      <4>2. Cardinality({c}) = 1
        BY FS_Singleton
      <4>3. QED
        BY <4>1, <4>2
    <3>5. QED
      BY <3>2, <3>3, <3>4
  <2>3. QED
    BY <2>1, <2>2 DEF NothingTwice
<1>2. QED
  BY <1>1, ManualHolds, PTL

\* Every run carries the actions of the revision it names, and while a run of a
\* rule is unfinished the rule keeps its action set, for any interleaving of
\* edits with the two reads (api/manual_mitigations.rs; api/rules.rs,
\* lock_action_edit).
THEOREM RunsMatchDefinitions == Spec => []RunIsItsDefinition
<1>1. ManualInv => RunIsItsDefinition
  BY DEF ManualInv, RunsMatch, RunIsItsDefinition, Runs
<1>2. QED
  BY <1>1, ManualHolds, PTL

\* What is admitted directly is left unfinished without a task only when its
\* start, its terminal transaction or its settlement was lost, never by a panic
\* or a restart alone, and then it keeps the claim on its source and no other
\* direct run of the definition is published behind it
\* (api/manual_mitigations.rs, the hand-over and the supervisor of a direct
\* run; detection/engine.rs, settle_supervised_manual_failure;
\* reroute/bundle.rs, recover_on_startup).
THEOREM DirectRunsSupervised == Spec => []DirectRunsAttended
<1>1. ASSUME ManualInv PROVE DirectRunsAttended
  <2>1. SUFFICES ASSUME NEW b \in Unfinished, bundles[b].path = "direct", task[b] \in {"none", "abandoned"}
                 PROVE  /\ task[b] = "abandoned"
                        /\ bundles[b].parent # 0 => bundles[bundles[b].parent].claim = b
                        /\ bundles[b].parent = 0 => \A c \in Runs : c > b => bundles[c].path = "plan"
    BY DEF DirectRunsAttended
  <2>2. b \in DOMAIN bundles /\ bundles[b].state \in Pending
    BY DEF Unfinished
  <2>3. task[b] = "abandoned"
    BY <1>1, <2>1, <2>2 DEF ManualInv, TasksFit, TaskFits
  <2>4. bundles[b].parent # 0 => bundles[bundles[b].parent].claim = b
    BY <1>1, <2>2 DEF ManualInv, ClaimsKept, ChildOfRun
  <2>5. bundles[b].parent = 0 => \A c \in Runs : c > b => bundles[c].path = "plan"
    <3>1. \A c \in DOMAIN bundles : c > b => b < c
      BY <1>1, <2>2, DomainsOfRows DEF ManualInv
    <3>2. QED
      BY <1>1, <2>2, <3>1 DEF ManualInv, DirectAlone, Runs
  <2>6. QED
    BY <2>3, <2>4, <2>5
<1>2. QED
  BY <1>1, ManualHolds, PTL
=============================================================================
