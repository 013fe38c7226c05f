----------------------------- MODULE DevicePlan -----------------------------
(***************************************************************************)
(* Immutable device plans and the locked IOS sessions that run them        *)
(* (reroute/device_plan.rs, reroute/preparation.rs, ssh/mod.rs).           *)
(*                                                                         *)
(* A plan is prepared from ordinary read-only sessions: for each action    *)
(* the state it found (before), the state it wants (after, verify), the    *)
(* commands and the inverse.  A later action of the same router sees the   *)
(* projected after-state of an earlier one.  To run it, the process opens  *)
(* one session per router in device order, takes the native configuration  *)
(* lock on each, compares the whole projected sequence with the routers,   *)
(* and sends the commands one by one.  Until then, and again once the      *)
(* sessions are gone, other operators edit the same routers.               *)
(*                                                                         *)
(* A router's configuration is a record of the fields the action catalogue *)
(* writes; its operational state (BGP session, advertisements, interface)  *)
(* follows the configuration after a while and may flap.  A snapshot is a  *)
(* function from the keys it covers to their values.                       *)
(***************************************************************************)
EXTENDS PrefixList, Sequences

CONSTANTS
    Dev,          \* device ids: numbers, locked in ascending order
    Host,         \* SSH endpoints; the host key is the endpoint itself
    Home,         \* endpoint each device starts with
    Lists,        \* prefix-list names on every router
    Routes,       \* routes a prefix-list action may name
    V6,           \* whether the static routes are those of an IPv6 prefix
    Drafts,       \* sequences of drafts an operator may submit
    Starts,       \* configurations the hosts may start with
    Configs,      \* configurations another operator may put a host in
    MaxEdits,     \* bound: edits made by other operators
    MaxFaults     \* bound: rejected commands, lost answers, flaps, drops

None == "none"

\* The fields of a running configuration.
Config ==
    [list : [Lists -> SUBSET [seq : MIN_SEQ..MAX_SEQ, permit : BOOLEAN, net : Nat, len : 0..Width,
                              ge : {NoBound} \cup Nat, le : {NoBound} \cup Nat]],
     export : Lists \cup {None}, rmap : STRING, shut : BOOLEAN,
     static : {None, "plain", "tagged"}, mss : Nat, ifshut : BOOLEAN]

Kinds == {"add", "remove", "null", "unnull", "enable", "disable", "mapset", "mapunset", "mss",
          "ifup", "ifdown", "export_list", "export_map"}

\* What the proofs need of the instance: devices in lock order, hosts that are
\* not the marks of a missing session, well-formed routers and drafts.
ASSUME DevicePlanAssumption ==
    /\ Dev \subseteq Nat /\ Home \in [Dev -> Host] /\ {None, "dead"} \cap Host = {}
    /\ \A r \in Routes : r.len \in Nat
    /\ \A c \in Configs : c \in Config /\ \A n \in Lists : IsFiniteSet(c.list[n])
    /\ Starts \subseteq [Host -> Configs]
    /\ \A ds \in Drafts :
          /\ Len(ds) \in Nat /\ DOMAIN ds = 1..Len(ds)
          /\ \A i \in DOMAIN ds :
                /\ ds[i].dev \in Dev /\ ds[i].kind \in Kinds
                /\ ds[i].kind \in {"add", "remove"} =>
                      ds[i].list \in Lists /\ ds[i].route \in Routes
    /\ V6 \in BOOLEAN

VARIABLES
    cfg,      \* running configuration of each host
    oper,     \* operational state of each host
    row,      \* devices row: host and pinned host key
    draft,    \* the submitted drafts
    plan,     \* the prepared actions
    ids,      \* transport identities recorded with the plan
    sess,     \* locked session of each device: its host, "none" or "dead"
    depth,    \* configuration sub-mode depth of each session
    pc,       \* what the run is doing
    dir,      \* "fwd", "undo" (compensation) or "back" (a rollback run)
    at,       \* the action being run
    cmds,     \* commands still to send for it
    changed,  \* a command that may change state has completed in it
    outcome,  \* verdict of the last run
    seen,     \* history: slot values the plan was prepared from or has written
    found,    \* history: slot values the forward run first replaced
    start,    \* history: configurations when the current action began
    edits, faults

wires == <<row, ids, sess, depth>>
run == <<draft, plan, pc, dir, at, cmds, changed, outcome>>
history == <<seen, found, start>>
vars == <<cfg, oper, wires, run, history, edits, faults>>

HostOf(d) == IF sess[d] \in Host THEN sess[d] ELSE row[d].host
Locked(h) == \E d \in Dev : sess[d] = h

\* A snapshot of one key, and what it overrides in another snapshot.
Is(k, v) == [x \in {k} |-> v]
Over(f, g) == [k \in DOMAIN f \cup DOMAIN g |-> IF k \in DOMAIN f THEN f[k] ELSE g[k]]

\* The elements of s at the positions I, in order.
Subsequence(s, I) ==
    LET upto[i \in 0..Len(s)] ==
            IF i = 0 THEN <<>>
            ELSE IF i \in I THEN Append(upto[i - 1], s[i]) ELSE upto[i - 1]
    IN  upto[Len(s)]
-----------------------------------------------------------------------------
(* What a router shows.                                                    *)

\* The state IOS converges to.
Converged(c) ==
    [peer |-> IF c.shut THEN "shut" ELSE "Established",
     adv |-> {r \in Routes : ~c.shut /\ (c.export = None \/ Permits(c.list[c.export], r))},
     ifdown |-> c.ifshut, null0 |-> c.static # None, rtbh |-> c.static = "tagged"]

\* A static route is looked up by its exact line when it is IPv4, so that a line
\* of the same prefix with other attributes goes unseen, by its prefix when IPv6.
ReadStatic(c, k) ==
    IF c.static = k[2] THEN "present"
    ELSE IF V6 /\ c.static # None THEN "other"
    ELSE "absent"

\* What the read of each kind of snapshot key shows.
ReadRoute(o, k) ==
    CASE k[1] = "null0" -> o.null0
      [] k[1] = "rtbh"  -> o.rtbh
      [] k[1] = "adv"   -> k[2] \in o.adv
ReadNeighbor(c, o, k) ==
    CASE k[1] = "peer"   -> c.shut
      [] k[1] = "peerop" -> o.peer
      [] k[1] = "rmap"   -> c.rmap
ReadInterface(c, o, k) ==
    CASE k[1] = "ifadmin" -> c.ifshut
      [] k[1] = "ifop"    -> o.ifdown
      [] k[1] = "mss"     -> c.mss

\* Who applies list n: only the named peer may.
prefix_list_consumers(c, n) == {x \in {"peer"} : c.export = n}

Read(h, k) ==
    CASE k[1] = "list" -> [entries |-> cfg[h].list[k[2]],
                           used |-> prefix_list_consumers(cfg[h], k[2]) = {"peer"}]
      [] k[1] = "static" -> ReadStatic(cfg[h], k)
      [] k[1] \in {"null0", "rtbh", "adv"} -> ReadRoute(oper[h], k)
      [] k[1] \in {"peer", "peerop", "rmap"} -> ReadNeighbor(cfg[h], oper[h], k)
      [] k[1] \in {"ifadmin", "ifop", "mss"} -> ReadInterface(cfg[h], oper[h], k)

\* An attachment snapshot binds the attached names and the definitions it needs.
ExportHolds(h, x) ==
    /\ cfg[h].export = x.list
    /\ cfg[h].rmap = x.rmap
    /\ \A n \in x.need : cfg[h].list[n] = x.defs[n]

\* A list is compared by its attachment, not by its entries.
Holds_ByAttachment(h, k, x) ==
    IF k[1] = "export" THEN ExportHolds(h, x)
    ELSE IF k[1] = "list" THEN Read(h, k).used = x.used
    ELSE Read(h, k) = x

Holds(h, k, x) == IF k[1] = "export" THEN ExportHolds(h, x) ELSE Read(h, k) = x

\* verify_current: every state of the snapshot is what the router shows.
VerifyCurrent(h, snap) == \A k \in DOMAIN snap : Holds(h, k, snap[k])

\* Last value an earlier action of the same device leaves under each key, by the
\* snapshots left[j] of the actions before i.
Projection(acts, i, left) ==
    LET J == {j \in 1..(i - 1) : acts[j].dev = acts[i].dev}
    IN  [k \in UNION {DOMAIN left[j] : j \in J} |->
            LET j == Last({x \in J : k \in DOMAIN left[x]}) IN left[j][k]]

MatchProjected(h, snap, proj) ==
    \A k \in DOMAIN snap :
        IF k \in DOMAIN proj THEN proj[k] = snap[k] ELSE Holds(h, k, snap[k])

After(acts) == [j \in DOMAIN acts |-> acts[j].after]
AfterVerify(acts) == [j \in DOMAIN acts |-> Over(acts[j].after, acts[j].verify)]

\* verify_prepared_sequence: the whole plan against the locked routers.
verify_prepared_sequence(acts) ==
    \A i \in DOMAIN acts :
        MatchProjected(HostOf(acts[i].dev), acts[i].before, Projection(acts, i, After(acts)))

\* verify_projected_after: the last expectation of every key still holds.
verify_projected_after(acts, n) ==
    \A i \in 1..n : \A k \in DOMAIN AfterVerify(acts)[i] :
        \/ \E j \in (i + 1)..n : acts[j].dev = acts[i].dev /\ k \in DOMAIN AfterVerify(acts)[j]
        \/ Holds(HostOf(acts[i].dev), k, AfterVerify(acts)[i][k])
-----------------------------------------------------------------------------
(* Commands.  LockedCommands is the form sent while the lock is held: the  *)
(* configure terminal / end envelope is dropped, a sub-mode is left by one *)
(* exit, and what follows the block runs through do.                       *)

Conf == [c |-> "conf"]
End == [c |-> "end"]
Clear == [c |-> "clear"]
Sub(mode) == [c |-> "sub", mode |-> mode]
Set(f, v) == [c |-> "set", f |-> f, v |-> v]
AddEntry(n, s, r) == [c |-> "add", n |-> n, s |-> s, r |-> r]
DelEntry(n, s, r) == [c |-> "del", n |-> n, s |-> s, r |-> r]

locked_commands(cs) ==
    LET nested == \E i \in DOMAIN cs : cs[i].c = "sub"
        body == Subsequence(cs, {i \in DOMAIN cs : cs[i].c \notin {"conf", "end", "clear"}})
        tail == Subsequence(cs, {i \in DOMAIN cs : cs[i].c = "clear"})
    IN  body \o (IF nested THEN <<[c |-> "exit"]>> ELSE <<>>) \o tail

\* Only shapes of the catalogue may be sent; a bare shutdown only inside an
\* interface.
command_allowed(x) == x.c \in {"conf", "end", "exit", "clear", "sub", "set", "add", "del"}

sequence_safe(cs) ==
    \A i \in DOMAIN cs : cs[i].c = "set" /\ cs[i].f = "ifshut" =>
        \E j \in 1..(i - 1) :
            /\ cs[j] = Sub("interface")
            /\ \A k \in (j + 1)..(i - 1) : cs[k].c \notin {"conf", "end", "exit", "sub"}

check_allowed(cs) == (\A i \in DOMAIN cs : command_allowed(cs[i])) /\ sequence_safe(cs)

\* Only an exec command counts as a change.
command_may_change_state_Clears(x) == x.c = "clear"

command_may_change_state(x) == x.c \notin {"conf", "end", "exit"}

\* What IOS does with an accepted command.  An entry written at an occupied
\* sequence replaces what is there.
Apply(c, x) ==
    CASE x.c = "set" -> [c EXCEPT ![x.f] = x.v]
      [] x.c = "add" -> [c EXCEPT !.list[x.n] = AfterAdd(AfterRemove(@, x.s), x.s, x.r)]
      [] x.c = "del" -> [c EXCEPT !.list[x.n] = @ \ {Permit(x.s, x.r)}]
      [] OTHER -> c

Writes(x) == x.c \in {"set", "add", "del"}

\* The part of the configuration a command writes, and its value in c.
Slot(x) == IF x.c = "set" THEN <<x.f>> ELSE <<"list", x.n>>
ValueAt(c, slot) == IF slot[1] = "list" THEN c.list[slot[2]] ELSE c[slot[1]]
Slots == {<<f>> : f \in {"export", "rmap", "shut", "static", "mss", "ifshut"}}
            \cup {<<"list", n>> : n \in Lists}

\* The parts of the configuration whose value a snapshot key binds.
KeySlots(k) ==
    CASE k[1] = "list"    -> {<<"list", k[2]>>}
      [] k[1] = "static"  -> {<<"static">>}
      [] k[1] = "peer"    -> {<<"shut">>}
      [] k[1] = "rmap"    -> {<<"rmap">>}
      [] k[1] = "mss"     -> {<<"mss">>}
      [] k[1] = "ifadmin" -> {<<"ifshut">>}
      [] k[1] = "export"  -> {<<"export">>, <<"rmap">>}
      [] OTHER            -> {}
BoundSlots(snap) == UNION {KeySlots(k) : k \in DOMAIN snap}
ValuesAt(c, slots) == [s \in slots |-> ValueAt(c, s)]
-----------------------------------------------------------------------------
(* Preparing one action from the router h and the projection proj of the   *)
(* device's earlier actions.                                               *)

Refused == [eff |-> "refuse"]

\* finish_prepared: an action already satisfied owns no commands, no inverse.
Prepared(a, already, before, after, verify, cs, undo, restore) ==
    [dev |-> a.dev, kind |-> a.kind, eff |-> IF already THEN "already" ELSE "change",
     before |-> before, after |-> after, verify |-> verify,
     cmds |-> IF already THEN <<>> ELSE locked_commands(cs),
     undo |-> IF already THEN <<>> ELSE locked_commands(undo),
     restore |-> IF already THEN before ELSE restore]

Current(h, proj, k) == IF k \in DOMAIN proj THEN proj[k] ELSE Read(h, k)

PreparePrefixList(a, h, proj, cut) ==
    LET k == <<"list", a.list>>
        full == cfg[h].list[a.list]
        read == IF k \in DOMAIN proj THEN [ok |-> TRUE, entries |-> proj[k].entries]
                ELSE parse_prefix_list(
                        [declared |-> Cardinality(full),
                         shown |-> IF cut THEN AfterRemove(full, Last({e.seq : e \in full}))
                                   ELSE full])
        list == read.entries
        adding == a.kind = "add"
        p == IF adding THEN plan_add(list, a.route) ELSE plan_remove(list, a.route)
        up == Is(<<"peerop">>, "Established")
        here(es) == Is(k, [entries |-> es, used |-> TRUE])
        adv(b) == Over(Is(<<"adv", a.route>>, b), up)
        ins == <<Conf, AddEntry(a.list, p.seq, a.route), End, Clear>>
        del == <<Conf, DelEntry(a.list, p.seq, a.route), End, Clear>>
        new == IF adding THEN AfterAdd(list, p.seq, a.route) ELSE AfterRemove(list, p.seq)
    IN  IF \/ Current(h, proj, <<"peerop">>) # "Established"
           \/ prefix_list_consumers(cfg[h], a.list) # {"peer"}
           \/ ~read.ok \/ p = Refuse
        THEN Refused
        ELSE IF p = AlreadySatisfied
        THEN Prepared(a, TRUE, Over(here(list), up), Over(here(list), adv(adding)),
                      adv(adding), <<>>, <<>>, <<>>)
        ELSE Prepared(a, FALSE, Over(here(list), up), Over(here(new), adv(adding)),
                      Over(here(new), adv(adding)),
                      IF adding THEN ins ELSE del, IF adding THEN del ELSE ins,
                      Over(here(list), adv(~adding)))

\* A same-prefix static route with other attributes is left alone.
PrepareStaticRoute(a, h, proj) ==
    LET k == <<"static", a.tag>>
        now == Current(h, proj, k)
        want == a.kind = "null"
        new == IF want THEN "present" ELSE "absent"
        v == IF want THEN a.tag ELSE None
        old == IF now = "present" THEN a.tag ELSE None
        bgp(b) == IF a.tag = "tagged" THEN Is(<<"rtbh">>, b) ELSE <<>>
        snap(x, n, t) == Over(Is(k, x), Over(Is(<<"null0">>, n), bgp(t)))
        after == snap(new, want, want)
        before == snap(now, Current(h, proj, <<"null0">>), Current(h, proj, <<"rtbh">>))
        clash == \E t \in {"plain", "tagged"} \ {a.tag} :
                    <<"static", t>> \in DOMAIN proj /\ proj[<<"static", t>>] = "present"
    IN  IF \/ now = "other"
           \/ want /\ now = "absent" /\ (clash \/ (k \notin DOMAIN proj /\ cfg[h].static # None))
        THEN Refused
        ELSE Prepared(a, now = new, before, after, after,
                      <<Conf, Set("static", v), End>>, <<Conf, Set("static", old), End>>, before)

PrepareNeighborShutdown(a, h, proj) ==
    LET down == a.kind = "disable"
        cur == Current(h, proj, <<"peer">>)
        snap(b, o) == Over(Is(<<"peer">>, b), Is(<<"peerop">>, o))
        before == snap(cur, Current(h, proj, <<"peerop">>))
        after == snap(down, IF down THEN "shut" ELSE "Established")
    IN  Prepared(a, cur = down, before, after, after,
                 <<Conf, Sub("bgp"), Set("shut", down), End>>, <<Conf, Sub("bgp"), Set("shut", cur), End>>,
                 before)

PrepareRouteMap(a, h, proj) ==
    LET cur == Current(h, proj, <<"rmap">>)
        want == IF a.kind = "mapset" THEN a.name ELSE None
        snap(m) == Is(<<"rmap">>, m)
    IN  IF a.kind = "mapunset" /\ cur \notin {None, a.name} THEN Refused
        ELSE Prepared(a, cur = want, snap(cur), snap(want), snap(want),
                      <<Conf, Sub("bgp"), Set("rmap", want), End, Clear>>,
                      <<Conf, Sub("bgp"), Set("rmap", cur), End, Clear>>, snap(cur))

PrepareInterfaceMss(a, h, proj) ==
    LET cur == Current(h, proj, <<"mss">>)
        snap(m) == Is(<<"mss">>, m)
    IN  Prepared(a, cur = a.mss, snap(cur), snap(a.mss), snap(a.mss),
                 <<Conf, Sub("interface"), Set("mss", a.mss), End>>, <<Conf, Sub("interface"), Set("mss", cur), End>>,
                 snap(cur))

\* Configured and operational state that disagree are not a stable snapshot.
PrepareInterfaceAdmin(a, h, proj) ==
    LET down == a.kind = "ifdown"
        cur == Current(h, proj, <<"ifadmin">>)
        snap(b) == Over(Is(<<"ifadmin">>, b), Is(<<"ifop">>, b))
    IN  IF Current(h, proj, <<"ifop">>) # cur THEN Refused
        ELSE Prepared(a, cur = down, snap(cur), snap(down), snap(down),
                      <<Conf, Sub("interface"), Set("ifshut", down), End>>,
                      <<Conf, Sub("interface"), Set("ifshut", cur), End>>, snap(cur))

\* Routes a list permits by an entry of their own.
exact_permitted_prefixes(list) ==
    {r \in {[net |-> e.net, len |-> e.len] : e \in {x \in list : x.permit}} : Permits(list, r)}

Ranged(list) == \E e \in list : e.permit /\ (e.ge # NoBound \/ e.le # NoBound)

\* The outbound attachments of the peer and every definition on the router.
ExportAttachment(h) ==
    [list |-> cfg[h].export, rmap |-> cfg[h].rmap, defs |-> cfg[h].list, need |-> {}]

\* The snapshot carries every definition and names the ones it depends on.
PrepareExportPolicy(a, h, proj) ==
    LET k == <<"export">>
        cur == IF k \in DOMAIN proj THEN proj[k] ELSE ExportAttachment(h)
        lists == a.kind = "export_list"
        new == IF lists THEN [cur EXCEPT !.list = a.name] ELSE [cur EXCEPT !.rmap = a.name]
        need == {cur.list, new.list} \ {None}
        before == [cur EXCEPT !.need = need]
        after == [new EXCEPT !.need = need]
        permitted(n) == IF n = None THEN {} ELSE exact_permitted_prefixes(cur.defs[n])
        adv(now, all) == [x \in {<<"adv", r>> : r \in all} |-> x[2] \in now]
        all == permitted(cur.list) \cup permitted(new.list)
        verify(s, x) == Over(Is(k, x), adv(permitted(s.list), all))
        f == IF lists THEN "export" ELSE "rmap"
        v(x) == IF lists THEN x.list ELSE x.rmap
    IN  IF \E n \in need : Ranged(cur.defs[n]) THEN Refused
        ELSE Prepared(a, before = after, Is(k, before), verify(new, after), verify(new, after),
                      <<Conf, Sub("bgp"), Set(f, v(new)), End, Clear>>,
                      <<Conf, Sub("bgp"), Set(f, v(cur)), End, Clear>>, verify(cur, before))

\* Only structured templates of the catalogue can be prepared.
PrepareAction(a, h, proj, cut) ==
    CASE a.kind \in {"add", "remove"}             -> PreparePrefixList(a, h, proj, cut)
      [] a.kind \in {"null", "unnull"}            -> PrepareStaticRoute(a, h, proj)
      [] a.kind \in {"enable", "disable"}         -> PrepareNeighborShutdown(a, h, proj)
      [] a.kind \in {"mapset", "mapunset"}        -> PrepareRouteMap(a, h, proj)
      [] a.kind = "mss"                           -> PrepareInterfaceMss(a, h, proj)
      [] a.kind \in {"ifup", "ifdown"}            -> PrepareInterfaceAdmin(a, h, proj)
      [] a.kind \in {"export_list", "export_map"} -> PrepareExportPolicy(a, h, proj)

\* Additive, neutral or destructive; an export policy is classified by the
\* routes it adds and removes, and refused when it does both or cannot tell.
SafetyPhase(a, phase) ==
    LET attached(snap) == snap[<<"export">>].list
        permitted(n) == exact_permitted_prefixes(a.after[<<"export">>].defs[n])
        old == permitted(attached(a.before))
        new == permitted(attached(a.after))
    IN  CASE a.kind \in {"add", "enable", "ifup"}              -> 0
          [] a.kind \in {"remove", "disable", "ifdown", "null"} -> 2
          [] a.kind = "mss" -> IF a.after[<<"mss">>] = 0 THEN 2 ELSE 0
          [] a.kind \in {"unnull", "mapset", "mapunset"}       -> 1
          [] a.kind = "export_map" -> IF a.eff = "already" THEN phase ELSE 1
          [] a.kind = "export_list" ->
                IF a.eff = "already" THEN phase
                ELSE IF attached(a.before) = None THEN -1
                ELSE IF old \subseteq new THEN 0
                ELSE IF new \subseteq old THEN 2 ELSE -1

\* inspect_actions: no unsafe order, no second owner of the outbound policy.
Admissible(acts) ==
    LET phase[i \in 0..Len(acts)] == IF i = 0 THEN 0 ELSE SafetyPhase(acts[i], phase[i - 1])
        has(i, ks) == acts[i].kind \in ks
    IN  /\ \A i \in DOMAIN acts : phase[i] >= phase[i - 1]
        /\ ~\E i, j \in DOMAIN acts :
              /\ acts[i].dev = acts[j].dev
              /\ has(i, {"mapset", "mapunset"}) /\ has(j, {"export_list", "export_map"})

\* The inverse of an action that changed something: it may run while the
\* action's own after-state is current, and restores what the action found.
InverseOf(a) ==
    [dev |-> a.dev, kind |-> a.kind, eff |-> "change", before |-> a.after,
     after |-> a.restore, verify |-> a.restore, cmds |-> a.undo, undo |-> <<>>,
     restore |-> a.after]

\* reconcile_inverse_sequence: an inverse whose restore-state is already there
\* becomes a verified no-op; a third state refuses the whole sequence.
reconcile_inverse_sequence(acts) ==
    [i \in DOMAIN acts |->
        LET a == acts[i]
            h == HostOf(a.dev)
            proj == Projection(acts, i, AfterVerify(acts))
        IN  IF MatchProjected(h, a.before, proj) THEN a
            ELSE IF MatchProjected(h, a.after, proj) /\ MatchProjected(h, a.verify, proj)
            THEN [a EXCEPT !.eff = "already", !.before = a.after, !.cmds = <<>>]
            ELSE Refused]
-----------------------------------------------------------------------------
Init ==
    /\ cfg \in Starts
    /\ oper = [h \in Host |-> Converged(cfg[h])]
    /\ row = [d \in Dev |-> [host |-> Home[d], pin |-> None]]
    /\ draft \in Drafts /\ plan = <<>> /\ ids = row
    /\ sess = [d \in Dev |-> "none"] /\ depth = [d \in Dev |-> 0]
    /\ pc = "prepare" /\ dir = "fwd" /\ at = 0 /\ cmds = <<>> /\ changed = FALSE
    /\ outcome = None
    /\ seen = [h \in Host |-> <<>>] /\ found = [h \in Host |-> <<>>] /\ start = cfg
    /\ edits = 0 /\ faults = 0

\* Every session is released and closed, whatever the verdict.
Stop(verdict) ==
    /\ pc' = "end" /\ outcome' = verdict /\ cmds' = <<>>
    /\ sess' = [d \in Dev |-> "none"] /\ depth' = [d \in Dev |-> 0]
Running == UNCHANGED <<outcome, sess, depth>>

Fault == faults < MaxFaults /\ faults' = faults + 1
Edit == edits < MaxEdits /\ edits' = edits + 1

\* Opening a session pins the host key on first contact and refuses another.
Reachable(d) == row[d].pin \in {None, row[d].host}
persist_tofu(d) == row' = [row EXCEPT ![d].pin = row[d].host]

\* The next draft is read and planned over its own read-only session.
prepare_actions ==
    LET a == draft[Len(plan) + 1]
        h == row[a.dev].host
        acts == Append(plan, [dev |-> a.dev])
    IN
    /\ pc = "prepare" /\ Len(plan) < Len(draft) /\ Reachable(a.dev)
    /\ \E cut \in (IF a.kind \in {"add", "remove"} THEN BOOLEAN ELSE {FALSE}) :
        LET p == PrepareAction(a, h, Projection(acts, Len(acts), After(plan)), cut) IN
        /\ persist_tofu(a.dev)
        /\ IF cut THEN Fault ELSE UNCHANGED faults
        /\ IF p = Refused
           THEN Stop("refused") /\ UNCHANGED <<plan, seen>>
           ELSE /\ plan' = Append(plan, p)
                /\ seen' = [seen EXCEPT ![h] = Over(@, ValuesAt(cfg[h], BoundSlots(p.before)))]
                /\ Running /\ UNCHANGED <<pc, cmds>>
        /\ UNCHANGED <<cfg, oper, ids, draft, dir, at, changed, found, start, edits>>

\* The complete set is checked, and the transport identities kept with it.
inspect_actions ==
    /\ pc = "prepare" /\ Len(plan) = Len(draft)
    /\ IF Admissible(plan)
       THEN pc' = "lock" /\ ids' = row /\ Running /\ UNCHANGED cmds
       ELSE Stop("refused") /\ UNCHANGED ids
    /\ UNCHANGED <<cfg, oper, row, draft, plan, dir, at, changed, history, edits, faults>>

\* A read that fails, is truncated, or proves neither presence nor absence;
\* a router that presents another host key.
PrepareFails ==
    /\ pc = "prepare" /\ Len(plan) < Len(draft)
    /\ \/ Fault
       \/ ~Reachable(draft[Len(plan) + 1].dev) /\ UNCHANGED faults
    /\ Stop("refused")
    /\ UNCHANGED <<cfg, oper, row, ids, draft, plan, dir, at, changed, history, edits>>

Targets == {plan[i].dev : i \in DOMAIN plan}
Unlocked == {d \in Targets : sess[d] = "none"}

\* LockedDevices::acquire: one session per device, in ascending order.  A
\* refusal gives back every lock taken so far.
acquire ==
    /\ pc = "lock" /\ Unlocked # {}
    /\ LET d == CHOOSE x \in Unlocked : \A y \in Unlocked : x <= y
       IN  IF row[d].pin = row[d].host /\ ~Locked(row[d].host)
           THEN /\ sess' = [sess EXCEPT ![d] = row[d].host]
                /\ UNCHANGED <<pc, outcome, cmds, depth>>
           ELSE Stop("failed")
    /\ UNCHANGED <<cfg, oper, row, ids, draft, plan, dir, at, changed, history, edits, faults>>

\* Another operator holds the lock, or the session cannot be opened.
AcquireFails ==
    /\ pc = "lock" /\ Unlocked # {} /\ Fault
    /\ Stop("failed")
    /\ UNCHANGED <<cfg, oper, row, ids, draft, plan, dir, at, changed, history, edits>>

AllUp == \A d \in Targets : sess[d] \in Host
verify_transport_identities == \A d \in Targets : row[d] = ids[d]

\* Identities, then the whole projected sequence, before the first write.
Preflight ==
    /\ pc = "lock" /\ Unlocked = {}
    /\ IF verify_transport_identities /\ AllUp /\ verify_prepared_sequence(plan)
       THEN pc' = "exec" /\ at' = 1 /\ Running /\ UNCHANGED cmds
       ELSE Stop("failed") /\ UNCHANGED at
    /\ UNCHANGED <<cfg, oper, row, ids, draft, plan, dir, changed, history, edits, faults>>
-----------------------------------------------------------------------------
(* Running the actions under the locks.                                    *)

Act == plan[at]
Up == sess[Act.dev] \in Host
Busy == pc = "exec" /\ at <= Len(plan)

\* Before a destructive sibling of a forward run the verified siblings are
\* proved again.
Reproof ==
    dir = "fwd" /\ at > 1 /\ SafetyPhase(Act, 2) = 2
ReproofHolds == AllUp /\ verify_projected_after(plan, at - 1)

Changed(acts) == Subsequence(acts, {i \in DOMAIN acts : acts[i].eff = "change"})

\* The first change is taken for the one that failed.
Inverses_AllButFirst(acts) ==
    LET c == Changed(acts)
    IN  [i \in 1..(Len(c) - 1) |-> InverseOf(c[Len(c) + 1 - i])]

Inverses(acts) ==
    LET c == Changed(acts) IN [i \in DOMAIN c |-> InverseOf(c[Len(c) + 1 - i])]

\* A proven no-effect failure: the changed siblings of a forward run are
\* undone in reverse order under the same locks.
NoEffect ==
    LET back == Inverses(SubSeq(plan, 1, at - 1))
    IN  IF dir = "fwd" /\ back # <<>>
        THEN /\ plan' = back /\ dir' = "undo" /\ at' = 1 /\ pc' = "exec" /\ cmds' = <<>>
             /\ Running
        ELSE Stop(IF dir = "fwd" THEN "aborted" ELSE "blocked") /\ UNCHANGED <<plan, dir, at>>

\* An unknown effect freezes the run.
Unknown == Stop("blocked") /\ UNCHANGED <<plan, dir, at>>

Proceed ==
    at' = at + 1 /\ pc' = "exec" /\ cmds' = <<>> /\ Running /\ UNCHANGED <<plan, dir>>

\* execute_prepared and execute_inverse up to the first command.
execute_prepared ==
    /\ Busy
    /\ start' = cfg /\ changed' = FALSE
    /\ IF Reproof /\ ~ReproofHolds THEN Unknown
       ELSE IF ~Up \/ ~check_allowed(Act.cmds) THEN Unknown
       ELSE IF ~VerifyCurrent(HostOf(Act.dev), Act.before) THEN NoEffect
       ELSE IF Act.eff = "already"
       THEN IF VerifyCurrent(HostOf(Act.dev), Act.verify) THEN Proceed ELSE NoEffect
       ELSE /\ pc' = "send" /\ cmds' = Act.cmds
            /\ Running /\ UNCHANGED <<plan, dir, at>>
    /\ UNCHANGED <<cfg, oper, row, ids, draft, seen, found, edits, faults>>

\* A verification read fails: nothing is known of the action.
ReadFails ==
    /\ Busy \/ pc = "verify"
    /\ Fault /\ Unknown
    /\ UNCHANGED <<cfg, oper, row, ids, draft, changed, history, edits>>

\* What the router does with the next command.
Written(x, h) ==
    /\ cfg' = [cfg EXCEPT ![h] = Apply(@, x)]
    /\ depth' = [depth EXCEPT ![Act.dev] =
                    CASE x.c = "sub" -> 1 [] x.c = "exit" -> 0 [] OTHER -> @]
    /\ IF Writes(x)
       THEN /\ seen' = [seen EXCEPT ![h] = Over(ValuesAt(cfg'[h], {Slot(x)}), @)]
            /\ found' = IF dir = "fwd"
                        THEN [found EXCEPT ![h] = Over(@, ValuesAt(cfg[h], {Slot(x)}))]
                        ELSE found
       ELSE UNCHANGED <<seen, found>>

\* The router accepts the command and its prompt returns.
CommandAccepted ==
    /\ pc = "send" /\ Up /\ cmds # <<>>
    /\ Written(Head(cmds), HostOf(Act.dev))
    /\ cmds' = Tail(cmds)
    /\ pc' = IF Len(cmds) = 1 THEN "verify" ELSE "send"
    /\ changed' = (changed \/ command_may_change_state(Head(cmds)))
    /\ UNCHANGED <<oper, row, ids, sess, draft, plan, dir, at, outcome, start, edits, faults>>

\* plan_failure, rejected: this command did not apply; an earlier one may have.
CommandRejected ==
    /\ pc = "send" /\ Up /\ cmds # <<>> /\ Fault
    /\ IF changed THEN Unknown ELSE NoEffect
    /\ UNCHANGED <<cfg, oper, row, ids, draft, changed, history, edits>>

\* plan_failure, no answer: the command may have applied.
CommandUnanswered ==
    /\ pc = "send" /\ cmds # <<>>
    /\ \/ Up /\ Fault /\ \E applied \in BOOLEAN :
              IF applied
              THEN cfg' = [cfg EXCEPT ![HostOf(Act.dev)] = Apply(@, Head(cmds))]
              ELSE UNCHANGED cfg
       \/ ~Up /\ UNCHANGED <<cfg, faults>>
    /\ IF changed \/ command_may_change_state(Head(cmds)) THEN Unknown ELSE NoEffect
    /\ UNCHANGED <<oper, row, ids, draft, changed, history, edits>>

\* verify_with_retry: proved at some poll, or never within the attempts.
verify_with_retry ==
    /\ pc = "verify" /\ Up
    /\ LET h == HostOf(Act.dev)
       IN  IF VerifyCurrent(h, Act.verify) THEN Proceed /\ UNCHANGED faults
           ELSE /\ IF oper[h] = Converged(cfg[h]) THEN UNCHANGED faults ELSE Fault
                /\ Unknown
    /\ UNCHANGED <<cfg, oper, row, ids, draft, changed, history, edits>>

VerifyLost ==
    /\ pc = "verify" /\ ~Up /\ Unknown
    /\ UNCHANGED <<cfg, oper, row, ids, draft, changed, history, edits, faults>>

\* The last word: the final expectation of every key, before release.
Finish ==
    /\ pc = "exec" /\ at > Len(plan)
    /\ IF dir = "undo" THEN Stop("compensated")
       ELSE IF AllUp /\ verify_projected_after(plan, Len(plan))
       THEN Stop(IF dir = "fwd" THEN "succeeded" ELSE "rolled_back")
       ELSE Stop("blocked")
    /\ UNCHANGED <<cfg, oper, row, ids, draft, plan, dir, at, changed, history, edits, faults>>

\* prepare_rollbacks: a rollback of the changed actions is planned from the
\* stored inverses, in reverse, reconciled with what the routers show now.
prepare_rollbacks ==
    LET back == Inverses(plan)
        now == reconcile_inverse_sequence(back)
        bound(h) == UNION {BoundSlots(now[i].before) : i \in {j \in DOMAIN now : HostOf(now[j].dev) = h}}
    IN  /\ pc = "end" /\ outcome = "succeeded" /\ dir = "fwd" /\ back # <<>>
        /\ dir' = "back" /\ at' = 0 /\ changed' = FALSE
        /\ IF (\A d \in Targets : Reachable(d)) /\ Refused \notin {now[i] : i \in DOMAIN now}
           THEN /\ plan' = now /\ pc' = "lock" /\ ids' = row /\ outcome' = None
                /\ seen' = [h \in Host |-> ValuesAt(cfg[h], bound(h))]
                /\ UNCHANGED <<cmds, sess, depth>>
           ELSE Stop("refused") /\ UNCHANGED <<plan, ids, seen>>
        /\ UNCHANGED <<cfg, oper, row, draft, found, start, edits, faults>>
-----------------------------------------------------------------------------
(* The routers and their other operators.                                  *)

\* Another operator edits a router that we do not hold locked.
ForeignEdit(h) ==
    /\ ~Locked(h) /\ pc # "end" /\ Edit
    /\ cfg' \in {[cfg EXCEPT ![h] = c] : c \in Configs \ {cfg[h]}}
    /\ UNCHANGED <<oper, wires, run, history, faults>>

\* Another operator edits the devices row, unless the device carries an open
\* or an outstanding change; nothing clears the pinned key.
EditDevice(d) ==
    /\ pc # "end" /\ Edit
    /\ found[row[d].host] = <<>>
    /\ ~(pc \in {"send", "verify"} /\ Act.dev = d)
    /\ \E h \in Host \ {row[d].host} : row' = [row EXCEPT ![d].host = h]
    /\ UNCHANGED <<cfg, oper, ids, sess, depth, run, history, faults>>

Converge(h) ==
    /\ oper[h] # Converged(cfg[h])
    /\ oper' = [oper EXCEPT ![h] = Converged(cfg[h])]
    /\ UNCHANGED <<cfg, wires, run, history, edits, faults>>

\* The BGP session drops for reasons of its own.
Flap(h) ==
    /\ Fault /\ oper[h].peer = "Established" /\ pc # "end"
    /\ oper' = [oper EXCEPT ![h].peer = "Idle", ![h].adv = {}]
    /\ UNCHANGED <<cfg, wires, run, history, edits>>

\* The SSH session is gone, and the native lock with it.
SessionDrop(d) ==
    /\ Fault /\ sess[d] \in Host
    /\ sess' = [sess EXCEPT ![d] = "dead"] /\ depth' = [depth EXCEPT ![d] = 0]
    /\ UNCHANGED <<cfg, oper, row, ids, run, history, edits>>

Process ==
    \/ prepare_actions \/ inspect_actions \/ PrepareFails
    \/ acquire \/ AcquireFails \/ Preflight
    \/ execute_prepared \/ ReadFails
    \/ CommandAccepted \/ CommandRejected \/ CommandUnanswered
    \/ verify_with_retry \/ VerifyLost \/ Finish \/ prepare_rollbacks

Environment ==
    \/ \E h \in Host : ForeignEdit(h) \/ Converge(h) \/ Flap(h)
    \/ \E d \in Dev : EditDevice(d) \/ SessionDrop(d)

Next == Process \/ Environment
Spec == Init /\ [][Next]_vars
-----------------------------------------------------------------------------
(* Properties.                                                             *)

ProcessWrote == cfg' # cfg /\ edits' = edits

ReplacesPreviewed(s) ==
    \A h \in Host :
        ValueAt(cfg'[h], s) # ValueAt(cfg[h], s) =>
            s \in DOMAIN seen[h] /\ seen[h][s] = ValueAt(cfg[h], s)

\* An IPv4 static route is bound by its own line only: what else the prefix
\* carries is not.
Guarded == IF V6 THEN Slots ELSE Slots \ {<<"static">>}

\* Whatever other operators do between the preview and the run, or between
\* the run and its rollback, a command replaces exactly the value that the
\* plan was prepared from or that the plan itself wrote: an edit made in
\* between is refused, never overwritten (verify_current under the native
\* lock, device_plan.rs:1512).
WriteReplacesPreviewed ==
    [][ProcessWrote => \A s \in Guarded : ReplacesPreviewed(s)]_vars

\* The same of static routes, IPv4 ones included: ensure_no_conflicting_static
\* (device_plan.rs:2426) leaves a route of the prefix with other attributes to
\* its operator.
StaticReplacesPreviewed ==
    [][ProcessWrote => ReplacesPreviewed(<<"static">>)]_vars

\* A failure reported as proven to have had no effect left the router as the
\* action found it and the session outside any sub-mode, so that undoing the
\* siblings under the same session is safe (plan_failure, ssh/mod.rs:2789).
NoEffectIsClean ==
    [][(dir' = "undo" /\ dir = "fwd") \/ (outcome' = "aborted" /\ outcome = None) =>
        \A d \in Targets : sess[d] \in Host =>
            depth[d] = 0 /\ cfg'[sess[d]] = start'[sess[d]]]_vars

\* A run reported as compensated or rolled back leaves every value the forward
\* run replaced as it was found, on every router still held locked.
UndoRestores ==
    [][outcome' \in {"compensated", "rolled_back"} /\ outcome = None =>
        \A h \in {sess[d] : d \in Dev} \cap Host : \A s \in DOMAIN found[h] \cap Guarded :
            ValueAt(cfg[h], s) = found[h][s]]_vars

\* The sequence plan_add chooses is free, in range, and reached: the route is
\* permitted afterwards and no entry is lost (midpoint, prefix_list.rs:456).
AddIsReached ==
    \A h \in Host : \A n \in Lists : \A r \in Routes :
        LET list == cfg[h].list[n]
            p == plan_add(list, r)
            works(q) == /\ \A e \in list : e.seq # q
                        /\ Permits(AfterAdd(list, q, r), r)
        IN  /\ p.plan = "use" => p.seq \in 1..MAX_SEQ /\ works(p.seq)
            /\ p.plan = "already" => Permits(list, r)

\* With no other operator and no fault a prepared plan is carried through.
QuietPlanSucceeds ==
    edits = 0 /\ faults = 0 => outcome \notin {"failed", "aborted", "compensated", "blocked"}
=============================================================================
