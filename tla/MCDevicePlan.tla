---------------------------- MODULE MCDevicePlan ----------------------------
(* Small instances of DevicePlan: one address bit, two devices, three       *)
(* endpoints, lists with room, without room, and with a shadowing deny.     *)
EXTENDS DevicePlan

p == [net |-> 0, len |-> 1]
q == [net |-> 1, len |-> 1]
E(s, ok, r) == [seq |-> s, permit |-> ok, net |-> r.net, len |-> r.len,
                ge |-> NoBound, le |-> NoBound]

Base == [list |-> [L |-> {E(2, TRUE, q)}, M |-> {E(1, TRUE, p), E(2, TRUE, q)}],
         export |-> "L", rmap |-> None, shut |-> FALSE, static |-> None,
         mss |-> 0, ifshut |-> FALSE]
Shadowed == [Base EXCEPT !.list.L = {E(1, TRUE, q), E(3, FALSE, p)}, !.mss = 1]
Tight == [Base EXCEPT !.list.L = {E(1, FALSE, p), E(4, TRUE, q)}, !.static = "plain",
                      !.rmap = "RM"]

MCDev == {1, 2}
MCHost == {"r1", "r2", "r3"}
MCHome == <<"r1", "r2">>
MCLists == {"L", "M"}
MCRoutes == {p, q}
MCConfigs == {Base, Shadowed, Tight}
MCStarts == {f \in [MCHost -> MCConfigs] :
                /\ f["r3"] = Base
                /\ f["r2"] \in (IF f["r1"] = Base THEN {Base, Tight} ELSE {Base})}

Add(d, r) == [kind |-> "add", dev |-> d, list |-> "L", route |-> r]
Remove(d, r) == [kind |-> "remove", dev |-> d, list |-> "L", route |-> r]
Plain(k, d) == [kind |-> k, dev |-> d]
Static(k, d, t) == [kind |-> k, dev |-> d, tag |-> t]
Map(k, d) == [kind |-> k, dev |-> d, name |-> "RM"]
Mss(d, m) == [kind |-> "mss", dev |-> d, mss |-> m]
Export(d, n) == [kind |-> "export_list", dev |-> d, name |-> n]
ExportMap(d, n) == [kind |-> "export_map", dev |-> d, name |-> n]

MCDrafts ==
    {<<Add(1, p), Remove(1, q)>>,
     <<Add(1, p), Plain("ifdown", 2)>>,
     <<Mss(1, 1), Map("mapset", 1), Plain("disable", 2)>>,
     <<Export(1, "M"), Static("null", 1, "tagged")>>,
     <<Static("unnull", 2, "plain"), Map("mapunset", 1)>>,
     <<ExportMap(1, "RM"), Mss(2, 0)>>,
     <<Plain("enable", 1), Plain("ifup", 2)>>}

\* A tagged route of a prefix that may get a plain one meanwhile.
MCStatic == {<<Static("null", 1, "tagged")>>}

\* Two attachments of one peer, and an entry added to the list that a later
\* action replaces.
MCPairs == {<<Export(1, "M"), ExportMap(1, "RM")>>, <<Add(1, p), Export(1, "M")>>}
=============================================================================
