---------------------------- MODULE MCFlowWindow ----------------------------
EXTENDS FlowWindow

MCEnrolled == [e \in Exporters |-> "d"]
MCInterfaces == Devices \X Ifaces

\* Sequence numbers wrap from 7 to 0 at the second datagram; a restart begins
\* again at 0 with a small uptime.
Datagram(e, gen, n, iface) ==
    [e |-> e, gen |-> gen, n |-> n, iface |-> iface,
     seq |-> IF gen = 1 THEN (6 + n) % SeqMod ELSE n - 1,
     uptime |-> IF gen = 1 THEN 40 + n ELSE n]

MCDatagrams ==
    [e \in Exporters |->
       IF e = "a" THEN {Datagram(e, 1, 1, "i"), Datagram(e, 1, 2, "i"), Datagram(e, 1, 3, "j"), Datagram(e, 2, 1, "i")}
                  ELSE {Datagram(e, 1, 1, "i")}]
=============================================================================
