------------------------------- MODULE MCWake -------------------------------
EXTENDS Wake

MCProcs == {"p1", "p2", "p3"}
MCNames == {"eth0", "eth1", "enp3"}
MCDevs == {1, 2, 3}

Ask(cmd, act, epoch, policy, name) ==
    [cmd |-> cmd, act |-> act, epoch |-> epoch, policy |-> policy, name |-> name,
     apply |-> TRUE, force |-> TRUE]
SetAlarm(t) == Ask("rtc", "set", t, "on", "eth0")
ClearAlarm == Ask("rtc", "clear", 0, "on", "eth0")
GetAlarm == Ask("rtc", "get", 0, "on", "eth0")
SetAll(policy) == Ask("auto", "set", 0, policy, "eth0")
GetAll == Ask("auto", "get", 0, "on", "eth0")
SetOne(policy, name) == Ask("iface", "set", 0, policy, name)
GetOne(name) == Ask("iface", "get", 0, "on", name)
DryRun(r) == [r EXCEPT !.apply = FALSE]
Careless(r) == [r EXCEPT !.force = FALSE]
Three(a, b, c) == [p \in MCProcs |-> CASE p = "p1" -> a [] p = "p2" -> b [] OTHER -> c]

Bound(d0, d1, d2) == [n \in MCNames |-> CASE n = "eth0" -> d0 [] n = "eth1" -> d1 [] OTHER -> d2]
Flagged(a, b) == [d \in MCDevs |-> CASE d = 1 -> a [] d = 2 -> b [] OTHER -> {}]
Mixed == {Flagged({"magic"}, {"other"}), Flagged({}, {"magic"})}

Base == [asked |-> Three(GetAll, GetAlarm, GetAlarm), nic |-> Bound(1, 2, 0),
         wol |-> [d \in MCDevs |-> {}], alarm |-> 0, physical |-> MCDevs, mac |-> {},
         magic |-> MCDevs, auto |-> 2, rtcs |-> 1, resolution |-> 1, skew |-> 0,
         faulty |-> FALSE, renames |-> 0, ticks |-> 0]

\* The alarm: two changes and a read, healthy or failing, with clocks that agree or not;
\* an alarm that is not aligned, not far enough ahead, or on an RTC that is not unique.
Alarms ==
    {[Base EXCEPT !.asked = Three(SetAlarm(3), y, GetAlarm), !.alarm = 9, !.skew = s,
                  !.ticks = 4] : y \in {SetAlarm(4), ClearAlarm}, s \in {0, 1, -1}}
    \cup {[Base EXCEPT !.asked = Three(SetAlarm(3), y, Careless(ClearAlarm)), !.alarm = 9,
                       !.ticks = 4, !.faulty = TRUE] : y \in {SetAlarm(4), ClearAlarm}}
    \cup {[Base EXCEPT !.asked = Three(SetAlarm(3), SetAlarm(4), DryRun(ClearAlarm)),
                       !.resolution = 2, !.rtcs = n, !.ticks = 2] : n \in 1..2}

\* All interfaces: two changes against a read; failing accesses; a renaming; a third NIC,
\* one without magic packets, a USB adapter under a stock name, an unknown mapping.
Changes == {[Base EXCEPT !.asked = Three(GetAll, SetAll(x[1]), SetAll(x[2])), !.wol = w] :
                x \in {<<"on", "off">>, <<"on", "on">>}, w \in Mixed}
Failing == {[Base EXCEPT !.asked = Three(GetAll, SetAll(x), DryRun(SetAll("on"))), !.wol = w,
                         !.faulty = TRUE, !.renames = IF x = "on" THEN 1 ELSE 0] :
                x \in Policies, w \in {Flagged({"magic"}, {"other"}), Flagged({}, {"other"})}}
Renaming == {[Base EXCEPT !.asked = Three(SetAll("on"), k[1], DryRun(SetOne("on", "eth0"))),
                          !.wol = Flagged({}, {"magic"}), !.nic = k[2], !.renames = k[3]] :
                k \in {<<GetAll, Bound(1, 2, 0), 3>>, <<GetAll, Bound(1, 0, 2), 2>>,
                       <<SetOne("off", "eth1"), Bound(1, 2, 0), 2>>}}
Odd == {[Base EXCEPT !.asked = Three(GetAll, SetAll("on"), SetAll("off")), !.nic = k[1],
                     !.magic = k[2], !.auto = k[3], !.physical = k[4]] :
                k \in {<<Bound(1, 2, 3), {1, 3}, 2, MCDevs>>, <<Bound(0, 2, 1), MCDevs, 1, {1, 3}>>,
                       <<Bound(1, 2, 0), MCDevs, 2, {1, 3}>>, <<Bound(1, 2, 0), MCDevs, 0, MCDevs>>}}

\* One interface: against its renaming, on the device tree's MAC, on one without magic
\* packets, on a virtual one, with failing accesses.
Single == {[Base EXCEPT !.asked = Three(SetOne("on", "eth0"), y, DryRun(SetOne("on", "eth0"))),
                        !.wol = Flagged({}, {"other"}), !.renames = IF y.act = "set" THEN 4 ELSE 2] :
                y \in {SetOne("on", "eth1"), GetOne("eth0")}}
    \cup {[Base EXCEPT !.asked = Three(SetOne("off", "eth0"), SetOne("on", "eth1"), GetOne("eth1")),
                       !.wol = Flagged({"magic"}, {}), !.physical = {1}, !.mac = m, !.magic = g,
                       !.faulty = f] : m \in {{}, {2}}, g \in {{1}, MCDevs}, f \in BOOLEAN}

MCSituations == Alarms \cup Changes \cup Failing \cup Renaming \cup Odd \cup Single
=============================================================================
