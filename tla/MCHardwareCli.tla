--------------------------- MODULE MCHardwareCli ---------------------------
EXTENDS HardwareCli

MCNames == {"sda", "sdb", "nvme0n1", "nvme0n2"}
MCNvmeNames == {"nvme0n1", "nvme0n2"}
MCSiblings == {MCNvmeNames}
MCSerials == {"S1", "S2", "S3"}
MCCard == [ctrls |-> {Controller("card", Asm, "0612", 2, 0)}, bridges |-> {"8086:464d", "8086:463d"}]

SataAt(at, port) == [iface |-> "sata", at |-> at, port |-> port]
NvmeAt(at) == [iface |-> "nvme", at |-> at, port |-> 0]
SataPlaces(m) == UNION {{SataAt(c.id, p) : p \in 1..c.ports} : c \in Controllers(m) \cup MCCard.ctrls}
NvmePlaces(m) ==
    CASE m = "DXP2800 GT" -> {NvmeAt("00:01.1"), NvmeAt("00:01.2"), NvmeAt("00:01.6")}
      [] m = "DXP4800 GT" -> {NvmeAt("00:01.1"), NvmeAt("00:01.3")}
      [] m = "DXP4800 Plus" -> {NvmeAt("8086:463d")}
      [] m \in {"DXP6800 Pro", "DXP8800 Plus"} -> {NvmeAt("8086:464d")}
      [] OTHER -> {NvmeAt("m2")}

\* Where hot-plugged disks may go: two connectors of each kind are enough to collide.
MCPlacesOf(m) ==
    CASE m = "DXP2800 GT" -> {SataAt("00:08.2", 1), NvmeAt("00:01.1"), NvmeAt("00:01.2")}
      [] m = "DXP4800 GT" -> {SataAt("00:01.2", 1), NvmeAt("00:01.1")}
      [] m = "DXP4800 Plus" -> {SataAt("01:00.0", 1), SataAt("card", 1), NvmeAt("8086:463d")}
      [] OTHER -> {SataAt("59:00.0", 1), NvmeAt("8086:464d")}

Disk(serial, place, ready) == [serial |-> serial, place |-> place, ready |-> ready]
Empty == [n \in MCNames |-> Absent]
Factory(m) == [ctrls |-> Controllers(m), bridges |-> {}]
WithCard(m) == [ctrls |-> Controllers(m) \cup MCCard.ctrls, bridges |-> MCCard.bridges]
Machine(m, r, mach, b, c, n) == [model |-> m, routing |-> r, machine |-> mach, bus |-> b, cal |-> c, moves |-> n]

NoSelector == [by |-> "none", value |-> 0]
Request(kind, selector, targets, actions, compat, apply, force) ==
    [kind |-> kind, selector |-> selector, targets |-> targets, actions |-> actions,
     compat |-> compat, apply |-> apply, force |-> force]
ListIt == Request("list", NoSelector, <<>>, <<>>, FALSE, FALSE, FALSE)
LocateIt(by, value) == Request("locate", [by |-> by, value |-> value], <<>>, <<>>, FALSE, TRUE, TRUE)

On == [color |-> "orig", bri |-> 1, mode |-> "on", timing |-> "orig"]
SteadyLamp(m) == IF Backend(m) = "mcu" THEN On ELSE [On EXCEPT !.timing = "none"]
Situation(machine_, request_, lamp, may_fail) ==
    [machine |-> machine_, request |-> request_, lamp |-> lamp, disturbed |-> may_fail]

\* Every connector of every model, one disk at a time, with and without a card.
Sweep ==
    UNION {UNION {
        {Situation(Machine(m, r, mach, [Empty EXCEPT !["sda"] = Disk("S1", p, TRUE)], {}, 0),
                   ListIt, SteadyLamp(m), FALSE) : p \in SataPlaces(m), mach \in {Factory(m), WithCard(m)}}
        \cup
        {Situation(Machine(m, r, mach, [Empty EXCEPT !["nvme0n1"] = Disk("S1", p, TRUE)], {}, 0),
                   ListIt, SteadyLamp(m), FALSE) : p \in NvmePlaces(m), mach \in {Factory(m), WithCard(m)}}
        : r \in 1..2} : m \in Models}

\* Scans raced by hot-plug, listing or locating.
Race(m, r, b, c, n, requests) ==
    {Situation(Machine(m, r, Factory(m), b, c, n), req, On, FALSE) : req \in requests}
Sata(m, p) == Disk("S1", SataAt(CASE m = "DXP2800 GT" -> "00:08.2" [] m = "DXP4800 GT" -> "00:01.2"
                                   [] m = "DXP4800 Plus" -> "01:00.0" [] OTHER -> "59:00.0", p), TRUE)
NextBay == [Empty EXCEPT !["sda"] = Sata("DXP4800 GT", 1), !["nvme0n1"] = Disk("S2", NvmeAt("00:01.3"), TRUE)]
Raced ==
    UNION {Race("DXP2800 GT", r, b, {}, 2, {ListIt}) : r \in 1..2,
             b \in {[Empty EXCEPT !["nvme0n1"] = Disk("S2", NvmeAt("00:01.1"), TRUE)],
                    [Empty EXCEPT !["nvme0n1"] = Disk("S2", NvmeAt("00:01.1"), TRUE),
                                  !["sda"] = Sata("DXP2800 GT", 2)]}}
    \cup Race("DXP4800 GT", 1, [Empty EXCEPT !["sda"] = Sata("DXP4800 GT", 1)], {}, 3, {LocateIt("slot", 1)})
    \cup Race("DXP4800 GT", 1, [Empty EXCEPT !["sda"] = Sata("DXP4800 GT", 1),
                                             !["sdb"] = Disk("S2", SataAt("00:01.2", 2), TRUE)], {}, 2,
              {LocateIt("name", "sda"), LocateIt("slot", 1)})
    \cup Race("DXP4800 GT", 1, NextBay, {}, 3, {ListIt})
    \cup Race("DXP8800 Plus", 1, [Empty EXCEPT !["sda"] = Sata("DXP8800 Plus", 1),
                                              !["nvme0n1"] = Disk("S2", NvmeAt("8086:464d"), TRUE)], {}, 2,
              {LocateIt("serial", "S1"), LocateIt("name", "nvme0n1")})
    \cup UNION {Race("DXP4800 Plus", 1, [Empty EXCEPT !["sda"] = Sata("DXP4800 Plus", 1)], c, 2,
                     {LocateIt("name", "sda")})
                : c \in {{}, {[place |-> SataAt("01:00.0", 1), slot |-> 3]}}}

\* Locating among several disks: twins with one serial, namespaces, a bad calibration.
Located ==
    {Situation(Machine(m, 1, Factory(m), [Empty EXCEPT !["sda"] = Disk("S1", p, TRUE), !["sdb"] = Disk("S1", q, TRUE)],
                       cal_, 0), req, SteadyLamp(m), FALSE) :
        m \in {"DXP6800 Pro"}, p \in {SataAt("59:00.0", 2)}, q \in {SataAt("00:17.0", 1)},
        cal_ \in {{}, {[place |-> SataAt("59:00.0", 2), slot |-> 1], [place |-> SataAt("00:17.0", 1), slot |-> 1]}},
        req \in {LocateIt("serial", "S1"), LocateIt("name", "sdb"), LocateIt("slot", 2)}}
    \cup
    {Situation(Machine("DXP4800 GT", 1, Factory("DXP4800 GT"),
                       [Empty EXCEPT !["nvme0n1"] = Disk("S2", NvmeAt("00:01.3"), TRUE),
                                     !["nvme0n2"] = Disk("S2", NvmeAt("00:01.3"), TRUE)], {}, 0),
               req, On, FALSE) : req \in {LocateIt("name", "nvme0n2"), LocateIt("slot", 2)}}
    \cup
    {Situation(Machine("DH4300 Plus", 1, Factory("DH4300 Plus"),
                       [Empty EXCEPT !["sda"] = Disk("S1", SataAt("asm", 1), TRUE)], {}, 0),
               LocateIt("slot", 4), SteadyLamp("DH4300 Plus"), FALSE)}

\* The lights alone, on both controllers, quiet and disturbed.
Lamps(m) ==
    IF Backend(m) = "mcu"
    THEN {[On EXCEPT !.mode = x, !.bri = y] : x \in {"off", "on", "blink"}, y \in {1}}
    ELSE {[color |-> "orig", bri |-> 1, mode |-> "on", timing |-> "none"],
          [color |-> "orig", bri |-> 0, mode |-> "off", timing |-> "none"],
          [color |-> "orig", bri |-> 1, mode |-> "blink", timing |-> "orig"]}
Action(fields, color, bri, mode, timing) ==
    [fields |-> fields, value |-> [color |-> color, bri |-> bri, mode |-> mode, timing |-> timing]]
SetColor == Action({"color"}, "user", 0, "off", "orig")
SetBri(n) == Action({"bri"}, "orig", n, "off", "orig")
SetMode(x) == Action({"mode"}, "orig", 0, x, "orig")
SetBlink == Action({"mode", "timing"}, "orig", 0, "blink", "user")
Status == NoPatch
LedRequests ==
    {Request("identify", NoSelector, <<1>>, <<>>, FALSE, TRUE, TRUE),
     Request("identify", NoSelector, <<1>>, <<>>, FALSE, FALSE, TRUE),
     Request("identify", NoSelector, <<1>>, <<>>, FALSE, TRUE, FALSE)}
    \cup {Request("set", NoSelector, <<1, 2>>, a, FALSE, TRUE, TRUE) :
            a \in {<<SetColor, SetBri(1), SetMode("on")>>, <<SetBri(0), SetMode("off")>>,
                   <<SetBri(1), SetMode("off")>>, <<SetColor, SetBlink>>, <<SetMode("on")>>}}
    \cup {Request("set", NoSelector, <<1, 2>>, <<SetColor, Status, SetMode("off")>>, TRUE, apply, TRUE) :
            apply \in BOOLEAN}
    \cup {Request("set", NoSelector, <<1>>, <<SetColor>>, FALSE, FALSE, FALSE),
          Request("set", NoSelector, <<1, 2>>, <<Status>>, FALSE, FALSE, FALSE)}
LightsOnly ==
    UNION {{Situation(Machine(m, 1, Factory(m), Empty, {}, 0), req, lamp, may_fail) :
              req \in LedRequests, lamp \in Lamps(m), may_fail \in BOOLEAN}
           : m \in {"DXP4800", "DH4300 Plus"}}

MCSituations == Sweep \cup Raced \cup Located \cup LightsOnly
=============================================================================
