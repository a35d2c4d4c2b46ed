--------------------------- MODULE DiskTopology ---------------------------
(***************************************************************************)
(* From the place a disk is attached to the bay it sits in: the firmware's *)
(* connector tables (src/disk/firmware_profiles.c) and their conversion to *)
(* controller roles (src/disk/disk.c). Seven models: every way a SATA bay  *)
(* gets its light is among them. Left out are the rules by PCI address of  *)
(* the DXP480T Plus and the iDX6011 Pro, the second and third M.2 slot,    *)
(* which have no light, and the DXP2800's choice among its board versions. *)
(*                                                                         *)
(* A SATA controller is [id, vendor, device, ports, bridge]: ports 1..     *)
(* `ports` exist, `bridge` is the role of the PCI bridge (or device tree   *)
(* node) above it. A machine is [ctrls, bridges]: its SATA controllers and *)
(* the bridges an add-in card brings. A place is [iface, at, port]: a      *)
(* controller's port, or the root port or bridge above an NVMe drive.      *)
(***************************************************************************)
EXTENDS Naturals, FiniteSets, FiniteSetsExt

SataController == [id : STRING, vendor : STRING, device : STRING, ports : 0..8, bridge : 0..2]
Models == {"DXP2800 GT", "DXP4800", "DXP4800 GT", "DXP4800 Plus", "DXP6800 Pro",
           "DXP8800 Plus", "DH4300 Plus"}

\* A rule gives a slot to an identity; slots are <<"ata", n>> and <<"nvme", n>>.
Ata(n) == <<"ata", n>>
Nvme(n) == <<"nvme", n>>
AtaRule(n, index, led) ==
    [slot |-> Ata(n), kind |-> "ata_id", at |-> "", port |-> index, iface |-> "sata", led |-> led]
PathRule(n, at, port) ==
    [slot |-> Ata(n), kind |-> "syspath", at |-> at, port |-> port, iface |-> "sata", led |-> TRUE]
DriveRule(slot, kind, at, iface) ==
    [slot |-> slot, kind |-> kind, at |-> at, port |-> 0, iface |-> iface, led |-> iface = "u2"]

GtDrives == {DriveRule(Ata(1), "syspath", "00:01.1", "u2"), DriveRule(Ata(2), "syspath", "00:01.2", "u2"),
             DriveRule(Nvme(1), "syspath", "00:01.6", "m2")}
InOrder(n) == {AtaRule(i, i, TRUE) : i \in 1..n}
Layout(model, revision) ==
    CASE model = "DXP2800 GT" ->
            GtDrives \cup {PathRule(i, "00:08.2", IF revision = 1 THEN i ELSE 3 - i) : i \in 1..2}
      [] model = "DXP4800 GT" ->
            {PathRule(i, "00:01.2", i) : i \in 1..4}
            \cup {DriveRule(Ata(1), "syspath", "00:01.1", "u2"), DriveRule(Ata(2), "syspath", "00:01.3", "u2")}
      [] model = "DXP4800" -> InOrder(4) \cup {DriveRule(Nvme(1), "block_name", "nvme0n1", "m2")}
      [] model = "DXP4800 Plus" -> InOrder(4) \cup {DriveRule(Nvme(1), "pcie_bridge_id", "8086:463d", "m2")}
      [] model = "DXP6800 Pro" ->
            {AtaRule(i, i + 2, TRUE) : i \in 1..4} \cup {AtaRule(i, i - 4, TRUE) : i \in 5..6}
            \cup {DriveRule(Nvme(1), "pcie_bridge_id", "8086:464d", "m2")}
      [] model = "DXP8800 Plus" -> InOrder(8) \cup {DriveRule(Nvme(1), "pcie_bridge_id", "8086:464d", "m2")}
      [] model = "DH4300 Plus" -> {AtaRule(i, IF i % 2 = 1 THEN i + 1 ELSE i - 1, FALSE) : i \in 1..4}

\* firmware_layout: the DXP2800 GT's revision stays unknown and rev1 stands in for it.
RevisionKnown(model) == model # "DXP2800 GT"
firmware_layout(model) == Layout(model, 1)

-----------------------------------------------------------------------------
Intel == "8086"
Asm == "1b21"
Rockchip == "rk3588"

PortsOf(ctrls) == Cardinality(UNION {{c} \X (1..c.ports) : c \in ctrls})

\* single_sata_controller: the one SATA controller of the machine, with all its ports.
SingleModels == {"DXP4800 Plus"}
single_sata_controller(ctrls) ==
    {c \in ctrls : ctrls = {c} /\ c.vendor = Asm /\ c.device = "1164" /\ c.ports = 4}

\* firmware_arm_ata_index: both native one-port controllers and the PCI one, complete.
arm_roles(ctrls) ==
    /\ Cardinality(ctrls) = 3
    /\ \A role \in 1..2 : \E c \in ctrls : c.vendor = Rockchip /\ c.bridge = role /\ c.ports = 1
    /\ \E c \in ctrls : c.vendor = Asm /\ c.device = "0612" /\ c.ports = 2
firmware_arm_ata_index(ctrls, c, port) ==
    IF ~arm_roles(ctrls) THEN 0 ELSE IF c.vendor = Rockchip THEN c.bridge ELSE 2 + port

\* firmware_ata_index: where the controller's ports start in the factory's ATA order,
\* for each recognised set of controllers; NoBase for any other set.
NoBase == 99
IntelPair(c) == c.vendor = Intel /\ c.ports = 2
AsmRest(c, expected) ==
    /\ c.vendor = Asm /\ c.ports = expected - 2
    /\ \/ expected = 4 /\ c.device \in {"0612", "1062"}
       \/ expected = 6 /\ c.device = "1164"
AsmQuad(c) == c.vendor = Asm /\ c.device = "1164" /\ c.ports = 4 /\ c.bridge \in 1..2
Base_asm_first(ctrls, c, expected) ==    \* mutant: ASMedia ports counted before Intel's
    CASE \E o \in ctrls : ctrls = {c, o} /\ IntelPair(c) /\ AsmRest(o, expected) -> expected - 2
      [] \E o \in ctrls : ctrls = {c, o} /\ IntelPair(o) /\ AsmRest(c, expected) -> 0
      [] OTHER -> NoBase
Base(ctrls, c, expected) ==
    CASE ctrls = {c} /\ expected = 2 /\ IntelPair(c) -> 0
      [] ctrls = {c} /\ c.vendor = Asm /\ <<expected, c.device>> \in {<<4, "1164">>, <<6, "1166">>} -> 0
      [] \E o \in ctrls : ctrls = {c, o} /\ IntelPair(c) /\ AsmRest(o, expected) -> 0
      [] \E o \in ctrls : ctrls = {c, o} /\ IntelPair(o) /\ AsmRest(c, expected) -> 2
      [] \E o \in ctrls :
            /\ ctrls = {c, o} /\ c # o /\ expected = 8 /\ AsmQuad(c) /\ AsmQuad(o)
            /\ c.bridge # o.bridge -> IF c.bridge = 1 THEN 0 ELSE 4
      [] OTHER -> NoBase

firmware_ata_index(model, ctrls, place) ==
    LET here == {c \in ctrls : c.id = place.at}
        expected == Cardinality({r \in firmware_layout(model) : r.kind = "ata_id"})
        c == CHOOSE x \in here : TRUE
    IN  IF here = {} \/ expected = 0 THEN 0 ELSE
        CASE model = "DH4300 Plus" -> firmware_arm_ata_index(ctrls, c, place.port)
          [] model \in SingleModels -> IF single_sata_controller(ctrls) = {c} THEN place.port ELSE 0
          [] OTHER -> IF /\ Cardinality(ctrls) <= 4 /\ PortsOf(ctrls) = expected
                         /\ Base(ctrls, c, expected) # NoBase
                      THEN Base(ctrls, c, expected) + place.port
                      ELSE 0

-----------------------------------------------------------------------------
\* A rule of the DXP2800 GT counts only when both revisions have it, and never for SATA.
gt_rule_revision_independent(rule) ==
    rule.iface # "sata" /\ \A revision \in 1..2 : rule \in Layout("DXP2800 GT", revision)

\* A syspath rule for SATA needs the controller to have exactly the chassis' ports.
controller_ports(model, ctrls, at) ==
    \E c \in ctrls : c.id = at /\ c.ports = Cardinality({r \in firmware_layout(model) : r.iface = "sata"})

\* The chassis has each bridge once; a card may bring a second one.
bridge_identity_unique(machine, identity) == identity \notin machine.bridges

\* Global device names (block_name) are never a place.
firmware_rule_matches(model, machine, place, rule) ==
    /\ (rule.iface = "sata") = (place.iface = "sata")
    /\ RevisionKnown(model) \/ gt_rule_revision_independent(rule)
    /\ CASE rule.kind = "ata_id" -> firmware_ata_index(model, machine.ctrls, place) = rule.port
         [] rule.kind = "pcie_bridge_id" -> rule.at = place.at /\ bridge_identity_unique(machine, rule.at)
         [] rule.kind = "syspath" ->
                /\ rule.at = place.at
                /\ place.iface = "nvme"
                   \/ (RevisionKnown(model) /\ rule.port = place.port
                       /\ controller_ports(model, machine.ctrls, place.at))
         [] OTHER -> FALSE

\* The storage service's ColorLed flag means RGB; some models have plain bay LEDs.
firmware_slot_has_led(model, rule) == rule.led \/ (rule.iface = "sata" /\ model = "DH4300 Plus")

-----------------------------------------------------------------------------
\* The controllers a machine leaves the factory with.
Controller(id, vendor, device, ports, bridge) ==
    [id |-> id, vendor |-> vendor, device |-> device, ports |-> ports, bridge |-> bridge]
Controllers(model) ==
    CASE model = "DXP2800 GT" -> {Controller("00:08.2", "1022", "ahci", 2, 0)}
      [] model = "DXP4800 GT" -> {Controller("00:01.2", Asm, "1164", 4, 0)}
      [] model = "DXP4800" -> {Controller("00:17.0", Intel, "ahci", 2, 0), Controller("01:00.0", Asm, "1062", 2, 0)}
      [] model = "DXP4800 Plus" -> {Controller("01:00.0", Asm, "1164", 4, 0)}
      [] model = "DXP6800 Pro" -> {Controller("59:00.0", Asm, "1164", 4, 0), Controller("00:17.0", Intel, "ahci", 2, 0)}
      [] model = "DXP8800 Plus" -> {Controller("59:00.0", Asm, "1164", 4, 1), Controller("5a:00.0", Asm, "1164", 4, 2)}
      [] model = "DH4300 Plus" -> {Controller("rk1", Rockchip, "ahci", 1, 1), Controller("rk2", Rockchip, "ahci", 1, 2),
                                   Controller("asm", Asm, "0612", 2, 0)}

\* The wiring as users recorded it on three models, independently of the firmware: the
\* code's evidence table, which it keeps but does not map by. [at, port] of a controller
\* and the bay behind it.
bays(at, n, from) == {[at |-> at, port |-> i, bay |-> from + i] : i \in 1..n}
profiles(model) ==
    CASE model = "DXP4800" -> bays("00:17.0", 2, 0) \cup bays("01:00.0", 2, 2)
      [] model = "DXP6800 Pro" -> bays("59:00.0", 4, 0) \cup bays("00:17.0", 2, 4)
      [] model = "DXP8800 Plus" -> bays("59:00.0", 4, 0) \cup bays("5a:00.0", 4, 4)
      [] OTHER -> {}

\* Nobody recorded the other models. Their bays are what the firmware's own tables say:
\* of these two, the controllers' ports in the factory's ATA order.
FactoryOrder(model) ==
    CASE model = "DXP4800 Plus" -> bays("01:00.0", 4, 0)
      [] model = "DH4300 Plus" ->
            {[at |-> "rk1", port |-> 1, bay |-> 2], [at |-> "rk2", port |-> 1, bay |-> 1],
             [at |-> "asm", port |-> 1, bay |-> 4], [at |-> "asm", port |-> 2, bay |-> 3]}
      [] OTHER -> {}
Wiring(model) == profiles(model) \cup FactoryOrder(model)

\* The bay a place is wired to, 0 for none; on a GT by the layout of the revision that is
\* built in, which the code does not know.
Bay(model, routing, place) ==
    LET wired == {p.bay : p \in {x \in Wiring(model) : x.at = place.at /\ x.port = place.port}}
                 \cup {r.slot[2] : r \in {x \in Layout(model, routing) :
                        /\ x.kind = "syspath" /\ x.slot[1] = "ata" /\ x.at = place.at
                        /\ (x.iface = "sata") = (place.iface = "sata") /\ x.port = place.port}}
    IN  IF wired = {} THEN 0 ELSE CHOOSE b \in wired : TRUE
=============================================================================
