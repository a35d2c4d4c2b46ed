----------------------------- MODULE DiskScan -----------------------------
(***************************************************************************)
(* ugreenctl_disk_scan (src/disk/disk.c:1429-1708): the block devices are  *)
(* listed and read one by one, read again, compared with two more          *)
(* listings, and only then given to `disk locate`; while disks and an      *)
(* add-in card come and go.                                                *)
(*                                                                         *)
(* A device is [serial, place, ready]: `ready` is FALSE while the kernel   *)
(* has not filled its attributes. The serial stands for serial and WWN.    *)
(***************************************************************************)
EXTENDS DiskTopology

CONSTANTS
    Names,      \* block device names; those of NVMe drives in NvmeNames
    NvmeNames,
    Siblings,   \* sets of names that are namespaces of one NVMe controller
    Serials,
    PlacesOf(_),    \* where a disk may be plugged in on a model
    Card,       \* the add-in card: [ctrls, bridges]
    DISK_MAX    \* UGREENCTL_DISK_MAX

Place == [iface : {"sata"}, at : STRING, port : 1..8] \cup [iface : {"nvme"}, at : STRING, port : {0}]
Device == [serial : Serials, place : Place, ready : BOOLEAN]
Absent == [serial |-> "none"]
Present(b) == {n \in Names : b[n] # Absent}

\* A machine has the factory's controllers, with or without the card's, and a disk is at
\* a port that exists.
Built(m, ctrls) == ctrls \in {Controllers(m), Controllers(m) \cup Card.ctrls}
Fits(m, place) == \A c \in Controllers(m) \cup Card.ctrls : c.id = place.at => place.port <= c.ports

ASSUME DiskAssumption ==
    /\ NvmeNames \subseteq Names /\ Siblings \subseteq SUBSET Names /\ "none" \notin Serials
    /\ \A n \in NvmeNames : \E g \in Siblings : n \in g
    /\ \A m \in Models : \A place \in PlacesOf(m) : place \in Place /\ Fits(m, place)
    /\ Card.ctrls \subseteq SataController /\ IsFiniteSet(Card.ctrls) /\ DISK_MAX \in Nat
    /\ \A m \in Models : \A c \in Controllers(m), o \in Card.ctrls : c.id # o.id

VARIABLES
    model, routing,     \* the machine: its DMI name, and the revision that is really wired
    machine, bus,       \* SATA controllers and bridges; block devices
    cal,                \* the calibration file: {} or a set of [place, slot]
    moves, seen,        \* bounds: hot-plug events still to come; <<name, serial, place>> so far
    scan,               \* the scan: where it is, what it still has to read, what it has
    then,               \* history: the bus when enumeration ended
    looked              \* history: each listed name as verify_inventory_members found it

world == <<model, routing, machine, bus, cal, moves, seen>>
scanVars == <<world, scan, then, looked>>

NoSlot == <<"none", 0>>
Unmapped(d) == [d EXCEPT !.slot = NoSlot, !.led = 0, !.source = "unknown"]
Start == [pc |-> "start", todo |-> {}, members |-> {}, disks |-> {}, auto |-> {},
          report |-> {}]

ScanTypeOK ==
    /\ bus \in [Names -> Device \cup {Absent}]
    /\ scan.pc \in {"start", "enumerate", "recheck", "verify", "done", "failed"}
    /\ scan.todo \subseteq Names /\ scan.members \subseteq Names
    /\ \A d \in scan.disks : d.name \in scan.members /\ d.led \in 0..8
    /\ \A d, e \in scan.disks : d.name = e.name => d = e
    /\ Cardinality(scan.members) <= DISK_MAX /\ moves \in Nat

\* m: [model, routing, machine, bus, cal, moves], a machine and what may happen to it.
ScanInit(m) ==
    /\ model = m.model /\ routing = m.routing /\ machine = m.machine
    /\ bus = m.bus /\ cal = m.cal /\ moves = m.moves
    /\ seen = {<<n, bus[n].serial, bus[n].place>> : n \in Present(bus)}
    /\ scan = Start /\ then = bus /\ looked = [n \in Names |-> Absent]

-----------------------------------------------------------------------------
\* read_one: nothing for a device that is gone or not ready.
Readable(n) == bus[n] # Absent /\ bus[n].ready
Namespaces(n) == UNION {g \in Siblings : n \in g}
read_one(n) ==
    [name |-> n, serial |-> bus[n].serial, place |-> bus[n].place,
     controller |-> IF n \in NvmeNames THEN <<bus[n].place.at, Namespaces(n)>> ELSE <<>>,
     iface |-> bus[n].place.iface, slot |-> NoSlot, led |-> 0, source |-> "unknown"]

\* What a second reading is compared in.
Identity_path(d) == <<d.place, d.controller>>     \* mutant: a reused path is taken for the disk
Identity(d) == <<d.serial, d.place, d.controller>>

\* The rules that apply to a disk, and what the only one gives it.
Matches(place) == {r \in firmware_layout(model) : firmware_rule_matches(model, machine, place, r)}
apply_firmware_rule(d, r) ==
    [d EXCEPT !.slot = r.slot, !.iface = IF r.iface = "u2" THEN "u2" ELSE @,
              !.led = IF firmware_slot_has_led(model, r) THEN r.slot[2] ELSE 0,
              !.source = IF d.source = "single" THEN "single" ELSE "firmware"]

\* A calibration file replaces every other mapping; the single controller found when
\* the scan began maps by port; the firmware's rules, read now, come last.
Calibrated(d) ==
    LET lines == {l \in cal : l.place = d.place} IN
    IF lines = {} THEN d
    ELSE LET l == CHOOSE x \in lines : TRUE
         IN  [d EXCEPT !.slot = Ata(l.slot), !.led = l.slot, !.source = "calibration"]
ByController(d, auto) ==
    IF \E c \in auto : c.id = d.place.at /\ d.place.port \in 1..4
    THEN [d EXCEPT !.slot = Ata(d.place.port), !.led = d.place.port, !.source = "single"]
    ELSE d
Mapped(d, auto) ==
    LET first == IF cal # {} THEN Calibrated(d) ELSE ByController(d, auto)
        rules == Matches(d.place)
    IN  IF Cardinality(rules) = 1 /\ cal = {}
        THEN apply_firmware_rule(first, CHOOSE r \in rules : TRUE)
        ELSE IF Cardinality(rules) > 1 THEN Unmapped(first) ELSE first

Fail == scan' = [scan EXCEPT !.pc = "failed", !.disks = {}, !.report = {}]

-----------------------------------------------------------------------------
\* read_calibration: no slot and no place twice, and only bays of the model.
known_bay_limit == Max({r.slot[2] : r \in {x \in firmware_layout(model) : x.slot[1] = "ata"}})
read_calibration ==
    /\ \A l \in cal : l.slot \in 1..known_bay_limit
    /\ \A l, o \in cal : l # o => l.slot # o.slot /\ l.place # o.place

\* Calibration, single controller, and the first listing of the directory.
ScanBegin ==
    /\ scan.pc = "start"
    /\ IF ~read_calibration THEN Fail ELSE
       scan' = [scan EXCEPT !.pc = "enumerate", !.todo = Present(bus),
                  !.auto = IF cal = {} /\ model \in SingleModels
                           THEN single_sata_controller(machine.ctrls) ELSE {}]
    /\ UNCHANGED <<world, then, looked>>

\* Every candidate is a member, read or not; too many refuse the scan.
ScanEntry ==
    /\ scan.pc = "enumerate"
    /\ \E n \in scan.todo :
        IF Cardinality(scan.members) = DISK_MAX THEN Fail
        ELSE scan' = [scan EXCEPT !.todo = @ \ {n}, !.members = @ \cup {n},
                        !.disks = @ \cup (IF Readable(n) THEN {Mapped(read_one(n), scan.auto)} ELSE {})]
    /\ UNCHANGED <<world, then, looked>>

ScanEnumerated ==
    /\ scan.pc = "enumerate" /\ scan.todo = {}
    /\ scan' = [scan EXCEPT !.pc = "recheck", !.todo = {d.name : d \in scan.disks}]
    /\ then' = bus /\ UNCHANGED <<world, looked>>

\* The second reading: another identity refuses the scan, another mapping unmaps the disk.
StillMapped(d) ==
    LET rules == Matches(d.place) IN
    /\ Cardinality(rules) = 1
    /\ LET now == apply_firmware_rule(read_one(d.name), CHOOSE r \in rules : TRUE)
       IN  now.slot = d.slot /\ now.led = d.led
ScanRecheck ==
    /\ scan.pc = "recheck"
    /\ \E d \in scan.disks :
        /\ d.name \in scan.todo
        /\ IF ~Readable(d.name) \/ Identity(read_one(d.name)) # Identity(d) THEN Fail
           ELSE scan' = [scan EXCEPT !.todo = @ \ {d.name},
                          !.disks = IF cal # {} \/ d.slot = NoSlot \/ StillMapped(d) THEN @
                                    ELSE (@ \ {d}) \cup {Unmapped(d)}]
    /\ UNCHANGED <<world, then, looked>>

\* The single controller is looked for again; then the second listing, which must
\* hold every member.
ScanControllers ==
    /\ scan.pc = "recheck" /\ scan.todo = {}
    /\ IF ~(scan.members \subseteq Present(bus)) THEN Fail ELSE
       scan' = [scan EXCEPT !.pc = "verify", !.todo = Present(bus),
                  !.disks = IF scan.auto = {} \/ single_sata_controller(machine.ctrls) = scan.auto THEN @
                            ELSE {IF d.source = "single" THEN Unmapped(d) ELSE d : d \in @}]
    /\ UNCHANGED <<world, then, looked>>

\* verify_inventory_members, one name at a time: a known name, readable as before,
\* with the same identity.
ScanVerify ==
    /\ scan.pc = "verify"
    /\ \E n \in scan.todo :
        LET known == {d \in scan.disks : d.name = n}
        IN  IF /\ n \in scan.members /\ Readable(n) = (known # {})
               /\ \A d \in known : Identity(read_one(n)) = Identity(d)
            THEN scan' = [scan EXCEPT !.todo = @ \ {n}] /\ looked' = [looked EXCEPT ![n] = bus[n]]
            ELSE Fail /\ UNCHANGED looked
    /\ UNCHANGED <<world, then>>

-----------------------------------------------------------------------------
\* coalesce_nvme_namespaces: the namespaces of one controller are one disk.
Group(d) == {e \in scan.disks : e = d \/ (e.controller # <<>> /\ e.controller = d.controller)}
Claim(d) == [serial |-> d.serial, place |-> d.place, iface |-> d.iface, slot |-> d.slot, led |-> d.led]
Coalescible == \A d \in scan.disks : \A e \in Group(d) : Claim(e) = Claim(d)
Coalesced ==
    {[names |-> {e.name : e \in Group(d)}, serial |-> d.serial, place |-> d.place,
      iface |-> d.iface, slot |-> d.slot, led |-> d.led, source |-> d.source] : d \in scan.disks}

\* A SATA disk of unknown routing may share the bay of either U.2 drive.
GtAmbiguous(disks) ==
    /\ cal = {} /\ ~RevisionKnown(model)
    /\ \E d \in disks : d.slot = NoSlot /\ d.iface = "sata"

\* All conflicts are found before any of them is cleared.
InConflict(d, disks) ==
    \/ GtAmbiguous(disks) /\ d.iface = "u2"
    \/ \E e \in disks \ {d} :
        \/ e.place = d.place
        \/ d.slot # NoSlot /\ e.slot = d.slot
        \/ d.led # 0 /\ e.led = d.led
Resolved(disks) == {IF InConflict(d, disks) THEN Unmapped(d) ELSE d : d \in disks}

\* verify_inventory_member_set: the names alone, in a third listing.
SameMembers_trusts == TRUE     \* mutant: the second listing is trusted
SameMembers == Present(bus) = scan.members
ScanDone ==
    /\ scan.pc = "verify" /\ scan.todo = {}
    /\ IF SameMembers /\ Coalescible
       THEN scan' = [scan EXCEPT !.pc = "done", !.report = Resolved(Coalesced)]
       ELSE Fail
    /\ UNCHANGED <<world, then, looked>>

-----------------------------------------------------------------------------
\* ugreenctl_disk_resolve: [by, value] selects a disk by name, serial or slot.
Selects(s, d) ==
    CASE s.by = "name" -> s.value \in d.names
      [] s.by = "serial" -> s.value = d.serial
      [] s.by = "slot" -> d.slot = Ata(s.value) /\ d.iface # "nvme"
      [] s.by = "nvme" -> d.slot = Nvme(s.value)
resolve_first(s) ==    \* mutant: the first match is taken
    {d \in scan.report : Selects(s, d) /\ d.slot # NoSlot /\ d.led # 0}
resolve(s) ==
    LET found == {d \in scan.report : Selects(s, d)}
    IN  {d \in found : found = {d} /\ d.slot # NoSlot /\ d.led # 0}

-----------------------------------------------------------------------------
(* Hot-plug, while a scan runs. A disk that was pulled does not come back  *)
(* to the same name and place within one scan.                             *)

Scanning == scan.pc \notin {"start", "done", "failed"}
Move == Scanning /\ moves > 0 /\ moves' = moves - 1
        /\ UNCHANGED <<model, routing, cal, scan, then, looked>>

Pull ==
    /\ Move /\ \E n \in Present(bus) : bus' = [bus EXCEPT ![n] = Absent]
    /\ UNCHANGED <<machine, seen>>

\* A free place; a further namespace of an NVMe drive is at that drive's place.
Free(n, place) == \A m \in Present(bus) \ Namespaces(n) : bus[m].place # place
Plug ==
    /\ Move
    /\ \E n \in Names \ Present(bus), s \in Serials, place \in PlacesOf(model) :
        /\ (place.iface = "nvme") = (n \in NvmeNames) /\ Free(n, place)
        /\ \A m \in Present(bus) :
            (m \in Namespaces(n)) = (bus[m].serial = s) /\ (m \in Namespaces(n) => bus[m].place = place)
        /\ <<n, s, place>> \notin seen /\ seen' = seen \cup {<<n, s, place>>}
        /\ \E ready \in BOOLEAN : bus' = [bus EXCEPT ![n] = [serial |-> s, place |-> place, ready |-> ready]]
    /\ UNCHANGED machine

BecomesReady ==
    /\ Move /\ \E n \in Present(bus) : ~bus[n].ready /\ bus' = [bus EXCEPT ![n].ready = TRUE]
    /\ UNCHANGED <<machine, seen>>

\* A card with a SATA controller and a bridge of its own appears.
CardAppears ==
    /\ Move /\ ~(Card.ctrls \subseteq machine.ctrls)
    /\ machine' = [ctrls |-> machine.ctrls \cup Card.ctrls, bridges |-> machine.bridges \cup Card.bridges]
    /\ UNCHANGED <<bus, seen>>

HotPlug == Pull \/ Plug \/ BecomesReady \/ CardAppears

ScanStep ==
    \/ ScanBegin \/ ScanEntry \/ ScanEnumerated \/ ScanRecheck \/ ScanControllers
    \/ ScanVerify \/ ScanDone
=============================================================================
