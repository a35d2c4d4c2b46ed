---------------------------- MODULE HardwareCli ----------------------------
(***************************************************************************)
(* `ugreenctl led ...` and `ugreenctl disk ...`                            *)
(* (src/core/hardware_cli.c): `disk list` scans, `disk locate` scans,      *)
(* resolves the selector and identifies the light it got, the led commands *)
(* go straight to the lights. A request is [kind, selector, targets,       *)
(* actions, compat, apply, force].                                         *)
(***************************************************************************)
EXTENDS DiskScan, LedSession

CONSTANT Situations     \* initial states: [machine, request, lamp, disturbed]

\* merged_patch: the options of `led set` are one intent, later ones win.
Merged_last(actions) ==     \* mutant: earlier options are dropped
    IF actions = <<>> THEN NoPatch ELSE Last(actions)
Merged(actions) ==
    FoldLeft(LAMBDA p, a : [fields |-> p.fields \cup a.fields,
                            value |-> [f \in Fields |-> IF f \in a.fields THEN a.value[f] ELSE p.value[f]]],
             NoPatch, actions)

\* The light controller of a model; the DXP2800 GT's belongs to the holder.
Backend(m) == IF m = "DH4300 Plus" THEN "sysfs" ELSE "mcu"

\* A machine before a scan, and what a command line can ask for.
WellFormed(m) ==
    /\ m.model \in Models /\ m.bus \in [Names -> Device \cup {Absent}] /\ m.moves \in Nat
    /\ m.machine.ctrls \subseteq SataController /\ m.cal \subseteq [place : Place, slot : Nat]
    /\ Built(m.model, m.machine.ctrls) /\ \A n \in Present(m.bus) : Fits(m.model, m.bus[n].place)
Askable(r) ==
    /\ r.kind \in {"list", "locate", "set", "identify"} /\ {r.compat, r.apply, r.force} \subseteq BOOLEAN
    /\ r.kind = "locate" => r.selector.by \in {"name", "serial", "slot", "nvme"}
    /\ r.targets \in Seq(Lights) /\ (r.kind = "identify" => Len(r.targets) = 1)
    /\ \A i, j \in 1..Len(r.targets) : r.targets[i] = r.targets[j] => i = j
    /\ r.actions \in Seq(Patch)
ASSUME CliAssumption ==
    /\ 1..8 \subseteq Lights
    /\ \A x \in Situations :
        /\ WellFormed(x.machine) /\ Askable(x.request) /\ x.disturbed \in BOOLEAN
        /\ x.lamp \in Lamp /\ Showable(Backend(x.machine.model), x.lamp)

VARIABLE request
cliVars == <<scanVars, ledVars, request>>

Init ==
    \E x \in Situations :
        /\ ScanInit(x.machine)
        /\ LedInit(Backend(x.machine.model), x.lamp, x.disturbed)
        /\ request = x.request

DiskCommand == request.kind \in {"list", "locate"}

-----------------------------------------------------------------------------
\* The compatible tool runs all actions on a target before the next; `status` is an
\* action without fields. Without --apply only the reads are left.
Actions == IF request.compat THEN request.actions ELSE <<Merged(request.actions)>>
Reads == [i \in 1..Cardinality({j \in DOMAIN Actions : Actions[j].fields = {}}) |-> NoPatch]
OnTargets(actions) ==
    [step \in 1..Len(actions) * Len(request.targets) |->
        [light |-> request.targets[1 + ((step - 1) \div Len(actions))],
         patch |-> actions[1 + ((step - 1) % Len(actions))]]]
Planned == OnTargets(Actions)
Ops == OnTargets(IF request.apply THEN Actions ELSE Reads)

Gone(result) ==
    /\ session.pc = "idle" /\ Quit(result)
    /\ UNCHANGED <<lamps, disturbed, owner, cancelled, first, touched>>

\* led_execute: validation, the --force gate and the preview, before anything is opened.
Writes(kind) == kind = "identify" \/ \E i \in 1..Len(Planned) : Planned[i].patch.fields # {}
led_execute(kind, targets) ==
    IF \/ kind = "set" /\ \E i \in 1..Len(Planned) : ~Valid(session.backend, Planned[i].patch)
       \/ Writes(kind) /\ request.apply /\ ~request.force
    THEN Gone("refused")
    ELSE IF kind = "identify"
    THEN IF request.apply THEN LedStart(kind, targets, <<[light |-> targets[1], patch |-> NoPatch]>>)
         ELSE Gone("ok")
    ELSE IF Ops = <<>> THEN Gone("ok") ELSE LedStart(kind, targets, Ops)

LedCommand ==
    /\ request.kind \in {"set", "identify"}
    /\ led_execute(request.kind, request.targets)
    /\ UNCHANGED <<scanVars, request>>

\* disk_execute.
Scan == DiskCommand /\ ScanStep /\ UNCHANGED <<ledVars, request>>
ScanFailed ==
    /\ scan.pc = "failed" /\ Gone("refused") /\ UNCHANGED <<scanVars, request>>
List ==
    /\ request.kind = "list" /\ scan.pc = "done" /\ Gone("ok") /\ UNCHANGED <<scanVars, request>>
Locate ==
    /\ request.kind = "locate" /\ scan.pc = "done"
    /\ IF resolve(request.selector) = {} THEN Gone("refused")
       ELSE \E d \in resolve(request.selector) : led_execute("identify", <<d.led>>)
    /\ UNCHANGED <<scanVars, request>>

Light == LedStep /\ UNCHANGED <<scanVars, request>>
LightsAround == (LedSignal \/ OwnerChanges \/ OwnerWrites) /\ UNCHANGED <<scanVars, request>>
Bus == HotPlug /\ UNCHANGED <<ledVars, request>>

Finished == session.pc = "done" /\ UNCHANGED cliVars
CommandStep == Scan \/ ScanFailed \/ List \/ Locate \/ LedCommand \/ Light
Next == CommandStep \/ LightsAround \/ Bus \/ Finished

Spec == Init /\ [][Next]_cliVars
FairSpec == Spec /\ WF_cliVars(CommandStep)

-----------------------------------------------------------------------------
TypeOK == ScanTypeOK /\ LedTypeOK

\* A scan that succeeds reports a moment: when the listing ended, every reported name
\* was there with the reported serial, at the reported place, although each was read
\* at its own time and disks came and went meanwhile (disk.c:1429-1708).
Snapshot ==
    scan.pc = "done" =>
        \A d \in scan.report : \A n \in d.names :
            /\ then[n] # Absent
            /\ then[n].serial = d.serial /\ then[n].place = d.place

\* What the scan can know of the disks at its end: a listed name as it was last looked
\* at, any other name as it is.  A drive that was not ready at that look, or that took
\* over the name after it, is not in here: the last listing compares names alone.
LastLook(n) == IF n \in scan.members THEN looked[n] ELSE bus[n]
Inspected == {n \in Names : LastLook(n) # Absent /\ LastLook(n).ready}

\* An LED is only ever given to the disk alone in its bay: it is the light of the bay
\* the disk's connector is wired to, whatever the wiring revision and the add-in card,
\* and no other disk that could be read when its name was last looked at sits in that
\* bay, not even one that arrived under a new name during the scan (disk.c:1283-1381,
\* 1646-1705).  The wiring is the users' record where there is one (`profiles`), else
\* the firmware's.
LedIsOwnBay ==
    scan.pc = "done" =>
        \A d \in scan.report :
            d.led # 0 =>
                /\ cal = {} => Bay(model, routing, d.place) = d.led
                /\ cal = {} => \A n \in Inspected \ d.names : Bay(model, routing, LastLook(n).place) # d.led
                /\ \A e \in scan.report \ {d} : e.led # d.led

\* The caution is not refusal of everything: a scan of the factory's machine that ends
\* with every name as it was last looked at maps every disk that is alone in its bay,
\* except where routing is unknown.
UsefulMap ==
    /\ scan.pc = "done" /\ looked = bus /\ cal = {}
    /\ ~(Card.ctrls \subseteq machine.ctrls) /\ RevisionKnown(model)
    => \A n \in Present(bus) :
        LET bay == Bay(model, routing, bus[n].place) IN
        /\ bus[n].ready /\ bay # 0
        /\ \A o \in Present(bus) \ {n} : Bay(model, routing, bus[o].place) # bay
        => \E d \in scan.report : n \in d.names /\ d.led = bay

\* `disk locate` flashes the bay in which a disk that answers to the selector sat when
\* the listing ended, and only if no other disk that could be read when its name was
\* last looked at answers to it (disk.c:92-155, hardware_cli.c:995-1005).
Answers(n, d) ==
    CASE request.selector.by = "name" -> n = request.selector.value
      [] request.selector.by = "serial" -> d.serial = request.selector.value
      [] OTHER -> Bay(model, routing, d.place) = request.selector.value
LocateRightBay ==
    request.kind = "locate" /\ session.kind = "identify" /\ cal = {} =>
        \E n \in Present(then) :
            /\ Answers(n, then[n]) /\ Bay(model, routing, then[n].place) = session.targets[1]
            /\ \A m \in Inspected \ ({n} \cup Namespaces(n)) : ~Answers(m, LastLook(m))

\* An identify that does not report a failed restoration leaves its light exactly as it
\* found it, interrupted or failed half way included; no command touches a light it was
\* not asked for, and a refused one or a preview touches none (led.c:931-989,
\* led_sysfs.c:426-501).
Ended == session.pc = "done"
Asked == UNION {{session.targets[i]} : i \in 1..Len(session.targets)}
LedOutcome ==
    Ended =>
        /\ \A l \in Lights \ (Asked \cup touched) : lamps[l] = first[l]
        /\ session.result = "refused" \/ ~request.apply => \A l \in Lights \ touched : lamps[l] = first[l]
        /\ session.kind = "identify" /\ session.result \in {"ok", "interrupted", "failed"} =>
            /\ lamps[Target] = session.saved
            /\ Target \notin touched => lamps[Target] = first[Target]

\* `led set` reports success only when every target shows everything that was asked,
\* the later option winning; when it fails, targets after the failing one are as they
\* were and those before it are complete (hardware_cli.c:909-937, led.c:796-891).
Shows(l) ==
    \A f \in Fields :
        LET asking == {i \in 1..Len(request.actions) : f \in request.actions[i].fields}
        IN  asking # {} => lamps[l][f] = request.actions[Max(asking)].value[f]
SetOutcome ==
    Ended /\ session.why = "set" /\ ~request.compat =>
        \A i \in 1..Len(session.targets) :
            LET l == session.targets[i] IN
            l \notin touched =>
                /\ session.result = "ok" \/ i <= session.done => Shows(l)
                /\ session.result # "ok" /\ i > session.done + 1 => lamps[l] = first[l]

\* Without another owner, a fault or a refusal before the session, a command does what
\* it says: no restoration fails and no readback differs, from any state of the light.
QuietSucceeds ==
    Ended /\ ~disturbed /\ session.kind # "none" => session.result \in {"ok", "interrupted"}

\* Every command ends: within the time of an identify, through each failure, whatever
\* the signal and the owner do, and whatever is plugged in during a scan.
CommandEnds == <>(session.pc = "done")
=============================================================================
