---------------------------- MODULE LedSession ----------------------------
(***************************************************************************)
(* One LED command: hardware_cli.c's led_execute over a session on the I2C *)
(* MCU (src/led/led.c) or on the GPIO LED class driver                     *)
(* (src/led/led_sysfs.c), raced by another owner of the controller, a      *)
(* signal and failing I/O.                                                 *)
(*                                                                         *)
(* A lamp is [color, bri, mode, timing]. Colours and timings are "orig" or *)
(* the ones a command asks for. "blink" stands for blink and breath.       *)
(***************************************************************************)
EXTENDS Naturals, Sequences, SequencesExt

CONSTANTS
    Lights,         \* the bay LEDs
    MaxTicks        \* bound: flashes of an identify on a LED class driver

Fields == {"color", "bri", "mode", "timing"}
Lamp == [color : {"orig", "eff", "user"}, bri : 0..2, mode : {"off", "on", "blink"},
         timing : {"orig", "eff", "user", "default", "mixed", "none"}]
ASSUME LedAssumption == MaxTicks \in Nat \ {0}

VARIABLES
    lamps,      \* what the lights show
    disturbed,  \* accesses may fail and another owner may come: chosen once
    owner,      \* another program owns the controller
    cancelled,  \* identify_cancelled
    session,    \* the command: where it is and what it holds
    first,      \* history: the lamps when it began
    touched     \* history: lights another owner wrote

ledVars == <<lamps, disturbed, owner, cancelled, session, first, touched>>

Patch == [fields : SUBSET Fields, value : Lamp]
NoPatch == [fields |-> {}, value |-> [color |-> "orig", bri |-> 0, mode |-> "off", timing |-> "orig"]]
Idle(backend) ==
    [pc |-> "idle", backend |-> backend, kind |-> "none", targets |-> <<>>, ops |-> <<>>, at |-> 1,
     patch |-> NoPatch, why |-> "none", cmds |-> <<>>, sent |-> {}, saved |-> NoPatch.value,
     tick |-> 0, effect |-> "ok", done |-> 0, result |-> "none"]

LedTypeOK ==
    /\ lamps \in [Lights -> Lamp] /\ {disturbed, owner, cancelled} \subseteq BOOLEAN
    /\ session.pc \in {"idle", "open", "read", "save", "begin", "write", "check", "wait", "done"}
    /\ session.why \in {"none", "set", "effect", "restore", "restore_mode"}
    /\ session.result \in {"none", "ok", "interrupted", "refused", "failed", "restore_failed"}
    /\ session.at \in 1..Len(session.targets) + Len(session.ops) + 1 /\ Len(session.cmds) <= 6
    /\ session.tick \in 0..MaxTicks - 1 /\ session.done \in 0..Len(session.ops)
    /\ touched \subseteq Lights

LedInit(backend, lamp, may_fail) ==
    /\ lamps = [l \in Lights |-> lamp] /\ first = lamps /\ touched = {}
    /\ disturbed = may_fail /\ owner \in {FALSE, may_fail} /\ cancelled = FALSE
    /\ session = Idle(backend)

-----------------------------------------------------------------------------
(* The lights' controller, as the commands use it. *)

MaxBri(backend) == IF backend = "mcu" THEN 2 ELSE 1

\* One command of the MCU, or one attribute of the LED class. Removing a trigger, or
\* brightness 0, leaves a light steady; a trigger starts with its own timing.
Steady(l, bri) == [l EXCEPT !.bri = bri, !.mode = IF bri = 0 THEN "off" ELSE "on", !.timing = "none"]
Perform(backend, l, c) ==
    CASE c.set = "color" -> [l EXCEPT !.color = c.to]
      [] c.set = "bri" /\ backend = "mcu" -> [l EXCEPT !.bri = c.to]
      [] c.set = "mode" -> [l EXCEPT !.mode = c.to]
      [] c.set = "blink" -> [l EXCEPT !.mode = "blink", !.timing = c.to]
      [] c.set = "bri" /\ backend = "sysfs" ->
            IF c.to = 0 \/ l.mode # "blink" THEN Steady(l, c.to) ELSE [l EXCEPT !.bri = c.to]
      [] c.set = "trigger" /\ c.to = "none" -> IF l.mode = "blink" THEN Steady(l, 0) ELSE l
      [] c.set = "trigger" /\ c.to = "timer" ->
            [l EXCEPT !.mode = "blink", !.timing = "default", !.bri = IF @ = 0 THEN MaxBri(backend) ELSE @]
      [] c.set = "delay_on" -> IF l.mode = "blink" THEN [l EXCEPT !.timing = "mixed"] ELSE l
      [] c.set = "delay_off" -> IF l.mode = "blink" THEN [l EXCEPT !.timing = c.to] ELSE l

\* What a LED of the class can show: brightness 0 is off, and only blinking has a timing.
Showable(backend, l) ==
    backend = "sysfs" => ((l.mode = "off") = (l.bri = 0)) /\ (l.mode # "blink" => l.timing = "none")

Command(set, to) == <<[set |-> set, to |-> to]>>
When(condition, cmds) == IF condition THEN cmds ELSE <<>>

\* validate_target_patch: blinking comes with its timing, and only blinking; a GPIO light
\* has no effects, and cannot be on at brightness 0.
Valid(backend, p) ==
    /\ "timing" \in p.fields <=> "mode" \in p.fields /\ p.value.mode = "blink"
    /\ backend = "sysfs" /\ "mode" \in p.fields =>
        /\ p.value.mode # "blink"
        /\ "bri" \in p.fields => (p.value.mode = "on") = (p.value.bri # 0)

\* ugreenctl_led_apply: colour, brightness, then mode with its timing.
McuCommands(p) ==
    When("color" \in p.fields, Command("color", p.value.color))
    \o When("bri" \in p.fields, Command("bri", p.value.bri))
    \o When("mode" \in p.fields,
            IF p.value.mode = "blink" THEN Command("blink", p.value.timing)
                                      ELSE Command("mode", p.value.mode))

\* ugreenctl_led_sysfs_apply: a steady mode ends with a brightness of its own.
SysfsCommands(p, before) ==
    When("color" \in p.fields, Command("color", p.value.color))
    \o When("bri" \in p.fields, Command("bri", p.value.bri))
    \o When("mode" \in p.fields,
            Command("trigger", "none")
            \o Command("bri", CASE p.value.mode = "off" -> 0
                                [] "bri" \in p.fields -> p.value.bri
                                [] OTHER -> IF before.bri = 0 THEN MaxBri("sysfs") ELSE before.bri))
Commands(p, before) == IF session.backend = "mcu" THEN McuCommands(p) ELSE SysfsCommands(p, before)

\* The fields a command's own readback is compared in.
Compared(c) == IF c.set = "blink" THEN {"mode", "timing"} ELSE {c.set}

\* What an identify shows: the MCU blinks by itself, a GPIO light is switched on and
\* off in turn.
EffectPatch(tick) ==
    LET top == MaxBri(session.backend) IN
    IF session.backend = "mcu"
    THEN [fields |-> Fields, value |-> [color |-> "eff", bri |-> top, mode |-> "blink", timing |-> "eff"]]
    ELSE IF tick % 2 = 0
         THEN [fields |-> {"color", "bri", "mode"},
               value |-> [color |-> "eff", bri |-> top, mode |-> "on", timing |-> "none"]]
         ELSE [fields |-> {"mode"},
               value |-> [color |-> "eff", bri |-> 0, mode |-> "off", timing |-> "none"]]

\* Restoring on the MCU: a steady light blinks once more with its own timing, which
\* stays visible, before its mode goes back; every field is compared at the end.
RestorePatch_steady == [fields |-> Fields, value |-> session.saved]    \* mutant: straight to the mode
RestorePatch == [fields |-> Fields, value |-> [session.saved EXCEPT !.mode = "blink"]]
ModePatch == [fields |-> {"mode"}, value |-> session.saved]

\* Restoring on a LED class driver.
SysfsRestore ==
    Command("trigger", "none") \o Command("color", session.saved.color) \o Command("bri", session.saved.bri)
    \o Command("trigger", IF session.saved.mode = "blink" THEN "timer" ELSE "none")
    \o When(session.saved.mode = "blink",
            Command("delay_on", session.saved.timing) \o Command("delay_off", session.saved.timing))

-----------------------------------------------------------------------------
(* Where a command goes next. *)

Target == session.ops[session.at].light
Authorized == ~owner    \* identity, owners and chip, as authorize_write checks them

Quit(result) == session' = [session EXCEPT !.pc = "done", !.result = result]
Apply(p, why) == session' = [session EXCEPT !.pc = "begin", !.patch = p, !.why = why]
RestoreNow(effect) ==
    IF session.backend = "mcu"
    THEN session' = [session EXCEPT !.pc = "begin", !.patch = RestorePatch, !.why = "restore", !.effect = effect]
    ELSE session' = [session EXCEPT !.pc = "write", !.patch = [fields |-> Fields, value |-> session.saved],
                                    !.why = "restore", !.cmds = SysfsRestore, !.sent = {}, !.effect = effect]

\* A failed step: `set` ends without going back, an effect is taken back, a failed
\* restoration is reported.
Failed_retries ==    \* mutant: the step is tried again until it works
    session' = [session EXCEPT !.pc = "begin"]
Failed ==
    CASE session.why = "set" -> Quit("failed")
      [] session.why = "effect" -> RestoreNow("failed")
      [] session.why \in {"restore", "restore_mode"} -> Quit("restore_failed")

\* The whole state was restored: the outcome of the effect, or the signal.
Outcome == IF session.effect # "ok" THEN "failed" ELSE IF cancelled THEN "interrupted" ELSE "ok"
Restored_unchecked(lamp) == Quit(Outcome) /\ lamp \in Lamp    \* mutant: no final comparison
Restored(lamp) == IF lamp = session.saved THEN Quit(Outcome) ELSE Quit("restore_failed")

\* The next operation of `set`, or its end.
NextOp ==
    LET done == session.done + (IF session.patch.fields = {} THEN 0 ELSE 1) IN
    session' = IF session.at = Len(session.ops)
               THEN [session EXCEPT !.pc = "done", !.result = "ok", !.done = done]
               ELSE [session EXCEPT !.pc = "begin", !.at = @ + 1, !.done = done,
                                    !.patch = session.ops[session.at + 1].patch]

\* An apply succeeded.
Applied(lamp) ==
    CASE session.why = "set" -> NextOp
      [] session.why = "effect" -> session' = [session EXCEPT !.pc = "wait"]
      [] session.why = "restore" /\ session.backend = "mcu" /\ session.saved.mode # "blink" ->
            Apply(ModePatch, "restore_mode")
      [] OTHER -> Restored(lamp)

-----------------------------------------------------------------------------
\* A session is opened for reading or writing the targets.
LedStart(kind, targets, ops) ==
    /\ session.pc = "idle"
    /\ session' = [session EXCEPT !.pc = "open", !.kind = kind, !.targets = targets, !.ops = ops]
    /\ first' = lamps
    /\ UNCHANGED <<lamps, disturbed, owner, cancelled, touched>>

LedRest == UNCHANGED <<lamps, disturbed, owner, cancelled, first, touched>>

\* ugreenctl_led_open: owners, the lock (refused when held), bus and probe.
LedOpen ==
    /\ session.pc = "open"
    /\ \/ Authorized /\ session' = [session EXCEPT !.pc = "read"]
       \/ (~Authorized \/ disturbed) /\ Quit("refused")
    /\ LedRest

\* Every target is read before the first write; then identify saves, or `set` begins.
LedRead ==
    /\ session.pc = "read"
    /\ \/ (~Authorized \/ disturbed) /\ Quit("refused")
       \/ /\ Authorized
          /\ session' =
                IF session.at < Len(session.targets) THEN [session EXCEPT !.at = @ + 1]
                ELSE IF session.kind = "identify" THEN [session EXCEPT !.pc = "save", !.at = 1]
                ELSE [session EXCEPT !.pc = "begin", !.at = 1, !.why = "set", !.patch = session.ops[1].patch]
    /\ LedRest

\* ugreenctl_led_identify reads what it will have to restore.
LedSave ==
    /\ session.pc = "save"
    /\ \/ (~Authorized \/ disturbed) /\ Quit("refused")
       \/ /\ Authorized
          /\ session' = [session EXCEPT !.pc = "begin", !.saved = lamps[Target],
                                        !.patch = EffectPatch(0), !.why = "effect"]
    /\ LedRest

\* An apply authorizes and reads the target before its first command; `status` only reads.
LedBegin ==
    /\ session.pc = "begin"
    /\ \/ (~Authorized \/ disturbed) /\ Failed
       \/ Authorized /\ session.patch.fields = {} /\ NextOp
       \/ /\ Authorized /\ session.patch.fields # {}
          /\ session' = [session EXCEPT !.pc = "write", !.sent = {},
                                        !.cmds = Commands(session.patch, lamps[Target])]
    /\ LedRest

\* One authorized command. An error may come after the write took effect.
Written == [lamps EXCEPT ![Target] = Perform(session.backend, @, Head(session.cmds))]
LedWrite ==
    /\ session.pc = "write" /\ session.cmds # <<>>
    /\ \/ /\ Authorized /\ lamps' = Written
          /\ session' = IF session.backend = "mcu"
                        THEN [session EXCEPT !.pc = "check", !.cmds = Tail(@), !.sent = Compared(Head(session.cmds))]
                        ELSE [session EXCEPT !.cmds = Tail(@)]
       \/ ~Authorized /\ Failed /\ UNCHANGED lamps
       \/ Authorized /\ disturbed /\ lamps' \in {lamps, Written} /\ Failed
    /\ UNCHANGED <<disturbed, owner, cancelled, first, touched>>

\* The MCU's readback: this command's fields, and after the last one all that were asked.
LedCheck ==
    /\ session.pc = "check"
    /\ LET lamp == lamps[Target]
           fields == session.sent \cup (IF session.cmds = <<>> THEN session.patch.fields ELSE {})
       IN  IF ~Authorized \/ (\E f \in fields : lamp[f] # session.patch.value[f]) THEN Failed
           ELSE \/ disturbed /\ Failed
                \/ IF session.cmds # <<>> THEN session' = [session EXCEPT !.pc = "write"] ELSE Applied(lamp)
    /\ LedRest

\* The LED class readback, once all attributes are written. A steady light has no timing.
LedSysfsCheck ==
    /\ session.pc = "write" /\ session.cmds = <<>>
    /\ LET lamp == lamps[Target] IN
       IF \E f \in session.patch.fields : lamp[f] # session.patch.value[f] THEN Failed
       ELSE \/ disturbed /\ Failed
            \/ Applied(lamp)
    /\ LedRest

\* The wait between effects: the next flash, the end of the time or a signal.
WaitOver_late ==    \* mutant: one flash too many
    cancelled \/ session.backend = "mcu" \/ session.tick = MaxTicks
WaitOver == cancelled \/ session.backend = "mcu" \/ session.tick + 1 = MaxTicks
LedWait ==
    /\ session.pc = "wait"
    /\ IF WaitOver THEN RestoreNow("ok")
       ELSE session' = [session EXCEPT !.pc = "begin", !.tick = @ + 1,
                                       !.patch = EffectPatch(session.tick + 1)]
    /\ LedRest

-----------------------------------------------------------------------------
(* Around the command. *)

\* identify_run's handler is installed for the whole identify.
Identifying == session.kind = "identify" /\ session.pc \notin {"idle", "open", "read", "done"}
LedSignal ==
    /\ Identifying /\ ~cancelled /\ cancelled' = TRUE
    /\ UNCHANGED <<lamps, disturbed, owner, session, first, touched>>

Busy == session.pc \notin {"idle", "done"}
OwnerChanges ==
    /\ Busy /\ disturbed /\ owner' = ~owner
    /\ UNCHANGED <<lamps, disturbed, cancelled, session, first, touched>>

\* Bound: another owner writes each light of the command once.
OwnerWrites ==
    /\ Busy /\ owner
    /\ \E l \in ToSet(session.targets) \ touched :
        lamps' = [lamps EXCEPT ![l].color = "user"] /\ touched' = touched \cup {l}
    /\ UNCHANGED <<disturbed, owner, cancelled, session, first>>

LedStep ==
    LedOpen \/ LedRead \/ LedSave \/ LedBegin \/ LedWrite \/ LedCheck \/ LedSysfsCheck \/ LedWait
=============================================================================
