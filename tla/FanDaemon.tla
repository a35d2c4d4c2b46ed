----------------------------- MODULE FanDaemon -----------------------------
(***************************************************************************)
(* ugreenctl-fand (src/core/fan_daemon.c): the loop that samples the       *)
(* sensors, evaluates the curve, holds back lower PWM values, runs one     *)
(* `ugreenctl fan set` child per target that must change, and publishes a  *)
(* state file; with signals, kills and restarts of the daemon, children    *)
(* that outlive it, operators who set fans by hand, failing writes, and a  *)
(* wall clock that may be stepped.                                         *)
(*                                                                         *)
(* Times are ages in seconds: the code only ever compares now - since with *)
(* the delay.                                                              *)
(***************************************************************************)
EXTENDS ThermalCurve, FanChip, FiniteSets

CONSTANTS
    Config,         \* the loaded and validated configuration
    Route,          \* the model's targets: a sequence of [name, channel]
    Protection,     \* may hold TRUE: the model requires force, the file does not allow it
    OnceOptions,    \* may hold TRUE: the daemon may be started with --once
    Snapshots,      \* what the sensors may read
    CliPwm,         \* PWM values operators set by hand
    MaxClockStep,   \* largest wall clock step, in seconds (0: monotonic)
    MaxOrphans      \* children that may outlive a killed daemon

Index == 1..Len(Route)
OutputsOf(i) == {Outputs[Route[i].name][j] : j \in 1..Len(Outputs[Route[i].name])}
Delay == Config.downshift_delay_seconds

ASSUME ConfigAssumption == Config \in ConfigType /\ validate_config(Config)
ASSUME RouteAssumption ==
    /\ Route \in Seq([name : Targets, channel : {"cpu", "system"}]) /\ Len(Route) >= 1
    /\ \A i, j \in 1..Len(Route) : Route[i].name = Route[j].name => i = j
ASSUME SensorsAssumption ==
    /\ Snapshots \subseteq SnapshotType
    /\ CliPwm \subseteq MinPwm..MaxPwm
ASSUME BoundsAssumption ==
    /\ MaxClockStep \in Nat /\ MaxOrphans \in Nat
    /\ Protection \subseteq BOOLEAN /\ OnceOptions \subseteq BOOLEAN

VARIABLES
    \* chip (from FanChip)
    protected,  \* route->requires_force && !allow_unvalidated_writes
    pc,         \* where the daemon is
    once,       \* --once was given
    idx,        \* the target the loop is at
    running,    \* daemon_running
    sensors,    \* what the machine's sensors read now
    plan,       \* the plan of the last cycle (last_plan)
    evaluated,  \* temperature_result = 0
    failed,     \* write_result # 0
    request,    \* the PWM the child was started with
    hold,       \* target_states
    waited,     \* seconds slept in this interval
    status,     \* status line of the state file
    orphans,    \* children of a killed daemon, still to act
    disturbed,  \* history: targets an operator or an orphan wrote since they were set
    tried,      \* history: PWMs of failed children that wrote since they were set
    steady,     \* history: real seconds each target's desired PWM has not moved
    skipped     \* history: targets whose pending lower PWM a failed cycle did not look at

daemon == <<protected, pc, once, idx, running, plan, evaluated, failed, request, hold,
            waited, status>>
history == <<disturbed, tried, steady, skipped>>
vars == <<chip, daemon, sensors, orphans, history>>

PCs == {"off", "sample", "target", "child", "publish", "sleep", "stop"}
Statuses == {"none", "running", "failsafe", "error", "stopped"}
\* Ages stop counting once no comparison can tell them apart.
AgeRange == (0 - MaxClockStep)..(Delay + MaxClockStep)
Pwm == 0..MaxPwm
HoldState == [applied : Pwm, pending : Pwm, age : AgeRange, known : BOOLEAN]
Fresh == [applied |-> 0, pending |-> 0, age |-> 0, known |-> FALSE]

TypeOK ==
    /\ chip \in [Channel -> OutputState]
    /\ protected \in BOOLEAN /\ once \in BOOLEAN
    /\ pc \in PCs /\ idx \in Index /\ running \in BOOLEAN
    /\ sensors \in Snapshots
    /\ plan \in [cpu : MinPwm..MaxPwm, system : MinPwm..MaxPwm]
    /\ evaluated \in BOOLEAN /\ failed \in BOOLEAN
    /\ request \in MinPwm..MaxPwm
    /\ hold \in [Index -> HoldState]
    /\ waited \in 0..Config.interval_seconds
    /\ status \in Statuses
    /\ orphans \subseteq [target : Targets, pwm : MinPwm..MaxPwm]
    /\ disturbed \subseteq Index
    /\ tried \in [Index -> SUBSET (MinPwm..MaxPwm)]
    /\ steady \in [Index -> 0..Delay]
    /\ skipped \subseteq Index

desired_for_target(i, p) == IF Route[i].channel = "cpu" THEN p.cpu ELSE p.system

LowestPlan == [cpu |-> Config.minimum_pwm, system |-> Config.minimum_pwm]

Init ==
    /\ ChipInit
    /\ protected \in Protection
    /\ pc = "off" /\ once = FALSE /\ idx = 1 /\ running = FALSE
    /\ sensors \in Snapshots
    /\ plan = LowestPlan /\ evaluated = FALSE /\ failed = FALSE /\ request = MinPwm
    /\ hold = [i \in Index |-> Fresh]
    /\ waited = 0 /\ status = "none" /\ orphans = {}
    /\ disturbed = {} /\ tried = [i \in Index |-> {}]
    /\ steady = [i \in Index |-> 0] /\ skipped = {}

-----------------------------------------------------------------------------
(* The daemon's own steps. *)

\* main() up to the loop: configuration, DMI route and profile are accepted and
\* the daemon lock is free, so no other daemon is past this point.
Start ==
    /\ pc = "off"
    /\ pc' = "sample" /\ running' = TRUE /\ once' \in OnceOptions
    /\ UNCHANGED <<chip, protected, idx, plan, evaluated, failed, request, hold, waited,
                   status, sensors, orphans, history>>

\* The process is gone, and its memory and its lock with it.
Gone ==
    /\ pc' = "off" /\ once' = FALSE /\ idx' = 1 /\ running' = FALSE
    /\ plan' = LowestPlan /\ evaluated' = FALSE /\ failed' = FALSE /\ request' = MinPwm
    /\ hold' = [i \in Index |-> Fresh] /\ waited' = 0
    /\ disturbed' = {} /\ tried' = [i \in Index |-> {}]
    /\ steady' = [i \in Index |-> 0] /\ skipped' = {}

\* One reading of all sensors and the plan it gives; the failsafe plan when the
\* reading or the evaluation fails.
Sample ==
    /\ pc = "sample" /\ running
    /\ plan' = evaluate_plan(Config, sensors)
    /\ evaluated' = Evaluable(Config, sensors)
    /\ steady' = [i \in Index |->
                    IF desired_for_target(i, plan') = desired_for_target(i, plan)
                    THEN steady[i] ELSE 0]
    /\ failed' = FALSE /\ idx' = 1
    /\ pc' = "target"
    /\ UNCHANGED <<chip, protected, once, running, request, hold, waited, status, sensors, orphans,
                   disturbed, tried, skipped>>

\* (unsigned long)(now - since): an age below zero becomes a huge number.  The
\* span stands for 2^64; any number above the longest delay and step will do.
UnsignedSpan == 1000000
Elapsed(age) == IF age < 0 THEN UnsignedSpan + age ELSE age

\* Mutant: a pending lower PWM keeps its start when it is replaced by another.
Held_keeps_since(h, desired) ==
    IF ~h.known \/ desired >= h.applied THEN [h EXCEPT !.pending = 0, !.age = 0]
    ELSE IF h.pending = 0 THEN [h EXCEPT !.pending = desired, !.age = 0]
    ELSE [h EXCEPT !.pending = desired]

\* Mutant: every cycle restarts the wait for a lower PWM.
Held_restarts(h, desired) ==
    IF ~h.known \/ desired >= h.applied THEN [h EXCEPT !.pending = 0, !.age = 0]
    ELSE [h EXCEPT !.pending = desired, !.age = 0]

\* The bookkeeping of hold_lower_pwm, then the PWM it returns.
Held(h, desired) ==
    IF ~h.known \/ desired >= h.applied THEN [h EXCEPT !.pending = 0, !.age = 0]
    ELSE IF h.pending # desired THEN [h EXCEPT !.pending = desired, !.age = 0]
    ELSE h

\* Mutant: the pending PWM is returned, which is 0 when nothing is pending.
hold_lower_pwm_pending(h, desired) ==
    IF h.known /\ desired < h.applied /\ Elapsed(Held(h, desired).age) < Delay
    THEN h.applied ELSE Held(h, desired).pending

\* Mutant: a higher PWM is held back like a lower one.
hold_lower_pwm_both(h, desired) ==
    IF h.known /\ desired # h.applied /\ Elapsed(Held(h, desired).age) < Delay
    THEN h.applied ELSE desired

hold_lower_pwm(h, desired) ==
    IF h.known /\ desired < h.applied /\ Elapsed(Held(h, desired).age) < Delay
    THEN h.applied ELSE desired

\* The loop goes on with the next target, or to the state file.
NextTarget ==
    /\ pc' = IF idx = Len(Route) THEN "publish" ELSE "target"
    /\ idx' = IF idx = Len(Route) THEN idx ELSE idx + 1

\* A cycle that fails at target idx does not look at the later ones.
Abandon == failed' = TRUE /\ pc' = "publish" /\ UNCHANGED idx
Later == {j \in Index : j > idx}

\* The head of the loop body for one target: hold, compare, then nothing to do,
\* apply_pwm refuses a protected model, or the child is started.
Target ==
    /\ pc = "target"
    /\ LET h == hold[idx]
           desired == desired_for_target(idx, plan)
           pwm == hold_lower_pwm(h, desired)
           stale == IF Held(h, desired) = h /\ h.pending # 0 THEN skipped ELSE skipped \ {idx}
       IN  /\ hold' = [hold EXCEPT ![idx] = Held(h, desired)]
           /\ \/ /\ h.known /\ pwm = h.applied
                 /\ NextTarget
                 /\ skipped' = stale
                 /\ UNCHANGED <<failed, request>>
              \/ /\ ~h.known \/ pwm # h.applied
                 /\ protected
                 /\ Abandon
                 /\ skipped' = stale \cup Later
                 /\ UNCHANGED request
              \/ /\ ~h.known \/ pwm # h.applied
                 /\ ~protected
                 /\ pc' = "child" /\ request' = pwm
                 /\ skipped' = stale
                 /\ UNCHANGED <<idx, failed>>
    /\ UNCHANGED <<chip, protected, once, running, plan, evaluated, waited, status,
                   sensors, orphans, disturbed, tried, steady>>

\* waitpid returns exit status 0.
ChildSucceeds ==
    /\ pc = "child"
    /\ FanSet(Route[idx].name, request, Complete(Route[idx].name))
    /\ hold' = [hold EXCEPT ![idx].applied = request, ![idx].known = TRUE]
    /\ disturbed' = disturbed \ {idx} /\ tried' = [tried EXCEPT ![idx] = {}]
    /\ NextTarget
    /\ UNCHANGED <<protected, once, running, plan, evaluated, failed, request, waited,
                   status, sensors, orphans, steady, skipped>>

\* Mutant: the PWM is recorded as applied before the child's result is known.
ChildFails_records ==
    /\ pc = "child"
    /\ \E p \in Progress(Route[idx].name) :
          /\ FanSet(Route[idx].name, request, p)
          /\ tried' = [tried EXCEPT ![idx] = IF p.duties = 0 THEN @ ELSE @ \cup {request}]
    /\ hold' = [hold EXCEPT ![idx].applied = request, ![idx].known = TRUE]
    /\ Abandon
    /\ skipped' = skipped \cup Later
    /\ UNCHANGED <<protected, once, running, plan, evaluated, request, waited, status, sensors,
                   orphans, disturbed, steady>>

\* fork fails, the child reports an error, or a signal kills it: whatever it
\* wrote by then stays, and target_states keeps the PWM applied before.
ChildFails ==
    /\ pc = "child"
    /\ \E p \in Progress(Route[idx].name) :
          /\ FanSet(Route[idx].name, request, p)
          /\ tried' = [tried EXCEPT ![idx] = IF p.duties = 0 THEN @ ELSE @ \cup {request}]
    /\ Abandon
    /\ skipped' = skipped \cup Later
    /\ UNCHANGED <<protected, once, running, plan, evaluated, request, hold, waited, status,
                   sensors, orphans, disturbed, steady>>

\* write_state and the end of the cycle.  The file is replaced whole or, when
\* it cannot be written, silently left as it was.
Publish ==
    /\ pc = "publish"
    /\ status' \in {status, IF failed THEN "error"
                            ELSE IF evaluated THEN "running" ELSE "failsafe"}
    /\ \/ /\ once
          /\ Gone
       \/ /\ ~once
          /\ pc' = "sleep" /\ waited' = 0
          /\ UNCHANGED <<once, idx, running, plan, evaluated, failed, request, hold, history>>
    /\ UNCHANGED <<chip, protected, sensors, orphans>>

\* The interval is over, or a signal ended the sleep early.
Wake ==
    /\ pc = "sleep" /\ (waited = Config.interval_seconds \/ ~running)
    /\ pc' = "sample"
    /\ UNCHANGED <<chip, protected, once, idx, running, plan, evaluated, failed, request,
                   hold, waited, status, sensors, orphans, history>>

\* The loop condition is false: the last state file, then the lock is closed.
\* The fans stay as they are.
Stop ==
    /\ pc = "sample" /\ ~running
    /\ Gone
    /\ status' \in {status, "stopped"}
    /\ UNCHANGED <<chip, protected, sensors, orphans>>

-----------------------------------------------------------------------------
(* The world around it. *)

\* SIGTERM or SIGINT.
Signal ==
    /\ pc # "off" /\ running
    /\ running' = FALSE
    /\ UNCHANGED <<chip, protected, once, pc, idx, plan, evaluated, failed, request, hold,
                   waited, status, sensors, orphans, history>>

\* SIGKILL or a crash: the kernel drops the lock, the state file keeps its last
\* content, and a child that was started goes on by itself.
Crash ==
    /\ pc # "off"
    /\ Gone
    /\ \/ pc # "child" /\ UNCHANGED orphans
       \/ /\ pc = "child"
          /\ orphans' \in {orphans, orphans \cup {[target |-> Route[idx].name, pwm |-> request]}}
          /\ Cardinality(orphans') <= MaxOrphans
    /\ UNCHANGED <<chip, protected, status, sensors>>

TargetsNamed(t) == {i \in Index : Route[i].name = t}

OrphanWrites ==
    \E o \in orphans : \E p \in Progress(o.target) :
        /\ FanSet(o.target, o.pwm, p)
        /\ orphans' = orphans \ {o}
        /\ disturbed' = disturbed \cup TargetsNamed(o.target)
        /\ UNCHANGED <<daemon, sensors, tried, steady, skipped>>

\* ugreenctl --apply fan set by an operator.
CliSet ==
    \E t \in Targets, pwm \in CliPwm : \E p \in Progress(t) :
        /\ FanSet(t, pwm, p)
        /\ disturbed' = disturbed \cup TargetsNamed(t)
        /\ UNCHANGED <<daemon, sensors, orphans, tried, steady, skipped>>

SensorsChange ==
    /\ sensors' \in Snapshots \ {sensors}
    /\ UNCHANGED <<chip, daemon, orphans, history>>

AtMost(n, cap) == IF n > cap THEN cap ELSE n
Shift(h, seconds) ==
    IF h.pending = 0 THEN h
    ELSE [h EXCEPT !.age = AtMost(h.age + seconds, Delay + MaxClockStep)]

\* A second passes, whatever the daemon is doing.
Second ==
    /\ pc # "off"
    /\ hold' = [i \in Index |-> Shift(hold[i], 1)]
    /\ steady' = [i \in Index |-> AtMost(steady[i] + 1, Delay)]
    /\ waited' = IF pc = "sleep" THEN AtMost(waited + 1, Config.interval_seconds) ELSE waited
    /\ UNCHANGED <<chip, protected, once, pc, idx, running, plan, evaluated, failed,
                   request, status, sensors, orphans, disturbed, tried, skipped>>

\* The wall clock that time(NULL) reads is set, forwards or backwards.  The
\* model keeps ages within the bound.
ClockStep ==
    /\ pc # "off" /\ MaxClockStep > 0
    /\ \E step \in {0 - MaxClockStep, MaxClockStep} :
          /\ \A i \in Index : hold[i].pending # 0 => hold[i].age + step >= 0 - MaxClockStep
          /\ hold' = [i \in Index |-> Shift(hold[i], step)]
    /\ UNCHANGED <<chip, protected, once, pc, idx, running, plan, evaluated, failed,
                   request, waited, status, sensors, orphans, history>>

Daemon == Sample \/ Target \/ ChildSucceeds \/ ChildFails \/ Publish \/ Wake \/ Stop
Next == Start \/ Daemon \/ Signal \/ Crash \/ OrphanWrites \/ CliSet \/ SensorsChange
        \/ Second \/ ClockStep

Spec == Init /\ [][Next]_vars

\* The daemon is never blocked for good, a second passes, and a child ends one
\* way or the other; nothing obliges anybody to start or stop the daemon.
Fairness ==
    /\ WF_vars(Sample) /\ WF_vars(Target) /\ WF_vars(ChildSucceeds \/ ChildFails)
    /\ WF_vars(Publish) /\ WF_vars(Wake) /\ WF_vars(Stop) /\ WF_vars(Second)
FairSpec == Spec /\ Fairness

-----------------------------------------------------------------------------
(* What the daemon promises. *)

\* target_states is the hardware: every output of a target the daemon has set is
\* in manual mode, at exactly applied_pwm or, when children failed since, at the
\* PWM of one of those; kills and restarts of the daemon and steps of the clock
\* included. A target that an operator or an orphan wrote since is excepted until
\* the daemon sets it again: it never reads the chip.
AppliedIsHardware ==
    \A i \in Index \ disturbed : hold[i].known =>
        \A c \in OutputsOf(i) :
            chip[c].manual /\ chip[c].duty \in {hold[i].applied} \cup tried[i]

\* Targets nobody but a successful child has written since they were set.
Untouched == {i \in Index \ disturbed : tried[i] = {}}

\* A cycle that reports success has left no untouched target below the PWM its
\* plan asks for, whatever the hold-down timers, retries and earlier failures were.
NeverBelowPlan ==
    (pc = "publish" /\ ~failed) => \A i \in Untouched :
        \A c \in OutputsOf(i) :
            chip[c].manual /\ chip[c].duty >= desired_for_target(i, plan)

\* A child that lowers a target is about to start.
LoweringStarts ==
    pc = "target" /\ pc' = "child" /\ hold[idx].known /\ request' < hold[idx].applied

\* As long as the clock is not stepped, a target is lowered only after its
\* desired PWM stood still for the configured delay, unless an earlier failed
\* write kept the loop from looking at it.
NoEarlyDownshift == [][LoweringStarts => steady[idx] >= Delay \/ idx \in skipped']_vars

\* docs/FAN_CURVE.md:92-93 without any exception: "A lower PWM must remain the
\* desired value for `downshift_delay_seconds` before it is written".
DelayBeforeDownshift == [][LoweringStarts => steady[idx] >= Delay]_vars

\* docs/FAN_CURVE.md:91-92: on missing CPU temperature "the daemon writes the
\* configured failsafe PWM": when a cycle reports the failsafe, the fans have it.
FailsafeReachesFans ==
    (pc = "publish" /\ ~failed /\ ~evaluated) =>
        \A i \in Index : \A c \in OutputsOf(i) : chip[c].duty >= Config.failsafe_pwm

\* Nothing but the daemon's own successful cycles and the passing of time.
Undisturbed == Sample \/ Target \/ ChildSucceeds \/ Publish \/ Wake \/ Second

\* The fans settle: if from some time on the sensors stand still and nothing
\* fails or interferes, then the daemon runs at exactly the PWM of the curve,
\* downwards too, in spite of the hold-down timers being restarted, and every
\* output of a target has that duty in manual mode. A target that a failed
\* child, an orphan or an operator changed since the daemon's last successful
\* write is excepted for as long as the daemon does not write it again: it
\* compares the desired PWM with applied_pwm only, so that such a chip stays
\* wrong until the plan changes. (On a model whose writes need --force a daemon
\* without it can only report errors.)
Settles ==
    <>[][Undisturbed]_vars => <>[](
        pc # "off" /\ ~protected =>
            /\ plan = evaluate_plan(Config, sensors)
            /\ \A i \in Index :
                LET desired == desired_for_target(i, plan) IN
                /\ hold[i].known /\ hold[i].applied = desired
                /\ i \in Untouched =>
                    \A c \in OutputsOf(i) : chip[c] = [manual |-> TRUE, duty |-> desired])
=============================================================================
