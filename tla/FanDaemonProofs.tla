-------------------------- MODULE FanDaemonProofs --------------------------
(***************************************************************************)
(* The daemon's invariants for every configuration, route, sensor set and  *)
(* number of outputs.                                                      *)
(***************************************************************************)
EXTENDS FanDaemon, ThermalCurveProofs

-----------------------------------------------------------------------------
(* The chip. *)

LEMMA ProgressFacts ==
    ASSUME NEW t \in Targets, NEW p \in Progress(t)
    PROVE  /\ p.modes \in 0..Len(Outputs[t]) /\ p.duties \in 0..Len(Outputs[t])
           /\ p.modes = 0 => p.duties = 0
<1>1. Len(Outputs[t]) \in Nat
  BY OutputsAssumption
<1> QED
  BY <1>1 DEF Progress

LEMMA CompleteIsProgress ==
    ASSUME NEW t \in Targets
    PROVE  Complete(t) \in Progress(t)
<1>1. Len(Outputs[t]) \in Nat
  BY OutputsAssumption
<1> QED
  BY <1>1 DEF Progress, Complete

\* What a transaction of any extent does to the outputs.
LEMMA DrivenType ==
    ASSUME NEW before \in [Channel -> OutputState], NEW t, NEW pwm \in 0..255,
           NEW modes, NEW duties
    PROVE  Driven(before, t, pwm, modes, duties) \in [Channel -> OutputState]
  BY DEF Driven, OutputState

LEMMA DrivenElsewhere ==
    ASSUME NEW before \in [Channel -> OutputState], NEW t \in Targets, NEW pwm \in 0..255,
           NEW p \in Progress(t), NEW c \in Channel,
           \A i \in 1..Len(Outputs[t]) : Outputs[t][i] # c
    PROVE  Driven(before, t, pwm, p.modes, p.duties)[c] = before[c]
<1>1. /\ \A i \in 1..p.modes : Outputs[t][i] # c
      /\ \A i \in 1..p.duties : Outputs[t][i] # c
  <2>1. Len(Outputs[t]) \in Nat
    BY OutputsAssumption
  <2> QED
    BY <2>1, ProgressFacts
<1>2. before[c] = [manual |-> before[c].manual, duty |-> before[c].duty]
      /\ before[c].manual \in BOOLEAN
  BY DEF OutputState
<1> QED
  BY <1>1, <1>2 DEF Driven

LEMMA DrivenNothing ==
    ASSUME NEW before \in [Channel -> OutputState], NEW t \in Targets, NEW pwm \in 0..255,
           NEW p \in Progress(t), p.modes = 0
    PROVE  Driven(before, t, pwm, p.modes, p.duties) = before
<1>1. p.duties = 0
  BY ProgressFacts
<1>2. \A c \in Channel : /\ before[c] = [manual |-> before[c].manual, duty |-> before[c].duty]
                         /\ before[c].manual \in BOOLEAN
  BY DEF OutputState
<1> QED
  BY <1>1, <1>2 DEF Driven

LEMMA FanSetComplete ==
    ASSUME NEW t \in Targets, NEW pwm, FanSet(t, pwm, Complete(t))
    PROVE  \A i \in 1..Len(Outputs[t]) : chip'[Outputs[t][i]] = [manual |-> TRUE, duty |-> pwm]
<1>1. chip' = Driven(chip, t, pwm, Len(Outputs[t]), Len(Outputs[t]))
  BY DEF FanSet, Complete
<1>2. \A i \in 1..Len(Outputs[t]) : Outputs[t][i] \in Channel
  BY DEF Channel
<1> QED
  BY <1>1, <1>2 DEF Driven

-----------------------------------------------------------------------------
(* Constants. *)

LEMMA RouteFacts ==
    /\ Index \subseteq Nat \ {0} /\ 1 \in Index
    /\ Len(Route) \in Index
    /\ \A i \in Index : /\ Route[i].name \in Targets
                        /\ OutputsOf(i) \subseteq Channel
                        /\ i # Len(Route) => i + 1 \in Index
<1>1. Len(Route) \in Nat /\ Len(Route) >= 1
  BY RouteAssumption
<1>2. \A i \in Index : Route[i] \in [name : Targets, channel : {"cpu", "system"}]
  <2> DEFINE Entry == [name : Targets, channel : {"cpu", "system"}]
  <2>1. Route \in Seq(Entry)
    BY RouteAssumption
  <2> HIDE DEF Entry
  <2>2. \A i \in 1..Len(Route) : Route[i] \in Entry
    BY <2>1
  <2> QED
    BY <2>2 DEF Entry, Index
<1>3. \A i \in Index : OutputsOf(i) \subseteq Channel
  BY <1>2 DEF OutputsOf, Channel
<1> QED
  BY <1>1, <1>2, <1>3 DEF Index

\* Different targets have no output in common.
LEMMA DisjointOutputs ==
    ASSUME NEW i \in Index, NEW t \in Targets, Route[i].name # t,
           NEW c \in OutputsOf(i), NEW j \in 1..Len(Outputs[t])
    PROVE  Outputs[t][j] # c
  BY RouteFacts, OutputsAssumption DEF OutputsOf

LEMMA ConstantFacts ==
    /\ Delay \in Nat /\ Delay <= 3600
    /\ MaxClockStep \in Nat
    /\ Config.interval_seconds \in Nat
    /\ MinPwm = 40 /\ MaxPwm = 255
    /\ LowestPlan \in [cpu : MinPwm..MaxPwm, system : MinPwm..MaxPwm]
    /\ \A s \in Snapshots :
           evaluate_plan(Config, s) \in [cpu : MinPwm..MaxPwm, system : MinPwm..MaxPwm]
<1>1. Config \in ConfigType /\ validate_config(Config)
  BY ConfigAssumption
<1>2. /\ Config.downshift_delay_seconds \in Nat /\ Config.interval_seconds \in Nat
      /\ Config.downshift_delay_seconds <= 3600
  BY <1>1 DEF ConfigType, validate_config
<1>3. Config.minimum_pwm \in 40..255
  BY <1>1, ConfigFacts DEF MinManualPwm, MaxPwm
<1>4. \A s \in Snapshots : evaluate_plan(Config, s) \in
          [cpu : Config.minimum_pwm..MaxPwm, system : Config.minimum_pwm..MaxPwm]
  BY <1>1, SensorsAssumption, PlanInRange
<1>5. \A s \in Snapshots :
           evaluate_plan(Config, s) \in [cpu : MinPwm..MaxPwm, system : MinPwm..MaxPwm]
  BY <1>3, <1>4 DEF MinPwm, MaxPwm
<1> QED
  BY <1>2, <1>3, <1>5, BoundsAssumption DEF Delay, MinPwm, MaxPwm, LowestPlan

LEMMA FreshType == Fresh \in HoldState
  BY ConstantFacts DEF Fresh, HoldState, AgeRange, Pwm

LEMMA DesiredType ==
    ASSUME NEW i \in Index, NEW p \in [cpu : MinPwm..MaxPwm, system : MinPwm..MaxPwm]
    PROVE  desired_for_target(i, p) \in MinPwm..MaxPwm
  BY DEF desired_for_target

LEMMA HeldFacts ==
    ASSUME NEW h \in HoldState, NEW desired \in MinPwm..MaxPwm
    PROVE  /\ Held(h, desired) \in HoldState
           /\ Held(h, desired).applied = h.applied /\ Held(h, desired).known = h.known
<1>1. h = [applied |-> h.applied, pending |-> h.pending, age |-> h.age, known |-> h.known]
      /\ h.applied \in Pwm /\ h.pending \in Pwm /\ h.age \in AgeRange /\ h.known \in BOOLEAN
  BY DEF HoldState
<1>2. desired \in Pwm /\ 0 \in Pwm /\ 0 \in AgeRange
  BY ConstantFacts DEF Pwm, AgeRange
<1> QED
  BY <1>1, <1>2 DEF Held, HoldState

\* Whatever the timers say, the target gets the desired PWM or keeps its own.
LEMMA HoldChoice ==
    ASSUME NEW h \in HoldState, NEW desired \in MinPwm..MaxPwm
    PROVE  /\ hold_lower_pwm(h, desired) \in {desired, h.applied}
           /\ hold_lower_pwm(h, desired) # desired => h.known /\ desired < h.applied
  BY DEF hold_lower_pwm

LEMMA ShiftType ==
    ASSUME NEW h \in HoldState, NEW seconds \in Int,
           h.pending # 0 => h.age + seconds >= 0 - MaxClockStep
    PROVE  /\ Shift(h, seconds) \in HoldState
           /\ Shift(h, seconds).applied = h.applied /\ Shift(h, seconds).known = h.known
<1>1. h = [applied |-> h.applied, pending |-> h.pending, age |-> h.age, known |-> h.known]
      /\ h.applied \in Pwm /\ h.pending \in Pwm /\ h.age \in AgeRange /\ h.known \in BOOLEAN
  BY DEF HoldState
<1>2. h.pending # 0 => AtMost(h.age + seconds, Delay + MaxClockStep) \in AgeRange
  BY <1>1, ConstantFacts DEF AtMost, AgeRange
<1> QED
  BY <1>1, <1>2 DEF Shift, HoldState

-----------------------------------------------------------------------------
(* Types. *)

LEMMA InitType == Init => TypeOK
<1> SUFFICES ASSUME Init PROVE TypeOK
  OBVIOUS
<1>1. chip \in [Channel -> OutputState]
  BY PwmAssumption DEF Init, ChipInit, OutputState
<1>2. hold \in [Index -> HoldState]
  BY FreshType DEF Init
<1>3. protected \in BOOLEAN /\ idx \in Index
  BY BoundsAssumption, RouteFacts DEF Init
<1>4. steady \in [Index -> 0..Delay] /\ waited \in 0..Config.interval_seconds
  BY ConstantFacts DEF Init
<1>5. request \in MinPwm..MaxPwm /\ plan \in [cpu : MinPwm..MaxPwm, system : MinPwm..MaxPwm]
  BY ConstantFacts DEF Init
<1> QED
  BY <1>1, <1>2, <1>3, <1>4, <1>5 DEF Init, TypeOK, PCs, Statuses

LEMMA FanSetType ==
    ASSUME chip \in [Channel -> OutputState], NEW t \in Targets, NEW pwm \in MinPwm..MaxPwm,
           NEW p \in Progress(t), FanSet(t, pwm, p)
    PROVE  chip' \in [Channel -> OutputState]
<1>1. pwm \in 0..255
  BY ConstantFacts
<1> QED
  BY <1>1, DrivenType DEF FanSet

LEMMA GoneType ==
    ASSUME TypeOK, Gone, UNCHANGED <<chip, protected, sensors>>,
           status' \in Statuses, orphans' \subseteq [target : Targets, pwm : MinPwm..MaxPwm]
    PROVE  TypeOK'
<1>1. hold' \in [Index -> HoldState]
  BY FreshType DEF Gone
<1>2. steady' \in [Index -> 0..Delay] /\ waited' \in 0..Config.interval_seconds
  BY ConstantFacts DEF Gone
<1>3. request' \in MinPwm..MaxPwm /\ plan' \in [cpu : MinPwm..MaxPwm, system : MinPwm..MaxPwm]
  BY ConstantFacts DEF Gone
<1> QED
  BY <1>1, <1>2, <1>3, RouteFacts DEF TypeOK, Gone, PCs

LEMMA TypeStep == TypeOK /\ [Next]_vars => TypeOK'
<1> SUFFICES ASSUME TypeOK, [Next]_vars PROVE TypeOK'
  OBVIOUS
<1>1. CASE Start
  BY <1>1, BoundsAssumption DEF Start, TypeOK, PCs, history
<1>2. CASE Sample
  <2>1. plan' \in [cpu : MinPwm..MaxPwm, system : MinPwm..MaxPwm]
    BY <1>2, ConstantFacts DEF Sample, TypeOK
  <2>2. evaluated' \in BOOLEAN
    BY <1>2 DEF Sample, Evaluable
  <2>3. steady' \in [Index -> 0..Delay]
    BY <1>2, ConstantFacts DEF Sample, TypeOK
  <2> QED
    BY <1>2, <2>1, <2>2, <2>3, RouteFacts DEF Sample, TypeOK, PCs
<1>3. CASE Target
  <2> DEFINE h == hold[idx]
             desired == desired_for_target(idx, plan)
  <2>1. h \in HoldState /\ desired \in MinPwm..MaxPwm /\ idx \in Index
    BY DesiredType DEF TypeOK
  <2>2. hold' = [hold EXCEPT ![idx] = Held(h, desired)]
    BY <1>3 DEF Target
  <2>3. hold' \in [Index -> HoldState]
    BY <2>1, <2>2, HeldFacts DEF TypeOK
  <2>4. /\ pc' \in PCs /\ idx' \in Index /\ failed' \in BOOLEAN
        /\ skipped' \subseteq Index /\ request' \in MinPwm..MaxPwm
    <3>1. CASE NextTarget /\ UNCHANGED <<failed, request>> /\ skipped' \subseteq Index
      BY <3>1, <2>1, RouteFacts DEF NextTarget, TypeOK, PCs
    <3>2. CASE Abandon /\ UNCHANGED request /\ skipped' \subseteq Index
      BY <3>2 DEF Abandon, TypeOK, PCs
    <3>3. CASE /\ ~h.known \/ hold_lower_pwm(h, desired) # h.applied
               /\ pc' = "child" /\ request' = hold_lower_pwm(h, desired)
               /\ UNCHANGED <<idx, failed>> /\ skipped' \subseteq Index
      <4>1. request' = desired
        BY <2>1, <3>3, HoldChoice
      <4> QED
        BY <2>1, <3>3, <4>1 DEF TypeOK, PCs
    <3> QED
      BY <1>3, <3>1, <3>2, <3>3 DEF Target, TypeOK, Later
  <2> QED
    BY <1>3, <2>3, <2>4 DEF Target, TypeOK
<1>4. CASE ChildSucceeds
  <2>1. Route[idx].name \in Targets /\ Complete(Route[idx].name) \in Progress(Route[idx].name)
    BY RouteFacts, CompleteIsProgress DEF TypeOK
  <2>2. chip' \in [Channel -> OutputState]
    BY <1>4, <2>1, FanSetType DEF ChildSucceeds, TypeOK
  <2>3. request \in Pwm
    BY ConstantFacts DEF TypeOK, Pwm
  <2>4. hold' \in [Index -> HoldState]
    BY <1>4, <2>3 DEF ChildSucceeds, TypeOK, HoldState
  <2>6. tried' \in [Index -> SUBSET (MinPwm..MaxPwm)]
    BY <1>4 DEF ChildSucceeds, TypeOK
  <2>5. pc' \in PCs /\ idx' \in Index
    BY <1>4, RouteFacts DEF ChildSucceeds, NextTarget, TypeOK, PCs
  <2> QED
    BY <1>4, <2>2, <2>4, <2>5, <2>6 DEF ChildSucceeds, TypeOK
<1>5. CASE ChildFails
  <2>1. Route[idx].name \in Targets
    BY RouteFacts DEF TypeOK
  <2>2. chip' \in [Channel -> OutputState]
    BY <1>5, <2>1, FanSetType DEF ChildFails, TypeOK
  <2>3. /\ tried' \in [Index -> SUBSET (MinPwm..MaxPwm)] /\ skipped' \subseteq Index
        /\ disturbed' = disturbed
    BY <1>5 DEF ChildFails, TypeOK, Later
  <2> QED
    BY <1>5, <2>2, <2>3 DEF ChildFails, Abandon, TypeOK, PCs
<1>6. CASE Publish
  <2>1. status' \in Statuses
    BY <1>6 DEF Publish, TypeOK, Statuses
  <2>2. CASE Gone
    BY <1>6, <2>1, <2>2, GoneType DEF Publish, TypeOK
  <2>3. CASE ~Gone
    BY <1>6, <2>1, <2>3, ConstantFacts DEF Publish, TypeOK, PCs, history
  <2> QED
    BY <2>2, <2>3
<1>7. CASE Wake
  BY <1>7 DEF Wake, TypeOK, PCs, history
<1>8. CASE Stop
  <2>1. status' \in Statuses
    BY <1>8 DEF Stop, TypeOK, Statuses
  <2> QED
    BY <1>8, <2>1, GoneType DEF Stop, TypeOK
<1>9. CASE Signal
  BY <1>9 DEF Signal, TypeOK, history
<1>10. CASE Crash
  <2>1. [target |-> Route[idx].name, pwm |-> request] \in [target : Targets, pwm : MinPwm..MaxPwm]
    BY RouteFacts DEF TypeOK
  <2>2. orphans' \subseteq [target : Targets, pwm : MinPwm..MaxPwm]
    BY <1>10, <2>1 DEF Crash, TypeOK
  <2> QED
    BY <1>10, <2>2, GoneType DEF Crash, TypeOK
<1>11. CASE OrphanWrites
  <2>1. chip' \in [Channel -> OutputState]
    BY <1>11, FanSetType DEF OrphanWrites, TypeOK
  <2>2. orphans' \subseteq orphans /\ disturbed' \subseteq Index
    BY <1>11 DEF OrphanWrites, TypeOK, TargetsNamed
  <2> QED
    BY <1>11, <2>1, <2>2 DEF OrphanWrites, TypeOK, daemon
<1>12. CASE CliSet
  <2>1. chip' \in [Channel -> OutputState]
    BY <1>12, FanSetType, SensorsAssumption DEF CliSet, TypeOK
  <2>2. disturbed' \subseteq Index
    BY <1>12 DEF CliSet, TypeOK, TargetsNamed
  <2> QED
    BY <1>12, <2>1, <2>2 DEF CliSet, TypeOK, daemon
<1>13. CASE SensorsChange
  BY <1>13 DEF SensorsChange, TypeOK, daemon, history
<1>14. CASE Second
  <2>1. hold' \in [Index -> HoldState]
    <3>1. \A i \in Index : hold[i] \in HoldState /\ hold[i].age + 1 >= 0 - MaxClockStep
      BY ConstantFacts DEF TypeOK, HoldState, AgeRange
    <3>2. \A i \in Index : Shift(hold[i], 1) \in HoldState
      BY <3>1, ShiftType
    <3> QED
      BY <1>14, <3>2 DEF Second
  <2>2. steady' \in [Index -> 0..Delay]
    BY <1>14, ConstantFacts DEF Second, TypeOK, AtMost
  <2>3. waited' \in 0..Config.interval_seconds
    BY <1>14, ConstantFacts DEF Second, TypeOK, AtMost
  <2> QED
    BY <1>14, <2>1, <2>2, <2>3 DEF Second, TypeOK
<1>15. CASE ClockStep
  <2>1. PICK step \in {0 - MaxClockStep, MaxClockStep} :
          /\ \A i \in Index : hold[i].pending # 0 => hold[i].age + step >= 0 - MaxClockStep
          /\ hold' = [i \in Index |-> Shift(hold[i], step)]
    BY <1>15 DEF ClockStep
  <2>2. step \in Int
    BY ConstantFacts
  <2>3. \A i \in Index : Shift(hold[i], step) \in HoldState
    BY <2>1, <2>2, ShiftType DEF TypeOK
  <2>4. hold' \in [Index -> HoldState]
    BY <2>1, <2>3
  <2> QED
    BY <1>15, <2>4 DEF ClockStep, TypeOK, history
<1>16. CASE UNCHANGED vars
  BY <1>16 DEF vars, TypeOK, daemon, history
<1> QED
  BY <1>1, <1>2, <1>3, <1>4, <1>5, <1>6, <1>7, <1>8, <1>9, <1>10, <1>11, <1>12, <1>13, <1>14,
     <1>15, <1>16 DEF Next, Daemon

\* Every state of the daemon, the chip and the state file has its type, for every
\* route, configuration and sensor set: in particular every PWM a child is started
\* with is one the chip's guard accepts (40 to 255), the failsafe and the result of
\* every interpolation and hold-down included.
THEOREM TypeCorrect == Spec => []TypeOK
<1>1. Init => TypeOK
  BY InitType
<1>2. TypeOK /\ [Next]_vars => TypeOK'
  BY TypeStep
<1> QED
  BY <1>1, <1>2, PTL DEF Spec

-----------------------------------------------------------------------------
(* The hardware and the loop. *)

\* A target is met when the daemon has set it to its plan's PWM or a higher one.
Met(i) == hold[i].known /\ hold[i].applied >= desired_for_target(i, plan)

\* NeverBelowPlan speaks of the end of the loop.  To be inductive it needs the
\* loop's progress: the targets passed so far are met, and the child about to
\* set the next one was started with exactly the desired PWM.
LoopInvariant ==
    /\ pc \in {"target", "child"} => \A j \in Index : j < idx => Met(j)
    /\ pc = "child" => request = desired_for_target(idx, plan)
    /\ (pc = "publish" /\ ~failed) => \A j \in Index : Met(j)

IInv == TypeOK /\ AppliedIsHardware /\ LoopInvariant

\* A transaction on one target leaves the outputs of the others alone.
LEMMA FanSetElsewhere ==
    ASSUME chip \in [Channel -> OutputState], NEW t \in Targets, NEW pwm \in MinPwm..MaxPwm,
           NEW p \in Progress(t), FanSet(t, pwm, p), NEW i \in Index, Route[i].name # t
    PROVE  \A c \in OutputsOf(i) : chip'[c] = chip[c]
<1>1. pwm \in 0..255
  BY ConstantFacts
<1> SUFFICES ASSUME NEW c \in OutputsOf(i) PROVE chip'[c] = chip[c]
  OBVIOUS
<1>2. c \in Channel
  BY RouteFacts
<1>3. \A j \in 1..Len(Outputs[t]) : Outputs[t][j] # c
  BY DisjointOutputs
<1> QED
  BY <1>1, <1>2, <1>3, DrivenElsewhere, ZenonT(60) DEF FanSet

\* A transaction, whole or in part, drives an output to its PWM or leaves its duty.
LEMMA FanSetOutput ==
    ASSUME chip \in [Channel -> OutputState], NEW t \in Targets, NEW pwm,
           NEW p \in Progress(t), FanSet(t, pwm, p), NEW c \in Channel, chip[c].manual
    PROVE  /\ chip'[c].manual
           /\ chip'[c].duty = chip[c].duty \/ (p.duties # 0 /\ chip'[c].duty = pwm)
<1>1. chip' = Driven(chip, t, pwm, p.modes, p.duties)
  BY DEF FanSet
<1>2. p.duties = 0 => ~\E i \in 1..p.duties : Outputs[t][i] = c
  OBVIOUS
<1>3. chip'[c] =
        [manual |-> chip[c].manual \/ \E i \in 1..p.modes : Outputs[t][i] = c,
         duty |-> IF \E i \in 1..p.duties : Outputs[t][i] = c THEN pwm ELSE chip[c].duty]
  BY <1>1, Zenon DEF Driven
<1>4. chip'[c].manual = (chip[c].manual \/ \E i \in 1..p.modes : Outputs[t][i] = c)
  BY <1>3
<1>5. chip'[c].duty = IF \E i \in 1..p.duties : Outputs[t][i] = c THEN pwm ELSE chip[c].duty
  BY <1>3
<1> QED
  BY <1>2, <1>4, <1>5, Zenon

\* A step keeps AppliedIsHardware if it changes what target_states records only
\* by forgetting, and touches only outputs it marks as disturbed.
LEMMA HardwareKept ==
    ASSUME AppliedIsHardware, UNCHANGED tried,
           \A i \in Index \ disturbed' : hold'[i].known =>
               /\ i \notin disturbed /\ hold[i].known /\ hold'[i].applied = hold[i].applied
               /\ \A c \in OutputsOf(i) : chip'[c] = chip[c]
    PROVE  AppliedIsHardware'
  BY DEF AppliedIsHardware

LEMMA GoneForgets ==
    ASSUME Gone
    PROVE  \A i \in Index : ~hold'[i].known
  BY DEF Gone, Fresh

LEMMA HardwareStep == TypeOK /\ AppliedIsHardware /\ [Next]_vars => AppliedIsHardware'
<1> SUFFICES ASSUME TypeOK, AppliedIsHardware, [Next]_vars PROVE AppliedIsHardware'
  OBVIOUS
<1>1. CASE UNCHANGED <<chip, hold, disturbed, tried>>
  BY <1>1 DEF AppliedIsHardware
<1>2. CASE Gone
  BY <1>2, GoneForgets DEF AppliedIsHardware
<1>3. CASE Target
  <2> DEFINE h == hold[idx]
             desired == desired_for_target(idx, plan)
  <2>1. h \in HoldState /\ desired \in MinPwm..MaxPwm /\ idx \in Index
    BY DesiredType DEF TypeOK
  <2>2. hold' = [hold EXCEPT ![idx] = Held(h, desired)] /\ UNCHANGED <<chip, disturbed, tried>>
    BY <1>3 DEF Target
  <2>3. Held(h, desired).known = h.known /\ Held(h, desired).applied = h.applied
    BY <2>1, HeldFacts
  <2>4. \A i \in Index : hold'[i] = IF i = idx THEN Held(h, desired) ELSE hold[i]
    BY <2>2 DEF TypeOK
  <2>5. \A i \in Index : hold'[i].known = hold[i].known /\ hold'[i].applied = hold[i].applied
    BY <2>3, <2>4
  <2> QED
    BY <2>2, <2>5, HardwareKept
<1>4. CASE ChildSucceeds
  <2> DEFINE t == Route[idx].name
  <2>0. idx \in Index /\ t \in Targets /\ request \in MinPwm..MaxPwm
    BY RouteFacts DEF TypeOK
  <2>1. /\ idx \in Index /\ t \in Targets /\ Complete(t) \in Progress(t)
        /\ request \in MinPwm..MaxPwm /\ request \in 0..255
    BY <2>0, CompleteIsProgress, ConstantFacts
  <2>2. /\ FanSet(t, request, Complete(t)) /\ disturbed' = disturbed \ {idx}
        /\ hold' = [hold EXCEPT ![idx].applied = request, ![idx].known = TRUE]
    BY <1>4 DEF ChildSucceeds
  <2> SUFFICES ASSUME NEW i \in Index \ disturbed', hold'[i].known, NEW c \in OutputsOf(i)
               PROVE  chip'[c].manual /\ chip'[c].duty \in {hold'[i].applied} \cup tried'[i]
    BY DEF AppliedIsHardware
  <2>3. CASE i = idx
    <3>1. hold'[i].applied = request
      BY <2>1, <2>2, <2>3 DEF TypeOK, HoldState
    <3>2. PICK j \in 1..Len(Outputs[t]) : c = Outputs[t][j]
      BY <2>3 DEF OutputsOf
    <3>3. \A k \in 1..Len(Outputs[t]) : chip'[Outputs[t][k]] = [manual |-> TRUE, duty |-> request]
      BY <2>1, <2>2, FanSetComplete
    <3>4. chip'[c] = [manual |-> TRUE, duty |-> request]
      BY <3>2, <3>3
    <3> QED
      BY <3>1, <3>4
  <2>4. CASE i # idx
    <3>1. Route[i].name # t
      BY <2>1, <2>4, RouteAssumption DEF Index
    <3>2. chip'[c] = chip[c]
      BY <2>1, <2>2, <3>1, FanSetElsewhere DEF TypeOK
    <3>3. hold'[i] = hold[i] /\ i \notin disturbed /\ tried'[i] = tried[i]
      BY <1>4, <2>2, <2>4 DEF TypeOK, ChildSucceeds
    <3> QED
      BY <3>2, <3>3 DEF AppliedIsHardware
  <2> QED
    BY <2>3, <2>4
<1>5. CASE ChildFails
  <2> DEFINE t == Route[idx].name
  <2>1. idx \in Index /\ t \in Targets /\ request \in MinPwm..MaxPwm /\ request \in 0..255
    BY RouteFacts, ConstantFacts DEF TypeOK
  <2>2. PICK p \in Progress(t) :
          /\ FanSet(t, request, p)
          /\ tried' = [tried EXCEPT ![idx] = IF p.duties = 0 THEN @ ELSE @ \cup {request}]
    BY <1>5 DEF ChildFails
  <2>3. UNCHANGED <<hold, disturbed>>
    BY <1>5 DEF ChildFails
  <2> SUFFICES ASSUME NEW i \in Index \ disturbed, hold[i].known, NEW c \in OutputsOf(i)
               PROVE  chip'[c].manual /\ chip'[c].duty \in {hold[i].applied} \cup tried'[i]
    BY <2>3 DEF AppliedIsHardware
  <2>4. chip[c].manual /\ chip[c].duty \in {hold[i].applied} \cup tried[i]
    BY DEF AppliedIsHardware
  <2>5. CASE i = idx
    <3>1. tried'[i] = IF p.duties = 0 THEN tried[i] ELSE tried[i] \cup {request}
      BY <2>2, <2>5 DEF TypeOK
    <3>2. c \in Channel
      BY RouteFacts
    <3>3. /\ chip'[c].manual
          /\ chip'[c].duty = chip[c].duty \/ (p.duties # 0 /\ chip'[c].duty = request)
      BY <2>1, <2>2, <2>4, <3>2, FanSetOutput DEF TypeOK
    <3> QED
      BY <2>4, <3>1, <3>3
  <2>6. CASE i # idx
    <3>1. Route[i].name # t
      BY <2>1, <2>6, RouteAssumption DEF Index
    <3>2. chip'[c] = chip[c]
      BY <2>1, <2>2, <3>1, FanSetElsewhere DEF TypeOK
    <3>3. tried'[i] = tried[i]
      BY <2>2, <2>6 DEF TypeOK
    <3> QED
      BY <2>4, <3>2, <3>3
  <2> QED
    BY <2>5, <2>6
<1>6. CASE OrphanWrites
  <2>0. PICK o \in orphans : \E p \in Progress(o.target) :
          /\ FanSet(o.target, o.pwm, p)
          /\ disturbed' = disturbed \cup TargetsNamed(o.target)
          /\ UNCHANGED daemon
    BY <1>6 DEF OrphanWrites
  <2>1. PICK p \in Progress(o.target) :
          /\ FanSet(o.target, o.pwm, p)
          /\ disturbed' = disturbed \cup TargetsNamed(o.target)
          /\ UNCHANGED daemon
    BY <2>0
  <2>2. o.target \in Targets /\ o.pwm \in MinPwm..MaxPwm
    BY DEF TypeOK
  <2>3. \A i \in Index \ disturbed' : i \notin disturbed /\ Route[i].name # o.target
    BY <2>1 DEF TargetsNamed
  <2>4. \A i \in Index \ disturbed' : \A c \in OutputsOf(i) : chip'[c] = chip[c]
    BY <2>1, <2>2, <2>3, FanSetElsewhere DEF TypeOK
  <2> QED
    BY <1>6, <2>1, <2>3, <2>4, HardwareKept DEF daemon, OrphanWrites
<1>7. CASE CliSet
  <2>0. PICK t \in Targets, pwm \in CliPwm : \E p \in Progress(t) :
          /\ FanSet(t, pwm, p)
          /\ disturbed' = disturbed \cup TargetsNamed(t)
          /\ UNCHANGED daemon
    BY <1>7 DEF CliSet
  <2>1. PICK p \in Progress(t) :
          /\ FanSet(t, pwm, p)
          /\ disturbed' = disturbed \cup TargetsNamed(t)
          /\ UNCHANGED daemon
    BY <2>0
  <2>2. pwm \in MinPwm..MaxPwm
    BY SensorsAssumption
  <2>3. \A i \in Index \ disturbed' : i \notin disturbed /\ Route[i].name # t
    BY <2>1 DEF TargetsNamed
  <2>4. \A i \in Index \ disturbed' : \A c \in OutputsOf(i) : chip'[c] = chip[c]
    BY <2>1, <2>2, <2>3, FanSetElsewhere DEF TypeOK
  <2> QED
    BY <1>7, <2>1, <2>3, <2>4, HardwareKept DEF daemon, CliSet
<1>8. CASE Second
  <2>1. \A i \in Index : hold[i] \in HoldState /\ hold[i].age + 1 >= 0 - MaxClockStep
    BY ConstantFacts DEF TypeOK, HoldState, AgeRange
  <2>2. \A i \in Index : hold'[i].known = hold[i].known /\ hold'[i].applied = hold[i].applied
    BY <1>8, <2>1, ShiftType DEF Second
  <2> QED
    BY <1>8, <2>2, HardwareKept DEF Second
<1>9. CASE ClockStep
  <2>1. PICK step \in {0 - MaxClockStep, MaxClockStep} :
          /\ \A i \in Index : hold[i].pending # 0 => hold[i].age + step >= 0 - MaxClockStep
          /\ hold' = [i \in Index |-> Shift(hold[i], step)]
    BY <1>9 DEF ClockStep
  <2>2. step \in Int
    BY ConstantFacts
  <2>3. \A i \in Index : hold'[i].known = hold[i].known /\ hold'[i].applied = hold[i].applied
    BY <2>1, <2>2, ShiftType DEF TypeOK
  <2> QED
    BY <1>9, <2>3, HardwareKept DEF ClockStep, history
<1>10. CASE Start \/ Sample \/ Wake \/ Signal \/ SensorsChange \/ UNCHANGED vars
  BY <1>1, <1>10 DEF Start, Sample, Wake, Signal, SensorsChange, vars, daemon, history
<1>11. CASE Publish \/ Stop \/ Crash
  BY <1>1, <1>2, <1>11 DEF Publish, Stop, Crash, history
<1> QED
  BY <1>3, <1>4, <1>5, <1>6, <1>7, <1>8, <1>9, <1>10, <1>11 DEF Next, Daemon

\* A step that keeps the plan, forgets nothing and does not enter another part of
\* the loop keeps the loop's progress.
LEMMA LoopKept ==
    ASSUME LoopInvariant, UNCHANGED <<plan, pc, idx, request, failed>>,
           \A i \in Index : hold'[i].known = hold[i].known /\ hold'[i].applied = hold[i].applied
    PROVE  LoopInvariant'
  BY DEF LoopInvariant, Met, desired_for_target

LEMMA LoopStep == TypeOK /\ LoopInvariant /\ [Next]_vars => LoopInvariant'
<1> SUFFICES ASSUME TypeOK, LoopInvariant, [Next]_vars PROVE LoopInvariant'
  OBVIOUS
<1>1. CASE pc' \in {"off", "sample", "sleep"}
  BY <1>1 DEF LoopInvariant
<1>2. CASE Sample
  <2>1. \A j \in Index : ~(j < 1)
    BY RouteFacts
  <2> QED
    BY <1>2, <2>1 DEF Sample, LoopInvariant
<1>3. CASE Target
  <2> DEFINE h == hold[idx]
             desired == desired_for_target(idx, plan)
             pwm == hold_lower_pwm(h, desired)
  <2>1. /\ h \in HoldState /\ desired \in MinPwm..MaxPwm /\ idx \in Index
        /\ h.applied \in Nat /\ h.known \in BOOLEAN /\ desired \in Nat
    BY DesiredType, ConstantFacts DEF TypeOK, HoldState, Pwm
  <2>2. hold' = [hold EXCEPT ![idx] = Held(h, desired)] /\ UNCHANGED plan /\ pc = "target"
    BY <1>3 DEF Target
  <2>3. Held(h, desired).known = h.known /\ Held(h, desired).applied = h.applied
    BY <2>1, HeldFacts
  <2>4. \A i \in Index : hold'[i] = IF i = idx THEN Held(h, desired) ELSE hold[i]
    BY <2>2 DEF TypeOK
  <2>5. \A i \in Index : hold'[i].known = hold[i].known /\ hold'[i].applied = hold[i].applied
    BY <2>3, <2>4
  <2>6. \A i \in Index : Met(i) => Met(i)'
    BY <2>2, <2>5 DEF Met, desired_for_target
  <2>7. \A i \in Index : i < idx => Met(i)
    BY <2>2 DEF LoopInvariant
  <2>8. CASE h.known /\ pwm = h.applied /\ NextTarget
    <3>1. Met(idx)
      BY <2>1, <2>8, HoldChoice DEF Met
    <3>2. \A i \in Index : i <= idx => Met(i)'
      BY <2>1, <2>6, <2>7, <3>1, RouteFacts
    <3>3. CASE idx = Len(Route)
      <4>1. \A i \in Index : i <= idx
        BY <3>3, RouteAssumption DEF Index
      <4> QED
        BY <2>8, <3>2, <3>3, <4>1 DEF NextTarget, LoopInvariant
    <3>4. CASE idx # Len(Route)
      <4>1. idx' = idx + 1 /\ pc' = "target"
        BY <2>8, <3>4 DEF NextTarget
      <4>2. \A i \in Index : i < idx + 1 => i <= idx
        BY <2>1, RouteFacts
      <4> QED
        BY <3>2, <4>1, <4>2 DEF LoopInvariant
    <3> QED
      BY <3>3, <3>4
  <2>9. CASE Abandon
    BY <2>9 DEF Abandon, LoopInvariant
  <2>10. CASE /\ ~h.known \/ pwm # h.applied
              /\ pc' = "child" /\ request' = pwm /\ UNCHANGED idx
    <3>1. request' = desired
      BY <2>1, <2>10, HoldChoice
    <3>2. request' = desired_for_target(idx, plan)'
      BY <2>2, <2>10, <3>1 DEF desired_for_target
    <3> QED
      BY <2>6, <2>7, <2>10, <3>2 DEF LoopInvariant
  <2> QED
    BY <1>3, <2>8, <2>9, <2>10 DEF Target
<1>4. CASE ChildSucceeds
  <2>1. /\ pc = "child" /\ idx \in Index /\ NextTarget /\ UNCHANGED plan
        /\ hold' = [hold EXCEPT ![idx].applied = request, ![idx].known = TRUE]
    BY <1>4 DEF ChildSucceeds, TypeOK
  <2>2. request = desired_for_target(idx, plan) /\ request \in Nat
    BY <2>1, ConstantFacts DEF LoopInvariant, TypeOK
  <2>3. hold'[idx].applied = request /\ hold'[idx].known = TRUE
    BY <2>1 DEF TypeOK, HoldState
  <2>4. \A i \in Index : i # idx => hold'[i] = hold[i]
    BY <2>1 DEF TypeOK
  <2>5. \A i \in Index : i = idx => Met(i)'
    BY <2>1, <2>2, <2>3 DEF Met, desired_for_target
  <2>6. \A i \in Index : i < idx => Met(i)'
    <3>1. \A i \in Index : i < idx => Met(i) /\ i # idx
      BY <2>1, RouteFacts DEF LoopInvariant
    <3> QED
      BY <2>1, <2>4, <3>1 DEF Met, desired_for_target
  <2>7. \A i \in Index : i <= idx => Met(i)'
    BY <2>1, <2>5, <2>6, RouteFacts
  <2>8. CASE idx = Len(Route)
    <3>1. \A i \in Index : i <= idx
      BY <2>8, RouteAssumption DEF Index
    <3> QED
      BY <2>1, <2>7, <2>8, <3>1 DEF NextTarget, LoopInvariant
  <2>9. CASE idx # Len(Route)
    <3>1. idx' = idx + 1 /\ pc' = "target"
      BY <2>1, <2>9 DEF NextTarget
    <3>2. \A i \in Index : i < idx + 1 => i <= idx
      BY <2>1, RouteFacts
    <3> QED
      BY <2>7, <3>1, <3>2 DEF LoopInvariant
  <2> QED
    BY <2>8, <2>9
<1>5. CASE ChildFails
  BY <1>5 DEF ChildFails, Abandon, LoopInvariant
<1>6. CASE Start \/ Publish \/ Wake \/ Stop \/ Crash
  BY <1>1, <1>6 DEF Start, Publish, Wake, Stop, Crash, Gone
<1>7. CASE Signal \/ OrphanWrites \/ CliSet \/ SensorsChange \/ UNCHANGED vars
  <2>1. UNCHANGED <<plan, pc, idx, request, failed, hold>>
    BY <1>7 DEF Signal, OrphanWrites, CliSet, SensorsChange, vars, daemon
  <2> QED
    BY <2>1, LoopKept
<1>8. CASE Second
  <2>1. \A i \in Index : hold[i] \in HoldState /\ hold[i].age + 1 >= 0 - MaxClockStep
    BY ConstantFacts DEF TypeOK, HoldState, AgeRange
  <2>2. \A i \in Index : hold'[i].known = hold[i].known /\ hold'[i].applied = hold[i].applied
    BY <1>8, <2>1, ShiftType DEF Second
  <2> QED
    BY <1>8, <2>2, LoopKept DEF Second
<1>9. CASE ClockStep
  <2>1. PICK step \in {0 - MaxClockStep, MaxClockStep} :
          /\ \A i \in Index : hold[i].pending # 0 => hold[i].age + step >= 0 - MaxClockStep
          /\ hold' = [i \in Index |-> Shift(hold[i], step)]
    BY <1>9 DEF ClockStep
  <2>2. step \in Int
    BY ConstantFacts
  <2>3. \A i \in Index : hold'[i].known = hold[i].known /\ hold'[i].applied = hold[i].applied
    BY <2>1, <2>2, ShiftType DEF TypeOK
  <2> QED
    BY <1>9, <2>3, LoopKept DEF ClockStep
<1> QED
  BY <1>2, <1>3, <1>4, <1>5, <1>6, <1>7, <1>8, <1>9 DEF Next, Daemon

LEMMA IInvInductive == Spec => []IInv
<1>1. Init => IInv
  <2> SUFFICES ASSUME Init PROVE IInv
    OBVIOUS
  <2>1. \A i \in Index : ~hold[i].known
    BY DEF Init, Fresh
  <2> QED
    BY <2>1, InitType DEF Init, IInv, AppliedIsHardware, LoopInvariant
<1>2. IInv /\ [Next]_vars => IInv'
  BY TypeStep, HardwareStep, LoopStep DEF IInv
<1> QED
  BY <1>1, <1>2, PTL DEF Spec

\* target_states is the hardware up to the daemon's own failed children: whatever
\* fails half way, is killed, restarts or has its clock stepped, every output of a
\* target the daemon has set is in manual mode, at applied_pwm or at the PWM of a
\* child that failed since. What operators and orphans wrote behind a daemon that
\* never reads the chip is not covered until it sets the target again.
THEOREM AppliedIsHardwareAlways == Spec => []AppliedIsHardware
<1>1. IInv => AppliedIsHardware
  BY DEF IInv
<1> QED
  BY <1>1, IInvInductive, PTL

\* A cycle that reports success has left no target below its plan, unless a failed
\* child, an operator or an orphan wrote it since the daemon last set it.
THEOREM NeverBelowPlanAlways == Spec => []NeverBelowPlan
<1>1. IInv => NeverBelowPlan
  <2> SUFFICES ASSUME IInv, pc = "publish", ~failed, NEW i \in Untouched, NEW c \in OutputsOf(i)
               PROVE  chip[c].manual /\ chip[c].duty >= desired_for_target(i, plan)
    BY DEF NeverBelowPlan
  <2>1. i \in Index \ disturbed /\ tried[i] = {}
    BY DEF Untouched
  <2>2. hold[i].known /\ hold[i].applied >= desired_for_target(i, plan)
    BY <2>1 DEF IInv, LoopInvariant, Met
  <2>3. chip[c].manual /\ chip[c].duty = hold[i].applied
    BY <2>1, <2>2 DEF IInv, AppliedIsHardware
  <2> QED
    BY <2>2, <2>3
<1> QED
  BY <1>1, IInvInductive, PTL

-----------------------------------------------------------------------------
(* The downshift delay, while the wall clock is not stepped. *)

\* The loop has looked at target i in this cycle; between cycles, at every target.
Seen(i) == (pc = "target" => i < idx) /\ (pc = "child" => i <= idx)

\* A pending lower PWM is the one the last look desired, and its timer has not
\* run longer than that desire has stood.  Targets a failed cycle did not look
\* at are the exception.
TimerOK(i) ==
    hold[i].pending # 0 =>
        /\ hold[i].pending = desired_for_target(i, plan) => hold[i].age <= steady[i]
        /\ Seen(i) => hold[i].pending = desired_for_target(i, plan)
TimerInvariant == \A i \in Index \ skipped : TimerOK(i)

\* The bookkeeping of one look at a target.
LEMMA HeldTimer ==
    ASSUME NEW h \in HoldState, NEW desired \in MinPwm..MaxPwm
    PROVE  /\ Held(h, desired).pending \in {0, desired}
           /\ Held(h, desired) = h \/ Held(h, desired).age = 0
<1>1. h = [applied |-> h.applied, pending |-> h.pending, age |-> h.age, known |-> h.known]
  BY DEF HoldState
<1> QED
  BY <1>1, ConstantFacts DEF Held, HoldState

LEMMA TimerKept ==
    ASSUME TimerInvariant, UNCHANGED <<plan, pc, idx, hold, steady, skipped>>
    PROVE  TimerInvariant'
  BY DEF TimerInvariant, TimerOK, Seen, desired_for_target

\* Neither a failing nor a succeeding child, nor going to the next target,
\* changes what was looked at.
LEMMA TimerStep == TypeOK /\ TimerInvariant /\ MaxClockStep = 0 /\ [Next]_vars => TimerInvariant'
<1> SUFFICES ASSUME TypeOK, TimerInvariant, MaxClockStep = 0, [Next]_vars PROVE TimerInvariant'
  OBVIOUS
<1>0. /\ \A i \in Index : /\ hold[i] \in HoldState /\ hold[i].age \in 0..Delay
                          /\ steady[i] \in 0..Delay /\ hold[i].pending \in Nat
      /\ Delay \in Nat
  BY ConstantFacts DEF TypeOK, HoldState, AgeRange, Pwm
<1>1. CASE Gone
  BY <1>1 DEF Gone, Fresh, TimerInvariant, TimerOK
<1>2. CASE Sample
  <2>1. /\ pc = "sample" /\ pc' = "target" /\ idx' = 1 /\ UNCHANGED <<hold, skipped>>
        /\ steady' = [i \in Index |->
                        IF desired_for_target(i, plan') = desired_for_target(i, plan)
                        THEN steady[i] ELSE 0]
    BY <1>2 DEF Sample
  <2>2. \A i \in Index : Seen(i) /\ ~Seen(i)'
    BY <2>1, RouteFacts DEF Seen
  <2> SUFFICES ASSUME NEW i \in Index \ skipped, hold[i].pending # 0,
                      hold[i].pending = desired_for_target(i, plan')
               PROVE  hold[i].age <= steady'[i]
    BY <2>1, <2>2 DEF TimerInvariant, TimerOK, desired_for_target
  <2>3. hold[i].pending = desired_for_target(i, plan) /\ hold[i].age <= steady[i]
    BY <2>2 DEF TimerInvariant, TimerOK
  <2> QED
    BY <2>1, <2>3
<1>3. CASE Target
  <2> DEFINE h == hold[idx]
             desired == desired_for_target(idx, plan)
  <2>1. h \in HoldState /\ desired \in MinPwm..MaxPwm /\ idx \in Index
    BY DesiredType DEF TypeOK
  <2>2. /\ pc = "target" /\ UNCHANGED <<plan, steady>>
        /\ \A i \in Index : hold'[i] = IF i = idx THEN Held(h, desired) ELSE hold[i]
    BY <1>3 DEF Target, TypeOK
  <2>3. \A i \in Index \ skipped' :
           /\ i # idx => i \notin skipped
           /\ i = idx => i \notin skipped \/ Held(h, desired) # h \/ h.pending = 0
    BY <1>3 DEF Target, Later
  <2>4. \A i \in Index \ skipped' : Seen(i)' => i = idx \/ Seen(i)
    <3> SUFFICES ASSUME NEW i \in Index \ skipped', Seen(i)', i # idx PROVE i < idx
      BY <2>2 DEF Seen
    <3>1. CASE NextTarget
      <4>1. CASE idx = Len(Route)
        BY <4>1, RouteAssumption DEF Index
      <4>2. CASE idx # Len(Route)
        BY <2>1, <3>1, <4>2, RouteFacts DEF NextTarget, Seen
      <4> QED
        BY <4>1, <4>2
    <3>2. CASE Later \subseteq skipped'
      BY <2>1, <3>2, RouteFacts DEF Later
    <3>3. CASE pc' = "child" /\ UNCHANGED idx
      BY <2>1, <3>3, RouteFacts DEF Seen
    <3> QED
      BY <1>3, <3>1, <3>2, <3>3 DEF Target
  <2> SUFFICES ASSUME NEW i \in Index \ skipped' PROVE TimerOK(i)'
    BY DEF TimerInvariant
  <2>5. CASE i # idx
    BY <2>2, <2>3, <2>4, <2>5 DEF TimerInvariant, TimerOK, desired_for_target
  <2>6. CASE i = idx
    <3>1. /\ hold'[i].pending # 0 => hold'[i].pending = desired_for_target(i, plan)
          /\ hold'[i] = hold[i] \/ hold'[i].age = 0
      BY <2>1, <2>2, <2>6, HeldTimer
    <3>2. hold'[i].pending # 0 => hold'[i].age <= steady[i]
      <4>1. CASE hold'[i].age = 0
        BY <1>0, <4>1
      <4>2. CASE hold'[i] = hold[i] /\ hold[i].pending # 0
        <5>1. i \notin skipped
          BY <2>2, <2>3, <2>6, <4>2
        <5> QED
          BY <3>1, <4>2, <5>1 DEF TimerInvariant, TimerOK
      <4> QED
        BY <3>1, <4>1, <4>2
    <3> QED
      BY <2>2, <3>1, <3>2 DEF TimerOK, desired_for_target
  <2> QED
    BY <2>5, <2>6
<1>4. CASE ChildSucceeds
  <2>1. /\ pc = "child" /\ idx \in Index /\ UNCHANGED <<plan, steady, skipped>>
        /\ \A i \in Index : hold'[i].pending = hold[i].pending /\ hold'[i].age = hold[i].age
    BY <1>4 DEF ChildSucceeds, TypeOK, HoldState
  <2>2. \A i \in Index : Seen(i)' => Seen(i)
    <3>1. CASE idx = Len(Route)
      BY <2>1, <3>1, RouteAssumption DEF Index, Seen
    <3>2. CASE idx # Len(Route)
      BY <1>4, <2>1, <3>2, RouteFacts DEF ChildSucceeds, NextTarget, Seen
    <3> QED
      BY <3>1, <3>2
  <2> QED
    BY <2>1, <2>2 DEF TimerInvariant, TimerOK, desired_for_target
<1>5. CASE ChildFails
  <2>1. /\ pc = "child" /\ idx \in Index /\ UNCHANGED <<plan, steady, hold>>
        /\ skipped' = skipped \cup {j \in Index : j > idx}
    BY <1>5 DEF ChildFails, TypeOK, Later
  <2>2. \A i \in Index \ skipped' : i \notin skipped /\ Seen(i)
    BY <2>1, RouteFacts DEF Seen
  <2> QED
    BY <2>1, <2>2 DEF TimerInvariant, TimerOK, desired_for_target
<1>6. CASE Publish \/ Wake \/ Start
  <2>1. CASE Gone
    BY <1>1, <2>1
  <2>2. CASE ~Gone
    <3>1. /\ UNCHANGED <<plan, hold, steady, skipped>>
          /\ \A i \in Index : Seen(i)
      BY <1>6, <2>2 DEF Publish, Wake, Start, history, Seen
    <3> QED
      BY <3>1 DEF TimerInvariant, TimerOK, desired_for_target
  <2> QED
    BY <2>1, <2>2
<1>7. CASE Stop \/ Crash
  BY <1>1, <1>7 DEF Stop, Crash
<1>8. CASE Signal \/ OrphanWrites \/ CliSet \/ SensorsChange \/ UNCHANGED vars
  <2>1. UNCHANGED <<plan, pc, idx, hold, steady, skipped>>
    BY <1>8 DEF Signal, OrphanWrites, CliSet, SensorsChange, vars, daemon, history
  <2> QED
    BY <2>1, TimerKept
<1>9. CASE Second
  <2>1. UNCHANGED <<plan, pc, idx, skipped>>
    BY <1>9 DEF Second
  <2>2. \A i \in Index : /\ hold'[i] = Shift(hold[i], 1)
                         /\ steady'[i] = AtMost(steady[i] + 1, Delay)
    BY <1>9 DEF Second
  <2>3. \A i \in Index : hold'[i].pending = hold[i].pending
    BY <1>0, <2>2 DEF Shift, HoldState
  <2>4. \A i \in Index : hold[i].pending # 0 => hold'[i].age = AtMost(hold[i].age + 1, Delay)
    <3>1. Delay + MaxClockStep = Delay
      BY <1>0
    <3> QED
      BY <1>0, <2>2, <3>1, ZenonT(60) DEF Shift, HoldState
  <2>5. \A i \in Index : hold[i].pending # 0 /\ hold[i].age <= steady[i] => hold'[i].age <= steady'[i]
    BY <1>0, <2>2, <2>4 DEF AtMost
  <2>6. \A i \in Index : Seen(i)' <=> Seen(i)
    BY <2>1 DEF Seen
  <2> QED
    BY <2>1, <2>3, <2>5, <2>6 DEF TimerInvariant, TimerOK, desired_for_target
<1>10. ~ClockStep
  BY DEF ClockStep
<1> QED
  BY <1>2, <1>3, <1>4, <1>5, <1>6, <1>7, <1>8, <1>9, <1>10 DEF Next, Daemon

\* A lower PWM is asked for only when the timer has run for the whole delay.
LEMMA LoweringIsTimed ==
    ASSUME TypeOK, TimerInvariant, MaxClockStep = 0, Next, LoweringStarts
    PROVE  steady[idx] >= Delay \/ idx \in skipped'
<1> DEFINE h == hold[idx]
           desired == desired_for_target(idx, plan)
<1>1. /\ h \in HoldState /\ desired \in MinPwm..MaxPwm /\ idx \in Index
      /\ steady[idx] \in 0..Delay /\ Delay \in Nat
      /\ Held(h, desired) \in HoldState
  <2>1. h \in HoldState /\ desired \in MinPwm..MaxPwm /\ idx \in Index
    BY DesiredType DEF TypeOK
  <2>2. Held(h, desired) \in HoldState
    BY <2>1, HeldFacts
  <2>3. steady[idx] \in 0..Delay /\ Delay \in Nat
    BY ConstantFacts DEF TypeOK
  <2> QED
    BY <2>1, <2>2, <2>3
<1>2. Target
  BY DEF LoweringStarts, Next, Daemon, Start, Sample, Wake, Publish, Stop, Signal, Crash, Gone,
         ChildSucceeds, ChildFails, OrphanWrites, CliSet, SensorsChange, Second, ClockStep,
         daemon
<1>3. request' = hold_lower_pwm(h, desired) /\ h.known /\ request' < h.applied
  BY <1>2 DEF Target, LoweringStarts, NextTarget, Abandon
<1>4. Held(h, desired).age \in 0..Delay /\ Elapsed(Held(h, desired).age) = Held(h, desired).age
  <2>1. Held(h, desired).age \in 0..Delay
    BY <1>1 DEF HoldState, AgeRange
  <2>2. \A a \in 0..Delay : Elapsed(a) = a
    BY <1>1 DEF Elapsed
  <2> QED
    BY <2>1, <2>2
<1>5. h.applied \in Nat /\ desired \in Nat /\ desired # 0
  BY <1>1, ConstantFacts DEF HoldState, Pwm
<1>6. Held(h, desired).age >= Delay /\ desired < h.applied
  BY <1>1, <1>3, <1>4, <1>5 DEF hold_lower_pwm
<1>7. CASE Held(h, desired).age = 0
  <2>1. Delay = 0
    BY <1>1, <1>6, <1>7
  <2> QED
    BY <1>1, <2>1
<1>8. CASE Held(h, desired).age # 0
  <2>1. Held(h, desired) = h
    BY <1>1, <1>8, HeldTimer
  <2>2. h.pending = desired
    <3>1. Held(h, desired).pending = desired
      BY <1>1, <1>3, <1>5, <1>6 DEF Held, HoldState
    <3> QED
      BY <2>1, <3>1
  <2>3. idx \in skipped => idx \in skipped'
    BY <1>2, <1>5, <2>1, <2>2 DEF Target
  <2>4. idx \notin skipped => h.age <= steady[idx]
    BY <1>1, <1>5, <2>2 DEF TimerInvariant, TimerOK
  <2>5. h.age \in 0..Delay /\ h.age >= Delay
    BY <1>4, <1>6, <2>1
  <2>6. idx \notin skipped => steady[idx] >= Delay
    BY <1>1, <2>4, <2>5
  <2> QED
    BY <2>3, <2>6
<1> QED
  BY <1>7, <1>8

\* Without clock steps, a fan is lowered only after its desired PWM has stood
\* still for the configured delay, for every route and configuration; a failed
\* write at an earlier target is the only exception.
THEOREM NoEarlyDownshiftAlways ==
    ASSUME MaxClockStep = 0
    PROVE  Spec => NoEarlyDownshift
<1>1. Init => TypeOK /\ TimerInvariant
  BY InitType DEF Init, Fresh, TimerInvariant, TimerOK
<1>2. (TypeOK /\ TimerInvariant) /\ [Next]_vars => (TypeOK /\ TimerInvariant)'
  BY TypeStep, TimerStep
<1>3. (TypeOK /\ TimerInvariant) /\ [Next]_vars =>
          [LoweringStarts => steady[idx] >= Delay \/ idx \in skipped']_vars
  <2> SUFFICES ASSUME TypeOK, TimerInvariant, [Next]_vars, ~UNCHANGED vars, LoweringStarts
               PROVE  steady[idx] >= Delay \/ idx \in skipped'
    OBVIOUS
  <2> QED
    BY LoweringIsTimed
<1> QED
  BY <1>1, <1>2, <1>3, PTL DEF Spec, NoEarlyDownshift
=============================================================================
