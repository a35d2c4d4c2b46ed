------------------------------ MODULE FanChip ------------------------------
(***************************************************************************)
(* What one `ugreenctl --apply fan set <target> <pwm>` does to the IT8613, *)
(* seen from outside the process that runs it: the outputs of the target   *)
(* are switched to manual and set to the PWM one after the other, in the   *)
(* order of the model's channel map, and a failure or a kill leaves a      *)
(* prefix done.  It8613 gives the transaction in detail and implements     *)
(* this module; FanDaemon is written over it.                              *)
(***************************************************************************)
EXTENDS Integers, Sequences

CONSTANTS
    Targets,      \* the targets a model's plugin accepts ("cpu", "sys", "all")
    Outputs,      \* Outputs[t]: the PWM outputs of target t, in write order
    PwmValues,    \* the PWM values requests carry
    BootPwm       \* duty values the firmware may have left in the chip

Channel == UNION {{Outputs[t][i] : i \in 1..Len(Outputs[t])} : t \in Targets}

ASSUME OutputsAssumption ==
    /\ \A t \in Targets : Outputs[t] \in Seq(STRING) /\ Len(Outputs[t]) >= 1
    /\ \A t \in Targets : \A i, j \in 1..Len(Outputs[t]) :
           Outputs[t][i] = Outputs[t][j] => i = j
    /\ \A t, u \in Targets : \A i \in 1..Len(Outputs[t]), j \in 1..Len(Outputs[u]) :
           Outputs[t][i] = Outputs[u][j] => t = u

ASSUME PwmAssumption == PwmValues \subseteq 0..255 /\ BootPwm \subseteq 0..255

VARIABLE chip     \* chip[c]: whether output c is in manual mode, and its duty

MinPwm == 40      \* IT8613_MIN_MANUAL_PWM

OutputState == [manual : BOOLEAN, duty : 0..255]

\* The chip after the first `duties` outputs of target t have received the PWM
\* and the first `modes` have been switched to manual.
Driven(before, t, pwm, modes, duties) ==
    [c \in Channel |->
        [manual |-> before[c].manual \/ \E i \in 1..modes : Outputs[t][i] = c,
         duty |-> IF \E i \in 1..duties : Outputs[t][i] = c THEN pwm ELSE before[c].duty]]

\* How far a transaction can get: each output is switched, then set.
Progress(t) ==
    {p \in [modes : 0..Len(Outputs[t]), duties : 0..Len(Outputs[t])] :
        p.modes \in {p.duties, p.duties + 1}}
Complete(t) == [modes |-> Len(Outputs[t]), duties |-> Len(Outputs[t])]

ChipInit == chip \in [Channel -> [manual : BOOLEAN, duty : BootPwm]]

\* A request below the floor is refused before the chip is touched.
FanSet(t, pwm, p) ==
    /\ pwm >= MinPwm
    /\ p \in Progress(t)
    /\ chip' = Driven(chip, t, pwm, p.modes, p.duties)

ChipNext == \E t \in Targets, pwm \in PwmValues : \E p \in Progress(t) : FanSet(t, pwm, p)

ChipSpec == ChipInit /\ [][ChipNext]_chip
=============================================================================
