------------------------------- MODULE It8613 -------------------------------
(***************************************************************************)
(* The `fan set` transaction of the model plugins: the process gates, the  *)
(* hwmon path, the fallback to direct Super I/O access, the lock both      *)
(* paths share and the register writes, for several ugreenctl processes    *)
(* at once while kernel drivers come and go.                               *)
(***************************************************************************)
EXTENDS Integers, Sequences

CONSTANTS
    Procs,          \* ugreenctl processes (the daemon's child, operators)
    Targets, Outputs, PwmValues, BootPwm,   \* as in FanChip
    RequiresForce   \* TRUE for firmware-reversed models

VARIABLES
    chip,      \* chip[c]: manual mode and duty of PWM output c
    lock,      \* holder of /run/ugreenctl-it8613.lock, or NoProc
    driver,    \* who owns the controller in the kernel
    proc,      \* proc[p]: where process p is in its transaction
    before     \* history: the chip when the lock was taken, and while it is free

vars == <<chip, lock, driver, proc, before>>

NoProc == "none"
ASSUME ProcsAssumption == NoProc \notin Procs
ASSUME ForceAssumption == RequiresForce \in BOOLEAN

F == INSTANCE FanChip
ASSUME ChipAssumption == F!OutputsAssumption /\ F!PwmAssumption
Drivers == {"nobody", "it87", "vendor"}
MinPwm == 40

Steps == {"idle", "gate", "hwmon_open", "hwmon_lock", "direct_open", "direct_lock",
          "enable", "duty", "done", "failed"}
Idle == [step |-> "idle", path |-> "none", target |-> "none", pwm |-> 0,
         force |-> FALSE, next |-> 1]

TypeOK ==
    /\ chip \in [F!Channel -> F!OutputState]
    /\ lock \in Procs \cup {NoProc}
    /\ driver \in Drivers
    /\ proc \in [Procs -> [step : Steps, path : {"none", "hwmon", "direct"},
                           target : Targets \cup {"none", "unknown"}, pwm : 0..255,
                           force : BOOLEAN, next : Nat \ {0}]]
    /\ \A p \in Procs : proc[p].step \in {"enable", "duty"} =>
           proc[p].target \in Targets /\ proc[p].next <= Len(Outputs[proc[p].target])
    /\ before \in [F!Channel -> F!OutputState]

Init ==
    /\ chip \in [F!Channel -> [manual : BOOLEAN, duty : BootPwm]]
    /\ lock = NoProc
    /\ driver \in Drivers
    /\ proc = [p \in Procs |-> Idle]
    /\ before = chip

Fail(p) == proc' = [proc EXCEPT ![p] = [Idle EXCEPT !.step = "failed"]]
Goto(p, step) == IF step = "failed" THEN Fail(p) ELSE proc' = [proc EXCEPT ![p].step = step]
Release == lock' = NoProc /\ before' = chip'
KeepLock == UNCHANGED <<lock, before>>
Out(p) == Outputs[proc[p].target][proc[p].next]

\* ugreenctl --apply [--force] fan set <target> <pwm>, the exact model matched.
Call(p, t, pwm, force) ==
    /\ proc[p].step = "idle"
    /\ proc' = [proc EXCEPT ![p] = [Idle EXCEPT !.step = "gate", !.target = t,
                                                !.pwm = pwm, !.force = force]]
    /\ UNCHANGED <<chip, lock, driver, before>>

\* The plugin's force gate, its target names and the PWM floor, in that order:
\* any of them ends the process before the controller is looked at.
Gate(p) ==
    /\ proc[p].step = "gate"
    /\ Goto(p, IF \/ RequiresForce /\ ~proc[p].force
                  \/ proc[p].target \notin Targets
                  \/ proc[p].pwm < MinPwm
               THEN "failed" ELSE "hwmon_open")
    /\ UNCHANGED <<chip, lock, driver, before>>

\* it8613_hwmon_open before the lock: the vendor's modules exclude hwmon use.
HwmonOpen(p) ==
    /\ proc[p].step = "hwmon_open"
    /\ Goto(p, IF driver = "vendor" THEN "failed" ELSE "hwmon_lock")
    /\ UNCHANGED <<chip, lock, driver, before>>

\* The blocking flock, then the search for the it8613 hwmon node, which only
\* it87 makes.  Without a node (-ENODEV) the lock is dropped and only --force
\* goes on to direct I/O; any other error of the search ends the call.
HwmonLock(p) ==
    /\ proc[p].step = "hwmon_lock" /\ lock = NoProc
    /\ \/ /\ driver = "it87"
          /\ lock' = p
          /\ before' = chip
          /\ proc' = [proc EXCEPT ![p].step = "enable", ![p].path = "hwmon"]
       \/ /\ Fail(p) \/ (proc[p].force /\ Goto(p, "direct_open"))
          /\ UNCHANGED <<lock, before>>
    /\ UNCHANGED <<chip, driver>>

\* it86x_open before the lock: any owner, it87 included, excludes direct I/O.
DirectOpen(p) ==
    /\ proc[p].step = "direct_open"
    /\ Goto(p, IF driver # "nobody" THEN "failed" ELSE "direct_lock")
    /\ UNCHANGED <<chip, lock, driver, before>>

\* Mutant: the lock is taken without waiting for its holder.
DirectLock_nowait(p) ==
    /\ proc[p].step = "direct_lock"
    /\ \/ /\ lock' = p
          /\ before' = chip
          /\ proc' = [proc EXCEPT ![p].step = "enable", ![p].path = "direct"]
       \/ Fail(p) /\ UNCHANGED <<lock, before>>
    /\ UNCHANGED <<chip, driver>>

\* The blocking flock, port permission and the chip identity, which may fail.
DirectLock(p) ==
    /\ proc[p].step = "direct_lock" /\ lock = NoProc
    /\ \/ /\ lock' = p
          /\ before' = chip
          /\ proc' = [proc EXCEPT ![p].step = "enable", ![p].path = "direct"]
       \/ Fail(p) /\ UNCHANGED <<lock, before>>
    /\ UNCHANGED <<chip, driver>>

\* sysfs accepts a write only while the driver that made the node is loaded.
Writable(p) == proc[p].path = "hwmon" => driver = "it87"

\* A failed write closes the device.  Only -ENODEV, from a node that vanished
\* under an hwmon transaction, lets a forced call start over with direct I/O.
WriteFailed(p) ==
    /\ \/ Fail(p)
       \/ /\ ~Writable(p) /\ proc[p].force
          /\ proc' = [proc EXCEPT ![p].step = "direct_open", ![p].path = "none", ![p].next = 1]
    /\ Release

\* Switch the next output to manual and verify.  The write may be refused, or
\* be accepted and then not be confirmed: both end the transaction, and what
\* was written stays written.
Enable(p) ==
    /\ proc[p].step = "enable"
    /\ \/ /\ Writable(p)
          /\ chip' = [chip EXCEPT ![Out(p)].manual = TRUE]
          /\ \/ Goto(p, "duty") /\ KeepLock
             \/ WriteFailed(p)
       \/ UNCHANGED chip /\ WriteFailed(p)
    /\ UNCHANGED driver

\* Mutant: the outputs after the first are not written.
Duty_first_only(p) ==
    /\ proc[p].step = "duty"
    /\ \/ /\ Writable(p)
          /\ chip' = [chip EXCEPT ![Out(p)].duty = proc[p].pwm]
          /\ Goto(p, "done") /\ Release
       \/ UNCHANGED chip /\ WriteFailed(p)
    /\ UNCHANGED driver

\* Mutant: an unconfirmed duty returns without closing the device.
Duty_keeps_lock(p) ==
    /\ proc[p].step = "duty"
    /\ \/ /\ Writable(p)
          /\ chip' = [chip EXCEPT ![Out(p)].duty = proc[p].pwm]
          /\ IF proc[p].next < Len(Outputs[proc[p].target])
             THEN /\ proc' = [proc EXCEPT ![p].step = "enable", ![p].next = @ + 1]
                  /\ KeepLock
             ELSE Goto(p, "done") /\ Release
       \/ UNCHANGED chip /\ KeepLock /\ Fail(p)
    /\ UNCHANGED driver

\* Mutant: the loop over the outputs runs once too often.
Duty_past_end(p) ==
    /\ proc[p].step = "duty"
    /\ \/ /\ Writable(p)
          /\ chip' = [chip EXCEPT ![Out(p)].duty = proc[p].pwm]
          /\ proc' = [proc EXCEPT ![p].step = "enable", ![p].next = @ + 1]
          /\ KeepLock
       \/ UNCHANGED chip /\ WriteFailed(p)
    /\ UNCHANGED driver

\* Write the duty of the same output and verify.  Closing the device after the
\* last output releases the lock.
Duty(p) ==
    /\ proc[p].step = "duty"
    /\ \/ /\ Writable(p)
          /\ chip' = [chip EXCEPT ![Out(p)].duty = proc[p].pwm]
          /\ \/ /\ proc[p].next < Len(Outputs[proc[p].target])
                /\ proc' = [proc EXCEPT ![p].step = "enable", ![p].next = @ + 1]
                /\ KeepLock
             \/ /\ proc[p].next = Len(Outputs[proc[p].target])
                /\ Goto(p, "done") /\ Release
             \/ WriteFailed(p)
       \/ UNCHANGED chip /\ WriteFailed(p)
    /\ UNCHANGED driver

\* The kernel closes the lock file of a process that is killed.
Kill(p) ==
    /\ proc[p].step \notin {"idle", "done", "failed"}
    /\ Fail(p)
    /\ UNCHANGED <<chip, driver>>
    /\ IF lock = p THEN Release ELSE KeepLock

Exit(p) ==
    /\ proc[p].step \in {"done", "failed"}
    /\ proc' = [proc EXCEPT ![p] = Idle]
    /\ UNCHANGED <<chip, lock, driver, before>>

\* modprobe and rmmod, by the administrator or at boot.
ChangeDriver(d) ==
    /\ d # driver
    /\ driver' = d
    /\ UNCHANGED <<chip, lock, proc, before>>

Step(p) ==
    \/ Gate(p) \/ HwmonOpen(p) \/ HwmonLock(p) \/ DirectOpen(p) \/ DirectLock(p)
    \/ Enable(p) \/ Duty(p) \/ Exit(p)

Next ==
    \/ \E p \in Procs : Step(p) \/ Kill(p)
    \/ \E p \in Procs, t \in Targets \cup {"unknown"}, pwm \in PwmValues, force \in BOOLEAN :
           Call(p, t, pwm, force)
    \/ \E d \in Drivers : ChangeDriver(d)

Spec == Init /\ [][Next]_vars

\* A process keeps running, and flock serves its waiters in turn.
Fairness ==
    \A p \in Procs : /\ WF_vars(Gate(p) \/ HwmonOpen(p) \/ DirectOpen(p) \/ Enable(p)
                                \/ Duty(p) \/ Exit(p))
                     /\ SF_vars(HwmonLock(p)) /\ SF_vars(DirectLock(p))
FairSpec == Spec /\ Fairness

-----------------------------------------------------------------------------
(* What the transaction promises. *)

\* The controller has one user at a time: a process is among its register
\* writes exactly while it holds the lock, on every error path and after a kill.
OneWriter ==
    \A p \in Procs : proc[p].step \in {"enable", "duty"} <=> lock = p

\* Seen from outside, every transaction happens at once, when its lock is
\* released: the refinement mapping hides the registers it is still writing.
Committed == INSTANCE FanChip WITH chip <- IF lock = NoProc THEN chip ELSE before
ActsAtomically == Committed!ChipSpec

\* `fan set` reports success only when every output of the target is in manual
\* mode at the requested duty, whatever other processes did meanwhile
\* (set_channel_manual_pwm over all channels under one lock).
SuccessMeansAllOutputsSet ==
    [][\A p \in Procs :
        (proc[p].step # "done" /\ proc'[p].step = "done") =>
            \A i \in 1..Len(Outputs[proc[p].target]) :
                chip'[Outputs[proc[p].target][i]] = [manual |-> TRUE, duty |-> proc[p].pwm]]_vars

\* Every ugreenctl call ends: no path leaves the lock behind for the next one.
EveryCallReturns ==
    \A p \in Procs : (proc[p].step # "idle") ~> (proc[p].step = "idle")

\* README.md:295: "The direct path refuses to run while any vendor interface or
\* `it87` owns the controller".
DirectStartsUnowned ==
    [][\A p \in Procs :
        (proc[p].path # "direct" /\ proc'[p].path = "direct") => driver = "nobody"]_vars
=============================================================================
