---------------------------- MODULE It8613Proofs ----------------------------
(***************************************************************************)
(* The `fan set` transaction for any number of processes, targets and      *)
(* outputs, and that it implements FanChip.                                *)
(***************************************************************************)
EXTENDS It8613, TLAPS

Proc == [step : Steps, path : {"none", "hwmon", "direct"},
         target : Targets \cup {"none", "unknown"}, pwm : 0..255,
         force : BOOLEAN, next : Nat \ {0}]
Waiting == {"hwmon_open", "hwmon_lock", "direct_open", "direct_lock"}
Writing == {"enable", "duty"}

\* What a process has passed: behind the gate its target exists and its PWM is one of
\* the requests' and not below the floor; before the lock it starts with output one.
Passed(r) ==
    /\ r.step = "gate" => r.pwm \in PwmValues /\ r.next = 1
    /\ r.step \in Waiting \cup Writing =>
           r.target \in Targets /\ r.pwm \in PwmValues /\ r.pwm >= MinPwm
    /\ r.step \in Waiting => r.next = 1
    /\ r.step \in Writing => r.next <= Len(Outputs[r.target])
GateInvariant == \A p \in Procs : Passed(proc[p])

\* How many outputs of its target the writer has switched, and how many it has set.
Modes(r) == IF r.step = "enable" THEN r.next - 1 ELSE r.next
Duties(r) == r.next - 1

\* The chip of a transaction in progress is the one it found with a prefix of the outputs
\* driven, and nothing else.
WriteInvariant ==
    \A p \in Procs :
        proc[p].step \in Writing =>
            chip = F!Driven(before, proc[p].target, proc[p].pwm, Modes(proc[p]), Duties(proc[p]))

IInv == TypeOK /\ OneWriter /\ GateInvariant /\ WriteInvariant

-----------------------------------------------------------------------------
(* The chip. *)

LEMMA OutputsFacts ==
    ASSUME NEW t \in Targets
    PROVE  /\ Len(Outputs[t]) \in Nat /\ Len(Outputs[t]) >= 1
           /\ \A i \in 1..Len(Outputs[t]) : Outputs[t][i] \in F!Channel
  BY ChipAssumption DEF F!OutputsAssumption, F!Channel

LEMMA PwmFacts == PwmValues \subseteq 0..255 /\ BootPwm \subseteq 0..255
  BY ChipAssumption DEF F!PwmAssumption

\* Nothing is driven yet.
LEMMA DrivenNothing ==
    ASSUME NEW c \in [F!Channel -> F!OutputState], NEW t, NEW pwm
    PROVE  F!Driven(c, t, pwm, 0, 0) = c
<1>1. \A o \in F!Channel : /\ c[o] = [manual |-> c[o].manual, duty |-> c[o].duty]
                           /\ c[o].manual \in BOOLEAN
  BY DEF F!OutputState
<1> QED
  BY <1>1 DEF F!Driven

LEMMA DrivenType ==
    ASSUME NEW c \in [F!Channel -> F!OutputState], NEW t, NEW pwm \in 0..255, NEW m, NEW d
    PROVE  F!Driven(c, t, pwm, m, d) \in [F!Channel -> F!OutputState]
  BY DEF F!Driven, F!OutputState

\* One more output switched to manual.
LEMMA DriveMode ==
    ASSUME NEW c, NEW t \in Targets, NEW pwm, NEW n \in 1..Len(Outputs[t]), NEW k, k = n - 1, NEW d,
           NEW o \in F!Channel
    PROVE  /\ F!Driven(c, t, pwm, n, d)[o].duty = F!Driven(c, t, pwm, k, d)[o].duty
           /\ o # Outputs[t][n] =>
                  F!Driven(c, t, pwm, n, d)[o].manual = F!Driven(c, t, pwm, k, d)[o].manual
<1>1. Outputs[t][n] \in F!Channel /\ n \in Nat /\ n >= 1
  BY OutputsFacts
<1>2. 1..n = (1..k) \cup {n}
  BY <1>1
<1> QED
  BY <1>1, <1>2 DEF F!Driven

LEMMA DriveModeOn ==
    ASSUME NEW c, NEW t \in Targets, NEW pwm, NEW n \in 1..Len(Outputs[t]), NEW d
    PROVE  F!Driven(c, t, pwm, n, d)[Outputs[t][n]].manual = TRUE
<1>1. Outputs[t][n] \in F!Channel /\ n \in Nat /\ n >= 1
  BY OutputsFacts
<1>2. n \in 1..n
  BY <1>1
<1> QED
  BY <1>1, <1>2 DEF F!Driven

\* One more output set to the PWM.
LEMMA DriveDuty ==
    ASSUME NEW c, NEW t \in Targets, NEW pwm, NEW n \in 1..Len(Outputs[t]), NEW k, k = n - 1, NEW m,
           NEW o \in F!Channel
    PROVE  /\ F!Driven(c, t, pwm, m, n)[o].manual = F!Driven(c, t, pwm, m, k)[o].manual
           /\ IF o = Outputs[t][n] THEN F!Driven(c, t, pwm, m, n)[o].duty = pwm
              ELSE F!Driven(c, t, pwm, m, n)[o].duty = F!Driven(c, t, pwm, m, k)[o].duty
<1>1. Outputs[t][n] \in F!Channel /\ n \in Nat /\ n >= 1
  BY OutputsFacts
<1>2. 1..n = (1..k) \cup {n}
  BY <1>1
<1> QED
  BY <1>1, <1>2 DEF F!Driven

LEMMA DrivenAll ==
    ASSUME NEW c, NEW t \in Targets, NEW pwm
    PROVE  \A i \in 1..Len(Outputs[t]) :
               F!Driven(c, t, pwm, Len(Outputs[t]), Len(Outputs[t]))[Outputs[t][i]]
                   = [manual |-> TRUE, duty |-> pwm]
  BY OutputsFacts DEF F!Driven

-----------------------------------------------------------------------------
(* Steps of one process. *)

LEMMA ProcUpdate ==
    ASSUME TypeOK, NEW p \in Procs, NEW r \in Proc, proc' = [proc EXCEPT ![p] = r]
    PROVE  /\ proc' \in [Procs -> Proc] /\ proc'[p] = r
           /\ \A q \in Procs : q # p => proc'[q] = proc[q]
  BY DEF TypeOK, Proc

LEMMA EndedType ==
    /\ Idle \in Proc /\ Idle.step = "idle" /\ Passed(Idle)
    /\ [Idle EXCEPT !.step = "failed"] \in Proc /\ [Idle EXCEPT !.step = "failed"].step = "failed"
    /\ Passed([Idle EXCEPT !.step = "failed"])
<1>1. 0 \in 0..255 /\ 1 \in Nat \ {0}
  OBVIOUS
<1>2. Idle \in Proc
  BY <1>1 DEF Idle, Proc, Steps
<1>3. [Idle EXCEPT !.step = "failed"] \in Proc
  BY <1>2 DEF Proc, Steps
<1>4. Idle.step = "idle" /\ [Idle EXCEPT !.step = "failed"].step = "failed"
  BY DEF Idle
<1> QED
  BY <1>2, <1>3, <1>4 DEF Passed, Waiting, Writing

\* A step after which process p is not among its writes keeps the invariant: it either
\* held the lock and gave it back, or touched neither lock nor chip.
LEMMA OutsideKeeps ==
    ASSUME IInv, NEW p \in Procs, NEW r \in Proc, proc' = [proc EXCEPT ![p] = r],
           r.step \notin Writing, Passed(r), UNCHANGED driver,
           \/ lock = p /\ Release /\ chip' \in [F!Channel -> F!OutputState]
           \/ lock # p /\ UNCHANGED <<chip, lock, before>>
    PROVE  IInv'
<1>1. proc' \in [Procs -> Proc] /\ proc'[p] = r /\ \A q \in Procs : q # p => proc'[q] = proc[q]
  BY ProcUpdate DEF IInv
<1>2. GateInvariant'
  BY <1>1 DEF IInv, GateInvariant
<1>3. TypeOK'
  <2>1. \A q \in Procs : proc'[q].step \in Writing =>
            proc'[q].target \in Targets /\ proc'[q].next <= Len(Outputs[proc'[q].target])
    BY <1>2 DEF GateInvariant, Passed
  <2> QED
    BY <1>1, <2>1 DEF IInv, TypeOK, Proc, Release, Writing
<1>4. OneWriter'
  BY <1>1, ProcsAssumption DEF IInv, OneWriter, Release, Writing
<1>5. WriteInvariant'
  BY <1>1, ProcsAssumption DEF IInv, OneWriter, WriteInvariant, Release, Writing, Modes, Duties
<1> QED
  BY <1>2, <1>3, <1>4, <1>5 DEF IInv

\* A process that is not among its writes and fails.
LEMMA FailKeeps ==
    ASSUME IInv, NEW p \in Procs, Fail(p), proc[p].step \notin Writing,
           UNCHANGED <<chip, lock, driver, before>>
    PROVE  IInv'
<1>1. lock # p
  BY DEF IInv, OneWriter, Writing
<1> QED
  BY <1>1, EndedType, OutsideKeeps DEF Fail, Writing

\* A process moving on before the lock.
LEMMA MoveKeeps ==
    ASSUME IInv, NEW p \in Procs, NEW step \in Waiting, proc' = [proc EXCEPT ![p].step = step],
           proc[p].step \in Waiting
             \/ /\ proc[p].step = "gate" /\ proc[p].target \in Targets /\ proc[p].pwm >= MinPwm,
           UNCHANGED <<chip, lock, driver, before>>
    PROVE  IInv'
<1>1. lock # p /\ proc[p] \in Proc /\ Passed(proc[p])
  BY DEF IInv, OneWriter, GateInvariant, TypeOK, Proc, Waiting
<1> DEFINE r == [proc[p] EXCEPT !.step = step]
<1>2. /\ r \in Proc /\ r.step = step /\ r.pwm = proc[p].pwm /\ r.next = proc[p].next
      /\ r.target = proc[p].target
  BY <1>1 DEF Proc, Steps, Waiting
<1>3. proc' = [proc EXCEPT ![p] = r]
  BY DEF IInv, TypeOK
<1> HIDE DEF r
<1>4. Passed(r) /\ r.step \notin Writing
  BY <1>1, <1>2 DEF Passed, Waiting, Writing
<1> QED
  BY <1>1, <1>2, <1>3, <1>4, OutsideKeeps

LEMMA CallStep ==
    ASSUME IInv, NEW p \in Procs, NEW t \in Targets \cup {"unknown"}, NEW pwm \in PwmValues,
           NEW force \in BOOLEAN, Call(p, t, pwm, force)
    PROVE  IInv'
<1> DEFINE r == [Idle EXCEPT !.step = "gate", !.target = t, !.pwm = pwm, !.force = force]
<1>1. r \in Proc /\ r.step = "gate" /\ r.pwm = pwm /\ r.next = 1
  <2> DEFINE s == [Idle EXCEPT !.step = "gate"]
             u == [s EXCEPT !.target = t]
             v == [u EXCEPT !.pwm = pwm]
  <2>1. s \in Proc
    BY EndedType DEF Proc, Steps
  <2> HIDE DEF s
  <2>2. u \in Proc
    BY <2>1 DEF Proc
  <2> HIDE DEF u
  <2>3. v \in Proc
    BY <2>2, PwmFacts DEF Proc
  <2> HIDE DEF v
  <2>4. [v EXCEPT !.force = force] \in Proc
    BY <2>3 DEF Proc
  <2>5. r \in Proc
    BY <2>4 DEF s, u, v
  <2>6. r.step = "gate" /\ r.pwm = pwm /\ r.next = 1
    BY DEF Idle
  <2> QED
    BY <2>5, <2>6
<1>2. lock # p
  BY DEF Call, IInv, OneWriter
<1>3. proc' = [proc EXCEPT ![p] = r]
  BY DEF Call
<1> HIDE DEF r
<1>4. Passed(r) /\ r.step \notin Writing
  BY <1>1 DEF Passed, Waiting, Writing
<1> QED
  BY <1>1, <1>2, <1>3, <1>4, OutsideKeeps DEF Call

LEMMA GateStep ==
    ASSUME IInv, NEW p \in Procs, Gate(p)
    PROVE  IInv'
<1>1. CASE Fail(p)
  BY <1>1, FailKeeps DEF Gate, Writing
<1>2. CASE /\ proc' = [proc EXCEPT ![p].step = "hwmon_open"]
           /\ proc[p].target \in Targets /\ ~(proc[p].pwm < MinPwm)
  <2>1. proc[p].pwm \in 0..255
    BY DEF IInv, TypeOK
  <2>2. proc[p].pwm >= MinPwm
    BY <1>2, <2>1 DEF MinPwm
  <2> QED
    BY <1>2, <2>2, MoveKeeps DEF Gate, Waiting
<1> QED
  BY <1>1, <1>2 DEF Gate, Goto

LEMMA OpenStep ==
    ASSUME IInv, NEW p \in Procs, HwmonOpen(p) \/ DirectOpen(p)
    PROVE  IInv'
<1>1. /\ proc[p].step \in {"hwmon_open", "direct_open"}
      /\ UNCHANGED <<chip, lock, driver, before>>
  BY DEF HwmonOpen, DirectOpen
<1>2. CASE Fail(p)
  BY <1>1, <1>2, FailKeeps DEF Writing
<1>3. CASE \E step \in {"hwmon_lock", "direct_lock"} : proc' = [proc EXCEPT ![p].step = step]
  BY <1>1, <1>3, MoveKeeps DEF Waiting
<1> QED
  BY <1>2, <1>3 DEF HwmonOpen, DirectOpen, Goto

\* Taking the lock: the chip is as found, nothing is driven yet.
LEMMA LockKeeps ==
    ASSUME IInv, NEW p \in Procs, NEW path \in {"hwmon", "direct"}, proc[p].step \in Waiting,
           lock = NoProc, lock' = p, before' = chip, UNCHANGED <<chip, driver>>,
           proc' = [proc EXCEPT ![p].step = "enable", ![p].path = path]
    PROVE  IInv'
<1>1. proc[p] \in Proc /\ Passed(proc[p])
  BY DEF IInv, GateInvariant, TypeOK, Proc
<1>2. /\ proc[p].target \in Targets /\ proc[p].pwm \in PwmValues /\ proc[p].pwm >= MinPwm
      /\ proc[p].next = 1 /\ Len(Outputs[proc[p].target]) >= 1
  BY <1>1, OutputsFacts DEF Passed
<1> DEFINE r == [proc[p] EXCEPT !.step = "enable", !.path = path]
<1>3. /\ r \in Proc /\ r.step = "enable" /\ r.pwm = proc[p].pwm /\ r.next = 1
      /\ r.target = proc[p].target
  BY <1>1, <1>2 DEF Proc, Steps
<1>4. proc' = [proc EXCEPT ![p] = r]
  BY DEF IInv, TypeOK
<1> HIDE DEF r
<1>5. proc' \in [Procs -> Proc] /\ proc'[p] = r /\ \A q \in Procs : q # p => proc'[q] = proc[q]
  BY <1>3, <1>4, ProcUpdate DEF IInv
<1>6. \A q \in Procs : q # p => proc'[q].step \notin Writing
  BY <1>5, ProcsAssumption DEF IInv, OneWriter, Writing
<1>7. Passed(r)
  BY <1>2, <1>3 DEF Passed, Waiting, Writing
<1>8. GateInvariant'
  BY <1>5, <1>7 DEF IInv, GateInvariant
<1>9. TypeOK'
  <2>1. \A q \in Procs : proc'[q].step \in Writing =>
            proc'[q].target \in Targets /\ proc'[q].next <= Len(Outputs[proc'[q].target])
    BY <1>8 DEF GateInvariant, Passed
  <2> QED
    BY <1>5, <2>1 DEF IInv, TypeOK, Proc, Writing
<1>10. OneWriter'
  BY <1>3, <1>5, <1>6 DEF OneWriter, Writing
<1>11. WriteInvariant'
  <2>1. chip' = F!Driven(before', r.target, r.pwm, 0, 0)
    BY DrivenNothing DEF IInv, TypeOK
  <2>2. Modes(r) = 0 /\ Duties(r) = 0
    BY <1>3 DEF Modes, Duties
  <2> QED
    BY <1>5, <1>6, <2>1, <2>2 DEF WriteInvariant
<1> QED
  BY <1>8, <1>9, <1>10, <1>11 DEF IInv

LEMMA HwmonLockStep ==
    ASSUME IInv, NEW p \in Procs, HwmonLock(p)
    PROVE  IInv'
<1>1. proc[p].step = "hwmon_lock" /\ lock = NoProc /\ UNCHANGED <<chip, driver>>
  BY DEF HwmonLock
<1>2. CASE /\ lock' = p /\ before' = chip
           /\ proc' = [proc EXCEPT ![p].step = "enable", ![p].path = "hwmon"]
  BY <1>1, <1>2, LockKeeps DEF Waiting
<1>3. CASE Fail(p) /\ UNCHANGED <<lock, before>>
  BY <1>1, <1>3, FailKeeps DEF Writing
<1>4. CASE proc' = [proc EXCEPT ![p].step = "direct_open"] /\ UNCHANGED <<lock, before>>
  BY <1>1, <1>4, MoveKeeps DEF Waiting
<1> QED
  BY <1>2, <1>3, <1>4 DEF HwmonLock, Goto

LEMMA DirectLockStep ==
    ASSUME IInv, NEW p \in Procs, DirectLock(p)
    PROVE  IInv'
<1>1. proc[p].step = "direct_lock" /\ lock = NoProc /\ UNCHANGED <<chip, driver>>
  BY DEF DirectLock
<1>2. CASE /\ lock' = p /\ before' = chip
           /\ proc' = [proc EXCEPT ![p].step = "enable", ![p].path = "direct"]
  BY <1>1, <1>2, LockKeeps DEF Waiting
<1>3. CASE Fail(p) /\ UNCHANGED <<lock, before>>
  BY <1>1, <1>3, FailKeeps DEF Writing
<1> QED
  BY <1>2, <1>3 DEF DirectLock

-----------------------------------------------------------------------------
(* The writes. *)

LEMMA WriterFacts ==
    ASSUME IInv, NEW p \in Procs, proc[p].step \in Writing
    PROVE  /\ lock = p /\ proc[p] \in Proc /\ proc[p].target \in Targets
           /\ proc[p].pwm \in PwmValues /\ proc[p].pwm \in 0..255 /\ proc[p].pwm >= MinPwm
           /\ proc[p].next \in 1..Len(Outputs[proc[p].target])
           /\ before \in [F!Channel -> F!OutputState]
           /\ chip = F!Driven(before, proc[p].target, proc[p].pwm, Modes(proc[p]), Duties(proc[p]))
           /\ \A q \in Procs : q # p => proc[q].step \notin Writing
<1>1. lock = p /\ \A q \in Procs : q # p => proc[q].step \notin Writing
  BY DEF IInv, OneWriter, Writing
<1>2. /\ proc[p] \in Proc /\ Passed(proc[p]) /\ before \in [F!Channel -> F!OutputState]
  BY DEF IInv, GateInvariant, TypeOK, Proc
<1>3. chip = F!Driven(before, proc[p].target, proc[p].pwm, Modes(proc[p]), Duties(proc[p]))
  BY DEF IInv, WriteInvariant
<1>4. /\ proc[p].target \in Targets /\ proc[p].pwm \in PwmValues
      /\ proc[p].pwm >= MinPwm /\ proc[p].next <= Len(Outputs[proc[p].target])
  BY <1>2 DEF Passed
<1>5. proc[p].next \in Nat \ {0} /\ proc[p].pwm \in 0..255
  BY <1>2 DEF Proc
<1>6. Len(Outputs[proc[p].target]) \in Nat
  BY <1>4, OutputsFacts
<1> QED
  BY <1>1, <1>2, <1>3, <1>4, <1>5, <1>6

\* What the chip is after a write of output `next`.
LEMMA EnableDrives ==
    ASSUME IInv, NEW p \in Procs, proc[p].step = "enable"
    PROVE  chip' = [chip EXCEPT ![Out(p)].manual = TRUE] =>
               chip' = F!Driven(before, proc[p].target, proc[p].pwm, proc[p].next, proc[p].next - 1)
<1> DEFINE t == proc[p].target
           n == proc[p].next
           a == F!Driven(before, t, proc[p].pwm, n - 1, n - 1)
           b == F!Driven(before, t, proc[p].pwm, n, n - 1)
<1>1. /\ chip = a /\ t \in Targets /\ n \in 1..Len(Outputs[t])
      /\ before \in [F!Channel -> F!OutputState] /\ proc[p].pwm \in 0..255
  BY WriterFacts DEF Writing, Modes, Duties
<1>2. Out(p) \in F!Channel /\ Out(p) = Outputs[t][n]
  BY <1>1, OutputsFacts DEF Out
<1>3. /\ a \in [F!Channel -> F!OutputState] /\ b \in [F!Channel -> F!OutputState]
      /\ chip \in [F!Channel -> F!OutputState]
  BY <1>1, DrivenType
<1>4. ASSUME NEW o \in F!Channel
      PROVE  /\ b[o].duty = a[o].duty
             /\ IF o = Out(p) THEN b[o].manual = TRUE ELSE b[o].manual = a[o].manual
  <2> HIDE DEF t, n
  <2>1. b[o].duty = a[o].duty
    BY <1>1, <1>2, DriveMode
  <2>2. CASE o = Out(p)
    <3>1. b[Outputs[t][n]].manual = TRUE
      BY <1>1, DriveModeOn, Zenon
    <3> QED
      BY <1>2, <2>1, <2>2, <3>1, Zenon
  <2>3. CASE o # Out(p)
    BY <1>1, <1>2, <2>1, <2>3, DriveMode
  <2> QED
    BY <2>2, <2>3
<1> HIDE DEF a, b
<1>5. chip' = [chip EXCEPT ![Out(p)].manual = TRUE] => chip' = b
  <2> DEFINE v == TRUE
  <2>1. \A o \in F!Channel : /\ b[o].duty = chip[o].duty
                             /\ o = Out(p) => b[o].manual = v
                             /\ o # Out(p) => b[o].manual = chip[o].manual
    BY <1>1, <1>4
  <2>2. \A o \in F!Channel : /\ b[o] = [manual |-> b[o].manual, duty |-> b[o].duty]
                             /\ chip[o] = [manual |-> chip[o].manual, duty |-> chip[o].duty]
    BY <1>3 DEF F!OutputState
  <2> HIDE DEF v
  <2>3. [chip EXCEPT ![Out(p)].manual = v] = b
    BY <1>2, <1>3, <2>1, <2>2
  <2> QED
    BY <2>3 DEF v
<1> QED
  BY <1>5 DEF b

LEMMA DutyDrives ==
    ASSUME IInv, NEW p \in Procs, proc[p].step = "duty"
    PROVE  chip' = [chip EXCEPT ![Out(p)].duty = proc[p].pwm] =>
               chip' = F!Driven(before, proc[p].target, proc[p].pwm, proc[p].next, proc[p].next)
<1> DEFINE t == proc[p].target
           n == proc[p].next
           a == F!Driven(before, t, proc[p].pwm, n, n - 1)
           b == F!Driven(before, t, proc[p].pwm, n, n)
<1>1. /\ chip = a /\ t \in Targets /\ n \in 1..Len(Outputs[t])
      /\ before \in [F!Channel -> F!OutputState] /\ proc[p].pwm \in 0..255
  BY WriterFacts DEF Writing, Modes, Duties
<1>2. Out(p) \in F!Channel /\ Out(p) = Outputs[t][n]
  BY <1>1, OutputsFacts DEF Out
<1>3. /\ a \in [F!Channel -> F!OutputState] /\ b \in [F!Channel -> F!OutputState]
      /\ chip \in [F!Channel -> F!OutputState]
  BY <1>1, DrivenType
<1>4. ASSUME NEW o \in F!Channel
      PROVE  /\ b[o].manual = a[o].manual
             /\ IF o = Out(p) THEN b[o].duty = proc[p].pwm ELSE b[o].duty = a[o].duty
  <2> HIDE DEF t, n
  <2> QED
    BY <1>1, <1>2, DriveDuty
<1> HIDE DEF a, b
<1>5. chip' = [chip EXCEPT ![Out(p)].duty = proc[p].pwm] => chip' = b
  <2> DEFINE v == proc[p].pwm
  <2>1. \A o \in F!Channel : /\ b[o].manual = chip[o].manual
                             /\ o = Out(p) => b[o].duty = v
                             /\ o # Out(p) => b[o].duty = chip[o].duty
    BY <1>1, <1>4
  <2>2. \A o \in F!Channel : /\ b[o] = [manual |-> b[o].manual, duty |-> b[o].duty]
                             /\ chip[o] = [manual |-> chip[o].manual, duty |-> chip[o].duty]
    BY <1>3 DEF F!OutputState
  <2> HIDE DEF v
  <2>3. [chip EXCEPT ![Out(p)].duty = v] = b
    BY <1>2, <1>3, <2>1, <2>2
  <2> QED
    BY <2>3 DEF v
<1> QED
  BY <1>5 DEF b

\* A write that goes on to the next one, under the lock.
LEMMA WriteKeeps ==
    ASSUME IInv, NEW p \in Procs, proc[p].step \in Writing, NEW r \in Proc, r.step \in Writing,
           r.target = proc[p].target, r.pwm = proc[p].pwm, r.next <= Len(Outputs[r.target]),
           proc' = [proc EXCEPT ![p] = r], KeepLock, UNCHANGED driver,
           chip' = F!Driven(before, r.target, r.pwm, Modes(r), Duties(r))
    PROVE  IInv'
<1>1. proc' \in [Procs -> Proc] /\ proc'[p] = r /\ \A q \in Procs : q # p => proc'[q] = proc[q]
  BY ProcUpdate DEF IInv
<1>2. /\ lock = p /\ proc[p].target \in Targets /\ proc[p].pwm \in PwmValues
      /\ proc[p].pwm \in 0..255 /\ proc[p].pwm >= MinPwm
      /\ before \in [F!Channel -> F!OutputState]
      /\ \A q \in Procs : q # p => proc[q].step \notin Writing
  BY WriterFacts
<1>3. Passed(r)
  BY <1>2 DEF Passed, Waiting, Writing
<1>4. GateInvariant'
  BY <1>1, <1>3 DEF IInv, GateInvariant
<1>5. chip' \in [F!Channel -> F!OutputState]
  BY <1>2, DrivenType
<1>6. TypeOK'
  <2>1. \A q \in Procs : proc'[q].step \in Writing =>
            proc'[q].target \in Targets /\ proc'[q].next <= Len(Outputs[proc'[q].target])
    BY <1>4 DEF GateInvariant, Passed
  <2> QED
    BY <1>1, <1>5, <2>1 DEF IInv, TypeOK, Proc, Writing, KeepLock
<1>7. OneWriter'
  BY <1>1, <1>2 DEF OneWriter, Writing, KeepLock
<1>8. WriteInvariant'
  BY <1>1, <1>2 DEF WriteInvariant, KeepLock
<1> QED
  BY <1>4, <1>6, <1>7, <1>8 DEF IInv

\* A write that ends the transaction, whatever it left in the chip.
LEMMA WriteFailedKeeps ==
    ASSUME IInv, NEW p \in Procs, proc[p].step \in Writing, WriteFailed(p), UNCHANGED driver,
           chip' \in [F!Channel -> F!OutputState]
    PROVE  IInv'
<1>1. lock = p /\ Release
  BY WriterFacts DEF WriteFailed
<1>2. CASE Fail(p)
  BY <1>1, <1>2, EndedType, OutsideKeeps DEF Fail, Writing
<1> DEFINE r == [proc[p] EXCEPT !.step = "direct_open", !.path = "none", !.next = 1]
<1>3. /\ r \in Proc /\ r.step = "direct_open" /\ r.pwm = proc[p].pwm /\ r.next = 1
      /\ r.target = proc[p].target
  <2> DEFINE u == [proc[p] EXCEPT !.step = "direct_open", !.path = "none"]
  <2>1. proc[p] \in Proc
    BY WriterFacts
  <2>2. /\ u \in Proc /\ u.step = "direct_open" /\ u.pwm = proc[p].pwm
        /\ u.target = proc[p].target
    BY <2>1 DEF Proc, Steps
  <2>3. r = [u EXCEPT !.next = 1]
    OBVIOUS
  <2> HIDE DEF u, r
  <2> QED
    BY <2>2, <2>3 DEF Proc
<1>4. CASE proc' = [proc EXCEPT ![p].step = "direct_open", ![p].path = "none", ![p].next = 1]
  <2>1. proc' = [proc EXCEPT ![p] = r]
    BY <1>4 DEF IInv, TypeOK
  <2> HIDE DEF r
  <2>2. Passed(r) /\ r.step \notin Writing
    BY <1>3, WriterFacts DEF Passed, Waiting, Writing
  <2> QED
    BY <1>1, <1>3, <2>1, <2>2, OutsideKeeps
<1> QED
  BY <1>2, <1>4 DEF WriteFailed

LEMMA EnableStep ==
    ASSUME IInv, NEW p \in Procs, Enable(p)
    PROVE  IInv'
<1>1. proc[p].step = "enable" /\ proc[p].step \in Writing /\ UNCHANGED driver
  BY DEF Enable, Writing
<1>2. /\ proc[p] \in Proc /\ proc[p].target \in Targets /\ proc[p].pwm \in 0..255
      /\ proc[p].next \in 1..Len(Outputs[proc[p].target])
      /\ before \in [F!Channel -> F!OutputState]
  BY <1>1, WriterFacts
<1> DEFINE Switched ==
      chip' = F!Driven(before, proc[p].target, proc[p].pwm, proc[p].next, proc[p].next - 1)
<1>3. Switched \/ UNCHANGED chip
  BY <1>1, EnableDrives, Zenon DEF Enable
<1>4. chip' \in [F!Channel -> F!OutputState]
  <2>1. CASE Switched
    BY <1>2, <2>1, DrivenType, Zenon
  <2>2. CASE UNCHANGED chip
    BY <2>2 DEF IInv, TypeOK
  <2> QED
    BY <1>3, <2>1, <2>2
<1>5. CASE WriteFailed(p)
  BY <1>1, <1>4, <1>5, WriteFailedKeeps
<1>6. CASE Switched /\ Goto(p, "duty") /\ KeepLock
  <2> DEFINE r == [proc[p] EXCEPT !.step = "duty"]
  <2>1. /\ r \in Proc /\ r.step = "duty" /\ r.pwm = proc[p].pwm /\ r.next = proc[p].next
        /\ r.target = proc[p].target
    BY <1>2 DEF Proc, Steps
  <2>2. proc' = [proc EXCEPT ![p] = r]
    BY <1>6 DEF Goto, IInv, TypeOK
  <2> HIDE DEF r
  <2>3. Modes(r) = proc[p].next /\ Duties(r) = proc[p].next - 1 /\ r.next <= Len(Outputs[r.target])
    BY <1>2, <2>1 DEF Modes, Duties
  <2>4. chip' = F!Driven(before, r.target, r.pwm, Modes(r), Duties(r))
    BY <1>6, <2>1, <2>3
  <2> QED
    BY <1>1, <1>6, <2>1, <2>2, <2>3, <2>4, WriteKeeps DEF Writing
<1> QED
  BY <1>1, <1>5, <1>6, EnableDrives, Zenon DEF Enable

LEMMA DutyStep ==
    ASSUME IInv, NEW p \in Procs, Duty(p)
    PROVE  IInv'
<1>1. proc[p].step = "duty" /\ proc[p].step \in Writing /\ UNCHANGED driver
  BY DEF Duty, Writing
<1>2. /\ proc[p] \in Proc /\ proc[p].target \in Targets /\ proc[p].pwm \in 0..255
      /\ proc[p].next \in 1..Len(Outputs[proc[p].target])
      /\ before \in [F!Channel -> F!OutputState] /\ lock = p
      /\ Len(Outputs[proc[p].target]) \in Nat
  BY <1>1, WriterFacts, OutputsFacts
<1> DEFINE Set ==
      chip' = F!Driven(before, proc[p].target, proc[p].pwm, proc[p].next, proc[p].next)
<1>3. Set \/ UNCHANGED chip
  BY <1>1, DutyDrives, Zenon DEF Duty
<1>4. chip' \in [F!Channel -> F!OutputState]
  <2>1. CASE Set
    BY <1>2, <2>1, DrivenType, Zenon
  <2>2. CASE UNCHANGED chip
    BY <2>2 DEF IInv, TypeOK
  <2> QED
    BY <1>3, <2>1, <2>2
<1>5. CASE WriteFailed(p)
  BY <1>1, <1>4, <1>5, WriteFailedKeeps
<1> DEFINE r == [proc[p] EXCEPT !.step = "enable", !.next = @ + 1]
<1>6. /\ r \in Proc /\ r.step = "enable" /\ r.pwm = proc[p].pwm /\ r.next = proc[p].next + 1
      /\ r.target = proc[p].target
  <2> DEFINE u == [proc[p] EXCEPT !.step = "enable"]
             n == proc[p].next + 1
  <2>1. proc[p] \in Proc
    BY <1>2
  <2>2. n \in Nat \ {0}
    BY <2>1 DEF Proc
  <2>3. u \in Proc /\ u.step = "enable" /\ u.pwm = proc[p].pwm /\ u.target = proc[p].target
    BY <2>1 DEF Proc, Steps
  <2>4. r = [u EXCEPT !.next = n]
    OBVIOUS
  <2> HIDE DEF u, r, n
  <2>5. /\ r \in Proc /\ r.step = "enable" /\ r.pwm = proc[p].pwm /\ r.next = n
        /\ r.target = proc[p].target
    BY <2>2, <2>3, <2>4 DEF Proc
  <2> QED
    BY <2>5 DEF n
<1>7. CASE /\ Set /\ proc[p].next < Len(Outputs[proc[p].target])
           /\ proc' = [proc EXCEPT ![p].step = "enable", ![p].next = @ + 1]
           /\ KeepLock
  <2>1. proc' = [proc EXCEPT ![p] = r]
    BY <1>7 DEF IInv, TypeOK
  <2> HIDE DEF r
  <2>2. Modes(r) = proc[p].next /\ Duties(r) = proc[p].next /\ r.next <= Len(Outputs[r.target])
    BY <1>2, <1>7, <1>6 DEF Modes, Duties
  <2>3. chip' = F!Driven(before, r.target, r.pwm, Modes(r), Duties(r))
    BY <1>7, <1>6, <2>2
  <2> QED
    BY <1>1, <1>7, <1>6, <2>1, <2>2, <2>3, WriteKeeps DEF Writing
<1>8. CASE Goto(p, "done") /\ Release
  <2> DEFINE q == [proc[p] EXCEPT !.step = "done"]
  <2>1. q \in Proc /\ q.step = "done"
    BY <1>2 DEF Proc, Steps
  <2>2. proc' = [proc EXCEPT ![p] = q]
    BY <1>8 DEF Goto, IInv, TypeOK
  <2> HIDE DEF q
  <2>3. Passed(q) /\ q.step \notin Writing
    BY <2>1 DEF Passed, Waiting, Writing
  <2> QED
    BY <1>1, <1>2, <1>4, <1>8, <2>1, <2>2, <2>3, OutsideKeeps
<1> QED
  BY <1>1, <1>5, <1>7, <1>8, DutyDrives, Zenon DEF Duty

-----------------------------------------------------------------------------
(* The other steps, and the invariant. *)

LEMMA KillStep ==
    ASSUME IInv, NEW p \in Procs, Kill(p)
    PROVE  IInv'
<1>1. Fail(p) /\ UNCHANGED <<chip, driver>>
  BY DEF Kill
<1>2. \/ lock = p /\ Release /\ chip' \in [F!Channel -> F!OutputState]
      \/ lock # p /\ UNCHANGED <<chip, lock, before>>
  BY DEF Kill, KeepLock, IInv, TypeOK
<1> QED
  BY <1>1, <1>2, EndedType, OutsideKeeps DEF Fail, Writing

LEMMA ExitStep ==
    ASSUME IInv, NEW p \in Procs, Exit(p)
    PROVE  IInv'
<1>1. lock # p
  BY DEF Exit, IInv, OneWriter
<1> QED
  BY <1>1, EndedType, OutsideKeeps DEF Exit, Writing

\* A driver that is loaded or unloaded changes nothing the transactions promise.
LEMMA DriverKeeps ==
    ASSUME IInv, driver' \in Drivers, UNCHANGED <<chip, lock, proc, before>>
    PROVE  IInv'
  BY DEF IInv, TypeOK, OneWriter, GateInvariant, WriteInvariant

LEMMA InitIInv == Init => IInv
<1> SUFFICES ASSUME Init
             PROVE  IInv
  OBVIOUS
<1>1. \A p \in Procs : proc[p] = Idle
  BY DEF Init
<1>2. \A p \in Procs : proc[p] \in Proc /\ proc[p].step = "idle" /\ Passed(proc[p])
  BY <1>1, EndedType
<1>3. chip \in [F!Channel -> F!OutputState]
  BY PwmFacts DEF Init, F!OutputState
<1>4. TypeOK
  BY <1>2, <1>3 DEF Init, TypeOK, Proc
<1>5. OneWriter
  BY <1>2, ProcsAssumption DEF Init, OneWriter
<1>6. GateInvariant /\ WriteInvariant
  BY <1>2 DEF GateInvariant, WriteInvariant, Writing
<1> QED
  BY <1>4, <1>5, <1>6 DEF IInv

LEMMA NextIInv == IInv /\ [Next]_vars => IInv'
<1> SUFFICES ASSUME IInv, [Next]_vars
             PROVE  IInv'
  OBVIOUS
<1>1. ASSUME NEW p \in Procs, Step(p) PROVE IInv'
  BY <1>1, GateStep, OpenStep, HwmonLockStep, DirectLockStep, EnableStep, DutyStep, ExitStep
     DEF Step
<1>2. ASSUME NEW p \in Procs, Kill(p) PROVE IInv'
  BY <1>2, KillStep
<1>3. ASSUME NEW p \in Procs, NEW t \in Targets \cup {"unknown"}, NEW pwm \in PwmValues,
             NEW force \in BOOLEAN, Call(p, t, pwm, force)
      PROVE  IInv'
  BY <1>3, CallStep
<1>4. ASSUME NEW d \in Drivers, ChangeDriver(d) PROVE IInv'
  BY <1>4, DriverKeeps DEF ChangeDriver
<1>5. CASE UNCHANGED vars
  BY <1>5, DriverKeeps DEF vars, IInv, TypeOK
<1> QED
  BY <1>1, <1>2, <1>3, <1>4, <1>5 DEF Next

LEMMA Inductive == Spec => []IInv
  BY InitIInv, NextIInv, PTL DEF Spec

\* Every register write, lock and process of the transaction stays in its type: no path
\* writes an output past the end of the target's channel list.
THEOREM TypeCorrect == Spec => []TypeOK
<1>1. IInv => TypeOK
  BY DEF IInv
<1> QED
  BY <1>1, Inductive, PTL

\* However many processes call `fan set`, fail, are killed or fall back to direct I/O, one
\* at a time is among its register writes, and it is the holder of the lock file.
THEOREM OneWriterAlways == Spec => []OneWriter
<1>1. IInv => OneWriter
  BY DEF IInv
<1> QED
  BY <1>1, Inductive, PTL

-----------------------------------------------------------------------------
(* Success. *)

\* Process p is the only one whose step changes, to `step`.
MovesTo(p, step) ==
    \A q \in Procs : proc'[q].step = IF q = p THEN step ELSE proc[q].step

LEMMA RecordTo ==
    ASSUME IInv, NEW p \in Procs, NEW r, proc' = [proc EXCEPT ![p] = r]
    PROVE  MovesTo(p, r.step)
  BY DEF IInv, TypeOK, MovesTo

LEMMA FailTo ==
    ASSUME IInv, NEW p \in Procs, Fail(p)
    PROVE  MovesTo(p, "failed")
<1> DEFINE r == [Idle EXCEPT !.step = "failed"]
<1>1. r.step = "failed" /\ proc' = [proc EXCEPT ![p] = r]
  BY EndedType DEF Fail
<1> HIDE DEF r
<1> QED
  BY <1>1, RecordTo

LEMMA StepTo ==
    ASSUME IInv, NEW p \in Procs, NEW step, proc' = [proc EXCEPT ![p].step = step]
    PROVE  MovesTo(p, step)
  BY DEF IInv, TypeOK, MovesTo

LEMMA PathTo ==
    ASSUME IInv, NEW p \in Procs, NEW step, NEW path,
           proc' = [proc EXCEPT ![p].step = step, ![p].path = path]
    PROVE  MovesTo(p, step)
  BY DEF IInv, TypeOK, MovesTo

LEMMA RetryTo ==
    ASSUME IInv, NEW p \in Procs,
           proc' = [proc EXCEPT ![p].step = "direct_open", ![p].path = "none", ![p].next = 1]
    PROVE  MovesTo(p, "direct_open")
  BY DEF IInv, TypeOK, MovesTo

LEMMA NextTo ==
    ASSUME IInv, NEW p \in Procs,
           proc' = [proc EXCEPT ![p].step = "enable", ![p].next = @ + 1]
    PROVE  MovesTo(p, "enable")
  BY DEF IInv, TypeOK, MovesTo

LEMMA CallTo ==
    ASSUME IInv, NEW p \in Procs, NEW t, NEW pwm, NEW force, Call(p, t, pwm, force)
    PROVE  MovesTo(p, "gate")
<1> DEFINE r == [Idle EXCEPT !.step = "gate", !.target = t, !.pwm = pwm, !.force = force]
<1>1. r.step = "gate"
  BY DEF Idle
<1>2. proc' = [proc EXCEPT ![p] = r]
  BY DEF Call
<1> HIDE DEF r
<1> QED
  BY <1>1, <1>2, RecordTo

LEMMA WriteFailedTo ==
    ASSUME IInv, NEW p \in Procs, WriteFailed(p)
    PROVE  MovesTo(p, "failed") \/ MovesTo(p, "direct_open")
  BY FailTo, RetryTo DEF WriteFailed

\* Where a process can be after one step; the only step that ends in success is the write
\* of the last duty.
LEMMA StepsTo ==
    ASSUME IInv, NEW p \in Procs, Step(p) \/ Kill(p)
    PROVE  \/ \E step \in Steps \ {"done"} : MovesTo(p, step)
           \/ /\ MovesTo(p, "done") /\ proc[p].step = "duty"
              /\ proc[p].next = Len(Outputs[proc[p].target])
              /\ chip' = [chip EXCEPT ![Out(p)].duty = proc[p].pwm]
<1> DEFINE Other == \E step \in Steps \ {"done"} : MovesTo(p, step)
<1>1. ASSUME Fail(p) PROVE Other
  BY <1>1, FailTo DEF Steps
<1>2. ASSUME WriteFailed(p) PROVE Other
  BY <1>2, WriteFailedTo DEF Steps
<1>3. ASSUME NEW step \in Steps \ {"done"}, Goto(p, step) PROVE Other
  BY <1>1, <1>3, StepTo, Zenon DEF Goto
<1>4. CASE Gate(p) \/ HwmonOpen(p) \/ DirectOpen(p)
  BY <1>3, <1>4 DEF Gate, HwmonOpen, DirectOpen, Steps
<1>5. CASE HwmonLock(p) \/ DirectLock(p)
  <2>1. ASSUME NEW path, proc' = [proc EXCEPT ![p].step = "enable", ![p].path = path]
        PROVE  Other
    BY <2>1, PathTo DEF Steps
  <2>2. Goto(p, "direct_open") => Other
    BY <1>3 DEF Steps
  <2> QED
    BY <1>1, <1>5, <2>1, <2>2, Zenon DEF HwmonLock, DirectLock
<1>6. CASE Enable(p)
  <2>1. Goto(p, "duty") => Other
    BY <1>3 DEF Steps
  <2> QED
    BY <1>2, <1>6, <2>1, Zenon DEF Enable
<1>7. CASE Duty(p)
  <2>1. ASSUME proc' = [proc EXCEPT ![p].step = "enable", ![p].next = @ + 1]
        PROVE  Other
    BY <2>1, NextTo DEF Steps
  <2>2. Goto(p, "done") => MovesTo(p, "done")
    <3>1. SUFFICES ASSUME proc' = [proc EXCEPT ![p].step = "done"]
                   PROVE  MovesTo(p, "done")
      BY DEF Goto
    <3> QED
      BY <3>1, StepTo
  <2> QED
    BY <1>2, <1>7, <2>1, <2>2, Zenon DEF Duty
<1>8. CASE Exit(p) \/ Kill(p)
  <2>1. proc' = [proc EXCEPT ![p] = Idle] => MovesTo(p, "idle")
    BY RecordTo, EndedType, Zenon
  <2> QED
    BY <1>1, <1>8, <2>1 DEF Exit, Kill, Steps
<1> QED
  BY <1>4, <1>5, <1>6, <1>7, <1>8 DEF Step

\* A call that reports success has driven every output of its target.
LEMMA DoneDrives ==
    ASSUME IInv, [Next]_vars, NEW p \in Procs, proc[p].step # "done", proc'[p].step = "done"
    PROVE  \A i \in 1..Len(Outputs[proc[p].target]) :
               chip'[Outputs[proc[p].target][i]] = [manual |-> TRUE, duty |-> proc[p].pwm]
<1>1. /\ proc[p].step = "duty" /\ proc[p].next = Len(Outputs[proc[p].target])
      /\ chip' = [chip EXCEPT ![Out(p)].duty = proc[p].pwm]
  <2>1. ASSUME NEW q \in Procs, Step(q) \/ Kill(q)
        PROVE  /\ proc[p].step = "duty" /\ proc[p].next = Len(Outputs[proc[p].target])
               /\ chip' = [chip EXCEPT ![Out(p)].duty = proc[p].pwm]
    <3>1. \A step \in Steps \ {"done"} : ~MovesTo(q, step)
      BY DEF MovesTo
    <3>2. MovesTo(q, "done") => q = p
      BY DEF MovesTo
    <3> QED
      BY <2>1, <3>1, <3>2, StepsTo, Zenon
  <2>2. ASSUME NEW q \in Procs, NEW t, NEW pwm, NEW force, Call(q, t, pwm, force)
        PROVE  FALSE
    BY <2>2, CallTo DEF MovesTo
  <2>3. ASSUME UNCHANGED proc PROVE FALSE
    BY <2>3
  <2> QED
    BY <2>1, <2>2, <2>3, Zenon DEF Next, ChangeDriver, vars
<1>2. proc[p].target \in Targets
  BY <1>1, WriterFacts DEF Writing
<1>3. chip' = F!Driven(before, proc[p].target, proc[p].pwm,
                       Len(Outputs[proc[p].target]), Len(Outputs[proc[p].target]))
  BY <1>1, DutyDrives, Zenon
<1> DEFINE t == proc[p].target
           k == Len(Outputs[t])
<1>4. \A i \in 1..k : F!Driven(before, t, proc[p].pwm, k, k)[Outputs[t][i]]
                          = [manual |-> TRUE, duty |-> proc[p].pwm]
  BY <1>2, DrivenAll
<1> QED
  BY <1>3, <1>4, Zenon

\* `fan set` reports success only when every output of its target is in manual mode at the
\* requested duty, whatever other processes, kills and driver changes came in between.
THEOREM SuccessMeansAllOutputsSetAlways == Spec => SuccessMeansAllOutputsSet
<1>1. IInv /\ [Next]_vars =>
        [\A p \in Procs :
            (proc[p].step # "done" /\ proc'[p].step = "done") =>
                \A i \in 1..Len(Outputs[proc[p].target]) :
                    chip'[Outputs[proc[p].target][i]] = [manual |-> TRUE, duty |-> proc[p].pwm]]_vars
  BY DoneDrives, Zenon
<1> QED
  BY <1>1, Inductive, PTL DEF Spec, SuccessMeansAllOutputsSet

-----------------------------------------------------------------------------
(* The transaction implements FanChip: what others see of the chip is what it was when *)
(* the lock was taken, until the lock is released.                                     *)

Seen == IF lock = NoProc THEN chip ELSE before

\* A step that leaves what is seen as it is.
Quiet ==
    \/ lock = NoProc /\ lock' = NoProc /\ UNCHANGED chip
    \/ lock = NoProc /\ lock' # NoProc /\ before' = chip
    \/ lock # NoProc /\ UNCHANGED <<lock, before>>

LEMMA QuietStutters == Quiet => UNCHANGED Seen
  BY DEF Quiet, Seen

LEMMA SameDriven ==
    ASSUME NEW c, NEW t, NEW pwm, NEW m, NEW d
    PROVE  F!Driven(c, t, pwm, m, d) = Committed!Driven(c, t, pwm, m, d)
  BY Zenon DEF F!Driven, Committed!Driven, F!Channel, Committed!Channel

\* Releasing the lock after m modes and d duties is one request of the abstract chip that
\* got that far.
LEMMA ReleaseCommits ==
    ASSUME IInv, NEW p \in Procs, proc[p].step \in Writing, Release,
           NEW m \in 0..Len(Outputs[proc[p].target]), NEW d \in 0..Len(Outputs[proc[p].target]),
           m \in {d, d + 1},
           chip' = F!Driven(before, proc[p].target, proc[p].pwm, m, d)
    PROVE  Committed!ChipNext
<1>1. /\ lock = p /\ proc[p].target \in Targets /\ proc[p].pwm \in PwmValues
      /\ proc[p].pwm >= MinPwm
  BY WriterFacts
<1>2. Seen = before /\ Seen' = chip'
  BY <1>1, ProcsAssumption DEF Seen, Release
<1> DEFINE g == [modes |-> m, duties |-> d]
<1>3. g \in Committed!Progress(proc[p].target) /\ g.modes = m /\ g.duties = d
  BY DEF Committed!Progress
<1> HIDE DEF g
<1>4. Seen' = Committed!Driven(Seen, proc[p].target, proc[p].pwm, g.modes, g.duties)
  BY <1>2, <1>3, SameDriven, Zenon
<1>5. Committed!FanSet(proc[p].target, proc[p].pwm, g)
  BY <1>1, <1>3, <1>4, Zenon DEF Committed!FanSet, Committed!MinPwm, MinPwm, Seen
<1> QED
  BY <1>1, <1>3, <1>5, Zenon DEF Committed!ChipNext

\* The three ways a transaction can end: where it was, one mode further, one duty further.
LEMMA EndCommits ==
    ASSUME IInv, NEW p \in Procs, proc[p].step \in Writing, Release,
           \/ UNCHANGED chip
           \/ proc[p].step = "enable" /\ chip' = [chip EXCEPT ![Out(p)].manual = TRUE]
           \/ proc[p].step = "duty" /\ chip' = [chip EXCEPT ![Out(p)].duty = proc[p].pwm]
    PROVE  Committed!ChipNext
<1> DEFINE t == proc[p].target
           n == proc[p].next
           After(m, d) == chip' = F!Driven(before, t, proc[p].pwm, m, d)
<1>1. /\ t \in Targets /\ n \in 1..Len(Outputs[t]) /\ Len(Outputs[t]) \in Nat
      /\ chip = F!Driven(before, t, proc[p].pwm, Modes(proc[p]), Duties(proc[p]))
  BY WriterFacts, OutputsFacts
<1>2. After(n - 1, n - 1) \/ After(n, n - 1) \/ After(n, n)
  <2>1. CASE UNCHANGED chip
    BY <1>1, <2>1 DEF Modes, Duties
  <2>2. CASE proc[p].step = "enable" /\ chip' = [chip EXCEPT ![Out(p)].manual = TRUE]
    BY <2>2, EnableDrives, Zenon
  <2>3. CASE proc[p].step = "duty" /\ chip' = [chip EXCEPT ![Out(p)].duty = proc[p].pwm]
    BY <2>3, DutyDrives, Zenon
  <2> QED
    BY <2>1, <2>2, <2>3, Zenon
<1>3. /\ n \in 0..Len(Outputs[t]) /\ n - 1 \in 0..Len(Outputs[t])
      /\ n \in {n - 1, (n - 1) + 1}
  BY <1>1
<1> QED
  BY <1>2, <1>3, ReleaseCommits, Zenon

\* Steps of one process: before its writes it is quiet, among them it keeps the lock
\* or ends its transaction.
LEMMA OutsideQuiet ==
    ASSUME UNCHANGED <<chip, lock, before>>
    PROVE  Quiet
  BY DEF Quiet

LEMMA LockQuiet ==
    ASSUME NEW p \in Procs, HwmonLock(p) \/ DirectLock(p)
    PROVE  Quiet
  BY ProcsAssumption, Zenon DEF HwmonLock, DirectLock, Quiet

LEMMA WriteCommits ==
    ASSUME IInv, NEW p \in Procs, Enable(p) \/ Duty(p)
    PROVE  Quiet \/ Committed!ChipNext
<1>1. proc[p].step \in Writing
  BY DEF Enable, Duty, Writing
<1>2. lock = p /\ lock # NoProc
  BY <1>1, WriterFacts, ProcsAssumption
<1>3. KeepLock \/ Release
  BY Zenon DEF Enable, Duty, WriteFailed
<1>4. \/ UNCHANGED chip
      \/ proc[p].step = "enable" /\ chip' = [chip EXCEPT ![Out(p)].manual = TRUE]
      \/ proc[p].step = "duty" /\ chip' = [chip EXCEPT ![Out(p)].duty = proc[p].pwm]
  BY Zenon DEF Enable, Duty
<1>5. CASE KeepLock
  BY <1>2, <1>5 DEF KeepLock, Quiet
<1>6. CASE Release
  BY <1>1, <1>4, <1>6, EndCommits, Zenon
<1> QED
  BY <1>3, <1>5, <1>6

LEMMA KillCommits ==
    ASSUME IInv, NEW p \in Procs, Kill(p)
    PROVE  Quiet \/ Committed!ChipNext
<1>1. CASE lock = p
  <2>1. proc[p].step \in Writing
    BY <1>1 DEF IInv, OneWriter, Writing
  <2> QED
    BY <1>1, <2>1, EndCommits DEF Kill
<1>2. CASE lock # p
  BY <1>2, OutsideQuiet DEF Kill, KeepLock
<1> QED
  BY <1>1, <1>2

LEMMA NextCommits == IInv /\ [Next]_vars => [Committed!ChipNext]_Seen
<1> SUFFICES ASSUME IInv, [Next]_vars
             PROVE  Quiet \/ Committed!ChipNext
  BY QuietStutters
<1>1. ASSUME NEW p \in Procs, Step(p) PROVE Quiet \/ Committed!ChipNext
  BY <1>1, LockQuiet, WriteCommits, OutsideQuiet DEF Step, Gate, HwmonOpen, DirectOpen, Exit
<1>2. ASSUME NEW p \in Procs, Kill(p) PROVE Quiet \/ Committed!ChipNext
  BY <1>2, KillCommits
<1>3. ASSUME NEW p, NEW t, NEW pwm, NEW force, Call(p, t, pwm, force) PROVE Quiet
  BY <1>3, OutsideQuiet DEF Call
<1>4. ASSUME NEW d \in Drivers, ChangeDriver(d) PROVE Quiet
  BY <1>4, OutsideQuiet DEF ChangeDriver
<1>5. CASE UNCHANGED vars
  BY <1>5, OutsideQuiet DEF vars
<1> QED
  BY <1>1, <1>2, <1>3, <1>4, <1>5, Zenon DEF Next

\* Seen from outside, every `fan set` happens at once when its lock is released: a prefix of
\* the outputs of one target is driven to one PWM that is not below the floor, and no
\* interleaving, error, fallback or kill shows anything else.
THEOREM Refinement == Spec => ActsAtomically
<1>1. Init => Committed!ChipInit
  BY Zenon DEF Init, Committed!ChipInit, Committed!Channel, F!Channel
<1>2. IInv /\ [Next]_vars => [Committed!ChipNext]_(IF lock = NoProc THEN chip ELSE before)
  BY NextCommits, Zenon DEF Seen
<1> QED
  BY <1>1, <1>2, Inductive, PTL DEF Spec, ActsAtomically, Committed!ChipSpec
=============================================================================
