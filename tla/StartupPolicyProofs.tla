------------------------ MODULE StartupPolicyProofs ------------------------
(***************************************************************************)
(* The AC-recovery helper's promises for any number of helpers and BIOS    *)
(* identities.                                                             *)
(***************************************************************************)
EXTENDS StartupPolicy, TLAPS

\* The steps a helper takes while it holds startup.lock, and those after its child
\* has written and verified both registers.
Locked == {"write", "f4", "readback", "save", "sync"}
Verified == {"readback", "save", "sync"}

\* startup.lock excludes: only its holder is past the lock.
LockInvariant == \A p \in Helpers : run[p].step \in Locked => lock = p

\* A run knows its command, has reported nothing yet, and from the lock on it carries a
\* policy: the one asked for, or the one read under the lock.
RunInvariant ==
    \A p \in Helpers :
        /\ run[p].step # "idle" => run[p].command \in {"set", "apply"} /\ run[p].result = "none"
        /\ run[p].step # "idle" /\ run[p].command = "set" => run[p].wanted \in Policies
        /\ run[p].step \in Locked => run[p].wanted \in Policies
        /\ run[p].step \in {"save", "sync"} => run[p].command = "set"

\* The record between the rename and the sync of the directory.
SyncInvariant ==
    \A p \in Helpers :
        run[p].step = "sync" => file = [policy |-> run[p].wanted, identity |-> identity]

\* Registers nobody else touched hold the policy of the run that verified them, and the
\* saved one when there is no such run; a half-written pair is not verified.
RegisterInvariant ==
    /\ \A p \in Helpers : run[p].step = "f4" => loose
    /\ ~loose => \A p \in Helpers : run[p].step \in Verified => decode_policy(regs) = run[p].wanted
    /\ ~loose /\ (\A p \in Helpers : run[p].step \notin Verified) => decode_policy(regs) = file.policy

IInv ==
    /\ TypeOK /\ LockInvariant /\ RunInvariant /\ AppliesNewest /\ SyncInvariant
    /\ RegisterInvariant

Run == [step : Steps, command : {"none", "set", "apply"}, wanted : Policies \cup {"none"},
        result : Results]

-----------------------------------------------------------------------------
(* The operators. *)

\* Writing both registers of a policy makes them decode as that policy.
LEMMA WriteDecodes ==
    ASSUME NEW policy \in Policies
    PROVE  /\ [f2 |-> F2(policy), f4 |-> F4(policy)] \in Registers
           /\ decode_policy([f2 |-> F2(policy), f4 |-> F4(policy)]) = policy
  BY DEF Policies, F2, F4, decode_policy, Registers

LEMMA FirstRegisterType ==
    ASSUME regs \in Registers, NEW policy, FirstRegister(policy)
    PROVE  regs' \in Registers
  BY DEF FirstRegister, Registers, F2

\* A record made under one of the machine's identities is not the missing one.
LEMMA RecordFacts ==
    /\ NoRecord \in Records
    /\ \A r \in Records : r.identity \in Identities => r.policy \in Policies /\ r # NoRecord
    /\ \A r \in Records : r = [policy |-> r.policy, identity |-> r.identity]
                          /\ r.policy \in Policies \cup {"none"}
                          /\ (r # NoRecord => r.policy \in Policies)
    /\ \A w \in Policies, i \in Identities : [policy |-> w, identity |-> i] \in Records
  BY IdentityAssumption DEF Records, NoRecord

LEMMA InitIInv == Init => IInv
<1> SUFFICES ASSUME Init PROVE IInv
  OBVIOUS
<1>1. Idle \in Run
  BY DEF Idle, Run, Steps, Results
<1>2. \A p \in Helpers : run[p] = Idle
  BY DEF Init
<1>3. TypeOK
  BY <1>1, RecordFacts DEF Init, TypeOK, NoHelper, NoOrphan, Run
<1> QED
  BY <1>2, <1>3 DEF Init, IInv, LockInvariant, RunInvariant, AppliesNewest, SyncInvariant,
        RegisterInvariant, Idle, Locked, Verified

-----------------------------------------------------------------------------
(* Steps of one helper. *)

LEMMA RunUpdate ==
    ASSUME TypeOK, NEW p \in Helpers, NEW r \in Run, run' = [run EXCEPT ![p] = r]
    PROVE  /\ run' \in [Helpers -> Run] /\ run'[p] = r
           /\ \A q \in Helpers : q # p => run'[q] = run[q]
  BY DEF TypeOK, Run

LEMMA GotoUpdate ==
    ASSUME TypeOK, NEW p \in Helpers, NEW step \in Steps, Goto(p, step)
    PROVE  /\ run' \in [Helpers -> Run]
           /\ run'[p] = [run[p] EXCEPT !.step = step]
           /\ run'[p].step = step /\ run'[p].wanted = run[p].wanted
           /\ run'[p].command = run[p].command /\ run'[p].result = run[p].result
           /\ \A q \in Helpers : q # p => run'[q] = run[q]
  BY DEF TypeOK, Run, Goto

\* A helper that is past the lock is the only one.
LEMMA Alone ==
    ASSUME IInv, NEW p \in Helpers, run[p].step \in Locked
    PROVE  \A q \in Helpers : q # p => run[q].step \notin Locked /\ run[q].step \notin Verified
  BY DEF IInv, LockInvariant, Locked, Verified

\* A run that ends, with a report or by a kill, keeps the invariant: it leaves the record
\* and the identity alone, and either the registers are no longer vouched for or they
\* are untouched and, if this run vouched for them, hold the saved policy.
LEMMA EndKeeps ==
    ASSUME IInv, NEW p \in Helpers, NEW result \in Results,
           run' = [run EXCEPT ![p] = [Idle EXCEPT !.result = result]],
           lock' = Unlocked(p), UNCHANGED <<file, identity>>,
           regs' \in Registers, disk' \in Records, promised' \in Records,
           entry' \in {"none", "visible", "durable"}, lost' \in BOOLEAN,
           orphan' \in [wanted : Policies, step : {"write", "f4"}] \cup {NoOrphan},
           loose' \in BOOLEAN,
           \/ loose'
           \/ /\ UNCHANGED <<regs, loose>>
              /\ run[p].step \in Verified => run[p].wanted = file.policy
    PROVE  IInv'
<1> DEFINE r == [step |-> "idle", command |-> "none", wanted |-> "none", result |-> result]
<1>1. r = [Idle EXCEPT !.result = result] /\ r \in Run
  BY DEF Idle, Run, Steps
<1>2. run' \in [Helpers -> Run] /\ run'[p] = r /\ \A q \in Helpers : q # p => run'[q] = run[q]
  <2> HIDE DEF r
  <2> QED
    BY <1>1, RunUpdate DEF IInv
<1>3. TypeOK'
  BY <1>2 DEF IInv, TypeOK, Run, Unlocked
<1>4. LockInvariant'
  BY <1>2 DEF IInv, LockInvariant, Unlocked, Locked
<1>5. RunInvariant' /\ AppliesNewest' /\ SyncInvariant'
  BY <1>2 DEF IInv, RunInvariant, AppliesNewest, SyncInvariant, Locked
<1>6. RegisterInvariant'
  <2>1. CASE loose'
    BY <2>1, <1>2 DEF IInv, RegisterInvariant
  <2>2. CASE ~loose'
    <3>1. /\ UNCHANGED <<regs, loose>> /\ ~loose
          /\ run[p].step \in Verified => run[p].wanted = file.policy
      BY <2>2
    <3>2. CASE run[p].step \in Verified
      <4>1. decode_policy(regs) = file.policy
        BY <3>1, <3>2 DEF IInv, RegisterInvariant
      <4>2. \A q \in Helpers : run'[q].step \notin Verified /\ run'[q].step # "f4"
        BY <1>2, <3>2, Alone DEF Verified, Locked
      <4> QED
        BY <4>1, <4>2, <3>1 DEF RegisterInvariant
    <3>3. CASE run[p].step \notin Verified
      BY <1>2, <3>1, <3>3 DEF IInv, RegisterInvariant, Verified
    <3> QED
      BY <3>2, <3>3
  <2> QED
    BY <2>1, <2>2
<1> QED
  BY <1>3, <1>4, <1>5, <1>6 DEF IInv

LEMMA BeginStep ==
    ASSUME IInv, NEW p \in Helpers, Begin(p)
    PROVE  IInv'
<1>1. PICK r \in Run :
        /\ run' = [run EXCEPT ![p] = r]
        /\ r.step = "open" /\ r.result = "none" /\ r.command \in {"set", "apply"}
        /\ r.command = "set" => r.wanted \in Policies
  <2>1. CASE \E policy \in Policies \cup {"last"} :
                 run' = [run EXCEPT ![p] = [Idle EXCEPT !.step = "open", !.command = "set",
                                                        !.wanted = Normalized(policy)]]
    <3>1. PICK policy \in Policies \cup {"last"} :
                 run' = [run EXCEPT ![p] = [Idle EXCEPT !.step = "open", !.command = "set",
                                                        !.wanted = Normalized(policy)]]
      BY <2>1
    <3>2. Normalized(policy) \in Policies
      BY DEF Normalized, Policies
    <3> DEFINE r == [Idle EXCEPT !.step = "open", !.command = "set", !.wanted = Normalized(policy)]
    <3>3. /\ r \in Run /\ r.step = "open" /\ r.result = "none" /\ r.command = "set"
          /\ r.wanted \in Policies
      BY <3>2 DEF Idle, Run, Steps, Results
    <3> QED
      BY <3>1, <3>3
  <2>2. CASE run' = [run EXCEPT ![p] = [Idle EXCEPT !.step = "open", !.command = "apply"]]
    <3> DEFINE r == [Idle EXCEPT !.step = "open", !.command = "apply"]
    <3>1. r \in Run /\ r.step = "open" /\ r.result = "none" /\ r.command = "apply"
      BY DEF Idle, Run, Steps, Results
    <3> QED
      BY <2>2, <3>1
  <2> QED
    BY <2>1, <2>2 DEF Begin
<1>2. run' \in [Helpers -> Run] /\ run'[p] = r /\ \A q \in Helpers : q # p => run'[q] = run[q]
  BY <1>1, RunUpdate DEF IInv
<1>3. run[p].step = "idle"
  BY DEF Begin
<1>4. UNCHANGED <<regs, entry, file, disk, identity, lock, orphan, promised, lost, loose>>
  BY DEF Begin
<1>5. TypeOK'
  BY <1>2, <1>4 DEF IInv, TypeOK, Run
<1>6. LockInvariant' /\ AppliesNewest' /\ SyncInvariant'
  BY <1>1, <1>2, <1>4 DEF IInv, LockInvariant, AppliesNewest, SyncInvariant, Locked
<1>7. RunInvariant'
  BY <1>1, <1>2 DEF IInv, RunInvariant, Locked
<1>8. RegisterInvariant'
  BY <1>1, <1>2, <1>3, <1>4 DEF IInv, RegisterInvariant, Verified
<1> QED
  BY <1>5, <1>6, <1>7, <1>8 DEF IInv

\* Every ending of Open and Lock, and every "attempted" one, keeps the invariant.
LEMMA EarlyReportKeeps ==
    ASSUME IInv, NEW p \in Helpers, NEW result \in Results, Report(p, result),
           run[p].step \notin Verified,
           UNCHANGED <<regs, entry, file, disk, identity, orphan, promised, lost, loose>>
    PROVE  IInv'
  BY EndKeeps DEF Report, IInv, TypeOK

LEMMA LooseReportKeeps ==
    ASSUME IInv, NEW p \in Helpers, Report(p, "attempted"), loose' = TRUE, regs' \in Registers,
           UNCHANGED <<entry, file, disk, identity, orphan, promised, lost>>
    PROVE  IInv'
<1>1. "attempted" \in Results
  BY DEF Results
<1> QED
  BY <1>1, EndKeeps DEF Report, IInv, TypeOK

\* A run that goes on between the steps before the lock keeps the invariant.
LEMMA WaitKeeps ==
    ASSUME IInv, NEW p \in Helpers, NEW step \in {"open", "mkdir"}, Goto(p, step),
           run[p].step \in {"open", "mkdir"}, entry' \in {"none", "visible", "durable"},
           UNCHANGED <<regs, file, disk, identity, lock, orphan, promised, lost, loose>>
    PROVE  IInv'
<1>1. step \in Steps
  BY DEF Steps
<1>2. /\ run' \in [Helpers -> Run] /\ run'[p].step = step /\ run'[p].wanted = run[p].wanted
      /\ run'[p].command = run[p].command /\ run'[p].result = run[p].result
      /\ \A q \in Helpers : q # p => run'[q] = run[q]
  BY <1>1, GotoUpdate DEF IInv
<1>3. TypeOK'
  BY <1>2 DEF IInv, TypeOK, Run
<1>4. LockInvariant' /\ AppliesNewest' /\ SyncInvariant'
  BY <1>2 DEF IInv, LockInvariant, AppliesNewest, SyncInvariant, Locked
<1>5. RunInvariant'
  BY <1>2 DEF IInv, RunInvariant, Locked
<1>6. RegisterInvariant'
  BY <1>2 DEF IInv, RegisterInvariant, Verified
<1> QED
  BY <1>3, <1>4, <1>5, <1>6 DEF IInv

LEMMA OpenStep ==
    ASSUME IInv, NEW p \in Helpers, Open(p)
    PROVE  IInv'
<1>1. run[p].step = "open" /\ UNCHANGED <<regs, file, disk, identity, orphan, promised, lost, loose>>
  BY DEF Open
<1>2. CASE (Report(p, "nothing") \/ Report(p, "untouched")) /\ UNCHANGED entry
  BY <1>1, <1>2, EarlyReportKeeps DEF Results, Verified
<1>3. CASE entry' = "visible" /\ Goto(p, "mkdir") /\ UNCHANGED lock
  BY <1>1, <1>3, WaitKeeps DEF Steps
<1>4. CASE /\ IF run[p].command = "set" THEN entry # "none" ELSE file # NoRecord
           /\ run' = [run EXCEPT ![p].step = "lock", ![p].wanted = Wanted(p)]
           /\ UNCHANGED <<entry, lock>>
  <2>1. run[p] \in Run /\ Wanted(p) \in Policies \cup {"none"}
    BY RecordFacts DEF IInv, TypeOK, Run, Wanted
  <2> DEFINE r == [run[p] EXCEPT !.step = "lock", !.wanted = Wanted(p)]
  <2>2. /\ r \in Run /\ r.step = "lock" /\ r.wanted = Wanted(p)
        /\ r.command = run[p].command /\ r.result = run[p].result
    BY <2>1 DEF Run, Steps
  <2>3. run' = [run EXCEPT ![p] = r]
    BY <1>4 DEF IInv, TypeOK
  <2> HIDE DEF r
  <2>4. run' \in [Helpers -> Run] /\ run'[p] = r /\ \A q \in Helpers : q # p => run'[q] = run[q]
    BY <2>2, <2>3, RunUpdate DEF IInv
  <2>5. TypeOK'
    BY <1>1, <1>4, <2>4 DEF IInv, TypeOK, Run
  <2>6. LockInvariant' /\ AppliesNewest' /\ SyncInvariant'
    BY <1>1, <1>4, <2>2, <2>4 DEF IInv, LockInvariant, AppliesNewest, SyncInvariant, Locked
  <2>7. RunInvariant'
    BY <1>1, <1>4, <2>2, <2>4 DEF IInv, RunInvariant, Locked, Wanted
  <2>8. RegisterInvariant'
    BY <1>1, <2>2, <2>4 DEF IInv, RegisterInvariant, Verified
  <2> QED
    BY <2>5, <2>6, <2>7, <2>8 DEF IInv
<1> QED
  BY <1>2, <1>4, <1>3 DEF Open

LEMMA SyncParentStep ==
    ASSUME IInv, NEW p \in Helpers, SyncParent(p)
    PROVE  IInv'
<1>1. /\ run[p].step = "mkdir"
      /\ UNCHANGED <<regs, file, disk, identity, orphan, promised, lost, loose>>
  BY DEF SyncParent
<1>2. CASE Report(p, "untouched") /\ UNCHANGED entry
  BY <1>1, <1>2, EarlyReportKeeps DEF Results, Verified
<1>3. CASE entry' = "durable" /\ Goto(p, "open") /\ UNCHANGED lock
  BY <1>1, <1>3, WaitKeeps
<1> QED
  BY <1>2, <1>3 DEF SyncParent

LEMMA LockStep ==
    ASSUME IInv, NEW p \in Helpers, Lock(p)
    PROVE  IInv'
<1>1. run[p].step = "lock" /\ UNCHANGED <<regs, entry, file, disk, identity, orphan, promised, lost, loose>>
  BY DEF Lock
<1>2. CASE Report(p, "untouched")
  BY <1>1, <1>2, EarlyReportKeeps DEF Results, Verified
<1>3. CASE /\ lock = NoHelper
           /\ run[p].command = "apply" => file.identity = identity
           /\ lock' = p
           /\ run' = [run EXCEPT ![p].step = "write", ![p].wanted = Wanted(p)]
  <2>1. /\ run[p] \in Run /\ file \in Records /\ identity \in Identities
        /\ run[p].command \in {"set", "apply"} /\ run[p].result = "none"
        /\ run[p].command = "set" => run[p].wanted \in Policies
    BY <1>1 DEF IInv, TypeOK, Run, RunInvariant
  <2>2. /\ Wanted(p) \in Policies
        /\ run[p].command = "apply" => file = [policy |-> Wanted(p), identity |-> identity]
    BY <1>3, <2>1, RecordFacts DEF Wanted
  <2> DEFINE r == [run[p] EXCEPT !.step = "write", !.wanted = Wanted(p)]
  <2>3. /\ r \in Run /\ r.step = "write" /\ r.wanted = Wanted(p)
        /\ r.command = run[p].command /\ r.result = run[p].result
    BY <2>1, <2>2 DEF Run, Steps
  <2>4. run' = [run EXCEPT ![p] = r]
    BY <1>3 DEF IInv, TypeOK
  <2> HIDE DEF r
  <2>5. run' \in [Helpers -> Run] /\ run'[p] = r /\ \A q \in Helpers : q # p => run'[q] = run[q]
    BY <2>3, <2>4, RunUpdate DEF IInv
  <2>6. TypeOK'
    BY <1>1, <1>3, <2>5 DEF IInv, TypeOK, Run
  <2>7. LockInvariant'
    BY <1>3, <2>5, HelperAssumption DEF IInv, LockInvariant
  <2>8. AppliesNewest'
    BY <1>1, <2>2, <2>3, <2>5 DEF IInv, AppliesNewest
  <2>9. RunInvariant' /\ SyncInvariant'
    BY <1>1, <2>1, <2>2, <2>3, <2>5 DEF IInv, RunInvariant, SyncInvariant, Locked
  <2>10. RegisterInvariant'
    BY <1>1, <2>3, <2>5 DEF IInv, RegisterInvariant, Verified
  <2> QED
    BY <2>6, <2>7, <2>8, <2>9, <2>10 DEF IInv
<1> QED
  BY <1>2, <1>3 DEF Lock

LEMMA ChildBeginsStep ==
    ASSUME IInv, NEW p \in Helpers, ChildBegins(p)
    PROVE  IInv'
<1>1. run[p].step = "write" /\ UNCHANGED <<entry, file, disk, identity, orphan, promised, lost>>
  BY DEF ChildBegins
<1>2. CASE FirstRegister(run[p].wanted) /\ loose' = TRUE
  <2>1. regs' \in Registers
    BY <1>2, FirstRegisterType DEF IInv, TypeOK
  <2>2. CASE Report(p, "attempted")
    BY <1>1, <1>2, <2>1, <2>2, LooseReportKeeps
  <2>3. CASE Goto(p, "f4") /\ UNCHANGED lock
    <3>1. /\ run' \in [Helpers -> Run] /\ run'[p].step = "f4" /\ run'[p].wanted = run[p].wanted
          /\ run'[p].command = run[p].command /\ run'[p].result = run[p].result
          /\ \A q \in Helpers : q # p => run'[q] = run[q]
      BY <2>3, GotoUpdate DEF IInv, Steps
    <3>2. TypeOK'
      BY <1>1, <1>2, <2>1, <2>3, <3>1 DEF IInv, TypeOK, Run
    <3>3. LockInvariant' /\ AppliesNewest'
      BY <1>1, <2>3, <3>1 DEF IInv, LockInvariant, AppliesNewest, Locked
    <3>4. RunInvariant' /\ SyncInvariant'
      BY <1>1, <3>1 DEF IInv, RunInvariant, SyncInvariant, Locked
    <3>5. RegisterInvariant'
      BY <1>2 DEF RegisterInvariant
    <3> QED
      BY <3>2, <3>3, <3>4, <3>5 DEF IInv
  <2> QED
    BY <1>2, <2>2, <2>3 DEF ChildBegins
<1>3. CASE Report(p, "attempted") /\ UNCHANGED <<regs, loose>>
  BY <1>1, <1>3, EarlyReportKeeps DEF Results, Verified
<1> QED
  BY <1>2, <1>3 DEF ChildBegins

LEMMA ChildEndsStep ==
    ASSUME IInv, NEW p \in Helpers, ChildEnds(p)
    PROVE  IInv'
<1>1. run[p].step = "f4" /\ UNCHANGED <<entry, file, disk, identity, orphan, promised, lost>>
  BY DEF ChildEnds
<1>2. loose = TRUE /\ run[p].wanted \in Policies /\ lock = p
  BY <1>1 DEF IInv, TypeOK, RegisterInvariant, RunInvariant, LockInvariant, Locked
<1>3. CASE SecondRegister(run[p].wanted)
  <2>1. regs' \in Registers /\ decode_policy(regs') = run[p].wanted
    BY <1>2, <1>3, WriteDecodes DEF SecondRegister
  <2>2. CASE Report(p, "attempted") /\ UNCHANGED loose
    BY <1>1, <1>2, <2>1, <2>2, LooseReportKeeps
  <2>3. CASE Goto(p, "readback") /\ loose' = FALSE /\ UNCHANGED lock
    <3>1. /\ run' \in [Helpers -> Run] /\ run'[p].step = "readback"
          /\ run'[p].wanted = run[p].wanted
          /\ run'[p].command = run[p].command /\ run'[p].result = run[p].result
          /\ \A q \in Helpers : q # p => run'[q] = run[q]
      BY <2>3, GotoUpdate DEF IInv, Steps
    <3>2. TypeOK'
      BY <1>1, <2>1, <2>3, <3>1 DEF IInv, TypeOK, Run
    <3>3. LockInvariant' /\ AppliesNewest'
      BY <1>1, <1>2, <2>3, <3>1 DEF IInv, LockInvariant, AppliesNewest, Locked
    <3>4. RunInvariant' /\ SyncInvariant'
      BY <1>1, <3>1 DEF IInv, RunInvariant, SyncInvariant, Locked
    <3>5. RegisterInvariant'
      <4>1. \A q \in Helpers : q # p => run'[q].step \notin Verified /\ run'[q].step # "f4"
        BY <1>1, <3>1, Alone DEF Locked
      <4> QED
        BY <2>1, <2>3, <3>1, <4>1 DEF RegisterInvariant, Verified
    <3> QED
      BY <3>2, <3>3, <3>4, <3>5 DEF IInv
  <2> QED
    BY <1>3, <2>2, <2>3 DEF ChildEnds
<1>4. CASE Report(p, "attempted") /\ UNCHANGED <<regs, loose>>
  BY <1>1, <1>2, <1>4, EarlyReportKeeps DEF Results, Verified
<1> QED
  BY <1>3, <1>4 DEF ChildEnds

LEMMA ReadbackStep ==
    ASSUME IInv, NEW p \in Helpers, Readback(p)
    PROVE  IInv'
<1>1. /\ run[p].step = "readback" /\ UNCHANGED <<regs, entry, file, disk, identity, orphan, promised, lost>>
      /\ regs \in Registers
  BY DEF Readback, IInv, TypeOK
<1>2. CASE run[p].command = "apply" /\ Report(p, "ok") /\ UNCHANGED loose
  <2>1. run[p].wanted = file.policy
    BY <1>1, <1>2 DEF IInv, AppliesNewest
  <2> QED
    BY <1>1, <1>2, <2>1, EndKeeps DEF Report, IInv, TypeOK, Results
<1>3. CASE /\ decode_policy(regs) = run[p].wanted
           /\ run[p].command = "set" /\ Goto(p, "save") /\ UNCHANGED <<lock, loose>>
  <2>1. /\ run' \in [Helpers -> Run] /\ run'[p].step = "save" /\ run'[p].wanted = run[p].wanted
        /\ run'[p].command = run[p].command /\ run'[p].result = run[p].result
        /\ \A q \in Helpers : q # p => run'[q] = run[q]
    BY <1>3, GotoUpdate DEF IInv, Steps
  <2>2. TypeOK'
    BY <1>1, <1>3, <2>1 DEF IInv, TypeOK, Run
  <2>3. LockInvariant' /\ AppliesNewest'
    BY <1>1, <1>3, <2>1 DEF IInv, LockInvariant, AppliesNewest, Locked
  <2>4. RunInvariant' /\ SyncInvariant'
    BY <1>1, <1>3, <2>1 DEF IInv, RunInvariant, SyncInvariant, Locked
  <2>5. RegisterInvariant'
    BY <1>1, <1>3, <2>1 DEF IInv, RegisterInvariant, Verified
  <2> QED
    BY <2>2, <2>3, <2>4, <2>5 DEF IInv
<1>4. CASE Report(p, "attempted") /\ loose' = TRUE
  BY <1>1, <1>4, LooseReportKeeps
<1> QED
  BY <1>2, <1>3, <1>4 DEF Readback

LEMMA SaveStep ==
    ASSUME IInv, NEW p \in Helpers, Save(p)
    PROVE  IInv'
<1>1. /\ run[p].step = "save" /\ UNCHANGED <<regs, entry, disk, identity, orphan>>
      /\ regs \in Registers /\ identity \in Identities
  BY DEF Save, IInv, TypeOK
<1>2. lock = p /\ run[p].wanted \in Policies /\ run[p].command = "set"
  BY <1>1 DEF IInv, LockInvariant, RunInvariant, Locked
<1>3. CASE /\ file' = [policy |-> run[p].wanted, identity |-> identity]
           /\ promised' = NoRecord /\ lost' = FALSE
           /\ Goto(p, "sync") /\ UNCHANGED <<lock, loose>>
  <2>1. /\ run' \in [Helpers -> Run] /\ run'[p].step = "sync" /\ run'[p].wanted = run[p].wanted
        /\ run'[p].command = run[p].command /\ run'[p].result = run[p].result
        /\ \A q \in Helpers : q # p => run'[q] = run[q]
    BY <1>3, GotoUpdate DEF IInv, Steps
  <2>2. \A q \in Helpers : q # p => run'[q].step \notin Locked /\ run'[q].step \notin Verified
    BY <1>1, <2>1, Alone DEF Locked
  <2>3. file' \in Records /\ promised' \in Records
    BY <1>1, <1>2, <1>3, RecordFacts
  <2>4. TypeOK'
    BY <1>1, <1>3, <2>1, <2>3 DEF IInv, TypeOK, Run
  <2>5. LockInvariant' /\ AppliesNewest'
    BY <1>2, <1>3, <2>1, <2>2 DEF LockInvariant, AppliesNewest, Locked
  <2>6. RunInvariant' /\ SyncInvariant'
    BY <1>1, <1>2, <1>3, <2>1, <2>2 DEF IInv, RunInvariant, SyncInvariant, Locked
  <2>7. RegisterInvariant'
    BY <1>1, <1>3, <2>1, <2>2 DEF IInv, RegisterInvariant, Verified, Locked
  <2> QED
    BY <2>4, <2>5, <2>6, <2>7 DEF IInv
<1>4. CASE Report(p, "attempted") /\ loose' = TRUE /\ UNCHANGED <<file, promised, lost>>
  BY <1>1, <1>4, LooseReportKeeps
<1> QED
  BY <1>3, <1>4 DEF Save

LEMMA SyncDirStep ==
    ASSUME IInv, NEW p \in Helpers, SyncDir(p)
    PROVE  IInv'
<1>1. /\ run[p].step = "sync" /\ UNCHANGED <<regs, entry, file, identity, orphan, lost>>
      /\ regs \in Registers /\ file \in Records
  BY DEF SyncDir, IInv, TypeOK
<1>2. CASE Report(p, "ok") /\ disk' = file /\ promised' = file /\ UNCHANGED loose
  <2>1. run[p].wanted = file.policy
    BY <1>1 DEF IInv, SyncInvariant
  <2> QED
    BY <1>1, <1>2, <2>1, EndKeeps DEF Report, IInv, TypeOK, Results
<1>3. CASE Report(p, "attempted") /\ loose' = TRUE /\ UNCHANGED <<disk, promised>>
  BY <1>1, <1>3, LooseReportKeeps
<1> QED
  BY <1>2, <1>3 DEF SyncDir

-----------------------------------------------------------------------------
(* Steps of the world around the helpers. *)

LEMMA KillStep ==
    ASSUME IInv, NEW p \in Helpers, Kill(p)
    PROVE  IInv'
<1>1. /\ run[p].step # "idle" /\ run' = [run EXCEPT ![p] = Idle] /\ lock' = Unlocked(p)
      /\ loose' = (loose \/ run[p].step \in Verified)
      /\ UNCHANGED <<regs, entry, file, disk, identity, promised, lost>>
  BY DEF Kill, Verified
<1>2. Idle = [Idle EXCEPT !.result = "none"] /\ "none" \in Results
  BY DEF Idle, Results
<1>3. orphan' \in [wanted : Policies, step : {"write", "f4"}] \cup {NoOrphan}
  <2>1. CASE UNCHANGED orphan
    BY <2>1 DEF IInv, TypeOK
  <2>2. CASE /\ run[p].step \in {"write", "f4"}
             /\ orphan' = [wanted |-> run[p].wanted, step |-> run[p].step]
    BY <2>2 DEF IInv, RunInvariant, Locked
  <2> QED
    BY <2>1, <2>2 DEF Kill
<1>4. run[p].step \in Verified \/ UNCHANGED loose
  BY <1>1 DEF IInv, TypeOK
<1>5. loose' \in BOOLEAN /\ (run[p].step \in Verified => loose')
  BY <1>1 DEF IInv, TypeOK
<1> QED
  BY <1>1, <1>2, <1>3, <1>4, <1>5, EndKeeps DEF IInv, TypeOK

\* Whatever changes the registers outside the helpers, and says so, keeps the invariant.
LEMMA OutsideKeeps ==
    ASSUME IInv, regs' \in Registers, loose' = TRUE,
           orphan' \in [wanted : Policies, step : {"write", "f4"}] \cup {NoOrphan},
           UNCHANGED <<entry, file, disk, identity, lock, run, promised, lost>>
    PROVE  IInv'
<1>1. TypeOK'
  BY DEF IInv, TypeOK
<1> QED
  BY <1>1 DEF IInv, LockInvariant, RunInvariant, AppliesNewest, SyncInvariant, RegisterInvariant

LEMMA OrphanStep ==
    ASSUME IInv, OrphanSteps
    PROVE  IInv'
<1>1. orphan \in [wanted : Policies, step : {"write", "f4"}] /\ regs \in Registers
  BY DEF OrphanSteps, IInv, TypeOK
<1>2. regs' \in Registers
  BY <1>1, FirstRegisterType, WriteDecodes DEF OrphanSteps, SecondRegister
<1>3. orphan' \in [wanted : Policies, step : {"write", "f4"}] \cup {NoOrphan}
  BY <1>1 DEF OrphanSteps
<1> QED
  BY <1>2, <1>3, OutsideKeeps DEF OrphanSteps

LEMMA DirectSetStep ==
    ASSUME IInv, DirectSet
    PROVE  IInv'
<1>1. regs' \in Registers
  BY FirstRegisterType, WriteDecodes DEF DirectSet, SecondRegister, IInv, TypeOK
<1> QED
  BY <1>1, OutsideKeeps DEF DirectSet, IInv, TypeOK

LEMMA RebootStep ==
    ASSUME IInv, Reboot
    PROVE  IInv'
<1>1. run' \in [Helpers -> Run] /\ \A p \in Helpers : run'[p] = Idle
  BY DEF Reboot, Run, Idle, Steps, Results
<1>2. entry' \in {"none", "visible", "durable"} /\ lost' \in BOOLEAN
  BY DEF Reboot, IInv, TypeOK
<1>3. file' \in Records /\ disk' \in Records
  BY RecordFacts DEF Reboot, IInv, TypeOK
<1>4. /\ regs' \in Registers /\ identity' \in Identities /\ promised' \in Records
      /\ lock' \in Helpers \cup {NoHelper} /\ loose' \in BOOLEAN
      /\ orphan' \in [wanted : Policies, step : {"write", "f4"}] \cup {NoOrphan}
  BY DEF Reboot, IInv, TypeOK
<1>5. TypeOK'
  BY <1>1, <1>2, <1>3, <1>4 DEF TypeOK, Run
<1> QED
  BY <1>1, <1>5 DEF Reboot, IInv, LockInvariant, RunInvariant, AppliesNewest, SyncInvariant,
        RegisterInvariant, Idle, Locked

LEMMA StutterStep ==
    ASSUME IInv, UNCHANGED vars
    PROVE  IInv'
  BY DEF vars, IInv, TypeOK, LockInvariant, RunInvariant, AppliesNewest, SyncInvariant,
        RegisterInvariant

LEMMA NextIInv == IInv /\ [Next]_vars => IInv'
<1> SUFFICES ASSUME IInv, [Next]_vars PROVE IInv'
  OBVIOUS
<1>1. ASSUME NEW p \in Helpers, Helper(p) PROVE IInv'
  BY <1>1, BeginStep, OpenStep, SyncParentStep, LockStep, ChildBeginsStep, ChildEndsStep, ReadbackStep, SaveStep,
     SyncDirStep DEF Helper
<1> QED
  BY <1>1, KillStep, OrphanStep, DirectSetStep, RebootStep, StutterStep DEF Next

LEMMA Inductive == Spec => []IInv
  BY InitIInv, NextIInv, PTL DEF Spec

-----------------------------------------------------------------------------
(* What the helper promises. *)

\* Type correctness: no run carries anything but a policy past the lock, and an orphan
\* always has one to write (src/scripts/ugreenctl-startup.py).
THEOREM TypeCorrect == Spec => []TypeOK
<1>1. IInv => TypeOK
  BY DEF IInv
<1> QED
  BY <1>1, Inductive, PTL

\* The registers hold the saved policy when nobody is at work and only verified runs
\* touched them, for any number of administrators and services (execute, under
\* startup.lock).
THEOREM SavedIsAppliedAlways == Spec => []SavedIsApplied
<1>1. IInv => SavedIsApplied
  BY DEF IInv, RegisterInvariant, SavedIsApplied, Busy, Verified
<1> QED
  BY <1>1, Inductive, PTL

\* `apply` writes the newest saved choice of this BIOS identity, because it reads the
\* record again under the lock.
THEOREM AppliesNewestAlways == Spec => []AppliesNewest
<1>1. IInv => AppliesNewest
  BY DEF IInv
<1> QED
  BY <1>1, Inductive, PTL

\* A saved policy that was reported survives every power loss and failed run until it
\* is replaced: it is forgotten before the rename and promised again after the sync.
\* The theorem excepts the one loss the code allows (LinuxStateStore.open): of a state
\* directory whose maker did not come to sync the parent.
THEOREM SuccessIsDurableAlways == Spec => []SuccessIsDurable
<1>1. Init => SuccessIsDurable
  BY DEF Init, SuccessIsDurable
<1>2. SuccessIsDurable /\ [Next]_vars => SuccessIsDurable'
  <2> SUFFICES ASSUME SuccessIsDurable, [Next]_vars PROVE SuccessIsDurable'
    OBVIOUS
  <2>1. ASSUME NEW p \in Helpers, Save(p) PROVE SuccessIsDurable'
    BY <2>1 DEF Save, SuccessIsDurable
  <2>2. ASSUME NEW p \in Helpers, SyncDir(p) PROVE SuccessIsDurable'
    BY <2>2 DEF SyncDir, SuccessIsDurable
  <2>3. CASE Reboot
    <3>1. CASE disk' \in {disk, file} /\ file' = disk' /\ UNCHANGED <<promised, lost>>
      BY <3>1 DEF SuccessIsDurable
    <3>2. CASE lost' = (promised # NoRecord) /\ UNCHANGED promised
      BY <3>2 DEF SuccessIsDurable
    <3> QED
      BY <2>3, <3>1, <3>2 DEF Reboot
  <2>4. CASE UNCHANGED <<file, disk, promised, lost>>
    BY <2>4 DEF SuccessIsDurable
  <2> QED
    BY <2>1, <2>2, <2>3, <2>4 DEF Next, Helper, Begin, Open, SyncParent, Lock, ChildBegins, ChildEnds,
       Readback, Kill, OrphanSteps, DirectSet, vars
<1> QED
  BY <1>1, <1>2, PTL DEF Spec

\* A run that reports no attempted write left the registers alone: only the steps before
\* the child can report so, and a run at work carries no older report (Report).
THEOREM HonestReportAlways == Spec => HonestReport
<1> DEFINE Honest ==
      \A p \in Helpers :
        (run[p].step # "idle" /\ run'[p].result \in {"nothing", "untouched"}) =>
            UNCHANGED regs /\ run[p].step \in {"open", "mkdir", "lock"}
<1>1. IInv /\ [Next]_vars => [Honest]_vars
  <2> SUFFICES ASSUME IInv, Next, NEW p \in Helpers, run[p].step # "idle",
                      run'[p].result \in {"nothing", "untouched"}
               PROVE  UNCHANGED regs /\ run[p].step \in {"open", "mkdir", "lock"}
    OBVIOUS
  <2>1. run \in [Helpers -> Run] /\ run[p].result = "none"
    BY DEF IInv, TypeOK, Run, RunInvariant
  <2>2. CASE Open(p) \/ SyncParent(p) \/ Lock(p)
    BY <2>2 DEF Open, SyncParent, Lock
  <2>3. ASSUME NEW q \in Helpers, q # p, Helper(q) \/ Kill(q) PROVE FALSE
    BY <2>1, <2>3 DEF Helper, Kill, Begin, Open, SyncParent, Lock, ChildBegins, ChildEnds, Readback, Save,
       SyncDir, Report, Goto
  <2>4. CASE Kill(p)
    BY <2>1, <2>4 DEF Kill, Idle
  <2>5. ASSUME NEW r \in Results \ {"nothing", "untouched"}, Report(p, r) PROVE FALSE
    BY <2>1, <2>5 DEF Report, Idle
  <2>6. ASSUME NEW step, Goto(p, step) PROVE FALSE
    BY <2>1, <2>6 DEF Goto, Run
  <2>7. CASE ChildBegins(p) \/ ChildEnds(p) \/ Readback(p) \/ Save(p) \/ SyncDir(p)
    BY <2>5, <2>6, <2>7 DEF ChildBegins, ChildEnds, Readback, Save, SyncDir, Results
  <2>8. CASE OrphanSteps \/ DirectSet
    BY <2>1, <2>8 DEF OrphanSteps, DirectSet
  <2>9. CASE Reboot
    BY <2>9 DEF Reboot, Idle
  <2> QED
    BY <2>2, <2>3, <2>4, <2>7, <2>8, <2>9 DEF Next, Helper, Begin
<1> QED
  BY <1>1, Inductive, PTL DEF Spec, HonestReport
=============================================================================
