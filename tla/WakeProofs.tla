----------------------------- MODULE WakeProofs -----------------------------
(***************************************************************************)
(* The wake commands for any number of processes, interfaces and devices,  *)
(* any situation, any number of renames and any time.                      *)
(***************************************************************************)
EXTENDS Wake, TLAPS, FiniteSetTheorems

(* Steps of one process. *)

\* The state of one process after its step; the others keep theirs.
Becomes(p, pc, list, at, dev, seen, result) ==
    /\ run' \in [Procs -> Run]
    /\ \A q \in Procs \ {p} : run'[q] = run[q]
    /\ run'[p].pc = pc /\ run'[p].list = list /\ run'[p].at = at
    /\ run'[p].dev = dev /\ run'[p].seen = seen /\ run'[p].result = result

Results == {None, "ok", "error", "dry", "killed"}

LEMMA RunFields ==
    ASSUME NEW r \in Run
    PROVE  /\ r.pc \in Steps /\ r.list \in Seq(Names) /\ r.at \in Nat /\ r.dev \in Devs \cup {0}
           /\ r.seen \in Policies \cup {None} /\ r.result \in Results
  BY DEF Run, Results

LEMMA ToRun ==
    ASSUME run \in [Procs -> Run], NEW p \in Procs, NEW r \in Run, run' = [run EXCEPT ![p] = r]
    PROVE  Becomes(p, r.pc, r.list, r.at, r.dev, r.seen, r.result)
<1>1. run' \in [Procs -> Run] /\ run'[p] = r /\ \A q \in Procs \ {p} : run'[q] = run[q]
  OBVIOUS
<1> QED
  BY <1>1 DEF Becomes

\* One field of a record replaced.
LEMMA RunWithPc ==
    ASSUME NEW r \in Run, NEW v \in Steps
    PROVE  LET t == [r EXCEPT !.pc = v] IN
           /\ t \in Run /\ t.pc = v
           /\ t.list = r.list /\ t.at = r.at /\ t.dev = r.dev /\ t.seen = r.seen /\ t.result = r.result
  BY DEF Run, Results

LEMMA RunWithList ==
    ASSUME NEW r \in Run, NEW v \in Seq(Names)
    PROVE  LET t == [r EXCEPT !.list = v] IN
           /\ t \in Run /\ t.list = v
           /\ t.pc = r.pc /\ t.at = r.at /\ t.dev = r.dev /\ t.seen = r.seen /\ t.result = r.result
  BY DEF Run, Results

LEMMA RunWithAt ==
    ASSUME NEW r \in Run, NEW v \in Nat
    PROVE  LET t == [r EXCEPT !.at = v] IN
           /\ t \in Run /\ t.at = v
           /\ t.pc = r.pc /\ t.list = r.list /\ t.dev = r.dev /\ t.seen = r.seen /\ t.result = r.result
  BY DEF Run, Results

LEMMA RunWithDev ==
    ASSUME NEW r \in Run, NEW v \in Devs \cup {0}
    PROVE  LET t == [r EXCEPT !.dev = v] IN
           /\ t \in Run /\ t.dev = v
           /\ t.pc = r.pc /\ t.list = r.list /\ t.at = r.at /\ t.seen = r.seen /\ t.result = r.result
  BY DEF Run, Results

LEMMA RunWithSeen ==
    ASSUME NEW r \in Run, NEW v \in Policies \cup {None}
    PROVE  LET t == [r EXCEPT !.seen = v] IN
           /\ t \in Run /\ t.seen = v
           /\ t.pc = r.pc /\ t.list = r.list /\ t.at = r.at /\ t.dev = r.dev /\ t.result = r.result
  BY DEF Run, Results

LEMMA RunWithResult ==
    ASSUME NEW r \in Run, NEW v \in Results
    PROVE  LET t == [r EXCEPT !.result = v] IN
           /\ t \in Run /\ t.result = v
           /\ t.pc = r.pc /\ t.list = r.list /\ t.at = r.at /\ t.dev = r.dev /\ t.seen = r.seen
  BY DEF Run, Results

LEMMA PastWithAlarm ==
    ASSUME NEW r \in Past, NEW v \in Nat
    PROVE  LET t == [r EXCEPT !.alarm = v] IN
           /\ t \in Past /\ t.alarm = v
           /\ t.wol = r.wol /\ t.devs = r.devs /\ t.faulted = r.faulted /\ t.renamed = r.renamed /\ t.rebound = r.rebound /\ t.held = r.held
  BY DEF Past

LEMMA PastWithWol ==
    ASSUME NEW r \in Past, NEW v \in [Devs -> Flags]
    PROVE  LET t == [r EXCEPT !.wol = v] IN
           /\ t \in Past /\ t.wol = v
           /\ t.alarm = r.alarm /\ t.devs = r.devs /\ t.faulted = r.faulted /\ t.renamed = r.renamed /\ t.rebound = r.rebound /\ t.held = r.held
  BY DEF Past

LEMMA PastWithDevs ==
    ASSUME NEW r \in Past, NEW v \in Seq(Devs)
    PROVE  LET t == [r EXCEPT !.devs = v] IN
           /\ t \in Past /\ t.devs = v
           /\ t.alarm = r.alarm /\ t.wol = r.wol /\ t.faulted = r.faulted /\ t.renamed = r.renamed /\ t.rebound = r.rebound /\ t.held = r.held
  BY DEF Past

LEMMA PastWithFaulted ==
    ASSUME NEW r \in Past, NEW v \in BOOLEAN
    PROVE  LET t == [r EXCEPT !.faulted = v] IN
           /\ t \in Past /\ t.faulted = v
           /\ t.alarm = r.alarm /\ t.wol = r.wol /\ t.devs = r.devs /\ t.renamed = r.renamed /\ t.rebound = r.rebound /\ t.held = r.held
  BY DEF Past

LEMMA PastWithRenamed ==
    ASSUME NEW r \in Past, NEW v \in BOOLEAN
    PROVE  LET t == [r EXCEPT !.renamed = v] IN
           /\ t \in Past /\ t.renamed = v
           /\ t.alarm = r.alarm /\ t.wol = r.wol /\ t.devs = r.devs /\ t.faulted = r.faulted /\ t.rebound = r.rebound /\ t.held = r.held
  BY DEF Past

LEMMA PastWithRebound ==
    ASSUME NEW r \in Past, NEW v \in BOOLEAN
    PROVE  LET t == [r EXCEPT !.rebound = v] IN
           /\ t \in Past /\ t.rebound = v
           /\ t.alarm = r.alarm /\ t.wol = r.wol /\ t.devs = r.devs /\ t.faulted = r.faulted /\ t.renamed = r.renamed /\ t.held = r.held
  BY DEF Past

LEMMA PastWithHeld ==
    ASSUME NEW r \in Past, NEW v \in SUBSET Policies
    PROVE  LET t == [r EXCEPT !.held = v] IN
           /\ t \in Past /\ t.held = v
           /\ t.alarm = r.alarm /\ t.wol = r.wol /\ t.devs = r.devs /\ t.faulted = r.faulted /\ t.renamed = r.renamed /\ t.rebound = r.rebound
  BY DEF Past

LEMMA GoBecomes ==
    ASSUME run \in [Procs -> Run], NEW p \in Procs, NEW pc \in Steps, Go(p, pc)
    PROVE  Becomes(p, pc, run[p].list, run[p].at, run[p].dev, run[p].seen, run[p].result)
<1> DEFINE r == run[p]
           t1 == [r EXCEPT !.pc = pc]
<1>1. r \in Run /\ run' = [run EXCEPT ![p] = t1]
  BY DEF Go
<1> HIDE DEF r
<1>3. /\ t1 \in Run /\ t1.pc = pc
      /\ t1.list = r.list /\ t1.at = r.at /\ t1.dev = r.dev /\ t1.seen = r.seen /\ t1.result = r.result
  BY <1>1, RunWithPc
<1> HIDE DEF t1
<1>4. Becomes(p, t1.pc, t1.list, t1.at, t1.dev, t1.seen, t1.result)
  BY <1>1, <1>3, ToRun
<1> QED
  BY <1>3, <1>4 DEF r

LEMMA ReportBecomes ==
    ASSUME run \in [Procs -> Run], NEW p \in Procs, NEW res \in Results, Report(p, res)
    PROVE  Becomes(p, "report", run[p].list, run[p].at, run[p].dev, run[p].seen, res)
<1> DEFINE r == run[p]
           t1 == [r EXCEPT !.pc = "report"]
           t2 == [t1 EXCEPT !.result = res]
<1>1. r \in Run /\ run' = [run EXCEPT ![p] = t2]
  BY DEF Report
<1>2. "report" \in Steps
  BY DEF Steps
<1> HIDE DEF r
<1>3. /\ t1 \in Run /\ t1.pc = "report"
      /\ t1.list = r.list /\ t1.at = r.at /\ t1.dev = r.dev /\ t1.seen = r.seen /\ t1.result = r.result
  BY <1>1, <1>2, RunWithPc
<1> HIDE DEF t1
<1>4. /\ t2 \in Run /\ t2.result = res
      /\ t2.pc = t1.pc /\ t2.list = t1.list /\ t2.at = t1.at /\ t2.dev = t1.dev /\ t2.seen = t1.seen
  BY <1>1, <1>2, <1>3, RunWithResult
<1> HIDE DEF t2
<1>5. Becomes(p, t2.pc, t2.list, t2.at, t2.dev, t2.seen, t2.result)
  BY <1>1, <1>4, ToRun
<1> QED
  BY <1>3, <1>4, <1>5 DEF r

LEMMA OkBecomes ==
    ASSUME run \in [Procs -> Run], NEW p \in Procs, NEW policy \in Policies, Ok(p, policy)
    PROVE  Becomes(p, "report", run[p].list, run[p].at, run[p].dev, policy, "ok")
<1> DEFINE r == run[p]
           t1 == [r EXCEPT !.pc = "report"]
           t2 == [t1 EXCEPT !.result = "ok"]
           t3 == [t2 EXCEPT !.seen = policy]
<1>1. r \in Run /\ run' = [run EXCEPT ![p] = t3]
  BY DEF Ok
<1>2. "report" \in Steps /\ "ok" \in Results /\ policy \in Policies \cup {None}
  BY DEF Steps, Results
<1> HIDE DEF r
<1>3. /\ t1 \in Run /\ t1.pc = "report"
      /\ t1.list = r.list /\ t1.at = r.at /\ t1.dev = r.dev /\ t1.seen = r.seen /\ t1.result = r.result
  BY <1>1, <1>2, RunWithPc
<1> HIDE DEF t1
<1>4. /\ t2 \in Run /\ t2.result = "ok"
      /\ t2.pc = t1.pc /\ t2.list = t1.list /\ t2.at = t1.at /\ t2.dev = t1.dev /\ t2.seen = t1.seen
  BY <1>1, <1>2, <1>3, RunWithResult
<1> HIDE DEF t2
<1>5. /\ t3 \in Run /\ t3.seen = policy
      /\ t3.pc = t2.pc /\ t3.list = t2.list /\ t3.at = t2.at /\ t3.dev = t2.dev /\ t3.result = t2.result
  BY <1>1, <1>2, <1>4, RunWithSeen
<1> HIDE DEF t3
<1>6. Becomes(p, t3.pc, t3.list, t3.at, t3.dev, t3.seen, t3.result)
  BY <1>1, <1>5, ToRun
<1> QED
  BY <1>3, <1>4, <1>5, <1>6 DEF r

LEMMA EndBecomes ==
    ASSUME run \in [Procs -> Run], NEW p \in Procs, NEW res \in Results,
           run' = [run EXCEPT ![p].pc = "done", ![p].result = res]
    PROVE  Becomes(p, "done", run[p].list, run[p].at, run[p].dev, run[p].seen, res)
<1> DEFINE r == run[p]
           t1 == [r EXCEPT !.pc = "done"]
           t2 == [t1 EXCEPT !.result = res]
<1>1. r \in Run /\ run' = [run EXCEPT ![p] = t2]
  BY DEF Steps
<1>2. "done" \in Steps
  BY DEF Steps
<1> HIDE DEF r
<1>3. /\ t1 \in Run /\ t1.pc = "done"
      /\ t1.list = r.list /\ t1.at = r.at /\ t1.dev = r.dev /\ t1.seen = r.seen /\ t1.result = r.result
  BY <1>1, <1>2, RunWithPc
<1> HIDE DEF t1
<1>4. /\ t2 \in Run /\ t2.result = res
      /\ t2.pc = t1.pc /\ t2.list = t1.list /\ t2.at = t1.at /\ t2.dev = t1.dev /\ t2.seen = t1.seen
  BY <1>1, <1>2, <1>3, RunWithResult
<1> HIDE DEF t2
<1>5. Becomes(p, t2.pc, t2.list, t2.at, t2.dev, t2.seen, t2.result)
  BY <1>1, <1>4, ToRun
<1> QED
  BY <1>3, <1>4, <1>5 DEF r

LEMMA AdvanceBecomes ==
    ASSUME run \in [Procs -> Run], NEW p \in Procs, NEW policy \in Policies,
           run' = [run EXCEPT ![p].at = @ + 1, ![p].seen = policy]
    PROVE  Becomes(p, run[p].pc, run[p].list, run[p].at + 1, run[p].dev, policy, run[p].result)
<1> DEFINE r == run[p]
           t1 == [r EXCEPT !.at = run[p].at + 1]
           t2 == [t1 EXCEPT !.seen = policy]
<1>1. r \in Run /\ run' = [run EXCEPT ![p] = t2]
  BY DEF Run
<1>2. run[p].at + 1 \in Nat /\ policy \in Policies \cup {None}
  BY DEF Run
<1> HIDE DEF r
<1>3. /\ t1 \in Run /\ t1.at = run[p].at + 1
      /\ t1.pc = r.pc /\ t1.list = r.list /\ t1.dev = r.dev /\ t1.seen = r.seen /\ t1.result = r.result
  BY <1>1, <1>2, RunWithAt
<1> HIDE DEF t1
<1>4. /\ t2 \in Run /\ t2.seen = policy
      /\ t2.pc = t1.pc /\ t2.list = t1.list /\ t2.at = t1.at /\ t2.dev = t1.dev /\ t2.result = t1.result
  BY <1>1, <1>2, <1>3, RunWithSeen
<1> HIDE DEF t2
<1>5. Becomes(p, t2.pc, t2.list, t2.at, t2.dev, t2.seen, t2.result)
  BY <1>1, <1>4, ToRun
<1> QED
  BY <1>3, <1>4, <1>5 DEF r

LEMMA OpenBecomes ==
    ASSUME run \in [Procs -> Run], NEW p \in Procs, NEW d \in Devs \cup {0},
           run' = [run EXCEPT ![p].pc = "ifquery", ![p].dev = d]
    PROVE  Becomes(p, "ifquery", run[p].list, run[p].at, d, run[p].seen, run[p].result)
<1> DEFINE r == run[p]
           t1 == [r EXCEPT !.pc = "ifquery"]
           t2 == [t1 EXCEPT !.dev = d]
<1>1. r \in Run /\ run' = [run EXCEPT ![p] = t2]
  BY DEF Steps
<1>2. "ifquery" \in Steps
  BY DEF Steps, IfSteps
<1> HIDE DEF r
<1>3. /\ t1 \in Run /\ t1.pc = "ifquery"
      /\ t1.list = r.list /\ t1.at = r.at /\ t1.dev = r.dev /\ t1.seen = r.seen /\ t1.result = r.result
  BY <1>1, <1>2, RunWithPc
<1> HIDE DEF t1
<1>4. /\ t2 \in Run /\ t2.dev = d
      /\ t2.pc = t1.pc /\ t2.list = t1.list /\ t2.at = t1.at /\ t2.seen = t1.seen /\ t2.result = t1.result
  BY <1>1, <1>2, <1>3, RunWithDev
<1> HIDE DEF t2
<1>5. Becomes(p, t2.pc, t2.list, t2.at, t2.dev, t2.seen, t2.result)
  BY <1>1, <1>4, ToRun
<1> QED
  BY <1>3, <1>4, <1>5 DEF r

LEMMA ChosenBecomes ==
    ASSUME run \in [Procs -> Run], NEW p \in Procs, NEW list \in Seq(Names), NEW pc \in Steps,
           run' = [run EXCEPT ![p].list = list, ![p].at = 1, ![p].pc = pc, ![p].seen = None]
    PROVE  Becomes(p, pc, list, 1, run[p].dev, None, run[p].result)
<1> DEFINE r == run[p]
           t1 == [r EXCEPT !.list = list]
           t2 == [t1 EXCEPT !.at = 1]
           t3 == [t2 EXCEPT !.pc = pc]
           t4 == [t3 EXCEPT !.seen = None]
<1>1. r \in Run /\ run' = [run EXCEPT ![p] = t4]
  BY DEF Steps
<1>2. 1 \in Nat /\ None \in Policies \cup {None}
  BY DEF Steps
<1> HIDE DEF r
<1>3. /\ t1 \in Run /\ t1.list = list
      /\ t1.pc = r.pc /\ t1.at = r.at /\ t1.dev = r.dev /\ t1.seen = r.seen /\ t1.result = r.result
  BY <1>1, <1>2, RunWithList
<1> HIDE DEF t1
<1>4. /\ t2 \in Run /\ t2.at = 1
      /\ t2.pc = t1.pc /\ t2.list = t1.list /\ t2.dev = t1.dev /\ t2.seen = t1.seen /\ t2.result = t1.result
  BY <1>1, <1>2, <1>3, RunWithAt
<1> HIDE DEF t2
<1>5. /\ t3 \in Run /\ t3.pc = pc
      /\ t3.list = t2.list /\ t3.at = t2.at /\ t3.dev = t2.dev /\ t3.seen = t2.seen /\ t3.result = t2.result
  BY <1>1, <1>2, <1>4, RunWithPc
<1> HIDE DEF t3
<1>6. /\ t4 \in Run /\ t4.seen = None
      /\ t4.pc = t3.pc /\ t4.list = t3.list /\ t4.at = t3.at /\ t4.dev = t3.dev /\ t4.result = t3.result
  BY <1>1, <1>2, <1>5, RunWithSeen
<1> HIDE DEF t4
<1>7. Becomes(p, t4.pc, t4.list, t4.at, t4.dev, t4.seen, t4.result)
  BY <1>1, <1>6, ToRun
<1> QED
  BY <1>3, <1>4, <1>5, <1>6, <1>7 DEF r

\* The history of one process after a step.
Records(p, al, fl, devs, faulted, renamed, rebound, held) ==
    /\ past' \in [Procs -> Past]
    /\ \A q \in Procs \ {p} : past'[q] = past[q]
    /\ past'[p].alarm = al /\ past'[p].wol = fl /\ past'[p].devs = devs /\ past'[p].faulted = faulted
    /\ past'[p].renamed = renamed /\ past'[p].rebound = rebound /\ past'[p].held = held

LEMMA ToPast ==
    ASSUME past \in [Procs -> Past], NEW p \in Procs, NEW r \in Past, past' = [past EXCEPT ![p] = r]
    PROVE  Records(p, r.alarm, r.wol, r.devs, r.faulted, r.renamed, r.rebound, r.held)
<1>1. past' \in [Procs -> Past] /\ past'[p] = r /\ \A q \in Procs \ {p} : past'[q] = past[q]
  OBVIOUS
<1> QED
  BY <1>1 DEF Records

LEMMA FaultedRecords ==
    ASSUME past \in [Procs -> Past], NEW p \in Procs, Faulted(p)
    PROVE  Records(p, past[p].alarm, past[p].wol, past[p].devs, TRUE, past[p].renamed, past[p].rebound, past[p].held)
<1> DEFINE r == past[p]
           t1 == [r EXCEPT !.faulted = TRUE]
<1>1. r \in Past /\ past' = [past EXCEPT ![p] = t1]
  BY DEF Faulted
<1>2. TRUE \in BOOLEAN
  BY DEF Past
<1> HIDE DEF r
<1>3. /\ t1 \in Past /\ t1.faulted = TRUE
      /\ t1.alarm = r.alarm /\ t1.wol = r.wol /\ t1.devs = r.devs /\ t1.renamed = r.renamed /\ t1.rebound = r.rebound /\ t1.held = r.held
  BY <1>1, <1>2, PastWithFaulted
<1> HIDE DEF t1
<1>4. Records(p, t1.alarm, t1.wol, t1.devs, t1.faulted, t1.renamed, t1.rebound, t1.held)
  BY <1>1, <1>3, ToPast
<1> QED
  BY <1>3, <1>4 DEF r

LEMMA LockRecords ==
    ASSUME past \in [Procs -> Past], NEW p \in Procs, alarm \in Nat, wol \in [Devs -> Flags],
           past' = [past EXCEPT ![p].alarm = alarm, ![p].wol = wol]
    PROVE  Records(p, alarm, wol, past[p].devs, past[p].faulted, past[p].renamed, past[p].rebound, past[p].held)
<1> DEFINE r == past[p]
           t1 == [r EXCEPT !.alarm = alarm]
           t2 == [t1 EXCEPT !.wol = wol]
<1>1. r \in Past /\ past' = [past EXCEPT ![p] = t2]
  BY DEF Past
<1> HIDE DEF r
<1>3. /\ t1 \in Past /\ t1.alarm = alarm
      /\ t1.wol = r.wol /\ t1.devs = r.devs /\ t1.faulted = r.faulted /\ t1.renamed = r.renamed /\ t1.rebound = r.rebound /\ t1.held = r.held
  BY <1>1, PastWithAlarm
<1> HIDE DEF t1
<1>4. /\ t2 \in Past /\ t2.wol = wol
      /\ t2.alarm = t1.alarm /\ t2.devs = t1.devs /\ t2.faulted = t1.faulted /\ t2.renamed = t1.renamed /\ t2.rebound = t1.rebound /\ t2.held = t1.held
  BY <1>1, <1>3, PastWithWol
<1> HIDE DEF t2
<1>5. Records(p, t2.alarm, t2.wol, t2.devs, t2.faulted, t2.renamed, t2.rebound, t2.held)
  BY <1>1, <1>4, ToPast
<1> QED
  BY <1>3, <1>4, <1>5 DEF r

LEMMA ChosenRecords ==
    ASSUME past \in [Procs -> Past], NEW p \in Procs, NEW devs \in Seq(Devs), NEW held \in SUBSET Policies,
           past' = [past EXCEPT ![p].devs = devs, ![p].held = held, ![p].rebound = FALSE]
    PROVE  Records(p, past[p].alarm, past[p].wol, devs, past[p].faulted, past[p].renamed, FALSE, held)
<1> DEFINE r == past[p]
           t1 == [r EXCEPT !.devs = devs]
           t2 == [t1 EXCEPT !.held = held]
           t3 == [t2 EXCEPT !.rebound = FALSE]
<1>1. r \in Past /\ past' = [past EXCEPT ![p] = t3]
  BY DEF Past
<1>2. FALSE \in BOOLEAN
  BY DEF Past
<1> HIDE DEF r
<1>3. /\ t1 \in Past /\ t1.devs = devs
      /\ t1.alarm = r.alarm /\ t1.wol = r.wol /\ t1.faulted = r.faulted /\ t1.renamed = r.renamed /\ t1.rebound = r.rebound /\ t1.held = r.held
  BY <1>1, <1>2, PastWithDevs
<1> HIDE DEF t1
<1>4. /\ t2 \in Past /\ t2.held = held
      /\ t2.alarm = t1.alarm /\ t2.wol = t1.wol /\ t2.devs = t1.devs /\ t2.faulted = t1.faulted /\ t2.renamed = t1.renamed /\ t2.rebound = t1.rebound
  BY <1>1, <1>2, <1>3, PastWithHeld
<1> HIDE DEF t2
<1>5. /\ t3 \in Past /\ t3.rebound = FALSE
      /\ t3.alarm = t2.alarm /\ t3.wol = t2.wol /\ t3.devs = t2.devs /\ t3.faulted = t2.faulted /\ t3.renamed = t2.renamed /\ t3.held = t2.held
  BY <1>1, <1>2, <1>4, PastWithRebound
<1> HIDE DEF t3
<1>6. Records(p, t3.alarm, t3.wol, t3.devs, t3.faulted, t3.renamed, t3.rebound, t3.held)
  BY <1>1, <1>5, ToPast
<1> QED
  BY <1>3, <1>4, <1>5, <1>6 DEF r

-----------------------------------------------------------------------------
(* The inductive invariant. *)

\* The state, without what ties it together.
Sane ==
    /\ sit \in Situations /\ now \in 0..sit.ticks /\ alarm \in Nat
    /\ nic \in [Names -> Devs \cup {0}] /\ OneName(nic) /\ wol \in [Devs -> Flags]
    /\ renames \in 0..sit.renames /\ lock \in [Kinds -> Procs \cup {None}]
    /\ run \in [Procs -> Run] /\ past \in [Procs -> Past]

Mutex == \A p \in Procs : Locked(p) <=> Writer(p) /\ run[p].pc \notin {"start", "lock", "done"}

\* Which commands come to which steps, and with which interfaces selected.
AutoSteps == {"query", "write", "reselect", "read"}
Phase(p) ==
    LET c == run[p].pc  r == sit.asked[p]  list == run[p].list IN
    /\ c \in {"lock", "identity"} => Writer(p)
    /\ c \in RtcSteps => r.cmd = "rtc"
    /\ c \in AutoSteps \cup {"select"} => r.cmd = "auto"
    /\ c \in IfSteps => r.cmd = "iface"
    /\ c \in {"clear", "cleared", "query", "write", "reselect", "ifagain", "ifwrite", "ifback",
              "ifafter"} => Writer(p)
    /\ c \in {"clock", "arm", "armed"} => r.act = "set"
    /\ c \in {"start", "lock", "identity", "select", "iface", "rtc"} =>
        list = <<>> /\ run[p].dev = 0 /\ ~past[p].renamed
    /\ r.cmd # "auto" => list = <<>>
    /\ r.cmd # "iface" => run[p].dev = 0
    /\ c \in AutoSteps => list # <<>>
    /\ c \in IfSteps \ {"iface"} => run[p].dev \in sit.physical \cup sit.mac
    /\ c \in Loops => run[p].at \in DOMAIN list
    /\ Len(list) <= 2 /\ \A i, j \in DOMAIN list : list[i] = list[j] => i = j

\* An alarm of this program's is one the RTC will keep in time.
Clock == alarm \notin {0, Far} => sit.skew = 0 /\ alarm > now

\* A change of the alarm, step by step.
RtcGood(p) ==
    LET c == run[p].pc  r == sit.asked[p]  was == past[p].alarm  faulted == past[p].faulted IN
    r.cmd = "rtc" /\ Locked(p) =>
        /\ alarm \in {was, 0} \/ (r.act = "set" /\ alarm = r.epoch)
        /\ c \in {"identity", "rtc", "clock", "old", "clear"} => alarm = was \/ was <= RtcNow
        /\ c \in {"identity", "rtc", "clock", "old", "clear"} => alarm \in {was, 0}
        /\ c = "cleared" /\ ~faulted => alarm = 0
        /\ c = "arm" => alarm = 0
        /\ c = "armed" /\ ~faulted => alarm = r.epoch \/ r.epoch <= RtcNow
        /\ r.act = "set" /\ c \in {"old", "clear", "cleared", "arm", "armed"} => sit.skew = 0
        /\ Reports(p, "error") /\ ~faulted /\ (r.act = "set" => r.epoch > RtcNow) =>
              alarm = was \/ was <= RtcNow
        /\ Reports(p, "ok") /\ r.act = "set" => alarm = r.epoch \/ r.epoch <= RtcNow
        /\ Reports(p, "ok") /\ r.act = "clear" => alarm = 0

\* A process that selected interfaces and saw no renaming would select the same again.
Choice(p) ==
    run[p].pc \in AutoSteps /\ ~past[p].renamed =>
        /\ run[p].list = Selection(Stock, sit.auto)
        /\ past[p].devs = [i \in DOMAIN run[p].list |-> nic[run[p].list[i]]]

\* A change of the interfaces' policy, step by step.
AutoGood(p) ==
    LET c == run[p].pc  r == sit.asked[p]  list == run[p].list  at == run[p].at
        clean == ~past[p].renamed /\ ~past[p].faulted IN
    r.cmd = "auto" /\ Locked(p) =>
        /\ c = "query" /\ ~past[p].renamed => \A i \in 1..(at - 1) : Supports(list[i])
        /\ c \in {"write", "reselect", "read"} /\ ~past[p].renamed =>
              \A i \in DOMAIN list : Supports(list[i])
        /\ c = "write" /\ clean => \A i \in 1..(at - 1) : wol[nic[list[i]]] = Wanted(p)
        /\ c \in {"reselect", "read"} /\ clean => \A i \in DOMAIN list : wol[nic[list[i]]] = Wanted(p)
        /\ c = "read" /\ clean => run[p].seen \in {None, r.policy}
        /\ c = "read" /\ ~past[p].rebound =>
              /\ DOMAIN past[p].devs = DOMAIN list
              /\ \A i \in DOMAIN list : nic[list[i]] \in {0, past[p].devs[i]}
              /\ \A i \in 1..(at - 1) : PolicyOf(wol[past[p].devs[i]]) = run[p].seen
        /\ Reports(p, "ok") =>
              \/ past[p].rebound
              \/ \A i \in DOMAIN past[p].devs : PolicyOf(wol[past[p].devs[i]]) = r.policy
IfGood(p) ==
    LET c == run[p].pc  dev == run[p].dev  bound == nic[IfName(p)]
        clean == ~past[p].renamed /\ ~past[p].faulted
        asked == [past[p].wol EXCEPT ![dev] = Wanted(p)] IN
    sit.asked[p].cmd = "iface" /\ Locked(p) =>
        /\ c \in IfSteps \ {"iface"} /\ ~past[p].renamed => bound = dev
        /\ c \in {"ifagain", "ifwrite", "ifback", "ifafter"} /\ ~past[p].renamed => dev \in sit.magic
        /\ c = "ifback" /\ clean => wol[dev] = Wanted(p)
        /\ c = "ifback" /\ ~past[p].rebound /\ bound = dev => wol = past[p].wol \/ wol = asked
        /\ c = "ifafter" /\ ~past[p].rebound /\ bound = dev => wol = asked
        /\ Reports(p, "ok") => past[p].rebound \/ wol = asked
WolGood(p) ==
    sit.asked[p].cmd # "rtc" /\ Locked(p) =>
        /\ \A d \in Devs : wol[d] \in {past[p].wol[d], Wanted(p)}
        /\ run[p].pc \in {"identity", "select", "query", "iface", "ifquery", "ifagain", "ifwrite"} =>
              wol = past[p].wol
        /\ Reports(p, "error") /\ ~past[p].renamed /\ ~past[p].faulted => wol = past[p].wol

\* A read of all interfaces. What escapes it: an ignored write, a change of one interface.
Blamed == \E q \in Procs : past[q].faulted \/ (Writer(q) /\ sit.asked[q].cmd = "iface")
Reading(p) == run[p].pc = "read" /\ ~Writer(p) /\ ~past[p].renamed

\* Either all devices had the policy at one moment, or one still to be read has not.
Truthful(p) ==
    Reading(p) /\ ~Blamed =>
        \A v \in Policies : run[p].seen \in {None, v} =>
            \/ v \in past[p].held
            \/ \E m \in run[p].at..Len(run[p].list) : PolicyOf(wol[past[p].devs[m]]) # v

\* A change whose interfaces were renamed began before the read did: what was read since
\* then and agrees with it stands.
Stands(p, w) ==
    /\ Reading(p) /\ ~Blamed
    /\ Locked(w) /\ sit.asked[w].cmd = "auto" /\ run[w].pc \in {"query", "write"} /\ past[w].renamed
    /\ run[p].seen \in {None, sit.asked[w].policy}
    => \A i \in 1..(run[p].at - 1) : PolicyOf(wol[past[p].devs[i]]) = sit.asked[w].policy

Told(p) ==
    Reports(p, "ok") /\ ~Writer(p) /\ sit.asked[p].cmd = "auto" /\ ~past[p].renamed /\ ~Blamed =>
        run[p].seen \in past[p].held

-----------------------------------------------------------------------------
(* Facts about the situation, the selection and the forms a step takes. *)

LEMMA SitFacts ==
    ASSUME Sane
    PROVE  /\ sit \in Situation /\ OneName(sit.nic) /\ Far > sit.ticks + sit.skew
           /\ sit.skew \in Int /\ sit.ticks \in Nat /\ sit.renames \in Nat /\ sit.auto \in 0..2
           /\ sit.physical \subseteq Devs /\ sit.mac \subseteq Devs /\ sit.magic \subseteq Devs
           /\ Devs \subseteq Nat \ {0} /\ now \in Nat /\ RtcNow \in Int
           /\ \A p \in Procs :
                /\ sit.asked[p] \in Request /\ sit.asked[p].cmd \in {"rtc", "auto", "iface"}
                /\ sit.asked[p].act \in {"get", "set", "clear"} /\ sit.asked[p].epoch \in Nat
                /\ sit.asked[p].policy \in Policies /\ IfName(p) \in Names /\ Kind(p) \in Kinds
<1>1. sit \in Situation /\ OneName(sit.nic) /\ Far > sit.ticks + sit.skew
  BY WakeAssumption DEF Sane
<1>2. /\ sit.skew \in Int /\ sit.ticks \in Nat /\ sit.renames \in Nat /\ sit.auto \in 0..2
      /\ sit.physical \subseteq Devs /\ sit.mac \subseteq Devs /\ sit.magic \subseteq Devs
      /\ sit.asked \in [Procs -> Request]
  BY <1>1 DEF Situation
<1>3. now \in Nat /\ RtcNow \in Int
  BY <1>2 DEF Sane, RtcNow
<1>4. Devs \subseteq Nat \ {0}
  BY WakeAssumption
<1>5. ASSUME NEW p \in Procs
      PROVE  /\ sit.asked[p] \in Request /\ sit.asked[p].cmd \in {"rtc", "auto", "iface"}
             /\ sit.asked[p].act \in {"get", "set", "clear"} /\ sit.asked[p].epoch \in Nat
             /\ sit.asked[p].policy \in Policies /\ IfName(p) \in Names /\ Kind(p) \in Kinds
  BY <1>2 DEF Request, IfName, Kind, Kinds
<1> QED
  BY <1>1, <1>2, <1>3, <1>4, <1>5

\* There is an order by slot, as there are two interfaces at most.
LEMMA RenamedFacts ==
    ASSUME nic \in [Names -> Devs \cup {0}], OneName(nic), sit.physical \subseteq Devs, NEW expected \in 0..2
    PROVE  LET l == Renamed(expected) IN
           /\ l \in Seq(Names) /\ Len(l) <= 2
           /\ \A i \in DOMAIN l : Physical(l[i])
           /\ \A i, j \in DOMAIN l : l[i] = l[j] => i = j
<1> DEFINE found == {n \in Names : Physical(n)}
           D == 1..expected
           Sorted(s) == \A i, j \in D : i < j => nic[s[i]] < nic[s[j]]
<1>1. CASE Cardinality(found) # expected
  <2>1. Renamed(expected) = <<>>
    BY <1>1 DEF Renamed
  <2> QED
    BY <2>1
<1>2. CASE Cardinality(found) = expected
  <2>1. Renamed(expected) = CHOOSE s \in [D -> found] : Sorted(s)
    BY <1>2 DEF Renamed
  <2>2. IsFiniteSet(found)
    BY WakeAssumption, FS_Subset
  <2>3. ExistsBijection(1..expected, found)
    BY <1>2, <2>2, FS_CardinalityType
  <2>4. PICK f \in [D -> found] : \A i, j \in D : f[i] = f[j] => i = j
    BY <2>3 DEF ExistsBijection, Bijection, Injection, IsInjective
  <2>5. \A n \in found : n \in Names /\ nic[n] \in Nat \ {0}
    BY WakeAssumption DEF Physical
  <2>6. \A m, n \in found : nic[m] = nic[n] => m = n
    BY <2>5 DEF OneName
  <2>7. \E s \in [D -> found] : Sorted(s)
    <3>1. CASE expected < 2
      <4>1. Sorted(f)
        BY <3>1
      <4> QED
        BY <4>1
    <3>2. CASE expected = 2 /\ nic[f[1]] < nic[f[2]]
      <4>1. Sorted(f)
        BY <3>2
      <4> QED
        BY <4>1
    <3>3. CASE expected = 2 /\ ~(nic[f[1]] < nic[f[2]])
      <4> DEFINE g == [i \in D |-> IF i = 1 THEN f[2] ELSE f[1]]
      <4>1. f[1] \in found /\ f[2] \in found /\ f[1] # f[2]
        BY <2>4, <3>3
      <4>2. nic[f[2]] < nic[f[1]]
        BY <2>5, <2>6, <3>3, <4>1
      <4>3. g \in [D -> found] /\ g[1] = f[2] /\ g[2] = f[1]
        BY <3>3, <4>1
      <4> HIDE DEF g
      <4>4. Sorted(g)
        BY <3>3, <4>2, <4>3
      <4> QED
        BY <4>3, <4>4
    <3> QED
      BY <3>1, <3>2, <3>3
  <2> DEFINE l == Renamed(expected)
  <2>8. l \in [D -> found] /\ Sorted(l)
    BY <2>1, <2>7
  <2> HIDE DEF l
  <2>9. l \in Seq(Names) /\ Len(l) = expected /\ DOMAIN l = D
    BY <2>8
  <2>10. \A i \in D : Physical(l[i]) /\ nic[l[i]] \in Nat
    BY <2>5, <2>8
  <2>11. \A i, j \in D : l[i] = l[j] => i = j
    BY <2>8, <2>10
  <2> QED
    BY <2>9, <2>10, <2>11 DEF l
<1> QED
  BY <1>1, <1>2

LEMMA StockFacts ==
    Stock \in Seq(Names) /\ Len(Stock) = 2 /\ \A i, j \in DOMAIN Stock : Stock[i] = Stock[j] => i = j
<1>1. Stock[1] = "eth0" /\ Stock[2] = "eth1" /\ Len(Stock) = 2 /\ DOMAIN Stock = 1..2
  BY DEF Stock
<1> QED
  BY <1>1, WakeAssumption

LEMMA SelectionFacts ==
    ASSUME Sane, NEW given \in Seq(Names), Len(given) <= 2, NEW expected \in 0..2,
           \A i, j \in DOMAIN given : given[i] = given[j] => i = j
    PROVE  LET l == Selection(given, expected) IN
           /\ l \in Seq(Names) /\ Len(l) <= 2
           /\ \A i \in DOMAIN l : Physical(l[i])
           /\ \A i, j \in DOMAIN l : l[i] = l[j] => i = j
<1>1. nic \in [Names -> Devs \cup {0}] /\ OneName(nic) /\ sit.physical \subseteq Devs
  BY SitFacts DEF Sane
<1>2. CASE \A i \in DOMAIN given : Physical(given[i])
  BY <1>2 DEF Selection
<1>3. CASE ~\A i \in DOMAIN given : Physical(given[i])
  <2>1. Selection(given, expected) = Renamed(expected)
    BY <1>3 DEF Selection
  <2> QED
    BY <1>1, <2>1, RenamedFacts
<1> QED
  BY <1>2, <1>3

\* The loop index moves on, or the next phase begins.
LEMMA ForwardBecomes ==
    ASSUME run \in [Procs -> Run], NEW p \in Procs, NEW next \in Steps,
           run' = [run EXCEPT ![p] = Forward(p, next)]
    PROVE  IF run[p].at < Len(run[p].list)
           THEN Becomes(p, run[p].pc, run[p].list, run[p].at + 1, run[p].dev, run[p].seen, run[p].result)
           ELSE Becomes(p, next, run[p].list, 1, run[p].dev, run[p].seen, run[p].result)
<1> DEFINE r == run[p]
           t == [r EXCEPT !.at = r.at + 1]
           u1 == [r EXCEPT !.at = 1]
           u == [u1 EXCEPT !.pc = next]
<1>1. r \in Run /\ r.at \in Nat /\ r.at + 1 \in Nat /\ 1 \in Nat
  BY RunFields
<1>2. Forward(p, next) = IF r.at < Len(r.list) THEN t ELSE u
  BY DEF Forward
<1> HIDE DEF r
<1>3. /\ t \in Run /\ t.pc = r.pc /\ t.list = r.list /\ t.at = r.at + 1 /\ t.dev = r.dev
      /\ t.seen = r.seen /\ t.result = r.result
  BY <1>1, RunWithAt
<1>4. /\ u1 \in Run /\ u1.pc = r.pc /\ u1.list = r.list /\ u1.at = 1 /\ u1.dev = r.dev
      /\ u1.seen = r.seen /\ u1.result = r.result
  BY <1>1, RunWithAt
<1> HIDE DEF u1
<1>5. /\ u \in Run /\ u.pc = next /\ u.list = r.list /\ u.at = 1 /\ u.dev = r.dev
      /\ u.seen = r.seen /\ u.result = r.result
  BY <1>4, RunWithPc
<1> HIDE DEF t, u
<1>6. CASE r.at < Len(r.list)
  <2>1. Becomes(p, t.pc, t.list, t.at, t.dev, t.seen, t.result)
    BY <1>2, <1>3, <1>6, ToRun
  <2> QED
    BY <1>3, <1>6, <2>1 DEF r
<1>7. CASE ~(r.at < Len(r.list))
  <2>1. Becomes(p, u.pc, u.list, u.at, u.dev, u.seen, u.result)
    BY <1>2, <1>5, <1>7, ToRun
  <2> QED
    BY <1>5, <1>7, <2>1 DEF r
<1> QED
  BY <1>6, <1>7

\* A change of the flags is seen by every read under way.
SeenBy(p, faulted) ==
    /\ past' \in [Procs -> Past]
    /\ \A q \in Procs :
        /\ past'[q].alarm = past[q].alarm /\ past'[q].wol = past[q].wol /\ past'[q].devs = past[q].devs
        /\ past'[q].renamed = past[q].renamed /\ past'[q].rebound = past[q].rebound
        /\ past'[q].held = past[q].held \cup
                           (IF run[q].pc = "read" THEN Held(past[q].devs, wol') ELSE {})
    /\ \A q \in Procs \ {p} : past'[q].faulted = past[q].faulted
    /\ past'[p].faulted = faulted

LEMMA ObservedFacts ==
    ASSUME past \in [Procs -> Past], NEW p \in Procs
    PROVE  /\ past' = Observed => SeenBy(p, past[p].faulted)
           /\ past' = [Observed EXCEPT ![p].faulted = TRUE] => SeenBy(p, TRUE)
<1> DEFINE t(q) == IF run[q].pc = "read"
                   THEN [past[q] EXCEPT !.held = past[q].held \cup Held(past[q].devs, wol')]
                   ELSE past[q]
           Like(s, q) ==
              /\ s.alarm = past[q].alarm /\ s.wol = past[q].wol /\ s.devs = past[q].devs
              /\ s.renamed = past[q].renamed /\ s.rebound = past[q].rebound
              /\ s.held = past[q].held \cup (IF run[q].pc = "read" THEN Held(past[q].devs, wol') ELSE {})
<1>1. Observed = [q \in Procs |-> t(q)]
  BY DEF Observed
<1>2. ASSUME NEW q \in Procs
      PROVE  t(q) \in Past /\ Like(t(q), q) /\ t(q).faulted = past[q].faulted
  <2> DEFINE r == past[q]
             hd == past[q].held \cup Held(past[q].devs, wol')
             v == [r EXCEPT !.held = hd]
  <2>1. r \in Past /\ r.held \subseteq Policies
    BY DEF Past
  <2>2. hd \in SUBSET Policies
    BY <2>1 DEF Held
  <2>3. /\ v \in Past /\ v.held = hd /\ v.alarm = r.alarm /\ v.wol = r.wol /\ v.devs = r.devs
        /\ v.faulted = r.faulted /\ v.renamed = r.renamed /\ v.rebound = r.rebound
    <3> HIDE DEF r, hd
    <3> QED
      BY <2>1, <2>2, PastWithHeld
  <2>4. CASE run[q].pc = "read"
    <3>1. t(q) = v
      BY <2>4
    <3> HIDE DEF v, t
    <3> QED
      BY <2>3, <2>4, <3>1
  <2>5. CASE run[q].pc # "read"
    <3>1. t(q) = r
      BY <2>5
    <3> HIDE DEF t
    <3> QED
      BY <2>1, <2>5, <3>1
  <2> QED
    BY <2>4, <2>5
<1> HIDE DEF t
<1>3. Observed \in [Procs -> Past] /\ \A q \in Procs : Observed[q] = t(q)
  BY <1>1, <1>2
<1>4. ASSUME past' = Observed PROVE SeenBy(p, past[p].faulted)
  BY <1>2, <1>3, <1>4 DEF SeenBy
<1>5. ASSUME past' = [Observed EXCEPT ![p].faulted = TRUE] PROVE SeenBy(p, TRUE)
  <2> DEFINE r == t(p)
             v == [r EXCEPT !.faulted = TRUE]
  <2>1. r \in Past /\ TRUE \in BOOLEAN
    BY <1>2
  <2>2. past' = [Observed EXCEPT ![p] = v]
    BY <1>3, <1>5
  <2> HIDE DEF r
  <2>3. /\ v \in Past /\ v.faulted = TRUE /\ v.alarm = r.alarm /\ v.wol = r.wol /\ v.devs = r.devs
        /\ v.held = r.held /\ v.renamed = r.renamed /\ v.rebound = r.rebound
    BY <2>1, PastWithFaulted
  <2> HIDE DEF v
  <2>4. past' \in [Procs -> Past] /\ past'[p] = v /\ \A q \in Procs \ {p} : past'[q] = t(q)
    BY <1>3, <2>2, <2>3
  <2>5. Like(past'[p], p) /\ past'[p].faulted = TRUE
    BY <1>2, <2>3, <2>4 DEF r
  <2>6. \A q \in Procs \ {p} : Like(past'[q], q) /\ past'[q].faulted = past[q].faulted
    BY <1>2, <2>4
  <2> QED
    BY <2>4, <2>5, <2>6 DEF SeenBy
<1> QED
  BY <1>4, <1>5

LEMMA RenameRecords ==
    ASSUME past \in [Procs -> Past], NEW a, NEW b, Rename(a, b)
    PROVE  /\ past' \in [Procs -> Past]
           /\ \A q \in Procs :
                /\ past'[q].alarm = past[q].alarm /\ past'[q].wol = past[q].wol
                /\ past'[q].devs = past[q].devs /\ past'[q].held = past[q].held
                /\ past'[q].faulted = past[q].faulted
                /\ past'[q].renamed = (past[q].renamed \/ Selected(q))
                /\ past'[q].rebound = (past[q].rebound \/ Rebinds(q, b, nic[a]))
<1> DEFINE x(q) == past[q].renamed \/ Selected(q)
           y(q) == past[q].rebound \/ Rebinds(q, b, nic[a])
           u(q) == [past[q] EXCEPT !.renamed = x(q)]
           t(q) == [u(q) EXCEPT !.rebound = y(q)]
<1>1. past' = [q \in Procs |-> t(q)]
  BY DEF Rename
<1>2. ASSUME NEW q \in Procs
      PROVE  /\ t(q) \in Past /\ t(q).alarm = past[q].alarm /\ t(q).wol = past[q].wol
             /\ t(q).devs = past[q].devs /\ t(q).held = past[q].held /\ t(q).faulted = past[q].faulted
             /\ t(q).renamed = x(q) /\ t(q).rebound = y(q)
  <2>1. past[q] \in Past /\ x(q) \in BOOLEAN /\ y(q) \in BOOLEAN
    <3>1. past[q].renamed \in BOOLEAN /\ past[q].rebound \in BOOLEAN
      BY DEF Past
    <3> QED
      BY <3>1
  <2> HIDE DEF x, y
  <2>2. /\ u(q) \in Past /\ u(q).renamed = x(q) /\ u(q).alarm = past[q].alarm /\ u(q).wol = past[q].wol
        /\ u(q).devs = past[q].devs /\ u(q).held = past[q].held /\ u(q).faulted = past[q].faulted
        /\ u(q).rebound = past[q].rebound
    BY <2>1, PastWithRenamed
  <2> HIDE DEF u
  <2>3. /\ t(q) \in Past /\ t(q).rebound = y(q) /\ t(q).alarm = u(q).alarm /\ t(q).wol = u(q).wol
        /\ t(q).devs = u(q).devs /\ t(q).held = u(q).held /\ t(q).faulted = u(q).faulted
        /\ t(q).renamed = u(q).renamed
    BY <2>1, <2>2, PastWithRebound
  <2> HIDE DEF t
  <2> QED
    BY <2>2, <2>3
<1> HIDE DEF t, u, x, y
<1>3. past' \in [Procs -> Past] /\ \A q \in Procs : past'[q] = t(q)
  BY <1>1, <1>2
<1>4. \A q \in Procs :
        /\ past'[q].alarm = past[q].alarm /\ past'[q].wol = past[q].wol /\ past'[q].devs = past[q].devs
        /\ past'[q].held = past[q].held /\ past'[q].faulted = past[q].faulted
        /\ past'[q].renamed = x(q) /\ past'[q].rebound = y(q)
  BY <1>2, <1>3
<1> QED
  BY <1>3, <1>4, Zenon DEF x, y

-----------------------------------------------------------------------------
(* What a step does to the processes that do not take it. *)

Good(p) == Phase(p) /\ RtcGood(p) /\ Choice(p) /\ AutoGood(p) /\ IfGood(p) /\ WolGood(p)
IInv == Sane /\ Mutex /\ Clock /\ \A p \in Procs : Good(p)

\* The history of q but for the policies seen.
Alike(q) ==
    /\ past'[q].alarm = past[q].alarm /\ past'[q].wol = past[q].wol /\ past'[q].devs = past[q].devs
    /\ past'[q].faulted = past[q].faulted /\ past'[q].renamed = past[q].renamed
    /\ past'[q].rebound = past[q].rebound

LEMMA Undisturbed ==
    ASSUME NEW q \in Procs, Good(q), sit' = sit, now' = now, nic' = nic, run'[q] = run[q], Alike(q),
           Locked(q)' <=> Locked(q),
           Locked(q) /\ sit.asked[q].cmd = "rtc" => alarm' = alarm,
           Locked(q) /\ sit.asked[q].cmd # "rtc" => wol' = wol
    PROVE  Good(q)'
<1>1. Phase(q)'
  BY DEF Good, Phase, Alike, Writer
<1>2. RtcGood(q)'
  BY DEF Good, RtcGood, Alike, Reports, RtcNow
<1>3. Choice(q)'
  BY DEF Good, Choice, Alike, Selection, Renamed, Physical
<1>4. AutoGood(q)'
  BY DEF Good, AutoGood, Alike, Reports, Supports, Wanted
<1>5. IfGood(q)'
  BY DEF Good, IfGood, Alike, Reports, Wanted, IfName
<1>6. WolGood(q)'
  BY DEF Good, WolGood, Alike, Reports, Wanted
<1> QED
  BY <1>1, <1>2, <1>3, <1>4, <1>5, <1>6 DEF Good

\* A step of p as the others see it.
Apart(p) ==
    /\ sit' = sit /\ now' = now /\ nic' = nic /\ renames' = renames
    /\ alarm' \in Nat /\ wol' \in [Devs -> Flags] /\ lock' \in [Kinds -> Procs \cup {None}]
    /\ run' \in [Procs -> Run] /\ past' \in [Procs -> Past]
    /\ \A q \in Procs \ {p} : run'[q] = run[q] /\ Alike(q) /\ (Locked(q)' <=> Locked(q))
    /\ alarm' = alarm \/ (Locked(p) /\ Kind(p) = "rtc")
    /\ wol' = wol \/ (Locked(p) /\ Kind(p) = "wol")

LEMMA StepKeeps ==
    ASSUME IInv, NEW p \in Procs, Apart(p), Good(p)', Clock',
           Locked(p)' <=> Writer(p) /\ run'[p].pc \notin {"start", "lock", "done"}
    PROVE  IInv'
<1>1. Sane'
  BY DEF IInv, Sane, Apart
<1>2. Mutex'
  <2>1. ASSUME NEW q \in Procs
        PROVE  Locked(q)' <=> Writer(q)' /\ run'[q].pc \notin {"start", "lock", "done"}
    BY DEF IInv, Mutex, Apart, Writer
  <2> QED
    BY <2>1 DEF Mutex
<1>3. ASSUME NEW q \in Procs \ {p}
      PROVE  Good(q)'
  <2>1. /\ Locked(q) /\ Locked(p) => Kind(q) # Kind(p)
    BY DEF Locked
  <2>2. /\ Locked(q) /\ sit.asked[q].cmd = "rtc" => alarm' = alarm
        /\ Locked(q) /\ sit.asked[q].cmd # "rtc" => wol' = wol
    BY <2>1 DEF Apart, Kind
  <2> QED
    BY <2>2, Undisturbed DEF IInv, Apart
<1> QED
  BY <1>1, <1>2, <1>3 DEF IInv

\* A step that changes neither the devices nor the locks.
LEMMA SoftlyApart ==
    ASSUME IInv, NEW p \in Procs, UNCHANGED <<sit, now, hardware, renames, lock>>,
           run' \in [Procs -> Run], past' \in [Procs -> Past],
           \A q \in Procs \ {p} : run'[q] = run[q] /\ past'[q] = past[q]
    PROVE  /\ Apart(p) /\ Clock' /\ (Locked(p)' <=> Locked(p))
           /\ alarm' = alarm /\ wol' = wol /\ nic' = nic /\ sit' = sit /\ now' = now /\ lock' = lock
<1>1. \A q \in Procs : Locked(q)' <=> Locked(q)
  BY DEF Locked, Kind
<1> QED
  BY <1>1 DEF IInv, Sane, Apart, Alike, Clock, hardware

\* An error is reported.
LEMMA ErrGood ==
    ASSUME IInv, NEW p \in Procs,
           Becomes(p, "report", run[p].list, run[p].at, run[p].dev, run[p].seen, "error"),
           sit' = sit, now' = now, nic' = nic, Locked(p)' <=> Locked(p),
           past'[p].alarm = past[p].alarm, past'[p].wol = past[p].wol,
           past'[p].renamed = past[p].renamed,
           Locked(p) /\ sit.asked[p].cmd = "rtc" =>
              /\ \/ alarm' \in {past[p].alarm, 0}
                 \/ sit.asked[p].act = "set" /\ alarm' = sit.asked[p].epoch
              /\ ~past'[p].faulted /\ (sit.asked[p].act = "set" => sit.asked[p].epoch > RtcNow) =>
                    alarm' = past[p].alarm \/ past[p].alarm <= RtcNow,
           Locked(p) /\ sit.asked[p].cmd # "rtc" =>
              /\ \A d \in Devs : wol'[d] \in {past[p].wol[d], Wanted(p)}
              /\ ~past[p].renamed /\ ~past'[p].faulted => wol' = past[p].wol
    PROVE  Good(p)'
<1>1. /\ run'[p].pc = "report" /\ run'[p].result = "error" /\ run'[p].list = run[p].list
      /\ run'[p].dev = run[p].dev
  BY DEF Becomes
<1>2. Phase(p)'
  BY <1>1 DEF IInv, Good, Phase, RtcSteps, IfSteps, AutoSteps, Loops
<1>3. RtcGood(p)'
  BY <1>1 DEF RtcGood, Reports, RtcNow
<1>4. Choice(p)' /\ AutoGood(p)' /\ IfGood(p)'
  BY <1>1 DEF Choice, AutoGood, IfGood, Reports, AutoSteps, IfSteps
<1>5. WolGood(p)'
  BY <1>1 DEF WolGood, Reports, Wanted
<1> QED
  BY <1>2, <1>3, <1>4, <1>5 DEF Good

-----------------------------------------------------------------------------
(* Steps that change nothing but their own process. *)

Busy(c) == c \notin {"start", "lock", "done"}

LEMMA SoftStep ==
    ASSUME IInv, NEW p \in Procs, UNCHANGED <<sit, now, hardware, renames, lock>>,
           run' \in [Procs -> Run], past' \in [Procs -> Past],
           \A q \in Procs \ {p} : run'[q] = run[q] /\ past'[q] = past[q],
           Busy(run[p].pc), Busy(run'[p].pc), Good(p)'
    PROVE  IInv'
<1>1. Apart(p) /\ Clock' /\ (Locked(p)' <=> Locked(p))
  BY SoftlyApart
<1>2. Locked(p)' <=> Writer(p) /\ run'[p].pc \notin {"start", "lock", "done"}
  BY <1>1 DEF IInv, Mutex, Busy
<1> QED
  BY <1>1, <1>2, StepKeeps

LEMMA FailsIs ==
    ASSUME run \in [Procs -> Run], past \in [Procs -> Past], NEW p \in Procs, Fails(p)
    PROVE  /\ Becomes(p, "report", run[p].list, run[p].at, run[p].dev, run[p].seen, "error")
           /\ Records(p, past[p].alarm, past[p].wol, past[p].devs, TRUE, past[p].renamed,
                      past[p].rebound, past[p].held)
<1>1. "error" \in Results /\ Report(p, "error") /\ Faulted(p)
  BY DEF Results, Fails, Faulted
<1> QED
  BY <1>1, ReportBecomes, FaultedRecords

LEMMA SoftFail ==
    ASSUME IInv, NEW p \in Procs, Busy(run[p].pc), Fails(p),
           UNCHANGED <<sit, now, hardware, renames, lock>>
    PROVE  IInv'
<1>1. /\ Becomes(p, "report", run[p].list, run[p].at, run[p].dev, run[p].seen, "error")
      /\ Records(p, past[p].alarm, past[p].wol, past[p].devs, TRUE, past[p].renamed,
                 past[p].rebound, past[p].held)
  BY FailsIs DEF IInv, Sane
<1>2. /\ run' \in [Procs -> Run] /\ past' \in [Procs -> Past] /\ run'[p].pc = "report"
      /\ \A q \in Procs \ {p} : run'[q] = run[q] /\ past'[q] = past[q]
  BY <1>1 DEF Becomes, Records
<1>3. /\ past'[p].alarm = past[p].alarm /\ past'[p].wol = past[p].wol /\ past'[p].faulted
      /\ past'[p].renamed = past[p].renamed
  BY <1>1 DEF Records
<1>4. /\ Locked(p)' <=> Locked(p)
      /\ alarm' = alarm /\ wol' = wol /\ nic' = nic /\ sit' = sit /\ now' = now
  BY <1>2, SoftlyApart
<1>5. Locked(p) /\ sit.asked[p].cmd = "rtc" =>
         alarm \in {past[p].alarm, 0} \/ (sit.asked[p].act = "set" /\ alarm = sit.asked[p].epoch)
  BY DEF IInv, Good, RtcGood
<1>6. Locked(p) /\ sit.asked[p].cmd # "rtc" => \A d \in Devs : wol[d] \in {past[p].wol[d], Wanted(p)}
  BY DEF IInv, Good, WolGood
<1>7. Good(p)'
  BY <1>1, <1>3, <1>4, <1>5, <1>6, ErrGood
<1> QED
  BY <1>2, <1>7, SoftStep DEF Busy

\* An error of which no access is to blame: nothing was changed before.
LEMMA SoftError ==
    ASSUME IInv, NEW p \in Procs, Busy(run[p].pc), Report(p, "error"), past' = past,
           UNCHANGED <<sit, now, hardware, renames, lock>>,
           Locked(p) /\ sit.asked[p].cmd = "rtc" /\ ~past[p].faulted
             /\ (sit.asked[p].act = "set" => sit.asked[p].epoch > RtcNow) =>
               alarm = past[p].alarm \/ past[p].alarm <= RtcNow,
           Locked(p) /\ sit.asked[p].cmd # "rtc" /\ ~past[p].renamed /\ ~past[p].faulted =>
               wol = past[p].wol
    PROVE  IInv'
<1>1. "error" \in Results /\ run \in [Procs -> Run] /\ past \in [Procs -> Past]
  BY DEF IInv, Sane, Results
<1>2. Becomes(p, "report", run[p].list, run[p].at, run[p].dev, run[p].seen, "error")
  BY <1>1, ReportBecomes
<1>3. /\ run' \in [Procs -> Run] /\ past' \in [Procs -> Past] /\ run'[p].pc = "report"
      /\ \A q \in Procs \ {p} : run'[q] = run[q] /\ past'[q] = past[q]
  BY <1>1, <1>2 DEF Becomes
<1>4. /\ Locked(p)' <=> Locked(p)
      /\ alarm' = alarm /\ wol' = wol /\ nic' = nic /\ sit' = sit /\ now' = now
  BY <1>3, SoftlyApart
<1>5. Locked(p) /\ sit.asked[p].cmd = "rtc" =>
         alarm \in {past[p].alarm, 0} \/ (sit.asked[p].act = "set" /\ alarm = sit.asked[p].epoch)
  BY DEF IInv, Good, RtcGood
<1>6. Locked(p) /\ sit.asked[p].cmd # "rtc" => \A d \in Devs : wol[d] \in {past[p].wol[d], Wanted(p)}
  BY DEF IInv, Good, WolGood
<1>7. Good(p)'
  BY <1>2, <1>4, <1>5, <1>6, ErrGood
<1> QED
  BY <1>3, <1>7, SoftStep DEF Busy

\* The next step is reached with everything as it was.
LEMMA SoftGo ==
    ASSUME IInv, NEW p \in Procs, Busy(run[p].pc), NEW c \in Steps, Busy(c), Go(p, c), past' = past,
           UNCHANGED <<sit, now, hardware, renames, lock>>,
           run'[p].pc = c /\ run'[p].list = run[p].list /\ run'[p].at = run[p].at
             /\ run'[p].dev = run[p].dev /\ run'[p].seen = run[p].seen => Good(p)'
    PROVE  IInv'
<1>1. run \in [Procs -> Run] /\ past \in [Procs -> Past]
  BY DEF IInv, Sane
<1>2. Becomes(p, c, run[p].list, run[p].at, run[p].dev, run[p].seen, run[p].result)
  BY <1>1, GoBecomes
<1>3. /\ run' \in [Procs -> Run] /\ past' \in [Procs -> Past] /\ run'[p].pc = c
      /\ \A q \in Procs \ {p} : run'[q] = run[q] /\ past'[q] = past[q]
  BY <1>1, <1>2 DEF Becomes
<1>4. Good(p)'
  BY <1>2 DEF Becomes
<1> QED
  BY <1>3, <1>4, SoftStep

-----------------------------------------------------------------------------
(* The RTC alarm. *)

LEMMA RtcOthers ==
    ASSUME NEW p \in Procs, sit.asked[p].cmd = "rtc", sit' = sit,
           run'[p].pc \in RtcSteps \cup {"report"}, Phase(p)', RtcGood(p)'
    PROVE  Good(p)'
<1>1. Choice(p)' /\ AutoGood(p)' /\ IfGood(p)' /\ WolGood(p)'
  BY DEF Choice, AutoGood, IfGood, WolGood, AutoSteps, RtcSteps
<1> QED
  BY <1>1 DEF Good

\* A rtc process goes on: what it needs at its next step.
LEMMA RtcGo ==
    ASSUME IInv, NEW p \in Procs, run[p].pc \in RtcSteps, NEW c \in RtcSteps \ {"rtc"}, Go(p, c), past' = past,
           UNCHANGED <<sit, now, hardware, renames, lock>>,
           c \in {"clear", "cleared"} => Writer(p),
           c \in {"clock", "arm", "armed"} => sit.asked[p].act = "set",
           c \in {"clock", "old", "clear"} => run[p].pc \in {"rtc", "clock", "old"},
           c = "arm" => alarm = 0,
           c \notin {"cleared", "armed"},
           sit.asked[p].act = "set" /\ c # "clock" => sit.skew = 0
    PROVE  IInv'
<1>1. sit.asked[p].cmd = "rtc" /\ Phase(p)
  BY DEF IInv, Good, Phase
<1>2. Busy(run[p].pc) /\ Busy(c) /\ c \in Steps
  BY DEF Busy, RtcSteps, Steps
<1>3. ASSUME run'[p].pc = c, run'[p].list = run[p].list, run'[p].at = run[p].at, run'[p].dev = run[p].dev,
             run'[p].seen = run[p].seen
      PROVE  Good(p)'
  <2>1. Phase(p)'
    BY <1>1, <1>3 DEF Phase, RtcSteps, IfSteps, AutoSteps, Loops, Writer
  <2>2. Locked(p)' => Locked(p)
    BY DEF Locked, Kind
  <2>3. Locked(p) => /\ alarm \in {past[p].alarm, 0} \/ (sit.asked[p].act = "set" /\ alarm = sit.asked[p].epoch)
                     /\ c \in {"clock", "old", "clear"} =>
                          (alarm = past[p].alarm \/ past[p].alarm <= RtcNow) /\ alarm \in {past[p].alarm, 0}
    BY <1>1 DEF IInv, Good, RtcGood
  <2>4. RtcGood(p)'
    BY <1>1, <1>3, <2>2, <2>3 DEF RtcGood, Reports, RtcNow, hardware, RtcSteps
  <2> QED
    BY <1>1, <1>3, <2>1, <2>4, RtcOthers
<1> QED
  BY <1>2, <1>3, SoftGo

LEMMA RtcOk ==
    ASSUME IInv, NEW p \in Procs, run[p].pc \in RtcSteps, Report(p, "ok"), past' = past,
           UNCHANGED <<sit, now, hardware, renames, lock>>,
           Locked(p) /\ sit.asked[p].act = "set" => alarm = sit.asked[p].epoch,
           Locked(p) /\ sit.asked[p].act = "clear" => alarm = 0
    PROVE  IInv'
<1>1. sit.asked[p].cmd = "rtc" /\ Phase(p)
  BY DEF IInv, Good, Phase
<1>2. "ok" \in Results /\ run \in [Procs -> Run] /\ past \in [Procs -> Past]
  BY DEF IInv, Sane, Results
<1>3. Becomes(p, "report", run[p].list, run[p].at, run[p].dev, run[p].seen, "ok")
  BY <1>2, ReportBecomes
<1>4. /\ run' \in [Procs -> Run] /\ past' \in [Procs -> Past] /\ run'[p].pc = "report"
      /\ \A q \in Procs \ {p} : run'[q] = run[q] /\ past'[q] = past[q]
  BY <1>2, <1>3 DEF Becomes
<1>5. /\ run'[p].list = run[p].list /\ run'[p].dev = run[p].dev /\ run'[p].result = "ok"
  BY <1>3 DEF Becomes
<1>6. Phase(p)'
  BY <1>1, <1>4, <1>5 DEF Phase, RtcSteps, IfSteps, AutoSteps, Loops
<1>7. RtcGood(p)'
  <2>1. Locked(p)' => Locked(p)
    BY DEF Locked, Kind
  <2>2. Locked(p) => alarm \in {past[p].alarm, 0} \/ (sit.asked[p].act = "set" /\ alarm = sit.asked[p].epoch)
    BY <1>1 DEF IInv, Good, RtcGood
  <2> QED
    BY <1>1, <1>4, <1>5, <2>1, <2>2 DEF RtcGood, Reports, RtcNow, hardware
<1>8. Good(p)'
  BY <1>1, <1>4, <1>6, <1>7, RtcOthers
<1>9. Busy(run[p].pc) /\ Busy(run'[p].pc)
  BY <1>4 DEF Busy, RtcSteps
<1> QED
  BY <1>4, <1>8, <1>9, SoftStep

LEMMA RtcBusy ==
    ASSUME IInv, NEW p \in Procs, run[p].pc \in RtcSteps
    PROVE  Busy(run[p].pc) /\ sit.asked[p].cmd = "rtc"
  BY DEF IInv, Good, Phase, RtcSteps, Busy

\* An error before the first write, or from a step at which the alarm is as it should be.
LEMMA RtcError ==
    ASSUME IInv, NEW p \in Procs, run[p].pc \in RtcSteps, Report(p, "error"), past' = past,
           UNCHANGED <<sit, now, hardware, renames, lock>>,
           run[p].pc = "cleared" => alarm # 0,
           run[p].pc = "armed" => alarm # sit.asked[p].epoch,
           run[p].pc # "arm"
    PROVE  IInv'
<1>1. sit.asked[p].cmd = "rtc" /\ Phase(p) /\ Busy(run[p].pc)
  BY RtcBusy DEF IInv, Good
<1>2. Locked(p) /\ ~past[p].faulted /\ (sit.asked[p].act = "set" => sit.asked[p].epoch > RtcNow) =>
        alarm = past[p].alarm \/ past[p].alarm <= RtcNow
  <2>1. RtcNow \in Int /\ sit.asked[p].epoch \in Nat
    BY SitFacts DEF IInv
  <2> QED
    BY <1>1, <2>1 DEF IInv, Good, RtcGood, Phase, RtcSteps
<1> QED
  BY <1>1, <1>2, SoftError

LEMMA RtcSoft ==
    ASSUME IInv, NEW p \in Procs, RtcSelect(p) \/ RtcClock(p) \/ RtcOld(p) \/ RtcCleared(p) \/ RtcArmed(p)
    PROVE  IInv'
<1>1. UNCHANGED <<sit, now, hardware, renames, lock>> /\ run[p].pc \in RtcSteps
  BY DEF RtcSelect, RtcClock, RtcOld, RtcCleared, RtcArmed, RtcSteps
<1>2. CASE Fails(p)
  BY <1>1, <1>2, RtcBusy, SoftFail
<1>3. sit.asked[p].act \in {"get", "set", "clear"}
  BY SitFacts DEF IInv
<1>4. CASE RtcSelect(p)
  <2>1. past' = past /\ run[p].pc = "rtc"
    BY <1>4 DEF RtcSelect
  <2>2. CASE Report(p, "error")
    BY <1>1, <2>1, <2>2, RtcError
  <2>3. CASE sit.asked[p].act = "set" /\ Go(p, "clock")
    BY <1>1, <2>1, <2>3, RtcGo DEF RtcSteps
  <2>4. CASE sit.asked[p].act # "set" /\ Go(p, "old")
    BY <1>1, <2>1, <2>4, RtcGo DEF RtcSteps
  <2> QED
    BY <1>4, <2>2, <2>3, <2>4 DEF RtcSelect
<1>5. CASE RtcClock(p) /\ ~Fails(p)
  <2>1. past' = past /\ run[p].pc = "clock"
    BY <1>5 DEF RtcClock
  <2>2. CASE Report(p, "error")
    BY <1>1, <2>1, <2>2, RtcError
  <2>3. CASE sit.skew = 0 /\ Go(p, "old")
    BY <1>1, <2>1, <2>3, RtcGo DEF RtcSteps
  <2> QED
    BY <1>5, <2>2, <2>3 DEF RtcClock, ClockAgrees
<1>6. CASE RtcOld(p) /\ ~Fails(p)
  <2>1. past' = past /\ run[p].pc = "old"
    BY <1>6 DEF RtcOld
  <2>2. CASE ~Writer(p) /\ Report(p, "ok")
    <3>1. ~Locked(p)
      BY <2>2 DEF IInv, Mutex
    <3> QED
      BY <1>1, <2>1, <2>2, <3>1, RtcOk
  <2>3. CASE Writer(p) /\ Go(p, "clear")
    <3>1. Locked(p) /\ sit.asked[p].cmd = "rtc"
      BY <1>1, <2>1, <2>3, RtcBusy DEF IInv, Mutex
    <3>2. sit.asked[p].act = "set" => sit.skew = 0
      BY <2>1, <3>1 DEF IInv, Good, RtcGood
    <3> QED
      BY <1>1, <2>1, <2>3, <3>2, RtcGo DEF RtcSteps
  <2> QED
    BY <1>6, <2>2, <2>3 DEF RtcOld
<1>7. CASE RtcCleared(p) /\ ~Fails(p)
  <2>1. past' = past /\ run[p].pc = "cleared"
    BY <1>7 DEF RtcCleared
  <2>2. CASE alarm # 0 /\ Report(p, "error")
    BY <1>1, <2>1, <2>2, RtcError
  <2>3. CASE alarm = 0 /\ sit.asked[p].act = "clear" /\ Report(p, "ok")
    BY <1>1, <2>1, <2>3, RtcOk
  <2>4. CASE alarm = 0 /\ sit.asked[p].act = "set" /\ Go(p, "arm")
    <3>1. Locked(p) /\ sit.asked[p].cmd = "rtc"
      BY <1>1, <2>1, <2>4, RtcBusy DEF IInv, Mutex, Writer
    <3>2. sit.skew = 0
      BY <2>1, <2>4, <3>1 DEF IInv, Good, RtcGood
    <3> QED
      BY <1>1, <2>1, <2>4, <3>2, RtcGo DEF RtcSteps
  <2> QED
    BY <1>7, <2>2, <2>3, <2>4 DEF RtcCleared
<1>8. CASE RtcArmed(p) /\ ~Fails(p)
  <2>1. past' = past /\ run[p].pc = "armed" /\ sit.asked[p].act = "set"
    BY <1>8 DEF RtcArmed, IInv, Good, Phase
  <2>2. CASE alarm = sit.asked[p].epoch /\ Report(p, "ok")
    BY <1>1, <2>1, <2>2, RtcOk
  <2>3. CASE alarm # sit.asked[p].epoch /\ Report(p, "error")
    BY <1>1, <2>1, <2>3, RtcError
  <2> QED
    BY <1>8, <2>2, <2>3 DEF RtcArmed
<1> QED
  BY <1>2, <1>4, <1>5, <1>6, <1>7, <1>8

\* A step of a locked rtc process that may write the alarm.
LEMMA RtcApart ==
    ASSUME IInv, NEW p \in Procs, UNCHANGED <<sit, now, nic, wol, renames, lock>>,
           run' \in [Procs -> Run], past' \in [Procs -> Past],
           \A q \in Procs \ {p} : run'[q] = run[q] /\ past'[q] = past[q],
           Locked(p), sit.asked[p].cmd = "rtc", alarm' \in Nat
    PROVE  Apart(p) /\ (Locked(p)' <=> Locked(p))
<1>1. \A q \in Procs : Locked(q)' <=> Locked(q)
  BY DEF Locked, Kind
<1>2. Kind(p) = "rtc"
  BY DEF Kind
<1> QED
  BY <1>1, <1>2 DEF IInv, Sane, Apart, Alike

LEMMA RtcWrites ==
    ASSUME IInv, NEW p \in Procs, NEW e \in Nat, NEW c \in Steps, RtcWrite(p, e, c),
           UNCHANGED <<sit, now, nic, wol, renames, lock>>,
           \/ run[p].pc = "clear" /\ e = 0 /\ c = "cleared"
           \/ run[p].pc = "arm" /\ e = sit.asked[p].epoch /\ c = "armed"
    PROVE  IInv'
<1>1. run \in [Procs -> Run] /\ past \in [Procs -> Past]
  BY DEF IInv, Sane
<1>2. /\ sit.asked[p].cmd = "rtc" /\ Phase(p) /\ RtcGood(p)
      /\ run[p].pc = "arm" => sit.asked[p].act = "set"
  BY DEF IInv, Good, Phase, RtcSteps
<1>3. Locked(p)
  BY <1>2 DEF IInv, Mutex, Phase, Writer
<1>4. RtcNow \in Int /\ now \in Nat /\ sit.skew \in Int /\ alarm \in Nat
  BY SitFacts DEF IInv, Sane
<1>5. /\ Stored(e) \in {0, e} /\ (run[p].pc = "clear" => Stored(e) = 0)
      /\ Stored(e) = e \/ e <= RtcNow
  BY <1>4 DEF Stored
<1>6. run[p].pc = "arm" => alarm = 0 /\ sit.skew = 0
  BY <1>2, <1>3 DEF RtcGood
<1>7. alarm' \in {alarm, Stored(e)}
  BY DEF RtcWrite
<1>8. Clock'
  <2>1. CASE alarm' = alarm
    BY <2>1 DEF IInv, Clock
  <2>2. CASE alarm' = Stored(e) /\ run[p].pc = "clear"
    BY <1>5, <2>2 DEF Clock
  <2>3. CASE alarm' = Stored(e) /\ run[p].pc = "arm"
    <3>1. sit.skew = 0 /\ (Stored(e) = 0 \/ Stored(e) > now)
      BY <1>4, <1>6, <2>3 DEF Stored, RtcNow
    <3> QED
      BY <2>3, <3>1 DEF Clock
  <2> QED
    BY <1>7, <2>1, <2>2, <2>3
<1>9. ASSUME run' \in [Procs -> Run], past' \in [Procs -> Past],
             \A q \in Procs \ {p} : run'[q] = run[q] /\ past'[q] = past[q],
             Busy(run'[p].pc), Locked(p)' => Good(p)'
      PROVE  IInv'
  <2>1. alarm' \in Nat
    BY <1>4, <1>5, <1>7
  <2>2. Apart(p) /\ (Locked(p)' <=> Locked(p))
    BY <1>2, <1>3, <1>9, <2>1, RtcApart
  <2>3. Locked(p)' <=> Writer(p) /\ run'[p].pc \notin {"start", "lock", "done"}
    BY <1>2, <1>3, <1>9, <2>2 DEF IInv, Mutex, Busy
  <2> QED
    BY <1>3, <1>8, <1>9, <2>2, <2>3, StepKeeps
<1>10. CASE Fails(p)
  <2>1. /\ Becomes(p, "report", run[p].list, run[p].at, run[p].dev, run[p].seen, "error")
        /\ Records(p, past[p].alarm, past[p].wol, past[p].devs, TRUE, past[p].renamed,
                   past[p].rebound, past[p].held)
    BY <1>1, <1>10, FailsIs
  <2>2. /\ run' \in [Procs -> Run] /\ past' \in [Procs -> Past] /\ run'[p].pc = "report"
        /\ \A q \in Procs \ {p} : run'[q] = run[q] /\ past'[q] = past[q]
        /\ past'[p].alarm = past[p].alarm /\ past'[p].wol = past[p].wol
        /\ past'[p].faulted = TRUE /\ past'[p].renamed = past[p].renamed
    BY <2>1 DEF Becomes, Records
  <2>3. \/ alarm' \in {past[p].alarm, 0}
        \/ sit.asked[p].act = "set" /\ alarm' = sit.asked[p].epoch
    BY <1>2, <1>3, <1>5, <1>7 DEF RtcGood
  <2>4. Locked(p)' <=> Locked(p)
    BY DEF Locked, Kind
  <2>5. Good(p)'
    BY <1>2, <2>1, <2>2, <2>3, <2>4, ErrGood
  <2> QED
    BY <1>9, <2>2, <2>5 DEF Busy
<1>11. CASE (Go(p, c) /\ past' = past /\ alarm' = Stored(e)) \/ (Faulted(p) /\ Go(p, c) /\ alarm' = alarm)
  <2>1. Becomes(p, c, run[p].list, run[p].at, run[p].dev, run[p].seen, run[p].result)
    BY <1>1, <1>11, GoBecomes
  <2>2. /\ past' \in [Procs -> Past] /\ \A q \in Procs \ {p} : past'[q] = past[q]
        /\ past'[p].alarm = past[p].alarm /\ past'[p].renamed = past[p].renamed
        /\ past'[p].faulted \/ alarm' = Stored(e)
    <3>1. CASE past' = past /\ alarm' = Stored(e)
      BY <1>1, <3>1
    <3>2. CASE Faulted(p)
      BY <1>1, <3>2, FaultedRecords DEF Records
    <3> QED
      BY <1>11, <3>1, <3>2
  <2>3. /\ run' \in [Procs -> Run] /\ run'[p].pc = c /\ run'[p].list = run[p].list
        /\ run'[p].dev = run[p].dev /\ \A q \in Procs \ {p} : run'[q] = run[q]
    BY <2>1 DEF Becomes
  <2>4. Phase(p)'
    BY <1>2, <2>2, <2>3 DEF Phase, RtcSteps, IfSteps, AutoSteps, Loops, Writer
  <2>5. RtcGood(p)'
    <3>1. \/ alarm' \in {past[p].alarm, 0}
          \/ sit.asked[p].act = "set" /\ alarm' = sit.asked[p].epoch
      BY <1>2, <1>3, <1>5, <1>7 DEF RtcGood
    <3>2. sit.asked[p].act = "set" => sit.skew = 0
      BY <1>2, <1>3 DEF RtcGood
    <3>3. c = "cleared" /\ ~past'[p].faulted => alarm' = 0
      BY <1>5, <2>2
    <3>4. c = "armed" /\ ~past'[p].faulted => alarm' = sit.asked[p].epoch \/ sit.asked[p].epoch <= RtcNow
      BY <1>5, <2>2
    <3> QED
      BY <2>2, <2>3, <3>1, <3>2, <3>3, <3>4 DEF RtcGood, Reports, RtcNow
  <2>6. Good(p)'
    BY <1>2, <2>3, <2>4, <2>5, RtcOthers DEF RtcSteps
  <2> QED
    BY <1>9, <2>2, <2>3, <2>6 DEF Busy
<1> QED
  BY <1>10, <1>11 DEF RtcWrite

LEMMA RtcKeeps ==
    ASSUME IInv, NEW p \in Procs, RtcStep(p)
    PROVE  IInv'
<1>1. CASE RtcClear(p)
  <2>1. /\ run[p].pc = "clear" /\ RtcWrite(p, 0, "cleared") /\ 0 \in Nat /\ "cleared" \in Steps
        /\ UNCHANGED <<sit, now, nic, wol, renames, lock>>
    BY <1>1 DEF RtcClear, Steps, RtcSteps
  <2> QED
    BY <2>1, RtcWrites
<1>2. CASE RtcArm(p)
  <2>1. /\ run[p].pc = "arm" /\ RtcWrite(p, sit.asked[p].epoch, "armed") /\ "armed" \in Steps
        /\ UNCHANGED <<sit, now, nic, wol, renames, lock>>
    BY <1>2 DEF RtcArm, Steps, RtcSteps
  <2>2. sit.asked[p].epoch \in Nat
    BY SitFacts DEF IInv
  <2> QED
    BY <2>1, <2>2, RtcWrites
<1> QED
  BY <1>1, <1>2, RtcSoft DEF RtcStep

-----------------------------------------------------------------------------
(* The start and the end of a call. *)

LEMMA NotAProc == ASSUME NEW p \in Procs PROVE p # None
  BY WakeAssumption

\* Without the lock, nothing is asked of the devices.
LEMMA UnlockedGood ==
    ASSUME NEW p \in Procs, ~Locked(p)', Phase(p)', Choice(p)'
    PROVE  Good(p)'
<1>1. RtcGood(p)' /\ AutoGood(p)' /\ IfGood(p)' /\ WolGood(p)'
  BY DEF RtcGood, AutoGood, IfGood, WolGood
<1> QED
  BY <1>1 DEF Good

\* The lock is given back, or was not held.
LEMMA Leaves ==
    ASSUME IInv, NEW p \in Procs, NEW res \in Results,
           Becomes(p, "done", run[p].list, run[p].at, run[p].dev, run[p].seen, res), past' = past,
           UNCHANGED <<sit, now, hardware, renames>>,
           \/ lock' = lock /\ ~Locked(p)
           \/ lock' = [k \in Kinds |-> IF lock[k] = p THEN None ELSE lock[k]]
    PROVE  IInv'
<1>1. /\ sit' = sit /\ now' = now /\ nic' = nic /\ renames' = renames /\ alarm' = alarm /\ wol' = wol
      /\ past' \in [Procs -> Past] /\ run' \in [Procs -> Run]
      /\ \A q \in Procs \ {p} : run'[q] = run[q] /\ Alike(q)
  BY DEF IInv, Sane, Becomes, Alike, hardware
<1>2. lock' \in [Kinds -> Procs \cup {None}]
  BY DEF IInv, Sane
<1>3. \A q \in Procs : Kind(q) \in Kinds /\ Kind(q)' = Kind(q)
  BY <1>1, SitFacts DEF IInv, Kind
<1>4. ~Locked(p)' /\ \A q \in Procs \ {p} : Locked(q)' <=> Locked(q)
  BY <1>3, NotAProc DEF Locked
<1>5. Apart(p) /\ Clock'
  BY <1>1, <1>2, <1>4 DEF IInv, Sane, Apart, Clock
<1>6. run'[p].pc = "done" /\ run'[p].list = run[p].list /\ run'[p].dev = run[p].dev
  BY DEF Becomes
<1>7. Phase(p)' /\ Choice(p)'
  <2>1. Phase(p)
    BY DEF IInv, Good
  <2>2. Phase(p)'
    BY <1>1, <1>6, <2>1 DEF Phase, RtcSteps, IfSteps, AutoSteps, Loops
  <2>3. Choice(p)'
    BY <1>6 DEF Choice, AutoSteps
  <2> QED
    BY <2>2, <2>3
<1>8. Good(p)'
  BY <1>4, <1>7, UnlockedGood
<1> QED
  BY <1>4, <1>5, <1>6, <1>8, StepKeeps

LEMMA RefuseKeeps ==
    ASSUME IInv, NEW p \in Procs, run[p].pc \in {"start", "lock"}, Refuse(p)
    PROVE  IInv'
<1>1. run \in [Procs -> Run] /\ "error" \in Results
  BY DEF IInv, Sane, Results
<1>2. Becomes(p, "done", run[p].list, run[p].at, run[p].dev, run[p].seen, "error")
  BY <1>1, EndBecomes DEF Refuse
<1>3. ~Locked(p)
  BY DEF IInv, Mutex
<1> QED
  BY <1>1, <1>2, <1>3, Leaves DEF Refuse

LEMMA DispatchFacts ==
    ASSUME IInv, NEW p \in Procs
    PROVE  /\ Dispatch(p) \in {"rtc", "select", "iface"} /\ Dispatch(p) \in Steps /\ Busy(Dispatch(p))
           /\ Dispatch(p) = "rtc" => sit.asked[p].cmd = "rtc"
           /\ Dispatch(p) = "select" => sit.asked[p].cmd = "auto"
           /\ Dispatch(p) = "iface" => sit.asked[p].cmd = "iface"
<1>1. sit.asked[p].cmd \in {"rtc", "auto", "iface"}
  BY SitFacts DEF IInv
<1> QED
  BY <1>1 DEF Dispatch, Steps, RtcSteps, IfSteps, Busy

\* At the beginning of an operation nothing is selected yet.
LEMMA FreshPhase ==
    ASSUME IInv, NEW p \in Procs, run[p].pc \in {"start", "lock", "identity"},
           NEW c \in {"rtc", "select", "iface", "lock", "identity"}, run'[p].pc = c, run'[p].list = run[p].list,
           run'[p].dev = run[p].dev, sit' = sit, past'[p].renamed = past[p].renamed,
           c = "rtc" => sit.asked[p].cmd = "rtc",
           c = "select" => sit.asked[p].cmd = "auto",
           c = "iface" => sit.asked[p].cmd = "iface",
           c \in {"lock", "identity"} => Writer(p)
    PROVE  Phase(p)' /\ Choice(p)'
<1>1. Phase(p)
  BY DEF IInv, Good
<1> QED
  BY <1>1 DEF Phase, Choice, RtcSteps, IfSteps, AutoSteps, Loops, Writer

LEMMA StartKeeps ==
    ASSUME IInv, NEW p \in Procs, Start(p)
    PROVE  IInv'
<1>1. /\ run[p].pc = "start" /\ run \in [Procs -> Run] /\ past \in [Procs -> Past]
      /\ "dry" \in Results /\ ~Locked(p)
  BY DEF Start, IInv, Sane, Results, Mutex
<1>2. CASE Refuse(p)
  BY <1>1, <1>2, RefuseKeeps
<1>3. CASE run' = [run EXCEPT ![p].pc = "done", ![p].result = "dry"] /\ ~Refuse(p)
  <2>1. Becomes(p, "done", run[p].list, run[p].at, run[p].dev, run[p].seen, "dry")
    BY <1>1, <1>3, EndBecomes
  <2>2. UNCHANGED <<sit, now, hardware, renames, lock, past>>
    BY <1>3 DEF Start
  <2> QED
    BY <1>1, <2>1, <2>2, Leaves
<1>4. CASE Go(p, IF Writer(p) THEN "lock" ELSE Dispatch(p)) /\ UNCHANGED <<sit, now, hardware, renames, lock, past>>
  <2> DEFINE c == IF Writer(p) THEN "lock" ELSE Dispatch(p)
  <2>1. /\ c \in Steps /\ c \in {"rtc", "select", "iface", "lock"} /\ (c = "lock" <=> Writer(p))
        /\ c = "rtc" => sit.asked[p].cmd = "rtc"
        /\ c = "select" => sit.asked[p].cmd = "auto"
        /\ c = "iface" => sit.asked[p].cmd = "iface"
    BY DispatchFacts DEF Steps
  <2>2. Go(p, c)
    BY <1>4
  <2> HIDE DEF c
  <2>3. Becomes(p, c, run[p].list, run[p].at, run[p].dev, run[p].seen, run[p].result)
    BY <1>1, <2>1, <2>2, GoBecomes
  <2>4. /\ run' \in [Procs -> Run] /\ past' \in [Procs -> Past] /\ run'[p].pc = c
        /\ run'[p].list = run[p].list /\ run'[p].dev = run[p].dev
        /\ \A q \in Procs \ {p} : run'[q] = run[q] /\ past'[q] = past[q]
    BY <1>1, <1>4, <2>3 DEF Becomes
  <2>5. Apart(p) /\ Clock' /\ ~Locked(p)' /\ sit' = sit /\ past' = past
    BY <1>1, <1>4, <2>4, SoftlyApart
  <2>6. Phase(p)' /\ Choice(p)'
    BY <1>1, <2>1, <2>4, <2>5, FreshPhase
  <2>7. Good(p)'
    BY <2>5, <2>6, UnlockedGood
  <2> QED
    BY <2>1, <2>4, <2>5, <2>7, StepKeeps
<1> QED
  BY <1>2, <1>3, <1>4 DEF Start

LEMMA LockKeeps ==
    ASSUME IInv, NEW p \in Procs, Lock(p)
    PROVE  IInv'
<1>1. /\ run[p].pc = "lock" /\ run \in [Procs -> Run] /\ past \in [Procs -> Past]
      /\ alarm \in Nat /\ wol \in [Devs -> Flags] /\ "identity" \in Steps /\ Writer(p)
  BY DEF Lock, IInv, Sane, Steps, Good, Phase
<1>2. CASE Refuse(p)
  BY <1>1, <1>2, RefuseKeeps
<1>3. CASE ~Refuse(p)
  <2>1. /\ lock[Kind(p)] = None /\ lock' = [lock EXCEPT ![Kind(p)] = p] /\ Go(p, "identity")
        /\ past' = [past EXCEPT ![p].alarm = alarm, ![p].wol = wol]
        /\ sit' = sit /\ now' = now /\ nic' = nic /\ renames' = renames /\ alarm' = alarm /\ wol' = wol
    BY <1>3 DEF Lock, Free, hardware
  <2>2. Becomes(p, "identity", run[p].list, run[p].at, run[p].dev, run[p].seen, run[p].result)
    BY <1>1, <2>1, GoBecomes
  <2>3. Records(p, alarm, wol, past[p].devs, past[p].faulted, past[p].renamed, past[p].rebound, past[p].held)
    BY <1>1, <2>1, LockRecords
  <2>4. /\ run' \in [Procs -> Run] /\ past' \in [Procs -> Past] /\ run'[p].pc = "identity"
        /\ run'[p].list = run[p].list /\ run'[p].dev = run[p].dev
        /\ past'[p].alarm = alarm /\ past'[p].wol = wol /\ past'[p].renamed = past[p].renamed
        /\ \A q \in Procs \ {p} : run'[q] = run[q] /\ Alike(q)
    BY <2>2, <2>3 DEF Becomes, Records, Alike
  <2>5. /\ lock \in [Kinds -> Procs \cup {None}] /\ lock' \in [Kinds -> Procs \cup {None}]
        /\ \A q \in Procs : Kind(q) \in Kinds /\ Kind(q)' = Kind(q)
    BY <2>1, SitFacts DEF IInv, Sane, Kind
  <2>6. Locked(p)' /\ \A q \in Procs \ {p} : Locked(q)' <=> Locked(q)
    BY <2>1, <2>5, NotAProc DEF Locked
  <2>7. Apart(p) /\ Clock'
    BY <2>1, <2>4, <2>5, <2>6 DEF IInv, Sane, Apart, Clock
  <2>8. Phase(p)' /\ Choice(p)'
    BY <1>1, <2>1, <2>4, FreshPhase
  <2>9. RtcGood(p)' /\ AutoGood(p)' /\ IfGood(p)' /\ WolGood(p)'
    BY <2>1, <2>4 DEF RtcGood, AutoGood, IfGood, WolGood, Reports, IfSteps
  <2> QED
    BY <1>1, <2>4, <2>6, <2>7, <2>8, <2>9, StepKeeps DEF Good
<1> QED
  BY <1>2, <1>3

LEMMA IdentityKeeps ==
    ASSUME IInv, NEW p \in Procs, Identity(p)
    PROVE  IInv'
<1>1. /\ run[p].pc = "identity" /\ Busy(run[p].pc)
      /\ UNCHANGED <<sit, now, hardware, renames, lock>>
  BY DEF Identity, Busy
<1>2. CASE Fails(p)
  BY <1>1, <1>2, SoftFail
<1>3. CASE Go(p, Dispatch(p)) /\ past' = past
  <2> DEFINE c == Dispatch(p)
  <2>1. /\ c \in {"rtc", "select", "iface"} /\ c \in Steps /\ Busy(c)
        /\ c = "rtc" => sit.asked[p].cmd = "rtc"
        /\ c = "select" => sit.asked[p].cmd = "auto"
        /\ c = "iface" => sit.asked[p].cmd = "iface"
    BY DispatchFacts
  <2>2. Go(p, c) /\ past' = past
    BY <1>3
  <2> HIDE DEF c
  <2>3. ASSUME run'[p].pc = c, run'[p].list = run[p].list, run'[p].at = run[p].at,
               run'[p].dev = run[p].dev, run'[p].seen = run[p].seen
        PROVE  Good(p)'
    <3>1. /\ Locked(p)' <=> Locked(p)
          /\ sit' = sit /\ now' = now /\ alarm' = alarm /\ wol' = wol
      BY <1>1 DEF Locked, Kind, hardware
    <3>2. Phase(p)' /\ Choice(p)'
      BY <1>1, <2>1, <2>2, <2>3, <3>1, FreshPhase
    <3>3. RtcGood(p)'
      BY <1>1, <2>1, <2>2, <2>3, <3>1 DEF IInv, Good, RtcGood, Reports, RtcNow
    <3>4. AutoGood(p)' /\ IfGood(p)'
      BY <2>1, <2>3 DEF AutoGood, IfGood, Reports, IfSteps
    <3>5. WolGood(p)'
      BY <1>1, <2>1, <2>2, <2>3, <3>1 DEF IInv, Good, WolGood, Reports, Wanted
    <3> QED
      BY <3>2, <3>3, <3>4, <3>5 DEF Good
  <2> QED
    BY <1>1, <2>1, <2>2, <2>3, SoftGo
<1> QED
  BY <1>2, <1>3 DEF Identity

LEMMA DoneKeeps ==
    ASSUME IInv, NEW p \in Procs, Done(p)
    PROVE  IInv'
<1>1. run \in [Procs -> Run] /\ "done" \in Steps /\ run[p].result \in Results
  BY RunFields DEF IInv, Sane, Steps
<1>2. Becomes(p, "done", run[p].list, run[p].at, run[p].dev, run[p].seen, run[p].result)
  BY <1>1, GoBecomes DEF Done
<1> QED
  BY <1>1, <1>2, Leaves DEF Done

LEMMA KillKeeps ==
    ASSUME IInv, NEW p \in Procs, Kill(p)
    PROVE  IInv'
<1>1. run \in [Procs -> Run] /\ "killed" \in Results
  BY DEF IInv, Sane, Results
<1>2. Becomes(p, "done", run[p].list, run[p].at, run[p].dev, run[p].seen, "killed")
  BY <1>1, EndBecomes DEF Kill
<1> QED
  BY <1>1, <1>2, Leaves DEF Kill

-----------------------------------------------------------------------------
(* The surroundings. *)

LEMMA TickKeeps ==
    ASSUME IInv, Tick
    PROVE  IInv'
<1>1. /\ now' = now + 1 /\ now < sit.ticks /\ sit' = sit /\ nic' = nic /\ wol' = wol
      /\ renames' = renames /\ lock' = lock /\ run' = run /\ past' = past
      /\ alarm' = IF alarm <= RtcNow + 1 THEN 0 ELSE alarm
  BY DEF Tick
<1>2. now \in Nat /\ RtcNow \in Int /\ sit.ticks \in Nat /\ sit.skew \in Int /\ alarm \in Nat
  BY SitFacts DEF IInv, Sane
<1>3. RtcNow' = RtcNow + 1
  BY <1>1, <1>2 DEF RtcNow
<1>4. now' \in 0..sit.ticks /\ alarm' \in Nat
  BY <1>1, <1>2
<1>5. Sane'
  BY <1>1, <1>4 DEF IInv, Sane
<1>6. \A p \in Procs : Locked(p)' <=> Locked(p)
  BY <1>1 DEF Locked, Kind
<1>7. Mutex'
  BY <1>1, <1>6 DEF IInv, Mutex, Writer
<1>8. Clock'
  BY <1>1, <1>2 DEF IInv, Clock, RtcNow
<1>9. ASSUME NEW p \in Procs PROVE Good(p)'
  <2>1. Good(p)
    BY DEF IInv
  <2>2. Phase(p)'
    BY <1>1, <2>1 DEF Good, Phase, Writer
  <2>3. Choice(p)'
    BY <1>1, <2>1 DEF Good, Choice, Selection, Renamed, Physical
  <2>4. AutoGood(p)'
    BY <1>1, <1>6, <2>1 DEF Good, AutoGood, Reports, Supports, Wanted
  <2>5. IfGood(p)'
    BY <1>1, <1>6, <2>1 DEF Good, IfGood, Reports, Wanted, IfName
  <2>6. WolGood(p)'
    BY <1>1, <1>6, <2>1 DEF Good, WolGood, Reports, Wanted
  <2>7. RtcGood(p)'
    <3>1. past[p].alarm \in Nat /\ sit.asked[p].epoch \in Nat
      BY SitFacts DEF IInv, Sane, Past
    <3> QED
      BY <1>1, <1>2, <1>3, <1>6, <2>1, <3>1 DEF Good, RtcGood, Reports
  <2> QED
    BY <2>2, <2>3, <2>4, <2>5, <2>6, <2>7 DEF Good
<1> QED
  BY <1>5, <1>7, <1>8, <1>9 DEF IInv

LEMMA RenameKeeps ==
    ASSUME IInv, NEW a \in Names, NEW b \in Names \cup {None}, Rename(a, b)
    PROVE  IInv'
<1>1. /\ renames > 0 /\ nic[a] # 0 /\ (b \in Names => nic[b] = 0) /\ renames' = renames - 1
      /\ sit' = sit /\ now' = now /\ alarm' = alarm /\ wol' = wol /\ lock' = lock /\ run' = run
  BY DEF Rename
<1>2. nic \in [Names -> Devs \cup {0}] /\ OneName(nic)
  BY DEF IInv, Sane
<1>3. /\ nic' \in [Names -> Devs \cup {0}] /\ nic'[a] = 0 /\ (b \in Names => nic'[b] = nic[a])
      /\ \A n \in Names \ {a, b} : nic'[n] = nic[n]
  <2>1. a # b
    BY <1>1
  <2>2. nic' = [n \in Names |-> CASE n = a -> 0 [] n = b -> nic[a] [] OTHER -> nic[n]]
    BY DEF Rename
  <2> QED
    BY <1>2, <2>1, <2>2
<1>4. OneName(nic)'
  BY <1>1, <1>2, <1>3 DEF OneName
<1>5. /\ past' \in [Procs -> Past]
      /\ \A q \in Procs :
           /\ past'[q].alarm = past[q].alarm /\ past'[q].wol = past[q].wol
           /\ past'[q].devs = past[q].devs /\ past'[q].held = past[q].held
           /\ past'[q].faulted = past[q].faulted
           /\ past'[q].renamed = (past[q].renamed \/ Selected(q))
           /\ past'[q].rebound = (past[q].rebound \/ Rebinds(q, b, nic[a]))
  <2>1. past \in [Procs -> Past]
    BY DEF IInv, Sane
  <2> QED
    BY <2>1, RenameRecords, Zenon
<1>6. Sane'
  <2>1. renames' \in 0..sit.renames
    BY <1>1, SitFacts DEF IInv, Sane
  <2> QED
    BY <1>1, <1>3, <1>4, <1>5, <2>1 DEF IInv, Sane
<1>7. \A p \in Procs : Locked(p)' <=> Locked(p)
  BY <1>1 DEF Locked, Kind
<1>8. Mutex' /\ Clock'
  BY <1>1, <1>7 DEF IInv, Mutex, Writer, Clock
<1>9. ASSUME NEW p \in Procs PROVE Good(p)'
  <2>1. Good(p)
    BY DEF IInv
  <2>2. /\ past'[p].renamed \/ ~past[p].renamed
        /\ past'[p].rebound \/ ~past[p].rebound
        /\ past'[p].renamed => past[p].renamed \/ Selected(p)
    BY <1>5
  <2>3. run[p].list # <<>> /\ run[p].pc \in AutoSteps => past'[p].renamed
    BY <1>5 DEF Selected, Running, AutoSteps
  <2>4. run[p].pc \in IfSteps \ {"iface"} => past'[p].renamed /\ run[p].dev # 0
    <3>1. run[p].pc \in IfSteps \ {"iface"} => run[p].dev # 0
      BY <2>1, SitFacts DEF IInv, Good, Phase
    <3> QED
      BY <1>5, <3>1 DEF Selected, Running, IfSteps
  <2>5. Phase(p)'
    <3>1. run[p].list = <<>> /\ run[p].dev = 0 /\ ~past[p].renamed => ~past'[p].renamed
      BY <2>2 DEF Selected
    <3> QED
      BY <1>1, <2>1, <3>1 DEF Good, Phase, Writer
  <2>6. RtcGood(p)'
    BY <1>1, <1>5, <1>7, <2>1 DEF Good, RtcGood, Reports, RtcNow
  <2>7. Choice(p)'
    BY <1>1, <2>1, <2>3 DEF Good, Phase, Choice
  <2>8. AutoGood(p)'
    <3>1. ASSUME run[p].pc = "read", sit.asked[p].cmd = "auto", Locked(p), ~past'[p].rebound
          PROVE  /\ DOMAIN past[p].devs = DOMAIN run[p].list
                 /\ \A i \in DOMAIN run[p].list : nic'[run[p].list[i]] \in {0, past[p].devs[i]}
                 /\ \A i \in 1..(run[p].at - 1) : PolicyOf(wol[past[p].devs[i]]) = run[p].seen
      <4>1. /\ DOMAIN past[p].devs = DOMAIN run[p].list
            /\ \A i \in DOMAIN run[p].list : nic[run[p].list[i]] \in {0, past[p].devs[i]}
            /\ \A i \in 1..(run[p].at - 1) : PolicyOf(wol[past[p].devs[i]]) = run[p].seen
        BY <2>1, <2>2, <3>1 DEF Good, AutoGood
      <4>2. run[p].list # <<>> /\ run[p].dev = 0
        BY <2>1, <3>1 DEF Good, Phase, AutoSteps
      <4>3. ~Rebinds(p, b, nic[a])
        BY <1>5, <3>1
      <4>4. \A i \in DOMAIN run[p].list : run[p].list[i] # b
        BY <3>1, <4>2, <4>3 DEF Rebinds, Selected, Running
      <4>5. \A i \in DOMAIN run[p].list : run[p].list[i] \in Names
        BY RunFields DEF IInv, Sane
      <4> QED
        BY <1>3, <4>1, <4>4, <4>5
    <3>2. run[p].pc \in {"query", "write", "reselect", "read"} => past'[p].renamed
      BY <2>1, <2>3 DEF Good, Phase, AutoSteps
    <3>3. Reports(p, "ok") /\ sit.asked[p].cmd = "auto" /\ Locked(p) =>
            \/ past'[p].rebound
            \/ \A i \in DOMAIN past[p].devs : PolicyOf(wol[past[p].devs[i]]) = sit.asked[p].policy
      BY <2>1, <2>2 DEF Good, AutoGood
    <3> QED
      BY <1>1, <1>5, <1>7, <3>1, <3>2, <3>3 DEF AutoGood, Reports
  <2>9. IfGood(p)'
    <3>1. IfName(p) \in Names /\ IfName(p)' = IfName(p)
      BY <1>1, SitFacts DEF IInv, IfName
    <3>2. ASSUME run[p].pc \in IfSteps \ {"iface"}, ~past'[p].rebound, nic'[IfName(p)] = run[p].dev
          PROVE  nic[IfName(p)] = run[p].dev /\ ~past[p].rebound
      <4>1. ~Rebinds(p, b, nic[a])
        BY <1>5, <3>2
      <4>2. IfName(p) # b \/ nic[a] # run[p].dev
        BY <2>4, <3>2, <4>1 DEF Rebinds, Selected, Running, IfSteps
      <4> QED
        BY <1>3, <2>2, <2>4, <3>1, <3>2, <4>2
    <3>3. {"ifagain", "ifwrite", "ifback", "ifafter"} \subseteq IfSteps \ {"iface"}
      BY DEF IfSteps
    <3> DEFINE asked == [past[p].wol EXCEPT ![run[p].dev] = Wanted(p)]
    <3>4. [past[p].wol EXCEPT ![run[p].dev] = Wanted(p)]' = asked
      BY <1>1, <1>5 DEF Wanted
    <3>5. sit.asked[p].cmd = "iface" /\ Locked(p) =>
             /\ run[p].pc = "ifback" /\ ~past[p].rebound /\ nic[IfName(p)] = run[p].dev =>
                   wol = past[p].wol \/ wol = asked
             /\ run[p].pc = "ifafter" /\ ~past[p].rebound /\ nic[IfName(p)] = run[p].dev => wol = asked
             /\ Reports(p, "ok") => past[p].rebound \/ wol = asked
      BY <2>1 DEF Good, IfGood
    <3> HIDE DEF asked
    <3> QED
      BY <1>1, <1>5, <1>7, <2>2, <2>4, <3>1, <3>2, <3>3, <3>4, <3>5 DEF IfGood, Reports
  <2>10. WolGood(p)'
    BY <1>1, <1>5, <1>7, <2>1, <2>2 DEF Good, WolGood, Reports, Wanted
  <2> QED
    BY <2>5, <2>6, <2>7, <2>8, <2>9, <2>10 DEF Good
<1> QED
  BY <1>6, <1>8, <1>9 DEF IInv

-----------------------------------------------------------------------------
(* What the Wake-on-LAN operations share. *)

LEMMA PolicyFacts ==
    /\ \A f : PolicyOf(f) \in Policies /\ PolicyOf(f) # None
    /\ \A v : Word(v) \in Flags
    /\ \A v \in Policies : PolicyOf(Word(v)) = v /\ v # None
  BY DEF PolicyOf, Word, Policies, Flags, None

LEMMA WolError ==
    ASSUME IInv, NEW p \in Procs, Busy(run[p].pc), sit.asked[p].cmd # "rtc", Report(p, "error"),
           past' = past, UNCHANGED <<sit, now, hardware, renames, lock>>,
           Locked(p) /\ ~past[p].renamed /\ ~past[p].faulted => wol = past[p].wol
    PROVE  IInv'
  BY SoftError

\* What a write does to the flags, the histories and its own process.
Changed(p, name) == [wol EXCEPT ![nic[name]] = Wanted(p)]

LEMMA ChangedFacts ==
    ASSUME Sane, NEW p \in Procs, NEW name \in Names, Supports(name)
    PROVE  /\ nic[name] \in Devs /\ Wanted(p) \in Flags /\ Changed(p, name) \in [Devs -> Flags]
           /\ Changed(p, name)[nic[name]] = Wanted(p)
           /\ \A d \in Devs \ {nic[name]} : Changed(p, name)[d] = wol[d]
<1>1. nic[name] \in Devs
  BY SitFacts DEF Supports
<1>2. Wanted(p) \in Flags
  BY PolicyFacts DEF Wanted
<1> QED
  BY <1>1, <1>2 DEF Changed, Sane

Errs(p, name) ==
    /\ Supports(name) /\ wol' \in {wol, Changed(p, name)} /\ SeenBy(p, TRUE) /\ Report(p, "error")
Writes(p, name, next) ==
    /\ Supports(name) /\ run' = [run EXCEPT ![p] = next]
    /\ \/ wol' = Changed(p, name) /\ SeenBy(p, past[p].faulted)
       \/ wol' = wol /\ SeenBy(p, TRUE)

LEMMA SwolCases ==
    ASSUME Sane, NEW p \in Procs, NEW name \in Names, NEW next, Swol(p, name, next)
    PROVE  \/ ~Supports(name) /\ Report(p, "error") /\ wol' = wol /\ past' = past
           \/ Errs(p, name)
           \/ Writes(p, name, next)
<1>1. past \in [Procs -> Past]
  BY DEF Sane
<1>2. /\ past' = Observed => SeenBy(p, past[p].faulted)
      /\ past' = [Observed EXCEPT ![p].faulted = TRUE] => SeenBy(p, TRUE)
  BY <1>1, ObservedFacts
<1>3. \/ ~Supports(name) /\ Report(p, "error") /\ wol' = wol /\ past' = past
      \/ /\ Supports(name) /\ wol' = Changed(p, name) /\ past' = Observed
         /\ run' = [run EXCEPT ![p] = next]
      \/ /\ Supports(name) /\ wol' = wol /\ run' = [run EXCEPT ![p] = next]
         /\ past' = [Observed EXCEPT ![p].faulted = TRUE]
      \/ /\ Supports(name) /\ wol' \in {wol, Changed(p, name)} /\ Report(p, "error")
         /\ past' = [Observed EXCEPT ![p].faulted = TRUE]
  BY Zenon DEF Swol, Changed, Wanted
<1> QED
  BY <1>2, <1>3, Zenon DEF Errs, Writes

\* A locked write, as all processes see it.
LEMMA WriteKeeps ==
    ASSUME IInv, NEW p \in Procs, Locked(p), sit.asked[p].cmd # "rtc", NEW f, SeenBy(p, f),
           wol' \in [Devs -> Flags], UNCHANGED <<sit, now, alarm, nic, renames, lock>>,
           run' \in [Procs -> Run], \A q \in Procs \ {p} : run'[q] = run[q],
           Busy(run'[p].pc), Good(p)'
    PROVE  IInv'
<1>1. \A q \in Procs : Locked(q)' <=> Locked(q)
  BY DEF Locked, Kind
<1>2. Kind(p) = "wol"
  BY DEF Kind
<1>3. \A q \in Procs \ {p} : Alike(q)
  BY DEF SeenBy, Alike
<1>4. past' \in [Procs -> Past]
  BY DEF SeenBy
<1>5. Apart(p) /\ Clock'
  BY <1>1, <1>2, <1>3, <1>4 DEF IInv, Sane, Apart, Clock
<1>6. Locked(p)' <=> Writer(p) /\ run'[p].pc \notin {"start", "lock", "done"}
  BY <1>1 DEF IInv, Mutex, Busy
<1> QED
  BY <1>5, <1>6, StepKeeps

LEMMA ErrsKeeps ==
    ASSUME IInv, NEW p \in Procs, NEW name \in Names, Locked(p), sit.asked[p].cmd # "rtc",
           Errs(p, name), UNCHANGED <<sit, now, alarm, nic, renames, lock>>
    PROVE  IInv'
<1>1. run \in [Procs -> Run] /\ "error" \in Results /\ wol \in [Devs -> Flags] /\ Supports(name) /\ Sane
  BY DEF IInv, Sane, Results, Errs
<1>2. Becomes(p, "report", run[p].list, run[p].at, run[p].dev, run[p].seen, "error")
  BY <1>1, ReportBecomes DEF Errs
<1>3. wol' \in [Devs -> Flags] /\ \A d \in Devs : wol'[d] \in {wol[d], Wanted(p)}
  BY <1>1, ChangedFacts DEF Errs
<1>4. \A d \in Devs : wol[d] \in {past[p].wol[d], Wanted(p)}
  BY DEF IInv, Good, WolGood
<1>5. SeenBy(p, TRUE)
  BY DEF Errs
<1>6. /\ past'[p].alarm = past[p].alarm /\ past'[p].wol = past[p].wol /\ past'[p].faulted = TRUE
      /\ past'[p].renamed = past[p].renamed
  BY <1>5 DEF SeenBy
<1>7. Locked(p)' <=> Locked(p)
  BY DEF Locked, Kind
<1>8. \A d \in Devs : wol'[d] \in {past[p].wol[d], Wanted(p)}
  BY <1>3, <1>4
<1>9. Good(p)'
  BY <1>2, <1>6, <1>7, <1>8, ErrGood
<1>10. run' \in [Procs -> Run] /\ run'[p].pc = "report" /\ \A q \in Procs \ {p} : run'[q] = run[q]
  BY <1>2 DEF Becomes
<1> QED
  BY <1>3, <1>5, <1>9, <1>10, WriteKeeps DEF Busy

-----------------------------------------------------------------------------
(* One named interface. *)

LEMMA IfOthers ==
    ASSUME NEW p \in Procs, sit.asked[p].cmd = "iface", sit' = sit,
           run'[p].pc \in IfSteps \cup {"report"}, Phase(p)', IfGood(p)', WolGood(p)'
    PROVE  Good(p)'
<1>1. Choice(p)' /\ AutoGood(p)' /\ RtcGood(p)'
  BY DEF Choice, AutoGood, RtcGood, AutoSteps, IfSteps
<1> QED
  BY <1>1 DEF Good

LEMMA IfFacts ==
    ASSUME IInv, NEW p \in Procs, run[p].pc \in IfSteps
    PROVE  /\ sit.asked[p].cmd = "iface" /\ Busy(run[p].pc) /\ Phase(p) /\ IfGood(p) /\ WolGood(p)
           /\ run \in [Procs -> Run] /\ past \in [Procs -> Past] /\ IfName(p) \in Names
           /\ nic[IfName(p)] \in Devs \cup {0} /\ (Writer(p) <=> Locked(p))
           /\ run[p].pc # "iface" => run[p].dev \in sit.physical \cup sit.mac /\ run[p].dev \in Devs /\ run[p].dev # 0
<1>1. Phase(p) /\ IfGood(p) /\ WolGood(p) /\ sit.asked[p].cmd = "iface"
  BY DEF IInv, Good, Phase
<1>2. IfName(p) \in Names /\ sit.physical \cup sit.mac \subseteq Devs /\ 0 \notin Devs
  BY SitFacts DEF IInv
<1>3. run \in [Procs -> Run] /\ past \in [Procs -> Past] /\ nic[IfName(p)] \in Devs \cup {0}
  BY <1>2 DEF IInv, Sane
<1>4. Busy(run[p].pc) /\ (Writer(p) <=> Locked(p))
  BY DEF IInv, Mutex, Busy, IfSteps
<1>5. run[p].pc # "iface" => run[p].dev \in sit.physical \cup sit.mac
  BY <1>1 DEF Phase
<1> QED
  BY <1>1, <1>2, <1>3, <1>4, <1>5

LEMMA IfSoft ==
    ASSUME IInv, NEW p \in Procs, run[p].pc \in IfSteps, NEW c, NEW at, NEW dev, NEW seen, NEW res,
           Becomes(p, c, run[p].list, at, dev, seen, res), c \in IfSteps \cup {"report"}, past' = past,
           UNCHANGED <<sit, now, hardware, renames, lock>>,
           c \in {"ifagain", "ifwrite", "ifback", "ifafter"} => Writer(p),
           c # "iface", dev \in sit.physical \cup sit.mac,
           IfGood(p)', WolGood(p)'
    PROVE  IInv'
<1>1. sit.asked[p].cmd = "iface" /\ Busy(run[p].pc) /\ Phase(p) /\ past \in [Procs -> Past]
  BY IfFacts
<1>2. /\ run' \in [Procs -> Run] /\ past' \in [Procs -> Past] /\ run'[p].pc = c
      /\ run'[p].list = run[p].list /\ run'[p].dev = dev /\ sit' = sit
      /\ \A q \in Procs \ {p} : run'[q] = run[q] /\ past'[q] = past[q]
  BY <1>1 DEF Becomes
<1>3. Phase(p)'
  BY <1>1, <1>2 DEF Phase, RtcSteps, IfSteps, AutoSteps, Loops, Writer
<1>4. Good(p)'
  BY <1>1, <1>2, <1>3, IfOthers
<1>5. Busy(run'[p].pc)
  BY <1>2 DEF Busy, IfSteps
<1> QED
  BY <1>1, <1>2, <1>4, <1>5, SoftStep

LEMMA IfSame ==
    ASSUME NEW p \in Procs, UNCHANGED <<sit, now, hardware, renames, lock>>
    PROVE  /\ (Locked(p)' <=> Locked(p)) /\ IfName(p)' = IfName(p) /\ Wanted(p)' = Wanted(p)
           /\ sit' = sit /\ nic' = nic /\ wol' = wol
  BY DEF Locked, Kind, IfName, Wanted, hardware

LEMMA IfOpenKeeps ==
    ASSUME IInv, NEW p \in Procs, IfOpen(p)
    PROVE  IInv'
<1>1. /\ run[p].pc = "iface" /\ run[p].pc \in IfSteps /\ past' = past
      /\ UNCHANGED <<sit, now, hardware, renames, lock>>
  BY DEF IfOpen, IfSteps
<1>2. /\ sit.asked[p].cmd = "iface" /\ Busy(run[p].pc) /\ WolGood(p) /\ run \in [Procs -> Run]
      /\ nic[IfName(p)] \in Devs \cup {0}
  BY <1>1, IfFacts
<1>3. Locked(p) => wol = past[p].wol /\ \A d \in Devs : wol[d] \in {past[p].wol[d], Wanted(p)}
  BY <1>1, <1>2 DEF WolGood
<1>4. CASE Report(p, "error")
  BY <1>1, <1>2, <1>3, <1>4, WolError
<1>5. CASE Evidence(IfName(p)) # 0 /\ run' = [run EXCEPT ![p].pc = "ifquery", ![p].dev = Evidence(IfName(p))]
  <2> DEFINE d == Evidence(IfName(p))
  <2>1. d \in sit.physical \cup sit.mac /\ d \in Devs \cup {0} /\ nic[IfName(p)] = d
    BY <1>2, <1>5 DEF Evidence
  <2>2. run' = [run EXCEPT ![p].pc = "ifquery", ![p].dev = d]
    BY <1>5
  <2> HIDE DEF d
  <2>3. Becomes(p, "ifquery", run[p].list, run[p].at, d, run[p].seen, run[p].result)
    BY <1>2, <2>1, <2>2, OpenBecomes
  <2>4. run'[p].pc = "ifquery" /\ run'[p].dev = d
    BY <2>3 DEF Becomes
  <2>5. IfGood(p)'
    BY <1>1, <2>1, <2>4, IfSame DEF IfGood, Reports
  <2>6. WolGood(p)'
    BY <1>1, <1>3, <2>4, IfSame DEF WolGood, Reports
  <2> QED
    BY <1>1, <2>1, <2>3, <2>5, <2>6, IfSoft DEF IfSteps
<1> QED
  BY <1>4, <1>5 DEF IfOpen

LEMMA IfGo ==
    ASSUME IInv, NEW p \in Procs, run[p].pc \in IfSteps \ {"iface"}, Writer(p),
           NEW c \in {"ifagain", "ifwrite", "ifafter"}, Go(p, c), past' = past,
           UNCHANGED <<sit, now, hardware, renames, lock>>,
           c \in {"ifagain", "ifwrite"} => run[p].pc \in {"ifquery", "ifagain"},
           ~past[p].renamed => run[p].dev \in sit.magic,
           c = "ifafter" /\ ~past[p].rebound /\ nic[IfName(p)] = run[p].dev =>
              wol = [past[p].wol EXCEPT ![run[p].dev] = Wanted(p)]
    PROVE  IInv'
<1>1. /\ sit.asked[p].cmd = "iface" /\ Busy(run[p].pc) /\ WolGood(p) /\ IfGood(p) /\ run \in [Procs -> Run]
      /\ run[p].dev \in sit.physical \cup sit.mac /\ Locked(p) /\ c \in Steps
  BY IfFacts DEF Steps, IfSteps
<1>2. Becomes(p, c, run[p].list, run[p].at, run[p].dev, run[p].seen, run[p].result)
  BY <1>1, GoBecomes
<1>3. run'[p].pc = c /\ run'[p].dev = run[p].dev
  BY <1>2 DEF Becomes
<1>4. ~past[p].renamed => nic[IfName(p)] = run[p].dev
  BY <1>1 DEF IfGood
<1>5. IfGood(p)'
  BY <1>3, <1>4, IfSame DEF IfGood, Reports
<1>6. WolGood(p)'
  BY <1>1, <1>3, IfSame DEF WolGood, Reports
<1> QED
  BY <1>1, <1>2, <1>5, <1>6, IfSoft DEF IfSteps

LEMMA IfQueryKeeps ==
    ASSUME IInv, NEW p \in Procs, IfQuery(p)
    PROVE  IInv'
<1>1. /\ run[p].pc = "ifquery" /\ run[p].pc \in IfSteps
      /\ UNCHANGED <<sit, now, hardware, renames, lock>>
  BY DEF IfQuery, IfSteps
<1>2. /\ sit.asked[p].cmd = "iface" /\ Busy(run[p].pc) /\ WolGood(p) /\ IfGood(p) /\ run \in [Procs -> Run]
      /\ (Writer(p) <=> Locked(p)) /\ run[p].dev \in sit.physical \cup sit.mac
  BY <1>1, IfFacts
<1>3. CASE Fails(p)
  BY <1>1, <1>2, <1>3, SoftFail
<1>4. CASE Report(p, "error") /\ past' = past
  <2>1. Locked(p) => wol = past[p].wol
    BY <1>1, <1>2 DEF WolGood
  <2> QED
    BY <1>1, <1>2, <1>4, <2>1, WolError
<1>5. CASE Supports(IfName(p)) /\ Writer(p) /\ Go(p, "ifagain") /\ past' = past
  <2>1. ~past[p].renamed => run[p].dev \in sit.magic
    BY <1>1, <1>2, <1>5 DEF IfGood, Supports, IfSteps
  <2> QED
    BY <1>1, <1>5, <2>1, IfGo
<1>6. CASE ~Writer(p) /\ Ok(p, PolicyOf(wol[nic[IfName(p)]])) /\ past' = past
  <2> DEFINE v == PolicyOf(wol[nic[IfName(p)]])
  <2>1. v \in Policies /\ Ok(p, v)
    BY <1>6, PolicyFacts
  <2> HIDE DEF v
  <2>2. Becomes(p, "report", run[p].list, run[p].at, run[p].dev, v, "ok")
    BY <1>2, <2>1, OkBecomes
  <2>3. ~Locked(p)'
    BY <1>1, <1>2, <1>6, IfSame
  <2>4. IfGood(p)' /\ WolGood(p)'
    BY <2>3 DEF IfGood, WolGood
  <2> QED
    BY <1>1, <1>2, <1>6, <2>2, <2>4, IfSoft
<1> QED
  BY <1>3, <1>4, <1>5, <1>6 DEF IfQuery

LEMMA EvidenceFacts ==
    ASSUME IInv, NEW p \in Procs, run[p].pc \in IfSteps \ {"iface"}
    PROVE  /\ SameDevice(p) <=> nic[IfName(p)] = run[p].dev
           /\ Locked(p) /\ ~past[p].renamed => SameDevice(p)
<1>1. /\ run[p].dev \in sit.physical \cup sit.mac /\ run[p].dev # 0 /\ IfGood(p)
      /\ sit.asked[p].cmd = "iface"
  BY IfFacts
<1>2. SameDevice(p) <=> nic[IfName(p)] = run[p].dev
  BY <1>1 DEF SameDevice, Evidence
<1> QED
  BY <1>1, <1>2 DEF IfGood

LEMMA IfAgainKeeps ==
    ASSUME IInv, NEW p \in Procs, IfAgain(p)
    PROVE  IInv'
<1>1. /\ run[p].pc = "ifagain" /\ run[p].pc \in IfSteps \ {"iface"} /\ past' = past
      /\ UNCHANGED <<sit, now, hardware, renames, lock>>
  BY DEF IfAgain, IfSteps
<1>2. /\ sit.asked[p].cmd = "iface" /\ Busy(run[p].pc) /\ WolGood(p) /\ IfGood(p) /\ Phase(p)
      /\ (Writer(p) <=> Locked(p))
  BY <1>1, IfFacts
<1>3. Writer(p) /\ Locked(p)
  BY <1>1, <1>2 DEF Phase
<1>4. wol = past[p].wol /\ (~past[p].renamed => run[p].dev \in sit.magic)
  BY <1>1, <1>2, <1>3 DEF WolGood, IfGood
<1> QED
  BY <1>1, <1>2, <1>3, <1>4, WolError, IfGo DEF IfAgain

LEMMA IfWriteKeeps ==
    ASSUME IInv, NEW p \in Procs, IfWrite(p)
    PROVE  IInv'
<1>1. /\ run[p].pc = "ifwrite" /\ run[p].pc \in IfSteps \ {"iface"}
      /\ sit' = sit /\ now' = now /\ alarm' = alarm /\ nic' = nic /\ renames' = renames /\ lock' = lock
  BY DEF IfWrite, IfSteps
<1>2. /\ sit.asked[p].cmd = "iface" /\ Busy(run[p].pc) /\ WolGood(p) /\ IfGood(p) /\ Phase(p)
      /\ (Writer(p) <=> Locked(p)) /\ IfName(p) \in Names /\ run \in [Procs -> Run]
      /\ past \in [Procs -> Past] /\ run[p].dev \in Devs
  BY <1>1, IfFacts
<1>3. Writer(p) /\ Locked(p)
  BY <1>1, <1>2 DEF Phase
<1>4. /\ wol = past[p].wol
      /\ ~past[p].renamed => nic[IfName(p)] = run[p].dev /\ run[p].dev \in sit.magic
  BY <1>1, <1>2, <1>3 DEF WolGood, IfGood, IfSteps
<1> DEFINE name == IfName(p)
           r == run[p]
           t == [r EXCEPT !.pc = "ifback"]
<1>5. Sane /\ wol \in [Devs -> Flags] /\ Swol(p, name, t)
  BY DEF IInv, Sane, IfWrite
<1>6. CASE Report(p, "error") /\ wol' = wol /\ past' = past
  BY <1>1, <1>2, <1>4, <1>6, WolError DEF hardware
<1>7. CASE Errs(p, name)
  BY <1>1, <1>2, <1>3, <1>7, ErrsKeeps
<1>8. CASE Writes(p, name, t)
  <2>1. r \in Run /\ "ifback" \in Steps
    BY <1>2 DEF Steps, IfSteps
  <2> HIDE DEF r
  <2>2. /\ t \in Run /\ t.pc = "ifback" /\ t.list = r.list /\ t.at = r.at /\ t.dev = r.dev
        /\ t.seen = r.seen /\ t.result = r.result
    BY <2>1, RunWithPc
  <2>3. Supports(name) /\ run' = [run EXCEPT ![p] = t]
    BY <1>8 DEF Writes
  <2> HIDE DEF t
  <2>4. Becomes(p, t.pc, t.list, t.at, t.dev, t.seen, t.result)
    BY <1>2, <2>2, <2>3, ToRun
  <2>5. /\ run' \in [Procs -> Run] /\ run'[p].pc = "ifback" /\ run'[p].list = run[p].list
        /\ run'[p].dev = run[p].dev /\ \A q \in Procs \ {p} : run'[q] = run[q]
    BY <2>2, <2>4 DEF Becomes, r
  <2>6. /\ nic[name] \in Devs /\ Wanted(p) \in Flags /\ Changed(p, name) \in [Devs -> Flags]
        /\ Changed(p, name)[nic[name]] = Wanted(p)
        /\ \A d \in Devs \ {nic[name]} : Changed(p, name)[d] = wol[d]
    BY <1>2, <1>5, <2>3, ChangedFacts
  <2>7. PICK f : SeenBy(p, f) /\ (wol' = Changed(p, name) \/ (wol' = wol /\ f = TRUE))
    BY <1>8 DEF Writes
  <2>8. /\ past'[p].wol = past[p].wol /\ past'[p].renamed = past[p].renamed
        /\ past'[p].rebound = past[p].rebound /\ past'[p].faulted = f
    BY <2>7 DEF SeenBy
  <2>9. (Locked(p)' <=> Locked(p)) /\ name' = name /\ Wanted(p)' = Wanted(p)
    BY <1>1 DEF Locked, Kind, IfName, Wanted
  <2>10. IfGood(p)'
    <3>1. Changed(p, name) = [past[p].wol EXCEPT ![nic[name]] = Wanted(p)]
      BY <1>4 DEF Changed
    <3> HIDE DEF name
    <3>2. nic[name] = run[p].dev => wol' = past[p].wol \/ wol' = [past[p].wol EXCEPT ![run[p].dev] = Wanted(p)]
      BY <1>4, <2>7, <3>1
    <3>3. ~past[p].renamed /\ f # TRUE => wol'[run[p].dev] = Wanted(p)
      BY <1>4, <2>6, <2>7 DEF name
    <3> QED
      BY <1>1, <1>4, <2>5, <2>8, <2>9, <3>2, <3>3 DEF IfGood, Reports, name
  <2>11. WolGood(p)'
    <3>1. \A d \in Devs : wol'[d] \in {past[p].wol[d], Wanted(p)}
      BY <1>4, <2>6, <2>7
    <3> QED
      BY <2>5, <2>8, <2>9, <3>1 DEF WolGood, Reports
  <2>12. Phase(p)'
    BY <1>1, <1>2, <2>5 DEF Phase, RtcSteps, IfSteps, AutoSteps, Loops, Writer
  <2>13. Good(p)'
    BY <1>1, <1>2, <2>5, <2>10, <2>11, <2>12, IfOthers DEF IfSteps
  <2>14. wol' \in [Devs -> Flags] /\ Busy(run'[p].pc)
    BY <1>5, <2>5, <2>6, <2>7 DEF Busy
  <2> QED
    BY <1>1, <1>2, <1>3, <2>5, <2>7, <2>13, <2>14, WriteKeeps
<1> QED
  BY <1>2, <1>5, <1>6, <1>7, <1>8, SwolCases

LEMMA IfBackKeeps ==
    ASSUME IInv, NEW p \in Procs, IfBack(p)
    PROVE  IInv'
<1>1. /\ run[p].pc = "ifback" /\ run[p].pc \in IfSteps \ {"iface"}
      /\ UNCHANGED <<sit, now, hardware, renames, lock>>
  BY DEF IfBack, IfSteps
<1>2. /\ sit.asked[p].cmd = "iface" /\ Busy(run[p].pc) /\ WolGood(p) /\ IfGood(p) /\ Phase(p)
      /\ (Writer(p) <=> Locked(p)) /\ run[p].dev \in Devs /\ past \in [Procs -> Past]
  BY <1>1, IfFacts
<1>3. Writer(p) /\ Locked(p)
  BY <1>1, <1>2 DEF Phase
<1>4. CASE Fails(p)
  BY <1>1, <1>2, <1>4, SoftFail
<1>5. CASE past' = past
  <2>1. /\ ~past[p].renamed => nic[IfName(p)] = run[p].dev /\ run[p].dev \in sit.magic
        /\ ~past[p].renamed /\ ~past[p].faulted => wol[run[p].dev] = Wanted(p)
    BY <1>1, <1>2, <1>3 DEF IfGood
  <2>2. CASE Supports(IfName(p)) /\ wol[nic[IfName(p)]] = Wanted(p) /\ Go(p, "ifafter")
    <3>1. ASSUME ~past[p].rebound, nic[IfName(p)] = run[p].dev
          PROVE  wol = [past[p].wol EXCEPT ![run[p].dev] = Wanted(p)]
      <4>1. wol = past[p].wol \/ wol = [past[p].wol EXCEPT ![run[p].dev] = Wanted(p)]
        BY <1>1, <1>2, <1>3, <3>1 DEF IfGood
      <4>2. ASSUME wol = past[p].wol PROVE wol = [past[p].wol EXCEPT ![run[p].dev] = Wanted(p)]
        <5>1. wol \in [Devs -> Flags] /\ wol[run[p].dev] = Wanted(p)
          BY <2>2, <3>1 DEF IInv, Sane
        <5> QED
          BY <1>2, <4>2, <5>1
      <4> QED
        BY <4>1, <4>2
    <3> QED
      BY <1>1, <1>3, <1>5, <2>1, <2>2, <3>1, IfGo
  <2>3. CASE ~(Supports(IfName(p)) /\ wol[nic[IfName(p)]] = Wanted(p)) /\ Report(p, "error")
    <3>1. past[p].renamed \/ past[p].faulted
      BY <2>1, <2>3 DEF Supports
    <3> QED
      BY <1>1, <1>2, <1>5, <2>3, <3>1, WolError
  <2> QED
    BY <1>5, <1>4, <2>2, <2>3 DEF IfBack, Wanted
<1> QED
  BY <1>4, <1>5 DEF IfBack

LEMMA IfAfterKeeps ==
    ASSUME IInv, NEW p \in Procs, IfAfter(p)
    PROVE  IInv'
<1>1. /\ run[p].pc = "ifafter" /\ run[p].pc \in IfSteps \ {"iface"} /\ past' = past
      /\ UNCHANGED <<sit, now, hardware, renames, lock>>
  BY DEF IfAfter, IfSteps
<1>2. /\ sit.asked[p].cmd = "iface" /\ Busy(run[p].pc) /\ WolGood(p) /\ IfGood(p) /\ Phase(p)
      /\ (Writer(p) <=> Locked(p)) /\ run[p].dev \in sit.physical \cup sit.mac /\ run \in [Procs -> Run]
  BY <1>1, IfFacts
<1>3. Writer(p) /\ Locked(p)
  BY <1>1, <1>2 DEF Phase
<1>4. CASE ~SameDevice(p) /\ Report(p, "error")
  BY <1>1, <1>2, <1>3, <1>4, EvidenceFacts, WolError
<1>5. CASE SameDevice(p) /\ Ok(p, sit.asked[p].policy)
  <2>1. sit.asked[p].policy \in Policies
    BY SitFacts DEF IInv
  <2>2. Becomes(p, "report", run[p].list, run[p].at, run[p].dev, sit.asked[p].policy, "ok")
    BY <1>2, <1>5, <2>1, OkBecomes
  <2>3. run'[p].pc = "report" /\ run'[p].dev = run[p].dev /\ run'[p].result = "ok"
    BY <2>2 DEF Becomes
  <2>4. nic[IfName(p)] = run[p].dev
    BY <1>1, <1>5, EvidenceFacts
  <2>5. past[p].rebound \/ wol = [past[p].wol EXCEPT ![run[p].dev] = Wanted(p)]
    BY <1>1, <1>2, <1>3, <2>4 DEF IfGood
  <2>6. IfGood(p)'
    BY <1>1, <2>3, <2>5, IfSame DEF IfGood, Reports, IfSteps
  <2>7. WolGood(p)'
    BY <1>1, <1>2, <2>3, IfSame DEF WolGood, Reports
  <2> QED
    BY <1>1, <1>2, <2>2, <2>6, <2>7, IfSoft
<1> QED
  BY <1>4, <1>5 DEF IfAfter

-----------------------------------------------------------------------------
(* The machine's interfaces taken together. *)

LEMMA AutoOthers ==
    ASSUME NEW p \in Procs, sit.asked[p].cmd = "auto", sit' = sit,
           Phase(p)', Choice(p)', AutoGood(p)', WolGood(p)'
    PROVE  Good(p)'
<1>1. IfGood(p)' /\ RtcGood(p)'
  BY DEF IfGood, RtcGood
<1> QED
  BY <1>1 DEF Good

LEMMA AutoFacts ==
    ASSUME IInv, NEW p \in Procs, run[p].pc \in AutoSteps \cup {"select"}
    PROVE  /\ sit.asked[p].cmd = "auto" /\ Busy(run[p].pc) /\ (Writer(p) <=> Locked(p))
           /\ Phase(p) /\ Choice(p) /\ AutoGood(p) /\ WolGood(p)
           /\ run \in [Procs -> Run] /\ past \in [Procs -> Past]
           /\ run[p].list \in Seq(Names) /\ run[p].at \in Nat /\ run[p].dev = 0
           /\ run[p].pc \in Loops => /\ run[p].at \in DOMAIN run[p].list /\ Name(p) \in Names
                                     /\ DOMAIN run[p].list = 1..Len(run[p].list) /\ Len(run[p].list) \in Nat
<1>1. /\ Phase(p) /\ Choice(p) /\ AutoGood(p) /\ WolGood(p) /\ sit.asked[p].cmd = "auto"
  BY DEF IInv, Good, Phase
<1>2. run[p].dev = 0 /\ (run[p].pc \in Loops => run[p].at \in DOMAIN run[p].list)
  BY <1>1 DEF Phase
<1>3. run \in [Procs -> Run] /\ past \in [Procs -> Past]
  BY DEF IInv, Sane
<1>4. run[p].list \in Seq(Names) /\ run[p].at \in Nat
  BY <1>3, RunFields
<1>5. Busy(run[p].pc) /\ (Writer(p) <=> Locked(p))
  BY DEF IInv, Mutex, Busy, AutoSteps
<1> QED
  BY <1>1, <1>2, <1>3, <1>4, <1>5 DEF Name

LEMMA AutoSame ==
    ASSUME NEW p \in Procs, UNCHANGED <<sit, now, hardware, renames, lock>>
    PROVE  /\ (Locked(p)' <=> Locked(p)) /\ Wanted(p)' = Wanted(p)
           /\ sit' = sit /\ nic' = nic /\ wol' = wol
           /\ \A n : Supports(n)' <=> Supports(n)
           /\ \A g, e : Selection(g, e)' = Selection(g, e)
  BY DEF Locked, Kind, Wanted, hardware, Supports, Selection, Renamed, Physical

LEMMA QueryKeeps ==
    ASSUME IInv, NEW p \in Procs, Query(p)
    PROVE  IInv'
<1>1. /\ run[p].pc = "query" /\ run[p].pc \in AutoSteps /\ run[p].pc \in Loops
      /\ UNCHANGED <<sit, now, hardware, renames, lock>>
  BY DEF Query, AutoSteps, Loops
<1>2. /\ sit.asked[p].cmd = "auto" /\ Busy(run[p].pc) /\ (Writer(p) <=> Locked(p))
      /\ Phase(p) /\ Choice(p) /\ AutoGood(p) /\ WolGood(p)
      /\ run \in [Procs -> Run] /\ past \in [Procs -> Past]
      /\ run[p].at \in DOMAIN run[p].list /\ run[p].list \in Seq(Names)
      /\ DOMAIN run[p].list = 1..Len(run[p].list) /\ Len(run[p].list) \in Nat /\ run[p].at \in Nat
  BY <1>1, AutoFacts
<1>3. Writer(p) /\ Locked(p) /\ wol = past[p].wol
  BY <1>1, <1>2 DEF Phase, WolGood
<1>4. CASE Fails(p)
  BY <1>1, <1>2, <1>4, SoftFail
<1>5. CASE Report(p, "error") /\ past' = past
  BY <1>1, <1>2, <1>3, <1>5, WolError
<1>6. CASE Supports(Name(p)) /\ run' = [run EXCEPT ![p] = Forward(p, "write")] /\ past' = past
  <2>1. "write" \in Steps
    BY DEF Steps, Loops
  <2>2. IF run[p].at < Len(run[p].list)
        THEN Becomes(p, run[p].pc, run[p].list, run[p].at + 1, run[p].dev, run[p].seen, run[p].result)
        ELSE Becomes(p, "write", run[p].list, 1, run[p].dev, run[p].seen, run[p].result)
    BY <1>2, <1>6, <2>1, ForwardBecomes
  <2>3. /\ run' \in [Procs -> Run] /\ \A q \in Procs \ {p} : run'[q] = run[q] /\ past'[q] = past[q]
        /\ past' \in [Procs -> Past]
        /\ run'[p].list = run[p].list /\ run'[p].dev = run[p].dev
        /\ \/ run'[p].pc = "query" /\ run'[p].at = run[p].at + 1 /\ run[p].at < Len(run[p].list)
           \/ run'[p].pc = "write" /\ run'[p].at = 1 /\ ~(run[p].at < Len(run[p].list))
    BY <1>1, <1>2, <1>6, <2>2 DEF Becomes
  <2>4. run'[p].at \in DOMAIN run[p].list
    BY <1>2, <2>3
  <2>5. Phase(p)'
    BY <1>1, <1>2, <1>6, <2>3, <2>4 DEF Phase, RtcSteps, IfSteps, AutoSteps, Loops, Writer
  <2>6. Choice(p)'
    <3>1. past' = past /\ sit' = sit /\ nic' = nic /\ \A g, e : Selection(g, e)' = Selection(g, e)
      BY <1>1, <1>6, AutoSame
    <3> QED
      BY <1>1, <1>2, <2>3, <3>1 DEF Choice
  <2>7. AutoGood(p)'
    <3>1. ~past[p].renamed => \A i \in 1..run[p].at : Supports(run[p].list[i])
      BY <1>1, <1>2, <1>3, <1>6 DEF AutoGood, Name
    <3> QED
      BY <1>1, <1>2, <1>6, <2>3, <3>1, AutoSame DEF AutoGood, Reports
  <2>8. WolGood(p)'
    BY <1>1, <1>2, <1>3, <1>6, <2>3, AutoSame DEF WolGood, Reports
  <2>9. Good(p)'
    BY <1>1, <1>2, <2>5, <2>6, <2>7, <2>8, AutoOthers
  <2>10. Busy(run'[p].pc)
    BY <2>3 DEF Busy
  <2> QED
    BY <1>1, <1>2, <2>3, <2>9, <2>10, SoftStep
<1> QED
  BY <1>4, <1>5, <1>6 DEF Query

LEMMA WriteNicKeeps ==
    ASSUME IInv, NEW p \in Procs, WriteNic(p)
    PROVE  IInv'
<1>1. /\ run[p].pc = "write" /\ run[p].pc \in AutoSteps /\ run[p].pc \in Loops
      /\ sit' = sit /\ now' = now /\ alarm' = alarm /\ nic' = nic /\ renames' = renames /\ lock' = lock
  BY DEF WriteNic, AutoSteps, Loops
<1>2. /\ sit.asked[p].cmd = "auto" /\ Busy(run[p].pc) /\ (Writer(p) <=> Locked(p))
      /\ Phase(p) /\ Choice(p) /\ AutoGood(p) /\ WolGood(p) /\ Name(p) \in Names
      /\ run \in [Procs -> Run] /\ past \in [Procs -> Past]
      /\ run[p].at \in DOMAIN run[p].list /\ run[p].list \in Seq(Names)
      /\ DOMAIN run[p].list = 1..Len(run[p].list) /\ Len(run[p].list) \in Nat /\ run[p].at \in Nat
  BY <1>1, AutoFacts
<1>3. Writer(p) /\ Locked(p)
  BY <1>1, <1>2 DEF Phase
<1>4. /\ ~past[p].renamed => \A i \in DOMAIN run[p].list : Supports(run[p].list[i])
      /\ ~past[p].renamed /\ ~past[p].faulted =>
            \A i \in 1..(run[p].at - 1) : wol[nic[run[p].list[i]]] = Wanted(p)
      /\ \A d \in Devs : wol[d] \in {past[p].wol[d], Wanted(p)}
  BY <1>1, <1>2, <1>3 DEF AutoGood, WolGood
<1> DEFINE name == Name(p)
           t == Forward(p, "reselect")
<1>5. Sane /\ wol \in [Devs -> Flags] /\ Swol(p, name, t)
  BY DEF IInv, Sane, WriteNic
<1>6. CASE ~Supports(name) /\ Report(p, "error") /\ wol' = wol /\ past' = past
  <2>1. past[p].renamed
    BY <1>2, <1>4, <1>6 DEF Name
  <2> QED
    BY <1>1, <1>2, <1>6, <2>1, WolError DEF hardware
<1>7. CASE Errs(p, name)
  BY <1>1, <1>2, <1>3, <1>7, ErrsKeeps
<1>8. CASE Writes(p, name, t)
  <2>1. "reselect" \in Steps /\ Supports(name) /\ run' = [run EXCEPT ![p] = Forward(p, "reselect")]
    BY <1>8 DEF Steps, Writes
  <2>2. IF run[p].at < Len(run[p].list)
        THEN Becomes(p, run[p].pc, run[p].list, run[p].at + 1, run[p].dev, run[p].seen, run[p].result)
        ELSE Becomes(p, "reselect", run[p].list, 1, run[p].dev, run[p].seen, run[p].result)
    BY <1>2, <2>1, ForwardBecomes
  <2>3. /\ run' \in [Procs -> Run] /\ \A q \in Procs \ {p} : run'[q] = run[q]
        /\ run'[p].list = run[p].list /\ run'[p].dev = run[p].dev
        /\ \/ run'[p].pc = "write" /\ run'[p].at = run[p].at + 1 /\ run[p].at < Len(run[p].list)
           \/ run'[p].pc = "reselect" /\ run'[p].at = 1 /\ ~(run[p].at < Len(run[p].list))
    BY <1>1, <1>2, <2>2 DEF Becomes
  <2>4. run'[p].at \in DOMAIN run[p].list
    BY <1>2, <2>3
  <2>5. /\ nic[name] \in Devs /\ Wanted(p) \in Flags /\ Changed(p, name) \in [Devs -> Flags]
        /\ Changed(p, name)[nic[name]] = Wanted(p)
        /\ \A d \in Devs \ {nic[name]} : Changed(p, name)[d] = wol[d]
    BY <1>2, <1>5, <2>1, ChangedFacts
  <2>6. PICK f : SeenBy(p, f) /\ ((wol' = Changed(p, name) /\ f = past[p].faulted) \/ (wol' = wol /\ f = TRUE))
    BY <1>8 DEF Writes
  <2>7. /\ past'[p].wol = past[p].wol /\ past'[p].renamed = past[p].renamed
        /\ past'[p].devs = past[p].devs
        /\ past'[p].rebound = past[p].rebound /\ past'[p].faulted = f
    BY <2>6 DEF SeenBy
  <2>8. /\ (Locked(p)' <=> Locked(p)) /\ Wanted(p)' = Wanted(p)
        /\ \A n : Supports(n)' <=> Supports(n)
        /\ \A g, e : Selection(g, e)' = Selection(g, e)
    BY <1>1 DEF Locked, Kind, Wanted, Supports, Selection, Renamed, Physical
  <2>9. Phase(p)'
    BY <1>1, <1>2, <2>3, <2>4, <2>7 DEF Phase, RtcSteps, IfSteps, AutoSteps, Loops, Writer
  <2>10. Choice(p)'
    BY <1>1, <1>2, <2>3, <2>7, <2>8 DEF Choice, AutoSteps
  <2>11. ASSUME ~past[p].renamed, f # TRUE
         PROVE  \A i \in 1..run[p].at : wol'[nic[run[p].list[i]]] = Wanted(p)
    <3>1. wol' = Changed(p, name) /\ ~past[p].faulted
      BY <2>6, <2>11
    <3>2. ASSUME NEW i \in 1..run[p].at
          PROVE  wol'[nic[run[p].list[i]]] = Wanted(p)
      <4>1. i \in DOMAIN run[p].list /\ run[p].list[i] \in Names
        BY <1>2
      <4>2. nic[run[p].list[i]] \in Devs
        BY <1>4, <1>5, <2>11, <4>1, ChangedFacts
      <4>3. i = run[p].at => run[p].list[i] = name
        BY DEF Name
      <4>4. i # run[p].at => wol[nic[run[p].list[i]]] = Wanted(p)
        BY <1>2, <1>4, <2>11, <3>1
      <4> QED
        BY <2>5, <3>1, <4>2, <4>3, <4>4
    <3> QED
      BY <3>2
  <2>12. AutoGood(p)'
    <3>1. ~past'[p].renamed /\ ~past'[p].faulted =>
             \A i \in 1..run[p].at : wol'[nic[run[p].list[i]]] = Wanted(p)
      BY <2>7, <2>11
    <3> HIDE DEF name, t
    <3> QED
      BY <1>1, <1>2, <1>4, <2>3, <2>7, <2>8, <3>1 DEF AutoGood, Reports
  <2>13. WolGood(p)'
    <3>1. \A d \in Devs : wol'[d] \in {past[p].wol[d], Wanted(p)}
      BY <1>4, <2>5, <2>6
    <3> QED
      BY <2>3, <2>7, <2>8, <3>1 DEF WolGood, Reports
  <2>14. Good(p)'
    BY <1>1, <1>2, <2>9, <2>10, <2>12, <2>13, AutoOthers
  <2>15. wol' \in [Devs -> Flags] /\ Busy(run'[p].pc)
    BY <1>5, <2>3, <2>5, <2>6 DEF Busy
  <2> QED
    BY <1>1, <1>2, <1>3, <2>3, <2>6, <2>14, <2>15, WriteKeeps
<1> QED
  BY <1>2, <1>5, <1>6, <1>7, <1>8, SwolCases

\* Interfaces are selected: the process and its history afterwards.
Picks(p, list, c) ==
    /\ run' \in [Procs -> Run] /\ past' \in [Procs -> Past]
    /\ \A q \in Procs \ {p} : run'[q] = run[q] /\ past'[q] = past[q]
    /\ run'[p].pc = c /\ run'[p].list = list /\ run'[p].at = 1 /\ run'[p].dev = run[p].dev
    /\ run'[p].seen = None
    /\ past'[p].devs = [i \in DOMAIN list |-> nic[list[i]]]
    /\ past'[p].held = Held(past'[p].devs, wol)
    /\ past'[p].wol = past[p].wol /\ past'[p].faulted = past[p].faulted
    /\ past'[p].renamed = past[p].renamed /\ past'[p].rebound = FALSE

LEMMA ChosenFacts ==
    ASSUME Sane, NEW p \in Procs, NEW list \in Seq(Names), list # <<>>, NEW c \in Steps, Chosen(p, list, c),
           \A i \in DOMAIN list : Physical(list[i])
    PROVE  Picks(p, list, c)
<1> DEFINE devs == [i \in DOMAIN list |-> nic[list[i]]]
           held == Held(devs, wol)
<1>1. run \in [Procs -> Run] /\ past \in [Procs -> Past] /\ sit.physical \subseteq Devs
  BY SitFacts DEF Sane
<1>2. /\ run' = [run EXCEPT ![p].list = list, ![p].at = 1, ![p].pc = c, ![p].seen = None]
      /\ past' = [past EXCEPT ![p].devs = devs, ![p].held = held, ![p].rebound = FALSE]
  BY Zenon DEF Chosen
<1>3. devs \in Seq(Devs)
  <2>1. \A i \in DOMAIN list : nic[list[i]] \in Devs
    BY <1>1 DEF Physical
  <2>2. DOMAIN list = 1..Len(list) /\ Len(list) \in Nat
    OBVIOUS
  <2> QED
    BY <2>1, <2>2
<1>4. held \in SUBSET Policies
  BY DEF Held
<1> HIDE DEF devs, held
<1>5. Becomes(p, c, list, 1, run[p].dev, None, run[p].result)
  BY <1>1, <1>2, ChosenBecomes
<1>6. Records(p, past[p].alarm, past[p].wol, devs, past[p].faulted, past[p].renamed, FALSE, held)
  BY <1>1, <1>2, <1>3, <1>4, ChosenRecords
<1>7. past'[p].devs = devs /\ past'[p].held = held
  BY <1>6 DEF Records
<1>8. past'[p].devs = [i \in DOMAIN list |-> nic[list[i]]] /\ past'[p].held = Held(past'[p].devs, wol)
  BY <1>7 DEF devs, held
<1> QED
  BY <1>5, <1>6, <1>8 DEF Becomes, Records, Picks

\* What is selected at first.
LEMMA FirstSelection ==
    ASSUME Sane
    PROVE  LET l == Selection(Stock, sit.auto) IN
           /\ l \in Seq(Names) /\ Len(l) <= 2
           /\ \A i \in DOMAIN l : Physical(l[i])
           /\ \A i, j \in DOMAIN l : l[i] = l[j] => i = j
<1>1. /\ sit.auto \in 0..2 /\ Stock \in Seq(Names) /\ Len(Stock) <= 2
      /\ \A i, j \in DOMAIN Stock : Stock[i] = Stock[j] => i = j
  BY SitFacts, StockFacts
<1> QED
  BY <1>1, SelectionFacts

LEMMA SelectKeeps ==
    ASSUME IInv, NEW p \in Procs, Select(p)
    PROVE  IInv'
<1> DEFINE list == Selection(Stock, sit.auto)
           c == IF Writer(p) THEN "query" ELSE "read"
<1>1. /\ run[p].pc = "select" /\ UNCHANGED <<sit, now, hardware, renames, lock>> /\ Chosen(p, list, c)
  BY DEF Select
<1>2. /\ sit.asked[p].cmd = "auto" /\ Busy(run[p].pc) /\ (Writer(p) <=> Locked(p))
      /\ Phase(p) /\ WolGood(p)
  BY <1>1, AutoFacts
<1>3. Sane /\ sit.auto \in 0..2 /\ c \in Steps /\ c \in {"query", "read"}
  BY SitFacts DEF IInv, Steps, Loops
<1>4. /\ list \in Seq(Names) /\ Len(list) <= 2 /\ \A i \in DOMAIN list : Physical(list[i])
      /\ \A i, j \in DOMAIN list : list[i] = list[j] => i = j
  BY <1>3, FirstSelection
<1>5. ~past[p].renamed /\ run[p].dev = 0
  BY <1>1, <1>2 DEF Phase
<1>6. Locked(p) => wol = past[p].wol
  BY <1>1, <1>2 DEF WolGood
<1>7. CASE list = <<>>
  <2>1. Report(p, "error") /\ past' = past
    BY <1>1, <1>7, Zenon DEF Chosen
  <2> QED
    BY <1>1, <1>2, <1>6, <2>1, WolError
<1>8. CASE list # <<>>
  <2>1. c = "query" <=> Writer(p)
    OBVIOUS
  <2>2. list = Selection(Stock, sit.auto)
    OBVIOUS
  <2> HIDE DEF list, c
  <2>3. /\ run' \in [Procs -> Run] /\ past' \in [Procs -> Past]
        /\ \A q \in Procs \ {p} : run'[q] = run[q] /\ past'[q] = past[q]
        /\ run'[p].pc = c /\ run'[p].list = list /\ run'[p].at = 1 /\ run'[p].dev = run[p].dev
        /\ run'[p].seen = None
        /\ past'[p].devs = [i \in DOMAIN list |-> nic[list[i]]]
        /\ past'[p].wol = past[p].wol /\ past'[p].renamed = past[p].renamed
    <3>1. Picks(p, list, c)
      BY <1>1, <1>3, <1>4, <1>8, ChosenFacts
    <3> QED
      BY <3>1 DEF Picks
  <2>4. 1 \in DOMAIN list
    BY <1>4, <1>8
  <2>5. Phase(p)'
    BY <1>1, <1>2, <1>3, <1>4, <1>5, <1>8, <2>1, <2>3, <2>4 DEF Phase, RtcSteps, IfSteps, AutoSteps, Loops, Writer
  <2>6. Choice(p)'
    <3>1. list' = list /\ sit' = sit /\ nic' = nic /\ Selection(Stock, sit.auto)' = list
      BY <1>1, <2>2, AutoSame DEF list
    <3> QED
      BY <2>3, <3>1 DEF Choice
  <2>7. c = "query" \/ ~Locked(p)'
    BY <1>1, <1>2, <1>3, <2>1, AutoSame
  <2>8. AutoGood(p)'
    BY <2>3, <2>7 DEF AutoGood, Reports
  <2>9. WolGood(p)'
    BY <1>1, <1>2, <1>6, <2>3, <2>7, AutoSame DEF WolGood, Reports
  <2>10. Good(p)'
    BY <1>1, <1>2, <2>5, <2>6, <2>8, <2>9, AutoOthers
  <2>11. Busy(run'[p].pc)
    BY <1>3, <2>3 DEF Busy
  <2> QED
    BY <1>1, <1>2, <2>3, <2>10, <2>11, SoftStep
<1> QED
  BY <1>7, <1>8

LEMMA ReselectKeeps ==
    ASSUME IInv, NEW p \in Procs, Reselect(p)
    PROVE  IInv'
<1> DEFINE list == Selection(run[p].list, Len(run[p].list))
<1>1. /\ run[p].pc = "reselect" /\ run[p].pc \in AutoSteps
      /\ UNCHANGED <<sit, now, hardware, renames, lock>> /\ Chosen(p, list, "read")
  BY DEF Reselect, AutoSteps
<1>2. /\ sit.asked[p].cmd = "auto" /\ Busy(run[p].pc) /\ (Writer(p) <=> Locked(p))
      /\ Phase(p) /\ Choice(p) /\ AutoGood(p) /\ WolGood(p) /\ run[p].list \in Seq(Names)
      /\ run[p].dev = 0
  BY <1>1, AutoFacts
<1>3. Sane /\ sit.auto \in 0..2 /\ "read" \in Steps
  BY SitFacts DEF IInv, Steps, Loops
<1>4. /\ Writer(p) /\ Locked(p) /\ run[p].list # <<>> /\ Len(run[p].list) \in 0..2
      /\ \A i, j \in DOMAIN run[p].list : run[p].list[i] = run[p].list[j] => i = j
  <2>1. Writer(p) /\ run[p].list # <<>> /\ Len(run[p].list) <= 2
    BY <1>1, <1>2 DEF Phase
  <2>2. \A i, j \in DOMAIN run[p].list : run[p].list[i] = run[p].list[j] => i = j
    BY <1>2 DEF Phase
  <2>3. Len(run[p].list) \in 0..2
    <3>1. \A l \in Seq(Names) : Len(l) \in Nat
      OBVIOUS
    <3>2. \A n \in Nat : n <= 2 => n \in 0..2
      OBVIOUS
    <3> QED
      BY <1>2, <2>1, <3>1, <3>2, Zenon
  <2>4. Locked(p)
    BY <1>2, <2>1
  <2> QED
    BY <2>1, <2>2, <2>3, <2>4
<1>5. /\ list \in Seq(Names) /\ Len(list) <= 2 /\ \A i \in DOMAIN list : Physical(list[i])
      /\ \A i, j \in DOMAIN list : list[i] = list[j] => i = j
  BY <1>2, <1>3, <1>4, SelectionFacts
<1>6. ASSUME ~past[p].renamed PROVE list = run[p].list
  <2>1. run[p].list = Selection(Stock, sit.auto)
    BY <1>1, <1>2, <1>6 DEF Choice
  <2>2. LET l == Selection(Stock, sit.auto) IN \A i \in DOMAIN l : Physical(l[i])
    BY <1>3, FirstSelection
  <2>3. \A i \in DOMAIN run[p].list : Physical(run[p].list[i])
    BY <2>1, <2>2
  <2> QED
    BY <2>3 DEF Selection
<1>7. CASE list = <<>>
  <2>1. Report(p, "error") /\ past' = past
    BY <1>1, <1>7, Zenon DEF Chosen
  <2>2. past[p].renamed
    BY <1>4, <1>6, <1>7
  <2> QED
    BY <1>1, <1>2, <2>1, <2>2, WolError
<1>8. CASE list # <<>>
  <2> HIDE DEF list
  <2>3. /\ run' \in [Procs -> Run] /\ past' \in [Procs -> Past]
        /\ \A q \in Procs \ {p} : run'[q] = run[q] /\ past'[q] = past[q]
        /\ run'[p].pc = "read" /\ run'[p].list = list /\ run'[p].at = 1 /\ run'[p].dev = run[p].dev
        /\ run'[p].seen = None
        /\ past'[p].devs = [i \in DOMAIN list |-> nic[list[i]]]
        /\ past'[p].wol = past[p].wol /\ past'[p].renamed = past[p].renamed
        /\ past'[p].faulted = past[p].faulted
    <3>1. Picks(p, list, "read")
      BY <1>1, <1>3, <1>5, <1>8, ChosenFacts
    <3> QED
      BY <3>1 DEF Picks
  <2>4. 1 \in DOMAIN list
    BY <1>5, <1>8
  <2>5. Phase(p)'
    BY <1>1, <1>2, <1>5, <1>8, <2>3, <2>4 DEF Phase, RtcSteps, IfSteps, AutoSteps, Loops, Writer
  <2>6. Choice(p)'
    <3>1. nic' = nic /\ Selection(Stock, sit.auto)' = Selection(Stock, sit.auto)
      BY <1>1, AutoSame
    <3>2. ~past[p].renamed => list = Selection(Stock, sit.auto)
      BY <1>1, <1>2, <1>6 DEF Choice
    <3> QED
      BY <2>3, <3>1, <3>2 DEF Choice
  <2>8. AutoGood(p)'
    <3>1. /\ ~past[p].renamed => \A i \in DOMAIN list : Supports(list[i])
          /\ ~past[p].renamed /\ ~past[p].faulted => \A i \in DOMAIN list : wol[nic[list[i]]] = Wanted(p)
      BY <1>1, <1>2, <1>4, <1>6 DEF AutoGood
    <3>2. /\ DOMAIN past'[p].devs = DOMAIN list
          /\ \A i \in DOMAIN list : nic[list[i]] \in {0, past'[p].devs[i]}
      BY <2>3
    <3> QED
      BY <1>1, <2>3, <3>1, <3>2, AutoSame DEF AutoGood, Reports
  <2>9. WolGood(p)'
    BY <1>1, <1>2, <2>3, AutoSame DEF WolGood, Reports
  <2>10. Good(p)'
    BY <1>1, <1>2, <2>5, <2>6, <2>8, <2>9, AutoOthers
  <2>11. Busy(run'[p].pc)
    BY <2>3 DEF Busy
  <2> QED
    BY <1>1, <1>2, <2>3, <2>10, <2>11, SoftStep
<1> QED
  BY <1>7, <1>8

LEMMA ReadNicKeeps ==
    ASSUME IInv, NEW p \in Procs, ReadNic(p)
    PROVE  IInv'
<1> DEFINE v == PolicyOf(wol[nic[Name(p)]])
<1>1. /\ run[p].pc = "read" /\ run[p].pc \in AutoSteps /\ run[p].pc \in Loops
      /\ UNCHANGED <<sit, now, hardware, renames, lock>>
  BY DEF ReadNic, AutoSteps, Loops
<1>2. /\ sit.asked[p].cmd = "auto" /\ Busy(run[p].pc) /\ (Writer(p) <=> Locked(p))
      /\ Phase(p) /\ Choice(p) /\ AutoGood(p) /\ WolGood(p) /\ Name(p) \in Names
      /\ run \in [Procs -> Run] /\ past \in [Procs -> Past]
      /\ run[p].at \in DOMAIN run[p].list /\ run[p].list \in Seq(Names)
      /\ DOMAIN run[p].list = 1..Len(run[p].list) /\ Len(run[p].list) \in Nat /\ run[p].at \in Nat
  BY <1>1, AutoFacts
<1>3. v \in Policies /\ v # None /\ sit.asked[p].policy \in Policies /\ sit.asked[p].policy # None
  BY PolicyFacts, SitFacts DEF IInv
<1>4. CASE Fails(p)
  BY <1>1, <1>2, <1>4, SoftFail
<1>5. ASSUME Locked(p), ~past[p].renamed, ~past[p].faulted
      PROVE  Supports(Name(p)) /\ v = sit.asked[p].policy /\ Agrees(p, v)
  <2>1. Supports(Name(p)) /\ wol[nic[Name(p)]] = Wanted(p) /\ run[p].seen \in {None, sit.asked[p].policy}
    BY <1>1, <1>2, <1>5 DEF AutoGood, Name
  <2>2. v = sit.asked[p].policy
    BY <1>3, <2>1, PolicyFacts DEF Wanted
  <2> QED
    BY <2>1, <2>2 DEF Agrees
<1>6. ASSUME Locked(p), ~past[p].rebound, Supports(Name(p)), Agrees(p, v)
      PROVE  /\ DOMAIN past[p].devs = DOMAIN run[p].list
             /\ \A i \in DOMAIN run[p].list : nic[run[p].list[i]] \in {0, past[p].devs[i]}
             /\ \A i \in 1..run[p].at : PolicyOf(wol[past[p].devs[i]]) = v
  <2>1. /\ DOMAIN past[p].devs = DOMAIN run[p].list
        /\ \A i \in DOMAIN run[p].list : nic[run[p].list[i]] \in {0, past[p].devs[i]}
        /\ \A i \in 1..(run[p].at - 1) : PolicyOf(wol[past[p].devs[i]]) = run[p].seen
    BY <1>1, <1>2, <1>6 DEF AutoGood
  <2>2. nic[Name(p)] # 0
    BY <1>6, SitFacts DEF IInv, Supports
  <2>3. PolicyOf(wol[past[p].devs[run[p].at]]) = v
    BY <1>2, <2>1, <2>2 DEF Name
  <2>4. \A i \in 1..(run[p].at - 1) : PolicyOf(wol[past[p].devs[i]]) = v
    BY <1>6, <2>1, PolicyFacts DEF Agrees
  <2> QED
    BY <1>2, <2>1, <2>3, <2>4
<1> HIDE DEF v
<1>7. CASE Report(p, "error") /\ past' = past /\ (Supports(Name(p)) /\ Agrees(p, v) => Writer(p) /\ v # sit.asked[p].policy)
  BY <1>1, <1>2, <1>5, <1>7, WolError
<1>8. CASE /\ Supports(Name(p)) /\ Agrees(p, v) /\ past' = past /\ run[p].at < Len(run[p].list)
           /\ run' = [run EXCEPT ![p].at = @ + 1, ![p].seen = v]
  <2>1. Becomes(p, run[p].pc, run[p].list, run[p].at + 1, run[p].dev, v, run[p].result)
    BY <1>2, <1>3, <1>8, AdvanceBecomes
  <2>2. /\ Supports(Name(p)) /\ Agrees(p, v) /\ past' = past /\ past' \in [Procs -> Past]
        /\ run[p].at < Len(run[p].list)
    BY <1>2, <1>8
  <2>3. /\ run' \in [Procs -> Run] /\ \A q \in Procs \ {p} : run'[q] = run[q]
        /\ run'[p].pc = "read" /\ run'[p].list = run[p].list /\ run'[p].at = run[p].at + 1
        /\ run'[p].dev = run[p].dev /\ run'[p].seen = v
    BY <1>1, <2>1 DEF Becomes
  <2>4. run'[p].at \in DOMAIN run[p].list /\ run'[p].at - 1 = run[p].at
    BY <1>2, <2>2, <2>3
  <2>5. Phase(p)'
    BY <1>1, <1>2, <2>2, <2>3, <2>4 DEF Phase, RtcSteps, IfSteps, AutoSteps, Loops, Writer
  <2>6. Choice(p)'
    <3>1. nic' = nic /\ Selection(Stock, sit.auto)' = Selection(Stock, sit.auto)
      BY <1>1, AutoSame
    <3> QED
      BY <1>1, <1>2, <2>2, <2>3, <3>1 DEF Choice
  <2>7. AutoGood(p)'
    <3>1. Locked(p) /\ ~past[p].renamed /\ ~past[p].faulted => v = sit.asked[p].policy
      BY <1>5
    <3>2. Locked(p) /\ ~past[p].rebound =>
             /\ DOMAIN past[p].devs = DOMAIN run[p].list
             /\ \A i \in DOMAIN run[p].list : nic[run[p].list[i]] \in {0, past[p].devs[i]}
             /\ \A i \in 1..run[p].at : PolicyOf(wol[past[p].devs[i]]) = v
      BY <1>6, <2>2
    <3>3. Locked(p) =>
             /\ ~past[p].renamed => \A i \in DOMAIN run[p].list : Supports(run[p].list[i])
             /\ ~past[p].renamed /\ ~past[p].faulted => \A i \in DOMAIN run[p].list : wol[nic[run[p].list[i]]] = Wanted(p)
      BY <1>1, <1>2 DEF AutoGood
    <3> QED
      BY <1>1, <2>2, <2>3, <2>4, <3>1, <3>2, <3>3, AutoSame DEF AutoGood, Reports
  <2>8. WolGood(p)'
    BY <1>1, <1>2, <2>2, <2>3, AutoSame DEF WolGood, Reports
  <2>9. Good(p)'
    BY <1>1, <1>2, <2>5, <2>6, <2>7, <2>8, AutoOthers
  <2>10. Busy(run'[p].pc)
    BY <2>3 DEF Busy
  <2> QED
    BY <1>1, <1>2, <2>2, <2>3, <2>9, <2>10, SoftStep
<1>9. CASE /\ Supports(Name(p)) /\ Agrees(p, v) /\ past' = past /\ ~(run[p].at < Len(run[p].list))
           /\ Ok(p, v) /\ (Writer(p) => v = sit.asked[p].policy)
  <2>1. Becomes(p, "report", run[p].list, run[p].at, run[p].dev, v, "ok")
    BY <1>2, <1>3, <1>9, OkBecomes
  <2>2. /\ run' \in [Procs -> Run] /\ \A q \in Procs \ {p} : run'[q] = run[q]
        /\ run'[p].pc = "report" /\ run'[p].list = run[p].list
        /\ run'[p].dev = run[p].dev /\ run'[p].result = "ok"
    BY <2>1 DEF Becomes
  <2>3. Phase(p)'
    BY <1>1, <1>2, <1>9, <2>2 DEF Phase, RtcSteps, IfSteps, AutoSteps, Loops
  <2>4. Choice(p)'
    BY <2>2 DEF Choice, AutoSteps
  <2>5. AutoGood(p)'
    <3>1. Locked(p) /\ ~past[p].rebound =>
             \A i \in DOMAIN past[p].devs : PolicyOf(wol[past[p].devs[i]]) = sit.asked[p].policy
      <4>1. run[p].at = Len(run[p].list)
        BY <1>2, <1>9
      <4> QED
        BY <1>2, <1>6, <1>9, <4>1
    <3> QED
      BY <1>1, <1>9, <2>2, <3>1, AutoSame DEF AutoGood, Reports
  <2>6. WolGood(p)'
    BY <1>1, <1>2, <1>9, <2>2, AutoSame DEF WolGood, Reports
  <2>7. Good(p)'
    BY <1>1, <1>2, <2>3, <2>4, <2>5, <2>6, AutoOthers
  <2>8. Busy(run'[p].pc) /\ past' \in [Procs -> Past] /\ \A q \in Procs \ {p} : past'[q] = past[q]
    BY <1>2, <1>9, <2>2 DEF Busy
  <2> QED
    BY <1>1, <1>2, <2>2, <2>7, <2>8, SoftStep
<1> QED
  BY <1>4, <1>7, <1>8, <1>9, Zenon DEF ReadNic, ReadEnd, Confirmed, v

-----------------------------------------------------------------------------
(* The invariant of the specification, and what follows from it. *)

LEMMA InitHolds == Init => IInv
<1> SUFFICES ASSUME Init PROVE IInv
  OBVIOUS
<1> DEFINE r0 == [pc |-> "start", list |-> <<>>, at |-> 1, dev |-> 0, seen |-> None, result |-> None]
           h0 == [alarm |-> sit.alarm, wol |-> sit.wol, devs |-> <<>>, faulted |-> FALSE,
                  renamed |-> FALSE, rebound |-> FALSE, held |-> {}]
<1>1. /\ sit \in Situations /\ now = 0 /\ alarm = sit.alarm /\ nic = sit.nic /\ wol = sit.wol
      /\ renames = sit.renames /\ lock = [k \in Kinds |-> None]
      /\ run = [p \in Procs |-> r0] /\ past = [p \in Procs |-> h0]
  BY DEF Init
<1>2. sit \in Situation /\ OneName(sit.nic) /\ Far \in Nat
  BY <1>1, WakeAssumption
<1>3. /\ sit.alarm \in {0, Far} /\ sit.nic \in [Names -> Devs \cup {0}] /\ sit.wol \in [Devs -> Flags]
      /\ sit.ticks \in Nat /\ sit.renames \in Nat /\ sit.asked \in [Procs -> Request]
  BY <1>2 DEF Situation
<1>4. r0 \in Run
  BY DEF Run, Steps
<1>5. h0 \in Past
  <2>1. sit.alarm \in Nat /\ <<>> \in Seq(Devs) /\ {} \in SUBSET Policies
    BY <1>2, <1>3
  <2> QED
    BY <1>3, <2>1 DEF Past
<1>6. /\ \A p \in Procs : /\ run[p].pc = "start" /\ run[p].list = <<>> /\ run[p].dev = 0
                          /\ run[p].result = None /\ ~past[p].renamed
  BY <1>1
<1>7. run \in [Procs -> Run] /\ past \in [Procs -> Past]
  <2> HIDE DEF r0, h0
  <2> QED
    BY <1>1, <1>4, <1>5
<1>8. Sane
  <2> HIDE DEF r0, h0
  <2>1. now \in 0..sit.ticks /\ alarm \in Nat /\ renames \in 0..sit.renames
    BY <1>1, <1>2, <1>3
  <2>2. lock \in [Kinds -> Procs \cup {None}]
    BY <1>1
  <2>3. sit \in Situations /\ nic \in [Names -> Devs \cup {0}] /\ OneName(nic) /\ wol \in [Devs -> Flags]
    BY <1>1, <1>2, <1>3
  <2> QED
    BY <1>7, <2>1, <2>2, <2>3 DEF Sane
<1>9. \A p \in Procs : ~Locked(p)
  <2>1. \A p \in Procs : Kind(p) \in Kinds
    BY DEF Kind, Kinds
  <2> QED
    BY <1>1, <2>1, NotAProc DEF Locked
<1>10. Mutex /\ Clock
  BY <1>1, <1>3, <1>6, <1>9 DEF Mutex, Clock
<1>11. ASSUME NEW p \in Procs PROVE Good(p)
  <2>1. /\ run[p].pc = "start" /\ run[p].list = <<>> /\ run[p].dev = 0 /\ ~past[p].renamed /\ ~Locked(p)
    BY <1>6, <1>9
  <2>2. Phase(p)
    BY <2>1 DEF Phase, RtcSteps, IfSteps, AutoSteps, Loops
  <2>3. Choice(p)
    BY <2>1 DEF Choice, AutoSteps
  <2>4. RtcGood(p) /\ AutoGood(p) /\ IfGood(p) /\ WolGood(p)
    BY <2>1 DEF RtcGood, AutoGood, IfGood, WolGood
  <2> QED
    BY <2>2, <2>3, <2>4 DEF Good
<1> QED
  BY <1>8, <1>10, <1>11 DEF IInv

LEMMA StutterKeeps ==
    ASSUME IInv, UNCHANGED vars
    PROVE  IInv'
<1>1. /\ sit' = sit /\ now' = now /\ alarm' = alarm /\ nic' = nic /\ wol' = wol /\ renames' = renames
      /\ lock' = lock /\ run' = run /\ past' = past
  BY DEF vars, hardware
<1>2. \A p \in Procs : Locked(p)' <=> Locked(p)
  BY <1>1 DEF Locked, Kind
<1>3. Sane' /\ Mutex' /\ Clock'
  BY <1>1, <1>2 DEF IInv, Sane, Mutex, Clock, Writer
<1>4. ASSUME NEW p \in Procs PROVE Good(p)'
  BY <1>1, <1>2, Undisturbed DEF IInv, Alike
<1> QED
  BY <1>3, <1>4 DEF IInv

LEMMA NextKeeps == IInv /\ [Next]_vars => IInv'
<1> SUFFICES ASSUME IInv, [Next]_vars PROVE IInv'
  OBVIOUS
<1>1. ASSUME NEW p \in Procs, WolStep(p) PROVE IInv'
  BY <1>1, SelectKeeps, QueryKeeps, WriteNicKeeps, ReselectKeeps, ReadNicKeeps, IfOpenKeeps, IfQueryKeeps,
     IfAgainKeeps, IfWriteKeeps, IfBackKeeps, IfAfterKeeps DEF WolStep
<1>2. ASSUME NEW p \in Procs, Step(p) \/ Kill(p) PROVE IInv'
  BY <1>1, <1>2, StartKeeps, LockKeeps, IdentityKeeps, RtcKeeps, DoneKeeps, KillKeeps DEF Step
<1> QED
  BY <1>2, TickKeeps, RenameKeeps, StutterKeeps DEF Next

LEMMA Invariance == Spec => []IInv
  BY InitHolds, NextKeeps, PTL DEF Spec

\* The lock of a kind is held by exactly the one change of that kind that is past taking
\* it and not yet done, killed ones included; the loops stay within the interfaces selected.
\* (wake_lock, ugreenctl_wake_cli, wol.c)
THEOREM TypeCorrect == Spec => []TypeOK
<1>1. IInv => TypeOK
  <2> SUFFICES ASSUME IInv PROVE TypeOK
    OBVIOUS
  <2>1. sit \in Situation
    BY SitFacts DEF IInv
  <2>2. \A p \in Procs : run[p].pc \in Loops => run[p].at \in DOMAIN run[p].list
    BY DEF IInv, Good, Phase
  <2> QED
    BY <2>1, <2>2 DEF IInv, Sane, Mutex, TypeOK
<1> QED
  BY <1>1, Invariance, PTL

\* A change about to be reported as verified is in force while its lock is held, for any
\* number of processes, interfaces and renames; only a name given away and taken again
\* escapes the readback. (update_alarm, ugreenctl_wol_set_policy_with_renamed_count,
\* ugreenctl_wol_interface)
THEOREM ReportHoldsAlways == Spec => []ReportHolds
<1>1. IInv => ReportHolds
  <2> SUFFICES ASSUME IInv PROVE ReportHolds
    OBVIOUS
  <2>1. ASSUME NEW p \in Procs, Reports(p, "ok"), Writer(p)
        PROVE  LET r == sit.asked[p] IN
               CASE r.cmd = "rtc" /\ r.act = "set" -> alarm = r.epoch \/ r.epoch <= RtcNow
                 [] r.cmd = "rtc" /\ r.act = "clear" -> alarm = 0
                 [] r.cmd = "auto" -> \/ past[p].rebound
                                      \/ \A i \in DOMAIN past[p].devs :
                                            PolicyOf(wol[past[p].devs[i]]) = r.policy
                 [] r.cmd = "iface" ->
                        past[p].rebound \/ wol = [past[p].wol EXCEPT ![run[p].dev] = Wanted(p)]
    <3>1. Locked(p)
      BY <2>1 DEF IInv, Mutex, Reports
    <3>2. sit.asked[p].cmd \in {"rtc", "auto", "iface"} /\ sit.asked[p].act \in {"set", "clear"}
      BY <2>1, SitFacts DEF IInv, Writer
    <3>3. CASE sit.asked[p].cmd = "rtc"
      BY <2>1, <3>1, <3>2, <3>3 DEF IInv, Good, RtcGood
    <3>4. CASE sit.asked[p].cmd = "auto"
      BY <2>1, <3>1, <3>2, <3>4 DEF IInv, Good, AutoGood
    <3>5. CASE sit.asked[p].cmd = "iface"
      BY <2>1, <3>1, <3>2, <3>5 DEF IInv, Good, IfGood
    <3> QED
      BY <3>2, <3>3, <3>4, <3>5
  <2> QED
    BY <2>1 DEF ReportHolds
<1> QED
  BY <1>1, Invariance, PTL

\* A change reported as failed leaves old and asked values at worst, and everything as it
\* was when no access failed and no interface was renamed. (the order of the checks in
\* update_alarm, ugreenctl_wol_set_policy_with_renamed_count and ugreenctl_wol_interface)
THEOREM FailureLeavesAlways == Spec => []FailureLeaves
<1>1. IInv => FailureLeaves
  <2> SUFFICES ASSUME IInv, NEW p \in Procs, Reports(p, "error"), Locked(p)
               PROVE  LET r == sit.asked[p] IN
                      IF r.cmd = "rtc"
                      THEN /\ alarm \in {past[p].alarm, 0} \cup (IF r.act = "set" THEN {r.epoch} ELSE {})
                           /\ ~past[p].faulted /\ (r.act = "set" => r.epoch > RtcNow) =>
                                  alarm = past[p].alarm \/ past[p].alarm <= RtcNow
                      ELSE /\ \A d \in Devs : wol[d] \in {past[p].wol[d], Wanted(p)}
                           /\ ~past[p].faulted /\ ~past[p].renamed => wol = past[p].wol
    BY DEF FailureLeaves
  <2>1. RtcGood(p) /\ WolGood(p)
    BY DEF IInv, Good
  <2> QED
    BY <2>1 DEF RtcGood, WolGood
<1> QED
  BY <1>1, Invariance, PTL

\* An alarm this program armed goes off at the system time asked for, whatever the skew
\* between the RTC and the system. (the clock check of update_alarm)
THEOREM WakesOnTimeAlways == Spec => WakesOnTime
<1>1. IInv /\ [Next]_vars => (now' # now /\ alarm \notin {0, Far} /\ alarm' = 0 => now' = alarm)
  <2> SUFFICES ASSUME IInv, [Next]_vars, now' # now, alarm \notin {0, Far}, alarm' = 0
               PROVE  now' = alarm
    OBVIOUS
  <2>1. Tick
    <3>1. ~UNCHANGED vars
      BY DEF vars
    <3>2. \A p \in Procs : ~Step(p) /\ ~Kill(p)
      BY DEF Step, Kill, Start, Refuse, Lock, Identity, Done, RtcStep, RtcSelect, RtcClock, RtcOld, RtcClear,
             RtcCleared, RtcArm, RtcArmed, WolStep, Select, Query, WriteNic, Reselect, ReadNic, IfOpen, IfQuery,
             IfAgain, IfWrite, IfBack, IfAfter
    <3>3. \A a \in Names, b \in Names \cup {None} : ~Rename(a, b)
      BY DEF Rename
    <3> QED
      BY <3>1, <3>2, <3>3 DEF Next
  <2>2. sit.skew = 0 /\ alarm > now
    BY DEF IInv, Clock
  <2>3. now \in Nat /\ alarm \in Nat
    BY SitFacts DEF IInv, Sane
  <2> QED
    BY <2>1, <2>2, <2>3 DEF Tick, RtcNow
<1> QED
  BY <1>1, Invariance, PTL DEF Spec, WakesOnTime

-----------------------------------------------------------------------------
(* A read of all interfaces while they are changed. *)

Truth == \A p \in Procs : Truthful(p) /\ Told(p) /\ \A w \in Procs : Stands(p, w)

\* A step leaves the other processes and their histories alone.
RunAlone(w) == \A q \in Procs \ {w} : run'[q] = run[q]
PastAlone(w) ==
    /\ \A q \in Procs \ {w} : past'[q] = past[q]
    /\ past[w].faulted => past'[w].faulted

LEMMA RunForms ==
    ASSUME Sane, NEW w \in Procs
    PROVE  /\ \A c : Go(w, c) => RunAlone(w)
           /\ \A res : Report(w, res) => RunAlone(w)
           /\ \A v : Ok(w, v) => RunAlone(w)
           /\ \A r : run' = [run EXCEPT ![w] = r] => RunAlone(w)
           /\ \A d : run' = [run EXCEPT ![w].pc = "ifquery", ![w].dev = d] => RunAlone(w)
           /\ \A res : run' = [run EXCEPT ![w].pc = "done", ![w].result = res] => RunAlone(w)
           /\ \A v : run' = [run EXCEPT ![w].at = @ + 1, ![w].seen = v] => RunAlone(w)
           /\ \A l, c : run' = [run EXCEPT ![w].list = l, ![w].at = 1, ![w].pc = c, ![w].seen = None] => RunAlone(w)
<1>1. run \in [Procs -> Run]
  BY DEF Sane
<1>2. ASSUME NEW r, run' = [run EXCEPT ![w] = r] PROVE RunAlone(w)
  BY <1>1, <1>2 DEF RunAlone
<1>3. ASSUME NEW c, Go(w, c) PROVE RunAlone(w)
  BY <1>2, <1>3 DEF Go
<1>4. ASSUME NEW res, Report(w, res) PROVE RunAlone(w)
  BY <1>2, <1>4 DEF Report
<1>5. ASSUME NEW v, Ok(w, v) PROVE RunAlone(w)
  BY <1>2, <1>5 DEF Ok
<1>6. ASSUME NEW d, run' = [run EXCEPT ![w].pc = "ifquery", ![w].dev = d] PROVE RunAlone(w)
  BY <1>2, <1>6
<1>7. ASSUME NEW res, run' = [run EXCEPT ![w].pc = "done", ![w].result = res] PROVE RunAlone(w)
  BY <1>2, <1>7
<1>8. ASSUME NEW v, run' = [run EXCEPT ![w].at = @ + 1, ![w].seen = v] PROVE RunAlone(w)
  BY <1>2, <1>8
<1>9. ASSUME NEW l, NEW c, run' = [run EXCEPT ![w].list = l, ![w].at = 1, ![w].pc = c, ![w].seen = None]
      PROVE  RunAlone(w)
  BY <1>2, <1>9
<1> QED
  BY <1>2, <1>3, <1>4, <1>5, <1>6, <1>7, <1>8, <1>9, Zenon

LEMMA PastForms ==
    ASSUME Sane, NEW w \in Procs
    PROVE  /\ past' = past => PastAlone(w)
           /\ Faulted(w) => PastAlone(w)
           /\ Fails(w) => PastAlone(w) /\ RunAlone(w)
           /\ past' = [past EXCEPT ![w].alarm = alarm, ![w].wol = wol] => PastAlone(w)
<1>1. past \in [Procs -> Past] /\ alarm \in Nat /\ wol \in [Devs -> Flags]
  BY DEF Sane
<1>2. ASSUME past' = past PROVE PastAlone(w)
  BY <1>2 DEF PastAlone
<1>3. ASSUME Faulted(w) PROVE PastAlone(w)
  BY <1>1, <1>3, FaultedRecords DEF PastAlone, Records
<1>4. ASSUME Fails(w) PROVE PastAlone(w) /\ RunAlone(w)
  BY <1>3, <1>4, RunForms DEF Fails, Faulted
<1>5. ASSUME past' = [past EXCEPT ![w].alarm = alarm, ![w].wol = wol] PROVE PastAlone(w)
  BY <1>1, <1>5, LockRecords DEF PastAlone, Records
<1> QED
  BY <1>2, <1>3, <1>4, <1>5

LEMMA ChosenAlone ==
    ASSUME Sane, NEW w \in Procs, NEW list \in Seq(Names), NEW c \in Steps, Chosen(w, list, c),
           \A i \in DOMAIN list : Physical(list[i])
    PROVE  RunAlone(w) /\ PastAlone(w)
<1>1. CASE list = <<>>
  <2>1. Report(w, "error") /\ past' = past
    BY <1>1, Zenon DEF Chosen
  <2> QED
    BY <2>1, RunForms, PastForms
<1>2. CASE list # <<>>
  <2>1. Picks(w, list, c)
    BY <1>2, ChosenFacts
  <2> QED
    BY <2>1 DEF Picks, RunAlone, PastAlone
<1> QED
  BY <1>1, <1>2

\* Which list the second selection is made from.
LEMMA SecondSelection ==
    ASSUME IInv, NEW w \in Procs, run[w].pc = "reselect"
    PROVE  LET l == Selection(run[w].list, Len(run[w].list)) IN
           l \in Seq(Names) /\ \A i \in DOMAIN l : Physical(l[i])
<1>1. Phase(w) /\ run[w].list \in Seq(Names) /\ Sane
  BY AutoFacts DEF IInv, AutoSteps
<1>2. Len(run[w].list) <= 2 /\ \A i, j \in DOMAIN run[w].list : run[w].list[i] = run[w].list[j] => i = j
  BY <1>1 DEF Phase
<1>3. Len(run[w].list) \in 0..2
  <2>1. \A l \in Seq(Names) : Len(l) \in Nat
    OBVIOUS
  <2>2. \A n \in Nat : n <= 2 => n \in 0..2
    OBVIOUS
  <2> QED
    BY <1>1, <1>2, <2>1, <2>2, Zenon
<1> QED
  BY <1>1, <1>2, <1>3, SelectionFacts

LEMMA RtcFrame ==
    ASSUME IInv, NEW w \in Procs, RtcStep(w)
    PROVE  sit' = sit /\ wol' = wol /\ RunAlone(w) /\ PastAlone(w)
<1>1. Sane
  BY DEF IInv
<1>2. RunAlone(w) /\ PastAlone(w)
  BY <1>1, RunForms, PastForms
     DEF RtcStep, RtcSelect, RtcClock, RtcOld, RtcClear, RtcCleared, RtcArm, RtcArmed, RtcWrite
<1> QED
  BY <1>2 DEF RtcStep, RtcSelect, RtcClock, RtcOld, RtcClear, RtcCleared, RtcArm, RtcArmed, hardware

LEMMA CallFrame ==
    ASSUME IInv, NEW w \in Procs, Start(w) \/ Lock(w) \/ Identity(w) \/ Done(w) \/ Kill(w)
    PROVE  sit' = sit /\ wol' = wol /\ RunAlone(w) /\ PastAlone(w)
<1>1. Sane
  BY DEF IInv
<1>2. Refuse(w) => RunAlone(w) /\ PastAlone(w)
  BY <1>1, RunForms, PastForms DEF Refuse
<1>3. Start(w) => RunAlone(w) /\ PastAlone(w)
  BY <1>1, <1>2, RunForms, PastForms DEF Start
<1>4. Lock(w) => RunAlone(w) /\ PastAlone(w)
  BY <1>1, <1>2, RunForms, PastForms DEF Lock
<1>5. Identity(w) \/ Done(w) \/ Kill(w) => RunAlone(w) /\ PastAlone(w)
  BY <1>1, RunForms, PastForms DEF Identity, Done, Kill
<1> QED
  BY <1>3, <1>4, <1>5 DEF Start, Refuse, Lock, Identity, Done, Kill, hardware

LEMMA WolFrame ==
    ASSUME IInv, NEW w \in Procs, WolStep(w), ~WriteNic(w), ~IfWrite(w)
    PROVE  sit' = sit /\ wol' = wol /\ RunAlone(w) /\ PastAlone(w)
<1>1. Sane
  BY DEF IInv
<1>2. CASE Select(w)
  <2>1. \A n \in {"query", "read"} : n \in Steps
    BY DEF Steps, Loops
  <2>2. Chosen(w, Selection(Stock, sit.auto), IF Writer(w) THEN "query" ELSE "read")
    BY <1>2 DEF Select
  <2> QED
    BY <1>1, <1>2, <2>1, <2>2, FirstSelection, ChosenAlone DEF Select, hardware
<1>3. CASE Reselect(w)
  <2>1. "read" \in Steps /\ run[w].pc = "reselect" /\ Chosen(w, Selection(run[w].list, Len(run[w].list)), "read")
    BY <1>3 DEF Reselect, Steps, Loops
  <2> QED
    BY <1>1, <1>3, <2>1, SecondSelection, ChosenAlone DEF Reselect, hardware
<1>4. CASE Query(w)
  BY <1>1, <1>4, RunForms, PastForms DEF Query, hardware
<1>5. CASE ReadNic(w)
  BY <1>1, <1>5, RunForms, PastForms DEF ReadNic, ReadEnd, hardware
<1>6. CASE IfOpen(w) \/ IfQuery(w) \/ IfAgain(w) \/ IfBack(w) \/ IfAfter(w)
  BY <1>1, <1>6, RunForms, PastForms DEF IfOpen, IfQuery, IfAgain, IfBack, IfAfter, hardware
<1> QED
  BY <1>2, <1>3, <1>4, <1>5, <1>6 DEF WolStep

\* Nothing is claimed once an access failed or a single interface is changed.
LEMMA BlamedTruth == ASSUME Blamed' PROVE Truth'
  BY DEF Truth, Truthful, Told, Stands

\* A process other than a reader that goes on leaves what the readers know.
LEMMA TruthKeeps ==
    ASSUME IInv, IInv', Truth, NEW w \in Procs, sit' = sit, wol' = wol, RunAlone(w), PastAlone(w),
           run'[w].pc \in {"query", "write"} /\ past'[w].renamed =>
              run[w].pc \in {"query", "write"} /\ past[w].renamed,
           ~Blamed' => Truthful(w)' /\ Told(w)' /\ \A q \in Procs : Stands(w, q)'
    PROVE  Truth'
<1>1. CASE Blamed'
  BY <1>1, BlamedTruth
<1>2. CASE ~Blamed'
  <2>1. ~Blamed
    <3>1. \A q \in Procs : (past[q].faulted => past'[q].faulted) /\ (Writer(q)' <=> Writer(q))
      BY DEF PastAlone, Writer
    <3> QED
      BY <1>2, <3>1 DEF Blamed
  <2>2. ASSUME NEW q \in Procs PROVE Locked(q)' /\ (q = w => Busy(run[q].pc)) => Locked(q)
    BY DEF IInv, Mutex, RunAlone, Writer, Busy
  <2>3. ASSUME NEW p \in Procs \ {w} PROVE Truthful(p)' /\ Told(p)' /\ \A q \in Procs : Stands(p, q)'
    <3>1. run'[p] = run[p] /\ past'[p] = past[p] /\ Truthful(p) /\ Told(p) /\ \A q \in Procs : Stands(p, q)
      BY DEF RunAlone, PastAlone, Truth
    <3>2. Truthful(p)' /\ Told(p)'
      BY <1>2, <2>1, <3>1 DEF Truthful, Told, Reading, Reports, Writer
    <3>3. ASSUME NEW q \in Procs PROVE Stands(p, q)'
      <4>1. CASE q # w
        <5>1. run'[q] = run[q] /\ past'[q] = past[q] /\ (Locked(q)' => Locked(q))
          BY <2>2, <4>1 DEF RunAlone, PastAlone
        <5> QED
          BY <1>2, <2>1, <3>1, <5>1 DEF Stands, Reading, Writer
      <4>2. CASE q = w
        <5>1. ASSUME Locked(q)', run'[q].pc \in {"query", "write"}, past'[q].renamed
              PROVE  Locked(q) /\ run[q].pc \in {"query", "write"} /\ past[q].renamed
          BY <2>2, <4>2, <5>1 DEF Busy
        <5> QED
          BY <1>2, <2>1, <3>1, <5>1 DEF Stands, Reading, Writer
      <4> QED
        BY <4>1, <4>2
    <3> QED
      BY <3>2, <3>3
  <2> QED
    BY <1>2, <2>3 DEF Truth
<1> QED
  BY <1>1, <1>2

\* Whoever is not a reader of all interfaces that finds a policy, claims nothing.
LEMMA QuietTruth ==
    ASSUME IInv, IInv', Truth, NEW w \in Procs, sit' = sit, wol' = wol, RunAlone(w), PastAlone(w),
           run'[w].pc \in {"query", "write"} /\ past'[w].renamed =>
              run[w].pc \in {"query", "write"} /\ past[w].renamed,
           Writer(w) \/ sit.asked[w].cmd # "auto" \/
              (run'[w].pc # "read" /\ ~(run'[w].pc = "report" /\ run'[w].result = "ok"))
    PROVE  Truth'
<1>1. run'[w].pc = "read" => sit.asked[w].cmd = "auto"
  BY DEF IInv, Good, Phase, AutoSteps
<1>2. ~Reading(w)'
  BY <1>1 DEF Reading, Writer
<1>3. Truthful(w)' /\ \A q \in Procs : Stands(w, q)'
  BY <1>2 DEF Truthful, Stands
<1>4. Told(w)'
  BY DEF Told, Reports, Writer
<1> QED
  BY <1>3, <1>4, TruthKeeps

LEMMA OtherTruth ==
    ASSUME IInv, IInv', Truth, NEW w \in Procs, Step(w) \/ Kill(w), sit.asked[w].cmd # "auto"
    PROVE  Truth'
<1>1. CASE IfWrite(w)
  <2>1. run[w].pc = "ifwrite" /\ sit' = sit
    BY <1>1 DEF IfWrite
  <2>2. Writer(w) /\ sit.asked[w].cmd = "iface"
    BY <2>1 DEF IInv, Good, Phase, IfSteps
  <2>3. Blamed'
    BY <2>1, <2>2 DEF Blamed, Writer
  <2> QED
    BY <2>3, BlamedTruth
<1>2. CASE ~IfWrite(w)
  <2>1. ~WriteNic(w)
    BY DEF WriteNic, IInv, Good, Phase, AutoSteps
  <2>2. sit' = sit /\ wol' = wol /\ RunAlone(w) /\ PastAlone(w)
    BY <1>2, <2>1, RtcFrame, CallFrame, WolFrame DEF Step
  <2>3. run'[w].pc \notin {"query", "write"}
    <3>1. Phase(w)'
      BY DEF IInv, Good
    <3> QED
      BY <2>2, <3>1 DEF Phase, AutoSteps
  <2> QED
    BY <2>2, <2>3, QuietTruth
<1> QED
  BY <1>1, <1>2

LEMMA CallTruth ==
    ASSUME IInv, IInv', Truth, NEW w \in Procs, Start(w) \/ Lock(w) \/ Identity(w) \/ Done(w) \/ Kill(w)
    PROVE  Truth'
<1>1. run \in [Procs -> Run] /\ past \in [Procs -> Past] /\ Sane
  BY DEF IInv, Sane
<1>2. sit' = sit /\ wol' = wol /\ RunAlone(w) /\ PastAlone(w)
  BY CallFrame
<1> DEFINE Away == run'[w].pc \notin {"read", "query", "write"} /\ ~(run'[w].pc = "report" /\ run'[w].result = "ok")
<1>3. ASSUME NEW res \in Results, run' = [run EXCEPT ![w].pc = "done", ![w].result = res] PROVE Away
  BY <1>1, <1>3, EndBecomes DEF Becomes
<1>4. ASSUME NEW c \in Steps, c \notin {"read", "query", "write", "report"}, Go(w, c) PROVE Away
  BY <1>1, <1>4, GoBecomes DEF Becomes
<1>5. ASSUME Fails(w) PROVE Away
  BY <1>1, <1>5, FailsIs DEF Becomes
<1> HIDE DEF Away
<1>6. "error" \in Results /\ "dry" \in Results /\ "killed" \in Results
      /\ {"lock", "identity", "done"} \subseteq Steps
  BY DEF Results, Steps
<1>7. Dispatch(w) \in Steps /\ Dispatch(w) \in {"rtc", "select", "iface"}
  BY DispatchFacts
<1>8. ASSUME Start(w) PROVE Away
  BY <1>3, <1>4, <1>6, <1>7, <1>8 DEF Start, Refuse
<1>9. ASSUME Lock(w) PROVE Away
  BY <1>3, <1>4, <1>6, <1>9 DEF Lock, Refuse
<1>10. ASSUME Identity(w) PROVE Away
  BY <1>4, <1>5, <1>7, <1>10 DEF Identity
<1>11. ASSUME Done(w) \/ Kill(w) PROVE Away
  BY <1>3, <1>4, <1>6, <1>11 DEF Done, Kill
<1>12. Away
  BY <1>8, <1>9, <1>10, <1>11
<1> QED
  BY <1>2, <1>12, QuietTruth DEF Away

LEMMA QueryTruth ==
    ASSUME IInv, IInv', Truth, NEW w \in Procs, Query(w) \/ Reselect(w)
    PROVE  Truth'
<1>1. run[w].pc \in {"query", "reselect"} /\ WolStep(w) /\ ~WriteNic(w) /\ ~IfWrite(w)
  BY DEF Query, Reselect, WolStep, WriteNic, IfWrite
<1>2. sit' = sit /\ wol' = wol /\ RunAlone(w) /\ PastAlone(w)
  BY <1>1, WolFrame
<1>3. Writer(w) /\ Sane /\ run \in [Procs -> Run] /\ past \in [Procs -> Past]
  BY <1>1 DEF IInv, Good, Phase, Sane
<1>4. ASSUME Query(w), run'[w].pc \in {"query", "write"}, past'[w].renamed
      PROVE  run[w].pc \in {"query", "write"} /\ past[w].renamed
  <2>1. ~Fails(w)
    BY <1>3, <1>4, FailsIs DEF Becomes
  <2> QED
    BY <1>4, <2>1 DEF Query
<1>5. ASSUME Reselect(w) PROVE run'[w].pc \notin {"query", "write"}
  <2> DEFINE list == Selection(run[w].list, Len(run[w].list))
  <2>1. /\ "read" \in Steps /\ "error" \in Results /\ run[w].pc = "reselect" /\ Chosen(w, list, "read")
    BY <1>5 DEF Reselect, Steps, Loops, Results
  <2>2. list \in Seq(Names) /\ \A i \in DOMAIN list : Physical(list[i])
    BY <2>1, SecondSelection
  <2> HIDE DEF list
  <2>3. CASE list = <<>>
    <3>1. Report(w, "error")
      BY <2>1, <2>3, Zenon DEF Chosen
    <3> QED
      BY <1>3, <2>1, <3>1, ReportBecomes DEF Becomes
  <2>4. CASE list # <<>>
    BY <1>3, <2>1, <2>2, <2>4, ChosenFacts, ZenonT(60) DEF Picks
  <2> QED
    BY <2>3, <2>4
<1> QED
  BY <1>2, <1>3, <1>4, <1>5, QuietTruth

\* All devices have the policy, or there is one that has not.
LEMMA HeldFacts ==
    ASSUME NEW devs \in Seq(Devs), NEW flags, NEW v \in Policies
    PROVE  v \in Held(devs, flags) \/ \E m \in 1..Len(devs) : PolicyOf(flags[devs[m]]) # v
  BY DEF Held

LEMMA SelectTruth ==
    ASSUME IInv, IInv', Truth, NEW w \in Procs, Select(w)
    PROVE  Truth'
<1> DEFINE list == Selection(Stock, sit.auto)
           c == IF Writer(w) THEN "query" ELSE "read"
<1>1. run[w].pc = "select" /\ WolStep(w) /\ ~WriteNic(w) /\ ~IfWrite(w) /\ Chosen(w, list, c) /\ nic' = nic
  BY DEF Select, WolStep, WriteNic, IfWrite, hardware
<1>2. sit' = sit /\ wol' = wol /\ RunAlone(w) /\ PastAlone(w)
  BY <1>1, WolFrame
<1>3. Sane /\ run \in [Procs -> Run] /\ past \in [Procs -> Past] /\ ~past[w].renamed /\ c \in Steps
      /\ "error" \in Results
  BY <1>1 DEF IInv, Good, Phase, Sane, Steps, Loops, Results
<1>4. list \in Seq(Names) /\ \A i \in DOMAIN list : Physical(list[i])
  BY <1>3, FirstSelection
<1>5. CASE list = <<>>
  <2>1. Report(w, "error")
    BY <1>1, <1>5, Zenon DEF Chosen
  <2>2. run'[w].pc = "report" /\ run'[w].result = "error"
    BY <1>3, <2>1, ReportBecomes DEF Becomes
  <2> QED
    BY <1>2, <2>2, QuietTruth
<1>6. CASE list # <<>>
  <2>1. c = "query" <=> Writer(w)
    OBVIOUS
  <2> HIDE DEF list, c
  <2>2. Picks(w, list, c)
    BY <1>1, <1>3, <1>4, <1>6, ChosenFacts
  <2>3. /\ run'[w].pc = c /\ run'[w].list = list /\ run'[w].at = 1 /\ ~past'[w].renamed
        /\ past'[w].devs = [i \in DOMAIN list |-> nic[list[i]]]
        /\ past'[w].held = Held(past'[w].devs, wol) /\ past' \in [Procs -> Past]
    BY <1>3, <2>2 DEF Picks
  <2>4. CASE Writer(w)
    BY <1>2, <2>3, <2>4, QuietTruth
  <2>5. CASE ~Writer(w)
    <3>1. past'[w].devs \in Seq(Devs) /\ Len(past'[w].devs) = Len(list)
      <4>1. past'[w].devs \in Seq(Devs)
        BY <2>3 DEF Past
      <4>2. DOMAIN list = 1..Len(list) /\ Len(list) \in Nat /\ DOMAIN past'[w].devs = DOMAIN list
        BY <1>4, <2>3
      <4> QED
        BY <4>1, <4>2
    <3>2. Truthful(w)'
      <4>1. ASSUME NEW v \in Policies
            PROVE  v \in past'[w].held \/ \E m \in 1..Len(list) : PolicyOf(wol[past'[w].devs[m]]) # v
        <5> DEFINE ds == past'[w].devs
        <5>1. ds \in Seq(Devs) /\ Len(ds) = Len(list) /\ past'[w].held = Held(ds, wol)
          BY <2>3, <3>1
        <5> HIDE DEF ds
        <5>2. v \in Held(ds, wol) \/ \E m \in 1..Len(ds) : PolicyOf(wol[ds[m]]) # v
          BY <5>1, HeldFacts
        <5>3. v \in past'[w].held \/ \E m \in 1..Len(list) : PolicyOf(wol[ds[m]]) # v
          BY <5>1, <5>2
        <5> QED
          BY <5>3 DEF ds
      <4>2. \A u \in Policies : \/ u \in past'[w].held
                                \/ \E m \in run'[w].at..Len(run'[w].list) : PolicyOf(wol'[past'[w].devs[m]]) # u
        BY <1>2, <2>3, <4>1
      <4> QED
        BY <4>2 DEF Truthful
    <3>3. \A q \in Procs : Stands(w, q)'
      BY <2>3 DEF Stands
    <3>4. Told(w)'
      BY <1>3, <2>1, <2>3, <2>5 DEF Told, Reports, c
    <3>5. run'[w].pc \notin {"query", "write"}
      BY <2>3, <2>5 DEF c
    <3> QED
      BY <1>2, <3>2, <3>3, <3>4, <3>5, TruthKeeps
  <2> QED
    BY <2>4, <2>5
<1> QED
  BY <1>5, <1>6

LEMMA ReadTruth ==
    ASSUME IInv, IInv', Truth, NEW w \in Procs, ReadNic(w)
    PROVE  Truth'
<1> DEFINE v == PolicyOf(wol[nic[Name(w)]])
<1>1. /\ run[w].pc = "read" /\ WolStep(w) /\ ~WriteNic(w) /\ ~IfWrite(w) /\ nic' = nic
      /\ run[w].pc \in AutoSteps /\ run[w].pc \in Loops
  BY DEF ReadNic, WolStep, WriteNic, IfWrite, hardware, AutoSteps, Loops
<1>2. sit' = sit /\ wol' = wol /\ RunAlone(w) /\ PastAlone(w)
  BY <1>1, WolFrame
<1>3. /\ run \in [Procs -> Run] /\ past \in [Procs -> Past] /\ Sane /\ Choice(w)
      /\ run[w].at \in DOMAIN run[w].list /\ run[w].list \in Seq(Names)
      /\ DOMAIN run[w].list = 1..Len(run[w].list) /\ Len(run[w].list) \in Nat /\ run[w].at \in Nat
  BY <1>1, AutoFacts DEF IInv
<1>4. v \in Policies /\ v # None
  BY PolicyFacts
<1>5. CASE Writer(w)
  <2>1. run'[w].pc \notin {"query", "write"}
    <3>1. ASSUME Report(w, "error") PROVE run'[w].pc = "report"
      BY <1>3, <3>1, ReportBecomes DEF Becomes, Results
    <3>2. ASSUME Ok(w, v) PROVE run'[w].pc = "report"
      BY <1>3, <1>4, <3>2, OkBecomes DEF Becomes
    <3>3. ASSUME run' = [run EXCEPT ![w].at = @ + 1, ![w].seen = v] PROVE run'[w].pc = "read"
      BY <1>1, <1>3, <1>4, <3>3, AdvanceBecomes DEF Becomes
    <3> HIDE DEF v
    <3> QED
      BY <3>1, <3>2, <3>3, Zenon DEF ReadNic, ReadEnd, Fails, v
  <2> QED
    BY <1>2, <1>5, <2>1, QuietTruth
<1>6. CASE ~Writer(w)
  <2>1. CASE Report(w, "error")
    <3>1. run'[w].pc = "report" /\ run'[w].result = "error"
      BY <1>3, <2>1, ReportBecomes DEF Becomes, Results
    <3> QED
      BY <1>2, <3>1, QuietTruth
  <2>2. CASE past' = past /\ Supports(Name(w)) /\ Agrees(w, v) /\ ~Report(w, "error")
    <3>1. ASSUME ~past[w].renamed PROVE PolicyOf(wol[past[w].devs[run[w].at]]) = v
      <4>1. past[w].devs = [i \in DOMAIN run[w].list |-> nic[run[w].list[i]]]
        BY <1>1, <1>3, <3>1 DEF Choice
      <4> QED
        BY <1>3, <4>1 DEF Name
    <3>2. ~past[w].renamed /\ ~Blamed =>
             v \in past[w].held \/ \E m \in (run[w].at + 1)..Len(run[w].list) : PolicyOf(wol[past[w].devs[m]]) # v
      <4>1. SUFFICES ASSUME ~past[w].renamed, ~Blamed, v \notin past[w].held
                     PROVE  \E m \in (run[w].at + 1)..Len(run[w].list) : PolicyOf(wol[past[w].devs[m]]) # v
        OBVIOUS
      <4>2. run[w].seen \in {None, v} /\ Truthful(w) /\ Reading(w)
        BY <1>1, <1>6, <2>2, <4>1 DEF Agrees, Truth, Reading
      <4>3. PICK m \in run[w].at..Len(run[w].list) : PolicyOf(wol[past[w].devs[m]]) # v
        BY <1>4, <4>1, <4>2 DEF Truthful
      <4>4. m # run[w].at
        BY <3>1, <4>1, <4>3
      <4> QED
        BY <1>3, <4>3, <4>4
    <3>3. Blamed' <=> Blamed
      BY <1>2, <2>2 DEF Blamed, Writer
    <3>4. CASE run[w].at < Len(run[w].list) /\ run' = [run EXCEPT ![w].at = @ + 1, ![w].seen = v]
      <4>1. Becomes(w, run[w].pc, run[w].list, run[w].at + 1, run[w].dev, v, run[w].result)
        BY <1>3, <1>4, <3>4, AdvanceBecomes
      <4>2. run'[w].pc = "read" /\ run'[w].at = run[w].at + 1 /\ run'[w].seen = v /\ run'[w].list = run[w].list
        BY <1>1, <4>1 DEF Becomes
      <4>3. past' = past /\ Agrees(w, v)
        BY <2>2
      <4> HIDE DEF v
      <4>4. Truthful(w)'
        BY <1>2, <1>4, <3>2, <3>3, <4>2, <4>3 DEF Truthful, Reading
      <4>5. Told(w)'
        BY <4>2 DEF Told, Reports
      <4>6. ASSUME NEW q \in Procs PROVE Stands(w, q)'
        <5>1. SUFFICES ASSUME Reading(w)', ~Blamed', Locked(q)', sit.asked[q].cmd = "auto",
                              run'[q].pc \in {"query", "write"}, past[q].renamed, v = sit.asked[q].policy
                       PROVE  \A i \in 1..run[w].at : PolicyOf(wol[past[w].devs[i]]) = v
          BY <1>2, <1>3, <1>4, <4>2, <4>3 DEF Stands
        <5>2. q # w /\ run'[q] = run[q]
          BY <1>2, <4>2, <5>1 DEF RunAlone
        <5>3. Locked(q) /\ Reading(w)
          BY <1>1, <1>2, <1>6, <4>3, <5>1, <5>2 DEF IInv, Mutex, Reading, Writer
        <5>4. \A i \in 1..(run[w].at - 1) : PolicyOf(wol[past[w].devs[i]]) = v
          BY <3>3, <4>3, <5>1, <5>2, <5>3 DEF Truth, Stands, Agrees
        <5>5. PolicyOf(wol[past[w].devs[run[w].at]]) = v
          BY <3>1, <5>3 DEF Reading
        <5> QED
          BY <1>3, <5>4, <5>5
      <4> QED
        BY <1>2, <4>2, <4>4, <4>5, <4>6, TruthKeeps
    <3>5. CASE ~(run[w].at < Len(run[w].list)) /\ Ok(w, v)
      <4>1. Becomes(w, "report", run[w].list, run[w].at, run[w].dev, v, "ok")
        BY <1>3, <1>4, <3>5, OkBecomes
      <4>2. run'[w].pc = "report" /\ run'[w].seen = v
        BY <4>1 DEF Becomes
      <4>3. ~past[w].renamed /\ ~Blamed => v \in past[w].held
        BY <1>3, <3>2, <3>5
      <4> HIDE DEF v
      <4>4. Truthful(w)' /\ \A q \in Procs : Stands(w, q)'
        BY <4>2 DEF Truthful, Stands, Reading
      <4>5. Told(w)'
        BY <2>2, <3>3, <4>2, <4>3 DEF Told
      <4> QED
        BY <1>2, <4>2, <4>4, <4>5, TruthKeeps
    <3> HIDE DEF v
    <3> QED
      BY <1>6, <2>2, <3>4, <3>5, Zenon DEF ReadNic, ReadEnd, Confirmed, Fails, v
  <2> HIDE DEF v
  <2> QED
    BY <2>1, <2>2, Zenon DEF ReadNic, Fails, v
<1> QED
  BY <1>5, <1>6

\* A change makes the next interface agree with it. A reader that still has an interface
\* to read which did not agree has all it read before agree with the change.
LEMMA AgreesBefore ==
    ASSUME IInv, Truth, ~Blamed, NEW w \in Procs, run[w].pc = "write", Supports(Name(w)),
           NEW p \in Procs, Reading(p), run[p].seen \in {None, sit.asked[w].policy},
           NEW m \in run[p].at..Len(run[p].list), past[p].devs[m] = nic[Name(w)]
    PROVE  \A i \in 1..(run[p].at - 1) : PolicyOf(wol[past[p].devs[i]]) = sit.asked[w].policy
<1>1. run[w].pc \in AutoSteps /\ run[w].pc \in Loops /\ run[p].pc \in AutoSteps /\ run[p].pc \in Loops
  BY DEF Reading, AutoSteps, Loops
<1>2. /\ sit.asked[w].cmd = "auto" /\ (Writer(w) <=> Locked(w)) /\ Phase(w) /\ Choice(w) /\ AutoGood(w)
      /\ run[w].at \in DOMAIN run[w].list /\ run[w].list \in Seq(Names) /\ run[w].at \in Nat
  BY <1>1, AutoFacts
<1>3. /\ Choice(p) /\ Phase(p) /\ run[p].at \in DOMAIN run[p].list /\ run[p].list \in Seq(Names)
      /\ DOMAIN run[p].list = 1..Len(run[p].list) /\ Len(run[p].list) \in Nat /\ run[p].at \in Nat
  BY <1>1, AutoFacts
<1>4. Locked(w) /\ ~past[w].faulted
  BY <1>2 DEF Phase, Blamed
<1>5. CASE past[w].renamed
  BY <1>2, <1>4, <1>5 DEF Truth, Stands
<1>6. CASE ~past[w].renamed
  <2> DEFINE list == run[p].list
  <2>1. /\ list = Selection(Stock, sit.auto) /\ run[w].list = Selection(Stock, sit.auto)
        /\ past[p].devs = [i \in DOMAIN list |-> nic[list[i]]]
    BY <1>1, <1>2, <1>3, <1>6 DEF Choice, Reading
  <2>2. run[w].list = list /\ m \in DOMAIN list /\ run[w].at \in DOMAIN list
    BY <1>2, <1>3, <2>1
  <2>3. \A i \in DOMAIN list : list[i] \in Names /\ past[p].devs[i] = nic[list[i]]
    BY <1>3, <2>1
  <2>4. list[m] = list[run[w].at]
    <3>1. nic[Name(w)] # 0 /\ OneName(nic)
      BY SitFacts DEF IInv, Sane, Supports
    <3>2. Name(w) = list[run[w].at] /\ nic[list[m]] = nic[Name(w)]
      BY <2>2, <2>3 DEF Name
    <3> QED
      BY <2>2, <2>3, <3>1, <3>2 DEF OneName
  <2>5. m = run[w].at
    BY <1>3, <2>2, <2>4 DEF Phase
  <2>6. \A i \in 1..(run[w].at - 1) : wol[nic[list[i]]] = Wanted(w)
    BY <1>2, <1>4, <1>6, <2>2 DEF AutoGood
  <2>7. PolicyOf(Wanted(w)) = sit.asked[w].policy
    BY PolicyFacts, SitFacts DEF IInv, Wanted
  <2>8. ASSUME NEW i \in 1..(run[p].at - 1) PROVE PolicyOf(wol[past[p].devs[i]]) = sit.asked[w].policy
    <3>1. i \in 1..(run[w].at - 1) /\ i \in DOMAIN list
      BY <1>3, <2>5
    <3> QED
      BY <2>3, <2>6, <2>7, <3>1
  <2> QED
    BY <2>8
<1> QED
  BY <1>5, <1>6

LEMMA WriteTruth ==
    ASSUME IInv, IInv', Truth, NEW w \in Procs, WriteNic(w)
    PROVE  Truth'
<1> DEFINE u == sit.asked[w].policy
           d == nic[Name(w)]
<1>1. /\ run[w].pc = "write" /\ run[w].pc \in AutoSteps /\ run[w].pc \in Loops
      /\ sit' = sit /\ nic' = nic /\ lock' = lock /\ Swol(w, Name(w), Forward(w, "reselect"))
  BY DEF WriteNic, AutoSteps, Loops
<1>2. /\ sit.asked[w].cmd = "auto" /\ (Writer(w) <=> Locked(w)) /\ Phase(w) /\ Name(w) \in Names
      /\ run \in [Procs -> Run] /\ past \in [Procs -> Past] /\ Sane
  BY <1>1, AutoFacts DEF IInv
<1>3. Writer(w) /\ Locked(w) /\ "reselect" \in Steps /\ "error" \in Results
  BY <1>1, <1>2 DEF Phase, Steps, Results
<1>4. CASE Report(w, "error") /\ wol' = wol /\ past' = past
  <2>1. RunAlone(w) /\ PastAlone(w)
    BY <1>2, <1>4, RunForms, PastForms
  <2>2. run'[w].pc = "report"
    BY <1>2, <1>3, <1>4, ReportBecomes DEF Becomes
  <2> QED
    BY <1>1, <1>3, <1>4, <2>1, <2>2, QuietTruth
<1>5. ASSUME SeenBy(w, TRUE) PROVE Truth'
  <2>1. past'[w].faulted
    BY <1>5 DEF SeenBy
  <2>2. Blamed'
    BY <2>1 DEF Blamed
  <2> QED
    BY <2>2, BlamedTruth
<1>6. CASE /\ Supports(Name(w)) /\ wol' = Changed(w, Name(w)) /\ SeenBy(w, past[w].faulted)
           /\ run' = [run EXCEPT ![w] = Forward(w, "reselect")] /\ ~Blamed'
  <2>1. RunAlone(w) /\ run'[w].pc \in {"write", "reselect"}
    BY <1>1, <1>2, <1>3, <1>6, RunForms, ForwardBecomes DEF Becomes
  <2>2. /\ \A q \in Procs : past'[q].faulted = past[q].faulted /\ past'[q].renamed = past[q].renamed
                            /\ past'[q].devs = past[q].devs
        /\ \A q \in Procs : past'[q].held = past[q].held \cup
                                (IF run[q].pc = "read" THEN Held(past[q].devs, wol') ELSE {})
    BY <1>6 DEF SeenBy
  <2>3. ~Blamed /\ ~Blamed'
    BY <1>1, <1>6, <2>2 DEF Blamed, Writer
  <2>4. /\ d \in Devs /\ wol'[d] = Wanted(w) /\ PolicyOf(Wanted(w)) = u /\ u \in Policies
        /\ \A e \in Devs \ {d} : wol'[e] = wol[e]
    BY <1>2, <1>6, ChangedFacts, PolicyFacts, SitFacts DEF Wanted
  <2>5. Supports(Name(w))
    BY <1>6
  <2> HIDE DEF u, d
  <2>6. ASSUME NEW p \in Procs PROVE Truthful(p)' /\ Told(p)' /\ \A q \in Procs : Stands(p, q)'
    <3>1. Told(p)'
      <4>1. CASE p = w
        BY <1>1, <1>3, <4>1 DEF Told, Writer
      <4>2. CASE p # w
        <5>1. run'[p] = run[p] /\ Told(p)
          BY <2>1, <4>2 DEF RunAlone, Truth
        <5> QED
          BY <1>1, <2>2, <2>3, <5>1 DEF Told, Reports, Writer
      <4> QED
        BY <4>1, <4>2
    <3>2. CASE ~Reading(p)'
      BY <3>1, <3>2 DEF Truthful, Stands
    <3>3. CASE Reading(p)'
      <4>1. p # w /\ run'[p] = run[p] /\ Reading(p)
        <5>1. p # w
          BY <1>1, <1>3, <3>3 DEF Reading, Writer
        <5> QED
          BY <1>1, <2>1, <2>2, <3>3, <5>1 DEF Reading, RunAlone, Writer
      <4>2. /\ Choice(p) /\ run[p].list \in Seq(Names) /\ run[p].at \in Nat /\ run[p].at \in DOMAIN run[p].list
            /\ DOMAIN run[p].list = 1..Len(run[p].list) /\ Len(run[p].list) \in Nat
        BY <4>1, AutoFacts DEF Reading, AutoSteps, Loops
      <4>3. past[p].devs \in Seq(Devs) /\ DOMAIN past[p].devs = DOMAIN run[p].list
        <5>1. past[p].devs = [i \in DOMAIN run[p].list |-> nic[run[p].list[i]]]
          BY <4>1, <4>2 DEF Choice, Reading, AutoSteps
        <5>2. past[p].devs \in Seq(Devs)
          BY <1>2 DEF Past
        <5> QED
          BY <5>1, <5>2
      <4>4. \A i \in DOMAIN run[p].list : past[p].devs[i] \in Devs
        BY <4>3
      <4>5. Truthful(p)'
        <5>1. SUFFICES ASSUME NEW v \in Policies, run[p].seen \in {None, v}, v \notin past'[p].held,
                              \A m \in run[p].at..Len(run[p].list) : PolicyOf(wol'[past[p].devs[m]]) = v
                       PROVE  FALSE
          BY <2>2, <4>1 DEF Truthful
        <5>2. v \notin past[p].held /\ v \notin Held(past[p].devs, wol')
          BY <2>2, <4>1, <5>1 DEF Reading
        <5>3. PICK m \in run[p].at..Len(run[p].list) : PolicyOf(wol[past[p].devs[m]]) # v
          BY <2>3, <4>1, <5>1, <5>2 DEF Truth, Truthful
        <5>4. m \in DOMAIN run[p].list
          BY <4>2, <5>3
        <5>5. past[p].devs[m] = d /\ v = u
          BY <2>4, <4>4, <5>1, <5>3, <5>4
        <5>6. \A i \in 1..(run[p].at - 1) : PolicyOf(wol[past[p].devs[i]]) = v
          BY <1>1, <2>3, <2>5, <4>1, <5>1, <5>5, AgreesBefore DEF u, d
        <5>7. \A i \in 1..(run[p].at - 1) : PolicyOf(wol'[past[p].devs[i]]) = v
          <6>1. ASSUME NEW i \in 1..(run[p].at - 1) PROVE PolicyOf(wol'[past[p].devs[i]]) = v
            <7>1. i \in DOMAIN run[p].list
              BY <4>2
            <7> QED
              BY <2>4, <4>4, <5>5, <5>6, <7>1
          <6> QED
            BY <6>1
        <5>8. \A i \in DOMAIN past[p].devs : PolicyOf(wol'[past[p].devs[i]]) = v
          <6>1. ASSUME NEW i \in DOMAIN past[p].devs PROVE PolicyOf(wol'[past[p].devs[i]]) = v
            <7>1. i \in 1..(run[p].at - 1) \/ i \in run[p].at..Len(run[p].list)
              BY <4>2, <4>3
            <7> QED
              BY <5>1, <5>7, <7>1
          <6> QED
            BY <6>1
        <5> QED
          BY <5>1, <5>2, <5>8 DEF Held
      <4>6. ASSUME NEW q \in Procs PROVE Stands(p, q)'
        <5>1. SUFFICES ASSUME Locked(q)', sit.asked[q].cmd = "auto", run'[q].pc \in {"query", "write"},
                              past[q].renamed, run[p].seen \in {None, sit.asked[q].policy}
                       PROVE  \A i \in 1..(run[p].at - 1) : PolicyOf(wol'[past[p].devs[i]]) = sit.asked[q].policy
          BY <1>1, <2>2, <4>1 DEF Stands
        <5>2. Locked(q)
          BY <1>1, <5>1 DEF Locked, Kind
        <5>3. q = w
          BY <1>2, <1>3, <5>1, <5>2 DEF Locked, Kind
        <5>4. \A i \in 1..(run[p].at - 1) : PolicyOf(wol[past[p].devs[i]]) = u
          BY <1>1, <2>3, <4>1, <5>1, <5>2, <5>3 DEF Truth, Stands, u
        <5>5. ASSUME NEW i \in 1..(run[p].at - 1) PROVE PolicyOf(wol'[past[p].devs[i]]) = u
          <6>1. i \in DOMAIN run[p].list
            BY <4>2
          <6> QED
            BY <2>4, <4>4, <5>4, <6>1
        <5> QED
          BY <5>3, <5>5 DEF u
      <4> QED
        BY <3>1, <4>5, <4>6
    <3> QED
      BY <3>2, <3>3
  <2> QED
    BY <2>6 DEF Truth
<1>7. CASE Errs(w, Name(w))
  BY <1>5, <1>7 DEF Errs
<1>8. CASE Writes(w, Name(w), Forward(w, "reselect"))
  <2>1. CASE SeenBy(w, TRUE)
    BY <1>5, <2>1
  <2>2. CASE Blamed'
    BY <2>2, BlamedTruth
  <2> QED
    BY <1>6, <1>8, <2>1, <2>2, Zenon DEF Writes
<1>9. \/ ~Supports(Name(w)) /\ Report(w, "error") /\ wol' = wol /\ past' = past
      \/ Errs(w, Name(w))
      \/ Writes(w, Name(w), Forward(w, "reselect"))
  BY <1>1, <1>2, SwolCases
<1> QED
  BY <1>4, <1>7, <1>8, <1>9

LEMMA RenameTruth ==
    ASSUME IInv, IInv', Truth, NEW a \in Names, NEW b \in Names \cup {None}, Rename(a, b)
    PROVE  Truth'
<1>1. sit' = sit /\ run' = run /\ wol' = wol /\ lock' = lock
  BY DEF Rename
<1>2. past \in [Procs -> Past]
  BY DEF IInv, Sane
<1>3. \A q \in Procs : /\ past'[q].held = past[q].held /\ past'[q].faulted = past[q].faulted
                       /\ past[q].renamed \/ Selected(q) => past'[q].renamed
  BY <1>2, RenameRecords
<1>4. Blamed' <=> Blamed
  BY <1>1, <1>3 DEF Blamed, Writer
<1>5. ASSUME NEW p \in Procs PROVE Truthful(p)' /\ Told(p)' /\ \A q \in Procs : Stands(p, q)'
  <2>1. ~Reading(p)'
    <3>1. run[p].pc = "read" => Selected(p)
      BY DEF IInv, Good, Phase, Selected, Running, AutoSteps
    <3> QED
      BY <1>1, <1>3, <3>1 DEF Reading
  <2>2. Told(p)'
    BY <1>1, <1>3, <1>4 DEF Truth, Told, Reports, Writer
  <2> QED
    BY <2>1, <2>2 DEF Truthful, Stands
<1> QED
  BY <1>5 DEF Truth

LEMMA StillTruth ==
    ASSUME Truth, sit' = sit, run' = run, wol' = wol, lock' = lock, past' = past
    PROVE  Truth'
<1>1. (Blamed' <=> Blamed) /\ \A p \in Procs : (Reading(p)' <=> Reading(p)) /\ (Locked(p)' <=> Locked(p))
  BY DEF Blamed, Writer, Reading, Locked, Kind
<1>2. ASSUME NEW p \in Procs PROVE Truthful(p)' /\ Told(p)' /\ \A q \in Procs : Stands(p, q)'
  <2>1. Truthful(p)'
    BY <1>1 DEF Truth, Truthful
  <2>2. Told(p)'
    BY <1>1 DEF Truth, Told, Reports, Writer
  <2>3. ASSUME NEW q \in Procs PROVE Stands(p, q)'
    BY <1>1 DEF Truth, Stands
  <2> QED
    BY <2>1, <2>2, <2>3
<1> QED
  BY <1>2 DEF Truth

\* The policy a read of all interfaces reports was that of all of them at one moment of
\* the read, although it takes no lock, whatever changes of all interfaces are made
\* meanwhile, by any number of processes, and however often interfaces are renamed before
\* it selects them. (ugreenctl_wol_read_policy_with_renamed_count)
THEOREM GetIsTruthfulAlways == Spec => []GetIsTruthful
<1>1. Init => IInv /\ Truth
  <2> SUFFICES ASSUME Init PROVE Truth
    BY InitHolds
  <2>1. \A p \in Procs : run[p].pc = "start"
    BY DEF Init
  <2> QED
    BY <2>1 DEF Truth, Truthful, Told, Stands, Reading, Reports
<1>2. IInv /\ Truth /\ [Next]_vars => (IInv /\ Truth)'
  <2> SUFFICES ASSUME IInv, Truth, [Next]_vars PROVE (IInv /\ Truth)'
    OBVIOUS
  <2>1. IInv'
    BY NextKeeps
  <2>2. ASSUME NEW w \in Procs, Step(w) \/ Kill(w), sit.asked[w].cmd = "auto" PROVE Truth'
    <3>1. ~RtcStep(w)
      <4>1. run[w].pc \notin RtcSteps
        BY <2>2 DEF IInv, Good, Phase
      <4> QED
        BY <4>1 DEF RtcStep, RtcSelect, RtcClock, RtcOld, RtcClear, RtcCleared, RtcArm, RtcArmed, RtcSteps
    <3>2. ~IfOpen(w) /\ ~IfQuery(w) /\ ~IfAgain(w) /\ ~IfWrite(w) /\ ~IfBack(w) /\ ~IfAfter(w)
      <4>1. run[w].pc \notin IfSteps
        BY <2>2 DEF IInv, Good, Phase
      <4> QED
        BY <4>1 DEF IfOpen, IfQuery, IfAgain, IfWrite, IfBack, IfAfter, IfSteps
    <3> QED
      BY <2>1, <2>2, <3>1, <3>2, CallTruth, SelectTruth, QueryTruth, WriteTruth, ReadTruth DEF Step, WolStep
  <2>3. ASSUME Tick \/ UNCHANGED vars PROVE Truth'
    <3>1. sit' = sit /\ run' = run /\ wol' = wol /\ lock' = lock /\ past' = past
      BY <2>3 DEF Tick, vars, hardware
    <3> QED
      BY <3>1, StillTruth
  <2> QED
    BY <2>1, <2>2, <2>3, OtherTruth, RenameTruth DEF Next
<1>3. Truth => GetIsTruthful
  BY DEF Truth, Told, GetIsTruthful, Blamed
<1> QED
  BY <1>1, <1>2, <1>3, PTL DEF Spec
=============================================================================
