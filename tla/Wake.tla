-------------------------------- MODULE Wake --------------------------------
(***************************************************************************)
(* `ugreenctl power rtc-wake` and `ugreenctl network wol`                  *)
(* (src/core/wake_cli.c): processes that read or change the RTC wake alarm *)
(* (src/power/rtc_wake.c), the Wake-on-LAN policy of the machine's network *)
(* interfaces taken together (src/network/wol.c) or of one named interface *)
(* (src/network/wol_interface.c). They share one lock file per device kind *)
(* and race with each other, with the passing of time, with the renaming   *)
(* of interfaces, with failing ioctls and with being killed at any step.   *)
(*                                                                         *)
(* A step is one access to the system. Network devices are numbered in the *)
(* order of their PCI slots; an interface name is bound to a device (its   *)
(* slot and its ifindex) until it is renamed.                              *)
(***************************************************************************)
EXTENDS Integers, Sequences, FiniteSets

CONSTANTS
    Procs,       \* invocations of the command
    Names,       \* interface names; contains the stock names
    Devs,        \* network devices, numbered in PCI slot order
    Margin,      \* an alarm is this far ahead at least (60 s in the code)
    Far,         \* an alarm left by somebody else, later than all time modelled
    Situations   \* what a behaviour starts from, see Situation

Stock == <<"eth0", "eth1">>
None == "none"
Policies == {"on", "off"}
Flags == SUBSET {"magic", "other"}   \* ethtool wolopts
Kinds == {"rtc", "wol"}

Request == [cmd : {"rtc", "auto", "iface"}, act : {"get", "set", "clear"},
            epoch : Nat, policy : Policies, name : Names, apply : BOOLEAN, force : BOOLEAN]

\* asked: the request of each process. nic, wol, alarm: the devices at first. physical:
\* PCI Ethernet devices; mac: the device tree's; magic: devices that support magic packets.
\* auto: automatic_pci_count. rtcs: RTCs the profile selects; resolution: of its alarm;
\* skew: RTC time minus system time, more than the 5 s tolerated unless 0.
\* faulty: an access may fail and a process be killed. renames: how often an interface
\* may be renamed. ticks: how much time may pass.
Situation == [asked : [Procs -> Request], nic : [Names -> Devs \cup {0}], wol : [Devs -> Flags],
              alarm : {0, Far}, physical : SUBSET Devs, mac : SUBSET Devs, magic : SUBSET Devs,
              auto : 0..2, rtcs : 0..2, resolution : Nat \ {0}, skew : Int, faulty : BOOLEAN,
              renames : Nat, ticks : Nat]

\* A device has at most one name.
OneName(bound) == \A a, b \in Names : bound[a] = bound[b] => a = b \/ bound[a] = 0

ASSUME WakeAssumption ==
    /\ IsFiniteSet(Names) /\ Devs \subseteq Nat \ {0} /\ Stock \in Seq(Names)
    /\ Margin \in Nat /\ Far \in Nat /\ None \notin Procs \cup Names
    /\ \A s \in Situations : s \in Situation /\ OneName(s.nic) /\ Far > s.ticks + s.skew

VARIABLES
    sit,       \* the situation, fixed
    now,       \* system time
    alarm,     \* /sys/class/rtc/rtcN/wakealarm, 0 when none is enabled
    nic,       \* the device an interface name is bound to, 0 when there is none
    wol,       \* the flags of each device
    renames,   \* renames still to come
    lock,      \* the holder of each lock file
    run,       \* what each process is doing
    past       \* history, see Past

hardware == <<alarm, nic, wol>>
vars == <<sit, now, hardware, renames, lock, run, past>>

Loops == {"query", "write", "read"}
RtcSteps == {"rtc", "clock", "old", "clear", "cleared", "arm", "armed"}
IfSteps == {"iface", "ifquery", "ifagain", "ifwrite", "ifback", "ifafter"}
Steps == {"start", "lock", "identity", "report", "done", "select", "reselect"}
         \cup Loops \cup RtcSteps \cup IfSteps

\* list, at: mapped_interfaces and the loop index; dev: identity and ifindex found first;
\* seen: the policy read; result: what is reported.
Run == [pc : Steps, list : Seq(Names), at : Nat, dev : Devs \cup {0},
        seen : Policies \cup {None}, result : {None, "ok", "error", "dry", "killed"}]

\* alarm, wol: as found when the lock was taken (or the run began); devs: the devices
\* behind the interfaces selected last; faulted: an access of this process failed or was
\* ignored; renamed: an interface was renamed since the first selection; rebound: since
\* the last one a selected name was given to another interface, or came back to its own;
\* held: policies all selected devices had at one moment since they were selected.
Past == [alarm : Nat, wol : [Devs -> Flags], devs : Seq(Devs), faulted : BOOLEAN,
         renamed : BOOLEAN, rebound : BOOLEAN, held : SUBSET Policies]

Writer(p) == sit.asked[p].act # "get"
Kind(p) == IF sit.asked[p].cmd = "rtc" THEN "rtc" ELSE "wol"
Locked(p) == lock[Kind(p)] = p

TypeOK ==
    /\ sit \in Situation /\ now \in 0..sit.ticks /\ alarm \in Nat
    /\ nic \in [Names -> Devs \cup {0}] /\ wol \in [Devs -> Flags] /\ renames \in 0..sit.renames
    /\ lock \in [Kinds -> Procs \cup {None}]
    /\ run \in [Procs -> Run] /\ past \in [Procs -> Past]
    /\ \A p \in Procs : run[p].pc \in Loops => run[p].at \in DOMAIN run[p].list
    /\ \A p \in Procs : Locked(p) <=> Writer(p) /\ run[p].pc \notin {"start", "lock", "done"}

Init ==
    /\ sit \in Situations /\ now = 0
    /\ alarm = sit.alarm /\ nic = sit.nic /\ wol = sit.wol /\ renames = sit.renames
    /\ lock = [k \in Kinds |-> None]
    /\ run = [p \in Procs |-> [pc |-> "start", list |-> <<>>, at |-> 1, dev |-> 0,
                               seen |-> None, result |-> None]]
    /\ past = [p \in Procs |-> [alarm |-> sit.alarm, wol |-> sit.wol, devs |-> <<>>,
                                faulted |-> FALSE, renamed |-> FALSE, rebound |-> FALSE,
                                held |-> {}]]

-----------------------------------------------------------------------------
(* What every operation uses. *)

Go(p, pc) == run' = [run EXCEPT ![p].pc = pc]
Report(p, res) == run' = [run EXCEPT ![p].pc = "report", ![p].result = res]
Ok(p, policy) == run' = [run EXCEPT ![p].pc = "report", ![p].result = "ok", ![p].seen = policy]

\* The policy a flag word stands for, and the word a policy is written as.
PolicyOf(flags) == IF "magic" \in flags THEN "on" ELSE "off"
Word(policy) == IF policy = "on" THEN {"magic"} ELSE {}

\* An access fails: the caller is told and gives up.
Fails(p) ==
    /\ sit.faulty
    /\ Report(p, "error")
    /\ past' = [past EXCEPT ![p].faulted = TRUE]

Faulted(p) == past' = [past EXCEPT ![p].faulted = TRUE]

\* Policies that all selected devices of a reading process have right now.
Held(devs, flags) == {v \in Policies : \A i \in DOMAIN devs : PolicyOf(flags[devs[i]]) = v}

-----------------------------------------------------------------------------
(* ugreenctl_wake_cli up to the operation. *)

\* ugreenctl_rtc_validate_epoch
ValidEpoch(epoch) == epoch > now + Margin /\ epoch % sit.resolution = 0

\* What the profile tables and the arguments rule out before anything is accessed.
Acceptable(p) ==
    LET r == sit.asked[p] IN
    /\ r.cmd = "rtc" /\ r.act = "set" => ValidEpoch(r.epoch)
    /\ r.cmd = "auto" => sit.auto > 0

Refuse(p) ==
    /\ run' = [run EXCEPT ![p].pc = "done", ![p].result = "error"]
    /\ UNCHANGED <<sit, now, hardware, renames, lock, past>>

Dispatch(p) ==
    CASE sit.asked[p].cmd = "rtc" -> "rtc"
      [] sit.asked[p].cmd = "auto" -> "select"
      [] OTHER -> "iface"

Start(p) ==
    /\ run[p].pc = "start"
    /\ LET r == sit.asked[p] IN
        \/ /\ ~Acceptable(p) \/ (Writer(p) /\ r.apply /\ ~r.force)
           /\ Refuse(p)
        \/ /\ Acceptable(p) /\ Writer(p) /\ ~r.apply
           /\ run' = [run EXCEPT ![p].pc = "done", ![p].result = "dry"]
           /\ UNCHANGED <<sit, now, hardware, renames, lock, past>>
        \/ /\ Acceptable(p) /\ (Writer(p) => r.apply /\ r.force)
           /\ Go(p, IF Writer(p) THEN "lock" ELSE Dispatch(p))
           /\ UNCHANGED <<sit, now, hardware, renames, lock, past>>

\* wake_lock: flock with LOCK_NB on the kind's lock file.
Free_always(k) == TRUE
Free(k) == lock[k] = None
Lock(p) ==
    /\ run[p].pc = "lock"
    /\ \/ /\ ~Free(Kind(p)) \/ sit.faulty
          /\ Refuse(p)
       \/ /\ Free(Kind(p))
          /\ lock' = [lock EXCEPT ![Kind(p)] = p]
          /\ Go(p, "identity")
          /\ past' = [past EXCEPT ![p].alarm = alarm, ![p].wol = wol]
          /\ UNCHANGED <<sit, now, hardware, renames>>

\* The identity is read again under the lock; another or none ends the call.
Identity(p) ==
    /\ run[p].pc = "identity"
    /\ \/ Go(p, Dispatch(p)) /\ UNCHANGED past
       \/ Fails(p)
    /\ UNCHANGED <<sit, now, hardware, renames, lock>>

\* The lock is closed, then the result is printed.
Done(p) ==
    /\ run[p].pc = "report"
    /\ Go(p, "done")
    /\ lock' = [k \in Kinds |-> IF lock[k] = p THEN None ELSE lock[k]]
    /\ UNCHANGED <<sit, now, hardware, renames, past>>

-----------------------------------------------------------------------------
(* The RTC alarm: ugreenctl_rtc_wake_read, _set and _clear. *)

RtcNow == now + sit.skew
ClockAgrees_unchecked == TRUE
ClockAgrees == sit.skew = 0

\* The time is validated again and exactly one RTC must match.
RtcSelect(p) ==
    LET r == sit.asked[p] IN
    /\ run[p].pc = "rtc"
    /\ IF (r.act = "set" => ValidEpoch(r.epoch)) /\ sit.rtcs = 1
       THEN Go(p, IF r.act = "set" THEN "clock" ELSE "old")
       ELSE Report(p, "error")
    /\ UNCHANGED <<sit, now, hardware, renames, lock, past>>

\* since_epoch against time(): the alarm is left alone when the clocks disagree.
RtcClock(p) ==
    /\ run[p].pc = "clock"
    /\ \/ (IF ClockAgrees THEN Go(p, "old") ELSE Report(p, "error")) /\ UNCHANGED past
       \/ Fails(p)
    /\ UNCHANGED <<sit, now, hardware, renames, lock>>

\* The alarm is read: all a get does, and the first access of a change.
RtcOld(p) ==
    /\ run[p].pc = "old"
    /\ \/ (IF Writer(p) THEN Go(p, "clear") ELSE Report(p, "ok")) /\ UNCHANGED past
       \/ Fails(p)
    /\ UNCHANGED <<sit, now, hardware, renames, lock>>

\* wakealarm_store of the kernel: an alarm that is not in the RTC's future disables it.
\* (One that would replace an enabled alarm is refused; update_alarm never asks for that.)
Stored(epoch) == IF epoch > RtcNow THEN epoch ELSE 0

\* write_wakealarm, whose error may come before or after the effect, or which the
\* device ignores.
RtcWrite(p, epoch, next) ==
    \/ Go(p, next) /\ alarm' = Stored(epoch) /\ UNCHANGED past
    \/ Fails(p) /\ alarm' \in {alarm, Stored(epoch)}
    \/ sit.faulty /\ Go(p, next) /\ Faulted(p) /\ UNCHANGED alarm

RtcClear(p) ==
    /\ run[p].pc = "clear"
    /\ RtcWrite(p, 0, "cleared")
    /\ UNCHANGED <<sit, now, nic, wol, renames, lock>>

\* Readback of the clear, on which a clear ends.
RtcCleared(p) ==
    /\ run[p].pc = "cleared"
    /\ \/ /\ \/ alarm # 0 /\ Report(p, "error")
             \/ alarm = 0 /\ sit.asked[p].act = "clear" /\ Report(p, "ok")
             \/ alarm = 0 /\ sit.asked[p].act = "set" /\ Go(p, "arm")
          /\ UNCHANGED past
       \/ Fails(p)
    /\ UNCHANGED <<sit, now, hardware, renames, lock>>

RtcArm(p) ==
    /\ run[p].pc = "arm"
    /\ RtcWrite(p, sit.asked[p].epoch, "armed")
    /\ UNCHANGED <<sit, now, nic, wol, renames, lock>>

RtcArmed(p) ==
    /\ run[p].pc = "armed"
    /\ \/ (IF alarm = sit.asked[p].epoch THEN Report(p, "ok") ELSE Report(p, "error"))
          /\ UNCHANGED past
       \/ Fails(p)
    /\ UNCHANGED <<sit, now, hardware, renames, lock>>

RtcStep(p) == \/ RtcSelect(p) \/ RtcClock(p) \/ RtcOld(p) \/ RtcClear(p) \/ RtcCleared(p)
              \/ RtcArm(p) \/ RtcArmed(p)

-----------------------------------------------------------------------------
(* The machine's interfaces taken together: wol.c. *)

Physical(name) == nic[name] \in sit.physical
\* discover_renamed_interfaces: all the physical ones, when there are as many as expected,
\* sorted by slot.
Renamed(expected) ==
    LET found == {n \in Names : Physical(n)} IN
    IF Cardinality(found) # expected THEN <<>>
    ELSE CHOOSE s \in [1..expected -> found] :
            \A i, j \in 1..expected : i < j => nic[s[i]] < nic[s[j]]

\* select_interfaces: the given names when all are physical interfaces, else whatever
\* physical ones there are; <<>> is a refusal.
Selection(given, expected) ==
    IF \A i \in DOMAIN given : Physical(given[i]) THEN given ELSE Renamed(expected)

Chosen(p, list, pc) ==
    IF list = <<>> THEN Report(p, "error") /\ UNCHANGED past
    ELSE /\ run' = [run EXCEPT ![p].list = list, ![p].at = 1, ![p].pc = pc, ![p].seen = None]
         /\ LET devs == [i \in DOMAIN list |-> nic[list[i]]] IN
            past' = [past EXCEPT ![p].devs = devs, ![p].held = Held(devs, wol), ![p].rebound = FALSE]

Select_unasked(p) ==
    /\ run[p].pc = "select"
    /\ Chosen(p, Selection(Stock, sit.auto), IF Writer(p) THEN "write" ELSE "read")
    /\ UNCHANGED <<sit, now, hardware, renames, lock>>
Select(p) ==
    /\ run[p].pc = "select"
    /\ Chosen(p, Selection(Stock, sit.auto), IF Writer(p) THEN "query" ELSE "read")
    /\ UNCHANGED <<sit, now, hardware, renames, lock>>

\* What GWOL and SWOL reach through a name, and the interface at the loop index.
Name(p) == run[p].list[run[p].at]
Supports(name) == nic[name] \in sit.magic
\* The loop goes on to the next interface, or starts over in the next phase.
Forward_keeps_index(p, next) ==
    [run[p] EXCEPT !.at = @ + 1, !.pc = IF run[p].at < Len(run[p].list) THEN @ ELSE next]
Forward(p, next) ==
    IF run[p].at < Len(run[p].list)
    THEN [run[p] EXCEPT !.at = @ + 1]
    ELSE [run[p] EXCEPT !.at = 1, !.pc = next]

\* Every interface is asked before the first is changed.
Query(p) ==
    /\ run[p].pc = "query"
    /\ \/ /\ IF Supports(Name(p)) THEN run' = [run EXCEPT ![p] = Forward(p, "write")]
             ELSE Report(p, "error")
          /\ UNCHANGED past
       \/ Fails(p)
    /\ UNCHANGED <<sit, now, hardware, renames, lock>>

\* SWOL on whatever device the name stands for now. The driver may ignore it, and its
\* error may come before or after the effect.
Observed == [q \in Procs |-> IF run[q].pc = "read"
                             THEN [past[q] EXCEPT !.held = @ \cup Held(past[q].devs, wol')]
                             ELSE past[q]]
Swol(p, name, next) ==
    LET changed == [wol EXCEPT ![nic[name]] = Word(sit.asked[p].policy)] IN
    \/ ~Supports(name) /\ Report(p, "error") /\ UNCHANGED <<wol, past>>
    \/ Supports(name) /\ wol' = changed /\ past' = Observed /\ run' = [run EXCEPT ![p] = next]
    \/ /\ Supports(name) /\ sit.faulty
       /\ \/ wol' = wol /\ run' = [run EXCEPT ![p] = next]
          \/ wol' \in {wol, changed} /\ Report(p, "error")
       /\ past' = [Observed EXCEPT ![p].faulted = TRUE]

WriteNic(p) ==
    /\ run[p].pc = "write"
    /\ Swol(p, Name(p), Forward(p, "reselect"))
    /\ UNCHANGED <<sit, now, alarm, nic, renames, lock>>

\* The readback selects again, from the names written.
Reselect(p) ==
    /\ run[p].pc = "reselect"
    /\ Chosen(p, Selection(run[p].list, Len(run[p].list)), "read")
    /\ UNCHANGED <<sit, now, hardware, renames, lock>>

\* The loop of read_policy. A set is confirmed by the policy it reads.
Confirmed(p, policy) == Writer(p) => policy = sit.asked[p].policy
ReadEnd(p, policy) == IF Confirmed(p, policy) THEN Ok(p, policy) ELSE Report(p, "error")
Agrees_last(p, policy) == TRUE
Agrees(p, policy) == run[p].seen \in {None, policy}
ReadNic_retries(p) ==
    LET policy == PolicyOf(wol[nic[Name(p)]]) IN
    /\ run[p].pc = "read"
    /\ \/ ~Supports(Name(p)) /\ Report(p, "error")
       \/ /\ Supports(Name(p)) /\ ~Agrees(p, policy)
          /\ run' = [run EXCEPT ![p].at = 1, ![p].seen = None]
       \/ /\ Supports(Name(p)) /\ Agrees(p, policy)
          /\ IF run[p].at < Len(run[p].list)
             THEN run' = [run EXCEPT ![p].at = @ + 1, ![p].seen = policy]
             ELSE ReadEnd(p, policy)
    /\ UNCHANGED <<sit, now, hardware, renames, lock, past>>
ReadNic(p) ==
    LET policy == PolicyOf(wol[nic[Name(p)]]) IN
    /\ run[p].pc = "read"
    /\ \/ /\ \/ ~Supports(Name(p)) /\ Report(p, "error")
             \/ Supports(Name(p)) /\ ~Agrees(p, policy) /\ Report(p, "error")
             \/ /\ Supports(Name(p)) /\ Agrees(p, policy)
                /\ IF run[p].at < Len(run[p].list)
                   THEN run' = [run EXCEPT ![p].at = @ + 1, ![p].seen = policy]
                   ELSE ReadEnd(p, policy)
          /\ UNCHANGED past
       \/ Fails(p)
    /\ UNCHANGED <<sit, now, hardware, renames, lock>>

-----------------------------------------------------------------------------
(* One named interface: wol_interface.c. *)

IfName(p) == sit.asked[p].name
\* The identity and the ifindex of the name: 0 unless a PCI or device tree Ethernet.
Evidence(name) == IF nic[name] \in sit.physical \cup sit.mac THEN nic[name] ELSE 0
SameDevice(p) == Evidence(IfName(p)) = run[p].dev

IfOpen(p) ==
    /\ run[p].pc = "iface"
    /\ IF Evidence(IfName(p)) # 0
       THEN run' = [run EXCEPT ![p].pc = "ifquery", ![p].dev = Evidence(IfName(p))]
       ELSE Report(p, "error")
    /\ UNCHANGED <<sit, now, hardware, renames, lock, past>>

IfQuery(p) ==
    /\ run[p].pc = "ifquery"
    /\ \/ /\ \/ ~Supports(IfName(p)) /\ Report(p, "error")
             \/ Supports(IfName(p)) /\ Writer(p) /\ Go(p, "ifagain")
             \/ Supports(IfName(p)) /\ ~Writer(p) /\ Ok(p, PolicyOf(wol[nic[IfName(p)]]))
          /\ UNCHANGED past
       \/ Fails(p)
    /\ UNCHANGED <<sit, now, hardware, renames, lock>>

IfAgain(p) ==
    /\ run[p].pc = "ifagain"
    /\ IF SameDevice(p) THEN Go(p, "ifwrite") ELSE Report(p, "error")
    /\ UNCHANGED <<sit, now, hardware, renames, lock, past>>

IfWrite(p) ==
    /\ run[p].pc = "ifwrite"
    /\ Swol(p, IfName(p), [run[p] EXCEPT !.pc = "ifback"])
    /\ UNCHANGED <<sit, now, alarm, nic, renames, lock>>

\* The readback compares all flags.
IfBack(p) ==
    /\ run[p].pc = "ifback"
    /\ \/ /\ IF Supports(IfName(p)) /\ wol[nic[IfName(p)]] = Word(sit.asked[p].policy)
             THEN Go(p, "ifafter") ELSE Report(p, "error")
          /\ UNCHANGED past
       \/ Fails(p)
    /\ UNCHANGED <<sit, now, hardware, renames, lock>>

IfAfter(p) ==
    /\ run[p].pc = "ifafter"
    /\ IF SameDevice(p) THEN Ok(p, sit.asked[p].policy) ELSE Report(p, "error")
    /\ UNCHANGED <<sit, now, hardware, renames, lock, past>>

WolStep(p) == \/ Select(p) \/ Query(p) \/ WriteNic(p) \/ Reselect(p) \/ ReadNic(p)
              \/ IfOpen(p) \/ IfQuery(p) \/ IfAgain(p) \/ IfWrite(p) \/ IfBack(p) \/ IfAfter(p)

-----------------------------------------------------------------------------
(* The surroundings. *)

\* Time passes; the alarm fires when the RTC reaches it, and is disabled.
Tick ==
    /\ now < sit.ticks
    /\ now' = now + 1
    /\ alarm' = IF alarm <= RtcNow + 1 THEN 0 ELSE alarm
    /\ UNCHANGED <<sit, nic, wol, renames, lock, run, past>>

\* An interface is given a free name, or vanishes with its driver (b is None), while a
\* call is running; at other times it only makes another situation to start from.
Running(p) == run[p].pc \notin {"start", "done"}
Selected(p) == Running(p) /\ (run[p].list # <<>> \/ run[p].dev # 0)
\* A selected name is given away again. The identity of a single interface's name is
\* compared again and again, so that only its own device is taken for it.
Rebinds(p, name, dev) ==
    Selected(p) /\ IF run[p].dev # 0 THEN name = IfName(p) /\ dev = run[p].dev
                                      ELSE \E i \in DOMAIN run[p].list : run[p].list[i] = name
Rename(a, b) ==
    /\ renames > 0 /\ nic[a] # 0 /\ (b \in Names => nic[b] = 0) /\ \E p \in Procs : Running(p)
    /\ nic' = [n \in Names |-> CASE n = a -> 0 [] n = b -> nic[a] [] OTHER -> nic[n]]
    /\ renames' = renames - 1
    /\ past' = [q \in Procs |-> [past[q] EXCEPT !.renamed = @ \/ Selected(q),
                                                !.rebound = @ \/ Rebinds(q, b, nic[a])]]
    /\ UNCHANGED <<sit, now, alarm, wol, lock, run>>

\* The process is killed; the kernel drops its lock.
Kill(p) ==
    /\ Running(p) /\ sit.faulty
    /\ run' = [run EXCEPT ![p].pc = "done", ![p].result = "killed"]
    /\ lock' = [k \in Kinds |-> IF lock[k] = p THEN None ELSE lock[k]]
    /\ UNCHANGED <<sit, now, hardware, renames, past>>

Step(p) == Start(p) \/ Lock(p) \/ Identity(p) \/ RtcStep(p) \/ WolStep(p) \/ Done(p)

Next ==
    \/ \E p \in Procs : Step(p) \/ Kill(p)
    \/ Tick
    \/ \E a \in Names, b \in Names \cup {None} : Rename(a, b)

Spec == Init /\ [][Next]_vars

\* A process that is not killed keeps running: no operation waits for another one.
FairSpec == Spec /\ \A p \in Procs : WF_vars(Step(p))

-----------------------------------------------------------------------------
(* Properties. *)

Reports(p, res) == run[p].pc = "report" /\ run[p].result = res
Wanted(p) == Word(sit.asked[p].policy)

\* While a change that is about to be reported as verified still holds its lock, the
\* device is in the state reported: the alarm is armed (or its time has come), cleared,
\* all interfaces the readback selected have the policy, or the device first identified
\* behind the interface's name has exactly the flags asked for and no other device was
\* touched. Names are all the ioctls take: a selected name that is given to another
\* interface while the readback runs, or the name of a single interface that leaves it and
\* comes back between two comparisons, escapes, and only that. (ugreenctl_wake_cli,
\* update_alarm, ugreenctl_wol_set_policy_with_renamed_count, ugreenctl_wol_interface)
ReportHolds ==
    \A p \in Procs : Reports(p, "ok") /\ Writer(p) =>
        LET r == sit.asked[p] IN
        CASE r.cmd = "rtc" /\ r.act = "set" -> alarm = r.epoch \/ r.epoch <= RtcNow
          [] r.cmd = "rtc" /\ r.act = "clear" -> alarm = 0
          [] r.cmd = "auto" -> \/ past[p].rebound
                               \/ \A i \in DOMAIN past[p].devs : PolicyOf(wol[past[p].devs[i]]) = r.policy
          [] r.cmd = "iface" -> past[p].rebound \/ wol = [past[p].wol EXCEPT ![run[p].dev] = Wanted(p)]

\* A change that is reported as failed leaves, under its lock, nothing but old and asked
\* values, and a cleared alarm at worst. If no access failed, no interface was renamed
\* and the alarm's time has not come, the failure was found before the first write: the
\* old alarm (unless it fired meanwhile) and all the policies are as found. (the order of checks in update_alarm and
\* ugreenctl_wol_set_policy_with_renamed_count)
FailureLeaves ==
    \A p \in Procs : Reports(p, "error") /\ Locked(p) =>
        LET r == sit.asked[p] IN
        IF r.cmd = "rtc"
        THEN /\ alarm \in {past[p].alarm, 0} \cup (IF r.act = "set" THEN {r.epoch} ELSE {})
             /\ ~past[p].faulted /\ (r.act = "set" => r.epoch > RtcNow) =>
                    alarm = past[p].alarm \/ past[p].alarm <= RtcNow
        ELSE /\ \A d \in Devs : wol[d] \in {past[p].wol[d], Wanted(p)}
             /\ ~past[p].faulted /\ ~past[p].renamed => wol = past[p].wol

\* The alarm this program armed fires at the system time asked for, also when the RTC
\* keeps another time base. (the clock check of update_alarm, rtc_wake.c:187-203)
WakesOnTime ==
    [][now' # now /\ alarm \notin {0, Far} /\ alarm' = 0 => now' = alarm]_vars

\* The policy a read of all interfaces reports was theirs at one moment of the read,
\* whatever locked changes of all interfaces run meanwhile, although the read takes no
\* lock. Excepted are renamed interfaces, single-interface changes and ignored writes.
\* (ugreenctl_wol_read_policy_with_renamed_count)
GetIsTruthful ==
    \A p \in Procs :
        \/ ~Reports(p, "ok") \/ Writer(p) \/ sit.asked[p].cmd # "auto" \/ past[p].renamed
        \/ \E q \in Procs : past[q].faulted \/ (Writer(q) /\ sit.asked[q].cmd = "iface")
        \/ run[p].seen \in past[p].held

\* All calls end, whatever fails and whoever holds the locks. (non-blocking locks and
\* no retries anywhere)
CallEnds == <>(\A p \in Procs : run[p].pc = "done")
=============================================================================
