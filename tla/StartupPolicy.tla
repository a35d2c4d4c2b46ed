--------------------------- MODULE StartupPolicy ---------------------------
(***************************************************************************)
(* The AC-recovery policy: two bits fields of the IT8613                   *)
(* (src/power/it8613_power.c), the administrator's saved choice and the    *)
(* helper that writes, verifies and saves it                               *)
(* (src/scripts/ugreenctl-startup.py), with several helpers, direct        *)
(* ugreenctl calls, kills, timeouts, failed file operations, power loss    *)
(* and a BIOS that rewrites the registers.                                 *)
(*                                                                         *)
(* `show` and dry runs change nothing and are left out.  DMI identity is   *)
(* fixed between boots, so the helper's second and third comparison of it  *)
(* can only fail like any other read.                                      *)
(***************************************************************************)
EXTENDS Integers

CONSTANTS
    Helpers,      \* helper processes
    Identities    \* DMI/BIOS identities the machine may boot with

Policies == {"on", "off", "restore"}
NoRecord == [policy |-> "none", identity |-> "none"]
ASSUME IdentityAssumption == Identities \subseteq STRING /\ "none" \notin Identities

VARIABLES
    regs,       \* [f2, f4]: bit 5 of 0xf2, bits 5-6 of 0xf4
    entry,      \* the state directory in its parent: "none", "visible" or "durable"
    file,       \* desired-policy.json as processes see it
    disk,       \* desired-policy.json as a power loss leaves it in the directory at least
    identity,   \* the machine's DMI/BIOS identity
    lock,       \* holder of startup.lock, or NoHelper
    run,        \* run[p]: a helper's progress
    orphan,     \* a ugreenctl child whose helper was killed
    promised,   \* history: the record the last successful `set` reported saved
    lost,       \* history: a power loss took that record with the unsynced directory
    loose       \* history: the registers were changed by anything but a verified run

vars == <<regs, entry, file, disk, identity, lock, run, orphan, promised, lost, loose>>

NoHelper == "nobody"
ASSUME HelperAssumption == NoHelper \notin Helpers

Registers == [f2 : 0..1, f4 : 0..3]
Records == [policy : Policies, identity : Identities] \cup {NoRecord}
Steps == {"idle", "open", "mkdir", "lock", "write", "f4", "readback", "save", "sync"}
Idle == [step |-> "idle", command |-> "none", wanted |-> "none", result |-> "none"]
NoOrphan == [wanted |-> "none", step |-> "none"]

\* hardware_write_attempted of the last report: what the caller is told.
Results == {"none", "ok", "nothing", "untouched", "attempted"}

TypeOK ==
    /\ regs \in Registers
    /\ entry \in {"none", "visible", "durable"}
    /\ file \in Records /\ disk \in Records /\ promised \in Records
    /\ identity \in Identities
    /\ lock \in Helpers \cup {NoHelper}
    /\ run \in [Helpers -> [step : Steps, command : {"none", "set", "apply"},
                            wanted : Policies \cup {"none"}, result : Results]]
    /\ orphan \in [wanted : Policies, step : {"write", "f4"}] \cup {NoOrphan}
    /\ lost \in BOOLEAN /\ loose \in BOOLEAN

-----------------------------------------------------------------------------
(* The registers. *)

decode_policy(r) ==
    CASE r.f2 = 0 /\ r.f4 = 1 -> "on"
      [] r.f2 = 0 /\ r.f4 = 3 -> "off"
      [] r.f2 = 1 /\ r.f4 = 3 -> "restore"
      [] OTHER -> "unknown"

F2(policy) == IF policy = "restore" THEN 1 ELSE 0
F4(policy) == IF policy = "on" THEN 1 ELSE 3

\* 0xf4 is written last, by whoever holds the controller lock.
HalfWritten ==
    orphan.step = "f4" \/ \E p \in Helpers : run[p].step = "f4"

FirstRegister(policy) == regs' = [regs EXCEPT !.f2 = F2(policy)]
SecondRegister(policy) == regs' = [f2 |-> F2(policy), f4 |-> F4(policy)]

-----------------------------------------------------------------------------
(* The helper. *)

Init ==
    /\ regs \in Registers
    /\ entry \in {"none", "durable"}
    /\ file = NoRecord /\ disk = NoRecord /\ promised = NoRecord
    /\ identity \in Identities
    /\ lock = NoHelper
    /\ run = [p \in Helpers |-> Idle]
    /\ orphan = NoOrphan
    /\ lost = FALSE /\ loose = TRUE

Goto(p, step) == run' = [run EXCEPT ![p].step = step]
Unlocked(p) == IF lock = p THEN NoHelper ELSE lock
Report(p, result) ==
    /\ run' = [run EXCEPT ![p] = [Idle EXCEPT !.result = result]]
    /\ lock' = Unlocked(p)

\* Mutant: the alias is saved as it was typed.
Normalized_typed(policy) == policy
\* `last` is an alias of `restore`.
Normalized(policy) == IF policy = "last" THEN "restore" ELSE policy

\* --force --apply set <policy>, or apply, as the service runs it.
Begin(p) ==
    /\ run[p].step = "idle"
    /\ \/ \E policy \in Policies \cup {"last"} :
             run' = [run EXCEPT ![p] = [Idle EXCEPT !.step = "open", !.command = "set",
                                                    !.wanted = Normalized(policy)]]
       \/ run' = [run EXCEPT ![p] = [Idle EXCEPT !.step = "open", !.command = "apply"]]
    /\ UNCHANGED <<regs, entry, file, disk, identity, lock, orphan, promised, lost, loose>>

Wanted(p) == IF run[p].command = "set" THEN run[p].wanted ELSE file.policy

\* The state directory is opened, made by `set` where there is none, and the record
\* read without the lock.  `apply` does nothing without a directory or a record.
Open(p) ==
    /\ run[p].step = "open"
    /\ \/ run[p].command = "apply" /\ file = NoRecord /\ Report(p, "nothing") /\ UNCHANGED entry
       \/ Report(p, "untouched") /\ UNCHANGED entry
       \/ /\ run[p].command = "set" /\ entry = "none"
          /\ entry' = "visible"
          /\ Goto(p, "mkdir") /\ UNCHANGED lock
       \/ /\ IF run[p].command = "set" THEN entry # "none" ELSE file # NoRecord
          /\ run' = [run EXCEPT ![p].step = "lock", ![p].wanted = Wanted(p)]
          /\ UNCHANGED <<entry, lock>>
    /\ UNCHANGED <<regs, file, disk, identity, orphan, promised, lost, loose>>

\* The maker syncs the parent and opens the directory.  Nobody else ever does: a
\* directory that is there already, even one whose maker failed here, was killed here
\* or is still here, is opened as it is.
SyncParent(p) ==
    /\ run[p].step = "mkdir"
    /\ \/ entry' = "durable" /\ Goto(p, "open") /\ UNCHANGED lock
       \/ Report(p, "untouched") /\ UNCHANGED entry
    /\ UNCHANGED <<regs, file, disk, identity, orphan, promised, lost, loose>>

\* Mutant: the record read before the lock is the one applied.
Lock_stale(p) ==
    /\ run[p].step = "lock"
    /\ \/ Report(p, "untouched")
       \/ /\ lock = NoHelper
          /\ run[p].command = "apply" => file.identity = identity
          /\ lock' = p
          /\ Goto(p, "write")
    /\ UNCHANGED <<regs, entry, file, disk, identity, orphan, promised, lost, loose>>

\* LOCK_NB, the record read again, its identity compared, and a first reading of
\* the registers, whose value does not matter.  Any of these may fail.
Lock(p) ==
    /\ run[p].step = "lock"
    /\ \/ Report(p, "untouched")
       \/ /\ lock = NoHelper
          /\ run[p].command = "apply" => file.identity = identity
          /\ lock' = p
          /\ run' = [run EXCEPT ![p].step = "write", ![p].wanted = Wanted(p)]
    /\ UNCHANGED <<regs, entry, file, disk, identity, orphan, promised, lost, loose>>

\* Mutant: a child that fails before it answers counts as never started.
ChildBegins_denied(p) ==
    /\ run[p].step = "write"
    /\ \/ /\ ~HalfWritten
          /\ FirstRegister(run[p].wanted) /\ loose' = TRUE
          /\ \/ Goto(p, "f4") /\ UNCHANGED lock
             \/ Report(p, "untouched")
       \/ Report(p, "attempted") /\ UNCHANGED <<regs, loose>>
    /\ UNCHANGED <<entry, file, disk, identity, orphan, promised, lost>>

\* The child ugreenctl waits for the controller lock and writes 0xf2; or it
\* refuses (an owner, a foreign chip), or is killed after 20 seconds.
ChildBegins(p) ==
    /\ run[p].step = "write"
    /\ \/ /\ ~HalfWritten
          /\ FirstRegister(run[p].wanted) /\ loose' = TRUE
          /\ \/ Goto(p, "f4") /\ UNCHANGED lock
             \/ Report(p, "attempted")
       \/ Report(p, "attempted") /\ UNCHANGED <<regs, loose>>
    /\ UNCHANGED <<entry, file, disk, identity, orphan, promised, lost>>

\* It writes 0xf4 and compares both registers.
ChildEnds(p) ==
    /\ run[p].step = "f4"
    /\ \/ SecondRegister(run[p].wanted)
          /\ \/ Goto(p, "readback") /\ loose' = FALSE /\ UNCHANGED lock
             \/ Report(p, "attempted") /\ UNCHANGED loose
       \/ Report(p, "attempted") /\ UNCHANGED <<regs, loose>>
    /\ UNCHANGED <<entry, file, disk, identity, orphan, promised, lost>>

\* Mutant: the lock is given back before the record is saved.
Readback_unlocks(p) ==
    /\ run[p].step = "readback" /\ ~HalfWritten
    /\ \/ /\ decode_policy(regs) = run[p].wanted
          /\ \/ run[p].command = "apply" /\ Report(p, "ok") /\ UNCHANGED loose
             \/ run[p].command = "set" /\ Goto(p, "save") /\ lock' = NoHelper /\ UNCHANGED loose
       \/ Report(p, "attempted") /\ loose' = TRUE
    /\ UNCHANGED <<regs, entry, file, disk, identity, orphan, promised, lost>>

\* The second reading must give the wanted policy; then `apply` is done.
Readback(p) ==
    /\ run[p].step = "readback" /\ ~HalfWritten
    /\ \/ /\ decode_policy(regs) = run[p].wanted
          /\ \/ run[p].command = "apply" /\ Report(p, "ok") /\ UNCHANGED loose
             \/ run[p].command = "set" /\ Goto(p, "save") /\ UNCHANGED <<lock, loose>>
       \/ Report(p, "attempted") /\ loose' = TRUE
    /\ UNCHANGED <<regs, entry, file, disk, identity, orphan, promised, lost>>

\* Mutant: success is reported without syncing the directory.
Save_unsynced(p) ==
    /\ run[p].step = "save"
    /\ \/ /\ file' = [policy |-> run[p].wanted, identity |-> identity]
          /\ promised' = file' /\ lost' = FALSE
          /\ Report(p, "ok") /\ UNCHANGED loose
       \/ Report(p, "attempted") /\ loose' = TRUE /\ UNCHANGED <<file, promised, lost>>
    /\ UNCHANGED <<regs, entry, disk, identity, orphan>>

\* The temporary file is written and synced, then replaces the record.
Save(p) ==
    /\ run[p].step = "save"
    /\ \/ /\ file' = [policy |-> run[p].wanted, identity |-> identity]
          /\ promised' = NoRecord /\ lost' = FALSE
          /\ Goto(p, "sync") /\ UNCHANGED <<lock, loose>>
       \/ Report(p, "attempted") /\ loose' = TRUE /\ UNCHANGED <<file, promised, lost>>
    /\ UNCHANGED <<regs, entry, disk, identity, orphan>>

\* The directory is synced, or the persistence is reported uncertain.
SyncDir(p) ==
    /\ run[p].step = "sync"
    /\ \/ Report(p, "ok") /\ disk' = file /\ promised' = file /\ UNCHANGED loose
       \/ Report(p, "attempted") /\ loose' = TRUE /\ UNCHANGED <<disk, promised>>
    /\ UNCHANGED <<regs, entry, file, identity, orphan, lost>>

-----------------------------------------------------------------------------
(* The world around it. *)

\* SIGKILL of the helper: the kernel drops its lock, nothing is reported, and a
\* running child goes on by itself.
Kill(p) ==
    /\ run[p].step # "idle"
    /\ run' = [run EXCEPT ![p] = Idle]
    /\ lock' = Unlocked(p)
    /\ loose' = (loose \/ run[p].step \in {"readback", "save", "sync"})
    /\ \/ UNCHANGED orphan
       \/ /\ run[p].step \in {"write", "f4"} /\ orphan = NoOrphan
          /\ orphan' = [wanted |-> run[p].wanted, step |-> run[p].step]
    /\ UNCHANGED <<regs, entry, file, disk, identity, promised, lost>>

\* The orphan goes on with its writes, or ends.
OrphanSteps ==
    /\ orphan # NoOrphan
    /\ \/ /\ orphan.step = "write" /\ ~HalfWritten
          /\ FirstRegister(orphan.wanted)
          /\ orphan' = [orphan EXCEPT !.step = "f4"]
       \/ /\ orphan.step = "f4"
          /\ SecondRegister(orphan.wanted) /\ orphan' = NoOrphan
       \/ orphan' = NoOrphan /\ UNCHANGED regs
    /\ loose' = TRUE
    /\ UNCHANGED <<entry, file, disk, identity, lock, run, promised, lost>>

\* ugreenctl --force --apply power startup set, without the helper; it may be
\* killed after the first register.
DirectSet ==
    /\ ~HalfWritten
    /\ \E policy \in Policies : FirstRegister(policy) \/ SecondRegister(policy)
    /\ loose' = TRUE
    /\ UNCHANGED <<entry, file, disk, identity, lock, run, orphan, promised, lost>>

\* Power is lost or the machine restarts: processes are gone, a rename that was
\* not synced may be undone, a directory whose parent was not synced may be gone with
\* all that was in it, and the BIOS may have been updated and may have rewritten the
\* registers.
Reboot ==
    /\ run' = [p \in Helpers |-> Idle]
    /\ lock' = NoHelper /\ orphan' = NoOrphan
    /\ \/ /\ disk' \in {disk, file} /\ file' = disk'
          /\ entry' = IF entry = "none" THEN "none" ELSE "durable"
          /\ UNCHANGED lost
       \/ /\ entry = "visible" /\ entry' = "none"
          /\ disk' = NoRecord /\ file' = NoRecord
          /\ lost' = (promised # NoRecord)
    /\ identity' \in Identities
    /\ regs' \in Registers
    /\ loose' = TRUE
    /\ UNCHANGED promised

Helper(p) ==
    \/ Begin(p) \/ Open(p) \/ SyncParent(p) \/ Lock(p) \/ ChildBegins(p) \/ ChildEnds(p)
    \/ Readback(p) \/ Save(p) \/ SyncDir(p)

Next ==
    \/ \E p \in Helpers : Helper(p) \/ Kill(p)
    \/ OrphanSteps \/ DirectSet \/ Reboot

Spec == Init /\ [][Next]_vars

-----------------------------------------------------------------------------
(* What the helper promises. *)

Busy == \E p \in Helpers : run[p].step # "idle"

\* What `set` reported saved survives every later power loss, kill and failed run,
\* until another `set` replaces the record, with one exception: the state directory
\* was made by a run that did not come to sync its parent, no boot has found it there
\* since, and a power loss takes it.  `set` reports success in such a directory like
\* in any other.
SuccessIsDurable ==
    (promised # NoRecord /\ ~lost) => (disk = promised /\ file = promised)

\* The lock covers the write and the save: when nobody is at work and nothing
\* but verified runs touched the registers, they hold the saved policy, however
\* the runs of several administrators interleaved.
SavedIsApplied == (~Busy /\ ~loose) => decode_policy(regs) = file.policy

\* A run that reports no attempted write has left the registers alone.
HonestReport ==
    [][\A p \in Helpers :
        (run[p].step # "idle" /\ run'[p].result \in {"nothing", "untouched"}) =>
            UNCHANGED regs /\ run[p].step \in {"open", "mkdir", "lock"}]_vars

\* What `apply` is writing is the administrator's newest saved choice, made under
\* this BIOS identity, to the end of the run: no `set` gets in between the
\* reading of the record and the last register.
AppliesNewest ==
    \A p \in Helpers :
        (run[p].command = "apply" /\ run[p].step \in {"write", "f4", "readback"}) =>
            file = [policy |-> run[p].wanted, identity |-> identity]
=============================================================================
