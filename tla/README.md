# Verification of the UGREEN NAS hardware tools

TLA+ models of `ugreenctl`, `ugreenctl-fand`, the LED holder and the AC-recovery
helper, the TLC configurations that check them on small instances, and TLAPS
proofs of the main results for every instance. Line numbers refer to the files
under `src/`.

## 1. The system

| Part | State it keeps | Operations | What is hard about it |
|---|---|---|---|
| Fan curve (`fan/thermal_curve.c`) | none (configuration and snapshot are values) | read sensors, load and validate a configuration, evaluate a plan | integer interpolation at segment boundaries, missing sensors, parked disks |
| Fan daemon (`core/fan_daemon.c`) | `target_states` (applied PWM, pending lower PWM and its start), last plan, daemon lock, state file | one loop: sample, hold back lower PWM, run a child per changed target, publish, sleep | children that fail half way or outlive the daemon, the wall clock, targets skipped by a failure, operators at work at the same time |
| Fan transaction (`fan/it8613_hwmon.c`, `fan/it8613_direct.c`, `superio/it86x.c`, per-model maps) | the IT8613's PWM outputs, `/run/ugreenctl-it8613.lock` | `fan set <target> <pwm>` through hwmon, else through the ports | several processes, kernel drivers that come and go, owner checks before the lock, partial writes |
| AC-recovery policy (`power/it8613_power.c`, `scripts/ugreenctl-startup.py` and its service) | registers 0xf2 and 0xf4, `desired-policy.json`, `startup.lock` | `set`, `apply`, direct `power startup set` | kills and power loss between registers, rename and sync; two helpers; a BIOS that rewrites the registers |
| LED holder (`led/led_service.c`, `led/led_cs201x.c`, `core/led_daemon_main.c`) | the CS2011's lights and FLOW, the baseline to give back, socket, the light an identify session saved | open and take over, read, apply, begin and end identify, exit | disconnects, stalls and kills in a session, commits that fail half way, a restore that fails, compatibility clients that the owner check takes for foreign owners |
| LED commands (`led/led.c`, `led_sysfs.c`, `led_protocol.c`, `core/hardware_cli.c`) | the MCU's or the LED class driver's lights | status, set, identify | partial writes, restore order, signals, another owner of the controller |
| Disk mapping (`disk/disk.c`, `disk/firmware_profiles.c`) | none; reads `/sys` | scan, list, locate | disks plugged and pulled during the scan, names reused, add-in cards that look like the factory's controllers |
| RTC wake (`power/rtc_wake.c`) | `wakealarm` | get, set (clear, check, write, check), clear | a failure after the clear loses the old alarm, time passes meanwhile |
| Wake-on-LAN (`network/`) | per-interface `wolopts` | get, set: all mapped interfaces or a named one | one write after the other without rollback, interfaces renamed meanwhile |
| Command line and plugins (`core/main.c`, `core/loader.c`, `core/identity.c`, `core/wake_cli.c`, `models/`) | none | select a plugin by exact DMI identity, gate writes by `--apply` and `--force` | order of the gates |

Interaction: the fan daemon calls the curve as a function and the command line
as a child process; the child, an operator's `ugreenctl` and the startup
helper's child meet at the controller lock; the service and the administrator
meet at `startup.lock`; native LED clients and the compatible tool meet at the
holder's socket; `disk locate` scans, then runs an
identify on the bay's light. The hazards of each part, at their lines, are in
`PROJECT.json`.

What makes each modelled part correct:

* curve: the plan is the documented curve, the CPU floor under the system fans
  included, and never falls when the machine warms;
* transaction: a controller has one writer, a request is never mixed with
  another, success means all outputs are set, every call returns;
* daemon: the chip holds what it believes it applied or what a failed child of it
  tried, a successful cycle leaves no fan below its plan, a fan slows down only
  after the delay, and it does come down; what failed children, orphans and
  operators left is excepted as section 3 says;
* AC recovery: what `set` reported saved is durable once the state directory is,
  the saved policy is the applied one, and no report denies a write that happened;
* LED holder: between clients the lights are what the last finished request left,
  a clean exit gives back lights and FLOW, a client that sends nothing more is
  dropped, a stop ends the holder;
* LED commands: an identify leaves the lights as it found them or says that it
  did not; a `set` reports what the lights show;
* disks: a listing is the bus of one moment, a light belongs to the one disk of
  its bay, `locate` flashes the bay of the disk that was asked for;
* wake: a reported change holds, a failed one leaves old or asked values only,
  a `get` reports what was so, an armed alarm rings on time, every call ends.

## 2. Modules

| Module | Models | Correspondence |
|---|---|---|
| `ThermalCurve` | `fan/thermal_curve.c` | operators with the C functions' names. A snapshot's `cpu` is the peak the curve uses. `load_config` takes the parsed keys of a file as a function |
| `ThermalSweep` | a machine around the curve | state: sensors, a disk, a configuration; actions warm, lose a sensor, park a disk, each followed by one sample |
| `FanChip` | what one `fan set` does to the chip, seen from outside | abstract: one step that drives a prefix of the target's outputs |
| `It8613` | the `fan set` transaction | `proc[p].step` is the position in `main` / plugin / `it8613_hwmon_*` / `it86x_*`; `lock` is the flock; `driver` the kernel's owner. The models' channel maps are the constant `Outputs` |
| `FanDaemon` | `core/fan_daemon.c` | `pc` and `idx` are the position in the loop, `hold` is `target_states` with `pending_since` as an age, `status` the state file's status line. The child is a step of `FanChip`, which `It8613` implements |
| `StartupPolicy` | the AC-recovery policy | `run[p].step` is the position in `execute()`; `file` is the record processes see, `disk` what a power loss leaves of it in its directory, `entry` whether that directory is there and its parent synced |
| `LedHolder` | the holder and its clients | `h` is the holder's position and what it holds, `job` the commit in progress (one register write per step), `cl[c]` a client |
| `DiskTopology` | `disk/firmware_profiles.c` and the rules of `disk.c` | firmware tables and controller roles as operators from a machine to bays |
| `DiskScan` | `ugreenctl_disk_scan` | one step per directory listing, per disk read, per recheck; hot-plug steps in between |
| `LedSession` | one LED command | `session.pc` is the position in `led_execute` / `ugreenctl_led_apply` / `ugreenctl_led_identify`; one step per command sent or attribute written |
| `HardwareCli` | `core/hardware_cli.c` | composes `DiskScan` and `LedSession`: gates, options merged into patches, `disk locate` as a scan followed by a session |
| `Wake` | `core/wake_cli.c`, `power/rtc_wake.c`, `network/` | `run[p]` is one command's position; one step per access to the RTC or an interface |
| `ThermalCurveProofs`, `ThermalSweepProofs`, `FanDaemonProofs`, `It8613Proofs`, `StartupPolicyProofs`, `LedHolderProofs`, `WakeProofs`, `HardwareCliProofs` | theorems about the module each is named after | see section 5 |
| `MC*` | constants for TLC | |

`FanDaemon` extends `ThermalCurve` and `FanChip`; `It8613` instantiates
`FanChip` twice, once for its types and once, with a refinement mapping, as the
specification it implements. `DiskScan` extends `DiskTopology`; `HardwareCli`
extends `DiskScan` and `LedSession`. History variables only record what
properties talk about, and no guard reads them: `disturbed`, `tried`, `steady`,
`skipped` (daemon), `before` (transaction), `promised`, `lost` and `loose`
(startup), `kept` and `unsure` (holder), `then` and `looked` (scan), `first` and
`touched` (session), `past` (wake).

Names ending in a suffix after `_` that a comment marks as a mutant (such as
`Held_restarts`) are deliberately wrong variants. They are used by no
specification; `PROJECT.json` pairs each with the definition it replaces and
the property it must break.

## 3. Runs

| Run | Instance | Shows |
|---|---|---|
| `sweep` | every stock profile, the default custom file and one at the edge of validation; CPU at 0, 1, 24..97, 125 degrees, three temperatures for disks and NVMe | the plan is the documented curve, with the CPU floor under the system fans, defined by chords instead of segments and division (`PlanIsDocumentedCurve`, which states the one exception, board sensors); warming never slows a fan (`WarmerNeverSlower`), unless it brings back a mandatory reading and so ends the failsafe; a parked disk is not read |
| `fan_set` | two processes, one pair of outputs, PWM below, at and above the floor, a model that requires `--force`, drivers changing at will, kills | one writer (`OneWriter`), every transaction is one step of `FanChip` (`ActsAtomically`), success means every output is set, every call returns |
| `daemon_faults` | one target of two outputs, delay 1 s, every fault incl. an orphan, an operator, clock steps, `--once`, a protected model | `AppliedIsHardware`, `NeverBelowPlan`; once faults cease, `applied_pwm` settles at the plan, and with it the chip of every target that no failed child, orphan or operator wrote since it was last set (`Settles`) |
| `daemon_downshift` | two targets, delay 3 s, interval 2 s, failing children, monotonic clock | `NeverBelowPlan`, `NoEarlyDownshift` |
| `startup` | two helpers, two BIOS identities, a state directory that is there or not | `SuccessIsDurable` (except for a directory never synced), `SavedIsApplied`, `AppliesNewest`, `HonestReport` |
| `led_holder` | one light, a native and a compatibility client, any number of requests each, failing port accesses and system calls, foreign owners, stop at any point, a light that blinks under autonomous effects | no identify effect and no half-written light outlives its connection (`RestoredBetweenClients`); a clean exit restores (`ExitRestores`); a client that sends nothing more is dropped (`StalledClientDropped`), a stop ends the holder (`StopEnds`) |
| `wake` | three processes, two or three interfaces, one alarm; 35 situations: changes against changes and reads, renamed interfaces, failing accesses, clocks that differ, odd hardware | `ReportHolds`, `FailureLeaves`, `GetIsTruthful`, `WakesOnTime`, `CallEnds` |
| `hardware_cli` | every connector of seven models with and without an add-in card; up to three hot-plug events in a scan, drives that become ready late and reused names among them; twins, namespaces and calibrations; every LED request on both backends, quiet and disturbed | a listing is a moment (`Snapshot`), lights belong to lone disks (`LedIsOwnBay`), caution does not refuse everything (`UsefulMap`), `LocateRightBay`, `LedOutcome`, `SetOutcome`, `QuietSucceeds`, `CommandEnds` |

Runs that are expected to fail show where a document and the code disagree:

| Run | Document | The code |
|---|---|---|
| `fan_set_owner` | `README.md:294-295`, direct access refuses while an owner is active | the owner is checked before an unlimited wait for the lock and not again (it86x.c:90) |
| `daemon_failsafe` | `docs/FAN_CURVE.md:90-92`, the failsafe PWM is written | a child that fails half way leaves `applied_pwm` stale; if the failsafe equals it, nothing is written (fan_daemon.c:417) |
| `daemon_skip` | `docs/FAN_CURVE.md:92-93`, a lower PWM must remain desired for the delay | the `break` (fan_daemon.c:420) keeps later targets' timers running unseen |
| `led_holder_refuses` | `docs/LED_CONTROL.zh-CN.md:189` and `docs/ALL_MODELS_LED_EVIDENCE.zh-CN.md:328-330`, only the operation that meets a changed machine or owner is refused | a failed check clears `confirmed`, and a request is refused on that flag before any check could set it again: until a running identify is ended, or the holder exits, operations are refused although every check would succeed (led_service.c:150) |

`NoEarlyDownshift` is the part of the `daemon_skip` sentence that does hold:
with a monotonic clock, and except for targets a failed cycle skipped. A step of
the wall clock also ends the hold-down, because `time(NULL)` and an unsigned
difference are used (fan_daemon.c:302-307); no run is kept for this, the model
behaves this way.

The sensor names `cpu_thermal` and `acpitz`, which `docs/FAN_CURVE.md:7-8` lists as
CPU sources, are not known to `is_cpu_hwmon` (thermal_curve.c:136-142): a machine with
only these runs on the failsafe PWM. `PlanIsDocumentedCurve` states this exception to the
document, and what the plan then is; all other names listed there must be read.

`PlanIsDocumentedCurve` also asks for the CPU floor under the system fans. With the
shipped points the system curve of the CPU itself is nowhere below that floor, and a
file cannot set the floor (thermal_curve.c:640-669): in the shipped profiles the
floor decides no plan, and only a floor that is higher than the code's definition says,
as in the mutant, would show in the run. The theorem of section 5 covers every valid
floor, so also one that does decide.

Further behaviour of the code that the models show and the properties leave out:

* An RTC `get` during a `set` may see no alarm, between clear and arming.
* The automatic Wake-on-LAN readback compares only the magic-packet bit: `off`
  ignored on an interface that wakes on other packets is reported as verified.
  A named interface's readback compares all flags.
* The readback of all interfaces selects them anew, and is about those: an
  interface that was written, or should have been, and is no longer selected is
  not read. `ReportHolds` speaks of the interfaces the readback selected.
* Interfaces are read and written by name. A selected name that is given to
  another interface while the readback runs, and the name of a single interface
  that is taken away and given back between two comparisons, are not noticed
  (`past[p].rebound`); `ReportHolds` excepts these and nothing else.
* A reading of 126 to 1000 millidegrees is taken for whole degrees and rejected
  (thermal_curve.c:126): a disk that drivetemp shows just below 1 degree has no
  reading, and warming can then end the failsafe plan and slow the fans down.
* A `get` of all interfaces takes no lock; a change of a single interface in its
  middle can make it report a policy that all never had together.
* A compatibility client waiting in the holder's backlog counts as a foreign
  owner of the session that is served: an identify then cannot be ended, and the
  holder exits with an error and the identify effect left on.
* A client that asks again within each 75 seconds is served for ever, and nobody else:
  the deadline is that of one transfer (led_service.c:136-142), and INFO and READ may be
  repeated without limit. `StalledClientDropped` speaks of clients that stop sending.
* A target that an operator or an orphaned child wrote, or whose last child failed, keeps
  what they left for as long as the plan stays at `applied_pwm` (fan_daemon.c:414-421).
  `Settles` and `NeverBelowPlan` except it (`Untouched`) until the daemon writes it.
* The parent of the state directory is synced by the run that makes the directory and by
  no other (ugreenctl-startup.py:138-143). When that sync fails, or the run is killed
  before it, the next `set` finds the directory, saves and syncs the record in it and
  reports success, and a power loss may take both. `SuccessIsDurable` excepts this loss
  alone (`lost`); `docs/AC_RECOVERY_PERSISTENCE.zh-CN.md:80-81` promise the record's
  fsync and say nothing of the directory's parent.
* The last listing of a scan compares names, and identities only of disks that were
  read (disk.c:1307, 1343). A listed name is read for the last time when the names
  are verified: a drive that becomes ready after that, or takes over the name, is not
  noticed, and a light may be given to a disk that now shares its bay with it.
  `disk.c:1497-1499` say that a new NVMe drive with incomplete attributes triggers a
  rescan before an old occupant of a shared bay can be located; that is so under a
  new name, and under a listed one only until that last look. `LedIsOwnBay` and
  `LocateRightBay` therefore speak of listed names as they were last looked at, and of
  all other names as they are (`LastLook`, `Inspected`); no drive is excepted otherwise.
* A disk that cannot be read is not considered for bay sharing.
* A blinking GPIO light's `brightness` reads back as what the LED shows at the moment
  (led_sysfs.c:231), and the restoration compares it (led_sysfs.c:497). The model takes
  the configured value (section 4): it does not show a restoration that is reported as
  failed because the light was in its dark phase.

### Bounds

`MaxClockStep` and `MaxOrphans` bound the clock steps and the children that
outlive a daemon; ages stop counting at `Delay + MaxClockStep`, beyond which no
comparison can tell them apart, so this cap loses nothing. Two processes are
enough to contend for a lock and to be killed as holder and as waiter. Two
outputs are enough for a partial write, two targets for one to starve the
other, three readings (`daemon_downshift`) for a desired PWM that goes down, up and to
the failsafe, or down twice; `Settles` is checked with two.
The delays (1 and 3 s) are shorter and longer than the interval (2 s).
`UnsignedSpan` stands for 2^64 and only has to exceed the longest delay and
step. `ThermalSweep` and the registers of `StartupPolicy` are not bounded
beyond their real ranges (0..125 degrees sampled as above; 3 bits).

`LedHolder`: commits write one light at a time and the session saves one light,
so a single light reaches every partial write; each client process runs once,
and two let one wait while the other is served. One holder lifetime; `Init`
covers the stale socket of a killed predecessor. Requests are not counted. The main run
starts from a blinking light under autonomous effects, where all of the state has to be
given back; `led_holder_refuses` also from a steady one without them. `StartupPolicy`:
the helpers are interchangeable, each may run any command, and the run uses that
symmetry; it checks safety only. `Wake`: at most four renames
in a behaviour (two names exchanged through a third, or one that leaves and comes
back twice), only while a call runs;
three processes are two writers and a reader; `ticks` bounds the seconds, and
`Far` is an alarm beyond them. `HardwareCli`: `moves` bounds hot-plug events in
one scan (a disk pulled and another put under its name needs two; a third lets the
new one become ready only after its name was verified, without which `LedIsOwnBay`
would hold of the drives there are and not only of those last looked at),
`DISK_MAX = 3` is reached and exceeded by four names, `MaxTicks = 2` flashes
show both phases of a LED-class identify. The situations of the MC modules are
chosen, not all combinations: every one starts from a state the hardware can
be in.

Deadlock is not checked where everything may properly be over: the sweep when
all sensors are gone or at their maximum, the holder after its exit, and `wake`
when all calls ended. It is in all other runs.

### Fairness

`It8613`: each process takes its next step (weak fairness; a running process is
scheduled), and waiting for the lock is strongly fair, which is what the
kernel's flock queue gives: a waiter is woken when the holder closes. Calls,
kills and driver changes are not fair. `FanDaemon`: each of the daemon's steps
and the passing of a second are weakly fair, and a started child ends one way or
the other, which `EveryCallReturns` supports. Starting, stopping, failing and
interfering are not fair; `Settles` only speaks of runs in which they
eventually cease, on a model that is not protected. `LedHolder`: the holder's
own steps, time-outs included (every wait of it has a deadline or ends with the
signal), and nothing of a client; `StalledClientDropped` needs no more, because
`serve_requests` stops waiting for a client after 75 s. `Wake`: each process's steps
(locks are tried without waiting, nothing is retried). `HardwareCli`: the command's own steps;
hot-plug, signals and other owners are not fair.

## 4. Abstractions

* Text (configuration syntax, sysfs, JSON, error messages) is replaced by what
  it parses to; a parse failure is a failed read or a configuration that does
  not load.
* `FanDaemon` starts after the configuration, the DMI route and the lock were
  accepted; a start that fails changes nothing.
* Sampling is one step: sensors read at slightly different times only give
  another snapshot.
* A write that is accepted but not confirmed, one that is refused, and a killed
  process are all possible at every register write.
* `StartupPolicy`: a failed reading, an unsafe path, a busy lock and a changed
  identity before the write are one outcome, `untouched`; after the write they
  are `attempted`. The identity only changes at a reboot. A direct
  `power startup set` is one step that may stop after the first register.
* `LedHolder`: a light's seven registers are `body` (six, written in order) and
  `mode`, written last. The DXP2800 GT's holder only.
* `DiskTopology`: seven models, which have every way a SATA bay gets its light. Left out
  are the rules by PCI address (disk.c:1191-1207, DXP480T Plus and iDX6011 Pro), the
  second and third M.2 slots, which have no light, and the DXP2800's choice among its
  board versions (disk.c:340-353, 746-751). The wiring the firmware's tables are compared
  with is recorded by users for the DXP4800, DXP6800 Pro and DXP8800 Plus (`profiles`,
  disk.c:33-52). For the DXP4800 Plus and DH4300 Plus (`FactoryOrder`) and the two GTs
  (`Layout`) there is no such record: what is checked is that the light is the one the
  firmware's own table means, whatever is plugged in. A machine has its
  factory's SATA controllers (`Controllers`) and perhaps one card's (`Built`); a
  SATA place is a port its controller has (`Fits`), an NVMe place has no port.
* `DiskScan`: reading one disk, matching its rule and listing a directory are
  atomic. A pulled disk does not return to the same name and place with the
  same serial within one scan.
* `LedSession`: colours, brightness and timings keep what a command can tell
  apart. The LED class driver is the DH4300 Plus's: no blink set, brightness 0
  or 1; a blinking LED's brightness reads back as configured, one that is off has
  brightness 0, and only one that blinks has a timing (`Showable`). Every LED profile
  is experimental, so that `--apply` needs `--force`. The DXP2800 GT's lights go
  through the holder and are not in this module.
* `Wake`: selecting interfaces is one step, as is checking an interface's
  identity and index. The unit of time is abstract: `Margin` stands for 60 s, a
  non-zero `skew` for a difference of more than the tolerated 5 s. Software that
  writes the RTC or `wolopts` outside the locks is not modelled.

## 5. Proofs

TLAPS checks them for every value of the constants: any number of processes,
clients, outputs, lights, interfaces, situations and configurations. What they
assume are the named ASSUMEs of the modules, each of which TLC evaluates in a
run:

* `ConfigAssumption`, `FilesAssumption`: what was loaded has the fields of a
  configuration; the daemon's passed `validate_config`, which is where it starts.
* `OutputsAssumption`, `RouteAssumption`, `ChipAssumption`: a target has at least
  one output, the maps name none twice and share none.
* `PwmAssumption`, the two `SensorsAssumption`s: PWM values are bytes, an
  operator's passed the floor of 40, readings are integers in the range the code
  accepts, and no CPU sensor is taken for a disk.
* `BoundsAssumption`: the bounds of the daemon's model are numbers.
* `ProcsAssumption`, `HelperAssumption`, `ClientsAssumption`, `IdentityAssumption`:
  "nobody" and "none" are no process, client or BIOS identity.
* `LightsAssumption`, `FirstAssumption`: the controller has a light, and registers
  hold what the hardware can.
* `WakeAssumption`: names are finitely many, a device has one name at a time
  (`OneName`), and `Far` lies beyond the time that passes.
* `DiskAssumption`: names, siblings and serial numbers are of the right sorts, an
  NVMe name is a namespace of some drive, the capacity is a number, a card's
  controllers are finitely many SATA controllers at addresses of their own, and
  disks are plugged where there is a connector.
* `LedAssumption`, `CliAssumption`: an identify lasts at least one tick; a situation
  has a well-formed machine, a light in a state it can show, and a request the
  parser can produce (targets are distinct, hardware_cli.c:47-48).

`ThermalCurveProofs`
* `PlanInRange`: every plan lies in `minimum_pwm..255`. From bounds of
  `interpolate` (which rest on two facts about truncating division), then each
  source, the floor, and their maximum.
* `PlanMonotone`: a snapshot at least as warm everywhere gives at least the
  PWM. Inside a segment by monotonicity of the product and of division, across
  segments through the shared end points.

`ThermalSweepProofs`. The invariant `IInv` says that the snapshot is the sampling
of the sensors' present state and the plan its evaluation.
* `TypeCorrect`, `ParkedDiskNotReadAlways` follow from it and `PlanInRange`.
* `WarmerNeverSlowerAlways`: warming raises every reading of the sampled snapshot,
  then `PlanMonotone`. The first form of the property, with no condition on the
  failsafe, was refuted by this proof: see the disk below 1 degree in section 3.
* `PlanIsDocumentedCurveAlways`: for each source, that the quotient of the code
  is the greatest number under the chord of its segment and under no chord of
  another, and the same for the line of the CPU floor; then that the maximum of the
  sources and the floor inherits it: it is under none of them and is one of them.

`It8613Proofs`. `IInv == TypeOK /\ OneWriter /\ GateInvariant /\ WriteInvariant`.
`GateInvariant`: beyond the gate a request has a target and a PWM at or above the
floor. `WriteInvariant`: the chip differs from what it was at the lock (`before`)
by exactly the prefix of outputs the lock's holder has got through, and from
nothing when the lock is free. Without it neither success nor a kill says
anything about the outputs.
* `OneWriterAlways`, `SuccessMeansAllOutputsSetAlways`, `TypeCorrect`.
* `Refinement`: `Spec => ActsAtomically`. The mapping shows `chip` while the lock
  is free and `before` while it is held, so that all of a transaction happens at
  its release: initial states map to initial states, a release (success, failure
  or kill) is one `FanChip` step by `WriteInvariant`, every other step a stutter.

`FanDaemonProofs`
* `TypeCorrect`: `Spec => []TypeOK`, using `PlanInRange` for the plan and the
  requests: no child is ever asked for a PWM its floor would refuse.
* `AppliedIsHardwareAlways`, `NeverBelowPlanAlways`: the inductive invariant is
  `IInv == TypeOK /\ AppliedIsHardware /\ LoopInvariant`. `NeverBelowPlan`
  alone speaks of the end of the loop only; `LoopInvariant` adds that the
  targets already passed are met and that a child carries exactly the desired
  PWM (a held-back PWM is never written, because it is the applied one). A child that
  fails leaves each output as it was or as it was asked, which is why `tried` has to
  collect those PWMs: several failures in a row may leave a pair with two of them. The
  frame lemmas about `FanSet` need that targets share no output.
* `NoEarlyDownshiftAlways` (assuming `MaxClockStep = 0`): the invariant
  `TimerInvariant` says that the timer of a pending PWM is not older than the
  desire for it, and that, once the loop looked at the target, what is pending is
  what is desired.

`StartupPolicyProofs`. `IInv` adds to `TypeOK` and `AppliesNewest`: who is past the
lock holds it (`LockInvariant`), carries a policy and has reported nothing yet
(`RunInvariant`), the record between rename and sync is that run's
(`SyncInvariant`), and registers that only verified runs touched hold the policy
of the run that verified them, or the saved one (`RegisterInvariant`).
* `TypeCorrect`, `SavedIsAppliedAlways`, `AppliesNewestAlways`.
* `SuccessIsDurableAlways`: what is promised is what the disk holds at least; a
  second induction over `promised` and `disk`. Only a reboot that finds the directory
  `visible` but not `durable` breaks it, and that one sets `lost`.
* `HonestReportAlways`: an action property, one case per step that reports.

`LedHolderProofs`. `Typed` are the types; `Tracked` says, for each place the holder
can be in, on which lights the registers and `kept` agree: on all while it waits,
on all but the identified one in a session, on all but the written one during an
APPLY, and that the session's saved value, or the commit's old one, is what that
light is to show. `RestoredBetweenClients` speaks of waiting alone and is not
inductive: what a disconnect brings back depends on what the session saved.
* `TypeCorrect`, `RestoredBetweenClientsAlways`.
* `ExitRestoresAlways`: an action property; only the last step of the exit ends
  with success, and it compares before it does.

`WakeProofs`. `IInv == Sane /\ Mutex /\ Clock /\ \A p : Good(p)`. `Mutex` says that
the lock of a kind is held by exactly the changes past taking it; `Clock` that an
alarm of this program lies ahead on an RTC that keeps system time; `Good` follows
one change through its steps: what the alarm or the flags may be after each of
them, that a selection is still the one that would be made now unless something
was renamed, and which of its interfaces already have the policy.
* `TypeCorrect`, `ReportHoldsAlways`, `FailureLeavesAlways`, and `WakesOnTimeAlways`
  from `Clock`. `ReportHolds` first exempted less: TLC's bound of renames hid
  that a name can leave an interface and come back between two comparisons, and
  the proof did not go through until that case was stated.
* `GetIsTruthfulAlways` needs a second invariant about readers, which hold no lock:
  for each policy still possible, either all devices had it at one moment of the
  read or one not read yet does not have it (`Truthful`). A write of a change
  keeps this because changes exclude each other and go through the same selection
  in the same order; one that began under other names is covered by `Stands`.

`HardwareCliProofs`. Two invariants, for the two halves of the module, and one more
for what the scan says of bays.
`ScanIInv == ScanTyped /\ Remembered /\ Kept /\ Reported`: all that is or was on
the bus is remembered, and a disk that was not there when the listing ended cannot
be there later, because a pulled disk does not return to its name and place within
one scan (section 4). An equal second reading therefore shows that the disk was
there at the moment the listing ended. `LedIInv == LedTyped /\ Positions /\ Purpose /\ History`: the positions in
the targets and commands, why a session writes (to set, to flash or to restore),
and which lights it has touched since it read them.
* `SnapshotAlways`: from `Kept`, one case per place the scan can be in.
* `CommandTyped`: `TypeOK` of the whole command, from both.
* `LightsAsFound`: `LedOutcome`; an identify that reports success compared
  every light it touched with what it had read, one that fails says so.
* `SetShows`: `SetOutcome`. `SetIInv` says how far a `set` has come: the first
  `Completed` targets have the merged patch, those behind the next one are as they
  were found, whatever happens to the one between. That the merge gives every
  option its last word (`MergedSays`) is an induction over the options: the
  library's induction theorems take a predicate, which the provers cannot
  instantiate, but `<` on the naturals is well-founded on sets, and from that
  follow `Least` and an `Induction` over sets.
* `QuietAlways`: `QuietSucceeds`. `QuietIInv` says that while nobody disturbs the
  command, the commands still to be sent lead from what the target shows to a light
  that has all of the patch, or is the saved one (`Leads`, a chain of `Perform`s).
  `McuLeads`, `SysfsLeads` and `SysfsRestoreLeads` show this of each list of
  commands when an apply begins: on the MCU a blink turns the mode, on an LED of the
  class brightness and trigger change each other, so the order counts.

* `OwnBayAlways`: `LedIsOwnBay`. First the tables, for every machine a card may have
  been added to: `Wired` says which bays a place is wired to (`Wired4800`,
  `Wired2800GT` and so on, from the recorded evidence where there is one, else from the
  firmware's rows); the code's index of a port is the factory's ATA order when the
  controllers are the factory's and 0 as soon as one more is there (`Index4800`, `Index6800`, ... from counting the
  ports); hence a rule that applies gives a place nothing but the bay it is wired to
  (`Placed`, `RulesThere`), and on the DXP2800 GT a light only to a U.2 drive. Then the
  scan: `MapIInv == Fitting /\ Placing /\ Looking /\ Finish`. `Fitting`: the
  machine is the factory's, with a card or without, and disks are at ports that exist.
  `Placing`: a disk that was read has its bay's light or none (`Bayed`), and where all
  routing is known (`Sure`) certainly the former. `Looking`: a listed name that was last
  looked at with a disk that could be read has been read as that disk (`InspectedRead`).
  `Finish`: the report is what the conflicts leave. So another inspected disk in
  the bay of a mapped one was read too, and takes its light away: at the same place
  where a bay has one connector, by the same light on the DXP4800 GT, whose bay may be wired twice, or as a SATA disk of unknown routing
  on the DXP2800 GT (`NoNeighbour`).
* `MapAlwaysUseful`: `UsefulMap`. Without a foreign controller all routing is known,
  every disk has its bay's light, and one that is alone in its bay conflicts with none.
* `LocatesRightBay`: `LocateRightBay`. `Chosen` keeps the light of a session tied to the
  resolved disk; another answer to the same name, serial or slot would be an entry of
  the report, so the same one, and the names of one entry are the namespaces of one
  drive (`GroupNames`).

These three hold for the seven layouts `DiskTopology` has. For three of them the wiring
is users' evidence, so that `OwnBayAlways` says something of the firmware's tables; for
the other four it is the tables' own, and the theorem is about the code that applies them:
roles of controllers, ports counted, conflicts, hot-plug, added cards. A calibration file
is trusted: with one, only that no light is given twice is proved.

Each inductive invariant was checked with TLC, on the instances of its run, before
it was proved.

Only model-checked: liveness (`EveryCallReturns`, `Settles`, `StalledClientDropped`,
`StopEnds`, `CallEnds`, `CommandEnds`), which this prover cannot do.

## 6. Not modelled, and the plan

Left out for good: `ec/ec.c` (one test for a file), packaging and evidence
scripts, status reads of fans and power, option and argument syntax, printed
text and JSON.

Not modelled yet: which plugin a DMI identity selects (`core/loader.c`,
`core/identity.c`); the holder over GPIO lines (`led/led_gpio.c`); the
short-lived direct CS2011 session; the N76 controller, through its driver and
directly, with its unknown readback.

What would come next: `PluginSelect`, and the GPIO holder as a second controller of
`LedHolder`.
