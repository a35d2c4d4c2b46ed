---------------------------- MODULE ThermalSweep ----------------------------
(***************************************************************************)
(* The curve of ThermalCurve exercised by a machine that warms up: the     *)
(* hwmon devices and the SATA disks are the state, one sensor at a time    *)
(* warms, drops out or comes back, and a disk parks or spins up.           *)
(***************************************************************************)
EXTENDS ThermalCurve

CONSTANTS
    Files,        \* configuration files, as functions from key to value
    CpuNames,     \* the CPU sources the machine may have
    CpuCelsius, HddCelsius, SsdCelsius   \* degrees each kind of sensor reaches

\* The parser gives every key a value of its type. No sensor is beyond what the code
\* takes for plausible, and none has the name of another kind.
ASSUME FilesAssumption == \A f \in Files : load_config(f) \in ConfigType
ASSUME SensorsAssumption ==
    /\ CpuCelsius \cup HddCelsius \cup SsdCelsius \subseteq 0..THERMAL_MAX_CELSIUS
    /\ CpuNames \cap (HddHwmonNames \cup SsdHwmonNames) = {}

VARIABLES
    config,       \* the loaded configuration
    source,       \* name of the CPU hwmon device
    cpu, hdd, ssd,\* sensor values in degrees, NoReading when absent
    drivetemp,    \* whether the kernel exposes the disk through drivetemp
    spinning,     \* whether the disk is spinning
    snapshot,     \* what read_thermal_snapshot returns for these sensors
    plan          \* and the plan evaluated from it

machine == <<source, cpu, hdd, ssd, drivetemp, spinning>>
vars == <<config, machine, snapshot, plan>>

\* Sysfs shows millidegrees; the fraction of a degree is lost in the reading.
Millidegrees(t) == IF t = NoReading THEN -1 ELSE t * 1000 + 999

Devices ==
    {[name |-> source, values |-> {Millidegrees(cpu)}],
     [name |-> "nvme", values |-> {Millidegrees(ssd)}]}
    \cup IF drivetemp THEN {[name |-> "drivetemp", values |-> {Millidegrees(hdd)}]} ELSE {}

Disks == {[rotational |-> TRUE, spinning |-> spinning, smart |-> hdd]}

Coldest(range) == {t \in range : \A u \in range : t <= u}

Init ==
    /\ config \in {load_config(f) : f \in Files}
    /\ validate_config(config)
    /\ source \in CpuNames
    /\ cpu \in Coldest(CpuCelsius) /\ hdd \in Coldest(HddCelsius) /\ ssd \in Coldest(SsdCelsius)
    /\ drivetemp \in BOOLEAN
    /\ spinning \in BOOLEAN
    /\ snapshot = read_thermal_snapshot(Devices, Disks)
    /\ plan = evaluate_plan(config, snapshot)

\* Every change of the machine is followed by a sample of it.
Sample ==
    /\ UNCHANGED <<config, source, drivetemp>>
    /\ snapshot' = read_thermal_snapshot(Devices', Disks')
    /\ plan' = evaluate_plan(config, snapshot')

\* The next higher value of a sensor's range.
Warmer(t, range) ==
    {u \in range : u > t /\ \A w \in range : w > t => u <= w}

Warm ==
    /\ \/ cpu # NoReading /\ cpu' \in Warmer(cpu, CpuCelsius) /\ UNCHANGED <<hdd, ssd>>
       \/ hdd # NoReading /\ hdd' \in Warmer(hdd, HddCelsius) /\ UNCHANGED <<cpu, ssd>>
       \/ ssd # NoReading /\ ssd' \in Warmer(ssd, SsdCelsius) /\ UNCHANGED <<cpu, hdd>>
    /\ UNCHANGED spinning
    /\ Sample

LoseSensor ==
    /\ \/ cpu # NoReading /\ cpu' = NoReading /\ UNCHANGED <<hdd, ssd>>
       \/ hdd # NoReading /\ hdd' = NoReading /\ UNCHANGED <<cpu, ssd>>
       \/ ssd # NoReading /\ ssd' = NoReading /\ UNCHANGED <<cpu, hdd>>
    /\ UNCHANGED spinning
    /\ Sample

ParkOrSpinUp ==
    /\ spinning' = ~spinning
    /\ UNCHANGED <<cpu, hdd, ssd>>
    /\ Sample

Next == Warm \/ LoseSensor \/ ParkOrSpinUp

Spec == Init /\ [][Next]_vars

-----------------------------------------------------------------------------
(* What the curve promises. *)

TypeOK ==
    /\ validate_config(config) /\ source \in CpuNames
    /\ plan \in [cpu : config.minimum_pwm..MaxPwm, system : config.minimum_pwm..MaxPwm]
    /\ cpu \in CpuCelsius \cup {NoReading}
    /\ hdd \in HddCelsius \cup {NoReading}
    /\ ssd \in SsdCelsius \cup {NoReading}
    /\ drivetemp \in BOOLEAN /\ spinning \in BOOLEAN

\* A machine that gets warmer is never given less air: one sensor warming lowers
\* neither channel, across the segment boundaries of evaluate_source and the step of
\* cpu_system_floor, unless a missing reading comes back by it and ends the failsafe.
WarmerNeverSlower ==
    [][(Warm /\ (Evaluable(config, snapshot) \/ ~Evaluable(config, snapshot'))) =>
           /\ plan'.cpu >= plan.cpu
           /\ plan'.system >= plan.system]_vars

\* The line through the vendor's points, without the code's segment cases and
\* without division: v is the curve at t when v is on or under the chord over t
\* and v + 1 is not.
Knots(th, p) == <<<<th.start, p.idle>>, <<th.mid, p.mid>>,
                  <<th.full, p.full>>, <<th.maximum, p.maximum>>>>
UnderChord(th, p, t, v) ==
    \E i \in 1..3 :
        LET a == Knots(th, p)[i]
            b == Knots(th, p)[i + 1]
        IN  /\ t >= a[1] /\ t <= b[1]
            /\ (v - a[2]) * (b[1] - a[1]) <= (t - a[1]) * (b[2] - a[2])
Under(th, p, t, v) ==
    \/ t <= th.start /\ v <= p.idle
    \/ t >= th.maximum /\ v <= p.maximum
    \/ UnderChord(th, p, t, v)
IsCurve(th, p, t, v) == Under(th, p, t, v) /\ ~Under(th, p, t, v + 1)

\* The sources that are active in a snapshot, as thresholds and a temperature.
Sources(c, s) ==
    {<<c.cpu, s.cpu>>}
    \cup (IF c.hdd_curve_enabled /\ s.hdd # NoReading THEN {<<c.hdd, s.hdd>>} ELSE {})
    \cup (IF c.ssd_curve_enabled /\ s.ssd # NoReading THEN {<<c.ssd, s.ssd>>} ELSE {})

\* The line of the CPU floor in the same way: v is on or under it at t. Below its first
\* point there is no floor.
UnderFloor(f, t, v) ==
    /\ f.enabled /\ t >= f.start_celsius
    /\ \/ t >= f.end_celsius /\ v <= f.end_pwm
       \/ /\ t <= f.end_celsius
          /\ (v - f.start_pwm) * (f.end_celsius - f.start_celsius)
                <= (t - f.start_celsius) * (f.end_pwm - f.start_pwm)
IsFloor(f, t, v) == UnderFloor(f, t, v) /\ ~UnderFloor(f, t, v + 1)

\* The CPU sources that FAN_CURVE.md:7-8 names, and those of them the code does not read
\* ("ACPI zones describe board sensors", thermal_curve.c:136-142).
DocumentedCpuNames == {"coretemp", "k10temp", "zenpower", "cpu_thermal", "acpitz"}
BoardSensors == {"cpu_thermal", "acpitz"}

\* FAN_CURVE.md: the temperature of a documented CPU source is the one the curve is given
\* (below 1 degree it is refused), except that board sensors are documented and not read;
\* the system target is the highest active CPU, HDD and NVMe result and the CPU floor, so
\* it is under none of them and is one of them; the CPU target follows its own points, a
\* custom profile drives both channels alike, and without the mandatory readings both
\* are the failsafe PWM.  Checked against the chord definitions above.
PlanIsDocumentedCurve ==
    LET c == config
        s == snapshot
        p == plan
    IN  /\ source \in DocumentedCpuNames \ BoardSensors /\ cpu # 0 => s.cpu = cpu
        /\ source \in BoardSensors => p = [cpu |-> c.failsafe_pwm, system |-> c.failsafe_pwm]
        /\ IF s.cpu = NoReading
              \/ (c.require_storage_sensor /\ s.hdd = NoReading /\ s.ssd = NoReading)
           THEN p = [cpu |-> c.failsafe_pwm, system |-> c.failsafe_pwm]
           ELSE /\ \A src \in Sources(c, s) : ~Under(src[1], c.system_pwm, src[2], p.system + 1)
                /\ ~UnderFloor(c.floor, s.cpu, p.system + 1)
                /\ \/ \E src \in Sources(c, s) : IsCurve(src[1], c.system_pwm, src[2], p.system)
                   \/ IsFloor(c.floor, s.cpu, p.system)
                /\ IF c.profile = "custom" THEN p.cpu = p.system
                   ELSE IsCurve(c.cpu, c.cpu_pwm, s.cpu, p.cpu)

\* A disk that drivetemp does not show is never read while parked: its
\* temperature cannot influence the plan (collect_smart_hdd_temperatures).
ParkedDiskNotRead ==
    (~spinning /\ ~drivetemp) => snapshot.hdd = NoReading
=============================================================================
