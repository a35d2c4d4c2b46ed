---------------------------- MODULE ThermalCurve ----------------------------
(***************************************************************************)
(* The pure part of the fan policy (src/fan/thermal_curve.c): how raw      *)
(* sensor values become a snapshot, how a configuration file becomes a     *)
(* validated configuration, and how a configuration and a snapshot become  *)
(* the two PWM values of a plan.  Temperatures are whole degrees; -1 is    *)
(* the code's "no reading".                                                *)
(***************************************************************************)
EXTENDS Integers, Sequences

THERMAL_MAX_CELSIUS == 125
MinManualPwm == 40          \* IT8613_MIN_MANUAL_PWM, also the lowest minimum_pwm
MaxPwm == 255
NoReading == -1

maximum_of(left, right) == IF left > right THEN left ELSE right

-----------------------------------------------------------------------------
(* Sensors. *)

\* A hwmon value is normally in millidegrees; up to 1000 it is taken as degrees.
\* A value the parser refuses is no reading at all.
read_temperature_celsius(value) ==
    LET celsius == IF value > 1000 THEN value \div 1000 ELSE value
    IN  IF value < 0 \/ value > 200000 \/ celsius > THERMAL_MAX_CELSIUS
        THEN NoReading ELSE celsius

CpuHwmonNames == {"coretemp", "k8temp", "k10temp", "zenpower"}
HddHwmonNames == {"drivetemp"}
SsdHwmonNames == {"nvme", "nvme-pci"}

\* The hottest of a set of readings, NoReading when there is none.
Hottest(readings) ==
    LET known == readings \cup {NoReading}
    IN  CHOOSE r \in known : \A other \in known : other <= r

HottestOf(devices, names) ==
    Hottest(UNION {{read_temperature_celsius(v) : v \in d.values} :
                       d \in {dev \in devices : dev.name \in names}})

\* A SATA disk answers SMART READ DATA only when it is spinning, so a parked
\* disk contributes nothing and is never woken.  `smart` is the temperature
\* the attribute table yields: attribute 194, else the last 190.
\* Mutant: the power-mode check is skipped and a parked disk is read.
SmartHdd_wakes(disks) == Hottest({d.smart : d \in {disk \in disks : disk.rotational}})

SmartHdd(disks) ==
    Hottest({d.smart : d \in {disk \in disks : disk.rotational /\ disk.spinning}})

\* The kernel's drivetemp readings win; SMART is only the fallback.  An
\* unreadable hwmon root leaves the snapshot NoSnapshot.  `cpu` is the peak that
\* fan_curve_cpu_celsius gives the curve; the first CPU reading, which is only
\* displayed, comes from the same files.
read_thermal_snapshot(devices, disks) ==
    LET drivetemp == HottestOf(devices, HddHwmonNames)
    IN  [cpu |-> HottestOf(devices, CpuHwmonNames),
         hdd |-> IF drivetemp < 0 THEN SmartHdd(disks) ELSE drivetemp,
         ssd |-> HottestOf(devices, SsdHwmonNames)]

NoSnapshot == [cpu |-> NoReading, hdd |-> NoReading, ssd |-> NoReading]

-----------------------------------------------------------------------------
(* Configuration. *)

Thresholds(a, b, c, d, e) == [stop |-> a, start |-> b, mid |-> c, full |-> d, maximum |-> e]
Points(a, b, c, d) == [idle |-> a, mid |-> b, full |-> c, maximum |-> d]
CpuFloor(a, b, c, d) ==
    [enabled |-> TRUE, start_celsius |-> a, end_celsius |-> b, start_pwm |-> c, end_pwm |-> d]
NoCpuFloor ==
    [enabled |-> FALSE, start_celsius |-> 0, end_celsius |-> 0, start_pwm |-> 0, end_pwm |-> 0]

\* ugreenctl_fan_curve_config_defaults
config_defaults ==
    [profile |-> "custom", interval_seconds |-> 10, downshift_delay_seconds |-> 60,
     minimum_pwm |-> 64, failsafe_pwm |-> 255,
     require_storage_sensor |-> FALSE, allow_unvalidated_writes |-> FALSE,
     hdd_curve_enabled |-> TRUE, ssd_curve_enabled |-> TRUE,
     cpu |-> Thresholds(50, 55, 75, 80, 90),
     hdd |-> Thresholds(40, 45, 50, 55, 70),
     ssd |-> Thresholds(45, 50, 60, 65, 70),
     pwm |-> Points(64, 128, 204, 255),
     system_pwm |-> Points(64, 128, 204, 255),
     cpu_pwm |-> Points(64, 128, 204, 255),
     floor |-> NoCpuFloor]

StockProfiles == {"stock-4600", "stock-4800", "stock-4800s", "stock-4800plus",
                  "stock-480tplus", "stock-6800pro", "stock-6800plus", "stock-6800"}
profile_is_valid(profile) == profile \in StockProfiles \cup {"custom"}

\* The points apply_stock_profile installs, one row per profile.
StockRow(cpu, hdd, ssd, system, cpuPwm, floor, hddOn) ==
    [cpu |-> cpu, hdd |-> hdd, ssd |-> ssd, pwm |-> system, system_pwm |-> system,
     cpu_pwm |-> cpuPwm, floor |-> floor, hdd_curve_enabled |-> hddOn]

StockPoints(profile) ==
    CASE profile = "stock-4600" ->
           StockRow(Thresholds(40, 45, 70, 80, 90), Thresholds(30, 35, 50, 55, 70),
                    Thresholds(35, 40, 55, 65, 70), Points(64, 152, 228, 255),
                    Points(64, 152, 228, 255), NoCpuFloor, TRUE)
      [] profile = "stock-4800" ->
           StockRow(Thresholds(45, 50, 70, 75, 85), Thresholds(35, 40, 45, 50, 65),
                    Thresholds(40, 45, 55, 60, 65), Points(64, 128, 204, 255),
                    Points(64, 128, 204, 255), NoCpuFloor, TRUE)
      [] profile = "stock-4800s" ->
           StockRow(Thresholds(50, 55, 75, 80, 90), Thresholds(40, 45, 50, 55, 70),
                    Thresholds(45, 50, 60, 65, 70), Points(64, 128, 204, 255),
                    Points(64, 128, 204, 255), NoCpuFloor, TRUE)
      [] profile = "stock-4800plus" ->
           StockRow(Thresholds(42, 50, 70, 78, 90), Thresholds(30, 40, 46, 52, 55),
                    Thresholds(50, 55, 60, 65, 70), Points(65, 125, 200, 235),
                    Points(60, 125, 205, 230), CpuFloor(65, 90, 100, 205), TRUE)
      [] profile = "stock-480tplus" ->
           StockRow(Thresholds(25, 55, 75, 85, 95), Thresholds(0, 0, 0, 0, 0),
                    Thresholds(40, 50, 60, 70, 80), Points(55, 90, 110, 128),
                    Points(70, 130, 150, 200), NoCpuFloor, FALSE)
      [] OTHER ->
           StockRow(Thresholds(25, 38, 55, 75, 90), Thresholds(30, 35, 43, 48, 55),
                    Thresholds(45, 50, 60, 65, 70), Points(64, 130, 210, 230),
                    Points(80, 130, 210, 230), CpuFloor(65, 90, 125, 220), TRUE)

Override(config, values) ==
    [k \in DOMAIN config |-> IF k \in DOMAIN values THEN values[k] ELSE config[k]]

apply_stock_profile(config) ==
    [Override(config, StockPoints(config.profile))
        EXCEPT !.minimum_pwm = 40, !.ssd_curve_enabled = TRUE]

\* ugreenctl_fan_curve_load_config after parsing: `file` maps the keys the file
\* sets to their values.  Only a custom profile keeps the file's curve.
load_config(file) ==
    LET config == Override(config_defaults, file)
    IN  IF config.profile = "custom"
        THEN [config EXCEPT !.system_pwm = config.pwm, !.cpu_pwm = config.pwm]
        ELSE apply_stock_profile(config)

valid_thresholds(t) ==
    /\ t.stop < t.start /\ t.start < t.mid /\ t.mid < t.full /\ t.full < t.maximum
    /\ t.maximum <= THERMAL_MAX_CELSIUS

valid_pwm_points(p, minimum) ==
    /\ p.idle >= minimum /\ p.maximum <= MaxPwm
    /\ p.idle <= p.mid /\ p.mid <= p.full /\ p.full <= p.maximum

valid_cpu_floor(f, minimum) ==
    /\ f.start_celsius < f.end_celsius /\ f.end_celsius <= THERMAL_MAX_CELSIUS
    /\ f.start_pwm >= minimum /\ f.end_pwm <= MaxPwm /\ f.start_pwm <= f.end_pwm

\* ugreenctl_fan_curve_validate_config
validate_config(c) ==
    /\ profile_is_valid(c.profile)
    /\ c.interval_seconds >= 2 /\ c.interval_seconds <= 300
    /\ c.downshift_delay_seconds <= 3600
    /\ c.minimum_pwm >= MinManualPwm /\ c.minimum_pwm <= MaxPwm
    /\ c.failsafe_pwm >= c.minimum_pwm /\ c.failsafe_pwm <= MaxPwm
    /\ valid_pwm_points(c.pwm, c.minimum_pwm)
    /\ valid_pwm_points(c.system_pwm, c.minimum_pwm)
    /\ valid_pwm_points(c.cpu_pwm, c.minimum_pwm)
    /\ valid_thresholds(c.cpu)
    /\ c.hdd_curve_enabled => valid_thresholds(c.hdd)
    /\ c.ssd_curve_enabled => valid_thresholds(c.ssd)
    /\ c.floor.enabled => valid_cpu_floor(c.floor, c.minimum_pwm)

ThresholdType == [stop : Nat, start : Nat, mid : Nat, full : Nat, maximum : Nat]
PointType == [idle : Nat, mid : Nat, full : Nat, maximum : Nat]
FloorType == [enabled : BOOLEAN, start_celsius : Nat, end_celsius : Nat, start_pwm : Nat,
              end_pwm : Nat]
ConfigType ==
    [profile : STRING, interval_seconds : Nat, downshift_delay_seconds : Nat,
     minimum_pwm : Nat, failsafe_pwm : Nat,
     require_storage_sensor : BOOLEAN, allow_unvalidated_writes : BOOLEAN,
     hdd_curve_enabled : BOOLEAN, ssd_curve_enabled : BOOLEAN,
     cpu : ThresholdType, hdd : ThresholdType, ssd : ThresholdType,
     pwm : PointType, system_pwm : PointType, cpu_pwm : PointType, floor : FloorType]
SnapshotType == [cpu : Int, hdd : Int, ssd : Int]

-----------------------------------------------------------------------------
(* Evaluation. *)

\* Unsigned integer division truncates, so the result never overshoots the line.
interpolate(left_t, right_t, left_pwm, right_pwm, t) ==
    IF right_t = left_t THEN right_pwm
    ELSE left_pwm + (((t - left_t) * (right_pwm - left_pwm)) \div (right_t - left_t))

\* Mutant: the top segment is forgotten, past `full` the curve stays at `mid`.
evaluate_source_short(th, p, t) ==
    IF t <= th.start THEN p.idle
    ELSE IF t < th.full THEN interpolate(th.start, th.full, p.idle, p.full, t)
    ELSE p.mid

\* Below `start` the fan idles: the vendor's `stop` point is never used.
evaluate_source(th, p, t) ==
    IF t <= th.start THEN p.idle
    ELSE IF t < th.mid THEN interpolate(th.start, th.mid, p.idle, p.mid, t)
    ELSE IF t < th.full THEN interpolate(th.mid, th.full, p.mid, p.full, t)
    ELSE IF t < th.maximum THEN interpolate(th.full, th.maximum, p.full, p.maximum, t)
    ELSE p.maximum

\* Mutant: the floor jumps to its last point at the first.
cpu_system_floor_step(c, t) ==
    IF ~c.floor.enabled \/ t < c.floor.start_celsius THEN 0 ELSE c.floor.end_pwm

cpu_system_floor(c, t) ==
    IF ~c.floor.enabled \/ t < c.floor.start_celsius THEN 0
    ELSE IF t >= c.floor.end_celsius THEN c.floor.end_pwm
    ELSE interpolate(c.floor.start_celsius, c.floor.end_celsius,
                     c.floor.start_pwm, c.floor.end_pwm, t)

\* A storage source that is disabled or has no reading does not raise the target.
StorageTarget(enabled, th, p, t) ==
    IF enabled /\ t >= 0 THEN evaluate_source(th, p, t) ELSE 0

SystemTarget(c, snapshot) ==
    maximum_of(maximum_of(maximum_of(
        evaluate_source(c.cpu, c.system_pwm, snapshot.cpu),
        StorageTarget(c.hdd_curve_enabled, c.hdd, c.system_pwm, snapshot.hdd)),
        StorageTarget(c.ssd_curve_enabled, c.ssd, c.system_pwm, snapshot.ssd)),
        cpu_system_floor(c, snapshot.cpu))

\* A custom profile drives both channels with the hottest source.
CpuTarget(c, snapshot) ==
    IF c.profile = "custom" THEN SystemTarget(c, snapshot)
    ELSE evaluate_source(c.cpu, c.cpu_pwm, snapshot.cpu)

\* evaluate_plan returns -ENODATA exactly when this is false.
Evaluable(c, snapshot) ==
    /\ snapshot.cpu >= 0
    /\ c.require_storage_sensor => (snapshot.hdd >= 0 \/ snapshot.ssd >= 0)

\* Mutant: the plan is left zeroed when the temperatures are missing.
failsafe_plan_zero(c) == [cpu |-> 0, system |-> 0]

failsafe_plan(c) == [cpu |-> c.failsafe_pwm, system |-> c.failsafe_pwm]

evaluate_plan(c, snapshot) ==
    IF Evaluable(c, snapshot)
    THEN [cpu    |-> maximum_of(CpuTarget(c, snapshot), c.minimum_pwm),
          system |-> maximum_of(SystemTarget(c, snapshot), c.minimum_pwm)]
    ELSE failsafe_plan(c)
=============================================================================
