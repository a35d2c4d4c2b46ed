------------------------- MODULE ThermalSweepProofs -------------------------
(***************************************************************************)
(* The curve for every configuration and every course of the sensors.      *)
(***************************************************************************)
EXTENDS ThermalSweep, ThermalCurveProofs

-----------------------------------------------------------------------------
(* What a sample of the machine is. *)

Celsius == 0..THERMAL_MAX_CELSIUS
Reading(t) == read_temperature_celsius(Millidegrees(t))

LEMMA ReadingFacts ==
    ASSUME NEW t \in Celsius \cup {NoReading}
    PROVE  Reading(t) = IF t > 0 THEN t ELSE NoReading
<1>1. CASE t > 0
  <2> DEFINE v == t * 1000 + 999
  <2>1. t \in 1..125 /\ t # NoReading
    BY <1>1 DEF Celsius, NoReading, THERMAL_MAX_CELSIUS
  <2>2. v > 1000 /\ v <= 200000 /\ v \div 1000 = t
    BY <2>1
  <2> QED
    BY <1>1, <2>1, <2>2 DEF Reading, Millidegrees, read_temperature_celsius, THERMAL_MAX_CELSIUS
<1>2. CASE ~(t > 0)
  <2>1. t \in {0, -1}
    BY <1>2 DEF Celsius, NoReading, THERMAL_MAX_CELSIUS
  <2> QED
    BY <1>2, <2>1 DEF Reading, Millidegrees, read_temperature_celsius, THERMAL_MAX_CELSIUS, NoReading
<1> QED
  BY <1>1, <1>2

LEMMA HottestOne ==
    ASSUME NEW x \in Int, x >= NoReading
    PROVE  Hottest({x}) = x
  BY DEF Hottest, NoReading

LEMMA HottestNone == Hottest({}) = NoReading
  BY DEF Hottest, NoReading

LEMMA OneDevice ==
    ASSUME NEW devices, NEW names, NEW d \in devices, NEW t \in Celsius \cup {NoReading},
           d.values = {Millidegrees(t)},
           \A e \in devices : e.name \in names <=> e = d
    PROVE  HottestOf(devices, names) = IF t > 0 THEN t ELSE NoReading
<1>1. UNION {{read_temperature_celsius(v) : v \in e.values} :
                 e \in {dev \in devices : dev.name \in names}} = {Reading(t)}
  BY DEF Reading
<1>2. Reading(t) \in Int /\ Reading(t) >= NoReading
  BY ReadingFacts DEF Celsius, NoReading, THERMAL_MAX_CELSIUS
<1> QED
  BY <1>1, <1>2, HottestOne, ReadingFacts DEF HottestOf

LEMMA NoDevice ==
    ASSUME NEW devices, NEW names, \A e \in devices : e.name \notin names
    PROVE  HottestOf(devices, names) = NoReading
<1>1. UNION {{read_temperature_celsius(v) : v \in e.values} :
                 e \in {dev \in devices : dev.name \in names}} = {}
  OBVIOUS
<1> QED
  BY <1>1, HottestNone DEF HottestOf

\* Sensors of the machine are in range, whatever the step did to them.
SensorsOK ==
    /\ source \in CpuNames /\ drivetemp \in BOOLEAN /\ spinning \in BOOLEAN
    /\ cpu \in Celsius \cup {NoReading} /\ hdd \in Celsius \cup {NoReading}
    /\ ssd \in Celsius \cup {NoReading}

Shown(t) == IF t > 0 THEN t ELSE NoReading
Sampled ==
    [cpu |-> IF source \in CpuHwmonNames THEN Shown(cpu) ELSE NoReading,
     hdd |-> IF drivetemp /\ hdd > 0 THEN hdd ELSE IF spinning THEN hdd ELSE NoReading,
     ssd |-> Shown(ssd)]

LEMMA SnapshotIs ==
    ASSUME SensorsOK
    PROVE  read_thermal_snapshot(Devices, Disks) = Sampled
<1> DEFINE c == [name |-> source, values |-> {Millidegrees(cpu)}]
           s == [name |-> "nvme", values |-> {Millidegrees(ssd)}]
           d == [name |-> "drivetemp", values |-> {Millidegrees(hdd)}]
<1>1. source \notin HddHwmonNames /\ source \notin SsdHwmonNames
  BY SensorsAssumption DEF SensorsOK
<1>2. Devices = {c, s} \cup (IF drivetemp THEN {d} ELSE {})
  BY DEF Devices
<1>3. /\ c.name = source /\ s.name = "nvme" /\ d.name = "drivetemp"
      /\ c.values = {Millidegrees(cpu)} /\ s.values = {Millidegrees(ssd)}
      /\ d.values = {Millidegrees(hdd)}
  OBVIOUS
<1> HIDE DEF c, s, d
<1>4. HottestOf(Devices, CpuHwmonNames) = IF source \in CpuHwmonNames THEN Shown(cpu) ELSE NoReading
  <2>1. \A e \in Devices : e # c => e.name \notin CpuHwmonNames
    BY <1>2, <1>3 DEF CpuHwmonNames
  <2>2. CASE source \in CpuHwmonNames
    BY <1>2, <1>3, <2>1, <2>2, OneDevice DEF SensorsOK, Shown
  <2>3. CASE source \notin CpuHwmonNames
    BY <1>2, <1>3, <2>1, <2>3, NoDevice
  <2> QED
    BY <2>2, <2>3
<1>5. HottestOf(Devices, SsdHwmonNames) = Shown(ssd)
  <2>1. \A e \in Devices : e # s => e.name \notin SsdHwmonNames
    BY <1>1, <1>2, <1>3 DEF SsdHwmonNames
  <2>2. s \in Devices /\ s.name \in SsdHwmonNames
    BY <1>2, <1>3 DEF SsdHwmonNames
  <2> QED
    BY <1>3, <2>1, <2>2, OneDevice DEF SensorsOK, Shown
<1>6. HottestOf(Devices, HddHwmonNames) = IF drivetemp THEN Shown(hdd) ELSE NoReading
  <2>1. \A e \in Devices : e # d => e.name \notin HddHwmonNames
    BY <1>1, <1>2, <1>3 DEF HddHwmonNames
  <2>2. CASE drivetemp
    <3>1. d \in Devices /\ d.name \in HddHwmonNames
      BY <1>2, <1>3, <2>2 DEF HddHwmonNames
    <3> QED
      BY <1>3, <2>1, <2>2, <3>1, OneDevice DEF SensorsOK, Shown
  <2>3. CASE ~drivetemp
    <3>1. \A e \in Devices : e.name \notin HddHwmonNames
      BY <1>1, <1>2, <1>3, <2>3 DEF HddHwmonNames
    <3> QED
      BY <2>3, <3>1, NoDevice
  <2> QED
    BY <2>2, <2>3
<1>7. SmartHdd(Disks) = IF spinning THEN hdd ELSE NoReading
  <2> DEFINE k == [rotational |-> TRUE, spinning |-> spinning, smart |-> hdd]
  <2>1. k.rotational /\ k.spinning = spinning /\ k.smart = hdd
    BY Zenon
  <2>2. Disks = {k}
    BY DEF Disks
  <2> HIDE DEF k
  <2>3. CASE spinning
    <3>1. {x.smart : x \in {disk \in Disks : disk.rotational /\ disk.spinning}} = {hdd}
      BY <2>1, <2>2, <2>3
    <3>2. hdd \in Int /\ hdd >= NoReading
      BY DEF SensorsOK, Celsius, NoReading, THERMAL_MAX_CELSIUS
    <3> QED
      BY <2>3, <3>1, <3>2, HottestOne DEF SmartHdd
  <2>4. CASE ~spinning
    <3>1. {x.smart : x \in {disk \in Disks : disk.rotational /\ disk.spinning}} = {}
      BY <2>1, <2>2, <2>4
    <3> QED
      BY <2>4, <3>1, HottestNone DEF SmartHdd
  <2> QED
    BY <2>3, <2>4
<1> QED
  BY <1>4, <1>5, <1>6, <1>7 DEF read_thermal_snapshot, Sampled, Shown, NoReading, SensorsOK, Celsius,
     THERMAL_MAX_CELSIUS

-----------------------------------------------------------------------------
(* The invariant: the snapshot and the plan are those of the machine as it is. *)

IInv ==
    /\ SensorsOK /\ config \in ConfigType /\ validate_config(config)
    /\ cpu \in CpuCelsius \cup {NoReading}
    /\ hdd \in HddCelsius \cup {NoReading}
    /\ ssd \in SsdCelsius \cup {NoReading}
    /\ snapshot = Sampled /\ plan = evaluate_plan(config, snapshot)

LEMMA SampledType ==
    ASSUME SensorsOK
    PROVE  Sampled \in SnapshotType /\ Sampled \in [cpu : Celsius \cup {NoReading},
               hdd : Celsius \cup {NoReading}, ssd : Celsius \cup {NoReading}]
  BY DEF SensorsOK, Sampled, Shown, SnapshotType, Celsius, NoReading, THERMAL_MAX_CELSIUS

LEMMA Ranges ==
    /\ CpuCelsius \subseteq Celsius /\ HddCelsius \subseteq Celsius /\ SsdCelsius \subseteq Celsius
  BY SensorsAssumption DEF Celsius

LEMMA InitIInv == Init => IInv
<1> SUFFICES ASSUME Init PROVE IInv
  OBVIOUS
<1>1. config \in ConfigType /\ validate_config(config)
  BY FilesAssumption DEF Init
<1>2. cpu \in CpuCelsius /\ hdd \in HddCelsius /\ ssd \in SsdCelsius
  BY DEF Init, Coldest
<1>3. SensorsOK
  BY <1>2, Ranges DEF Init, SensorsOK
<1> QED
  BY <1>1, <1>2, <1>3, SnapshotIs DEF Init, IInv

\* A change of the machine, then a sample of it.
LEMMA SampleStep ==
    ASSUME IInv, Sample, spinning' \in BOOLEAN, cpu' \in CpuCelsius \cup {NoReading},
           hdd' \in HddCelsius \cup {NoReading}, ssd' \in SsdCelsius \cup {NoReading}
    PROVE  IInv'
<1>1. SensorsOK'
  BY Ranges DEF IInv, SensorsOK, Sample
<1>2. snapshot' = Sampled'
  <2>1. (SensorsOK => read_thermal_snapshot(Devices, Disks) = Sampled)'
    BY SnapshotIs, PTL
  <2>2. snapshot' = read_thermal_snapshot(Devices', Disks')
    BY DEF Sample
  <2> QED
    BY <1>1, <2>1, <2>2
<1> QED
  BY <1>1, <1>2 DEF IInv, Sample

LEMMA NextIInv == IInv /\ [Next]_vars => IInv'
<1> SUFFICES ASSUME IInv, [Next]_vars PROVE IInv'
  OBVIOUS
<1>1. CASE Warm
  BY <1>1, SampleStep DEF Warm, Warmer, IInv, SensorsOK
<1>2. CASE LoseSensor
  BY <1>2, SampleStep DEF LoseSensor, IInv, SensorsOK
<1>3. CASE ParkOrSpinUp
  <2>1. spinning' \in BOOLEAN
    BY <1>3 DEF ParkOrSpinUp
  <2> QED
    BY <1>3, <2>1, SampleStep DEF ParkOrSpinUp, IInv, SensorsOK
<1>4. CASE UNCHANGED vars
  BY <1>4 DEF vars, machine, IInv, SensorsOK, Sampled, Shown
<1> QED
  BY <1>1, <1>2, <1>3, <1>4 DEF Next

LEMMA Inductive == Spec => []IInv
  BY InitIInv, NextIInv, PTL DEF Spec

\* The plan of every sample lies between the configured minimum and 255, whatever file was
\* loaded and whatever the sensors did.
THEOREM TypeCorrect == Spec => []TypeOK
<1>1. IInv => TypeOK
  BY SampledType, PlanInRange DEF IInv, TypeOK, SensorsOK
<1> QED
  BY <1>1, Inductive, PTL

\* A disk that only SMART shows is not read, and has no influence on the fans, while parked.
THEOREM ParkedDiskNotReadAlways == Spec => []ParkedDiskNotRead
<1>1. IInv => ParkedDiskNotRead
  BY DEF IInv, ParkedDiskNotRead, Sampled
<1> QED
  BY <1>1, Inductive, PTL

LEMMA WarmRaises ==
    ASSUME IInv, IInv', Warm
    PROVE  snapshot.cpu <= snapshot'.cpu /\ snapshot.hdd <= snapshot'.hdd
           /\ snapshot.ssd <= snapshot'.ssd
<1>1. UNCHANGED <<source, drivetemp, spinning>>
  BY DEF Warm, Sample
<1>2. /\ cpu \in Int /\ hdd \in Int /\ ssd \in Int /\ cpu >= -1 /\ hdd >= -1 /\ ssd >= -1
      /\ cpu' \in Int /\ hdd' \in Int /\ ssd' \in Int
  BY DEF IInv, SensorsOK, Celsius, NoReading, THERMAL_MAX_CELSIUS
<1>3. cpu <= cpu' /\ hdd <= hdd' /\ ssd <= ssd'
  BY <1>2 DEF Warm, Warmer
<1>4. snapshot = Sampled /\ snapshot' = Sampled' /\ spinning \in BOOLEAN /\ drivetemp \in BOOLEAN
  BY DEF IInv, SensorsOK
<1> QED
  BY <1>1, <1>2, <1>3, <1>4 DEF Sampled, Shown, NoReading

\* The curve is monotone in the machine's temperature, for every valid configuration: no
\* sensor that warms takes air away.
THEOREM WarmerNeverSlowerAlways == Spec => WarmerNeverSlower
<1>1. ASSUME IInv, IInv', [Next]_vars
      PROVE  [(Warm /\ (Evaluable(config, snapshot) \/ ~Evaluable(config, snapshot'))) =>
                 /\ plan'.cpu >= plan.cpu
                 /\ plan'.system >= plan.system]_vars
  <2> SUFFICES ASSUME Warm, Evaluable(config, snapshot) \/ ~Evaluable(config, snapshot')
               PROVE  plan'.cpu >= plan.cpu /\ plan'.system >= plan.system
    OBVIOUS
  <2>1. /\ config \in ConfigType /\ validate_config(config) /\ config' = config
        /\ plan = evaluate_plan(config, snapshot) /\ plan' = evaluate_plan(config, snapshot')
    BY <1>1 DEF IInv, Warm, Sample
  <2>2. snapshot \in SnapshotType /\ snapshot' \in SnapshotType
    <3>1. (SensorsOK => Sampled \in SnapshotType)'
      BY SampledType, PTL
    <3> QED
      BY <1>1, <3>1, SampledType DEF IInv
  <2>3. /\ snapshot.cpu <= snapshot'.cpu /\ snapshot.hdd <= snapshot'.hdd
        /\ snapshot.ssd <= snapshot'.ssd
    BY <1>1, WarmRaises
  <2>4. /\ plan.cpu \in Int /\ plan'.cpu \in Int /\ plan.system \in Int /\ plan'.system \in Int
        /\ plan \in [cpu : Int, system : Int]
    BY <2>1, <2>2, PlanInRange, ConfigFacts
  <2>5. CASE Evaluable(config, snapshot)
    <3>1. plan.cpu <= plan'.cpu /\ plan.system <= plan'.system
      BY <2>1, <2>2, <2>3, <2>5, PlanMonotone
    <3> QED
      BY <2>4, <3>1
  <2>6. CASE ~Evaluable(config, snapshot) /\ ~Evaluable(config, snapshot')
    <3>1. plan' = plan
      BY <2>1, <2>6 DEF evaluate_plan
    <3> QED
      BY <2>4, <3>1
  <2> QED
    BY <2>5, <2>6
<1> QED
  BY <1>1, Inductive, PTL DEF Spec, WarmerNeverSlower

-----------------------------------------------------------------------------
(* The code's segments against the line through the documented points. *)

\* v is on or under the chord from (a, p) to (b, q) over t.
Chord(a, b, p, q, t, v) == t >= a /\ t <= b /\ (v - p) * (b - a) <= (t - a) * (q - p)

LEMMA UnderChordIs ==
    ASSUME NEW th \in ThresholdType, NEW p \in PointType, NEW t \in Int, NEW v \in Int
    PROVE  UnderChord(th, p, t, v) <=>
               \/ Chord(th.start, th.mid, p.idle, p.mid, t, v)
               \/ Chord(th.mid, th.full, p.mid, p.full, t, v)
               \/ Chord(th.full, th.maximum, p.full, p.maximum, t, v)
<1> DEFINE k == Knots(th, p)
           On(i) == Chord(k[i][1], k[i + 1][1], k[i][2], k[i + 1][2], t, v)
<1>1. UnderChord(th, p, t, v) <=> \E i \in 1..3 : On(i)
  BY DEF UnderChord, Chord
<1>2. 1..3 = {1, 2, 3}
  OBVIOUS
<1>3. /\ k[1] = <<th.start, p.idle>> /\ k[2] = <<th.mid, p.mid>>
      /\ k[3] = <<th.full, p.full>> /\ k[4] = <<th.maximum, p.maximum>>
  BY DEF Knots
<1>4. /\ On(1) <=> Chord(th.start, th.mid, p.idle, p.mid, t, v)
      /\ On(2) <=> Chord(th.mid, th.full, p.mid, p.full, t, v)
      /\ On(3) <=> Chord(th.full, th.maximum, p.full, p.maximum, t, v)
  BY <1>3
<1> QED
  BY <1>1, <1>2, <1>4

LEMMA IntProduct ==
    ASSUME NEW x \in Int, NEW y \in Int, NEW d \in Nat, x <= y
    PROVE  x * d \in Int /\ y * d \in Int /\ x * d <= y * d
<1>1. y * d = x * d + (y - x) * d
  BY SMT
<1>2. (y - x) * d \in Nat
  BY SMT
<1>3. x * d \in Int
  BY SMT
<1> QED
  BY <1>1, <1>2, <1>3

LEMMA ChordDown ==
    ASSUME NEW a, NEW b, NEW p, NEW q, Segment(a, b, p, q), NEW t \in Int,
           NEW v \in Int, NEW w \in Int, v <= w, Chord(a, b, p, q, t, w)
    PROVE  Chord(a, b, p, q, t, v)
<1>1. a \in Nat /\ b \in Nat /\ p \in Nat /\ q \in Nat /\ b - a \in Nat
  BY DEF Segment
<1>2. (v - p) * (b - a) \in Int /\ (w - p) * (b - a) \in Int /\ (v - p) * (b - a) <= (w - p) * (b - a)
  BY <1>1, IntProduct
<1>3. (t - a) * (q - p) \in Int
  BY <1>1, SMT
<1> QED
  BY <1>2, <1>3 DEF Chord

\* interpolate is the whole number on or under the chord, and the next one is not.
LEMMA InterpolateIsChord ==
    ASSUME NEW a, NEW b, NEW p, NEW q, Segment(a, b, p, q), NEW t \in a..b
    PROVE  LET v == interpolate(a, b, p, q, t)
           IN  Chord(a, b, p, q, t, v) /\ ~Chord(a, b, p, q, t, v + 1)
<1>1. a \in Nat /\ b \in Nat /\ p \in Nat /\ q \in Nat /\ a < b /\ p <= q
  BY DEF Segment
<1>2. t - a \in Nat /\ q - p \in Nat /\ b - a \in Nat \ {0} /\ t \in Nat /\ t >= a /\ t <= b
  BY <1>1
<1> DEFINE d == b - a
           x == (t - a) * (q - p)
           y == x \div d
           v == interpolate(a, b, p, q, t)
<1>3. x \in Nat
  BY <1>2, ProductMonotone
<1>4. v = p + y
  BY <1>1 DEF interpolate
<1> HIDE DEF x, v
<1>5. y \in Nat /\ y * d <= x /\ x < (y + 1) * d /\ y * d \in Nat /\ (y + 1) * d \in Nat
  <2> DEFINE e == b - a
  <2>1. e \in Nat \ {0}
    BY <1>2
  <2> HIDE DEF e
  <2>2. LET z == x \div e IN z \in Nat /\ z * e <= x /\ x < (z + 1) * e /\ z * e \in Nat /\ (z + 1) * e \in Nat
    BY <1>3, <2>1, SMT
  <2> QED
    BY <2>2 DEF e
<1>6. v - p = y /\ (v + 1) - p = y + 1
  BY <1>1, <1>4, <1>5
<1>7. (v - p) * (b - a) <= x /\ ~((v + 1) - p) * (b - a) <= x
  BY <1>3, <1>5, <1>6
<1> QED
  BY <1>2, <1>7 DEF Chord, x, v

LEMMA InterpolateEnds ==
    ASSUME NEW a, NEW b, NEW p, NEW q, Segment(a, b, p, q)
    PROVE  interpolate(a, b, p, q, a) = p /\ interpolate(a, b, p, q, b) = q
<1>1. a \in Nat /\ b \in Nat /\ p \in Nat /\ q \in Nat /\ a < b /\ p <= q
  BY DEF Segment
<1> DEFINE d == b - a
           m == q - p
<1>2. d \in Nat \ {0} /\ m \in Nat /\ a - a = 0 /\ b # a
  BY <1>1
<1>3. /\ interpolate(a, b, p, q, a) = p + (((a - a) * m) \div d)
      /\ interpolate(a, b, p, q, b) = p + ((d * m) \div d)
  BY <1>2 DEF interpolate
<1>4. (0 * m) \div d = 0 /\ (d * m) \div d = m
  <2> HIDE DEF d, m
  <2>1. 0 * m = 0 /\ 0 \div d = 0
    BY <1>2, SMT
  <2>2. (d * m) \div d = m
    <3> DEFINE x == d * m
               z == x \div d
    <3>1. x \in Nat /\ x = m * d
      BY <1>2, SMT
    <3>2. z \in 0..m
      BY <1>2, QuotientBound
    <3>3. x < (z + 1) * d
      BY <1>2, <3>1, SMT
    <3>4. z < m => (z + 1) * d <= m * d
      BY <1>2, <3>2, ProductMonotone
    <3>5. (z + 1) * d \in Nat
      BY <1>2, <3>2, ProductMonotone
    <3> QED
      BY <1>2, <3>1, <3>2, <3>3, <3>4, <3>5
  <2> QED
    BY <2>1, <2>2
<1> QED
  BY <1>1, <1>2, <1>3, <1>4

\* On each of its segments, both ends included, the code's curve is the interpolation there.
LEMMA SourceOnSegments ==
    ASSUME NEW th \in ThresholdType, NEW p \in PointType, NEW minimum \in Nat,
           valid_thresholds(th), valid_pwm_points(p, minimum), NEW t \in Int
    PROVE  LET v == evaluate_source(th, p, t) IN
           /\ t <= th.start => v = p.idle
           /\ t >= th.maximum => v = p.maximum
           /\ t \in th.start..th.mid => v = interpolate(th.start, th.mid, p.idle, p.mid, t)
           /\ t \in th.mid..th.full => v = interpolate(th.mid, th.full, p.mid, p.full, t)
           /\ t \in th.full..th.maximum =>
                  v = interpolate(th.full, th.maximum, p.full, p.maximum, t)
<1>1. /\ th.start \in Nat /\ th.mid \in Nat /\ th.full \in Nat /\ th.maximum \in Nat
      /\ th.start < th.mid /\ th.mid < th.full /\ th.full < th.maximum
  BY DEF ThresholdType, valid_thresholds
<1>2. /\ Segment(th.start, th.mid, p.idle, p.mid)
      /\ Segment(th.mid, th.full, p.mid, p.full)
      /\ Segment(th.full, th.maximum, p.full, p.maximum)
  BY Segments
<1>3. /\ interpolate(th.start, th.mid, p.idle, p.mid, th.start) = p.idle
      /\ interpolate(th.start, th.mid, p.idle, p.mid, th.mid) = p.mid
      /\ interpolate(th.mid, th.full, p.mid, p.full, th.mid) = p.mid
      /\ interpolate(th.mid, th.full, p.mid, p.full, th.full) = p.full
      /\ interpolate(th.full, th.maximum, p.full, p.maximum, th.full) = p.full
      /\ interpolate(th.full, th.maximum, p.full, p.maximum, th.maximum) = p.maximum
  BY <1>2, InterpolateEnds
<1> QED
  BY <1>1, <1>3 DEF evaluate_source

LEMMA UnderDown ==
    ASSUME NEW th \in ThresholdType, NEW p \in PointType, NEW minimum \in Nat,
           valid_thresholds(th), valid_pwm_points(p, minimum), NEW t \in Int,
           NEW v \in Int, NEW w \in Int, v <= w, Under(th, p, t, w)
    PROVE  Under(th, p, t, v)
<1>1. /\ Segment(th.start, th.mid, p.idle, p.mid)
      /\ Segment(th.mid, th.full, p.mid, p.full)
      /\ Segment(th.full, th.maximum, p.full, p.maximum)
  BY Segments
<1>2. UnderChord(th, p, t, w) => UnderChord(th, p, t, v)
  BY <1>1, UnderChordIs, ChordDown
<1>3. p.idle \in Nat /\ p.maximum \in Nat
  BY DEF PointType
<1> QED
  BY <1>2, <1>3 DEF Under

\* evaluate_source is the documented curve.
LEMMA SourceIsCurve ==
    ASSUME NEW th \in ThresholdType, NEW p \in PointType, NEW minimum \in Nat,
           valid_thresholds(th), valid_pwm_points(p, minimum), NEW t \in Int
    PROVE  IsCurve(th, p, t, evaluate_source(th, p, t))
<1> DEFINE v == evaluate_source(th, p, t)
<1>1. /\ th.start \in Nat /\ th.mid \in Nat /\ th.full \in Nat /\ th.maximum \in Nat
      /\ th.start < th.mid /\ th.mid < th.full /\ th.full < th.maximum
      /\ p.idle \in Nat /\ p.maximum \in Nat
  BY DEF ThresholdType, PointType, valid_thresholds
<1>2. /\ Segment(th.start, th.mid, p.idle, p.mid)
      /\ Segment(th.mid, th.full, p.mid, p.full)
      /\ Segment(th.full, th.maximum, p.full, p.maximum)
  BY Segments
<1>3. v \in Int /\ v + 1 \in Int
  BY SourceBounds
<1>4. t <= th.start => v = p.idle
  BY SourceOnSegments
<1>5. t >= th.maximum => v = p.maximum
  BY SourceOnSegments
<1>6. t \in th.start..th.mid =>
          /\ Chord(th.start, th.mid, p.idle, p.mid, t, v)
          /\ ~Chord(th.start, th.mid, p.idle, p.mid, t, v + 1)
  <2>1. t \in th.start..th.mid => v = interpolate(th.start, th.mid, p.idle, p.mid, t)
    BY SourceOnSegments
  <2> HIDE DEF v
  <2> QED
    BY <1>2, <2>1, InterpolateIsChord
<1>7. t \in th.mid..th.full =>
          /\ Chord(th.mid, th.full, p.mid, p.full, t, v)
          /\ ~Chord(th.mid, th.full, p.mid, p.full, t, v + 1)
  <2>1. t \in th.mid..th.full => v = interpolate(th.mid, th.full, p.mid, p.full, t)
    BY SourceOnSegments
  <2> HIDE DEF v
  <2> QED
    BY <1>2, <2>1, InterpolateIsChord
<1>8. t \in th.full..th.maximum =>
          /\ Chord(th.full, th.maximum, p.full, p.maximum, t, v)
          /\ ~Chord(th.full, th.maximum, p.full, p.maximum, t, v + 1)
  <2>1. t \in th.full..th.maximum => v = interpolate(th.full, th.maximum, p.full, p.maximum, t)
    BY SourceOnSegments
  <2> HIDE DEF v
  <2> QED
    BY <1>2, <2>1, InterpolateIsChord
<1> HIDE DEF v
<1>9. Under(th, p, t, v)
  <2>1. CASE t <= th.start
    BY <1>1, <1>4, <2>1 DEF Under
  <2>2. CASE t >= th.maximum
    BY <1>1, <1>5, <2>2 DEF Under
  <2>3. CASE ~(t <= th.start) /\ ~(t >= th.maximum)
    <3>1. t \in th.start..th.mid \/ t \in th.mid..th.full \/ t \in th.full..th.maximum
      BY <1>1, <2>3
    <3>2. UnderChord(th, p, t, v)
      BY <1>3, <1>6, <1>7, <1>8, <3>1, UnderChordIs
    <3> QED
      BY <3>2 DEF Under
  <2> QED
    BY <2>1, <2>2, <2>3
<1>10. ~Under(th, p, t, v + 1)
  <2>1. /\ ~Chord(th.start, th.mid, p.idle, p.mid, t, v + 1)
        /\ ~Chord(th.mid, th.full, p.mid, p.full, t, v + 1)
        /\ ~Chord(th.full, th.maximum, p.full, p.maximum, t, v + 1)
    <3>1. /\ t \notin th.start..th.mid => ~Chord(th.start, th.mid, p.idle, p.mid, t, v + 1)
          /\ t \notin th.mid..th.full => ~Chord(th.mid, th.full, p.mid, p.full, t, v + 1)
          /\ t \notin th.full..th.maximum => ~Chord(th.full, th.maximum, p.full, p.maximum, t, v + 1)
      BY <1>1 DEF Chord
    <3> QED
      BY <1>6, <1>7, <1>8, <3>1
  <2>2. ~UnderChord(th, p, t, v + 1)
    BY <1>3, <2>1, UnderChordIs
  <2>3. ~(t <= th.start /\ v + 1 <= p.idle) /\ ~(t >= th.maximum /\ v + 1 <= p.maximum)
    BY <1>1, <1>3, <1>4, <1>5
  <2> QED
    BY <2>2, <2>3 DEF Under
<1> QED
  BY <1>9, <1>10 DEF IsCurve, v

\* The floor under the system fan is its documented line: nothing above it is under the
\* line, and where there is a floor it is on it.
LEMMA FloorIsLine ==
    ASSUME NEW c \in ConfigType, validate_config(c), NEW t \in Int
    PROVE  /\ \A w \in Int : cpu_system_floor(c, t) <= w => ~UnderFloor(c.floor, t, w + 1)
           /\ cpu_system_floor(c, t) # 0 => IsFloor(c.floor, t, cpu_system_floor(c, t))
<1> DEFINE f == c.floor
           low == cpu_system_floor(c, t)
           On(v) == Chord(f.start_celsius, f.end_celsius, f.start_pwm, f.end_pwm, t, v)
<1>1. CASE ~(f.enabled /\ t >= f.start_celsius)
  <2>1. f.start_celsius \in Nat
    BY DEF ConfigType, FloorType
  <2>2. low = 0 /\ \A v : ~UnderFloor(f, t, v)
    BY <1>1, <2>1 DEF cpu_system_floor, UnderFloor
  <2> QED
    BY <2>2
<1>2. CASE f.enabled /\ t >= f.start_celsius
  <2>1. /\ f.start_celsius \in Nat /\ f.end_celsius \in Nat /\ f.start_pwm \in Nat /\ f.end_pwm \in Nat
        /\ f.start_celsius < f.end_celsius /\ f.start_pwm <= f.end_pwm
    BY <1>2, ConfigFacts DEF FloorType, valid_cpu_floor
  <2>2. Segment(f.start_celsius, f.end_celsius, f.start_pwm, f.end_pwm)
    BY <2>1 DEF Segment
  <2>3. \A v : UnderFloor(f, t, v) <=> (t >= f.end_celsius /\ v <= f.end_pwm) \/ On(v)
    BY <1>2 DEF UnderFloor, Chord
  <2>4. t >= f.end_celsius => low = f.end_pwm
    BY <1>2, <2>1 DEF cpu_system_floor
  <2>5. t \in f.start_celsius..f.end_celsius =>
            low = interpolate(f.start_celsius, f.end_celsius, f.start_pwm, f.end_pwm, t)
    <3>1. interpolate(f.start_celsius, f.end_celsius, f.start_pwm, f.end_pwm, f.end_celsius) = f.end_pwm
      BY <2>2, InterpolateEnds
    <3>2. t \in f.start_celsius..f.end_celsius /\ ~(t >= f.end_celsius) =>
              low = interpolate(f.start_celsius, f.end_celsius, f.start_pwm, f.end_pwm, t)
      BY <1>2, <2>1 DEF cpu_system_floor
    <3>3. t \in f.start_celsius..f.end_celsius /\ t >= f.end_celsius => t = f.end_celsius
      BY <2>1
    <3> QED
      BY <2>4, <3>1, <3>2, <3>3
  <2>6. t \in f.start_celsius..f.end_celsius \/ t >= f.end_celsius
    BY <1>2, <2>1
  <2>7. low \in Nat
    BY FloorBounds
  <2> HIDE DEF low, f
  <2>8. t \in f.start_celsius..f.end_celsius => On(low) /\ ~On(low + 1)
    BY <2>2, <2>5, InterpolateIsChord DEF f
  <2>9. t \notin f.start_celsius..f.end_celsius => \A v : ~On(v)
    BY <1>2, <2>1 DEF Chord, f
  <2>10. \A w \in Int : low <= w => ~On(w + 1)
    <3> SUFFICES ASSUME NEW w \in Int, low <= w, On(w + 1) PROVE FALSE
      OBVIOUS
    <3>1. t \in f.start_celsius..f.end_celsius /\ low + 1 \in Int /\ w + 1 \in Int /\ low + 1 <= w + 1
      BY <2>7, <2>9
    <3>2. On(low + 1)
      BY <2>2, <3>1, ChordDown
    <3> QED
      BY <2>8, <3>1, <3>2
  <2>11. \A w \in Int : low <= w => ~UnderFloor(f, t, w + 1)
    BY <2>1, <2>3, <2>4, <2>7, <2>10
  <2>12. UnderFloor(f, t, low)
    BY <2>1, <2>3, <2>4, <2>6, <2>7, <2>8
  <2>13. ~UnderFloor(f, t, low + 1)
    BY <2>7, <2>11
  <2> QED
    BY <2>11, <2>12, <2>13 DEF IsFloor, low, f
<1> QED
  BY <1>1, <1>2

\* A source that is on and read is at or under the system target; it is the documented
\* curve if it equals it.
LEMMA TargetCoversSource ==
    ASSUME NEW th \in ThresholdType, NEW p \in PointType, NEW minimum \in Nat,
           valid_thresholds(th), valid_pwm_points(p, minimum), NEW t \in Int, NEW w \in Int,
           evaluate_source(th, p, t) <= w
    PROVE  ~Under(th, p, t, w + 1)
<1> DEFINE v == evaluate_source(th, p, t)
<1>1. v \in Int /\ v + 1 \in Int /\ w + 1 \in Int /\ v + 1 <= w + 1
  BY SourceBounds
<1>2. ~Under(th, p, t, v + 1)
  BY SourceIsCurve DEF IsCurve
<1> HIDE DEF v
<1> QED
  BY <1>1, <1>2, UnderDown

LEMMA PlanIsCurve ==
    ASSUME IInv
    PROVE  PlanIsDocumentedCurve
<1> DEFINE c == config
           s == snapshot
           m == c.minimum_pwm
           eCpu == evaluate_source(c.cpu, c.system_pwm, s.cpu)
           eHdd == StorageTarget(c.hdd_curve_enabled, c.hdd, c.system_pwm, s.hdd)
           eSsd == StorageTarget(c.ssd_curve_enabled, c.ssd, c.system_pwm, s.ssd)
           low == cpu_system_floor(c, s.cpu)
           w == SystemTarget(c, s)
<1>1. /\ c \in ConfigType /\ validate_config(c) /\ plan = evaluate_plan(c, s)
      /\ c.require_storage_sensor \in BOOLEAN
  BY DEF IInv, ConfigType
<1>2. /\ s.cpu \in Int /\ s.hdd \in Int /\ s.ssd \in Int
      /\ s.cpu >= NoReading /\ s.hdd >= NoReading /\ s.ssd >= NoReading
  BY SampledType DEF IInv, Celsius, NoReading, THERMAL_MAX_CELSIUS
<1>3. /\ m \in MinManualPwm..MaxPwm /\ m \in Nat /\ m > 0
      /\ c.cpu \in ThresholdType /\ c.hdd \in ThresholdType /\ c.ssd \in ThresholdType
      /\ c.system_pwm \in PointType /\ c.cpu_pwm \in PointType
      /\ valid_pwm_points(c.system_pwm, m) /\ valid_pwm_points(c.cpu_pwm, m)
      /\ valid_thresholds(c.cpu)
      /\ c.hdd_curve_enabled => valid_thresholds(c.hdd)
      /\ c.ssd_curve_enabled => valid_thresholds(c.ssd)
  BY <1>1, ConfigFacts DEF MinManualPwm, MaxPwm
<1>6. /\ source \in DocumentedCpuNames \ BoardSensors /\ cpu # 0 => s.cpu = cpu
      /\ source \in BoardSensors => s.cpu = NoReading
  BY DEF IInv, SensorsOK, Sampled, Shown, Celsius, NoReading, THERMAL_MAX_CELSIUS,
     DocumentedCpuNames, BoardSensors, CpuHwmonNames
<1>4. CASE s.cpu = NoReading \/ (c.require_storage_sensor /\ s.hdd = NoReading /\ s.ssd = NoReading)
  <2>1. ~Evaluable(c, s)
    BY <1>2, <1>4 DEF Evaluable, NoReading
  <2> QED
    BY <1>1, <1>4, <1>6, <2>1 DEF PlanIsDocumentedCurve, evaluate_plan, failsafe_plan
<1>5. CASE ~(s.cpu = NoReading \/ (c.require_storage_sensor /\ s.hdd = NoReading /\ s.ssd = NoReading))
  <2>1. Evaluable(c, s)
    BY <1>1, <1>2, <1>5 DEF Evaluable, NoReading
  <2>2. eCpu \in m..MaxPwm /\ evaluate_source(c.cpu, c.cpu_pwm, s.cpu) \in m..MaxPwm
    BY <1>2, <1>3, SourceBounds
  <2>3. c.hdd_curve_enabled => evaluate_source(c.hdd, c.system_pwm, s.hdd) \in m..MaxPwm
    BY <1>2, <1>3, SourceBounds
  <2>4. c.ssd_curve_enabled => evaluate_source(c.ssd, c.system_pwm, s.ssd) \in m..MaxPwm
    BY <1>2, <1>3, SourceBounds
  <2>5. IF c.hdd_curve_enabled /\ s.hdd # NoReading
        THEN eHdd = evaluate_source(c.hdd, c.system_pwm, s.hdd) ELSE eHdd = 0
    BY <1>2 DEF StorageTarget, NoReading
  <2>6. IF c.ssd_curve_enabled /\ s.ssd # NoReading
        THEN eSsd = evaluate_source(c.ssd, c.system_pwm, s.ssd) ELSE eSsd = 0
    BY <1>2 DEF StorageTarget, NoReading
  <2>7. low \in 0..MaxPwm
    BY <1>1, <1>2, FloorBounds
  <2>8. /\ \A v \in Int : low <= v => ~UnderFloor(c.floor, s.cpu, v + 1)
        /\ low # 0 => IsFloor(c.floor, s.cpu, low)
    BY <1>1, <1>2, FloorIsLine
  <2>9. /\ w = maximum_of(maximum_of(maximum_of(eCpu, eHdd), eSsd), low)
        /\ eHdd \in Int /\ eSsd \in Int /\ MaxPwm \in Nat
    BY <2>3, <2>4, <2>5, <2>6 DEF SystemTarget, MaxPwm
  <2>10. plan.cpu = maximum_of(CpuTarget(c, s), m) /\ plan.system = maximum_of(w, m)
    BY <1>1, <2>1 DEF evaluate_plan
  <2>11. CpuTarget(c, s) = IF c.profile = "custom" THEN w ELSE evaluate_source(c.cpu, c.cpu_pwm, s.cpu)
    BY DEF CpuTarget
  <2> HIDE DEF eCpu, eHdd, eSsd, low, w
  <2>12. /\ w \in Int /\ w >= eCpu /\ w >= eHdd /\ w >= eSsd /\ w >= m /\ w >= low
         /\ w = eCpu \/ w = eHdd \/ w = eSsd \/ w = low
    BY <1>3, <2>2, <2>7, <2>9 DEF maximum_of
  <2>13. plan.system = w /\ (c.profile = "custom" => plan.cpu = w)
         /\ (c.profile # "custom" => plan.cpu = evaluate_source(c.cpu, c.cpu_pwm, s.cpu))
    BY <1>3, <2>2, <2>10, <2>11, <2>12 DEF maximum_of
  <2>14. \A src \in Sources(c, s) : ~Under(src[1], c.system_pwm, src[2], w + 1)
    <3>1. ~Under(c.cpu, c.system_pwm, s.cpu, w + 1)
      BY <1>2, <1>3, <2>12, TargetCoversSource DEF eCpu
    <3>2. c.hdd_curve_enabled /\ s.hdd # NoReading => ~Under(c.hdd, c.system_pwm, s.hdd, w + 1)
      BY <1>2, <1>3, <2>5, <2>12, TargetCoversSource
    <3>3. c.ssd_curve_enabled /\ s.ssd # NoReading => ~Under(c.ssd, c.system_pwm, s.ssd, w + 1)
      BY <1>2, <1>3, <2>6, <2>12, TargetCoversSource
    <3> QED
      BY <3>1, <3>2, <3>3 DEF Sources
  <2>15. \/ \E src \in Sources(c, s) : IsCurve(src[1], c.system_pwm, src[2], w)
         \/ IsFloor(c.floor, s.cpu, w)
    <3>1. CASE w = eCpu
      <4>1. IsCurve(c.cpu, c.system_pwm, s.cpu, w)
        BY <1>2, <1>3, <3>1, SourceIsCurve DEF eCpu
      <4>2. <<c.cpu, s.cpu>> \in Sources(c, s)
        BY DEF Sources
      <4> QED
        BY <4>1, <4>2
    <3>2. CASE w = eHdd
      <4>1. c.hdd_curve_enabled /\ s.hdd # NoReading
        BY <1>3, <2>5, <2>12, <3>2
      <4>2. IsCurve(c.hdd, c.system_pwm, s.hdd, w)
        BY <1>2, <1>3, <2>5, <3>2, <4>1, SourceIsCurve
      <4>3. <<c.hdd, s.hdd>> \in Sources(c, s)
        BY <4>1 DEF Sources
      <4> QED
        BY <4>2, <4>3
    <3>3. CASE w = eSsd
      <4>1. c.ssd_curve_enabled /\ s.ssd # NoReading
        BY <1>3, <2>6, <2>12, <3>3
      <4>2. IsCurve(c.ssd, c.system_pwm, s.ssd, w)
        BY <1>2, <1>3, <2>6, <3>3, <4>1, SourceIsCurve
      <4>3. <<c.ssd, s.ssd>> \in Sources(c, s)
        BY <4>1 DEF Sources
      <4> QED
        BY <4>2, <4>3
    <3>4. CASE w = low
      BY <1>3, <2>8, <2>12, <3>4
    <3> QED
      BY <2>12, <3>1, <3>2, <3>3, <3>4
  <2>16. c.profile # "custom" => IsCurve(c.cpu, c.cpu_pwm, s.cpu, plan.cpu)
    BY <1>2, <1>3, <2>13, SourceIsCurve
  <2>17. ~UnderFloor(c.floor, s.cpu, w + 1)
    BY <2>7, <2>8, <2>12
  <2> QED
    BY <1>5, <1>6, <2>13, <2>14, <2>15, <2>16, <2>17 DEF PlanIsDocumentedCurve
<1> QED
  BY <1>4, <1>5

\* For every configuration that passes validation and every state of the sensors, the code's
\* segments, integer division and maxima compute the curve FAN_CURVE.md documents.
THEOREM PlanIsDocumentedCurveAlways == Spec => []PlanIsDocumentedCurve
<1>1. IInv => PlanIsDocumentedCurve
  BY PlanIsCurve
<1> QED
  BY <1>1, Inductive, PTL
=============================================================================
