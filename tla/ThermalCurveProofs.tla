------------------------- MODULE ThermalCurveProofs -------------------------
(***************************************************************************)
(* For every valid configuration and every snapshot, both PWM values of    *)
(* the plan lie between the configured minimum and 255: the daemon never   *)
(* asks for a value the chip's guard would refuse.                         *)
(***************************************************************************)
EXTENDS ThermalCurve, TLAPS

\* A product of naturals grows with its first factor.
LEMMA ProductMonotone ==
    ASSUME NEW m \in Nat, NEW a \in Nat, NEW b \in Nat, a <= b
    PROVE  a * m \in Nat /\ a * m <= b * m
<1>1. \A c \in Nat : c * m \in Nat
  BY SMT
<1>2. b * m = a * m + (b - a) * m
  BY SMT
<1>3. (b - a) * m \in Nat
  BY <1>1
<1> QED
  BY <1>1, <1>2, <1>3

\* Euclid: the quotient of a product with at most the divisor is at most the
\* other factor.
LEMMA QuotientBound ==
    ASSUME NEW k \in Nat, NEW m \in Nat, NEW d \in Nat \ {0}, k <= d
    PROVE  (k * m) \div d \in 0..m
<1> DEFINE x == k * m
           y == x \div d
<1>1. x \in Nat /\ x <= d * m
  BY ProductMonotone
<1>2. y \in Nat /\ d * y <= x
  BY <1>1, SMT
<1>3. SUFFICES ASSUME y > m PROVE FALSE
  BY <1>2
<1>4. (m + 1) * d <= y * d
  BY <1>2, <1>3, ProductMonotone
<1>5. (m + 1) * d = d * m + d /\ y * d = d * y
  BY <1>2, SMT
<1> QED
  BY <1>1, <1>2, <1>4, <1>5

LEMMA QuotientMonotone ==
    ASSUME NEW x \in Nat, NEW y \in Nat, NEW d \in Nat \ {0}, x <= y
    PROVE  x \div d <= y \div d
<1> DEFINE p == x \div d
           q == y \div d
<1>1. p \in Nat /\ q \in Nat /\ p * d <= x /\ y < (q + 1) * d
  BY SMT
<1>2. SUFFICES ASSUME q + 1 <= p PROVE FALSE
  BY <1>1
<1>3. (q + 1) * d <= p * d
  BY <1>1, <1>2, ProductMonotone
<1>4. (q + 1) * d \in Nat /\ p * d \in Nat
  BY <1>1, ProductMonotone
<1> QED
  BY <1>1, <1>3, <1>4

-----------------------------------------------------------------------------
(* interpolate. *)

Segment(a, b, p, q) == a \in Nat /\ b \in Nat /\ p \in Nat /\ q \in Nat /\ a < b /\ p <= q

LEMMA InterpolateBounds ==
    ASSUME NEW a, NEW b, NEW p, NEW q, Segment(a, b, p, q), NEW t \in a..b
    PROVE  interpolate(a, b, p, q, t) \in p..q
<1>1. a \in Nat /\ b \in Nat /\ p \in Nat /\ q \in Nat /\ a < b /\ p <= q
  BY DEF Segment
<1>2. t - a \in Nat /\ q - p \in Nat /\ b - a \in Nat \ {0} /\ t - a <= b - a
  BY <1>1
<1>3. ((t - a) * (q - p)) \div (b - a) \in 0..(q - p)
  BY <1>2, QuotientBound
<1>4. interpolate(a, b, p, q, t) = p + (((t - a) * (q - p)) \div (b - a))
  BY <1>1 DEF interpolate
<1> QED
  BY <1>1, <1>3, <1>4

LEMMA InterpolateMonotone ==
    ASSUME NEW a, NEW b, NEW p, NEW q, Segment(a, b, p, q),
           NEW t \in a..b, NEW u \in a..b, t <= u
    PROVE  interpolate(a, b, p, q, t) <= interpolate(a, b, p, q, u)
<1>1. a \in Nat /\ b \in Nat /\ p \in Nat /\ q \in Nat /\ a < b /\ p <= q
  BY DEF Segment
<1>2. /\ t - a \in Nat /\ u - a \in Nat /\ q - p \in Nat /\ b - a \in Nat \ {0}
      /\ t - a <= u - a
  BY <1>1
<1> DEFINE x == (t - a) * (q - p)
           y == (u - a) * (q - p)
<1>3. x \in Nat /\ y \in Nat /\ x <= y
  BY <1>2, ProductMonotone
<1>4. x \div (b - a) <= y \div (b - a)
  BY <1>2, <1>3, QuotientMonotone
<1>5. x \div (b - a) \in Nat /\ y \div (b - a) \in Nat
  BY <1>2, <1>3, SMT
<1>6. /\ interpolate(a, b, p, q, t) = p + (x \div (b - a))
      /\ interpolate(a, b, p, q, u) = p + (y \div (b - a))
  BY <1>1 DEF interpolate
<1> QED
  BY <1>1, <1>4, <1>5, <1>6

-----------------------------------------------------------------------------
(* evaluate_source. *)

\* The segments of a valid curve.
LEMMA Segments ==
    ASSUME NEW th \in ThresholdType, NEW p \in PointType, NEW minimum \in Nat,
           valid_thresholds(th), valid_pwm_points(p, minimum)
    PROVE  /\ Segment(th.start, th.mid, p.idle, p.mid)
           /\ Segment(th.mid, th.full, p.mid, p.full)
           /\ Segment(th.full, th.maximum, p.full, p.maximum)
  BY DEF Segment, ThresholdType, PointType, valid_thresholds, valid_pwm_points

LEMMA SourceBounds ==
    ASSUME NEW th \in ThresholdType, NEW p \in PointType, NEW minimum \in Nat,
           valid_thresholds(th), valid_pwm_points(p, minimum), NEW t \in Int
    PROVE  evaluate_source(th, p, t) \in minimum..MaxPwm
<1> DEFINE v == evaluate_source(th, p, t)
<1>1. /\ th.start \in Nat /\ th.mid \in Nat /\ th.full \in Nat /\ th.maximum \in Nat
      /\ p.idle \in Nat /\ p.mid \in Nat /\ p.full \in Nat /\ p.maximum \in Nat
      /\ minimum <= p.idle /\ p.idle <= p.mid /\ p.mid <= p.full /\ p.full <= p.maximum
      /\ p.maximum <= MaxPwm /\ MaxPwm \in Nat
  BY DEF ThresholdType, PointType, valid_pwm_points, MaxPwm
<1>2. CASE t <= th.start
  BY <1>1, <1>2 DEF evaluate_source
<1>3. CASE t > th.start /\ t < th.mid
  <2>1. v = interpolate(th.start, th.mid, p.idle, p.mid, t)
    BY <1>1, <1>3 DEF evaluate_source
  <2>2. v \in p.idle..p.mid
    BY <1>1, <1>3, <2>1, Segments, InterpolateBounds
  <2> QED
    BY <1>1, <2>2
<1>4. CASE t > th.start /\ t >= th.mid /\ t < th.full
  <2>1. v = interpolate(th.mid, th.full, p.mid, p.full, t)
    BY <1>1, <1>4 DEF evaluate_source
  <2>2. v \in p.mid..p.full
    BY <1>1, <1>4, <2>1, Segments, InterpolateBounds
  <2> QED
    BY <1>1, <2>2
<1>5. CASE t > th.start /\ t >= th.mid /\ t >= th.full /\ t < th.maximum
  <2>1. v = interpolate(th.full, th.maximum, p.full, p.maximum, t)
    BY <1>1, <1>5 DEF evaluate_source
  <2>2. v \in p.full..p.maximum
    BY <1>1, <1>5, <2>1, Segments, InterpolateBounds
  <2> QED
    BY <1>1, <2>2
<1>6. CASE t > th.start /\ t >= th.mid /\ t >= th.full /\ t >= th.maximum
  BY <1>1, <1>6 DEF evaluate_source
<1> QED
  BY <1>1, <1>2, <1>3, <1>4, <1>5, <1>6

\* The value on either side of a segment boundary: where t lies bounds the value.
LEMMA SourceMonotone ==
    ASSUME NEW th \in ThresholdType, NEW p \in PointType, NEW minimum \in Nat,
           valid_thresholds(th), valid_pwm_points(p, minimum),
           NEW t \in Int, NEW u \in Int, t <= u
    PROVE  evaluate_source(th, p, t) <= evaluate_source(th, p, u)
<1> DEFINE v(x) == evaluate_source(th, p, x)
           low(x) == x <= th.start
           one(x) == x > th.start /\ x < th.mid
           two(x) == x > th.start /\ x >= th.mid /\ x < th.full
           three(x) == x > th.start /\ x >= th.mid /\ x >= th.full /\ x < th.maximum
           top(x) == x > th.start /\ x >= th.mid /\ x >= th.full /\ x >= th.maximum
<1>1. /\ th.start \in Nat /\ th.mid \in Nat /\ th.full \in Nat /\ th.maximum \in Nat
      /\ th.start < th.mid /\ th.mid < th.full /\ th.full < th.maximum
      /\ p.idle \in Nat /\ p.mid \in Nat /\ p.full \in Nat /\ p.maximum \in Nat
      /\ p.idle <= p.mid /\ p.mid <= p.full /\ p.full <= p.maximum
  BY DEF ThresholdType, PointType, valid_pwm_points, valid_thresholds
<1>2. \A x \in Int : low(x) => v(x) = p.idle
  BY DEF evaluate_source
<1>3. \A x \in Int : one(x) => v(x) = interpolate(th.start, th.mid, p.idle, p.mid, x)
  BY <1>1 DEF evaluate_source
<1>4. \A x \in Int : two(x) => v(x) = interpolate(th.mid, th.full, p.mid, p.full, x)
  BY <1>1 DEF evaluate_source
<1>5. \A x \in Int : three(x) => v(x) = interpolate(th.full, th.maximum, p.full, p.maximum, x)
  BY <1>1 DEF evaluate_source
<1>6. \A x \in Int : top(x) => v(x) = p.maximum
  BY <1>1 DEF evaluate_source
<1>7. \A x \in Int : one(x) => v(x) \in p.idle..p.mid
  BY <1>1, <1>3, Segments, InterpolateBounds
<1>8. \A x \in Int : two(x) => v(x) \in p.mid..p.full
  BY <1>1, <1>4, Segments, InterpolateBounds
<1>9. \A x \in Int : three(x) => v(x) \in p.full..p.maximum
  BY <1>1, <1>5, Segments, InterpolateBounds
<1>10. one(t) /\ one(u) => v(t) <= v(u)
  BY <1>1, <1>3, Segments, InterpolateMonotone
<1>11. two(t) /\ two(u) => v(t) <= v(u)
  BY <1>1, <1>4, Segments, InterpolateMonotone
<1>12. three(t) /\ three(u) => v(t) <= v(u)
  BY <1>1, <1>5, Segments, InterpolateMonotone
<1>13. \A x \in Int : low(x) \/ one(x) \/ two(x) \/ three(x) \/ top(x)
  BY <1>1
<1> HIDE DEF v
<1>14. /\ low(t) => v(t) <= v(u)
       /\ top(u) => v(t) <= v(u)
  BY <1>1, <1>2, <1>6, <1>7, <1>8, <1>9, <1>13
<1>15. /\ one(t) /\ (two(u) \/ three(u)) => v(t) <= v(u)
       /\ two(t) /\ three(u) => v(t) <= v(u)
  BY <1>1, <1>7, <1>8, <1>9
<1>16. v(t) <= v(u)
  BY <1>1, <1>10, <1>11, <1>12, <1>13, <1>14, <1>15
<1> QED
  BY <1>16 DEF v

-----------------------------------------------------------------------------
(* The plan. *)

LEMMA ConfigFacts ==
    ASSUME NEW c \in ConfigType, validate_config(c)
    PROVE  /\ c.minimum_pwm \in MinManualPwm..MaxPwm
           /\ c.failsafe_pwm \in c.minimum_pwm..MaxPwm
           /\ c.cpu \in ThresholdType /\ c.hdd \in ThresholdType /\ c.ssd \in ThresholdType
           /\ c.system_pwm \in PointType /\ c.cpu_pwm \in PointType /\ c.floor \in FloorType
           /\ valid_pwm_points(c.system_pwm, c.minimum_pwm)
           /\ valid_pwm_points(c.cpu_pwm, c.minimum_pwm)
           /\ valid_thresholds(c.cpu)
           /\ c.hdd_curve_enabled => valid_thresholds(c.hdd)
           /\ c.ssd_curve_enabled => valid_thresholds(c.ssd)
           /\ c.floor.enabled => valid_cpu_floor(c.floor, c.minimum_pwm)
  BY DEF ConfigType, validate_config, MinManualPwm, MaxPwm

LEMMA FloorBounds ==
    ASSUME NEW c \in ConfigType, validate_config(c), NEW t \in Int
    PROVE  cpu_system_floor(c, t) \in 0..MaxPwm
<1> DEFINE f == c.floor
<1>1. CASE ~f.enabled \/ t < f.start_celsius
  BY <1>1 DEF cpu_system_floor, MaxPwm
<1>2. CASE ~(~f.enabled \/ t < f.start_celsius)
  <2>1. /\ f.start_celsius \in Nat /\ f.end_celsius \in Nat /\ f.start_pwm \in Nat /\ f.end_pwm \in Nat
        /\ f.start_celsius < f.end_celsius /\ f.start_pwm <= f.end_pwm /\ f.end_pwm <= MaxPwm
    BY <1>2, ConfigFacts DEF FloorType, valid_cpu_floor
  <2>2. CASE t >= f.end_celsius
    BY <1>2, <2>1, <2>2 DEF cpu_system_floor, MaxPwm
  <2>3. CASE ~(t >= f.end_celsius)
    <3>1. Segment(f.start_celsius, f.end_celsius, f.start_pwm, f.end_pwm)
      BY <2>1 DEF Segment
    <3>2. t \in f.start_celsius..f.end_celsius
      BY <1>2, <2>1, <2>3
    <3>3. cpu_system_floor(c, t) =
             interpolate(f.start_celsius, f.end_celsius, f.start_pwm, f.end_pwm, t)
      BY <1>2, <2>3 DEF cpu_system_floor
    <3>4. cpu_system_floor(c, t) \in f.start_pwm..f.end_pwm
      BY <3>1, <3>2, <3>3, InterpolateBounds
    <3> QED
      BY <2>1, <3>4 DEF MaxPwm
  <2> QED
    BY <2>2, <2>3
<1> QED
  BY <1>1, <1>2

\* Both PWM values of the plan of a valid configuration lie between its minimum
\* and 255, for every snapshot: the failsafe included.
THEOREM PlanInRange ==
    ASSUME NEW c \in ConfigType, validate_config(c), NEW s \in SnapshotType
    PROVE  evaluate_plan(c, s) \in [cpu : c.minimum_pwm..MaxPwm, system : c.minimum_pwm..MaxPwm]
<1> DEFINE m == c.minimum_pwm
<1>1. s.cpu \in Int /\ s.hdd \in Int /\ s.ssd \in Int
  BY DEF SnapshotType
<1>2. m \in Nat /\ MaxPwm \in Nat /\ m <= MaxPwm /\ c.failsafe_pwm \in m..MaxPwm
  BY ConfigFacts DEF MinManualPwm, MaxPwm
<1>3. /\ evaluate_source(c.cpu, c.system_pwm, s.cpu) \in m..MaxPwm
      /\ evaluate_source(c.cpu, c.cpu_pwm, s.cpu) \in m..MaxPwm
  BY <1>1, <1>2, ConfigFacts, SourceBounds
<1>4. StorageTarget(c.hdd_curve_enabled, c.hdd, c.system_pwm, s.hdd) \in 0..MaxPwm
  <2>1. c.hdd_curve_enabled => evaluate_source(c.hdd, c.system_pwm, s.hdd) \in m..MaxPwm
    BY <1>1, <1>2, ConfigFacts, SourceBounds
  <2> QED
    BY <1>2, <2>1 DEF StorageTarget
<1>5. StorageTarget(c.ssd_curve_enabled, c.ssd, c.system_pwm, s.ssd) \in 0..MaxPwm
  <2>1. c.ssd_curve_enabled => evaluate_source(c.ssd, c.system_pwm, s.ssd) \in m..MaxPwm
    BY <1>1, <1>2, ConfigFacts, SourceBounds
  <2> QED
    BY <1>2, <2>1 DEF StorageTarget
<1>6. cpu_system_floor(c, s.cpu) \in 0..MaxPwm
  BY <1>1, FloorBounds
<1>7. SystemTarget(c, s) \in m..MaxPwm
  BY <1>2, <1>3, <1>4, <1>5, <1>6 DEF SystemTarget, maximum_of
<1>8. CpuTarget(c, s) \in m..MaxPwm
  BY <1>3, <1>7 DEF CpuTarget
<1> QED
  BY <1>2, <1>7, <1>8 DEF evaluate_plan, failsafe_plan, maximum_of

LEMMA FloorMonotone ==
    ASSUME NEW c \in ConfigType, validate_config(c), NEW t \in Int, NEW u \in Int, t <= u
    PROVE  cpu_system_floor(c, t) <= cpu_system_floor(c, u)
<1> DEFINE f == c.floor
           v(x) == cpu_system_floor(c, x)
<1>1. \A x \in Int : ~f.enabled \/ x < f.start_celsius => v(x) = 0
  BY DEF cpu_system_floor
<1>2. v(t) \in Nat /\ v(u) \in Nat
  BY FloorBounds DEF MaxPwm
<1>3. CASE ~f.enabled \/ t < f.start_celsius
  BY <1>1, <1>2, <1>3
<1>4. CASE f.enabled /\ t >= f.start_celsius
  <2>1. /\ f.start_celsius \in Nat /\ f.end_celsius \in Nat /\ f.start_pwm \in Nat /\ f.end_pwm \in Nat
        /\ f.start_celsius < f.end_celsius /\ f.start_pwm <= f.end_pwm
    BY <1>4, ConfigFacts DEF FloorType, valid_cpu_floor
  <2>2. Segment(f.start_celsius, f.end_celsius, f.start_pwm, f.end_pwm)
    BY <2>1 DEF Segment
  <2>3. \A x \in Int : x >= f.end_celsius => v(x) = f.end_pwm
    BY <1>4, <2>1 DEF cpu_system_floor
  <2>4. \A x \in Int : x >= f.start_celsius /\ x < f.end_celsius =>
            v(x) = interpolate(f.start_celsius, f.end_celsius, f.start_pwm, f.end_pwm, x)
    BY <1>4, <2>1 DEF cpu_system_floor
  <2>5. CASE u < f.end_celsius
    <3>1. /\ t \in f.start_celsius..f.end_celsius /\ u \in f.start_celsius..f.end_celsius
          /\ v(t) = interpolate(f.start_celsius, f.end_celsius, f.start_pwm, f.end_pwm, t)
          /\ v(u) = interpolate(f.start_celsius, f.end_celsius, f.start_pwm, f.end_pwm, u)
      BY <1>4, <2>1, <2>4, <2>5
    <3> QED
      BY <2>2, <3>1, InterpolateMonotone
  <2>6. CASE t >= f.end_celsius
    BY <2>1, <2>3, <2>6
  <2>7. CASE t < f.end_celsius /\ u >= f.end_celsius
    <3>1. t \in f.start_celsius..f.end_celsius
      BY <1>4, <2>1, <2>7
    <3>2. v(t) \in f.start_pwm..f.end_pwm
      BY <1>4, <2>2, <2>4, <2>7, <3>1, InterpolateBounds
    <3> QED
      BY <2>1, <2>3, <2>7, <3>2
  <2> QED
    BY <2>1, <2>5, <2>6, <2>7
<1> QED
  BY <1>3, <1>4, ConfigFacts DEF FloorType

LEMMA StorageMonotone ==
    ASSUME NEW th \in ThresholdType, NEW p \in PointType, NEW minimum \in Nat, NEW on \in BOOLEAN,
           on => valid_thresholds(th), valid_pwm_points(p, minimum),
           NEW t \in Int, NEW u \in Int, t <= u
    PROVE  StorageTarget(on, th, p, t) <= StorageTarget(on, th, p, u)
<1>1. CASE on /\ t >= 0
  BY <1>1, SourceMonotone DEF StorageTarget
<1>2. CASE ~(on /\ t >= 0)
  <2>1. StorageTarget(on, th, p, t) = 0
    BY <1>2 DEF StorageTarget
  <2>2. on => evaluate_source(th, p, u) \in minimum..MaxPwm
    BY SourceBounds
  <2>3. StorageTarget(on, th, p, u) \in Nat
    BY <2>2 DEF StorageTarget, MaxPwm
  <2> QED
    BY <2>1, <2>3
<1> QED
  BY <1>1, <1>2

\* A machine that is at least as warm in every sensor gets at least as much air
\* on both channels, for every valid configuration: across segment boundaries,
\* over the CPU floor's step, and when a storage sensor appears.
THEOREM PlanMonotone ==
    ASSUME NEW c \in ConfigType, validate_config(c),
           NEW s \in SnapshotType, NEW u \in SnapshotType, Evaluable(c, s),
           s.cpu <= u.cpu, s.hdd <= u.hdd, s.ssd <= u.ssd
    PROVE  /\ evaluate_plan(c, s).cpu <= evaluate_plan(c, u).cpu
           /\ evaluate_plan(c, s).system <= evaluate_plan(c, u).system
<1> DEFINE m == c.minimum_pwm
           cpuSys(x) == evaluate_source(c.cpu, c.system_pwm, x.cpu)
           cpuCpu(x) == evaluate_source(c.cpu, c.cpu_pwm, x.cpu)
           hdd(x) == StorageTarget(c.hdd_curve_enabled, c.hdd, c.system_pwm, x.hdd)
           ssd(x) == StorageTarget(c.ssd_curve_enabled, c.ssd, c.system_pwm, x.ssd)
           floor(x) == cpu_system_floor(c, x.cpu)
<1>1. \A x \in SnapshotType : x.cpu \in Int /\ x.hdd \in Int /\ x.ssd \in Int
  BY DEF SnapshotType
<1>2. m \in Nat /\ c.hdd_curve_enabled \in BOOLEAN /\ c.ssd_curve_enabled \in BOOLEAN
  BY DEF ConfigType
<1>3. Evaluable(c, u)
  BY <1>1 DEF Evaluable
<1>4. cpuSys(s) <= cpuSys(u) /\ cpuCpu(s) <= cpuCpu(u)
  BY <1>1, <1>2, ConfigFacts, SourceMonotone
<1>5. hdd(s) <= hdd(u) /\ ssd(s) <= ssd(u)
  BY <1>1, <1>2, ConfigFacts, StorageMonotone
<1>6. floor(s) <= floor(u)
  BY <1>1, FloorMonotone
<1>7. \A x \in SnapshotType : cpuSys(x) \in Nat /\ cpuCpu(x) \in Nat
  BY <1>1, <1>2, ConfigFacts, SourceBounds DEF MaxPwm
<1>8. \A x \in SnapshotType : floor(x) \in Nat
  BY <1>1, FloorBounds DEF MaxPwm
<1>9. \A x \in SnapshotType : hdd(x) \in Nat
  <2>1. \A x \in SnapshotType : c.hdd_curve_enabled =>
            evaluate_source(c.hdd, c.system_pwm, x.hdd) \in m..MaxPwm
    BY <1>1, <1>2, ConfigFacts, SourceBounds
  <2> QED
    BY <1>2, <2>1 DEF StorageTarget, MaxPwm
<1>10. \A x \in SnapshotType : ssd(x) \in Nat
  <2>1. \A x \in SnapshotType : c.ssd_curve_enabled =>
            evaluate_source(c.ssd, c.system_pwm, x.ssd) \in m..MaxPwm
    BY <1>1, <1>2, ConfigFacts, SourceBounds
  <2> QED
    BY <1>2, <2>1 DEF StorageTarget, MaxPwm
<1>11. \A x : SystemTarget(c, x) = maximum_of(maximum_of(maximum_of(cpuSys(x), hdd(x)), ssd(x)), floor(x))
  BY DEF SystemTarget
<1>12. \A x : CpuTarget(c, x) = IF c.profile = "custom" THEN SystemTarget(c, x) ELSE cpuCpu(x)
  BY DEF CpuTarget
<1> HIDE DEF cpuSys, cpuCpu, hdd, ssd, floor
<1>13. /\ SystemTarget(c, s) <= SystemTarget(c, u)
       /\ SystemTarget(c, s) \in Nat /\ SystemTarget(c, u) \in Nat
  BY <1>4, <1>5, <1>6, <1>7, <1>8, <1>9, <1>10, <1>11 DEF maximum_of
<1>14. CpuTarget(c, s) <= CpuTarget(c, u) /\ CpuTarget(c, s) \in Nat /\ CpuTarget(c, u) \in Nat
  BY <1>4, <1>7, <1>12, <1>13
<1> QED
  BY <1>2, <1>3, <1>13, <1>14 DEF evaluate_plan, maximum_of
=============================================================================
