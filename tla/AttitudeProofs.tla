--------------------------- MODULE AttitudeProofs ---------------------------
(***************************************************************************)
(* The attitude control, sensor to output: the estimate of mpu6050.c is       *)
(* bounded for every range of the sensors, every gap and every weight of the  *)
(* filter, and the controller of pid.c keeps its limits for all gains, limits *)
(* and inputs.                                                                *)
(***************************************************************************)
EXTENDS Mpu6050, Pid, TLAPS

(* The attitude estimate.                                                  *)

\* Multiplication by a natural number preserves the order.
LEMMA TimesMono ==
  ASSUME NEW k \in Nat, NEW x \in Int, NEW y \in Int, x <= y
  PROVE  k * x <= k * y
OBVIOUS

\* A quotient lies between bounds that hold for the dividend.
LEMMA QuotientBounds ==
  ASSUME NEW d \in Nat \ {0}, NEW z \in Int, NEW b \in Int,
         -(d * b) <= z, z <= d * b + d - 1
  PROVE  z \div d \in (-b) .. b
OBVIOUS

\* A rotation over a time step is limited by the largest rate and gap.
LEMMA Rotation ==
  ASSUME NEW g \in Int, NEW t \in Nat, NEW R \in Nat, NEW T \in Nat,
         g \in (-R) .. R, t <= T
  PROVE  g * t \in Int /\ -(R * T) <= g * t /\ g * t <= R * T
<1>1. t * g <= t * R /\ t * (-R) <= t * g
  BY TimesMono
<1>2. R * t <= R * T
  BY TimesMono
<1> QED
  BY <1>1, <1>2

\* The time step of a reading is at most MaxGap.
LEMMA StepBound ==
  ASSUME age \in 0 .. MaxGap + 1
  PROVE  dt \in Nat /\ dt <= MaxGap
BY FilterAssumption DEF dt

\* One application of the complementary filter keeps an angle within Bound.
LEMMA FuseBounded ==
  ASSUME age \in 0 .. MaxGap + 1,
         NEW x \in (-Bound) .. Bound, NEW g \in Gyro, NEW a \in Accel,
         NEW up \in {0, N}
  PROVE  Fuse(x, g, a, up) \in (-Bound) .. Bound
<1> DEFINE RG == MaxRate * MaxGap
           z == N * (x + g * dt) + a + up
<1>1. /\ N \in Nat /\ MaxAccel \in Nat /\ MaxRate \in Nat /\ MaxGap \in Nat
      /\ a \in Int /\ -MaxAccel <= a /\ a <= MaxAccel
      /\ g \in (-MaxRate) .. MaxRate
  BY FilterAssumption
<1>2. RG \in Nat /\ N * RG \in Nat
  BY <1>1
<1>3. Bound \in Nat /\ Bound = N * RG + MaxAccel
  BY <1>1, <1>2 DEF Bound
<1>4. g * dt \in Int /\ -RG <= g * dt /\ g * dt <= RG
  BY <1>1, StepBound, Rotation
<1> HIDE DEF RG
<1>5. x \in Int /\ -Bound <= x /\ x <= Bound
  BY <1>3
<1> DEFINE y == x + g * dt
<1>6. y \in Int /\ -(Bound + RG) <= y /\ y <= Bound + RG
  BY <1>2, <1>3, <1>4, <1>5
<1>7. N * y <= N * (Bound + RG) /\ N * (-(Bound + RG)) <= N * y
  BY <1>1, <1>2, <1>3, <1>6, TimesMono
<1>8. N * (Bound + RG) = N * Bound + N * RG
  BY <1>1, <1>2, <1>3
<1> HIDE DEF y
<1>9. /\ N * y + a + up \in Int
      /\ -((N + 1) * Bound) <= N * y + a + up
      /\ N * y + a + up <= (N + 1) * Bound + (N + 1) - 1
  BY <1>1, <1>2, <1>3, <1>6, <1>7, <1>8
<1>10. (N * y + a + up) \div (N + 1) \in (-Bound) .. Bound
  BY <1>1, <1>3, <1>9, QuotientBounds
<1> QED
  BY <1>10 DEF Fuse, y

\* Before mpu6050_init no reading has moved the estimate.
FilterInv == Bounded /\ (~init => pitch = 0 /\ roll = 0)

\* The range of the estimate is not empty.
LEMMA BoundNat == Bound \in Nat
BY FilterAssumption DEF Bound

\* The estimate of pitch and roll never leaves Bound, for every sequence of
\* readings, failed readings and pauses.
LEMMA FilterInvariance == FilterSpec => []FilterInv
<1>1. FilterInit => FilterInv
  <2> SUFFICES ASSUME FilterInit PROVE FilterInv
    OBVIOUS
  <2>1. 0 \in (-Bound) .. Bound
    BY BoundNat
  <2>2. age \in 0 .. MaxGap + 1
    BY FilterAssumption DEF FilterInit
  <2> QED
    BY <2>1, <2>2 DEF FilterInit, FilterInv, Bounded
<1>2. FilterInv /\ [FilterNext]_filterVars => FilterInv'
  <2> SUFFICES ASSUME FilterInv, [FilterNext]_filterVars
               PROVE  FilterInv'
    OBVIOUS
  <2> USE DEF FilterInv
  <2>1. CASE Tick
    BY <2>1, FilterAssumption DEF Tick, Bounded
  <2>2. CASE mpu6050_init
    BY <2>2, FilterAssumption DEF mpu6050_init, Bounded
  <2>3. CASE mpu6050_read_angles
    <3>1. pitch' \in (-Bound) .. Bound
      BY <2>3, FuseBounded DEF mpu6050_read_angles, Bounded
    <3>2. roll' \in (-Bound) .. Bound
      BY <2>3, FuseBounded DEF mpu6050_read_angles, Bounded
    <3> QED
      BY <2>3, <3>1, <3>2, FilterAssumption DEF mpu6050_read_angles, Bounded
  <2>4. CASE UNCHANGED filterVars
    BY <2>4 DEF filterVars, Bounded
  <2> QED
    BY <2>1, <2>2, <2>3, <2>4 DEF FilterNext
<1> QED
  BY <1>1, <1>2, PTL DEF FilterSpec

\* The attitude estimate of mpu6050_read_angles is bounded, however long the
\* gyroscope errs and however the readings are spaced.
THEOREM EstimateBounded == FilterSpec => []Bounded
<1>1. FilterInv => Bounded
  BY DEF FilterInv
<1> QED
  BY <1>1, FilterInvariance, PTL

-----------------------------------------------------------------------------
\* A quotient times its divisor is the dividend up to a remainder.
LEMMA QuotientTimes ==
  ASSUME NEW d \in Nat \ {0}, NEW z \in Int
  PROVE  /\ z \div d \in Int
         /\ z - (d - 1) <= d * (z \div d) /\ d * (z \div d) <= z
OBVIOUS

\* After an outage the filter integrates one tick.
LEMMA FuseAfterOutage ==
  ASSUME age > MaxGap,
         NEW x \in Int, NEW g \in Gyro, NEW a \in Accel, NEW up \in {0, N}
  PROVE  SmallStep(x, Fuse(x, g, a, up))
<1>1. /\ N \in Nat /\ MaxAccel \in Nat /\ MaxRate \in Nat
      /\ a \in Int /\ -MaxAccel <= a /\ a <= MaxAccel
      /\ g \in Int /\ -MaxRate <= g /\ g <= MaxRate
  BY FilterAssumption
<1> DEFINE z == N * (x + g) + a + up
           y == z \div (N + 1)
<1>2. Fuse(x, g, a, up) = y
  BY <1>1 DEF Fuse, dt
<1>3. N * g <= N * MaxRate /\ N * (-MaxRate) <= N * g
  BY <1>1, TimesMono
<1>4. z \in Int /\ z = N * x + N * g + a + up
  BY <1>1
<1>5. y \in Int /\ z - N <= (N + 1) * y /\ (N + 1) * y <= z
  <2> HIDE DEF z
  <2> DEFINE d == N + 1
  <2>1. d \in Nat \ {0} /\ d - 1 = N
    BY <1>1
  <2> HIDE DEF d
  <2>2. /\ z \div d \in Int
        /\ z - (d - 1) <= d * (z \div d) /\ d * (z \div d) <= z
    BY <1>4, <2>1, QuotientTimes
  <2> QED
    BY <2>1, <2>2 DEF d
<1> HIDE DEF z, y
<1>6. (N + 1) * (y - x) = (N + 1) * y - N * x - x
  BY <1>1, <1>5
<1>7. SmallStep(x, y)
  BY <1>1, <1>3, <1>4, <1>5, <1>6 DEF SmallStep
<1> QED
  BY <1>2, <1>7

\* The first reading after an outage moves the estimate by one tick of rotation
\* at most, for every gap and every weight of the filter in mpu6050_read_angles.
THEOREM OutageStepBounded == FilterSpec => OutageIsNotIntegrated
<1>1. FilterInv /\ [FilterNext]_filterVars => [OutageStep]_filterVars
  <2> SUFFICES ASSUME FilterInv, FilterNext, age > MaxGap, filterVars' # filterVars
               PROVE  SmallStep(pitch, pitch') /\ SmallStep(roll, roll')
    BY DEF OutageStep
  <2>1. CASE Tick
    BY <2>1 DEF Tick, filterVars
  <2>2. CASE mpu6050_init
    <3>1. pitch = 0 /\ roll = 0 /\ pitch' = 0 /\ roll' = 0
      BY <2>2 DEF mpu6050_init, FilterInv
    <3>2. N * MaxRate \in Nat
      BY FilterAssumption
    <3> QED
      BY <3>1, <3>2, FilterAssumption DEF SmallStep
  <2>3. CASE mpu6050_read_angles
    <3>1. pitch \in Int /\ roll \in Int
      BY BoundNat DEF FilterInv, Bounded
    <3> QED
      BY <2>3, <3>1, FuseAfterOutage DEF mpu6050_read_angles
  <2> QED
    BY <2>1, <2>2, <2>3 DEF FilterNext
<1> QED
  BY <1>1, FilterInvariance, PTL DEF FilterSpec, OutageIsNotIntegrated

-----------------------------------------------------------------------------
(* The controller.                                                         *)

\* clamp returns a value between its limits.
LEMMA ClampRange ==
  ASSUME NEW v \in Int, NEW l \in Nat
  PROVE  clamp(v, -l, l) \in (-l) .. l
BY DEF clamp

\* Averaging two changes that are within the bound stays within it.
LEMMA DerivativeRange ==
  ASSUME NEW c \in Controller, NEW e \in (-MaxError) .. MaxError,
         NEW up \in {0, 1}
  PROVE  Derivative(c, e, up) \in (-DMax) .. DMax
BY GainsAssumption DEF Derivative, DMax, Rate, Controller

\* One pid_compute keeps the controller within its limits.
LEMMA StepLimited ==
  ASSUME NEW c \in Controller, NEW e \in (-MaxError) .. MaxError,
         NEW up \in {0, 1}
  PROVE  Step(c, e, up) \in Controller
<1>1. clamp(c.integral + e, -ILimit, ILimit) \in (-ILimit) .. ILimit
  <2>1. c.integral + e \in Int
    BY GainsAssumption DEF Controller
  <2>2. QED
    BY <2>1, ClampRange, GainsAssumption
<1>2. Derivative(c, e, up) \in (-DMax) .. DMax
  BY DerivativeRange
<1>3. QED
  BY <1>1, <1>2 DEF Step, Controller

\* The output of a controller within its limits is within out_limit.
LEMMA OutputLimited ==
  ASSUME NEW c \in Controller
  PROVE  Output(c) \in (-OutLimit) .. OutLimit
<1>1. c.prev_error \in Int /\ c.integral \in Int /\ c.prev_derivative \in Int
  BY GainsAssumption DEF Controller, DMax, Rate
<1>2. KP * c.prev_error \in Int /\ KD * c.prev_derivative \in Int
  BY <1>1, GainsAssumption
<1>3. (KI * c.integral) \div Rate \in Int
  <2>1. KI * c.integral \in Int
    BY <1>1, GainsAssumption
  <2>2. QED
    BY <2>1 DEF Rate
<1>4. KP * c.prev_error + (KI * c.integral) \div Rate + KD * c.prev_derivative
        \in Int
  BY <1>2, <1>3
<1>5. QED
  BY <1>4, ClampRange, GainsAssumption DEF Output

\* The errors app_main can produce are within the bound.
LEMMA ErrorRange ==
  ASSUME NEW s \in Setpoints, NEW a \in Angles
  PROVE  s - a \in (-MaxError) .. MaxError
BY ErrorAssumption

PInv == Limited /\ ResetForgets

\* Limits and the agreement with the twin are an inductive invariant.
LEMMA PidInductive == PInv /\ [PidNext]_pidVars => PInv'
<1> SUFFICES ASSUME PInv, [PidNext]_pidVars PROVE PInv'
  OBVIOUS
<1> USE DEF PInv, Limited, ResetForgets
<1>1. CASE \E s \in Setpoints, a \in Angles : pid_compute(s, a)
  <2>1. PICK s \in Setpoints, a \in Angles, up \in {0, 1} :
          /\ pid' = Step(pid, s - a, up)
          /\ out' = Output(pid')
          /\ twin' = Step(twin, s - a, up)
    BY <1>1 DEF pid_compute
  <2>2. pid' \in Controller
    BY <2>1, ErrorRange, StepLimited
  <2>3. QED
    BY <2>1, <2>2, OutputLimited
<1>2. CASE pid_reset
  <2>1. pid' = pid_init
    BY <1>2 DEF pid_reset, pid_init, Controller
  <2>2. pid' \in Controller
    BY <2>1, GainsAssumption DEF pid_init, Controller, DMax, Rate
  <2>3. QED
    BY <1>2, <2>1, <2>2 DEF pid_reset
<1>3. CASE UNCHANGED pidVars
  BY <1>3 DEF pidVars
<1>4. QED
  BY <1>1, <1>2, <1>3 DEF PidNext

\* For all gains and limits: integral, derivative and output stay limited, and
\* a reset controller is indistinguishable from a new one.
THEOREM PidSafe == PidSpec => [](Limited /\ ResetForgets)
<1>1. PidInit => PInv
  BY GainsAssumption DEF PidInit, pid_init, PInv, Limited, ResetForgets, Controller,
     DMax, Rate
<1>2. QED
  BY <1>1, PidInductive, PTL DEF PidSpec, PInv

\* For all gains: after pid_reset nothing of the flight before is left, so the
\* next start of the motors gets no kick from it.
THEOREM ResetIsClean == PidSpec => []ResetForgets
  BY PidSafe, PTL

\* For all gains: with a resting error the derivative dies out.
THEOREM DerivativeFilter == PidSpec => DerivativeDies
<1>1. PInv /\ [PidNext]_pidVars => [Dies]_pidVars
  <2> SUFFICES ASSUME PInv, PidNext PROVE Dies
    OBVIOUS
  <2>1. pid.prev_error \in Int /\ pid.prev_derivative \in Int
    BY GainsAssumption DEF PInv, Limited, Controller, DMax, Rate
  <2>2. CASE \E s \in Setpoints, a \in Angles : pid_compute(s, a)
    <3>1. PICK s \in Setpoints, a \in Angles, up \in {0, 1} :
            pid' = Step(pid, s - a, up)
      BY <2>2 DEF pid_compute
    <3>2. SUFFICES ASSUME pid'.prev_error = pid.prev_error PROVE Dies
      BY DEF Dies
    <3>3. pid'.prev_derivative
            = (Rate * (pid.prev_error - pid.prev_error)
                 + pid.prev_derivative + up) \div 2
      BY <3>1, <3>2 DEF Step, Derivative
    <3>4. pid'.prev_derivative = (pid.prev_derivative + up) \div 2
      BY <2>1, <3>3 DEF Rate
    <3>5. QED
      BY <2>1, <3>4 DEF Dies
  <2>3. CASE pid_reset
    <3>1. pid'.prev_derivative = 0
      BY <2>3 DEF pid_reset, PInv, Limited, Controller
    <3>2. QED
      BY <2>1, <3>1 DEF Dies
  <2>4. QED
    BY <2>2, <2>3 DEF PidNext
<1>2. PidInit => PInv
  BY GainsAssumption DEF PidInit, pid_init, PInv, Limited, ResetForgets, Controller,
     DMax, Rate
<1>3. QED
  BY <1>1, <1>2, PidInductive, PTL DEF PidSpec, DerivativeDies

-----------------------------------------------------------------------------
(* The estimate feeds the controller: app_main passes the angles that        *)
(* mpu6050_read_angles delivered to pid_compute.                             *)

\* The caller's angles are an estimate with its sign turned.
Delivered == angles \in ((-Bound) .. Bound) \X ((-Bound) .. Bound)

\* The errors that set points within tilt lead to.
ErrorsWithin(tilt) ==
  \A s \in Setpoints, i \in {1, 2} :
    s - angles[i] \in (-(tilt + Bound)) .. (tilt + Bound)

\* What the caller of mpu6050_read_angles gets is bounded as the estimate is,
\* before the first reading and after failed ones too.
LEMMA AnglesDelivered == FilterSpec => []Delivered
<1>1. FilterInit => Delivered
  BY BoundNat DEF FilterInit, Delivered
<1>2. FilterInv' /\ Delivered /\ [FilterNext]_filterVars => Delivered'
  <2> SUFFICES ASSUME FilterInv', Delivered, [FilterNext]_filterVars
               PROVE  Delivered'
    OBVIOUS
  <2>1. CASE mpu6050_read_angles
    <3>1. pitch' \in (-Bound) .. Bound /\ roll' \in (-Bound) .. Bound
      BY DEF FilterInv, Bounded
    <3>2. -pitch' \in (-Bound) .. Bound /\ -roll' \in (-Bound) .. Bound
      <4>1. \A b \in Nat : \A x \in (-b) .. b : -x \in (-b) .. b
        OBVIOUS
      <4> QED
        BY <3>1, <4>1, BoundNat
    <3>3. angles' = <<-roll', -pitch'>>
      BY <2>1 DEF mpu6050_read_angles
    <3> QED
      BY <3>2, <3>3 DEF Delivered, Bound
  <2>2. CASE UNCHANGED angles
    BY <2>2 DEF Delivered
  <2> QED
    BY <2>1, <2>2 DEF FilterNext, Tick, mpu6050_init, filterVars
<1> QED
  BY <1>1, <1>2, FilterInvariance, PTL DEF FilterSpec

\* For every spacing of readings, outages included, the errors app_main hands to
\* pid_compute are within the set points' tilt and the estimate's bound: a
\* MaxError of that size is all that the controller's limits assume of the sensor.
THEOREM EstimateSuitsController ==
  ASSUME NEW tilt \in Nat, Setpoints \subseteq (-tilt) .. tilt
  PROVE  FilterSpec => []ErrorsWithin(tilt)
<1>1. Delivered => ErrorsWithin(tilt)
  <2> SUFFICES ASSUME Delivered, NEW s \in Setpoints, NEW i \in {1, 2}
               PROVE  s - angles[i] \in (-(tilt + Bound)) .. (tilt + Bound)
    BY DEF ErrorsWithin
  <2>1. angles[i] \in (-Bound) .. Bound
    BY DEF Delivered
  <2>2. s \in (-tilt) .. tilt
    OBVIOUS
  <2> DEFINE x == angles[i]
  <2> HIDE DEF x
  <2>3. x \in (-Bound) .. Bound
    BY <2>1 DEF x
  <2>4. s - x \in (-(tilt + Bound)) .. (tilt + Bound)
    BY <2>2, <2>3, BoundNat
  <2> QED
    BY <2>4 DEF x
<1> QED
  BY <1>1, AnglesDelivered, PTL

\* The filter of mpu6050_read_angles forgets where it started: two estimates that are
\* given the same reading keep their order and come closer by the factor alpha, up to
\* rounding, whatever the gyroscope reported and however long ago the last reading was.
\* An error of the estimate, as the one it has at power-up, is not carried along.
THEOREM FilterForgets ==
  ASSUME age \in 0 .. MaxGap + 1,
         NEW x \in Int, NEW y \in Int, y <= x,
         NEW g \in Gyro, NEW a \in Accel, NEW up \in {0, N}
  PROVE  LET gap == Fuse(x, g, a, up) - Fuse(y, g, a, up)
         IN  0 <= gap /\ (N + 1) * gap <= N * (x - y) + N
<1>1. N \in Nat /\ g \in Int /\ a \in Int /\ up \in Int /\ dt \in Int
  BY FilterAssumption, StepBound
<1> DEFINE r == g * dt
           zx == N * (x + r) + a + up
           zy == N * (y + r) + a + up
           qx == zx \div (N + 1)
           qy == zy \div (N + 1)
           w == N * (x - y)
<1>2. r \in Int
  BY <1>1
<1> HIDE DEF r
<1>3. zx \in Int /\ zy \in Int /\ w \in Int /\ zx - zy = w
  BY <1>1, <1>2
<1>4. 0 <= w
  BY <1>1, TimesMono
<1>5. /\ qx \in Int /\ zx - N <= (N + 1) * qx /\ (N + 1) * qx <= zx
      /\ qy \in Int /\ zy - N <= (N + 1) * qy /\ (N + 1) * qy <= zy
  <2>1. N + 1 \in Nat \ {0} /\ (N + 1) - 1 = N
    BY <1>1
  <2> HIDE DEF zx, zy
  <2>2. /\ zx \div (N + 1) \in Int
        /\ zx - ((N + 1) - 1) <= (N + 1) * (zx \div (N + 1))
        /\ (N + 1) * (zx \div (N + 1)) <= zx
    BY <1>3, <2>1, QuotientTimes
  <2>3. /\ zy \div (N + 1) \in Int
        /\ zy - ((N + 1) - 1) <= (N + 1) * (zy \div (N + 1))
        /\ (N + 1) * (zy \div (N + 1)) <= zy
    BY <1>3, <2>1, QuotientTimes
  <2> QED
    BY <2>1, <2>2, <2>3
<1> HIDE DEF qx, qy, zx, zy, w
<1>6. (N + 1) * (qx - qy) = (N + 1) * qx - (N + 1) * qy
  BY <1>1, <1>5
<1>7. (N + 1) * (qx - qy) <= w + N /\ -N <= (N + 1) * (qx - qy)
  <2> DEFINE px == (N + 1) * qx
             py == (N + 1) * qy
             p == (N + 1) * (qx - qy)
  <2>1. /\ px \in Int /\ py \in Int /\ p = px - py
        /\ zx - N <= px /\ px <= zx /\ zy - N <= py /\ py <= zy
    BY <1>1, <1>5, <1>6
  <2> HIDE DEF px, py, p
  <2>2. p <= w + N /\ -N <= p
    BY <1>1, <1>3, <1>4, <2>1
  <2> QED
    BY <2>2 DEF p
<1>8. 0 <= qx - qy
  <2> SUFFICES ASSUME qx - qy <= -1 PROVE FALSE
    BY <1>5
  <2>1. (N + 1) * (qx - qy) <= (N + 1) * (-1)
    BY <1>1, <1>5, TimesMono
  <2>2. (N + 1) * (-1) = -N - 1
    BY <1>1
  <2> DEFINE p == (N + 1) * (qx - qy)
  <2>3. p \in Int /\ -N <= p /\ p <= -N - 1
    BY <1>1, <1>5, <1>7, <2>1, <2>2
  <2> HIDE DEF p
  <2> QED
    BY <1>1, <2>3
<1>9. Fuse(x, g, a, up) = qx /\ Fuse(y, g, a, up) = qy
  BY DEF Fuse, qx, qy, zx, zy, r
<1> QED
  BY <1>7, <1>8, <1>9 DEF w

===============================================================================
