------------------------------- MODULE Mpu6050 -------------------------------
(***************************************************************************)
(* The attitude estimate of components/mpu6050/mpu6050.c: the complementary  *)
(* filter behind mpu6050_read_angles and the time step it integrates over.    *)
(*                                                                         *)
(* Time is counted in ticks of 10 ms, angles in whole degrees, gyro rates in  *)
(* degrees per tick.  alpha is N / (N + 1), 49/50 in the code; a quotient      *)
(* that is not a whole number is rounded down or up.                          *)
(***************************************************************************)
EXTENDS Integers

CONSTANTS
  Gyro,      \* rotation rates the gyroscope may report
  Accel,     \* angles atan2 may compute from the accelerometer
  MaxRate,   \* bound on the rates (500 degrees per second in the code)
  MaxAccel,  \* bound on those angles (180 degrees in the code)
  MaxGap,    \* the longest time step that is integrated (0.5 s)
  N          \* alpha = N / (N + 1)

ASSUME FilterAssumption ==
  /\ MaxRate \in Nat /\ MaxAccel \in Nat /\ MaxGap \in Nat \ {0} /\ N \in Nat
  /\ Gyro \subseteq (-MaxRate) .. MaxRate
  /\ Accel \subseteq (-MaxAccel) .. MaxAccel

VARIABLES
  init,      \* has mpu6050_init succeeded?
  age,       \* ticks since last_read_time (MaxGap + 1: more than MaxGap)
  pitch, roll,    \* current_angle_pitch, current_angle_roll
  angles     \* what the caller's mpu6050_angles_t holds, <<pitch, roll>>

filterVars == <<init, age, pitch, roll, angles>>

FilterInit ==
  /\ init = FALSE
  /\ age = MaxGap + 1      \* last_read_time = 0 at boot
  /\ pitch = 0 /\ roll = 0
  /\ angles = <<0, 0>>

\* The time passes.
Tick ==
  /\ age' = IF age > MaxGap THEN age ELSE age + 1
  /\ UNCHANGED <<init, pitch, roll, angles>>

\* Every I2C write succeeded: the clock starts.  (app_main reboots otherwise.)
mpu6050_init ==
  /\ ~init
  /\ init' = TRUE
  /\ age' = 0
  /\ UNCHANGED <<pitch, roll, angles>>

\* Mistake: the time step is not limited.
dt_unlimited == age

\* if (dt > 0.5f) dt = 0.01f;
dt == IF age > MaxGap THEN 1 ELSE age

\* alpha * (angle + gyro * dt) + (1 - alpha) * acc
Fuse(angle, gyro, acc, up) ==
  (N * (angle + gyro * dt) + acc + up) \div (N + 1)

\* i2c_master_write_read_device returned ESP_OK.
mpu6050_read_angles ==
  /\ init
  /\ age' = 0
  /\ \E g \in Gyro, a \in Accel, up \in {0, N} : pitch' = Fuse(pitch, g, a, up)
  /\ \E g \in Gyro, a \in Accel, up \in {0, N} : roll' = Fuse(roll, g, a, up)
  /\ angles' = <<-roll', -pitch'>>
  /\ init' = init

\* An I2C error leaves the filter, its clock and the caller's angles alone; what
\* is seen of it is the time it takes, so it is no action of its own.
FilterNext == Tick \/ mpu6050_init \/ mpu6050_read_angles

FilterSpec == FilterInit /\ [][FilterNext]_filterVars

-----------------------------------------------------------------------------
Bound == N * MaxRate * MaxGap + MaxAccel

\* The estimate cannot run away, however long the gyroscope is off and however
\* the reads are spaced: rotation enters over at most MaxGap ticks a read and the
\* accelerometer pulls it back.
Bounded ==
  /\ init \in BOOLEAN
  /\ age \in 0 .. MaxGap + 1
  /\ pitch \in (-Bound) .. Bound
  /\ roll \in (-Bound) .. Bound

SmallStep(x, y) ==
  (N + 1) * (y - x) \in (-(N * MaxRate + MaxAccel + x + N))
                        .. (N * MaxRate + MaxAccel - x + N)

OutageStep == age > MaxGap => SmallStep(pitch, pitch') /\ SmallStep(roll, roll')

\* The first reading after an outage of more than half a second moves the
\* estimate by one tick of rotation and a share of the accelerometer's
\* correction at most, not by the rotation of the whole outage.
OutageIsNotIntegrated == [][OutageStep]_filterVars

=============================================================================
