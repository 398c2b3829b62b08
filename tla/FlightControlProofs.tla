------------------------- MODULE FlightControlProofs -------------------------
(***************************************************************************)
(* Safety of FlightControl for every set of controllers, every report they   *)
(* may send, every PID output within the limit and any number of reboots.    *)
(***************************************************************************)
EXTENDS FlightControl, TLAPS

-----------------------------------------------------------------------------
(* The pure functions.                                                     *)

\* A percentage in speed units is a number.
LEMMA PercentInt ==
  ASSUME NEW n \in Int
  PROVE  Percent(n) \in Int
BY DEF Percent

\* Full speed in units of 1/492 percent.
LEMMA FullSpeed == Percent(100) = 49200
BY DEF Percent

\* motor_set_speed never writes a duty beyond the 10-bit timer.
LEMMA DutyRange ==
  ASSUME NEW s \in Int
  PROVE  DutyOf(s) \in 0 .. 1023
<1> DEFINE c == clamp(s, 0, 49200)
<1>1. DutyOf(s) = (c * 1023) \div 49200
  BY DEF DutyOf, Percent
<1>2. c \in Int /\ 0 <= c /\ c <= 49200
  BY DEF clamp
<1> HIDE DEF c
<1>3. QED
  BY <1>1, <1>2

\* Speed 0 is duty 0.
LEMMA DutyZero == DutyOf(0) = 0
BY DEF DutyOf, Percent, clamp

\* The ramp of the motor test stays below the duty of 15 percent.
LEMMA DutyRamp ==
  ASSUME NEW n \in 0 .. 15
  PROVE  DutyOf(Percent(n)) <= DutyOf(Percent(15))
BY DEF DutyOf, Percent, clamp

\* The duty of 15 percent, the most the motor test writes.
LEMMA TestLimit == DutyOf(Percent(15)) \in 0 .. 1023
<1>1. Percent(15) \in Int
  BY DEF Percent
<1>2. QED
  BY <1>1, DutyRange

\* The PIDs' output limit in speed units.
LEMMA OutLimitType == OutLimit \in Int
BY DEF OutLimit, Percent

\* The mixer's results are speeds between 0 and 100 percent.
LEMMA MixerType ==
  ASSUME NEW t \in Int, NEW p \in Int, NEW r \in Int
  PROVE  Mixer(t, p, r) \in [Motors -> 0 .. Percent(100)]
<1> DEFINE raw(i) == t + (IF i \in {MOTOR_FL, MOTOR_FR} THEN p ELSE -p)
                       + (IF i \in {MOTOR_FR, MOTOR_BR} THEN r ELSE -r)
           c(i) == clamp(raw(i), 0, Percent(100))
<1>1. Mixer(t, p, r) = [i \in Motors |-> c(i)]
  BY DEF Mixer
<1>2. \A i \in Motors : c(i) \in 0 .. Percent(100)
  <2> SUFFICES ASSUME NEW i \in Motors PROVE c(i) \in 0 .. Percent(100)
    OBVIOUS
  <2>1. raw(i) \in Int
    OBVIOUS
  <2> HIDE DEF raw
  <2>2. c(i) \in Int /\ 0 <= c(i) /\ c(i) <= 49200
    BY <2>1 DEF clamp, Percent
  <2> HIDE DEF c
  <2>3. QED
    BY <2>2, FullSpeed
<1> HIDE DEF c
<1>3. QED
  BY <1>1, <1>2

\* The commands computed from a stick value are numbers.
LEMMA CommandType ==
  ASSUME NEW v \in Int
  PROVE  throttle_map(v) \in Int /\ tilt_map(v) \in Int
BY DEF throttle_map, tilt_map, map_value

\* A word asks for thrust alike whether or not its dead zone was looked at: the
\* second load of the throttle word needs no test of its own.
LEMMA DeadZoneIsIdle ==
  ASSUME NEW v \in Int
  PROVE  Thrust(throttle_map(v)) <=> Thrust(throttle_cmd(v))
BY DEF Thrust, throttle_map, throttle_cmd, map_value, Percent

\* A stick at rest asks for no thrust.
LEMMA RestIsIdle == ~Thrust(0) /\ ~Thrust(throttle_cmd(0))
BY DEF Thrust, throttle_cmd, throttle_map, map_value, Percent

-----------------------------------------------------------------------------
(* The inductive invariant.                                                *)

USE DEF THROTTLE, YAW, PITCH, ROLL, Words, Axes, Motors, MOTOR_FL, MOTOR_FR,
        MOTOR_BL, MOTOR_BR, BootPcs, TestPcs, LoopPcs, Loaded

\* A board that starts satisfies the invariant.
LEMMA InitIInv == Init => IInv
<1> SUFFICES ASSUME Init PROVE IInv
  OBVIOUS
<1> USE DEF Init, NoCmd, Off, Zero
<1>1. TypeOK
  BY DEF TypeOK, Percent
<1>2. QED
  BY <1>1 DEF IInv, CommandInv, HeldInv, CounterInv, ClearingInv, TestIsGentle,
              FailsafeWithinTwo, AllOff, Idle

\* Two PIDs that were reset.
LEMMA ResetType == [a \in Axes |-> FALSE] \in [Axes -> BOOLEAN]
OBVIOUS

\* What the end of an iteration's body leaves in the main task's variables.
LEMMA EobType ==
  ASSUME TypeOK, EndOfBody
  PROVE  /\ pc' = "wait" /\ m' = 0 /\ held' \in 0 .. 2
         /\ cmd' \in [{THROTTLE, PITCH, ROLL} -> Int]
         /\ mix' \in [Motors -> 0 .. Percent(100)]
BY FullSpeed DEF TypeOK, EndOfBody, NoCmd, Off

\* A step of the loop over the motors, and its last one, keep the types.
LEMMA NextMotorType ==
  ASSUME TypeOK, m < MOTOR_BR, m' = m + 1,
         duty' \in [Motors -> 0 .. 1023], pid' \in [Axes -> BOOLEAN],
         UNCHANGED <<pc, cmd, mix, held, speed, btVars, nvs>>
  PROVE  TypeOK'
<1>1. m' \in Motors
  BY DEF TypeOK
<1> QED
  BY <1>1 DEF TypeOK, btVars

LEMMA LastMotorType ==
  ASSUME TypeOK, EndOfBody,
         duty' \in [Motors -> 0 .. 1023], pid' \in [Axes -> BOOLEAN],
         UNCHANGED <<speed, btVars, nvs>>
  PROVE  TypeOK'
<1>1. pc' = "wait" /\ m' = 0 /\ held' \in 0 .. 2
  BY EobType
<1>2. cmd' \in [{THROTTLE, PITCH, ROLL} -> Int] /\ mix' \in [Motors -> 0 .. Percent(100)]
  BY EobType
<1>3. pc' \in BootPcs \union TestPcs \union LoopPcs /\ m' \in Motors
  BY <1>1
<1> QED
  BY <1>1, <1>2, <1>3 DEF TypeOK, btVars

\* The boot code preserves the invariant.
LEMMA BootStep == IInv /\ Boot => IInv'
<1> SUFFICES ASSUME IInv, Boot PROVE IInv'
  OBVIOUS
<1> USE DEF IInv, btVars, mainVars, Goto, Pass
<1>1. CASE nvs_flash_init
  <2> USE <1>1 DEF nvs_flash_init
  <2>1. TypeOK'
    BY DEF TypeOK
  <2>2. CommandInv'
    BY DEF TypeOK, CommandInv
  <2>3. HeldInv'
    BY DEF TypeOK, HeldInv, Demand
  <2>4. CounterInv'
    BY DEF TypeOK, CounterInv, AllOff
  <2>5. ClearingInv'
    BY DEF TypeOK, ClearingInv, Idle
  <2>6. TestIsGentle'
    BY DEF TypeOK, TestIsGentle
  <2>7. FailsafeWithinTwo'
    BY DEF TypeOK, FailsafeWithinTwo, AllOff
  <2>8. QED
    BY <2>1, <2>2, <2>3, <2>4, <2>5, <2>6, <2>7
<1>2. CASE nvs_flash_erase
  BY <1>2 DEF nvs_flash_erase, TypeOK, CommandInv, HeldInv, CounterInv, ClearingInv,
     TestIsGentle, FailsafeWithinTwo, AllOff, Idle, Demand
<1>3. CASE nvs_flash_init_retry
  BY <1>3 DEF nvs_flash_init_retry, TypeOK, CommandInv, HeldInv, CounterInv, ClearingInv,
     TestIsGentle, FailsafeWithinTwo, AllOff, Idle, Demand
<1>4. CASE mpu6050_init
  BY <1>4 DEF mpu6050_init, TypeOK, CommandInv, HeldInv, CounterInv, ClearingInv,
     TestIsGentle, FailsafeWithinTwo, AllOff, Idle, Demand
<1>5. CASE motor_init_pin
  BY <1>5 DEF motor_init_pin, TypeOK, CommandInv, HeldInv, CounterInv, ClearingInv,
     TestIsGentle, FailsafeWithinTwo, AllOff, Idle, Demand
<1>6. CASE motor_init_timer
  BY <1>6 DEF motor_init_timer, TypeOK, CommandInv, HeldInv, CounterInv, ClearingInv,
     TestIsGentle, FailsafeWithinTwo, AllOff, Idle, Demand
<1>7. CASE motor_init_channel
  BY <1>7 DEF motor_init_channel, TypeOK, CommandInv, HeldInv, CounterInv, ClearingInv,
     TestIsGentle, FailsafeWithinTwo, AllOff, Idle, Demand
<1>8. CASE bluetooth_init
  <2> USE <1>8 DEF bluetooth_init
  <2>1. TypeOK'
    BY DEF TypeOK
  <2>2. CommandInv'
    BY DEF TypeOK, CommandInv
  <2>3. HeldInv'
    BY DEF TypeOK, HeldInv, Demand
  <2>4. CounterInv'
    BY DEF TypeOK, CounterInv, AllOff
  <2>5. ClearingInv'
    BY DEF TypeOK, ClearingInv, Idle
  <2>6. TestIsGentle'
    BY TestLimit DEF TypeOK, TestIsGentle, CounterInv, AllOff
  <2>7. FailsafeWithinTwo'
    BY DEF TypeOK, FailsafeWithinTwo, AllOff
  <2>8. QED
    BY <2>1, <2>2, <2>3, <2>4, <2>5, <2>6, <2>7
<1> QED
  BY <1>1, <1>2, <1>3, <1>4, <1>5, <1>6, <1>7, <1>8 DEF Boot

\* The motor test preserves the invariant.
LEMMA TestStep == IInv /\ Test => IInv'
<1> SUFFICES ASSUME IInv, Test PROVE IInv'
  OBVIOUS
<1> USE DEF IInv, btVars, mainVars, Goto, Pass
<1>1. CASE test_ramp
  <2> USE <1>1 DEF test_ramp
  <2>0. DutyOf(Percent(speed)) \in 0 .. 1023
    <3>1. Percent(speed) \in Int
      BY PercentInt DEF TypeOK
    <3>2. QED
      BY <3>1, DutyRange
  <2>1. TypeOK'
    BY <2>0 DEF TypeOK
  <2>2. CommandInv'
    BY DEF TypeOK, CommandInv
  <2>3. HeldInv'
    BY DEF TypeOK, HeldInv, Demand
  <2>4. CounterInv'
    BY DEF TypeOK, CounterInv, AllOff
  <2>5. ClearingInv'
    BY DEF TypeOK, ClearingInv, Idle
  <2>6. TestIsGentle'
    BY <2>0, DutyRamp DEF TypeOK, TestIsGentle
  <2>7. FailsafeWithinTwo'
    BY DEF TypeOK, FailsafeWithinTwo, AllOff, HeldInv
  <2>8. QED
    BY <2>1, <2>2, <2>3, <2>4, <2>5, <2>6, <2>7
<1>2. CASE test_off
  <2> USE <1>2 DEF test_off
  <2>d. duty' \in [Motors -> 0 .. 1023]
    BY DEF TypeOK
  <2>e. pid' \in [Axes -> BOOLEAN]
    <3>1. pid' = pid \/ pid' = [a \in Axes |-> FALSE]
      OBVIOUS
    <3>2. pid \in [Axes -> BOOLEAN]
      BY DEF TypeOK
    <3>3. QED
      BY <3>1, <3>2, ResetType
  <2>1. TypeOK'
    <3>1. CASE m < MOTOR_BR
      BY <3>1, <2>d, <2>e DEF TypeOK
    <3>2. CASE m = MOTOR_BR
      BY <3>2, <2>d, <2>e DEF TypeOK
    <3>3. QED
      BY <3>1, <3>2 DEF TypeOK
  <2>2. CommandInv'
    BY DEF TypeOK, CommandInv
  <2>3. HeldInv'
    BY DEF TypeOK, HeldInv, Demand
  <2>4. CounterInv'
    BY DEF TypeOK, CounterInv, AllOff
  <2>5. ClearingInv'
    BY DEF TypeOK, ClearingInv, Idle
  <2>6. TestIsGentle'
    <3>1. CASE m < MOTOR_BR
      <4>1. m' = m + 1 /\ m' \in Motors /\ \A i \in Motors : duty'[i] = 0
        BY <3>1 DEF TypeOK, TestIsGentle
      <4>2. QED
        BY <4>1, TestLimit DEF TestIsGentle
    <3>2. CASE m = MOTOR_BR
      BY <3>2 DEF TestIsGentle
    <3>3. QED
      BY <3>1, <3>2 DEF TypeOK
  <2>7. FailsafeWithinTwo'
    BY DEF TypeOK, FailsafeWithinTwo, AllOff, HeldInv
  <2>8. QED
    BY <2>1, <2>2, <2>3, <2>4, <2>5, <2>6, <2>7
<1> QED
  BY <1>1, <1>2 DEF Test

\* The control loop preserves the invariant.
LEMMA LoopStep == IInv /\ Loop => IInv'
<1> SUFFICES ASSUME IInv, Loop PROVE IInv'
  OBVIOUS
<1> USE DEF IInv, btVars, mainVars, Goto, Pass
<1>1. CASE read_ok
  BY <1>1 DEF read_ok, TypeOK, CommandInv, HeldInv, CounterInv, ClearingInv,
     TestIsGentle, FailsafeWithinTwo, AllOff, Idle, Demand
<1>2. CASE read_fails
  BY <1>2 DEF read_fails, TypeOK, CommandInv, HeldInv, CounterInv, ClearingInv,
     TestIsGentle, FailsafeWithinTwo, AllOff, Idle, Demand
<1>3. CASE load_throttle
  <2> USE <1>3 DEF load_throttle
  <2>1. TypeOK'
    BY CommandType DEF TypeOK
  <2>2. CommandInv'
    BY DEF TypeOK, CommandInv
  <2>3. HeldInv'
    <3> SUFFICES ASSUME held > 0 PROVE HeldInv'
      BY DEF HeldInv
    <3>1. ~Demand /\ ~Demand'
      BY DEF HeldInv, Demand
    <3>2. CASE pc = "throttle"
      BY <3>1, <3>2, RestIsIdle DEF TypeOK, HeldInv, CommandInv
    <3>3. CASE pc = "throttle_use"
      <4>1. cmd'[THROTTLE] = throttle_map(bt[THROTTLE]) /\ bt[THROTTLE] \in Int
        BY <3>3 DEF TypeOK
      <4>2. ~Thrust(cmd'[THROTTLE])
        BY <4>1, <3>1, DeadZoneIsIdle DEF Demand
      <4>3. QED
        BY <4>2, <3>1, <3>3 DEF HeldInv
    <3>4. QED
      BY <3>2, <3>3
  <2>4. CounterInv'
    BY DEF TypeOK, CounterInv, AllOff
  <2>5. ClearingInv'
    BY DEF TypeOK, ClearingInv, Idle
  <2>6. TestIsGentle'
    BY DEF TypeOK, TestIsGentle
  <2>7. FailsafeWithinTwo'
    BY DEF TypeOK, FailsafeWithinTwo, AllOff
  <2>8. QED
    BY <2>1, <2>2, <2>3, <2>4, <2>5, <2>6, <2>7
<1>4. CASE load_pitch
  <2> USE <1>4 DEF load_pitch, LoadTilt
  <2>1. TypeOK'
    BY CommandType DEF TypeOK
  <2>2. CommandInv'
    BY DEF TypeOK, CommandInv
  <2>3. HeldInv'
    BY DEF TypeOK, HeldInv, Demand
  <2>4. CounterInv'
    BY DEF TypeOK, CounterInv, AllOff
  <2>5. ClearingInv'
    BY DEF TypeOK, ClearingInv, Idle
  <2>6. TestIsGentle'
    BY DEF TypeOK, TestIsGentle
  <2>7. FailsafeWithinTwo'
    BY DEF TypeOK, FailsafeWithinTwo, AllOff
  <2>8. QED
    BY <2>1, <2>2, <2>3, <2>4, <2>5, <2>6, <2>7
<1>5. CASE load_roll
  <2> USE <1>5 DEF load_roll, LoadTilt
  <2>1. TypeOK'
    BY CommandType DEF TypeOK
  <2>2. CommandInv'
    BY DEF TypeOK, CommandInv
  <2>3. HeldInv'
    BY DEF TypeOK, HeldInv, Demand
  <2>4. CounterInv'
    BY DEF TypeOK, CounterInv, AllOff
  <2>5. ClearingInv'
    BY DEF TypeOK, ClearingInv, Idle
  <2>6. TestIsGentle'
    BY DEF TypeOK, TestIsGentle
  <2>7. FailsafeWithinTwo'
    BY DEF TypeOK, FailsafeWithinTwo, AllOff
  <2>8. QED
    BY <2>1, <2>2, <2>3, <2>4, <2>5, <2>6, <2>7
<1>6. CASE control_fly
  <2> USE <1>6 DEF control_fly
  <2>0. mix' \in [Motors -> 0 .. Percent(100)]
    <3>1. PICK p, r \in PidOut : mix' = Mixer(cmd[THROTTLE], p, r)
      OBVIOUS
    <3>2. p \in Int /\ r \in Int /\ cmd[THROTTLE] \in Int
      BY PidOutAssumption, OutLimitType DEF TypeOK
    <3>3. QED
      BY <3>1, <3>2, MixerType
  <2>1. TypeOK'
    BY <2>0 DEF TypeOK, NoCmd
  <2>2. CommandInv'
    BY DEF TypeOK, CommandInv, NoCmd
  <2>3. HeldInv'
    BY DEF TypeOK, HeldInv, Demand, NoCmd
  <2>4. CounterInv'
    BY DEF TypeOK, CounterInv, AllOff
  <2>5. ClearingInv'
    BY DEF TypeOK, ClearingInv, Idle
  <2>6. TestIsGentle'
    BY DEF TypeOK, TestIsGentle
  <2>7. FailsafeWithinTwo'
    BY DEF TypeOK, FailsafeWithinTwo, AllOff, HeldInv, CommandInv
  <2>8. QED
    BY <2>1, <2>2, <2>3, <2>4, <2>5, <2>6, <2>7
<1>7. CASE control_idle
  <2> USE <1>7 DEF control_idle
  <2>1. TypeOK'
    BY DEF TypeOK, NoCmd
  <2>2. CommandInv'
    BY DEF TypeOK, CommandInv, NoCmd
  <2>3. HeldInv'
    BY DEF TypeOK, HeldInv, Demand, NoCmd
  <2>4. CounterInv'
    BY DEF TypeOK, CounterInv, AllOff
  <2>5. ClearingInv'
    BY DEF TypeOK, ClearingInv, Idle
  <2>6. TestIsGentle'
    BY DEF TypeOK, TestIsGentle
  <2>7. FailsafeWithinTwo'
    BY DEF TypeOK, FailsafeWithinTwo, AllOff
  <2>8. QED
    BY <2>1, <2>2, <2>3, <2>4, <2>5, <2>6, <2>7
<1>8. CASE set_speed
  <2> USE <1>8 DEF set_speed
  <2>0. DutyOf(mix[m]) \in 0 .. 1023
    BY DutyRange, FullSpeed DEF TypeOK
  <2>d. duty' \in [Motors -> 0 .. 1023]
    BY <2>0 DEF TypeOK
  <2>e. pid' \in [Axes -> BOOLEAN]
    BY DEF TypeOK
  <2>1. TypeOK'
    <3>1. CASE m < MOTOR_BR /\ m' = m + 1 /\ UNCHANGED <<pc, cmd, mix, held>>
      BY <3>1, <2>d, <2>e, NextMotorType
    <3>2. CASE EndOfBody
      BY <3>2, <2>d, <2>e, LastMotorType
    <3>3. QED
      BY <3>1, <3>2
  <2>2. CommandInv'
    BY RestIsIdle DEF TypeOK, CommandInv, EndOfBody, NoCmd, Off
  <2>3. HeldInv'
    BY RestIsIdle DEF TypeOK, HeldInv, Demand, EndOfBody, NoCmd, Off
  <2>4. CounterInv'
    BY DEF TypeOK, CounterInv, AllOff, EndOfBody, NoCmd, Off
  <2>5. ClearingInv'
    BY DEF TypeOK, ClearingInv, Idle, EndOfBody, NoCmd, Off
  <2>6. TestIsGentle'
    BY DEF TypeOK, TestIsGentle, EndOfBody, NoCmd, Off
  <2>7. FailsafeWithinTwo'
    BY DEF TypeOK, FailsafeWithinTwo, AllOff, EndOfBody, NoCmd, Off, HeldInv, CommandInv, CounterInv
  <2>8. QED
    BY <2>1, <2>2, <2>3, <2>4, <2>5, <2>6, <2>7
<1>9. CASE stop_motor
  <2> USE <1>9 DEF stop_motor
  <2>0. DutyOf(0) = 0
    BY DutyZero
  <2>d. duty' \in [Motors -> 0 .. 1023]
    BY <2>0 DEF TypeOK
  <2>e. pid' \in [Axes -> BOOLEAN]
    <3>1. pid' = pid \/ pid' = [a \in Axes |-> FALSE]
      OBVIOUS
    <3>2. pid \in [Axes -> BOOLEAN]
      BY DEF TypeOK
    <3>3. QED
      BY <3>1, <3>2, ResetType
  <2>1. TypeOK'
    <3>1. CASE m < MOTOR_BR /\ m' = m + 1 /\ UNCHANGED <<pc, cmd, mix, held>>
      BY <3>1, <2>d, <2>e, NextMotorType
    <3>2. CASE EndOfBody
      BY <3>2, <2>d, <2>e, LastMotorType
    <3>3. QED
      BY <3>1, <3>2
  <2>2. CommandInv'
    BY <2>0, RestIsIdle DEF TypeOK, CommandInv, EndOfBody, NoCmd, Off
  <2>3. HeldInv'
    BY <2>0, RestIsIdle DEF TypeOK, HeldInv, Demand, EndOfBody, NoCmd, Off
  <2>4. CounterInv'
    BY <2>0 DEF TypeOK, CounterInv, AllOff, EndOfBody, NoCmd, Off
  <2>5. ClearingInv'
    BY <2>0 DEF TypeOK, ClearingInv, Idle, EndOfBody, NoCmd, Off
  <2>6. TestIsGentle'
    BY <2>0 DEF TypeOK, TestIsGentle, EndOfBody, NoCmd, Off
  <2>7. FailsafeWithinTwo'
    BY <2>0 DEF TypeOK, FailsafeWithinTwo, AllOff, EndOfBody, NoCmd, Off, HeldInv, CommandInv, CounterInv
  <2>8. QED
    BY <2>1, <2>2, <2>3, <2>4, <2>5, <2>6, <2>7
<1>10. CASE delay_until
  BY <1>10 DEF delay_until, TypeOK, CommandInv, HeldInv, CounterInv, ClearingInv,
     TestIsGentle, FailsafeWithinTwo, AllOff, Idle, Demand
<1> QED
  BY <1>1, <1>2, <1>3, <1>4, <1>5, <1>6, <1>7, <1>8, <1>9, <1>10 DEF Loop

\* The Bluepad32 callbacks preserve the invariant.
LEMMA BluetoothStep == IInv /\ Bluetooth => IInv'
<1> SUFFICES ASSUME IInv, Bluetooth PROVE IInv'
  OBVIOUS
<1> USE DEF IInv, btVars, mainVars, Goto, Pass
<1>1. CASE bluepad_start
  BY <1>1 DEF bluepad_start, TypeOK, CommandInv, HeldInv, CounterInv, ClearingInv,
     TestIsGentle, FailsafeWithinTwo, AllOff, Idle, Demand
<1>2. CASE store
  <2> USE <1>2 DEF store
  <2>0. vals' \in [Words -> Int] /\ bt' \in [Words -> Int]
    BY DEF TypeOK, Zero
  <2>1. TypeOK'
    BY <2>0 DEF TypeOK
  <2>2. CommandInv'
    BY DEF TypeOK, CommandInv
  <2>3. HeldInv'
    BY DEF TypeOK, HeldInv, Demand
  <2>4. CounterInv'
    BY DEF TypeOK, CounterInv, AllOff
  <2>5. ClearingInv'
    <3> SUFFICES ASSUME conn = {} PROVE ClearingInv'
      BY DEF ClearingInv
    <3>1. vals = Zero /\ \A w \in Words : w < cb => bt[w] = 0
      BY DEF ClearingInv, Idle
    <3>2. vals' = Zero /\ \A w \in Words : w < cb' => bt'[w] = 0
      BY <3>1 DEF TypeOK, Zero
    <3>3. cb' = 5 => bt' = Zero
      <4> SUFFICES ASSUME cb' = 5 PROVE bt' = Zero
        OBVIOUS
      <4>1. \A w \in Words : bt'[w] = 0
        BY <3>2
      <4>2. bt' = [w \in Words |-> bt'[w]]
        BY <2>0
      <4>3. QED
        BY <4>1, <4>2 DEF Zero
    <3>4. QED
      BY <3>2, <3>3 DEF ClearingInv, Idle
  <2>6. TestIsGentle'
    BY DEF TypeOK, TestIsGentle
  <2>7. FailsafeWithinTwo'
    BY DEF TypeOK, FailsafeWithinTwo, AllOff
  <2>8. QED
    BY <2>1, <2>2, <2>3, <2>4, <2>5, <2>6, <2>7
<1>3. CASE \E d \in Devices : my_on_device_connected(d)
  BY <1>3 DEF my_on_device_connected, TypeOK, CommandInv, HeldInv, CounterInv,
     ClearingInv, TestIsGentle, FailsafeWithinTwo, AllOff, Idle, Demand
<1>4. CASE \E d \in Devices : my_on_device_disconnected(d)
  BY <1>4 DEF my_on_device_disconnected, Zero, TypeOK, CommandInv, HeldInv,
     CounterInv, ClearingInv, TestIsGentle, FailsafeWithinTwo, AllOff, Idle,
     Demand
<1>5. CASE \E d \in Devices, r \in Reports : my_on_controller_data(d, r)
  BY <1>5, ReportsAssumption DEF my_on_controller_data, TypeOK, CommandInv,
     HeldInv, CounterInv, ClearingInv, TestIsGentle, FailsafeWithinTwo, AllOff,
     Idle, Demand
<1> QED
  BY <1>1, <1>2, <1>3, <1>4, <1>5 DEF Bluetooth

\* A failed ESP_ERROR_CHECK preserves the invariant, whatever it interrupts.
LEMMA RebootStep == IInv /\ check_fails => IInv'
<1> SUFFICES ASSUME IInv, check_fails PROVE IInv'
  OBVIOUS
<1> USE DEF IInv, check_fails, Reboot, NoCmd, Off, Zero
<1>1. duty' \in [Motors -> 0 .. 1023]
  BY DEF TypeOK
<1>2. mix' \in [Motors -> 0 .. Percent(100)]
  BY FullSpeed
<1>3. TypeOK'
  <2>1. pid' \in [Axes -> BOOLEAN]
    BY ResetType
  <2>2. bt' \in [Words -> Int] /\ vals' \in [Words -> Int]
    OBVIOUS
  <2>3. cmd' \in [{THROTTLE, PITCH, ROLL} -> Int]
    OBVIOUS
  <2>4. /\ pc' \in BootPcs \union TestPcs \union LoopPcs /\ m' \in Motors
        /\ speed' \in 0 .. 15 /\ task' \in {"none", "delay", "run"}
        /\ cb' \in 1 .. 5 /\ held' \in 0 .. 2 /\ conn' \subseteq Devices
    OBVIOUS
  <2>5. nvs' \in {"ok", "unusable"}
    BY DEF TypeOK
  <2> HIDE DEF IInv, check_fails, Reboot, NoCmd, Off, Zero
  <2> QED
    BY <1>1, <1>2, <2>1, <2>2, <2>3, <2>4, <2>5 DEF TypeOK
<1>4. QED
  BY <1>3 DEF CommandInv, HeldInv, CounterInv, ClearingInv, TestIsGentle,
              FailsafeWithinTwo, Idle

\* The invariant is inductive.
LEMMA NextIInv == IInv /\ [Next]_vars => IInv'
<1>1. ASSUME IInv, UNCHANGED vars PROVE IInv'
  BY <1>1 DEF vars, IInv, TypeOK, CommandInv, HeldInv, CounterInv, ClearingInv,
              TestIsGentle, FailsafeWithinTwo, AllOff, Idle, Demand
<1>2. QED
  BY <1>1, BootStep, TestStep, LoopStep, BluetoothStep, RebootStep
     DEF Next, Main

-----------------------------------------------------------------------------
\* Every behaviour of the firmware satisfies the inductive invariant.
THEOREM Invariance == Spec => []IInv
BY InitIInv, NextIInv, PTL DEF Spec

\* Type correctness: in particular no duty exceeds the 10-bit PWM and the mixer
\* never leaves 0 .. 100 percent.
THEOREM TypeCorrect == Spec => []TypeOK
<1>1. IInv => TypeOK
  BY DEF IInv
<1>2. QED
  BY <1>1, Invariance, PTL

\* Two iterations after the throttle word has gone idle the motors are off.
THEOREM Failsafe == Spec => []FailsafeWithinTwo
<1>1. IInv => FailsafeWithinTwo
  BY DEF IInv
<1>2. QED
  BY <1>1, Invariance, PTL

\* The motor test never turns two motors and never exceeds 15 percent.
THEOREM GentleTest == Spec => []TestIsGentle
<1>1. IInv => TestIsGentle
  BY DEF IInv
<1>2. QED
  BY <1>1, Invariance, PTL

\* Nothing that a controller stored survives the last disconnect.
THEOREM Silence == Spec => []SilentMeansZero
<1>1. IInv => SilentMeansZero
  BY DEF IInv, ClearingInv, SilentMeansZero
<1>2. QED
  BY <1>1, Invariance, PTL


-----------------------------------------------------------------------------
(* FlightControl implements MotorSafety.                                   *)

\* Steps that leave what the promise talks about alone.
LEMMA Stutters ==
  ASSUME UNCHANGED <<duty, bt>>, cmd'[THROTTLE] = cmd[THROTTLE],
         Phase' = Phase, Tested' = Tested
  PROVE  UNCHANGED Promise!promiseVars
BY DEF Promise!promiseVars, On, Demand, Granted

\* Every step of the firmware is a step of the promise or changes none of it.
LEMMA StepRefines ==
  IInv /\ IInv' /\ [Next]_vars => [Promise!Next]_(Promise!promiseVars)
<1> SUFFICES ASSUME IInv, IInv', [Next]_vars
             PROVE  Promise!Next \/ UNCHANGED Promise!promiseVars
  OBVIOUS
<1> USE DEF IInv
<1>1. CASE UNCHANGED vars
  BY <1>1, Stutters DEF vars, Phase, Tested
<1>2. CASE nvs_flash_init \/ nvs_flash_erase \/ nvs_flash_init_retry
           \/ mpu6050_init \/ motor_init_timer
  BY <1>2, Stutters DEF nvs_flash_init, nvs_flash_erase, nvs_flash_init_retry,
     mpu6050_init, motor_init_timer, Goto, Pass, btVars, Phase, Tested
<1>3. CASE motor_init_pin \/ motor_init_channel
  <2>1. Promise!Stop
    BY <1>3 DEF motor_init_pin, motor_init_channel, btVars, Promise!Stop, TypeOK,
       Phase, On, Tested, Demand, Granted
  <2>2. QED
    BY <2>1 DEF Promise!Next
<1>4. CASE bluetooth_init
  <2>1. Promise!StartTest
    BY <1>4 DEF bluetooth_init, Goto, Pass, CounterInv, AllOff, TypeOK,
       Promise!StartTest, Phase, On, Tested, Demand, Granted
  <2>2. QED
    BY <2>1 DEF Promise!Next
<1>5. CASE test_ramp
  <2>1. m \notin Tested /\ m \in Motors /\ On \subseteq {m}
    BY <1>5 DEF test_ramp, TypeOK, TestIsGentle, Tested, On
  <2>2. On' = {m} \/ On' = {}
    BY <1>5 DEF test_ramp, TypeOK, TestIsGentle, On
  <2>3. UNCHANGED <<Phase, Tested, Demand, Granted>> /\ Phase = "test"
    BY <1>5 DEF test_ramp, btVars, Phase, Tested, Demand, Granted
  <2>4. Promise!Spin(m) \/ Promise!Stop
    BY <2>1, <2>2, <2>3 DEF Promise!Spin, Promise!Stop
  <2>5. QED
    BY <2>1, <2>4 DEF Promise!Next
<1>6. CASE test_off
  <2>1. m \notin Tested /\ m \in Motors /\ On \subseteq {m}
    BY <1>6 DEF test_off, TypeOK, TestIsGentle, Tested, On
  <2>2. On' = {}
    BY <1>6 DEF test_off, TypeOK, TestIsGentle, On
  <2>3. UNCHANGED <<Demand, Granted>> /\ Phase = "test"
    BY <1>6 DEF test_off, btVars, Phase, Demand, Granted
  <2>4. Tested' = Tested \union {m}
    BY <1>6 DEF test_off, TypeOK, Tested
  <2>5. Phase' = IF Tested' = Motors THEN "loop" ELSE "test"
    BY <1>6 DEF test_off, TypeOK, Tested, Phase
  <2>6. Promise!EndTest(m)
    BY <2>1, <2>2, <2>3, <2>4, <2>5 DEF Promise!EndTest
  <2>7. QED
    BY <2>1, <2>6 DEF Promise!Next
<1>7. CASE read_ok \/ read_fails \/ delay_until \/ load_pitch \/ load_roll
           \/ control_fly \/ control_idle
  <2>1. UNCHANGED <<duty, bt>> /\ Phase' = Phase /\ Tested' = Tested
    BY <1>7 DEF read_ok, read_fails, delay_until, load_pitch, load_roll,
       LoadTilt, control_fly, control_idle, Goto, Pass, btVars, Phase, Tested
  <2>2. cmd'[THROTTLE] = cmd[THROTTLE]
    BY <1>7 DEF Pass, Goto, read_ok, read_fails, delay_until, load_pitch, load_roll,
       LoadTilt, control_fly, control_idle, NoCmd, TypeOK
  <2>3. QED
    BY <2>1, <2>2, Stutters
<1>8. CASE load_throttle
  <2>1. cmd[THROTTLE] = 0 /\ bt[THROTTLE] \in Int
    BY <1>8 DEF load_throttle, Goto, TypeOK, CommandInv
  <2>2. UNCHANGED <<Phase, On, Tested, Demand>> /\ Phase = "loop"
    BY <1>8 DEF load_throttle, Goto, btVars, Phase, On, Tested, Demand
  <2>3. cmd' = cmd \/ cmd'[THROTTLE] = throttle_map(bt[THROTTLE])
    BY <1>8 DEF load_throttle, Goto, TypeOK
  <2>4. CASE Granted'
    <3>1. cmd'[THROTTLE] = throttle_map(bt[THROTTLE])
      BY <2>1, <2>3, <2>4, RestIsIdle DEF Granted
    <3>2. Demand
      BY <3>1, <2>1, <2>4, DeadZoneIsIdle DEF Granted, Demand
    <3>3. Promise!Grant
      BY <2>2, <2>4, <3>2 DEF Promise!Grant, Granted, Thrust
    <3>4. QED
      BY <3>3 DEF Promise!Next
  <2>5. CASE ~Granted'
    <3>1. ~Granted
      BY <2>1, RestIsIdle DEF Granted
    <3>2. Granted' = Granted
      BY <2>5, <3>1 DEF Granted, Thrust
    <3>3. QED
      BY <3>2, <2>2 DEF Promise!promiseVars
  <2>6. QED
    BY <2>4, <2>5
<1>9. CASE set_speed
  <2>1. Phase = "loop" /\ UNCHANGED <<Phase, Tested, Demand>>
    BY <1>9 DEF set_speed, EndOfBody, btVars, Phase, Tested, Demand
  <2>2. Granted /\ Granted' \in BOOLEAN /\ On' \in SUBSET Motors
    BY <1>9 DEF set_speed, CommandInv, Granted, On, Thrust
  <2>3. Promise!Drive
    BY <2>1, <2>2 DEF Promise!Drive
  <2>4. QED
    BY <2>3 DEF Promise!Next
<1>10. CASE stop_motor
  <2>1. UNCHANGED <<Phase, Tested, Demand>>
    BY <1>10 DEF stop_motor, EndOfBody, btVars, Phase, Tested, Demand
  <2>2. ~Granted /\ ~Granted'
    BY <1>10, RestIsIdle DEF stop_motor, EndOfBody, NoCmd, CommandInv, Granted
  <2>3. On' \in SUBSET On
    BY <1>10, DutyZero DEF stop_motor, TypeOK, On
  <2>4. Granted' = Granted
    BY <2>2 DEF Granted, Thrust
  <2>5. Promise!Stop
    BY <2>1, <2>3, <2>4 DEF Promise!Stop
  <2>6. QED
    BY <2>5 DEF Promise!Next
<1>11. CASE check_fails
  <2>1. Promise!Reset
    BY <1>11, RestIsIdle DEF check_fails, Reboot, NoCmd, Zero, Off, Promise!Reset,
       Phase, On, Tested, Demand, Granted, Thrust
  <2>2. QED
    BY <2>1 DEF Promise!Next
<1>12. CASE store
  <2>1. UNCHANGED <<Phase, On, Tested, Granted>> /\ Demand' \in BOOLEAN
    BY <1>12 DEF store, mainVars, Phase, On, Tested, Demand, Granted, Thrust
  <2>2. Promise!Pilot
    BY <2>1 DEF Promise!Pilot
  <2>3. QED
    BY <2>2 DEF Promise!Next
<1>13. CASE bluepad_start \/ \E d \in Devices :
                \/ my_on_device_connected(d)
                \/ my_on_device_disconnected(d)
                \/ \E r \in Reports : my_on_controller_data(d, r)
  BY <1>13, Stutters DEF bluepad_start, my_on_device_connected,
     my_on_device_disconnected, my_on_controller_data, mainVars, Phase, Tested
<1>14. QED
  BY <1>1, <1>2, <1>3, <1>4, <1>5, <1>6, <1>7, <1>8, <1>9, <1>10, <1>11, <1>12,
     <1>13 DEF Next, Main, Boot, Test, Loop, Bluetooth

\* A board at power-up satisfies the promise's initial condition.
LEMMA InitRefines == Init => Promise!Init
BY RestIsIdle DEF Init, Promise!Init, Off, Zero, NoCmd, Phase, On, Tested, Demand,
   Granted, Thrust

\* The firmware keeps the promise of MotorSafety in every behaviour: no motor
\* starts before all were tested, and later only under a demand that was seen.
THEOREM Refinement == Spec => KeepsPromise
BY Invariance, InitRefines, StepRefines, PTL DEF Spec, KeepsPromise, Promise!Spec

=============================================================================
