---------------------------- MODULE FlightControl ----------------------------
(***************************************************************************)
(* The firmware's two tasks and the hardware they share.                    *)
(*                                                                         *)
(*  - the main task runs app_main (main/bukkis_drone.c): it boots the board,*)
(*    spins every motor once (motor_test_sequence) and then runs the control*)
(*    loop for ever;                                                        *)
(*  - bluepad_task (components/bukkis_bt/bukkis_bt.c) runs the Bluepad32    *)
(*    callbacks one at a time; they store the sticks into four global words.*)
(*                                                                         *)
(* The words bt_throttle, bt_yaw, bt_pitch and bt_roll are plain int32_t     *)
(* globals with no lock.  Each access is one 32-bit load or store, so every  *)
(* load of app_main and every store of a callback is a step of its own.      *)
(*                                                                         *)
(* Speeds are integers in units of 1/492 percent: the span -20 .. -512 of    *)
(* the throttle stick then maps on whole numbers.                            *)
(***************************************************************************)
EXTENDS Integers

CONSTANTS
  Devices,     \* the controllers that may connect
  Reports,     \* the four axis values a controller report may carry
  PidOut       \* the values pid_compute may return, in speed units

Percent(n) == 492 * n

\* pid_init(&pid_pitch, 1.2f, 0.0f, 0.5f, 20.0f, 40.0f): the last argument.
OutLimit == Percent(40)

\* The words of bukkis_bt.c in the order in which the callbacks store them.
THROTTLE == 1
YAW      == 2
PITCH    == 3
ROLL     == 4
Words    == THROTTLE .. ROLL

\* motor_id_t: MOTOR_FL = 0, MOTOR_FR, MOTOR_BL, MOTOR_BR.
MOTOR_FL == 0
MOTOR_FR == 1
MOTOR_BL == 2
MOTOR_BR == 3
Motors   == MOTOR_FL .. MOTOR_BR

Axes == {PITCH, ROLL}

ASSUME ReportsAssumption == Reports \subseteq [Words -> Int]
ASSUME PidOutAssumption ==
  PidOut # {} /\ PidOut \subseteq (-OutLimit) .. OutLimit

VARIABLES
  pc,       \* where the main task is
  m,        \* the loop counter i of motor_init, motor_test_sequence and of
            \* the four motor_set_speed calls of an iteration
  speed,    \* the ramp's speed in motor_test_sequence, in percent
  cmd,      \* throttle_cmd, pitch_cmd, roll_cmd of the iteration under way
  mix,      \* m_fl, m_fr, m_bl, m_br of the iteration under way
  pid,      \* per axis: has the PID computed since it was last cleared?
  duty,     \* what the LEDC channel of each motor drives, 0 .. 1023
  bt,       \* the four global words
  task,     \* bluepad_task: not created, in its 1 s delay, in the run loop
  cb,       \* the store the running callback does next (5: none runs)
  vals,     \* the values the running callback stores
  conn,     \* controllers Bluepad32 has announced as connected
  nvs,      \* the NVS partition: does nvs_flash_init accept it?
  held      \* history: control iterations with a good sensor read that ended
            \* since bt_throttle last asked for thrust (2: two or more)

mainVars == <<pc, m, speed, cmd, mix, pid>>
btVars   == <<bt, task, cb, vals, conn>>
vars     == <<pc, m, speed, cmd, mix, pid, duty, bt, task, cb, vals, conn,
              nvs, held>>

-----------------------------------------------------------------------------
(* Pure functions of the code.                                             *)

\* Mistake: the upper limit is forgotten.
clamp_below_only(value, min, max) == IF value < min THEN min ELSE value

clamp(value, min, max) ==
  IF value < min THEN min ELSE IF value > max THEN max ELSE value

\* In units of 1/|in_max - in_min|, which makes the division exact.
map_value(value, in_min, in_max, out_min, out_max) ==
  LET span == in_max - in_min
      num  == (value - in_min) * (out_max - out_min) + out_min * span
  IN  IF span > 0 THEN num ELSE -num

\* throttle_cmd and the tilt set points (in units of 1/1023 degree) as computed
\* once a word is found outside the dead zone.
throttle_map(v) == map_value(v, -20, -512, 0, 100)
tilt_map(v)     == map_value(v, -512, 511, -30, 30)

\* The throttle that a word asks for when it rests.
throttle_cmd(v) == IF v < -20 THEN throttle_map(v) ELSE 0

\* if (throttle_cmd > 2.0f)
Thrust(t) == t > Percent(2)

Mixer(t, p, r) ==
  LET raw == [i \in Motors |->
                t + (IF i \in {MOTOR_FL, MOTOR_FR} THEN p ELSE -p)
                  + (IF i \in {MOTOR_FR, MOTOR_BR} THEN r ELSE -r)]
  IN  [i \in Motors |-> clamp(raw[i], 0, Percent(100))]

\* The duty that motor_set_speed writes: (uint32_t)(percent / 100 * 1023).
DutyOf(s) == (clamp(s, 0, Percent(100)) * 1023) \div Percent(100)

NoCmd == [w \in {THROTTLE, PITCH, ROLL} |-> 0]
Off   == [i \in Motors |-> 0]
Zero  == [w \in Words |-> 0]

-----------------------------------------------------------------------------
BootPcs == {"nvs", "nvs_erase", "nvs_retry", "sensor", "pins", "timer",
            "chan", "bt"}
TestPcs == {"ramp", "off"}
LoopPcs == {"read", "throttle", "throttle_use", "pitch", "pitch_below",
            "pitch_use", "roll", "roll_below", "roll_use", "control", "set",
            "stop", "wait"}

Idle == cb = 5

\* app_main at its first statement, with the memory of a fresh image.  The
\* LEDC registers and the NVS partition are the only state outside the image.
Init ==
  /\ pc = "nvs" /\ m = 0 /\ speed = 0
  /\ cmd = NoCmd /\ mix = Off
  /\ pid = [a \in Axes |-> FALSE]
  /\ bt = Zero /\ task = "none" /\ cb = 5 /\ vals = Zero /\ conn = {}
  /\ held = 0
  /\ duty = Off
  /\ nvs \in {"ok", "unusable"}

\* ESP_ERROR_CHECK aborts; the panic handler reboots the chip.  Only the CPUs
\* are sure to be reset: the LEDC may go on driving its last duty.
Reboot ==
  /\ pc' = "nvs" /\ m' = 0 /\ speed' = 0
  /\ cmd' = NoCmd /\ mix' = Off
  /\ pid' = [a \in Axes |-> FALSE]
  /\ bt' = Zero /\ task' = "none" /\ cb' = 5 /\ vals' = Zero /\ conn' = {}
  /\ held' = 0
  /\ duty' \in {duty, Off}

Goto(from, to) == pc = from /\ pc' = to

\* A call that changes nothing the model keeps.
Pass(from, to) ==
  /\ Goto(from, to)
  /\ UNCHANGED <<m, speed, cmd, mix, pid, duty, btVars, nvs, held>>

-----------------------------------------------------------------------------
(* Boot: app_main up to motor_test_sequence.                               *)

nvs_flash_init ==
  \/ nvs = "ok" /\ Pass("nvs", "sensor")
  \/ nvs = "unusable" /\ Pass("nvs", "nvs_erase")

nvs_flash_erase ==
  /\ Goto("nvs_erase", "nvs_retry")
  /\ nvs' = "ok"
  /\ UNCHANGED <<m, speed, cmd, mix, pid, duty, btVars, held>>

nvs_flash_init_retry == Pass("nvs_retry", "sensor")

mpu6050_init == Pass("sensor", "pins")

\* Mistake: for (int i = 0; i < 3; i++) around gpio_set_level.
motor_init_pin_three ==
  /\ pc = "pins"
  /\ duty' = [duty EXCEPT ![m] = 0]
  /\ \/ m < MOTOR_BL /\ m' = m + 1 /\ pc' = pc
     \/ m = MOTOR_BL /\ m' = 0 /\ pc' = "timer"
  /\ UNCHANGED <<speed, cmd, mix, pid, btVars, nvs, held>>

\* motor_init: every pin is pulled low before the PWM takes over ...
motor_init_pin ==
  /\ pc = "pins"
  /\ duty' = [duty EXCEPT ![m] = 0]
  /\ \/ m < MOTOR_BR /\ m' = m + 1 /\ pc' = pc
     \/ m = MOTOR_BR /\ m' = 0 /\ pc' = "timer"
  /\ UNCHANGED <<speed, cmd, mix, pid, btVars, nvs, held>>

motor_init_timer == Pass("timer", "chan")

\* ... and every channel starts with duty 0.
motor_init_channel ==
  /\ pc = "chan"
  /\ duty' = [duty EXCEPT ![m] = 0]
  /\ \/ m < MOTOR_BR /\ m' = m + 1 /\ pc' = pc
     \/ m = MOTOR_BR /\ m' = 0 /\ pc' = "bt"
  /\ UNCHANGED <<speed, cmd, mix, pid, btVars, nvs, held>>

\* xTaskCreate may fail for lack of memory; its result is ignored.
bluetooth_init ==
  /\ Goto("bt", "ramp")
  /\ task' \in {"delay", "none"}
  /\ UNCHANGED <<m, speed, cmd, mix, pid, duty, bt, cb, vals, conn, nvs,
                 held>>

-----------------------------------------------------------------------------
(* motor_test_sequence: each motor from 0 to 15 percent, then off.         *)

test_ramp ==
  /\ pc = "ramp"
  /\ duty' = [duty EXCEPT ![m] = DutyOf(Percent(speed))]
  /\ \/ speed < 15 /\ speed' = speed + 1 /\ pc' = pc
     \/ speed = 15 /\ speed' = 0 /\ pc' = "off"
  /\ UNCHANGED <<m, cmd, mix, pid, btVars, nvs, held>>

\* Mistake: the motor is not switched off before the next one is tested.
test_off_forgotten ==
  /\ pc = "off"
  /\ \/ m < MOTOR_BR /\ m' = m + 1 /\ pc' = "ramp" /\ pid' = pid
     \/ m = MOTOR_BR /\ m' = 0 /\ pc' = "read" /\ pid' = [a \in Axes |-> FALSE]
  /\ UNCHANGED <<duty, speed, cmd, mix, btVars, nvs, held>>

\* Mistake: for (int i = 0; i < 3; i++).
test_off_three_motors ==
  /\ pc = "off"
  /\ duty' = [duty EXCEPT ![m] = 0]
  /\ \/ m < MOTOR_BL /\ m' = m + 1 /\ pc' = "ramp" /\ pid' = pid
     \/ m = MOTOR_BL /\ m' = 0 /\ pc' = "read" /\ pid' = [a \in Axes |-> FALSE]
  /\ UNCHANGED <<speed, cmd, mix, btVars, nvs, held>>

test_off ==
  /\ pc = "off"
  /\ duty' = [duty EXCEPT ![m] = 0]
  /\ \/ m < MOTOR_BR /\ m' = m + 1 /\ pc' = "ramp" /\ pid' = pid
     \* after the last motor app_main calls pid_init twice and enters the loop
     \/ m = MOTOR_BR /\ m' = 0 /\ pc' = "read" /\ pid' = [a \in Axes |-> FALSE]
  /\ UNCHANGED <<speed, cmd, mix, btVars, nvs, held>>

-----------------------------------------------------------------------------
(* The control loop.                                                       *)

read_ok == Pass("read", "throttle")

\* The whole body is skipped: no motor is touched, no PID is reset.
read_fails == Pass("read", "wait")

\* The words are loaded afresh for each test and once more for the conversion;
\* a callback may store between any two of these loads.
load_throttle ==
  /\ \/ /\ Goto("throttle", IF bt[THROTTLE] < -20 THEN "throttle_use"
                             ELSE "pitch")
        /\ cmd' = cmd
     \/ /\ Goto("throttle_use", "pitch")
        /\ cmd' = [cmd EXCEPT ![THROTTLE] = throttle_map(bt[THROTTLE])]
  /\ UNCHANGED <<m, speed, mix, pid, duty, btVars, nvs, held>>

\* if (w > 20 || w < -20) cmd = map_value(w, ...): up to three loads.
LoadTilt(w, above, below, use, done) ==
  /\ \/ Goto(above, IF bt[w] > 20 THEN use ELSE below) /\ cmd' = cmd
     \/ Goto(below, IF bt[w] < -20 THEN use ELSE done) /\ cmd' = cmd
     \/ Goto(use, done) /\ cmd' = [cmd EXCEPT ![w] = tilt_map(bt[w])]
  /\ UNCHANGED <<m, speed, mix, pid, duty, btVars, nvs, held>>

load_pitch == LoadTilt(PITCH, "pitch", "pitch_below", "pitch_use", "roll")
load_roll  == LoadTilt(ROLL, "roll", "roll_below", "roll_use", "control")

\* The set points are dead once the PIDs have used them: they are cleared here.
control_fly ==
  /\ Goto("control", "set")
  /\ Thrust(cmd[THROTTLE])
  /\ \E p, r \in PidOut : mix' = Mixer(cmd[THROTTLE], p, r)
  /\ pid' = [a \in Axes |-> TRUE]
  /\ cmd' = [NoCmd EXCEPT ![THROTTLE] = cmd[THROTTLE]]
  /\ UNCHANGED <<m, speed, duty, btVars, nvs, held>>

control_idle ==
  /\ Goto("control", "stop")
  /\ ~Thrust(cmd[THROTTLE])
  /\ cmd' = [NoCmd EXCEPT ![THROTTLE] = cmd[THROTTLE]]
  /\ UNCHANGED <<m, speed, mix, pid, duty, btVars, nvs, held>>

\* The block's locals end with it, and the history counts the iteration.
EndOfBody ==
  /\ pc' = "wait"
  /\ m' = 0
  /\ cmd' = NoCmd
  /\ mix' = Off
  /\ held' = IF Thrust(throttle_cmd(bt[THROTTLE])) THEN 0
             ELSE IF held = 2 THEN 2 ELSE held + 1

\* motor_set_speed: ledc_set_duty and ledc_update_duty latch the duty together.
set_speed ==
  /\ pc = "set"
  /\ duty' = [duty EXCEPT ![m] = DutyOf(mix[m])]
  /\ \/ m < MOTOR_BR /\ m' = m + 1 /\ UNCHANGED <<pc, cmd, mix, held>>
     \/ m = MOTOR_BR /\ EndOfBody
  /\ UNCHANGED <<speed, pid, btVars, nvs>>

\* Mistake: the idle branch leaves out the last motor.
stop_motor_but_one ==
  /\ pc = "stop"
  /\ duty' = [duty EXCEPT ![m] = DutyOf(0)]
  /\ \/ m < MOTOR_BL /\ m' = m + 1 /\ UNCHANGED <<pc, cmd, mix, held, pid>>
     \/ m = MOTOR_BL /\ EndOfBody /\ pid' = [a \in Axes |-> FALSE]
  /\ UNCHANGED <<speed, btVars, nvs>>

\* The idle branch: four times speed 0, then both PIDs are reset.
stop_motor ==
  /\ pc = "stop"
  /\ duty' = [duty EXCEPT ![m] = DutyOf(0)]
  /\ \/ m < MOTOR_BR /\ m' = m + 1 /\ UNCHANGED <<pc, cmd, mix, held, pid>>
     \/ m = MOTOR_BR /\ EndOfBody /\ pid' = [a \in Axes |-> FALSE]
  /\ UNCHANGED <<speed, btVars, nvs>>

\* vTaskDelayUntil returns.
delay_until == Pass("wait", "read")

\* The calls under ESP_ERROR_CHECK, and the image that a failure discards.
Checked == {"nvs", "nvs_erase", "nvs_retry", "sensor", "timer", "chan",
            "ramp", "off", "set", "stop"}

check_fails ==
  /\ pc \in Checked
  /\ Reboot
  /\ nvs' = nvs

-----------------------------------------------------------------------------
(* bluepad_task.                                                           *)

\* btstack_init, uni_platform_set_custom, uni_init; the run loop starts.
bluepad_start ==
  /\ task = "delay"
  /\ task' = "run"
  /\ UNCHANGED <<mainVars, duty, bt, cb, vals, conn, nvs, held>>

\* Callbacks run one after the other on the BTstack run loop.
my_on_device_connected(d) ==
  /\ task = "run" /\ Idle
  /\ d \notin conn
  /\ conn' = conn \union {d}
  /\ UNCHANGED <<mainVars, duty, bt, task, cb, vals, nvs, held>>

my_on_controller_data(d, r) ==
  /\ task = "run" /\ Idle
  /\ d \in conn
  /\ cb' = THROTTLE /\ vals' = r
  /\ UNCHANGED <<mainVars, duty, bt, task, conn, nvs, held>>

\* Mistake: only the other three words are cleared.
my_on_device_disconnected_keeps_throttle(d) ==
  /\ task = "run" /\ Idle
  /\ d \in conn
  /\ conn' = conn \ {d}
  /\ cb' = YAW /\ vals' = Zero
  /\ UNCHANGED <<mainVars, duty, bt, task, nvs, held>>

\* Any controller that leaves clears the words, also when another one stays.
my_on_device_disconnected(d) ==
  /\ task = "run" /\ Idle
  /\ d \in conn
  /\ conn' = conn \ {d}
  /\ cb' = THROTTLE /\ vals' = Zero
  /\ UNCHANGED <<mainVars, duty, bt, task, nvs, held>>

\* One store of the running callback.
store ==
  /\ cb \in Words
  /\ bt' = [bt EXCEPT ![cb] = vals[cb]]
  /\ cb' = cb + 1
  /\ vals' = IF cb = ROLL THEN Zero ELSE vals
  /\ held' = IF Thrust(throttle_cmd(bt'[THROTTLE])) THEN 0 ELSE held
  /\ UNCHANGED <<mainVars, duty, task, conn, nvs>>

-----------------------------------------------------------------------------
Boot == nvs_flash_init \/ nvs_flash_erase \/ nvs_flash_init_retry
        \/ mpu6050_init \/ motor_init_pin \/ motor_init_timer
        \/ motor_init_channel \/ bluetooth_init

Test == test_ramp \/ test_off

Loop == read_ok \/ read_fails \/ load_throttle \/ load_pitch \/ load_roll
        \/ control_fly \/ control_idle \/ set_speed \/ stop_motor
        \/ delay_until

Main == Boot \/ Test \/ Loop

Bluetooth ==
  \/ bluepad_start
  \/ store
  \/ \E d \in Devices :
       \/ my_on_device_connected(d)
       \/ my_on_device_disconnected(d)
       \/ \E r \in Reports : my_on_controller_data(d, r)

Next == Main \/ check_fails \/ Bluetooth

Spec == Init /\ [][Next]_vars

(***************************************************************************)
(* Fairness.  The main task is never blocked for good: every wait of it has  *)
(* a timeout.  bluepad_task has the higher priority and finishes its         *)
(* callbacks.  SensorAnswers is the hope that the MPU6050 is not lost for    *)
(* ever to the control loop, BootPasses that the checks before motor_init do *)
(* not fail at every boot; nothing in the code guarantees either, so they    *)
(* are kept apart.  No fairness limits the reboots.                          *)
(***************************************************************************)
TaskFairness  == WF_vars(Main) /\ WF_vars(bluepad_start) /\ WF_vars(store)
SensorAnswers == SF_vars(read_ok)
BootPasses    == /\ SF_vars(nvs_flash_init) /\ SF_vars(nvs_flash_erase)
                 /\ SF_vars(nvs_flash_init_retry) /\ SF_vars(mpu6050_init)

LoopSpec == Spec /\ TaskFairness
FairSpec == LoopSpec /\ SensorAnswers /\ BootPasses

-----------------------------------------------------------------------------
AllOff == \A i \in Motors : duty[i] = 0
Demand == Thrust(throttle_cmd(bt[THROTTLE]))

\* The type invariant of both tasks and of the hardware.
TypeOK ==
  /\ pc \in BootPcs \union TestPcs \union LoopPcs
  /\ m \in Motors
  /\ speed \in 0 .. 15
  /\ cmd \in [{THROTTLE, PITCH, ROLL} -> Int]
  /\ mix \in [Motors -> 0 .. Percent(100)]
  /\ pid \in [Axes -> BOOLEAN]
  /\ duty \in [Motors -> 0 .. 1023]
  /\ bt \in [Words -> Int]
  /\ task \in {"none", "delay", "run"}
  /\ cb \in 1 .. 5
  /\ vals \in [Words -> Int]
  /\ conn \subseteq Devices
  /\ nvs \in {"ok", "unusable"}
  /\ held \in 0 .. 2

\* However stores and loads interleave, once bt_throttle has stopped asking for
\* thrust at most one iteration (the one that had already loaded it) can still
\* drive the motors: after the second one that reads the sensor all are off and
\* both PIDs are reset, and this stays so until bt_throttle asks again.
FailsafeWithinTwo ==
  held = 2 => AllOff /\ \A a \in Axes : ~pid[a]

\* motor_test_sequence turns one motor at a time and never beyond 15 percent,
\* also when reports and disconnects arrive meanwhile or when the board has
\* rebooted with motors running.
TestIsGentle ==
  pc \in TestPcs => /\ duty[m] <= DutyOf(Percent(15))
                    /\ \A i \in Motors \ {m} : duty[i] = 0

\* With no controller connected and no callback under way the four words are 0:
\* what any number of controllers stored is gone when the last one has left.
SilentMeansZero == conn = {} /\ Idle => bt = Zero

-----------------------------------------------------------------------------
(* The inductive invariant behind the safety properties.                   *)

\* Where the iteration has loaded the throttle word, and where it has not.
Loaded == {"pitch", "pitch_below", "pitch_use", "roll", "roll_below",
           "roll_use", "control", "set", "stop"}

CommandInv ==
  /\ pc \notin Loaded => cmd[THROTTLE] = 0
  /\ pc = "set" => Thrust(cmd[THROTTLE])
  /\ pc = "stop" => ~Thrust(cmd[THROTTLE])

\* An iteration that ended since the demand went away: the word is idle, and so
\* is what any later iteration has loaded.
HeldInv ==
  held > 0 => /\ pc \in LoopPcs
              /\ ~Demand
              /\ pc \in Loaded => ~Thrust(cmd[THROTTLE])

CounterInv ==
  /\ pc \notin {"pins", "chan", "ramp", "off", "set", "stop"} => m = 0
  /\ pc \in {"pins", "stop"} => \A i \in Motors : i < m => duty[i] = 0
  /\ pc \in {"timer", "chan", "bt"} => AllOff

\* A callback that runs when nobody is connected is the one that clears.
ClearingInv ==
  conn = {} => IF Idle THEN bt = Zero
               ELSE vals = Zero /\ \A w \in Words : w < cb => bt[w] = 0

IInv == /\ TypeOK /\ CommandInv /\ HeldInv /\ CounterInv /\ ClearingInv
        /\ TestIsGentle /\ FailsafeWithinTwo

-----------------------------------------------------------------------------
(* The refinement mapping to MotorSafety.                                  *)
Phase == IF pc \in BootPcs THEN "boot"
         ELSE IF pc \in TestPcs THEN "test" ELSE "loop"

On == {i \in Motors : duty[i] > 0}

Tested == IF pc \in BootPcs THEN {}
          ELSE IF pc \in TestPcs THEN {i \in Motors : i < m} ELSE Motors

Granted == Thrust(cmd[THROTTLE])

Promise == INSTANCE MotorSafety WITH
  phase <- Phase, on <- On, tested <- Tested, demand <- Demand, grant <- Granted

\* The promise of MotorSafety, with the grant read from the throttle command of
\* the iteration under way: no motor starts without a tested board and a demand
\* that the iteration itself has seen.
KeepsPromise == Promise!Spec

\* When the last controller is gone for good the motors stop for good, through
\* my_on_device_disconnected and the idle branch of the loop, or through the
\* boot of a board that was rebooting meanwhile, unless its checks fail for ever
\* (each boot that reaches the motor test turns the motors).
LinkLossStopsMotors ==
  <>[](conn = {}) /\ <>[][~check_fails]_vars => <>[]AllOff

\* "Gas ist weg -> Motoren sofort aus": when the throttle word stops asking for
\* thrust and the board stays in its loop, the motors stop for good.
ThrottleCutStopsMotors == <>[](pc \in LoopPcs /\ ~Demand) => <>[]AllOff

\* "Pins explizit auf 0 (GND) ziehen, bevor PWM uebernimmt": a board that reboots
\* with the LEDC still driving the motors stops all four, however often it
\* reboots again from motor_init, the motor test or the loop.  It rests on
\* BootPasses: a board whose sensor fails at every boot aborts in mpu6050_init,
\* before motor_init, every time, and never comes to the pins.
RebootStopsMotors == (pc = "nvs" /\ ~AllOff) ~> AllOff

=============================================================================
