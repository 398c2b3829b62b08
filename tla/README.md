# Bukkis drone: a TLA+ verification project

The repository is the firmware of a small quadrocopter on an ESP32. This
directory models its flight-critical parts, and the Bluetooth host software the
pilot's commands come through, in TLA+, checks them with TLC and proves the most
important results with TLAPS.

## 1. Inventory

The program's own code is about 520 lines of C in six components; the rest of
the repository is vendored (Bluepad32, BTstack, console commands) or generated
(`build/`). There are no tests and no documentation besides the comments, which
therefore serve as the statement of intent. `sdkconfig` decides what of the
vendored code runs: Bluetooth LE only (`CONFIG_BTDM_CTRL_MODE_BLE_ONLY`), with
Bluepad32's console (`CONFIG_BLUEPAD32_USB_CONSOLE_ENABLE`), GATT service (switched
off) and allowlist compiled in.

| Component | State | Operations |
|---|---|---|
| `main/bukkis_drone.c` | NVS status; the locals of an iteration (`throttle_cmd`, `pitch_cmd`, `roll_cmd`, `m_fl` ...), two PIDs, `last_wake_time` | boot, motor test, control loop at 100 Hz |
| `components/bukkis_bt` | four global words `bt_throttle`, `bt_yaw`, `bt_pitch`, `bt_roll` | `bluepad_task`, the Bluepad32 callbacks |
| `components/motor` | the duty of four LEDC channels | `motor_init`, `motor_set_speed`, `motor_test_sequence` |
| `components/pid` | integral, last error, filtered derivative | `pid_init`, `pid_compute`, `pid_reset` |
| `components/mpu6050` | two estimated angles, time of the last reading | `mpu6050_init`, `mpu6050_read_angles` |
| `components/webserver` | `start_motor_test_flag` | never called, the flag has no reader |
| Bluepad32: `uni_hid_device.c`, `bt/uni_bt_le.c`, `bt/uni_bt.c` | device table, scan flags, per-slot connection timer | LE events, timeouts, safe calls of the console, platform callbacks |
| Bluepad32: `bt/uni_bt_setup.c` | state and index of the set-up | two HCI commands, then `on_init_complete` |
| Bluepad32: `bt/uni_bt_allowlist.c`, `arch/uni_property_esp32.c` | list of addresses and flag, in RAM and in flash | add, remove, enable, boot |
| Bluepad32: `parser/*` | the gamepad of the last report; the Steam parser's file-wide query state | one report to four axes; chain of GATT queries |
| Bluepad32: `bt/uni_bt_service.c` | table shown to an app, the client's place, position in a round of notifications | ATT events, callbacks, on and off |
| Bluepad32: `uni_circular_buffer.c` | reports waiting for a channel | put, get, reset |
| BTstack: `btstack_port_esp32.c`, run loop, ring buffer | packets, callback list, notification bit, timers | three tasks and their hand-overs |
| BTstack: protocols | connections, GATT and HID clients, command credit | modelled only as far as the above turns on them |

How they interact:

* **Two tasks share four words.** The main task (priority 1) loads
  `bt_throttle`, `bt_pitch` and `bt_roll`: once per test of the dead zone and once
  more for the conversion, so that it may test one value and convert another.
  `bluepad_task` (priority 5, not pinned, on a dual-core chip) stores all four in
  `my_on_controller_data` and in `my_on_device_disconnected`. There is no lock
  and nothing is volatile; each access is one 32-bit load or store, and the
  compiler may make one of several loads.
* **The loop calls everything else.** `mpu6050_read_angles` -> command words ->
  `pid_compute` x 2 -> mixer -> `motor_set_speed` x 4, or `motor_set_speed(.., 0)`
  x 4 and `pid_reset` x 2, then `vTaskDelayUntil`.
* **The way of a report.** Controller task -> ring buffer -> BTstack run loop (the
  `bluepad_task`) -> `uni_bt_le.c` -> parser -> `my_on_controller_data` -> the four
  words. Everything in Bluepad32 runs on the run loop, one event at a time; the
  console's task hands it commands through `uni_bt_*_safe`.
* **The way of a lost link.** HCI disconnect, failed pairing, lost encryption,
  console command or connection timer -> `uni_hid_device_disconnect` ->
  `my_on_device_disconnected`, which is all that stops the drone.
* **Errors.** `ESP_ERROR_CHECK` aborts, which reboots the chip. A failing sensor
  read in the loop is not an error: the iteration is skipped. The result of
  `xTaskCreate` is not looked at.

What is hard here, each with its line under "hazards" in `PROJECT.json`: torn
sets of command words; a disconnect that races an iteration which has already
loaded the throttle; a sensor failure that disables the stop branch; a reboot
between two of the four motor updates; the radio that starts in the middle of
the motor test; several controllers writing the same words; the I2C timeout of a
hundred periods and the catching up after it; the wrap of the tick counter; the
time step of the attitude filter after an outage; the memory of the PIDs between
flights; links that end at every point of a connection's life, with timers,
handles and file-wide pointers that outlive the slot they were for; lost wake-ups
between tasks; buffers that are full to the last byte; clocks that wrap; a flash
that is written again at boot; the ends of the range of an axis.

What makes each part correct:

* flight loop and radio: when the throttle word stops asking for thrust, the
  motors are off after at most two good iterations; no motor starts except in its
  own test or in an iteration that saw a demand; a lost link leads to stopped
  motors;
* motor driver: duties between 0 and 1023, one gently driven motor during the test;
* PID: bounded integral and output, no memory across a reset, no kick that stays;
* attitude: a bounded estimate, no integration over an outage;
* timing: no iteration early, none that oversleeps, stalls made up for;
* device table and LE host: the words belong to a pilot who is linked and ready;
  callbacks in order; a slot that gets nowhere is given back;
* set-up: always an event to wait for, `on_init_complete` once;
* allowlist: a reboot brings back a list that somebody asked for;
* parsers: axes in range and in order, and no throttle by a wrong conversion;
* run loop, ring buffer, timers: packets whole and in order, no wake-up lost, timers
  neither early nor hidden.

## 2. Modules

| Module | Models | State and actions |
|---|---|---|
| `MotorSafety` | abstract promise about the motors | which motors turn, which have been tested, demand and grant |
| `FlightControl` | `bukkis_drone.c`, `bukkis_bt.c`, `motor.c` | below |
| `Pid` | `pid.c` | `pid_ctrl_t`; `pid_compute`, `pid_reset` |
| `Mpu6050` | `mpu6050.c` | filter state and age of the last reading; `mpu6050_init`, `mpu6050_read_angles`, time |
| `LoopTiming` | lines 52-55 and 118 of `bukkis_drone.c` with FreeRTOS's `vTaskDelayUntil` | tick count, wake time; stalls, the call, the wait |
| `HidDevices` | the table of `uni_hid_device.c` | slots, look-ups, a fresh slot (no state of its own) |
| `ControllerService` | abstract promise about the platform callbacks (`uni_platform.h`) | who is connected, who is ready |
| `BleHost` | `uni_bt_le.c`, and `uni_bt.c`, `uni_hid_device.c` as LE uses them | below; extends `HidDevices`, refines `ControllerService` |
| `SteamHost` | `uni_hid_parser_steam.c`'s set-up, composed with `BleHost` | the parser's variables and the queries under way |
| `BtSetup` | `uni_bt_setup.c` with the command credit of `hci.c` | state, index, credit, packet buffer, events owed |
| `BtHost` | `uni_bt_packet_handler` of `uni_bt.c`, `my_on_init_complete` | composes `BtSetup` and `BleHost` from power-up |
| `Fifo` | abstract bounded queue | contents, last result |
| `RingBuffer` | `btstack_ring_buffer.c` | storage, two indices, the full flag; refines `Fifo` |
| `RunLoop` | `btstack_port_esp32.c`, `btstack_run_loop_freertos.c`, the safe calls of `uni_bt.c`, composed with `RingBuffer` | mutex, callback list, notification bit, three tasks |
| `TimerList` | `btstack_run_loop.c` | the list, a wrapping clock, the phases of a turn of the loop |
| `Allowlist` | `uni_bt_allowlist.c`, `uni_property_esp32.c` | RAM and flash; commands, boot, failing stores, power failures |
| `HidReports` | seven parsers, `uni_hid_parser.c`, `my_on_controller_data` | peer with its ranges, axes and pedals of its gamepad, the four words |
| `MCFlightControl`, `MCPid`, `MCMpu6050`, `MCHidReports`, `MCRunLoop` | | values of the constants for TLC |
| `FlightControlProofs`, `AttitudeProofs` (`Mpu6050` and `Pid`), `LoopTimingProofs`, `BleHostProofs` (with `BtSetup` and `SteamHost`), `RunLoopProofs` (with `RingBuffer`), `TimerListProofs`, `AllowlistProofs`, `HidReportsProofs` | | theorems |

### FlightControl

`pc` is the place of the main task. Boot: `nvs_flash_init`, `nvs_flash_erase`,
`nvs_flash_init_retry`, `mpu6050_init`, one step per pin and per channel of
`motor_init`, `bluetooth_init`. Test: one step per `motor_set_speed` of
`motor_test_sequence` (`test_ramp`, `test_off`). Loop: the sensor read
(`read_ok`, `read_fails`), one step per load of a command word (two for the
throttle, up to three for pitch and roll, as the source is written; a compiler that
merges loads gives some of these behaviours), the decision
(`control_fly`, `control_idle`), one step per motor (`set_speed`, `stop_motor`),
and `delay_until`. `check_fails` is the reboot: it is possible at every call under
`ESP_ERROR_CHECK`, clears all memory and leaves the LEDC either off or as it was,
because a reset of the CPUs is all that the panic handler is sure to do.

The radio task has one action per callback (`my_on_device_connected`,
`my_on_controller_data`, `my_on_device_disconnected`) and `store`, one step per
word. Callbacks run one at a time on the BTstack run loop. Other callbacks only
log or return a constant. What is assumed of Bluepad32, that reports come from a
connected device and that a disconnect follows a connect, is `ControllerService`,
and `BleHost` is checked to implement it.

Numbers are exact: a speed is an integer in units of 1/492 percent, the width of
the throttle stick's live range, and `DutyOf` truncates as the cast to `uint32_t`
does. The value of `pid_compute` is any member of `PidOut`, within the output
limit that `Pid` establishes. Pauses (`vTaskDelay` in the test) are steps of
arbitrary length.

`held` is a history variable: the number of iterations with a good sensor read
that ended since the throttle word last asked for thrust, up to 2.

### Pid and Mpu6050

Floats are replaced by integers in units in which gains and limits are whole:
degrees, 1/100 degree second, 1/10 percent. Where the code halves or weighs,
the exact quotient lies between two integers and the model takes either, so a
property that holds does not rest on one rounding. `Mpu6050` replaces the 14 raw
bytes, scaling and `atan2` by any rate and any angle of bounded size. A read that
fails changes nothing in this component but the time that passes.

### LoopTiming

`Later` is addition in `TickType_t`. `ShouldDelay` is the test of FreeRTOS with
its three cases of wrapped counters. `StallTick` is a tick interrupt while the body
runs (the I2C driver waits or the radio task runs). `lag`, `since` and `spacing`
are history variables; `lag` is the distance from the release time, not wrapped.

### BleHost, BtHost, SteamHost

One action is one event of the run loop, with everything its handler calls:
`AdvertisingReport` (a slot, the scan stopped, `gap_connect`),
`LeConnectionComplete`, `LeConnectionFailed` (by the answer to the command, or by an
event whose status the handler does not look at), `PairingComplete`, `ReencryptionComplete`,
`DeviceInformationDone`, `HidServiceConnected` (with a parser that is ready at once or
later), `ParserReady`, `HidReport`, `EncryptionOff`, `DisconnectionComplete`,
`ConnectionTimeout`, `DisconnectDevice` and `StartScanning` (console). `Drop` is
`uni_hid_device_disconnect` followed by `uni_hid_device_delete`, which most of them
end in. Of BTstack the model keeps one record per peer (none, being created, open,
closing, and the handle), the one device-information query at a time, the HID
clients with their identifiers and the scan that really runs. Without a connection
for its handle `gap_disconnect` would answer with a disconnect event of its own; its
callers look the connection up first. The connection being created has the invalid
handle, which an empty slot has too: the console's disconnect of an empty slot finds it,
and what follows is in the comment of `gap_disconnect` and observation 13. `pilot` stands for
the four words: the peer whose report they hold, or none when they are zero. Names,
appearance and the numeric contents of reports are left out; `HidReports` has them.

`BtHost` starts at power-up. Until `uni_bt_setup_is_ready` every event is the set-up's
(`BtSetup`); the step that makes it ready includes `my_on_init_complete`, which starts the
scan; from then on events are `BleHost`'s. Console commands are served all the time.
In `BtSetup` BTstack is about to report that it works; an event is handled by the set-up
first, and what it leaves free `hci_run` may use for a command of its own. That the
transport can send (`transport_can_send_packet_now` of `btstack_port_esp32.c`) is part of
`reserved`: the controller takes no packet until it reports the last one as sent, and that
report is what frees BTstack's packet buffer.

`SteamHost` adds the variables that `uni_hid_parser_steam.c` has once for all
controllers and the queries under way, in place of `ParserReady`. The rest is history,
kept per slot and ended with the slot's occupation: `awaited`, the slots whose peer has
not yet answered the whole chain of its own set-up, where `mixed` says that the chain has
moved on an answer of somebody else than the peer that holds slot `device` now; `shared`,
the slots whose set-up began while a query for another peer was under way; `untimed`, the
slots that a mixed chain has made ready. So a late answer of a peer whose slot has been
given away counts as foreign.

### RunLoop, RingBuffer, TimerList

`RunLoop` interleaves `host_recv_pkt_cb` (controller task), a safe call (console
task) and `btstack_run_loop_freertos_execute`, cut where another task can see the
difference: the ring buffer's mutex, the list's mutex, the notification bit, the wait.
Tag and packet are written and read by `RingBuffer`'s actions, whose results the code
ignores. A byte in the ring carries the packet it belongs to and its place there, so
that a torn packet shows. `squeezed` is history: a packet was accepted into less space
than it needs with its tag. `TimerList` keeps the wrapped timeouts of the code and, as
history, the real time until each is due.

### Allowlist, HidReports

`Allowlist` cuts a command into the change in RAM and the store, and boot into one step
per stored address, because each stores the list again. What is stored is the used slots
in their order (`UsedInOrder`). Power may fail between any two steps. `hurt` is history: a fault fell into a boot that was putting back two addresses
or more. `HidReports` goes from one report to the words: a parser's table of usages,
the conversion of a value by the range that the descriptor declares (C division, 16-bit
negation, the pedals' product in 32 unsigned bits), what `init_report` clears.
`parse_usage` stands for the calls for all fields of a report, one after the other: the
last field that goes to a member sets it. A peer is a parser, the usages of its right
stick and pedal (any that the parser takes for them) and a logical range for each.
Buttons, pads and the battery do not reach `bukkis_bt.c` and are left out, as are values
outside the logical range (HID's null values).

## 3. Runs

| Run | Result | Shows |
|---|---|---|
| `flight` | pass | all interleavings of the loop with two controllers and any number of reboots; a lost link and a cut throttle stop the motors, given that the sensor answers; motors that survive a reset are stopped by `motor_init`, given that some boot gets there |
| `sensor_lost` | violation | without that assumption they are not stopped (finding 1) |
| `pid` | pass | limits, reset, decay of the derivative |
| `mpu6050` | pass | bounded estimate, no integration of an outage |
| `loop_timing` | pass | release times kept at every value of the tick counter; iterations crowd only after a stall; the loop catches up |
| `bt_host` | pass | the set-up always has an event to wait for and completes once; then every order of LE events of three peers in two slots: `LostLinkNeutral`, `TimeoutSparesOthers`, `SlotsSettle`, refinement of `ControllerService` |
| `ble_handle_zero` | violation | a pilot's values outlive the link with handle 0 (finding 2) |
| `steam_host` | pass | two Steam Controllers: `LostLinkNeutral` holds; reports are passed on after the controller's own answers unless its set-up shared the variables with another's query; a stuck set-up has a timer unless a foreign answer stopped it |
| `run_loop` | pass | the ring buffer is a queue, packets whole and in order unless one was squeezed in, no lost wake-up, calls in order unless registrations ran out |
| `timer_list` | pass | order, neither early nor late, every timer leaves |
| `allowlist` | pass | power and stores may fail at every step; only a boot with two addresses or more is vulnerable |
| `hid_reports` | pass | for which parsers and ranges words and pedals are in range, and sticks in order |

Properties of `flight`: `TypeOK` includes that mixed speeds stay within
0 to 100 percent, so the cast to an unsigned duty is defined; `FailsafeWithinTwo`
is the fail-safe; `TestIsGentle` the motor test; `SilentMeansZero` the command
words without a pilot; `KeepsPromise` the refinement of `MotorSafety`.

**Bounds.** Two controllers are the least with which one leaves while another
stays. The three reports are full throttle with tilt, and the two neighbours of
the 2 percent threshold (-29 is idle, -30 is thrust), so that torn sets of words
and both branches occur. PID outputs are the two ends of their range, which
drive the mixer into both limits. Reboots are not bounded. `sensor_lost` needs one controller, full throttle and rest. `Pid` scales `i_limit` down so that six steps
reach it; gains are those of `app_main`. `Mpu6050` uses alpha = 3/4 and a gap of
3 ticks instead of 0.98 and 50; both its properties are stated with these as
parameters. `LoopTiming` uses 16 tick values, starts at each of them, and loses up
to 6 ticks, so that every wrap falls before, in and after a stall; the
assumption `MaxStall + 2 < Modulus` is far from its limit in the code (a stall
of 100 ticks, 2^32 values).

`BtHost`: the two commands of the set-up; three peers compete for two slots and two
handles; three client identifiers let an old client live beside the new one. No bound is
needed on BTstack's own commands. The controller gives no handle 0 here; what handle
0 does is finding 2. `SteamHost` has two peers. `RunLoop`: a ring of eight bytes and
packets of one and three bytes with their tags, so that the ring runs full with and
without a squeezed packet, blocks are split at its end, and three packets come round;
two registrations and three calls, so that the registrations run out. `TimerList`: 16
values of the clock, all of them starting points, delays 0, 1 and 3, one tick of lateness
per phase; `TimeAssumption` (delays below half the counter) is what the code needs too.
`Allowlist`: three addresses for two slots. `HidReports`: 16 bits unsigned, -127 to 127,
the odd range 1 to 255, and the range whose maximum reads as -1, for sticks and pedal in
every combination, with the values at both ends and around the centre (the pedal: at both
ends); pad values at both ends of 16 bits and beside the lower one. The generic parser is
given a right stick with Z and RZ and one with RX and RY.

**Fairness.** `TaskFairness`: the main task goes on, because each of its waits
has a timeout (I2C 1000 ms, `vTaskDelay`, `vTaskDelayUntil`), and the radio task
has the higher priority and callbacks that do not block. `SensorAnswers` (strong
fairness of `read_ok`) is no property of the code and is a conjunct of its own:
`sensor_lost` drops it and fails. `BootPasses` (strong fairness of the calls before
`motor_init`) is such a hope too: a check that fails at every boot, which a lost sensor
is enough for, keeps the board from `motor_init` for ever. `RebootStopsMotors` needs it
and is false without it (observation 14). Nothing limits the reboots after `motor_init`,
so `LinkLossStopsMotors` has the premise that they end: each boot that gets to the motor
test turns the motors. No callback is fair: the pilot and the radio
owe nothing. `LoopTiming`: the scheduler and the tick interrupt go on. `BtHost`: the
transport reports a packet as sent, the controller completes commands and gives the
credit for the next in the end; the connection timer's handler is called (`TimerList` shows that
timers leave the list) and a disconnect that the host asked for is confirmed by
the controller; peers owe nothing, not even an answer to a query. `RunLoop`: the
run loop's task runs when it can, and a task in the middle of a hand-over
finishes it; no timer and no packet is promised. `TimerList`: time passes and the loop
runs.

Deadlock is checked in every run.

## 4. Findings

Shown by a run:

1. *Stop needs the sensor* (`sensor_lost`). `bukkis_drone.c:105` says "Gas ist weg ->
   Motoren sofort aus", but the branch lies under the sensor read of line 60. While the
   MPU6050 does not answer, neither the throttle nor a lost link stops the motors.
2. *Handle 0* (`ble_handle_zero`). A slot that waits for its connection has handle 0
   (`uni_hid_device.c:74`), which is a valid handle. If the pilot's link has handle 0 and
   ends, the waiting slot is found in its place, and the words keep the pilot's values.
   Likewise the timeout of such a slot would disconnect the peer that has handle 0.

Stated as the exception in a property of a passing run, which names it:

1. *Torn packet* (`PacketsWhole`). `btstack_port_esp32.c:156` checks the space without the
   two-byte tag: a tag is stored without its packet, or a packet without its tag.
2. *Allowlist at boot* (`ListPersists`). The list is stored again address by address
   (`uni_bt_allowlist.c:64`); a fault in between leaves a part of it.
3. *Two Steam Controllers* (`ReportsAfterOwnSetup`, `StuckSetupIsTimed`). When a set-up
   begins while another's query is under way, one's answers finish the other's
   (`uni_hid_parser_steam.c:207`), although `on_device_ready` is "Called once the "parser"
   is ready". Also a late answer, of a peer whose slot belongs to another by now, declares
   that slot ready and removes its connection timer (line 191); the new peer's own set-up,
   which follows, then runs without a timer, and if it gets stuck nothing ends it. TLC
   finds both without the exceptions.
4. *Steam pad* (`StickOrder`). -32768 has no 16-bit opposite: the pad's lower end reads as
   its upper end.
   Order is also lost for negative values of generic's RY (next item).
5. *Nimbus and generic RY* (`AxesInRange`). The Nimbus parser's negation of -512 is 512.
   The generic parser converts RY, "duplicate of AXIS_RZ", as a pedal
   (`uni_hid_parser_generic.c:46`): the throttle word of such a peer is outside the range
   of a stick and never negative, so it can never ask for thrust. The conversion of pedals
   ignores the minimum (`uni_hid_parser.c:115`): 1 to 255 goes up to 1024, and negative
   values become large.
6. *Crowded iterations* (`OneTickApart`). After a blocked read the missed iterations run
   without a pause between them while the PIDs still assume 10 ms.

Observations made while modelling, which no run states:

7. `mpu6050.c:93` says that a late reading is discarded; the code integrates it with a
   time step of 10 ms.
8. A report that has both RZ and RY sets the axis twice; the last field wins.
9. The Xbox parser clears the sticks for a report that carries only the battery.
10. A slot given up before its connection exists leaves scanning enabled and no scan
    running (`uni_bt_le.c:90`), and the attempt to connect is never cancelled (line 93).
11. A connection that fails is taken for one that came about: its slot gets the event's
    handle, 0, and waits for its timer (`uni_bt_le.c:693`).
12. `map_value` does not limit: an axis value of 512 gives a set point 0.06 degrees beyond
    the 30 of `bukkis_drone.c:72`.
13. The console's disconnect of an empty slot while a connection is being created marks
    BTstack's record of that connection (`hci.c:9090`); the record stays, and a later
    connection to that peer is refused until the next reboot.
14. A reboot in flight gets to `mpu6050_init` before `motor_init` (`bukkis_drone.c:39`): with
    a sensor that is lost for good the board reboots for ever, and where the reset has not
    stopped the LEDC the motors keep their last speed.

## 5. Proofs

All theorems hold for every value of the constants under the named assumptions.

**FlightControlProofs** (from `ReportsAssumption`: reports are integers;
`PidOutAssumption`: PID outputs within 40 percent).
`Invariance` shows `IInv`, the conjunction of `TypeOK`, `TestIsGentle`,
`FailsafeWithinTwo` and four strengthenings:

* `CommandInv` ties the place of the loop to the throttle it has loaded: motors
  are set only under a command above 2 percent;
* `HeldInv`: once an iteration has ended without a demand, everything loaded
  later is idle too. Without it a second iteration could still be about to
  drive the motors when `held` reaches 2;
* `CounterInv`: the loops over the motors have done the motors below `m`, and
  all are off between `motor_init`'s pins and the test. `TestIsGentle` needs this
  after a reboot with motors running;
* `ClearingInv`: when nobody is connected, a running callback is the one that
  clears, and it has cleared the words before its next store. `SilentMeansZero`
  follows.

`TypeCorrect`, `Failsafe`, `GentleTest` and `Silence` follow from it.
`Refinement` shows that each step maps to a step of `MotorSafety` or to none, with
`IInv` for the steps out of boot, in the test and in the motor loop.

**AttitudeProofs** is about the filter and the controller behind it.

* The estimate (from `FilterAssumption`). `EstimateBounded`: `Bounded`, since the
  weighted mean of an angle within the bound, a rotation of at most
  `MaxRate * MaxGap` and an accelerometer angle is again within it.
  `OutageStepBounded`: `OutageIsNotIntegrated`; the invariant adds that nothing has
  moved the estimate before `mpu6050_init`. `FilterForgets`: two estimates that are given
  the same reading keep their order and come closer by alpha, up to rounding, so the
  filter does not carry an error along. The products of parameters are kept apart in
  `TimesMono`, `Rotation` and the two lemmas on quotients.
* The controller (from `GainsAssumption`, `ErrorAssumption`). `PidSafe`: `Limited`
  and `ResetForgets`; the derivative stays within twice the largest error over dt
  because the filter takes the mean of two values within that bound.
  `ResetIsClean`: the second half on its own. `DerivativeFilter`: `DerivativeDies`.
* Between them, `EstimateSuitsController`: for set points within a tilt, the errors
  that the delivered angles lead to are within that tilt plus `Bound`, in every state of
  `FilterSpec`. So a `MaxError` of that size is justified by the sensor's side and is not
  an assumption about it.

**LoopTimingProofs** (from `TimingAssumption`). `Schedule`: `OnSchedule` for each
width of the counter, by the invariant `WrapInv`, that the wrapped counters differ
by the unwrapped lag. `DelayDecision` is the heart: the comparisons of
`vTaskDelayUntil` on wrapped values decide whether the lag is 0. `Spacing`:
`OneTickApart`, from the same invariant and the range of `since`. `LateNeverSleeps`: a
loop that is behind does not block, and each call makes up for one tick.

**BleHostProofs** is about three specifications: `HostSpec` (the LE host from power-up),
the set-up in it, and `SteamSpec`. From `NoHandleZero`, a hypothesis of the theorems
and not an assumption of the model, because finding 2 shows that they are false without
it:

* `Inv` is the invariant behind `NeutralWithoutLink` (`LostLinkNeutral`),
  `TimeoutSpares` (`TimeoutSparesOthers`) and `HostServesController` (the refinement of
  `ControllerService`). `LinksInv`: a handle belongs to one link; `SlotsInv`: a
  slot is one peer's, its handle is that of the peer's link, and an empty slot keeps
  nothing of an earlier peer; `ClientsInv`: a HID client belongs to the slot that has its
  identifier; `ConnectedInv`: a device that was announced has a link, and its client
  while that link is open; `PilotInv`: the values in the words come from a slot that is
  ready and whose end will be announced. `LostLinkNeutral` speaks of one
  peer, but a disconnect is handled by a look-up with its handle, so the proof is that
  this look-up finds the pilot's slot and no other.
* `SteamInv` adds `AskingInv`, that a query under way has an open link. `SteamTypes`
  and `SteamNeutralWithoutLink` follow: a late answer may declare ready a slot of
  another peer, but never makes it the pilot.
* `OwnInv` and `TimedInv`, of `SteamSpec`, give `SteamReadyByOwnAnswers`
  (`ReportsAfterOwnSetup`) and `SteamSetupTimed` (`StuckSetupIsTimed`). `OwnInv`: while
  the slot of the last set-up waits for its own answers, and that set-up did not begin
  beside another's query, the variables of the parser are its own: no foreign answer has
  moved the chain, and the only query under way is the one over its link. `TimedInv`: as
  long as the chain is not mixed, its queries are those of an announced device; so a slot
  that is ready before it was announced, the only kind that starts its set-up without a
  timer, was made so by a foreign answer. Both need `SlotsInv`, that the peer which
  answers over a handle is the one that holds the slot with it.
* `NoSlotUnwatched`, of `HostSpec`: a slot that is taken holds a ready device, or its
  connection timer runs and the handler's guard holds. `TimerInv` alone is not enough:
  the handler also needs the set-up to be done (`TakenInv`), and a ready device that is
  not connected would have no way out (`ReadyInv`).

Without that hypothesis: `SetupInv` ties the place of the set-up to the command credit,
the packet buffer and the events that are owed, which gives `SetupOnce`
(`InitCompleteOnce`) and `SetupAwake` (`WakeUpOwed`).

**RunLoopProofs** (from `SizeAssumption`, `TransportAssumption`, `CallAssumption`).
`RingBufferIsFifo` is the refinement of `Fifo`: `RingOK` says which indices and flags
belong together, and one lemma each for a write and a read, split at the end of the
storage or not, that the contents change as the queue's do. `SafeCallsInOrder` and
`SafeCallsFit` follow from `CallsInv`: the unfinished calls are consecutive, the list
holds their registrations in order, and the age of a call determines its registration,
so a registration comes round while in use only when all of them are. `PacketsAreWhole`
follows from `PacketsInv`: `MutexInv`, that only the task which has the mutex is between
a tag and its packet, and `StreamInv`, that the bytes in the ring are the tags and packets
accepted and not yet delivered, each at the position that the lengths before it give.
`NoLostWakeUp`: when the loop waits without a notification and no task is handing it
work, its list and the ring are empty and all calls are done. `AwakeInv` says who is
about to wake it otherwise: `ListAwake` for the list, which the loop empties before it
waits, and `RingAwake` for the ring, whose bytes are followed by the registration of
the transport.

**TimerListProofs** (from `TimeAssumption`: an even number of clock values, at least one
delay, delays and lateness below half of the clock). `TimeInv` relates the wrapped
timeouts to the real time left (`ClockInv`), the loop's copy of the time to the clock
(`CopyInv`) and the wait to the first timer (`LateInv`). `DeltaIs` is the heart:
`btstack_time_delta` is the real difference as long as that is below half of the range.
`TimersInOrder`, `TimersOnTime` and `TimersNotEarly` follow; for insertion, that the
search stops somewhere is the least-element principle on the naturals (`Least`).

**AllowlistProofs** (from `AllowlistAssumption`: the table has a slot, and the mark of a
free one is not an address). `AllowInv` has four parts beside the types. `Distinct`: no
address is in two slots, so a removal removes it. `Filled`: a boot has filled the slots
from the front and has room for what is left to parse; otherwise an address would be
dropped. `FlagKept`: the flag in RAM and in flash is one that was asked for. `ListKept`
is the argument itself: while no fault hit a critical boot, what is in flash and in RAM
was asked for, and during a boot flash holds the whole list, or the part put back so far
and then a fault counts as one that hurt (`PartSaved`). A store by a boot is the delicate
step: with at most one address the part is the whole, which is why only lists of two or
more are exposed. `AllowlistPersists`: `ListPersists`. `AllowlistFlagPersists`: the flag
survives the faults that hurt the list too. `StoredListFits`: what was stored fits when it
is put back. The first slot of a search is a least element (`LeastSlot`), and that two
addresses are more than one is counted with `FiniteSetTheorems`.

**HidReportsProofs** (from `DeviceAssumption`: a peer's right stick and pedal are usages
that its parser takes for them, an axis has at least 2 and at most 2^16 values, reports are
within their ranges, pad coordinates have 16 bits). Peers, their ranges and their reports
are constants, so the results hold for all of them. The lemmas on quotients show that C's
division is monotone and maps the ends of every range to -512 and 511; `PedalIs`, that the
pedals' quotient of unsigned numbers is never negative as an `int32_t`, and below 1024 if
the minimum is 0; `TablesAgree`, what the six tables have in common, RY of the generic one
being the only stick converted as a pedal. `HidInv` says that after a report of the sticks
the words are the conversions of their values, and after another one 0, which gives
`CommandsInRange` (`AxesInRange`) and `SticksMonotone` (`StickOrder`).

**Only model-checked** is liveness, which is out of the prover's reach. For eight of the
nine liveness properties a theorem states a part that is safety: that the system does not
rest while the thing is still owed, or what holds once it has had its time. That it moves
at all is fairness and stays with TLC:

| Liveness | Proved part |
|---|---|
| `CatchesUp` | `LateNeverSleeps` |
| `SetupCompletes` | `SetupAwake` (`WakeUpOwed`) |
| `SlotsSettle` | `NoSlotUnwatched`, from `NoHandleZero` |
| `PacketsArrive`, `CallsRun` | `NoLostWakeUp` |
| `TimersLeave` | `TimersOnTime` |
| `LinkLossStopsMotors`, `ThrottleCutStopsMotors` | `Failsafe`, `Silence` |
| `RebootStopsMotors`, from `BootPasses` | none |

## 6. Not modelled

* `webserver`: unreachable from `app_main`.
* Classic Bluetooth (`uni_bt_bredr.c`, `uni_bt_sdp.c`, the virtual devices, the
  DualShock, Switch and Wii parsers): the build is LE only.
* The GATT service (`uni_bt_service.c`), which this firmware leaves off, and the queue of
  outgoing reports (`uni_circular_buffer.c`), which only classic controllers use.
* Rumble and LED outputs: `bukkis_bt.c` never asks for any. Mice, keyboards and
  balance boards, whose reports `bukkis_bt.c` reads through the wrong member of a
  union.
* BTstack itself, third-party code of some 200,000 lines: classic profiles, audio
  codecs, mesh, the encodings of commands and events, pairing cryptography. It is
  by far the larger part of the repository, most of it is not reached by this
  firmware, and a faithful model of it would be a project of its own; so the share
  of the repository's lines that these modules stand for is small although the
  parts this drone depends on are covered. What Bluepad32 relies on is modelled
  from `hci.c`, `gatt_client.c`, `hids_client.c` and
  `device_information_service_client.c`.
* The bonded keys, device names and appearance; the parsing of console lines.
* Floating-point rounding of the mixer; aerodynamics; the radio.

## 7. Plan

Done: the flight core, the LE host, its parsers, its run loop and its persistent state,
each model-checked, and every safety property that the passing runs check proved for
every value of the constants. What is left: properties for the scan that is not resumed
(observation 10) and for the union that is read without a look at its class.
