------------------------------ MODULE LoopTiming ------------------------------
(***************************************************************************)
(* The timing of app_main's control loop: vTaskDelayUntil on a tick counter   *)
(* that wraps, and an I2C read that may block for many ticks (its timeout is   *)
(* 1000 ms, the loop's period 10 ms).  TickType_t has Modulus values, 2^32 on   *)
(* the target.                                                               *)
(***************************************************************************)
EXTENDS Integers

CONSTANTS
  Modulus,     \* number of values of TickType_t
  MaxStall     \* bound: ticks the loop's body may lose in one behaviour

loop_delay == 1   \* pdMS_TO_TICKS(10) at 100 Hz

ASSUME TimingAssumption ==
  /\ Modulus \in Nat /\ MaxStall \in Nat
  /\ MaxStall + 2 * loop_delay < Modulus

VARIABLES
  pc,             \* "body", "call" (of vTaskDelayUntil) or "blocked"
  tick,           \* xTickCount
  last_wake_time,
  stalled,        \* ticks lost in bodies so far
  lag,            \* history: ticks since the release time of the iteration,
                  \* not wrapped (negative: the iteration is early)
  since,          \* history: ticks since the iteration started (2: or more)
  spacing         \* history: ticks between the last two starts (2: or more)

vars == <<pc, tick, last_wake_time, stalled, lag, since, spacing>>

Init ==
  /\ pc = "body"
  /\ tick \in 0 .. Modulus - 1
  /\ last_wake_time = tick
  /\ stalled = 0 /\ lag = 0 /\ since = 0 /\ spacing = 1

\* Addition of TickType_t for n < Modulus.
Later(t, n) == IF t + n >= Modulus THEN t + n - Modulus ELSE t + n

OneMore(n) == IF n = 2 THEN 2 ELSE n + 1

\* A tick interrupt while the body runs: the I2C read blocks, or a task of
\* higher priority runs.
StallTick ==
  /\ pc = "body"
  /\ stalled < MaxStall
  /\ stalled' = stalled + 1
  /\ tick' = Later(tick, 1)
  /\ lag' = lag + 1
  /\ since' = OneMore(since)
  /\ UNCHANGED <<pc, last_wake_time, spacing>>

BodyEnds ==
  /\ pc = "body"
  /\ pc' = "call"
  /\ UNCHANGED <<tick, last_wake_time, stalled, lag, since, spacing>>

StartIteration(elapsed) ==
  /\ pc' = "body"
  /\ spacing' = elapsed
  /\ since' = 0

\* Mistake: the wrap of the tick counter is not considered.
ShouldDelay_no_wrap(wake) == wake > tick

\* vTaskDelayUntil of FreeRTOS: is the wake time still to come, considering
\* that the tick count or the wake time may have wrapped?
ShouldDelay(wake) ==
  IF tick < last_wake_time
  THEN wake < last_wake_time /\ wake > tick
  ELSE wake < last_wake_time \/ wake > tick

\* Mistake: vTaskDelay(loop_delay), a delay from now on.
vTaskDelayUntil_from_now ==
  /\ pc = "call"
  /\ last_wake_time' = Later(tick, loop_delay)
  /\ lag' = lag - loop_delay
  /\ pc' = "blocked"
  /\ UNCHANGED <<tick, stalled, since, spacing>>

\* Either way last_wake_time becomes the release time of the next iteration.
vTaskDelayUntil ==
  LET wake == Later(last_wake_time, loop_delay)
  IN  /\ pc = "call"
      /\ last_wake_time' = wake
      /\ lag' = lag - loop_delay
      /\ \/ ShouldDelay(wake) /\ pc' = "blocked" /\ UNCHANGED <<since, spacing>>
         \/ ~ShouldDelay(wake) /\ StartIteration(since)
      /\ UNCHANGED <<tick, stalled>>

\* A tick while the task waits; the one it waits for starts the next iteration.
WaitTick ==
  /\ pc = "blocked"
  /\ tick' = Later(tick, 1)
  /\ lag' = lag + 1
  /\ \/ tick' = last_wake_time /\ StartIteration(OneMore(since))
     \/ /\ tick' # last_wake_time
        /\ since' = OneMore(since)
        /\ UNCHANGED <<pc, spacing>>
  /\ UNCHANGED <<last_wake_time, stalled>>

Next == StallTick \/ BodyEnds \/ vTaskDelayUntil \/ WaitTick

Spec == Init /\ [][Next]_vars

\* The scheduler runs the main task and the tick interrupt comes.
FairSpec == Spec /\ WF_vars(BodyEnds) /\ WF_vars(vTaskDelayUntil) /\ WF_vars(WaitTick)

-----------------------------------------------------------------------------
\* No iteration starts before its release time and none sleeps past it, at every
\* value of the tick counter: a blocked loop waits for the very next tick, and a
\* running one is behind by no more ticks than bodies have lost.
OnSchedule ==
  /\ pc = "blocked" => lag = -1
  /\ pc # "blocked" => lag \in 0 .. stalled

\* The inductive invariant: the counters, and that the wrapped ones are as far
\* apart as the lag says.
WrapInv ==
  /\ pc \in {"body", "call", "blocked"}
  /\ tick \in 0 .. Modulus - 1
  /\ last_wake_time \in 0 .. Modulus - 1
  /\ stalled \in 0 .. MaxStall
  /\ lag \in Int
  /\ pc = "blocked" => last_wake_time = Later(tick, 1)
  /\ pc # "blocked" => tick = Later(last_wake_time, lag)

\* Stalls that end are made up for: the loop gets back to its release times.
CatchesUp == []<>(pc = "body" /\ lag = 0)

\* "Zeit-Setup fuer exakt 100 Hz (10ms)", with dt = 0.010f in the PIDs: two
\* iterations start less than a tick apart only while the loop makes up for ticks
\* that its bodies have lost; without a stall it keeps its period, also at the wrap.
OneTickApart == spacing = 0 => lag < stalled

=============================================================================
