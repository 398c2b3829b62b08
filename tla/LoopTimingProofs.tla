--------------------------- MODULE LoopTimingProofs ---------------------------
(***************************************************************************)
(* OnSchedule for every width of the tick counter and every stall that is     *)
(* shorter than a turn of it.                                                *)
(***************************************************************************)
EXTENDS LoopTiming, TLAPS

TimingInv == WrapInv /\ OnSchedule

\* vTaskDelayUntil blocks exactly when the loop is not behind: the comparisons
\* of ShouldDelay decide this on the wrapped counters alone.
LEMMA DelayDecision ==
  ASSUME TimingInv, pc = "call"
  PROVE  ShouldDelay(Later(last_wake_time, loop_delay)) <=> lag = 0
  BY TimingAssumption
     DEF TimingInv, WrapInv, OnSchedule, ShouldDelay, Later, loop_delay

\* The loop starts on time, on equal counters.
LEMMA InitTiming == Init => TimingInv
  BY TimingAssumption DEF Init, TimingInv, WrapInv, OnSchedule, Later, loop_delay

\* Every tick and every step of the loop keeps the wrapped counters as far apart as
\* the lag says.
LEMMA NextTiming == TimingInv /\ [Next]_vars => TimingInv'
<1> SUFFICES ASSUME TimingInv, [Next]_vars
             PROVE  TimingInv'
  OBVIOUS
<1> USE TimingAssumption DEF TimingInv, WrapInv, OnSchedule
<1>1. CASE StallTick
  BY <1>1 DEF StallTick, Later, loop_delay
<1>2. CASE BodyEnds
  BY <1>2 DEF BodyEnds, Later
<1>3. CASE vTaskDelayUntil
  <2> DEFINE wake == Later(last_wake_time, loop_delay)
  <2>1. ShouldDelay(wake) <=> lag = 0
    BY <1>3, DelayDecision DEF vTaskDelayUntil
  <2>2. CASE lag = 0
    BY <1>3, <2>1, <2>2 DEF vTaskDelayUntil, StartIteration, Later, loop_delay
  <2>3. CASE lag # 0
    BY <1>3, <2>1, <2>3 DEF vTaskDelayUntil, StartIteration, Later, loop_delay
  <2> QED
    BY <2>2, <2>3
<1>4. CASE WaitTick
  BY <1>4 DEF WaitTick, StartIteration, Later, loop_delay
<1>5. CASE UNCHANGED vars
  BY <1>5 DEF vars, Later
<1> QED
  BY <1>1, <1>2, <1>3, <1>4, <1>5 DEF Next

\* No iteration of app_main starts early and none sleeps past its release time,
\* across every wrap of xTickCount.
THEOREM Schedule == Spec => []OnSchedule
<1>1. TimingInv => OnSchedule
  BY DEF TimingInv
<1> QED
  BY <1>1, InitTiming, NextTiming, PTL DEF Spec


SpacingInv == since \in 0 .. 2 /\ OneTickApart

\* The loop of app_main starts two iterations within one tick only to make up for
\* ticks that its bodies have lost, for every width of the counter.
THEOREM Spacing == Spec => []OneTickApart
<1> USE DEF SpacingInv, OneTickApart
<1>1. Init => TimingInv /\ SpacingInv
  BY InitTiming DEF Init
<1>2. TimingInv /\ SpacingInv /\ [Next]_vars => TimingInv' /\ SpacingInv'
  <2> SUFFICES ASSUME TimingInv, SpacingInv, [Next]_vars
               PROVE  SpacingInv'
    BY NextTiming
  <2> USE TimingAssumption DEF TimingInv, WrapInv, OnSchedule
  <2>1. CASE StallTick
    BY <2>1 DEF StallTick, OneMore
  <2>2. CASE BodyEnds
    BY <2>2 DEF BodyEnds
  <2>3. CASE vTaskDelayUntil
    BY <2>3 DEF vTaskDelayUntil, StartIteration, loop_delay
  <2>4. CASE WaitTick
    <3>1. tick' = last_wake_time /\ StartIteration(OneMore(since))
      BY <2>4 DEF WaitTick
    <3> QED
      BY <2>4, <3>1 DEF WaitTick, StartIteration, OneMore
  <2>5. CASE UNCHANGED vars
    BY <2>5 DEF vars
  <2> QED
    BY <2>1, <2>2, <2>3, <2>4, <2>5 DEF Next
<1> QED
  BY <1>1, <1>2, PTL DEF Spec

\* What brings the loop back to its release times after a stall (CatchesUp): while
\* it is behind, vTaskDelayUntil does not block, and each call makes up for one tick.
NeverRestsBehind ==
  [][lag > 0 => /\ pc' # "blocked"
                /\ pc = "call" => pc' = "body" /\ lag' = lag - 1]_vars

\* For every width of the tick counter and wherever it wraps: a late loop of app_main
\* never sleeps.
THEOREM LateNeverSleeps == Spec => NeverRestsBehind
<1> DEFINE Late == lag > 0 => /\ pc' # "blocked"
                              /\ pc = "call" => pc' = "body" /\ lag' = lag - 1
<1>1. TimingInv /\ [Next]_vars => [Late]_vars
  <2> SUFFICES ASSUME TimingInv, Next, lag > 0
               PROVE  /\ pc' # "blocked"
                      /\ pc = "call" => pc' = "body" /\ lag' = lag - 1
    OBVIOUS
  <2> USE DEF TimingInv, WrapInv, OnSchedule
  <2>1. CASE StallTick
    BY <2>1 DEF StallTick
  <2>2. CASE BodyEnds
    BY <2>2 DEF BodyEnds
  <2>3. CASE vTaskDelayUntil
    <3>1. ~ShouldDelay(Later(last_wake_time, loop_delay))
      BY <2>3, DelayDecision DEF vTaskDelayUntil
    <3> QED
      BY <2>3, <3>1 DEF vTaskDelayUntil, StartIteration, loop_delay
  <2>4. CASE WaitTick
    BY <2>4 DEF WaitTick
  <2> QED
    BY <2>1, <2>2, <2>3, <2>4 DEF Next
<1> QED
  BY <1>1, InitTiming, NextTiming, PTL DEF Spec, NeverRestsBehind

===============================================================================
