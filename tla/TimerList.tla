------------------------------- MODULE TimerList -------------------------------
(***************************************************************************)
(* The timers of the BTstack run loop (btstack_run_loop.c and the FreeRTOS *)
(* port), among them the connection timer on which BleHost relies: a list  *)
(* sorted by points in time that wrap, and a loop that sleeps until the    *)
(* first of them.  Timers are added and removed by callbacks and by the    *)
(* handlers of other timers; the time of day is read once per turn.        *)
(***************************************************************************)
EXTENDS Integers, Sequences, SequencesExt

CONSTANTS Timers,
          W,         \* number of values of the millisecond counter, 2^32
          Delays,    \* the delays that timers are set to
          MaxLate    \* the longest that a turn of the loop, or the scheduler
                     \* with a task that is ready, takes

ASSUME TimeAssumption ==
  /\ W \in Nat /\ W % 2 = 0 /\ MaxLate \in Nat
  /\ Delays \subseteq Nat /\ Delays # {}
  /\ \A d \in Delays : d + 1 + 3 * MaxLate < W \div 2

VARIABLES now,       \* hal_time_ms
          timers,    \* btstack_run_loop_base_timers
          timeout,   \* the timeout of each timer in the list, 0 for the others
          phase,     \* "callbacks", "timers" or "wait"
          at,        \* the loop's own copy of the time, 0 while it has none
          sleep,     \* what is left of the wait, -1 for ever
          late,      \* ticks that the loop was late in this phase
          due        \* history: ticks until each timer in the list is due

vars == <<now, timers, timeout, phase, at, sleep, late, due>>

Init ==
  /\ now \in 0 .. W - 1 /\ at = 0
  /\ timers = <<>>
  /\ timeout = [t \in Timers |-> 0]
  /\ phase = "callbacks"
  /\ sleep = 0 /\ late = 0
  /\ due = [t \in Timers |-> 0]

-----------------------------------------------------------------------------
\* Mistake: plain subtraction.
btstack_time_delta_plain(a, b) == a - b

\* (int32_t)(time_a - time_b)
btstack_time_delta(a, b) ==
  LET d == (a - b) % W IN IF d < W \div 2 THEN d ELSE d - W

\* btstack_run_loop_set_timer
Expiry(d) == (now + d + 1) % W

\* Mistake: the new timer is put at the end.
Passed_all(x) == Len(timers)

\* How many timers a new one, due at x, is put behind: those before the first that
\* is due later.
Passed(x) ==
  CHOOSE k \in 0 .. Len(timers) :
    /\ \A i \in 1 .. k : btstack_time_delta(x, timeout[timers[i]]) >= 0
    /\ k < Len(timers) => btstack_time_delta(x, timeout[timers[k + 1]]) < 0

\* process_timers stops at the first timer in the future.
Due(t) == btstack_time_delta(timeout[t], at) <= 0

get_time_until_timeout ==
  IF timers = <<>> THEN -1
  ELSE LET d == btstack_time_delta(timeout[Head(timers)], at)
       IN  IF d < 0 THEN 0 ELSE d

-----------------------------------------------------------------------------
Awake == phase # "wait"

\* btstack_run_loop_set_timer and btstack_run_loop_add_timer; a timer that is in
\* the list already is refused with an assertion, so callers remove it first.
add_timer(t, d) ==
  /\ Awake /\ ~Contains(timers, t)
  /\ LET k == Passed(Expiry(d)) IN
     timers' = SubSeq(timers, 1, k) \o <<t>> \o SubSeq(timers, k + 1, Len(timers))
  /\ timeout' = [timeout EXCEPT ![t] = Expiry(d)]
  /\ due' = [due EXCEPT ![t] = d + 1]
  /\ UNCHANGED <<now, phase, at, sleep, late>>

Forget(t) == timeout' = [timeout EXCEPT ![t] = 0] /\ due' = [due EXCEPT ![t] = 0]

remove_timer(t) ==
  /\ Awake
  /\ \E i \in 1 .. Len(timers) : timers[i] = t /\ timers' = RemoveAt(timers, i)
  /\ Forget(t)
  /\ UNCHANGED <<now, phase, at, sleep, late>>

\* The callbacks are done: the time is read, and the timers are looked at.
callbacks_done ==
  /\ phase = "callbacks" /\ phase' = "timers"
  /\ at' = now
  /\ UNCHANGED <<now, timers, timeout, sleep, late, due>>

\* The first timer is taken out and its handler is called.
process_timer ==
  /\ phase = "timers" /\ timers # <<>> /\ Due(Head(timers))
  /\ timers' = Tail(timers)
  /\ Forget(Head(timers))
  /\ UNCHANGED <<now, phase, at, sleep, late>>

\* None is due: wait until the first one is, counted from the copy of the time.
timers_done ==
  /\ phase = "timers" /\ (timers # <<>> => ~Due(Head(timers)))
  /\ phase' = "wait"
  /\ sleep' = get_time_until_timeout
  /\ late' = 0 /\ at' = 0
  /\ UNCHANGED <<now, timers, timeout, due>>

WakeUp == phase' = "callbacks" /\ sleep' = 0 /\ late' = 0
          /\ UNCHANGED <<now, timers, timeout, at, due>>

\* xTaskNotifyWait returns: the wait is over, or another task has notified.  A wait
\* that pdMS_TO_TICKS has rounded down ends as if notified.
wait_over == phase = "wait" /\ sleep = 0 /\ WakeUp
notified == phase = "wait" /\ sleep # 0 /\ WakeUp

tick ==
  /\ IF Awake \/ sleep = 0
     THEN late < MaxLate /\ late' = late + 1 /\ sleep' = sleep
     ELSE late' = late /\ sleep' = IF sleep > 0 THEN sleep - 1 ELSE sleep
  /\ now' = (now + 1) % W
  /\ due' = [t \in Timers |-> IF Contains(timers, t) THEN due[t] - 1 ELSE due[t]]
  /\ UNCHANGED <<timers, timeout, phase, at>>

Loop == callbacks_done \/ process_timer \/ timers_done \/ wait_over

Next == \/ Loop \/ notified \/ tick
        \/ \E t \in Timers : remove_timer(t) \/ \E d \in Delays : add_timer(t, d)

\* Time passes, and the loop's task runs when it can.
Spec == Init /\ [][Next]_vars /\ WF_vars(Loop) /\ WF_vars(tick)

-----------------------------------------------------------------------------
\* The list is in the order in which the timers are really due, also while the
\* counter wraps between two of them: otherwise one would hide the next.
InOrder ==
  \A i, j \in 1 .. Len(timers) : i < j => due[timers[i]] <= due[timers[j]]

ProcessedWhenDue == process_timer => due[Head(timers)] <= 0

\* No handler is called before its time: a connection gets its full 20 s.
NeverEarly == [][ProcessedWhenDue]_vars

\* Nor much later: neither the copy of the time that goes stale while handlers run
\* nor a wait computed from it makes a timer wait for more than one turn of the
\* loop, the delay of the scheduler and the turn that calls it.
NotTooLate ==
  \A i \in 1 .. Len(timers) : due[timers[i]] >= -3 * MaxLate

\* Every timer that is set leaves the list: it is called or removed.
TimersLeave == \A t \in Timers : Contains(timers, t) ~> ~Contains(timers, t)

=============================================================================
