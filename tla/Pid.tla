--------------------------------- MODULE Pid ---------------------------------
(***************************************************************************)
(* One attitude controller: components/pid/pid.c as app_main uses it, with   *)
(* a constant dt of 10 ms.                                                   *)
(*                                                                         *)
(* Errors are whole degrees.  The integral is kept in 1/100 degree second    *)
(* (error * dt), the derivative in degrees per second ((error - prev) / dt)  *)
(* and the output in 1/10 percent, so every gain is an integer.  The         *)
(* low-pass filter halves a sum; a half that is not a whole number is rounded *)
(* down or up.                                                               *)
(***************************************************************************)
EXTENDS Integers

CONSTANTS
  Setpoints,  \* set points app_main may pass, in degrees
  Angles,     \* measured angles, in degrees
  MaxError,   \* a bound on |setpoint - measured|
  KP, KI, KD, \* the gains in 1/10 (of a percent per unit)
  ILimit,     \* i_limit in 1/100 degree second
  OutLimit    \* out_limit in 1/10 percent

Rate == 100   \* 1 / dt

ASSUME GainsAssumption ==
  /\ KP \in Nat /\ KI \in Nat /\ KD \in Nat
  /\ ILimit \in Nat /\ OutLimit \in Nat /\ MaxError \in Nat
ASSUME ErrorAssumption ==
  /\ Setpoints \subseteq Int /\ Angles \subseteq Int
  /\ \A s \in Setpoints, a \in Angles : s - a \in (-MaxError) .. MaxError

VARIABLES
  pid,    \* pid_ctrl_t: integral, prev_error, prev_derivative
  out,    \* the last result of pid_compute
  twin    \* history: a controller that pid_init set up at the moment of the
          \* last pid_reset and that was fed with the same inputs since

pidVars == <<pid, out, twin>>

\* Mistake: the integral is limited on one side only.
clamp_above_only(value, min, max) == IF value > max THEN max ELSE value

clamp(value, min, max) ==
  IF value < min THEN min ELSE IF value > max THEN max ELSE value

pid_init == [integral |-> 0, prev_error |-> 0, prev_derivative |-> 0]

\* Mistake: the filter adds up the old and the new change.
Derivative_unfiltered(c, error, up) ==
  Rate * (error - c.prev_error) + c.prev_derivative

\* 0.5f * derivative + 0.5f * prev_derivative, rounded down or up.
Derivative(c, error, up) ==
  (Rate * (error - c.prev_error) + c.prev_derivative + up) \div 2

\* The controller after pid_compute.
Step(c, error, up) ==
  [integral        |-> clamp(c.integral + error, -ILimit, ILimit),
   prev_error      |-> error,
   prev_derivative |-> Derivative(c, error, up)]

\* P, I and D parts together; c is the controller after the step.
Output(c) ==
  clamp(KP * c.prev_error + (KI * c.integral) \div Rate
          + KD * c.prev_derivative, -OutLimit, OutLimit)

PidInit == pid = pid_init /\ out = 0 /\ twin = pid_init

pid_compute(setpoint, measured) ==
  \E up \in {0, 1} :
    /\ pid' = Step(pid, setpoint - measured, up)
    /\ out' = Output(pid')
    /\ twin' = Step(twin, setpoint - measured, up)

\* Mistake: the filter's memory survives the reset.
pid_reset_keeps_derivative ==
  /\ pid' = [pid EXCEPT !.integral = 0, !.prev_error = 0]
  /\ twin' = pid_init
  /\ UNCHANGED out

pid_reset ==
  /\ pid' = [pid EXCEPT !.integral = 0, !.prev_error = 0, !.prev_derivative = 0]
  /\ twin' = pid_init
  /\ UNCHANGED out

PidNext == \/ \E s \in Setpoints, a \in Angles : pid_compute(s, a)
        \/ pid_reset

PidSpec == PidInit /\ [][PidNext]_pidVars

-----------------------------------------------------------------------------
DMax == 2 * Rate * MaxError

Controller == [integral        : (-ILimit) .. ILimit,
               prev_error      : (-MaxError) .. MaxError,
               prev_derivative : (-DMax) .. DMax]

\* The limits that make the controller safe to fly: the integral stays within
\* i_limit (anti-windup), the output within out_limit, and the filtered
\* derivative cannot build up beyond the largest change of the error over dt.
Limited == pid \in Controller /\ out \in (-OutLimit) .. OutLimit

\* Nothing from before a pid_reset influences what the controller computes after
\* it: it stays in step with one that was initialised then.
ResetForgets == twin = pid

Dies ==
  pid'.prev_error = pid.prev_error =>
    LET d  == pid.prev_derivative
        d1 == pid'.prev_derivative
    IN  IF d >= 0 THEN 0 <= d1 /\ 2 * d1 <= d + 1
                  ELSE d1 <= 0 /\ d - 1 <= 2 * d1

\* While the error rests the derivative dies out: every pid_compute halves it,
\* up to the rounding, and never turns its sign.
DerivativeDies == [][Dies]_pidVars

=============================================================================
