----------------------------- MODULE MotorSafety -----------------------------
(***************************************************************************)
(* What the firmware promises about its motors, with no tasks, registers or *)
(* loops: after a reset nothing starts until every motor has been tested,   *)
(* once each and one at a time, and from then on a motor starts only under a *)
(* grant that was given while the pilot demanded thrust.                     *)
(***************************************************************************)
CONSTANT Motors

VARIABLES
  phase,    \* "boot", "test" or "loop"
  on,       \* the motors that turn
  tested,   \* the motors whose test is over
  demand,   \* does the pilot's throttle ask for thrust?
  grant     \* has the control loop accepted the demand for this iteration?

promiseVars == <<phase, on, tested, demand, grant>>

Init ==
  /\ phase = "boot" /\ on = {} /\ tested = {}
  /\ demand = FALSE /\ grant = FALSE

\* A reset may leave motors turning, but starts none.
Reset ==
  /\ phase' = "boot" /\ tested' = {} /\ demand' = FALSE /\ grant' = FALSE
  /\ on' \in SUBSET on

\* Motors may stop in every phase.
Stop ==
  /\ on' \in SUBSET on
  /\ UNCHANGED <<phase, tested, demand, grant>>

StartTest ==
  /\ phase = "boot" /\ on = {}
  /\ phase' = "test"
  /\ UNCHANGED <<on, tested, demand, grant>>

Spin(i) ==
  /\ phase = "test" /\ i \notin tested /\ on \subseteq {i}
  /\ on' = {i}
  /\ UNCHANGED <<phase, tested, demand, grant>>

EndTest(i) ==
  /\ phase = "test" /\ i \notin tested /\ on \subseteq {i}
  /\ on' = {}
  /\ tested' = tested \union {i}
  /\ phase' = IF tested' = Motors THEN "loop" ELSE "test"
  /\ UNCHANGED <<demand, grant>>

Pilot ==
  /\ demand' \in BOOLEAN
  /\ UNCHANGED <<phase, on, tested, grant>>

Grant ==
  /\ phase = "loop" /\ demand
  /\ grant' = TRUE
  /\ UNCHANGED <<phase, on, tested, demand>>

\* A step of the granted iteration; its last step gives the grant back.
Drive ==
  /\ phase = "loop" /\ grant
  /\ on' \in SUBSET Motors
  /\ grant' \in BOOLEAN
  /\ UNCHANGED <<phase, tested, demand>>

Next ==
  \/ Reset \/ Stop \/ StartTest \/ Pilot \/ Grant \/ Drive
  \/ \E i \in Motors : Spin(i) \/ EndTest(i)

Spec == Init /\ [][Next]_promiseVars

=============================================================================
