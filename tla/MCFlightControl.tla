--------------------------- MODULE MCFlightControl ---------------------------
(***************************************************************************)
(* Instances of FlightControl for TLC.  The reports take the throttle stick *)
(* to both sides of the 2 percent threshold (-29 is idle, -30 is thrust),   *)
(* to its end and to rest; pid_compute saturates in both directions.        *)
(***************************************************************************)
EXTENDS FlightControl

\* <<throttle, yaw, pitch, roll>>
MCReports   == {<<-512, 0, 511, -21>>, <<-30, 0, 0, 0>>, <<-29, 0, 0, 0>>}
LiveReports == {<<-512, 0, 0, 0>>, <<0, 0, 0, 0>>}
MCPidOut    == {-Percent(40), Percent(40)}
LivePidOut  == {0}

=============================================================================
