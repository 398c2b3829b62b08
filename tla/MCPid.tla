-------------------------------- MODULE MCPid --------------------------------
(***************************************************************************)
(* The gains of app_main: pid_init(&pid, 1.2f, 0.0f, 0.5f, 20.0f, 40.0f).    *)
(* The integral's limit is scaled down to be reached in a few steps.         *)
(***************************************************************************)
EXTENDS Pid

MCSetpoints == {-2, 0, 2}
MCAngles    == {-1, 0}

=============================================================================
