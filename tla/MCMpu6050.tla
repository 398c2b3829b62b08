------------------------------ MODULE MCMpu6050 ------------------------------
(***************************************************************************)
(* A small gyroscope range and alpha = 3/4 keep the estimate's range small;   *)
(* the gap of three ticks stands for the code's fifty.                        *)
(***************************************************************************)
EXTENDS Mpu6050

MCGyro  == {-1, 0, 1}
MCAccel == {-2, 2}

=============================================================================
