----------------------------- MODULE MCMainLoop ----------------------------
(***************************************************************************)
(* MainLoop for TLC. A tick is 3.75 s: the loop comes every 2, the         *)
(* battery's task every 8, the runner's every 4, and the watchdog bites    *)
(* after 4. millis() starts again every 20.                                *)
(***************************************************************************)
EXTENDS MainLoop

MCInterval == <<8, 4>>
MCSetupTimes == {1, 13}
=============================================================================
