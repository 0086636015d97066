--------------------------- MODULE MCOperatorConsole ---------------------------
(* Two places, schedules of up to two waypoints.                            *)
EXTENDS OperatorConsole
=============================================================================
