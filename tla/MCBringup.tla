------------------------------- MODULE MCBringup -------------------------------
(* Three nodes, two lives of the manager.                                   *)
EXTENDS Bringup
=============================================================================
