-------------------------- MODULE MCMotionController --------------------------
(***************************************************************************)
(* Instances of MotionController for TLC.  The limits keep the order of    *)
(* the configured ones: the settle time is shorter than the allowance, and *)
(* every confirmation takes more than one cycle.                           *)
(***************************************************************************)
EXTENDS MotionController

OnTimeOrLate == {1, 2}
StopOrWait == {0, 2}
=============================================================================
