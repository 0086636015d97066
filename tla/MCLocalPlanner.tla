---------------------------- MODULE MCLocalPlanner ----------------------------
(* LocalPlanner with the confirmation counts of amr.yaml.                  *)
EXTENDS LocalPlanner
=============================================================================
