---------------------------- MODULE MCWriteQueue -----------------------------
(* WriteQueue on small instances: the commands are two values for each of  *)
(* two registers, the power switch and the power level.                    *)
EXTENDS WriteQueue

CONSTANTS mqtt, httpd, stove_state, power_set, v1, v2
==============================================================================
