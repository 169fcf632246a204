---------------------------- MODULE MCStoveWatch -----------------------------
(* StoveWatch on small instances. *)
EXTENDS StoveWatch
==============================================================================
