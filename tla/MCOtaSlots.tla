----------------------------- MODULE MCOtaSlots ------------------------------
(* OtaSlots on small instances. *)
EXTENDS OtaSlots
==============================================================================
