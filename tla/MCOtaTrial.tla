----------------------------- MODULE MCOtaTrial ------------------------------
(* OtaTrial on small instances. *)
EXTENDS OtaTrial
==============================================================================
