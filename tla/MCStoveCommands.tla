-------------------------- MODULE MCStoveCommands ---------------------------
(* Two programmes of the chrono, so that each has a neighbour in the       *)
(* registers; a time that is no multiple of ten minutes.                   *)
EXTENDS StoveCommands
=============================================================================
