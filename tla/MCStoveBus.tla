----------------------------- MODULE MCStoveBus ------------------------------
(* StoveBus on a small instance: the state of the stove is hot, its power  *)
(* level is in the poll list; no value fits both registers.                *)
EXTENDS StoveBus, TLC

CONSTANTS state, power, off, on, low, high, zero

MCInitial == state :> off @@ power :> low
MCHot == <<state>>
MCPoll == <<power>>
MCLists == {<<>>, <<power, state>>}
Switch == [reg |-> state, value |-> on]
Raise == [reg |-> power, value |-> high]
Cool == [reg |-> state, value |-> off]
MCSettings == {Switch, Raise}
MCReadings == {Cool}
==============================================================================
