------------------------------ MODULE WriteFifo ------------------------------
(***************************************************************************)
(* What the pending-write queue of micronova.c promises to the callers of  *)
(* mn_write_register: a bounded first-in first-out buffer.  A caller       *)
(* brings a command, the command is either refused because the buffer is   *)
(* full or put behind the commands already waiting, and the master task    *)
(* takes the waiting commands one at a time from the front.                *)
(***************************************************************************)
EXTENDS Naturals, Sequences

CONSTANTS
  Producers,   \* the tasks that call mn_write_register
  Addrs,       \* register addresses
  Values,      \* register values
  Capacity     \* how many commands may wait at once

VARIABLES
  asking,      \* the producers inside a call, and the command each one brings
  accepted,    \* every command the buffer took, in order
  taken        \* how many of them the master took

fifoVars == <<asking, accepted, taken>>

Cmd == [addr : Addrs, value : Values]

(* The commands that wait: the accepted ones the master has not taken. *)
Waiting == Len(accepted) - taken

FifoInit ==
  /\ asking = [p \in {} |-> CHOOSE c \in Cmd : TRUE]
  /\ accepted = <<>>
  /\ taken = 0

(* p enters a call with command c. *)
Ask(p, c) ==
  /\ p \notin DOMAIN asking
  /\ asking' = [q \in DOMAIN asking \cup {p} |-> IF q = p THEN c ELSE asking[q]]
  /\ UNCHANGED <<accepted, taken>>

(* p leaves the call. *)
Leave(p) ==
  /\ p \in DOMAIN asking
  /\ asking' = [q \in DOMAIN asking \ {p} |-> asking[q]]

(* The command of p is put behind the others: there is room for it. *)
Accept(p) ==
  /\ Leave(p)
  /\ Waiting < Capacity
  /\ accepted' = Append(accepted, asking[p])
  /\ UNCHANGED taken

(* The command of p is refused: the buffer holds all it can. *)
Refuse(p) ==
  /\ Leave(p)
  /\ Waiting = Capacity
  /\ UNCHANGED <<accepted, taken>>

(* The master takes the command at the front. *)
Take ==
  /\ Waiting > 0
  /\ taken' = taken + 1
  /\ UNCHANGED <<asking, accepted>>

FifoNext ==
  \/ \E p \in Producers, c \in Cmd : Ask(p, c)
  \/ \E p \in Producers : Accept(p) \/ Refuse(p)
  \/ Take

FifoSpec == FifoInit /\ [][FifoNext]_fifoVars
==============================================================================
