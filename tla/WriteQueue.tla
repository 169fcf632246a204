----------------------------- MODULE WriteQueue ------------------------------
(***************************************************************************)
(* The pending-write queue of micronova.c: a ring of WRITE_Q_SIZE slots    *)
(* that mn_write_register fills (mn_enqueue_write) and the master task     *)
(* empties (mn_dequeue_write).  Neither side takes mn_mutex and the chip   *)
(* has two cores, so every access to a shared word is a step of its own.   *)
(*                                                                         *)
(* The producers are the tasks that call mn_write_register: the esp-mqtt   *)
(* task (mqtt_bridge.c, handle_command), the HTTP server task (web_ui.c)   *)
(* and the cloud client's task (cloud_bridge.c, handle_in_settings).  The  *)
(* consumer is the master task alone.                                      *)
(***************************************************************************)
EXTENDS Naturals, Sequences

CONSTANTS
  Producers,      \* the tasks that call mn_write_register
  Addrs,          \* register addresses
  Values,         \* register values
  WRITE_Q_SIZE,   \* slots of the ring
  MaxCalls        \* bound: calls of mn_write_register in a behaviour

ASSUME SizeAssumption == WRITE_Q_SIZE \in Nat /\ WRITE_Q_SIZE >= 2
ASSUME CmdAssumption == Addrs # {} /\ Values # {}
ASSUME CallsAssumption == MaxCalls \in Nat

VARIABLES
  write_q,        \* the slots
  write_q_head,   \* where the next command goes
  write_q_tail,   \* where the next command is taken
  pc,             \* pc[p]: where producer p is in mn_enqueue_write
  cmd,            \* cmd[p]: the command of p's current call
  head,           \* head[p]: write_q_head as p read it
  mpc,            \* where the master is in mn_dequeue_write
  out,            \* the master's copy *out
  calls,          \* history: calls made
  returned,       \* history: calls that returned ESP_OK
  accepted,       \* history: the commands published in the ring, in order
  taken           \* history: how many commands the master took

queueVars == <<write_q, write_q_head, write_q_tail>>
producerVars == <<pc, cmd, head>>
masterVars == <<mpc, out>>
vars == <<queueVars, producerVars, masterVars, calls, returned, accepted, taken>>

Slot == 0 .. WRITE_Q_SIZE - 1
Cmd == [addr : Addrs, value : Values]

(* Mutant: the ring is one slot longer than its storage. *)
NextSlotPast(i) == (i + 1) % (WRITE_Q_SIZE + 1)

(* The slot after i. *)
NextSlot(i) == (i + 1) % WRITE_Q_SIZE

Init ==
  /\ write_q \in [Slot -> {CHOOSE c \in Cmd : TRUE}]   \* static storage: all slots alike
  /\ write_q_head = 0
  /\ write_q_tail = 0
  /\ pc = [p \in Producers |-> "idle"]
  /\ cmd = [p \in Producers |-> CHOOSE c \in Cmd : TRUE]
  /\ head = [p \in Producers |-> 0]
  /\ mpc = "test"
  /\ out = CHOOSE c \in Cmd : TRUE
  /\ calls = 0
  /\ returned = 0
  /\ accepted = <<>>
  /\ taken = 0

------------------------------------------------------------------------------
(* mn_write_register and mn_enqueue_write, on the task of producer p. *)

Goto(p, l) == pc' = [pc EXCEPT ![p] = l]

(* p calls with command c and reads write_q_head. *)
Call(p, c) ==
  /\ pc[p] = "idle"
  /\ calls < MaxCalls
  /\ Goto(p, "full?")
  /\ cmd' = [cmd EXCEPT ![p] = c]
  /\ head' = [head EXCEPT ![p] = write_q_head]
  /\ calls' = calls + 1
  /\ UNCHANGED <<queueVars, masterVars, returned, accepted, taken>>

(* Mutants: the ring is never full, or full one command too early. *)
NeverFull(h) == FALSE
FullEarly(h) == NextSlot(NextSlot(h)) = write_q_tail

(* One slot stays free: the ring is full when the next head is the tail. *)
IsFull(h) == NextSlot(h) = write_q_tail

(* The early return: the command is dropped and the caller told ESP_OK. *)
DropFull(p) ==
  /\ pc[p] = "full?"
  /\ IsFull(head[p])
  /\ Goto(p, "idle")
  /\ returned' = returned + 1
  /\ UNCHANGED <<queueVars, cmd, head, masterVars, calls, accepted, taken>>

FindRoom(p) ==
  /\ pc[p] = "full?"
  /\ ~IsFull(head[p])
  /\ Goto(p, "addr")
  /\ UNCHANGED <<queueVars, cmd, head, masterVars, calls, returned, accepted, taken>>

StoreAddr(p) ==
  /\ pc[p] = "addr"
  /\ write_q' = [write_q EXCEPT ![head[p]].addr = cmd[p].addr]
  /\ Goto(p, "value")
  /\ UNCHANGED <<write_q_head, write_q_tail, cmd, head, masterVars, calls, returned, accepted, taken>>

(* Mutant: the value goes to the slot after the one claimed. *)
StoreValueAhead(p) ==
  /\ pc[p] = "value"
  /\ write_q' = [write_q EXCEPT ![NextSlot(head[p])].value = cmd[p].value]
  /\ Goto(p, "publish")
  /\ UNCHANGED <<write_q_head, write_q_tail, cmd, head, masterVars, calls, returned, accepted, taken>>

StoreValue(p) ==
  /\ pc[p] = "value"
  /\ write_q' = [write_q EXCEPT ![head[p]].value = cmd[p].value]
  /\ Goto(p, "publish")
  /\ UNCHANGED <<write_q_head, write_q_tail, cmd, head, masterVars, calls, returned, accepted, taken>>

(* write_q_head = next: the command is visible to the master, the call returns. *)
Publish(p) ==
  /\ pc[p] = "publish"
  /\ write_q_head' = NextSlot(head[p])
  /\ accepted' = Append(accepted, cmd[p])
  /\ returned' = returned + 1
  /\ Goto(p, "idle")
  /\ UNCHANGED <<write_q, write_q_tail, cmd, head, masterVars, calls, taken>>

------------------------------------------------------------------------------
(* mn_dequeue_write, on the master task. *)

(* Mutant: the test forgets that the head wraps. *)
FindCommandUnwrapped ==
  /\ mpc = "test"
  /\ write_q_head > write_q_tail
  /\ mpc' = "addr"
  /\ UNCHANGED <<queueVars, producerVars, out, calls, returned, accepted, taken>>

FindCommand ==
  /\ mpc = "test"
  /\ write_q_head # write_q_tail
  /\ mpc' = "addr"
  /\ UNCHANGED <<queueVars, producerVars, out, calls, returned, accepted, taken>>

CopyAddr ==
  /\ mpc = "addr"
  /\ out' = [out EXCEPT !.addr = write_q[write_q_tail].addr]
  /\ mpc' = "value"
  /\ UNCHANGED <<queueVars, producerVars, calls, returned, accepted, taken>>

CopyValue ==
  /\ mpc = "value"
  /\ out' = [out EXCEPT !.value = write_q[write_q_tail].value]
  /\ mpc' = "advance"
  /\ UNCHANGED <<queueVars, producerVars, calls, returned, accepted, taken>>

(* write_q_tail advances; the slot is free and the master sends *out. *)
Advance ==
  /\ mpc = "advance"
  /\ write_q_tail' = NextSlot(write_q_tail)
  /\ mpc' = "test"
  /\ taken' = taken + 1
  /\ UNCHANGED <<write_q, write_q_head, producerVars, out, calls, returned, accepted>>

------------------------------------------------------------------------------
Enqueue(p) == DropFull(p) \/ FindRoom(p) \/ StoreAddr(p) \/ StoreValue(p) \/ Publish(p)

Dequeue == FindCommand \/ CopyAddr \/ CopyValue \/ Advance

Next ==
  \/ \E p \in Producers, c \in Cmd : Call(p, c)
  \/ \E p \in Producers : Enqueue(p)
  \/ Dequeue

(* A producer inside the call and the master keep running: both are tasks  *)
(* of a preemptive scheduler and neither waits for anything here.  Nobody  *)
(* has to call.                                                            *)
Fairness ==
  /\ \A p \in Producers : WF_vars(Enqueue(p))
  /\ WF_vars(Dequeue)

Spec == Init /\ [][Next]_vars

FairSpec == Spec /\ Fairness

------------------------------------------------------------------------------
TypeOK ==
  /\ write_q \in [Slot -> Cmd]
  /\ write_q_head \in Slot
  /\ write_q_tail \in Slot
  /\ pc \in [Producers -> {"idle", "full?", "addr", "value", "publish"}]
  /\ cmd \in [Producers -> Cmd]
  /\ head \in [Producers -> Slot]
  /\ mpc \in {"test", "addr", "value", "advance"}
  /\ out \in Cmd
  /\ calls \in Nat
  /\ returned \in Nat
  /\ accepted \in Seq(Cmd)
  /\ taken \in Nat

(* The command the master is about to send is the oldest accepted one it   *)
(* has not sent: none is lost, sent twice, overtaken or made of the halves *)
(* of two.                                                                 *)
SentInOrder ==
  mpc = "advance" => taken < Len(accepted) /\ out = accepted[taken + 1]

(* The commands accepted and not yet taken. *)
Waiting == Len(accepted) - taken

(* How many slots the ring says are in use. *)
InUse ==
  IF write_q_head >= write_q_tail
  THEN write_q_head - write_q_tail
  ELSE write_q_head + WRITE_Q_SIZE - write_q_tail

(* The two indices account for exactly the waiting commands, never for a   *)
(* full turn of the ring, which they could not tell from an empty one.     *)
IndicesCount == Waiting = InUse

(* The k-th slot after i, for k at most one turn. *)
SlotAfter(i, k) == IF i + k < WRITE_Q_SIZE THEN i + k ELSE i + k - WRITE_Q_SIZE

(* The inductive invariant behind SentInOrder and IndicesCount: the slots  *)
(* from the tail on hold the waiting commands in order; the slot a         *)
(* producer fills is the free one at the head; the master copies the       *)
(* oldest waiting command.                                                 *)
IndicesInv ==
  /\ taken <= Len(accepted)
  /\ Waiting < WRITE_Q_SIZE
  /\ write_q_head = SlotAfter(write_q_tail, Waiting)

ContentsInv ==
  \A k \in Slot :
    k < Waiting => write_q[SlotAfter(write_q_tail, k)] = accepted[taken + k + 1]

ProducerInv ==
  \A p \in Producers :
    /\ pc[p] # "idle" => head[p] = write_q_head
    /\ pc[p] \in {"addr", "value", "publish"} => Waiting < WRITE_Q_SIZE - 1
    /\ pc[p] \in {"value", "publish"} => write_q[head[p]].addr = cmd[p].addr
    /\ pc[p] = "publish" => write_q[head[p]].value = cmd[p].value

MasterInv ==
  /\ mpc # "test" => Waiting > 0
  /\ mpc \in {"value", "advance"} => out.addr = accepted[taken + 1].addr
  /\ mpc = "advance" => out.value = accepted[taken + 1].value

QueueInv == TypeOK /\ IndicesInv /\ ContentsInv /\ ProducerInv /\ MasterInv

(* Every accepted command is taken by the master in the end. *)
EventuallyTaken == \A n \in 1 .. MaxCalls : Len(accepted) >= n ~> taken >= n

(* The ring implements the bounded first-in first-out buffer. *)
Fifo == INSTANCE WriteFifo WITH
  Capacity <- WRITE_Q_SIZE - 1,
  asking <- [p \in {q \in Producers : pc[q] # "idle"} |-> cmd[p]]

FifoSpec == Fifo!FifoSpec

(* micronova.h, mn_write_register: "Queue an actual Micronova WRITE frame  *)
(* to the stove".  With nobody inside the queue, each call that returned   *)
(* ESP_OK has its command in the ring or with the master.                  *)
OkMeansQueued ==
  (\A p \in Producers : pc[p] = "idle") /\ mpc = "test" => returned = taken + InUse
==============================================================================
