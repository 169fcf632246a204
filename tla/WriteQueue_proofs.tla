-------------------------- MODULE WriteQueue_proofs --------------------------
(***************************************************************************)
(* The pending-write ring of micronova.c, for every ring size and every    *)
(* set of registers and values: types for any number of producers, and     *)
(* first-in first-out delivery for one producer.                           *)
(***************************************************************************)
EXTENDS WriteQueue, TLAPS

(* One task calls mn_write_register. *)
OneProducer == \A p, q \in Producers : p = q

LEMMA NextSlotIsNext ==
  ASSUME NEW i \in Slot
  PROVE  /\ NextSlot(i) \in Slot
         /\ NextSlot(i) = IF i + 1 = WRITE_Q_SIZE THEN 0 ELSE i + 1
  BY SizeAssumption DEF NextSlot, Slot

LEMMA SomeCmd == (CHOOSE c \in Cmd : TRUE) \in Cmd
<1>1. PICK a \in Addrs, v \in Values : TRUE
  BY CmdAssumption
<1>2. [addr |-> a, value |-> v] \in Cmd
  BY <1>1 DEF Cmd
<1> QED BY <1>2

LEMMA TypeInit == Init => TypeOK
  BY SomeCmd, SizeAssumption DEF Init, TypeOK, Slot

LEMMA TypeNext == TypeOK /\ [Next]_vars => TypeOK'
<1> SUFFICES ASSUME TypeOK, [Next]_vars PROVE TypeOK'
  OBVIOUS
<1> USE DEF TypeOK, queueVars, producerVars, masterVars, Goto
<1>1. ASSUME NEW p \in Producers, NEW c \in Cmd, Call(p, c) PROVE TypeOK'
  BY <1>1 DEF Call
<1>2. ASSUME NEW p \in Producers, DropFull(p) PROVE TypeOK'
  BY <1>2 DEF DropFull
<1>3. ASSUME NEW p \in Producers, FindRoom(p) PROVE TypeOK'
  BY <1>3 DEF FindRoom
<1>4. ASSUME NEW p \in Producers, StoreAddr(p) PROVE TypeOK'
  <2>1. write_q' \in [Slot -> Cmd]
    BY <1>4 DEF StoreAddr, Cmd
  <2> QED BY <1>4, <2>1 DEF StoreAddr
<1>5. ASSUME NEW p \in Producers, StoreValue(p) PROVE TypeOK'
  <2>1. write_q' \in [Slot -> Cmd]
    BY <1>5 DEF StoreValue, Cmd
  <2> QED BY <1>5, <2>1 DEF StoreValue
<1>6. ASSUME NEW p \in Producers, Publish(p) PROVE TypeOK'
  BY <1>6, NextSlotIsNext DEF Publish
<1>7. CASE FindCommand
  BY <1>7 DEF FindCommand
<1>8. CASE CopyAddr
  <2>1. out' \in Cmd
    BY <1>8 DEF CopyAddr, Cmd
  <2> QED BY <1>8, <2>1 DEF CopyAddr
<1>9. CASE CopyValue
  <2>1. out' \in Cmd
    BY <1>9 DEF CopyValue, Cmd
  <2> QED BY <1>9, <2>1 DEF CopyValue
<1>10. CASE Advance
  BY <1>10, NextSlotIsNext DEF Advance
<1>11. CASE UNCHANGED vars
  BY <1>11 DEF vars
<1> QED
  BY <1>1, <1>2, <1>3, <1>4, <1>5, <1>6, <1>7, <1>8, <1>9, <1>10, <1>11
     DEF Next, Enqueue, Dequeue

(* Whatever tasks call mn_write_register, and however their steps          *)
(* interleave, the indices stay inside the ring and no access is outside.  *)
THEOREM TypeCorrect == Spec => []TypeOK
<1> QED BY TypeInit, TypeNext, PTL DEF Spec

LEMMA QueueInit == Init => QueueInv
<1> SUFFICES ASSUME Init PROVE QueueInv
  OBVIOUS
<1> USE SizeAssumption DEF Init, Waiting, SlotAfter
<1>1. TypeOK
  BY TypeInit
<1>2. Len(accepted) = 0 /\ Waiting = 0
  OBVIOUS
<1>3. IndicesInv
  BY <1>2 DEF IndicesInv
<1>4. ContentsInv
  BY <1>2 DEF ContentsInv
<1>5. ProducerInv
  BY DEF ProducerInv
<1>6. MasterInv
  BY DEF MasterInv
<1> QED BY <1>1, <1>3, <1>4, <1>5, <1>6 DEF QueueInv

(* The slot k places after the tail, for a k short of a full turn, is a    *)
(* slot, and no other k' names it.                                         *)
LEMMA SlotAfterIsSlot ==
  ASSUME NEW i \in Slot, NEW k \in Nat, k < WRITE_Q_SIZE
  PROVE  /\ SlotAfter(i, k) \in Slot
         /\ \A j \in Nat : j < WRITE_Q_SIZE /\ j # k => SlotAfter(i, j) # SlotAfter(i, k)
         /\ NextSlot(SlotAfter(i, k)) = SlotAfter(NextSlot(i), k)
         /\ k + 1 < WRITE_Q_SIZE => NextSlot(SlotAfter(i, k)) = SlotAfter(i, k + 1)
         /\ k + 1 = WRITE_Q_SIZE => NextSlot(SlotAfter(i, k)) = i
<1>1. SlotAfter(i, k) \in Slot
  BY SizeAssumption DEF SlotAfter, Slot
<1>2. /\ NextSlot(i) = IF i + 1 = WRITE_Q_SIZE THEN 0 ELSE i + 1
      /\ NextSlot(SlotAfter(i, k)) =
           IF SlotAfter(i, k) + 1 = WRITE_Q_SIZE THEN 0 ELSE SlotAfter(i, k) + 1
  BY <1>1, NextSlotIsNext
<1> QED BY <1>1, <1>2, SizeAssumption DEF SlotAfter, Slot

(* A producer publishes what it stored in the free slot at the head.       *)
LEMMA PublishKeeps ==
  ASSUME OneProducer, QueueInv, NEW p \in Producers, Publish(p)
  PROVE  QueueInv'
<1> USE DEF QueueInv, TypeOK
<1>1. TypeOK'
  BY TypeNext DEF Next, Enqueue
<1>2. /\ Waiting \in Nat /\ Waiting < WRITE_Q_SIZE - 1
      /\ head[p] = write_q_head
      /\ Waiting' = Waiting + 1
      /\ write_q' = write_q /\ write_q_tail' = write_q_tail
      /\ taken' = taken /\ out' = out /\ mpc' = mpc
      /\ write_q_head' = NextSlot(write_q_head)
      /\ accepted' = Append(accepted, cmd[p])
  BY SizeAssumption DEF Publish, ProducerInv, IndicesInv, Waiting, masterVars
<1>3. \A n \in 1 .. Len(accepted) : accepted'[n] = accepted[n]
  BY <1>2
<1>4. accepted'[Len(accepted) + 1] = cmd[p]
  BY <1>2
<1>5. IndicesInv'
  BY <1>2, SlotAfterIsSlot, SizeAssumption DEF IndicesInv, Waiting
<1>6. write_q[write_q_head] = cmd[p]
  <2>1. write_q[write_q_head] \in Cmd /\ cmd[p] \in Cmd
    OBVIOUS
  <2>2. /\ write_q[write_q_head].addr = cmd[p].addr
        /\ write_q[write_q_head].value = cmd[p].value
    BY <1>2 DEF ProducerInv, Publish
  <2> QED BY <2>1, <2>2 DEF Cmd
<1>7. ContentsInv'
  <2> SUFFICES ASSUME NEW k \in Slot, k < Waiting'
               PROVE  write_q[SlotAfter(write_q_tail, k)] = accepted'[taken + k + 1]
    BY <1>2 DEF ContentsInv
  <2>1. CASE k < Waiting
    <3>1. taken + k + 1 \in 1 .. Len(accepted)
      BY <2>1 DEF Waiting, Slot
    <3> QED BY <2>1, <3>1, <1>3 DEF ContentsInv
  <2>2. CASE k = Waiting
    BY <2>2, <1>2, <1>4, <1>6 DEF IndicesInv, Waiting
  <2>3. k < Waiting \/ k = Waiting
    BY <1>2 DEF Slot
  <2> QED BY <2>1, <2>2, <2>3
<1>8. ProducerInv'
  <2> SUFFICES ASSUME NEW q \in Producers PROVE pc'[q] = "idle"
    BY DEF ProducerInv
  <2> QED BY DEF OneProducer, Publish, Goto
<1>9. MasterInv'
  <2>1. mpc # "test" => taken + 1 \in 1 .. Len(accepted)
    BY DEF MasterInv, Waiting
  <2> QED BY <2>1, <1>2, <1>3 DEF MasterInv
<1> QED BY <1>1, <1>5, <1>7, <1>8, <1>9

(* A producer stores a field in the free slot at the head: no waiting      *)
(* command is there.                                                       *)
LEMMA StoreKeeps ==
  ASSUME OneProducer, QueueInv, NEW p \in Producers, StoreAddr(p) \/ StoreValue(p)
  PROVE  QueueInv'
<1> USE DEF QueueInv, TypeOK
<1>1. TypeOK'
  BY TypeNext DEF Next, Enqueue
<1>2. /\ Waiting \in Nat /\ Waiting < WRITE_Q_SIZE - 1
      /\ head[p] = write_q_head /\ head' = head /\ cmd' = cmd
      /\ UNCHANGED <<write_q_head, write_q_tail, accepted, taken, mpc, out>>
      /\ Waiting' = Waiting
      /\ \A s \in Slot : s # write_q_head => write_q'[s] = write_q[s]
  BY DEF StoreAddr, StoreValue, ProducerInv, IndicesInv, Waiting, producerVars, masterVars
<1>3. \A k \in Nat : k < Waiting => SlotAfter(write_q_tail, k) \in Slot
                                 /\ SlotAfter(write_q_tail, k) # write_q_head
  BY <1>2, SlotAfterIsSlot, SizeAssumption DEF IndicesInv
<1>4. IndicesInv'
  BY <1>2 DEF IndicesInv, SlotAfter
<1>5. ContentsInv'
  BY <1>2, <1>3 DEF ContentsInv, SlotAfter, Slot
<1>6. ProducerInv'
  <2>1. /\ pc'[p] \in {"value", "publish"}
        /\ write_q'[head[p]].addr = cmd[p].addr
        /\ pc'[p] = "publish" => write_q'[head[p]].value = cmd[p].value
    BY DEF StoreAddr, StoreValue, Goto, ProducerInv, Cmd
  <2> QED BY <1>2, <2>1 DEF OneProducer, ProducerInv
<1>7. MasterInv'
  BY <1>2 DEF MasterInv
<1> QED BY <1>1, <1>4, <1>5, <1>6, <1>7

(* The master frees the slot at the tail: the others move up by one.       *)
LEMMA AdvanceKeeps ==
  ASSUME QueueInv, Advance
  PROVE  QueueInv'
<1> USE DEF QueueInv, TypeOK
<1>1. TypeOK'
  BY TypeNext DEF Next, Dequeue
<1>2. /\ Waiting \in Nat /\ Waiting > 0 /\ Waiting < WRITE_Q_SIZE
      /\ Waiting' = Waiting - 1 /\ taken' = taken + 1
      /\ UNCHANGED <<write_q, write_q_head, accepted, pc, cmd, head>>
      /\ write_q_tail' = NextSlot(write_q_tail)
      /\ mpc' = "test"
  BY DEF Advance, MasterInv, IndicesInv, Waiting, producerVars
<1>3. \A k \in Nat : k < Waiting =>
        SlotAfter(NextSlot(write_q_tail), k) =
          IF k + 1 < WRITE_Q_SIZE THEN SlotAfter(write_q_tail, k + 1) ELSE write_q_tail
  <2> SUFFICES ASSUME NEW k \in Nat, k < Waiting
               PROVE  SlotAfter(NextSlot(write_q_tail), k) =
                        IF k + 1 < WRITE_Q_SIZE THEN SlotAfter(write_q_tail, k + 1)
                                                ELSE write_q_tail
    OBVIOUS
  <2>1. k < WRITE_Q_SIZE
    BY <1>2, SizeAssumption
  <2> QED BY <2>1, SlotAfterIsSlot, SizeAssumption
<1>4. IndicesInv'
  <2>1. SlotAfter(NextSlot(write_q_tail), Waiting - 1) = SlotAfter(write_q_tail, Waiting)
    BY <1>2, <1>3, SizeAssumption
  <2>2. write_q_head' = SlotAfter(write_q_tail', Waiting')
    BY <1>2, <2>1 DEF IndicesInv
  <2>3. taken' <= Len(accepted') /\ Waiting' < WRITE_Q_SIZE
    BY <1>2, SizeAssumption DEF Waiting
  <2> QED BY <2>2, <2>3 DEF IndicesInv
<1>5. ContentsInv'
  <2>1. ASSUME NEW k \in Slot, k < Waiting - 1
        PROVE  write_q[SlotAfter(NextSlot(write_q_tail), k)] = accepted[(taken + 1) + k + 1]
    <3>1. write_q[SlotAfter(write_q_tail, k + 1)] = accepted[taken + (k + 1) + 1]
      BY <1>2, <2>1, SizeAssumption DEF ContentsInv, Slot
    <3> QED BY <1>2, <1>3, <2>1, <3>1, SizeAssumption DEF Slot
  <2> QED BY <1>2, <2>1 DEF ContentsInv
<1>6. ProducerInv'
  BY <1>2, SizeAssumption DEF ProducerInv
<1>7. MasterInv'
  BY <1>2 DEF MasterInv
<1> QED BY <1>1, <1>4, <1>5, <1>6, <1>7

(* What comparing the indices tells: which commands wait.                  *)
LEMMA IndexTests ==
  ASSUME QueueInv
  PROVE  /\ Waiting \in Nat
         /\ ~IsFull(write_q_head) => Waiting < WRITE_Q_SIZE - 1
         /\ IsFull(write_q_head) => Waiting = WRITE_Q_SIZE - 1
         /\ write_q_head # write_q_tail => Waiting > 0
         /\ Waiting > 0 => write_q[write_q_tail] = accepted[taken + 1]
<1> USE DEF QueueInv, TypeOK
<1>1. Waiting \in Nat /\ Waiting < WRITE_Q_SIZE
  BY DEF IndicesInv, Waiting
<1>2. Waiting + 1 = WRITE_Q_SIZE => NextSlot(write_q_head) = write_q_tail
  BY <1>1, SlotAfterIsSlot DEF IndicesInv
<1>3. SlotAfter(write_q_tail, 0) = write_q_tail
  BY SizeAssumption DEF SlotAfter, Slot
<1>4. Waiting > 0 => write_q[SlotAfter(write_q_tail, 0)] = accepted[taken + 0 + 1]
  BY SizeAssumption DEF ContentsInv, Slot
<1>5. ~IsFull(write_q_head) => Waiting < WRITE_Q_SIZE - 1
  BY <1>1, <1>2, SizeAssumption DEF IsFull
<1>6. write_q_head # write_q_tail => Waiting > 0
  BY <1>1, <1>3 DEF IndicesInv
<1>7. Waiting > 0 => write_q[write_q_tail] = accepted[taken + 1]
  BY <1>3, <1>4
<1>8. IsFull(write_q_head) => Waiting = WRITE_Q_SIZE - 1
  <2> SUFFICES ASSUME Waiting + 1 < WRITE_Q_SIZE PROVE ~IsFull(write_q_head)
    BY <1>1, SizeAssumption
  <2>1. NextSlot(write_q_head) = SlotAfter(write_q_tail, Waiting + 1)
    BY <1>1, SlotAfterIsSlot DEF IndicesInv
  <2>2. Waiting + 1 # 0 /\ Waiting + 1 \in Nat
    BY <1>1
  <2>3. SlotAfter(write_q_tail, Waiting + 1) # SlotAfter(write_q_tail, 0)
    BY <2>2, SlotAfterIsSlot, SizeAssumption
  <2> QED BY <1>3, <2>1, <2>3 DEF IsFull
<1> QED BY <1>1, <1>5, <1>6, <1>7, <1>8

LEMMA QueueNext == OneProducer /\ QueueInv /\ [Next]_vars => QueueInv'
<1> SUFFICES ASSUME OneProducer, QueueInv, [Next]_vars PROVE QueueInv'
  OBVIOUS
<1> USE DEF QueueInv, TypeOK, Waiting, SlotAfter, IndicesInv, ContentsInv,
            queueVars, producerVars, masterVars
<1>1. TypeOK'
  BY TypeNext
<1>2. ASSUME NEW p \in Producers, NEW c \in Cmd, Call(p, c) PROVE QueueInv'
  BY <1>1, <1>2 DEF Call, Goto, ProducerInv, MasterInv
<1>3. ASSUME NEW p \in Producers, DropFull(p) PROVE QueueInv'
  BY <1>1, <1>3 DEF DropFull, Goto, ProducerInv, MasterInv
<1>4. ASSUME NEW p \in Producers, FindRoom(p) PROVE QueueInv'
  <2>1. Waiting < WRITE_Q_SIZE - 1
    BY <1>4, IndexTests DEF FindRoom, IsFull, ProducerInv
  <2> QED BY <1>1, <1>4, <2>1 DEF FindRoom, Goto, ProducerInv, MasterInv
<1>5. ASSUME NEW p \in Producers, StoreAddr(p) \/ StoreValue(p) PROVE QueueInv'
  BY <1>5, StoreKeeps
<1>6. ASSUME NEW p \in Producers, Publish(p) PROVE QueueInv'
  BY <1>6, PublishKeeps
<1>7. CASE FindCommand
  <2>1. Waiting > 0
    BY <1>7, IndexTests DEF FindCommand
  <2> QED BY <1>1, <1>7, <2>1 DEF FindCommand, ProducerInv, MasterInv
<1>8. CASE CopyAddr
  <2>1. write_q[write_q_tail] = accepted[taken + 1]
    BY <1>8, IndexTests DEF CopyAddr, MasterInv
  <2> QED BY <1>1, <1>8, <2>1 DEF CopyAddr, ProducerInv, MasterInv, Cmd
<1>9. CASE CopyValue
  <2>1. write_q[write_q_tail] = accepted[taken + 1]
    BY <1>9, IndexTests DEF CopyValue, MasterInv
  <2> QED BY <1>1, <1>9, <2>1 DEF CopyValue, ProducerInv, MasterInv, Cmd
<1>10. CASE Advance
  BY <1>10, AdvanceKeeps
<1>11. CASE UNCHANGED vars
  BY <1>1, <1>11 DEF vars, ProducerInv, MasterInv
<1> QED
  BY <1>2, <1>3, <1>4, <1>5, <1>6, <1>7, <1>8, <1>9, <1>10, <1>11
     DEF Next, Enqueue, Dequeue

(* One task calls mn_write_register: between any two accesses to the ring, *)
(* each slot from the tail to the head holds its command whole, and what   *)
(* either side has read is still true when it acts on it.                  *)
THEOREM RingIsExact == ASSUME OneProducer PROVE Spec => []QueueInv
<1>1. QueueInv /\ [Next]_vars => QueueInv'
  BY QueueNext
<1> QED BY <1>1, QueueInit, PTL DEF Spec

(* One task calls mn_write_register: every command it queued reaches the   *)
(* bus once, whole, and in the order of the calls, whatever the size of    *)
(* the ring and however the calls interleave with the master's dequeues.   *)
THEOREM FifoOrder == ASSUME OneProducer PROVE Spec => []SentInOrder
<1>1. QueueInv => SentInOrder
  <2> SUFFICES ASSUME QueueInv, mpc = "advance"
               PROVE  taken < Len(accepted) /\ out = accepted[taken + 1]
    BY DEF SentInOrder
  <2>1. taken + 1 \in 1 .. Len(accepted)
    BY DEF QueueInv, MasterInv, Waiting, TypeOK
  <2>2. accepted[taken + 1] \in Cmd /\ out \in Cmd
    BY <2>1 DEF QueueInv, TypeOK
  <2>3. out.addr = accepted[taken + 1].addr /\ out.value = accepted[taken + 1].value
    BY DEF QueueInv, MasterInv
  <2> QED BY <2>1, <2>2, <2>3 DEF Cmd, QueueInv, TypeOK
<1> QED BY <1>1, RingIsExact, PTL

(* One task calls mn_write_register: the indices always tell how many      *)
(* commands wait, and a full ring is never taken for an empty one.         *)
THEOREM IndicesCorrect == ASSUME OneProducer PROVE Spec => []IndicesCount
<1>1. QueueInv => IndicesCount
  BY SizeAssumption DEF QueueInv, TypeOK, IndicesInv, IndicesCount, InUse, Waiting, SlotAfter, Slot
<1> QED BY <1>1, RingIsExact, PTL

(* One task calls mn_write_register: the ring, its unlocked indices and    *)
(* its field-by-field stores implement the bounded first-in first-out      *)
(* buffer of WriteFifo, so a command is refused only when the ring holds   *)
(* all it can.                                                             *)
THEOREM RingIsFifo == ASSUME OneProducer PROVE Spec => FifoSpec
<1>1. Init => Fifo!FifoInit
  BY DEF Init, Fifo!FifoInit
<1>2. QueueInv /\ [Next]_vars => [Fifo!FifoNext]_(Fifo!fifoVars)
  <2> SUFFICES ASSUME QueueInv, [Next]_vars PROVE [Fifo!FifoNext]_(Fifo!fifoVars)
    OBVIOUS
  <2> USE DEF QueueInv, TypeOK, queueVars, producerVars, masterVars, Goto
  <2> DEFINE inside == {q \in Producers : pc[q] # "idle"}
             asking == [q \in inside |-> cmd[q]]
  <2>1. ASSUME NEW p \in Producers, NEW c \in Cmd, Call(p, c) PROVE Fifo!Ask(p, c)
    <3>1. p \notin inside /\ inside' = inside \cup {p}
      BY <2>1 DEF Call
    <3>2. asking' = [q \in inside \cup {p} |-> IF q = p THEN c ELSE asking[q]]
      BY <2>1, <3>1 DEF Call
    <3> QED BY <2>1, <3>1, <3>2 DEF Call, Fifo!Ask
  <2>2. ASSUME NEW p \in Producers, pc[p] # "idle", pc' = [pc EXCEPT ![p] = "idle"], cmd' = cmd
        PROVE  Fifo!Leave(p)
    <3>1. p \in inside /\ inside' = inside \ {p}
      BY <2>2
    <3>2. asking' = [q \in inside \ {p} |-> asking[q]]
      BY <2>2, <3>1
    <3> QED BY <3>1, <3>2 DEF Fifo!Leave
  <2>3. ASSUME NEW p \in Producers, DropFull(p) PROVE Fifo!Refuse(p)
    <3>1. Waiting = WRITE_Q_SIZE - 1
      BY <2>3, IndexTests DEF DropFull, ProducerInv
    <3> QED BY <2>2, <2>3, <3>1 DEF DropFull, Fifo!Refuse, Fifo!Waiting, Waiting
  <2>4. ASSUME NEW p \in Producers, Publish(p) PROVE Fifo!Accept(p)
    <3>1. Waiting < WRITE_Q_SIZE - 1 /\ asking[p] = cmd[p]
      BY <2>4 DEF Publish, ProducerInv
    <3> QED BY <2>2, <2>4, <3>1 DEF Publish, Fifo!Accept, Fifo!Waiting, Waiting
  <2>5. ASSUME Advance PROVE Fifo!Take
    <3>1. asking' = asking
      BY <2>5 DEF Advance
    <3>2. Len(accepted) - taken > 0 /\ taken' = taken + 1 /\ accepted' = accepted
      BY <2>5 DEF Advance, MasterInv, Waiting
    <3>3. Fifo!Waiting > 0
      BY <3>2 DEF Fifo!Waiting
    <3> QED BY <3>1, <3>2, <3>3 DEF Fifo!Take
  <2>6. ASSUME NEW p \in Producers, FindRoom(p) \/ StoreAddr(p) \/ StoreValue(p)
        PROVE  UNCHANGED Fifo!fifoVars
    <3>1. inside' = inside /\ cmd' = cmd
      BY <2>6 DEF FindRoom, StoreAddr, StoreValue
    <3>2. asking' = asking
      BY <3>1
    <3> QED BY <2>6, <3>2 DEF FindRoom, StoreAddr, StoreValue, Fifo!fifoVars
  <2>7. ASSUME FindCommand \/ CopyAddr \/ CopyValue \/ UNCHANGED vars
        PROVE  UNCHANGED Fifo!fifoVars
    <3>1. asking' = asking
      BY <2>7 DEF FindCommand, CopyAddr, CopyValue, vars
    <3> QED BY <2>7, <3>1 DEF FindCommand, CopyAddr, CopyValue, vars, Fifo!fifoVars
  <2> HIDE DEF inside, asking
  <2> QED
    BY <2>1, <2>3, <2>4, <2>5, <2>6, <2>7
       DEF Next, Enqueue, Dequeue, Fifo!FifoNext, Cmd, Fifo!Cmd
<1>3. QueueInv /\ [Next]_vars => QueueInv'
  BY QueueNext
<1> QED BY <1>1, <1>2, <1>3, QueueInit, PTL DEF Spec, FifoSpec, Fifo!FifoSpec
=============================================================================
