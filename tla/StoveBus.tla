------------------------------ MODULE StoveBus -------------------------------
(***************************************************************************)
(* The bus master of micronova.c: mn_slave_task drains the queued writes,  *)
(* then reads one register, alternately from the short list of hot         *)
(* registers and from poll_list; mn_do_transaction sends a frame, waits    *)
(* for the answer and keeps it in mn_ram_shadow, the mirror of the stove   *)
(* that the rest of the firmware reads.                                    *)
(*                                                                         *)
(* The line is half-duplex: it can echo a frame back to the module.        *)
(* Frames and answers can be lost, and answers can come late.  The bytes   *)
(* are taken in pairs, as the code reads them: the echo [loc addr] of a    *)
(* frame, the tail [value checksum] of the echo of a write, and the answer *)
(* [checksum value].  The pending writes are the bounded FIFO of module    *)
(* WriteFifo.                                                              *)
(***************************************************************************)
EXTENDS Naturals, Sequences

CONSTANTS
  Regs,         \* registers of the stove
  Values,       \* what a register can hold
  Zero,         \* the value the shadow starts with
  InitialValue, \* what each register holds at first
  HotList,      \* HOT_ADDRS
  PollList,     \* poll_list as init_poll_list leaves it
  PollLists,    \* the lists a user may set in its place
  Settings,     \* the commands of the users
  Readings,     \* the values the stove gives its registers by itself
  Capacity,     \* commands the pending-write queue can hold
  Late,         \* the stove may answer after MN_TIMEOUT_MS, or after the pause that follows a poll
  MaxWrites, MaxChanges, MaxLosses, MaxLists   \* bounds on what the world does

Cmd == [reg : Regs, value : Values]

ASSUME RegsAssumption ==
  /\ Zero \in Values
  /\ InitialValue \in [Regs -> Values]
  /\ HotList \in Seq(Regs) /\ HotList # <<>>
  /\ PollList \in Seq(Regs)
  /\ PollLists \subseteq Seq(Regs)
  /\ Settings \subseteq Cmd
  /\ Readings \subseteq Cmd
ASSUME LineAssumption == Late \in BOOLEAN
ASSUME BoundAssumption ==
  {Capacity, MaxWrites, MaxChanges, MaxLosses, MaxLists} \subseteq Nat

VARIABLES
  stove,      \* the registers
  requests,   \* frames the stove has not dealt with
  rx,         \* the pairs in the UART receive buffer
  shadow,     \* mn_ram_shadow
  inside,     \* commands in mn_write_register: in the shadow, not yet queued
  queue,      \* the pending writes
  pc,         \* where the master is: "top", "reply" and "real" wait for a pair
  txn,        \* the frame of the current transaction
  hot_turn, hot_idx, poll_idx, poll_list,
  writes, changes, losses, lists,   \* how much of each bound is used up
  had,        \* history: what each register held or was asked to hold
  behind,     \* history: the stove owed an answer when the current frame was sent
  stale       \* history: the registers whose value comes from such a transaction

masterVars == <<pc, txn, hot_turn, hot_idx, poll_idx>>
bounds == <<writes, changes, losses, lists>>
vars == <<stove, requests, rx, shadow, inside, queue, masterVars, poll_list, bounds, had,
          behind, stale>>

Frame == [kind : {"write", "hot", "cold"}, reg : Regs, value : Values]
Pair == [kind : {"echo", "tail", "answer"}, reg : Regs, value : Values]

Waiting == pc \in {"reply", "real"}

Init ==
  /\ stove = InitialValue
  /\ requests = <<>>
  /\ rx = <<>>
  /\ shadow = [r \in Regs |-> Zero]
  /\ inside = {}
  /\ queue = <<>>
  /\ pc = "top"
  /\ txn = [kind |-> "hot", reg |-> HotList[1], value |-> Zero]
  /\ hot_turn = TRUE
  /\ hot_idx = 0
  /\ poll_idx = 0
  /\ poll_list = PollList
  /\ writes = 0 /\ changes = 0 /\ losses = 0 /\ lists = 0
  /\ had = [r \in Regs |-> {Zero, InitialValue[r]}]
  /\ behind = FALSE
  /\ stale = {}

Note(c) == had' = [had EXCEPT ![c.reg] = @ \cup {c.value}]

------------------------------------------------------------------------------
(* The users: mn_write_register on other tasks. *)

(* mn_set_ram: the shadow holds the value before the stove was asked. *)
SetShadow(c) ==
  /\ writes < MaxWrites
  /\ c \notin inside
  /\ writes' = writes + 1
  /\ shadow' = [shadow EXCEPT ![c.reg] = c.value]
  /\ inside' = inside \cup {c}
  /\ Note(c)
  /\ stale' = stale \ {c.reg}
  /\ UNCHANGED <<stove, requests, rx, queue, masterVars, poll_list, changes, losses, lists, behind>>

(* mn_enqueue_write: a full queue drops the command. *)
Enqueue(c) ==
  /\ c \in inside
  /\ inside' = inside \ {c}
  /\ queue' = IF Len(queue) < Capacity THEN Append(queue, c) ELSE queue
  /\ UNCHANGED <<stove, requests, rx, shadow, masterVars, poll_list, bounds, had, behind, stale>>

(* mn_poll_list_set, from POST /debug/poll-list. *)
SetPollList(l) ==
  /\ lists < MaxLists
  /\ lists' = lists + 1
  /\ poll_list' = l
  /\ UNCHANGED <<stove, requests, rx, shadow, inside, queue, masterVars, writes, changes,
                 losses, had, behind, stale>>

------------------------------------------------------------------------------
(* The master. *)

(* What the line may echo of a frame: nothing, or all of it. *)
EchoesOf(f) ==
  LET pair(k) == [kind |-> k, reg |-> f.reg, value |-> f.value]
  IN {<<>>, IF f.kind = "write" THEN <<pair("echo"), pair("tail")>> ELSE <<pair("echo")>>}

(* A stove that is not late has dealt with all it received when the master *)
(* has waited for MN_TIMEOUT_MS, or for poll_interval_ms after a poll.     *)
CaughtUp == Late \/ requests = <<>>

(* Mutant: what was received before the frame is kept. *)
ReceivedKept(f) == {rx \o e : e \in EchoesOf(f)}

(* uart_flush, then the frame: at most its echo is in the buffer. *)
Received(f) == EchoesOf(f)

(* uart_flush and uart_write_bytes, whatever the stove still owes.  The    *)
(* transaction of a write ends with the tail of its echo, and the next     *)
(* frame follows 50 ms later: the stove may not have answered yet.         *)
Send(f) ==
  /\ pc = "top"
  /\ txn.kind # "write" => CaughtUp
  /\ pc' = "reply"
  /\ txn' = f
  /\ rx' \in Received(f)
  /\ requests' = Append(requests, f)
  /\ behind' = (requests # <<>>)
  /\ UNCHANGED <<stove, shadow, inside, hot_turn, hot_idx, poll_idx, poll_list, bounds, had, stale>>

(* Mutant: the opcode loses the bit that makes it a write. *)
ReadFrame(c) == [kind |-> "hot", reg |-> c.reg, value |-> c.value]

WriteFrame(c) == [kind |-> "write", reg |-> c.reg, value |-> c.value]

SendWrite ==
  /\ queue # <<>>
  /\ Send(WriteFrame(Head(queue)))
  /\ queue' = Tail(queue)

PollHot ==
  /\ queue = <<>>
  /\ hot_turn
  /\ Send([kind |-> "hot", reg |-> HotList[hot_idx + 1], value |-> Zero])
  /\ UNCHANGED queue

PollCold ==
  /\ queue = <<>>
  /\ ~hot_turn
  /\ poll_list # <<>>
  /\ Send([kind |-> "cold", reg |-> poll_list[(poll_idx % Len(poll_list)) + 1], value |-> Zero])
  /\ UNCHANGED queue

SkipCold ==
  /\ pc = "top"
  /\ queue = <<>>
  /\ ~hot_turn
  /\ poll_list = <<>>
  /\ hot_turn' = TRUE
  /\ UNCHANGED <<stove, requests, rx, shadow, inside, queue, pc, txn, hot_idx, poll_idx,
                 poll_list, bounds, had, behind, stale>>

(* Mutant: the turn stays with the hot registers. *)
NextTurnHot == TRUE

(* The other list has the next turn. *)
NextTurn == ~hot_turn

(* Mutant: the hot list has no end. *)
NextHotUnbounded == hot_idx + 1

NextHot == (hot_idx + 1) % Len(HotList)

(* Back to the loop.  The length of poll_list is read again: it may have   *)
(* changed, and the remainder by 0 is a panic.                             *)
Return ==
  CASE txn.kind = "write" ->
         pc' = "top" /\ UNCHANGED <<hot_turn, hot_idx, poll_idx>>
    [] txn.kind = "hot" ->
         /\ pc' = "top"
         /\ hot_idx' = NextHot
         /\ hot_turn' = NextTurn
         /\ UNCHANGED poll_idx
    [] txn.kind = "cold" /\ poll_list # <<>> ->
         /\ pc' = "top"
         /\ poll_idx' = (poll_idx + 1) % Len(poll_list)
         /\ hot_turn' = NextTurn
         /\ UNCHANGED hot_idx
    [] OTHER ->
         pc' = "panic" /\ UNCHANGED <<hot_turn, hot_idx, poll_idx>>

IsEcho(p) == p.kind = "echo" /\ p.reg = txn.reg

(* The first pair repeats the frame: the answer is still to come. *)
SkipEcho ==
  /\ pc = "reply"
  /\ rx # <<>>
  /\ IsEcho(Head(rx))
  /\ rx' = Tail(rx)
  /\ pc' = "real"
  /\ UNCHANGED <<stove, requests, shadow, inside, queue, txn, hot_turn, hot_idx, poll_idx,
                 poll_list, bounds, had, behind, stale>>

(* What a transaction leaves in the shadow.  A wrong checksum is logged    *)
(* and the value kept; of a write, the pair read is the tail of its echo   *)
(* or the answer, and the value is the one that was sent.                  *)
Result(p) == IF txn.kind = "write" THEN txn.value ELSE p.value

Record ==
  /\ Waiting
  /\ rx # <<>>
  /\ pc = "reply" => ~IsEcho(Head(rx))
  /\ rx' = Tail(rx)
  /\ shadow' = [shadow EXCEPT ![txn.reg] = Result(Head(rx))]
  /\ stale' = IF behind /\ txn.kind # "write" THEN stale \cup {txn.reg} ELSE stale \ {txn.reg}
  /\ Return
  /\ UNCHANGED <<stove, requests, inside, queue, txn, poll_list, bounds, had, behind>>

(* MN_TIMEOUT_MS without a pair: the transaction failed, nobody retries.   *)
GiveUp ==
  /\ Waiting
  /\ rx = <<>>
  /\ CaughtUp
  /\ Return
  /\ UNCHANGED <<stove, requests, rx, shadow, inside, queue, txn, poll_list, bounds, had,
                 behind, stale>>

(* The panic handler resets the module: micronova_start again, with every  *)
(* call and queue gone and poll_list as it was; booting takes longer than  *)
(* MN_TIMEOUT_MS.  The stove does not notice.                              *)
Restart ==
  /\ pc = "panic"
  /\ CaughtUp
  /\ rx' = <<>>
  /\ shadow' = [r \in Regs |-> Zero]
  /\ inside' = {}
  /\ queue' = <<>>
  /\ pc' = "top"
  /\ txn' = [kind |-> "hot", reg |-> HotList[1], value |-> Zero]
  /\ hot_turn' = TRUE
  /\ hot_idx' = 0
  /\ poll_idx' = 0
  /\ poll_list' = PollList
  /\ stale' = {}
  /\ UNCHANGED <<stove, requests, bounds, had, behind>>

Master == SendWrite \/ PollHot \/ PollCold \/ SkipCold \/ SkipEcho \/ Record \/ GiveUp

------------------------------------------------------------------------------
(* The stove and the line. *)

(* A frame takes effect. *)
Apply(f) ==
  stove' = IF f.kind = "write" THEN [stove EXCEPT ![f.reg] = f.value] ELSE stove

Answer ==
  /\ requests # <<>>
  /\ requests' = Tail(requests)
  /\ LET f == Head(requests)
     IN /\ Apply(f)
        /\ rx' = Append(rx, [kind |-> "answer", reg |-> f.reg,
                             value |-> IF f.kind = "write" THEN f.value ELSE stove[f.reg]])
  /\ UNCHANGED <<shadow, inside, queue, masterVars, poll_list, bounds, had, behind, stale>>

(* The frame is lost on its way, or the answer to it. *)
Lose ==
  /\ requests # <<>>
  /\ losses < MaxLosses
  /\ losses' = losses + 1
  /\ requests' = Tail(requests)
  /\ Apply(Head(requests)) \/ UNCHANGED stove
  /\ UNCHANGED <<rx, shadow, inside, queue, masterVars, poll_list, writes, changes, lists, had,
                 behind, stale>>

(* The fire, the room, the buttons of the stove. *)
Change(c) ==
  /\ changes < MaxChanges
  /\ changes' = changes + 1
  /\ stove' = [stove EXCEPT ![c.reg] = c.value]
  /\ Note(c)
  /\ UNCHANGED <<requests, rx, shadow, inside, queue, masterVars, poll_list, writes, losses, lists,
                 behind, stale>>

Stove == Answer \/ Lose

Next ==
  \/ \E c \in Settings : SetShadow(c)
  \/ \E c \in inside : Enqueue(c)
  \/ \E l \in PollLists : SetPollList(l)
  \/ Master
  \/ Restart
  \/ Stove
  \/ \E c \in Readings : Change(c)

Spec == Init /\ [][Next]_vars

(* The master's loop never blocks for good, a panic is followed by a boot, *)
(* a call of mn_write_register goes on, and the stove deals with what it   *)
(* receives; nobody else has to.                                           *)
Fairness ==
  /\ WF_vars(Master)
  /\ WF_vars(Restart)
  /\ WF_vars(\E c \in inside : Enqueue(c))
  /\ WF_vars(Stove)

FairSpec == Spec /\ Fairness

------------------------------------------------------------------------------
TypeOK ==
  /\ stove \in [Regs -> Values]
  /\ requests \in Seq(Frame)
  /\ rx \in Seq(Pair)
  /\ shadow \in [Regs -> Values]
  /\ inside \subseteq Cmd
  /\ queue \in Seq(Cmd)
  /\ pc \in {"top", "reply", "real", "panic"}
  /\ txn \in Frame
  /\ hot_turn \in BOOLEAN
  /\ hot_idx \in 0 .. Len(HotList) - 1
  /\ poll_idx \in Nat
  /\ poll_list \in Seq(Regs)
  /\ writes \in Nat /\ changes \in Nat /\ losses \in Nat /\ lists \in Nat
  /\ had \in [Regs -> SUBSET Values]
  /\ behind \in BOOLEAN
  /\ stale \subseteq Regs

(* docs/PROTOCOLE-MICRONOVA.md, 3.2: "if the checksum is right the value   *)
(* is the second byte, otherwise failure": the shadow holds for each       *)
(* register a value that register had, or was asked to take.               *)
ShadowExact == \A r \in Regs : shadow[r] \in had[r]

(* What the code keeps of it.  No register of the shadow holds an echo, a  *)
(* checksum or the answer meant for another one, unless its last value was *)
(* read by a transaction that began while the stove owed the answer to an  *)
(* earlier frame: one the master gave up on, or a write it took for over   *)
(* at the tail of the echo (micronova.c:480-486 and 513).                  *)
ShadowGenuine == \A r \in Regs : shadow[r] \in had[r] \/ r \in stale

(* The registers the master goes on reading. *)
Polled ==
  {HotList[i] : i \in 1 .. Len(HotList)} \cup {poll_list[i] : i \in 1 .. Len(poll_list)}

(* Once users, stove and line are quiet the shadow agrees with the stove   *)
(* again on every polled register, whatever was lost before.               *)
ShadowConverges == <>[](\A r \in Polled : shadow[r] = stove[r])

(* The master reads every polled register again and again, whatever the    *)
(* users write and however poll_list changes.                              *)
PollsForever ==
  \A r \in Regs :
    <>[](r \in Polled) => []<>(Waiting /\ txn.kind # "write" /\ txn.reg = r)

(* A command at the head of the queue reaches the stove, unless the line   *)
(* loses a frame.                                                          *)
HeadReachesStove ==
  \A c \in Settings :
    (queue # <<>> /\ Head(queue) = c /\ pc = "top") ~> (stove[c.reg] = c.value \/ losses > 0)
==============================================================================
