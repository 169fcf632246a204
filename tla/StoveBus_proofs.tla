--------------------------- MODULE StoveBus_proofs ---------------------------
(***************************************************************************)
(* The shadow of the registers, for every set of registers and values,     *)
(* every poll list and queue, on a line that may echo, across panics and   *)
(* boots: first the types, then how far the shadow is genuine, then what   *)
(* reaches the stove.                                                      *)
(***************************************************************************)
EXTENDS StoveBus, TLAPS

(* The types, late answers included. *)

(* The indices of the two lists of registers. *)
ListsInv ==
  /\ hot_idx \in 0 .. Len(HotList) - 1
  /\ poll_idx \in Nat
  /\ poll_list \in Seq(Regs)

(* What a register held or was asked to take is not forgotten. *)
LEMMA NoteKeeps ==
  ASSUME had \in [Regs -> SUBSET Values], NEW c \in Cmd, Note(c)
  PROVE  /\ had' \in [Regs -> SUBSET Values]
         /\ \A r \in Regs : had[r] \subseteq had'[r]
         /\ c.value \in had'[c.reg]
  BY DEF Note, Cmd

(* The transaction is over, with an answer in the shadow or without. *)
LEMMA ReturnKeeps ==
  ASSUME ListsInv, poll_list' = poll_list, txn \in Frame, Return
  PROVE  ListsInv' /\ pc' \in {"top", "panic"}
<1>1. CASE txn.kind = "write"
  BY <1>1 DEF Return, ListsInv
<1>2. CASE txn.kind = "hot"
  BY <1>2, RegsAssumption DEF Return, ListsInv, NextHot
<1>3. CASE txn.kind = "cold" /\ poll_list # <<>>
  BY <1>3 DEF Return, ListsInv
<1>4. CASE txn.kind = "cold" /\ poll_list = <<>>
  BY <1>4 DEF Return, ListsInv
<1> QED BY <1>1, <1>2, <1>3, <1>4 DEF Frame

LEMMA TypesSend ==
  ASSUME TypeOK, NEW f \in Frame, Send(f)
  PROVE  /\ requests' \in Seq(Frame) /\ rx' \in Seq(Pair)
         /\ pc' = "reply" /\ txn' \in Frame /\ behind' \in BOOLEAN
<1> DEFINE pair(k) == [kind |-> k, reg |-> f.reg, value |-> f.value]
<1>1. pair("echo") \in Pair /\ pair("tail") \in Pair
  BY DEF Frame, Pair
<1>2. rx' \in {<<>>, <<pair("echo")>>, <<pair("echo"), pair("tail")>>}
  BY DEF Send, Received, EchoesOf
<1>3. <<>> \in Seq(Pair) /\ <<pair("echo")>> \in Seq(Pair)
  BY <1>1
<1>4. <<pair("echo"), pair("tail")>> \in Seq(Pair)
  BY <1>1
<1> HIDE DEF pair
<1>5. rx' \in Seq(Pair)
  BY <1>2, <1>3, <1>4
<1>6. requests' \in Seq(Frame)
  BY DEF Send, TypeOK
<1>7. behind' \in BOOLEAN
  BY DEF Send
<1> QED BY <1>5, <1>6, <1>7 DEF Send

LEMMA TypesInit == Init => TypeOK
<1> SUFFICES ASSUME Init PROVE TypeOK
  OBVIOUS
<1>1. HotList[1] \in Regs /\ 0 \in 0 .. Len(HotList) - 1
  BY RegsAssumption
<1>2. behind \in BOOLEAN /\ hot_turn \in BOOLEAN /\ stale \subseteq Regs
  BY DEF Init
<1>3. /\ stove \in [Regs -> Values] /\ shadow \in [Regs -> Values]
      /\ had \in [Regs -> SUBSET Values]
  BY RegsAssumption DEF Init
<1>4. txn \in Frame /\ inside \subseteq Cmd /\ queue \in Seq(Cmd)
  BY <1>1, RegsAssumption DEF Init, Frame
<1> QED BY <1>1, <1>2, <1>3, <1>4, RegsAssumption DEF Init, TypeOK

LEMMA TypesNext == TypeOK /\ [Next]_vars => TypeOK'
<1> SUFFICES ASSUME TypeOK, [Next]_vars PROVE TypeOK'
  OBVIOUS
<1>1. ASSUME NEW c \in Settings, SetShadow(c) PROVE TypeOK'
  <2>1. c \in Cmd /\ c.reg \in Regs /\ c.value \in Values
    BY RegsAssumption DEF Cmd
  <2>2. had' \in [Regs -> SUBSET Values]
    BY <1>1, <2>1, NoteKeeps DEF SetShadow, TypeOK
  <2>3. shadow' \in [Regs -> Values] /\ inside' \subseteq Cmd /\ writes' \in Nat
    BY <1>1, <2>1 DEF SetShadow, TypeOK
  <2> QED BY <1>1, <2>2, <2>3 DEF SetShadow, TypeOK, masterVars
<1>2. ASSUME NEW c \in inside, Enqueue(c) PROVE TypeOK'
  <2>1. queue' \in Seq(Cmd) /\ inside' \subseteq Cmd
    BY <1>2 DEF Enqueue, TypeOK
  <2> QED BY <1>2, <2>1 DEF Enqueue, TypeOK, masterVars, bounds
<1>3. ASSUME NEW l \in PollLists, SetPollList(l) PROVE TypeOK'
  <2>1. l \in Seq(Regs)
    BY RegsAssumption
  <2> QED BY <1>3, <2>1 DEF SetPollList, TypeOK, masterVars
<1>4. CASE SendWrite
  <2>1. Head(queue) \in Cmd /\ queue' \in Seq(Cmd)
    BY <1>4 DEF SendWrite, TypeOK
  <2>2. WriteFrame(Head(queue)) \in Frame
    BY <2>1 DEF WriteFrame, Cmd, Frame
  <2> QED BY <1>4, <2>1, <2>2, TypesSend DEF SendWrite, Send, TypeOK, bounds
<1>5. CASE PollHot
  <2> DEFINE f == [kind |-> "hot", reg |-> HotList[hot_idx + 1], value |-> Zero]
  <2>1. hot_idx + 1 \in 1 .. Len(HotList)
    BY RegsAssumption DEF TypeOK
  <2>2. f \in Frame
    BY <2>1, RegsAssumption DEF Frame
  <2>3. Send(f) /\ queue' = queue
    BY <1>5 DEF PollHot
  <2> HIDE DEF f
  <2> QED BY <2>2, <2>3, TypesSend DEF Send, TypeOK, bounds
<1>6. CASE PollCold
  <2> DEFINE f == [kind |-> "cold", reg |-> poll_list[(poll_idx % Len(poll_list)) + 1], value |-> Zero]
  <2>1. (poll_idx % Len(poll_list)) + 1 \in 1 .. Len(poll_list)
    <3>1. Len(poll_list) \in Nat \ {0} /\ poll_idx \in Nat
      BY <1>6 DEF PollCold, TypeOK
    <3> QED BY <3>1
  <2>2. f \in Frame
    BY <2>1, RegsAssumption DEF Frame, TypeOK
  <2>3. Send(f) /\ queue' = queue
    BY <1>6 DEF PollCold
  <2> HIDE DEF f
  <2> QED BY <2>2, <2>3, TypesSend DEF Send, TypeOK, bounds
<1>7. CASE SkipCold
  BY <1>7 DEF SkipCold, TypeOK, bounds
<1>8. CASE SkipEcho
  <2>1. rx' \in Seq(Pair)
    BY <1>8 DEF SkipEcho, TypeOK
  <2> QED BY <1>8, <2>1 DEF SkipEcho, TypeOK, bounds
<1>9. ASSUME Return, poll_list' = poll_list, hot_turn \in BOOLEAN
      PROVE  ListsInv' /\ pc' \in {"top", "panic"} /\ hot_turn' \in BOOLEAN
  <2>1. ListsInv /\ txn \in Frame
    BY DEF TypeOK, ListsInv
  <2>2. ListsInv' /\ pc' \in {"top", "panic"}
    BY <1>9, <2>1, ReturnKeeps
  <2>3. hot_turn' \in {hot_turn, ~hot_turn}
    BY <1>9, <2>1 DEF Return, NextTurn, Frame
  <2> QED BY <2>2, <2>3, <1>9
<1>10. CASE Record
  <2>1. Head(rx) \in Pair /\ rx' \in Seq(Pair)
    BY <1>10 DEF Record, TypeOK
  <2>2. Result(Head(rx)) \in Values /\ txn.reg \in Regs
    BY <2>1 DEF Result, Pair, Frame, TypeOK
  <2>3. shadow' \in [Regs -> Values]
    BY <1>10, <2>2 DEF Record, TypeOK
  <2>4. ListsInv' /\ pc' \in {"top", "panic"} /\ hot_turn' \in BOOLEAN
    BY <1>9, <1>10 DEF Record, TypeOK
  <2> QED BY <1>10, <2>1, <2>3, <2>4 DEF Record, TypeOK, ListsInv, bounds
<1>11. CASE GiveUp
  <2>1. ListsInv' /\ pc' \in {"top", "panic"} /\ hot_turn' \in BOOLEAN
    BY <1>9, <1>11 DEF GiveUp, TypeOK
  <2> QED BY <1>11, <2>1 DEF GiveUp, TypeOK, ListsInv, bounds
<1>12. CASE Restart
  <2>1. HotList[1] \in Regs /\ 0 \in 0 .. Len(HotList) - 1
    BY RegsAssumption
  <2>2. txn' \in Frame /\ shadow' \in [Regs -> Values]
    BY <1>12, <2>1, RegsAssumption DEF Restart, Frame
  <2> QED BY <1>12, <2>1, <2>2, RegsAssumption DEF Restart, TypeOK, bounds
<1>13. ASSUME requests # <<>> PROVE Head(requests) \in Frame /\ Tail(requests) \in Seq(Frame)
  BY <1>13 DEF TypeOK
<1>14. ASSUME NEW f \in Frame, Apply(f) PROVE stove' \in [Regs -> Values]
  BY <1>14 DEF Apply, TypeOK, Frame
<1>15. CASE Answer
  <2> DEFINE f == Head(requests)
             p == [kind |-> "answer", reg |-> f.reg,
                   value |-> IF f.kind = "write" THEN f.value ELSE stove[f.reg]]
  <2>1. f \in Frame /\ requests' \in Seq(Frame) /\ Apply(f) /\ rx' = Append(rx, p)
    BY <1>13, <1>15 DEF Answer
  <2>2. p \in Pair
    BY <2>1 DEF Frame, Pair, TypeOK
  <2> HIDE DEF f, p
  <2>3. rx' \in Seq(Pair) /\ stove' \in [Regs -> Values]
    BY <1>14, <2>1, <2>2 DEF TypeOK
  <2> QED BY <1>15, <2>1, <2>3 DEF Answer, TypeOK, masterVars, bounds
<1>16. CASE Lose
  <2>1. requests' \in Seq(Frame) /\ losses' \in Nat
    BY <1>13, <1>16 DEF Lose, TypeOK
  <2>2. stove' \in [Regs -> Values]
    BY <1>13, <1>14, <1>16 DEF Lose, TypeOK
  <2> QED BY <1>16, <2>1, <2>2 DEF Lose, TypeOK, masterVars
<1>17. ASSUME NEW c \in Readings, Change(c) PROVE TypeOK'
  <2>1. c \in Cmd /\ c.reg \in Regs /\ c.value \in Values
    BY RegsAssumption DEF Cmd
  <2>2. had' \in [Regs -> SUBSET Values]
    BY <1>17, <2>1, NoteKeeps DEF Change, TypeOK
  <2>3. stove' \in [Regs -> Values] /\ changes' \in Nat
    BY <1>17, <2>1 DEF Change, TypeOK
  <2> QED BY <1>17, <2>2, <2>3 DEF Change, TypeOK, masterVars
<1>18. CASE UNCHANGED vars
  BY <1>18 DEF vars, masterVars, bounds, TypeOK
<1> QED
  BY <1>1, <1>2, <1>3, <1>4, <1>5, <1>6, <1>7, <1>8, <1>10, <1>11, <1>12, <1>15, <1>16, <1>17, <1>18
  DEF Next, Master, Stove

(* Registers, frames, lists and indices keep their types whether answers   *)
(* come in time or late: the index into poll_list, in particular, stays    *)
(* one the loop can use after any change of the list.                      *)
THEOREM TypeCorrect == Spec => []TypeOK
  BY TypesInit, TypesNext, PTL DEF Spec
------------------------------------------------------------------------------
(* What the shadow holds. *)

(* Every value on its way is one its register had, or was asked to take. *)
ValuesInv ==
  /\ \A r \in Regs : Zero \in had[r] /\ stove[r] \in had[r]
  /\ \A r \in Regs : shadow[r] \in had[r] \/ r \in stale
  /\ \A c \in inside : c.value \in had[c.reg]
  /\ \A i \in 1 .. Len(queue) : queue[i].value \in had[queue[i].reg]
  /\ \A i \in 1 .. Len(requests) :
       requests[i].kind = "write" => requests[i].value \in had[requests[i].reg]
  /\ txn.kind = "write" => txn.value \in had[txn.reg]

(* When the stove owed nothing before the frame of this transaction, what  *)
(* the master waits for belongs to that frame.                             *)
LineInv ==
  Waiting /\ ~behind =>
    /\ requests \in {<<>>, <<txn>>}
    /\ \A i \in 1 .. Len(rx) :
         \/ rx[i].kind = "echo" /\ rx[i].reg = txn.reg /\ i = 1 /\ pc = "reply"
         \/ rx[i].kind = "tail" /\ txn.kind = "write"
         \/ rx[i].kind = "answer" /\ rx[i].value \in had[txn.reg]

GenuineInv == TypeOK /\ ValuesInv /\ LineInv

(* A request queue of one frame. *)
LEMMA OneFrame == ASSUME NEW f PROVE /\ <<f>> # <<>> /\ Head(<<f>>) = f /\ Tail(<<f>>) = <<>>
                                     /\ Append(<<>>, f) = <<f>>
  OBVIOUS

(* The first of a sequence, and the others. *)
LEMMA HeadAndTail ==
  ASSUME NEW S, NEW s \in Seq(S), s # <<>>
  PROVE  /\ Head(s) = s[1] /\ 1 \in 1 .. Len(s) /\ s[1] \in S
         /\ Tail(s) \in Seq(S)
         /\ \A i \in 1 .. Len(Tail(s)) : Tail(s)[i] = s[i + 1] /\ i + 1 \in 1 .. Len(s) /\ i + 1 # 1
  OBVIOUS

LEMMA GenuineInit == Init => GenuineInv
<1> SUFFICES ASSUME Init PROVE GenuineInv
  OBVIOUS
<1>1. ValuesInv
  BY RegsAssumption DEF Init, ValuesInv
<1>2. LineInv
  BY DEF Init, LineInv, Waiting
<1> QED BY <1>1, <1>2, TypesInit DEF GenuineInv

(* When a register gets a value of its own, every value stays accounted    *)
(* for.                                                                    *)
LEMMA NotedKeeps ==
  ASSUME GenuineInv, NEW c \in Cmd, Note(c),
         UNCHANGED <<requests, rx, queue, pc, txn, behind>>,
         \A r \in Regs : stove'[r] = stove[r] \/ (r = c.reg /\ stove'[r] = c.value),
         \A r \in Regs : \/ shadow'[r] = shadow[r] /\ (r \in stale => r \in stale')
                         \/ r = c.reg /\ shadow'[r] = c.value,
         inside' \subseteq inside \cup {c}
  PROVE  ValuesInv' /\ LineInv'
<1> USE DEF GenuineInv
<1>1. /\ had' \in [Regs -> SUBSET Values]
      /\ \A r \in Regs : had[r] \subseteq had'[r]
      /\ c.value \in had'[c.reg]
  BY NoteKeeps DEF TypeOK
<1>2. \A d \in Cmd : d.value \in had[d.reg] => d.value \in had'[d.reg]
  BY <1>1 DEF Cmd
<1>3. \A f \in Frame : f.value \in had[f.reg] => f.value \in had'[f.reg]
  BY <1>1 DEF Frame
<1>4. \A r \in Regs : Zero \in had'[r] /\ stove'[r] \in had'[r]
  BY <1>1 DEF ValuesInv
<1>5. \A r \in Regs : shadow'[r] \in had'[r] \/ r \in stale'
  BY <1>1 DEF ValuesInv
<1>6. \A d \in inside' : d.value \in had'[d.reg]
  BY <1>1, <1>2 DEF ValuesInv, TypeOK
<1>7. \A i \in 1 .. Len(queue') : queue'[i].value \in had'[queue'[i].reg]
  <2>1. \A i \in 1 .. Len(queue) : queue[i] \in Cmd
    BY DEF TypeOK
  <2> QED BY <1>2, <2>1 DEF ValuesInv
<1>8. \A i \in 1 .. Len(requests') :
        requests'[i].kind = "write" => requests'[i].value \in had'[requests'[i].reg]
  <2>1. \A i \in 1 .. Len(requests) : requests[i] \in Frame
    BY DEF TypeOK
  <2> QED BY <1>3, <2>1 DEF ValuesInv
<1>9. txn'.kind = "write" => txn'.value \in had'[txn'.reg]
  BY <1>3 DEF ValuesInv, TypeOK
<1>10. LineInv'
  BY <1>1 DEF LineInv, Waiting, TypeOK, Frame
<1> QED BY <1>4, <1>5, <1>6, <1>7, <1>8, <1>9, <1>10 DEF ValuesInv

(* A user sets a value. *)
LEMMA SetShadowKeeps ==
  ASSUME GenuineInv, NEW c \in Settings, SetShadow(c)
  PROVE  ValuesInv' /\ LineInv'
<1>1. c \in Cmd /\ c.reg \in Regs
  BY RegsAssumption DEF Cmd
<1>2. \A r \in Regs : \/ shadow'[r] = shadow[r] /\ (r \in stale => r \in stale')
                      \/ r = c.reg /\ shadow'[r] = c.value
  BY <1>1 DEF SetShadow, GenuineInv, TypeOK
<1> QED BY <1>1, <1>2, NotedKeeps DEF SetShadow, masterVars

(* The register changes by itself. *)
LEMMA ChangeKeeps ==
  ASSUME GenuineInv, NEW c \in Readings, Change(c)
  PROVE  ValuesInv' /\ LineInv'
<1>1. c \in Cmd /\ c.reg \in Regs
  BY RegsAssumption DEF Cmd
<1>2. \A r \in Regs : stove'[r] = stove[r] \/ (r = c.reg /\ stove'[r] = c.value)
  BY <1>1 DEF Change, GenuineInv, TypeOK
<1> QED BY <1>1, <1>2, NotedKeeps DEF Change, masterVars

(* The command enters the queue, or is dropped. *)
LEMMA EnqueueKeeps ==
  ASSUME GenuineInv, NEW c \in inside, Enqueue(c)
  PROVE  ValuesInv' /\ LineInv'
<1> USE DEF GenuineInv
<1>1. \A i \in 1 .. Len(queue') : queue'[i].value \in had[queue'[i].reg]
  BY DEF Enqueue, ValuesInv, TypeOK
<1>2. ValuesInv'
  BY <1>1 DEF Enqueue, ValuesInv, masterVars
<1> QED BY <1>2 DEF Enqueue, LineInv, masterVars, Waiting

(* A frame goes out.  If the stove owed nothing, the receive buffer holds  *)
(* its echo at most, and the stove has this one frame.                     *)
LEMMA SendKeeps ==
  ASSUME GenuineInv, NEW f \in Frame, Send(f),
         f.kind = "write" => f.value \in had[f.reg],
         \A i \in 1 .. Len(queue') : queue'[i].value \in had[queue'[i].reg]
  PROVE  ValuesInv' /\ LineInv'
<1> USE DEF GenuineInv
<1>1. \A i \in 1 .. Len(requests') :
        requests'[i].kind = "write" => requests'[i].value \in had[requests'[i].reg]
  BY DEF Send, ValuesInv, TypeOK
<1>2. ValuesInv'
  BY <1>1 DEF Send, ValuesInv
<1>3. \A i \in 1 .. Len(rx') :
        \/ rx'[i].kind = "echo" /\ rx'[i].reg = f.reg /\ i = 1
        \/ rx'[i].kind = "tail" /\ f.kind = "write"
  <2>1. CASE rx' = <<>>
    BY <2>1
  <2>2. CASE f.kind = "write" /\ rx' # <<>>
    BY <2>2 DEF Send, Received, EchoesOf
  <2>3. CASE f.kind # "write" /\ rx' # <<>>
    BY <2>3 DEF Send, Received, EchoesOf
  <2> QED BY <2>1, <2>2, <2>3
<1>4. ~behind' => requests' = <<txn'>>
  BY OneFrame DEF Send
<1>5. LineInv'
  BY <1>3, <1>4 DEF Send, LineInv
<1> QED BY <1>2, <1>5

LEMMA RecordKeeps ==
  ASSUME GenuineInv, Record
  PROVE  ValuesInv' /\ LineInv'
<1> USE DEF GenuineInv
<1>1. ListsInv /\ pc' \in {"top", "panic"}
  BY ReturnKeeps DEF Record, TypeOK, ListsInv
<1>2. txn.reg \in Regs /\ Head(rx) = rx[1] /\ 1 \in 1 .. Len(rx) /\ rx[1] \in Pair
  BY HeadAndTail DEF Record, TypeOK, Frame
<1>3. ~behind => rx[1].kind # "echo"
  BY <1>2 DEF Record, LineInv, IsEcho
<1>4. ~behind \/ txn.kind = "write" => Result(rx[1]) \in had[txn.reg]
  BY <1>2, <1>3 DEF Record, LineInv, ValuesInv, Result
<1>5. \A r \in Regs : shadow'[r] \in had[r] \/ r \in stale'
  BY <1>2, <1>4 DEF Record, ValuesInv, TypeOK
<1>6. ValuesInv'
  BY <1>5 DEF Record, ValuesInv
<1>7. LineInv'
  BY <1>1 DEF LineInv, Waiting
<1> QED BY <1>6, <1>7

(* The stove takes the first frame: what a register gets is what it was    *)
(* asked to take.                                                          *)
LEMMA TakeKeeps ==
  ASSUME GenuineInv, requests # <<>>, requests' = Tail(requests),
         Apply(Head(requests)) \/ stove' = stove,
         UNCHANGED <<shadow, inside, queue, txn, had, stale>>
  PROVE  ValuesInv'
<1> USE DEF GenuineInv
<1>1. /\ Head(requests) = requests[1] /\ 1 \in 1 .. Len(requests) /\ requests[1] \in Frame
      /\ \A i \in 1 .. Len(requests') :
           requests'[i] = requests[i + 1] /\ i + 1 \in 1 .. Len(requests)
  BY HeadAndTail DEF TypeOK
<1>2. \A r \in Regs : stove'[r] \in had[r]
  BY <1>1 DEF Apply, ValuesInv, TypeOK, Frame
<1> QED BY <1>1, <1>2 DEF ValuesInv

LEMMA AnswerKeeps ==
  ASSUME GenuineInv, Answer
  PROVE  ValuesInv' /\ LineInv'
<1> USE DEF GenuineInv
<1>1. ValuesInv'
  BY TakeKeeps DEF Answer, masterVars
<1>2. LineInv'
  <2> SUFFICES ASSUME Waiting, ~behind
               PROVE  /\ requests' = <<>>
                      /\ \A i \in 1 .. Len(rx') :
                           \/ rx'[i].kind = "echo" /\ rx'[i].reg = txn.reg /\ i = 1 /\ pc = "reply"
                           \/ rx'[i].kind = "tail" /\ txn.kind = "write"
                           \/ rx'[i].kind = "answer" /\ rx'[i].value \in had[txn.reg]
    BY DEF LineInv, Waiting, Answer, masterVars
  <2>1. requests = <<txn>> /\ Head(requests) = txn /\ requests' = <<>>
    BY OneFrame DEF Answer, LineInv
  <2> DEFINE v == IF txn.kind = "write" THEN txn.value ELSE stove[txn.reg]
  <2>2. v \in had[txn.reg]
    BY DEF ValuesInv, TypeOK, Frame
  <2>3. rx' = Append(rx, [kind |-> "answer", reg |-> txn.reg, value |-> v])
    BY <2>1 DEF Answer
  <2> HIDE DEF v
  <2> QED BY <2>1, <2>2, <2>3 DEF LineInv, TypeOK
<1> QED BY <1>1, <1>2

LEMMA LoseKeeps ==
  ASSUME GenuineInv, Lose
  PROVE  ValuesInv' /\ LineInv'
<1> USE DEF GenuineInv
<1>1. ValuesInv'
  BY TakeKeeps DEF Lose, masterVars
<1>2. LineInv'
  BY OneFrame DEF Lose, LineInv, masterVars, Waiting
<1> QED BY <1>1, <1>2

(* A boot after a panic. *)
LEMMA RestartKeeps ==
  ASSUME GenuineInv, Restart
  PROVE  ValuesInv' /\ LineInv'
<1> USE DEF GenuineInv
<1>1. ValuesInv'
  BY DEF Restart, ValuesInv
<1>2. LineInv'
  BY DEF Restart, LineInv, Waiting
<1> QED BY <1>1, <1>2

LEMMA GenuineNext == GenuineInv /\ [Next]_vars => GenuineInv'
<1> SUFFICES ASSUME GenuineInv, [Next]_vars PROVE ValuesInv' /\ LineInv'
  BY TypesNext DEF GenuineInv
<1>1. ASSUME NEW l \in PollLists, SetPollList(l) PROVE ValuesInv' /\ LineInv'
  BY <1>1 DEF SetPollList, GenuineInv, ValuesInv, LineInv, masterVars, Waiting
<1>2. CASE SendWrite
  <2>1. /\ Head(queue) = queue[1] /\ queue[1] \in Cmd /\ 1 \in 1 .. Len(queue)
        /\ \A i \in 1 .. Len(queue') : queue'[i] = queue[i + 1] /\ i + 1 \in 1 .. Len(queue)
    BY <1>2, HeadAndTail DEF SendWrite, GenuineInv, TypeOK
  <2>2. WriteFrame(queue[1]) \in Frame
    BY <2>1 DEF WriteFrame, Cmd, Frame
  <2>3. \A i \in 1 .. Len(queue') : queue'[i].value \in had[queue'[i].reg]
    BY <2>1 DEF GenuineInv, ValuesInv
  <2>4. WriteFrame(queue[1]).value \in had[WriteFrame(queue[1]).reg]
    BY <2>1 DEF WriteFrame, GenuineInv, ValuesInv
  <2> QED BY <1>2, <2>1, <2>2, <2>3, <2>4, SendKeeps DEF SendWrite
<1>3. CASE PollHot
  <2> DEFINE f == [kind |-> "hot", reg |-> HotList[hot_idx + 1], value |-> Zero]
  <2>1. hot_idx + 1 \in 1 .. Len(HotList)
    BY RegsAssumption DEF GenuineInv, TypeOK
  <2>2. f \in Frame /\ f.kind # "write"
    BY <2>1, RegsAssumption DEF Frame
  <2>3. Send(f) /\ queue' = queue
    BY <1>3 DEF PollHot
  <2> HIDE DEF f
  <2> QED BY <2>2, <2>3, SendKeeps DEF GenuineInv, ValuesInv
<1>4. CASE PollCold
  <2> DEFINE f == [kind |-> "cold", reg |-> poll_list[(poll_idx % Len(poll_list)) + 1], value |-> Zero]
  <2>1. (poll_idx % Len(poll_list)) + 1 \in 1 .. Len(poll_list)
    <3>1. Len(poll_list) \in Nat \ {0} /\ poll_idx \in Nat
      BY <1>4 DEF PollCold, GenuineInv, TypeOK
    <3> QED BY <3>1
  <2>2. f \in Frame /\ f.kind # "write"
    BY <2>1, RegsAssumption DEF Frame, GenuineInv, TypeOK
  <2>3. Send(f) /\ queue' = queue
    BY <1>4 DEF PollCold
  <2> HIDE DEF f
  <2> QED BY <2>2, <2>3, SendKeeps DEF GenuineInv, ValuesInv
<1>5. CASE SkipCold
  BY <1>5 DEF SkipCold, GenuineInv, ValuesInv, LineInv, Waiting
<1>6. CASE SkipEcho
  <2>1. \A i \in 1 .. Len(rx') : rx'[i] = rx[i + 1] /\ i + 1 \in 1 .. Len(rx) /\ i + 1 # 1
    BY <1>6, HeadAndTail DEF SkipEcho, GenuineInv, TypeOK
  <2>2. LineInv'
    BY <1>6, <2>1 DEF SkipEcho, GenuineInv, LineInv, Waiting
  <2> QED BY <1>6, <2>2 DEF SkipEcho, GenuineInv, ValuesInv
<1>7. CASE Record
  BY <1>7, RecordKeeps
<1>8. CASE GiveUp
  <2>1. pc' \in {"top", "panic"}
    BY <1>8, ReturnKeeps DEF GiveUp, GenuineInv, TypeOK, ListsInv
  <2> QED BY <1>8, <2>1 DEF GiveUp, GenuineInv, ValuesInv, LineInv, Waiting
<1>9. CASE UNCHANGED vars
  BY <1>9 DEF vars, masterVars, GenuineInv, ValuesInv, LineInv, Waiting
<1> QED
  BY <1>1, <1>2, <1>3, <1>4, <1>5, <1>6, <1>7, <1>8, <1>9, SetShadowKeeps, EnqueueKeeps,
     ChangeKeeps, AnswerKeeps, LoseKeeps, RestartKeeps DEF Next, Master, Stove

(* docs/PROTOCOLE-MICRONOVA.md, 3.2, and how far mn_do_transaction goes    *)
(* without looking at the checksum: whatever is echoed, lost or late, a    *)
(* register of the shadow holds a value of its own, unless the transaction *)
(* that read it began while the stove owed an earlier answer.              *)
THEOREM ShadowIsGenuine == Spec => []ShadowGenuine
<1>1. GenuineInv => ShadowGenuine
  BY DEF GenuineInv, ValuesInv, ShadowGenuine
<1> QED BY <1>1, GenuineNext, GenuineInit, PTL DEF Spec
------------------------------------------------------------------------------
(* What reaches the stove, late answers and panics included. *)

(* A command of a user on its way to the stove, in mn_write_register, in   *)
(* the queue or in a frame, is still one of the users' commands.           *)
CommandsInv ==
  /\ inside \subseteq Settings
  /\ queue \in Seq(Settings)
  /\ \A i \in 1 .. Len(requests) :
       requests[i].kind = "write" =>
         [reg |-> requests[i].reg, value |-> requests[i].value] \in Settings

(* A command keeps its register and its value. *)
LEMMA CommandFields == \A c \in Settings : c = [reg |-> c.reg, value |-> c.value]
  BY RegsAssumption DEF Cmd

(* A frame goes out behind those the stove has not dealt with. *)
LEMMA SendCarries ==
  ASSUME TypeOK, CommandsInv, NEW f \in Frame, Send(f), queue' \in Seq(Settings),
         f.kind = "write" => [reg |-> f.reg, value |-> f.value] \in Settings
  PROVE  CommandsInv'
<1>1. requests \in Seq(Frame) /\ requests' = Append(requests, f) /\ inside' = inside
  BY DEF Send, TypeOK
<1> QED BY <1>1 DEF CommandsInv

(* The stove takes the first frame. *)
LEMMA TakeCarries ==
  ASSUME TypeOK, CommandsInv, requests # <<>>, requests' = Tail(requests),
         UNCHANGED <<inside, queue>>
  PROVE  CommandsInv'
<1>1. requests \in Seq(Frame)
  BY DEF TypeOK
<1> QED BY <1>1 DEF CommandsInv

LEMMA CommandsNext == TypeOK /\ CommandsInv /\ [Next]_vars => CommandsInv'
<1> SUFFICES ASSUME TypeOK, CommandsInv, [Next]_vars PROVE CommandsInv'
  OBVIOUS
<1>1. ASSUME NEW c \in Settings, SetShadow(c) PROVE CommandsInv'
  BY <1>1 DEF SetShadow, CommandsInv
<1>2. ASSUME NEW c \in inside, Enqueue(c) PROVE CommandsInv'
  <2>1. queue' \in Seq(Settings)
    BY <1>2 DEF Enqueue, CommandsInv
  <2> QED BY <1>2, <2>1 DEF Enqueue, CommandsInv
<1>3. ASSUME NEW l \in PollLists, SetPollList(l) PROVE CommandsInv'
  BY <1>3 DEF SetPollList, CommandsInv
<1>4. CASE SendWrite
  <2>1. Head(queue) \in Settings /\ queue' \in Seq(Settings)
    BY <1>4 DEF SendWrite, CommandsInv
  <2>2. WriteFrame(Head(queue)) \in Frame
    BY <2>1, RegsAssumption DEF WriteFrame, Cmd, Frame
  <2>3. [reg |-> WriteFrame(Head(queue)).reg, value |-> WriteFrame(Head(queue)).value] \in Settings
    BY <2>1, CommandFields DEF WriteFrame
  <2> QED BY <1>4, <2>1, <2>2, <2>3, SendCarries DEF SendWrite
<1>5. CASE PollHot
  <2> DEFINE f == [kind |-> "hot", reg |-> HotList[hot_idx + 1], value |-> Zero]
  <2>1. hot_idx + 1 \in 1 .. Len(HotList)
    BY RegsAssumption DEF TypeOK
  <2>2. f \in Frame
    BY <2>1, RegsAssumption DEF Frame
  <2>3. Send(f) /\ queue' = queue /\ f.kind # "write"
    BY <1>5 DEF PollHot
  <2> HIDE DEF f
  <2> QED BY <2>2, <2>3, SendCarries DEF CommandsInv
<1>6. CASE PollCold
  <2> DEFINE f == [kind |-> "cold", reg |-> poll_list[(poll_idx % Len(poll_list)) + 1], value |-> Zero]
  <2>1. (poll_idx % Len(poll_list)) + 1 \in 1 .. Len(poll_list)
    <3>1. Len(poll_list) \in Nat \ {0} /\ poll_idx \in Nat
      BY <1>6 DEF PollCold, TypeOK
    <3> QED BY <3>1
  <2>2. f \in Frame
    BY <2>1, RegsAssumption DEF Frame, TypeOK
  <2>3. Send(f) /\ queue' = queue /\ f.kind # "write"
    BY <1>6 DEF PollCold
  <2> HIDE DEF f
  <2> QED BY <2>2, <2>3, SendCarries DEF CommandsInv
<1>7. CASE SkipCold \/ SkipEcho \/ Record \/ GiveUp
  BY <1>7 DEF SkipCold, SkipEcho, Record, GiveUp, CommandsInv
<1>8. CASE Restart
  BY <1>8 DEF Restart, CommandsInv
<1>9. CASE Stove
  BY <1>9, TakeCarries DEF Stove, Answer, Lose, masterVars
<1>10. ASSUME NEW c \in Readings, Change(c) PROVE CommandsInv'
  BY <1>10 DEF Change, CommandsInv
<1>11. CASE UNCHANGED vars
  BY <1>11 DEF vars, CommandsInv
<1> QED
  BY <1>1, <1>2, <1>3, <1>4, <1>5, <1>6, <1>7, <1>8, <1>9, <1>10, <1>11 DEF Next, Master

(* The module never makes a setting of its own: whatever is polled, echoed *)
(* or lost, in time or late, across panics and boots, what a register of   *)
(* the stove changes to is a command of the users for that very register,  *)
(* or a reading the stove gives it by itself.                              *)
THEOREM StoveObeysUsers ==
  Spec => [][\A r \in Regs : stove'[r] # stove[r] =>
               [reg |-> r, value |-> stove'[r]] \in Settings \cup Readings]_vars
<1> DEFINE Obeys == \A r \in Regs : stove'[r] # stove[r] =>
                      [reg |-> r, value |-> stove'[r]] \in Settings \cup Readings
<1>1. Init => TypeOK /\ CommandsInv
  <2>1. Init => CommandsInv
    BY DEF Init, CommandsInv
  <2> QED BY <2>1, TypesInit
<1>2. TypeOK /\ CommandsInv /\ [Next]_vars => [Obeys]_vars
  <2> SUFFICES ASSUME TypeOK, CommandsInv, [Next]_vars PROVE Obeys \/ UNCHANGED vars
    OBVIOUS
  <2>1. CASE stove' = stove
    BY <2>1
  <2>2. CASE Answer \/ Lose
    <3> DEFINE f == Head(requests)
    <3>1. f = requests[1] /\ 1 \in 1 .. Len(requests) /\ f \in Frame
      BY <2>2 DEF Answer, Lose, TypeOK
    <3>2. f.kind = "write" => [reg |-> f.reg, value |-> f.value] \in Settings
      BY <3>1 DEF CommandsInv
    <3>3. Apply(f) \/ stove' = stove
      BY <2>2 DEF Answer, Lose
    <3> HIDE DEF f
    <3>4. stove \in [Regs -> Values] /\ f.reg \in Regs
      BY <3>1 DEF TypeOK, Frame
    <3> QED BY <3>2, <3>3, <3>4 DEF Apply
  <2>3. ASSUME NEW c \in Readings, Change(c) PROVE Obeys
    <3>1. c \in Cmd /\ c = [reg |-> c.reg, value |-> c.value]
      BY RegsAssumption DEF Cmd
    <3>2. stove \in [Regs -> Values] /\ stove' = [stove EXCEPT ![c.reg] = c.value]
      BY <2>3 DEF Change, TypeOK
    <3>3. ASSUME NEW r \in Regs, stove'[r] # stove[r] PROVE r = c.reg /\ stove'[r] = c.value
      BY <3>2, <3>3
    <3> QED BY <3>1, <3>3
  <2>4. Answer \/ Lose \/ (\E c \in Readings : Change(c)) \/ stove' = stove
    BY DEF Next, Master, Stove, SetShadow, Enqueue, SetPollList, SendWrite, PollHot, PollCold,
           Send, SkipCold, SkipEcho, Record, GiveUp, Restart, vars
  <2> QED BY <2>1, <2>2, <2>3, <2>4
<1>3. TypeOK /\ CommandsInv /\ [Next]_vars => TypeOK' /\ CommandsInv'
  BY TypesNext, CommandsNext
<1> HIDE DEF Obeys
<1>4. Spec => [][Obeys]_vars
  BY <1>1, <1>2, <1>3, PTL DEF Spec
<1> QED BY <1>4 DEF Obeys

(* The remainder by the length of poll_list panics only if a user set the  *)
(* empty list: with none on offer the master's loop never stops.  (The     *)
(* code takes the empty list, so this is the guard it lacks.)              *)
THEOREM NoPanic ==
  ASSUME PollList # <<>>, <<>> \notin PollLists
  PROVE  Spec => [](pc # "panic")
<1> DEFINE Inv == TypeOK /\ poll_list # <<>> /\ pc # "panic"
<1>1. Init => Inv
  BY TypesInit DEF Init
<1>2. Inv /\ [Next]_vars => Inv'
  <2> SUFFICES ASSUME Inv, [Next]_vars PROVE (poll_list # <<>> /\ pc # "panic")'
    BY TypesNext
  <2>1. CASE Record \/ GiveUp
    <3>1. Return /\ poll_list' = poll_list /\ txn \in Frame
      BY <2>1 DEF Record, GiveUp, TypeOK
    <3>2. pc' = "top"
      BY <3>1 DEF Return, Frame
    <3> QED BY <3>1, <3>2
  <2>2. CASE SendWrite \/ PollHot \/ PollCold \/ SkipCold \/ SkipEcho
    BY <2>2 DEF SendWrite, PollHot, PollCold, Send, SkipCold, SkipEcho
  <2>3. ASSUME NEW l \in PollLists, SetPollList(l) PROVE poll_list' # <<>> /\ pc' # "panic"
    BY <2>3 DEF SetPollList, masterVars
  <2>4. CASE Restart
    BY <2>4 DEF Restart
  <2>5. CASE Stove \/ (\E c \in Settings : SetShadow(c)) \/ (\E c \in inside : Enqueue(c))
          \/ (\E c \in Readings : Change(c)) \/ UNCHANGED vars
    BY <2>5 DEF Stove, Answer, Lose, SetShadow, Enqueue, Change, masterVars, vars
  <2> QED BY <2>1, <2>2, <2>3, <2>4, <2>5 DEF Next, Master
<1>3. Inv => pc # "panic"
  OBVIOUS
<1> QED BY <1>1, <1>2, <1>3, PTL DEF Spec
==============================================================================
