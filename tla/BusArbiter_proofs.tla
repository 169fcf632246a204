-------------------------- MODULE BusArbiter_proofs --------------------------
(***************************************************************************)
(* When the fixed delays are enough: for every number of sessions, of any  *)
(* kind and length.                                                        *)
(***************************************************************************)
EXTENDS BusArbiter, TLAPS

(* Every session gives the master longer to end its transaction than a     *)
(* stove that answers takes.                                               *)
LongEnough == \A s \in Sessions : s.settle > AnswerTicks

(* The master is done with a prompt read before the session is done with   *)
(* its delay, and begins no other one as long as the flag is up.           *)
StandsAsideInv ==
  /\ session \in Sessions
  /\ phase \in {"settle", "use"} => mn_sniffer_pause
  /\ ~slow => master \notin {"write", "gap"}
  /\ ~slow /\ master = "poll" => mleft <= AnswerTicks
  /\ ~slow /\ master = "poll" /\ phase = "settle" => mleft < sleft
  /\ PromptReadOver

ArbiterInv == TypeOK /\ StandsAsideInv

LEMMA SessionTicks ==
  ASSUME NEW s \in Sessions
  PROVE  /\ s \in Session /\ s.clear \in Nat /\ s.settle \in Nat /\ s.use \in Nat
         /\ AnswerTicks \in Nat /\ (LongEnough => s.settle > AnswerTicks)
  BY TicksAssumption DEF Session, LongEnough

LEMMA TypeInit == Init => TypeOK
<1> SUFFICES ASSUME Init PROVE TypeOK
  OBVIOUS
<1>1. session \in Session
  BY SessionTicks DEF Init
<1>2. mn_sniffer_pause \in BOOLEAN /\ slow \in BOOLEAN
  BY DEF Init
<1> QED BY <1>1, <1>2 DEF Init, TypeOK

LEMMA TransactionTicks ==
  ASSUME NEW t \in Transaction
  PROVE  t \in Nat /\ (t \notin Silence => t <= AnswerTicks)
  BY TicksAssumption DEF Transaction, Silence

LEMMA TypeNext == TypeOK /\ [Next]_vars => TypeOK'
<1> SUFFICES ASSUME TypeOK, [Next]_vars PROVE TypeOK'
  OBVIOUS
<1> USE DEF TypeOK, masterVars, sessionVars, MasterIs, PhaseIs
<1>1. CASE Tick
  BY <1>1 DEF Tick, Busy
<1>2. CASE LoopTop
  <2>1. slow' \in BOOLEAN
    BY <1>2 DEF LoopTop, Work
  <2> QED BY <1>2, <2>1, TransactionTicks DEF LoopTop, Work
<1>3. CASE WriteDone
  BY <1>3 DEF WriteDone
<1>4. CASE GapDone
  <2>1. slow' \in BOOLEAN
    BY <1>4 DEF GapDone, Work
  <2> QED BY <1>4, <2>1, TransactionTicks DEF GapDone, Work
<1>5. CASE PollDone
  BY <1>5 DEF PollDone
<1>6. ASSUME NEW s \in Sessions, Begin(s) PROVE TypeOK'
  <2>1. session' \in Session /\ sleft' \in Nat
    BY <1>6, SessionTicks DEF Begin
  <2>2. mn_sniffer_pause' \in BOOLEAN
    BY <1>6 DEF Begin
  <2> QED BY <1>6, <2>1, <2>2 DEF Begin
<1>7. CASE Raise
  BY <1>7 DEF Raise, Session
<1>8. CASE TakeLine
  BY <1>8 DEF TakeLine, Session
<1>9. CASE End
  BY <1>9 DEF End, FlagAfter
<1>10. CASE QueueWrite
  BY <1>10 DEF QueueWrite, HasRoom
<1>11. CASE UNCHANGED vars
  BY <1>11 DEF vars
<1> QED
  BY <1>1, <1>2, <1>3, <1>4, <1>5, <1>6, <1>7, <1>8, <1>9, <1>10, <1>11
  DEF Next, Master, SessionStep

(* The flag, the two tasks and their delays keep their types.              *)
THEOREM TypeCorrect == Spec => []TypeOK
<1> QED BY TypeInit, TypeNext, PTL DEF Spec

LEMMA InvNext ==
  ASSUME LongEnough
  PROVE  ArbiterInv /\ [Next]_vars => ArbiterInv'
<1> SUFFICES ASSUME ArbiterInv, [Next]_vars PROVE StandsAsideInv'
  BY TypeNext DEF ArbiterInv
<1> USE DEF ArbiterInv, StandsAsideInv, PromptReadOver, TypeOK, masterVars, sessionVars, MasterIs, PhaseIs
<1>1. CASE Tick
  <2>1. phase' = phase /\ master' = master /\ mn_sniffer_pause' = mn_sniffer_pause
        /\ session' = session /\ slow' = slow
    BY <1>1 DEF Tick
  <2>2. mleft' = mleft - 1 /\ (phase = "settle" => sleft' = sleft - 1)
    BY <1>1 DEF Tick
  <2>3. AnswerTicks \in Nat
    BY TicksAssumption
  <2> QED BY <2>1, <2>2, <2>3
<1>2. CASE LoopTop
  BY <1>2, TransactionTicks DEF LoopTop, Work, StandsAside
<1>3. CASE WriteDone
  BY <1>3 DEF WriteDone
<1>4. CASE GapDone
  <2>1. slow /\ slow'
    BY <1>4 DEF GapDone, Work
  <2>2. mn_sniffer_pause' = mn_sniffer_pause /\ phase' = phase /\ session' = session
    BY <1>4 DEF GapDone
  <2> QED BY <2>1, <2>2
<1>5. CASE PollDone
  BY <1>5 DEF PollDone
<1>6. ASSUME NEW s \in Sessions, Begin(s) PROVE StandsAsideInv'
  BY <1>6, SessionTicks DEF Begin
<1>7. CASE Raise
  BY <1>7, SessionTicks DEF Raise
<1>8. CASE TakeLine
  BY <1>8 DEF TakeLine
<1>9. CASE End
  BY <1>9 DEF End
<1>10. CASE QueueWrite
  BY <1>10 DEF QueueWrite
<1>11. CASE UNCHANGED vars
  BY <1>11 DEF vars
<1> QED
  BY <1>1, <1>2, <1>3, <1>4, <1>5, <1>6, <1>7, <1>8, <1>9, <1>10, <1>11
  DEF Next, Master, SessionStep

(* micronova.c, mn_sniffer_pause: a session with a delay longer than an    *)
(* answered read never meets such a read on the line, whatever came before.*)
THEOREM PromptReadsEnd == ASSUME LongEnough PROVE Spec => []PromptReadOver
<1>1. Init => ArbiterInv
  <2> SUFFICES ASSUME Init PROVE StandsAsideInv
    BY TypeInit DEF ArbiterInv
  <2> QED BY TicksAssumption DEF Init, StandsAsideInv, PromptReadOver
<1>2. ArbiterInv => PromptReadOver
  BY DEF ArbiterInv, StandsAsideInv
<1>3. ArbiterInv /\ [Next]_vars => ArbiterInv'
  BY InvNext
<1> QED BY <1>1, <1>2, <1>3, PTL DEF Spec
==============================================================================
