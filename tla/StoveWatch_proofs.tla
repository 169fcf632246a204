-------------------------- MODULE StoveWatch_proofs --------------------------
(***************************************************************************)
(* The watchdog of the stove, for every width of rx_frames_count and every *)
(* number of answers that stays below it between two looks: the two tasks  *)
(* may interleave in any way, and the counter wrap, without an answer      *)
(* being taken for silence.                                                *)
(***************************************************************************)
EXTENDS StoveWatch, TLAPS

(* What the counter shows n answers after it showed x. *)
Ahead(x, n) == IF x + n < CountRange THEN x + n ELSE x + n - CountRange

(* While the watchdog sleeps the counter is as far ahead of its last look  *)
(* as answers came since; at work, it holds a look that is as far ahead of *)
(* the one before, and the counter has gone on from there.                 *)
LookInv ==
  /\ watchdog = "sleep" => rx_frames_count = Ahead(last_rx_count, fresh)
  /\ watchdog # "sleep" => /\ cur = Ahead(last_rx_count, heard)
                           /\ rx_frames_count = Ahead(cur, fresh)
  /\ watchdog \in {"clear", "bit"} => cur = last_rx_count
  /\ master = "count" => fresh < MaxAnswers

IInv == TypeOK /\ LookInv

LEMMA Widths ==
  /\ CountRange \in Nat /\ MaxAnswers \in Nat /\ MaxBusy \in Nat
  /\ 1 <= MaxAnswers /\ MaxAnswers < CountRange
  /\ 0 \in 0 .. CountRange - 1 /\ 0 \in 0 .. MaxAnswers /\ 0 \in 0 .. MaxBusy
BY AnswersAssumption, BoundAssumption

(* The counter counts up, and wraps. *)
LEMMA CountsUp ==
  ASSUME NEW n \in 0 .. CountRange - 1
  PROVE  (n + 1) % CountRange = IF n + 1 = CountRange THEN 0 ELSE n + 1
BY Widths

LEMMA AheadTyped ==
  ASSUME NEW x \in 0 .. CountRange - 1, NEW n \in 0 .. MaxAnswers
  PROVE  /\ Ahead(x, n) \in 0 .. CountRange - 1
         /\ Ahead(x, 0) = x
         /\ Ahead(x, n) = x => n = 0
BY Widths DEF Ahead

(* One answer more is one step further. *)
LEMMA AheadNext ==
  ASSUME NEW x \in 0 .. CountRange - 1, NEW n \in 0 .. MaxAnswers - 1
  PROVE  (Ahead(x, n) + 1) % CountRange = Ahead(x, n + 1)
<1>1. Ahead(x, n) \in 0 .. CountRange - 1
  BY Widths, AheadTyped
<1>2. (Ahead(x, n) + 1) % CountRange
        = IF Ahead(x, n) + 1 = CountRange THEN 0 ELSE Ahead(x, n) + 1
  BY <1>1, CountsUp
<1> QED BY <1>2, Widths DEF Ahead

LEMMA InitWatch == Init => IInv
<1> SUFFICES ASSUME Init PROVE IInv
  OBVIOUS
<1>1. TypeOK
  BY Widths DEF Init, TypeOK
<1>2. LookInv
  BY Widths DEF Init, LookInv, Ahead
<1> QED BY <1>1, <1>2 DEF IInv

(* A look that ran into its timeout, or did not, is counted. *)
LEMMA BusyOrNot == ASSUME TypeOK, Busy \/ UNCHANGED busy PROVE busy' \in 0 .. MaxBusy
BY Widths DEF TypeOK, Busy

(* The master's steps: an answer takes the counter one further. *)
LEMMA MasterKeeps == IInv /\ Master => IInv'
<1> SUFFICES ASSUME TypeOK, LookInv, Master PROVE TypeOK' /\ LookInv'
  BY DEF IInv
<1>1. CASE GetAnswer
  BY <1>1 DEF GetAnswer, watchVars, answers, TypeOK, LookInv, Ahead
<1>2. CASE GetNoAnswer
  BY <1>2 DEF GetNoAnswer, watchVars, answers, TypeOK, LookInv, Ahead
<1>3. CASE CountAnswer
  <2>1. /\ master = "count" /\ master' = "set"
        /\ UNCHANGED <<up, online_bit, watchdog, cur, last_rx_count, heard>>
        /\ online' \in BOOLEAN /\ polled' = TRUE /\ busy' \in 0 .. MaxBusy
    BY <1>3, BusyOrNot DEF CountAnswer, watchVars, TypeOK
  <2>2. CASE UNCHANGED <<rx_frames_count, fresh>>
    BY <2>1, <2>2 DEF TypeOK, LookInv, Ahead
  <2>3. CASE rx_frames_count' = NextCount /\ fresh' = fresh + 1
    <3>1. fresh \in 0 .. MaxAnswers - 1 /\ fresh' \in 0 .. MaxAnswers
      BY <2>1, <2>3, Widths DEF LookInv, TypeOK
    <3>2. rx_frames_count' \in 0 .. CountRange - 1
      BY <2>3, CountsUp, Widths DEF NextCount, TypeOK
    <3>3. TypeOK'
      BY <2>1, <3>1, <3>2 DEF TypeOK
    <3>4. CASE watchdog = "sleep"
      <4>1. rx_frames_count' = Ahead(last_rx_count, fresh + 1)
        BY <2>3, <3>1, <3>4, AheadNext DEF NextCount, TypeOK, LookInv
      <4> QED BY <2>1, <2>3, <3>3, <3>4, <4>1 DEF LookInv, Ahead
    <3>5. CASE watchdog # "sleep"
      <4>1. rx_frames_count' = Ahead(cur, fresh + 1)
        BY <2>3, <3>1, <3>5, AheadNext DEF NextCount, TypeOK, LookInv
      <4> QED BY <2>1, <2>3, <3>3, <3>5, <4>1 DEF LookInv, Ahead
    <3> QED BY <3>4, <3>5
  <2> QED BY <1>3, <2>2, <2>3 DEF CountAnswer
<1>4. CASE SetBit
  BY <1>4 DEF SetBit, watchVars, answers, TypeOK, LookInv, Ahead
<1> QED BY <1>1, <1>2, <1>3, <1>4 DEF Master

(* The watchdog's steps: it looks, and its last look moves up to what it   *)
(* compared.                                                               *)
LEMMA WatchdogKeeps == IInv /\ Watchdog => IInv'
<1> SUFFICES ASSUME TypeOK, LookInv, Watchdog PROVE TypeOK' /\ LookInv'
  BY DEF IInv
<1>1. CASE Wake
  <2>1. CASE watchdog' = "compare" /\ cur' = rx_frames_count /\ heard' = fresh /\ fresh' = 0
             /\ UNCHANGED <<polled, busy>>
    <3>1. TypeOK'
      BY <1>1, <2>1, Widths DEF Wake, TypeOK
    <3>2. cur' = Ahead(last_rx_count', heard') /\ rx_frames_count' = Ahead(cur', fresh')
      BY <1>1, <2>1, AheadTyped, Widths DEF Wake, TypeOK, LookInv
    <3>3. master' = "count" => fresh' < MaxAnswers
      BY <2>1, Widths
    <3> QED BY <2>1, <3>1, <3>2, <3>3 DEF LookInv, Ahead
  <2>2. CASE Busy /\ polled' = FALSE /\ UNCHANGED <<cur, watchdog, answers>>
    BY <1>1, <2>2, BusyOrNot DEF Wake, answers, TypeOK, LookInv, Ahead
  <2> QED BY <1>1, <2>1, <2>2 DEF Wake
<1>2. CASE Compare
  BY <1>2 DEF Compare, NoNewAnswer, LastAfter, answers, TypeOK, LookInv, Ahead
<1>3. CASE ClearOnline
  BY <1>3, BusyOrNot DEF ClearOnline, answers, TypeOK, LookInv, Ahead
<1>4. CASE ClearBit
  BY <1>4 DEF ClearBit, BitAfter, LastAfter, answers, TypeOK, LookInv, Ahead
<1> QED BY <1>1, <1>2, <1>3, <1>4 DEF Watchdog

LEMMA WatchNext == IInv /\ [Next]_vars => IInv'
<1>1. IInv /\ (Plug \/ UNCHANGED vars) => IInv'
  BY DEF Plug, vars, watchVars, answers, IInv, TypeOK, LookInv, Ahead
<1> QED BY <1>1, MasterKeeps, WatchdogKeeps DEF Next

(* Of TypeOK: the counter in its range, the tasks at one of their steps.   *)
THEOREM TypeCorrect == Spec => []TypeOK
<1>1. IInv => TypeOK
  BY DEF IInv
<1> QED BY <1>1, InitWatch, WatchNext, PTL DEF Spec

(* mn_watchdog_task clears the flag and the bit only after two looks       *)
(* between which mn_do_transaction counted nothing: whatever the width of  *)
(* the counter, as long as the answers between two looks stay below it,    *)
(* and wherever the master is when the watchdog looks, compares or clears. *)
THEOREM SilenceAlone == Spec => []OnlySilenceClears
<1>1. IInv => OnlySilenceClears
  BY AheadTyped DEF IInv, TypeOK, LookInv, OnlySilenceClears
<1> QED BY <1>1, InitWatch, WatchNext, PTL DEF Spec
==============================================================================
