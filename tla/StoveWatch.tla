----------------------------- MODULE StoveWatch ------------------------------
(***************************************************************************)
(* Is the stove there?  The end of mn_do_transaction counts each answer    *)
(* and sets mn_snapshot.online and STOVE_ONLINE_BIT; mn_watchdog_task      *)
(* wakes every five seconds and clears both when the count stood still.    *)
(* The flag is what MQTT and the web UI show, the bit what the LEDs show.  *)
(* Each is written by both tasks, the flag under mn_mutex and the bit      *)
(* outside it; an attempt to take mn_mutex can run into its timeout when a *)
(* dump of the registers holds it.                                         *)
(***************************************************************************)
EXTENDS Naturals

CONSTANTS
  CountRange,   \* values of rx_frames_count, 2^32 in the code
  MaxAnswers,   \* answers the stove can give between two looks of the watchdog
  MaxBusy       \* bound: timeouts of mn_mutex in a behaviour

(* A transaction takes more than 50 ms, so that 2^32 of them do not fit    *)
(* between two looks.                                                      *)
ASSUME AnswersAssumption ==
  /\ CountRange \in Nat
  /\ MaxAnswers \in Nat \ {0}
  /\ MaxAnswers < CountRange
ASSUME BoundAssumption == MaxBusy \in Nat

VARIABLES
  up,               \* the stove answers
  rx_frames_count, online,   \* of mn_snapshot, under mn_mutex
  online_bit,       \* STOVE_ONLINE_BIT
  master,           \* "wait" for an answer, then "count" it and "set" the bit
  watchdog,         \* "sleep", "compare", "clear" the flag and then the "bit"
  cur, last_rx_count,
  polled,           \* a transaction ended since the watchdog went to sleep
  fresh, heard,     \* history: answers counted since the watchdog's last look,
                    \* and between that look and the one before it
  busy              \* how much of MaxBusy is used up

watchVars == <<watchdog, cur, last_rx_count>>
answers == <<fresh, heard>>
vars == <<up, rx_frames_count, online, online_bit, master, watchVars, polled, answers, busy>>

Init ==
  /\ up \in BOOLEAN
  /\ rx_frames_count = 0
  /\ online = FALSE
  /\ online_bit = FALSE
  /\ master = "wait"
  /\ watchdog = "sleep"
  /\ cur = 0
  /\ last_rx_count = 0
  /\ polled = FALSE
  /\ fresh = 0
  /\ heard = 0
  /\ busy = 0

(* mn_mutex is not free in time. *)
Busy == busy < MaxBusy /\ busy' = busy + 1

------------------------------------------------------------------------------
(* The end of mn_do_transaction, on the master task. *)

(* Mutant: the answer is not counted. *)
CountUnchanged == rx_frames_count

NextCount == (rx_frames_count + 1) % CountRange

GetAnswer ==
  /\ master = "wait"
  /\ up
  /\ fresh < MaxAnswers
  /\ master' = "count"
  /\ UNCHANGED <<up, rx_frames_count, online, online_bit, watchVars, polled, answers, busy>>

GetNoAnswer ==
  /\ master = "wait"
  /\ ~up
  /\ polled' = TRUE
  /\ UNCHANGED <<up, rx_frames_count, online, online_bit, master, watchVars, answers, busy>>

CountAnswer ==
  /\ master = "count"
  /\ master' = "set"
  /\ \/ rx_frames_count' = NextCount /\ online' = TRUE /\ fresh' = fresh + 1 /\ UNCHANGED busy
     \/ Busy /\ UNCHANGED <<rx_frames_count, online, fresh>>
  /\ polled' = TRUE
  /\ UNCHANGED <<up, online_bit, watchVars, heard>>

SetBit ==
  /\ master = "set"
  /\ master' = "wait"
  /\ online_bit' = TRUE
  /\ UNCHANGED <<up, rx_frames_count, online, watchVars, polled, answers, busy>>

Master == GetAnswer \/ GetNoAnswer \/ CountAnswer \/ SetBit

------------------------------------------------------------------------------
(* mn_watchdog_task.  Five seconds are longer than a transaction, echo and *)
(* timeouts included, and the delay between two of them: the master ends   *)
(* one while the watchdog sleeps, unless poll_interval_ms is set to more   *)
(* than half of its range.                                                 *)
Wake ==
  /\ watchdog = "sleep"
  /\ polled \/ fresh = MaxAnswers
  /\ \/ /\ cur' = rx_frames_count
        /\ watchdog' = "compare"
        /\ heard' = fresh
        /\ fresh' = 0
        /\ UNCHANGED <<polled, busy>>
     \/ Busy /\ polled' = FALSE /\ UNCHANGED <<cur, watchdog, answers>>
  /\ UNCHANGED <<up, rx_frames_count, online, online_bit, master, last_rx_count>>

(* Mutant: any answer ever is good enough. *)
NeverAnswered == cur = 0

NoNewAnswer == cur = last_rx_count

(* Mutant: the counter is read again, after the answers of the meantime.   *)
LastAfterReread == rx_frames_count

(* "last_rx_count = cur", at the end of a round of either outcome. *)
LastAfter == cur

Compare ==
  /\ watchdog = "compare"
  /\ IF NoNewAnswer
     THEN watchdog' = "clear" /\ UNCHANGED <<last_rx_count, polled>>
     ELSE watchdog' = "sleep" /\ last_rx_count' = LastAfter /\ polled' = FALSE
  /\ UNCHANGED <<up, rx_frames_count, online, online_bit, master, cur, busy, answers>>

ClearOnline ==
  /\ watchdog = "clear"
  /\ watchdog' = "bit"
  /\ \/ online' = FALSE /\ UNCHANGED busy
     \/ Busy /\ UNCHANGED online
  /\ UNCHANGED <<up, rx_frames_count, online_bit, master, cur, last_rx_count, polled, answers>>

(* Mutant: the bit is left to the master. *)
BitAfterKept == online_bit

BitAfter == FALSE

ClearBit ==
  /\ watchdog = "bit"
  /\ watchdog' = "sleep"
  /\ online_bit' = BitAfter
  /\ last_rx_count' = LastAfter
  /\ polled' = FALSE
  /\ UNCHANGED <<up, rx_frames_count, online, master, cur, busy, answers>>

Watchdog == Wake \/ Compare \/ ClearOnline \/ ClearBit

------------------------------------------------------------------------------
(* The stove is switched off, unplugged, plugged in again. *)
Plug ==
  /\ up' = ~up
  /\ UNCHANGED <<rx_frames_count, online, online_bit, master, watchVars, polled, answers, busy>>

Next == Master \/ Watchdog \/ Plug

Spec == Init /\ [][Next]_vars

(* Both tasks run for ever. *)
FairSpec == Spec /\ WF_vars(Master) /\ WF_vars(Watchdog)

------------------------------------------------------------------------------
TypeOK ==
  /\ up \in BOOLEAN
  /\ rx_frames_count \in 0 .. CountRange - 1
  /\ online \in BOOLEAN
  /\ online_bit \in BOOLEAN
  /\ master \in {"wait", "count", "set"}
  /\ watchdog \in {"sleep", "compare", "clear", "bit"}
  /\ cur \in 0 .. CountRange - 1
  /\ last_rx_count \in 0 .. CountRange - 1
  /\ polled \in BOOLEAN
  /\ fresh \in 0 .. MaxAnswers /\ heard \in 0 .. MaxAnswers
  /\ busy \in 0 .. MaxBusy

(* The watchdog takes the stove offline only when not one answer was       *)
(* counted between its last two looks at the counter: none that comes      *)
(* while it waits for the mutex, compares or clears is forgotten, and a    *)
(* wrap of the counter is not taken for silence.  (An answer the master    *)
(* could not count, because mn_mutex ran into its timeout, counts for      *)
(* nothing here: the watchdog cannot tell it from silence either.)         *)
OnlySilenceClears == watchdog \in {"clear", "bit"} => heard = 0

(* micronova.c, the watchdog: "no byte received for 5s = stove offline": a *)
(* stove that stays away is shown offline, by flag and bit, in the end.    *)
OfflineSeen == <>[]~up => <>[](~online /\ ~online_bit)

(* The flag that MQTT and the web UI show and the bit that the LEDs show   *)
(* may part for a while, when one task comes between the two writes of the *)
(* other or a timeout skips one of them: they meet again.                  *)
FlagMeetsBit == (online # online_bit) ~> (online = online_bit)

(* A stove that answers from some time on is shown online for good in the  *)
(* end: no stale count of the watchdog takes it offline.                   *)
OnlineSeen == <>[]up => <>[](online /\ online_bit)
==============================================================================
