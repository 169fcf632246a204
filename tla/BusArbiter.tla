----------------------------- MODULE BusArbiter ------------------------------
(***************************************************************************)
(* Who uses the stove's UART, and when: the master task of micronova.c,    *)
(* and the debug sessions that run on the HTTP server task and ask it to   *)
(* stand aside with mn_sniffer_pause.  Nothing but time keeps them apart:  *)
(* a session raises the flag, waits a fixed delay for the master to finish *)
(* what it does, and takes the line; the master looks at the flag at the   *)
(* top of its loop.  Time is counted in ticks of 50 ms.                    *)
(***************************************************************************)
EXTENDS Naturals

CONSTANTS
  AnswerTicks,    \* how long a transaction can take when the stove answers
  SilentTicks,    \* how long when it does not (MN_TIMEOUT_MS), 0 if it always does
  Sessions,       \* the sessions: [clear, settle, use], each a number of ticks
  MaxSessions,    \* bound: sessions in a behaviour
  MaxWrites       \* bound: writes queued in a behaviour

Session == [clear : Nat, settle : Nat \ {0}, use : Nat \ {0}]

ASSUME TicksAssumption ==
  /\ AnswerTicks \in Nat \ {0}
  /\ SilentTicks \in Nat
  /\ Sessions \subseteq Session
  /\ MaxSessions \in Nat
  /\ MaxWrites \in Nat

VARIABLES
  mn_sniffer_pause,
  master,    \* what mn_slave_task does: nap, write, gap, poll or delay
  mleft,     \* ticks until it is done with that
  phase,     \* what the session does: none, clear, settle or use
  sleft,     \* ticks until it is done with that
  session,   \* the session
  queued,    \* writes in the queue
  slow,      \* history: this turn of the loop wrote, or waits for a silent stove
  sessions, writes   \* how much of the bounds is used up

masterVars == <<master, mleft>>
sessionVars == <<phase, sleft, session, sessions>>
vars == <<mn_sniffer_pause, masterVars, sessionVars, queued, slow, writes>>

Init ==
  /\ mn_sniffer_pause = FALSE
  /\ master = "delay"
  /\ mleft = 0
  /\ phase = "none"
  /\ sleft = 0
  /\ session \in Sessions
  /\ queued = 0
  /\ slow = FALSE
  /\ sessions = 0
  /\ writes = 0

------------------------------------------------------------------------------
(* mn_slave_task *)

MasterIs(m, t) == master' = m /\ mleft' = t

(* How long one transaction may take. *)
Silence == IF SilentTicks = 0 THEN {} ELSE {SilentTicks}
Transaction == 1 .. AnswerTicks \cup Silence

(* The drain loop, and one read when the queue is empty.  The flag is not  *)
(* looked at here.                                                         *)
Work(before) ==
  \E t \in Transaction :
    \/ queued > 0 /\ queued' = queued - 1 /\ MasterIs("write", t) /\ slow' = TRUE
    \/ /\ queued = 0
       /\ UNCHANGED queued
       /\ MasterIs("poll", t)
       /\ slow' = (before \/ t \in Silence)

(* Mutant: the flag is not looked at. *)
NeverStandsAside == FALSE

StandsAside == mn_sniffer_pause

(* The top of the loop. *)
LoopTop ==
  /\ master \in {"nap", "delay"}
  /\ mleft = 0
  /\ \/ StandsAside /\ MasterIs("nap", 4) /\ UNCHANGED <<queued, slow>>
     \/ ~StandsAside /\ Work(FALSE)
  /\ UNCHANGED <<mn_sniffer_pause, sessionVars, writes>>

WriteDone ==
  /\ master = "write"
  /\ mleft = 0
  /\ MasterIs("gap", 1)
  /\ UNCHANGED <<mn_sniffer_pause, sessionVars, queued, slow, writes>>

GapDone ==
  /\ master = "gap"
  /\ mleft = 0
  /\ Work(slow)
  /\ UNCHANGED <<mn_sniffer_pause, sessionVars, writes>>

(* poll_interval_ms, 150 unless a user changed it. *)
PollDone ==
  /\ master = "poll"
  /\ mleft = 0
  /\ MasterIs("delay", 3)
  /\ UNCHANGED <<mn_sniffer_pause, sessionVars, queued, slow, writes>>

Master == LoopTop \/ WriteDone \/ GapDone \/ PollDone

------------------------------------------------------------------------------
(* A debug session. *)

PhaseIs(p, t) == phase' = p /\ sleft' = t

(* mn_raw_tx_ex and mn_addr_scan first clear a flag left by a session that *)
(* never ended; the others raise it at once.                               *)
Begin(s) ==
  /\ phase = "none"
  /\ sessions < MaxSessions
  /\ sessions' = sessions + 1
  /\ session' = s
  /\ IF s.clear > 0
     THEN mn_sniffer_pause' = FALSE /\ PhaseIs("clear", s.clear)
     ELSE mn_sniffer_pause' = TRUE /\ PhaseIs("settle", s.settle)
  /\ UNCHANGED <<masterVars, queued, slow, writes>>

Raise ==
  /\ phase = "clear"
  /\ sleft = 0
  /\ mn_sniffer_pause' = TRUE
  /\ PhaseIs("settle", session.settle)
  /\ UNCHANGED <<masterVars, session, sessions, queued, slow, writes>>

(* uart_flush, and the line is the session's. *)
TakeLine ==
  /\ phase = "settle"
  /\ sleft = 0
  /\ PhaseIs("use", session.use)
  /\ UNCHANGED <<mn_sniffer_pause, masterVars, session, sessions, queued, slow, writes>>

(* Mutant: the session ends without lowering the flag. *)
FlagAfterKept == mn_sniffer_pause

FlagAfter == FALSE

End ==
  /\ phase = "use"
  /\ sleft = 0
  /\ mn_sniffer_pause' = FlagAfter
  /\ PhaseIs("none", 0)
  /\ UNCHANGED <<masterVars, session, sessions, queued, slow, writes>>

SessionStep == Raise \/ TakeLine \/ End

------------------------------------------------------------------------------
(* Mutant: room for eight. *)
HasRoomForEight == queued <= 7

HasRoom == queued < 7

(* mn_write_register on any task. *)
QueueWrite ==
  /\ writes < MaxWrites
  /\ writes' = writes + 1
  /\ queued' = IF HasRoom THEN queued + 1 ELSE queued
  /\ UNCHANGED <<mn_sniffer_pause, masterVars, sessionVars, slow>>

(* A delay of FreeRTOS has run out: the task goes on before the next tick. *)
Busy == mleft > 0 /\ (phase = "none" \/ sleft > 0)

Tick ==
  /\ Busy
  /\ mleft' = mleft - 1
  /\ sleft' = IF phase = "none" THEN 0 ELSE sleft - 1
  /\ UNCHANGED <<mn_sniffer_pause, master, phase, session, sessions, queued, slow, writes>>

Next ==
  \/ Tick
  \/ Master
  \/ \E s \in Sessions : Begin(s)
  \/ SessionStep
  \/ QueueWrite

Spec == Init /\ [][Next]_vars

(* Time passes, and the tasks run when their delays are over. *)
FairSpec ==
  Spec /\ WF_vars(Tick) /\ WF_vars(Master) /\ WF_vars(SessionStep)

------------------------------------------------------------------------------
TypeOK ==
  /\ mn_sniffer_pause \in BOOLEAN
  /\ master \in {"nap", "write", "gap", "poll", "delay"}
  /\ mleft \in Nat
  /\ phase \in {"none", "clear", "settle", "use"}
  /\ sleft \in Nat
  /\ session \in Session
  /\ queued \in 0 .. 7
  /\ slow \in BOOLEAN
  /\ sessions \in Nat
  /\ writes \in Nat

(* micronova.c: "when true the master task stops polling so                *)
(* /debug/uart-sniffer has an exclusive read on the UART".  A read that    *)
(* the stove answers, in a turn that found no write queued, is over before *)
(* a session uses the line.                                                *)
PromptReadOver == phase = "use" /\ ~slow => master \notin {"write", "poll"}

(* Once the debug sessions are over the master polls the stove for ever    *)
(* and no write stays in the queue.                                        *)
PollsResume == []<>(master = "poll")
WritesDrain == queued > 0 ~> queued = 0
==============================================================================
