--------------------------- MODULE OtaSlots_proofs ----------------------------
(***************************************************************************)
(* The boots, for every width of the crash counter, every healthy time and *)
(* every number of boots.  First safe mode, of module BootGuard: the boot  *)
(* loop is detected, a request is honoured, and nothing else leads to a    *)
(* safe boot.  Then the two firmware slots of module OtaSlots, with and    *)
(* without the rollback of the bootloader: there is always an image to     *)
(* boot, a refused image stays out, and safe mode is none the worse for    *)
(* it.                                                                     *)
(***************************************************************************)
EXTENDS OtaSlots, TLAPS

------------------------------------------------------------------------------
(* Safe mode. *)

LEMMA Limits ==
  /\ HEALTHY_TICKS \in Nat /\ HEALTHY_TICKS >= 1
  /\ CRASH_LIMIT \in Nat /\ CRASH_LIMIT >= 1
  /\ CRASH_CNT_MOD \in Nat /\ CRASH_LIMIT < CRASH_CNT_MOD
  /\ 0 \in 0 .. HEALTHY_TICKS /\ 0 \in 0 .. CRASH_CNT_MOD - 1
  BY LimitAssumption

(* The uint8_t counter counts up until it wraps. *)
LEMMA CountsUp ==
  ASSUME NEW n \in 0 .. CRASH_CNT_MOD - 1
  PROVE  /\ (n + 1) % CRASH_CNT_MOD \in 0 .. CRASH_CNT_MOD - 1
         /\ n + 1 < CRASH_CNT_MOD => (n + 1) % CRASH_CNT_MOD = n + 1
  BY Limits

LEMMA InitInv == Init => BootInv
<1> SUFFICES ASSUME Init PROVE BootInv
  OBVIOUS
<1>1. TypeOK
  BY Limits DEF Init, TypeOK, Phases, Requests, Pending
<1>3. CounterInv
  BY DEF Init, CounterInv
<1>4. RequestInv
  BY DEF Init, RequestInv, Decided
<1> QED BY <1>1, <1>3, <1>4 DEF BootInv

LEMMA TypeNext == TypeOK /\ [Next]_vars => TypeOK'
<1> SUFFICES ASSUME TypeOK, [Next]_vars PROVE TypeOK'
  OBVIOUS
<1> USE Limits
    DEF TypeOK, nvsVars, bootVars, loopVars, historyVars, Phases, Requests, Pending
<1>1. CASE Boot
  <2>1. /\ crash_count' \in 0 .. CRASH_CNT_MOD - 1
        /\ healthy_ticks' \in Nat
        /\ boots' \in Nat
    BY <1>1 DEF Boot
  <2>2. /\ manual' \in BOOLEAN /\ safe_boot' \in BOOLEAN /\ bridges' \in BOOLEAN
        /\ wifi' \in BOOLEAN /\ app_marked_valid' \in BOOLEAN
    BY <1>1 DEF Boot
  <2> QED BY <1>1, <2>1, <2>2 DEF Boot
<1>2. CASE CountBoot
  BY <1>2, CountsUp DEF CountBoot, NextCrashCnt
<1>3. CASE ReadRtc
  <2>1. manual' \in BOOLEAN /\ rtc_safe' \in BOOLEAN
    BY <1>3 DEF ReadRtc
  <2> QED BY <1>3, <2>1 DEF ReadRtc
<1>4. CASE ReadSafeflag
  <2>1. manual' \in BOOLEAN /\ safeflag' \in BOOLEAN
    BY <1>4 DEF ReadSafeflag
  <2> QED BY <1>4, <2>1 DEF ReadSafeflag
<1>5. CASE Decide
  BY <1>5 DEF Decide, BootLoop
<1>6. CASE StartServices
  BY <1>6 DEF StartServices
<1>7. CASE EndWifiWait
  BY <1>7 DEF EndWifiWait
<1>8. CASE CountHealthy
  BY <1>8 DEF CountHealthy
<1>9. CASE MarkHealthy
  <2>1. healthy_ticks' \in Nat
    BY <1>9 DEF MarkHealthy
  <2>2. crash_cnt' \in 0 .. CRASH_CNT_MOD - 1
    BY <1>9 DEF MarkHealthy
  <2> QED BY <1>9, <2>1, <2>2 DEF MarkHealthy
<1>10. CASE LoseHealth
  BY <1>10 DEF LoseHealth
<1>11. CASE WifiChange
  BY <1>11 DEF WifiChange
<1>12. CASE Provision
  BY <1>12 DEF Provision
<1>13. CASE PostSafeMode
  BY <1>13 DEF PostSafeMode
<1>14. CASE CommitSafeflag
  BY <1>14 DEF CommitSafeflag
<1>15. ASSUME NEW powered \in BOOLEAN, Reset(powered) PROVE TypeOK'
  <2>1. RequestAfter(powered) \in Requests
    BY DEF RequestAfter
  <2>2. /\ request' \in Requests
        /\ poster' \in {"none", "posted", "committed"}
        /\ phase' \in Phases
    BY <1>15, <2>1 DEF Reset
  <2>3. unhealthy' \in Nat
    BY <1>15 DEF Reset
  <2>4. rtc_safe' \in BOOLEAN /\ wifi' \in BOOLEAN
    BY <1>15 DEF Reset
  <2> QED BY <1>15, <2>2, <2>3, <2>4 DEF Reset
<1>16. CASE UNCHANGED vars
  BY <1>16 DEF vars
<1> QED
  BY <1>1, <1>2, <1>3, <1>4, <1>5, <1>6, <1>7, <1>8, <1>9, <1>10, <1>11, <1>12, <1>13,
     <1>14, <1>15, <1>16
     DEF Next, AppMain, MainLoop, Restart, PowerCut

LEMMA CounterNext == BootInv /\ [Next]_vars => CounterInv'
<1> SUFFICES ASSUME BootInv, [Next]_vars PROVE CounterInv'
  OBVIOUS
<1> USE Limits
    DEF BootInv, TypeOK, CounterInv, nvsVars, bootVars, loopVars, historyVars, Phases
<1>1. CASE Boot
  BY <1>1 DEF Boot
<1>2. CASE CountBoot
  BY <1>2, CountsUp DEF CountBoot, NextCrashCnt
<1>3. CASE ReadRtc \/ ReadSafeflag \/ Decide
  BY <1>3 DEF ReadRtc, ReadSafeflag, Decide
<1>4. CASE StartServices
  BY <1>4 DEF StartServices
<1>5. CASE EndWifiWait
  BY <1>5 DEF EndWifiWait
<1>6. CASE CountHealthy \/ LoseHealth
  BY <1>6 DEF CountHealthy, LoseHealth
<1>7. CASE MarkHealthy
  BY <1>7 DEF MarkHealthy
<1>8. CASE WifiChange \/ Provision \/ PostSafeMode \/ CommitSafeflag
  BY <1>8 DEF WifiChange, Provision, PostSafeMode, CommitSafeflag
<1>9. ASSUME NEW powered \in BOOLEAN, Reset(powered) PROVE CounterInv'
  BY <1>9 DEF Reset
<1>10. CASE UNCHANGED vars
  BY <1>10 DEF vars
<1> QED
  BY <1>1, <1>2, <1>3, <1>4, <1>5, <1>6, <1>7, <1>8, <1>9, <1>10
     DEF Next, AppMain, MainLoop, Restart, PowerCut

LEMMA RequestNext == BootInv /\ [Next]_vars => RequestInv'
<1> SUFFICES ASSUME BootInv, [Next]_vars PROVE RequestInv'
  OBVIOUS
<1> USE DEF BootInv, TypeOK, RequestInv, Decided, Pending, Requests,
            nvsVars, bootVars, loopVars, historyVars, Phases
<1>1. CASE Boot
  BY <1>1 DEF Boot
<1>2. CASE CountBoot
  BY <1>2 DEF CountBoot
<1>3. CASE ReadRtc
  BY <1>3 DEF ReadRtc
<1>4. CASE ReadSafeflag
  BY <1>4 DEF ReadSafeflag
<1>5. CASE Decide
  BY <1>5 DEF Decide, BootLoop
<1>6. CASE StartServices
  BY <1>6 DEF StartServices
<1>7. CASE EndWifiWait
  BY <1>7 DEF EndWifiWait
<1>8. CASE MainLoop
  BY <1>8 DEF MainLoop, CountHealthy, MarkHealthy, LoseHealth
<1>9. CASE WifiChange \/ Provision
  BY <1>9 DEF WifiChange, Provision
<1>10. CASE PostSafeMode
  BY <1>10 DEF PostSafeMode, Serving
<1>11. CASE CommitSafeflag
  BY <1>11 DEF CommitSafeflag
<1>12. ASSUME NEW powered \in BOOLEAN, Reset(powered) PROVE RequestInv'
  <2>1. CASE request' = "committed"
    BY <1>12, <2>1 DEF Reset, RequestAfter, Cleared
  <2>2. CASE request' = "answered"
    BY <1>12, <2>2 DEF Reset, RequestAfter, Cleared
  <2>3. CASE request' \in {"none", "lost"}
    BY <1>12, <2>3 DEF Reset, RequestAfter, Cleared
  <2>4. request' \in Requests
    BY <1>12 DEF Reset, RequestAfter
  <2> QED BY <2>1, <2>2, <2>3, <2>4
<1>13. CASE UNCHANGED vars
  BY <1>13 DEF vars
<1> QED
  BY <1>1, <1>2, <1>3, <1>4, <1>5, <1>6, <1>7, <1>8, <1>9, <1>10, <1>11, <1>12, <1>13
     DEF Next, AppMain, Restart, PowerCut

(* Wherever resets cut the boots, the stored counter, its copy in app_main *)
(* and the unhealthy boots since the last healthy one go together, and a   *)
(* request is where the next boot looks for it.                            *)
THEOREM BootInvariant == Spec => []BootInv
<1>1. BootInv /\ [Next]_vars => BootInv'
  BY TypeNext, CounterNext, RequestNext DEF BootInv
<1> QED BY <1>1, InitInv, PTL DEF Spec

(* Whatever resets the module, and when, a boot loop of CRASH_LIMIT        *)
(* unhealthy boots or more puts the next boot in safe mode, for as long as *)
(* the uint8_t counter has not wrapped.                                    *)
THEOREM LoopIsDetected == Spec => []LoopDetected
<1>1. BootInv => LoopDetected
  <2> SUFFICES ASSUME BootInv, Decided, unhealthy \in CRASH_LIMIT .. CRASH_CNT_MOD - 1
               PROVE  safe_boot
    BY DEF LoopDetected
  <2>1. ~app_marked_valid
    BY Limits DEF BootInv, TypeOK, CounterInv, Decided
  <2>2. crash_count = unhealthy
    BY <2>1, CountsUp, Limits DEF BootInv, TypeOK, CounterInv, Decided
  <2> QED BY <2>2, Limits DEF BootInv, TypeOK, RequestInv
<1> QED BY <1>1, BootInvariant, PTL

(* Whatever resets came between, and wherever, a request of safe mode is   *)
(* honoured by the next boot that decides: all but one that was in RTC     *)
(* memory alone at a power cut, and one whose last flag a boot had cleared *)
(* when it was reset before it decided.                                    *)
THEOREM RequestIsHonoured == Spec => []RequestHonoured
<1>1. BootInv => RequestHonoured
  BY DEF BootInv, RequestInv, RequestHonoured
<1> QED BY <1>1, BootInvariant, PTL

(* No boot is safe without a request or a boot loop behind it: the two     *)
(* copies of one request are both gone once it is honoured.                *)
THEOREM SafeHasCause == Spec => []SafeForCause
<1>1. BootInv => SafeForCause
  <2> SUFFICES ASSUME BootInv, Decided, safe_boot, ~app_marked_valid,
                      due \notin Pending
               PROVE  unhealthy >= CRASH_LIMIT
    BY DEF SafeForCause
  <2>1. /\ crash_count >= CRASH_LIMIT
        /\ unhealthy < CRASH_CNT_MOD => crash_count = unhealthy
    BY DEF BootInv, RequestInv, CounterInv, Decided
  <2> QED BY <2>1, Limits DEF BootInv, TypeOK
<1> QED BY <1>1, BootInvariant, PTL

------------------------------------------------------------------------------
(* The steps of the module as the slots see them. *)

(* Boots, ota_init, requests and resets that no action of ota.c is part of. *)
Quiet == UNCHANGED slotVars /\ (On' => On)

LEMMA Steps ==
  [SlotNext]_allVars =>
    \/ BootSlot /\ ~On /\ On'
    \/ MarkValid /\ On /\ On'
    \/ AskPull /\ On /\ On'
    \/ \E w \in Ways :
         /\ BeginUpdate(w) \/ FailUpdate(w) \/ Receive(w) \/ ReceiveAll(w) \/ EndUpdate(w)
         /\ On /\ On'
    \/ Rollback /\ On /\ ~On'
    \/ Quiet
<1> SUFFICES ASSUME [SlotNext]_allVars
             PROVE  \/ BootSlot /\ ~On /\ On'
                    \/ MarkValid /\ On /\ On'
                    \/ AskPull /\ On /\ On'
                    \/ \E w \in Ways :
                         /\ \/ BeginUpdate(w) \/ FailUpdate(w) \/ Receive(w)
                            \/ ReceiveAll(w) \/ EndUpdate(w)
                         /\ On /\ On'
                    \/ Rollback /\ On /\ ~On'
                    \/ Quiet
  OBVIOUS
<1> USE DEF On
<1>1. CASE BootSlot
  BY <1>1 DEF BootSlot, Boot
<1>2. CASE OtaInit
  BY <1>2 DEF OtaInit, CountBoot, Quiet, slotVars
<1>3. CASE MarkValid
  BY <1>3 DEF MarkValid, MarkHealthy
<1>4. CASE OtherAppMain
  BY <1>4 DEF OtherAppMain, Quiet, ReadRtc, ReadSafeflag, Decide, StartServices, EndWifiWait,
              CountHealthy, LoseHealth
<1>5. CASE AskPull
  BY <1>5 DEF AskPull, WebFree, Serving, vars
<1>6. ASSUME NEW w \in Ways,
             BeginUpdate(w) \/ FailUpdate(w) \/ Receive(w) \/ ReceiveAll(w) \/ EndUpdate(w)
      PROVE  On /\ On'
  BY <1>6 DEF BeginUpdate, FailUpdate, Receive, ReceiveAll, EndUpdate, Serving, vars
<1>7. CASE Rollback
  BY <1>7 DEF Rollback, Serving, Restart, Reset
<1>8. CASE OtherSteps
  BY <1>8 DEF OtherSteps, Quiet, WifiChange, CommitSafeflag, Restart, PowerCut, Reset, WebFree,
              Serving, Provision, PostSafeMode
<1>9. CASE UNCHANGED allVars
  BY <1>9 DEF allVars, vars, Quiet
<1> QED
  BY <1>1, <1>2, <1>3, <1>4, <1>5, <1>6, <1>7, <1>8, <1>9 DEF SlotNext, SlotAppMain, UpdateStep

LEMMA SlotFacts ==
  /\ Slots = {0, 1} /\ Ways = {"upload", "pull"}
  /\ \A s \in Slots : Other(s) \in Slots /\ Other(s) # s /\ Other(Other(s)) = s
  /\ \A s, t \in Slots : t = s \/ t = Other(s)
  BY DEF Slots, Ways, Other

(* What a boot does to otadata, without the CASE. *)
LEMMA BootRecords ==
  ASSUME BootSlot
  PROVE  /\ state' = [s \in Slots |->
              IF s = newest /\ Expired(s) THEN "aborted"
              ELSE IF s = BootChoice /\ RollbackEnabled /\ state[s] = "new" THEN "pending"
              ELSE state[s]]
  <1>1. \A s \in Slots :
          (CASE s = newest /\ Expired(s) -> "aborted"
             [] s = BootChoice /\ RollbackEnabled /\ state[s] = "new" -> "pending"
             [] OTHER -> state[s])
          = IF s = newest /\ Expired(s) THEN "aborted"
            ELSE IF s = BootChoice /\ RollbackEnabled /\ state[s] = "new" THEN "pending"
            ELSE state[s]
    BY Zenon DEF Expired
  <1> QED BY <1>1, Zenon DEF BootSlot

LEMMA ReceivedImage ==
  ASSUME NEW w \in Ways, ReceiveAll(w)
  PROVE  \/ image' = [image EXCEPT ![Other(running)] = "good"]
         \/ overlapped /\ image' = [image EXCEPT ![Other(running)] = "partial"]
  <1>1. PICK result \in IF overlapped THEN {"good", "partial"} ELSE {"good"} :
          image' = [image EXCEPT ![Other(running)] = result]
    BY Zenon DEF ReceiveAll
  <1>2. result = "good" \/ (overlapped /\ result = "partial")
    BY <1>1
  <1> QED BY <1>1, <1>2, Zenon

LEMMA TypeStep == SlotTypeOK /\ [SlotNext]_allVars => SlotTypeOK'
<1> SUFFICES ASSUME SlotTypeOK, [SlotNext]_allVars PROVE SlotTypeOK'
  OBVIOUS
<1> USE SlotFacts, OptionAssumption DEF SlotTypeOK
<1>1. CASE BootSlot
  <2>1. BootChoice \in Slots /\ BootRun \in Slots
    BY DEF BootChoice, BootRun
  <2>2. state' \in [Slots -> {"none", "undefined", "new", "pending", "valid", "invalid", "aborted"}]
    BY <1>1, BootRecords
  <2> QED BY <1>1, <2>1, <2>2 DEF BootSlot
<1>2. CASE MarkValid
  BY <1>2 DEF MarkValid, MarkedState
<1>3. CASE AskPull
  BY <1>3 DEF AskPull
<1>4. ASSUME NEW w \in Ways,
             BeginUpdate(w) \/ FailUpdate(w) \/ Receive(w) \/ ReceiveAll(w) \/ EndUpdate(w)
      PROVE  SlotTypeOK'
  <2>1. CASE BeginUpdate(w)
    <3>1. overlapped' \in BOOLEAN
      BY <2>1 DEF BeginUpdate
    <3> QED BY <2>1, <3>1 DEF BeginUpdate
  <2>2. CASE FailUpdate(w)
    BY <2>2 DEF FailUpdate
  <2>3. CASE Receive(w)
    BY <2>3 DEF Receive
  <2>4. CASE ReceiveAll(w)
    <3>1. image' \in [Slots -> {"none", "partial", "good"}]
      BY <2>4, ReceivedImage
    <3> QED BY <2>4, <3>1 DEF ReceiveAll
  <2>5. CASE EndUpdate(w)
    BY <2>5 DEF EndUpdate
  <2> QED BY <1>4, <2>1, <2>2, <2>3, <2>4, <2>5
<1>5. CASE Rollback
  BY <1>5 DEF Rollback, Active
<1>6. CASE Quiet
  BY <1>6 DEF Quiet, slotVars
<1> QED BY <1>1, <1>2, <1>3, <1>4, <1>5, <1>6, Steps

(* The invariants at a boot: what the bootloader chooses, and from what.  *)
LEMMA BootChosen ==
  ASSUME SlotTypeOK, RecordInv, RunningInv
  PROVE  /\ BootChoice \in Slots /\ BootRun \in Slots
         /\ image[BootRun] = "good"
         /\ \A s \in Slots : s = newest /\ Expired(s) => BootRun # s
         /\ ~Refused(BootRun)
         /\ state[BootRun] = "new" => BootChoice = BootRun
  BY SlotFacts, OptionAssumption
     DEF SlotTypeOK, RecordInv, RunningInv, BootChoice, BootRun, Recorded, Expired, OnTrial,
         Refused

LEMMA RecordStep == SlotTypeOK /\ RecordInv /\ RunningInv /\ UpdateInv /\ [SlotNext]_allVars
                      => RecordInv'
<1> SUFFICES ASSUME SlotTypeOK, RecordInv, RunningInv, UpdateInv, [SlotNext]_allVars
             PROVE  RecordInv'
  OBVIOUS
<1> USE SlotFacts, OptionAssumption
    DEF SlotTypeOK, RecordInv, OnTrial, Refused
<1>1. CASE BootSlot /\ ~On /\ On'
  <2>1. image' = image /\ newest' = newest /\ running' = BootRun
    BY <1>1 DEF BootSlot
  <2>2. \A s \in Slots :
          \/ state'[s] = state[s]
          \/ state'[s] = "aborted" /\ s = newest /\ state[s] = "pending" /\ RollbackEnabled
          \/ state'[s] = "pending" /\ state[s] = "new" /\ RollbackEnabled
    BY <1>1, BootRecords DEF Expired
  <2>3. state[1] = "none" => BootRun = 0
    BY DEF BootRun, BootChoice, Recorded, Expired
  <2> QED BY <2>1, <2>2, <2>3
<1>2. CASE MarkValid /\ On /\ On'
  BY <1>2 DEF MarkValid, MarkedState, Active, Recorded, RunningInv
<1>3. CASE AskPull /\ On /\ On'
  BY <1>3 DEF AskPull
<1>4. ASSUME NEW w \in Ways, On, On',
             BeginUpdate(w) \/ FailUpdate(w) \/ Receive(w) \/ ReceiveAll(w) \/ EndUpdate(w)
      PROVE  RecordInv'
  <2>1. CASE BeginUpdate(w)
    BY <1>4, <2>1 DEF BeginUpdate, BeginRefused, RunningInv
  <2>2. CASE FailUpdate(w)
    BY <1>4, <2>2 DEF FailUpdate
  <2>3. CASE Receive(w)
    BY <1>4, <2>3 DEF Receive, RunningInv, Under
  <2>4. CASE ReceiveAll(w)
    BY <1>4, <2>4, ReceivedImage DEF ReceiveAll, RunningInv, Under
  <2>5. CASE EndUpdate(w)
    BY <1>4, <2>5 DEF EndUpdate, RunningInv, Under, Verified
  <2> QED BY <1>4, <2>1, <2>2, <2>3, <2>4, <2>5
<1>5. CASE Rollback /\ On /\ ~On'
  BY <1>5 DEF Rollback, Active, RollbackPossible, Recorded, RunningInv
<1>6. CASE Quiet
  BY <1>6 DEF Quiet, slotVars
<1> QED BY <1>1, <1>2, <1>3, <1>4, <1>5, <1>6, Steps

LEMMA RunningStep == SlotTypeOK /\ RecordInv /\ RunningInv /\ [SlotNext]_allVars => RunningInv'
<1> SUFFICES ASSUME SlotTypeOK, RecordInv, RunningInv, [SlotNext]_allVars
             PROVE  RunningInv'
  OBVIOUS
<1> USE SlotFacts, OptionAssumption
    DEF SlotTypeOK, RunningInv, Refused, Under
<1>1. CASE BootSlot /\ ~On /\ On'
  BY <1>1, BootRecords, BootChosen DEF BootSlot, RecordInv, OnTrial
<1>2. CASE MarkValid /\ On /\ On'
  BY <1>2 DEF MarkValid, MarkedState
<1>3. CASE AskPull /\ On /\ On'
  BY <1>3 DEF AskPull
<1>4. ASSUME NEW w \in Ways, On, On',
             BeginUpdate(w) \/ FailUpdate(w) \/ Receive(w) \/ ReceiveAll(w) \/ EndUpdate(w)
      PROVE  RunningInv'
  <2>1. CASE BeginUpdate(w)
    BY <1>4, <2>1 DEF BeginUpdate, BeginRefused, RecordInv
  <2>2. CASE FailUpdate(w)
    BY <1>4, <2>2 DEF FailUpdate
  <2>3. CASE Receive(w)
    BY <1>4, <2>3 DEF Receive
  <2>4. CASE ReceiveAll(w)
    BY <1>4, <2>4, ReceivedImage DEF ReceiveAll
  <2>5. CASE EndUpdate(w)
    BY <1>4, <2>5 DEF EndUpdate
  <2> QED BY <1>4, <2>1, <2>2, <2>3, <2>4, <2>5
<1>5. CASE Rollback /\ On /\ ~On'
  BY <1>5 DEF Rollback
<1>6. CASE Quiet
  BY <1>6 DEF Quiet, slotVars
<1> QED BY <1>1, <1>2, <1>3, <1>4, <1>5, <1>6, Steps

(* Between boots the first choice is whole, when the invariants hold and   *)
(* nothing overlapped; and it is the running slot, or one that an update   *)
(* has just selected, as long as an image runs.                            *)
LEMMA FirstChoiceWhole ==
  ASSUME SlotTypeOK, RecordInv, RunningInv, UpdateInv, ~overlapped
  PROVE  image[BootChoice] = "good"
<1> USE SlotFacts, OptionAssumption
    DEF SlotTypeOK, BootChoice, Recorded, Expired
<1>1. CASE ~On
  BY <1>1 DEF UpdateInv
<1>2. CASE On /\ newest # running
  BY <1>2 DEF UpdateInv, RecordInv, RunningInv, Refused, OnTrial
<1>3. CASE On /\ newest = running
  BY <1>3 DEF RecordInv, RunningInv, Refused, OnTrial
<1> QED BY <1>1, <1>2, <1>3

LEMMA UpdatesStep == SlotTypeOK /\ RecordInv /\ RunningInv /\ UpdateInv /\ [SlotNext]_allVars
                      => UpdateInv'
<1> SUFFICES ASSUME SlotTypeOK, RecordInv, RunningInv, UpdateInv, [SlotNext]_allVars
             PROVE  UpdateInv'
  OBVIOUS
<1> USE SlotFacts, OptionAssumption
    DEF SlotTypeOK, Rebooting, Under, Recorded
<1>1. CASE BootSlot /\ ~On /\ On'
  <2>1. /\ image' = image /\ newest' = newest /\ running' = BootRun /\ overlapped' = overlapped
        /\ \A w \in Ways : update'[w] = "idle"
    BY <1>1 DEF BootSlot
  <2>2. newest = BootRun \/ ~Recorded(newest)' \/ overlapped
    BY <1>1, BootRecords, BootChosen DEF BootRun, BootChoice, UpdateInv, Expired, BootSlot
  <2> QED BY <1>1, <2>1, <2>2 DEF UpdateInv
<1>2. CASE MarkValid /\ On /\ On'
  BY <1>2 DEF MarkValid, MarkedState, Active, UpdateInv, RunningInv, Refused
<1>3. CASE AskPull /\ On /\ On'
  BY <1>3 DEF AskPull, UpdateInv
<1>4. ASSUME NEW w \in Ways, On, On',
             BeginUpdate(w) \/ FailUpdate(w) \/ Receive(w) \/ ReceiveAll(w) \/ EndUpdate(w)
      PROVE  UpdateInv'
  <2>1. CASE BeginUpdate(w)
    <3> SUFFICES ASSUME ~overlapped' PROVE UpdateInv'
      BY DEF UpdateInv
    <3>1. \A v \in Ways : ~Under(v)
      BY <2>1 DEF BeginUpdate
    <3>2. newest = running \/ ~Recorded(newest)
      BY <1>4, <2>1, <3>1 DEF BeginUpdate, UpdateInv
    <3>3. \A v \in Ways : update'[v] # "rebooting" /\ (Under(v)' => v = w)
      BY <2>1, <3>1 DEF BeginUpdate
    <3> QED BY <1>4, <2>1, <3>2, <3>3 DEF BeginUpdate, UpdateInv
  <2>2. CASE FailUpdate(w)
    BY <1>4, <2>2 DEF FailUpdate, UpdateInv
  <2>3. CASE Receive(w)
    BY <1>4, <2>3 DEF Receive, UpdateInv
  <2>4. CASE ReceiveAll(w)
    BY <1>4, <2>4, ReceivedImage DEF ReceiveAll, UpdateInv
  <2>5. CASE EndUpdate(w)
    BY <1>4, <2>5 DEF EndUpdate, Verified, UpdateInv
  <2> QED BY <1>4, <2>1, <2>2, <2>3, <2>4, <2>5
<1>5. CASE Rollback /\ On /\ ~On'
  <2>1. /\ image' = image /\ newest' = newest /\ running' = running
        /\ overlapped' = overlapped /\ update' = update
    BY <1>5 DEF Rollback
  <2>2. PICK s \in Active : RollbackPossible(s) /\ state' = [state EXCEPT ![s] = "invalid"]
    BY <1>5 DEF Rollback
  <2>3. image[BootChoice'] = "good"
    BY <2>1, <2>2 DEF Active, RollbackPossible, BootChoice, Expired, RecordInv, OnTrial, RunningInv
  <2> QED BY <1>5, <2>1, <2>3 DEF UpdateInv
<1>6. CASE Quiet
  <2>1. CASE On' \/ ~On
    BY <1>6, <2>1 DEF Quiet, slotVars, UpdateInv, BootChoice, Expired
  <2>2. CASE On /\ ~On' /\ ~overlapped
    BY <1>6, <2>2, FirstChoiceWhole DEF Quiet, slotVars, UpdateInv, BootChoice, Expired
  <2>3. CASE ~On' /\ overlapped
    BY <1>6, <2>3 DEF Quiet, slotVars, UpdateInv
  <2> QED BY <2>1, <2>2, <2>3
<1> QED BY <1>1, <1>2, <1>3, <1>4, <1>5, <1>6, Steps

LEMMA InvInit == SlotInit => SlotInv
<1> SUFFICES ASSUME SlotInit PROVE SlotInv
  OBVIOUS
<1> USE SlotFacts, OptionAssumption DEF SlotInit
<1>1. SlotTypeOK
  <2>1. image \in [Slots -> {"none", "partial", "good"}]
    OBVIOUS
  <2>2. overlapped \in BOOLEAN
    OBVIOUS
  <2> QED BY <2>1, <2>2 DEF SlotTypeOK
<1>2. RecordInv
  BY DEF RecordInv, OnTrial, Refused, On, Init
<1>3. RunningInv
  BY DEF RunningInv, On, Init
<1>4. UpdateInv
  BY DEF UpdateInv, Under, On, Init, BootChoice, Recorded
<1> QED BY <1>1, <1>2, <1>3, <1>4 DEF SlotInv

LEMMA InvStep == SlotInv /\ [SlotNext]_allVars => SlotInv'
  BY TypeStep, RecordStep, RunningStep, UpdatesStep DEF SlotInv

(* The state of the slots is well formed, and the records, the images and  *)
(* the updates under way fit together, over every boot, crash, power cut,  *)
(* update, validation and rollback (ota.c, app_main).                      *)
THEOREM SlotsConsistent == SlotSpec => []SlotInv
  BY InvInit, InvStep, PTL DEF SlotSpec

(* However an update, a rollback or a boot of ota.c is cut short, there is *)
(* a whole image to boot; the first choice, unless two updates overlapped. *)
THEOREM AlwaysBoots == SlotSpec => []NextBootWorks
<1>1. SlotInv => NextBootWorks
  <2> SUFFICES ASSUME SlotInv PROVE NextBootWorks
    OBVIOUS
  <2>1. image[IF phase = "off" THEN BootRun ELSE running] = "good"
    BY BootChosen DEF SlotInv, RunningInv, On
  <2>2. ~overlapped => image[BootChoice] = "good"
    BY FirstChoiceWhole DEF SlotInv
  <2> QED BY <2>1, <2>2 DEF NextBootWorks
<1> QED BY <1>1, SlotsConsistent, PTL

(* An image that ota_rollback or the bootloader refused does not run.      *)
THEOREM RefusedNeverRuns == SlotSpec => []RefusedStaysOut
<1>1. SlotInv => RefusedStaysOut
  BY DEF SlotInv, RunningInv, Refused, On, RefusedStaysOut
<1> QED BY <1>1, SlotsConsistent, PTL

------------------------------------------------------------------------------
(* Safe mode under updates: module OtaSlots implements module BootGuard.   *)

LEMMA SlotStepsAreBootSteps == [SlotNext]_allVars => [Next]_vars
<1> SUFFICES ASSUME [SlotNext]_allVars PROVE Next \/ UNCHANGED vars
  OBVIOUS
<1>1. CASE SlotAppMain
  BY <1>1 DEF SlotAppMain, BootSlot, OtaInit, MarkValid, OtherAppMain, Next, AppMain, MainLoop
<1>2. CASE UpdateStep
  BY <1>2 DEF UpdateStep, AskPull, BeginUpdate, FailUpdate, Receive, ReceiveAll, EndUpdate
<1>3. CASE Rollback
  BY <1>3 DEF Rollback, Next
<1>4. CASE OtherSteps
  BY <1>4 DEF OtherSteps, Next
<1>5. CASE UNCHANGED allVars
  BY <1>5 DEF allVars
<1> QED BY <1>1, <1>2, <1>3, <1>4, <1>5 DEF SlotNext

(* Whatever ota.c and the bootloader do with the slots is, to app_main's   *)
(* crash counter and its safe mode, a boot, a healthy minute, a restart or *)
(* nothing: every behaviour with updates is one of the boot guard.         *)
THEOREM UpdatesKeepBootGuard == SlotSpec => Spec
<1>1. SlotInit => Init
  BY DEF SlotInit
<1> QED BY <1>1, SlotStepsAreBootSteps, PTL DEF SlotSpec, Spec

(* Updates, uploads and rollbacks at any moment neither hide a boot loop   *)
(* from app_main nor lose a request of safe mode nor cause a safe boot.    *)
THEOREM SafeModeUnderUpdates == SlotSpec => [](LoopDetected /\ RequestHonoured /\ SafeForCause)
  BY UpdatesKeepBootGuard, LoopIsDetected, RequestIsHonoured, SafeHasCause, PTL
==============================================================================
