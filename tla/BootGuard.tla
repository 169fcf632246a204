------------------------------ MODULE BootGuard ------------------------------
(***************************************************************************)
(* The boot of app_main (main.c) and the two ways into safe mode: the      *)
(* crash counter kept in NVS ("bootcheck"/"crash_cnt") and the request of  *)
(* POST /api/safe_mode (web_ui.c), held in RTC memory and, two seconds     *)
(* later, in NVS ("safeflag"/"next").  The module can be reset before any  *)
(* step: a panic or a restart keeps RTC memory, a power cut does not; both *)
(* keep what was committed to NVS.                                         *)
(*                                                                         *)
(* app_main also reads the flags "bootcheck"/"safe_next" and               *)
(* cfg.safe_mode_next_boot; no code sets them any more, so they are false  *)
(* and left out.                                                           *)
(***************************************************************************)
EXTENDS Naturals

CONSTANTS
  HEALTHY_TICKS,   \* seconds with Wi-Fi up that make a boot healthy (60)
  CRASH_LIMIT,     \* unhealthy boots that make the next one safe (3)
  CRASH_CNT_MOD,   \* values of the uint8_t counter (256)
  MaxBoots         \* bound: boots in a behaviour

ASSUME LimitAssumption ==
  /\ HEALTHY_TICKS \in Nat \ {0}
  /\ CRASH_LIMIT \in Nat \ {0}
  /\ CRASH_CNT_MOD \in Nat /\ CRASH_LIMIT < CRASH_CNT_MOD
  /\ MaxBoots \in Nat

VARIABLES
  crash_cnt,      \* NVS: bootcheck/crash_cnt
  safeflag,       \* NVS: safeflag/next
  rtc_safe,       \* RTC memory: the magic is there and the flag is 1
  provisioned,    \* NVS: Wi-Fi credentials are stored
  phase,          \* where app_main is
  crash_count,    \* app_main's local copy of crash_cnt
  manual,         \* a manual request was read by this boot
  safe_boot,      \* app_main's decision
  wifi,           \* WIFI_STA_CONNECTED_BIT
  bridges,        \* MQTT and cloud bridges were started
  healthy_ticks,  \* app_main's locals of the main loop
  app_marked_valid,
  poster,         \* where safe_reboot_task is
  boots,          \* history: boots so far
  unhealthy,      \* history: boots in a row that were counted, and reset before they
                  \* were marked healthy
  request,        \* history: what became of the last POST /api/safe_mode
  due             \* history: what this boot owed it when it decided

nvsVars == <<crash_cnt, safeflag, provisioned>>
bootVars == <<crash_count, manual, safe_boot, bridges>>
loopVars == <<healthy_ticks, app_marked_valid>>
historyVars == <<boots, unhealthy, request, due>>
vars == <<nvsVars, rtc_safe, phase, bootVars, wifi, loopVars, poster, historyVars>>

Phases == {"off", "count", "rtc", "safeflag", "decide", "start", "wifi_wait", "loop"}

(* A request the next boot can still find, in RTC memory or in NVS; and    *)
(* one whose flags a boot read and cleared, but was reset before it could  *)
(* act on them.                                                            *)
Pending == {"answered", "committed"}
Requests == Pending \cup {"none", "lost"}

(* The HTTP server answers from web_ui_start on. *)
Serving == phase \in {"wifi_wait", "loop"}
Decided == phase \in {"start", "wifi_wait", "loop"}

Init ==
  /\ crash_cnt = 0
  /\ safeflag = FALSE
  /\ rtc_safe = FALSE
  /\ provisioned \in BOOLEAN
  /\ phase = "off"
  /\ crash_count = 0
  /\ manual = FALSE
  /\ safe_boot = FALSE
  /\ wifi = FALSE
  /\ bridges = FALSE
  /\ healthy_ticks = 0
  /\ app_marked_valid = FALSE
  /\ poster = "none"
  /\ boots = 0
  /\ unhealthy = 0
  /\ request = "none"
  /\ due = "none"

------------------------------------------------------------------------------
(* app_main, one step per commit or read of persistent state.              *)

(* The bootloader jumps to the application; its RAM starts afresh.         *)
Boot ==
  /\ phase = "off"
  /\ boots < MaxBoots
  /\ phase' = "count"
  /\ crash_count' = 0
  /\ manual' = FALSE
  /\ safe_boot' = FALSE
  /\ bridges' = FALSE
  /\ wifi' = FALSE
  /\ healthy_ticks' = 0
  /\ app_marked_valid' = FALSE
  /\ boots' = boots + 1
  /\ UNCHANGED <<nvsVars, rtc_safe, poster, unhealthy, request, due>>

(* The uint8_t counter counts this boot before it is known to be good. *)
NextCrashCnt == (crash_cnt + 1) % CRASH_CNT_MOD

CountBoot ==
  /\ phase = "count"
  /\ crash_count' = crash_cnt
  /\ crash_cnt' = NextCrashCnt
  /\ phase' = "rtc"
  /\ UNCHANGED <<safeflag, provisioned, rtc_safe, manual, safe_boot, bridges, wifi,
                 loopVars, poster, historyVars>>

(* Mutant: the flag in RTC memory is read and kept. *)
ReadRtcKeep ==
  /\ phase = "rtc"
  /\ manual' = rtc_safe
  /\ phase' = "safeflag"
  /\ UNCHANGED <<rtc_safe, nvsVars, crash_count, safe_boot, bridges, wifi, loopVars, poster,
                 historyVars>>

(* consume_rtc_safe_flag *)
ReadRtc ==
  /\ phase = "rtc"
  /\ manual' = rtc_safe
  /\ rtc_safe' = FALSE
  /\ phase' = "safeflag"
  /\ UNCHANGED <<nvsVars, crash_count, safe_boot, bridges, wifi, loopVars, poster, historyVars>>

(* Mutants: the flag in NVS hides the one read from RTC memory, or is kept. *)
ReadSafeflagOnly ==
  /\ phase = "safeflag"
  /\ manual' = safeflag
  /\ safeflag' = FALSE
  /\ phase' = "decide"
  /\ UNCHANGED <<crash_cnt, provisioned, rtc_safe, crash_count, safe_boot, bridges, wifi,
                 loopVars, poster, historyVars>>

ReadSafeflagKeep ==
  /\ phase = "safeflag"
  /\ manual' = (manual \/ safeflag)
  /\ phase' = "decide"
  /\ UNCHANGED safeflag
  /\ UNCHANGED <<crash_cnt, provisioned, rtc_safe, crash_count, safe_boot, bridges, wifi,
                 loopVars, poster, historyVars>>

ReadSafeflag ==
  /\ phase = "safeflag"
  /\ manual' = (manual \/ safeflag)
  /\ safeflag' = FALSE
  /\ phase' = "decide"
  /\ UNCHANGED <<crash_cnt, provisioned, rtc_safe, crash_count, safe_boot, bridges, wifi,
                 loopVars, poster, historyVars>>

(* Mutant: one unhealthy boot more. *)
BootLoopLate == crash_count > CRASH_LIMIT

(* Too many unhealthy boots in a row. *)
BootLoop == crash_count >= CRASH_LIMIT

Decide ==
  /\ phase = "decide"
  /\ safe_boot' = (manual \/ BootLoop)
  /\ due' = request
  /\ request' = "none"
  /\ phase' = "start"
  /\ UNCHANGED <<nvsVars, rtc_safe, crash_count, manual, bridges, wifi, loopVars, poster,
                 boots, unhealthy>>

(* Wi-Fi and the HTTP server start; with an MQTT broker configured, and    *)
(* not in safe mode, app_main waits for Wi-Fi first.                       *)
StartServices ==
  /\ phase = "start"
  /\ \/ phase' = "wifi_wait" /\ ~safe_boot /\ provisioned
     \/ phase' = "loop"
  /\ UNCHANGED <<nvsVars, rtc_safe, bootVars, wifi, loopVars, poster, historyVars>>

(* The wait ends: with Wi-Fi, or after a minute without it; the bridges    *)
(* are then not started before the next boot.                              *)
EndWifiWait ==
  /\ phase = "wifi_wait"
  /\ phase' = "loop"
  /\ bridges' = wifi
  /\ UNCHANGED <<nvsVars, rtc_safe, crash_count, manual, safe_boot, wifi, loopVars, poster,
                 boots, unhealthy, request, due>>

(* One pass of the main loop, a second long, while the boot is unproven. *)
CountHealthy ==
  /\ phase = "loop"
  /\ ~app_marked_valid
  /\ wifi
  /\ healthy_ticks + 1 < HEALTHY_TICKS
  /\ healthy_ticks' = healthy_ticks + 1
  /\ UNCHANGED <<nvsVars, rtc_safe, phase, bootVars, wifi, app_marked_valid, poster,
                 boots, unhealthy, request, due>>

(* Mutant: the counter is not reset. *)
MarkHealthyOnly ==
  /\ phase = "loop"
  /\ ~app_marked_valid
  /\ wifi
  /\ healthy_ticks + 1 >= HEALTHY_TICKS
  /\ healthy_ticks' = healthy_ticks + 1
  /\ app_marked_valid' = TRUE
  /\ unhealthy' = 0
  /\ UNCHANGED <<nvsVars, rtc_safe, phase, bootVars, wifi, poster,
                 boots, request, due>>

MarkHealthy ==
  /\ phase = "loop"
  /\ ~app_marked_valid
  /\ wifi
  /\ healthy_ticks + 1 >= HEALTHY_TICKS
  /\ healthy_ticks' = healthy_ticks + 1
  /\ app_marked_valid' = TRUE
  /\ crash_cnt' = 0
  /\ unhealthy' = 0
  /\ UNCHANGED <<safeflag, provisioned, rtc_safe, phase, bootVars, wifi, poster,
                 boots, request, due>>

(* A flapping station does not count. *)
LoseHealth ==
  /\ phase = "loop"
  /\ ~app_marked_valid
  /\ ~wifi
  /\ healthy_ticks' = 0
  /\ UNCHANGED <<nvsVars, rtc_safe, phase, bootVars, wifi, app_marked_valid, poster,
                 boots, unhealthy, request, due>>

MainLoop == CountHealthy \/ MarkHealthy \/ LoseHealth

------------------------------------------------------------------------------
(* The rest of the firmware, and the outside world.                        *)

(* The Wi-Fi event handler: the station associates or drops. *)
WifiChange ==
  /\ Serving
  /\ provisioned
  /\ wifi' = ~wifi
  /\ UNCHANGED <<nvsVars, rtc_safe, phase, bootVars, loopVars, poster, historyVars>>

(* POST /config with an SSID: the station starts at the next boot. *)
Provision ==
  /\ Serving
  /\ ~provisioned
  /\ provisioned' = TRUE
  /\ UNCHANGED <<crash_cnt, safeflag, rtc_safe, phase, bootVars, wifi, loopVars, poster,
                 historyVars>>

(* POST /api/safe_mode: the flag in RTC memory now, the answer, and a task *)
(* for the rest.                                                           *)
PostSafeMode ==
  /\ Serving
  /\ poster = "none"
  /\ rtc_safe' = TRUE
  /\ poster' = "posted"
  /\ request' = "answered"
  /\ UNCHANGED <<nvsVars, phase, bootVars, wifi, loopVars, boots, unhealthy, due>>

(* safe_reboot_task, after two seconds. *)
CommitSafeflag ==
  /\ poster = "posted"
  /\ safeflag' = TRUE
  /\ poster' = "committed"
  /\ request' = "committed"
  /\ UNCHANGED <<crash_cnt, provisioned, rtc_safe, phase, bootVars, wifi, loopVars,
                 boots, unhealthy, due>>

(* What a reset leaves of the request: a flag not yet cleared, the one in  *)
(* RTC memory with power on only.  From the clearing of its last flag to   *)
(* the decision the request is in app_main's locals alone.                 *)
Cleared == phase = "decide" \/ (phase = "safeflag" /\ request = "answered")

RequestAfter(powered) ==
  IF request \in Pending /\ Cleared THEN "lost"
  ELSE IF request = "answered" /\ ~powered THEN "none"
  ELSE request

(* A boot reset before the commit of its count (main.c:202) leaves no      *)
(* trace: unhealthy is what app_main can know.                             *)
Reset(powered) ==
  /\ phase # "off"
  /\ phase' = "off"
  /\ rtc_safe' = (powered /\ rtc_safe)
  /\ poster' = "none"
  /\ wifi' = FALSE
  /\ unhealthy' = IF phase = "count" \/ app_marked_valid THEN unhealthy ELSE unhealthy + 1
  /\ request' = RequestAfter(powered)
  /\ UNCHANGED <<nvsVars, bootVars, loopVars, boots, due>>

(* A panic, or esp_restart from a handler of web_ui.c, mqtt_bridge.c or ota.c. *)
Restart == Reset(TRUE)

PowerCut == Reset(FALSE)

AppMain ==
  \/ Boot \/ CountBoot \/ ReadRtc \/ ReadSafeflag \/ Decide \/ StartServices \/ EndWifiWait
  \/ MainLoop

Next ==
  \/ AppMain
  \/ WifiChange \/ Provision
  \/ PostSafeMode \/ CommitSafeflag
  \/ Restart \/ PowerCut

Spec == Init /\ [][Next]_vars

------------------------------------------------------------------------------
TypeOK ==
  /\ crash_cnt \in 0 .. CRASH_CNT_MOD - 1
  /\ safeflag \in BOOLEAN
  /\ rtc_safe \in BOOLEAN
  /\ provisioned \in BOOLEAN
  /\ phase \in Phases
  /\ crash_count \in 0 .. CRASH_CNT_MOD - 1
  /\ manual \in BOOLEAN
  /\ safe_boot \in BOOLEAN
  /\ wifi \in BOOLEAN
  /\ bridges \in BOOLEAN
  /\ healthy_ticks \in Nat
  /\ app_marked_valid \in BOOLEAN
  /\ poster \in {"none", "posted", "committed"}
  /\ boots \in Nat
  /\ unhealthy \in Nat
  /\ request \in Requests
  /\ due \in Requests

(* main.c, "boot loop detector": once CRASH_LIMIT boots in a row were      *)
(* counted, and reset before they were healthy, the following boots are    *)
(* safe ones, up to the last value the uint8_t counter can hold.           *)
LoopDetected ==
  Decided /\ unhealthy \in CRASH_LIMIT .. CRASH_CNT_MOD - 1 => safe_boot

(* A request of safe mode that was answered is honoured by the next boot   *)
(* that gets to decide, whatever resets came before it.  Two are excepted: *)
(* a power cut within the two seconds before the request is in NVS         *)
(* (main.c:44, RTC memory is for restarts), and a reset of the very boot   *)
(* that had cleared the last flag and not yet decided (main.c:58-65 and    *)
(* 229-233, then 242): that request is lost.                               *)
RequestHonoured == Decided /\ due \in Pending => safe_boot

(* A boot is safe for a reason: a request not honoured before (a request   *)
(* stored twice, in RTC memory and in NVS, is worth one safe boot, and a   *)
(* lost one none) or a boot loop.                                          *)
SafeForCause ==
  Decided /\ safe_boot /\ ~app_marked_valid => due \in Pending \/ unhealthy >= CRASH_LIMIT

(* A module that stays up with Wi-Fi leaves the boot loop for good.        *)
LoopEnds == <>[](phase = "loop" /\ wifi) => <>[](crash_cnt = 0)

(* The state behind the three: the counter is the number of unhealthy      *)
(* boots until it wraps, a pending request is in RTC memory, in NVS or     *)
(* already read, and nothing is left of a lost one.                        *)
CounterInv ==
  /\ phase \in {"off", "count"} /\ unhealthy < CRASH_CNT_MOD => crash_cnt = unhealthy
  /\ phase \notin {"off", "count"} /\ ~app_marked_valid =>
       /\ unhealthy < CRASH_CNT_MOD => crash_count = unhealthy
       /\ unhealthy + 1 < CRASH_CNT_MOD => crash_cnt = unhealthy + 1
  /\ phase \notin {"off", "count"} /\ app_marked_valid => crash_cnt = 0 /\ unhealthy = 0
  /\ phase \notin {"off", "loop"} => ~app_marked_valid

RequestInv ==
  /\ phase \in {"off", "count", "rtc"} =>
       /\ safeflag <=> request = "committed"
       /\ request = "answered" => rtc_safe
       /\ rtc_safe => request \in Pending
  /\ phase = "safeflag" =>
       /\ safeflag <=> request = "committed"
       /\ request = "answered" => manual
       /\ ~rtc_safe /\ (manual => request \in Pending)
  /\ phase = "decide" =>
       ~rtc_safe /\ ~safeflag /\ (manual <=> request \in Pending)
  /\ Decided =>
       /\ request # "lost"
       /\ request = "none" => ~rtc_safe /\ ~safeflag
       /\ request # "none" => rtc_safe
       /\ safeflag <=> request = "committed"
       /\ safe_boot <=> due \in Pending \/ crash_count >= CRASH_LIMIT
  /\ poster = "none" <=> ~Decided \/ request = "none"
  /\ poster = "posted" => request = "answered" /\ Decided

BootInv == TypeOK /\ CounterInv /\ RequestInv
==============================================================================
