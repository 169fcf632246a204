------------------------------ MODULE OtaSlots -------------------------------
(***************************************************************************)
(* The two firmware slots: what ota.c asks of ESP-IDF's OTA functions, and *)
(* what the bootloader makes of it, on top of the boots, crashes and power *)
(* cuts of BootGuard.  A new image is written to the slot that is not      *)
(* running, selected once it is complete, and marked valid by app_main     *)
(* after a healthy minute.                                                 *)
(*                                                                         *)
(* An image arrives in one of two ways: POST /ota/upload, on the task of   *)
(* the web server, and POST /ota/pull, which leaves the download to a task *)
(* of its own.  Nothing keeps the two apart.                               *)
(*                                                                         *)
(* RollbackEnabled is CONFIG_BOOTLOADER_APP_ROLLBACK_ENABLE, the build     *)
(* option under which the bootloader gives a new image one boot to be      *)
(* marked valid; firmware/sdkconfig.defaults does not set it.              *)
(***************************************************************************)
EXTENDS BootGuard

CONSTANT RollbackEnabled

ASSUME OptionAssumption == RollbackEnabled \in BOOLEAN

VARIABLES
  image,      \* flash: what each slot holds
  state,      \* otadata: the state recorded for each slot
  newest,     \* otadata: the slot selected last
  running,    \* the slot that runs
  update,     \* where the upload and the pull are, see Ways
  overlapped  \* history: an upload and a pull were under way at the same time

slotVars == <<image, state, newest, running, update, overlapped>>
allVars == <<vars, slotVars>>

Ways == {"upload", "pull"}
Slots == {0, 1}
Other(s) == 1 - s

(* Flashed by wire: slot 0, no otadata, no counters. *)
SlotInit ==
  /\ Init
  /\ image = [s \in Slots |-> IF s = 0 THEN "good" ELSE "none"]
  /\ state = [s \in Slots |-> "none"]
  /\ newest = 0
  /\ running = 0
  /\ update = [w \in Ways |-> "idle"]
  /\ overlapped = FALSE

------------------------------------------------------------------------------
(* The bootloader. *)

Recorded(s) == state[s] \in {"undefined", "new", "pending", "valid"}

(* A new image left unmarked by its only boot is aborted. *)
Expired(s) == RollbackEnabled /\ state[s] = "pending"

(* The slots otadata offers, the one selected last before the other. *)
Active == {s \in Slots : Recorded(s) /\ (s = newest \/ ~Recorded(newest))}

(* The slot selected last, else the one before; else the first good image. *)
BootChoice ==
  IF Recorded(newest) /\ ~Expired(newest) THEN newest
  ELSE IF Recorded(Other(newest)) /\ ~Expired(Other(newest)) THEN Other(newest)
  ELSE IF image[0] = "good" THEN 0 ELSE 1

(* An image that does not verify is passed over for the other one. *)
BootRun == IF image[BootChoice] = "good" THEN BootChoice ELSE Other(BootChoice)

BootSlot ==
  /\ Boot
  /\ running' = BootRun
  /\ state' = [s \in Slots |->
       CASE s = newest /\ Expired(s) -> "aborted"
         [] s = BootChoice /\ RollbackEnabled /\ state[s] = "new" -> "pending"
         [] OTHER -> state[s]]
  /\ update' = [w \in Ways |-> "idle"]
  /\ UNCHANGED <<image, newest, overlapped>>

------------------------------------------------------------------------------
(* ota.c *)

(* ota_init looks at the state of the running slot and leaves it alone. *)
OtaInit ==
  /\ CountBoot
  /\ UNCHANGED slotVars

(* ota_mark_valid: esp_ota_mark_app_valid_cancel_rollback, which marks the *)
(* slot selected last: the running one, unless an upload just ended.       *)
MarkedState == [s \in Slots |-> IF s \in Active THEN "valid" ELSE state[s]]

MarkValid ==
  /\ MarkHealthy
  /\ state' = MarkedState
  /\ UNCHANGED <<image, newest, running, update, overlapped>>

(* esp_ota_begin refuses while the running image is unmarked. *)
BeginRefused == RollbackEnabled /\ state[running] = "pending"

(* The web server's one task is not in an upload. *)
WebFree == Serving /\ update["upload"] = "idle"

(* handle_ota_pull: a task for ota_pull_from_url, which asks for the image *)
(* first.                                                                  *)
AskPull ==
  /\ WebFree
  /\ update["pull"] = "idle"
  /\ update' = [update EXCEPT !["pull"] = "asked"]
  /\ UNCHANGED <<vars, image, state, newest, running, overlapped>>

Under(w) == update[w] \in {"receiving", "received", "rebooting"}

(* ota_upload_begin, or the first esp_https_ota_perform: esp_ota_begin     *)
(* erases the slot that is not running.                                    *)
BeginUpdate(w) ==
  /\ Serving
  /\ update[w] = IF w = "pull" THEN "asked" ELSE "idle"
  /\ ~BeginRefused
  /\ update' = [update EXCEPT ![w] = "receiving"]
  /\ image' = [image EXCEPT ![Other(running)] = "partial"]
  /\ overlapped' = (overlapped \/ \E v \in Ways \ {w} : Under(v))
  /\ UNCHANGED <<vars, state, newest, running>>

(* A write error, a lost connection, a failed verification or selection:   *)
(* the session ends, the slot keeps what was written to it.                *)
FailUpdate(w) ==
  /\ Serving
  /\ update[w] \in {"asked", "receiving", "received"}
  /\ update' = [update EXCEPT ![w] = "idle"]
  /\ UNCHANGED <<vars, image, state, newest, running, overlapped>>

(* A block that is not the last: no change, unless the slot was whole.     *)
Receive(w) ==
  /\ Serving
  /\ update[w] = "receiving"
  /\ image[Other(running)] = "good"
  /\ image' = [image EXCEPT ![Other(running)] = "partial"]
  /\ UNCHANGED <<vars, state, newest, running, update, overlapped>>

(* The last block: the slot holds the whole image, or, when both ways      *)
(* wrote to it, perhaps a mixture.                                         *)
ReceiveAll(w) ==
  /\ Serving
  /\ update[w] = "receiving"
  /\ update' = [update EXCEPT ![w] = "received"]
  /\ \E result \in IF overlapped THEN {"good", "partial"} ELSE {"good"} :
       image' = [image EXCEPT ![Other(running)] = result]
  /\ UNCHANGED <<vars, state, newest, running, overlapped>>

(* esp_ota_end accepts a whole image only. *)
Verified == image[Other(running)] = "good"

(* ota_upload_end, or the end of ota_pull_from_url: verified, the new slot *)
(* is selected and the module restarts three seconds later.                *)
EndUpdate(w) ==
  /\ Serving
  /\ update[w] = "received"
  /\ Verified
  /\ update' = [update EXCEPT ![w] = "rebooting"]
  /\ state' = [state EXCEPT ![Other(running)] = IF RollbackEnabled THEN "new" ELSE "undefined"]
  /\ newest' = Other(running)
  /\ UNCHANGED <<vars, image, running, overlapped>>

UpdateStep ==
  \/ AskPull
  \/ \E w \in Ways :
       BeginUpdate(w) \/ FailUpdate(w) \/ Receive(w) \/ ReceiveAll(w) \/ EndUpdate(w)

(* Mutants: any whole image will do; the record is taken at its word. *)
RollbackToAnyImage(s) == image[Other(s)] = "good"
RollbackBlindly(s) == Recorded(Other(s))

(* esp_ota_check_rollback_is_possible: the slot selected before s was not  *)
(* refused since and holds a whole image.                                  *)
RollbackPossible(s) == Recorded(Other(s)) /\ image[Other(s)] = "good"

(* ota_rollback: the slot selected last is refused from now on, and the    *)
(* module restarts.  When it is not possible the call returns an error     *)
(* nobody reads.                                                           *)
Rollback ==
  /\ Serving
  /\ \E s \in Active :
       /\ RollbackPossible(s)
       /\ state' = [state EXCEPT ![s] = "invalid"]
  /\ Restart
  /\ UNCHANGED <<image, newest, running, update, overlapped>>

------------------------------------------------------------------------------
(* Every other step leaves the slots alone. *)
OtherAppMain ==
  /\ \/ ReadRtc \/ ReadSafeflag \/ Decide \/ StartServices \/ EndWifiWait
     \/ CountHealthy \/ LoseHealth
  /\ UNCHANGED slotVars

OtherSteps ==
  /\ \/ WifiChange \/ CommitSafeflag \/ Restart \/ PowerCut
     \/ WebFree /\ (Provision \/ PostSafeMode)
  /\ UNCHANGED slotVars

SlotAppMain == BootSlot \/ OtaInit \/ MarkValid \/ OtherAppMain

SlotNext ==
  \/ SlotAppMain
  \/ UpdateStep \/ Rollback
  \/ OtherSteps

SlotSpec == SlotInit /\ [][SlotNext]_allVars

(* The main task runs at its own pace whatever else happens; resets,       *)
(* Wi-Fi, users and updates are under no obligation.                       *)
FairSlotSpec == SlotSpec /\ WF_allVars(SlotAppMain)

------------------------------------------------------------------------------
SlotTypeOK ==
  /\ image \in [Slots -> {"none", "partial", "good"}]
  /\ state \in [Slots -> {"none", "undefined", "new", "pending", "valid", "invalid", "aborted"}]
  /\ newest \in Slots
  /\ running \in Slots
  /\ update \in [Ways -> {"idle", "asked", "receiving", "received", "rebooting"}]
  /\ overlapped \in BOOLEAN

(* Wherever an update, a rollback or a boot is cut short, an image runs or *)
(* would run that is whole.  The slot the bootloader tries first is whole  *)
(* too, unless an upload and a pull overlapped: one of them writes to the  *)
(* slot the other has verified and selected.                               *)
NextBootWorks ==
  /\ image[IF phase = "off" THEN BootRun ELSE running] = "good"
  /\ ~overlapped => image[BootChoice] = "good"

(* An image that was refused, by the user or by the bootloader, does not   *)
(* run again until it is replaced.                                         *)
RefusedStaysOut ==
  phase # "off" => state[running] \notin {"invalid", "aborted"}

(* The state behind these.  Of otadata: which records go together, and *)
(* that a slot on trial or refused has a whole image beside it.            *)
OnTrial(s) == state[s] \in {"new", "pending"}
Refused(s) == state[s] \in {"invalid", "aborted"}
On == phase # "off"

RecordInv ==
  /\ \A s \in Slots :
       /\ state[s] \in {"new", "pending", "aborted"} => RollbackEnabled
       /\ state[s] = "undefined" => ~RollbackEnabled
       /\ OnTrial(s) => s = newest
       /\ OnTrial(s) \/ Refused(s) =>
            /\ image[Other(s)] = "good"
            /\ state[Other(s)] \in {"undefined", "valid"} \/ (s = 1 /\ state[0] = "none")
  /\ state[1] = "none" =>
       newest = 0 /\ state[0] = "none" /\ image[0] = "good" /\ (On => running = 0)
  /\ state[0] = "none" /\ newest = 0 => state[1] = "none"

(* Of the image that runs: it is whole, not refused, and as long as it is  *)
(* on trial no update writes.                                              *)
RunningInv ==
  /\ On => /\ image[running] = "good"
           /\ ~Refused(running) /\ state[running] # "new"
           /\ state[running] = "pending" => \A w \in Ways : ~Under(w)
  /\ \E s \in Slots : image[s] = "good"

Rebooting == \E w \in Ways : update[w] = "rebooting"

(* Of the updates: the slot selected last is the running one until an      *)
(* update has ended, unless the bootloader passed over it; and one update  *)
(* at a time leaves a whole image where the bootloader looks first.        *)
UpdateInv ==
  ~overlapped =>
    /\ On /\ newest # running /\ Recorded(newest) => Rebooting
    /\ \A v, w \in Ways : Under(v) /\ Under(w) => v = w
    /\ On /\ Rebooting => image[Other(running)] = "good"
    /\ ~On => image[BootChoice] = "good"

SlotInv == SlotTypeOK /\ RecordInv /\ RunningInv /\ UpdateInv
==============================================================================
