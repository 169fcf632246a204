------------------------------- MODULE OtaTrial -------------------------------
(***************************************************************************)
(* What the comment of ota_init (ota.c) promises of an image that crashes, *)
(* stated of the slots of OtaSlots: a history of the images that booted    *)
(* and were never marked valid.                                            *)
(***************************************************************************)
EXTENDS OtaSlots

VARIABLE tried  \* history: slots whose image an update selected, and that booted unproven

trialVars == <<allVars, tried>>

TrialInit == SlotInit /\ tried = {}

(* A selected image boots; it is proven by ota_mark_valid, or replaced.    *)
Selected(s) == state[s] \in {"new", "undefined"}

TriedAfter ==
  CASE BootSlot -> tried \cup {s \in {BootRun} : Selected(s)}
    [] MarkValid -> tried \ {running}
    [] \E w \in Ways : BeginUpdate(w) -> tried \ {Other(running)}
    [] OTHER -> tried

TrialNext == SlotNext /\ tried' = TriedAfter

TrialSpec == TrialInit /\ [][TrialNext]_trialVars

------------------------------------------------------------------------------
(* ota.c:39, "Until then the running slot stays in PENDING_VERIFY and any  *)
(* unclean reboot => bootloader rollback to the previous known-good slot   *)
(* automatically": an image that an update selected does not boot a second *)
(* time before a healthy minute.  Only the bootloader of a build with      *)
(* RollbackEnabled works that way, and firmware/sdkconfig.defaults does    *)
(* not ask for it.                                                         *)
SelectedBootsOnce == [][phase = "off" /\ phase' # "off" => running' \notin tried]_trialVars
==============================================================================
