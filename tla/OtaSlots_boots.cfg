\* The build that ships, without CONFIG_BOOTLOADER_APP_ROLLBACK_ENABLE: updates, rollbacks,
\* crashes and power cuts at any time, up to five boots; the crash counter wraps at the fifth.
CONSTANTS
  HEALTHY_TICKS = 2
  CRASH_LIMIT = 3
  CRASH_CNT_MOD = 5
  MaxBoots = 5
  RollbackEnabled = FALSE
SPECIFICATION FairSlotSpec
INVARIANTS
  BootInv
  LoopDetected
  RequestHonoured
  SafeForCause
  SlotInv
  NextBootWorks
  RefusedStaysOut
PROPERTIES
  LoopEnds
CHECK_DEADLOCK FALSE
