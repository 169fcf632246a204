\* The build that ships: one update that crashes is enough.
CONSTANTS
  HEALTHY_TICKS = 2
  CRASH_LIMIT = 3
  CRASH_CNT_MOD = 256
  MaxBoots = 3
  RollbackEnabled = FALSE
SPECIFICATION TrialSpec
PROPERTIES
  SelectedBootsOnce
CHECK_DEADLOCK FALSE
