CONSTANTS
  Progs = {1}
  Types = {"I_VENT", "I_CALD"}
  Settings <- MCSettings
  MaxFades = 1
  MaxTests = 1
  MaxResets = 1
SPECIFICATION FairSpec
INVARIANTS
  BridgesInv
  Availability
  EntitiesCurrent
  EntitiesFed
PROPERTIES
  SessionKept
  Recovers
  CloudRecovers
CHECK_DEADLOCK FALSE
