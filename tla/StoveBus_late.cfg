\* An answer that comes after the master gave up.
CONSTANTS
  state = state
  power = power
  off = off
  on = on
  low = low
  high = high
  zero = zero
  Regs = {state, power}
  Values = {off, on, low, high, zero}
  Zero = zero
  InitialValue <- MCInitial
  HotList <- MCHot
  PollList <- MCPoll
  PollLists <- MCLists
  Settings <- MCSettings
  Readings <- MCReadings
  Capacity = 2
  Late = TRUE
  MaxWrites = 0
  MaxChanges = 0
  MaxLosses = 0
  MaxLists = 0
SPECIFICATION Spec
INVARIANTS
  ShadowExact
CHECK_DEADLOCK FALSE
