\* Writes, losses, changes of the stove and of the poll list, on a line that may echo.
CONSTANTS
  state = state
  power = power
  off = off
  on = on
  low = low
  high = high
  zero = zero
  Regs = {state, power}
  Values = {off, on, low, high, zero}
  Zero = zero
  InitialValue <- MCInitial
  HotList <- MCHot
  PollList <- MCPoll
  PollLists <- MCLists
  Settings <- MCSettings
  Readings <- MCReadings
  Capacity = 1
  Late = FALSE
  MaxWrites = 2
  MaxChanges = 1
  MaxLosses = 2
  MaxLists = 1
SPECIFICATION FairSpec
INVARIANTS
  TypeOK
  ShadowGenuine
PROPERTIES
  ShadowConverges
  PollsForever
  HeadReachesStove
