\* Watchdog against master, with timeouts of mn_mutex.
CONSTANTS
  CountRange = 4
  MaxAnswers = 3
  MaxBusy = 2
SPECIFICATION FairSpec
INVARIANTS
  OnlySilenceClears
PROPERTIES
  OfflineSeen
  OnlineSeen
  FlagMeetsBit
