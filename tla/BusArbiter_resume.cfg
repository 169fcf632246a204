\* A stove that may be silent, sessions and writes: prompt reads are over in time, polling goes on.
CONSTANTS
  AnswerTicks = 2
  SilentTicks = 20
  Sessions <- AllSessions
  MaxSessions = 2
  MaxWrites = 8
SPECIFICATION FairSpec
INVARIANTS
  TypeOK
  PromptReadOver
PROPERTIES
  PollsResume
  WritesDrain
