SPECIFICATION Spec
CHECK_DEADLOCK FALSE
CONSTANTS
  SeqSpace = 16
  FrameFaults = TRUE
  MaxCalls = 3
  MaxFaults = 2
INVARIANTS
  TypeOK
  AnswersAreOwn
  PollsCleanUp
  StaleRunsBeforeExchanges
PROPERTY
  Recovers
