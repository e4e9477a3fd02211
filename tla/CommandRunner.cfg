SPECIFICATION FairSpec
CONSTANTS
  MaxLines = 3
  Capacity = 2
INVARIANT TypeOK
INVARIANT StderrIsComplete
INVARIANT OneStreamIsComplete
PROPERTY EveryCommandReturns
CHECK_DEADLOCK FALSE
