SPECIFICATION FairSpec
CONSTANTS
  Retries = 3
PROPERTY WaitIsBounded
CHECK_DEADLOCK FALSE
