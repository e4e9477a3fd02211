SPECIFICATION Spec
CONSTANTS
  Procs = {p1, p2, p3}
  Kinds = {"start", "create", "deploy", "reset"}
INVARIANT TypeOK
INVARIANT OnlyOverlapLoses
INVARIANT SerialStateIsReadable
 
CHECK_DEADLOCK FALSE
