SPECIFICATION Spec
CONSTANTS
  Members = {m1, m2}
  External = {m2}
  Tokens = {t1}
  FireFly = FF
  Options <- MCOptions
INVARIANT TypeOK
INVARIANT FinishedSetupIsComplete
INVARIANT TornDownIsNew
INVARIANT NoDanglingRecord
INVARIANT ExistingIsRemovable
INVARIANT StartedIsRunning
PROPERTY ImplementsContract
