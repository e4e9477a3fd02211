SPECIFICATION Spec
CONSTANTS
  Members = {m1, m2}
  External = {}
  Tokens = {t1}
  FireFly = FF
  Options <- Deploying
INVARIANT RemoveDeletesAllData
