SPECIFICATION Spec
CONSTANTS
  Members = {m1, m2}
  External = {m2}
  Tokens = {t1}
  FireFly = FF
  Options <- MCOptions
INVARIANT StartRunsTheStack
