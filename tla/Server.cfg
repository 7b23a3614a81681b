SPECIFICATION Spec
CONSTANTS
  Unset = Unset
  Junk = Junk
  Octal <- MCOctal
  None = None
  r1 = r1
  r2 = r2
  k1 = k1
  k2 = k2
  proxy = proxy
  Request = {r1, r2}
  Files <- MCFiles
  Envs <- MCEnvs
  Keys = {k1, k2}
INVARIANTS
  KeyProtects
  SettingsInRange
  AnswerTellsOutcome
  CleanExitLosesNothing
PROPERTY ShutdownCompletes
CHECK_DEADLOCK FALSE
