\* Two devices, one of which may start again; restarts of the provider.
SPECIFICATION Spec
CONSTANTS
  Devices = {d1, d2}
  Runs = {a1, a2}
  Sessions = {s1, s2}
  NoRun = NoRun
  NoSession = NoSession
  OtherSteps <- SmsSteps
INVARIANTS TypeOK ServedForOwnKey
PROPERTIES LossIsForGood LostIsCutOff LoopGoesOn
CHECK_DEADLOCK FALSE
