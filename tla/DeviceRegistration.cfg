\* Two devices with three startups, and programs of somebody else.
SPECIFICATION Spec
CONSTANTS
  d1 = d1
  d2 = d2
  Devices = {d1, d2}
  Alg <- MCAlg
  Attempts = {a1, a2, a3}
  Sessions = {s1, s2}
  NoDevice = NoDevice
  NoKey = NoKey
  NoSession = NoSession
  Others = Others
  OtherForms <- TwoForms
INVARIANTS TypeOK CachedAgreesWithIdp AssertionsMatchScope
PROPERTIES StartupEnds RegistersAtOnce
CHECK_DEADLOCK FALSE
