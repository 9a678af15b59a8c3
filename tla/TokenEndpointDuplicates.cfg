\* Duplicate requests, overlapping: how often is one assertion accepted?
SPECIFICATION Spec
CONSTANTS
  k1 = k1
  k2 = k2
  PublicKeys = {k1}
  KeyAlg <- SameAlg
  Sessions = {s1}
  NoKey = NoKey
  NoSession = NoSession
  Jtis = {j1}
  NoAssertion = NoAssertion
  Requests = {r1, r2}
  AssertionLifetime = 1
  ClockSkew = 1
  ReplayGrace = 3
  MaxDelay = 1
  MaxTime = 1
INVARIANT AcceptedAtMostOnce
CHECK_DEADLOCK FALSE
