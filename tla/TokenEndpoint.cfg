\* Two overlapping requests, with the same assertion or with two.
SPECIFICATION Spec
CONSTANTS
  k1 = k1
  k2 = k2
  PublicKeys = {k1, k2}
  KeyAlg <- SameAlg
  Sessions = {s1, s2}
  NoKey = NoKey
  NoSession = NoSession
  Jtis = {j1}
  NoAssertion = NoAssertion
  Requests = {r1, r2}
  AssertionLifetime = 1
  ClockSkew = 1
  ReplayGrace = 3
  MaxDelay = 1
  MaxTime = 5
SYMMETRY Symmetry
INVARIANTS TypeOK AcceptedRequestIsTheDevice
PROPERTIES RecordedNeverPasses AnswersAtOnce
CHECK_DEADLOCK FALSE
