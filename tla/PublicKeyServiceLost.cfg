\* Two requests at a time, and what the registration endpoint promises.
SPECIFICATION Spec
CONSTANTS
  Threads = {t1, t2}
  Sessions = {s1, s2}
  OddSessions = {s1}
  PublicKeys = {k1, k2}
  NoKey = NoKey
  NoSession = NoSession
  Buckets = {0, 1}
  BucketOf <- MCBucketOf
  Capacity = 2
  FirstLength = 2
  Expand <- MCExpand
INVARIANT ReturnedSessionIsBound
CHECK_DEADLOCK FALSE
