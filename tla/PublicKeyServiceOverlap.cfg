\* Two requests may overlap in arrays that grow from nothing to two and five slots.
SPECIFICATION Spec
CONSTANTS
  Threads = {t1, t2}
  Sessions = {s1, s2, s3, s4}
  OddSessions = {s1, s2, s3}
  PublicKeys = {k1, k2}
  NoKey = NoKey
  NoSession = NoSession
  Buckets = {0, 1}
  BucketOf <- MCBucketOf
  Capacity = 5
  FirstLength = 0
  Expand <- MCExpand
SYMMETRY Symmetry
INVARIANTS TypeOK UncontendedEntryStays
PROPERTIES GrowthMends StoreWhileSerial
CHECK_DEADLOCK FALSE
