\* Two requests, a faked url and one that is not; an operation may fail, or an access
\* to a Field come to nothing, and an entry may be dropped.
SPECIFICATION FairSpec
CONSTANTS
  r1 = r1 r2 = r2 u1 = u1 u2 = u2 b1 = b1 b2 = b2
  Absent = Absent Empty = Empty Damaged = Damaged
  Request = {r1, r2}
  Url = {u1, u2}
  Fake = {u1}
  Body = {b1, b2}
  Backend = "service"
  MaxFaults = 1
  MaxEvicts = 1
INVARIANTS TypeOK HitIsGenuine DamageNeedsOverlap FailureHasCause CacheIsUsed
PROPERTY RequestEnds
