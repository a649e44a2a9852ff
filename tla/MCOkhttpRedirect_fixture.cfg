\* One request, the cache of RedirectResource.
SPECIFICATION Spec
CONSTANTS
  r1 = r1 r2 = r2 u1 = u1 u2 = u2 b1 = b1 b2 = b2
  Absent = Absent Empty = Empty Damaged = Damaged
  Request = {r1}
  Url = {u1, u2}
  Fake = {u1}
  Body = {b1, b2}
  Backend = "fixture"
  MaxFaults = 0
  MaxEvicts = 0
INVARIANT FailureHasCause
