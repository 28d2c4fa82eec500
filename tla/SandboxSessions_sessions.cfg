SPECIFICATION FairSpec
CONSTANTS
  c1 = c1
  c2 = c2
  t1 = t1
  Box = {b1, b2}
  Task = {t1}
  Client = {c1, c2}
  TaskOf <- SameTask
  Idle = 1
  MaxAge = 1
  GcAge = 1
  OrphanAge = 1
  MaxRestarts = 1
  NoBox = NoBox
  NoOne = NoOne
INVARIANT OneSessionPerTask
INVARIANT SessionHasContainer
PROPERTY NothingLeaks
