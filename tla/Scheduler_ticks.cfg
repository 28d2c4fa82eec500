SPECIFICATION FairSpec
CONSTANTS
  Schedule = {s1, s2}
  Scheduler = {p1, p2}
  Session = {u1}
  Specs <- SomeSpecs
  Budgeted = {s1}
  Limit = 1
  Window = 1
  Day = 4
  Week = 2
  ShiftAt = 4
  Before = 2
  After = 0
  Horizon = 6
  MaxCommands = 1
CHECK_DEADLOCK FALSE
INVARIANT OneTaskPerFire
INVARIANT NoOverlap
PROPERTY BornOfActive
PROPERTY AdvancesToNext
PROPERTY DueIsServed
