SPECIFICATION Spec
CONSTANTS
  Task = {t1, t2}
  Key = {k1, k2}
  Askable <- OverlappingKeys
  MaxAsks = 2
  Faults = {"crash", "failed_call", "expiry"}
  NoKey = NoKey
  t1 = t1
  t2 = t2
  k1 = k1
  k2 = k2
  k3 = k3
CHECK_DEADLOCK FALSE
INVARIANT AlwaysAnswerable
INVARIANT OneVerdict
INVARIANT SpentMeansDecided
INVARIANT DecidedWasShown
PROPERTY ImplementsContract
