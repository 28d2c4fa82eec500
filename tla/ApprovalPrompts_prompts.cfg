SPECIFICATION Spec
CONSTANTS
  Task = {t1, t2}
  Key = {k1, k2, k3}
  Askable <- PrivateKeys
  MaxAsks = 3
  Faults = {"failed_call"}
  NoKey = NoKey
  t1 = t1
  t2 = t2
  k1 = k1
  k2 = k2
  k3 = k3
CHECK_DEADLOCK FALSE
INVARIANT ButtonsWork
INVARIANT ReactionMeansShown
