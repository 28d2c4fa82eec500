SPECIFICATION FairSpec
CONSTANTS
  Task = {t1}
  Worker = {w1, w2}
  Handler = {h1, h2}
  Key = {k1}
  ConnectKey = {}
  MaxAttempts = 2
  Faults = {}
  NoTask = NoTask
  NoWorker = NoWorker
  NoKey = NoKey
  NoTx = NoTx
  h1 = h1
  h2 = h2
  k1 = k1
  t1 = t1
  w1 = w1
  w2 = w2
INVARIANT SingleExecutor
PROPERTY ImplementsApprovalContract
PROPERTY TaskSettles
PROPERTY LeaseNeverStolen
