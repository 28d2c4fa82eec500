SPECIFICATION Spec
CONSTANTS
  Task = {t1}
  Worker = {w1, w2}
  Handler = {h1, h2}
  Key = {k1}
  ConnectKey = {}
  MaxAttempts = 1
  Faults = {"late_heartbeat", "skipped_renewal", "crash_between_commits",
            "stale_load"}
  NoTask = NoTask
  NoWorker = NoWorker
  NoKey = NoKey
  NoTx = NoTx
  h1 = h1
  h2 = h2
  k1 = k1
  t1 = t1
  w1 = w1
  w2 = w2
SYMMETRY Symmetry
INVARIANT ApprovedToolsOnly
PROPERTY DecisionFinal
