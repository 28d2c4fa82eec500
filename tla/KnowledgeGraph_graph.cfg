SPECIFICATION FairSpec
CONSTANTS
  FactKey = {f1}
  TopicKey = {k1}
  AddedKey = {k1, k2}
  Worker = {w1}
  MaxRows = 3
  MaxFacts = 2
  NoKey = NoKey
INVARIANT OneLivePerKey
INVARIANT ShownHasEvidence
PROPERTY FactReachesGraph
