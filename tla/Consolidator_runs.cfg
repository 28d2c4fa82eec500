SPECIFICATION FairSpec
CONSTANTS
  Proc = {p1, p2}
  MaxEpisode = 3
  Writers = 1
  EpisodeCap = 2
  MinNewItems = 1
  MinInterval = 1
  QuietWindow = 1
  NightlyFloor = 2
  MaxInterrupts = 2
  NoProc = NoProc
INVARIANT LiveRunIsSpared
INVARIANT NothingSkipped
INVARIANT RepeatedOnlyIfCut
PROPERTY BacklogDrains
PROPERTY DeadRunsAreFailed
