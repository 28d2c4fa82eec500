SPECIFICATION FairSpec
CONSTANTS
  c1 = c1
  c2 = c2
  u1 = u1
  Cand = {c1, c2}
  User = {u1}
  Target <- MCTarget
  OneShot = {c1}
  Worthy = {c1, c2}
  MaxItems = 1
  Reviewable = {c1}
  MaxReviews = 1
  Runner = {r1, r2}
  Click = {k1}
  MaxActions = 1
  MaxFailures = 2
  MaxDrafts = 1
  None = None
INVARIANT OneDigestPerWindow
INVARIANT AutomatedHasWork
PROPERTY DecisionsStand
PROPERTY PendingIsSuggested
