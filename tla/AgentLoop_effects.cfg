SPECIFICATION FairSpec
CONSTANTS
  search = search
  post = post
  Call = {search, post}
  Tool = {search, post}
  ToolOf <- SameName
  Write = {post}
  Risky = {}
  Outward = {post}
  Untrusted = {search}
  Capped = {search}
  Leg = {post}
  Batches <- Requests
  MaxTurns = 2
  MaxToolCalls = 3
  MaxSameCall = 2
  MaxFailures = 1
  MaxSameError = 1
  SoftCap = 1
  MaxNudges = 1
  MaxAttempts = 3
  MaxResumes = 1
  NoCall = NoCall
CHECK_DEADLOCK FALSE
INVARIANT WorkIsBounded
PROPERTY CrashRepeatsNoWrite
PROPERTY OutwardIsGated
PROPERTY RunEnds
