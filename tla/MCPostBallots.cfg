CONSTANTS
  Pks = {p1, p2}
  Tweaks = {t1, t2}
  Ips = {i1, i2}
  Emoji = {e1, e2}
  Options = {o1, o2}
  MultiVote = TRUE
  None = None
  MaxEntries = 3
  Addresses = {"x", "y"}
  Masks <- MCMasks
  Net <- MCNet
  Threads = {"t"}
  MaxPosts = 3
  MaxChanges = 2
  MaxTime = 1
  NoKey = NoKey
  NoRequest = NoRequest
SPECIFICATION MCSpec
INVARIANTS
  BallotsSafety
  BansSafety
PROPERTIES
  ReactionsAreBallots
  VotesAreBallots
\* The bounds of the bans are reached.
CHECK_DEADLOCK FALSE
