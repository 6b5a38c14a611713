CONSTANTS
  FirstPosts = 1
  MaxPosts = 2
  MaxTxs = 2
  MaxLoads = 2
  MaxLosses = 1
  Texts = {{1}, {2}}
  NoText = NoText
  MaxSends = 2
  MaxReloads = 1
  PageThreads = 2
  Preview = 1
  FirstThreads = 3
  PinnedSets = {{}, {1}, {1, 2}}
  MaxThreads = 4
  MaxReplies = 3
  None = None
  MaxEvents = 3
SPECIFICATION MCSpec
INVARIANTS ReplaySafety StoreSafety BoardViewSafety FormatsSafety
PROPERTIES PagingAdvances
\* The bounds are reached.
CHECK_DEADLOCK FALSE
