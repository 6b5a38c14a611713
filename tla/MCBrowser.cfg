CONSTANTS
  Words = {"w"}
  Sources = {"p", "q"}
  Topics = {"t", "u"}
  Own = {"t"}
  Files = {"f"}
  MaxMedia = 1
  MaxWrites = 4
  Links = {"a", "b"}
  None = None
  MaxId = 3
  MaxMoves = 5
  Albums <- MCAlbums
  MaxOpens = 2
  MaxTaps = 2
  Window = 3
  MaxBox = 2
  First = 3
  MaxPosts = 5
  MaxReads = 5
  Forums = {"f", "g"}
  Default = "f"
  Slugs = {"b", "settings", "forum"}
  Known = {"b", "settings"}
  Nums = {"1"}
  MaxVisits = 2
  MaxLoads = 3
SPECIFICATION MCSpec
INVARIANTS ComposerSafety TooltipsSafety GallerySafety ReadingSafety NavigationSafety
PROPERTIES StaysUnderPointer
\* The bounds are reached.
CHECK_DEADLOCK FALSE
