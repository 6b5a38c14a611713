CONSTANTS
  Users = {root, ann, bob}
  Root = root
  Tweaks = {1}
  Slugs = {g}
  NoAdmin = noAdmin
  Window = 0
  Preview = 1
  Tags = {"moderate"}
  Appointees = {}
  MediaCounts = {0}
  BumpLimits = {2}
  Precisions = {}
  MaxPosts = 3
  MaxTime = 1
  MaxTitles = 1
  MaxBehind = 1
  Written <- MCWritten
  Tokens = {">>", "1", "[/secret]"}
  Existing <- MCExisting
  None = None
  MaxChanges = 1
SYMMETRY Symmetry
SPECIFICATION MCSpec
INVARIANTS TypeOK DeletedCountExact PostsInPlace OffersSafety MarkupSafety
PROPERTIES BumpsWithinLimit EmptiedIsDeleted
