CONSTANTS
  Root = root
  Ann = ann
  Bob = bob
  Users = {root, ann, bob}
  Tweaks = {1, 2}
  Slugs = {g}
  NoAdmin = noAdmin
  Window = 1
  Preview = 1
  RoleTags = {"forum_moderator", "board_moderator", "thread_moderator", "set_admin",
              "thread_set_closed", "board_set_closed"}
  ClockTags = {"moderate", "migrate", "set_timestamp_precision"}
  Tags = {}
  Appointees = {ann}
  MediaCounts = {0}
  BumpLimits = {1}
  Precisions = {2}
  MaxPosts = 2
  MaxTime = 2
SPECIFICATION MCSpec
INVARIANTS DeletedIsClosed
PROPERTIES DeletedTakesNoPosts AuthorityIsKept
