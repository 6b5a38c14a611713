CONSTANTS
  Posts = {1, 2}
  BATCH_CHUNK = 1
  MaxFlows = 2
  MaxStarts = 2
  Boards = {"a", "b"}
  Threads = {"t", "u"}
  Images = {"i"}
  MaxPins = 2
  MaxSaves = 5
SPECIFICATION MCSpec
INVARIANTS SelectionPart BoardSettingsSafety
PROPERTIES ClosedWhenDonePart OnlyTakenVanish
\* The bounds are reached.
CHECK_DEADLOCK FALSE
