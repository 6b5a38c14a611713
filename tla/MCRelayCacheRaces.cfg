\* The moderation of a post, two requests at a time and an interruption.
CONSTANTS
  Relays = {a, b}
  Readers = {q1, q2}
  Posts = {}
  Reactions = {}
  Moderations = {mod}
  Settings = {}
  MaxChanges = 1
  MaxReads = 2
  MaxOutages = 1
SYMMETRY Symmetry
SPECIFICATION Spec
INVARIANTS ModerationSeen
\* The bounds on changes and requests are reached.
CHECK_DEADLOCK FALSE
