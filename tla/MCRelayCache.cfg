\* One of each kind of change, two of them at most in a behaviour; requests one
\* after another, at any relay, and no interruption.
CONSTANTS
  Relays = {a, b}
  Readers = {q1}
  Posts = {post}
  Reactions = {react}
  Moderations = {mod}
  Settings = {set}
  MaxChanges = 2
  MaxReads = 2
  MaxOutages = 0
SYMMETRY Symmetry
SPECIFICATION Spec
INVARIANTS CacheSafety
\* The bounds on changes and requests are reached.
CHECK_DEADLOCK FALSE
