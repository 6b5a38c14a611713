CONSTANTS
  Requests = {r1, r2}
  Keys = {k1, k2}
  Coins = {c1, c2}
  NoCoin = noCoin
  Texts = {x}
  NoText = none
  MaxBatch = 2
SYMMETRY Symmetry
SPECIFICATION MCSpec
INVARIANTS NonceSequence OkMeansApplied ContentKept
PROPERTIES KeepsPromise
CHECK_DEADLOCK FALSE
