CONSTANTS
  Requests = {r1, r2}
  Keys = {k1}
  Coins = {c1, c2}
  NoCoin = noCoin
  Texts = {}
  NoText = none
  MaxBatch = 1
SPECIFICATION FairSpec
PROPERTIES Answered
CHECK_DEADLOCK FALSE
