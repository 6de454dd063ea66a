SPECIFICATION FairSpec
CONSTANTS
  None = None
  pA = pA sX = sX sY = sY b1 = b1 b2 = b2
  Keys <- TwoKeys
  LinkIds = {l1, l2}
  Humans = {h1, h2}
  Backfills = {b1, b2}
  FileKeys <- CrossedRows
PROPERTY CommandsEnd
CHECK_DEADLOCK FALSE
