SPECIFICATION Spec
CONSTANTS
  None = None
  pA = pA sX = sX sY = sY b1 = b1 b2 = b2
  Keys <- OneKey
  LinkIds = {l1, l2, l3}
  Humans = {h1}
  Backfills = {b1}
  FileKeys <- OneRow
PROPERTY NoAutomaticRevival
CHECK_DEADLOCK FALSE
