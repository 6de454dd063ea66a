SPECIFICATION Spec
CONSTANTS
  None = None
  pA = pA sX = sX sY = sY b1 = b1 b2 = b2
  Keys <- TwoKeys
  LinkIds = {l1, l2, l3}
  Humans = {h1, h2}
  Backfills = {b1}
  FileKeys <- OneRow
SYMMETRY HumanAndIdSymmetry
INVARIANTS OneCurrentPerKey LineageNeverForks ReplacementNeverOrphaned ReplaySafe
PROPERTIES HumanIntentHolds
CHECK_DEADLOCK FALSE
