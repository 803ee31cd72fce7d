CONSTANTS
  c1 = c1
  c2 = c2
  u1 = u1
  u2 = u2
  r1 = r1
  g1 = g1
  t1 = t1
  t2 = t2
  orig = orig
  edit = edit
  None = None
  Original = orig
  Foreign = {edit}
  File <- MCPair
  Kind <- MCKind
  Target <- MCTarget
  Changed <- MCChanged
  Inputs <- MCInputs
  Keep = {}
  Proc = {c1, u1, g1}
  Txn = {t1}
  MaxEdits = 1
  MaxFaults = 1
  MaxCrashes = 1
  IncludeUndoable = FALSE
  RemoveRecords = FALSE
SPECIFICATION FairSpec
CHECK_DEADLOCK FALSE
INVARIANTS RecordTruthful PrunedIsDead
PROPERTIES OnlyUnseenEditsLost Termination
