CONSTANTS
  c1 = c1
  c2 = c2
  u1 = u1
  u2 = u2
  r1 = r1
  g1 = g1
  t1 = t1
  t2 = t2
  orig = orig
  edit = edit
  None = None
  Original = orig
  Foreign = {edit}
  File <- MCFile
  Kind <- MCKind
  Target <- MCTarget
  Changed <- MCChanged
  Inputs <- MCInputs
  Keep = {}
  Proc = {c1, g1}
  Txn = {t1}
  MaxEdits = 0
  MaxFaults = 1
  MaxCrashes = 0
  IncludeUndoable = TRUE
  RemoveRecords = FALSE
SPECIFICATION Spec
CHECK_DEADLOCK FALSE
PROPERTY PartialNeverPruned
