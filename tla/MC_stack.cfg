CONSTANTS
  c1 = c1
  c2 = c2
  u1 = u1
  u2 = u2
  r1 = r1
  g1 = g1
  t1 = t1
  t2 = t2
  orig = orig
  edit = edit
  None = None
  Original = orig
  Foreign = {edit}
  File <- MCFile
  Kind <- MCKind
  Target <- MCTarget
  Changed <- MCChanged
  Inputs <- MCInputs
  Keep = {t2}
  Proc = {c1, c2, u1}
  Txn = {t1, t2}
  MaxEdits = 1
  MaxFaults = 1
  MaxCrashes = 0
  IncludeUndoable = FALSE
  RemoveRecords = FALSE
SPECIFICATION Spec
CHECK_DEADLOCK FALSE
INVARIANTS FreshPlan
PROPERTY NoLostOutput
