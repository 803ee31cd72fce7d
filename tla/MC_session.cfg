CONSTANTS
  c1 = c1
  u1 = u1
  t1 = t1
  orig = orig
  edit = edit
  None = None
  Original = orig
  Foreign = {edit}
  File <- MCFile
  Kind <- MCKind
  Target <- MCTarget
  Changed <- MCChanged
  Inputs <- MCChanged
  Keep = {}
  Proc = {c1, u1}
  Txn = {t1}
  MaxEdits = 1
  MaxFaults = 1
  MaxCrashes = 1
  IncludeUndoable = FALSE
  RemoveRecords = FALSE
  Launched = {c1}
  Signal = {"TERM"}
  Formatters <- MCFormatters
  Bytes <- MCBytes
  Parsable = {1}
  Limit = 3
SPECIFICATION SessionSpec
CHECK_DEADLOCK FALSE
INVARIANTS WrittenAsShown WrittenIsApplied PartialIsTold StatusPassedOn EachRelayedOnce
