CONSTANTS
  o1 = o1
  o2 = o2
  Op <- MCOp
  Snapshot <- MCSnapshot
  ByteRange <- MCByteRange
  Replacement <- MCReplacement
  Missing = Missing
  Require <- MCRequire
  OnUnparseable <- MCOnUnparseable
  Expected <- MCExpected
  Newline = "crlf"
  Contexts <- MCContexts
  Budgets <- MCBudgets
  MaxEvidence = 3
SPECIFICATION Spec
INVARIANTS ConflictFreeApplies OutputIsSubstitution EvidenceAccounted ProvidersAgree CountedTruly DiffTells
CHECK_DEADLOCK FALSE
