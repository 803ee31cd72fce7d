CONSTANTS
  File <- MCFile
  Operand <- MCFile
  Reserved = {}
  Ignored = {"gen", "plan"}
  FileOperand = {"main"}
  Globbed <- MCFile
  Link <- MCLink
  Language <- MCLanguage
  Unknown = "none"
  Detected <- MCDetected
  Content <- MCContent
  Absent = "absent"
  Versions <- MCVersions
  Unsnapshot = {"blob"}
  Spot = {1, 2}
  Holds <- MCHolds
  Lexical <- MCLexical
  Structural <- MCStructural
  Broken = {"py"}
  PlanFile = "plan"
  Starts <- MCStarts
  Options <- MCOptions
  MaxEdits = 2
SPECIFICATION Spec
CHECK_DEADLOCK FALSE
INVARIANTS NothingMissed ScopeKept RefusedOnlyIfChanged Recoverable
PROPERTIES MatchedIsReplaced Ends
