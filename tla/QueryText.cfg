SPECIFICATION Spec
CONSTANTS
  Numbers = {"0", "2", "9", "16", "38"}
  Statements <- MCStatements
  Letters = {"w"}
  Digits = {"1"}
  Placeholders = {m1, m2, m3, m4, m5}
  MaxParameters = 5
  RewriteEscape <- processEscapeSequences
  MaxLength = 5
INVARIANTS
  MarkersAreParameters
  EscapesInPlace
  EscapesRewritten
  TypeNamesUnderstood
CHECK_DEADLOCK FALSE
