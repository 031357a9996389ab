SPECIFICATION Spec
CONSTANTS
  Strings <- SmallStrings
  Sections <- SmallSections
  Uri <- SmallUri
  NumberOf <- SmallNumberOf
  Catalogs = {"c"}
  None = None
INVARIANTS
  SourcesInOrder
  SessionFollows
CHECK_DEADLOCK FALSE
