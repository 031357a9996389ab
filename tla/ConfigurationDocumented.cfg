SPECIFICATION Spec
CONSTANTS
  Strings <- SmallStrings
  Sections <- SmallSections
  Uri <- SmallUri
  NumberOf <- SmallNumberOf
  Catalogs = {"c"}
  None = None
INVARIANTS
  AsDocumentedInPart
CHECK_DEADLOCK FALSE
