SPECIFICATION Spec
CONSTANTS
  Handle = {h1, h2, h3, h4, h5, h6, h7}
  AppRoles = {ard}
  ImpRoles = {}
  None = None
INVARIANTS
  TypeOK
  RegistryExact
  NothingOutlivesParent
  HeldByOwner
  StatementHasDescriptors
PROPERTIES
  FreesSubtrees
SYMMETRY Symmetry
VIEW View
