SPECIFICATION Spec
CONSTANTS
  UserDescs = {"user"}
  MaxRec = 2
  CTypes = {"char"}
  DescTypes = {"char", "date", "datetime"}
  SqlTypes = {"char", "date"}
  Codes = {1}
  MaxCalls = 4
  MaxDirect = 1
INVARIANTS
  TypeOK
  TypesAgree
PROPERTIES
  NothingComesBack
  BindsParameters
CHECK_DEADLOCK FALSE
