SPECIFICATION Spec
CONSTANTS
  Stmts = {s1, s2}
  Queries = {q1, q2}
  RetryCount = 1
  RedirectLimit = 2
  MaxParamSets = 2
  None = None
  Orphan = Orphan
PROPERTIES
  ActiveStatementsUnlimited
