SPECIFICATION Spec
CONSTANTS
  c1 = c1
  c2 = c2
  Conns <- MCConns
  Cases <- HeaderCases
  MaxField = 4
  MaxPath = 4
  PathText <- MCPathText
  MaxQuery = 3
  MaxArgs = 5
  MaxBulkLen = 3
  MaxInlineLen = 5
  MaxBody = 4
INVARIANT EveryCredentialLogged
