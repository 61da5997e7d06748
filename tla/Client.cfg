CONSTANTS
  d1 = d1
  d2 = d2
  k = k
  v = v
  w = w
  Databases <- MCDatabases
  Tables = {t}
  Keys <- MCKeys
  Vals <- MCVals
  Kept <- MCKept
  Altered <- MCAltered
  Found = {k}
  None = None
  MaxRows = 1
  MaxAlters = 2
SYMMETRY MCSymmetry
SPECIFICATION Spec
INVARIANTS
  AnswersMatch
  OriginalsOnServer
PROPERTY
  TablesAsAsked
