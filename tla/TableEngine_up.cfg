SPECIFICATION Spec
CONSTANTS
  id = id
  v = v
  a = a
  b = b
  Missing = Missing
  Columns = {id, v}
  PK = id
  UniqueCols = {}
  Values = {0, 1, 2}
  RunsOn = {2}
  Inputs = {0, 1, 2}
  Legal <- MCLegal
  IndexNames = {a, b}
  IndexDefs <- MCIndexDefs
  Stored <- MCStored
  Updated <- MCUpdated
  Read <- MCRead
  Shown <- MCShown
  Pack <- MCPack
  Predicates <- MCPredicates
  Assignments <- MCAssignments
  Sources <- MCSources
  MaxRows = 3
  MaxCrashes = 0
INVARIANTS TypeOK IndexAgrees UniqueEnforced RecordNumAgrees NoOrphanFile ErrorKeepsRows
PROPERTIES ImplementsTable
