SPECIFICATION Spec
CONSTANTS
  Keys = {1, 2}
  UniqueKeys = {1, 2, 3}
  Order = 2
  MaxEntries = 7
  MaxDeletes = 0
  MaxCrashes = 1
INVARIANTS SearchesEnd SearchFinds
