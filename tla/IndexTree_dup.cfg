SPECIFICATION FairSpec
CONSTANTS
  Keys = {1, 2, 3}
  UniqueKeys = {1, 2, 3, 4, 5, 6, 7}
  Order = 2
  MaxEntries = 7
  MaxDeletes = 1
  MaxCrashes = 0
INVARIANTS TypeOK SearchFinds RangeFinds WellLinked UniqueKept
PROPERTIES InsertEnds
