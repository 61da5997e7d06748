SPECIFICATION Spec
CONSTANTS
  a = a
  b = b
  c = c
  Names = {a, b, c}
  Widths = {1, 2}
  Creations <- MCCreations
  Required <- MCRequired
  None = None
  MaxAlters = 2
  MaxRows = 2
  MaxCrashes = 2
INVARIANTS TypeOK RowsKept CountsAgree FieldsDistinct CreatedWhole DroppedWhole
