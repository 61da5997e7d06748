SPECIFICATION Spec
CONSTANTS
  a = a
  b = b
  c = c
  Names = {a, b, c}
  Widths = {1, 2}
  Creations <- MCCreations
  Required <- MCRequired
  None = None
  MaxAlters = 4
  MaxRows = 2
  MaxCrashes = 0
INVARIANTS AddFillsZero
