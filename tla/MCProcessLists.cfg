SPECIFICATION Spec
CONSTANTS
  Size = 3
  Names = {a, b}
  MaxCount = 3
  Careful = TRUE
SYMMETRY Interchangeable
INVARIANTS TypeOK ListsConsistent SetsAgree
CHECK_DEADLOCK FALSE
