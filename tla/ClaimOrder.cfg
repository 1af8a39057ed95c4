SPECIFICATION Spec
CONSTANTS
    Second = {0, 1}
    Digit = {0, 1, 2}
    Width = 2
    MaxRows = 2
INVARIANTS
    CreatedAtOrder
CHECK_DEADLOCK FALSE
