CONSTANTS
  MaxMsgs = 3
  Times = {0, 1, 2, 3}
  MaxSeq = 6
SPECIFICATION Spec
INVARIANTS TypeOK Density SearchFindsStart
PROPERTY LogSpec
CHECK_DEADLOCK FALSE
