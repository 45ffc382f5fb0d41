SPECIFICATION ProcessSpec
CONSTANTS
  Wirings <- MCWirings
  Silence = 1
  MaxRestarts = 1
  MaxUpsets <- MCUpsets
CHECK_DEADLOCK FALSE
INVARIANTS
  ServicesHold
PROPERTIES
  SupervisionSettles
