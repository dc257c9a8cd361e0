CONSTANTS
  BASE_DIR <- MCInDirectory
  MAX_BACKUPS = 1
  ITERATIONS_PER_CYCLE = 2
  FAULTS = {}
  MAX_STATE = 3
  MAX_CLOCK = 5
SPECIFICATION Spec
CHECK_DEADLOCK FALSE
INVARIANTS StopsCleanly
