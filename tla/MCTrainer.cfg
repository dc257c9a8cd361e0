CONSTANTS
  BASE_DIR <- MCPlainFile
  MAX_BACKUPS = 1
  ITERATIONS_PER_CYCLE = 2
  FAULTS = {"crash", "disk"}
  MAX_STATE = 3
  MAX_CLOCK = 5
SPECIFICATION Spec
CHECK_DEADLOCK FALSE
INVARIANTS CheckpointIsCurrent LossIsBounded BackupsArePaired
PROPERTIES StopEnds
