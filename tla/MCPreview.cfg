CONSTANTS
  MAX_WORKERS = 3
  BOARDS = 2
  STOP_CALLED = TRUE
SPECIFICATION Spec
INVARIANTS DestructorJoinsFirst OneWorkerGoesOn FrameIsOneSnapshot
PROPERTIES CallsReturn NewestIsDrawn
