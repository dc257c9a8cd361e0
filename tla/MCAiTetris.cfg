CONSTANTS
  WIDTH = 4
  HEIGHT = 4
  PIECE_QUEUE_SIZE = 4
  Types <- MCTypes4
  Blocks <- PIECE_ORIENTATION_OFFSETS
  DEPTH = 3
  BeamWidths <- MCWidths3
  Evaluate <- MCEvaluate
  Models <- MCModels
  MAX_MOVES = 2
SPECIFICATION AiSpec
INVARIANTS ResultIsALine AlwaysAMove WideBeamIsExhaustive
PROPERTIES PlaysTheEngine
