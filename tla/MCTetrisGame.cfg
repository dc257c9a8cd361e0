CONSTANTS
  WIDTH = 4
  HEIGHT = 4
  PIECE_QUEUE_SIZE = 1
  Types <- MCTypesLI
  Blocks <- PIECE_ORIENTATION_OFFSETS
SPECIFICATION Spec
INVARIANTS InFlightFits GhostIsGravity
