CONSTANTS
  WIDTH = 4
  HEIGHT = 6
  PIECE_QUEUE_SIZE = 2
  Types <- MCTypesIS
  Blocks <- PIECE_ORIENTATION_OFFSETS
SPECIFICATION Spec
INVARIANTS TypeOK NoFullRows DropIsGravity GameOverIsTopOut TableIsExact
PROPERTIES CellsConserved ImplementsPieceFlow
