CONSTANTS
  WIDTH = 4
  HEIGHT = 4
  PIECE_QUEUE_SIZE = 5
  Types <- MCTypes
  Blocks <- PIECE_ORIENTATION_OFFSETS
  DEPTH = 4
  BeamWidths <- MCWidths
  Evaluate <- evaluate
  BLOCK = 3
  Ks <- MCKs
  NUM_PARAMS = 97
  LOWEST <- MCLowest
  WarpSizes <- MCWarpSizes
  GameIds <- MCGameIds
  num_games = 1
  weights <- MCWeights
  max_moves = 3
  Deals <- MCDeals
  JUNK = 7
SPECIFICATION KernelSpec
INVARIANTS NoDataRace BarrierUniform FrontierIsPlayable
PROPERTIES ImplementsHostEval KernelEnds
CHECK_DEADLOCK FALSE
