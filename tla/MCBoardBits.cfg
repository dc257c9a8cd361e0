CONSTANTS
  WIDTH = 4
  HEIGHT = 4
  BITS = 16
  Types <- MCTypesIJO
  Blocks <- PIECE_ORIENTATION_OFFSETS
SPECIFICATION Spec
INVARIANTS FitAgrees MetricsAgree InputsIgnoreMirroring
PROPERTIES StepsAgree
