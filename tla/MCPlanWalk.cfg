CONSTANTS
  DEPTH = 4
  Types = {p1, p2, p3, p4, p5, p6}
  PIECE_QUEUE_SIZE = 5
SPECIFICATION WalkSpec
INVARIANTS TypeOK WindowDistinct PlanMirrorsFlow ChildrenAreDecisions
SYMMETRY MCSymmetry
