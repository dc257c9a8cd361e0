----------------------------- MODULE BoardMetrics -----------------------------
(***************************************************************************)
(* The board metrics the value models and the game score are built from    *)
(* (v_board_metrics.hpp).  Each is a sum or a maximum over the columns.    *)
(* Here they are defined cell by cell; BoardBits has the word arithmetic.  *)
(***************************************************************************)
EXTENDS Board

ASSUME TwoColumnsAssumption == WIDTH >= 2

Height(col) == HEIGHT - ColumnTop(col)

\* Empty cells with a block somewhere above them.
ColumnHoles(col) == Height(col) - Cardinality(col)

\* Pairs of a block and an empty cell below it.
ColumnHoleDepth(col) ==
  MapThenSumSet(LAMBDA y : Cardinality({r \in Rows : r > y} \ col), col)

\* Changes between filled and empty going down a column; below it is filled.
ColumnTransitions(col) ==
  Cardinality({y \in Rows : (y \in col) # (y + 1 \in col \cup {HEIGHT})})

board_holes(b) == MapThenSumSet(LAMBDA x : ColumnHoles(b[x]), Columns)
board_hole_depths(b) == MapThenSumSet(LAMBDA x : ColumnHoleDepth(b[x]), Columns)
board_y_transitions(b) == MapThenSumSet(LAMBDA x : ColumnTransitions(b[x]), Columns)
board_agg_height(b) == MapThenSumSet(LAMBDA x : Height(b[x]), Columns)
board_max_height(b) == Max({Height(b[x]) : x \in Columns})

\* What a step over the columns from left to right sees: the difference to the
\* height before.
Slope(b, x) == Height(b[x]) - Height(b[x - 1])
InnerColumns == Columns \ {0}

board_bumpiness(b) ==
  MapThenSumSet(LAMBDA x : Max({Slope(b, x), -Slope(b, x)}), InnerColumns)

\* The square of board_surface_var.
SurfaceSquare(b) == MapThenSumSet(LAMBDA x : Slope(b, x) * Slope(b, x), InnerColumns)

WELL_DEPTH == 3

\* Mutant: the last column is a well when its neighbour is not lower.
IsWellLopsided(b, x) ==
  LET deep(n) == Height(b[n]) >= Height(b[x]) + WELL_DEPTH
  IN  CASE x = 0         -> deep(1)
        [] x + 1 = WIDTH -> Height(b[WIDTH - 2]) >= Height(b[x])
        [] OTHER         -> deep(x - 1) /\ deep(x + 1)

\* A column is a well when every neighbour stands WELL_DEPTH higher.
IsWell(b, x) ==
  LET deep(n) == Height(b[n]) >= Height(b[x]) + WELL_DEPTH
  IN  CASE x = 0         -> deep(1)
        [] x + 1 = WIDTH -> deep(WIDTH - 2)
        [] OTHER         -> deep(x - 1) /\ deep(x + 1)

board_wells(b) == Cardinality({x \in Columns : IsWell(b, x)})
=============================================================================
