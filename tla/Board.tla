-------------------------------- MODULE Board --------------------------------
(***************************************************************************)
(* Board2: the occupancy-only board of ta3_sim.  The code keeps one 32-bit *)
(* word per column whose bit y marks row y (row 0 is the top row); here a  *)
(* column is the set of its occupied rows.  MCBoardBits checks the words   *)
(* against these sets.                                                     *)
(***************************************************************************)
EXTENDS Pieces, FiniteSetsExt

CONSTANTS
  WIDTH,    (* number of columns                                       *)
  HEIGHT,   (* number of rows                                          *)
  Blocks    (* Blocks[t][o]: the blocks of piece t in orientation o    *)

\* A spawning piece needs its 4x4 window on the board; HEIGHT <= 31 is the
\* static_assert of column_t together with the FLOOR bit.
ASSUME BoardAssumption ==
  /\ WIDTH \in Nat /\ WIDTH >= PIECE_WIDTH
  /\ HEIGHT \in PIECE_WIDTH..31

Box == 0..(PIECE_WIDTH - 1)

\* What the piece table guarantees: every shape has four blocks, in the 4x4
\* box, and its blocks in one column are contiguous.
ASSUME BlocksAssumption ==
  \A t \in Types, o \in Orientation :
    /\ Blocks[t][o] \subseteq Box \X Box
    /\ Cardinality(Blocks[t][o]) = BLOCKS
    /\ \A c, y1, y2, y \in Box :
         /\ <<c, y1>> \in Blocks[t][o]
         /\ <<c, y2>> \in Blocks[t][o]
         /\ y1 <= y /\ y <= y2
         => <<c, y>> \in Blocks[t][o]

Columns == 0..(WIDTH - 1)
Rows == 0..(HEIGHT - 1)
Boards == [Columns -> SUBSET Rows]
EmptyBoard == [x \in Columns |-> {}]

\* Window origins for which some block of a piece can be on the board.
WindowXs == (1 - PIECE_WIDTH)..(WIDTH - 1)
-----------------------------------------------------------------------------
\* A piece_shape: the blocks of an oriented piece and the window x-origin.
PieceShapeAt(t, o, x) == [blocks |-> Blocks[t][o], x |-> x]

\* The rows the shape occupies in board column x, relative to its window.
ColumnOf(s, x) == {b[2] : b \in {b \in s.blocks : s.x + b[1] = x}}

ShiftedColumn(s, x, y) == {r + y : r \in ColumnOf(s, x)}

\* The board columns the shape spans.
SpannedColumns(s) == {x \in Columns : ColumnOf(s, x) # {}}

\* available(piece_shape, y): collision and bottom bound.
Free(b, s, y) ==
  \A x \in Columns : /\ ShiftedColumn(s, x, y) \subseteq Rows
                     /\ ShiftedColumn(s, x, y) \cap b[x] = {}

OffsetInBounds(s, y) ==
  /\ \A blk \in s.blocks : s.x + blk[1] \in Columns
  /\ y \in Rows

\* available(PieceType, Orientation, vec2)
Available(b, t, o, offset) ==
  LET s == PieceShapeAt(t, o, offset[1])
  IN  OffsetInBounds(s, offset[2]) /\ Free(b, s, offset[2])

ColumnTop(col) == Min(col \cup {HEIGHT})

\* Mutant: one bottom row for the whole shape instead of one per column.
FlatLowestBlock(s, x, y) == y + Max({blk[2] : blk \in s.blocks})

\* The row of the shape's lowest block in column x.
LowestBlock(s, x, y) == y + Max(ColumnOf(s, x))

\* Mutants: the landing row is counted as a row of the fall; the stack above
\* the piece is not masked out.
ColumnDropIntoStack(b, s, x, y) ==
  ColumnTop({r \in b[x] : r > LowestBlock(s, x, y)}) - LowestBlock(s, x, y)
ColumnDropUnmasked(b, s, x, y) == ColumnTop(b[x]) - LowestBlock(s, x, y) - 1

ColumnDrop(b, s, x, y) ==
  LET low == LowestBlock(s, x, y)
  IN  ColumnTop({r \in b[x] : r > low}) - low - 1

\* dropDistance: the stack at or above a column's lowest block is ignored.
DropDistance(b, s, y) ==
  Min({HEIGHT} \cup {ColumnDrop(b, s, x, y) : x \in SpannedColumns(s)})

\* placed(piece_shape, y); place(piece_shape, y) assigns it.
Placed(b, s, y) == [x \in Columns |-> b[x] \cup ShiftedColumn(s, x, y)]

FullRows(b) == {y \in Rows : \A x \in Columns : y \in b[x]}

\* Mutant: every surviving row falls, also those below the cleared rows.
ClearColumnDropAll(col, full) == {y + Cardinality(full) : y \in col \ full}

\* clearLines(col, full_lines): every surviving row falls by the number of
\* cleared rows below it.
ClearColumn(col, full) ==
  {y + Cardinality({r \in full : r > y}) : y \in col \ full}

\* Mutant: only the topmost full row is cleared.
ClearTopLine(b) ==
  [x \in Columns |-> IF FullRows(b) = {} THEN b[x]
                     ELSE ClearColumn(b[x], {Min(FullRows(b))})]

ClearLines(b) == [x \in Columns |-> ClearColumn(b[x], FullRows(b))]

\* The occupied cells and their number; no code computes it.
Stack(b) == {c \in Columns \X Rows : c[2] \in b[c[1]]}
CellCount(b) == Cardinality(Stack(b))
=============================================================================
