------------------------------- MODULE BoardBits -------------------------------
(***************************************************************************)
(* Board2 as the code stores and computes it: a board is a word per        *)
(* column, a shape four packed nibbles, and every operation is word        *)
(* arithmetic.  The module drops pieces with these operations and compares *)
(* each of them with module Board's definition on sets of rows.            *)
(***************************************************************************)
EXTENDS ValueModels, Bitwise

CONSTANT BITS   (* the width of column_t: 32 in the code *)

\* The static_assert on HEIGHT and one more bit for FLOOR; packed shapes are
\* 16 bits wide.
ASSUME BitsAssumption == BITS \in Nat /\ HEIGHT < BITS /\ 16 <= BITS

VARIABLE cols   (* _cols: one word per column, bit y is row y *)

Bit(y) == 2^y
Bits(w) == {y \in 0..(BITS - 1) : (w \div Bit(y)) % 2 = 1}
BitBoard == [x \in Columns |-> Bits(cols[x])]

\* Unsigned arithmetic on words.
Word(n) == n % 2^BITS
Shl(w, n) == Word(w * Bit(n))
Complement(w) == 2^BITS - 1 - w

\* bits.hpp
ctz(w) == Min(Bits(w) \cup {BITS})
popcount(w) == Cardinality(Bits(w))
bit_width32(w) == Max({b + 1 : b \in Bits(w)} \cup {0})

FIELD == Bit(HEIGHT) - 1
FLOOR == Bit(HEIGHT)

columnTop(w) == ctz(w | FLOOR)
-----------------------------------------------------------------------------
\* PIECE_ORIENTATION_COLUMNS2: one word per column of the box.
BoxColumn(t, o, c) ==
  MapThenSumSet(LAMBDA blk : Bit(blk[2]), {blk \in Blocks[t][o] : blk[1] = c})

BoxLeft(t, o)  == Min({c \in Box : BoxColumn(t, o, c) # 0})
BoxRight(t, o) == Max({c \in Box : BoxColumn(t, o, c) # 0})

\* PIECE_SHAPES and piece_shape_at: the columns packed from the first occupied
\* one, and the board column it stands on.
shape_at(t, o, x) ==
  [cols |-> MapThenSumSet(LAMBDA c : BoxColumn(t, o, c) * Bit(4 * (c - BoxLeft(t, o))),
                          BoxLeft(t, o)..BoxRight(t, o)),
   col0 |-> x + BoxLeft(t, o)]

shape_width(s) == (bit_width32(s.cols) + 3) \div 4

\* The unsigned difference makes columns left of the shape large.
column_of(s, x) ==
  LET d == Word(x - s.col0)
  IN  IF d < PIECE_WIDTH THEN shiftR(s.cols, 4 * d) & 15 ELSE 0

SpanInBounds(s, y) ==
  /\ 0 <= s.col0 /\ s.col0 + shape_width(s) <= WIDTH
  /\ 0 <= y /\ y < HEIGHT

ShapeFree(s, y) ==
  \A x \in Columns :
    LET shifted == Shl(column_of(s, x), y)
    IN  /\ shifted & Complement(FIELD) = 0
        /\ cols[x] & shifted = 0

\* Mutant: the stack above the piece is counted as its landing.
ColumnDropBitsUnmasked(s, x, y) ==
  columnTop(cols[x]) - y - bit_width32(column_of(s, x))

ColumnDropBits(s, x, y) ==
  LET low  == y + bit_width32(column_of(s, x)) - 1
      mask == Complement(Word(Shl(1, low + 1) - 1))
  IN  columnTop(cols[x] & mask) - low - 1

dropDistance(s, y) ==
  Min({HEIGHT} \cup {ColumnDropBits(s, x, y) : x \in {c \in Columns : column_of(s, c) # 0}})

\* fit(): one pass for the collision at the spawn row and the drop distance.
fit(s) ==
  [minDrop |-> dropDistance(s, 0),
   legal   |-> \A x \in Columns : cols[x] & column_of(s, x) = 0]

placed(s, y) == [x \in Columns |-> cols[x] | Shl(column_of(s, x), y)]
-----------------------------------------------------------------------------
fullRowsMask(b) ==
  FoldSet(LAMBDA x, mask : mask & b[x], FIELD, Columns)

\* Mutant: the cleared row stays among the rows below it.
clearLineKeepsRow(col, row) ==
  Shl(col & Word(row - 1), 1) | (col & Complement(Word(row - 1)))

clearLine(col, row) ==
  LET above == col & Word(row - 1)
      below == col & Complement(Word(Shl(row, 1) - 1))
  IN  Shl(above, 1) | below

\* clearLines(col, full_lines): the loop takes the topmost full row each time.
RECURSIVE clearColumn(_, _)
clearColumn(col, full_lines) ==
  LET row == full_lines & Word(Complement(full_lines) + 1)
  IN  IF full_lines = 0 THEN col
      ELSE clearColumn(clearLine(col, row), full_lines ^^ row)

clearLines(b) == [x \in Columns |-> clearColumn(b[x], fullRowsMask(b))]
-----------------------------------------------------------------------------
\* The metrics of a column that are not sums over its cells in the code.
height(w) == HEIGHT - columnTop(w)
HolesOf(w) == height(w) - popcount(w)

\* HOLE_DEPTH_PLANES: plane p has the rows whose number has bit p.
HOLE_DEPTH_PLANES ==
  [p \in 0..(bit_width32(HEIGHT - 1) - 1) |->
     MapThenSumSet(Bit, {y \in Rows : (y \div Bit(p)) % 2 = 1})]

\* Mutant: the topmost plane is left out.
sum_set_bit_indicesShort(w) ==
  MapThenSumSet(LAMBDA p : Bit(p) * popcount(w & HOLE_DEPTH_PLANES[p]),
                DOMAIN HOLE_DEPTH_PLANES \ {Max(DOMAIN HOLE_DEPTH_PLANES)})

sum_set_bit_indices(w) ==
  MapThenSumSet(LAMBDA p : Bit(p) * popcount(w & HOLE_DEPTH_PLANES[p]),
                DOMAIN HOLE_DEPTH_PLANES)

HoleDepthOf(w) ==
  LET n == popcount(w)
  IN  (HEIGHT - 1) * n + (n * (n + 1)) \div 2 - (sum_set_bit_indices(w) + n * n)

TransitionsOf(w) ==
  LET col == w | FLOOR IN popcount((col ^^ shiftR(col, 1)) & FIELD)

vFlipped(b) == [x \in Columns |-> b[WIDTH - 1 - x]]

\* The smaller of the board and its mirror image, comparing column by column.
canonical(b) ==
  LET differ == {x \in Columns : b[x] # vFlipped(b)[x]}
  IN  IF differ # {} /\ vFlipped(b)[Min(differ)] < b[Min(differ)] THEN vFlipped(b) ELSE b
-----------------------------------------------------------------------------
Init == cols = [x \in Columns |-> 0]

\* optDropPlace() at the spawn row, then clearLines(), as TetrisEngine's place.
DropPiece(t, o, x) ==
  LET s == shape_at(t, o, x)
  IN  /\ SpanInBounds(s, 0) /\ ShapeFree(s, 0)
      /\ cols' = clearLines(placed(s, dropDistance(s, 0)))

\* A board is replaced by an empty one.
Reset == cols' = [x \in Columns |-> 0]

Next == Reset \/ \E t \in Types, o \in Orientation, x \in WindowXs : DropPiece(t, o, x)

Spec == Init /\ [][Next]_cols
-----------------------------------------------------------------------------
\* Legality and drop distances in word arithmetic are those of the sets of
\* rows: for every shape, also partly beside the board, and every row from
\* which it can fall; and the fused fit() the search uses is the pair of them.
FitAgrees ==
  \A t \in Types, o \in Orientation, x \in WindowXs, y \in Rows :
    LET s == shape_at(t, o, x)
        a == PieceShapeAt(t, o, x)
        ok == Available(BitBoard, t, o, <<x, y>>)
    IN  /\ (SpanInBounds(s, y) /\ ShapeFree(s, y)) <=> ok
        /\ ok => dropDistance(s, y) = DropDistance(BitBoard, a, y)
        /\ y = 0 /\ SpanInBounds(s, 0) => fit(s).legal <=> ok
        /\ y = 0 /\ ok => fit(s).minDrop = dropDistance(s, 0)

\* Every drop, with its locking and the loop of single-row shifts that clears
\* the full rows, is the drop on sets of rows, and leaves no bit of a shifted
\* nibble or of the floor's sentinel outside the field.
StepsAgree ==
  [][ /\ \A x \in Columns : cols'[x] \in 0..FIELD
      /\ \/ BitBoard' = EmptyBoard
         \/ \E t \in Types, o \in Orientation, x \in WindowXs :
              LET a == PieceShapeAt(t, o, x)
              IN  /\ Available(BitBoard, t, o, <<x, 0>>)
                  /\ BitBoard' = ClearLines(Placed(BitBoard, a, DropDistance(BitBoard, a, 0)))]_cols

\* The closed formulas for the depth of the holes (bit planes, no loop over
\* rows), the transitions (the column against itself shifted, with the floor
\* bit) and the holes count, column by column, what their names say cell by
\* cell.
MetricsAgree ==
  \A x \in Columns :
    LET col == BitBoard[x]
    IN  /\ HolesOf(cols[x]) = Cardinality({y \in Rows \ col : \E r \in col : r < y})
        /\ HoleDepthOf(cols[x]) = ColumnHoleDepth(col)
        /\ TransitionsOf(cols[x]) = ColumnTransitions(col)

\* Every version of the value model reads the same inputs off a board and its
\* mirror image, on which search_move_beam relies when it scores the raw board
\* where search_move scores the canonical one: the well of the last column is
\* the well of the first, and the order of the columns is lost in every sum.
InputsIgnoreMirroring ==
  LET same == [x \in Columns |-> Bits(canonical(cols)[x])]
      none == [k \in 1..BLOCKS |-> 0]
  IN  /\ canonical(vFlipped(cols)) = canonical(cols)
      /\ InputsV9(none, same, FALSE) = InputsV9(none, BitBoard, FALSE)
      /\ InputsV11(none, same, FALSE) = InputsV11(none, BitBoard, FALSE)
=============================================================================
