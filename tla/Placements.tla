------------------------------ MODULE Placements ------------------------------
(***************************************************************************)
(* The placement table of the search (placements.hpp): for every piece the *)
(* drops (orientation, x) worth trying on any board.  Orientations whose   *)
(* shapes differ only by a shift in the box are tried once.                *)
(***************************************************************************)
EXTENDS Board, SequencesExt

\* The occupied columns of the box, which are adjacent: piece_columns2.
BoxColumns(t, o) == {blk[1] : blk \in Blocks[t][o]}
Left(t, o) == CHOOSE c \in BoxColumns(t, o) : c - 1 \notin BoxColumns(t, o)
NumColumns(t, o) == Cardinality(BoxColumns(t, o))

\* Mutant: the window itself is kept on the board instead of the piece.
orientation_range_window(t, o) == [xMin |-> 0, xMax |-> WIDTH - PIECE_WIDTH]

orientation_range(t, o) ==
  [xMin |-> -Left(t, o), xMax |-> WIDTH - Left(t, o) - NumColumns(t, o)]

X_BIAS == 2

\* What the packed byte rests on: four bits hold every biased x of a range,
\* and the blocks of a shape stand in adjacent columns.
ASSUME PlacementAssumption ==
  \A t \in Types, o \in Orientation :
    /\ \A c, d \in BoxColumns(t, o) : c..d \subseteq BoxColumns(t, o)
    /\ orientation_range(t, o).xMin + X_BIAS >= 0
    /\ orientation_range(t, o).xMax + X_BIAS < 16

encode(o, x) == (o % 4) + 4 * ((x + X_BIAS) % 16)

decode(byte) == [orientation |-> byte % 4, x |-> ((byte \div 4) % 16) - X_BIAS]

\* The shape moved to the left and to the top of the box.
signature(t, o) ==
  LET rows == {blk[2] : blk \in Blocks[t][o]}
      top  == CHOOSE r \in rows : \A q \in rows : r <= q
  IN  {<<blk[1] - Left(t, o), blk[2] - top>> : blk \in Blocks[t][o]}

representatives(t) ==
  {o \in Orientation : \A p \in Orientation : p < o => signature(t, p) # signature(t, o)}

\* The entries of one orientation, x going up.
OrientationEntries(t, o) ==
  LET range == orientation_range(t, o)
  IN  IF o \in representatives(t)
        THEN [i \in 1..(range.xMax - range.xMin + 1) |-> encode(o, range.xMin + i - 1)]
        ELSE <<>>

\* PLACEMENT_LUT, sliced by piece.
PLACEMENTS ==
  [t \in Types |-> FlattenSeq([i \in 1..4 |-> OrientationEntries(t, i - 1)])]

n_theoretical_placements(t) == Len(PLACEMENTS[t])

\* The i-th placement counting from 0.
nth_placement(t, i) == decode(PLACEMENTS[t][i + 1])

MAX_PLACEMENTS == Max({n_theoretical_placements(t) : t \in Types})

\* The drop of piece t on board b, before lines are cleared.
RestingBoard(b, t, o, x) ==
  LET s == PieceShapeAt(t, o, x) IN Placed(b, s, DropDistance(b, s, 0))

TableDrops(t) == {nth_placement(t, i) : i \in 0..(n_theoretical_placements(t) - 1)}
LegalDrops(b, t) ==
  {d \in [orientation : Orientation, x : WindowXs] :
     Available(b, t, d.orientation, <<d.x, 0>>)}

\* The stack leaves the rows of the spawn box free.
SpawnRowsFree(b) == \A x \in Columns : b[x] \cap Box = {}

\* The table against the definition of a legal drop: every entry keeps the
\* piece between the walls (the @pre of Board2::fit); and on a board whose
\* spawn rows are free the entries of a piece are all legal, rest pairwise
\* differently and rest everywhere any legal drop does, so that searching the
\* table loses nothing and repeats nothing.
TableIsExactOn(b) ==
  \A t \in Types :
    LET rests(drops) == {RestingBoard(b, t, d.orientation, d.x) : d \in drops}
    IN  /\ \A d \in TableDrops(t) : OffsetInBounds(PieceShapeAt(t, d.orientation, d.x), 0)
        /\ SpawnRowsFree(b) =>
             /\ TableDrops(t) \subseteq LegalDrops(b, t)
             /\ rests(TableDrops(t)) = rests(LegalDrops(b, t))
             /\ Cardinality(rests(TableDrops(t))) = n_theoretical_placements(t)
=============================================================================
