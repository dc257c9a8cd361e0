----------------------------- MODULE RulesProofs -----------------------------
(***************************************************************************)
(* Facts about the operators the machines are built from: of Board, for    *)
(* every board size and piece table; of PieceBag's shuffles and draws, for *)
(* any set of pieces; and of SearchPlans' hold plans and their tree, for   *)
(* every depth.                                                            *)
(***************************************************************************)
EXTENDS Board, PieceBag, SearchPlans, TLAPS, FiniteSetTheorems

\* A shape that some piece can have, at any window origin.
Shapes ==
  [blocks : SUBSET (Box \X Box), x : Int]

\* The blocks of a shape are contiguous in each column, and there are some.
Solid(s) ==
  /\ s.blocks # {}
  /\ \A c, y1, y2, y \in Box :
       /\ <<c, y1>> \in s.blocks
       /\ <<c, y2>> \in s.blocks
       /\ y1 <= y /\ y <= y2
       => <<c, y>> \in s.blocks

\* A non-empty set of naturals has the least element Min returns.
LEMMA MinOfNaturals ==
  ASSUME NEW S \in SUBSET Nat, S # {}
  PROVE  Min(S) \in S /\ \A y \in S : Min(S) <= y
<1> DEFINE T == {0..n : n \in S}
<1>1. T \subseteq FiniteSubsetsOf(Nat) /\ T # {}
  <2>1. ASSUME NEW n \in S
        PROVE  0..n \in SUBSET Nat /\ IsFiniteSet(0..n)
    BY FS_Interval
  <2>2. QED
    BY <2>1 DEF FiniteSubsetsOf
<1>2. PICK t \in T : \A u \in T : <<u, t>> \notin StrictSubsetOrdering(Nat)
  <2> HIDE DEF T
  <2>1. QED
    BY <1>1, WFMin, FS_StrictSubsetOrderingWellFounded
<1>3. PICK n \in S : t = 0..n
  OBVIOUS
<1>4. ASSUME NEW m \in S, m < n
      PROVE  FALSE
  <2>1. 0..m \in SUBSET Nat /\ 0..n \in SUBSET Nat /\ 0..m \subseteq 0..n
    BY <1>4
  <2>2. n \in 0..n /\ n \notin 0..m
    BY <1>4
  <2>3. <<0..m, 0..n>> \in StrictSubsetOrdering(Nat)
    BY <2>1, <2>2 DEF StrictSubsetOrdering
  <2>4. QED
    BY <1>2, <1>3, <2>3
<1>5. \A y \in S : n <= y
  BY <1>4
<1>6. QED
  BY <1>5 DEF Min

\* A non-empty set of box rows has the greatest element Max returns.
LEMMA MaxOfBox ==
  ASSUME NEW S \in SUBSET Box, S # {}
  PROVE  Max(S) \in S /\ \A y \in S : Max(S) >= y
<1>1. Box = {0, 1, 2, 3}
  BY DEF Box, PIECE_WIDTH
<1>2. S \subseteq {0, 1, 2, 3}
  BY <1>1
<1>3. \E x \in S : \A y \in S : x >= y
  <2>1. CASE 3 \in S
    BY <1>2, <2>1
  <2>2. CASE 3 \notin S /\ 2 \in S
    <3>1. S \subseteq {0, 1, 2}
      BY <1>2, <2>2
    <3>2. QED
      BY <2>2, <3>1
  <2>3. CASE 3 \notin S /\ 2 \notin S /\ 1 \in S
    <3>1. S \subseteq {0, 1}
      BY <1>2, <2>3
    <3>2. QED
      BY <2>3, <3>1
  <2>4. CASE 3 \notin S /\ 2 \notin S /\ 1 \notin S
    <3>1. S = {0}
      BY <1>2, <2>4
    <3>2. QED
      BY <3>1
  <2>5. QED
    BY <2>1, <2>2, <2>3, <2>4
<1>4. QED
  BY <1>3 DEF Max

\* The rows of a shape in a board column are its blocks in that column.
LEMMA ColumnOfMember ==
  ASSUME NEW s \in Shapes, NEW x \in Int, NEW r
  PROVE  r \in ColumnOf(s, x) <=> r \in Box /\ x - s.x \in Box /\ <<x - s.x, r>> \in s.blocks
<1>1. s.blocks \subseteq Box \X Box /\ s.x \in Int
  BY DEF Shapes
<1>2. ASSUME r \in ColumnOf(s, x)
      PROVE  r \in Box /\ x - s.x \in Box /\ <<x - s.x, r>> \in s.blocks
  <2>1. PICK b \in s.blocks : s.x + b[1] = x /\ r = b[2]
    BY <1>2 DEF ColumnOf
  <2>2. b \in Box \X Box /\ b = <<b[1], b[2]>>
    BY <1>1, <2>1
  <2>3. b[1] \in Int /\ b[1] = x - s.x
    BY <1>1, <2>1, <2>2 DEF Box, PIECE_WIDTH
  <2>4. QED
    BY <2>1, <2>2, <2>3
<1>3. ASSUME r \in Box, x - s.x \in Box, <<x - s.x, r>> \in s.blocks
      PROVE  r \in ColumnOf(s, x)
  <2>1. s.x + (x - s.x) = x
    BY <1>1
  <2>2. QED
    BY <1>3, <2>1 DEF ColumnOf
<1>4. QED
  BY <1>2, <1>3

\* Every piece, orientation and origin gives a solid shape.
LEMMA PieceShapes ==
  ASSUME NEW t \in Types, NEW o \in Orientation, NEW x \in Int
  PROVE  /\ PieceShapeAt(t, o, x) \in Shapes /\ Solid(PieceShapeAt(t, o, x))
         /\ IsFiniteSet(Blocks[t][o]) /\ Cardinality(Blocks[t][o]) = BLOCKS
<1>1. Blocks[t][o] \subseteq Box \X Box /\ Cardinality(Blocks[t][o]) = BLOCKS
  BY BlocksAssumption
<1>2. Blocks[t][o] # {}
  BY <1>1, FS_EmptySet DEF BLOCKS
<1>3. IsFiniteSet(Box \X Box)
  <2>1. Box = 0..3 /\ 0 \in Int /\ 3 \in Int
    BY DEF Box, PIECE_WIDTH
  <2>2. QED
    BY <2>1, FS_Interval, FS_Product
<1>4. IsFiniteSet(Blocks[t][o])
  BY <1>1, <1>3, FS_Subset
<1>5. QED
  BY <1>1, <1>2, <1>4, BlocksAssumption DEF PieceShapeAt, Shapes, Solid

\* A shape whose blocks are all on board columns spans at least one.
LEMMA InBoundsSpans ==
  ASSUME NEW s \in Shapes, Solid(s), NEW y, OffsetInBounds(s, y)
  PROVE  SpannedColumns(s) # {}
<1>1. PICK blk \in s.blocks : TRUE
  BY DEF Solid
<1>2. s.x + blk[1] \in Columns
  BY DEF OffsetInBounds
<1>3. blk[2] \in ColumnOf(s, s.x + blk[1])
  BY DEF ColumnOf
<1>4. QED
  BY <1>2, <1>3 DEF SpannedColumns

-----------------------------------------------------------------------------
\* In a column the shape spans, its lowest block is one of its blocks and no
\* block is lower; the shape's rows are the contiguous rows from its highest.
LEMMA LowestBlockProps ==
  ASSUME NEW s \in Shapes, NEW x \in SpannedColumns(s), NEW y \in Nat
  PROVE  /\ LowestBlock(s, x, y) - y \in ColumnOf(s, x)
         /\ LowestBlock(s, x, y) \in Nat
         /\ \A r \in ColumnOf(s, x) : r \in Box /\ r + y <= LowestBlock(s, x, y)
<1>1. x \in Int /\ ColumnOf(s, x) # {}
  BY BoardAssumption DEF SpannedColumns, Columns
<1>2. ColumnOf(s, x) \in SUBSET Box
  BY <1>1, ColumnOfMember
<1>3. /\ Max(ColumnOf(s, x)) \in ColumnOf(s, x)
      /\ \A r \in ColumnOf(s, x) : Max(ColumnOf(s, x)) >= r
  BY <1>1, <1>2, MaxOfBox
<1>4. Max(ColumnOf(s, x)) \in 0..3
  BY <1>2, <1>3 DEF Box, PIECE_WIDTH
<1>5. \A r \in ColumnOf(s, x) : r \in 0..3
  BY <1>2 DEF Box, PIECE_WIDTH
<1>6. QED
  BY <1>2, <1>3, <1>4, <1>5 DEF LowestBlock

\* A shape that fits is above the floor.
LEMMA FreeIsAboveFloor ==
  ASSUME NEW b \in Boards, NEW s \in Shapes, NEW y \in Nat, Free(b, s, y),
         NEW x \in SpannedColumns(s)
  PROVE  LowestBlock(s, x, y) < HEIGHT
<1>1. LowestBlock(s, x, y) \in Nat /\ LowestBlock(s, x, y) - y \in ColumnOf(s, x)
  BY LowestBlockProps
<1>2. (LowestBlock(s, x, y) - y) + y = LowestBlock(s, x, y)
  BY <1>1
<1>3. LowestBlock(s, x, y) \in ShiftedColumn(s, x, y)
  BY <1>1, <1>2 DEF ShiftedColumn
<1>4. LowestBlock(s, x, y) \in Rows
  BY <1>3 DEF Free, SpannedColumns
<1>5. QED
  BY <1>1, <1>4, BoardAssumption DEF Rows, PIECE_WIDTH

\* The first occupied row below a shape, or the floor, whether or not the shape
\* overlaps anything.
LEMMA ColumnDropProps ==
  ASSUME NEW b \in Boards, NEW s \in Shapes, NEW y \in Nat,
         NEW x \in SpannedColumns(s), LowestBlock(s, x, y) < HEIGHT
  PROVE  /\ ColumnDrop(b, s, x, y) \in Nat
         /\ LowestBlock(s, x, y) + ColumnDrop(b, s, x, y) + 1 \in b[x] \cup {HEIGHT}
         /\ \A r \in b[x] : r > LowestBlock(s, x, y)
              => r > LowestBlock(s, x, y) + ColumnDrop(b, s, x, y)
         /\ LowestBlock(s, x, y) + ColumnDrop(b, s, x, y) < HEIGHT
<1> DEFINE low == LowestBlock(s, x, y)
           below == {r \in b[x] : r > low}
           S == below \cup {HEIGHT}
<1>1. x \in Columns
  BY DEF SpannedColumns
<1>2. b[x] \in SUBSET Rows /\ HEIGHT \in Nat
  BY <1>1, BoardAssumption DEF Boards, PIECE_WIDTH
<1>3. low \in Nat
  BY LowestBlockProps
<1>4. low < HEIGHT
  OBVIOUS
<1>5. S \in SUBSET Nat /\ S # {}
  BY <1>2 DEF Rows
<1>6. Min(S) \in S /\ \A r \in S : Min(S) <= r
  BY <1>5, MinOfNaturals
<1>7. Min(S) \in Nat /\ Min(S) > low /\ Min(S) <= HEIGHT
  BY <1>2, <1>3, <1>4, <1>5, <1>6
<1>8. ColumnDrop(b, s, x, y) = Min(S) - low - 1
  BY DEF ColumnDrop, ColumnTop
<1>9. \A r \in b[x] : r \in Nat /\ (r > low => r >= Min(S))
  <2>1. ASSUME NEW r \in b[x]
        PROVE  r \in Nat
    BY <1>2 DEF Rows
  <2>2. ASSUME NEW r \in b[x], r > low
        PROVE  r >= Min(S)
    <3>1. r \in S
      BY <2>2
    <3> HIDE DEF S
    <3>2. Min(S) <= r
      BY <1>6, <3>1
    <3>3. QED
      BY <1>7, <2>1, <3>2
  <2>3. QED
    BY <2>1, <2>2
<1> HIDE DEF S, low
<1>10. low + ColumnDrop(b, s, x, y) + 1 = Min(S)
  BY <1>3, <1>7, <1>8
<1>11. Min(S) \in b[x] \cup {HEIGHT}
  BY <1>6 DEF S
<1>12. ColumnDrop(b, s, x, y) \in Nat
  BY <1>3, <1>7, <1>8
<1>13. QED
  BY <1>2, <1>3, <1>7, <1>9, <1>10, <1>11, <1>12 DEF low

\* The drop distance is the least of the column drops, and some column has it.
LEMMA DropDistanceProps ==
  ASSUME NEW b \in Boards, NEW s \in Shapes, NEW y \in Nat, SpannedColumns(s) # {},
         \A x \in SpannedColumns(s) : LowestBlock(s, x, y) < HEIGHT
  PROVE  /\ DropDistance(b, s, y) \in Nat
         /\ \A x \in SpannedColumns(s) : DropDistance(b, s, y) <= ColumnDrop(b, s, x, y)
         /\ \E x \in SpannedColumns(s) : DropDistance(b, s, y) = ColumnDrop(b, s, x, y)
<1> DEFINE S == {HEIGHT} \cup {ColumnDrop(b, s, x, y) : x \in SpannedColumns(s)}
<1>1. HEIGHT \in Nat
  BY BoardAssumption DEF PIECE_WIDTH
<1>2. \A x \in SpannedColumns(s) :
        ColumnDrop(b, s, x, y) \in Nat /\ ColumnDrop(b, s, x, y) < HEIGHT
  <2>1. ASSUME NEW x \in SpannedColumns(s)
        PROVE  ColumnDrop(b, s, x, y) \in Nat /\ ColumnDrop(b, s, x, y) < HEIGHT
    <3>1. /\ ColumnDrop(b, s, x, y) \in Nat
          /\ LowestBlock(s, x, y) + ColumnDrop(b, s, x, y) < HEIGHT
      BY ColumnDropProps
    <3>2. LowestBlock(s, x, y) \in Nat
      BY LowestBlockProps
    <3>3. QED
      BY <1>1, <3>1, <3>2
  <2>2. QED
    BY <2>1
<1>3. S \in SUBSET Nat /\ S # {}
  BY <1>1, <1>2
<1>4. Min(S) \in S /\ \A d \in S : Min(S) <= d
  BY <1>3, MinOfNaturals
<1>5. DropDistance(b, s, y) = Min(S)
  BY DEF DropDistance
<1>6. PICK x0 \in SpannedColumns(s) : TRUE
  OBVIOUS
<1>7. Min(S) <= ColumnDrop(b, s, x0, y)
  BY <1>4
<1>8. Min(S) # HEIGHT
  <2> HIDE DEF S
  <2>1. QED
    BY <1>1, <1>2, <1>3, <1>4, <1>7
<1>9. QED
  BY <1>3, <1>4, <1>5, <1>8

\* Where dropDistance says the shape lands is where it comes to rest: the rows
\* on the way are free, and one row further something is hit.
THEOREM DropIsWhereItRests ==
  ASSUME NEW b \in Boards, NEW s \in Shapes, Solid(s), NEW y \in Nat, Free(b, s, y),
         SpannedColumns(s) # {}
  PROVE  /\ DropDistance(b, s, y) \in Nat
         /\ \A e \in 0..DropDistance(b, s, y) : Free(b, s, y + e)
         /\ ~ Free(b, s, y + DropDistance(b, s, y) + 1)
<1> DEFINE d == DropDistance(b, s, y)
<1>1. /\ d \in Nat
      /\ \A x \in SpannedColumns(s) : d <= ColumnDrop(b, s, x, y)
      /\ \E x \in SpannedColumns(s) : d = ColumnDrop(b, s, x, y)
  BY FreeIsAboveFloor, DropDistanceProps
<1> HIDE DEF d
<1>2. HEIGHT \in Nat /\ \A x \in Columns : x \in Int /\ b[x] \in SUBSET Rows
  BY BoardAssumption DEF PIECE_WIDTH, Boards, Columns
<1>3. ASSUME NEW e \in 0..d, NEW x \in Columns, NEW r \in ColumnOf(s, x)
      PROVE  r + (y + e) \in Rows /\ r + (y + e) \notin b[x]
  <2> DEFINE low == LowestBlock(s, x, y)
  <2>1. x \in SpannedColumns(s)
    BY <1>3 DEF SpannedColumns
  <2>2. /\ low \in Nat
        /\ low - y \in ColumnOf(s, x)
        /\ r \in Box
        /\ r + y <= low
    BY <2>1, LowestBlockProps
  <2>3. /\ ColumnDrop(b, s, x, y) \in Nat
        /\ \A q \in b[x] : q > low => q > low + ColumnDrop(b, s, x, y)
        /\ low + ColumnDrop(b, s, x, y) < HEIGHT
    BY <2>1, FreeIsAboveFloor, ColumnDropProps
  <2>4. d <= ColumnDrop(b, s, x, y)
    BY <1>1, <2>1
  <2>5. r \in Nat /\ e \in Nat /\ e <= d
    BY <1>1, <2>2 DEF Box, PIECE_WIDTH
  <2> HIDE DEF low
  <2>6. r + (y + e) \in Rows
    BY <1>1, <1>2, <2>2, <2>3, <2>4, <2>5 DEF Rows
  <2>7. r + (y + e) \notin b[x]
    <3>1. CASE r + (y + e) > low
      BY <1>1, <1>2, <2>2, <2>3, <2>4, <2>5, <3>1
    <3>2. CASE r + (y + e) <= low
      \* Still within the shape's own rows, which were free.
      <4> DEFINE own == r + e
      <4>1. own \in Box /\ r <= own /\ own <= low - y /\ low - y \in Box
        <5>1. low - y \in Box
          BY <1>2, <2>2, ColumnOfMember
        <5>2. QED
          BY <2>2, <2>5, <3>2, <5>1 DEF Box, PIECE_WIDTH
      <4>2. /\ x - s.x \in Box
            /\ <<x - s.x, r>> \in s.blocks
            /\ <<x - s.x, low - y>> \in s.blocks
        BY <1>2, <1>3, <2>2, ColumnOfMember
      <4>3. <<x - s.x, own>> \in s.blocks
        BY <2>2, <4>1, <4>2 DEF Solid
      <4>4. own \in ColumnOf(s, x)
        BY <1>2, <4>1, <4>2, <4>3, ColumnOfMember
      <4>5. own + y \in ShiftedColumn(s, x, y)
        BY <4>4 DEF ShiftedColumn
      <4>6. own + y \notin b[x]
        BY <4>5 DEF Free
      <4>7. own + y = r + (y + e)
        BY <2>5
      <4>8. QED
        BY <4>6, <4>7
    <3>3. QED
      BY <2>2, <2>5, <3>1, <3>2
  <2>8. QED
    BY <2>6, <2>7
<1>4. \A e \in 0..d : Free(b, s, y + e)
  BY <1>3 DEF Free, ShiftedColumn
<1>5. ~ Free(b, s, y + d + 1)
  <2>1. PICK x \in SpannedColumns(s) : d = ColumnDrop(b, s, x, y)
    BY <1>1
  <2> DEFINE low == LowestBlock(s, x, y)
  <2>2. x \in Columns
    BY DEF SpannedColumns
  <2>3. low \in Nat /\ low - y \in ColumnOf(s, x)
    BY LowestBlockProps
  <2>4. low + d + 1 \in b[x] \cup {HEIGHT}
    BY <2>1, FreeIsAboveFloor, ColumnDropProps
  <2> HIDE DEF low
  <2>5. (low - y) + (y + d + 1) = low + d + 1
    BY <1>1, <2>3
  <2>6. low + d + 1 \in ShiftedColumn(s, x, y + d + 1)
    BY <2>3, <2>5 DEF ShiftedColumn
  <2>7. HEIGHT \notin Rows
    BY <1>2 DEF Rows
  <2>8. QED
    BY <2>2, <2>4, <2>6, <2>7 DEF Free
<1>6. QED
  BY <1>1, <1>4, <1>5 DEF d

\* Whether or not a shape fits, dropDistance keeps it above the floor: locking
\* it pushes no cell out of the field.
THEOREM LocksInField ==
  ASSUME NEW b \in Boards, NEW s \in Shapes, NEW y \in Nat, SpannedColumns(s) # {},
         \A x \in SpannedColumns(s) : LowestBlock(s, x, y) < HEIGHT
  PROVE  /\ DropDistance(b, s, y) \in Nat
         /\ Placed(b, s, y + DropDistance(b, s, y)) \in Boards
<1> DEFINE d == DropDistance(b, s, y)
<1>1. /\ d \in Nat
      /\ \A x \in SpannedColumns(s) : d <= ColumnDrop(b, s, x, y)
  BY DropDistanceProps
<1> HIDE DEF d
<1>2. ASSUME NEW x \in Columns, NEW r \in ColumnOf(s, x)
      PROVE  r + (y + d) \in Rows
  <2> DEFINE low == LowestBlock(s, x, y)
  <2>1. x \in SpannedColumns(s)
    BY <1>2 DEF SpannedColumns
  <2>2. low \in Nat /\ r \in Box /\ r + y <= low
    BY <2>1, LowestBlockProps
  <2>3. ColumnDrop(b, s, x, y) \in Nat /\ low + ColumnDrop(b, s, x, y) < HEIGHT
    BY <2>1, ColumnDropProps
  <2>4. d <= ColumnDrop(b, s, x, y)
    BY <1>1, <2>1
  <2>5. r \in Nat /\ HEIGHT \in Nat
    BY <2>2, BoardAssumption DEF Box, PIECE_WIDTH
  <2> HIDE DEF low
  <2>6. QED
    BY <1>1, <2>2, <2>3, <2>4, <2>5 DEF Rows
<1>3. \A x \in Columns : ShiftedColumn(s, x, y + d) \subseteq Rows
  BY <1>2 DEF ShiftedColumn
<1>4. Placed(b, s, y + d) \in Boards
  BY <1>3 DEF Placed, Boards
<1>5. QED
  BY <1>1, <1>4 DEF d
-----------------------------------------------------------------------------
\* The number of cleared rows below row y.
FullBelow(full, y) == Cardinality({r \in full : r > y})

\* Rows below row y: finitely many, and at most those down to the floor.
LEMMA FullBelowProps ==
  ASSUME NEW full \in SUBSET Rows, NEW y \in Rows
  PROVE  /\ FullBelow(full, y) \in Nat
         /\ y + FullBelow(full, y) < HEIGHT
<1> DEFINE D == {r \in full : r > y}
<1>1. HEIGHT \in Nat /\ y \in Int /\ y >= 0 /\ y < HEIGHT
  BY BoardAssumption DEF PIECE_WIDTH, Rows
<1>2. D \in SUBSET ((y + 1)..(HEIGHT - 1))
  <2>1. ASSUME NEW r \in D
        PROVE  r \in (y + 1)..(HEIGHT - 1)
    <3>1. r \in Rows /\ r > y
      OBVIOUS
    <3>2. QED
      BY <1>1, <3>1 DEF Rows
  <2>2. QED
    BY <2>1
<1>3. /\ IsFiniteSet((y + 1)..(HEIGHT - 1))
      /\ Cardinality((y + 1)..(HEIGHT - 1)) = HEIGHT - 1 - y
  <2>1. y + 1 \in Int /\ HEIGHT - 1 \in Int
    BY <1>1
  <2>2. /\ IsFiniteSet((y + 1)..(HEIGHT - 1))
        /\ Cardinality((y + 1)..(HEIGHT - 1)) =
             IF y + 1 > HEIGHT - 1 THEN 0 ELSE (HEIGHT - 1) - (y + 1) + 1
    BY <2>1, FS_Interval
  <2>3. QED
    BY <1>1, <2>2
<1>4. IsFiniteSet(D) /\ Cardinality(D) <= HEIGHT - 1 - y
  <2> HIDE DEF D
  <2>1. /\ IsFiniteSet(D)
        /\ Cardinality(D) <= Cardinality((y + 1)..(HEIGHT - 1))
    BY <1>2, <1>3, FS_Subset
  <2>2. QED
    BY <1>3, <2>1
<1>5. Cardinality(D) \in Nat
  BY <1>4, FS_CardinalityType
<1>6. QED
  BY <1>1, <1>4, <1>5 DEF FullBelow

\* Surviving rows keep their order: two of them never fall onto one row.
LEMMA SurvivorsKeepOrder ==
  ASSUME NEW full \in SUBSET Rows, NEW y1 \in Rows, NEW y2 \in Rows \ full, y1 < y2
  PROVE  y1 + FullBelow(full, y1) < y2 + FullBelow(full, y2)
<1> DEFINE D1 == {r \in full : r > y1}
           D2 == {r \in full : r > y2}
           I  == (y1 + 1)..(y2 - 1)
           M  == D1 \ D2
<1>1. HEIGHT \in Nat /\ y1 \in Int /\ y2 \in Int
  BY BoardAssumption DEF PIECE_WIDTH, Rows
<1>2. full \subseteq Int
  BY <1>1 DEF Rows
<1>3. IsFiniteSet(Rows)
  <2>1. 0 \in Int /\ HEIGHT - 1 \in Int
    BY <1>1
  <2>2. QED
    BY <2>1, FS_Interval DEF Rows
<1>4. IsFiniteSet(D1) /\ IsFiniteSet(D2)
  <2>1. D1 \in SUBSET Rows /\ D2 \in SUBSET Rows
    OBVIOUS
  <2>2. QED
    BY <1>3, <2>1, FS_Subset
<1>5. IsFiniteSet(I) /\ Cardinality(I) = y2 - y1 - 1
  <2>1. y1 + 1 \in Int /\ y2 - 1 \in Int
    BY <1>1
  <2>2. /\ IsFiniteSet(I)
        /\ Cardinality(I) = IF y1 + 1 > y2 - 1 THEN 0 ELSE (y2 - 1) - (y1 + 1) + 1
    BY <2>1, FS_Interval
  <2>3. QED
    BY <1>1, <2>2
<1>6. M \in SUBSET I
  <2>1. ASSUME NEW r \in M
        PROVE  r \in I
    <3>1. r \in full /\ r > y1 /\ ~(r > y2)
      OBVIOUS
    <3>2. r \in Int /\ r # y2
      BY <1>2, <3>1
    <3>3. QED
      BY <1>1, <3>1, <3>2
  <2>2. QED
    BY <2>1
<1>7. IsFiniteSet(M) /\ Cardinality(M) <= y2 - y1 - 1
  <2> HIDE DEF M, I
  <2>1. IsFiniteSet(M) /\ Cardinality(M) <= Cardinality(I)
    BY <1>5, <1>6, FS_Subset
  <2>2. QED
    BY <1>5, <2>1
<1>8. D1 = M \cup D2 /\ M \cap D2 = {}
  <2>1. ASSUME NEW r \in D2
        PROVE  r \in D1
    <3>1. r \in full /\ r > y2
      OBVIOUS
    <3>2. r > y1
      BY <1>1, <1>2, <3>1
    <3>3. QED
      BY <3>1, <3>2
  <2> HIDE DEF D1, D2
  <2>2. QED
    BY <2>1
<1>9. Cardinality(D1) = Cardinality(M) + Cardinality(D2)
  <2>1. /\ Cardinality(M \cup D2) =
             Cardinality(M) + Cardinality(D2) - Cardinality(M \cap D2)
    BY <1>4, <1>7, FS_Union
  <2>2. Cardinality(M \cap D2) = 0
    BY <1>8, FS_EmptySet
  <2>3. Cardinality(M) \in Nat /\ Cardinality(D2) \in Nat
    BY <1>4, <1>7, FS_CardinalityType
  <2> HIDE DEF M, D2, D1
  <2>4. QED
    BY <1>8, <2>1, <2>2, <2>3
<1>10. Cardinality(D2) \in Nat /\ Cardinality(M) \in Nat
  BY <1>4, <1>7, FS_CardinalityType
<1>11. QED
  <2>1. FullBelow(full, y1) = Cardinality(D1) /\ FullBelow(full, y2) = Cardinality(D2)
    BY DEF FullBelow
  <2> HIDE DEF M, D2, D1
  <2>2. QED
    BY <1>1, <1>7, <1>9, <1>10, <2>1

\* clearLines keeps the board in the field and leaves no full row, whichever
\* rows were full.
THEOREM ClearLinesLeavesNoFullRow ==
  ASSUME NEW b \in Boards
  PROVE  ClearLines(b) \in Boards /\ FullRows(ClearLines(b)) = {}
<1> DEFINE F == FullRows(b)
<1>1. F \in SUBSET Rows
  BY DEF FullRows
<1>2. \A x \in Columns : b[x] \in SUBSET Rows
  BY DEF Boards
<1>3. \A x \in Columns : ClearLines(b)[x] = {y + FullBelow(F, y) : y \in b[x] \ F}
  BY DEF ClearLines, ClearColumn, FullBelow
<1> HIDE DEF F
<1>4. \A x \in Columns : ClearLines(b)[x] \in SUBSET Rows
  <2>1. ASSUME NEW x \in Columns, NEW y \in b[x] \ F
        PROVE  y + FullBelow(F, y) \in Rows
    <3>1. y \in Rows
      BY <1>2
    <3>2. FullBelow(F, y) \in Nat /\ y + FullBelow(F, y) < HEIGHT
      BY <1>1, <3>1, FullBelowProps
    <3>3. QED
      BY <3>1, <3>2, BoardAssumption DEF Rows, PIECE_WIDTH
  <2>2. QED
    BY <1>3, <2>1
<1>5. ClearLines(b) \in Boards
  BY <1>4 DEF ClearLines, Boards
<1>6. ASSUME NEW z \in FullRows(ClearLines(b))
      PROVE  FALSE
  <2>1. \A x \in Columns : z \in ClearLines(b)[x]
    BY <1>6 DEF FullRows
  <2>2. \A x \in Columns : \E y \in b[x] \ F : z = y + FullBelow(F, y)
    BY <1>3, <2>1
  <2>3. 0 \in Columns
    BY BoardAssumption DEF Columns, PIECE_WIDTH
  <2>4. PICK y0 \in b[0] \ F : z = y0 + FullBelow(F, y0)
    BY <2>2, <2>3
  <2>5. y0 \in Rows
    BY <1>2, <2>3, <2>4
  <2>6. ASSUME NEW x \in Columns
        PROVE  y0 \in b[x]
    <3>1. PICK y \in b[x] \ F : z = y + FullBelow(F, y)
      BY <2>2
    <3>2. y \in Rows
      BY <1>2, <3>1
    <3>3. y \in Int /\ y0 \in Int
      BY <2>5, <3>2, BoardAssumption DEF Rows, PIECE_WIDTH
    <3>4. FullBelow(F, y) \in Nat /\ FullBelow(F, y0) \in Nat
      BY <1>1, <2>5, <3>2, FullBelowProps
    <3>5. CASE y < y0
      <4>1. y + FullBelow(F, y) < y0 + FullBelow(F, y0)
        BY <1>1, <2>4, <2>5, <3>2, <3>5, SurvivorsKeepOrder
      <4>2. QED
        BY <2>4, <3>1, <3>3, <3>4, <4>1
    <3>6. CASE y0 < y
      <4>1. y0 + FullBelow(F, y0) < y + FullBelow(F, y)
        BY <1>1, <2>5, <3>1, <3>2, <3>6, SurvivorsKeepOrder
      <4>2. QED
        BY <2>4, <3>1, <3>3, <3>4, <4>1
    <3>7. CASE y = y0
      BY <3>1, <3>7
    <3>8. QED
      BY <3>3, <3>5, <3>6, <3>7
  <2>7. y0 \in F
    BY <2>5, <2>6 DEF FullRows, F
  <2>8. QED
    BY <2>4, <2>7
<1>7. QED
  BY <1>5, <1>6
-----------------------------------------------------------------------------
(* Cells: what locking a piece adds and what clearing rows takes away. *)

\* The image of a finite set is finite.
LEMMA ImageIsFinite ==
  ASSUME NEW S, IsFiniteSet(S), NEW f, NEW T, T = {f[a] : a \in S}
  PROVE  IsFiniteSet(T)
<1> DEFINE g == [a \in S |-> f[a]]
<1>1. g \in Surjection(S, T)
  BY DEF Surjection
<1> HIDE DEF g
<1>2. QED
  BY <1>1, FS_Surjection

\* The image of a finite set under a function that is one-to-one on it.
LEMMA OneToOneImage ==
  ASSUME NEW S, IsFiniteSet(S), NEW f, f = [a \in S |-> f[a]],
         \A a, b \in S : f[a] = f[b] => a = b,
         NEW T, T = {f[a] : a \in S}
  PROVE  IsFiniteSet(T) /\ Cardinality(T) = Cardinality(S)
<1>1. f \in [S -> T]
  OBVIOUS
<1>2. f \in Surjection(S, T)
  BY <1>1 DEF Surjection
<1>3. f \in Injection(S, T)
  BY <1>1 DEF Injection, IsInjective
<1>4. QED
  BY <1>2, <1>3, FS_Surjection

\* The field is finite, and so is everything in it.
LEMMA FieldFinite ==
  /\ IsFiniteSet(Columns) /\ Cardinality(Columns) = WIDTH
  /\ IsFiniteSet(Rows)
  /\ \A S : S \subseteq Columns \X Rows => IsFiniteSet(S)
<1>1. WIDTH \in Nat /\ WIDTH >= 4 /\ HEIGHT \in Nat
  BY BoardAssumption DEF PIECE_WIDTH
<1>2. IsFiniteSet(Columns) /\ Cardinality(Columns) = WIDTH
  <2>1. 0 \in Int /\ WIDTH - 1 \in Int
    BY <1>1
  <2>2. /\ IsFiniteSet(0..(WIDTH - 1))
        /\ Cardinality(0..(WIDTH - 1)) = IF 0 > WIDTH - 1 THEN 0 ELSE (WIDTH - 1) - 0 + 1
    BY <2>1, FS_Interval
  <2>3. QED
    BY <1>1, <2>2 DEF Columns
<1>3. IsFiniteSet(Rows)
  <2>1. 0 \in Int /\ HEIGHT - 1 \in Int
    BY <1>1
  <2>2. QED
    BY <2>1, FS_Interval DEF Rows
<1>4. IsFiniteSet(Columns \X Rows)
  BY <1>2, <1>3, FS_Product
<1>5. \A S : S \subseteq Columns \X Rows => IsFiniteSet(S)
  BY <1>4, FS_Subset
<1>6. QED
  BY <1>2, <1>3, <1>5

\* A board has finitely many occupied cells.
LEMMA CellsFinite ==
  ASSUME NEW b
  PROVE  IsFiniteSet(Stack(b)) /\ CellCount(b) \in Nat
<1>1. Stack(b) \subseteq Columns \X Rows
  BY DEF Stack
<1>2. IsFiniteSet(Stack(b))
  BY <1>1, FieldFinite
<1>3. QED
  BY <1>2, FS_CardinalityType DEF CellCount

\* Locking a shape where it is free adds one cell per block: no block falls on
\* an occupied cell, on another block or past a border.
THEOREM LockingAddsItsBlocks ==
  ASSUME NEW b \in Boards, NEW s \in Shapes, NEW d \in Nat, NEW y,
         OffsetInBounds(s, y), Free(b, s, d), IsFiniteSet(s.blocks)
  PROVE  CellCount(Placed(b, s, d)) = CellCount(b) + Cardinality(s.blocks)
<1> DEFINE B == s.blocks
           at == [k \in B |-> <<s.x + k[1], k[2] + d>>]
           P == {at[k] : k \in B}
<1>1. /\ s.x \in Int /\ B \subseteq Box \X Box
      /\ \A k \in B : k[1] \in Int /\ k[2] \in Int /\ k = <<k[1], k[2]>>
  BY DEF Shapes, Box, PIECE_WIDTH
<1>2. IsFiniteSet(P) /\ Cardinality(P) = Cardinality(B)
  <2>1. \A k, l \in B : at[k] = at[l] => k = l
    <3>1. ASSUME NEW k \in B, NEW l \in B, at[k] = at[l]
          PROVE  k = l
      <4>1. s.x + k[1] = s.x + l[1] /\ k[2] + d = l[2] + d
        BY <3>1
      <4>2. k[1] = l[1] /\ k[2] = l[2]
        BY <1>1, <4>1
      <4>3. QED
        BY <1>1, <4>2
    <3>2. QED
      BY <3>1
  <2>2. at = [k \in B |-> at[k]]
    OBVIOUS
  <2>3. P = {at[k] : k \in B} /\ IsFiniteSet(B)
    OBVIOUS
  <2> HIDE DEF at, B, P
  <2>4. QED
    BY <2>1, <2>2, <2>3, OneToOneImage
<1>3. \A k \in B : s.x + k[1] \in Columns /\ k[2] + d \in ShiftedColumn(s, s.x + k[1], d)
  <2>1. \A k \in B : s.x + k[1] \in Columns
    BY DEF OffsetInBounds
  <2>2. \A k \in B : k[2] \in ColumnOf(s, s.x + k[1])
    BY DEF ColumnOf
  <2>3. QED
    BY <2>1, <2>2 DEF ShiftedColumn
<1>4. \A x \in Columns : ShiftedColumn(s, x, d) \subseteq Rows
                         /\ ShiftedColumn(s, x, d) \cap b[x] = {}
  BY DEF Free
<1>5. \A x \in Columns : \A r \in ShiftedColumn(s, x, d) : <<x, r>> \in P
  <2>1. ASSUME NEW x \in Columns, NEW r \in ShiftedColumn(s, x, d)
        PROVE  <<x, r>> \in P
    <3>1. PICK q \in ColumnOf(s, x) : r = q + d
      BY <2>1 DEF ShiftedColumn
    <3>2. PICK k \in B : s.x + k[1] = x /\ q = k[2]
      BY <3>1 DEF ColumnOf
    <3>3. at[k] = <<x, r>>
      BY <3>1, <3>2
    <3>4. QED
      BY <3>2, <3>3
  <2>2. QED
    BY <2>1
<1>6. Stack(Placed(b, s, d)) = Stack(b) \cup P
  <2>1. \A c \in Columns \X Rows :
          c \in Stack(Placed(b, s, d)) <=> c[2] \in b[c[1]] \/ c[2] \in ShiftedColumn(s, c[1], d)
    BY DEF Stack, Placed
  <2>2. \A c \in Columns \X Rows : c \in P <=> c[2] \in ShiftedColumn(s, c[1], d)
    <3>1. ASSUME NEW x \in Columns, NEW r \in Rows, <<x, r>> \in P
          PROVE  r \in ShiftedColumn(s, x, d)
      <4>1. PICK k \in B : <<x, r>> = <<s.x + k[1], k[2] + d>>
        BY <3>1
      <4>2. QED
        BY <1>3, <4>1
    <3> HIDE DEF P
    <3>2. QED
      BY <1>5, <3>1
  <2>3. P \subseteq Columns \X Rows
    <3>1. \A k \in B : at[k] \in Columns \X Rows
      BY <1>3, <1>4
    <3>2. QED
      BY <3>1
  <2>4. Stack(b) \subseteq Columns \X Rows /\ Stack(Placed(b, s, d)) \subseteq Columns \X Rows
    BY DEF Stack
  <2>5. \A c \in Columns \X Rows : c \in Stack(b) <=> c[2] \in b[c[1]]
    BY DEF Stack
  <2> HIDE DEF P
  <2>6. QED
    BY <2>1, <2>2, <2>3, <2>4, <2>5
<1>7. Stack(b) \cap P = {}
  <2>1. ASSUME NEW k \in B, at[k] \in Stack(b)
        PROVE  FALSE
    <3>1. k[2] + d \in b[s.x + k[1]]
      BY <2>1 DEF Stack
    <3>2. QED
      BY <1>3, <1>4, <3>1
  <2>2. QED
    BY <2>1
<1> HIDE DEF P, at
<1>8. Cardinality(Stack(b) \cup P) = Cardinality(Stack(b)) + Cardinality(P)
  <2>1. /\ IsFiniteSet(Stack(b)) /\ Cardinality(Stack(b)) \in Nat /\ Cardinality(P) \in Nat
    BY <1>2, CellsFinite, FS_CardinalityType
  <2>2. Cardinality(Stack(b) \cup P) = Cardinality(Stack(b)) + Cardinality(P) - Cardinality(Stack(b) \cap P)
    BY <1>2, <2>1, FS_Union
  <2>3. Cardinality(Stack(b) \cap P) = 0
    BY <1>7, FS_EmptySet
  <2>4. QED
    BY <2>1, <2>2, <2>3
<1>9. QED
  BY <1>2, <1>6, <1>8 DEF CellCount

\* Clearing takes the full rows away, WIDTH cells each, and no other cell: the
\* survivors fall onto rows of their own.
THEOREM ClearingTakesFullRows ==
  ASSUME NEW b \in Boards
  PROVE  /\ Cardinality(FullRows(b)) \in Nat
         /\ CellCount(ClearLines(b)) = CellCount(b) - WIDTH * Cardinality(FullRows(b))
<1> DEFINE F == FullRows(b)
           K == {c \in Stack(b) : c[2] \notin F}
           fall == [c \in K |-> <<c[1], c[2] + FullBelow(F, c[2])>>]
<1>1. F \in SUBSET Rows /\ IsFiniteSet(F) /\ Cardinality(F) \in Nat
  <2>1. F \in SUBSET Rows
    BY DEF FullRows
  <2> HIDE DEF F
  <2>2. QED
    BY <2>1, FieldFinite, FS_Subset, FS_CardinalityType
<1>2. \A x \in Columns : ClearLines(b)[x] = {y + FullBelow(F, y) : y \in b[x] \ F}
  BY DEF ClearLines, ClearColumn, FullBelow
<1>3. \A x \in Columns : b[x] \in SUBSET Rows
  BY DEF Boards
<1>4. Rows \subseteq Nat
  BY BoardAssumption DEF Rows, PIECE_WIDTH
<1>5. \A x \in Columns, y \in Rows : y \in F => y \in b[x]
  BY DEF FullRows
<1> HIDE DEF F
<1>6. K \subseteq Columns \X Rows /\ IsFiniteSet(K) /\ IsFiniteSet(Columns \X F)
      /\ \A c \in K : /\ c[1] \in Columns /\ c[2] \in Rows \ F /\ c[2] \in b[c[1]]
                      /\ c = <<c[1], c[2]>>
  <2>1. K \subseteq Columns \X Rows
    BY DEF Stack
  <2>2. Columns \X F \subseteq Columns \X Rows
    BY <1>1
  <2>3. \A c \in K : /\ c[1] \in Columns /\ c[2] \in Rows \ F /\ c[2] \in b[c[1]]
                     /\ c = <<c[1], c[2]>>
    BY DEF Stack
  <2> HIDE DEF K
  <2>4. QED
    BY <2>1, <2>2, <2>3, FieldFinite
<1>7. Stack(b) = K \cup (Columns \X F) /\ K \cap (Columns \X F) = {}
  <2>1. \A c \in Columns \X F : c \in Stack(b)
    BY <1>1, <1>5 DEF Stack
  <2>2. \A c \in Stack(b) : c \in Columns \X Rows
    BY DEF Stack
  <2>3. \A c \in Stack(b) : c[2] \in F => c \in Columns \X F
    BY <2>2
  <2>4. QED
    BY <2>1, <2>3
<1>8. Cardinality(Stack(b)) = Cardinality(K) + WIDTH * Cardinality(F)
  <2> HIDE DEF K
  <2>1. Cardinality(Columns \X F) = WIDTH * Cardinality(F)
    BY <1>1, FieldFinite, FS_Product
  <2>2. Cardinality(K \cup (Columns \X F)) =
          Cardinality(K) + Cardinality(Columns \X F) - Cardinality(K \cap (Columns \X F))
    BY <1>6, FS_Union
  <2>3. Cardinality(K \cap (Columns \X F)) = 0
    BY <1>7, FS_EmptySet
  <2>4. Cardinality(K) \in Nat /\ Cardinality(Columns \X F) \in Nat
    BY <1>6, FS_CardinalityType
  <2>5. QED
    BY <1>7, <2>1, <2>2, <2>3, <2>4
<1>9. \A c, e \in K : fall[c] = fall[e] => c = e
  <2>1. ASSUME NEW c \in K, NEW e \in K, fall[c] = fall[e]
        PROVE  c = e
    <3>1. c[1] = e[1] /\ c[2] + FullBelow(F, c[2]) = e[2] + FullBelow(F, e[2])
      BY <2>1
    <3> DEFINE p == c[2]
               q == e[2]
    <3>2. p \in Rows \ F /\ q \in Rows \ F
      BY <1>6
    <3>3. p + FullBelow(F, p) = q + FullBelow(F, q)
      BY <3>1
    <3> HIDE DEF p, q
    <3>4. p \in Nat /\ q \in Nat /\ FullBelow(F, p) \in Nat /\ FullBelow(F, q) \in Nat
      BY <1>1, <1>4, <3>2, FullBelowProps
    <3>5. p = q
      <4>1. ~(p < q)
        BY <1>1, <3>2, <3>3, <3>4, SurvivorsKeepOrder
      <4>2. ~(q < p)
        BY <1>1, <3>2, <3>3, <3>4, SurvivorsKeepOrder
      <4>3. QED
        BY <3>4, <4>1, <4>2
    <3>6. QED
      BY <1>6, <3>1, <3>5 DEF p, q
  <2>2. QED
    BY <2>1
<1>10. Stack(ClearLines(b)) = {fall[c] : c \in K}
  <2>1. ASSUME NEW c \in K
        PROVE  fall[c] \in Stack(ClearLines(b))
    <3>1. c[1] \in Columns /\ c[2] \in b[c[1]] \ F
      BY <1>6
    <3>2. c[2] + FullBelow(F, c[2]) \in ClearLines(b)[c[1]]
      BY <1>2, <3>1
    <3>3. c[2] + FullBelow(F, c[2]) \in Rows
      BY <3>1, <3>2, ClearLinesLeavesNoFullRow DEF Boards
    <3>4. fall[c] = <<c[1], c[2] + FullBelow(F, c[2])>>
      OBVIOUS
    <3>5. QED
      BY <3>1, <3>2, <3>3, <3>4 DEF Stack
  <2>2. ASSUME NEW x \in Columns, NEW r \in ClearLines(b)[x]
        PROVE  \E c \in K : fall[c] = <<x, r>>
    <3>1. PICK y \in b[x] \ F : r = y + FullBelow(F, y)
      BY <1>2, <2>2
    <3>2. <<x, y>> \in K
      BY <1>3, <3>1 DEF Stack
    <3>3. fall[<<x, y>>] = <<x, r>>
      BY <3>1, <3>2
    <3>4. QED
      BY <3>2, <3>3
  <2>3. \A c \in Stack(ClearLines(b)) :
          c[1] \in Columns /\ c[2] \in ClearLines(b)[c[1]] /\ c = <<c[1], c[2]>>
    BY DEF Stack
  <2> HIDE DEF fall, K
  <2>4. QED
    BY <2>1, <2>2, <2>3
<1>11. Cardinality(Stack(ClearLines(b))) = Cardinality(K)
  <2>1. fall = [c \in K |-> fall[c]]
    OBVIOUS
  <2> HIDE DEF fall, K
  <2>2. QED
    BY <1>6, <1>9, <1>10, <2>1, OneToOneImage
<1>12. Cardinality(K) \in Nat /\ WIDTH \in Nat
  <2> HIDE DEF K
  <2>1. QED
    BY <1>6, FS_CardinalityType, BoardAssumption
<1>13. WIDTH * Cardinality(F) \in Nat
  BY <1>1, <1>12
<1>14. QED
  <2> DEFINE w == WIDTH * Cardinality(F)
  <2>1. w \in Nat
    BY <1>13
  <2>2. Cardinality(Stack(b)) = Cardinality(K) + w
    BY <1>8
  <2> HIDE DEF w, K
  <2>3. Cardinality(Stack(ClearLines(b))) = Cardinality(Stack(b)) - w
    BY <1>11, <1>12, <2>1, <2>2
  <2>4. QED
    BY <1>1, <2>3 DEF CellCount, w, F

-----------------------------------------------------------------------------
(* The bag. *)

\* A bag has at least one slot.
LEMMA BagSizeFacts == BagSize \in Nat /\ BagSize > 0
  BY TypesAssumption, FS_CardinalityType, FS_EmptySet DEF BagSize

\* A draw keeps the bag array a permutation and its cursor inside.
LEMMA DrawTypes ==
  ASSUME bag \in Shuffles, bagPos \in 0..(BagSize - 1),
         NEW p \in Types, DrawPiece(p)
  PROVE  bag' \in Shuffles /\ bagPos' \in 0..(BagSize - 1)
  BY BagSizeFacts DEF DrawPiece

\* A permutation hands out no piece twice.
LEMMA ShuffleInjective ==
  ASSUME NEW f \in Shuffles
  PROVE  \A i, j \in 0..(BagSize - 1) : f[i] = f[j] => i = j
<1> DEFINE I == 0..(BagSize - 1)
<1>1. IsFiniteSet(I) /\ Cardinality(I) = Cardinality(Types)
  <2>1. 0 \in Int /\ BagSize - 1 \in Int
    BY BagSizeFacts
  <2>2. IsFiniteSet(I) /\ Cardinality(I) = IF 0 > BagSize - 1 THEN 0 ELSE (BagSize - 1) - 0 + 1
    BY <2>1, FS_Interval
  <2>3. QED
    BY <2>2, BagSizeFacts DEF BagSize
<1>2. f \in Surjection(I, Types)
  BY DEF Shuffles, BagSlots, Surjection
<1> HIDE DEF I
<1>3. f \in Injection(I, Types)
  BY <1>1, <1>2, FS_SurjSameCardinalityImpliesInj
<1>4. DOMAIN f = I /\ IsInjective(f)
  BY <1>3 DEF Injection
<1>5. QED
  BY <1>4 DEF IsInjective, I

\* What is left of a permutation below slot n is what is not at or above it.
LEMMA LeftInShuffle ==
  ASSUME NEW f \in Shuffles, NEW n \in 0..BagSize
  PROVE  {f[i] : i \in 0..(n - 1)} = Types \ {f[i] : i \in n..(BagSize - 1)}
<1>1. /\ f \in [0..(BagSize - 1) -> Types]
      /\ \A p \in Types : \E i \in 0..(BagSize - 1) : f[i] = p
  BY DEF Shuffles, BagSlots
<1>2. BagSize \in Nat
  BY BagSizeFacts
<1>3. ASSUME NEW i \in 0..(n - 1)
      PROVE  f[i] \in Types /\ f[i] \notin {f[j] : j \in n..(BagSize - 1)}
  <2>1. i \in 0..(BagSize - 1)
    BY <1>2
  <2>2. \A j \in n..(BagSize - 1) : j \in 0..(BagSize - 1) /\ j # i
    BY <1>2
  <2>3. QED
    BY <1>1, <2>1, <2>2, ShuffleInjective
<1>4. ASSUME NEW p \in Types, p \notin {f[j] : j \in n..(BagSize - 1)}
      PROVE  p \in {f[i] : i \in 0..(n - 1)}
  <2>1. PICK i \in 0..(BagSize - 1) : f[i] = p
    BY <1>1
  <2>2. i \notin n..(BagSize - 1)
    BY <1>4, <2>1
  <2>3. i \in 0..(n - 1)
    BY <1>2, <2>1, <2>2
  <2>4. QED
    BY <2>1, <2>3
<1>5. QED
  BY <1>3, <1>4
-----------------------------------------------------------------------------
(* The hold plans of a search, and the tree they are grouped into. *)

\* The powers that the decision vectors of at most four moves need.
LEMMA Powers == 2^0 = 1 /\ 2^1 = 2 /\ 2^2 = 4 /\ 2^3 = 8 /\ 2^4 = 16
  OBVIOUS

\* The moves and the decision vectors of a search are numbered from zero.
LEMMA PlanSets ==
  /\ DEPTH \in {2, 3, 4}
  /\ Levels \subseteq {0, 1, 2, 3}
  /\ \A i \in Levels : i \in Nat /\ 0..i \subseteq Levels
  /\ MAX_SEQUENCES \in {4, 8, 16}
  /\ Plans \subseteq Nat /\ IsFiniteSet(Plans)
<1>1. DEPTH \in {2, 3, 4}
  BY DepthAssumption
<1>2. Levels \subseteq {0, 1, 2, 3} /\ \A i \in Levels : i \in Nat /\ 0..i \subseteq Levels
  BY <1>1 DEF Levels
<1>3. MAX_SEQUENCES \in {4, 8, 16}
  BY <1>1, Powers DEF MAX_SEQUENCES
<1>4. Plans \subseteq Nat /\ IsFiniteSet(Plans)
  BY <1>3, FS_Interval DEF Plans
<1>5. QED
  BY <1>1, <1>2, <1>3, <1>4

\* Deciding at one more level sets that bit and leaves those below alone.
LEMMA DecisionBits ==
  ASSUME NEW m \in Levels, NEW d \in 0..(2^m - 1)
  PROVE  /\ d \in 0..(2^(m + 1) - 1)
         /\ d + 2^m \in 0..(2^(m + 1) - 1)
         /\ ~Holds(d, m) /\ Holds(d + 2^m, m)
         /\ \A i \in 0..(m - 1) : Holds(d + 2^m, i) <=> Holds(d, i)
<1>1. m \in {0, 1, 2, 3}
  BY PlanSets
<1>2. CASE m = 0
  <2>1. 2^m = 1 /\ 2^(m + 1) = 2
    BY <1>2
  <2>2. QED
    BY <1>2, <2>1 DEF Holds
<1>3. CASE m = 1
  <2>1. 2^m = 2 /\ 2^(m + 1) = 4 /\ d \in 0..1
    BY <1>3
  <2>2. \A i \in 0..(m - 1) : i = 0
    BY <1>3
  <2>3. QED
    BY <1>3, <2>1, <2>2, Powers DEF Holds
<1>4. CASE m = 2
  <2>1. 2^m = 4 /\ 2^(m + 1) = 8 /\ d \in 0..3
    BY <1>4
  <2>2. \A i \in 0..(m - 1) : i \in {0, 1}
    BY <1>4
  <2>3. /\ Holds(d + 2^m, 0) <=> Holds(d, 0)
        /\ Holds(d + 2^m, 1) <=> Holds(d, 1)
    BY <2>1, Powers DEF Holds
  <2>4. ~Holds(d, m) /\ Holds(d + 2^m, m)
    BY <2>1 DEF Holds
  <2>5. QED
    BY <2>1, <2>2, <2>3, <2>4
<1>5. CASE m = 3
  <2>1. 2^m = 8 /\ 2^(m + 1) = 16 /\ d \in 0..7
    BY <1>5
  <2>2. \A i \in 0..(m - 1) : i \in {0, 1, 2}
    BY <1>5
  <2>3. /\ Holds(d + 2^m, 0) <=> Holds(d, 0)
        /\ Holds(d + 2^m, 1) <=> Holds(d, 1)
        /\ Holds(d + 2^m, 2) <=> Holds(d, 2)
    BY <2>1, Powers DEF Holds
  <2>4. ~Holds(d, m) /\ Holds(d + 2^m, m)
    BY <2>1 DEF Holds
  <2>5. QED
    BY <2>1, <2>2, <2>3, <2>4
<1>6. QED
  BY <1>1, <1>2, <1>3, <1>4, <1>5

\* A level's decision on what a walk has before it.
Decided(w, d, i) == IF Holds(d, i) THEN HoldStep(w) ELSE w

\* What a walk has before a level's decision.
Reached(h, w, i) == IF i = 0 THEN FirstPiece(h) ELSE NextPiece(w[i - 1])

\* The recursive definition of Walk has a solution: four levels at most.
LEMMA WalkUnfolds ==
  ASSUME NEW h, NEW d
  PROVE  Walk(h, d) = [i \in Levels |-> Decided(Reached(h, Walk(h, d), i), d, i)]
<1> DEFINE w0 == Decided(FirstPiece(h), d, 0)
           w1 == Decided(NextPiece(w0), d, 1)
           w2 == Decided(NextPiece(w1), d, 2)
           w3 == Decided(NextPiece(w2), d, 3)
           f == [i \in Levels |-> IF i = 0 THEN w0 ELSE IF i = 1 THEN w1 ELSE IF i = 2 THEN w2 ELSE w3]
           R(w) == [i \in Levels |-> Decided(Reached(h, w, i), d, i)]
<1>1. \A i \in Levels : i \in {0, 1, 2, 3} /\ (i # 0 => i - 1 \in Levels)
  BY PlanSets DEF Levels
<1>2. f = R(f)
  <2>1. ASSUME NEW i \in Levels
        PROVE  f[i] = R(f)[i]
    <3>1. CASE i = 0
      BY <3>1 DEF Reached
    <3>2. CASE i # 0
      <4>1. R(f)[i] = Decided(NextPiece(f[i - 1]), d, i)
        BY <3>2 DEF Reached
      <4>2. i \in {1, 2, 3} /\ i - 1 \in Levels
        BY <1>1, <3>2
      <4>3. CASE i = 1
        BY <4>1, <4>2, <4>3
      <4>4. CASE i = 2
        BY <4>1, <4>2, <4>4
      <4>5. CASE i = 3
        BY <4>1, <4>2, <4>5
      <4>6. QED
        BY <4>2, <4>3, <4>4, <4>5
    <3>3. QED
      BY <3>1, <3>2
  <2>2. QED
    BY <2>1
<1>3. Walk(h, d) = CHOOSE w : w = R(w)
  BY DEF Walk, Decided, Reached
<1> HIDE DEF f, R
<1>4. Walk(h, d) = R(Walk(h, d))
  BY <1>2, <1>3
<1>5. QED
  BY <1>4 DEF R

\* Where a walk may be at a level: two different slots in hand and on hold,
\* both read already, and no more slots read than moves made and one hold.
WalkedTo(w, i) ==
  /\ w \in [cur : Nat, hld : Nat, empty : BOOLEAN, k : Nat]
  /\ w.cur # w.hld
  /\ w.cur <= w.k /\ w.hld <= w.k
  /\ i < w.k /\ w.k <= i + 2
  /\ w.empty => w.k = i + 1

\* A decision keeps a walk where it may be, and tells itself in the slot.
LEMMA DecidedWalk ==
  ASSUME NEW i \in Nat, NEW w, WalkedTo(w, i), NEW d
  PROVE  /\ WalkedTo(Decided(w, d, i), i)
         /\ Holds(d, i) <=> Decided(w, d, i).cur # w.cur
<1> DEFINE n == Decided(w, d, i)
<1>1. w.k \in Nat /\ win_slot(w.k) = w.k + 1
  BY DEF win_slot, WalkedTo
<1>2. CASE ~Holds(d, i)
  BY <1>2 DEF Decided
<1>3. CASE Holds(d, i) /\ w.empty
  <2>1. n = [cur |-> w.k + 1, hld |-> w.cur, empty |-> FALSE, k |-> w.k + 1]
    BY <1>1, <1>3 DEF Decided, HoldStep
  <2>2. n \in [cur : Nat, hld : Nat, empty : BOOLEAN, k : Nat]
    BY <1>1, <2>1 DEF WalkedTo
  <2> HIDE DEF n
  <2>3. n.cur = w.k + 1 /\ n.hld = w.cur /\ n.empty = FALSE /\ n.k = w.k + 1
    BY <2>1
  <2>4. n.cur # w.cur
    BY <1>1, <2>3 DEF WalkedTo
  <2>5. WalkedTo(n, i)
    BY <1>3, <2>2, <2>3 DEF WalkedTo
  <2>6. QED
    BY <1>3, <2>4, <2>5 DEF n
<1>4. CASE Holds(d, i) /\ ~w.empty
  <2>1. n = [w EXCEPT !.cur = w.hld, !.hld = w.cur]
    BY <1>4 DEF Decided, HoldStep
  <2>2. n \in [cur : Nat, hld : Nat, empty : BOOLEAN, k : Nat]
    BY <2>1 DEF WalkedTo
  <2> HIDE DEF n
  <2>3. n.cur = w.hld /\ n.hld = w.cur /\ n.empty = w.empty /\ n.k = w.k
    BY <2>1 DEF WalkedTo
  <2>4. n.cur # w.cur
    BY <2>3 DEF WalkedTo
  <2>5. WalkedTo(n, i)
    BY <1>4, <2>2, <2>3 DEF WalkedTo
  <2>6. QED
    BY <1>4, <2>4, <2>5 DEF n
<1>5. QED
  BY <1>2, <1>3, <1>4

\* So does reading the next piece.
LEMMA NextWalk ==
  ASSUME NEW i \in Nat, NEW w, WalkedTo(w, i)
  PROVE  WalkedTo(NextPiece(w), i + 1)
<1> DEFINE n == NextPiece(w)
<1>1. PICK m \in Nat : m = w.k + 1
  BY DEF WalkedTo
<1>2. n = [w EXCEPT !.cur = m, !.k = m]
  <2>1. win_slot(w.k) = m
    BY <1>1 DEF win_slot, WalkedTo
  <2>2. QED
    BY <1>1, <2>1 DEF NextPiece
<1>3. n \in [cur : Nat, hld : Nat, empty : BOOLEAN, k : Nat]
  BY <1>2 DEF WalkedTo
<1> HIDE DEF n
<1>4. n.cur = w.k + 1 /\ n.hld = w.hld /\ n.empty = w.empty /\ n.k = w.k + 1
  BY <1>1, <1>2 DEF WalkedTo
<1>5. WalkedTo(n, i + 1)
  BY <1>3, <1>4 DEF WalkedTo
<1>6. QED
  BY <1>5 DEF n

\* Walk level by level, for the levels of the search.
LEMMA WalkLevels ==
  ASSUME NEW h \in BOOLEAN, NEW d
  PROVE  /\ WalkedTo(FirstPiece(h), 0)
         /\ Walk(h, d)[0] = Decided(FirstPiece(h), d, 0)
         /\ \A i \in Levels : i + 1 \in Levels =>
              Walk(h, d)[i + 1] = Decided(NextPiece(Walk(h, d)[i]), d, i + 1)
         /\ \A i \in Levels : WalkedTo(Walk(h, d)[i], i)
<1> DEFINE W == Walk(h, d)
           G == [i \in Levels |-> Decided(Reached(h, W, i), d, i)]
<1>0. W = G
  BY WalkUnfolds, Zenon
<1> HIDE DEF W
<1>1. WalkedTo(FirstPiece(h), 0)
  BY DEF FirstPiece, WalkedTo, win_slot, SEQ_HELD_SLOT
<1>2. 0 \in Levels
  BY PlanSets DEF Levels
<1>3. W[0] = Decided(FirstPiece(h), d, 0)
  <2>1. W[0] = Decided(Reached(h, W, 0), d, 0)
    <3>1. G[0] = Decided(Reached(h, W, 0), d, 0)
      BY <1>2
    <3> HIDE DEF G
    <3>2. QED
      BY <1>0, <3>1
  <2>2. QED
    BY <2>1 DEF Reached
<1>4. ASSUME NEW i \in Levels, i + 1 \in Levels
      PROVE  W[i + 1] = Decided(NextPiece(W[i]), d, i + 1)
  <2>1. W[i + 1] = Decided(Reached(h, W, i + 1), d, i + 1)
    <3>1. G[i + 1] = Decided(Reached(h, W, i + 1), d, i + 1)
      BY <1>4
    <3> HIDE DEF G
    <3>2. QED
      BY <1>0, <3>1
  <2>2. Reached(h, W, i + 1) = NextPiece(W[i])
    <3> DEFINE j == i + 1
    <3>1. Reached(h, W, j) = IF j = 0 THEN FirstPiece(h) ELSE NextPiece(W[j - 1])
      BY DEF Reached
    <3>2. j # 0 /\ j - 1 = i
      BY PlanSets
    <3> HIDE DEF j
    <3>3. Reached(h, W, j) = NextPiece(W[i])
      BY <3>1, <3>2
    <3>4. QED
      BY <3>3 DEF j
  <2>3. QED
    BY <2>1, <2>2
<1> HIDE DEF G
<1>5. WalkedTo(W[0], 0)
  BY <1>1, <1>3, DecidedWalk
<1>6. ASSUME NEW i \in Levels, i + 1 \in Levels, WalkedTo(W[i], i)
      PROVE  WalkedTo(W[i + 1], i + 1)
  <2>1. i \in Nat /\ i + 1 \in Nat
    BY PlanSets
  <2>2. WalkedTo(NextPiece(W[i]), i + 1)
    BY <1>6, <2>1, NextWalk
  <2>3. QED
    BY <1>4, <1>6, <2>1, <2>2, DecidedWalk
<1>7. ASSUME NEW i \in Levels
      PROVE  WalkedTo(W[i], i)
  <2>1. i \in {0, 1, 2, 3} /\ 0..i \subseteq Levels
    BY PlanSets
  <2>2. i >= 1 => WalkedTo(W[1], 1)
    <3>1. i >= 1 => 0 \in Levels /\ 0 + 1 \in Levels /\ 0 + 1 = 1
      BY <2>1
    <3>2. QED
      BY <1>5, <1>6, <3>1
  <2>3. i >= 2 => WalkedTo(W[2], 2)
    <3>1. i >= 2 => 1 \in Levels /\ 1 + 1 \in Levels /\ 1 + 1 = 2 /\ i >= 1
      BY <2>1
    <3>2. QED
      BY <1>6, <2>2, <3>1
  <2>4. i >= 3 => WalkedTo(W[3], 3)
    <3>1. i >= 3 => 2 \in Levels /\ 2 + 1 \in Levels /\ 2 + 1 = 3 /\ i >= 2
      BY <2>1
    <3>2. QED
      BY <1>6, <2>3, <3>1
  <2>5. QED
    BY <1>5, <2>1, <2>2, <2>3, <2>4
<1>8. QED
  BY <1>1, <1>3, <1>4, <1>7 DEF W

\* The same decisions up to a level walk the same way up to it.
LEMMA SameWalk ==
  ASSUME NEW h \in BOOLEAN, NEW d, NEW e, NEW level \in Levels,
         \A i \in 0..level : Holds(d, i) <=> Holds(e, i)
  PROVE  \A i \in 0..level : Walk(h, d)[i] = Walk(h, e)[i]
<1> DEFINE D == Walk(h, d)
           E == Walk(h, e)
<1>1. D[0] = E[0]
  <2>1. Holds(d, 0) <=> Holds(e, 0)
    BY PlanSets
  <2>2. QED
    BY <2>1, WalkLevels DEF Decided
<1>2. ASSUME NEW i \in 0..level, i + 1 \in 0..level, D[i] = E[i]
      PROVE  D[i + 1] = E[i + 1]
  <2>1. i \in Levels /\ i + 1 \in Levels
    BY <1>2, PlanSets
  <2>2. D[i + 1] = Decided(NextPiece(D[i]), d, i + 1)
    BY <2>1, WalkLevels
  <2>3. E[i + 1] = Decided(NextPiece(E[i]), e, i + 1)
    BY <2>1, WalkLevels
  <2>4. QED
    BY <1>2, <2>2, <2>3 DEF Decided
<1> HIDE DEF D, E
<1>3. level \in {0, 1, 2, 3}
  BY PlanSets
<1>4. level >= 1 => D[1] = E[1]
  <2>1. level >= 1 => 0 \in 0..level /\ 0 + 1 \in 0..level /\ 0 + 1 = 1
    BY <1>3
  <2>2. QED
    BY <1>1, <1>2, <2>1
<1>5. level >= 2 => D[2] = E[2]
  <2>1. level >= 2 => 1 \in 0..level /\ 1 + 1 \in 0..level /\ 1 + 1 = 2 /\ level >= 1
    BY <1>3
  <2>2. QED
    BY <1>2, <1>4, <2>1
<1>6. level >= 3 => D[3] = E[3]
  <2>1. level >= 3 => 2 \in 0..level /\ 2 + 1 \in 0..level /\ 2 + 1 = 3 /\ level >= 2
    BY <1>3
  <2>2. QED
    BY <1>2, <1>5, <2>1
<1>7. \A i \in 0..level : i \in {0, 1, 2, 3} /\ i <= level
  BY <1>3
<1>8. QED
  BY <1>1, <1>4, <1>5, <1>6, <1>7 DEF D, E

\* Two plans that place the same slots up to a level have decided the same:
\* every decision puts a slot of its own in hand.
LEMMA SameSlotsSameDecisions ==
  ASSUME NEW h \in BOOLEAN, NEW d, NEW e, NEW level \in Levels,
         \A i \in 0..level : Walk(h, d)[i].cur = Walk(h, e)[i].cur
  PROVE  \A i \in 0..level : Holds(d, i) <=> Holds(e, i)
<1> DEFINE D == Walk(h, d)
           E == Walk(h, e)
           Same(i) == D[i] = E[i] /\ (Holds(d, i) <=> Holds(e, i))
<1>1. level \in {0, 1, 2, 3} /\ level \in Nat /\ 0..level \subseteq Levels
  BY PlanSets
<1>2. ASSUME NEW i \in 0..level, NEW w, WalkedTo(w, i),
             D[i] = Decided(w, d, i), E[i] = Decided(w, e, i)
      PROVE  Same(i)
  <2>1. i \in Nat
    BY <1>1
  <2>2. D[i].cur = E[i].cur
    OBVIOUS
  <2> HIDE DEF D, E
  <2>3. Holds(d, i) <=> Holds(e, i)
    BY <1>2, <2>1, <2>2, DecidedWalk
  <2>4. QED
    BY <1>2, <2>3 DEF Decided
<1>3. Same(0)
  BY <1>1, <1>2, WalkLevels
<1>4. ASSUME NEW i \in 0..level, i + 1 \in 0..level, Same(i)
      PROVE  Same(i + 1)
  <2>1. i \in Levels /\ i + 1 \in Levels /\ i \in Nat
    BY <1>1, <1>4
  <2>2. D[i + 1] = Decided(NextPiece(D[i]), d, i + 1)
    BY <2>1, WalkLevels
  <2>3. E[i + 1] = Decided(NextPiece(E[i]), e, i + 1)
    BY <2>1, WalkLevels
  <2>4. WalkedTo(NextPiece(D[i]), i + 1)
    BY <2>1, WalkLevels, NextWalk
  <2> HIDE DEF D, E
  <2>5. E[i + 1] = Decided(NextPiece(D[i]), e, i + 1)
    BY <1>4, <2>3
  <2>6. QED
    BY <1>2, <1>4, <2>2, <2>4, <2>5
<1> HIDE DEF Same
<1>5. level >= 1 => Same(1)
  <2>1. level >= 1 => 0 \in 0..level /\ 0 + 1 \in 0..level /\ 0 + 1 = 1
    BY <1>1
  <2>2. QED
    BY <1>3, <1>4, <2>1
<1>6. level >= 2 => Same(2)
  <2>1. level >= 2 => 1 \in 0..level /\ 1 + 1 \in 0..level /\ 1 + 1 = 2 /\ level >= 1
    BY <1>1
  <2>2. QED
    BY <1>4, <1>5, <2>1
<1>7. level >= 3 => Same(3)
  <2>1. level >= 3 => 2 \in 0..level /\ 2 + 1 \in 0..level /\ 2 + 1 = 3 /\ level >= 2
    BY <1>1
  <2>2. QED
    BY <1>4, <1>6, <2>1
<1>8. \A i \in 0..level : i \in {0, 1, 2, 3} /\ i <= level
  BY <1>1
<1>9. \A i \in 0..level : Same(i)
  BY <1>3, <1>5, <1>6, <1>7, <1>8
<1>10. QED
  BY <1>9 DEF Same
-----------------------------------------------------------------------------
\* Running through the same node is an equivalence, finer level by level.
LEMMA SameNodeEquivalence ==
  ASSUME NEW plans, NEW level \in Levels, NEW d, NEW e, SameNode(plans, level, d, e)
  PROVE  /\ SameNode(plans, level, e, d)
         /\ \A f : SameNode(plans, level, e, f) => SameNode(plans, level, d, f)
         /\ \A i \in 0..level : SameNode(plans, i, d, e)
<1>1. level \in Nat
  BY PlanSets
<1>2. \A i \in 0..level : 0..i \subseteq 0..level
  BY <1>1
<1>3. QED
  BY <1>2 DEF SameNode

\* The first plan through a node is one of them, the same for all of them.
LEMMA FirstPlanProps ==
  ASSUME NEW plans, NEW level \in Levels, NEW d \in Plans
  PROVE  /\ FirstPlan(plans, level, d) \in Plans
         /\ SameNode(plans, level, d, FirstPlan(plans, level, d))
         /\ \A e \in Plans :
              FirstPlan(plans, level, d) = FirstPlan(plans, level, e)
                <=> SameNode(plans, level, d, e)
<1> DEFINE Through(x) == {e \in Plans : SameNode(plans, level, x, e)}
           First(x, e) == /\ SameNode(plans, level, x, e)
                          /\ \A f \in Plans : f < e => ~SameNode(plans, level, x, f)
<1>1. ASSUME NEW x \in Plans
      PROVE  /\ FirstPlan(plans, level, x) \in Plans
             /\ First(x, FirstPlan(plans, level, x))
  <2>1. x \in Through(x)
    BY DEF SameNode
  <2>2. Through(x) \in SUBSET Nat /\ Through(x) # {}
    BY <2>1, PlanSets
  <2>3. Min(Through(x)) \in Through(x) /\ \A y \in Through(x) : Min(Through(x)) <= y
    BY <2>2, MinOfNaturals
  <2>4. PICK m \in Plans : m \in Through(x) /\ \A y \in Through(x) : m <= y
    BY <2>3
  <2>5. \A f \in Plans : f < m => f \notin Through(x)
    BY <2>4, PlanSets
  <2>6. First(x, m)
    BY <2>4, <2>5
  <2>7. FirstPlan(plans, level, x) = CHOOSE e \in Plans : First(x, e)
    BY DEF FirstPlan
  <2> HIDE DEF First
  <2>8. QED
    BY <2>6, <2>7
<1>2. ASSUME NEW e \in Plans, SameNode(plans, level, d, e)
      PROVE  FirstPlan(plans, level, d) = FirstPlan(plans, level, e)
  <2>1. \A f : SameNode(plans, level, d, f) <=> SameNode(plans, level, e, f)
    BY <1>2, SameNodeEquivalence
  <2>2. /\ First(d, FirstPlan(plans, level, d)) /\ First(e, FirstPlan(plans, level, e))
        /\ FirstPlan(plans, level, d) \in Plans /\ FirstPlan(plans, level, e) \in Plans
    BY <1>1
  <2>3. /\ ~(FirstPlan(plans, level, d) < FirstPlan(plans, level, e))
        /\ ~(FirstPlan(plans, level, e) < FirstPlan(plans, level, d))
    BY <2>1, <2>2
  <2>4. FirstPlan(plans, level, d) \in Nat /\ FirstPlan(plans, level, e) \in Nat
    BY <2>2, PlanSets
  <2>5. QED
    BY <2>3, <2>4
<1>3. ASSUME NEW e \in Plans, FirstPlan(plans, level, d) = FirstPlan(plans, level, e)
      PROVE  SameNode(plans, level, d, e)
  <2>1. SameNode(plans, level, d, FirstPlan(plans, level, d))
    BY <1>1
  <2>2. SameNode(plans, level, FirstPlan(plans, level, d), e)
    BY <1>1, <1>3, SameNodeEquivalence
  <2>3. QED
    BY <2>1, <2>2, SameNodeEquivalence
<1>4. QED
  BY <1>1, <1>2, <1>3

\* Whether a node comes before another depends on nothing but the nodes.
LEMMA NodeBeforeOfNodes ==
  ASSUME NEW plans, NEW level \in Levels, NEW d \in Plans, NEW e \in Plans, NEW f \in Plans,
         SameNode(plans, level, d, e)
  PROVE  /\ NodeBefore(plans, level, d, f) <=> NodeBefore(plans, level, e, f)
         /\ NodeBefore(plans, level, f, d) <=> NodeBefore(plans, level, f, e)
<1>1. level \in Nat /\ 0..level \subseteq Levels
  BY PlanSets
<1>2. \A i \in 0..level : FirstPlan(plans, i, d) = FirstPlan(plans, i, e)
  BY <1>1, SameNodeEquivalence, FirstPlanProps
<1>3. \A i \in 0..level : \A j \in 0..(i - 1) : j \in 0..level
  BY <1>1
<1>4. QED
  BY <1>2, <1>3 DEF NodeBefore

\* Of two plans through different nodes, one comes before the other.
LEMMA NodeBeforeTotal ==
  ASSUME NEW plans, NEW level \in Levels, NEW d \in Plans, NEW e \in Plans
  PROVE  \/ SameNode(plans, level, d, e)
         \/ NodeBefore(plans, level, d, e)
         \/ NodeBefore(plans, level, e, d)
<1> SUFFICES ASSUME ~SameNode(plans, level, d, e)
             PROVE  NodeBefore(plans, level, d, e) \/ NodeBefore(plans, level, e, d)
  OBVIOUS
<1> DEFINE F(i, x) == FirstPlan(plans, i, x)
           Differ == {i \in 0..level : F(i, d) # F(i, e)}
<1>1. level \in Nat /\ 0..level \subseteq Levels
  BY PlanSets
<1>2. level \in Differ
  BY <1>1, FirstPlanProps
<1>3. Differ \in SUBSET Nat /\ Differ # {}
  BY <1>1, <1>2
<1>4. PICK i \in 0..level : F(i, d) # F(i, e) /\ \A j \in Differ : i <= j
  <2>1. Min(Differ) \in Differ /\ \A j \in Differ : Min(Differ) <= j
    BY <1>3, MinOfNaturals
  <2>2. QED
    BY <2>1
<1>5. \A j \in 0..(i - 1) : F(j, d) = F(j, e)
  <2>1. \A j \in 0..(i - 1) : j \in 0..level /\ ~(i <= j)
    BY <1>1
  <2>2. QED
    BY <1>4, <2>1
<1>6. F(i, d) \in Nat /\ F(i, e) \in Nat
  BY <1>1, FirstPlanProps, PlanSets
<1>7. F(i, d) < F(i, e) \/ F(i, e) < F(i, d)
  <2> HIDE DEF F
  <2>1. QED
    BY <1>4, <1>6
<1>8. QED
  BY <1>5, <1>7 DEF NodeBefore

\* Coming before is a strict order on nodes.
LEMMA NodeBeforeStrict ==
  ASSUME NEW plans, NEW level \in Levels, NEW d \in Plans, NEW e \in Plans
  PROVE  /\ ~NodeBefore(plans, level, d, d)
         /\ NodeBefore(plans, level, d, e) => ~SameNode(plans, level, d, e)
         /\ \A f \in Plans : NodeBefore(plans, level, d, e) /\ NodeBefore(plans, level, e, f)
                               => NodeBefore(plans, level, d, f)
<1>1. level \in Nat /\ 0..level \subseteq Levels
  BY PlanSets
<1>2. \A i \in 0..level, x \in Plans : FirstPlan(plans, i, x) \in Nat
  BY <1>1, FirstPlanProps, PlanSets
<1>3. ~NodeBefore(plans, level, d, d)
  BY <1>2 DEF NodeBefore
<1>4. NodeBefore(plans, level, d, e) => ~SameNode(plans, level, d, e)
  BY <1>3, NodeBeforeOfNodes
<1>5. ASSUME NEW f \in Plans, NodeBefore(plans, level, d, e), NodeBefore(plans, level, e, f)
      PROVE  NodeBefore(plans, level, d, f)
  <2> DEFINE F(i, x) == FirstPlan(plans, i, x)
  <2>1. PICK i \in 0..level : F(i, d) < F(i, e) /\ \A j \in 0..(i - 1) : F(j, d) = F(j, e)
    BY <1>5 DEF NodeBefore
  <2>2. PICK k \in 0..level : F(k, e) < F(k, f) /\ \A j \in 0..(k - 1) : F(j, e) = F(j, f)
    BY <1>5 DEF NodeBefore
  <2>3. SUFFICES \E n \in 0..level : F(n, d) < F(n, f) /\ \A j \in 0..(n - 1) : F(j, d) = F(j, f)
    BY DEF NodeBefore
  <2>4. \A n \in 0..level : F(n, d) \in Nat /\ F(n, e) \in Nat /\ F(n, f) \in Nat
    BY <1>2
  <2> HIDE DEF F
  <2>5. CASE i < k
    <3>1. i \in 0..(k - 1) /\ \A j \in 0..(i - 1) : j \in 0..(k - 1)
      BY <1>1, <2>5
    <3>2. F(i, d) < F(i, f) /\ \A j \in 0..(i - 1) : F(j, d) = F(j, f)
      BY <2>1, <2>2, <3>1
    <3>3. QED
      BY <3>2
  <2>6. CASE k < i
    <3>1. k \in 0..(i - 1) /\ \A j \in 0..(k - 1) : j \in 0..(i - 1)
      BY <1>1, <2>6
    <3>2. F(k, d) < F(k, f) /\ \A j \in 0..(k - 1) : F(j, d) = F(j, f)
      BY <2>1, <2>2, <3>1
    <3>3. QED
      BY <3>2
  <2>7. CASE i = k
    <3>1. F(i, d) < F(i, f) /\ \A j \in 0..(i - 1) : F(j, d) = F(j, f)
      BY <2>1, <2>2, <2>4, <2>7
    <3>2. QED
      BY <3>1
  <2>8. QED
    BY <1>1, <2>5, <2>6, <2>7
<1>6. QED
  BY <1>3, <1>4, <1>5

\* A level's order refines that of the level above.
LEMMA NodeBeforeRefines ==
  ASSUME NEW plans, NEW level \in Levels, level + 1 \in Levels, NEW d \in Plans, NEW e \in Plans
  PROVE  NodeBefore(plans, level + 1, d, e)
           <=> \/ NodeBefore(plans, level, d, e)
               \/ /\ SameNode(plans, level, d, e)
                  /\ FirstPlan(plans, level + 1, d) < FirstPlan(plans, level + 1, e)
<1> DEFINE F(i, x) == FirstPlan(plans, i, x)
           At(i) == F(i, d) < F(i, e) /\ \A j \in 0..(i - 1) : F(j, d) = F(j, e)
<1>1. level \in Nat /\ 0..level \subseteq Levels
  BY PlanSets
<1>2. NodeBefore(plans, level + 1, d, e) <=> \E i \in 0..(level + 1) : At(i)
  BY DEF NodeBefore
<1>3. NodeBefore(plans, level, d, e) <=> \E i \in 0..level : At(i)
  BY DEF NodeBefore
<1>4. SameNode(plans, level, d, e) <=> \A j \in 0..level : F(j, d) = F(j, e)
  <2>1. level \in 0..level
    BY <1>1
  <2>2. QED
    BY <1>1, <2>1, SameNodeEquivalence, FirstPlanProps
<1>5. (level + 1) - 1 = level
  BY <1>1
<1>6. At(level + 1) <=> F(level + 1, d) < F(level + 1, e) /\ SameNode(plans, level, d, e)
  BY <1>4, <1>5
<1> HIDE DEF At
<1>7. (\E i \in 0..(level + 1) : At(i)) <=> (\E i \in 0..level : At(i)) \/ At(level + 1)
  <2>1. 0..(level + 1) = 0..level \cup {level + 1}
    BY <1>1
  <2>2. QED
    BY <2>1
<1>8. QED
  BY <1>2, <1>3, <1>6, <1>7

\* The nodes before that of a plan, told by their first plans.
NodesBefore(plans, level, d) ==
  {FirstPlan(plans, level, e) : e \in {e \in Plans : NodeBefore(plans, level, e, d)}}

\* Nodes are numbered in their order: different nodes get different numbers.
LEMMA NodeNumbers ==
  ASSUME NEW plans, NEW level \in Levels, NEW d \in Plans, NEW e \in Plans
  PROVE  /\ NodeNumber(plans, level, d) \in Nat
         /\ NodeNumber(plans, level, d) = NodeNumber(plans, level, e) <=> SameNode(plans, level, d, e)
         /\ NodeNumber(plans, level, d) < NodeNumber(plans, level, e) <=> NodeBefore(plans, level, d, e)
<1> DEFINE B(x) == NodesBefore(plans, level, x)
           N(x) == NodeNumber(plans, level, x)
<1>1. ASSUME NEW x \in Plans
      PROVE  B(x) \subseteq Plans /\ IsFiniteSet(B(x)) /\ N(x) = Cardinality(B(x)) /\ N(x) \in Nat
  <2>1. B(x) \subseteq Plans
    BY FirstPlanProps DEF NodesBefore
  <2>2. N(x) = Cardinality(B(x))
    BY DEF NodeNumber, NodesBefore
  <2> HIDE DEF B, N
  <2>3. QED
    BY <2>1, <2>2, PlanSets, FS_Subset, FS_CardinalityType
<1>2. ASSUME NEW x \in Plans, NEW y \in Plans, SameNode(plans, level, x, y)
      PROVE  N(x) = N(y)
  <2>1. B(x) = B(y)
    BY <1>2, NodeBeforeOfNodes DEF NodesBefore
  <2>2. QED
    BY <1>1, <2>1
<1>3. ASSUME NEW x \in Plans, NEW y \in Plans, NodeBefore(plans, level, x, y)
      PROVE  N(x) < N(y)
  <2>1. B(x) \subseteq B(y)
    BY <1>3, NodeBeforeStrict DEF NodesBefore
  <2>2. FirstPlan(plans, level, x) \in B(y)
    BY <1>3 DEF NodesBefore
  <2>3. FirstPlan(plans, level, x) \notin B(x)
    <3> SUFFICES ASSUME NEW z \in Plans, NodeBefore(plans, level, z, x),
                        FirstPlan(plans, level, x) = FirstPlan(plans, level, z)
                 PROVE  FALSE
      BY DEF NodesBefore
    <3>1. SameNode(plans, level, z, x)
      BY FirstPlanProps
    <3>2. QED
      BY <3>1, NodeBeforeStrict
  <2> HIDE DEF B
  <2>4. B(x) # B(y)
    BY <2>2, <2>3
  <2>5. Cardinality(B(x)) <= Cardinality(B(y)) /\ Cardinality(B(x)) # Cardinality(B(y))
    BY <1>1, <2>1, <2>4, FS_Subset
  <2> HIDE DEF N
  <2>6. QED
    BY <1>1, <2>5
<1> HIDE DEF N
<1>4. SameNode(plans, level, d, e) \/ NodeBefore(plans, level, d, e) \/ NodeBefore(plans, level, e, d)
  BY NodeBeforeTotal
<1>5. /\ SameNode(plans, level, d, e) => N(d) = N(e)
      /\ NodeBefore(plans, level, d, e) => N(d) < N(e)
      /\ NodeBefore(plans, level, e, d) => N(e) < N(d)
  BY <1>2, <1>3
<1>6. N(d) \in Nat /\ N(e) \in Nat
  BY <1>1
<1>7. /\ N(d) \in Nat
      /\ N(d) = N(e) <=> SameNode(plans, level, d, e)
      /\ N(d) < N(e) <=> NodeBefore(plans, level, d, e)
  BY <1>4, <1>5, <1>6
<1>8. QED
  BY <1>7 DEF N
-----------------------------------------------------------------------------
\* The level-by-level fields of a plan in the table.
LEMMA PlanFields ==
  ASSUME NEW h \in BOOLEAN, NEW d \in Plans, NEW i \in Levels
  PROVE  /\ PLANS[h][d].slot[i] = Walk(h, d)[i].cur
         /\ PLANS[h][d].heldSlot[i] = IF Walk(h, d)[i].empty THEN HELD_NONE ELSE Walk(h, d)[i].hld
         /\ PLANS[h][d].rootHold <=> Holds(d, 0)
<1>1. PLANS[h][d] = Plan(h, d)
  BY DEF PLANS
<1>2. /\ Plan(h, d).slot[i] = Walk(h, d)[i].cur
      /\ Plan(h, d).heldSlot[i] = IF Walk(h, d)[i].empty THEN HELD_NONE ELSE Walk(h, d)[i].hld
      /\ Plan(h, d).rootHold <=> Holds(d, 0)
  <2> DEFINE W == Walk(h, d)
             p == [slot     |-> [j \in Levels |-> W[j].cur],
                   heldSlot |-> [j \in Levels |-> IF W[j].empty THEN HELD_NONE ELSE W[j].hld],
                   rootHold |-> Holds(d, 0)]
  <2>1. Plan(h, d) = p
    BY DEF Plan
  <2> HIDE DEF W
  <2>2. p.slot[i] = W[i].cur
    OBVIOUS
  <2>3. p.heldSlot[i] = IF W[i].empty THEN HELD_NONE ELSE W[i].hld
    OBVIOUS
  <2>4. p.rootHold <=> Holds(d, 0)
    OBVIOUS
  <2> HIDE DEF p
  <2>5. QED
    BY <2>1, <2>2, <2>3, <2>4 DEF W
<1>3. QED
  BY <1>1, <1>2

\* Plans share a node of a level if and only if they have decided the same up
\* to that level.
THEOREM NodesAreDecisions ==
  ASSUME NEW h \in BOOLEAN, NEW level \in Levels, NEW d \in Plans, NEW e \in Plans
  PROVE  SameNode(PLANS[h], level, d, e) <=> \A i \in 0..level : Holds(d, i) <=> Holds(e, i)
<1>1. level \in Nat /\ 0..level \subseteq Levels /\ 0 \in 0..level
  BY PlanSets
<1>2. ASSUME SameNode(PLANS[h], level, d, e)
      PROVE  \A i \in 0..level : Holds(d, i) <=> Holds(e, i)
  <2>1. \A i \in 0..level : Walk(h, d)[i].cur = Walk(h, e)[i].cur
    BY <1>1, <1>2, PlanFields DEF SameNode
  <2>2. QED
    BY <2>1, SameSlotsSameDecisions
<1>3. ASSUME \A i \in 0..level : Holds(d, i) <=> Holds(e, i)
      PROVE  SameNode(PLANS[h], level, d, e)
  <2>1. \A i \in 0..level : Walk(h, d)[i] = Walk(h, e)[i]
    BY <1>3, SameWalk
  <2>2. \A i \in 0..level : PLANS[h][d].slot[i] = PLANS[h][e].slot[i]
    BY <1>1, <2>1, PlanFields
  <2>3. PLANS[h][d].rootHold = PLANS[h][e].rootHold
    <3>1. PLANS[h][d] = Plan(h, d) /\ PLANS[h][e] = Plan(h, e)
      BY DEF PLANS
    <3>2. Plan(h, d).rootHold = Holds(d, 0) /\ Plan(h, e).rootHold = Holds(e, 0)
      BY DEF Plan
    <3>3. Holds(d, 0) = Holds(e, 0)
      BY <1>1, <1>3 DEF Holds
    <3>4. QED
      BY <3>1, <3>2, <3>3
  <2>4. QED
    BY <2>2, <2>3 DEF SameNode
<1>4. QED
  BY <1>2, <1>3

\* The number of a plan's node in the table.
LEMMA PlanNodeNumber ==
  ASSUME NEW h \in BOOLEAN, NEW level \in Levels, NEW d \in Plans
  PROVE  PLAN_NODES[h][level][d] = NodeNumber(PLANS[h], level, d)
  BY DEF PLAN_NODES

\* The node numbers of a level, which the layer of a tree is indexed by.
LayerNodes(h, level) == {PLAN_NODES[h][level][d] : d \in Plans}

\* The nodes of the next level whose parent is one of the first n.
ChildrenUpTo(h, level, n) ==
  IF level + 1 = DEPTH THEN {}
  ELSE {PLAN_NODES[h][level + 1][d] : d \in {d \in Plans : PLAN_NODES[h][level][d] <= n}}

\* A node of a tree, read through any plan that runs through it.
LEMMA TreeNode ==
  ASSUME NEW h \in BOOLEAN, NEW level \in Levels, NEW d \in Plans,
         NEW n, n = PLAN_NODES[h][level][d]
  PROVE  /\ DOMAIN PLAN_TREES[h][level] = LayerNodes(h, level)
         /\ n \in LayerNodes(h, level)
         /\ PLAN_TREES[h][level][n].slot = Walk(h, d)[level].cur
         /\ PLAN_TREES[h][level][n].heldSlot
              = IF Walk(h, d)[level].empty THEN HELD_NONE ELSE Walk(h, d)[level].hld
         /\ PLAN_TREES[h][level][n].rootHold = (level = 0 /\ Holds(d, 0))
         /\ PLAN_TREES[h][level][n].childBegin = Cardinality(ChildrenUpTo(h, level, n - 1))
         /\ PLAN_TREES[h][level][n].childEnd = Cardinality(ChildrenUpTo(h, level, n))
<1> DEFINE plans == PLANS[h]
           nodes == PLAN_NODES[h]
           First(x, f) == nodes[level][f] = x /\ FirstPlan(plans, level, f) = f
           first(x) == CHOOSE f \in Plans : First(x, f)
           upTo(x) == ChildrenUpTo(h, level, x)
           node(x) == [slot       |-> plans[first(x)].slot[level],
                       heldSlot   |-> plans[first(x)].heldSlot[level],
                       rootHold   |-> level = 0 /\ plans[first(x)].rootHold,
                       childBegin |-> Cardinality(upTo(x - 1)),
                       childEnd   |-> Cardinality(upTo(x))]
<1>1. PLAN_TREES[h][level] = BuildLayer(plans, nodes, level)
  BY DEF PLAN_TREES
<1>2. BuildLayer(plans, nodes, level) = [x \in {nodes[level][f] : f \in Plans} |-> node(x)]
  BY DEF BuildLayer, ChildrenUpTo
<1>3. n \in {nodes[level][f] : f \in Plans}
  OBVIOUS
<1> DEFINE f == first(n)
<1>4. f \in Plans /\ First(n, f)
  <2> DEFINE g == FirstPlan(plans, level, d)
  <2>1. g \in Plans /\ SameNode(plans, level, d, g)
    BY FirstPlanProps
  <2>2. FirstPlan(plans, level, g) = g
    BY <2>1, FirstPlanProps
  <2>3. nodes[level][g] = n
    BY <2>1, PlanNodeNumber, NodeNumbers
  <2>4. First(n, g)
    BY <2>2, <2>3
  <2> HIDE DEF First, g
  <2>5. QED
    BY <2>1, <2>4
<1>5. SameNode(plans, level, f, d)
  <2> HIDE DEF f
  <2>1. nodes[level][f] = nodes[level][d] /\ f \in Plans
    BY <1>4
  <2>2. QED
    BY <2>1, PlanNodeNumber, NodeNumbers
<1>6. level \in 0..level /\ 0 \in 0..level
  BY PlanSets
<1>7. /\ Walk(h, f)[level] = Walk(h, d)[level]
      /\ Holds(f, 0) <=> Holds(d, 0)
  <2> HIDE DEF f
  <2>1. \A i \in 0..level : Holds(f, i) <=> Holds(d, i)
    BY <1>4, <1>5, NodesAreDecisions
  <2>2. QED
    BY <1>6, <2>1, SameWalk
<1>8. PLAN_TREES[h][level] = [x \in LayerNodes(h, level) |-> node(x)]
  BY <1>1, <1>2 DEF LayerNodes
<1>9. PLAN_TREES[h][level][n] = node(n)
  <2> HIDE DEF node
  <2>1. n \in LayerNodes(h, level)
    BY <1>3 DEF LayerNodes
  <2>2. QED
    BY <1>8, <2>1
<1> HIDE DEF f, upTo
<1>10. /\ node(n).slot = plans[f].slot[level]
       /\ node(n).heldSlot = plans[f].heldSlot[level]
       /\ node(n).rootHold = (level = 0 /\ plans[f].rootHold)
       /\ node(n).childBegin = Cardinality(upTo(n - 1))
       /\ node(n).childEnd = Cardinality(upTo(n))
  BY DEF f
<1> HIDE DEF node
<1>11. /\ plans[f].slot[level] = Walk(h, d)[level].cur
       /\ plans[f].heldSlot[level] = IF Walk(h, d)[level].empty THEN HELD_NONE ELSE Walk(h, d)[level].hld
       /\ plans[f].rootHold <=> Holds(d, 0)
  BY <1>4, <1>7, PlanFields
<1>12. node(n).rootHold = (level = 0 /\ Holds(d, 0))
  BY <1>10, <1>11
<1>13. DOMAIN PLAN_TREES[h][level] = LayerNodes(h, level) /\ n \in LayerNodes(h, level)
  BY <1>3, <1>8 DEF LayerNodes
<1>14. QED
  BY <1>9, <1>10, <1>11, <1>12, <1>13 DEF upTo

\* A set of plans runs through as many nodes as there are first plans of them.
LEMMA NodesOfPlans ==
  ASSUME NEW plans, NEW level \in Levels, NEW S \in SUBSET Plans
  PROVE  /\ IsFiniteSet({NodeNumber(plans, level, d) : d \in S})
         /\ IsFiniteSet({FirstPlan(plans, level, d) : d \in S})
         /\ Cardinality({NodeNumber(plans, level, d) : d \in S})
              = Cardinality({FirstPlan(plans, level, d) : d \in S})
<1> DEFINE F == {FirstPlan(plans, level, d) : d \in S}
           N(d) == NodeNumber(plans, level, d)
<1>1. F \subseteq Plans
  BY FirstPlanProps
<1>2. IsFiniteSet(F)
  BY <1>1, PlanSets, FS_Subset
<1>3. \A d \in S : N(FirstPlan(plans, level, d)) = N(d)
  <2>1. ASSUME NEW d \in S
        PROVE  N(FirstPlan(plans, level, d)) = N(d)
    <3>1. FirstPlan(plans, level, d) \in Plans /\ SameNode(plans, level, d, FirstPlan(plans, level, d))
      BY FirstPlanProps
    <3>2. QED
      BY <3>1, NodeNumbers
  <2>2. QED
    BY <2>1
<1>4. {N(f) : f \in F} = {N(d) : d \in S}
  BY <1>3
<1>5. \A f, g \in F : N(f) = N(g) => f = g
  <2>1. ASSUME NEW d \in S, NEW e \in S,
               N(FirstPlan(plans, level, d)) = N(FirstPlan(plans, level, e))
        PROVE  FirstPlan(plans, level, d) = FirstPlan(plans, level, e)
    <3>1. N(d) = N(e)
      BY <1>3, <2>1
    <3>2. QED
      BY <3>1, NodeNumbers, FirstPlanProps
  <2>2. QED
    BY <2>1
<1> HIDE DEF F, N
<1>6. IsFiniteSet({N(f) : f \in F}) /\ Cardinality({N(f) : f \in F}) = Cardinality(F)
  <2> DEFINE g == [f \in F |-> N(f)]
  <2>1. g = [f \in F |-> g[f]] /\ \A e, f \in F : g[e] = g[f] => e = f
    BY <1>5
  <2>2. {N(f) : f \in F} = {g[f] : f \in F}
    OBVIOUS
  <2> HIDE DEF g
  <2>3. QED
    BY <1>2, <2>1, <2>2, OneToOneImage
<1>7. QED
  BY <1>2, <1>4, <1>6 DEF F, N

\* Two nodes that are all the continuations of a third are its children, one
\* numbered right after the other.
LEMMA TwoChildren ==
  ASSUME NEW h \in BOOLEAN, NEW level \in Levels, level + 1 \in Levels,
         NEW a \in Plans, NEW b \in Plans,
         SameNode(PLANS[h], level, a, b),
         FirstPlan(PLANS[h], level + 1, a) < FirstPlan(PLANS[h], level + 1, b),
         \A y \in Plans : SameNode(PLANS[h], level, y, a)
           => SameNode(PLANS[h], level + 1, y, a) \/ SameNode(PLANS[h], level + 1, y, b),
         NEW n, n = PLAN_NODES[h][level][a]
  PROVE  /\ PLAN_TREES[h][level][n].childBegin = PLAN_NODES[h][level + 1][a]
         /\ PLAN_NODES[h][level + 1][b] = PLAN_NODES[h][level + 1][a] + 1
         /\ PLAN_TREES[h][level][n].childEnd = PLAN_NODES[h][level + 1][a] + 2
<1> DEFINE plans == PLANS[h]
           next == level + 1
           N(x) == NodeNumber(plans, level, x)
           M(x) == NodeNumber(plans, next, x)
           F(x) == FirstPlan(plans, next, x)
           S == {y \in Plans : NodeBefore(plans, level, y, a)}
           FS == {F(y) : y \in S}
           MS == {M(y) : y \in S}
<1>1. level \in Nat /\ next \in Nat /\ level \in 0..next
  BY PlanSets
<1>2. \A x \in Plans : F(x) \in Nat
  BY FirstPlanProps, PlanSets
<1>3. /\ IsFiniteSet(FS) /\ IsFiniteSet(MS) /\ Cardinality(MS) = Cardinality(FS)
      /\ Cardinality(FS) \in Nat
  BY NodesOfPlans, FS_CardinalityType
<1>4. \A y \in S : ~SameNode(plans, next, y, a) /\ ~SameNode(plans, next, y, b)
  <2>1. ASSUME NEW y \in S
        PROVE  ~SameNode(plans, next, y, a) /\ ~SameNode(plans, next, y, b)
    <3>1. ~SameNode(plans, level, y, a)
      BY NodeBeforeStrict
    <3>2. ~SameNode(plans, level, y, b)
      BY <3>1, SameNodeEquivalence
    <3>3. QED
      BY <1>1, <3>1, <3>2, SameNodeEquivalence
  <2>2. QED
    BY <2>1
<1>5. F(a) \notin FS /\ M(a) \notin MS /\ M(b) \notin MS
  <2>1. ASSUME NEW y \in S
        PROVE  F(y) # F(a) /\ M(y) # M(a) /\ M(y) # M(b)
    BY <1>4, FirstPlanProps, NodeNumbers
  <2> HIDE DEF S, F, M
  <2>2. QED
    BY <2>1
<1>6. NodesBefore(plans, next, a) = FS
  <2>1. ASSUME NEW y \in Plans
        PROVE  NodeBefore(plans, next, y, a) <=> y \in S
    <3>1. NodeBefore(plans, next, y, a)
            <=> y \in S \/ (SameNode(plans, level, y, a) /\ F(y) < F(a))
      BY NodeBeforeRefines
    <3>2. SameNode(plans, level, y, a) => F(y) = F(a) \/ F(y) = F(b)
      BY FirstPlanProps
    <3>3. ~(SameNode(plans, level, y, a) /\ F(y) < F(a))
      <4>1. F(y) \in Nat /\ F(a) \in Nat /\ F(b) \in Nat
        BY <1>2
      <4> HIDE DEF F
      <4>2. F(a) < F(b)
        BY DEF F
      <4>3. QED
        BY <3>2, <4>1, <4>2
    <3>4. QED
      BY <3>1, <3>3
  <2> HIDE DEF S, next, plans
  <2>2. QED
    BY <2>1 DEF NodesBefore, S
<1>7. NodesBefore(plans, next, b) = FS \cup {F(a)}
  <2>1. ASSUME NEW y \in Plans
        PROVE  NodeBefore(plans, next, y, b) <=> y \in S \/ F(y) = F(a)
    <3>1. NodeBefore(plans, next, y, b)
            <=> NodeBefore(plans, level, y, b) \/ (SameNode(plans, level, y, b) /\ F(y) < F(b))
      BY NodeBeforeRefines
    <3>2. NodeBefore(plans, level, y, b) <=> y \in S
      BY NodeBeforeOfNodes
    <3>3. SameNode(plans, level, y, b) <=> SameNode(plans, level, y, a)
      BY SameNodeEquivalence
    <3>4. SameNode(plans, level, y, a) => F(y) = F(a) \/ F(y) = F(b)
      BY FirstPlanProps
    <3>5. F(y) = F(a) => SameNode(plans, level, y, a)
      BY <1>1, FirstPlanProps, SameNodeEquivalence
    <3>6. F(y) \in Nat /\ F(a) \in Nat /\ F(b) \in Nat /\ F(a) < F(b)
      BY <1>2
    <3> HIDE DEF F, S
    <3>7. QED
      BY <3>1, <3>2, <3>3, <3>4, <3>5, <3>6
  <2>2. NodesBefore(plans, next, b) = {F(y) : y \in {y \in Plans : NodeBefore(plans, next, y, b)}}
    BY DEF NodesBefore
  <2>3. {y \in Plans : NodeBefore(plans, next, y, b)} = S \cup {y \in Plans : F(y) = F(a)}
    BY <2>1
  <2> HIDE DEF S, F
  <2>4. QED
    BY <2>2, <2>3
<1>8. M(a) = Cardinality(FS) /\ M(b) = Cardinality(FS) + 1
  <2>1. M(a) = Cardinality(NodesBefore(plans, next, a)) /\ M(b) = Cardinality(NodesBefore(plans, next, b))
    BY DEF NodeNumber, NodesBefore
  <2> HIDE DEF FS, F, M, plans, next
  <2>2. QED
    BY <1>3, <1>5, <1>6, <1>7, <2>1, FS_AddElement
<1>9. n = N(a) /\ N(a) \in Nat
  BY PlanNodeNumber, NodeNumbers
<1>10. level + 1 # DEPTH
  BY PlanSets DEF Levels
<1>11. \A x : ChildrenUpTo(h, level, x) = {M(y) : y \in {y \in Plans : N(y) <= x}}
  <2>1. \A y \in Plans : PLAN_NODES[h][level][y] = N(y) /\ PLAN_NODES[h][level + 1][y] = M(y)
    BY PlanNodeNumber
  <2> HIDE DEF N, M
  <2>2. QED
    BY <1>10, <2>1 DEF ChildrenUpTo
<1>12. ChildrenUpTo(h, level, n - 1) = MS
  <2>1. ASSUME NEW y \in Plans
        PROVE  N(y) <= n - 1 <=> y \in S
    <3>1. N(y) \in Nat /\ (N(y) < N(a) <=> NodeBefore(plans, level, y, a))
      BY NodeNumbers
    <3> HIDE DEF N
    <3>2. QED
      BY <1>9, <3>1
  <2>2. {y \in Plans : N(y) <= n - 1} = S
    BY <2>1
  <2> HIDE DEF S, N, M
  <2>3. QED
    BY <1>11, <2>2
<1>13. ChildrenUpTo(h, level, n) = (MS \cup {M(a)}) \cup {M(b)}
  <2>1. ASSUME NEW y \in Plans
        PROVE  N(y) <= n <=> y \in S \/ SameNode(plans, level, y, a)
    <3>1. /\ N(y) \in Nat
          /\ N(y) < N(a) <=> NodeBefore(plans, level, y, a)
          /\ N(y) = N(a) <=> SameNode(plans, level, y, a)
      BY NodeNumbers
    <3> HIDE DEF N
    <3>2. QED
      BY <1>9, <3>1
  <2>2. {y \in Plans : N(y) <= n} = S \cup {y \in Plans : SameNode(plans, level, y, a)}
    BY <2>1
  <2>3. \A y \in Plans : SameNode(plans, level, y, a) => M(y) = M(a) \/ M(y) = M(b)
    BY NodeNumbers
  <2>4. SameNode(plans, level, a, a) /\ SameNode(plans, level, b, a)
    BY SameNodeEquivalence DEF SameNode
  <2> HIDE DEF S, N, M
  <2>5. QED
    BY <1>11, <2>2, <2>3, <2>4
<1>14. M(a) # M(b)
  <2> HIDE DEF M, FS
  <2>1. QED
    BY <1>3, <1>8
<1>15. Cardinality(ChildrenUpTo(h, level, n)) = Cardinality(FS) + 2
  <2> DEFINE T == MS \cup {M(a)}
  <2> HIDE DEF MS, M, FS
  <2>1. IsFiniteSet(T) /\ Cardinality(T) = Cardinality(FS) + 1
    BY <1>3, <1>5, FS_AddElement
  <2>2. M(b) \notin T
    BY <1>5, <1>14
  <2> HIDE DEF T
  <2>3. Cardinality(T \cup {M(b)}) = Cardinality(T) + 1
    BY <2>1, <2>2, FS_AddElement
  <2>4. Cardinality(T \cup {M(b)}) = Cardinality(FS) + 2
    BY <1>3, <2>1, <2>3
  <2>5. QED
    BY <1>13, <2>4 DEF T
<1>16. PLAN_NODES[h][level + 1][a] = M(a) /\ PLAN_NODES[h][level + 1][b] = M(b)
  BY PlanNodeNumber
<1>17. /\ PLAN_TREES[h][level][n].childBegin = Cardinality(MS)
       /\ PLAN_TREES[h][level][n].childEnd = Cardinality(FS) + 2
  <2>1. /\ PLAN_TREES[h][level][n].childBegin = Cardinality(ChildrenUpTo(h, level, n - 1))
        /\ PLAN_TREES[h][level][n].childEnd = Cardinality(ChildrenUpTo(h, level, n))
    BY TreeNode
  <2>2. QED
    BY <1>12, <1>15, <2>1
<1> HIDE DEF M, MS, FS
<1>18. QED
  BY <1>3, <1>8, <1>16, <1>17

\* The decisions of the first moves, as a vector of their own, are a plan.
LEMMA PrefixPlans ==
  ASSUME NEW m \in Levels
  PROVE  /\ 0..(2^m - 1) \subseteq Plans
         /\ 0..(2^(m + 1) - 1) \subseteq Plans
<1>1. CASE DEPTH = 2
  <2>1. m \in {0, 1} /\ Plans = 0..3
    BY <1>1 DEF Levels, Plans, MAX_SEQUENCES
  <2>2. CASE m = 0
    BY <2>1, <2>2
  <2>3. CASE m = 1
    BY <2>1, <2>3
  <2>4. QED
    BY <2>1, <2>2, <2>3
<1>2. CASE DEPTH = 3
  <2>1. m \in {0, 1, 2} /\ Plans = 0..7
    BY <1>2 DEF Levels, Plans, MAX_SEQUENCES
  <2>2. CASE m = 0
    BY <2>1, <2>2
  <2>3. CASE m = 1
    BY <2>1, <2>3
  <2>4. CASE m = 2
    BY <2>1, <2>4
  <2>5. QED
    BY <2>1, <2>2, <2>3, <2>4
<1>3. CASE DEPTH = 4
  <2>1. m \in {0, 1, 2, 3} /\ Plans = 0..15
    BY <1>3 DEF Levels, Plans, MAX_SEQUENCES
  <2>2. CASE m = 0
    BY <2>1, <2>2
  <2>3. CASE m = 1
    BY <2>1, <2>3
  <2>4. CASE m = 2
    BY <2>1, <2>4
  <2>5. CASE m = 3
    BY <2>1, <2>5
  <2>6. QED
    BY <2>1, <2>2, <2>3, <2>4, <2>5
<1>4. QED
  BY <1>1, <1>2, <1>3, PlanSets

\* The children of a node are the two decisions of the next move, for every
\* depth of the search.
THEOREM TwoDecisionsPerNode ==
  ASSUME NEW h \in BOOLEAN, NEW level \in Levels, level + 1 \in Levels,
         NEW d \in 0..(2^(level + 1) - 1),
         NEW a, a = PLAN_NODES[h][level + 1][d],
         NEW b, b = PLAN_NODES[h][level + 1][d + 2^(level + 1)],
         NEW node, node = PLAN_TREES[h][level][PLAN_NODES[h][level][d]]
  PROVE  /\ a # b
         /\ node.childBegin \in Nat /\ node.childEnd = node.childBegin + 2
         /\ node.childBegin..(node.childEnd - 1) = {a, b}
<1> DEFINE next == level + 1
           e == d + 2^next
           plans == PLANS[h]
<1>1. level \in Nat /\ next \in Nat /\ \A i \in 0..next : i \in 0..level \/ i = next
  BY PlanSets
<1>2. \A i \in 0..level : i \in 0..(next - 1)
  BY <1>1
<1>3. d \in Plans /\ e \in Plans
  <2>1. d \in 0..(2^(next + 1) - 1) /\ e \in 0..(2^(next + 1) - 1)
    BY DecisionBits
  <2> HIDE DEF next, e
  <2>2. QED
    BY <2>1, PrefixPlans DEF next
<1>4. /\ ~Holds(d, next) /\ Holds(e, next)
      /\ \A i \in 0..level : Holds(e, i) <=> Holds(d, i)
  <2>1. /\ ~Holds(d, next) /\ Holds(e, next)
        /\ \A i \in 0..(next - 1) : Holds(e, i) <=> Holds(d, i)
    BY DecisionBits
  <2>2. QED
    BY <1>2, <2>1
<1> HIDE DEF e
<1>5. SameNode(plans, level, d, e) /\ SameNode(plans, level, e, d)
  BY <1>3, <1>4, NodesAreDecisions
<1>6. ~SameNode(plans, next, d, e)
  <2>1. next \in 0..next
    BY <1>1
  <2>2. ~(Holds(d, next) <=> Holds(e, next))
    BY <1>4
  <2>3. QED
    BY <1>3, <2>1, <2>2, NodesAreDecisions
<1>7. ASSUME NEW y \in Plans, SameNode(plans, level, y, d) \/ SameNode(plans, level, y, e)
      PROVE  SameNode(plans, next, y, d) \/ SameNode(plans, next, y, e)
  <2>1. SameNode(plans, level, y, d)
    BY <1>5, <1>7, SameNodeEquivalence
  <2>2. \A i \in 0..level : Holds(y, i) <=> Holds(d, i)
    BY <1>3, <2>1, NodesAreDecisions
  <2>3. CASE Holds(y, next)
    <3>1. \A i \in 0..next : Holds(y, i) <=> Holds(e, i)
      BY <1>1, <1>4, <2>2, <2>3
    <3>2. QED
      BY <1>3, <3>1, NodesAreDecisions
  <2>4. CASE ~Holds(y, next)
    <3>1. \A i \in 0..next : Holds(y, i) <=> Holds(d, i)
      BY <1>1, <1>4, <2>2, <2>4
    <3>2. QED
      BY <1>3, <3>1, NodesAreDecisions
  <2>5. QED
    BY <2>3, <2>4
<1>8. PLAN_NODES[h][level][d] = PLAN_NODES[h][level][e]
  BY <1>3, <1>5, PlanNodeNumber, NodeNumbers
<1>9. a \in Nat /\ b = PLAN_NODES[h][next][e] /\ b \in Nat
  <2>1. a \in Nat
    BY <1>3, PlanNodeNumber, NodeNumbers
  <2>2. b = PLAN_NODES[h][next][e]
    BY DEF e
  <2>3. PLAN_NODES[h][next][e] \in Nat
    BY <1>3, PlanNodeNumber, NodeNumbers
  <2>4. QED
    BY <2>1, <2>2, <2>3
<1>10. \/ FirstPlan(plans, next, d) < FirstPlan(plans, next, e)
       \/ FirstPlan(plans, next, e) < FirstPlan(plans, next, d)
  <2> DEFINE p == FirstPlan(plans, next, d)
             q == FirstPlan(plans, next, e)
  <2>1. p # q /\ p \in Nat /\ q \in Nat
    BY <1>3, <1>6, FirstPlanProps, PlanSets
  <2> HIDE DEF p, q
  <2>2. p < q \/ q < p
    BY <2>1
  <2>3. QED
    BY <2>2 DEF p, q
<1>11. CASE FirstPlan(plans, next, d) < FirstPlan(plans, next, e)
  <2>1. node.childBegin = a /\ b = a + 1 /\ node.childEnd = a + 2
    BY <1>3, <1>5, <1>7, <1>9, <1>11, TwoChildren
  <2>2. QED
    BY <1>9, <2>1
<1>12. CASE FirstPlan(plans, next, e) < FirstPlan(plans, next, d)
  <2>1. node.childBegin = b /\ a = b + 1 /\ node.childEnd = b + 2
    BY <1>3, <1>5, <1>7, <1>8, <1>9, <1>12, TwoChildren
  <2>2. QED
    BY <1>9, <2>1
<1>13. QED
  BY <1>10, <1>11, <1>12
-----------------------------------------------------------------------------
(* What a search reads from the tree. *)

\* Only the decisions up to a level tell the nodes of that level apart.
LEMMA LowDecisions ==
  ASSUME NEW h \in BOOLEAN, NEW level \in Levels, NEW d \in Plans
  PROVE  \E e \in 0..(2^(level + 1) - 1) : PLAN_NODES[h][level][d] = PLAN_NODES[h][level][e]
<1>1. level \in {0, 1, 2, 3} /\ d \in 0..15
  <2>1. MAX_SEQUENCES \in {4, 8, 16}
    BY PlanSets
  <2>2. d \in 0..15
    BY <2>1 DEF Plans
  <2>3. QED
    BY <2>2, PlanSets
<1>2. PICK e \in 0..(2^(level + 1) - 1) : \A i \in 0..level : Holds(e, i) <=> Holds(d, i)
  <2>1. CASE level = 0
    <3>1. 2^(level + 1) = 2 /\ \A i \in 0..level : i = 0
      BY <2>1
    <3>2. d % 2 \in 0..1 /\ (Holds(d % 2, 0) <=> Holds(d, 0))
      BY <1>1, Powers DEF Holds
    <3>3. QED
      BY <3>1, <3>2
  <2>2. CASE level = 1
    <3>1. 2^(level + 1) = 4 /\ \A i \in 0..level : i = 0 \/ i = 1
      BY <2>2
    <3>2. d % 4 \in 0..3 /\ \A i \in {0, 1} : Holds(d % 4, i) <=> Holds(d, i)
      BY <1>1, Powers DEF Holds
    <3>3. QED
      BY <3>1, <3>2
  <2>3. CASE level = 2
    <3>1. 2^(level + 1) = 8 /\ \A i \in 0..level : i = 0 \/ i = 1 \/ i = 2
      BY <2>3
    <3>2. d % 8 \in 0..7 /\ \A i \in {0, 1, 2} : Holds(d % 8, i) <=> Holds(d, i)
      BY <1>1, Powers DEF Holds
    <3>3. QED
      BY <3>1, <3>2
  <2>4. CASE level = 3
    <3>1. 2^(level + 1) = 16
      BY <2>4
    <3>2. QED
      BY <1>1, <3>1
  <2>5. QED
    BY <1>1, <2>1, <2>2, <2>3, <2>4
<1>3. e \in Plans
  BY PrefixPlans
<1>4. SameNode(PLANS[h], level, d, e)
  BY <1>2, <1>3, NodesAreDecisions
<1>5. PLAN_NODES[h][level][d] = PLAN_NODES[h][level][e]
  BY <1>3, <1>4, PlanNodeNumber, NodeNumbers
<1>6. QED
  BY <1>5

\* When the hold slot is empty at first, no walk ever has slot 0 in hand.
Filled(h, w) == h => w.cur # SEQ_HELD_SLOT /\ (~w.empty => w.hld # SEQ_HELD_SLOT)

\* A hold decision does not bring slot 0 into play.
LEMMA FilledDecides ==
  ASSUME NEW h, NEW i \in Nat, NEW d, NEW w, WalkedTo(w, i), Filled(h, w)
  PROVE  Filled(h, Decided(w, d, i))
<1> DEFINE n == Decided(w, d, i)
<1>1. w.k \in Nat /\ win_slot(w.k) = w.k + 1
  BY DEF win_slot, WalkedTo
<1>2. CASE ~Holds(d, i)
  BY <1>2 DEF Decided
<1>3. CASE Holds(d, i) /\ w.empty
  <2>1. n = [cur |-> w.k + 1, hld |-> w.cur, empty |-> FALSE, k |-> w.k + 1]
    BY <1>1, <1>3 DEF Decided, HoldStep
  <2> HIDE DEF n
  <2>2. n.cur = w.k + 1 /\ n.hld = w.cur
    BY <2>1
  <2>3. QED
    BY <1>1, <2>2 DEF Filled, SEQ_HELD_SLOT, n
<1>4. CASE Holds(d, i) /\ ~w.empty
  <2>1. n = [w EXCEPT !.cur = w.hld, !.hld = w.cur]
    BY <1>4 DEF Decided, HoldStep
  <2> HIDE DEF n
  <2>2. n.cur = w.hld /\ n.hld = w.cur
    BY <2>1 DEF WalkedTo
  <2>3. QED
    BY <1>4, <2>2 DEF Filled, n
<1>5. QED
  BY <1>2, <1>3, <1>4

\* Neither does reading on.
LEMMA FilledReadsOn ==
  ASSUME NEW h, NEW i \in Nat, NEW w, WalkedTo(w, i), Filled(h, w)
  PROVE  Filled(h, NextPiece(w))
<1> DEFINE n == NextPiece(w)
<1>1. PICK m \in Nat : m = w.k + 1
  BY DEF WalkedTo
<1>2. n = [w EXCEPT !.cur = m, !.k = m]
  <2>1. win_slot(w.k) = m
    BY <1>1 DEF win_slot, WalkedTo
  <2>2. QED
    BY <1>1, <2>1 DEF NextPiece
<1> HIDE DEF n
<1>3. n.cur = m /\ n.hld = w.hld /\ n.empty = w.empty /\ m # 0
  BY <1>1, <1>2 DEF WalkedTo
<1>4. QED
  BY <1>3 DEF Filled, SEQ_HELD_SLOT, n

\* So no level of a walk has slot 0 in hand.
LEMMA FilledWalk ==
  ASSUME NEW h \in BOOLEAN, NEW d, NEW i \in Levels
  PROVE  Filled(h, Walk(h, d)[i])
<1> DEFINE W == Walk(h, d)
<1>1. /\ WalkedTo(FirstPiece(h), 0)
      /\ W[0] = Decided(FirstPiece(h), d, 0)
      /\ \A j \in Levels : j + 1 \in Levels => W[j + 1] = Decided(NextPiece(W[j]), d, j + 1)
      /\ \A j \in Levels : WalkedTo(W[j], j)
  BY WalkLevels
<1> HIDE DEF W
<1>2. Filled(h, FirstPiece(h))
  BY DEF Filled, FirstPiece, win_slot, SEQ_HELD_SLOT
<1>3. Filled(h, W[0])
  BY <1>1, <1>2, FilledDecides
<1>4. ASSUME NEW j \in Levels, j + 1 \in Levels, Filled(h, W[j])
      PROVE  Filled(h, W[j + 1])
  <2>1. j \in Nat /\ j + 1 \in Nat
    BY PlanSets
  <2>2. Filled(h, NextPiece(W[j])) /\ WalkedTo(NextPiece(W[j]), j + 1)
    BY <1>1, <1>4, <2>1, FilledReadsOn, NextWalk
  <2>3. QED
    BY <1>1, <1>4, <2>1, <2>2, FilledDecides
<1>5. i \in {0, 1, 2, 3} /\ 0..i \subseteq Levels
  BY PlanSets
<1>6. i >= 1 => Filled(h, W[1])
  <2>1. i >= 1 => 0 \in Levels /\ 0 + 1 \in Levels /\ 0 + 1 = 1
    BY <1>5
  <2>2. QED
    BY <1>3, <1>4, <2>1
<1>7. i >= 2 => Filled(h, W[2])
  <2>1. i >= 2 => 1 \in Levels /\ 1 + 1 \in Levels /\ 1 + 1 = 2 /\ i >= 1
    BY <1>5
  <2>2. QED
    BY <1>4, <1>6, <2>1
<1>8. i >= 3 => Filled(h, W[3])
  <2>1. i >= 3 => 2 \in Levels /\ 2 + 1 \in Levels /\ 2 + 1 = 3 /\ i >= 2
    BY <1>5
  <2>2. QED
    BY <1>4, <1>7, <2>1
<1>9. QED
  BY <1>3, <1>5, <1>6, <1>7, <1>8 DEF W

\* Every node names a slot that holds a piece and has two children that are
\* nodes of the next level.
LEMMA NodesOfTheTree ==
  ASSUME NEW h \in BOOLEAN, NEW level \in Levels, NEW n \in DOMAIN PLAN_TREES[h][level],
         NEW node, node = PLAN_TREES[h][level][n]
  PROVE  /\ node.slot \in 0..(NUM_SLOTS - 1)
         /\ h => node.slot # SEQ_HELD_SLOT
         /\ level + 1 \in Levels =>
              /\ node.childBegin \in Nat /\ node.childEnd = node.childBegin + 2
              /\ ChildRange(node) \subseteq DOMAIN PLAN_TREES[h][level + 1]
<1>1. 0 \in Plans
  BY PlanSets DEF Plans
<1>2. DOMAIN PLAN_TREES[h][level] = LayerNodes(h, level)
  BY <1>1, TreeNode
<1>3. PICK c \in Plans : n = PLAN_NODES[h][level][c]
  BY <1>2 DEF LayerNodes
<1>4. PICK d \in 0..(2^(level + 1) - 1) : n = PLAN_NODES[h][level][d]
  BY <1>3, LowDecisions
<1>5. d \in Plans /\ level \in Nat /\ level <= DEPTH - 1 /\ DEPTH \in Int
  BY PrefixPlans, PlanSets DEF Levels
<1>6. node.slot = Walk(h, d)[level].cur
  BY <1>4, <1>5, TreeNode
<1>7. WalkedTo(Walk(h, d)[level], level)
  BY WalkLevels
<1>8. node.slot \in 0..(NUM_SLOTS - 1)
  BY <1>5, <1>6, <1>7 DEF WalkedTo, NUM_SLOTS
<1>9. h => node.slot # SEQ_HELD_SLOT
  BY <1>6, FilledWalk DEF Filled
<1>10. ASSUME level + 1 \in Levels
       PROVE  /\ node.childBegin \in Nat /\ node.childEnd = node.childBegin + 2
              /\ ChildRange(node) \subseteq DOMAIN PLAN_TREES[h][level + 1]
  <2> DEFINE a == PLAN_NODES[h][level + 1][d]
             b == PLAN_NODES[h][level + 1][d + 2^(level + 1)]
  <2>1. /\ node.childBegin \in Nat /\ node.childEnd = node.childBegin + 2
        /\ node.childBegin..(node.childEnd - 1) = {a, b}
    BY <1>4, <1>10, TwoDecisionsPerNode
  <2>2. d + 2^(level + 1) \in Plans
    <3> DEFINE next == level + 1
    <3>1. d + 2^next \in 0..(2^(next + 1) - 1)
      BY <1>10, DecisionBits
    <3>2. 0..(2^(next + 1) - 1) \subseteq Plans
      BY <1>10, PrefixPlans
    <3>3. QED
      BY <3>1, <3>2
  <2>3. a \in LayerNodes(h, level + 1) /\ b \in LayerNodes(h, level + 1)
    BY <1>5, <2>2 DEF LayerNodes
  <2>4. DOMAIN PLAN_TREES[h][level + 1] = LayerNodes(h, level + 1)
    BY <1>1, <1>10, TreeNode
  <2>5. QED
    BY <2>1, <2>3, <2>4 DEF ChildRange
<1>11. QED
  BY <1>8, <1>9, <1>10

\* A root without a hold has the current piece in hand, a root with a hold the
\* piece that the engine's hold() brings there; the first root does not hold.
LEMMA RootsOfTheTree ==
  ASSUME NEW h \in BOOLEAN
  PROVE  /\ 0 \in DOMAIN PLAN_TREES[h][0] /\ ~PLAN_TREES[h][0][0].rootHold
         /\ \A n \in DOMAIN PLAN_TREES[h][0] :
              /\ PLAN_TREES[h][0][n].rootHold \in BOOLEAN
              /\ PLAN_TREES[h][0][n].slot
                   = IF ~PLAN_TREES[h][0][n].rootHold THEN win_slot(0)
                     ELSE IF h THEN win_slot(1) ELSE SEQ_HELD_SLOT
<1>1. 0 \in Plans /\ 0 \in Levels
  BY PlanSets DEF Plans, Levels
<1>2. DOMAIN PLAN_TREES[h][0] = LayerNodes(h, 0)
  BY <1>1, TreeNode
<1>3. ~Holds(0, 0)
  BY Powers DEF Holds
<1>4. PLAN_NODES[h][0][0] = 0
  <2> DEFINE plans == PLANS[h]
             before == {e \in Plans : NodeBefore(plans, 0, e, 0)}
  <2>1. before = {}
    <3> SUFFICES ASSUME NEW e \in Plans, NodeBefore(plans, 0, e, 0)
                 PROVE  FALSE
      OBVIOUS
    <3>1. FirstPlan(plans, 0, e) < FirstPlan(plans, 0, 0)
      BY DEF NodeBefore
    <3>2. FirstPlan(plans, 0, 0) = 0 /\ FirstPlan(plans, 0, e) \in Nat
      <4>1. FirstPlan(plans, 0, 0) \in Nat /\ FirstPlan(plans, 0, e) \in Nat
        BY <1>1, FirstPlanProps, PlanSets
      <4>2. FirstPlan(plans, 0, 0) <= 0
        <5>1. SameNode(plans, 0, 0, 0)
          BY DEF SameNode
        <5> DEFINE First(c) == SameNode(plans, 0, 0, c) /\ \A f \in Plans : f < c => ~SameNode(plans, 0, 0, f)
        <5>2. ASSUME NEW c \in Plans, First(c)
              PROVE  c <= 0
          <6>1. c \in Nat /\ ~(0 < c)
            BY <1>1, <5>1, <5>2, PlanSets
          <6>2. QED
            BY <6>1
        <5>3. First(0)
          <6>1. \A f \in Plans : ~(f < 0)
            BY PlanSets
          <6>2. QED
            BY <5>1, <6>1
        <5>4. FirstPlan(plans, 0, 0) = CHOOSE c \in Plans : First(c)
          BY DEF FirstPlan
        <5> HIDE DEF First, plans
        <5>5. QED
          BY <1>1, <5>2, <5>3, <5>4
      <4>3. QED
        BY <4>1, <4>2
    <3>3. QED
      BY <3>1, <3>2
  <2>2. NodeNumber(plans, 0, 0) = Cardinality({FirstPlan(plans, 0, e) : e \in before})
    BY DEF NodeNumber
  <2>3. {FirstPlan(plans, 0, e) : e \in before} = {}
    BY <2>1
  <2>4. QED
    BY <1>1, <2>2, <2>3, PlanNodeNumber, FS_EmptySet
<1>5. 0 \in DOMAIN PLAN_TREES[h][0] /\ ~PLAN_TREES[h][0][0].rootHold
  <2>1. 0 \in LayerNodes(h, 0) /\ PLAN_TREES[h][0][0].rootHold = (0 = 0 /\ Holds(0, 0))
    BY <1>1, <1>4, TreeNode
  <2>2. QED
    BY <1>2, <1>3, <2>1
<1>6. ASSUME NEW n \in DOMAIN PLAN_TREES[h][0]
      PROVE  /\ PLAN_TREES[h][0][n].rootHold \in BOOLEAN
             /\ PLAN_TREES[h][0][n].slot
                  = IF ~PLAN_TREES[h][0][n].rootHold THEN win_slot(0)
                    ELSE IF h THEN win_slot(1) ELSE SEQ_HELD_SLOT
  <2>1. PICK d \in Plans : n = PLAN_NODES[h][0][d]
    BY <1>2, <1>6 DEF LayerNodes
  <2>2. /\ PLAN_TREES[h][0][n].slot = Walk(h, d)[0].cur
        /\ PLAN_TREES[h][0][n].rootHold = (0 = 0 /\ Holds(d, 0))
    BY <1>1, <2>1, TreeNode
  <2>3. Walk(h, d)[0] = Decided(FirstPiece(h), d, 0)
    BY WalkLevels
  <2>4. Decided(FirstPiece(h), d, 0).cur
          = IF ~Holds(d, 0) THEN win_slot(0) ELSE IF h THEN win_slot(1) ELSE SEQ_HELD_SLOT
    <3>1. CASE ~Holds(d, 0)
      BY <3>1 DEF Decided, FirstPiece
    <3>2. CASE Holds(d, 0) /\ h
      BY <3>2 DEF Decided, FirstPiece, HoldStep
    <3>3. CASE Holds(d, 0) /\ ~h
      BY <3>3 DEF Decided, FirstPiece, HoldStep
    <3>4. QED
      BY <3>1, <3>2, <3>3
  <2>5. Holds(d, 0) \in BOOLEAN
    BY DEF Holds
  <2>6. QED
    BY <2>2, <2>3, <2>4, <2>5
<1>7. QED
  BY <1>5, <1>6

\* A layer has finitely many nodes.
LEMMA LayersAreFinite ==
  ASSUME NEW h \in BOOLEAN, NEW level \in Levels
  PROVE  IsFiniteSet(DOMAIN PLAN_TREES[h][level])
<1>1. 0 \in Plans
  BY PlanSets DEF Plans
<1>2. DOMAIN PLAN_TREES[h][level] = LayerNodes(h, level)
  BY <1>1, TreeNode
<1> DEFINE f == PLAN_NODES[h][level]
           T == LayerNodes(h, level)
<1>3. T = {f[d] : d \in Plans}
  BY DEF LayerNodes
<1> HIDE DEF f, T
<1>4. IsFiniteSet(T)
  <2>1. IsFiniteSet(Plans)
    BY PlanSets
  <2>2. QED
    BY <1>3, <2>1, ImageIsFinite
<1>5. QED
  BY <1>2, <1>4 DEF T

\* No layer above the last has a node with more or less than two children.
LEMMA SpansAreTwo ==
  ASSUME NEW lo \in Levels, NEW hi \in Levels, lo <= hi, hi + 1 \in Levels
  PROVE  max_child_span(lo, hi) = 2
<1> DEFINE layers == {PLAN_TREES[e][i] : e \in BOOLEAN, i \in lo..hi}
           spans(layer) == {layer[n].childEnd - layer[n].childBegin : n \in DOMAIN layer}
           S == {1} \cup UNION {spans(layer) : layer \in layers}
<1>1. max_child_span(lo, hi) = Max(S)
  BY DEF max_child_span
<1>2. ASSUME NEW h \in BOOLEAN, NEW i \in lo..hi, NEW n \in DOMAIN PLAN_TREES[h][i]
      PROVE  PLAN_TREES[h][i][n].childEnd - PLAN_TREES[h][i][n].childBegin = 2
  <2>1. i \in Levels /\ i + 1 \in Levels
    BY PlanSets DEF Levels
  <2>2. QED
    BY <2>1, NodesOfTheTree
<1>3. \A v \in S : v \in {1, 2}
  BY <1>2
<1>4. 2 \in S
  <2>1. 0 \in Plans /\ lo \in lo..hi
    BY PlanSets DEF Plans
  <2>2. PICK h \in BOOLEAN : TRUE
    OBVIOUS
  <2>3. DOMAIN PLAN_TREES[h][lo] # {}
    BY <2>1, TreeNode
  <2>4. PICK n \in DOMAIN PLAN_TREES[h][lo] : TRUE
    BY <2>3
  <2> DEFINE layer == PLAN_TREES[h][lo]
  <2>5. layer[n].childEnd - layer[n].childBegin = 2
    BY <1>2, <2>1
  <2>6. layer \in layers
    BY <2>1
  <2>7. n \in DOMAIN layer
    BY <2>4
  <2> HIDE DEF layer, layers
  <2>8. QED
    BY <2>5, <2>6, <2>7
<1>5. S = {1, 2}
  <2> HIDE DEF S
  <2>1. 1 \in S
    BY DEF S
  <2>2. QED
    BY <1>3, <1>4, <2>1
<1> HIDE DEF S
<1>6. Max({1, 2}) = 2
  BY DEF Max
<1>7. QED
  BY <1>1, <1>5, <1>6
=============================================================================
