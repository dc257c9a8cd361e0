--------------------------- MODULE TetrisGameProofs ---------------------------
(***************************************************************************)
(* Theorems about TetrisGame for every board size, every set of pieces and *)
(* every queue length, whatever instructions the caller sends.             *)
(***************************************************************************)
EXTENDS TetrisGame, RulesProofs, SequenceTheorems

\* What the proofs need of the constants.
LEMMA ConstantFacts ==
  /\ WIDTH \in Nat /\ WIDTH >= 4 /\ HEIGHT \in Nat /\ HEIGHT >= 4
  /\ Cardinality(Types) \in Nat
  /\ PIECE_QUEUE_SIZE \in Nat /\ PIECE_QUEUE_SIZE > 0
  /\ PIECE_QUEUE_SIZE <= Cardinality(Types)
  /\ TOP \in Orientation /\ 0 \in Rows
<1>1. Cardinality(Types) \in Nat
  BY TypesAssumption, FS_CardinalityType
<1>2. QED
  BY <1>1, BoardAssumption, GameAssumption
     DEF PIECE_WIDTH, TOP, Orientation, RIGHT, BOTTOM, LEFT, Rows

\* The engine's board and the game's are one: their operators agree.
LEMMA SameCardinality == \A S : Engine!Cardinality(S) = Cardinality(S)
  BY Zenon DEF Cardinality, Engine!Cardinality, IsFiniteSet, Engine!IsFiniteSet

\* The rules the engine plays by are those of module Board.
LEMMA SameRules ==
  /\ Engine!Orientation = Orientation /\ Engine!TOP = TOP
  /\ Engine!NO_PIECE = NO_PIECE /\ Engine!EmptyBoard = EmptyBoard
  /\ \A b, t, o, off : Engine!Available(b, t, o, off) <=> Available(b, t, o, off)
  /\ \A t, o, x : Engine!PieceShapeAt(t, o, x) = PieceShapeAt(t, o, x)
  /\ \A b, s, y : Engine!Placed(b, s, y) = Placed(b, s, y)
  /\ \A b, s, y : Engine!DropDistance(b, s, y) = DropDistance(b, s, y)
  /\ \A b : Engine!ClearLines(b) = ClearLines(b)
<1> USE DEF Columns, Rows, Engine!Columns, Engine!Rows
<1>1. /\ Engine!Orientation = Orientation /\ Engine!TOP = TOP
      /\ Engine!NO_PIECE = NO_PIECE /\ Engine!EmptyBoard = EmptyBoard
  BY DEF Engine!Orientation, Orientation, Engine!TOP, TOP, Engine!RIGHT, RIGHT,
     Engine!BOTTOM, BOTTOM, Engine!LEFT, LEFT, Engine!NO_PIECE, NO_PIECE,
     Engine!EmptyBoard, EmptyBoard
<1>2. \A t, o, x : Engine!PieceShapeAt(t, o, x) = PieceShapeAt(t, o, x)
  BY DEF PieceShapeAt, Engine!PieceShapeAt
<1>3. \A s, x : Engine!ColumnOf(s, x) = ColumnOf(s, x)
  BY DEF ColumnOf, Engine!ColumnOf
<1>4. \A s, x, y : Engine!ShiftedColumn(s, x, y) = ShiftedColumn(s, x, y)
  BY <1>3 DEF ShiftedColumn, Engine!ShiftedColumn
<1>5. \A b, t, o, off : Engine!Available(b, t, o, off) <=> Available(b, t, o, off)
  BY <1>2, <1>4 DEF Available, Engine!Available, OffsetInBounds, Engine!OffsetInBounds,
     Free, Engine!Free
<1>6. \A b, s, y : Engine!Placed(b, s, y) = Placed(b, s, y)
  BY <1>4 DEF Placed, Engine!Placed
<1>7. \A S : Engine!Min(S) = Min(S) /\ Engine!Max(S) = Max(S)
  BY DEF Min, Max, Engine!Min, Engine!Max
<1>8. \A s, x, y : Engine!LowestBlock(s, x, y) = LowestBlock(s, x, y)
  BY <1>3, <1>7 DEF LowestBlock, Engine!LowestBlock
<1>9. \A b, s, x, y : Engine!ColumnDrop(b, s, x, y) = ColumnDrop(b, s, x, y)
  BY <1>7, <1>8 DEF ColumnDrop, Engine!ColumnDrop, ColumnTop, Engine!ColumnTop
<1>10. \A b, s, y : Engine!DropDistance(b, s, y) = DropDistance(b, s, y)
  BY <1>3, <1>7, <1>9 DEF DropDistance, Engine!DropDistance, SpannedColumns, Engine!SpannedColumns
<1>11. \A b : Engine!ClearLines(b) = ClearLines(b)
  BY SameCardinality DEF ClearLines, Engine!ClearLines, ClearColumn, Engine!ClearColumn,
     FullRows, Engine!FullRows
<1>12. QED
  BY <1>1, <1>2, <1>5, <1>6, <1>10, <1>11
-----------------------------------------------------------------------------
\* The inductive invariant.  InFlightFits says nothing of a game that is over
\* but where the window is; what the next place() does to the field takes that
\* the piece's blocks are over columns of it, whatever happened.
CurrentShape == PieceShapeAt(queue[1], orientation, offset[1])

StateOK ==
  /\ board \in Boards
  /\ queue \in [1..PIECE_QUEUE_SIZE -> Types]
  /\ held \in Types \cup {NO_PIECE}
  /\ orientation \in Orientation
  /\ offset \in Int \X Rows

IInv ==
  /\ StateOK
  /\ OffsetInBounds(CurrentShape, offset[2])
  /\ ~gameOver => Free(board, CurrentShape, offset[2])

\* The shape in flight is a shape of the table over columns of the board.
LEMMA ShapeInFlight ==
  ASSUME IInv
  PROVE  /\ queue[1] \in Types /\ offset[1] \in Int /\ offset[2] \in Nat
         /\ CurrentShape \in Shapes /\ Solid(CurrentShape)
         /\ SpannedColumns(CurrentShape) # {}
<1>1. queue[1] \in Types /\ orientation \in Orientation /\ offset[1] \in Int /\ offset[2] \in Rows
  BY ConstantFacts DEF IInv, StateOK
<1>2. CurrentShape \in Shapes /\ Solid(CurrentShape)
  BY <1>1, PieceShapes DEF CurrentShape
<1>3. SpannedColumns(CurrentShape) # {}
  BY <1>2, InBoundsSpans DEF IInv
<1>4. QED
  BY <1>1, <1>2, <1>3, ConstantFacts DEF Rows

\* A piece fits where its shape is over the columns and free.
LEMMA FitsMeans ==
  ASSUME NEW o, NEW x, NEW y
  PROVE  Fits(o, <<x, y>>) <=>
           /\ OffsetInBounds(PieceShapeAt(queue[1], o, x), y)
           /\ Free(board, PieceShapeAt(queue[1], o, x), y)
BY DEF Fits, Available, Engine!CurrentPiece

\* The spawn window lies over the columns.
LEMMA SpawnInBounds ==
  ASSUME NEW t \in Types
  PROVE  /\ Engine!SPAWN \in Int \X Rows
         /\ OffsetInBounds(PieceShapeAt(t, TOP, Engine!SPAWN[1]), Engine!SPAWN[2])
<1> DEFINE x == (WIDTH - 4) \div 2
<1>1. x \in Int /\ x >= 0 /\ x + 3 <= WIDTH - 1
  BY ConstantFacts
<1>2. Engine!SPAWN = <<x, 0>>
  BY DEF Engine!SPAWN, Engine!PIECE_WIDTH
<1>3. \A blk \in Blocks[t][TOP] : blk[1] \in 0..3
  BY ConstantFacts, BlocksAssumption DEF Box, PIECE_WIDTH
<1> HIDE DEF x
<1>4. \A blk \in Blocks[t][TOP] : x + blk[1] \in Columns
  BY <1>1, <1>3, ConstantFacts DEF Columns
<1>5. QED
  BY <1>1, <1>2, <1>4, ConstantFacts DEF OffsetInBounds, PieceShapeAt

\* Shifting the queue and appending a piece keeps it a queue.
LEMMA AdvancedQueue ==
  ASSUME NEW q \in [1..PIECE_QUEUE_SIZE -> Types], NEW p \in Types
  PROVE  Engine!Advanced(q, p) \in [1..PIECE_QUEUE_SIZE -> Types]
<1>1. q \in Seq(Types) /\ Len(q) = PIECE_QUEUE_SIZE /\ q # << >>
  BY ConstantFacts
<1> DEFINE t == Tail(q)
<1>2. t \in Seq(Types) /\ Len(t) = PIECE_QUEUE_SIZE - 1
  BY <1>1, ConstantFacts
<1> HIDE DEF t
<1>3. Append(t, p) \in Seq(Types) /\ Len(Append(t, p)) = Len(t) + 1
  BY <1>2, AppendProperties
<1>4. Len(Append(t, p)) = PIECE_QUEUE_SIZE
  BY <1>2, <1>3, ConstantFacts
<1> DEFINE a == Append(t, p)
<1>5. a \in [1..PIECE_QUEUE_SIZE -> Types]
  <2>1. a \in Seq(Types) /\ Len(a) = PIECE_QUEUE_SIZE
    BY <1>3, <1>4
  <2> HIDE DEF a
  <2>2. QED
    BY <2>1
<1>6. QED
  BY <1>5 DEF Engine!Advanced, t

\* A new bag deals a queue of pieces.
LEMMA DealtQueue ==
  ASSUME NEW f \in Engine!Shuffles
  PROVE  Engine!Dealt(f) \in [1..PIECE_QUEUE_SIZE -> Types]
<1> DEFINE n == Cardinality(Types)
<1>1. Engine!BagSize = n
  BY SameCardinality DEF Engine!BagSize
<1>2. f \in [0..(n - 1) -> Types]
  BY <1>1 DEF Engine!Shuffles, Engine!BagSlots
<1>3. \A i \in 1..PIECE_QUEUE_SIZE : n - i \in 0..(n - 1)
  BY ConstantFacts
<1>4. QED
  BY <1>1, <1>2, <1>3 DEF Engine!Dealt

\* A spawned piece keeps the invariant where the engine's flag is that of the
\* new piece on the new board.
LEMMA SpawnKeepsIInv ==
  ASSUME Spawn, Engine!UpdateGameOver, board' \in Boards,
         queue' \in [1..PIECE_QUEUE_SIZE -> Types], held' \in Types \cup {NO_PIECE}
  PROVE  IInv'
<1>1. queue'[1] \in Types
  BY ConstantFacts
<1>2. orientation' = TOP /\ offset' = Engine!SPAWN
  BY DEF Spawn
<1>3. StateOK'
  BY <1>1, <1>2, ConstantFacts, SpawnInBounds DEF StateOK
<1>4. CurrentShape' = PieceShapeAt(queue'[1], TOP, Engine!SPAWN[1])
  BY <1>2 DEF CurrentShape
<1>5. OffsetInBounds(CurrentShape', offset'[2])
  BY <1>1, <1>2, <1>4, SpawnInBounds
<1>6. gameOver' = ~Available(board', queue'[1], TOP, Engine!SPAWN)
  BY SameRules DEF Engine!UpdateGameOver, Engine!CanSpawn
<1>7. ~gameOver' => Free(board', CurrentShape', offset'[2])
  BY <1>2, <1>4, <1>6 DEF Available
<1>8. QED
  BY <1>3, <1>5, <1>7 DEF IInv

\* A piece that moved to where it fits keeps the invariant.
LEMMA SteerKeepsIInv ==
  ASSUME IInv, UNCHANGED engineVars,
         NEW o \in Orientation, NEW x \in Int, NEW y \in Int, Fits(o, <<x, y>>),
         orientation' = o, offset' = <<x, y>>
  PROVE  IInv'
<1>1. /\ OffsetInBounds(PieceShapeAt(queue[1], o, x), y)
      /\ Free(board, PieceShapeAt(queue[1], o, x), y)
  BY FitsMeans
<1>2. y \in Rows
  BY <1>1 DEF OffsetInBounds
<1>3. board' = board /\ queue' = queue /\ held' = held
  BY DEF engineVars
<1>4. CurrentShape' = PieceShapeAt(queue[1], o, x)
  BY <1>3 DEF CurrentShape
<1>5. StateOK'
  BY <1>2, <1>3 DEF IInv, StateOK
<1>6. QED
  BY <1>1, <1>3, <1>4, <1>5 DEF IInv

\* Nothing moved.
LEMMA StillKeepsIInv ==
  ASSUME IInv, UNCHANGED <<engineVars, orientation, offset>>
  PROVE  IInv'
<1>1. UNCHANGED <<board, queue, held, gameOver, orientation, offset>>
  BY DEF engineVars
<1>2. CurrentShape' = CurrentShape /\ StateOK'
  BY <1>1 DEF CurrentShape, IInv, StateOK
<1>3. QED
  BY <1>1, <1>2 DEF IInv

\* place(), whether or not the piece fits at the spawn row of its column,
\* leaves a board in the field.
LEMMA PlacesInField ==
  ASSUME IInv
  PROVE  ClearLines(Placed(board, CurrentShape, DropDistance(board, CurrentShape, 0))) \in Boards
<1> DEFINE s == CurrentShape
<1>1. s \in Shapes /\ SpannedColumns(s) # {} /\ board \in Boards
  BY ShapeInFlight DEF IInv, StateOK
<1> HIDE DEF s
<1>2. \A x \in SpannedColumns(s) : LowestBlock(s, x, 0) < HEIGHT
  <2>1. ASSUME NEW x \in SpannedColumns(s)
        PROVE  LowestBlock(s, x, 0) < HEIGHT
    <3>1. LowestBlock(s, x, 0) \in Nat /\ LowestBlock(s, x, 0) - 0 \in ColumnOf(s, x)
          /\ \A r \in ColumnOf(s, x) : r \in Box
      BY <1>1, LowestBlockProps
    <3>2. LowestBlock(s, x, 0) \in Box
      BY <3>1
    <3>3. QED
      BY <3>2, ConstantFacts DEF Box, PIECE_WIDTH
  <2>2. QED
    BY <2>1
<1>3. /\ DropDistance(board, s, 0) \in Nat
      /\ Placed(board, s, 0 + DropDistance(board, s, 0)) \in Boards
  BY <1>1, <1>2, LocksInField
<1>4. Placed(board, s, DropDistance(board, s, 0)) \in Boards
  BY <1>3
<1>5. QED
  BY <1>4, ClearLinesLeavesNoFullRow DEF s
-----------------------------------------------------------------------------
\* The first piece is in flight at its spawn.
LEMMA InitIInv == Init => IInv
<1> SUFFICES ASSUME Init
             PROVE  IInv
  OBVIOUS
<1>1. /\ board = EmptyBoard /\ held = NO_PIECE
      /\ queue \in [1..PIECE_QUEUE_SIZE -> Types]
      /\ gameOver = ~Available(board, queue[1], TOP, Engine!SPAWN)
      /\ orientation = TOP /\ offset = Engine!SPAWN
  BY SameRules, DealtQueue DEF Init, Engine!Init, Engine!CanSpawn
<1>2. board \in Boards
  BY <1>1 DEF EmptyBoard, Boards
<1>3. queue[1] \in Types
  BY <1>1, ConstantFacts
<1>4. StateOK
  BY <1>1, <1>2, <1>3, ConstantFacts, SpawnInBounds DEF StateOK
<1>5. OffsetInBounds(CurrentShape, offset[2])
  BY <1>1, <1>3, SpawnInBounds DEF CurrentShape
<1>6. ~gameOver => Free(board, CurrentShape, offset[2])
  BY <1>1 DEF Available, CurrentShape
<1>7. QED
  BY <1>4, <1>5, <1>6 DEF IInv

\* Every step keeps the invariant.
LEMMA NextIInv == IInv /\ [Next]_vars => IInv'
<1> SUFFICES ASSUME IInv, [Next]_vars
             PROVE  IInv'
  OBVIOUS
<1>1. offset = <<offset[1], offset[2]>> /\ offset[1] \in Int /\ offset[2] \in Int
      /\ orientation \in Orientation
  BY ShapeInFlight DEF IInv, StateOK
<1>2. CASE Reset
  <2>1. board' = EmptyBoard /\ held' = NO_PIECE /\ Engine!UpdateGameOver /\ Spawn
    BY <1>2, SameRules DEF Reset, Engine!Reset
  <2>2. queue' \in [1..PIECE_QUEUE_SIZE -> Types]
    BY <1>2, DealtQueue DEF Reset, Engine!Reset
  <2>3. board' \in Boards
    BY <2>1 DEF EmptyBoard, Boards
  <2>4. QED
    BY <2>1, <2>2, <2>3, SpawnKeepsIInv
<1>3. ASSUME NEW d \in Directions, Move(d)
      PROVE  IInv'
  <2>1. d[1] \in Int /\ d[2] \in Int
    BY DEF Directions
  <2>2. Plus(offset, d)[1] \in Int /\ Plus(offset, d)[2] \in Int
        /\ Plus(offset, d) = <<Plus(offset, d)[1], Plus(offset, d)[2]>>
    BY <1>1, <2>1 DEF Plus
  <2>3. UNCHANGED engineVars /\ orientation' = orientation
    BY <1>3 DEF Move
  <2>4. CASE Fits(orientation, Plus(offset, d))
    <3>1. offset' = Plus(offset, d)
      BY <1>3, <2>4 DEF Move
    <3>2. QED
      BY <1>1, <2>2, <2>3, <2>4, <3>1, SteerKeepsIInv
  <2>5. CASE ~Fits(orientation, Plus(offset, d))
    BY <1>3, <2>3, <2>5, StillKeepsIInv DEF Move
  <2>6. QED
    BY <2>4, <2>5
<1>4. ASSUME NEW steps \in {-1, 1}, RotatePiece(steps)
      PROVE  IInv'
  <2> DEFINE target == Rotate(steps, orientation)
             kicks == FittingKicks(target)
  <2>1. target \in Orientation
    <3>1. orientation \in 0..3
      BY <1>1 DEF Orientation, TOP, RIGHT, BOTTOM, LEFT
    <3>2. target \in 0..3
      BY <3>1 DEF Rotate
    <3>3. QED
      BY <3>2 DEF Orientation, TOP, RIGHT, BOTTOM, LEFT
  <2> HIDE DEF target
  <2>2. /\ UNCHANGED engineVars
        /\ \/ UNCHANGED <<orientation, offset>>
           \/ /\ kicks # {}
              /\ orientation' = target
              /\ offset' = Plus(offset, ROTATION_KICKS[Min(kicks)])
    BY <1>4 DEF RotatePiece, target
  <2>3. ASSUME kicks # {}, orientation' = target,
               offset' = Plus(offset, ROTATION_KICKS[Min(kicks)])
        PROVE  IInv'
    <3>1. kicks \in SUBSET (1..7)
      BY DEF FittingKicks, ROTATION_KICKS
    <3>2. Min(kicks) \in kicks
      BY <2>3, <3>1, MinOfNaturals
    <3> DEFINE k == ROTATION_KICKS[Min(kicks)]
               to == Plus(offset, k)
    <3>3. Fits(target, to)
      BY <3>2 DEF FittingKicks
    <3>4. k[1] \in Int /\ k[2] \in Int
      <4>1. \A i \in 1..7 : ROTATION_KICKS[i][1] \in Int /\ ROTATION_KICKS[i][2] \in Int
        BY DEF ROTATION_KICKS
      <4>2. QED
        BY <3>1, <3>2, <4>1
    <3> HIDE DEF k
    <3>5. to[1] \in Int /\ to[2] \in Int /\ to = <<to[1], to[2]>>
      BY <1>1, <3>4 DEF Plus
    <3> HIDE DEF to
    <3>6. QED
      BY <2>1, <2>2, <2>3, <3>3, <3>5, SteerKeepsIInv DEF to, k
  <2>4. QED
    BY <2>2, <2>3, StillKeepsIInv
<1>5. CASE PlacePiece
  <2>1. Engine!EnginePlaces(orientation, offset[1]) /\ Spawn
    BY <1>5 DEF PlacePiece
  <2>2. board' = ClearLines(Placed(board, CurrentShape, DropDistance(board, CurrentShape, 0)))
    BY <2>1, SameRules DEF Engine!EnginePlaces, Engine!Locked, Engine!CurrentPiece, CurrentShape
  <2>3. board' \in Boards
    BY <2>2, PlacesInField
  <2>4. PICK p \in Types : queue' = Engine!Advanced(queue, p)
    BY <2>1 DEF Engine!EnginePlaces
  <2>5. queue' \in [1..PIECE_QUEUE_SIZE -> Types]
    BY <2>4, AdvancedQueue DEF IInv, StateOK
  <2>6. held' \in Types \cup {NO_PIECE} /\ Engine!UpdateGameOver
    BY <2>1 DEF Engine!EnginePlaces, IInv, StateOK
  <2>7. QED
    BY <2>1, <2>3, <2>5, <2>6, SpawnKeepsIInv
<1>6. CASE HoldPiece
  <2>1. Engine!Hold /\ Spawn
    BY <1>6 DEF HoldPiece
  <2>2. queue[1] \in Types
    BY ShapeInFlight
  <2>3. board' = board /\ held' = queue[1] /\ Engine!UpdateGameOver
    BY <2>1 DEF Engine!Hold
  <2>4. queue' \in [1..PIECE_QUEUE_SIZE -> Types]
    <3>1. CASE held = NO_PIECE
      <4>1. PICK p \in Types : queue' = Engine!Advanced(queue, p)
        BY <2>1, <3>1, SameRules DEF Engine!Hold
      <4>2. QED
        BY <4>1, AdvancedQueue DEF IInv, StateOK
    <3>2. CASE held # NO_PIECE
      <4>1. queue' = [queue EXCEPT ![1] = held]
        BY <2>1, <3>2, SameRules DEF Engine!Hold
      <4>2. held \in Types
        BY <3>2 DEF IInv, StateOK
      <4>3. QED
        BY <4>1, <4>2 DEF IInv, StateOK
    <3>3. QED
      BY <3>1, <3>2
  <2>5. QED
    BY <2>1, <2>2, <2>3, <2>4, SpawnKeepsIInv DEF IInv, StateOK
<1>7. CASE UNCHANGED vars
  BY <1>7, StillKeepsIInv DEF vars, engineVars
<1>8. QED
  BY <1>2, <1>3, <1>4, <1>5, <1>6, <1>7 DEF Next

\* While the game is on the piece in flight overlaps nothing; when it is over
\* and driven on, the piece stays over the field and the stack in it.
THEOREM InFlightAlwaysFits == Spec => []InFlightFits
<1>1. IInv => InFlightFits
  <2> SUFFICES ASSUME IInv
               PROVE  InFlightFits
    OBVIOUS
  <2>1. PICK blk \in CurrentShape.blocks : TRUE
    BY ShapeInFlight DEF Solid
  <2>2. offset[1] + blk[1] \in Columns /\ blk[1] \in 0..3 /\ offset[1] \in Int
    <3>1. CurrentShape.blocks \subseteq Box \X Box /\ CurrentShape.x = offset[1]
      BY ShapeInFlight DEF Shapes, CurrentShape, PieceShapeAt
    <3>2. QED
      BY <3>1, ShapeInFlight DEF IInv, OffsetInBounds, Box, PIECE_WIDTH
  <2>3. offset[1] \in -3..WIDTH
    BY <2>2, ConstantFacts DEF Columns
  <2>4. offset \in (-3..WIDTH) \X Rows /\ offset = <<offset[1], offset[2]>>
    BY <2>3 DEF IInv, StateOK
  <2>5. ~gameOver => Fits(orientation, offset)
    BY <2>4, FitsMeans DEF IInv, CurrentShape
  <2>6. QED
    BY <2>4, <2>5 DEF InFlightFits, IInv, StateOK
<1>2. QED
  BY <1>1, InitIInv, NextIInv, PTL DEF Spec

\* The ghost is where gravity takes the piece from wherever it was steered.
THEOREM GhostAlwaysGravity == Spec => []GhostIsGravity
<1>1. IInv => GhostIsGravity
  <2> SUFFICES ASSUME IInv, ~gameOver
               PROVE  GhostIsGravity
    BY DEF GhostIsGravity
  <2> DEFINE s == CurrentShape
             y == offset[2]
             d == DropDistance(board, s, y)
  <2>1. /\ s \in Shapes /\ Solid(s) /\ SpannedColumns(s) # {} /\ y \in Nat
        /\ board \in Boards /\ Free(board, s, y)
    BY ShapeInFlight DEF IInv, StateOK
  <2>2. LandingOffset[2] = y + d
    BY DEF LandingOffset, CurrentShape, Engine!CurrentPiece
  <2> HIDE DEF s, y
  <2>3. /\ d \in Nat
        /\ \A e \in 0..d : Free(board, s, y + e)
        /\ ~Free(board, s, y + d + 1)
    BY <2>1, DropIsWhereItRests
  <2> HIDE DEF d
  <2>4. \A z \in y..(y + d) : Free(board, s, z)
    <3>1. ASSUME NEW z \in y..(y + d)
          PROVE  Free(board, s, z)
      <4>1. z - y \in 0..d /\ y + (z - y) = z
        BY <2>1, <2>3
      <4>2. QED
        BY <2>3, <4>1
    <3>2. QED
      BY <3>1
  <2>5. y + d >= y
    BY <2>1, <2>3
  <2>6. QED
    BY <2>2, <2>3, <2>4, <2>5 DEF GhostIsGravity, s, y, CurrentShape, Engine!CurrentPiece
<1>2. QED
  BY <1>1, InitIInv, NextIInv, PTL DEF Spec
=============================================================================
