-------------------------- MODULE TetrisEngineProofs --------------------------
(***************************************************************************)
(* Theorems about the games that are played on TetrisEngine, for every     *)
(* board size, set of pieces and queue length that meet the modules'       *)
(* assumptions: about the engine and its bag; about the table of           *)
(* placements and the stages of the beam search, for every depth and beam; *)
(* and about AiTetris, which plays the moves the search returns.  What the *)
(* table promises is stated in MCTetrisEngine, on the engine's boards.     *)
(***************************************************************************)
EXTENDS AiTetris, MCTetrisEngine, BagDrought, RulesProofs, SequenceTheorems

\* What the proofs need of the constants.
LEMMA ConstantFacts ==
  /\ WIDTH \in Nat /\ WIDTH >= 4 /\ HEIGHT \in Nat /\ HEIGHT >= 4
  /\ BagSize \in Nat /\ BagSize > 0
  /\ PIECE_QUEUE_SIZE \in Nat /\ PIECE_QUEUE_SIZE > 0
  /\ PIECE_QUEUE_SIZE <= BagSize
  /\ TOP \in Orientation
  BY BagSizeFacts, BoardAssumption, QueueAssumption
     DEF BagSize, PIECE_WIDTH, TOP, Orientation, RIGHT, BOTTOM, LEFT

\* Shifting the queue and appending a piece keeps its length.
LEMMA AdvancedQueue ==
  ASSUME NEW q \in [1..PIECE_QUEUE_SIZE -> Types], NEW p \in Types
  PROVE  /\ Advanced(q, p) \in [1..PIECE_QUEUE_SIZE -> Types]
         /\ \A i \in 1..PIECE_QUEUE_SIZE :
              Advanced(q, p)[i] = IF i = PIECE_QUEUE_SIZE THEN p ELSE q[i + 1]
<1>1. q \in Seq(Types) /\ Len(q) = PIECE_QUEUE_SIZE /\ q # << >>
  BY ConstantFacts
<1>2. /\ Tail(q) \in Seq(Types)
      /\ Len(Tail(q)) = PIECE_QUEUE_SIZE - 1
      /\ \A i \in 1..(PIECE_QUEUE_SIZE - 1) : Tail(q)[i] = q[i + 1]
  BY <1>1, ConstantFacts
<1> DEFINE a == Append(Tail(q), p)
<1>3. /\ a \in Seq(Types)
      /\ Len(a) = PIECE_QUEUE_SIZE
      /\ \A i \in 1..(PIECE_QUEUE_SIZE - 1) : a[i] = Tail(q)[i]
      /\ a[PIECE_QUEUE_SIZE] = p
  <2> DEFINE t == Tail(q)
  <2>1. t \in Seq(Types) /\ Len(t) = PIECE_QUEUE_SIZE - 1
    BY <1>2
  <2> HIDE DEF t
  <2>2. /\ Append(t, p) \in Seq(Types)
        /\ Len(Append(t, p)) = Len(t) + 1
        /\ \A i \in 1..Len(t) : Append(t, p)[i] = t[i]
        /\ Append(t, p)[Len(t) + 1] = p
    BY <2>1, AppendProperties
  <2>3. Len(t) + 1 = PIECE_QUEUE_SIZE
    BY <2>1, ConstantFacts
  <2>4. QED
    BY <2>1, <2>2, <2>3 DEF t
<1> HIDE DEF a
<1>4. a \in [1..PIECE_QUEUE_SIZE -> Types]
  BY <1>3
<1>5. \A i \in 1..PIECE_QUEUE_SIZE :
        a[i] = IF i = PIECE_QUEUE_SIZE THEN p ELSE q[i + 1]
  BY <1>2, <1>3, ConstantFacts
<1>6. QED
  BY <1>4, <1>5 DEF Advanced, a

\* Dealing a queue takes it from the top of a permutation.
LEMMA DealtQueue ==
  ASSUME NEW f \in Shuffles
  PROVE  /\ Dealt(f) \in [1..PIECE_QUEUE_SIZE -> Types]
         /\ BagSize - PIECE_QUEUE_SIZE \in 0..(BagSize - 1)
<1>1. f \in [0..(BagSize - 1) -> Types]
  BY DEF Shuffles, BagSlots
<1>2. \A i \in 1..PIECE_QUEUE_SIZE : BagSize - i \in 0..(BagSize - 1)
  BY ConstantFacts
<1>3. QED
  BY <1>1, <1>2, ConstantFacts DEF Dealt

\* A legal placement: the shape fits at the spawn row, lands in the field on
\* free cells, and cannot fall further; its four blocks are four more cells.
LEMMA LegalPlacement ==
  ASSUME NEW b \in Boards, NEW t \in Types, NEW o \in Orientation, NEW x \in Int,
         Available(b, t, o, <<x, 0>>)
  PROVE  LET s == PieceShapeAt(t, o, x)
             d == DropDistance(b, s, 0)
         IN  /\ s \in Shapes
             /\ d \in Nat
             /\ FallsTo(b, s, d)
             /\ Placed(b, s, d) \in Boards
             /\ CellCount(Placed(b, s, d)) = CellCount(b) + BLOCKS
<1> DEFINE s == PieceShapeAt(t, o, x)
           d == DropDistance(b, s, 0)
<1>1. s \in Shapes /\ Solid(s)
  BY PieceShapes
<1>2. OffsetInBounds(s, 0) /\ Free(b, s, 0)
  BY DEF Available
<1>3. SpannedColumns(s) # {}
  BY <1>1, <1>2, InBoundsSpans
<1> HIDE DEF s
<1>4. /\ d \in Nat
      /\ \A e \in 0..d : Free(b, s, 0 + e)
      /\ ~ Free(b, s, 0 + d + 1)
  BY <1>1, <1>2, <1>3, DropIsWhereItRests
<1> HIDE DEF d
<1>5. FallsTo(b, s, d)
  BY <1>4 DEF FallsTo
<1>6. Free(b, s, d)
  BY <1>4, <1>5 DEF FallsTo
<1>7. Placed(b, s, d) \in Boards
  BY <1>6 DEF Free, Placed, Boards
<1>8. CellCount(Placed(b, s, d)) = CellCount(b) + BLOCKS
  <2>1. s.blocks = Blocks[t][o]
    BY DEF s, PieceShapeAt
  <2>2. QED
    BY <1>1, <1>2, <1>4, <1>6, <2>1, PieceShapes, LockingAddsItsBlocks
<1>9. QED
  BY <1>1, <1>4, <1>5, <1>7, <1>8 DEF s, d
-----------------------------------------------------------------------------
\* The inductive invariant: TypeOK alone does not bound the rows a move
\* clears; that takes a board without full rows to start from.
IInv == TypeOK /\ NoFullRows /\ GameOverIsTopOut

\* A piece completes at most as many rows as its box is high.
LEMMA FewRowsComplete ==
  ASSUME NEW b \in Boards, FullRows(b) = {}, NEW s \in Shapes, NEW d \in Nat
  PROVE  Cardinality(FullRows(Placed(b, s, d))) \in 0..BLOCKS
<1> DEFINE F == FullRows(Placed(b, s, d))
<1>1. F \subseteq d..(d + 3)
  <2>1. ASSUME NEW y \in F
        PROVE  y \in d..(d + 3)
    <3>1. y \in Rows /\ \A x \in Columns : y \in Placed(b, s, d)[x]
      BY DEF FullRows
    <3>2. PICK x \in Columns : y \notin b[x]
      BY <3>1 DEF FullRows
    <3>3. y \in ShiftedColumn(s, x, d)
      BY <3>1, <3>2 DEF Placed
    <3>4. PICK r \in ColumnOf(s, x) : y = r + d
      BY <3>3 DEF ShiftedColumn
    <3>5. r \in Box
      <4>1. x \in Int
        BY <3>2, ConstantFacts DEF Columns
      <4>2. QED
        BY <3>4, <4>1, ColumnOfMember
    <3>6. QED
      BY <3>4, <3>5 DEF Box, PIECE_WIDTH
  <2>2. QED
    BY <2>1
<1>2. IsFiniteSet(d..(d + 3)) /\ Cardinality(d..(d + 3)) = 4
  <2>1. d \in Int /\ d + 3 \in Int
    OBVIOUS
  <2>2. /\ IsFiniteSet(d..(d + 3))
        /\ Cardinality(d..(d + 3)) = IF d > d + 3 THEN 0 ELSE (d + 3) - d + 1
    BY <2>1, FS_Interval
  <2>3. QED
    BY <2>2
<1> HIDE DEF F
<1>3. IsFiniteSet(F) /\ Cardinality(F) <= 4
  BY <1>1, <1>2, FS_Subset
<1>4. Cardinality(F) \in Nat
  BY <1>3, FS_CardinalityType
<1>5. QED
  BY <1>3, <1>4 DEF F, BLOCKS

\* The empty board is a board without full rows.
LEMMA EmptyBoardFacts == EmptyBoard \in Boards /\ FullRows(EmptyBoard) = {}
<1>1. 0 \in Columns
  BY ConstantFacts DEF Columns
<1>2. QED
  BY <1>1 DEF EmptyBoard, Boards, FullRows

\* The inductive invariant holds initially.
LEMMA InitIInv == Init => IInv
<1> SUFFICES ASSUME Init
             PROVE  IInv
  OBVIOUS
<1>1. queue \in [1..PIECE_QUEUE_SIZE -> Types] /\ bagPos \in 0..(BagSize - 1)
  BY DealtQueue DEF Init
<1>2. TypeOK /\ NoFullRows
  BY <1>1, EmptyBoardFacts DEF Init, TypeOK, NoFullRows, CanSpawn, Available, BLOCKS
<1>3. GameOverIsTopOut
  BY DEF Init, GameOverIsTopOut, CurrentPiece
<1>4. QED
  BY <1>2, <1>3 DEF IInv

\* Every step preserves the inductive invariant.
LEMMA NextIInv == IInv /\ [Next]_vars => IInv'
<1> SUFFICES ASSUME IInv, [Next]_vars
             PROVE  (TypeOK /\ NoFullRows)' /\ GameOverIsTopOut'
  BY DEF IInv
<1> USE DEF IInv, TypeOK, NoFullRows
<1>0. GameOverIsTopOut'
  <2>1. CASE UpdateGameOver
    BY <2>1 DEF UpdateGameOver, GameOverIsTopOut, CurrentPiece
  <2>2. CASE UNCHANGED vars
    BY <2>2 DEF vars, GameOverIsTopOut, CurrentPiece, CanSpawn, Available, Free
  <2>3. QED
    BY <2>1, <2>2 DEF Next, Reset, Hold, Place, EnginePlaces
<1>1. CASE Reset
  <2>1. /\ queue' \in [1..PIECE_QUEUE_SIZE -> Types]
        /\ bagPos' \in 0..(BagSize - 1)
    BY <1>1, DealtQueue DEF Reset
  <2>2. gameOver' \in BOOLEAN
    BY <1>1 DEF Reset, UpdateGameOver, CanSpawn, Available
  <2>3. QED
    BY <1>0, <1>1, <2>1, <2>2, EmptyBoardFacts DEF Reset, BLOCKS
<1>2. CASE Hold
  <2>1. held' \in Types \cup {NO_PIECE} /\ ret' = 0 /\ board' = board
    BY <1>2, ConstantFacts DEF Hold
  <2>2. gameOver' \in BOOLEAN
    BY <1>2 DEF Hold, UpdateGameOver, CanSpawn, Available
  <2>3. /\ queue' \in [1..PIECE_QUEUE_SIZE -> Types]
        /\ bag' \in Shuffles
        /\ bagPos' \in 0..(BagSize - 1)
    <3>1. CASE held = NO_PIECE
      BY <1>2, <3>1, DrawTypes, AdvancedQueue DEF Hold
    <3>2. CASE held # NO_PIECE
      BY <1>2, <3>2 DEF Hold
    <3>3. QED
      BY <3>1, <3>2
  <2>4. QED
    BY <1>0, <2>1, <2>2, <2>3 DEF BLOCKS
<1>3. ASSUME NEW o \in Orientation, NEW x \in WindowXs, Place(o, x)
      PROVE  (TypeOK /\ NoFullRows)'
  <2> DEFINE s == PieceShapeAt(CurrentPiece, o, x)
             d == DropDistance(board, s, 0)
  <2>1. CurrentPiece \in Types /\ x \in Int
    BY ConstantFacts DEF CurrentPiece, WindowXs, PIECE_WIDTH
  <2>2. s \in Shapes /\ d \in Nat /\ Placed(board, s, d) \in Boards
    BY <1>3, <2>1, LegalPlacement DEF Place
  <2>3. Locked(o, x) = Placed(board, s, d)
    BY DEF Locked
  <2> HIDE DEF s, d
  <2>4. /\ board' = ClearLines(Locked(o, x))
        /\ held' = held
        /\ gameOver' = ~CanSpawn(board', queue'[1])
        /\ ret' = IF gameOver' THEN DIED ELSE Cardinality(FullRows(Locked(o, x)))
    BY <1>3 DEF Place, EnginePlaces, PlaceResult, UpdateGameOver
  <2>5. board' \in Boards /\ FullRows(board') = {}
    BY <2>2, <2>3, <2>4, ClearLinesLeavesNoFullRow
  <2>6. Cardinality(FullRows(Locked(o, x))) \in 0..BLOCKS
    BY <2>2, <2>3, FewRowsComplete
  <2>7. PICK p \in Types : DrawPiece(p) /\ queue' = Advanced(queue, p)
    BY <1>3 DEF Place, EnginePlaces
  <2>8. /\ queue' \in [1..PIECE_QUEUE_SIZE -> Types]
        /\ bag' \in Shuffles
        /\ bagPos' \in 0..(BagSize - 1)
    BY <2>7, DrawTypes, AdvancedQueue
  <2>9. gameOver' \in BOOLEAN
    BY <2>4 DEF CanSpawn, Available
  <2>10. QED
    BY <2>4, <2>5, <2>6, <2>8, <2>9
<1>4. CASE UNCHANGED vars
  BY <1>0, <1>4 DEF vars
<1>5. QED
  BY <1>0, <1>1, <1>2, <1>3, <1>4 DEF Next

\* The stack stays in the field, the bag array a permutation, and no move
\* clears more rows than clearLines lets the compiler assume.
THEOREM TypeCorrect == Spec => []TypeOK
<1>1. IInv => TypeOK
  BY DEF IInv
<1>2. QED
  BY <1>1, InitIInv, NextIInv, PTL DEF Spec

\* No full row outlives the move that completed it.
THEOREM RowsAreCleared == Spec => []NoFullRows
<1>1. IInv => NoFullRows
  BY DEF IInv
<1>2. QED
  BY <1>1, InitIInv, NextIInv, PTL DEF Spec

\* gameOver() says whether the current piece fits at the spawn, whatever moves,
\* holds and resets led to this board and this piece.
THEOREM GameOverIsCurrent == Spec => []GameOverIsTopOut
<1>1. IInv => GameOverIsTopOut
  BY DEF IInv
<1>2. QED
  BY <1>1, InitIInv, NextIInv, PTL DEF Spec

\* Every move adds the piece's four blocks and takes away WIDTH cells for each
\* row it reports: nothing is overwritten and nothing lost past a border.
THEOREM CellsAreConserved == Spec => CellsConserved
<1>1. IInv /\ [Next]_vars =>
        [ \/ \E k \in 0..BLOCKS :
                /\ CellCount(board') = CellCount(board) + BLOCKS - WIDTH * k
                /\ ret' \in {k, DIED}
          \/ Hold
          \/ Reset ]_vars
  <2> SUFFICES ASSUME IInv, NEW o \in Orientation, NEW x \in WindowXs, Place(o, x)
               PROVE  \E k \in 0..BLOCKS :
                        /\ CellCount(board') = CellCount(board) + BLOCKS - WIDTH * k
                        /\ ret' \in {k, DIED}
    BY DEF Next
  <2> DEFINE s == PieceShapeAt(CurrentPiece, o, x)
             d == DropDistance(board, s, 0)
             k == Cardinality(FullRows(Locked(o, x)))
  <2>1. CurrentPiece \in Types /\ x \in Int
    BY ConstantFacts DEF IInv, TypeOK, CurrentPiece, WindowXs, PIECE_WIDTH
  <2>2. /\ s \in Shapes /\ d \in Nat /\ Placed(board, s, d) \in Boards
        /\ CellCount(Placed(board, s, d)) = CellCount(board) + BLOCKS
    BY <2>1, LegalPlacement DEF Place, IInv, TypeOK
  <2>3. Locked(o, x) = Placed(board, s, d)
    BY DEF Locked
  <2>4. /\ board' = ClearLines(Locked(o, x))
        /\ ret' = IF gameOver' THEN DIED ELSE k
    BY DEF Place, EnginePlaces, PlaceResult
  <2> HIDE DEF s, d
  <2>5. k \in 0..BLOCKS
    BY <2>2, <2>3, FewRowsComplete DEF IInv, TypeOK, NoFullRows
  <2>6. CellCount(board') = CellCount(board) + BLOCKS - WIDTH * k
    <3> DEFINE w == WIDTH * k
    <3>1. k \in Nat /\ CellCount(board') = CellCount(Locked(o, x)) - w
      BY <2>2, <2>3, <2>4, ClearingTakesFullRows
    <3>2. CellCount(Locked(o, x)) = CellCount(board) + BLOCKS
      BY <2>2, <2>3
    <3>3. w \in Nat
      <4> HIDE DEF k
      <4>1. QED
        BY <3>1, ConstantFacts
    <3>4. CellCount(board) \in Nat
      BY CellsFinite
    <3> HIDE DEF k, w
    <3>5. CellCount(board') = CellCount(board) + BLOCKS - w
      BY <3>1, <3>2, <3>3, <3>4 DEF BLOCKS
    <3>6. QED
      BY <3>5 DEF w
  <2> HIDE DEF k
  <2>7. QED
    BY <2>4, <2>5, <2>6
<1>2. QED
  BY <1>1, InitIInv, NextIInv, PTL DEF Spec, CellsConserved

\* On every reachable board dropDistance is where gravity takes a legal piece.
THEOREM DropsAreGravity == Spec => []DropIsGravity
<1>1. IInv => DropIsGravity
  <2> SUFFICES ASSUME IInv, NEW t \in Types, NEW o \in Orientation, NEW x \in WindowXs,
                      Available(board, t, o, <<x, 0>>)
               PROVE  LET s == PieceShapeAt(t, o, x)
                      IN  FallsTo(board, s, DropDistance(board, s, 0))
    BY DEF DropIsGravity
  <2>1. x \in Int
    BY ConstantFacts DEF WindowXs, PIECE_WIDTH
  <2>2. QED
    BY <2>1, LegalPlacement DEF IInv, TypeOK
<1>2. QED
  BY <1>1, InitIInv, NextIInv, PTL DEF Spec
-----------------------------------------------------------------------------
\* A draw takes one piece from the set of those still owed.
LEMMA DrawTakesOne ==
  ASSUME bag \in Shuffles, bagPos \in 0..(BagSize - 1), NEW p \in Types, DrawPiece(p)
  PROVE  p \in Flow!Refilled /\ Remaining' = Flow!Refilled \ {p}
<1>1. BagSize \in Nat /\ BagSize > 0
  BY ConstantFacts
<1>2. CASE bagPos > 0
  <2>1. p = bag[bagPos - 1] /\ bagPos' = bagPos - 1 /\ bag' = bag
    BY <1>2 DEF DrawPiece
  <2>2. bagPos - 1 \in 0..(bagPos - 1)
    BY <1>1, <1>2
  <2>3. p \in Remaining
    BY <2>1, <2>2 DEF Remaining
  <2>4. Flow!Refilled = Remaining
    BY <2>3 DEF Flow!Refilled
  <2>5. Remaining' = {bag[i] : i \in 0..(bagPos - 1 - 1)}
    BY <2>1 DEF Remaining
  <2>6. \A i \in 0..(bagPos - 1) : i \in 0..(BagSize - 1) /\ (i # bagPos - 1 <=> i \in 0..(bagPos - 1 - 1))
    BY <1>1, <1>2
  <2>7. \A i \in 0..(bagPos - 1) : bag[i] = p <=> i = bagPos - 1
    BY <2>1, <2>2, <2>6, ShuffleInjective
  <2>8. Remaining' = Remaining \ {p}
    <3>1. \A q \in Remaining' : q \in Remaining /\ q # p
      <4>1. ASSUME NEW i \in 0..(bagPos - 1 - 1)
            PROVE  bag[i] \in Remaining /\ bag[i] # p
        <5>1. i \in 0..(bagPos - 1) /\ i # bagPos - 1
          BY <1>1, <1>2
        <5>2. QED
          BY <2>7, <5>1 DEF Remaining
      <4>2. QED
        BY <2>5, <4>1
    <3>2. \A q \in Remaining : q # p => q \in Remaining'
      BY <2>5, <2>6, <2>7 DEF Remaining
    <3>3. QED
      BY <2>3, <3>1, <3>2
  <2>9. QED
    BY <2>3, <2>4, <2>8
<1>3. CASE bagPos = 0
  <2>1. bag' \in Shuffles /\ p = bag'[BagSize - 1] /\ bagPos' = BagSize - 1
    BY <1>3 DEF DrawPiece
  <2>2. Remaining = {}
    BY <1>3 DEF Remaining
  <2>3. Flow!Refilled = Types
    BY <2>2 DEF Flow!Refilled
  <2>4. Remaining' = {bag'[i] : i \in 0..((BagSize - 1) - 1)}
    BY <2>1 DEF Remaining
  <2>5. BagSize - 1 \in 0..BagSize /\ (BagSize - 1)..(BagSize - 1) = {BagSize - 1}
    BY <1>1
  <2>6. Remaining' = Types \ {bag'[i] : i \in (BagSize - 1)..(BagSize - 1)}
    BY <2>1, <2>4, <2>5, LeftInShuffle
  <2>7. QED
    BY <2>1, <2>3, <2>5, <2>6
<1>4. QED
  BY <1>1, <1>2, <1>3

\* A dealt queue is a start of the abstract flow.
LEMMA DealtStarts ==
  ASSUME NEW f \in Shuffles
  PROVE  Flow!Start(Dealt(f), {f[i] : i \in 0..(BagSize - PIECE_QUEUE_SIZE - 1)}, NO_PIECE)
<1> DEFINE n == BagSize - PIECE_QUEUE_SIZE
<1>1. /\ PIECE_QUEUE_SIZE \in Nat /\ BagSize \in Nat
      /\ n \in 0..BagSize
      /\ \A i \in 1..PIECE_QUEUE_SIZE : BagSize - i \in n..(BagSize - 1) /\ BagSize - i \in 0..(BagSize - 1)
      /\ \A j \in n..(BagSize - 1) : BagSize - j \in 1..PIECE_QUEUE_SIZE /\ BagSize - (BagSize - j) = j
  BY ConstantFacts
<1>2. \A i \in 1..PIECE_QUEUE_SIZE : Dealt(f)[i] = f[BagSize - i]
  BY DEF Dealt
<1>3. \A i, j \in 1..PIECE_QUEUE_SIZE : Dealt(f)[i] = Dealt(f)[j] => i = j
  <2>1. ASSUME NEW i \in 1..PIECE_QUEUE_SIZE, NEW j \in 1..PIECE_QUEUE_SIZE,
               Dealt(f)[i] = Dealt(f)[j]
        PROVE  i = j
    <3>1. BagSize - i = BagSize - j
      <4>1. f[BagSize - i] = f[BagSize - j]
        BY <1>2, <2>1
      <4>2. BagSize - i \in 0..(BagSize - 1) /\ BagSize - j \in 0..(BagSize - 1)
        BY <1>1
      <4> HIDE DEF n
      <4>3. QED
        BY <4>1, <4>2, ShuffleInjective
    <3>2. QED
      BY <1>1, <3>1
  <2>2. QED
    BY <2>1
<1>4. {Dealt(f)[i] : i \in 1..PIECE_QUEUE_SIZE} = {f[j] : j \in n..(BagSize - 1)}
  <2>1. \A i \in 1..PIECE_QUEUE_SIZE : Dealt(f)[i] \in {f[j] : j \in n..(BagSize - 1)}
    BY <1>1, <1>2
  <2>2. \A j \in n..(BagSize - 1) : f[j] \in {Dealt(f)[i] : i \in 1..PIECE_QUEUE_SIZE}
    <3>1. ASSUME NEW j \in n..(BagSize - 1)
          PROVE  f[j] = Dealt(f)[BagSize - j] /\ BagSize - j \in 1..PIECE_QUEUE_SIZE
      BY <1>1, <1>2
    <3>2. QED
      BY <3>1
  <2>3. QED
    BY <2>1, <2>2
<1>5. {f[i] : i \in 0..(n - 1)} = Types \ {f[j] : j \in n..(BagSize - 1)}
  BY <1>1, LeftInShuffle
<1>6. QED
  BY <1>3, <1>4, <1>5, DealtQueue DEF Flow!Start, Flow!NO_PIECE, NO_PIECE

\* The engine's supply, queue and hold slot are the abstract flow of pieces
\* under the mapping that reads the undrawn slots of the bag as a set.
THEOREM EngineImplementsFlow == Spec => ImplementsPieceFlow
<1>1. Init => Flow!Init
  BY DealtStarts DEF Init, Flow!Init, Remaining
<1>2. IInv /\ [Next]_vars => [Flow!Next]_(Flow!vars)
  <2> SUFFICES ASSUME IInv, [Next]_vars
               PROVE  Flow!Next \/ UNCHANGED Flow!vars
    OBVIOUS
  <2>1. CASE Reset
    <3>1. Remaining' = {bag'[i] : i \in 0..(BagSize - PIECE_QUEUE_SIZE - 1)}
      BY <2>1 DEF Reset, Remaining
    <3>2. Flow!Start(queue', Remaining', held')
      BY <2>1, <3>1, DealtStarts DEF Reset
    <3>3. QED
      BY <3>2 DEF Flow!Next, Flow!Restart
  <2>2. CASE Hold
    <3>1. CASE held = NO_PIECE
      <4>1. PICK p \in Types : DrawPiece(p) /\ queue' = Advanced(queue, p)
        BY <2>2, <3>1 DEF Hold
      <4>2. p \in Flow!Refilled /\ Remaining' = Flow!Refilled \ {p}
        BY <4>1, DrawTakesOne DEF IInv, TypeOK
      <4>3. Flow!Advance
        BY <4>1, <4>2 DEF Flow!Advance, Advanced
      <4>4. QED
        BY <2>2, <3>1, <4>3 DEF Hold, Flow!Next, Flow!HoldFirst,
             Flow!NO_PIECE, NO_PIECE
    <3>2. CASE held # NO_PIECE
      BY <2>2, <3>2 DEF Hold, Flow!Next, Flow!HoldSwap, Remaining,
           Flow!NO_PIECE, NO_PIECE
    <3>3. QED
      BY <3>1, <3>2
  <2>3. ASSUME NEW o \in Orientation, NEW x \in WindowXs, Place(o, x)
        PROVE  Flow!Next
    <3>1. PICK p \in Types : DrawPiece(p) /\ queue' = Advanced(queue, p)
      BY <2>3 DEF Place, EnginePlaces
    <3>2. p \in Flow!Refilled /\ Remaining' = Flow!Refilled \ {p}
      BY <3>1, DrawTakesOne DEF IInv, TypeOK
    <3>3. Flow!Advance
      BY <3>1, <3>2 DEF Flow!Advance, Advanced
    <3>4. held' = held
      BY <2>3 DEF Place, EnginePlaces
    <3>5. QED
      BY <3>3, <3>4 DEF Flow!Next, Flow!Drop
  <2>4. CASE UNCHANGED vars
    BY <2>4 DEF vars, Flow!vars, Remaining
  <2>5. QED
    BY <2>1, <2>2, <2>3, <2>4 DEF Next
<1>3. QED
  BY <1>1, <1>2, InitIInv, NextIInv, PTL DEF Spec, Flow!Spec, ImplementsPieceFlow
-----------------------------------------------------------------------------
\* The inductive invariant; NoDrought alone says nothing of how many of the
\* draws belong to the bag still open.
DroughtIInv == DroughtTypeOK /\ DroughtInv

\* The inductive invariant bounds every drought.
LEMMA IInvNoDrought == DroughtIInv => NoDrought
<1> SUFFICES ASSUME DroughtIInv, NEW p \in Types
             PROVE  since[p] <= 2 * BagSize - 2
  BY DEF NoDrought
<1>1. since[p] \in Nat /\ bagPos \in 0..(BagSize - 1)
  BY DEF DroughtIInv, DroughtTypeOK
<1>2. p \in Remaining => bagPos >= 1
  BY <1>1 DEF Remaining
<1>3. QED
  BY <1>1, <1>2, BagSizeFacts DEF DroughtIInv, DroughtInv

\* After reset() the bag is empty and nothing has been waited for.
LEMMA DroughtInitIInv == DroughtInit => DroughtIInv
  BY BagSizeFacts DEF DroughtInit, DroughtIInv, DroughtTypeOK, DroughtInv, Remaining

\* A draw keeps the invariant: from an open bag every wait grows by the one
\* draw the bag has given more, and a new bag starts with all waits short.
LEMMA DrawIInv ==
  ASSUME DroughtIInv, NEW p \in Types, Draw(p)
  PROVE  DroughtIInv'
<1> USE DEF DroughtIInv, DroughtTypeOK
<1>1. BagSize \in Nat /\ BagSize > 0
  BY BagSizeFacts
<1>2. /\ since' \in [Types -> Nat]
      /\ \A t \in Types : since'[t] = IF t = p THEN 0 ELSE since[t] + 1
  BY DEF Draw
<1>3. CASE bagPos > 0
  <2>1. /\ bag \in Shuffles /\ bag' = bag
        /\ p = bag[bagPos - 1] /\ bagPos' = bagPos - 1
    BY <1>3 DEF Draw, DrawPiece
  <2>2. DroughtTypeOK'
    BY <1>1, <1>2, <1>3, <2>1
  <2>3. \A t \in Types : t # p => (t \in Remaining <=> t \in Remaining')
    <3>1. ASSUME NEW t \in Remaining, t # p
          PROVE  t \in Remaining'
      <4>1. PICK i \in 0..(bagPos - 1) : t = bag[i]
        BY DEF Remaining
      <4>2. i # bagPos - 1
        BY <2>1, <3>1, <4>1
      <4>3. i \in 0..(bagPos' - 1)
        BY <1>1, <1>3, <2>1, <4>1, <4>2
      <4>4. QED
        BY <2>1, <4>1, <4>3 DEF Remaining
    <3>2. ASSUME NEW t \in Remaining'
          PROVE  t \in Remaining
      <4>1. PICK i \in 0..(bagPos' - 1) : t = bag'[i]
        BY DEF Remaining
      <4>2. i \in 0..(bagPos - 1)
        BY <1>1, <1>3, <2>1, <4>1
      <4>3. QED
        BY <2>1, <4>1, <4>2 DEF Remaining
    <3>3. QED
      BY <3>1, <3>2
  <2>4. ASSUME NEW t \in Types
        PROVE  IF t \in Remaining'
                 THEN since'[t] <= (BagSize - 1) + (BagSize - bagPos')
                 ELSE since'[t] <= BagSize - bagPos' - 1
    <3>1. CASE t = p
      BY <1>1, <1>2, <1>3, <2>1, <3>1
    <3>2. CASE t # p
      <4>1. since'[t] = since[t] + 1 /\ since[t] \in Nat
        BY <1>2, <3>2
      <4>2. IF t \in Remaining'
              THEN since[t] <= (BagSize - 1) + (BagSize - bagPos)
              ELSE since[t] <= BagSize - bagPos - 1
        BY <2>3, <3>2 DEF DroughtInv
      <4>3. QED
        BY <1>1, <1>3, <2>1, <4>1, <4>2
    <3>3. QED
      BY <3>1, <3>2
  <2>5. QED
    BY <2>2, <2>4 DEF DroughtInv
<1>4. CASE bagPos = 0
  <2>1. /\ bag' \in Shuffles /\ p = bag'[BagSize - 1] /\ bagPos' = BagSize - 1
    BY <1>4 DEF Draw, DrawPiece
  <2>2. DroughtTypeOK'
    BY <1>1, <1>2, <2>1 DEF Shuffles
  <2>3. \A t \in Types : since[t] \in Nat /\ since[t] <= BagSize - 1
    <3>1. Remaining = {}
      BY <1>4 DEF Remaining
    <3>2. QED
      BY <1>1, <1>4, <3>1 DEF DroughtInv
  <2>4. Remaining' = Types \ {p}
    <3>1. BagSize - 1 \in 0..BagSize /\ (BagSize - 1)..(BagSize - 1) = {BagSize - 1}
      BY <1>1
    <3>2. {bag'[i] : i \in 0..((BagSize - 1) - 1)}
            = Types \ {bag'[i] : i \in (BagSize - 1)..(BagSize - 1)}
      BY <2>1, <3>1, LeftInShuffle
    <3>3. QED
      BY <2>1, <3>1, <3>2 DEF Remaining
  <2>5. ASSUME NEW t \in Types
        PROVE  IF t \in Remaining'
                 THEN since'[t] <= (BagSize - 1) + (BagSize - bagPos')
                 ELSE since'[t] <= BagSize - bagPos' - 1
    BY <1>1, <1>2, <2>1, <2>3, <2>4
  <2>6. QED
    BY <2>2, <2>5 DEF DroughtInv
<1>5. QED
  BY <1>1, <1>3, <1>4

\* Whatever the shuffles, a piece is drawn again after at most 2N - 2 others.
THEOREM NoDroughtEver == DroughtSpec => []NoDrought
<1>1. DroughtIInv /\ [DroughtNext]_droughtVars => DroughtIInv'
  <2>1. ASSUME DroughtIInv, UNCHANGED droughtVars
        PROVE  DroughtIInv'
    BY <2>1 DEF DroughtIInv, DroughtTypeOK, DroughtInv, Remaining, droughtVars
  <2>2. QED
    BY <2>1, DrawIInv DEF DroughtNext
<1>2. QED
  BY <1>1, DroughtInitIInv, IInvNoDrought, PTL DEF DroughtSpec
-----------------------------------------------------------------------------
(* The placement table. *)

\* The columns of a shape are a run that begins at its leftmost one.
LEMMA ColumnsAreARun ==
  ASSUME NEW t \in Types, NEW o \in Orientation
  PROVE  /\ Left(t, o) \in Box
         /\ NumColumns(t, o) \in 1..4
         /\ BoxColumns(t, o) = Left(t, o)..(Left(t, o) + NumColumns(t, o) - 1)
<1> DEFINE B == BoxColumns(t, o)
<1>1. B \subseteq {0, 1, 2, 3}
  <2>1. \A blk \in Blocks[t][o] : blk[1] \in Box
    BY BlocksAssumption
  <2>2. QED
    BY <2>1 DEF BoxColumns, Box, PIECE_WIDTH
<1>2. B # {}
  <2>1. Cardinality(Blocks[t][o]) = BLOCKS
    BY BlocksAssumption
  <2>2. Blocks[t][o] # {}
    BY <2>1, FS_EmptySet DEF BLOCKS
  <2>3. QED
    BY <2>2 DEF BoxColumns
<1>3. \A c, d \in B : c..d \subseteq B
  BY PlacementAssumption
<1>4. Left(t, o) = CHOOSE c \in B : c - 1 \notin B
  BY DEF Left
<1>5. NumColumns(t, o) = Cardinality(B)
  BY DEF NumColumns
<1> HIDE DEF B
<1>6. PICK l \in B : \A c \in B : l <= c
  <2>1. CASE 0 \in B
    BY <1>1, <2>1
  <2>2. CASE 0 \notin B /\ 1 \in B
    BY <1>1, <2>2
  <2>3. CASE 0 \notin B /\ 1 \notin B /\ 2 \in B
    BY <1>1, <2>3
  <2>4. CASE 0 \notin B /\ 1 \notin B /\ 2 \notin B
    <3>1. B = {3}
      BY <1>1, <1>2, <2>4
    <3>2. QED
      BY <3>1
  <2>5. QED
    BY <2>1, <2>2, <2>3, <2>4
<1>7. PICK r \in B : \A c \in B : c <= r
  <2>1. CASE 3 \in B
    BY <1>1, <2>1
  <2>2. CASE 3 \notin B /\ 2 \in B
    BY <1>1, <2>2
  <2>3. CASE 3 \notin B /\ 2 \notin B /\ 1 \in B
    BY <1>1, <2>3
  <2>4. CASE 3 \notin B /\ 2 \notin B /\ 1 \notin B
    BY <1>1, <1>2, <2>4
  <2>5. QED
    BY <2>1, <2>2, <2>3, <2>4
<1>8. l \in 0..3 /\ r \in 0..3 /\ l <= r /\ B = l..r
  <2>1. l \in 0..3 /\ r \in 0..3 /\ l <= r
    BY <1>1, <1>6, <1>7
  <2>2. \A c \in B : c \in l..r
    BY <1>1, <1>6, <1>7, <2>1
  <2>3. QED
    BY <1>3, <2>1, <2>2
<1>9. Left(t, o) = l
  <2>1. l - 1 \notin B
    BY <1>6, <1>8
  <2>2. \A c \in B : c - 1 \notin B => c = l
    BY <1>8
  <2>3. QED
    BY <1>4, <2>1, <2>2
<1>10. NumColumns(t, o) = r - l + 1
  BY <1>5, <1>8, FS_Interval
<1>11. QED
  BY <1>8, <1>9, <1>10 DEF Box, PIECE_WIDTH, B

\* What an entry of the table may be.
TableEntries(t) ==
  UNION {{[orientation |-> o, x |-> x] :
            x \in orientation_range(t, o).xMin..orientation_range(t, o).xMax} :
           o \in representatives(t)}

\* A range has at least one x, and keeps every block between the walls.
LEMMA RangeFits ==
  ASSUME NEW t \in Types, NEW o \in Orientation
  PROVE  /\ orientation_range(t, o).xMin \in Int /\ orientation_range(t, o).xMax \in Int
         /\ orientation_range(t, o).xMin + X_BIAS >= 0
         /\ orientation_range(t, o).xMax + X_BIAS < 16
         /\ \A x \in Int : x \in orientation_range(t, o).xMin..orientation_range(t, o).xMax
                             <=> OffsetInBounds(PieceShapeAt(t, o, x), 0)
<1> DEFINE range == orientation_range(t, o)
           l == Left(t, o)
           n == NumColumns(t, o)
<1>1. range.xMin = -l /\ range.xMax = WIDTH - l - n
  BY DEF orientation_range
<1>2. l \in Int /\ n \in Int /\ BoxColumns(t, o) = l..(l + n - 1) /\ n >= 1
  BY ColumnsAreARun DEF Box, PIECE_WIDTH
<1>3. WIDTH \in Int /\ 0 \in Rows
  BY BoardAssumption DEF PIECE_WIDTH, Rows
<1>4. range.xMin + X_BIAS >= 0 /\ range.xMax + X_BIAS < 16
  BY PlacementAssumption
<1> HIDE DEF range, l, n
<1>5. ASSUME NEW x \in Int
      PROVE  x \in range.xMin..range.xMax <=> OffsetInBounds(PieceShapeAt(t, o, x), 0)
  <2>1. OffsetInBounds(PieceShapeAt(t, o, x), 0) <=> \A c \in BoxColumns(t, o) : x + c \in Columns
    BY <1>3 DEF OffsetInBounds, PieceShapeAt, BoxColumns
  <2>2. ASSUME x \in range.xMin..range.xMax, NEW c \in l..(l + n - 1)
        PROVE  x + c \in Columns
    BY <1>1, <1>2, <1>3, <2>2 DEF Columns
  <2>3. ASSUME \A c \in l..(l + n - 1) : x + c \in Columns
        PROVE  x \in range.xMin..range.xMax
    <3>1. l \in l..(l + n - 1) /\ l + n - 1 \in l..(l + n - 1)
      BY <1>2
    <3>2. x + l \in Columns /\ x + (l + n - 1) \in Columns
      BY <2>3, <3>1
    <3>3. QED
      BY <1>1, <1>2, <1>3, <3>2 DEF Columns
  <2>4. QED
    BY <1>2, <2>1, <2>2, <2>3
<1>6. QED
  BY <1>1, <1>2, <1>3, <1>4, <1>5 DEF range

\* Four sequences flattened.
LEMMA FlattenFour ==
  ASSUME NEW s, s = [i \in 1..4 |-> s[i]], Len(s) = 4
  PROVE  FlattenSeq(s) = ((s[1] \o s[2]) \o s[3]) \o s[4]
<1> DEFINE a2 == s[1] \o s[2]
           a3 == a2 \o s[3]
           a4 == a3 \o s[4]
           f == [i \in 1..4 |-> IF i = 1 THEN s[1] ELSE IF i = 2 THEN a2 ELSE IF i = 3 THEN a3 ELSE a4]
           R(g) == [i \in 1..4 |-> IF i = 1 THEN s[i] ELSE g[i - 1] \o s[i]]
<1>1. f = R(f)
  <2>1. ASSUME NEW i \in 1..4
        PROVE  f[i] = R(f)[i]
    <3>1. i \in {1, 2, 3, 4}
      OBVIOUS
    <3> HIDE DEF a2, a3, a4
    <3>2. CASE i = 1
      BY <3>2
    <3>3. CASE i = 2
      BY <3>3 DEF a2
    <3>4. CASE i = 3
      BY <3>4 DEF a3
    <3>5. CASE i = 4
      BY <3>5 DEF a4
    <3>6. QED
      BY <3>1, <3>2, <3>3, <3>4, <3>5
  <2>2. QED
    BY <2>1
<1>2. FlattenSeq(s) = (CHOOSE g : g = R(g))[4]
  BY DEF FlattenSeq
<1> DEFINE g == CHOOSE g : g = R(g)
<1> HIDE DEF f, R
<1>3. g = R(g)
  BY <1>1
<1> HIDE DEF g
<1>4. /\ g[1] = s[1] /\ g[2] = g[1] \o s[2]
      /\ g[3] = g[2] \o s[3] /\ g[4] = g[3] \o s[4]
  <2>1. \A i \in 1..4 : g[i] = R(g)[i]
    BY <1>3
  <2>2. QED
    BY <2>1, SMTT(30) DEF R
<1>5. QED
  BY <1>2, <1>4 DEF g

\* The entries of one orientation, as a sequence of bytes.
LEMMA OrientationSlice ==
  ASSUME NEW t \in Types, NEW o \in Orientation
  PROVE  LET range == orientation_range(t, o)
             e == OrientationEntries(t, o)
         IN  /\ e \in Seq(Nat)
             /\ o \notin representatives(t) => Len(e) = 0
             /\ o \in representatives(t) =>
                  /\ Len(e) = range.xMax - range.xMin + 1
                  /\ \A i \in 1..Len(e) : e[i] = encode(o, range.xMin + i - 1)
<1> DEFINE lo == orientation_range(t, o).xMin
           hi == orientation_range(t, o).xMax
           e == OrientationEntries(t, o)
<1>1. lo \in Int /\ hi \in Int
  BY RangeFits
<1>2. \A x \in Int : encode(o, x) \in Nat
  <2>1. o \in 0..3
    BY DEF Orientation, TOP, RIGHT, BOTTOM, LEFT
  <2>2. QED
    BY <2>1 DEF encode, X_BIAS
<1>3. CASE o \notin representatives(t)
  BY <1>3 DEF OrientationEntries
<1>4. CASE o \in representatives(t)
  <2>1. e = [i \in 1..(hi - lo + 1) |-> encode(o, lo + i - 1)]
    BY <1>4 DEF OrientationEntries
  <2>2. hi - lo + 1 >= 0
    BY ColumnsAreARun, BoardAssumption DEF orientation_range, PIECE_WIDTH, Box
  <2> HIDE DEF lo, hi, e
  <2> DEFINE n == hi - lo + 1
  <2>3. n \in Nat
    BY <1>1, <2>2
  <2>4. \A i \in 1..n : encode(o, lo + i - 1) \in Nat
    BY <1>1, <1>2, <2>3
  <2> HIDE DEF n
  <2>5. e = [i \in 1..n |-> encode(o, lo + i - 1)]
    BY <2>1 DEF n
  <2>6. e \in [1..n -> Nat]
    BY <2>4, <2>5
  <2>7. e \in Seq(Nat) /\ Len(e) = n
    BY <2>3, <2>6
  <2>8. \A i \in 1..n : e[i] = encode(o, lo + i - 1)
    BY <2>5
  <2>9. QED
    BY <1>4, <2>7, <2>8 DEF n, lo, hi, e
<1>5. QED
  BY <1>3, <1>4

\* Decoding an entry of a range gives back orientation and x.
LEMMA DecodesWhatWasEncoded ==
  ASSUME NEW t \in Types, NEW o \in Orientation,
         NEW x \in orientation_range(t, o).xMin..orientation_range(t, o).xMax
  PROVE  decode(encode(o, x)) = [orientation |-> o, x |-> x]
<1>1. o \in 0..3
  BY DEF Orientation, TOP, RIGHT, BOTTOM, LEFT
<1>2. x \in Int /\ x + 2 \in 0..15
  BY RangeFits DEF X_BIAS
<1>3. encode(o, x) = o + 4 * (x + 2)
  BY <1>1, <1>2 DEF encode, X_BIAS
<1> DEFINE y == x + 2
           b == o + 4 * y
<1>4. b % 4 = o /\ (b \div 4) % 16 = y
  <2>1. y \in 0..15
    BY <1>2
  <2> HIDE DEF y
  <2>2. b \in Nat /\ b % 4 = o /\ b \div 4 = y
    BY <1>1, <2>1
  <2>3. y % 16 = y
    BY <2>1
  <2>4. QED
    BY <2>2, <2>3
<1>5. ((b \div 4) % 16) - 2 = x
  BY <1>2, <1>4
<1>6. QED
  BY <1>3, <1>4, <1>5 DEF decode, X_BIAS

\* The table of a piece is its orientations' entries, one after another.
LEMMA TableSlices ==
  ASSUME NEW t \in Types
  PROVE  /\ PLACEMENTS[t] \in Seq(Nat)
         /\ n_theoretical_placements(t) \in Nat
         /\ Range(PLACEMENTS[t]) = UNION {Range(OrientationEntries(t, o)) : o \in Orientation}
<1> DEFINE E(o) == OrientationEntries(t, o)
           s == [i \in 1..4 |-> E(i - 1)]
           a == E(0) \o E(1)
           b == a \o E(2)
           c == b \o E(3)
<1>1. Orientation = {0, 1, 2, 3}
  BY DEF Orientation, TOP, RIGHT, BOTTOM, LEFT
<1>2. \A o \in {0, 1, 2, 3} : E(o) \in Seq(Nat)
  BY <1>1, OrientationSlice
<1> HIDE DEF E
<1>3. PLACEMENTS[t] = c
  <2>1. PLACEMENTS[t] = FlattenSeq(s)
    BY DEF PLACEMENTS, E
  <2>2. s = [i \in 1..4 |-> s[i]] /\ Len(s) = 4
    OBVIOUS
  <2>3. s[1] = E(0) /\ s[2] = E(1) /\ s[3] = E(2) /\ s[4] = E(3)
    OBVIOUS
  <2> HIDE DEF s
  <2>4. QED
    BY <2>1, <2>2, <2>3, FlattenFour
<1>4. a \in Seq(Nat) /\ Range(a) = Range(E(0)) \cup Range(E(1))
  BY <1>2, ConcatProperties, RangeConcatenation
<1> HIDE DEF a
<1>5. b \in Seq(Nat) /\ Range(b) = Range(a) \cup Range(E(2))
  BY <1>2, <1>4, ConcatProperties, RangeConcatenation
<1> HIDE DEF b
<1>6. c \in Seq(Nat) /\ Range(c) = Range(b) \cup Range(E(3))
  BY <1>2, <1>5, ConcatProperties, RangeConcatenation
<1> HIDE DEF c
<1>7. Range(c) = UNION {Range(E(o)) : o \in Orientation}
  BY <1>1, <1>4, <1>5, <1>6
<1>8. Len(c) \in Nat
  BY <1>6
<1>9. QED
  BY <1>3, <1>6, <1>7, <1>8 DEF n_theoretical_placements, E

\* The table of a piece holds the entries of its representatives and no other.
LEMMA TableHolds ==
  ASSUME NEW t \in Types
  PROVE  TableDrops(t) = TableEntries(t)
<1> DEFINE n == n_theoretical_placements(t)
<1>1. n \in Nat
  BY TableSlices
<1>2. representatives(t) \subseteq Orientation
  BY DEF representatives
<1> DEFINE e(o) == OrientationEntries(t, o)
<1>3. \A o \in Orientation : e(o) \in Seq(Nat)
  BY OrientationSlice
<1>4. ASSUME NEW d \in TableDrops(t)
      PROVE  d \in TableEntries(t)
  <2>1. PICK i \in 0..(n - 1) : d = decode(PLACEMENTS[t][i + 1])
    BY DEF TableDrops, nth_placement
  <2>2. i + 1 \in DOMAIN PLACEMENTS[t]
    BY <1>1, <2>1, TableSlices DEF n_theoretical_placements
  <2>3. PLACEMENTS[t][i + 1] \in Range(PLACEMENTS[t])
    BY <2>2 DEF Range
  <2>4. PICK o \in Orientation : PLACEMENTS[t][i + 1] \in Range(e(o))
    <3>1. PLACEMENTS[t][i + 1] \in UNION {Range(e(o)) : o \in Orientation}
      BY <2>3, TableSlices
    <3> HIDE DEF e
    <3>2. QED
      BY <3>1
  <2>5. PICK j \in DOMAIN e(o) : PLACEMENTS[t][i + 1] = e(o)[j]
    BY <2>4 DEF Range
  <2>6. j \in 1..Len(e(o))
    BY <1>3, <2>5
  <2> DEFINE lo == orientation_range(t, o).xMin
             hi == orientation_range(t, o).xMax
  <2>7. lo \in Int /\ hi \in Int
    BY RangeFits
  <2>8. /\ o \in representatives(t) /\ j \in 1..(hi - lo + 1)
        /\ e(o)[j] = encode(o, lo + j - 1)
    BY <2>6, <2>7, OrientationSlice
  <2>9. lo + j - 1 \in lo..hi
    <3> HIDE DEF lo, hi
    <3>1. QED
      BY <2>7, <2>8
  <2>10. d = [orientation |-> o, x |-> lo + j - 1]
    BY <2>1, <2>5, <2>8, <2>9, DecodesWhatWasEncoded
  <2>11. QED
    BY <2>8, <2>9, <2>10 DEF TableEntries
<1>5. ASSUME NEW o \in representatives(t),
             NEW x \in orientation_range(t, o).xMin..orientation_range(t, o).xMax
      PROVE  [orientation |-> o, x |-> x] \in TableDrops(t)
  <2> DEFINE lo == orientation_range(t, o).xMin
             hi == orientation_range(t, o).xMax
             j == x - lo + 1
  <2>1. o \in Orientation /\ lo \in Int /\ hi \in Int
    BY <1>2, RangeFits
  <2>2. j \in 1..(hi - lo + 1) /\ lo + j - 1 = x
    <3> HIDE DEF lo, hi
    <3>1. x \in lo..hi
      BY DEF lo, hi
    <3>2. QED
      BY <2>1, <3>1
  <2>3. /\ j \in 1..Len(OrientationEntries(t, o))
        /\ OrientationEntries(t, o)[j] = encode(o, x)
    <3>1. /\ Len(OrientationEntries(t, o)) = hi - lo + 1
          /\ \A k \in 1..Len(OrientationEntries(t, o)) :
               OrientationEntries(t, o)[k] = encode(o, lo + k - 1)
      BY <2>1, OrientationSlice
    <3> HIDE DEF lo, hi, j
    <3>2. QED
      BY <2>2, <3>1
  <2>4. PICK i \in 1..n : PLACEMENTS[t][i] = encode(o, x)
    <3>1. encode(o, x) \in Range(e(o))
      BY <1>3, <2>1, <2>3 DEF Range
    <3>2. encode(o, x) \in Range(PLACEMENTS[t])
      <4> HIDE DEF e
      <4>1. QED
        BY <2>1, <3>1, TableSlices DEF e
    <3>3. QED
      BY <3>2, TableSlices DEF Range, n_theoretical_placements
  <2>5. i - 1 \in 0..(n - 1) /\ (i - 1) + 1 = i
    BY <1>1, <2>4
  <2>6. nth_placement(t, i - 1) = [orientation |-> o, x |-> x]
    BY <2>1, <2>4, <2>5, DecodesWhatWasEncoded DEF nth_placement
  <2>7. QED
    BY <2>5, <2>6 DEF TableDrops
<1>6. QED
  BY <1>4, <1>5 DEF TableEntries

\* The first orientation is never left out of the table.
LEMMA TopIsTabled ==
  ASSUME NEW t \in Types, NEW x \in Int, OffsetInBounds(PieceShapeAt(t, TOP, x), 0)
  PROVE  [orientation |-> TOP, x |-> x] \in TableDrops(t)
<1>1. TOP \in Orientation /\ \A p \in Orientation : ~(p < TOP)
  BY DEF Orientation, TOP, RIGHT, BOTTOM, LEFT
<1>2. TOP \in representatives(t)
  BY <1>1 DEF representatives
<1>3. x \in orientation_range(t, TOP).xMin..orientation_range(t, TOP).xMax
  BY <1>1, RangeFits
<1>4. QED
  BY <1>2, <1>3, TableHolds DEF TableEntries

\* Every entry is a drop between the walls.
LEMMA TableInBounds ==
  ASSUME NEW t \in Types, NEW i \in 0..(n_theoretical_placements(t) - 1)
  PROVE  /\ nth_placement(t, i) \in [orientation : Orientation, x : Int]
         /\ OffsetInBounds(PieceShapeAt(t, nth_placement(t, i).orientation, nth_placement(t, i).x), 0)
<1> DEFINE d == nth_placement(t, i)
<1>1. d \in TableEntries(t)
  BY TableHolds DEF TableDrops
<1>2. PICK o \in representatives(t) :
        \E x \in orientation_range(t, o).xMin..orientation_range(t, o).xMax : d = [orientation |-> o, x |-> x]
  BY <1>1 DEF TableEntries
<1>3. PICK x \in orientation_range(t, o).xMin..orientation_range(t, o).xMax : d = [orientation |-> o, x |-> x]
  BY <1>2
<1>4. o \in Orientation
  BY DEF representatives
<1>5. x \in Int
  BY <1>4, RangeFits
<1> HIDE DEF d
<1>6. d.orientation = o /\ d.x = x /\ d \in [orientation : Orientation, x : Int]
  BY <1>3, <1>4, <1>5
<1>7. QED
  BY <1>4, <1>5, <1>6, RangeFits DEF d

\* The spawn column is between the walls for every piece.
LEMMA SpawnTabled ==
  ASSUME NEW t \in Types
  PROVE  SPAWN[1] \in Int /\ OffsetInBounds(PieceShapeAt(t, TOP, SPAWN[1]), 0)
<1>1. TOP \in Orientation /\ WIDTH \in Nat /\ WIDTH >= 4 /\ 0 \in Rows
  BY BoardAssumption DEF PIECE_WIDTH, Rows, Orientation, TOP, RIGHT, BOTTOM, LEFT
<1>2. \A blk \in Blocks[t][TOP] : blk[1] \in 0..3
  BY <1>1, BlocksAssumption DEF Box, PIECE_WIDTH
<1>3. SPAWN[1] = (WIDTH - 4) \div 2
  BY DEF SPAWN, PIECE_WIDTH
<1>4. SPAWN[1] \in 0..(WIDTH - 4)
  BY <1>1, <1>3
<1>5. QED
  BY <1>1, <1>2, <1>4 DEF OffsetInBounds, PieceShapeAt, Columns
-----------------------------------------------------------------------------
(* The stages of the beam search: what they score and what they keep. *)

\* What a stage scores: slot numbers with the model's values.
Keys == [slot : Int, score : Int]

\* Keys are ordered by their scores, and by their slots among equal scores.
LEMMA BetterIsAnOrder ==
  /\ \A c \in Keys : ~Better(c, c)
  /\ \A c, d \in Keys : c = d \/ Better(c, d) \/ Better(d, c)
  /\ \A c, d \in Keys : ~(Better(c, d) /\ Better(d, c))
  /\ \A c, d, e \in Keys : Better(c, d) /\ Better(d, e) => Better(c, e)
<1>1. \A c, d \in Keys : c.slot = d.slot /\ c.score = d.score => c = d
  BY DEF Keys
<1>2. \A c \in Keys : c.slot \in Int /\ c.score \in Int
  BY DEF Keys
<1>3. \A c, d \in Keys : c = d \/ Better(c, d) \/ Better(d, c)
  BY <1>1, <1>2 DEF Better
<1>4. /\ \A c \in Keys : ~Better(c, c)
      /\ \A c, d \in Keys : ~(Better(c, d) /\ Better(d, c))
  BY <1>2 DEF Better
<1>5. \A c, d, e \in Keys : Better(c, d) /\ Better(d, e) => Better(c, e)
  BY <1>2 DEF Better
<1>6. QED
  BY <1>3, <1>4, <1>5

\* Among finitely many keys each has a rank of its own, and no rank is left out.
BetterThan(S, c) == {d \in S : Better(d, c)}
RankIn(S, c) == Cardinality(BetterThan(S, c))

LEMMA RanksAreDense ==
  ASSUME NEW S \in SUBSET Keys, IsFiniteSet(S)
  PROVE  /\ Cardinality(S) \in Nat
         /\ \A c \in S : RankIn(S, c) \in 0..(Cardinality(S) - 1)
         /\ \A c, d \in S : RankIn(S, c) = RankIn(S, d) => c = d
         /\ \A r \in 0..(Cardinality(S) - 1) : \E c \in S : RankIn(S, c) = r
<1> DEFINE n == Cardinality(S)
           f == [c \in S |-> RankIn(S, c)]
<1>1. n \in Nat
  BY FS_CardinalityType
<1>2. ASSUME NEW c \in S
      PROVE  IsFiniteSet(BetterThan(S, c)) /\ RankIn(S, c) \in 0..(n - 1)
  <2>1. BetterThan(S, c) \in SUBSET S /\ c \notin BetterThan(S, c)
    BY BetterIsAnOrder DEF BetterThan
  <2>2. IsFiniteSet(BetterThan(S, c)) /\ RankIn(S, c) \in Nat /\ RankIn(S, c) <= n /\ RankIn(S, c) # n
    BY <2>1, FS_Subset, FS_CardinalityType DEF RankIn
  <2> HIDE DEF n
  <2>3. QED
    BY <1>1, <2>2
<1>3. ASSUME NEW c \in S, NEW d \in S, Better(c, d)
      PROVE  RankIn(S, c) # RankIn(S, d)
  <2>1. BetterThan(S, c) \in SUBSET BetterThan(S, d)
    BY <1>3, BetterIsAnOrder DEF BetterThan
  <2>2. c \in BetterThan(S, d) /\ c \notin BetterThan(S, c)
    BY <1>3, BetterIsAnOrder DEF BetterThan
  <2>3. QED
    BY <1>2, <2>1, <2>2, FS_Subset DEF RankIn
<1>4. \A c, d \in S : RankIn(S, c) = RankIn(S, d) => c = d
  BY <1>3, BetterIsAnOrder
<1>5. IsFiniteSet(0..(n - 1)) /\ Cardinality(0..(n - 1)) = n
  <2> HIDE DEF n
  <2>1. 0 \in Int /\ n - 1 \in Int
    BY <1>1
  <2>2. QED
    BY <1>1, <2>1, FS_Interval
<1>6. f \in Injection(S, 0..(n - 1))
  BY <1>2, <1>4 DEF Injection, IsInjective
<1>7. f \in Surjection(S, 0..(n - 1))
  <2> HIDE DEF f
  <2>1. QED
    BY <1>5, <1>6, FS_Injection
<1>8. \A r \in 0..(n - 1) : \E c \in S : RankIn(S, c) = r
  BY <1>7 DEF Surjection
<1>9. QED
  BY <1>1, <1>2, <1>4, <1>8

\* select_top keeps candidates under the ranks from zero on, one at least if
\* there is any.
LEMMA TopIsRanked ==
  ASSUME NEW S \in SUBSET Keys, IsFiniteSet(S), NEW width \in Nat \ {0},
         NEW top, top = select_top(S, width)
  PROVE  /\ \E n \in 0..width : DOMAIN top = 0..(n - 1)
         /\ \A r \in DOMAIN top : top[r] \in S
         /\ S # {} => 0 \in DOMAIN top
<1> DEFINE rank(c) == Cardinality({d \in S : Better(d, c)})
           ranked == {<<rank(c), c>> : c \in {c \in S : rank(c) < width}}
           ranks == {p[1] : p \in ranked}
           N == Cardinality(S)
           n == IF width < N THEN width ELSE N
<1>1. \A c : rank(c) = RankIn(S, c)
  BY DEF RankIn, BetterThan
<1>2. /\ N \in Nat
      /\ \A c \in S : rank(c) \in 0..(N - 1)
      /\ \A r \in 0..(N - 1) : \E c \in S : rank(c) = r
  BY <1>1, RanksAreDense
<1>3. top = [r \in ranks |-> (CHOOSE p \in ranked : p[1] = r)[2]]
  BY DEF select_top
<1>4. S # {} => N # 0
  BY FS_EmptySet
<1> HIDE DEF rank, N
<1>5. ranks = 0..(n - 1)
  <2>1. \A r \in ranks : r \in 0..(n - 1)
    BY <1>2
  <2>2. ASSUME NEW r \in 0..(n - 1)
        PROVE  r \in ranks
    <3>1. r \in 0..(N - 1) /\ r < width
      BY <1>2
    <3>2. PICK c \in S : rank(c) = r
      BY <1>2, <3>1
    <3>3. <<rank(c), c>> \in ranked
      BY <3>1, <3>2
    <3> DEFINE p == <<rank(c), c>>
    <3>4. p[1] = r /\ p \in ranked
      BY <3>2, <3>3
    <3> HIDE DEF p, ranked
    <3>5. QED
      BY <3>4
  <2>3. QED
    BY <2>1, <2>2
<1>6. ASSUME NEW r \in ranks
      PROVE  (CHOOSE p \in ranked : p[1] = r)[2] \in S
  <2>1. \E p \in ranked : p[1] = r
    OBVIOUS
  <2>2. \A p \in ranked : p[2] \in S
    OBVIOUS
  <2> HIDE DEF ranked
  <2>3. QED
    BY <2>1, <2>2
<1>7. n \in 0..width /\ (S # {} => 0 \in 0..(n - 1))
  BY <1>2, <1>4
<1> HIDE DEF ranks, ranked, n
<1>8. QED
  BY <1>3, <1>5, <1>6, <1>7

\* The best of finitely many keys is one of them, and no other is better.
LEMMA BestIsOffered ==
  ASSUME NEW S \in SUBSET Keys, IsFiniteSet(S), S # {}
  PROVE  /\ BestKey(S) \in S
         /\ \A d \in S : BestKey(S) = d \/ Better(BestKey(S), d)
<1>1. 0 \in 0..(Cardinality(S) - 1)
  <2>1. Cardinality(S) \in Nat /\ Cardinality(S) # 0
    BY FS_CardinalityType, FS_EmptySet
  <2>2. QED
    BY <2>1
<1>2. PICK c \in S : RankIn(S, c) = 0
  BY <1>1, RanksAreDense
<1>3. BetterThan(S, c) = {}
  <2>1. IsFiniteSet(BetterThan(S, c))
    BY FS_Subset DEF BetterThan
  <2>2. QED
    BY <1>2, <2>1, FS_EmptySet DEF RankIn
<1>4. \A d \in S : c = d \/ Better(c, d)
  BY <1>3, BetterIsAnOrder DEF BetterThan
<1>5. QED
  BY <1>4 DEF BestKey

\* The greatest of finitely many integers is one of them.
LEMMA MaxOfFinite ==
  ASSUME NEW S \in SUBSET Int, IsFiniteSet(S), S # {}
  PROVE  Max(S) \in S /\ \A y \in S : Max(S) >= y
<1> DEFINE key == [v \in S |-> [slot |-> 0, score |-> v]]
           K == {key[v] : v \in S}
<1>1. K \in SUBSET Keys /\ K # {}
  <2>1. \A v \in S : key[v] \in Keys
    BY DEF Keys
  <2> HIDE DEF key
  <2>2. QED
    BY <2>1
<1>2. IsFiniteSet(K)
  <2> HIDE DEF key
  <2>1. QED
    BY ImageIsFinite
<1>3. PICK b \in K : \A d \in K : b = d \/ Better(b, d)
  <2> HIDE DEF K
  <2>1. QED
    BY <1>1, <1>2, BestIsOffered
<1>4. PICK v \in S : b = key[v]
  OBVIOUS
<1>5. ASSUME NEW w \in S
      PROVE  v >= w
  <2>1. b = key[w] \/ Better(b, key[w])
    BY <1>3
  <2>2. b.score = v /\ key[w].score = w /\ b.slot = 0 /\ key[w].slot = 0 /\ v \in Int /\ w \in Int
    BY <1>4
  <2> HIDE DEF key
  <2>3. QED
    BY <2>1, <2>2 DEF Better
<1>6. QED
  BY <1>5 DEF Max

\* The strides of the slot numbers.
LEMMA Strides ==
  /\ MAX_PLACEMENTS \in Nat \ {0}
  /\ \A t \in Types : n_theoretical_placements(t) \in 1..MAX_PLACEMENTS
  /\ MAX_ROOT_GROUPS \in Nat \ {0}
  /\ \A h \in BOOLEAN : Cardinality(DOMAIN PLAN_TREES[h][0]) <= MAX_ROOT_GROUPS
  /\ MAX_CHILD_MID \in {1, 2} /\ MAX_LAST = 2
  /\ DEPTH > 2 => MAX_CHILD_MID = 2
<1> DEFINE f == [t \in Types |-> n_theoretical_placements(t)]
           S == {f[t] : t \in Types}
<1>1. ASSUME NEW t \in Types
      PROVE  n_theoretical_placements(t) \in Nat \ {0}
  <2>1. TableDrops(t) # {}
    BY SpawnTabled, TopIsTabled
  <2>2. PICK i \in 0..(n_theoretical_placements(t) - 1) : TRUE
    BY <2>1 DEF TableDrops
  <2>3. n_theoretical_placements(t) \in Nat
    BY TableSlices
  <2>4. QED
    BY <2>2, <2>3
<1>2. S \in SUBSET Int /\ S # {} /\ S \subseteq Nat \ {0} /\ \A t \in Types : n_theoretical_placements(t) \in S
  BY <1>1, TypesAssumption
<1>3. IsFiniteSet(S)
  <2> HIDE DEF f
  <2>1. QED
    BY TypesAssumption, ImageIsFinite
<1>4. MAX_PLACEMENTS = Max(S)
  <2>1. S = {n_theoretical_placements(t) : t \in Types}
    OBVIOUS
  <2> HIDE DEF S
  <2>2. QED
    BY <2>1 DEF MAX_PLACEMENTS
<1> HIDE DEF S
<1>5. MAX_PLACEMENTS \in S /\ \A y \in S : MAX_PLACEMENTS >= y
  BY <1>2, <1>3, <1>4, MaxOfFinite
<1>6. \A t \in Types : n_theoretical_placements(t) \in 1..MAX_PLACEMENTS
  BY <1>1, <1>2, <1>5
<1>7. /\ MAX_ROOT_GROUPS \in Nat \ {0}
      /\ \A h \in BOOLEAN : Cardinality(DOMAIN PLAN_TREES[h][0]) <= MAX_ROOT_GROUPS
  <2> DEFINE g == [e \in BOOLEAN |-> Cardinality(DOMAIN PLAN_TREES[e][0])]
             T == {g[e] : e \in BOOLEAN}
  <2>1. 0 \in Levels
    BY PlanSets DEF Levels
  <2>2. ASSUME NEW e \in BOOLEAN
        PROVE  g[e] \in Nat \ {0}
    <3>1. IsFiniteSet(DOMAIN PLAN_TREES[e][0]) /\ DOMAIN PLAN_TREES[e][0] # {}
      BY <2>1, LayersAreFinite, RootsOfTheTree
    <3> DEFINE D == DOMAIN PLAN_TREES[e][0]
    <3>2. g[e] = Cardinality(D)
      OBVIOUS
    <3> HIDE DEF D, g
    <3>3. Cardinality(D) \in Nat /\ Cardinality(D) # 0
      BY <3>1, FS_CardinalityType, FS_EmptySet DEF D
    <3>4. QED
      BY <3>2, <3>3
  <2>3. MAX_ROOT_GROUPS = Max(T)
    <3>1. T = {Cardinality(DOMAIN PLAN_TREES[e][0]) : e \in BOOLEAN}
      OBVIOUS
    <3> HIDE DEF T
    <3>2. QED
      BY <3>1 DEF MAX_ROOT_GROUPS
  <2> HIDE DEF g
  <2>4. IsFiniteSet(BOOLEAN)
    <3>1. IsFiniteSet({TRUE}) /\ IsFiniteSet({FALSE})
      BY FS_Singleton
    <3>2. IsFiniteSet({TRUE} \cup {FALSE})
      BY <3>1, FS_Union
    <3>3. {TRUE} \cup {FALSE} = BOOLEAN
      BY Zenon
    <3>4. QED
      BY <3>2, <3>3
  <2>5. IsFiniteSet(T)
    BY <2>4, ImageIsFinite
  <2>6. T \subseteq Nat \ {0} /\ g[TRUE] \in T /\ \A e \in BOOLEAN : g[e] \in T
    BY <2>2
  <2> HIDE DEF T
  <2>7. T \in SUBSET Int /\ T # {}
    <3>1. g[TRUE] \in T
      BY <2>6
    <3>2. \A n \in T : n \in Int
      BY <2>6
    <3>3. QED
      BY <3>1, <3>2, Zenon
  <2>8. MAX_ROOT_GROUPS \in T /\ \A n \in T : MAX_ROOT_GROUPS >= n
    BY <2>3, <2>5, <2>7, MaxOfFinite
  <2>9. \A h \in BOOLEAN : g[h] <= MAX_ROOT_GROUPS
    BY <2>6, <2>8
  <2>10. QED
    BY <2>6, <2>8, <2>9 DEF g
<1>8. MAX_LAST = 2
  <2>1. DEPTH - 2 \in Levels /\ DEPTH - 2 <= DEPTH - 2 /\ (DEPTH - 2) + 1 \in Levels
    BY PlanSets DEF Levels
  <2>2. QED
    BY <2>1, SpansAreTwo DEF MAX_LAST
<1>9. MAX_CHILD_MID \in {1, 2} /\ (DEPTH > 2 => MAX_CHILD_MID = 2)
  <2>1. CASE DEPTH > 2
    <3>1. 0 \in Levels /\ DEPTH - 3 \in Levels /\ 0 <= DEPTH - 3 /\ (DEPTH - 3) + 1 \in Levels
      BY <2>1, PlanSets DEF Levels
    <3>2. max_child_span(0, DEPTH - 3) = 2
      BY <3>1, SpansAreTwo
    <3>3. QED
      BY <2>1, <3>2 DEF MAX_CHILD_MID
  <2>2. CASE ~(DEPTH > 2)
    BY <2>2 DEF MAX_CHILD_MID
  <2>3. QED
    BY <2>1, <2>2
<1>10. QED
  BY <1>2, <1>5, <1>6, <1>7, <1>8, <1>9

\* What apply() makes of a placement between the walls.
LEMMA AppliedBoard ==
  ASSUME NEW b \in Boards, NEW clears \in [1..BLOCKS -> Nat], NEW t \in Types,
         NEW i \in 0..(n_theoretical_placements(t) - 1),
         NEW step, step = apply(b, clears, t, nth_placement(t, i))
  PROVE  /\ step.legal \in BOOLEAN
         /\ step.legal <=> Available(b, t, nth_placement(t, i).orientation, <<nth_placement(t, i).x, 0>>)
         /\ step.board \in Boards /\ step.clears \in [1..BLOCKS -> Nat]
<1> DEFINE d == nth_placement(t, i)
           s == PieceShapeAt(t, d.orientation, d.x)
           next == Placed(b, s, DropDistance(b, s, 0))
           c == Added(clears, Cardinality(FullRows(next)))
<1>1. d.orientation \in Orientation /\ d.x \in Int /\ OffsetInBounds(s, 0)
  BY TableInBounds
<1>2. s \in Shapes /\ Solid(s)
  BY <1>1, PieceShapes
<1>3. Available(b, t, d.orientation, <<d.x, 0>>) <=> Free(b, s, 0)
  BY <1>1 DEF Available
<1>4. c \in [1..BLOCKS -> Nat]
  BY DEF Added
<1> HIDE DEF s, c, d
<1>5. ASSUME Free(b, s, 0)
      PROVE  ClearLines(next) \in Boards
  <2>1. SpannedColumns(s) # {}
    BY <1>1, <1>2, InBoundsSpans
  <2>2. \A x \in SpannedColumns(s) : LowestBlock(s, x, 0) < HEIGHT
    BY <1>2, <1>5, FreeIsAboveFloor
  <2>3. 0 + DropDistance(b, s, 0) = DropDistance(b, s, 0) /\ Placed(b, s, 0 + DropDistance(b, s, 0)) \in Boards
    BY <1>2, <2>1, <2>2, LocksInField
  <2>4. next \in Boards
    BY <2>3
  <2> HIDE DEF next
  <2>5. QED
    BY <2>4, ClearLinesLeavesNoFullRow
<1>6. step = IF Free(b, s, 0) THEN [board |-> ClearLines(next), clears |-> c, legal |-> TRUE]
             ELSE [board |-> b, clears |-> clears, legal |-> FALSE]
  BY DEF apply, s, c, d
<1> HIDE DEF next
<1>7. CASE Free(b, s, 0)
  BY <1>3, <1>4, <1>5, <1>6, <1>7 DEF d
<1>8. CASE ~Free(b, s, 0)
  BY <1>3, <1>6, <1>8 DEF d
<1>9. QED
  BY <1>7, <1>8

\* What the search asks of a model: a number for every board it may reach.
ScoresAreNumbers ==
  \A m \in Models, c \in [1..BLOCKS -> Nat], b \in Boards, isI \in BOOLEAN :
    Evaluate(m, c, b, isI) \in Int

\* The slots gathered for a search that begins with or without a held piece.
PiecesInSlots(h, g) ==
  \A s \in 0..(NUM_SLOTS - 1) : (h => s # SEQ_HELD_SLOT) => g[s] \in Types

\* The piece of a node of the tree.
LEMMA NodePiece ==
  ASSUME NEW h \in BOOLEAN, NEW g, PiecesInSlots(h, g), NEW level \in Levels,
         NEW n \in DOMAIN PLAN_TREES[h][level]
  PROVE  g[PLAN_TREES[h][level][n].slot] \in Types
  BY NodesOfTheTree DEF PiecesInSlots

\* Candidates score numbers, one for each legal candidate.
CandidateOK(c) ==
  /\ c.slot \in Int /\ c.step.legal \in BOOLEAN
  /\ c.step.board \in Boards /\ c.step.clears \in [1..BLOCKS -> Nat]

\* The entries of a score array.
LEMMA ScoredKeys ==
  ASSUME ScoresAreNumbers, NEW m \in Models, NEW g, NEW C, IsFiniteSet(C),
         \A c \in C : CandidateOK(c)
  PROVE  /\ Scored(m, g, C) \in SUBSET Keys /\ IsFiniteSet(Scored(m, g, C))
         /\ \A k \in Scored(m, g, C) : \E c \in C : c.slot = k.slot /\ c.step.legal
         /\ \A c \in C : c.step.legal => Scored(m, g, C) # {}
<1> DEFINE L == {c \in C : c.step.legal}
           f == [c \in L |-> [slot |-> c.slot, score |-> Score(m, g, c.node, c.step)]]
           K == {f[c] : c \in L}
<1>1. Scored(m, g, C) = K
  BY DEF Scored
<1>2. IsFiniteSet(L)
  BY FS_Subset
<1>3. IsFiniteSet(K)
  <2> HIDE DEF f, L
  <2>1. QED
    BY <1>2, ImageIsFinite
<1>4. ASSUME NEW c \in L
      PROVE  f[c] \in Keys /\ f[c].slot = c.slot
  <2>1. heldIsI(g, c.node) \in BOOLEAN
    BY DEF heldIsI
  <2>2. CandidateOK(c)
    OBVIOUS
  <2>3. Score(m, g, c.node, c.step) \in Int
    BY <2>1, <2>2 DEF Score, CandidateOK, ScoresAreNumbers
  <2>4. QED
    BY <2>2, <2>3 DEF CandidateOK, Keys
<1> HIDE DEF f
<1>5. QED
  BY <1>1, <1>3, <1>4

\* The roots that a search may choose: candidates whose first step is legal.
LegalRoot(h, g, b, s) ==
  /\ s \in RootCandidates(PLAN_TREES[h], g)
  /\ RootStep(PLAN_TREES[h], g, b, s).legal

\* The number of a root candidate names a root and an entry of the table.
LEMMA RootIndices ==
  ASSUME NEW h \in BOOLEAN, NEW g, PiecesInSlots(h, g), NEW s \in RootCandidates(PLAN_TREES[h], g)
  PROVE  /\ s \in Nat /\ s \div MAX_PLACEMENTS \in DOMAIN PLAN_TREES[h][0]
         /\ g[RootNode(PLAN_TREES[h], s).slot] \in Types
         /\ s % MAX_PLACEMENTS
              \in 0..(n_theoretical_placements(g[RootNode(PLAN_TREES[h], s).slot]) - 1)
<1> DEFINE tree == PLAN_TREES[h]
           t == g[RootNode(tree, s).slot]
<1>1. /\ s \in ROOT_SLOTS /\ s \div MAX_PLACEMENTS \in DOMAIN tree[0]
      /\ s % MAX_PLACEMENTS < n_theoretical_placements(t)
  BY DEF RootCandidates
<1>2. s \in Nat
  BY <1>1 DEF ROOT_SLOTS
<1>3. t \in Types
  <2>1. 0 \in Levels
    BY PlanSets DEF Levels
  <2>2. QED
    BY <1>1, <2>1, NodePiece DEF RootNode
<1> HIDE DEF t
<1>4. s % MAX_PLACEMENTS \in 0..(n_theoretical_placements(t) - 1)
  <2>1. MAX_PLACEMENTS \in Nat \ {0} /\ n_theoretical_placements(t) \in Nat
    BY <1>3, Strides, TableSlices
  <2>2. s % MAX_PLACEMENTS \in Nat
    BY <1>2, <2>1
  <2>3. QED
    BY <1>1, <2>1, <2>2 DEF t
<1>5. QED
  BY <1>1, <1>2, <1>3, <1>4 DEF t

\* What a root candidate does: its first step is legal when its move fits.
LEMMA RootStepped ==
  ASSUME NEW h \in BOOLEAN, NEW g, PiecesInSlots(h, g), NEW s \in RootCandidates(PLAN_TREES[h], g),
         NEW b \in Boards, NEW step, step = RootStep(PLAN_TREES[h], g, b, s)
  PROVE  LET move == RootMove(PLAN_TREES[h], g, s)
             t == g[RootNode(PLAN_TREES[h], s).slot]
         IN  /\ step.legal \in BOOLEAN
             /\ step.legal <=> Available(b, t, move.orientation, <<move.x, 0>>)
             /\ step.board \in Boards /\ step.clears \in [1..BLOCKS -> Nat]
<1> DEFINE tree == PLAN_TREES[h]
           t == g[RootNode(tree, s).slot]
           i == s % MAX_PLACEMENTS
           d == nth_placement(t, i)
           move == RootMove(tree, g, s)
<1>1. t \in Types /\ i \in 0..(n_theoretical_placements(t) - 1)
  BY RootIndices
<1>2. NO_CLEARS \in [1..BLOCKS -> Nat]
  BY DEF NO_CLEARS
<1>3. step = apply(b, NO_CLEARS, t, nth_placement(t, i))
  BY DEF RootStep
<1>4. move.orientation = d.orientation /\ move.x = d.x
  BY DEF RootMove
<1> HIDE DEF t, i, move
<1>5. /\ step.legal \in BOOLEAN
      /\ step.legal <=> Available(b, t, d.orientation, <<d.x, 0>>)
      /\ step.board \in Boards /\ step.clears \in [1..BLOCKS -> Nat]
  BY <1>1, <1>2, <1>3, AppliedBoard
<1>6. QED
  BY <1>4, <1>5 DEF t, move

\* The roots' scores.
LEMMA RootScores ==
  ASSUME ScoresAreNumbers, NEW m \in Models,
         NEW h \in BOOLEAN, NEW g, PiecesInSlots(h, g), NEW b \in Boards,
         NEW scores, scores = score_roots(PLAN_TREES[h], g, b, m)
  PROVE  /\ scores \in SUBSET Keys /\ IsFiniteSet(scores)
         /\ \A c \in scores : LegalRoot(h, g, b, c.slot)
         /\ \A s : LegalRoot(h, g, b, s) => scores # {}
<1> DEFINE tree == PLAN_TREES[h]
           R == RootCandidates(tree, g)
           f == [s \in R |-> [slot |-> s, node |-> RootNode(tree, s), step |-> RootStep(tree, g, b, s)]]
           C == {f[s] : s \in R}
<1>1. scores = Scored(m, g, C)
  BY DEF score_roots
<1>2. IsFiniteSet(R)
  <2>1. R \in SUBSET ROOT_SLOTS
    BY DEF RootCandidates
  <2> DEFINE N == MAX_ROOT_GROUPS * MAX_PLACEMENTS - 1
  <2>2. N \in Int
    BY Strides
  <2> HIDE DEF N
  <2>3. IsFiniteSet(0..N)
    BY <2>2, FS_Interval
  <2>4. ROOT_SLOTS = 0..N
    BY DEF ROOT_SLOTS, N
  <2>5. QED
    BY <2>1, <2>3, <2>4, FS_Subset
<1>3. ASSUME NEW s \in R
      PROVE  /\ CandidateOK(f[s]) /\ f[s].slot = s
             /\ f[s].step = RootStep(tree, g, b, s)
  <2>1. s \in Int
    BY RootIndices
  <2>2. f[s].slot = s /\ f[s].step = RootStep(tree, g, b, s)
    OBVIOUS
  <2>3. PICK step : step = RootStep(tree, g, b, s)
    OBVIOUS
  <2>4. s \in RootCandidates(PLAN_TREES[h], g) /\ step = RootStep(PLAN_TREES[h], g, b, s)
    BY <2>3
  <2>5. step.legal \in BOOLEAN /\ step.board \in Boards /\ step.clears \in [1..BLOCKS -> Nat]
    BY <2>4, RootStepped
  <2> HIDE DEF f, R
  <2>6. QED
    BY <2>1, <2>2, <2>3, <2>5 DEF CandidateOK
<1> HIDE DEF f, R
<1>4. IsFiniteSet(C)
  BY <1>2, ImageIsFinite
<1>5. \A c \in C : CandidateOK(c)
  BY <1>3
<1>6. /\ Scored(m, g, C) \in SUBSET Keys /\ IsFiniteSet(Scored(m, g, C))
      /\ \A k \in Scored(m, g, C) : \E c \in C : c.slot = k.slot /\ c.step.legal
      /\ \A c \in C : c.step.legal => Scored(m, g, C) # {}
  <2> HIDE DEF C
  <2>1. QED
    BY <1>4, <1>5, ScoredKeys
<1>7. QED
  BY <1>1, <1>3, <1>6 DEF LegalRoot, R

\* What a stage keeps.  The roots: legal ones, ranked from zero on.
RootsOK(h, g, b, width, rs) ==
  /\ \E n \in 0..width : DOMAIN rs = 0..(n - 1)
  /\ \A r \in DOMAIN rs : rs[r] \in Keys /\ LegalRoot(h, g, b, rs[r].slot)

\* A kept node: a board reached at a node of its level, under a kept root.
NodeOK(h, level, rs, e) ==
  /\ e.board \in Boards /\ e.clears \in [1..BLOCKS -> Nat] /\ e.score \in Int
  /\ e.node \in DOMAIN PLAN_TREES[h][level] /\ e.rootRank \in DOMAIN rs

FrontierOK(h, level, rs, width, frontier) ==
  /\ \E n \in 0..width : DOMAIN frontier = 0..(n - 1)
  /\ \A k \in DOMAIN frontier : NodeOK(h, level, rs, frontier[k])

\* The offers of dead ends: their orders lie behind those of the leaves and
\* name a kept root.
OffersOK(widths, rs, S) ==
  /\ S \in SUBSET Keys /\ IsFiniteSet(S)
  /\ \A c \in S : c.slot >= leaf_orders(widths) /\ c.slot - leaf_orders(widths) \in DOMAIN rs

\* Division by a stride.
LEMMA Division ==
  ASSUME NEW q \in Nat \ {0}, NEW a \in Nat
  PROVE  /\ a \div q \in Nat
         /\ \A n \in Nat : a < n * q => a \div q < n
<1> DEFINE d == a \div q
           r == a % q
<1>1. d \in Nat /\ r \in 0..(q - 1) /\ a = d * q + r
  OBVIOUS
<1> HIDE DEF d, r
<1>2. ASSUME NEW n \in Nat, a < n * q
      PROVE  d < n
  <2>1. d >= n => d * q >= n * q
    BY <1>1
  <2>2. QED
    BY <1>1, <1>2, <2>1
<1>3. \A n \in Nat : a < n * q => d < n
  BY <1>2
<1>4. QED
  BY <1>1, <1>3 DEF d

\* Beams keep something on every level.
LEMMA Widths ==
  ASSUME NEW widths \in BeamWidths, NEW level \in 0..(DEPTH - 2)
  PROVE  Width(widths, level) \in Nat \ {0} /\ leaf_orders(widths) \in Nat
<1>1. widths \in [1..(DEPTH - 1) -> Nat \ {0}] /\ DEPTH \in 2..4
  BY WidthsAssumption, DepthAssumption
<1>2. Width(widths, level) \in Nat \ {0}
  BY <1>1 DEF Width
<1>3. Width(widths, DEPTH - 2) \in Nat
  BY <1>1 DEF Width
<1>4. MAX_LAST \in Nat /\ MAX_PLACEMENTS \in Nat
  BY Strides
<1>5. QED
  BY <1>2, <1>3, <1>4 DEF leaf_orders

\* The first frontier.
LEMMA SeededFrontier ==
  ASSUME NEW h \in BOOLEAN, NEW g, PiecesInSlots(h, g), NEW b \in Boards, NEW width \in Nat,
         NEW rs, RootsOK(h, g, b, width, rs),
         NEW frontier, frontier = seed_frontier(PLAN_TREES[h], g, b, rs)
  PROVE  FrontierOK(h, 0, rs, width, frontier) /\ DOMAIN frontier = DOMAIN rs
<1>1. DOMAIN frontier = DOMAIN rs
  BY DEF seed_frontier
<1>2. ASSUME NEW k \in DOMAIN rs
      PROVE  NodeOK(h, 0, rs, frontier[k])
  <2>1. PICK s : s = rs[k].slot
    OBVIOUS
  <2>2. PICK step : step = RootStep(PLAN_TREES[h], g, b, s)
    OBVIOUS
  <2>3. s \in RootCandidates(PLAN_TREES[h], g) /\ rs[k].score \in Int
    BY <2>1 DEF RootsOK, LegalRoot, Keys
  <2>4. s \div MAX_PLACEMENTS \in DOMAIN PLAN_TREES[h][0]
    BY <2>3, RootIndices
  <2>5. step.board \in Boards /\ step.clears \in [1..BLOCKS -> Nat]
    BY <2>2, <2>3, RootStepped
  <2>6. frontier[k] = [board |-> step.board, clears |-> step.clears, score |-> rs[k].score,
                       node |-> s \div MAX_PLACEMENTS, rootRank |-> k]
    BY <2>1, <2>2 DEF seed_frontier
  <2>7. QED
    BY <2>3, <2>4, <2>5, <2>6 DEF NodeOK
<1>3. \E n \in 0..width : DOMAIN rs = 0..(n - 1)
  BY DEF RootsOK
<1>4. QED
  BY <1>1, <1>2, <1>3 DEF FrontierOK

\* A candidate of a middle level continues a kept node by a child of its.
LEMMA MidIndices ==
  ASSUME NEW h \in BOOLEAN, NEW g, PiecesInSlots(h, g), NEW width \in Nat, NEW rs,
         NEW level \in 1..(DEPTH - 2), NEW frontier, FrontierOK(h, level - 1, rs, width, frontier),
         NEW s \in MidCandidates(PLAN_TREES[h], g, level, frontier),
         NEW child, child = ChildIdx(PLAN_TREES[h], level, frontier, s)
  PROVE  /\ s \in Nat /\ Parent(s) \in DOMAIN frontier
         /\ child \in DOMAIN PLAN_TREES[h][level]
         /\ child \in ChildRange(PLAN_TREES[h][level - 1][frontier[Parent(s)].node])
         /\ g[PLAN_TREES[h][level][child].slot] \in Types
         /\ s % MAX_PLACEMENTS
              \in 0..(n_theoretical_placements(g[PLAN_TREES[h][level][child].slot]) - 1)
<1> DEFINE tree == PLAN_TREES[h]
           stride == MAX_CHILD_MID * MAX_PLACEMENTS
           t == g[tree[level][child].slot]
<1>1. /\ s \in MidSlots(frontier)
      /\ child < tree[level - 1][frontier[Parent(s)].node].childEnd
      /\ s % MAX_PLACEMENTS < n_theoretical_placements(t)
  BY DEF MidCandidates
<1>2. PICK n \in 0..width : DOMAIN frontier = 0..(n - 1)
  BY DEF FrontierOK
<1>3. Cardinality(DOMAIN frontier) = n
  <2>1. 0 \in Int /\ n - 1 \in Int
    BY <1>2
  <2>2. Cardinality(0..(n - 1)) = n
    BY <1>2, <2>1, FS_Interval
  <2>3. QED
    BY <1>2, <2>2
<1>4. stride \in Nat \ {0} /\ n * MAX_CHILD_MID * MAX_PLACEMENTS = n * stride /\ n \in Nat
  <2>1. MAX_CHILD_MID \in {1, 2} /\ MAX_PLACEMENTS \in Nat \ {0}
    BY Strides
  <2>2. QED
    BY <1>2, <2>1
<1>5. s \in Nat /\ s < n * stride
  BY <1>1, <1>3, <1>4 DEF MidSlots
<1>6. Parent(s) \in DOMAIN frontier
  <2>1. Parent(s) = s \div stride
    BY DEF Parent
  <2> HIDE DEF stride
  <2>2. s \div stride \in Nat /\ s \div stride < n
    BY <1>4, <1>5, Division
  <2>3. QED
    BY <1>2, <2>1, <2>2
<1>7. /\ child \in DOMAIN tree[level]
      /\ child \in ChildRange(tree[level - 1][frontier[Parent(s)].node])
  <2>1. level - 1 \in Levels /\ (level - 1) + 1 \in Levels /\ (level - 1) + 1 = level
    BY DepthAssumption DEF Levels
  <2>2. PICK node : node = tree[level - 1][frontier[Parent(s)].node]
    OBVIOUS
  <2>3. frontier[Parent(s)].node \in DOMAIN PLAN_TREES[h][level - 1]
    BY <1>6 DEF FrontierOK, NodeOK
  <2>4. /\ node.childBegin \in Nat /\ node.childEnd = node.childBegin + 2
        /\ ChildRange(node) \subseteq DOMAIN PLAN_TREES[h][level]
    BY <2>1, <2>2, <2>3, NodesOfTheTree
  <2> DEFINE offset == (s \div MAX_PLACEMENTS) % MAX_CHILD_MID
  <2>5. offset \in Nat
    <3>1. MAX_PLACEMENTS \in Nat \ {0} /\ MAX_CHILD_MID \in {1, 2}
      BY Strides
    <3>2. s \div MAX_PLACEMENTS \in Nat
      BY <1>5, <3>1, Division
    <3>3. QED
      BY <3>1, <3>2
  <2>6. child = node.childBegin + offset
    BY <2>2 DEF ChildIdx
  <2> HIDE DEF offset
  <2>7. child \in node.childBegin..(node.childEnd - 1)
    <3>1. child < node.childEnd
      BY <1>1, <2>2
    <3>2. PICK first \in Nat : first = node.childBegin
      BY <2>4
    <3>3. child = first + offset /\ child < first + 2 /\ node.childEnd = first + 2
      BY <2>4, <2>6, <3>1, <3>2
    <3>4. child \in first..((first + 2) - 1)
      BY <2>5, <3>3
    <3>5. QED
      BY <3>2, <3>3, <3>4
  <2>8. QED
    BY <2>2, <2>4, <2>7 DEF ChildRange
<1>8. t \in Types
  <2>1. level \in Levels
    BY DepthAssumption DEF Levels
  <2>2. QED
    BY <1>7, <2>1, NodePiece
<1> HIDE DEF t, stride
<1>9. s % MAX_PLACEMENTS \in 0..(n_theoretical_placements(t) - 1)
  <2>1. MAX_PLACEMENTS \in Nat \ {0} /\ n_theoretical_placements(t) \in Nat
    BY <1>8, Strides, TableSlices
  <2>2. s % MAX_PLACEMENTS \in Nat
    BY <1>5, <2>1
  <2>3. QED
    BY <1>1, <2>1, <2>2 DEF t
<1>10. QED
  BY <1>5, <1>6, <1>7, <1>8, <1>9 DEF t

\* What a candidate of a middle level does.
LEMMA MidStepped ==
  ASSUME NEW h \in BOOLEAN, NEW g, PiecesInSlots(h, g), NEW width \in Nat, NEW rs,
         NEW level \in 1..(DEPTH - 2), NEW frontier, FrontierOK(h, level - 1, rs, width, frontier),
         NEW s \in MidCandidates(PLAN_TREES[h], g, level, frontier),
         NEW step, step = MidStep(PLAN_TREES[h], g, level, frontier, s)
  PROVE  /\ step.legal \in BOOLEAN
         /\ step.board \in Boards /\ step.clears \in [1..BLOCKS -> Nat]
<1>1. PICK child : child = ChildIdx(PLAN_TREES[h], level, frontier, s)
  OBVIOUS
<1>2. PICK t : t = g[PLAN_TREES[h][level][child].slot]
  OBVIOUS
<1>3. PICK i : i = s % MAX_PLACEMENTS
  OBVIOUS
<1>4. PICK parent : parent = frontier[Parent(s)]
  OBVIOUS
<1>5. t \in Types /\ i \in 0..(n_theoretical_placements(t) - 1) /\ Parent(s) \in DOMAIN frontier
  BY <1>1, <1>2, <1>3, MidIndices
<1>6. parent.board \in Boards /\ parent.clears \in [1..BLOCKS -> Nat]
  BY <1>4, <1>5 DEF FrontierOK, NodeOK
<1>7. step = apply(parent.board, parent.clears, t, nth_placement(t, i))
  BY <1>1, <1>2, <1>3, <1>4 DEF MidStep
<1>8. QED
  BY <1>5, <1>6, <1>7, AppliedBoard, ZenonT(60)

\* The scores of a middle level.
LEMMA MidScores ==
  ASSUME ScoresAreNumbers, NEW m \in Models,
         NEW h \in BOOLEAN, NEW g, PiecesInSlots(h, g), NEW width \in Nat, NEW rs,
         NEW level \in 1..(DEPTH - 2), NEW frontier, FrontierOK(h, level - 1, rs, width, frontier),
         NEW scores, scores = score_mid_level(PLAN_TREES[h], g, level, frontier, m)
  PROVE  /\ scores \in SUBSET Keys /\ IsFiniteSet(scores)
         /\ \A c \in scores : c.slot \in MidCandidates(PLAN_TREES[h], g, level, frontier)
<1> DEFINE tree == PLAN_TREES[h]
           R == MidCandidates(tree, g, level, frontier)
           f == [s \in R |-> [slot |-> s,
                              node |-> tree[level][ChildIdx(tree, level, frontier, s)],
                              step |-> MidStep(tree, g, level, frontier, s)]]
           C == {f[s] : s \in R}
<1>1. scores = Scored(m, g, C)
  BY DEF score_mid_level
<1>2. IsFiniteSet(R)
  <2>1. PICK n \in 0..width : DOMAIN frontier = 0..(n - 1)
    BY DEF FrontierOK
  <2>2. Cardinality(DOMAIN frontier) \in Nat
    <3>1. 0 \in Int /\ n - 1 \in Int
      BY <2>1
    <3>2. IsFiniteSet(0..(n - 1))
      BY <3>1, FS_Interval
    <3>3. QED
      BY <2>1, <3>2, FS_CardinalityType
  <2> DEFINE N == Cardinality(DOMAIN frontier) * MAX_CHILD_MID * MAX_PLACEMENTS - 1
  <2>3. N \in Int
    <3> DEFINE card == Cardinality(DOMAIN frontier)
    <3> HIDE DEF card
    <3>1. card \in Nat /\ MAX_CHILD_MID \in Nat /\ MAX_PLACEMENTS \in Nat
      BY <2>2, Strides DEF card
    <3>2. card * MAX_CHILD_MID * MAX_PLACEMENTS - 1 \in Int
      BY <3>1
    <3>3. QED
      BY <3>2 DEF card
  <2>4. R \in SUBSET (0..N)
    BY DEF MidCandidates, MidSlots
  <2> HIDE DEF N, R
  <2>5. IsFiniteSet(0..N)
    BY <2>3, FS_Interval
  <2>6. QED
    BY <2>4, <2>5, FS_Subset
<1>3. ASSUME NEW s \in R
      PROVE  CandidateOK(f[s]) /\ f[s].slot = s
  <2>1. s \in Int
    BY MidIndices
  <2>2. f[s].slot = s /\ f[s].step = MidStep(tree, g, level, frontier, s)
    OBVIOUS
  <2>3. PICK step : step = MidStep(tree, g, level, frontier, s)
    OBVIOUS
  <2>4. step.legal \in BOOLEAN /\ step.board \in Boards /\ step.clears \in [1..BLOCKS -> Nat]
    BY <2>3, MidStepped
  <2> HIDE DEF f, R
  <2>5. QED
    BY <2>1, <2>2, <2>3, <2>4 DEF CandidateOK
<1> HIDE DEF f, R
<1>4. IsFiniteSet(C)
  BY <1>2, ImageIsFinite
<1>5. \A c \in C : CandidateOK(c)
  BY <1>3
<1>6. /\ Scored(m, g, C) \in SUBSET Keys /\ IsFiniteSet(Scored(m, g, C))
      /\ \A k \in Scored(m, g, C) : \E c \in C : c.slot = k.slot
  <2> HIDE DEF C
  <2>1. QED
    BY <1>4, <1>5, ScoredKeys
<1>7. QED
  BY <1>1, <1>3, <1>6 DEF R

\* The frontier of a middle level.
LEMMA AdvancedFrontier ==
  ASSUME NEW h \in BOOLEAN, NEW g, PiecesInSlots(h, g), NEW width \in Nat, NEW rs,
         NEW level \in 1..(DEPTH - 2), NEW frontier, FrontierOK(h, level - 1, rs, width, frontier),
         NEW w \in Nat, NEW top, \E n \in 0..w : DOMAIN top = 0..(n - 1),
         \A j \in DOMAIN top :
           top[j] \in Keys /\ top[j].slot \in MidCandidates(PLAN_TREES[h], g, level, frontier),
         NEW next, next = advance_frontier(PLAN_TREES[h], g, level, frontier, top)
  PROVE  FrontierOK(h, level, rs, w, next) /\ DOMAIN next = DOMAIN top
<1>1. DOMAIN next = DOMAIN top
  BY DEF advance_frontier
<1>2. ASSUME NEW j \in DOMAIN top
      PROVE  NodeOK(h, level, rs, next[j])
  <2>1. PICK s : s = top[j].slot
    OBVIOUS
  <2>2. PICK step : step = MidStep(PLAN_TREES[h], g, level, frontier, s)
    OBVIOUS
  <2>3. PICK child : child = ChildIdx(PLAN_TREES[h], level, frontier, s)
    OBVIOUS
  <2>4. s \in MidCandidates(PLAN_TREES[h], g, level, frontier) /\ top[j].score \in Int
    BY <2>1 DEF Keys
  <2>5. child \in DOMAIN PLAN_TREES[h][level] /\ Parent(s) \in DOMAIN frontier
    BY <2>3, <2>4, MidIndices
  <2>6. step.board \in Boards /\ step.clears \in [1..BLOCKS -> Nat]
    BY <2>2, <2>4, MidStepped
  <2>7. frontier[Parent(s)].rootRank \in DOMAIN rs
    BY <2>5 DEF FrontierOK, NodeOK
  <2>8. next[j] = [board |-> step.board, clears |-> step.clears, score |-> top[j].score,
                   node |-> child, rootRank |-> frontier[Parent(s)].rootRank]
    BY <2>1, <2>2, <2>3 DEF advance_frontier
  <2>9. QED
    BY <2>4, <2>5, <2>6, <2>7, <2>8 DEF NodeOK
<1>3. QED
  BY <1>1, <1>2 DEF FrontierOK

\* Dead ends: a frontier with no continuation at all offers all its nodes.
LEMMA FallbackOffers ==
  ASSUME NEW h \in BOOLEAN, NEW level, NEW width \in Nat,
         NEW rs, \A r \in DOMAIN rs : r \in Nat,
         NEW frontier, FrontierOK(h, level, rs, width, frontier),
         NEW widths \in BeamWidths, NEW scores,
         NEW S, S = Fallbacks(widths, frontier, scores)
  PROVE  /\ OffersOK(widths, rs, S)
         /\ scores = {} /\ 0 \in DOMAIN frontier => S # {}
<1> DEFINE D == {k \in DOMAIN frontier : \A c \in scores : Parent(c.slot) # k}
           f == [k \in D |-> [score |-> frontier[k].score,
                              slot |-> leaf_orders(widths) + frontier[k].rootRank]]
<1>1. S = {f[k] : k \in D}
  BY DEF Fallbacks
<1>2. leaf_orders(widths) \in Nat
  <2>1. 0 \in 0..(DEPTH - 2)
    BY DepthAssumption
  <2>2. QED
    BY <2>1, Widths
<1>3. ASSUME NEW k \in D
      PROVE  /\ f[k] \in Keys /\ f[k].slot >= leaf_orders(widths)
             /\ f[k].slot - leaf_orders(widths) \in DOMAIN rs
  <2>1. frontier[k].score \in Int /\ frontier[k].rootRank \in DOMAIN rs
    BY DEF FrontierOK, NodeOK
  <2>2. PICK rank \in Nat : rank = frontier[k].rootRank
    BY <2>1
  <2>3. f[k] = [score |-> frontier[k].score, slot |-> leaf_orders(widths) + rank]
    BY <2>2
  <2>4. (leaf_orders(widths) + rank) - leaf_orders(widths) = rank
    BY <1>2
  <2> HIDE DEF f, D
  <2>5. QED
    BY <1>2, <2>1, <2>2, <2>3, <2>4 DEF Keys
<1>4. IsFiniteSet(D)
  <2>1. PICK n \in 0..width : DOMAIN frontier = 0..(n - 1)
    BY DEF FrontierOK
  <2>2. 0 \in Int /\ n - 1 \in Int
    BY <2>1
  <2>3. IsFiniteSet(0..(n - 1))
    BY <2>2, FS_Interval
  <2>4. QED
    BY <2>1, <2>3, FS_Subset
<1>5. scores = {} /\ 0 \in DOMAIN frontier => 0 \in D
  OBVIOUS
<1> HIDE DEF f, D
<1>6. IsFiniteSet(S)
  BY <1>1, <1>4, ImageIsFinite
<1>7. QED
  BY <1>1, <1>3, <1>5, <1>6 DEF OffersOK

\* The orders of the leaves under kept node j decode to j.
LEMMA LeafOrder ==
  ASSUME NEW j \in Nat, NEW c \in {0, 1}, NEW i \in 0..(MAX_PLACEMENTS - 1),
         NEW width \in Nat, j < width,
         NEW order, order = (j * MAX_LAST + c) * MAX_PLACEMENTS + i
  PROVE  /\ order \in Nat /\ order < width * MAX_LAST * MAX_PLACEMENTS
         /\ order \div (MAX_LAST * MAX_PLACEMENTS) = j
<1>1. MAX_LAST = 2
  BY Strides
<1>2. PICK m \in Nat \ {0} : m = MAX_PLACEMENTS
  BY Strides
<1>3. PICK q \in Nat \ {0} : q = MAX_LAST * MAX_PLACEMENTS /\ q = 2 * m
  <2>1. 2 * m \in Nat \ {0} /\ 2 * m = MAX_LAST * MAX_PLACEMENTS
    BY <1>1, <1>2
  <2>2. QED
    BY <2>1
<1>4. PICK r \in 0..(q - 1) : r = c * m + i
  <2>1. i \in Nat /\ i < m
    BY <1>2
  <2>2. c * m \in {0, m}
    BY <1>2
  <2>3. QED
    BY <1>2, <1>3, <2>1, <2>2
<1>5. order = j * q + r
  <2>1. order = (j * 2 + c) * m + i
    BY <1>1, <1>2
  <2>2. (j * 2 + c) * m = j * (2 * m) + c * m
    BY <1>2
  <2>3. QED
    BY <1>2, <1>3, <1>4, <2>1, <2>2
<1>6. order \div q = j
  BY <1>5
<1>7. order \in Nat /\ order < width * q
  <2>1. j * q \in Nat /\ width * q \in Nat
    BY <1>3
  <2>2. j * q + q <= width * q
    <3>1. j + 1 <= width
      OBVIOUS
    <3>2. (j + 1) * q <= width * q
      BY <1>3, <3>1
    <3>3. QED
      BY <1>3, <3>2
  <2>3. QED
    BY <1>3, <1>4, <1>5, <2>1, <2>2
<1>8. width * MAX_LAST * MAX_PLACEMENTS = width * q
  <2>1. width * MAX_LAST * MAX_PLACEMENTS = (width * 2) * m
    BY <1>1, <1>2
  <2>2. QED
    BY <1>2, <1>3, <2>1
<1>9. QED
  BY <1>3, <1>6, <1>7, <1>8

\* The leaves of one kept node and one hold decision, or the node itself.
LEMMA LeavesOfChild ==
  ASSUME ScoresAreNumbers, NEW m \in Models, NEW widths \in BeamWidths,
         NEW h \in BOOLEAN, NEW g, PiecesInSlots(h, g), NEW rs,
         NEW frontier, FrontierOK(h, DEPTH - 2, rs, Width(widths, DEPTH - 2), frontier),
         NEW j \in DOMAIN frontier,
         NEW child \in ChildRange(PLAN_TREES[h][DEPTH - 2][frontier[j].node]),
         NEW S, S = LeavesOf(PLAN_TREES[h], g, frontier, m, j, child)
  PROVE  /\ S \in SUBSET Keys /\ IsFiniteSet(S) /\ S # {}
         /\ \A k \in S : /\ k.slot < leaf_orders(widths)
                         /\ k.slot \div (MAX_LAST * MAX_PLACEMENTS) = j
<1> DEFINE tree == PLAN_TREES[h]
           width == Width(widths, DEPTH - 2)
<1>1. PICK lnode : lnode = tree[DEPTH - 2][frontier[j].node]
  OBVIOUS
<1>2. PICK cnode : cnode = tree[DEPTH - 1][child]
  OBVIOUS
<1>3. PICK t : t = g[cnode.slot]
  OBVIOUS
<1>4. PICK base : base = (j * MAX_LAST + child - lnode.childBegin) * MAX_PLACEMENTS
  OBVIOUS
<1>5. DEPTH - 2 \in Levels /\ DEPTH - 1 \in Levels /\ (DEPTH - 2) + 1 = DEPTH - 1
  BY DepthAssumption DEF Levels
<1>6. width \in Nat
  <2>1. DEPTH - 2 \in 0..(DEPTH - 2)
    BY DepthAssumption
  <2>2. QED
    BY <2>1, Widths
<1>7. j \in Nat /\ j < width
  <2>1. PICK n \in 0..width : DOMAIN frontier = 0..(n - 1)
    BY DEF FrontierOK
  <2> HIDE DEF width
  <2>2. QED
    BY <1>6, <2>1
<1>8. /\ lnode.childBegin \in Nat /\ lnode.childEnd = lnode.childBegin + 2
      /\ ChildRange(lnode) \subseteq DOMAIN tree[DEPTH - 1]
  <2>1. frontier[j].node \in DOMAIN PLAN_TREES[h][DEPTH - 2]
    BY DEF FrontierOK, NodeOK
  <2>2. QED
    BY <1>1, <1>5, <2>1, NodesOfTheTree
<1>9. child \in DOMAIN tree[DEPTH - 1]
  BY <1>1, <1>8
<1>10. t \in Types
  BY <1>2, <1>3, <1>5, <1>9, NodePiece
<1>11. PICK c \in {0, 1} : base = (j * MAX_LAST + c) * MAX_PLACEMENTS
  <2>1. PICK first \in Nat : first = lnode.childBegin
    BY <1>8
  <2>2. child \in first..((first + 2) - 1)
    BY <1>1, <1>8, <2>1 DEF ChildRange
  <2>3. child - first \in {0, 1} /\ child \in Int
    BY <2>2
  <2>4. MAX_LAST = 2
    BY Strides
  <2>5. j * MAX_LAST + child - first = j * MAX_LAST + (child - first)
    BY <1>7, <2>3, <2>4
  <2>6. QED
    BY <1>4, <2>1, <2>3, <2>5
<1>12. PICK n \in 1..MAX_PLACEMENTS : n = n_theoretical_placements(t)
  BY <1>10, Strides
<1>13. MAX_PLACEMENTS \in Nat \ {0}
  BY Strides
<1>14. ASSUME NEW i \in 0..(MAX_PLACEMENTS - 1)
       PROVE  /\ base + i \in Nat /\ base + i < leaf_orders(widths)
              /\ (base + i) \div (MAX_LAST * MAX_PLACEMENTS) = j
  <2>1. leaf_orders(widths) = width * MAX_LAST * MAX_PLACEMENTS
    BY DEF leaf_orders
  <2> HIDE DEF width
  <2>2. QED
    BY <1>6, <1>7, <1>11, <2>1, LeafOrder
<1>15. base \in Int
  <2>1. MAX_LAST = 2
    BY Strides
  <2>2. (j * 2 + c) * MAX_PLACEMENTS \in Int
    <3>1. PICK a \in Int, M \in Int : a = j * 2 + c /\ M = MAX_PLACEMENTS
      BY <1>7, <1>13
    <3>2. a * M \in Int
      OBVIOUS
    <3>3. QED
      BY <3>1, <3>2
  <2>3. QED
    BY <1>11, <2>1, <2>2
<1> DEFINE R == base..(base + n - 1)
           f == [o \in R |-> [slot |-> o, node |-> cnode, step |-> LeafStep(frontier[j], t, o - base)]]
           C == {f[o] : o \in R}
           leaves == Scored(m, g, C)
           own == [slot |-> base, score |-> frontier[j].score]
<1>16. S = IF leaves = {} THEN {own} ELSE leaves
  <2>1. leaves = Scored(m, g, {[slot |-> o, node |-> cnode, step |-> LeafStep(frontier[j], t, o - base)] :
                                 o \in base..(base + n - 1)})
    OBVIOUS
  <2> HIDE DEF leaves
  <2>2. QED
    BY <1>1, <1>2, <1>3, <1>4, <1>12, <2>1, ZenonT(40) DEF LeavesOf
<1>17. IsFiniteSet(R)
  <2>1. base \in Int /\ base + n - 1 \in Int
    BY <1>15
  <2>2. QED
    BY <2>1, FS_Interval
<1>18. ASSUME NEW o \in R
       PROVE  CandidateOK(f[o]) /\ f[o].slot = o
  <2>1. o \in Int /\ o - base \in 0..(n - 1)
    BY <1>15
  <2>2. PICK step : step = LeafStep(frontier[j], t, o - base)
    OBVIOUS
  <2>3. frontier[j].board \in Boards /\ frontier[j].clears \in [1..BLOCKS -> Nat]
    BY DEF FrontierOK, NodeOK
  <2>4. step = apply(frontier[j].board, frontier[j].clears, t, nth_placement(t, o - base))
    BY <2>2 DEF LeafStep
  <2>5. o - base \in 0..(n_theoretical_placements(t) - 1)
    BY <1>12, <2>1
  <2>6. step.legal \in BOOLEAN /\ step.board \in Boards /\ step.clears \in [1..BLOCKS -> Nat]
    BY <1>10, <2>3, <2>4, <2>5, AppliedBoard
  <2>7. f[o].slot = o /\ f[o].step = step
    BY <2>2
  <2> HIDE DEF f, R
  <2>8. QED
    BY <2>1, <2>6, <2>7 DEF CandidateOK
<1>19. own \in Keys /\ own.slot = base
  <2>1. frontier[j].score \in Int
    BY DEF FrontierOK, NodeOK
  <2>2. QED
    BY <1>15, <2>1 DEF Keys
<1>20. \A o \in R : o \in Int /\ o - base \in 0..(MAX_PLACEMENTS - 1) /\ base + (o - base) = o
  BY <1>13, <1>15
<1>21. /\ base < leaf_orders(widths) /\ base \div (MAX_LAST * MAX_PLACEMENTS) = j
       /\ \A o \in R : o < leaf_orders(widths) /\ o \div (MAX_LAST * MAX_PLACEMENTS) = j
  <2>1. 0 \in 0..(MAX_PLACEMENTS - 1) /\ base + 0 = base
    BY <1>13, <1>15
  <2> HIDE DEF R
  <2>2. base < leaf_orders(widths) /\ base \div (MAX_LAST * MAX_PLACEMENTS) = j
    BY <1>14, <2>1
  <2>3. ASSUME NEW o \in R
        PROVE  o < leaf_orders(widths) /\ o \div (MAX_LAST * MAX_PLACEMENTS) = j
    <3>1. o - base \in 0..(MAX_PLACEMENTS - 1) /\ base + (o - base) = o
      BY <1>20
    <3>2. PICK i \in 0..(MAX_PLACEMENTS - 1) : base + i = o
      BY <3>1
    <3>3. QED
      BY <1>14, <3>2
  <2>4. QED
    BY <2>2, <2>3
<1> HIDE DEF f, R
<1>22. IsFiniteSet(C) /\ \A cand \in C : CandidateOK(cand)
  <2>1. IsFiniteSet(C)
    BY <1>17, ImageIsFinite
  <2>2. QED
    BY <1>18, <2>1
<1>23. /\ leaves \in SUBSET Keys /\ IsFiniteSet(leaves)
       /\ \A k \in leaves : k.slot \in R
  <2>1. \A cand \in C : cand.slot \in R
    BY <1>18
  <2> HIDE DEF C
  <2>2. QED
    BY <1>22, <2>1, ScoredKeys
<1>24. IsFiniteSet({own})
  BY FS_Singleton
<1> HIDE DEF leaves, own
<1>25. QED
  BY <1>16, <1>19, <1>21, <1>23, <1>24

\* The leaves: each decodes to the kept node it continues, which offers one at
\* least.
LEMMA LeafOffers ==
  ASSUME ScoresAreNumbers, NEW m \in Models, NEW widths \in BeamWidths,
         NEW h \in BOOLEAN, NEW g, PiecesInSlots(h, g), NEW rs,
         NEW frontier, FrontierOK(h, DEPTH - 2, rs, Width(widths, DEPTH - 2), frontier),
         NEW S, S = expand_leaves(PLAN_TREES[h], g, frontier, m)
  PROVE  /\ S \in SUBSET Keys /\ IsFiniteSet(S)
         /\ DOMAIN frontier # {} => S # {}
         /\ \A k \in S : /\ k.slot < leaf_orders(widths)
                         /\ k.slot \div (MAX_LAST * MAX_PLACEMENTS) \in DOMAIN frontier
<1> DEFINE tree == PLAN_TREES[h]
           children(j) == ChildRange(tree[DEPTH - 2][frontier[j].node])
           of(j, child) == LeavesOf(tree, g, frontier, m, j, child)
           under == [j \in DOMAIN frontier |-> UNION {of(j, child) : child \in children(j)}]
           F == {under[j] : j \in DOMAIN frontier}
<1>1. S = UNION F
  BY DEF expand_leaves
<1>2. ASSUME NEW j \in DOMAIN frontier, NEW child \in children(j)
      PROVE  /\ of(j, child) \in SUBSET Keys /\ IsFiniteSet(of(j, child)) /\ of(j, child) # {}
             /\ \A k \in of(j, child) : /\ k.slot < leaf_orders(widths)
                                        /\ k.slot \div (MAX_LAST * MAX_PLACEMENTS) = j
  BY LeavesOfChild
<1>3. ASSUME NEW j \in DOMAIN frontier
      PROVE  \E first \in Nat : children(j) = first..((first + 2) - 1)
  <2>1. DEPTH - 2 \in Levels /\ (DEPTH - 2) + 1 \in Levels
    BY DepthAssumption DEF Levels
  <2>2. frontier[j].node \in DOMAIN PLAN_TREES[h][DEPTH - 2]
    BY DEF FrontierOK, NodeOK
  <2>3. PICK lnode : lnode = tree[DEPTH - 2][frontier[j].node]
    OBVIOUS
  <2>4. lnode.childBegin \in Nat /\ lnode.childEnd = lnode.childBegin + 2
    BY <2>1, <2>2, <2>3, NodesOfTheTree
  <2>5. children(j) = lnode.childBegin..(lnode.childEnd - 1)
    BY <2>3 DEF ChildRange
  <2> HIDE DEF children
  <2>6. QED
    BY <2>4, <2>5
<1> HIDE DEF of, children
<1>4. ASSUME NEW j \in DOMAIN frontier
      PROVE  /\ under[j] \in SUBSET Keys /\ IsFiniteSet(under[j]) /\ under[j] # {}
             /\ \A k \in under[j] : /\ k.slot < leaf_orders(widths)
                                    /\ k.slot \div (MAX_LAST * MAX_PLACEMENTS) \in DOMAIN frontier
  <2>1. PICK first \in Nat : children(j) = first..((first + 2) - 1)
    BY <1>3
  <2>2. first \in children(j) /\ IsFiniteSet(children(j))
    <3>1. first \in Int /\ (first + 2) - 1 \in Int
      OBVIOUS
    <3>2. IsFiniteSet(first..((first + 2) - 1))
      BY <3>1, FS_Interval
    <3>3. first \in first..((first + 2) - 1)
      OBVIOUS
    <3>4. QED
      BY <2>1, <3>2, <3>3
  <2> DEFINE leavesOf == [child \in children(j) |-> of(j, child)]
             sets == {leavesOf[child] : child \in children(j)}
  <2>3. under[j] = UNION sets
    OBVIOUS
  <2>4. \A child \in children(j) : leavesOf[child] = of(j, child)
    OBVIOUS
  <2> HIDE DEF leavesOf, under
  <2>5. IsFiniteSet(sets)
    BY <2>2, ImageIsFinite
  <2>6. \A s \in sets : IsFiniteSet(s)
    BY <1>2, <2>4
  <2>7. IsFiniteSet(under[j])
    <3> HIDE DEF sets
    <3>1. QED
      BY <2>3, <2>5, <2>6, FS_UNION
  <2>8. under[j] # {}
    <3>1. of(j, first) # {} /\ of(j, first) \in sets
      BY <1>2, <2>2, <2>4
    <3> HIDE DEF sets
    <3>2. QED
      BY <2>3, <3>1
  <2>9. under[j] \in SUBSET Keys
    BY <1>2, <2>3, <2>4
  <2>10. \A k \in under[j] : /\ k.slot < leaf_orders(widths)
                             /\ k.slot \div (MAX_LAST * MAX_PLACEMENTS) = j
    BY <1>2, <2>3, <2>4
  <2>11. QED
    BY <2>7, <2>8, <2>9, <2>10
<1> HIDE DEF under
<1>5. IsFiniteSet(DOMAIN frontier)
  <2>1. PICK n \in 0..Width(widths, DEPTH - 2) : DOMAIN frontier = 0..(n - 1)
    BY DEF FrontierOK
  <2>2. Width(widths, DEPTH - 2) \in Nat
    <3>1. DEPTH - 2 \in 0..(DEPTH - 2)
      BY DepthAssumption
    <3>2. QED
      BY <3>1, Widths
  <2>3. 0 \in Int /\ n - 1 \in Int
    BY <2>1, <2>2
  <2>4. IsFiniteSet(0..(n - 1))
    BY <2>3, FS_Interval
  <2>5. QED
    BY <2>1, <2>4
<1>6. IsFiniteSet(F)
  BY <1>5, ImageIsFinite
<1>7. \A s \in F : IsFiniteSet(s)
  BY <1>4
<1>8. IsFiniteSet(S)
  <2> HIDE DEF F
  <2>1. QED
    BY <1>1, <1>6, <1>7, FS_UNION
<1>9. QED
  BY <1>1, <1>4, <1>8
-----------------------------------------------------------------------------
(* The game that the search plays. *)

NoHeld == held = NO_PIECE

\* While the stages run: legal roots, a frontier and offers that descend from
\* them, and something for the leaves to choose from.
Searching ==
  /\ layer \in 0..(DEPTH - 2)
  /\ RootsOK(NoHeld, Slots, board, Width(ks, 0), roots)
  /\ FrontierOK(NoHeld, layer, roots, Width(ks, layer), kept)
  /\ OffersOK(ks, roots, best)
  /\ best # {} \/ 0 \in DOMAIN kept

\* After the search: the move is that of a legal root.
Found ==
  \E s : LegalRoot(NoHeld, Slots, board, s) /\ lastMove.move = RootMove(Tree, Slots, s)

\* After the hold: the move fits for the piece now in hand.
Placeable ==
  /\ lastMove.move.orientation \in Orientation /\ lastMove.move.x \in WindowXs
  /\ Available(board, CurrentPiece, lastMove.move.orientation, <<lastMove.move.x, 0>>)

\* The inductive invariant of an AI's game.
AiIInv ==
  /\ IInv
  /\ model \in Models /\ ks \in BeamWidths
  /\ stage \in {"idle", "search", "hold", "place"}
  /\ stage = "search" => Searching
  /\ stage = "hold" => Found
  /\ stage = "place" => Placeable

\* The pieces gathered for a search.
LEMMA GatheredSlots ==
  ASSUME IInv
  PROVE  /\ NoHeld \in BOOLEAN /\ Tree = PLAN_TREES[NoHeld]
         /\ PiecesInSlots(NoHeld, Slots) /\ board \in Boards
         /\ Slots[win_slot(0)] = queue[1] /\ Slots[win_slot(1)] = queue[2]
         /\ Slots[SEQ_HELD_SLOT] = held
<1>1. /\ queue \in [1..PIECE_QUEUE_SIZE -> Types] /\ held \in Types \cup {NO_PIECE}
      /\ board \in Boards
  BY DEF IInv, TypeOK
<1>2. DEPTH \in 2..4 /\ PIECE_QUEUE_SIZE \in Nat /\ DEPTH + 1 <= PIECE_QUEUE_SIZE
  BY DepthAssumption, LookaheadAssumption, ConstantFacts
<1>3. Slots = [s \in 0..(DEPTH + 1) |-> IF s = 0 THEN held ELSE queue[s]]
  <2>1. NUM_SLOTS - 1 = DEPTH + 1
    BY <1>2 DEF NUM_SLOTS
  <2>2. QED
    BY <2>1 DEF Slots, gather_slots, SEQ_HELD_SLOT
<1>4. ASSUME NEW s \in 0..(NUM_SLOTS - 1), NoHeld => s # SEQ_HELD_SLOT
      PROVE  Slots[s] \in Types
  <2>1. s \in 0..(DEPTH + 1)
    BY <1>2 DEF NUM_SLOTS
  <2>2. CASE s = 0
    BY <1>1, <1>3, <1>4, <2>1, <2>2 DEF NoHeld, SEQ_HELD_SLOT
  <2>3. CASE s # 0
    <3>1. s \in 1..PIECE_QUEUE_SIZE
      BY <1>2, <2>1, <2>3
    <3>2. QED
      BY <1>1, <1>3, <2>1, <2>3, <3>1
  <2>4. QED
    BY <2>2, <2>3
<1>5. Slots[1] = queue[1] /\ Slots[2] = queue[2] /\ Slots[0] = held
  BY <1>2, <1>3
<1>6. QED
  BY <1>1, <1>4, <1>5 DEF NoHeld, Tree, PiecesInSlots, win_slot, SEQ_HELD_SLOT

\* What a legal root plays: a placement that fits the piece of its node.
LEMMA RootFits ==
  ASSUME NEW h \in BOOLEAN, NEW g, PiecesInSlots(h, g), NEW b \in Boards,
         NEW s, LegalRoot(h, g, b, s), NEW move, move = RootMove(PLAN_TREES[h], g, s)
  PROVE  /\ move.orientation \in Orientation /\ move.x \in WindowXs
         /\ move.hold = RootNode(PLAN_TREES[h], s).rootHold
         /\ s \div MAX_PLACEMENTS \in DOMAIN PLAN_TREES[h][0]
         /\ g[RootNode(PLAN_TREES[h], s).slot] \in Types
         /\ Available(b, g[RootNode(PLAN_TREES[h], s).slot], move.orientation, <<move.x, 0>>)
<1>1. s \in RootCandidates(PLAN_TREES[h], g)
  BY DEF LegalRoot
<1>2. PICK t : t = g[RootNode(PLAN_TREES[h], s).slot]
  OBVIOUS
<1>3. PICK d : d = nth_placement(t, s % MAX_PLACEMENTS)
  OBVIOUS
<1>4. /\ move.orientation = d.orientation /\ move.x = d.x
      /\ move.hold = RootNode(PLAN_TREES[h], s).rootHold
  BY <1>2, <1>3 DEF RootMove
<1>5. /\ t \in Types /\ s % MAX_PLACEMENTS \in 0..(n_theoretical_placements(t) - 1)
      /\ s \div MAX_PLACEMENTS \in DOMAIN PLAN_TREES[h][0]
  BY <1>1, <1>2, RootIndices
<1>6. /\ d.orientation \in Orientation /\ d.x \in Int
      /\ OffsetInBounds(PieceShapeAt(t, d.orientation, d.x), 0)
  BY <1>3, <1>5, TableInBounds
<1>7. Available(b, t, move.orientation, <<move.x, 0>>)
  <2>1. PICK step : step = RootStep(PLAN_TREES[h], g, b, s)
    OBVIOUS
  <2>2. step.legal
    BY <2>1 DEF LegalRoot
  <2>3. step.legal <=> Available(b, t, move.orientation, <<move.x, 0>>)
    BY <1>1, <1>2, <2>1, RootStepped
  <2>4. QED
    BY <2>2, <2>3
<1>8. d.x \in WindowXs
  <2>1. \A blk \in Blocks[t][d.orientation] : d.x + blk[1] \in Columns
    BY <1>6 DEF OffsetInBounds, PieceShapeAt
  <2>2. PICK blk \in Blocks[t][d.orientation] : blk \in Box \X Box
    <3>1. Blocks[t][d.orientation] \subseteq Box \X Box
      BY <1>5, <1>6, BlocksAssumption
    <3>2. Blocks[t][d.orientation] # {}
      BY <1>5, <1>6, PieceShapes, FS_EmptySet DEF BLOCKS
    <3>3. QED
      BY <3>1, <3>2
  <2>3. blk[1] \in 0..3 /\ d.x + blk[1] \in 0..(WIDTH - 1)
    BY <2>1, <2>2 DEF Box, PIECE_WIDTH, Columns
  <2>4. QED
    BY <1>6, <2>3, ConstantFacts DEF WindowXs, PIECE_WIDTH
<1>9. QED
  BY <1>2, <1>4, <1>5, <1>6, <1>7, <1>8

\* A search begins with the best legal roots.
LEMMA SearchBegins ==
  ASSUME ScoresAreNumbers, IInv, model \in Models, ks \in BeamWidths,
         NEW scores, scores = score_roots(Tree, Slots, board, model), scores # {},
         NEW rs, rs = select_top(scores, Width(ks, 0)),
         NEW frontier, frontier = seed_frontier(Tree, Slots, board, rs)
  PROVE  /\ RootsOK(NoHeld, Slots, board, Width(ks, 0), rs)
         /\ FrontierOK(NoHeld, 0, rs, Width(ks, 0), frontier)
         /\ 0 \in DOMAIN frontier
<1>1. PICK h \in BOOLEAN : h = NoHeld
  BY GatheredSlots
<1>2. PICK g : g = Slots
  OBVIOUS
<1>3. PiecesInSlots(h, g) /\ board \in Boards /\ Tree = PLAN_TREES[h]
  BY <1>1, <1>2, GatheredSlots
<1>4. PICK width \in Nat \ {0} : width = Width(ks, 0)
  <2>1. 0 \in 0..(DEPTH - 2)
    BY DepthAssumption
  <2>2. QED
    BY <2>1, Widths
<1>5. /\ scores \in SUBSET Keys /\ IsFiniteSet(scores)
      /\ \A c \in scores : LegalRoot(h, g, board, c.slot)
  BY <1>2, <1>3, RootScores
<1>6. /\ \E n \in 0..width : DOMAIN rs = 0..(n - 1)
      /\ \A r \in DOMAIN rs : rs[r] \in scores
      /\ 0 \in DOMAIN rs
  <2>1. rs = select_top(scores, width)
    BY <1>4
  <2>2. scores \in SUBSET Keys /\ IsFiniteSet(scores)
    BY <1>5
  <2>3. width \in Nat \ {0}
    OBVIOUS
  <2> HIDE DEF Width
  <2>4. QED
    BY <2>1, <2>2, <2>3, TopIsRanked
<1>7. RootsOK(h, g, board, width, rs)
  BY <1>5, <1>6 DEF RootsOK
<1>8. frontier = seed_frontier(PLAN_TREES[h], g, board, rs)
  BY <1>2, <1>3
<1>9. FrontierOK(h, 0, rs, width, frontier) /\ DOMAIN frontier = DOMAIN rs
  BY <1>3, <1>7, <1>8, SeededFrontier
<1>10. QED
  BY <1>1, <1>2, <1>4, <1>6, <1>7, <1>9

\* The roots' ranks are numbers.
LEMMA RootRanks ==
  ASSUME NEW h, NEW g, NEW b, NEW width, NEW rs, RootsOK(h, g, b, width, rs)
  PROVE  \A r \in DOMAIN rs : r \in Nat
<1>1. PICK n \in 0..width : DOMAIN rs = 0..(n - 1)
  BY DEF RootsOK
<1>2. QED
  BY <1>1

\* The best of the offers so far is one of them.
LEMMA BestOffer ==
  ASSUME NEW widths, NEW rs, NEW A, OffersOK(widths, rs, A), NEW B, OffersOK(widths, rs, B),
         NEW best1, best1 = IF A \cup B = {} THEN {} ELSE {BestKey(A \cup B)}
  PROVE  OffersOK(widths, rs, best1) /\ (A \cup B # {} => best1 # {})
<1> DEFINE S == A \cup B
<1>1. S \in SUBSET Keys /\ IsFiniteSet(S)
  BY FS_Union DEF OffersOK
<1>2. \A c \in S : c.slot >= leaf_orders(widths) /\ c.slot - leaf_orders(widths) \in DOMAIN rs
  BY DEF OffersOK
<1>3. best1 = IF S = {} THEN {} ELSE {BestKey(S)}
  OBVIOUS
<1> HIDE DEF S
<1>4. CASE S = {}
  BY <1>3, <1>4, FS_EmptySet DEF OffersOK, S
<1>5. CASE S # {}
  <2>1. BestKey(S) \in S
    BY <1>1, <1>5, BestIsOffered
  <2>2. IsFiniteSet({BestKey(S)})
    BY FS_Singleton
  <2>3. PICK k \in S : k = BestKey(S)
    BY <2>1
  <2>4. best1 = {k} /\ IsFiniteSet({k})
    BY <1>3, <1>5, <2>2, <2>3
  <2>5. QED
    BY <1>1, <1>2, <2>4 DEF OffersOK
<1>6. QED
  BY <1>4, <1>5

\* A middle level keeps what a search is about: when it finds no continuation,
\* it has offers instead.
LEMMA SearchGoesOn ==
  ASSUME ScoresAreNumbers, IInv, model \in Models, ks \in BeamWidths, Searching,
         NEW level, level = layer + 1, layer < DEPTH - 2,
         NEW scores, scores = score_mid_level(Tree, Slots, level, kept, model),
         NEW offers, offers = best \cup Fallbacks(ks, kept, scores),
         NEW next, next = advance_frontier(Tree, Slots, level, kept, select_top(scores, Width(ks, level))),
         NEW best1, best1 = IF offers = {} THEN {} ELSE {BestKey(offers)}
  PROVE  /\ level \in 0..(DEPTH - 2)
         /\ FrontierOK(NoHeld, level, roots, Width(ks, level), next)
         /\ OffersOK(ks, roots, best1)
         /\ best1 # {} \/ 0 \in DOMAIN next
<1>1. PICK h \in BOOLEAN : h = NoHeld
  BY GatheredSlots
<1>2. PICK g : g = Slots
  OBVIOUS
<1>3. PiecesInSlots(h, g) /\ Tree = PLAN_TREES[h]
  BY <1>1, <1>2, GatheredSlots
<1>4. layer \in 0..(DEPTH - 2) /\ level \in 1..(DEPTH - 2) /\ level - 1 = layer /\ level \in 0..(DEPTH - 2)
  BY DepthAssumption DEF Searching
<1>5. PICK w0 \in Nat : w0 = Width(ks, layer)
  BY <1>4, Widths
<1>6. PICK w1 \in Nat \ {0} : w1 = Width(ks, level)
  BY <1>4, Widths
<1>7. FrontierOK(h, level - 1, roots, w0, kept)
  BY <1>1, <1>4, <1>5 DEF Searching
<1>8. /\ scores \in SUBSET Keys /\ IsFiniteSet(scores)
      /\ \A c \in scores : c.slot \in MidCandidates(PLAN_TREES[h], g, level, kept)
  <2>1. scores = score_mid_level(PLAN_TREES[h], g, level, kept, model)
    BY <1>2, <1>3
  <2>2. PICK m \in Models : m = model
    OBVIOUS
  <2>3. level \in 1..(DEPTH - 2)
    BY <1>4
  <2>4. scores = score_mid_level(PLAN_TREES[h], g, level, kept, m)
    BY <2>1, <2>2
  <2>5. QED
    BY <1>3, <1>5, <1>7, <2>3, <2>4, MidScores
<1>9. PICK top : top = select_top(scores, w1)
  OBVIOUS
<1>10. /\ \E n \in 0..w1 : DOMAIN top = 0..(n - 1)
       /\ \A r \in DOMAIN top : top[r] \in scores
       /\ scores # {} => 0 \in DOMAIN top
  <2>1. scores \in SUBSET Keys /\ IsFiniteSet(scores)
    BY <1>8
  <2>2. w1 \in Nat \ {0}
    OBVIOUS
  <2>3. QED
    BY <1>9, <2>1, <2>2, TopIsRanked
<1>11. \A r \in DOMAIN top :
         top[r] \in Keys /\ top[r].slot \in MidCandidates(PLAN_TREES[h], g, level, kept)
  BY <1>8, <1>10
<1>12. next = advance_frontier(PLAN_TREES[h], g, level, kept, top)
  BY <1>2, <1>3, <1>6, <1>9
<1>13. FrontierOK(h, level, roots, w1, next) /\ DOMAIN next = DOMAIN top
  <2>1. level \in 1..(DEPTH - 2) /\ w1 \in Nat
    BY <1>4, <1>6
  <2>2. \E n \in 0..w1 : DOMAIN top = 0..(n - 1)
    BY <1>10
  <2>3. QED
    BY <1>3, <1>5, <1>7, <1>11, <1>12, <2>1, <2>2, AdvancedFrontier
<1>14. \A r \in DOMAIN roots : r \in Nat
  BY RootRanks DEF Searching
<1>15. PICK S : S = Fallbacks(ks, kept, scores)
  OBVIOUS
<1>16. OffersOK(ks, roots, S) /\ (scores = {} /\ 0 \in DOMAIN kept => S # {})
  BY <1>5, <1>7, <1>14, <1>15, FallbackOffers
<1>17. OffersOK(ks, roots, best1) /\ (best \cup S # {} => best1 # {})
  BY <1>15, <1>16, BestOffer DEF Searching
<1>18. best1 # {} \/ 0 \in DOMAIN next
  BY <1>10, <1>13, <1>16, <1>17 DEF Searching
<1>19. QED
  BY <1>1, <1>4, <1>6, <1>13, <1>17, <1>18

\* The best leaf, or dead end, decodes to a legal root.
LEMMA SearchFinds ==
  ASSUME ScoresAreNumbers, IInv, model \in Models, ks \in BeamWidths, Searching, layer = DEPTH - 2,
         NEW offers, offers = best \cup expand_leaves(Tree, Slots, kept, model),
         NEW found, found = decode_move(ks, Tree, Slots, roots, kept, BestKey(offers))
  PROVE  \E s : LegalRoot(NoHeld, Slots, board, s) /\ found.move = RootMove(Tree, Slots, s)
<1>1. PICK h \in BOOLEAN : h = NoHeld
  BY GatheredSlots
<1>2. PICK g : g = Slots
  OBVIOUS
<1>3. PiecesInSlots(h, g) /\ Tree = PLAN_TREES[h]
  BY <1>1, <1>2, GatheredSlots
<1>4. FrontierOK(h, DEPTH - 2, roots, Width(ks, DEPTH - 2), kept)
  BY <1>1 DEF Searching
<1>5. PICK S : S = expand_leaves(Tree, Slots, kept, model)
  OBVIOUS
<1>6. /\ S \in SUBSET Keys /\ IsFiniteSet(S)
      /\ DOMAIN kept # {} => S # {}
      /\ \A k \in S : /\ k.slot < leaf_orders(ks)
                      /\ k.slot \div (MAX_LAST * MAX_PLACEMENTS) \in DOMAIN kept
  <2>1. S = expand_leaves(PLAN_TREES[h], g, kept, model)
    BY <1>2, <1>3, <1>5
  <2>2. QED
    BY <1>3, <1>4, <2>1, LeafOffers
<1>7. /\ best \in SUBSET Keys /\ IsFiniteSet(best)
      /\ \A c \in best : c.slot >= leaf_orders(ks) /\ c.slot - leaf_orders(ks) \in DOMAIN roots
  BY DEF Searching, OffersOK
<1>8. offers \in SUBSET Keys /\ IsFiniteSet(offers) /\ offers # {}
  <2>1. IsFiniteSet(best \cup S)
    BY <1>6, <1>7, FS_Union
  <2>2. best \cup S # {}
    BY <1>6 DEF Searching
  <2>3. QED
    BY <1>5, <1>6, <1>7, <2>1, <2>2
<1>9. PICK key \in offers : key = BestKey(offers)
  BY <1>8, BestIsOffered
<1>10. RootRank(ks, kept, key.slot) \in DOMAIN roots
  <2>1. CASE key \in best
    BY <1>7, <2>1 DEF RootRank
  <2>2. CASE key \in S
    <3>1. PICK j \in DOMAIN kept : j = key.slot \div (MAX_LAST * MAX_PLACEMENTS)
      BY <1>6, <2>2
    <3>2. RootRank(ks, kept, key.slot) = kept[j].rootRank
      <4>1. leaf_orders(ks) \in Nat /\ key.slot \in Int /\ key.slot < leaf_orders(ks)
        <5>1. 0 \in 0..(DEPTH - 2)
          BY DepthAssumption
        <5>2. QED
          BY <1>6, <2>2, <5>1, Widths DEF Keys
      <4>2. ~(key.slot >= leaf_orders(ks))
        BY <4>1
      <4>3. QED
        BY <3>1, <4>2 DEF RootRank
    <3>3. QED
      BY <1>4, <3>2 DEF FrontierOK, NodeOK
  <2>3. QED
    BY <1>5, <1>9, <2>1, <2>2
<1>11. PICK r \in DOMAIN roots : r = RootRank(ks, kept, key.slot)
  BY <1>10
<1>12. LegalRoot(NoHeld, Slots, board, roots[r].slot)
  BY DEF Searching, RootsOK
<1>13. found.move = RootMove(Tree, Slots, roots[r].slot)
  BY <1>9, <1>11 DEF decode_move
<1>14. QED
  BY <1>12, <1>13

\* Committing the move's hold brings the piece its root has in hand.
LEMMA HeldAsPlanned ==
  ASSUME IInv, Found,
         \/ lastMove.move.hold /\ Hold
         \/ ~lastMove.move.hold /\ UNCHANGED engineVars,
         lastMove' = lastMove
  PROVE  Placeable'
<1>1. PICK h \in BOOLEAN : h = NoHeld
  BY GatheredSlots
<1>2. PICK g : g = Slots
  OBVIOUS
<1>3. PICK move : move = lastMove.move
  OBVIOUS
<1>4. PICK s : LegalRoot(h, g, board, s) /\ move = RootMove(PLAN_TREES[h], g, s)
  BY <1>1, <1>2, <1>3, GatheredSlots DEF Found
<1>5. PICK n : n = s \div MAX_PLACEMENTS
  OBVIOUS
<1>6. PICK node : node = PLAN_TREES[h][0][n]
  OBVIOUS
<1>7. RootNode(PLAN_TREES[h], s) = node
  BY <1>5, <1>6 DEF RootNode
<1>8. PiecesInSlots(h, g) /\ board \in Boards
  BY <1>1, <1>2, GatheredSlots
<1>9. /\ move.orientation \in Orientation /\ move.x \in WindowXs
      /\ move.hold = node.rootHold /\ n \in DOMAIN PLAN_TREES[h][0]
      /\ g[node.slot] \in Types
      /\ Available(board, g[node.slot], move.orientation, <<move.x, 0>>)
  BY <1>4, <1>5, <1>7, <1>8, RootFits
<1>10. node.slot = IF ~node.rootHold THEN win_slot(0)
                   ELSE IF h THEN win_slot(1) ELSE SEQ_HELD_SLOT
  BY <1>6, <1>9, RootsOfTheTree
<1>11. g[win_slot(0)] = queue[1] /\ g[win_slot(1)] = queue[2] /\ g[SEQ_HELD_SLOT] = held
  BY <1>2, GatheredSlots
<1>12. board' = board /\ queue'[1] = g[node.slot]
  <2>1. CASE ~move.hold
    <3>1. board' = board /\ queue' = queue
      BY <1>3, <2>1 DEF engineVars
    <3>2. QED
      BY <1>9, <1>10, <1>11, <2>1, <3>1
  <2>2. CASE move.hold
    <3>1. Hold
      BY <1>3, <2>2
    <3>2. queue \in [1..PIECE_QUEUE_SIZE -> Types]
      BY DEF IInv, TypeOK
    <3>3. PIECE_QUEUE_SIZE \in Nat /\ PIECE_QUEUE_SIZE >= 3
      BY ConstantFacts, DepthAssumption, LookaheadAssumption
    <3>4. CASE h
      <4>1. PICK p \in Types : queue' = Advanced(queue, p)
        BY <1>1, <3>1, <3>4 DEF Hold, NoHeld
      <4>2. queue'[1] = queue[2]
        BY <3>2, <3>3, <4>1, AdvancedQueue
      <4>3. QED
        BY <1>9, <1>10, <1>11, <2>2, <3>1, <3>4, <4>2 DEF Hold
    <3>5. CASE ~h
      <4>1. held # NO_PIECE
        BY <1>1, <3>5 DEF NoHeld
      <4>2. queue' = [queue EXCEPT ![1] = held]
        BY <3>1, <4>1 DEF Hold
      <4>3. queue'[1] = held
        BY <3>2, <3>3, <4>2
      <4>4. QED
        BY <1>9, <1>10, <1>11, <2>2, <3>1, <3>5, <4>3 DEF Hold
    <3>6. QED
      BY <3>4, <3>5
  <2>3. move.hold \in BOOLEAN
    BY <1>6, <1>9, RootsOfTheTree
  <2>4. QED
    BY <2>1, <2>2, <2>3
<1>13. lastMove'.move = move
  BY <1>3
<1>14. Available(board, queue'[1], move.orientation, <<move.x, 0>>)
  BY <1>9, <1>12
<1>15. Placeable' = (/\ lastMove'.move.orientation \in Orientation /\ lastMove'.move.x \in WindowXs
                     /\ Available(board', queue'[1], lastMove'.move.orientation, <<lastMove'.move.x, 0>>))
  BY DEF Placeable, CurrentPiece, Available, Free
<1>16. QED
  BY <1>9, <1>12, <1>13, <1>14, <1>15

\* Every step of the AI's game is a step of the engine, or none.
LEMMA AiStepsPlay == AiIInv /\ [AiNext]_aiVars => [Next]_vars
<1> SUFFICES ASSUME AiIInv, [AiNext]_aiVars
             PROVE  [Next]_vars
  OBVIOUS
<1>1. CASE AiReset
  BY <1>1 DEF AiReset, Next
<1>2. CASE GiveUp \/ SearchRoots \/ SearchLevel \/ SearchLeaves
  BY <1>2 DEF GiveUp, SearchRoots, SearchLevel, SearchLeaves, engineVars, vars
<1>3. CASE CommitHold
  BY <1>3 DEF CommitHold, engineVars, vars, Next
<1>4. CASE CommitPlace
  <2>1. PICK o \in Orientation, x \in WindowXs :
          /\ Available(board, CurrentPiece, o, <<x, 0>>)
          /\ o = lastMove.move.orientation /\ x = lastMove.move.x
    BY <1>4 DEF CommitPlace, AiIInv, Placeable
  <2>2. Place(o, x)
    BY <1>4, <2>1 DEF CommitPlace, Place
  <2>3. QED
    BY <2>2 DEF Next
<1>5. CASE UNCHANGED aiVars
  BY <1>5 DEF aiVars, vars
<1>6. QED
  BY <1>1, <1>2, <1>3, <1>4, <1>5 DEF AiNext

\* The invariant holds at first.
LEMMA AiInitIInv == AiInit => AiIInv
  BY InitIInv DEF AiInit, AiIInv

\* Every step preserves it.
LEMMA AiNextIInv == ScoresAreNumbers /\ AiIInv /\ [AiNext]_aiVars => AiIInv'
<1> SUFFICES ASSUME ScoresAreNumbers, AiIInv, [AiNext]_aiVars
             PROVE  AiIInv'
  OBVIOUS
<1>1. IInv'
  BY AiStepsPlay, NextIInv DEF AiIInv
<1>2. IInv /\ model \in Models /\ ks \in BeamWidths
  BY DEF AiIInv
<1>3. CASE AiReset
  BY <1>1, <1>2, <1>3 DEF AiReset, AiIInv
<1>4. CASE GiveUp
  <2>1. UNCHANGED <<board, queue, held, model, ks, stage, layer, roots, kept, best, lastMove>>
    BY <1>4 DEF GiveUp, engineVars, searchVars
  <2>2. stage' = "idle"
    BY <1>4 DEF GiveUp
  <2>3. QED
    BY <1>1, <1>2, <2>1, <2>2 DEF AiIInv
<1>5. CASE SearchRoots
  <2>1. /\ UNCHANGED <<board, queue, held, model, ks>> /\ stage' = "search"
        /\ layer' = 0 /\ best' = {}
    BY <1>5 DEF SearchRoots, engineVars
  <2>2. PICK scores : scores = score_roots(Tree, Slots, board, model)
    OBVIOUS
  <2>3. /\ scores # {} /\ roots' = select_top(scores, Width(ks, 0))
        /\ kept' = seed_frontier(Tree, Slots, board, roots')
    BY <1>5, <2>2 DEF SearchRoots
  <2>4. /\ RootsOK(NoHeld, Slots, board, Width(ks, 0), roots')
        /\ FrontierOK(NoHeld, 0, roots', Width(ks, 0), kept')
        /\ 0 \in DOMAIN kept'
    BY <1>2, <2>2, <2>3, SearchBegins
  <2>5. OffersOK(ks, roots', {})
    BY FS_EmptySet DEF OffersOK
  <2>6. NoHeld' = NoHeld /\ Slots' = Slots
    BY <2>1 DEF NoHeld, Slots, gather_slots
  <2>7. Searching'
    <3>1. 0 \in 0..(DEPTH - 2)
      BY DepthAssumption
    <3>2. QED
      BY <2>1, <2>4, <2>5, <2>6, <3>1 DEF Searching, RootsOK, FrontierOK, NodeOK, OffersOK, LegalRoot
  <2>8. QED
    BY <1>1, <1>2, <2>1, <2>7 DEF AiIInv
<1>6. CASE SearchLevel
  <2>1. UNCHANGED <<board, queue, held, model, ks, stage, roots>> /\ stage = "search"
    BY <1>6 DEF SearchLevel, engineVars
  <2>2. Searching /\ layer < DEPTH - 2
    BY <1>6, <2>1 DEF SearchLevel, AiIInv
  <2>3. PICK level : level = layer + 1
    OBVIOUS
  <2>4. PICK scores : scores = score_mid_level(Tree, Slots, level, kept, model)
    OBVIOUS
  <2>5. PICK offers : offers = best \cup Fallbacks(ks, kept, scores)
    OBVIOUS
  <2>6. /\ kept' = advance_frontier(Tree, Slots, level, kept, select_top(scores, Width(ks, level)))
        /\ best' = IF offers = {} THEN {} ELSE {BestKey(offers)}
        /\ layer' = level
    BY <1>6, <2>3, <2>4, <2>5 DEF SearchLevel
  <2>7. /\ level \in 0..(DEPTH - 2)
        /\ FrontierOK(NoHeld, level, roots, Width(ks, level), kept')
        /\ OffersOK(ks, roots, best')
        /\ best' # {} \/ 0 \in DOMAIN kept'
    BY <1>2, <2>2, <2>3, <2>4, <2>5, <2>6, SearchGoesOn
  <2>8. NoHeld' = NoHeld /\ Slots' = Slots
    BY <2>1 DEF NoHeld, Slots, gather_slots
  <2>9. Searching'
    BY <2>1, <2>2, <2>6, <2>7, <2>8 DEF Searching
  <2>10. QED
    BY <1>1, <1>2, <2>1, <2>9 DEF AiIInv
<1>7. CASE SearchLeaves
  <2>1. UNCHANGED <<board, queue, held, model, ks>> /\ stage' = "hold"
    BY <1>7 DEF SearchLeaves, engineVars
  <2>2. Searching /\ layer = DEPTH - 2
    BY <1>7 DEF SearchLeaves, AiIInv
  <2>3. PICK offers : offers = best \cup expand_leaves(Tree, Slots, kept, model)
    OBVIOUS
  <2>4. lastMove' = decode_move(ks, Tree, Slots, roots, kept, BestKey(offers))
    BY <1>7, <2>3 DEF SearchLeaves
  <2>5. \E s : LegalRoot(NoHeld, Slots, board, s) /\ lastMove'.move = RootMove(Tree, Slots, s)
    BY <1>2, <2>2, <2>3, <2>4, SearchFinds
  <2>6. NoHeld' = NoHeld /\ Slots' = Slots /\ Tree' = Tree
    BY <2>1 DEF NoHeld, Slots, gather_slots, Tree
  <2>7. Found'
    BY <2>1, <2>5, <2>6 DEF Found
  <2>8. QED
    BY <1>1, <1>2, <2>1, <2>7 DEF AiIInv
<1>8. CASE CommitHold
  <2>1. UNCHANGED <<model, ks, lastMove>> /\ stage' = "place" /\ stage = "hold"
    BY <1>8 DEF CommitHold
  <2>2. Found
    BY <2>1 DEF AiIInv
  <2>3. Placeable'
    BY <1>2, <1>8, <2>1, <2>2, HeldAsPlanned DEF CommitHold
  <2>4. QED
    BY <1>1, <1>2, <2>1, <2>3 DEF AiIInv
<1>9. CASE CommitPlace
  BY <1>1, <1>2, <1>9 DEF CommitPlace, AiIInv
<1>10. CASE UNCHANGED aiVars
  <2>1. UNCHANGED <<board, queue, held, model, ks, stage, layer, roots, kept, best, lastMove>>
    BY <1>10 DEF aiVars
  <2>2. NoHeld' = NoHeld /\ Slots' = Slots /\ Tree' = Tree
    BY <2>1 DEF NoHeld, Slots, gather_slots, Tree
  <2>3. stage' = "search" => Searching'
    BY <2>1, <2>2 DEF Searching, AiIInv
  <2>4. stage' = "hold" => Found'
    BY <2>1, <2>2 DEF Found, AiIInv
  <2>5. stage' = "place" => Placeable'
    BY <2>1 DEF Placeable, CurrentPiece, AiIInv
  <2>6. QED
    BY <1>1, <2>1, <2>3, <2>4, <2>5 DEF AiIInv
<1>11. QED
  BY <1>3, <1>4, <1>5, <1>6, <1>7, <1>8, <1>9, <1>10 DEF AiNext

\* While the game is not over the piece at the spawn is a legal root.
LEMMA SpawnIsARoot ==
  ASSUME IInv, ~gameOver
  PROVE  \E s : LegalRoot(NoHeld, Slots, board, s)
<1>1. PICK h \in BOOLEAN : h = NoHeld
  BY GatheredSlots
<1>2. PICK g : g = Slots
  OBVIOUS
<1>3. PiecesInSlots(h, g) /\ board \in Boards /\ g[win_slot(0)] = queue[1]
  BY <1>1, <1>2, GatheredSlots
<1>4. PICK t \in Types : t = queue[1]
  BY ConstantFacts DEF IInv, TypeOK
<1>5. SPAWN = <<SPAWN[1], 0>>
  BY DEF SPAWN
<1>6. Available(board, t, TOP, <<SPAWN[1], 0>>)
  BY <1>4, <1>5 DEF IInv, GameOverIsTopOut, CanSpawn, CurrentPiece
<1>7. [orientation |-> TOP, x |-> SPAWN[1]] \in TableDrops(t)
  BY SpawnTabled, TopIsTabled
<1>8. PICK i \in 0..(n_theoretical_placements(t) - 1) :
        nth_placement(t, i) = [orientation |-> TOP, x |-> SPAWN[1]]
  BY <1>7 DEF TableDrops
<1>9. PICK m \in Nat \ {0} : m = MAX_PLACEMENTS
  BY Strides
<1>10. i \in Nat /\ i < m /\ i \div m = 0 /\ i % m = i
  <2>1. n_theoretical_placements(t) \in 1..m
    BY <1>9, Strides
  <2>2. i \in 0..(m - 1)
    BY <2>1
  <2>3. (0 * m + i) \div m = 0 /\ (0 * m + i) % m = i
    BY <2>2
  <2>4. 0 * m + i = i
    BY <2>2
  <2>5. QED
    BY <2>2, <2>3, <2>4
<1>11. PICK node : node = PLAN_TREES[h][0][0]
  OBVIOUS
<1>12. 0 \in DOMAIN PLAN_TREES[h][0] /\ node.slot = win_slot(0)
  BY <1>11, RootsOfTheTree
<1>13. RootNode(PLAN_TREES[h], i) = node
  BY <1>9, <1>10, <1>11 DEF RootNode
<1>14. i \in ROOT_SLOTS
  <2>1. PICK n \in Nat \ {0} : n = MAX_ROOT_GROUPS
    BY Strides
  <2>2. n * m >= m
    BY <1>9
  <2>3. i \in 0..(n * m - 1)
    BY <1>9, <1>10, <2>2
  <2>4. QED
    BY <1>9, <2>1, <2>3 DEF ROOT_SLOTS
<1>15. g[node.slot] = t
  BY <1>3, <1>4, <1>12
<1>16. i \in RootCandidates(PLAN_TREES[h], g)
  <2>1. i < n_theoretical_placements(t)
    <3>1. n_theoretical_placements(t) \in Nat
      BY TableSlices
    <3>2. QED
      BY <3>1
  <2>2. QED
    BY <1>9, <1>10, <1>12, <1>13, <1>14, <1>15, <2>1 DEF RootCandidates
<1>17. PICK step : step = RootStep(PLAN_TREES[h], g, board, i)
  OBVIOUS
<1>18. step = apply(board, NO_CLEARS, t, nth_placement(t, i))
  BY <1>9, <1>10, <1>13, <1>15, <1>17 DEF RootStep
<1>19. NO_CLEARS \in [1..BLOCKS -> Nat]
  BY DEF NO_CLEARS
<1>20. step.legal
  <2>1. nth_placement(t, i).orientation = TOP /\ nth_placement(t, i).x = SPAWN[1]
    BY <1>8
  <2>2. step.legal <=> Available(board, t, nth_placement(t, i).orientation, <<nth_placement(t, i).x, 0>>)
    BY <1>3, <1>18, <1>19, AppliedBoard
  <2>3. QED
    BY <1>6, <2>1, <2>2
<1>21. QED
  BY <1>1, <1>2, <1>16, <1>17, <1>20 DEF LegalRoot

\* With a legal root there is a score, and with a legal leaf or dead end a move.
LEMMA IInvAlwaysAMove == ScoresAreNumbers /\ AiIInv => AlwaysAMove
<1> SUFFICES ASSUME ScoresAreNumbers, AiIInv
             PROVE  AlwaysAMove
  OBVIOUS
<1>1. ASSUME ~gameOver
      PROVE  score_roots(Tree, Slots, board, model) # {}
  <2>1. PICK h \in BOOLEAN : h = NoHeld
    BY GatheredSlots DEF AiIInv
  <2>2. PICK g : g = Slots
    OBVIOUS
  <2>3. PICK s : LegalRoot(h, g, board, s)
    BY <1>1, <2>1, <2>2, SpawnIsARoot DEF AiIInv
  <2>4. PICK scores : scores = score_roots(PLAN_TREES[h], g, board, model)
    OBVIOUS
  <2>5. PiecesInSlots(h, g) /\ board \in Boards /\ Tree = PLAN_TREES[h]
    BY <2>1, <2>2, GatheredSlots DEF AiIInv
  <2>6. model \in Models
    BY DEF AiIInv
  <2>7. scores # {}
    BY <2>3, <2>4, <2>5, <2>6, RootScores
  <2>8. QED
    BY <2>2, <2>4, <2>5, <2>7
<1>2. ASSUME stage = "search", 0 \in DOMAIN kept
      PROVE  kept # <<>>
  <2>1. DOMAIN <<>> = {}
    OBVIOUS
  <2>2. QED
    BY <1>2, <2>1
<1>3. QED
  BY <1>1, <1>2 DEF AlwaysAMove, AiIInv, Searching

\* The player plays the engine, under its @pre.
THEOREM PlayerPlaysTheEngine ==
  ASSUME ScoresAreNumbers
  PROVE  AiSpec => PlaysTheEngine
<1>1. AiInit => AiIInv
  BY AiInitIInv
<1>2. AiIInv /\ [AiNext]_aiVars => AiIInv'
  BY AiNextIInv
<1>3. AiInit => Init
  BY DEF AiInit
<1>4. AiIInv /\ [AiNext]_aiVars => [Next]_vars
  BY AiStepsPlay
<1>5. QED
  BY <1>1, <1>2, <1>3, <1>4, PTL DEF AiSpec, PlaysTheEngine, Spec

\* A game that is not over has a move, and every search ends with one.
THEOREM PlayerAlwaysMoves ==
  ASSUME ScoresAreNumbers
  PROVE  AiSpec => []AlwaysAMove
<1>1. AiInit => AiIInv
  BY AiInitIInv
<1>2. AiIInv /\ [AiNext]_aiVars => AiIInv'
  BY AiNextIInv
<1>3. AiIInv => AlwaysAMove
  BY IInvAlwaysAMove
<1>4. QED
  BY <1>1, <1>2, <1>3, PTL DEF AiSpec
-----------------------------------------------------------------------------
(* The lines of the exhaustive search that the beam search returns. *)

\* Equal node numbers, equal nodes.
LEMMA SharedNodes ==
  ASSUME NEW h \in BOOLEAN, NEW level \in Levels, NEW d \in Plans, NEW e \in Plans
  PROVE  PLAN_NODES[h][level][d] = PLAN_NODES[h][level][e]
           <=> \A i \in 0..level : Holds(d, i) <=> Holds(e, i)
<1>1. /\ PLAN_NODES[h][level][d] = NodeNumber(PLANS[h], level, d)
      /\ PLAN_NODES[h][level][e] = NodeNumber(PLANS[h], level, e)
  BY PlanNodeNumber
<1>2. NodeNumber(PLANS[h], level, d) = NodeNumber(PLANS[h], level, e) <=> SameNode(PLANS[h], level, d, e)
  BY NodeNumbers
<1>3. SameNode(PLANS[h], level, d, e) <=> \A i \in 0..level : Holds(d, i) <=> Holds(e, i)
  BY NodesAreDecisions
<1>4. QED
  BY <1>1, <1>2, <1>3

\* The children of a node are the nodes that the plans through it go on to,
\* and no other plan runs through them.
LEMMA PlansOfTheTree ==
  ASSUME NEW h \in BOOLEAN, NEW level \in Levels, level + 1 \in Levels,
         NEW n \in DOMAIN PLAN_TREES[h][level], NEW d \in Plans
  PROVE  PLAN_NODES[h][level][d] = n
           <=> PLAN_NODES[h][level + 1][d] \in ChildRange(PLAN_TREES[h][level][n])
<1>1. PICK next \in Levels : next = level + 1
  OBVIOUS
<1>2. level \in Nat /\ next \in Nat /\ \A i : i \in 0..next <=> i \in 0..level \/ i = next
  BY <1>1, PlanSets
<1>3. 0 \in Plans
  BY PlanSets DEF Plans
<1>4. PICK c \in Plans : n = PLAN_NODES[h][level][c]
  <2>1. n \in LayerNodes(h, level)
    BY <1>3, TreeNode
  <2>2. QED
    BY <2>1 DEF LayerNodes
<1>5. PICK e \in 0..(2^(level + 1) - 1) : n = PLAN_NODES[h][level][e]
  BY <1>4, LowDecisions
<1>6. e \in 0..(2^next - 1)
  BY <1>1, <1>5
<1>7. PICK f : f = e + 2^next
  OBVIOUS
<1>8. /\ f \in 0..(2^(next + 1) - 1) /\ ~Holds(e, next) /\ Holds(f, next)
      /\ \A i \in 0..(next - 1) : Holds(f, i) <=> Holds(e, i)
  BY <1>6, <1>7, DecisionBits
<1>9. e \in Plans /\ f \in Plans
  BY <1>6, <1>8, PrefixPlans
<1>10. PICK node : node = PLAN_TREES[h][level][n]
  OBVIOUS
<1>11. ChildRange(node) = {PLAN_NODES[h][next][e], PLAN_NODES[h][next][f]}
  <2>1. node.childBegin..(node.childEnd - 1)
          = {PLAN_NODES[h][level + 1][e], PLAN_NODES[h][level + 1][e + 2^(level + 1)]}
    BY <1>5, <1>10, TwoDecisionsPerNode
  <2>2. QED
    BY <1>1, <1>7, <2>1 DEF ChildRange
<1>12. \A i \in 0..level : Holds(f, i) <=> Holds(e, i)
  <2>1. next - 1 = level
    BY <1>1, <1>2
  <2>2. QED
    BY <1>8, <2>1
<1>13. PLAN_NODES[h][level][d] = n <=> \A i \in 0..level : Holds(d, i) <=> Holds(e, i)
  BY <1>5, <1>9, SharedNodes
<1>14. PLAN_NODES[h][next][d] = PLAN_NODES[h][next][e] <=> \A i \in 0..next : Holds(d, i) <=> Holds(e, i)
  BY <1>9, SharedNodes
<1>15. PLAN_NODES[h][next][d] = PLAN_NODES[h][next][f] <=> \A i \in 0..next : Holds(d, i) <=> Holds(f, i)
  BY <1>9, SharedNodes
<1>16. PLAN_NODES[h][level][d] = n
         <=> \/ PLAN_NODES[h][next][d] = PLAN_NODES[h][next][e]
             \/ PLAN_NODES[h][next][d] = PLAN_NODES[h][next][f]
  <2>1. (\A i \in 0..next : Holds(d, i) <=> Holds(e, i))
          <=> (\A i \in 0..level : Holds(d, i) <=> Holds(e, i)) /\ ~Holds(d, next)
    BY <1>2, <1>8
  <2>2. (\A i \in 0..next : Holds(d, i) <=> Holds(f, i))
          <=> (\A i \in 0..level : Holds(d, i) <=> Holds(e, i)) /\ Holds(d, next)
    BY <1>2, <1>8, <1>12
  <2>3. QED
    BY <1>13, <1>14, <1>15, <2>1, <2>2
<1>17. QED
  BY <1>1, <1>10, <1>11, <1>16

\* What the plans through a node read there.
LEMMA PlanAtNode ==
  ASSUME NEW h \in BOOLEAN, NEW level \in Levels, NEW d \in Plans,
         NEW node, node = PLAN_TREES[h][level][PLAN_NODES[h][level][d]]
  PROVE  /\ PLAN_NODES[h][level][d] \in DOMAIN PLAN_TREES[h][level]
         /\ PLANS[h][d].slot[level] = node.slot
         /\ PLANS[h][d].heldSlot[level] = node.heldSlot
         /\ level = 0 => node.rootHold = PLANS[h][d].rootHold
<1>1. /\ node.slot = Walk(h, d)[level].cur
      /\ node.heldSlot = IF Walk(h, d)[level].empty THEN HELD_NONE ELSE Walk(h, d)[level].hld
      /\ PLAN_NODES[h][level][d] \in DOMAIN PLAN_TREES[h][level]
      /\ node.rootHold = (level = 0 /\ Holds(d, 0))
  BY TreeNode
<1>2. /\ PLANS[h][d].slot[level] = Walk(h, d)[level].cur
      /\ PLANS[h][d].heldSlot[level] = IF Walk(h, d)[level].empty THEN HELD_NONE ELSE Walk(h, d)[level].hld
  BY PlanFields
<1>3. PLANS[h][d].rootHold = Holds(d, 0)
  <2>1. PLANS[h][d] = Plan(h, d)
    BY DEF PLANS
  <2>2. QED
    BY <2>1 DEF Plan
<1>4. level = 0 => node.rootHold = Holds(d, 0)
  <2>1. Holds(d, 0) \in BOOLEAN
    BY DEF Holds
  <2>2. QED
    BY <1>1, <2>1
<1>5. QED
  BY <1>1, <1>2, <1>3, <1>4

\* Every node has a plan that runs through it.
LEMMA NodeHasAPlan ==
  ASSUME NEW h \in BOOLEAN, NEW level \in Levels, NEW n \in DOMAIN PLAN_TREES[h][level]
  PROVE  \E d \in Plans : PLAN_NODES[h][level][d] = n
<1>1. 0 \in Plans
  BY PlanSets DEF Plans
<1>2. n \in LayerNodes(h, level)
  BY <1>1, TreeNode
<1>3. QED
  BY <1>2 DEF LayerNodes

\* The recursive definition of Expanded has a solution: four placements at
\* most.
LEMMA ExpandedUnfolds ==
  ASSUME NEW plan, NEW g, NEW b, NEW m, NEW E, E = Expanded(plan, g, b, m)
  PROVE  E = [n \in 1..DEPTH |->
                IF n = 1 THEN [lines |-> FirstLines(plan, g, b), dead |-> {}]
                ELSE Continued(plan, g, m, n - 1, E[n - 1])]
<1> DEFINE e1 == [lines |-> FirstLines(plan, g, b), dead |-> {}]
           e2 == Continued(plan, g, m, 1, e1)
           e3 == Continued(plan, g, m, 2, e2)
           e4 == Continued(plan, g, m, 3, e3)
           f == [n \in 1..DEPTH |-> IF n = 1 THEN e1 ELSE IF n = 2 THEN e2
                                    ELSE IF n = 3 THEN e3 ELSE e4]
           R(x) == [n \in 1..DEPTH |-> IF n = 1 THEN e1 ELSE Continued(plan, g, m, n - 1, x[n - 1])]
<1>1. DEPTH \in 2..4 /\ 1..DEPTH \subseteq {1, 2, 3, 4}
  BY DepthAssumption
<1>2. f = R(f)
  <2>1. ASSUME NEW n \in 1..DEPTH
        PROVE  f[n] = R(f)[n]
    <3>0. n \in {1, 2, 3, 4} /\ (n # 1 => n - 1 \in 1..DEPTH)
      BY <1>1
    <3>1. CASE n = 1
      BY <3>1
    <3>2. CASE n = 2
      <4>1. R(f)[n] = Continued(plan, g, m, 1, f[1]) /\ f[n] = e2 /\ f[1] = e1
        BY <3>0, <3>2
      <4>2. QED
        BY <4>1
    <3>3. CASE n = 3
      <4>1. R(f)[n] = Continued(plan, g, m, 2, f[2]) /\ f[n] = e3 /\ f[2] = e2
        BY <3>0, <3>3
      <4>2. QED
        BY <4>1
    <3>4. CASE n = 4
      <4>1. R(f)[n] = Continued(plan, g, m, 3, f[3]) /\ f[n] = e4 /\ f[3] = e3
        BY <3>0, <3>4
      <4>2. QED
        BY <4>1
    <3>5. QED
      BY <3>0, <3>1, <3>2, <3>3, <3>4
  <2>2. QED
    BY <2>1
<1>3. E = CHOOSE x : x = R(x)
  BY DEF Expanded
<1> HIDE DEF f, R
<1>4. E = R(E)
  BY <1>2, <1>3
<1>5. QED
  BY <1>4 DEF R

\* A plan's expansion begins with the first lines, none of them dead.
LEMMA ExpandedFirst ==
  ASSUME NEW plan, NEW g, NEW b, NEW m, NEW E, E = Expanded(plan, g, b, m)
  PROVE  E[1] = [lines |-> FirstLines(plan, g, b), dead |-> {}]
<1>1. 1 \in 1..DEPTH
  BY DepthAssumption
<1> DEFINE R == [n \in 1..DEPTH |->
                   IF n = 1 THEN [lines |-> FirstLines(plan, g, b), dead |-> {}]
                   ELSE Continued(plan, g, m, n - 1, E[n - 1])]
<1>2. E = R
  BY ExpandedUnfolds
<1>3. R[1] = [lines |-> FirstLines(plan, g, b), dead |-> {}]
  BY <1>1
<1> HIDE DEF R
<1>4. QED
  BY <1>2, <1>3

\* It goes on by one placement at a time.
LEMMA ExpandedLevel ==
  ASSUME NEW plan, NEW g, NEW b, NEW m, NEW E, E = Expanded(plan, g, b, m),
         NEW n \in 1..(DEPTH - 1), NEW before, before = E[n], NEW after, after = E[n + 1]
  PROVE  after = Continued(plan, g, m, n, before)
<1>1. n + 1 \in 1..DEPTH /\ n + 1 # 1 /\ (n + 1) - 1 = n
  BY DepthAssumption
<1> DEFINE R == [i \in 1..DEPTH |->
                   IF i = 1 THEN [lines |-> FirstLines(plan, g, b), dead |-> {}]
                   ELSE Continued(plan, g, m, i - 1, E[i - 1])]
<1>2. E = R
  BY ExpandedUnfolds
<1>3. R[n + 1] = Continued(plan, g, m, n, E[n])
  BY <1>1
<1> HIDE DEF R
<1>4. QED
  BY <1>2, <1>3

\* What an entry of a score array is.
LEMMA ScoredMember ==
  ASSUME NEW m, NEW g, NEW C
  PROVE  \A k : k \in Scored(m, g, C)
           <=> \E c \in C : c.step.legal /\ k = [slot |-> c.slot, score |-> Score(m, g, c.node, c.step)]
  BY DEF Scored

\* The lines of n placements of a plan, and a kept node as a line.
LinesOf(plan, g, b, m, n) == Expanded(plan, g, b, m)[n].lines

KeptLine(h, g, rs, e) ==
  [board |-> e.board, clears |-> e.clears, move |-> RootMove(PLAN_TREES[h], g, rs[e.rootRank].slot)]

\* The placements of a piece that fit are among its legal steps,
LEMMA LegalStep ==
  ASSUME NEW b, NEW clears, NEW t, NEW i \in 0..(n_theoretical_placements(t) - 1),
         NEW p, p = nth_placement(t, i), NEW step, step = apply(b, clears, t, p), step.legal,
         NEW S, LegalSteps(b, clears, t) = S
  PROVE  \E s \in S : s.place = p /\ s.step = step
<1> DEFINE I == 0..(n_theoretical_placements(t) - 1)
           C == {[place |-> nth_placement(t, j), step |-> apply(b, clears, t, nth_placement(t, j))] : j \in I}
<1>1. S = {s \in C : s.step.legal}
  BY DEF LegalSteps
<1>2. PICK s : s = [place |-> nth_placement(t, i), step |-> apply(b, clears, t, nth_placement(t, i))]
  OBVIOUS
<1>3. s \in C
  BY <1>2
<1>4. s.place = p /\ s.step = step
  BY <1>2
<1> HIDE DEF C
<1>5. QED
  BY <1>1, <1>3, <1>4

\* and they are all of them.
LEMMA StepsAreLegal ==
  ASSUME NEW b, NEW clears, NEW t, NEW S, LegalSteps(b, clears, t) = S, NEW s \in S
  PROVE  \E i \in 0..(n_theoretical_placements(t) - 1) :
           /\ s.place = nth_placement(t, i) /\ s.step = apply(b, clears, t, nth_placement(t, i))
           /\ s.step.legal
<1> DEFINE I == 0..(n_theoretical_placements(t) - 1)
           C == {[place |-> nth_placement(t, j), step |-> apply(b, clears, t, nth_placement(t, j))] : j \in I}
<1>1. S = {e \in C : e.step.legal}
  BY DEF LegalSteps
<1>2. \A e \in C : \E i \in I : e.place = nth_placement(t, i) /\ e.step = apply(b, clears, t, nth_placement(t, i))
  OBVIOUS
<1> HIDE DEF C
<1>3. QED
  BY <1>1, <1>2

\* The lines that legal first steps begin.
LinesFrom(plan, S) ==
  {Line(s, [orientation |-> s.place.orientation, x |-> s.place.x, hold |-> plan.rootHold]) : s \in S}

\* The first lines of a plan.
LEMMA LinesStart ==
  ASSUME NEW plan, NEW g, NEW b, NEW m,
         NEW t, t = g[plan.slot[0]],
         NEW S, LegalSteps(b, NO_CLEARS, t) = S, NEW L, LinesOf(plan, g, b, m, 1) = L
  PROVE  L = LinesFrom(plan, S)
<1>3. PICK E : E = Expanded(plan, g, b, m)
  OBVIOUS
<1>4. E[1] = [lines |-> FirstLines(plan, g, b), dead |-> {}]
  BY <1>3, ExpandedFirst
<1>5. L = FirstLines(plan, g, b)
  BY <1>3, <1>4 DEF LinesOf
<1>6. QED
  BY <1>5 DEF FirstLines, LinesFrom

\* Each of the legal steps begins a line.
LEMMA LinesStarted ==
  ASSUME NEW plan, NEW g, NEW b, NEW m, NEW t, t = g[plan.slot[0]],
         NEW S, LegalSteps(b, NO_CLEARS, t) = S, NEW L, LinesOf(plan, g, b, m, 1) = L, NEW s \in S
  PROVE  Line(s, [orientation |-> s.place.orientation, x |-> s.place.x, hold |-> plan.rootHold]) \in L
<1>1. L = LinesFrom(plan, S)
  BY LinesStart
<1>2. QED
  BY <1>1 DEF LinesFrom

\* A line begins with each legal placement of the first piece.
LEMMA LinesBegin ==
  ASSUME NEW plan, NEW g, NEW b, NEW m,
         NEW t, t = g[plan.slot[0]],
         NEW i \in 0..(n_theoretical_placements(t) - 1), NEW p, p = nth_placement(t, i),
         NEW step, step = apply(b, NO_CLEARS, t, p), step.legal,
         NEW q, q = [board |-> step.board, clears |-> step.clears,
                     move |-> [orientation |-> p.orientation, x |-> p.x, hold |-> plan.rootHold]],
         NEW L, LinesOf(plan, g, b, m, 1) = L
  PROVE  q \in L
<1>1. PICK S : LegalSteps(b, NO_CLEARS, t) = S
  OBVIOUS
<1>2. PICK s \in S : s.place = p /\ s.step = step
  BY <1>1, LegalStep
<1>3. Line(s, [orientation |-> s.place.orientation, x |-> s.place.x, hold |-> plan.rootHold]) \in L
  BY <1>1, <1>2, LinesStarted
<1>4. q = Line(s, [orientation |-> s.place.orientation, x |-> s.place.x, hold |-> plan.rootHold])
  BY <1>2 DEF Line
<1>5. QED
  BY <1>3, <1>4

\* And only with those.
LEMMA LinesBegan ==
  ASSUME NEW plan, NEW g, NEW b, NEW m,
         NEW t, t = g[plan.slot[0]],
         NEW L, LinesOf(plan, g, b, m, 1) = L, NEW q \in L
  PROVE  \E i \in 0..(n_theoretical_placements(t) - 1) : \E p, step :
           /\ p = nth_placement(t, i) /\ step = apply(b, NO_CLEARS, t, p) /\ step.legal
           /\ q = [board |-> step.board, clears |-> step.clears,
                   move |-> [orientation |-> p.orientation, x |-> p.x, hold |-> plan.rootHold]]
<1>1. PICK S : LegalSteps(b, NO_CLEARS, t) = S
  OBVIOUS
<1>2. L = LinesFrom(plan, S)
  BY <1>1, LinesStart
<1>3. PICK s \in S :
        q = Line(s, [orientation |-> s.place.orientation, x |-> s.place.x, hold |-> plan.rootHold])
  BY <1>2 DEF LinesFrom
<1>4. PICK i \in 0..(n_theoretical_placements(t) - 1) :
        /\ s.place = nth_placement(t, i) /\ s.step = apply(b, NO_CLEARS, t, nth_placement(t, i))
        /\ s.step.legal
  BY <1>1, StepsAreLegal
<1>5. PICK p, step : p = s.place /\ step = s.step
  OBVIOUS
<1>6. /\ p = nth_placement(t, i) /\ step = apply(b, NO_CLEARS, t, p) /\ step.legal
      /\ q = [board |-> step.board, clears |-> step.clears,
              move |-> [orientation |-> p.orientation, x |-> p.x, hold |-> plan.rootHold]]
  BY <1>3, <1>4, <1>5 DEF Line
<1>7. QED
  BY <1>6

\* The lines of one placement more.
LEMMA LinesContinue ==
  ASSUME NEW plan, NEW g, NEW b, NEW m, NEW n \in 1..(DEPTH - 1),
         NEW t, t = g[plan.slot[n]],
         NEW L, LinesOf(plan, g, b, m, n) = L, NEW next, LinesOf(plan, g, b, m, n + 1) = next, NEW r
  PROVE  r \in next
           <=> \E q \in L : \E s \in LegalSteps(q.board, q.clears, t) : r = Line(s, q.move)
<1> DEFINE steps(q) == LegalSteps(q.board, q.clears, t)
           fans == {[line |-> q, steps |-> steps(q)] : q \in L}
<1>3. next = UNION {{Line(s, f.line.move) : s \in f.steps} : f \in fans}
  <2>1. PICK E : E = Expanded(plan, g, b, m)
    OBVIOUS
  <2>2. E[n + 1] = Continued(plan, g, m, n, E[n])
    <3>1. PICK before, after : before = E[n] /\ after = E[n + 1]
      OBVIOUS
    <3>2. after = Continued(plan, g, m, n, before)
      BY <2>1, <3>1, ExpandedLevel
    <3>3. QED
      BY <3>1, <3>2
  <2>3. L = E[n].lines /\ next = E[n + 1].lines
    BY <2>1 DEF LinesOf
  <2>4. QED
    BY <2>2, <2>3 DEF Continued
<1>4. \A q \in L : [line |-> q, steps |-> steps(q)] \in fans
  OBVIOUS
<1>5. \A f \in fans : f.line \in L /\ f.steps = steps(f.line)
  OBVIOUS
<1> HIDE DEF fans
<1>6. r \in next <=> \E q \in L : \E s \in steps(q) : r = Line(s, q.move)
  <2>1. ASSUME r \in next
        PROVE  \E q \in L : \E s \in steps(q) : r = Line(s, q.move)
    <3>1. PICK f \in fans : r \in {Line(s, f.line.move) : s \in f.steps}
      BY <1>3, <2>1
    <3>2. PICK s \in f.steps : r = Line(s, f.line.move)
      BY <3>1
    <3>3. QED
      BY <1>5, <3>2
  <2>2. ASSUME NEW q \in L, NEW s \in steps(q), r = Line(s, q.move)
        PROVE  r \in next
    <3>1. PICK f \in fans : f = [line |-> q, steps |-> steps(q)]
      BY <1>4
    <3>2. f.line = q /\ f.steps = steps(q)
      BY <3>1
    <3>3. r \in {Line(e, f.line.move) : e \in f.steps}
      BY <2>2, <3>2
    <3>4. QED
      BY <1>3, <3>3
  <2>3. QED
    BY <2>1, <2>2
<1>7. QED
  BY <1>6

\* Each legal step of the next piece continues a line,
LEMMA LinesContinued ==
  ASSUME NEW plan, NEW g, NEW b, NEW m, NEW n \in 1..(DEPTH - 1), NEW t, t = g[plan.slot[n]],
         NEW L, LinesOf(plan, g, b, m, n) = L, NEW next, LinesOf(plan, g, b, m, n + 1) = next,
         NEW q \in L, NEW s \in LegalSteps(q.board, q.clears, t)
  PROVE  Line(s, q.move) \in next
  BY LinesContinue

\* A line goes on with each legal placement of the next piece.
LEMMA LinesGoOn ==
  ASSUME NEW plan, NEW g, NEW b, NEW m, NEW n \in 1..(DEPTH - 1),
         NEW t, t = g[plan.slot[n]],
         NEW L, LinesOf(plan, g, b, m, n) = L, NEW q \in L,
         NEW i \in 0..(n_theoretical_placements(t) - 1), NEW p, p = nth_placement(t, i),
         NEW step, step = apply(q.board, q.clears, t, p), step.legal,
         NEW r, r = [board |-> step.board, clears |-> step.clears, move |-> q.move],
         NEW next, LinesOf(plan, g, b, m, n + 1) = next
  PROVE  r \in next
<1>1. PICK S : LegalSteps(q.board, q.clears, t) = S
  OBVIOUS
<1>2. PICK s \in S : s.place = p /\ s.step = step
  BY <1>1, LegalStep
<1>3. r = Line(s, q.move)
  BY <1>2 DEF Line
<1>4. Line(s, q.move) \in next
  <2>1. s \in LegalSteps(q.board, q.clears, t)
    BY <1>1, <1>2
  <2>2. QED
    BY <2>1, LinesContinued
<1>5. QED
  BY <1>3, <1>4

\* And only with those.
LEMMA LinesWentOn ==
  ASSUME NEW plan, NEW g, NEW b, NEW m, NEW n \in 1..(DEPTH - 1),
         NEW t, t = g[plan.slot[n]],
         NEW L, LinesOf(plan, g, b, m, n) = L,
         NEW next, LinesOf(plan, g, b, m, n + 1) = next, NEW r \in next
  PROVE  \E q \in L, i \in 0..(n_theoretical_placements(t) - 1) : \E step :
           /\ step = apply(q.board, q.clears, t, nth_placement(t, i)) /\ step.legal
           /\ r = [board |-> step.board, clears |-> step.clears, move |-> q.move]
<1>1. \E q \in L : \E s \in LegalSteps(q.board, q.clears, t) : r = Line(s, q.move)
  BY LinesContinue
<1>2. PICK q \in L : \E s \in LegalSteps(q.board, q.clears, t) : r = Line(s, q.move)
  BY <1>1
<1>3. PICK S : LegalSteps(q.board, q.clears, t) = S
  OBVIOUS
<1>4. PICK s \in S : r = Line(s, q.move)
  BY <1>2, <1>3
<1>5. PICK i \in 0..(n_theoretical_placements(t) - 1) :
        /\ s.place = nth_placement(t, i) /\ s.step = apply(q.board, q.clears, t, nth_placement(t, i))
        /\ s.step.legal
  BY <1>3, StepsAreLegal
<1>6. PICK step : step = s.step
  OBVIOUS
<1>7. r = [board |-> step.board, clears |-> step.clears, move |-> q.move]
  BY <1>4, <1>6 DEF Line
<1>8. QED
  BY <1>5, <1>6, <1>7

\* The leaves of a plan: its longest lines and the lines the next piece of
\* which does not fit.
LEMMA LeavesAre ==
  ASSUME NEW plan, NEW g, NEW b, NEW m, NEW l
  PROVE  l \in PlanLeaves(plan, g, b, m)
           <=> \E n \in 1..DEPTH : \E q \in LinesOf(plan, g, b, m, n) :
                 /\ l = Leaf(plan, g, m, n, q)
                 /\ n < DEPTH => LegalSteps(q.board, q.clears, g[plan.slot[n]]) = {}
<1>0. PICK E : E = Expanded(plan, g, b, m)
  OBVIOUS
<1> DEFINE L(n) == LinesOf(plan, g, b, m, n)
           stuck(n, q) == LegalSteps(q.board, q.clears, g[plan.slot[n]]) = {}
           new(n) == {Leaf(plan, g, m, n, q) : q \in {q \in L(n) : stuck(n, q)}}
<1>1. DEPTH \in 2..4
  BY DepthAssumption
<1>2. E[1].dead = {}
  <2>1. E[1] = [lines |-> FirstLines(plan, g, b), dead |-> {}]
    BY <1>0, ExpandedFirst
  <2>2. QED
    BY <2>1
<1>3. ASSUME NEW n \in 1..(DEPTH - 1)
      PROVE  E[n + 1].dead = E[n].dead \cup new(n)
  <2> DEFINE fans == {[line |-> q, steps |-> LegalSteps(q.board, q.clears, g[plan.slot[n]])] : q \in L(n)}
  <2>1. E[n + 1].dead = E[n].dead \cup {Leaf(plan, g, m, n, f.line) : f \in {f \in fans : f.steps = {}}}
    <3>0. PICK before, after : before = E[n] /\ after = E[n + 1]
      OBVIOUS
    <3>1. after = Continued(plan, g, m, n, before)
      BY <1>0, <3>0, ExpandedLevel
    <3>2. L(n) = E[n].lines
      BY <1>0 DEF LinesOf
    <3> HIDE DEF L
    <3>3. QED
      BY <3>0, <3>1, <3>2 DEF Continued
  <2>2. \A q \in L(n) : \E f \in fans : f.line = q /\ f.steps = LegalSteps(q.board, q.clears, g[plan.slot[n]])
    <3> HIDE DEF L
    <3>1. ASSUME NEW q \in L(n), NEW f,
                 f = [line |-> q, steps |-> LegalSteps(q.board, q.clears, g[plan.slot[n]])]
          PROVE  f \in fans /\ f.line = q /\ f.steps = LegalSteps(q.board, q.clears, g[plan.slot[n]])
      BY <3>1
    <3> HIDE DEF fans
    <3>2. QED
      BY <3>1
  <2>3. \A f \in fans : f.line \in L(n) /\ f.steps = LegalSteps(f.line.board, f.line.clears, g[plan.slot[n]])
    OBVIOUS
  <2> HIDE DEF fans, L
  <2>4. {Leaf(plan, g, m, n, f.line) : f \in {f \in fans : f.steps = {}}} = new(n)
    <3>1. ASSUME NEW f \in fans, f.steps = {}
          PROVE  Leaf(plan, g, m, n, f.line) \in new(n)
      BY <2>3, <3>1
    <3>2. ASSUME NEW q \in L(n), stuck(n, q)
          PROVE  \E f \in fans : f.steps = {} /\ Leaf(plan, g, m, n, f.line) = Leaf(plan, g, m, n, q)
      BY <2>2, <3>2
    <3> DEFINE stopped == {f \in fans : f.steps = {}}
               stays == {q \in L(n) : stuck(n, q)}
    <3>3. /\ \A f \in stopped : Leaf(plan, g, m, n, f.line) \in new(n)
          /\ \A q \in stays : \E f \in stopped : Leaf(plan, g, m, n, f.line) = Leaf(plan, g, m, n, q)
      BY <3>1, <3>2
    <3>4. new(n) = {Leaf(plan, g, m, n, q) : q \in stays}
      OBVIOUS
    <3> HIDE DEF stopped, stays, stuck, new
    <3>5. {Leaf(plan, g, m, n, f.line) : f \in stopped} = new(n)
      BY <3>3, <3>4
    <3>6. QED
      BY <3>5 DEF stopped
  <2>5. QED
    BY <2>1, <2>4
<1>4. PlanLeaves(plan, g, b, m) = E[DEPTH].dead \cup {Leaf(plan, g, m, DEPTH, q) : q \in L(DEPTH)}
  BY <1>0 DEF PlanLeaves, LinesOf
<1> HIDE DEF new
<1>5. l \in E[DEPTH].dead <=> \E n \in 1..(DEPTH - 1) : l \in new(n)
  <2>1. CASE DEPTH = 2
    <3>1. 1 \in 1..(DEPTH - 1) /\ 1 + 1 = DEPTH
      BY <2>1
    <3>2. \A n \in 1..(DEPTH - 1) : n = 1
      BY <2>1
    <3>3. E[DEPTH].dead = {} \cup new(1)
      BY <1>2, <1>3, <3>1
    <3>4. QED
      BY <3>1, <3>2, <3>3
  <2>2. CASE DEPTH = 3
    <3>1. 1 \in 1..(DEPTH - 1) /\ 2 \in 1..(DEPTH - 1) /\ 1 + 1 = 2 /\ 2 + 1 = DEPTH
      BY <2>2
    <3>2. \A n \in 1..(DEPTH - 1) : n = 1 \/ n = 2
      BY <2>2
    <3>3. E[2].dead = {} \cup new(1) /\ E[DEPTH].dead = E[2].dead \cup new(2)
      BY <1>2, <1>3, <3>1
    <3>4. QED
      BY <3>1, <3>2, <3>3
  <2>3. CASE DEPTH = 4
    <3>1. /\ 1 \in 1..(DEPTH - 1) /\ 2 \in 1..(DEPTH - 1) /\ 3 \in 1..(DEPTH - 1)
          /\ 1 + 1 = 2 /\ 2 + 1 = 3 /\ 3 + 1 = DEPTH
      BY <2>3
    <3>2. \A n \in 1..(DEPTH - 1) : n = 1 \/ n = 2 \/ n = 3
      BY <2>3
    <3>3. /\ E[2].dead = {} \cup new(1) /\ E[3].dead = E[2].dead \cup new(2)
          /\ E[DEPTH].dead = E[3].dead \cup new(3)
      BY <1>2, <1>3, <3>1
    <3>4. QED
      BY <3>1, <3>2, <3>3
  <2>4. QED
    BY <1>1, <2>1, <2>2, <2>3
<1>6. \A n : l \in new(n) <=> \E q \in L(n) : l = Leaf(plan, g, m, n, q) /\ stuck(n, q)
  BY DEF new
<1>7. \A n : n \in 1..DEPTH <=> n \in 1..(DEPTH - 1) \/ n = DEPTH
  BY <1>1
<1>8. \A n \in 1..(DEPTH - 1) : n < DEPTH
  BY <1>1
<1>9. ~(DEPTH < DEPTH)
  BY <1>1
<1> HIDE DEF L, stuck
<1>10. l \in PlanLeaves(plan, g, b, m)
         <=> \E n \in 1..DEPTH : \E q \in L(n) : l = Leaf(plan, g, m, n, q) /\ (n < DEPTH => stuck(n, q))
  BY <1>4, <1>5, <1>6, <1>7, <1>8, <1>9
<1>11. QED
  BY <1>0, <1>10 DEF L, stuck

\* A root is the first step of a line of each plan through its node.
LEMMA RootLine ==
  ASSUME NEW h \in BOOLEAN, NEW g, PiecesInSlots(h, g), NEW b \in Boards, NEW m,
         NEW s, LegalRoot(h, g, b, s), NEW d \in Plans, PLAN_NODES[h][0][d] = s \div MAX_PLACEMENTS,
         NEW step, step = RootStep(PLAN_TREES[h], g, b, s), NEW plan, plan = PLANS[h][d]
  PROVE  [board |-> step.board, clears |-> step.clears, move |-> RootMove(PLAN_TREES[h], g, s)]
           \in LinesOf(plan, g, b, m, 1)
<1>1. PICK n : n = s \div MAX_PLACEMENTS
  OBVIOUS
<1>2. PICK node : node = PLAN_TREES[h][0][n]
  OBVIOUS
<1>3. PICK t : t = g[node.slot]
  OBVIOUS
<1>4. PICK i : i = s % MAX_PLACEMENTS
  OBVIOUS
<1>5. PICK p : p = nth_placement(t, i)
  OBVIOUS
<1>6. RootNode(PLAN_TREES[h], s) = node
  BY <1>1, <1>2 DEF RootNode
<1>7. i \in 0..(n_theoretical_placements(t) - 1)
  BY <1>3, <1>4, <1>6, RootIndices DEF LegalRoot
<1>8. step = apply(b, NO_CLEARS, t, p) /\ step.legal
  BY <1>3, <1>4, <1>5, <1>6 DEF RootStep, LegalRoot
<1>9. node.rootHold = plan.rootHold /\ t = g[plan.slot[0]]
  <2>1. 0 \in Levels
    BY PlanSets DEF Levels
  <2>2. node.rootHold = plan.rootHold /\ plan.slot[0] = node.slot
    BY <1>1, <1>2, <2>1, PlanAtNode
  <2>3. QED
    BY <1>3, <2>2
<1>10. PICK q : q = [board |-> step.board, clears |-> step.clears, move |-> RootMove(PLAN_TREES[h], g, s)]
  OBVIOUS
<1>11. q = [board |-> step.board, clears |-> step.clears,
            move |-> [orientation |-> p.orientation, x |-> p.x, hold |-> plan.rootHold]]
  BY <1>3, <1>4, <1>5, <1>6, <1>9, <1>10 DEF RootMove
<1>12. PICK L : LinesOf(plan, g, b, m, 1) = L
  OBVIOUS
<1>13. q \in L
  BY <1>5, <1>7, <1>8, <1>9, <1>11, <1>12, LinesBegin
<1>14. QED
  BY <1>10, <1>12, <1>13

\* A root's score is the value of its board.
LEMMA RootScored ==
  ASSUME NEW h \in BOOLEAN, NEW g, NEW b, NEW m, NEW c \in score_roots(PLAN_TREES[h], g, b, m),
         NEW step, step = RootStep(PLAN_TREES[h], g, b, c.slot)
  PROVE  /\ LegalRoot(h, g, b, c.slot)
         /\ c.score = Score(m, g, RootNode(PLAN_TREES[h], c.slot), step)
<1> DEFINE tree == PLAN_TREES[h]
           R == RootCandidates(tree, g)
           C == {[slot |-> s, node |-> RootNode(tree, s), step |-> RootStep(tree, g, b, s)] : s \in R}
<1>1. c \in Scored(m, g, C)
  BY DEF score_roots
<1>2. \A e \in C : e.slot \in R /\ e.node = RootNode(tree, e.slot) /\ e.step = RootStep(tree, g, b, e.slot)
  OBVIOUS
<1> HIDE DEF C
<1>3. PICK e \in C : e.step.legal /\ c = [slot |-> e.slot, score |-> Score(m, g, e.node, e.step)]
  BY <1>1, ScoredMember
<1>4. c.slot = e.slot /\ c.score = Score(m, g, e.node, e.step)
  BY <1>3
<1>5. QED
  BY <1>2, <1>3, <1>4 DEF LegalRoot

\* What a kept node is to the exhaustive search: a line of every plan through
\* it, scored with the value the line counts if it stops there.
OnLines(h, g, b, m, rs, level, e) ==
  /\ e.score = Evaluate(m, e.clears, e.board, heldIsI(g, PLAN_TREES[h][level][e.node]))
  /\ \A d \in Plans : PLAN_NODES[h][level][d] = e.node
       => KeptLine(h, g, rs, e) \in LinesOf(PLANS[h][d], g, b, m, level + 1)

\* The first frontier.
LEMMA SeededOnLines ==
  ASSUME NEW h \in BOOLEAN, NEW g, PiecesInSlots(h, g), NEW b \in Boards, NEW m, NEW rs,
         \A r \in DOMAIN rs : rs[r] \in score_roots(PLAN_TREES[h], g, b, m),
         NEW frontier, frontier = seed_frontier(PLAN_TREES[h], g, b, rs), NEW k \in DOMAIN frontier
  PROVE  OnLines(h, g, b, m, rs, 0, frontier[k])
<1>1. k \in DOMAIN rs
  BY DEF seed_frontier
<1>2. PICK c : c = rs[k]
  OBVIOUS
<1>3. PICK s : s = c.slot
  OBVIOUS
<1>4. PICK step : step = RootStep(PLAN_TREES[h], g, b, s)
  OBVIOUS
<1>5. PICK e : e = frontier[k]
  OBVIOUS
<1>6. e = [board |-> step.board, clears |-> step.clears, score |-> c.score,
           node |-> s \div MAX_PLACEMENTS, rootRank |-> k]
  BY <1>1, <1>2, <1>3, <1>4, <1>5 DEF seed_frontier
<1>7. LegalRoot(h, g, b, s) /\ c.score = Score(m, g, RootNode(PLAN_TREES[h], s), step)
  BY <1>1, <1>2, <1>3, <1>4, RootScored
<1>8. /\ e.board = step.board /\ e.clears = step.clears /\ e.score = c.score
      /\ e.node = s \div MAX_PLACEMENTS /\ e.rootRank = k
  BY <1>6
<1>9. e.score = Evaluate(m, e.clears, e.board, heldIsI(g, PLAN_TREES[h][0][e.node]))
  BY <1>7, <1>8 DEF Score, RootNode
<1>10. KeptLine(h, g, rs, e)
         = [board |-> step.board, clears |-> step.clears, move |-> RootMove(PLAN_TREES[h], g, s)]
  BY <1>2, <1>3, <1>8 DEF KeptLine
<1>11. ASSUME NEW d \in Plans, PLAN_NODES[h][0][d] = e.node
       PROVE  KeptLine(h, g, rs, e) \in LinesOf(PLANS[h][d], g, b, m, 1)
  <2>1. PLAN_NODES[h][0][d] = s \div MAX_PLACEMENTS
    BY <1>8, <1>11
  <2>2. PICK plan : plan = PLANS[h][d]
    OBVIOUS
  <2>3. [board |-> step.board, clears |-> step.clears, move |-> RootMove(PLAN_TREES[h], g, s)]
          \in LinesOf(plan, g, b, m, 1)
    BY <1>4, <1>7, <2>1, <2>2, RootLine
  <2>4. QED
    BY <1>10, <2>2, <2>3
<1>12. QED
  BY <1>5, <1>9, <1>11 DEF OnLines

\* A score of a middle level is the value of the board it is about.
LEMMA MidScored ==
  ASSUME NEW tree, NEW g, NEW m, NEW level, NEW frontier,
         NEW c \in score_mid_level(tree, g, level, frontier, m),
         NEW step, step = MidStep(tree, g, level, frontier, c.slot),
         NEW child, child = ChildIdx(tree, level, frontier, c.slot)
  PROVE  /\ c.slot \in MidCandidates(tree, g, level, frontier)
         /\ step.legal
         /\ c.score = Score(m, g, tree[level][child], step)
<1> DEFINE R == MidCandidates(tree, g, level, frontier)
           C == {[slot |-> s, node |-> tree[level][ChildIdx(tree, level, frontier, s)],
                  step |-> MidStep(tree, g, level, frontier, s)] : s \in R}
<1>1. c \in Scored(m, g, C)
  BY DEF score_mid_level
<1>2. \A e \in C : /\ e.slot \in R /\ e.node = tree[level][ChildIdx(tree, level, frontier, e.slot)]
                   /\ e.step = MidStep(tree, g, level, frontier, e.slot)
  OBVIOUS
<1> HIDE DEF C
<1>3. PICK e \in C : e.step.legal /\ c = [slot |-> e.slot, score |-> Score(m, g, e.node, e.step)]
  BY <1>1, ScoredMember
<1>4. c.slot = e.slot /\ c.score = Score(m, g, e.node, e.step)
  BY <1>3
<1>5. QED
  BY <1>2, <1>3, <1>4

\* Every legal candidate of a middle level has its score.
LEMMA MidAllScored ==
  ASSUME NEW tree, NEW g, NEW m, NEW level, NEW frontier,
         NEW s \in MidCandidates(tree, g, level, frontier),
         NEW step, step = MidStep(tree, g, level, frontier, s), step.legal
  PROVE  \E c \in score_mid_level(tree, g, level, frontier, m) : c.slot = s
<1> DEFINE R == MidCandidates(tree, g, level, frontier)
           C == {[slot |-> e, node |-> tree[level][ChildIdx(tree, level, frontier, e)],
                  step |-> MidStep(tree, g, level, frontier, e)] : e \in R}
<1>1. PICK e \in C : e.slot = s /\ e.step = step
  <2>1. PICK e : e = [slot |-> s, node |-> tree[level][ChildIdx(tree, level, frontier, s)],
                      step |-> MidStep(tree, g, level, frontier, s)]
    OBVIOUS
  <2>2. e \in C
    BY <2>1
  <2> HIDE DEF C
  <2>3. QED
    BY <2>1, <2>2
<1>2. PICK c : c = [slot |-> e.slot, score |-> Score(m, g, e.node, e.step)]
  OBVIOUS
<1>3. score_mid_level(tree, g, level, frontier, m) = Scored(m, g, C)
  BY DEF score_mid_level
<1> HIDE DEF C
<1>4. c \in Scored(m, g, C) /\ c.slot = s
  BY <1>1, <1>2, ScoredMember
<1>5. QED
  BY <1>3, <1>4

\* A scored continuation of a kept node is a line of one placement more.
LEMMA ContinuedOnLines ==
  ASSUME NEW h \in BOOLEAN, NEW g, PiecesInSlots(h, g), NEW b, NEW m, NEW width \in Nat, NEW rs,
         NEW level \in 1..(DEPTH - 2), NEW frontier, FrontierOK(h, level - 1, rs, width, frontier),
         \A k \in DOMAIN frontier : OnLines(h, g, b, m, rs, level - 1, frontier[k]),
         NEW c \in score_mid_level(PLAN_TREES[h], g, level, frontier, m),
         NEW step, step = MidStep(PLAN_TREES[h], g, level, frontier, c.slot),
         NEW child, child = ChildIdx(PLAN_TREES[h], level, frontier, c.slot),
         NEW parent, parent = frontier[Parent(c.slot)],
         NEW e, e = [board |-> step.board, clears |-> step.clears, score |-> c.score,
                     node |-> child, rootRank |-> parent.rootRank]
  PROVE  OnLines(h, g, b, m, rs, level, e)
<1>1. PICK s : s = c.slot
  OBVIOUS
<1>2. PICK node : node = PLAN_TREES[h][level][child]
  OBVIOUS
<1>3. s \in MidCandidates(PLAN_TREES[h], g, level, frontier) /\ step.legal /\ c.score = Score(m, g, node, step)
  BY <1>1, <1>2, MidScored
<1>4. PICK t : t = g[node.slot]
  OBVIOUS
<1>5. PICK i : i = s % MAX_PLACEMENTS
  OBVIOUS
<1>6. /\ Parent(s) \in DOMAIN frontier
      /\ child \in DOMAIN PLAN_TREES[h][level]
      /\ child \in ChildRange(PLAN_TREES[h][level - 1][frontier[Parent(s)].node])
      /\ i \in 0..(n_theoretical_placements(t) - 1)
  BY <1>1, <1>2, <1>3, <1>4, <1>5, MidIndices
<1>7. parent = frontier[Parent(s)]
  BY <1>1
<1>8. PICK p : p = nth_placement(t, i)
  OBVIOUS
<1>9. step = apply(parent.board, parent.clears, t, p)
  BY <1>1, <1>2, <1>4, <1>5, <1>7, <1>8 DEF MidStep
<1>10. /\ e.board = step.board /\ e.clears = step.clears /\ e.score = c.score
       /\ e.node = child /\ e.rootRank = parent.rootRank
  OBVIOUS
<1>11. e.score = Evaluate(m, e.clears, e.board, heldIsI(g, PLAN_TREES[h][level][e.node]))
  BY <1>2, <1>3, <1>10 DEF Score
<1>12. PICK before \in Levels : before = level - 1 /\ before + 1 = level /\ before + 1 \in Levels
  BY DepthAssumption DEF Levels
<1>13. OnLines(h, g, b, m, rs, before, parent)
  BY <1>6, <1>7, <1>12
<1>14. parent.node \in DOMAIN PLAN_TREES[h][before]
  BY <1>6, <1>7, <1>12 DEF FrontierOK, NodeOK
<1>15. PICK last : KeptLine(h, g, rs, parent) = last
  OBVIOUS
<1>16. KeptLine(h, g, rs, e) = [board |-> step.board, clears |-> step.clears, move |-> last.move]
       /\ last.board = parent.board /\ last.clears = parent.clears
  BY <1>10, <1>15 DEF KeptLine
<1>17. ASSUME NEW d \in Plans, PLAN_NODES[h][level][d] = e.node
       PROVE  KeptLine(h, g, rs, e) \in LinesOf(PLANS[h][d], g, b, m, level + 1)
  <2>1. PICK plan : plan = PLANS[h][d]
    OBVIOUS
  <2>2. PLAN_NODES[h][before][d] = parent.node
    <3>1. PLAN_NODES[h][before + 1][d] \in ChildRange(PLAN_TREES[h][before][parent.node])
      BY <1>6, <1>7, <1>10, <1>12, <1>17
    <3>2. QED
      BY <1>12, <1>14, <3>1, PlansOfTheTree
  <2>3. last \in LinesOf(plan, g, b, m, level)
    BY <1>12, <1>13, <1>15, <2>1, <2>2 DEF OnLines
  <2>4. t = g[plan.slot[level]]
    <3>1. level \in Levels
      BY <1>12
    <3>2. node = PLAN_TREES[h][level][PLAN_NODES[h][level][d]]
      BY <1>2, <1>10, <1>17
    <3>3. plan.slot[level] = node.slot
      BY <2>1, <3>1, <3>2, PlanAtNode
    <3>4. QED
      BY <1>4, <3>3
  <2>5. PICK r : r = [board |-> step.board, clears |-> step.clears, move |-> last.move]
    OBVIOUS
  <2>6. PICK L, next : LinesOf(plan, g, b, m, level) = L /\ LinesOf(plan, g, b, m, level + 1) = next
    OBVIOUS
  <2>7. level \in 1..(DEPTH - 1)
    BY DepthAssumption
  <2>8. step = apply(last.board, last.clears, t, p)
    BY <1>9, <1>16
  <2>9. last \in L /\ step.legal
    BY <1>3, <2>3, <2>6
  <2>10. r \in next
    BY <1>6, <1>8, <2>4, <2>5, <2>6, <2>7, <2>8, <2>9, LinesGoOn
  <2>11. QED
    BY <1>16, <2>1, <2>5, <2>6, <2>10
<1>18. QED
  BY <1>11, <1>17 DEF OnLines

\* A move and a value that the exhaustive search weighs.
Weighed(h, g, b, m, move, value) ==
  \E d \in Plans : \E l \in PlanLeaves(PLANS[h][d], g, b, m) : l.move = move /\ l.value = value

\* A line of n placements that goes no further.
Stops(plan, g, n, q) == n < DEPTH => LegalSteps(q.board, q.clears, g[plan.slot[n]]) = {}

\* Where a plan's line stops, it is weighed.
LEMMA StopsWeighed ==
  ASSUME NEW h \in BOOLEAN, NEW g, NEW b, NEW m, NEW d \in Plans, NEW level \in Levels,
         NEW plan, plan = PLANS[h][d], NEW q \in LinesOf(plan, g, b, m, level + 1),
         Stops(plan, g, level + 1, q),
         NEW node, node = PLAN_TREES[h][level][PLAN_NODES[h][level][d]]
  PROVE  Weighed(h, g, b, m, q.move, Evaluate(m, q.clears, q.board, heldIsI(g, node)))
<1>1. PICK n \in 1..DEPTH : n = level + 1
  BY DepthAssumption DEF Levels
<1>2. PICK l : l = Leaf(plan, g, m, level + 1, q)
  OBVIOUS
<1>3. l \in PlanLeaves(plan, g, b, m)
  <2>1. q \in LinesOf(plan, g, b, m, n) /\ l = Leaf(plan, g, m, n, q)
    BY <1>1, <1>2
  <2>2. n < DEPTH => LegalSteps(q.board, q.clears, g[plan.slot[n]]) = {}
    BY <1>1, SMTT(30) DEF Stops
  <2>3. QED
    BY <2>1, <2>2, LeavesAre
<1>4. l.move = q.move /\ l.value = Evaluate(m, q.clears, q.board, heldIsI(g, node))
  <2>1. plan.heldSlot[level] = node.heldSlot
    BY PlanAtNode
  <2>2. level \in Nat /\ (level + 1) - 1 = level
    BY PlanSets
  <2>3. QED
    BY <1>2, <2>1, <2>2 DEF Leaf, heldIsI
<1>5. QED
  BY <1>3, <1>4 DEF Weighed

\* A node of a tree, and the piece that is placed there.
NodeAt(tree, level, n) == tree[level][n]
PieceAt(tree, g, level, n) == g[tree[level][n].slot]

\* What a multiple of a stride and a remainder divide to.
LEMMA Quotient ==
  ASSUME NEW q \in Nat \ {0}, NEW n \in Nat, NEW r \in 0..(q - 1), NEW a, a = n * q + r
  PROVE  a \div q = n /\ a % q = r
  OBVIOUS

MidSlot(k, c, i) == (k * MAX_CHILD_MID + c) * MAX_PLACEMENTS + i

\* The slot numbers of a middle level, two children to a node.
LEMMA SlotNumber ==
  ASSUME DEPTH > 2, NEW n \in Nat, NEW k \in Nat, k < n, NEW c \in {0, 1},
         NEW i \in 0..(MAX_PLACEMENTS - 1), NEW s, s = MidSlot(k, c, i)
  PROVE  /\ s \in Nat /\ s \in 0..(n * MAX_CHILD_MID * MAX_PLACEMENTS - 1)
         /\ (s \div MAX_PLACEMENTS) % MAX_CHILD_MID = c /\ s % MAX_PLACEMENTS = i
         /\ Parent(s) = k
<1>0. PICK M \in Nat \ {0} : MAX_PLACEMENTS = M /\ MAX_CHILD_MID = 2
  BY Strides
<1>1. PICK a \in Nat : a = k * 2 + c
  OBVIOUS
<1>2. s = a * M + i /\ i \in 0..(M - 1)
  BY <1>0, <1>1 DEF MidSlot
<1>3. s \in Nat /\ s \div M = a /\ s % M = i
  <2>1. s \div M = a /\ s % M = i
    BY <1>2, Quotient
  <2>2. a * M \in Nat /\ i \in Nat
    BY <1>2
  <2>3. QED
    BY <1>2, <2>1, <2>2
<1>4. a % 2 = c
  BY <1>1
<1>5. PICK q \in Nat \ {0} : q = 2 * M
  <2>1. 2 * M \in Nat \ {0}
    OBVIOUS
  <2>2. QED
    BY <2>1
<1>6. PICK r \in 0..(q - 1) : r = c * M + i
  <2>1. c * M \in {0, M}
    OBVIOUS
  <2>2. QED
    BY <1>2, <1>5, <2>1
<1>7. s = k * q + r
  <2>1. a * M = k * (2 * M) + c * M
    BY <1>1
  <2>2. QED
    BY <1>2, <1>5, <1>6, <2>1
<1>8. s \div q = k
  BY <1>7, Quotient
<1>9. s < n * q
  <2>1. k * q \in Nat /\ n * q \in Nat
    OBVIOUS
  <2>2. (k + 1) * q <= n * q
    <3>1. k + 1 <= n
      OBVIOUS
    <3>2. QED
      BY <3>1
  <2>3. (k + 1) * q = k * q + q
    OBVIOUS
  <2>4. QED
    BY <1>6, <1>7, <2>1, <2>2, <2>3
<1>10. n * 2 * M = n * q
  BY <1>5
<1>11. Parent(s) = k
  BY <1>0, <1>5, <1>8 DEF Parent
<1>12. s \in 0..(n * 2 * M - 1)
  <2>1. n * q \in Nat
    OBVIOUS
  <2>2. QED
    BY <1>3, <1>9, <1>10, <2>1
<1>13. QED
  BY <1>0, <1>3, <1>4, <1>11, <1>12

\* Every placement of every child of a kept node has a slot.
LEMMA MidSlotOf ==
  ASSUME NEW tree, NEW g, DEPTH > 2, NEW level,
         NEW frontier, NEW n \in Nat, Cardinality(DOMAIN frontier) = n, NEW k \in Nat, k < n,
         NEW e, e = frontier[k], NEW node, node = NodeAt(tree, level - 1, e.node),
         NEW first \in Nat, node.childBegin = first, node.childEnd = first + 2,
         NEW child \in first..(first + 1),
         NEW t \in Types, t = PieceAt(tree, g, level, child),
         NEW i \in 0..(n_theoretical_placements(t) - 1),
         NEW R, MidCandidates(tree, g, level, frontier) = R
  PROVE  \E s \in R :
           /\ Parent(s) = k /\ ChildIdx(tree, level, frontier, s) = child
           /\ s % MAX_PLACEMENTS = i
<1>1. PICK c \in {0, 1} : child = first + c
  <2>1. child - first \in {0, 1} /\ child = first + (child - first)
    OBVIOUS
  <2>2. QED
    BY <2>1
<1>2. i \in 0..(MAX_PLACEMENTS - 1) /\ i < n_theoretical_placements(t)
  <2>1. PICK M \in Nat, size \in Nat : size = n_theoretical_placements(t) /\ size <= M /\ M = MAX_PLACEMENTS
    BY Strides
  <2>2. QED
    BY <2>1
<1>3. PICK s : s = MidSlot(k, c, i)
  OBVIOUS
<1>4. /\ s \in Nat /\ s \in 0..(n * MAX_CHILD_MID * MAX_PLACEMENTS - 1)
      /\ (s \div MAX_PLACEMENTS) % MAX_CHILD_MID = c /\ s % MAX_PLACEMENTS = i
      /\ Parent(s) = k
  BY <1>2, <1>3, SlotNumber
<1>5. ChildIdx(tree, level, frontier, s) = child
  BY <1>1, <1>4 DEF ChildIdx, NodeAt
<1>6. s \in MidSlots(frontier)
  BY <1>4 DEF MidSlots
<1>7. s \in R
  <2>1. child < node.childEnd
    OBVIOUS
  <2>2. s % MAX_PLACEMENTS < n_theoretical_placements(t)
    BY <1>2, <1>4
  <2>3. QED
    BY <1>4, <1>5, <1>6, <2>1, <2>2 DEF MidCandidates, NodeAt, PieceAt
<1>8. QED
  BY <1>4, <1>5, <1>7

\* So every legal continuation of a kept node is scored.
LEMMA MidStepScored ==
  ASSUME NEW tree, NEW g, NEW m, DEPTH > 2, NEW level,
         NEW frontier, NEW n \in Nat, Cardinality(DOMAIN frontier) = n, NEW k \in Nat, k < n,
         NEW e, e = frontier[k], NEW node, node = NodeAt(tree, level - 1, e.node),
         NEW first \in Nat, node.childBegin = first, node.childEnd = first + 2,
         NEW child \in first..(first + 1),
         NEW t \in Types, t = PieceAt(tree, g, level, child),
         NEW i \in 0..(n_theoretical_placements(t) - 1),
         apply(e.board, e.clears, t, nth_placement(t, i)).legal,
         NEW scores, score_mid_level(tree, g, level, frontier, m) = scores
  PROVE  \E c \in scores :
           /\ Parent(c.slot) = k /\ ChildIdx(tree, level, frontier, c.slot) = child
           /\ c.slot % MAX_PLACEMENTS = i
<1>1. PICK R : MidCandidates(tree, g, level, frontier) = R
  OBVIOUS
<1>2. PICK s \in R : /\ Parent(s) = k /\ ChildIdx(tree, level, frontier, s) = child
                     /\ s % MAX_PLACEMENTS = i
  BY <1>1, MidSlotOf
<1>3. PICK step : step = MidStep(tree, g, level, frontier, s)
  OBVIOUS
<1>4. step = apply(e.board, e.clears, t, nth_placement(t, i))
  BY <1>2, <1>3 DEF MidStep, PieceAt
<1>5. step.legal
  BY <1>4
<1>6. PICK c \in scores : c.slot = s
  BY <1>1, <1>3, <1>5, MidAllScored
<1>7. QED
  BY <1>2, <1>6

\* No scored candidate continues kept node k.
Unscored(scores, k) == \A c \in scores : Parent(c.slot) # k

\* A node none of whose continuations is scored has none that fits, whatever
\* the next hold decision.
LEMMA DeadEndStops ==
  ASSUME NEW tree, NEW g, NEW m, DEPTH > 2, NEW level,
         NEW frontier, NEW n \in Nat, Cardinality(DOMAIN frontier) = n, NEW k \in Nat, k < n,
         NEW e, e = frontier[k], NEW node, node = NodeAt(tree, level - 1, e.node),
         NEW first \in Nat, node.childBegin = first, node.childEnd = first + 2,
         NEW child \in first..(first + 1),
         NEW t \in Types, t = PieceAt(tree, g, level, child),
         NEW scores, score_mid_level(tree, g, level, frontier, m) = scores,
         Unscored(scores, k),
         NEW S, LegalSteps(e.board, e.clears, t) = S
  PROVE  S = {}
<1> SUFFICES ASSUME NEW st \in S
             PROVE  FALSE
  OBVIOUS
<1>1. PICK i \in 0..(n_theoretical_placements(t) - 1) :
        /\ st.step = apply(e.board, e.clears, t, nth_placement(t, i))
        /\ st.step.legal
  BY StepsAreLegal
<1>2. apply(e.board, e.clears, t, nth_placement(t, i)).legal
  BY <1>1
<1>3. \E c \in scores : Parent(c.slot) = k
  BY <1>2, MidStepScored
<1>4. QED
  BY <1>3 DEF Unscored

\* The same of a kept node of the tree.
LEMMA DeadEndOfTree ==
  ASSUME NEW h \in BOOLEAN, NEW g, PiecesInSlots(h, g), NEW m, NEW width \in Nat, NEW rs,
         NEW level \in 1..(DEPTH - 2), NEW before \in Levels, before = level - 1, level \in Levels,
         NEW frontier, FrontierOK(h, before, rs, width, frontier),
         NEW k \in DOMAIN frontier, NEW e, e = frontier[k],
         NEW child \in ChildRange(PLAN_TREES[h][before][e.node]),
         NEW t, t = PieceAt(PLAN_TREES[h], g, level, child),
         NEW scores, score_mid_level(PLAN_TREES[h], g, level, frontier, m) = scores,
         Unscored(scores, k)
  PROVE  LegalSteps(e.board, e.clears, t) = {}
<1>1. PICK n \in Nat : Cardinality(DOMAIN frontier) = n /\ k \in Nat /\ k < n
  <2>1. PICK n \in 0..width : DOMAIN frontier = 0..(n - 1)
    BY DEF FrontierOK
  <2>2. 0 \in Int /\ n - 1 \in Int
    BY <2>1
  <2>3. Cardinality(0..(n - 1)) = n
    BY <2>1, <2>2, FS_Interval
  <2>4. QED
    BY <2>1, <2>3
<1>2. PICK tree : tree = PLAN_TREES[h]
  OBVIOUS
<1>3. PICK node : node = NodeAt(tree, before, e.node) /\ node = tree[before][e.node]
  BY DEF NodeAt
<1>4. before + 1 = level /\ before + 1 \in Levels
  BY PlanSets
<1>5. e.node \in DOMAIN PLAN_TREES[h][before]
  BY DEF FrontierOK, NodeOK
<1>6. PICK first \in Nat : /\ node.childBegin = first /\ node.childEnd = first + 2
                           /\ ChildRange(node) \subseteq DOMAIN PLAN_TREES[h][level]
  BY <1>2, <1>3, <1>4, <1>5, NodesOfTheTree
<1>7. child \in first..(first + 1)
  BY <1>2, <1>3, <1>6 DEF ChildRange
<1>8. t \in Types
  <2>1. child \in DOMAIN PLAN_TREES[h][level]
    BY <1>2, <1>3, <1>6
  <2>2. QED
    BY <2>1, NodePiece DEF PieceAt
<1>9. DEPTH > 2
  BY DepthAssumption
<1>10. t = PieceAt(tree, g, level, child) /\ score_mid_level(tree, g, level, frontier, m) = scores
  BY <1>2
<1>11. PICK S : LegalSteps(e.board, e.clears, t) = S
  OBVIOUS
<1>12. node = NodeAt(tree, level - 1, e.node)
  BY <1>3
<1>13. S = {}
  <2>1. PICK rank \in Nat : rank = k /\ rank < n
    BY <1>1
  <2>2. PICK next \in first..(first + 1) : next = child
    BY <1>7
  <2>3. t = PieceAt(tree, g, level, next) /\ e = frontier[rank] /\ Unscored(scores, rank)
    BY <1>10, <2>1, <2>2
  <2>4. node.childBegin = first /\ node.childEnd = first + 2
    BY <1>6
  <2>5. Cardinality(DOMAIN frontier) = n /\ score_mid_level(tree, g, level, frontier, m) = scores
    BY <1>1, <1>10
  <2>6. QED
    BY <1>8, <1>9, <1>11, <1>12, <2>1, <2>3, <2>4, <2>5, DeadEndStops, SMTT(40)
<1>14. QED
  BY <1>11, <1>13

\* A kept node that no continuation of a middle level scores is a dead end of
\* the exhaustive search, with the score and the move of its line.
LEMMA DeadEndWeighed ==
  ASSUME NEW h \in BOOLEAN, NEW g, PiecesInSlots(h, g), NEW b, NEW m, NEW width \in Nat, NEW rs,
         NEW level \in 1..(DEPTH - 2), NEW before \in Levels, before = level - 1,
         NEW frontier, FrontierOK(h, before, rs, width, frontier),
         NEW k \in DOMAIN frontier, NEW e, e = frontier[k], OnLines(h, g, b, m, rs, before, e),
         NEW scores, score_mid_level(PLAN_TREES[h], g, level, frontier, m) = scores,
         Unscored(scores, k)
  PROVE  Weighed(h, g, b, m, RootMove(PLAN_TREES[h], g, rs[e.rootRank].slot), e.score)
<1>1. before + 1 = level /\ before + 1 \in Levels /\ level \in Levels
  BY DepthAssumption DEF Levels
<1>2. e.node \in DOMAIN PLAN_TREES[h][before]
  BY <1>1 DEF FrontierOK, NodeOK
<1>3. PICK d \in Plans : PLAN_NODES[h][before][d] = e.node
  BY <1>1, <1>2, NodeHasAPlan
<1>4. PICK plan : plan = PLANS[h][d]
  OBVIOUS
<1>5. PICK q : KeptLine(h, g, rs, e) = q
  OBVIOUS
<1>6. q \in LinesOf(plan, g, b, m, before + 1)
  BY <1>3, <1>4, <1>5 DEF OnLines
<1>7. q.board = e.board /\ q.clears = e.clears /\ q.move = RootMove(PLAN_TREES[h], g, rs[e.rootRank].slot)
  BY <1>5 DEF KeptLine
<1>8. PICK child : child = PLAN_NODES[h][level][d]
  OBVIOUS
<1>9. child \in ChildRange(PLAN_TREES[h][before][e.node])
  BY <1>1, <1>2, <1>3, <1>8, PlansOfTheTree
<1>10. PICK t : t = PieceAt(PLAN_TREES[h], g, level, child)
  OBVIOUS
<1>11. t = g[plan.slot[level]]
  <2>1. plan.slot[level] = PLAN_TREES[h][level][child].slot
    BY <1>1, <1>4, <1>8, PlanAtNode
  <2>2. QED
    BY <1>10, <2>1 DEF PieceAt
<1>12. LegalSteps(e.board, e.clears, t) = {}
  BY <1>1, <1>9, <1>10, DeadEndOfTree, ZenonT(60)
<1>14. PICK last : last = PLAN_TREES[h][before][PLAN_NODES[h][before][d]]
  OBVIOUS
<1>15. Stops(plan, g, before + 1, q)
  BY <1>1, <1>7, <1>11, <1>12 DEF Stops
<1>16. Weighed(h, g, b, m, q.move, Evaluate(m, q.clears, q.board, heldIsI(g, last)))
  BY <1>4, <1>6, <1>14, <1>15, StopsWeighed
<1>17. e.score = Evaluate(m, q.clears, q.board, heldIsI(g, last))
  BY <1>3, <1>7, <1>14 DEF OnLines
<1>18. QED
  BY <1>7, <1>16, <1>17

\* The leaves of a kept node under one hold decision: the scores of all its
\* placements, or the kept node itself when none fits.
LeafCandidates(e, cnode, t, base) ==
  {[slot |-> o, node |-> cnode, step |-> LeafStep(e, t, o - base)] :
     o \in base..(base + n_theoretical_placements(t) - 1)}

LeafScores(m, g, e, cnode, t, base) ==
  LET leaves == Scored(m, g, LeafCandidates(e, cnode, t, base))
  IN  IF leaves = {} THEN {[slot |-> base, score |-> e.score]} ELSE leaves

LEMMA LeavesAreScores ==
  ASSUME NEW tree, NEW g, NEW frontier, NEW m, NEW j \in Nat, NEW child \in Int, NEW e, e = frontier[j],
         NEW cnode, cnode = NodeAt(tree, DEPTH - 1, child),
         NEW t \in Types, t = PieceAt(tree, g, DEPTH - 1, child),
         NEW first \in Nat, NodeAt(tree, DEPTH - 2, e.node).childBegin = first,
         NEW S, LeavesOf(tree, g, frontier, m, j, child) = S
  PROVE  \E base \in Int : LeafScores(m, g, e, cnode, t, base) = S
<1>1. PICK base \in Int : base = (j * MAX_LAST + child - first) * MAX_PLACEMENTS
  <2>1. PICK M \in Nat : M = MAX_PLACEMENTS /\ MAX_LAST = 2
    BY Strides
  <2>2. (j * 2 + child - first) * M \in Int
    BY <2>1
  <2>3. QED
    BY <2>1, <2>2
<1>2. PICK leaves : leaves = Scored(m, g, LeafCandidates(e, cnode, t, base))
  OBVIOUS
<1>3. leaves = Scored(m, g, {[slot |-> o, node |-> cnode, step |-> LeafStep(frontier[j], t, o - base)] :
                               o \in base..(base + n_theoretical_placements(t) - 1)})
  BY <1>2 DEF LeafCandidates
<1>4. t = g[tree[DEPTH - 1][child].slot] /\ cnode = tree[DEPTH - 1][child]
      /\ tree[DEPTH - 2][frontier[j].node].childBegin = first
  BY DEF NodeAt, PieceAt
<1>5. S = IF leaves = {} THEN {[slot |-> base, score |-> e.score]} ELSE leaves
  BY <1>1, <1>3, <1>4 DEF LeavesOf
<1>6. LeafScores(m, g, e, cnode, t, base) = S
  BY <1>2, <1>5 DEF LeafScores
<1>7. QED
  BY <1>6

\* So a leaf is the score of a step that fits, or that of a node with none.
LEMMA LeavesAreSteps ==
  ASSUME NEW tree, NEW g, NEW frontier, NEW m, NEW j \in Nat, NEW child \in Int, NEW e, e = frontier[j],
         NEW cnode, cnode = NodeAt(tree, DEPTH - 1, child),
         NEW t \in Types, t = PieceAt(tree, g, DEPTH - 1, child),
         NEW first \in Nat, NodeAt(tree, DEPTH - 2, e.node).childBegin = first,
         NEW S, LeavesOf(tree, g, frontier, m, j, child) = S, NEW key \in S
  PROVE  \/ \E i \in 0..(n_theoretical_placements(t) - 1) : \E step :
              /\ step = apply(e.board, e.clears, t, nth_placement(t, i)) /\ step.legal
              /\ key.score = Score(m, g, cnode, step)
         \/ /\ \A i \in 0..(n_theoretical_placements(t) - 1) :
                 ~apply(e.board, e.clears, t, nth_placement(t, i)).legal
            /\ key.score = e.score
<1>1. PICK n \in Nat : n = n_theoretical_placements(t)
  BY Strides
<1>2. PICK base \in Int : LeafScores(m, g, e, cnode, t, base) = S
  BY LeavesAreScores
<1> DEFINE R == base..(base + n - 1)
           C == {[slot |-> o, node |-> cnode, step |-> LeafStep(e, t, o - base)] : o \in R}
           leaves == Scored(m, g, C)
           own == [slot |-> base, score |-> e.score]
<1>3. S = IF leaves = {} THEN {own} ELSE leaves
  BY <1>1, <1>2 DEF LeafCandidates, LeafScores
<1>4. \A c \in C : \E o \in R : c.node = cnode /\ c.step = LeafStep(e, t, o - base)
  OBVIOUS
<1>5. \A o \in R : \E c \in C : c.step = LeafStep(e, t, o - base)
  <2>1. ASSUME NEW o \in R
        PROVE  \E c \in C : c.step = LeafStep(e, t, o - base)
    <3>1. PICK c : c = [slot |-> o, node |-> cnode, step |-> LeafStep(e, t, o - base)]
      OBVIOUS
    <3>2. c \in C
      BY <3>1
    <3> HIDE DEF C
    <3>3. QED
      BY <3>1, <3>2
  <2>2. QED
    BY <2>1
<1> HIDE DEF C
<1>6. CASE leaves = {}
  <2>1. key.score = e.score
    <3>1. key = own
      BY <1>3, <1>6
    <3>2. QED
      BY <3>1
  <2>2. ASSUME NEW i \in 0..(n_theoretical_placements(t) - 1)
        PROVE  ~apply(e.board, e.clears, t, nth_placement(t, i)).legal
    <3>1. PICK o \in R : o - base = i
      <4>1. base + i \in R /\ (base + i) - base = i
        BY <1>1
      <4>2. QED
        BY <4>1
    <3>2. PICK c \in C : c.step = LeafStep(e, t, o - base)
      BY <1>5
    <3>3. ~c.step.legal
      <4>1. PICK k : k = [slot |-> c.slot, score |-> Score(m, g, c.node, c.step)]
        OBVIOUS
      <4>2. k \in leaves <=> \E x \in C : x.step.legal /\ k = [slot |-> x.slot, score |-> Score(m, g, x.node, x.step)]
        BY ScoredMember
      <4> HIDE DEF leaves
      <4>3. QED
        BY <1>6, <4>1, <4>2
    <3>4. QED
      BY <3>1, <3>2, <3>3 DEF LeafStep
  <2>3. QED
    BY <2>1, <2>2
<1>7. CASE leaves # {}
  <2>1. key \in leaves
    BY <1>3, <1>7
  <2>2. PICK c \in C : c.step.legal /\ key = [slot |-> c.slot, score |-> Score(m, g, c.node, c.step)]
    BY <2>1, ScoredMember
  <2>3. PICK o \in R : c.node = cnode /\ c.step = LeafStep(e, t, o - base)
    BY <1>4
  <2>4. PICK i : i = o - base
    OBVIOUS
  <2>5. i \in 0..(n_theoretical_placements(t) - 1)
    BY <1>1, <2>4
  <2>6. key.score = Score(m, g, cnode, c.step)
    BY <2>2, <2>3
  <2>7. c.step = apply(e.board, e.clears, t, nth_placement(t, i))
    BY <2>3, <2>4 DEF LeafStep
  <2>8. QED
    BY <2>2, <2>5, <2>6, <2>7
<1>8. QED
  BY <1>6, <1>7

\* And every step that fits has its leaf.
LEMMA StepsAreLeaves ==
  ASSUME NEW tree, NEW g, NEW frontier, NEW m, NEW j \in Nat, NEW child \in Int, NEW e, e = frontier[j],
         NEW cnode, cnode = NodeAt(tree, DEPTH - 1, child),
         NEW t \in Types, t = PieceAt(tree, g, DEPTH - 1, child),
         NEW first \in Nat, NodeAt(tree, DEPTH - 2, e.node).childBegin = first,
         NEW S, LeavesOf(tree, g, frontier, m, j, child) = S,
         NEW i \in 0..(n_theoretical_placements(t) - 1),
         NEW step, step = apply(e.board, e.clears, t, nth_placement(t, i)), step.legal
  PROVE  \E key \in S : key.score = Score(m, g, cnode, step)
<1>1. PICK n \in Nat : n = n_theoretical_placements(t)
  BY Strides
<1>2. PICK base \in Int : LeafScores(m, g, e, cnode, t, base) = S
  BY LeavesAreScores
<1>3. PICK C : C = LeafCandidates(e, cnode, t, base)
  OBVIOUS
<1>4. PICK o : o = base + i
  OBVIOUS
<1>5. o \in base..(base + n_theoretical_placements(t) - 1) /\ o - base = i
  BY <1>1, <1>4
<1>6. PICK c : c = [slot |-> o, node |-> cnode, step |-> LeafStep(e, t, o - base)]
  OBVIOUS
<1>7. c \in C
  BY <1>3, <1>5, <1>6 DEF LeafCandidates
<1>8. c.node = cnode /\ c.step = step
  BY <1>5, <1>6 DEF LeafStep
<1>9. PICK key : key = [slot |-> c.slot, score |-> Score(m, g, c.node, c.step)]
  OBVIOUS
<1>10. key \in Scored(m, g, C)
  BY <1>7, <1>8, <1>9, ScoredMember
<1>11. key \in S
  BY <1>2, <1>3, <1>10 DEF LeafScores
<1>12. key.score = Score(m, g, cnode, step)
  BY <1>8, <1>9
<1>13. QED
  BY <1>11, <1>12

\* Every leaf is a leaf of the exhaustive search, with the move of its line.
LEMMA LeafWeighed ==
  ASSUME NEW h \in BOOLEAN, NEW g, PiecesInSlots(h, g), NEW b, NEW m, NEW width \in Nat, NEW rs,
         NEW level \in Levels, level = DEPTH - 2,
         NEW frontier, FrontierOK(h, level, rs, width, frontier),
         NEW j \in DOMAIN frontier, NEW e, e = frontier[j], OnLines(h, g, b, m, rs, level, e),
         NEW child \in ChildRange(PLAN_TREES[h][level][e.node]),
         NEW S, LeavesOf(PLAN_TREES[h], g, frontier, m, j, child) = S, NEW key \in S
  PROVE  Weighed(h, g, b, m, RootMove(PLAN_TREES[h], g, rs[e.rootRank].slot), key.score)
<1>1. PICK next \in Levels : next = level + 1 /\ next = DEPTH - 1 /\ level + 1 \in Levels
  BY DepthAssumption DEF Levels
<1>2. PICK tree : tree = PLAN_TREES[h]
  OBVIOUS
<1>3. e.node \in DOMAIN PLAN_TREES[h][level]
  BY DEF FrontierOK, NodeOK
<1>4. PICK first \in Nat : NodeAt(tree, DEPTH - 2, e.node).childBegin = first
  BY <1>1, <1>2, <1>3, NodesOfTheTree DEF NodeAt
<1>5. child \in DOMAIN PLAN_TREES[h][next] /\ child \in Int
  <2>1. PICK node : node = PLAN_TREES[h][level][e.node]
    OBVIOUS
  <2>2. ChildRange(node) \subseteq DOMAIN PLAN_TREES[h][next]
    BY <1>1, <1>3, <2>1, NodesOfTheTree
  <2>3. child \in ChildRange(node)
    BY <2>1
  <2>4. QED
    BY <2>2, <2>3 DEF ChildRange
<1>6. PICK d \in Plans : PLAN_NODES[h][next][d] = child
  BY <1>5, NodeHasAPlan
<1>7. PLAN_NODES[h][level][d] = e.node
  BY <1>1, <1>3, <1>6, PlansOfTheTree
<1>8. PICK plan : plan = PLANS[h][d]
  OBVIOUS
<1>9. PICK q : KeptLine(h, g, rs, e) = q
  OBVIOUS
<1>10. q \in LinesOf(plan, g, b, m, level + 1)
  BY <1>7, <1>8, <1>9 DEF OnLines
<1>11. q.board = e.board /\ q.clears = e.clears /\ q.move = RootMove(PLAN_TREES[h], g, rs[e.rootRank].slot)
  BY <1>9 DEF KeptLine
<1>12. PICK t \in Types : t = PieceAt(tree, g, next, child)
  <2>1. g[PLAN_TREES[h][next][child].slot] \in Types
    BY <1>5, NodePiece
  <2>2. QED
    BY <1>2, <2>1 DEF PieceAt
<1>13. t = g[plan.slot[next]]
  <2>1. plan.slot[next] = tree[next][child].slot
    BY <1>2, <1>6, <1>8, PlanAtNode
  <2>2. QED
    BY <1>12, <2>1 DEF PieceAt
<1>14. PICK cnode : cnode = NodeAt(tree, next, child) /\ cnode = PLAN_TREES[h][next][PLAN_NODES[h][next][d]]
  BY <1>2, <1>6 DEF NodeAt
<1>15. \/ \E i \in 0..(n_theoretical_placements(t) - 1) : \E step :
            /\ step = apply(e.board, e.clears, t, nth_placement(t, i)) /\ step.legal
            /\ key.score = Score(m, g, cnode, step)
       \/ /\ \A i \in 0..(n_theoretical_placements(t) - 1) :
               ~apply(e.board, e.clears, t, nth_placement(t, i)).legal
          /\ key.score = e.score
  <2>1. PICK rank \in Nat : rank = j
    BY DEF FrontierOK
  <2>2. PICK x \in Int : x = child
    BY <1>5
  <2>3. t = PieceAt(tree, g, DEPTH - 1, x) /\ cnode = NodeAt(tree, DEPTH - 1, x)
    BY <1>1, <1>12, <1>14, <2>2
  <2>4. LeavesOf(tree, g, frontier, m, rank, x) = S /\ e = frontier[rank]
    BY <1>2, <2>1, <2>2
  <2>5. QED
    BY <1>4, <2>3, <2>4, LeavesAreSteps
<1>16. CASE \E i \in 0..(n_theoretical_placements(t) - 1) : \E step :
              /\ step = apply(e.board, e.clears, t, nth_placement(t, i)) /\ step.legal
              /\ key.score = Score(m, g, cnode, step)
  <2>0. PICK i \in 0..(n_theoretical_placements(t) - 1) : \E step :
          /\ step = apply(e.board, e.clears, t, nth_placement(t, i)) /\ step.legal
          /\ key.score = Score(m, g, cnode, step)
    BY <1>16
  <2>1. PICK step :
          /\ step = apply(e.board, e.clears, t, nth_placement(t, i)) /\ step.legal
          /\ key.score = Score(m, g, cnode, step)
    BY <2>0
  <2>2. PICK r : r = [board |-> step.board, clears |-> step.clears, move |-> q.move]
    OBVIOUS
  <2>3. PICK longer : LinesOf(plan, g, b, m, next + 1) = longer
    OBVIOUS
  <2>4. r \in longer
    <3>1. PICK L, p : LinesOf(plan, g, b, m, next) = L /\ p = nth_placement(t, i)
      OBVIOUS
    <3>2. q \in L /\ step = apply(q.board, q.clears, t, p) /\ next \in 1..(DEPTH - 1)
      BY <1>1, <1>10, <1>11, <2>1, <3>1, DepthAssumption
    <3>3. QED
      BY <1>13, <2>1, <2>2, <2>3, <3>1, <3>2, LinesGoOn
  <2>5. r.board = step.board /\ r.clears = step.clears /\ r.move = q.move
    BY <2>2
  <2>6. Stops(plan, g, next + 1, r)
    BY <1>1, DepthAssumption DEF Stops
  <2>7. r \in LinesOf(plan, g, b, m, next + 1)
    BY <2>3, <2>4
  <2>8. Weighed(h, g, b, m, r.move, Evaluate(m, r.clears, r.board, heldIsI(g, cnode)))
    BY <1>8, <1>14, <2>6, <2>7, StopsWeighed
  <2>9. key.score = Evaluate(m, r.clears, r.board, heldIsI(g, cnode))
    BY <2>1, <2>5 DEF Score
  <2>10. QED
    BY <1>11, <2>5, <2>8, <2>9
<1>17. CASE /\ \A i \in 0..(n_theoretical_placements(t) - 1) :
                 ~apply(e.board, e.clears, t, nth_placement(t, i)).legal
            /\ key.score = e.score
  <2>1. LegalSteps(e.board, e.clears, t) = {}
    <3>1. PICK X : LegalSteps(e.board, e.clears, t) = X
      OBVIOUS
    <3>2. ASSUME NEW s \in X
          PROVE  FALSE
      <4>1. PICK i \in 0..(n_theoretical_placements(t) - 1) :
              s.step = apply(e.board, e.clears, t, nth_placement(t, i)) /\ s.step.legal
        BY <3>1, StepsAreLegal
      <4>2. apply(e.board, e.clears, t, nth_placement(t, i)).legal
        BY <4>1
      <4>3. QED
        BY <1>17, <4>2
    <3>3. QED
      BY <3>1, <3>2
  <2>2. Stops(plan, g, level + 1, q)
    BY <1>1, <1>11, <1>13, <2>1 DEF Stops
  <2>3. PICK last : last = PLAN_TREES[h][level][PLAN_NODES[h][level][d]]
    OBVIOUS
  <2>4. Weighed(h, g, b, m, q.move, Evaluate(m, q.clears, q.board, heldIsI(g, last)))
    BY <1>8, <1>10, <2>2, <2>3, StopsWeighed
  <2>5. e.score = Evaluate(m, q.clears, q.board, heldIsI(g, last))
    BY <1>7, <1>11, <2>3 DEF OnLines
  <2>6. QED
    BY <1>11, <1>17, <2>4, <2>5
<1>18. QED
  BY <1>15, <1>16, <1>17

\* What a stage keeps, and what its dead ends offer, descends from lines.
FrontierOnLines(h, g, b, m, rs, level, frontier) ==
  \A k \in DOMAIN frontier : OnLines(h, g, b, m, rs, level, frontier[k])

OffersWeighed(h, g, b, m, widths, rs, S) ==
  \A c \in S :
    Weighed(h, g, b, m, RootMove(PLAN_TREES[h], g, rs[c.slot - leaf_orders(widths)].slot), c.score)

\* A middle level keeps lines of one placement more.
LEMMA AdvancedOnLines ==
  ASSUME NEW h \in BOOLEAN, NEW g, PiecesInSlots(h, g), NEW b, NEW m, NEW width \in Nat, NEW rs,
         NEW level \in 1..(DEPTH - 2), NEW frontier, FrontierOK(h, level - 1, rs, width, frontier),
         FrontierOnLines(h, g, b, m, rs, level - 1, frontier),
         NEW top, \A r \in DOMAIN top : top[r] \in score_mid_level(PLAN_TREES[h], g, level, frontier, m),
         NEW next, next = advance_frontier(PLAN_TREES[h], g, level, frontier, top)
  PROVE  FrontierOnLines(h, g, b, m, rs, level, next)
<1>1. \A k \in DOMAIN frontier : OnLines(h, g, b, m, rs, level - 1, frontier[k])
  BY DEF FrontierOnLines
<1>2. ASSUME NEW k \in DOMAIN next
      PROVE  OnLines(h, g, b, m, rs, level, next[k])
  <2>1. k \in DOMAIN top
    BY DEF advance_frontier
  <2>2. PICK c \in score_mid_level(PLAN_TREES[h], g, level, frontier, m) : c = top[k]
    BY <2>1
  <2>3. PICK step : step = MidStep(PLAN_TREES[h], g, level, frontier, c.slot)
    OBVIOUS
  <2>4. PICK child : child = ChildIdx(PLAN_TREES[h], level, frontier, c.slot)
    OBVIOUS
  <2>5. PICK parent : parent = frontier[Parent(c.slot)]
    OBVIOUS
  <2>6. PICK e : e = next[k]
    OBVIOUS
  <2>7. e = [board |-> step.board, clears |-> step.clears, score |-> c.score,
             node |-> child, rootRank |-> parent.rootRank]
    BY <2>1, <2>2, <2>3, <2>4, <2>5, <2>6 DEF advance_frontier
  <2>8. OnLines(h, g, b, m, rs, level, e)
    BY <1>1, <2>3, <2>4, <2>5, <2>7, ContinuedOnLines
  <2>9. QED
    BY <2>6, <2>8
<1>3. QED
  BY <1>2 DEF FrontierOnLines

\* A dead end's offer is the value of a line that stops there.
LEMMA FallbacksWeighed ==
  ASSUME NEW h \in BOOLEAN, NEW g, PiecesInSlots(h, g), NEW b, NEW m, NEW width \in Nat,
         NEW rs, \A r \in DOMAIN rs : r \in Nat, NEW widths \in BeamWidths,
         NEW level \in 1..(DEPTH - 2), NEW before \in Levels, before = level - 1,
         NEW frontier, FrontierOK(h, before, rs, width, frontier),
         FrontierOnLines(h, g, b, m, rs, before, frontier),
         NEW scores, score_mid_level(PLAN_TREES[h], g, level, frontier, m) = scores,
         NEW S, S = Fallbacks(widths, frontier, scores)
  PROVE  OffersWeighed(h, g, b, m, widths, rs, S)
<1> SUFFICES ASSUME NEW c \in S
             PROVE  Weighed(h, g, b, m,
                      RootMove(PLAN_TREES[h], g, rs[c.slot - leaf_orders(widths)].slot), c.score)
  BY DEF OffersWeighed
<1>1. PICK k \in DOMAIN frontier :
        /\ \A x \in scores : Parent(x.slot) # k
        /\ c = [score |-> frontier[k].score, slot |-> leaf_orders(widths) + frontier[k].rootRank]
  BY DEF Fallbacks
<1>2. PICK e : e = frontier[k]
  OBVIOUS
<1>3. Unscored(scores, k)
  BY <1>1 DEF Unscored
<1>4. OnLines(h, g, b, m, rs, before, e)
  BY <1>2 DEF FrontierOnLines
<1>5. Weighed(h, g, b, m, RootMove(PLAN_TREES[h], g, rs[e.rootRank].slot), e.score)
  BY <1>2, <1>3, <1>4, DeadEndWeighed
<1>6. c.score = e.score /\ c.slot - leaf_orders(widths) = e.rootRank
  <2>1. e.rootRank \in Nat
    BY <1>2 DEF FrontierOK, NodeOK
  <2>2. leaf_orders(widths) \in Nat
    <3>1. 0 \in 0..(DEPTH - 2)
      BY DepthAssumption
    <3>2. QED
      BY <3>1, Widths
  <2>3. c.score = e.score /\ c.slot = leaf_orders(widths) + e.rootRank
    BY <1>1, <1>2
  <2>4. QED
    BY <2>1, <2>2, <2>3
<1>7. QED
  BY <1>5, <1>6

\* A leaf decodes to the root of its line, and is weighed there.
LEMMA LeavesWeighed ==
  ASSUME ScoresAreNumbers, NEW m \in Models, NEW widths \in BeamWidths,
         NEW h \in BOOLEAN, NEW g, PiecesInSlots(h, g), NEW b, NEW rs,
         NEW frontier, FrontierOK(h, DEPTH - 2, rs, Width(widths, DEPTH - 2), frontier),
         FrontierOnLines(h, g, b, m, rs, DEPTH - 2, frontier),
         NEW key \in expand_leaves(PLAN_TREES[h], g, frontier, m)
  PROVE  Weighed(h, g, b, m,
           RootMove(PLAN_TREES[h], g, rs[RootRank(widths, frontier, key.slot)].slot), key.score)
<1>1. PICK j \in DOMAIN frontier :
        key \in UNION {LeavesOf(PLAN_TREES[h], g, frontier, m, j, child) :
                         child \in ChildRange(PLAN_TREES[h][DEPTH - 2][frontier[j].node])}
  BY DEF expand_leaves
<1>2. PICK child \in ChildRange(PLAN_TREES[h][DEPTH - 2][frontier[j].node]) :
        key \in LeavesOf(PLAN_TREES[h], g, frontier, m, j, child)
  BY <1>1
<1>3. PICK S : LeavesOf(PLAN_TREES[h], g, frontier, m, j, child) = S
  OBVIOUS
<1>4. PICK e : e = frontier[j]
  OBVIOUS
<1>5. /\ key.slot \in Int /\ key.slot < leaf_orders(widths)
      /\ key.slot \div (MAX_LAST * MAX_PLACEMENTS) = j
  <2>1. S \in SUBSET Keys
    BY <1>3, LeavesOfChild
  <2>2. \A k \in S : k.slot < leaf_orders(widths) /\ k.slot \div (MAX_LAST * MAX_PLACEMENTS) = j
    BY <1>3, LeavesOfChild
  <2>3. QED
    BY <1>2, <1>3, <2>1, <2>2 DEF Keys
<1>6. RootRank(widths, frontier, key.slot) = e.rootRank
  <2>1. leaf_orders(widths) \in Nat
    <3>1. 0 \in 0..(DEPTH - 2)
      BY DepthAssumption
    <3>2. QED
      BY <3>1, Widths
  <2>2. ~(key.slot >= leaf_orders(widths))
    BY <1>5, <2>1
  <2>3. QED
    BY <1>4, <1>5, <2>2 DEF RootRank
<1>7. PICK level \in Levels : level = DEPTH - 2
  BY DepthAssumption DEF Levels
<1>8. PICK width \in Nat : width = Width(widths, DEPTH - 2)
  <2>1. DEPTH - 2 \in 0..(DEPTH - 2)
    BY DepthAssumption
  <2>2. QED
    BY <2>1, Widths
<1>9. FrontierOK(h, level, rs, width, frontier) /\ OnLines(h, g, b, m, rs, level, e)
  BY <1>4, <1>7, <1>8 DEF FrontierOnLines
<1>10. child \in ChildRange(PLAN_TREES[h][level][e.node]) /\ key \in S
  BY <1>2, <1>3, <1>4, <1>7
<1>11. Weighed(h, g, b, m, RootMove(PLAN_TREES[h], g, rs[e.rootRank].slot), key.score)
  BY <1>3, <1>4, <1>7, <1>9, <1>10, LeafWeighed
<1>12. QED
  BY <1>6, <1>11

\* A search starts on lines.
LEMMA SearchStartsOnLines ==
  ASSUME ScoresAreNumbers, IInv, model \in Models, ks \in BeamWidths,
         NEW scores, scores = score_roots(Tree, Slots, board, model),
         NEW rs, rs = select_top(scores, Width(ks, 0)),
         NEW frontier, frontier = seed_frontier(Tree, Slots, board, rs)
  PROVE  FrontierOnLines(NoHeld, Slots, board, model, rs, 0, frontier)
<1>1. PICK h \in BOOLEAN : h = NoHeld
  BY GatheredSlots
<1>2. PICK g : g = Slots
  OBVIOUS
<1>3. PiecesInSlots(h, g) /\ board \in Boards /\ Tree = PLAN_TREES[h]
  BY <1>1, <1>2, GatheredSlots
<1>4. PICK width \in Nat \ {0} : width = Width(ks, 0)
  <2>1. 0 \in 0..(DEPTH - 2)
    BY DepthAssumption
  <2>2. QED
    BY <2>1, Widths
<1>5. scores \in SUBSET Keys /\ IsFiniteSet(scores)
  BY <1>2, <1>3, RootScores
<1>6. \A r \in DOMAIN rs : rs[r] \in scores
  <2>1. rs = select_top(scores, width)
    BY <1>4
  <2>2. QED
    BY <1>5, <2>1, TopIsRanked
<1>7. PICK b \in Boards, m \in Models : b = board /\ m = model
  BY <1>3
<1>8. \A r \in DOMAIN rs : rs[r] \in score_roots(PLAN_TREES[h], g, b, m)
  BY <1>2, <1>3, <1>6, <1>7
<1>9. frontier = seed_frontier(PLAN_TREES[h], g, b, rs)
  BY <1>2, <1>3, <1>7
<1>10. \A k \in DOMAIN frontier : OnLines(h, g, b, m, rs, 0, frontier[k])
  BY <1>3, <1>8, <1>9, SeededOnLines
<1>11. QED
  BY <1>1, <1>2, <1>7, <1>10 DEF FrontierOnLines

\* A middle level stays on them, and so do its offers.
LEMMA SearchStaysOnLines ==
  ASSUME ScoresAreNumbers, IInv, model \in Models, ks \in BeamWidths, Searching,
         FrontierOnLines(NoHeld, Slots, board, model, roots, layer, kept),
         OffersWeighed(NoHeld, Slots, board, model, ks, roots, best),
         NEW level, level = layer + 1, layer < DEPTH - 2,
         NEW scores, scores = score_mid_level(Tree, Slots, level, kept, model),
         NEW offers, offers = best \cup Fallbacks(ks, kept, scores),
         NEW next, next = advance_frontier(Tree, Slots, level, kept, select_top(scores, Width(ks, level))),
         NEW best1, best1 = IF offers = {} THEN {} ELSE {BestKey(offers)}
  PROVE  /\ FrontierOnLines(NoHeld, Slots, board, model, roots, level, next)
         /\ OffersWeighed(NoHeld, Slots, board, model, ks, roots, best1)
<1>1. PICK h \in BOOLEAN : h = NoHeld
  BY GatheredSlots
<1>2. PICK g : g = Slots
  OBVIOUS
<1>3. PiecesInSlots(h, g) /\ Tree = PLAN_TREES[h]
  BY <1>1, <1>2, GatheredSlots
<1>4. PICK before \in Levels :
        /\ before = layer /\ before = level - 1
        /\ level \in 1..(DEPTH - 2) /\ layer \in 0..(DEPTH - 2) /\ level \in 0..(DEPTH - 2)
  BY DepthAssumption DEF Searching, Levels
<1>5. PICK w0 \in Nat : w0 = Width(ks, layer)
  BY <1>4, Widths
<1>6. PICK w1 \in Nat \ {0} : w1 = Width(ks, level)
  BY <1>4, Widths
<1>7. FrontierOK(h, before, roots, w0, kept) /\ FrontierOK(h, level - 1, roots, w0, kept)
  BY <1>1, <1>4, <1>5 DEF Searching
<1>8. PICK m, b : m = model /\ b = board /\ m \in Models
  OBVIOUS
<1>9. scores = score_mid_level(PLAN_TREES[h], g, level, kept, m)
  BY <1>2, <1>3, <1>8
<1>10. scores \in SUBSET Keys /\ IsFiniteSet(scores)
  <2>1. level \in 1..(DEPTH - 2) /\ FrontierOK(h, level - 1, roots, w0, kept)
    BY <1>4, <1>7
  <2>2. m \in Models /\ w0 \in Nat
    BY <1>5, <1>8
  <2>3. QED
    BY <1>3, <1>9, <2>1, <2>2, MidScores
<1>11. PICK top : top = select_top(scores, w1)
  OBVIOUS
<1>12. \A r \in DOMAIN top : top[r] \in scores
  BY <1>10, <1>11, TopIsRanked
<1>13. next = advance_frontier(PLAN_TREES[h], g, level, kept, top)
  BY <1>2, <1>3, <1>6, <1>11
<1>14. /\ FrontierOnLines(h, g, b, m, roots, before, kept)
       /\ FrontierOnLines(h, g, b, m, roots, level - 1, kept)
  BY <1>1, <1>2, <1>4, <1>8
<1>15. FrontierOnLines(h, g, b, m, roots, level, next)
  BY <1>3, <1>4, <1>7, <1>9, <1>12, <1>13, <1>14, AdvancedOnLines
<1>16. \A r \in DOMAIN roots : r \in Nat
  BY RootRanks DEF Searching
<1>17. PICK S : S = Fallbacks(ks, kept, scores)
  OBVIOUS
<1>18. PICK widths \in BeamWidths : widths = ks
  OBVIOUS
<1>19. OffersWeighed(h, g, b, m, widths, roots, S)
  BY <1>3, <1>4, <1>7, <1>9, <1>14, <1>16, <1>17, <1>18, FallbacksWeighed
<1>20. OffersWeighed(h, g, b, m, widths, roots, best)
  BY <1>1, <1>2, <1>8, <1>18
<1>21. offers \in SUBSET Keys /\ IsFiniteSet(offers)
  <2>1. OffersOK(ks, roots, S)
    BY <1>5, <1>7, <1>16, <1>17, FallbackOffers
  <2>2. OffersOK(ks, roots, best)
    BY DEF Searching
  <2>3. QED
    BY <1>17, <2>1, <2>2, FS_Union DEF OffersOK
<1>22. \A c \in best1 : c \in best \cup S
  BY <1>17, <1>21, BestIsOffered
<1>23. OffersWeighed(h, g, b, m, widths, roots, best1)
  BY <1>19, <1>20, <1>22 DEF OffersWeighed
<1>24. QED
  BY <1>1, <1>2, <1>8, <1>15, <1>18, <1>23

\* What the search finds is weighed under the very move it returns.
LEMMA SearchFindsALine ==
  ASSUME ScoresAreNumbers, IInv, model \in Models, ks \in BeamWidths, Searching, layer = DEPTH - 2,
         FrontierOnLines(NoHeld, Slots, board, model, roots, layer, kept),
         OffersWeighed(NoHeld, Slots, board, model, ks, roots, best),
         NEW offers, offers = best \cup expand_leaves(Tree, Slots, kept, model),
         NEW found, found = decode_move(ks, Tree, Slots, roots, kept, BestKey(offers))
  PROVE  Weighed(NoHeld, Slots, board, model, found.move, found.value)
<1>1. PICK h \in BOOLEAN : h = NoHeld
  BY GatheredSlots
<1>2. PICK g : g = Slots
  OBVIOUS
<1>3. PiecesInSlots(h, g) /\ Tree = PLAN_TREES[h]
  BY <1>1, <1>2, GatheredSlots
<1>4. PICK m, b : m = model /\ b = board /\ m \in Models
  OBVIOUS
<1>5. PICK widths \in BeamWidths : widths = ks
  OBVIOUS
<1>6. /\ FrontierOK(h, DEPTH - 2, roots, Width(widths, DEPTH - 2), kept)
      /\ FrontierOnLines(h, g, b, m, roots, DEPTH - 2, kept)
  BY <1>1, <1>2, <1>4, <1>5 DEF Searching
<1>7. PICK S : S = expand_leaves(PLAN_TREES[h], g, kept, m)
  OBVIOUS
<1>8. offers = best \cup S
  BY <1>2, <1>3, <1>4, <1>7
<1>9. offers \in SUBSET Keys /\ IsFiniteSet(offers) /\ offers # {}
  <2>1. /\ S \in SUBSET Keys /\ IsFiniteSet(S)
        /\ DOMAIN kept # {} => S # {}
    BY <1>3, <1>4, <1>6, <1>7, LeafOffers
  <2>2. best \in SUBSET Keys /\ IsFiniteSet(best) /\ (best # {} \/ 0 \in DOMAIN kept)
    BY DEF Searching, OffersOK
  <2>3. QED
    BY <1>8, <2>1, <2>2, FS_Union
<1>10. PICK key \in offers : key = BestKey(offers)
  BY <1>9, BestIsOffered
<1>11. PICK rank : rank = RootRank(widths, kept, key.slot)
  OBVIOUS
<1>12. Weighed(h, g, b, m, RootMove(PLAN_TREES[h], g, roots[rank].slot), key.score)
  <2>1. CASE key \in best
    <3>1. key.slot >= leaf_orders(widths)
      BY <1>5, <2>1 DEF Searching, OffersOK
    <3>2. rank = key.slot - leaf_orders(widths)
      BY <1>11, <3>1 DEF RootRank
    <3>3. OffersWeighed(h, g, b, m, widths, roots, best)
      BY <1>1, <1>2, <1>4, <1>5
    <3>4. QED
      BY <2>1, <3>2, <3>3 DEF OffersWeighed
  <2>2. CASE key \in S
    BY <1>3, <1>4, <1>6, <1>7, <1>11, <2>2, LeavesWeighed
  <2>3. QED
    BY <1>8, <2>1, <2>2
<1>13. /\ found.move = RootMove(PLAN_TREES[h], g, roots[rank].slot)
       /\ found.value = key.score
  BY <1>2, <1>3, <1>5, <1>10, <1>11 DEF decode_move
<1>14. QED
  BY <1>1, <1>2, <1>4, <1>12, <1>13

\* The search, and the move it found, stay on lines of the exhaustive search.
SearchesLines ==
  /\ FrontierOnLines(NoHeld, Slots, board, model, roots, layer, kept)
  /\ OffersWeighed(NoHeld, Slots, board, model, ks, roots, best)

FoundALine == Weighed(NoHeld, Slots, board, model, lastMove.move, lastMove.value)

LinesIInv ==
  /\ stage = "search" => SearchesLines
  /\ stage = "hold" => FoundALine

\* What a search is on depends on what it is about only.
LEMMA LinesKept ==
  ASSUME UNCHANGED <<board, queue, held, model>>
  PROVE  /\ NoHeld' = NoHeld /\ Slots' = Slots
         /\ UNCHANGED <<ks, layer, roots, kept, best>> => SearchesLines' = SearchesLines
         /\ UNCHANGED lastMove => FoundALine' = FoundALine
<1>1. NoHeld' = NoHeld /\ Slots' = Slots
  BY DEF NoHeld, Slots, gather_slots
<1>2. QED
  BY <1>1 DEF SearchesLines, FoundALine

\* Every step preserves it.
LEMMA AiNextLines ==
  ScoresAreNumbers /\ AiIInv /\ LinesIInv /\ [AiNext]_aiVars => LinesIInv'
<1> SUFFICES ASSUME ScoresAreNumbers, AiIInv, LinesIInv, [AiNext]_aiVars
             PROVE  LinesIInv'
  OBVIOUS
<1>1. IInv /\ model \in Models /\ ks \in BeamWidths
  BY DEF AiIInv
<1>2. CASE AiReset
  BY <1>2 DEF AiReset, LinesIInv
<1>3. CASE GiveUp
  BY <1>3 DEF GiveUp, LinesIInv
<1>4. CASE SearchRoots
  <2>1. /\ UNCHANGED <<board, queue, held, model, ks>> /\ stage' = "search"
        /\ layer' = 0 /\ best' = {}
    BY <1>4 DEF SearchRoots, engineVars
  <2>2. PICK scores : scores = score_roots(Tree, Slots, board, model)
    OBVIOUS
  <2>3. /\ roots' = select_top(scores, Width(ks, 0))
        /\ kept' = seed_frontier(Tree, Slots, board, roots')
    BY <1>4, <2>2 DEF SearchRoots
  <2>4. FrontierOnLines(NoHeld, Slots, board, model, roots', 0, kept')
    BY <1>1, <2>2, <2>3, SearchStartsOnLines
  <2>5. OffersWeighed(NoHeld, Slots, board, model, ks, roots', {})
    BY DEF OffersWeighed
  <2>6. NoHeld' = NoHeld /\ Slots' = Slots
    BY <2>1, LinesKept
  <2>7. SearchesLines'
    BY <2>1, <2>4, <2>5, <2>6 DEF SearchesLines
  <2>8. QED
    BY <2>1, <2>7 DEF LinesIInv
<1>5. CASE SearchLevel
  <2>1. UNCHANGED <<board, queue, held, model, ks, stage, roots>> /\ stage = "search"
    BY <1>5 DEF SearchLevel, engineVars
  <2>2. Searching /\ SearchesLines /\ layer < DEPTH - 2
    BY <1>5, <2>1 DEF SearchLevel, AiIInv, LinesIInv
  <2>3. PICK level : level = layer + 1
    OBVIOUS
  <2>4. PICK scores : scores = score_mid_level(Tree, Slots, level, kept, model)
    OBVIOUS
  <2>5. PICK offers : offers = best \cup Fallbacks(ks, kept, scores)
    OBVIOUS
  <2>6. /\ kept' = advance_frontier(Tree, Slots, level, kept, select_top(scores, Width(ks, level)))
        /\ best' = IF offers = {} THEN {} ELSE {BestKey(offers)}
        /\ layer' = level
    BY <1>5, <2>3, <2>4, <2>5 DEF SearchLevel
  <2>7. /\ FrontierOnLines(NoHeld, Slots, board, model, roots, level, kept')
        /\ OffersWeighed(NoHeld, Slots, board, model, ks, roots, best')
    BY <1>1, <2>2, <2>3, <2>4, <2>5, <2>6, SearchStaysOnLines DEF SearchesLines
  <2>8. NoHeld' = NoHeld /\ Slots' = Slots
    BY <2>1, LinesKept
  <2>9. SearchesLines'
    BY <2>1, <2>6, <2>7, <2>8 DEF SearchesLines
  <2>10. QED
    BY <2>1, <2>9 DEF LinesIInv
<1>6. CASE SearchLeaves
  <2>1. UNCHANGED <<board, queue, held, model, ks>> /\ stage' = "hold"
    BY <1>6 DEF SearchLeaves, engineVars
  <2>2. Searching /\ SearchesLines /\ layer = DEPTH - 2
    BY <1>6 DEF SearchLeaves, AiIInv, LinesIInv
  <2>3. PICK offers : offers = best \cup expand_leaves(Tree, Slots, kept, model)
    OBVIOUS
  <2>4. PICK found : found = decode_move(ks, Tree, Slots, roots, kept, BestKey(offers))
    OBVIOUS
  <2>5. lastMove' = found
    BY <1>6, <2>3, <2>4 DEF SearchLeaves
  <2>6. Weighed(NoHeld, Slots, board, model, found.move, found.value)
    BY <1>1, <2>2, <2>3, <2>4, SearchFindsALine DEF SearchesLines
  <2>7. NoHeld' = NoHeld /\ Slots' = Slots
    BY <2>1, LinesKept
  <2>8. FoundALine'
    BY <2>1, <2>5, <2>6, <2>7 DEF FoundALine
  <2>9. QED
    BY <2>1, <2>8 DEF LinesIInv
<1>7. CASE CommitHold
  BY <1>7 DEF CommitHold, LinesIInv
<1>8. CASE CommitPlace
  BY <1>8 DEF CommitPlace, LinesIInv
<1>9. CASE UNCHANGED aiVars
  <2>1. UNCHANGED <<board, queue, held, model, ks, stage, layer, roots, kept, best, lastMove>>
    BY <1>9 DEF aiVars
  <2>2. SearchesLines' = SearchesLines /\ FoundALine' = FoundALine
    BY <2>1, LinesKept
  <2>3. QED
    BY <2>1, <2>2 DEF LinesIInv
<1>10. QED
  BY <1>2, <1>3, <1>4, <1>5, <1>6, <1>7, <1>8, <1>9 DEF AiNext

\* A weighed move is one of the exhaustive search's leaves.
LEMMA FoundIsALine == LinesIInv => ResultIsALine
<1> SUFFICES ASSUME LinesIInv, stage = "hold"
             PROVE  \E l \in search_leaves(queue, held, board, model) :
                      l.move = lastMove.move /\ l.value = lastMove.value
  BY DEF ResultIsALine
<1>1. PICK h, g : h = NoHeld /\ g = Slots
  OBVIOUS
<1>2. Weighed(h, g, board, model, lastMove.move, lastMove.value)
  BY <1>1 DEF LinesIInv, FoundALine
<1>3. PICK d \in Plans : \E l \in PlanLeaves(PLANS[h][d], g, board, model) :
        l.move = lastMove.move /\ l.value = lastMove.value
  BY <1>2 DEF Weighed
<1>4. PICK l \in PlanLeaves(PLANS[h][d], g, board, model) :
        l.move = lastMove.move /\ l.value = lastMove.value
  BY <1>3
<1>5. search_leaves(queue, held, board, model) = UNION {PlanLeaves(PLANS[h][p], g, board, model) : p \in Plans}
  BY <1>1 DEF search_leaves, NoHeld, Slots
<1>6. l \in search_leaves(queue, held, board, model)
  BY <1>4, <1>5
<1>7. QED
  BY <1>4, <1>6

\* The beam's answer is a leaf of the exhaustive search: its move and its value
\* belong to one line, whichever stage found it and whatever was cut.
THEOREM BeamAnswersALine ==
  ASSUME ScoresAreNumbers
  PROVE  AiSpec => []ResultIsALine
<1>1. AiInit => AiIInv /\ LinesIInv
  BY AiInitIInv DEF AiInit, LinesIInv
<1>2. AiIInv /\ [AiNext]_aiVars => AiIInv'
  BY AiNextIInv
<1>3. AiIInv /\ LinesIInv /\ [AiNext]_aiVars => LinesIInv'
  BY AiNextLines
<1>4. LinesIInv => ResultIsALine
  BY FoundIsALine
<1>5. QED
  BY <1>1, <1>2, <1>3, <1>4, PTL DEF AiSpec

\* The nodes of a level are numbered from zero on, without a gap.
LEMMA NodesAreDense ==
  ASSUME NEW h \in BOOLEAN, NEW level \in Levels, NEW d \in Plans,
         NEW n, n = PLAN_NODES[h][level][d],
         NEW D, D = DOMAIN PLAN_TREES[h][level]
  PROVE  n \in D /\ n \in Nat /\ n < Cardinality(D)
<1> DEFINE plans == PLANS[h]
           B == NodesBefore(plans, level, d)
           f == [x \in B |-> PLAN_NODES[h][level][x]]
<1>1. n \in Nat /\ n = NodeNumber(plans, level, d)
  BY PlanNodeNumber, NodeNumbers
<1>2. n = Cardinality(B)
  BY <1>1 DEF NodeNumber, NodesBefore
<1>3. D = LayerNodes(h, level) /\ n \in D
  BY TreeNode
<1>4. IsFiniteSet(D)
  BY LayersAreFinite
<1>5. ASSUME NEW x \in B
      PROVE  /\ x \in Plans /\ NodeBefore(plans, level, x, d) /\ FirstPlan(plans, level, x) = x
             /\ f[x] = NodeNumber(plans, level, x) /\ f[x] \in D \ {n}
  <2>1. PICK e \in Plans : NodeBefore(plans, level, e, d) /\ x = FirstPlan(plans, level, e)
    BY DEF NodesBefore
  <2>2. x \in Plans /\ SameNode(plans, level, e, x)
    BY <2>1, FirstPlanProps
  <2>3. FirstPlan(plans, level, x) = x
    BY <2>1, <2>2, FirstPlanProps
  <2>4. NodeBefore(plans, level, x, d)
    BY <2>1, <2>2, NodeBeforeOfNodes
  <2>5. f[x] = NodeNumber(plans, level, x)
    BY <2>2, PlanNodeNumber
  <2>6. NodeNumber(plans, level, x) < n /\ NodeNumber(plans, level, x) \in Nat
    BY <1>1, <2>2, <2>4, NodeNumbers
  <2>7. f[x] \in D
    BY <1>3, <2>2 DEF LayerNodes
  <2> HIDE DEF f, B
  <2>8. QED
    BY <1>1, <2>2, <2>3, <2>4, <2>5, <2>6, <2>7
<1>6. ASSUME NEW x \in B, NEW y \in B, f[x] = f[y]
      PROVE  x = y
  <2>1. SameNode(plans, level, x, y)
    BY <1>5, <1>6, NodeNumbers
  <2>2. FirstPlan(plans, level, x) = FirstPlan(plans, level, y)
    BY <1>5, <2>1, FirstPlanProps
  <2>3. QED
    BY <1>5, <2>2
<1>7. f \in Injection(B, D \ {n})
  <2>1. f \in [B -> D \ {n}]
    BY <1>5
  <2> HIDE DEF B
  <2>2. QED
    BY <1>6, <2>1 DEF Injection, IsInjective
<1>8. /\ IsFiniteSet(D \ {n}) /\ Cardinality(D \ {n}) = Cardinality(D) - 1
      /\ Cardinality(D) \in Nat
  BY <1>3, <1>4, FS_RemoveElement, FS_CardinalityType
<1>9. Cardinality(B) <= Cardinality(D \ {n})
  <2> HIDE DEF f, B
  <2>1. QED
    BY <1>7, <1>8, FS_Injection
<1>10. QED
  BY <1>1, <1>2, <1>3, <1>8, <1>9

\* A beam with a place for every key keeps them all.
LEMMA TopKeepsAll ==
  ASSUME NEW S \in SUBSET Keys, IsFiniteSet(S), NEW width \in Nat, Cardinality(S) <= width,
         NEW top, top = select_top(S, width), NEW c \in S
  PROVE  \E r \in DOMAIN top : top[r] = c
<1> DEFINE rank(e) == Cardinality({d \in S : Better(d, e)})
           ranked == {<<rank(e), e>> : e \in {e \in S : rank(e) < width}}
           ranks == {p[1] : p \in ranked}
<1>1. \A e : rank(e) = RankIn(S, e)
  BY DEF RankIn, BetterThan
<1>2. /\ Cardinality(S) \in Nat
      /\ \A e \in S : rank(e) \in 0..(Cardinality(S) - 1)
      /\ \A e, d \in S : rank(e) = rank(d) => e = d
  BY <1>1, RanksAreDense
<1>3. top = [r \in ranks |-> (CHOOSE p \in ranked : p[1] = r)[2]]
  BY DEF select_top
<1> HIDE DEF rank
<1>4. PICK r : r = rank(c)
  OBVIOUS
<1>5. r < width
  BY <1>2, <1>4
<1> DEFINE own == <<r, c>>
<1>6. own \in ranked /\ own[1] = r /\ own[2] = c
  BY <1>4, <1>5
<1>7. \A p \in ranked : p[1] = r => p[2] = c
  BY <1>2, <1>4
<1> HIDE DEF ranked, own
<1>8. r \in ranks
  BY <1>6
<1>9. (CHOOSE p \in ranked : p[1] = r)[2] = c
  BY <1>6, <1>7
<1>10. QED
  BY <1>3, <1>8, <1>9

\* Keys that differ in their slots are no more than there are slots.
LEMMA KeysBySlot ==
  ASSUME NEW S \in SUBSET Keys, NEW n \in Nat, \A c \in S : c.slot \in 0..(n - 1),
         \A c, d \in S : c.slot = d.slot => c.score = d.score
  PROVE  Cardinality(S) <= n
<1> DEFINE f == [c \in S |-> c.slot]
<1>1. \A c, d \in S : c.slot = d.slot => c = d
  BY DEF Keys
<1>2. f \in Injection(S, 0..(n - 1))
  BY <1>1 DEF Injection, IsInjective
<1>3. IsFiniteSet(0..(n - 1)) /\ Cardinality(0..(n - 1)) = n
  <2>1. 0 \in Int /\ n - 1 \in Int
    OBVIOUS
  <2>2. QED
    BY <2>1, FS_Interval
<1> HIDE DEF f
<1>4. QED
  BY <1>2, <1>3, FS_Injection

\* A frontier that has every line of its level, whatever root it began with.
Keeps(e, n, q) == e.node = n /\ e.board = q.board /\ e.clears = q.clears

EveryLineKept(h, g, b, m, level, frontier) ==
  \A d \in Plans : \A q \in LinesOf(PLANS[h][d], g, b, m, level + 1) :
    \E k \in DOMAIN frontier : Keeps(frontier[k], PLAN_NODES[h][level][d], q)

\* The slot of a root.
LEMMA RootSlot ==
  ASSUME NEW n \in Nat, n < MAX_ROOT_GROUPS, NEW i \in 0..(MAX_PLACEMENTS - 1),
         NEW s, s = n * MAX_PLACEMENTS + i
  PROVE  s \in ROOT_SLOTS /\ s \div MAX_PLACEMENTS = n /\ s % MAX_PLACEMENTS = i
<1>1. PICK M \in Nat \ {0} : M = MAX_PLACEMENTS
  BY Strides
<1>2. PICK G \in Nat \ {0} : G = MAX_ROOT_GROUPS
  BY Strides
<1>3. s = n * M + i /\ i \in 0..(M - 1) /\ n <= G - 1
  BY <1>1, <1>2
<1>4. s \div M = n /\ s % M = i
  BY <1>3, Quotient
<1>5. s \in 0..(G * M - 1)
  <2>1. PICK a \in Nat : a = n * M
    BY <1>1
  <2>2. PICK c \in Nat : c = G * M
    BY <1>1, <1>2
  <2>3. a + M <= c
    <3>1. (n + 1) * M <= G * M
      BY <1>3
    <3>2. (n + 1) * M = n * M + M
      OBVIOUS
    <3>3. QED
      BY <2>1, <2>2, <3>1, <3>2
  <2>4. s \in 0..(c - 1)
    BY <1>3, <2>1, <2>3
  <2>5. QED
    BY <2>2, <2>4
<1>6. QED
  BY <1>1, <1>2, <1>4, <1>5 DEF ROOT_SLOTS

\* Every root candidate that is legal has its score.
LEMMA RootAllScored ==
  ASSUME NEW tree, NEW g, NEW b, NEW m, NEW s \in RootCandidates(tree, g),
         NEW step, step = RootStep(tree, g, b, s), step.legal
  PROVE  \E c \in score_roots(tree, g, b, m) : c.slot = s
<1> DEFINE R == RootCandidates(tree, g)
           C == {[slot |-> e, node |-> RootNode(tree, e), step |-> RootStep(tree, g, b, e)] : e \in R}
<1>1. PICK e \in C : e.slot = s /\ e.step = step
  <2>1. PICK e : e = [slot |-> s, node |-> RootNode(tree, s), step |-> RootStep(tree, g, b, s)]
    OBVIOUS
  <2>2. e \in C
    BY <2>1
  <2> HIDE DEF C
  <2>3. QED
    BY <2>1, <2>2
<1>2. PICK c : c = [slot |-> e.slot, score |-> Score(m, g, e.node, e.step)]
  OBVIOUS
<1>3. score_roots(tree, g, b, m) = Scored(m, g, C)
  BY DEF score_roots
<1> HIDE DEF C
<1>4. c \in Scored(m, g, C) /\ c.slot = s
  BY <1>1, <1>2, ScoredMember
<1>5. QED
  BY <1>3, <1>4

\* The roots' scores are no more than the roots' slots.
LEMMA RootsBySlot ==
  ASSUME ScoresAreNumbers, NEW m \in Models,
         NEW h \in BOOLEAN, NEW g, PiecesInSlots(h, g), NEW b \in Boards,
         NEW scores, scores = score_roots(PLAN_TREES[h], g, b, m)
  PROVE  /\ scores \in SUBSET Keys /\ IsFiniteSet(scores)
         /\ Cardinality(scores) <= Cardinality(ROOT_SLOTS)
<1>1. scores \in SUBSET Keys /\ IsFiniteSet(scores) /\ \A c \in scores : LegalRoot(h, g, b, c.slot)
  BY RootScores
<1>2. PICK n \in Nat : ROOT_SLOTS = 0..(n - 1)
  <2>1. PICK M \in Nat, G \in Nat : M = MAX_PLACEMENTS /\ G = MAX_ROOT_GROUPS
    BY Strides
  <2>2. PICK n \in Nat : n = G * M
    BY <2>1
  <2>3. QED
    BY <2>1, <2>2 DEF ROOT_SLOTS
<1>3. Cardinality(ROOT_SLOTS) = n
  <2>1. 0 \in Int /\ n - 1 \in Int
    OBVIOUS
  <2>2. QED
    BY <1>2, <2>1, FS_Interval
<1>4. \A c \in scores : c.slot \in 0..(n - 1)
  BY <1>1, <1>2 DEF LegalRoot, RootCandidates
<1>5. ASSUME NEW c \in scores, NEW d \in scores, c.slot = d.slot
      PROVE  c.score = d.score
  <2>1. PICK step : step = RootStep(PLAN_TREES[h], g, b, c.slot)
    OBVIOUS
  <2>2. c.score = Score(m, g, RootNode(PLAN_TREES[h], c.slot), step)
    BY <2>1, RootScored
  <2>3. d.score = Score(m, g, RootNode(PLAN_TREES[h], d.slot), step)
    BY <1>5, <2>1, RootScored
  <2>4. QED
    BY <1>5, <2>2, <2>3
<1>6. QED
  BY <1>1, <1>3, <1>4, <1>5, KeysBySlot

\* A first frontier with a place for every root has every first line.
LEMMA SeededWithEveryLine ==
  ASSUME ScoresAreNumbers, NEW m \in Models,
         NEW h \in BOOLEAN, NEW g, PiecesInSlots(h, g), NEW b \in Boards,
         NEW width \in Nat, width >= Cardinality(ROOT_SLOTS),
         NEW scores, scores = score_roots(PLAN_TREES[h], g, b, m),
         NEW rs, rs = select_top(scores, width),
         NEW frontier, frontier = seed_frontier(PLAN_TREES[h], g, b, rs)
  PROVE  EveryLineKept(h, g, b, m, 0, frontier)
<1> SUFFICES ASSUME NEW d \in Plans, NEW q \in LinesOf(PLANS[h][d], g, b, m, 1)
             PROVE  \E k \in DOMAIN frontier : Keeps(frontier[k], PLAN_NODES[h][0][d], q)
  BY DEF EveryLineKept
<1>1. PICK plan : plan = PLANS[h][d]
  OBVIOUS
<1>2. PICK n : n = PLAN_NODES[h][0][d]
  OBVIOUS
<1>3. PICK tree : tree = PLAN_TREES[h]
  OBVIOUS
<1>4. 0 \in Levels
  BY PlanSets DEF Levels
<1>5. n \in DOMAIN tree[0] /\ n \in Nat /\ n < MAX_ROOT_GROUPS
  <2>1. PICK D : D = DOMAIN PLAN_TREES[h][0]
    OBVIOUS
  <2>2. n \in D /\ n \in Nat /\ n < Cardinality(D)
    BY <1>2, <1>4, <2>1, NodesAreDense
  <2>3. Cardinality(D) <= MAX_ROOT_GROUPS /\ MAX_ROOT_GROUPS \in Nat
    BY <2>1, Strides
  <2>4. Cardinality(D) \in Nat
    BY <1>4, <2>1, LayersAreFinite, FS_CardinalityType
  <2>5. QED
    BY <1>3, <2>1, <2>2, <2>3, <2>4
<1>6. PICK node : node = tree[0][n]
  OBVIOUS
<1>7. PICK t : t = g[node.slot]
  OBVIOUS
<1>8. t = g[plan.slot[0]] /\ t \in Types
  <2>1. plan.slot[0] = node.slot
    BY <1>1, <1>2, <1>3, <1>4, <1>6, PlanAtNode
  <2>2. t \in Types
    BY <1>3, <1>4, <1>5, <1>6, <1>7, NodePiece
  <2>3. QED
    BY <1>7, <2>1, <2>2
<1>9. PICK L : LinesOf(plan, g, b, m, 1) = L
  OBVIOUS
<1>10. PICK i \in 0..(n_theoretical_placements(t) - 1) : \E p, step :
         /\ p = nth_placement(t, i) /\ step = apply(b, NO_CLEARS, t, p) /\ step.legal
         /\ q = [board |-> step.board, clears |-> step.clears,
                 move |-> [orientation |-> p.orientation, x |-> p.x, hold |-> plan.rootHold]]
  BY <1>1, <1>8, <1>9, LinesBegan
<1>11. PICK step :
         /\ step = apply(b, NO_CLEARS, t, nth_placement(t, i)) /\ step.legal
         /\ q.board = step.board /\ q.clears = step.clears
  BY <1>10
<1>12. i \in 0..(MAX_PLACEMENTS - 1) /\ i < n_theoretical_placements(t)
  <2>1. PICK M \in Nat, size \in Nat : size = n_theoretical_placements(t) /\ size <= M /\ M = MAX_PLACEMENTS
    BY <1>8, Strides
  <2>2. QED
    BY <2>1
<1>13. PICK s : s = n * MAX_PLACEMENTS + i
  OBVIOUS
<1>14. s \in ROOT_SLOTS /\ s \div MAX_PLACEMENTS = n /\ s % MAX_PLACEMENTS = i
  BY <1>5, <1>12, <1>13, RootSlot
<1>15. RootNode(tree, s) = node
  BY <1>6, <1>14 DEF RootNode
<1>16. s \in RootCandidates(tree, g)
  BY <1>5, <1>7, <1>12, <1>14, <1>15 DEF RootCandidates
<1>17. step = RootStep(tree, g, b, s)
  BY <1>7, <1>11, <1>14, <1>15 DEF RootStep
<1>18. PICK c \in scores : c.slot = s
  <2>1. \E c \in score_roots(tree, g, b, m) : c.slot = s
    BY <1>11, <1>16, <1>17, RootAllScored
  <2>2. QED
    BY <1>3, <2>1
<1>19. PICK k \in DOMAIN rs : rs[k] = c
  <2>1. /\ scores \in SUBSET Keys /\ IsFiniteSet(scores)
        /\ Cardinality(scores) <= Cardinality(ROOT_SLOTS)
    BY RootsBySlot
  <2>2. Cardinality(scores) <= width
    <3>1. Cardinality(scores) \in Nat /\ Cardinality(ROOT_SLOTS) \in Nat
      <4>1. PICK top \in Int : ROOT_SLOTS = 0..top
        <5>1. PICK M \in Nat, G \in Nat : M = MAX_PLACEMENTS /\ G = MAX_ROOT_GROUPS
          BY Strides
        <5>2. G * M - 1 \in Int
          BY <5>1
        <5>3. QED
          BY <5>1, <5>2 DEF ROOT_SLOTS
      <4>2. IsFiniteSet(ROOT_SLOTS)
        BY <4>1, FS_Interval
      <4>3. QED
        BY <2>1, <4>2, FS_CardinalityType
    <3>2. QED
      BY <2>1, <3>1
  <2>3. QED
    BY <1>18, <2>1, <2>2, TopKeepsAll
<1>20. PICK e : e = frontier[k]
  OBVIOUS
<1>21. k \in DOMAIN frontier /\ e.board = step.board /\ e.clears = step.clears /\ e.node = n
  BY <1>3, <1>14, <1>17, <1>18, <1>19, <1>20 DEF seed_frontier
<1>22. Keeps(e, n, q)
  BY <1>11, <1>21 DEF Keeps
<1>23. QED
  BY <1>2, <1>20, <1>21, <1>22

\* A slot of a middle level that has a score, by its parts.
SlotScored(h, level, frontier, scores, k, child, i) ==
  \E c \in scores :
    /\ Parent(c.slot) = k /\ ChildIdx(PLAN_TREES[h], level, frontier, c.slot) = child
    /\ c.slot % MAX_PLACEMENTS = i

\* A continuation of a kept node that fits has its score, whichever child of
\* the node it is for.
LEMMA ChildStepScored ==
  ASSUME NEW h \in BOOLEAN, NEW g, PiecesInSlots(h, g), NEW m, NEW width \in Nat, NEW rs,
         NEW level \in 1..(DEPTH - 2), NEW before \in Levels, before = level - 1, level \in Levels,
         NEW frontier, FrontierOK(h, before, rs, width, frontier),
         NEW k \in DOMAIN frontier, NEW e, e = frontier[k],
         NEW node, node = NodeAt(PLAN_TREES[h], before, e.node), NEW child \in ChildRange(node),
         NEW t, t = PieceAt(PLAN_TREES[h], g, level, child),
         NEW i \in 0..(n_theoretical_placements(t) - 1),
         NEW step, step = apply(e.board, e.clears, t, nth_placement(t, i)), step.legal,
         NEW scores, score_mid_level(PLAN_TREES[h], g, level, frontier, m) = scores
  PROVE  SlotScored(h, level, frontier, scores, k, child, i)
<1>1. PICK n \in Nat : Cardinality(DOMAIN frontier) = n /\ k \in Nat /\ k < n
  <2>1. PICK n \in 0..width : DOMAIN frontier = 0..(n - 1)
    BY DEF FrontierOK
  <2>2. 0 \in Int /\ n - 1 \in Int
    BY <2>1
  <2>3. Cardinality(0..(n - 1)) = n
    BY <2>1, <2>2, FS_Interval
  <2>4. QED
    BY <2>1, <2>3
<1>2. PICK tree : tree = PLAN_TREES[h]
  OBVIOUS
<1>3. node = NodeAt(tree, before, e.node) /\ node = tree[before][e.node]
  BY <1>2 DEF NodeAt
<1>4. before + 1 = level /\ before + 1 \in Levels
  BY PlanSets
<1>5. e.node \in DOMAIN PLAN_TREES[h][before]
  BY DEF FrontierOK, NodeOK
<1>6. PICK first \in Nat : /\ node.childBegin = first /\ node.childEnd = first + 2
                           /\ ChildRange(node) \subseteq DOMAIN PLAN_TREES[h][level]
  BY <1>2, <1>3, <1>4, <1>5, NodesOfTheTree
<1>7. child \in first..(first + 1)
  BY <1>2, <1>3, <1>6, SMTT(30) DEF ChildRange
<1>8. t \in Types
  <2>1. child \in DOMAIN PLAN_TREES[h][level]
    BY <1>2, <1>3, <1>6
  <2>2. QED
    BY <2>1, NodePiece DEF PieceAt
<1>9. DEPTH > 2
  BY DepthAssumption
<1>10. t = PieceAt(tree, g, level, child) /\ score_mid_level(tree, g, level, frontier, m) = scores
  BY <1>2
<1>11. node = NodeAt(tree, level - 1, e.node)
  BY <1>3
<1>12. PICK rank \in Nat : rank = k /\ rank < n
  BY <1>1
<1>13. PICK next \in first..(first + 1) : next = child
  BY <1>7
<1>14. t = PieceAt(tree, g, level, next) /\ e = frontier[rank]
  BY <1>10, <1>12, <1>13
<1>15. node.childBegin = first /\ node.childEnd = first + 2
  BY <1>6
<1>16. Cardinality(DOMAIN frontier) = n /\ score_mid_level(tree, g, level, frontier, m) = scores
  BY <1>1, <1>10
<1>17. \E c \in scores :
         /\ Parent(c.slot) = rank /\ ChildIdx(tree, level, frontier, c.slot) = next
         /\ c.slot % MAX_PLACEMENTS = i
  BY <1>8, <1>9, <1>11, <1>12, <1>14, <1>15, <1>16, MidStepScored
<1>18. QED
  BY <1>2, <1>12, <1>13, <1>17 DEF SlotScored

\* The scores of a middle level are no more than its slots.
LEMMA MidBySlot ==
  ASSUME ScoresAreNumbers, NEW m \in Models,
         NEW h \in BOOLEAN, NEW g, PiecesInSlots(h, g), NEW width \in Nat, NEW rs,
         NEW level \in 1..(DEPTH - 2), NEW frontier, FrontierOK(h, level - 1, rs, width, frontier),
         NEW scores, scores = score_mid_level(PLAN_TREES[h], g, level, frontier, m)
  PROVE  /\ scores \in SUBSET Keys /\ IsFiniteSet(scores)
         /\ Cardinality(scores) <= width * MAX_CHILD_MID * MAX_PLACEMENTS
<1>1. /\ scores \in SUBSET Keys /\ IsFiniteSet(scores)
      /\ \A c \in scores : c.slot \in MidCandidates(PLAN_TREES[h], g, level, frontier)
  BY MidScores, SMTT(60)
<1>2. PICK n \in Nat : Cardinality(DOMAIN frontier) = n /\ n <= width
  <2>1. PICK n \in 0..width : DOMAIN frontier = 0..(n - 1)
    BY DEF FrontierOK
  <2>2. 0 \in Int /\ n - 1 \in Int
    BY <2>1
  <2>3. Cardinality(0..(n - 1)) = n
    BY <2>1, <2>2, FS_Interval
  <2>4. QED
    BY <2>1, <2>3
<1>3. PICK M \in Nat : M = MAX_PLACEMENTS
  BY Strides
<1>4. MAX_CHILD_MID = 2
  BY DepthAssumption, Strides
<1>5. PICK slots \in Nat : slots = n * 2 * M
  BY <1>3
<1>6. slots <= width * MAX_CHILD_MID * MAX_PLACEMENTS
  <2>1. n * 2 <= width * 2
    BY <1>2
  <2>2. n * 2 * M <= width * 2 * M
    BY <1>2, <2>1
  <2>3. QED
    BY <1>3, <1>4, <1>5, <2>2
<1>7. \A c \in scores : c.slot \in 0..(slots - 1)
  BY <1>1, <1>2, <1>3, <1>4, <1>5 DEF MidCandidates, MidSlots
<1>8. ASSUME NEW c \in scores, NEW d \in scores, c.slot = d.slot
      PROVE  c.score = d.score
  <2>1. PICK step : step = MidStep(PLAN_TREES[h], g, level, frontier, c.slot)
    OBVIOUS
  <2>2. PICK child : child = ChildIdx(PLAN_TREES[h], level, frontier, c.slot)
    OBVIOUS
  <2>3. c.score = Score(m, g, PLAN_TREES[h][level][child], step)
    BY <2>1, <2>2, MidScored
  <2>4. step = MidStep(PLAN_TREES[h], g, level, frontier, d.slot)
        /\ child = ChildIdx(PLAN_TREES[h], level, frontier, d.slot)
    BY <1>8, <2>1, <2>2
  <2>5. d.score = Score(m, g, PLAN_TREES[h][level][child], step)
    BY <2>4, MidScored
  <2>6. QED
    BY <2>3, <2>5
<1>9. Cardinality(scores) <= slots
  BY <1>1, <1>7, <1>8, KeysBySlot
<1>10. Cardinality(scores) \in Nat /\ width * MAX_CHILD_MID * MAX_PLACEMENTS \in Nat
  <2>1. width * 2 * M \in Nat
    BY <1>3
  <2>2. QED
    BY <1>1, <1>3, <1>4, <2>1, FS_CardinalityType
<1>11. QED
  BY <1>1, <1>6, <1>9, <1>10

\* A middle level with a place for every continuation has every line.
LEMMA AdvancedWithEveryLine ==
  ASSUME ScoresAreNumbers, NEW m \in Models,
         NEW h \in BOOLEAN, NEW g, PiecesInSlots(h, g), NEW b, NEW wide \in Nat, NEW rs,
         NEW level \in 1..(DEPTH - 2), NEW before \in Levels, before = level - 1, level \in Levels,
         NEW frontier, FrontierOK(h, before, rs, wide, frontier),
         EveryLineKept(h, g, b, m, before, frontier),
         NEW width \in Nat, width >= wide * MAX_CHILD_MID * MAX_PLACEMENTS,
         NEW scores, score_mid_level(PLAN_TREES[h], g, level, frontier, m) = scores,
         NEW top, top = select_top(scores, width),
         NEW next, next = advance_frontier(PLAN_TREES[h], g, level, frontier, top)
  PROVE  EveryLineKept(h, g, b, m, level, next)
<1> SUFFICES ASSUME NEW d \in Plans, NEW r \in LinesOf(PLANS[h][d], g, b, m, level + 1)
             PROVE  \E k \in DOMAIN next : Keeps(next[k], PLAN_NODES[h][level][d], r)
  BY DEF EveryLineKept
<1>1. PICK plan : plan = PLANS[h][d]
  OBVIOUS
<1>2. PICK child : child = PLAN_NODES[h][level][d]
  OBVIOUS
<1>3. PICK tree : tree = PLAN_TREES[h]
  OBVIOUS
<1>4. before + 1 = level /\ before + 1 \in Levels /\ level \in 1..(DEPTH - 1)
  BY DepthAssumption, PlanSets
<1>5. PICK t : t = PieceAt(PLAN_TREES[h], g, level, child)
  OBVIOUS
<1>6. t = g[plan.slot[level]]
  <2>1. PICK node : node = PLAN_TREES[h][level][child]
    OBVIOUS
  <2>2. plan.slot[level] = node.slot
    BY <1>1, <1>2, <2>1, PlanAtNode
  <2>3. QED
    BY <1>5, <2>1, <2>2 DEF PieceAt
<1>7. PICK L : LinesOf(plan, g, b, m, level) = L
  OBVIOUS
<1>8. PICK longer : LinesOf(plan, g, b, m, level + 1) = longer /\ r \in longer
  BY <1>1
<1>9. PICK q \in L : \E i \in 0..(n_theoretical_placements(t) - 1) : \E step :
        /\ step = apply(q.board, q.clears, t, nth_placement(t, i)) /\ step.legal
        /\ r = [board |-> step.board, clears |-> step.clears, move |-> q.move]
  BY <1>4, <1>6, <1>7, <1>8, LinesWentOn
<1>10. PICK i \in 0..(n_theoretical_placements(t) - 1) : \E step :
         /\ step = apply(q.board, q.clears, t, nth_placement(t, i)) /\ step.legal
         /\ r = [board |-> step.board, clears |-> step.clears, move |-> q.move]
  BY <1>9
<1>11. PICK step :
         /\ step = apply(q.board, q.clears, t, nth_placement(t, i)) /\ step.legal
         /\ r.board = step.board /\ r.clears = step.clears
  BY <1>10
<1>12. PICK k \in DOMAIN frontier : Keeps(frontier[k], PLAN_NODES[h][before][d], q)
  <2>1. q \in LinesOf(PLANS[h][d], g, b, m, before + 1)
    BY <1>1, <1>4, <1>7
  <2>2. QED
    BY <2>1 DEF EveryLineKept
<1>13. PICK e : e = frontier[k]
  OBVIOUS
<1>14. e.node = PLAN_NODES[h][before][d] /\ e.board = q.board /\ e.clears = q.clears
  BY <1>12, <1>13 DEF Keeps
<1>15. PICK node : node = NodeAt(PLAN_TREES[h], before, e.node) /\ child \in ChildRange(node)
  <2>1. e.node \in DOMAIN PLAN_TREES[h][before]
    BY <1>12, <1>13 DEF FrontierOK, NodeOK
  <2>2. PLAN_NODES[h][before + 1][d] \in ChildRange(PLAN_TREES[h][before][e.node])
    BY <1>4, <1>14, <2>1, PlansOfTheTree
  <2>3. QED
    BY <1>2, <1>4, <2>2 DEF NodeAt
<1>16. apply(e.board, e.clears, t, nth_placement(t, i)) = step
  BY <1>11, <1>14
<1>17. PICK c \in scores :
         /\ Parent(c.slot) = k /\ ChildIdx(PLAN_TREES[h], level, frontier, c.slot) = child
         /\ c.slot % MAX_PLACEMENTS = i
  <2>1. step = apply(e.board, e.clears, t, nth_placement(t, i)) /\ step.legal
    BY <1>11, <1>16
  <2>2. SlotScored(h, level, frontier, scores, k, child, i)
    BY <1>5, <1>10, <1>12, <1>13, <1>15, <2>1, ChildStepScored
  <2>3. QED
    BY <2>2 DEF SlotScored
<1>18. PICK j \in DOMAIN top : top[j] = c
  <2>1. FrontierOK(h, level - 1, rs, wide, frontier)
    OBVIOUS
  <2>2. /\ scores \in SUBSET Keys /\ IsFiniteSet(scores)
        /\ Cardinality(scores) <= wide * MAX_CHILD_MID * MAX_PLACEMENTS
    BY <2>1, MidBySlot
  <2>3. Cardinality(scores) <= width
    <3>1. PICK M \in Nat : M = MAX_PLACEMENTS
      BY Strides
    <3>2. MAX_CHILD_MID = 2
      BY DepthAssumption, Strides
    <3>3. PICK slots \in Nat : slots = wide * 2 * M
      BY <3>1
    <3>4. Cardinality(scores) \in Nat
      BY <2>2, FS_CardinalityType
    <3>5. QED
      BY <2>2, <3>1, <3>2, <3>3, <3>4
  <2>4. QED
    BY <2>2, <2>3, TopKeepsAll
<1>19. step = MidStep(PLAN_TREES[h], g, level, frontier, c.slot)
  BY <1>5, <1>13, <1>16, <1>17 DEF MidStep, PieceAt
<1>20. PICK n : n = next[j]
  OBVIOUS
<1>21. j \in DOMAIN next /\ n.board = step.board /\ n.clears = step.clears /\ n.node = child
  BY <1>17, <1>18, <1>19, <1>20 DEF advance_frontier
<1>22. Keeps(n, child, r)
  BY <1>11, <1>21 DEF Keeps
<1>23. QED
  BY <1>2, <1>20, <1>21, <1>22

\* The leaves of a kept node have the values of the plans through it: of their
\* full lines, and of the node itself when no full line passes it.
LEMMA ChildLeaves ==
  ASSUME ScoresAreNumbers, NEW m \in Models, NEW widths \in BeamWidths,
         NEW h \in BOOLEAN, NEW g, PiecesInSlots(h, g), NEW rs,
         NEW frontier, FrontierOK(h, DEPTH - 2, rs, Width(widths, DEPTH - 2), frontier),
         NEW k \in DOMAIN frontier, NEW e, e = frontier[k],
         NEW child \in ChildRange(PLAN_TREES[h][DEPTH - 2][e.node]),
         NEW t, t = PieceAt(PLAN_TREES[h], g, DEPTH - 1, child),
         NEW cnode, cnode = NodeAt(PLAN_TREES[h], DEPTH - 1, child),
         NEW all, all = expand_leaves(PLAN_TREES[h], g, frontier, m)
  PROVE  /\ t \in Types
         /\ \A i \in 0..(n_theoretical_placements(t) - 1) : \A step :
              step = apply(e.board, e.clears, t, nth_placement(t, i)) /\ step.legal
                => \E key \in all : key.score = Score(m, g, cnode, step)
         /\ LegalSteps(e.board, e.clears, t) = {} => \E key \in all : key.score = e.score
<1>1. PICK S : LeavesOf(PLAN_TREES[h], g, frontier, m, k, child) = S
  OBVIOUS
<1>2. S # {}
  BY <1>1, LeavesOfChild
<1>3. S \subseteq all
  BY <1>1 DEF expand_leaves
<1>4. PICK tree : tree = PLAN_TREES[h]
  OBVIOUS
<1>5. PICK node : node = NodeAt(tree, DEPTH - 2, e.node) /\ node = tree[DEPTH - 2][e.node]
  BY DEF NodeAt
<1>6. DEPTH - 2 \in Levels /\ DEPTH - 1 \in Levels /\ (DEPTH - 2) + 1 = DEPTH - 1
  BY DepthAssumption DEF Levels
<1>7. e.node \in DOMAIN PLAN_TREES[h][DEPTH - 2]
  BY DEF FrontierOK, NodeOK
<1>8. PICK first \in Nat : /\ node.childBegin = first /\ node.childEnd = first + 2
                           /\ ChildRange(node) \subseteq DOMAIN PLAN_TREES[h][DEPTH - 1]
  BY <1>4, <1>5, <1>6, <1>7, NodesOfTheTree
<1>9. PICK x \in Int : x = child /\ x \in DOMAIN PLAN_TREES[h][DEPTH - 1]
  BY <1>4, <1>5, <1>8 DEF ChildRange
<1>10. t \in Types
  BY <1>6, <1>9, NodePiece DEF PieceAt
<1>11. PICK rank \in Nat : rank = k
  <2>1. PICK n \in 0..Width(widths, DEPTH - 2) : DOMAIN frontier = 0..(n - 1)
    BY DEF FrontierOK
  <2>2. QED
    BY <2>1
<1>12. /\ e = frontier[rank] /\ LeavesOf(tree, g, frontier, m, rank, x) = S
       /\ cnode = NodeAt(tree, DEPTH - 1, x) /\ t = PieceAt(tree, g, DEPTH - 1, x)
       /\ NodeAt(tree, DEPTH - 2, e.node).childBegin = first
  BY <1>1, <1>4, <1>5, <1>8, <1>9, <1>11
<1>13. ASSUME NEW i \in 0..(n_theoretical_placements(t) - 1),
              NEW step, step = apply(e.board, e.clears, t, nth_placement(t, i)), step.legal
       PROVE  \E key \in all : key.score = Score(m, g, cnode, step)
  <2>1. \E key \in S : key.score = Score(m, g, cnode, step)
    BY <1>10, <1>12, <1>13, StepsAreLeaves
  <2>2. QED
    BY <1>3, <2>1
<1>14. ASSUME LegalSteps(e.board, e.clears, t) = {}
       PROVE  \E key \in all : key.score = e.score
  <2>1. PICK key \in S : TRUE
    BY <1>2
  <2>2. CASE \E i \in 0..(n_theoretical_placements(t) - 1) : \E step :
               /\ step = apply(e.board, e.clears, t, nth_placement(t, i)) /\ step.legal
               /\ key.score = Score(m, g, cnode, step)
    <3>1. PICK i \in 0..(n_theoretical_placements(t) - 1) : \E step :
            /\ step = apply(e.board, e.clears, t, nth_placement(t, i)) /\ step.legal
            /\ key.score = Score(m, g, cnode, step)
      BY <2>2
    <3>2. PICK p, step : /\ p = nth_placement(t, i)
                         /\ step = apply(e.board, e.clears, t, p) /\ step.legal
      BY <3>1
    <3>3. PICK L : LegalSteps(e.board, e.clears, t) = L
      OBVIOUS
    <3>4. L # {}
      BY <3>2, <3>3, LegalStep
    <3>5. QED
      BY <1>14, <3>3, <3>4
  <2>3. CASE key.score = e.score
    BY <1>3, <2>1, <2>3
  <2>4. QED
    BY <1>10, <1>12, <2>1, <2>2, <2>3, LeavesAreSteps
<1>15. QED
  BY <1>10, <1>13, <1>14

\* A frontier that has every line offers the value of every leaf of the last
\* two levels.
LEMMA EveryLeafOffered ==
  ASSUME ScoresAreNumbers, NEW m \in Models, NEW widths \in BeamWidths,
         NEW h \in BOOLEAN, NEW g, PiecesInSlots(h, g), NEW b, NEW rs,
         NEW frontier, FrontierOK(h, DEPTH - 2, rs, Width(widths, DEPTH - 2), frontier),
         FrontierOnLines(h, g, b, m, rs, DEPTH - 2, frontier),
         EveryLineKept(h, g, b, m, DEPTH - 2, frontier),
         NEW d \in Plans, NEW l \in PlanLeaves(PLANS[h][d], g, b, m), l.length >= DEPTH - 1,
         NEW all, all = expand_leaves(PLAN_TREES[h], g, frontier, m)
  PROVE  \E key \in all : key.score = l.value
<1>1. PICK plan : plan = PLANS[h][d]
  OBVIOUS
<1>2. PICK n \in 1..DEPTH : \E q \in LinesOf(plan, g, b, m, n) :
        /\ l = Leaf(plan, g, m, n, q)
        /\ n < DEPTH => LegalSteps(q.board, q.clears, g[plan.slot[n]]) = {}
  BY <1>1, LeavesAre
<1>3. PICK q \in LinesOf(plan, g, b, m, n) :
        /\ l = Leaf(plan, g, m, n, q)
        /\ n < DEPTH => LegalSteps(q.board, q.clears, g[plan.slot[n]]) = {}
  BY <1>2
<1>4. n = DEPTH - 1 \/ n = DEPTH
  <2>1. l.length = n
    BY <1>3 DEF Leaf
  <2>2. QED
    BY <2>1, DepthAssumption
<1>5. PICK level \in Levels :
        /\ level = DEPTH - 2 /\ level + 1 = DEPTH - 1 /\ level + 1 \in Levels /\ (level + 1) + 1 = DEPTH
        /\ level + 1 \in 1..(DEPTH - 1)
  BY DepthAssumption DEF Levels
<1>6. PICK child : child = PLAN_NODES[h][DEPTH - 1][d]
  OBVIOUS
<1>7. PICK t : t = PieceAt(PLAN_TREES[h], g, DEPTH - 1, child)
  OBVIOUS
<1>8. PICK cnode : cnode = NodeAt(PLAN_TREES[h], DEPTH - 1, child)
  OBVIOUS
<1>9. t = g[plan.slot[DEPTH - 1]]
  <2>1. plan.slot[DEPTH - 1] = cnode.slot
    BY <1>1, <1>5, <1>6, <1>8, PlanAtNode DEF NodeAt
  <2>2. QED
    BY <1>7, <1>8, <2>1 DEF PieceAt, NodeAt
<1>10. ASSUME NEW k \in DOMAIN frontier, NEW e, e = frontier[k], e.node = PLAN_NODES[h][DEPTH - 2][d]
       PROVE  child \in ChildRange(PLAN_TREES[h][DEPTH - 2][e.node])
  <2>1. e.node \in DOMAIN PLAN_TREES[h][DEPTH - 2]
    BY <1>10 DEF FrontierOK, NodeOK
  <2>2. QED
    BY <1>5, <1>6, <1>10, <2>1, PlansOfTheTree
<1>11. ASSUME NEW p \in LinesOf(plan, g, b, m, DEPTH - 1)
       PROVE  \E k \in DOMAIN frontier : Keeps(frontier[k], PLAN_NODES[h][DEPTH - 2][d], p)
  <2>1. p \in LinesOf(PLANS[h][d], g, b, m, (DEPTH - 2) + 1)
    BY <1>1, <1>5, <1>11
  <2>2. QED
    BY <2>1 DEF EveryLineKept
<1>12. CASE n = DEPTH
  <2>1. l.value = Evaluate(m, q.clears, q.board, heldIsI(g, cnode))
    <3>1. PICK last \in Levels : last = DEPTH - 1 /\ last + 1 = DEPTH
      BY <1>5
    <3>2. plan.heldSlot[last] = cnode.heldSlot
      BY <1>1, <1>6, <1>8, <3>1, PlanAtNode DEF NodeAt
    <3>3. l = Leaf(plan, g, m, last + 1, q) /\ (last + 1) - 1 = last
      BY <1>3, <1>12, <3>1, PlanSets
    <3>4. QED
      BY <3>2, <3>3 DEF Leaf, heldIsI
  <2>2. PICK before \in 1..(DEPTH - 1) : before = DEPTH - 1 /\ before + 1 = DEPTH
    BY <1>5
  <2>3. PICK L, longer : LinesOf(plan, g, b, m, before) = L /\ LinesOf(plan, g, b, m, before + 1) = longer
    OBVIOUS
  <2>4. q \in longer /\ t = g[plan.slot[before]]
    BY <1>3, <1>9, <1>12, <2>2, <2>3
  <2>5. PICK p \in L : \E i \in 0..(n_theoretical_placements(t) - 1) : \E step :
          /\ step = apply(p.board, p.clears, t, nth_placement(t, i)) /\ step.legal
          /\ q = [board |-> step.board, clears |-> step.clears, move |-> p.move]
    BY <2>3, <2>4, LinesWentOn
  <2>6. PICK i \in 0..(n_theoretical_placements(t) - 1) : \E step :
          /\ step = apply(p.board, p.clears, t, nth_placement(t, i)) /\ step.legal
          /\ q = [board |-> step.board, clears |-> step.clears, move |-> p.move]
    BY <2>5
  <2>7. PICK step :
          /\ step = apply(p.board, p.clears, t, nth_placement(t, i)) /\ step.legal
          /\ q.board = step.board /\ q.clears = step.clears
    BY <2>6
  <2>8. PICK k \in DOMAIN frontier : Keeps(frontier[k], PLAN_NODES[h][DEPTH - 2][d], p)
    BY <1>11, <2>2, <2>3
  <2>9. PICK e : e = frontier[k]
    OBVIOUS
  <2>10. e.node = PLAN_NODES[h][DEPTH - 2][d] /\ e.board = p.board /\ e.clears = p.clears
    BY <2>8, <2>9 DEF Keeps
  <2>11. step = apply(e.board, e.clears, t, nth_placement(t, i))
    BY <2>7, <2>10
  <2>12. PICK key \in all : key.score = Score(m, g, cnode, step)
    <3>1. child \in ChildRange(PLAN_TREES[h][DEPTH - 2][e.node])
      BY <1>10, <2>9, <2>10
    <3>2. \A a \in 0..(n_theoretical_placements(t) - 1) : \A s :
            s = apply(e.board, e.clears, t, nth_placement(t, a)) /\ s.legal
              => \E key \in all : key.score = Score(m, g, cnode, s)
      BY <1>7, <1>8, <2>9, <3>1, ChildLeaves
    <3>3. QED
      BY <2>7, <2>11, <3>2
  <2>13. QED
    BY <2>1, <2>7, <2>12 DEF Score
<1>13. CASE n = DEPTH - 1
  <2>1. PICK node : node = PLAN_TREES[h][level][PLAN_NODES[h][level][d]]
    OBVIOUS
  <2>2. l.value = Evaluate(m, q.clears, q.board, heldIsI(g, node))
    <3>1. plan.heldSlot[level] = node.heldSlot
      BY <1>1, <1>5, <2>1, PlanAtNode
    <3>2. l = Leaf(plan, g, m, level + 1, q) /\ (level + 1) - 1 = level
      BY <1>3, <1>5, <1>13, PlanSets
    <3>3. QED
      BY <3>1, <3>2 DEF Leaf, heldIsI
  <2>3. PICK k \in DOMAIN frontier : Keeps(frontier[k], PLAN_NODES[h][DEPTH - 2][d], q)
    BY <1>11, <1>13
  <2>4. PICK e : e = frontier[k]
    OBVIOUS
  <2>5. e.node = PLAN_NODES[h][DEPTH - 2][d] /\ e.board = q.board /\ e.clears = q.clears
    BY <2>3, <2>4 DEF Keeps
  <2>6. e.score = Evaluate(m, e.clears, e.board, heldIsI(g, PLAN_TREES[h][DEPTH - 2][e.node]))
    BY <2>4 DEF FrontierOnLines, OnLines
  <2>7. e.score = l.value
    BY <1>5, <2>1, <2>2, <2>5, <2>6
  <2>8. LegalSteps(e.board, e.clears, t) = {}
    <3>1. n < DEPTH
      BY <1>13, DepthAssumption
    <3>2. QED
      BY <1>3, <1>9, <1>13, <2>5, <3>1
  <2>9. child \in ChildRange(PLAN_TREES[h][DEPTH - 2][e.node])
    BY <1>10, <2>4, <2>5
  <2>10. LegalSteps(e.board, e.clears, t) = {} => \E key \in all : key.score = e.score
    BY <1>7, <1>8, <2>4, <2>9, ChildLeaves
  <2>11. QED
    BY <2>7, <2>8, <2>10
<1>14. QED
  BY <1>4, <1>12, <1>13

\* With beams wide enough, every line is kept, and no leaf beats the result.
WideIInv ==
  KeepsEverything(ks) =>
    /\ stage = "search" => EveryLineKept(NoHeld, Slots, board, model, layer, kept)
    /\ stage = "hold" =>
         \A l \in search_leaves(queue, held, board, model) :
           l.length >= DEPTH - 1 => l.value <= lastMove.value

\* A search with such beams starts with every line.
LEMMA WideSearchStarts ==
  ASSUME ScoresAreNumbers, IInv, model \in Models, ks \in BeamWidths, KeepsEverything(ks),
         NEW scores, scores = score_roots(Tree, Slots, board, model),
         NEW rs, rs = select_top(scores, Width(ks, 0)),
         NEW frontier, frontier = seed_frontier(Tree, Slots, board, rs)
  PROVE  EveryLineKept(NoHeld, Slots, board, model, 0, frontier)
<1>1. PICK h \in BOOLEAN : h = NoHeld
  BY GatheredSlots
<1>2. PICK g : g = Slots
  OBVIOUS
<1>3. PiecesInSlots(h, g) /\ board \in Boards /\ Tree = PLAN_TREES[h]
  BY <1>1, <1>2, GatheredSlots
<1>4. PICK width \in Nat : width = Width(ks, 0) /\ width >= Cardinality(ROOT_SLOTS)
  <2>1. 0 \in 0..(DEPTH - 2)
    BY DepthAssumption
  <2>2. Width(ks, 0) \in Nat
    BY <2>1, Widths
  <2>3. QED
    BY <2>2 DEF KeepsEverything
<1>5. PICK b \in Boards, m \in Models : b = board /\ m = model
  BY <1>3
<1>6. /\ scores = score_roots(PLAN_TREES[h], g, b, m) /\ rs = select_top(scores, width)
      /\ frontier = seed_frontier(PLAN_TREES[h], g, b, rs)
  BY <1>2, <1>3, <1>4, <1>5
<1>7. EveryLineKept(h, g, b, m, 0, frontier)
  BY <1>3, <1>4, <1>6, SeededWithEveryLine
<1>8. QED
  BY <1>1, <1>2, <1>5, <1>7

\* A middle level keeps every line of one placement more.
LEMMA WideSearchGoesOn ==
  ASSUME ScoresAreNumbers, IInv, model \in Models, ks \in BeamWidths, KeepsEverything(ks), Searching,
         EveryLineKept(NoHeld, Slots, board, model, layer, kept),
         NEW level, level = layer + 1, layer < DEPTH - 2,
         NEW scores, scores = score_mid_level(Tree, Slots, level, kept, model),
         NEW next, next = advance_frontier(Tree, Slots, level, kept, select_top(scores, Width(ks, level)))
  PROVE  EveryLineKept(NoHeld, Slots, board, model, level, next)
<1>1. PICK h \in BOOLEAN : h = NoHeld
  BY GatheredSlots
<1>2. PICK g : g = Slots
  OBVIOUS
<1>3. PiecesInSlots(h, g) /\ Tree = PLAN_TREES[h]
  BY <1>1, <1>2, GatheredSlots
<1>4. PICK before \in Levels :
        /\ before = layer /\ before = level - 1 /\ level \in Levels
        /\ level \in 1..(DEPTH - 2) /\ layer \in 0..(DEPTH - 2) /\ level \in 0..(DEPTH - 2)
  BY DepthAssumption DEF Searching, Levels
<1>5. PICK wide \in Nat : wide = Width(ks, layer)
  BY <1>4, Widths
<1>6. PICK width \in Nat : width = Width(ks, level) /\ width >= wide * MAX_CHILD_MID * MAX_PLACEMENTS
  <2>1. Width(ks, level) \in Nat
    BY <1>4, Widths
  <2>2. Width(ks, level) >= Width(ks, level - 1) * MAX_CHILD_MID * MAX_PLACEMENTS
    BY <1>4 DEF KeepsEverything
  <2>3. level - 1 = layer
    BY <1>4
  <2>4. QED
    BY <1>5, <2>1, <2>2, <2>3
<1>7. FrontierOK(h, before, roots, wide, kept)
  BY <1>1, <1>4, <1>5 DEF Searching
<1>8. PICK m, b : m = model /\ b = board /\ m \in Models
  OBVIOUS
<1>9. score_mid_level(PLAN_TREES[h], g, level, kept, m) = scores
  BY <1>2, <1>3, <1>8
<1>10. PICK top : top = select_top(scores, width)
  OBVIOUS
<1>11. next = advance_frontier(PLAN_TREES[h], g, level, kept, top)
  BY <1>2, <1>3, <1>6, <1>10
<1>12. EveryLineKept(h, g, b, m, before, kept)
  BY <1>1, <1>2, <1>4, <1>8
<1>13. EveryLineKept(h, g, b, m, level, next)
  BY <1>3, <1>4, <1>6, <1>7, <1>8, <1>9, <1>10, <1>11, <1>12, AdvancedWithEveryLine
<1>14. QED
  BY <1>1, <1>2, <1>8, <1>13

\* The leaf chosen is as good as any of the exhaustive search.
LEMMA WideSearchFindsTheBest ==
  ASSUME ScoresAreNumbers, IInv, model \in Models, ks \in BeamWidths, Searching, layer = DEPTH - 2,
         FrontierOnLines(NoHeld, Slots, board, model, roots, layer, kept),
         EveryLineKept(NoHeld, Slots, board, model, layer, kept),
         NEW offers, offers = best \cup expand_leaves(Tree, Slots, kept, model),
         NEW found, found = decode_move(ks, Tree, Slots, roots, kept, BestKey(offers)),
         NEW l \in search_leaves(queue, held, board, model), l.length >= DEPTH - 1
  PROVE  l.value <= found.value
<1>1. PICK h \in BOOLEAN : h = NoHeld
  BY GatheredSlots
<1>2. PICK g : g = Slots
  OBVIOUS
<1>3. PiecesInSlots(h, g) /\ Tree = PLAN_TREES[h]
  BY <1>1, <1>2, GatheredSlots
<1>4. PICK m, b : m = model /\ b = board /\ m \in Models
  OBVIOUS
<1>5. PICK widths \in BeamWidths : widths = ks
  OBVIOUS
<1>6. /\ FrontierOK(h, DEPTH - 2, roots, Width(widths, DEPTH - 2), kept)
      /\ FrontierOnLines(h, g, b, m, roots, DEPTH - 2, kept)
      /\ EveryLineKept(h, g, b, m, DEPTH - 2, kept)
  BY <1>1, <1>2, <1>4, <1>5 DEF Searching
<1>7. PICK S : S = expand_leaves(PLAN_TREES[h], g, kept, m)
  OBVIOUS
<1>8. offers = best \cup S
  BY <1>2, <1>3, <1>4, <1>7
<1>9. PICK d \in Plans : l \in PlanLeaves(PLANS[h][d], g, b, m)
  BY <1>1, <1>2, <1>4 DEF search_leaves, NoHeld, Slots
<1>10. PICK key \in S : key.score = l.value
  BY <1>3, <1>4, <1>6, <1>7, <1>9, EveryLeafOffered
<1>11. offers \in SUBSET Keys /\ IsFiniteSet(offers) /\ key \in offers
  <2>1. S \in SUBSET Keys /\ IsFiniteSet(S)
    BY <1>3, <1>4, <1>6, <1>7, LeafOffers
  <2>2. best \in SUBSET Keys /\ IsFiniteSet(best)
    BY DEF Searching, OffersOK
  <2>3. QED
    BY <1>8, <1>10, <2>1, <2>2, FS_Union
<1>12. PICK top : top = BestKey(offers)
  OBVIOUS
<1>13. top \in offers /\ (top = key \/ Better(top, key))
  BY <1>11, <1>12, BestIsOffered
<1>14. key.score <= top.score
  BY <1>11, <1>13 DEF Better, Keys
<1>15. found.value = top.score
  BY <1>12 DEF decode_move
<1>16. QED
  BY <1>10, <1>14, <1>15

\* Every step preserves it.
LEMMA AiNextWide ==
  ScoresAreNumbers /\ AiIInv /\ LinesIInv /\ WideIInv /\ [AiNext]_aiVars => WideIInv'
<1> SUFFICES ASSUME ScoresAreNumbers, AiIInv, LinesIInv, WideIInv, [AiNext]_aiVars,
                    KeepsEverything(ks)'
             PROVE  /\ stage' = "search" => EveryLineKept(NoHeld, Slots, board, model, layer, kept)'
                    /\ stage' = "hold" =>
                         \A l \in search_leaves(queue, held, board, model)' :
                           l.length >= DEPTH - 1 => l.value <= lastMove'.value
  BY DEF WideIInv
<1>1. IInv /\ model \in Models /\ ks \in BeamWidths
  BY DEF AiIInv
<1>2. KeepsEverything(ks)
  <2>1. ks' = ks
    BY DEF AiNext, AiReset, GiveUp, SearchRoots, SearchLevel, SearchLeaves, CommitHold, CommitPlace, aiVars
  <2>2. QED
    BY <2>1 DEF KeepsEverything
<1>3. CASE AiReset
  BY <1>3 DEF AiReset
<1>4. CASE GiveUp
  BY <1>4 DEF GiveUp
<1>5. CASE SearchRoots
  <2>1. UNCHANGED <<board, queue, held, model, ks>> /\ stage' = "search" /\ layer' = 0
    BY <1>5 DEF SearchRoots, engineVars
  <2>2. PICK scores : scores = score_roots(Tree, Slots, board, model)
    OBVIOUS
  <2>3. /\ roots' = select_top(scores, Width(ks, 0))
        /\ kept' = seed_frontier(Tree, Slots, board, roots')
    BY <1>5, <2>2 DEF SearchRoots
  <2>4. EveryLineKept(NoHeld, Slots, board, model, 0, kept')
    BY <1>1, <1>2, <2>2, <2>3, WideSearchStarts
  <2>5. NoHeld' = NoHeld /\ Slots' = Slots
    BY <2>1, LinesKept
  <2>6. QED
    BY <2>1, <2>4, <2>5
<1>6. CASE SearchLevel
  <2>1. UNCHANGED <<board, queue, held, model, ks, stage>> /\ stage = "search"
    BY <1>6 DEF SearchLevel, engineVars
  <2>2. /\ Searching /\ layer < DEPTH - 2
        /\ EveryLineKept(NoHeld, Slots, board, model, layer, kept)
    BY <1>2, <1>6, <2>1 DEF SearchLevel, AiIInv, WideIInv
  <2>3. PICK level : level = layer + 1
    OBVIOUS
  <2>4. PICK scores : scores = score_mid_level(Tree, Slots, level, kept, model)
    OBVIOUS
  <2>5. /\ kept' = advance_frontier(Tree, Slots, level, kept, select_top(scores, Width(ks, level)))
        /\ layer' = level
    BY <1>6, <2>3, <2>4 DEF SearchLevel
  <2>6. EveryLineKept(NoHeld, Slots, board, model, level, kept')
    BY <1>1, <1>2, <2>2, <2>3, <2>4, <2>5, WideSearchGoesOn
  <2>7. NoHeld' = NoHeld /\ Slots' = Slots
    BY <2>1, LinesKept
  <2>8. QED
    BY <2>1, <2>5, <2>6, <2>7
<1>7. CASE SearchLeaves
  <2>1. UNCHANGED <<board, queue, held, model, ks>> /\ stage' = "hold"
    BY <1>7 DEF SearchLeaves, engineVars
  <2>2. Searching /\ SearchesLines /\ layer = DEPTH - 2
    BY <1>7 DEF SearchLeaves, AiIInv, LinesIInv
  <2>3. EveryLineKept(NoHeld, Slots, board, model, layer, kept)
    BY <1>2, <1>7 DEF SearchLeaves, WideIInv
  <2>4. PICK offers : offers = best \cup expand_leaves(Tree, Slots, kept, model)
    OBVIOUS
  <2>5. PICK found : found = decode_move(ks, Tree, Slots, roots, kept, BestKey(offers))
    OBVIOUS
  <2>6. lastMove' = found
    BY <1>7, <2>4, <2>5 DEF SearchLeaves
  <2>7. \A l \in search_leaves(queue, held, board, model) :
          l.length >= DEPTH - 1 => l.value <= found.value
    BY <1>1, <2>2, <2>3, <2>4, <2>5, WideSearchFindsTheBest DEF SearchesLines
  <2>8. QED
    BY <2>1, <2>6, <2>7
<1>8. CASE CommitHold
  BY <1>8 DEF CommitHold
<1>9. CASE CommitPlace
  BY <1>9 DEF CommitPlace
<1>10. CASE UNCHANGED aiVars
  <2>1. UNCHANGED <<board, queue, held, model, ks, stage, layer, kept, lastMove>>
    BY <1>10 DEF aiVars
  <2>2. NoHeld' = NoHeld /\ Slots' = Slots
    BY <2>1, LinesKept
  <2>3. QED
    BY <1>2, <2>1, <2>2 DEF WideIInv
<1>11. QED
  BY <1>3, <1>4, <1>5, <1>6, <1>7, <1>8, <1>9, <1>10 DEF AiNext

\* With beams that can keep everything, no leaf of the last two levels of the
\* exhaustive search is better than what the beam search returns.
THEOREM WideBeamsFindTheBest ==
  ASSUME ScoresAreNumbers
  PROVE  AiSpec => []WideBeamIsExhaustive
<1>1. AiInit => AiIInv /\ LinesIInv /\ WideIInv
  BY AiInitIInv DEF AiInit, LinesIInv, WideIInv
<1>2. AiIInv /\ [AiNext]_aiVars => AiIInv'
  BY AiNextIInv
<1>3. AiIInv /\ LinesIInv /\ [AiNext]_aiVars => LinesIInv'
  BY AiNextLines
<1>4. AiIInv /\ LinesIInv /\ WideIInv /\ [AiNext]_aiVars => WideIInv'
  BY AiNextWide
<1>5. WideIInv => WideBeamIsExhaustive
  BY DEF WideIInv, WideBeamIsExhaustive
<1>6. QED
  BY <1>1, <1>2, <1>3, <1>4, <1>5, PTL DEF AiSpec
-----------------------------------------------------------------------------
(* The placement table against all legal drops. *)

\* The topmost row of a shape in its box.
TopRow(t, o) ==
  CHOOSE r \in {blk[2] : blk \in Blocks[t][o]} : \A q \in {blk[2] : blk \in Blocks[t][o]} : r <= q

\* A shape's leftmost column and topmost row, and its blocks as pairs.
LEMMA Corner ==
  ASSUME NEW t \in Types, NEW o \in Orientation
  PROVE  /\ Left(t, o) \in Box /\ TopRow(t, o) \in Box
         /\ \A a, r : <<a, r>> \in Blocks[t][o] => a \in Box /\ r \in Box /\ Left(t, o) <= a /\ TopRow(t, o) <= r
         /\ \E r \in Box : <<Left(t, o), r>> \in Blocks[t][o]
         /\ \E a \in Box : <<a, TopRow(t, o)>> \in Blocks[t][o]
<1> DEFINE K == Blocks[t][o]
           R == {blk[2] : blk \in K}
<1>1. K \subseteq Box \X Box
  BY BlocksAssumption
<1>2. K # {}
  BY PieceShapes, FS_EmptySet DEF BLOCKS
<1>3. Box = {0, 1, 2, 3}
  BY DEF Box, PIECE_WIDTH
<1>4. R \subseteq {0, 1, 2, 3} /\ R # {}
  BY <1>1, <1>2, <1>3
<1>5. TopRow(t, o) = CHOOSE r \in R : \A q \in R : r <= q
  BY DEF TopRow
<1>6. \A r : r \in R => \E a \in Box : <<a, r>> \in K
  BY <1>1
<1>7. \A a, r : <<a, r>> \in K => a \in Box /\ r \in Box /\ r \in R
  BY <1>1
<1> HIDE DEF R
<1>8. TopRow(t, o) \in R /\ \A q \in R : TopRow(t, o) <= q
  <2>1. \E r \in R : \A q \in R : r <= q
    <3>1. CASE 0 \in R
      BY <1>4, <3>1
    <3>2. CASE 0 \notin R /\ 1 \in R
      BY <1>4, <3>2
    <3>3. CASE 0 \notin R /\ 1 \notin R /\ 2 \in R
      BY <1>4, <3>3
    <3>4. CASE 0 \notin R /\ 1 \notin R /\ 2 \notin R
      <4>1. R = {3}
        BY <1>4, <3>4
      <4>2. QED
        BY <4>1
    <3>5. QED
      BY <3>1, <3>2, <3>3, <3>4
  <2>2. QED
    BY <1>5, <2>1
<1>9. /\ Left(t, o) \in Box /\ Left(t, o) \in BoxColumns(t, o)
      /\ \A a \in BoxColumns(t, o) : Left(t, o) <= a
  <2>1. PICK l \in Box : l = Left(t, o)
    BY ColumnsAreARun
  <2>2. PICK n \in 1..4 : n = NumColumns(t, o)
    BY ColumnsAreARun
  <2>3. BoxColumns(t, o) = l..(l + n - 1)
    BY <2>1, <2>2, ColumnsAreARun
  <2>4. l \in Int
    BY <1>3
  <2>5. QED
    BY <2>1, <2>3, <2>4
<1>10. \A a, r : <<a, r>> \in K => a \in BoxColumns(t, o)
  <2>1. ASSUME NEW a, NEW r, <<a, r>> \in K
        PROVE  a \in BoxColumns(t, o)
    <3>1. <<a, r>>[1] = a
      OBVIOUS
    <3>2. QED
      BY <2>1, <3>1 DEF BoxColumns
  <2>2. QED
    BY <2>1
<1>11. \E r \in Box : <<Left(t, o), r>> \in K
  <2>1. PICK blk \in K : blk[1] = Left(t, o)
    BY <1>9 DEF BoxColumns
  <2>2. blk = <<blk[1], blk[2]>> /\ blk[2] \in Box
    BY <1>1
  <2>3. QED
    BY <2>1, <2>2
<1>12. QED
  BY <1>4, <1>3, <1>6, <1>7, <1>8, <1>9, <1>10, <1>11

\* The corner's column and row are numbers.
LEMMA CornerNumbers ==
  ASSUME NEW t \in Types, NEW o \in Orientation
  PROVE  Left(t, o) \in Int /\ TopRow(t, o) \in Int
<1>1. Left(t, o) \in Box /\ TopRow(t, o) \in Box
  BY Corner
<1>2. Box \subseteq Int
  BY DEF Box, PIECE_WIDTH
<1>3. QED
  BY <1>1, <1>2

\* A signature holds the blocks relative to that corner.
LEMMA SignatureMember ==
  ASSUME NEW t \in Types, NEW o \in Orientation
  PROVE  /\ \A a, r \in Int : <<a, r>> \in signature(t, o)
                                 <=> <<a + Left(t, o), r + TopRow(t, o)>> \in Blocks[t][o]
         /\ \A c \in signature(t, o) : \E a, r \in Int : c = <<a, r>>
<1> DEFINE K == Blocks[t][o]
<1>1. PICK l \in Int : l = Left(t, o)
  BY CornerNumbers
<1>2. PICK top \in Int : top = TopRow(t, o)
  BY CornerNumbers
<1>3. signature(t, o) = {<<blk[1] - l, blk[2] - top>> : blk \in K}
  BY <1>1, <1>2 DEF signature, TopRow
<1>4. \A blk \in K : blk[1] \in Int /\ blk[2] \in Int /\ blk = <<blk[1], blk[2]>>
  <2>1. K \subseteq Box \X Box
    BY BlocksAssumption
  <2>2. Box \subseteq Int
    BY DEF Box, PIECE_WIDTH
  <2>3. QED
    BY <2>1, <2>2
<1> HIDE DEF K
<1>5. ASSUME NEW a \in Int, NEW r \in Int, <<a, r>> \in signature(t, o)
      PROVE  <<a + l, r + top>> \in K
  <2>1. PICK blk \in K : <<a, r>> = <<blk[1] - l, blk[2] - top>>
    BY <1>3, <1>5
  <2>2. a = blk[1] - l /\ r = blk[2] - top
    BY <2>1
  <2>3. a + l = blk[1] /\ r + top = blk[2]
    BY <1>4, <2>2
  <2>4. QED
    BY <1>4, <2>3
<1>6. ASSUME NEW a \in Int, NEW r \in Int, <<a + l, r + top>> \in K
      PROVE  <<a, r>> \in signature(t, o)
  <2>1. PICK blk \in K : blk = <<a + l, r + top>>
    BY <1>6
  <2>2. blk[1] - l = a /\ blk[2] - top = r
    BY <2>1
  <2>3. QED
    BY <1>3, <2>2
<1>7. ASSUME NEW c \in signature(t, o)
      PROVE  \E a, r \in Int : c = <<a, r>>
  <2>1. PICK blk \in K : c = <<blk[1] - l, blk[2] - top>>
    BY <1>3
  <2>2. blk[1] - l \in Int /\ blk[2] - top \in Int
    BY <1>4
  <2>3. QED
    BY <2>1, <2>2
<1>8. QED
  BY <1>1, <1>2, <1>5, <1>6, <1>7 DEF K

\* Shapes with one signature are translations of each other.
LEMMA SameSignature ==
  ASSUME NEW t \in Types, NEW o \in Orientation, NEW p \in Orientation,
         signature(t, o) = signature(t, p), NEW a \in Int, NEW r \in Int
  PROVE  <<a, r>> \in Blocks[t][o]
           <=> <<a - Left(t, o) + Left(t, p), r - TopRow(t, o) + TopRow(t, p)>> \in Blocks[t][p]
<1>1. PICK l \in Int, m \in Int : l = Left(t, o) /\ m = Left(t, p)
  BY CornerNumbers
<1>2. PICK u \in Int, v \in Int : u = TopRow(t, o) /\ v = TopRow(t, p)
  BY CornerNumbers
<1>3. a - l \in Int /\ r - u \in Int /\ (a - l) + l = a /\ (r - u) + u = r
  OBVIOUS
<1>4. <<a - l, r - u>> \in signature(t, o) <=> <<(a - l) + l, (r - u) + u>> \in Blocks[t][o]
  BY <1>1, <1>2, <1>3, SignatureMember
<1>5. <<a - l, r - u>> \in signature(t, p) <=> <<(a - l) + m, (r - u) + v>> \in Blocks[t][p]
  BY <1>1, <1>2, <1>3, SignatureMember
<1>6. QED
  BY <1>1, <1>2, <1>3, <1>4, <1>5

\* And translations of each other have one signature.
LEMMA TranslatedBlocks ==
  ASSUME NEW t \in Types, NEW o \in Orientation, NEW p \in Orientation,
         NEW j \in Int, NEW k \in Int,
         \A a, r \in Int : <<a, r>> \in Blocks[t][o] <=> <<a + j, r + k>> \in Blocks[t][p]
  PROVE  Left(t, p) = Left(t, o) + j /\ signature(t, o) = signature(t, p)
<1>1. PICK l \in Int, m \in Int : l = Left(t, o) /\ m = Left(t, p)
  BY CornerNumbers
<1>2. PICK u \in Int, v \in Int : u = TopRow(t, o) /\ v = TopRow(t, p)
  BY CornerNumbers
<1>3. \A a, r \in Int : <<a, r>> \in Blocks[t][o] => l <= a /\ u <= r
  BY <1>1, <1>2, Corner
<1>4. \A a, r \in Int : <<a, r>> \in Blocks[t][p] => m <= a /\ v <= r
  BY <1>1, <1>2, Corner
<1>5. Box \subseteq Int
  BY DEF Box, PIECE_WIDTH
<1>6. ASSUME NEW a \in Int, NEW r \in Int, <<a, r>> \in Blocks[t][p]
      PROVE  <<a - j, r - k>> \in Blocks[t][o]
  <2>1. a - j \in Int /\ r - k \in Int /\ (a - j) + j = a /\ (r - k) + k = r
    OBVIOUS
  <2>2. QED
    BY <1>6, <2>1
<1>7. m = l + j
  <2>1. PICK r \in Int : <<l, r>> \in Blocks[t][o]
    BY <1>1, <1>5, Corner
  <2>2. m <= l + j
    <3>1. <<l + j, r + k>> \in Blocks[t][p] /\ l + j \in Int /\ r + k \in Int
      BY <2>1
    <3>2. QED
      BY <1>4, <3>1
  <2>3. PICK q \in Int : <<m, q>> \in Blocks[t][p]
    BY <1>1, <1>5, Corner
  <2>4. l <= m - j
    <3>1. <<m - j, q - k>> \in Blocks[t][o] /\ m - j \in Int /\ q - k \in Int
      BY <1>6, <2>3
    <3>2. QED
      BY <1>3, <3>1
  <2>5. QED
    BY <2>2, <2>4
<1>8. v = u + k
  <2>1. PICK a \in Int : <<a, u>> \in Blocks[t][o]
    BY <1>2, <1>5, Corner
  <2>2. v <= u + k
    <3>1. <<a + j, u + k>> \in Blocks[t][p] /\ a + j \in Int /\ u + k \in Int
      BY <2>1
    <3>2. QED
      BY <1>4, <3>1
  <2>3. PICK c \in Int : <<c, v>> \in Blocks[t][p]
    BY <1>2, <1>5, Corner
  <2>4. u <= v - k
    <3>1. <<c - j, v - k>> \in Blocks[t][o] /\ c - j \in Int /\ v - k \in Int
      BY <1>6, <2>3
    <3>2. QED
      BY <1>3, <3>1
  <2>5. QED
    BY <2>2, <2>4
<1>9. ASSUME NEW a \in Int, NEW r \in Int
      PROVE  <<a, r>> \in signature(t, o) <=> <<a, r>> \in signature(t, p)
  <2>1. <<a, r>> \in signature(t, o) <=> <<a + l, r + u>> \in Blocks[t][o]
    BY <1>1, <1>2, SignatureMember
  <2>2. <<a, r>> \in signature(t, p) <=> <<a + m, r + v>> \in Blocks[t][p]
    BY <1>1, <1>2, SignatureMember
  <2>3. (a + l) + j = a + m /\ (r + u) + k = r + v /\ a + l \in Int /\ r + u \in Int
    BY <1>7, <1>8
  <2>4. QED
    BY <2>1, <2>2, <2>3
<1>10. signature(t, o) = signature(t, p)
  <2>1. /\ \A c \in signature(t, o) : \E a, r \in Int : c = <<a, r>>
        /\ \A c \in signature(t, p) : \E a, r \in Int : c = <<a, r>>
    BY SignatureMember
  <2>2. PICK X, Y : X = signature(t, o) /\ Y = signature(t, p)
    OBVIOUS
  <2>3. ASSUME NEW c \in X
        PROVE  c \in Y
    <3>1. PICK a \in Int, r \in Int : c = <<a, r>>
      BY <2>1, <2>2
    <3>2. QED
      BY <1>9, <2>2, <3>1
  <2>4. ASSUME NEW c \in Y
        PROVE  c \in X
    <3>1. PICK a \in Int, r \in Int : c = <<a, r>>
      BY <2>1, <2>2
    <3>2. QED
      BY <1>9, <2>2, <3>1
  <2>5. QED
    BY <2>2, <2>3, <2>4
<1>11. QED
  BY <1>1, <1>7, <1>10

\* Of the orientations with one signature the table keeps one.
LEMMA Represented ==
  ASSUME NEW t \in Types
  PROVE  /\ \A o \in Orientation : \E p \in representatives(t) : signature(t, p) = signature(t, o)
         /\ \A o, p \in representatives(t) : signature(t, p) = signature(t, o) => p = o
<1>1. Orientation = {0, 1, 2, 3}
  BY DEF Orientation, TOP, RIGHT, BOTTOM, LEFT
<1>2. ASSUME NEW o \in Orientation
      PROVE  \E p \in representatives(t) : signature(t, p) = signature(t, o)
  <2> DEFINE same == {q \in Orientation : signature(t, q) = signature(t, o)}
  <2>1. o \in same /\ same \subseteq {0, 1, 2, 3}
    BY <1>1
  <2>2. PICK p \in same : \A q \in same : p <= q
    <3> HIDE DEF same
    <3>1. CASE 0 \in same
      BY <2>1, <3>1
    <3>2. CASE 0 \notin same /\ 1 \in same
      BY <2>1, <3>2
    <3>3. CASE 0 \notin same /\ 1 \notin same /\ 2 \in same
      BY <2>1, <3>3
    <3>4. CASE 0 \notin same /\ 1 \notin same /\ 2 \notin same
      <4>1. same = {3}
        BY <2>1, <3>4
      <4>2. QED
        BY <4>1
    <3>5. QED
      BY <3>1, <3>2, <3>3, <3>4
  <2>3. ASSUME NEW q \in Orientation, q < p
        PROVE  signature(t, q) # signature(t, p)
    <3>1. q \in Int /\ p \in Int
      BY <1>1
    <3>2. q \notin same
      BY <2>2, <2>3, <3>1
    <3>3. QED
      BY <3>2
  <2>4. p \in representatives(t)
    BY <2>3 DEF representatives
  <2>5. QED
    BY <2>4
<1>3. ASSUME NEW o \in representatives(t), NEW p \in representatives(t),
             signature(t, p) = signature(t, o)
      PROVE  p = o
  <2>1. o \in Orientation /\ p \in Orientation /\ ~(p < o) /\ ~(o < p)
    BY <1>3 DEF representatives
  <2>2. o \in Int /\ p \in Int
    BY <1>1, <2>1
  <2>3. QED
    BY <2>1, <2>2
<1>4. QED
  BY <1>2, <1>3

\* The drops of a piece that the table has: of an orientation it keeps, at any
\* x that keeps the piece between the walls.
LEMMA TabledDrops ==
  ASSUME NEW t \in Types
  PROVE  /\ \A o \in representatives(t), x \in Int :
              OffsetInBounds(PieceShapeAt(t, o, x), 0) => [orientation |-> o, x |-> x] \in TableDrops(t)
         /\ \A d \in TableDrops(t) : \E o \in representatives(t), x \in Int :
              OffsetInBounds(PieceShapeAt(t, o, x), 0) /\ d = [orientation |-> o, x |-> x]
<1>1. representatives(t) \subseteq Orientation
  BY DEF representatives
<1>2. ASSUME NEW o \in representatives(t), NEW x \in Int, OffsetInBounds(PieceShapeAt(t, o, x), 0)
      PROVE  [orientation |-> o, x |-> x] \in TableDrops(t)
  <2>1. x \in orientation_range(t, o).xMin..orientation_range(t, o).xMax
    BY <1>1, <1>2, RangeFits
  <2>2. QED
    BY <2>1, TableHolds DEF TableEntries
<1>3. ASSUME NEW d \in TableDrops(t)
      PROVE  \E o \in representatives(t), x \in Int :
               OffsetInBounds(PieceShapeAt(t, o, x), 0) /\ d = [orientation |-> o, x |-> x]
  <2>1. d \in TableEntries(t)
    BY TableHolds
  <2>2. PICK o \in representatives(t) :
          \E x \in orientation_range(t, o).xMin..orientation_range(t, o).xMax :
            d = [orientation |-> o, x |-> x]
    BY <2>1 DEF TableEntries
  <2>3. PICK x \in orientation_range(t, o).xMin..orientation_range(t, o).xMax :
          d = [orientation |-> o, x |-> x]
    BY <2>2
  <2>4. o \in Orientation
    BY <1>1
  <2>5. x \in Int
    BY <2>4, RangeFits
  <2>6. OffsetInBounds(PieceShapeAt(t, o, x), 0)
    BY <2>4, <2>5, RangeFits
  <2>7. QED
    BY <2>3, <2>5, <2>6
<1>4. QED
  BY <1>2, <1>3

\* A piece between the walls has its window on or next to the board.
LEMMA BetweenWalls ==
  ASSUME NEW t \in Types, NEW o \in Orientation, NEW x \in Int,
         OffsetInBounds(PieceShapeAt(t, o, x), 0)
  PROVE  x \in WindowXs
<1>1. PICK a \in Box, r \in Box : <<a, r>> \in Blocks[t][o]
  BY Corner
<1>2. PieceShapeAt(t, o, x).blocks = Blocks[t][o] /\ PieceShapeAt(t, o, x).x = x
  BY DEF PieceShapeAt
<1>3. x + <<a, r>>[1] \in Columns
  BY <1>1, <1>2 DEF OffsetInBounds
<1>4. x + a \in Columns
  BY <1>3
<1>5. WIDTH \in Nat
  BY BoardAssumption
<1>6. QED
  BY <1>4, <1>5 DEF Columns, WindowXs, Box, PIECE_WIDTH

\* Where the spawn rows are free, every piece between the walls fits.
LEMMA FitsAtTheTop ==
  ASSUME NEW b \in Boards, SpawnRowsFree(b), NEW t \in Types, NEW o \in Orientation, NEW x \in Int,
         OffsetInBounds(PieceShapeAt(t, o, x), 0)
  PROVE  Available(b, t, o, <<x, 0>>)
<1>1. PICK s : s = PieceShapeAt(t, o, x)
  OBVIOUS
<1>2. s \in Shapes /\ OffsetInBounds(s, 0)
  BY <1>1, PieceShapes
<1>3. Box \subseteq Rows /\ Box \subseteq Int /\ Columns \subseteq Int
  BY BoardAssumption DEF Box, Rows, PIECE_WIDTH, Columns
<1>4. ASSUME NEW c \in Columns
      PROVE  ShiftedColumn(s, c, 0) \subseteq Box
  <2>1. ASSUME NEW r \in ColumnOf(s, c)
        PROVE  r \in Box /\ r + 0 = r
    <3>1. r \in Box
      BY <1>2, <1>3, ColumnOfMember
    <3>2. QED
      BY <1>3, <3>1
  <2>2. QED
    BY <2>1 DEF ShiftedColumn
<1>5. \A c \in Columns : b[c] \cap Box = {}
  BY DEF SpawnRowsFree
<1>6. Free(b, s, 0)
  <2>1. ASSUME NEW c \in Columns
        PROVE  ShiftedColumn(s, c, 0) \subseteq Rows /\ ShiftedColumn(s, c, 0) \cap b[c] = {}
    BY <1>3, <1>4, <1>5
  <2>2. QED
    BY <2>1 DEF Free
<1>7. QED
  BY <1>1, <1>2, <1>6 DEF Available

\* The same shape further down in its box.
Lowered(s, u, k) ==
  \A x \in Columns : \A r \in Int : r \in ColumnOf(s, x) <=> r + k \in ColumnOf(u, x)

\* How high in its box a shape stands makes no difference to where it rests.
LEMMA RestsAlike ==
  ASSUME NEW b \in Boards, SpawnRowsFree(b), NEW s \in Shapes, NEW u \in Shapes, NEW k \in Int,
         Solid(s), Solid(u), OffsetInBounds(s, 0), OffsetInBounds(u, 0), Lowered(s, u, k)
  PROVE  Placed(b, s, DropDistance(b, s, 0)) = Placed(b, u, DropDistance(b, u, 0))
<1>1. Box \subseteq 0..3 /\ Columns \subseteq Int /\ HEIGHT \in Nat /\ HEIGHT >= 4
  BY BoardAssumption DEF Box, PIECE_WIDTH, Columns
<1>2. /\ \A x \in Columns : ColumnOf(s, x) \in SUBSET (0..3)
      /\ \A x \in Columns : ColumnOf(u, x) \in SUBSET (0..3)
  BY <1>1, ColumnOfMember
<1>3. SpannedColumns(s) = SpannedColumns(u)
  <2>1. ASSUME NEW x \in Columns, ColumnOf(s, x) # {}
        PROVE  ColumnOf(u, x) # {}
    <3>1. PICK r \in Int : r \in ColumnOf(s, x)
      BY <1>2, <2>1
    <3>2. QED
      BY <3>1 DEF Lowered
  <2>2. ASSUME NEW x \in Columns, ColumnOf(u, x) # {}
        PROVE  ColumnOf(s, x) # {}
    <3>1. PICK r \in Int : r \in ColumnOf(u, x)
      BY <1>2, <2>2
    <3>2. r - k \in Int /\ (r - k) + k = r
      OBVIOUS
    <3>3. QED
      BY <3>1, <3>2 DEF Lowered
  <2>3. QED
    BY <2>1, <2>2 DEF SpannedColumns
<1>4. SpannedColumns(s) # {} /\ SpannedColumns(s) \subseteq Columns
  BY InBoundsSpans DEF SpannedColumns
<1>5. ASSUME NEW x \in SpannedColumns(s)
      PROVE  /\ LowestBlock(s, x, 0) \in 0..3 /\ LowestBlock(u, x, 0) = LowestBlock(s, x, 0) + k
             /\ LowestBlock(u, x, 0) \in 0..3
  <2>1. x \in Columns /\ x \in SpannedColumns(u) /\ 0 \in Nat
    BY <1>3, <1>4
  <2>2. PICK p \in Int : p = LowestBlock(s, x, 0)
    BY <2>1, LowestBlockProps
  <2>3. PICK q \in Int : q = LowestBlock(u, x, 0)
    BY <2>1, LowestBlockProps
  <2>4. p - 0 \in ColumnOf(s, x) /\ \A r \in ColumnOf(s, x) : r + 0 <= p
    BY <2>1, <2>2, LowestBlockProps
  <2>5. q - 0 \in ColumnOf(u, x) /\ \A r \in ColumnOf(u, x) : r + 0 <= q
    BY <2>1, <2>3, LowestBlockProps
  <2>6. p \in ColumnOf(s, x) /\ q \in ColumnOf(u, x)
    BY <2>4, <2>5
  <2>7. p + k \in ColumnOf(u, x)
    BY <2>1, <2>6 DEF Lowered
  <2>8. (q - k) + k = q /\ q - k \in Int
    OBVIOUS
  <2>9. q - k \in ColumnOf(s, x)
    BY <2>1, <2>6, <2>8 DEF Lowered
  <2>10. p + k + 0 <= q /\ q - k + 0 <= p
    BY <2>4, <2>5, <2>7, <2>9
  <2>11. p \in 0..3 /\ q \in 0..3
    BY <1>2, <2>1, <2>6
  <2>12. QED
    BY <2>2, <2>3, <2>10, <2>11
<1>6. ASSUME NEW x \in SpannedColumns(s)
      PROVE  ColumnDrop(b, u, x, 0) = ColumnDrop(b, s, x, 0) - k
  <2>1. x \in Columns
    BY <1>4
  <2>2. b[x] \subseteq Nat /\ b[x] \cap Box = {}
    BY <2>1 DEF Boards, Rows, SpawnRowsFree
  <2>3. \A r \in b[x] : r > 3
    BY <2>2 DEF Box, PIECE_WIDTH
  <2>4. PICK p \in 0..3 : p = LowestBlock(s, x, 0)
    BY <1>5
  <2>5. PICK q \in 0..3 : q = LowestBlock(u, x, 0) /\ q = p + k
    BY <1>5, <2>4
  <2>6. {r \in b[x] : r > p} = b[x] /\ {r \in b[x] : r > q} = b[x]
    BY <2>2, <2>3
  <2>7. PICK top : top = ColumnTop(b[x])
    OBVIOUS
  <2>8. ColumnDrop(b, s, x, 0) = top - p - 1 /\ ColumnDrop(b, u, x, 0) = top - q - 1
    BY <2>4, <2>5, <2>6, <2>7 DEF ColumnDrop
  <2>9. top \in Int
    <3>1. b[x] \cup {HEIGHT} \in SUBSET Nat /\ b[x] \cup {HEIGHT} # {}
      BY <1>1, <2>2
    <3>2. Min(b[x] \cup {HEIGHT}) \in b[x] \cup {HEIGHT}
      BY <3>1, MinOfNaturals
    <3>3. QED
      BY <2>7, <3>1, <3>2 DEF ColumnTop
  <2>10. QED
    BY <2>5, <2>8, <2>9
<1>7. /\ \A x \in SpannedColumns(s) : LowestBlock(s, x, 0) < HEIGHT
      /\ \A x \in SpannedColumns(u) : LowestBlock(u, x, 0) < HEIGHT
  BY <1>1, <1>3, <1>5
<1>8. PICK d \in Nat : d = DropDistance(b, s, 0)
  BY <1>4, <1>7, DropDistanceProps
<1>9. PICK e \in Nat : e = DropDistance(b, u, 0)
  BY <1>3, <1>4, <1>7, DropDistanceProps
<1>10. /\ \A x \in SpannedColumns(s) : d <= ColumnDrop(b, s, x, 0)
       /\ \E x \in SpannedColumns(s) : d = ColumnDrop(b, s, x, 0)
  BY <1>4, <1>7, <1>8, DropDistanceProps
<1>11. /\ \A x \in SpannedColumns(s) : e <= ColumnDrop(b, u, x, 0)
       /\ \E x \in SpannedColumns(s) : e = ColumnDrop(b, u, x, 0)
  BY <1>3, <1>4, <1>7, <1>9, DropDistanceProps
<1>12. e = d - k
  <2>1. PICK x \in SpannedColumns(s) : d = ColumnDrop(b, s, x, 0)
    BY <1>10
  <2>2. e <= d - k
    BY <1>6, <1>11, <2>1
  <2>3. PICK y \in SpannedColumns(s) : e = ColumnDrop(b, u, y, 0)
    BY <1>11
  <2>4. PICK f \in Int : f = ColumnDrop(b, s, y, 0)
    <3>1. ColumnDrop(b, s, y, 0) \in Nat
      BY <1>7, ColumnDropProps
    <3>2. QED
      BY <3>1
  <2>5. e = f - k
    BY <1>6, <2>3, <2>4
  <2>6. d <= f
    BY <1>10, <2>4
  <2>7. QED
    BY <2>2, <2>5, <2>6
<1>13. ASSUME NEW x \in Columns
       PROVE  ShiftedColumn(s, x, d) = ShiftedColumn(u, x, e)
  <2>1. ASSUME NEW r \in ColumnOf(s, x)
        PROVE  r + d \in ShiftedColumn(u, x, e)
    <3>1. r \in Int
      BY <1>2, <2>1
    <3>2. r + k \in ColumnOf(u, x)
      BY <2>1, <3>1 DEF Lowered
    <3>3. (r + k) + e = r + d
      BY <1>12, <3>1
    <3>4. QED
      BY <3>2, <3>3 DEF ShiftedColumn
  <2>2. ASSUME NEW r \in ColumnOf(u, x)
        PROVE  r + e \in ShiftedColumn(s, x, d)
    <3>1. r \in Int
      BY <1>2, <2>2
    <3>2. r - k \in Int /\ (r - k) + k = r
      BY <3>1
    <3>3. r - k \in ColumnOf(s, x)
      BY <2>2, <3>2 DEF Lowered
    <3>4. (r - k) + d = r + e
      BY <1>12, <3>1
    <3>5. QED
      BY <3>3, <3>4 DEF ShiftedColumn
  <2>3. QED
    BY <2>1, <2>2 DEF ShiftedColumn
<1>14. QED
  BY <1>8, <1>9, <1>13 DEF Placed

\* The rows of a piece in a board column, as blocks.
LEMMA ColumnHas ==
  ASSUME NEW t \in Types, NEW o \in Orientation, NEW x \in Int, NEW c \in Int, NEW r \in Int
  PROVE  r \in ColumnOf(PieceShapeAt(t, o, x), c) <=> <<c - x, r>> \in Blocks[t][o]
<1>1. PICK s : s = PieceShapeAt(t, o, x)
  OBVIOUS
<1>2. s \in Shapes /\ s.blocks = Blocks[t][o] /\ s.x = x
  BY <1>1, PieceShapes DEF PieceShapeAt
<1>3. r \in ColumnOf(s, c) <=> r \in Box /\ c - x \in Box /\ <<c - x, r>> \in Blocks[t][o]
  BY <1>2, ColumnOfMember
<1>4. <<c - x, r>> \in Blocks[t][o] => r \in Box /\ c - x \in Box
  BY Corner
<1>5. QED
  BY <1>1, <1>3, <1>4

\* A piece is between the walls when its blocks are.
LEMMA WallsByBlock ==
  ASSUME NEW t \in Types, NEW o \in Orientation, NEW x \in Int
  PROVE  OffsetInBounds(PieceShapeAt(t, o, x), 0)
           <=> \A a, r \in Int : <<a, r>> \in Blocks[t][o] => x + a \in Columns
<1>1. PICK K : K = Blocks[t][o]
  OBVIOUS
<1>2. K \subseteq Int \X Int
  BY <1>1, BlocksAssumption DEF Box, PIECE_WIDTH
<1>3. 0 \in Rows
  BY BoardAssumption DEF Rows, PIECE_WIDTH
<1>4. OffsetInBounds(PieceShapeAt(t, o, x), 0) <=> \A blk \in K : x + blk[1] \in Columns
  BY <1>1, <1>3 DEF OffsetInBounds, PieceShapeAt
<1>5. ASSUME \A blk \in K : x + blk[1] \in Columns, NEW a \in Int, NEW r \in Int, <<a, r>> \in K
      PROVE  x + a \in Columns
  <2>1. x + <<a, r>>[1] \in Columns
    BY <1>5
  <2>2. QED
    BY <2>1
<1>6. ASSUME \A a, r \in Int : <<a, r>> \in K => x + a \in Columns, NEW blk \in K
      PROVE  x + blk[1] \in Columns
  <2>1. PICK a \in Int, r \in Int : blk = <<a, r>>
    BY <1>2
  <2>2. QED
    BY <1>6, <2>1
<1>7. QED
  BY <1>1, <1>4, <1>5, <1>6

\* Whatever drop is legal, the table has one of the same shape in the same
\* columns.
LEMMA TabledAlike ==
  ASSUME NEW t \in Types, NEW o \in Orientation, NEW x \in Int,
         OffsetInBounds(PieceShapeAt(t, o, x), 0)
  PROVE  \E p \in representatives(t), y \in Int, k \in Int :
           /\ OffsetInBounds(PieceShapeAt(t, p, y), 0)
           /\ Lowered(PieceShapeAt(t, o, x), PieceShapeAt(t, p, y), k)
<1>1. PICK p \in representatives(t) : signature(t, p) = signature(t, o)
  BY Represented
<1>2. p \in Orientation
  BY DEF representatives
<1>3. PICK l \in Int, m \in Int : l = Left(t, o) /\ m = Left(t, p)
  BY <1>2, CornerNumbers
<1>4. PICK u \in Int, v \in Int : u = TopRow(t, o) /\ v = TopRow(t, p)
  BY <1>2, CornerNumbers
<1>5. PICK y \in Int, k \in Int : y = x + l - m /\ k = v - u
  OBVIOUS
<1>6. ASSUME NEW a \in Int, NEW r \in Int
      PROVE  <<a, r>> \in Blocks[t][o] <=> <<a - l + m, r - u + v>> \in Blocks[t][p]
  BY <1>1, <1>2, <1>3, <1>4, SameSignature
<1>7. OffsetInBounds(PieceShapeAt(t, p, y), 0)
  <2>1. ASSUME NEW a \in Int, NEW r \in Int, <<a, r>> \in Blocks[t][p]
        PROVE  y + a \in Columns
    <3>1. PICK c \in Int, q \in Int : c = a - m + l /\ q = r - v + u
      OBVIOUS
    <3>2. c - l + m = a /\ q - u + v = r
      BY <3>1
    <3>3. <<c, q>> \in Blocks[t][o]
      BY <1>6, <2>1, <3>2
    <3>4. x + c \in Columns
      BY <3>3, WallsByBlock
    <3>5. x + c = y + a
      BY <1>5, <3>1
    <3>6. QED
      BY <3>4, <3>5
  <2>2. QED
    BY <1>2, <2>1, WallsByBlock
<1>8. Lowered(PieceShapeAt(t, o, x), PieceShapeAt(t, p, y), k)
  <2>1. ASSUME NEW c \in Int, NEW r \in Int
        PROVE  r \in ColumnOf(PieceShapeAt(t, o, x), c) <=> r + k \in ColumnOf(PieceShapeAt(t, p, y), c)
    <3>1. PICK a \in Int, e \in Int, q \in Int : a = c - x /\ e = c - y /\ q = r + k
      OBVIOUS
    <3>2. r \in ColumnOf(PieceShapeAt(t, o, x), c) <=> <<a, r>> \in Blocks[t][o]
      BY <3>1, ColumnHas
    <3>3. q \in ColumnOf(PieceShapeAt(t, p, y), c) <=> <<e, q>> \in Blocks[t][p]
      BY <1>2, <3>1, ColumnHas
    <3>4. e = a - l + m /\ q = r - u + v
      BY <1>5, <3>1
    <3>5. <<a, r>> \in Blocks[t][o] <=> <<e, q>> \in Blocks[t][p]
      BY <1>6, <3>4
    <3>6. QED
      BY <3>1, <3>2, <3>3, <3>5
  <2>2. Columns \subseteq Int
    BY DEF Columns
  <2>3. QED
    BY <2>1, <2>2 DEF Lowered
<1>9. QED
  BY <1>7, <1>8

\* Two drops of the table never rest on the same cells.
LEMMA RestsApart ==
  ASSUME NEW b \in Boards, SpawnRowsFree(b), NEW t \in Types,
         NEW o \in representatives(t), NEW x \in Int, OffsetInBounds(PieceShapeAt(t, o, x), 0),
         NEW p \in representatives(t), NEW y \in Int, OffsetInBounds(PieceShapeAt(t, p, y), 0),
         RestingBoard(b, t, o, x) = RestingBoard(b, t, p, y)
  PROVE  o = p /\ x = y
<1>1. o \in Orientation /\ p \in Orientation
  BY DEF representatives
<1>2. PICK s : s = PieceShapeAt(t, o, x)
  OBVIOUS
<1>3. PICK u : u = PieceShapeAt(t, p, y)
  OBVIOUS
<1>4. PICK d \in Nat : d = DropDistance(b, s, 0) /\ Free(b, s, d)
  <2>1. Available(b, t, o, <<x, 0>>)
    BY <1>1, FitsAtTheTop
  <2>2. DropDistance(b, s, 0) \in Nat /\ FallsTo(b, s, DropDistance(b, s, 0))
    BY <1>1, <1>2, <2>1, LegalPlacement
  <2>3. QED
    BY <2>2 DEF FallsTo
<1>5. PICK e \in Nat : e = DropDistance(b, u, 0) /\ Free(b, u, e)
  <2>1. Available(b, t, p, <<y, 0>>)
    BY <1>1, FitsAtTheTop
  <2>2. DropDistance(b, u, 0) \in Nat /\ FallsTo(b, u, DropDistance(b, u, 0))
    BY <1>1, <1>3, <2>1, LegalPlacement
  <2>3. QED
    BY <2>2 DEF FallsTo
<1>6. Placed(b, s, d) = Placed(b, u, e)
  BY <1>2, <1>3, <1>4, <1>5 DEF RestingBoard
<1>7. ASSUME NEW c \in Columns
      PROVE  ShiftedColumn(s, c, d) = ShiftedColumn(u, c, e)
  <2>1. PICK A, B : A = ShiftedColumn(s, c, d) /\ B = ShiftedColumn(u, c, e)
    OBVIOUS
  <2>2. A \cap b[c] = {} /\ B \cap b[c] = {}
    BY <1>4, <1>5, <2>1 DEF Free
  <2>3. b[c] \cup A = Placed(b, s, d)[c] /\ b[c] \cup B = Placed(b, u, e)[c]
    BY <2>1 DEF Placed
  <2>4. b[c] \cup A = b[c] \cup B
    BY <1>6, <2>3
  <2>5. A = B
    BY <2>2, <2>4
  <2>6. QED
    BY <2>1, <2>5
<1>8. PICK j \in Int, k \in Int : j = x - y /\ k = d - e
  OBVIOUS
<1>9. ASSUME NEW c \in Columns, NEW r \in Int
      PROVE  r \in ColumnOf(s, c) <=> r + k \in ColumnOf(u, c)
  <2>1. /\ \A q \in ColumnOf(s, c) : q \in Int
        /\ \A q \in ColumnOf(u, c) : q \in Int
    <3>1. s \in Shapes /\ u \in Shapes /\ c \in Int
      BY <1>1, <1>2, <1>3, PieceShapes DEF Columns
    <3>2. \A q \in ColumnOf(s, c) : q \in Box
      BY <3>1, ColumnOfMember
    <3>3. \A q \in ColumnOf(u, c) : q \in Box
      BY <3>1, ColumnOfMember
    <3>4. Box \subseteq Int
      BY DEF Box, PIECE_WIDTH
    <3>5. QED
      BY <3>2, <3>3, <3>4
  <2>2. ASSUME r \in ColumnOf(s, c)
        PROVE  r + k \in ColumnOf(u, c)
    <3>1. r + d \in ShiftedColumn(u, c, e)
      BY <1>7, <2>2 DEF ShiftedColumn
    <3>2. PICK q \in ColumnOf(u, c) : r + d = q + e
      BY <3>1 DEF ShiftedColumn
    <3>3. q = r + k
      BY <1>8, <2>1, <3>2
    <3>4. QED
      BY <3>3
  <2>3. ASSUME r + k \in ColumnOf(u, c)
        PROVE  r \in ColumnOf(s, c)
    <3>1. (r + k) + e \in ShiftedColumn(s, c, d)
      BY <1>7, <2>3 DEF ShiftedColumn
    <3>2. PICK q \in ColumnOf(s, c) : (r + k) + e = q + d
      BY <3>1 DEF ShiftedColumn
    <3>3. q = r
      BY <1>8, <2>1, <3>2
    <3>4. QED
      BY <3>3
  <2>4. QED
    BY <2>2, <2>3
<1>10. ASSUME NEW a \in Int, NEW r \in Int
       PROVE  <<a, r>> \in Blocks[t][o] <=> <<a + j, r + k>> \in Blocks[t][p]
  <2>1. PICK c \in Int, f \in Int, q \in Int : c = x + a /\ f = a + j /\ q = r + k
    OBVIOUS
  <2>2. c - x = a /\ c - y = f /\ c = y + f
    BY <1>8, <2>1
  <2>3. r \in ColumnOf(s, c) <=> <<a, r>> \in Blocks[t][o]
    BY <1>1, <1>2, <2>2, ColumnHas
  <2>4. q \in ColumnOf(u, c) <=> <<f, q>> \in Blocks[t][p]
    BY <1>1, <1>3, <2>2, ColumnHas
  <2>5. <<a, r>> \in Blocks[t][o] => c \in Columns
    BY <1>1, <2>1, WallsByBlock
  <2>6. <<f, q>> \in Blocks[t][p] => c \in Columns
    BY <1>1, <2>2, WallsByBlock
  <2>7. c \in Columns => (r \in ColumnOf(s, c) <=> q \in ColumnOf(u, c))
    BY <1>9, <2>1
  <2>8. <<a, r>> \in Blocks[t][o] <=> <<f, q>> \in Blocks[t][p]
    BY <2>3, <2>4, <2>5, <2>6, <2>7
  <2>9. QED
    BY <2>1, <2>8
<1>11. Left(t, p) = Left(t, o) + j /\ signature(t, o) = signature(t, p)
  BY <1>1, <1>10, TranslatedBlocks
<1>12. o = p
  BY <1>11, Represented
<1>13. PICK l \in Int : l = Left(t, o)
  BY <1>1, CornerNumbers
<1>14. l = l + j
  BY <1>11, <1>12, <1>13
<1>15. QED
  BY <1>8, <1>12, <1>14

\* No value occurs twice in a sequence.
Distinct(s) == \A i, j \in 1..Len(s) : s[i] = s[j] => i = j

\* Sequences without repetition that share no value, one after the other.
LEMMA DistinctConcat ==
  ASSUME NEW a \in Seq(Nat), NEW b \in Seq(Nat), Distinct(a), Distinct(b),
         \A i \in 1..Len(a), j \in 1..Len(b) : a[i] # b[j]
  PROVE  Distinct(a \o b)
<1>1. PICK m \in Nat, n \in Nat : m = Len(a) /\ n = Len(b)
  OBVIOUS
<1>2. PICK c : c = a \o b
  OBVIOUS
<1>3. /\ Len(c) = m + n /\ \A i \in 1..m : c[i] = a[i]
      /\ \A i \in (m + 1)..(m + n) : i - m \in 1..n /\ c[i] = b[i - m]
  BY <1>1, <1>2
<1>4. ASSUME NEW i \in 1..(m + n), NEW j \in 1..(m + n), c[i] = c[j]
      PROVE  i = j
  <2>1. CASE i <= m /\ j <= m
    <3>1. i \in 1..m /\ j \in 1..m
      BY <2>1
    <3>2. a[i] = a[j]
      BY <1>3, <1>4, <3>1
    <3>3. QED
      BY <1>1, <3>1, <3>2 DEF Distinct
  <2>2. CASE i > m /\ j > m
    <3>1. i \in (m + 1)..(m + n) /\ j \in (m + 1)..(m + n)
      BY <2>2
    <3>2. b[i - m] = b[j - m] /\ i - m \in 1..n /\ j - m \in 1..n
      BY <1>3, <1>4, <3>1
    <3>3. i - m = j - m
      BY <1>1, <3>2 DEF Distinct
    <3>4. QED
      BY <3>3
  <2>3. CASE i <= m /\ j > m
    <3>1. i \in 1..m /\ j \in (m + 1)..(m + n)
      BY <2>3
    <3>2. a[i] = b[j - m] /\ j - m \in 1..n
      BY <1>3, <1>4, <3>1
    <3>3. QED
      BY <1>1, <3>1, <3>2
  <2>4. CASE i > m /\ j <= m
    <3>1. j \in 1..m /\ i \in (m + 1)..(m + n)
      BY <2>4
    <3>2. a[j] = b[i - m] /\ i - m \in 1..n
      BY <1>3, <1>4, <3>1
    <3>3. QED
      BY <1>1, <3>1, <3>2
  <2>5. QED
    BY <2>1, <2>2, <2>3, <2>4
<1>5. QED
  BY <1>2, <1>3, <1>4 DEF Distinct

\* What every entry of an orientation decodes to.
DecodesTo(s, O) == \A i \in 1..Len(s) : decode(s[i]).orientation \in O

\* The entries of one orientation are different and decode to it.
LEMMA SliceDistinct ==
  ASSUME NEW t \in Types, NEW o \in Orientation
  PROVE  Distinct(OrientationEntries(t, o)) /\ DecodesTo(OrientationEntries(t, o), {o})
<1>1. PICK lo \in Int, hi \in Int : lo = orientation_range(t, o).xMin /\ hi = orientation_range(t, o).xMax
  BY RangeFits
<1>2. PICK e : e = OrientationEntries(t, o)
  OBVIOUS
<1>3. CASE o \notin representatives(t)
  <2>1. Len(e) = 0
    BY <1>2, <1>3, OrientationSlice
  <2>2. QED
    BY <1>2, <2>1 DEF Distinct, DecodesTo
<1>4. CASE o \in representatives(t)
  <2>1. Len(e) = hi - lo + 1 /\ \A i \in 1..Len(e) : e[i] = encode(o, lo + i - 1)
    BY <1>1, <1>2, <1>4, OrientationSlice
  <2>2. ASSUME NEW i \in 1..Len(e)
        PROVE  /\ decode(e[i]).orientation = o
               /\ decode(e[i]).x = lo + i - 1
    <3>1. PICK x \in lo..hi : x = lo + i - 1
      BY <2>1
    <3>2. decode(encode(o, x)) = [orientation |-> o, x |-> x]
      BY <1>1, DecodesWhatWasEncoded
    <3>3. e[i] = encode(o, x)
      BY <2>1, <3>1
    <3>4. QED
      BY <3>1, <3>2, <3>3
  <2>3. ASSUME NEW i \in 1..Len(e), NEW j \in 1..Len(e), e[i] = e[j]
        PROVE  i = j
    <3>1. decode(e[i]).x = lo + i - 1 /\ decode(e[j]).x = lo + j - 1
      BY <2>2
    <3>2. lo + i - 1 = lo + j - 1
      BY <2>3, <3>1
    <3>3. QED
      BY <3>2
  <2>4. QED
    BY <1>2, <2>2, <2>3 DEF Distinct, DecodesTo
<1>5. QED
  BY <1>3, <1>4

\* Two sequences whose entries decode to different orientations.
LEMMA ConcatDecodes ==
  ASSUME NEW a \in Seq(Nat), NEW b \in Seq(Nat), NEW O, NEW P, O \cap P = {},
         Distinct(a), DecodesTo(a, O), Distinct(b), DecodesTo(b, P)
  PROVE  a \o b \in Seq(Nat) /\ Distinct(a \o b) /\ DecodesTo(a \o b, O \cup P)
<1>1. ASSUME NEW i \in 1..Len(a), NEW j \in 1..Len(b)
      PROVE  a[i] # b[j]
  <2>1. decode(a[i]).orientation \in O /\ decode(b[j]).orientation \in P
    BY DEF DecodesTo
  <2>2. QED
    BY <2>1
<1>2. Distinct(a \o b)
  BY <1>1, DistinctConcat
<1>3. PICK c : c = a \o b
  OBVIOUS
<1>4. PICK m \in Nat, n \in Nat : m = Len(a) /\ n = Len(b)
  OBVIOUS
<1>5. /\ Len(c) = m + n /\ \A i \in 1..m : c[i] = a[i]
      /\ \A i \in (m + 1)..(m + n) : i - m \in 1..n /\ c[i] = b[i - m]
  BY <1>3, <1>4
<1>6. ASSUME NEW i \in 1..(m + n)
      PROVE  decode(c[i]).orientation \in O \cup P
  <2>1. CASE i <= m
    <3>1. i \in 1..m
      BY <2>1
    <3>2. decode(a[i]).orientation \in O
      BY <1>4, <3>1 DEF DecodesTo
    <3>3. QED
      BY <1>5, <3>1, <3>2
  <2>2. CASE i > m
    <3>1. i \in (m + 1)..(m + n)
      BY <2>2
    <3>2. c[i] = b[i - m] /\ i - m \in 1..n
      BY <1>5, <3>1
    <3>3. decode(b[i - m]).orientation \in P
      BY <1>4, <3>2 DEF DecodesTo
    <3>4. QED
      BY <3>2, <3>3
  <2>3. QED
    BY <2>1, <2>2
<1>7. QED
  BY <1>2, <1>3, <1>5, <1>6 DEF DecodesTo

\* No entry of the table is there twice.
LEMMA TableDistinct ==
  ASSUME NEW t \in Types
  PROVE  Distinct(PLACEMENTS[t])
<1> DEFINE E(o) == OrientationEntries(t, o)
           s == [i \in 1..4 |-> E(i - 1)]
<1>1. Orientation = {0, 1, 2, 3}
  BY DEF Orientation, TOP, RIGHT, BOTTOM, LEFT
<1>2. \A o \in {0, 1, 2, 3} : E(o) \in Seq(Nat) /\ Distinct(E(o)) /\ DecodesTo(E(o), {o})
  BY <1>1, OrientationSlice, SliceDistinct
<1>3. PLACEMENTS[t] = ((E(0) \o E(1)) \o E(2)) \o E(3)
  <2>1. PLACEMENTS[t] = FlattenSeq(s)
    BY DEF PLACEMENTS
  <2>2. s = [i \in 1..4 |-> s[i]] /\ Len(s) = 4
    OBVIOUS
  <2>3. s[1] = E(0) /\ s[2] = E(1) /\ s[3] = E(2) /\ s[4] = E(3)
    OBVIOUS
  <2> HIDE DEF s
  <2>4. QED
    BY <2>1, <2>2, <2>3, FlattenFour
<1> HIDE DEF E
<1>4. PICK a : a = E(0) \o E(1)
  OBVIOUS
<1>5. a \in Seq(Nat) /\ Distinct(a) /\ DecodesTo(a, {0} \cup {1})
  <2>1. {0} \cap {1} = {}
    OBVIOUS
  <2>2. QED
    BY <1>2, <1>4, <2>1, ConcatDecodes
<1>6. PICK b : b = a \o E(2)
  OBVIOUS
<1>7. b \in Seq(Nat) /\ Distinct(b) /\ DecodesTo(b, ({0} \cup {1}) \cup {2})
  <2>1. ({0} \cup {1}) \cap {2} = {}
    OBVIOUS
  <2>2. QED
    BY <1>2, <1>5, <1>6, <2>1, ConcatDecodes
<1>8. Distinct(b \o E(3))
  <2>1. (({0} \cup {1}) \cup {2}) \cap {3} = {}
    OBVIOUS
  <2>2. QED
    BY <1>2, <1>7, <2>1, ConcatDecodes
<1>9. QED
  BY <1>3, <1>4, <1>6, <1>8

\* Every placement is listed once.
LEMMA PlacementsDistinct ==
  ASSUME NEW t \in Types,
         NEW i \in 0..(n_theoretical_placements(t) - 1), NEW j \in 0..(n_theoretical_placements(t) - 1),
         nth_placement(t, i) = nth_placement(t, j)
  PROVE  i = j
<1>1. PICK T \in Seq(Nat) : T = PLACEMENTS[t]
  BY TableSlices
<1>2. PICK n \in Nat : n = n_theoretical_placements(t) /\ n = Len(T)
  BY <1>1, TableSlices DEF n_theoretical_placements
<1>3. ASSUME NEW k \in 1..n
      PROVE  T[k] = encode(decode(T[k]).orientation, decode(T[k]).x)
  <2>1. PICK o \in Orientation : T[k] \in Range(OrientationEntries(t, o))
    <3>1. T[k] \in Range(T)
      BY <1>2, SMTT(30) DEF Range
    <3>2. T[k] \in UNION {Range(OrientationEntries(t, o)) : o \in Orientation}
      BY <1>1, <3>1, TableSlices
    <3>3. QED
      BY <3>2
  <2>2. PICK e \in Seq(Nat) : e = OrientationEntries(t, o)
    BY OrientationSlice
  <2>3. PICK q \in 1..Len(e) : T[k] = e[q]
    BY <2>1, <2>2, SMTT(30) DEF Range
  <2>4. PICK lo \in Int, hi \in Int : lo = orientation_range(t, o).xMin /\ hi = orientation_range(t, o).xMax
    BY RangeFits
  <2>5. Len(e) = hi - lo + 1 /\ e[q] = encode(o, lo + q - 1)
    BY <2>2, <2>3, <2>4, OrientationSlice
  <2>6. PICK x \in lo..hi : x = lo + q - 1
    BY <2>5
  <2>7. decode(encode(o, x)) = [orientation |-> o, x |-> x]
    BY <2>4, DecodesWhatWasEncoded
  <2>8. T[k] = encode(o, x)
    BY <2>3, <2>5, <2>6
  <2>9. decode(T[k]).orientation = o /\ decode(T[k]).x = x
    BY <2>7, <2>8
  <2>10. QED
    BY <2>8, <2>9
<1>4. i + 1 \in 1..n /\ j + 1 \in 1..n
  BY <1>2
<1>5. decode(T[i + 1]) = decode(T[j + 1])
  BY <1>1 DEF nth_placement
<1>6. T[i + 1] = T[j + 1]
  BY <1>3, <1>4, <1>5
<1>7. i + 1 = j + 1
  BY <1>1, <1>2, <1>4, <1>6, TableDistinct DEF Distinct
<1>8. QED
  BY <1>7

\* On a board whose spawn rows are free, a piece rests with the table's drops
\* where it rests with any legal drop.
LEMMA RestsCovered ==
  ASSUME NEW b \in Boards, SpawnRowsFree(b), NEW t \in Types
  PROVE  /\ TableDrops(t) \subseteq LegalDrops(b, t)
         /\ \A d \in LegalDrops(b, t) : \E e \in TableDrops(t) :
              RestingBoard(b, t, d.orientation, d.x) = RestingBoard(b, t, e.orientation, e.x)
<1>1. representatives(t) \subseteq Orientation /\ WindowXs \subseteq Int
  BY DEF representatives, WindowXs
<1>2. ASSUME NEW d \in TableDrops(t)
      PROVE  d \in LegalDrops(b, t)
  <2>1. PICK o \in representatives(t), x \in Int :
          OffsetInBounds(PieceShapeAt(t, o, x), 0) /\ d = [orientation |-> o, x |-> x]
    BY TabledDrops
  <2>2. o \in Orientation
    BY <1>1
  <2>3. x \in WindowXs /\ Available(b, t, o, <<x, 0>>)
    BY <2>1, <2>2, BetweenWalls, FitsAtTheTop
  <2>4. QED
    BY <2>1, <2>2, <2>3 DEF LegalDrops
<1>3. ASSUME NEW d \in LegalDrops(b, t)
      PROVE  \E e \in TableDrops(t) :
               RestingBoard(b, t, d.orientation, d.x) = RestingBoard(b, t, e.orientation, e.x)
  <2>1. PICK o \in Orientation, x \in Int : o = d.orientation /\ x = d.x /\ Available(b, t, o, <<x, 0>>)
    BY <1>1 DEF LegalDrops
  <2>2. PICK s : s = PieceShapeAt(t, o, x)
    OBVIOUS
  <2>3. OffsetInBounds(s, 0)
    BY <2>1, <2>2 DEF Available
  <2>4. PICK p \in representatives(t), y \in Int, k \in Int :
          OffsetInBounds(PieceShapeAt(t, p, y), 0) /\ Lowered(s, PieceShapeAt(t, p, y), k)
    BY <2>2, <2>3, TabledAlike
  <2>5. p \in Orientation
    BY <1>1
  <2>6. PICK u : u = PieceShapeAt(t, p, y)
    OBVIOUS
  <2>7. s \in Shapes /\ Solid(s) /\ u \in Shapes /\ Solid(u) /\ OffsetInBounds(u, 0) /\ Lowered(s, u, k)
    BY <2>2, <2>4, <2>5, <2>6, PieceShapes
  <2>8. Placed(b, s, DropDistance(b, s, 0)) = Placed(b, u, DropDistance(b, u, 0))
    BY <2>3, <2>7, RestsAlike
  <2>9. PICK e : e = [orientation |-> p, x |-> y]
    OBVIOUS
  <2>10. e \in TableDrops(t) /\ e.orientation = p /\ e.x = y
    BY <2>4, <2>9, TabledDrops
  <2>11. RestingBoard(b, t, o, x) = RestingBoard(b, t, p, y)
    BY <2>2, <2>6, <2>8 DEF RestingBoard
  <2>12. QED
    BY <2>1, <2>10, <2>11
<1>4. QED
  BY <1>2, <1>3

\* And with every entry of the table somewhere else.
LEMMA RestsCounted ==
  ASSUME NEW b \in Boards, SpawnRowsFree(b), NEW t \in Types
  PROVE  Cardinality({RestingBoard(b, t, d.orientation, d.x) : d \in TableDrops(t)})
           = n_theoretical_placements(t)
<1>1. PICK n \in Nat : n = n_theoretical_placements(t)
  BY TableSlices
<1>2. PICK I : I = 0..(n - 1)
  OBVIOUS
<1>3. IsFiniteSet(I) /\ Cardinality(I) = n
  <2>1. 0 \in Int /\ n - 1 \in Int
    OBVIOUS
  <2>2. QED
    BY <1>2, <2>1, FS_Interval
<1>4. PICK f : f = [i \in I |-> RestingBoard(b, t, nth_placement(t, i).orientation, nth_placement(t, i).x)]
  OBVIOUS
<1>5. \A i, j \in I : f[i] = f[j] => i = j
  <2>1. SUFFICES ASSUME NEW i \in I, NEW j \in I, f[i] = f[j]
                 PROVE  i = j
    OBVIOUS
  <2>2. PICK d \in TableDrops(t) : d = nth_placement(t, i)
    BY <1>1, <1>2 DEF TableDrops
  <2>3. PICK e \in TableDrops(t) : e = nth_placement(t, j)
    BY <1>1, <1>2 DEF TableDrops
  <2>4. PICK o \in representatives(t), x \in Int :
          OffsetInBounds(PieceShapeAt(t, o, x), 0) /\ d = [orientation |-> o, x |-> x]
    BY TabledDrops
  <2>5. PICK p \in representatives(t), y \in Int :
          OffsetInBounds(PieceShapeAt(t, p, y), 0) /\ e = [orientation |-> p, x |-> y]
    BY TabledDrops
  <2>6. f[i] = RestingBoard(b, t, d.orientation, d.x) /\ f[j] = RestingBoard(b, t, e.orientation, e.x)
    BY <1>4, <2>2, <2>3
  <2>7. RestingBoard(b, t, o, x) = RestingBoard(b, t, p, y)
    <3>1. d.orientation = o /\ d.x = x /\ e.orientation = p /\ e.x = y
      BY <2>4, <2>5
    <3>2. QED
      BY <2>1, <2>6, <3>1
  <2>8. o = p /\ x = y
    BY <2>4, <2>5, <2>7, RestsApart
  <2>9. d = e
    BY <2>4, <2>5, <2>8
  <2>10. QED
    BY <1>1, <1>2, <2>2, <2>3, <2>9, PlacementsDistinct
<1>6. PICK T : T = {f[i] : i \in I}
  OBVIOUS
<1>7. f = [i \in I |-> f[i]]
  BY <1>4
<1>8. Cardinality(T) = n
  BY <1>3, <1>5, <1>6, <1>7, OneToOneImage
<1>9. {RestingBoard(b, t, d.orientation, d.x) : d \in TableDrops(t)} = T
  <2>1. TableDrops(t) = {nth_placement(t, i) : i \in I}
    BY <1>1, <1>2 DEF TableDrops
  <2>2. \A i \in I : f[i] = RestingBoard(b, t, nth_placement(t, i).orientation, nth_placement(t, i).x)
    BY <1>4
  <2>3. QED
    BY <1>6, <2>1, <2>2
<1>10. QED
  BY <1>1, <1>8, <1>9

\* The placement table is exact on any board, not only on those of games.
LEMMA ExactOnEveryBoard ==
  ASSUME NEW b \in Boards
  PROVE  TableIsExactOn(b)
<1> SUFFICES ASSUME NEW t \in Types
             PROVE  LET rests(drops) == {RestingBoard(b, t, d.orientation, d.x) : d \in drops}
                    IN  /\ \A d \in TableDrops(t) : OffsetInBounds(PieceShapeAt(t, d.orientation, d.x), 0)
                        /\ SpawnRowsFree(b) =>
                             /\ TableDrops(t) \subseteq LegalDrops(b, t)
                             /\ rests(TableDrops(t)) = rests(LegalDrops(b, t))
                             /\ Cardinality(rests(TableDrops(t))) = n_theoretical_placements(t)
  BY DEF TableIsExactOn
<1>1. ASSUME NEW d \in TableDrops(t)
      PROVE  OffsetInBounds(PieceShapeAt(t, d.orientation, d.x), 0)
  <2>1. PICK o \in representatives(t), x \in Int :
          OffsetInBounds(PieceShapeAt(t, o, x), 0) /\ d = [orientation |-> o, x |-> x]
    BY TabledDrops
  <2>2. d.orientation = o /\ d.x = x
    BY <2>1
  <2>3. QED
    BY <2>1, <2>2
<1>2. ASSUME SpawnRowsFree(b)
      PROVE  {RestingBoard(b, t, d.orientation, d.x) : d \in TableDrops(t)}
               = {RestingBoard(b, t, d.orientation, d.x) : d \in LegalDrops(b, t)}
  BY <1>2, RestsCovered
<1>3. QED
  BY <1>1, <1>2, RestsCovered, RestsCounted

\* On the board of every game, the table of placements keeps each piece
\* between the walls and stands for all its legal drops, each of them once, as
\* long as the stack leaves the spawn rows free: searching the table loses no
\* board and repeats none, for every size and every set of pieces.
THEOREM TableStandsForAllDrops == Spec => []TableIsExact
<1>1. TypeOK => TableIsExact
  BY ExactOnEveryBoard DEF TypeOK, TableIsExact
<1>2. QED
  BY <1>1, TypeCorrect, PTL
=============================================================================
