----------------------------- MODULE TetrisEngine -----------------------------
(***************************************************************************)
(* TetrisEngine: the logical core of a game, one hard drop at a time.  Its *)
(* callers are the AI's game loops (AiTetris, MultiTetris, the GPU block   *)
(* evaluator), which pass placements the search found legal, and           *)
(* TetrisGame, modelled in its own module, which does not check.           *)
(***************************************************************************)
EXTENDS Board, PieceBag, Sequences

CONSTANT PIECE_QUEUE_SIZE   (* the current piece and the lookahead *)

\* A fresh bag fills the queue: 6 pieces of 7 in the code.
ASSUME QueueAssumption == PIECE_QUEUE_SIZE \in 1..Cardinality(Types)

VARIABLES
  board,      (* _board                                                  *)
  queue,      (* _queue: queue[1] is the current piece                   *)
  held,       (* _held, or NO_PIECE                                      *)
  gameOver,   (* _gameOver; _bag and _bagPos are PieceBag's              *)
  ret         (* what the last operation returned to its caller          *)

vars == <<board, queue, held, gameOver, bag, bagPos, ret>>

\* TetrisEngine::DIED, the largest size_t.
DIED == -1

SPAWN == <<(WIDTH - PIECE_WIDTH) \div 2, 0>>

CanSpawn(b, t) == Available(b, t, TOP, SPAWN)

CurrentPiece == queue[1]

\* advanceQueue() with p drawn for the last place.
Advanced(q, p) == Append(Tail(q), p)

\* Mutant: game over is latched.
UpdateGameOverSticky ==
  gameOver' = (gameOver \/ ~CanSpawn(board', queue'[1]))

UpdateGameOver == gameOver' = ~CanSpawn(board', queue'[1])

\* A new bag and the pieces drawn from it: the constructor and reset(seed).
Dealt(shuffle) ==
  [i \in 1..PIECE_QUEUE_SIZE |-> shuffle[BagSize - i]]

Init ==
  /\ board = EmptyBoard
  /\ held = NO_PIECE
  /\ bag \in Shuffles
  /\ queue = Dealt(bag)
  /\ bagPos = BagSize - PIECE_QUEUE_SIZE
  /\ gameOver = ~CanSpawn(board, queue[1])
  /\ ret = 0

Reset ==
  /\ board' = EmptyBoard
  /\ held' = NO_PIECE
  /\ bag' \in Shuffles
  /\ queue' = Dealt(bag')
  /\ bagPos' = BagSize - PIECE_QUEUE_SIZE
  /\ UpdateGameOver
  /\ ret' = 0

\* The board after the current piece locked at its landing, before clearing.
Locked(o, x) ==
  LET s == PieceShapeAt(CurrentPiece, o, x)
  IN  Placed(board, s, DropDistance(board, s, 0))

\* place(orientation, x), whatever the arguments.
EnginePlaces(o, x) ==
  /\ board' = ClearLines(Locked(o, x))
  /\ \E p \in Types : /\ DrawPiece(p)
                      /\ queue' = Advanced(queue, p)
  /\ UpdateGameOver
  /\ UNCHANGED held

\* What that call returns.
PlaceResult(o, x) ==
  IF gameOver' THEN DIED ELSE Cardinality(FullRows(Locked(o, x)))

\* place() under its @pre: the placement fits at the spawn row.  A game that
\* is over may still be driven on: neither place() nor hold() looks at it.
Place(o, x) ==
  /\ Available(board, CurrentPiece, o, <<x, 0>>)
  /\ EnginePlaces(o, x)
  /\ ret' = PlaceResult(o, x)

Hold ==
  /\ held' = queue[1]
  /\ \/ /\ held = NO_PIECE
        /\ \E p \in Types : /\ DrawPiece(p)
                            /\ queue' = Advanced(queue, p)
     \/ /\ held # NO_PIECE
        /\ queue' = [queue EXCEPT ![1] = held]
        /\ UNCHANGED <<bag, bagPos>>
  /\ UNCHANGED board
  /\ UpdateGameOver
  /\ ret' = 0

Next ==
  \/ Reset
  \/ Hold
  \/ \E o \in Orientation, x \in WindowXs : Place(o, x)

Spec == Init /\ [][Next]_vars
-----------------------------------------------------------------------------
\* Every variable holds a value of its type: the stack stays in the field, the
\* bag array is a permutation, and no move clears more than BLOCKS rows, which
\* clearLines tells the compiler to assume.
TypeOK ==
  /\ board \in Boards
  /\ queue \in [1..PIECE_QUEUE_SIZE -> Types]
  /\ held \in Types \cup {NO_PIECE}
  /\ gameOver \in BOOLEAN
  /\ bag \in Shuffles
  /\ bagPos \in 0..(BagSize - 1)
  /\ ret \in {DIED} \cup 0..BLOCKS

\* Between two operations no row is full: place() clears every row the piece
\* completed, however many and whether or not they are adjacent, and neither
\* the survivors that fall nor an earlier move leave a full row behind.
NoFullRows == FullRows(board) = {}

\* gameOver() tells whether the current piece fits at the spawn, after every
\* path that changes the board or the current piece (place, both branches of
\* hold, reset).  It is not sticky: a hold may revive a game.
GameOverIsTopOut == gameOver <=> ~CanSpawn(board, CurrentPiece)

\* place(), every step that is no hold and no reset, conserves cells: a locked
\* piece adds its four blocks, overlapping nothing and losing none past a
\* border, and each cleared row takes exactly WIDTH cells away.  A move that
\* survives reports how many rows that was; one that tops out reports DIED,
\* after clearing all the same.
CellsConserved ==
  [][ \/ \E k \in 0..BLOCKS :
           /\ CellCount(board') = CellCount(board) + BLOCKS - WIDTH * k
           /\ ret' \in {k, DIED}
      \/ Hold
      \/ Reset ]_vars

\* The reference for dropDistance: let the piece fall row by row.
FallsTo(b, s, d) == /\ \A e \in 0..d : Free(b, s, e)
                    /\ ~Free(b, s, d + 1)

\* dropDistance, computed from the columns' surfaces, is where gravity would
\* take the piece one row at a time, for every placement that fits at the
\* spawn row of a reachable board: cavities below the surface are skipped and
\* overhangs above the piece ignored.
DropIsGravity ==
  \A t \in Types, o \in Orientation, x \in WindowXs :
    Available(board, t, o, <<x, 0>>)
      => LET s == PieceShapeAt(t, o, x)
         IN  FallsTo(board, s, DropDistance(board, s, 0))

\* The engine implements the flow of pieces its callers rely on: the bag array
\* and its cursor are a set that is refilled when empty, whatever happens on
\* the board.
Flow == INSTANCE PieceFlow WITH remaining <- Remaining
ImplementsPieceFlow == Flow!Spec
=============================================================================
