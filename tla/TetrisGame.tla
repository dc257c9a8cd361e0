------------------------------ MODULE TetrisGame ------------------------------
(***************************************************************************)
(* TetrisGame: the playable layer over TetrisEngine.  One piece falls      *)
(* under an orientation and a window offset, driven by instructions; the   *)
(* engine owns everything else.  Nothing checks gameOver here: the caller  *)
(* may go on sending instructions.                                         *)
(***************************************************************************)
EXTENDS Board, PieceBag, Sequences

CONSTANT PIECE_QUEUE_SIZE

ASSUME GameAssumption == PIECE_QUEUE_SIZE \in 1..Cardinality(Types)

VARIABLES
  board, queue, held, gameOver, ret,   (* _engine, with bag and bagPos   *)
  orientation,   (* _orientation                                         *)
  offset         (* _offset                                              *)

engineVars == <<board, queue, held, gameOver, bag, bagPos>>
vars == <<board, queue, held, gameOver, bag, bagPos, ret, orientation, offset>>

\* The engine's operations; its `ret` is what step() gets to see.
Engine == INSTANCE TetrisEngine

Fits(o, off) == Available(board, Engine!CurrentPiece, o, off)

Plus(off, d) == <<off[1] + d[1], off[2] + d[2]>>

\* spawn()
Spawn == orientation' = TOP /\ offset' = Engine!SPAWN

Init == /\ Engine!Init
        /\ orientation = TOP
        /\ offset = Engine!SPAWN

Reset == Engine!Reset /\ Spawn

\* to_offset(MoveType)
Directions == {<<-1, 0>>, <<1, 0>>, <<0, 1>>}

Move(d) ==
  /\ offset' = IF Fits(orientation, Plus(offset, d)) THEN Plus(offset, d) ELSE offset
  /\ ret' = 0
  /\ UNCHANGED <<engineVars, orientation>>

ROTATION_KICKS ==
  << <<0, 0>>, <<0, -1>>, <<1, 0>>, <<-1, 0>>, <<0, -2>>, <<2, 0>>, <<-2, 0>> >>

\* The kicks that fit; the first of them is taken.
FittingKicks(target) ==
  {k \in DOMAIN ROTATION_KICKS : Fits(target, Plus(offset, ROTATION_KICKS[k]))}

RotatePiece(steps) ==
  LET target == Rotate(steps, orientation)
      kicks  == FittingKicks(target)
  IN  /\ \/ /\ kicks = {}
            /\ UNCHANGED <<orientation, offset>>
         \/ /\ kicks # {}
            /\ orientation' = target
            /\ offset' = Plus(offset, ROTATION_KICKS[Min(kicks)])
      /\ ret' = 0
      /\ UNCHANGED engineVars

\* place(): the engine's DIED is reported as 0 rows.
PlacePiece ==
  /\ Engine!EnginePlaces(orientation, offset[1])
  /\ LET r == Engine!PlaceResult(orientation, offset[1])
     IN  ret' = IF r = Engine!DIED THEN 0 ELSE r
  /\ Spawn

\* Mutant: the new piece takes over where the held one was.
HoldPieceInPlace == Engine!Hold /\ UNCHANGED <<orientation, offset>>

HoldPiece == Engine!Hold /\ Spawn

Next ==
  \/ Reset
  \/ \E d \in Directions : Move(d)
  \/ \E steps \in {-1, 1} : RotatePiece(steps)
  \/ PlacePiece
  \/ HoldPiece

Spec == Init /\ [][Next]_vars
-----------------------------------------------------------------------------
\* landingOffset(): where the piece is drawn as a ghost.
LandingOffset ==
  <<offset[1],
    offset[2] + DropDistance(board, PieceShapeAt(Engine!CurrentPiece, orientation, offset[1]), offset[2])>>

\* While the game is on the in-flight piece overlaps nothing: not after a wall
\* kick, not after a hold brought in another shape, not after a clear.  When it
\* is over and the caller goes on, the piece still is over the field, and no
\* operation pushes a cell out of it, not even a place() that does not fit at
\* the spawn row.
InFlightFits ==
  /\ board \in Boards
  /\ offset \in (-3..WIDTH) \X Rows
  /\ ~gameOver => Fits(orientation, offset)

\* The ghost is where gravity takes the piece from where it is, also when it
\* was steered under an overhang: every row down to the ghost is free, the
\* next one is not.
GhostIsGravity ==
  ~gameOver =>
    LET s == PieceShapeAt(Engine!CurrentPiece, orientation, offset[1])
    IN  /\ LandingOffset[2] >= offset[2]
        /\ \A y \in offset[2]..LandingOffset[2] : Free(board, s, y)
        /\ ~Free(board, s, LandingOffset[2] + 1)
=============================================================================
