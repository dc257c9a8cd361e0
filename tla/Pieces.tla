------------------------------- MODULE Pieces -------------------------------
(***************************************************************************)
(* The piece geometry of ta3_sim: where the four blocks of every piece sit *)
(* in its 4x4 box, for each of the four orientations.  A block is a pair   *)
(* <<x, y>>, x counted from the left and y from the top of the box.        *)
(***************************************************************************)
EXTENDS Integers, FiniteSets

CONSTANT Types   (* the pieces in play: all of PieceType in the code *)

BLOCKS == 4
PIECE_WIDTH == 4

PieceType == {"I", "O", "T", "S", "Z", "J", "L"}

\* PieceType::COUNT, which also stands for an empty hold slot.
NO_PIECE == "COUNT"

ASSUME TypesAssumption ==
  /\ IsFiniteSet(Types)
  /\ Types # {}
  /\ NO_PIECE \notin Types

\* Orientation, in the order rotate() steps through.
TOP == 0
RIGHT == 1
BOTTOM == 2
LEFT == 3
Orientation == {TOP, RIGHT, BOTTOM, LEFT}

\* rotate(steps, o): C++ % may be negative, hence the "+ size) % size" there;
\* TLA+'s % is already the non-negative residue.
Rotate(steps, o) == (o + steps) % 4

\* The argument order of the table's `set` lambda.
BlockTable(bottom, top, left, right) ==
  [o \in Orientation |-> CASE o = TOP    -> top
                           [] o = RIGHT  -> right
                           [] o = BOTTOM -> bottom
                           [] o = LEFT   -> left]

PIECE_ORIENTATION_OFFSETS ==
  LET oCoords == {<<1,0>>, <<2,0>>, <<1,1>>, <<2,1>>} IN
  [t \in PieceType |->
     CASE t = "J" -> BlockTable({<<0,1>>, <<1,1>>, <<2,1>>, <<2,2>>},
                                {<<0,0>>, <<0,1>>, <<1,1>>, <<2,1>>},
                                {<<1,0>>, <<1,1>>, <<0,2>>, <<1,2>>},
                                {<<1,0>>, <<2,0>>, <<1,1>>, <<1,2>>})
       [] t = "L" -> BlockTable({<<0,1>>, <<1,1>>, <<2,1>>, <<0,2>>},
                                {<<2,0>>, <<0,1>>, <<1,1>>, <<2,1>>},
                                {<<0,0>>, <<1,0>>, <<1,1>>, <<1,2>>},
                                {<<1,0>>, <<1,1>>, <<1,2>>, <<2,2>>})
       [] t = "I" -> BlockTable({<<0,2>>, <<1,2>>, <<2,2>>, <<3,2>>},
                                {<<0,1>>, <<1,1>>, <<2,1>>, <<3,1>>},
                                {<<1,0>>, <<1,1>>, <<1,2>>, <<1,3>>},
                                {<<2,0>>, <<2,1>>, <<2,2>>, <<2,3>>})
       [] t = "S" -> BlockTable({<<1,1>>, <<2,1>>, <<1,2>>, <<0,2>>},
                                {<<1,0>>, <<2,0>>, <<0,1>>, <<1,1>>},
                                {<<1,0>>, <<1,1>>, <<2,1>>, <<2,2>>},
                                {<<0,0>>, <<0,1>>, <<1,1>>, <<1,2>>})
       [] t = "T" -> BlockTable({<<0,1>>, <<1,1>>, <<2,1>>, <<1,2>>},
                                {<<1,0>>, <<0,1>>, <<1,1>>, <<2,1>>},
                                {<<1,0>>, <<0,1>>, <<1,1>>, <<1,2>>},
                                {<<1,0>>, <<1,1>>, <<2,1>>, <<1,2>>})
       [] t = "Z" -> BlockTable({<<1,1>>, <<0,1>>, <<1,2>>, <<2,2>>},
                                {<<0,0>>, <<1,0>>, <<1,1>>, <<2,1>>},
                                {<<1,0>>, <<0,1>>, <<1,1>>, <<0,2>>},
                                {<<2,0>>, <<1,1>>, <<2,1>>, <<1,2>>})
       [] t = "O" -> BlockTable(oCoords, oCoords, oCoords, oCoords)]

=============================================================================
