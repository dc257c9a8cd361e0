------------------------------- MODULE PieceBag -------------------------------
(***************************************************************************)
(* The 7-bag piece supply of TetrisEngine (drawPiece, _bag, _bagPos).  The *)
(* generator xoshiro256ss is left open: a shuffle is any permutation of    *)
(* the pieces, which is what Fisher-Yates can produce.                     *)
(***************************************************************************)
EXTENDS Pieces

VARIABLES
  bag,      (* _bag: the draw order, slot 0 is drawn last                *)
  bagPos    (* _bagPos: the number of slots not drawn yet                *)

bagVars == <<bag, bagPos>>

BagSize == Cardinality(Types)
BagSlots == 0..(BagSize - 1)

\* The outcomes of the Fisher-Yates shuffle.
Shuffles == {f \in [BagSlots -> Types] : \A p \in Types : \E i \in BagSlots : f[i] = p}

\* Mutant: the first piece of a new bag stays in it.
DrawPieceKeepsFirst(p) ==
  \/ /\ bagPos > 0
     /\ p = bag[bagPos - 1]
     /\ bagPos' = bagPos - 1
     /\ UNCHANGED bag
  \/ /\ bagPos = 0
     /\ bag' \in Shuffles
     /\ p = bag'[BagSize - 1]
     /\ bagPos' = BagSize

\* drawPiece() returns p.
DrawPiece(p) ==
  \/ /\ bagPos > 0
     /\ p = bag[bagPos - 1]
     /\ bagPos' = bagPos - 1
     /\ UNCHANGED bag
  \/ /\ bagPos = 0
     /\ bag' \in Shuffles
     /\ p = bag'[BagSize - 1]
     /\ bagPos' = BagSize - 1

\* The pieces the current bag still holds.
Remaining == {bag[i] : i \in 0..(bagPos - 1)}

=============================================================================
