------------------------------ MODULE BagDrought ------------------------------
(***************************************************************************)
(* PieceBag on its own, with a history variable that counts, for every     *)
(* piece, the draws since it was last drawn.                               *)
(***************************************************************************)
EXTENDS PieceBag

VARIABLE since   (* since[p]: draws since p was last drawn or the reset *)

droughtVars == <<bag, bagPos, since>>

\* reset() leaves whatever was in the bag; the first draw shuffles it.
DroughtInit ==
  /\ bag \in [BagSlots -> Types]
  /\ bagPos = 0
  /\ since = [p \in Types |-> 0]

Draw(p) ==
  /\ DrawPiece(p)
  /\ since' = [t \in Types |-> IF t = p THEN 0 ELSE since[t] + 1]

DroughtNext == \E p \in Types : Draw(p)

DroughtSpec == DroughtInit /\ [][DroughtNext]_droughtVars
-----------------------------------------------------------------------------
\* Every variable holds a value of its type; slots still to be drawn are
\* slots of a permutation.
DroughtTypeOK ==
  /\ bag \in [BagSlots -> Types]
  /\ bagPos \in 0..(BagSize - 1)
  /\ bagPos # 0 => bag \in Shuffles
  /\ since \in [Types -> Nat]

\* No drought: a piece returns after at most 2N - 2 others (12 in the code),
\* the first of one bag and the last of the next.
NoDrought == \A p \in Types : since[p] <= 2 * BagSize - 2

\* The strengthening of NoDrought.  A piece already drawn from the current bag
\* was drawn among its BagSize - bagPos draws; one still in the bag was drawn
\* from the previous bag at the earliest.
DroughtInv ==
  \A p \in Types :
    IF p \in Remaining
      THEN since[p] <= (BagSize - 1) + (BagSize - bagPos)
      ELSE since[p] <= BagSize - bagPos - 1
=============================================================================
