------------------------------- MODULE PieceFlow -------------------------------
(***************************************************************************)
(* What TetrisEngine promises about pieces, without the board and without  *)
(* the bag array: the players and the search see a queue and a hold slot,  *)
(* fed from a set of pieces that is refilled when it is empty.             *)
(***************************************************************************)
EXTENDS Pieces, Sequences

CONSTANT PIECE_QUEUE_SIZE   (* the current piece and the lookahead *)

ASSUME FlowAssumption == PIECE_QUEUE_SIZE \in 1..Cardinality(Types)

VARIABLES
  remaining,   (* the pieces the current bag still owes *)
  queue,       (* the current piece and the lookahead   *)
  held         (* the held piece or NO_PIECE            *)

vars == <<remaining, queue, held>>

Refilled == IF remaining = {} THEN Types ELSE remaining

\* Mutant: an empty bag is drawn from without being refilled.
AdvanceNoRefill ==
  \E p \in Refilled : /\ remaining' = remaining \ {p}
                      /\ queue' = Append(Tail(queue), p)

\* The next piece of the supply enters at the end of the queue.
Advance ==
  \E p \in Refilled : /\ remaining' = Refilled \ {p}
                      /\ queue' = Append(Tail(queue), p)

Start(q, r, h) ==
  /\ q \in [1..PIECE_QUEUE_SIZE -> Types]
  /\ \A i, j \in 1..PIECE_QUEUE_SIZE : q[i] = q[j] => i = j
  /\ r = Types \ {q[i] : i \in 1..PIECE_QUEUE_SIZE}
  /\ h = NO_PIECE

Init == Start(queue, remaining, held)

Restart == Start(queue', remaining', held')

Drop == Advance /\ UNCHANGED held

HoldFirst == held = NO_PIECE /\ held' = queue[1] /\ Advance

\* Mutant: the empty hold slot is swapped into the queue.
HoldSwapUnguarded ==
  /\ held' = queue[1]
  /\ queue' = [queue EXCEPT ![1] = held]
  /\ UNCHANGED remaining

HoldSwap ==
  /\ held # NO_PIECE
  /\ held' = queue[1]
  /\ queue' = [queue EXCEPT ![1] = held]
  /\ UNCHANGED remaining

Next == Restart \/ Drop \/ HoldFirst \/ HoldSwap

Spec == Init /\ [][Next]_vars
-----------------------------------------------------------------------------
\* Every variable holds a value of its type; the queue has a fixed length.
TypeOK ==
  /\ remaining \subseteq Types
  /\ queue \in [1..PIECE_QUEUE_SIZE -> Types]
  /\ held \in Types \cup {NO_PIECE}

\* The number of pieces dealt from the current bag.
DealtFromBag == Cardinality(Types) - Cardinality(remaining)

\* The 7-bag seen through the queue, which is what the search plans on: of the
\* pieces that entered the queue last, as many as the current bag has dealt
\* are pairwise different and none of them is still in the bag.  The window
\* leaves out the front, where hold() puts pieces of older bags.
WindowDistinct ==
  \A i \in 2..PIECE_QUEUE_SIZE :
    i > PIECE_QUEUE_SIZE - DealtFromBag
      => /\ queue[i] \notin remaining
         /\ \A j \in (i + 1)..PIECE_QUEUE_SIZE : queue[j] # queue[i]
=============================================================================
