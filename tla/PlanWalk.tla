------------------------------- MODULE PlanWalk -------------------------------
(***************************************************************************)
(* The search's hold plans beside the flow of pieces they mirror.  A player *)
(* makes DEPTH moves, each with or without a hold; the tree of SearchPlans, *)
(* built before and for all games, is followed alongside with the slots    *)
(* gathered when the line began.                                           *)
(***************************************************************************)
EXTENDS SearchPlans, PieceFlow

\* The static_assert on DEPTH.
ASSUME LookaheadAssumption == DEPTH + 1 <= PIECE_QUEUE_SIZE

VARIABLES
  slots,       (* the piece of every window slot when the line began        *)
  heldEmpty,   (* whether the hold slot was empty then                      *)
  moves,       (* moves made on this line                                   *)
  decided,     (* the decision vector so far                                *)
  placing      (* the hold decision of this level has been made             *)

walkVars == <<remaining, queue, held, slots, heldEmpty, moves, decided, placing>>
lineVars == <<slots, heldEmpty>>

Begin(q, h) ==
  /\ slots' = gather_slots(q, h)
  /\ heldEmpty' = (h = NO_PIECE)
  /\ moves' = 0
  /\ decided' = 0

WalkInit ==
  /\ Init
  /\ slots = gather_slots(queue, held)
  /\ heldEmpty = (held = NO_PIECE)
  /\ moves = 0 /\ decided = 0 /\ placing = FALSE

Decide(hold) ==
  /\ ~placing
  /\ placing' = TRUE
  /\ \/ ~hold /\ UNCHANGED <<remaining, queue, held, decided>>
     \/ /\ hold
        /\ decided' = decided + 2^moves
        /\ HoldFirst \/ HoldSwap
  /\ UNCHANGED <<lineVars, moves>>

\* The move is made; after DEPTH moves a new line begins.
Place ==
  /\ placing
  /\ placing' = FALSE
  /\ Drop
  /\ \/ moves + 1 < DEPTH /\ moves' = moves + 1 /\ UNCHANGED <<lineVars, decided>>
     \/ moves + 1 = DEPTH /\ Begin(queue', held')

WalkNext == Place \/ \E hold \in BOOLEAN : Decide(hold)

WalkSpec == WalkInit /\ [][WalkNext]_walkVars
-----------------------------------------------------------------------------
NodeIdx == PLAN_NODES[heldEmpty][moves][decided]
Node == PLAN_TREES[heldEmpty][moves][NodeIdx]

\* Along every line of DEPTH moves the tree's node names the piece the player
\* really has in hand and the piece really in the hold slot, although the tree
\* was built from nothing but whether that slot was empty: stashing, swapping
\* and reading on in the lookahead agree with the engine at every level.
PlanMirrorsFlow ==
  placing =>
    /\ slots[Node.slot] = queue[1]
    /\ IF Node.heldSlot = HELD_NONE THEN held = NO_PIECE ELSE slots[Node.heldSlot] = held
    /\ moves = 0 => Node.rootHold = Holds(decided, 0)

\* The children of a node are the two hold decisions of the next move, so the
\* search expands every line and none twice.
ChildrenAreDecisions ==
  placing /\ moves + 1 < DEPTH =>
    LET next(b) == PLAN_NODES[heldEmpty][moves + 1][decided + b * 2^(moves + 1)]
    IN  /\ next(0) # next(1)
        /\ Node.childBegin..(Node.childEnd - 1) = {next(0), next(1)}
=============================================================================
