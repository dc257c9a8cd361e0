------------------------------- MODULE AiTetris -------------------------------
(***************************************************************************)
(* AiTetris: a game played by the beam search.  One step() searches the    *)
(* committed state stage by stage, then commits the best root move: hold,  *)
(* if the move asks for it, and place.  The caller goes on calling step()  *)
(* until the game is over, with one model.                                 *)
(***************************************************************************)
EXTENDS TetrisEngine, ExhaustiveSearch

CONSTANTS
  Models,      (* the models a caller may play with                        *)
  MAX_MOVES    (* bound of the model: moves per game                       *)

ASSUME LookaheadAssumption == DEPTH + 1 <= PIECE_QUEUE_SIZE

VARIABLES
  model,       (* what step() is called with                               *)
  ks,          (* the beam widths it was compiled with                     *)
  stage,       (* where step() is                                          *)
  layer,       (* the level of the kept frontier                           *)
  roots,       (* topRootSlots and topRootScores, by rank                  *)
  kept,        (* the kept frontier                                        *)
  best,        (* what the leaves so far offer: the best key, if any       *)
  lastMove,    (* _lastMove and its value, or NO_MOVE                      *)
  stepRet,     (* what step() returned last                                *)
  moves        (* moves committed in this game                             *)

engineVars == <<board, queue, held, gameOver, bag, bagPos, ret>>
searchVars == <<layer, roots, kept, best>>
aiVars == <<board, queue, held, gameOver, bag, bagPos, ret,
            model, ks, stage, layer, roots, kept, best, lastMove, stepRet, moves>>

NO_MOVE == [move |-> [orientation |-> TOP, x |-> 0, hold |-> FALSE], value |-> 0]

AiInit ==
  /\ Init
  /\ model \in Models
  /\ ks \in BeamWidths
  /\ stage = "idle"
  /\ layer = 0 /\ roots = <<>> /\ kept = <<>> /\ best = {}
  /\ lastMove = NO_MOVE
  /\ stepRet = 0
  /\ moves = 0

AiReset ==
  /\ stage = "idle"
  /\ Reset
  /\ lastMove' = NO_MOVE
  /\ moves' = 0
  /\ UNCHANGED <<model, ks, stage, searchVars, stepRet>>

\* The tree and the pieces of the search; both are fixed while it runs.
Tree == PLAN_TREES[held = NO_PIECE]
Slots == gather_slots(queue, held)

\* step() on a game that is over, or with no legal root.
GiveUp ==
  /\ stage = "idle"
  /\ ~gameOver => score_roots(Tree, Slots, board, model) = {}
  /\ stepRet' = DIED
  /\ UNCHANGED <<engineVars, model, ks, stage, searchVars, lastMove, moves>>

SearchRoots ==
  /\ stage = "idle"
  /\ moves < MAX_MOVES
  /\ ~gameOver
  /\ LET scores == score_roots(Tree, Slots, board, model)
     IN  /\ scores # {}
         /\ roots' = select_top(scores, Width(ks, 0))
  /\ kept' = seed_frontier(Tree, Slots, board, roots')
  /\ layer' = 0
  /\ best' = {}
  /\ stage' = "search"
  /\ UNCHANGED <<engineVars, model, ks, lastMove, stepRet, moves>>

\* One middle level; a frontier that dies out leaves an empty one.
SearchLevel ==
  /\ stage = "search"
  /\ layer < DEPTH - 2
  /\ LET level    == layer + 1
         scores   == score_mid_level(Tree, Slots, level, kept, model)
         offers   == best \cup Fallbacks(ks, kept, scores)
     IN  /\ kept' = advance_frontier(Tree, Slots, level, kept, select_top(scores, Width(ks, level)))
         /\ best' = IF offers = {} THEN {} ELSE {BestKey(offers)}
         /\ layer' = level
  /\ UNCHANGED <<engineVars, model, ks, stage, roots, lastMove, stepRet, moves>>

SearchLeaves ==
  /\ stage = "search"
  /\ layer = DEPTH - 2
  /\ LET offers == best \cup expand_leaves(Tree, Slots, kept, model)
     IN  lastMove' = decode_move(ks, Tree, Slots, roots, kept, BestKey(offers))
  /\ stage' = "hold"
  /\ UNCHANGED <<engineVars, model, ks, searchVars, stepRet, moves>>

CommitHold ==
  /\ stage = "hold"
  /\ \/ lastMove.move.hold /\ Hold
     \/ ~lastMove.move.hold /\ UNCHANGED engineVars
  /\ stage' = "place"
  /\ UNCHANGED <<model, ks, searchVars, lastMove, stepRet, moves>>

\* Whether the hold topped out is not asked.
CommitPlace ==
  /\ stage = "place"
  /\ EnginePlaces(lastMove.move.orientation, lastMove.move.x)
  /\ ret' = PlaceResult(lastMove.move.orientation, lastMove.move.x)
  /\ stepRet' = ret'
  /\ stage' = "idle"
  /\ moves' = moves + 1
  /\ layer' = 0 /\ roots' = <<>> /\ kept' = <<>> /\ best' = {}
  /\ UNCHANGED <<model, ks, lastMove>>

AiNext ==
  \/ AiReset
  \/ GiveUp
  \/ SearchRoots
  \/ SearchLevel
  \/ SearchLeaves
  \/ CommitHold
  \/ CommitPlace

AiSpec == AiInit /\ [][AiNext]_aiVars
-----------------------------------------------------------------------------
\* The beam's answer is one of the answers the exhaustive search weighs: its
\* value is the value of a leaf under that very move, whether the leaf was
\* reached or is where a dead end was scored, and whichever level it died at.
ResultIsALine ==
  stage = "hold" =>
    \E l \in search_leaves(queue, held, board, model) :
      l.move = lastMove.move /\ l.value = lastMove.value

\* A beam with a place for every slot of every level.
KeepsEverything(widths) ==
  /\ Width(widths, 0) >= Cardinality(ROOT_SLOTS)
  /\ \A level \in 1..(DEPTH - 2) :
       Width(widths, level) >= Width(widths, level - 1) * MAX_CHILD_MID * MAX_PLACEMENTS

\* With beams wide enough to keep everything, the beam search beats or matches
\* every leaf of the exhaustive search of the last two levels.  (Above them
\* the two differ: the exhaustive search scores a position early when one hold
\* decision has no continuation, the beam only when neither has.)
WideBeamIsExhaustive ==
  stage = "hold" /\ KeepsEverything(ks) =>
    \A l \in search_leaves(queue, held, board, model) :
      l.length >= DEPTH - 1 => l.value <= lastMove.value

\* An AI game is a game of the engine, played under its @pre: after the hold
\* the piece in hand is the one the search planned, it fits where the search
\* put it, also when the hold itself topped out, and nothing but hold(),
\* place() and reset() ever touches the game.
PlaysTheEngine == Spec

\* step() reports death only when the game is over: while it is not, the piece
\* at the spawn is itself a legal root, and a legal root yields a leaf.
AlwaysAMove ==
  /\ stage = "idle" /\ ~gameOver => score_roots(Tree, Slots, board, model) # {}
  /\ stage = "search" => best # {} \/ kept # <<>>
=============================================================================
