------------------------------- MODULE HostEval -------------------------------
(***************************************************************************)
(* ModelEvaluator::eval_host: one game of one model, played move by move   *)
(* with search_move_beam and scored at the end.  It is what the device     *)
(* kernels have to reproduce.                                              *)
(***************************************************************************)
EXTENDS TetrisEngine, GameStats

CONSTANTS
  max_moves,      (* the move budget of a game                             *)
  ModelWeights,   (* the weight buffers a game may be played with          *)
  Search(_, _, _, _)   (* search_move_beam: queue, held, board, weights to *)
                       (* the move, as a set, empty when there is none     *)

VARIABLES
  model,        (* the weights of the game                                 *)
  stats,        (* what stats_v4 has seen                                  *)
  moves,        (* the moves committed                                     *)
  committing,   (* <<the move>> between its hold() and its place()         *)
  fitness       (* <<the result>> once it is written                       *)

engineVars == <<board, queue, held, gameOver, bag, bagPos, ret>>
hostVars == <<board, queue, held, gameOver, bag, bagPos, ret,
              model, stats, moves, committing, fitness>>

HostInit ==
  /\ Init
  /\ model \in ModelWeights
  /\ stats = NEW_STATS
  /\ moves = 0
  /\ committing = <<>>
  /\ fitness = <<>>

Playing == fitness = <<>> /\ committing = <<>> /\ moves < max_moves /\ ~gameOver

Commits(move) ==
  /\ moves' = moves + 1
  /\ committing' = <<>>
  /\ EnginePlaces(move.orientation, move.x)
  /\ ret' = PlaceResult(move.orientation, move.x)
  /\ stats' = IF ret' = DIED THEN stats ELSE advance(stats, board', ret')
  /\ UNCHANGED <<model, fitness>>

Best == Search(queue, held, board, model)

HostHold ==
  /\ Playing
  /\ committing' # <<>>
  /\ Hold
  /\ \E move \in Best : move.hold /\ committing' = <<move>>
  /\ UNCHANGED <<model, stats, moves, fitness>>

HostPlace ==
  \/ committing # <<>> /\ Commits(committing[1])
  \/ /\ Playing
     /\ moves' = moves + 1
     /\ \E move \in Best : ~move.hold /\ Commits(move)

\* The loop ends; out[g] is written.
HostScore ==
  /\ fitness = <<>> /\ committing = <<>>
  /\ fitness' = <<Fitness(stats)>>
  /\ moves = max_moves \/ gameOver \/ Best = {}
  /\ UNCHANGED <<engineVars, model, stats, moves, committing>>

HostNext == HostHold \/ HostPlace \/ HostScore

HostSpec == HostInit /\ [][HostNext]_hostVars
=============================================================================
