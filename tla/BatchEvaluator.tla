---------------------------- MODULE BatchEvaluator ----------------------------
(***************************************************************************)
(* One batch on its way through ModelEvaluator::eval: models back to back  *)
(* into the weight buffer, one game per block, a score per block, and a    *)
(* negated mean per model.  An evaluator is its three device buffers; a    *)
(* model is a member of a small set and `Score` what it scores on a game.  *)
(***************************************************************************)
EXTENDS Integers, Sequences

CONSTANTS
  SIMULATIONS,       (* simulationsPerEval                                *)
  Score(_, _)        (* what the kernel returns for a model and a seed    *)

ASSUME BatchAssumption == SIMULATIONS \in Nat \ {0}

\* simulate(): the game seeds, drawn from a generator seeded with `seed`.
\* Seeds of different rounds deal different games.
Games == 0..(SIMULATIONS - 1)
simulate(seed) == [g \in Games |-> seed * SIMULATIONS + g]

\* A pooled evaluator before its first batch: no buffer was allocated.
NoBuffers == [games |-> <<>>, weights |-> <<>>, fitness |-> <<>>]

Blocks(models) == 0..(Len(models) * SIMULATIONS - 1)

\* ensure() and the uploads.  A batch is as large as the one before it here:
\* buffers grow with the first and are overwritten whole after that.
Uploaded(device, models, seed) ==
  [device EXCEPT !.games = [b \in Blocks(models) |-> simulate(seed)[b % SIMULATIONS]],
                 !.weights = models]

\* The kernel: block b plays its game with model b / num_games.
Launched(device) ==
  [device EXCEPT !.fitness = [b \in Blocks(device.weights) |->
     Score(device.weights[b \div SIMULATIONS + 1], device.games[b])]]

\* What evalBatch() folds over the games of one model, in their order.
Total(scores) ==
  LET sum[g \in 0..SIMULATIONS] == IF g = 0 THEN 0 ELSE sum[g - 1] + scores[g - 1]
  IN  sum[SIMULATIONS]

\* Model m's games lie side by side.  The sum stands for the mean.
Means(results, num_models) ==
  [m \in 1..num_models |->
     -Total([g \in Games |-> results[(m - 1) * SIMULATIONS + g]])]
-----------------------------------------------------------------------------
\* What the fitness of a model is: its score over the games of a seed.
FitnessOf(x, seed) == -Total([g \in Games |-> Score(x, simulate(seed)[g])])
=============================================================================
