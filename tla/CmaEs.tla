--------------------------------- MODULE CmaEs ---------------------------------
(***************************************************************************)
(* dd_cmaes and sep_cmaes: what one generation does to the state of the    *)
(* search, and what of that state a save file keeps.  Vectors and matrices *)
(* are left out but for who contributed to them: `learned` counts the      *)
(* generations whose update is in the covariance the next samples are      *)
(* drawn from, `acc` those that dd_cmaes has yet to fold into it, `lost`   *)
(* (a history) those a failed eigendecomposition dropped.                  *)
(***************************************************************************)
EXTENDS Integers, Sequences

CONSTANTS
  POPULATION,   (* individuals of a population                            *)
  GENS,         (* gensPerIteration                                       *)
  TEIG          (* generations from one eigendecomposition to the next    *)

\* evolve() refuses a population of fewer than five.
ASSUME CmaAssumption ==
  /\ POPULATION \in Nat /\ POPULATION >= 5
  /\ GENS \in Nat \ {0}
  /\ TEIG \in Nat \ {0}

Individuals == 1..POPULATION

\* Memory is on and both tolerances are zero in every algorithm the trainer
\* makes.  cols is the size of _newpop, engine the seed and the samples drawn.
makeAlgorithm(kind) ==
  [kind |-> kind, gen |-> GENS, ftol |-> 0, xtol |-> 0, memory |-> TRUE,
   cols |-> 0, engine |-> <<0, 0>>, countEval |-> 0,
   t |-> 0, acc |-> 0, learned |-> 0, lost |-> 0]

set_seed(algo, seed) == [algo EXCEPT !.engine = <<seed, 0>>]

\* Mutant: the state is reset however it was left.
resetStateAlways(algo) ==
  [algo EXCEPT !.cols = POPULATION, !.countEval = 0,
               !.t = 0, !.acc = 0, !.learned = 0, !.lost = 0]

resetState(algo) ==
  IF algo.memory /\ algo.cols = POPULATION
  THEN algo
  ELSE [algo EXCEPT !.cols = POPULATION, !.countEval = 0,
                    !.t = 0, !.acc = 0, !.learned = 0, !.lost = 0]

Sampled(algo) == [algo EXCEPT !.engine[2] = @ + 1]
-----------------------------------------------------------------------------
(* A population is a sequence of individuals [x, f], f the lower the better. *)

best_idx(pop) == CHOOSE k \in Individuals : \A l \in Individuals :
                   pop[k].f < pop[l].f \/ (pop[k].f = pop[l].f /\ k <= l)
worst_idx(pop) == CHOOSE k \in Individuals : \A l \in Individuals : pop[k].f >= pop[l].f

\* Mutant: a spread that meets the tolerance ends the search as well.
ExitsOnTies(algo, pop, dx) ==
  dx < algo.xtol \/ pop[worst_idx(pop)].f - pop[best_idx(pop)].f <= algo.ftol

\* The tolerances are compared with the last sample and with the population of
\* the generation before.
Exits(algo, pop, dx) ==
  dx < algo.xtol \/ pop[worst_idx(pop)].f - pop[best_idx(pop)].f < algo.ftol

\* After the evaluation: sep_cmaes takes its update into the diagonal at once,
\* dd_cmaes accumulates it and decomposes every TEIG generations, keeping the
\* previous decomposition when the new one fails.
Adapted(algo, decomposes) ==
  LET evaluated == [algo EXCEPT !.countEval = @ + POPULATION]
      turned    == [evaluated EXCEPT !.t = @ + 1, !.acc = @ + 1]
  IN  IF algo.kind = "sep" THEN [evaluated EXCEPT !.learned = @ + 1]
      ELSE IF turned.t % TEIG # 0 THEN turned
      ELSE IF decomposes THEN [turned EXCEPT !.learned = @ + turned.acc, !.acc = 0]
      ELSE [turned EXCEPT !.lost = @ + turned.acc, !.acc = 0]
-----------------------------------------------------------------------------
\* Mutant: the pending updates are not written.
serializedNoAcc ==
  {"gen", "ftol", "xtol", "memory", "cols", "engine", "countEval", "t", "learned", "lost"}

\* The members serialize() names (acc is _accCUpdate, cols those of _newpop).
serialized ==
  {"gen", "ftol", "xtol", "memory", "cols", "engine", "countEval", "t", "acc",
   "learned", "lost"}

\* An archive is written from one object and read into a default one.
Written(algo) == [kind |-> algo.kind, members |-> [m \in serialized |-> algo[m]]]
Read(archive) ==
  LET fresh == makeAlgorithm(archive.kind)
  IN  [m \in DOMAIN fresh |-> IF m \in DOMAIN archive.members THEN archive.members[m]
                              ELSE fresh[m]]
=============================================================================
