---------------------------- MODULE EvolutionProofs ----------------------------
(***************************************************************************)
(* Theorems about Evolution for any number of islands, workers, games and  *)
(* generations, whatever batches are sampled and wherever a process ends.  *)
(***************************************************************************)
EXTENDS Evolution, TLAPS, NaturalsInduction, WellFoundedInduction

Models == {b[k] : b \in Batches, k \in Individuals}
Individual == [x : Models, f : Int]
Populations == [Individuals -> Individual]

Algorithms ==
  [kind : {"sep", "dd"}, gen : {GENS}, ftol : {0}, xtol : {0}, memory : {TRUE},
   cols : {0, POPULATION}, engine : Nat \X Nat, countEval : Nat,
   t : Nat, acc : Nat, learned : Nat, lost : Nat]

\* Every generation is in one of three places, as UpdatesCountOnce has it.
Counted(a) ==
  /\ a.countEval = POPULATION * (a.learned + a.lost + a.acc)
  /\ a.kind = "dd" => a.acc = a.t % TEIG

\* What a search can be: one that never evolved has nothing to reset.
Searches ==
  {a \in Algorithms :
     /\ Counted(a)
     /\ a.cols # POPULATION =>
          a.countEval = 0 /\ a.t = 0 /\ a.acc = 0 /\ a.learned = 0 /\ a.lost = 0}

\* What an island has of its own while it evolves on copies.
Holdings == [algo : Searches, pop : Populations, champion_f : [1..1 -> Int]]

Deals == [0..(POPULATION * SIMULATIONS - 1) -> Nat]
Devices == [games : {<<>>} \cup Deals, weights : {<<>>} \cup Batches, fitness : {<<>>}]
Jobs ==
  {NONE}
    \cup [phase : {"queued"}, batch : Batches]
    \cup [phase : {"uploaded"}, batch : Batches, worker : Workers, evaluator : Evaluators]
    \cup [phase : {"done"}, batch : Batches, means : [Individuals -> Int]]

\* Where there is no archipelago yet, and where its construction is over.
Unbuilt == {"off", "failed", "verify", "init"}
Built == {"ready", "run", "cycle", "evolving", "save"}

TypeOK ==
  /\ at \in Unbuilt \cup {"build"} \cup Built
  /\ cycles \in 0..MAX_CYCLES
  /\ drawn \in Nat /\ seed \in Seeds
  /\ epoch \in Nat
  /\ lease \in [Evaluators -> Nat \X Nat]
  /\ device \in [Evaluators -> Devices]
  /\ algo \in [Islands -> {ABSENT} \cup Searches]
  /\ pop \in [Islands -> {ABSENT} \cup Populations]
  /\ champion_f \in [Islands -> {ABSENT} \cup [1..1 -> Int]]
  /\ mail \in [Islands -> {ABSENT} \cup Individual]
  /\ isl \in [Islands -> [pc : {"idle", "begin", "generation", "evaluating", "ended"},
                          gen : 0..GENS]]
  /\ held \in [Islands -> {ABSENT} \cup Holdings]
  /\ threw \subseteq Islands
  /\ missed \in [Islands -> Nat]
  /\ job \in [Islands -> Jobs]

\* The first draw seeds the populations, the next ones the islands, and each
\* cycle takes one: no seed is beyond Seeds.
DrawnInv ==
  /\ at \in Unbuilt => drawn = 0
  /\ at = "build" => drawn = 1
  /\ drawn <= 1 + ISLANDS + cycles
  /\ seed <= drawn

\* How far an island's parts have got, by where the trainer is.
StageInv(i) ==
  /\ at \notin Unbuilt => algo[i] \in Searches
  /\ at \in Unbuilt => pop[i] = ABSENT /\ missed[i] = 0
  /\ at \in Built => pop[i] \in Populations
  /\ pop[i] # ABSENT => champion_f[i] # ABSENT
  /\ isl[i].pc = "idle" <=> at # "evolving"
  /\ isl[i].pc = "begin" => isl[i].gen = 1
  /\ isl[i].pc \in {"generation", "evaluating"} => isl[i].gen >= 1
  /\ isl[i].pc \in {"generation", "evaluating"} => algo[i].cols = POPULATION
  /\ job[i].phase # "none" =>
       \/ at = "build" /\ pop[i] = ABSENT
       \/ isl[i].pc = "evaluating"

\* A batch in flight has an evaluator to itself, with its models and the games
\* of this cycle on it; what comes back is their fitness.
BatchInv(i) ==
  /\ job[i].phase = "uploaded" =>
       LET e == job[i].evaluator
       IN  /\ lease[e] = Thread(job[i].worker)
           /\ device[e].weights = job[i].batch
           /\ device[e].games =
                [b \in Blocks(job[i].batch) |-> simulate(seed)[b % SIMULATIONS]]
  /\ job[i].phase = "done" =>
       \A k \in Individuals : job[i].means[k] = FitnessOf(job[i].batch[k], seed)

CurrentInv(i) ==
  i \notin threw /\ (isl[i].pc = "ended" \/ at = "save") =>
    \A k \in Individuals : pop[i][k].f = FitnessOf(pop[i][k].x, seed)

\* Every other fitness, a migrant's too, is from some seed of this process.
Scored(m, sd) == \E s \in 0..sd : m.f = FitnessOf(m.x, s)
Past(p, sd) == \A k \in Individuals : Scored(p[k], sd)
PastInv(i) ==
  /\ pop[i] # ABSENT => Past(pop[i], seed)
  /\ mail[i] # ABSENT => Scored(mail[i], seed)

\* A thread of the scheduler runs one batch.
WorkersInv ==
  \A i, j \in Islands :
    /\ job[i].phase = "uploaded" /\ job[j].phase = "uploaded"
    /\ job[i].worker = job[j].worker
    => i = j

\* The archive reads back as a search.
SavedInv ==
  saved # ABSENT =>
    /\ Read(saved) \in Searches
    /\ Read(saved).countEval = saved.members["countEval"]

\* What an island would have evaluated when the iteration began, had none of its
\* evolutions thrown: the same for all islands, and no less than what was saved.
Generations(i) ==
  IF isl[i].pc = "idle" THEN 0 ELSE IF isl[i].pc = "ended" THEN GENS ELSE isl[i].gen - 1
Missed(i) == POPULATION * GENS * missed[i]
Base(i) == algo[i].countEval + Missed(i) - POPULATION * Generations(i)
EvenInv ==
  at \notin Unbuilt =>
    /\ \A i, j \in Islands : Base(i) = Base(j)
    /\ saved # ABSENT => \A i \in Islands : saved.members["countEval"] <= Base(i)

\* What an evolution that throws falls back to is what it began with.
HeldInv(i) ==
  isl[i].pc \in {"generation", "evaluating"} =>
    /\ held[i] \in Holdings
    /\ held[i].algo.engine[1] = algo[i].engine[1]
    /\ held[i].algo.countEval + Missed(i) = Base(i)
    /\ Past(held[i].pop, seed)

\* A seed is set once per island and process, and no two are the same.
SeededInv ==
  at \in Built => \A i, j \in Islands : algo[i].engine[1] = algo[j].engine[1] => i = j

IInv ==
  /\ TypeOK /\ DrawnInv /\ SavedInv
  /\ \A i \in Islands : StageInv(i) /\ BatchInv(i) /\ CurrentInv(i)
  /\ \A i \in Islands : PastInv(i) /\ HeldInv(i)
  /\ WorkersInv /\ EvenInv /\ SeededInv
-----------------------------------------------------------------------------
(* Numbers: sums and least elements. *)

\* What the proofs need of the constants.
LEMMA ConstantFacts ==
  /\ POPULATION \in Nat /\ POPULATION >= 5
  /\ GENS \in Nat /\ GENS >= 1 /\ TEIG \in Nat /\ TEIG >= 1
  /\ SIMULATIONS \in Nat /\ SIMULATIONS >= 1
  /\ ISLANDS \in Nat /\ ISLANDS >= 1 /\ PARALLEL \in Nat /\ PARALLEL >= 1
  /\ MAX_CYCLES \in Nat
  /\ \A b \in Batches : Len(b) = POPULATION
  BY CmaAssumption, BatchAssumption, EvolutionAssumption

\* Whatever an island's populations are sampled as is a batch.
LEMMA SampledBatches ==
  ASSUME NEW i \in Islands
  PROVE  Sampling[i] \subseteq Batches
  BY DEF Batches, Islands

\* What an island may have missed is a number of evaluations.
LEMMA MissedIsNat ==
  ASSUME NEW m \in Nat
  PROVE  /\ POPULATION * GENS \in Nat /\ POPULATION * GENS * m \in Nat
         /\ POPULATION * GENS * (m + 1) = POPULATION * GENS * m + POPULATION * GENS
<1> DEFINE n == POPULATION * GENS
<1>1. n \in Nat
  BY ConstantFacts
<1> HIDE DEF n
<1>2. n * m \in Nat /\ n * (m + 1) = n * m + n
  BY <1>1
<1>3. QED
  BY <1>1, <1>2 DEF n

\* What was scored under a seed so far still is when further seeds are drawn.
LEMMA PastGrows ==
  ASSUME NEW a \in Nat, NEW b \in Nat, a <= b
  PROVE  /\ \A m : Scored(m, a) => Scored(m, b)
         /\ \A p : Past(p, a) => Past(p, b)
<1>1. 0..a \subseteq 0..b
  OBVIOUS
<1>2. \A m : Scored(m, a) => Scored(m, b)
  BY <1>1 DEF Scored
<1>3. QED
  BY <1>2 DEF Past

\* A set of naturals has a least element.
LEMMA LeastNatural ==
  ASSUME NEW S \in SUBSET Nat, S # {}
  PROVE  \E n \in S : \A m \in S : n <= m
<1>1. PICK n \in S : \A m \in S : <<m, n>> \notin OpToRel(<, Nat)
  BY NatLessThanWellFounded, WFMin, Zenon
<1>2. \A m \in S : ~(m < n)
  BY <1>1 DEF OpToRel
<1>3. QED
  BY <1>2

\* The prefix sums that Total is defined by exist.
LEMMA SumsExist ==
  ASSUME NEW s, NEW N \in Nat
  PROVE  \E f : f = [g \in 0..N |-> IF g = 0 THEN 0 ELSE f[g - 1] + s[g - 1]]
<1> DEFINE IsSum(f, n) == f = [g \in 0..n |-> IF g = 0 THEN 0 ELSE f[g - 1] + s[g - 1]]
           Bad == {n \in 0..N : ~\E f : IsSum(f, n)}
<1>1. Bad = {}
  <2> SUFFICES ASSUME Bad # {} PROVE FALSE
    OBVIOUS
  <2>1. PICK n \in Bad : \A m \in Bad : n <= m
    <3>1. Bad \in SUBSET Nat
      OBVIOUS
    <3> HIDE DEF Bad
    <3>2. QED
      BY <3>1, LeastNatural
  <2>2. n \in 0..N /\ ~\E f : IsSum(f, n)
    BY <2>1
  <2>3. CASE n = 0
    <3>1. IsSum([g \in 0..0 |-> 0], 0)
      OBVIOUS
    <3>2. QED
      BY <2>2, <2>3, <3>1
  <2>4. CASE n # 0
    <3>1. n - 1 \in 0..N /\ ~(n <= n - 1)
      BY <2>2, <2>4
    <3>2. n - 1 \notin Bad
      BY <2>1, <3>1
    <3>3. PICK f : IsSum(f, n - 1)
      BY <3>1, <3>2
    <3> DEFINE h == [g \in 0..n |-> IF g = n THEN f[n - 1] + s[n - 1] ELSE f[g]]
    <3>4. IsSum(h, n)
      <4>1. ASSUME NEW g \in 0..n
            PROVE  h[g] = IF g = 0 THEN 0 ELSE h[g - 1] + s[g - 1]
        <5>1. CASE g = n
          BY <2>2, <2>4, <5>1
        <5>2. CASE g # n
          BY <2>2, <3>3, <5>2
        <5>3. QED
          BY <5>1, <5>2
      <4>2. h = [g \in 0..n |-> h[g]]
        OBVIOUS
      <4> HIDE DEF h
      <4>3. QED
        BY <4>1, <4>2
    <3>5. QED
      BY <2>2, <3>4
  <2>5. QED
    BY <2>3, <2>4
<1>2. QED
  BY <1>1

\* Quotient and remainder are unique.
LEMMA Division ==
  ASSUME NEW n \in Nat \ {0}, NEW q \in Nat, NEW r \in 0..(n - 1)
  PROVE  (q * n + r) \div n = q /\ (q * n + r) % n = r
OBVIOUS

\* The remainder grows with the number until it returns to zero.
LEMMA NextRemainder ==
  ASSUME NEW n \in Nat \ {0}, NEW k \in Nat, (k + 1) % n # 0
  PROVE  (k + 1) % n = (k % n) + 1
<1> DEFINE q == k \div n
           r == k % n
<1>1. q \in Nat /\ r \in 0..(n - 1) /\ k = q * n + r
  OBVIOUS
<1> HIDE DEF q, r
<1>2. CASE r + 1 = n
  <2>1. k + 1 = (q + 1) * n + 0
    BY <1>1, <1>2
  <2>2. q + 1 \in Nat /\ 0 \in 0..(n - 1)
    BY <1>1
  <2>3. (k + 1) % n = 0
    BY <2>1, <2>2, Division
  <2>4. QED
    BY <2>3
<1>3. CASE r + 1 # n
  <2>1. k + 1 = q * n + (r + 1)
    BY <1>1
  <2>2. r + 1 \in 0..(n - 1)
    BY <1>1, <1>3
  <2>3. (k + 1) % n = r + 1
    BY <1>1, <2>1, <2>2, Division
  <2>4. QED
    BY <2>3 DEF r
<1>4. QED
  BY <1>2, <1>3

\* A sum of integers is one.
LEMMA TotalIsInt ==
  ASSUME NEW s \in [Games -> Int]
  PROVE  Total(s) \in Int
<1> DEFINE Sum(f) == f = [g \in 0..SIMULATIONS |-> IF g = 0 THEN 0 ELSE f[g - 1] + s[g - 1]]
           sum == CHOOSE f : Sum(f)
<1>1. Sum(sum)
  <2>1. SIMULATIONS \in Nat
    BY ConstantFacts
  <2>2. \E f : Sum(f)
    BY <2>1, SumsExist
  <2> HIDE DEF Sum
  <2>3. QED
    BY <2>2
<1>2. Total(s) = sum[SIMULATIONS]
  BY DEF Total
<1> HIDE DEF sum
<1>3. {g \in 0..SIMULATIONS : sum[g] \notin Int} = {}
  <2> DEFINE Bad == {g \in 0..SIMULATIONS : sum[g] \notin Int}
  <2> SUFFICES ASSUME Bad # {} PROVE FALSE
    OBVIOUS
  <2>1. PICK n \in Bad : \A m \in Bad : n <= m
    <3>1. Bad \in SUBSET Nat
      BY ConstantFacts
    <3> HIDE DEF Bad
    <3>2. QED
      BY <3>1, LeastNatural
  <2>2. sum[n] = IF n = 0 THEN 0 ELSE sum[n - 1] + s[n - 1]
    BY <1>1, <2>1
  <2>3. n # 0 => n - 1 \in Games /\ n - 1 \in 0..SIMULATIONS /\ n - 1 \notin Bad
    BY <2>1, ConstantFacts DEF Games
  <2>4. QED
    BY <2>1, <2>2, <2>3
<1>4. QED
  BY <1>2, <1>3, ConstantFacts

\* Of finitely many integers the first of the least is well defined.
LEMMA FirstLeast ==
  ASSUME NEW N \in Nat \ {0}, NEW f \in [1..N -> Int]
  PROVE  \E m \in 1..N : \A k \in 1..N : f[m] < f[k] \/ (f[m] = f[k] /\ m <= k)
<1> DEFINE First(m, n) == \A k \in 1..n : f[m] < f[k] \/ (f[m] = f[k] /\ m <= k)
           Bad == {n \in 1..N : ~\E m \in 1..n : First(m, n)}
<1>1. Bad = {}
  <2> SUFFICES ASSUME Bad # {} PROVE FALSE
    OBVIOUS
  <2>1. PICK n \in Bad : \A m \in Bad : n <= m
    <3>1. Bad \in SUBSET Nat
      OBVIOUS
    <3> HIDE DEF Bad
    <3>2. QED
      BY <3>1, LeastNatural
  <2>2. n \in 1..N /\ ~\E m \in 1..n : First(m, n)
    BY <2>1
  <2>3. CASE n = 1
    <3>1. First(1, n) /\ 1 \in 1..n
      BY <2>3
    <3>2. QED
      BY <2>2, <3>1
  <2>4. CASE n # 1
    <3>1. n - 1 \in 1..N /\ ~(n <= n - 1)
      BY <2>2, <2>4
    <3>2. n - 1 \notin Bad
      BY <2>1, <3>1
    <3>3. PICK m \in 1..(n - 1) : First(m, n - 1)
      BY <3>1, <3>2
    <3>4. m \in 1..n /\ n \in 1..n /\ f[m] \in Int /\ f[n] \in Int
      BY <2>2, <3>1, <3>3
    <3>5. CASE f[m] <= f[n]
      <4>1. First(m, n)
        BY <2>2, <3>3, <3>4, <3>5
      <4>2. QED
        BY <2>2, <3>4, <4>1
    <3>6. CASE f[n] < f[m]
      <4>1. ASSUME NEW k \in 1..n
            PROVE  f[n] < f[k] \/ (f[n] = f[k] /\ n <= k)
        <5>1. CASE k = n
          BY <3>4, <5>1
        <5>2. CASE k # n
          <6>1. k \in 1..(n - 1) /\ f[k] \in Int
            BY <2>2, <5>2
          <6>2. f[m] < f[k] \/ f[m] = f[k]
            BY <3>3, <6>1
          <6>3. f[n] < f[k]
            BY <3>4, <3>6, <6>1, <6>2
          <6>4. QED
            BY <6>3
        <5>3. QED
          BY <5>1, <5>2
      <4>2. First(n, n)
        BY <4>1
      <4>3. QED
        BY <2>2, <3>4, <4>2
    <3>7. QED
      BY <3>4, <3>5, <3>6
  <2>5. QED
    BY <2>3, <2>4
<1>2. N \in 1..N
  OBVIOUS
<1>3. QED
  BY <1>1, <1>2
-----------------------------------------------------------------------------
(* Batches: from models to fitnesses. *)

\* The seeds of a round are naturals.
LEMMA GameSeeds ==
  ASSUME NEW sd \in Seeds
  PROVE  simulate(sd) \in [Games -> Nat]
<1>1. sd \in Nat /\ SIMULATIONS \in Nat
  BY ConstantFacts DEF Seeds
<1>2. sd * SIMULATIONS \in Nat
  BY <1>1
<1> DEFINE first == sd * SIMULATIONS
<1>3. simulate(sd) = [g \in Games |-> first + g]
  BY DEF simulate
<1> HIDE DEF first
<1>4. QED
  BY <1>1, <1>2, <1>3 DEF Games, first

\* The fitness of a model under a seed of the trainer is a number.
LEMMA FitnessIsInt ==
  ASSUME NEW x \in Models, NEW sd \in Seeds
  PROVE  FitnessOf(x, sd) \in Int
<1>1. PICK b \in Batches, k \in Individuals : x = b[k]
  BY DEF Models
<1>2. [g \in Games |-> Score(x, simulate(sd)[g])] \in [Games -> Int]
  BY <1>1, ScoreAssumption
<1>3. QED
  BY <1>2, TotalIsInt DEF FitnessOf

\* Block m * S + g plays game g with model m.
LEMMA BlockIndex ==
  ASSUME NEW m \in 0..(POPULATION - 1), NEW g \in Games
  PROVE  /\ m * SIMULATIONS + g \in 0..(POPULATION * SIMULATIONS - 1)
         /\ (m * SIMULATIONS + g) \div SIMULATIONS = m
         /\ (m * SIMULATIONS + g) % SIMULATIONS = g
<1>1. \A n \in Nat \ {0}, q \in Nat, N \in Nat : \A r \in 0..(n - 1) :
        q < N => q * n + r \in 0..(N * n - 1)
  OBVIOUS
<1>2. /\ SIMULATIONS \in Nat \ {0} /\ POPULATION \in Nat /\ m \in Nat /\ m < POPULATION
      /\ g \in 0..(SIMULATIONS - 1)
  BY ConstantFacts DEF Games
<1>3. QED
  BY <1>1, <1>2, Division

\* What a launch returns is the fitness of the models on the device, in order.
LEMMA LaunchScores ==
  ASSUME NEW d \in Devices, NEW b \in Batches, NEW sd \in Seeds,
         d.weights = b, d.games = [k \in Blocks(b) |-> simulate(sd)[k % SIMULATIONS]]
  PROVE  LET means == Means(Launched(d).fitness, Len(b))
         IN  /\ means \in [Individuals -> Int]
             /\ \A k \in Individuals : means[k] = FitnessOf(b[k], sd)
<1> DEFINE out == Launched(d).fitness
<1>1. Len(b) = POPULATION /\ Blocks(b) = 0..(POPULATION * SIMULATIONS - 1)
  BY ConstantFacts DEF Blocks
<1>2. out = [k \in Blocks(b) |-> Score(b[k \div SIMULATIONS + 1], d.games[k])]
  BY DEF Launched, Devices
<1>3. ASSUME NEW k \in Individuals, NEW g \in Games
      PROVE  out[(k - 1) * SIMULATIONS + g] = Score(b[k], simulate(sd)[g])
  <2> DEFINE i == (k - 1) * SIMULATIONS + g
  <2>1. k - 1 \in 0..(POPULATION - 1) /\ (k - 1) + 1 = k
    BY ConstantFacts DEF Individuals
  <2>2. i \in Blocks(b) /\ i \div SIMULATIONS = k - 1 /\ i % SIMULATIONS = g
    BY <1>1, <2>1, BlockIndex
  <2> HIDE DEF i
  <2>3. out[i] = Score(b[(k - 1) + 1], simulate(sd)[g])
    BY <1>2, <2>2
  <2>4. QED
    BY <2>1, <2>3 DEF i
<1> HIDE DEF out
<1>4. ASSUME NEW k \in Individuals
      PROVE  -Total([g \in Games |-> out[(k - 1) * SIMULATIONS + g]]) = FitnessOf(b[k], sd)
  <2>1. [g \in Games |-> out[(k - 1) * SIMULATIONS + g]]
          = [g \in Games |-> Score(b[k], simulate(sd)[g])]
    BY <1>3
  <2>2. QED
    BY <2>1 DEF FitnessOf
<1>5. Means(out, Len(b)) = [k \in Individuals |-> FitnessOf(b[k], sd)]
  BY <1>1, <1>4 DEF Means, Individuals
<1>6. \A k \in Individuals : FitnessOf(b[k], sd) \in Int
  BY FitnessIsInt DEF Models
<1>7. QED
  BY <1>5, <1>6 DEF out
-----------------------------------------------------------------------------
(* Rankings. *)

\* A population is not the absence of one.
LEMMA PopulationPresent ==
  ASSUME NEW p \in Populations
  PROVE  p # ABSENT
<1>1. DOMAIN p = Individuals /\ 1 \in Individuals
  BY ConstantFacts DEF Populations, Individuals
<1>2. 1 \notin DOMAIN ABSENT
  BY DEF ABSENT
<1>3. QED
  BY <1>1, <1>2

\* best_idx is defined, and no individual is better.
LEMMA BestExists ==
  ASSUME NEW p \in Populations
  PROVE  best_idx(p) \in Individuals /\ \A k \in Individuals : p[best_idx(p)].f <= p[k].f
<1> DEFINE f == [k \in 1..POPULATION |-> p[k].f]
<1>1. f \in [1..POPULATION -> Int]
  BY DEF Populations, Individual, Individuals
<1>2. PICK m \in 1..POPULATION :
        \A k \in 1..POPULATION : f[m] < f[k] \/ (f[m] = f[k] /\ m <= k)
  <2>1. POPULATION \in Nat \ {0}
    BY ConstantFacts
  <2> HIDE DEF f
  <2>2. QED
    BY <1>1, <2>1, FirstLeast
<1>3. \E n \in Individuals : \A k \in Individuals :
        p[n].f < p[k].f \/ (p[n].f = p[k].f /\ n <= k)
  BY <1>2 DEF Individuals
<1>4. /\ best_idx(p) \in Individuals
      /\ \A k \in Individuals : \/ p[best_idx(p)].f < p[k].f
                                \/ p[best_idx(p)].f = p[k].f /\ best_idx(p) <= k
  BY <1>3, Zenon DEF best_idx
<1>5. \A k \in Individuals : p[k].f \in Int
  BY DEF Populations, Individual
<1>6. QED
  BY <1>4, <1>5

\* worst_idx is defined, and no individual is worse.
LEMMA WorstExists ==
  ASSUME NEW p \in Populations
  PROVE  worst_idx(p) \in Individuals /\ \A k \in Individuals : p[worst_idx(p)].f >= p[k].f
<1> DEFINE f == [k \in 1..POPULATION |-> -p[k].f]
<1>1. f \in [1..POPULATION -> Int]
  BY DEF Populations, Individual, Individuals
<1>2. PICK m \in 1..POPULATION :
        \A k \in 1..POPULATION : f[m] < f[k] \/ (f[m] = f[k] /\ m <= k)
  <2>1. POPULATION \in Nat \ {0}
    BY ConstantFacts
  <2> HIDE DEF f
  <2>2. QED
    BY <1>1, <2>1, FirstLeast
<1>3. \A k \in Individuals : p[k].f \in Int
  BY DEF Populations, Individual
<1>4. \A k \in Individuals : p[m].f >= p[k].f
  BY <1>2, <1>3 DEF Individuals
<1>5. \E n \in Individuals : \A k \in Individuals : p[n].f >= p[k].f
  BY <1>2, <1>4 DEF Individuals
<1>6. QED
  BY <1>5, Zenon DEF worst_idx

\* With both tolerances zero no search exits before its last generation: the
\* worst individual is never better than the best one.
LEMMA NeverExits ==
  ASSUME NEW a \in Searches, NEW p \in Populations, NEW dx \in 0..1
  PROVE  ~Exits(a, p, dx)
<1>1. a.xtol = 0 /\ a.ftol = 0
  BY DEF Searches, Algorithms
<1>2. p[worst_idx(p)].f >= p[best_idx(p)].f
  BY BestExists, WorstExists
<1>3. p[worst_idx(p)].f \in Int /\ p[best_idx(p)].f \in Int
  BY BestExists, WorstExists DEF Populations, Individual
<1>4. QED
  BY <1>1, <1>2, <1>3 DEF Exits

\* What champion_f becomes when an island holds a population is a number.
LEMMA ChampionIsInt ==
  ASSUME NEW c \in {ABSENT} \cup [1..1 -> Int], NEW p \in Populations
  PROVE  <<Min(ToSet(c) \cup {p[best_idx(p)].f})>> \in [1..1 -> Int]
<1> DEFINE v == p[best_idx(p)].f
<1>1. v \in Int
  BY BestExists DEF Populations, Individual
<1> HIDE DEF v
<1>2. Min(ToSet(c) \cup {v}) \in Int
  <2>1. CASE c = ABSENT
    <3>1. ToSet(c) = {}
      BY <2>1 DEF ToSet, ABSENT
    <3>2. \E x \in {v} : \A y \in {v} : x <= y
      BY <1>1
    <3>3. Min({v}) \in {v}
      BY <3>2 DEF Min
    <3>4. ToSet(c) \cup {v} = {v}
      BY <3>1
    <3>5. QED
      BY <1>1, <3>3, <3>4
  <2>2. CASE c \in [1..1 -> Int]
    <3>1. ToSet(c) = {c[1]} /\ c[1] \in Int
      BY <2>2 DEF ToSet
    <3>2. \E x \in {c[1], v} : \A y \in {c[1], v} : x <= y
      BY <1>1, <3>1
    <3>3. Min({c[1], v}) \in {c[1], v}
      BY <3>2 DEF Min
    <3>4. ToSet(c) \cup {v} = {c[1], v}
      BY <3>1
    <3>5. QED
      BY <1>1, <3>1, <3>3, <3>4
  <2>3. QED
    BY <2>1, <2>2
<1>3. QED
  BY <1>2 DEF v

\* saveState always finds an island.
LEMMA BestIslandExists ==
  ASSUME champion_f \in [Islands -> [1..1 -> Int]]
  PROVE  bestIsland \in Islands
<1> DEFINE f == [i \in 1..ISLANDS |-> champion_f[i][1]]
<1>1. f \in [1..ISLANDS -> Int]
  BY DEF Islands
<1>2. PICK m \in 1..ISLANDS :
        \A k \in 1..ISLANDS : f[m] < f[k] \/ (f[m] = f[k] /\ m <= k)
  <2>1. ISLANDS \in Nat \ {0}
    BY ConstantFacts
  <2> HIDE DEF f
  <2>2. QED
    BY <1>1, <2>1, FirstLeast
<1>3. \A i, j \in Islands : champion_f[i][1] = champion_f[j][1] => champion_f[i] = champion_f[j]
  OBVIOUS
<1>4. \E i \in Islands : \A j \in Islands :
        champion_f[i][1] < champion_f[j][1] \/ (champion_f[i] = champion_f[j] /\ i <= j)
  BY <1>2, <1>3 DEF Islands
<1>5. QED
  BY <1>4, Zenon DEF bestIsland
-----------------------------------------------------------------------------
(* Algorithms: what one step of them leaves of a search. *)

\* A new algorithm has counted nothing.
LEMMA MakeFacts ==
  ASSUME NEW kind \in {"sep", "dd"}
  PROVE  makeAlgorithm(kind) \in Searches
<1>1. makeAlgorithm(kind) \in Algorithms
  BY CmaAssumption DEF makeAlgorithm, Algorithms
<1>2. 0 % TEIG = 0 /\ POPULATION * 0 = 0
  BY ConstantFacts
<1>3. QED
  BY <1>1, <1>2 DEF Searches, Counted, makeAlgorithm

\* set_seed touches nothing but the engine.
LEMMA SetSeedFacts ==
  ASSUME NEW a \in Searches, NEW n \in Nat
  PROVE  /\ set_seed(a, n) \in Searches
         /\ set_seed(a, n).engine[1] = n
         /\ set_seed(a, n).countEval = a.countEval
         /\ set_seed(a, n).cols = a.cols
<1>1. a \in Algorithms /\ Counted(a)
  BY DEF Searches
<1>2. set_seed(a, n) \in Algorithms
  BY <1>1 DEF Algorithms, set_seed
<1>3. /\ set_seed(a, n).engine = <<n, 0>>
      /\ \A m \in {"kind", "cols", "countEval", "t", "acc", "learned", "lost"} :
           set_seed(a, n)[m] = a[m]
  BY <1>1 DEF Algorithms, set_seed
<1>4. QED
  BY <1>1, <1>2, <1>3 DEF Searches, Counted

\* resetState clears only a search that has nothing to lose.
LEMMA ResetFacts ==
  ASSUME NEW a \in Searches
  PROVE  /\ resetState(a) \in Searches
         /\ resetState(a).engine = a.engine
         /\ resetState(a).countEval = a.countEval
         /\ resetState(a).cols = POPULATION
<1>1. a \in Algorithms /\ Counted(a)
  BY DEF Searches
<1>2. resetState(a) = [a EXCEPT !.cols = POPULATION]
  BY ConstantFacts DEF Searches, Algorithms, resetState
<1>3. resetState(a) \in Algorithms /\ resetState(a).cols = POPULATION
  BY <1>1, <1>2, ConstantFacts DEF Algorithms
<1>4. \A m \in {"kind", "engine", "countEval", "t", "acc", "learned", "lost"} :
        resetState(a)[m] = a[m]
  BY <1>1, <1>2 DEF Algorithms
<1>5. QED
  BY <1>1, <1>3, <1>4 DEF Searches, Counted

\* Drawing samples moves the engine on from its seed.
LEMMA SampledFacts ==
  ASSUME NEW a \in Searches
  PROVE  /\ Sampled(a) \in Searches
         /\ Sampled(a).engine[1] = a.engine[1]
         /\ Sampled(a).countEval = a.countEval
         /\ Sampled(a).cols = a.cols
<1>1. a \in Algorithms /\ Counted(a)
  BY DEF Searches
<1>2. PICK sd \in Nat, n \in Nat : a.engine = <<sd, n>>
  BY <1>1 DEF Algorithms
<1>3. Sampled(a) = [a EXCEPT !.engine = [<<sd, n>> EXCEPT ![2] = n + 1]]
  BY <1>1, <1>2 DEF Sampled, Algorithms
<1>4. [<<sd, n>> EXCEPT ![2] = n + 1] = <<sd, n + 1>>
  OBVIOUS
<1>5. Sampled(a) = [a EXCEPT !.engine = <<sd, n + 1>>]
  BY <1>3, <1>4
<1>6. Sampled(a) \in Algorithms /\ Sampled(a).engine = <<sd, n + 1>>
  <2>1. <<sd, n + 1>> \in Nat \X Nat
    OBVIOUS
  <2> DEFINE e == <<sd, n + 1>>
  <2> HIDE DEF e
  <2>2. Sampled(a) = [a EXCEPT !.engine = e] /\ e \in Nat \X Nat
    BY <1>5, <2>1 DEF e
  <2>3. Sampled(a) \in Algorithms /\ Sampled(a).engine = e
    BY <1>1, <2>2 DEF Algorithms
  <2>4. QED
    BY <2>3 DEF e
<1>7. \A m \in {"kind", "cols", "countEval", "t", "acc", "learned", "lost"} :
        Sampled(a)[m] = a[m]
  BY <1>1, <1>5 DEF Algorithms
<1>8. QED
  BY <1>1, <1>2, <1>6, <1>7 DEF Searches, Counted

\* A generation is counted once, wherever its update goes.
LEMMA AdaptedFacts ==
  ASSUME NEW a \in Searches, a.cols = POPULATION, NEW decomposes \in BOOLEAN
  PROVE  /\ Adapted(a, decomposes) \in Searches
         /\ Adapted(a, decomposes).engine = a.engine
         /\ Adapted(a, decomposes).countEval = a.countEval + POPULATION
         /\ Adapted(a, decomposes).cols = POPULATION
<1> DEFINE n == a.learned + a.lost + a.acc
<1>1. /\ a \in Algorithms /\ a.kind \in {"sep", "dd"}
      /\ a.t \in Nat /\ a.acc \in Nat /\ a.learned \in Nat /\ a.lost \in Nat /\ a.countEval \in Nat
      /\ a.countEval = POPULATION * n
      /\ a.kind = "dd" => a.acc = a.t % TEIG
  BY DEF Searches, Counted, Algorithms
<1>2. /\ n \in Nat /\ POPULATION * (n + 1) = POPULATION * n + POPULATION
      /\ a.countEval + POPULATION \in Nat
  <2>1. \A k, m \in Nat : k * (m + 1) = k * m + k
    OBVIOUS
  <2>2. n \in Nat /\ a.countEval + POPULATION \in Nat
    BY <1>1, ConstantFacts
  <2> HIDE DEF n
  <2>3. QED
    BY <2>1, <2>2, ConstantFacts
<1> DEFINE b == Adapted(a, decomposes)
           evaluated == [a EXCEPT !.countEval = a.countEval + POPULATION]
           turned == [evaluated EXCEPT !.t = evaluated.t + 1, !.acc = evaluated.acc + 1]
<1>3. CASE a.kind = "sep"
  <2>1. b = [evaluated EXCEPT !.learned = evaluated.learned + 1]
    BY <1>3 DEF Adapted
  <2>2. /\ evaluated \in Algorithms /\ evaluated.countEval = a.countEval + POPULATION
        /\ \A m \in {"kind", "engine", "cols", "learned", "lost", "acc"} : evaluated[m] = a[m]
    BY <1>1, <1>2 DEF Algorithms
  <2> HIDE DEF evaluated
  <2>3. /\ b \in Algorithms /\ b.cols = POPULATION /\ b.kind = "sep" /\ b.engine = a.engine
        /\ b.countEval = a.countEval + POPULATION
        /\ b.learned = a.learned + 1 /\ b.lost = a.lost /\ b.acc = a.acc
    <3> HIDE DEF b
    <3>1. evaluated.learned + 1 \in Nat
      BY <1>1, <2>2
    <3>2. QED
      BY <1>3, <2>1, <2>2, <3>1 DEF Algorithms
  <2> HIDE DEF b
  <2>4. b.learned + b.lost + b.acc = n + 1
    BY <1>1, <2>3
  <2>5. Counted(b)
    <3> HIDE DEF n
    <3>1. QED
      BY <1>1, <1>2, <2>3, <2>4 DEF Counted
  <2>6. QED
    BY <2>3, <2>5 DEF Searches, b
<1>4. /\ turned \in Algorithms /\ turned.countEval = a.countEval + POPULATION
      /\ turned.t = a.t + 1 /\ turned.acc = a.acc + 1
      /\ \A m \in {"kind", "engine", "cols", "learned", "lost"} : turned[m] = a[m]
  <2>1. /\ evaluated \in Algorithms /\ evaluated.countEval = a.countEval + POPULATION
        /\ \A m \in {"kind", "engine", "cols", "t", "learned", "lost", "acc"} :
             evaluated[m] = a[m]
    BY <1>1, <1>2 DEF Algorithms
  <2> HIDE DEF evaluated
  <2>2. evaluated.t + 1 \in Nat /\ evaluated.acc + 1 \in Nat
    BY <1>1, <2>1
  <2>3. QED
    BY <2>1, <2>2 DEF Algorithms
<1>5. CASE a.kind = "dd" /\ (a.t + 1) % TEIG # 0
  <2>1. b = turned
    <3>1. a.kind # "sep" /\ turned.t % TEIG # 0
      BY <1>4, <1>5
    <3>2. QED
      BY <3>1 DEF Adapted
  <2> HIDE DEF b, turned
  <2>2. turned.learned + turned.lost + turned.acc = n + 1
    BY <1>1, <1>4
  <2>3. turned.acc = turned.t % TEIG
    <3>1. (a.t + 1) % TEIG = (a.t % TEIG) + 1
      BY <1>1, <1>5, NextRemainder, ConstantFacts
    <3>2. QED
      BY <1>1, <1>4, <1>5, <3>1
  <2>4. Counted(turned)
    <3> HIDE DEF n
    <3>1. QED
      BY <1>1, <1>2, <1>4, <2>2, <2>3 DEF Counted
  <2>5. turned \in Searches
    BY <1>4, <2>4 DEF Searches
  <2>6. QED
    BY <1>4, <2>1, <2>5 DEF b
<1>6. CASE a.kind = "dd" /\ (a.t + 1) % TEIG = 0
  <2> DEFINE left(x, y) == [turned EXCEPT !.learned = x, !.lost = y, !.acc = 0]
  <2>1. a.kind # "sep" /\ ~(turned.t % TEIG # 0)
    BY <1>4, <1>6
  <2>2. \/ b = [turned EXCEPT !.learned = turned.learned + turned.acc, !.acc = 0]
        \/ b = [turned EXCEPT !.lost = turned.lost + turned.acc, !.acc = 0]
    BY <2>1 DEF Adapted
  <2> HIDE DEF b, turned
  <2>3. PICK x \in Nat, y \in Nat :
          /\ x + y = n + 1
          /\ b \in Algorithms /\ b.learned = x /\ b.lost = y /\ b.acc = 0
          /\ \A m \in {"kind", "engine", "cols", "countEval", "t"} : b[m] = turned[m]
    <3>1. CASE b = [turned EXCEPT !.learned = turned.learned + turned.acc, !.acc = 0]
      <4>1. turned.learned + turned.acc \in Nat /\ turned.lost \in Nat
        BY <1>1, <1>4
      <4>2. /\ b \in Algorithms /\ b.learned = turned.learned + turned.acc
            /\ b.lost = turned.lost /\ b.acc = 0
            /\ \A m \in {"kind", "engine", "cols", "countEval", "t"} : b[m] = turned[m]
        BY <1>4, <3>1, <4>1 DEF Algorithms
      <4>3. (turned.learned + turned.acc) + turned.lost = n + 1
        BY <1>1, <1>4
      <4>4. QED
        BY <4>1, <4>2, <4>3
    <3>2. CASE b = [turned EXCEPT !.lost = turned.lost + turned.acc, !.acc = 0]
      <4>1. turned.lost + turned.acc \in Nat /\ turned.learned \in Nat
        BY <1>1, <1>4
      <4>2. /\ b \in Algorithms /\ b.lost = turned.lost + turned.acc
            /\ b.learned = turned.learned /\ b.acc = 0
            /\ \A m \in {"kind", "engine", "cols", "countEval", "t"} : b[m] = turned[m]
        BY <1>4, <3>2, <4>1 DEF Algorithms
      <4>3. turned.learned + (turned.lost + turned.acc) = n + 1
        BY <1>1, <1>4
      <4>4. QED
        BY <4>1, <4>2, <4>3
    <3>3. QED
      BY <2>2, <3>1, <3>2
  <2>4. b.learned + b.lost + b.acc = n + 1
    BY <2>3
  <2>5. b.acc = b.t % TEIG
    BY <1>4, <1>6, <2>3
  <2>6. Counted(b)
    <3> HIDE DEF n
    <3>1. QED
      BY <1>1, <1>2, <1>4, <2>3, <2>4, <2>5 DEF Counted
  <2>7. /\ b \in Searches /\ b.engine = a.engine
        /\ b.countEval = a.countEval + POPULATION /\ b.cols = POPULATION
    BY <1>4, <2>3, <2>6 DEF Searches
  <2>8. QED
    BY <2>7 DEF b
<1>7. QED
  BY <1>1, <1>3, <1>5, <1>6

\* What is read back is what was written: no member is forgotten.
LEMMA ReadWritten ==
  ASSUME NEW a \in Algorithms
  PROVE  Read(Written(a)) = a
<1> DEFINE Fields == {"kind", "gen", "ftol", "xtol", "memory", "cols", "engine",
                      "countEval", "t", "acc", "learned", "lost"}
<1>1. DOMAIN a = Fields /\ a = [m \in Fields |-> a[m]]
  BY DEF Algorithms
<1>2. Written(a).kind = a.kind /\ Written(a).members = [m \in serialized |-> a[m]]
  BY DEF Written
<1>3. DOMAIN makeAlgorithm(a.kind) = Fields
  BY DEF makeAlgorithm
<1>4. DOMAIN Written(a).members = serialized
  BY <1>2
<1>5. Fields = serialized \cup {"kind"}
  BY DEF serialized
<1>6. makeAlgorithm(a.kind)["kind"] = a["kind"]
  BY DEF makeAlgorithm
<1> HIDE DEF Fields
<1>7. Read(Written(a)) =
        [m \in Fields |-> IF m \in serialized THEN a[m] ELSE makeAlgorithm(a.kind)[m]]
  BY <1>2, <1>3, <1>4 DEF Read
<1>8. QED
  BY <1>1, <1>5, <1>6, <1>7
-----------------------------------------------------------------------------
(* The invariant when there is no process, and when one ends. *)

\* Nothing of the files, before the first process and after any of them.
LEMMA InitIInv == Init => IInv
<1> SUFFICES ASSUME Init PROVE IInv
  OBVIOUS
<1>1. TypeOK
  <2>1. 0 \in 0..MAX_CYCLES /\ 0 \in Seeds /\ 0 \in 0..GENS
    BY ConstantFacts DEF Seeds
  <2>2. NONE \in Jobs /\ NoBuffers \in Devices /\ Idle \in [pc : {"idle"}, gen : 0..GENS]
    BY <2>1 DEF Jobs, Devices, NoBuffers, Idle
  <2>3. QED
    BY <2>1, <2>2, ConstantFacts DEF Init, TypeOK, Unbuilt, FREE
<1>2. DrawnInv /\ SavedInv
  BY ConstantFacts DEF Init, DrawnInv, SavedInv
<1>3. \A i \in Islands :
        StageInv(i) /\ BatchInv(i) /\ CurrentInv(i) /\ PastInv(i) /\ HeldInv(i)
  BY DEF Init, StageInv, BatchInv, CurrentInv, PastInv, HeldInv, Unbuilt, Built, NONE, Idle
<1>4. WorkersInv /\ EvenInv /\ SeededInv
  BY DEF Init, WorkersInv, EvenInv, SeededInv, NONE, Unbuilt, Built
<1>5. QED
  BY <1>1, <1>2, <1>3, <1>4 DEF IInv

\* A process that stops, aborts or fails its self-check.
LEMMA EndKeepsIInv ==
  ASSUME IInv, NEW how \in {"off", "failed"}, EndProcess(how)
  PROVE  IInv'
<1> USE DEF EndProcess
<1>1. TypeOK'
  <2>1. 0 \in Seeds /\ 0 \in 0..GENS
    BY ConstantFacts DEF Seeds
  <2>2. NONE \in Jobs /\ NoBuffers \in Devices /\ Idle \in [pc : {"idle"}, gen : 0..GENS]
    BY <2>1 DEF Jobs, Devices, NoBuffers, Idle
  <2>3. cycles \in 0..MAX_CYCLES
    BY DEF IInv, TypeOK
  <2>4. QED
    BY <2>1, <2>2, <2>3 DEF TypeOK, Unbuilt, FREE
<1>2. DrawnInv'
  BY ConstantFacts DEF IInv, TypeOK, DrawnInv
<1>3. SavedInv'
  BY DEF IInv, SavedInv
<1>4. \A i \in Islands :
        StageInv(i)' /\ BatchInv(i)' /\ CurrentInv(i)' /\ PastInv(i)' /\ HeldInv(i)'
  BY DEF StageInv, BatchInv, CurrentInv, PastInv, HeldInv, Unbuilt, Built, NONE, Idle
<1>5. WorkersInv' /\ EvenInv' /\ SeededInv'
  BY DEF WorkersInv, EvenInv, SeededInv, NONE, Unbuilt, Built
<1>6. QED
  BY <1>1, <1>2, <1>3, <1>4, <1>5 DEF IInv
-----------------------------------------------------------------------------
(* The trainer's steps between constructions and iterations. *)

\* Where the trainer neither builds nor evolves, no island and no batch is on
\* its way.
LEMMA NothingRuns ==
  ASSUME IInv, at \notin {"build", "evolving"}, NEW i \in Islands
  PROVE  isl[i].pc = "idle" /\ job[i].phase = "none"
BY DEF IInv, StageInv

\* Such a step leaves what was said of the islands.
LEMMA QuietStep ==
  ASSUME IInv, UNCHANGED <<searchVars, heldVars, isl, job>>, seed <= seed',
         at \notin {"build", "evolving"}, at' \notin {"build", "evolving", "save"},
         at \in Unbuilt <=> at' \in Unbuilt,
         TypeOK', DrawnInv', SavedInv',
         saved' = saved \/ EvenInv'
  PROVE  IInv'
<1>1. /\ algo' = algo /\ pop' = pop /\ champion_f' = champion_f /\ mail' = mail
      /\ held' = held /\ threw' = threw /\ missed' = missed
      /\ isl' = isl /\ job' = job
  BY DEF searchVars, heldVars
<1>2. \A i \in Islands : isl[i].pc = "idle" /\ job[i].phase = "none"
  BY NothingRuns
<1>3. at' \in Built => at \in Built
  BY DEF IInv, TypeOK, Built, Unbuilt
<1>4. ASSUME NEW i \in Islands
      PROVE  StageInv(i)' /\ BatchInv(i)' /\ CurrentInv(i)' /\ PastInv(i)' /\ HeldInv(i)'
  <2>1. StageInv(i) /\ PastInv(i)
    BY DEF IInv
  <2>2. StageInv(i)'
    BY <1>1, <1>2, <1>3, <2>1 DEF StageInv
  <2>3. BatchInv(i)' /\ CurrentInv(i)' /\ HeldInv(i)'
    BY <1>1, <1>2 DEF BatchInv, CurrentInv, HeldInv
  <2>4. seed \in Nat /\ seed' \in Nat
    BY ConstantFacts DEF IInv, TypeOK, Seeds
  <2>5. PastInv(i)'
    BY <1>1, <2>1, <2>4, PastGrows DEF PastInv
  <2>6. QED
    BY <2>2, <2>3, <2>5
<1>5. WorkersInv'
  BY <1>1, <1>2 DEF WorkersInv
<1>6. EvenInv'
  <2>1. CASE saved' = saved
    <3>1. \A i : Base(i)' = Base(i)
      BY <1>1 DEF Base, Missed, Generations
    <3>2. EvenInv
      BY DEF IInv
    <3>3. QED
      BY <2>1, <3>1, <3>2 DEF EvenInv
  <2>2. QED
    BY <2>1
<1>7. SeededInv'
  BY <1>1, <1>3 DEF IInv, SeededInv
<1>8. QED
  BY <1>4, <1>5, <1>6, <1>7 DEF IInv

\* A seed is a number.
LEMMA SeedIsNat ==
  ASSUME IInv
  PROVE  seed \in Nat
BY ConstantFacts DEF IInv, TypeOK, Seeds

\* A process starts.
LEMMA StartKeepsIInv ==
  ASSUME IInv, Start
  PROVE  IInv'
<1> USE DEF Start, startSchedulers, searchVars, heldVars
<1>1. TypeOK' /\ DrawnInv' /\ SavedInv' /\ seed <= seed'
  BY SeedIsNat DEF IInv, TypeOK, DrawnInv, SavedInv, Unbuilt
<1>2. QED
  BY <1>1, QuietStep DEF Unbuilt

\* The self-check of the evaluator.
LEMMA VerifyKeepsIInv ==
  ASSUME IInv, verifyEvaluator
  PROVE  IInv'
<1>1. CASE /\ at = "verify" /\ at' = "init"
           /\ UNCHANGED <<cycles, it, drawn, seed, poolVars, searchVars, heldVars, isl, job, saved>>
  <2> USE <1>1 DEF poolVars, searchVars, heldVars
  <2>1. TypeOK' /\ DrawnInv' /\ SavedInv' /\ seed <= seed'
    BY SeedIsNat DEF IInv, TypeOK, DrawnInv, SavedInv, Unbuilt
  <2>2. QED
    BY <2>1, QuietStep DEF Unbuilt
<1>2. CASE EndProcess("off")
  BY <1>2, EndKeepsIInv
<1>3. QED
  BY <1>1, <1>2 DEF verifyEvaluator

\* run() starts the scheduler.
LEMMA RunKeepsIInv ==
  ASSUME IInv, run
  PROVE  IInv'
<1> USE DEF run, startSchedulers, searchVars, heldVars
<1>1. TypeOK' /\ DrawnInv' /\ SavedInv' /\ seed <= seed'
  BY SeedIsNat DEF IInv, TypeOK, DrawnInv, SavedInv, Unbuilt, Built
<1>2. QED
  BY <1>1, QuietStep DEF Unbuilt

\* A cycle takes the next game seed.
LEMMA CycleKeepsIInv ==
  ASSUME IInv, NextCycle
  PROVE  IInv'
<1> USE DEF NextCycle, poolVars, searchVars, heldVars
<1>1. /\ cycles' \in 0..MAX_CYCLES /\ drawn' \in Nat
      /\ drawn' <= 1 + ISLANDS + cycles' /\ seed' \in Seeds
      /\ seed' <= drawn' /\ seed <= seed'
  BY ConstantFacts DEF IInv, TypeOK, DrawnInv, Seeds
<1>2. TypeOK' /\ DrawnInv' /\ SavedInv'
  BY <1>1 DEF IInv, TypeOK, DrawnInv, SavedInv, Unbuilt, Built
<1>3. QED
  BY <1>1, <1>2, QuietStep DEF Unbuilt

\* The end of a cycle.
LEMMA EndCycleKeepsIInv ==
  ASSUME IInv, EndCycle
  PROVE  IInv'
<1> USE DEF EndCycle, poolVars, searchVars, heldVars
<1>1. TypeOK' /\ DrawnInv' /\ SavedInv' /\ seed <= seed'
  BY SeedIsNat DEF IInv, TypeOK, DrawnInv, SavedInv, Unbuilt, Built
<1>2. QED
  BY <1>1, QuietStep DEF Unbuilt

\* What saveState() writes is a search no further on than every island would be.
LEMMA SaveKeepsIInv ==
  ASSUME IInv, saveState
  PROVE  IInv'
<1> DEFINE best == bestIsland
<1>1. ASSUME NEW i \in Islands
      PROVE  /\ algo[i] \in Searches
             /\ algo[i].countEval \in Nat /\ Missed(i) \in Nat
             /\ champion_f[i] \in [1..1 -> Int]
             /\ isl[i].pc = "idle"
  <2>1. at = "save" /\ StageInv(i) /\ champion_f[i] \in {ABSENT} \cup [1..1 -> Int]
    BY DEF IInv, TypeOK, saveState
  <2>2. algo[i] \in Searches /\ pop[i] \in Populations
    BY <2>1 DEF StageInv, Unbuilt, Built
  <2>3. champion_f[i] # ABSENT
    BY <2>1, <2>2, PopulationPresent DEF StageInv
  <2>4. algo[i].countEval \in Nat
    BY <2>2 DEF Searches, Algorithms
  <2>5. Missed(i) \in Nat
    BY MissedIsNat DEF IInv, TypeOK, Missed
  <2>6. QED
    BY <2>1, <2>2, <2>3, <2>4, <2>5 DEF StageInv
<1>2. best \in Islands
  <2>1. champion_f \in [Islands -> [1..1 -> Int]]
    BY <1>1 DEF IInv, TypeOK
  <2>2. QED
    BY <2>1, BestIslandExists
<1> HIDE DEF best
<1>3. saved' = Written(algo[best])
  BY DEF saveState, best
<1>4. Read(saved') = algo[best]
  BY <1>1, <1>2, <1>3, ReadWritten DEF Searches
<1>5. saved'.members["countEval"] = algo[best].countEval
  BY <1>3 DEF Written, serialized
<1>6. SavedInv'
  BY <1>1, <1>2, <1>4, <1>5 DEF SavedInv
<1>7. EvenInv'
  <2>1. \A i \in Islands : Base(i)' = Base(i) /\ Base(i) = algo[i].countEval + Missed(i)
    <3>1. algo' = algo /\ isl' = isl /\ missed' = missed /\ POPULATION * 0 = 0
      BY ConstantFacts DEF saveState, searchVars, heldVars
    <3>2. \A i \in Islands :
            Generations(i) = 0 /\ Generations(i)' = 0 /\ Missed(i)' = Missed(i)
      BY <1>1, <3>1 DEF Generations, Missed
    <3>3. QED
      BY <1>1, <3>1, <3>2 DEF Base
  <2>2. \A i, j \in Islands : Base(i) = Base(j)
    BY DEF IInv, EvenInv, saveState, Unbuilt
  <2>3. \A i \in Islands : saved'.members["countEval"] <= Base(i)'
    BY <1>1, <1>2, <1>5, <2>1, <2>2
  <2>4. QED
    BY <2>1, <2>2, <2>3 DEF EvenInv
<1>8. TypeOK' /\ DrawnInv' /\ seed <= seed'
  BY SeedIsNat DEF IInv, TypeOK, DrawnInv, saveState, poolVars, searchVars, heldVars, Unbuilt, Built
<1>9. QED
  BY <1>6, <1>7, <1>8, QuietStep DEF saveState, searchVars, heldVars, Unbuilt
-----------------------------------------------------------------------------
(* The trainer's steps that touch all islands. *)

\* init() or loadState(): every island gets a copy of one algorithm.
LEMMA InitStateKeepsIInv ==
  ASSUME IInv, initState
  PROVE  IInv'
<1> USE DEF initState
<1>1. at = "init" /\ at' = "build" /\ at \in Unbuilt /\ at' \notin Unbuilt /\ at' \notin Built
  BY DEF Unbuilt, Built
<1>2. /\ UNCHANGED <<cycles, it, seed, epoch, up, lease, device, pop, champion_f, mail,
                     isl, held, threw, missed, job, saved>>
      /\ drawn = 0 /\ drawn' = 1
  BY <1>1 DEF poolVars, heldVars, IInv, DrawnInv
<1>3. PICK a \in Searches :
        /\ algo' = [i \in Islands |-> a]
        /\ saved # ABSENT => saved.members["countEval"] = a.countEval
  <2>1. PICK kind \in Kinds :
          algo' = [i \in Islands |-> IF saved # ABSENT THEN Read(saved) ELSE makeAlgorithm(kind)]
    OBVIOUS
  <2>2. makeAlgorithm(kind) \in Searches
    BY MakeFacts, EvolutionAssumption
  <2>3. SavedInv
    BY DEF IInv
  <2>4. QED
    BY <2>1, <2>2, <2>3 DEF SavedInv
<1>4. a.countEval \in Nat
  BY DEF Searches, Algorithms
<1>5. \A i \in Islands :
        isl[i].pc = "idle" /\ job[i].phase = "none" /\ pop[i] = ABSENT /\ missed[i] = 0
  BY <1>1, NothingRuns DEF IInv, StageInv
<1>6. TypeOK'
  <2>1. TypeOK
    BY DEF IInv
  <2>2. algo' \in [Islands -> {ABSENT} \cup Searches]
    BY <1>3
  <2>3. QED
    BY <1>1, <1>2, <2>1, <2>2 DEF TypeOK
<1>7. DrawnInv' /\ SavedInv'
  BY <1>1, <1>2, ConstantFacts, SeedIsNat DEF IInv, TypeOK, DrawnInv, SavedInv
<1>8. ASSUME NEW i \in Islands
      PROVE  StageInv(i)' /\ BatchInv(i)' /\ CurrentInv(i)' /\ PastInv(i)' /\ HeldInv(i)'
  <2>1. PastInv(i)
    BY DEF IInv
  <2>2. QED
    BY <1>1, <1>2, <1>3, <1>5, <2>1 DEF StageInv, BatchInv, CurrentInv, PastInv, HeldInv
<1>9. WorkersInv' /\ SeededInv'
  BY <1>1, <1>2, <1>5 DEF WorkersInv, SeededInv
<1>10. EvenInv'
  <2>1. ASSUME NEW i \in Islands
        PROVE  Base(i)' = a.countEval
    <3>1. algo'[i] = a /\ Generations(i)' = 0 /\ Missed(i)' = 0 /\ POPULATION * 0 = 0
      BY <1>2, <1>3, <1>5, ConstantFacts DEF Generations, Missed
    <3>2. QED
      BY <1>4, <3>1 DEF Base
  <2>2. QED
    BY <1>2, <1>3, <1>4, <2>1 DEF EvenInv
<1>11. QED
  BY <1>6, <1>7, <1>8, <1>9, <1>10 DEF IInv

\* buildArchipelago() gives every island a seed of its own.
LEMMA SeedKeepsIInv ==
  ASSUME IInv, SeedIslands
  PROVE  IInv'
<1>1. /\ at = "build" /\ at' = "ready" /\ at \notin Unbuilt /\ at' \notin Unbuilt
      /\ at' \in Built
      /\ \A i \in Islands : pop[i] # ABSENT
      /\ algo' = [i \in Islands |-> set_seed(algo[i], drawn + i)]
      /\ lease' = [e \in Evaluators |-> FREE]
      /\ UNCHANGED <<cycles, it, seed, epoch, device, pop, champion_f, mail,
                     isl, held, threw, missed, job, saved>>
  BY DEF SeedIslands, stopSchedulers, heldVars, Unbuilt, Built
<1>2. drawn = 1 /\ drawn' = 1 + ISLANDS
  BY <1>1 DEF IInv, DrawnInv, SeedIslands
<1>3. ASSUME NEW i \in Islands
      PROVE  /\ isl[i].pc = "idle" /\ job[i].phase = "none" /\ pop[i] \in Populations
             /\ champion_f[i] # ABSENT
             /\ algo[i] \in Searches
             /\ algo'[i] \in Searches
             /\ algo'[i].engine[1] = drawn + i
             /\ algo'[i].countEval = algo[i].countEval
  <2>1. algo[i] \in Searches /\ isl[i].pc = "idle" /\ job[i].phase = "none"
        /\ champion_f[i] # ABSENT
    BY <1>1 DEF IInv, StageInv
  <2>2. pop[i] \in Populations
    BY <1>1 DEF IInv, TypeOK
  <2>3. drawn + i \in Nat
    BY <1>2, ConstantFacts DEF Islands
  <2>4. QED
    BY <1>1, <2>1, <2>2, <2>3, SetSeedFacts
<1>4. TypeOK'
  <2>1. TypeOK
    BY DEF IInv
  <2>2. algo' \in [Islands -> {ABSENT} \cup Searches]
    BY <1>1, <1>3
  <2>3. lease' \in [Evaluators -> Nat \X Nat] /\ drawn' \in Nat
    BY <1>1, <1>2, ConstantFacts DEF FREE
  <2>4. QED
    BY <1>1, <2>1, <2>2, <2>3 DEF TypeOK
<1>5. DrawnInv' /\ SavedInv'
  BY <1>1, <1>2, ConstantFacts, SeedIsNat DEF IInv, TypeOK, DrawnInv, SavedInv
<1>6. ASSUME NEW i \in Islands
      PROVE  StageInv(i)' /\ BatchInv(i)' /\ CurrentInv(i)' /\ PastInv(i)' /\ HeldInv(i)'
  <2>1. PastInv(i)
    BY DEF IInv
  <2>2. QED
    BY <1>1, <1>3, <2>1 DEF StageInv, BatchInv, CurrentInv, PastInv, HeldInv
<1>7. WorkersInv'
  BY <1>1, <1>3 DEF WorkersInv
<1>8. EvenInv'
  <2>1. ASSUME NEW i \in Islands
        PROVE  Base(i)' = Base(i)
    BY <1>1, <1>3 DEF Base, Missed, Generations
  <2>2. EvenInv
    BY DEF IInv
  <2>3. QED
    BY <1>1, <2>1, <2>2 DEF EvenInv
<1>9. SeededInv'
  BY <1>2, <1>3 DEF SeededInv, Islands
<1>10. QED
  BY <1>4, <1>5, <1>6, <1>7, <1>8, <1>9 DEF IInv

\* An iteration wakes every island.
LEMMA IterationKeepsIInv ==
  ASSUME IInv, runIteration
  PROVE  IInv'
<1>1. /\ at = "cycle" /\ at' = "evolving" /\ at \in Built /\ at' \in Built
      /\ at \notin Unbuilt /\ at' \notin Unbuilt
      /\ isl' = [i \in Islands |-> [pc |-> "begin", gen |-> 1]] /\ threw' = {}
      /\ UNCHANGED <<cycles, it, drawn, seed, epoch, lease, device, algo, pop,
                     champion_f, mail, held, missed, job, saved>>
  BY DEF runIteration, poolVars, searchVars, Unbuilt, Built
<1>2. ASSUME NEW i \in Islands
      PROVE  /\ isl[i].pc = "idle" /\ job[i].phase = "none" /\ isl'[i].pc = "begin"
             /\ isl'[i].gen = 1
             /\ algo[i] \in Searches /\ pop[i] \in Populations
             /\ (pop[i] # ABSENT => champion_f[i] # ABSENT)
  BY <1>1, NothingRuns DEF IInv, StageInv
<1>3. TypeOK'
  <2>1. TypeOK
    BY DEF IInv
  <2>2. 1 \in 0..GENS
    BY ConstantFacts
  <2>3. isl' \in [Islands -> [pc : {"idle", "begin", "generation", "evaluating", "ended"},
                              gen : 0..GENS]]
    BY <1>1, <2>2
  <2>4. QED
    BY <1>1, <2>1, <2>3 DEF TypeOK
<1>4. DrawnInv' /\ SavedInv'
  BY <1>1 DEF IInv, DrawnInv, SavedInv
<1>5. ASSUME NEW i \in Islands
      PROVE  StageInv(i)' /\ BatchInv(i)' /\ CurrentInv(i)' /\ PastInv(i)' /\ HeldInv(i)'
  <2>1. PastInv(i)
    BY DEF IInv
  <2>2. QED
    BY <1>1, <1>2, <2>1 DEF StageInv, BatchInv, CurrentInv, PastInv, HeldInv
<1>6. WorkersInv'
  BY <1>1, <1>2 DEF WorkersInv
<1>7. EvenInv'
  <2>1. ASSUME NEW i \in Islands
        PROVE  Base(i)' = Base(i)
    BY <1>1, <1>2 DEF Base, Missed, Generations
  <2>2. EvenInv
    BY DEF IInv
  <2>3. QED
    BY <1>1, <2>1, <2>2 DEF EvenInv
<1>8. SeededInv'
  BY <1>1 DEF IInv, SeededInv
<1>9. QED
  BY <1>3, <1>4, <1>5, <1>6, <1>7, <1>8 DEF IInv

\* wait_check() returns when all islands have run all their generations, or
\* have thrown.
LEMMA WaitKeepsIInv ==
  ASSUME IInv, wait_check
  PROVE  IInv'
<1>1. /\ at = "evolving" /\ at' = "save" /\ at \in Built /\ at' \in Built
      /\ at \notin Unbuilt /\ at' \notin Unbuilt
      /\ \A i \in Islands : isl[i].pc = "ended" /\ isl'[i].pc = "idle"
      /\ isl' = [i \in Islands |-> Idle]
      /\ UNCHANGED <<cycles, it, drawn, seed, epoch, lease, device, algo, pop,
                     champion_f, mail, held, threw, missed, job, saved>>
  BY DEF wait_check, poolVars, searchVars, heldVars, Unbuilt, Built, Idle
<1>2. ASSUME NEW i \in Islands
      PROVE  /\ StageInv(i) /\ CurrentInv(i) /\ PastInv(i)
             /\ algo[i].countEval \in Nat /\ Missed(i) \in Nat
  <2>1. StageInv(i) /\ CurrentInv(i) /\ PastInv(i)
    BY DEF IInv
  <2>2. Missed(i) \in Nat
    BY MissedIsNat DEF IInv, TypeOK, Missed
  <2>3. QED
    BY <1>1, <2>1, <2>2 DEF StageInv, Searches, Algorithms
<1>3. TypeOK'
  <2>1. TypeOK
    BY DEF IInv
  <2>2. isl' \in [Islands -> [pc : {"idle", "begin", "generation", "evaluating", "ended"},
                              gen : 0..GENS]]
    BY <1>1, ConstantFacts DEF Idle
  <2>3. QED
    BY <1>1, <2>1, <2>2 DEF TypeOK
<1>4. DrawnInv' /\ SavedInv'
  BY <1>1 DEF IInv, DrawnInv, SavedInv
<1>5. \A i \in Islands : job[i].phase = "none"
  BY <1>1, <1>2 DEF StageInv
<1>6. ASSUME NEW i \in Islands
      PROVE  StageInv(i)' /\ BatchInv(i)' /\ CurrentInv(i)' /\ PastInv(i)' /\ HeldInv(i)'
  <2>1. StageInv(i)'
    BY <1>1, <1>2, <1>5 DEF StageInv
  <2>2. BatchInv(i)'
    BY <1>1, <1>5 DEF BatchInv
  <2>3. CurrentInv(i)' /\ PastInv(i)' /\ HeldInv(i)'
    BY <1>1, <1>2 DEF CurrentInv, PastInv, HeldInv
  <2>4. QED
    BY <2>1, <2>2, <2>3
<1>7. WorkersInv'
  BY <1>1, <1>5 DEF WorkersInv
<1>8. EvenInv'
  <2> DEFINE step == POPULATION * GENS
  <2>1. step \in Nat
    BY ConstantFacts
  <2>2. ASSUME NEW i \in Islands
        PROVE  Base(i) \in Int /\ Base(i)' = Base(i) + step
    <3>1. /\ Generations(i) = GENS /\ Generations(i)' = 0 /\ POPULATION * 0 = 0
          /\ Missed(i)' = Missed(i)
      BY <1>1, ConstantFacts DEF Generations, Missed
    <3>2. /\ Base(i) = algo[i].countEval + Missed(i) - step
          /\ Base(i)' = algo[i].countEval + Missed(i) - 0
      BY <1>1, <3>1 DEF Base
    <3> HIDE DEF step
    <3>3. QED
      BY <1>2, <2>1, <3>2
  <2> HIDE DEF step
  <2>3. EvenInv
    BY DEF IInv
  <2>4. saved # ABSENT => saved.members["countEval"] \in Nat
    BY DEF IInv, SavedInv, Searches, Algorithms
  <2>5. QED
    BY <1>1, <2>1, <2>2, <2>3, <2>4 DEF EvenInv
<1>9. SeededInv'
  BY <1>1 DEF IInv, SeededInv
<1>10. QED
  BY <1>3, <1>4, <1>6, <1>7, <1>8, <1>9 DEF IInv
-----------------------------------------------------------------------------
(* The steps of one island. *)

\* A step of one island leaves the others where they were.
LEMMA IslandStep ==
  ASSUME IInv, NEW i \in Islands,
         UNCHANGED <<processVars, poolVars, saved>>,
         \A j \in Islands : j # i =>
           /\ algo'[j] = algo[j] /\ pop'[j] = pop[j] /\ champion_f'[j] = champion_f[j]
           /\ mail'[j] = mail[j] /\ isl'[j] = isl[j] /\ job'[j] = job[j]
           /\ held'[j] = held[j] /\ missed'[j] = missed[j]
           /\ j \in threw' <=> j \in threw,
         TypeOK', StageInv(i)', BatchInv(i)', CurrentInv(i)', PastInv(i)', HeldInv(i)',
         job'[i].phase # "uploaded",
         algo'[i].engine[1] = algo[i].engine[1],
         Base(i)' = Base(i)
  PROVE  IInv'
<1>1. UNCHANGED <<at, cycles, it, drawn, seed, epoch, up, lease, device, saved>>
  BY DEF processVars, poolVars
<1>2. DrawnInv' /\ SavedInv'
  BY <1>1 DEF IInv, DrawnInv, SavedInv
<1>3. ASSUME NEW j \in Islands
      PROVE  StageInv(j)' /\ BatchInv(j)' /\ CurrentInv(j)' /\ PastInv(j)' /\ HeldInv(j)'
  <2>1. CASE j = i
    BY <2>1
  <2>2. CASE j # i
    <3>1. StageInv(j) /\ BatchInv(j) /\ CurrentInv(j) /\ PastInv(j) /\ HeldInv(j)
      BY DEF IInv
    <3>2. StageInv(j)'
      BY <1>1, <2>2, <3>1 DEF StageInv
    <3>3. BatchInv(j)'
      BY <1>1, <2>2, <3>1 DEF BatchInv, Thread
    <3>4. CurrentInv(j)'
      BY <1>1, <2>2, <3>1 DEF CurrentInv
    <3>5. PastInv(j)'
      BY <1>1, <2>2, <3>1 DEF PastInv
    <3>6. Missed(j)' = Missed(j) /\ Base(j)' = Base(j)
      BY <2>2 DEF Missed, Base, Generations
    <3>7. HeldInv(j)'
      BY <1>1, <2>2, <3>1, <3>6 DEF HeldInv
    <3>8. QED
      BY <3>2, <3>3, <3>4, <3>5, <3>7
  <2>3. QED
    BY <2>1, <2>2
<1>4. WorkersInv'
  <2>1. WorkersInv
    BY DEF IInv
  <2>2. QED
    BY <2>1 DEF WorkersInv
<1>5. EvenInv'
  <2>1. \A j \in Islands : Base(j)' = Base(j)
    BY DEF Base, Missed, Generations
  <2>2. EvenInv
    BY DEF IInv
  <2>3. QED
    BY <1>1, <2>1, <2>2 DEF EvenInv
<1>6. SeededInv'
  <2>1. SeededInv
    BY DEF IInv
  <2>2. \A j \in Islands : algo'[j].engine[1] = algo[j].engine[1]
    OBVIOUS
  <2>3. QED
    BY <1>1, <2>1, <2>2 DEF SeededInv
<1>7. QED
  BY <1>2, <1>3, <1>4, <1>5, <1>6 DEF IInv

\* What an island holds afterwards.
LEMMA HoldsFacts ==
  ASSUME TypeOK, NEW i \in Islands, NEW p \in Populations, Holds(i, p)
  PROVE  /\ pop' \in [Islands -> {ABSENT} \cup Populations]
         /\ champion_f' \in [Islands -> {ABSENT} \cup [1..1 -> Int]]
         /\ pop'[i] = p /\ champion_f'[i] # ABSENT
         /\ champion_f'[i] \in [1..1 -> Int]
         /\ \A j \in Islands : j # i => pop'[j] = pop[j] /\ champion_f'[j] = champion_f[j]
<1> DEFINE c == <<Min(ToSet(champion_f[i]) \cup {p[best_idx(p)].f})>>
<1>1. c \in [1..1 -> Int]
  BY ChampionIsInt DEF TypeOK
<1>2. pop' = [pop EXCEPT ![i] = p] /\ champion_f' = [champion_f EXCEPT ![i] = c]
  BY DEF Holds
<1> HIDE DEF c
<1>3. c # ABSENT
  <2>1. 1 \in DOMAIN c /\ 1 \notin DOMAIN ABSENT
    BY <1>1 DEF ABSENT
  <2>2. QED
    BY <2>1
<1>4. QED
  BY <1>1, <1>2, <1>3 DEF TypeOK

\* The population a batch that came back makes: its models with the fitness
\* they have this cycle.
LEMMA DoneFacts ==
  ASSUME IInv, NEW i \in Islands, job[i].phase = "done"
  PROVE  LET p == [k \in Individuals |-> [x |-> job[i].batch[k], f |-> job[i].means[k]]]
         IN  /\ p \in Populations
             /\ \A k \in Individuals : p[k].f = FitnessOf(p[k].x, seed)
             /\ Past(p, seed)
<1>1. job[i] \in Jobs /\ BatchInv(i)
  BY DEF IInv, TypeOK
<1>2. job[i] \in [phase : {"done"}, batch : Batches, means : [Individuals -> Int]]
  BY <1>1 DEF Jobs, NONE
<1>3. \A k \in Individuals : job[i].batch[k] \in Models /\ job[i].means[k] \in Int
  BY <1>2 DEF Models
<1>4. \A k \in Individuals : job[i].means[k] = FitnessOf(job[i].batch[k], seed)
  BY <1>1 DEF BatchInv
<1> DEFINE p == [k \in Individuals |-> [x |-> job[i].batch[k], f |-> job[i].means[k]]]
<1>5. p \in Populations /\ \A k \in Individuals : p[k].f = FitnessOf(p[k].x, seed)
  BY <1>3, <1>4 DEF Populations, Individual
<1> HIDE DEF p
<1>6. seed \in 0..seed
  BY SeedIsNat
<1>7. Past(p, seed)
  BY <1>5, <1>6 DEF Past, Scored
<1>8. QED
  BY <1>5, <1>7 DEF p

\* The archipelago's constructor, island by island.
LEMMA ConstructKeepsIInv ==
  ASSUME IInv, NEW i \in Islands, ConstructIsland(i)
  PROVE  IInv'
<1>1. /\ at = "build" /\ at \notin Unbuilt /\ at \notin Built /\ pop[i] = ABSENT
      /\ UNCHANGED <<processVars, poolVars, algo, mail, isl, saved>>
  BY DEF ConstructIsland, Unbuilt, Built
<1>2. UNCHANGED <<at, cycles, it, drawn, seed, epoch, up, lease, device, held, threw, missed>>
  BY <1>1 DEF processVars, poolVars, heldVars, ConstructIsland
<1>3. TypeOK /\ StageInv(i) /\ PastInv(i)
  BY DEF IInv
<1>4. isl[i].pc = "idle" /\ algo[i] \in Searches
  BY <1>1, <1>3 DEF StageInv
<1>5. Base(i)' = Base(i)
  BY <1>1, <1>2 DEF Base, Missed, Generations
<1>6. CASE /\ \E b \in Sampling[i] : job' = [job EXCEPT ![i] = Queued(b)]
           /\ UNCHANGED <<pop, champion_f>>
  <2>1. PICK b \in Batches : job' = [job EXCEPT ![i] = Queued(b)]
    BY <1>6, SampledBatches
  <2>2. Queued(b) \in Jobs /\ Queued(b).phase = "queued"
    BY DEF Queued, Jobs
  <2>3. /\ job' \in [Islands -> Jobs] /\ job'[i].phase = "queued"
        /\ \A j \in Islands : j # i => job'[j] = job[j]
    BY <1>3, <2>1, <2>2 DEF TypeOK
  <2>4. TypeOK'
    BY <1>1, <1>2, <1>3, <1>6, <2>3 DEF TypeOK
  <2>5. StageInv(i)'
    BY <1>1, <1>2, <1>3, <1>4, <1>6, <2>3 DEF StageInv
  <2>6. BatchInv(i)' /\ CurrentInv(i)' /\ PastInv(i)' /\ HeldInv(i)'
    BY <1>1, <1>2, <1>3, <1>4, <1>6, <2>3 DEF BatchInv, CurrentInv, PastInv, HeldInv
  <2>7. QED
    BY <1>1, <1>2, <1>5, <1>6, <2>3, <2>4, <2>5, <2>6, IslandStep
<1>7. CASE /\ job[i].phase = "done"
           /\ Holds(i, [k \in Individuals |-> [x |-> job[i].batch[k], f |-> job[i].means[k]]])
           /\ job' = [job EXCEPT ![i] = NONE]
  <2> DEFINE p == [k \in Individuals |-> [x |-> job[i].batch[k], f |-> job[i].means[k]]]
  <2>1. p \in Populations /\ Past(p, seed) /\ Holds(i, p)
    BY <1>7, DoneFacts
  <2> HIDE DEF p
  <2>2. /\ pop' \in [Islands -> {ABSENT} \cup Populations]
        /\ champion_f' \in [Islands -> {ABSENT} \cup [1..1 -> Int]]
        /\ pop'[i] = p /\ champion_f'[i] # ABSENT
        /\ \A j \in Islands : j # i => pop'[j] = pop[j] /\ champion_f'[j] = champion_f[j]
    BY <1>3, <2>1, HoldsFacts
  <2>3. NONE \in Jobs /\ NONE.phase = "none"
    BY DEF Jobs, NONE
  <2>4. /\ job' \in [Islands -> Jobs] /\ job'[i].phase = "none"
        /\ \A j \in Islands : j # i => job'[j] = job[j]
    BY <1>3, <1>7, <2>3 DEF TypeOK
  <2>5. TypeOK'
    BY <1>1, <1>2, <1>3, <2>2, <2>4 DEF TypeOK
  <2>6. StageInv(i)'
    BY <1>1, <1>2, <1>3, <1>4, <2>1, <2>2, <2>4 DEF StageInv
  <2>7. BatchInv(i)' /\ CurrentInv(i)' /\ PastInv(i)' /\ HeldInv(i)'
    BY <1>1, <1>2, <1>3, <1>4, <2>1, <2>2, <2>4 DEF BatchInv, CurrentInv, PastInv, HeldInv
  <2>8. QED
    BY <1>1, <1>2, <1>5, <2>2, <2>4, <2>5, <2>6, <2>7, IslandStep
<1>8. QED
  BY <1>6, <1>7 DEF ConstructIsland

\* An island is evolving only while the trainer waits for it.
LEMMA EvolvingFacts ==
  ASSUME IInv, NEW i \in Islands, isl[i].pc # "idle"
  PROVE  /\ at = "evolving" /\ at \in Built /\ at \notin Unbuilt
         /\ algo[i] \in Searches /\ pop[i] \in Populations /\ pop[i] # ABSENT
         /\ champion_f[i] # ABSENT
         /\ isl[i].gen \in 0..GENS
<1>1. StageInv(i)
  BY DEF IInv
<1>2. at = "evolving"
  BY <1>1 DEF StageInv
<1>3. at \in Built /\ at \notin Unbuilt
  BY <1>2 DEF Built, Unbuilt
<1>4. algo[i] \in Searches /\ pop[i] \in Populations
  BY <1>1, <1>3 DEF StageInv
<1>5. pop[i] # ABSENT
  BY <1>4, PopulationPresent
<1>6. QED
  BY <1>1, <1>2, <1>3, <1>4, <1>5 DEF StageInv, IInv, TypeOK

\* A migrant is an individual of a neighbour, and immigration keeps a
\* population one of fitnesses of this process.
LEMMA ImmigrateFacts ==
  ASSUME IInv, NEW i \in Islands, NEW m \in Migrants(i), NEW p \in Populations,
         Past(p, seed)
  PROVE  Immigrate(p, m) \in Populations /\ Past(Immigrate(p, m), seed)
<1>1. Neighbours(i) \subseteq Islands
  <2>1. \A n \in Nat \ {0}, k \in Nat : (k % n) + 1 \in 1..n
    OBVIOUS
  <2>2. ISLANDS \in Nat \ {0} /\ i \in Nat /\ i + ISLANDS - 2 \in Nat
    BY ConstantFacts DEF Islands
  <2>3. (i % ISLANDS) + 1 \in Islands /\ ((i + ISLANDS - 2) % ISLANDS) + 1 \in Islands
    BY <2>1, <2>2 DEF Islands
  <2>4. QED
    BY <2>3 DEF Neighbours
<1>2. m \in {ABSENT} \cup Individual /\ (m # ABSENT => Scored(m, seed))
  BY <1>1 DEF IInv, TypeOK, PastInv, Migrants
<1>3. CASE m = ABSENT
  BY <1>3 DEF Immigrate
<1>4. CASE m \in Individual /\ m # ABSENT
  <2>1. CASE Immigrate(p, m) = p
    BY <2>1
  <2>2. CASE Immigrate(p, m) = [p EXCEPT ![worst_idx(p)] = m]
    <3> DEFINE q == [p EXCEPT ![worst_idx(p)] = m]
    <3>1. q \in Populations
      BY <1>4 DEF Populations
    <3>2. \A k \in Individuals : q[k] \in {p[k], m}
      BY DEF Populations
    <3> HIDE DEF q
    <3>3. Past(q, seed)
      BY <1>2, <1>4, <3>2 DEF Past
    <3>4. QED
      BY <2>2, <3>1, <3>3 DEF q
  <2>3. QED
    BY <2>1, <2>2 DEF Immigrate
<1>5. QED
  BY <1>2, <1>3, <1>4

\* An evolution begins: a migrant settles, and the search is resumed.
LEMMA BeginKeepsIInv ==
  ASSUME IInv, NEW i \in Islands, BeginEvolution(i)
  PROVE  IInv'
<1>1. /\ isl[i].pc = "begin"
      /\ UNCHANGED <<processVars, poolVars, mail, job, saved>>
      /\ algo' = [algo EXCEPT ![i] = resetState(algo[i])]
      /\ isl' = [isl EXCEPT ![i].pc = "generation"]
  BY DEF BeginEvolution
<1>2. UNCHANGED <<at, cycles, it, drawn, seed, epoch, up, lease, device, threw, missed>>
  BY <1>1 DEF processVars, poolVars, BeginEvolution
<1>3. TypeOK /\ StageInv(i) /\ PastInv(i)
  BY DEF IInv
<1>4. /\ at = "evolving" /\ at \in Built /\ at \notin Unbuilt
      /\ algo[i] \in Searches /\ pop[i] \in Populations /\ isl[i].gen \in 0..GENS
      /\ Past(pop[i], seed)
  BY <1>1, <1>3, EvolvingFacts DEF PastInv
<1>5. PICK m \in Migrants(i) : Holds(i, Immigrate(pop[i], m))
  BY DEF BeginEvolution
<1> DEFINE p == Immigrate(pop[i], m)
<1>6. p \in Populations /\ Past(p, seed) /\ Holds(i, p)
  BY <1>4, <1>5, ImmigrateFacts
<1> HIDE DEF p
<1>7. /\ pop' \in [Islands -> {ABSENT} \cup Populations]
      /\ champion_f' \in [Islands -> {ABSENT} \cup [1..1 -> Int]]
      /\ pop'[i] = p /\ champion_f'[i] # ABSENT
      /\ champion_f'[i] \in [1..1 -> Int]
      /\ \A j \in Islands : j # i => pop'[j] = pop[j] /\ champion_f'[j] = champion_f[j]
  BY <1>3, <1>6, HoldsFacts
<1>8. /\ algo'[i] \in Searches /\ algo'[i].engine = algo[i].engine
      /\ algo'[i].countEval = algo[i].countEval /\ algo'[i].cols = POPULATION
      /\ algo' \in [Islands -> {ABSENT} \cup Searches]
      /\ \A j \in Islands : j # i => algo'[j] = algo[j]
  <2>1. algo'[i] = resetState(algo[i])
    BY <1>1, <1>3 DEF TypeOK
  <2>2. /\ resetState(algo[i]) \in Searches
        /\ resetState(algo[i]).engine = algo[i].engine
        /\ resetState(algo[i]).countEval = algo[i].countEval
        /\ resetState(algo[i]).cols = POPULATION
    BY <1>4, ResetFacts
  <2>3. QED
    BY <1>1, <1>3, <2>1, <2>2 DEF TypeOK
<1>9. /\ isl'[i].pc = "generation" /\ isl'[i].gen = isl[i].gen
      /\ isl' \in [Islands -> [pc : {"idle", "begin", "generation", "evaluating", "ended"},
                               gen : 0..GENS]]
      /\ \A j \in Islands : j # i => isl'[j] = isl[j]
  BY <1>1, <1>3 DEF TypeOK
<1>10. job[i].phase = "none" /\ isl[i].gen >= 1
  BY <1>1, <1>3, <1>4 DEF StageInv
<1> DEFINE h == [algo |-> algo[i], pop |-> p, champion_f |-> champion_f'[i]]
<1>11. /\ h \in Holdings /\ held'[i] = h
       /\ held' \in [Islands -> {ABSENT} \cup Holdings]
       /\ \A j \in Islands : j # i => held'[j] = held[j]
  <2>1. h \in Holdings
    BY <1>4, <1>6, <1>7 DEF Holdings
  <2>2. held' = [held EXCEPT ![i] = h]
    BY <1>7 DEF BeginEvolution
  <2> HIDE DEF h
  <2>3. QED
    BY <1>3, <2>1, <2>2 DEF TypeOK
<1>12. h.algo = algo[i] /\ h.pop = p
  OBVIOUS
<1> HIDE DEF h
<1>13. TypeOK'
  BY <1>1, <1>2, <1>3, <1>7, <1>8, <1>9, <1>11 DEF TypeOK
<1>14. StageInv(i)'
  BY <1>1, <1>2, <1>4, <1>6, <1>7, <1>8, <1>9, <1>10 DEF StageInv
<1>15. BatchInv(i)' /\ CurrentInv(i)' /\ PastInv(i)'
  BY <1>1, <1>2, <1>3, <1>4, <1>6, <1>7, <1>9, <1>10 DEF BatchInv, CurrentInv, PastInv
<1>16. Base(i)' = Base(i) /\ Missed(i)' = Missed(i)
  BY <1>1, <1>2, <1>8, <1>9 DEF Base, Missed, Generations
<1>17. HeldInv(i)'
  <2>1. isl[i].gen = 1
    BY <1>1, <1>3 DEF StageInv
  <2>2. algo[i].countEval \in Nat /\ Missed(i) \in Nat
    BY <1>3, <1>4, MissedIsNat DEF Searches, Algorithms, TypeOK, Missed
  <2>3. Generations(i) = 0 /\ POPULATION * 0 = 0
    BY <1>1, <2>1, ConstantFacts DEF Generations
  <2>4. algo[i].countEval + Missed(i) = Base(i)
    BY <2>2, <2>3 DEF Base
  <2>5. QED
    BY <1>2, <1>6, <1>8, <1>11, <1>12, <1>16, <2>4 DEF HeldInv
<1>18. QED
  BY <1>1, <1>2, <1>7, <1>8, <1>9, <1>10, <1>11, <1>13, <1>14, <1>15, <1>16, <1>17, IslandStep

\* The head of a generation: never an exit, always a batch.
LEMMA GenerationKeepsIInv ==
  ASSUME IInv, NEW i \in Islands, Generation(i)
  PROVE  IInv'
<1>1. /\ isl[i].pc = "generation"
      /\ UNCHANGED <<processVars, poolVars, pop, champion_f, saved>>
      /\ algo' = [algo EXCEPT ![i] = Sampled(algo[i])]
  BY DEF Generation
<1>2. UNCHANGED <<at, cycles, it, drawn, seed, epoch, up, lease, device, threw, missed>>
  BY <1>1 DEF processVars, poolVars, Generation
<1>3. TypeOK /\ StageInv(i) /\ PastInv(i) /\ HeldInv(i)
  BY DEF IInv
<1>4. /\ at = "evolving" /\ at \in Built /\ at \notin Unbuilt
      /\ algo[i] \in Searches /\ pop[i] \in Populations /\ champion_f[i] # ABSENT
      /\ isl[i].gen \in 0..GENS /\ isl[i].gen >= 1 /\ algo[i].cols = POPULATION
  BY <1>1, <1>3, EvolvingFacts DEF StageInv
<1>5. PICK b \in Batches : /\ isl' = [isl EXCEPT ![i].pc = "evaluating"]
                           /\ job' = [job EXCEPT ![i] = Queued(b)]
                           /\ UNCHANGED <<mail, held>>
  <2>1. \A dx \in 0..1 : ~Exits(algo[i], pop[i], dx)
    BY <1>4, NeverExits
  <2>2. QED
    BY <2>1, SampledBatches DEF Generation
<1>6. /\ algo'[i] \in Searches /\ algo'[i].engine[1] = algo[i].engine[1]
      /\ algo'[i].countEval = algo[i].countEval /\ algo'[i].cols = POPULATION
      /\ algo' \in [Islands -> {ABSENT} \cup Searches]
      /\ \A j \in Islands : j # i => algo'[j] = algo[j]
  <2>1. algo'[i] = Sampled(algo[i])
    BY <1>1, <1>3 DEF TypeOK
  <2>2. /\ Sampled(algo[i]) \in Searches
        /\ Sampled(algo[i]).engine[1] = algo[i].engine[1]
        /\ Sampled(algo[i]).countEval = algo[i].countEval
        /\ Sampled(algo[i]).cols = algo[i].cols
    BY <1>4, SampledFacts
  <2>3. QED
    BY <1>1, <1>3, <1>4, <2>1, <2>2 DEF TypeOK
<1>7. /\ isl'[i].pc = "evaluating" /\ isl'[i].gen = isl[i].gen
      /\ isl' \in [Islands -> [pc : {"idle", "begin", "generation", "evaluating", "ended"},
                               gen : 0..GENS]]
      /\ \A j \in Islands : j # i => isl'[j] = isl[j]
  BY <1>3, <1>5 DEF TypeOK
<1>8. Queued(b) \in Jobs /\ Queued(b).phase = "queued"
  BY DEF Queued, Jobs
<1>9. /\ job' \in [Islands -> Jobs] /\ job'[i].phase = "queued"
      /\ \A j \in Islands : j # i => job'[j] = job[j]
  BY <1>3, <1>5, <1>8 DEF TypeOK
<1>10. TypeOK'
  BY <1>1, <1>2, <1>3, <1>5, <1>6, <1>7, <1>9 DEF TypeOK
<1>11. StageInv(i)'
  BY <1>1, <1>2, <1>4, <1>6, <1>7, <1>9 DEF StageInv
<1>12. BatchInv(i)' /\ CurrentInv(i)' /\ PastInv(i)'
  BY <1>1, <1>2, <1>3, <1>4, <1>5, <1>7, <1>9 DEF BatchInv, CurrentInv, PastInv
<1>13. Base(i)' = Base(i) /\ Missed(i)' = Missed(i)
  BY <1>1, <1>2, <1>6, <1>7 DEF Base, Missed, Generations
<1>14. HeldInv(i)'
  BY <1>1, <1>2, <1>3, <1>5, <1>6, <1>13 DEF HeldInv
<1>15. QED
  BY <1>1, <1>2, <1>5, <1>6, <1>7, <1>9, <1>10, <1>11, <1>12, <1>13, <1>14, IslandStep

\* The rest of it: the fitness of the batch that came back ranks the
\* population, and the generation is counted.
LEMMA AdaptKeepsIInv ==
  ASSUME IInv, NEW i \in Islands, Adapt(i)
  PROVE  IInv'
<1> DEFINE p == [k \in Individuals |-> [x |-> job[i].batch[k], f |-> job[i].means[k]]]
<1>1. /\ isl[i].pc = "evaluating" /\ job[i].phase = "done"
      /\ UNCHANGED <<processVars, poolVars, saved>>
      /\ Holds(i, p)
      /\ job' = [job EXCEPT ![i] = NONE]
  BY DEF Adapt
<1>2. UNCHANGED <<at, cycles, it, drawn, seed, epoch, up, lease, device, threw, missed>>
  BY <1>1 DEF processVars, poolVars, Adapt
<1>3. TypeOK /\ StageInv(i) /\ PastInv(i) /\ HeldInv(i)
  BY DEF IInv
<1>4. /\ at = "evolving" /\ at \in Built /\ at \notin Unbuilt
      /\ algo[i] \in Searches
      /\ isl[i].gen \in 0..GENS /\ isl[i].gen >= 1 /\ algo[i].cols = POPULATION
  BY <1>1, <1>3, EvolvingFacts DEF StageInv
<1>5. /\ p \in Populations /\ \A k \in Individuals : p[k].f = FitnessOf(p[k].x, seed)
      /\ Past(p, seed)
  BY <1>1, DoneFacts
<1>6. algo[i].gen = GENS /\ algo[i].countEval \in Nat
  BY <1>4 DEF Searches, Algorithms
<1>7. \/ /\ isl[i].gen < GENS
         /\ isl' = [isl EXCEPT ![i] = [pc |-> "generation", gen |-> isl[i].gen + 1]]
         /\ UNCHANGED <<mail, held>>
      \/ /\ isl[i].gen = GENS
         /\ isl' = [isl EXCEPT ![i].pc = "ended"]
         /\ Sends(i, p)
  BY <1>6 DEF Adapt
<1> HIDE DEF p
<1>8. /\ pop' \in [Islands -> {ABSENT} \cup Populations]
      /\ champion_f' \in [Islands -> {ABSENT} \cup [1..1 -> Int]]
      /\ pop'[i] = p /\ champion_f'[i] # ABSENT
      /\ \A j \in Islands : j # i => pop'[j] = pop[j] /\ champion_f'[j] = champion_f[j]
  BY <1>1, <1>3, <1>5, HoldsFacts
<1>9. /\ algo'[i] \in Searches /\ algo'[i].engine = algo[i].engine
      /\ algo'[i].countEval = algo[i].countEval + POPULATION /\ algo'[i].cols = POPULATION
      /\ algo' \in [Islands -> {ABSENT} \cup Searches]
      /\ \A j \in Islands : j # i => algo'[j] = algo[j]
  <2>1. PICK decomposes \in BOOLEAN : algo' = [algo EXCEPT ![i] = Adapted(algo[i], decomposes)]
    BY DEF Adapt
  <2>2. algo'[i] = Adapted(algo[i], decomposes)
    BY <1>3, <2>1 DEF TypeOK
  <2>3. /\ Adapted(algo[i], decomposes) \in Searches
        /\ Adapted(algo[i], decomposes).engine = algo[i].engine
        /\ Adapted(algo[i], decomposes).countEval = algo[i].countEval + POPULATION
        /\ Adapted(algo[i], decomposes).cols = POPULATION
    BY <1>4, AdaptedFacts
  <2>4. QED
    BY <1>3, <2>1, <2>2, <2>3 DEF TypeOK
<1>10. NONE \in Jobs /\ NONE.phase = "none"
  BY DEF Jobs, NONE
<1>11. /\ job' \in [Islands -> Jobs] /\ job'[i].phase = "none"
       /\ \A j \in Islands : j # i => job'[j] = job[j]
  BY <1>1, <1>3, <1>10 DEF TypeOK
<1>12. /\ isl' \in [Islands -> [pc : {"idle", "begin", "generation", "evaluating", "ended"},
                                gen : 0..GENS]]
       /\ \A j \in Islands : j # i => isl'[j] = isl[j]
       /\ isl'[i].pc \in {"generation", "ended"}
       /\ isl'[i].gen >= 1
       /\ isl'[i].pc = "generation" => isl'[i].gen = isl[i].gen + 1
       /\ isl'[i].pc = "ended" => isl[i].gen = GENS
  <2>1. CASE isl[i].gen < GENS /\ isl' = [isl EXCEPT ![i] = [pc |-> "generation", gen |-> isl[i].gen + 1]]
    <3>1. isl[i].gen + 1 \in 0..GENS /\ isl[i].gen + 1 >= 1
      BY <1>4, <2>1, ConstantFacts
    <3>2. QED
      BY <1>3, <2>1, <3>1 DEF TypeOK
  <2>2. CASE isl[i].gen = GENS /\ isl' = [isl EXCEPT ![i].pc = "ended"]
    BY <1>3, <1>4, <2>2 DEF TypeOK
  <2>3. QED
    BY <1>7, <2>1, <2>2
<1>13. /\ mail' \in [Islands -> {ABSENT} \cup Individual]
       /\ mail'[i] # ABSENT => Scored(mail'[i], seed)
       /\ held' \in [Islands -> {ABSENT} \cup Holdings]
       /\ \A j \in Islands : j # i => mail'[j] = mail[j] /\ held'[j] = held[j]
       /\ isl'[i].pc = "generation" => held' = held
  <2>1. p[best_idx(p)] \in Individual /\ Scored(p[best_idx(p)], seed)
    BY <1>5, BestExists DEF Populations, Past
  <2>2. CASE isl' = [isl EXCEPT ![i] = [pc |-> "generation", gen |-> isl[i].gen + 1]]
             /\ UNCHANGED <<mail, held>>
    BY <1>3, <2>2 DEF TypeOK, PastInv
  <2>3. CASE isl' = [isl EXCEPT ![i].pc = "ended"] /\ Sends(i, p)
    <3> DEFINE m == p[best_idx(p)]
    <3>1. mail' = [mail EXCEPT ![i] = m] /\ held' = [held EXCEPT ![i] = ABSENT]
      BY <2>3 DEF Sends
    <3>2. m \in Individual /\ Scored(m, seed) /\ isl'[i].pc = "ended"
      BY <1>3, <2>1, <2>3 DEF TypeOK
    <3> HIDE DEF m
    <3>3. QED
      BY <1>3, <3>1, <3>2 DEF TypeOK
  <2>4. QED
    BY <1>7, <2>2, <2>3
<1>14. TypeOK'
  BY <1>1, <1>2, <1>3, <1>8, <1>9, <1>11, <1>12, <1>13 DEF TypeOK
<1>15. StageInv(i)'
  BY <1>2, <1>4, <1>5, <1>8, <1>9, <1>11, <1>12 DEF StageInv
<1>16. BatchInv(i)' /\ CurrentInv(i)' /\ PastInv(i)'
  BY <1>2, <1>4, <1>5, <1>8, <1>11, <1>13 DEF BatchInv, CurrentInv, PastInv
<1>17. Base(i)' = Base(i) /\ Missed(i)' = Missed(i)
  <2> DEFINE g == isl[i].gen
             n == algo[i].countEval
             m == Missed(i)
  <2>1. Generations(i) = g - 1 /\ Generations(i)' = g
    BY <1>1, <1>4, <1>12, ConstantFacts DEF Generations
  <2>2. /\ Missed(i)' = m
        /\ Base(i) = n + m - POPULATION * (g - 1)
        /\ Base(i)' = (n + POPULATION) + m - POPULATION * g
    BY <1>2, <1>9, <2>1 DEF Base, Missed
  <2>3. g \in Nat /\ g >= 1 /\ n \in Nat /\ POPULATION \in Nat /\ m \in Nat
    <3>1. m \in Nat
      BY <1>3, MissedIsNat DEF TypeOK, Missed
    <3> HIDE DEF m
    <3>2. QED
      BY <1>4, <1>6, <3>1, ConstantFacts
  <2> HIDE DEF g, n, m
  <2>4. POPULATION * (g - 1) = POPULATION * g - POPULATION /\ POPULATION * g \in Nat
    BY <2>3
  <2>5. Base(i)' = Base(i)
    BY <2>2, <2>3, <2>4
  <2>6. QED
    BY <2>2, <2>5 DEF m
<1>18. HeldInv(i)'
  BY <1>1, <1>2, <1>3, <1>9, <1>12, <1>13, <1>17 DEF HeldInv
<1>19. QED
  BY <1>1, <1>2, <1>8, <1>9, <1>11, <1>12, <1>13, <1>14, <1>15, <1>16, <1>17, <1>18, IslandStep

\* An evolution throws: the island is what it was when it began, one iteration
\* behind.
LEMMA ThrowKeepsIInv ==
  ASSUME IInv, NEW i \in Islands, IslandThrows(i)
  PROVE  IInv'
<1> DEFINE h == held[i]
<1>1. /\ isl[i].pc \in {"generation", "evaluating"}
      /\ algo' = [algo EXCEPT ![i] = h.algo]
      /\ pop' = [pop EXCEPT ![i] = h.pop]
      /\ champion_f' = [champion_f EXCEPT ![i] = h.champion_f]
      /\ held' = [held EXCEPT ![i] = ABSENT]
      /\ threw' = threw \cup {i}
      /\ missed' = [missed EXCEPT ![i] = missed[i] + 1]
      /\ isl' = [isl EXCEPT ![i].pc = "ended"]
      /\ job' = [job EXCEPT ![i] = NONE]
      /\ UNCHANGED <<processVars, poolVars, mail, saved>>
  BY DEF IslandThrows
<1>2. UNCHANGED <<at, cycles, it, drawn, seed, epoch, up, lease, device>>
  BY <1>1 DEF processVars, poolVars
<1>3. TypeOK /\ StageInv(i) /\ PastInv(i)
  BY DEF IInv
<1>4. /\ at = "evolving" /\ at \in Built /\ at \notin Unbuilt
      /\ isl[i].gen \in 0..GENS
  BY <1>1, EvolvingFacts
<1>5. /\ h \in Holdings /\ Past(h.pop, seed)
      /\ h.algo.engine[1] = algo[i].engine[1]
      /\ h.algo.countEval + Missed(i) = Base(i)
  BY <1>1 DEF IInv, HeldInv
<1> HIDE DEF h
<1>6. h.algo \in Searches /\ h.pop \in Populations /\ h.champion_f \in [1..1 -> Int]
  BY <1>5 DEF Holdings
<1>7. h.pop # ABSENT /\ h.champion_f # ABSENT /\ h.algo.countEval \in Nat
  <2>1. 1 \in DOMAIN h.champion_f /\ 1 \notin DOMAIN ABSENT
    BY <1>6 DEF ABSENT
  <2>2. h.champion_f # ABSENT
    BY <2>1
  <2>3. QED
    BY <1>6, <2>2, PopulationPresent DEF Searches, Algorithms
<1>8. NONE \in Jobs /\ NONE.phase = "none"
  BY DEF Jobs, NONE
<1>9. /\ algo'[i] = h.algo /\ algo' \in [Islands -> {ABSENT} \cup Searches]
      /\ pop'[i] = h.pop /\ pop' \in [Islands -> {ABSENT} \cup Populations]
      /\ champion_f'[i] = h.champion_f
      /\ champion_f' \in [Islands -> {ABSENT} \cup [1..1 -> Int]]
      /\ \A j \in Islands : j # i =>
           algo'[j] = algo[j] /\ pop'[j] = pop[j] /\ champion_f'[j] = champion_f[j]
  BY <1>1, <1>3, <1>6 DEF TypeOK
<1>10. /\ isl'[i].pc = "ended"
       /\ isl' \in [Islands -> [pc : {"idle", "begin", "generation", "evaluating", "ended"},
                                gen : 0..GENS]]
       /\ held' \in [Islands -> {ABSENT} \cup Holdings]
       /\ \A j \in Islands : j # i => isl'[j] = isl[j] /\ held'[j] = held[j]
  BY <1>1, <1>3 DEF TypeOK
<1>11. /\ job'[i].phase = "none" /\ job' \in [Islands -> Jobs]
       /\ \A j \in Islands : j # i => job'[j] = job[j]
  BY <1>1, <1>3, <1>8 DEF TypeOK
<1>12. /\ missed'[i] = missed[i] + 1 /\ missed' \in [Islands -> Nat]
       /\ i \in threw' /\ threw' \subseteq Islands
       /\ \A j \in Islands : j # i => missed'[j] = missed[j] /\ (j \in threw' <=> j \in threw)
  BY <1>1, <1>3 DEF TypeOK
<1>13. TypeOK'
  BY <1>1, <1>2, <1>3, <1>9, <1>10, <1>11, <1>12 DEF TypeOK
<1>14. StageInv(i)'
  BY <1>2, <1>4, <1>6, <1>7, <1>9, <1>10, <1>11 DEF StageInv
<1>15. BatchInv(i)' /\ CurrentInv(i)' /\ PastInv(i)' /\ HeldInv(i)'
  BY <1>1, <1>2, <1>3, <1>5, <1>9, <1>10, <1>11, <1>12
     DEF BatchInv, CurrentInv, PastInv, HeldInv
<1>16. Base(i)' = Base(i)
  <2> DEFINE step == POPULATION * GENS
             n == h.algo.countEval
             m == Missed(i)
  <2>1. step \in Nat /\ m \in Nat /\ Missed(i)' = m + step
    BY <1>3, <1>12, MissedIsNat DEF TypeOK, Missed
  <2>2. Base(i)' = n + Missed(i)' - step
    BY <1>9, <1>10 DEF Base, Generations
  <2>3. n + m = Base(i) /\ n \in Nat
    BY <1>5, <1>7
  <2> HIDE DEF step, n, m
  <2>4. QED
    BY <2>1, <2>2, <2>3
<1>17. QED
  BY <1>1, <1>5, <1>9, <1>10, <1>11, <1>12, <1>13, <1>14, <1>15, <1>16, IslandStep
-----------------------------------------------------------------------------
(* The steps of one worker: a batch and an evaluator. *)

\* A step that moves one batch on one evaluator leaves the other batches and
\* theirs, and the islands, where they were.
LEMMA PoolStep ==
  ASSUME IInv, NEW i \in Islands, NEW e \in Evaluators,
         UNCHANGED <<processVars, epoch, searchVars, heldVars, isl, saved>>,
         \A d \in Evaluators : d # e => lease'[d] = lease[d] /\ device'[d] = device[d],
         \A j \in Islands : j # i => job'[j] = job[j],
         lease' \in [Evaluators -> Nat \X Nat], device' \in [Evaluators -> Devices],
         job' \in [Islands -> Jobs],
         job[i].phase # "none",
         BatchInv(i)',
         \A j \in Islands :
           j # i /\ job[j].phase = "uploaded" =>
             /\ job[j].evaluator # e
             /\ job'[i].phase = "uploaded" => job'[i].worker # job[j].worker
  PROVE  IInv'
<1>1. UNCHANGED <<at, cycles, it, drawn, seed, epoch, algo, pop, champion_f, mail,
                  held, threw, missed, isl, saved>>
  BY DEF processVars, searchVars, heldVars
<1>2. TypeOK' /\ DrawnInv' /\ SavedInv' /\ SeededInv'
  BY <1>1 DEF IInv, TypeOK, DrawnInv, SavedInv, SeededInv
<1>3. ASSUME NEW j \in Islands
      PROVE  StageInv(j)' /\ BatchInv(j)' /\ CurrentInv(j)' /\ PastInv(j)' /\ HeldInv(j)'
  <2>1. /\ StageInv(j) /\ BatchInv(j) /\ CurrentInv(j) /\ PastInv(j) /\ HeldInv(j)
        /\ job[j] \in Jobs
    BY DEF IInv, TypeOK
  <2>2. StageInv(j)'
    BY <1>1, <2>1 DEF StageInv
  <2>3. CurrentInv(j)' /\ PastInv(j)' /\ HeldInv(j)'
    BY <1>1, <2>1 DEF CurrentInv, PastInv, HeldInv, Base, Missed, Generations
  <2>4. BatchInv(j)'
    <3>1. CASE j = i
      BY <3>1
    <3>2. CASE j # i /\ job[j].phase # "uploaded"
      BY <1>1, <2>1, <3>2 DEF BatchInv
    <3>3. CASE j # i /\ job[j].phase = "uploaded"
      <4>1. job[j].evaluator \in Evaluators /\ job[j].evaluator # e
        BY <2>1, <3>3 DEF Jobs, NONE
      <4>2. job'[j] = job[j]
        BY <3>3
      <4>3. QED
        BY <1>1, <2>1, <3>3, <4>1, <4>2 DEF BatchInv, Thread
    <3>4. QED
      BY <3>1, <3>2, <3>3
  <2>5. QED
    BY <2>2, <2>3, <2>4
<1>4. WorkersInv'
  <2>1. WorkersInv
    BY DEF IInv
  <2>2. QED
    BY <2>1 DEF WorkersInv
<1>5. EvenInv'
  <2>1. \A j \in Islands : Base(j)' = Base(j)
    BY <1>1 DEF Base, Missed, Generations
  <2>2. EvenInv
    BY DEF IInv
  <2>3. QED
    BY <1>1, <2>1, <2>2 DEF EvenInv
<1>6. QED
  BY <1>2, <1>3, <1>4, <1>5 DEF IInv

\* What a thread acquires is its own evaluator or nobody's.
LEMMA AcquireFacts ==
  ASSUME NEW w \in Workers, NEW e \in acquire(w)
  PROVE  e \in Evaluators /\ lease[e] \in {Thread(w), FREE}
<1>1. CASE e \in LeasedTo(w)
  BY <1>1 DEF LeasedTo
<1>2. CASE e \notin LeasedTo(w)
  <2>1. Unleased # {} /\ e = Min(Unleased)
    BY <1>2 DEF acquire
  <2>2. Unleased \in SUBSET Nat
    BY ConstantFacts DEF Unleased, Evaluators
  <2>3. \E x \in Unleased : \A y \in Unleased : x <= y
    BY <2>1, <2>2, LeastNatural
  <2>4. Min(Unleased) \in Unleased
    BY <2>3 DEF Min
  <2>5. QED
    BY <2>1, <2>4 DEF Unleased
<1>3. QED
  BY <1>1, <1>2

\* What an upload leaves on a device.
LEMMA UploadedFacts ==
  ASSUME NEW d \in Devices, NEW b \in Batches, NEW sd \in Seeds
  PROVE  /\ Uploaded(d, b, sd) \in Devices
         /\ Uploaded(d, b, sd).weights = b
         /\ Uploaded(d, b, sd).games = [k \in Blocks(b) |-> simulate(sd)[k % SIMULATIONS]]
<1> DEFINE deal == [k \in Blocks(b) |-> simulate(sd)[k % SIMULATIONS]]
<1>1. Blocks(b) = 0..(POPULATION * SIMULATIONS - 1)
  BY ConstantFacts DEF Blocks
<1>2. ASSUME NEW k \in Blocks(b)
      PROVE  simulate(sd)[k % SIMULATIONS] \in Nat
  <2>1. \A n \in Nat \ {0}, m \in Nat : m % n \in 0..(n - 1)
    OBVIOUS
  <2>2. k \in Nat /\ SIMULATIONS \in Nat \ {0}
    BY <1>1, ConstantFacts
  <2>3. k % SIMULATIONS \in Games
    BY <2>1, <2>2 DEF Games
  <2>4. QED
    BY <2>3, GameSeeds
<1>3. deal \in Deals
  BY <1>1, <1>2 DEF Deals
<1> HIDE DEF deal
<1>4. Uploaded(d, b, sd) = [d EXCEPT !.games = deal, !.weights = b]
  BY DEF Uploaded, deal
<1>5. Uploaded(d, b, sd) \in Devices /\ Uploaded(d, b, sd).weights = b
      /\ Uploaded(d, b, sd).games = deal
  BY <1>3, <1>4 DEF Devices
<1>6. QED
  BY <1>5 DEF deal

\* A thread takes a batch: the evaluator it gets is in use by no other thread.
LEMMA UploadKeepsIInv ==
  ASSUME IInv, NEW w \in Workers, NEW i \in Islands, Upload(w, i)
  PROVE  IInv'
<1>1. TypeOK /\ BatchInv(i) /\ seed \in Seeds
  BY DEF IInv, TypeOK
<1>2. job[i].phase = "queued" /\ ~Busy(w)
  BY DEF Upload
<1> DEFINE b == job[i].batch
<1>3. b \in Batches
  BY <1>1, <1>2 DEF TypeOK, Jobs, NONE
<1>4. PICK e \in acquire(w) :
        /\ lease' = [lease EXCEPT ![e] = Thread(w)]
        /\ device' = [device EXCEPT ![e] = Uploaded(device[e], b, seed)]
        /\ job' = [job EXCEPT ![i] =
             [phase |-> "uploaded", batch |-> b, worker |-> w, evaluator |-> e]]
  BY DEF Upload
<1>5. e \in Evaluators /\ lease[e] \in {Thread(w), FREE}
  BY AcquireFacts
<1> HIDE DEF b
<1> DEFINE u == Uploaded(device[e], b, seed)
<1>6. /\ u \in Devices /\ u.weights = b
      /\ u.games = [k \in Blocks(b) |-> simulate(seed)[k % SIMULATIONS]]
  BY <1>1, <1>3, <1>5, UploadedFacts DEF TypeOK
<1> HIDE DEF u
<1>7. /\ device' \in [Evaluators -> Devices] /\ device'[e] = u
      /\ \A d \in Evaluators : d # e => device'[d] = device[d]
  BY <1>1, <1>4, <1>5, <1>6 DEF TypeOK, u
<1>8. /\ lease' \in [Evaluators -> Nat \X Nat] /\ lease'[e] = Thread(w)
      /\ \A d \in Evaluators : d # e => lease'[d] = lease[d]
  <2>1. Thread(w) \in Nat \X Nat
    BY <1>1, ConstantFacts DEF TypeOK, Thread, Workers
  <2>2. QED
    BY <1>1, <1>4, <1>5, <2>1 DEF TypeOK
<1> DEFINE taken == [phase |-> "uploaded", batch |-> b, worker |-> w, evaluator |-> e]
<1>9. taken \in Jobs
  BY <1>3, <1>5 DEF Jobs
<1>10. /\ job' \in [Islands -> Jobs] /\ job'[i] = taken
       /\ \A j \in Islands : j # i => job'[j] = job[j]
  BY <1>1, <1>4, <1>9 DEF TypeOK
<1>11. UNCHANGED <<processVars, epoch, searchVars, heldVars, isl, saved>>
  BY DEF Upload
<1>12. BatchInv(i)'
  BY <1>6, <1>7, <1>8, <1>10, <1>11 DEF BatchInv, Thread, processVars
<1>13. ASSUME NEW j \in Islands, j # i, job[j].phase = "uploaded"
       PROVE  job[j].evaluator # e /\ job[j].worker # w
  <2>1. BatchInv(j) /\ job[j].worker \in Workers
    BY <1>13 DEF IInv, TypeOK, Jobs, NONE
  <2>2. job[j].worker # w
    BY <1>2, <1>13 DEF Busy
  <2>3. lease[job[j].evaluator] = Thread(job[j].worker)
    BY <1>13, <2>1 DEF BatchInv
  <2>4. Thread(job[j].worker) # Thread(w) /\ Thread(job[j].worker) # FREE
    BY <2>1, <2>2, ConstantFacts DEF Thread, FREE, Workers
  <2>5. QED
    BY <1>5, <2>2, <2>3, <2>4
<1>14. job'[i].phase = "uploaded" /\ job'[i].worker = w
  BY <1>10
<1> HIDE DEF taken
<1>15. QED
  BY <1>2, <1>5, <1>7, <1>8, <1>10, <1>11, <1>12, <1>13, <1>14, PoolStep

\* The batch comes back with the fitness of its models.
LEMMA LaunchKeepsIInv ==
  ASSUME IInv, NEW w \in Workers, NEW i \in Islands, Launch(w, i)
  PROVE  IInv'
<1>1. TypeOK /\ BatchInv(i) /\ seed \in Seeds
  BY DEF IInv, TypeOK
<1> DEFINE b == job[i].batch
           e == job[i].evaluator
           means == Means(Launched(device[e]).fitness, Len(b))
<1>2. job[i].phase = "uploaded" /\ job[i].worker = w
  BY DEF Launch
<1>3. b \in Batches /\ e \in Evaluators
  BY <1>1, <1>2 DEF TypeOK, Jobs, NONE
<1>4. /\ device' = [device EXCEPT ![e] = NoBuffers]
      /\ job' = [job EXCEPT ![i] = [phase |-> "done", batch |-> b, means |-> means]]
      /\ UNCHANGED <<processVars, epoch, up, lease, searchVars, heldVars, isl, saved>>
  BY DEF Launch
<1>5. /\ device[e] \in Devices /\ device[e].weights = b
      /\ device[e].games = [k \in Blocks(b) |-> simulate(seed)[k % SIMULATIONS]]
  BY <1>1, <1>2, <1>3 DEF TypeOK, BatchInv
<1> HIDE DEF b, e
<1>6. /\ means \in [Individuals -> Int]
      /\ \A k \in Individuals : means[k] = FitnessOf(b[k], seed)
  BY <1>1, <1>3, <1>5, LaunchScores
<1> HIDE DEF means
<1> DEFINE done == [phase |-> "done", batch |-> b, means |-> means]
<1>7. done \in Jobs
  BY <1>3, <1>6 DEF Jobs
<1>8. /\ job' \in [Islands -> Jobs] /\ job'[i] = done
      /\ \A j \in Islands : j # i => job'[j] = job[j]
  BY <1>1, <1>4, <1>7 DEF TypeOK
<1>9. /\ device' \in [Evaluators -> Devices]
      /\ \A d \in Evaluators : d # e => device'[d] = device[d]
  <2>1. NoBuffers \in Devices
    BY DEF NoBuffers, Devices
  <2>2. QED
    BY <1>1, <1>3, <1>4, <2>1 DEF TypeOK
<1>10. lease' \in [Evaluators -> Nat \X Nat] /\ lease' = lease
  BY <1>1, <1>4 DEF TypeOK
<1>11. BatchInv(i)'
  BY <1>4, <1>6, <1>8 DEF BatchInv, processVars
<1>12. ASSUME NEW j \in Islands, j # i, job[j].phase = "uploaded"
       PROVE  job[j].evaluator # e
  <2>1. BatchInv(j) /\ BatchInv(i) /\ WorkersInv
    BY DEF IInv
  <2>2. job[j].worker \in Workers /\ w \in Workers
    BY <1>12 DEF IInv, TypeOK, Jobs, NONE
  <2>3. job[j].worker # w
    BY <1>2, <1>12, <2>1 DEF WorkersInv
  <2>4. /\ lease[job[j].evaluator] = <<epoch, job[j].worker>>
        /\ lease[e] = <<epoch, w>>
    BY <1>2, <1>12, <2>1 DEF BatchInv, Thread, e
  <2>5. QED
    BY <2>3, <2>4
<1>13. job'[i].phase = "done"
  BY <1>8
<1> HIDE DEF done
<1>14. job[i].phase # "none"
  BY <1>2
<1>15. QED
  BY <1>3, <1>4, <1>8, <1>9, <1>10, <1>11, <1>12, <1>13, <1>14, PoolStep
-----------------------------------------------------------------------------
(* The invariant in every run, and what follows from it. *)

\* A step that changes nothing.
LEMMA StutterKeepsIInv ==
  ASSUME IInv, UNCHANGED vars
  PROVE  IInv'
<1>1. UNCHANGED <<at, cycles, it, drawn, seed, epoch, up, lease, device,
                  algo, pop, champion_f, mail, isl, held, threw, missed, job, saved>>
  BY DEF vars
<1>2. TypeOK' /\ DrawnInv' /\ SavedInv'
  BY <1>1 DEF IInv, TypeOK, DrawnInv, SavedInv
<1>3. ASSUME NEW i \in Islands
      PROVE  StageInv(i)' /\ BatchInv(i)' /\ CurrentInv(i)' /\ PastInv(i)' /\ HeldInv(i)'
  <2>1. StageInv(i) /\ BatchInv(i) /\ CurrentInv(i) /\ PastInv(i) /\ HeldInv(i)
    BY DEF IInv
  <2>2. StageInv(i)' /\ BatchInv(i)' /\ CurrentInv(i)'
    BY <1>1, <2>1 DEF StageInv, BatchInv, CurrentInv, Thread
  <2>3. PastInv(i)' /\ HeldInv(i)'
    BY <1>1, <2>1 DEF PastInv, HeldInv, Base, Missed, Generations
  <2>4. QED
    BY <2>2, <2>3
<1>4. WorkersInv' /\ SeededInv'
  BY <1>1 DEF IInv, WorkersInv, SeededInv
<1>5. EvenInv'
  <2>1. EvenInv
    BY DEF IInv
  <2>2. QED
    BY <1>1, <2>1 DEF EvenInv, Base, Missed, Generations
<1>6. QED
  BY <1>2, <1>3, <1>4, <1>5 DEF IInv

\* No step of the trainer, of an island or of a worker, and no end of a
\* process, breaks the invariant.
LEMMA NextIInv == IInv /\ [Next]_vars => IInv'
<1> SUFFICES ASSUME IInv, [Next]_vars PROVE IInv'
  OBVIOUS
<1>1. CASE Start
  BY <1>1, StartKeepsIInv
<1>2. CASE Main
  <2>1. CASE verifyEvaluator
    BY <2>1, VerifyKeepsIInv
  <2>2. CASE initState
    BY <2>2, InitStateKeepsIInv
  <2>3. CASE \E i \in Islands : ConstructIsland(i)
    BY <2>3, ConstructKeepsIInv
  <2>4. CASE SeedIslands
    BY <2>4, SeedKeepsIInv
  <2>5. CASE run
    BY <2>5, RunKeepsIInv
  <2>6. CASE NextCycle
    BY <2>6, CycleKeepsIInv
  <2>7. CASE runIteration
    BY <2>7, IterationKeepsIInv
  <2>8. CASE wait_check
    BY <2>8, WaitKeepsIInv
  <2>9. CASE saveState
    BY <2>9, SaveKeepsIInv
  <2>10. CASE EndCycle
    BY <2>10, EndCycleKeepsIInv
  <2>11. QED
    BY <1>2, <2>1, <2>2, <2>3, <2>4, <2>5, <2>6, <2>7, <2>8, <2>9, <2>10 DEF Main
<1>3. CASE Stop
  BY <1>3, EndKeepsIInv DEF Stop
<1>4. CASE \E i \in Islands : Island(i) \/ IslandThrows(i)
  <2>1. PICK i \in Islands :
          BeginEvolution(i) \/ Generation(i) \/ Adapt(i) \/ IslandThrows(i)
    BY <1>4 DEF Island
  <2>2. QED
    BY <2>1, BeginKeepsIInv, GenerationKeepsIInv, AdaptKeepsIInv, ThrowKeepsIInv
<1>5. CASE \E w \in Workers : Worker(w) \/ EvalFails(w)
  <2>1. PICK w \in Workers : Worker(w) \/ EvalFails(w)
    BY <1>5
  <2>2. CASE Worker(w)
    BY <2>2, UploadKeepsIInv, LaunchKeepsIInv DEF Worker
  <2>3. CASE EvalFails(w)
    BY <2>3, EndKeepsIInv DEF EvalFails
  <2>4. QED
    BY <2>1, <2>2, <2>3
<1>6. CASE UNCHANGED vars
  BY <1>6, StutterKeepsIInv
<1>7. QED
  BY <1>1, <1>2, <1>3, <1>4, <1>5, <1>6 DEF Next

\* The invariant in every run of the trainer.
LEMMA AlwaysIInv == Spec => []IInv
BY InitIInv, NextIInv, PTL DEF Spec

\* When an iteration ends, every fitness an island ranks its population by is
\* what that model scores on the games of one seed: of this cycle's, or on an
\* island that threw of one dealt in this process, however many islands,
\* threads and evaluators there are, whatever migrated and whichever threw.
THEOREM FitnessAlwaysCurrent == Spec => []FitnessIsCurrent
<1>1. IInv => FitnessIsCurrent
  <2> SUFFICES ASSUME IInv, at = "save", NEW i \in Islands, NEW k \in Individuals
               PROVE  \E s \in IF i \in threw THEN 0..seed ELSE {seed} :
                        pop[i][k].f = FitnessOf(pop[i][k].x, s)
    BY DEF FitnessIsCurrent
  <2>1. CurrentInv(i) /\ PastInv(i) /\ StageInv(i)
    BY DEF IInv
  <2>2. CASE i \notin threw
    BY <2>1, <2>2 DEF CurrentInv
  <2>3. CASE i \in threw
    <3>1. pop[i] # ABSENT
      BY <2>1, PopulationPresent DEF StageInv, Built
    <3>2. Past(pop[i], seed)
      BY <2>1, <3>1 DEF PastInv
    <3>3. QED
      BY <2>3, <3>2 DEF Past, Scored
  <2>4. QED
    BY <2>2, <2>3
<1>2. QED
  BY <1>1, AlwaysIInv, PTL

\* No two islands ever sample from one engine, also after a resume from one
\* saved search.
THEOREM IslandsAlwaysDiverge == Spec => []IslandsDiverge
<1>1. IInv => IslandsDiverge
  <2> SUFFICES ASSUME IInv, Running, at \notin {"verify", "init", "build"}
               PROVE  \A i, j \in Islands : algo[i].engine = algo[j].engine => i = j
    BY DEF IslandsDiverge
  <2>1. at \in Built /\ SeededInv
    BY DEF IInv, TypeOK, Running, Unbuilt, Built
  <2>2. QED
    BY <2>1 DEF SeededInv
<1>2. QED
  BY <1>1, AlwaysIInv, PTL

\* Every generation since a search began is counted once, through every
\* checkpoint and restart.
THEOREM UpdatesAlwaysCountOnce == Spec => []UpdatesCountOnce
<1>1. IInv => UpdatesCountOnce
  <2> SUFFICES ASSUME IInv, NEW i \in Islands, algo[i] # ABSENT
               PROVE  Counted(algo[i])
    BY DEF UpdatesCountOnce, Counted
  <2>1. algo[i] \in Searches
    BY DEF IInv, TypeOK
  <2>2. QED
    BY <2>1 DEF Searches
<1>2. QED
  BY <1>1, AlwaysIInv, PTL

\* No island of a resumed process is behind the search that was saved by more
\* than its own evolutions that threw.
THEOREM NoIslandEverFallsBehind == Spec => []NoIslandFallsBehind
<1>1. IInv => NoIslandFallsBehind
  <2> SUFFICES ASSUME IInv, Running, saved # ABSENT, at \notin {"verify", "init"},
                      NEW i \in Islands
               PROVE  algo[i].countEval + Missed(i) >= saved.members["countEval"]
    BY DEF NoIslandFallsBehind, Missed
  <2>1. at \notin Unbuilt
    BY DEF Running, Unbuilt
  <2>2. StageInv(i) /\ EvenInv /\ SavedInv
    BY DEF IInv
  <2>3. algo[i] \in Searches /\ algo[i].countEval \in Nat /\ Missed(i) \in Nat
    BY <2>1, <2>2, MissedIsNat DEF IInv, TypeOK, Missed, StageInv, Searches, Algorithms
  <2>4. saved.members["countEval"] \in Nat /\ saved.members["countEval"] <= Base(i)
    BY <2>1, <2>2 DEF EvenInv, SavedInv, Searches, Algorithms
  <2>5. Generations(i) \in Nat
    BY <2>2, ConstantFacts DEF IInv, TypeOK, StageInv, Generations
  <2> DEFINE evaluated == POPULATION * Generations(i)
  <2>6. evaluated \in Nat
    BY <2>5, ConstantFacts
  <2>7. Base(i) = algo[i].countEval + Missed(i) - evaluated
    BY DEF Base
  <2> HIDE DEF evaluated
  <2>8. QED
    BY <2>3, <2>4, <2>6, <2>7
<1>2. QED
  BY <1>1, AlwaysIInv, PTL
=============================================================================
