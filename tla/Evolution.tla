------------------------------- MODULE Evolution -------------------------------
(***************************************************************************)
(* What an iteration of the trainer runs: islands that evolve, each on a   *)
(* thread of its own, their batches on the scheduler's threads, and the    *)
(* pool that leases each of those threads an evaluator.  Around it, what   *)
(* the trainer does to the search: a new or a resumed archipelago, a seed  *)
(* for every cycle, the best island's algorithm in the save file.          *)
(* The archipelago, the scheduler and the pool are libraries, modelled     *)
(* from how the trainer uses them.                                         *)
(***************************************************************************)
EXTENDS CmaEs, BatchEvaluator, SequencesExt

CONSTANTS
  ISLANDS,
  PARALLEL,              (* parallelModelInstances                         *)
  ITERATIONS_PER_CYCLE,
  Kinds,                 (* the algorithms a configuration may choose      *)
  Sampling,              (* bound: what each island's may be sampled as    *)
  FAULTS,                (* what may go wrong: "device", "eigen", "evolve" *)
  MAX_CYCLES             (* bound: cycles of all processes                *)

\* What a population may be sampled as.
Batches == UNION {Sampling[i] : i \in 1..ISLANDS}

ASSUME EvolutionAssumption ==
  /\ ISLANDS \in Nat \ {0} /\ PARALLEL \in Nat \ {0}
  /\ ITERATIONS_PER_CYCLE \in Nat \ {0}
  /\ Kinds \subseteq {"sep", "dd"}
  /\ \A b \in Batches : Len(b) = POPULATION
  /\ FAULTS \subseteq {"device", "eigen", "evolve"}
  /\ MAX_CYCLES \in Nat

\* The values of _iterationSeed: its positions in the generator's sequence.
Seeds == 0..(ISLANDS + MAX_CYCLES + 1)

\* Scores are numbers (here integers), on every game that is ever dealt.
ASSUME ScoreAssumption ==
  \A b \in Batches, k \in Individuals, s \in Seeds, g \in Games :
    Score(b[k], simulate(s)[g]) \in Int

Islands == 1..ISLANDS
Workers == 1..PARALLEL                  \* a scheduler's threads
Evaluators == 1..PARALLEL               \* the pool
FREE == <<0, 0>>
NONE == [phase |-> "none"]

VARIABLES
  at,          (* where the trainer is; "off": no process                  *)
  cycles, it,  (* cycles so far, iterations of this one                    *)
  drawn,       (* numbers drawn from _generator: a draw is its position    *)
  seed,        (* _iterationSeed                                           *)
  epoch,       (* how often the scheduler was started; a thread is named   *)
               (* by this and its place                                    *)
  up,          (* the scheduler is running                                 *)
  lease,       (* the thread each evaluator belongs to                     *)
  device,      (* the buffers of each evaluator                            *)
  algo, pop,   (* what each island holds                                   *)
  champion_f,  (* the best fitness each population ever had, under any seed *)
  mail,        (* the migrant each island has sent, if any                 *)
  isl,         (* where each island's evolution is                         *)
  held,        (* what each island had when its evolution began            *)
  threw,       (* history: the islands whose last evolution threw          *)
  missed,      (* history: how many of this process's evolutions threw     *)
  job,         (* the batch each island waits for                          *)
  saved        (* the archive in the save file, if any                     *)

processVars == <<at, cycles, it, drawn, seed>>
poolVars == <<epoch, up, lease, device>>
searchVars == <<algo, pop, champion_f, mail>>
heldVars == <<held, threw, missed>>
vars == <<at, cycles, it, drawn, seed, epoch, up, lease, device,
          algo, pop, champion_f, mail, isl, held, threw, missed, job, saved>>

ABSENT == <<>>
Idle == [pc |-> "idle", gen |-> 0]

Init ==
  /\ at = "off" /\ cycles = 0 /\ it = 0
  /\ drawn = 0 /\ seed = 0
  /\ epoch = 0 /\ up = FALSE
  /\ lease = [e \in Evaluators |-> FREE]
  /\ device = [e \in Evaluators |-> NoBuffers]
  /\ algo = [i \in Islands |-> ABSENT] /\ pop = [i \in Islands |-> ABSENT]
  /\ champion_f = [i \in Islands |-> ABSENT]
  /\ mail = [i \in Islands |-> ABSENT]
  /\ isl = [i \in Islands |-> Idle]
  /\ held = [i \in Islands |-> ABSENT]
  /\ threw = {} /\ missed = [i \in Islands |-> 0]
  /\ job = [i \in Islands |-> NONE]
  /\ saved = ABSENT

\* Nothing of a process outlives it but its files.
EndProcess(how) ==
  /\ at' = how /\ it' = 0
  /\ drawn' = 0 /\ seed' = 0
  /\ epoch' = 0 /\ up' = FALSE
  /\ lease' = [e \in Evaluators |-> FREE]
  /\ device' = [e \in Evaluators |-> NoBuffers]
  /\ algo' = [i \in Islands |-> ABSENT] /\ pop' = [i \in Islands |-> ABSENT]
  /\ champion_f' = [i \in Islands |-> ABSENT]
  /\ mail' = [i \in Islands |-> ABSENT]
  /\ isl' = [i \in Islands |-> Idle]
  /\ held' = [i \in Islands |-> ABSENT]
  /\ threw' = {} /\ missed' = [i \in Islands |-> 0]
  /\ job' = [i \in Islands |-> NONE]
  /\ UNCHANGED <<cycles, saved>>

startSchedulers == up' = TRUE /\ epoch' = epoch + 1

\* Mutant: the evaluators stay with the threads they were leased to.
stopSchedulersKeepLeases == up' = FALSE /\ UNCHANGED <<epoch, lease>>

\* The threads are gone before the pool lets go of them.
stopSchedulers ==
  /\ up' = FALSE
  /\ lease' = [e \in Evaluators |-> FREE]
  /\ UNCHANGED epoch
-----------------------------------------------------------------------------
(* The constructor. *)

\* A process starts: the generator at its configured seed, the scheduler up, a
\* pool of evaluators.  The self-check plays on an evaluator of its own; if the
\* device fails it, the constructor throws.
Start ==
  /\ at \in {"off", "failed"}
  /\ startSchedulers
  /\ at' = "verify"
  /\ UNCHANGED <<cycles, it, drawn, seed, lease, device, searchVars, heldVars, isl, job, saved>>

verifyEvaluator ==
  /\ at = "verify"
  /\ \/ /\ at' = "init"
        /\ UNCHANGED <<cycles, it, drawn, seed, poolVars, searchVars, heldVars, isl, job, saved>>
     \/ "device" \in FAULTS /\ EndProcess("off")

\* A saved algorithm comes with its own parameters; the configured one counts
\* only for a new state.  Every island gets a copy, and the first draw seeds
\* the populations.
initState ==
  /\ at = "init"
  /\ \E kind \in Kinds :
       algo' = [i \in Islands |-> IF saved # ABSENT THEN Read(saved) ELSE makeAlgorithm(kind)]
  /\ drawn' = drawn + 1
  /\ at' = "build"
  /\ UNCHANGED <<cycles, it, seed, poolVars, pop, champion_f, mail, heldVars, isl, job, saved>>

\* An island's new population, and what its champion becomes.
Holds(i, p) ==
  /\ pop' = [pop EXCEPT ![i] = p]
  /\ champion_f' = [champion_f EXCEPT ![i] = <<Min(ToSet(@) \cup {p[best_idx(p)].f})>>]

Queued(batch) == [phase |-> "queued", batch |-> batch]

\* The archipelago constructs its islands one after the other, each with a
\* random population that it evaluates.
ConstructIsland(i) ==
  /\ at = "build"
  /\ pop[i] = ABSENT /\ \A j \in Islands : j < i => pop[j] # ABSENT
  /\ \/ /\ job[i].phase = "none"
        /\ \E b \in Sampling[i] : job' = [job EXCEPT ![i] = Queued(b)]
        /\ UNCHANGED <<pop, champion_f>>
     \/ /\ job[i].phase = "done"
        /\ Holds(i, [k \in Individuals |-> [x |-> job[i].batch[k], f |-> job[i].means[k]]])
        /\ job' = [job EXCEPT ![i] = NONE]
  /\ UNCHANGED <<processVars, poolVars, algo, mail, heldVars, isl, saved>>

\* Mutant: the copies keep the random engine they were copied with.
SeedIslandsNot ==
  /\ at = "build"
  /\ \A i \in Islands : pop[i] # ABSENT
  /\ stopSchedulers
  /\ at' = "ready"
  /\ UNCHANGED <<cycles, it, drawn, seed, device, searchVars, heldVars, isl, job, saved>>

\* The tail of buildArchipelago() and of init().
SeedIslands ==
  /\ at = "build"
  /\ \A i \in Islands : pop[i] # ABSENT
  /\ algo' = [i \in Islands |-> set_seed(algo[i], drawn + i)]
  /\ drawn' = drawn + ISLANDS
  /\ stopSchedulers
  /\ at' = "ready"
  /\ UNCHANGED <<cycles, it, seed, device, pop, champion_f, mail, heldVars, isl, job, saved>>
-----------------------------------------------------------------------------
(* run(), runCycle() and runIteration(). *)

run ==
  /\ at = "ready"
  /\ startSchedulers
  /\ at' = "run"
  /\ UNCHANGED <<cycles, it, drawn, seed, lease, device, searchVars, heldVars, isl, job, saved>>

NextCycle ==
  /\ at = "run"
  /\ cycles < MAX_CYCLES
  /\ drawn' = drawn + 1
  /\ seed' = drawn + 1                               \* nextGameSeed()
  /\ cycles' = cycles + 1 /\ it' = 0
  /\ at' = "cycle"
  /\ UNCHANGED <<poolVars, searchVars, heldVars, isl, job, saved>>

\* evolve(1) wakes the thread of every island.
runIteration ==
  /\ at = "cycle"
  /\ it < ITERATIONS_PER_CYCLE
  /\ isl' = [i \in Islands |-> [pc |-> "begin", gen |-> 1]]
  /\ threw' = {}
  /\ at' = "evolving"
  /\ UNCHANGED <<cycles, it, drawn, seed, poolVars, searchVars, held, missed, job, saved>>

\* Waits for every island, also when one of them throws: what it threw comes
\* out of wait_check(), is caught and logged, and the iteration goes on.
wait_check ==
  /\ at = "evolving"
  /\ \A i \in Islands : isl[i].pc = "ended"
  /\ isl' = [i \in Islands |-> Idle]
  /\ at' = "save"
  /\ UNCHANGED <<cycles, it, drawn, seed, poolVars, searchVars, heldVars, job, saved>>

\* The first of the islands with the lowest fitness, whatever games it is from.
bestIsland ==
  CHOOSE i \in Islands : \A j \in Islands :
    champion_f[i][1] < champion_f[j][1] \/ (champion_f[i] = champion_f[j] /\ i <= j)

saveState ==
  /\ at = "save"
  /\ saved' = Written(algo[bestIsland])
  /\ it' = it + 1
  /\ at' = "cycle"
  /\ UNCHANGED <<cycles, drawn, seed, poolVars, searchVars, heldVars, isl, job>>

\* The cycle has run its iterations; the backups are Trainer's.
EndCycle ==
  /\ at = "cycle"
  /\ it = ITERATIONS_PER_CYCLE
  /\ at' = "run"
  /\ UNCHANGED <<cycles, it, drawn, seed, poolVars, searchVars, heldVars, isl, job, saved>>

\* The stop token, looked at by both loops; the trainer stops its scheduler.
Stop ==
  /\ at \in {"run", "cycle"}
  /\ EndProcess("off")
-----------------------------------------------------------------------------
(* The thread of an island. *)

Neighbours(i) == {(i % ISLANDS) + 1, ((i + ISLANDS - 2) % ISLANDS) + 1} \ {i}   \* a ring

\* Migrants travel point to point: an evolution starts with what one of the
\* neighbours sent last.
Migrants(i) == IF Neighbours(i) = {} THEN {ABSENT} ELSE {mail[j] : j \in Neighbours(i)}

\* A migrant replaces the worst individual if it is better; it brings the
\* fitness it was sent with.
Immigrate(p, m) ==
  IF m # ABSENT /\ m.f < p[worst_idx(p)].f THEN [p EXCEPT ![worst_idx(p)] = m] ELSE p

BeginEvolution(i) ==
  /\ isl[i].pc = "begin"
  /\ \E m \in Migrants(i) : Holds(i, Immigrate(pop[i], m))
  /\ held' = [held EXCEPT ![i] =
       [algo |-> algo[i], pop |-> pop'[i], champion_f |-> champion_f'[i]]]
  /\ algo' = [algo EXCEPT ![i] = resetState(@)]
  /\ isl' = [isl EXCEPT ![i].pc = "generation"]
  /\ UNCHANGED <<processVars, poolVars, mail, threw, missed, job, saved>>

\* The end of evolve(): the island keeps what it returns and sends its best.
Sends(i, p) ==
  /\ mail' = [mail EXCEPT ![i] = p[best_idx(p)]]
  /\ held' = [held EXCEPT ![i] = ABSENT]

\* The head of a generation: samples, then an exit or a batch.
Generation(i) ==
  /\ isl[i].pc = "generation"
  /\ algo' = [algo EXCEPT ![i] = Sampled(@)]
  /\ \E dx \in 0..1, b \in Sampling[i] :
       IF Exits(algo[i], pop[i], dx)
       THEN isl' = [isl EXCEPT ![i].pc = "ended"] /\ Sends(i, pop[i]) /\ UNCHANGED job
       ELSE /\ isl' = [isl EXCEPT ![i].pc = "evaluating"]
            /\ job' = [job EXCEPT ![i] = Queued(b)]
            /\ UNCHANGED <<mail, held>>
  /\ UNCHANGED <<processVars, poolVars, pop, champion_f, threw, missed, saved>>

\* The rest of it, once sync() has returned: every individual is replaced.
Adapt(i) ==
  /\ isl[i].pc = "evaluating"
  /\ job[i].phase = "done"
  /\ LET p == [k \in Individuals |-> [x |-> job[i].batch[k], f |-> job[i].means[k]]]
     IN  /\ Holds(i, p)
         /\ \/ /\ isl[i].gen < algo[i].gen
               /\ isl' = [isl EXCEPT ![i] = [pc |-> "generation", gen |-> @.gen + 1]]
               /\ UNCHANGED <<mail, held>>
            \/ /\ isl[i].gen = algo[i].gen
               /\ isl' = [isl EXCEPT ![i].pc = "ended"]
               /\ Sends(i, p)
  /\ \E decomposes \in {TRUE} \cup {FALSE : f \in FAULTS \cap {"eigen"}} :
       algo' = [algo EXCEPT ![i] = Adapted(@, decomposes)]
  /\ job' = [job EXCEPT ![i] = NONE]
  /\ UNCHANGED <<processVars, poolVars, threw, missed, saved>>

\* Mutant: evolve() works on the island's own population, and throws halfway.
IslandThrowsHalfway(i) ==
  /\ "evolve" \in FAULTS
  /\ isl[i].pc = "evaluating" /\ job[i].phase = "done"
  /\ pop' = [pop EXCEPT ![i] =
       [k \in Individuals |-> [x |-> job[i].batch[k], f |-> pop[i][k].f]]]
  /\ threw' = threw \cup {i}
  /\ missed' = [missed EXCEPT ![i] = @ + 1]
  /\ isl' = [isl EXCEPT ![i].pc = "ended"]
  /\ job' = [job EXCEPT ![i] = NONE]
  /\ UNCHANGED <<processVars, poolVars, algo, champion_f, mail, held, saved>>

\* Mutant: the island's thread goes with its exception, and nobody is told.
IslandThrowsUnseen(i) ==
  /\ "evolve" \in FAULTS
  /\ isl[i].pc = "generation"
  /\ isl' = [isl EXCEPT ![i].pc = "idle"]
  /\ UNCHANGED <<processVars, poolVars, searchVars, heldVars, job, saved>>

\* Anything in a generation may throw (memory, a library).  evolve() works on
\* copies, so the island keeps the search it had and the population with its
\* migrant, whatever seed their fitness is from, and sends nothing.
IslandThrows(i) ==
  /\ "evolve" \in FAULTS
  /\ \/ isl[i].pc = "generation"
     \/ isl[i].pc = "evaluating" /\ job[i].phase = "done"
  /\ algo' = [algo EXCEPT ![i] = held[i].algo]
  /\ pop' = [pop EXCEPT ![i] = held[i].pop]
  /\ champion_f' = [champion_f EXCEPT ![i] = held[i].champion_f]
  /\ held' = [held EXCEPT ![i] = ABSENT]
  /\ threw' = threw \cup {i}
  /\ missed' = [missed EXCEPT ![i] = @ + 1]
  /\ isl' = [isl EXCEPT ![i].pc = "ended"]
  /\ job' = [job EXCEPT ![i] = NONE]
  /\ UNCHANGED <<processVars, poolVars, mail, saved>>
-----------------------------------------------------------------------------
(* A thread of the scheduler. *)

Thread(w) == <<epoch, w>>
Running == at \notin {"off", "failed"}
Busy(w) == \E i \in Islands : job[i].phase = "uploaded" /\ job[i].worker = w
LeasedTo(w) == {e \in Evaluators : lease[e] = Thread(w)}
Unleased == {e \in Evaluators : lease[e] = FREE}

\* acquire(): the thread's own evaluator, or the first that nobody has.
acquire(w) ==
  IF LeasedTo(w) # {} \/ Unleased = {} THEN LeasedTo(w) ELSE {Min(Unleased)}

Upload(w, i) ==
  /\ up /\ Running
  /\ ~Busy(w)
  /\ job[i].phase = "queued"
  /\ acquire(w) # {}
  /\ \E e \in acquire(w) :
       /\ lease' = [lease EXCEPT ![e] = Thread(w)]
       /\ device' = [device EXCEPT ![e] = Uploaded(@, job[i].batch, seed)]
       /\ job' = [job EXCEPT ![i] =
            [phase |-> "uploaded", batch |-> @.batch, worker |-> w, evaluator |-> e]]
  /\ UNCHANGED <<processVars, epoch, up, searchVars, heldVars, isl, saved>>

\* The kernel, the copy back and its wait; the means, and the end of sync().
\* What the buffers hold until the next batch overwrites them is forgotten.
Launch(w, i) ==
  /\ up /\ Running
  /\ job[i].phase = "uploaded" /\ job[i].worker = w
  /\ LET e == job[i].evaluator
     IN  /\ device' = [device EXCEPT ![e] = NoBuffers]
         /\ job' = [job EXCEPT ![i] =
              [phase |-> "done", batch |-> @.batch,
               means |-> Means(Launched(device[e]).fitness, Len(@.batch))]]
  /\ UNCHANGED <<processVars, epoch, up, lease, searchVars, heldVars, isl, saved>>

\* Any call to the device may throw; evalBatch logs it and aborts.
EvalFails(w) ==
  /\ "device" \in FAULTS
  /\ Running
  /\ Busy(w)
  /\ EndProcess("failed")
-----------------------------------------------------------------------------
Main ==
  \/ verifyEvaluator \/ initState
  \/ \E i \in Islands : ConstructIsland(i)
  \/ SeedIslands \/ run \/ NextCycle \/ runIteration \/ wait_check \/ saveState \/ EndCycle

Island(i) == Running /\ (BeginEvolution(i) \/ Generation(i) \/ Adapt(i))
Worker(w) == \E i \in Islands : Upload(w, i) \/ Launch(w, i)

Next ==
  \/ Start \/ Main \/ Stop
  \/ \E i \in Islands : Island(i) \/ IslandThrows(i)
  \/ \E w \in Workers : Worker(w) \/ EvalFails(w)

\* Every thread of a running process runs; nobody need start it or stop it, and
\* no device and no evolution need fail.
Spec ==
  /\ Init /\ [][Next]_vars
  /\ WF_vars(Main)
  /\ \A i \in Islands : WF_vars(Island(i))
  /\ \A w \in Workers : WF_vars(Worker(w))
-----------------------------------------------------------------------------
\* When an iteration ends, every fitness an island ranks its population by is
\* what that very model scores on the games of one seed: of this cycle's, or,
\* on an island whose evolution threw, of one dealt in this process so far.  So
\* none is of another model, none of games of two seeds or of a batch that two
\* islands had in flight at once, and none is old without an exception.
FitnessIsCurrent ==
  at = "save" =>
    \A i \in Islands, k \in Individuals :
      \E s \in IF i \in threw THEN 0..seed ELSE {seed} :
        pop[i][k].f = FitnessOf(pop[i][k].x, s)

\* Islands that start from one copy of a search explore different samples, also
\* after a resume.
IslandsDiverge ==
  Running /\ at \notin {"verify", "init", "build"} =>
    \A i, j \in Islands : algo[i].engine = algo[j].engine => i = j

\* Every generation evaluated since the search began is in the covariance it
\* samples from, pending for the next decomposition, or was lost to a failed
\* one, and in one of them only, through checkpoints and restarts.
UpdatesCountOnce ==
  \A i \in Islands : algo[i] # ABSENT =>
    /\ algo[i].countEval = POPULATION * (algo[i].learned + algo[i].lost + algo[i].acc)
    /\ algo[i].kind = "dd" => algo[i].acc = algo[i].t % TEIG

\* "memory=true resumes the search" (loadState): an island is behind the search
\* that was saved by no more than its own evolutions that threw since, and not
\* at all where none did.
NoIslandFallsBehind ==
  Running /\ saved # ABSENT /\ at \notin {"verify", "init"} =>
    \A i \in Islands :
      algo[i].countEval + POPULATION * GENS * missed[i] >= saved.members["countEval"]

\* An iteration ends, with a checkpoint to write, unless a device fails: every
\* batch finds a thread, and every thread an evaluator, and an evolution that
\* throws keeps none of them.
IterationEnds == at = "evolving" ~> at \in {"save", "failed"}
=============================================================================
