# tetris_ai3 in TLA+

Specifications, model-checking runs and proofs for the core of `tetris_ai3`: the
Tetris simulation (`src/ta3_sim`), the AI that plays on it and the preview that
shows it (`src/ta3_ai`), the evaluation of models on a GPU (`src/ta3_gpu`) and the
trainer that evolves them (`src/ta3_trainer`). `PROJECT.json` holds
the machine-readable side: the components, the runs, the mutants that show what
each property is sensitive to, the source lines behind each definition, the
findings, the hazards and the theorems.

## 1. The system

| Component | State | Operations | Talks to |
|---|---|---|---|
| Piece geometry (`pieces/*.hpp`) | constant tables | `rotate`, `piece_shape_at` | everything |
| `Board2` | one bit word per column | `available`, `dropDistance`, `place`, `clearLines`, `fit`, `placed` | engine, search |
| `TetrisEngine` | board, queue, hold slot, 7-bag, `_gameOver` | `reset`, `place`, `hold` | TetrisGame, MultiTetris, AiTetris, GPU blocks |
| `TetrisGame` | an engine, orientation, offset | `reset`, `step(instruction)`, `landingOffset` | UI, tests |
| `MultiTetris` | many engines | `next(moves)` | none of the other components |
| Placement table, hold plans, prefix tree | compile-time tables | `nth_placement`, `PLANS`, `PLAN_TREES` | both searches and the kernel |
| `search_move_beam`, `search_move` | the kept frontier of one search | root, middle and leaf stages | AiTetris, tests; reference of the kernel |
| `AiTetris` | an engine, the last move | `reset`, `step` | preview |
| `AiPreview`, `AiRenderer2` | worker thread, render thread, snapshot, mutex | `run`, `refresh`, `stop`, destructor, `update` | trainer |
| Board metrics, models, game statistics | totals of one game | the metrics, `evaluate`, `advance`, `score` | searches, kernel, `eval_host` |
| Evaluation kernel (CUDA and SYCL) | the shared memory of a block per game | the stages of `play_move`, barriers, warp reductions | evaluator |
| `ModelEvaluator` | three device buffers | `eval`, `eval_host`, `grow` | problem, trainer's self-check |
| `TetrisProblem2` | simulations and seed, a shared pool | `batch_fitness`, `evalBatch` | evaluators, islands |
| `Trainer2`, backup, runner | populations, champions, save files, backups | cycles, iterations, checkpoints, backups, stop key | preview, evaluator |
| `dd_cmaes`, `sep_cmaes` | mean, covariance, counter, archive between evolutions | `evolve` | islands |

How they interact. The engine is the only owner of a game; players call `place`
and `hold` on it. The search never calls the engine: it works on copies of the
board and re-implements hold and queue consumption over abstract window slots, at
compile time. `AiTetris::step` searches and then commits `hold` and `place`. The
preview runs many AI games in a worker thread, which hands snapshots to a render
thread through one mutex; the trainer owns the preview and refreshes it with new
champions every cycle. An iteration of the trainer is one evolution of every
island, each on its own thread; a generation is a batch, a batch runs on a
scheduler thread, and that thread leases an evaluator from a pool. The evaluator
uploads models and seeds and launches one block per game, whose threads play the
game together through barriers. The trainer talks to its own future through files.

What is hard here, and what therefore the properties are about:

- word arithmetic at the borders of the board, over cavities and overhangs, and
  clears of rows that are not adjacent (`Board2`);
- cached facts (`_gameOver`, `_bagPos`, the in-flight offset) that several
  operations must refresh (`TetrisEngine`, `TetrisGame`);
- agreement between the engine and the search that mirrors it, slot numbers
  encoded in one stage and decoded in another, dead ends at every level of a
  beam (`SearchPlans`, `BeamSearch`, `AiTetris`);
- a worker that is replaced while it runs, a renderer it shares, members whose
  destruction order matters, one unfair mutex, a window that is minimized while the
  games go on (`AiPreview`);
- a block whose threads share memory between barriers: segments of different
  sizes per stage, per-warp results read by one thread, loops and breaks that some
  threads could take and others not, warps that do not divide the block (`EvalKernel`);
- a search whose fitness values belong to the games of one seed, while the seed
  changes every cycle; an algorithm whose memory outlives populations, iterations
  and processes; batches of several islands over leased evaluators that remember
  nothing of each other; one device, one decomposition or one island's evolution
  that fails (`Evolution`);
- a trainer that may be stopped, fail or crash between two files, and that does not
  notice a write that fails (`Trainer`).

## 2. Modules

| Module | Models | State and actions |
|---|---|---|
| `Pieces` | `piece_defs.hpp`, `piece_offsets.hpp` | the piece table, `Rotate` |
| `Board` | `board2.hpp` on sets of rows | operators only: `Available`, `DropDistance`, `Placed`, `ClearLines` |
| `BoardMetrics` | `v_board_metrics.hpp` on sets of rows | operators only: holes, depths, heights, transitions, wells |
| `BoardBits` | board and metrics on words: packed shapes, `fit()`, the shift loop, counts in bit planes, mirror | `cols`; `DropPiece`, `Reset` |
| `PieceBag` | `_bag`, `_bagPos`, `drawPiece` | `DrawPiece(p)` returns p |
| `BagDrought` | the bag alone, with a history of waits | `Draw` |
| `PieceFlow` | **abstract**: what the engine promises about pieces | `remaining`, `queue`, `held`; `Restart`, `Drop`, `HoldFirst`, `HoldSwap` |
| `TetrisEngine` | `tetris_engine.hpp` | `board`, `queue`, `held`, `gameOver`, `bag`, `bagPos`, `ret`; `Reset`, `Hold`, `Place` |
| `TetrisGame` | `tetris_game.hpp` over an instance of the engine | plus `orientation`, `offset`; one action per instruction |
| `Placements` | `placements.hpp` | operators: signatures, ranges, the packed byte, the table |
| `SearchPlans` | `variation_sequences.hpp`, `build_tree` | operators: `PLANS`, `PLAN_TREES` |
| `PlanWalk` | the plans beside the flow they mirror | `PieceFlow` plus the line being walked; `Decide`, `Place` |
| `BeamSearch` | `search_move_beam` | operators, one per stage, and the whole search |
| `ExhaustiveSearch` | `search_move` | the set of leaves it considers |
| `AiTetris` | `ai_tetris.hpp`, with the search stage by stage | engine variables plus the search's; `SearchRoots`, `SearchLevel`, `SearchLeaves`, `CommitHold`, `CommitPlace`, ... |
| `ValueModels` | inputs and layers of `ModelV7` to `ModelV11` | operators, in fixed point |
| `GameStats` | `stats_v4`, `score_v1` | operators: `advance`, `score` as an exact fraction |
| `HostEval` | **abstract**: `eval_host`, one game | an engine, `model`, `stats`, `moves`, `committing`, `fitness`; `HostHold`, `HostPlace`, `HostScore` |
| `KernelStages` | what each thread computes in a stage of the kernel | operators on the block's shared memory |
| `EvalKernel` | both `eval_kernel`s: launch, block, threads, barriers | plus an engine, the shared memory, where each thread is, what it touched; `ThreadStep`, `WarpStep`, `CommitStep`, `Release` |
| `RulesPlayer` | the reference a search is compared with | operators: every position a player of the rules can reach |
| `CmaEs` | `dd_cmaes.cpp`, `sep_cmaes.cpp` without the linear algebra | operators on an algorithm and a population, one per step of a generation |
| `BatchEvaluator` | `eval` and `TetrisProblem2` | operators: upload, launch, means |
| `Evolution` | an iteration of `trainer2.cpp` with islands, scheduler, pool | the trainer's thread, islands, jobs, leases, devices; one action per step of each thread, `IslandThrows` and `EvalFails` for what may fail |
| `Preview` | `preview.cpp`, `ai_renderer2.cpp` | an owner, workers, a render thread, a mutex, the window; one action per step of each, `Resize`, `Minimize`, `Show`, `CloseWindow` of the user |
| `Trainer` | `trainer2.cpp`, `backup.cpp`, the runner's `main.cpp` | where the worker is, the files, what a crash (`TORN`) or a full disk (`SHORT`) leaves of them |

`TetrisEngine` extends `Board` and `PieceBag`; `TetrisGame` uses an instance of
it; `AiTetris` and `EvalKernel` extend it together with the search, and `EvalKernel`
refines `HostEval`, which extends it too. `Evolution` composes `CmaEs` and
`BatchEvaluator`. `Trainer` and `Evolution` are two views of `trainer2.cpp`: the
files and what a crash leaves of them, and what the iterations between two files
do to the search. `PlanWalk` extends
`PieceFlow`, so that what it shows of the plans carries over to every
implementation of the flow, and the engine is one. The `MC*` modules give TLC its
constants. `*Proofs` hold the theorems.

Conventions. A column is the set of its occupied rows, row 0 on top; `BoardBits`
justifies this against the words. Random shuffles are any permutation. The
model's value (`Evaluate`) is a parameter of the search: integers, where the code
has floats; `LOWEST` bounds it from below. The runs use mirror-invariant models,
as `beam.hpp:480` says all are, and `board_bits` shows it of the metrics they read.
An action models a whole call of a single-threaded component; in `Preview`,
`Trainer`, `EvalKernel` and `Evolution` a call is cut where another thread, a crash or
an error can come between. Definitions marked `Mutant` change one definition the way a plausible
bug would; they are used by no specification.

The kernel. The two kernels have the same stages; where SYCL has a sub-group, CUDA
has a warp, and the warp size is a variable chosen at the launch. A thread runs
alone from one barrier to the next, or to the point where its warp has to meet for
a shuffle. `touched` records what it reads and writes in shared memory meanwhile:
as long as `NoDataRace` holds, cutting the threads' code there and nowhere else
loses no behaviour. Shared memory starts as junk, so a stage that relies on a cell
nobody wrote shows up as a wrong move. A block finds its model and its seed from its
index, as the code does.

The search over models. A fitness carries the batch it was computed from: a sum
over the games of a round's seed stands for the mean. `learned`, `acc` and `lost` say
which generations the covariance has absorbed (`lost` is a history variable).
`champion_f` is the best fitness a population ever had, under any seed, as pagmo
keeps it. Device buffers are forgotten between batches, because a batch overwrites
what it reads. An evolution works on copies of the island's algorithm and population
and may throw at any point of a generation (`IslandThrows`): `held` is what the island
falls back to, `threw` and `missed` record (as history) whose last evolution threw and
how often. `wait_check()` waits for every island all the same, its exception is caught
and logged, and the iteration saves (`trainer2.cpp:324`). `evolve()` throws for fewer than five individuals, hence the ASSUME. A
resumed process takes algorithm, kind and generations from the file, not from its
configuration, and starts its seed generator again. Archipelago, ring
topology, migration (point to point, as the archipelago does by default: an island
takes what one of its neighbours sent last), fair replacement, thread scheduler and pool are library code, modelled from how the
trainer uses them and marked external.

## 3. Runs

| Run | Instance | Shows |
|---|---|---|
| `engine` | 4x6, I and S, full queue of 2 | types, no full rows, conservation of cells, drop = gravity, `gameOver()` current, the placement table exact, refinement of `PieceFlow` |
| `game` | 4x4, L and I, queue 1 | no overlap while the game is on, the ghost is gravity's |
| `board_bits` | 4x4, I, J, O, 16-bit words | word arithmetic = sets of rows: the fused `fit()`, drops and clears, every metric; no model input tells a board from its mirror image |
| `plan_walk` | DEPTH 4, queue 5, 6 pieces, symmetry | plan and tree name the pieces really in hand and held; children are exactly the two decisions; what the queue shows of the bag |
| `ai` | depth 3, 4x4, I, O, S, J, two models, two beams, 2 moves | the answer is a line of the exhaustive search, a legal root always yields a move, a wide beam finds the best, every committed step is a step of the engine |
| `eval_kernel` | DEPTH 4, 4x4, five pieces, beams of 2, blocks of 3 threads, warps of 2 and 3, two models, two deals, 3 moves | no unsynchronised access, no barrier skipped, every kept node is a playable position under the root it is filed under, the fitness is that of `eval_host`, every block ends |
| `evolution` | 2 islands, 2 workers and evaluators, population 5, both algorithms, 2 cycles, devices and decompositions that fail, evolutions that throw | fitness current (of a past seed only on an island that threw), islands differ, every generation learned once, no island behind by more than the iterations it lost, every iteration ends |
| `preview` | 3 workers, 2 boards, a window resized, minimized, shown and closed at any time | destructor order, no two workers go on, frames are one snapshot, calls return, the newest games get drawn while the window is shown |
| `trainer` | cycles of 2, 1 backup, crashes, files that do not open, copies that throw, writes cut short | checkpoints current, nothing backed up is lost, backups paired, enter ends the run |
| `preview_stop`, `trainer_stop`, `trainer_prune` | | the findings of section 6 |

Why these bounds are enough. The board code treats columns alike and a piece
spans at most four; four columns already have a piece touch both walls, and with
six rows I-pieces clear four rows at once while S leaves an overhang in either
orientation and clears that are not adjacent. Two pieces with a full queue let
every draw, hold and refill of the bag happen. In `game` the L, beside the I, is
steered into the cavities it leaves. In `board_bits` 4x4 with I, J and O reaches
cavities, wells and boards that are not their own mirror image. `plan_walk` has the
code's depth and, as the code (6 of 7), a queue one shorter than the bag, so every
alignment of bag and queue occurs. `ai` needs depth 3 for a middle level.
`MAX_MOVES` bounds the moves of a game (2 reach lost games on this board).

`eval_kernel` has the code's depth, because only two middle levels tell a node's rank
in the beam before from its rank at the root. Beams of 2 are full and overflow on
these boards. Three threads and warps of 2 give a block a full and a partial warp
(reductions across warps, an idle lane), warps of 3 a single one, and fewer threads
than slots make every strided loop go round. Two opposite weight sets of
`ModelV11` (UNIT = 1000) make one model keep the board low and the other fill it. Between barriers the threads' orders are all explored.

`evolution`: two islands share two workers, so batches overlap and an evaluator is
passed on; population 5 is the smallest the algorithms accept. With two generations
per iteration and a decomposition every three (`TEIG`), an iteration ends with an
update still pending, which is what a resume could lose. Two cycles, in one process
or in two, are one change of seed. `MAX_CYCLES` bounds the cycles of all processes.
One island may throw, or both in one iteration, or one twice, or one after the other;
without the allowance that `FitnessIsCurrent` and `NoIslandFallsBehind` make for it,
TLC finds each violated. `Sampling` gives the first island batches whose models all
score the same or all differ, the second batches that differ; no two batches share a
model, so a fitness that strayed to another island or model shows. The other choices
multiply states without a new case.

Three workers of `preview` are an old one, one being replaced and a newest; two
boards can be torn. `MAX_STATE` and `MAX_CLOCK` bound the evolutions and backups of a
trainer over all its restarts; two iterations per cycle let a stop or a crash fall
inside one. `CHECK_DEADLOCK FALSE` stands where the system really ends: the trainer
at its bounds or stopped, the kernel when the blocks have written their fitness,
the evolution after its last cycle, abort or failed self-check.

Fairness. `Preview`: every thread is scheduled (weak fairness of each thread's
steps and of the owner inside a call), and the mutex is not lost for ever by a
thread that sleeps between two acquisitions (50 ms in the worker, 16 ms in the
renderer): strong fairness of the two acquisitions, `BeginUpdate` and `BeginFrame`,
and of nothing before them. The render thread comes to the mutex only by way of `Poll`,
and there a minimized window sends it round again and a new size ends its turn
(`ai_renderer2.cpp:115`, `:118`), for as long as the user likes: `Poll` is weakly fair
as any step of the thread. `NewestIsDrawn` therefore promises the newest games to a
window that is shown and stays so; that a worker and the owner never wait for a frame
(`CallsReturn`) holds with the window minimized for ever. Whether the owner calls
again, or what the user does to the window, is not assumed; that raylib returns from
polling its events in a minimized window is. `Trainer`: weak fairness of
the worker thread; nobody need press enter, restart it or restore a file.
`EvalKernel`: a block is resident until it ends and its threads all run (weak
fairness of each thread, of its warp's meetings and of the release of the barrier).
`Evolution`: weak fairness of the trainer's thread, of each island's and of each of
the scheduler's; not of new processes, and neither a device nor an evolution need ever
fail. All other runs are safety only.

## 4. Proofs

Checked by TLAPS, for every value of the constants that satisfies the modules'
assumptions: `TypesAssumption` (the pieces are a finite non-empty set without
`NO_PIECE`), `BoardAssumption` (at least 4 columns, 4 to 31 rows),
`BlocksAssumption` (a shape is four blocks in the 4x4 box, solid in each column),
`QueueAssumption`, `GameAssumption`, `FlowAssumption` (the queue fits a bag),
`PlacementAssumption` (the blocks' box columns are adjacent, a biased `x` fits its four
bits), `DepthAssumption` (a depth of 2 to 4), `WidthsAssumption` (every beam keeps a
node), `LookaheadAssumption` (the queue shows every piece a plan may place),
`PreviewAssumption` (at least one worker and one board), `TrainerAssumption` (at
least one iteration per cycle; the save file is in the working directory or in
another one), `KernelAssumption`, `BlockAssumption` (one thread for every kept node, no
warp larger than the block), `CmaAssumption`, `BatchAssumption`, `EvolutionAssumption` (five or more
individuals per batch; at least one generation, game, island, thread and iteration)
and `ScoreAssumption` (a score is a number). TLC evaluates each of them in a run.

**Board and bag** (`RulesProofs`, operators only).
- `DropIsWhereItRests`: the minimum over the columns' surfaces is the row-by-row
  fall, from `ColumnDropProps` (one column, masked above its lowest block) and solid
  columns: without solidity the piece could fall through a block.
- `LocksInField`: the drop stays over the floor also when the shape does not fit
  where it starts, which `TetrisGame::place()` allows.
- `LockingAddsItsBlocks`: no block falls on a cell, on another block or past a border.
- `ClearingTakesFullRows`, `ClearLinesLeavesNoFullRow`: survivors keep their order
  (`SurvivorsKeepOrder`), so they land on rows of their own, and a full row after the
  clear would have been full before.

**The engine** (`TetrisEngineProofs`), from `IInv == TypeOK /\ NoFullRows /\
GameOverIsTopOut`. `TypeOK` needs the second conjunct: `ret <= BLOCKS`, which the code
promises its compiler, holds only because no row was full before the piece came
(`FewRowsComplete`). `GameOverIsCurrent` reads the third, which each operation has to
re-establish. `CellsAreConserved`, an action property, puts `LockingAddsItsBlocks` and
`ClearingTakesFullRows` together (`LegalPlacement`: what fits at the spawn row is free
where gravity takes it).
`EngineImplementsFlow`: every step of the engine is a step of `PieceFlow` or a
stutter, under `remaining <- Remaining`, the slots below the bag's cursor.

**The flow and the plans** (`RulesProofs`, `PlanWalkProofs`). `TypeOK /\ WindowDistinct` is
inductive (`TypeCorrect`, `WindowAlwaysDistinct`); with `EngineImplementsFlow` it holds of
the engine. The compile-time tree is proved for both hold states and every `DEPTH`:
- `NodesAreDecisions`: `build_tree` merges plans by the slots they place, the search
  needs them merged by what they decide. The two are the same because a hold always
  changes the piece in hand: slots in hand, held and unread differ (`WalkLevels`).
- `TwoDecisionsPerNode`: numbering parent by parent is a strict total order on nodes
  that refines the order of the parents (`NodeBeforeStrict`, `NodeBeforeRefines`), so the
  children of a node are adjacent and `childBegin..childEnd` finds exactly them.
- `PlansMirrorTheFlow` from `Mirrors`: slot in hand, slot held and every unread slot
  name the pieces where the flow has them, also between a hold and the drop after it.
  `EveryDecisionOnce` needs `LineIInv`: the decisions taken so far are below `2^moves`.

**The search and its player** (the second half of `TetrisEngineProofs`), under one
hypothesis more, `ScoresAreNumbers`: a model's value of a board is a number. It is not
an `ASSUME` because TLC cannot try every board and histogram. `PlayerPlaysTheEngine` and
`PlayerAlwaysMoves` come from `AiIInv`, the engine's `IInv` and what each stage of a step
knows. Underneath, in the order of the code:
- the table (`TableHolds`, `TableInBounds`): every entry decodes to a placement inside
  the walls, and one of the spawn orientation's is the spawn itself (`TopIsTabled`), so
  a game that is not over has a root;
- `select_top` (`TopIsRanked`, `RanksAreDense`): keys differ, so the ranks that are kept
  are `0..k-1`, each held by one candidate, however the model scores;
- the mixed radix of slots (`RootIndices`, `MidIndices`, `LeafOrder`): what one function
  packs the other unpacks, and fallback orders lie behind the leaves' band;
- between levels (`RootsOK`, `FrontierOK`, `OffersOK`): whatever node is kept descends
  from a legal root, under the rank the root has; and a search that started from a legal
  root has a leaf, a fallback or a kept node at every level (`SearchGoesOn`,
  `SearchFinds`). `AlwaysAMove` alone is not inductive: it speaks of the end.
- `RootsOfTheTree`: a root that holds places the slot the engine will have in hand after
  its `hold()`, also when the hold slot was empty (`HeldAsPlanned`). So the placement is
  still legal after the hold, whether or not the hold topped out, and `place()` does what
  the engine's `@pre` asks.

`BeamAnswersALine`: what a search returns is a leaf of the exhaustive search, move and
value of one line. Neither the frontier nor the offers are lines, so `LinesIInv` says
what they stand for (`OnLines`): a node kept at a level is, for *every* plan through its
tree node, a line of that plan, begun by the root that its rank names and worth what the
node is scored. Two facts about the tree carry it: plans share a node exactly when they
share its decisions (`SharedNodes`, `PlansOfTheTree`), so a child continues the plans of
its parent and no other, and a plan's slots are its nodes' (`PlanAtNode`). An offer of a
dead end is a leaf of the reference because no child of the node was scored, and every
legal slot of a level is (`MidStepScored`, `DeadEndStops`): then no plan through it goes
on. `Expanded` unfolds level by level over the fixed `DEPTH` (`ExpandedUnfolds`), where
induction over the length would be out of reach.

`WideBeamsFindTheBest`: with beams that keep everything, no leaf of the last two levels
of the exhaustive search is worth more than the result. It is the converse of the above:
`WideIInv` says that *every* line of every plan is among the kept nodes, under its tree
node, board and clears (`EveryLineKept`). A beam with as many places as a level has slots
keeps all scores, because ranks are dense and a slot is scored once (`TopKeepsAll`,
`KeysBySlot`); every slot that fits is scored, whichever child of which kept node it is
for (`RootAllScored`, `ChildStepScored`), which needs that tree nodes are numbered without
gaps (`NodesAreDense`) and that the radix of a slot is large enough. The last two
levels' values are then all offered (`EveryLeafOffered`), a dead end's too.

`TableStandsForAllDrops`: `TableIsExact`, on *every* board (`ExactOnEveryBoard`). Nothing
is inductive here; it is geometry. Orientations have one signature exactly when one is
the other shifted in the box (`SameSignature`, `TranslatedBlocks`). A shape that stands
higher in its box falls further by as much and rests on the same cells (`RestsAlike`),
provided that nothing is above its lowest blocks, which is what free spawn rows give and
where the table may lose a placement otherwise. Conversely two drops that rest on the
same cells have one signature and one left column (`RestsApart`), so they are one entry;
and no entry is listed twice, because an entry decodes to the orientation whose slice it
is in (`SliceDistinct`, `TableDistinct`).

**The bag** (the end of the engine's part of `TetrisEngineProofs`): `NoDroughtEver`, no piece stays away for more than
2N-2 draws, from `DroughtTypeOK /\ DroughtInv`. `NoDrought` alone is not inductive: it says
nothing of where in the two bags a piece waits. No run repeats it.

**The game** (`TetrisGameProofs`): `InFlightAlwaysFits` and `GhostAlwaysGravity`. The
invariant adds to the property that the piece in flight has its blocks over columns
of the board *whether or not the game is over*: a hold may revive a lost game, and a
lost game can be driven on, so what the next `place()` does to the board must not
rest on the piece fitting there. That it stays in the field is `LocksInField`; that
it fits again after a spawn is what `_gameOver` says, so the proof is about the cached
flag as much as about the kicks. `SameRules` carries the lemmas of `Board` over to the
instance of the engine.

**The preview** (`PreviewProofs`), from `IInv == TypeOK /\ ThreadInv /\ LockInv`.
`ThreadInv` orders the workers: all before the newest but one are done, and that one
was told to stop while the owner waits for it; `MembersDieUnused` and `OneWorkerEver`
follow. `LockInv` says what is whole while the mutex is held: up to `copied`, the
boards of the holder, on either side of the copy; with it `FramesAreWhole` also when
`stop()` drops a renderer under a worker that still publishes, because the next one
starts from a snapshot of its own. What the user does to the window touches none of it.

**The trainer** (`TrainerProofs`), from `IInv == TypeOK /\ FilesInv /\ KeptInv /\
PairInv`. `NothingIsPruned` comes first: the match that pruning uses takes no file a
backup wrote for one, so pruning is the identity for every `MAX_BACKUPS` (the
finding `trainer_prune`), and what the other three say of backups rests on it: whoever
repairs the match has to prove them anew. `LossAlwaysBounded` is not inductive: a
restore takes the *latest* whole backup of the search, so `KeptInv` says that this
one holds what was backed up last, and that neither memory nor save file is behind
it. `CheckpointAlwaysCurrent` needs where the two files are during a checkpoint
(`FilesInv`), `BackupsAlwaysPaired` that the first backup of a cycle is of this cycle
while the second is written (`PairInv`). All three hold with a full disk, and say what
it leaves: a file is `Current` when it holds the state in memory or when its last write
was cut short (`SHORT`), never when it holds an older state. A full disk thus
costs the checkpoint itself, which nobody notices (section 6).

**The evolution** (`EvolutionProofs`), from `IInv`, a conjunction of one part per
concern, most of them stated per island. None of the four properties is inductive;
what each needs says why the code is right.
- `FitnessAlwaysCurrent` speaks of two kinds of island. On one that evolved, every
  fitness is of this cycle, which needs that every batch in flight has an evaluator of its own
  that holds its models and this cycle's games (`BatchInv`, from the leases and
  `WorkersInv`: one batch per thread), that what returns is filed with the model it
  belongs to (`LaunchScores`, from `BlockIndex`: quotient and remainder of a block's
  index), and that *every* island evaluated before it ended: `NeverExits`, because both
  tolerances are zero and no individual is better than the best. Under a positive
  tolerance the proof ends there. On one that threw, the fitnesses are those it began
  with, its last migrant's too: each is the score of its model under *some* seed of this
  process (`PastInv`, carried through what an island holds in reserve by `HeldInv`; a
  seed once drawn stays in the range, `PastGrows`).
- `IslandsAlwaysDiverge`: a seed is set once per island and process (`SeededInv`), and
  samples move an engine on without touching its seed.
- `UpdatesAlwaysCountOnce`: `AdaptedFacts`, a case for each way an update can go, with
  `NextRemainder` for the decomposition every `TEIG` generations; `ResetFacts`, that
  `resetState` clears only a search with nothing to lose; and `ReadWritten`, that the
  archive names every member.
- `NoIslandEverFallsBehind`: the file holds the *best* island's search, which says
  nothing of the others unless all are equally far. They are, but for what they lost:
  what an island had evaluated before this iteration, and what its evolutions that
  threw would have added, is together the same for all (`EvenInv`). That a throw keeps
  this sum is `HeldInv`: what the island falls back to is its search as it began the
  iteration, one iteration behind, and `missed` counts one more.

Sums and minima are recursive functions or `CHOOSE`s, and that they are defined is
shown by a least counterexample (`SumsExist`, `TotalIsInt`, `FirstLeast`).

**The kernel** (`EvalKernelProofs`): `ThreadsNeverRace` and `BarriersAreUniform`, for
every number of threads, warp size (whether it divides the block or not), beam, depth
and number of moves, and whatever the weights make of a board. Neither is inductive:
where a thread goes depends on registers of its own, on `over` and on the maxima of
the warps. `IInv` says that there is *one* value `s` of the registers (`Barriers`) such
that every thread is at `s`, waits at `After(s)`, or is at one of the points between
(`Midway`), and has touched at most what this phase gives it (`Writes`, `Reads`). The
two conditions on shared memory are safe because of when it is written, and that is
the argument: a round finds the warps' maxima as all others find them, because no warp
reduces before the barrier behind the round (`PhaseKept`), and an empty round, which
ends without a barrier, is empty for all; `over` is written only in phases that no
loop head is in. `PhaseHasNoRace` then compares what two threads are given: strides,
rows of the frontier that swap, one leader per warp. The proof uses
that a block has a thread, that no warp is larger than the block, and nothing of what
the stages compute.

Only model-checked: liveness (`CallsReturn`, `NewestIsDrawn`, `StopEnds`, `KernelEnds`,
`IterationEnds`; the provers do not reach fairness), the word arithmetic (`BoardBits`
uses bit operators they do not have), and what the kernel computes
(`FrontierIsPlayable`, the refinement of `HostEval`).

## 5. What is not modelled

- `MultiTetris`: one engine per game and one move each; no other component uses it.
- `xoshiro256ss`: 64-bit arithmetic without control. Shuffles are any permutation,
  and seeds are distinct.
- Floats: networks are computed in fixed point, and the order of floats
  (`ordered_bits`, NaN) is that of integers. Host and device agree here where the code
  agrees up to rounding.
- `tetris_stats_v5`, which no configuration uses.
- The linear algebra of CMA-ES: a sample, a mean or a covariance is left out but for
  who contributed to it.
- `pagmo::cmaes`, the third algorithm a configuration may choose: library code.
- `ModelEvaluator::grow` under a failing allocation: the batches of a pooled evaluator
  all have one size, and a failed batch aborts the process before the evaluator is used again.
- Model files through dlib, device canaries, input, drawing and vendored code.
- In modelled components: the folding of mirrored leaves and the argmax in the
  exhaustive search, the packing of a plan into two words.

Beam and exhaustive search are not equal even with wide beams: at a middle level
the exhaustive search scores a position early as soon as one hold decision has no
continuation, the beam only when neither has. `WideBeamIsExhaustive` therefore
speaks of the leaves of the last two levels.

## 6. Findings

With a run that exhibits them:

- `preview_stop`: `AiPreview::stop()` (`preview.cpp:38`) destroys the renderer
  without joining the worker that publishes to it. Only the destructor is in the
  order `preview.hpp:36` describes; `DestructorJoinsFirst` checks that part.
- `trainer_stop`: enter before the first checkpoint of a new model makes the end of
  the cycle throw past the stop of preview and schedulers (`trainer2.cpp:355`).
- `trainer_prune`: pruning recognises no backup, so all of them stay
  (`backup.cpp:41`). `NothingIsPruned` proves it for every number of backups.

Noted while reading, without a run:

- `saveState()` checks that its two files open and never what it writes
  (`trainer2.cpp:249`, `:264`). A full disk leaves a short file, the iteration counts as
  saved and the cycle backs the short file up, whatever `main.cpp:95` says ("run()
  checkpoints every iteration"). `Trainer` has it (`SHORT`): `CheckpointIsCurrent` and
  `BackupsArePaired` say what the files then are, and the last whole backup survives
  (`LossIsBounded`).
- `TetrisGame::place()` drops from the spawn row, not from where the piece is:
  under an overhang the hard drop locks elsewhere than the ghost
  (`tetris_game.hpp:92`), and it may be called where the placement does not fit at
  the spawn row, against the `@pre` of `tetris_engine.hpp:42`. TLC finds both for
  an L on a 5x5 board.
- `trainer2.hpp:82` says a cycle backs up first; `runCycle()` backs up last, so a
  resumed checkpoint is overwritten before it was backed up. `trainer2.cpp:34` says
  "only saved once per cycle", the state is saved each iteration.
- `ai_renderer2.cpp:86` skips the cells for which `Board2::available(vec2)` is true,
  and that overload is true for occupied cells: the picture is inverted.
- `AiPreview::running()` stays true after `stop()`.
- The best island is chosen by fitness values that may be from the games of
  different seeds (`trainer2.cpp:221`, `:300`): a champion of an easy seed outlives
  better ones. `Evolution` models the choice; `FitnessIsCurrent` speaks of the
  populations, which are evaluated anew in every iteration that does not throw.
- An iteration whose evolution failed on some island is saved all the same
  (`trainer2.cpp:324`), and the best island may be the one that failed: then the save
  file falls back to an earlier search than it held. TLC finds this in `Evolution`;
  no statement of the repository excludes it.
- A resumed process restarts the generator of game seeds at the configured seed
  (`trainer2.cpp:41`) and trains on the same games again.
- When the second eigendecomposition of an update fails, `dd_cmaes.cpp:341` has already
  taken half of the update.
- `grow()` frees before it allocates; if that throws, pointer and capacity still name
  the freed buffer (`cuda/model_eval.cu:63`).

## 7. Plan

Order: what the games rest on first, then the search, then the concurrent parts,
then what a training run computes.

1. Done: board, bag, engine, game, placement table, plans, beam and exhaustive
   search, AI step, preview, trainer; theorems on board, engine, bag and flow.
2. Done: board metrics, models and game statistics; `eval_host` as a specification of
   its own and the kernel, thread by thread, as a refinement of it.
3. Done: evaluator, problem and algorithms as what one iteration of the trainer does.
4. Done: theorems on every safety property of engine, game, preview, trainer and
   evolution, on the barriers of the kernel, on the hold plans, and that the AI plays
   the engine, always moves, that its move is a line of the exhaustive search and, with
   wide beams, the best one, and that the placement table loses no board. Left to prove:
   what the kernel computes.
5. `MultiTetris`, if a component comes to use it; the growth of an evaluator's
   buffers, if batches come to differ in size.
