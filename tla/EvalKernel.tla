------------------------------ MODULE EvalKernel ------------------------------
(***************************************************************************)
(* eval_kernel: the threads of one block play game g with model            *)
(* g / num_games.  They share the block's memory and meet at barriers;     *)
(* between two barriers they run in any order, the lanes of a warp         *)
(* together where they shuffle.  `at` is what a thread does next: a stage  *)
(* of play_move up to its barrier, or up to where a warp has to meet.      *)
(* What a thread reads and writes between two barriers is recorded, so     *)
(* that a stage may be one step: without a race its order does not matter. *)
(***************************************************************************)
EXTENDS RulesPlayer, KernelStages, GameStats

CONSTANTS
  WarpSizes,    (* the sub-group sizes a device may run the kernel with    *)
  GameIds,      (* the blocks g                                            *)
  num_games,
  weights,      (* all models' weights, back to back                       *)
  max_moves,
  Deals,        (* bound of the model: the bags the seeds deal             *)
  JUNK          (* what shared memory holds before it is written           *)

ASSUME KernelAssumption ==
  /\ WarpSizes \subseteq 1..BLOCK
  /\ num_games \in Nat \ {0} /\ max_moves \in Nat
  /\ DEPTH + 1 <= PIECE_QUEUE_SIZE

VARIABLES
  launch,       (* the block's g, and the sub-group size                   *)
  block,        (* BlockState, the shared memory                           *)
  thread,       (* the registers of every thread                           *)
  touched,      (* what each thread read and wrote since the last barrier  *)
  stats,        (* thread 0's stats                                        *)
  fitness       (* <<fitness[g]>> once it is written                       *)

engineVars == <<board, queue, held, gameOver, bag, bagPos, ret>>
kernelVars == <<board, queue, held, gameOver, bag, bagPos, ret,
                launch, block, thread, touched, stats, fitness>>

Warps == {t \div launch.warpSize : t \in Threads}
Lanes(w) == {t \in Threads : t \div launch.warpSize = w}
Leader(w) == w * launch.warpSize

NothingTouched == [t \in Threads |-> [r |-> {}, w |-> {}]]

KernelInit ==
  /\ Init
  /\ bag \in Deals
  /\ launch \in [g : GameIds, warpSize : WarpSizes]
  /\ LET node  == [board |-> EmptyBoard, clears |-> NO_CLEARS, score |-> JUNK,
                   node |-> 0, rootRank |-> 0]
         entry == [slot |-> 0, value |-> JUNK]
     IN  block = [weights |-> [i \in Params |-> JUNK], board |-> EmptyBoard,
                  heldEmpty |-> FALSE, slot |-> <<>>,
                  rootScores |-> [s \in ROOT_SLOTS |-> JUNK],
                  midScores |-> [s \in MID_SLOTS |-> JUNK],
                  selectedRoot |-> [k \in 0..(K1 - 1) |-> entry],
                  selectedMid |-> [k \in BeamIdx |-> entry],
                  beams |-> [row \in {0, 1} |-> [k \in BeamIdx |-> node]],
                  hasChild |-> {}, segments |-> <<>>,
                  warpBest |-> [w \in Warps |-> JUNK], over |-> FALSE]
  /\ thread = [t \in Threads |->
                 [at |-> "load", waits |-> FALSE, move |-> 0, level |-> 0, cur |-> 0, n |-> 0,
                  best |-> 0, local |-> {}, count |-> 0,
                  seen |-> [old |-> {}, mine |-> {}]]]
  /\ touched = NothingTouched
  /\ stats = NEW_STATS
  /\ fitness = <<>>
-----------------------------------------------------------------------------
Runs(t, label) == thread[t].at = label /\ ~thread[t].waits

\* The registers of t afterwards; Waits also ends the stage at the barrier.
Moves(t, label, waits, regs) ==
  thread' = [thread EXCEPT ![t] =
    [r \in DOMAIN @ |-> IF r = "at" THEN label
                        ELSE IF r = "waits" THEN waits
                        ELSE IF r \in DOMAIN regs THEN regs[r] ELSE @[r]]]
Goes(t, label, regs) == Moves(t, label, FALSE, regs)
Waits(t, label, regs) == Moves(t, label, TRUE, regs)
NOT_LOOKED == [old |-> {}, mine |-> {}]
NoRegs == [best |-> 0, local |-> {}, seen |-> NOT_LOOKED]

\* A cell of the log is an array and an index; of an array that is strided
\* over the threads, the thread whose stride it is.
Touch(t, reads, writes) ==
  touched' = [touched EXCEPT ![t] = [r |-> @.r \cup reads, w |-> @.w \cup writes]]
Cells(array, indices) == {<<array, i>> : i \in indices}
Cell(name) == <<name, 0>>
Situation == {Cell("board"), Cell("slot")} \cup Cells("weights", Threads)
If0(t, cells) == IF t = 0 THEN cells ELSE {}

KeepsGame == UNCHANGED <<engineVars, launch, stats, fitness>>

\* __syncthreads: all threads have arrived.
Release ==
  /\ \A t \in Threads : thread[t].waits
  /\ thread' = [t \in Threads |-> [thread[t] EXCEPT !.waits = FALSE]]
  /\ touched' = NothingTouched
  /\ KeepsGame /\ UNCHANGED block
-----------------------------------------------------------------------------
\* eval_kernel up to the loop: the weights, and whether there is a game at all.
Load(t) ==
  /\ Runs(t, "load")
  /\ block' = [block EXCEPT
       !.weights = [i \in Params |->
          IF i % BLOCK = t THEN weights[(launch.g \div num_games) * NUM_PARAMS + i] ELSE @[i]],
       !.over = IF t = 0 THEN gameOver ELSE @]
  /\ Touch(t, If0(t, {Cell("game")}), Cells("weights", {t}) \cup If0(t, {Cell("over")}))
  /\ Waits(t, "move", NoRegs)
  /\ KeepsGame

\* reset_move_state
ResetMoveState(t) ==
  /\ block' = [block EXCEPT
       !.board      = IF t = 0 THEN board ELSE @,
       !.heldEmpty  = IF t = 0 THEN held = NO_PIECE ELSE @,
       !.slot       = IF t = 0 THEN gather_slots(queue, held) ELSE @,
       !.rootScores = [s \in ROOT_SLOTS |-> IF s % BLOCK = t THEN 0 ELSE @[s]]]
  /\ Touch(t, {Cell("over")} \cup If0(t, {Cell("game")}),
           Cells("rootScores", {t}) \cup If0(t, {Cell("board"), Cell("slot")}))
  /\ Waits(t, "roots", NoRegs)

\* The head of the loop over the moves.
StartMove(t) ==
  /\ Runs(t, "move")
  /\ thread[t].move < max_moves /\ ~block.over
  /\ ResetMoveState(t)
  /\ KeepsGame

LeaveLoop(t) ==
  /\ Runs(t, "move")
  /\ thread[t].move >= max_moves \/ block.over
  /\ Touch(t, {Cell("over")}, {})
  /\ Goes(t, IF t = 0 THEN "score" ELSE "done", NoRegs)
  /\ KeepsGame /\ UNCHANGED block

\* score_roots
ScoreRoots(t) ==
  /\ Runs(t, "roots")
  /\ block' = [block EXCEPT !.rootScores = WithEntries(@, RootEntries(block, t))]
  /\ Touch(t, Situation, Cells("rootScores", {t}))
  /\ Waits(t, "sort", [level |-> 0, cur |-> 0, n |-> 0])
  /\ KeepsGame

\* Where play_move goes with the frontier of `level`.
NextStage(level) == IF level + 1 < DEPTH - 1 THEN "level" ELSE "leaves"

\* A middle level is prepared: thread 0 writes the segment table.
PrepareLevel(t) ==
  /\ Runs(t, "level")
  /\ LET me == thread[t]
     IN  /\ block' = [block EXCEPT
              !.midScores = [s \in MID_SLOTS |-> IF s % BLOCK = t THEN 0 ELSE @[s]],
              !.hasChild  = IF t = 0 THEN {} ELSE @,
              !.segments  = IF t = 0 THEN SegmentsOf(block, me.level, block.beams[me.cur], me.n)
                            ELSE @]
         /\ Touch(t, If0(t, {Cell("slot")} \cup Cells("beam", {<<me.cur, k>> : k \in 0..(me.n - 1)})),
                  Cells("midScores", {t}) \cup If0(t, {Cell("hasChild"), Cell("segments")}))
  /\ Waits(t, "mid", <<>>)
  /\ KeepsGame

\* score_mid, with one look at hasChild.  Another thread may be setting it,
\* and the look may be old: it sees some of the bits set by now.
ScoreMid(t) ==
  /\ Runs(t, "mid")
  /\ LET me      == thread[t]
         entries == MidEntries(block, block.beams[me.cur], t)
     IN  /\ block' = [block EXCEPT !.midScores = WithEntries(@, entries)]
         /\ \E seen \in {{}, block.hasChild} :
              Goes(t, "mark", [seen |-> [old |-> seen, mine |-> {e.beamIdx : e \in entries}]])
         /\ Touch(t, Situation \cup {Cell("segments")} \cup
                       Cells("beam", {<<me.cur, k>> : k \in 0..(me.n - 1)}),
                  Cells("midScores", {t}))
  /\ KeepsGame

\* The atomicOrs of score_mid, for the bits that were not seen.
MarkChildren(t) ==
  /\ Runs(t, "mark")
  /\ block' = [block EXCEPT !.hasChild = @ \cup (thread[t].seen.mine \ thread[t].seen.old)]
  /\ Waits(t, "sort", [seen |-> NOT_LOOKED])
  /\ KeepsGame /\ UNCHANGED touched
-----------------------------------------------------------------------------
\* select_top_block: the thread packs its own entries, to offer the largest ...
SortLocal(t) ==
  /\ Runs(t, "sort")
  /\ LET roots  == thread[t].level = 0
         scores == IF roots THEN block.rootScores ELSE block.midScores
         keys   == {pack_key(scores[s], s, Cardinality(DOMAIN scores)) :
                      s \in {s \in Stride(t, DOMAIN scores) : scores[s] # 0}}
     IN  /\ Goes(t, "offer", [local |-> keys, count |-> 0])
         /\ Touch(t, Cells(IF roots THEN "rootScores" ELSE "midScores", {t}), {})
  /\ KeepsGame /\ UNCHANGED block

Offer(t) == MaxKey(thread[t].local)

\* ... a warp reduces what its lanes offer (block_max_bcast) ...
ReduceOffers(w) ==
  /\ \A t \in Lanes(w) : Runs(t, "offer")
  /\ block' = [block EXCEPT !.warpBest[w] = Max({Offer(t) : t \in Lanes(w)})]
  /\ Touch(Leader(w), {}, Cells("warpBest", {w}))
  /\ thread' = [t \in Threads |->
       IF t \in Lanes(w) THEN [thread[t] EXCEPT !.at = "pick", !.waits = TRUE] ELSE thread[t]]
  /\ KeepsGame

BlockBest == Max({block.warpBest[w] : w \in Warps})

\* Mutant: no barrier at the end of a round; the next reduction may start.
EndRoundFree(t, label, regs) == Goes(t, label, regs)
EndRound(t, label, regs) == Waits(t, label, regs)

\* Mutant: a thread leaves the selection when it has nothing left itself.
SelectionOverOwn(t) == Offer(t) = 0
SelectionOver(t) == BlockBest = 0

\* ... and every thread takes the best of the warps, its owner pops it and
\* thread 0 writes it down.  An empty round ends the selection at once.
Pick(t) ==
  /\ Runs(t, "pick")
  /\ LET me    == thread[t]
         root  == me.level = 0
         space == Cardinality(IF root THEN ROOT_SLOTS ELSE MID_SLOTS)
         pick  == [slot |-> key_pos(BlockBest, space), value |-> key_value(BlockBest)]
         writes == t = 0 /\ BlockBest # 0
         popped == me.local \ {BlockBest}
     IN  /\ block' = [block EXCEPT
              !.selectedRoot = IF writes /\ root THEN [@ EXCEPT ![me.count] = pick] ELSE @,
              !.selectedMid  = IF writes /\ ~root THEN [@ EXCEPT ![me.count] = pick] ELSE @]
         /\ Touch(t, Cells("warpBest", Warps),
                  IF writes THEN Cells(IF root THEN "selRoot" ELSE "selMid", {me.count}) ELSE {})
         /\ IF SelectionOver(t) THEN Goes(t, "keep", [local |-> {}])
            ELSE IF me.count + 1 = Width(Ks, me.level)
              THEN EndRound(t, "keep", [local |-> {}, count |-> me.count + 1])
              ELSE EndRound(t, "offer", [local |-> popped, count |-> me.count + 1])
  /\ KeepsGame
-----------------------------------------------------------------------------
\* cache_kept_roots; without a root the game is over and the move returns.
KeepRoots(t) ==
  /\ Runs(t, "keep") /\ thread[t].level = 0
  /\ LET me == thread[t]
     IN  IF me.count = 0
           THEN /\ block' = [block EXCEPT !.over = @ \/ t = 0]
                /\ Touch(t, {}, If0(t, {Cell("over")}))
                /\ Waits(t, "move", [move |-> me.move + 1])
           ELSE /\ block' = IF t < me.count
                              THEN [block EXCEPT !.beams[0][t] = KeptRoot(block, t)] ELSE block
                /\ IF t < me.count
                     THEN Touch(t, Situation \cup Cells("selRoot", {t}), Cells("beam", {<<0, t>>}))
                     ELSE UNCHANGED touched
                /\ Waits(t, NextStage(0), [level |-> 1, n |-> me.count, best |-> 0])
  /\ KeepsGame

\* A kept node without a continuation is a leaf, offered by its thread.
BestAfterLevel(t) ==
  LET me == thread[t]
  IN  IF t < me.n /\ t \notin block.hasChild
        THEN MaxKey({me.best, MidFallback(block.beams[me.cur], t)}) ELSE me.best

\* Mutant: a thread without a node to cache leaves the level at once.
EndLevelEarly(t, label, regs) ==
  IF t < thread[t].count THEN Waits(t, label, regs) ELSE Goes(t, label, regs)
EndLevel(t, label, regs) == Waits(t, label, regs)

\* The fallbacks and cache_kept_mid; the rows of the frontier swap.
KeepMid(t) ==
  /\ Runs(t, "keep") /\ thread[t].level > 0
  /\ LET me  == thread[t]
         row == block.beams[me.cur]
     IN  /\ block' = IF t < me.count
                       THEN [block EXCEPT !.beams[1 - me.cur][t] = KeptMid(block, row, t)]
                       ELSE block
         /\ Touch(t, (IF t < me.n THEN {Cell("hasChild"), <<"beam", <<me.cur, t>>>>} ELSE {}) \cup
                     (IF t < me.count
                        THEN {Cell("segments"), <<"selMid", t>>} \cup
                             Cells("beam", {<<me.cur, k>> : k \in 0..(me.n - 1)})
                        ELSE {}),
                  IF t < me.count THEN Cells("beam", {<<1 - me.cur, t>>}) ELSE {})
         /\ EndLevel(t, NextStage(me.level),
                  [best |-> BestAfterLevel(t), cur |-> 1 - me.cur, n |-> me.count,
                      level |-> me.level + 1])
  /\ KeepsGame

\* expand_leaves_and_reduce: warp w takes every numSubgroups-th kept node, its
\* lanes share the flat list of placements and the mask of legal lists.
ExpandLeaves(w) ==
  /\ \A t \in Lanes(w) : Runs(t, "leaves")
  /\ LET me    == thread[Leader(w)]
         row   == block.beams[me.cur]
         nodes == {i \in 0..(me.n - 1) : i % Cardinality(Warps) = w}
         keys  == UNION {WarpLeafKeys(block, row[i], i, Cardinality(Lanes(w))) : i \in nodes}
     IN  /\ block' = [block EXCEPT !.warpBest[w] = MaxKey(keys \cup {thread[t].best : t \in Lanes(w)})]
         /\ touched' = [t \in Threads |->
              IF t \in Lanes(w)
                THEN [r |-> touched[t].r \cup Situation \cup Cells("beam", {<<me.cur, i>> : i \in nodes}),
                      w |-> touched[t].w \cup (IF t = Leader(w) THEN Cells("warpBest", {w}) ELSE {})]
                ELSE touched[t]]
  /\ thread' = [t \in Threads |->
       IF t \in Lanes(w) THEN [thread[t] EXCEPT !.at = "commit", !.waits = TRUE] ELSE thread[t]]
  /\ KeepsGame

Tree == PLAN_TREES[block.heldEmpty]

\* The winner's root move, from what the last frontier remembers.
RowOf(t) == block.beams[thread[t].cur]
MoveOf(winner) == RootMove(Tree, block.slot, WinnerRoot(block, RowOf(0), winner))

\* commit_move's place() and what follows it: the stats, and whether it is over.
Places(move) ==
  /\ EnginePlaces(move.orientation, move.x)
  /\ ret' = PlaceResult(move.orientation, move.x)
  /\ stats' = IF ret' = DIED THEN stats ELSE advance(stats, board', ret')
  /\ block' = [block EXCEPT !.over = @ \/ ret' = DIED \/ gameOver']

NextMove(t) == Waits(t, "move", [move |-> thread[t].move + 1, best |-> 0])

\* Every thread has the winner; the others are done with the move.
Follow(t) ==
  /\ Runs(t, "commit") /\ t # 0
  /\ Touch(t, Cells("warpBest", Warps), {})
  /\ NextMove(t)
  /\ KeepsGame /\ UNCHANGED block

CommitReads == Cells("warpBest", Warps) \cup {Cell("slot")} \cup Cells("selRoot", 0..(K1 - 1))
                 \cup Cells("beam", {<<thread[0].cur, k>> : k \in BeamIdx})

\* commit_move for a move that holds first.
CommitHold ==
  /\ Runs(0, "commit")
  /\ MoveOf(BlockBest).hold
  /\ Hold /\ bag' \in Deals
  /\ Touch(0, CommitReads, {Cell("game")})
  /\ Goes(0, "place", [best |-> BlockBest])
  /\ UNCHANGED <<launch, block, stats, fitness>>

CommitPlace ==
  /\ \/ Runs(0, "place") /\ Places(MoveOf(thread[0].best))
     \/ Runs(0, "commit") /\ ~MoveOf(BlockBest).hold /\ Places(MoveOf(BlockBest))
  /\ bag' \in Deals
  /\ Touch(0, CommitReads, {Cell("game"), Cell("over")})
  /\ NextMove(0)
  /\ UNCHANGED <<launch, fitness>>

\* The end of eval_kernel: thread 0 writes fitness[g].
WriteFitness ==
  /\ Runs(0, "score")
  /\ fitness' = <<Fitness(stats)>>
  /\ Goes(0, "done", <<>>)
  /\ UNCHANGED <<engineVars, launch, block, touched, stats>>

ThreadStep(t) ==
  \/ Load(t) \/ StartMove(t) \/ LeaveLoop(t) \/ ScoreRoots(t) \/ PrepareLevel(t)
  \/ ScoreMid(t) \/ MarkChildren(t) \/ SortLocal(t) \/ Pick(t) \/ KeepRoots(t)
  \/ KeepMid(t) \/ Follow(t)

CommitStep == CommitHold \/ CommitPlace \/ WriteFitness

WarpStep(w) == ReduceOffers(w) \/ ExpandLeaves(w)

KernelNext ==
  \/ \E t \in Threads : ThreadStep(t)
  \/ CommitStep
  \/ \E w \in Warps : WarpStep(w)
  \/ Release

\* Whether t can do something other than wait; where a warp shuffles, its lanes
\* have to be together.
Ready(t) ==
  /\ ~thread[t].waits /\ thread[t].at # "done"
  /\ thread[t].at \in {"offer", "leaves"} =>
       \A u \in Lanes(t \div launch.warpSize) : Runs(u, thread[t].at)

\* A block that is resident runs all its threads: weak fairness of every
\* thread's step, written out with Ready for ENABLED.
RunsOn(t) == <>[]Ready(t) => []<><<thread'[t] # thread[t]>>_kernelVars

KernelSpec ==
  /\ KernelInit /\ [][KernelNext]_kernelVars
  /\ \A t \in Threads : RunsOn(t)
  /\ WF_kernelVars(Release)
-----------------------------------------------------------------------------
\* Between two barriers no thread touches what another one writes: the barrier
\* behind every round of a selection protects warpBest against the next round,
\* the segment table and the frontier rows are published before they are read,
\* and thread 0 alone has the game.  (hasChild is marked with atomics.)
NoDataRace ==
  \A t, u \in Threads :
    t # u => touched[t].w \cap (touched[u].r \cup touched[u].w) = {}

\* All threads reach the same barrier, in the same round of the same level of
\* the same move: every condition they leave a loop on has one value in the
\* block, the frontier's width and the end of a selection included.  And none
\* of them waits at a barrier after another has left the game for good.
BarrierUniform ==
  \A t, u \in Threads : thread[t].waits =>
    /\ thread[u].at \notin {"score", "done"}
    /\ thread[u].waits =>
         \A reg \in {"at", "move", "level", "cur", "n", "count"} : thread[t][reg] = thread[u][reg]

\* A frontier as it is handed to the next stage: every node is a position the
\* rules of the engine allow after as many moves, by a line that begins with
\* the root it is filed under, and it is scored as what it is: the segments,
\* the compacted work ids, the packed keys and the strided selection of all
\* the threads together lose track of nothing.
FrontierIsPlayable ==
  (\A t \in Threads : thread[t].waits /\ thread[t].at \in {"level", "leaves"}) =>
    LET me    == thread[0]
        row   == RowOf(0)
        root  == [k \in 0..(me.n - 1) |->
                    RootMove(Tree, block.slot, block.selectedRoot[row[k].rootRank].slot)]
        lines == Played({root[k] : k \in DOMAIN root}, me.level)
    IN  \A k \in DOMAIN root : \E line \in lines :
          /\ line.root = root[k]
          /\ line.pos.board = row[k].board
          /\ line.pos.clears = row[k].clears
          /\ row[k].score =
               ordered_bits(Evaluate(block.weights, row[k].clears, row[k].board, line.pos.held = "I"))

\* One row of the weight table for each model.
ModelOf(g) == [i \in Params |-> weights[(g \div num_games) * NUM_PARAMS + i]]

\* The block plays the game ModelEvaluator::eval_host plays, move by move, and
\* writes the same fitness: whatever the order of the threads and the width of
\* a warp, the parallel stages choose what search_move_beam chooses.
HostSearch(q, h, b, w) == search_move_beam(Ks, q, h, b, w)
Host == INSTANCE HostEval WITH
  Search <- HostSearch,
  ModelWeights <- {ModelOf(g) : g \in GameIds},
  model <- ModelOf(launch.g),
  moves <- thread[0].move,
  committing <- IF thread[0].at = "place" THEN <<MoveOf(thread[0].best)>> ELSE <<>>
ImplementsHostEval == Host!HostSpec

\* Every block ends: no thread is left at a barrier or in front of a shuffle
\* that another one never reaches.
KernelEnds == <>(\A t \in Threads : thread[t].at = "done")
=============================================================================
