--------------------------- MODULE EvalKernelProofs ---------------------------
(***************************************************************************)
(* The barriers of the evaluation kernel, for any block, warp, beam and    *)
(* depth, and whatever a model scores.                                     *)
(***************************************************************************)
EXTENDS EvalKernel, TLAPS

Registers ==
  {"at", "waits", "move", "level", "cur", "n", "best", "local", "count", "seen"}
Arrays ==
  {"weights", "board", "heldEmpty", "slot", "rootScores", "midScores", "selectedRoot",
   "selectedMid", "beams", "hasChild", "segments", "warpBest", "over"}

\* The registers that decide where a thread goes: where the block was at a
\* barrier is one value of them.
Barriers ==
  [at : {"load", "move", "roots", "sort", "offer", "pick", "keep", "level", "mid", "leaves",
         "commit"},
   move : Nat, level : Nat, cur : {0, 1}, n : Nat, count : Nat]

ShapeInv ==
  /\ DOMAIN thread = Threads /\ \A t \in Threads : DOMAIN thread[t] = Registers
  /\ DOMAIN touched = Threads /\ \A t \in Threads : DOMAIN touched[t] = {"r", "w"}
  /\ DOMAIN block = Arrays
  /\ launch.warpSize \in WarpSizes

\* Whether there is another move to play.
Plays(s) == s.move < max_moves /\ ~block.over

\* The barrier behind the kept nodes of a level, roots included.
AfterKeep(s) ==
  IF s.level > 0
    THEN [s EXCEPT !.at = NextStage(s.level), !.level = s.level + 1, !.cur = 1 - s.cur,
                   !.n = s.count]
    ELSE IF s.count = 0 THEN [s EXCEPT !.at = "move", !.move = s.move + 1]
                        ELSE [s EXCEPT !.at = NextStage(0), !.level = 1, !.n = s.count]

\* The barrier behind a round of the selection.
AfterPick(s) ==
  IF BlockBest = 0 THEN AfterKeep(s)
  ELSE [s EXCEPT !.at = IF s.count + 1 = Width(Ks, s.level) THEN "keep" ELSE "offer",
                 !.count = s.count + 1]

\* The barrier that follows the one at s.
After(s) ==
  CASE s.at = "load"   -> [s EXCEPT !.at = "move"]
    [] s.at = "move"   -> [s EXCEPT !.at = "roots"]
    [] s.at = "roots"  -> [s EXCEPT !.at = "sort", !.level = 0, !.cur = 0, !.n = 0]
    [] s.at = "sort"   -> [s EXCEPT !.at = "pick", !.count = 0]
    [] s.at = "offer"  -> [s EXCEPT !.at = "pick"]
    [] s.at = "pick"   -> AfterPick(s)
    [] s.at = "keep"   -> AfterKeep(s)
    [] s.at = "level"  -> [s EXCEPT !.at = "mid"]
    [] s.at = "mid"    -> [s EXCEPT !.at = "sort"]
    [] s.at = "leaves" -> [s EXCEPT !.at = "commit"]
    [] s.at = "commit" -> [s EXCEPT !.at = "move", !.move = s.move + 1]

Here(t, waits, s) ==
  /\ thread[t].waits = waits /\ thread[t].at = s.at /\ thread[t].move = s.move
  /\ thread[t].level = s.level /\ thread[t].cur = s.cur
  /\ thread[t].n = s.n /\ thread[t].count = s.count

\* Where a thread can be between two barriers other than at one of them.
Midway(s, t) ==
  \/ s.at = "move" /\ ~Plays(s) /\ Here(t, FALSE, [s EXCEPT !.at = "done"])
  \/ s.at = "move" /\ ~Plays(s) /\ t = 0 /\ Here(t, FALSE, [s EXCEPT !.at = "score"])
  \/ s.at = "sort" /\ Here(t, FALSE, [s EXCEPT !.at = "offer", !.count = 0])
  \/ s.at = "pick" /\ BlockBest = 0 /\ Here(t, FALSE, [s EXCEPT !.at = "keep"])
  \/ s.at = "mid" /\ Here(t, FALSE, [s EXCEPT !.at = "mark"])
  \/ s.at = "commit" /\ t = 0 /\ Here(t, FALSE, [s EXCEPT !.at = "place"])

Reached(s, t) ==
  \/ Here(t, FALSE, s)
  \/ Midway(s, t)
  \/ (s.at = "move" => Plays(s)) /\ Here(t, TRUE, After(s))

\* What a thread may have written and read since the barrier at s.
BeamCells(row) == Cells("beam", {<<row, k>> : k \in Int})
LeaderCells(t) == Cells("warpBest", {w \in Warps : Leader(w) = t})

KeepWrites(s, t) ==
  IF s.level > 0 THEN Cells("beam", {<<1 - s.cur, t>>})
  ELSE IF s.count = 0 THEN If0(t, {Cell("over")}) ELSE Cells("beam", {<<0, t>>})
KeepReads(s, t) ==
  IF s.level > 0
    THEN {Cell("hasChild"), Cell("segments"), <<"selMid", t>>} \cup BeamCells(s.cur)
    ELSE IF s.count = 0 THEN {} ELSE Situation \cup Cells("selRoot", {t})

Writes(s, t) ==
  CASE s.at = "load"   -> Cells("weights", {t}) \cup If0(t, {Cell("over")})
    [] s.at = "move"   -> Cells("rootScores", {t}) \cup If0(t, {Cell("board"), Cell("slot")})
    [] s.at = "roots"  -> Cells("rootScores", {t})
    [] s.at \in {"sort", "offer", "leaves"} -> LeaderCells(t)
    [] s.at = "pick"   ->
         IF BlockBest = 0 THEN KeepWrites(s, t)
         ELSE If0(t, Cells("selRoot", {s.count}) \cup Cells("selMid", {s.count}))
    [] s.at = "keep"   -> KeepWrites(s, t)
    [] s.at = "level"  -> Cells("midScores", {t}) \cup If0(t, {Cell("hasChild"), Cell("segments")})
    [] s.at = "mid"    -> Cells("midScores", {t})
    [] s.at = "commit" -> If0(t, {Cell("game"), Cell("over")})

Reads(s, t) ==
  CASE s.at = "load"   -> If0(t, {Cell("game")})
    [] s.at = "move"   -> {Cell("over")} \cup If0(t, {Cell("game")})
    [] s.at = "roots"  -> Situation
    [] s.at = "sort"   -> Cells("rootScores", {t}) \cup Cells("midScores", {t})
    [] s.at = "offer"  -> {}
    [] s.at = "pick"   ->
         Cells("warpBest", Warps) \cup (IF BlockBest = 0 THEN KeepReads(s, t) ELSE {})
    [] s.at = "keep"   -> KeepReads(s, t)
    [] s.at = "level"  -> If0(t, {Cell("slot")} \cup BeamCells(s.cur))
    [] s.at = "mid"    -> Situation \cup {Cell("segments")} \cup BeamCells(s.cur)
    [] s.at = "leaves" -> Situation \cup BeamCells(s.cur)
    [] s.at = "commit" -> Cells("warpBest", Warps) \cup
         If0(t, {Cell("slot")} \cup Cells("selRoot", 0..(K1 - 1)) \cup BeamCells(s.cur))

TouchedInv(s, t) == touched[t].w \subseteq Writes(s, t) /\ touched[t].r \subseteq Reads(s, t)

Between(s) == \A t \in Threads : Reached(s, t) /\ TouchedInv(s, t)

IInv == ShapeInv /\ \E s \in Barriers : Between(s)
-----------------------------------------------------------------------------
\* The registers of the thread that moves, and nobody else's.
LEMMA MovesFacts ==
  ASSUME ShapeInv, NEW t \in Threads, NEW label, NEW waits, NEW regs,
         Moves(t, label, waits, regs)
  PROVE  /\ DOMAIN thread' = Threads
         /\ \A u \in Threads : DOMAIN thread'[u] = Registers
         /\ \A u \in Threads : u # t => thread'[u] = thread[u]
         /\ thread'[t].at = label /\ thread'[t].waits = waits
         /\ thread'[t].move = IF "move" \in DOMAIN regs THEN regs.move ELSE thread[t].move
         /\ thread'[t].level = IF "level" \in DOMAIN regs THEN regs.level ELSE thread[t].level
         /\ thread'[t].cur = IF "cur" \in DOMAIN regs THEN regs.cur ELSE thread[t].cur
         /\ thread'[t].n = IF "n" \in DOMAIN regs THEN regs.n ELSE thread[t].n
         /\ thread'[t].count = IF "count" \in DOMAIN regs THEN regs.count ELSE thread[t].count
BY DEF Moves, ShapeInv, Registers

\* The log of the thread that touches something, and nobody else's.
LEMMA TouchFacts ==
  ASSUME ShapeInv, NEW t \in Threads, NEW reads, NEW writes, Touch(t, reads, writes)
  PROVE  /\ DOMAIN touched' = Threads
         /\ \A u \in Threads : DOMAIN touched'[u] = {"r", "w"}
         /\ \A u \in Threads : u # t => touched'[u] = touched[u]
         /\ touched'[t].r = touched[t].r \cup reads
         /\ touched'[t].w = touched[t].w \cup writes
BY DEF Touch, ShapeInv

\* What the warps left for the block is still there.
LEMMA BlockBestKept ==
  ASSUME launch' = launch, block'.warpBest = block.warpBest
  PROVE  BlockBest' = BlockBest
<1>1. Warps' = Warps
  BY DEF Warps
<1>2. {block'.warpBest[w] : w \in Warps'} = {block.warpBest[w] : w \in Warps}
  BY <1>1
<1>3. QED
  BY <1>2 DEF BlockBest

\* What a phase is, does not change in it.
PhaseKept(s) ==
  /\ launch' = launch
  /\ s.at = "pick" => BlockBest' = BlockBest
  /\ s.at = "move" => block'.over = block.over

\* A thread that has done nothing is where it was, and its log fits.
LEMMA OthersKeep ==
  ASSUME NEW s \in Barriers, NEW u \in Threads, PhaseKept(s)
  PROVE  /\ Reached(s, u) /\ thread'[u] = thread[u] => Reached(s, u)'
         /\ TouchedInv(s, u) /\ touched'[u] = touched[u] => TouchedInv(s, u)'
         /\ Writes(s, u)' = Writes(s, u) /\ Reads(s, u)' = Reads(s, u)
<1>1. (s.at = "move" => Plays(s)' = Plays(s))
  BY DEF PhaseKept, Plays
<1>2. After(s)' = After(s)
  BY DEF PhaseKept, After, AfterPick, AfterKeep, Barriers
<1>3. Writes(s, u)' = Writes(s, u) /\ Reads(s, u)' = Reads(s, u)
  <2>1. LeaderCells(u)' = LeaderCells(u) /\ Cells("warpBest", Warps)' = Cells("warpBest", Warps)
    BY DEF PhaseKept, LeaderCells, Warps, Leader
  <2>2. QED
    BY <2>1 DEF PhaseKept, Writes, Reads
<1>4. ASSUME thread'[u] = thread[u], Reached(s, u)
      PROVE  Reached(s, u)'
  BY <1>1, <1>2, <1>4 DEF Reached, Midway, Here, PhaseKept
<1>5. QED
  BY <1>3, <1>4 DEF TouchedInv

\* A step inside a phase: all that is left to show is where the threads that
\* moved are, and what they touched.
LEMMA StepKeeps ==
  ASSUME NEW s \in Barriers, Between(s), PhaseKept(s), ShapeInv',
         \A u \in Threads : thread'[u] = thread[u] \/ Reached(s, u)',
         \A u \in Threads : touched'[u] = touched[u] \/ TouchedInv(s, u)'
  PROVE  IInv'
<1>1. ASSUME NEW u \in Threads
      PROVE  Reached(s, u)' /\ TouchedInv(s, u)'
  BY OthersKeep DEF Between
<1>2. Between(s)'
  BY <1>1 DEF Between
<1>3. QED
  BY <1>2 DEF IInv

\* The same for a step of one thread.
LEMMA ThreadKeeps ==
  ASSUME ShapeInv, NEW s \in Barriers, Between(s), NEW t \in Threads,
         NEW label, NEW waits, NEW regs, Moves(t, label, waits, regs),
         NEW reads, NEW writes, Touch(t, reads, writes) \/ touched' = touched,
         reads \subseteq Reads(s, t), writes \subseteq Writes(s, t),
         PhaseKept(s), DOMAIN block' = Arrays, Reached(s, t)'
  PROVE  IInv'
<1>1. ShapeInv'
  BY MovesFacts, TouchFacts DEF ShapeInv, PhaseKept
<1>2. \A u \in Threads : thread'[u] = thread[u] \/ Reached(s, u)'
  BY MovesFacts
<1>3. ASSUME NEW u \in Threads
      PROVE  touched'[u] = touched[u] \/ TouchedInv(s, u)'
  <2>1. CASE touched' = touched \/ u # t
    BY <2>1, TouchFacts
  <2>2. CASE Touch(t, reads, writes) /\ u = t
    <3>1. /\ touched'[t].r = touched[t].r \cup reads
          /\ touched'[t].w = touched[t].w \cup writes
      BY <2>2, TouchFacts
    <3>2. Writes(s, t)' = Writes(s, t) /\ Reads(s, t)' = Reads(s, t)
      BY OthersKeep
    <3>3. TouchedInv(s, t)
      BY DEF Between
    <3>4. QED
      BY <2>2, <3>1, <3>2, <3>3 DEF TouchedInv
  <2>3. QED
    BY <2>1, <2>2
<1>4. QED
  BY <1>1, <1>2, <1>3, StepKeeps

\* A thread that runs has the registers of its phase.
LEMMA WhereRuns ==
  ASSUME NEW s \in Barriers, Between(s), NEW t \in Threads, NEW label, Runs(t, label)
  PROVE  /\ thread[t].at = label
         /\ thread[t].move = s.move /\ thread[t].level = s.level
         /\ thread[t].cur = s.cur /\ thread[t].n = s.n
         /\ thread[t].count = IF label = "offer" /\ s.at = "sort" THEN 0 ELSE s.count
         /\ label = "offer" => s.at \in {"sort", "offer"}
         /\ label = "keep" => s.at = "keep" \/ (s.at = "pick" /\ BlockBest = 0)
         /\ label = "mark" => s.at = "mid"
         /\ label = "place" => s.at = "commit" /\ t = 0
         /\ label = "score" => s.at = "move" /\ ~Plays(s) /\ t = 0
         /\ label = "done" => s.at = "move" /\ ~Plays(s)
         /\ label \notin {"offer", "keep", "mark", "place", "score", "done"} => s.at = label
<1>1. Here(t, FALSE, s) \/ Midway(s, t)
  BY DEF Runs, Between, Reached, Here
<1>2. CASE Here(t, FALSE, s)
  BY <1>2 DEF Here, Runs, Barriers
<1>3. CASE Midway(s, t)
  BY <1>3 DEF Midway, Here, Runs, Barriers
<1>4. QED
  BY <1>1, <1>2, <1>3
-----------------------------------------------------------------------------
\* Where a thread gets to, with the registers s.
Arrives(t, label, waits, s) ==
  /\ thread'[t].at = label /\ thread'[t].waits = waits
  /\ thread'[t].move = s.move /\ thread'[t].level = s.level /\ thread'[t].cur = s.cur
  /\ thread'[t].n = s.n /\ thread'[t].count = s.count

\* A thread that gives none of the shared registers a value keeps them.
LEMMA SameRegisters ==
  ASSUME ShapeInv, NEW s \in Barriers, Between(s), NEW t \in Threads,
         NEW from, Runs(t, from), from # "offer",
         NEW label, NEW waits, NEW regs, Moves(t, label, waits, regs),
         DOMAIN regs \cap {"move", "level", "cur", "n", "count"} = {}
  PROVE  Arrives(t, label, waits, s)
<1>1. /\ thread[t].move = s.move /\ thread[t].level = s.level /\ thread[t].cur = s.cur
      /\ thread[t].n = s.n /\ thread[t].count = s.count
  BY WhereRuns
<1>2. /\ thread'[t].at = label /\ thread'[t].waits = waits
      /\ thread'[t].move = thread[t].move /\ thread'[t].level = thread[t].level
      /\ thread'[t].cur = thread[t].cur /\ thread'[t].n = thread[t].n
      /\ thread'[t].count = thread[t].count
  <2>1. {"move", "level", "cur", "n", "count"} \cap DOMAIN regs = {}
    OBVIOUS
  <2>2. QED
    BY <2>1, MovesFacts
<1>3. QED
  BY <1>1, <1>2 DEF Arrives

\* A thread that gives them values takes those.
LEMMA NewRegisters ==
  ASSUME ShapeInv, NEW t \in Threads, NEW label, NEW waits, NEW regs, NEW s,
         Moves(t, label, waits, regs),
         s.move = IF "move" \in DOMAIN regs THEN regs.move ELSE thread[t].move,
         s.level = IF "level" \in DOMAIN regs THEN regs.level ELSE thread[t].level,
         s.cur = IF "cur" \in DOMAIN regs THEN regs.cur ELSE thread[t].cur,
         s.n = IF "n" \in DOMAIN regs THEN regs.n ELSE thread[t].n,
         s.count = IF "count" \in DOMAIN regs THEN regs.count ELSE thread[t].count
  PROVE  Arrives(t, label, waits, s)
BY MovesFacts DEF Arrives

\* NoRegs gives none of them a value.
LEMMA NoRegsNames ==
  DOMAIN NoRegs \cap {"move", "level", "cur", "n", "count"} = {}
BY DEF NoRegs

\* Load is the whole phase of its name.
LEMMA LoadKeeps ==
  ASSUME ShapeInv, NEW s \in Barriers, Between(s), NEW t \in Threads, Load(t)
  PROVE  IInv'
<1>1. Moves(t, "move", TRUE, NoRegs) /\ Runs(t, "load")
  BY DEF Load, Waits
<1>2. s.at = "load" /\ PhaseKept(s) /\ DOMAIN block' = Arrays
  BY <1>1, WhereRuns DEF Load, KeepsGame, PhaseKept, ShapeInv
<1>3. Arrives(t, "move", TRUE, s)
  BY <1>1, SameRegisters, NoRegsNames
<1>4. Reached(s, t)'
  BY <1>2, <1>3 DEF Arrives, Reached, Here, After, Barriers
<1>5. QED
  BY <1>1, <1>2, <1>4, ThreadKeeps DEF Load, Reads, Writes

\* A thread that starts a move finds the game going, as the others do.
LEMMA StartMoveKeeps ==
  ASSUME ShapeInv, NEW s \in Barriers, Between(s), NEW t \in Threads, StartMove(t)
  PROVE  IInv'
<1>1. Moves(t, "roots", TRUE, NoRegs) /\ Runs(t, "move")
  BY DEF StartMove, ResetMoveState, Waits
<1>2. s.at = "move" /\ PhaseKept(s) /\ DOMAIN block' = Arrays
  BY <1>1, WhereRuns DEF StartMove, ResetMoveState, KeepsGame, PhaseKept, ShapeInv
<1>3. Plays(s)'
  BY <1>1, <1>2, WhereRuns DEF StartMove, Plays, PhaseKept
<1>4. Arrives(t, "roots", TRUE, s)
  BY <1>1, SameRegisters, NoRegsNames
<1>5. Reached(s, t)'
  BY <1>2, <1>3, <1>4 DEF Arrives, Reached, Here, After, Barriers
<1>6. QED
  BY <1>1, <1>2, <1>5, ThreadKeeps DEF StartMove, ResetMoveState, Reads, Writes

\* A thread that leaves the loop finds it over, as the others do.
LEMMA LeaveLoopKeeps ==
  ASSUME ShapeInv, NEW s \in Barriers, Between(s), NEW t \in Threads, LeaveLoop(t)
  PROVE  IInv'
<1>1. Moves(t, IF t = 0 THEN "score" ELSE "done", FALSE, NoRegs) /\ Runs(t, "move")
  BY DEF LeaveLoop, Goes
<1>2. s.at = "move" /\ PhaseKept(s) /\ DOMAIN block' = Arrays
  BY <1>1, WhereRuns DEF LeaveLoop, KeepsGame, PhaseKept, ShapeInv
<1>3. ~Plays(s)'
  BY <1>1, <1>2, WhereRuns, KernelAssumption DEF LeaveLoop, Plays, PhaseKept, Barriers
<1>4. Arrives(t, IF t = 0 THEN "score" ELSE "done", FALSE, s)
  BY <1>1, SameRegisters, NoRegsNames
<1>5. Midway(s, t)'
  BY <1>2, <1>3, <1>4 DEF Arrives, Midway, Here, Barriers
<1>6. Reached(s, t)'
  BY <1>5 DEF Reached
<1>7. QED
  BY <1>1, <1>2, <1>6, ThreadKeeps DEF LeaveLoop, Reads, Writes

\* The end of the game is behind every barrier.
LEMMA WriteFitnessKeeps ==
  ASSUME ShapeInv, NEW s \in Barriers, Between(s), WriteFitness
  PROVE  IInv'
<1>1. Moves(0, "done", FALSE, <<>>) /\ Runs(0, "score") /\ 0 \in Threads
  <2>1. Moves(0, "done", FALSE, <<>>)
    BY DEF WriteFitness, Goes
  <2>2. 0 \in Threads
    BY BlockAssumption DEF Threads
  <2>3. Runs(0, "score")
    BY DEF WriteFitness
  <2> QED BY <2>1, <2>2, <2>3
<1>2. s.at = "move" /\ ~Plays(s) /\ PhaseKept(s) /\ DOMAIN block' = Arrays
  BY <1>1, WhereRuns DEF WriteFitness, PhaseKept, ShapeInv
<1>3. ~Plays(s)'
  BY <1>2 DEF Plays, PhaseKept
<1>4. Arrives(0, "done", FALSE, s)
  <2>1. DOMAIN <<>> \cap {"move", "level", "cur", "n", "count"} = {}
    OBVIOUS
  <2>2. QED
    BY <1>1, <2>1, SameRegisters
<1>5. Midway(s, 0)'
  BY <1>2, <1>3, <1>4 DEF Arrives, Midway, Here, Barriers
<1>6. Reached(s, 0)'
  BY <1>5 DEF Reached
<1>7. touched' = touched
  BY DEF WriteFitness
<1>8. QED
  BY <1>1, <1>2, <1>6, <1>7, ThreadKeeps, {} \subseteq Reads(s, 0), {} \subseteq Writes(s, 0)

\* score_roots is the whole phase of its name.
LEMMA ScoreRootsKeeps ==
  ASSUME ShapeInv, NEW s \in Barriers, Between(s), NEW t \in Threads, ScoreRoots(t)
  PROVE  IInv'
<1>1. Moves(t, "sort", TRUE, [level |-> 0, cur |-> 0, n |-> 0]) /\ Runs(t, "roots")
  BY DEF ScoreRoots, Waits
<1>2. s.at = "roots" /\ PhaseKept(s) /\ DOMAIN block' = Arrays
  BY <1>1, WhereRuns DEF ScoreRoots, KeepsGame, PhaseKept, ShapeInv
<1>3. Arrives(t, "sort", TRUE, [s EXCEPT !.level = 0, !.cur = 0, !.n = 0])
  <2> DEFINE regs == [level |-> 0, cur |-> 0, n |-> 0]
             next == [s EXCEPT !.level = 0, !.cur = 0, !.n = 0]
  <2>1. /\ next.move = thread[t].move /\ next.count = thread[t].count
        /\ next.level = regs.level /\ next.cur = regs.cur /\ next.n = regs.n
    BY <1>1, WhereRuns DEF Barriers
  <2>2. DOMAIN regs = {"level", "cur", "n"}
    OBVIOUS
  <2>3. Moves(t, "sort", TRUE, regs)
    BY <1>1
  <2> HIDE DEF regs, next
  <2>4. Arrives(t, "sort", TRUE, next)
    BY <2>1, <2>2, <2>3, NewRegisters
  <2>5. QED
    BY <2>4 DEF next
<1>4. Reached(s, t)'
  BY <1>2, <1>3 DEF Arrives, Reached, Here, After, Barriers
<1>5. QED
  BY <1>1, <1>2, <1>4, ThreadKeeps DEF ScoreRoots, Reads, Writes

\* Some nodes of a frontier row.
LEMMA RowCells ==
  ASSUME NEW row, NEW K \in SUBSET Int
  PROVE  Cells("beam", {<<row, k>> : k \in K}) \subseteq BeamCells(row)
BY DEF Cells, BeamCells

\* A middle level is prepared in a phase of its own.
LEMMA PrepareLevelKeeps ==
  ASSUME ShapeInv, NEW s \in Barriers, Between(s), NEW t \in Threads, PrepareLevel(t)
  PROVE  IInv'
<1>1. Moves(t, "mid", TRUE, <<>>) /\ Runs(t, "level")
  BY DEF PrepareLevel, Waits
<1>2. s.at = "level" /\ PhaseKept(s) /\ DOMAIN block' = Arrays
  BY <1>1, WhereRuns DEF PrepareLevel, KeepsGame, PhaseKept, ShapeInv
<1>3. Arrives(t, "mid", TRUE, s)
  <2>1. DOMAIN <<>> \cap {"move", "level", "cur", "n", "count"} = {}
    OBVIOUS
  <2>2. QED
    BY <1>1, <2>1, SameRegisters
<1>4. Reached(s, t)'
  BY <1>2, <1>3 DEF Arrives, Reached, Here, After, Barriers
<1> DEFINE row == Cells("beam", {<<thread[t].cur, k>> : k \in 0..(thread[t].n - 1)})
           reads == If0(t, {Cell("slot")} \cup row)
           writes == Cells("midScores", {t}) \cup If0(t, {Cell("hasChild"), Cell("segments")})
<1>5. Touch(t, reads, writes)
  BY DEF PrepareLevel
<1>6. row \subseteq BeamCells(s.cur)
  BY <1>1, WhereRuns, RowCells, 0..(thread[t].n - 1) \subseteq Int
<1>7. reads \subseteq Reads(s, t) /\ writes \subseteq Writes(s, t)
  BY <1>2, <1>6 DEF Reads, Writes, If0
<1> HIDE DEF reads, writes
<1>8. QED
  BY <1>1, <1>2, <1>4, <1>5, <1>7, ThreadKeeps

\* A thread scores its middle entries, and marks the children next.
LEMMA ScoreMidKeeps ==
  ASSUME ShapeInv, NEW s \in Barriers, Between(s), NEW t \in Threads, ScoreMid(t)
  PROVE  IInv'
<1>1. PICK seen : Moves(t, "mark", FALSE, [seen |-> seen])
  BY DEF ScoreMid, Goes
<1>2. Runs(t, "mid")
  BY DEF ScoreMid
<1>3. s.at = "mid" /\ PhaseKept(s) /\ DOMAIN block' = Arrays
  BY <1>2, WhereRuns DEF ScoreMid, KeepsGame, PhaseKept, ShapeInv
<1>4. Arrives(t, "mark", FALSE, s)
  <2>1. DOMAIN [seen |-> seen] \cap {"move", "level", "cur", "n", "count"} = {}
    OBVIOUS
  <2>2. QED
    BY <1>1, <1>2, <2>1, SameRegisters
<1>5. Midway(s, t)'
  BY <1>3, <1>4 DEF Arrives, Midway, Here, Barriers
<1>6. Reached(s, t)'
  BY <1>5 DEF Reached
<1> DEFINE row == Cells("beam", {<<thread[t].cur, k>> : k \in 0..(thread[t].n - 1)})
           reads == Situation \cup {Cell("segments")} \cup row
<1>7. Touch(t, reads, Cells("midScores", {t}))
  BY DEF ScoreMid
<1>8. row \subseteq BeamCells(s.cur)
  BY <1>2, WhereRuns, RowCells, 0..(thread[t].n - 1) \subseteq Int
<1>9. reads \subseteq Reads(s, t) /\ Cells("midScores", {t}) \subseteq Writes(s, t)
  BY <1>3, <1>8 DEF Reads, Writes
<1> HIDE DEF reads
<1>10. QED
  BY <1>1, <1>3, <1>6, <1>7, <1>9, ThreadKeeps

\* The marks are atomic: they are not in the log.
LEMMA MarkChildrenKeeps ==
  ASSUME ShapeInv, NEW s \in Barriers, Between(s), NEW t \in Threads, MarkChildren(t)
  PROVE  IInv'
<1>1. Moves(t, "sort", TRUE, [seen |-> NOT_LOOKED]) /\ Runs(t, "mark")
  BY DEF MarkChildren, Waits
<1>2. s.at = "mid" /\ PhaseKept(s) /\ DOMAIN block' = Arrays
  BY <1>1, WhereRuns DEF MarkChildren, KeepsGame, PhaseKept, ShapeInv
<1>3. Arrives(t, "sort", TRUE, s)
  <2>1. DOMAIN [seen |-> NOT_LOOKED] \cap {"move", "level", "cur", "n", "count"} = {}
    OBVIOUS
  <2>2. QED
    BY <1>1, <2>1, SameRegisters
<1>4. Reached(s, t)'
  BY <1>2, <1>3 DEF Arrives, Reached, Here, After, Barriers
<1>5. touched' = touched
  BY DEF MarkChildren
<1>6. QED
  BY <1>1, <1>2, <1>4, <1>5, ThreadKeeps, {} \subseteq Reads(s, t), {} \subseteq Writes(s, t)

\* A thread sorts its own entries and offers the largest.
LEMMA SortLocalKeeps ==
  ASSUME ShapeInv, NEW s \in Barriers, Between(s), NEW t \in Threads, SortLocal(t)
  PROVE  IInv'
<1>1. PICK keys : Moves(t, "offer", FALSE, [local |-> keys, count |-> 0])
  BY DEF SortLocal, Goes
<1>2. Runs(t, "sort")
  BY DEF SortLocal
<1>3. s.at = "sort" /\ PhaseKept(s) /\ DOMAIN block' = Arrays
  BY <1>2, WhereRuns DEF SortLocal, KeepsGame, PhaseKept, ShapeInv
<1>4. Arrives(t, "offer", FALSE, [s EXCEPT !.count = 0])
  <2> DEFINE regs == [local |-> keys, count |-> 0]
             next == [s EXCEPT !.count = 0]
  <2>1. /\ next.move = thread[t].move /\ next.level = thread[t].level
        /\ next.cur = thread[t].cur /\ next.n = thread[t].n /\ next.count = regs.count
    BY <1>2, WhereRuns DEF Barriers
  <2>2. DOMAIN regs = {"local", "count"}
    OBVIOUS
  <2>3. Moves(t, "offer", FALSE, regs)
    BY <1>1
  <2> HIDE DEF regs, next
  <2>4. Arrives(t, "offer", FALSE, next)
    BY <2>1, <2>2, <2>3, NewRegisters
  <2>5. QED
    BY <2>4 DEF next
<1>5. Midway(s, t)'
  BY <1>3, <1>4 DEF Arrives, Midway, Here, Barriers
<1>6. Reached(s, t)'
  BY <1>5 DEF Reached
<1> DEFINE reads == Cells(IF thread[t].level = 0 THEN "rootScores" ELSE "midScores", {t})
           writes == {}
<1>7. Touch(t, reads, writes)
  BY DEF SortLocal
<1>8. reads \subseteq Reads(s, t) /\ writes \subseteq Writes(s, t)
  BY <1>3 DEF Reads
<1> HIDE DEF reads, writes
<1>9. QED
  BY <1>1, <1>3, <1>6, <1>7, <1>8, ThreadKeeps

\* A round of the selection: a thread goes on to the next one, behind the
\* barrier, or finds it empty, as the others do, and does not wait.
LEMMA PickKeeps ==
  ASSUME ShapeInv, NEW s \in Barriers, Between(s), NEW t \in Threads, Pick(t)
  PROVE  IInv'
<1>1. Runs(t, "pick")
  BY DEF Pick
<1>2. block'.warpBest = block.warpBest /\ DOMAIN block' = Arrays /\ launch' = launch
  BY DEF Pick, KeepsGame, ShapeInv
<1>3. s.at = "pick" /\ PhaseKept(s)
  BY <1>1, <1>2, WhereRuns, BlockBestKept DEF PhaseKept
<1> DEFINE reads == Cells("warpBest", Warps)
           writes == IF t = 0 /\ BlockBest # 0
                       THEN Cells(IF thread[t].level = 0 THEN "selRoot" ELSE "selMid",
                                  {thread[t].count})
                       ELSE {}
<1>4. Touch(t, reads, writes)
  BY DEF Pick
<1>5. thread[t].count = s.count
  BY <1>1, <1>3, WhereRuns
<1>6. reads \subseteq Reads(s, t)
  BY <1>3 DEF Reads
<1>7. writes \subseteq Writes(s, t)
  BY <1>3, <1>5 DEF Writes, If0, Cells
<1> HIDE DEF reads, writes
<1>8. CASE BlockBest = 0
  <2>1. Moves(t, "keep", FALSE, [local |-> {}])
    BY <1>8 DEF Pick, SelectionOver, Goes
  <2>2. Arrives(t, "keep", FALSE, s)
    <3>1. DOMAIN [local |-> {}] \cap {"move", "level", "cur", "n", "count"} = {}
      OBVIOUS
    <3>2. QED
      BY <1>1, <2>1, <3>1, SameRegisters
  <2>3. Midway(s, t)'
    BY <1>3, <1>8, <2>2 DEF Arrives, Midway, Here, Barriers, PhaseKept
  <2>4. Reached(s, t)'
    BY <2>3 DEF Reached
  <2>5. QED
    BY <1>2, <1>3, <1>4, <1>6, <1>7, <2>1, <2>4, ThreadKeeps
<1>9. CASE BlockBest # 0
  <2> DEFINE label == IF thread[t].count + 1 = Width(Ks, thread[t].level) THEN "keep" ELSE "offer"
             next == [s EXCEPT !.count = s.count + 1]
  <2>1. PICK left : Moves(t, label, TRUE, [local |-> left, count |-> thread[t].count + 1])
    BY <1>9 DEF Pick, SelectionOver, EndRound, Waits
  <2>2. Arrives(t, label, TRUE, next)
    <3> DEFINE regs == [local |-> left, count |-> thread[t].count + 1]
    <3>1. /\ next.move = thread[t].move /\ next.level = thread[t].level
          /\ next.cur = thread[t].cur /\ next.n = thread[t].n /\ next.count = regs.count
      BY <1>1, <1>5, WhereRuns DEF Barriers
    <3>2. DOMAIN regs = {"local", "count"}
      OBVIOUS
    <3>3. Moves(t, label, TRUE, regs)
      BY <2>1
    <3> HIDE DEF regs, next, label
    <3>4. QED
      BY <3>1, <3>2, <3>3, NewRegisters
  <2>3. thread[t].level = s.level
    BY <1>1, WhereRuns
  <2>4. After(s)' = [s EXCEPT !.at = label, !.count = s.count + 1]
    BY <1>3, <1>5, <1>9, <2>3 DEF PhaseKept, After, AfterPick
  <2>5. Here(t, TRUE, After(s))'
    BY <2>2, <2>4 DEF Arrives, Here, Barriers
  <2>6. Reached(s, t)'
    BY <1>3, <2>5 DEF Reached
  <2> HIDE DEF label
  <2>7. QED
    BY <1>2, <1>3, <1>4, <1>6, <1>7, <2>1, <2>6, ThreadKeeps
<1>10. QED
  BY <1>8, <1>9

\* What the threads keep of a selection they keep behind its last round: the
\* one that filled it, or the empty one.
LEMMA KeepsThere ==
  ASSUME NEW s \in Barriers, Between(s), NEW t \in Threads, Runs(t, "keep"), PhaseKept(s)
  PROVE  /\ KeepWrites(s, t) \subseteq Writes(s, t)
         /\ KeepReads(s, t) \subseteq Reads(s, t)
         /\ \A label : Arrives(t, label, TRUE, AfterKeep(s)) /\ label = AfterKeep(s).at
              => Reached(s, t)'
<1>1. s.at = "keep" \/ (s.at = "pick" /\ BlockBest = 0)
  BY WhereRuns
<1>2. KeepWrites(s, t) \subseteq Writes(s, t) /\ KeepReads(s, t) \subseteq Reads(s, t)
  BY <1>1 DEF Writes, Reads
<1>3. After(s)' = AfterKeep(s)
  BY <1>1 DEF PhaseKept, After, AfterPick, AfterKeep
<1>4. ASSUME NEW label, Arrives(t, label, TRUE, AfterKeep(s)), label = AfterKeep(s).at
      PROVE  Reached(s, t)'
  BY <1>1, <1>3, <1>4 DEF Arrives, Reached, Here
<1>5. QED
  BY <1>2, <1>4

\* The roots are kept, or there is none and the game is over.
LEMMA KeepRootsKeeps ==
  ASSUME ShapeInv, NEW s \in Barriers, Between(s), NEW t \in Threads, KeepRoots(t)
  PROVE  IInv'
<1>1. Runs(t, "keep") /\ thread[t].level = 0 /\ launch' = launch
  BY DEF KeepRoots, KeepsGame
<1>2. block'.warpBest = block.warpBest /\ DOMAIN block' = Arrays
  <2>1. CASE thread[t].count = 0
    <3>1. block' = [block EXCEPT !.over = block.over \/ t = 0]
      BY <2>1 DEF KeepRoots
    <3>2. QED
      BY <3>1 DEF ShapeInv, Arrays
  <2>2. CASE thread[t].count # 0 /\ t < thread[t].count
    <3>1. block' = [block EXCEPT !.beams[0][t] = KeptRoot(block, t)]
      BY <2>2 DEF KeepRoots
    <3>2. QED
      BY <3>1 DEF ShapeInv, Arrays
  <2>3. CASE thread[t].count # 0 /\ ~(t < thread[t].count)
    BY <2>3 DEF KeepRoots, ShapeInv
  <2>4. QED
    BY <2>1, <2>2, <2>3
<1>3. PhaseKept(s)
  BY <1>1, <1>2, WhereRuns, BlockBestKept DEF PhaseKept
<1>4. /\ thread[t].move = s.move /\ s.level = 0 /\ thread[t].cur = s.cur
      /\ thread[t].n = s.n /\ thread[t].count = s.count
  BY <1>1, WhereRuns
<1>5. CASE s.count = 0
  <2> DEFINE regs == [move |-> thread[t].move + 1]
             next == [s EXCEPT !.at = "move", !.move = s.move + 1]
             reads == {}
             writes == If0(t, {Cell("over")})
  <2>1. Moves(t, "move", TRUE, regs) /\ Touch(t, reads, writes)
    BY <1>4, <1>5 DEF KeepRoots, Waits
  <2>2. AfterKeep(s) = next /\ next.at = "move"
    BY <1>4, <1>5 DEF AfterKeep, Barriers
  <2>3. /\ next.move = regs.move /\ next.level = thread[t].level
        /\ next.cur = thread[t].cur /\ next.n = thread[t].n /\ next.count = thread[t].count
    BY <1>1, <1>4 DEF Barriers
  <2>4. DOMAIN regs = {"move"}
    OBVIOUS
  <2>5. reads \subseteq Reads(s, t) /\ writes \subseteq KeepWrites(s, t)
    BY <1>4, <1>5 DEF KeepWrites
  <2> HIDE DEF regs, next, reads, writes
  <2>6. Arrives(t, "move", TRUE, next)
    BY <2>1, <2>3, <2>4, NewRegisters
  <2>7. Reached(s, t)'
    BY <1>1, <1>3, <2>2, <2>6, KeepsThere
  <2>8. writes \subseteq Writes(s, t)
    BY <1>1, <1>3, <2>5, KeepsThere
  <2>9. QED
    BY <1>2, <1>3, <2>1, <2>5, <2>7, <2>8, ThreadKeeps
<1>6. CASE s.count # 0
  <2> DEFINE regs == [level |-> 1, n |-> thread[t].count, best |-> 0]
             next == [s EXCEPT !.at = NextStage(0), !.level = 1, !.n = s.count]
             reads == Situation \cup Cells("selRoot", {t})
             writes == Cells("beam", {<<0, t>>})
  <2>1. /\ Moves(t, NextStage(0), TRUE, regs)
        /\ Touch(t, reads, writes) \/ touched' = touched
    BY <1>4, <1>6 DEF KeepRoots, Waits
  <2>2. AfterKeep(s) = next /\ next.at = NextStage(0)
    BY <1>4, <1>6 DEF AfterKeep, Barriers
  <2>3. /\ next.move = thread[t].move /\ next.level = regs.level
        /\ next.cur = thread[t].cur /\ next.n = regs.n /\ next.count = thread[t].count
    BY <1>1, <1>4 DEF Barriers
  <2>4. DOMAIN regs = {"level", "n", "best"}
    OBVIOUS
  <2>5. reads \subseteq KeepReads(s, t) /\ writes \subseteq KeepWrites(s, t)
    BY <1>4, <1>6 DEF KeepReads, KeepWrites
  <2> HIDE DEF regs, next, reads, writes
  <2>6. Arrives(t, NextStage(0), TRUE, next)
    BY <2>1, <2>3, <2>4, NewRegisters
  <2>7. Reached(s, t)'
    BY <1>1, <1>3, <2>2, <2>6, KeepsThere
  <2>8. reads \subseteq Reads(s, t) /\ writes \subseteq Writes(s, t)
    BY <1>1, <1>3, <2>5, KeepsThere
  <2>9. QED
    BY <1>2, <1>3, <2>1, <2>7, <2>8, ThreadKeeps
<1>7. QED
  BY <1>5, <1>6

\* A level's nodes are kept, and the rows of the frontier swap.
LEMMA KeepMidKeeps ==
  ASSUME ShapeInv, NEW s \in Barriers, Between(s), NEW t \in Threads, KeepMid(t)
  PROVE  IInv'
<1>1. Runs(t, "keep") /\ thread[t].level > 0 /\ launch' = launch
  BY DEF KeepMid, KeepsGame
<1>2. block'.warpBest = block.warpBest /\ DOMAIN block' = Arrays
  BY DEF KeepMid, ShapeInv
<1>3. PhaseKept(s)
  BY <1>1, <1>2, WhereRuns, BlockBestKept DEF PhaseKept
<1>4. /\ thread[t].move = s.move /\ thread[t].level = s.level /\ thread[t].cur = s.cur
      /\ thread[t].n = s.n /\ thread[t].count = s.count
  BY <1>1, WhereRuns
<1> DEFINE row == Cells("beam", {<<thread[t].cur, k>> : k \in 0..(thread[t].n - 1)})
           own == <<"beam", <<thread[t].cur, t>>>>
           reads == (IF t < thread[t].n THEN {Cell("hasChild"), own} ELSE {}) \cup
                    (IF t < thread[t].count
                       THEN {Cell("segments"), <<"selMid", t>>} \cup row ELSE {})
           writes == IF t < thread[t].count
                       THEN Cells("beam", {<<1 - thread[t].cur, t>>}) ELSE {}
           regs == [best |-> BestAfterLevel(t), cur |-> 1 - thread[t].cur,
                    n |-> thread[t].count, level |-> thread[t].level + 1]
           next == [s EXCEPT !.at = NextStage(s.level), !.level = s.level + 1,
                             !.cur = 1 - s.cur, !.n = s.count]
           label == NextStage(thread[t].level)
<1>5. Touch(t, reads, writes) /\ Moves(t, label, TRUE, regs)
  BY DEF KeepMid, EndLevel, Waits
<1>6. row \subseteq BeamCells(s.cur)
  BY <1>4, RowCells, 0..(thread[t].n - 1) \subseteq Int
<1>7. own \in BeamCells(s.cur)
  <2>1. t \in Int
    BY DEF Threads
  <2>2. <<s.cur, t>> \in {<<s.cur, k>> : k \in Int}
    BY <2>1
  <2>3. QED
    BY <1>4, <2>2 DEF BeamCells, Cells
<1>8. reads \subseteq KeepReads(s, t)
  BY <1>1, <1>4, <1>6, <1>7 DEF KeepReads
<1>9. writes \subseteq KeepWrites(s, t)
  BY <1>1, <1>4 DEF KeepWrites
<1>10. AfterKeep(s) = next /\ next.at = label
  BY <1>1, <1>4 DEF AfterKeep, Barriers
<1>11. /\ next.move = thread[t].move /\ next.level = regs.level
       /\ next.cur = regs.cur /\ next.n = regs.n /\ next.count = thread[t].count
  BY <1>4 DEF Barriers
<1>12. DOMAIN regs = {"best", "cur", "n", "level"}
  OBVIOUS
<1> HIDE DEF regs, next, reads, writes, label
<1>13. Arrives(t, label, TRUE, next)
  BY <1>5, <1>11, <1>12, NewRegisters
<1>14. Reached(s, t)'
  BY <1>1, <1>3, <1>10, <1>13, KeepsThere
<1>15. reads \subseteq Reads(s, t) /\ writes \subseteq Writes(s, t)
  BY <1>1, <1>3, <1>8, <1>9, KeepsThere
<1>16. QED
  BY <1>2, <1>3, <1>5, <1>14, <1>15, ThreadKeeps

\* A thread that is through with the move waits for the next one.
LEMMA NextMoveReaches ==
  ASSUME ShapeInv, NEW s \in Barriers, Between(s), NEW t \in Threads,
         NEW from \in {"commit", "place"}, Runs(t, from), NextMove(t), PhaseKept(s)
  PROVE  (\E regs : Moves(t, "move", TRUE, regs)) /\ Reached(s, t)'
<1> DEFINE regs == [move |-> thread[t].move + 1, best |-> 0]
           next == [s EXCEPT !.at = "move", !.move = s.move + 1]
<1>1. s.at = "commit"
  BY WhereRuns
<1>2. Moves(t, "move", TRUE, regs)
  BY DEF NextMove, Waits
<1>3. /\ next.move = regs.move /\ next.level = thread[t].level
      /\ next.cur = thread[t].cur /\ next.n = thread[t].n /\ next.count = thread[t].count
  BY WhereRuns DEF Barriers
<1>4. DOMAIN regs = {"move", "best"}
  OBVIOUS
<1>5. After(s)' = next /\ next.at = "move"
  BY <1>1 DEF After, Barriers
<1> HIDE DEF regs, next
<1>6. Arrives(t, "move", TRUE, next)
  BY <1>2, <1>3, <1>4, NewRegisters
<1>7. Reached(s, t)'
  BY <1>1, <1>5, <1>6 DEF Arrives, Reached, Here
<1>8. QED
  BY <1>2, <1>7

\* The threads that only take part in the reduction are done with the move.
LEMMA FollowKeeps ==
  ASSUME ShapeInv, NEW s \in Barriers, Between(s), NEW t \in Threads, Follow(t)
  PROVE  IInv'
<1> DEFINE reads == Cells("warpBest", Warps)
           writes == {}
<1>1. Runs(t, "commit") /\ t # 0 /\ Touch(t, reads, writes)
  BY DEF Follow
<1>2. s.at = "commit" /\ PhaseKept(s) /\ DOMAIN block' = Arrays
  BY <1>1, WhereRuns DEF Follow, KeepsGame, PhaseKept, ShapeInv
<1>3. (\E regs : Moves(t, "move", TRUE, regs)) /\ Reached(s, t)'
  BY <1>1, <1>2, NextMoveReaches DEF Follow
<1>4. reads \subseteq Reads(s, t) /\ writes \subseteq Writes(s, t)
  BY <1>2 DEF Reads
<1> HIDE DEF reads, writes
<1>5. QED
  BY <1>1, <1>2, <1>3, <1>4, ThreadKeeps

\* Thread 0 alone plays on the game.
LEMMA CommitCells ==
  ASSUME NEW s \in Barriers, s.at = "commit", thread[0].cur = s.cur
  PROVE  CommitReads \subseteq Reads(s, 0)
<1>1. BeamIdx \subseteq Int
  BY DEF BeamIdx
<1>2. Cells("beam", {<<thread[0].cur, k>> : k \in BeamIdx}) \subseteq BeamCells(s.cur)
  BY <1>1, RowCells
<1>3. QED
  BY <1>2 DEF CommitReads, Reads, If0

\* A held piece first, and the thread is on its way to the placement.
LEMMA CommitHoldKeeps ==
  ASSUME ShapeInv, NEW s \in Barriers, Between(s), CommitHold
  PROVE  IInv'
<1> DEFINE regs == [best |-> BlockBest]
           writes == {Cell("game")}
<1>1. Runs(0, "commit") /\ Touch(0, CommitReads, writes) /\ Moves(0, "place", FALSE, regs)
  BY DEF CommitHold, Goes
<1>2. 0 \in Threads
  BY BlockAssumption DEF Threads
<1>3. s.at = "commit" /\ PhaseKept(s) /\ DOMAIN block' = Arrays
  BY <1>1, <1>2, WhereRuns DEF CommitHold, PhaseKept, ShapeInv
<1>4. DOMAIN regs \cap {"move", "level", "cur", "n", "count"} = {}
  OBVIOUS
<1>5. CommitReads \subseteq Reads(s, 0)
  BY <1>1, <1>2, <1>3, WhereRuns, CommitCells
<1>6. writes \subseteq Writes(s, 0)
  BY <1>3 DEF Writes, If0
<1> HIDE DEF regs, writes
<1>7. Arrives(0, "place", FALSE, s)
  BY <1>1, <1>2, <1>4, SameRegisters
<1>8. Midway(s, 0)'
  BY <1>3, <1>7 DEF Arrives, Midway, Here, Barriers
<1>9. Reached(s, 0)'
  BY <1>8 DEF Reached
<1>10. QED
  BY <1>1, <1>2, <1>3, <1>5, <1>6, <1>9, ThreadKeeps

\* The placement, with or without a hold before it.
LEMMA CommitPlaceKeeps ==
  ASSUME ShapeInv, NEW s \in Barriers, Between(s), CommitPlace
  PROVE  IInv'
<1> DEFINE writes == {Cell("game"), Cell("over")}
<1>1. /\ Runs(0, "place") \/ Runs(0, "commit")
      /\ Touch(0, CommitReads, writes) /\ NextMove(0) /\ launch' = launch
  BY DEF CommitPlace
<1>2. 0 \in Threads
  BY BlockAssumption DEF Threads
<1>3. s.at = "commit" /\ thread[0].cur = s.cur
  BY <1>1, <1>2, WhereRuns
<1>4. PhaseKept(s)
  BY <1>1, <1>3 DEF PhaseKept
<1>5. DOMAIN block' = Arrays
  BY DEF CommitPlace, Places, ShapeInv
<1>6. CommitReads \subseteq Reads(s, 0)
  BY <1>3, CommitCells
<1>7. writes \subseteq Writes(s, 0)
  BY <1>3 DEF Writes, If0
<1>8. (\E regs : Moves(0, "move", TRUE, regs)) /\ Reached(s, 0)'
  BY <1>1, <1>2, <1>3, <1>4, NextMoveReaches
<1> HIDE DEF writes
<1>9. QED
  BY <1>1, <1>2, <1>4, <1>5, <1>6, <1>7, <1>8, ThreadKeeps
-----------------------------------------------------------------------------
\* A warp begins with one of the block's threads, wherever it ends.
LEMMA LeaderIsAThread ==
  ASSUME ShapeInv, NEW w \in Warps
  PROVE  Leader(w) \in Threads
<1>1. launch.warpSize \in Nat \ {0} /\ BLOCK \in Nat
  <2>1. WarpSizes \subseteq 1..BLOCK
    BY KernelAssumption
  <2>2. BLOCK \in Nat
    BY BlockAssumption
  <2>3. launch.warpSize \in WarpSizes
    BY DEF ShapeInv
  <2>4. launch.warpSize \in 1..BLOCK
    BY <2>1, <2>3
  <2>5. QED
    BY <2>2, <2>4
<1>2. PICK t \in Threads : w = t \div launch.warpSize
  BY DEF Warps
<1>3. t \in Nat /\ t < BLOCK
  BY <1>1, <1>2 DEF Threads
<1> DEFINE size == launch.warpSize
<1> HIDE DEF size
<1>4. size \in Nat \ {0} /\ w = t \div size
  BY <1>1, <1>2 DEF size
<1>5. w \in Nat /\ w * size <= t
  BY <1>3, <1>4
<1>6. w * size \in Nat
  BY <1>4, <1>5
<1>7. QED
  BY <1>1, <1>3, <1>5, <1>6 DEF Leader, Threads, size

\* The lanes of a warp go on together.
LEMMA LanesMove ==
  ASSUME ShapeInv, NEW w, NEW label,
         thread' = [t \in Threads |->
           IF t \in Lanes(w) THEN [thread[t] EXCEPT !.at = label, !.waits = TRUE] ELSE thread[t]]
  PROVE  /\ DOMAIN thread' = Threads
         /\ \A u \in Threads : DOMAIN thread'[u] = Registers
         /\ \A u \in Threads \ Lanes(w) : thread'[u] = thread[u]
         /\ \A u \in Lanes(w) :
              /\ thread'[u].at = label /\ thread'[u].waits = TRUE
              /\ thread'[u].move = thread[u].move /\ thread'[u].level = thread[u].level
              /\ thread'[u].cur = thread[u].cur /\ thread'[u].n = thread[u].n
              /\ thread'[u].count = thread[u].count
<1>1. \A u \in Lanes(w) : u \in Threads
  BY DEF Lanes
<1>2. QED
  BY <1>1 DEF ShapeInv, Registers

\* A warp reduces in a phase of the selection, and waits for the others.
LEMMA ReduceOffersKeeps ==
  ASSUME ShapeInv, NEW s \in Barriers, Between(s), NEW w \in Warps, ReduceOffers(w)
  PROVE  IInv'
<1> DEFINE leader == Leader(w)
           reads == {}
           writes == Cells("warpBest", {w})
<1>1. leader \in Threads
  BY LeaderIsAThread
<1>2. PICK u0 \in Threads : u0 \in Lanes(w)
  BY DEF Warps, Lanes
<1>3. \A u \in Lanes(w) : u \in Threads /\ Runs(u, "offer")
  BY DEF ReduceOffers, Lanes
<1>4. s.at \in {"sort", "offer"}
  BY <1>2, <1>3, WhereRuns
<1>5. DOMAIN block' = Arrays /\ launch' = launch
  BY DEF ReduceOffers, KeepsGame, ShapeInv
<1>6. PhaseKept(s)
  BY <1>4, <1>5 DEF PhaseKept
<1>7. Touch(leader, reads, writes)
  BY DEF ReduceOffers
<1>8. writes \subseteq Writes(s, leader) /\ reads \subseteq Reads(s, leader)
  BY <1>4 DEF Writes, LeaderCells, Cells
<1> HIDE DEF leader, reads, writes
<1>9. ShapeInv'
  <2>1. DOMAIN thread' = Threads /\ \A u \in Threads : DOMAIN thread'[u] = Registers
    BY LanesMove DEF ReduceOffers
  <2>2. QED
    BY <1>1, <1>5, <1>7, <2>1, TouchFacts DEF ShapeInv
<1>10. ASSUME NEW u \in Threads
       PROVE  thread'[u] = thread[u] \/ Reached(s, u)'
  <2>1. CASE u \notin Lanes(w)
    BY <2>1, LanesMove DEF ReduceOffers
  <2>2. CASE u \in Lanes(w)
    <3>1. /\ thread[u].move = s.move /\ thread[u].level = s.level /\ thread[u].cur = s.cur
          /\ thread[u].n = s.n /\ thread[u].count = IF s.at = "sort" THEN 0 ELSE s.count
      BY <1>3, <2>2, WhereRuns
    <3>2. /\ thread'[u].at = "pick" /\ thread'[u].waits = TRUE
          /\ thread'[u].move = thread[u].move /\ thread'[u].level = thread[u].level
          /\ thread'[u].cur = thread[u].cur /\ thread'[u].n = thread[u].n
          /\ thread'[u].count = thread[u].count
      BY <2>2, LanesMove DEF ReduceOffers
    <3>3. QED
      BY <1>4, <3>1, <3>2 DEF Reached, Here, After, Barriers
  <2>3. QED
    BY <2>1, <2>2
<1>11. ASSUME NEW u \in Threads
       PROVE  touched'[u] = touched[u] \/ TouchedInv(s, u)'
  <2>1. CASE u # leader
    BY <1>1, <1>7, <2>1, TouchFacts
  <2>2. CASE u = leader
    <3>1. touched'[u].r = touched[u].r \cup reads /\ touched'[u].w = touched[u].w \cup writes
      BY <1>1, <1>7, <2>2, TouchFacts
    <3>2. Writes(s, u)' = Writes(s, u) /\ Reads(s, u)' = Reads(s, u)
      BY <1>6, OthersKeep
    <3>3. TouchedInv(s, u)
      BY DEF Between
    <3>4. QED
      BY <1>8, <2>2, <3>1, <3>2, <3>3 DEF TouchedInv
  <2>3. QED
    BY <2>1, <2>2
<1>12. QED
  BY <1>6, <1>9, <1>10, <1>11, StepKeeps

\* A warp expands its leaves, and waits for the others.
LEMMA ExpandLeavesKeeps ==
  ASSUME ShapeInv, NEW s \in Barriers, Between(s), NEW w \in Warps, ExpandLeaves(w)
  PROVE  IInv'
<1>1. Leader(w) \in Threads
  BY LeaderIsAThread
<1>2. PICK u0 \in Threads : u0 \in Lanes(w)
  BY DEF Warps, Lanes
<1>3. \A u \in Lanes(w) : u \in Threads /\ Runs(u, "leaves")
  BY DEF ExpandLeaves, Lanes
<1>4. s.at = "leaves"
  BY <1>2, <1>3, WhereRuns
<1>5. DOMAIN block' = Arrays /\ launch' = launch
  BY DEF ExpandLeaves, KeepsGame, ShapeInv
<1>6. PhaseKept(s)
  BY <1>4, <1>5 DEF PhaseKept
<1>7. thread[Leader(w)].cur = s.cur
  <2>1. Reached(s, Leader(w))
    BY <1>1 DEF Between
  <2>2. QED
    BY <1>4, <2>1 DEF Reached, Midway, Here, After, Barriers
<1> DEFINE nodes == {i \in 0..(thread[Leader(w)].n - 1) : i % Cardinality(Warps) = w}
           reads == Situation \cup Cells("beam", {<<thread[Leader(w)].cur, i>> : i \in nodes})
           writes(u) == IF u = Leader(w) THEN Cells("warpBest", {w}) ELSE {}
<1>8. touched' = [t \in Threads |->
        IF t \in Lanes(w)
          THEN [r |-> touched[t].r \cup reads, w |-> touched[t].w \cup writes(t)]
          ELSE touched[t]]
  <2>1. \A u \in Threads : touched[u].r \cup reads =
          touched[u].r \cup Situation \cup
            Cells("beam", {<<thread[Leader(w)].cur, i>> : i \in nodes})
    OBVIOUS
  <2>2. QED
    BY <2>1 DEF ExpandLeaves
<1>9. reads \subseteq Situation \cup BeamCells(s.cur)
  BY <1>7, RowCells, nodes \subseteq Int
<1>10. ASSUME NEW u \in Threads
       PROVE  writes(u) \subseteq Writes(s, u) /\ reads \subseteq Reads(s, u)
  BY <1>4, <1>9 DEF Writes, Reads, LeaderCells, Cells
<1> HIDE DEF reads, writes
<1>11. ShapeInv'
  <2>1. DOMAIN thread' = Threads /\ \A u \in Threads : DOMAIN thread'[u] = Registers
    BY LanesMove DEF ExpandLeaves
  <2>2. DOMAIN touched' = Threads /\ \A u \in Threads : DOMAIN touched'[u] = {"r", "w"}
    BY <1>8 DEF ShapeInv
  <2>3. QED
    BY <1>5, <2>1, <2>2 DEF ShapeInv
<1>12. ASSUME NEW u \in Threads
       PROVE  thread'[u] = thread[u] \/ Reached(s, u)'
  <2>1. CASE u \notin Lanes(w)
    BY <2>1, LanesMove DEF ExpandLeaves
  <2>2. CASE u \in Lanes(w)
    <3>1. /\ thread[u].move = s.move /\ thread[u].level = s.level /\ thread[u].cur = s.cur
          /\ thread[u].n = s.n /\ thread[u].count = s.count
      BY <1>3, <2>2, WhereRuns
    <3>2. /\ thread'[u].at = "commit" /\ thread'[u].waits = TRUE
          /\ thread'[u].move = thread[u].move /\ thread'[u].level = thread[u].level
          /\ thread'[u].cur = thread[u].cur /\ thread'[u].n = thread[u].n
          /\ thread'[u].count = thread[u].count
      BY <2>2, LanesMove DEF ExpandLeaves
    <3>3. QED
      BY <1>4, <3>1, <3>2 DEF Reached, Here, After, Barriers
  <2>3. QED
    BY <2>1, <2>2
<1>13. ASSUME NEW u \in Threads
       PROVE  touched'[u] = touched[u] \/ TouchedInv(s, u)'
  <2>1. CASE u \notin Lanes(w)
    BY <1>8, <2>1
  <2>2. CASE u \in Lanes(w)
    <3>1. touched'[u].r = touched[u].r \cup reads /\ touched'[u].w = touched[u].w \cup writes(u)
      BY <1>8, <2>2
    <3>2. Writes(s, u)' = Writes(s, u) /\ Reads(s, u)' = Reads(s, u)
      BY <1>6, OthersKeep
    <3>3. TouchedInv(s, u)
      BY DEF Between
    <3>4. QED
      BY <1>10, <3>1, <3>2, <3>3 DEF TouchedInv
  <2>3. QED
    BY <2>1, <2>2
<1>14. QED
  BY <1>6, <1>11, <1>12, <1>13, StepKeeps
-----------------------------------------------------------------------------
\* The next barrier is one of the kernel's.
LEMMA AfterIsABarrier ==
  ASSUME NEW s \in Barriers
  PROVE  After(s) \in Barriers
<1>1. /\ s.move + 1 \in Nat /\ s.level + 1 \in Nat /\ s.count + 1 \in Nat
      /\ 1 - s.cur \in {0, 1}
  BY DEF Barriers
<1>2. AfterKeep(s) \in Barriers
  BY <1>1 DEF AfterKeep, NextStage, Barriers
<1>3. AfterPick(s) \in Barriers
  BY <1>1, <1>2 DEF AfterPick, Barriers
<1>4. QED
  BY <1>1, <1>2, <1>3 DEF After, Barriers

\* Behind the barrier that all have reached, the next phase begins.
LEMMA ReleaseKeeps ==
  ASSUME ShapeInv, NEW s \in Barriers, Between(s), Release
  PROVE  IInv'
<1>1. PICK next \in Barriers : next = After(s)
  BY AfterIsABarrier
<1>2. \A t \in Threads : Here(t, TRUE, next)
  BY <1>1 DEF Release, Between, Reached, Midway, Here
<1>3. ASSUME NEW t \in Threads
      PROVE  DOMAIN thread'[t] = Registers /\ Here(t, FALSE, next)'
  BY <1>2 DEF Release, Here, ShapeInv, Registers
<1>4. ShapeInv'
  BY <1>3 DEF Release, KeepsGame, NothingTouched, ShapeInv
<1>5. ASSUME NEW t \in Threads
      PROVE  Reached(next, t)' /\ TouchedInv(next, t)'
  <2>1. touched'[t].r = {} /\ touched'[t].w = {}
    BY DEF Release, NothingTouched
  <2>2. QED
    BY <1>3, <2>1 DEF Reached, TouchedInv
<1>6. QED
  BY <1>4, <1>5 DEF IInv, Between

\* A block begins in front of Load.
LEMMA KernelInitIInv == KernelInit => IInv
<1> SUFFICES ASSUME KernelInit
             PROVE  IInv
  OBVIOUS
<1> DEFINE s == [at |-> "load", move |-> 0, level |-> 0, cur |-> 0, n |-> 0, count |-> 0]
<1>1. s \in Barriers
  BY DEF Barriers
<1>2. ShapeInv
  BY DEF KernelInit, ShapeInv, Registers, Arrays, NothingTouched
<1>3. ASSUME NEW t \in Threads
      PROVE  Reached(s, t) /\ TouchedInv(s, t)
  <2>1. Here(t, FALSE, s)
    BY DEF KernelInit, Here
  <2>2. touched[t].r = {} /\ touched[t].w = {}
    BY DEF KernelInit, NothingTouched
  <2>3. QED
    BY <2>1, <2>2 DEF Reached, TouchedInv
<1> HIDE DEF s
<1>4. QED
  BY <1>1, <1>2, <1>3 DEF IInv, Between

\* Every step keeps the block between two barriers.
LEMMA NextIInv == IInv /\ [KernelNext]_kernelVars => IInv'
<1> SUFFICES ASSUME IInv, [KernelNext]_kernelVars
             PROVE  IInv'
  OBVIOUS
<1>1. PICK s \in Barriers : Between(s)
  BY DEF IInv
<1>2. ShapeInv
  BY DEF IInv
<1>3. CASE \E t \in Threads : ThreadStep(t)
  <2>1. PICK t \in Threads : ThreadStep(t)
    BY <1>3
  <2> USE <1>1, <1>2
  <2>2. CASE Load(t)
    BY <2>2, LoadKeeps
  <2>3. CASE StartMove(t)
    BY <2>3, StartMoveKeeps
  <2>4. CASE LeaveLoop(t)
    BY <2>4, LeaveLoopKeeps
  <2>5. CASE ScoreRoots(t)
    BY <2>5, ScoreRootsKeeps
  <2>6. CASE PrepareLevel(t)
    BY <2>6, PrepareLevelKeeps
  <2>7. CASE ScoreMid(t)
    BY <2>7, ScoreMidKeeps
  <2>8. CASE MarkChildren(t)
    BY <2>8, MarkChildrenKeeps
  <2>9. CASE SortLocal(t)
    BY <2>9, SortLocalKeeps
  <2>10. CASE Pick(t)
    BY <2>10, PickKeeps
  <2>11. CASE KeepRoots(t)
    BY <2>11, KeepRootsKeeps
  <2>12. CASE KeepMid(t)
    BY <2>12, KeepMidKeeps
  <2>13. CASE Follow(t)
    BY <2>13, FollowKeeps
  <2>14. QED
    BY <2>1, <2>2, <2>3, <2>4, <2>5, <2>6, <2>7, <2>8, <2>9, <2>10, <2>11, <2>12, <2>13
    DEF ThreadStep
<1>4. CASE CommitHold
  BY <1>1, <1>2, <1>4, CommitHoldKeeps
<1>5. CASE CommitPlace
  BY <1>1, <1>2, <1>5, CommitPlaceKeeps
<1>6. CASE WriteFitness
  BY <1>1, <1>2, <1>6, WriteFitnessKeeps
<1>7. CASE \E w \in Warps : WarpStep(w)
  <2>1. PICK w \in Warps : WarpStep(w)
    BY <1>7
  <2>2. CASE ReduceOffers(w)
    BY <1>1, <1>2, <2>2, ReduceOffersKeeps
  <2>3. CASE ExpandLeaves(w)
    BY <1>1, <1>2, <2>3, ExpandLeavesKeeps
  <2>4. QED
    BY <2>1, <2>2, <2>3 DEF WarpStep
<1>8. CASE Release
  BY <1>1, <1>2, <1>8, ReleaseKeeps
<1>9. CASE UNCHANGED kernelVars
  <2>1. launch' = launch /\ block' = block /\ thread' = thread /\ touched' = touched
    BY <1>9 DEF kernelVars
  <2>2. ShapeInv' /\ PhaseKept(s)
    BY <1>2, <2>1, BlockBestKept DEF ShapeInv, PhaseKept
  <2>3. QED
    BY <1>1, <2>1, <2>2, StepKeeps
<1>10. QED
  BY <1>3, <1>4, <1>5, <1>6, <1>7, <1>8, <1>9 DEF KernelNext, CommitStep

\* A phase gives every thread cells of its own to write.
LEMMA PhaseHasNoRace ==
  ASSUME NEW s \in Barriers, NEW t \in Threads, NEW u \in Threads, t # u
  PROVE  Writes(s, t) \cap (Reads(s, u) \cup Writes(s, u)) = {}
<1> USE DEF Cells, Cell, If0
<1>1. KeepWrites(s, t) \cap
        (KeepReads(s, u) \cup KeepWrites(s, u) \cup Cells("warpBest", Warps)) = {}
  <2>1. CASE s.level > 0
    <3>1. 1 - s.cur # s.cur
      BY DEF Barriers
    <3>2. QED
      BY <2>1, <3>1 DEF KeepWrites, KeepReads, BeamCells
  <2>2. CASE ~(s.level > 0) /\ s.count = 0
    BY <2>2 DEF KeepWrites, KeepReads
  <2>3. CASE ~(s.level > 0) /\ s.count # 0
    BY <2>3 DEF KeepWrites, KeepReads, Situation
  <2>4. QED
    BY <2>1, <2>2, <2>3
<1>2. LeaderCells(t) \cap LeaderCells(u) = {}
  BY DEF LeaderCells
<1>3. CASE s.at = "load"
  BY <1>3 DEF Writes, Reads
<1>4. CASE s.at = "move"
  BY <1>4 DEF Writes, Reads
<1>5. CASE s.at = "roots"
  BY <1>5 DEF Writes, Reads, Situation
<1>6. CASE s.at \in {"sort", "offer", "leaves"}
  BY <1>2, <1>6 DEF Writes, Reads, Situation, LeaderCells, BeamCells
<1>7. CASE s.at = "pick"
  <2>1. CASE BlockBest = 0
    BY <1>1, <1>7, <2>1 DEF Writes, Reads
  <2>2. CASE BlockBest # 0
    BY <1>7, <2>2 DEF Writes, Reads
  <2>3. QED
    BY <2>1, <2>2
<1>8. CASE s.at = "keep"
  BY <1>1, <1>8 DEF Writes, Reads
<1>9. CASE s.at = "level"
  BY <1>9 DEF Writes, Reads, BeamCells
<1>10. CASE s.at = "mid"
  BY <1>10 DEF Writes, Reads, Situation, BeamCells
<1>11. CASE s.at = "commit"
  BY <1>11 DEF Writes, Reads, BeamCells
<1>12. QED
  BY <1>3, <1>4, <1>5, <1>6, <1>7, <1>8, <1>9, <1>10, <1>11 DEF Barriers

\* Within a phase nothing races.
LEMMA IInvNoDataRace == IInv => NoDataRace
<1> SUFFICES ASSUME IInv, NEW t \in Threads, NEW u \in Threads, t # u
             PROVE  touched[t].w \cap (touched[u].r \cup touched[u].w) = {}
  BY DEF NoDataRace
<1>1. PICK s \in Barriers : Between(s)
  BY DEF IInv
<1>2. /\ touched[t].w \subseteq Writes(s, t)
      /\ touched[u].r \subseteq Reads(s, u) /\ touched[u].w \subseteq Writes(s, u)
  BY <1>1 DEF Between, TouchedInv
<1>3. QED
  BY <1>2, PhaseHasNoRace

\* There is one barrier to wait at.
LEMMA IInvBarrierUniform == IInv => BarrierUniform
<1> SUFFICES ASSUME IInv, NEW t \in Threads, NEW u \in Threads, thread[t].waits
             PROVE  /\ thread[u].at \notin {"score", "done"}
                    /\ thread[u].waits =>
                         \A reg \in {"at", "move", "level", "cur", "n", "count"} :
                           thread[t][reg] = thread[u][reg]
  BY DEF BarrierUniform
<1>1. PICK s \in Barriers : Between(s)
  BY DEF IInv
<1>2. Here(t, TRUE, After(s)) /\ (s.at = "move" => Plays(s))
  BY <1>1 DEF Between, Reached, Midway, Here
<1>3. thread[u].at \notin {"score", "done"}
  <2>1. After(s).at \notin {"score", "done"} /\ s.at \notin {"score", "done"}
    BY AfterIsABarrier DEF Barriers
  <2>2. CASE Midway(s, u)
    BY <1>2, <2>2 DEF Midway, Here, Barriers
  <2>3. CASE ~Midway(s, u)
    BY <1>1, <2>1, <2>3 DEF Between, Reached, Here
  <2>4. QED
    BY <2>2, <2>3
<1>4. ASSUME thread[u].waits
      PROVE  Here(u, TRUE, After(s))
  BY <1>1, <1>4 DEF Between, Reached, Midway, Here
<1>5. QED
  BY <1>2, <1>3, <1>4 DEF Here

\* Between two barriers no thread of a block touches what another one writes,
\* for every block and warp size, beam and depth, whatever a model scores.
THEOREM ThreadsNeverRace == KernelSpec => []NoDataRace
<1>1. KernelInit => IInv
  BY KernelInitIInv
<1>2. IInv /\ [KernelNext]_kernelVars => IInv'
  BY NextIInv
<1>3. IInv => NoDataRace
  BY IInvNoDataRace
<1>4. QED
  BY <1>1, <1>2, <1>3, PTL DEF KernelSpec

\* The threads of a block wait at one barrier, in the same round of the same
\* level of the same move, and none is gone: they all come out of it.
THEOREM BarriersAreUniform == KernelSpec => []BarrierUniform
<1>1. KernelInit => IInv
  BY KernelInitIInv
<1>2. IInv /\ [KernelNext]_kernelVars => IInv'
  BY NextIInv
<1>3. IInv => BarrierUniform
  BY IInvBarrierUniform
<1>4. QED
  BY <1>1, <1>2, <1>3, PTL DEF KernelSpec
=============================================================================
