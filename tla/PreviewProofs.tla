---------------------------- MODULE PreviewProofs ----------------------------
(***************************************************************************)
(* Theorems about Preview for any number of workers and boards, whether or *)
(* not stop() is ever called.                                              *)
(***************************************************************************)
EXTENDS Preview, TLAPS, FiniteSetTheorems

TypeOK ==
  /\ owner \in {"ready", "write", "spawn", "join", "drop", "destroy", "destroyed", "end"}
  /\ renderer \in BOOLEAN
  /\ runThread \in 0..MAX_WORKERS
  /\ started \in 0..MAX_WORKERS
  /\ stopAsked \in [Workers -> BOOLEAN]
  /\ worker \in [Workers -> {"unborn", "load", "loop", "update", "copy", "done"}]
  /\ turn \in [Workers -> {0, 1}]
  /\ drawer \in {"poll", "lock", "copy", "draw", "done"}
  /\ window \in {"shown", "resized", "minimized"}
  /\ lock \in 0..RENDERER
  /\ copied \in 0..BOARDS
  /\ snapshot \in [1..BOARDS -> (0..MAX_WORKERS) \X {0, 1}]
  /\ frame \in [1..BOARDS -> (0..MAX_WORKERS) \X {0, 1}]

\* Workers are spawned in order and all but the last two are joined; the last
\* but one is there only while the owner waits for it, and was told to stop.
ThreadInv ==
  /\ owner \in {"write", "spawn"} => started < MAX_WORKERS
  /\ owner # "join" => runThread = started
  /\ owner = "join" =>
       /\ started = runThread + 1
       /\ runThread # NOBODY => stopAsked[runThread]
  /\ \A w \in Workers : w > started => worker[w] = "unborn"
  /\ \A w \in Workers : w < runThread => worker[w] = "done"
  /\ owner \in {"destroyed", "end"} /\ runThread # NOBODY => worker[runThread] = "done"

Uniform(boards) == \A b, c \in 1..BOARDS : boards[b] = boards[c]

\* Who holds the mutex is in the section it protects, with `copied` its own;
\* outside of a worker's section the snapshot of a living renderer is whole.
LockInv ==
  /\ ~renderer => drawer = "done" /\ lock = NOBODY
  /\ lock = RENDERER <=> drawer = "copy"
  /\ \A w \in Workers : lock = w =>
       /\ worker[w] = "copy"
       /\ \A b \in 1..copied : snapshot[b] = <<w, turn[w]>>
  /\ renderer /\ lock \notin Workers => Uniform(snapshot)
  /\ drawer = "copy" => \A b \in 1..copied : frame[b] = snapshot[b]
  /\ drawer = "draw" => Uniform(frame)

IInv == TypeOK /\ ThreadInv /\ LockInv
-----------------------------------------------------------------------------
\* What the proofs need of the constants.
LEMMA ConstantFacts ==
  /\ MAX_WORKERS \in Nat /\ MAX_WORKERS > 0
  /\ BOARDS \in Nat /\ BOARDS > 0
  /\ Workers = 1..MAX_WORKERS
  /\ NOBODY = 0 /\ RENDERER = MAX_WORKERS + 1
  /\ NOBODY \in 0..RENDERER /\ RENDERER \in 0..RENDERER /\ Workers \subseteq 0..RENDERER
  /\ NOBODY \notin Workers /\ RENDERER \notin Workers
  BY PreviewAssumption DEF Workers, NOBODY, RENDERER

\* All threads are unborn, nobody holds the mutex, there is no renderer.
LEMMA InitIInv == Init => IInv
<1> SUFFICES ASSUME Init
             PROVE  IInv
  OBVIOUS
<1> USE ConstantFacts DEF Init
<1>1. TypeOK
  <2>1. Blank \in [1..BOARDS -> (0..MAX_WORKERS) \X {0, 1}]
    BY DEF Blank
  <2>2. /\ stopAsked \in [Workers -> BOOLEAN]
        /\ worker \in [Workers -> {"unborn", "load", "loop", "update", "copy", "done"}]
        /\ turn \in [Workers -> {0, 1}]
    OBVIOUS
  <2>3. /\ runThread \in 0..MAX_WORKERS /\ started \in 0..MAX_WORKERS
        /\ copied \in 0..BOARDS
    OBVIOUS
  <2>4. QED
    BY <2>1, <2>2, <2>3 DEF TypeOK
<1>2. ThreadInv
  BY DEF ThreadInv
<1>3. LockInv
  BY DEF LockInv, Blank, Uniform
<1>4. QED
  BY <1>1, <1>2, <1>3 DEF IInv

\* A step of the owner keeps the invariant.
LEMMA OwnerIInv ==
  ASSUME IInv, Owner
  PROVE  IInv'
<1> USE ConstantFacts DEF TypeOK, ThreadInv, LockInv, IInv, Uniform, AskStop, Done, drawVars, ownerVars
<1>1. CASE Run
  BY <1>1 DEF Run, Blank
<1>2. CASE Refresh
  BY <1>2 DEF Refresh
<1>3. CASE WriteParams
  BY <1>3 DEF WriteParams
<1>4. CASE Spawn
  <2>1. TypeOK'
    BY <1>4 DEF Spawn
  <2>2. ThreadInv'
    <3>1. started' = runThread + 1 /\ runThread' = runThread /\ owner' = "join"
      BY <1>4 DEF Spawn
    <3>2. ASSUME runThread # NOBODY
          PROVE  stopAsked'[runThread]
      <4>1. runThread \in Workers
        BY <3>2
      <4>2. stopAsked' = [v \in Workers |-> stopAsked[v] \/ v = runThread]
        BY <1>4 DEF Spawn
      <4>3. QED
        BY ONLY <4>1, <4>2
    <3>3. \A v \in Workers : v > started' => worker'[v] = "unborn"
      BY <1>4 DEF Spawn
    <3>4. \A v \in Workers : v < runThread => worker'[v] = "done"
      BY <1>4 DEF Spawn
    <3>5. QED
      BY <3>1, <3>2, <3>3, <3>4
  <2>3. LockInv'
    BY <1>4 DEF Spawn
  <2>4. QED
    BY <2>1, <2>2, <2>3
<1>5. CASE Join
  BY <1>5 DEF Join
<1>6. CASE Stop
  BY <1>6 DEF Stop
<1>7. CASE Destroy
  BY <1>7 DEF Destroy
<1>8. CASE DestroyJoined
  BY <1>8 DEF DestroyJoined
<1>9. CASE DropRenderer
  <2>1. TypeOK'
    <3>1. owner' \in {"ready", "end"} /\ lock' = NOBODY /\ renderer' = FALSE
      BY <1>9 DEF DropRenderer
    <3>2. QED
      BY <1>9, <3>1 DEF DropRenderer
  <2>2. ThreadInv'
    BY <1>9 DEF DropRenderer
  <2>3. LockInv'
    BY <1>9 DEF DropRenderer
  <2>4. QED
    BY <2>1, <2>2, <2>3
<1>10. QED
  BY <1>1, <1>2, <1>3, <1>4, <1>5, <1>6, <1>7, <1>8, <1>9 DEF Owner

\* A step of a worker keeps the invariant.
LEMMA WorkerIInv ==
  ASSUME IInv, NEW w \in Workers, Worker(w)
  PROVE  IInv'
<1> USE ConstantFacts DEF TypeOK, ThreadInv, LockInv, IInv, Uniform, Goes, drawVars, ownerVars
<1>1. CASE Load(w)
  BY <1>1 DEF Load
<1>2. CASE Play(w)
  <2>1. TypeOK'
    <3>1. turn[w] \in {0, 1}
      OBVIOUS
    <3>2. 1 - turn[w] \in {0, 1}
      BY <3>1
    <3>3. worker' \in [Workers -> {"unborn", "load", "loop", "update", "copy", "done"}]
      BY <1>2 DEF Play
    <3>4. turn' \in [Workers -> {0, 1}]
      BY <1>2, <3>2 DEF Play
    <3>5. QED
      BY <1>2, <3>3, <3>4 DEF Play
  <2>2. ThreadInv'
    BY <1>2 DEF Play
  <2>3. LockInv'
    BY <1>2 DEF Play
  <2>4. QED
    BY <2>1, <2>2, <2>3
<1>3. CASE BeginUpdate(w)
  BY <1>3 DEF BeginUpdate
<1>4. CASE CopyBoard(w)
  <2>1. TypeOK'
    BY <1>4 DEF CopyBoard
  <2>2. ThreadInv'
    BY <1>4 DEF CopyBoard
  <2>3. LockInv'
    BY <1>4 DEF CopyBoard
  <2>4. QED
    BY <2>1, <2>2, <2>3
<1>5. CASE EndUpdate(w)
  <2>1. TypeOK'
    BY <1>5 DEF EndUpdate
  <2>2. ThreadInv'
    BY <1>5 DEF EndUpdate
  <2>3. LockInv'
    <3>1. CASE lock = w
      <4>1. Uniform(snapshot)
        BY <1>5, <3>1 DEF EndUpdate
      <4>2. lock' = NOBODY /\ snapshot' = snapshot /\ frame' = frame /\ copied' = copied
        BY <1>5, <3>1 DEF EndUpdate
      <4>3. renderer' = renderer /\ drawer' = drawer /\ drawer # "copy" /\ renderer
        BY <1>5, <3>1 DEF EndUpdate
      <4>4. QED
        BY <4>1, <4>2, <4>3
    <3>2. CASE lock # w
      <4>1. /\ UNCHANGED <<lock, snapshot, frame, copied, renderer, drawer, turn>>
            /\ \A v \in Workers : v # w => worker'[v] = worker[v]
        BY <1>5, <3>2 DEF EndUpdate
      <4>2. QED
        BY <3>2, <4>1
    <3>3. QED
      BY <3>1, <3>2
  <2>4. QED
    BY <2>1, <2>2, <2>3
<1>6. QED
  BY <1>1, <1>2, <1>3, <1>4, <1>5 DEF Worker

\* A step of the render thread, or of the user at its window, keeps the
\* invariant.
LEMMA DrawerIInv ==
  ASSUME IInv, Drawer \/ CloseWindow \/ User
  PROVE  IInv'
<1> USE ConstantFacts DEF TypeOK, ThreadInv, LockInv, IInv, Uniform, drawVars, ownerVars
<1>1. CASE BeginFrame
  BY <1>1 DEF BeginFrame
<1>2. CASE CopyFrame
  BY <1>2 DEF CopyFrame
<1>3. CASE EndCopy
  BY <1>3 DEF EndCopy
<1>4. CASE Draw
  BY <1>4 DEF Draw
<1>5. CASE EndLoop
  BY <1>5 DEF EndLoop
<1>6. CASE CloseWindow
  BY <1>6 DEF CloseWindow
<1>7. CASE Poll
  BY <1>7 DEF Poll
<1>8. CASE User
  BY <1>8 DEF User, Resize, Minimize, Show
<1>9. QED
  BY <1>1, <1>2, <1>3, <1>4, <1>5, <1>6, <1>7, <1>8 DEF Drawer

\* Every step keeps the invariant.
LEMMA NextIInv == IInv /\ [Next]_vars => IInv'
<1> SUFFICES ASSUME IInv, [Next]_vars
             PROVE  IInv'
  OBVIOUS
<1>1. CASE UNCHANGED vars
  BY <1>1 DEF vars, IInv, TypeOK, ThreadInv, LockInv, Uniform
<1>2. QED
  BY <1>1, OwnerIInv, WorkerIInv, DrawerIInv DEF Next, Terminated

\* The destructor reaches the renderer and the members it shares with the
\* workers only after every worker is gone.
THEOREM MembersDieUnused == Spec => []DestructorJoinsFirst
<1>1. IInv => DestructorJoinsFirst
  <2> SUFFICES ASSUME IInv, owner \in {"destroyed", "end"}, NEW w \in Workers
               PROVE  worker[w] \in {"unborn", "done"}
    BY DEF DestructorJoinsFirst
  <2>1. runThread = started /\ w \in Nat /\ runThread \in Nat
    BY ConstantFacts DEF IInv, TypeOK, ThreadInv
  <2>2. CASE w > started
    BY <2>2 DEF IInv, ThreadInv
  <2>3. CASE w < started
    BY <2>1, <2>3 DEF IInv, ThreadInv
  <2>4. CASE w = started
    BY <2>1, <2>4, ConstantFacts DEF IInv, ThreadInv
  <2>5. QED
    BY <2>1, <2>2, <2>3, <2>4
<1>2. QED
  BY <1>1, InitIInv, NextIInv, PTL DEF Spec

\* However often the preview is refreshed, at most one worker was not told to
\* stop, and between two calls of the owner no other one is alive.
THEOREM OneWorkerEver == Spec => []OneWorkerGoesOn
<1>1. IInv => OneWorkerGoesOn
  <2> SUFFICES ASSUME IInv
               PROVE  OneWorkerGoesOn
    OBVIOUS
  <2> DEFINE alive == {w \in Workers : worker[w] \notin {"unborn", "done"}}
             goesOn == {w \in alive : ~stopAsked[w]}
  <2>1. runThread \in Nat /\ started \in Nat /\ \A w \in Workers : w \in Nat /\ w # NOBODY
    BY ConstantFacts DEF IInv, TypeOK
  <2>2. \A w \in alive : runThread <= w /\ w <= started
    BY <2>1 DEF IInv, ThreadInv
  <2>3. owner # "join" => alive \subseteq {runThread}
    BY <2>1, <2>2 DEF IInv, ThreadInv
  <2>4. goesOn \subseteq {started}
    <3>1. ASSUME NEW w \in goesOn
          PROVE  w = started
      <4>1. CASE owner # "join"
        BY <2>3, <4>1 DEF IInv, ThreadInv
      <4>2. CASE owner = "join"
        <5>1. w # runThread
          BY <2>1, <4>2 DEF IInv, ThreadInv
        <5>2. QED
          BY <2>1, <2>2, <4>2, <5>1 DEF IInv, ThreadInv
      <4>3. QED
        BY <4>1, <4>2
    <3>2. QED
      BY <3>1
  <2>5. Cardinality(goesOn) <= 1
    <3> HIDE DEF goesOn
    <3>1. IsFiniteSet({started}) /\ Cardinality({started}) = 1
      BY FS_Singleton
    <3>2. QED
      BY <2>4, <3>1, FS_Subset
  <2>6. QED
    BY <2>3, <2>5 DEF OneWorkerGoesOn
<1>2. QED
  BY <1>1, InitIInv, NextIInv, PTL DEF Spec

\* The render thread never draws boards of two moves or of two workers in one
\* frame, also when a renderer is dropped under a worker that still publishes.
THEOREM FramesAreWhole == Spec => []FrameIsOneSnapshot
<1>1. IInv => FrameIsOneSnapshot
  BY DEF IInv, LockInv, Uniform, FrameIsOneSnapshot
<1>2. QED
  BY <1>1, InitIInv, NextIInv, PTL DEF Spec
=============================================================================
