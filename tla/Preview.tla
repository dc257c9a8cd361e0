-------------------------------- MODULE Preview --------------------------------
(***************************************************************************)
(* AiPreview and AiRenderer2: the owner (the trainer's thread) starts,     *)
(* refreshes and stops the preview; a worker thread plays the games and    *)
(* publishes snapshots; a render thread draws them.  Every startRenderer() *)
(* spawns another worker, numbered here in order.                          *)
(***************************************************************************)
EXTENDS Integers, FiniteSets

CONSTANTS
  MAX_WORKERS,   (* bound of the model: workers ever started               *)
  BOARDS,        (* boards in a snapshot                                   *)
  STOP_CALLED    (* whether the owner ever calls stop(), or only destroys  *)

ASSUME PreviewAssumption ==
  /\ MAX_WORKERS \in Nat \ {0}
  /\ BOARDS \in Nat \ {0}
  /\ STOP_CALLED \in BOOLEAN

Workers == 1..MAX_WORKERS
NOBODY == 0
RENDERER == MAX_WORKERS + 1

VARIABLES
  owner,        (* where the owner is in run, refresh, stop, the destructor *)
  renderer,     (* _renderer has a value                                    *)
  runThread,    (* the worker in _runThread, or NOBODY                      *)
  started,      (* workers spawned so far                                   *)
  stopAsked,    (* stopAsked[w]: request_stop() on the jthread of w         *)
  worker,       (* worker[w]: where worker w is                             *)
  turn,         (* turn[w]: what distinguishes two successive frames of w   *)
  drawer,       (* where the render thread is                               *)
  window,       (* its window: shown, minimized, or shown with a new size   *)
  lock,         (* who holds _mutex                                         *)
  copied,       (* boards copied by the thread that holds it                *)
  snapshot,     (* _snapshot: by board, the worker and turn it is from      *)
  frame         (* the render thread's copy                                 *)

ownerVars == <<owner, renderer, runThread, started, stopAsked>>
drawVars == <<drawer, window, snapshot, frame>>
vars == <<owner, renderer, runThread, started, stopAsked, worker, turn,
          drawer, window, lock, copied, snapshot, frame>>

Blank == [b \in 1..BOARDS |-> <<NOBODY, 0>>]

Init ==
  /\ owner = "ready"
  /\ renderer = FALSE
  /\ runThread = NOBODY
  /\ started = 0
  /\ stopAsked = [w \in Workers |-> FALSE]
  /\ worker = [w \in Workers |-> "unborn"]
  /\ turn = [w \in Workers |-> 0]
  /\ drawer = "done"
  /\ window = "shown"
  /\ lock = NOBODY
  /\ copied = 0
  /\ snapshot = Blank
  /\ frame = Blank

AskStop(w) == stopAsked' = [v \in Workers |-> stopAsked[v] \/ v = w]

Done(w) == \A v \in Workers : v = w => worker[v] = "done"
-----------------------------------------------------------------------------
(* The owner. *)

\* run(): _renderer.emplace, which starts the render thread.
Run ==
  /\ owner = "ready"
  /\ ~renderer
  /\ started < MAX_WORKERS
  /\ renderer' = TRUE
  /\ drawer' = "poll"
  /\ window' = "shown"
  /\ snapshot' = Blank
  /\ frame' = Blank
  /\ owner' = "spawn"
  /\ UNCHANGED <<runThread, started, stopAsked, worker, turn, lock, copied>>

\* refresh(), up to the assignment of _params, which "write" stands for.
Refresh ==
  /\ owner = "ready"
  /\ renderer
  /\ started < MAX_WORKERS
  /\ AskStop(runThread)
  /\ owner' = "write"
  /\ UNCHANGED <<renderer, runThread, started, worker, turn, lock, copied, drawVars>>

WriteParams ==
  /\ owner = "write"
  /\ owner' = "spawn"
  /\ UNCHANGED <<renderer, runThread, started, stopAsked, worker, turn, lock, copied, drawVars>>

\* startRenderer(): the new thread runs before the assignment to _runThread
\* asks the old one to stop ...
Spawn ==
  /\ owner = "spawn"
  /\ started' = started + 1
  /\ worker' = [worker EXCEPT ![started + 1] = "load"]
  /\ AskStop(runThread)
  /\ owner' = "join"
  /\ UNCHANGED <<renderer, runThread, turn, lock, copied, drawVars>>

\* Mutant: the old thread is let go instead of joined.
JoinDetached ==
  /\ owner = "join"
  /\ runThread' = started
  /\ owner' = "ready"
  /\ UNCHANGED <<renderer, started, stopAsked, worker, turn, lock, copied, drawVars>>

\* ... and joins it.
Join ==
  /\ owner = "join"
  /\ Done(runThread)
  /\ runThread' = started
  /\ owner' = "ready"
  /\ UNCHANGED <<renderer, started, stopAsked, worker, turn, lock, copied, drawVars>>

\* stop(): the worker is asked to stop and nobody waits for it.
Stop ==
  /\ STOP_CALLED
  /\ owner = "ready"
  /\ renderer
  /\ AskStop(runThread)
  /\ owner' = "drop"
  /\ UNCHANGED <<renderer, runThread, started, worker, turn, lock, copied, drawVars>>

\* ~AiPreview(): _runThread goes first.
Destroy ==
  /\ owner = "ready"
  /\ AskStop(runThread)
  /\ owner' = "destroy"
  /\ UNCHANGED <<renderer, runThread, started, worker, turn, lock, copied, drawVars>>

\* Mutant: the members die in the other order.
DestroyJoinedUnjoined ==
  /\ owner = "destroy"
  /\ owner' = IF renderer THEN "destroyed" ELSE "end"
  /\ UNCHANGED <<renderer, runThread, started, stopAsked, worker, turn, lock, copied, drawVars>>

DestroyJoined ==
  /\ owner = "destroy"
  /\ Done(runThread)
  /\ owner' = IF renderer THEN "destroyed" ELSE "end"
  /\ UNCHANGED <<renderer, runThread, started, stopAsked, worker, turn, lock, copied, drawVars>>

\* ~AiRenderer2(), once the render thread is joined: in stop() and at the end.
DropRenderer ==
  /\ owner \in {"drop", "destroyed"}
  /\ drawer = "done"
  /\ renderer' = FALSE
  /\ owner' = IF owner = "drop" THEN "ready" ELSE "end"
  /\ lock' = NOBODY
  /\ UNCHANGED <<runThread, started, stopAsked, worker, turn, copied, drawVars>>

Owner ==
  \/ Run \/ Refresh \/ WriteParams \/ Spawn \/ Join \/ Stop
  \/ Destroy \/ DestroyJoined \/ DropRenderer
-----------------------------------------------------------------------------
(* Worker w. *)

Goes(w, to) == worker' = [worker EXCEPT ![w] = to]

Load(w) ==
  /\ worker[w] = "load"
  /\ Goes(w, "loop")
  /\ UNCHANGED <<ownerVars, turn, lock, copied, drawVars>>

\* Mutant: the loop does not look at its stop token.
PlayOn(w) ==
  /\ worker[w] = "loop"
  /\ Goes(w, "update")
  /\ turn' = [turn EXCEPT ![w] = 1 - @]
  /\ UNCHANGED <<ownerVars, lock, copied, drawVars>>

\* The loop's condition, then one move of every game.
Play(w) ==
  /\ worker[w] = "loop"
  /\ \/ stopAsked[w] /\ Goes(w, "done") /\ UNCHANGED turn
     \/ /\ ~stopAsked[w]
        /\ Goes(w, "update")
        /\ turn' = [turn EXCEPT ![w] = 1 - @]
  /\ UNCHANGED <<ownerVars, lock, copied, drawVars>>

\* Mutant: the snapshot is published without the lock.
BeginUpdateUnlocked(w) ==
  /\ worker[w] = "update"
  /\ Goes(w, "copy")
  /\ lock' = w
  /\ copied' = 0
  /\ UNCHANGED <<ownerVars, turn, drawVars>>

\* _renderer->update(boards).  On a renderer that is gone, or goes while the
\* call is under way, the call is undefined; here it ends and copies no more.
BeginUpdate(w) ==
  /\ worker[w] = "update"
  /\ Goes(w, "copy")
  /\ \/ renderer /\ lock = NOBODY /\ lock' = w /\ copied' = 0
     \/ ~renderer /\ UNCHANGED <<lock, copied>>
  /\ UNCHANGED <<ownerVars, turn, drawVars>>

CopyBoard(w) ==
  /\ worker[w] = "copy"
  /\ lock = w
  /\ copied < BOARDS
  /\ snapshot' = [snapshot EXCEPT ![copied + 1] = <<w, turn[w]>>]
  /\ copied' = copied + 1
  /\ UNCHANGED <<ownerVars, worker, turn, lock, drawer, window, frame>>

EndUpdate(w) ==
  /\ worker[w] = "copy"
  /\ lock = w => copied = BOARDS
  /\ lock' = IF lock = w THEN NOBODY ELSE lock
  /\ Goes(w, "loop")
  /\ UNCHANGED <<ownerVars, turn, copied, drawVars>>

Worker(w) == Load(w) \/ Play(w) \/ BeginUpdate(w) \/ CopyBoard(w) \/ EndUpdate(w)
-----------------------------------------------------------------------------
(* The render thread. *)

RendererAskedToStop == owner \in {"drop", "destroyed"}

\* One turn of the loop up to the mutex.  A new size is taken note of and the
\* turn is over; with the window minimized nothing is copied or drawn.
Poll ==
  /\ drawer = "poll"
  /\ ~RendererAskedToStop
  /\ \/ window = "resized" /\ window' = "shown" /\ UNCHANGED drawer
     \/ window = "minimized" /\ UNCHANGED <<window, drawer>>
     \/ window = "shown" /\ drawer' = "lock" /\ UNCHANGED window
  /\ UNCHANGED <<ownerVars, worker, turn, lock, copied, snapshot, frame>>

BeginFrame ==
  /\ drawer = "lock"
  /\ lock = NOBODY
  /\ lock' = RENDERER
  /\ copied' = 0
  /\ drawer' = "copy"
  /\ UNCHANGED <<ownerVars, worker, turn, window, snapshot, frame>>

\* Mutant: a frame once filled is not taken again.
CopyFrameOnce ==
  /\ drawer = "copy"
  /\ copied < BOARDS
  /\ \/ frame[copied + 1] = Blank[copied + 1]
        /\ frame' = [frame EXCEPT ![copied + 1] = snapshot[copied + 1]]
     \/ frame[copied + 1] # Blank[copied + 1] /\ UNCHANGED frame
  /\ copied' = copied + 1
  /\ UNCHANGED <<ownerVars, worker, turn, lock, drawer, window, snapshot>>

CopyFrame ==
  /\ drawer = "copy"
  /\ copied < BOARDS
  /\ frame' = [frame EXCEPT ![copied + 1] = snapshot[copied + 1]]
  /\ copied' = copied + 1
  /\ UNCHANGED <<ownerVars, worker, turn, lock, drawer, window, snapshot>>

EndCopy ==
  /\ drawer = "copy"
  /\ copied = BOARDS
  /\ lock' = NOBODY
  /\ drawer' = "draw"
  /\ UNCHANGED <<ownerVars, worker, turn, window, copied, snapshot, frame>>

Draw ==
  /\ drawer = "draw"
  /\ drawer' = "poll"
  /\ UNCHANGED <<ownerVars, worker, turn, window, lock, copied, snapshot, frame>>

\* The loop ends when asked to, or when the user closes the window.
EndLoop ==
  /\ drawer = "poll"
  /\ RendererAskedToStop
  /\ drawer' = "done"
  /\ UNCHANGED <<ownerVars, worker, turn, window, lock, copied, snapshot, frame>>

CloseWindow ==
  /\ drawer = "poll"
  /\ drawer' = "done"
  /\ UNCHANGED <<ownerVars, worker, turn, window, lock, copied, snapshot, frame>>

Drawer == Poll \/ BeginFrame \/ CopyFrame \/ EndCopy \/ Draw \/ EndLoop
-----------------------------------------------------------------------------
(* The user's hands on the window. *)

\* Also several times before the loop polls again.
Resize ==
  /\ window = "shown"
  /\ window' = "resized"

Minimize ==
  /\ window # "minimized"
  /\ window' = "minimized"

Show ==
  /\ window = "minimized"
  /\ window' \in {"shown", "resized"}

User ==
  /\ drawer # "done"
  /\ Resize \/ Minimize \/ Show
  /\ UNCHANGED <<ownerVars, worker, turn, drawer, lock, copied, snapshot, frame>>

Terminated == owner = "end" /\ (\A w \in Workers : worker[w] \in {"unborn", "done"}) /\ UNCHANGED vars

Next ==
  \/ Owner \/ (\E w \in Workers : Worker(w)) \/ Drawer
  \/ CloseWindow \/ User \/ Terminated

\* The threads are scheduled, and an owner inside a call goes on; whether it
\* makes another call, and what the user does to the window, is up to them.
\* Both threads sleep between two acquisitions of the mutex (50 and 16 ms), so
\* one that waits at it is not passed over for ever: strong fairness for that
\* step alone, and not for Poll, which comes to the mutex only while the
\* window is neither minimized nor resized.
Fairness ==
  /\ WF_vars(WriteParams \/ Spawn \/ Join \/ DestroyJoined \/ DropRenderer)
  /\ WF_vars(Drawer)
  /\ SF_vars(BeginFrame)
  /\ \A w \in Workers : WF_vars(Worker(w)) /\ SF_vars(BeginUpdate(w))

Spec == Init /\ [][Next]_vars /\ Fairness
-----------------------------------------------------------------------------
\* "declared last so its destructor stops + joins the worker before _renderer
\* dies under it" (preview.hpp): a worker that publishes finds the renderer.
RendererOutlivesWorker ==
  \A w \in Workers : worker[w] \in {"update", "copy"} => renderer

\* What that sentence does say of the destructor: when it comes to the
\* renderer, every worker ever started is gone, also one that a stop() before
\* it only asked to stop, so the renderer and the members it shares with the
\* workers die unused.
DestructorJoinsFirst ==
  owner \in {"destroyed", "end"} => \A w \in Workers : worker[w] \in {"unborn", "done"}

\* Starting a worker over a running one, which is how refresh() works, never
\* leaves two that go on: all but the newest were told to stop, and when the
\* owner's call returns they are gone.
OneWorkerGoesOn ==
  LET alive == {w \in Workers : worker[w] \notin {"unborn", "done"}}
  IN  /\ Cardinality({w \in alive : ~stopAsked[w]}) <= 1
      /\ owner = "ready" => alive \subseteq {runThread}

\* What is drawn is one snapshot: all boards are from the same move of the
\* same worker, also while two workers overlap in a refresh.
FrameIsOneSnapshot ==
  drawer = "draw" => \A b, c \in 1..BOARDS : frame[b] = frame[c]

\* run(), refresh(), stop() and the destructor return: the threads they wait
\* for do end, whoever holds the mutex when they are told to.
CallsReturn == owner # "ready" ~> owner \in {"ready", "end"}

\* The newest worker's games come to the screen, unless it is replaced or
\* stopped first, the window is closed, or the user hides or resizes it.  It is
\* asked again from every state in which the worker is the newest, so a window
\* that in the end stays shown does show that worker's games.
NewestIsDrawn ==
  \A w \in Workers :
    runThread = w ~> \/ \A b \in 1..BOARDS : frame[b][1] = w
                     \/ stopAsked[w]
                     \/ drawer = "done"
                     \/ window # "shown"
=============================================================================
