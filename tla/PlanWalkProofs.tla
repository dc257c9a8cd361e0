---------------------------- MODULE PlanWalkProofs ----------------------------
(***************************************************************************)
(* The window the search plans on, for any pieces and any queue length,    *)
(* and the plans it makes on that window, for any depth.                   *)
(***************************************************************************)
EXTENDS PlanWalk, RulesProofs, SequenceTheorems

\* The inductive invariant.
IInv == TypeOK /\ WindowDistinct

\* What the proofs need of the constants.
LEMMA ConstantFacts ==
  /\ IsFiniteSet(Types)
  /\ Cardinality(Types) \in Nat
  /\ PIECE_QUEUE_SIZE \in Nat /\ PIECE_QUEUE_SIZE >= 1
  BY FlowAssumption, TypesAssumption, FS_CardinalityType

\* The number of pieces dealt is a number, also for sets of pieces.
LEMMA DealtFacts ==
  ASSUME NEW r \in SUBSET Types
  PROVE  IsFiniteSet(r) /\ Cardinality(r) \in Nat /\ Cardinality(r) <= Cardinality(Types)
  BY ConstantFacts, FS_Subset, FS_CardinalityType

\* Shifting the queue and appending a piece.
LEMMA ShiftedQueue ==
  ASSUME NEW q \in [1..PIECE_QUEUE_SIZE -> Types], NEW p \in Types
  PROVE  /\ Append(Tail(q), p) \in [1..PIECE_QUEUE_SIZE -> Types]
         /\ \A i \in 1..PIECE_QUEUE_SIZE :
              Append(Tail(q), p)[i] = IF i = PIECE_QUEUE_SIZE THEN p ELSE q[i + 1]
<1> DEFINE t == Tail(q)
           a == Append(t, p)
<1>1. q \in Seq(Types) /\ Len(q) = PIECE_QUEUE_SIZE /\ q # << >>
  BY ConstantFacts
<1>2. /\ t \in Seq(Types)
      /\ Len(t) = PIECE_QUEUE_SIZE - 1
      /\ \A i \in 1..(PIECE_QUEUE_SIZE - 1) : t[i] = q[i + 1]
  BY <1>1, ConstantFacts
<1> HIDE DEF t
<1>3. /\ a \in Seq(Types)
      /\ Len(a) = Len(t) + 1
      /\ \A i \in 1..Len(t) : a[i] = t[i]
      /\ a[Len(t) + 1] = p
  BY <1>2, AppendProperties
<1> HIDE DEF a
<1>4. Len(t) + 1 = PIECE_QUEUE_SIZE /\ Len(t) = PIECE_QUEUE_SIZE - 1
  BY <1>2, ConstantFacts
<1>5. a \in [1..PIECE_QUEUE_SIZE -> Types]
  BY <1>3, <1>4
<1>6. \A i \in 1..PIECE_QUEUE_SIZE : a[i] = IF i = PIECE_QUEUE_SIZE THEN p ELSE q[i + 1]
  BY <1>2, <1>3, <1>4, ConstantFacts
<1>7. QED
  BY <1>5, <1>6 DEF a, t

\* A started flow has a window of different pieces, none of them owed.
LEMMA StartIInv ==
  ASSUME Start(queue, remaining, held)
  PROVE  IInv
<1>1. TypeOK
  BY DEF Start, TypeOK
<1>2. ASSUME NEW i \in 2..PIECE_QUEUE_SIZE
      PROVE  /\ queue[i] \notin remaining
             /\ \A j \in (i + 1)..PIECE_QUEUE_SIZE : queue[j] # queue[i]
  <2>1. i \in 1..PIECE_QUEUE_SIZE
    BY ConstantFacts
  <2>2. \A j \in (i + 1)..PIECE_QUEUE_SIZE : j \in 1..PIECE_QUEUE_SIZE /\ j # i
    BY ConstantFacts
  <2>3. QED
    BY <2>1, <2>2 DEF Start
<1>3. QED
  BY <1>1, <1>2 DEF IInv, WindowDistinct

\* Dealing a piece into the queue keeps the window distinct.
LEMMA AdvanceIInv ==
  ASSUME IInv, Advance, held' \in Types \cup {NO_PIECE}
  PROVE  IInv'
<1> DEFINE Q == PIECE_QUEUE_SIZE
           N == Cardinality(Types)
<1>1. PICK p \in Refilled : remaining' = Refilled \ {p} /\ queue' = Append(Tail(queue), p)
  BY DEF Advance
<1>2. Refilled \in SUBSET Types /\ p \in Types /\ remaining \in SUBSET Types
  BY DEF IInv, TypeOK, Refilled
<1>3. /\ queue' \in [1..Q -> Types]
      /\ \A i \in 1..Q : queue'[i] = IF i = Q THEN p ELSE queue[i + 1]
  BY <1>1, <1>2, ShiftedQueue DEF IInv, TypeOK
<1>4. TypeOK'
  BY <1>1, <1>2, <1>3 DEF TypeOK
<1>5. Q \in Nat /\ Q >= 1 /\ N \in Nat
  BY ConstantFacts
<1> HIDE DEF Q, N
<1>6. /\ Cardinality(remaining') = Cardinality(Refilled) - 1
      /\ Cardinality(Refilled) \in Nat
      /\ Cardinality(remaining) \in Nat
  BY <1>1, <1>2, DealtFacts, FS_RemoveElement
<1>7. ASSUME NEW i \in 2..Q, i > Q - (N - Cardinality(remaining'))
      PROVE  /\ queue'[i] \notin remaining'
             /\ \A j \in (i + 1)..Q : queue'[j] # queue'[i]
  <2>1. CASE i = Q
    BY <1>1, <1>3, <1>5, <2>1
  <2>2. CASE i # Q /\ remaining # {}
    <3>1. i + 1 \in 2..Q /\ i \in 1..Q
      BY <1>5, <2>2
    <3>2. Refilled = remaining
      BY <2>2 DEF Refilled
    <3>3. i + 1 > Q - (N - Cardinality(remaining))
      BY <1>5, <1>6, <1>7, <3>1, <3>2
    <3>4. /\ queue[i + 1] \notin remaining
          /\ \A j \in (i + 2)..Q : queue[j] # queue[i + 1]
      <4>1. (i + 1) + 1 = i + 2
        BY <1>5
      <4>2. QED
        BY <3>1, <3>3, <4>1 DEF IInv, WindowDistinct, DealtFromBag, Q, N
    <3>5. queue'[i] = queue[i + 1]
      BY <1>3, <2>2, <3>1
    <3>6. ASSUME NEW j \in (i + 1)..Q
          PROVE  queue'[j] # queue'[i]
      <4>1. j \in 1..Q
        BY <1>5, <3>1
      <4>2. CASE j = Q
        <5>1. queue'[j] = p /\ p \in remaining
          BY <1>1, <1>3, <3>2, <4>1, <4>2
        <5>2. QED
          BY <3>4, <3>5, <5>1
      <4>3. CASE j # Q
        <5>1. j + 1 \in (i + 2)..Q
          BY <1>5, <3>1, <4>3
        <5>2. queue'[j] = queue[j + 1]
          BY <1>3, <4>1, <4>3
        <5>3. QED
          BY <3>4, <3>5, <5>1, <5>2
      <4>4. QED
        BY <4>2, <4>3
    <3>7. QED
      BY <1>1, <3>2, <3>4, <3>5, <3>6
  <2>3. CASE i # Q /\ remaining = {}
    \* A new bag: only its first piece is in the window.
    <3>1. Refilled = Types
      BY <2>3 DEF Refilled
    <3>2. Cardinality(remaining') = N - 1
      BY <1>6, <3>1 DEF N
    <3>3. QED
      BY <1>5, <1>7, <2>3, <3>2
  <2>4. QED
    BY <2>1, <2>2, <2>3
<1>8. QED
  BY <1>4, <1>7 DEF IInv, WindowDistinct, DealtFromBag, Q, N

\* Every step keeps the invariant.
LEMMA NextIInv == IInv /\ [Next]_vars => IInv'
<1> SUFFICES ASSUME IInv, [Next]_vars
             PROVE  IInv'
  OBVIOUS
<1>1. CASE Restart
  <2>1. Start(queue, remaining, held)'
    BY <1>1 DEF Restart, Start
  <2>2. QED
    BY <2>1, StartIInv, PTL
<1>2. CASE Drop
  BY <1>2, AdvanceIInv DEF Drop, IInv, TypeOK
<1>3. CASE HoldFirst
  <2>1. held' \in Types \cup {NO_PIECE}
    BY <1>3, ConstantFacts DEF HoldFirst, IInv, TypeOK
  <2>2. QED
    BY <1>3, <2>1, AdvanceIInv DEF HoldFirst
<1>4. CASE HoldSwap
  <2>1. TypeOK'
    BY <1>4, ConstantFacts DEF HoldSwap, IInv, TypeOK
  <2>2. remaining' = remaining /\ \A i \in 2..PIECE_QUEUE_SIZE : queue'[i] = queue[i]
    BY <1>4, ConstantFacts DEF HoldSwap, IInv, TypeOK
  <2>3. ASSUME NEW i \in 2..PIECE_QUEUE_SIZE, i > PIECE_QUEUE_SIZE - DealtFromBag'
        PROVE  /\ queue'[i] \notin remaining'
               /\ \A j \in (i + 1)..PIECE_QUEUE_SIZE : queue'[j] # queue'[i]
    <3>1. DealtFromBag' = DealtFromBag
      BY <2>2 DEF DealtFromBag
    <3>2. \A j \in (i + 1)..PIECE_QUEUE_SIZE : j \in 2..PIECE_QUEUE_SIZE
      BY ConstantFacts
    <3>3. QED
      BY <2>2, <2>3, <3>1, <3>2 DEF IInv, WindowDistinct
  <2>4. QED
    BY <2>1, <2>3 DEF IInv, WindowDistinct
<1>5. CASE UNCHANGED vars
  BY <1>5 DEF vars, IInv, TypeOK, WindowDistinct, DealtFromBag
<1>6. QED
  BY <1>1, <1>2, <1>3, <1>4, <1>5 DEF Next

\* The window holds pieces, the bag what it still owes, the hold slot a piece
\* or none, along every way to play.
THEOREM TypeCorrect == Spec => []TypeOK
<1>1. Init => IInv
  BY StartIInv DEF Init
<1>2. IInv => TypeOK
  BY DEF IInv
<1>3. QED
  BY <1>1, <1>2, NextIInv, PTL DEF Spec

\* The lookahead window never shows a piece twice from one bag.
THEOREM WindowAlwaysDistinct == Spec => []WindowDistinct
<1>1. Init => IInv
  BY StartIInv DEF Init
<1>2. IInv => WindowDistinct
  BY DEF IInv
<1>3. QED
  BY <1>1, <1>2, NextIInv, PTL DEF Spec
-----------------------------------------------------------------------------
(* A line of a search, beside the game it is played in. *)

\* Where the plan is: after this level's decision, or before it.
Walked == IF placing THEN Walk(heldEmpty, decided)[moves]
                     ELSE Reached(heldEmpty, Walk(heldEmpty, decided), moves)

\* The pieces that w names by their slots in g are those of the game: the one
\* in hand, the one on hold and the part of the queue w has not read yet.
Mirrors(w, g, q, h) ==
  /\ g[w.cur] = q[1]
  /\ w.empty <=> h = NO_PIECE
  /\ ~w.empty => g[w.hld] = h
  /\ \A i \in 2..PIECE_QUEUE_SIZE : w.k + i - 1 < NUM_SLOTS => g[w.k + i - 1] = q[i]

\* The inductive invariant of a line.
LineIInv ==
  /\ heldEmpty \in BOOLEAN /\ placing \in BOOLEAN
  /\ moves \in Levels
  /\ decided \in 0..(2^(IF placing THEN moves + 1 ELSE moves) - 1)
  /\ Mirrors(Walked, slots, queue, held)

WalkIInv == IInv /\ LineIInv

\* The game beside the plan is the flow of pieces.
LEMMA WalkIsFlow == ASSUME WalkNext PROVE [Next]_vars
<1>1. CASE Place
  BY <1>1 DEF Place, Next
<1>2. CASE \E hold \in BOOLEAN : Decide(hold)
  BY <1>2 DEF Decide, Next, vars
<1>3. QED
  BY <1>1, <1>2 DEF WalkNext

\* A line begins with the plan at the pieces gathered.
LEMMA LineBegins ==
  ASSUME NEW q \in [1..PIECE_QUEUE_SIZE -> Types], NEW h \in Types \cup {NO_PIECE},
         NEW g, g = gather_slots(q, h),
         NEW w, w = FirstPiece(h = NO_PIECE)
  PROVE  Mirrors(w, g, q, h)
<1>1. w.cur = 1 /\ w.hld = 0 /\ w.k = 1 /\ (w.empty <=> h = NO_PIECE)
  <2>1. w.cur = 1 /\ w.hld = 0 /\ w.k = 1
    BY DEF FirstPiece, win_slot, SEQ_HELD_SLOT
  <2>2. w.empty = (h = NO_PIECE)
    BY DEF FirstPiece
  <2>3. QED
    BY <2>1, <2>2
<1>2. NUM_SLOTS \in Nat /\ NUM_SLOTS >= 4
  BY PlanSets DEF NUM_SLOTS
<1>3. \A s \in 0..(NUM_SLOTS - 1) : g[s] = IF s = 0 THEN h ELSE q[s]
  BY DEF gather_slots, SEQ_HELD_SLOT
<1>4. \A i \in 1..PIECE_QUEUE_SIZE : i < NUM_SLOTS => g[i] = q[i]
  BY <1>2, <1>3, ConstantFacts
<1>5. g[0] = h /\ g[1] = q[1]
  BY <1>2, <1>3
<1>6. \A i \in 2..PIECE_QUEUE_SIZE : i \in 1..PIECE_QUEUE_SIZE /\ 1 + i - 1 = i
  BY ConstantFacts
<1> HIDE DEF NUM_SLOTS
<1>7. QED
  BY <1>1, <1>4, <1>5, <1>6 DEF Mirrors

\* Reading on: the plan's next piece is the game's.
LEMMA MirroredDrop ==
  ASSUME IInv, Drop, NEW i \in Levels, i + 1 \in Levels, NEW w, WalkedTo(w, i),
         Mirrors(w, slots, queue, held),
         slots' = slots
  PROVE  Mirrors(NextPiece(w), slots', queue', held')
<1> DEFINE Q == PIECE_QUEUE_SIZE
           n == NextPiece(w)
<1>1. PICK p \in Refilled : queue' = Append(Tail(queue), p)
  BY DEF Drop, Advance
<1>2. p \in Types
  BY <1>1 DEF IInv, TypeOK, Refilled
<1>3. \A j \in 1..Q : queue'[j] = IF j = Q THEN p ELSE queue[j + 1]
  BY <1>1, <1>2, ShiftedQueue DEF IInv, TypeOK
<1>4. Q \in Nat /\ DEPTH + 1 <= Q /\ i \in Nat /\ i + 1 < DEPTH /\ NUM_SLOTS = DEPTH + 2 /\ DEPTH \in Nat
  BY ConstantFacts, LookaheadAssumption, PlanSets DEF Levels, NUM_SLOTS
<1>5. w.k \in Nat /\ i < w.k /\ w.k <= i + 2
  BY DEF WalkedTo
<1>6. n.cur = w.k + 1 /\ n.hld = w.hld /\ n.empty = w.empty /\ n.k = w.k + 1
  <2>1. win_slot(w.k) = w.k + 1
    BY <1>5 DEF win_slot
  <2>2. n = [w EXCEPT !.cur = win_slot(w.k), !.k = w.k + 1]
    BY DEF NextPiece
  <2> HIDE DEF n
  <2>3. QED
    BY <2>1, <2>2 DEF WalkedTo
<1>7. held' = held
  BY DEF Drop
<1>8. \A j \in 2..Q : w.k + j - 1 < NUM_SLOTS => slots[w.k + j - 1] = queue[j]
  BY DEF Mirrors
<1> HIDE DEF Q, n
<1>9. slots[w.k + 1] = queue[2] /\ queue'[1] = queue[2]
  <2>1. 2 \in 2..Q /\ w.k + 2 - 1 = w.k + 1 /\ w.k + 1 < NUM_SLOTS /\ 1 \in 1..Q /\ 1 # Q /\ 1 + 1 = 2
    BY <1>4, <1>5
  <2>2. QED
    BY <1>3, <1>8, <2>1
<1>10. ASSUME NEW j \in 2..Q, n.k + j - 1 < NUM_SLOTS
       PROVE  slots'[n.k + j - 1] = queue'[j]
  <2>1. j + 1 \in 2..Q /\ j \in 1..Q /\ j # Q /\ n.k + j - 1 = w.k + (j + 1) - 1
    BY <1>4, <1>5, <1>6, <1>10
  <2>2. slots[w.k + (j + 1) - 1] = queue[j + 1]
    BY <1>8, <1>10, <2>1
  <2>3. QED
    BY <1>3, <2>1, <2>2
<1>11. /\ slots'[n.cur] = queue'[1]
       /\ n.empty <=> held' = NO_PIECE
       /\ ~n.empty => slots'[n.hld] = held'
  BY <1>6, <1>7, <1>9 DEF Mirrors
<1>12. QED
  BY <1>10, <1>11 DEF Mirrors, Q, n

\* Holding: the plan stashes, swaps and reads what the game does.
LEMMA MirroredHold ==
  ASSUME IInv, HoldFirst \/ HoldSwap, NEW i \in Levels, NEW w, WalkedTo(w, i),
         Mirrors(w, slots, queue, held),
         slots' = slots
  PROVE  Mirrors(HoldStep(w), slots', queue', held')
<1> DEFINE Q == PIECE_QUEUE_SIZE
           n == HoldStep(w)
<1>1. Q \in Nat /\ DEPTH + 1 <= Q /\ i \in Nat /\ i < DEPTH /\ NUM_SLOTS = DEPTH + 2 /\ DEPTH \in Nat
  BY ConstantFacts, LookaheadAssumption, PlanSets DEF Levels, NUM_SLOTS
<1>2. w.k \in Nat /\ i < w.k /\ w.k <= i + 2 /\ (w.empty => w.k = i + 1)
  BY DEF WalkedTo
<1>3. \A j \in 2..Q : w.k + j - 1 < NUM_SLOTS => slots[w.k + j - 1] = queue[j]
  BY DEF Mirrors
<1>4. /\ slots[w.cur] = queue[1]
      /\ w.empty <=> held = NO_PIECE
      /\ ~w.empty => slots[w.hld] = held
  BY DEF Mirrors
<1>5. held' = queue[1] /\ queue[1] # NO_PIECE
  BY ConstantFacts, TypesAssumption DEF HoldFirst, HoldSwap, IInv, TypeOK
<1>6. CASE w.empty
  <2>1. HoldFirst
    BY <1>4, <1>6 DEF HoldSwap
  <2>2. PICK p \in Refilled : queue' = Append(Tail(queue), p)
    BY <2>1 DEF HoldFirst, Advance
  <2>3. p \in Types
    BY <2>2 DEF IInv, TypeOK, Refilled
  <2>4. \A j \in 1..Q : queue'[j] = IF j = Q THEN p ELSE queue[j + 1]
    BY <2>2, <2>3, ShiftedQueue DEF IInv, TypeOK
  <2>5. n.cur = w.k + 1 /\ n.hld = w.cur /\ n.empty = FALSE /\ n.k = w.k + 1
    <3>1. win_slot(w.k) = w.k + 1
      BY <1>2 DEF win_slot
    <3>2. n = [cur |-> win_slot(w.k), hld |-> w.cur, empty |-> FALSE, k |-> w.k + 1]
      BY <1>6 DEF HoldStep
    <3> HIDE DEF n
    <3>3. QED
      BY <3>1, <3>2
  <2> HIDE DEF Q, n
  <2>6. slots[w.k + 1] = queue[2] /\ queue'[1] = queue[2]
    <3>1. 2 \in 2..Q /\ w.k + 2 - 1 = w.k + 1 /\ w.k + 1 < NUM_SLOTS /\ 1 \in 1..Q /\ 1 # Q /\ 1 + 1 = 2
      BY <1>1, <1>2, <1>6
    <3>2. QED
      BY <1>3, <2>4, <3>1
  <2>7. ASSUME NEW j \in 2..Q, n.k + j - 1 < NUM_SLOTS
        PROVE  slots'[n.k + j - 1] = queue'[j]
    <3>1. j + 1 \in 2..Q /\ j \in 1..Q /\ j # Q /\ n.k + j - 1 = w.k + (j + 1) - 1
      BY <1>1, <1>2, <2>5, <2>7
    <3>2. slots[w.k + (j + 1) - 1] = queue[j + 1]
      BY <1>3, <2>7, <3>1
    <3>3. QED
      BY <2>4, <3>1, <3>2
  <2>8. /\ slots'[n.cur] = queue'[1]
        /\ n.empty <=> held' = NO_PIECE
        /\ slots'[n.hld] = held'
    BY <1>4, <1>5, <2>5, <2>6
  <2>9. QED
    BY <2>7, <2>8 DEF Mirrors, Q, n
<1>7. CASE ~w.empty
  <2>1. HoldSwap
    BY <1>4, <1>7 DEF HoldFirst
  <2>2. queue' = [queue EXCEPT ![1] = held] /\ queue \in [1..Q -> Types]
    BY <2>1 DEF HoldSwap, IInv, TypeOK
  <2>3. queue'[1] = held /\ \A j \in 2..Q : queue'[j] = queue[j]
    BY <1>1, <2>2
  <2>4. n.cur = w.hld /\ n.hld = w.cur /\ (n.empty <=> FALSE) /\ n.k = w.k
    <3>1. n = [w EXCEPT !.cur = w.hld, !.hld = w.cur]
      BY <1>7 DEF HoldStep
    <3>2. w \in [cur : Nat, hld : Nat, empty : BOOLEAN, k : Nat]
      BY DEF WalkedTo
    <3> HIDE DEF n
    <3>3. n.cur = w.hld /\ n.hld = w.cur /\ n.k = w.k /\ n.empty = w.empty
      BY <3>1, <3>2
    <3>4. QED
      BY <1>7, <3>3
  <2> HIDE DEF Q, n
  <2>5. /\ slots'[n.cur] = queue'[1]
        /\ n.empty <=> held' = NO_PIECE
        /\ slots'[n.hld] = held'
        /\ \A j \in 2..Q : n.k + j - 1 < NUM_SLOTS => slots'[n.k + j - 1] = queue'[j]
    BY <1>3, <1>4, <1>5, <1>7, <2>3, <2>4
  <2>6. QED
    BY <2>5 DEF Mirrors, Q, n
<1>8. QED
  BY <1>6, <1>7

\* What a walk has before a level depends on the decisions of earlier levels.
LEMMA SameReached ==
  ASSUME NEW h \in BOOLEAN, NEW d, NEW e, NEW m \in Levels,
         \A i \in 0..(m - 1) : Holds(d, i) <=> Holds(e, i)
  PROVE  Reached(h, Walk(h, d), m) = Reached(h, Walk(h, e), m)
<1>1. CASE m = 0
  BY <1>1 DEF Reached
<1>2. CASE m # 0
  <2>1. m - 1 \in Levels /\ m - 1 \in 0..(m - 1)
    BY <1>2, PlanSets DEF Levels
  <2>2. Walk(h, d)[m - 1] = Walk(h, e)[m - 1]
    BY <2>1, SameWalk
  <2>3. QED
    BY <1>2, <2>2 DEF Reached
<1>3. QED
  BY <1>1, <1>2

\* A walk's entry of a level is that level's decision on what it has reached,
\* which is where a walk may be.
LEMMA WalkDecides ==
  ASSUME NEW h \in BOOLEAN, NEW d, NEW m \in Levels
  PROVE  /\ Walk(h, d)[m] = Decided(Reached(h, Walk(h, d), m), d, m)
         /\ WalkedTo(Reached(h, Walk(h, d), m), m)
<1>1. CASE m = 0
  <2>1. Reached(h, Walk(h, d), m) = FirstPiece(h)
    BY <1>1 DEF Reached
  <2>2. QED
    BY <1>1, <2>1, WalkLevels
<1>2. CASE m # 0
  <2>1. PICK i \in Levels : m = i + 1 /\ i = m - 1 /\ i \in Nat
    BY <1>2, PlanSets DEF Levels
  <2>2. Reached(h, Walk(h, d), m) = NextPiece(Walk(h, d)[i])
    BY <1>2, <2>1 DEF Reached
  <2>3. Walk(h, d)[m] = Decided(NextPiece(Walk(h, d)[i]), d, m)
    BY <2>1, WalkLevels
  <2>4. WalkedTo(NextPiece(Walk(h, d)[i]), m)
    BY <2>1, WalkLevels, NextWalk
  <2>5. QED
    BY <2>2, <2>3, <2>4
<1>3. QED
  BY <1>1, <1>2

\* A new line starts from the pieces of the game.
NewLine ==
  /\ TypeOK
  /\ slots = gather_slots(queue, held)
  /\ heldEmpty = (held = NO_PIECE)
  /\ moves = 0 /\ decided = 0 /\ placing = FALSE

\* It is in the invariant.
LEMMA LineInit == NewLine => LineIInv
<1> SUFFICES ASSUME NewLine
             PROVE  LineIInv
  OBVIOUS
<1> USE DEF NewLine
<1>1. heldEmpty \in BOOLEAN /\ moves \in Levels
  BY PlanSets DEF Levels
<1>2. decided \in 0..(2^0 - 1)
  BY Powers
<1>3. Walked = FirstPiece(held = NO_PIECE)
  BY DEF Walked, Reached
<1>4. Mirrors(Walked, slots, queue, held)
  BY <1>3, LineBegins DEF TypeOK
<1>5. QED
  BY <1>1, <1>2, <1>4 DEF LineIInv

\* Every step keeps the line's invariant.
LEMMA WalkKeepsIInv == WalkIInv /\ [WalkNext]_walkVars => WalkIInv'
<1> SUFFICES ASSUME WalkIInv, [WalkNext]_walkVars
             PROVE  WalkIInv'
  OBVIOUS
<1> USE DEF WalkIInv
<1>1. CASE UNCHANGED walkVars
  <2>1. IInv'
    BY <1>1 DEF walkVars, IInv, TypeOK, WindowDistinct, DealtFromBag
  <2>2. LineIInv'
    BY <1>1 DEF walkVars, LineIInv, Mirrors, Walked
  <2>3. QED
    BY <2>1, <2>2
<1>2. CASE Place
  <2>1. IInv'
    BY <1>2, WalkIsFlow, NextIInv DEF WalkNext
  <2>2. CASE moves + 1 < DEPTH /\ moves' = moves + 1 /\ UNCHANGED <<lineVars, decided>>
    <3> DEFINE w == Walk(heldEmpty, decided)[moves]
    <3>1. placing /\ ~placing' /\ Drop /\ slots' = slots /\ heldEmpty' = heldEmpty /\ decided' = decided
      BY <1>2, <2>2 DEF Place, lineVars
    <3>2. moves \in Levels /\ moves + 1 \in Levels /\ heldEmpty \in BOOLEAN
      BY <2>2, PlanSets DEF LineIInv, Levels
    <3>3. WalkedTo(w, moves)
      BY <3>2, WalkLevels
    <3>4. Mirrors(w, slots, queue, held)
      BY <3>1 DEF LineIInv, Walked
    <3>5. Walked' = NextPiece(w)
      <4>1. moves + 1 # 0 /\ (moves + 1) - 1 = moves
        BY <3>2, PlanSets
      <4>2. Walked' = Reached(heldEmpty, Walk(heldEmpty, decided), moves + 1)
        BY <2>2, <3>1 DEF Walked
      <4> DEFINE m == moves + 1
      <4>3. Reached(heldEmpty, Walk(heldEmpty, decided), m)
              = IF m = 0 THEN FirstPiece(heldEmpty) ELSE NextPiece(Walk(heldEmpty, decided)[m - 1])
        BY DEF Reached
      <4> HIDE DEF m
      <4>4. Reached(heldEmpty, Walk(heldEmpty, decided), m) = NextPiece(Walk(heldEmpty, decided)[m - 1])
        BY <4>1, <4>3 DEF m
      <4>5. QED
        BY <4>1, <4>2, <4>4 DEF m
    <3> HIDE DEF w
    <3>6. Mirrors(NextPiece(w), slots', queue', held')
      BY <3>1, <3>2, <3>3, <3>4, MirroredDrop
    <3>7. Mirrors(Walked', slots', queue', held')
      BY <3>5, <3>6
    <3>8. decided' \in 0..(2^(moves') - 1)
      BY <2>2, <3>1 DEF LineIInv
    <3>9. moves' \in Levels /\ heldEmpty' \in BOOLEAN /\ placing' = FALSE
      BY <1>2, <2>2, <3>1, <3>2 DEF Place
    <3>10. LineIInv'
      BY <3>7, <3>8, <3>9 DEF LineIInv
    <3>11. QED
      BY <2>1, <3>10
  <2>3. CASE moves + 1 = DEPTH /\ Begin(queue', held')
    <3>1. /\ slots' = gather_slots(queue', held') /\ heldEmpty' = (held' = NO_PIECE)
          /\ moves' = 0 /\ decided' = 0 /\ placing' = FALSE
      BY <1>2, <2>3 DEF Place, Begin
    <3>2. NewLine'
      BY <2>1, <3>1 DEF IInv, NewLine
    <3>3. LineIInv'
      BY <3>2, LineInit, PTL
    <3>4. QED
      BY <2>1, <3>3
  <2>4. QED
    BY <1>2, <2>2, <2>3 DEF Place
<1>3. ASSUME NEW hold \in BOOLEAN, Decide(hold)
      PROVE  WalkIInv'
  <2> DEFINE W(d) == Walk(heldEmpty, d)
             r == Reached(heldEmpty, W(decided), moves)
  <2>1. IInv'
    BY <1>3, WalkIsFlow, NextIInv DEF WalkNext
  <2>2. /\ ~placing /\ placing' = TRUE /\ slots' = slots /\ heldEmpty' = heldEmpty /\ moves' = moves
        /\ moves \in Levels /\ heldEmpty \in BOOLEAN
    BY <1>3 DEF Decide, lineVars, LineIInv
  <2>3. decided \in 0..(2^moves - 1)
    BY <2>2 DEF LineIInv
  <2>4. /\ decided \in 0..(2^(moves + 1) - 1) /\ decided + 2^moves \in 0..(2^(moves + 1) - 1)
        /\ ~Holds(decided, moves) /\ Holds(decided + 2^moves, moves)
        /\ \A i \in 0..(moves - 1) : Holds(decided + 2^moves, i) <=> Holds(decided, i)
    BY <2>2, <2>3, DecisionBits
  <2>5. WalkedTo(r, moves)
    BY <2>2, WalkDecides
  <2>6. Mirrors(r, slots, queue, held)
    BY <2>2 DEF LineIInv, Walked
  <2>7. Walked' = W(decided')[moves]
    BY <2>2 DEF Walked
  <2>8. CASE ~hold /\ UNCHANGED <<remaining, queue, held, decided>>
    <3>1. W(decided)[moves] = r
      BY <2>2, <2>4, WalkDecides DEF Decided
    <3>2. Walked' = r
      BY <2>7, <2>8, <3>1
    <3> HIDE DEF r, W
    <3>3. Mirrors(Walked', slots', queue', held')
      BY <2>2, <2>6, <2>8, <3>2
    <3>4. QED
      BY <2>1, <2>2, <2>4, <2>8, <3>3 DEF LineIInv
  <2>9. CASE hold /\ decided' = decided + 2^moves /\ (HoldFirst \/ HoldSwap)
    <3>1. Reached(heldEmpty, W(decided'), moves) = r
      BY <2>2, <2>4, <2>9, SameReached
    <3>2. W(decided')[moves] = HoldStep(r)
      BY <2>2, <2>4, <2>9, <3>1, WalkDecides DEF Decided
    <3> HIDE DEF r
    <3>3. Mirrors(HoldStep(r), slots', queue', held')
      BY <2>2, <2>5, <2>6, <2>9, MirroredHold
    <3>4. Mirrors(Walked', slots', queue', held')
      BY <2>7, <3>2, <3>3
    <3>5. QED
      BY <2>1, <2>2, <2>4, <2>9, <3>4 DEF LineIInv
  <2>10. QED
    BY <1>3, <2>8, <2>9 DEF Decide
<1>4. QED
  BY <1>1, <1>2, <1>3 DEF WalkNext

\* A line starts in the invariant.
LEMMA WalkInitIInv == WalkInit => WalkIInv
<1> SUFFICES ASSUME WalkInit
             PROVE  WalkIInv
  OBVIOUS
<1>1. IInv
  BY StartIInv DEF WalkInit, Init
<1>2. LineIInv
  BY <1>1, LineInit DEF WalkInit, IInv, NewLine
<1>3. QED
  BY <1>1, <1>2 DEF WalkIInv

\* The invariant gives what the runs check of a node of the plan tree.
LEMMA MirroredNode == WalkIInv => PlanMirrorsFlow
<1> SUFFICES ASSUME WalkIInv, placing
             PROVE  /\ slots[Node.slot] = queue[1]
                    /\ IF Node.heldSlot = HELD_NONE THEN held = NO_PIECE
                       ELSE slots[Node.heldSlot] = held
                    /\ moves = 0 => Node.rootHold = Holds(decided, 0)
  BY DEF PlanMirrorsFlow
<1> DEFINE w == Walk(heldEmpty, decided)[moves]
<1>1. /\ moves \in Levels /\ heldEmpty \in BOOLEAN /\ decided \in 0..(2^(moves + 1) - 1)
      /\ Mirrors(w, slots, queue, held)
  BY DEF WalkIInv, LineIInv, Walked
<1>2. decided \in Plans
  BY <1>1, PrefixPlans
<1>3. /\ Node.slot = w.cur
      /\ Node.heldSlot = IF w.empty THEN HELD_NONE ELSE w.hld
      /\ Node.rootHold = (moves = 0 /\ Holds(decided, 0))
  BY <1>1, <1>2, TreeNode DEF Node, NodeIdx
<1>4. WalkedTo(w, moves)
  BY <1>1, WalkLevels
<1> HIDE DEF w
<1>5. w.hld # HELD_NONE
  BY <1>1, <1>4, PlanSets DEF WalkedTo, HELD_NONE
<1>6. /\ slots[w.cur] = queue[1]
      /\ w.empty <=> held = NO_PIECE
      /\ ~w.empty => slots[w.hld] = held
  BY <1>1 DEF Mirrors
<1>7. moves = 0 => Node.rootHold = Holds(decided, 0)
  BY <1>3 DEF Holds
<1>8. QED
  BY <1>3, <1>5, <1>6, <1>7

\* Along every line the node of the plan tree names the piece in hand and the
\* piece on hold, for every depth and lookahead the code allows: the plans,
\* made without a look at the pieces, stash, swap and read on as the engine.
THEOREM PlansMirrorTheFlow == WalkSpec => []PlanMirrorsFlow
  BY WalkInitIInv, WalkKeepsIInv, MirroredNode, PTL DEF WalkSpec

\* The children of a node are the two decisions of the next move.
THEOREM EveryDecisionOnce == WalkSpec => []ChildrenAreDecisions
<1>1. WalkIInv => ChildrenAreDecisions
  <2> SUFFICES ASSUME WalkIInv, placing, moves + 1 < DEPTH
               PROVE  ChildrenAreDecisions
    BY DEF ChildrenAreDecisions
  <2> DEFINE next(b) == PLAN_NODES[heldEmpty][moves + 1][decided + b * 2^(moves + 1)]
  <2>1. moves \in Levels /\ heldEmpty \in BOOLEAN /\ decided \in 0..(2^(moves + 1) - 1)
    BY DEF WalkIInv, LineIInv
  <2>2. moves + 1 \in Levels /\ moves \in {0, 1, 2, 3}
    BY <2>1, PlanSets DEF Levels
  <2>3. 2^(moves + 1) \in Nat
    <3>1. moves + 1 \in {1, 2, 3, 4}
      BY <2>2
    <3> DEFINE m == moves + 1
    <3> HIDE DEF m
    <3>2. m \in {1, 2, 3, 4}
      BY <3>1 DEF m
    <3>3. m = 1 \/ m = 2 \/ m = 3 \/ m = 4
      BY <3>2
    <3>4. 2^m \in Nat
      <4>1. CASE m = 1
        BY <4>1, Powers
      <4>2. CASE m = 2
        BY <4>2, Powers
      <4>3. CASE m = 3
        BY <4>3, Powers
      <4>4. CASE m = 4
        BY <4>4, Powers
      <4>5. QED
        BY <3>3, <4>1, <4>2, <4>3, <4>4
    <3>5. QED
      BY <3>4 DEF m
  <2>4. decided + 0 * 2^(moves + 1) = decided /\ decided + 1 * 2^(moves + 1) = decided + 2^(moves + 1)
    BY <2>1, <2>3
  <2>5. /\ next(0) = PLAN_NODES[heldEmpty][moves + 1][decided]
        /\ next(1) = PLAN_NODES[heldEmpty][moves + 1][decided + 2^(moves + 1)]
    BY <2>4
  <2>6. Node = PLAN_TREES[heldEmpty][moves][PLAN_NODES[heldEmpty][moves][decided]]
    BY DEF Node, NodeIdx
  <2> HIDE DEF next
  <2>7. next(0) # next(1) /\ Node.childBegin..(Node.childEnd - 1) = {next(0), next(1)}
    BY <2>1, <2>2, <2>5, <2>6, TwoDecisionsPerNode
  <2>8. QED
    BY <2>7 DEF ChildrenAreDecisions, next
<1>2. QED
  BY <1>1, WalkInitIInv, WalkKeepsIInv, PTL DEF WalkSpec

\* What a search's lines do with the pieces is the abstract flow, so the
\* window's theorems above hold along them.
THEOREM LinesFollowTheFlow == WalkSpec => Spec
<1>1. WalkInit => Init
  BY DEF WalkInit
<1>2. [WalkNext]_walkVars => [Next]_vars
  BY WalkIsFlow DEF walkVars, vars
<1>3. QED
  BY <1>1, <1>2, PTL DEF WalkSpec, Spec
=============================================================================
