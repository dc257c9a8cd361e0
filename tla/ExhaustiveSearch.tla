--------------------------- MODULE ExhaustiveSearch ---------------------------
(***************************************************************************)
(* search_move (search.hpp): every hold plan and under it every line of    *)
(* legal placements.  A line that cannot be continued counts where it      *)
(* stopped.  It is the reference the beam search is measured against.      *)
(***************************************************************************)
EXTENDS BeamSearch

\* The placements of piece t that fit, with what they do.
LegalSteps(b, clears, t) ==
  {s \in {[place |-> nth_placement(t, i), step |-> apply(b, clears, t, nth_placement(t, i))] :
            i \in 0..(n_theoretical_placements(t) - 1)} :
     s.step.legal}

\* A line: what its placements made of the board, and the move it began with.
Line(s, move) == [board |-> s.step.board, clears |-> s.step.clears, move |-> move]

FirstLines(plan, slots, b) ==
  {Line(s, [orientation |-> s.place.orientation, x |-> s.place.x, hold |-> plan.rootHold]) :
     s \in LegalSteps(b, NO_CLEARS, slots[plan.slot[0]])}

\* What a line of n placements counts where it stops.
Leaf(plan, slots, model, n, q) ==
  [move   |-> q.move,
   value  |-> Evaluate(model, q.clears, q.board,
                plan.heldSlot[n - 1] # HELD_NONE /\ slots[plan.heldSlot[n - 1]] = "I"),
   length |-> n]

\* One placement more than n.  A line is dead when the next piece does not fit.
Continued(plan, slots, model, n, before) ==
  LET fans == {[line |-> q, steps |-> LegalSteps(q.board, q.clears, slots[plan.slot[n]])] :
                 q \in before.lines}
  IN  [lines |-> UNION {{Line(s, f.line.move) : s \in f.steps} : f \in fans},
       dead  |-> before.dead \cup
                   {Leaf(plan, slots, model, n, f.line) : f \in {f \in fans : f.steps = {}}}]

\* The lines of a plan by the number of their placements, with the dead ones.
Expanded(plan, slots, b, model) ==
  LET expanded[n \in 1..DEPTH] ==
        IF n = 1 THEN [lines |-> FirstLines(plan, slots, b), dead |-> {}]
        ELSE Continued(plan, slots, model, n - 1, expanded[n - 1])
  IN  expanded

\* The leaves of one plan.
PlanLeaves(plan, slots, b, model) ==
  LET all == Expanded(plan, slots, b, model)[DEPTH]
  IN  all.dead \cup {Leaf(plan, slots, model, DEPTH, q) : q \in all.lines}

\* Every leaf that search_move considers: its root move, its value, and the
\* number of placements on its line.
search_leaves(queue, held, b, model) ==
  UNION {PlanLeaves(PLANS[held = NO_PIECE][d], gather_slots(queue, held), b, model) : d \in Plans}
=============================================================================
