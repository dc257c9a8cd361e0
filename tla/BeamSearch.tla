------------------------------ MODULE BeamSearch ------------------------------
(***************************************************************************)
(* The stages of search_move_beam (beam.hpp): roots, DEPTH - 2 middle      *)
(* levels, leaves.  Every stage scores all continuations of the nodes kept *)
(* so far, each in a slot of its own, and keeps the best few; the slot     *)
(* number is all that is remembered of a candidate, and is decoded again.  *)
(* Scores are the model's values; an array's zero entries (illegal slots)  *)
(* are left out of the set that stands for it.                             *)
(***************************************************************************)
EXTENDS Placements, SearchPlans

CONSTANTS
  BeamWidths,            (* the Ks a search may be called with: the nodes      *)
                         (* kept at levels 1..DEPTH - 1, as a sequence         *)
  Evaluate(_, _, _, _)   (* model, clears, board, heldIsI: an integer value  *)

ASSUME WidthsAssumption == BeamWidths \subseteq [1..(DEPTH - 1) -> Nat \ {0}]

Width(ks, level) == ks[level + 1]

MAX_ROOT_GROUPS ==
  Max({Cardinality(DOMAIN PLAN_TREES[e][0]) : e \in BOOLEAN})
MAX_CHILD_MID == IF DEPTH > 2 THEN max_child_span(0, DEPTH - 3) ELSE 1
MAX_LAST == max_child_span(DEPTH - 2, DEPTH - 2)

ROOT_SLOTS == 0..(MAX_ROOT_GROUPS * MAX_PLACEMENTS - 1)
MidSlots(frontier) ==
  0..(Cardinality(DOMAIN frontier) * MAX_CHILD_MID * MAX_PLACEMENTS - 1)
leaf_orders(ks) == Width(ks, DEPTH - 2) * MAX_LAST * MAX_PLACEMENTS

\* clear_hist_t: how many placements of the path cleared 1, 2, 3, 4 rows.
NO_CLEARS == [n \in 1..BLOCKS |-> 0]
Added(clears, n) == [k \in 1..BLOCKS |-> IF k = n THEN clears[k] + 1 ELSE clears[k]]

\* Dropping placement d of piece t, if it fits at the spawn row.
apply(b, clears, t, d) ==
  LET s    == PieceShapeAt(t, d.orientation, d.x)
      next == Placed(b, s, DropDistance(b, s, 0))
  IN  IF Free(b, s, 0)
        THEN [board  |-> ClearLines(next),
              clears |-> Added(clears, Cardinality(FullRows(next))),
              legal  |-> TRUE]
        ELSE [board |-> b, clears |-> clears, legal |-> FALSE]

heldIsI(slots, node) == node.heldSlot # HELD_NONE /\ slots[node.heldSlot] = "I"

Score(model, slots, node, step) ==
  Evaluate(model, step.clears, step.board, heldIsI(slots, node))

\* The entries of a score array.  A candidate is its slot, the tree node it
\* belongs to and what it does; the illegal ones score nothing.
Scored(model, slots, candidates) ==
  {[slot |-> c.slot, score |-> Score(model, slots, c.node, c.step)] :
     c \in {c \in candidates : c.step.legal}}

Better(c, d) == c.score > d.score \/ (c.score = d.score /\ c.slot < d.slot)

\* The best scores, lowest slot first on ties, by rank.
select_top(scores, width) ==
  LET rank(c) == Cardinality({d \in scores : Better(d, c)})
      top     == {<<rank(c), c>> : c \in {c \in scores : rank(c) < width}}
  IN  [r \in {p[1] : p \in top} |-> (CHOOSE p \in top : p[1] = r)[2]]
-----------------------------------------------------------------------------
\* Roots: slot = group * MAX_PLACEMENTS + i.
RootNode(tree, s) == tree[0][s \div MAX_PLACEMENTS]

RootStep(tree, slots, b, s) ==
  LET t == slots[RootNode(tree, s).slot]
  IN  apply(b, NO_CLEARS, t, nth_placement(t, s % MAX_PLACEMENTS))

RootCandidates(tree, slots) ==
  {s \in ROOT_SLOTS :
     /\ s \div MAX_PLACEMENTS \in DOMAIN tree[0]
     /\ s % MAX_PLACEMENTS < n_theoretical_placements(slots[RootNode(tree, s).slot])}

score_roots(tree, slots, b, model) ==
  Scored(model, slots,
         {[slot |-> s, node |-> RootNode(tree, s), step |-> RootStep(tree, slots, b, s)] :
            s \in RootCandidates(tree, slots)})

\* A frontier: by rank, the kept boards with the root they descend from.
seed_frontier(tree, slots, b, roots) ==
  [k \in DOMAIN roots |->
     LET step == RootStep(tree, slots, b, roots[k].slot)
     IN  [board |-> step.board, clears |-> step.clears, score |-> roots[k].score,
          node |-> roots[k].slot \div MAX_PLACEMENTS, rootRank |-> k]]
-----------------------------------------------------------------------------
\* Middle levels: slot = (k * MAX_CHILD_MID + child) * MAX_PLACEMENTS + i.
Parent(s) == s \div (MAX_CHILD_MID * MAX_PLACEMENTS)

ChildIdx(tree, level, frontier, s) ==
  tree[level - 1][frontier[Parent(s)].node].childBegin
    + ((s \div MAX_PLACEMENTS) % MAX_CHILD_MID)

MidCandidates(tree, slots, level, frontier) ==
  {s \in MidSlots(frontier) :
     LET child == ChildIdx(tree, level, frontier, s)
     IN  /\ child < tree[level - 1][frontier[Parent(s)].node].childEnd
         /\ s % MAX_PLACEMENTS < n_theoretical_placements(slots[tree[level][child].slot])}

MidStep(tree, slots, level, frontier, s) ==
  LET parent == frontier[Parent(s)]
      t      == slots[tree[level][ChildIdx(tree, level, frontier, s)].slot]
  IN  apply(parent.board, parent.clears, t, nth_placement(t, s % MAX_PLACEMENTS))

score_mid_level(tree, slots, level, frontier, model) ==
  Scored(model, slots,
         {[slot |-> s,
           node |-> tree[level][ChildIdx(tree, level, frontier, s)],
           step |-> MidStep(tree, slots, level, frontier, s)] :
            s \in MidCandidates(tree, slots, level, frontier)})

advance_frontier(tree, slots, level, frontier, selected) ==
  [j \in DOMAIN selected |->
     LET s    == selected[j].slot
         step == MidStep(tree, slots, level, frontier, s)
     IN  [board |-> step.board, clears |-> step.clears, score |-> selected[j].score,
          node |-> ChildIdx(tree, level, frontier, s),
          rootRank |-> frontier[Parent(s)].rootRank]]

\* Mutant: a frontier that dies out offers nothing.
FallbacksNone(ks, frontier, scores) == {}

\* Kept nodes that cannot be continued at all count as leaves: one order for
\* each root rank, behind the orders of the real leaves.
Fallbacks(ks, frontier, scores) ==
  {[score |-> frontier[k].score, slot |-> leaf_orders(ks) + frontier[k].rootRank] :
     k \in {k \in DOMAIN frontier : \A c \in scores : Parent(c.slot) # k}}
-----------------------------------------------------------------------------
\* Mutant: the clears of the path are forgotten.
LeafStepNoClears(node, t, i) == apply(node.board, NO_CLEARS, t, nth_placement(t, i))

LeafStep(node, t, i) == apply(node.board, node.clears, t, nth_placement(t, i))

\* Leaves: order = (j * MAX_LAST + t) * MAX_PLACEMENTS + i, t the child.  A
\* child whose piece never fits leaves the kept board itself as the leaf.
LeavesOf(tree, slots, frontier, model, j, child) ==
  LET lnode  == tree[DEPTH - 2][frontier[j].node]
      cnode  == tree[DEPTH - 1][child]
      t      == slots[cnode.slot]
      base   == (j * MAX_LAST + child - lnode.childBegin) * MAX_PLACEMENTS
      leaves == Scored(model, slots,
                       {[slot |-> o, node |-> cnode, step |-> LeafStep(frontier[j], t, o - base)] :
                          o \in base..(base + n_theoretical_placements(t) - 1)})
  IN  IF leaves = {} THEN {[slot |-> base, score |-> frontier[j].score]} ELSE leaves

\* Mutant: only the first hold decision is expanded.
expand_leavesFirstChild(tree, slots, frontier, model) ==
  UNION {LeavesOf(tree, slots, frontier, model, j,
                  tree[DEPTH - 2][frontier[j].node].childBegin) : j \in DOMAIN frontier}

expand_leaves(tree, slots, frontier, model) ==
  UNION {UNION {LeavesOf(tree, slots, frontier, model, j, child) :
                  child \in ChildRange(tree[DEPTH - 2][frontier[j].node])} :
           j \in DOMAIN frontier}

\* The largest key: pack_key orders by score, then by the lower order.
BestKey(considered) ==
  CHOOSE c \in considered : \A d \in considered : c = d \/ Better(c, d)

RootRank(ks, frontier, order) ==
  IF order >= leaf_orders(ks) THEN order - leaf_orders(ks)
  ELSE frontier[order \div (MAX_LAST * MAX_PLACEMENTS)].rootRank

\* Mutant: the hold decision of the root is lost.
RootMoveNoHold(tree, slots, s) ==
  LET t == slots[RootNode(tree, s).slot]
      d == nth_placement(t, s % MAX_PLACEMENTS)
  IN  [orientation |-> d.orientation, x |-> d.x, hold |-> FALSE]

\* The move of the root with the given slot.
RootMove(tree, slots, s) ==
  LET t == slots[RootNode(tree, s).slot]
      d == nth_placement(t, s % MAX_PLACEMENTS)
  IN  [orientation |-> d.orientation, x |-> d.x, hold |-> RootNode(tree, s).rootHold]

decode_move(ks, tree, slots, roots, frontier, key) ==
  [move  |-> RootMove(tree, slots, roots[RootRank(ks, frontier, key.slot)].slot),
   value |-> key.score]

\* The function f; TLC evaluates each entry once.
Tabulated(f) == f @@ <<>>

\* One middle level of the search: the frontier it keeps, and the offers.
SearchLevelOf(ks, tree, slots, level, before, model) ==
  LET scores == score_mid_level(tree, slots, level, before.kept, model)
      top    == select_top(scores, Width(ks, level))
  IN  [kept   |-> Tabulated(advance_frontier(tree, slots, level, before.kept, top)),
       offers |-> before.offers \cup Fallbacks(ks, before.kept, scores)]

\* search_move_beam: the move of the best line the beams keep, as a set; it is
\* empty when no root is legal.
search_move_beam(ks, q, h, b, model) ==
  LET tree  == PLAN_TREES[h = NO_PIECE]
      slots == gather_slots(q, h)
      roots == Tabulated(select_top(score_roots(tree, slots, b, model), Width(ks, 0)))
      after[level \in 0..(DEPTH - 2)] ==
        IF level = 0
          THEN {[kept |-> Tabulated(seed_frontier(tree, slots, b, roots)), offers |-> {}]}
          ELSE {SearchLevelOf(ks, tree, slots, level, before, model) : before \in after[level - 1]}
      move(last) ==
        decode_move(ks, tree, slots, roots, last.kept,
          BestKey(last.offers \cup expand_leaves(tree, slots, last.kept, model))).move
  IN  IF DOMAIN roots = {} THEN {} ELSE {move(last) : last \in after[DEPTH - 2]}
=============================================================================
