------------------------------ MODULE SearchPlans ------------------------------
(***************************************************************************)
(* The hold decisions of a search (variation_sequences.hpp, build_tree in  *)
(* beam.hpp): every vector of hold or no hold for DEPTH moves, resolved to *)
(* the window slots the pieces come from, and grouped into a prefix tree.  *)
(* Slot 0 is the held piece, slot 1 the current one, slot 1 + i the i-th   *)
(* piece of the lookahead.  The code tabulates both at compile time.       *)
(***************************************************************************)
EXTENDS Integers, FiniteSetsExt

CONSTANT DEPTH   (* the number of moves looked ahead: 4 in the code *)

ASSUME DepthAssumption == DEPTH \in 2..4

Levels == 0..(DEPTH - 1)
NUM_SLOTS == DEPTH + 2
SEQ_HELD_SLOT == 0
HELD_NONE == 7
win_slot(i) == 1 + i

MAX_SEQUENCES == 2^DEPTH
Plans == 0..(MAX_SEQUENCES - 1)

\* Whether decision vector d holds at level i.
Holds(d, i) == (d \div 2^i) % 2 = 1

\* What build_plans simulates: the slots in hand and in the hold slot, whether
\* that is empty, and the next unread slot k.
FirstPiece(held_empty) ==
  [cur |-> win_slot(0), hld |-> SEQ_HELD_SLOT, empty |-> held_empty, k |-> 1]

\* Mutant: a hold into the empty slot reads a piece without consuming it.
HoldRereads(w) ==
  IF w.empty
    THEN [cur |-> win_slot(w.k), hld |-> w.cur, empty |-> FALSE, k |-> w.k]
    ELSE [w EXCEPT !.cur = w.hld, !.hld = w.cur]

HoldStep(w) ==
  IF w.empty
    THEN [cur |-> win_slot(w.k), hld |-> w.cur, empty |-> FALSE, k |-> w.k + 1]
    ELSE [w EXCEPT !.cur = w.hld, !.hld = w.cur]

NextPiece(w) == [w EXCEPT !.cur = win_slot(w.k), !.k = w.k + 1]

\* Where decision vector d is at level i, after that level's hold decision.
Walk(held_empty, d) ==
  LET decide(w, i) == IF Holds(d, i) THEN HoldStep(w) ELSE w
      walk[i \in Levels] ==
        decide(IF i = 0 THEN FirstPiece(held_empty) ELSE NextPiece(walk[i - 1]), i)
  IN  walk

Plan(held_empty, d) ==
  LET walk == Walk(held_empty, d)
  IN  [slot     |-> [i \in Levels |-> walk[i].cur],
       heldSlot |-> [i \in Levels |-> IF walk[i].empty THEN HELD_NONE ELSE walk[i].hld],
       rootHold |-> Holds(d, 0)]

\* PLANS, indexed by whether the hold slot is empty.
PLANS == [held_empty \in BOOLEAN |-> [d \in Plans |-> Plan(held_empty, d)]]
-----------------------------------------------------------------------------
\* build_tree.  Two plans run through the same node of a level when they agree
\* on the root hold and on all they have placed so far.
\* Mutant: nodes with different parents are merged.
SameNodeAnyParent(plans, level, d, e) ==
  plans[d].rootHold = plans[e].rootHold /\ plans[d].slot[level] = plans[e].slot[level]

SameNode(plans, level, d, e) ==
  /\ plans[d].rootHold = plans[e].rootHold
  /\ \A i \in 0..level : plans[d].slot[i] = plans[e].slot[i]

\* The first plan through the node of plan d.
FirstPlan(plans, level, d) ==
  CHOOSE e \in Plans : /\ SameNode(plans, level, d, e)
                       /\ \A f \in Plans : f < e => ~SameNode(plans, level, d, f)

\* Nodes are numbered parent by parent, and under one parent by first plan.
NodeBefore(plans, level, d, e) ==
  \E i \in 0..level :
    /\ FirstPlan(plans, i, d) < FirstPlan(plans, i, e)
    /\ \A j \in 0..(i - 1) : FirstPlan(plans, j, d) = FirstPlan(plans, j, e)

NodeNumber(plans, level, d) ==
  Cardinality({FirstPlan(plans, level, e) : e \in {e \in Plans : NodeBefore(plans, level, e, d)}})

\* planNode at every level: the node each plan runs through.
PLAN_NODES ==
  [held_empty \in BOOLEAN |->
    [level \in Levels |-> [d \in Plans |-> NodeNumber(PLANS[held_empty], level, d)]]]

\* A layer of a tree: its nodes, with the fields of node_t.  The children of
\* a node follow those of the nodes before it; the last layer has none.
BuildLayer(plans, nodes, level) ==
  LET first(n) == CHOOSE d \in Plans : nodes[level][d] = n /\ FirstPlan(plans, level, d) = d
      childrenUpTo(n) ==
        IF level + 1 = DEPTH THEN {}
        ELSE {nodes[level + 1][d] : d \in {d \in Plans : nodes[level][d] <= n}}
  IN  [n \in {nodes[level][d] : d \in Plans} |->
         [slot       |-> plans[first(n)].slot[level],
          heldSlot   |-> plans[first(n)].heldSlot[level],
          rootHold   |-> level = 0 /\ plans[first(n)].rootHold,
          childBegin |-> Cardinality(childrenUpTo(n - 1)),
          childEnd   |-> Cardinality(childrenUpTo(n))]]

PLAN_TREES ==
  [held_empty \in BOOLEAN |->
    [level \in Levels |-> BuildLayer(PLANS[held_empty], PLAN_NODES[held_empty], level)]]

ChildRange(node) == node.childBegin..(node.childEnd - 1)

\* The widest range of children of the layers lo..hi, over both trees.
max_child_span(lo, hi) ==
  LET layers == {PLAN_TREES[e][i] : e \in BOOLEAN, i \in lo..hi}
  IN  Max({1} \cup UNION {{layer[n].childEnd - layer[n].childBegin : n \in DOMAIN layer} :
                            layer \in layers})

\* gather_slots: the piece in every slot, as far as a search reads the queue.
gather_slots(queue, held) ==
  [s \in 0..(NUM_SLOTS - 1) |-> IF s = SEQ_HELD_SLOT THEN held ELSE queue[s]]
=============================================================================
