----------------------------- MODULE KernelStages -----------------------------
(***************************************************************************)
(* What the threads of one block compute in the cooperative stages of the  *)
(* evaluation kernel, as functions of the block's shared memory.  The CUDA *)
(* and the SYCL kernel have the same stages; a warp here is a CUDA warp or *)
(* a SYCL sub-group.  Scores and keys are packed into integers as in the   *)
(* code, 0 standing for an empty entry.                                    *)
(***************************************************************************)
EXTENDS BeamSearch

CONSTANTS
  BLOCK,        (* threads of a block: 128 in the code                     *)
  Ks,           (* BEAM_WIDTHS                                             *)
  NUM_PARAMS,   (* weights of a model                                      *)
  LOWEST        (* every value of a model is above LOWEST                  *)

Threads == 0..(BLOCK - 1)
K1 == Width(Ks, 0)
KMAX == Max({Width(Ks, l) : l \in 0..(DEPTH - 2)})
BeamIdx == 0..(KMAX - 1)
MID_SLOTS == 0..(Max({1} \cup {Width(Ks, l - 1) : l \in 1..(DEPTH - 2)})
                   * MAX_CHILD_MID * MAX_PLACEMENTS - 1)
LEAF_ORDERS == leaf_orders(Ks)
SPAN == LEAF_ORDERS + K1
Params == 0..(NUM_PARAMS - 1)

\* One thread caches one kept node, says a static_assert.
ASSUME BlockAssumption ==
  /\ BLOCK \in Nat \ {0}
  /\ Ks \in BeamWidths
  /\ KMAX <= BLOCK
  /\ NUM_PARAMS \in Nat /\ LOWEST \in Int

\* The entries a thread takes of an array.
Stride(t, entries) == {i \in entries : i % BLOCK = t}

\* ordered_bits, pack_key and key_pos; the low half of a key is 2^32 wide.
ordered_bits(value) == value - LOWEST
KEY_RADIX == Max({Cardinality(ROOT_SLOTS), Cardinality(MID_SLOTS), SPAN}) + 1
pack_key(v_ordered, pos, count) == v_ordered * KEY_RADIX + (count - pos)
key_pos(key, count) == count - (key % KEY_RADIX)
key_value(key) == key \div KEY_RADIX

MaxKey(keys) == Max(keys \cup {0})

\* The value of a step as an entry of a score array.
Entry(block, step, isI) ==
  ordered_bits(Evaluate(block.weights, step.clears, step.board, isI))
-----------------------------------------------------------------------------
\* Stage 0: what thread t finds legal, with the entries it writes.
RootEntries(block, t) ==
  LET tree == PLAN_TREES[block.heldEmpty]
      work == {[slot |-> s, step |-> RootStep(tree, block.slot, block.board, s)] :
                 s \in Stride(t, RootCandidates(tree, block.slot))}
  IN  {[id |-> w.slot,
        value |-> Entry(block, w.step, heldIsI(block.slot, RootNode(tree, w.slot)))] :
         w \in {w \in work : w.step.legal}}

\* cache_kept_roots: what thread t writes into frontier row 0.
KeptRoot(block, t) ==
  LET s    == block.selectedRoot[t].slot
      step == RootStep(PLAN_TREES[block.heldEmpty], block.slot, block.board, s)
  IN  [board |-> step.board, clears |-> step.clears, score |-> block.selectedRoot[t].value,
       node |-> s \div MAX_PLACEMENTS, rootRank |-> t]

\* build_mid_segments: one segment per kept node and child, back to back.
SegmentsOf(block, level, row, n) ==
  LET tree == PLAN_TREES[block.heldEmpty]
      segment(i, child) ==
        [beamIdx |-> i, node |-> child, piece |-> block.slot[tree[level][child].slot],
         held |-> heldIsI(block.slot, tree[level][child])]
      perNode(i) ==
        LET parent == tree[level - 1][row[i].node]
        IN  [c \in 1..(parent.childEnd - parent.childBegin) |->
               segment(i, parent.childBegin + c - 1)]
  IN  FlattenSeq([i \in 1..n |-> perNode(i - 1)])

\* segmentOffset; the entry behind the last segment is the size of the space.
Offset(segments, j) ==
  MapThenSumSet(LAMBDA i : n_theoretical_placements(segments[i].piece), 1..(j - 1))
MidTotal(segments) == Offset(segments, Len(segments) + 1)

\* The segment of a compacted work id, and the id's placement in it.
SegmentIdx(segments, id) ==
  CHOOSE j \in DOMAIN segments : Offset(segments, j) <= id /\ id < Offset(segments, j + 1)

MidWork(segments, row, id) ==
  LET j   == SegmentIdx(segments, id)
      seg == segments[j]
      p   == row[seg.beamIdx]
  IN  [seg |-> seg, rootRank |-> p.rootRank,
       step |-> apply(p.board, p.clears, seg.piece,
                      nth_placement(seg.piece, id - Offset(segments, j)))]

\* score_mid: what thread t finds legal, with the entries it writes.
MidEntries(block, row, t) ==
  LET work == {[id |-> i, mid |-> MidWork(block.segments, row, i)] :
                 i \in Stride(t, 0..(MidTotal(block.segments) - 1))}
  IN  {[id |-> w.id, beamIdx |-> w.mid.seg.beamIdx,
        value |-> Entry(block, w.mid.step, w.mid.seg.held)] :
         w \in {w \in work : w.mid.step.legal}}

\* A score array with these entries written.
WithEntries(scores, entries) ==
  [i \in DOMAIN scores |->
     IF \E e \in entries : e.id = i THEN (CHOOSE e \in entries : e.id = i).value ELSE scores[i]]

\* Mutant: a kept node is filed under its parent's rank, not its root's.
KeptMidRankOnly(block, row, t) ==
  LET w == MidWork(block.segments, row, block.selectedMid[t].slot)
  IN  [board |-> w.step.board, clears |-> w.step.clears, score |-> block.selectedMid[t].value,
       node |-> w.seg.node, rootRank |-> w.seg.beamIdx]

\* cache_kept_mid: what thread t writes into the next frontier row.
KeptMid(block, row, t) ==
  LET w == MidWork(block.segments, row, block.selectedMid[t].slot)
  IN  [board |-> w.step.board, clears |-> w.step.clears, score |-> block.selectedMid[t].value,
       node |-> w.seg.node, rootRank |-> w.rootRank]

\* Mutant: it is keyed by its own rank.
MidFallbackOwnRank(row, t) == pack_key(row[t].score, LEAF_ORDERS + t, SPAN)

\* The key of a kept node without a continuation, a leaf at this depth.
MidFallback(row, t) == pack_key(row[t].score, LEAF_ORDERS + row[t].rootRank, SPAN)
-----------------------------------------------------------------------------
\* The last-piece lists of a kept node, and their placements one after another.
LeafLists(block, node) ==
  LET tree  == PLAN_TREES[block.heldEmpty]
      lnode == tree[DEPTH - 2][node.node]
  IN  [l \in 0..(lnode.childEnd - lnode.childBegin - 1) |->
         LET cnode == tree[DEPTH - 1][lnode.childBegin + l]
         IN  [piece |-> block.slot[cnode.slot], held |-> heldIsI(block.slot, cnode)]]

FlatPlacements(lists) ==
  FlattenSeq([l \in 1..Cardinality(DOMAIN lists) |->
    [i \in 1..n_theoretical_placements(lists[l - 1].piece) |->
       [list |-> l - 1, placement |-> i - 1]]])

LeafOrder(i, list, placement) == (i * MAX_LAST + list) * MAX_PLACEMENTS + placement

\* The legal leaves of kept node i found by one lane of `lanes`, with their
\* keys.
LaneLeaves(block, node, i, lane, lanes) ==
  LET lists == LeafLists(block, node)
      flat  == FlatPlacements(lists)
      leaf(f) ==
        [list |-> f.list,
         order |-> LeafOrder(i, f.list, f.placement),
         isI |-> lists[f.list].held,
         step |-> LeafStep(node, lists[f.list].piece, f.placement)]
  IN  {l \in {leaf(flat[j]) : j \in {j \in DOMAIN flat : (j - 1) % lanes = lane}} : l.step.legal}

LeafKey(block, leaf) == pack_key(Entry(block, leaf.step, leaf.isI), leaf.order, SPAN)

\* What the lanes of a warp consider for kept node i: the legal leaves and,
\* for a list no lane found a legal placement in, the kept board itself.
WarpLeafKeys(block, node, i, lanes) ==
  LET leaves == UNION {LaneLeaves(block, node, i, lane, lanes) : lane \in 0..(lanes - 1)}
      unused == DOMAIN LeafLists(block, node) \ {leaf.list : leaf \in leaves}
  IN  {LeafKey(block, leaf) : leaf \in leaves}
        \cup {pack_key(node.score, LeafOrder(i, l, 0), SPAN) : l \in unused}

\* commit_move: the root slot the winning key stands for.
WinnerRoot(block, row, winner) ==
  LET order == key_pos(winner, SPAN)
      rank  == IF order >= LEAF_ORDERS THEN order - LEAF_ORDERS
               ELSE row[order \div (MAX_LAST * MAX_PLACEMENTS)].rootRank
  IN  block.selectedRoot[rank].slot
=============================================================================
