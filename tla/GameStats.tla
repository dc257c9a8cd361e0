------------------------------- MODULE GameStats -------------------------------
(***************************************************************************)
(* stats_v4 and score_v1: what a game is worth to the trainer.  One        *)
(* advance() per placement that survives; the score is read at the end.    *)
(***************************************************************************)
EXTENDS BoardMetrics

\* tetris_stats<score_v1, ...> before the first placement.
NEW_STATS ==
  [piecesPlaced |-> 0, total_lines_cleared |-> 0,
   prevHoles |-> 0, curHoles |-> 0,
   total_clears |-> [k \in 0..BLOCKS |-> 0],
   sumMaxHeight |-> 0, max_height |-> 0, sumHoleDepths |-> 0]

advance(stats, b, lines_cleared) ==
  [piecesPlaced        |-> stats.piecesPlaced + 1,
   total_lines_cleared |-> stats.total_lines_cleared + lines_cleared,
   prevHoles           |-> stats.curHoles,
   curHoles            |-> board_holes(b),
   total_clears        |-> [stats.total_clears EXCEPT ![lines_cleared] = @ + 1],
   sumMaxHeight        |-> stats.sumMaxHeight + board_max_height(b),
   max_height          |-> Max({stats.max_height, board_max_height(b)}),
   sumHoleDepths       |-> stats.sumHoleDepths + board_hole_depths(b)]

new_holes(stats) == stats.curHoles - stats.prevHoles

\* score_v1 in hundredths, times the number of pieces, which the averages in
\* it are divided by: exact where the code has doubles.
PAYOUTS == [k \in 1..BLOCKS |-> CASE k = 1 -> 20 [] k = 2 -> 80 [] k = 3 -> 200 [] k = 4 -> 1000]
SURVIVAL_WEIGHT == 2
HEIGHT_BUDGET == 12

Above(n) == Max({n, 0})

score_v1(stats) ==
  LET n == stats.piecesPlaced
      clearBonus       == MapThenSumSet(LAMBDA k : PAYOUTS[k] * stats.total_clears[k], 1..BLOCKS)
      avgHeightPenalty == Above(100 * stats.sumMaxHeight - 100 * HEIGHT_BUDGET * n)
      maxHeightScore   == Above(stats.max_height - HEIGHT_BUDGET)
  IN  n * (clearBonus + SURVIVAL_WEIGHT * n - 100 * maxHeightScore * maxHeightScore)
        - avgHeightPenalty - 150 * stats.sumHoleDepths

\* fitness of a game, as a fraction: a game without a placement is below all.
Fitness(stats) ==
  IF stats.piecesPlaced = 0
    THEN [num |-> -100000000, den |-> 1]
    ELSE [num |-> score_v1(stats), den |-> stats.piecesPlaced]
=============================================================================
