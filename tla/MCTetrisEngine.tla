---------------------------- MODULE MCTetrisEngine ----------------------------
(***************************************************************************)
(* TetrisEngine on a narrow board with two of the real pieces: I reaches   *)
(* four rows, S has an overhang in both of its orientations.  The          *)
(* placement table is checked on the boards the engine reaches.            *)
(***************************************************************************)
EXTENDS TetrisEngine, Placements

MCTypesIS == {"I", "S"}

\* On every reachable board the table stands for all legal drops (see
\* TableIsExactOn), where the stack leaves the spawn rows free.
TableIsExact == TableIsExactOn(board)
=============================================================================
