----------------------------- MODULE MCTetrisGame -----------------------------
(***************************************************************************)
(* TetrisGame on a narrow board with two of the real pieces.               *)
(***************************************************************************)
EXTENDS TetrisGame

MCTypesLI == {"L", "I"}
=============================================================================
