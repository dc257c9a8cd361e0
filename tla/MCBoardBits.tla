------------------------------ MODULE MCBoardBits ------------------------------
(***************************************************************************)
(* BoardBits on a narrow board, with words a few bits wider than a column. *)
(***************************************************************************)
EXTENDS BoardBits

MCTypesIJO == {"I", "J", "O"}
=============================================================================
