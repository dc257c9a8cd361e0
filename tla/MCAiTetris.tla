------------------------------ MODULE MCAiTetris ------------------------------
(***************************************************************************)
(* AiTetris with models that want different things, three pieces deep.     *)
(***************************************************************************)
EXTENDS AiTetris

MCTypes4 == {"I", "O", "S", "J"}

\* Beams that prune at every level, and one that keeps everything.
MCWidths3 == {<<2, 3>>, <<20, 400>>}

\* Values of a board in the manner of the repository's test models: cleared
\* rows good, height and holes bad; and the opposite, which tops out soon.
\* Mirrored boards tie in both.
MCModels == {"low", "high"}

Height(col) == HEIGHT - ColumnTop(col)
Lines(clears) == MapThenSumSet(LAMBDA n : n * clears[n], 1..BLOCKS)
Heights(b) == MapThenSumSet(LAMBDA x : Height(b[x]), Columns)
Holes(b) == MapThenSumSet(LAMBDA x : Height(b[x]) - Cardinality(b[x]), Columns)

MCEvaluate(m, clears, b, isI) ==
  LET low == 20 * Lines(clears) - 3 * Heights(b) - 10 * Holes(b) + (IF isI THEN 4 ELSE 0)
  IN  IF m = "low" THEN low ELSE -low
=============================================================================
