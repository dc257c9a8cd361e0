------------------------------ MODULE MCEvolution ------------------------------
(***************************************************************************)
(* Two islands over two evaluators.  The models of a batch of the first    *)
(* island score the same on every game or differ, those of the second's    *)
(* always differ; no two batches share a model.                            *)
(***************************************************************************)
EXTENDS Evolution

MCSampling == <<{<<1, 2, 3, 4, 5>>, <<6, 7, 8, 9, 10>>}, {<<11, 12, 13, 14, 15>>}>>
MCScore(x, s) == IF x <= 5 THEN s % 3 ELSE (x + s) % 4
MCKinds == {"sep", "dd"}
MCFaults == {"device", "eigen", "evolve"}
=============================================================================
