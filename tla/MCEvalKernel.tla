----------------------------- MODULE MCEvalKernel -----------------------------
(***************************************************************************)
(* Two blocks of three threads, one for each of two models that want       *)
(* opposite things, with warps that divide the block and with warps that   *)
(* do not.                                                                 *)
(***************************************************************************)
EXTENDS EvalKernel, ValueModels

MCTypes == {"I", "O", "S", "J", "Z"}
MCWidths == {<<2, 2, 2>>}
MCKs == <<2, 2, 2>>
MCLowest == -1000000
MCWarpSizes == {2, 3}
MCGameIds == {0, 1}
MCDeals ==
  {[i \in BagSlots |-> deal[i + 1]] :
     deal \in {<<"I", "Z", "O", "S", "J">>, <<"J", "S", "Z", "O", "I">>}}

\* ModelV11 with one hidden neuron in use: cleared rows and a held I good,
\* holes, height and an uneven surface bad; and, in the second half of the
\* buffer, its opposite, which tops out soon.
Hidden == <<8, 16, 24, 40, -1, -10, -10, -2, 1, -1>>
BIAS == 80
OUTPUT == 88

MCWeights ==
  [i \in 0..(2 * NUM_PARAMS - 1) |->
     LET j == i % NUM_PARAMS
     IN  CASE j < 10     -> Hidden[j + 1]
           [] j = BIAS   -> 40000
           [] j = OUTPUT -> IF i < NUM_PARAMS THEN 1 ELSE -1
           [] OTHER      -> 0]
=============================================================================
