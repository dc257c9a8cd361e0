------------------------------ MODULE ValueModels ------------------------------
(***************************************************************************)
(* The value models ModelV7 .. ModelV11: the inputs each reads off a board *)
(* and the dense layers it puts them through.  Floats are fixed-point      *)
(* integers, UNIT to one, which every normalisation constant divides; the  *)
(* square root of the surface variance is rounded down to that precision.  *)
(***************************************************************************)
EXTENDS BoardMetrics, Sequences

UNIT == 1000
CLEAR_KINDS == 4

\* 10 * sqrt(n), rounded down: fsqrt, normalised by 100, in UNITs.
NormRoot(n) == CHOOSE r \in 0..(10 * n) : r * r <= 100 * n /\ 100 * n < (r + 1) * (r + 1)

norm_surface_var(b)  == NormRoot(SurfaceSquare(b))
norm_holes(b)        == board_holes(b) * (UNIT \div 20)
norm_hole_depths(b)  == board_hole_depths(b) * (UNIT \div 200)
norm_agg_height(b)   == board_agg_height(b) * (UNIT \div 200)
norm_wells(b)        == board_wells(b) * (UNIT \div 5)

CLEAR_SCORE_TABLE == <<-1, -2, -3, 10>>

\* The inputs the versions share: a histogram of the clears of the line, a
\* score of them, and whether an I piece is held.
Clears(clears) == [k \in 1..CLEAR_KINDS |-> clears[k] * (UNIT \div 4)]
ClearScore(clears) ==
  MapThenSumSet(LAMBDA k : CLEAR_SCORE_TABLE[k] * clears[k], 1..CLEAR_KINDS) * (UNIT \div 10)
HeldI(held_is_i) == IF held_is_i THEN UNIT ELSE 0

InputsV7(clears, b) ==
  <<norm_surface_var(b), norm_holes(b)>> \o Clears(clears)
    \o <<ClearScore(clears), norm_agg_height(b)>>

InputsV8(clears, b, held_is_i) == Append(InputsV7(clears, b), HeldI(held_is_i))

\* V9 and V10 read the same inputs.
InputsV9(clears, b, held_is_i) == Append(InputsV8(clears, b, held_is_i), norm_wells(b))

InputsV11(clears, b, held_is_i) ==
  Clears(clears)
    \o <<norm_surface_var(b), norm_holes(b), norm_hole_depths(b), board_max_height(b) * UNIT,
         HeldI(held_is_i), norm_wells(b)>>
-----------------------------------------------------------------------------
\* The widths of the layers, from the inputs to the value.
LayersV7 == <<8, 16, 8, 1>>
LayersV8 == <<9, 16, 8, 1>>
LayersV9 == <<10, 16, 8, 1>>
LayersV10 == <<10, 1>>
LayersV11 == <<10, 8, 1>>

fc_layer_params(in, out) == in * out + out

\* Where layer l begins in the flat weight buffer, and the size of all layers.
LayerOffset(layers, l) ==
  MapThenSumSet(LAMBDA i : fc_layer_params(layers[i], layers[i + 1]), 1..(l - 1))
NumParams(layers) == LayerOffset(layers, Len(layers))

\* One layer, its weights at w[off]: the matrix row by row, then the biases.
dense(input, nOut, relu, w, off) ==
  LET nIn == Len(input)
      value(o) ==
        w[off + nIn * nOut + o - 1]
          + MapThenSumSet(LAMBDA i : input[i] * w[off + (o - 1) * nIn + i - 1], 1..nIn)
  IN  [o \in 1..nOut |-> IF relu THEN Max({0, value(o)}) ELSE value(o)]

\* forward: every layer but the last is rectified.
forward(layers, input, w) ==
  LET act[l \in 1..Len(layers)] ==
        IF l = 1 THEN input
        ELSE dense(act[l - 1], layers[l], l < Len(layers), w, LayerOffset(layers, l - 1))
  IN  act[Len(layers)][1]

\* ModelV11::evaluate, the version model_t selects.
evaluate(w, clears, b, held_is_i) == forward(LayersV11, InputsV11(clears, b, held_is_i), w)
=============================================================================
