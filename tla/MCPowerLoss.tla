---------------------------- MODULE MCPowerLoss ----------------------------
(* Model-checking instance of PowerLoss: interchangeable macroblocks. *)
EXTENDS PowerLoss, TLC

(* A partition of one or two macroblocks that may grow to three. *)
ShapesGrowing == {<<1, 0>>, <<2, 1>>, <<3, 1>>}

Symmetry == Permutations(Block)

(* What the medium holds does not matter when the power cannot fail. *)
View ==
  <<bvars, failures, damage, IF PowerCanFail THEN platter ELSE disk>>
============================================================================
