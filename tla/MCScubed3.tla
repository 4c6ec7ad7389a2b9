----------------------------- MODULE MCScubed3 -----------------------------
(* Model-checking instances of Scubed3. *)
EXTENDS Scubed3

(* Arguments of control_resize: one step to three macroblocks, or two. *)
ShapesMin == {<<2, 1>>, <<3, 1>>, <<3, 2>>}
ShapesGC == {<<2, 1>>}

Symmetry == Permutations(Block) \cup Permutations(Value)
============================================================================
