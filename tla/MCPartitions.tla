---------------------------- MODULE MCPartitions ----------------------------
(* Model-checking instance of Partitions: two partitions, three macroblocks. *)
EXTENDS Partitions

CONSTANTS b1, b2, b3

MCInfos == <<b1, b2, b3>>

(* One that needs the wrapped size (three macroblocks, none reserved), a   *)
(* reserve that leaves nothing, and a negative one, which passes the       *)
(* checks of control_resize.                                               *)
MCShapes == {<<1, 0>>, <<2, 1>>, <<3, 0>>, <<3, 3>>, <<2, -1>>}

Symmetry == Permutations(Part)
============================================================================
