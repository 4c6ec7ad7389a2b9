----------------------------- MODULE MCHashtbl -----------------------------
(* Model-checking instance of Hashtbl: two keys share a bucket. *)
EXTENDS Hashtbl

CONSTANTS k1, k2, k3

Keys == {k1, k2, k3}
Hash == [k \in Keys |-> IF k = k3 THEN 1 ELSE 0]
Old == <<k1, k2>>
============================================================================
