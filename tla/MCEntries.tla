----------------------------- MODULE MCEntries -----------------------------
(* Model-checking instance of Entries: one partition is open already. *)
EXTENDS Entries

CONSTANTS o1, o2, n1, n2, k1

Objects == {o1, o2}
Names == {n1, n2}
Keys == {k1}
OpenedBefore == [o \in {o1} |-> <<n1, k1>>]
============================================================================
