------------------------------- MODULE Dllarr -------------------------------
(***************************************************************************)
(* The doubly linked list with an array on the side of src/src/dllarr.c.   *)
(* The elements are embedded in the objects that are listed (the member ur *)
(* of a blockio_info_t), so that an object is in one list at most, and the *)
(* lists share one heap: the links and the index of every element and of   *)
(* the two sentinels of every list, and the array and its size per list.   *)
(*                                                                         *)
(* Operators take a heap and return a heap.  The field ok of a heap        *)
(* becomes FALSE when an assertion fails.                                  *)
(***************************************************************************)
EXTENDS Integers, FiniteSets, SequencesExt

CONSTANTS
  Elt, List,
  Null,        \* the null pointer
  StartSize    \* DLLARR_START_SIZE

Head_(l) == <<"head", l>>
Tail_(l) == <<"tail", l>>
Node == Elt \cup {Head_(l) : l \in List} \cup {Tail_(l) : l \in List}

Heap ==
  [prev : [Node -> Node \cup {Null}], next : [Node -> Node \cup {Null}],
   index : [Node -> Int], array : [List -> Seq(Elt)], size : [List -> Nat],
   ok : BOOLEAN]

(* dllarr_init of every list; no element is in a list. *)
EmptyHeap ==
  [prev |-> [n \in Node |-> IF \E l \in List : n = Tail_(l)
                            THEN Head_(CHOOSE l \in List : n = Tail_(l))
                            ELSE Null],
   next |-> [n \in Node |-> IF \E l \in List : n = Head_(l)
                            THEN Tail_(CHOOSE l \in List : n = Head_(l))
                            ELSE Null],
   index |-> [n \in Node |-> IF \E l \in List : n = Head_(l) THEN -1 ELSE 0],
   array |-> [l \in List |-> <<>>],
   size |-> [l \in List |-> StartSize],
   ok |-> TRUE]

----------------------------------------------------------------------------
(* access_ptr: a sentinel stands for the null pointer. *)
access_ptr(l, n) == IF n \in {Head_(l), Tail_(l)} THEN Null ELSE n

dllarr_count(h, l) == h.index[Tail_(l)]
dllarr_nth(h, l, n) == h.array[l][n + 1]

(* Following next from n: the node after k steps, the tail at last. *)
Walk(h, n) ==
  LET at[k \in 0..(Cardinality(Elt) + 1)] ==
        IF k = 0 THEN n
        ELSE IF h.next[at[k - 1]] = Null THEN at[k - 1]
        ELSE h.next[at[k - 1]]
  IN  at

(* The elements from head to tail, as dllarr_iterate visits them. *)
Iterated(h, l) ==
  LET at == Walk(h, Head_(l))
      n == Cardinality({k \in 1..Cardinality(Elt) : at[k] # Tail_(l)})
  IN  [k \in 1..n |-> at[k]]

(* dllarr_iterate with a function that stops at the first element in F. *)
dllarr_iterate(h, l, F) ==
  LET s == Iterated(h, l)
      hits == {i \in DOMAIN s : s[i] \in F}
  IN  IF hits = {} THEN Null ELSE s[Min(hits)]

(* The elements behind the new one keep their index (wrong variant, for    *)
(* mutation tests, like every definition whose name ends in _bad).         *)
Renumbered_bad(h, n, d) ==
  [h EXCEPT !.index = [m \in Node |-> IF m = n THEN @[m] + d ELSE @[m]]]

(* The index of n and of all the nodes behind it changes by d. *)
Renumbered(h, n, d) ==
  LET behind == Range(Walk(h, n))
  IN  [h EXCEPT !.index =
         [m \in Node |-> IF m \in behind THEN @[m] + d ELSE @[m]]]

(* dllarr_insert: in front of at, or at the end when at is null. *)
dllarr_insert(h, l, new, at) ==
  LET t == IF at = Null THEN Tail_(l) ELSE at
      before == h.prev[t]
      i == h.index[t]
      full == dllarr_count(h, l) = h.size[l]
  IN  IF h.prev[new] # Null \/ h.next[new] # Null \/ h.index[new] # 0
         \/ before = Null \/ h.next[before] # t
      THEN [h EXCEPT !.ok = FALSE]
      ELSE LET r == Renumbered(h, t, 1)
           IN  [r EXCEPT !.index[new] = i,
                         !.array[l] = InsertAt(@, i + 1, new),
                         !.size[l] = IF full THEN 2 * @ ELSE @,
                         !.next[before] = new, !.prev[new] = before,
                         !.next[new] = t, !.prev[t] = new]

(* dllarr_remove *)
dllarr_remove(h, l, at) ==
  LET p == h.prev[at]
      n == h.next[at]
  IN  IF p = Null \/ n = Null \/ h.next[p] # at \/ h.prev[n] # at
      THEN [h EXCEPT !.ok = FALSE]
      ELSE LET r == Renumbered(h, n, -1)
           IN  [r EXCEPT !.array[l] = RemoveAt(@, h.index[at] + 1),
                         !.prev[n] = p, !.next[p] = n,
                         !.next[at] = Null, !.prev[at] = Null,
                         !.index[at] = 0]

(* An element leaves a list, unless from is null, and goes to another one, *)
(* unless to is null, in front of the first element in F.                  *)
Moved(h, e, from, to, F) ==
  LET out == IF from = Null THEN h ELSE dllarr_remove(h, from, e)
  IN  IF to = Null THEN out
      ELSE dllarr_insert(out, to, e, dllarr_iterate(out, to, F))

(* A loop over s that moves the elements of S: the heaps after each turn,  *)
(* and the last one.                                                       *)
Transfers(h, s, S, from, to, F) ==
  LET after[k \in 0..Len(s)] ==
        IF k = 0 THEN h
        ELSE IF s[k] \in S THEN Moved(after[k - 1], s[k], from, to, F[s[k]])
        ELSE after[k - 1]
  IN  after

Transfer(h, s, S, from, to, F) == Transfers(h, s, S, from, to, F)[Len(s)]

(* Insertion at NULL is dllarr_append. *)
AtEnd == [e \in Elt |-> {}]

(* The elements of a list are removed, from the last to the first. *)
Emptied(h, l) == Transfer(h, Reverse(Iterated(h, l)), Elt, l, Null, AtEnd)

(* dllarr_free.  The list is left as the next dllarr_init makes it. *)
dllarr_free(h, l) == [Emptied(h, l) EXCEPT !.size[l] = StartSize]

----------------------------------------------------------------------------
(* The list, read forwards or backwards, and the array are the same        *)
(* sequence, every element knows its place in it, an element that is in no *)
(* list is unlinked, the array has room, and no assertion failed.          *)
ListsAgree(h) ==
  /\ h.ok
  /\ \A l \in List :
       LET s == Iterated(h, l)
       IN  /\ s = h.array[l]
           /\ dllarr_count(h, l) = Len(s)
           /\ Len(s) <= h.size[l]
           /\ h.prev[Head_(l)] = Null /\ h.next[Tail_(l)] = Null
           /\ \A i \in 1..Len(s) :
                /\ h.index[s[i]] = i - 1
                /\ h.prev[h.next[s[i]]] = s[i]
                /\ h.next[h.prev[s[i]]] = s[i]
  /\ \A e \in Elt : (\A l \in List : ~ Contains(h.array[l], e)) =>
       h.prev[e] = Null /\ h.next[e] = Null /\ h.index[e] = 0
============================================================================
