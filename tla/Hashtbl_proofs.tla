--------------------------- MODULE Hashtbl_proofs ---------------------------
(***************************************************************************)
(* Proofs about Hashtbl, for any number of threads, keys, buckets and      *)
(* elements: no key is in the table twice, no thread touches an element    *)
(* that was freed, the count is exact, and a traversal reports every       *)
(* element that stays and none twice.                                      *)
(*                                                                         *)
(* All of it is proved from one inductive invariant, HashtblInv: what the  *)
(* chains look like, and what every thread knows at its place in the code  *)
(* thanks to the mutexes it owns.                                          *)
(***************************************************************************)
EXTENDS Hashtbl, FunctionTheorems, FiniteSetTheorems, WellFoundedInduction,
        TLAPS

TypesOK ==
  /\ nxt \in [Node -> Elt \cup {Null}]
  /\ key \in [Elt -> Key]
  /\ mem \in [Elt -> {"unused", "live", "freed"}]
  /\ ptrmx \in [Node -> Thread \cup {Null}]
  /\ datamx \in [Elt -> Thread \cup {Null}]
  /\ uniqmx \in [Bucket -> Thread \cup {Null}]
  /\ count \in Int
  /\ th \in [Thread -> Local]
  /\ doomed \subseteq Elt
  /\ left \in [Thread -> 0..Budget]

(* The nodes whose pointers make up the chains. *)
Stem == Bucket \cup Linked

(* Two nodes of the chains do not point to the same element; what is       *)
(* linked is alive and in the bucket of its key, and no key is linked      *)
(* twice.                                                                  *)
OnePointer ==
  \A x, y \in Stem : nxt[x] = nxt[y] /\ nxt[x] # Null => x = y

LinkedIsLive == \A e \in Linked : mem[e] = "live"

RightBucket == \A b \in Bucket : \A e \in Chain(b) : HashOf[key[e]] = b

TableOK == OnePointer /\ LinkedIsLive /\ RightBucket /\ UniqueKeys

(* Which operation a thread can be in at its place. *)
OpOK(l) ==
  /\ l.pc = "idle" => l.op = "none"
  /\ l.pc \in {"uniq", "dup", "undo", "link"} => l.op = "add"
  /\ l.pc \in {"uncount", "unlink"} => l.op = "delete"
  /\ l.pc = "hold" => l.op \in {"find", "add", "traverse"}
  /\ l.pc \in {"enter", "walk"} => l.op # "none"

(* An element that was allocated and is not linked yet belongs to the      *)
(* thread that adds it, and to nobody else.                                *)
Pending(t) ==
  th[t].op = "add" /\ th[t].pc \in {"uniq", "enter", "walk", "link"}

PendingOK(t) ==
  Pending(t) =>
    /\ th[t].elt \in Elt \ Linked /\ mem[th[t].elt] = "live"
    /\ key[th[t].elt] = th[t].want /\ th[t].bkt = HashOf[th[t].want]

Fresh ==
  \A t, u \in Thread :
    Pending(t) => /\ th[t].elt \notin th[u].seen
                  /\ Pending(u) /\ th[u].elt = th[t].elt => u = t

(* The mutexes that a thread owns at its place, and what they protect. *)
UniqOK(t) ==
  th[t].op = "add" /\ th[t].pc \in {"enter", "walk", "dup", "link"} =>
    uniqmx[th[t].bkt] = t

PtrOK(t) ==
  th[t].pc \in {"walk", "uncount", "unlink"} =>
    /\ th[t].at \in {th[t].bkt} \cup Chain(th[t].bkt)
    /\ ptrmx[th[t].at] = t

DeleteOK(t) ==
  th[t].pc \in {"uncount", "unlink"} =>
    /\ th[t].elt \in Elt
    /\ nxt[th[t].at] = th[t].elt
    /\ datamx[th[t].elt] = t

HoldOK(t) ==
  th[t].pc = "hold" =>
    th[t].elt \in Chain(th[t].bkt) /\ datamx[th[t].elt] = t

DupOK(t) == th[t].pc = "dup" => \E e \in Linked : datamx[e] = t

(* A thread that adds has not passed its key: if it is in the bucket, then *)
(* it is ahead, and when the end was reached it is not there.              *)
NotPassed(t) ==
  th[t].op = "add" /\ th[t].pc = "walk" =>
    \A e \in Chain(th[t].bkt) :
      key[e] = th[t].want => e \in Chain(th[t].at)

Absent(t) ==
  th[t].pc = "link" => \A e \in Chain(th[t].bkt) : key[e] # th[t].want

(* Where a traversal is in its bucket. *)
Place(l) == CASE l.pc = "walk" -> l.at [] l.pc = "hold" -> l.elt
              [] OTHER -> l.bkt

(* Nothing that is ahead of a traversal has been seen, and what is behind  *)
(* it has, as far as it must be.                                           *)
TraverseOK(t) ==
  th[t].op = "traverse" =>
    /\ th[t].must \subseteq Linked
    /\ \A b \in Bucket : b > th[t].bkt => Chain(b) \cap th[t].seen = {}
    /\ \A b \in Bucket :
         b < th[t].bkt => th[t].must \cap Chain(b) \subseteq th[t].seen
    /\ Chain(Place(th[t])) \cap th[t].seen = {}
    /\ th[t].must \cap Chain(th[t].bkt)
         \subseteq th[t].seen \cup Chain(Place(th[t]))

SeenOK(t) == \A e \in th[t].seen : mem[e] # "unused"

ThreadOK(t) ==
  /\ OpOK(th[t]) /\ PendingOK(t)
  /\ UniqOK(t) /\ PtrOK(t) /\ DeleteOK(t) /\ HoldOK(t) /\ DupOK(t)
  /\ NotPassed(t) /\ Absent(t) /\ TraverseOK(t) /\ SeenOK(t)

HashtblInv ==
  /\ TypesOK /\ TableOK /\ Fresh /\ CountExact
  /\ \A t \in Thread : ThreadOK(t)

----------------------------------------------------------------------------
(* What a walk along pointers comes to. *)

Pointers == [Node -> Elt \cup {Null}]

(* Buckets and elements are nodes. *)
LEMMA NodeFacts ==
  /\ Bucket \subseteq Node /\ Elt \subseteq Node
  /\ Elt \cap Bucket = {} /\ Null \notin Elt
  BY HashtblAssumption DEF Node

(* A walk comes to the next element. *)
LEMMA ReachStart ==
  ASSUME NEW f \in Pointers, NEW x \in Node, f[x] # Null
  PROVE  f[x] \in Reach(f, x)
  BY DEF Pointers, Reach

(* What a walk comes to are elements, and it goes on from each of them. *)
LEMMA ReachStays ==
  ASSUME NEW f \in Pointers, NEW x \in Node
  PROVE  Reach(f, x) \subseteq Elt /\ Stays(f, Reach(f, x))
  <1>1. Reach(f, x) \subseteq Elt
    BY DEF Reach
  <1>2. ASSUME NEW e \in Reach(f, x), f[e] # Null
        PROVE  f[e] \in Reach(f, x)
    <2>1. e \in Elt /\ f[e] \in Elt
      BY <1>1, <1>2, NodeFacts DEF Pointers
    <2>2. ASSUME NEW S \in SUBSET Elt, f[x] \in S \cup {Null}, Stays(f, S)
          PROVE  f[e] \in S
      <3>1. e \in S
        BY <2>2 DEF Reach
      <3> QED BY <1>2, <2>2, <3>1 DEF Stays
    <2> QED BY <2>1, <2>2 DEF Reach
  <1> QED BY <1>1, <1>2 DEF Stays

(* A set that the walk starts in and does not leave holds all of it. *)
LEMMA ReachLeast ==
  ASSUME NEW f, NEW x, NEW S \in SUBSET Elt,
         f[x] \in S \cup {Null}, Stays(f, S)
  PROVE  Reach(f, x) \subseteq S
  BY DEF Reach

(* A walk that is at the end comes to nothing. *)
LEMMA ReachEnd ==
  ASSUME NEW f, NEW x, f[x] = Null
  PROVE  Reach(f, x) = {}
  <1>1. Stays(f, {}) /\ {} \in SUBSET Elt
    BY DEF Stays
  <1> QED BY <1>1 DEF Reach

(* The walk depends on where it starts and on what it passes. *)
LEMMA ReachFrame ==
  ASSUME NEW f \in Pointers, NEW g \in Pointers,
         NEW x \in Node, NEW y \in Node, g[y] = f[x],
         \A e \in Reach(f, x) : g[e] = f[e]
  PROVE  Reach(g, y) = Reach(f, x)
  <1>1. Reach(f, x) \in SUBSET Elt /\ Stays(f, Reach(f, x))
    BY ReachStays
  <1>2. g[y] \in Reach(f, x) \cup {Null} /\ Stays(g, Reach(f, x))
    BY <1>1, ReachStart DEF Stays
  <1>3. Reach(g, y) \subseteq Reach(f, x)
    BY <1>1, <1>2, ReachLeast
  <1>4. Reach(g, y) \in SUBSET Elt /\ Stays(g, Reach(g, y))
    BY ReachStays
  <1>5. f[x] \in Reach(g, y) \cup {Null} /\ Stays(f, Reach(g, y))
    BY <1>3, <1>4, ReachStart DEF Stays
  <1>6. Reach(f, x) \subseteq Reach(g, y)
    BY <1>4, <1>5, ReachLeast
  <1> QED BY <1>3, <1>6

(* What is behind what a walk comes to. *)
LEMMA ReachBehind ==
  ASSUME NEW f \in Pointers, NEW x \in Node, NEW e \in Reach(f, x)
  PROVE  Reach(f, e) \subseteq Reach(f, x)
  <1>1. Reach(f, x) \in SUBSET Elt /\ Stays(f, Reach(f, x))
    BY ReachStays
  <1>2. f[e] \in Reach(f, x) \cup {Null}
    BY <1>1 DEF Stays
  <1> QED BY <1>1, <1>2, ReachLeast

(* A walk is its first step and the rest. *)
LEMMA ReachStep ==
  ASSUME NEW f \in Pointers, NEW x \in Node, f[x] # Null
  PROVE  f[x] \in Elt /\ Reach(f, x) = {f[x]} \cup Reach(f, f[x])
  <1>1. PICK n \in Elt : n = f[x]
    BY DEF Pointers
  <1>2. n \in Node
    BY NodeFacts
  <1>3. Reach(f, n) \in SUBSET Elt /\ Stays(f, Reach(f, n))
    BY <1>2, ReachStays
  <1>4. f[n] \in Reach(f, n) \cup {Null}
    BY <1>2, ReachStart
  <1>5. /\ {n} \cup Reach(f, n) \in SUBSET Elt
        /\ Stays(f, {n} \cup Reach(f, n))
        /\ f[x] \in ({n} \cup Reach(f, n)) \cup {Null}
    BY <1>1, <1>3, <1>4 DEF Stays
  <1>6. Reach(f, x) \subseteq {n} \cup Reach(f, n)
    BY <1>5, ReachLeast
  <1>7. n \in Reach(f, x)
    BY <1>1, ReachStart
  <1>8. Reach(f, n) \subseteq Reach(f, x)
    BY <1>7, ReachBehind
  <1> QED BY <1>1, <1>6, <1>7, <1>8

(* M is a set of nodes in which no walk ends up outside, and in which no   *)
(* two nodes point to the same element.                                    *)
Chained(f, M) ==
  /\ M \subseteq Node
  /\ \A x \in M : f[x] \in M \cup {Null}
  /\ \A x, y \in M : f[x] = f[y] /\ f[x] # Null => x = y

(* A walk stays among such nodes. *)
LEMMA ReachInside ==
  ASSUME NEW f \in Pointers, NEW M, Chained(f, M), NEW x \in M
  PROVE  Reach(f, x) \subseteq M
  <1>1. M \cap Elt \in SUBSET Elt /\ Stays(f, M \cap Elt)
    BY NodeFacts DEF Chained, Pointers, Stays
  <1>2. f[x] \in (M \cap Elt) \cup {Null}
    BY DEF Chained, Pointers
  <1> QED BY <1>1, <1>2, ReachLeast

(* Walks that start at a bucket do not come back. *)
LEMMA ReachNoCycle ==
  ASSUME NEW f \in Pointers, NEW M, Chained(f, M),
         NEW b \in Bucket, b \in M, NEW e \in Reach(f, b)
  PROVE  e \notin Reach(f, e)
  <1>0. b \in Node /\ b \notin Elt /\ e \in Elt /\ e \in Node
    BY NodeFacts, ReachStays
  <1>1. SUFFICES ASSUME e \in Reach(f, e) PROVE FALSE
    OBVIOUS
  <1> DEFINE C == Reach(f, e)
             H == {y \in C : \E x \in C : f[x] = y}
             D == Reach(f, b) \ C
  <1>2. C \in SUBSET Elt /\ Stays(f, C) /\ C \subseteq M
    <2>1. e \in M
      BY ReachInside
    <2> QED BY <1>0, <2>1, ReachStays, ReachInside
  <1>3. /\ Reach(f, b) \in SUBSET Elt /\ Stays(f, Reach(f, b))
        /\ Reach(f, b) \subseteq M /\ f[b] \in Reach(f, b) \cup {Null}
    BY <1>0, ReachStays, ReachInside, ReachStart
  <1>4. C \subseteq H
    <2>1. H \in SUBSET Elt
      BY <1>2
    <2>2. Stays(f, H)
      BY <1>2 DEF Stays
    <2>3. f[e] \in H \cup {Null}
      BY <1>0, <1>1, ReachStart
    <2> QED BY <2>1, <2>2, <2>3, ReachLeast
  <1>5. ASSUME NEW x \in M, x \notin C PROVE f[x] \notin C
    <2>1. SUFFICES ASSUME f[x] \in C PROVE FALSE
      OBVIOUS
    <2>2. PICK y \in C : f[y] = f[x]
      BY <1>4, <2>1
    <2>3. f[x] # Null /\ y \in M
      BY <1>2, <2>1, NodeFacts
    <2> QED BY <1>5, <2>2, <2>3 DEF Chained
  <1>6. D \in SUBSET Elt /\ Stays(f, D)
    BY <1>3, <1>5 DEF Stays
  <1>7. f[b] \in D \cup {Null}
    BY <1>0, <1>2, <1>3, <1>5
  <1>8. Reach(f, b) \subseteq D
    BY <1>6, <1>7, ReachLeast
  <1> QED BY <1>1, <1>8

(* Unlinking e, which p points to: every other walk loses e and nothing    *)
(* else.                                                                   *)
LEMMA ReachCut ==
  ASSUME NEW f \in Pointers, NEW M, Chained(f, M),
         NEW p \in M, NEW e \in Elt, f[p] = e, p # e,
         NEW g \in Pointers, g[p] = f[e],
         \A y \in Node : y # p => g[y] = f[y],
         NEW x \in M, x # e
  PROVE  Reach(g, x) = Reach(f, x) \ {e}
  <1>0. /\ p \in Node /\ x \in Node /\ e \in Node
        /\ e # Null
    BY NodeFacts DEF Chained, Pointers
  <1>1. Reach(f, x) \in SUBSET Elt /\ Stays(f, Reach(f, x))
    BY <1>0, ReachStays
  <1>2. Reach(f, x) \subseteq M
    BY ReachInside
  <1>3. e \in M /\ f[e] # e
    BY <1>0 DEF Chained
  <1>4. f[x] \in Reach(f, x) \cup {Null}
    BY <1>0, ReachStart
  <1>5. ASSUME NEW y \in {x} \cup Reach(f, x), y # e
        PROVE  g[y] \in (Reach(f, x) \ {e}) \cup {Null}
    <2>1. y \in M /\ y \in Node /\ f[y] \in Reach(f, x) \cup {Null}
      BY <1>1, <1>2, <1>4 DEF Chained, Stays
    <2>2. CASE y = p
      <3>1. e \in Reach(f, x)
        BY <1>0, <2>1, <2>2
      <3>2. f[e] \in Reach(f, x) \cup {Null}
        BY <1>1, <3>1 DEF Stays
      <3> QED BY <1>0, <1>3, <2>2, <3>2
    <2>3. CASE y # p
      <3>1. f[y] # e
        BY <1>0, <2>1, <2>3 DEF Chained
      <3> QED BY <1>0, <2>1, <2>3, <3>1
    <2> QED BY <2>2, <2>3
  <1>6. Reach(g, x) \subseteq Reach(f, x) \ {e}
    <2>1. Reach(f, x) \ {e} \in SUBSET Elt
      BY <1>1
    <2>2. g[x] \in (Reach(f, x) \ {e}) \cup {Null}
      BY <1>5
    <2>3. Stays(g, Reach(f, x) \ {e})
      BY <1>5 DEF Stays
    <2> QED BY <2>1, <2>2, <2>3, ReachLeast
  <1>7. Reach(g, x) \in SUBSET Elt /\ Stays(g, Reach(g, x))
        /\ g[x] \in Reach(g, x) \cup {Null}
    BY <1>0, ReachStays, ReachStart
  <1>8. CASE p \in {x} \cup Reach(g, x)
    <2>1. f[e] \in Reach(g, x) \cup {Null}
      BY <1>0, <1>7, <1>8 DEF Stays
    <2>2. Stays(f, Reach(g, x) \cup {e})
      BY <1>0, <1>7, <2>1, NodeFacts DEF Stays
    <2>3. f[x] \in (Reach(g, x) \cup {e}) \cup {Null}
      BY <1>0, <1>7
    <2>4. Reach(g, x) \cup {e} \in SUBSET Elt
      BY <1>7
    <2>5. Reach(f, x) \subseteq Reach(g, x) \cup {e}
      BY <2>2, <2>3, <2>4, ReachLeast
    <2> QED BY <1>6, <2>5
  <1>9. CASE p \notin {x} \cup Reach(g, x)
    <2>1. Stays(f, Reach(g, x)) /\ f[x] \in Reach(g, x) \cup {Null}
      BY <1>0, <1>7, <1>9, NodeFacts DEF Stays
    <2>2. Reach(f, x) \subseteq Reach(g, x)
      BY <1>7, <2>1, ReachLeast
    <2> QED BY <1>6, <2>2
  <1> QED BY <1>8, <1>9

(* Linking e in front of bucket b: the walk from b comes to e too, and no  *)
(* other walk changes.                                                     *)
LEMMA ReachPush ==
  ASSUME NEW f \in Pointers, NEW M, Chained(f, M),
         NEW b \in Bucket, b \in M, NEW e \in Elt, e \notin M,
         NEW g \in Pointers, g[b] = e, g[e] = f[b],
         \A y \in Node : y # b /\ y # e => g[y] = f[y]
  PROVE  /\ Reach(g, b) = {e} \cup Reach(f, b)
         /\ Reach(g, e) = Reach(f, b)
         /\ \A x \in M : x # b => Reach(g, x) = Reach(f, x)
  <1>0. /\ b \in Node /\ e \in Node /\ b # e /\ e # Null /\ b \notin Elt
    BY NodeFacts DEF Chained, Pointers
  <1>1. ASSUME NEW x \in M
        PROVE  x \in Node /\ \A y \in Reach(f, x) : g[y] = f[y]
    <2>1. x \in Node /\ Reach(f, x) \subseteq M /\ Reach(f, x) \subseteq Elt
      BY ReachInside, ReachStays DEF Chained
    <2> QED BY <1>0, <2>1, NodeFacts
  <1>2. Reach(g, e) = Reach(f, b)
    BY <1>0, <1>1, ReachFrame
  <1>3. Reach(g, b) = {e} \cup Reach(g, e)
    BY <1>0, ReachStep
  <1>4. ASSUME NEW x \in M, x # b PROVE Reach(g, x) = Reach(f, x)
    <2>1. g[x] = f[x]
      BY <1>0, <1>1, <1>4
    <2> QED BY <1>1, <2>1, ReachFrame
  <1> QED BY <1>2, <1>3, <1>4

----------------------------------------------------------------------------
(* The chains of the table. *)

(* What TypesOK and OnePointer say about the chains. *)
LEMMA ChainFacts ==
  ASSUME TypesOK
  PROVE  /\ nxt \in Pointers
         /\ Linked \subseteq Elt /\ Stem \subseteq Node
         /\ \A x \in Stem : nxt[x] \in Linked \cup {Null}
         /\ \A x \in Stem : Chain(x) \subseteq Linked
         /\ \A b \in Bucket : \A x \in {b} \cup Chain(b) :
              Chain(x) \subseteq Chain(b) /\ nxt[x] \in Chain(b) \cup {Null}
         /\ \A x \in Stem : nxt[x] = Null => Chain(x) = {}
         /\ \A x \in Stem : nxt[x] # Null =>
              nxt[x] \in Linked /\ Chain(x) = {nxt[x]} \cup Chain(nxt[x])
         /\ OnePointer => Chained(nxt, Stem)
  <1>1. nxt \in Pointers
    BY DEF TypesOK, Pointers
  <1>2. \A x \in Node : Chain(x) \subseteq Elt /\ Stays(nxt, Chain(x))
    BY <1>1, ReachStays DEF Chain
  <1>3. Linked \subseteq Elt /\ Stem \subseteq Node
    BY <1>2, NodeFacts DEF Linked, Stem
  <1>4. \A x \in Node : nxt[x] \in Chain(x) \cup {Null}
    BY <1>1, ReachStart DEF Chain
  <1>5. ASSUME NEW b \in Bucket, NEW x \in {b} \cup Chain(b)
        PROVE  Chain(x) \subseteq Chain(b) /\ nxt[x] \in Chain(b) \cup {Null}
    BY <1>1, <1>2, <1>4, NodeFacts, ReachBehind DEF Chain, Stays
  <1>6. ASSUME NEW x \in Stem
        PROVE  \E b \in Bucket : x \in {b} \cup Chain(b)
    BY DEF Stem, Linked
  <1>7. ASSUME NEW b \in Bucket PROVE Chain(b) \subseteq Linked
    BY DEF Linked
  <1>8. ASSUME NEW x \in Stem
        PROVE  /\ nxt[x] \in Linked \cup {Null} /\ Chain(x) \subseteq Linked
    BY <1>5, <1>6, <1>7
  <1>9. ASSUME NEW x \in Stem
        PROVE  nxt[x] = Null => Chain(x) = {}
    BY ReachEnd DEF Chain
  <1>10. ASSUME NEW x \in Stem, nxt[x] # Null
         PROVE  nxt[x] \in Linked /\ Chain(x) = {nxt[x]} \cup Chain(nxt[x])
    BY <1>1, <1>3, <1>8, <1>10, ReachStep DEF Chain
  <1>11. ASSUME OnePointer PROVE Chained(nxt, Stem)
    <2>1. \A x \in Stem : nxt[x] \in Stem \cup {Null}
      BY <1>8 DEF Stem
    <2> QED BY <1>3, <1>11, <2>1 DEF Chained, OnePointer
  <1> QED BY <1>1, <1>3, <1>5, <1>8, <1>9, <1>10, <1>11

(* No element is behind itself. *)
LEMMA NoCycle ==
  ASSUME TypesOK, OnePointer, NEW e \in Linked
  PROVE  e \notin Chain(e)
  <1>1. nxt \in Pointers /\ Chained(nxt, Stem)
    BY ChainFacts
  <1>2. PICK b \in Bucket : e \in Chain(b)
    BY DEF Linked
  <1> QED BY <1>1, <1>2, ReachNoCycle DEF Chain, Stem

----------------------------------------------------------------------------
(* Steps that leave the chains alone. *)

(* The other threads, their mutexes and what they can see are what they    *)
(* were.                                                                   *)
Steady(t) ==
  /\ nxt' = nxt
  /\ \A e \in Elt :
       mem[e] # "unused" => key'[e] = key[e] /\ mem'[e] = mem[e]
  /\ \A u \in Thread : u # t =>
       /\ th'[u] = th[u]
       /\ \A x \in Node : ptrmx[x] = u => ptrmx'[x] = u
       /\ \A e \in Elt : datamx[e] = u => datamx'[e] = u
       /\ \A b \in Bucket : uniqmx[b] = u => uniqmx'[b] = u

(* The chains after a step. *)
LEMMA NextChains ==
  ASSUME NEW g, nxt' = g
  PROVE  \A x : Chain(x)' = Reach(g, x)
  BY DEF Chain, Reach, Stays

(* The chains are what they were. *)
LEMMA SameChains ==
  ASSUME nxt' = nxt
  PROVE  (\A x : Chain(x)' = Chain(x)) /\ Linked' = Linked /\ Stem' = Stem
  BY DEF Chain, Linked, Stem, Reach, Stays

(* The table is in order afterwards. *)
LEMMA TableKeeps ==
  ASSUME HashtblInv, NEW t, Steady(t)
  PROVE  TableOK'
  <1>1. (\A x : Chain(x)' = Chain(x)) /\ Linked' = Linked /\ Stem' = Stem
    BY SameChains DEF Steady
  <1>2. Linked \subseteq Elt
    BY ChainFacts DEF HashtblInv
  <1>3. \A e \in Linked : key'[e] = key[e] /\ mem'[e] = mem[e]
    BY <1>2 DEF HashtblInv, TableOK, LinkedIsLive, Steady
  <1>4. OnePointer'
    BY <1>1 DEF HashtblInv, TableOK, OnePointer, Steady
  <1>5. LinkedIsLive'
    BY <1>1, <1>3 DEF HashtblInv, TableOK, LinkedIsLive
  <1>6. RightBucket'
    <2>1. \A b \in Bucket : Chain(b) \subseteq Linked
      BY DEF Linked
    <2> QED BY <1>1, <1>3, <2>1 DEF HashtblInv, TableOK, RightBucket
  <1>7. UniqueKeys'
    BY <1>1, <1>3 DEF HashtblInv, TableOK, UniqueKeys
  <1> QED BY <1>4, <1>5, <1>6, <1>7 DEF TableOK

(* What the local variables of a thread are. *)
LEMMA LocalFacts ==
  ASSUME TypesOK, NEW t \in Thread
  PROVE  /\ th[t].bkt \in Bucket /\ th[t].at \in Node
         /\ th[t].elt \in Elt \cup {Null} /\ th[t].want \in Key
         /\ th[t].seen \subseteq Elt /\ th[t].must \subseteq Elt
         /\ th[t].pc \in {"idle", "uniq", "enter", "walk", "dup", "undo",
                          "link", "hold", "uncount", "unlink"}
         /\ th[t].op \in {"none", "find", "add", "delete", "traverse"}
  BY DEF TypesOK, Local

(* What every other thread knows is true afterwards. *)
LEMMA OthersKeep ==
  ASSUME HashtblInv, NEW t, Steady(t),
         NEW u \in Thread, u # t
  PROVE  ThreadOK(u)'
  <1>1. (\A x : Chain(x)' = Chain(x)) /\ Linked' = Linked
    BY SameChains DEF Steady
  <1>2. /\ Linked \subseteq Elt
        /\ \A b \in Bucket : Chain(b) \subseteq Linked
    BY ChainFacts DEF HashtblInv, Linked
  <1>3. \A e \in Linked : key'[e] = key[e] /\ mem'[e] = mem[e]
    BY <1>2 DEF HashtblInv, TableOK, LinkedIsLive, Steady
  <1>4. th'[u] = th[u]
    BY DEF Steady
  <1>5. /\ th[u].bkt \in Bucket /\ th[u].at \in Node
        /\ th[u].elt \in Elt \cup {Null} /\ th[u].seen \subseteq Elt
    BY LocalFacts DEF HashtblInv
  <1>6. ThreadOK(u)
    BY DEF HashtblInv
  <1>7. OpOK(th[u])'
    BY <1>4, <1>6 DEF ThreadOK, OpOK
  <1>8. PendingOK(u)'
    BY <1>1, <1>4, <1>6 DEF ThreadOK, PendingOK, Pending, Steady
  <1>9. UniqOK(u)'
    BY <1>4, <1>5, <1>6 DEF ThreadOK, UniqOK, Steady
  <1>10. PtrOK(u)'
    BY <1>1, <1>4, <1>5, <1>6 DEF ThreadOK, PtrOK, Steady
  <1>11. DeleteOK(u)'
    BY <1>4, <1>5, <1>6 DEF ThreadOK, DeleteOK, Steady
  <1>12. HoldOK(u)'
    BY <1>1, <1>2, <1>4, <1>5, <1>6 DEF ThreadOK, HoldOK, Steady
  <1>13. DupOK(u)'
    BY <1>1, <1>2, <1>4, <1>6 DEF ThreadOK, DupOK, Steady
  <1>14. NotPassed(u)'
    BY <1>1, <1>2, <1>3, <1>4, <1>5, <1>6 DEF ThreadOK, NotPassed
  <1>15. Absent(u)'
    BY <1>1, <1>2, <1>3, <1>4, <1>5, <1>6 DEF ThreadOK, Absent
  <1>16. TraverseOK(u)'
    BY <1>1, <1>4, <1>6 DEF ThreadOK, TraverseOK, Place
  <1>17. SeenOK(u)'
    BY <1>4, <1>5, <1>6 DEF ThreadOK, SeenOK, Steady
  <1> QED BY <1>7, <1>8, <1>9, <1>10, <1>11, <1>12, <1>13, <1>14, <1>15,
             <1>16, <1>17 DEF ThreadOK

(* It is enough to look at the thread that takes the step. *)
LEMMA SteadyStep ==
  ASSUME HashtblInv, NEW t \in Thread, Steady(t),
         TypesOK', ThreadOK(t)', Fresh', CountExact'
  PROVE  HashtblInv'
  <1>1. TableOK'
    BY TableKeeps
  <1>2. \A u \in Thread : ThreadOK(u)'
    BY OthersKeep
  <1> QED BY <1>1, <1>2 DEF HashtblInv

(* A step that makes no element pending and reports only what is linked.   *)
LEMMA FreshKeeps ==
  ASSUME HashtblInv, NEW t \in Thread,
         \A u \in Thread : u # t => /\ th'[u].seen = th[u].seen
                                    /\ th'[u].pc = th[u].pc
                                    /\ th'[u].op = th[u].op
                                    /\ th'[u].elt = th[u].elt,
         th'[t].seen \subseteq th[t].seen \cup Linked,
         Pending(t)' => Pending(t) /\ th'[t].elt = th[t].elt
  PROVE  Fresh'
  <1>1. ASSUME NEW u \in Thread
        PROVE  /\ Pending(u)' => Pending(u) /\ th'[u].elt = th[u].elt
               /\ th'[u].seen \subseteq th[u].seen \cup Linked
    BY DEF Pending
  <1>2. ASSUME NEW u \in Thread, NEW v \in Thread, Pending(u)'
        PROVE  /\ th'[u].elt \notin th'[v].seen
               /\ Pending(v)' /\ th'[v].elt = th'[u].elt => v = u
    <2>1. Pending(u) /\ th'[u].elt = th[u].elt
      BY <1>1, <1>2
    <2>2. th[u].elt \notin Linked
      BY <2>1 DEF HashtblInv, ThreadOK, PendingOK
    <2>3. /\ th[u].elt \notin th[v].seen
          /\ Pending(v) /\ th[v].elt = th[u].elt => v = u
      BY <2>1 DEF HashtblInv, Fresh
    <2> QED BY <1>1, <2>1, <2>2, <2>3
  <1> QED BY <1>2 DEF Fresh

(* The threads that have counted an element that is not linked, and those  *)
(* that have uncounted one that still is.                                  *)
Adders == {t \in Thread : th[t].op = "add" /\ th[t].pc # "hold"}
Unlinkers == {t \in Thread : th[t].pc = "unlink"}

(* The sets that CountExact is about are finite. *)
LEMMA CountFacts ==
  ASSUME TypesOK
  PROVE  /\ IsFiniteSet(Linked) /\ Cardinality(Linked) \in Nat
         /\ IsFiniteSet(Adders) /\ Cardinality(Adders) \in Nat
         /\ IsFiniteSet(Unlinkers) /\ Cardinality(Unlinkers) \in Nat
         /\ CountExact <=> count = Cardinality(Linked) + Cardinality(Adders)
                                   - Cardinality(Unlinkers)
  <1>1. Linked \subseteq Elt
    BY ChainFacts
  <1>2. Adders \subseteq Thread /\ Unlinkers \subseteq Thread
    BY DEF Adders, Unlinkers
  <1>3. /\ IsFiniteSet(Linked) /\ IsFiniteSet(Adders)
        /\ IsFiniteSet(Unlinkers)
    BY <1>1, <1>2, HashtblAssumption, FS_Subset
  <1>4. /\ Cardinality(Linked) \in Nat /\ Cardinality(Adders) \in Nat
        /\ Cardinality(Unlinkers) \in Nat
    BY <1>3, FS_CardinalityType
  <1> QED BY <1>3, <1>4 DEF CountExact, Adders, Unlinkers

(* A step that does not change who counts. *)
LEMMA CountKeeps ==
  ASSUME HashtblInv, NEW t \in Thread,
         \A u \in Thread : u # t =>
           th'[u].pc = th[u].pc /\ th'[u].op = th[u].op,
         nxt' = nxt, count' = count,
         th'[t].op = "add" /\ th'[t].pc # "hold"
           <=> th[t].op = "add" /\ th[t].pc # "hold",
         th'[t].pc # "unlink", th[t].pc # "unlink"
  PROVE  CountExact'
  <1>1. Linked' = Linked
    BY SameChains
  <1>2. /\ {u \in Thread : th'[u].op = "add" /\ th'[u].pc # "hold"}
             = {u \in Thread : th[u].op = "add" /\ th[u].pc # "hold"}
        /\ {u \in Thread : th'[u].pc = "unlink"}
             = {u \in Thread : th[u].pc = "unlink"}
    OBVIOUS
  <1>3. CountExact
    BY DEF HashtblInv
  <1> QED BY <1>1, <1>2, <1>3 DEF CountExact

(* A step that leaves chains and counts alone. *)
LEMMA QuietStep ==
  ASSUME HashtblInv, NEW t \in Thread, Steady(t), TypesOK', ThreadOK(t)',
         count' = count,
         th'[t].seen \subseteq th[t].seen \cup Linked,
         Pending(t)' => Pending(t) /\ th'[t].elt = th[t].elt,
         th'[t].op = "add" /\ th'[t].pc # "hold"
           <=> th[t].op = "add" /\ th[t].pc # "hold",
         th'[t].pc # "unlink", th[t].pc # "unlink"
  PROVE  HashtblInv'
  <1>1. \A u \in Thread : u # t => th'[u] = th[u]
    BY DEF Steady
  <1>2. Fresh'
    BY <1>1, FreshKeeps
  <1>3. CountExact'
    BY <1>1, CountKeeps DEF Steady
  <1> QED BY <1>2, <1>3, SteadyStep

(* The local variables of a thread that does nothing. *)
LEMMA IdleFacts ==
  /\ Idle \in Local /\ AnyKey \in Key /\ 0 \in Bucket
  /\ Idle.pc = "idle" /\ Idle.op = "none" /\ Idle.seen = {}
  <1>1. AnyKey \in Key
    BY HashtblAssumption DEF AnyKey
  <1>2. 0 \in Bucket
    BY HashtblAssumption DEF Bucket
  <1> QED BY <1>1, <1>2 DEF Idle, Local, Node

(* A thread that does nothing knows nothing. *)
LEMMA IdleOK ==
  ASSUME NEW t \in Thread, th'[t] = Idle
  PROVE  ThreadOK(t)'
  BY DEF ThreadOK, OpOK, PendingOK, Pending, UniqOK, PtrOK, DeleteOK, HoldOK,
         DupOK, NotPassed, Absent, TraverseOK, SeenOK, Idle

(* hashtbl_find_element_bykey begins. *)
LEMMA BeginFindStep ==
  ASSUME HashtblInv, NEW t \in Thread, NEW k \in Key, BeginFind(t, k)
  PROVE  HashtblInv'
  <1> USE DEF HashtblInv
  <1>1. PICK l \in Local : l = [Idle EXCEPT !.pc = "enter", !.op = "find",
                                  !.want = k, !.bkt = HashOf[k]]
    <2>1. HashOf[k] \in Bucket
      BY HashtblAssumption
    <2> QED BY <2>1, IdleFacts DEF Local
  <1>2. th' = [th EXCEPT ![t] = l] /\ th'[t] = l
    BY <1>1 DEF BeginFind, Become, TypesOK
  <1>3. l.pc = "enter" /\ l.op = "find" /\ l.seen = {}
    BY <1>1 DEF Idle
  <1>4. TypesOK'
    BY <1>2, HashtblAssumption
       DEF TypesOK, BeginFind, Begin, table, mutexes
  <1>5. Steady(t)
    BY <1>2 DEF Steady, BeginFind, table, mutexes, TypesOK
  <1>6. ThreadOK(t)'
    BY <1>2, <1>3
       DEF ThreadOK, OpOK, PendingOK, Pending, UniqOK, PtrOK, DeleteOK,
           HoldOK, DupOK, NotPassed, Absent, TraverseOK, SeenOK
  <1>7. th[t].pc = "idle" /\ th[t].op = "none"
    BY DEF BeginFind, Begin, ThreadOK, OpOK
  <1> QED BY <1>2, <1>3, <1>4, <1>5, <1>6, <1>7, QuietStep
             DEF Pending, BeginFind, table

(* hashtbl_ts_traverse begins. *)
LEMMA BeginTraverseStep ==
  ASSUME HashtblInv, NEW t \in Thread, BeginTraverse(t)
  PROVE  HashtblInv'
  <1> USE DEF HashtblInv
  <1>0. Linked \subseteq Elt
    BY ChainFacts
  <1>1. PICK l \in Local : l = [Idle EXCEPT !.pc = "enter",
                                  !.op = "traverse", !.must = Linked]
    BY <1>0, IdleFacts DEF Local
  <1>2. th' = [th EXCEPT ![t] = l] /\ th'[t] = l
    BY <1>1 DEF BeginTraverse, Become, TypesOK
  <1>3. /\ l.pc = "enter" /\ l.op = "traverse" /\ l.seen = {}
        /\ l.must = Linked /\ l.bkt = 0
    BY <1>1 DEF Idle
  <1>4. TypesOK'
    BY <1>2, HashtblAssumption
       DEF TypesOK, BeginTraverse, Begin, table, mutexes
  <1>5. Steady(t)
    BY <1>2 DEF Steady, BeginTraverse, table, mutexes, TypesOK
  <1>6. ThreadOK(t)'
    <2>1. (\A x : Chain(x)' = Chain(x)) /\ Linked' = Linked
      BY SameChains DEF BeginTraverse, table
    <2>2. TraverseOK(t)'
      <3>1. \A b \in Bucket : ~ b < 0
        BY DEF Bucket
      <3> QED BY <1>2, <1>3, <2>1, <3>1 DEF TraverseOK, Place
    <2> QED BY <1>2, <1>3, <2>2
       DEF ThreadOK, OpOK, PendingOK, Pending, UniqOK, PtrOK, DeleteOK,
           HoldOK, DupOK, NotPassed, Absent, SeenOK
  <1>7. th[t].pc = "idle" /\ th[t].op = "none"
    BY DEF BeginTraverse, Begin, ThreadOK, OpOK
  <1> QED BY <1>2, <1>3, <1>4, <1>5, <1>6, <1>7, QuietStep
             DEF Pending, BeginTraverse, table

(* uniq_mutex is locked. *)
LEMMA LockUniqStep ==
  ASSUME HashtblInv, NEW t \in Thread, LockUniq(t)
  PROVE  HashtblInv'
  <1> USE DEF HashtblInv
  <1>0. th[t].pc = "uniq" /\ th[t].op = "add" /\ th[t].bkt \in Bucket
    BY LocalFacts DEF LockUniq, ThreadOK, OpOK
  <1>1. PICK l \in Local : l = [th[t] EXCEPT !.pc = "enter"]
    <2>1. th[t] \in Local
      BY DEF TypesOK
    <2>2. [th[t] EXCEPT !.pc = "enter"] \in Local
      BY <2>1 DEF Local
    <2> QED BY <2>2
  <1>2. th' = [th EXCEPT ![t] = l] /\ th'[t] = l
    BY <1>1 DEF LockUniq, Become, TypesOK
  <1>3. /\ l.pc = "enter" /\ l.op = "add" /\ l.seen = th[t].seen
        /\ l.elt = th[t].elt /\ l.bkt = th[t].bkt /\ l.want = th[t].want
    BY <1>0, <1>1 DEF TypesOK, Local
  <1>4. TypesOK'
    BY <1>0, <1>2 DEF TypesOK, LockUniq, table
  <1>5. Steady(t)
    BY <1>0, <1>2, HashtblAssumption DEF Steady, LockUniq, table, TypesOK
  <1>6. ThreadOK(t)'
    <2>1. (\A x : Chain(x)' = Chain(x)) /\ Linked' = Linked
      BY SameChains DEF LockUniq, table
    <2>2. PendingOK(t)'
      BY <1>0, <1>2, <1>3, <2>1
         DEF ThreadOK, PendingOK, Pending, LockUniq, table
    <2>3. UniqOK(t)'
      BY <1>0, <1>2, <1>3 DEF UniqOK, LockUniq, TypesOK
    <2>4. SeenOK(t)'
      BY <1>2, <1>3 DEF ThreadOK, SeenOK, LockUniq, table
    <2> QED BY <1>2, <1>3, <2>2, <2>3, <2>4
       DEF ThreadOK, OpOK, PtrOK, DeleteOK,
           HoldOK, DupOK, NotPassed, Absent, TraverseOK
  <1> QED BY <1>0, <1>2, <1>3, <1>4, <1>5, <1>6, QuietStep
             DEF Pending, LockUniq, table

(* The pointer of a bucket is locked. *)
LEMMA EnterStep ==
  ASSUME HashtblInv, NEW t \in Thread, Enter(t)
  PROVE  HashtblInv'
  <1> USE DEF HashtblInv
  <1>0. /\ th[t].pc = "enter" /\ th[t].op # "none" /\ th[t].bkt \in Bucket
        /\ th[t].bkt \in Node
    BY LocalFacts, NodeFacts DEF Enter, ThreadOK, OpOK
  <1>1. PICK l \in Local : l = [th[t] EXCEPT !.pc = "walk",
                                               !.at = th[t].bkt]
    <2>1. th[t] \in Local
      BY DEF TypesOK
    <2>2. [th[t] EXCEPT !.pc = "walk", !.at = th[t].bkt] \in Local
      BY <1>0, <2>1 DEF Local
    <2> QED BY <2>2
  <1>2. th' = [th EXCEPT ![t] = l] /\ th'[t] = l
    BY <1>1 DEF Enter, Become, TypesOK
  <1>3. /\ l.pc = "walk" /\ l.op = th[t].op /\ l.seen = th[t].seen
        /\ l.elt = th[t].elt /\ l.bkt = th[t].bkt /\ l.want = th[t].want
        /\ l.at = th[t].bkt /\ l.must = th[t].must
    BY <1>0, <1>1 DEF TypesOK, Local
  <1>4. TypesOK'
    BY <1>0, <1>2 DEF TypesOK, Enter, table
  <1>5. Steady(t)
    BY <1>0, <1>2, HashtblAssumption DEF Steady, Enter, table, TypesOK
  <1>6. ThreadOK(t)'
    <2>1. (\A x : Chain(x)' = Chain(x)) /\ Linked' = Linked
      BY SameChains DEF Enter, table
    <2>2. PendingOK(t)'
      BY <1>0, <1>2, <1>3, <2>1
         DEF ThreadOK, PendingOK, Pending, Enter, table
    <2>3. UniqOK(t)'
      BY <1>0, <1>2, <1>3 DEF ThreadOK, UniqOK, Enter, TypesOK
    <2>4. SeenOK(t)'
      BY <1>2, <1>3 DEF ThreadOK, SeenOK, Enter, table
    <2>5. PtrOK(t)'
      BY <1>0, <1>2, <1>3 DEF PtrOK, Enter, TypesOK
    <2>6. NotPassed(t)'
      BY <1>2, <1>3 DEF NotPassed
    <2>7. TraverseOK(t)'
      BY <1>0, <1>2, <1>3, <2>1 DEF ThreadOK, TraverseOK, Place
    <2> QED BY <1>0, <1>2, <1>3, <2>2, <2>3, <2>4, <2>5, <2>6, <2>7
       DEF ThreadOK, OpOK, DeleteOK, HoldOK, DupOK, Absent
  <1> QED BY <1>0, <1>2, <1>3, <1>4, <1>5, <1>6, QuietStep
             DEF Pending, Enter, table

(* What a thread that walks knows about the element it looks at. *)
LEMMA WalkFacts ==
  ASSUME HashtblInv, NEW t \in Thread, th[t].pc = "walk"
  PROVE  /\ th[t].op # "none" /\ th[t].bkt \in Bucket
         /\ th[t].at \in Stem /\ th[t].at \in Node /\ ptrmx[th[t].at] = t
         /\ Chain(th[t].bkt) \subseteq Linked
         /\ nxt[th[t].at] = Null => Chain(th[t].at) = {}
         /\ nxt[th[t].at] # Null =>
              /\ nxt[th[t].at] \in Chain(th[t].bkt)
              /\ nxt[th[t].at] \in Linked /\ nxt[th[t].at] \in Elt
              /\ nxt[th[t].at] \in Node
              /\ Chain(th[t].at)
                   = {nxt[th[t].at]} \cup Chain(nxt[th[t].at])
  <1>1. /\ th[t].at \in {th[t].bkt} \cup Chain(th[t].bkt)
        /\ ptrmx[th[t].at] = t /\ th[t].op # "none"
    BY DEF HashtblInv, ThreadOK, PtrOK, OpOK
  <1>2. th[t].bkt \in Bucket
    BY LocalFacts DEF HashtblInv
  <1>3. Chain(th[t].bkt) \subseteq Linked /\ th[t].at \in Stem
    BY <1>1, <1>2 DEF Linked, Stem
  <1>4. nxt[th[t].at] \in Chain(th[t].bkt) \cup {Null}
    BY <1>1, <1>2, ChainFacts DEF HashtblInv
  <1>5. th[t].at \in Node
    BY <1>3, ChainFacts DEF HashtblInv
  <1>6. nxt[th[t].at] = Null => Chain(th[t].at) = {}
    BY <1>3, ChainFacts DEF HashtblInv
  <1>7. nxt[th[t].at] # Null =>
          Chain(th[t].at) = {nxt[th[t].at]} \cup Chain(nxt[th[t].at])
    BY <1>3, ChainFacts DEF HashtblInv
  <1>8. Linked \subseteq Elt /\ Elt \subseteq Node
    BY ChainFacts, NodeFacts DEF HashtblInv
  <1> QED BY <1>1, <1>2, <1>3, <1>4, <1>5, <1>6, <1>7, <1>8

(* The walk moves on to an element that does not match. *)
LEMMA AdvanceStep ==
  ASSUME HashtblInv, NEW t \in Thread, Advance(t)
  PROVE  HashtblInv'
  <1> USE DEF HashtblInv
  <1>a. PICK n : n = nxt[th[t].at]
    OBVIOUS
  <1>b. PICK a : a = th[t].at
    OBVIOUS
  <1>c. /\ th[t].pc = "walk" /\ n # Null /\ ~ Matches(t, n)
        /\ ptrmx[n] = Null
        /\ ptrmx' = [ptrmx EXCEPT ![n] = t, ![a] = Null]
        /\ th' = [th EXCEPT ![t] = [th[t] EXCEPT !.at = n]]
        /\ UNCHANGED <<nxt, key, mem, count, datamx, uniqmx, doomed, left>>
    BY <1>a, <1>b DEF Advance, Become, table
  <1>0. /\ th[t].op # "none" /\ th[t].bkt \in Bucket
        /\ a \in Node /\ ptrmx[a] = t
        /\ n \in Chain(th[t].bkt) /\ n \in Node
        /\ Chain(a) = {n} \cup Chain(n)
    BY <1>a, <1>b, <1>c, WalkFacts
  <1>d. n # a /\ t # Null
    BY <1>0, <1>c, HashtblAssumption
  <1>1. PICK l \in Local : l = [th[t] EXCEPT !.at = n]
    <2>1. th[t] \in Local
      BY DEF TypesOK
    <2>2. [th[t] EXCEPT !.at = n] \in Local
      BY <1>0, <2>1 DEF Local
    <2> QED BY <2>2
  <1>2. th' = [th EXCEPT ![t] = l] /\ th'[t] = l
    BY <1>1, <1>c DEF TypesOK
  <1>3. /\ l.pc = "walk" /\ l.op = th[t].op /\ l.seen = th[t].seen
        /\ l.elt = th[t].elt /\ l.bkt = th[t].bkt /\ l.want = th[t].want
        /\ l.at = n /\ l.must = th[t].must
    BY <1>c, <1>1 DEF TypesOK, Local
  <1>4. TypesOK'
    <2>1. ptrmx' \in [Node -> Thread \cup {Null}]
      BY <1>c DEF TypesOK
    <2>2. th' \in [Thread -> Local]
      BY <1>2 DEF TypesOK
    <2> QED BY <1>c, <2>1, <2>2 DEF TypesOK
  <1>e. /\ ptrmx'[n] = t
        /\ \A x \in Node : x # n /\ x # a => ptrmx'[x] = ptrmx[x]
    BY <1>c, <1>d, <1>0 DEF TypesOK
  <1>5. Steady(t)
    BY <1>c, <1>0, <1>e, <1>2, HashtblAssumption DEF Steady, TypesOK
  <1>6. ThreadOK(t)'
    <2>1. (\A x : Chain(x)' = Chain(x)) /\ Linked' = Linked
      BY <1>c, SameChains
    <2>2. PendingOK(t)'
      BY <1>c, <1>2, <1>3, <2>1 DEF ThreadOK, PendingOK, Pending
    <2>3. UniqOK(t)'
      BY <1>c, <1>2, <1>3 DEF ThreadOK, UniqOK
    <2>4. SeenOK(t)'
      BY <1>c, <1>2, <1>3 DEF ThreadOK, SeenOK
    <2>5. PtrOK(t)'
      BY <1>0, <1>2, <1>3, <1>e, <2>1 DEF PtrOK
    <2>6. NotPassed(t)'
      <3>1. th[t].op = "add" => key[n] # th[t].want
        BY <1>c DEF Matches
      <3>2. th[t].op = "add" =>
              \A e \in Chain(th[t].bkt) :
                key[e] = th[t].want => e \in Chain(a)
        BY <1>b, <1>c DEF ThreadOK, NotPassed
      <3> QED BY <1>c, <1>0, <1>2, <1>3, <2>1, <3>1, <3>2 DEF NotPassed
    <2>7. TraverseOK(t)'
      <3>1. th[t].op # "traverse"
        BY <1>c DEF Matches
      <3> QED BY <1>2, <1>3, <3>1 DEF TraverseOK
    <2> QED BY <1>0, <1>2, <1>3, <2>2, <2>3, <2>4, <2>5, <2>6, <2>7
       DEF ThreadOK, OpOK, DeleteOK, HoldOK, DupOK, Absent
  <1> QED BY <1>c, <1>2, <1>3, <1>4, <1>5, <1>6, QuietStep DEF Pending

(* The element that matches is locked. *)
LEMMA FoundStep ==
  ASSUME HashtblInv, NEW t \in Thread, Found(t)
  PROVE  HashtblInv'
  <1> USE DEF HashtblInv
  <1>a. PICK n : n = nxt[th[t].at]
    OBVIOUS
  <1>b. PICK a : a = th[t].at
    OBVIOUS
  <1>c. /\ th[t].pc = "walk" /\ n # Null /\ Matches(t, n)
        /\ datamx[n] = Null
        /\ datamx' = [datamx EXCEPT ![n] = t]
        /\ ptrmx' = IF th[t].op = "delete" THEN ptrmx
                    ELSE [ptrmx EXCEPT ![a] = Null]
        /\ UNCHANGED <<nxt, key, mem, count, uniqmx, doomed, left>>
    BY <1>a, <1>b DEF Found, table
  <1>0. /\ th[t].op # "none" /\ th[t].bkt \in Bucket
        /\ a \in Node /\ ptrmx[a] = t
        /\ n \in Chain(th[t].bkt) /\ n \in Linked /\ n \in Elt
        /\ Chain(a) = {n} \cup Chain(n)
        /\ n \notin Chain(n)
    <2>1. Chain(th[t].bkt) \subseteq Linked
      BY <1>c, WalkFacts
    <2>2. n \notin Chain(n)
      BY <1>a, <1>b, <1>c, WalkFacts, NoCycle DEF TableOK
    <2> QED BY <1>a, <1>b, <1>c, <2>2, WalkFacts
  <1>d. t # Null /\ th[t].op \in {"find", "add", "delete", "traverse"}
    BY <1>0, LocalFacts, HashtblAssumption
  <1>1. PICK l \in Local :
          /\ th' = [th EXCEPT ![t] = l]
          /\ l.op = th[t].op /\ l.bkt = th[t].bkt /\ l.at = a
          /\ l.want = th[t].want /\ l.must = th[t].must
          /\ l.pc = CASE th[t].op = "delete" -> "uncount"
                      [] th[t].op = "add" -> "dup" [] OTHER -> "hold"
          /\ l.elt = IF th[t].op \in {"delete", "add"} THEN th[t].elt ELSE n
          /\ l.seen = IF th[t].op = "traverse" THEN th[t].seen \cup {n}
                      ELSE th[t].seen
    <2>0. th[t] \in Local /\ n \in Elt
      BY <1>0 DEF TypesOK
    <2>1. CASE th[t].op = "delete"
      <3>1. th' = [th EXCEPT ![t] = [th[t] EXCEPT !.pc = "uncount"]]
        BY <2>1 DEF Found, Become
      <3>2. [th[t] EXCEPT !.pc = "uncount"] \in Local
        BY <2>0 DEF Local
      <3> WITNESS [th[t] EXCEPT !.pc = "uncount"] \in Local
      <3> QED BY <1>b, <2>0, <2>1, <3>1 DEF Local
    <2>2. CASE th[t].op = "add"
      <3>1. th' = [th EXCEPT ![t] = [th[t] EXCEPT !.pc = "dup"]]
        BY <2>2 DEF Found, Become
      <3>2. [th[t] EXCEPT !.pc = "dup"] \in Local
        BY <2>0 DEF Local
      <3> WITNESS [th[t] EXCEPT !.pc = "dup"] \in Local
      <3> QED BY <1>b, <2>0, <2>2, <3>1 DEF Local
    <2>3. CASE th[t].op = "find"
      <3>1. th' = [th EXCEPT ![t] = [th[t] EXCEPT !.pc = "hold",
                                                  !.elt = n]]
        BY <1>a, <2>3 DEF Found, Become
      <3>2. [th[t] EXCEPT !.pc = "hold", !.elt = n] \in Local
        BY <2>0 DEF Local
      <3> WITNESS [th[t] EXCEPT !.pc = "hold", !.elt = n] \in Local
      <3> QED BY <1>b, <2>0, <2>3, <3>1 DEF Local
    <2>4. CASE th[t].op = "traverse"
      <3>1. th' = [th EXCEPT ![t] =
                     [th[t] EXCEPT !.pc = "hold", !.elt = n,
                                   !.seen = th[t].seen \cup {n}]]
        BY <1>a, <2>4 DEF Found, Become
      <3>2. [th[t] EXCEPT !.pc = "hold", !.elt = n,
                              !.seen = th[t].seen \cup {n}] \in Local
        BY <2>0 DEF Local
      <3> WITNESS [th[t] EXCEPT !.pc = "hold", !.elt = n,
                                !.seen = th[t].seen \cup {n}] \in Local
      <3> QED BY <1>b, <2>0, <2>4, <3>1 DEF Local
    <2> QED BY <1>d, <2>1, <2>2, <2>3, <2>4
  <1>2. th'[t] = l /\ th[t] \in Local
    BY <1>1 DEF TypesOK
  <1>4. TypesOK'
    <2>1. ptrmx' \in [Node -> Thread \cup {Null}]
      BY <1>c DEF TypesOK
    <2>2. th' \in [Thread -> Local]
      BY <1>1 DEF TypesOK
    <2>3. datamx' \in [Elt -> Thread \cup {Null}]
      BY <1>c DEF TypesOK
    <2> QED BY <1>c, <2>1, <2>2, <2>3 DEF TypesOK
  <1>e. datamx'[n] = t /\ \A e \in Elt : e # n => datamx'[e] = datamx[e]
    BY <1>c, <1>0 DEF TypesOK
  <1>f. \A x \in Node : x # a => ptrmx'[x] = ptrmx[x]
    BY <1>c, <1>0 DEF TypesOK
  <1>5. Steady(t)
    BY <1>c, <1>0, <1>e, <1>f, <1>1, HashtblAssumption DEF Steady, TypesOK
  <1>g. (\A x : Chain(x)' = Chain(x)) /\ Linked' = Linked
    BY <1>c, SameChains
  <1>6. ThreadOK(t)'
    <2>1. OpOK(th[t])'
      BY <1>1, <1>2, <1>d DEF OpOK
    <2>2. PendingOK(t)'
      BY <1>1, <1>2 DEF PendingOK, Pending
    <2>3. UniqOK(t)'
      BY <1>c, <1>1, <1>2 DEF ThreadOK, UniqOK
    <2>4. SeenOK(t)'
      <3>1. mem[n] # "unused"
        BY <1>0 DEF TableOK, LinkedIsLive
      <3> QED BY <1>c, <1>1, <1>2, <3>1 DEF ThreadOK, SeenOK
    <2>5. PtrOK(t)'
      BY <1>b, <1>c, <1>1, <1>2, <1>d, <1>g DEF ThreadOK, PtrOK
    <2>6. DeleteOK(t)'
      <3>1. th[t].op = "delete" => n = th[t].elt
        BY <1>c DEF Matches
      <3> QED BY <1>a, <1>b, <1>c, <1>0, <1>1, <1>2, <1>d, <1>e, <3>1
                 DEF DeleteOK
    <2>7. HoldOK(t)'
      BY <1>0, <1>1, <1>2, <1>d, <1>e, <1>g DEF HoldOK
    <2>8. DupOK(t)'
      BY <1>0, <1>e, <1>g DEF DupOK
    <2>9. TraverseOK(t)'
      <3>1. CASE th[t].op = "traverse"
        <4>1. Place(th[t]) = a /\ Place(l) = n
          BY <1>b, <1>c, <1>1, <3>1 DEF Place
        <4>2. /\ th[t].must \subseteq Linked
              /\ \A b \in Bucket :
                   b > th[t].bkt => Chain(b) \cap th[t].seen = {}
              /\ \A b \in Bucket :
                   b < th[t].bkt =>
                     th[t].must \cap Chain(b) \subseteq th[t].seen
              /\ Chain(a) \cap th[t].seen = {}
              /\ th[t].must \cap Chain(th[t].bkt)
                   \subseteq th[t].seen \cup Chain(a)
          BY <3>1, <4>1 DEF ThreadOK, TraverseOK
        <4>3. \A b \in Bucket : b # th[t].bkt => n \notin Chain(b)
          BY <1>0 DEF TableOK, RightBucket
        <4>4. /\ l.seen = th[t].seen \cup {n} /\ l.must = th[t].must
              /\ l.bkt = th[t].bkt
          BY <1>1, <3>1
        <4>5. \A b \in Bucket : b > l.bkt => Chain(b) \cap l.seen = {}
          <5>1. \A b \in Bucket : b > th[t].bkt => b # th[t].bkt
            BY <1>0 DEF Bucket
          <5> QED BY <4>2, <4>3, <4>4, <5>1
        <4>6. \A b \in Bucket :
                 b < l.bkt => l.must \cap Chain(b) \subseteq l.seen
          BY <4>2, <4>4
        <4>7. Chain(n) \cap l.seen = {}
          BY <1>0, <4>2, <4>4
        <4>8. l.must \cap Chain(l.bkt) \subseteq l.seen \cup Chain(n)
          BY <1>0, <4>2, <4>4
        <4> QED BY <1>2, <1>g, <4>1, <4>2, <4>4, <4>5, <4>6, <4>7, <4>8
                   DEF TraverseOK
      <3>2. CASE th[t].op # "traverse"
        BY <1>1, <1>2, <3>2 DEF TraverseOK
      <3> QED BY <3>1, <3>2
    <2>10. NotPassed(t)' /\ Absent(t)'
      BY <1>1, <1>2 DEF NotPassed, Absent
    <2> QED BY <2>1, <2>2, <2>3, <2>4, <2>5, <2>6, <2>7, <2>8, <2>9, <2>10
       DEF ThreadOK
  <1>7. /\ l.seen \subseteq th[t].seen \cup Linked
        /\ ~ Pending(t)'
        /\ l.pc # "unlink"
        /\ l.op = "add" /\ l.pc # "hold"
             <=> th[t].op = "add" /\ th[t].pc # "hold"
    BY <1>c, <1>0, <1>1, <1>2, <1>d DEF Pending
  <1> QED BY <1>c, <1>2, <1>4, <1>5, <1>6, <1>7, QuietStep

(* The end of a bucket. *)
LEMMA MissedStep ==
  ASSUME HashtblInv, NEW t \in Thread, Missed(t)
  PROVE  HashtblInv'
  <1> USE DEF HashtblInv
  <1>a. PICK a : a = th[t].at
    OBVIOUS
  <1>b. /\ th[t].pc = "walk" /\ nxt[a] = Null
        /\ ptrmx' = [ptrmx EXCEPT ![a] = Null]
        /\ UNCHANGED <<nxt, key, mem, count, datamx, uniqmx, doomed, left>>
    BY <1>a DEF Missed, table
  <1>0. /\ th[t].op # "none" /\ th[t].bkt \in Bucket
        /\ a \in Node /\ ptrmx[a] = t /\ Chain(a) = {}
    BY <1>a, <1>b, WalkFacts
  <1>c. t # Null /\ th[t] \in Local
        /\ th[t].op \in {"find", "add", "delete", "traverse"}
    BY <1>0, LocalFacts, HashtblAssumption DEF TypesOK
  <1>1. ASSUME NEW l \in Local, th' = [th EXCEPT ![t] = l]
        PROVE  th'[t] = l /\ TypesOK' /\ Steady(t)
    <2>1. th'[t] = l
      BY <1>1 DEF TypesOK
    <2>2. ptrmx' \in [Node -> Thread \cup {Null}]
      BY <1>b DEF TypesOK
    <2>3. th' \in [Thread -> Local]
      BY <1>1 DEF TypesOK
    <2>4. \A x \in Node : x # a => ptrmx'[x] = ptrmx[x]
      BY <1>b DEF TypesOK
    <2>5. TypesOK'
      BY <1>b, <2>2, <2>3 DEF TypesOK
    <2>6. Steady(t)
      BY <1>b, <1>0, <1>1, <2>4 DEF Steady, TypesOK
    <2> QED BY <2>1, <2>5, <2>6
  <1>2. (\A x : Chain(x)' = Chain(x)) /\ Linked' = Linked
    BY <1>b, SameChains
  <1>3. CASE th[t].op = "add"
    <2>1. th' = [th EXCEPT ![t] = [th[t] EXCEPT !.pc = "link"]]
      BY <1>3 DEF Missed, Become
    <2>2. [th[t] EXCEPT !.pc = "link"] \in Local
      BY <1>c DEF Local
    <2>3. PICK l \in Local : /\ l = [th[t] EXCEPT !.pc = "link"]
                             /\ th' = [th EXCEPT ![t] = l]
      BY <2>1, <2>2
    <2>4. th'[t] = l /\ TypesOK' /\ Steady(t)
      BY <1>1, <2>3
    <2>5. /\ l.pc = "link" /\ l.op = "add" /\ l.seen = th[t].seen
          /\ l.elt = th[t].elt /\ l.bkt = th[t].bkt /\ l.want = th[t].want
      BY <1>3, <1>c, <2>3 DEF Local
    <2>6. PendingOK(t)'
      BY <1>2, <1>3, <1>b, <2>4, <2>5 DEF ThreadOK, PendingOK, Pending
    <2>7. UniqOK(t)'
      BY <1>3, <1>b, <2>4, <2>5 DEF ThreadOK, UniqOK
    <2>8. Absent(t)'
      BY <1>0, <1>2, <1>3, <1>a, <1>b, <2>4, <2>5
         DEF ThreadOK, NotPassed, Absent
    <2>9. SeenOK(t)'
      BY <1>b, <2>4, <2>5 DEF ThreadOK, SeenOK
    <2>10. ThreadOK(t)'
      BY <2>4, <2>5, <2>6, <2>7, <2>8, <2>9
         DEF ThreadOK, OpOK, PtrOK, DeleteOK, HoldOK, DupOK, NotPassed,
             TraverseOK
    <2> QED BY <1>3, <1>b, <2>4, <2>5, <2>10, QuietStep DEF Pending
  <1>4. CASE th[t].op = "traverse" /\ th[t].bkt + 1 \in Bucket
    <2>1. th' = [th EXCEPT ![t] = [th[t] EXCEPT !.pc = "enter",
                                                !.bkt = th[t].bkt + 1]]
      BY <1>4 DEF Missed, Become
    <2>2. [th[t] EXCEPT !.pc = "enter", !.bkt = th[t].bkt + 1] \in Local
      BY <1>4, <1>c DEF Local
    <2>3. PICK l \in Local :
            /\ l = [th[t] EXCEPT !.pc = "enter", !.bkt = th[t].bkt + 1]
            /\ th' = [th EXCEPT ![t] = l]
      BY <2>1, <2>2
    <2>4. th'[t] = l /\ TypesOK' /\ Steady(t)
      BY <1>1, <2>3
    <2>5. /\ l.pc = "enter" /\ l.op = "traverse" /\ l.seen = th[t].seen
          /\ l.must = th[t].must /\ l.bkt = th[t].bkt + 1
      BY <1>4, <1>c, <2>3 DEF Local
    <2>6. TraverseOK(t)'
      <3>1. Place(th[t]) = a /\ Place(l) = l.bkt
        BY <1>a, <1>b, <2>5 DEF Place
      <3>2. /\ th[t].must \subseteq Linked
            /\ \A b \in Bucket :
                 b > th[t].bkt => Chain(b) \cap th[t].seen = {}
            /\ \A b \in Bucket :
                 b < th[t].bkt =>
                   th[t].must \cap Chain(b) \subseteq th[t].seen
            /\ th[t].must \cap Chain(th[t].bkt)
                 \subseteq th[t].seen \cup Chain(a)
        BY <1>4, <3>1 DEF ThreadOK, TraverseOK
      <3>3. /\ \A b \in Bucket : b > l.bkt => b > th[t].bkt
            /\ l.bkt > th[t].bkt /\ l.bkt \in Bucket
            /\ \A b \in Bucket :
                 b < l.bkt => b < th[t].bkt \/ b = th[t].bkt
        BY <1>0, <1>4, <2>5 DEF Bucket
      <3>4. \A b \in Bucket : b > l.bkt => Chain(b) \cap l.seen = {}
        BY <2>5, <3>2, <3>3
      <3>5. \A b \in Bucket :
              b < l.bkt => l.must \cap Chain(b) \subseteq l.seen
        BY <1>0, <2>5, <3>2, <3>3
      <3>6. Chain(l.bkt) \cap l.seen = {}
        BY <2>5, <3>2, <3>3
      <3> QED BY <1>2, <2>4, <2>5, <3>1, <3>2, <3>4, <3>5, <3>6
                 DEF TraverseOK
    <2>7. SeenOK(t)'
      BY <1>b, <2>4, <2>5 DEF ThreadOK, SeenOK
    <2>8. ThreadOK(t)'
      BY <2>4, <2>5, <2>6, <2>7
         DEF ThreadOK, OpOK, PendingOK, Pending, UniqOK, PtrOK, DeleteOK,
             HoldOK, DupOK, NotPassed, Absent
    <2> QED BY <1>4, <1>b, <2>4, <2>5, <2>8, QuietStep DEF Pending
  <1>5. CASE th[t].op # "add" /\ ~(th[t].op = "traverse"
                                   /\ th[t].bkt + 1 \in Bucket)
    <2>1. th' = [th EXCEPT ![t] = Idle]
      BY <1>5 DEF Missed, Become
    <2>2. th'[t] = Idle /\ TypesOK' /\ Steady(t)
      BY <1>1, <2>1, IdleFacts
    <2>3. ThreadOK(t)'
      BY <2>2, IdleOK
    <2> QED BY <1>5, <1>b, <2>2, <2>3, IdleFacts, QuietStep DEF Pending
  <1> QED BY <1>3, <1>4, <1>5

(* A thread that becomes idle and gives up data mutexes of its own. *)
LEMMA LeaveStep ==
  ASSUME HashtblInv, NEW t \in Thread, th[t].pc = "hold",
         datamx' = [datamx EXCEPT ![th[t].elt] = Null],
         th' = [th EXCEPT ![t] = Idle],
         UNCHANGED <<nxt, key, mem, count, ptrmx, uniqmx, doomed, left>>
  PROVE  HashtblInv'
  <1> USE DEF HashtblInv
  <1>1. datamx[th[t].elt] = t /\ t # Null
    BY HashtblAssumption DEF ThreadOK, HoldOK
  <1>2. th'[t] = Idle
    BY DEF TypesOK
  <1>3. TypesOK'
    BY IdleFacts DEF TypesOK
  <1>4. Steady(t)
    BY <1>1 DEF Steady, TypesOK
  <1>5. ThreadOK(t)'
    BY <1>2, IdleOK
  <1> QED BY <1>2, <1>3, <1>4, <1>5, IdleFacts, QuietStep DEF Pending

(* hashtbl_unlock_element_byptr *)
LEMMA ReleaseStep ==
  ASSUME HashtblInv, NEW t \in Thread, Release(t)
  PROVE  HashtblInv'
  BY LeaveStep DEF Release, Become, table

(* hashtbl_delete_element_byptr begins. *)
LEMMA ReleaseAndDeleteStep ==
  ASSUME HashtblInv, NEW t \in Thread, ReleaseAndDelete(t)
  PROVE  HashtblInv'
  <1> USE DEF HashtblInv
  <1>a. PICK e : e = th[t].elt
    OBVIOUS
  <1>b. /\ th[t].pc = "hold" /\ th[t].op \in {"find", "add"}
        /\ doomed' = doomed \cup {e}
        /\ datamx' = [datamx EXCEPT ![e] = Null]
        /\ th' = [th EXCEPT ![t] =
                    [Idle EXCEPT !.pc = "enter", !.op = "delete", !.elt = e,
                                 !.bkt = HashOf[key[e]]]]
        /\ UNCHANGED <<nxt, key, mem, count, ptrmx, uniqmx, left>>
    BY <1>a DEF ReleaseAndDelete, Become, table
  <1>c. e \in Elt /\ datamx[e] = t /\ t # Null
    <2>1. th[t].bkt \in Bucket
      BY LocalFacts
    <2>2. Chain(th[t].bkt) \subseteq Elt
      BY <2>1, ChainFacts DEF Linked
    <2> QED BY <1>a, <1>b, <2>2, HashtblAssumption DEF ThreadOK, HoldOK
  <1>d. HashOf[key[e]] \in Bucket
    BY <1>c, HashtblAssumption DEF TypesOK
  <1>e. [Idle EXCEPT !.pc = "enter", !.op = "delete", !.elt = e,
                     !.bkt = HashOf[key[e]]] \in Local
    BY <1>c, <1>d, IdleFacts DEF Local
  <1>1. PICK l \in Local :
          /\ l = [Idle EXCEPT !.pc = "enter", !.op = "delete", !.elt = e,
                              !.bkt = HashOf[key[e]]]
          /\ th' = [th EXCEPT ![t] = l]
    BY <1>b, <1>e
  <1>2. th'[t] = l
    BY <1>1 DEF TypesOK
  <1>3. l.pc = "enter" /\ l.op = "delete" /\ l.seen = {}
    BY <1>1 DEF Idle
  <1>4. TypesOK'
    BY <1>1, <1>b, <1>c DEF TypesOK
  <1>5. Steady(t)
    BY <1>1, <1>b, <1>c DEF Steady, TypesOK
  <1>6. ThreadOK(t)'
    BY <1>2, <1>3
       DEF ThreadOK, OpOK, PendingOK, Pending, UniqOK, PtrOK, DeleteOK,
           HoldOK, DupOK, NotPassed, Absent, TraverseOK, SeenOK
  <1> QED BY <1>b, <1>2, <1>3, <1>4, <1>5, <1>6, QuietStep DEF Pending

(* hashtbl_next_element_byptr *)
LEMMA NextElementStep ==
  ASSUME HashtblInv, NEW t \in Thread, NextElement(t)
  PROVE  HashtblInv'
  <1> USE DEF HashtblInv
  <1>a. PICK e : e = th[t].elt
    OBVIOUS
  <1>b. /\ th[t].pc = "hold" /\ th[t].op = "traverse" /\ ptrmx[e] = Null
        /\ ptrmx' = [ptrmx EXCEPT ![e] = t]
        /\ datamx' = [datamx EXCEPT ![e] = Null]
        /\ th' = [th EXCEPT ![t] = [th[t] EXCEPT !.pc = "walk", !.at = e]]
        /\ UNCHANGED <<nxt, key, mem, count, doomed, uniqmx, left>>
    BY <1>a DEF NextElement, Become, table
  <1>0. th[t].bkt \in Bucket /\ th[t] \in Local
    BY LocalFacts DEF TypesOK
  <1>c. /\ e \in Chain(th[t].bkt) /\ e \in Elt /\ e \in Node
        /\ datamx[e] = t /\ t # Null
    <2>2. Chain(th[t].bkt) \subseteq Elt
      BY <1>0, ChainFacts DEF Linked
    <2> QED BY <1>a, <1>b, <2>2, HashtblAssumption, NodeFacts
               DEF ThreadOK, HoldOK
  <1>d. [th[t] EXCEPT !.pc = "walk", !.at = e] \in Local
    BY <1>0, <1>c DEF Local
  <1>1. PICK l \in Local : /\ l = [th[t] EXCEPT !.pc = "walk", !.at = e]
                           /\ th' = [th EXCEPT ![t] = l]
    BY <1>b, <1>d
  <1>2. th'[t] = l
    BY <1>1 DEF TypesOK
  <1>3. /\ l.pc = "walk" /\ l.op = "traverse" /\ l.seen = th[t].seen
        /\ l.at = e /\ l.bkt = th[t].bkt /\ l.must = th[t].must
    BY <1>0, <1>1, <1>b DEF Local
  <1>4. TypesOK'
    <2>1. ptrmx' \in [Node -> Thread \cup {Null}]
          /\ datamx' \in [Elt -> Thread \cup {Null}]
      BY <1>b DEF TypesOK
    <2> QED BY <1>1, <1>b, <2>1 DEF TypesOK
  <1>5. Steady(t)
    BY <1>1, <1>b, <1>c, HashtblAssumption DEF Steady, TypesOK
  <1>6. ThreadOK(t)'
    <2>1. (\A x : Chain(x)' = Chain(x)) /\ Linked' = Linked
      BY <1>b, SameChains
    <2>2. TraverseOK(t)'
      <3>1. Place(l) = Place(th[t])
        BY <1>a, <1>b, <1>3 DEF Place
      <3> QED BY <1>b, <1>2, <1>3, <2>1, <3>1 DEF ThreadOK, TraverseOK
    <2>3. PtrOK(t)'
      BY <1>b, <1>c, <1>2, <1>3, <2>1 DEF PtrOK, TypesOK
    <2>4. SeenOK(t)'
      BY <1>b, <1>2, <1>3 DEF ThreadOK, SeenOK
    <2> QED BY <1>2, <1>3, <2>2, <2>3, <2>4
       DEF ThreadOK, OpOK, PendingOK, Pending, UniqOK, DeleteOK,
           HoldOK, DupOK, NotPassed, Absent
  <1> QED BY <1>b, <1>2, <1>3, <1>4, <1>5, <1>6, QuietStep DEF Pending

(* hashtbl_add_element gives up. *)
LEMMA DuplicateStep ==
  ASSUME HashtblInv, NEW t \in Thread, Duplicate(t)
  PROVE  HashtblInv'
  <1> USE DEF HashtblInv
  <1>0. /\ th[t].pc = "dup" /\ th[t].op = "add" /\ th[t].bkt \in Bucket
        /\ th[t] \in Local
    BY LocalFacts DEF Duplicate, ThreadOK, OpOK, TypesOK
  <1>a. \E e \in Elt : datamx[e] = t
    BY <1>0, ChainFacts DEF ThreadOK, DupOK
  <1>b. PICK e \in Elt : datamx[e] = t
                         /\ datamx' = [datamx EXCEPT ![e] = Null]
    <2>1. PICK e : e = CHOOSE x \in Elt : datamx[x] = t
      OBVIOUS
    <2>2. e \in Elt /\ datamx[e] = t
      BY <1>a, <2>1
    <2> QED BY <2>1, <2>2 DEF Duplicate
  <1>c. /\ uniqmx' = [uniqmx EXCEPT ![th[t].bkt] = Null]
        /\ th' = [th EXCEPT ![t] = [th[t] EXCEPT !.pc = "undo"]]
        /\ UNCHANGED <<nxt, key, mem, count, ptrmx, doomed, left>>
    BY DEF Duplicate, Become, table
  <1>d. [th[t] EXCEPT !.pc = "undo"] \in Local
    BY <1>0 DEF Local
  <1>1. PICK l \in Local : /\ l = [th[t] EXCEPT !.pc = "undo"]
                           /\ th' = [th EXCEPT ![t] = l]
    BY <1>c, <1>d
  <1>2. th'[t] = l
    BY <1>1 DEF TypesOK
  <1>3. l.pc = "undo" /\ l.op = "add" /\ l.seen = th[t].seen
    BY <1>0, <1>1 DEF Local
  <1>4. TypesOK'
    <2>1. /\ datamx' \in [Elt -> Thread \cup {Null}]
          /\ uniqmx' \in [Bucket -> Thread \cup {Null}]
      BY <1>b, <1>c DEF TypesOK
    <2>2. th' \in [Thread -> Local]
      BY <1>1 DEF TypesOK
    <2> QED BY <1>c, <2>1, <2>2 DEF TypesOK
  <1>5. Steady(t)
    <2>1. uniqmx[th[t].bkt] = t
      BY <1>0 DEF ThreadOK, UniqOK
    <2> QED BY <1>0, <1>1, <1>b, <1>c, <2>1 DEF Steady, TypesOK
  <1>6. ThreadOK(t)'
    <2>1. SeenOK(t)'
      BY <1>c, <1>2, <1>3 DEF ThreadOK, SeenOK
    <2> QED BY <1>2, <1>3, <2>1
       DEF ThreadOK, OpOK, PendingOK, Pending, UniqOK, PtrOK, DeleteOK,
           HoldOK, DupOK, NotPassed, Absent, TraverseOK
  <1> QED BY <1>0, <1>c, <1>2, <1>3, <1>4, <1>5, <1>6, QuietStep DEF Pending

----------------------------------------------------------------------------
(* Steps that count. *)

(* A new element is allocated and counted. *)
LEMMA BeginAddStep ==
  ASSUME HashtblInv, NEW t \in Thread, NEW k \in Key, BeginAdd(t, k)
  PROVE  HashtblInv'
  <1> USE DEF HashtblInv
  <1>a. PICK e \in Elt :
          /\ mem[e] = "unused"
          /\ mem' = [mem EXCEPT ![e] = "live"]
          /\ key' = [key EXCEPT ![e] = k]
          /\ th' = [th EXCEPT ![t] =
                      [Idle EXCEPT !.pc = "uniq", !.op = "add", !.want = k,
                                   !.bkt = HashOf[k], !.elt = e]]
    <2>1. PICK e : e = CHOOSE x \in Elt : mem[x] = "unused"
      OBVIOUS
    <2>2. e \in Elt /\ mem[e] = "unused"
      BY <2>1 DEF BeginAdd
    <2> QED BY <2>1, <2>2 DEF BeginAdd, Become
  <1>b. /\ count' = count + 1 /\ left' = [left EXCEPT ![t] = left[t] - 1]
        /\ left[t] > 0 /\ th[t].pc = "idle" /\ th[t].op = "none"
        /\ UNCHANGED <<nxt, ptrmx, datamx, uniqmx, doomed>>
    BY DEF BeginAdd, Begin, mutexes, ThreadOK, OpOK
  <1>c. HashOf[k] \in Bucket
    BY HashtblAssumption
  <1>d. [Idle EXCEPT !.pc = "uniq", !.op = "add", !.want = k,
                     !.bkt = HashOf[k], !.elt = e] \in Local
    BY <1>c, IdleFacts DEF Local
  <1>1. PICK l \in Local :
          /\ l = [Idle EXCEPT !.pc = "uniq", !.op = "add", !.want = k,
                              !.bkt = HashOf[k], !.elt = e]
          /\ th' = [th EXCEPT ![t] = l]
    BY <1>a, <1>d
  <1>2. th'[t] = l /\ \A u \in Thread : u # t => th'[u] = th[u]
    BY <1>1 DEF TypesOK
  <1>3. /\ l.pc = "uniq" /\ l.op = "add" /\ l.seen = {} /\ l.want = k
        /\ l.bkt = HashOf[k] /\ l.elt = e
    BY <1>1 DEF Idle
  <1>4. TypesOK'
    <2>1. left' \in [Thread -> 0..Budget]
      BY <1>b, HashtblAssumption DEF TypesOK
    <2>2. count' \in Int
      BY <1>b DEF TypesOK
    <2>3. mem' \in [Elt -> {"unused", "live", "freed"}]
          /\ key' \in [Elt -> Key]
      BY <1>a DEF TypesOK
    <2> QED BY <1>1, <1>b, <2>1, <2>2, <2>3 DEF TypesOK
  <1>5. Steady(t)
    BY <1>a, <1>b, <1>2 DEF Steady, TypesOK
  <1>6. (\A x : Chain(x)' = Chain(x)) /\ Linked' = Linked
    BY <1>b, SameChains
  <1>7. e \notin Linked
    BY <1>a DEF TableOK, LinkedIsLive
  <1>8. ThreadOK(t)'
    <2>1. PendingOK(t)'
      BY <1>2, <1>3, <1>6, <1>7, <1>a DEF PendingOK, TypesOK
    <2> QED BY <1>2, <1>3, <2>1
       DEF ThreadOK, OpOK, UniqOK, PtrOK, DeleteOK,
           HoldOK, DupOK, NotPassed, Absent, TraverseOK, SeenOK
  <1>9. Fresh'
    <2>1. ASSUME NEW u \in Thread, u # t
          PROVE  /\ Pending(u)' <=> Pending(u)
                 /\ th'[u].elt = th[u].elt /\ th'[u].seen = th[u].seen
      BY <1>2, <2>1 DEF Pending
    <2>2. ASSUME NEW u \in Thread PROVE e \notin th[u].seen
      BY <1>a DEF ThreadOK, SeenOK
    <2>3. ASSUME NEW u \in Thread, Pending(u) PROVE th[u].elt # e
      BY <1>a, <2>3 DEF ThreadOK, PendingOK
    <2>4. ASSUME NEW u \in Thread, NEW v \in Thread, Pending(u)'
          PROVE  /\ th'[u].elt \notin th'[v].seen
                 /\ Pending(v)' /\ th'[v].elt = th'[u].elt => v = u
      <3>1. CASE u = t
        BY <1>2, <1>3, <2>1, <2>2, <2>3, <3>1
      <3>2. CASE u # t /\ v = t
        BY <1>2, <1>3, <2>1, <2>3, <2>4, <3>2
      <3>3. CASE u # t /\ v # t
        BY <2>1, <2>4, <3>3 DEF Fresh
      <3> QED BY <3>1, <3>2, <3>3
    <2> QED BY <2>4 DEF Fresh
  <1>10. CountExact'
    <2>1. Unlinkers' = Unlinkers
      BY <1>2, <1>3, <1>b DEF Unlinkers
    <2>2. Adders' = Adders \cup {t} /\ t \notin Adders
      BY <1>2, <1>3, <1>b DEF Adders
    <2>3. /\ IsFiniteSet(Adders) /\ Cardinality(Adders) \in Nat
          /\ Cardinality(Linked) \in Nat /\ Cardinality(Unlinkers) \in Nat
          /\ count = Cardinality(Linked) + Cardinality(Adders)
                     - Cardinality(Unlinkers)
      BY CountFacts
    <2>4. Cardinality(Adders') = Cardinality(Adders) + 1
      BY <2>2, <2>3, FS_AddElement
    <2>5. count' = Cardinality(Linked') + Cardinality(Adders')
                   - Cardinality(Unlinkers')
      BY <1>6, <1>b, <2>1, <2>3, <2>4
    <2> QED BY <2>5 DEF CountExact, Adders, Unlinkers
  <1> QED BY SMTT(30), <1>4, <1>5, <1>8, <1>9, <1>10, SteadyStep

(* hashtbl_add_element takes the count back. *)
LEMMA UndoCountStep ==
  ASSUME HashtblInv, NEW t \in Thread, UndoCount(t)
  PROVE  HashtblInv'
  <1> USE DEF HashtblInv
  <1>a. /\ th[t].pc = "undo" /\ th[t].op = "add"
        /\ count' = count - 1 /\ th' = [th EXCEPT ![t] = Idle]
        /\ UNCHANGED <<nxt, key, mem, ptrmx, datamx, uniqmx, doomed, left>>
    BY DEF UndoCount, Become, mutexes, ThreadOK, OpOK
  <1>2. th'[t] = Idle /\ \A u \in Thread : u # t => th'[u] = th[u]
    BY <1>a DEF TypesOK
  <1>3. TypesOK'
    <2>1. count' \in Int
      BY <1>a DEF TypesOK
    <2> QED BY <1>a, <2>1, IdleFacts DEF TypesOK
  <1>4. Steady(t)
    BY <1>a, <1>2 DEF Steady
  <1>5. ThreadOK(t)'
    BY <1>2, IdleOK
  <1>6. Fresh'
    BY <1>2, IdleFacts, FreshKeeps DEF Pending
  <1>7. CountExact'
    <2>0. Linked' = Linked
      BY <1>a, SameChains
    <2>1. Unlinkers' = Unlinkers
      BY <1>2, <1>a, IdleFacts DEF Unlinkers
    <2>2. Adders' = Adders \ {t} /\ t \in Adders
      BY <1>2, <1>a, IdleFacts DEF Adders
    <2>3. /\ IsFiniteSet(Adders) /\ Cardinality(Adders) \in Nat
          /\ Cardinality(Linked) \in Nat /\ Cardinality(Unlinkers) \in Nat
          /\ count = Cardinality(Linked) + Cardinality(Adders)
                     - Cardinality(Unlinkers)
      BY CountFacts
    <2>4. Cardinality(Adders') = Cardinality(Adders) - 1
      BY <2>2, <2>3, FS_RemoveElement
    <2>5. count' = Cardinality(Linked') + Cardinality(Adders')
                   - Cardinality(Unlinkers')
      BY <1>a, <2>0, <2>1, <2>3, <2>4
    <2> QED BY <2>5 DEF CountExact, Adders, Unlinkers
  <1> QED BY <1>3, <1>4, <1>5, <1>6, <1>7, SteadyStep

(* hashtbl_delete_element_from_bucket takes the element out of the count. *)
LEMMA UncountStep ==
  ASSUME HashtblInv, NEW t \in Thread, Uncount(t)
  PROVE  HashtblInv'
  <1> USE DEF HashtblInv
  <1>a. /\ th[t].pc = "uncount" /\ th[t].op = "delete" /\ th[t] \in Local
        /\ count' = count - 1
        /\ th' = [th EXCEPT ![t] = [th[t] EXCEPT !.pc = "unlink"]]
        /\ UNCHANGED <<nxt, key, mem, ptrmx, datamx, uniqmx, doomed, left>>
    BY DEF Uncount, Become, mutexes, ThreadOK, OpOK, TypesOK
  <1>b. [th[t] EXCEPT !.pc = "unlink"] \in Local
    BY <1>a DEF Local
  <1>1. PICK l \in Local : /\ l = [th[t] EXCEPT !.pc = "unlink"]
                           /\ th' = [th EXCEPT ![t] = l]
    BY <1>a, <1>b
  <1>2. th'[t] = l /\ \A u \in Thread : u # t => th'[u] = th[u]
    BY <1>1 DEF TypesOK
  <1>3. /\ l.pc = "unlink" /\ l.op = "delete" /\ l.seen = th[t].seen
        /\ l.at = th[t].at /\ l.bkt = th[t].bkt /\ l.elt = th[t].elt
    BY <1>1, <1>a DEF Local
  <1>4. TypesOK'
    <2>1. count' \in Int
      BY <1>a DEF TypesOK
    <2> QED BY <1>a, <1>1, <2>1 DEF TypesOK
  <1>5. Steady(t)
    BY <1>a, <1>2 DEF Steady
  <1>6. (\A x : Chain(x)' = Chain(x)) /\ Linked' = Linked
    BY <1>a, SameChains
  <1>7. ThreadOK(t)'
    <2>1. PtrOK(t)'
      BY <1>a, <1>2, <1>3, <1>6 DEF ThreadOK, PtrOK
    <2>2. DeleteOK(t)'
      BY <1>a, <1>2, <1>3, <1>6 DEF ThreadOK, DeleteOK
    <2>3. SeenOK(t)'
      BY <1>a, <1>2, <1>3 DEF ThreadOK, SeenOK
    <2> QED BY <1>2, <1>3, <2>1, <2>2, <2>3
       DEF ThreadOK, OpOK, PendingOK, Pending, UniqOK,
           HoldOK, DupOK, NotPassed, Absent, TraverseOK
  <1>8. Fresh'
    BY <1>2, <1>3, FreshKeeps DEF Pending
  <1>9. CountExact'
    <2>1. Adders' = Adders
      BY <1>2, <1>3, <1>a DEF Adders
    <2>2. Unlinkers' = Unlinkers \cup {t} /\ t \notin Unlinkers
      BY <1>2, <1>3, <1>a DEF Unlinkers
    <2>3. /\ IsFiniteSet(Unlinkers) /\ Cardinality(Adders) \in Nat
          /\ Cardinality(Linked) \in Nat /\ Cardinality(Unlinkers) \in Nat
          /\ count = Cardinality(Linked) + Cardinality(Adders)
                     - Cardinality(Unlinkers)
      BY CountFacts
    <2>4. Cardinality(Unlinkers') = Cardinality(Unlinkers) + 1
      BY <2>2, <2>3, FS_AddElement
    <2>5. count' = Cardinality(Linked') + Cardinality(Adders')
                   - Cardinality(Unlinkers')
      BY <1>6, <1>a, <2>1, <2>3, <2>4
    <2> QED BY <2>5 DEF CountExact, Adders, Unlinkers
  <1> QED BY <1>4, <1>5, <1>7, <1>8, <1>9, SteadyStep

----------------------------------------------------------------------------
(* Steps that change the chains. *)

(* Where a traversal is, is in the chains. *)
LEMMA PlaceFacts ==
  ASSUME HashtblInv, NEW u \in Thread, th[u].op = "traverse"
  PROVE  /\ Place(th[u]) \in {th[u].bkt} \cup Chain(th[u].bkt)
         /\ Place(th[u]) \in Stem /\ th[u].bkt \in Bucket
  <1>1. th[u].bkt \in Bucket
    BY LocalFacts DEF HashtblInv
  <1>2. Place(th[u]) \in {th[u].bkt} \cup Chain(th[u].bkt)
    BY DEF HashtblInv, ThreadOK, PtrOK, HoldOK, Place
  <1> QED BY <1>1, <1>2 DEF Stem, Linked

(* What linking does to the chains. *)
LEMMA LinkChains ==
  ASSUME HashtblInv, TypesOK', NEW b \in Bucket, NEW e \in Elt \ Linked,
         nxt' = [nxt EXCEPT ![e] = nxt[b], ![b] = e]
  PROVE  /\ nxt'[b] = e /\ nxt'[e] = nxt[b] /\ b # e /\ e \notin Stem
         /\ \A y \in Node : y # b /\ y # e => nxt'[y] = nxt[y]
         /\ Chain(b)' = {e} \cup Chain(b) /\ Chain(e)' = Chain(b)
         /\ \A x \in Stem : x # b => Chain(x)' = Chain(x)
         /\ Linked' = Linked \cup {e} /\ OnePointer'
  <1>1. nxt \in Pointers /\ Chained(nxt, Stem) /\ Linked \subseteq Elt
        /\ Stem \subseteq Node
        /\ \A x \in Stem : nxt[x] \in Linked \cup {Null}
    BY ChainFacts DEF HashtblInv, TableOK
  <1>2. PICK g : g = nxt'
    OBVIOUS
  <1>3. g \in Pointers
    BY <1>2 DEF TypesOK, Pointers
  <1>4. b \in Node /\ e \in Node /\ b # e /\ b \in Stem /\ e \notin Stem
        /\ e # Null
    BY NodeFacts DEF Stem
  <1>5. /\ g[b] = e /\ g[e] = nxt[b]
        /\ \A y \in Node : y # b /\ y # e => g[y] = nxt[y]
    BY <1>1, <1>2, <1>4 DEF Pointers
  <1>6. /\ Reach(g, b) = {e} \cup Reach(nxt, b)
        /\ Reach(g, e) = Reach(nxt, b)
        /\ \A x \in Stem : x # b => Reach(g, x) = Reach(nxt, x)
    BY <1>1, <1>3, <1>4, <1>5, ReachPush
  <1>7. /\ Chain(b)' = {e} \cup Chain(b) /\ Chain(e)' = Chain(b)
        /\ \A x \in Stem : x # b => Chain(x)' = Chain(x)
    <2>1. \A x : Chain(x)' = Reach(g, x)
      BY <1>2, NextChains
    <2> QED BY <1>6, <2>1 DEF Chain
  <1>8. Linked' = Linked \cup {e}
    <2>1. \A x \in Bucket : x # b => Chain(x)' = Chain(x)
      BY <1>7 DEF Stem
    <2>2. Linked' = UNION {Chain(x)' : x \in Bucket}
      BY DEF Linked, Chain
    <2>3. \A y : y \in Linked' <=> \E x \in Bucket : y \in Chain(x)'
      BY <2>2
    <2>4. \A y : y \in Linked <=> \E x \in Bucket : y \in Chain(x)
      BY DEF Linked
    <2>5. \A y : y \in Linked' <=> y \in Linked \cup {e}
      BY <1>7, <2>1, <2>3, <2>4
    <2> QED BY <2>5
  <1>9. OnePointer'
    <2>1. SUFFICES ASSUME NEW x \in Stem \cup {e}, NEW y \in Stem \cup {e},
                          g[x] = g[y], g[x] # Null
                   PROVE  x = y
      BY <1>2, <1>8 DEF OnePointer, Stem
    <2>2. \A z \in Stem : z # b => g[z] = nxt[z] /\ g[z] # e
      BY <1>1, <1>4, <1>5
    <2>3. \A z \in Stem : nxt[z] # e
      BY <1>1, <1>4
    <2>4. \A v, w \in Stem : nxt[v] = nxt[w] /\ nxt[v] # Null => v = w
      BY <1>1 DEF Chained
    <2>5. CASE x = b
      BY <1>4, <1>5, <2>1, <2>2, <2>3, <2>5
    <2>6. CASE y = b
      BY <1>4, <1>5, <2>1, <2>2, <2>3, <2>6
    <2>7. CASE x # b /\ y # b
      BY <1>4, <1>5, <2>1, <2>2, <2>4, <2>7
    <2> QED BY <2>5, <2>6, <2>7
  <1> QED BY <1>2, <1>4, <1>5, <1>7, <1>8, <1>9

(* The new element is linked in front of its bucket. *)
LEMMA LinkStep ==
  ASSUME HashtblInv, NEW t \in Thread, Link(t)
  PROVE  HashtblInv'
  <1> USE DEF HashtblInv
  <1>0. PICK b, e : b = th[t].bkt /\ e = th[t].elt
    OBVIOUS
  <1>a. /\ th[t].pc = "link" /\ th[t].op = "add" /\ th[t] \in Local
        /\ b \in Bucket /\ e \in Elt \ Linked /\ mem[e] = "live"
        /\ key[e] = th[t].want /\ b = HashOf[key[e]]
        /\ uniqmx[b] = t /\ t # Null
        /\ \A f \in Chain(b) : key[f] # key[e]
    <2>1. th[t].pc = "link" /\ th[t].op = "add"
      BY DEF Link, ThreadOK, OpOK
    <2>2. b \in Bucket /\ th[t] \in Local
      BY <1>0, LocalFacts DEF TypesOK
    <2> QED BY <1>0, <2>1, <2>2, HashtblAssumption
               DEF ThreadOK, PendingOK, Pending, UniqOK, Absent
  <1>b. /\ ptrmx[b] = Null
        /\ nxt' = [nxt EXCEPT ![e] = nxt[b], ![b] = e]
        /\ datamx' = [datamx EXCEPT ![e] = t]
        /\ uniqmx' = [uniqmx EXCEPT ![b] = Null]
        /\ th' = [th EXCEPT ![t] = [th[t] EXCEPT !.pc = "hold"]]
        /\ UNCHANGED <<key, mem, count, ptrmx, doomed, left>>
    BY <1>0 DEF Link, Become
  <1>c. [th[t] EXCEPT !.pc = "hold"] \in Local
    BY <1>a DEF Local
  <1>1. PICK l \in Local : /\ l = [th[t] EXCEPT !.pc = "hold"]
                           /\ th' = [th EXCEPT ![t] = l]
    BY <1>b, <1>c
  <1>2. th'[t] = l /\ \A u \in Thread : u # t => th'[u] = th[u]
    BY <1>1 DEF TypesOK
  <1>3. /\ l.pc = "hold" /\ l.op = "add" /\ l.seen = th[t].seen
        /\ l.elt = e /\ l.bkt = b
    BY <1>0, <1>1, <1>a DEF Local
  <1>4. TypesOK'
    <2>1. nxt' \in [Node -> Elt \cup {Null}]
      <3>1. nxt[b] \in Elt \cup {Null}
        BY <1>a, NodeFacts DEF TypesOK
      <3> QED BY <1>a, <1>b, <3>1 DEF TypesOK
    <2>2. /\ datamx' \in [Elt -> Thread \cup {Null}]
          /\ uniqmx' \in [Bucket -> Thread \cup {Null}]
      BY <1>b DEF TypesOK
    <2>3. th' \in [Thread -> Local]
      BY <1>1 DEF TypesOK
    <2> QED BY <1>b, <2>1, <2>2, <2>3 DEF TypesOK
  <1>5. /\ b # e /\ e \notin Stem
        /\ \A y \in Node : y # b /\ y # e => nxt'[y] = nxt[y]
        /\ Chain(b)' = {e} \cup Chain(b)
        /\ \A x \in Stem : x # b => Chain(x)' = Chain(x)
        /\ Linked' = Linked \cup {e} /\ OnePointer'
    <2> HIDE DEF HashtblInv
    <2>1. b \in Bucket /\ e \in Elt \ Linked
      BY <1>a
    <2>2. nxt' = [nxt EXCEPT ![e] = nxt[b], ![b] = e]
      BY <1>b
    <2> QED BY <1>4, <2>1, <2>2, LinkChains
  <1>6. /\ Linked \subseteq Elt /\ Stem \subseteq Node
        /\ \A x \in Stem : nxt[x] \in Linked \cup {Null}
        /\ \A x \in Bucket : x \in Stem /\ Chain(x) \subseteq Linked
    BY ChainFacts DEF Stem
  <1>7. TableOK'
    <2>1. LinkedIsLive'
      BY <1>5, <1>a, <1>b DEF TableOK, LinkedIsLive
    <2>2. RightBucket'
      <3>1. ASSUME NEW x \in Bucket, NEW f \in Chain(x)'
            PROVE  HashOf[key[f]] = x
        <4>1. CASE x = b
          BY <1>5, <1>a, <3>1, <4>1 DEF TableOK, RightBucket
        <4>2. CASE x # b
          BY <1>5, <1>6, <3>1, <4>2 DEF TableOK, RightBucket
        <4> QED BY <4>1, <4>2
      <3>2. key' = key
        BY <1>b
      <3> QED BY <3>1, <3>2 DEF RightBucket
    <2>3. UniqueKeys'
      <3>1. ASSUME NEW f \in Linked PROVE key[f] # key[e]
        <4>1. PICK x \in Bucket : f \in Chain(x)
          BY DEF Linked
        <4>2. HashOf[key[f]] = x
          BY <4>1 DEF TableOK, RightBucket
        <4> QED BY <1>a, <4>1, <4>2
      <3> QED BY <1>5, <1>b, <3>1 DEF TableOK, UniqueKeys
    <2> QED BY <1>5, <2>1, <2>2, <2>3 DEF TableOK
  <1>8. ThreadOK(t)'
    <2>1. HoldOK(t)'
      BY <1>2, <1>3, <1>5, <1>a, <1>b DEF HoldOK, TypesOK
    <2>2. SeenOK(t)'
      BY <1>2, <1>3, <1>b DEF ThreadOK, SeenOK
    <2> QED BY <1>2, <1>3, <2>1, <2>2
       DEF ThreadOK, OpOK, PendingOK, Pending, UniqOK, PtrOK, DeleteOK,
           DupOK, NotPassed, Absent, TraverseOK
  <1>9. ASSUME NEW u \in Thread, u # t PROVE ThreadOK(u)'
    <2>0. th'[u] = th[u] /\ ThreadOK(u)
      BY <1>2, <1>9
    <2>a. PICK m : m = th[u]
      OBVIOUS
    <2>b. m.bkt \in Bucket /\ m.at \in Node /\ m.elt \in Elt \cup {Null}
      BY <2>a, LocalFacts
    <2>c. Chain(m.bkt) \subseteq Chain(m.bkt)'
      BY <1>5, <1>6, <2>b
    <2>d. \A f \in Elt : f # e => datamx'[f] = datamx[f]
      BY <1>b DEF TypesOK
    <2>e. m.op = "add" /\ m.pc \in {"enter", "walk", "dup", "link"} =>
            m.bkt # b /\ uniqmx'[m.bkt] = u
      BY <1>9, <1>a, <1>b, <2>0, <2>a, <2>b DEF ThreadOK, UniqOK, TypesOK
    <2>1. OpOK(th[u])'
      BY <2>0 DEF ThreadOK, OpOK
    <2>2. PendingOK(u)'
      <3>1. Pending(u) => th[u].elt # e
        BY <1>0, <1>9, <1>a DEF Fresh, Pending
      <3> QED BY <1>5, <1>b, <2>0, <3>1 DEF ThreadOK, PendingOK, Pending
    <2>3. UniqOK(u)'
      BY <2>0, <2>a, <2>e DEF UniqOK
    <2>4. PtrOK(u)'
      <3>1. m.pc \in {"walk", "uncount", "unlink"} =>
              m.at \in {m.bkt} \cup Chain(m.bkt)' /\ ptrmx[m.at] = u
        BY <2>0, <2>a, <2>c DEF ThreadOK, PtrOK
      <3> QED BY <1>b, <2>0, <2>a, <3>1 DEF PtrOK
    <2>f. m.pc \in {"walk", "uncount", "unlink"} =>
            m.at \in Stem /\ m.at # b /\ m.at # e /\ ptrmx[m.at] = u
      <3>1. m.pc \in {"walk", "uncount", "unlink"} =>
              m.at \in {m.bkt} \cup Chain(m.bkt) /\ ptrmx[m.at] = u
        BY <2>0, <2>a DEF ThreadOK, PtrOK
      <3> QED BY <1>5, <1>6, <1>b, <2>b, <3>1, HashtblAssumption DEF Stem
    <2>5. DeleteOK(u)'
      <3>1. m.pc \in {"uncount", "unlink"} =>
              /\ m.elt \in Elt /\ nxt[m.at] = m.elt /\ datamx[m.elt] = u
        BY <2>0, <2>a DEF ThreadOK, DeleteOK
      <3>2. m.pc \in {"uncount", "unlink"} =>
              m.elt \in Linked /\ nxt'[m.at] = nxt[m.at]
        BY <1>5, <1>6, <2>b, <2>f, <3>1, HashtblAssumption
      <3>3. m.pc \in {"uncount", "unlink"} => datamx'[m.elt] = u
        BY <1>a, <2>d, <3>1, <3>2
      <3> QED BY <2>0, <2>a, <3>1, <3>2, <3>3 DEF DeleteOK
    <2>6. HoldOK(u)'
      <3>1. m.pc = "hold" => m.elt \in Chain(m.bkt) /\ datamx[m.elt] = u
        BY <2>0, <2>a DEF ThreadOK, HoldOK
      <3>2. m.pc = "hold" => m.elt \in Linked /\ m.elt \in Elt
        BY <1>6, <2>b, <3>1
      <3> QED BY <1>a, <2>0, <2>a, <2>c, <2>d, <3>1, <3>2 DEF HoldOK
    <2>7. DupOK(u)'
      BY <1>5, <1>6, <1>a, <2>0, <2>d DEF ThreadOK, DupOK
    <2>8. NotPassed(u)'
      <3>1. m.op = "add" /\ m.pc = "walk" =>
              /\ Chain(m.bkt)' = Chain(m.bkt) /\ Chain(m.at)' = Chain(m.at)
        BY <1>5, <1>6, <2>b, <2>e, <2>f
      <3> QED BY <1>b, <2>0, <2>a, <3>1 DEF ThreadOK, NotPassed
    <2>9. Absent(u)'
      <3>1. m.pc = "link" => Chain(m.bkt)' = Chain(m.bkt)
        BY <1>5, <1>6, <2>0, <2>a, <2>b, <2>e DEF ThreadOK, OpOK
      <3> QED BY <1>b, <2>0, <2>a, <3>1 DEF ThreadOK, Absent
    <2>10. TraverseOK(u)'
      <3>1. SUFFICES ASSUME m.op = "traverse" PROVE TraverseOK(u)'
        BY <2>0, <2>a DEF TraverseOK
      <3>2. /\ m.must \subseteq Linked
            /\ \A x \in Bucket : x > m.bkt => Chain(x) \cap m.seen = {}
            /\ \A x \in Bucket :
                 x < m.bkt => m.must \cap Chain(x) \subseteq m.seen
            /\ Chain(Place(m)) \cap m.seen = {}
            /\ m.must \cap Chain(m.bkt) \subseteq m.seen \cup Chain(Place(m))
        BY <2>0, <2>a, <3>1 DEF ThreadOK, TraverseOK
      <3>3. Place(m) \in Stem /\ m.bkt \in Stem
        BY <1>6, <2>a, <3>1, PlaceFacts
      <3>4. e \notin m.seen /\ e \notin m.must
        BY <1>0, <1>a, <2>a, <3>2 DEF Fresh, Pending
      <3>5. \A x \in Stem : /\ Chain(x) \subseteq Chain(x)'
                            /\ Chain(x)' \subseteq Chain(x) \cup {e}
        BY <1>5
      <3>6. m.must \subseteq Linked'
        BY <1>5, <3>2
      <3>7. \A x \in Bucket : x > m.bkt => Chain(x)' \cap m.seen = {}
        BY <1>6, <3>2, <3>4, <3>5
      <3>8. \A x \in Bucket :
              x < m.bkt => m.must \cap Chain(x)' \subseteq m.seen
        BY <1>6, <3>2, <3>4, <3>5
      <3>9. Chain(Place(m))' \cap m.seen = {}
        <4>1. PICK q \in Stem : q = Place(m)
          BY <3>3
        <4>2. Chain(q)' \cap m.seen = {}
          BY <3>2, <3>4, <3>5, <4>1
        <4>3. Chain(Place(m))' = Chain(q)'
          BY <4>1 DEF Chain, Place
        <4> QED BY <4>2, <4>3
      <3>10. m.must \cap Chain(m.bkt)'
               \subseteq m.seen \cup Chain(Place(m))'
        <4>1. PICK q \in Stem : q = Place(m)
          BY <3>3
        <4>2. m.must \cap Chain(m.bkt)' \subseteq m.seen \cup Chain(q)'
          BY <3>2, <3>3, <3>4, <3>5, <4>1
        <4>3. Chain(Place(m))' = Chain(q)'
          BY <4>1 DEF Chain, Place
        <4> QED BY <4>2, <4>3
      <3> QED BY <2>0, <2>a, <3>6, <3>7, <3>8, <3>9, <3>10 DEF TraverseOK
    <2>11. SeenOK(u)'
      BY <1>b, <2>0 DEF ThreadOK, SeenOK
    <2> QED BY <2>1, <2>2, <2>3, <2>4, <2>5, <2>6, <2>7, <2>8, <2>9, <2>10,
               <2>11 DEF ThreadOK
  <1>10. Fresh'
    BY <1>2, <1>3, FreshKeeps DEF Pending
  <1>11. CountExact'
    <2>1. Unlinkers' = Unlinkers
      BY <1>2, <1>3, <1>a DEF Unlinkers
    <2>2. Adders' = Adders \ {t} /\ t \in Adders
      BY <1>2, <1>3, <1>a DEF Adders
    <2>3. /\ IsFiniteSet(Adders) /\ Cardinality(Adders) \in Nat
          /\ IsFiniteSet(Linked)
          /\ Cardinality(Linked) \in Nat /\ Cardinality(Unlinkers) \in Nat
          /\ count = Cardinality(Linked) + Cardinality(Adders)
                     - Cardinality(Unlinkers)
      BY CountFacts
    <2>4. Cardinality(Adders') = Cardinality(Adders) - 1
      BY <2>2, <2>3, FS_RemoveElement
    <2>5. Cardinality(Linked') = Cardinality(Linked) + 1
      BY <1>5, <1>a, <2>3, FS_AddElement
    <2>6. count' = Cardinality(Linked') + Cardinality(Adders')
                   - Cardinality(Unlinkers')
      BY <1>b, <2>1, <2>3, <2>4, <2>5
    <2> QED BY <2>6 DEF CountExact, Adders, Unlinkers
  <1> QED BY <1>4, <1>7, <1>8, <1>9, <1>10, <1>11

(* What unlinking does to the chains. *)
LEMMA UnlinkChains ==
  ASSUME HashtblInv, TypesOK', NEW p \in Stem, NEW e \in Elt,
         nxt[p] = e, p # e, nxt' = [nxt EXCEPT ![p] = nxt[e]]
  PROVE  /\ e \in Linked /\ e \notin Bucket
         /\ \A y \in Node : y # p => nxt'[y] = nxt[y]
         /\ \A x \in Stem : x # e => Chain(x)' = Chain(x) \ {e}
         /\ Linked' = Linked \ {e} /\ OnePointer'
  <1>1. nxt \in Pointers /\ Chained(nxt, Stem) /\ Linked \subseteq Elt
        /\ Stem \subseteq Node
        /\ \A x \in Stem : nxt[x] \in Linked \cup {Null}
    BY ChainFacts DEF HashtblInv, TableOK
  <1>2. PICK g : g = nxt'
    OBVIOUS
  <1>3. g \in Pointers
    BY <1>2 DEF TypesOK, Pointers
  <1>4. e \in Linked /\ e \notin Bucket /\ e \in Stem /\ p \in Node
    BY <1>1, NodeFacts DEF Stem
  <1>5. /\ g[p] = nxt[e]
        /\ \A y \in Node : y # p => g[y] = nxt[y]
    BY <1>1, <1>2, <1>4 DEF Pointers
  <1>6. \A x \in Stem : x # e => Reach(g, x) = Reach(nxt, x) \ {e}
    BY <1>1, <1>3, <1>5, ReachCut
  <1>7. \A x \in Stem : x # e => Chain(x)' = Chain(x) \ {e}
    <2>1. \A x : Chain(x)' = Reach(g, x)
      BY <1>2, NextChains
    <2> QED BY <1>6, <2>1 DEF Chain
  <1>8. Linked' = Linked \ {e}
    <2>1. \A x \in Bucket : Chain(x)' = Chain(x) \ {e}
      BY <1>4, <1>7 DEF Stem
    <2>2. Linked' = UNION {Chain(x)' : x \in Bucket}
      BY DEF Linked, Chain
    <2>3. \A y : y \in Linked' <=> \E x \in Bucket : y \in Chain(x)'
      BY <2>2
    <2>4. \A y : y \in Linked <=> \E x \in Bucket : y \in Chain(x)
      BY DEF Linked
    <2>5. \A y : y \in Linked' <=> y \in Linked \ {e}
      BY <2>1, <2>3, <2>4
    <2> QED BY <2>5
  <1>9. OnePointer'
    <2>1. SUFFICES ASSUME NEW x \in Stem \ {e}, NEW y \in Stem \ {e},
                          g[x] = g[y], g[x] # Null
                   PROVE  x = y
      BY <1>2, <1>4, <1>8 DEF OnePointer, Stem
    <2>2. \A v, w \in Stem : nxt[v] = nxt[w] /\ nxt[v] # Null => v = w
      BY <1>1 DEF Chained
    <2>3. CASE x = p
      BY <1>1, <1>4, <1>5, <2>1, <2>2, <2>3
    <2>4. CASE y = p
      BY <1>1, <1>4, <1>5, <2>1, <2>2, <2>4
    <2>5. CASE x # p /\ y # p
      BY <1>1, <1>5, <2>1, <2>2, <2>5
    <2> QED BY <2>3, <2>4, <2>5
  <1> QED BY <1>2, <1>4, <1>5, <1>7, <1>8, <1>9

(* The element is unlinked and freed. *)
LEMMA UnlinkStep ==
  ASSUME HashtblInv, NEW t \in Thread, Unlink(t)
  PROVE  HashtblInv'
  <1>0. PICK p, e : p = th[t].at /\ e = th[t].elt
    OBVIOUS
  <1>a. /\ th[t].pc = "unlink" /\ th[t].op = "delete"
        /\ p \in Stem /\ p \in Node /\ e \in Elt /\ e \in Node /\ nxt[p] = e
        /\ ptrmx[p] = t /\ datamx[e] = t /\ t # Null
        /\ ptrmx[e] = Null /\ p # e
    <2>1. th[t].pc = "unlink" /\ th[t].op = "delete" /\ ptrmx[e] = Null
      BY <1>0 DEF Unlink, HashtblInv, ThreadOK, OpOK
    <2>2. th[t].bkt \in Bucket
      BY LocalFacts DEF HashtblInv
    <2>3. p \in {th[t].bkt} \cup Chain(th[t].bkt) /\ ptrmx[p] = t
      BY <1>0, <2>1 DEF HashtblInv, ThreadOK, PtrOK
    <2>4. e \in Elt /\ nxt[p] = e /\ datamx[e] = t
      BY <1>0, <2>1 DEF HashtblInv, ThreadOK, DeleteOK
    <2>5. p \in Stem
      BY <2>2, <2>3 DEF Stem, Linked
    <2>6. Stem \subseteq Node
      BY ChainFacts DEF HashtblInv
    <2> QED BY <2>1, <2>3, <2>4, <2>5, <2>6, NodeFacts, HashtblAssumption
  <1>b. /\ nxt' = [nxt EXCEPT ![p] = nxt[e]]
        /\ datamx' = [datamx EXCEPT ![e] = Null]
        /\ ptrmx' = [ptrmx EXCEPT ![p] = Null]
        /\ mem' = [mem EXCEPT ![e] = "freed"]
        /\ th' = [u \in Thread |-> IF u = t THEN Idle
                                   ELSE [th[u] EXCEPT !.must = @ \ {e}]]
        /\ UNCHANGED <<key, count, uniqmx, doomed, left>>
    BY <1>0 DEF Unlink, Freed
  <1>c. th'[t] = Idle
    BY <1>b
  <1>d. ASSUME NEW u \in Thread, u # t
        PROVE  /\ th'[u] \in Local
               /\ th'[u].pc = th[u].pc /\ th'[u].op = th[u].op
               /\ th'[u].want = th[u].want /\ th'[u].bkt = th[u].bkt
               /\ th'[u].at = th[u].at /\ th'[u].elt = th[u].elt
               /\ th'[u].seen = th[u].seen
               /\ th'[u].must = th[u].must \ {e}
    <2>1. th[u] \in Local
      BY DEF HashtblInv, TypesOK
    <2>2. th'[u] = [th[u] EXCEPT !.must = th[u].must \ {e}]
      BY <1>b, <1>d
    <2> QED BY <2>1, <2>2 DEF Local
  <1>4. TypesOK'
    <2>0. TypesOK
      BY DEF HashtblInv
    <2>1. nxt' \in [Node -> Elt \cup {Null}]
      BY <1>a, <1>b, <2>0 DEF TypesOK
    <2>2. /\ datamx' \in [Elt -> Thread \cup {Null}]
          /\ ptrmx' \in [Node -> Thread \cup {Null}]
          /\ mem' \in [Elt -> {"unused", "live", "freed"}]
      BY <1>b, <2>0 DEF TypesOK
    <2>3. th' \in [Thread -> Local]
      <3>1. \A u \in Thread : th'[u] \in Local
        BY <1>c, <1>d, IdleFacts
      <3> QED BY <1>b, <3>1
    <2> QED BY <1>b, <2>0, <2>1, <2>2, <2>3 DEF TypesOK
  <1>5. /\ e \in Linked /\ e \notin Bucket
        /\ \A y \in Node : y # p => nxt'[y] = nxt[y]
        /\ \A x \in Stem : x # e => Chain(x)' = Chain(x) \ {e}
        /\ Linked' = Linked \ {e} /\ OnePointer'
    <2>1. nxt' = [nxt EXCEPT ![p] = nxt[e]]
      BY <1>b
    <2> QED BY <1>4, <1>a, <2>1, UnlinkChains
  <1> USE DEF HashtblInv
  <1>6. /\ Linked \subseteq Elt /\ Stem \subseteq Node
        /\ \A x \in Bucket : /\ x \in Stem /\ x # e
                             /\ Chain(x) \subseteq Linked
                             /\ Chain(x)' = Chain(x) \ {e}
    <2>1. Linked \subseteq Elt /\ Stem \subseteq Node
      BY ChainFacts
    <2> QED BY <1>5, <2>1, ChainFacts DEF Stem
  <1>e. /\ \A f \in Elt : f # e => /\ mem'[f] = mem[f]
                                   /\ datamx'[f] = datamx[f]
        /\ \A x \in Node : x # p => ptrmx'[x] = ptrmx[x]
        /\ mem'[e] = "freed"
    BY <1>a, <1>b DEF TypesOK
  <1>7. TableOK'
    <2>1. LinkedIsLive'
      BY <1>5, <1>6, <1>e DEF TableOK, LinkedIsLive
    <2>2. RightBucket'
      BY <1>6, <1>b DEF TableOK, RightBucket
    <2>3. UniqueKeys'
      BY <1>5, <1>b DEF TableOK, UniqueKeys
    <2> QED BY <1>5, <2>1, <2>2, <2>3 DEF TableOK
  <1>8. ThreadOK(t)'
    BY <1>c, IdleOK
  <1>9. ASSUME NEW u \in Thread, u # t PROVE ThreadOK(u)'
    <2>a. PICK m, n : m = th[u] /\ n = th'[u]
      OBVIOUS
    <2>0. /\ n.pc = m.pc /\ n.op = m.op /\ n.want = m.want /\ n.bkt = m.bkt
          /\ n.at = m.at /\ n.elt = m.elt /\ n.seen = m.seen
          /\ n.must = m.must \ {e}
      BY <1>9, <1>d, <2>a
    <2>b. m.bkt \in Bucket /\ m.at \in Node /\ m.elt \in Elt \cup {Null}
          /\ m.seen \subseteq Elt
      BY <2>a, LocalFacts
    <2>c. ThreadOK(u)
      OBVIOUS
    <2>d. Chain(m.bkt)' = Chain(m.bkt) \ {e} /\ Chain(m.bkt) \subseteq Linked
      BY <1>6, <2>b
    <2>1. OpOK(th[u])'
      BY <2>0, <2>a, <2>c DEF ThreadOK, OpOK
    <2>2. PendingOK(u)'
      <3>1. (Pending(u))' <=> Pending(u)
        BY <2>0, <2>a DEF Pending
      <3>2. Pending(u) => /\ m.elt \in Elt \ Linked /\ mem[m.elt] = "live"
                          /\ key[m.elt] = m.want /\ m.bkt = HashOf[m.want]
        BY <2>a, <2>c DEF ThreadOK, PendingOK
      <3>3. Pending(u) => mem'[m.elt] = "live" /\ m.elt \notin Linked'
        BY <1>5, <1>e, <3>2
      <3> QED BY <1>b, <2>0, <2>a, <3>1, <3>2, <3>3 DEF PendingOK
    <2>3. UniqOK(u)'
      BY <1>b, <2>0, <2>a, <2>c DEF ThreadOK, UniqOK
    <2>e. m.pc \in {"walk", "uncount", "unlink"} =>
            /\ m.at \in {m.bkt} \cup Chain(m.bkt) /\ ptrmx[m.at] = u
            /\ m.at \in Stem /\ m.at # e /\ m.at # p
      <3>1. m.pc \in {"walk", "uncount", "unlink"} =>
              /\ m.at \in {m.bkt} \cup Chain(m.bkt) /\ ptrmx[m.at] = u
        BY <2>a, <2>c DEF ThreadOK, PtrOK
      <3> QED BY <1>9, <1>a, <2>b, <2>d, <3>1, HashtblAssumption DEF Stem
    <2>4. PtrOK(u)'
      <3>1. m.pc \in {"walk", "uncount", "unlink"} =>
              m.at \in {m.bkt} \cup Chain(m.bkt)' /\ ptrmx'[m.at] = u
        BY <1>e, <2>b, <2>d, <2>e
      <3> QED BY <2>0, <2>a, <3>1 DEF PtrOK
    <2>5. DeleteOK(u)'
      <3>1. m.pc \in {"uncount", "unlink"} =>
              /\ m.elt \in Elt /\ nxt[m.at] = m.elt /\ datamx[m.elt] = u
        BY <2>a, <2>c DEF ThreadOK, DeleteOK
      <3>2. m.pc \in {"uncount", "unlink"} =>
              nxt'[m.at] = m.elt /\ datamx'[m.elt] = u
        BY <1>5, <1>9, <1>a, <1>e, <2>b, <2>e, <3>1
      <3> QED BY <2>0, <2>a, <3>1, <3>2 DEF DeleteOK
    <2>f. m.pc = "hold" => /\ m.elt \in Chain(m.bkt) /\ datamx[m.elt] = u
                           /\ m.elt # e /\ m.elt \in Elt
      <3>1. m.pc = "hold" => m.elt \in Chain(m.bkt) /\ datamx[m.elt] = u
        BY <2>a, <2>c DEF ThreadOK, HoldOK
      <3> QED BY <1>6, <1>9, <1>a, <2>d, <3>1
    <2>6. HoldOK(u)'
      <3>1. m.pc = "hold" => m.elt \in Chain(m.bkt)' /\ datamx'[m.elt] = u
        BY <1>e, <2>d, <2>f
      <3> QED BY <2>0, <2>a, <3>1 DEF HoldOK
    <2>7. DupOK(u)'
      <3>1. m.pc = "dup" => \E f \in Linked : datamx[f] = u
        BY <2>a, <2>c DEF ThreadOK, DupOK
      <3>2. m.pc = "dup" => \E f \in Linked' : datamx'[f] = u
        BY <1>5, <1>6, <1>9, <1>a, <1>e, <3>1
      <3> QED BY <2>0, <2>a, <3>2 DEF DupOK
    <2>8. NotPassed(u)'
      <3>1. m.op = "add" /\ m.pc = "walk" =>
              /\ Chain(m.at)' = Chain(m.at) \ {e}
              /\ \A f \in Chain(m.bkt) : key[f] = m.want => f \in Chain(m.at)
        BY <1>5, <2>a, <2>c, <2>e DEF ThreadOK, NotPassed
      <3>2. m.op = "add" /\ m.pc = "walk" =>
              \A f \in Chain(m.bkt)' : key[f] = m.want => f \in Chain(m.at)'
        BY <2>d, <3>1
      <3> QED BY <1>b, <2>0, <2>a, <3>2 DEF NotPassed
    <2>9. Absent(u)'
      <3>1. m.pc = "link" => \A f \in Chain(m.bkt)' : key[f] # m.want
        BY <2>a, <2>c, <2>d DEF ThreadOK, Absent
      <3> QED BY <1>b, <2>0, <2>a, <3>1 DEF Absent
    <2>10. TraverseOK(u)'
      <3>1. SUFFICES ASSUME m.op = "traverse" PROVE TraverseOK(u)'
        BY <2>0, <2>a DEF TraverseOK
      <3>2. /\ m.must \subseteq Linked
            /\ \A x \in Bucket : x > m.bkt => Chain(x) \cap m.seen = {}
            /\ \A x \in Bucket :
                 x < m.bkt => m.must \cap Chain(x) \subseteq m.seen
            /\ Chain(Place(m)) \cap m.seen = {}
            /\ m.must \cap Chain(m.bkt) \subseteq m.seen \cup Chain(Place(m))
        BY <2>a, <2>c, <3>1 DEF ThreadOK, TraverseOK
      <3>3. PICK q \in Stem : q = Place(m) /\ q = Place(n) /\ q # e
        <4>1. Place(m) \in Stem
          BY <2>a, <3>1, PlaceFacts
        <4>2. Place(n) = Place(m)
          BY <2>0 DEF Place
        <4>3. Place(m) # e
          BY <1>6, <2>b, <2>e, <2>f DEF Place
        <4> QED BY <4>1, <4>2, <4>3
      <3>4. Chain(q)' = Chain(q) \ {e}
        BY <1>5, <3>3
      <3>5. n.must \subseteq Linked'
        BY <1>5, <2>0, <3>2
      <3>6. \A x \in Bucket : x > n.bkt => Chain(x)' \cap n.seen = {}
        BY <1>6, <2>0, <3>2
      <3>7. \A x \in Bucket :
              x < n.bkt => n.must \cap Chain(x)' \subseteq n.seen
        BY <1>6, <2>0, <3>2
      <3>8. Chain(q)' \cap n.seen = {}
        BY <2>0, <3>2, <3>3, <3>4
      <3>9. n.must \cap Chain(n.bkt)' \subseteq n.seen \cup Chain(q)'
        BY <2>0, <2>d, <3>2, <3>3, <3>4
      <3>10. Place(th[u])' = q
        BY <2>a, <3>3 DEF Place
      <3> QED BY <2>a, <3>5, <3>6, <3>7, <3>8, <3>9, <3>10 DEF TraverseOK
    <2>11. SeenOK(u)'
      <3>1. \A f \in m.seen : mem'[f] # "unused"
        BY <1>e, <2>a, <2>b, <2>c DEF ThreadOK, SeenOK
      <3> QED BY <2>0, <2>a, <3>1 DEF SeenOK
    <2> QED BY <2>1, <2>2, <2>3, <2>4, <2>5, <2>6, <2>7, <2>8, <2>9, <2>10,
               <2>11 DEF ThreadOK
  <1>10. Fresh'
    BY <1>c, <1>d, IdleFacts, FreshKeeps DEF Pending
  <1>11. CountExact'
    <2>1. Adders' = Adders
      BY <1>a, <1>c, <1>d, IdleFacts DEF Adders
    <2>2. Unlinkers' = Unlinkers \ {t} /\ t \in Unlinkers
      BY <1>a, <1>c, <1>d, IdleFacts DEF Unlinkers
    <2>3. /\ IsFiniteSet(Unlinkers) /\ Cardinality(Adders) \in Nat
          /\ IsFiniteSet(Linked)
          /\ Cardinality(Linked) \in Nat /\ Cardinality(Unlinkers) \in Nat
          /\ count = Cardinality(Linked) + Cardinality(Adders)
                     - Cardinality(Unlinkers)
      BY CountFacts
    <2>4. Cardinality(Unlinkers') = Cardinality(Unlinkers) - 1
      BY <2>2, <2>3, FS_RemoveElement
    <2>5. Cardinality(Linked') = Cardinality(Linked) - 1
      BY <1>5, <2>3, FS_RemoveElement
    <2>6. count' = Cardinality(Linked') + Cardinality(Adders')
                   - Cardinality(Unlinkers')
      BY <1>b, <2>1, <2>3, <2>4, <2>5
    <2> QED BY <2>6 DEF CountExact, Adders, Unlinkers
  <1> QED BY <1>4, <1>7, <1>8, <1>9, <1>10, <1>11

(* hashtbl_empty *)
LEMMA EmptyStep ==
  ASSUME HashtblInv, Empty
  PROVE  HashtblInv'
  <1> USE DEF HashtblInv
  <1>a. /\ nxt' = [x \in Node |-> IF x \in Bucket THEN Null ELSE nxt[x]]
        /\ mem' = [e \in Elt |-> IF e \in Linked THEN "freed" ELSE mem[e]]
        /\ count' = 0
        /\ UNCHANGED <<key, ptrmx, datamx, uniqmx, th, doomed, left>>
    BY DEF Empty, mutexes
  <1>b. \A t \in Thread : th[t].pc = "idle" /\ th[t].op = "none"
    BY DEF Empty, ThreadOK, OpOK
  <1>1. TypesOK'
    <2>1. nxt' \in [Node -> Elt \cup {Null}]
      BY <1>a DEF TypesOK
    <2>2. mem' \in [Elt -> {"unused", "live", "freed"}]
      BY <1>a DEF TypesOK
    <2> QED BY <1>a, <2>1, <2>2 DEF TypesOK
  <1>2. Linked' = {} /\ \A b \in Bucket : Chain(b)' = {}
    <2>1. PICK g : g = nxt'
      OBVIOUS
    <2>2. \A b \in Bucket : g[b] = Null
      BY <1>a, <2>1, NodeFacts
    <2>3. \A b \in Bucket : Reach(g, b) = {}
      BY <2>2, ReachEnd
    <2>4. \A x : Chain(x)' = Reach(g, x)
      BY <2>1, NextChains
    <2>5. \A b \in Bucket : Chain(b)' = {}
      BY <2>3, <2>4
    <2>6. Linked' = UNION {Chain(x)' : x \in Bucket}
      BY DEF Linked, Chain
    <2> QED BY <2>5, <2>6
  <1>3. TableOK'
    <2>1. OnePointer'
      <3>1. Stem' = Bucket
        BY <1>2 DEF Stem
      <3> QED BY <1>a, <3>1, NodeFacts DEF OnePointer
    <2> QED BY <1>2, <2>1 DEF TableOK, LinkedIsLive, RightBucket, UniqueKeys
  <1>4. Fresh'
    BY <1>a, <1>b DEF Fresh, Pending
  <1>5. ASSUME NEW t \in Thread PROVE ThreadOK(t)'
    <2>1. th'[t].pc = "idle" /\ th'[t].op = "none"
          /\ th'[t].seen = th[t].seen
      BY <1>a, <1>b
    <2>2. SeenOK(t)'
      <3>1. th[t].seen \subseteq Elt
        BY LocalFacts
      <3>2. \A e \in th[t].seen : mem[e] # "unused"
        BY DEF ThreadOK, SeenOK
      <3> QED BY <1>a, <2>1, <3>1, <3>2 DEF SeenOK
    <2> QED BY <2>1, <2>2
      DEF ThreadOK, OpOK, PendingOK, Pending, UniqOK, PtrOK, DeleteOK,
          HoldOK, DupOK, NotPassed, Absent, TraverseOK
  <1>6. CountExact'
    <2>1. Adders' = {} /\ Unlinkers' = {}
      BY <1>a, <1>b DEF Adders, Unlinkers
    <2>2. Cardinality({}) = 0
      BY FS_EmptySet
    <2>3. count' = Cardinality(Linked') + Cardinality(Adders')
                   - Cardinality(Unlinkers')
      BY <1>2, <1>a, <2>1, <2>2
    <2> QED BY <2>3 DEF CountExact, Adders, Unlinkers
  <1> QED BY <1>1, <1>3, <1>4, <1>5, <1>6

----------------------------------------------------------------------------
(* The table that the runs start with. *)

(* A set of natural numbers has a least one. *)
LEMMA LeastNumber ==
  ASSUME NEW T \in SUBSET Nat, T # {}
  PROVE  \E k \in T : \A i \in T : k <= i
  <1>1. PICK k \in T : \A i \in T : ~ (<<i, k>> \in OpToRel(<, Nat))
    BY NatLessThanWellFounded, WFMin
  <1>2. \A i \in T : ~ (i < k)
    BY <1>1 DEF OpToRel
  <1> QED BY <1>2

(* Every key of Initial has an element of its own. *)
LEMMA MadeFacts ==
  /\ Len(Initial) \in Nat /\ DOMAIN Initial = 1..Len(Initial)
  /\ \A i \in DOMAIN Initial : Initial[i] \in Key
  /\ \A i, j \in DOMAIN Initial : Initial[i] = Initial[j] => i = j
  /\ Made \in [DOMAIN Initial -> Elt]
  /\ \A i, j \in DOMAIN Initial : Made[i] = Made[j] => i = j
  /\ \A i \in DOMAIN Initial : PositionOf(Made, Made[i]) = i
  /\ \A e : e \in ToSet(Made) <=> \E i \in DOMAIN Initial : e = Made[i]
  <1>1. /\ Len(Initial) \in Nat /\ DOMAIN Initial = 1..Len(Initial)
        /\ \A i \in DOMAIN Initial : Initial[i] \in Key
    BY HashtblAssumption
  <1>2. \A i, j \in DOMAIN Initial : Initial[i] = Initial[j] => i = j
    BY HashtblAssumption DEF IsInjective
  <1>3. Cardinality(Elt) \in Nat /\ ExistsBijection(1..Cardinality(Elt), Elt)
    BY HashtblAssumption, FS_CardinalityType
  <1>4. \E f \in [1..Cardinality(Elt) -> Elt] : IsInjective(f)
    BY <1>3 DEF ExistsBijection, Bijection, Injection
  <1>5. PICK f \in [1..Cardinality(Elt) -> Elt] :
          f = SetToSeq(Elt) /\ IsInjective(f)
    BY <1>4 DEF SetToSeq
  <1>6. DOMAIN Initial \subseteq 1..Cardinality(Elt)
    BY <1>1, <1>3, HashtblAssumption
  <1>7. /\ Made \in [DOMAIN Initial -> Elt]
        /\ \A i \in DOMAIN Initial : Made[i] = f[i]
    BY <1>5, <1>6 DEF Made
  <1>8. \A i, j \in DOMAIN Initial : Made[i] = Made[j] => i = j
    BY <1>5, <1>6, <1>7 DEF IsInjective
  <1>9. ASSUME NEW i \in DOMAIN Initial PROVE PositionOf(Made, Made[i]) = i
    BY <1>7, <1>8 DEF PositionOf
  <1>10. \A e : e \in ToSet(Made) <=> \E i \in DOMAIN Initial : e = Made[i]
    BY <1>7 DEF ToSet
  <1> QED BY <1>1, <1>2, <1>7, <1>8, <1>9, <1>10

(* The element of the first position behind i. *)
LEMMA FirstFacts ==
  ASSUME NEW b, NEW i \in Nat
  PROVE  /\ Behind(b, i) = {} => FirstBehind(b, i) = Null
         /\ Behind(b, i) # {} =>
              \E j \in Behind(b, i) : /\ FirstBehind(b, i) = Made[j]
                                      /\ \A k \in Behind(b, i) : j <= k
  <1>1. ASSUME Behind(b, i) # {}
        PROVE  \E j \in Behind(b, i) : /\ FirstBehind(b, i) = Made[j]
                                       /\ \A k \in Behind(b, i) : j <= k
    <2>1. Behind(b, i) \in SUBSET Nat
      BY MadeFacts DEF Behind
    <2>2. \E j \in Behind(b, i) : \A k \in Behind(b, i) : j <= k
      BY <1>1, <2>1, LeastNumber
    <2>3. /\ Min(Behind(b, i)) \in Behind(b, i)
          /\ \A k \in Behind(b, i) : Min(Behind(b, i)) <= k
      BY <2>2 DEF Min
    <2> QED BY <1>1, <2>3 DEF FirstBehind
  <1> QED BY <1>1 DEF FirstBehind

(* Position i of the chain of bucket b: the bucket itself, or an element. *)
NodeAt(b, i) == IF i = 0 THEN b ELSE Made[i]
InChain(b, i) == i = 0 \/ (i \in DOMAIN Initial /\ HashOf[Initial[i]] = b)

(* The chains of the initial table. *)
LEMMA InitChains ==
  ASSUME HashtblInit
  PROVE  /\ TypesOK /\ RightBucket /\ OnePointer
         /\ Linked = ToSet(Made)
         /\ \A i \in DOMAIN Initial : key[Made[i]] = Initial[i]
  <1>1. /\ \A i \in DOMAIN Initial : key[Made[i]] = Initial[i]
        /\ key \in [Elt -> Key]
    BY MadeFacts, IdleFacts DEF HashtblInit
  <1>2. ASSUME NEW b \in Bucket PROVE nxt[b] = FirstBehind(b, 0)
    BY NodeFacts DEF HashtblInit
  <1>3. ASSUME NEW i \in DOMAIN Initial
        PROVE  nxt[Made[i]] = FirstBehind(HashOf[Initial[i]], i)
    <2>1. Made[i] \in Elt /\ Made[i] \in Node /\ Made[i] \notin Bucket
      BY MadeFacts, NodeFacts
    <2>2. Made[i] \in ToSet(Made) /\ PositionOf(Made, Made[i]) = i
      BY MadeFacts
    <2> QED BY <1>1, <2>1, <2>2 DEF HashtblInit
  <1>4. ASSUME NEW b \in Bucket, NEW i, InChain(b, i)
        PROVE  nxt[NodeAt(b, i)] = FirstBehind(b, i) /\ i \in Nat
               /\ NodeAt(b, i) \in Node
    BY <1>2, <1>3, <1>4, MadeFacts, NodeFacts DEF InChain, NodeAt
  <1>5. ASSUME NEW b \in Bucket, NEW i, InChain(b, i),
               nxt[NodeAt(b, i)] # Null
        PROVE  \E j \in Behind(b, i) : /\ nxt[NodeAt(b, i)] = Made[j]
                                       /\ \A k \in Behind(b, i) : j <= k
    BY <1>4, <1>5, FirstFacts
  <1>6. nxt \in [Node -> Elt \cup {Null}]
    <2>1. ASSUME NEW x \in Node PROVE nxt[x] \in Elt \cup {Null}
      <3>1. CASE x \in Bucket
        <4>1. InChain(x, 0) /\ NodeAt(x, 0) = x
          BY DEF InChain, NodeAt
        <4> QED BY <1>5, <3>1, <4>1, MadeFacts DEF Behind
      <3>2. CASE x \notin Bucket /\ x \in ToSet(Made)
        <4>1. PICK i \in DOMAIN Initial : x = Made[i]
          BY <3>2, MadeFacts
        <4>2. /\ HashOf[Initial[i]] \in Bucket
              /\ InChain(HashOf[Initial[i]], i)
              /\ NodeAt(HashOf[Initial[i]], i) = x
          BY <4>1, MadeFacts, HashtblAssumption DEF InChain, NodeAt
        <4> QED BY <1>5, <4>2, MadeFacts DEF Behind
      <3>3. CASE x \notin Bucket /\ x \notin ToSet(Made)
        BY <3>3 DEF HashtblInit
      <3> QED BY <3>1, <3>2, <3>3
    <2> QED BY <2>1 DEF HashtblInit
  <1>7. TypesOK
    <2>1. mem \in [Elt -> {"unused", "live", "freed"}]
      BY DEF HashtblInit
    <2>2. count \in Int
      BY MadeFacts DEF HashtblInit
    <2>3. th \in [Thread -> Local] /\ left \in [Thread -> 0..Budget]
      BY IdleFacts, HashtblAssumption DEF HashtblInit
    <2> QED BY <1>1, <1>6, <2>1, <2>2, <2>3 DEF TypesOK, HashtblInit
  <1>8. nxt \in Pointers
    BY <1>6 DEF Pointers
  <1>9. ASSUME NEW b \in Bucket
        PROVE  Chain(b) \subseteq
                 {Made[i] : i \in {j \in DOMAIN Initial :
                                     HashOf[Initial[j]] = b}}
    <2> DEFINE S == {Made[i] : i \in {j \in DOMAIN Initial :
                                        HashOf[Initial[j]] = b}}
    <2>1. S \in SUBSET Elt
      BY MadeFacts
    <2>2. ASSUME NEW i, InChain(b, i)
          PROVE  nxt[NodeAt(b, i)] \in S \cup {Null}
      BY <1>5, <2>2 DEF Behind
    <2>3. nxt[b] \in S \cup {Null}
      <3>1. InChain(b, 0) /\ NodeAt(b, 0) = b
        BY DEF InChain, NodeAt
      <3> QED BY <2>2, <3>1
    <2>4. Stays(nxt, S)
      <3>1. ASSUME NEW e \in S PROVE nxt[e] \in S \cup {Null}
        <4>1. PICK i \in DOMAIN Initial : HashOf[Initial[i]] = b
                                          /\ e = Made[i]
          OBVIOUS
        <4>2. InChain(b, i) /\ NodeAt(b, i) = e
          BY <4>1, MadeFacts DEF InChain, NodeAt
        <4> QED BY <2>2, <4>2
      <3> QED BY <3>1 DEF Stays
    <2> QED BY <2>1, <2>3, <2>4, ReachLeast DEF Chain
  <1>10. RightBucket
    BY <1>1, <1>9 DEF RightBucket
  <1>11. ToSet(Made) \subseteq Linked
    <2>1. SUFFICES ASSUME NEW e \in ToSet(Made), e \notin Linked PROVE FALSE
      OBVIOUS
    <2>2. \E i \in DOMAIN Initial : Made[i] \notin Linked
      BY <2>1, MadeFacts
    <2>3. PICK k \in DOMAIN Initial :
            /\ Made[k] \notin Linked
            /\ \A i \in DOMAIN Initial : Made[i] \notin Linked => k <= i
      <3>1. PICK T : T = {i \in DOMAIN Initial : Made[i] \notin Linked}
        OBVIOUS
      <3>2. T \in SUBSET Nat /\ T # {}
        BY <2>2, <3>1, MadeFacts
      <3>3. PICK k \in T : \A i \in T : k <= i
        BY <3>2, LeastNumber
      <3> QED BY <3>1, <3>3
    <2>4. PICK b \in Bucket : b = HashOf[Initial[k]]
      BY MadeFacts, HashtblAssumption
    <2>5. PICK i \in 0..(k - 1) :
            /\ InChain(b, i)
            /\ \A j \in 0..(k - 1) : InChain(b, j) => j <= i
      <3>0. k \in Nat /\ k >= 1
        BY MadeFacts
      <3>1. PICK T : T = {d \in 0..k : d >= 1 /\ InChain(b, k - d)}
        OBVIOUS
      <3>2. T \in SUBSET Nat /\ k \in T
        BY <3>0, <3>1 DEF InChain
      <3>3. PICK d \in T : \A c \in T : d <= c
        BY <3>2, LeastNumber
      <3>4. PICK i \in 0..(k - 1) : i = k - d
        BY <3>0, <3>1, <3>3
      <3>5. ASSUME NEW j \in 0..(k - 1), InChain(b, j) PROVE j <= i
        <4>1. k - (k - j) = j /\ k - j \in 0..k /\ k - j >= 1
          BY <3>0
        <4>2. k - j \in T
          BY <3>1, <3>5, <4>1
        <4>3. d <= k - j
          BY <3>3, <4>2
        <4>4. d \in Nat
          BY <3>2
        <4> QED BY <3>0, <3>4, <4>3, <4>4
      <3> QED BY <3>1, <3>3, <3>4, <3>5
    <2>6. k \in Behind(b, i)
      BY <2>4, <2>5, MadeFacts DEF Behind
    <2>7. PICK j \in Behind(b, i) : /\ nxt[NodeAt(b, i)] = Made[j]
                                    /\ \A m \in Behind(b, i) : j <= m
      BY <1>4, <2>5, <2>6, FirstFacts
    <2>8. j = k
      <3>1. j <= k /\ j \in DOMAIN Initial /\ i < j /\ InChain(b, j)
        BY <2>6, <2>7, MadeFacts DEF Behind, InChain
      <3>2. ~ j \in 0..(k - 1)
        BY <2>5, <3>1, MadeFacts
      <3> QED BY <3>1, <3>2, MadeFacts
    <2>9. NodeAt(b, i) \in Stem
      <3>1. CASE i = 0
        BY <3>1 DEF NodeAt, Stem
      <3>2. CASE i # 0
        <4>1. i \in DOMAIN Initial /\ i < k
          BY <2>5, <3>2, MadeFacts DEF InChain
        <4>2. Made[i] \in Linked
          BY <2>3, <4>1, MadeFacts
        <4> QED BY <3>2, <4>2 DEF NodeAt, Stem
      <3> QED BY <3>1, <3>2
    <2>10. Made[k] \in Linked \cup {Null} /\ Made[k] # Null
      BY <1>7, <2>7, <2>8, <2>9, ChainFacts, MadeFacts, NodeFacts
    <2> QED BY <2>3, <2>10
  <1>12. Linked \subseteq ToSet(Made)
    <2>1. \A b \in Bucket : Chain(b) \subseteq ToSet(Made)
      BY <1>9, MadeFacts
    <2> QED BY <2>1 DEF Linked
  <1>13. ASSUME NEW x \in Stem
         PROVE  \E b \in Bucket : \E i \in Nat :
                  InChain(b, i) /\ x = NodeAt(b, i)
    <2>1. CASE x \in Bucket
      <3>1. InChain(x, 0) /\ NodeAt(x, 0) = x /\ 0 \in Nat
        BY DEF InChain, NodeAt
      <3> QED BY <2>1, <3>1
    <2>2. CASE x \in Linked
      <3>1. PICK i \in DOMAIN Initial : x = Made[i]
        BY <1>12, <2>2, MadeFacts
      <3>2. /\ HashOf[Initial[i]] \in Bucket /\ i \in Nat
            /\ InChain(HashOf[Initial[i]], i)
            /\ NodeAt(HashOf[Initial[i]], i) = x
        BY <3>1, MadeFacts, HashtblAssumption DEF InChain, NodeAt
      <3> QED BY <3>2
    <2> QED BY <2>1, <2>2 DEF Stem
  <1>14. OnePointer
    <2>1. SUFFICES ASSUME NEW x \in Stem, NEW y \in Stem,
                          nxt[x] = nxt[y], nxt[x] # Null
                   PROVE  x = y
      BY DEF OnePointer
    <2>2. PICK b \in Bucket, i \in Nat : InChain(b, i) /\ x = NodeAt(b, i)
      BY <1>13
    <2>3. PICK c \in Bucket, m \in Nat : InChain(c, m) /\ y = NodeAt(c, m)
      BY <1>13
    <2>4. PICK j \in Behind(b, i) : /\ nxt[x] = Made[j]
                                    /\ \A n \in Behind(b, i) : j <= n
      BY <1>5, <2>1, <2>2
    <2>5. PICK k \in Behind(c, m) : /\ nxt[y] = Made[k]
                                    /\ \A n \in Behind(c, m) : k <= n
      BY <1>5, <2>1, <2>3
    <2>6. j = k /\ b = c /\ j \in DOMAIN Initial /\ i < j /\ m < j
      BY <2>1, <2>4, <2>5, MadeFacts DEF Behind
    <2>7. ~ i < m
      <3>1. SUFFICES ASSUME i < m PROVE FALSE
        OBVIOUS
      <3>2. m \in Behind(b, i)
        BY <2>3, <2>6, <3>1 DEF InChain, Behind
      <3> QED BY <2>4, <2>6, <3>2, MadeFacts
    <2>8. ~ m < i
      <3>1. SUFFICES ASSUME m < i PROVE FALSE
        OBVIOUS
      <3>2. i \in Behind(c, m)
        BY <2>2, <2>6, <3>1 DEF InChain, Behind
      <3> QED BY <2>5, <2>6, <3>2, MadeFacts
    <2>9. i = m
      BY <2>7, <2>8
    <2> QED BY <2>2, <2>3, <2>6, <2>9
  <1> QED BY <1>1, <1>7, <1>10, <1>11, <1>12, <1>14

(* The invariant holds in the beginning. *)
LEMMA HashtblStarts ==
  ASSUME HashtblInit
  PROVE  HashtblInv
  <1>1. /\ TypesOK /\ RightBucket /\ OnePointer /\ Linked = ToSet(Made)
        /\ \A i \in DOMAIN Initial : key[Made[i]] = Initial[i]
    BY InitChains
  <1>2. LinkedIsLive
    BY <1>1, ChainFacts DEF LinkedIsLive, HashtblInit
  <1>3. UniqueKeys
    BY <1>1, MadeFacts DEF UniqueKeys
  <1>4. \A t \in Thread : th[t] = Idle
    BY DEF HashtblInit
  <1>5. Fresh
    BY <1>4, IdleFacts DEF Fresh, Pending
  <1>6. ASSUME NEW t \in Thread PROVE ThreadOK(t)
    <2>1. th[t] = Idle
      BY <1>4
    <2> QED BY <2>1
        DEF ThreadOK, OpOK, PendingOK, Pending, UniqOK, PtrOK, DeleteOK,
            HoldOK, DupOK, NotPassed, Absent, TraverseOK, SeenOK, Idle
  <1>7. CountExact
    <2>1. Adders = {} /\ Unlinkers = {}
      BY <1>4, IdleFacts DEF Adders, Unlinkers
    <2>2. Cardinality({}) = 0
      BY FS_EmptySet
    <2>3. Cardinality(Linked) = Len(Initial)
      <3>1. Made \in Bijection(1..Len(Initial), ToSet(Made))
        BY MadeFacts DEF Bijection, Injection, Surjection, IsInjective
      <3>2. /\ IsFiniteSet(1..Len(Initial))
            /\ Cardinality(1..Len(Initial)) = Len(Initial)
        BY MadeFacts, FS_Interval
      <3>3. ExistsBijection(1..Len(Initial), ToSet(Made))
        BY <3>1 DEF ExistsBijection
      <3> QED BY <1>1, <3>2, <3>3, FS_Bijection
    <2>4. count = Cardinality(Linked) + Cardinality(Adders)
                  - Cardinality(Unlinkers)
      BY <2>1, <2>2, <2>3, MadeFacts DEF HashtblInit
    <2> QED BY <1>1, <2>4, CountFacts
  <1> QED BY <1>1, <1>2, <1>3, <1>5, <1>6, <1>7 DEF HashtblInv, TableOK

----------------------------------------------------------------------------
(* Every step keeps the invariant. *)
LEMMA HashtblGoesOn ==
  ASSUME HashtblInv, [HashtblNext]_vars
  PROVE  HashtblInv'
  <1>1. ASSUME NEW t \in Thread, Step(t) PROVE HashtblInv'
    BY <1>1, LockUniqStep, EnterStep, AdvanceStep, FoundStep, MissedStep,
       DuplicateStep, UndoCountStep, LinkStep, ReleaseStep,
       ReleaseAndDeleteStep, NextElementStep, UncountStep, UnlinkStep
       DEF Step
  <1>2. ASSUME UNCHANGED vars PROVE HashtblInv'
    <2>1. /\ UNCHANGED <<nxt, key, mem, count, ptrmx, datamx, uniqmx>>
          /\ UNCHANGED <<th, doomed, left>>
      BY <1>2 DEF vars, table, mutexes
    <2>2. Steady(Null) /\ Null \notin Thread
      BY <2>1, HashtblAssumption DEF Steady
    <2>3. TypesOK'
      BY <2>1 DEF HashtblInv, TypesOK
    <2>4. TableOK'
      BY <2>2, TableKeeps
    <2>5. ASSUME NEW u \in Thread PROVE ThreadOK(u)'
      <3>1. u # Null
        BY <2>2
      <3> QED BY <2>2, <3>1, OthersKeep
    <2>6. Fresh'
      BY <2>1 DEF HashtblInv, Fresh, Pending
    <2>7. CountExact'
      <3>1. Linked' = Linked
        BY <2>1, SameChains
      <3> QED BY <2>1, <3>1 DEF HashtblInv, CountExact
    <2> QED BY <2>3, <2>4, <2>5, <2>6, <2>7 DEF HashtblInv
  <1> QED BY <1>1, <1>2, BeginFindStep, BeginAddStep, BeginTraverseStep,
             EmptyStep DEF HashtblNext, Finished

(* HashtblInv is an invariant. *)
THEOREM HashtblInvariant == HashtblSpec => []HashtblInv
  BY HashtblStarts, HashtblGoesOn, PTL DEF HashtblSpec

(* The types of hashtbl.c's variables; count, which is unsigned, never     *)
(* goes below 0, since a thread that has uncounted an element but not yet  *)
(* unlinked it holds one that no other such thread holds.                  *)
THEOREM HashtblTypeCorrect == HashtblSpec => []HashtblTypeOK
  <1>1. ASSUME HashtblInv PROVE HashtblTypeOK
    <2>1. TypesOK
      BY <1>1 DEF HashtblInv
    <2>2. count \in Nat
      <3> DEFINE f == [t \in Unlinkers |-> th[t].elt]
      <3>1. /\ IsFiniteSet(Linked) /\ Cardinality(Linked) \in Nat
            /\ Cardinality(Adders) \in Nat /\ Cardinality(Unlinkers) \in Nat
            /\ count = Cardinality(Linked) + Cardinality(Adders)
                       - Cardinality(Unlinkers)
        BY <1>1, <2>1, CountFacts DEF HashtblInv
      <3>2. ASSUME NEW t \in Unlinkers
            PROVE  th[t].elt \in Linked /\ datamx[th[t].elt] = t
        <4>1. t \in Thread /\ th[t].pc = "unlink"
          BY DEF Unlinkers
        <4>2. th[t].bkt \in Bucket
          BY <2>1, <4>1, LocalFacts
        <4>3. /\ th[t].at \in {th[t].bkt} \cup Chain(th[t].bkt)
              /\ th[t].elt \in Elt /\ nxt[th[t].at] = th[t].elt
              /\ datamx[th[t].elt] = t
          BY <1>1, <4>1 DEF HashtblInv, ThreadOK, PtrOK, DeleteOK
        <4>4. th[t].elt \in Chain(th[t].bkt)
          BY <2>1, <4>2, <4>3, ChainFacts, NodeFacts
        <4> QED BY <4>2, <4>3, <4>4 DEF Linked
      <3>3. f \in Injection(Unlinkers, Linked)
        BY <3>2 DEF Injection, IsInjective
      <3>4. Cardinality(Unlinkers) <= Cardinality(Linked)
        <4> HIDE DEF f
        <4> QED BY <3>1, <3>3, FS_Injection
      <3> QED BY <3>1, <3>4
    <2> QED BY <2>1, <2>2 DEF TypesOK, HashtblTypeOK
  <1> QED BY <1>1, HashtblInvariant, PTL

(* No key is in the table twice, however many threads add it at the same   *)
(* time: hashtbl_add_element's walk under uniq_mutex has seen all of the   *)
(* bucket when it links.                                                   *)
THEOREM KeysAreUnique == HashtblSpec => []UniqueKeys
  <1>1. HashtblInv => UniqueKeys
    BY DEF HashtblInv, TableOK
  <1> QED BY <1>1, HashtblInvariant, PTL

(* hashtbl_delete_element frees nothing that another thread uses, stands   *)
(* on or waits for.                                                        *)
THEOREM NothingDangles == HashtblSpec => []NoDangling
  <1>1. ASSUME HashtblInv PROVE NoDangling
    <2>1. ASSUME NEW t \in Thread, NEW e \in Elt,
                 \/ th[t].pc = "walk" /\ e \in {th[t].at, nxt[th[t].at]}
                 \/ /\ th[t].pc \in {"uncount", "unlink"}
                    /\ e \in {th[t].at, th[t].elt}
                 \/ th[t].pc = "hold" /\ e = th[t].elt
          PROVE  mem[e] = "live"
      <3>0. /\ TypesOK /\ ThreadOK(t)
            /\ \A x \in Linked : mem[x] = "live"
        BY <1>1 DEF HashtblInv, TableOK, LinkedIsLive
      <3>1. th[t].bkt \in Bucket /\ th[t].bkt \notin Elt
        BY <3>0, LocalFacts, NodeFacts
      <3>2. Chain(th[t].bkt) \subseteq Linked
        BY <3>1 DEF Linked
      <3>3. CASE th[t].pc = "hold" /\ e = th[t].elt
        BY <3>0, <3>2, <3>3 DEF ThreadOK, HoldOK
      <3>4. CASE /\ th[t].pc \in {"walk", "uncount", "unlink"}
                 /\ e \in {th[t].at, nxt[th[t].at]}
        <4>1. th[t].at \in {th[t].bkt} \cup Chain(th[t].bkt)
          BY <3>0, <3>4 DEF ThreadOK, PtrOK
        <4>2. nxt[th[t].at] \in Chain(th[t].bkt) \cup {Null}
          BY <3>0, <3>1, <4>1, ChainFacts
        <4> QED BY <3>0, <3>1, <3>2, <3>4, <4>1, <4>2, NodeFacts
      <3>5. CASE th[t].pc \in {"uncount", "unlink"} /\ e = th[t].elt
        <4>1. nxt[th[t].at] = e
          BY <3>0, <3>5 DEF ThreadOK, DeleteOK
        <4> QED BY <3>4, <3>5, <4>1
      <3> QED BY <2>1, <3>3, <3>4, <3>5
    <2> QED BY <2>1 DEF NoDangling
  <1> QED BY <1>1, HashtblInvariant, PTL

(* h->count is the number of elements in the table, but for threads in the *)
(* middle of an operation.                                                 *)
THEOREM CountIsExact == HashtblSpec => []CountExact
  <1>1. HashtblInv => CountExact
    BY DEF HashtblInv
  <1> QED BY <1>1, HashtblInvariant, PTL

(* hashtbl_ts_traverse reports what stays in the table, and nothing twice. *)
THEOREM TraversalsAreExact == HashtblSpec => TraversalExact
  <1>1. ASSUME HashtblInv, [HashtblNext]_vars, NEW t \in Thread,
               th[t].op = "traverse", th[t].pc = "walk"
        PROVE  /\ th'[t].pc = "idle" => th[t].must \subseteq th[t].seen
               /\ th'[t].pc = "hold" => th'[t].elt \notin th[t].seen
    <2>0. TypesOK /\ ThreadOK(t) /\ th[t] \in Local
      BY <1>1 DEF HashtblInv, TypesOK
    <2>1. Place(th[t]) = th[t].at
      BY <1>1 DEF Place
    <2>2. /\ th[t].must \subseteq Linked
          /\ \A b \in Bucket :
               b < th[t].bkt => th[t].must \cap Chain(b) \subseteq th[t].seen
          /\ Chain(th[t].at) \cap th[t].seen = {}
          /\ th[t].must \cap Chain(th[t].bkt)
               \subseteq th[t].seen \cup Chain(th[t].at)
      BY <1>1, <2>0, <2>1 DEF ThreadOK, TraverseOK
    <2>3. /\ th[t].bkt \in Bucket
          /\ nxt[th[t].at] = Null => Chain(th[t].at) = {}
          /\ nxt[th[t].at] # Null => nxt[th[t].at] \in Chain(th[t].at)
      BY <1>1, WalkFacts
    <2>4. CASE th'[t].pc = "walk"
      BY <2>4
    <2>5. CASE Found(t)
      <3>1. th' = [th EXCEPT ![t] =
                     [th[t] EXCEPT !.pc = "hold", !.elt = nxt[th[t].at],
                            !.seen = th[t].seen \cup {nxt[th[t].at]}]]
        BY <1>1, <2>5 DEF Found, Become
      <3>2. th'[t] = [th[t] EXCEPT !.pc = "hold", !.elt = nxt[th[t].at],
                            !.seen = th[t].seen \cup {nxt[th[t].at]}]
        BY <2>0, <3>1 DEF TypesOK
      <3>3. th'[t].pc = "hold" /\ th'[t].elt = nxt[th[t].at]
        BY <2>0, <3>2 DEF Local
      <3>4. nxt[th[t].at] # Null
        BY <2>5 DEF Found
      <3> QED BY <2>2, <2>3, <3>3, <3>4
    <2>6. CASE Missed(t)
      <3>1. nxt[th[t].at] = Null
        BY <2>6 DEF Missed
      <3>2. CASE th[t].bkt + 1 \in Bucket
        <4>1. th'[t] = [th[t] EXCEPT !.pc = "enter", !.bkt = th[t].bkt + 1]
          BY <1>1, <2>0, <2>6, <3>2 DEF Missed, Become, TypesOK
        <4>2. th'[t].pc = "enter"
          BY <2>0, <4>1 DEF Local
        <4> QED BY <4>2
      <3>3. CASE th[t].bkt + 1 \notin Bucket
        <4>1. th'[t] = Idle
          BY <1>1, <2>0, <2>6, <3>3 DEF Missed, Become, TypesOK
        <4>2. \A b \in Bucket : b < th[t].bkt \/ b = th[t].bkt
          BY <2>3, <3>3, HashtblAssumption DEF Bucket
        <4>3. \A e \in th[t].must : e \in th[t].seen
          <5>1. SUFFICES ASSUME NEW e \in th[t].must PROVE e \in th[t].seen
            OBVIOUS
          <5>2. PICK b \in Bucket : e \in Chain(b)
            BY <2>2 DEF Linked
          <5> QED BY <2>2, <2>3, <3>1, <4>2, <5>2
        <4> QED BY <4>1, <4>3, IdleFacts
      <3> QED BY <3>2, <3>3
    <2>7. ASSUME NEW u \in Thread, u # t,
                 \E l : Become(u, l)
          PROVE  th'[t].pc = "walk"
      BY <1>1, <2>0, <2>7 DEF Become, TypesOK
    <2>8. ASSUME NEW u \in Thread, Unlink(u) PROVE th'[t].pc = "walk"
      <3>1. u # t
        BY <1>1, <2>8 DEF Unlink
      <3>2. th'[t] = [th[t] EXCEPT !.must = th[t].must \ {th[u].elt}]
        BY <2>8, <3>1 DEF Unlink, Freed
      <3> QED BY <1>1, <2>0, <3>2 DEF Local
    <2>9. ASSUME NEW u \in Thread,
                 \/ \E k \in Key : BeginFind(u, k) \/ BeginAdd(u, k)
                 \/ BeginTraverse(u)
          PROVE  th'[t].pc = "walk"
      <3>1. u # t
        BY <1>1, <2>9 DEF BeginFind, BeginAdd, BeginTraverse, Begin
      <3>2. \E l : Become(u, l)
        BY <2>9 DEF BeginFind, BeginAdd, BeginTraverse
      <3> QED BY SMTT(30), <2>7, <3>1, <3>2
    <2>10. ASSUME NEW u \in Thread, Step(u), ~ Unlink(u)
           PROVE  \E l : Become(u, l)
      <3>1. CASE Found(u)
        <4>1. th[u].op \in {"none", "find", "add", "delete", "traverse"}
          BY <2>0, LocalFacts
        <4> QED BY <3>1, <4>1 DEF Found
      <3>2. CASE Missed(u)
        <4>1. CASE th[u].op = "add"
          BY <3>2, <4>1 DEF Missed
        <4>2. CASE th[u].op = "traverse" /\ th[u].bkt + 1 \in Bucket
          BY <3>2, <4>2 DEF Missed
        <4>3. CASE th[u].op # "add" /\ ~(th[u].op = "traverse"
                                         /\ th[u].bkt + 1 \in Bucket)
          BY <3>2, <4>3 DEF Missed
        <4> QED BY <4>1, <4>2, <4>3
      <3> QED BY <2>10, <3>1, <3>2
              DEF Step, LockUniq, Enter, Advance, Duplicate, UndoCount, Link,
                  Release, ReleaseAndDelete, NextElement, Uncount
    <2>11. CASE \E u \in Thread : u # t /\ Step(u)
      BY <2>4, <2>7, <2>8, <2>10, <2>11
    <2>12. CASE Step(t)
      <3>1. \/ Found(t) \/ Missed(t) \/ Advance(t)
        BY <1>1, <2>12
           DEF Step, LockUniq, Enter, Advance, Duplicate, UndoCount, Link,
               Release, ReleaseAndDelete, NextElement, Uncount, Unlink
      <3>2. ~ Advance(t)
        BY <1>1 DEF Advance, Matches
      <3> QED BY <2>5, <2>6, <3>1, <3>2
    <2>13. CASE Empty \/ Finished \/ UNCHANGED vars
      BY <1>1, <2>13 DEF Empty, Finished, vars
    <2> QED BY <1>1, <2>4, <2>9, <2>11, <2>12, <2>13 DEF HashtblNext
  <1>2. HashtblInv /\ [HashtblNext]_vars =>
          [\A t \in Thread :
             th[t].op = "traverse" /\ th[t].pc = "walk" =>
               /\ th'[t].pc = "idle" => th[t].must \subseteq th[t].seen
               /\ th'[t].pc = "hold" => th'[t].elt \notin th[t].seen]_vars
    BY <1>1
  <1> QED BY <1>2, HashtblInvariant, PTL DEF HashtblSpec, TraversalExact
=============================================================================
