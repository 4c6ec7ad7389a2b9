------------------------- MODULE Partitions_proofs -------------------------
(***************************************************************************)
(* Proofs about Partitions: the lists of macroblocks stay sound, the dev   *)
(* pointers are exact, partitions that are opened in time never claim the  *)
(* same macroblock, and requests within the size of a partition are tiled. *)
(*                                                                         *)
(* The first half is about the operators of Dllarr on any sound heap; the  *)
(* second half proves one inductive invariant, PartInv.                    *)
(***************************************************************************)
EXTENDS Partitions, FunctionTheorems, FiniteSetTheorems,
        WellFoundedInduction, TLAPS

Lists == Part \cup {Unallocated}

(* The list l of a heap with its two sentinels: node i, from the head, 0,  *)
(* to the tail.                                                            *)
Nd(h, l, i) ==
  IF i = 0 THEN Head_(l)
  ELSE IF i = Len(h.array[l]) + 1 THEN Tail_(l) ELSE h.array[l][i]

Members(h, l) == ToSet(h.array[l])

Unlisted(h) == {e \in Block : \A l \in Lists : e \notin Members(h, l)}

(* The links and the indices of the list l are those of its array, which   *)
(* has no element twice and has room.                                      *)
Linked(h, l) ==
  /\ \A i, j \in 1..Len(h.array[l]) : h.array[l][i] = h.array[l][j] => i = j
  /\ Len(h.array[l]) <= h.size[l] /\ h.size[l] >= 1
  /\ h.prev[Head_(l)] = Null /\ h.next[Tail_(l)] = Null
  /\ \A i \in 0..Len(h.array[l]) :
       /\ h.next[Nd(h, l, i)] = Nd(h, l, i + 1)
       /\ h.prev[Nd(h, l, i + 1)] = Nd(h, l, i)
       /\ h.index[Nd(h, l, i + 1)] = i

(* What Dllarr keeps true of a heap: every list is linked, no element is   *)
(* in two lists, and an element that is in no list is not linked.          *)
Sound(h) ==
  /\ h \in Heap /\ h.ok
  /\ \A l \in Lists : Linked(h, l)
  /\ \A l, m \in Lists : l # m => Members(h, l) \cap Members(h, m) = {}
  /\ \A e \in Unlisted(h) :
       h.prev[e] = Null /\ h.next[e] = Null /\ h.index[e] = 0

----------------------------------------------------------------------------
(* Facts about sequences and numbers. *)

(* r is the list s with e linked in at position i; without the element at  *)
(* position i.                                                             *)
IsInsert(r, s, i, e) ==
  /\ Len(r) = Len(s) + 1
  /\ \A k \in 1..(i - 1) : r[k] = s[k]
  /\ r[i] = e
  /\ \A k \in i..Len(s) : r[k + 1] = s[k]

IsRemove(r, s, i) ==
  /\ Len(r) = Len(s) - 1
  /\ \A k \in 1..(i - 1) : r[k] = s[k]
  /\ \A k \in i..(Len(s) - 1) : r[k] = s[k + 1]

(* InsertAt links an element in. *)
LEMMA InsertProperties ==
  ASSUME NEW S, NEW s \in Seq(S), NEW i \in 1..(Len(s) + 1), NEW e \in S
  PROVE  InsertAt(s, i, e) \in Seq(S) /\ IsInsert(InsertAt(s, i, e), s, i, e)
  <1>1. PICK l \in Seq(S) : l = SubSeq(s, 1, i - 1)
    <2>1. SubSeq(s, 1, i - 1) \in Seq(S)
      OBVIOUS
    <2> QED BY <2>1, Zenon
  <1>2. PICK r \in Seq(S) : r = SubSeq(s, i, Len(s))
    <2>1. SubSeq(s, i, Len(s)) \in Seq(S)
      OBVIOUS
    <2> QED BY <2>1, Zenon
  <1>3. Len(l) = i - 1 /\ \A k \in 1..(i - 1) : l[k] = s[k]
    BY <1>1
  <1>4. /\ Len(r) = Len(s) - i + 1
        /\ \A k \in 1..(Len(s) - i + 1) : r[k] = s[i + k - 1]
    BY <1>2
  <1>5. PICK m \in Seq(S) : m = l \o <<e>>
    <2>1. l \o <<e>> \in Seq(S)
      OBVIOUS
    <2> QED BY <2>1, Zenon
  <1>6. Len(m) = i /\ m[i] = e /\ \A k \in 1..(i - 1) : m[k] = s[k]
    BY SMTT(30), <1>3, <1>5
  <1>7. PICK w \in Seq(S) : w = m \o r
    <2>1. m \o r \in Seq(S)
      OBVIOUS
    <2> QED BY <2>1, Zenon
  <1>8. /\ Len(w) = Len(s) + 1
        /\ \A k \in 1..i : w[k] = m[k]
        /\ \A k \in 1..(Len(s) - i + 1) : w[i + k] = r[k]
    BY <1>4, <1>6, <1>7
  <1>9. ASSUME NEW k \in i..Len(s) PROVE w[k + 1] = s[k]
    <2>1. PICK j \in 1..(Len(s) - i + 1) : i + j = k + 1 /\ i + j - 1 = k
      <3>1. k - i + 1 \in 1..(Len(s) - i + 1) /\ i + (k - i + 1) = k + 1
            /\ i + (k - i + 1) - 1 = k
        OBVIOUS
      <3> QED BY <3>1
    <2>2. w[i + j] = r[j] /\ r[j] = s[i + j - 1]
      BY <1>4, <1>8
    <2> QED BY <2>1, <2>2
  <1>10. IsInsert(w, s, i, e)
    <2>1. \A k \in 1..(i - 1) : w[k] = s[k]
      BY <1>6, <1>8
    <2>2. w[i] = e
      BY <1>6, <1>8
    <2>3. \A k \in i..Len(s) : w[k + 1] = s[k]
      BY <1>9
    <2> QED BY <1>8, <2>1, <2>2, <2>3 DEF IsInsert
  <1>11. InsertAt(s, i, e) = w
    BY <1>1, <1>2, <1>5, <1>7 DEF InsertAt
  <1> QED BY <1>10, <1>11

(* RemoveAt takes an element out. *)
LEMMA RemoveProperties ==
  ASSUME NEW S, NEW s \in Seq(S), NEW i \in 1..Len(s)
  PROVE  RemoveAt(s, i) \in Seq(S) /\ IsRemove(RemoveAt(s, i), s, i)
  <1>1. PICK l \in Seq(S) : l = SubSeq(s, 1, i - 1)
    <2>1. SubSeq(s, 1, i - 1) \in Seq(S)
      OBVIOUS
    <2> QED BY <2>1, Zenon
  <1>2. PICK r \in Seq(S) : r = SubSeq(s, i + 1, Len(s))
    <2>1. SubSeq(s, i + 1, Len(s)) \in Seq(S)
      OBVIOUS
    <2> QED BY <2>1, Zenon
  <1>3. Len(l) = i - 1 /\ \A k \in 1..(i - 1) : l[k] = s[k]
    BY <1>1
  <1>4. Len(r) = Len(s) - i /\ \A k \in 1..(Len(s) - i) : r[k] = s[i + k]
    BY <1>2
  <1>5. PICK w \in Seq(S) : w = l \o r
    <2>1. l \o r \in Seq(S)
      OBVIOUS
    <2> QED BY <2>1, Zenon
  <1>6. /\ Len(w) = Len(s) - 1
        /\ \A k \in 1..(i - 1) : w[k] = s[k]
        /\ \A k \in 1..(Len(s) - i) : w[Len(l) + k] = r[k]
    BY SMTT(30), <1>3, <1>4, <1>5
  <1>7. ASSUME NEW k \in i..(Len(s) - 1) PROVE w[k] = s[k + 1]
    <2>1. PICK j \in 1..(Len(s) - i) : Len(l) + j = k /\ i + j = k + 1
      <3>1. /\ k - i + 1 \in 1..(Len(s) - i) /\ i - 1 + (k - i + 1) = k
            /\ i + (k - i + 1) = k + 1
        OBVIOUS
      <3> QED BY <1>3, <3>1
    <2>2. w[Len(l) + j] = r[j] /\ r[j] = s[i + j]
      BY <1>4, <1>6
    <2> QED BY <2>1, <2>2
  <1>8. IsRemove(w, s, i)
    BY <1>6, <1>7 DEF IsRemove
  <1>9. RemoveAt(s, i) = w
    BY <1>1, <1>2, <1>5 DEF RemoveAt
  <1> QED BY <1>8, <1>9

(* The members of a list. *)
LEMMA SeqMembers ==
  ASSUME NEW S, NEW s \in Seq(S)
  PROVE  /\ ToSet(s) \subseteq S
         /\ \A i \in 1..Len(s) : s[i] \in ToSet(s) /\ s[i] \in S
         /\ \A b \in ToSet(s) : \E i \in 1..Len(s) : s[i] = b
  BY DEF ToSet

(* The members of a list to which an element is added. *)
LEMMA InsertMembers ==
  ASSUME NEW S, NEW s \in Seq(S), NEW i \in 1..(Len(s) + 1), NEW e \in S,
         NEW r \in Seq(S), IsInsert(r, s, i, e)
  PROVE  ToSet(r) = ToSet(s) \cup {e}
  <1>1. ASSUME NEW b \in ToSet(r) PROVE b \in ToSet(s) \cup {e}
    <2>1. PICK k \in 1..Len(r) : r[k] = b
      BY <1>1, SeqMembers
    <2>2. CASE k < i
      <3>1. b = s[k] /\ k \in 1..Len(s)
        BY <2>1, <2>2 DEF IsInsert
      <3> QED BY <3>1, SeqMembers
    <2>3. CASE k = i
      BY <2>1, <2>3 DEF IsInsert
    <2>4. CASE k > i
      <3>1. k - 1 \in i..Len(s) /\ (k - 1) + 1 = k /\ k - 1 \in 1..Len(s)
        BY <2>4 DEF IsInsert
      <3>2. b = s[k - 1]
        BY <2>1, <3>1 DEF IsInsert
      <3> QED BY <3>1, <3>2, SeqMembers
    <2> QED BY <2>2, <2>3, <2>4
  <1>2. e \in ToSet(r)
    <2>1. r[i] = e /\ i \in 1..Len(r)
      BY DEF IsInsert
    <2> QED BY <2>1, SeqMembers
  <1>3. ASSUME NEW b \in ToSet(s) PROVE b \in ToSet(r)
    <2>1. PICK k \in 1..Len(s) : s[k] = b
      BY <1>3, SeqMembers
    <2>2. \/ r[k] = b /\ k \in 1..Len(r)
          \/ r[k + 1] = b /\ k + 1 \in 1..Len(r)
      BY <2>1 DEF IsInsert
    <2> QED BY <2>2, SeqMembers
  <1> QED BY <1>1, <1>2, <1>3

(* The members of a list from which an element is taken. *)
LEMMA RemoveMembers ==
  ASSUME NEW S, NEW s \in Seq(S), IsInjective(s), NEW i \in 1..Len(s),
         NEW r \in Seq(S), IsRemove(r, s, i)
  PROVE  ToSet(r) = ToSet(s) \ {s[i]} /\ IsInjective(r)
  <1>1. \A j, k \in 1..Len(s) : s[j] = s[k] => j = k
    BY DEF IsInjective
  <1>2. \A k \in 1..Len(r) : \/ r[k] = s[k] /\ k < i
                             \/ r[k] = s[k + 1] /\ k >= i
    BY DEF IsRemove
  <1>3. Len(r) = Len(s) - 1
    BY DEF IsRemove
  <1>4. ASSUME NEW b \in ToSet(r) PROVE b \in ToSet(s) \ {s[i]}
    <2>1. PICK k \in 1..Len(r) : r[k] = b
      BY <1>4, SeqMembers
    <2>2. \/ b = s[k] /\ k \in 1..Len(s) /\ k # i
          \/ b = s[k + 1] /\ k + 1 \in 1..Len(s) /\ k + 1 # i
      BY <1>2, <1>3, <2>1
    <2> QED BY <1>1, <2>2, SeqMembers
  <1>5. ASSUME NEW b \in ToSet(s) \ {s[i]} PROVE b \in ToSet(r)
    <2>1. PICK k \in 1..Len(s) : s[k] = b
      BY <1>5, SeqMembers
    <2>2. CASE k < i
      <3>1. r[k] = b /\ k \in 1..Len(r)
        BY <2>1, <2>2 DEF IsRemove
      <3> QED BY <3>1, SeqMembers
    <2>3. CASE k > i
      <3>1. k - 1 \in i..(Len(s) - 1) /\ (k - 1) + 1 = k /\ k - 1 \in 1..Len(r)
        BY <1>3, <2>3
      <3>2. r[k - 1] = b
        BY <2>1, <3>1 DEF IsRemove
      <3> QED BY <3>1, <3>2, SeqMembers
    <2> QED BY <1>5, <2>1, <2>2, <2>3
  <1>6. IsInjective(r)
    <2> SUFFICES ASSUME NEW j \in 1..Len(r), NEW k \in 1..Len(r), r[j] = r[k]
                 PROVE  j = k
      BY DEF IsInjective
    <2> QED BY <1>1, <1>2, <1>3
  <1> QED BY <1>4, <1>5, <1>6

(* A set of numbers that is not empty has a least one. *)
LEMMA LeastNumber ==
  ASSUME NEW T \in SUBSET Nat, T # {}
  PROVE  \E t \in T : \A u \in T : t <= u
  <1>1. PICK t \in T : \A u \in T : ~ (<<u, t>> \in OpToRel(<, Nat))
    BY NatLessThanWellFounded, WFMin
  <1>2. \A u \in T : ~ (u < t)
    BY <1>1 DEF OpToRel
  <1> QED BY <1>2

(* The constants: the blocks are finitely many, and no sentinel of a list  *)
(* is a block, the null pointer or a sentinel of another one.              *)
LEMMA Constants ==
  /\ IsFiniteSet(Block) /\ Cardinality(Block) \in Nat
  /\ Infos \in Seq(Block) /\ Block = ToSet(Infos)
  /\ \A i, j \in 1..Len(Infos) : Infos[i] = Infos[j] => i = j
  /\ Null \notin Block /\ Null \notin Part /\ Null \notin Lists
  /\ Unallocated \notin Part /\ Unallocated \in Lists /\ Part \subseteq Lists
  /\ \A l \in Lists : /\ Head_(l) \notin Block /\ Tail_(l) \notin Block
                      /\ Head_(l) # Null /\ Tail_(l) # Null
                      /\ Head_(l) \in Node /\ Tail_(l) \in Node
  /\ \A l, m : Head_(l) # Tail_(m)
  /\ \A l, m : Head_(l) = Head_(m) \/ Tail_(l) = Tail_(m) => l = m
  /\ Block \subseteq Node /\ Null \notin Node
  <1>1. Infos \in Seq(Block) /\ Block = ToSet(Infos)
    BY PartitionsAssumption DEF Block, ToSet, Range
  <1>2. \A i, j \in 1..Len(Infos) : Infos[i] = Infos[j] => i = j
    BY <1>1, PartitionsAssumption DEF IsInjective
  <1>3. IsFiniteSet(Block)
    <2>1. IsFiniteSet(1..Len(Infos))
      BY <1>1, FS_Interval
    <2>2. Block = {Infos[i] : i \in 1..Len(Infos)}
      BY <1>1 DEF ToSet
    <2> DEFINE F == [i \in 1..Len(Infos) |-> Infos[i]]
    <2>3. F \in Surjection(1..Len(Infos), Block)
      BY <2>2 DEF Surjection
    <2> QED BY <2>1, <2>3, FS_Surjection
  <1>4. Cardinality(Block) \in Nat
    BY <1>3, FS_CardinalityType
  <1>5. \A l, m : Head_(l) # Tail_(m)
    BY DEF Head_, Tail_
  <1>6. \A l, m : Head_(l) = Head_(m) \/ Tail_(l) = Tail_(m) => l = m
    BY DEF Head_, Tail_
  <1>7. \A l \in Lists : /\ Head_(l) \notin Block /\ Tail_(l) \notin Block
                         /\ Head_(l) # Null /\ Tail_(l) # Null
    BY PartitionsAssumption DEF Lists
  <1>8. /\ Null \notin Block /\ Null \notin Part /\ Null \notin Lists
        /\ Unallocated \notin Part /\ Unallocated \in Lists /\ Part \subseteq Lists
    BY PartitionsAssumption DEF Lists
  <1>9. Node = Block \cup {Head_(l) : l \in Lists} \cup {Tail_(l) : l \in Lists}
    BY DEF Node, Lists
  <1> QED BY <1>1, <1>2, <1>3, <1>4, <1>5, <1>6, <1>7, <1>8, <1>9

(* Induction up to n, on a set of numbers. *)
LEMMA UpTo ==
  ASSUME NEW n \in Nat, NEW T, 0 \in T,
         \A k \in 1..n : k - 1 \in T => k \in T
  PROVE  \A k \in 0..n : k \in T
  <1> DEFINE Bad == {k \in 0..n : k \notin T}
  <1> SUFFICES ASSUME Bad # {} PROVE FALSE
    OBVIOUS
  <1>1. Bad \in SUBSET Nat
    OBVIOUS
  <1> HIDE DEF Bad
  <1>2. PICK m \in Bad : \A u \in Bad : m <= u
    BY <1>1, LeastNumber
  <1> USE DEF Bad
  <1>3. m \in 1..n /\ m - 1 \in 0..n /\ ~ (m <= m - 1)
    BY <1>2
  <1>4. m - 1 \in T
    BY <1>2, <1>3
  <1> QED BY <1>2, <1>3, <1>4

(* The walk from a node is what its definition says. *)
LEMMA WalkDef ==
  ASSUME NEW h, NEW n
  PROVE  /\ DOMAIN Walk(h, n) = 0..(Cardinality(Block) + 1)
         /\ Walk(h, n)[0] = n
         /\ \A k \in 1..(Cardinality(Block) + 1) : Walk(h, n)[k] = IF h.next[Walk(h, n)[k - 1]] = Null
               THEN Walk(h, n)[k - 1] ELSE h.next[Walk(h, n)[k - 1]]
  <1> DEFINE Step(x, k) == IF h.next[x] = Null THEN x ELSE h.next[x]
             Rec(m, f) ==
               f = [k \in 0..m |-> IF k = 0 THEN n ELSE Step(f[k - 1], k)]
             T == {m \in 0..(Cardinality(Block) + 1) : \E f : Rec(m, f)}
             r == Walk(h, n)
  <1>0. (Cardinality(Block) + 1) \in Nat
    BY Constants
  <1>a. r = CHOOSE f : Rec((Cardinality(Block) + 1), f)
    BY DEF Walk
  <1> HIDE DEF Step, r
  <1>1. 0 \in T
    <2>1. PICK f : f = [k \in 0..0 |-> n]
      OBVIOUS
    <2>2. Rec(0, f)
      BY <2>1
    <2>3. \E g : Rec(0, g)
      BY <2>2
    <2> QED BY <1>0, <2>3
  <1>2. ASSUME NEW m \in 1..(Cardinality(Block) + 1), m - 1 \in T PROVE m \in T
    <2>1. PICK f : Rec(m - 1, f)
      BY <1>2
    <2>2. PICK g : g = [k \in 0..m |-> IF k = m THEN Step(f[m - 1], m) ELSE f[k]]
      OBVIOUS
    <2>3. ASSUME NEW k \in 0..m
          PROVE  g[k] = IF k = 0 THEN n ELSE Step(g[k - 1], k)
      <3>1. CASE k = m
        <4>1. m - 1 \in 0..m /\ m - 1 # m /\ m # 0
          BY <1>0
        <4>2. g[m - 1] = f[m - 1]
          BY <2>2, <4>1
        <4> QED BY <2>2, <3>1, <4>1, <4>2
      <3>2. CASE k # m
        <4>1. k \in 0..(m - 1) /\ g[k] = f[k]
          BY <1>0, <2>2, <3>2
        <4>2. f[k] = IF k = 0 THEN n ELSE Step(f[k - 1], k)
          BY <2>1, <4>1
        <4>3. k # 0 => k - 1 \in 0..m /\ k - 1 # m
          BY <1>0, <4>1
        <4>4. k # 0 => g[k - 1] = f[k - 1]
          BY <2>2, <4>3
        <4> QED BY <4>1, <4>2, <4>4
      <3> QED BY <3>1, <3>2
    <2>4. Rec(m, g)
      BY <2>2, <2>3
    <2>5. \E f_ : Rec(m, f_)
      BY <2>4
    <2> QED BY <1>0, <2>5
  <1> HIDE DEF T
  <1>b. \A k \in 1..(Cardinality(Block) + 1) : k - 1 \in T => k \in T
    BY <1>2
  <1>c. \A k \in 0..(Cardinality(Block) + 1) : k \in T
    BY <1>0, <1>1, <1>b, UpTo
  <1>3. (Cardinality(Block) + 1) \in T
    BY <1>0, <1>c
  <1> USE DEF T
  <1>4. Rec((Cardinality(Block) + 1), r)
    BY <1>3, <1>a
  <1>5. \A k \in 0..(Cardinality(Block) + 1) : r[k] = IF k = 0 THEN n ELSE Step(r[k - 1], k)
    BY <1>4
  <1>6. DOMAIN r = 0..(Cardinality(Block) + 1) /\ r[0] = n
    BY <1>0, <1>4, <1>5
  <1>7. \A k \in 1..(Cardinality(Block) + 1) : r[k] = Step(r[k - 1], k)
    BY <1>0, <1>5
  <1> QED BY <1>6, <1>7 DEF Step, r

(* The heaps of a loop over s are what their definition says. *)
LEMMA TransfersDef ==
  ASSUME NEW h, NEW S, NEW s \in Seq(S), NEW X, NEW from, NEW to, NEW F
  PROVE  /\ DOMAIN Transfers(h, s, X, from, to, F) = 0..Len(s)
         /\ Transfers(h, s, X, from, to, F)[0] = h
         /\ \A k \in 1..Len(s) : Transfers(h, s, X, from, to, F)[k] = IF s[k] \in X
               THEN Moved(Transfers(h, s, X, from, to, F)[k - 1], s[k], from, to, F[s[k]])
               ELSE Transfers(h, s, X, from, to, F)[k - 1]
  <1> DEFINE Step(x, k) == IF s[k] \in X THEN Moved(x, s[k], from, to, F[s[k]]) ELSE x
             Rec(m, f) ==
               f = [k \in 0..m |-> IF k = 0 THEN h ELSE Step(f[k - 1], k)]
             T == {m \in 0..Len(s) : \E f : Rec(m, f)}
             r == Transfers(h, s, X, from, to, F)
  <1>0. Len(s) \in Nat
    OBVIOUS
  <1>a. r = CHOOSE f : Rec(Len(s), f)
    BY DEF Transfers
  <1> HIDE DEF Step, r
  <1>1. 0 \in T
    <2>1. PICK f : f = [k \in 0..0 |-> h]
      OBVIOUS
    <2>2. Rec(0, f)
      BY <2>1
    <2>3. \E g : Rec(0, g)
      BY <2>2
    <2> QED BY <1>0, <2>3
  <1>2. ASSUME NEW m \in 1..Len(s), m - 1 \in T PROVE m \in T
    <2>1. PICK f : Rec(m - 1, f)
      BY <1>2
    <2>2. PICK g : g = [k \in 0..m |-> IF k = m THEN Step(f[m - 1], m) ELSE f[k]]
      OBVIOUS
    <2>3. ASSUME NEW k \in 0..m
          PROVE  g[k] = IF k = 0 THEN h ELSE Step(g[k - 1], k)
      <3>1. CASE k = m
        <4>1. m - 1 \in 0..m /\ m - 1 # m /\ m # 0
          BY <1>0
        <4>2. g[m - 1] = f[m - 1]
          BY <2>2, <4>1
        <4> QED BY <2>2, <3>1, <4>1, <4>2
      <3>2. CASE k # m
        <4>1. k \in 0..(m - 1) /\ g[k] = f[k]
          BY <1>0, <2>2, <3>2
        <4>2. f[k] = IF k = 0 THEN h ELSE Step(f[k - 1], k)
          BY <2>1, <4>1
        <4>3. k # 0 => k - 1 \in 0..m /\ k - 1 # m
          BY <1>0, <4>1
        <4>4. k # 0 => g[k - 1] = f[k - 1]
          BY <2>2, <4>3
        <4> QED BY <4>1, <4>2, <4>4
      <3> QED BY <3>1, <3>2
    <2>4. Rec(m, g)
      BY <2>2, <2>3
    <2>5. \E f_ : Rec(m, f_)
      BY <2>4
    <2> QED BY <1>0, <2>5
  <1> HIDE DEF T
  <1>b. \A k \in 1..Len(s) : k - 1 \in T => k \in T
    BY <1>2
  <1>c. \A k \in 0..Len(s) : k \in T
    BY <1>0, <1>1, <1>b, UpTo
  <1>3. Len(s) \in T
    BY <1>0, <1>c
  <1> USE DEF T
  <1>4. Rec(Len(s), r)
    BY <1>3, <1>a
  <1>5. \A k \in 0..Len(s) : r[k] = IF k = 0 THEN h ELSE Step(r[k - 1], k)
    BY <1>4
  <1>6. DOMAIN r = 0..Len(s) /\ r[0] = h
    BY <1>0, <1>4, <1>5
  <1>7. \A k \in 1..Len(s) : r[k] = Step(r[k - 1], k)
    BY <1>0, <1>5
  <1> QED BY <1>6, <1>7 DEF Step, r

----------------------------------------------------------------------------
(* The nodes of a sound heap. *)

(* The links a heap has. *)
LEMMA HeapFacts ==
  ASSUME NEW h \in Heap
  PROVE  /\ h.prev \in [Node -> Node \cup {Null}]
         /\ h.next \in [Node -> Node \cup {Null}]
         /\ h.index \in [Node -> Int]
         /\ h.array \in [Lists -> Seq(Block)]
         /\ h.size \in [Lists -> Nat]
         /\ \A l \in Lists : /\ h.array[l] \in Seq(Block)
                             /\ Len(h.array[l]) \in Nat
                             /\ h.size[l] \in Nat
  <1>1. /\ h.prev \in [Node -> Node \cup {Null}]
        /\ h.next \in [Node -> Node \cup {Null}]
        /\ h.index \in [Node -> Int]
        /\ h.array \in [Lists -> Seq(Block)]
        /\ h.size \in [Lists -> Nat]
    BY DEF Heap, Lists
  <1> QED BY <1>1

(* The heap with these fields. *)
HeapOf(p, n, i, a, s) ==
  [index |-> i, array |-> a, size |-> s, next |-> n, prev |-> p, ok |-> TRUE]

FieldsOK(p, n, i, a, s) ==
  /\ p \in [Node -> Node \cup {Null}] /\ n \in [Node -> Node \cup {Null}]
  /\ i \in [Node -> Int] /\ a \in [Lists -> Seq(Block)] /\ s \in [Lists -> Nat]

(* It is a heap in which no assertion has failed. *)
LEMMA MakeHeap ==
  ASSUME NEW p, NEW n, NEW i, NEW a, NEW s, FieldsOK(p, n, i, a, s),
         NEW g, g = HeapOf(p, n, i, a, s)
  PROVE  /\ g.index = i /\ g.array = a /\ g.size = s /\ g.next = n /\ g.prev = p
         /\ g.ok /\ g \in Heap
  <1>1. g \in Heap
    BY DEF FieldsOK, Heap, Lists, HeapOf
  <1> QED BY <1>1 DEF HeapOf

(* No assertion has failed. *)
LEMMA HeapOK ==
  ASSUME NEW h \in Heap, h.ok
  PROVE  h.ok = TRUE
  <1>1. h.ok \in BOOLEAN
    BY DEF Heap
  <1> QED BY <1>1, Zenon

(* The nodes of a list are the sentinels and the elements of its array. *)
LEMMA NodeFacts ==
  ASSUME NEW h, Sound(h), NEW l \in Lists
  PROVE  /\ Nd(h, l, 0) = Head_(l)
         /\ Nd(h, l, Len(h.array[l]) + 1) = Tail_(l)
         /\ \A i \in 1..Len(h.array[l]) :
              /\ Nd(h, l, i) = h.array[l][i]
              /\ Nd(h, l, i) \in Block /\ Nd(h, l, i) \in Members(h, l)
         /\ \A i \in 0..(Len(h.array[l]) + 1) : Nd(h, l, i) \in Node
         /\ \A i, j \in 0..(Len(h.array[l]) + 1) :
              Nd(h, l, i) = Nd(h, l, j) => i = j
         /\ \A e \in Members(h, l) : \E i \in 1..Len(h.array[l]) : Nd(h, l, i) = e
  <1> DEFINE s == h.array[l]
             n == Len(s)
  <1>1. h \in Heap /\ Linked(h, l)
    BY DEF Sound
  <1>2. s \in Seq(Block) /\ n \in Nat
    BY <1>1, HeapFacts
  <1>3. Nd(h, l, 0) = Head_(l)
    BY DEF Nd
  <1>4. Nd(h, l, n + 1) = Tail_(l)
    BY <1>2 DEF Nd
  <1>5. \A i \in 1..n : /\ Nd(h, l, i) = s[i]
                        /\ s[i] \in Block /\ s[i] \in Members(h, l)
    <2>1. \A i \in 1..n : Nd(h, l, i) = s[i]
      BY <1>2 DEF Nd
    <2>2. \A i \in 1..n : s[i] \in Block /\ s[i] \in Members(h, l)
      BY <1>2, SeqMembers DEF Members
    <2> QED BY <2>1, <2>2
  <1>6. \A i \in 0..(n + 1) : i = 0 \/ i \in 1..n \/ i = n + 1
    BY <1>2
  <1>7. \A i \in 0..(n + 1) : Nd(h, l, i) \in Node
    BY <1>3, <1>4, <1>5, <1>6, Constants
  <1>8. ASSUME NEW i \in 0..(n + 1), NEW j \in 0..(n + 1), Nd(h, l, i) = Nd(h, l, j)
        PROVE  i = j
    <2>1. \A x, y \in 1..n : s[x] = s[y] => x = y
      BY <1>1 DEF Linked
    <2> QED BY <1>3, <1>4, <1>5, <1>6, <1>8, <2>1, Constants
  <1>9. ASSUME NEW e \in Members(h, l) PROVE \E i \in 1..n : Nd(h, l, i) = e
    BY <1>2, <1>5, <1>9, SeqMembers DEF Members
  <1> QED BY <1>3, <1>4, <1>5, <1>7, <1>8, <1>9

(* No node is in two lists, and an unlisted element is in none. *)
LEMMA NodesApart ==
  ASSUME NEW h, Sound(h), NEW l \in Lists, NEW i \in 0..(Len(h.array[l]) + 1)
  PROVE  /\ \A m \in Lists : \A j \in 0..(Len(h.array[m]) + 1) :
              Nd(h, l, i) = Nd(h, m, j) => l = m /\ i = j
         /\ \A e \in Unlisted(h) : e # Nd(h, l, i)
  <1>0. \A m \in Lists : Len(h.array[m]) \in Nat
    BY HeapFacts DEF Sound
  <1>1. \A m \in Lists : \A j \in 0..(Len(h.array[m]) + 1) :
          j = 0 \/ j \in 1..Len(h.array[m]) \/ j = Len(h.array[m]) + 1
    BY <1>0
  <1>2. ASSUME NEW m \in Lists, NEW j \in 0..(Len(h.array[m]) + 1),
               Nd(h, l, i) = Nd(h, m, j)
        PROVE  l = m
    <2>1. CASE i \in 1..Len(h.array[l])
      <3>1. Nd(h, l, i) \in Block /\ Nd(h, l, i) \in Members(h, l)
        BY <2>1, NodeFacts
      <3>2. j \in 1..Len(h.array[m])
        BY <1>1, <1>2, <3>1, NodeFacts, Constants
      <3>3. Nd(h, m, j) \in Members(h, m)
        BY <3>2, NodeFacts
      <3> QED BY <1>2, <3>1, <3>3 DEF Sound
    <2>2. CASE i = 0 \/ i = Len(h.array[l]) + 1
      <3>1. Nd(h, l, i) \in {Head_(l), Tail_(l)}
        BY <2>2, NodeFacts
      <3>2. j = 0 \/ j = Len(h.array[m]) + 1
        BY <1>1, <1>2, <3>1, NodeFacts, Constants
      <3>3. Nd(h, m, j) \in {Head_(m), Tail_(m)}
        BY <3>2, NodeFacts
      <3> QED BY <1>2, <3>1, <3>3, Constants
    <2> QED BY <1>1, <2>1, <2>2
  <1>3. ASSUME NEW e \in Unlisted(h), e = Nd(h, l, i) PROVE FALSE
    <2>1. e \in Block /\ e \notin Members(h, l)
      BY DEF Unlisted
    <2> QED BY <1>1, <1>3, <2>1, NodeFacts, Constants
  <1> QED BY <1>2, <1>3, NodeFacts

(* An interval from 1 has as many elements as its upper end says. *)
LEMMA IntervalCard ==
  ASSUME NEW m \in Nat
  PROVE  IsFiniteSet(1..m) /\ Cardinality(1..m) = m
  <1>1. 1 \in Int /\ m \in Int
    OBVIOUS
  <1>2. IsFiniteSet(1..m) /\ Cardinality(1..m) = IF 1 > m THEN 0 ELSE m - 1 + 1
    BY <1>1, FS_Interval
  <1>3. (IF 1 > m THEN 0 ELSE m - 1 + 1) = m
    OBVIOUS
  <1> QED BY <1>2, <1>3

(* The array of a list is not longer than there are blocks. *)
LEMMA LengthBound ==
  ASSUME NEW h, Sound(h), NEW l \in Lists
  PROVE  /\ Len(h.array[l]) \in Nat /\ Len(h.array[l]) <= Cardinality(Block)
         /\ IsFiniteSet(Members(h, l))
         /\ Cardinality(Members(h, l)) = Len(h.array[l])
  <1> DEFINE s == h.array[l]
             D == 1..Len(s)
             T == ToSet(s)
             f == [k \in D |-> s[k]]
  <1>0. s \in Seq(Block) /\ Len(s) \in Nat
    BY HeapFacts DEF Sound
  <1>1. \A j, k \in D : s[j] = s[k] => j = k
    BY DEF Sound, Linked
  <1>2. f \in [D -> T]
    BY <1>0 DEF ToSet
  <1>3. \A t \in T : \E k \in D : f[k] = t
    BY SMTT(30), <1>0 DEF ToSet
  <1>4. f \in Bijection(D, T)
    BY <1>1, <1>2, <1>3, Fun_IsBij, Zenon
  <1>5. IsFiniteSet(D) /\ Cardinality(D) = Len(s)
    BY <1>0, IntervalCard
  <1>6. IsFiniteSet(T) /\ Cardinality(T) = Len(s)
    BY <1>4, <1>5, FS_Bijection DEF ExistsBijection
  <1>7. T \subseteq Block
    BY <1>0, SeqMembers
  <1>8. Cardinality(T) <= Cardinality(Block)
    BY <1>7, FS_Subset, Constants
  <1> QED BY <1>0, <1>6, <1>8 DEF Members

----------------------------------------------------------------------------
(* The walks. *)

(* A walk follows the nodes of the list to the tail, and stays there. *)
LEMMA WalkFacts ==
  ASSUME NEW h, Sound(h), NEW l \in Lists, NEW k \in 0..(Len(h.array[l]) + 1)
  PROVE  \A j \in 0..(Cardinality(Block) + 1) :
           Walk(h, Nd(h, l, k))[j] =
             Nd(h, l, IF k + j <= Len(h.array[l]) THEN k + j
                      ELSE Len(h.array[l]) + 1)
  <1> DEFINE n == Len(h.array[l])
             N == Cardinality(Block) + 1
             at == Walk(h, Nd(h, l, k))
             upto(j) == IF k + j <= n THEN k + j ELSE n + 1
             T == {j \in 0..N : at[j] = Nd(h, l, upto(j))}
  <1>0. n \in Nat /\ N \in Nat /\ k \in Nat /\ k <= n + 1
    BY LengthBound, Constants
  <1>1. 0 \in T
    <2>1. at[0] = Nd(h, l, k)
      BY WalkDef
    <2>2. upto(0) = k
      BY <1>0
    <2> QED BY <1>0, <2>1, <2>2
  <1>2. ASSUME NEW j \in 1..N, j - 1 \in T PROVE j \in T
    <2>1. at[j - 1] = Nd(h, l, upto(j - 1))
      BY <1>2
    <2>2. at[j] = IF h.next[at[j - 1]] = Null THEN at[j - 1] ELSE h.next[at[j - 1]]
      BY WalkDef
    <2> HIDE DEF at, N, n
    <2>3. CASE k + (j - 1) <= n
      <3>1. k + (j - 1) \in 0..n /\ upto(j - 1) = k + (j - 1)
        BY <1>0, <2>3
      <3>2. h.next[Nd(h, l, k + (j - 1))] = Nd(h, l, k + (j - 1) + 1)
        BY <3>1 DEF n, Sound, Linked
      <3>3. k + (j - 1) + 1 = upto(j) /\ upto(j) \in 0..(n + 1)
        BY <1>0, <2>3
      <3>4. Nd(h, l, upto(j)) # Null
        BY <3>3, NodeFacts, Constants DEF n
      <3> QED BY <2>1, <2>2, <3>1, <3>2, <3>3, <3>4
    <2>4. CASE ~ (k + (j - 1) <= n)
      <3>1. upto(j - 1) = n + 1 /\ upto(j) = n + 1
        BY <1>0, <2>4
      <3>2. h.next[Nd(h, l, n + 1)] = Null
        BY NodeFacts DEF n, Sound, Linked
      <3> QED BY <2>1, <2>2, <3>1, <3>2
    <2> QED BY <2>3, <2>4
  <1>3. \A j \in 1..N : j - 1 \in T => j \in T
    BY <1>2
  <1> HIDE DEF T
  <1>4. \A j \in 0..N : j \in T
    BY <1>0, <1>1, <1>3, UpTo
  <1> QED BY <1>4 DEF T

(* The nodes that a walk from node k meets are the ones from k on. *)
LEMMA WalkRange ==
  ASSUME NEW h, Sound(h), NEW l \in Lists, NEW k \in 0..(Len(h.array[l]) + 1)
  PROVE  Range(Walk(h, Nd(h, l, k))) =
           {Nd(h, l, i) : i \in k..(Len(h.array[l]) + 1)}
  <1> DEFINE n == Len(h.array[l])
             N == Cardinality(Block) + 1
             at == Walk(h, Nd(h, l, k))
             upto(j) == IF k + j <= n THEN k + j ELSE n + 1
  <1>0. n \in Nat /\ N \in Nat /\ n + 1 <= N /\ k \in Nat /\ k <= n + 1
    BY LengthBound, Constants
  <1>1. DOMAIN at = 0..N
    BY WalkDef
  <1>2. \A j \in 0..N : at[j] = Nd(h, l, upto(j))
    BY WalkFacts
  <1>3. Range(at) = {at[j] : j \in 0..N}
    BY <1>1 DEF Range
  <1> HIDE DEF at, N, n
  <1>4. \A j \in 0..N : upto(j) \in k..(n + 1)
    BY <1>0
  <1>5. \A i \in k..(n + 1) : i - k \in 0..N /\ upto(i - k) = i
    BY <1>0
  <1>6. Range(at) = {Nd(h, l, i) : i \in k..(n + 1)}
    <2>1. ASSUME NEW x \in Range(at) PROVE x \in {Nd(h, l, i) : i \in k..(n + 1)}
      <3>1. PICK j \in 0..N : x = at[j]
        BY <1>3
      <3> QED BY <1>2, <1>4, <3>1
    <2>2. ASSUME NEW i \in k..(n + 1) PROVE Nd(h, l, i) \in Range(at)
      <3>1. at[i - k] = Nd(h, l, i)
        BY <1>2, <1>5
      <3> QED BY <1>3, <1>5, <3>1
    <2> QED BY <2>1, <2>2
  <1> QED BY <1>6 DEF at, n

(* What dllarr_iterate visits is the array. *)
LEMMA IteratedIsArray ==
  ASSUME NEW h, Sound(h), NEW l \in Lists
  PROVE  Iterated(h, l) = h.array[l]
  <1> DEFINE s == h.array[l]
             n == Len(s)
             N == Cardinality(Block)
             at == Walk(h, Head_(l))
             K == {k \in 1..N : at[k] # Tail_(l)}
  <1>0. n \in Nat /\ N \in Nat /\ n <= N /\ s \in Seq(Block)
    BY LengthBound, Constants, HeapFacts DEF Sound
  <1>1. at = Walk(h, Nd(h, l, 0)) /\ 0 \in 0..(n + 1)
    BY <1>0, NodeFacts
  <1>2. \A j \in 0..(N + 1) : at[j] = Nd(h, l, IF j <= n THEN j ELSE n + 1)
    <2>1. \A j \in 0..(N + 1) :
            at[j] = Nd(h, l, IF 0 + j <= n THEN 0 + j ELSE n + 1)
      BY <1>1, WalkFacts
    <2>2. \A j \in 0..(N + 1) : 0 + j = j
      BY <1>0
    <2> QED BY <2>1, <2>2
  <1> HIDE DEF at
  <1>3. K = 1..n
    <2>1. ASSUME NEW k \in 1..N PROVE at[k] # Tail_(l) <=> k <= n
      <3>1. at[k] = Nd(h, l, IF k <= n THEN k ELSE n + 1)
        BY <1>0, <1>2
      <3>2. Tail_(l) = Nd(h, l, n + 1)
        BY NodeFacts
      <3>3. k <= n => k \in 0..(n + 1) /\ n + 1 \in 0..(n + 1) /\ k # n + 1
        BY <1>0
      <3>4. k <= n => Nd(h, l, k) # Nd(h, l, n + 1)
        BY <3>3, NodeFacts
      <3> QED BY <3>1, <3>2, <3>4
    <2> QED BY <1>0, <2>1
  <1>4. Cardinality(K) = n
    <2>1. Cardinality(1..n) = n
      BY <1>0, IntervalCard
    <2> HIDE DEF K
    <2> QED BY <1>3, <2>1
  <1>5. Iterated(h, l) = [k \in 1..Cardinality(K) |-> at[k]]
    BY DEF Iterated, at
  <1>6. \A k \in 1..n : at[k] = s[k]
    <2>1. \A k \in 1..n : at[k] = Nd(h, l, k)
      BY <1>0, <1>2
    <2> QED BY <2>1, NodeFacts
  <1>7. Iterated(h, l) = [k \in 1..n |-> s[k]]
    BY <1>4, <1>5, <1>6
  <1> QED BY <1>0, <1>7

(* A search ends at an element of the list, or finds nothing. *)
LEMMA IterateFinds ==
  ASSUME NEW h, Sound(h), NEW l \in Lists, NEW F
  PROVE  dllarr_iterate(h, l, F) \in Members(h, l) \cup {Null}
  <1> DEFINE s == h.array[l]
             hits == {i \in DOMAIN s : s[i] \in F}
  <1>1. s \in Seq(Block)
    BY HeapFacts DEF Sound
  <1>2. dllarr_iterate(h, l, F) = IF hits = {} THEN Null ELSE s[Min(hits)]
    BY IteratedIsArray DEF dllarr_iterate
  <1>3. ASSUME hits # {} PROVE Min(hits) \in hits
    <2>1. hits \in SUBSET Nat
      BY <1>1
    <2> HIDE DEF hits
    <2>2. \E x \in hits : \A y \in hits : x <= y
      BY <1>3, <2>1, LeastNumber
    <2> QED BY <2>2 DEF Min
  <1>4. hits # {} => s[Min(hits)] \in Members(h, l)
    BY <1>1, <1>3 DEF Members, ToSet
  <1> QED BY <1>2, <1>4

----------------------------------------------------------------------------
(* Insertion and removal. *)

(* Before a node of a list: the links of node k and of the one before it. *)
LEMMA LinkFacts ==
  ASSUME NEW h, Sound(h), NEW l \in Lists, NEW k \in 1..(Len(h.array[l]) + 1)
  PROVE  /\ h.prev[Nd(h, l, k)] = Nd(h, l, k - 1)
         /\ h.next[Nd(h, l, k - 1)] = Nd(h, l, k)
         /\ h.index[Nd(h, l, k)] = k - 1
         /\ Nd(h, l, k - 1) # Null /\ Nd(h, l, k) # Null
         /\ Nd(h, l, k - 1) \in Node /\ Nd(h, l, k) \in Node
         /\ dllarr_count(h, l) = Len(h.array[l])
  <1>0. Len(h.array[l]) \in Nat
    BY LengthBound
  <1>1. /\ k - 1 \in 0..Len(h.array[l]) /\ (k - 1) + 1 = k
        /\ k - 1 \in 0..(Len(h.array[l]) + 1) /\ k \in 0..(Len(h.array[l]) + 1)
    BY <1>0
  <1>2. Linked(h, l)
    BY DEF Sound
  <1>3. /\ h.next[Nd(h, l, k - 1)] = Nd(h, l, k)
        /\ h.prev[Nd(h, l, k)] = Nd(h, l, k - 1)
        /\ h.index[Nd(h, l, k)] = k - 1
    BY <1>1, <1>2 DEF Linked
  <1>4. Nd(h, l, k - 1) \in Node /\ Nd(h, l, k) \in Node
    BY <1>1, NodeFacts
  <1>5. h.index[Tail_(l)] = Len(h.array[l])
    <2>1. Len(h.array[l]) \in 0..Len(h.array[l])
      BY <1>0
    <2>2. h.index[Nd(h, l, Len(h.array[l]) + 1)] = Len(h.array[l])
      BY <1>2, <2>1 DEF Linked
    <2> QED BY <2>2, NodeFacts
  <1> QED BY <1>3, <1>4, <1>5, Constants DEF dllarr_count

(* The fields of a heap after an insertion in front of node k. *)
LEMMA InsertFields ==
  ASSUME NEW h, Sound(h), NEW l \in Lists, NEW e \in Unlisted(h),
         NEW k \in 1..(Len(h.array[l]) + 1), NEW at,
         at = IF k = Len(h.array[l]) + 1 THEN Null ELSE h.array[l][k],
         NEW g, g = dllarr_insert(h, l, e, at)
  PROVE  /\ g \in Heap /\ g.ok
         /\ g.array = [h.array EXCEPT ![l] = InsertAt(h.array[l], k, e)]
         /\ \A m \in Lists \ {l} : g.size[m] = h.size[m]
         /\ g.size[l] >= Len(h.array[l]) + 1 /\ g.size[l] >= 1
         /\ \A x \in Node :
              g.next[x] = IF x = e THEN Nd(h, l, k)
                          ELSE IF x = Nd(h, l, k - 1) THEN e ELSE h.next[x]
         /\ \A x \in Node :
              g.prev[x] = IF x = Nd(h, l, k) THEN e
                          ELSE IF x = e THEN Nd(h, l, k - 1) ELSE h.prev[x]
         /\ \A x \in Node :
              g.index[x] = IF x = e THEN k - 1
                           ELSE IF \E i \in k..(Len(h.array[l]) + 1) : x = Nd(h, l, i)
                           THEN h.index[x] + 1 ELSE h.index[x]
  <1> DEFINE n == Len(h.array[l])
             t == IF at = Null THEN Tail_(l) ELSE at
             T == Nd(h, l, k)
             B == Nd(h, l, k - 1)
             size == IF dllarr_count(h, l) = h.size[l] THEN 2 * h.size[l] ELSE h.size[l]
             behind == Range(Walk(h, T))
             index == [m \in Node |-> IF m \in behind THEN h.index[m] + 1 ELSE h.index[m]]
  <1>0. /\ n \in Nat /\ h.array[l] \in Seq(Block) /\ h.size[l] \in Nat
        /\ h \in Heap /\ e \in Block /\ e \in Node /\ h.ok
    BY LengthBound, HeapFacts, Constants DEF Sound, Unlisted
  <1>1. t = T
    <2>1. CASE k = n + 1
      BY <2>1, NodeFacts
    <2>2. CASE k # n + 1
      <3>1. k \in 1..n
        BY <1>0, <2>2
      <3>2. h.array[l][k] = T /\ T \in Block
        BY <3>1, NodeFacts
      <3> QED BY <2>2, <3>2, Constants
    <2> QED BY <2>1, <2>2
  <1>2. /\ h.prev[T] = B /\ h.next[B] = T /\ h.index[T] = k - 1
        /\ B # Null /\ B \in Node /\ T \in Node
        /\ dllarr_count(h, l) = n
    BY LinkFacts
  <1>3. h.prev[e] = Null /\ h.next[e] = Null /\ h.index[e] = 0
    BY DEF Sound
  <1>4. e # T /\ e # B /\ T # B
    <2>1. k \in 0..(n + 1) /\ k - 1 \in 0..(n + 1) /\ k # k - 1
      BY <1>0
    <2> QED BY <2>1, NodesApart
  <1>5. behind = {Nd(h, l, i) : i \in k..(n + 1)}
    <2>1. k \in 0..(n + 1)
      BY <1>0
    <2> QED BY <2>1, WalkRange
  <1>6. PICK a \in Seq(Block) : a = InsertAt(h.array[l], k, e)
    BY SMTT(30), <1>0, InsertProperties
  <1> HIDE DEF t, T, B, behind
  <1>7. g = [index |-> [index EXCEPT ![e] = k - 1],
             array |-> [h.array EXCEPT ![l] = a],
             size |-> [h.size EXCEPT ![l] = size],
             next |-> [h.next EXCEPT ![B] = e, ![e] = T],
             prev |-> [h.prev EXCEPT ![e] = B, ![T] = e],
             ok |-> h.ok]
    <2>1. g = [Renumbered(h, T, 1) EXCEPT
                 !.index[e] = k - 1, !.array[l] = InsertAt(@, k - 1 + 1, e),
                 !.size[l] = IF dllarr_count(h, l) = h.size[l] THEN 2 * @ ELSE @,
                 !.next[B] = e, !.prev[e] = B, !.next[e] = T, !.prev[T] = e]
      BY <1>1, <1>2, <1>3 DEF dllarr_insert, t
    <2>2. Renumbered(h, T, 1) = [h EXCEPT !.index = index]
      BY DEF Renumbered, behind
    <2>3. k - 1 + 1 = k
      BY <1>0
    <2> HIDE DEF index
    <2>4. h = [prev |-> h.prev, next |-> h.next, index |-> h.index,
               array |-> h.array, size |-> h.size, ok |-> h.ok]
      BY <1>0 DEF Heap
    <2>5. Renumbered(h, T, 1) = [prev |-> h.prev, next |-> h.next, index |-> index,
               array |-> h.array, size |-> h.size, ok |-> h.ok]
      BY <2>2, <2>4
    <2>6. PICK R : R = Renumbered(h, T, 1)
      OBVIOUS
    <2>7. /\ R = [prev |-> R.prev, next |-> R.next, index |-> R.index,
                  array |-> R.array, size |-> R.size, ok |-> R.ok]
          /\ R.prev = h.prev /\ R.next = h.next /\ R.index = index
          /\ R.array = h.array /\ R.size = h.size /\ R.ok = h.ok
      BY <2>5, <2>6
    <2>8. g = [index |-> [R.index EXCEPT ![e] = k - 1],
               array |-> [R.array EXCEPT ![l] = InsertAt(@, k - 1 + 1, e)],
               size |-> [R.size EXCEPT ![l] =
                           IF dllarr_count(h, l) = h.size[l] THEN 2 * @ ELSE @],
               next |-> [R.next EXCEPT ![B] = e, ![e] = T],
               prev |-> [R.prev EXCEPT ![e] = B, ![T] = e],
               ok |-> R.ok]
      <3>1. g = [R EXCEPT
                 !.index[e] = k - 1, !.array[l] = InsertAt(@, k - 1 + 1, e),
                 !.size[l] = IF dllarr_count(h, l) = h.size[l] THEN 2 * @ ELSE @,
                 !.next[B] = e, !.prev[e] = B, !.next[e] = T, !.prev[T] = e]
        BY <2>1, <2>6
      <3> QED BY ZenonT(60), <2>7, <3>1
    <2> QED BY <1>6, <2>3, <2>7, <2>8
  <1>8. PICK i2, n2, p2, a2, s2 :
          /\ i2 = [index EXCEPT ![e] = k - 1]
          /\ a2 = [h.array EXCEPT ![l] = a]
          /\ s2 = [h.size EXCEPT ![l] = size]
          /\ n2 = [h.next EXCEPT ![B] = e, ![e] = T]
          /\ p2 = [h.prev EXCEPT ![e] = B, ![T] = e]
    OBVIOUS
  <1>9. /\ h.prev \in [Node -> Node \cup {Null}]
        /\ h.next \in [Node -> Node \cup {Null}]
        /\ h.index \in [Node -> Int]
        /\ h.array \in [Lists -> Seq(Block)]
        /\ h.size \in [Lists -> Nat]
    BY <1>0, HeapFacts
  <1>10. index \in [Node -> Int]
    BY <1>9
  <1>11. i2 \in [Node -> Int] /\ \A x \in Node : i2[x] = IF x = e THEN k - 1 ELSE index[x]
    <2> HIDE DEF index
    <2> QED BY <1>0, <1>8, <1>10
  <1>12. a2 \in [Lists -> Seq(Block)]
    BY <1>8, <1>9
  <1>13. s2 \in [Lists -> Nat] /\ \A m \in Lists : s2[m] = IF m = l THEN size ELSE h.size[m]
    BY <1>0, <1>8, <1>9
  <1>14. /\ n2 \in [Node -> Node \cup {Null}]
         /\ \A x \in Node : n2[x] = IF x = e THEN T ELSE IF x = B THEN e ELSE h.next[x]
    BY <1>0, <1>2, <1>4, <1>8, <1>9
  <1>15. /\ p2 \in [Node -> Node \cup {Null}]
         /\ \A x \in Node : p2[x] = IF x = T THEN e ELSE IF x = e THEN B ELSE h.prev[x]
    BY <1>0, <1>2, <1>4, <1>8, <1>9
  <1>16. g = [index |-> i2, array |-> a2, size |-> s2, next |-> n2, prev |-> p2,
              ok |-> h.ok]
    BY <1>7, <1>8
  <1>17. /\ g.index = i2 /\ g.array = a2 /\ g.size = s2 /\ g.next = n2 /\ g.prev = p2
         /\ g.ok /\ g \in Heap
    <2>1. /\ i2 \in [Node -> Int] /\ a2 \in [Lists -> Seq(Block)]
          /\ n2 \in [Node -> Node \cup {Null}] /\ p2 \in [Node -> Node \cup {Null}]
          /\ s2 \in [Lists -> Nat]
      BY <1>11, <1>12, <1>13, <1>14, <1>15
    <2>2. h.ok = TRUE
      BY <1>0, HeapOK
    <2>3. g = HeapOf(p2, n2, i2, a2, s2)
      BY <1>16, <2>2 DEF HeapOf
    <2>4. FieldsOK(p2, n2, i2, a2, s2)
      BY <2>1 DEF FieldsOK
    <2> QED BY <2>3, <2>4, MakeHeap
  <1>18. size >= n + 1 /\ size >= 1
    <2>1. n <= h.size[l] /\ h.size[l] >= 1
      BY DEF Sound, Linked
    <2> QED BY SMTT(30), <1>0, <1>2, <2>1
  <1>19. \A x \in Node : index[x] = IF \E i \in k..(n + 1) : x = Nd(h, l, i)
                                    THEN h.index[x] + 1 ELSE h.index[x]
    BY <1>5
  <1> HIDE DEF index, size
  <1>20. \A x \in Node : g.index[x] = IF x = e THEN k - 1
                           ELSE IF \E i \in k..(n + 1) : x = Nd(h, l, i)
                           THEN h.index[x] + 1 ELSE h.index[x]
    BY <1>11, <1>17, <1>19
  <1>21. g.array = [h.array EXCEPT ![l] = InsertAt(h.array[l], k, e)]
    BY <1>6, <1>8, <1>17
  <1>22. /\ \A m \in Lists \ {l} : g.size[m] = h.size[m]
         /\ g.size[l] >= n + 1 /\ g.size[l] >= 1
    BY <1>13, <1>17, <1>18
  <1>23. \A x \in Node : g.next[x] = IF x = e THEN T ELSE IF x = B THEN e ELSE h.next[x]
    BY <1>14, <1>17
  <1>24. \A x \in Node : g.prev[x] = IF x = T THEN e ELSE IF x = e THEN B ELSE h.prev[x]
    BY <1>15, <1>17
  <1> HIDE DEF n
  <1>25. g \in Heap /\ g.ok
    BY <1>17
  <1> QED BY <1>20, <1>21, <1>22, <1>23, <1>24, <1>25, Zenon DEF T, B, n

(* The nodes of the other lists are not touched by a change of list l that *)
(* changes the links of its own nodes, and of unlisted elements, only.     *)
LEMMA OthersLinked ==
  ASSUME NEW h, Sound(h), NEW l \in Lists, NEW g,
         NEW m \in Lists \ {l}, g.array[m] = h.array[m], g.size[m] = h.size[m],
         \A x \in Node :
           \/ x \in Unlisted(h)
           \/ \E i \in 0..(Len(h.array[l]) + 1) : x = Nd(h, l, i)
           \/ /\ g.next[x] = h.next[x] /\ g.prev[x] = h.prev[x]
              /\ g.index[x] = h.index[x]
  PROVE  Linked(g, m)
  <1>0. Len(h.array[m]) \in Nat /\ Linked(h, m)
    BY LengthBound DEF Sound
  <1>1. \A i : Nd(g, m, i) = Nd(h, m, i)
    BY DEF Nd
  <1>2. ASSUME NEW i \in 0..(Len(h.array[m]) + 1)
        PROVE  /\ g.next[Nd(h, m, i)] = h.next[Nd(h, m, i)]
               /\ g.prev[Nd(h, m, i)] = h.prev[Nd(h, m, i)]
               /\ g.index[Nd(h, m, i)] = h.index[Nd(h, m, i)]
    <2>1. Nd(h, m, i) \in Node /\ Nd(h, m, i) \notin Unlisted(h)
      BY NodeFacts, NodesApart
    <2>2. \A j \in 0..(Len(h.array[l]) + 1) : Nd(h, m, i) # Nd(h, l, j)
      BY NodesApart
    <2> QED BY <2>1, <2>2
  <1>3. g.prev[Head_(m)] = Null /\ g.next[Tail_(m)] = Null
    <2>1. 0 \in 0..(Len(h.array[m]) + 1)
          /\ Len(h.array[m]) + 1 \in 0..(Len(h.array[m]) + 1)
      BY <1>0
    <2>2. Head_(m) = Nd(h, m, 0) /\ Tail_(m) = Nd(h, m, Len(h.array[m]) + 1)
      BY NodeFacts
    <2>3. h.prev[Head_(m)] = Null /\ h.next[Tail_(m)] = Null
      BY <1>0 DEF Linked
    <2> QED BY <1>2, <2>1, <2>2, <2>3
  <1>4. ASSUME NEW i \in 0..Len(h.array[m])
        PROVE  /\ g.next[Nd(h, m, i)] = Nd(h, m, i + 1)
               /\ g.prev[Nd(h, m, i + 1)] = Nd(h, m, i)
               /\ g.index[Nd(h, m, i + 1)] = i
    <2>1. i \in 0..(Len(h.array[m]) + 1) /\ i + 1 \in 0..(Len(h.array[m]) + 1)
      BY <1>0
    <2> QED BY <1>0, <1>2, <2>1 DEF Linked
  <1> QED BY <1>0, <1>1, <1>3, <1>4 DEF Linked

(* dllarr_insert keeps a heap sound. *)
LEMMA InsertSound ==
  ASSUME NEW h, Sound(h), NEW l \in Lists, NEW e \in Unlisted(h),
         NEW at \in Members(h, l) \cup {Null},
         NEW g, g = dllarr_insert(h, l, e, at)
  PROVE  /\ Sound(g)
         /\ Members(g, l) = Members(h, l) \cup {e}
         /\ \A m \in Lists \ {l} : g.array[m] = h.array[m]
  <1> DEFINE s == h.array[l]
             n == Len(s)
             r == g.array[l]
  <1>0. n \in Nat /\ s \in Seq(Block) /\ e \in Block /\ e \in Node /\ h \in Heap
    BY LengthBound, HeapFacts, Constants DEF Sound, Unlisted
  <1>1. PICK k \in 1..(n + 1) : at = IF k = n + 1 THEN Null ELSE s[k]
    <2>1. CASE at = Null
      BY <1>0, <2>1
    <2>2. CASE at \in Members(h, l)
      <3>1. PICK k \in 1..n : s[k] = at
        BY <1>0, <2>2, SeqMembers DEF Members
      <3>2. k \in 1..(n + 1) /\ k # n + 1
        BY <1>0
      <3> QED BY <3>1, <3>2
    <2> QED BY <2>1, <2>2
  <1> DEFINE T == Nd(h, l, k)
             B == Nd(h, l, k - 1)
  <1>f. /\ g \in Heap /\ g.ok
        /\ g.array = [h.array EXCEPT ![l] = InsertAt(h.array[l], k, e)]
        /\ \A m \in Lists \ {l} : g.size[m] = h.size[m]
        /\ g.size[l] >= Len(h.array[l]) + 1 /\ g.size[l] >= 1
        /\ \A x \in Node :
             g.next[x] = IF x = e THEN Nd(h, l, k)
                         ELSE IF x = Nd(h, l, k - 1) THEN e ELSE h.next[x]
        /\ \A x \in Node :
             g.prev[x] = IF x = Nd(h, l, k) THEN e
                         ELSE IF x = e THEN Nd(h, l, k - 1) ELSE h.prev[x]
        /\ \A x \in Node :
             g.index[x] = IF x = e THEN k - 1
                          ELSE IF \E i \in k..(Len(h.array[l]) + 1) : x = Nd(h, l, i)
                          THEN h.index[x] + 1 ELSE h.index[x]
    BY <1>1, InsertFields
  <1>2. g \in Heap /\ g.ok
    BY <1>f
  <1>3. g.array = [h.array EXCEPT ![l] = InsertAt(s, k, e)]
    BY <1>f
  <1>4. /\ \A m \in Lists \ {l} : g.size[m] = h.size[m]
        /\ g.size[l] >= n + 1 /\ g.size[l] >= 1
    BY <1>f
  <1>5. \A x \in Node : g.next[x] = IF x = e THEN T ELSE IF x = B THEN e ELSE h.next[x]
    BY <1>f
  <1>6. \A x \in Node : g.prev[x] = IF x = T THEN e ELSE IF x = e THEN B ELSE h.prev[x]
    BY <1>f
  <1>7. \A x \in Node : g.index[x] = IF x = e THEN k - 1
                           ELSE IF \E i \in k..(n + 1) : x = Nd(h, l, i)
                           THEN h.index[x] + 1 ELSE h.index[x]
    BY <1>f
  <1>8. h.array \in [Lists -> Seq(Block)]
    BY <1>0, HeapFacts
  <1>9. /\ r = InsertAt(s, k, e) /\ r \in Seq(Block) /\ IsInsert(r, s, k, e)
        /\ \A m \in Lists \ {l} : g.array[m] = h.array[m]
    <2>1. r = InsertAt(s, k, e) /\ \A m \in Lists \ {l} : g.array[m] = h.array[m]
      BY <1>3, <1>8
    <2> QED BY <1>0, <1>1, <2>1, InsertProperties
  <1> HIDE DEF r, n, s, T, B
  <1>10. Len(r) = n + 1
    BY <1>9 DEF IsInsert, n
  <1>11. Members(g, l) = Members(h, l) \cup {e}
    BY <1>0, <1>9, InsertMembers DEF Members, r, s, n
  <1>12. /\ \A j \in 0..(k - 1) : Nd(g, l, j) = Nd(h, l, j)
         /\ Nd(g, l, k) = e
         /\ \A j \in k..(n + 1) : Nd(g, l, j + 1) = Nd(h, l, j)
    <2>0. k \in Nat /\ k >= 1 /\ k <= n + 1
      BY <1>0
    <2>1. ASSUME NEW j \in 0..(k - 1) PROVE Nd(g, l, j) = Nd(h, l, j)
      <3>1. CASE j = 0
        BY <3>1 DEF Nd
      <3>2. CASE j # 0
        <4>1. j \in 1..(k - 1) /\ j # n + 1 /\ j # n + 1 + 1
          BY <1>0, <2>0, <3>2
        <4>2. r[j] = s[j]
          BY <1>9, <4>1 DEF IsInsert
        <4> QED BY <1>10, <3>2, <4>1, <4>2 DEF Nd, r, s, n
      <3> QED BY <3>1, <3>2
    <2>2. Nd(g, l, k) = e
      <3>1. k # 0 /\ k # n + 1 + 1 /\ r[k] = e
        BY <1>0, <1>9, <2>0 DEF IsInsert
      <3> QED BY <1>10, <3>1 DEF Nd, r
    <2>3. ASSUME NEW j \in k..(n + 1) PROVE Nd(g, l, j + 1) = Nd(h, l, j)
      <3>1. CASE j = n + 1
        BY <1>0, <1>10, <3>1 DEF Nd, r, s, n
      <3>2. CASE j # n + 1
        <4>1. j \in k..n /\ j # 0 /\ j + 1 # 0 /\ j + 1 # n + 1 + 1
          BY <1>0, <2>0, <3>2
        <4>2. r[j + 1] = s[j]
          BY <1>9, <4>1 DEF IsInsert, n
        <4> QED BY <1>10, <3>2, <4>1, <4>2 DEF Nd, r, s, n
      <3> QED BY <3>1, <3>2
    <2> QED BY <2>1, <2>2, <2>3
  <1>13. /\ \A i \in 0..(n + 1) : Nd(h, l, i) \in Node /\ Nd(h, l, i) # e
         /\ \A i, j \in 0..(n + 1) : Nd(h, l, i) = Nd(h, l, j) => i = j
    BY NodeFacts, NodesApart DEF n, s
  <1>14. Linked(h, l)
    BY DEF Sound
  <1>15. ASSUME NEW i \in 0..(n + 1)
         PROVE  /\ g.next[Nd(g, l, i)] = Nd(g, l, i + 1)
                /\ g.prev[Nd(g, l, i + 1)] = Nd(g, l, i)
                /\ g.index[Nd(g, l, i + 1)] = i
    <2>0. k \in 0..(n + 1) /\ k - 1 \in 0..(n + 1) /\ k # k - 1
      BY <1>0
    <2>1. CASE i < k - 1
      <3>1. /\ i \in 0..(k - 1) /\ i + 1 \in 0..(k - 1) /\ i \in 0..n
            /\ i \in 0..(n + 1) /\ i + 1 \in 0..(n + 1) /\ i # k - 1 /\ i # k
            /\ i + 1 # k /\ \A j \in k..(n + 1) : j \in 0..(n + 1) /\ j # i + 1
        BY <1>0, <2>1
      <3>2. Nd(g, l, i) = Nd(h, l, i) /\ Nd(g, l, i + 1) = Nd(h, l, i + 1)
        BY <1>12, <3>1
      <3>3. /\ h.next[Nd(h, l, i)] = Nd(h, l, i + 1)
            /\ h.prev[Nd(h, l, i + 1)] = Nd(h, l, i)
            /\ h.index[Nd(h, l, i + 1)] = i
        BY <1>14, <3>1 DEF Linked, n, s
      <3>4. Nd(h, l, i) # B /\ Nd(h, l, i + 1) # T
            /\ ~ \E j \in k..(n + 1) : Nd(h, l, i + 1) = Nd(h, l, j)
        BY <1>13, <2>0, <3>1 DEF B, T
      <3> QED BY <1>5, <1>6, <1>7, <1>13, <3>1, <3>2, <3>3, <3>4
    <2>2. CASE i = k - 1
      <3>1. i \in 0..(k - 1) /\ i + 1 = k
        BY <1>0, <2>2
      <3>2. Nd(g, l, i) = B /\ Nd(g, l, i + 1) = e
        BY <1>12, <2>2, <3>1 DEF B
      <3>3. B \in Node /\ B # e /\ T # e
        BY <1>13, <2>0 DEF B, T
      <3> QED BY <1>0, <1>5, <1>6, <1>7, <2>2, <3>2, <3>3
    <2>3. CASE i = k
      <3>1. k \in k..(n + 1)
        BY <1>0
      <3>2. Nd(g, l, i) = e /\ Nd(g, l, i + 1) = T
        BY <1>12, <2>3, <3>1 DEF T
      <3>3. T \in Node /\ T # e /\ h.index[T] = k - 1
        BY <1>13, <2>0, LinkFacts DEF T, n, s
      <3>4. \E j \in k..(n + 1) : T = Nd(h, l, j)
        BY <3>1 DEF T
      <3>5. k - 1 + 1 = k
        BY <1>0
      <3> QED BY SMTT(30), <1>0, <1>5, <1>6, <1>7, <2>3, <3>2, <3>3, <3>4, <3>5
    <2>4. CASE i > k
      <3>1. /\ i - 1 \in k..(n + 1) /\ i \in k..(n + 1) /\ i - 1 + 1 = i
            /\ i - 1 \in 0..n /\ i - 1 \in 0..(n + 1) /\ i \in 0..(n + 1)
            /\ i # k /\ i - 1 # k - 1
        BY <1>0, <2>4
      <3>2. Nd(g, l, i) = Nd(h, l, i - 1) /\ Nd(g, l, i + 1) = Nd(h, l, i)
        BY <1>12, <3>1
      <3>3. /\ h.next[Nd(h, l, i - 1)] = Nd(h, l, i)
            /\ h.prev[Nd(h, l, i)] = Nd(h, l, i - 1)
            /\ h.index[Nd(h, l, i)] = i - 1
        BY <1>14, <3>1 DEF Linked, n, s
      <3>4. Nd(h, l, i - 1) # B /\ Nd(h, l, i) # T
            /\ \E j \in k..(n + 1) : Nd(h, l, i) = Nd(h, l, j)
        BY <1>13, <2>0, <3>1 DEF B, T
      <3> QED BY <1>5, <1>6, <1>7, <1>13, <3>1, <3>2, <3>3, <3>4
    <2> QED BY <1>0, <2>1, <2>2, <2>3, <2>4
  <1>16. Linked(g, l)
    <2>1. \A i, j \in 1..Len(r) : r[i] = r[j] => i = j
      <3>0. e \notin ToSet(s) /\ \A i, j \in 1..n : s[i] = s[j] => i = j
        BY <1>14 DEF Unlisted, Members, Linked, s, n
      <3>1. ASSUME NEW i \in 1..Len(r)
            PROVE  \/ i < k /\ i \in 1..n /\ r[i] = s[i]
                   \/ i = k /\ r[i] = e
                   \/ i > k /\ i - 1 \in 1..n /\ r[i] = s[i - 1]
        <4>1. CASE i < k
          BY <1>0, <1>9, <1>10, <4>1 DEF IsInsert
        <4>2. CASE i = k
          BY <1>9, <4>2 DEF IsInsert
        <4>3. CASE i > k
          <5>1. i - 1 \in k..n /\ i - 1 + 1 = i /\ i - 1 \in 1..n
            BY <1>0, <1>10, <4>3
          <5> QED BY <1>9, <4>3, <5>1 DEF IsInsert, n
        <4> QED BY <1>0, <1>10, <4>1, <4>2, <4>3
      <3>2. \A i \in 1..n : s[i] # e
        BY <1>0, <3>0, SeqMembers DEF n
      <3> QED BY SMTT(30), <1>0, <1>10, <3>0, <3>1, <3>2
    <2>2. Len(r) <= g.size[l] /\ g.size[l] >= 1
      BY <1>4, <1>10
    <2>3. g.prev[Head_(l)] = Null /\ g.next[Tail_(l)] = Null
      <3>1. /\ 0 \in 0..(n + 1) /\ n + 1 \in 0..(n + 1) /\ k \in 0..(n + 1)
            /\ k - 1 \in 0..(n + 1) /\ k # 0 /\ n + 1 # k - 1
        BY <1>0
      <3>2. Head_(l) = Nd(h, l, 0) /\ Tail_(l) = Nd(h, l, n + 1)
        BY NodeFacts DEF n, s
      <3>3. /\ Head_(l) \in Node /\ Tail_(l) \in Node /\ Head_(l) # e /\ Tail_(l) # e
            /\ Head_(l) # T /\ Tail_(l) # B
        BY <1>13, <3>1, <3>2 DEF T, B
      <3> QED BY <1>5, <1>6, <1>14, <3>3 DEF Linked
    <2> QED BY <1>10, <1>15, <2>1, <2>2, <2>3 DEF Linked, r
  <1>17. ASSUME NEW x \in Node
         PROVE  \/ x \in Unlisted(h)
                \/ \E i \in 0..(n + 1) : x = Nd(h, l, i)
                \/ /\ g.next[x] = h.next[x] /\ g.prev[x] = h.prev[x]
                   /\ g.index[x] = h.index[x]
    <2>1. k \in 0..(n + 1) /\ k - 1 \in 0..(n + 1)
          /\ \A i \in k..(n + 1) : i \in 0..(n + 1)
      BY <1>0
    <2> QED BY <1>5, <1>6, <1>7, <2>1 DEF T, B
  <1>18. \A m \in Lists \ {l} : Linked(g, m)
    BY <1>4, <1>9, <1>17, OthersLinked DEF n, s
  <1>19. \A m \in Lists \ {l} : Members(g, m) = Members(h, m) /\ e \notin Members(h, m)
    BY <1>9 DEF Members, Unlisted
  <1>20. \A m, o \in Lists : m # o => Members(g, m) \cap Members(g, o) = {}
    BY <1>11, <1>19 DEF Sound
  <1>21. ASSUME NEW x \in Unlisted(g)
         PROVE  g.prev[x] = Null /\ g.next[x] = Null /\ g.index[x] = 0
    <2>1. x \in Unlisted(h) /\ x # e
      BY <1>11, <1>19 DEF Unlisted
    <2>2. /\ k \in 0..(n + 1) /\ k - 1 \in 0..(n + 1)
          /\ \A i \in k..(n + 1) : i \in 0..(n + 1)
      BY <1>0
    <2>3. \A i \in 0..(n + 1) : x # Nd(h, l, i)
      BY <2>1, NodesApart DEF n, s
    <2>4. x \in Node /\ h.prev[x] = Null /\ h.next[x] = Null /\ h.index[x] = 0
      BY <2>1, Constants DEF Sound, Unlisted
    <2> QED BY <1>5, <1>6, <1>7, <2>1, <2>2, <2>3, <2>4 DEF T, B
  <1>22. Sound(g)
    BY <1>2, <1>16, <1>18, <1>20, <1>21 DEF Sound
  <1> QED BY <1>9, <1>11, <1>22

(* The fields of a heap after the removal of node k. *)
LEMMA RemoveFields ==
  ASSUME NEW h, Sound(h), NEW l \in Lists, NEW k \in 1..Len(h.array[l]),
         NEW at, at = h.array[l][k], NEW g, g = dllarr_remove(h, l, at)
  PROVE  /\ g \in Heap /\ g.ok
         /\ g.array = [h.array EXCEPT ![l] = RemoveAt(h.array[l], k)]
         /\ g.size = h.size
         /\ \A x \in Node :
              g.next[x] = IF x = at THEN Null
                          ELSE IF x = Nd(h, l, k - 1) THEN Nd(h, l, k + 1)
                          ELSE h.next[x]
         /\ \A x \in Node :
              g.prev[x] = IF x = at THEN Null
                          ELSE IF x = Nd(h, l, k + 1) THEN Nd(h, l, k - 1)
                          ELSE h.prev[x]
         /\ \A x \in Node :
              g.index[x] = IF x = at THEN 0
                           ELSE IF \E i \in (k + 1)..(Len(h.array[l]) + 1) :
                                     x = Nd(h, l, i)
                           THEN h.index[x] - 1 ELSE h.index[x]
  <1> DEFINE n == Len(h.array[l])
             P == Nd(h, l, k - 1)
             Q == Nd(h, l, k + 1)
             behind == Range(Walk(h, Q))
             index == [m \in Node |-> IF m \in behind THEN h.index[m] + (-1)
                                                      ELSE h.index[m]]
  <1>0. /\ n \in Nat /\ h.array[l] \in Seq(Block) /\ h \in Heap /\ h.ok
    BY LengthBound, HeapFacts DEF Sound
  <1>a. /\ k \in 1..(n + 1) /\ k + 1 \in 1..(n + 1) /\ k + 1 - 1 = k
        /\ k - 1 \in 0..(n + 1) /\ k \in 0..(n + 1) /\ k + 1 \in 0..(n + 1)
        /\ k # k - 1 /\ k # k + 1 /\ k - 1 # k + 1 /\ k - 1 + 1 = k
    BY <1>0
  <1>1. at = Nd(h, l, k) /\ at \in Node
    BY <1>a, NodeFacts
  <1>2. /\ h.prev[at] = P /\ h.next[P] = at /\ h.index[at] = k - 1
        /\ P # Null /\ P \in Node
    BY <1>1, <1>a, LinkFacts
  <1>3. h.prev[Q] = at /\ h.next[at] = Q /\ Q # Null /\ Q \in Node
    <2>1. /\ h.prev[Nd(h, l, k + 1)] = Nd(h, l, k + 1 - 1)
          /\ h.next[Nd(h, l, k + 1 - 1)] = Nd(h, l, k + 1)
          /\ Nd(h, l, k + 1) # Null /\ Nd(h, l, k + 1) \in Node
      BY <1>a, LinkFacts
    <2> QED BY <1>1, <1>a, <2>1
  <1>4. at # P /\ at # Q /\ P # Q
    BY <1>1, <1>a, NodeFacts
  <1>5. behind = {Nd(h, l, i) : i \in (k + 1)..(n + 1)}
    BY <1>a, WalkRange
  <1>6. PICK a \in Seq(Block) : a = RemoveAt(h.array[l], k)
    BY <1>0, RemoveProperties
  <1> HIDE DEF P, Q, behind
  <1>7. g = [index |-> [index EXCEPT ![at] = 0],
             array |-> [h.array EXCEPT ![l] = a],
             size |-> h.size,
             next |-> [h.next EXCEPT ![P] = Q, ![at] = Null],
             prev |-> [h.prev EXCEPT ![Q] = P, ![at] = Null],
             ok |-> h.ok]
    <2>1. g = [Renumbered(h, Q, -1) EXCEPT
                 !.array[l] = RemoveAt(@, h.index[at] + 1),
                 !.prev[Q] = P, !.next[P] = Q, !.next[at] = Null,
                 !.prev[at] = Null, !.index[at] = 0]
      BY <1>2, <1>3 DEF dllarr_remove
    <2>2. Renumbered(h, Q, -1) = [h EXCEPT !.index = index]
      BY DEF Renumbered, behind
    <2>3. h.index[at] + 1 = k
      BY <1>2, <1>a
    <2> HIDE DEF index
    <2>4. h = [prev |-> h.prev, next |-> h.next, index |-> h.index,
               array |-> h.array, size |-> h.size, ok |-> h.ok]
      BY <1>0 DEF Heap
    <2>5. Renumbered(h, Q, -1) = [prev |-> h.prev, next |-> h.next, index |-> index,
               array |-> h.array, size |-> h.size, ok |-> h.ok]
      BY <2>2, <2>4
    <2>6. PICK R : R = Renumbered(h, Q, -1)
      OBVIOUS
    <2>7. /\ R = [prev |-> R.prev, next |-> R.next, index |-> R.index,
                  array |-> R.array, size |-> R.size, ok |-> R.ok]
          /\ R.prev = h.prev /\ R.next = h.next /\ R.index = index
          /\ R.array = h.array /\ R.size = h.size /\ R.ok = h.ok
      BY SMTT(30), <2>5, <2>6
    <2>8. g = [index |-> [R.index EXCEPT ![at] = 0],
               array |-> [R.array EXCEPT ![l] = RemoveAt(@, h.index[at] + 1)],
               size |-> R.size,
               next |-> [R.next EXCEPT ![P] = Q, ![at] = Null],
               prev |-> [R.prev EXCEPT ![Q] = P, ![at] = Null],
               ok |-> R.ok]
      <3>1. g = [R EXCEPT
                 !.array[l] = RemoveAt(@, h.index[at] + 1),
                 !.prev[Q] = P, !.next[P] = Q, !.next[at] = Null,
                 !.prev[at] = Null, !.index[at] = 0]
        BY <2>1, <2>6
      <3> QED BY ZenonT(60), <2>7, <3>1
    <2> QED BY <1>6, <2>3, <2>7, <2>8
  <1>8. PICK i2, n2, p2, a2 :
          /\ i2 = [index EXCEPT ![at] = 0]
          /\ a2 = [h.array EXCEPT ![l] = a]
          /\ n2 = [h.next EXCEPT ![P] = Q, ![at] = Null]
          /\ p2 = [h.prev EXCEPT ![Q] = P, ![at] = Null]
    OBVIOUS
  <1>9. /\ h.prev \in [Node -> Node \cup {Null}]
        /\ h.next \in [Node -> Node \cup {Null}]
        /\ h.index \in [Node -> Int]
        /\ h.array \in [Lists -> Seq(Block)]
        /\ h.size \in [Lists -> Nat]
    BY <1>0, HeapFacts
  <1>10. index \in [Node -> Int]
    BY <1>9
  <1>11. i2 \in [Node -> Int] /\ \A x \in Node : i2[x] = IF x = at THEN 0 ELSE index[x]
    <2> HIDE DEF index
    <2> QED BY <1>1, <1>8, <1>10
  <1>12. a2 \in [Lists -> Seq(Block)]
    BY <1>8, <1>9
  <1>14. /\ n2 \in [Node -> Node \cup {Null}]
         /\ \A x \in Node : n2[x] = IF x = at THEN Null ELSE IF x = P THEN Q ELSE h.next[x]
    BY <1>1, <1>2, <1>3, <1>4, <1>8, <1>9
  <1>15. /\ p2 \in [Node -> Node \cup {Null}]
         /\ \A x \in Node : p2[x] = IF x = at THEN Null ELSE IF x = Q THEN P ELSE h.prev[x]
    BY <1>1, <1>2, <1>3, <1>4, <1>8, <1>9
  <1>16. g = [index |-> i2, array |-> a2, size |-> h.size, next |-> n2, prev |-> p2,
              ok |-> h.ok]
    BY <1>7, <1>8
  <1>17. /\ g.index = i2 /\ g.array = a2 /\ g.size = h.size /\ g.next = n2
         /\ g.prev = p2 /\ g.ok /\ g \in Heap
    <2>1. /\ i2 \in [Node -> Int] /\ a2 \in [Lists -> Seq(Block)]
          /\ n2 \in [Node -> Node \cup {Null}] /\ p2 \in [Node -> Node \cup {Null}]
      BY <1>11, <1>12, <1>14, <1>15
    <2>2. PICK z \in [Lists -> Nat] : z = h.size
      BY <1>9
    <2>4. h.ok = TRUE
      BY <1>0, HeapOK
    <2>3. g = HeapOf(p2, n2, i2, a2, z)
      BY <1>16, <2>2, <2>4 DEF HeapOf
    <2>5. /\ g.index = i2 /\ g.array = a2 /\ g.size = z /\ g.next = n2
          /\ g.prev = p2 /\ g.ok /\ g \in Heap
      BY <2>1, <2>3 DEF HeapOf, Heap, Lists
    <2> QED BY <2>2, <2>5
  <1>19. \A x \in Node : index[x] = IF \E i \in (k + 1)..(n + 1) : x = Nd(h, l, i)
                                    THEN h.index[x] - 1 ELSE h.index[x]
    <2>1. \A x \in Node : h.index[x] + (-1) = h.index[x] - 1
      BY <1>9
    <2> QED BY <1>5, <2>1
  <1> HIDE DEF index
  <1>20. \A x \in Node : g.index[x] = IF x = at THEN 0
                           ELSE IF \E i \in (k + 1)..(n + 1) : x = Nd(h, l, i)
                           THEN h.index[x] - 1 ELSE h.index[x]
    BY <1>11, <1>17, <1>19
  <1>21. g.array = [h.array EXCEPT ![l] = RemoveAt(h.array[l], k)]
    BY <1>6, <1>8, <1>17
  <1>23. \A x \in Node : g.next[x] = IF x = at THEN Null ELSE IF x = P THEN Q ELSE h.next[x]
    BY <1>14, <1>17
  <1>24. \A x \in Node : g.prev[x] = IF x = at THEN Null ELSE IF x = Q THEN P ELSE h.prev[x]
    BY <1>15, <1>17
  <1> HIDE DEF n
  <1> QED BY <1>17, <1>20, <1>21, <1>23, <1>24, Zenon DEF P, Q, n

(* dllarr_remove keeps a heap sound. *)
LEMMA RemoveSound ==
  ASSUME NEW h, Sound(h), NEW l \in Lists, NEW e \in Members(h, l),
         NEW g, g = dllarr_remove(h, l, e)
  PROVE  /\ Sound(g)
         /\ Members(g, l) = Members(h, l) \ {e}
         /\ \A m \in Lists \ {l} : g.array[m] = h.array[m]
         /\ e \in Unlisted(g)
  <1> DEFINE s == h.array[l]
             n == Len(s)
             r == g.array[l]
  <1>0. n \in Nat /\ s \in Seq(Block) /\ h \in Heap
    BY LengthBound, HeapFacts DEF Sound
  <1>1. PICK k \in 1..n : s[k] = e
    BY <1>0, SeqMembers DEF Members
  <1>a. /\ k \in 1..(n + 1) /\ k + 1 \in 1..(n + 1) /\ n # 0
        /\ k - 1 \in 0..(n + 1) /\ k \in 0..(n + 1) /\ k + 1 \in 0..(n + 1)
        /\ k # k - 1 /\ k # k + 1 /\ k - 1 # k + 1 /\ k - 1 + 1 = k
        /\ \A i \in (k + 1)..(n + 1) : i \in 0..(n + 1)
    BY <1>0
  <1>b. e = Nd(h, l, k) /\ e \in Node /\ e \in Block
    BY <1>1, NodeFacts, Constants
  <1> DEFINE P == Nd(h, l, k - 1)
             Q == Nd(h, l, k + 1)
  <1>f. /\ g \in Heap /\ g.ok
        /\ g.array = [h.array EXCEPT ![l] = RemoveAt(h.array[l], k)]
        /\ g.size = h.size
        /\ \A x \in Node :
             g.next[x] = IF x = e THEN Null
                         ELSE IF x = Nd(h, l, k - 1) THEN Nd(h, l, k + 1)
                         ELSE h.next[x]
        /\ \A x \in Node :
             g.prev[x] = IF x = e THEN Null
                         ELSE IF x = Nd(h, l, k + 1) THEN Nd(h, l, k - 1)
                         ELSE h.prev[x]
        /\ \A x \in Node :
             g.index[x] = IF x = e THEN 0
                          ELSE IF \E i \in (k + 1)..(Len(h.array[l]) + 1) :
                                    x = Nd(h, l, i)
                          THEN h.index[x] - 1 ELSE h.index[x]
    BY SMTT(30), <1>1, RemoveFields
  <1>2. g \in Heap /\ g.ok /\ g.size = h.size
    BY <1>f
  <1>3. g.array = [h.array EXCEPT ![l] = RemoveAt(s, k)]
    BY <1>f
  <1>5. \A x \in Node : g.next[x] = IF x = e THEN Null ELSE IF x = P THEN Q ELSE h.next[x]
    BY <1>f
  <1>6. \A x \in Node : g.prev[x] = IF x = e THEN Null ELSE IF x = Q THEN P ELSE h.prev[x]
    BY <1>f
  <1>7. \A x \in Node : g.index[x] = IF x = e THEN 0
                           ELSE IF \E i \in (k + 1)..(n + 1) : x = Nd(h, l, i)
                           THEN h.index[x] - 1 ELSE h.index[x]
    BY <1>f
  <1>8. h.array \in [Lists -> Seq(Block)] /\ Linked(h, l)
    BY <1>0, HeapFacts DEF Sound
  <1>9. /\ r = RemoveAt(s, k) /\ r \in Seq(Block) /\ IsRemove(r, s, k)
        /\ \A m \in Lists \ {l} : g.array[m] = h.array[m]
    <2>1. r = RemoveAt(s, k) /\ \A m \in Lists \ {l} : g.array[m] = h.array[m]
      BY <1>3, <1>8
    <2> QED BY <1>0, <1>1, <2>1, RemoveProperties
  <1> HIDE DEF r, n, s, P, Q
  <1>10. Len(r) = n - 1
    BY <1>9 DEF IsRemove, n
  <1>11. Members(g, l) = Members(h, l) \ {e} /\ IsInjective(r)
    <2>1. IsInjective(s)
      BY <1>0, <1>8 DEF Linked, IsInjective, n, s
    <2> QED BY <1>0, <1>1, <1>9, <2>1, RemoveMembers DEF Members, r, s, n
  <1>12. /\ \A j \in 0..(k - 1) : Nd(g, l, j) = Nd(h, l, j)
         /\ \A j \in k..n : Nd(g, l, j) = Nd(h, l, j + 1)
    <2>0. k \in Nat /\ k >= 1 /\ k <= n
      BY <1>0
    <2>1. ASSUME NEW j \in 0..(k - 1) PROVE Nd(g, l, j) = Nd(h, l, j)
      <3>1. CASE j = 0
        BY <3>1 DEF Nd
      <3>2. CASE j # 0
        <4>1. j \in 1..(k - 1) /\ j # n + 1 /\ j # n - 1 + 1
          BY <1>0, <2>0, <3>2
        <4>2. r[j] = s[j]
          BY <1>9, <4>1 DEF IsRemove
        <4> QED BY <1>10, <3>2, <4>1, <4>2 DEF Nd, r, s, n
      <3> QED BY <3>1, <3>2
    <2>3. ASSUME NEW j \in k..n PROVE Nd(g, l, j) = Nd(h, l, j + 1)
      <3>1. CASE j = n
        <4>1. j = n - 1 + 1 /\ j # 0 /\ j + 1 = n + 1 /\ j + 1 # 0
          BY <1>0, <2>0, <3>1
        <4> QED BY <1>10, <4>1 DEF Nd, r, s, n
      <3>2. CASE j # n
        <4>1. j \in k..(n - 1) /\ j # 0 /\ j + 1 # 0 /\ j # n - 1 + 1 /\ j + 1 # n + 1
          BY <1>0, <2>0, <3>2
        <4>2. r[j] = s[j + 1]
          BY <1>9, <4>1 DEF IsRemove, n
        <4> QED BY <1>10, <3>2, <4>1, <4>2 DEF Nd, r, s, n
      <3> QED BY <3>1, <3>2
    <2> QED BY <2>1, <2>3
  <1>13. /\ \A i \in 0..(n + 1) : Nd(h, l, i) \in Node
         /\ \A i, j \in 0..(n + 1) : Nd(h, l, i) = Nd(h, l, j) => i = j
    BY NodeFacts DEF n, s
  <1>15. ASSUME NEW i \in 0..(n - 1)
         PROVE  /\ g.next[Nd(g, l, i)] = Nd(g, l, i + 1)
                /\ g.prev[Nd(g, l, i + 1)] = Nd(g, l, i)
                /\ g.index[Nd(g, l, i + 1)] = i
    <2>1. CASE i < k - 1
      <3>1. /\ i \in 0..(k - 1) /\ i + 1 \in 0..(k - 1) /\ i \in 0..n
            /\ i \in 0..(n + 1) /\ i + 1 \in 0..(n + 1) /\ i # k - 1 /\ i # k
            /\ i + 1 # k /\ i + 1 # k + 1
            /\ \A j \in (k + 1)..(n + 1) : j \in 0..(n + 1) /\ j # i + 1
        BY <1>0, <2>1
      <3>2. Nd(g, l, i) = Nd(h, l, i) /\ Nd(g, l, i + 1) = Nd(h, l, i + 1)
        BY <1>12, <3>1
      <3>3. /\ h.next[Nd(h, l, i)] = Nd(h, l, i + 1)
            /\ h.prev[Nd(h, l, i + 1)] = Nd(h, l, i)
            /\ h.index[Nd(h, l, i + 1)] = i
        BY <1>8, <3>1 DEF Linked, n, s
      <3>4. /\ Nd(h, l, i) # P /\ Nd(h, l, i + 1) # Q
            /\ Nd(h, l, i) # e /\ Nd(h, l, i + 1) # e
            /\ ~ \E j \in (k + 1)..(n + 1) : Nd(h, l, i + 1) = Nd(h, l, j)
        BY <1>13, <1>a, <1>b, <3>1 DEF P, Q
      <3> QED BY <1>5, <1>6, <1>7, <1>13, <3>1, <3>2, <3>3, <3>4
    <2>2. CASE i = k - 1
      <3>1. i \in 0..(k - 1) /\ i + 1 = k /\ k \in k..n /\ k + 1 \in (k + 1)..(n + 1)
        BY <1>0, <2>2
      <3>2. Nd(g, l, i) = P /\ Nd(g, l, i + 1) = Q
        BY <1>12, <2>2, <3>1 DEF P, Q
      <3>3. P \in Node /\ Q \in Node /\ P # e /\ Q # e /\ P # Q
        BY <1>13, <1>a, <1>b DEF P, Q
      <3>4. h.index[Q] = k + 1 - 1
        BY <1>a, LinkFacts DEF Q, n, s
      <3>5. \E j \in (k + 1)..(n + 1) : Q = Nd(h, l, j)
        BY <3>1 DEF Q
      <3>6. k + 1 - 1 - 1 = i
        BY <1>a, <2>2
      <3> QED BY <1>5, <1>6, <1>7, <3>2, <3>3, <3>4, <3>5, <3>6
    <2>3. CASE i >= k
      <3>1. /\ i \in k..n /\ i + 1 \in k..n /\ i + 1 \in 0..n
            /\ i + 1 \in 0..(n + 1) /\ i + 1 + 1 \in 0..(n + 1)
            /\ i + 1 + 1 \in (k + 1)..(n + 1) /\ i + 1 # k /\ i + 1 + 1 # k
            /\ i + 1 # k - 1 /\ i + 1 + 1 # k + 1 /\ i + 1 - 1 = i
        BY <1>0, <2>3
      <3>2. Nd(g, l, i) = Nd(h, l, i + 1) /\ Nd(g, l, i + 1) = Nd(h, l, i + 1 + 1)
        BY <1>12, <3>1
      <3>3. /\ h.next[Nd(h, l, i + 1)] = Nd(h, l, i + 1 + 1)
            /\ h.prev[Nd(h, l, i + 1 + 1)] = Nd(h, l, i + 1)
            /\ h.index[Nd(h, l, i + 1 + 1)] = i + 1
        BY <1>8, <3>1 DEF Linked, n, s
      <3>4. /\ Nd(h, l, i + 1) # P /\ Nd(h, l, i + 1 + 1) # Q
            /\ Nd(h, l, i + 1) # e /\ Nd(h, l, i + 1 + 1) # e
            /\ \E j \in (k + 1)..(n + 1) : Nd(h, l, i + 1 + 1) = Nd(h, l, j)
        BY <1>13, <1>a, <1>b, <3>1 DEF P, Q
      <3> QED BY <1>5, <1>6, <1>7, <1>13, <3>1, <3>2, <3>3, <3>4
    <2> QED BY <1>0, <2>1, <2>2, <2>3
  <1>16. Linked(g, l)
    <2>1. \A i, j \in 1..Len(r) : r[i] = r[j] => i = j
      BY <1>9, <1>11 DEF IsInjective
    <2>2. Len(r) <= g.size[l] /\ g.size[l] >= 1
      <3>1. n <= h.size[l] /\ h.size[l] >= 1 /\ h.size[l] \in Nat
        BY <1>0, <1>8, HeapFacts DEF Linked, n, s
      <3> QED BY <1>0, <1>2, <1>10, <3>1
    <2>3. g.prev[Head_(l)] = Null /\ g.next[Tail_(l)] = Null
      <3>1. /\ 0 \in 0..(n + 1) /\ n + 1 \in 0..(n + 1)
            /\ k + 1 # 0 /\ n + 1 # k - 1
        BY <1>0
      <3>2. Head_(l) = Nd(h, l, 0) /\ Tail_(l) = Nd(h, l, n + 1)
        BY NodeFacts DEF n, s
      <3>3. /\ Head_(l) \in Node /\ Tail_(l) \in Node
            /\ Head_(l) # Q /\ Tail_(l) # P
        BY <1>13, <1>a, <3>1, <3>2 DEF P, Q
      <3> QED BY <1>5, <1>6, <1>8, <3>3 DEF Linked
    <2> QED BY <1>10, <1>15, <2>1, <2>2, <2>3 DEF Linked, r
  <1>17. ASSUME NEW x \in Node
         PROVE  \/ x \in Unlisted(h)
                \/ \E i \in 0..(n + 1) : x = Nd(h, l, i)
                \/ /\ g.next[x] = h.next[x] /\ g.prev[x] = h.prev[x]
                   /\ g.index[x] = h.index[x]
    BY <1>5, <1>6, <1>7, <1>a, <1>b DEF P, Q
  <1>18. \A m \in Lists \ {l} : Linked(g, m)
    BY <1>2, <1>9, <1>17, OthersLinked DEF n, s
  <1>19. \A m \in Lists \ {l} : Members(g, m) = Members(h, m) /\ e \notin Members(h, m)
    BY <1>9 DEF Members, Sound
  <1>20. \A m, o \in Lists : m # o => Members(g, m) \cap Members(g, o) = {}
    BY <1>11, <1>19 DEF Sound
  <1>21. ASSUME NEW x \in Unlisted(g)
         PROVE  g.prev[x] = Null /\ g.next[x] = Null /\ g.index[x] = 0
    <2>1. CASE x = e
      BY <1>5, <1>6, <1>7, <1>b, <2>1
    <2>2. CASE x # e
      <3>1. x \in Unlisted(h)
        BY <1>11, <1>19, <2>2 DEF Unlisted
      <3>3. \A i \in 0..(n + 1) : x # Nd(h, l, i)
        BY <3>1, NodesApart DEF n, s
      <3>4. x \in Node /\ h.prev[x] = Null /\ h.next[x] = Null /\ h.index[x] = 0
        BY <3>1, Constants DEF Sound, Unlisted
      <3> QED BY <1>5, <1>6, <1>7, <1>a, <2>2, <3>3, <3>4 DEF P, Q
    <2> QED BY <2>1, <2>2
  <1>22. Sound(g)
    BY <1>2, <1>16, <1>18, <1>20, <1>21 DEF Sound
  <1>23. e \in Unlisted(g)
    BY <1>11, <1>19, <1>b DEF Unlisted
  <1> QED BY <1>9, <1>11, <1>22, <1>23

----------------------------------------------------------------------------
(* Elements that move from list to list. *)

(* The members of the lists of g are those of h, but for the elements of E *)
(* that have moved.                                                        *)
Shifted(g, h, from, to, E) ==
  \A l \in Lists :
    Members(g, l) = IF l = from THEN Members(h, l) \ E
                    ELSE IF l = to THEN Members(h, l) \cup E
                    ELSE Members(h, l)

(* Element e goes from one list to another. *)
LEMMA MovedSound ==
  ASSUME NEW h, Sound(h), NEW from \in Lists \cup {Null},
         NEW to \in Lists \cup {Null}, from # to, NEW e \in Block, NEW F,
         from = Null => e \in Unlisted(h),
         from # Null => e \in Members(h, from),
         NEW g, g = Moved(h, e, from, to, F)
  PROVE  Sound(g) /\ Shifted(g, h, from, to, {e})
  <1>1. PICK out : out = IF from = Null THEN h ELSE dllarr_remove(h, from, e)
    OBVIOUS
  <1>2. /\ Sound(out) /\ e \in Unlisted(out)
        /\ \A l \in Lists : Members(out, l) = IF l = from THEN Members(h, l) \ {e}
                                              ELSE Members(h, l)
    <2>1. CASE from = Null
      BY <1>1, <2>1, Constants
    <2>2. CASE from # Null
      <3>1. from \in Lists /\ out = dllarr_remove(h, from, e)
        BY <1>1, <2>2
      <3>2. /\ Sound(out) /\ e \in Unlisted(out)
            /\ Members(out, from) = Members(h, from) \ {e}
            /\ \A m \in Lists \ {from} : out.array[m] = h.array[m]
        BY <2>2, <3>1, RemoveSound
      <3> QED BY <3>2 DEF Members
    <2> QED BY <2>1, <2>2
  <1>3. CASE to = Null
    <2>1. g = out
      BY <1>1, <1>3 DEF Moved
    <2> QED BY <1>2, <1>3, <2>1, Constants DEF Shifted
  <1>4. CASE to # Null
    <2>1. PICK at : at = dllarr_iterate(out, to, F)
      OBVIOUS
    <2>2. to \in Lists /\ at \in Members(out, to) \cup {Null}
      BY <1>2, <1>4, <2>1, IterateFinds
    <2>3. g = dllarr_insert(out, to, e, at)
      BY <1>1, <1>4, <2>1 DEF Moved
    <2>4. /\ Sound(g) /\ Members(g, to) = Members(out, to) \cup {e}
          /\ \A m \in Lists \ {to} : g.array[m] = out.array[m]
      BY <1>2, <2>2, <2>3, InsertSound
    <2>5. \A m \in Lists \ {to} : Members(g, m) = Members(out, m)
      BY <2>4 DEF Members
    <2> QED BY <1>2, <2>4, <2>5 DEF Shifted
  <1> QED BY <1>3, <1>4

(* A loop over s moves the elements that are in X, each one once. *)
LEMMA TransferSound ==
  ASSUME NEW h, Sound(h), NEW from \in Lists \cup {Null},
         NEW to \in Lists \cup {Null}, from # to, NEW F,
         NEW s \in Seq(Block), NEW X,
         \A i, j \in 1..Len(s) : s[i] = s[j] => i = j,
         from = Null => ToSet(s) \cap X \subseteq Unlisted(h),
         from # Null => ToSet(s) \cap X \subseteq Members(h, from),
         NEW g, g = Transfer(h, s, X, from, to, F)
  PROVE  Sound(g) /\ Shifted(g, h, from, to, ToSet(s) \cap X)
  <1> DEFINE after == Transfers(h, s, X, from, to, F)
             done(k) == {s[i] : i \in 1..k} \cap X
             Good(k) == Sound(after[k]) /\ Shifted(after[k], h, from, to, done(k))
             T == {k \in 0..Len(s) : Good(k)}
  <1>0. Len(s) \in Nat
    OBVIOUS
  <1>1. /\ after[0] = h
        /\ \A k \in 1..Len(s) :
             after[k] = IF s[k] \in X
                        THEN Moved(after[k - 1], s[k], from, to, F[s[k]])
                        ELSE after[k - 1]
    BY TransfersDef
  <1> HIDE DEF after
  <1>2. 0 \in T
    <2>1. done(0) = {}
      OBVIOUS
    <2>2. Shifted(h, h, from, to, {})
      BY DEF Shifted
    <2>3. Sound(after[0]) /\ Shifted(after[0], h, from, to, done(0))
      BY <1>1, <2>1, <2>2
    <2> HIDE DEF done
    <2> QED BY <1>0, <2>3
  <1>3. ASSUME NEW k \in 1..Len(s), k - 1 \in T PROVE k \in T
    <2>0. Good(k - 1)
      BY <1>3
    <2>a. 1..k = (1..(k - 1)) \cup {k}
      BY <1>0
    <2>1. CASE s[k] \notin X
      <3>1. done(k) = done(k - 1)
        BY <2>1, <2>a
      <3>2. after[k] = after[k - 1]
        BY <1>1, <2>1
      <3>3. Good(k)
        BY <2>0, <3>1, <3>2
      <3> QED BY <1>0, <3>3
    <2>2. CASE s[k] \in X
      <3> DEFINE e == s[k]
                 a == after[k - 1]
                 b == after[k]
      <3>1. done(k) = done(k - 1) \cup {e}
        BY <2>2, <2>a
      <3>2. e \in Block /\ e \in ToSet(s) \cap X
        BY <1>0, <2>2, SeqMembers
      <3>3. e \notin done(k - 1)
        <4>1. \A i \in 1..(k - 1) : i \in 1..Len(s) /\ i # k
          BY <1>0
        <4> QED BY <4>1
      <3> HIDE DEF done
      <3>4. from = Null => e \in Unlisted(a)
        <4>1. ASSUME from = Null, NEW l \in Lists PROVE e \notin Members(a, l)
          <5>1. e \notin Members(h, l)
            BY <3>2, <4>1 DEF Unlisted
          <5> QED BY <2>0, <3>3, <4>1, <5>1, Constants DEF Shifted
        <4> QED BY <3>2, <4>1 DEF Unlisted
      <3>5. from # Null => e \in Members(a, from)
        BY <2>0, <3>2, <3>3 DEF Shifted
      <3>6. b = Moved(a, e, from, to, F[e])
        BY <1>1, <2>2
      <3> HIDE DEF e, a, b
      <3>7. PICK Fe : Fe = F[e]
        OBVIOUS
      <3>8. Sound(a)
        BY <2>0 DEF a
      <3>9. Sound(b) /\ Shifted(b, a, from, to, {e})
        BY <3>2, <3>4, <3>5, <3>6, <3>7, <3>8, MovedSound
      <3>10. Good(k)
        <4>1. Shifted(a, h, from, to, done(k - 1))
          BY <2>0 DEF a
        <4>2. Shifted(b, h, from, to, done(k - 1) \cup {e})
          BY <3>9, <4>1 DEF Shifted
        <4> QED BY <3>1, <3>9, <4>2 DEF b
      <3> QED BY <1>0, <3>10
    <2> QED BY <2>1, <2>2
  <1>4. \A k \in 1..Len(s) : k - 1 \in T => k \in T
    BY <1>3
  <1> HIDE DEF T
  <1>5. \A k \in 0..Len(s) : k \in T
    BY <1>0, <1>2, <1>4, UpTo
  <1>6. Len(s) \in T
    BY <1>0, <1>5
  <1>7. Good(Len(s))
    BY <1>6 DEF T
  <1>8. g = after[Len(s)]
    BY DEF Transfer, after
  <1>9. done(Len(s)) = ToSet(s) \cap X
    BY DEF ToSet
  <1> HIDE DEF done
  <1> QED BY <1>7, <1>8, <1>9

(* The members of a list in the order of the array, reversed. *)
LEMMA Reversed ==
  ASSUME NEW h, Sound(h), NEW l \in Lists, NEW r, r = Reverse(Iterated(h, l))
  PROVE  /\ r \in Seq(Block) /\ ToSet(r) = Members(h, l)
         /\ \A i, j \in 1..Len(r) : r[i] = r[j] => i = j
  <1>1. PICK s \in Seq(Block) : s = h.array[l]
    BY HeapFacts DEF Sound
  <1>2. r = [i \in 1..Len(s) |-> s[(Len(s) - i) + 1]]
    BY <1>1, IteratedIsArray DEF Reverse
  <1>3. Len(s) \in Nat /\ \A i \in 1..Len(s) : (Len(s) - i) + 1 \in 1..Len(s)
    BY <1>1
  <1>4. r \in Seq(Block) /\ Len(r) = Len(s) /\ DOMAIN r = 1..Len(s)
    BY <1>2, <1>3
  <1>5. \A i, j \in 1..Len(s) : s[i] = s[j] => i = j
    BY <1>1 DEF Sound, Linked
  <1>6. \A i, j \in 1..Len(r) : r[i] = r[j] => i = j
    BY <1>2, <1>3, <1>4, <1>5
  <1>7. ASSUME NEW x \in ToSet(s) PROVE x \in ToSet(r)
    <2>1. PICK i \in 1..Len(s) : s[i] = x
      BY <1>7, SeqMembers
    <2>2. (Len(s) - i) + 1 \in 1..Len(s) /\ (Len(s) - ((Len(s) - i) + 1)) + 1 = i
      BY <1>3
    <2>3. r[(Len(s) - i) + 1] = x
      BY <1>2, <2>1, <2>2
    <2> QED BY <1>4, <2>2, <2>3 DEF ToSet
  <1>8. ASSUME NEW x \in ToSet(r) PROVE x \in ToSet(s)
    <2>1. PICK i \in 1..Len(s) : r[i] = x
      BY <1>4, <1>8 DEF ToSet
    <2> QED BY <1>2, <1>3, <2>1, SeqMembers
  <1> QED BY <1>1, <1>4, <1>6, <1>7, <1>8 DEF Members

(* A list is emptied; the other ones are as they were. *)
LEMMA EmptiedSound ==
  ASSUME NEW h, Sound(h), NEW l \in Lists, NEW g, g = Emptied(h, l)
  PROVE  /\ Sound(g) /\ Members(g, l) = {}
         /\ \A m \in Lists \ {l} : Members(g, m) = Members(h, m)
  <1>1. PICK r : r = Reverse(Iterated(h, l))
    OBVIOUS
  <1>2. /\ r \in Seq(Block) /\ ToSet(r) = Members(h, l)
        /\ \A i, j \in 1..Len(r) : r[i] = r[j] => i = j
    BY <1>1, Reversed
  <1>3. ToSet(r) \cap Block = Members(h, l)
    BY <1>2, SeqMembers
  <1>4. g = Transfer(h, r, Block, l, Null, AtEnd)
    BY <1>1 DEF Emptied
  <1>5. l # Null /\ Null \in Lists \cup {Null} /\ l \in Lists \cup {Null}
    BY Constants
  <1>6. Sound(g) /\ Shifted(g, h, l, Null, ToSet(r) \cap Block)
    BY <1>2, <1>3, <1>4, <1>5, TransferSound
  <1> QED BY <1>3, <1>6, Constants DEF Shifted

(* dllarr_free *)
LEMMA FreeSound ==
  ASSUME NEW h, Sound(h), NEW l \in Lists, NEW g, g = dllarr_free(h, l)
  PROVE  /\ Sound(g) /\ Members(g, l) = {}
         /\ \A m \in Lists \ {l} : Members(g, m) = Members(h, m)
  <1>1. PICK f : f = Emptied(h, l)
    OBVIOUS
  <1>2. /\ Sound(f) /\ Members(f, l) = {}
        /\ \A m \in Lists \ {l} : Members(f, m) = Members(h, m)
    BY <1>1, EmptiedSound
  <1>3. g = [f EXCEPT !.size[l] = StartSize]
    BY <1>1 DEF dllarr_free
  <1>4. f \in Heap /\ f.ok /\ f.size \in [Lists -> Nat] /\ StartSize \in Nat \ {0}
    BY <1>2, HeapFacts, PartitionsAssumption DEF Sound
  <1>5. /\ f = [prev |-> f.prev, next |-> f.next, index |-> f.index,
                array |-> f.array, size |-> f.size, ok |-> f.ok]
    BY <1>4 DEF Heap
  <1>6. PICK z : z = [f.size EXCEPT ![l] = StartSize]
    OBVIOUS
  <1>7. g = [index |-> f.index, array |-> f.array, size |-> z, next |-> f.next,
             prev |-> f.prev, ok |-> f.ok]
    BY <1>3, <1>5, <1>6
  <1>8. /\ z \in [Lists -> Nat] /\ z[l] = StartSize
        /\ \A m \in Lists \ {l} : z[m] = f.size[m]
    BY <1>4, <1>6
  <1>9. /\ g.index = f.index /\ g.array = f.array /\ g.size = z
        /\ g.next = f.next /\ g.prev = f.prev /\ g.ok /\ g \in Heap
    <2>1. /\ f.prev \in [Node -> Node \cup {Null}]
          /\ f.next \in [Node -> Node \cup {Null}]
          /\ f.index \in [Node -> Int] /\ f.array \in [Lists -> Seq(Block)]
      BY <1>4, HeapFacts
    <2>2. PICK fp, fn, fi, fa : fp = f.prev /\ fn = f.next /\ fi = f.index
                                /\ fa = f.array
      OBVIOUS
    <2>6. f.ok = TRUE
      BY <1>4, HeapOK
    <2>3. g = HeapOf(fp, fn, fi, fa, z)
      BY <1>7, <2>2, <2>6 DEF HeapOf
    <2>4. /\ fp \in [Node -> Node \cup {Null}] /\ fn \in [Node -> Node \cup {Null}]
          /\ fi \in [Node -> Int] /\ fa \in [Lists -> Seq(Block)]
      BY <2>1, <2>2
    <2>5. /\ g.index = fi /\ g.array = fa /\ g.size = z /\ g.next = fn
          /\ g.prev = fp /\ g.ok /\ g \in Heap
      BY <1>8, <2>3, <2>4 DEF HeapOf, Heap, Lists
    <2> QED BY <2>2, <2>5
  <1>10. /\ \A m : Members(g, m) = Members(f, m)
         /\ \A m, i : Nd(g, m, i) = Nd(f, m, i)
         /\ Unlisted(g) = Unlisted(f)
    BY <1>9 DEF Members, Nd, Unlisted
  <1>11. ASSUME NEW m \in Lists PROVE Linked(g, m)
    <2>1. Linked(f, m)
      BY <1>2 DEF Sound
    <2>2. Len(f.array[m]) <= z[m] /\ z[m] >= 1
      <3>1. CASE m = l
        <4>1. Len(f.array[l]) = 0
          <5>1. /\ IsFiniteSet(Members(f, l))
                /\ Cardinality(Members(f, l)) = Len(f.array[l])
            BY <1>2, LengthBound
          <5> QED BY <1>2, <5>1, FS_EmptySet
        <4> QED BY <1>4, <1>8, <3>1, <4>1
      <3>2. CASE m # l
        BY <1>8, <2>1, <3>2 DEF Linked
      <3> QED BY <3>1, <3>2
    <2> QED BY <1>9, <1>10, <2>1, <2>2 DEF Linked
  <1>12. Sound(g)
    BY <1>2, <1>9, <1>10, <1>11 DEF Sound
  <1> QED BY <1>2, <1>10, <1>12

(* dllarr_init makes empty lists. *)
LEMMA EmptyHeapSound ==
  Sound(EmptyHeap) /\ \A l \in Lists : Members(EmptyHeap, l) = {}
  <1> DEFINE p == [n \in Node |-> IF \E l \in Lists : n = Tail_(l)
                                  THEN Head_(CHOOSE l \in Lists : n = Tail_(l))
                                  ELSE Null]
             x == [n \in Node |-> IF \E l \in Lists : n = Head_(l)
                                  THEN Tail_(CHOOSE l \in Lists : n = Head_(l))
                                  ELSE Null]
             i == [n \in Node |-> IF \E l \in Lists : n = Head_(l) THEN -1 ELSE 0]
             a == [l \in Lists |-> <<>>]
             s == [l \in Lists |-> StartSize]
  <1>1. PICK g : g = EmptyHeap
    OBVIOUS
  <1>2. g = HeapOf(p, x, i, a, s)
    BY <1>1 DEF EmptyHeap, HeapOf, Lists
  <1>3. StartSize \in Nat \ {0}
    BY PartitionsAssumption
  <1>4. FieldsOK(p, x, i, a, s)
    <2>1. \A n \in Node : p[n] \in Node \cup {Null}
      <3> TAKE n \in Node
      <3>1. CASE \E l \in Lists : n = Tail_(l)
        <4>1. (CHOOSE l \in Lists : n = Tail_(l)) \in Lists
          BY <3>1
        <4> QED BY <3>1, <4>1, Constants
      <3>2. CASE ~ \E l \in Lists : n = Tail_(l)
        BY <3>2
      <3> QED BY <3>1, <3>2
    <2>2. \A n \in Node : x[n] \in Node \cup {Null}
      <3> TAKE n \in Node
      <3>1. CASE \E l \in Lists : n = Head_(l)
        <4>1. (CHOOSE l \in Lists : n = Head_(l)) \in Lists
          BY <3>1
        <4> QED BY <3>1, <4>1, Constants
      <3>2. CASE ~ \E l \in Lists : n = Head_(l)
        BY <3>2
      <3> QED BY <3>1, <3>2
    <2>3. i \in [Node -> Int] /\ a \in [Lists -> Seq(Block)] /\ s \in [Lists -> Nat]
      BY <1>3
    <2>4. p \in [Node -> Node \cup {Null}] /\ x \in [Node -> Node \cup {Null}]
      BY <2>1, <2>2
    <2> QED BY <2>3, <2>4 DEF FieldsOK
  <1>5. /\ g.index = i /\ g.array = a /\ g.size = s /\ g.next = x /\ g.prev = p
        /\ g.ok /\ g \in Heap
    <2> HIDE DEF p, x, i, a, s
    <2> QED BY <1>2, <1>4, MakeHeap
  <1>6. ASSUME NEW l \in Lists
        PROVE  /\ g.array[l] = <<>> /\ Len(g.array[l]) = 0 /\ g.size[l] = StartSize
               /\ p[Tail_(l)] = Head_(l) /\ p[Head_(l)] = Null
               /\ x[Head_(l)] = Tail_(l) /\ x[Tail_(l)] = Null
               /\ i[Tail_(l)] = 0
    <2>1. g.array[l] = <<>> /\ Len(g.array[l]) = 0 /\ g.size[l] = StartSize
      BY <1>5
    <2>2. (CHOOSE m \in Lists : Tail_(l) = Tail_(m)) = l
      <3>1. \A m \in Lists : Tail_(l) = Tail_(m) <=> m = l
        BY Constants
      <3> QED BY <3>1
    <2>3. (CHOOSE m \in Lists : Head_(l) = Head_(m)) = l
      <3>1. \A m \in Lists : Head_(l) = Head_(m) <=> m = l
        BY Constants
      <3> QED BY <3>1
    <2>4. Head_(l) \in Node /\ Tail_(l) \in Node
          /\ \A m \in Lists : Head_(l) # Tail_(m) /\ Tail_(l) # Head_(m)
      BY Constants
    <2>5. p[Tail_(l)] = Head_(l) /\ x[Head_(l)] = Tail_(l)
      BY <2>2, <2>3, <2>4
    <2>6. p[Head_(l)] = Null /\ x[Tail_(l)] = Null /\ i[Tail_(l)] = 0
      BY <2>4
    <2> QED BY <2>1, <2>5, <2>6
  <1>7. ASSUME NEW e \in Block PROVE p[e] = Null /\ x[e] = Null /\ i[e] = 0
    <2>1. e \in Node /\ \A l \in Lists : e # Head_(l) /\ e # Tail_(l)
      BY Constants
    <2> QED BY <2>1
  <1> HIDE DEF p, x, i, a, s
  <1>8. ASSUME NEW l \in Lists PROVE Linked(g, l)
    <2>1. Nd(g, l, 0) = Head_(l) /\ Nd(g, l, 1) = Tail_(l) /\ 0 + 1 = 1
      BY <1>6 DEF Nd
    <2>2. \A k \in 0..0 : k = 0
      OBVIOUS
    <2> QED BY <1>3, <1>5, <1>6, <2>1, <2>2 DEF Linked
  <1>9. \A l \in Lists : Members(g, l) = {}
    BY <1>6 DEF Members, ToSet
  <1>10. Sound(g)
    BY <1>5, <1>7, <1>8, <1>9 DEF Sound, Unlisted
  <1> QED BY <1>1, <1>9, <1>10

(* blockio_init_file: the blocks are in the list of unallocated blocks. *)
LEMMA FreshHeapSound ==
  /\ Sound(FreshHeap) /\ Members(FreshHeap, Unallocated) = Block
  /\ \A p \in Part : Members(FreshHeap, p) = {}
  <1>1. PICK h : h = EmptyHeap
    OBVIOUS
  <1>2. PICK g : g = FreshHeap
    OBVIOUS
  <1>3. g = Transfer(h, Infos, Block, Null, Unallocated, AtEnd)
    BY <1>1, <1>2 DEF FreshHeap
  <1>4. Sound(h) /\ \A l \in Lists : Members(h, l) = {}
    BY <1>1, EmptyHeapSound
  <1>5. Unlisted(h) = Block
    BY <1>4 DEF Unlisted
  <1>6. ToSet(Infos) \cap Block = Block
    BY Constants
  <1>7. /\ Null \in Lists \cup {Null} /\ Unallocated \in Lists \cup {Null}
        /\ Null # Unallocated /\ Infos \in Seq(Block)
        /\ \A i, j \in 1..Len(Infos) : Infos[i] = Infos[j] => i = j
    BY Constants
  <1>8. Sound(g) /\ Shifted(g, h, Null, Unallocated, Block)
    BY <1>3, <1>4, <1>5, <1>6, <1>7, TransferSound
  <1> QED BY <1>2, <1>4, <1>8, Constants DEF Shifted

(* A sound heap is what ListsAgree says of it. *)
LEMMA SoundAgrees ==
  ASSUME NEW h, Sound(h)
  PROVE  ListsAgree(h)
  <1>1. ASSUME NEW l \in Lists, NEW s, s = Iterated(h, l)
        PROVE  /\ s = h.array[l] /\ dllarr_count(h, l) = Len(s)
               /\ Len(s) <= h.size[l]
               /\ h.prev[Head_(l)] = Null /\ h.next[Tail_(l)] = Null
               /\ \A i \in 1..Len(s) : /\ h.index[s[i]] = i - 1
                                       /\ h.prev[h.next[s[i]]] = s[i]
                                       /\ h.next[h.prev[s[i]]] = s[i]
    <2>1. s = h.array[l] /\ Len(s) \in Nat
      BY <1>1, IteratedIsArray, LengthBound
    <2>2. Linked(h, l)
      BY DEF Sound
    <2>3. dllarr_count(h, l) = Len(s)
      <3>1. 1 \in 1..(Len(h.array[l]) + 1)
        BY <2>1
      <3> QED BY <2>1, <3>1, LinkFacts
    <2>4. ASSUME NEW i \in 1..Len(s)
          PROVE  /\ h.index[s[i]] = i - 1
                 /\ h.prev[h.next[s[i]]] = s[i]
                 /\ h.next[h.prev[s[i]]] = s[i]
      <3>1. i \in 0..Len(s) /\ i \in 1..Len(h.array[l]) /\ i \in 1..(Len(h.array[l]) + 1)
        BY <2>1
      <3>2. Nd(h, l, i) = s[i]
        BY <2>1, <3>1, NodeFacts
      <3>3. /\ h.prev[Nd(h, l, i)] = Nd(h, l, i - 1)
            /\ h.next[Nd(h, l, i - 1)] = Nd(h, l, i)
            /\ h.index[Nd(h, l, i)] = i - 1
        BY <3>1, LinkFacts
      <3>4. /\ h.next[Nd(h, l, i)] = Nd(h, l, i + 1)
            /\ h.prev[Nd(h, l, i + 1)] = Nd(h, l, i)
        BY <2>1, <2>2, <3>1 DEF Linked
      <3> QED BY <3>2, <3>3, <3>4
    <2> QED BY <2>1, <2>2, <2>3, <2>4 DEF Linked
  <1>2. ASSUME NEW e \in Block, \A l \in Lists : ~ Contains(h.array[l], e)
        PROVE  h.prev[e] = Null /\ h.next[e] = Null /\ h.index[e] = 0
    <2>1. ASSUME NEW l \in Lists PROVE e \notin Members(h, l)
      <3>1. h.array[l] \in Seq(Block)
        BY HeapFacts DEF Sound
      <3> QED BY <1>2, <3>1, SeqMembers DEF Contains, Members
    <2> QED BY <2>1 DEF Sound, Unlisted
  <1>3. h.ok
    BY DEF Sound
  <1> QED BY <1>1, <1>2, <1>3 DEF ListsAgree, Lists

----------------------------------------------------------------------------
(* The inductive invariant. *)

(* The values of a device. *)
Device == [pc : {"closed", "scanned", "open", "freeing"},
           add : BOOLEAN, used : SUBSET Block, nmac : Nat,
           res : 0..(Word - 1), seqno : Nat, jug : SUBSET Block,
           cur : Block \cup {Null}, updated : BOOLEAN,
           size : 0..(Word - 1), indices : 0..(Word - 1)]

(* The blocks whose dev pointer is p, and those in a list. *)
Owned(p) == {b \in Block : owner[b] = p}
Listed(l) == Members(heap, l)

(* What blockio_dev_write_current_macroblock writes. *)
HeadersOK ==
  \A b \in Block : disk[b].part # Null =>
    /\ disk[b].res < Word
    /\ disk[b].nmac = Cardinality(disk[b].used)

(* The dev pointers and the unallocated blocks; one open at a time. *)
OwnersOK ==
  /\ \A b \in Block : owner[b] = Null <=> b \in Listed(Unallocated)
  /\ \A p \in Part : ctl = p <=> dev[p].pc = "scanned"

(* The blocks of p between the halves of an open, while it is open, and    *)
(* while it is freed.  The size never exceeds the bytes of block_indices.  *)
DevOK(p) ==
  /\ dev[p].size <= dev[p].indices * MesoSize
  /\ dev[p].nmac = Cardinality(dev[p].used)
  /\ dev[p].pc = "closed" =>
       dev[p] = Gone /\ Owned(p) = {} /\ Listed(p) = {}
  /\ dev[p].pc = "scanned" =>
       /\ Owned(p) = Listed(p) /\ dev[p].jug = {}
       /\ dev[p].cur = Null /\ ~ dev[p].updated
  /\ dev[p].pc = "open" =>
       /\ Owned(p) = dev[p].used /\ dev[p].jug = dev[p].used /\ Listed(p) = {}
       /\ dev[p].cur = Null \/ dev[p].cur \in dev[p].used
       /\ dev[p].updated => dev[p].cur # Null
       /\ dev[p].res <= dev[p].nmac =>
            dev[p].size = EntrySize(dev[p].nmac, dev[p].res)
  /\ dev[p].pc = "freeing" =>
       Owned(p) = dev[p].jug \cup Listed(p) /\ dev[p].jug \cap Listed(p) = {}

(* As long as no block of a partition that was not open has been taken: no *)
(* other partition owns or claims a block that is p's on disk, the newest  *)
(* header lists every block that p has written, and p has read it.         *)
Careful(p) ==
  /\ Signed(p) \subseteq Newest(p).used
  /\ \A b \in OnDisk(p) : owner[b] \in {p, Null}
  /\ \A q \in Part : q # p => OnDisk(p) \cap OnDisk(q) = {}
  /\ dev[p].pc = "scanned" =>
       /\ Owned(p) = Signed(p) /\ dev[p].used = Newest(p).used
       /\ dev[p].nmac = Newest(p).nmac /\ dev[p].res = Newest(p).res
       /\ dev[p].seqno = Newest(p).seq
  /\ dev[p].pc \in {"open", "freeing"} => OnDisk(p) \subseteq Owned(p)
  /\ dev[p].pc = "open" =>
       /\ \A b \in Signed(p) : /\ disk[b].seq <= dev[p].seqno
                               /\ dev[p].cur # Null => disk[b].seq < dev[p].seqno
       /\ ~ dev[p].updated =>
            Newest(p).nmac = dev[p].nmac /\ Newest(p).res = dev[p].res

PartInv ==
  /\ PartitionsTypeOK /\ Sound(heap) /\ HeadersOK /\ OwnersOK
  /\ \A p \in Part : DevOK(p)
  /\ careless \/ \A p \in Part : Careful(p)
  /\ OpenNeverDies

----------------------------------------------------------------------------
(* Facts about the operators of Partitions. *)

(* The values of a device, one by one. *)
LEMMA DeviceFacts ==
  ASSUME PartitionsTypeOK, NEW p \in Part
  PROVE  /\ dev \in [Part -> Device] /\ dev[p] \in Device
         /\ dev[p].pc \in {"closed", "scanned", "open", "freeing"}
         /\ dev[p].add \in BOOLEAN /\ dev[p].updated \in BOOLEAN
         /\ dev[p].used \in SUBSET Block /\ dev[p].jug \in SUBSET Block
         /\ dev[p].nmac \in Nat /\ dev[p].seqno \in Nat
         /\ dev[p].cur \in Block \cup {Null}
         /\ dev[p].res \in 0..(Word - 1)
         /\ dev[p].size \in 0..(Word - 1) /\ dev[p].indices \in 0..(Word - 1)
  <1>1. dev \in [Part -> Device]
    BY DEF PartitionsTypeOK, Device
  <1>2. PICK d \in Device : d = dev[p]
    BY <1>1
  <1>3. /\ d.pc \in {"closed", "scanned", "open", "freeing"}
        /\ d.add \in BOOLEAN /\ d.updated \in BOOLEAN
        /\ d.used \in SUBSET Block /\ d.jug \in SUBSET Block
        /\ d.nmac \in Nat /\ d.seqno \in Nat
        /\ d.cur \in Block \cup {Null}
        /\ d.res \in 0..(Word - 1)
        /\ d.size \in 0..(Word - 1) /\ d.indices \in 0..(Word - 1)
    BY <1>2 DEF Device
  <1> QED BY <1>1, <1>2, <1>3

(* Numbers. *)
LEMMA Numbers ==
  /\ Word \in Nat /\ Word >= 1 /\ MesoSize \in Nat /\ MesoSize >= 1
  /\ MMPM \in Nat /\ MMPM >= 1 /\ MaxSeqno \in Nat
  BY PartitionsAssumption

(* A closed device is a device. *)
LEMMA GoneType == Gone \in Device
  BY Numbers DEF Gone, Device

(* Sets of blocks. *)
LEMMA BlockSets ==
  /\ \A X \in SUBSET Block : IsFiniteSet(X) /\ Cardinality(X) \in Nat
  /\ Cardinality({}) = 0
  /\ \A X \in SUBSET Block : Cardinality(X) = 0 <=> X = {}
  /\ \A X, Y \in SUBSET Block :
       X \cap Y = {} => Cardinality(X \cup Y) = Cardinality(X) + Cardinality(Y)
  /\ \A X, Y \in SUBSET Block :
       X \subseteq Y /\ Cardinality(X) = Cardinality(Y) => X = Y
  <1>1. \A X \in SUBSET Block : IsFiniteSet(X) /\ Cardinality(X) \in Nat
    BY Constants, FS_Subset, FS_CardinalityType
  <1>2. Cardinality({}) = 0
    BY FS_EmptySet
  <1>3. \A X \in SUBSET Block : Cardinality(X) = 0 <=> X = {}
    BY <1>1, FS_EmptySet
  <1>4. ASSUME NEW X \in SUBSET Block, NEW Y \in SUBSET Block, X \cap Y = {}
        PROVE  Cardinality(X \cup Y) = Cardinality(X) + Cardinality(Y)
    <2>1. Cardinality(X \cup Y) =
            Cardinality(X) + Cardinality(Y) - Cardinality(X \cap Y)
      BY <1>1, FS_Union
    <2>2. Cardinality(X \cap Y) = 0
      BY <1>2, <1>4, Zenon
    <2>3. Cardinality(X) \in Nat /\ Cardinality(Y) \in Nat
      BY <1>1
    <2> QED BY <2>1, <2>2, <2>3
  <1>5. ASSUME NEW X \in SUBSET Block, NEW Y \in SUBSET Block,
               X \subseteq Y, Cardinality(X) = Cardinality(Y)
        PROVE  X = Y
    BY <1>1, <1>5, FS_Subset
  <1> QED BY <1>1, <1>2, <1>3, <1>4, <1>5

(* dllarr_count is the number of the elements of the list. *)
LEMMA CountFacts ==
  ASSUME NEW h, Sound(h), NEW l \in Lists
  PROVE  /\ dllarr_count(h, l) = Cardinality(Members(h, l))
         /\ Members(h, l) \in SUBSET Block
         /\ ToSet(Iterated(h, l)) = Members(h, l)
  <1>1. Len(h.array[l]) \in Nat /\ Cardinality(Members(h, l)) = Len(h.array[l])
    BY LengthBound
  <1>2. 1 \in 1..(Len(h.array[l]) + 1)
    BY <1>1
  <1>3. dllarr_count(h, l) = Len(h.array[l])
    BY <1>2, LinkFacts
  <1>4. h.array[l] \in Seq(Block)
    BY HeapFacts DEF Sound
  <1> QED BY <1>1, <1>3, <1>4, SeqMembers, IteratedIsArray DEF Members

(* A loop over all macroblocks. *)
LEMMA InfosTransfer ==
  ASSUME NEW h, Sound(h), NEW from \in Lists \cup {Null},
         NEW to \in Lists \cup {Null}, from # to, NEW F,
         NEW X \in SUBSET Block,
         from = Null => X \subseteq Unlisted(h),
         from # Null => X \subseteq Members(h, from),
         NEW g, g = Transfer(h, Infos, X, from, to, F)
  PROVE  Sound(g) /\ Shifted(g, h, from, to, X)
  <1>1. /\ Infos \in Seq(Block) /\ ToSet(Infos) \cap X = X
        /\ \A i, j \in 1..Len(Infos) : Infos[i] = Infos[j] => i = j
    BY Constants
  <1>2. /\ from = Null => ToSet(Infos) \cap X \subseteq Unlisted(h)
        /\ from # Null => ToSet(Infos) \cap X \subseteq Members(h, from)
    BY <1>1
  <1>3. Sound(g) /\ Shifted(g, h, from, to, ToSet(Infos) \cap X)
    BY <1>1, <1>2, TransferSound
  <1> QED BY <1>1, <1>3

(* The headers d of a disk: a set of blocks has a newest one. *)
TopOf(d, S) ==
  {i \in DOMAIN Infos :
     Infos[i] \in S /\ \A c \in S : d[c].seq <= d[Infos[i]].seq}

NewestIn(d, S) == IF S = {} THEN NoHeader ELSE d[Infos[Min(TopOf(d, S))]]

LEMMA TopFacts ==
  ASSUME NEW d, NEW S \in SUBSET Block, S # {}, \A b \in S : d[b].seq \in Nat
  PROVE  Min(TopOf(d, S)) \in TopOf(d, S)
  <1> DEFINE n == Len(Infos)
             Best(k, i) == /\ i \in 1..k /\ Infos[i] \in S
                           /\ \A j \in 1..k : Infos[j] \in S =>
                                d[Infos[j]].seq <= d[Infos[i]].seq
             T == {k \in 0..n : (\E i \in 1..k : Infos[i] \in S) =>
                                  \E i \in 1..k : Best(k, i)}
             top == TopOf(d, S)
  <1>0. /\ Infos \in Seq(Block) /\ n \in Nat /\ DOMAIN Infos = 1..n
        /\ \A b \in Block : \E i \in 1..n : Infos[i] = b
    BY Constants, SeqMembers
  <1>1. 0 \in T
    BY <1>0
  <1>2. ASSUME NEW k \in 1..n, k - 1 \in T PROVE k \in T
    <2> SUFFICES ASSUME \E i \in 1..k : Infos[i] \in S
                 PROVE  \E i \in 1..k : Best(k, i)
      BY <1>0
    <2>0. /\ \A j \in 1..k : j \in 1..(k - 1) \/ j = k
          /\ \A j \in 1..(k - 1) : j \in 1..k
          /\ k \in 1..k
      BY <1>0
    <2>1. CASE ~ \E i \in 1..(k - 1) : Infos[i] \in S
      <3>1. Infos[k] \in S /\ d[Infos[k]].seq \in Nat
        BY <2>0, <2>1
      <3>2. Best(k, k)
        BY <2>0, <2>1, <3>1
      <3> QED BY <2>0, <3>2
    <2>2. CASE \E i \in 1..(k - 1) : Infos[i] \in S
      <3>1. PICK i \in 1..(k - 1) : Best(k - 1, i)
        BY <1>2, <2>2
      <3>2. CASE Infos[k] \in S /\ d[Infos[i]].seq < d[Infos[k]].seq
        <4>1. \A j \in 1..k : Infos[j] \in S => d[Infos[j]].seq <= d[Infos[k]].seq
          BY <2>0, <3>1, <3>2
        <4>2. Best(k, k)
          BY <2>0, <3>2, <4>1
        <4> QED BY <2>0, <4>2
      <3>3. CASE ~ (Infos[k] \in S /\ d[Infos[i]].seq < d[Infos[k]].seq)
        <4>1. Best(k, i)
          BY <2>0, <3>1, <3>3
        <4> QED BY <2>0, <4>1
      <3> QED BY <3>2, <3>3
    <2> QED BY <2>1, <2>2
  <1>3. \A k \in 1..n : k - 1 \in T => k \in T
    BY <1>2
  <1> HIDE DEF T
  <1>4. \A k \in 0..n : k \in T
    BY <1>0, <1>1, <1>3, UpTo
  <1>5. n \in T
    BY <1>0, <1>4
  <1>6. PICK i \in 1..n : Best(n, i)
    BY <1>0, <1>5 DEF T
  <1>7. i \in top
    <2>1. \A c \in S : \E j \in 1..n : Infos[j] = c
      BY <1>0
    <2> QED BY <1>0, <1>6, <2>1 DEF TopOf
  <1>8. Min(top) \in top
    <2>1. top \in SUBSET Nat /\ top # {}
      BY <1>0, <1>7 DEF TopOf
    <2> HIDE DEF top
    <2>2. \E x \in top : \A y \in top : x <= y
      BY <2>1, LeastNumber
    <2> QED BY <2>2 DEF Min
  <1> QED BY <1>8

LEMMA NewestFacts ==
  ASSUME NEW d, NEW S \in SUBSET Block, S # {}, \A b \in S : d[b].seq \in Nat
  PROVE  \E b \in S : NewestIn(d, S) = d[b] /\ \A c \in S : d[c].seq <= d[b].seq
  <1>1. Min(TopOf(d, S)) \in TopOf(d, S)
    BY TopFacts
  <1>2. NewestIn(d, S) = d[Infos[Min(TopOf(d, S))]]
    BY DEF NewestIn
  <1> QED BY <1>1, <1>2 DEF TopOf

(* A block that is newer than the others is the newest one. *)
LEMMA NewestUnique ==
  ASSUME NEW d, NEW S \in SUBSET Block, \A b \in S : d[b].seq \in Nat,
         NEW m \in S, \A b \in S \ {m} : d[b].seq < d[m].seq
  PROVE  NewestIn(d, S) = d[m]
  <1>1. PICK b \in S : NewestIn(d, S) = d[b] /\ \A c \in S : d[c].seq <= d[b].seq
    BY NewestFacts
  <1>2. b = m
    BY <1>1
  <1> QED BY <1>1, <1>2

(* Headers that are the same have the same newest one. *)
LEMMA NewestSame ==
  ASSUME NEW d, NEW f, NEW S \in SUBSET Block,
         \A b \in S : d[b].seq \in Nat /\ d[b] = f[b]
  PROVE  NewestIn(d, S) = NewestIn(f, S)
  <1>1. CASE S = {}
    BY <1>1 DEF NewestIn
  <1>2. CASE S # {}
    <2>1. TopOf(d, S) = TopOf(f, S)
      BY DEF TopOf
    <2>2. Min(TopOf(d, S)) \in TopOf(d, S)
      BY <1>2, TopFacts
    <2>3. Infos[Min(TopOf(d, S))] \in S
      BY <2>2 DEF TopOf
    <2> QED BY <1>2, <2>1, <2>3 DEF NewestIn
  <1> QED BY <1>1, <1>2


----------------------------------------------------------------------------
(* Arithmetic in words. *)

(* The quotient and the remainder are the ones there are. *)
LEMMA DivModUnique ==
  ASSUME NEW w \in Nat \ {0}, NEW q \in Int, NEW r \in 0..(w - 1)
  PROVE  (w * q + r) % w = r /\ (w * q + r) \div w = q
  OBVIOUS

(* Division with remainder. *)
LEMMA DivMod ==
  ASSUME NEW w \in Nat \ {0}, NEW a \in Int
  PROVE  /\ a % w \in 0..(w - 1) /\ a \div w \in Int
         /\ a = w * (a \div w) + (a % w)
  <1> DEFINE T == {t \in Nat : \E q \in Int : t = a - w * q}
  <1>1. T # {}
    <2>1. CASE a >= 0
      <3>1. w * 0 = 0
        BY SMT
      <3>2. a = a - w * 0
        BY <3>1
      <3>3. \E q \in Int : a = a - w * q
        BY <3>2
      <3>4. a \in T
        BY <2>1, <3>3
      <3> QED BY <3>4
    <2>2. CASE a < 0
      <3>1. PICK v \in Nat : w = v + 1
        <4>1. w - 1 \in Nat /\ w = (w - 1) + 1
          OBVIOUS
        <4> QED BY <4>1
      <3>2. PICK b \in Nat : a = -b
        <4>1. -a \in Nat /\ a = -(-a)
          BY <2>2
        <4> QED BY <4>1
      <3>3. a - w * a = v * b
        BY <3>1, <3>2, SMT
      <3>4. v * b \in Nat
        BY SMT
      <3> QED BY <3>3, <3>4
    <2> HIDE DEF T
    <2> QED BY <2>1, <2>2
  <1>2. PICK t \in T : \A u \in T : t <= u
    <2>1. T \in SUBSET Nat
      OBVIOUS
    <2> HIDE DEF T
    <2> QED BY <1>1, <2>1, LeastNumber
  <1>3. PICK q \in Int : t = a - w * q
    BY <1>2
  <1>4. t < w
    <2> SUFFICES ASSUME t >= w PROVE FALSE
      BY <1>2
    <2>1. t - w = a - w * (q + 1)
      BY <1>3
    <2>2. t \in Nat /\ t - w \in Nat
      OBVIOUS
    <2>3. t - w \in T
      BY <2>1, <2>2
    <2> HIDE DEF T
    <2>4. t <= t - w
      BY <1>2, <2>3
    <2> QED BY <2>2, <2>4
  <1>5. w * q \in Int
    OBVIOUS
  <1>6. t \in 0..(w - 1) /\ a = w * q + t
    BY <1>2, <1>3, <1>4, <1>5
  <1> HIDE DEF T
  <1>7. a % w = t /\ a \div w = q
    BY <1>6, DivModUnique
  <1> QED BY <1>6, <1>7

(* A factor may be reduced before a product is. *)
LEMMA ModProduct ==
  ASSUME NEW w \in Nat \ {0}, NEW a \in Int, NEW c \in Int
  PROVE  ((a % w) * c) % w = (a * c) % w
  <1>1. PICK q \in Int, r \in 0..(w - 1) : r = a % w /\ a = w * q + r
    BY DivMod
  <1>2. PICK k \in Int, s \in 0..(w - 1) : s = (r * c) % w /\ r * c = w * k + s
    <2>1. r * c \in Int
      OBVIOUS
    <2> QED BY <2>1, DivMod
  <1>3. a * c = w * (q * c) + r * c
    BY <1>1, SMT
  <1>4. w * (q * c) + w * k = w * (q * c + k)
    BY SMT
  <1>5. q * c + k \in Int /\ w * (q * c + k) \in Int /\ w * (q * c) \in Int /\ w * k \in Int
    OBVIOUS
  <1>6. a * c = w * (q * c + k) + s
    BY <1>2, <1>3, <1>4, <1>5
  <1>7. PICK m \in Int : m = q * c + k
    BY <1>5
  <1>8. (w * m + s) % w = s
    BY DivModUnique
  <1> QED BY <1>1, <1>2, <1>6, <1>7, <1>8

(* A remainder is not above the number. *)
LEMMA ModBelow ==
  ASSUME NEW w \in Nat \ {0}, NEW a \in Nat
  PROVE  a % w <= a
  <1>1. PICK q \in Int, r \in 0..(w - 1) : r = a % w /\ a = w * q + r
    <2>1. a \in Int
      OBVIOUS
    <2>2. /\ a % w \in 0..(w - 1) /\ a \div w \in Int
          /\ a = w * (a \div w) + (a % w)
      BY <2>1, DivMod
    <2> QED BY <2>2
  <1>2. q >= 0
    <2> SUFFICES ASSUME q <= -1 PROVE FALSE
      OBVIOUS
    <2>1. PICK b \in Nat : q = -1 - b
      <3>1. -1 - q \in Nat /\ q = -1 - (-1 - q)
        OBVIOUS
      <3> QED BY <3>1
    <2>2. w * q = -w - w * b
      BY <2>1, SMT
    <2>3. w * b \in Nat
      BY SMT
    <2> QED BY <1>1, <2>2, <2>3
  <1>3. w * q \in Nat
    BY <1>2, SMT
  <1>4. PICK m \in Nat : m = w * q
    BY <1>3
  <1>5. a = m + r
    BY <1>1, <1>4
  <1> QED BY <1>1, <1>5

(* The product of natural numbers, as a number. *)
LEMMA Products ==
  ASSUME NEW a \in Nat, NEW b \in Nat
  PROVE  a * b \in Nat /\ (a = 0 \/ b = 0 => a * b = 0)
  BY SMT

(* A product grows with its factor. *)
LEMMA ProductOrder ==
  ASSUME NEW a \in Nat, NEW b \in Nat, NEW c \in Nat, a <= b
  PROVE  a * c <= b * c
  <1>1. PICK k \in Nat : b = a + k
    <2>1. b - a \in Nat /\ b = a + (b - a)
      OBVIOUS
    <2> QED BY <2>1
  <1>2. b * c = a * c + k * c
    BY <1>1, SMT
  <1>3. a * c \in Nat /\ k * c \in Nat
    BY Products
  <1> QED BY <1>2, <1>3

(* A word. *)
LEMMA UIntFacts ==
  /\ \A a \in Int : UInt(a) \in 0..(Word - 1) /\ UInt(a) \in Nat
  /\ \A a \in Nat : UInt(a) <= a
  /\ \A a, c \in Int : UInt(UInt(a) * c) = UInt(a * c)
  <1>1. Word \in Nat \ {0}
    BY Numbers
  <1>2. ASSUME NEW a \in Int PROVE UInt(a) \in 0..(Word - 1) /\ UInt(a) \in Nat
    <2>1. a % Word \in 0..(Word - 1)
      BY <1>1, DivMod
    <2> QED BY <1>1, <2>1 DEF UInt
  <1>3. ASSUME NEW a \in Nat PROVE UInt(a) <= a
    BY <1>1, ModBelow DEF UInt
  <1>4. ASSUME NEW a \in Int, NEW c \in Int
        PROVE  UInt(UInt(a) * c) = UInt(a * c)
    BY <1>1, ModProduct DEF UInt
  <1> QED BY <1>2, <1>3, <1>4

(* The size of a device is never above the bytes of its mesoblocks, however *)
(* the two wrap around: it is the same product, reduced once more.          *)
LEMMA SizeFacts ==
  ASSUME NEW n \in Nat, NEW r \in Nat
  PROVE  /\ EntrySize(n, r) \in 0..(Word - 1)
         /\ NoBlockIndices(n, r) \in 0..(Word - 1)
         /\ EntrySize(n, r) <= NoBlockIndices(n, r) * MesoSize
         /\ n > r => UInt(UInt(n - r) * MMPM) = NoBlockIndices(n, r)
         /\ n <= r => EntrySize(n, r) = 0
  <1>1. CASE n <= r
    <2>1. EntrySize(n, r) = 0 /\ NoBlockIndices(n, r) = 0
      BY <1>1 DEF EntrySize, NoBlockIndices
    <2>2. 0 * MesoSize = 0
      BY Numbers, Products
    <2> QED BY <1>1, <2>1, <2>2, Numbers
  <1>2. CASE n > r
    <2>1. PICK x \in Nat : x = n - r
      BY <1>2
    <2>2. /\ EntrySize(n, r) = UInt(UInt(x * MesoSize) * MMPM)
          /\ NoBlockIndices(n, r) = UInt(x * MMPM)
      BY <1>2, <2>1 DEF EntrySize, NoBlockIndices
    <2>3. x \in Int /\ MesoSize \in Int /\ MMPM \in Int
      BY Numbers
    <2>4. x * MesoSize \in Nat /\ x * MMPM \in Nat
      BY Numbers, Products
    <2>5. x * MesoSize \in Int /\ x * MMPM \in Int
      BY <2>4
    <2>6. PICK k \in Nat : k = UInt(x * MMPM)
      BY <2>5, UIntFacts
    <2>7. k * MesoSize \in Nat
      BY Numbers, Products
    <2>8. UInt(UInt(x * MesoSize) * MMPM) = UInt((x * MesoSize) * MMPM)
      BY <2>3, <2>5, UIntFacts
    <2>9. UInt(k * MesoSize) = UInt((x * MMPM) * MesoSize)
      BY <2>3, <2>5, <2>6, UIntFacts
    <2>10. (x * MesoSize) * MMPM = (x * MMPM) * MesoSize
      BY <2>3, SMT
    <2>11. EntrySize(n, r) = UInt(k * MesoSize)
      BY <2>2, <2>8, <2>9, <2>10
    <2>12. UInt(k * MesoSize) <= k * MesoSize /\ UInt(k * MesoSize) \in 0..(Word - 1)
      <3>1. k * MesoSize \in Int
        BY <2>7
      <3> QED BY <2>7, <3>1, UIntFacts
    <2>13. NoBlockIndices(n, r) = k /\ k \in 0..(Word - 1)
      BY <2>2, <2>5, <2>6, UIntFacts
    <2>14. UInt(UInt(n - r) * MMPM) = NoBlockIndices(n, r)
      BY <2>1, <2>2, <2>3, UIntFacts
    <2> QED BY <1>2, <2>11, <2>12, <2>13, <2>14
  <1> QED BY <1>1, <1>2


----------------------------------------------------------------------------
(* The pieces of a request. *)

(* Sequences of no element, of one, and of n elements. *)
LEMMA ShortSeqs ==
  ASSUME NEW S, NEW x \in S, NEW n \in Nat, NEW f \in [1..n -> S]
  PROVE  /\ <<>> \in Seq(S) /\ Len(<<>>) = 0
         /\ <<x>> \in Seq(S) /\ Len(<<x>>) = 1 /\ <<x>>[1] = x
         /\ f \in Seq(S) /\ Len(f) = n
  <1>1. <<>> \in Seq(S) /\ Len(<<>>) = 0
    OBVIOUS
  <1>2. <<x>> \in Seq(S) /\ Len(<<x>>) = 1 /\ <<x>>[1] = x
    OBVIOUS
  <1>3. f \in Seq(S) /\ Len(f) = n
    OBVIOUS
  <1> QED BY <1>1, <1>2, <1>3

(* Three sequences one after the other. *)
LEMMA ConcatFacts ==
  ASSUME NEW S, NEW s \in Seq(S), NEW t \in Seq(S), NEW u \in Seq(S),
         NEW r, r = s \o t \o u
  PROVE  /\ r \in Seq(S) /\ Len(r) = Len(s) + Len(t) + Len(u)
         /\ \A i \in 1..Len(s) : r[i] = s[i]
         /\ \A i \in 1..Len(t) : r[Len(s) + i] = t[i]
         /\ \A i \in 1..Len(u) : r[Len(s) + Len(t) + i] = u[i]
  <1>1. PICK v \in Seq(S) : v = s \o t
    <2>1. s \o t \in Seq(S)
      OBVIOUS
    <2> QED BY <2>1
  <1>2. /\ Len(v) = Len(s) + Len(t) /\ Len(s) \in Nat /\ Len(t) \in Nat
        /\ \A i \in 1..Len(s) : v[i] = s[i]
        /\ \A i \in 1..Len(t) : v[Len(s) + i] = t[i]
    BY <1>1
  <1>3. /\ r = v \o u /\ r \in Seq(S)
        /\ Len(r) = Len(v) + Len(u) /\ Len(u) \in Nat
        /\ \A i \in 1..Len(v) : r[i] = v[i]
        /\ \A i \in 1..Len(u) : r[Len(v) + i] = u[i]
    BY <1>1
  <1> QED BY SMTT(30), <1>2, <1>3

(* Piece i of a request that starts at byte in of mesoblock meso: all but  *)
(* the first start at a boundary, all but the last, n, end at one.         *)
IsPiece(x, i, n, meso, in) ==
  /\ x[1] = meso + i - 1 /\ x[2] = IF i = 1 THEN in ELSE 0
  /\ x[3] \in Nat /\ x[3] >= 1 /\ x[2] + x[3] <= MesoSize
  /\ i < n => x[2] + x[3] = MesoSize

(* The pieces r of a request, all together. *)
Cut(r, off, size) ==
  \E n \in Nat, meso \in Nat, in \in 0..(MesoSize - 1) :
    /\ n >= 1 /\ Len(r) = n /\ off = MesoSize * meso + in
    /\ \A i \in 1..n : IsPiece(r[i], i, n, meso, in)
    /\ MesoSize * (meso + n - 1) + r[n][2] + r[n][3] = off + size

(* The pieces of do_req. *)
LEMMA PieceFacts ==
  ASSUME NEW off \in Nat, NEW size \in Nat, size >= 1,
         NEW r, r = Pieces(off, size)
  PROVE  Cut(r, off, size)
  <1>1. MesoSize \in Nat \ {0}
    BY Numbers
  <1>2. PICK w \in Nat \ {0} : w = MesoSize
    BY <1>1
  <1>3. ASSUME NEW a \in Nat
        PROVE  /\ a % w \in 0..(w - 1) /\ a \div w \in Nat
               /\ a = w * (a \div w) + (a % w)
    <2>1. a \in Int
      OBVIOUS
    <2>2. /\ a % w \in 0..(w - 1) /\ a \div w \in Int
          /\ a = w * (a \div w) + (a % w)
      BY <2>1, DivMod
    <2>3. a \div w >= 0
      <3> SUFFICES ASSUME a \div w <= -1 PROVE FALSE
        BY <2>2
      <3>1. PICK b \in Nat : a \div w = -1 - b
        <4>1. -1 - (a \div w) \in Nat /\ a \div w = -1 - (-1 - (a \div w))
          BY <2>2
        <4> QED BY <4>1
      <3>2. w * (-1 - b) = -w - w * b
        BY SMT
      <3>3. w * b \in Nat
        BY SMT
      <3>4. PICK c \in Nat : c = w * b
        BY <3>3
      <3>5. PICK x \in 0..(w - 1) : x = a % w
        BY <2>2
      <3>6. a = -w - c + x
        BY <2>2, <3>1, <3>2, <3>4, <3>5
      <3> QED BY <3>6
    <2> QED BY <2>2, <2>3
  <1>4. PICK meso \in Nat, in \in 0..(w - 1) :
          meso = off \div w /\ in = off % w /\ off = w * meso + in
    BY <1>3
  <1>5. PICK first \in Nat :
          /\ first = IF in = 0 THEN 0
                     ELSE IF in + size <= w THEN size ELSE w - in
          /\ first <= size /\ in + first <= w
          /\ in # 0 => first >= 1
          /\ in # 0 /\ first # size => first = w - in
    BY <1>4
  <1>6. PICK whole \in Nat, rest \in 0..(w - 1) :
          /\ whole = (size - first) \div w /\ rest = (size - first) % w
          /\ size - first = w * whole + rest
    <2>1. size - first \in Nat
      BY <1>5
    <2> QED BY <1>3, <2>1
  <1> DEFINE start == IF in = 0 THEN <<>> ELSE <<<<meso, in, first>>>>
             mid == [i \in 1..whole |-> <<meso + Len(start) + i - 1, 0, w>>]
             last == IF rest > 0 THEN <<<<meso + Len(start) + whole, 0, rest>>>>
                     ELSE <<>>
             S == Int \X Int \X Int
  <1>7. r = start \o mid \o last
    BY <1>2, <1>4, <1>5, <1>6 DEF Pieces
  <1>8. /\ start \in Seq(S) /\ Len(start) = IF in = 0 THEN 0 ELSE 1
        /\ in # 0 => start[1] = <<meso, in, first>>
    <2>1. <<meso, in, first>> \in S
      OBVIOUS
    <2>2. PICK x \in S : x = <<meso, in, first>>
      BY <2>1
    <2> HIDE DEF S
    <2>3. CASE in = 0
      BY <2>2, <2>3, <1>6, ShortSeqs
    <2>4. CASE in # 0
      <3>1. start = <<x>>
        BY <2>2, <2>4
      <3> QED BY <2>2, <2>4, <3>1, ShortSeqs
    <2> QED BY <2>3, <2>4
  <1>9. Len(start) \in Nat
    BY <1>8
  <1> HIDE DEF start
  <1>10. /\ mid \in Seq(S) /\ Len(mid) = whole
         /\ \A i \in 1..whole : mid[i] = <<meso + Len(start) + i - 1, 0, w>>
    <2>1. mid \in [1..whole -> S]
      BY <1>9
    <2>2. <<meso, 0, w>> \in S
      OBVIOUS
    <2>3. \A i \in 1..whole : mid[i] = <<meso + Len(start) + i - 1, 0, w>>
      OBVIOUS
    <2> HIDE DEF S, mid
    <2> QED BY <2>1, <2>2, <2>3, ShortSeqs
  <1>11. /\ last \in Seq(S) /\ Len(last) = IF rest > 0 THEN 1 ELSE 0
         /\ rest > 0 => last[1] = <<meso + Len(start) + whole, 0, rest>>
    <2>1. <<meso + Len(start) + whole, 0, rest>> \in S
      BY <1>9
    <2>2. PICK x \in S : x = <<meso + Len(start) + whole, 0, rest>>
      BY <2>1
    <2> HIDE DEF S
    <2>3. CASE rest = 0
      BY <2>2, <2>3, ShortSeqs
    <2>4. CASE rest > 0
      <3>1. last = <<x>>
        BY <2>2, <2>4
      <3> QED BY <2>2, <2>4, <3>1, ShortSeqs
    <2> QED BY <2>3, <2>4
  <1> HIDE DEF mid, last, S
  <1>12. PICK a \in 0..1, c \in 0..1 : a = Len(start) /\ c = Len(last)
    BY <1>8, <1>11
  <1>13. PICK n \in Nat : n = a + whole + c
    OBVIOUS
  <1>14. /\ Len(r) = n
         /\ in = 0 <=> a = 0
         /\ rest = 0 <=> c = 0
         /\ in # 0 => r[1] = <<meso, in, first>>
         /\ \A i \in 1..whole : r[a + i] = <<meso + a + i - 1, 0, w>>
         /\ rest > 0 => r[a + whole + 1] = <<meso + a + whole, 0, rest>>
    <2>1. /\ Len(r) = Len(start) + Len(mid) + Len(last)
          /\ \A i \in 1..Len(start) : r[i] = start[i]
          /\ \A i \in 1..Len(mid) : r[Len(start) + i] = mid[i]
          /\ \A i \in 1..Len(last) : r[Len(start) + Len(mid) + i] = last[i]
      <3>1. start \in Seq(S) /\ mid \in Seq(S) /\ last \in Seq(S)
        BY <1>8, <1>10, <1>11
      <3> HIDE DEF start, mid, last, S
      <3> QED BY <1>7, <3>1, ConcatFacts
    <2>2. /\ Len(r) = n /\ (in = 0 <=> a = 0) /\ (rest = 0 <=> c = 0)
      BY <2>1, <1>8, <1>10, <1>11, <1>12, <1>13
    <2>3. in # 0 => r[1] = <<meso, in, first>>
      BY <2>1, <1>8
    <2>4. \A i \in 1..whole : r[a + i] = <<meso + a + i - 1, 0, w>>
      BY <2>1, <1>10, <1>12
    <2>5. rest > 0 => r[a + whole + 1] = <<meso + a + whole, 0, rest>>
      BY <2>1, <1>10, <1>11, <1>12
    <2> QED BY <2>2, <2>3, <2>4, <2>5
  <1>15. PICK A \in Nat, B \in Nat : A = w * meso /\ B = w * whole
    BY <1>4, <1>6, Products
  <1>16. off = A + in /\ size = first + B + rest
    BY <1>4, <1>6, <1>15
  <1>17. whole = 0 => B = 0
    BY <1>2, <1>15, Products
  <1>18. n >= 1
    BY <1>5, <1>13, <1>14, <1>16, <1>17
  <1>19. in # 0 /\ n > 1 => first = w - in
    <2> SUFFICES ASSUME in # 0, n > 1, first = size PROVE FALSE
      BY <1>5
    <2>1. B = 0 /\ rest = 0
      BY <1>16
    <2>2. whole = 0
      <3> SUFFICES ASSUME whole >= 1 PROVE FALSE
        OBVIOUS
      <3>1. PICK k \in Nat : whole = 1 + k
        <4>1. whole - 1 \in Nat /\ whole = 1 + (whole - 1)
          OBVIOUS
        <4> QED BY <4>1
      <3>2. w * whole = w + w * k /\ w * k \in Nat
        BY <3>1, Products, SMT
      <3> QED BY <1>15, <2>1, <3>2
    <2> QED BY <1>13, <1>14, <2>1, <2>2
  <1>20. /\ w * (meso + whole) = A + B
         /\ w * (meso + 1 + whole) = A + w + B
         /\ w * (meso + (whole - 1)) = A + B - w
    BY <1>15, SMT
  <1>21. ASSUME NEW i \in 1..n PROVE IsPiece(r[i], i, n, meso, in)
    <2>1. CASE i <= a
      <3>1. i = 1 /\ in # 0 /\ r[i] = <<meso, in, first>>
        BY <1>14, <2>1
      <3>2. r[i][1] = meso /\ r[i][2] = in /\ r[i][3] = first
        BY <3>1
      <3> QED BY <1>2, <1>5, <1>19, <3>1, <3>2 DEF IsPiece
    <2>2. CASE a < i /\ i <= a + whole
      <3>1. PICK j \in 1..whole : i = a + j
        <4>1. i - a \in 1..whole /\ i = a + (i - a)
          BY <2>2
        <4> QED BY <4>1
      <3>2. r[i] = <<meso + a + j - 1, 0, w>>
        BY <1>14, <3>1
      <3>3. r[i][1] = meso + i - 1 /\ r[i][2] = 0 /\ r[i][3] = w
        BY <3>1, <3>2
      <3>4. i = 1 => in = 0
        BY <1>14, <3>1
      <3> QED BY <1>2, <3>3, <3>4 DEF IsPiece
    <2>3. CASE i > a + whole
      <3>1. i = a + whole + 1 /\ rest > 0 /\ i = n
        BY SMTT(30), <1>13, <1>14, <2>3
      <3>2. r[i] = <<meso + a + whole, 0, rest>>
        BY <1>14, <3>1
      <3>3. r[i][1] = meso + i - 1 /\ r[i][2] = 0 /\ r[i][3] = rest
        BY <3>1, <3>2
      <3>4. i = 1 => in = 0
        BY <1>14, <3>1
      <3> QED BY <1>2, <3>1, <3>3, <3>4 DEF IsPiece
    <2> QED BY <2>1, <2>2, <2>3
  <1>22. w * (meso + n - 1) + r[n][2] + r[n][3] = off + size
    <2>1. CASE rest > 0
      <3>1. n = a + whole + 1 /\ r[n] = <<meso + a + whole, 0, rest>>
        BY <1>13, <1>14, <2>1
      <3>2. r[n][2] = 0 /\ r[n][3] = rest
        BY <3>1
      <3>3. CASE in = 0
        <4>1. meso + n - 1 = meso + whole
          BY <1>14, <3>1, <3>3
        <4>2. w * (meso + n - 1) = A + B
          BY <1>20, <4>1
        <4> QED BY <1>5, <1>16, <3>2, <3>3, <4>2
      <3>4. CASE in # 0
        <4>1. meso + n - 1 = meso + 1 + whole
          BY <1>14, <3>1, <3>4
        <4>2. first = w - in
          BY <1>5, <1>16, <2>1, <3>4
        <4>3. w * (meso + n - 1) = A + w + B
          BY <1>20, <4>1
        <4> QED BY <1>16, <3>2, <4>2, <4>3
      <3> QED BY <3>3, <3>4
    <2>2. CASE rest = 0 /\ whole >= 1
      <3>1. n = a + whole /\ r[n] = <<meso + a + whole - 1, 0, w>>
        BY <1>13, <1>14, <2>2
      <3>2. r[n][2] = 0 /\ r[n][3] = w
        BY <3>1
      <3>3. CASE in = 0
        <4>1. meso + n - 1 = meso + (whole - 1)
          BY <1>14, <3>1, <3>3
        <4>2. w * (meso + n - 1) = A + B - w
          BY <1>20, <4>1
        <4> QED BY <1>5, <1>16, <2>2, <3>2, <3>3, <4>2
      <3>4. CASE in # 0
        <4>1. meso + n - 1 = meso + whole /\ n > 1
          BY <1>14, <2>2, <3>1, <3>4
        <4>2. first = w - in
          BY <1>19, <3>4, <4>1
        <4>3. w * (meso + n - 1) = A + B
          BY <1>20, <4>1
        <4> QED BY <1>16, <2>2, <3>2, <4>2, <4>3
      <3> QED BY <3>3, <3>4
    <2>3. CASE rest = 0 /\ whole = 0
      <3>1. n = 1 /\ in # 0 /\ r[n] = <<meso, in, first>>
        BY <1>13, <1>14, <1>18, <2>3
      <3>2. meso + n - 1 = meso /\ first = size
        BY <1>16, <1>17, <2>3, <3>1
      <3>3. r[n][2] = in /\ r[n][3] = first
        BY <3>1
      <3>4. w * (meso + n - 1) = A
        BY <1>15, <3>2
      <3> QED BY <1>16, <3>2, <3>3, <3>4
    <2> QED BY <2>1, <2>2, <2>3
  <1> QED BY <1>2, <1>4, <1>14, <1>18, <1>21, <1>22 DEF Cut


(* A product that is below another with the same factor. *)
LEMMA ProductBelow ==
  ASSUME NEW a \in Nat, NEW b \in Nat, NEW c \in Nat, c * a < b * c
  PROVE  a < b
  <1> SUFFICES ASSUME b <= a PROVE FALSE
    OBVIOUS
  <1>1. b * c <= a * c
    BY ProductOrder
  <1>2. a * c = c * a /\ a * c \in Nat /\ b * c \in Nat
    BY Products, SMT
  <1> QED BY <1>1, <1>2

(* A request within the bytes of k mesoblocks is accepted, its pieces      *)
(* follow each other, and none crosses a boundary or the end.              *)
LEMMA Tiling ==
  ASSUME NEW off \in Nat, NEW size \in Nat, size >= 1, NEW k \in Nat,
         off + size <= k * MesoSize, NEW r, r = Pieces(off, size)
  PROVE  /\ (off + size - 1) \div MesoSize < k
         /\ r[1][1] * MesoSize + r[1][2] = off
         /\ r[Len(r)][1] * MesoSize + r[Len(r)][2] + r[Len(r)][3] = off + size
         /\ \A i \in 2..Len(r) : r[i][1] * MesoSize + r[i][2]
               = r[i - 1][1] * MesoSize + r[i - 1][2] + r[i - 1][3]
         /\ \A i \in 1..Len(r) : r[i][2] + r[i][3] <= MesoSize /\ r[i][1] < k
  <1>1. PICK w \in Nat \ {0} : w = MesoSize
    BY Numbers
  <1>2. PICK n \in Nat, meso \in Nat, in \in 0..(MesoSize - 1) :
          /\ n >= 1 /\ Len(r) = n /\ off = MesoSize * meso + in
          /\ \A i \in 1..n : IsPiece(r[i], i, n, meso, in)
          /\ MesoSize * (meso + n - 1) + r[n][2] + r[n][3] = off + size
    <2>1. Cut(r, off, size)
      BY PieceFacts
    <2> QED BY <2>1 DEF Cut
  <1>0. in \in 0..(w - 1) /\ n >= 1 /\ 1 \in 1..n /\ n \in 1..n
    BY <1>1, <1>2
  <1>3. PICK K \in Nat : K = k * w
    BY Products
  <1>4. (off + size - 1) \div w < k
    <2>1. PICK x \in Nat : x = off + size - 1
      OBVIOUS
    <2>2. x \in Int
      OBVIOUS
    <2>3. PICK q \in Int, s \in 0..(w - 1) : q = x \div w /\ x = w * q + s
      <3>1. /\ x % w \in 0..(w - 1) /\ x \div w \in Int
            /\ x = w * (x \div w) + (x % w)
        BY <2>2, DivMod
      <3> QED BY <3>1
    <2>4. CASE q < 0
      BY <2>1, <2>3, <2>4
    <2>5. CASE q >= 0
      <3>1. q \in Nat /\ w * q \in Nat
        BY <2>5, Products
      <3>2. w * q < k * w
        BY <1>1, <1>3, <2>1, <2>3, <3>1
      <3> QED BY <2>1, <2>3, <3>1, <3>2, ProductBelow
    <2> QED BY <2>3, <2>4, <2>5
  <1>5. \A i \in 1..n :
          /\ r[i][1] = meso + i - 1 /\ r[i][2] = IF i = 1 THEN in ELSE 0
          /\ r[i][3] \in Nat /\ r[i][3] >= 1 /\ r[i][2] + r[i][3] <= w
          /\ i < n => r[i][2] + r[i][3] = w
    BY <1>1, <1>2 DEF IsPiece
  <1>6. r[1][1] * w + r[1][2] = off
    <2>1. r[1][1] = meso /\ r[1][2] = in
      BY <1>0, <1>5
    <2>2. meso * w = w * meso
      BY SMT
    <2> QED BY <1>1, <1>2, <2>1, <2>2
  <1>7. r[n][1] * w + r[n][2] + r[n][3] = off + size
    <2>1. PICK m \in Nat : m = meso + n - 1 /\ r[n][1] = m
      BY <1>0, <1>5
    <2>2. m * w = w * m
      BY SMT
    <2> QED BY <1>1, <1>2, <2>1, <2>2
  <1>8. ASSUME NEW i \in 2..n
        PROVE  r[i][1] * w + r[i][2] = r[i - 1][1] * w + r[i - 1][2] + r[i - 1][3]
    <2>1. PICK m \in Nat : m = meso + i - 2
      BY <1>2
    <2>2. i - 1 \in 1..n /\ i - 1 < n /\ i \in 1..n
      BY SMTT(30), <1>2
    <2>3. r[i][1] = m + 1 /\ r[i][2] = 0 /\ r[i - 1][1] = m
      BY <1>5, <2>1, <2>2
    <2>4. r[i - 1][2] + r[i - 1][3] = w
      BY <1>5, <2>2
    <2>5. (m + 1) * w = m * w + w /\ m * w \in Nat
      BY Products, SMT
    <2>6. r[i - 1][2] \in Nat /\ r[i - 1][3] \in Nat
      <3>1. i - 1 = 1 \/ i - 1 # 1
        OBVIOUS
      <3> QED BY <1>0, <1>5, <2>2
    <2> QED BY <2>3, <2>4, <2>5, <2>6
  <1>9. ASSUME NEW i \in 1..n PROVE r[i][1] < k
    <2>1. PICK m \in Nat : m = meso + n - 1
      BY <1>2
    <2>2. w * m \in Nat /\ r[n][3] >= 1 /\ r[n][3] \in Nat /\ r[n][2] \in Nat
      <3>1. w * m \in Nat
        BY Products
      <3> QED BY <1>0, <1>5, <3>1
    <2>3. w * m + r[n][2] + r[n][3] <= K
      BY <1>1, <1>2, <1>3, <2>1
    <2>4. w * m < k * w
      BY <1>3, <2>2, <2>3
    <2>5. m < k
      BY <2>4, ProductBelow
    <2>6. r[i][1] <= m
      BY <1>0, <1>5, <2>1
    <2>7. r[i][1] \in Nat
      BY <1>5
    <2> QED BY <2>5, <2>6, <2>7
  <1> QED BY <1>1, <1>2, <1>4, <1>5, <1>6, <1>7, <1>8, <1>9

(* So requests are tiled, when the sizes are within the mesoblocks. *)
LEMMA TiledFromSizes ==
  ASSUME PartitionsTypeOK, \A p \in Part : dev[p].size <= dev[p].indices * MesoSize
  PROVE  RequestsTiled
  <1> SUFFICES ASSUME NEW p \in Part, NEW off \in 0..(dev[p].size - 1),
                      NEW size \in 1..(dev[p].size - off)
               PROVE  LET r == Pieces(off, size)
                          at(i) == r[i][1] * MesoSize + r[i][2]
                      IN  /\ Accepted(p, off, size)
                          /\ at(1) = off
                          /\ at(Len(r)) + r[Len(r)][3] = off + size
                          /\ \A i \in 2..Len(r) : at(i) = at(i - 1) + r[i - 1][3]
                          /\ \A i \in 1..Len(r) : /\ r[i][2] + r[i][3] <= MesoSize
                                                  /\ r[i][1] < dev[p].indices
    BY DEF RequestsTiled
  <1>1. dev[p].size \in Nat /\ dev[p].indices \in Nat
    BY DeviceFacts, Numbers
  <1>2. off \in Nat /\ size \in Nat /\ size >= 1 /\ off + size <= dev[p].size
    BY <1>1
  <1>3. PICK K \in Nat : K = dev[p].indices * MesoSize
    BY <1>1, Numbers, Products
  <1>4. off + size <= dev[p].indices * MesoSize
    BY <1>1, <1>2, <1>3
  <1> DEFINE r == Pieces(off, size)
  <1>6. /\ (off + size - 1) \div MesoSize < dev[p].indices
        /\ r[1][1] * MesoSize + r[1][2] = off
        /\ r[Len(r)][1] * MesoSize + r[Len(r)][2] + r[Len(r)][3] = off + size
        /\ \A i \in 2..Len(r) : r[i][1] * MesoSize + r[i][2]
              = r[i - 1][1] * MesoSize + r[i - 1][2] + r[i - 1][3]
        /\ \A i \in 1..Len(r) : /\ r[i][2] + r[i][3] <= MesoSize
                                /\ r[i][1] < dev[p].indices
    BY <1>1, <1>2, <1>4, Tiling
  <1> QED BY <1>6 DEF Accepted


----------------------------------------------------------------------------
(* The parts of the state that a step leaves alone. *)

(* The facts of the invariant that most steps use. *)
LEMMA InvFacts ==
  ASSUME PartInv
  PROVE  /\ PartitionsTypeOK /\ Sound(heap) /\ HeadersOK /\ OwnersOK
         /\ heap \in Heap /\ owner \in [Block -> Part \cup {Null}]
         /\ dev \in [Part -> Device] /\ disk \in [Block -> Header \cup {NoHeader}]
         /\ ctl \in Part \cup {Null} /\ careless \in BOOLEAN
         /\ \A p \in Part : DevOK(p)
         /\ ~ careless => \A p \in Part : Careful(p)
         /\ OpenNeverDies
  BY Zenon DEF PartInv, PartitionsTypeOK, Device

(* A device with other values. *)
LEMMA DevUpdate ==
  ASSUME dev \in [Part -> Device], NEW p \in Part, NEW D \in Device,
         dev' = [dev EXCEPT ![p] = D]
  PROVE  /\ dev' \in [Part -> Device] /\ dev'[p] = D
         /\ \A q \in Part \ {p} : dev'[q] = dev[q]
  OBVIOUS

(* D is the device d with b as its next block. *)
IsSelected(D, d, b) ==
  /\ D \in Device /\ ~ D.updated /\ D.pc = d.pc /\ D.cur = b
  /\ D.used = d.used /\ D.jug = d.jug /\ D.nmac = d.nmac
  /\ D.res = d.res /\ D.size = d.size /\ D.indices = d.indices
  /\ D.seqno = d.seqno + 1 /\ d.seqno \in Nat

(* A device that selects its next block. *)
LEMMA SelectedFacts ==
  ASSUME NEW d \in Device, NEW b \in Block
  PROVE  IsSelected(Selected(d, b), d, b)
  <1>0. PICK D : D = Selected(d, b)
    OBVIOUS
  <1>1. PICK x \in Device : x = [d EXCEPT !.cur = b]
    <2>1. [d EXCEPT !.cur = b] \in Device
      BY DEF Device
    <2> QED BY <2>1
  <1>2. PICK y \in Device : y = [x EXCEPT !.seqno = d.seqno + 1]
    <2>1. [x EXCEPT !.seqno = d.seqno + 1] \in Device
      BY DEF Device
    <2> QED BY <2>1
  <1>3. D = [y EXCEPT !.updated = FALSE]
    BY <1>0, <1>1, <1>2, Zenon DEF Selected
  <1>4. D \in Device
    BY <1>3 DEF Device
  <1>5. /\ x.updated = d.updated /\ x.pc = d.pc /\ x.cur = b
        /\ x.used = d.used /\ x.jug = d.jug /\ x.nmac = d.nmac
        /\ x.res = d.res /\ x.size = d.size /\ x.indices = d.indices
        /\ d.seqno \in Nat
    BY <1>1 DEF Device
  <1>6. /\ y.pc = x.pc /\ y.cur = x.cur
        /\ y.used = x.used /\ y.jug = x.jug /\ y.nmac = x.nmac
        /\ y.res = x.res /\ y.size = x.size /\ y.indices = x.indices
        /\ y.seqno = d.seqno + 1
    BY <1>2 DEF Device
  <1>7. /\ D.pc = y.pc /\ D.cur = y.cur /\ D.updated = FALSE
        /\ D.used = y.used /\ D.jug = y.jug /\ D.nmac = y.nmac
        /\ D.res = y.res /\ D.size = y.size /\ D.indices = y.indices
        /\ D.seqno = y.seqno
    BY <1>3 DEF Device
  <1>8. IsSelected(D, d, b)
    BY <1>4, <1>5, <1>6, <1>7 DEF IsSelected
  <1> QED BY <1>0, <1>8

(* The headers have not changed. *)
LEMMA DiskSame ==
  ASSUME disk' = disk
  PROVE  /\ \A q \in Part : /\ Signed(q)' = Signed(q) /\ Newest(q)' = Newest(q)
                            /\ OnDisk(q)' = OnDisk(q)
         /\ HeadersOK => HeadersOK'
  <1>1. HeadersOK => HeadersOK'
    BY DEF HeadersOK
  <1>2. ASSUME NEW q \in Part
        PROVE  Signed(q)' = Signed(q) /\ Newest(q)' = Newest(q) /\ OnDisk(q)' = OnDisk(q)
    BY DEF Signed, Newest, NewestOf, OnDisk
  <1> QED BY <1>1, <1>2

(* A device that has not changed, with the same blocks. *)
LEMMA DevFrame ==
  ASSUME NEW q \in Part, DevOK(q), dev'[q] = dev[q],
         Owned(q)' = Owned(q), Listed(q)' = Listed(q)
  PROVE  DevOK(q)'
  BY DEF DevOK

LEMMA CarefulFrame ==
  ASSUME NEW q \in Part, Careful(q), disk' = disk, dev'[q] = dev[q],
         Owned(q)' = Owned(q), \A b \in OnDisk(q) : owner'[b] \in {q, Null}
  PROVE  Careful(q)'
  <1>1. \A p \in Part : /\ Signed(p)' = Signed(p) /\ Newest(p)' = Newest(p)
                        /\ OnDisk(p)' = OnDisk(p)
    BY DiskSame, Zenon
  <1> QED BY <1>1 DEF Careful

(* The newest header of a set of signed blocks. *)
LEMMA NewestType ==
  ASSUME PartitionsTypeOK, HeadersOK, NEW S \in SUBSET Block,
         \A b \in S : disk[b].part # Null
  PROVE  /\ NewestOf(S).used \in SUBSET Block /\ NewestOf(S).nmac \in Nat
         /\ NewestOf(S).nmac = Cardinality(NewestOf(S).used)
         /\ NewestOf(S).res \in 0..(Word - 1) /\ NewestOf(S).seq \in Nat
         /\ \A b \in S : disk[b].seq <= NewestOf(S).seq
         /\ S = {} => NewestOf(S) = NoHeader
  <1>1. NewestOf(S) = NewestIn(disk, S)
    BY DEF NewestOf, NewestIn, TopOf
  <1>2. CASE S = {}
    <2>1. NewestOf(S) = NoHeader
      BY <1>1, <1>2 DEF NewestIn
    <2>2. /\ NoHeader.used = {} /\ NoHeader.nmac = 0 /\ NoHeader.res = 0
          /\ NoHeader.seq = 0
      BY DEF NoHeader
    <2> QED BY <1>2, <2>1, <2>2, BlockSets, Numbers
  <1>3. CASE S # {}
    <2>1. \A b \in S : disk[b] \in Header
      BY DEF PartitionsTypeOK, NoHeader
    <2>2. \A b \in S : /\ disk[b].seq \in Nat /\ disk[b].res \in Nat
                       /\ disk[b].used \in SUBSET Block /\ disk[b].nmac \in Nat
      BY <2>1 DEF Header
    <2>3. PICK b \in S : NewestIn(disk, S) = disk[b] /\ \A c \in S : disk[c].seq <= disk[b].seq
      BY <1>3, <2>2, NewestFacts
    <2>4. disk[b].res < Word /\ disk[b].nmac = Cardinality(disk[b].used)
      BY DEF HeadersOK
    <2> QED BY <1>1, <1>3, <2>2, <2>3, <2>4, Numbers
  <1> QED BY <1>2, <1>3

(* The blocks in the replay list of a partition are its own. *)
LEMMA ListedOwned ==
  ASSUME PartInv, NEW q \in Part
  PROVE  Listed(q) \subseteq Owned(q)
  <1>1. DevOK(q)
    BY InvFacts
  <1>2. dev[q].pc \in {"closed", "scanned", "open", "freeing"}
    BY InvFacts, DeviceFacts
  <1> QED BY <1>1, <1>2 DEF DevOK

(* A device that is closed is in order. *)
LEMMA GoneOK ==
  ASSUME NEW q \in Part, dev'[q] = Gone, Owned(q)' = {}, Listed(q)' = {}
  PROVE  DevOK(q)'
  <1>1. /\ Gone.size = 0 /\ Gone.indices = 0 /\ Gone.nmac = 0 /\ Gone.used = {}
        /\ Gone.pc = "closed"
    BY DEF Gone
  <1>2. 0 * MesoSize = 0
    BY Numbers, Products
  <1>3. Gone.size <= Gone.indices * MesoSize
    BY <1>1, <1>2
  <1> QED BY <1>1, <1>3, BlockSets DEF DevOK

(* A daemon that has just started is in order, whatever is on disk. *)
Fresh ==
  /\ heap = FreshHeap /\ owner = [b \in Block |-> Null]
  /\ dev = [p \in Part |-> Gone] /\ ctl = Null

LEMMA FreshFacts ==
  Fresh => /\ Sound(heap) /\ heap \in Heap /\ owner \in [Block -> Part \cup {Null}]
           /\ dev \in [Part -> Device] /\ ctl \in Part \cup {Null} /\ OwnersOK
           /\ \A p \in Part : DevOK(p)
  <1> SUFFICES ASSUME Fresh
               PROVE  /\ Sound(heap) /\ heap \in Heap
                      /\ owner \in [Block -> Part \cup {Null}]
                      /\ dev \in [Part -> Device] /\ ctl \in Part \cup {Null}
                      /\ OwnersOK /\ \A p \in Part : DevOK(p)
    OBVIOUS
  <1>1. /\ Sound(heap) /\ Listed(Unallocated) = Block
        /\ \A p \in Part : Listed(p) = {}
    BY FreshHeapSound DEF Fresh, Listed
  <1>2. heap \in Heap /\ owner \in [Block -> Part \cup {Null}] /\ ctl \in Part \cup {Null}
    BY <1>1 DEF Sound, Fresh
  <1>3. dev \in [Part -> Device] /\ \A p \in Part : dev[p] = Gone
    BY GoneType DEF Fresh
  <1>4. Null \notin Part
    BY Constants
  <1>5. OwnersOK
    <2>1. \A b \in Block : owner[b] = Null <=> b \in Listed(Unallocated)
      BY <1>1 DEF Fresh
    <2>2. \A p \in Part : ctl # p /\ dev[p].pc # "scanned"
      BY <1>3, <1>4 DEF Fresh, Gone
    <2> QED BY <2>1, <2>2 DEF OwnersOK
  <1>6. ASSUME NEW p \in Part PROVE DevOK(p)
    <2>1. Owned(p) = {}
      BY <1>4 DEF Owned, Fresh
    <2>2. /\ dev[p] = Gone /\ dev[p].size = 0 /\ dev[p].indices = 0
          /\ dev[p].nmac = 0 /\ dev[p].used = {} /\ dev[p].pc = "closed"
      BY <1>3 DEF Gone
    <2>3. 0 * MesoSize = 0
      BY Numbers, Products
    <2>4. dev[p].size <= dev[p].indices * MesoSize
      BY <2>2, <2>3
    <2> QED BY <1>1, <2>1, <2>2, <2>4, BlockSets DEF DevOK
  <1> QED BY <1>1, <1>2, <1>3, <1>5, <1>6


----------------------------------------------------------------------------
(* The steps keep the invariant. *)

LEMMA InitInv == PartitionsInit => PartInv
  <1> SUFFICES ASSUME PartitionsInit PROVE PartInv
    OBVIOUS
  <1>1. Fresh
    BY DEF PartitionsInit, Fresh
  <1>2. \A b \in Block : disk[b] = NoHeader
    BY DEF PartitionsInit
  <1>3. Null \notin Part
    BY Constants
  <1>4. \A p \in Part : Signed(p) = {}
    BY <1>2, <1>3 DEF Signed, NoHeader
  <1>5. \A p \in Part : Newest(p) = NoHeader /\ Newest(p).used = {}
    BY <1>4 DEF Newest, NewestOf, NoHeader
  <1>6. \A p \in Part : OnDisk(p) = {}
    BY <1>4, <1>5 DEF OnDisk
  <1>7. HeadersOK
    BY <1>2 DEF HeadersOK, NoHeader
  <1>8. \A p \in Part : dev[p].pc = "closed"
    BY <1>1 DEF Fresh, Gone
  <1>9. ASSUME NEW p \in Part PROVE Careful(p)
    BY <1>4, <1>5, <1>6, <1>8 DEF Careful
  <1>10. PartitionsTypeOK
    BY <1>1, FreshFacts DEF PartitionsTypeOK, PartitionsInit, Device
  <1>11. OpenNeverDies
    BY DEF PartitionsInit, OpenNeverDies
  <1> QED BY <1>1, <1>7, <1>9, <1>10, <1>11, FreshFacts DEF PartInv

(* The daemon ends. *)
LEMMA DieInv ==
  ASSUME PartInv, NEW why \in {"claimed", "count", "shrunk", "killed"},
         why \in {"claimed", "count"} => careless, Die(why)
  PROVE  PartInv'
  <1>1. Fresh'
    BY DEF Die, Fresh
  <1>2. Fresh' => (/\ Sound(heap) /\ heap \in Heap
                   /\ owner \in [Block -> Part \cup {Null}]
                   /\ dev \in [Part -> Device] /\ ctl \in Part \cup {Null} /\ OwnersOK
                   /\ \A p \in Part : DevOK(p))'
    BY FreshFacts, PTL
  <1>3. disk' = disk /\ careless' = careless /\ died' = why
    BY DEF Die
  <1>4. HeadersOK'
    BY <1>3, InvFacts, DiskSame
  <1>5. \A p \in Part : dev'[p].pc = "closed"
    BY <1>1 DEF Fresh, Gone
  <1>6. ASSUME ~ careless', NEW p \in Part PROVE Careful(p)'
    <2>1. Careful(p)
      BY <1>3, <1>6, InvFacts
    <2>2. \A q \in Part : /\ Signed(q)' = Signed(q) /\ Newest(q)' = Newest(q)
                          /\ OnDisk(q)' = OnDisk(q)
      BY <1>3, DiskSame
    <2>3. OnDisk(p) \subseteq Block
      <3>1. Newest(p).used \in SUBSET Block
        <4>1. Signed(p) \in SUBSET Block /\ \A b \in Signed(p) : disk[b].part # Null
          BY Constants DEF Signed
        <4> QED BY <4>1, InvFacts, NewestType DEF Newest
      <3> QED BY <3>1 DEF OnDisk, Signed
    <2>4. \A b \in OnDisk(p) : owner'[b] = Null
      BY <1>1, <2>3 DEF Fresh
    <2> QED BY <1>5, <2>1, <2>2, <2>4 DEF Careful
  <1>7. PartitionsTypeOK'
    BY <1>1, <1>2, <1>3, InvFacts DEF PartitionsTypeOK, Device
  <1>8. OpenNeverDies'
    BY <1>3 DEF OpenNeverDies
  <1> QED BY <1>1, <1>2, <1>4, <1>6, <1>7, <1>8, InvFacts DEF PartInv

(* What p has on disk is blocks. *)
LEMMA OnDiskFacts ==
  ASSUME PartInv, NEW p \in Part
  PROVE  /\ Signed(p) \in SUBSET Block /\ OnDisk(p) \in SUBSET Block
         /\ \A b \in Signed(p) : disk[b].part # Null /\ disk[b].seq \in Nat
         /\ Newest(p).used \in SUBSET Block /\ Newest(p).nmac \in Nat
         /\ Newest(p).nmac = Cardinality(Newest(p).used)
         /\ Newest(p).res \in 0..(Word - 1) /\ Newest(p).seq \in Nat
         /\ \A b \in Signed(p) : disk[b].seq <= Newest(p).seq
         /\ Signed(p) = {} => Newest(p) = NoHeader
  <1>1. Signed(p) \in SUBSET Block /\ \A b \in Signed(p) : disk[b].part # Null
    BY Constants DEF Signed
  <1>2. \A b \in Signed(p) : disk[b].seq \in Nat
    BY <1>1, InvFacts DEF Header, NoHeader
  <1>3. /\ Newest(p).used \in SUBSET Block /\ Newest(p).nmac \in Nat
        /\ Newest(p).nmac = Cardinality(Newest(p).used)
        /\ Newest(p).res \in 0..(Word - 1) /\ Newest(p).seq \in Nat
        /\ \A b \in Signed(p) : disk[b].seq <= Newest(p).seq
        /\ Signed(p) = {} => Newest(p) = NoHeader
    BY <1>1, InvFacts, NewestType DEF Newest
  <1> QED BY <1>1, <1>2, <1>3 DEF OnDisk

(* A header of p is written, on a block of p. *)
LEMMA HeaderWritten ==
  ASSUME PartInv, NEW p \in Part, dev[p].pc = "open", dev[p].cur # Null,
         WriteHeader(p)
  PROVE  /\ disk' \in [Block -> Header \cup {NoHeader}] /\ HeadersOK'
         /\ dev[p].cur \in Block
         /\ disk'[dev[p].cur] = [part |-> p, seq |-> dev[p].seqno, used |-> dev[p].used,
                                 nmac |-> dev[p].nmac, res |-> dev[p].res]
         /\ \A b \in Block \ {dev[p].cur} : disk'[b] = disk[b]
  <1>1. DevOK(p) /\ disk \in [Block -> Header \cup {NoHeader}]
    BY InvFacts
  <1>2. /\ dev[p].cur \in Block /\ dev[p].used \in SUBSET Block /\ dev[p].nmac \in Nat
        /\ dev[p].seqno \in Nat /\ dev[p].res \in Nat /\ dev[p].res < Word
    BY InvFacts, DeviceFacts, Numbers
  <1> DEFINE H == [part |-> p, seq |-> dev[p].seqno, used |-> dev[p].used,
                   nmac |-> dev[p].nmac, res |-> dev[p].res]
  <1>3. H \in Header
    BY <1>2 DEF Header
  <1>4. H.res = dev[p].res /\ H.nmac = dev[p].nmac /\ H.used = dev[p].used
    OBVIOUS
  <1>5. dev[p].nmac = Cardinality(dev[p].used)
    BY <1>1 DEF DevOK
  <1>6. disk' = [disk EXCEPT ![dev[p].cur] = H]
    BY DEF WriteHeader
  <1> HIDE DEF H
  <1>7. /\ disk' \in [Block -> Header \cup {NoHeader}] /\ disk'[dev[p].cur] = H
        /\ \A b \in Block \ {dev[p].cur} : disk'[b] = disk[b]
    BY <1>1, <1>2, <1>3, <1>6
  <1>8. HeadersOK'
    <2>1. HeadersOK
      BY InvFacts
    <2> QED BY <1>2, <1>4, <1>5, <1>7, <2>1 DEF HeadersOK
  <1> QED BY <1>2, <1>7, <1>8 DEF H

(* That makes the header the newest one of p, and leaves the other         *)
(* partitions alone.                                                       *)
LEMMA Written ==
  ASSUME PartInv, ~ careless, NEW p \in Part, dev[p].pc = "open",
         dev[p].cur # Null, WriteHeader(p)
  PROVE  /\ Newest(p)' = [part |-> p, seq |-> dev[p].seqno, used |-> dev[p].used,
                          nmac |-> dev[p].nmac, res |-> dev[p].res]
         /\ Signed(p)' = Signed(p) \cup {dev[p].cur}
         /\ OnDisk(p)' = dev[p].used
         /\ \A b \in Signed(p)' : disk'[b].seq <= dev[p].seqno
         /\ \A q \in Part \ {p} : /\ Signed(q)' = Signed(q) /\ OnDisk(q)' = OnDisk(q)
                                  /\ Newest(q)' = Newest(q)
                                  /\ \A b \in Signed(q) : disk'[b] = disk[b]
  <1> DEFINE c == dev[p].cur
             H == [part |-> p, seq |-> dev[p].seqno, used |-> dev[p].used,
                   nmac |-> dev[p].nmac, res |-> dev[p].res]
  <1>1. /\ c \in Block /\ disk'[c] = H /\ \A b \in Block \ {c} : disk'[b] = disk[b]
    BY HeaderWritten
  <1>2. H.part = p /\ H.seq = dev[p].seqno /\ H.used = dev[p].used
    OBVIOUS
  <1>3. DevOK(p) /\ \A q \in Part : Careful(q)
    BY InvFacts
  <1>4. c \in Owned(p) /\ Owned(p) = dev[p].used
    BY <1>3 DEF DevOK
  <1> HIDE DEF c, H
  <1>5. Signed(p)' = Signed(p) \cup {c}
    BY <1>1, <1>2 DEF Signed
  <1>6. /\ Signed(p) \in SUBSET Block /\ \A b \in Signed(p) : disk[b].seq \in Nat
        /\ dev[p].seqno \in Nat
    BY OnDiskFacts, InvFacts, DeviceFacts
  <1>7. \A b \in Signed(p) : disk[b].seq < dev[p].seqno
    BY <1>3 DEF Careful
  <1>8. \A b \in Signed(p)' : disk'[b].seq \in Nat
    BY <1>1, <1>2, <1>5, <1>6
  <1>9. \A b \in Signed(p)' \ {c} : disk'[b].seq < disk'[c].seq
    BY <1>1, <1>2, <1>5, <1>6, <1>7
  <1>10. Newest(p)' = H
    <2>1. Signed(p)' \in SUBSET Block /\ c \in Signed(p)'
      BY <1>1, <1>5, <1>6
    <2>2. NewestIn(disk', Signed(p)') = disk'[c]
      BY <1>8, <1>9, <2>1, NewestUnique
    <2>3. Newest(p)' = NewestIn(disk', Signed(p)')
      BY DEF Newest, NewestOf, NewestIn, TopOf
    <2> QED BY <1>1, <2>2, <2>3
  <1>11. OnDisk(p)' = dev[p].used
    <2>1. Signed(p) \subseteq Owned(p)
      BY <1>3 DEF Careful, OnDisk
    <2> QED BY <1>2, <1>4, <1>5, <1>10, <2>1 DEF OnDisk
  <1>12. \A b \in Signed(p)' : disk'[b].seq <= dev[p].seqno
    BY <1>1, <1>2, <1>5, <1>6, <1>7
  <1>13. ASSUME NEW q \in Part \ {p}
         PROVE  /\ Signed(q)' = Signed(q) /\ OnDisk(q)' = OnDisk(q)
                /\ Newest(q)' = Newest(q) /\ \A b \in Signed(q) : disk'[b] = disk[b]
    <2>1. c \notin OnDisk(q)
      <3>1. owner[c] = p /\ p # q /\ p # Null
        BY <1>4, Constants DEF Owned
      <3> QED BY <1>3, <3>1 DEF Careful
    <2>2. c \notin Signed(q)
      BY <2>1 DEF OnDisk
    <2>3. Signed(q)' = Signed(q)
      BY <1>1, <1>2, <2>2 DEF Signed
    <2>4. Signed(q) \in SUBSET Block /\ \A b \in Signed(q) : disk[b].seq \in Nat
      BY OnDiskFacts
    <2>5. \A b \in Signed(q) : disk'[b] = disk[b]
      BY <1>1, <2>2, <2>4
    <2>6. NewestIn(disk, Signed(q)) = NewestIn(disk', Signed(q))
      BY <2>4, <2>5, NewestSame
    <2>7. /\ Newest(q) = NewestIn(disk, Signed(q))
          /\ Newest(q)' = NewestIn(disk', Signed(q)')
      BY DEF Newest, NewestOf, NewestIn, TopOf
    <2>8. Newest(q)' = Newest(q)
      BY <2>3, <2>6, <2>7
    <2> QED BY <2>3, <2>5, <2>8 DEF OnDisk
  <1> QED BY <1>5, <1>10, <1>11, <1>12, <1>13 DEF c, H


(* So the newest header of p lists its blocks, and nobody else claims one. *)
LEMMA WrittenOwn ==
  ASSUME PartInv, ~ careless, NEW p \in Part, dev[p].pc = "open",
         dev[p].cur # Null, WriteHeader(p), owner' = owner
  PROVE  /\ Signed(p)' \subseteq Newest(p)'.used
         /\ \A b \in OnDisk(p)' : owner'[b] \in {p, Null}
         /\ \A q \in Part : q # p => OnDisk(p)' \cap OnDisk(q)' = {}
         /\ OnDisk(p)' \subseteq Owned(p)'
  <1>1. /\ Newest(p)'.used = dev[p].used
        /\ Signed(p)' = Signed(p) \cup {dev[p].cur} /\ OnDisk(p)' = dev[p].used
        /\ \A q \in Part \ {p} : OnDisk(q)' = OnDisk(q)
    BY Written
  <1>2. DevOK(p) /\ \A q \in Part : Careful(q)
    BY InvFacts
  <1>3. dev[p].cur \in dev[p].used /\ Owned(p) = dev[p].used
    BY <1>2 DEF DevOK
  <1>4. Signed(p) \subseteq dev[p].used
    BY <1>2, <1>3 DEF Careful, OnDisk
  <1>5. \A b \in dev[p].used : owner[b] = p
    BY <1>3 DEF Owned
  <1>6. \A q \in Part : q # p => dev[p].used \cap OnDisk(q) = {}
    BY <1>2, <1>5, Constants DEF Careful
  <1>7. Owned(p)' = Owned(p)
    BY DEF Owned
  <1> QED BY <1>1, <1>3, <1>4, <1>5, <1>6, <1>7

LEMMA WrittenOther ==
  ASSUME PartInv, ~ careless, NEW p \in Part, dev[p].pc = "open",
         dev[p].cur # Null, WriteHeader(p), owner' = owner,
         NEW q \in Part, q # p, dev'[q] = dev[q]
  PROVE  Careful(q)'
  <1>1. /\ \A r \in Part \ {p} : Signed(r)' = Signed(r) /\ OnDisk(r)' = OnDisk(r)
                                 /\ Newest(r)' = Newest(r)
        /\ \A b \in Signed(q) : disk'[b] = disk[b]
    BY Written
  <1>2. OnDisk(p)' \cap OnDisk(q)' = {}
    BY WrittenOwn
  <1>3. Careful(q) /\ Owned(q)' = Owned(q)
    BY InvFacts DEF Owned
  <1>4. \A r \in Part : r # q => OnDisk(q)' \cap OnDisk(r)' = {}
    BY <1>1, <1>2, <1>3 DEF Careful
  <1> QED BY <1>1, <1>3, <1>4 DEF Careful

(* A write request. *)
LEMMA UpdateInv ==
  ASSUME PartInv, NEW p \in Part, Update(p)
  PROVE  PartInv'
  <1> DEFINE D == [dev[p] EXCEPT !.updated = TRUE]
  <1>1. dev[p] \in Device /\ dev \in [Part -> Device]
    BY InvFacts, DeviceFacts
  <1>2. /\ D \in Device /\ D.updated = TRUE /\ D.pc = dev[p].pc /\ D.cur = dev[p].cur
        /\ D.used = dev[p].used /\ D.jug = dev[p].jug /\ D.nmac = dev[p].nmac
        /\ D.res = dev[p].res /\ D.size = dev[p].size /\ D.indices = dev[p].indices
        /\ D.seqno = dev[p].seqno
    BY <1>1 DEF Device
  <1>3. dev' = [dev EXCEPT ![p] = D]
    BY DEF Update
  <1> HIDE DEF D
  <1>4. /\ dev' \in [Part -> Device] /\ dev'[p] = D
        /\ \A q \in Part \ {p} : dev'[q] = dev[q]
    BY <1>1, <1>2, <1>3, DevUpdate
  <1>5. /\ heap' = heap /\ owner' = owner /\ disk' = disk /\ ctl' = ctl
        /\ careless' = careless /\ died' = "no"
        /\ dev[p].pc = "open" /\ dev[p].cur # Null
    BY DEF Update
  <1>6. \A q \in Part : Owned(q)' = Owned(q) /\ Listed(q)' = Listed(q)
    BY <1>5 DEF Owned, Listed
  <1>7. ASSUME NEW q \in Part PROVE DevOK(q)'
    <2>1. DevOK(q)
      BY InvFacts
    <2>2. CASE q # p
      BY <1>4, <1>6, <2>1, <2>2, DevFrame
    <2>3. CASE q = p
      BY <1>2, <1>4, <1>5, <1>6, <2>1, <2>3 DEF DevOK
    <2> QED BY <2>2, <2>3
  <1>8. ASSUME ~ careless', NEW q \in Part PROVE Careful(q)'
    <2>1. Careful(q)
      BY <1>5, <1>8, InvFacts
    <2>2. \A b \in OnDisk(q) : owner'[b] \in {q, Null}
      BY <1>5, <2>1 DEF Careful
    <2>3. CASE q # p
      BY <1>4, <1>5, <1>6, <2>1, <2>2, <2>3, CarefulFrame
    <2>4. CASE q = p
      <3>1. \A r \in Part : /\ Signed(r)' = Signed(r) /\ Newest(r)' = Newest(r)
                            /\ OnDisk(r)' = OnDisk(r)
        BY <1>5, DiskSame
      <3> QED BY <1>2, <1>4, <1>5, <1>6, <2>1, <2>4, <3>1 DEF Careful
    <2> QED BY <2>3, <2>4
  <1>9. PartitionsTypeOK'
    BY <1>4, <1>5, InvFacts DEF PartitionsTypeOK, Device
  <1>10. Sound(heap)' /\ HeadersOK' /\ OpenNeverDies'
    BY <1>5, InvFacts, DiskSame DEF OpenNeverDies
  <1>11. OwnersOK'
    <2>1. \A q \in Part : dev'[q].pc = dev[q].pc
      BY <1>2, <1>4
    <2> QED BY <1>5, <2>1, InvFacts DEF OwnersOK, Listed
  <1> QED BY <1>7, <1>8, <1>9, <1>10, <1>11 DEF PartInv

(* A macroblock is written and the next one selected. *)
LEMMA WriteAndSelectInv ==
  ASSUME PartInv, ~ careless, NEW p \in Part, NEW b \in dev[p].jug,
         WriteAndSelect(p, b)
  PROVE  PartInv'
  <1>0. PICK D : D = Selected(dev[p], b)
    OBVIOUS
  <1>1. dev[p] \in Device /\ dev \in [Part -> Device] /\ DevOK(p)
    BY InvFacts, DeviceFacts
  <1>2. /\ heap' = heap /\ owner' = owner /\ ctl' = ctl
        /\ careless' = careless /\ died' = "no" /\ WriteHeader(p)
        /\ dev[p].pc = "open" /\ dev[p].cur # Null
    BY DEF WriteAndSelect
  <1>3. b \in dev[p].used /\ b \in Block /\ b # Null
    <2>1. b \in dev[p].used
      BY <1>1, <1>2 DEF DevOK
    <2> QED BY <2>1, InvFacts, DeviceFacts, Constants
  <1>4. /\ D \in Device /\ ~ D.updated /\ D.pc = dev[p].pc /\ D.cur = b
        /\ D.used = dev[p].used /\ D.jug = dev[p].jug /\ D.nmac = dev[p].nmac
        /\ D.res = dev[p].res /\ D.size = dev[p].size /\ D.indices = dev[p].indices
        /\ D.seqno = dev[p].seqno + 1
    <2>1. IsSelected(D, dev[p], b)
      BY <1>0, <1>1, <1>3, SelectedFacts
    <2> QED BY <2>1 DEF IsSelected
  <1>5. dev' = [dev EXCEPT ![p] = D]
    BY <1>0 DEF WriteAndSelect
  <1>6. /\ dev' \in [Part -> Device] /\ dev'[p] = D
        /\ \A q \in Part \ {p} : dev'[q] = dev[q]
    BY <1>1, <1>4, <1>5, DevUpdate
  <1>7. \A q \in Part : Owned(q)' = Owned(q) /\ Listed(q)' = Listed(q)
    BY <1>2 DEF Owned, Listed
  <1>8. ASSUME NEW q \in Part PROVE DevOK(q)'
    <2>1. DevOK(q)
      BY InvFacts
    <2>2. CASE q # p
      BY <1>6, <1>7, <2>1, <2>2, DevFrame
    <2>3. CASE q = p
      BY <1>2, <1>3, <1>4, <1>6, <1>7, <2>1, <2>3 DEF DevOK
    <2> QED BY <2>2, <2>3
  <1>9. /\ Newest(p)' = [part |-> p, seq |-> dev[p].seqno, used |-> dev[p].used,
                         nmac |-> dev[p].nmac, res |-> dev[p].res]
        /\ Signed(p)' = Signed(p) \cup {dev[p].cur}
        /\ OnDisk(p)' = dev[p].used
        /\ \A x \in Signed(p)' : disk'[x].seq <= dev[p].seqno
        /\ \A q \in Part \ {p} : /\ Signed(q)' = Signed(q) /\ OnDisk(q)' = OnDisk(q)
                                 /\ Newest(q)' = Newest(q)
                                 /\ \A x \in Signed(q) : disk'[x] = disk[x]
    BY <1>2, Written
  <1>10. ASSUME NEW q \in Part PROVE Careful(q)'
    <2>1. CASE q # p
      BY <1>1, <1>2, <1>6, <1>7, <1>9, <2>1, WrittenOther
    <2>2. CASE q = p
      <3>1. /\ Newest(p)'.used = dev[p].used /\ Newest(p)'.nmac = dev[p].nmac
            /\ Newest(p)'.res = dev[p].res
        BY <1>9
      <3>2. \A x \in Signed(p)' : /\ disk'[x].seq < dev'[p].seqno
                                  /\ disk'[x].seq <= dev'[p].seqno
        <4>1. \A x \in Signed(p)' : disk'[x].seq \in Nat
          <5>1. disk' \in [Block -> Header \cup {NoHeader}]
            BY <1>2, HeaderWritten
          <5> QED BY <5>1 DEF Signed, Header, NoHeader
        <4>2. dev[p].seqno \in Nat
          BY InvFacts, DeviceFacts
        <4> QED BY <1>4, <1>6, <1>9, <4>1, <4>2
      <3>3. /\ Signed(p)' \subseteq Newest(p)'.used
            /\ \A x \in OnDisk(p)' : owner'[x] \in {p, Null}
            /\ \A r \in Part : r # p => OnDisk(p)' \cap OnDisk(r)' = {}
            /\ OnDisk(p)' \subseteq Owned(p)'
        BY <1>2, WrittenOwn
      <3>4. /\ dev'[p].pc = "open" /\ dev'[p].nmac = dev[p].nmac
            /\ dev'[p].res = dev[p].res
        BY <1>2, <1>4, <1>6
      <3>5. Careful(p)'
        BY <3>1, <3>2, <3>3, <3>4 DEF Careful
      <3> QED BY <2>2, <3>5
    <2> QED BY <2>1, <2>2
  <1>11. disk' \in [Block -> Header \cup {NoHeader}] /\ HeadersOK'
    BY <1>2, HeaderWritten
  <1>12. PartitionsTypeOK'
    BY <1>2, <1>6, <1>11, InvFacts DEF PartitionsTypeOK, Device
  <1>13. Sound(heap)' /\ OpenNeverDies'
    BY <1>2, InvFacts DEF OpenNeverDies
  <1>14. OwnersOK'
    <2>1. \A q \in Part : dev'[q].pc = dev[q].pc
      BY <1>4, <1>6
    <2> QED BY <1>2, <2>1, InvFacts DEF OwnersOK, Listed
  <1> QED BY <1>8, <1>10, <1>11, <1>12, <1>13, <1>14 DEF PartInv


(* blockio_dev_free, up to the mutex. *)
LEMMA CloseInv ==
  ASSUME PartInv, NEW p \in Part, Close(p)
  PROVE  PartInv'
  <1> DEFINE D == [dev[p] EXCEPT !.pc = "freeing"]
  <1>1. dev[p] \in Device /\ dev \in [Part -> Device] /\ DevOK(p)
    BY InvFacts, DeviceFacts
  <1>2. /\ D \in Device /\ D.pc = "freeing"
        /\ D.used = dev[p].used /\ D.jug = dev[p].jug /\ D.nmac = dev[p].nmac
        /\ D.res = dev[p].res /\ D.size = dev[p].size /\ D.indices = dev[p].indices
    BY <1>1 DEF Device
  <1>3. dev' = [dev EXCEPT ![p] = D]
    BY DEF Close
  <1> HIDE DEF D
  <1>4. /\ dev' \in [Part -> Device] /\ dev'[p] = D
        /\ \A q \in Part \ {p} : dev'[q] = dev[q]
    BY <1>1, <1>2, <1>3, DevUpdate
  <1>5. /\ heap' = heap /\ owner' = owner /\ ctl' = ctl
        /\ careless' = careless /\ died' = "no" /\ dev[p].pc = "open"
    BY DEF Close
  <1>6. \/ disk' = disk
        \/ dev[p].cur # Null /\ WriteHeader(p)
    BY <1>1, <1>5 DEF Close, DevOK
  <1>7. \A q \in Part : Owned(q)' = Owned(q) /\ Listed(q)' = Listed(q)
    BY <1>5 DEF Owned, Listed
  <1>8. ASSUME NEW q \in Part PROVE DevOK(q)'
    <2>1. DevOK(q)
      BY InvFacts
    <2>2. CASE q # p
      BY <1>4, <1>7, <2>1, <2>2, DevFrame
    <2>3. CASE q = p
      BY <1>2, <1>4, <1>5, <1>7, <2>1, <2>3 DEF DevOK
    <2> QED BY <2>2, <2>3
  <1>9. ASSUME ~ careless', NEW q \in Part PROVE Careful(q)'
    <2>1. Careful(q) /\ Careful(p) /\ ~ careless
      BY <1>5, <1>9, InvFacts
    <2>2. CASE disk' = disk
      <3>1. CASE q # p
        <4>1. \A b \in OnDisk(q) : owner'[b] \in {q, Null}
          BY <1>5, <2>1 DEF Careful
        <4> QED BY <1>4, <1>7, <2>1, <2>2, <3>1, <4>1, CarefulFrame
      <3>2. CASE q = p
        <4>1. \A r \in Part : /\ Signed(r)' = Signed(r) /\ Newest(r)' = Newest(r)
                              /\ OnDisk(r)' = OnDisk(r)
          BY <2>2, DiskSame
        <4> QED BY <1>2, <1>4, <1>5, <1>7, <2>1, <3>2, <4>1 DEF Careful
      <3> QED BY <3>1, <3>2
    <2>3. CASE dev[p].cur # Null /\ WriteHeader(p)
      <3>1. CASE q # p
        BY <1>4, <1>5, <2>1, <2>3, <3>1, WrittenOther
      <3>2. CASE q = p
        <4>1. /\ Signed(p)' \subseteq Newest(p)'.used
              /\ \A x \in OnDisk(p)' : owner'[x] \in {p, Null}
              /\ \A r \in Part : r # p => OnDisk(p)' \cap OnDisk(r)' = {}
              /\ OnDisk(p)' \subseteq Owned(p)'
          BY <1>5, <2>1, <2>3, WrittenOwn
        <4>2. dev'[p].pc = "freeing"
          BY <1>2, <1>4
        <4>3. Careful(p)'
          BY <4>1, <4>2 DEF Careful
        <4> QED BY <3>2, <4>3
      <3> QED BY <3>1, <3>2
    <2> QED BY <1>6, <2>2, <2>3
  <1>10. disk' \in [Block -> Header \cup {NoHeader}] /\ HeadersOK'
    BY <1>5, <1>6, HeaderWritten, DiskSame, InvFacts
  <1>11. PartitionsTypeOK'
    BY <1>4, <1>5, <1>10, InvFacts DEF PartitionsTypeOK, Device
  <1>12. Sound(heap)' /\ OpenNeverDies'
    BY <1>5, InvFacts DEF OpenNeverDies
  <1>13. OwnersOK'
    <2>1. \A q \in Part : dev'[q].pc = "scanned" <=> dev[q].pc = "scanned"
      BY <1>2, <1>4, <1>5
    <2> QED BY <1>5, <2>1, InvFacts DEF OwnersOK, Listed
  <1> QED BY <1>8, <1>9, <1>10, <1>11, <1>12, <1>13 DEF PartInv

(* The blocks of p go back to the unallocated ones. *)
LEMMA GiveBackInv ==
  ASSUME PartInv, NEW p \in Part, GiveBack(p)
  PROVE  PartInv'
  <1>1. dev[p] \in Device /\ dev \in [Part -> Device] /\ DevOK(p) /\ Sound(heap)
    BY InvFacts, DeviceFacts
  <1>2. PICK given : given = Transfer(heap, Infos, dev[p].jug, Null, Unallocated, AtEnd)
    OBVIOUS
  <1>3. PICK s : s = Reverse(Iterated(given, p))
    OBVIOUS
  <1>4. PICK back : back = Transfer(given, s, Block, p, Unallocated, AtEnd)
    OBVIOUS
  <1>5. /\ dev[p].pc = "freeing" /\ heap' = dllarr_free(back, p)
        /\ owner' = [b \in Block |-> IF owner[b] = p THEN Null ELSE owner[b]]
        /\ dev' = [dev EXCEPT ![p] = Gone]
        /\ died' = "no" /\ disk' = disk /\ ctl' = ctl /\ careless' = careless
    BY <1>2, <1>3, <1>4 DEF GiveBack
  <1>6. /\ Owned(p) = dev[p].jug \cup Listed(p) /\ dev[p].jug \cap Listed(p) = {}
        /\ dev[p].jug \in SUBSET Block
    BY <1>1, <1>5, InvFacts, DeviceFacts DEF DevOK
  <1>7. Null \notin Part /\ Null \notin Lists /\ Unallocated \in Lists
        /\ Part \subseteq Lists /\ Unallocated \notin Part /\ p \in Lists
        /\ p # Null /\ p # Unallocated /\ Null # Unallocated
        /\ Lists = Part \cup {Unallocated}
    BY Constants DEF Lists
  <1>8. \A b \in Block : owner[b] = Null <=> b \in Listed(Unallocated)
    BY InvFacts DEF OwnersOK
  <1>9. dev[p].jug \subseteq Unlisted(heap)
    <2> SUFFICES ASSUME NEW b \in dev[p].jug, NEW l \in Lists, b \in Listed(l)
                 PROVE  FALSE
      BY <1>6 DEF Unlisted, Listed
    <2>1. b \in Block /\ owner[b] = p
      BY <1>6 DEF Owned
    <2>2. l # Unallocated
      BY <1>7, <1>8, <2>1
    <2>3. l \in Part
      BY <1>7, <2>2
    <2>4. owner[b] = l
      BY <2>3, ListedOwned DEF Owned
    <2> QED BY <1>6, <2>1, <2>4
  <1>10. Sound(given) /\ Shifted(given, heap, Null, Unallocated, dev[p].jug)
    BY <1>1, <1>2, <1>6, <1>7, <1>9, InfosTransfer
  <1>11. /\ Members(given, Unallocated) = Listed(Unallocated) \cup dev[p].jug
         /\ \A q \in Part : Members(given, q) = Listed(q)
    BY <1>7, <1>10 DEF Shifted, Listed
  <1>12. /\ s \in Seq(Block) /\ ToSet(s) = Listed(p)
         /\ \A i, j \in 1..Len(s) : s[i] = s[j] => i = j
    BY <1>3, <1>7, <1>10, <1>11, Reversed
  <1>13. ToSet(s) \cap Block = Listed(p) /\ Listed(p) = Members(given, p)
    BY <1>6, <1>11, <1>12 DEF Owned
  <1>14. Sound(back) /\ Shifted(back, given, p, Unallocated, Listed(p))
    BY SMTT(30), <1>4, <1>7, <1>10, <1>12, <1>13, TransferSound
  <1>15. /\ Members(back, Unallocated) = Members(given, Unallocated) \cup Listed(p)
         /\ \A q \in Part \ {p} : Members(back, q) = Members(given, q)
    BY <1>7, <1>14 DEF Shifted
  <1>16. /\ Sound(heap') /\ Members(heap', p) = {}
         /\ \A l \in Lists \ {p} : Members(heap', l) = Members(back, l)
    BY <1>5, <1>7, <1>14, FreeSound
  <1>17. /\ Listed(Unallocated)' = Listed(Unallocated) \cup Owned(p)
         /\ Listed(p)' = {}
         /\ \A q \in Part \ {p} : Listed(q)' = Listed(q)
    BY <1>6, <1>7, <1>11, <1>15, <1>16 DEF Listed
  <1>18. owner \in [Block -> Part \cup {Null}]
    BY InvFacts
  <1>19. /\ owner' \in [Block -> Part \cup {Null}] /\ Owned(p)' = {}
         /\ \A q \in Part \ {p} : Owned(q)' = Owned(q)
         /\ \A b \in Block : owner'[b] = Null <=> b \in Listed(Unallocated)'
    BY <1>5, <1>7, <1>8, <1>17, <1>18 DEF Owned
  <1>20. /\ dev' \in [Part -> Device] /\ dev'[p] = Gone
         /\ \A q \in Part \ {p} : dev'[q] = dev[q]
    BY <1>1, <1>5, GoneType, DevUpdate
  <1>21. ASSUME NEW q \in Part PROVE DevOK(q)'
    <2>1. CASE q # p
      BY <1>17, <1>19, <1>20, <2>1, InvFacts, DevFrame
    <2>2. CASE q = p
      BY <1>17, <1>19, <1>20, <2>2, GoneOK
    <2> QED BY <2>1, <2>2
  <1>22. ASSUME ~ careless', NEW q \in Part PROVE Careful(q)'
    <2>1. Careful(q) /\ OnDisk(q) \in SUBSET Block
      BY <1>5, <1>22, InvFacts, OnDiskFacts
    <2>2. \A b \in OnDisk(q) : owner'[b] \in {q, Null}
      BY <1>5, <2>1 DEF Careful
    <2>3. CASE q # p
      BY <1>5, <1>19, <1>20, <2>1, <2>2, <2>3, CarefulFrame
    <2>4. CASE q = p
      <3>1. \A r \in Part : /\ Signed(r)' = Signed(r) /\ Newest(r)' = Newest(r)
                            /\ OnDisk(r)' = OnDisk(r)
        BY <1>5, DiskSame
      <3>2. dev'[q].pc = "closed"
        BY <1>20, <2>4 DEF Gone
      <3> QED BY <2>1, <2>2, <3>1, <3>2 DEF Careful
    <2> QED BY <2>3, <2>4
  <1>23. heap' \in Heap
    BY <1>16 DEF Sound
  <1>24. PartitionsTypeOK'
    BY <1>5, <1>19, <1>20, <1>23, InvFacts DEF PartitionsTypeOK, Device
  <1>25. HeadersOK' /\ OpenNeverDies'
    BY <1>5, InvFacts, DiskSame DEF OpenNeverDies
  <1>26. OwnersOK'
    <2>1. \A q \in Part : dev'[q].pc = "scanned" <=> dev[q].pc = "scanned"
      BY <1>5, <1>20 DEF Gone
    <2> QED BY <1>5, <1>19, <2>1, InvFacts DEF OwnersOK
  <1> QED BY <1>16, <1>21, <1>22, <1>24, <1>25, <1>26 DEF PartInv


(* The first half of an open. *)
LEMMA ScanInv ==
  ASSUME PartInv, NEW p \in Part, NEW add \in BOOLEAN, Scan(p, add)
  PROVE  PartInv'
  <1>1. PICK mine : mine = {b \in Block : owner[b] = Null /\ disk[b].part = p}
    OBVIOUS
  <1>2. PICK last : last = NewestOf(mine)
    OBVIOUS
  <1>3. PICK h : h = Transfer(heap, Infos, mine, Unallocated, p, sort_to_replay)
    OBVIOUS
  <1>4. PICK found \in BOOLEAN : found <=> dllarr_count(h, p) > 0
    OBVIOUS
  <1>5. PICK D : D = [Gone EXCEPT !.pc = IF found THEN "scanned" ELSE "open",
                                  !.add = add, !.seqno = last.seq,
                                  !.used = last.used, !.nmac = last.nmac,
                                  !.res = last.res]
    OBVIOUS
  <1>6. /\ ctl = Null /\ dev[p].pc = "closed" /\ heap' = h
        /\ owner' = [b \in Block |-> IF b \in mine THEN p ELSE owner[b]]
        /\ dev' = [dev EXCEPT ![p] = D]
        /\ ctl' = (IF found THEN p ELSE Null)
        /\ died' = "no" /\ disk' = disk /\ careless' = careless
    BY <1>1, <1>2, <1>3, <1>4, <1>5 DEF Scan, ControlIdle
  <1>7. /\ Null \notin Part /\ Null \notin Lists /\ Unallocated \in Lists
        /\ Part \subseteq Lists /\ Unallocated \notin Part /\ p \in Lists
        /\ p # Null /\ p # Unallocated /\ Null # Unallocated
        /\ Lists = Part \cup {Unallocated}
    BY Constants DEF Lists
  <1>8. \A b \in Block : owner[b] = Null <=> b \in Listed(Unallocated)
    BY InvFacts DEF OwnersOK
  <1>9. Owned(p) = {} /\ Listed(p) = {} /\ Sound(heap)
    BY <1>6, InvFacts DEF DevOK
  <1>10. mine \in SUBSET Block /\ mine \subseteq Listed(Unallocated)
    BY <1>1, <1>8
  <1>11. Sound(h) /\ Shifted(h, heap, Unallocated, p, mine)
    BY <1>3, <1>7, <1>9, <1>10, InfosTransfer DEF Listed
  <1>12. /\ Listed(Unallocated)' = Listed(Unallocated) \ mine
         /\ Listed(p)' = mine
         /\ \A q \in Part \ {p} : Listed(q)' = Listed(q)
    BY <1>6, <1>7, <1>9, <1>11 DEF Shifted, Listed
  <1>13. found <=> mine # {}
    <2>1. dllarr_count(h, p) = Cardinality(mine)
      BY <1>6, <1>7, <1>11, <1>12, CountFacts DEF Listed
    <2>2. Cardinality(mine) \in Nat /\ (Cardinality(mine) = 0 <=> mine = {})
      BY <1>10, BlockSets
    <2> QED BY <1>4, <2>1, <2>2
  <1>14. owner \in [Block -> Part \cup {Null}]
    BY InvFacts
  <1>15. /\ owner' \in [Block -> Part \cup {Null}] /\ Owned(p)' = mine
         /\ \A q \in Part \ {p} : Owned(q)' = Owned(q)
         /\ \A b \in Block : owner'[b] = Null <=> b \in Listed(Unallocated)'
    <2>1. owner' \in [Block -> Part \cup {Null}]
      BY <1>6, <1>14
    <2>2. Owned(p)' = mine
      BY <1>6, <1>9, <1>10 DEF Owned
    <2>3. \A q \in Part \ {p} : Owned(q)' = Owned(q)
      BY <1>1, <1>6, <1>7 DEF Owned
    <2>4. \A b \in Block : owner'[b] = Null <=> b \in Listed(Unallocated)'
      BY <1>6, <1>7, <1>8, <1>12
    <2> QED BY <2>1, <2>2, <2>3, <2>4
  <1>16. /\ last.used \in SUBSET Block /\ last.nmac \in Nat
         /\ last.nmac = Cardinality(last.used)
         /\ last.res \in 0..(Word - 1) /\ last.seq \in Nat
         /\ mine = {} => last = NoHeader
    <2>1. \A b \in mine : disk[b].part # Null
      BY <1>1, <1>7
    <2> QED BY <1>2, <1>10, <2>1, InvFacts, NewestType
  <1>17. D = [pc |-> IF found THEN "scanned" ELSE "open", add |-> add,
              used |-> last.used, nmac |-> last.nmac, res |-> last.res,
              seqno |-> last.seq, jug |-> {}, cur |-> Null, updated |-> FALSE,
              size |-> 0, indices |-> 0]
    BY <1>5 DEF Gone
  <1>18. /\ D \in Device /\ D.pc = IF found THEN "scanned" ELSE "open"
    BY <1>16, <1>17, Numbers DEF Device
  <1>19. /\ D.used = last.used /\ D.nmac = last.nmac /\ D.res = last.res
         /\ D.seqno = last.seq /\ D.jug = {} /\ D.cur = Null /\ ~ D.updated
         /\ D.size = 0 /\ D.indices = 0
    BY <1>17
  <1>20. /\ dev' \in [Part -> Device] /\ dev'[p] = D
         /\ \A q \in Part \ {p} : dev'[q] = dev[q]
    BY <1>6, <1>18, InvFacts, DevUpdate
  <1>21. ~ found => /\ mine = {} /\ last.used = {} /\ last.nmac = 0 /\ last.res = 0
                    /\ last.seq = 0
    BY <1>13, <1>16 DEF NoHeader
  <1>22. ASSUME NEW q \in Part PROVE DevOK(q)'
    <2>1. CASE q # p
      BY <1>12, <1>15, <1>20, <2>1, InvFacts, DevFrame
    <2>2. CASE q = p
      <3>1. D.size <= D.indices * MesoSize
        <4>1. 0 * MesoSize = 0
          BY Numbers, Products
        <4> QED BY <1>19, <4>1
      <3>2. CASE found
        BY <1>12, <1>15, <1>16, <1>18, <1>19, <1>20, <2>2, <3>1, <3>2 DEF DevOK
      <3>3. CASE ~ found
        <4>1. EntrySize(0, 0) = 0
          BY DEF EntrySize
        <4> QED BY <1>12, <1>15, <1>16, <1>18, <1>19, <1>20, <1>21, <2>2, <3>1,
                   <3>3, <4>1 DEF DevOK
      <3> QED BY <2>2, <3>2, <3>3
    <2> QED BY <2>1, <2>2
  <1>23. ASSUME ~ careless', NEW q \in Part PROVE Careful(q)'
    <2>1. /\ Careful(q) /\ Careful(p) /\ OnDisk(q) \in SUBSET Block
          /\ Signed(p) \in SUBSET Block
      BY <1>6, <1>23, InvFacts, OnDiskFacts
    <2>2. mine = Signed(p)
      <3>1. \A b \in Signed(p) : owner[b] = Null
        <4>1. \A b \in Signed(p) : owner[b] \in {p, Null} /\ owner[b] # p
          BY <1>9, <2>1 DEF Careful, OnDisk, Owned
        <4> QED BY <4>1
      <3> QED BY <1>1, <2>1, <3>1 DEF Signed
    <2>3. last = Newest(p)
      BY <1>2, <2>2 DEF Newest
    <2>4. \A b \in OnDisk(q) : owner'[b] \in {q, Null}
      <3>1. q # p => OnDisk(q) \cap mine = {}
        BY <2>1, <2>2 DEF Careful, OnDisk
      <3> QED BY <1>6, <2>1, <3>1 DEF Careful
    <2>5. CASE q # p
      BY <1>6, <1>15, <1>20, <2>1, <2>4, <2>5, CarefulFrame
    <2>6. CASE q = p
      <3>1. \A r \in Part : /\ Signed(r)' = Signed(r) /\ Newest(r)' = Newest(r)
                            /\ OnDisk(r)' = OnDisk(r)
        BY <1>6, DiskSame
      <3>2. CASE found
        <4>1. dev'[p].pc = "scanned" /\ dev'[p] = D
          BY <1>18, <1>20, <3>2
        <4>2. Careful(p)'
          BY <1>15, <1>19, <2>1, <2>2, <2>3, <2>4, <2>6, <3>1, <4>1 DEF Careful
        <4> QED BY <2>6, <4>2
      <3>3. CASE ~ found
        <4>1. dev'[p].pc = "open" /\ dev'[p] = D
          BY <1>18, <1>20, <3>3
        <4>2. Signed(p) = {} /\ Newest(p).used = {}
          BY <1>21, <2>2, <2>3, <3>3
        <4>3. OnDisk(p) = {}
          BY <4>2 DEF OnDisk
        <4>4. Careful(p)'
          BY <1>19, <2>1, <2>3, <2>4, <2>6, <3>1, <4>1, <4>2, <4>3 DEF Careful
        <4> QED BY <2>6, <4>4
      <3> QED BY <3>2, <3>3
    <2> QED BY <2>5, <2>6
  <1>24. heap' \in Heap /\ Sound(heap)'
    BY <1>6, <1>11 DEF Sound
  <1>25. PartitionsTypeOK'
    BY <1>6, <1>15, <1>20, <1>24, InvFacts DEF PartitionsTypeOK, Device
  <1>26. HeadersOK' /\ OpenNeverDies'
    BY <1>6, InvFacts, DiskSame DEF OpenNeverDies
  <1>27. OwnersOK'
    <2>1. \A q \in Part : dev[q].pc # "scanned"
      BY <1>6, <1>7, InvFacts DEF OwnersOK
    <2>2. \A q \in Part : ctl' = q <=> dev'[q].pc = "scanned"
      BY <1>6, <1>7, <1>18, <1>20, <2>1
    <2> QED BY <1>15, <2>2 DEF OwnersOK
  <1> QED BY <1>22, <1>23, <1>24, <1>25, <1>26, <1>27 DEF PartInv


(* The device D and the heap g that a claim makes of the device d and the  *)
(* heap h: a create that found a device is freed, an open has taken the    *)
(* replayed blocks out of their list and may have selected a block.        *)
ClaimDone(p, D, missing, d, g, h) ==
  /\ D.nmac = d.nmac /\ D.res = d.res /\ D.used = d.used
  /\ D.size <= D.indices * MesoSize
  /\ Sound(g) /\ \A l \in Lists \ {p} : Members(g, l) = Members(h, l)
  /\ \/ D.pc = "freeing" /\ D.jug = missing /\ Members(g, p) = Members(h, p)
     \/ /\ D.pc = "open" /\ D.jug = d.used /\ Members(g, p) = {}
        /\ D.size = EntrySize(d.nmac, d.res) /\ ~ D.updated
        /\ \/ D.cur = Null /\ D.seqno = d.seqno
           \/ D.cur \in d.used /\ D.seqno = d.seqno + 1

(* The device after an open, and the last part of Claim, as they are       *)
(* written there.                                                          *)
Opened(p, d, missing, h) ==
  [d EXCEPT !.pc = "open", !.jug = missing \cup ToSet(Iterated(h, p)),
            !.size = EntrySize(d.nmac, d.res),
            !.indices = NoBlockIndices(d.nmac, d.res)]

ClaimEffect(p, d, opened, missing, h, g, e, f) ==
  IF d.add
  THEN /\ g = h
       /\ f = [e EXCEPT ![p] = [d EXCEPT !.pc = "freeing", !.jug = missing]]
  ELSE /\ g = Emptied(h, p)
       /\ IF opened.size = 0
          THEN f = [e EXCEPT ![p] = opened]
          ELSE \E b \in opened.jug : f = [e EXCEPT ![p] = Selected(opened, b)]

Claimed(p, missing, d, g, h, e, f) ==
  \E D \in Device : f = [e EXCEPT ![p] = D] /\ ClaimDone(p, D, missing, d, g, h)

LEMMA ClaimedDevice ==
  ASSUME NEW p \in Part, NEW d \in Device, d.size <= d.indices * MesoSize,
         d.cur = Null, ~ d.updated,
         NEW h, Sound(h), NEW missing \in SUBSET Block, NEW g, NEW f, NEW e,
         missing \cup ToSet(Iterated(h, p)) = d.used,
         NEW opened, opened = Opened(p, d, missing, h),
         ClaimEffect(p, d, opened, missing, h, g, e, f)
  PROVE  Claimed(p, missing, d, g, h, e, f)
  <1>0. p \in Lists
    BY Constants
  <1>1. CASE d.add
    <2>1. PICK D : D = [d EXCEPT !.pc = "freeing", !.jug = missing]
      OBVIOUS
    <2>2. D \in Device
      BY <2>1 DEF Device
    <2>3. /\ D.pc = "freeing" /\ D.jug = missing /\ D.nmac = d.nmac /\ D.res = d.res
          /\ D.used = d.used /\ D.size = d.size /\ D.indices = d.indices
      BY <2>1 DEF Device
    <2>4. ClaimDone(p, D, missing, d, g, h)
      BY <1>1, <2>3 DEF ClaimDone, ClaimEffect
    <2>5. f = [e EXCEPT ![p] = D]
      BY <1>1, <2>1 DEF ClaimEffect
    <2> QED BY <2>2, <2>4, <2>5 DEF Claimed
  <1>2. CASE ~ d.add
    <2>1. /\ Sound(g) /\ Members(g, p) = {}
          /\ \A m \in Lists \ {p} : Members(g, m) = Members(h, m)
      BY <1>0, <1>2, EmptiedSound DEF ClaimEffect
    <2>2. /\ d.nmac \in Nat /\ d.res \in Nat /\ d.used \in SUBSET Block
          /\ d.seqno \in Nat
      BY Numbers DEF Device
    <2>3. /\ EntrySize(d.nmac, d.res) \in 0..(Word - 1)
          /\ NoBlockIndices(d.nmac, d.res) \in 0..(Word - 1)
          /\ EntrySize(d.nmac, d.res) <= NoBlockIndices(d.nmac, d.res) * MesoSize
      BY <2>2, SizeFacts
    <2>4. PICK z \in 0..(Word - 1), k \in 0..(Word - 1) :
            /\ z = EntrySize(d.nmac, d.res) /\ k = NoBlockIndices(d.nmac, d.res)
      BY <2>3
    <2>5. PICK x \in Device : x = [d EXCEPT !.pc = "open", !.jug = d.used]
      <3>1. [d EXCEPT !.pc = "open", !.jug = d.used] \in Device
        BY <2>2 DEF Device
      <3> QED BY <3>1
    <2>6. opened = [x EXCEPT !.size = z, !.indices = k]
      BY <2>4, <2>5, Zenon DEF Opened
    <2>7. opened \in Device
      BY <2>6 DEF Device
    <2>8. /\ x.pc = "open" /\ x.jug = d.used /\ x.nmac = d.nmac /\ x.res = d.res
          /\ x.used = d.used /\ x.cur = d.cur /\ x.updated = d.updated
          /\ x.seqno = d.seqno
      BY <2>5 DEF Device
    <2>9. /\ opened.pc = x.pc /\ opened.jug = x.jug /\ opened.nmac = x.nmac
          /\ opened.res = x.res /\ opened.used = x.used /\ opened.cur = x.cur
          /\ opened.updated = x.updated /\ opened.seqno = x.seqno
          /\ opened.size = z /\ opened.indices = k
      BY <2>6 DEF Device
    <2>10. CASE opened.size = 0
      <3>1. ClaimDone(p, opened, missing, d, g, h)
        BY <2>1, <2>3, <2>4, <2>8, <2>9 DEF ClaimDone
      <3>2. f = [e EXCEPT ![p] = opened]
        BY <1>2, <2>10 DEF ClaimEffect
      <3> QED BY <2>7, <3>1, <3>2 DEF Claimed
    <2>11. CASE opened.size # 0
      <3>1. PICK b \in opened.jug : f = [e EXCEPT ![p] = Selected(opened, b)]
        BY <1>2, <2>11 DEF ClaimEffect
      <3>2. b \in Block /\ b \in d.used
        BY <2>2, <2>8, <2>9
      <3>3. PICK D : D = Selected(opened, b)
        OBVIOUS
      <3>4. IsSelected(D, opened, b)
        BY <2>7, <3>2, <3>3, SelectedFacts
      <3>5. D \in Device /\ ClaimDone(p, D, missing, d, g, h)
        BY <2>1, <2>3, <2>4, <2>8, <2>9, <3>2, <3>4 DEF IsSelected, ClaimDone
      <3> QED BY <3>1, <3>3, <3>5 DEF Claimed
    <2> QED BY <2>10, <2>11
  <1> QED BY <1>1, <1>2

(* The second half of an open, when no block is missing: p owns exactly    *)
(* the blocks that its newest header lists.                                *)
LEMMA ClaimInv ==
  ASSUME PartInv, NEW p \in Part, Claim(p)
  PROVE  PartInv'
  <1>1. PICK missing : missing = {b \in dev[p].used : owner[b] # p}
    OBVIOUS
  <1>2. PICK h : h = Transfer(heap, Infos, missing, Unallocated, Null, AtEnd)
    OBVIOUS
  <1>3. PICK count : count = dllarr_count(h, p) + Cardinality(missing)
    OBVIOUS
  <1>4. PICK opened : opened = [dev[p] EXCEPT !.pc = "open",
                   !.jug = missing \cup ToSet(Iterated(h, p)),
                   !.size = EntrySize(dev[p].nmac, dev[p].res),
                   !.indices = NoBlockIndices(dev[p].nmac, dev[p].res)]
    OBVIOUS
  <1>5. /\ dev[p].pc = "scanned"
        /\ IF \E b \in missing : owner[b] # Null THEN Die("claimed")
           ELSE IF count # dev[p].nmac THEN Die("count")
           ELSE /\ owner' = [b \in Block |-> IF b \in missing THEN p ELSE owner[b]]
                /\ ctl' = Null
                /\ died' = "no"
                /\ UNCHANGED <<disk, careless>>
                /\ IF dev[p].add
                   THEN /\ heap' = h
                        /\ dev' = [dev EXCEPT ![p] = [dev[p] EXCEPT !.pc = "freeing",
                                                                    !.jug = missing]]
                   ELSE /\ heap' = Emptied(h, p)
                        /\ IF opened.size = 0
                           THEN dev' = [dev EXCEPT ![p] = opened]
                           ELSE \E b \in opened.jug :
                                  dev' = [dev EXCEPT ![p] = Selected(opened, b)]
    BY <1>1, <1>2, <1>3, <1>4, Zenon DEF Claim
  <1>6. /\ Null \notin Part /\ Null \notin Lists /\ Unallocated \in Lists
        /\ Part \subseteq Lists /\ Unallocated \notin Part /\ p \in Lists
        /\ p # Null /\ p # Unallocated /\ Null # Unallocated
        /\ Lists = Part \cup {Unallocated}
    BY Constants DEF Lists
  <1>7. /\ \A b \in Block : owner[b] = Null <=> b \in Listed(Unallocated)
        /\ ctl = p /\ \A q \in Part \ {p} : dev[q].pc # "scanned"
    BY <1>5, InvFacts DEF OwnersOK
  <1>8. /\ dev[p] \in Device /\ DevOK(p) /\ Sound(heap) /\ dev \in [Part -> Device]
        /\ owner \in [Block -> Part \cup {Null}]
        /\ dev[p].used \in SUBSET Block /\ dev[p].nmac \in Nat
        /\ dev[p].res \in 0..(Word - 1) /\ dev[p].seqno \in Nat
    BY InvFacts, DeviceFacts
  <1>9. /\ Owned(p) = Listed(p) /\ dev[p].nmac = Cardinality(dev[p].used)
        /\ dev[p].cur = Null /\ ~ dev[p].updated
    BY <1>5, <1>8 DEF DevOK
  <1>10. /\ missing \in SUBSET Block /\ missing \subseteq dev[p].used
         /\ missing \cap Owned(p) = {} /\ Owned(p) \in SUBSET Block
         /\ dev[p].used \subseteq Owned(p) \cup missing
    BY <1>1, <1>8 DEF Owned
  <1>11. ~ careless => /\ dev[p].used = Newest(p).used /\ Owned(p) = Signed(p)
                       /\ Signed(p) \subseteq dev[p].used
                       /\ dev[p].nmac = Newest(p).nmac /\ dev[p].res = Newest(p).res
                       /\ dev[p].seqno = Newest(p).seq
                       /\ \A b \in dev[p].used : owner[b] \in {p, Null}
    BY <1>5, InvFacts DEF Careful, OnDisk
  <1>12. CASE \E b \in missing : owner[b] # Null
    <2>1. careless
      BY <1>1, <1>10, <1>11, <1>12
    <2> QED BY <1>5, <1>12, <2>1, DieInv
  <1>13. CASE ~ \E b \in missing : owner[b] # Null
    <2>1. missing \subseteq Listed(Unallocated)
      BY <1>7, <1>10, <1>13
    <2>2. Sound(h) /\ Shifted(h, heap, Unallocated, Null, missing)
      BY <1>2, <1>6, <1>8, <1>10, <2>1, InfosTransfer DEF Listed
    <2>3. /\ Members(h, Unallocated) = Listed(Unallocated) \ missing
          /\ \A q \in Part : Members(h, q) = Listed(q)
      BY <1>6, <2>2 DEF Shifted, Listed
    <2>4. /\ dllarr_count(h, p) = Cardinality(Owned(p))
          /\ ToSet(Iterated(h, p)) = Owned(p)
      BY <1>6, <1>9, <2>2, <2>3, CountFacts
    <2>5. count = Cardinality(Owned(p) \cup missing)
      <3>1. Owned(p) \cap missing = {}
        BY <1>10
      <3> QED BY <1>3, <1>10, <2>4, <3>1, BlockSets
    <2>6. CASE count # dev[p].nmac
      <3>1. careless
        <4> SUFFICES ASSUME ~ careless PROVE FALSE
          OBVIOUS
        <4>1. Owned(p) \cup missing = dev[p].used
          BY <1>10, <1>11
        <4> QED BY <1>9, <2>5, <2>6, <4>1
      <3> QED BY <1>5, <1>13, <2>6, <3>1, DieInv
    <2>7. CASE count = dev[p].nmac
      <3>1. Owned(p) \cup missing = dev[p].used
        <4>1. /\ Owned(p) \cup missing \in SUBSET Block
              /\ Cardinality(dev[p].used) = Cardinality(Owned(p) \cup missing)
          BY <1>9, <1>10, <2>5, <2>7
        <4> QED BY <1>8, <1>10, <4>1, BlockSets
      <3>2. /\ owner' = [b \in Block |-> IF b \in missing THEN p ELSE owner[b]]
            /\ ctl' = Null /\ died' = "no" /\ disk' = disk /\ careless' = careless
        BY <1>5, <1>13, <2>7
      <3>3. /\ owner' \in [Block -> Part \cup {Null}] /\ Owned(p)' = dev[p].used
            /\ \A q \in Part \ {p} : Owned(q)' = Owned(q)
            /\ \A b \in Block : owner'[b] = Null <=> b \in Members(h, Unallocated)
        <4>1. owner' \in [Block -> Part \cup {Null}]
          BY <1>8, <3>2
        <4>2. Owned(p)' = dev[p].used
          BY <1>10, <3>1, <3>2 DEF Owned
        <4>3. \A q \in Part \ {p} : Owned(q)' = Owned(q)
          BY <1>6, <1>10, <1>13, <3>2 DEF Owned
        <4>4. \A b \in Block : owner'[b] = Null <=> b \in Members(h, Unallocated)
          BY <1>6, <1>7, <2>3, <3>2
        <4> QED BY <4>1, <4>2, <4>3, <4>4
      <3>4. \E D \in Device : /\ dev' = [dev EXCEPT ![p] = D]
                              /\ ClaimDone(p, D, missing, dev[p], heap', h)
        <4>1. ClaimEffect(p, dev[p], opened, missing, h, heap', dev, dev')
          BY <1>5, <1>13, <2>7, Zenon DEF ClaimEffect
        <4>2. dev[p].size <= dev[p].indices * MesoSize
          BY <1>8 DEF DevOK
        <4>3. missing \cup ToSet(Iterated(h, p)) = dev[p].used
          BY <2>4, <3>1
        <4>4. opened = Opened(p, dev[p], missing, h)
          BY <1>4 DEF Opened
        <4>5. Claimed(p, missing, dev[p], heap', h, dev, dev')
          BY <1>8, <1>9, <1>10, <2>2, <4>1, <4>2, <4>3, <4>4, ClaimedDevice
        <4> QED BY <4>5 DEF Claimed
      <3>5. PICK D \in Device : /\ dev' = [dev EXCEPT ![p] = D]
                                /\ ClaimDone(p, D, missing, dev[p], heap', h)
        BY <3>4
      <3>6. /\ dev' \in [Part -> Device] /\ dev'[p] = D
            /\ \A q \in Part \ {p} : dev'[q] = dev[q]
        BY <1>8, <3>5, DevUpdate
      <3>7. /\ Listed(Unallocated)' = Members(h, Unallocated)
            /\ \A q \in Part \ {p} : Listed(q)' = Listed(q)
            /\ Sound(heap)'
        BY <1>6, <2>3, <3>5 DEF ClaimDone, Listed
      <3>8. /\ D.nmac = dev[p].nmac /\ D.res = dev[p].res /\ D.used = dev[p].used
            /\ D.size <= D.indices * MesoSize
        BY <3>5 DEF ClaimDone
      <3>9. \/ /\ D.pc = "freeing" /\ D.jug = missing /\ Listed(p)' = Listed(p)
            \/ /\ D.pc = "open" /\ D.jug = dev[p].used /\ Listed(p)' = {}
               /\ D.size = EntrySize(dev[p].nmac, dev[p].res) /\ ~ D.updated
               /\ \/ D.cur = Null /\ D.seqno = dev[p].seqno
                  \/ D.cur \in dev[p].used /\ D.seqno = dev[p].seqno + 1
        BY <2>3, <3>5 DEF ClaimDone, Listed
      <3>10. ASSUME NEW q \in Part PROVE DevOK(q)'
        <4>1. CASE q # p
          BY <3>3, <3>6, <3>7, <4>1, InvFacts, DevFrame
        <4>2. CASE q = p
          <5>1. dev[p].used = missing \cup Listed(p) /\ missing \cap Listed(p) = {}
            BY <1>9, <1>10, <3>1
          <5>2. CASE D.pc = "freeing"
            BY <1>9, <3>3, <3>6, <3>8, <3>9, <4>2, <5>1, <5>2 DEF DevOK
          <5>3. CASE D.pc = "open"
            BY <1>9, <3>3, <3>6, <3>8, <3>9, <4>2, <5>3 DEF DevOK
          <5> QED BY <3>9, <5>2, <5>3
        <4> QED BY <4>1, <4>2
      <3>11. ASSUME ~ careless', NEW q \in Part PROVE Careful(q)'
        <4>1. /\ Careful(q) /\ Careful(p) /\ OnDisk(q) \in SUBSET Block /\ ~ careless
          BY <3>2, <3>11, InvFacts, OnDiskFacts
        <4>2. missing \subseteq OnDisk(p) /\ OnDisk(p) = dev[p].used
          BY <1>10, <1>11, <4>1 DEF OnDisk
        <4>3. \A b \in OnDisk(q) : owner'[b] \in {q, Null}
          <5>1. q # p => OnDisk(q) \cap missing = {}
            BY <4>1, <4>2 DEF Careful
          <5> QED BY <3>2, <4>1, <5>1 DEF Careful
        <4>4. CASE q # p
          BY <3>2, <3>3, <3>6, <4>1, <4>3, <4>4, CarefulFrame
        <4>5. CASE q = p
          <5>1. \A r \in Part : /\ Signed(r)' = Signed(r) /\ Newest(r)' = Newest(r)
                                /\ OnDisk(r)' = OnDisk(r)
            BY <3>2, DiskSame
          <5>2. \A b \in Signed(p) : disk[b].seq \in Nat /\ disk[b].seq <= dev[p].seqno
            BY <1>11, <4>1, OnDiskFacts
          <5>3. \A b \in Signed(p) : /\ disk'[b].seq <= D.seqno
                                     /\ D.cur # Null => disk'[b].seq < D.seqno
                                     \/ D.pc = "freeing"
            BY <1>8, <3>2, <3>9, <5>2
          <5>4. Careful(p)'
            <6>1. CASE D.pc = "freeing"
              BY <3>3, <3>6, <4>1, <4>2, <4>3, <4>5, <5>1, <6>1 DEF Careful
            <6>2. CASE D.pc = "open"
              BY <1>11, <3>3, <3>6, <3>8, <4>1, <4>2, <4>3, <4>5, <5>1, <5>3, <6>2
                 DEF Careful
            <6> QED BY <3>9, <6>1, <6>2
          <5> QED BY <4>5, <5>4
        <4> QED BY <4>4, <4>5
      <3>12. heap' \in Heap
        BY <3>7 DEF Sound
      <3>13. PartitionsTypeOK'
        BY <3>2, <3>3, <3>6, <3>12, InvFacts DEF PartitionsTypeOK, Device
      <3>14. HeadersOK' /\ OpenNeverDies'
        BY <3>2, InvFacts, DiskSame DEF OpenNeverDies
      <3>15. OwnersOK'
        <4>1. \A q \in Part : dev'[q].pc # "scanned" /\ ctl' # q
          BY <1>6, <1>7, <3>2, <3>6, <3>9
        <4> QED BY <3>3, <3>7, <4>1 DEF OwnersOK
      <3> QED BY <3>7, <3>10, <3>11, <3>13, <3>14, <3>15 DEF PartInv
    <2> QED BY <2>6, <2>7
  <1> QED BY <1>12, <1>13


(* What is allocated was unallocated. *)
LEMMA AllocatableFacts ==
  ASSUME PartInv, NEW n \in Nat, n >= 1, NEW S \in Allocatable(n)
  PROVE  S \subseteq Listed(Unallocated) /\ Cardinality(S) = n
  <1>1. PICK count : count = dllarr_count(heap, Unallocated)
    OBVIOUS
  <1>2. Sound(heap) /\ Unallocated \in Lists
    BY InvFacts, Constants
  <1>3. count = Len(heap.array[Unallocated]) /\ count \in Nat
    <2>1. 1 \in 1..(Len(heap.array[Unallocated]) + 1)
      BY <1>2, LengthBound
    <2> QED BY <1>1, <1>2, <2>1, LinkFacts, LengthBound
  <1>4. count >= n
    BY <1>1, <1>3 DEF Allocatable
  <1>5. /\ S \subseteq {dllarr_nth(heap, Unallocated, i) : i \in random_custom(count)}
        /\ Cardinality(S) = n
    BY <1>1, <1>3, <1>4 DEF Allocatable
  <1>6. count \in Nat \ {0}
    BY <1>3, <1>4
  <1>7. ASSUME NEW i \in random_custom(count) PROVE i \in 0..(count - 1)
    <2>1. PICK limit : random_custom(count) = {m % count : m \in 0..limit}
      BY DEF random_custom
    <2>2. PICK m \in 0..limit : i = m % count
      BY <2>1
    <2>3. m \in Int
      BY <2>2
    <2> QED BY <1>6, <2>2, <2>3, DivMod
  <1>8. ASSUME NEW i \in random_custom(count)
        PROVE  dllarr_nth(heap, Unallocated, i) \in Listed(Unallocated)
    <2>1. i + 1 \in 1..Len(heap.array[Unallocated])
      BY <1>3, <1>7
    <2>2. heap.array[Unallocated] \in Seq(Block)
      BY <1>2, InvFacts, HeapFacts
    <2> QED BY <2>1, <2>2, SeqMembers DEF dllarr_nth, Listed, Members
  <1> QED BY <1>5, <1>8

(* The size and the indices that scubed3_reinit computes. *)
LEMMA ReinitSizes ==
  ASSUME NEW n \in Nat, NEW r \in Int, NEW size \in Nat, NEW indices \in Nat,
         size < Word, size <= indices * MesoSize, NEW res, res = UInt(r),
         NEW k, k = UInt(UInt(n - res) * MMPM), k >= indices,
         NEW z, z = IF n > res THEN EntrySize(n, res) ELSE size
  PROVE  /\ res \in 0..(Word - 1) /\ z \in 0..(Word - 1) /\ k \in 0..(Word - 1)
         /\ z <= k * MesoSize /\ (res <= n => z = EntrySize(n, res))
  <1>1. res \in 0..(Word - 1) /\ res \in Nat
    BY UIntFacts
  <1>2. PICK y \in Nat : y = UInt(n - res)
    <2>1. n - res \in Int
      BY <1>1
    <2> QED BY <2>1, UIntFacts
  <1>3. y * MMPM \in Int
    BY Numbers, Products
  <1>4. k \in 0..(Word - 1) /\ k \in Nat
    BY <1>2, <1>3, UIntFacts
  <1>5. CASE n > res
    <2>1. /\ k = NoBlockIndices(n, res) /\ EntrySize(n, res) \in 0..(Word - 1)
          /\ EntrySize(n, res) <= NoBlockIndices(n, res) * MesoSize
      BY <1>1, <1>5, SizeFacts
    <2> QED BY <1>1, <1>4, <1>5, <2>1
  <1>6. CASE n <= res
    <2>1. z = size /\ z \in 0..(Word - 1)
      BY <1>1, <1>6, Numbers
    <2>2. indices * MesoSize <= k * MesoSize
      BY <1>4, Numbers, ProductOrder
    <2>3. indices * MesoSize \in Nat /\ k * MesoSize \in Nat
      BY <1>4, Numbers, Products
    <2>4. z <= k * MesoSize
      BY <2>1, <2>2, <2>3
    <2>5. ASSUME res = n PROVE z = EntrySize(n, res)
      <3>1. y <= 0
        <4>1. n - res = 0
          BY <1>1, <2>5
        <4> QED BY <1>2, <4>1, UIntFacts
      <3>2. y * MMPM = 0
        BY <3>1, Numbers, Products
      <3>3. k <= 0
        BY <1>2, <3>2, UIntFacts
      <3>4. k * MesoSize = 0
        BY <1>4, <3>3, Numbers, Products
      <3>5. EntrySize(n, res) = 0
        BY <1>1, <1>6, SizeFacts
      <3> QED BY <2>1, <2>4, <3>4, <3>5
    <2> QED BY <1>1, <1>4, <1>6, <2>1, <2>4, <2>5
  <1> QED BY <1>1, <1>5, <1>6


(* The device D that a resize makes of the device d. *)
IsResized(D, d, n, res, z, k, S) ==
  /\ D \in Device /\ D.pc = d.pc /\ D.nmac = n /\ D.res = res
  /\ D.jug = d.jug \cup S /\ D.used = d.used \cup S
  /\ D.size = z /\ D.indices = k /\ D.updated
  /\ IF d.cur = Null THEN D.cur \in d.jug \cup S /\ D.seqno = d.seqno + 1
                     ELSE D.cur = d.cur /\ D.seqno = d.seqno

LEMMA ResizedFacts ==
  ASSUME NEW d \in Device, NEW n \in Nat, NEW res \in 0..(Word - 1),
         NEW z \in 0..(Word - 1), NEW k \in 0..(Word - 1), NEW S \in SUBSET Block,
         NEW G, G = [d EXCEPT !.nmac = n, !.res = res, !.jug = @ \cup S,
                              !.used = @ \cup S, !.size = z, !.indices = k],
         NEW b \in IF d.cur = Null THEN G.jug ELSE {d.cur},
         NEW D, D = [(IF d.cur = Null THEN Selected(G, b) ELSE G)
                       EXCEPT !.updated = TRUE]
  PROVE  IsResized(D, d, n, res, z, k, S)
  <1>1. PICK x \in Device : x = [d EXCEPT !.nmac = n, !.res = res]
    <2>1. [d EXCEPT !.nmac = n, !.res = res] \in Device
      BY DEF Device
    <2> QED BY <2>1
  <1>2. /\ x.nmac = n /\ x.res = res /\ x.pc = d.pc /\ x.jug = d.jug
        /\ x.used = d.used /\ x.cur = d.cur /\ x.seqno = d.seqno
        /\ d.jug \in SUBSET Block /\ d.used \in SUBSET Block
        /\ d.cur \in Block \cup {Null}
    BY <1>1 DEF Device
  <1>3. PICK y \in Device : y = [x EXCEPT !.jug = d.jug \cup S, !.used = d.used \cup S]
    <2>1. [x EXCEPT !.jug = d.jug \cup S, !.used = d.used \cup S] \in Device
      BY <1>2 DEF Device
    <2> QED BY <2>1
  <1>4. /\ y.nmac = x.nmac /\ y.res = x.res /\ y.pc = x.pc /\ y.jug = d.jug \cup S
        /\ y.used = d.used \cup S /\ y.cur = x.cur /\ y.seqno = x.seqno
    BY <1>3 DEF Device
  <1>5. G = [y EXCEPT !.size = z, !.indices = k]
    BY <1>1, <1>3 DEF Device
  <1>6. G \in Device
    BY <1>5 DEF Device
  <1>7. /\ G.nmac = y.nmac /\ G.res = y.res /\ G.pc = y.pc /\ G.jug = y.jug
        /\ G.used = y.used /\ G.cur = y.cur /\ G.seqno = y.seqno
        /\ G.size = z /\ G.indices = k
    BY <1>5 DEF Device
  <1>8. ASSUME NEW H \in Device, D = [H EXCEPT !.updated = TRUE]
        PROVE  /\ D \in Device /\ D.updated /\ D.nmac = H.nmac /\ D.res = H.res
               /\ D.pc = H.pc /\ D.jug = H.jug /\ D.used = H.used /\ D.cur = H.cur
               /\ D.seqno = H.seqno /\ D.size = H.size /\ D.indices = H.indices
    BY <1>8 DEF Device
  <1>9. CASE d.cur = Null
    <2>1. b \in d.jug \cup S /\ b \in Block
      BY <1>2, <1>4, <1>7, <1>9
    <2>2. PICK H : H = Selected(G, b)
      OBVIOUS
    <2>3. IsSelected(H, G, b)
      BY <1>6, <2>1, <2>2, SelectedFacts
    <2>4. H \in Device /\ D = [H EXCEPT !.updated = TRUE]
      BY <1>9, <2>2, <2>3 DEF IsSelected
    <2>5. /\ D \in Device /\ D.updated /\ D.nmac = H.nmac /\ D.res = H.res
          /\ D.pc = H.pc /\ D.jug = H.jug /\ D.used = H.used /\ D.cur = H.cur
          /\ D.seqno = H.seqno /\ D.size = H.size /\ D.indices = H.indices
      BY <1>8, <2>4
    <2> QED BY <1>2, <1>4, <1>7, <1>9, <2>1, <2>3, <2>5 DEF IsSelected, IsResized
  <1>10. CASE d.cur # Null
    <2>1. D = [G EXCEPT !.updated = TRUE]
      BY <1>10
    <2>2. /\ D \in Device /\ D.updated /\ D.nmac = G.nmac /\ D.res = G.res
          /\ D.pc = G.pc /\ D.jug = G.jug /\ D.used = G.used /\ D.cur = G.cur
          /\ D.seqno = G.seqno /\ D.size = G.size /\ D.indices = G.indices
      BY <1>6, <1>8, <2>1
    <2> QED BY <1>2, <1>4, <1>7, <1>10, <2>2 DEF IsResized
  <1> QED BY <1>9, <1>10

(* control_resize, while every partition's blocks are its own. *)
LEMMA ResizeInv ==
  ASSUME PartInv, ~ careless, NEW p \in Part, NEW n \in Int, NEW r \in Int,
         Resize(p, n, r)
  PROVE  PartInv'
  <1>1. PICK res, k, z : /\ res = UInt(r) /\ k = UInt(UInt(n - res) * MMPM)
                         /\ z = IF n > res THEN EntrySize(n, res) ELSE dev[p].size
    OBVIOUS
  <1> DEFINE grown(S) == [dev[p] EXCEPT !.nmac = n, !.res = res, !.jug = @ \cup S,
                            !.used = @ \cup S, !.size = z, !.indices = k]
  <1>2. /\ ctl = Null /\ dev[p].pc = "open" /\ n >= 0 /\ n > dev[p].nmac
        /\ \E S \in Allocatable(n - dev[p].nmac) :
             IF k < dev[p].indices THEN Die("shrunk")
             ELSE /\ heap' = Transfer(heap, Infos, S, Unallocated, Null, AtEnd)
                  /\ owner' = [b \in Block |-> IF b \in S THEN p ELSE owner[b]]
                  /\ \E b \in IF dev[p].cur = Null THEN grown(S).jug ELSE {dev[p].cur} :
                       dev' = [dev EXCEPT ![p] =
                         [(IF dev[p].cur = Null THEN Selected(grown(S), b)
                                           ELSE grown(S)) EXCEPT !.updated = TRUE]]
                  /\ careless' = (careless \/ \E q \in Part :
                        dev[q].pc = "closed" /\ OnDisk(q) \cap S # {})
                  /\ died' = "no"
                  /\ UNCHANGED <<disk, ctl>>
    BY <1>1, Zenon DEF Resize, ControlIdle
  <1>3. PICK S \in Allocatable(n - dev[p].nmac) :
             IF k < dev[p].indices THEN Die("shrunk")
             ELSE /\ heap' = Transfer(heap, Infos, S, Unallocated, Null, AtEnd)
                  /\ owner' = [b \in Block |-> IF b \in S THEN p ELSE owner[b]]
                  /\ \E b \in IF dev[p].cur = Null THEN grown(S).jug ELSE {dev[p].cur} :
                       dev' = [dev EXCEPT ![p] =
                         [(IF dev[p].cur = Null THEN Selected(grown(S), b)
                                           ELSE grown(S)) EXCEPT !.updated = TRUE]]
                  /\ careless' = (careless \/ \E q \in Part :
                        dev[q].pc = "closed" /\ OnDisk(q) \cap S # {})
                  /\ died' = "no"
                  /\ UNCHANGED <<disk, ctl>>
    BY <1>2, Zenon
  <1>4. CASE k < dev[p].indices
    <2>1. Die("shrunk")
      BY <1>3, <1>4
    <2> QED BY <2>1, DieInv
  <1>5. CASE ~ (k < dev[p].indices)
    <2>1. PICK b \in IF dev[p].cur = Null THEN grown(S).jug ELSE {dev[p].cur} :
            dev' = [dev EXCEPT ![p] =
                     [(IF dev[p].cur = Null THEN Selected(grown(S), b)
                                       ELSE grown(S)) EXCEPT !.updated = TRUE]]
      BY <1>3, <1>5, Zenon
    <2>2. PICK D : D = [(IF dev[p].cur = Null THEN Selected(grown(S), b)
                         ELSE grown(S)) EXCEPT !.updated = TRUE]
      OBVIOUS
    <2>3. dev' = [dev EXCEPT ![p] = D]
      BY <2>1, <2>2, Zenon
    <2>4. /\ heap' = Transfer(heap, Infos, S, Unallocated, Null, AtEnd)
          /\ owner' = [x \in Block |-> IF x \in S THEN p ELSE owner[x]]
          /\ careless' = (careless \/ \E q \in Part :
                dev[q].pc = "closed" /\ OnDisk(q) \cap S # {})
          /\ died' = "no" /\ disk' = disk /\ ctl' = ctl
      BY <1>3, <1>5, Zenon
    <2>5. /\ dev[p] \in Device /\ dev[p].nmac \in Nat /\ dev[p].indices \in Nat
          /\ dev[p].size \in Nat /\ dev[p].size < Word /\ dev[p].seqno \in Nat
          /\ dev[p].used \in SUBSET Block /\ dev[p].jug \in SUBSET Block
          /\ dev \in [Part -> Device] /\ owner \in [Block -> Part \cup {Null}]
      BY InvFacts, DeviceFacts, Numbers
    <2>6. /\ DevOK(p) /\ Sound(heap) /\ \A q \in Part : Careful(q)
      BY InvFacts
    <2>7. /\ dev[p].size <= dev[p].indices * MesoSize
          /\ dev[p].nmac = Cardinality(dev[p].used)
          /\ Owned(p) = dev[p].used /\ dev[p].jug = dev[p].used /\ Listed(p) = {}
          /\ dev[p].cur = Null \/ dev[p].cur \in dev[p].used
      BY <1>2, <2>6 DEF DevOK
    <2>8. n \in Nat /\ n - dev[p].nmac \in Nat /\ n - dev[p].nmac >= 1
      BY <1>2, <2>5
    <2>9. /\ res \in 0..(Word - 1) /\ z \in 0..(Word - 1) /\ k \in 0..(Word - 1)
          /\ z <= k * MesoSize /\ (res <= n => z = EntrySize(n, res))
      <3>1. k \in Nat
        <4>1. res \in Nat
          BY <1>1, UIntFacts
        <4>2. n - res \in Int
          BY <4>1
        <4>3. UInt(n - res) \in Nat
          BY <4>2, UIntFacts
        <4>4. UInt(n - res) * MMPM \in Int
          BY <4>3, Numbers, Products
        <4> QED BY <1>1, <4>4, UIntFacts
      <3>2. k >= dev[p].indices
        BY <1>5, <2>5, <3>1
      <3> QED BY <1>1, <2>5, <2>7, <2>8, <3>2, ReinitSizes
    <2>10. S \subseteq Listed(Unallocated) /\ Cardinality(S) = n - dev[p].nmac
      BY <2>8, AllocatableFacts
    <2>11. /\ Null \notin Part /\ Null \notin Lists /\ Unallocated \in Lists
           /\ Part \subseteq Lists /\ Unallocated \notin Part /\ p \in Lists
           /\ p # Null /\ p # Unallocated /\ Null # Unallocated
           /\ Lists = Part \cup {Unallocated} /\ Null \notin Block
      BY Constants DEF Lists
    <2>12. \A x \in Block : owner[x] = Null <=> x \in Listed(Unallocated)
      BY InvFacts DEF OwnersOK
    <2>13. S \in SUBSET Block /\ \A x \in S : owner[x] = Null
      <3>1. Listed(Unallocated) \in SUBSET Block
        BY SMTT(30), <2>6, <2>11, CountFacts DEF Listed
      <3> QED BY <2>10, <2>12, <3>1
    <2>14. IsResized(D, dev[p], n, res, z, k, S)
      <3>1. PICK G : G = grown(S)
        OBVIOUS
      <3>2. /\ b \in IF dev[p].cur = Null THEN G.jug ELSE {dev[p].cur}
            /\ D = [(IF dev[p].cur = Null THEN Selected(G, b) ELSE G)
                      EXCEPT !.updated = TRUE]
        BY <2>1, <2>2, <3>1, Zenon
      <3>3. G = [dev[p] EXCEPT !.nmac = n, !.res = res, !.jug = @ \cup S,
                               !.used = @ \cup S, !.size = z, !.indices = k]
        BY <3>1
      <3> QED BY <2>5, <2>8, <2>9, <2>13, <3>2, <3>3, ResizedFacts
    <2> HIDE DEF grown
    <2>15. /\ D \in Device /\ D.pc = "open" /\ D.nmac = n /\ D.res = res
           /\ D.jug = dev[p].used \cup S /\ D.used = dev[p].used \cup S
           /\ D.size = z /\ D.indices = k /\ D.updated
           /\ D.cur \in D.used /\ D.cur # Null
           /\ dev[p].cur = Null => D.seqno = dev[p].seqno + 1
           /\ dev[p].cur # Null => D.seqno = dev[p].seqno
      <3>1. dev[p].cur = Null \/ dev[p].cur # Null
        OBVIOUS
      <3> QED BY <1>2, <2>5, <2>7, <2>11, <2>13, <2>14, <3>1 DEF IsResized
    <2>16. /\ dev' \in [Part -> Device] /\ dev'[p] = D
           /\ \A q \in Part \ {p} : dev'[q] = dev[q]
      BY <2>3, <2>5, <2>15, DevUpdate
    <2>17. Sound(heap)' /\ Shifted(heap', heap, Unallocated, Null, S)
      BY <2>4, <2>6, <2>10, <2>11, <2>13, InfosTransfer DEF Listed
    <2>18. /\ Listed(Unallocated)' = Listed(Unallocated) \ S
           /\ \A q \in Part : Listed(q)' = Listed(q)
      BY <2>11, <2>17 DEF Shifted, Listed
    <2>19. /\ owner' \in [Block -> Part \cup {Null}] /\ Owned(p)' = Owned(p) \cup S
           /\ \A q \in Part \ {p} : Owned(q)' = Owned(q)
           /\ \A x \in Block : owner'[x] = Null <=> x \in Listed(Unallocated)'
      <3>1. owner' \in [Block -> Part \cup {Null}]
        BY <2>4, <2>5
      <3>2. Owned(p)' = Owned(p) \cup S
        BY <2>4, <2>13 DEF Owned
      <3>3. \A q \in Part \ {p} : Owned(q)' = Owned(q)
        BY <2>4, <2>11, <2>13 DEF Owned
      <3>4. \A x \in Block : owner'[x] = Null <=> x \in Listed(Unallocated)'
        BY <2>4, <2>11, <2>12, <2>18
      <3> QED BY <3>1, <3>2, <3>3, <3>4
    <2>20. Cardinality(dev[p].used \cup S) = n
      <3>1. dev[p].used \cap S = {}
        BY <2>7, <2>11, <2>13 DEF Owned
      <3>2. Cardinality(dev[p].used \cup S) = Cardinality(dev[p].used) + Cardinality(S)
        BY <2>5, <2>13, <3>1, BlockSets
      <3> QED BY <2>5, <2>7, <2>8, <2>10, <3>2
    <2>21. ASSUME NEW q \in Part PROVE DevOK(q)'
      <3>1. CASE q # p
        BY <2>16, <2>18, <2>19, <3>1, InvFacts, DevFrame
      <3>2. CASE q = p
        BY <2>7, <2>9, <2>15, <2>16, <2>18, <2>19, <2>20, <3>2 DEF DevOK
      <3> QED BY <3>1, <3>2
    <2>22. ASSUME ~ careless', NEW q \in Part PROVE Careful(q)'
      <3>1. Careful(q) /\ OnDisk(q) \in SUBSET Block
        BY <2>6, OnDiskFacts
      <3>2. q # p => OnDisk(q) \cap S = {}
        <4> SUFFICES ASSUME q # p, NEW x \in OnDisk(q), x \in S PROVE FALSE
          OBVIOUS
        <4>1. dev[q].pc \in {"closed", "scanned", "open", "freeing"}
          BY InvFacts, DeviceFacts
        <4>2. dev[q].pc # "closed"
          BY <2>4, <2>22
        <4>3. dev[q].pc # "scanned"
          BY <1>2, <2>11, InvFacts DEF OwnersOK
        <4>4. owner[x] = q
          BY <3>1, <4>1, <4>2, <4>3 DEF Careful, Owned
        <4> QED BY <2>11, <2>13, <4>4
      <3>3. \A x \in OnDisk(q) : owner'[x] \in {q, Null}
        BY <2>4, <3>1, <3>2 DEF Careful
      <3>4. CASE q # p
        BY <2>4, <2>16, <2>19, <3>1, <3>3, <3>4, CarefulFrame
      <3>5. CASE q = p
        <4>1. \A x \in Part : /\ Signed(x)' = Signed(x) /\ Newest(x)' = Newest(x)
                              /\ OnDisk(x)' = OnDisk(x)
          BY <2>4, DiskSame
        <4>2. \A x \in Signed(p) : /\ disk'[x].seq <= D.seqno
                                   /\ disk'[x].seq < D.seqno
          <5>1. \A x \in Signed(p) : disk[x].seq \in Nat
            BY OnDiskFacts
          <5>2. \A x \in Signed(p) : /\ disk[x].seq <= dev[p].seqno
                                     /\ dev[p].cur # Null => disk[x].seq < dev[p].seqno
            BY <1>2, <2>6 DEF Careful
          <5> QED BY <2>4, <2>5, <2>15, <5>1, <5>2
        <4>3. OnDisk(p) \subseteq Owned(p)'
          BY <1>2, <2>6, <2>19 DEF Careful
        <4>4. Careful(p)'
          BY <2>15, <2>16, <3>1, <3>3, <3>5, <4>1, <4>2, <4>3 DEF Careful
        <4> QED BY <3>5, <4>4
      <3> QED BY <3>4, <3>5
    <2>23. heap' \in Heap
      BY <2>17 DEF Sound
    <2>24. careless' \in BOOLEAN
      BY <2>4, InvFacts
    <2>25. PartitionsTypeOK'
      BY <2>4, <2>16, <2>19, <2>23, <2>24, InvFacts DEF PartitionsTypeOK, Device
    <2>26. HeadersOK' /\ OpenNeverDies'
      BY <2>4, InvFacts, DiskSame DEF OpenNeverDies
    <2>27. OwnersOK'
      <3>1. \A q \in Part : dev'[q].pc = dev[q].pc
        BY <1>2, <2>15, <2>16
      <3> QED BY <2>4, <2>19, <3>1, InvFacts DEF OwnersOK
    <2> QED BY <2>17, <2>21, <2>22, <2>25, <2>26, <2>27 DEF PartInv
  <1> QED BY <1>4, <1>5


(* Nothing happens. *)
LEMMA StutterInv ==
  ASSUME PartInv, UNCHANGED vars
  PROVE  PartInv'
  <1>1. /\ heap' = heap /\ owner' = owner /\ dev' = dev /\ disk' = disk
        /\ ctl' = ctl /\ died' = died /\ careless' = careless
    BY DEF vars
  <1>2. \A q \in Part : Owned(q)' = Owned(q) /\ Listed(q)' = Listed(q)
    BY <1>1 DEF Owned, Listed
  <1>3. ASSUME NEW q \in Part PROVE DevOK(q)'
    BY <1>1, <1>2, InvFacts, DevFrame
  <1>4. ASSUME ~ careless', NEW q \in Part PROVE Careful(q)'
    <2>1. Careful(q)
      BY <1>1, <1>4, InvFacts
    <2>2. \A b \in OnDisk(q) : owner'[b] \in {q, Null}
      BY <1>1, <2>1 DEF Careful
    <2> QED BY <1>1, <1>2, <2>1, <2>2, CarefulFrame
  <1>5. PartitionsTypeOK' /\ OpenNeverDies'
    BY <1>1, InvFacts DEF PartitionsTypeOK, OpenNeverDies
  <1>6. Sound(heap)' /\ HeadersOK'
    BY <1>1, InvFacts, DiskSame
  <1>7. OwnersOK'
    BY <1>1, InvFacts DEF OwnersOK, Listed
  <1> QED BY <1>3, <1>4, <1>5, <1>6, <1>7 DEF PartInv

(* Every step, of the control thread, of a FUSE thread or of whoever kills *)
(* the daemon.                                                             *)
LEMMA NextInv ==
  ASSUME PartInv, PartitionsNext
  PROVE  PartInv'
  <1>1. ASSUME NEW p \in Part, NEW add \in BOOLEAN, Scan(p, add) PROVE PartInv'
    BY <1>1, ScanInv
  <1>2. ASSUME NEW p \in Part, Claim(p) PROVE PartInv'
    BY <1>2, ClaimInv
  <1>3. ASSUME NEW p \in Part, NEW sh \in Shapes, ~ careless, Resize(p, sh[1], sh[2])
        PROVE  PartInv'
    <2>1. sh[1] \in Int /\ sh[2] \in Int
      BY PartitionsAssumption
    <2> QED BY <1>3, <2>1, ResizeInv
  <1>4. ASSUME NEW p \in Part, Update(p) PROVE PartInv'
    BY <1>4, UpdateInv
  <1>5. ASSUME NEW p \in Part, NEW b \in dev[p].jug, ~ careless, WriteAndSelect(p, b)
        PROVE  PartInv'
    BY <1>5, WriteAndSelectInv
  <1>6. ASSUME NEW p \in Part, Close(p) PROVE PartInv'
    BY <1>6, CloseInv
  <1>7. ASSUME NEW p \in Part, GiveBack(p) PROVE PartInv'
    BY <1>7, GiveBackInv
  <1>8. CASE Crash
    BY <1>8, DieInv DEF Crash
  <1> QED BY <1>1, <1>2, <1>3, <1>4, <1>5, <1>6, <1>7, <1>8 DEF PartitionsNext

----------------------------------------------------------------------------
(* The theorems. *)

(* The inductive invariant of the partitions that share a backing file. *)
THEOREM PartitionsInvariant == PartitionsSpec => []PartInv
  <1>1. PartitionsInit => PartInv
    BY InitInv
  <1>2. PartInv /\ [PartitionsNext]_vars => PartInv'
    BY NextInv, StutterInv
  <1> QED BY <1>1, <1>2, PTL DEF PartitionsSpec

(* The variables keep their types. *)
THEOREM PartitionsTypes == PartitionsSpec => []PartitionsTypeOK
  <1>1. PartInv => PartitionsTypeOK
    BY DEF PartInv
  <1> QED BY <1>1, PartitionsInvariant, PTL

(* The lists stay sound, for any number of macroblocks and of partitions:  *)
(* the links, the arrays and the indices of dllarr.c agree.                *)
THEOREM ListsStaySound == PartitionsSpec => []ListsSound
  <1>1. PartInv => ListsSound
    BY SoundAgrees DEF PartInv, ListsSound
  <1> QED BY <1>1, PartitionsInvariant, PTL

(* The dev pointers are exact: null for exactly the unallocated blocks,    *)
(* and an open partition owns the blocks of its bitmap and no other.       *)
THEOREM OwnershipStaysExact == PartitionsSpec => []OwnershipExact
  <1>1. ASSUME PartInv PROVE OwnershipExact
    <2>1. /\ \A b \in Block : owner[b] = Null <=> b \in Listed(Unallocated)
          /\ Sound(heap) /\ Unallocated \in Lists
      BY <1>1, InvFacts, Constants DEF OwnersOK
    <2>2. heap.array[Unallocated] \in Seq(Block)
      BY <2>1, HeapFacts DEF Sound
    <2>3. \A b \in Block :
            b \in Listed(Unallocated) <=> Contains(heap.array[Unallocated], b)
      <3>1. PICK s \in Seq(Block) : s = heap.array[Unallocated]
        BY <2>2
      <3>2. \A b : b \in ToSet(s) <=> Contains(s, b)
        BY DEF ToSet, Contains
      <3> QED BY <3>1, <3>2 DEF Listed, Members
    <2>4. \A p \in Part : dev[p].pc = "open" =>
            /\ {b \in Block : owner[b] = p} = dev[p].used
            /\ dev[p].jug = dev[p].used
            /\ dev[p].nmac = Cardinality(dev[p].used)
      BY <1>1, InvFacts DEF DevOK, Owned
    <2> QED BY <2>1, <2>3, <2>4 DEF OwnershipExact
  <1>2. PartInv => OwnershipExact
    BY <1>1
  <1> QED BY <1>2, PartitionsInvariant, PTL

(* Unless an allocation took a block of a partition that was not open, no  *)
(* two partitions claim the same macroblock on disk.                       *)
THEOREM ClaimsStayDisjoint == PartitionsSpec => []ClaimsDisjoint
  <1>1. PartInv => ClaimsDisjoint
    BY DEF PartInv, Careful, ClaimsDisjoint
  <1> QED BY <1>1, PartitionsInvariant, PTL

(* Under the same condition no open is fatal to the daemon. *)
THEOREM OpensAreSafe == PartitionsSpec => []OpenNeverDies
  <1>1. PartInv => OpenNeverDies
    BY DEF PartInv
  <1> QED BY <1>1, PartitionsInvariant, PTL

(* Requests inside the size of a partition are accepted and tiled, for     *)
(* every word size, mesoblock size and number of mesoblocks.               *)
THEOREM RequestsAreTiled == PartitionsSpec => []RequestsTiled
  <1>1. PartInv => RequestsTiled
    BY InvFacts, TiledFromSizes DEF DevOK
  <1> QED BY <1>1, PartitionsInvariant, PTL

(* A resize leaves the partition open, unless the daemon dies of it. *)
LEMMA ResizeKeepsOpen ==
  ASSUME PartInv, NEW p \in Part, NEW n, NEW r, Resize(p, n, r)
  PROVE  \/ \E why : Die(why)
         \/ \E D : dev' = [dev EXCEPT ![p] = D] /\ D.pc = dev[p].pc
  <1>1. PICK d : d = dev[p] /\ d \in Device
    BY InvFacts, DeviceFacts
  <1>2. \/ \E why : Die(why)
        \/ \E G, b, res, S, z, k :
             /\ G = [d EXCEPT !.nmac = n, !.res = res, !.jug = @ \cup S,
                              !.used = @ \cup S, !.size = z, !.indices = k]
             /\ dev' = [dev EXCEPT ![p] =
                         [(IF d.cur = Null THEN Selected(G, b) ELSE G)
                            EXCEPT !.updated = TRUE]]
    BY <1>1, ZenonT(60) DEF Resize
  <1>3. CASE \E why : Die(why)
    BY <1>3
  <1>4. CASE ~ \E why : Die(why)
    <2>1. PICK G, b, res, S, z, k :
            /\ G = [d EXCEPT !.nmac = n, !.res = res, !.jug = @ \cup S,
                             !.used = @ \cup S, !.size = z, !.indices = k]
            /\ dev' = [dev EXCEPT ![p] =
                        [(IF d.cur = Null THEN Selected(G, b) ELSE G)
                           EXCEPT !.updated = TRUE]]
      BY <1>2, <1>4, Zenon
    <2>2. PICK D : D = [(IF d.cur = Null THEN Selected(G, b) ELSE G)
                          EXCEPT !.updated = TRUE]
      OBVIOUS
    <2>3. D.pc = d.pc
      BY <1>1, <2>1, <2>2 DEF Selected, Device
    <2>4. dev' = [dev EXCEPT ![p] = D]
      BY <2>1, <2>2, Zenon
    <2> QED BY <1>1, <2>3, <2>4
  <1> QED BY <1>3, <1>4

(* A close leaves the size on disk that the partition had. *)
THEOREM ClosesKeepSize == PartitionsSpec => CloseKeepsSize
  <1> DEFINE Kept(p) == EntrySize(Newest(p)'.nmac, Newest(p)'.res) = dev[p].size
  <1>1. ASSUME PartInv, PartitionsNext, NEW p \in Part,
               dev[p].pc = "open", dev'[p].pc = "freeing",
               ~ careless, dev[p].res <= dev[p].nmac
        PROVE  Kept(p)
    <2>1. /\ DevOK(p) /\ Careful(p) /\ dev \in [Part -> Device]
      BY <1>1, InvFacts
    <2>2. dev[p].size = EntrySize(dev[p].nmac, dev[p].res)
      BY <1>1, <2>1 DEF DevOK
    <2>3. CASE Close(p)
      <3>1. CASE dev[p].updated
        <4>1. WriteHeader(p) /\ dev[p].cur # Null
          BY <1>1, <2>1, <2>3, <3>1 DEF Close, DevOK
        <4>2. Newest(p)' = [part |-> p, seq |-> dev[p].seqno, used |-> dev[p].used,
                            nmac |-> dev[p].nmac, res |-> dev[p].res]
          BY <1>1, <4>1, Written
        <4>3. Newest(p)'.nmac = dev[p].nmac /\ Newest(p)'.res = dev[p].res
          BY <4>2
        <4> QED BY <2>2, <4>3
      <3>2. CASE ~ dev[p].updated
        <4>1. disk' = disk
          BY <2>3, <3>2 DEF Close
        <4>2. Newest(p)' = Newest(p)
          BY <4>1, DiskSame
        <4>3. Newest(p).nmac = dev[p].nmac /\ Newest(p).res = dev[p].res
          BY <1>1, <2>1, <3>2 DEF Careful
        <4> QED BY <2>2, <4>2, <4>3
      <3> QED BY <3>1, <3>2
    <2>4. CASE ~ Close(p)
      <3> SUFFICES dev'[p].pc # "freeing"
        BY <1>1
      <3>0. dev[p] \in Device /\ dev \in [Part -> Device] /\ Gone.pc = "closed"
        BY <1>1, <2>1 DEF Gone
      <3>1. ASSUME NEW why, Die(why) PROVE dev'[p].pc # "freeing"
        BY <3>0, <3>1 DEF Die
      <3>2. ASSUME NEW q \in Part, NEW add \in BOOLEAN, Scan(q, add)
            PROVE  dev'[p].pc # "freeing"
        <4>1. \E D : dev' = [dev EXCEPT ![q] = D]
          BY <3>2, Zenon DEF Scan
        <4>2. dev[q].pc = "closed"
          BY <3>2 DEF Scan
        <4> QED BY <1>1, <3>0, <4>1, <4>2
      <3>3. ASSUME NEW q \in Part, Claim(q) PROVE dev'[p].pc # "freeing"
        <4>1. \/ \E why : Die(why)
              \/ \E D : dev' = [dev EXCEPT ![q] = D]
          BY <3>3, Zenon DEF Claim
        <4>2. dev[q].pc = "scanned"
          BY <3>3 DEF Claim
        <4> QED BY <1>1, <3>0, <3>1, <4>1, <4>2
      <3>4. ASSUME NEW q \in Part, NEW sh \in Shapes, Resize(q, sh[1], sh[2])
            PROVE  dev'[p].pc # "freeing"
        <4>1. \/ \E why : Die(why)
              \/ \E D : dev' = [dev EXCEPT ![q] = D] /\ D.pc = dev[q].pc
          BY <1>1, <3>4, ResizeKeepsOpen
        <4> QED BY <1>1, <3>0, <3>1, <4>1
      <3>5. ASSUME NEW q \in Part, Update(q) PROVE dev'[p].pc # "freeing"
        BY <1>1, <3>0, <3>5 DEF Update, Device
      <3>6. ASSUME NEW q \in Part, NEW b \in dev[q].jug, WriteAndSelect(q, b)
            PROVE  dev'[p].pc # "freeing"
        <4>1. PICK D : D = Selected(dev[q], b)
          OBVIOUS
        <4>2. dev[q] \in Device /\ b \in Block
          BY <1>1, InvFacts, DeviceFacts
        <4>3. IsSelected(D, dev[q], b)
          BY <4>1, <4>2, SelectedFacts
        <4>4. dev' = [dev EXCEPT ![q] = D]
          BY <3>6, <4>1 DEF WriteAndSelect
        <4> QED BY <1>1, <3>0, <4>3, <4>4 DEF IsSelected
      <3>7. ASSUME NEW q \in Part, q # p, Close(q) PROVE dev'[p].pc # "freeing"
        BY <1>1, <3>0, <3>7 DEF Close
      <3>8. ASSUME NEW q \in Part, GiveBack(q) PROVE dev'[p].pc # "freeing"
        <4>1. dev' = [dev EXCEPT ![q] = Gone]
          BY <3>8 DEF GiveBack
        <4> QED BY <1>1, <3>0, <4>1
      <3>9. ASSUME Crash PROVE dev'[p].pc # "freeing"
        BY <3>1, <3>9 DEF Crash
      <3> QED BY <1>1, <2>4, <3>2, <3>3, <3>4, <3>5, <3>6, <3>7, <3>8, <3>9
          DEF PartitionsNext
    <2> QED BY <2>3, <2>4
  <1>2. PartInv /\ [PartitionsNext]_vars =>
          [\A p \in Part :
             /\ dev[p].pc = "open" /\ dev'[p].pc = "freeing"
             /\ ~ careless /\ dev[p].res <= dev[p].nmac
             => EntrySize(Newest(p)'.nmac, Newest(p)'.res) = dev[p].size]_vars
    BY <1>1
  <1> QED BY <1>2, PartitionsInvariant, PTL DEF PartitionsSpec, CloseKeepsSize

============================================================================
