------------------------ MODULE JugglerList_proofs ------------------------
(***************************************************************************)
(* Proofs about JugglerList: the scheduled list is ordered at every        *)
(* moment, the counter available_blocks is exact, and the lists, the walk  *)
(* and the rebuild of juggler.c implement Juggler.tla.                     *)
(*                                                                         *)
(* The three are proved from one inductive invariant, ListInv.             *)
(***************************************************************************)
EXTENDS JugglerList, FunctionTheorems, FiniteSetTheorems,
        WellFoundedInduction, TLAPS

(* A walk that is under way. *)
Walk == [on : {TRUE}, block : Block, pos : Nat, available : Nat,
         wasDue : BOOLEAN, oldSeq : Nat]

ListTypeOK ==
  /\ sched \in Seq(Block) /\ unsched \in Seq(Block)
  /\ seqno \in Nat
  /\ bseq \in [Block -> Nat] /\ bnext \in [Block -> Nat]
  /\ walk = Idle \/ walk \in Walk
  /\ replay \subseteq Block

(* No block is in two places, or twice in a list; a block that has never   *)
(* been written owns no slot.                                              *)
Apart ==
  /\ IsInjective(unsched)
  /\ ToSet(sched) \cap ToSet(unsched) = {}
  /\ replay \cap ToSet(sched) = {} /\ replay \cap ToSet(unsched) = {}
  /\ \A b \in ToSet(unsched) : bnext[b] = 0

(* The sequence number that is or, when the blocks are still being added,  *)
(* will be the last one handed out.                                        *)
Top == IF replay # {} THEN Notified(seqno, bseq[LastOf(replay)]) ELSE seqno

(* Every slot is still to come, and belongs to one block. *)
SlotsAhead ==
  /\ Top \in Nat
  /\ \A b \in ToSet(sched) \cup replay : bseq[b] <= Top /\ Top < bnext[b]
  /\ \A b, c \in ToSet(sched) \cup replay : bnext[b] = bnext[c] => b = c

(* The walk is at the first block of the list that does not come before    *)
(* the slot it looks at; it has counted the blocks it has passed; there is *)
(* a free slot ahead; and if no unscheduled block is left, then it has     *)
(* passed the first slot only because that slot is owned.                  *)
WalkOK ==
  walk.on =>
    /\ replay = {} /\ walk.block \notin Members
    /\ seqno > 0 /\ seqno <= MaxSeqno
    /\ seqno <= bnext[walk.block] /\ bseq[walk.block] = seqno
    /\ walk.pos \in 1..(Len(sched) + 1)
    /\ \A i \in 1..Len(sched) : i < walk.pos <=> bnext[sched[i]] < Slot
    /\ walk.available = Len(unsched) + walk.pos
    /\ \E n \in Slot..(seqno + Horizon) : \A c \in ToSet(sched) : bnext[c] # n
    /\ unsched = <<>> /\ Slot > seqno + 1
         => \E c \in ToSet(sched) : bnext[c] = seqno + 1

ListInv == ListTypeOK /\ ListOrdered /\ Apart /\ SlotsAhead /\ WalkOK

----------------------------------------------------------------------------
(* Facts about lists. *)

(* r is the list s with e linked in at position i; without the element at  *)
(* position i.                                                             *)
IsInsert(r, s, i, e) ==
  /\ Len(r) = Len(s) + 1
  /\ \A k \in 1..(i - 1) : r[k] = s[k]
  /\ r[i] = e
  /\ \A k \in i..Len(s) : r[k + 1] = s[k]

IsRemove(r, s, i) ==
  /\ Len(r) = Len(s) - 1
  /\ \A k \in 1..(i - 1) : r[k] = s[k]
  /\ \A k \in i..(Len(s) - 1) : r[k] = s[k + 1]

(* InsertAt links an element in. *)
LEMMA InsertProperties ==
  ASSUME NEW S, NEW s \in Seq(S), NEW i \in 1..(Len(s) + 1), NEW e \in S
  PROVE  InsertAt(s, i, e) \in Seq(S) /\ IsInsert(InsertAt(s, i, e), s, i, e)
  <1>1. PICK l \in Seq(S) : l = SubSeq(s, 1, i - 1)
    <2>1. SubSeq(s, 1, i - 1) \in Seq(S)
      OBVIOUS
    <2> QED BY <2>1, Zenon
  <1>2. PICK r \in Seq(S) : r = SubSeq(s, i, Len(s))
    <2>1. SubSeq(s, i, Len(s)) \in Seq(S)
      OBVIOUS
    <2> QED BY <2>1, Zenon
  <1>3. Len(l) = i - 1 /\ \A k \in 1..(i - 1) : l[k] = s[k]
    BY <1>1
  <1>4. /\ Len(r) = Len(s) - i + 1
        /\ \A k \in 1..(Len(s) - i + 1) : r[k] = s[i + k - 1]
    BY <1>2
  <1>5. PICK m \in Seq(S) : m = l \o <<e>>
    <2>1. l \o <<e>> \in Seq(S)
      OBVIOUS
    <2> QED BY <2>1, Zenon
  <1>6. Len(m) = i /\ m[i] = e /\ \A k \in 1..(i - 1) : m[k] = s[k]
    BY SMTT(30), <1>3, <1>5
  <1>7. PICK w \in Seq(S) : w = m \o r
    <2>1. m \o r \in Seq(S)
      OBVIOUS
    <2> QED BY <2>1, Zenon
  <1>8. /\ Len(w) = Len(s) + 1
        /\ \A k \in 1..i : w[k] = m[k]
        /\ \A k \in 1..(Len(s) - i + 1) : w[i + k] = r[k]
    BY <1>4, <1>6, <1>7
  <1>9. ASSUME NEW k \in i..Len(s) PROVE w[k + 1] = s[k]
    <2>1. PICK j \in 1..(Len(s) - i + 1) : i + j = k + 1 /\ i + j - 1 = k
      <3>1. k - i + 1 \in 1..(Len(s) - i + 1) /\ i + (k - i + 1) = k + 1
            /\ i + (k - i + 1) - 1 = k
        OBVIOUS
      <3> QED BY <3>1
    <2>2. w[i + j] = r[j] /\ r[j] = s[i + j - 1]
      BY <1>4, <1>8
    <2> QED BY <2>1, <2>2
  <1>10. IsInsert(w, s, i, e)
    <2>1. \A k \in 1..(i - 1) : w[k] = s[k]
      BY <1>6, <1>8
    <2>2. w[i] = e
      BY <1>6, <1>8
    <2>3. \A k \in i..Len(s) : w[k + 1] = s[k]
      BY <1>9
    <2> QED BY <1>8, <2>1, <2>2, <2>3 DEF IsInsert
  <1>11. InsertAt(s, i, e) = w
    BY <1>1, <1>2, <1>5, <1>7 DEF InsertAt
  <1> QED BY <1>10, <1>11

(* RemoveAt takes an element out. *)
LEMMA RemoveProperties ==
  ASSUME NEW S, NEW s \in Seq(S), NEW i \in 1..Len(s)
  PROVE  RemoveAt(s, i) \in Seq(S) /\ IsRemove(RemoveAt(s, i), s, i)
  <1>1. PICK l \in Seq(S) : l = SubSeq(s, 1, i - 1)
    <2>1. SubSeq(s, 1, i - 1) \in Seq(S)
      OBVIOUS
    <2> QED BY <2>1, Zenon
  <1>2. PICK r \in Seq(S) : r = SubSeq(s, i + 1, Len(s))
    <2>1. SubSeq(s, i + 1, Len(s)) \in Seq(S)
      OBVIOUS
    <2> QED BY <2>1, Zenon
  <1>3. Len(l) = i - 1 /\ \A k \in 1..(i - 1) : l[k] = s[k]
    BY <1>1
  <1>4. Len(r) = Len(s) - i /\ \A k \in 1..(Len(s) - i) : r[k] = s[i + k]
    BY <1>2
  <1>5. PICK w \in Seq(S) : w = l \o r
    <2>1. l \o r \in Seq(S)
      OBVIOUS
    <2> QED BY <2>1, Zenon
  <1>6. /\ Len(w) = Len(s) - 1
        /\ \A k \in 1..(i - 1) : w[k] = s[k]
        /\ \A k \in 1..(Len(s) - i) : w[Len(l) + k] = r[k]
    BY SMTT(30), <1>3, <1>4, <1>5
  <1>7. ASSUME NEW k \in i..(Len(s) - 1) PROVE w[k] = s[k + 1]
    <2>1. PICK j \in 1..(Len(s) - i) : Len(l) + j = k /\ i + j = k + 1
      <3>1. /\ k - i + 1 \in 1..(Len(s) - i) /\ i - 1 + (k - i + 1) = k
            /\ i + (k - i + 1) = k + 1
        OBVIOUS
      <3> QED BY <1>3, <3>1
    <2>2. w[Len(l) + j] = r[j] /\ r[j] = s[i + j]
      BY <1>4, <1>6
    <2> QED BY <2>1, <2>2
  <1>8. IsRemove(w, s, i)
    BY <1>6, <1>7 DEF IsRemove
  <1>9. RemoveAt(s, i) = w
    BY <1>1, <1>2, <1>5 DEF RemoveAt
  <1> QED BY <1>8, <1>9

(* The members of a list. *)
LEMMA Listed ==
  ASSUME NEW S, NEW s \in Seq(S)
  PROVE  /\ ToSet(s) \subseteq S
         /\ \A i \in 1..Len(s) : s[i] \in ToSet(s) /\ s[i] \in S
         /\ \A b \in ToSet(s) : \E i \in 1..Len(s) : s[i] = b
  BY DEF ToSet

(* The members of a list to which an element is added. *)
LEMMA InsertMembers ==
  ASSUME NEW S, NEW s \in Seq(S), NEW i \in 1..(Len(s) + 1), NEW e \in S,
         NEW r \in Seq(S), IsInsert(r, s, i, e)
  PROVE  ToSet(r) = ToSet(s) \cup {e}
  <1>1. ASSUME NEW b \in ToSet(r) PROVE b \in ToSet(s) \cup {e}
    <2>1. PICK k \in 1..Len(r) : r[k] = b
      BY <1>1, Listed
    <2>2. CASE k < i
      <3>1. b = s[k] /\ k \in 1..Len(s)
        BY <2>1, <2>2 DEF IsInsert
      <3> QED BY <3>1, Listed
    <2>3. CASE k = i
      BY <2>1, <2>3 DEF IsInsert
    <2>4. CASE k > i
      <3>1. k - 1 \in i..Len(s) /\ (k - 1) + 1 = k /\ k - 1 \in 1..Len(s)
        BY <2>4 DEF IsInsert
      <3>2. b = s[k - 1]
        BY <2>1, <3>1 DEF IsInsert
      <3> QED BY <3>1, <3>2, Listed
    <2> QED BY <2>2, <2>3, <2>4
  <1>2. e \in ToSet(r)
    <2>1. r[i] = e /\ i \in 1..Len(r)
      BY DEF IsInsert
    <2> QED BY <2>1, Listed
  <1>3. ASSUME NEW b \in ToSet(s) PROVE b \in ToSet(r)
    <2>1. PICK k \in 1..Len(s) : s[k] = b
      BY <1>3, Listed
    <2>2. \/ r[k] = b /\ k \in 1..Len(r)
          \/ r[k + 1] = b /\ k + 1 \in 1..Len(r)
      BY <2>1 DEF IsInsert
    <2> QED BY <2>2, Listed
  <1> QED BY <1>1, <1>2, <1>3

(* The members of a list from which an element is taken. *)
LEMMA RemoveMembers ==
  ASSUME NEW S, NEW s \in Seq(S), IsInjective(s), NEW i \in 1..Len(s),
         NEW r \in Seq(S), IsRemove(r, s, i)
  PROVE  ToSet(r) = ToSet(s) \ {s[i]} /\ IsInjective(r)
  <1>1. \A j, k \in 1..Len(s) : s[j] = s[k] => j = k
    BY DEF IsInjective
  <1>2. \A k \in 1..Len(r) : \/ r[k] = s[k] /\ k < i
                             \/ r[k] = s[k + 1] /\ k >= i
    BY DEF IsRemove
  <1>3. Len(r) = Len(s) - 1
    BY DEF IsRemove
  <1>4. ASSUME NEW b \in ToSet(r) PROVE b \in ToSet(s) \ {s[i]}
    <2>1. PICK k \in 1..Len(r) : r[k] = b
      BY <1>4, Listed
    <2>2. \/ b = s[k] /\ k \in 1..Len(s) /\ k # i
          \/ b = s[k + 1] /\ k + 1 \in 1..Len(s) /\ k + 1 # i
      BY <1>2, <1>3, <2>1
    <2> QED BY <1>1, <2>2, Listed
  <1>5. ASSUME NEW b \in ToSet(s) \ {s[i]} PROVE b \in ToSet(r)
    <2>1. PICK k \in 1..Len(s) : s[k] = b
      BY <1>5, Listed
    <2>2. CASE k < i
      <3>1. r[k] = b /\ k \in 1..Len(r)
        BY <2>1, <2>2 DEF IsRemove
      <3> QED BY <3>1, Listed
    <2>3. CASE k > i
      <3>1. k - 1 \in i..(Len(s) - 1) /\ (k - 1) + 1 = k /\ k - 1 \in 1..Len(r)
        BY <1>3, <2>3
      <3>2. r[k - 1] = b
        BY <2>1, <3>1 DEF IsRemove
      <3> QED BY <3>1, <3>2, Listed
    <2> QED BY <1>5, <2>1, <2>2, <2>3
  <1>6. IsInjective(r)
    <2> SUFFICES ASSUME NEW j \in 1..Len(r), NEW k \in 1..Len(r), r[j] = r[k]
                 PROVE  j = k
      BY DEF IsInjective
    <2> QED BY <1>1, <1>2, <1>3
  <1> QED BY <1>4, <1>5, <1>6

(* The head of a list is taken out by Tail. *)
LEMMA TailProperties ==
  ASSUME NEW S, NEW s \in Seq(S), s # <<>>
  PROVE  /\ Tail(s) \in Seq(S) /\ IsRemove(Tail(s), s, 1)
         /\ Len(s) >= 1 /\ Head(s) = s[1] /\ 1 \in 1..Len(s)
  <1>1. Len(s) \in Nat /\ Len(s) # 0
    OBVIOUS
  <1>2. /\ Tail(s) \in Seq(S) /\ Len(Tail(s)) = Len(s) - 1
        /\ \A k \in 1..(Len(s) - 1) : Tail(s)[k] = s[k + 1]
    OBVIOUS
  <1>3. Head(s) = s[1]
    OBVIOUS
  <1> QED BY <1>1, <1>2, <1>3 DEF IsRemove

(* The list s is strictly ordered by f. *)
Ordered(s, f) == \A i, k \in 1..Len(s) : i < k => f[s[i]] < f[s[k]]

(* A strictly ordered list has no block twice. *)
LEMMA OrderedInjective ==
  ASSUME NEW s \in Seq(Block), NEW f \in [Block -> Nat], Ordered(s, f)
  PROVE  IsInjective(s)
  <1> SUFFICES ASSUME NEW i \in 1..Len(s), NEW k \in 1..Len(s), s[i] = s[k]
               PROVE  i = k
    BY DEF IsInjective
  <1>1. s[i] \in Block /\ f[s[i]] \in Nat
    OBVIOUS
  <1>2. ~ (i < k) /\ ~ (k < i)
    BY <1>1 DEF Ordered
  <1> QED BY <1>2

(* The order does not depend on blocks that are not in the list. *)
LEMMA OrderedElsewhere ==
  ASSUME NEW s \in Seq(Block), NEW f, NEW g,
         \A b \in ToSet(s) : g[b] = f[b],
         Ordered(s, f)
  PROVE  Ordered(s, g)
  <1>1. \A i \in 1..Len(s) : g[s[i]] = f[s[i]]
    BY Listed
  <1> QED BY <1>1 DEF Ordered

(* A block linked in between the earlier and the later ones. *)
LEMMA InsertOrdered ==
  ASSUME NEW s \in Seq(Block), NEW f \in [Block -> Nat], Ordered(s, f),
         NEW i \in 1..(Len(s) + 1), NEW e \in Block,
         NEW r \in Seq(Block), IsInsert(r, s, i, e),
         \A k \in 1..Len(s) : k < i => f[s[k]] < f[e],
         \A k \in 1..Len(s) : k >= i => f[e] < f[s[k]]
  PROVE  Ordered(r, f)
  <1> SUFFICES ASSUME NEW j \in 1..Len(r), NEW k \in 1..Len(r), j < k
               PROVE  f[r[j]] < f[r[k]]
    BY DEF Ordered
  <1>n. Len(s) \in Nat /\ Len(r) = Len(s) + 1
    BY DEF IsInsert
  <1>t. f[e] \in Nat /\ \A x \in 1..Len(s) : f[s[x]] \in Nat
    OBVIOUS
  <1>1. ASSUME NEW x \in 1..Len(r)
        PROVE  \/ x < i /\ x \in 1..Len(s) /\ r[x] = s[x]
               \/ x = i /\ r[x] = e
               \/ x > i /\ \E y \in 1..Len(s) : y = x - 1 /\ r[x] = s[y]
    <2>1. CASE x < i
      <3>1. x \in 1..(i - 1) /\ x \in 1..Len(s)
        BY <1>n, <2>1
      <3> QED BY <2>1, <3>1 DEF IsInsert
    <2>2. CASE x = i
      BY <2>2 DEF IsInsert
    <2>3. CASE x > i
      <3>1. PICK y \in i..Len(s) : y = x - 1 /\ y + 1 = x /\ y \in 1..Len(s)
        BY <1>n, <2>3
      <3>2. r[y + 1] = s[y]
        BY <3>1 DEF IsInsert
      <3> QED BY <2>3, <3>1, <3>2
    <2> QED BY <1>n, <2>1, <2>2, <2>3
  <1>2. CASE j < i
    <2>1. j \in 1..Len(s) /\ r[j] = s[j]
      BY <1>1, <1>2
    <2>2. CASE k < i
      <3>1. k \in 1..Len(s) /\ r[k] = s[k]
        BY <1>1, <2>2
      <3> QED BY <2>1, <3>1 DEF Ordered
    <2>3. CASE k = i
      BY <1>1, <1>2, <2>1, <2>3
    <2>4. CASE k > i
      <3>1. PICK y \in 1..Len(s) : y = k - 1 /\ r[k] = s[y]
        BY <1>1, <2>4
      <3>2. j < y
        BY <1>2, <2>4, <3>1
      <3> QED BY <2>1, <3>1, <3>2 DEF Ordered
    <2> QED BY <1>n, <2>2, <2>3, <2>4
  <1>3. CASE j >= i
    <2>1. PICK y \in 1..Len(s) : y = k - 1 /\ r[k] = s[y]
      BY SMTT(30), <1>1, <1>3
    <2>2. CASE j = i
      BY SMTT(30), <1>1, <2>1, <2>2
    <2>3. CASE j > i
      <3>1. PICK x \in 1..Len(s) : x = j - 1 /\ r[j] = s[x]
        BY <1>1, <2>3
      <3>2. x < y
        BY <2>1, <3>1
      <3> QED BY <2>1, <3>1, <3>2 DEF Ordered
    <2> QED BY <1>3, <1>n, <2>2, <2>3
  <1> QED BY <1>n, <1>2, <1>3

(* A block taken out of an ordered list. *)
LEMMA RemoveOrdered ==
  ASSUME NEW s \in Seq(Block), NEW f, Ordered(s, f),
         NEW i \in 1..Len(s), NEW r \in Seq(Block), IsRemove(r, s, i)
  PROVE  Ordered(r, f)
  <1> SUFFICES ASSUME NEW j \in 1..Len(r), NEW k \in 1..Len(r), j < k
               PROVE  f[r[j]] < f[r[k]]
    BY DEF Ordered
  <1>n. Len(s) \in Nat /\ Len(r) = Len(s) - 1
    BY DEF IsRemove
  <1>1. ASSUME NEW x \in 1..Len(r)
        PROVE  \E y \in 1..Len(s) : /\ r[x] = s[y]
                                    /\ y = IF x < i THEN x ELSE x + 1
    <2>1. CASE x < i
      BY <1>n, <2>1 DEF IsRemove
    <2>2. CASE x >= i
      <3>1. x \in i..(Len(s) - 1) /\ x + 1 \in 1..Len(s)
        BY <1>n, <2>2
      <3>2. r[x] = s[x + 1]
        BY <3>1 DEF IsRemove
      <3> QED BY <2>2, <3>1, <3>2
    <2> QED BY <1>n, <2>1, <2>2
  <1>2. PICK y \in 1..Len(s) : r[j] = s[y] /\ y = IF j < i THEN j ELSE j + 1
    BY <1>1
  <1>3. PICK z \in 1..Len(s) : r[k] = s[z] /\ z = IF k < i THEN k ELSE k + 1
    BY <1>1
  <1>4. y < z
    BY <1>2, <1>3
  <1> QED BY <1>2, <1>3, <1>4 DEF Ordered

(* How many members a list without repetitions has, from position p on. *)
LEMMA CountFrom ==
  ASSUME NEW s \in Seq(Block), IsInjective(s), NEW p \in 1..(Len(s) + 1)
  PROVE  /\ IsFiniteSet({s[k] : k \in p..Len(s)})
         /\ Cardinality({s[k] : k \in p..Len(s)}) = Len(s) + 1 - p
  <1> DEFINE D == p..Len(s)
             T == {s[k] : k \in p..Len(s)}
             f == [k \in D |-> s[k]]
  <1>1. \A j, k \in 1..Len(s) : s[j] = s[k] => j = k
    BY DEF IsInjective
  <1>2. f \in [D -> T]
    OBVIOUS
  <1>3. \A j, k \in D : f[j] = f[k] => j = k
    BY <1>1
  <1>4. \A t \in T : \E k \in D : f[k] = t
    OBVIOUS
  <1>5. f \in Bijection(D, T)
    BY <1>2, <1>3, <1>4, Fun_IsBij, Zenon
  <1>6. ExistsBijection(D, T)
    BY <1>5 DEF ExistsBijection
  <1>7. IsFiniteSet(D) /\ Cardinality(D) = Len(s) + 1 - p
    <2>1. p \in Int /\ Len(s) \in Int /\ p <= Len(s) + 1
      OBVIOUS
    <2>2. /\ IsFiniteSet(D)
          /\ Cardinality(D) = IF p > Len(s) THEN 0 ELSE Len(s) - p + 1
      BY <2>1, FS_Interval
    <2> QED BY <2>1, <2>2
  <1> QED BY <1>6, <1>7, FS_Bijection

(* The members of a list that is extended at its head. *)
LEMMA Prepend ==
  ASSUME NEW s \in Seq(Block), IsInjective(s), NEW e \in Block,
         e \notin ToSet(s)
  PROVE  /\ <<e>> \o s \in Seq(Block)
         /\ ToSet(<<e>> \o s) = ToSet(s) \cup {e}
         /\ IsInjective(<<e>> \o s)
  <1>1. PICK r \in Seq(Block) : r = <<e>> \o s
    <2>1. <<e>> \o s \in Seq(Block)
      OBVIOUS
    <2> QED BY <2>1, Zenon
  <1>2. /\ Len(r) = Len(s) + 1 /\ r[1] = e
        /\ \A k \in 1..Len(s) : r[k + 1] = s[k]
    BY <1>1
  <1>3. IsInsert(r, s, 1, e) /\ 1 \in 1..(Len(s) + 1)
    BY <1>2 DEF IsInsert
  <1>4. ToSet(r) = ToSet(s) \cup {e}
    BY <1>3, InsertMembers
  <1>5. ASSUME NEW j \in 1..Len(r), NEW k \in 1..Len(r), r[j] = r[k]
        PROVE  j = k
    <2>1. \A x \in 1..Len(r) : x = 1 \/ \E y \in 1..Len(s) : y + 1 = x
      <3>1. ASSUME NEW x \in 1..Len(r), x # 1
            PROVE  x - 1 \in 1..Len(s) /\ (x - 1) + 1 = x
        BY <1>2, <3>1
      <3> QED BY <3>1
    <2>2. \A y \in 1..Len(s) : s[y] \in ToSet(s) /\ r[y + 1] # e
      BY <1>2, Listed
    <2>3. CASE j = 1 \/ k = 1
      BY <1>2, <1>5, <2>1, <2>2, <2>3
    <2>4. CASE j # 1 /\ k # 1
      <3>1. PICK x \in 1..Len(s), y \in 1..Len(s) : x + 1 = j /\ y + 1 = k
        BY <2>1, <2>4
      <3>2. s[x] = s[y]
        BY <1>2, <1>5, <3>1
      <3> QED BY <3>1, <3>2 DEF IsInjective
    <2> QED BY <2>3, <2>4
  <1>6. IsInjective(r)
    BY <1>5 DEF IsInjective
  <1> QED BY <1>1, <1>4, <1>6

(* The head of an ordered list comes first. *)
LEMMA HeadFirst ==
  ASSUME NEW s \in Seq(Block), NEW f \in [Block -> Nat], Ordered(s, f),
         NEW b \in ToSet(s)
  PROVE  s # <<>> /\ (b = Head(s) \/ f[Head(s)] < f[b])
  <1>1. PICK k \in 1..Len(s) : s[k] = b
    BY Listed
  <1>2. s # <<>> /\ Head(s) = s[1] /\ 1 \in 1..Len(s)
    BY <1>1
  <1>3. k = 1 \/ 1 < k
    OBVIOUS
  <1> QED BY <1>1, <1>2, <1>3 DEF Ordered

(* Fewer blocks than slots leave a slot free. *)
LEMMA FreeSlot ==
  ASSUME NEW X \in SUBSET Block, NEW b \in Block, b \notin X,
         NEW f \in [Block -> Nat], NEW m \in Nat
  PROVE  \E n \in (m + 1)..(m + Horizon) : \A c \in X : f[c] # n
  <1> SUFFICES ASSUME \A n \in (m + 1)..(m + Horizon) : \E c \in X : f[c] = n
               PROVE  FALSE
    OBVIOUS
  <1>0. PICK D : D = (m + 1)..(m + Horizon)
    OBVIOUS
  <1>1. Horizon \in Nat /\ IsFiniteSet(Block) /\ Cardinality(Block) <= Horizon
    BY ListAssumption
  <1>2. PICK g \in [D -> X] : \A n \in D : f[g[n]] = n
    <2> DEFINE h == [n \in D |-> CHOOSE c \in X : f[c] = n]
    <2>1. \A n \in D : \E c \in X : f[c] = n
      BY <1>0
    <2>2. h \in [D -> X] /\ \A n \in D : f[h[n]] = n
      BY <2>1
    <2> QED BY <2>2
  <1>3. IsFiniteSet(D) /\ Cardinality(D) = Horizon
    <2>1. m + 1 \in Int /\ m + Horizon \in Int
      BY <1>1
    <2>2. /\ IsFiniteSet(D)
          /\ Cardinality(D) = IF m + 1 > m + Horizon THEN 0
                              ELSE (m + Horizon) - (m + 1) + 1
      BY <1>0, <2>1, FS_Interval
    <2> QED BY <1>1, <2>2
  <1>4. IsFiniteSet(X) /\ Cardinality(X) < Horizon
    <2>1. X \in SUBSET (Block \ {b})
      OBVIOUS
    <2>2. /\ IsFiniteSet(Block \ {b})
          /\ Cardinality(Block \ {b}) = Cardinality(Block) - 1
      BY <1>1, FS_RemoveElement
    <2>3. IsFiniteSet(X) /\ Cardinality(X) <= Cardinality(Block \ {b})
      BY <2>1, <2>2, FS_Subset
    <2>4. Cardinality(X) \in Nat /\ Cardinality(Block) \in Nat
      BY <1>1, <2>3, FS_CardinalityType
    <2> QED BY <1>1, <2>2, <2>3, <2>4
  <1>5. PICK x \in D, y \in D : x # y /\ g[x] = g[y]
    <2>1. Cardinality(X) < Cardinality(D)
      BY <1>3, <1>4
    <2> QED BY <1>3, <1>4, <2>1, FS_PigeonHole
  <1> QED BY <1>2, <1>5

(* A set of numbers that is not empty has a least one. *)
LEMMA LeastNumber ==
  ASSUME NEW T \in SUBSET Nat, T # {}
  PROVE  \E t \in T : \A u \in T : t <= u
  <1>1. PICK t \in T : \A u \in T : ~ (<<u, t>> \in OpToRel(<, Nat))
    BY NatLessThanWellFounded, WFMin
  <1>2. \A u \in T : ~ (u < t)
    BY <1>1 DEF OpToRel
  <1> QED BY <1>2

(* The replay list has a last block. *)
LEMMA LastExists ==
  ASSUME bseq \in [Block -> Nat], NEW r \in SUBSET Block, r # {},
         NEW m \in Nat, \A c \in r : bseq[c] <= m
  PROVE  LastOf(r) \in r /\ \A c \in r : bseq[c] <= bseq[LastOf(r)]
  <1> DEFINE T == {m - bseq[c] : c \in r}
  <1>1. \A c \in r : bseq[c] \in Nat /\ m - bseq[c] \in Nat
    OBVIOUS
  <1>2. T \in SUBSET Nat /\ T # {}
    BY <1>1
  <1>3. PICK t \in T : \A u \in T : t <= u
    BY <1>2, LeastNumber
  <1>4. PICK b \in r : t = m - bseq[b]
    OBVIOUS
  <1>5. ASSUME NEW c \in r PROVE bseq[c] <= bseq[b]
    <2>1. m - bseq[b] <= m - bseq[c]
      BY <1>3, <1>4
    <2> QED BY <1>1, <2>1
  <1> QED BY <1>5 DEF LastOf

(* The place that the loop of juggler_add_macroblock looks for exists. *)
LEMMA PlaceExists ==
  ASSUME NEW s \in Seq(Block), bnext \in [Block -> Nat], NEW b \in Block
  PROVE  \E p \in 1..(Len(s) + 1) :
           /\ \A i \in 1..(p - 1) : bnext[s[i]] < bnext[b]
           /\ p <= Len(s) => bnext[s[p]] >= bnext[b]
  <1> DEFINE T == {p \in 1..(Len(s) + 1) : p <= Len(s) => bnext[s[p]] >= bnext[b]}
  <1>1. T \in SUBSET Nat /\ Len(s) + 1 \in T
    OBVIOUS
  <1>2. PICK p \in T : \A u \in T : p <= u
    BY <1>1, LeastNumber
  <1>3. ASSUME NEW i \in 1..(p - 1) PROVE bnext[s[i]] < bnext[b]
    <2>1. i \notin T /\ i \in 1..Len(s)
      BY <1>2
    <2>2. bnext[s[i]] \in Nat /\ bnext[b] \in Nat
      BY <2>1
    <2> QED BY <2>1, <2>2
  <1> QED BY <1>3

(* juggler_add_macroblock keeps the list in order when the slot of the new *)
(* block is its own.                                                       *)
LEMMA InsertSortedProperties ==
  ASSUME NEW s \in Seq(Block), bnext \in [Block -> Nat], Ordered(s, bnext),
         NEW b \in Block, \A c \in ToSet(s) : bnext[c] # bnext[b]
  PROVE  /\ InsertSorted(s, b) \in Seq(Block)
         /\ ToSet(InsertSorted(s, b)) = ToSet(s) \cup {b}
         /\ Ordered(InsertSorted(s, b), bnext)
  <1>1. PICK p \in 1..(Len(s) + 1) :
          /\ \A i \in 1..(p - 1) : bnext[s[i]] < bnext[b]
          /\ p <= Len(s) => bnext[s[p]] >= bnext[b]
          /\ InsertSorted(s, b) = InsertAt(s, p, b)
    BY PlaceExists DEF InsertSorted
  <1>2. PICK r \in Seq(Block) : r = InsertAt(s, p, b) /\ IsInsert(r, s, p, b)
    BY InsertProperties
  <1>3. \A i \in 1..Len(s) : i < p => bnext[s[i]] < bnext[b]
    BY <1>1
  <1>4. ASSUME NEW i \in 1..Len(s), i >= p PROVE bnext[b] < bnext[s[i]]
    <2>1. /\ bnext[s[i]] \in Nat /\ bnext[b] \in Nat /\ p \in 1..Len(s)
          /\ bnext[s[p]] \in Nat
      BY <1>4
    <2>2. bnext[s[i]] # bnext[b]
      BY Listed
    <2>3. bnext[s[p]] <= bnext[s[i]]
      BY SMTT(30), <1>4, <2>1 DEF Ordered
    <2> QED BY <1>1, <2>1, <2>2, <2>3
  <1>5. Ordered(r, bnext)
    BY <1>2, <1>3, <1>4, InsertOrdered
  <1>6. ToSet(r) = ToSet(s) \cup {b}
    BY <1>2, InsertMembers
  <1> QED BY <1>1, <1>2, <1>5, <1>6

----------------------------------------------------------------------------
(* The inductive invariant. *)

(* The empty list. *)
LEMMA Empty ==
  /\ <<>> \in Seq(Block) /\ ToSet(<<>>) = {} /\ IsInjective(<<>>)
  /\ Len(<<>>) = 0
  /\ \A f : Ordered(<<>>, f)
  BY DEF ToSet, IsInjective, Ordered

(* ListOrdered is the order of the scheduled list by slot. *)
LEMMA OrderedSame ==
  ASSUME sched \in Seq(Block)
  PROVE  ListOrdered <=> Ordered(sched, bnext)
  BY DEF ListOrdered, Ordered

(* The same in the next state. *)
LEMMA OrderedSameNext ==
  ASSUME sched' \in Seq(Block)
  PROVE  ListOrdered' <=> Ordered(sched', bnext')
  BY DEF ListOrdered, Ordered

(* The invariant, with the facts about lists spelt out. *)
LEMMA InvFacts ==
  ASSUME ListInv
  PROVE  /\ sched \in Seq(Block) /\ unsched \in Seq(Block)
         /\ seqno \in Nat /\ replay \in SUBSET Block
         /\ bseq \in [Block -> Nat] /\ bnext \in [Block -> Nat]
         /\ Ordered(sched, bnext) /\ IsInjective(sched)
         /\ ToSet(sched) \subseteq Block /\ ToSet(unsched) \subseteq Block
         /\ walk.on \in BOOLEAN
         /\ ~ walk.on => walk = Idle
         /\ walk.on => walk \in Walk
  <1>1. ListTypeOK
    BY DEF ListInv
  <1>2. Ordered(sched, bnext)
    BY <1>1, OrderedSame DEF ListInv, ListTypeOK
  <1>3. IsInjective(sched)
    BY <1>1, <1>2, OrderedInjective DEF ListTypeOK
  <1>4. ToSet(sched) \subseteq Block /\ ToSet(unsched) \subseteq Block
    BY <1>1, Listed DEF ListTypeOK
  <1>5. /\ walk.on \in BOOLEAN
        /\ ~ walk.on => walk = Idle
        /\ walk.on => walk \in Walk
    <2>1. CASE walk = Idle
      <3>1. walk.on = FALSE
        BY <2>1 DEF Idle
      <3> QED BY <2>1, <3>1
    <2>2. CASE walk \in Walk
      <3>1. walk.on = TRUE
        BY <2>2 DEF Walk
      <3> QED BY <2>2, <3>1
    <2> QED BY <1>1, <2>1, <2>2 DEF ListTypeOK
  <1> QED BY <1>1, <1>2, <1>3, <1>4, <1>5 DEF ListTypeOK

(* The empty juggler. *)
LEMMA ListInvInit == ListInit => ListInv
  <1> SUFFICES ASSUME ListInit PROVE ListInv
    OBVIOUS
  <1> USE DEF ListInit
  <1>1. ListTypeOK
    BY Empty DEF ListTypeOK
  <1>2. ListOrdered
    BY <1>1, Empty, OrderedSame DEF ListTypeOK
  <1>3. Apart
    BY Empty DEF Apart
  <1>4. SlotsAhead
    BY Empty DEF SlotsAhead, Top
  <1>5. WalkOK
    BY DEF WalkOK, Idle
  <1> QED BY <1>1, <1>2, <1>3, <1>4, <1>5 DEF ListInv

(* A new block joins the unscheduled list. *)
LEMMA ListInvAdd ==
  ASSUME ListInv, NEW b \in Block, Add(b)
  PROVE  ListInv'
  <1> USE DEF Add, Ready
  <1>1. /\ b \notin ToSet(sched) /\ b \notin ToSet(unsched) /\ replay = {}
        /\ IsInjective(unsched)
    BY DEF Members, ListInv, Apart
  <1>2. /\ unsched' \in Seq(Block) /\ IsInjective(unsched')
        /\ ToSet(unsched') = ToSet(unsched) \cup {b}
    BY <1>1, InvFacts, Prepend
  <1>3. bseq' \in [Block -> Nat] /\ bnext' \in [Block -> Nat]
    BY InvFacts
  <1>4. bnext'[b] = 0
        /\ \A c \in Block \ {b} : bnext'[c] = bnext[c] /\ bseq'[c] = bseq[c]
    BY InvFacts
  <1>5. ListTypeOK'
    BY <1>2, <1>3, InvFacts DEF ListTypeOK, ListInv
  <1>6. ListOrdered'
    <2>1. \A c \in ToSet(sched) : bnext'[c] = bnext[c]
      BY <1>1, <1>4, InvFacts
    <2>2. Ordered(sched, bnext')
      BY <2>1, InvFacts, OrderedElsewhere
    <2> QED BY <2>2, InvFacts, OrderedSameNext
  <1>7. Apart'
    BY <1>1, <1>2, <1>4, InvFacts DEF Apart, ListInv
  <1>8. SlotsAhead'
    <2>1. Top = seqno /\ Top' = seqno
      BY <1>1 DEF Top
    <2> QED BY <1>1, <1>4, <2>1, InvFacts DEF SlotsAhead, ListInv
  <1>9. WalkOK'
    BY DEF WalkOK
  <1> QED BY <1>5, <1>6, <1>7, <1>8, <1>9 DEF ListInv

(* The block that is due is the head of the list, and no other block has   *)
(* the next slot.                                                          *)
LEMMA SelectDue ==
  ASSUME ListInv, Ready, HeadIsDue
  PROVE  /\ Head(sched) \in Block /\ Head(sched) \in ToSet(sched)
         /\ bnext[Head(sched)] = seqno + 1
         /\ Tail(sched) \in Seq(Block) /\ Ordered(Tail(sched), bnext)
         /\ ToSet(Tail(sched)) = ToSet(sched) \ {Head(sched)}
         /\ \A c \in ToSet(sched) \ {Head(sched)} : seqno + 1 < bnext[c]
  <1>1. sched # <<>> /\ bnext[Head(sched)] = seqno + 1
    BY DEF HeadIsDue
  <1>2. /\ Tail(sched) \in Seq(Block) /\ IsRemove(Tail(sched), sched, 1)
        /\ Head(sched) = sched[1] /\ 1 \in 1..Len(sched)
    BY <1>1, InvFacts, TailProperties
  <1>3. ToSet(Tail(sched)) = ToSet(sched) \ {Head(sched)}
    <2>1. PICK r \in Seq(Block) : r = Tail(sched)
      BY <1>2
    <2>2. PICK s \in Seq(Block) : s = sched /\ IsInjective(s)
      BY InvFacts
    <2>3. IsRemove(r, s, 1) /\ 1 \in 1..Len(s)
      BY <1>2, <2>1, <2>2
    <2>4. ToSet(r) = ToSet(s) \ {s[1]}
      BY <2>2, <2>3, RemoveMembers
    <2> QED BY <1>2, <2>1, <2>2, <2>4
  <1>4. Ordered(Tail(sched), bnext)
    BY <1>2, InvFacts, RemoveOrdered
  <1>5. Head(sched) \in ToSet(sched) /\ Head(sched) \in Block
    BY <1>2, InvFacts, Listed
  <1>6. \A c \in ToSet(sched) \ {Head(sched)} : seqno + 1 < bnext[c]
    BY <1>1, InvFacts, HeadFirst
  <1> QED BY <1>1, <1>2, <1>3, <1>4, <1>5, <1>6

(* If the head is not due, then no block is. *)
LEMMA NoneDue ==
  ASSUME ListInv, Ready, ~ HeadIsDue
  PROVE  \A c \in ToSet(sched) : seqno + 1 < bnext[c]
  <1> SUFFICES ASSUME NEW c \in ToSet(sched)
               PROVE  seqno + 1 < bnext[c]
    OBVIOUS
  <1>1. sched # <<>> /\ (c = Head(sched) \/ bnext[Head(sched)] < bnext[c])
    BY InvFacts, HeadFirst
  <1>2. Head(sched) \in ToSet(sched)
    <2>1. Head(sched) = sched[1] /\ 1 \in 1..Len(sched)
      BY <1>1, InvFacts, TailProperties
    <2> QED BY <2>1, InvFacts, Listed
  <1>3. seqno < bnext[Head(sched)]
    BY <1>2 DEF Ready, ListInv, SlotsAhead, Top
  <1>4. bnext[Head(sched)] # seqno + 1
    BY <1>1 DEF HeadIsDue
  <1>5. bnext[Head(sched)] \in Nat /\ bnext[c] \in Nat /\ seqno \in Nat
    BY <1>2, InvFacts
  <1> QED BY <1>1, <1>3, <1>4, <1>5

(* An unscheduled block is taken out of its list. *)
LEMMA TakeOut ==
  ASSUME ListInv, NEW i \in 1..Len(unsched)
  PROVE  /\ unsched[i] \in Block /\ unsched[i] \in ToSet(unsched)
         /\ bnext[unsched[i]] = 0
         /\ RemoveAt(unsched, i) \in Seq(Block)
         /\ IsInjective(RemoveAt(unsched, i))
         /\ ToSet(RemoveAt(unsched, i)) = ToSet(unsched) \ {unsched[i]}
  <1>1. unsched \in Seq(Block) /\ IsInjective(unsched)
    BY InvFacts DEF ListInv, Apart
  <1>2. PICK r \in Seq(Block) : r = RemoveAt(unsched, i) /\ IsRemove(r, unsched, i)
    BY <1>1, RemoveProperties
  <1>3. ToSet(r) = ToSet(unsched) \ {unsched[i]} /\ IsInjective(r)
    BY <1>1, <1>2, RemoveMembers
  <1>4. unsched[i] \in Block /\ unsched[i] \in ToSet(unsched)
    BY <1>1, Listed
  <1>5. bnext[unsched[i]] = 0
    BY <1>4 DEF ListInv, Apart
  <1> QED BY <1>2, <1>3, <1>4, <1>5

(* What is left after the block b was taken out of the juggler. *)
Without(b) ==
  /\ sched' \in Seq(Block) /\ unsched' \in Seq(Block)
  /\ IsInjective(unsched') /\ Ordered(sched', bnext)
  /\ ToSet(sched') \subseteq ToSet(sched) \ {b}
  /\ ToSet(unsched') \subseteq ToSet(unsched) \ {b}

(* juggler_get_devblock takes the block that it selects out of its list,   *)
(* and the remaining slots are later than the new sequence number.         *)
LEMMA BeginSelects ==
  ASSUME ListInv, NEW i \in 1..(Len(unsched) + 1), Begin(i)
  PROVE  \E b \in Block :
           /\ Without(b)
           /\ \A c \in ToSet(sched') : seqno + 1 < bnext[c]
           /\ walk' = [on |-> TRUE, block |-> b, pos |-> 1,
                       available |-> Len(unsched') + 1,
                       wasDue |-> HeadIsDue, oldSeq |-> bseq[b]]
           /\ bseq' = [bseq EXCEPT ![b] = seqno + 1]
           /\ bnext' = [bnext EXCEPT ![b] = seqno + 1]
  <1> USE DEF Begin, FirstAvailable
  <1>1. ToSet(sched) \cap ToSet(unsched) = {} /\ IsInjective(unsched)
    BY DEF ListInv, Apart
  <1>2. CASE HeadIsDue
    <2>1. sched' = Tail(sched) /\ unsched' = unsched
      BY <1>2
    <2>2. Without(Head(sched))
      BY <1>1, <1>2, <2>1, SelectDue, InvFacts DEF Without
    <2>3. \A c \in ToSet(sched') : seqno + 1 < bnext[c]
      BY <1>2, <2>1, SelectDue
    <2> QED BY <1>2, <2>2, <2>3, SelectDue
  <1>3. CASE ~ HeadIsDue
    <2>1. /\ i \in 1..Len(unsched)
          /\ sched' = sched /\ unsched' = RemoveAt(unsched, i)
      BY <1>3
    <2>2. Without(unsched[i])
      BY <1>1, <2>1, TakeOut, InvFacts DEF Without
    <2>3. \A c \in ToSet(sched') : seqno + 1 < bnext[c]
      BY <1>3, <2>1, NoneDue
    <2> QED BY <1>3, <2>1, <2>2, <2>3, TakeOut
  <1> QED BY <1>2, <1>3

(* The start of a walk. *)
LEMMA ListInvBegin ==
  ASSUME ListInv, NEW i \in 1..(Len(unsched) + 1), Begin(i)
  PROVE  ListInv'
  <1>1. PICK b \in Block :
          /\ Without(b)
          /\ \A c \in ToSet(sched') : seqno + 1 < bnext[c]
          /\ walk' = [on |-> TRUE, block |-> b, pos |-> 1,
                      available |-> Len(unsched') + 1,
                      wasDue |-> HeadIsDue, oldSeq |-> bseq[b]]
          /\ bseq' = [bseq EXCEPT ![b] = seqno + 1]
          /\ bnext' = [bnext EXCEPT ![b] = seqno + 1]
    BY BeginSelects
  <1>2. /\ replay = {} /\ replay' = {} /\ seqno' = seqno + 1
        /\ seqno < MaxSeqno /\ seqno' \in Nat
    BY InvFacts DEF Begin, Ready
  <1>3. /\ bseq' \in [Block -> Nat] /\ bnext' \in [Block -> Nat]
        /\ bnext'[b] = seqno + 1 /\ bseq'[b] = seqno + 1
        /\ \A c \in Block \ {b} : bnext'[c] = bnext[c] /\ bseq'[c] = bseq[c]
    BY <1>1, InvFacts
  <1>4. /\ ToSet(sched') \subseteq Block \ {b} /\ ToSet(unsched') \subseteq Block \ {b}
        /\ ToSet(sched') \cap ToSet(unsched') = {}
    BY <1>1, InvFacts DEF Without, ListInv, Apart
  <1>5. ListTypeOK'
    <2>1. bseq[b] \in Nat /\ Len(unsched') + 1 \in Nat /\ HeadIsDue \in BOOLEAN
      BY <1>1, InvFacts DEF Without, HeadIsDue
    <2>2. walk' \in Walk
      BY <1>1, <2>1 DEF Walk
    <2> QED BY <1>1, <1>2, <1>3, <2>2 DEF ListTypeOK, Without
  <1>6. ListOrdered'
    <2>1. \A c \in ToSet(sched') : bnext'[c] = bnext[c]
      BY <1>3, <1>4
    <2>2. Ordered(sched', bnext')
      BY <1>1, <2>1, OrderedElsewhere DEF Without
    <2> QED BY <1>1, <2>2, OrderedSameNext DEF Without
  <1>7. Apart'
    BY <1>1, <1>2, <1>3, <1>4 DEF Apart, ListInv, Without
  <1>8. SlotsAhead'
    <2>1. Top = seqno /\ Top' = seqno + 1
      BY <1>2 DEF Top
    <2>2. ASSUME NEW c \in ToSet(sched')
          PROVE  bseq'[c] <= seqno + 1 /\ seqno + 1 < bnext'[c] /\ bnext'[c] = bnext[c]
      <3>1. c \in ToSet(sched) /\ c \in Block \ {b}
        BY <1>1, <1>4 DEF Without
      <3>2. bseq[c] <= seqno /\ bseq[c] \in Nat /\ seqno \in Nat
        BY <2>1, <3>1, InvFacts DEF ListInv, SlotsAhead
      <3> QED BY <1>1, <1>3, <3>1, <3>2
    <2>3. \A c, d \in ToSet(sched') : bnext[c] = bnext[d] => c = d
      BY <1>1 DEF Without, ListInv, SlotsAhead
    <2> QED BY <1>2, <2>1, <2>2, <2>3 DEF SlotsAhead
  <1>9. WalkOK'
    <2>1. /\ walk'.on = TRUE /\ walk'.block = b /\ walk'.pos = 1
          /\ walk'.available = Len(unsched') + 1
      BY <1>1
    <2>2. Slot' = seqno + 2
      BY <1>3, <2>1, InvFacts DEF Slot
    <2>3. \E n \in (seqno + 2)..(seqno + 1 + Horizon) :
            \A c \in ToSet(sched') : bnext'[c] # n
      <3>1. \E n \in ((seqno + 1) + 1)..((seqno + 1) + Horizon) :
              \A c \in ToSet(sched') : bnext'[c] # n
        <4>1. PICK m \in Nat : m = seqno + 1
          BY <1>2
        <4>2. PICK X \in SUBSET Block : X = ToSet(sched') /\ b \notin X
          BY <1>4
        <4>3. PICK f \in [Block -> Nat] : f = bnext'
          BY <1>3
        <4>4. \E n \in (m + 1)..(m + Horizon) : \A c \in X : f[c] # n
          BY <4>2, FreeSlot
        <4> QED BY <4>1, <4>2, <4>3, <4>4
      <3>2. (seqno + 1) + 1 = seqno + 2
        BY InvFacts
      <3> QED BY <3>1, <3>2
    <2>4. ASSUME NEW k \in 1..Len(sched')
          PROVE  ~ (k < 1) /\ ~ (bnext'[sched'[k]] < seqno + 2)
      <3>1. sched'[k] \in ToSet(sched') /\ sched' \in Seq(Block)
        BY <1>1, Listed DEF Without
      <3>2. bnext'[sched'[k]] = bnext[sched'[k]] /\ bnext[sched'[k]] \in Nat
        BY <1>3, <1>4, <3>1, InvFacts
      <3> QED BY SMTT(30), <1>1, <3>1, <3>2, InvFacts
    <2>5. b \notin Members'
      BY <1>4 DEF Members
    <2>6. walk'.pos \in 1..(Len(sched') + 1)
      BY <1>1, <2>1 DEF Without
    <2>7. \A k \in 1..Len(sched') : k < walk'.pos <=> bnext'[sched'[k]] < Slot'
      BY <2>1, <2>2, <2>4
    <2>8. \E n \in Slot'..(seqno' + Horizon) : \A c \in ToSet(sched') : bnext'[c] # n
      BY <1>2, <2>2, <2>3
    <2>9. /\ seqno' > 0 /\ seqno' <= MaxSeqno /\ ~ (Slot' > seqno' + 1)
          /\ seqno' <= bnext'[walk'.block] /\ bseq'[walk'.block] = seqno'
      BY SMTT(30), <1>2, <1>3, <2>1, <2>2, InvFacts, ListAssumption
    <2> QED BY <1>2, <2>1, <2>5, <2>6, <2>7, <2>8, <2>9 DEF WalkOK
  <1> QED BY <1>5, <1>6, <1>7, <1>8, <1>9 DEF ListInv

(* What is fixed while the walk goes on. *)
LEMMA WalkFacts ==
  ASSUME ListInv, walk.on
  PROVE  /\ replay = {} /\ walk.block \in Block /\ walk.pos \in Nat
         /\ walk.block \notin ToSet(sched) /\ walk.block \notin ToSet(unsched)
         /\ walk.available \in Nat /\ Slot \in Nat /\ seqno < Slot
         /\ Top = seqno
         /\ \A k \in 1..Len(sched) : sched[k] \in ToSet(sched)
                                     /\ bnext[sched[k]] \in Nat
         /\ \A c \in ToSet(sched) : seqno < bnext[c]
  <1>1. /\ walk.block \in Block /\ walk.pos \in Nat /\ walk.available \in Nat
    BY InvFacts DEF Walk
  <1>2. replay = {} /\ walk.block \notin Members /\ seqno <= bnext[walk.block]
    BY DEF ListInv, WalkOK
  <1>3. Slot \in Nat /\ seqno < Slot
    BY <1>1, <1>2, InvFacts DEF Slot
  <1>4. Top = seqno
    BY <1>2 DEF Top
  <1>5. \A c \in ToSet(sched) : seqno < bnext[c]
    BY <1>2, <1>4 DEF ListInv, SlotsAhead
  <1>6. \A k \in 1..Len(sched) : sched[k] \in ToSet(sched)
                                 /\ bnext[sched[k]] \in Nat
    BY InvFacts, Listed
  <1> QED BY <1>1, <1>2, <1>3, <1>4, <1>5, <1>6 DEF Members

(* A step of the walk that leaves the lists alone moves on by one slot.    *)
(* What remains to be shown is that the position still fits and that       *)
(* something is left to be found.                                          *)
WalkMoves ==
  /\ walk.on /\ walk' \in Walk
  /\ walk'.block = walk.block
  /\ bnext' = [bnext EXCEPT ![walk.block] = Slot]
  /\ UNCHANGED <<sched, unsched, seqno, bseq, replay>>

(* The slots of the scheduled blocks do not move with the walk. *)
LEMMA WalkMovesFacts ==
  ASSUME ListInv, WalkMoves
  PROVE  /\ bnext' \in [Block -> Nat] /\ Slot' = Slot + 1
         /\ \A c \in Block \ {walk.block} : bnext'[c] = bnext[c]
         /\ \A c \in ToSet(sched) : bnext'[c] = bnext[c]
         /\ \A c \in ToSet(unsched) : bnext'[c] = bnext[c]
         /\ \A k \in 1..Len(sched) : bnext'[sched[k]] = bnext[sched[k]]
         /\ bnext'[walk.block] = Slot
  <1>1. walk.on
    BY DEF WalkMoves
  <1>2. /\ bnext' \in [Block -> Nat] /\ bnext'[walk.block] = Slot
        /\ \A c \in Block \ {walk.block} : bnext'[c] = bnext[c]
    BY <1>1, WalkFacts, InvFacts DEF WalkMoves
  <1>3. Slot' = Slot + 1
    BY <1>2 DEF Slot, WalkMoves
  <1>4. /\ \A c \in ToSet(sched) : bnext'[c] = bnext[c]
        /\ \A c \in ToSet(unsched) : bnext'[c] = bnext[c]
    BY <1>1, <1>2, WalkFacts, InvFacts
  <1>5. \A k \in 1..Len(sched) : bnext'[sched[k]] = bnext[sched[k]]
    BY <1>1, <1>4, WalkFacts
  <1> QED BY <1>2, <1>3, <1>4, <1>5

(* All but the position is preserved by such a step. *)
LEMMA WalkMovesKeeps ==
  ASSUME ListInv, WalkMoves
  PROVE  ListTypeOK' /\ ListOrdered' /\ Apart' /\ SlotsAhead'
  <1>1. walk.on
    BY DEF WalkMoves
  <1>2. /\ sched' = sched /\ unsched' = unsched /\ seqno' = seqno
        /\ bseq' = bseq /\ replay' = replay /\ replay = {}
    BY <1>1, WalkFacts DEF WalkMoves
  <1>3. ListTypeOK'
    BY <1>2, WalkMovesFacts, InvFacts DEF ListTypeOK, WalkMoves
  <1>4. ListOrdered'
    <2>1. Ordered(sched, bnext')
      BY InvFacts, WalkMovesFacts, OrderedElsewhere
    <2> QED BY <1>2, <2>1, InvFacts, OrderedSameNext
  <1>5. Apart'
    BY <1>2, WalkMovesFacts DEF Apart, ListInv
  <1>6. SlotsAhead'
    <2>1. Top' = Top
      BY <1>2 DEF Top
    <2> QED BY <1>2, <2>1, WalkMovesFacts DEF SlotsAhead, ListInv
  <1> QED BY <1>3, <1>4, <1>5, <1>6

(* The walk passes an owned slot. *)
LEMMA ListInvSkipOwned ==
  ASSUME ListInv, SkipOwned
  PROVE  ListInv'
  <1>1. /\ walk.on /\ walk.pos <= Len(sched)
        /\ bnext[sched[walk.pos]] = Slot
    BY DEF SkipOwned, SlotOwned
  <1>2. /\ walk' \in Walk /\ walk'.block = walk.block
        /\ walk'.pos = walk.pos + 1 /\ walk'.available = walk.available + 1
        /\ walk'.on = TRUE
    <2>1. PICK w \in Walk : w = walk
      BY <1>1, InvFacts
    <2>2. PICK p \in Nat, a \in Nat : p = w.pos + 1 /\ a = w.available + 1
      BY <2>1, <1>1, WalkFacts
    <2>3. walk' = [w EXCEPT !.pos = p, !.available = a]
      BY <2>1, <2>2 DEF SkipOwned
    <2>4. [w EXCEPT !.pos = p, !.available = a] \in Walk
      BY DEF Walk
    <2>5. /\ walk'.block = w.block /\ walk'.pos = p /\ walk'.available = a
          /\ walk'.on = w.on
      BY <2>3 DEF Walk
    <2> QED BY <1>1, <2>1, <2>2, <2>3, <2>4, <2>5 DEF Walk
  <1>3. WalkMoves
    BY <1>2 DEF SkipOwned, WalkMoves
  <1>4. /\ sched' = sched /\ unsched' = unsched /\ seqno' = seqno
        /\ bseq' = bseq /\ replay' = replay
    BY DEF SkipOwned
  <1>5. /\ walk.pos \in 1..Len(sched)
        /\ \A k \in 1..Len(sched) : k < walk.pos <=> bnext[sched[k]] < Slot
        /\ walk.available = Len(unsched) + walk.pos
        /\ seqno > 0 /\ seqno <= MaxSeqno /\ seqno <= bnext[walk.block]
        /\ bseq[walk.block] = seqno
    BY <1>1 DEF ListInv, WalkOK
  <1>6. ASSUME NEW k \in 1..Len(sched)
        PROVE  k < walk.pos + 1 <=> bnext[sched[k]] < Slot + 1
    <2>1. /\ bnext[sched[k]] \in Nat /\ Slot \in Nat
          /\ bnext[sched[walk.pos]] \in Nat
      BY <1>1, <1>5, WalkFacts
    <2>2. CASE k < walk.pos
      BY <1>5, <2>1, <2>2
    <2>3. CASE k = walk.pos
      BY <1>1, <1>5, <2>1, <2>3
    <2>4. CASE k > walk.pos
      <3>1. bnext[sched[walk.pos]] < bnext[sched[k]]
        BY <1>5, <2>4, InvFacts DEF Ordered
      <3> QED BY <1>1, <1>5, <2>1, <2>4, <3>1
    <2> QED BY <1>5, <2>2, <2>3, <2>4
  <1>7. sched[walk.pos] \in ToSet(sched) /\ seqno < Slot /\ Slot \in Nat
    BY <1>1, <1>5, WalkFacts
  <1>8. PICK n \in Slot..(seqno + Horizon) : \A c \in ToSet(sched) : bnext[c] # n
    BY <1>1 DEF ListInv, WalkOK
  <1>9. n \in (Slot + 1)..(seqno + Horizon)
    BY <1>1, <1>7, <1>8, InvFacts, ListAssumption
  <1>10. unsched = <<>> => \E c \in ToSet(sched) : bnext[c] = seqno + 1
    <2>1. CASE Slot > seqno + 1
      BY <1>1, <2>1 DEF ListInv, WalkOK
    <2>2. CASE Slot = seqno + 1
      BY <1>1, <1>7, <2>2
    <2> QED BY <1>7, <2>1, <2>2, InvFacts
  <1>11. WalkOK'
    <2>1. replay' = {} /\ walk'.block \notin Members'
      BY <1>1, <1>2, <1>4, WalkFacts DEF Members
    <2>2. walk'.pos \in 1..(Len(sched') + 1)
      BY SMTT(30), <1>2, <1>4, <1>5, InvFacts
    <2>3. \A k \in 1..Len(sched') : k < walk'.pos <=> bnext'[sched'[k]] < Slot'
      BY <1>2, <1>3, <1>4, <1>6, WalkMovesFacts
    <2>4. walk'.available = Len(unsched') + walk'.pos
      BY <1>2, <1>4, <1>5, InvFacts
    <2>5. \E m \in Slot'..(seqno' + Horizon) : \A c \in ToSet(sched') : bnext'[c] # m
      BY <1>3, <1>4, <1>8, <1>9, WalkMovesFacts
    <2>6. unsched' = <<>> => \E c \in ToSet(sched') : bnext'[c] = seqno' + 1
      BY <1>3, <1>4, <1>10, WalkMovesFacts
    <2>7. /\ seqno' > 0 /\ seqno' <= MaxSeqno /\ seqno' <= bnext'[walk'.block]
          /\ bseq'[walk'.block] = seqno'
      BY <1>2, <1>3, <1>4, <1>5, <1>7, WalkMovesFacts, InvFacts
    <2> QED BY <2>1, <2>2, <2>3, <2>4, <2>5, <2>6, <2>7 DEF WalkOK
  <1> QED BY <1>3, <1>11, WalkMovesKeeps DEF ListInv

(* When the slot the walk looks at is free, the blocks before its position *)
(* have earlier slots and the others have later ones.                      *)
LEMMA FreeSlotSplits ==
  ASSUME ListInv, walk.on, ~ SlotOwned
  PROVE  /\ walk.pos \in 1..(Len(sched) + 1)
         /\ \A k \in 1..Len(sched) : k < walk.pos => bnext[sched[k]] < Slot
         /\ \A k \in 1..Len(sched) : k >= walk.pos => Slot < bnext[sched[k]]
         /\ \A c \in ToSet(sched) : bnext[c] # Slot
  <1>1. /\ walk.pos \in 1..(Len(sched) + 1)
        /\ \A k \in 1..Len(sched) : k < walk.pos <=> bnext[sched[k]] < Slot
    BY DEF ListInv, WalkOK
  <1>2. ASSUME NEW k \in 1..Len(sched), k >= walk.pos
        PROVE  Slot < bnext[sched[k]]
    <2>1. walk.pos \in 1..Len(sched)
      BY <1>1, <1>2
    <2>2. /\ bnext[sched[k]] \in Nat /\ bnext[sched[walk.pos]] \in Nat
          /\ Slot \in Nat
      BY <2>1, WalkFacts
    <2>3. ~ (bnext[sched[walk.pos]] < Slot) /\ bnext[sched[walk.pos]] # Slot
      BY <1>1, <2>1 DEF SlotOwned
    <2>4. bnext[sched[walk.pos]] <= bnext[sched[k]]
      BY SMTT(30), <1>2, <2>1, <2>2, InvFacts DEF Ordered
    <2> QED BY <2>2, <2>3, <2>4
  <1>3. ASSUME NEW c \in ToSet(sched) PROVE bnext[c] # Slot
    <2>1. PICK k \in 1..Len(sched) : sched[k] = c
      BY InvFacts, Listed
    <2>2. bnext[sched[k]] \in Nat /\ Slot \in Nat
      BY WalkFacts
    <2> QED BY <1>1, <1>2, <2>1, <2>2
  <1> QED BY <1>1, <1>2, <1>3

(* The walk refuses a free slot. *)
LEMMA ListInvRefuseFree ==
  ASSUME ListInv, RefuseFree
  PROVE  ListInv'
  <1>1. walk.on /\ ~ SlotOwned /\ walk.available > 1
    BY DEF RefuseFree
  <1>2. /\ sched' = sched /\ unsched' = unsched /\ seqno' = seqno
        /\ bseq' = bseq /\ replay' = replay /\ walk' = walk
    BY DEF RefuseFree
  <1>3. WalkMoves
    BY <1>1, <1>2, InvFacts DEF RefuseFree, WalkMoves
  <1>4. /\ walk.pos \in 1..(Len(sched) + 1)
        /\ \A k \in 1..Len(sched) : k < walk.pos <=> bnext[sched[k]] < Slot
        /\ walk.available = Len(unsched) + walk.pos
        /\ seqno > 0 /\ seqno <= MaxSeqno /\ bseq[walk.block] = seqno
    BY <1>1 DEF ListInv, WalkOK
  <1>5. Slot \in Nat /\ seqno < Slot /\ Len(sched) \in Nat /\ seqno \in Nat
    BY <1>1, WalkFacts, InvFacts
  <1>6. ASSUME NEW k \in 1..Len(sched)
        PROVE  k < walk.pos <=> bnext[sched[k]] < Slot + 1
    <2>1. bnext[sched[k]] \in Nat
      BY <1>1, WalkFacts
    <2>2. /\ k < walk.pos => bnext[sched[k]] < Slot
          /\ k >= walk.pos => Slot < bnext[sched[k]]
      BY <1>1, FreeSlotSplits
    <2> QED BY <1>4, <1>5, <2>1, <2>2
  <1>7. \E n \in (Slot + 1)..(seqno + Horizon) :
          \A c \in ToSet(sched) : bnext[c] # n
    BY DEF RefuseFree
  <1>8. unsched = <<>> => \E c \in ToSet(sched) : bnext[c] = seqno + 1
    <2> SUFFICES ASSUME unsched = <<>>
                 PROVE  \E c \in ToSet(sched) : bnext[c] = seqno + 1
      OBVIOUS
    <2>1. Len(unsched) = 0
      OBVIOUS
    <2>2. walk.pos > 1 /\ 1 \in 1..Len(sched)
      BY <1>1, <1>4, <1>5, <2>1
    <2>3. bnext[sched[1]] < Slot /\ seqno < bnext[sched[1]]
      BY <1>1, <1>4, <2>2, WalkFacts
    <2>4. Slot > seqno + 1
      BY <1>1, <1>5, <2>2, <2>3, WalkFacts
    <2> QED BY <1>1, <2>4 DEF ListInv, WalkOK
  <1>9. WalkOK'
    <2>1. replay' = {} /\ walk'.block \notin Members'
      BY <1>1, <1>2, WalkFacts DEF Members
    <2>2. walk'.pos \in 1..(Len(sched') + 1)
      BY <1>2, <1>4
    <2>3. \A k \in 1..Len(sched') : k < walk'.pos <=> bnext'[sched'[k]] < Slot'
      BY <1>2, <1>3, <1>6, WalkMovesFacts
    <2>4. walk'.available = Len(unsched') + walk'.pos
      BY <1>2, <1>4
    <2>5. \E m \in Slot'..(seqno' + Horizon) : \A c \in ToSet(sched') : bnext'[c] # m
      BY <1>2, <1>3, <1>7, WalkMovesFacts
    <2>6. unsched' = <<>> => \E c \in ToSet(sched') : bnext'[c] = seqno' + 1
      BY <1>2, <1>3, <1>8, WalkMovesFacts
    <2>7. /\ seqno' > 0 /\ seqno' <= MaxSeqno /\ seqno' <= bnext'[walk'.block]
          /\ bseq'[walk'.block] = seqno'
      BY <1>2, <1>3, <1>4, <1>5, WalkMovesFacts
    <2> QED BY <2>1, <2>2, <2>3, <2>4, <2>5, <2>6, <2>7 DEF WalkOK
  <1> QED BY <1>3, <1>9, WalkMovesKeeps DEF ListInv

(* The list with the block of the walk linked in. *)
LEMMA TakeFreeFacts ==
  ASSUME ListInv, TakeFree
  PROVE  /\ sched' \in Seq(Block) /\ bnext' \in [Block -> Nat]
         /\ ToSet(sched') = ToSet(sched) \cup {walk.block}
         /\ Ordered(sched', bnext')
         /\ bnext'[walk.block] = Slot
         /\ \A c \in Block \ {walk.block} : bnext'[c] = bnext[c]
  <1>1. walk.on /\ ~ SlotOwned
    BY DEF TakeFree
  <1>2. /\ bnext' \in [Block -> Nat] /\ bnext'[walk.block] = Slot
        /\ \A c \in Block \ {walk.block} : bnext'[c] = bnext[c]
    BY <1>1, WalkFacts, InvFacts DEF TakeFree
  <1>3. PICK b \in Block : b = walk.block /\ b \notin ToSet(sched)
    BY <1>1, WalkFacts
  <1>4. PICK p \in 1..(Len(sched) + 1) : p = walk.pos
    BY <1>1, FreeSlotSplits
  <1>5. PICK r \in Seq(Block) : r = sched' /\ IsInsert(r, sched, p, b)
    <2>1. sched' = InsertAt(sched, p, b)
      BY <1>3, <1>4 DEF TakeFree
    <2> QED BY <2>1, InvFacts, InsertProperties
  <1>6. ToSet(r) = ToSet(sched) \cup {b}
    BY <1>5, InvFacts, InsertMembers
  <1>7. Ordered(r, bnext')
    <2>1. PICK f \in [Block -> Nat] : f = bnext'
      BY <1>2
    <2>2. \A c \in ToSet(sched) : f[c] = bnext[c]
      BY <1>2, <1>3, <2>1, InvFacts
    <2>3. Ordered(sched, f)
      BY <2>2, InvFacts, OrderedElsewhere
    <2>4. \A k \in 1..Len(sched) : f[sched[k]] = bnext[sched[k]]
      BY <2>2, InvFacts, Listed
    <2>5. /\ \A k \in 1..Len(sched) : k < p => f[sched[k]] < f[b]
          /\ \A k \in 1..Len(sched) : k >= p => f[b] < f[sched[k]]
      BY <1>1, <1>2, <1>3, <1>4, <2>1, <2>4, FreeSlotSplits
    <2>6. PICK s \in Seq(Block) : s = sched
      BY InvFacts
    <2>7. Ordered(r, f)
      BY <1>5, <2>3, <2>5, <2>6, InsertOrdered
    <2> QED BY <2>1, <2>7
  <1> QED BY <1>2, <1>3, <1>5, <1>6, <1>7

(* The walk ends: the block gets the free slot. *)
LEMMA ListInvTakeFree ==
  ASSUME ListInv, TakeFree
  PROVE  ListInv'
  <1>1. walk.on /\ ~ SlotOwned
    BY DEF TakeFree
  <1>2. /\ unsched' = unsched /\ seqno' = seqno /\ bseq' = bseq
        /\ replay' = {} /\ replay = {} /\ walk' = Idle
    BY <1>1, WalkFacts DEF TakeFree
  <1>3. ListTypeOK'
    BY <1>2, TakeFreeFacts, InvFacts DEF ListTypeOK
  <1>4. ListOrdered'
    BY TakeFreeFacts, OrderedSameNext
  <1>5. Apart'
    <2>1. /\ IsInjective(unsched)
          /\ ToSet(sched) \cap ToSet(unsched) = {}
          /\ \A c \in ToSet(unsched) : bnext[c] = 0
      BY DEF ListInv, Apart
    <2>2. walk.block \notin ToSet(unsched) /\ ToSet(unsched) \subseteq Block
      BY <1>1, WalkFacts, InvFacts
    <2>3. \A c \in ToSet(unsched) : bnext'[c] = 0
      BY <2>1, <2>2, TakeFreeFacts
    <2> QED BY <1>2, <2>1, <2>2, <2>3, TakeFreeFacts DEF Apart
  <1>6. SlotsAhead'
    <2>1. Top = seqno /\ Top' = seqno
      BY <1>2 DEF Top
    <2>2. /\ \A c \in ToSet(sched) : bseq[c] <= seqno /\ seqno < bnext[c]
          /\ \A c, d \in ToSet(sched) : bnext[c] = bnext[d] => c = d
      BY <2>1 DEF ListInv, SlotsAhead
    <2>3. /\ seqno < Slot /\ bseq[walk.block] <= seqno
      BY <1>1, WalkFacts, InvFacts DEF ListInv, WalkOK
    <2>4. \A c \in ToSet(sched) : bnext'[c] = bnext[c] /\ bnext[c] # Slot
      BY <1>1, TakeFreeFacts, FreeSlotSplits, WalkFacts, InvFacts
    <2>5. /\ bnext'[walk.block] = Slot
          /\ ToSet(sched') = ToSet(sched) \cup {walk.block}
      BY TakeFreeFacts
    <2>6. \A c \in ToSet(sched') : bseq'[c] <= seqno /\ seqno < bnext'[c]
      BY <1>2, <2>2, <2>3, <2>4, <2>5
    <2>7. \A c, d \in ToSet(sched') : bnext'[c] = bnext'[d] => c = d
      BY <2>2, <2>4, <2>5
    <2> QED BY <1>2, <2>1, <2>6, <2>7, InvFacts DEF SlotsAhead
  <1>7. WalkOK'
    BY <1>2 DEF WalkOK, Idle
  <1> QED BY <1>3, <1>4, <1>5, <1>6, <1>7 DEF ListInv

(* A block leaves the juggler. *)
LEMMA ListInvDiscard ==
  ASSUME ListInv, NEW i \in 1..(Len(unsched) + 1), Discard(i)
  PROVE  ListInv'
  <1> USE DEF Discard
  <1>1. /\ replay = {} /\ replay' = {} /\ walk' = walk /\ ~ walk.on
        /\ ToSet(sched) \cap ToSet(unsched) = {} /\ IsInjective(unsched)
        /\ \A c \in ToSet(unsched) : bnext[c] = 0
    BY DEF Ready, ListInv, Apart
  <1>2. /\ \A c \in ToSet(sched) : bseq[c] <= seqno
        /\ \A c, d \in ToSet(sched) : bnext[c] = bnext[d] => c = d
    BY <1>1 DEF ListInv, SlotsAhead, Top
  <1>3. PICK b \in Block :
          /\ Without(b)
          /\ bseq' \in [Block -> Nat] /\ bnext' \in [Block -> Nat]
          /\ \A c \in Block \ {b} : bnext'[c] = bnext[c] /\ bseq'[c] = bseq[c]
          /\ seqno' \in {seqno, seqno + 1}
          /\ \A c \in ToSet(sched') : seqno + 1 < bnext[c]
    <2>1. CASE HeadIsDue
      <3>1. PICK b \in Block : b = Head(sched)
        BY <2>1, SelectDue DEF Ready
      <3>2. /\ sched' = Tail(sched) /\ unsched' = unsched /\ seqno' = seqno + 1
            /\ bseq' = [bseq EXCEPT ![b] = seqno + 1]
            /\ bnext' = [bnext EXCEPT ![b] = seqno + 1]
        BY <2>1, <3>1
      <3>3. Without(b)
        BY <1>1, <2>1, <3>1, <3>2, SelectDue, InvFacts DEF Without
      <3>4. \A c \in ToSet(sched') : seqno + 1 < bnext[c]
        BY <2>1, <3>2, SelectDue
      <3> QED BY SMTT(30), <3>2, <3>3, <3>4, InvFacts
    <2>2. CASE ~ HeadIsDue
      <3>1. i \in 1..Len(unsched)
        BY <2>2
      <3>2. PICK b \in Block : b = unsched[i]
        BY <3>1, TakeOut
      <3>3. /\ sched' = sched /\ unsched' = RemoveAt(unsched, i) /\ seqno' = seqno
            /\ bseq' = [bseq EXCEPT ![b] = 0]
            /\ bnext' = [bnext EXCEPT ![b] = 0]
        BY <2>2, <3>2
      <3>4. Without(b)
        BY SMTT(30), <1>1, <3>1, <3>2, <3>3, TakeOut, InvFacts DEF Without
      <3>5. \A c \in ToSet(sched') : seqno + 1 < bnext[c]
        BY <2>2, <3>3, NoneDue
      <3> QED BY <3>3, <3>4, <3>5, InvFacts
    <2> QED BY <2>1, <2>2
  <1>4. /\ ToSet(sched') \subseteq Block \ {b} /\ ToSet(unsched') \subseteq Block \ {b}
        /\ ToSet(sched') \subseteq ToSet(sched)
        /\ ToSet(unsched') \subseteq ToSet(unsched)
    BY <1>3, InvFacts DEF Without
  <1> HIDE DEF Discard
  <1>n. seqno' \in Nat
    BY <1>3, InvFacts
  <1>w. walk' = Idle \/ walk' \in Walk
    BY <1>1, InvFacts
  <1>5. ListTypeOK'
    BY <1>1, <1>3, <1>n, <1>w DEF ListTypeOK, Without
  <1>6. ListOrdered'
    <2>1. \A c \in ToSet(sched') : bnext'[c] = bnext[c]
      BY <1>3, <1>4
    <2>2. Ordered(sched', bnext')
      BY <1>3, <2>1, OrderedElsewhere DEF Without
    <2> QED BY <1>3, <2>2, OrderedSameNext DEF Without
  <1>7. Apart'
    BY <1>1, <1>3, <1>4 DEF Apart, Without
  <1>8. SlotsAhead'
    <2>1. Top' = seqno' /\ seqno' \in Nat
      BY <1>1, <1>n DEF Top
    <2>2. ASSUME NEW c \in ToSet(sched')
          PROVE  bseq'[c] <= seqno' /\ seqno' < bnext'[c] /\ bnext'[c] = bnext[c]
      <3>1. c \in ToSet(sched) /\ c \in Block \ {b}
        BY <1>4
      <3>2. /\ bseq[c] <= seqno /\ bseq[c] \in Nat /\ bnext[c] \in Nat
            /\ seqno \in Nat
        BY <1>2, <3>1, InvFacts
      <3> QED BY <1>3, <3>1, <3>2
    <2>3. \A c, d \in ToSet(sched') : bnext[c] = bnext[d] => c = d
      BY <1>2, <1>4
    <2> QED BY <1>1, <2>1, <2>2, <2>3 DEF SlotsAhead
  <1>9. WalkOK'
    BY <1>1 DEF WalkOK
  <1> QED BY <1>5, <1>6, <1>7, <1>8, <1>9 DEF ListInv

(* The last block of the replay list, and what the juggler will be told. *)
LEMMA LastFacts ==
  ASSUME ListInv, replay # {}
  PROVE  /\ LastOf(replay) \in replay
         /\ \A c \in replay : bseq[c] <= bseq[LastOf(replay)]
         /\ Top = Notified(seqno, bseq[LastOf(replay)])
  <1>1. PICK m \in Nat : \A c \in replay : bseq[c] <= m
    BY DEF ListInv, SlotsAhead
  <1>2. /\ LastOf(replay) \in replay
        /\ \A c \in replay : bseq[c] <= bseq[LastOf(replay)]
    BY <1>1, InvFacts, LastExists
  <1> QED BY <1>2 DEF Top

(* A partition that is opened again finds all its blocks. *)
LEMMA ReopenFacts ==
  ASSUME ListInv, Reopen
  PROVE  /\ unsched' \in Seq(Block) /\ IsInjective(unsched')
         /\ ToSet(unsched') = ToSet(unsched)
         /\ replay = {} /\ replay' = ToSet(sched) /\ replay' # {}
         /\ Top = seqno /\ Top' = seqno
         /\ Notified(0, bseq[LastOf(ToSet(sched))]) = seqno
  <1> USE DEF Reopen
  <1>1. /\ unsched' \in [1..Len(unsched) -> ToSet(unsched)]
        /\ IsInjective(unsched') /\ ToSet(unsched') = ToSet(unsched)
    BY InvFacts
  <1>2. unsched' \in Seq(Block)
    <2>1. PICK n \in Nat : n = Len(unsched)
      BY InvFacts
    <2>2. PICK u \in [1..n -> Block] : u = unsched'
      BY <1>1, <2>1, InvFacts
    <2>3. u \in Seq(Block)
      OBVIOUS
    <2> QED BY <2>2, <2>3
  <1>3. replay = {} /\ Top = seqno
    BY DEF Ready, Top
  <1>4. PICK b \in ToSet(sched) : bseq[b] = seqno
    OBVIOUS
  <1>5. \A c \in ToSet(sched) : bseq[c] <= seqno
    BY <1>3 DEF ListInv, SlotsAhead
  <1>6. PICK l \in ToSet(sched) :
          l = LastOf(ToSet(sched)) /\ \A c \in ToSet(sched) : bseq[c] <= bseq[l]
    BY <1>4, <1>5, InvFacts, LastExists
  <1>7. bseq[l] = seqno
    BY <1>4, <1>5, <1>6, InvFacts
  <1>8. Notified(0, bseq[l]) = seqno
    BY <1>7, InvFacts DEF Notified
  <1>9. Top' = seqno
    BY <1>4, <1>6, <1>8 DEF Top, Notified, LastOf
  <1> QED BY <1>1, <1>2, <1>3, <1>4, <1>6, <1>8, <1>9

(* The partition is opened again. *)
LEMMA ListInvReopen ==
  ASSUME ListInv, Reopen
  PROVE  ListInv'
  <1>1. /\ sched' = <<>> /\ replay' = ToSet(sched) /\ seqno' = 0
        /\ bseq' = bseq /\ bnext' = bnext /\ walk' = walk /\ ~ walk.on
    BY DEF Reopen, Ready
  <1>2. ListTypeOK'
    BY <1>1, ReopenFacts, InvFacts, Empty DEF ListTypeOK
  <1>3. ListOrdered'
    BY <1>1, Empty, OrderedSameNext
  <1>4. Apart'
    BY <1>1, ReopenFacts, Empty DEF Apart, ListInv
  <1>5. SlotsAhead'
    <2>1. /\ \A c \in ToSet(sched) : bseq[c] <= seqno /\ seqno < bnext[c]
          /\ \A c, d \in ToSet(sched) : bnext[c] = bnext[d] => c = d
      BY ReopenFacts DEF ListInv, SlotsAhead
    <2>2. ToSet(sched') \cup replay' = ToSet(sched)
      BY <1>1, Empty
    <2> QED BY <1>1, <2>1, <2>2, ReopenFacts, InvFacts DEF SlotsAhead
  <1>6. WalkOK'
    BY <1>1 DEF WalkOK
  <1> QED BY <1>2, <1>3, <1>4, <1>5, <1>6 DEF ListInv

(* A block of the replay list joins the juggler. *)
LEMMA ReplayFacts ==
  ASSUME ListInv, Replay
  PROVE  \E b \in replay :
           /\ replay' = replay \ {b} /\ Top' = Top /\ seqno' \in Nat
           /\ sched' \in Seq(Block) /\ Ordered(sched', bnext)
           /\ ToSet(sched') = ToSet(sched) \cup {b}
  <1> USE DEF Replay
  <1>1. PICK b \in replay : b = LastOf(replay)
    BY LastFacts
  <1>2. /\ replay' = replay \ {b} /\ seqno' = Notified(seqno, bseq[b])
        /\ sched' = InsertSorted(sched, b) /\ bseq' = bseq
    BY <1>1
  <1>3. b \in Block /\ bseq[b] \in Nat /\ seqno \in Nat
    BY InvFacts
  <1>4. seqno' \in Nat /\ bseq[b] <= seqno' /\ Top = seqno'
    BY <1>1, <1>2, <1>3, LastFacts DEF Notified
  <1>5. Top' = Top
    <2>1. CASE replay' = {}
      BY <1>4, <2>1 DEF Top
    <2>2. CASE replay' # {}
      <3>1. PICK r \in SUBSET Block : r = replay'
        BY <1>2, InvFacts
      <3>2. \A c \in r : bseq[c] <= bseq[b]
        BY <1>1, <1>2, <3>1, LastFacts
      <3>3. LastOf(r) \in r
        BY <1>3, <2>2, <3>1, <3>2, InvFacts, LastExists
      <3>4. bseq[LastOf(r)] <= seqno' /\ bseq[LastOf(r)] \in Nat
        BY <1>3, <1>4, <3>2, <3>3, InvFacts
      <3>5. Notified(seqno', bseq[LastOf(r)]) = seqno'
        BY <1>4, <3>4 DEF Notified
      <3>6. Top' = Notified(seqno', bseq[LastOf(r)])
        <4>1. bseq'[LastOf(replay)'] = bseq[LastOf(r)]
          BY <1>2, <3>1 DEF LastOf
        <4>2. Top' = Notified(seqno, bseq[LastOf(replay)])'
          BY <2>2 DEF Top
        <4>3. Notified(seqno, bseq[LastOf(replay)])' = Notified(seqno', bseq'[LastOf(replay)'])
          BY DEF Notified
        <4> QED BY <4>1, <4>2, <4>3
      <3> QED BY <1>4, <3>5, <3>6
    <2> QED BY <2>1, <2>2
  <1>6. \A c \in ToSet(sched) : bnext[c] # bnext[b]
    BY DEF ListInv, SlotsAhead, Apart
  <1>7. /\ sched' \in Seq(Block) /\ Ordered(sched', bnext)
        /\ ToSet(sched') = ToSet(sched) \cup {b}
    <2>1. PICK s \in Seq(Block) : s = sched /\ Ordered(s, bnext)
      BY InvFacts
    <2>2. \A c \in ToSet(s) : bnext[c] # bnext[b]
      BY <1>6, <2>1
    <2>3. /\ InsertSorted(s, b) \in Seq(Block)
          /\ ToSet(InsertSorted(s, b)) = ToSet(s) \cup {b}
          /\ Ordered(InsertSorted(s, b), bnext)
      BY <1>3, <2>1, <2>2, InvFacts, InsertSortedProperties
    <2> QED BY <1>2, <2>1, <2>3
  <1> QED BY <1>2, <1>4, <1>5, <1>7

(* One block of the rebuild. *)
LEMMA ListInvReplay ==
  ASSUME ListInv, Replay
  PROVE  ListInv'
  <1>1. /\ unsched' = unsched /\ bseq' = bseq /\ bnext' = bnext /\ walk' = walk
        /\ ~ walk.on
    BY DEF Replay, ListInv, WalkOK
  <1>2. PICK b \in replay :
           /\ replay' = replay \ {b} /\ Top' = Top /\ seqno' \in Nat
           /\ sched' \in Seq(Block) /\ Ordered(sched', bnext)
           /\ ToSet(sched') = ToSet(sched) \cup {b}
    BY ReplayFacts
  <1>3. ListTypeOK'
    BY <1>1, <1>2, InvFacts DEF ListTypeOK
  <1>4. ListOrdered'
    BY <1>1, <1>2, OrderedSameNext
  <1>5. Apart'
    BY <1>1, <1>2 DEF Apart, ListInv
  <1>6. SlotsAhead'
    <2>1. ToSet(sched') \cup replay' = ToSet(sched) \cup replay
      BY <1>2
    <2> QED BY <1>1, <1>2, <2>1 DEF SlotsAhead, ListInv
  <1>7. WalkOK'
    BY <1>1 DEF WalkOK
  <1> QED BY <1>3, <1>4, <1>5, <1>6, <1>7 DEF ListInv

(* The juggler is emptied. *)
LEMMA ListInvFree ==
  ASSUME ListInv, Free
  PROVE  ListInv'
  <1>1. /\ sched' = <<>> /\ unsched' = <<>> /\ replay' = {} /\ seqno' = 0
        /\ bseq' = bseq /\ bnext' = bnext /\ walk' = walk /\ ~ walk.on
    BY DEF Free, Ready
  <1>2. ListTypeOK'
    BY <1>1, InvFacts, Empty DEF ListTypeOK
  <1>3. ListOrdered'
    BY <1>1, Empty, OrderedSameNext
  <1>4. Apart'
    BY <1>1, Empty DEF Apart
  <1>5. SlotsAhead'
    BY <1>1, Empty DEF SlotsAhead, Top
  <1>6. WalkOK'
    BY <1>1 DEF WalkOK
  <1> QED BY <1>2, <1>3, <1>4, <1>5, <1>6 DEF ListInv

(* Nothing happens. *)
LEMMA ListInvStutter ==
  ASSUME ListInv, UNCHANGED lvars
  PROVE  ListInv'
  BY ZenonT(60) DEF ListInv, lvars, ListTypeOK, ListOrdered, Apart, SlotsAhead, Top, Notified,
         LastOf, WalkOK, Members, Slot

(* ListInv is inductive. *)
LEMMA ListInvNext ==
  ASSUME ListInv, [ListNext]_lvars
  PROVE  ListInv'
  BY ListInvAdd, ListInvBegin, ListInvDiscard, ListInvSkipOwned,
     ListInvRefuseFree, ListInvTakeFree, ListInvReopen, ListInvReplay,
     ListInvFree, ListInvStutter
     DEF ListNext

(* ListInv holds in every reachable state. *)
THEOREM ListInvariant == ListSpec => []ListInv
  BY ListInvInit, ListInvNext, PTL DEF ListSpec

(* The scheduled list is in slot order in every reachable state, in the    *)
(* middle of a walk and of a rebuild too: juggler_get_obsoleted may look   *)
(* at the head alone.                                                      *)
THEOREM ScheduleIsOrdered == ListSpec => []ListOrdered
  <1>1. ListInv => ListOrdered
    BY DEF ListInv
  <1> QED BY <1>1, ListInvariant, PTL

----------------------------------------------------------------------------
(* available_blocks. *)

(* The number of members of a list. *)
LEMMA CountAll ==
  ASSUME NEW s \in Seq(Block), IsInjective(s)
  PROVE  IsFiniteSet(ToSet(s)) /\ Cardinality(ToSet(s)) = Len(s)
  <1>1. 1 \in 1..(Len(s) + 1) /\ Len(s) + 1 - 1 = Len(s)
    OBVIOUS
  <1>2. {s[k] : k \in 1..Len(s)} = ToSet(s)
    BY DEF ToSet
  <1> QED BY <1>1, <1>2, CountFrom

(* The counter of the walk follows from ListInv. *)
LEMMA AvailableFromInv == ListInv => AvailableExact
  <1> SUFFICES ASSUME ListInv, walk.on
               PROVE  walk.available = Cardinality(Members) + 1
                        - Cardinality({b \in ToSet(sched) : bnext[b] >= Slot})
    BY DEF AvailableExact
  <1>1. /\ walk.pos \in 1..(Len(sched) + 1)
        /\ \A k \in 1..Len(sched) : k < walk.pos <=> bnext[sched[k]] < Slot
        /\ walk.available = Len(unsched) + walk.pos
    BY DEF ListInv, WalkOK
  <1>2. IsInjective(unsched) /\ ToSet(sched) \cap ToSet(unsched) = {}
    BY DEF ListInv, Apart
  <1>3. /\ IsFiniteSet(ToSet(sched)) /\ Cardinality(ToSet(sched)) = Len(sched)
        /\ IsFiniteSet(ToSet(unsched)) /\ Cardinality(ToSet(unsched)) = Len(unsched)
    BY <1>2, InvFacts, CountAll
  <1>4. Cardinality(Members) = Len(sched) + Len(unsched)
    <2>1. Cardinality({}) = 0
      BY FS_EmptySet
    <2>2. PICK A, B : A = ToSet(sched) /\ B = ToSet(unsched)
      OBVIOUS
    <2>3. Cardinality(A \cup B) = Cardinality(A) + Cardinality(B) - Cardinality(A \cap B)
      BY <1>3, <2>2, FS_Union
    <2>4. Len(sched) \in Nat /\ Len(unsched) \in Nat
      BY InvFacts
    <2>5. Members = A \cup B /\ A \cap B = {}
      BY <1>2, <2>2 DEF Members
    <2>6. Cardinality(A \cap B) = 0 /\ Cardinality(Members) = Cardinality(A \cup B)
      BY <2>1, <2>5, Zenon
    <2> QED BY <1>3, <2>2, <2>3, <2>4, <2>6
  <1>5. {b \in ToSet(sched) : bnext[b] >= Slot} = {sched[k] : k \in walk.pos..Len(sched)}
    <2>1. ASSUME NEW b \in ToSet(sched), bnext[b] >= Slot
          PROVE  \E k \in walk.pos..Len(sched) : b = sched[k]
      <3>1. PICK k \in 1..Len(sched) : sched[k] = b
        BY InvFacts, Listed
      <3>2. bnext[sched[k]] \in Nat /\ Slot \in Nat
        BY WalkFacts
      <3>3. ~ (k < walk.pos)
        BY <1>1, <2>1, <3>1, <3>2
      <3> QED BY <1>1, <3>1, <3>3
    <2>2. ASSUME NEW k \in walk.pos..Len(sched)
          PROVE  sched[k] \in ToSet(sched) /\ bnext[sched[k]] >= Slot
      <3>1. k \in 1..Len(sched) /\ ~ (k < walk.pos)
        BY <1>1
      <3>2. bnext[sched[k]] \in Nat /\ Slot \in Nat /\ sched[k] \in ToSet(sched)
        BY <3>1, WalkFacts
      <3> QED BY <1>1, <3>1, <3>2
    <2> QED BY <2>1, <2>2
  <1>6. Cardinality({sched[k] : k \in walk.pos..Len(sched)}) = Len(sched) + 1 - walk.pos
    BY <1>1, InvFacts, CountFrom
  <1>7. Len(sched) \in Nat /\ Len(unsched) \in Nat /\ walk.pos \in Nat
    BY InvFacts, WalkFacts
  <1>8. Cardinality({b \in ToSet(sched) : bnext[b] >= Slot})
          = Len(sched) + 1 - walk.pos
    BY <1>5, <1>6
  <1>9. PICK m, n : /\ m = Cardinality(Members)
                    /\ n = Cardinality({b \in ToSet(sched) : bnext[b] >= Slot})
    OBVIOUS
  <1>10. walk.available = m + 1 - n
    BY <1>1, <1>4, <1>7, <1>8, <1>9
  <1> QED BY <1>9, <1>10

(* available_blocks counts the blocks that could appear in the slot the    *)
(* walk looks at, whatever the walk has passed and however the lists came  *)
(* about: the uniform choice of juggler_get_devblock rests on it.          *)
THEOREM AvailableIsExact == ListSpec => []AvailableExact
  BY AvailableFromInv, ListInvariant, PTL

----------------------------------------------------------------------------
(* The refinement. *)

(* What Juggler.tla sees between two selections. *)
LEMMA SeenAtRest ==
  ASSUME ~ walk.on
  PROVE  /\ VisibleScheduled = ToSet(sched) \cup replay
         /\ VisibleUnscheduled = ToSet(unsched)
         /\ VisibleSeqno = Top /\ VisibleBseq = bseq /\ VisibleBnext = bnext
  BY DEF VisibleScheduled, VisibleUnscheduled, VisibleSeqno, VisibleBseq,
         VisibleBnext, Top

(* The same in the next state. *)
LEMMA SeenAtRestNext ==
  ASSUME ~ walk'.on
  PROVE  /\ VisibleScheduled' = ToSet(sched') \cup replay'
         /\ VisibleUnscheduled' = ToSet(unsched')
         /\ VisibleSeqno' = Top' /\ VisibleBseq' = bseq' /\ VisibleBnext' = bnext'
  BY DEF VisibleScheduled, VisibleUnscheduled, VisibleSeqno, VisibleBseq,
         VisibleBnext, Top

(* What it sees during a walk. *)
LEMMA SeenInWalk ==
  ASSUME walk.on
  PROVE  /\ VisibleScheduled = ToSet(sched) \cup replay \cup
                                IF walk.wasDue THEN {walk.block} ELSE {}
         /\ VisibleUnscheduled = ToSet(unsched) \cup
                                IF ~ walk.wasDue THEN {walk.block} ELSE {}
         /\ VisibleSeqno = seqno - 1
         /\ VisibleBseq = [bseq EXCEPT ![walk.block] = walk.oldSeq]
         /\ VisibleBnext = [bnext EXCEPT ![walk.block] =
                                IF walk.wasDue THEN seqno ELSE 0]
  BY DEF VisibleScheduled, VisibleUnscheduled, VisibleSeqno, VisibleBseq,
         VisibleBnext

(* The same in the next state. *)
LEMMA SeenInWalkNext ==
  ASSUME walk'.on
  PROVE  /\ VisibleScheduled' = ToSet(sched') \cup replay' \cup
                                IF walk'.wasDue THEN {walk'.block} ELSE {}
         /\ VisibleUnscheduled' = ToSet(unsched') \cup
                                IF ~ walk'.wasDue THEN {walk'.block} ELSE {}
         /\ VisibleSeqno' = seqno' - 1
         /\ VisibleBseq' = [bseq' EXCEPT ![walk'.block] = walk'.oldSeq]
         /\ VisibleBnext' = [bnext' EXCEPT ![walk'.block] =
                                IF walk'.wasDue THEN seqno' ELSE 0]
  BY DEF VisibleScheduled, VisibleUnscheduled, VisibleSeqno, VisibleBseq,
         VisibleBnext

(* The empty lists are the empty juggler. *)
LEMMA RefinesInit == ListInit => J!JugglerInit
  <1> SUFFICES ASSUME ListInit PROVE J!JugglerInit
    OBVIOUS
  <1>1. ~ walk.on /\ Top = 0
    BY DEF ListInit, Idle, Top
  <1> QED BY <1>1, SeenAtRest, Empty DEF ListInit, J!JugglerInit

(* Add adds. *)
LEMMA RefinesAdd ==
  ASSUME ListInv, NEW b \in Block, Add(b)
  PROVE  J!AddNew(b)
  <1>1. ~ walk.on /\ ~ walk'.on /\ replay = {} /\ replay' = {}
    BY DEF Add, Ready
  <1>2. Top = seqno /\ Top' = seqno
    BY <1>1 DEF Top, Add
  <1>3. IsInjective(unsched) /\ b \notin ToSet(unsched) /\ b \notin ToSet(sched)
    BY DEF ListInv, Apart, Add, Members
  <1>4. ToSet(unsched') = ToSet(unsched) \cup {b}
    BY <1>3, InvFacts, Prepend DEF Add
  <1> QED BY <1>1, <1>2, <1>3, <1>4, SeenAtRest, SeenAtRestNext
         DEF Add, J!AddNew, J!Members

(* Nothing is seen of a selection until its walk ends. *)
LEMMA RefinesBegin ==
  ASSUME ListInv, NEW i \in 1..(Len(unsched) + 1), Begin(i)
  PROVE  UNCHANGED J!jvars
  <1>1. /\ Ready /\ ~ walk.on /\ replay = {} /\ replay' = {}
        /\ seqno' = seqno + 1 /\ Top = seqno
    BY DEF Begin, Ready, Top
  <1>2. PICK b \in Block :
          /\ b = IF HeadIsDue THEN Head(sched) ELSE unsched[i]
          /\ walk' = [on |-> TRUE, block |-> b, pos |-> 1,
                      available |-> Len(unsched') + 1,
                      wasDue |-> HeadIsDue, oldSeq |-> bseq[b]]
          /\ bseq' = [bseq EXCEPT ![b] = seqno + 1]
          /\ bnext' = [bnext EXCEPT ![b] = seqno + 1]
          /\ ToSet(sched') = IF HeadIsDue THEN ToSet(sched) \ {b} ELSE ToSet(sched)
          /\ ToSet(unsched') = IF HeadIsDue THEN ToSet(unsched)
                               ELSE ToSet(unsched) \ {b}
          /\ b \in IF HeadIsDue THEN ToSet(sched) ELSE ToSet(unsched)
          /\ bnext[b] = IF HeadIsDue THEN seqno + 1 ELSE 0
    <2>1. CASE HeadIsDue
      BY <1>1, <2>1, SelectDue DEF Begin, FirstAvailable
    <2>2. CASE ~ HeadIsDue
      BY <2>2, TakeOut DEF Begin, FirstAvailable
    <2> QED BY <2>1, <2>2
  <1>3. /\ walk'.on = TRUE /\ walk'.block = b /\ walk'.wasDue = HeadIsDue
        /\ walk'.oldSeq = bseq[b]
    BY <1>2
  <1>4. /\ VisibleScheduled' = VisibleScheduled
        /\ VisibleUnscheduled' = VisibleUnscheduled
    <2>1. CASE HeadIsDue
      <3>1. walk'.on /\ walk'.wasDue
        BY <1>3, <2>1
      <3>2. /\ VisibleScheduled' = ToSet(sched') \cup {b}
            /\ VisibleUnscheduled' = ToSet(unsched')
        BY <1>1, <1>3, <3>1, SeenInWalkNext
      <3>3. /\ ToSet(sched') = ToSet(sched) \ {b} /\ b \in ToSet(sched)
            /\ ToSet(unsched') = ToSet(unsched)
        BY <1>2, <2>1
      <3> QED BY <1>1, <3>2, <3>3, SeenAtRest
    <2>2. CASE ~ HeadIsDue
      <3>1. walk'.on /\ ~ walk'.wasDue
        BY <1>3, <2>2
      <3>2. /\ VisibleScheduled' = ToSet(sched')
            /\ VisibleUnscheduled' = ToSet(unsched') \cup {b}
        BY <1>1, <1>3, <3>1, SeenInWalkNext
      <3>3. /\ ToSet(unsched') = ToSet(unsched) \ {b} /\ b \in ToSet(unsched)
            /\ ToSet(sched') = ToSet(sched)
        BY <1>2, <2>2
      <3> QED BY <1>1, <3>2, <3>3, SeenAtRest
    <2> QED BY <2>1, <2>2
  <1>5. VisibleSeqno' = VisibleSeqno
    BY <1>1, <1>3, SeenAtRest, SeenInWalkNext, InvFacts
  <1>6. VisibleBseq' = VisibleBseq
    <2>1. VisibleBseq' = [bseq' EXCEPT ![b] = bseq[b]]
      BY <1>3, SeenInWalkNext
    <2>2. [bseq' EXCEPT ![b] = bseq[b]] = bseq
      BY <1>2, InvFacts
    <2> QED BY <1>1, <2>1, <2>2, SeenAtRest
  <1>7. VisibleBnext' = VisibleBnext
    <2>1. VisibleBnext' = [bnext' EXCEPT ![b] = bnext[b]]
      <3>1. VisibleBnext' = [bnext' EXCEPT ![b] = IF HeadIsDue THEN seqno + 1 ELSE 0]
        BY <1>1, <1>3, SeenInWalkNext
      <3> QED BY <1>2, <3>1
    <2>2. [bnext' EXCEPT ![b] = bnext[b]] = bnext
      BY <1>2, InvFacts
    <2> QED BY <1>1, <2>1, <2>2, SeenAtRest
  <1> QED BY <1>4, <1>5, <1>6, <1>7 DEF J!jvars

(* Nor is anything seen of a step of the walk. *)
LEMMA RefinesWalkMoves ==
  ASSUME ListInv, WalkMoves, walk'.wasDue = walk.wasDue, walk'.oldSeq = walk.oldSeq
  PROVE  UNCHANGED J!jvars
  <1>1. /\ walk.on /\ walk'.on /\ walk'.block = walk.block
        /\ sched' = sched /\ unsched' = unsched /\ seqno' = seqno
        /\ bseq' = bseq /\ replay' = replay
        /\ bnext' = [bnext EXCEPT ![walk.block] = Slot]
    BY DEF WalkMoves, Walk
  <1>2. VisibleScheduled' = VisibleScheduled /\ VisibleUnscheduled' = VisibleUnscheduled
    BY <1>1, SeenInWalk, SeenInWalkNext
  <1>3. VisibleSeqno' = VisibleSeqno /\ VisibleBseq' = VisibleBseq
    BY <1>1, SeenInWalk, SeenInWalkNext
  <1>4. VisibleBnext' = VisibleBnext
    BY <1>1, SeenInWalk, SeenInWalkNext, InvFacts, WalkFacts
  <1> QED BY <1>2, <1>3, <1>4 DEF J!jvars

(* The end of the walk is the selection. *)
LEMMA RefinesTakeFree ==
  ASSUME ListInv, TakeFree
  PROVE  \E b \in Block : \E n \in J!NextSlots(b) : J!GetDevblock(b, n)
  <1>1. walk.on /\ ~ SlotOwned /\ walk' = Idle /\ ~ walk'.on
    BY DEF TakeFree, Idle
  <1>2. PICK b \in Block : b = walk.block
    BY <1>1, WalkFacts
  <1>3. /\ unsched' = unsched /\ seqno' = seqno /\ bseq' = bseq
        /\ replay' = {} /\ replay = {} /\ seqno \in Nat /\ seqno > 0
        /\ seqno <= MaxSeqno /\ bseq[b] = seqno /\ Slot \in Nat /\ seqno < Slot
        /\ b \notin ToSet(sched) /\ b \notin ToSet(unsched) /\ Top' = seqno
    BY <1>1, <1>2, WalkFacts, InvFacts DEF TakeFree, ListInv, WalkOK, Top
  <1>4. /\ VisibleScheduled \ {b} = ToSet(sched)
        /\ VisibleUnscheduled \ {b} = ToSet(unsched)
        /\ VisibleScheduled \cup {b} = ToSet(sched) \cup {b}
        /\ walk.wasDue => b \in VisibleScheduled
        /\ ~ walk.wasDue => b \in VisibleUnscheduled /\ VisibleScheduled = ToSet(sched)
    BY <1>1, <1>2, <1>3, SeenInWalk
  <1>5. /\ VisibleSeqno = seqno - 1 /\ VisibleSeqno + 1 = seqno
        /\ VisibleSeqno + 2 = seqno + 1 /\ VisibleSeqno + 1 + Horizon = seqno + Horizon
        /\ VisibleSeqno < MaxSeqno
    BY <1>1, <1>3, SeenInWalk, ListAssumption
  <1>6. /\ VisibleBnext \in [Block -> Nat] /\ VisibleBseq \in [Block -> Nat]
        /\ VisibleBnext[b] = IF walk.wasDue THEN seqno ELSE 0
        /\ \A c \in Block \ {b} : VisibleBnext[c] = bnext[c]
        /\ \A c \in Block \ {b} : VisibleBseq[c] = bseq[c]
    <2>1. walk.oldSeq \in Nat
      BY <1>1, InvFacts DEF Walk
    <2>2. PICK o \in Nat : o = IF walk.wasDue THEN seqno ELSE 0
      BY <1>3
    <2>3. VisibleBnext = [bnext EXCEPT ![b] = o]
      BY <1>1, <1>2, <2>2, SeenInWalk
    <2>4. VisibleBseq = [bseq EXCEPT ![b] = walk.oldSeq]
      BY <1>1, <1>2, SeenInWalk
    <2> QED BY <2>1, <2>2, <2>3, <2>4, InvFacts
  <1>7. \A c \in ToSet(sched) : /\ VisibleBnext[c] = bnext[c] /\ bnext[c] # Slot
                                /\ seqno < bnext[c] /\ bnext[c] \in Nat
    BY <1>1, <1>3, <1>6, FreeSlotSplits, WalkFacts, InvFacts
  <1>8. b \in J!Candidates
    <2>1. CASE walk.wasDue
      <3>1. b \in J!Obsoleted
        BY <1>4, <1>5, <1>6, <2>1 DEF J!Obsoleted, J!OwnerOf
      <3> QED BY <3>1 DEF J!Candidates
    <2>2. CASE ~ walk.wasDue
      <3>1. J!Obsoleted = {}
        BY <1>3, <1>4, <1>5, <1>7, <2>2 DEF J!Obsoleted, J!OwnerOf
      <3> QED BY <1>4, <2>2, <3>1 DEF J!Candidates
    <2> QED BY <2>1, <2>2
  <1>9. Slot \in J!NextSlots(b)
    <2> DEFINE free == {n \in (VisibleSeqno + 2)..(VisibleSeqno + 1 + Horizon) :
                         \A c \in VisibleScheduled \ {b} : VisibleBnext[c] # n}
    <2>1. PICK n \in Slot..(seqno + Horizon) : \A c \in ToSet(sched) : bnext[c] # n
      BY <1>1 DEF ListInv, WalkOK
    <2>2. Slot \in (VisibleSeqno + 2)..(VisibleSeqno + 1 + Horizon)
      BY <1>3, <1>5, <2>1, ListAssumption
    <2>3. Slot \in free
      BY <1>4, <1>7, <2>2
    <2>4. ASSUME VisibleUnscheduled \ {b} = {}, VisibleSeqno + 2 \in free
          PROVE  Slot = VisibleSeqno + 2
      <3>1. unsched = <<>>
        <4>1. ToSet(unsched) = {}
          BY <1>4, <2>4
        <4>2. unsched # <<>> => unsched[1] \in ToSet(unsched)
          BY InvFacts, TailProperties, Listed
        <4> QED BY <4>1, <4>2
      <3>2. ~ \E c \in ToSet(sched) : bnext[c] = seqno + 1
        BY <1>4, <1>5, <1>7, <2>4
      <3>3. ~ (Slot > seqno + 1)
        BY <1>1, <3>1, <3>2 DEF ListInv, WalkOK
      <3> QED BY <1>3, <1>5, <3>3
    <2> QED BY <2>3, <2>4 DEF J!NextSlots
  <1>10. /\ VisibleScheduled' = VisibleScheduled \cup {b}
         /\ VisibleUnscheduled' = VisibleUnscheduled \ {b}
         /\ VisibleSeqno' = VisibleSeqno + 1
    BY <1>1, <1>2, <1>3, <1>4, <1>5, SeenAtRestNext, TakeFreeFacts
  <1>11. VisibleBseq' = [VisibleBseq EXCEPT ![b] = VisibleSeqno + 1]
    BY <1>1, <1>3, <1>5, <1>6, SeenAtRestNext, InvFacts
  <1>12. VisibleBnext' = [VisibleBnext EXCEPT ![b] = Slot]
    BY <1>1, <1>2, <1>6, SeenAtRestNext, TakeFreeFacts
  <1>13. J!GetDevblock(b, Slot)
    BY <1>5, <1>8, <1>9, <1>10, <1>11, <1>12 DEF J!GetDevblock
  <1> QED BY <1>9, <1>13

(* A discard is a discard. *)
LEMMA RefinesDiscard ==
  ASSUME ListInv, NEW i \in 1..(Len(unsched) + 1), Discard(i)
  PROVE  \E b \in Block : J!DiscardDue(b) \/ J!DiscardUnscheduled(b)
  <1>1. /\ Ready /\ ~ walk.on /\ ~ walk'.on /\ replay = {} /\ replay' = {}
        /\ Top = seqno /\ Top' = seqno' /\ seqno < MaxSeqno /\ DiscardPossible
    BY DEF Discard, Ready, Top
  <1>2. /\ VisibleScheduled = ToSet(sched) /\ VisibleScheduled' = ToSet(sched')
        /\ VisibleUnscheduled = ToSet(unsched)
        /\ VisibleUnscheduled' = ToSet(unsched')
        /\ VisibleSeqno = seqno /\ VisibleSeqno' = seqno'
        /\ VisibleBseq = bseq /\ VisibleBseq' = bseq'
        /\ VisibleBnext = bnext /\ VisibleBnext' = bnext'
    BY <1>1, SeenAtRest, SeenAtRestNext
  <1>3. seqno \in Nat /\ unsched \in Seq(Block) /\ IsInjective(unsched)
    BY InvFacts DEF ListInv, Apart
  <1>4. CASE HeadIsDue
    <2>1. PICK b \in Block : b = Head(sched) /\ b \in ToSet(sched)
      BY <1>1, <1>4, SelectDue
    <2>2. /\ sched' = Tail(sched) /\ unsched' = unsched /\ seqno' = seqno + 1
          /\ bseq' = [bseq EXCEPT ![b] = seqno + 1]
          /\ bnext' = [bnext EXCEPT ![b] = seqno + 1]
      BY <1>4, <2>1 DEF Discard
    <2>3. ToSet(sched') = ToSet(sched) \ {b} /\ bnext[b] = seqno + 1
      BY <1>1, <1>4, <2>1, <2>2, SelectDue
    <2>4. b \in J!Obsoleted
      BY <1>2, <2>1, <2>3 DEF J!Obsoleted, J!OwnerOf
    <2>5. J!DiscardDuePossible
      <3>1. CASE unsched # <<>>
        <4>1. unsched[1] \in ToSet(unsched)
          BY <1>3, <3>1, TailProperties, Listed
        <4> QED BY <1>2, <4>1 DEF J!DiscardDuePossible
      <3>2. CASE unsched = <<>>
        <4>1. Len(sched) > 1 /\ bnext[sched[2]] = bnext[sched[1]] + 1
          BY <1>1, <1>4, <3>2 DEF DiscardPossible
        <4>2. sched[2] \in ToSet(sched)
          BY SMTT(30), <4>1, InvFacts, Listed
        <4>3. sched[1] = b
          BY <1>4, <2>1, InvFacts DEF HeadIsDue
        <4>4. bnext[sched[2]] = seqno + 2
          BY <1>3, <2>3, <4>1, <4>3
        <4> QED BY <1>2, <4>2, <4>4 DEF J!DiscardDuePossible, J!OwnerOf
      <3> QED BY <3>1, <3>2
    <2>6. J!DiscardDue(b)
      BY <1>1, <1>2, <2>2, <2>3, <2>4, <2>5 DEF J!DiscardDue
    <2> QED BY <2>6
  <1>5. CASE ~ HeadIsDue
    <2>1. i \in 1..Len(unsched) /\ Len(unsched) >= 2
      BY <1>1, <1>5 DEF Discard, DiscardPossible
    <2>2. PICK b \in Block : b = unsched[i] /\ b \in ToSet(unsched)
      BY <2>1, TakeOut
    <2>3. /\ sched' = sched /\ unsched' = RemoveAt(unsched, i) /\ seqno' = seqno
          /\ bseq' = [bseq EXCEPT ![b] = 0] /\ bnext' = [bnext EXCEPT ![b] = 0]
      BY <1>5, <2>2 DEF Discard
    <2>4. ToSet(unsched') = ToSet(unsched) \ {b}
      BY <2>1, <2>2, <2>3, TakeOut
    <2>5. J!Obsoleted = {}
      <3>1. \A c \in ToSet(sched) : seqno + 1 < bnext[c]
        BY <1>1, <1>5, NoneDue
      <3> QED BY <1>2, <1>3, <3>1, InvFacts DEF J!Obsoleted, J!OwnerOf
    <2>6. J!DiscardUnscheduledPossible
      <3>1. 1 \in 1..Len(unsched) /\ 2 \in 1..Len(unsched)
        BY <1>3, <2>1
      <3>2. unsched[1] \in ToSet(unsched) /\ unsched[2] \in ToSet(unsched)
        BY <1>3, <3>1, Listed
      <3>3. unsched[1] # unsched[2]
        BY <1>3, <3>1 DEF IsInjective
      <3> QED BY <1>2, <3>2, <3>3 DEF J!DiscardUnscheduledPossible
    <2>7. J!DiscardUnscheduled(b)
      BY <1>2, <2>2, <2>3, <2>4, <2>5, <2>6 DEF J!DiscardUnscheduled
    <2> QED BY <2>7
  <1> QED BY <1>4, <1>5

(* Nothing is seen of a rebuild. *)
LEMMA RefinesRebuild ==
  ASSUME ListInv, Reopen \/ Replay
  PROVE  UNCHANGED J!jvars
  <1>1. CASE Reopen
    <2>1. /\ ~ walk.on /\ ~ walk'.on /\ bseq' = bseq /\ bnext' = bnext
          /\ sched' = <<>>
      BY <1>1 DEF Reopen, Ready
    <2>2. ToSet(sched') \cup replay' = ToSet(sched) \cup replay
      BY <1>1, <2>1, ReopenFacts, Empty
    <2> QED BY <1>1, <2>1, <2>2, ReopenFacts, SeenAtRest, SeenAtRestNext DEF J!jvars
  <1>2. CASE Replay
    <2>1. /\ ~ walk.on /\ ~ walk'.on /\ bseq' = bseq /\ bnext' = bnext
          /\ unsched' = unsched
      BY <1>2 DEF Replay, ListInv, WalkOK
    <2>2. ToSet(sched') \cup replay' = ToSet(sched) \cup replay /\ Top' = Top
      BY <1>2, ReplayFacts
    <2> QED BY <2>1, <2>2, SeenAtRest, SeenAtRestNext DEF J!jvars
  <1> QED BY <1>1, <1>2

(* Freeing the lists frees the juggler. *)
LEMMA RefinesFree ==
  ASSUME ListInv, Free
  PROVE  J!JugglerFree
  <1>1. /\ ~ walk.on /\ ~ walk'.on /\ replay = {} /\ replay' = {}
        /\ sched' = <<>> /\ unsched' = <<>> /\ seqno' = 0 /\ bseq' = bseq
        /\ bnext' = bnext /\ Members # {}
    BY DEF Free, Ready
  <1>2. Top' = 0
    BY <1>1 DEF Top
  <1> QED BY <1>1, <1>2, SeenAtRest, SeenAtRestNext, Empty
         DEF J!JugglerFree, J!Members, Members

(* Every step of the lists is a step of the juggler or is not seen. *)
LEMMA RefinesNext ==
  ASSUME ListInv, [ListNext]_lvars
  PROVE  [J!JugglerNext]_(J!jvars)
  <1>1. ASSUME NEW b \in Block, Add(b) PROVE J!JugglerNext
    BY <1>1, RefinesAdd DEF J!JugglerNext
  <1>2. ASSUME NEW i \in 1..(Len(unsched) + 1), Begin(i) PROVE UNCHANGED J!jvars
    BY <1>2, RefinesBegin
  <1>3. ASSUME NEW i \in 1..(Len(unsched) + 1), Discard(i) PROVE J!JugglerNext
    BY <1>3, RefinesDiscard DEF J!JugglerNext
  <1>4. ASSUME SkipOwned PROVE UNCHANGED J!jvars
    <2>1. walk.on /\ walk \in Walk
      BY <1>4, InvFacts DEF SkipOwned
    <2>2. PICK w \in Walk : w = walk
      BY <2>1
    <2>3. PICK p \in Nat, a \in Nat : p = w.pos + 1 /\ a = w.available + 1
      BY <2>1, <2>2, WalkFacts
    <2>4. walk' = [w EXCEPT !.pos = p, !.available = a]
      BY <1>4, <2>2, <2>3 DEF SkipOwned
    <2>5. [w EXCEPT !.pos = p, !.available = a] \in Walk
      BY DEF Walk
    <2>6. /\ walk'.block = w.block /\ walk'.wasDue = w.wasDue
          /\ walk'.oldSeq = w.oldSeq
      BY <2>4 DEF Walk
    <2>7. WalkMoves
      BY <1>4, <2>2, <2>4, <2>5, <2>6 DEF WalkMoves, SkipOwned
    <2> QED BY <2>2, <2>6, <2>7, RefinesWalkMoves
  <1>5. ASSUME RefuseFree PROVE UNCHANGED J!jvars
    <2>1. WalkMoves /\ walk' = walk
      BY <1>5, InvFacts DEF RefuseFree, WalkMoves
    <2> QED BY <2>1, RefinesWalkMoves
  <1>6. ASSUME TakeFree PROVE J!JugglerNext
    BY <1>6, RefinesTakeFree DEF J!JugglerNext
  <1>7. ASSUME Free PROVE J!JugglerNext
    BY <1>7, RefinesFree DEF J!JugglerNext
  <1>8. ASSUME UNCHANGED lvars PROVE UNCHANGED J!jvars
    BY <1>8 DEF lvars, J!jvars, VisibleScheduled, VisibleUnscheduled, VisibleSeqno,
                VisibleBseq, VisibleBnext, Notified, LastOf
  <1> QED BY <1>1, <1>2, <1>3, <1>4, <1>5, <1>6, <1>7, <1>8, RefinesRebuild
         DEF ListNext

(* The lists, the walk with its random refusals and the rebuild from disk  *)
(* of juggler.c implement the schedule of Juggler.tla, for any number of   *)
(* blocks: what is proved of that schedule holds of the code's lists.      *)
THEOREM ListImplementsJuggler == ListSpec => ImplementsJuggler
  BY RefinesInit, RefinesNext, ListInvariant, PTL
     DEF ListSpec, ImplementsJuggler, J!JugglerSpec

----------------------------------------------------------------------------
(* What is proved of the schedule, read in terms of the lists. *)

(* What Juggler.tla sees has the types it is to have. *)
LEMMA SeenTypes ==
  ASSUME ListInv
  PROVE  VisibleSeqno \in Nat /\ VisibleBnext \in [Block -> Nat]
  <1>1. CASE ~ walk.on
    BY <1>1, SeenAtRest, InvFacts DEF ListInv, SlotsAhead
  <1>2. CASE walk.on
    <2>1. seqno \in Nat /\ seqno > 0 /\ seqno - 1 \in Nat
      BY SMTT(30), <1>2, InvFacts DEF ListInv, WalkOK
    <2>2. PICK o \in Nat : o = IF walk.wasDue THEN seqno ELSE 0
      BY <2>1
    <2>3. VisibleBnext = [bnext EXCEPT ![walk.block] = o]
      BY <1>2, <2>2, SeenInWalk
    <2> QED BY <1>2, <2>1, <2>3, SeenInWalk, InvFacts
  <1> QED BY <1>1, <1>2, InvFacts

(* And only blocks are scheduled. *)
LEMMA SeenBlocks ==
  ASSUME ListInv
  PROVE  VisibleScheduled \subseteq Block
  <1>1. CASE ~ walk.on
    BY <1>1, SeenAtRest, InvFacts
  <1>2. CASE walk.on
    <2>1. walk.block \in Block
      BY <1>2, WalkFacts
    <2> QED BY <1>2, <2>1, SeenInWalk, InvFacts
  <1> QED BY <1>1, <1>2, InvFacts

(* The slot after n can be filled: a block of S owns it, by f, or one of U *)
(* is left.                                                                *)
Fillable(S, U, n, f) ==
  S \cup U # {} => U # {} \/ \E c \in S : f[c] = n + 1

(* That is what it means for a block to be available. *)
LEMMA AvailableMeans ==
  J!BlockAvailable <=>
    Fillable(VisibleScheduled, VisibleUnscheduled, VisibleSeqno, VisibleBnext)
  BY DEF J!BlockAvailable, J!Members, J!Candidates, J!Obsoleted, J!OwnerOf,
         Fillable

(* The same in the next state. *)
LEMMA AvailableMeansNext ==
  (J!BlockAvailable)' <=>
    Fillable(VisibleScheduled', VisibleUnscheduled', VisibleSeqno', VisibleBnext')
  BY DEF J!BlockAvailable, J!Members, J!Candidates, J!Obsoleted, J!OwnerOf,
         Fillable

(* A selection leaves the slot after it fillable: when nobody owns it and  *)
(* no unscheduled block is left, the selected block takes it itself.       *)
LEMMA SelectionFillable ==
  ASSUME ListInv, NEW b \in Block, NEW n \in J!NextSlots(b), J!GetDevblock(b, n)
  PROVE  (J!BlockAvailable)'
  <1>0. PICK S \in {VisibleScheduled}, U \in {VisibleUnscheduled},
             m \in Nat, f \in [Block -> Nat] :
          /\ S = VisibleScheduled /\ U = VisibleUnscheduled
          /\ m = VisibleSeqno /\ f = VisibleBnext
    BY SeenTypes
  <1>1. /\ VisibleScheduled' = S \cup {b} /\ VisibleUnscheduled' = U \ {b}
        /\ VisibleSeqno' = m + 1 /\ VisibleBnext' = [f EXCEPT ![b] = n]
    BY <1>0 DEF J!GetDevblock
  <1>2. n \in (m + 2)..(m + 1 + Horizon)
    BY <1>0 DEF J!NextSlots
  <1>3. m + 2 \in (m + 2)..(m + 1 + Horizon)
    BY <1>2, ListAssumption
  <1>4. ASSUME U \ {b} = {}, \A c \in S \ {b} : f[c] # m + 2
        PROVE  n = m + 2
    BY <1>0, <1>3, <1>4 DEF J!NextSlots
  <1>5. S \subseteq Block
    BY <1>0, SeenBlocks
  <1>6. Fillable(S \cup {b}, U \ {b}, m + 1, [f EXCEPT ![b] = n])
    <2> SUFFICES ASSUME U \ {b} = {}
                 PROVE  \E c \in S \cup {b} : [f EXCEPT ![b] = n][c] = m + 1 + 1
      BY DEF Fillable
    <2>1. m + 1 + 1 = m + 2
      OBVIOUS
    <2>2. CASE \E c \in S \ {b} : f[c] = m + 2
      BY <1>5, <2>1, <2>2
    <2>3. CASE \A c \in S \ {b} : f[c] # m + 2
      BY <1>4, <2>1, <2>3
    <2> QED BY <2>2, <2>3
  <1> QED BY <1>1, <1>6, AvailableMeansNext

(* A discard does, by what juggler_discard_possible tests. *)
LEMMA DiscardFillable ==
  ASSUME ListInv, NEW b \in Block, J!DiscardDue(b) \/ J!DiscardUnscheduled(b)
  PROVE  (J!BlockAvailable)'
  <1>0. PICK S \in {VisibleScheduled}, U \in {VisibleUnscheduled},
             m \in Nat, f \in [Block -> Nat] :
          /\ S = VisibleScheduled /\ U = VisibleUnscheduled
          /\ m = VisibleSeqno /\ f = VisibleBnext
    BY SeenTypes
  <1>1. S \subseteq Block
    BY <1>0, SeenBlocks
  <1>2. CASE J!DiscardDue(b)
    <2>1. /\ VisibleScheduled' = S \ {b} /\ VisibleUnscheduled' = U
          /\ VisibleSeqno' = m + 1 /\ VisibleBnext' = [f EXCEPT ![b] = m + 1]
      BY <1>0, <1>2 DEF J!DiscardDue
    <2>2. /\ f[b] = m + 1
          /\ U # {} \/ \E c \in S : f[c] = m + 2
      BY <1>0, <1>2 DEF J!DiscardDue, J!Obsoleted, J!OwnerOf, J!DiscardDuePossible
    <2>3. Fillable(S \ {b}, U, m + 1, [f EXCEPT ![b] = m + 1])
      <3> SUFFICES ASSUME U = {}
                   PROVE  \E c \in S \ {b} : [f EXCEPT ![b] = m + 1][c] = m + 1 + 1
        BY DEF Fillable
      <3>1. PICK c \in S : f[c] = m + 2
        BY <2>2
      <3>2. c # b /\ m + 1 + 1 = m + 2
        BY <2>2, <3>1
      <3> QED BY <1>1, <3>1, <3>2
    <2> QED BY <2>1, <2>3, AvailableMeansNext
  <1>3. CASE J!DiscardUnscheduled(b)
    <2>1. VisibleUnscheduled' = U \ {b} /\ \E c, d \in U : c # d
      BY <1>0, <1>3 DEF J!DiscardUnscheduled, J!DiscardUnscheduledPossible
    <2>2. VisibleUnscheduled' # {}
      BY <2>1
    <2> QED BY <2>2, AvailableMeansNext DEF Fillable
  <1> QED BY <1>2, <1>3

(* Every step of the juggler leaves a block available. *)
LEMMA AvailableNext ==
  ASSUME ListInv, J!BlockAvailable, [J!JugglerNext]_(J!jvars)
  PROVE  (J!BlockAvailable)'
  <1>1. ASSUME NEW b \in Block, J!AddNew(b) PROVE (J!BlockAvailable)'
    <2>1. VisibleUnscheduled' # {}
      BY <1>1 DEF J!AddNew
    <2> QED BY <2>1, AvailableMeansNext DEF Fillable
  <1>2. CASE J!JugglerFree
    <2>1. VisibleScheduled' = {} /\ VisibleUnscheduled' = {}
      BY <1>2 DEF J!JugglerFree
    <2> QED BY <2>1, AvailableMeansNext DEF Fillable
  <1>3. CASE UNCHANGED J!jvars
    <2>1. /\ VisibleScheduled' = VisibleScheduled
          /\ VisibleUnscheduled' = VisibleUnscheduled
          /\ VisibleSeqno' = VisibleSeqno /\ VisibleBnext' = VisibleBnext
      BY <1>3 DEF J!jvars
    <2> QED BY <2>1, AvailableMeans, AvailableMeansNext
  <1> QED BY <1>1, <1>2, <1>3, SelectionFillable, DiscardFillable DEF J!JugglerNext

(* The assertion of juggler_get_devblock: when no block is due, the        *)
(* unscheduled list is not empty.                                          *)
SelectionPossible ==
  Ready /\ Members # {} => HeadIsDue \/ unsched # <<>>

(* juggler_get_devblock finds a block, by looking at the head of one list  *)
(* and at the length of the other, after every sequence of additions,      *)
(* selections, discards and rebuilds from disk.                            *)
THEOREM SelectionIsPossible == ListSpec => []SelectionPossible
  <1>1. J!JugglerInit => J!BlockAvailable
    BY DEF J!JugglerInit, J!BlockAvailable, J!Members
  <1>2. ListInv /\ J!BlockAvailable /\ [ListNext]_lvars => (J!BlockAvailable)'
    BY RefinesNext, AvailableNext
  <1>3. ListInv /\ J!BlockAvailable => SelectionPossible
    <2> SUFFICES ASSUME ListInv, J!BlockAvailable, Ready, Members # {},
                        ~ HeadIsDue
                 PROVE  unsched # <<>>
      BY DEF SelectionPossible
    <2>1. /\ VisibleScheduled = ToSet(sched) /\ VisibleUnscheduled = ToSet(unsched)
          /\ VisibleSeqno = seqno /\ VisibleBnext = bnext
      BY SeenAtRest DEF Ready, Top
    <2>2. J!Obsoleted = {}
      <3>1. \A c \in ToSet(sched) : seqno + 1 < bnext[c]
        BY NoneDue
      <3> QED BY <2>1, <3>1, InvFacts DEF J!Obsoleted, J!OwnerOf
    <2>3. J!Members # {}
      BY <2>1 DEF J!Members, Members
    <2>4. ToSet(unsched) # {}
      BY <2>1, <2>2, <2>3 DEF J!BlockAvailable, J!Candidates
    <2> QED BY <2>4, Empty
  <1> QED BY <1>1, <1>2, <1>3, RefinesInit, ListInvariant, PTL DEF ListSpec
============================================================================
