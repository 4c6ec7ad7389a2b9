------------------------------ MODULE Hashtbl ------------------------------
(***************************************************************************)
(* The thread safe hash table of src/src/hashtbl.c, with hand-over-hand    *)
(* locking: every bucket and every element has a ptr_mutex that protects   *)
(* the pointer to the next element, every element has a data_mutex that    *)
(* protects its contents and that a successful search leaves locked.  The  *)
(* daemon keeps its partitions, and the identities of their keys, in such  *)
(* tables; the threads are the control thread and those of FUSE.           *)
(*                                                                         *)
(* A step ends where a thread waits for a mutex: locking a mutex and then  *)
(* unlocking another is one step, and so is the use of count_mutex, under  *)
(* which no other mutex is locked.                                         *)
(*                                                                         *)
(* The contract of the caller: an element is deleted once.                 *)
(***************************************************************************)
EXTENDS Integers, FiniteSets, SequencesExt

CONSTANTS
  Thread, Key, Elt,  \* elements are hashtbl_elt_t objects, never reused
  NoBuckets,         \* NO_BUCKETS
  HashOf,            \* get_bucket: the bucket of each key
  Null,              \* the null pointer, and the owner of a free mutex
  Initial,           \* the keys that are in the table already
  Budget             \* bound: operations of each thread

Bucket == 0..(NoBuckets - 1)
Node == Bucket \cup Elt

ASSUME HashtblAssumption ==
  /\ NoBuckets \in Nat \ {0} /\ Budget \in Nat
  /\ HashOf \in [Key -> Bucket]
  /\ Key # {} /\ IsFiniteSet(Thread)
  /\ Null \notin Thread \cup Elt
  /\ IsFiniteSet(Elt) /\ Elt \cap Bucket = {}
  /\ Initial \in Seq(Key) /\ IsInjective(Initial)
  /\ Len(Initial) <= Cardinality(Elt)

VARIABLES
  nxt,     \* bucket->first and elt->next
  key,     \* elt->key
  mem,     \* whether an element is allocated or freed
  ptrmx,   \* the owner of every ptr_mutex
  datamx,  \* the owner of every data_mutex
  uniqmx,  \* the owner of every uniq_mutex
  count,   \* h->count
  th,      \* the local variables of every thread
  doomed,  \* the elements whose deletion a caller has decided on
  left     \* bound: operations a thread may still begin

table == <<nxt, key, mem, count>>
mutexes == <<ptrmx, datamx, uniqmx>>
vars == <<table, mutexes, th, doomed, left>>

AnyKey == CHOOSE k \in Key : TRUE

(* pc is where the thread is in its operation, want the key it looks for,  *)
(* bkt its bucket, at the node whose ptr_mutex it holds (the last one of   *)
(* the walk), elt the element it adds, has found or deletes.  As a history *)
(* of a traversal: what it has to report and what it has reported.         *)
Idle == [pc |-> "idle", op |-> "none", want |-> AnyKey, bkt |-> 0,
         at |-> 0, elt |-> Null, must |-> {}, seen |-> {}]

Local ==
  [pc : {"idle", "uniq", "enter", "walk", "dup", "undo", "link", "hold",
         "uncount", "unlink"},
   op : {"none", "find", "add", "delete", "traverse"},
   want : Key, bkt : Bucket, at : Node, elt : Elt \cup {Null},
   must : SUBSET Elt, seen : SUBSET Elt]

HashtblTypeOK ==
  /\ nxt \in [Node -> Elt \cup {Null}]
  /\ key \in [Elt -> Key]
  /\ mem \in [Elt -> {"unused", "live", "freed"}]
  /\ ptrmx \in [Node -> Thread \cup {Null}]
  /\ datamx \in [Elt -> Thread \cup {Null}]
  /\ uniqmx \in [Bucket -> Thread \cup {Null}]
  /\ count \in Nat
  /\ \A t \in Thread : th[t] \in Local
  /\ doomed \subseteq Elt
  /\ left \in [Thread -> 0..Budget]

----------------------------------------------------------------------------
(* The elements that a walk along the pointers f comes to after node x:    *)
(* those that are in every set that holds f[x] and that f does not leave.  *)
Stays(f, S) == \A e \in S : f[e] \in S \cup {Null}

Reach(f, x) ==
  {e \in Elt : \A S \in SUBSET Elt :
                 f[x] \in S \cup {Null} /\ Stays(f, S) => e \in S}

(* Those of a bucket, and those of the table. *)
Chain(x) == Reach(nxt, x)

Linked == UNION {Chain(b) : b \in Bucket}

(* compare_ptr, compare_true and compare_key. *)
Matches(t, e) ==
  CASE th[t].op = "delete" -> e = th[t].elt
    [] th[t].op = "traverse" -> TRUE
    [] OTHER -> key[e] = th[t].want

PositionOf(q, e) == CHOOSE i \in DOMAIN q : q[i] = e

(* The elements of the keys in Initial, and the first one in bucket b of   *)
(* those behind position i.                                                *)
Made == [i \in DOMAIN Initial |-> SetToSeq(Elt)[i]]

Behind(b, i) == {j \in DOMAIN Initial : i < j /\ HashOf[Initial[j]] = b}

FirstBehind(b, i) ==
  IF Behind(b, i) = {} THEN Null ELSE Made[Min(Behind(b, i))]

(* No thread is in the table; hashtbl_init_default has made it and, one    *)
(* after the other, the keys of Initial were added.                        *)
HashtblInit ==
  /\ key = [e \in Elt |-> IF e \in ToSet(Made)
                          THEN Initial[PositionOf(Made, e)] ELSE AnyKey]
  /\ nxt = [x \in Node |->
              IF x \in Bucket THEN FirstBehind(x, 0)
              ELSE IF x \in ToSet(Made)
                   THEN FirstBehind(HashOf[key[x]], PositionOf(Made, x))
              ELSE Null]
  /\ mem = [e \in Elt |-> IF e \in ToSet(Made) THEN "live" ELSE "unused"]
  /\ count = Len(Initial)
  /\ ptrmx = [x \in Node |-> Null]
  /\ datamx = [e \in Elt |-> Null]
  /\ uniqmx = [b \in Bucket |-> Null]
  /\ th = [t \in Thread |-> Idle]
  /\ doomed = {}
  /\ left = [t \in Thread |-> Budget]

Become(t, l) == th' = [th EXCEPT ![t] = l]

Begin(t) ==
  /\ th[t].pc = "idle" /\ left[t] > 0
  /\ left' = [left EXCEPT ![t] = @ - 1]

----------------------------------------------------------------------------
(* hashtbl_find_element_bykey *)
BeginFind(t, k) ==
  /\ Begin(t)
  /\ Become(t, [Idle EXCEPT !.pc = "enter", !.op = "find", !.want = k,
                            !.bkt = HashOf[k]])
  /\ UNCHANGED <<table, mutexes, doomed>>

(* hashtbl_allocate_and_add_element; the element is counted at once. *)
BeginAdd(t, k) ==
  /\ Begin(t)
  /\ \E e \in Elt : mem[e] = "unused"
  /\ LET e == CHOOSE e \in Elt : mem[e] = "unused"
     IN  /\ mem' = [mem EXCEPT ![e] = "live"]
         /\ key' = [key EXCEPT ![e] = k]
         /\ Become(t, [Idle EXCEPT !.pc = "uniq", !.op = "add", !.want = k,
                                   !.bkt = HashOf[k], !.elt = e])
  /\ count' = count + 1
  /\ UNCHANGED <<nxt, mutexes, doomed>>

(* hashtbl_ts_traverse, from hashtbl_first_element on. *)
BeginTraverse(t) ==
  /\ Begin(t)
  /\ Become(t, [Idle EXCEPT !.pc = "enter", !.op = "traverse",
                            !.must = Linked])
  /\ UNCHANGED <<table, mutexes, doomed>>

(* uniq_mutex is not locked (wrong variant, for mutation tests, like every *)
(* definition whose name ends in _bad).                                    *)
LockUniq_bad(t) ==
  /\ th[t].pc = "uniq"
  /\ Become(t, [th[t] EXCEPT !.pc = "enter"])
  /\ UNCHANGED <<table, mutexes, doomed, left>>

(* hashtbl_add_element: at most one thread adds to a bucket. *)
LockUniq(t) ==
  /\ th[t].pc = "uniq"
  /\ uniqmx[th[t].bkt] = Null
  /\ uniqmx' = [uniqmx EXCEPT ![th[t].bkt] = t]
  /\ Become(t, [th[t] EXCEPT !.pc = "enter"])
  /\ UNCHANGED <<table, ptrmx, datamx, doomed, left>>

(* hashtbl_find_elementp_in_bucket *)
Enter(t) ==
  LET b == th[t].bkt
  IN  /\ th[t].pc = "enter"
      /\ ptrmx[b] = Null
      /\ ptrmx' = [ptrmx EXCEPT ![b] = t]
      /\ Become(t, [th[t] EXCEPT !.pc = "walk", !.at = b])
      /\ UNCHANGED <<table, datamx, uniqmx, doomed, left>>

(* The loop of hashtbl_find_elementp_starting_at.  An element that does    *)
(* not match: the walk moves on to it, hand over hand.                     *)
Advance(t) ==
  LET n == nxt[th[t].at]
  IN  /\ th[t].pc = "walk" /\ n # Null
      /\ ~ Matches(t, n)
      /\ ptrmx[n] = Null
      /\ ptrmx' = [ptrmx EXCEPT ![n] = t, ![th[t].at] = Null]
      /\ Become(t, [th[t] EXCEPT !.at = n])
      /\ UNCHANGED <<table, datamx, uniqmx, doomed, left>>

(* The element that matches is locked.  A deletion keeps the pointer to it *)
(* locked, the other operations let go of it.                              *)
Found(t) ==
  LET l == th[t]
      n == nxt[l.at]
  IN  /\ l.pc = "walk" /\ n # Null
      /\ Matches(t, n)
      /\ datamx[n] = Null
      /\ datamx' = [datamx EXCEPT ![n] = t]
      /\ CASE l.op = "delete" -> Become(t, [l EXCEPT !.pc = "uncount"])
           [] l.op = "add" -> Become(t, [l EXCEPT !.pc = "dup"])
           [] l.op = "find" -> Become(t, [l EXCEPT !.pc = "hold", !.elt = n])
           [] OTHER -> Become(t, [l EXCEPT !.pc = "hold", !.elt = n,
                                           !.seen = @ \cup {n}])
      /\ ptrmx' = IF l.op = "delete" THEN ptrmx
                  ELSE [ptrmx EXCEPT ![l.at] = Null]
      /\ UNCHANGED <<table, uniqmx, doomed, left>>

(* The end of a bucket.  A traversal goes on with the next bucket. *)
Missed(t) ==
  LET l == th[t]
  IN  /\ l.pc = "walk" /\ nxt[l.at] = Null
      /\ ptrmx' = [ptrmx EXCEPT ![l.at] = Null]
      /\ CASE l.op = "add" -> Become(t, [l EXCEPT !.pc = "link"])
           [] l.op = "traverse" /\ l.bkt + 1 \in Bucket ->
                Become(t, [l EXCEPT !.pc = "enter", !.bkt = @ + 1])
           [] OTHER -> Become(t, Idle)
      /\ UNCHANGED <<table, datamx, uniqmx, doomed, left>>

(* uniq_mutex stays locked. *)
Duplicate_bad(t) ==
  LET e == CHOOSE e \in Elt : datamx[e] = t
  IN  /\ th[t].pc = "dup"
      /\ datamx' = [datamx EXCEPT ![e] = Null]
      /\ Become(t, [th[t] EXCEPT !.pc = "undo"])
      /\ UNCHANGED <<table, ptrmx, uniqmx, doomed, left>>

(* hashtbl_add_element finds the key: unlock it all, and undo the count.   *)
(* The new element is not freed by anyone.                                 *)
Duplicate(t) ==
  LET b == th[t].bkt
      e == CHOOSE e \in Elt : datamx[e] = t
  IN  /\ th[t].pc = "dup"
      /\ datamx' = [datamx EXCEPT ![e] = Null]
      /\ uniqmx' = [uniqmx EXCEPT ![b] = Null]
      /\ Become(t, [th[t] EXCEPT !.pc = "undo"])
      /\ UNCHANGED <<table, ptrmx, doomed, left>>

(* The count is not undone. *)
UndoCount_bad(t) ==
  /\ th[t].pc = "undo"
  /\ Become(t, Idle)
  /\ UNCHANGED <<table, mutexes, doomed, left>>

UndoCount(t) ==
  /\ th[t].pc = "undo"
  /\ count' = count - 1
  /\ Become(t, Idle)
  /\ UNCHANGED <<nxt, key, mem, mutexes, doomed, left>>

(* hashtbl_add_element links the new element in front of the bucket and    *)
(* leaves it locked.                                                       *)
Link(t) ==
  LET b == th[t].bkt
      e == th[t].elt
  IN  /\ th[t].pc = "link"
      /\ ptrmx[b] = Null
      /\ nxt' = [nxt EXCEPT ![e] = nxt[b], ![b] = e]
      /\ datamx' = [datamx EXCEPT ![e] = t]
      /\ uniqmx' = [uniqmx EXCEPT ![b] = Null]
      /\ Become(t, [th[t] EXCEPT !.pc = "hold"])
      /\ UNCHANGED <<key, mem, count, ptrmx, doomed, left>>

(* hashtbl_unlock_element_byptr, by the caller of find or add, and by a    *)
(* traversal whose callback fails.                                         *)
Release(t) ==
  /\ th[t].pc = "hold"
  /\ datamx' = [datamx EXCEPT ![th[t].elt] = Null]
  /\ Become(t, Idle)
  /\ UNCHANGED <<table, ptrmx, uniqmx, doomed, left>>

(* Unlock it and call hashtbl_delete_element_byptr. *)
ReleaseAndDelete(t) ==
  LET e == th[t].elt
  IN  /\ th[t].pc = "hold" /\ th[t].op \in {"find", "add"}
      /\ e \notin doomed
      /\ doomed' = doomed \cup {e}
      /\ datamx' = [datamx EXCEPT ![e] = Null]
      /\ Become(t, [Idle EXCEPT !.pc = "enter", !.op = "delete", !.elt = e,
                                !.bkt = HashOf[key[e]]])
      /\ UNCHANGED <<table, ptrmx, uniqmx, left>>

(* The traversal goes on with the next bucket. *)
NextElement_bad(t) ==
  LET e == th[t].elt
  IN  /\ th[t].pc = "hold" /\ th[t].op = "traverse"
      /\ th[t].bkt + 1 \in Bucket
      /\ datamx' = [datamx EXCEPT ![e] = Null]
      /\ Become(t, [th[t] EXCEPT !.pc = "enter", !.bkt = @ + 1])
      /\ UNCHANGED <<table, ptrmx, uniqmx, doomed, left>>

(* hashtbl_next_element_byptr: lock the pointer of the element, then let   *)
(* go of the element.                                                      *)
NextElement(t) ==
  LET e == th[t].elt
  IN  /\ th[t].pc = "hold" /\ th[t].op = "traverse"
      /\ ptrmx[e] = Null
      /\ ptrmx' = [ptrmx EXCEPT ![e] = t]
      /\ datamx' = [datamx EXCEPT ![e] = Null]
      /\ Become(t, [th[t] EXCEPT !.pc = "walk", !.at = e])
      /\ UNCHANGED <<table, uniqmx, doomed, left>>

(* The count goes down twice. *)
Uncount_bad(t) ==
  /\ th[t].pc = "uncount"
  /\ count' = count - 2
  /\ Become(t, [th[t] EXCEPT !.pc = "unlink"])
  /\ UNCHANGED <<nxt, key, mem, mutexes, doomed, left>>

(* hashtbl_delete_element_from_bucket has found the element. *)
Uncount(t) ==
  /\ th[t].pc = "uncount"
  /\ count' = count - 1
  /\ Become(t, [th[t] EXCEPT !.pc = "unlink"])
  /\ UNCHANGED <<nxt, key, mem, mutexes, doomed, left>>

(* What hashtbl_delete_element does once it has all the locks: unlink the  *)
(* element, unlock and destroy its mutexes, call the freer.                *)
Freed(t, e) ==
  /\ nxt' = [nxt EXCEPT ![th[t].at] = nxt[e]]
  /\ datamx' = [datamx EXCEPT ![e] = Null]
  /\ ptrmx' = [ptrmx EXCEPT ![th[t].at] = Null]
  /\ mem' = [mem EXCEPT ![e] = "freed"]
  /\ th' = [u \in Thread |-> IF u = t THEN Idle
                             ELSE [th[u] EXCEPT !.must = @ \ {e}]]
  /\ UNCHANGED <<key, count, uniqmx, doomed, left>>

(* The pointer to the next element is not locked. *)
Unlink_bad(t) ==
  /\ th[t].pc = "unlink"
  /\ Freed(t, th[t].elt)

Unlink(t) ==
  /\ th[t].pc = "unlink"
  /\ ptrmx[th[t].elt] = Null
  /\ Freed(t, th[t].elt)

(* hashtbl_empty, when the threads are gone. *)
Empty ==
  /\ \A t \in Thread : th[t].pc = "idle" /\ left[t] = 0
  /\ Linked # {}
  /\ nxt' = [x \in Node |-> IF x \in Bucket THEN Null ELSE nxt[x]]
  /\ mem' = [e \in Elt |-> IF e \in Linked THEN "freed" ELSE mem[e]]
  /\ count' = 0
  /\ UNCHANGED <<key, mutexes, th, doomed, left>>

(* The table has been emptied: the daemon ends. *)
Finished ==
  /\ \A t \in Thread : th[t].pc = "idle" /\ left[t] = 0
  /\ Linked = {}
  /\ UNCHANGED vars

Step(t) ==
  \/ LockUniq(t) \/ Enter(t) \/ Advance(t) \/ Found(t) \/ Missed(t)
  \/ Duplicate(t) \/ UndoCount(t) \/ Link(t)
  \/ Release(t) \/ ReleaseAndDelete(t) \/ NextElement(t)
  \/ Uncount(t) \/ Unlink(t)

HashtblNext ==
  \/ \E t \in Thread :
       \/ \E k \in Key : BeginFind(t, k) \/ BeginAdd(t, k)
       \/ BeginTraverse(t)
       \/ Step(t)
  \/ Empty
  \/ Finished

(* A thread that is in the table and can go on does so: it is scheduled,   *)
(* and a mutex that stays free is obtained.                                *)
HashtblSpec ==
  HashtblInit /\ [][HashtblNext]_vars /\ \A t \in Thread : WF_vars(Step(t))

----------------------------------------------------------------------------
(* Two threads that add the same key at the same time do not both succeed: *)
(* no key is in the table twice.                                           *)
UniqueKeys == \A e, f \in Linked : key[e] = key[f] => e = f

(* No thread uses, stands on or waits for an element that was freed: while *)
(* one thread deletes an element, no other can be using it, walking past   *)
(* it or waiting for one of its mutexes, which are destroyed.              *)
NoDangling ==
  \A t \in Thread :
    LET l == th[t]
        touched == (CASE l.pc = "walk" -> {l.at, nxt[l.at]}
                      [] l.pc \in {"uncount", "unlink"} -> {l.at, l.elt}
                      [] l.pc = "hold" -> {l.elt}
                      [] OTHER -> {}) \cap Elt
    IN  \A e \in touched : mem[e] = "live"

(* count is the number of elements in the table plus those announced by    *)
(* threads that are adding, minus those that are about to be unlinked.     *)
CountExact ==
  count = Cardinality(Linked)
          + Cardinality({t \in Thread : /\ th[t].op = "add"
                                        /\ th[t].pc # "hold"})
          - Cardinality({t \in Thread : th[t].pc = "unlink"})

(* A traversal that comes to its end has reported every element that was   *)
(* in the table all the time, and it reports none twice, whatever was      *)
(* added and deleted meanwhile.                                            *)
TraversalExact ==
  [][\A t \in Thread :
       th[t].op = "traverse" /\ th[t].pc = "walk" =>
         /\ th'[t].pc = "idle" => th[t].must \subseteq th[t].seen
         /\ th'[t].pc = "hold" => th'[t].elt \notin th[t].seen]_vars

(* No operation waits forever: the locks are always taken in the same      *)
(* order, along the chain.                                                 *)
OperationsEnd ==
  \A t \in Thread : th[t].pc # "idle" ~> th[t].pc = "idle"
============================================================================
