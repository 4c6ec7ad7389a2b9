---------------------------- MODULE JugglerList ----------------------------
(***************************************************************************)
(* src/src/juggler.c with its two linked lists and the slot-by-slot walk   *)
(* of juggler_get_devblock, and the way both are rebuilt from disk.  The   *)
(* lists are sequences, the walk is one step per slot, the rebuild is one  *)
(* step per block.  Refinement: JugglerSpec of Juggler.tla, whose          *)
(* GetDevblock happens when the walk ends.                                 *)
(***************************************************************************)
EXTENDS Integers, FiniteSets, SequencesExt

CONSTANTS Block, MaxSeqno, Horizon

(* With at least as many slots within the horizon as there are blocks, one *)
(* of them is free: the bound ends no walk that the code would go on with. *)
ASSUME ListAssumption ==
  /\ MaxSeqno \in Nat /\ Horizon \in Nat
  /\ IsFiniteSet(Block) /\ Cardinality(Block) <= Horizon

VARIABLES
  sched,    \* j->scheduled, a list
  unsched,  \* j->unscheduled, a list
  seqno,    \* j->seqno
  bseq,     \* bi->seqno
  bnext,    \* bi->next_seqno
  walk,     \* the local variables of a juggler_get_devblock under way
  replay    \* dev->replay: blocks to be added when a partition is opened

lvars == <<sched, unsched, seqno, bseq, bnext, walk, replay>>

Idle == [on |-> FALSE]

Members == ToSet(sched) \cup ToSet(unsched)

ListInit ==
  /\ sched = <<>> /\ unsched = <<>>
  /\ seqno = 0
  /\ bseq = [b \in Block |-> 0] /\ bnext = [b \in Block |-> 0]
  /\ walk = Idle
  /\ replay = {}

(* The juggler is not in the middle of something. *)
Ready == ~ walk.on /\ replay = {}

----------------------------------------------------------------------------
(* juggler_get_obsoleted: only the head of the scheduled list is examined. *)
HeadIsDue == sched # <<>> /\ bnext[Head(sched)] = seqno + 1

(* juggler_discard_possible: next->next is the second of the list. *)
DiscardPossible ==
  IF HeadIsDue
  THEN \/ unsched # <<>>
       \/ Len(sched) > 1 /\ bnext[sched[2]] = bnext[sched[1]] + 1
  ELSE Len(unsched) >= 2

(* A block is linked in at the head (wrong variant, for mutation tests,    *)
(* like every definition whose name ends in _bad).                         *)
InsertSorted_bad(list, b) == <<b>> \o list

(* The list with b in front of the first block whose slot is not earlier   *)
(* (the while loop of juggler_add_macroblock).                             *)
InsertSorted(list, b) ==
  LET place == CHOOSE p \in 1..(Len(list) + 1) :
                 /\ \A i \in 1..(p - 1) : bnext[list[i]] < bnext[b]
                 /\ p <= Len(list) => bnext[list[p]] >= bnext[b]
  IN  InsertAt(list, place, b)

(* juggler_add_macroblock, new block: pushed in front. *)
Add(b) ==
  /\ Ready /\ b \notin Members
  /\ unsched' = <<b>> \o unsched
  /\ bseq' = [bseq EXCEPT ![b] = 0]
  /\ bnext' = [bnext EXCEPT ![b] = 0]
  /\ UNCHANGED <<sched, seqno, walk, replay>>

(* available_blocks at the start of the walk: the unscheduled blocks and   *)
(* the selected one.                                                       *)
FirstAvailable(u) == Len(u) + 1

(* juggler_get_devblock up to the walk.  A block that is due is the head   *)
(* of the scheduled list, otherwise the i-th unscheduled block is taken.   *)
Begin(i) ==
  /\ Ready /\ seqno < MaxSeqno
  /\ IF HeadIsDue
     THEN /\ i = 1
          /\ sched' = Tail(sched)
          /\ UNCHANGED unsched
     ELSE /\ i \in 1..Len(unsched)
          /\ unsched' = RemoveAt(unsched, i)
          /\ UNCHANGED sched
  /\ LET b == IF HeadIsDue THEN Head(sched) ELSE unsched[i]
     IN  /\ seqno' = seqno + 1
         /\ walk' = [on |-> TRUE, block |-> b, pos |-> 1,
                     available |-> FirstAvailable(unsched'),
                     wasDue |-> HeadIsDue, oldSeq |-> bseq[b]]
         /\ bseq' = [bseq EXCEPT ![b] = seqno + 1]
         /\ bnext' = [bnext EXCEPT ![b] = seqno + 1]
  /\ UNCHANGED replay

(* The slot the walk looks at, and whether it belongs to another block. *)
Slot == bnext[walk.block] + 1

SlotOwned == walk.pos <= Len(sched) /\ bnext[sched[walk.pos]] = Slot

(* The owner of a skipped slot is not counted. *)
SkipOwned_bad ==
  /\ walk.on /\ SlotOwned
  /\ bnext' = [bnext EXCEPT ![walk.block] = Slot]
  /\ walk' = [walk EXCEPT !.pos = @ + 1]
  /\ UNCHANGED <<sched, unsched, seqno, bseq, replay>>

(* An owned slot is skipped; its owner competes for the later slots. *)
SkipOwned ==
  /\ walk.on /\ SlotOwned
  /\ bnext' = [bnext EXCEPT ![walk.block] = Slot]
  /\ walk' = [walk EXCEPT !.pos = walk.pos + 1,
                         !.available = walk.available + 1]
  /\ UNCHANGED <<sched, unsched, seqno, bseq, replay>>

(* A free slot may be refused although no other block can fill it. *)
RefuseFree_bad ==
  /\ walk.on /\ ~ SlotOwned
  /\ \E n \in (Slot + 1)..(seqno + Horizon) :
       \A c \in ToSet(sched) : bnext[c] # n
  /\ bnext' = [bnext EXCEPT ![walk.block] = Slot]
  /\ UNCHANGED <<sched, unsched, seqno, bseq, walk, replay>>

(* A free slot is refused when random_custom(available) is not 0, which is *)
(* possible only with available > 1.  Bound: a free slot is left within    *)
(* the horizon.                                                            *)
RefuseFree ==
  /\ walk.on /\ ~ SlotOwned
  /\ walk.available > 1
  /\ \E n \in (Slot + 1)..(seqno + Horizon) :
       \A c \in ToSet(sched) : bnext[c] # n
  /\ bnext' = [bnext EXCEPT ![walk.block] = Slot]
  /\ UNCHANGED <<sched, unsched, seqno, bseq, walk, replay>>

(* A free slot is taken: the block is linked in at the walk's position. *)
TakeFree ==
  /\ walk.on /\ ~ SlotOwned
  /\ bnext' = [bnext EXCEPT ![walk.block] = Slot]
  /\ sched' = InsertAt(sched, walk.pos, walk.block)
  /\ walk' = Idle
  /\ UNCHANGED <<unsched, seqno, bseq, replay>>

(* juggler_get_devblock(j, 1). *)
Discard(i) ==
  /\ Ready /\ seqno < MaxSeqno
  /\ DiscardPossible
  /\ IF HeadIsDue
     THEN /\ i = 1
          /\ sched' = Tail(sched)
          /\ seqno' = seqno + 1
          /\ bseq' = [bseq EXCEPT ![Head(sched)] = seqno + 1]
          /\ bnext' = [bnext EXCEPT ![Head(sched)] = seqno + 1]
          /\ UNCHANGED unsched
     ELSE /\ i \in 1..Len(unsched)
          /\ unsched' = RemoveAt(unsched, i)
          /\ bseq' = [bseq EXCEPT ![unsched[i]] = 0]
          /\ bnext' = [bnext EXCEPT ![unsched[i]] = 0]
          /\ UNCHANGED <<sched, seqno>>
  /\ UNCHANGED <<walk, replay>>

(* The partition is opened again, up to the end of blockio_dev_init: the   *)
(* blocks that have been written wait in dev->replay, the others are added *)
(* to the empty juggler in some order.  The last selection must have been  *)
(* written to disk and not have been a discard.                            *)
Reopen ==
  /\ Ready
  /\ \E b \in ToSet(sched) : bseq[b] = seqno
  /\ sched' = <<>>
  /\ replay' = ToSet(sched)
  /\ unsched' \in {f \in [DOMAIN unsched -> ToSet(unsched)] :
                    IsInjective(f) /\ ToSet(f) = ToSet(unsched)}
  /\ seqno' = 0
  /\ UNCHANGED <<bseq, bnext, walk>>

(* dllarr_last: dev->replay is sorted by seqno. *)
LastOf(r) == CHOOSE b \in r : \A c \in r : bseq[c] <= bseq[b]

(* juggler_notify_seqno *)
Notified(s, n) == IF n > s THEN n ELSE s

(* The while loop of scubed3_init, one block: juggler_add_macroblock of a  *)
(* block that is in use.                                                   *)
Replay ==
  /\ replay # {}
  /\ LET b == LastOf(replay)
     IN  /\ sched' = InsertSorted(sched, b)
         /\ replay' = replay \ {b}
         /\ seqno' = Notified(seqno, bseq[b])
  /\ UNCHANGED <<unsched, bseq, bnext, walk>>

(* juggler_free_and_empty_into and the next juggler_init. *)
Free ==
  /\ Ready /\ Members # {}
  /\ sched' = <<>> /\ unsched' = <<>>
  /\ seqno' = 0
  /\ UNCHANGED <<bseq, bnext, walk, replay>>

ListNext ==
  \/ \E b \in Block : Add(b)
  \/ \E i \in 1..(Len(unsched) + 1) : Begin(i) \/ Discard(i)
  \/ SkipOwned \/ RefuseFree \/ TakeFree
  \/ Reopen \/ Replay \/ Free

ListSpec == ListInit /\ [][ListNext]_lvars

----------------------------------------------------------------------------
(* Until the walk ends nothing of the selection is visible, and nothing at *)
(* all is to be seen of the rebuild.                                       *)
VisibleScheduled ==
  ToSet(sched) \cup replay \cup
    IF walk.on /\ walk.wasDue THEN {walk.block} ELSE {}

VisibleUnscheduled ==
  ToSet(unsched) \cup IF walk.on /\ ~ walk.wasDue THEN {walk.block} ELSE {}

VisibleSeqno ==
  CASE walk.on -> seqno - 1
    [] ~ walk.on /\ replay # {} -> Notified(seqno, bseq[LastOf(replay)])
    [] OTHER -> seqno

VisibleBseq ==
  IF walk.on THEN [bseq EXCEPT ![walk.block] = walk.oldSeq] ELSE bseq

VisibleBnext ==
  IF walk.on
  THEN [bnext EXCEPT ![walk.block] = IF walk.wasDue THEN seqno ELSE 0]
  ELSE bnext

J == INSTANCE Juggler WITH
       scheduled <- VisibleScheduled, unscheduled <- VisibleUnscheduled,
       seqno <- VisibleSeqno, bseq <- VisibleBseq, bnext <- VisibleBnext

(* The list implementation of juggler.c, walk, random refusals, discards   *)
(* and the rebuild from disk included, behaves as the schedule of          *)
(* Juggler.tla; the rebuild is invisible.                                  *)
ImplementsJuggler == J!JugglerSpec

(* The scheduled list is strictly ordered by slot at every moment,         *)
(* whatever the position at which the walk links a block in: only then may *)
(* juggler_get_obsoleted look at the head alone.                           *)
ListOrdered ==
  \A i, k \in DOMAIN sched : i < k => bnext[sched[i]] < bnext[sched[k]]

(* available_blocks is the number of blocks that could appear in the slot  *)
(* the walk looks at: all the blocks of the partition except those that    *)
(* own this slot or a later one.  The uniform choice of the random         *)
(* selection depends on it.                                                *)
AvailableExact ==
  walk.on =>
    walk.available = Cardinality(Members) + 1
                       - Cardinality({b \in ToSet(sched) : bnext[b] >= Slot})
============================================================================
