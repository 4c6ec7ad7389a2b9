------------------------------ MODULE Juggler ------------------------------
(***************************************************************************)
(* The block juggler of src/src/juggler.c: it decides which macroblock of  *)
(* a partition is written next and, at the same moment, at which sequence  *)
(* number that macroblock will be written again.  A block is unscheduled   *)
(* (allocated, never written) or scheduled (it owns the slot bnext[b]).    *)
(*                                                                         *)
(* The linked lists of the code are sets here: the scheduled list is       *)
(* ordered by next_seqno, so its order is bnext itself, and the order of   *)
(* the unscheduled list is never observable because a member is picked at  *)
(* random.  JugglerList.tla has the lists and the walk of the code and is  *)
(* shown to implement this module.                                         *)
(***************************************************************************)
EXTENDS Integers

CONSTANTS
  Block,      \* the macroblocks (blockio_info_t)
  MaxSeqno,   \* bound: the highest sequence number a run hands out
  Horizon     \* bound: how far ahead of seqno a block may be rescheduled

ASSUME SeqnoAssumption == MaxSeqno \in Nat /\ Horizon \in Nat

VARIABLES
  scheduled,    \* j->scheduled
  unscheduled,  \* j->unscheduled
  seqno,        \* j->seqno, the last sequence number handed out
  bseq,         \* bi->seqno of every block
  bnext         \* bi->next_seqno of every block

jvars == <<scheduled, unscheduled, seqno, bseq, bnext>>

JugglerTypeOK ==
  /\ scheduled \subseteq Block
  /\ unscheduled \subseteq Block
  /\ seqno \in Nat
  /\ bseq \in [Block -> Nat]
  /\ bnext \in [Block -> Nat]

----------------------------------------------------------------------------
(* The blocks the juggler owns (juggler_count counts them). *)
Members == scheduled \cup unscheduled

(* juggler_get_obsoleted: the block that owns the slot s, if there is one. *)
OwnerOf(s) == {b \in scheduled : bnext[b] = s}

Obsoleted == OwnerOf(seqno + 1)

(* What juggler_get_devblock may return: the block that is due or, when    *)
(* no block is due, any unscheduled one.                                   *)
Candidates == IF Obsoleted # {} THEN Obsoleted ELSE unscheduled

(* Owned slots are not skipped.  (A wrong variant, used by the mutation    *)
(* tests only: it shows that some property fails when the code is wrong in *)
(* this way.  So are all the definitions whose names end in _bad.)         *)
NextSlots_bad(b) ==
  IF unscheduled \ {b} = {} THEN {seqno + 2}
  ELSE (seqno + 2)..(seqno + 1 + Horizon)

(* The slots in which b, selected at seqno + 1, may reappear.  The code    *)
(* walks the slots from seqno + 2 up: an owned slot is skipped and adds a  *)
(* block to available_blocks, a free slot is taken with probability        *)
(* 1/available_blocks.  available_blocks starts at the number of           *)
(* unscheduled blocks plus one, so the only slot that is never refused is  *)
(* seqno + 2 when it is free and no unscheduled block is left.             *)
NextSlots(b) ==
  LET free == {n \in (seqno + 2)..(seqno + 1 + Horizon) :
                 \A c \in scheduled \ {b} : bnext[c] # n}
  IN  IF unscheduled \ {b} = {} /\ seqno + 2 \in free
      THEN {seqno + 2}
      ELSE free

----------------------------------------------------------------------------
JugglerInit ==
  /\ scheduled = {}
  /\ unscheduled = {}
  /\ seqno = 0
  /\ bseq = [b \in Block |-> 0]
  /\ bnext = [b \in Block |-> 0]

(* juggler_add_macroblock with a new block (seqno and next_seqno are 0, as *)
(* blockio_prepare_block leaves them).                                     *)
AddNew(b) ==
  /\ b \notin Members
  /\ unscheduled' = unscheduled \cup {b}
  /\ bseq' = [bseq EXCEPT ![b] = 0]
  /\ bnext' = [bnext EXCEPT ![b] = 0]
  /\ UNCHANGED <<scheduled, seqno>>

(* juggler_get_devblock(j, 0): b is written at seqno + 1, again at n. *)
GetDevblock(b, n) ==
  /\ seqno < MaxSeqno
  /\ b \in Candidates
  /\ n \in NextSlots(b)
  /\ scheduled' = scheduled \cup {b}
  /\ unscheduled' = unscheduled \ {b}
  /\ seqno' = seqno + 1
  /\ bseq' = [bseq EXCEPT ![b] = seqno + 1]
  /\ bnext' = [bnext EXCEPT ![b] = n]

(* juggler_discard_possible when a block is due: the hole it leaves must   *)
(* be filled by the block scheduled right after it or by an unscheduled    *)
(* block.                                                                  *)
DiscardDuePossible == unscheduled # {} \/ OwnerOf(seqno + 2) # {}

(* juggler_discard_possible when none is due: no_unscheduled >= 2. *)
DiscardUnscheduledPossible == \E b, c \in unscheduled : b # c

(* juggler_get_devblock(j, 1) with a block that is due: it leaves the      *)
(* juggler with seqno = next_seqno, which marks it as discarded.           *)
DiscardDue(b) ==
  /\ seqno < MaxSeqno
  /\ b \in Obsoleted
  /\ DiscardDuePossible
  /\ scheduled' = scheduled \ {b}
  /\ seqno' = seqno + 1
  /\ bseq' = [bseq EXCEPT ![b] = seqno + 1]
  /\ bnext' = [bnext EXCEPT ![b] = seqno + 1]
  /\ UNCHANGED unscheduled

(* juggler_get_devblock(j, 1) when none is due: an unscheduled block       *)
(* leaves with both numbers 0 and no sequence number is used.              *)
DiscardUnscheduled(b) ==
  /\ Obsoleted = {}
  /\ DiscardUnscheduledPossible
  /\ b \in unscheduled
  /\ unscheduled' = unscheduled \ {b}
  /\ bseq' = [bseq EXCEPT ![b] = 0]
  /\ bnext' = [bnext EXCEPT ![b] = 0]
  /\ UNCHANGED <<scheduled, seqno>>

(* juggler_free_and_empty_into, every block goes back to the caller, and   *)
(* the juggler_init of the next partition that uses the juggler.           *)
JugglerFree ==
  /\ Members # {}
  /\ scheduled' = {}
  /\ unscheduled' = {}
  /\ seqno' = 0
  /\ UNCHANGED <<bseq, bnext>>

JugglerNext ==
  \/ \E b \in Block :
       \/ AddNew(b)
       \/ \E n \in NextSlots(b) : GetDevblock(b, n)
       \/ DiscardDue(b)
       \/ DiscardUnscheduled(b)
  \/ JugglerFree

JugglerSpec == JugglerInit /\ [][JugglerNext]_jvars

----------------------------------------------------------------------------
(* No slot was missed: a scheduled block was last written at or before the *)
(* current sequence number and its own slot is still to come.              *)
NoMissedSlot == \A b \in scheduled : bseq[b] <= seqno /\ seqno < bnext[b]

(* No two blocks own the same slot (the assertion in                       *)
(* juggler_add_macroblock when a schedule is rebuilt).                     *)
SlotsUnique == \A b, c \in scheduled : bnext[b] = bnext[c] => b = c

(* The assertion of juggler_get_devblock that, when no block is due, an    *)
(* unscheduled one is left: no legal sequence of additions, selections and *)
(* discards leaves a hole in the schedule that nothing can fill.           *)
BlockAvailable == Members # {} => Candidates # {}

(* What makes a schedule one that can go on. *)
ScheduleSound == NoMissedSlot /\ SlotsUnique /\ BlockAvailable

(* A selection, and only a selection, moves the slot of a scheduled block, *)
(* and it does so exactly when the sequence number reaches that slot: the  *)
(* schedule that was written to disk is kept to the letter.                *)
ScheduleKept ==
  [][\A b \in scheduled :
       \/ bnext'[b] = bnext[b] /\ (b \in scheduled' \/ Members' = {})
       \/ seqno' = bnext[b] /\ bseq'[b] = bnext[b]]_jvars
============================================================================
