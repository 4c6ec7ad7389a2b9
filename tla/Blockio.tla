------------------------------ MODULE Blockio ------------------------------
(***************************************************************************)
(* The life of one partition's macroblocks (src/src/blockio.c and the      *)
(* handlers of src/src/control.c that drive it): blocks are allocated,     *)
(* selected by the juggler, written to the backing file with a header, and *)
(* read back by a scan of all headers when the partition is opened again,  *)
(* after a close or after a crash.  What the blocks contain is the subject *)
(* of Scubed3.tla, which extends this module.                              *)
(*                                                                         *)
(* A handler that writes and then selects is two steps here, with pc in    *)
(* between: the only other step possible there is a crash.                 *)
(***************************************************************************)
EXTENDS Juggler, FiniteSets

CONSTANTS
  NoBlock,   \* the null pointer of dev->bi and dev->tail_macroblock
  Shapes     \* bound: the <<size, reserved>> arguments of control_resize

ASSUME BlockAssumption == IsFiniteSet(Block) /\ NoBlock \notin Block

VARIABLES
  disk,      \* the header each block has on disk, as this partition's key reads it
  pc,        \* where the partition is in its handlers
  cur,       \* dev->bi
  tail,      \* dev->tail_macroblock
  updated,   \* dev->updated
  used,      \* dev->status: the blocks whose bit says USED
  nmac,      \* dev->no_macroblocks
  reserved,  \* dev->reserved_macroblocks
  hiseq,     \* history: the highest seqno that ever reached the disk
  torn,      \* history: a crash destroyed a header
  warned     \* history: the open warned about the hash of the seqnos

devvars == <<cur, tail, updated, used, nmac, reserved>>
bvars == <<jvars, disk, pc, devvars, hiseq, torn, warned>>

(* Blocks instead of their seqnos are hashed (wrong variant, for mutation  *)
(* tests, like every definition whose name ends in _bad).                  *)
SeqnosHash_bad(S, sq, nx) == {<<b, nx[b]>> : b \in S}

(* The blocks are only counted. *)
SeqnosHashCount_bad(S, sq, nx) == {<<Cardinality(S), {}>>}

(* juggler_hash_scheduled_seqnos: a digest of the seqnos of S in the order *)
(* of their slots; each seqno goes with the seqnos in front of it.         *)
SeqnosHash(S, sq, nx) ==
  {<<sq[b], {sq[c] : c \in {d \in S : nx[d] < nx[b]}}>> : b \in S}

Header ==
  [seq : Nat, next : Nat, used : SUBSET Block, nmac : Nat, reserved : Nat,
   hash : SUBSET (Nat \X SUBSET Nat)]

(* A block without a signature: never written with this key, or damaged. *)
NoHeader ==
  [seq |-> 0, next |-> 0, used |-> {}, nmac |-> 0, reserved |-> 0, hash |-> {}]

BlockioTypeOK ==
  /\ JugglerTypeOK
  /\ disk \in [Block -> Header]
  /\ pc \in {"closed", "open", "select", "selectResized", "fatal"}
  /\ cur \in Block \cup {NoBlock}
  /\ tail \in Block \cup {NoBlock}
  /\ updated \in BOOLEAN
  /\ used \in SUBSET Block
  /\ nmac \in Nat
  /\ reserved \in Nat
  /\ hiseq \in Nat
  /\ torn \in BOOLEAN
  /\ warned \in BOOLEAN

----------------------------------------------------------------------------
(* What blockio_dev_scan_header finds on a disk d: the blocks with a       *)
(* signature and the one with the highest seqno among them.                *)
Signed(d) == {b \in Block : d[b].seq # 0}

IsNewest(d, b) ==
  b \in Signed(d) /\ \A c \in Signed(d) : d[c].seq <= d[b].seq

(* The seqnos and slots that are read back. *)
DiskSeq(d) == [b \in Block |-> d[b].seq]
DiskNext(d) == [b \in Block |-> d[b].next]

(* The RAM of the device before it is opened and after it is gone.  The    *)
(* juggler of a device that has not been opened is empty.                  *)
DeviceGone ==
  /\ scheduled' = {} /\ unscheduled' = {} /\ seqno' = 0
  /\ bseq' = [b \in Block |-> 0] /\ bnext' = [b \in Block |-> 0]
  /\ cur' = NoBlock /\ tail' = NoBlock
  /\ updated' = FALSE
  /\ used' = {} /\ nmac' = 0 /\ reserved' = 0
  /\ warned' = FALSE

BlockioInit ==
  /\ JugglerInit
  /\ disk = [b \in Block |-> NoHeader]
  /\ pc = "closed"
  /\ cur = NoBlock /\ tail = NoBlock
  /\ updated = FALSE
  /\ used = {} /\ nmac = 0 /\ reserved = 0
  /\ hiseq = 0 /\ torn = FALSE /\ warned = FALSE

----------------------------------------------------------------------------
(* control_create: succeeds when the scan finds no block of ours. *)
Create ==
  /\ pc = "closed"
  /\ Signed(disk) = {}
  /\ pc' = "open"
  /\ UNCHANGED <<jvars, disk, devvars, hiseq, torn, warned>>

(* The two places where blockio_dev_init gives up on what the newest       *)
(* header m says: a block it claims is missing, or the count is not that   *)
(* of the blocks found and claimed.                                        *)
CountMismatch(m) ==
  disk[m].nmac # Cardinality(Signed(disk))
                   + Cardinality(disk[m].used \ Signed(disk))

(* The assertions that the headers found must pass: in                     *)
(* blockio_dev_scan_header no second block has the highest seqno, in       *)
(* juggler_add_macroblock no second block owns a slot.                     *)
HeadersClash(m) ==
  \E b, c \in Signed(disk) :
    b # c /\ (disk[b].next = disk[c].next \/ (c = m /\ disk[b].seq = disk[c].seq))

(* The blocks that the bitmap of the newest header claims and that have no *)
(* signature: they were never written.                                     *)
Claimed(m) == disk[m].used \ Signed(disk)

(* The seqno is taken from the header before the newest one. *)
RestoredSeqno_bad(m) == disk[m].seq - 1

(* juggler_notify_seqno keeps the highest seqno of the blocks added. *)
RestoredSeqno(m) == disk[m].seq

(* control_open: the scan of the headers, the blocks the bitmap claims     *)
(* without a signature (they become unscheduled), and scubed3_init, which  *)
(* gives the others to the juggler.  A block is selected when there is     *)
(* room for data.                                                          *)
Load ==
  /\ pc = "closed"
  /\ \E m \in Block :
       /\ IsNewest(disk, m)
       /\ IF CountMismatch(m) \/ HeadersClash(m)
          THEN pc' = "fatal" /\ UNCHANGED <<jvars, devvars, warned>>
          ELSE /\ scheduled' = Signed(disk)
               /\ unscheduled' = Claimed(m)
               /\ seqno' = RestoredSeqno(m)
               /\ bseq' = DiskSeq(disk)
               /\ bnext' = DiskNext(disk)
               /\ used' = disk[m].used
               /\ nmac' = disk[m].nmac
               /\ reserved' = disk[m].reserved
               /\ warned' = (SeqnosHash(Signed(disk), DiskSeq(disk),
                                        DiskNext(disk)) # disk[m].hash)
               /\ pc' = IF disk[m].nmac > disk[m].reserved
                        THEN "select" ELSE "open"
               /\ UNCHANGED <<cur, tail, updated>>
  /\ UNCHANGED <<disk, hiseq, torn>>

(* blockio_dev_select_next_macroblock.  When control_resize selects the    *)
(* first block it sets updated afterwards.                                 *)
Select(b, n) ==
  /\ pc \in {"select", "selectResized"}
  /\ GetDevblock(b, n)
  /\ cur' = b
  /\ tail' = IF \E c \in scheduled' : bnext'[c] = seqno' + 1
             THEN CHOOSE c \in scheduled' : bnext'[c] = seqno' + 1
             ELSE NoBlock
  /\ updated' = (pc = "selectResized")
  /\ pc' = "open"
  /\ UNCHANGED <<disk, used, nmac, reserved, hiseq, torn, warned>>

(* The bitmap lacks the blocks that were never written. *)
CurrentHeader_bad ==
  [seq |-> bseq[cur], next |-> bnext[cur], used |-> used \ unscheduled,
   nmac |-> nmac, reserved |-> reserved,
   hash |-> SeqnosHash(scheduled, bseq, bnext)]

(* The seqnos are hashed before the current block is among them. *)
CurrentHeaderEarlyHash_bad ==
  [seq |-> bseq[cur], next |-> bnext[cur], used |-> used, nmac |-> nmac,
   reserved |-> reserved, hash |-> SeqnosHash(scheduled \ {cur}, bseq, bnext)]

(* The header blockio_dev_write_current_macroblock builds. *)
CurrentHeader ==
  [seq |-> bseq[cur], next |-> bnext[cur], used |-> used, nmac |-> nmac,
   reserved |-> reserved, hash |-> SeqnosHash(scheduled, bseq, bnext)]

WriteCurrent ==
  /\ cur # NoBlock
  /\ disk' = [disk EXCEPT ![cur] = CurrentHeader]
  /\ hiseq' = IF bseq[cur] > hiseq THEN bseq[cur] ELSE hiseq

(* Write the current block, and go on to select the next one. *)
WriteForNext ==
  /\ pc = "open"
  /\ WriteCurrent
  /\ cur' = NoBlock
  /\ pc' = "select"
  /\ UNCHANGED <<jvars, tail, updated, used, nmac, reserved, torn, warned>>

(* A write request marks the current block as worth writing. *)
MarkUpdated ==
  /\ pc = "open" /\ cur # NoBlock
  /\ updated' = TRUE
  /\ UNCHANGED <<jvars, disk, pc, cur, tail, used, nmac, reserved, hiseq,
                 torn, warned>>

(* control_resize with a larger size: the blocks S are allocated           *)
(* (blockio_dev_allocate_macroblocks) and r becomes the reserve.  A        *)
(* reserve that makes the device smaller than it was is FATAL in           *)
(* scubed3_reinit: the daemon is gone.                                     *)
Resize(S, r) ==
  /\ pc = "open"
  /\ S \subseteq Block \ used /\ S # {}
  /\ r \in 0..(nmac + Cardinality(S))
  /\ IF nmac > reserved /\ nmac + Cardinality(S) - r < nmac - reserved
     THEN DeviceGone /\ pc' = "closed"
     ELSE /\ unscheduled' = unscheduled \cup S
          /\ bseq' = [b \in Block |-> IF b \in S THEN 0 ELSE bseq[b]]
          /\ bnext' = [b \in Block |-> IF b \in S THEN 0 ELSE bnext[b]]
          /\ used' = used \cup S
          /\ nmac' = nmac + Cardinality(S)
          /\ reserved' = r
          /\ IF cur = NoBlock
             THEN pc' = "selectResized" /\ UNCHANGED updated
             ELSE updated' = TRUE /\ UNCHANGED pc
          /\ UNCHANGED <<scheduled, seqno, cur, tail, warned>>
  /\ UNCHANGED <<disk, hiseq, torn>>

(* control_close, blockio_dev_free: the current block is written if it was *)
(* updated, then everything is released.                                   *)
Close ==
  /\ pc = "open"
  /\ IF updated THEN WriteCurrent ELSE UNCHANGED <<disk, hiseq>>
  /\ DeviceGone
  /\ pc' = "closed"
  /\ UNCHANGED torn

(* The daemon dies.  Nothing but the disk remains. *)
Crash ==
  /\ pc \in {"open", "select", "selectResized"}
  /\ DeviceGone
  /\ pc' = "closed"
  /\ UNCHANGED <<disk, hiseq, torn>>

(* The daemon dies in the middle of writing the current block, leaving a   *)
(* header whose hash is wrong: the scan takes it for no header at all.     *)
CrashTorn ==
  /\ pc = "open" /\ cur # NoBlock
  /\ disk' = [disk EXCEPT ![cur] = NoHeader]
  /\ torn' = TRUE
  /\ DeviceGone
  /\ pc' = "closed"
  /\ UNCHANGED hiseq

BlockioNext ==
  \/ Create
  \/ Load
  \/ \E b \in Block : \E n \in NextSlots(b) : Select(b, n)
  \/ WriteForNext
  \/ MarkUpdated
  \/ \E S \in SUBSET Block : \E sh \in Shapes :
       sh[1] = nmac + Cardinality(S) /\ Resize(S, sh[2])
  \/ Close
  \/ Crash
  \/ CrashTorn
============================================================================
