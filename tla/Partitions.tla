----------------------------- MODULE Partitions -----------------------------
(***************************************************************************)
(* Several partitions on one backing file (src/src/blockio.c with the      *)
(* handlers of src/src/control.c and the freer of src/src/fuse_io.c).      *)
(* They share the list of unallocated macroblocks and the dev pointer of   *)
(* every macroblock, both under unallocated_mutex.  The control thread     *)
(* creates, opens and resizes; a partition may at the same time be closed  *)
(* by a FUSE thread (close on release).                                    *)
(*                                                                         *)
(* A step is what happens under the mutex at one go.  blockio_dev_init     *)
(* takes it twice: other threads run between the scan of the headers and   *)
(* the claim of the blocks that the newest header lists.  The schedule of  *)
(* a partition's own blocks is the subject of Juggler.tla: here any own    *)
(* block may be the next one.                                              *)
(***************************************************************************)
EXTENDS Integers, FiniteSets, SequencesExt

CONSTANTS
  Infos,       \* b->blockio_infos, the macroblocks of the backing file
  Part,        \* the partitions, each with a key of its own
  Null,        \* the null pointer
  StartSize,   \* DLLARR_START_SIZE
  Word,        \* 2^32, the number of values of a uint32_t
  MesoSize,    \* bytes in a mesoblock, 1 << mesoblk_log
  MMPM,        \* b->mmpm
  Shapes,      \* bound: the <<size, reserved>> arguments of control_resize
  MaxSeqno     \* bound: the highest seqno of a partition

Block == Range(Infos)
Unallocated == "unallocated"

(* The lists of all macroblocks: the unallocated ones, and dev->replay of  *)
(* every partition.                                                        *)
INSTANCE Dllarr WITH Elt <- Block, List <- Part \cup {Unallocated}

ASSUME PartitionsAssumption ==
  /\ Infos \in Seq(Range(Infos)) /\ IsInjective(Infos)
  /\ Null \notin Part \cup Block \cup {Unallocated}
  /\ Unallocated \notin Part
  /\ \A l \in Part \cup {Unallocated} :
       {Head_(l), Tail_(l)} \cap (Block \cup {Null}) = {}
  /\ {StartSize, Word, MesoSize, MMPM} \subseteq Nat \ {0}
  /\ \A sh \in Shapes : sh[1] \in Int /\ sh[2] \in Int
  /\ MaxSeqno \in Nat

VARIABLES
  heap,      \* the lists
  owner,     \* bi->dev of every macroblock
  dev,       \* the devices
  disk,      \* the header each macroblock has on disk
  ctl,       \* the partition that the control thread is opening
  died,      \* why the daemon ended, when the last step was its end
  careless   \* history: an allocation took a block of a partition that was not open

vars == <<heap, owner, dev, disk, ctl, died, careless>>

UInt(n) == n % Word

Header == [part : Part, seq : Nat, used : SUBSET Block, nmac : Nat, res : Nat]
NoHeader == [part |-> Null, seq |-> 0, used |-> {}, nmac |-> 0, res |-> 0]

(* A device that is not open. *)
Gone ==
  [pc |-> "closed", add |-> FALSE, used |-> {}, nmac |-> 0, res |-> 0,
   seqno |-> 0, jug |-> {}, cur |-> Null, updated |-> FALSE, size |-> 0,
   indices |-> 0]

PartitionsTypeOK ==
  /\ heap \in Heap
  /\ owner \in [Block -> Part \cup {Null}]
  /\ dev \in [Part -> [pc : {"closed", "scanned", "open", "freeing"},
                       add : BOOLEAN, used : SUBSET Block, nmac : Nat,
                       res : 0..(Word - 1), seqno : Nat, jug : SUBSET Block,
                       cur : Block \cup {Null}, updated : BOOLEAN,
                       size : 0..(Word - 1), indices : 0..(Word - 1)]]
  /\ disk \in [Block -> Header \cup {NoHeader}]
  /\ ctl \in Part \cup {Null}
  /\ died \in {"no", "claimed", "count", "shrunk", "killed"}
  /\ careless \in BOOLEAN

----------------------------------------------------------------------------
(* The headers that the key of p decrypts, and the newest among them. *)
Signed(p) == {b \in Block : disk[b].part = p}

(* The first of the blocks with the highest seqno, in the order of a scan. *)
NewestOf(S) ==
  LET top == {i \in DOMAIN Infos :
                Infos[i] \in S /\ \A c \in S : disk[c].seq <= disk[Infos[i]].seq}
  IN  IF S = {} THEN NoHeader ELSE disk[Infos[Min(top)]]

Newest(p) == NewestOf(Signed(p))

(* The macroblocks that belong to p as far as the disk tells. *)
OnDisk(p) == Signed(p) \cup Newest(p).used

(* blockio_init_file: all the macroblocks are unallocated. *)
FreshHeap == Transfer(EmptyHeap, Infos, Block, Null, Unallocated, AtEnd)

PartitionsInit ==
  /\ heap = FreshHeap
  /\ owner = [b \in Block |-> Null]
  /\ dev = [p \in Part |-> Gone]
  /\ disk = [b \in Block |-> NoHeader]
  /\ ctl = Null
  /\ died = "no"
  /\ careless = FALSE

(* The daemon ends, by a FATAL or otherwise, and is started again. *)
Die(why) ==
  /\ heap' = FreshHeap
  /\ owner' = [b \in Block |-> Null]
  /\ dev' = [p \in Part |-> Gone]
  /\ ctl' = Null
  /\ died' = why
  /\ UNCHANGED <<disk, careless>>

----------------------------------------------------------------------------
(* sort_to_replay: a block goes in front of the first one with a higher    *)
(* seqno, or with the same one.                                            *)
sort_to_replay ==
  [b \in Block |-> {c \in Block : disk[c].seq >= disk[b].seq}]

(* Every connection to the control socket has a thread of its own. *)
ControlIdle_bad == TRUE

(* The control thread serves one command at a time. *)
ControlIdle == ctl = Null

(* The first half of blockio_dev_init, called by control_create (add) or   *)
(* control_open: blockio_dev_scan_header on every macroblock.  A device    *)
(* without blocks is created empty; an open that finds no blocks is        *)
(* refused and leaves nothing behind.                                      *)
Scan(p, add) ==
  LET mine == {b \in Block : owner[b] = Null /\ disk[b].part = p}
      last == NewestOf(mine)
      h == Transfer(heap, Infos, mine, Unallocated, p, sort_to_replay)
      found == dllarr_count(h, p) > 0
  IN  /\ ControlIdle
      /\ dev[p].pc = "closed"
      /\ found \/ add
      /\ heap' = h
      /\ owner' = [b \in Block |-> IF b \in mine THEN p ELSE owner[b]]
      /\ dev' = [dev EXCEPT ![p] =
                   [Gone EXCEPT !.pc = IF found THEN "scanned" ELSE "open",
                                !.add = add, !.seqno = last.seq,
                                !.used = last.used, !.nmac = last.nmac,
                                !.res = last.res]]
      /\ ctl' = IF found THEN p ELSE Null
      /\ died' = "no"
      /\ UNCHANGED <<disk, careless>>

(* no_block_indices of a device of n macroblocks of which r are reserved.  *)
(* Like entry->size it is computed in 32 bits.                             *)
NoBlockIndices(n, r) == IF n <= r THEN 0 ELSE UInt((n - r) * MMPM)

(* The size is not computed in 32 bits. *)
EntrySize_bad(n, r) == IF n <= r THEN 0 ELSE (n - r) * MesoSize * MMPM

(* entry->size of such a device. *)
EntrySize(n, r) == IF n <= r THEN 0 ELSE UInt(UInt((n - r) * MesoSize) * MMPM)

(* blockio_dev_select_next_macroblock *)
Selected(d, b) ==
  [d EXCEPT !.cur = b, !.seqno = @ + 1, !.updated = FALSE]

(* The second half of blockio_dev_init and the rest of                     *)
(* control_open_create_common.  A block in the bitmap without a header of  *)
(* ours was allocated and never written; it goes to the juggler.  A create *)
(* that found a device is refused and freed; an open goes on to            *)
(* scubed3_init, after which the replayed blocks are in the juggler too,   *)
(* and selects a block when there is room for data.                        *)
Claim(p) ==
  LET d == dev[p]
      missing == {b \in d.used : owner[b] # p}
      h == Transfer(heap, Infos, missing, Unallocated, Null, AtEnd)
      count == dllarr_count(h, p) + Cardinality(missing)
      opened == [d EXCEPT !.pc = "open",
                   !.jug = missing \cup ToSet(Iterated(h, p)),
                   !.size = EntrySize(d.nmac, d.res),
                   !.indices = NoBlockIndices(d.nmac, d.res)]
  IN  /\ d.pc = "scanned"
      /\ IF \E b \in missing : owner[b] # Null THEN Die("claimed")
         ELSE IF count # d.nmac THEN Die("count")
         ELSE /\ owner' = [b \in Block |-> IF b \in missing THEN p ELSE owner[b]]
              /\ ctl' = Null
              /\ died' = "no"
              /\ UNCHANGED <<disk, careless>>
              /\ IF d.add
                 THEN /\ heap' = h
                      /\ dev' = [dev EXCEPT ![p] = [d EXCEPT !.pc = "freeing",
                                                             !.jug = missing]]
                 ELSE /\ heap' = Emptied(h, p)
                      /\ IF opened.size = 0
                         THEN dev' = [dev EXCEPT ![p] = opened]
                         ELSE \E b \in opened.jug :
                                dev' = [dev EXCEPT ![p] = Selected(opened, b)]

----------------------------------------------------------------------------
(* random_custom: the numbers that a generator of uint32_t gives below     *)
(* count, when a number above limit is thrown again.                       *)
random_custom(count) ==
  LET top == Word - 1
      limit == UInt(count * ((top - count + 1) \div count) + count - 1)
  IN  {n % count : n \in 0..limit}

(* The numbers of all the macroblocks are drawn from. *)
Allocatable_bad(n) == {S \in SUBSET Block : Cardinality(S) = n}

(* blockio_dev_allocate_macroblocks: what n draws from the unallocated     *)
(* list can give.                                                          *)
Allocatable(n) ==
  LET count == dllarr_count(heap, Unallocated)
  IN  IF count < n THEN {}
      ELSE {S \in SUBSET {dllarr_nth(heap, Unallocated, i) :
                           i \in random_custom(count)} : Cardinality(S) = n}

(* control_resize.  reserved is stored as an unsigned number, and          *)
(* scubed3_reinit computes with it; a device that gets smaller by it is    *)
(* FATAL.  Arguments that are refused change nothing.                      *)
Resize(p, n, r) ==
  LET d == dev[p]
      res == UInt(r)
      indices == UInt(UInt(n - res) * MMPM)
      grown(S) == [d EXCEPT !.nmac = n, !.res = res,
                     !.jug = @ \cup S, !.used = @ \cup S,
                     !.size = IF n > res THEN EntrySize(n, res) ELSE @,
                     !.indices = indices]
  IN  /\ ControlIdle /\ d.pc = "open" /\ d.seqno <= MaxSeqno
      /\ r <= n /\ n >= 0
      /\ n > d.nmac /\ n <= Len(Infos)
      /\ \E S \in Allocatable(n - d.nmac) :
           IF indices < d.indices THEN Die("shrunk")
           ELSE /\ heap' = Transfer(heap, Infos, S, Unallocated, Null, AtEnd)
                /\ owner' = [b \in Block |-> IF b \in S THEN p ELSE owner[b]]
                /\ \E b \in IF d.cur = Null THEN grown(S).jug ELSE {d.cur} :
                     dev' = [dev EXCEPT ![p] =
                       [(IF d.cur = Null THEN Selected(grown(S), b)
                                         ELSE grown(S)) EXCEPT !.updated = TRUE]]
                /\ careless' = (careless \/ \E q \in Part :
                      dev[q].pc = "closed" /\ OnDisk(q) \cap S # {})
                /\ died' = "no"
                /\ UNCHANGED <<disk, ctl>>

(* A write request marks the current block as worth writing. *)
Update(p) ==
  /\ dev[p].pc = "open" /\ dev[p].cur # Null /\ dev[p].seqno <= MaxSeqno
  /\ dev' = [dev EXCEPT ![p].updated = TRUE]
  /\ died' = "no"
  /\ UNCHANGED <<heap, owner, disk, ctl, careless>>

(* The count is not written. *)
WriteHeader_bad(p) ==
  disk' = [disk EXCEPT ![dev[p].cur] =
             [part |-> p, seq |-> dev[p].seqno, used |-> dev[p].used,
              nmac |-> disk[dev[p].cur].nmac, res |-> dev[p].res]]

(* blockio_dev_write_current_macroblock *)
WriteHeader(p) ==
  disk' = [disk EXCEPT ![dev[p].cur] =
             [part |-> p, seq |-> dev[p].seqno, used |-> dev[p].used,
              nmac |-> dev[p].nmac, res |-> dev[p].res]]

(* blockio_dev_write_current_and_select_next_macroblock *)
WriteAndSelect(p, b) ==
  /\ dev[p].pc = "open" /\ dev[p].cur # Null /\ dev[p].seqno <= MaxSeqno
  /\ b \in dev[p].jug
  /\ WriteHeader(p)
  /\ dev' = [dev EXCEPT ![p] = Selected(@, b)]
  /\ died' = "no"
  /\ UNCHANGED <<heap, owner, ctl, careless>>

(* blockio_dev_free up to the mutex. *)
Close(p) ==
  /\ dev[p].pc = "open"
  /\ IF dev[p].updated THEN WriteHeader(p) ELSE UNCHANGED disk
  /\ dev' = [dev EXCEPT ![p].pc = "freeing"]
  /\ died' = "no"
  /\ UNCHANGED <<heap, owner, ctl, careless>>

(* Blocks that are still in the replay list are not given back. *)
GiveBack_bad(p) ==
  LET given == Transfer(heap, Infos, dev[p].jug, Null, Unallocated, AtEnd)
  IN  /\ dev[p].pc = "freeing"
      /\ heap' = dllarr_free(given, p)
      /\ owner' = [b \in Block |-> IF owner[b] = p THEN Null ELSE owner[b]]
      /\ dev' = [dev EXCEPT ![p] = Gone]
      /\ died' = "no"
      /\ UNCHANGED <<disk, ctl, careless>>

(* blockio_dev_free under the mutex and after it: the blocks of the        *)
(* juggler, and those of the replay list (of a create that was refused),   *)
(* the last one first.                                                     *)
GiveBack(p) ==
  LET given == Transfer(heap, Infos, dev[p].jug, Null, Unallocated, AtEnd)
  IN  /\ dev[p].pc = "freeing"
      /\ heap' = dllarr_free(Transfer(given, Reverse(Iterated(given, p)), Block,
                                      p, Unallocated, AtEnd), p)
      /\ owner' = [b \in Block |-> IF owner[b] = p THEN Null ELSE owner[b]]
      /\ dev' = [dev EXCEPT ![p] = Gone]
      /\ died' = "no"
      /\ UNCHANGED <<disk, ctl, careless>>

(* The first piece is not subtracted before the whole ones are counted. *)
Pieces_bad(off, size) ==
  LET meso == off \div MesoSize
      inmeso == off % MesoSize
      first == IF inmeso = 0 THEN 0
               ELSE IF inmeso + size <= MesoSize THEN size
               ELSE MesoSize - inmeso
      start == IF inmeso = 0 THEN <<>> ELSE <<<<meso, inmeso, first>>>>
      whole == size \div MesoSize
      rest == (size - first) % MesoSize
      m == meso + Len(start)
  IN  start \o [i \in 1..whole |-> <<m + i - 1, 0, MesoSize>>]
            \o IF rest > 0 THEN <<<<m + whole, 0, rest>>>> ELSE <<>>

(* The requests that do_req makes of bytes off .. off + size - 1:          *)
(* mesoblock, first byte in it, bytes.  Only the first one may start       *)
(* inside a mesoblock.                                                     *)
Pieces(off, size) ==
  LET meso == off \div MesoSize
      inmeso == off % MesoSize
      first == IF inmeso = 0 THEN 0
               ELSE IF inmeso + size <= MesoSize THEN size
               ELSE MesoSize - inmeso
      start == IF inmeso = 0 THEN <<>> ELSE <<<<meso, inmeso, first>>>>
      whole == (size - first) \div MesoSize
      rest == (size - first) % MesoSize
      m == meso + Len(start)
  IN  start \o [i \in 1..whole |-> <<m + i - 1, 0, MesoSize>>]
            \o IF rest > 0 THEN <<<<m + whole, 0, rest>>>> ELSE <<>>

(* do_req does not refuse the request as being past the end. *)
Accepted(p, off, size) == (off + size - 1) \div MesoSize < dev[p].indices

(* The daemon is killed. *)
Crash == (\E p \in Part : dev[p].pc # "closed") /\ Die("killed")

(* Once a partition has lost blocks to another one, what they write over   *)
(* each other is not followed; how they are closed and opened again is.    *)
PartitionsNext ==
  \/ \E p \in Part :
       \/ \E add \in BOOLEAN : Scan(p, add)
       \/ Claim(p)
       \/ \E sh \in Shapes : ~ careless /\ Resize(p, sh[1], sh[2])
       \/ ~ careless /\ Update(p)
       \/ \E b \in dev[p].jug : ~ careless /\ WriteAndSelect(p, b)
       \/ Close(p)
       \/ GiveBack(p)
  \/ Crash

PartitionsSpec == PartitionsInit /\ [][PartitionsNext]_vars

----------------------------------------------------------------------------
(* The lists of macroblocks stay sound while blocks move between them: the *)
(* links, the array and the indices agree (see Dllarr.tla), although the   *)
(* array is used to draw a block and the links to walk.                    *)
ListsSound == ListsAgree(heap)

(* blockio.h: the dev pointer of a macroblock "is NULL if and only if the  *)
(* block is in unallocated", also between the two halves of an open and    *)
(* while a FUSE thread closes; and an open partition owns exactly the      *)
(* blocks of its bitmap, as many as it counts.                             *)
OwnershipExact ==
  /\ \A b \in Block :
       owner[b] = Null <=> Contains(heap.array[Unallocated], b)
  /\ \A p \in Part : dev[p].pc = "open" =>
       /\ {b \in Block : owner[b] = p} = dev[p].used
       /\ dev[p].jug = dev[p].used
       /\ dev[p].nmac = Cardinality(dev[p].used)

(* As long as no allocation took a block of a partition that was not open, *)
(* no two partitions claim the same macroblock on disk, whatever was       *)
(* opened, closed, resized and killed in whichever order.                  *)
ClaimsDisjoint ==
  careless \/ \A p, q \in Part : p # q => OnDisk(p) \cap OnDisk(q) = {}

(* Under the same condition no open ends the daemon by a FATAL, because a  *)
(* block is claimed by another device or missing.                          *)
OpenNeverDies == died \in {"claimed", "count"} => careless

(* Every request inside the size that getattr reports is accepted by       *)
(* do_req, and its pieces cover the bytes asked for one after the other,   *)
(* none crosses the end of a mesoblock and none lies outside               *)
(* block_indices.  That relates entry->size to no_block_indices, which are *)
(* computed apart, in 32 bits, by resize and by open: a size that wraps    *)
(* around is too small, never too large.                                   *)
RequestsTiled ==
  \A p \in Part : \A off \in 0..(dev[p].size - 1) :
    \A size \in 1..(dev[p].size - off) :
      LET r == Pieces(off, size)
          at(i) == r[i][1] * MesoSize + r[i][2]
      IN  /\ Accepted(p, off, size)
          /\ at(1) = off
          /\ at(Len(r)) + r[Len(r)][3] = off + size
          /\ \A i \in 2..Len(r) : at(i) = at(i - 1) + r[i - 1][3]
          /\ \A i \in 1..Len(r) : /\ r[i][2] + r[i][3] <= MesoSize
                                  /\ r[i][1] < dev[p].indices

(* A close, by the control thread or by a FUSE thread, leaves the size on  *)
(* disk that the partition had: the next open finds it again.  A reserve   *)
(* that was given as a negative number is excepted: it makes the partition *)
(* empty at the next open.                                                 *)
CloseKeepsSize ==
  [][\A p \in Part :
       /\ dev[p].pc = "open" /\ dev'[p].pc = "freeing"
       /\ ~ careless /\ dev[p].res <= dev[p].nmac
       => EntrySize(Newest(p)'.nmac, Newest(p)'.res) = dev[p].size]_vars
============================================================================
