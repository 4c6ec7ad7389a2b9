------------------------------ MODULE Scubed3 ------------------------------
(***************************************************************************)
(* One scubed3 partition (src/src/scubed3.c on top of src/src/blockio.c):  *)
(* a log-structured block device.  Written mesoblocks are collected in the *)
(* current macroblock in RAM; the mesoblocks of the tail macroblock, the   *)
(* one the juggler will select next, are copied into it before it is       *)
(* written, so that the block that is overwritten holds nothing alive.     *)
(*                                                                         *)
(* Extends Blockio with the contents: what Blockio's disk is to the        *)
(* headers, store is to the indices and the data of each macroblock.       *)
(*                                                                         *)
(* The operations of a partition run under the lock of its entry in the    *)
(* table of partitions.  A handler that writes several macroblocks is      *)
(* several steps, told apart by op, between which the daemon may die.      *)
(***************************************************************************)
EXTENDS Blockio, SequencesExt

CONSTANTS
  MMPM,        \* b->mmpm: mesoblocks in a macroblock, 2^n - 1
  Part,        \* the parts of a mesoblock that a request can address
  Value, Zero, \* what a part can hold
  Cipher,      \* what a part holds when it is not decrypted with its own IV
  ErrorCheck   \* the build: mutexes are error checking (NDEBUG undefined)

ASSUME Scubed3Assumption ==
  /\ MMPM \in Nat \ {0}
  /\ ErrorCheck \in BOOLEAN
  /\ Zero \notin Value /\ Cipher \notin Value /\ Cipher # Zero

VARIABLES
  ind,      \* bi->indices (as a sequence of bi->no_indices) and bi->no_nonobsolete
  store,    \* the indices and the data that each macroblock has on disk
  map,      \* l->block_indices
  ram,      \* dev->tmp_macroblock, the data mesoblocks
  outinit,  \* l->output_initialized
  op,       \* where a handler is
  req,      \* the arguments of the do_write under way
  died,     \* how the daemon ended when it did not close the partition
  hist      \* history: whether a block was overwritten while it held data

svars == <<ind, store, map, ram, outinit, op, req, died, hist>>
vars == <<bvars, svars>>

Content == [Part -> Value \cup {Zero, Cipher}]
ZeroContent == [p \in Part |-> Zero]
CipherContent == [p \in Part |-> Cipher]
Buffer(c) == [k \in 1..MMPM |-> c]

Offset == 0..(Cardinality(Block) * MMPM - 1)
Unmapped == [b |-> NoBlock, k |-> 0]   \* 0xFFFFFFFF
NoRequest == [o |-> 0, parts |-> {}, v |-> Zero]
NoContents == [off |-> <<>>, data |-> Buffer(ZeroContent)]
EmptyMap == [o \in {} |-> Unmapped]

Scubed3TypeOK ==
  /\ BlockioTypeOK
  /\ ind \in [Block -> [off : BoundedSeq(Offset, MMPM), live : 0..MMPM]]
  /\ store \in [Block -> [off : BoundedSeq(Offset, MMPM),
                          data : [1..MMPM -> Content]]]
  /\ DOMAIN map \subseteq Offset
  /\ \A o \in DOMAIN map :
       map[o] \in [b : Block, k : 1..MMPM] \cup {Unmapped}
  /\ ram \in [1..MMPM -> Content]
  /\ outinit \in BOOLEAN
  /\ op \in {"idle", "flush", "copy", "cycled"}
  /\ died \in {"no", "abort", "unlock", "null"}
  /\ hist \in [self : BOOLEAN, skip : BOOLEAN]

----------------------------------------------------------------------------
(* no_block_indices of a device of n macroblocks of which r are reserved. *)
NoBlockIndices(n, r) == IF n <= r THEN 0 ELSE (n - r) * MMPM

(* blockio_dev_read_mesoblk: the IV is taken from the seqno in RAM, so a   *)
(* block that was selected in the meantime no longer decrypts.             *)
ReadMesoblk(b, k) ==
  IF bseq[b] = disk[b].seq THEN store[b].data[k] ELSE CipherContent

(* do_read of a whole mesoblock. *)
DoRead(o) ==
  LET e == map[o]
  IN  IF e = Unmapped THEN ZeroContent
      ELSE IF e.b = cur THEN ram[e.k]
      ELSE ReadMesoblk(e.b, e.k)

(* obsolete_mesoblk on the table i: the count of live mesoblocks goes      *)
(* down, and at zero the block forgets its indices.                        *)
ObsoleteMesoblk(i, b) ==
  [i EXCEPT ![b] = [live |-> @.live - 1,
                    off |-> IF @.live = 1 THEN <<>> ELSE @.off]]

(* The first mesoblock of the tail is read each time (wrong variant, for   *)
(* mutation tests, like every definition whose name ends in _bad).         *)
CopyMesoblk_bad(s, k) ==
  IF ~ s.ok \/ k > Len(s.ind[tail].off) THEN s
  ELSE LET o == s.ind[tail].off[k]
           n == Len(s.ind[cur].off)
           added == [s.ind EXCEPT ![cur].off = Append(@, o)]
       IN  IF o \notin DOMAIN s.map \/ s.map[o].b # tail THEN s
           ELSE IF n = MMPM \/ s.ind[tail].live = 0
                THEN [s EXCEPT !.ok = FALSE]
           ELSE [ind |-> ObsoleteMesoblk(added, tail),
                 map |-> [s.map EXCEPT ![o] = [b |-> cur, k |-> n + 1]],
                 ram |-> [s.ram EXCEPT ![n + 1] = ReadMesoblk(tail, 1)],
                 ok |-> TRUE]

(* One turn of the loop of copy_old_block_to_current on a state            *)
(* [ind, map, ram, ok]: mesoblock k of the tail is appended to the current *)
(* block if it is alive.  ok becomes FALSE when an assertion fails (the    *)
(* current block is full, the tail has nothing alive to obsolete).         *)
CopyMesoblk(s, k) ==
  IF ~ s.ok \/ k > Len(s.ind[tail].off) THEN s
  ELSE LET o == s.ind[tail].off[k]
           n == Len(s.ind[cur].off)
           added == [s.ind EXCEPT ![cur].off = Append(@, o)]
       IN  IF o \notin DOMAIN s.map \/ s.map[o].b # tail THEN s
           ELSE IF n = MMPM \/ s.ind[tail].live = 0
                THEN [s EXCEPT !.ok = FALSE]
           ELSE [ind |-> ObsoleteMesoblk(added, tail),
                 map |-> [s.map EXCEPT ![o] = [b |-> cur, k |-> n + 1]],
                 ram |-> [s.ram EXCEPT ![n + 1] = ReadMesoblk(tail, k)],
                 ok |-> TRUE]

Now == [ind |-> ind, map |-> map, ram |-> ram, ok |-> TRUE]

(* The state after each turn of the loop. *)
CopyTrace ==
  LET upTo[k \in 0..MMPM] ==
        IF k = 0 THEN Now ELSE CopyMesoblk(upTo[k - 1], k)
  IN  upTo

(* copy_old_block_to_current *)
CopyOldBlock == IF tail = NoBlock THEN Now ELSE CopyTrace[MMPM]

(* initialize_output *)
InitializedOutput == IF outinit THEN Now ELSE CopyOldBlock

----------------------------------------------------------------------------
(* replay: the blocks are replayed in the order of their seqnos, so a      *)
(* mesoblock is found in the block with the highest seqno that lists it.   *)
Listing(o) == {b \in Signed(disk) : \E k \in DOMAIN store[b].off :
                                      store[b].off[k] = o}

(* The oldest block wins. *)
Replayed_bad(o) ==
  IF Listing(o) = {} THEN Unmapped
  ELSE LET b == CHOOSE b \in Listing(o) :
                  \A c \in Listing(o) : disk[c].seq >= disk[b].seq
       IN  [b |-> b,
            k |-> CHOOSE k \in DOMAIN store[b].off : store[b].off[k] = o]

Replayed(o) ==
  IF Listing(o) = {} THEN Unmapped
  ELSE LET b == CHOOSE b \in Listing(o) :
                  \A c \in Listing(o) : disk[c].seq <= disk[b].seq
       IN  [b |-> b,
            k |-> CHOOSE k \in DOMAIN store[b].off : store[b].off[k] = o]

(* The block indices after the replay of a device with n mesoblocks. *)
ReplayedMap(n) == [o \in 0..(n - 1) |-> Replayed(o)]

(* Nothing is obsoleted. *)
ReplayedInd_bad(m, b) ==
  [live |-> Len(store[b].off), off |-> store[b].off]

(* What is left of a block after the replay: the mesoblocks beyond the end *)
(* of the device were not looked at and count as alive.                    *)
ReplayedInd(m, b) ==
  LET alive == {k \in DOMAIN store[b].off :
                  LET o == store[b].off[k]
                  IN  o \notin DOMAIN m \/ m[o].b = b}
  IN  [live |-> Cardinality(alive),
       off |-> IF alive = {} THEN <<>> ELSE store[b].off]

(* The RAM of a partition that is not open. *)
PartitionGone ==
  /\ ind' = [b \in Block |-> [off |-> <<>>, live |-> 0]]
  /\ map' = EmptyMap
  /\ ram' = Buffer(ZeroContent)
  /\ outinit' = FALSE
  /\ op' = "idle"
  /\ req' = NoRequest

(* An assertion fails or FATAL is called: the daemon dies. *)
Die(what) ==
  /\ DeviceGone /\ pc' = "closed"
  /\ UNCHANGED <<disk, hiseq, torn, store, hist>>
  /\ PartitionGone
  /\ died' = what

Scubed3Init ==
  /\ BlockioInit
  /\ ind = [b \in Block |-> [off |-> <<>>, live |-> 0]]
  /\ store = [b \in Block |-> NoContents]
  /\ map = EmptyMap
  /\ ram = Buffer(ZeroContent)
  /\ outinit = FALSE
  /\ op = "idle"
  /\ req = NoRequest
  /\ died = "no"
  /\ hist = [self |-> FALSE, skip |-> FALSE]

----------------------------------------------------------------------------
(* control_create, scubed3_init of an empty device. *)
CreatePartition ==
  /\ Create
  /\ died' = "no"
  /\ UNCHANGED <<ind, store, map, ram, outinit, op, req, hist>>

(* control_open: Load, and scubed3_init's replay. *)
OpenPartition ==
  /\ Load
  /\ IF pc' = "fatal" THEN UNCHANGED <<ind, map>>
     ELSE LET m == ReplayedMap(NoBlockIndices(nmac', reserved'))
          IN  /\ map' = m
              /\ ind' = [b \in Block |-> ReplayedInd(m, b)]
  /\ died' = "no"
  /\ UNCHANGED <<store, ram, outinit, op, req, hist>>

(* blockio_dev_write_current_macroblock with the RAM state s: the indices  *)
(* and the mesoblocks in use are written (the others are zeroed).  The     *)
(* history notes a block that holds data although it will be reselected at *)
(* once (self), and a tail that was not copied (skip).                     *)
WrittenContents(s) ==
  LET off == s.ind[cur].off
  IN  [store EXCEPT ![cur] = [off |-> off,
                              data |-> [k \in 1..MMPM |->
                                          IF k <= Len(off) THEN s.ram[k]
                                          ELSE ZeroContent]]]

NotedWrite(s) ==
  [hist EXCEPT !.self = @ \/ (tail = cur /\ s.ind[cur].off # <<>>),
               !.skip = @ \/ (tail \notin {cur, NoBlock}
                                /\ s.ind[tail].live > 0)]

(* no_nonobsolete is left as it was. *)
AllAlive_bad(i) == i

(* no_nonobsolete = no_indices. *)
AllAlive(i) == [i EXCEPT ![cur].live = Len(i[cur].off)]

(* In RAM the buffer is encrypted in place and all the mesoblocks of the   *)
(* block count as alive.                                                   *)
WriteContents(s) ==
  /\ store' = WrittenContents(s)
  /\ ind' = AllAlive(s.ind)
  /\ map' = s.map
  /\ ram' = Buffer(CipherContent)
  /\ hist' = NotedWrite(s)

(* blockio_dev_select_next_macroblock; in scubed3_cycle the output of the  *)
(* new block is not initialised, in select_new_macroblock it is copied to  *)
(* at once.                                                                *)
SelectNext ==
  /\ \E b \in Block : \E n \in NextSlots(b) : Select(b, n)
  /\ op' = CASE op = "flush" -> "copy" [] OTHER -> "idle"
  /\ outinit' = (op = "flush" /\ outinit)
  /\ UNCHANGED <<ind, store, map, ram, req, died, hist>>

(* A mesoblock that is in RAM is appended again. *)
Placed_bad(s, r, index) ==
  LET n == Len(s.ind[cur].off)
  IN  IF n = MMPM THEN s
      ELSE [s EXCEPT !.ind[cur].off = Append(@, r.o),
                     !.map[r.o] = [b |-> cur, k |-> n + 1],
                     !.ram[n + 1] = [p \in Part |-> r.v]]

(* The mesoblock is numbered from zero. *)
PlacedZero_bad(s, r, index) ==
  LET n == Len(s.ind[cur].off)
  IN  IF n = MMPM THEN s
      ELSE [s EXCEPT !.map[r.o] = [b |-> cur, k |-> n]]

(* The second half of do_write on the RAM state s, with the index it has   *)
(* of the mesoblock.  A mesoblock in RAM is updated in place; otherwise it *)
(* is appended to the current block, do_cow supplies the parts that are    *)
(* not written, and the old copy is obsoleted.                             *)
Placed(s, r, index) ==
  LET n == Len(s.ind[cur].off)
      old == IF index = Unmapped THEN ZeroContent
             ELSE ReadMesoblk(index.b, index.k)
      new(c) == [p \in Part |-> IF p \in r.parts THEN r.v ELSE c[p]]
      obsoleted == IF index = Unmapped THEN s.ind
                   ELSE ObsoleteMesoblk(s.ind, index.b)
  IN  IF index.b = cur THEN [s EXCEPT !.ram[index.k] = new(@)]
      ELSE IF n = MMPM \/ (index # Unmapped /\ s.ind[index.b].live = 0)
           THEN [s EXCEPT !.ok = FALSE]
      ELSE [ind |-> [obsoleted EXCEPT ![cur].off = Append(@, r.o)],
            map |-> [s.map EXCEPT ![r.o] = [b |-> cur, k |-> n + 1]],
            ram |-> [s.ram EXCEPT ![n + 1] = new(old)],
            ok |-> TRUE]

(* The handler goes on at o with the request r and the RAM state s. *)
Continue(s, o, r) ==
  /\ ind' = s.ind /\ map' = s.map /\ ram' = s.ram
  /\ op' = o /\ req' = r
  /\ UNCHANGED <<store, died, hist>>

(* do_write of v in some parts of mesoblock o.  The index of the mesoblock *)
(* is read before initialize_output may move it, and again unless it was   *)
(* in RAM.  If the current block is full the request waits for             *)
(* select_new_macroblock; the code unlocks pleasewrite_mutex there, which  *)
(* it has not locked, and with an error checking mutex pthd_mutex_unlock   *)
(* is FATAL.                                                               *)
DoWrite(o, parts, v) ==
  LET r == [o |-> o, parts |-> parts, v |-> v]
      s == InitializedOutput
      full == map[o].b # cur /\ Len(s.ind[cur].off) = MMPM
      t == Placed(s, r, IF map[o].b = cur THEN map[o] ELSE s.map[o])
  IN  /\ op = "idle" /\ pc = "open"
      /\ IF ~ s.ok \/ (~ full /\ ~ t.ok) THEN Die("abort")
         ELSE IF full /\ ErrorCheck THEN Die("unlock")
         ELSE /\ MarkUpdated
              /\ outinit' = TRUE
              /\ IF full THEN Continue(s, "flush", r)
                 ELSE Continue(t, "idle", NoRequest)

(* One turn of the loop of select_new_macroblock: write, select (in        *)
(* SelectNext), copy; again while the new block is full.  Then do_write    *)
(* goes on.                                                                *)
FlushCurrent ==
  /\ op = "flush" /\ pc = "open"
  /\ WriteForNext
  /\ WriteContents(Now)
  /\ UNCHANGED <<outinit, op, req, died>>

FlushCopy ==
  LET s == CopyOldBlock
      full == Len(s.ind[cur].off) = MMPM
      t == Placed(s, req, s.map[req.o])
  IN  /\ op = "copy" /\ pc = "open"
      /\ IF ~ s.ok \/ (~ full /\ ~ t.ok) THEN Die("abort")
         ELSE /\ IF full THEN Continue(s, "flush", req)
                 ELSE Continue(t, "idle", NoRequest)
              /\ UNCHANGED <<bvars, outinit>>

(* scubed3_cycle: copy unless that was done, write, select.  Without a     *)
(* current block (a partition of size 0) a null pointer is dereferenced.   *)
Cycle ==
  LET s == InitializedOutput
  IN  /\ op = "idle" /\ pc = "open"
      /\ IF cur = NoBlock THEN Die("null")
         ELSE IF ~ s.ok THEN Die("abort")
         ELSE /\ WriteForNext
              /\ WriteContents(s)
              /\ op' = "cycled"
              /\ UNCHANGED <<outinit, req, died>>

(* control_resize and scubed3_reinit. *)
ResizePartition ==
  /\ op = "idle"
  /\ \E S \in SUBSET Block : \E sh \in Shapes :
       sh[1] = nmac + Cardinality(S) /\ Resize(S, sh[2])
  /\ IF pc' = "closed" THEN PartitionGone /\ UNCHANGED <<store, died, hist>>
     ELSE /\ map' = [o \in 0..(NoBlockIndices(nmac', reserved') - 1) |->
                       IF o \in DOMAIN map THEN map[o] ELSE Unmapped]
          /\ UNCHANGED <<ind, store, ram, outinit, op, req, died, hist>>

(* control_close: blockio_dev_free writes the current block if it was      *)
(* updated, without copying the tail.                                      *)
ClosePartition ==
  /\ op = "idle"
  /\ Close
  /\ IF updated
     THEN store' = WrittenContents(Now) /\ hist' = NotedWrite(Now)
     ELSE UNCHANGED <<store, hist>>
  /\ PartitionGone
  /\ UNCHANGED died

CrashPartition == Crash /\ PartitionGone /\ UNCHANGED <<store, died, hist>>

CrashTornPartition ==
  /\ op \in {"idle", "flush"}
  /\ CrashTorn
  /\ PartitionGone
  /\ store' = [store EXCEPT ![cur] = NoContents]
  /\ UNCHANGED <<died, hist>>

Scubed3Next ==
  \/ CreatePartition
  \/ OpenPartition
  \/ SelectNext
  \/ \E o \in DOMAIN map : \E parts \in SUBSET Part \ {{}} : \E v \in Value :
       DoWrite(o, parts, v)
  \/ FlushCurrent
  \/ FlushCopy
  \/ Cycle
  \/ ResizePartition
  \/ ClosePartition
  \/ CrashPartition
  \/ CrashTornPartition

Scubed3Spec == Scubed3Init /\ [][Scubed3Next]_vars

----------------------------------------------------------------------------
(* What the disk alone says: what a replay of it would make readable. *)
DiskView ==
  IF Signed(disk) = {} THEN EmptyMap
  ELSE LET m == CHOOSE m \in Block : IsNewest(disk, m)
       IN  [o \in 0..(NoBlockIndices(disk[m].nmac, disk[m].reserved) - 1) |->
              LET e == Replayed(o)
              IN  IF e = Unmapped THEN ZeroContent ELSE store[e.b].data[e.k]]

View ==
  IF pc \in {"closed", "fatal"} THEN DiskView
  ELSE [o \in DOMAIN map |-> DoRead(o)]

(* The two ways in which a block is overwritten while it holds data. *)
Tainted == hist.self \/ hist.skip

S == INSTANCE BlockStore WITH
       mem <- IF Tainted THEN EmptyMap ELSE View,
       dur <- IF Tainted THEN EmptyMap ELSE DiskView,
       ok <- ~ Tainted,
       MaxSize <- Cardinality(Block) * MMPM

(* Until a block that holds data is overwritten, a partition is a block    *)
(* store: a read returns the last write, the garbage collector moves data  *)
(* without changing it, a close loses nothing, and a crash at any moment,  *)
(* in the middle of writing a header too, goes back exactly to the state   *)
(* of the last macroblock written.                                         *)
ImplementsStore == S!StoreSpec

(* Garbage collection always fits and the counts of live mesoblocks are    *)
(* right: none of the assertions of scubed3.c (the index of a mesoblock is *)
(* below mmpm, a block that loses a mesoblock had one) can fail.           *)
AssertionsHold == died = "abort" => Tainted

(* no_nonobsolete of a block is the number of mesoblocks that              *)
(* block_indices finds in it, for every block but the current one.         *)
LiveExact ==
  pc \in {"open", "select", "selectResized"} /\ ~ Tainted =>
    \A b \in Block \ {cur} :
      ind[b].live = Cardinality({o \in DOMAIN map : map[o].b = b})

(* No macroblock lists a mesoblock twice (the assertion in replay). *)
NoDuplicates == \A b \in Block : ~ Tainted => IsInjective(store[b].off)

(* README, "Random block selection": a block that will be immediately      *)
(* reselected gets a dummy write.  No such block is written with data.     *)
DummyWrite == ~ hist.self

(* blockio.h calls tail_macroblock the block that must be cleaned out.  No *)
(* current block is written while its tail still holds live data.          *)
TailCleanedOut == ~ hist.skip

============================================================================
