--------------------------- MODULE Scubed3_proofs ---------------------------
(***************************************************************************)
(* Proofs about Scubed3: the types, the assertions of scubed3.c, the       *)
(* counts of live mesoblocks, the lists on disk, and that a partition is a *)
(* crash-safe block store (BlockStore).                                    *)
(***************************************************************************)
EXTENDS Scubed3, SequenceTheorems, FunctionTheorems, FiniteSetTheorems,
        WellFoundedInduction, TLAPS

IsOpen == pc \in {"open", "select", "selectResized"}

(* The number of mesoblocks of the device, and what it was when a header   *)
(* was written.                                                            *)
Size == NoBlockIndices(nmac, reserved)
SizeOf(h) == NoBlockIndices(h.nmac, h.reserved)

(* What the RAM of a partition consists of, as the loop of                 *)
(* copy_old_block_to_current and do_write change it.                       *)
Place == [b : Block, k : 1..MMPM] \cup {Unmapped}
Indices == [off : BoundedSeq(Offset, MMPM), live : 0..MMPM]

StateOK(s) ==
  /\ s.ind \in [Block -> Indices]
  /\ DOMAIN s.map = DOMAIN map
  /\ \A o \in DOMAIN map : s.map[o] \in Place
  /\ s.ram \in [1..MMPM -> Content]
  /\ s.ok \in BOOLEAN

(* do_read of mesoblock o with the RAM s. *)
ReadOf(s, o) ==
  LET e == s.map[o]
  IN  IF e = Unmapped THEN ZeroContent
      ELSE IF e.b = cur THEN s.ram[e.k]
      ELSE ReadMesoblk(e.b, e.k)

(* The mesoblocks that the block indices m find in block b. *)
Mapped(m, b) == {o \in DOMAIN m : m[o].b = b}

(* The numbers of live mesoblocks are right; a block with none has         *)
(* forgotten its indices, the others have those on disk.                   *)
CountsOK(i, m) ==
  \A b \in Block \ {cur} :
    /\ i[b].live = Cardinality(Mapped(m, b))
    /\ i[b].off = IF i[b].live = 0 THEN <<>> ELSE store[b].off

(* The indices of the current block and the block indices agree. *)
CurrentOK(i, m) ==
  cur # NoBlock =>
    /\ \A k \in DOMAIN i[cur].off :
         /\ i[cur].off[k] \in DOMAIN m
         /\ m[i[cur].off[k]] = [b |-> cur, k |-> k]
    /\ \A o \in Mapped(m, cur) :
         m[o].k \in DOMAIN i[cur].off /\ i[cur].off[m[o].k] = o

(* Every other mesoblock is found where the disk has it ... *)
FoundOnDisk(m) ==
  \A o \in DOMAIN m : m[o].b \notin {NoBlock, cur} =>
    /\ m[o].b \in Signed(disk)
    /\ m[o].k \in DOMAIN store[m[o].b].off
    /\ store[m[o].b].off[m[o].k] = o

(* ... and in the last block that lists it. *)
LatestFound(m) ==
  \A b \in Signed(disk) \ {cur} : \A k \in DOMAIN store[b].off :
    LET o == store[b].off[k]
    IN  /\ o \in DOMAIN m /\ m[o].b # NoBlock
        /\ m[o].b = cur \/ disk[m[o].b].seq >= disk[b].seq

Sound(i, m) ==
  CountsOK(i, m) /\ CurrentOK(i, m) /\ FoundOnDisk(m) /\ LatestFound(m)

(* tail is the block that will be selected next if one is due then; when   *)
(* no block is selected, nothing is found in the one that is due.          *)
TailOK ==
  /\ cur # NoBlock =>
       /\ tail # NoBlock => tail \in scheduled /\ bnext[tail] = seqno + 1
       /\ \A b \in scheduled : bnext[b] = seqno + 1 => b = tail
  /\ cur = NoBlock =>
       \A b \in scheduled : bnext[b] = seqno + 1 => Mapped(map, b) = {}

(* A block that nothing has been copied to is empty. *)
FreshOK ==
  cur # NoBlock /\ (~ outinit \/ op = "copy") => ind[cur].off = <<>>

(* The mesoblocks that block b lists are listed by later blocks too. *)
Superseded(b) ==
  \A k \in DOMAIN store[b].off : \E c \in Signed(disk) :
    /\ disk[c].seq > disk[b].seq
    /\ \E j \in DOMAIN store[c].off : store[c].off[j] = store[b].off[k]

(* What is on disk: no block lists a mesoblock twice, or one that the      *)
(* device did not have; devices only grow; and the block that is due after *)
(* the newest one has nothing that is not elsewhere.                       *)
DiskOK ==
  /\ \A b \in Block : IsInjective(store[b].off)
  /\ \A b \in Block \ Signed(disk) : store[b].off = <<>>
  /\ \A b \in Signed(disk) : \A k \in DOMAIN store[b].off :
       store[b].off[k] < SizeOf(disk[b])
  /\ \A b, c \in Signed(disk) :
       disk[b].seq <= disk[c].seq => SizeOf(disk[b]) <= SizeOf(disk[c])
  /\ \A m \in Block : IsNewest(disk, m) =>
       \A b \in Signed(disk) : disk[b].next = disk[m].seq + 1 => Superseded(b)

(* No device on disk was larger than the one that is open. *)
Grown == \A b \in Signed(disk) : SizeOf(disk[b]) <= Size

(* Where the handlers are. *)
ControlOK ==
  /\ IsOpen => DOMAIN map = 0..(Size - 1)
  /\ ~ IsOpen => /\ ind = [b \in Block |-> [off |-> <<>>, live |-> 0]]
                 /\ map = EmptyMap /\ ~ outinit /\ op = "idle"
  /\ pc = "open" /\ cur = NoBlock => nmac <= reserved /\ op = "idle"
  /\ op = "copy" => pc = "open"
  /\ op = "cycled" => pc = "select"
  /\ op \in {"flush", "copy"} => outinit /\ req.o \in DOMAIN map
  /\ req.parts \in SUBSET Part /\ req.v \in Value \cup {Zero}

DataInv ==
  /\ Scubed3TypeOK /\ ControlOK
  /\ ~ Tainted => DiskOK
  /\ ~ Tainted /\ IsOpen => Sound(ind, map) /\ TailOK /\ FreshOK /\ Grown
  /\ AssertionsHold

----------------------------------------------------------------------------
(* What blockio.c guarantees: a partition of which no power failure is     *)
(* considered is a special case of PowerLoss.                              *)

P == INSTANCE PowerLoss_proofs WITH
       platter <- [b \in Block |-> NoHeader], failures <- 0, damage <- {},
       MaxFailures <- 0

(* What the contents rest on.  *)
BlockOK ==
  /\ BlockioTypeOK /\ pc # "fatal" /\ ScheduleSound
  /\ \A b, c \in Signed(disk) :
       /\ disk[b].seq < disk[c].next
       /\ disk[b].seq = disk[c].seq => b = c
       /\ disk[b].next = disk[c].next => b = c
  /\ \A b \in Signed(disk) : disk[b].nmac = Cardinality(disk[b].used)
  /\ IsOpen =>
       /\ used = scheduled \cup unscheduled
       /\ scheduled \cap unscheduled = {}
       /\ nmac = Cardinality(used)
       /\ scheduled = Signed(disk) \cup (IF cur = NoBlock THEN {} ELSE {cur})
       /\ \A c \in Signed(disk) \ {cur} :
            bseq[c] = disk[c].seq /\ bnext[c] = disk[c].next
       /\ \A c \in Signed(disk) : disk[c].seq <= seqno
  /\ cur # NoBlock =>
       /\ pc = "open"
       /\ seqno > 0 /\ bseq[cur] = seqno /\ seqno < bnext[cur]
       /\ \A c \in Signed(disk) : disk[c].seq < seqno
       /\ cur \in Signed(disk) => disk[cur].next = seqno
  /\ pc = "closed" =>
       /\ scheduled = {} /\ unscheduled = {} /\ seqno = 0
       /\ cur = NoBlock /\ used = {} /\ nmac = 0

(* The initial states are those of PowerLoss. *)
LEMMA BlockInit == Scubed3Init => P!PowerLossInit
  BY DEF Scubed3Init, P!PowerLossInit, P!BlockioInit, P!JugglerInit, P!NoHeader,
         BlockioInit, JugglerInit, NoHeader

(* Every step of the partition is a step of blockio.c, or none. *)
LEMMA BlockNext ==
  ASSUME [Scubed3Next]_vars
  PROVE  [BlockioNext]_bvars
  <1> USE DEF BlockioNext
  <1>1. CASE CreatePartition
    BY <1>1 DEF CreatePartition
  <1>2. CASE OpenPartition
    BY <1>2 DEF OpenPartition
  <1>3. CASE SelectNext
    BY <1>3 DEF SelectNext
  <1>d. ASSUME NEW what, Die(what), pc = "open"
        PROVE  Crash
    BY <1>d DEF Die, Crash
  <1>4. ASSUME NEW o, NEW parts, NEW v, DoWrite(o, parts, v)
        PROVE  BlockioNext
    BY <1>4, <1>d DEF DoWrite
  <1>5. CASE FlushCurrent
    BY <1>5 DEF FlushCurrent
  <1>6. CASE FlushCopy
    BY <1>6, <1>d DEF FlushCopy
  <1>7. CASE Cycle
    BY <1>7, <1>d DEF Cycle
  <1>8. CASE ResizePartition
    BY <1>8 DEF ResizePartition
  <1>9. CASE ClosePartition
    BY <1>9 DEF ClosePartition
  <1>10. CASE CrashPartition
    BY <1>10 DEF CrashPartition
  <1>11. CASE CrashTornPartition
    BY <1>11 DEF CrashTornPartition
  <1>12. CASE UNCHANGED vars
    BY <1>12 DEF vars
  <1> QED BY <1>1, <1>2, <1>3, <1>4, <1>5, <1>6, <1>7, <1>8, <1>9, <1>10, <1>11,
             <1>12 DEF Scubed3Next

(* Sets are counted in the same way. *)
LEMMA SameSets ==
  /\ \A X : P!IsFiniteSet(X) <=> IsFiniteSet(X)
  /\ \A X : P!Cardinality(X) = Cardinality(X)
  <1>1. \A X : P!IsFiniteSet(X) <=> IsFiniteSet(X)
    BY Zenon DEF P!IsFiniteSet, IsFiniteSet
  <1>2. \A X : P!Cardinality(X) = Cardinality(X)
    BY Zenon DEF P!Cardinality, Cardinality
  <1> QED BY <1>1, <1>2

(* The operators of the instance are those of Blockio. *)
LEMMA SameOperators ==
  /\ P!NoHeader = NoHeader
  /\ \A d : P!Signed(d) = Signed(d)
  /\ \A d, b : P!IsNewest(d, b) <=> IsNewest(d, b)
  /\ \A d : P!DiskSeq(d) = DiskSeq(d) /\ P!DiskNext(d) = DiskNext(d)
  /\ \A X, sq, nx : P!SeqnosHash(X, sq, nx) = SeqnosHash(X, sq, nx)
  /\ \A b : P!NextSlots(b) = NextSlots(b)
  /\ P!Candidates = Candidates
  /\ P!CurrentHeader = CurrentHeader
  /\ P!jvars = jvars /\ P!devvars = devvars /\ P!bvars = bvars
  <1>1. P!NoHeader = NoHeader
    BY DEF P!NoHeader, NoHeader
  <1>2. \A d : P!Signed(d) = Signed(d)
    BY DEF P!Signed, Signed
  <1>3. \A d, b : P!IsNewest(d, b) <=> IsNewest(d, b)
    BY <1>2 DEF P!IsNewest, IsNewest
  <1>4. \A d : P!DiskSeq(d) = DiskSeq(d) /\ P!DiskNext(d) = DiskNext(d)
    BY DEF P!DiskSeq, DiskSeq, P!DiskNext, DiskNext
  <1>5. \A X, sq, nx : P!SeqnosHash(X, sq, nx) = SeqnosHash(X, sq, nx)
    BY Zenon DEF P!SeqnosHash, SeqnosHash
  <1>6. \A b : P!NextSlots(b) = NextSlots(b)
    BY Zenon DEF P!NextSlots, NextSlots
  <1>7. P!Candidates = Candidates
    BY DEF P!Candidates, Candidates, P!Obsoleted, Obsoleted, P!OwnerOf, OwnerOf
  <1>8. P!CurrentHeader = CurrentHeader
    BY <1>5, Zenon DEF P!CurrentHeader, CurrentHeader
  <1>9. P!jvars = jvars /\ P!devvars = devvars /\ P!bvars = bvars
    BY DEF P!jvars, jvars, P!devvars, devvars, P!bvars, bvars
  <1> QED BY <1>1, <1>2, <1>3, <1>4, <1>5, <1>6, <1>7, <1>8, <1>9

(* So are its actions. *)
LEMMA SameActions == BlockioNext => P!BlockioNext
  <1> USE SameOperators, SameSets
  <1>0. DeviceGone => P!DeviceGone
    BY Zenon DEF P!DeviceGone, DeviceGone
  <1>1. Create => P!Create
    BY Zenon DEF P!Create, Create, P!jvars, jvars, P!devvars, devvars
  <1>2. Load => P!Load
    <2>1. \A m : /\ P!CountMismatch(m) <=> CountMismatch(m)
                 /\ P!HeadersClash(m) <=> HeadersClash(m)
                 /\ P!Claimed(m) = Claimed(m)
                 /\ P!RestoredSeqno(m) = RestoredSeqno(m)
      BY Zenon DEF P!CountMismatch, CountMismatch, P!HeadersClash, HeadersClash,
             P!Claimed, Claimed, P!RestoredSeqno, RestoredSeqno
    <2> QED BY <2>1, Zenon DEF P!Load, Load, P!jvars, jvars, P!devvars, devvars
  <1>3. \A b, n : GetDevblock(b, n) => P!GetDevblock(b, n)
    BY Zenon DEF P!GetDevblock, GetDevblock
  <1>4. \A b, n : Select(b, n) => P!Select(b, n)
    BY <1>3, Zenon DEF P!Select, Select
  <1>5. WriteCurrent => P!WriteCurrent
    BY Zenon DEF P!WriteCurrent, WriteCurrent
  <1>6. WriteForNext => P!WriteForNext
    BY <1>5, Zenon DEF P!WriteForNext, WriteForNext, P!jvars, jvars
  <1>7. MarkUpdated => P!MarkUpdated
    BY Zenon DEF P!MarkUpdated, MarkUpdated, P!jvars, jvars
  <1>8. \A X, r : Resize(X, r) => P!Resize(X, r)
    BY <1>0, ZenonT(30) DEF P!Resize, Resize
  <1>9. Close => P!Close
    BY <1>0, <1>5, Zenon DEF P!Close, Close
  <1>10. Crash => P!Crash
    BY <1>0, Zenon DEF P!Crash, Crash
  <1>11. CrashTorn => P!CrashTorn
    BY <1>0, Zenon DEF P!CrashTorn, CrashTorn
  <1> QED BY <1>1, <1>2, <1>4, <1>6, <1>7, <1>8, <1>9, <1>10, <1>11, Zenon
             DEF P!BlockioNext, BlockioNext

(* A partition is a PowerLoss without power failures. *)
LEMMA BlockStep ==
  ASSUME [Scubed3Next]_vars
  PROVE  [P!PowerLossNext]_P!pvars
  <1>1. CASE BlockioNext
    <2>1. P!Followed
      BY DEF P!Followed
    <2> QED BY <1>1, <2>1, SameActions DEF P!PowerLossNext
  <1>2. CASE UNCHANGED bvars
    BY <1>2 DEF P!pvars, P!bvars, bvars, P!jvars, jvars, P!devvars, devvars
  <1> QED BY <1>1, <1>2, BlockNext

(* The invariant of PowerLoss in the words of this module. *)
LEMMA PowerIsBlockOK == P!PowerInv => BlockOK
  <1> SUFFICES ASSUME P!PowerInv PROVE BlockOK
    OBVIOUS
  <1> USE SameOperators, SameSets
  <1>1. BlockioTypeOK
    BY DEF P!PowerInv, P!PowerTypeOK, P!BlockioTypeOK, P!JugglerTypeOK, P!Header,
           BlockioTypeOK, JugglerTypeOK, Header
  <1>2. pc # "fatal"
    BY DEF P!PowerInv, P!OpenNeverFatal
  <1>3. ScheduleSound
    <2>1. P!ScheduleSound
      BY DEF P!PowerInv, P!ScheduleSurvives
    <2> QED BY <2>1 DEF P!ScheduleSound, P!NoMissedSlot, P!SlotsUnique,
          P!BlockAvailable, P!Members, ScheduleSound, NoMissedSlot, SlotsUnique,
          BlockAvailable, Members
  <1>4. ASSUME NEW b \in Signed(disk), NEW c \in Signed(disk)
        PROVE  /\ disk[b].seq < disk[c].next
               /\ disk[b].seq = disk[c].seq => b = c
               /\ disk[b].next = disk[c].next => b = c
    <2>1. disk[b].seq < disk[c].next
      BY DEF P!PowerInv, P!DiskGoesOn
    <2>2. b \in Block /\ c \in Block /\ disk[b].seq # 0 /\ disk[c].seq # 0
      BY DEF Signed
    <2>3. disk[b] \in P!Versions(b) /\ disk[c] \in P!Versions(c)
      BY <2>2 DEF P!Versions
    <2>4. P!Fits(b, disk[b], c, disk[c])
      BY <2>2, <2>3 DEF P!PowerInv, P!HeadersOK
    <2> QED BY <2>1, <2>4 DEF P!Fits
  <1>5. ASSUME NEW b \in Signed(disk)
        PROVE  disk[b].nmac = Cardinality(disk[b].used)
    <2>1. b \in Block /\ disk[b] \in P!Versions(b)
      BY DEF Signed, P!Versions
    <2> QED BY <2>1 DEF P!PowerInv, P!HeadersOK
  <1>6. IsOpen =>
       /\ used = scheduled \cup unscheduled
       /\ scheduled \cap unscheduled = {}
       /\ nmac = Cardinality(used)
       /\ scheduled = Signed(disk) \cup (IF cur = NoBlock THEN {} ELSE {cur})
       /\ \A c \in Signed(disk) \ {cur} :
            bseq[c] = disk[c].seq /\ bnext[c] = disk[c].next
       /\ \A c \in Signed(disk) : disk[c].seq <= seqno
    BY Zenon DEF P!PowerInv, P!RamOK, P!IsOpen, IsOpen
  <1>7. cur # NoBlock =>
       /\ pc = "open"
       /\ seqno > 0 /\ bseq[cur] = seqno /\ seqno < bnext[cur]
       /\ \A c \in Signed(disk) : disk[c].seq < seqno
       /\ cur \in Signed(disk) => disk[cur].next = seqno
    BY Zenon DEF P!PowerInv, P!CurOK
  <1>8. pc = "closed" =>
       /\ scheduled = {} /\ unscheduled = {} /\ seqno = 0
       /\ cur = NoBlock /\ used = {} /\ nmac = 0
    BY DEF P!PowerInv, P!ClosedOK
  <1> QED BY <1>1, <1>2, <1>3, <1>4, <1>5, <1>6, <1>7, <1>8, Zenon DEF BlockOK

(* The headers and the schedule are right in every state of the partition. *)
THEOREM BlockInvariant == Scubed3Spec => []BlockOK
  <1>1. Scubed3Init => P!PowerLossInit
    BY BlockInit
  <1>2. [Scubed3Next]_vars => [P!PowerLossNext]_P!pvars
    BY BlockStep
  <1>3. P!PowerLossSpec => []P!PowerInv
    BY P!PowerInvariant, SameSets, BlockAssumption, SeqnoAssumption
  <1> QED BY <1>1, <1>2, <1>3, PowerIsBlockOK, PTL DEF Scubed3Spec, P!PowerLossSpec

----------------------------------------------------------------------------
(* The operators of the model. *)

(* The indices of a block, as a sequence with a bounded length. *)
LEMMA BoundedOff ==
  ASSUME NEW f
  PROVE  f \in BoundedSeq(Offset, MMPM) <=> f \in Seq(Offset) /\ Len(f) <= MMPM
  <1>0. MMPM \in Nat
    BY Scubed3Assumption
  <1>1. BoundedSeq(Offset, MMPM) = UNION {[1..n -> Offset] : n \in 0..MMPM}
    BY DEF BoundedSeq, SeqOf
  <1>2. ASSUME f \in BoundedSeq(Offset, MMPM)
        PROVE  f \in Seq(Offset) /\ Len(f) <= MMPM
    <2>1. PICK n \in 0..MMPM : f \in [1..n -> Offset]
      BY <1>1, <1>2
    <2> QED BY <1>0, <2>1
  <1>3. ASSUME f \in Seq(Offset), Len(f) <= MMPM
        PROVE  f \in BoundedSeq(Offset, MMPM)
    <2>1. Len(f) \in 0..MMPM /\ f \in [1..Len(f) -> Offset]
      BY <1>0, <1>3, LenProperties
    <2> QED BY <1>1, <2>1
  <1> QED BY <1>2, <1>3

(* Blocks and mesoblocks are finite in number. *)
LEMMA Counting ==
  /\ MMPM \in Nat /\ MMPM >= 1
  /\ NoBlock \notin Block
  /\ Cardinality(Block) \in Nat
  /\ \A X \in SUBSET Block :
       IsFiniteSet(X) /\ Cardinality(X) \in Nat /\ Cardinality(X) <= Cardinality(Block)
  <1>1. MMPM \in Nat /\ MMPM >= 1
    BY Scubed3Assumption
  <1>2. IsFiniteSet(Block) /\ NoBlock \notin Block
    BY BlockAssumption
  <1>3. Cardinality(Block) \in Nat
    BY <1>2, FS_CardinalityType
  <1>4. ASSUME NEW X \in SUBSET Block
        PROVE  IsFiniteSet(X) /\ Cardinality(X) \in Nat
               /\ Cardinality(X) <= Cardinality(Block)
    BY <1>2, FS_Subset, FS_CardinalityType
  <1> QED BY <1>1, <1>2, <1>3, <1>4

(* What the provers need to know of products.                              *)
LEMMA Products ==
  ASSUME NEW a \in Nat, NEW c \in Nat, NEW m \in Nat
  PROVE  a * m \in Nat /\ (a <= c => a * m <= c * m)
  <1>1. a * m \in Nat
    BY SMT
  <1>2. ASSUME a <= c PROVE a * m <= c * m
    <2>1. PICK d \in Nat : c = a + d
      <3>1. c - a \in Nat /\ c = a + (c - a)
        BY <1>2
      <3> QED BY <3>1
    <2>2. c * m = a * m + d * m
      BY <2>1, SMT
    <2>3. d * m \in Nat
      BY SMT
    <2> QED BY <1>1, <2>2, <2>3
  <1> QED BY <1>1, <1>2

(* A device of at most as many macroblocks as there are has its mesoblocks *)
(* among the offsets.                                                      *)
LEMMA SizeFacts ==
  ASSUME NEW n \in Nat, NEW r \in Nat
  PROVE  /\ NoBlockIndices(n, r) \in Nat
         /\ n <= r => NoBlockIndices(n, r) = 0
         /\ n <= Cardinality(Block) => 0..(NoBlockIndices(n, r) - 1) \subseteq Offset
         /\ \A p, q \in Nat : (n > r => p - q >= n - r)
              => NoBlockIndices(n, r) <= NoBlockIndices(p, q)
  <1>0. Cardinality(Block) \in Nat /\ MMPM \in Nat
    BY Counting
  <1>1. ASSUME NEW i \in Nat, NEW j \in Nat
        PROVE  NoBlockIndices(i, j) \in Nat
    <2>1. CASE i <= j
      BY <2>1 DEF NoBlockIndices
    <2>2. CASE i > j
      <3>1. i - j \in Nat
        BY <2>2
      <3>2. (i - j) * MMPM \in Nat
        BY <1>0, <3>1, Products
      <3> QED BY <2>2, <3>2 DEF NoBlockIndices
    <2> QED BY <2>1, <2>2
  <1>2. n <= r => NoBlockIndices(n, r) = 0
    BY DEF NoBlockIndices
  <1>3. ASSUME n <= Cardinality(Block)
        PROVE  0..(NoBlockIndices(n, r) - 1) \subseteq Offset
    <2>1. Cardinality(Block) * MMPM \in Nat
      BY <1>0, Products
    <2>2. NoBlockIndices(n, r) <= Cardinality(Block) * MMPM
      <3>1. CASE n <= r
        BY <2>1, <3>1 DEF NoBlockIndices
      <3>2. CASE n > r
        <4>1. n - r \in Nat /\ n - r <= Cardinality(Block)
          BY <1>0, <1>3, <3>2
        <4>2. (n - r) * MMPM <= Cardinality(Block) * MMPM
          BY <1>0, <4>1, Products
        <4> QED BY <3>2, <4>2 DEF NoBlockIndices
      <3> QED BY <3>1, <3>2
    <2>3. NoBlockIndices(n, r) \in Nat
      BY <1>1
    <2> QED BY <2>1, <2>2, <2>3 DEF Offset
  <1>4. ASSUME NEW p \in Nat, NEW q \in Nat, n > r => p - q >= n - r
        PROVE  NoBlockIndices(n, r) <= NoBlockIndices(p, q)
    <2>1. CASE n <= r
      <3>1. NoBlockIndices(p, q) \in Nat
        BY <1>1
      <3> QED BY <1>2, <2>1, <3>1
    <2>2. CASE n > r
      <3>1. p > q /\ n - r \in Nat /\ p - q \in Nat /\ n - r <= p - q
        BY <1>4, <2>2
      <3>2. (n - r) * MMPM <= (p - q) * MMPM
        BY <1>0, <3>1, Products
      <3> QED BY <2>2, <3>1, <3>2 DEF NoBlockIndices
    <2> QED BY <2>1, <2>2
  <1> QED BY <1>1, <1>2, <1>3, <1>4

(* A mesoblock is somewhere, or nowhere. *)
LEMMA PlaceFacts ==
  ASSUME NEW e \in Place
  PROVE  /\ e.b \in Block \cup {NoBlock}
         /\ e.b # NoBlock => e.k \in 1..MMPM
         /\ e = Unmapped <=> e.b = NoBlock
  BY Counting DEF Place, Unmapped

(* The fields of the indices of a block. *)
LEMMA IndicesFacts ==
  ASSUME NEW x \in Indices
  PROVE  /\ x.off \in Seq(Offset) /\ Len(x.off) \in Nat /\ Len(x.off) <= MMPM
         /\ DOMAIN x.off = 1..Len(x.off)
         /\ x.live \in Nat /\ x.live <= MMPM
  <1>1. x.off \in BoundedSeq(Offset, MMPM) /\ x.live \in 0..MMPM
    BY DEF Indices
  <1>2. x.off \in Seq(Offset) /\ Len(x.off) <= MMPM
    BY <1>1, BoundedOff
  <1> QED BY <1>1, <1>2, Counting

(* A set of numbers that is not empty has a least one. *)
LEMMA LeastNumber ==
  ASSUME NEW T \in SUBSET Nat, T # {}
  PROVE  \E t \in T : \A u \in T : t <= u
  <1>1. PICK t \in T : \A u \in T : ~ (<<u, t>> \in OpToRel(<, Nat))
    BY NatLessThanWellFounded, WFMin
  <1>2. \A u \in T : ~ (u < t)
    BY <1>1 DEF OpToRel
  <1> QED BY <1>2

(* The turns of the loop: the trace is what its definition says. *)
LEMMA CopyTraceDef ==
  /\ DOMAIN CopyTrace = 0..MMPM
  /\ CopyTrace[0] = Now
  /\ \A k \in 1..MMPM : CopyTrace[k] = CopyMesoblk(CopyTrace[k - 1], k)
  <1> DEFINE Rec(n, f) ==
        f = [k \in 0..n |-> IF k = 0 THEN Now ELSE CopyMesoblk(f[k - 1], k)]
             Bad == {n \in 0..MMPM : ~ \E f : Rec(n, f)}
  <1>0. MMPM \in Nat
    BY Counting
  <1>1. ASSUME Bad # {} PROVE FALSE
    <2>1. Bad \in SUBSET Nat
      BY <1>0
    <2> HIDE DEF Bad
    <2>2. PICK n \in Bad : \A u \in Bad : n <= u
      BY <1>1, <2>1, LeastNumber
    <2> USE DEF Bad
    <2>3. CASE n = 0
      <3> DEFINE f == [k \in 0..0 |-> Now]
      <3>1. f = [k \in 0..0 |-> IF k = 0 THEN Now ELSE CopyMesoblk(f[k - 1], k)]
        OBVIOUS
      <3> QED BY <2>2, <2>3, <3>1
    <2>4. CASE n # 0
      <3>1. n - 1 \in 0..MMPM /\ n - 1 \notin Bad /\ n \in Nat /\ n >= 1
        BY <1>0, <2>2, <2>4
      <3>2. PICK f : Rec(n - 1, f)
        BY <3>1
      <3> DEFINE g == [k \in 0..n |-> IF k = n THEN CopyMesoblk(f[n - 1], n) ELSE f[k]]
      <3>3. \A k \in 0..n : g[k] = IF k = 0 THEN Now ELSE CopyMesoblk(g[k - 1], k)
        <4> TAKE k \in 0..n
        <4>1. CASE k = n
          <5>1. n - 1 \in 0..n /\ n - 1 # n /\ n # 0
            BY <3>1
          <5>2. g[n - 1] = f[n - 1]
            BY <5>1
          <5> QED BY <4>1, <5>1, <5>2
        <4>2. CASE k # n
          <5>1. k \in 0..(n - 1) /\ g[k] = f[k]
            BY <3>1, <4>2
          <5>2. f[k] = IF k = 0 THEN Now ELSE CopyMesoblk(f[k - 1], k)
            BY <3>2, <5>1
          <5>3. k # 0 => k - 1 \in 0..n /\ k - 1 # n
            BY <3>1, <5>1
          <5> QED BY <5>1, <5>2, <5>3
        <4> QED BY <4>1, <4>2
      <3>4. Rec(n, g)
        BY <3>3
      <3> QED BY <2>2, <3>4
    <2> QED BY <2>3, <2>4
  <1>2. \E f : Rec(MMPM, f)
    BY <1>0, <1>1
  <1>3. CopyTrace = CHOOSE f : Rec(MMPM, f)
    BY DEF CopyTrace
  <1>4. Rec(MMPM, CopyTrace)
    BY <1>2, <1>3
  <1>5. \A k \in 0..MMPM : CopyTrace[k] = IF k = 0 THEN Now
                                          ELSE CopyMesoblk(CopyTrace[k - 1], k)
    BY <1>4
  <1> QED BY <1>0, <1>4, <1>5

----------------------------------------------------------------------------
(* How the RAM changes: the types. *)

(* obsolete_mesoblk takes one from the count of its block. *)
LEMMA ObsoleteFacts ==
  ASSUME NEW i \in [Block -> Indices], NEW d \in Block, i[d].live # 0,
         NEW j, j = ObsoleteMesoblk(i, d)
  PROVE  /\ j \in [Block -> Indices]
         /\ j[d].live = i[d].live - 1
         /\ j[d].off = IF i[d].live = 1 THEN <<>> ELSE i[d].off
         /\ \A b \in Block \ {d} : j[b] = i[b]
  <1> DEFINE x == [live |-> i[d].live - 1,
                   off |-> IF i[d].live = 1 THEN <<>> ELSE i[d].off]
  <1>1. j = [i EXCEPT ![d] = x]
    BY DEF ObsoleteMesoblk
  <1>2. x \in Indices
    <2>1. i[d] \in Indices
      OBVIOUS
    <2>2. i[d].live - 1 \in 0..MMPM
      BY <2>1, IndicesFacts, Counting
    <2>3. <<>> \in BoundedSeq(Offset, MMPM)
      <3>1. PICK f : f = <<>>
        OBVIOUS
      <3>2. f \in Seq(Offset) /\ Len(f) <= MMPM
        BY <3>1, Counting
      <3> QED BY <3>1, <3>2, BoundedOff
    <2>4. i[d].off \in BoundedSeq(Offset, MMPM)
      BY <2>1 DEF Indices
    <2> QED BY <2>2, <2>3, <2>4 DEF Indices
  <1> HIDE DEF x
  <1>3. j \in [Block -> Indices] /\ j[d] = x /\ \A b \in Block \ {d} : j[b] = i[b]
    BY <1>1, <1>2
  <1> QED BY <1>3 DEF x

(* The indices i after o was appended to those of block c. *)
Longer(i, c, o) == [i EXCEPT ![c].off = Append(@, o)]

(* Only block c gets another index. *)
LEMMA AppendFacts ==
  ASSUME NEW i \in [Block -> Indices], NEW c \in Block, NEW o \in Offset,
         Len(i[c].off) # MMPM,
         NEW j, j = Longer(i, c, o)
  PROVE  /\ j \in [Block -> Indices]
         /\ j[c].off = Append(i[c].off, o) /\ j[c].live = i[c].live
         /\ \A b \in Block \ {c} : j[b] = i[b]
  <1>1. PICK x \in Indices : x = i[c]
    OBVIOUS
  <1>2. x.off \in Seq(Offset) /\ Len(x.off) \in Nat /\ Len(x.off) < MMPM
        /\ x.live \in 0..MMPM
    BY <1>1, IndicesFacts, Counting
  <1>3. PICK a : a = Append(x.off, o)
    OBVIOUS
  <1>4. a \in Seq(Offset) /\ Len(a) <= MMPM
    BY <1>2, <1>3, AppendProperties, Counting
  <1>5. a \in BoundedSeq(Offset, MMPM)
    BY <1>4, BoundedOff
  <1>6. PICK y : y = [x EXCEPT !.off = a]
    OBVIOUS
  <1>7. y \in Indices /\ y.off = a /\ y.live = x.live
    BY <1>2, <1>5, <1>6 DEF Indices
  <1>8. j = [i EXCEPT ![c] = y]
    BY <1>1, <1>3, <1>6 DEF Longer
  <1> QED BY <1>1, <1>3, <1>7, <1>8

(* What is read from the disk is the contents of a mesoblock. *)
LEMMA ReadType ==
  ASSUME Scubed3TypeOK, NEW b \in Block, NEW k \in 1..MMPM
  PROVE  ReadMesoblk(b, k) \in Content
  <1>1. CipherContent \in Content
    BY DEF CipherContent, Content
  <1>2. store[b].data \in [1..MMPM -> Content]
    BY DEF Scubed3TypeOK
  <1> QED BY <1>1, <1>2 DEF ReadMesoblk

(* The RAM as it is. *)
LEMMA NowType == Scubed3TypeOK => StateOK(Now)
  BY DEF Scubed3TypeOK, StateOK, Now, Indices, Place

(* A turn of the loop of copy_old_block_to_current. *)
LEMMA CopyType ==
  ASSUME Scubed3TypeOK, cur \in Block, tail \in Block,
         NEW s, StateOK(s), NEW k \in 1..MMPM
  PROVE  StateOK(CopyMesoblk(s, k))
  <1> DEFINE o == s.ind[tail].off[k]
             n == Len(s.ind[cur].off)
             added == [s.ind EXCEPT ![cur].off = Append(@, o)]
             r == [ind |-> ObsoleteMesoblk(added, tail),
                   map |-> [s.map EXCEPT ![o] = [b |-> cur, k |-> n + 1]],
                   ram |-> [s.ram EXCEPT ![n + 1] = ReadMesoblk(tail, k)],
                   ok |-> TRUE]
  <1>1. \/ CopyMesoblk(s, k) = s
        \/ CopyMesoblk(s, k) = [s EXCEPT !.ok = FALSE]
        \/ /\ k <= Len(s.ind[tail].off)
           /\ o \in DOMAIN s.map /\ n # MMPM /\ s.ind[tail].live # 0
           /\ CopyMesoblk(s, k) = r
    <2>1. s.ind[tail] \in Indices
      BY DEF StateOK
    <2>2. Len(s.ind[tail].off) \in Nat
      BY <2>1, IndicesFacts
    <2> QED BY <2>2 DEF CopyMesoblk
  <1>2. CASE CopyMesoblk(s, k) = [s EXCEPT !.ok = FALSE]
    BY <1>2 DEF StateOK
  <1>3. ASSUME k <= Len(s.ind[tail].off), o \in DOMAIN s.map, n # MMPM,
               s.ind[tail].live # 0
        PROVE  StateOK(r)
    <2>1. s.ind \in [Block -> Indices] /\ DOMAIN s.map = DOMAIN map
          /\ s.ram \in [1..MMPM -> Content]
      BY DEF StateOK
    <2>2. o \in Offset
      BY <1>3, <2>1 DEF Scubed3TypeOK
    <2>3. PICK i : i = added
      OBVIOUS
    <2>4. i \in [Block -> Indices] /\ i[tail].live = s.ind[tail].live
      <3>1. PICK h \in [Block -> Indices] : h = s.ind
        BY <2>1
      <3>2. PICK c \in Block : c = cur
        OBVIOUS
      <3>a. PICK p \in Offset : p = o
        BY <2>2
      <3>3. i = Longer(h, c, p) /\ Len(h[c].off) # MMPM
        BY <1>3, <2>3, <3>1, <3>2, <3>a DEF Longer
      <3>4. /\ i \in [Block -> Indices] /\ i[c].live = h[c].live
            /\ \A b \in Block \ {c} : i[b] = h[b]
        BY <3>3, AppendFacts
      <3> QED BY <3>1, <3>4
    <2>5. ObsoleteMesoblk(i, tail) \in [Block -> Indices]
      BY <1>3, <2>4, ObsoleteFacts
    <2>6. n + 1 \in 1..MMPM
      <3>1. s.ind[cur] \in Indices
        BY <2>1
      <3> QED BY <1>3, <3>1, IndicesFacts, Counting
    <2>7. [b |-> cur, k |-> n + 1] \in Place
      BY <2>6 DEF Place
    <2>8. r.ram \in [1..MMPM -> Content]
      BY <2>1, <2>6, ReadType
    <2>9. DOMAIN r.map = DOMAIN map /\ \A p \in DOMAIN map : r.map[p] \in Place
      <3>1. \A p \in DOMAIN map : s.map[p] \in Place
        BY DEF StateOK
      <3> HIDE DEF o, n
      <3> QED BY <1>3, <2>1, <2>7, <3>1
    <2>10. r.ind \in [Block -> Indices] /\ r.ok \in BOOLEAN
      BY <2>3, <2>5
    <2> HIDE DEF r
    <2> QED BY <2>8, <2>9, <2>10 DEF StateOK
  <1> QED BY <1>1, <1>2, <1>3

(* Mesoblock o goes from block d, or from nowhere, to the end of the       *)
(* current block, with the contents c.                                     *)
Moved(s, t, o, d, c) ==
  LET n == Len(s.ind[cur].off) + 1
  IN  /\ StateOK(t) /\ t.ok /\ n \in 1..MMPM
      /\ t.map[o] = [b |-> cur, k |-> n]
      /\ \A p \in DOMAIN map \ {o} : t.map[p] = s.map[p]
      /\ t.ram[n] = c
      /\ \A k \in (1..MMPM) \ {n} : t.ram[k] = s.ram[k]
      /\ t.ind[cur].off = Append(s.ind[cur].off, o)
      /\ d \in Block =>
           /\ t.ind[d].live = s.ind[d].live - 1
           /\ t.ind[d].off = IF s.ind[d].live = 1 THEN <<>> ELSE s.ind[d].off
      /\ \A b \in Block \ {cur, d} : t.ind[b] = s.ind[b]

(* An update of a function changes it in one place. *)
LEMMA UpdateFacts ==
  ASSUME NEW X, NEW Y, NEW f \in [X -> Y], NEW n \in X, NEW c, NEW g,
         g = [f EXCEPT ![n] = c]
  PROVE  g[n] = c /\ \A p \in X \ {n} : g[p] = f[p]
  OBVIOUS

(* A turn of the loop that finds a live mesoblock moves it. *)
LEMMA CopyMoves ==
  ASSUME Scubed3TypeOK, cur \in Block, tail \in Block, cur # tail,
         NEW s, StateOK(s), s.ok, NEW k \in 1..MMPM,
         k <= Len(s.ind[tail].off),
         NEW o \in DOMAIN map, o = s.ind[tail].off[k], s.map[o].b = tail,
         Len(s.ind[cur].off) # MMPM, s.ind[tail].live # 0
  PROVE  Moved(s, CopyMesoblk(s, k), o, tail, ReadMesoblk(tail, k))
  <1>1. PICK h \in [Block -> Indices] : h = s.ind
    BY DEF StateOK
  <1>2. PICK c \in Block, d \in Block : c = cur /\ d = tail
    OBVIOUS
  <1>3. PICK i, j, n : i = Longer(h, c, o) /\ j = ObsoleteMesoblk(i, d)
                       /\ n = Len(h[c].off) + 1
    OBVIOUS
  <1>4. o \in Offset /\ DOMAIN s.map = DOMAIN map /\ s.ram \in [1..MMPM -> Content]
    BY SMTT(30) DEF StateOK, Scubed3TypeOK
  <1>5. /\ i \in [Block -> Indices] /\ i[c].off = Append(h[c].off, o)
        /\ i[c].live = h[c].live /\ \A b \in Block \ {c} : i[b] = h[b]
    <2>1. Len(h[c].off) # MMPM
      BY <1>1, <1>2
    <2> QED BY <1>3, <1>4, <2>1, AppendFacts
  <1>6. /\ j[d].live = i[d].live - 1
        /\ j[d].off = IF i[d].live = 1 THEN <<>> ELSE i[d].off
        /\ \A b \in Block \ {d} : j[b] = i[b]
    <2>1. i[d].live # 0
      BY SMTT(30), <1>1, <1>2, <1>5
    <2>2. i \in [Block -> Indices] /\ j = ObsoleteMesoblk(i, d)
      BY <1>3, <1>5
    <2> QED BY <2>1, <2>2, ObsoleteFacts
  <1>7. n \in 1..MMPM
    <2>1. h[c] \in Indices
      OBVIOUS
    <2> QED BY <1>1, <1>2, <1>3, <2>1, IndicesFacts, Counting
  <1>8. PICK t : t = CopyMesoblk(s, k)
    OBVIOUS
  <1>9. /\ t.ind = j /\ t.ok = TRUE
        /\ t.map = [s.map EXCEPT ![o] = [b |-> cur, k |-> n]]
        /\ t.ram = [s.ram EXCEPT ![n] = ReadMesoblk(tail, k)]
    <2>1. s.ind[tail] \in Indices
      BY DEF StateOK
    <2>2. Len(s.ind[tail].off) \in Nat
      BY <2>1, IndicesFacts
    <2>3. CopyMesoblk(s, k) =
            [ind |-> ObsoleteMesoblk([s.ind EXCEPT ![cur].off = Append(@, o)], tail),
             map |-> [s.map EXCEPT ![o] = [b |-> cur, k |-> Len(s.ind[cur].off) + 1]],
             ram |-> [s.ram EXCEPT ![Len(s.ind[cur].off) + 1] = ReadMesoblk(tail, k)],
             ok |-> TRUE]
      BY <1>4, <2>2 DEF CopyMesoblk
    <2>4. Longer(h, c, o) = [s.ind EXCEPT ![cur].off = Append(@, o)]
      BY <1>1, <1>2 DEF Longer
    <2>5. ObsoleteMesoblk(i, d) = CopyMesoblk(s, k).ind
      BY <1>2, <1>3, <2>3, <2>4
    <2> QED BY <1>1, <1>2, <1>3, <1>8, <2>3, <2>5
  <1>10. StateOK(t)
    BY <1>8, CopyType
  <1>11. /\ t.ind[cur].off = Append(s.ind[cur].off, o)
         /\ t.ind[tail].live = s.ind[tail].live - 1
         /\ t.ind[tail].off = IF s.ind[tail].live = 1 THEN <<>> ELSE s.ind[tail].off
         /\ \A b \in Block \ {cur, tail} : t.ind[b] = s.ind[b]
    BY ZenonT(60), <1>1, <1>2, <1>5, <1>6, <1>9
  <1>12. /\ t.map[o] = [b |-> cur, k |-> n]
         /\ \A p \in DOMAIN map \ {o} : t.map[p] = s.map[p]
         /\ t.ram[n] = ReadMesoblk(tail, k)
         /\ \A p \in (1..MMPM) \ {n} : t.ram[p] = s.ram[p]
    <2>1. /\ t.map[o] = [b |-> cur, k |-> n]
          /\ \A p \in DOMAIN map \ {o} : t.map[p] = s.map[p]
      BY <1>4, <1>9
    <2>2. /\ t.ram[n] = ReadMesoblk(tail, k)
          /\ \A p \in (1..MMPM) \ {n} : t.ram[p] = s.ram[p]
      <3>a. PICK x : x = ReadMesoblk(tail, k)
        OBVIOUS
      <3>1. PICK f \in [1..MMPM -> Content] : f = s.ram
        BY <1>4
      <3>b. PICK g : g = t.ram
        OBVIOUS
      <3>2. g = [f EXCEPT ![n] = x]
        BY <1>9, <3>a, <3>b, <3>1
      <3>3. g[n] = x /\ \A p \in (1..MMPM) \ {n} : g[p] = f[p]
        BY <1>7, <3>2, UpdateFacts
      <3> QED BY <3>a, <3>b, <3>1, <3>3
    <2> QED BY <2>1, <2>2
  <1>13. Len(s.ind[cur].off) + 1 = n
    BY <1>1, <1>2, <1>3
  <1> QED BY <1>7, <1>8, <1>9, <1>10, <1>11, <1>12, <1>13 DEF Moved

(* What do_write makes of a mesoblock that held c. *)
Merge(r, c) == [p \in Part |-> IF p \in r.parts THEN r.v ELSE c[p]]

OldContent(e) == IF e = Unmapped THEN ZeroContent ELSE ReadMesoblk(e.b, e.k)

(* The arguments of do_write. *)
IsRequest(r) ==
  /\ r.o \in DOMAIN map /\ r.parts \in SUBSET Part /\ r.v \in Value \cup {Zero}

(* How the second half of do_write changes the RAM from s to t, with e as  *)
(* the place where the mesoblock is.                                       *)
PlacedOK(s, r, e, t) ==
  /\ StateOK(t)
  /\ e.b = cur => /\ t.ind = s.ind /\ t.map = s.map /\ t.ok = s.ok
                  /\ t.ram = [s.ram EXCEPT ![e.k] = Merge(r, @)]
  /\ e.b # cur /\ Len(s.ind[cur].off) # MMPM
       /\ (e.b # NoBlock => s.ind[e.b].live # 0)
     => Moved(s, t, r.o, e.b, Merge(r, OldContent(e)))

(* The second half of do_write updates the mesoblock in RAM or moves it. *)
LEMMA PlacedFacts ==
  ASSUME Scubed3TypeOK, cur \in Block,
         NEW s, StateOK(s), NEW r, IsRequest(r), NEW e \in Place,
         NEW t, t = Placed(s, r, e)
  PROVE  PlacedOK(s, r, e, t)
  <1> USE DEF IsRequest, PlacedOK
  <1>0. /\ s.ind \in [Block -> Indices] /\ DOMAIN s.map = DOMAIN map
        /\ s.ram \in [1..MMPM -> Content] /\ r.o \in Offset
        /\ \A o \in DOMAIN map : s.map[o] \in Place
    BY DEF StateOK, Scubed3TypeOK
  <1>m. ASSUME NEW c \in Content
        PROVE  Merge(r, c) \in Content
    BY <1>m DEF Merge, Content
  <1>1. CASE e.b = cur
    <2>1. e.k \in 1..MMPM
      BY <1>1, PlaceFacts, Counting
    <2>2. PICK g : g = [s.ram EXCEPT ![e.k] = Merge(r, @)]
      OBVIOUS
    <2>3. g \in [1..MMPM -> Content]
      <3>1. Merge(r, s.ram[e.k]) \in Content
        BY <1>0, <2>1, <1>m
      <3> QED BY <1>0, <2>1, <2>2, <3>1
    <2>4. t = [s EXCEPT !.ram = g]
      BY <1>1, <2>2 DEF Placed, Merge
    <2>5. t.ind = s.ind /\ t.map = s.map /\ t.ok = s.ok /\ t.ram = g
      BY <2>4 DEF StateOK
    <2> QED BY <1>1, <2>2, <2>3, <2>5 DEF StateOK
  <1>2. CASE e.b # cur /\ ~ (Len(s.ind[cur].off) # MMPM
              /\ (e.b # NoBlock => s.ind[e.b].live # 0))
    <2>1. t = [s EXCEPT !.ok = FALSE]
      BY <1>2, PlaceFacts DEF Placed
    <2>2. StateOK(t)
      BY <2>1 DEF StateOK
    <2> QED BY <1>2, <2>2
  <1>3. CASE e.b # cur /\ Len(s.ind[cur].off) # MMPM
              /\ (e.b # NoBlock => s.ind[e.b].live # 0)
    <2>1. PICK h \in [Block -> Indices], c \in Block, o \in Offset,
               d \in Block \cup {NoBlock} :
              h = s.ind /\ c = cur /\ o = r.o /\ d = e.b
      BY <1>0, PlaceFacts
    <2>2. PICK i, j, n : /\ i = IF d = NoBlock THEN h ELSE ObsoleteMesoblk(h, d)
                         /\ j = Longer(i, c, o) /\ n = Len(h[c].off) + 1
      OBVIOUS
    <2>3. /\ i \in [Block -> Indices] /\ d \in Block \cup {NoBlock}
          /\ d \in Block => /\ i[d].live = h[d].live - 1
                            /\ i[d].off = IF h[d].live = 1 THEN <<>> ELSE h[d].off
          /\ \A b \in Block \ {d} : i[b] = h[b]
      <3>1. d \in Block \cup {NoBlock} /\ NoBlock \notin Block
        BY <2>1, PlaceFacts, Counting
      <3>2. CASE d = NoBlock
        BY <2>2, <3>1, <3>2
      <3>3. CASE d \in Block
        <4>1. h[d].live # 0
          BY <1>3, <2>1, <3>1, <3>3
        <4>2. i = ObsoleteMesoblk(h, d)
          BY <2>2, <3>1, <3>3
        <4> QED BY <3>3, <4>1, <4>2, ObsoleteFacts
      <3> QED BY <3>1, <3>2, <3>3
    <2>4. i[c] = h[c]
      BY <1>3, <2>1, <2>3
    <2>5. /\ j \in [Block -> Indices] /\ j[c].off = Append(h[c].off, o)
          /\ \A b \in Block \ {c} : j[b] = i[b]
      <3>1. Len(i[c].off) # MMPM
        BY <1>3, <2>1, <2>4
      <3> QED BY <2>2, <2>3, <2>4, <3>1, AppendFacts
    <2>6. n \in 1..MMPM
      <3>1. h[c] \in Indices
        OBVIOUS
      <3> QED BY <1>3, <2>1, <2>2, <3>1, IndicesFacts, Counting
    <2>7. /\ t.ind = j /\ t.ok = TRUE
          /\ t.map = [s.map EXCEPT ![o] = [b |-> cur, k |-> n]]
          /\ t.ram = [s.ram EXCEPT ![n] = Merge(r, OldContent(e))]
      <3>1. e = Unmapped <=> d = NoBlock
        BY <2>1, PlaceFacts
      <3>2. t = [ind |-> [(IF e = Unmapped THEN s.ind
                           ELSE ObsoleteMesoblk(s.ind, e.b))
                             EXCEPT ![cur].off = Append(@, r.o)],
                 map |-> [s.map EXCEPT ![r.o] = [b |-> cur,
                                                 k |-> Len(s.ind[cur].off) + 1]],
                 ram |-> [s.ram EXCEPT ![Len(s.ind[cur].off) + 1] =
                            Merge(r, OldContent(e))],
                 ok |-> TRUE]
        BY <1>3, PlaceFacts DEF Placed, Merge, OldContent
      <3>3. i = IF e = Unmapped THEN s.ind ELSE ObsoleteMesoblk(s.ind, e.b)
        BY <2>1, <2>2, <3>1
      <3>4. j = [i EXCEPT ![cur].off = Append(@, r.o)]
        BY <2>1, <2>2 DEF Longer
      <3>5. t = [ind |-> j,
                 map |-> [s.map EXCEPT ![o] = [b |-> cur, k |-> n]],
                 ram |-> [s.ram EXCEPT ![n] = Merge(r, OldContent(e))],
                 ok |-> TRUE]
        BY <2>1, <2>2, <3>2, <3>3, <3>4, Zenon
      <3> QED BY <3>5
    <2>8. /\ t.ind[cur].off = Append(s.ind[cur].off, r.o)
          /\ e.b \in Block =>
               /\ t.ind[e.b].live = s.ind[e.b].live - 1
               /\ t.ind[e.b].off = IF s.ind[e.b].live = 1 THEN <<>>
                                   ELSE s.ind[e.b].off
          /\ \A b \in Block \ {cur, e.b} : t.ind[b] = s.ind[b]
      BY <1>3, <2>1, <2>3, <2>5, <2>7
    <2>9. /\ t.map[r.o] = [b |-> cur, k |-> n] /\ DOMAIN t.map = DOMAIN map
          /\ \A p \in DOMAIN map \ {r.o} : t.map[p] = s.map[p]
          /\ t.ram[n] = Merge(r, OldContent(e))
          /\ \A p \in (1..MMPM) \ {n} : t.ram[p] = s.ram[p]
      <3>1. /\ t.map[r.o] = [b |-> cur, k |-> n] /\ DOMAIN t.map = DOMAIN map
            /\ \A p \in DOMAIN map \ {r.o} : t.map[p] = s.map[p]
        BY <1>0, <2>1, <2>7
      <3>2. /\ t.ram[n] = Merge(r, OldContent(e))
            /\ \A p \in (1..MMPM) \ {n} : t.ram[p] = s.ram[p]
        <4>1. t.ram = [s.ram EXCEPT ![n] = Merge(r, OldContent(e))]
          BY <2>7
        <4>2. s.ram \in [1..MMPM -> Content]
          BY <1>0
        <4> QED BY <2>6, <4>1, <4>2, UpdateFacts, Zenon
      <3> QED BY <3>1, <3>2
    <2>10. StateOK(t)
      <3>1. OldContent(e) \in Content
        <4>1. ZeroContent \in Content
          BY DEF ZeroContent, Content
        <4> QED BY <4>1, PlaceFacts, ReadType DEF OldContent
      <3>2. t.ram \in [1..MMPM -> Content]
        BY <1>0, <2>6, <2>7, <3>1, <1>m
      <3>3. [b |-> cur, k |-> n] \in Place
        BY <2>6 DEF Place
      <3>4. \A o1 \in DOMAIN map : t.map[o1] \in Place
        BY <1>0, <2>9, <3>3
      <3> QED BY <2>5, <2>7, <2>9, <3>2, <3>4 DEF StateOK
    <2>11. Len(s.ind[cur].off) + 1 = n
      BY <2>1, <2>2
    <2> QED BY <1>3, <2>6, <2>7, <2>8, <2>9, <2>10, <2>11 DEF Moved
  <1> QED BY <1>1, <1>2, <1>3

----------------------------------------------------------------------------
(* How the RAM changes: what it says of the disk stays right. *)

(* The mesoblocks found in a block can be counted. *)
LEMMA MappedFinite ==
  ASSUME NEW m, DOMAIN m \subseteq Offset, NEW b
  PROVE  /\ IsFiniteSet(Mapped(m, b)) /\ Cardinality(Mapped(m, b)) \in Nat
         /\ Cardinality(Mapped(m, b)) = 0 <=> Mapped(m, b) = {}
  <1>1. IsFiniteSet(Offset)
    <2>1. PICK n \in Int : n = Cardinality(Block) * MMPM - 1
      BY Counting
    <2> QED BY <2>1, FS_Interval DEF Offset
  <1>2. Mapped(m, b) \subseteq Offset
    BY DEF Mapped
  <1>3. IsFiniteSet(Mapped(m, b))
    BY <1>1, <1>2, FS_Subset
  <1> QED BY <1>3, FS_CardinalityType, FS_EmptySet

(* A block in which a mesoblock is found has a live one. *)
LEMMA LiveNonzero ==
  ASSUME NEW i, NEW m, DOMAIN m \subseteq Offset, CountsOK(i, m),
         NEW o \in DOMAIN m, m[o].b \in Block \ {cur}
  PROVE  /\ i[m[o].b].live # 0
         /\ i[m[o].b].off = store[m[o].b].off
  <1>1. PICK b \in Block \ {cur} : b = m[o].b
    OBVIOUS
  <1>2. Mapped(m, b) # {}
    BY <1>1 DEF Mapped
  <1>3. i[b].live # 0
    BY <1>2, MappedFinite DEF CountsOK
  <1> QED BY <1>1, <1>3 DEF CountsOK

(* Moving a mesoblock to the current block keeps everything right. *)
LEMMA MovedSound ==
  ASSUME Scubed3TypeOK, cur \in Block,
         NEW s, StateOK(s), Sound(s.ind, s.map),
         NEW o \in DOMAIN map, NEW d, d = s.map[o].b, d # cur,
         NEW t, NEW c, Moved(s, t, o, d, c)
  PROVE  Sound(t.ind, t.map)
  <1>1. PICK i, m, j, n : i = s.ind /\ m = s.map /\ j = t.ind /\ n = t.map
    OBVIOUS
  <1>2. PICK f : f = i[cur].off
    OBVIOUS
  <1>3. /\ i \in [Block -> Indices] /\ j \in [Block -> Indices]
        /\ DOMAIN m = DOMAIN map /\ DOMAIN n = DOMAIN map
        /\ DOMAIN map \subseteq Offset
        /\ \A p \in DOMAIN map : m[p] \in Place
    BY <1>1 DEF StateOK, Moved, Scubed3TypeOK
  <1>4. f \in Seq(Offset) /\ Len(f) \in Nat /\ DOMAIN f = 1..Len(f)
    <2>1. i[cur] \in Indices
      BY <1>3
    <2> QED BY <1>2, <2>1, IndicesFacts
  <1>5. /\ n[o] = [b |-> cur, k |-> Len(f) + 1]
        /\ \A p \in DOMAIN map \ {o} : n[p] = m[p]
        /\ j[cur].off = Append(f, o)
        /\ d \in Block =>
             /\ j[d].live = i[d].live - 1
             /\ j[d].off = IF i[d].live = 1 THEN <<>> ELSE i[d].off
        /\ \A b \in Block \ {cur, d} : j[b] = i[b]
    BY <1>1, <1>2 DEF Moved
  <1>6. m[o].b = d /\ CountsOK(i, m) /\ CurrentOK(i, m) /\ FoundOnDisk(m) /\ LatestFound(m)
    BY <1>1 DEF Sound
  <1>7. CountsOK(j, n)
    <2> SUFFICES ASSUME NEW b \in Block \ {cur}
                 PROVE  /\ j[b].live = Cardinality(Mapped(n, b))
                        /\ j[b].off = IF j[b].live = 0 THEN <<>> ELSE store[b].off
      BY DEF CountsOK
    <2>1. /\ i[b].live = Cardinality(Mapped(m, b))
          /\ i[b].off = IF i[b].live = 0 THEN <<>> ELSE store[b].off
      BY <1>6 DEF CountsOK
    <2>2. CASE b = d
      <3>1. Mapped(n, b) = Mapped(m, b) \ {o} /\ o \in Mapped(m, b)
        BY <1>3, <1>5, <1>6, <2>2 DEF Mapped
      <3>2. IsFiniteSet(Mapped(m, b)) /\ Cardinality(Mapped(m, b)) \in Nat
            /\ Cardinality(Mapped(m, b)) # 0
        BY <1>3, <3>1, MappedFinite
      <3>3. Cardinality(Mapped(n, b)) = Cardinality(Mapped(m, b)) - 1
        BY <3>1, <3>2, FS_RemoveElement
      <3> QED BY <1>5, <2>1, <2>2, <3>2, <3>3
    <2>3. CASE b # d
      <3>1. Mapped(n, b) = Mapped(m, b)
        BY <1>3, <1>5, <1>6, <2>3 DEF Mapped
      <3> QED BY <1>5, <2>1, <2>3, <3>1
    <2> QED BY <2>2, <2>3
  <1>8. CurrentOK(j, n)
    <2>1. /\ DOMAIN Append(f, o) = 1..(Len(f) + 1)
          /\ \A k \in 1..Len(f) : Append(f, o)[k] = f[k]
          /\ Append(f, o)[Len(f) + 1] = o
      BY <1>3, <1>4, AppendProperties
    <2>2. /\ \A k \in 1..Len(f) : f[k] \in DOMAIN map /\ m[f[k]] = [b |-> cur, k |-> k]
          /\ \A p \in DOMAIN map : m[p].b = cur => m[p].k \in 1..Len(f) /\ f[m[p].k] = p
      BY <1>2, <1>3, <1>4, <1>6, Counting DEF CurrentOK, Mapped
    <2>3. ASSUME NEW k \in 1..(Len(f) + 1)
          PROVE  Append(f, o)[k] \in DOMAIN n
                 /\ n[Append(f, o)[k]] = [b |-> cur, k |-> k]
      <3>1. CASE k = Len(f) + 1
        BY <1>3, <1>5, <2>1, <3>1
      <3>2. CASE k # Len(f) + 1
        <4>1. k \in 1..Len(f)
          BY <1>4, <3>2
        <4>2. f[k] \in DOMAIN map /\ m[f[k]] = [b |-> cur, k |-> k]
          BY <2>2, <4>1
        <4>3. f[k] # o
          BY <1>6, <4>2
        <4> QED BY <1>3, <1>5, <2>1, <4>1, <4>2, <4>3
      <3> QED BY <3>1, <3>2
    <2>4. ASSUME NEW p \in DOMAIN n, n[p].b = cur
          PROVE  n[p].k \in 1..(Len(f) + 1) /\ Append(f, o)[n[p].k] = p
      <3>1. CASE p = o
        BY <1>4, <1>5, <2>1, <3>1
      <3>2. CASE p # o
        <4>1. n[p] = m[p] /\ m[p].k \in 1..Len(f) /\ f[m[p].k] = p
          BY <1>3, <1>5, <2>2, <2>4, <3>2
        <4> QED BY <1>4, <2>1, <4>1
      <3> QED BY <3>1, <3>2
    <2> QED BY <1>5, <2>1, <2>3, <2>4 DEF CurrentOK, Mapped
  <1>9. FoundOnDisk(n)
    BY <1>3, <1>5, <1>6 DEF FoundOnDisk
  <1>10. LatestFound(n)
    <2> SUFFICES ASSUME NEW b \in Signed(disk) \ {cur}, NEW k \in DOMAIN store[b].off,
                        NEW p, p = store[b].off[k]
                 PROVE  /\ p \in DOMAIN n /\ n[p].b # NoBlock
                        /\ n[p].b = cur \/ disk[n[p].b].seq >= disk[b].seq
      BY DEF LatestFound
    <2>1. /\ p \in DOMAIN m /\ m[p].b # NoBlock
          /\ m[p].b = cur \/ disk[m[p].b].seq >= disk[b].seq
      BY <1>6 DEF LatestFound
    <2>2. CASE p = o
      BY <1>3, <1>5, <2>1, <2>2, Counting
    <2>3. CASE p # o
      BY <1>3, <1>5, <2>1, <2>3
    <2> QED BY <2>2, <2>3
  <1> QED BY <1>1, <1>7, <1>8, <1>9, <1>10 DEF Sound

(* Reads do not notice the moves of other mesoblocks. *)
LEMMA MovedRead ==
  ASSUME Scubed3TypeOK, cur \in Block,
         NEW s, StateOK(s), Sound(s.ind, s.map),
         NEW o \in DOMAIN map, NEW d, NEW t, NEW c, Moved(s, t, o, d, c)
  PROVE  /\ ReadOf(t, o) = c
         /\ \A p \in DOMAIN map \ {o} : ReadOf(t, p) = ReadOf(s, p)
  <1>1. PICK n : n = Len(s.ind[cur].off) + 1
    OBVIOUS
  <1>2. /\ n \in 1..MMPM /\ t.map[o] = [b |-> cur, k |-> n] /\ t.ram[n] = c
        /\ \A p \in DOMAIN map \ {o} : t.map[p] = s.map[p]
        /\ \A k \in (1..MMPM) \ {n} : t.ram[k] = s.ram[k]
    BY <1>1 DEF Moved
  <1>3. ReadOf(t, o) = c
    <2>1. [b |-> cur, k |-> n] # Unmapped
      BY Counting DEF Unmapped
    <2> QED BY <1>2, <2>1 DEF ReadOf
  <1>4. ASSUME NEW p \in DOMAIN map \ {o}
        PROVE  ReadOf(t, p) = ReadOf(s, p)
    <2>1. PICK e \in Place : e = s.map[p]
      BY DEF StateOK
    <2>2. e.b = cur => e.k \in (1..MMPM) \ {n}
      <3>1. s.ind[cur] \in Indices /\ DOMAIN s.map = DOMAIN map
        BY DEF StateOK
      <3>2. Len(s.ind[cur].off) \in Nat /\ DOMAIN s.ind[cur].off = 1..Len(s.ind[cur].off)
            /\ Len(s.ind[cur].off) <= MMPM
        BY <3>1, IndicesFacts
      <3>3. e.b = cur => e.k \in DOMAIN s.ind[cur].off
        BY <2>1, <3>1, Counting DEF Sound, CurrentOK, Mapped
      <3> QED BY <1>1, <3>2, <3>3, Counting
    <2>3. t.map[p] = e
      BY <1>2, <2>1
    <2> QED BY <1>2, <2>1, <2>2, <2>3 DEF ReadOf
  <1> QED BY <1>3, <1>4

----------------------------------------------------------------------------
(* copy_old_block_to_current. *)

(* What the loop starts from, and what holds after k turns. *)
CopyStart ==
  /\ Sound(ind, map) /\ ind[cur].off = <<>>
  /\ \A b \in Block : IsInjective(store[b].off)

LoopOK(s, k) ==
  /\ StateOK(s)
  /\ CopyStart =>
       /\ s.ok /\ Sound(s.ind, s.map) /\ Len(s.ind[cur].off) <= k
       /\ tail = cur => s = Now
       /\ \A o \in DOMAIN map : ReadOf(s, o) = DoRead(o)

(* One turn. *)
LEMMA CopyTurn ==
  ASSUME Scubed3TypeOK, cur \in Block, tail \in Block,
         NEW k \in 1..MMPM, NEW s, LoopOK(s, k - 1)
  PROVE  LoopOK(CopyMesoblk(s, k), k)
  <1>1. StateOK(s) /\ StateOK(CopyMesoblk(s, k))
    BY CopyType DEF LoopOK
  <1> SUFFICES ASSUME CopyStart
               PROVE  LoopOK(CopyMesoblk(s, k), k)
    BY <1>1 DEF LoopOK
  <1>2. /\ s.ok /\ Sound(s.ind, s.map) /\ Len(s.ind[cur].off) <= k - 1
        /\ tail = cur => s = Now
        /\ \A o \in DOMAIN map : ReadOf(s, o) = DoRead(o)
    BY DEF LoopOK
  <1>3. /\ s.ind[cur] \in Indices /\ s.ind[tail] \in Indices
        /\ DOMAIN s.map = DOMAIN map /\ DOMAIN map \subseteq Offset
        /\ \A p \in DOMAIN map : s.map[p] \in Place
    BY <1>1 DEF StateOK, Scubed3TypeOK
  <1>4. /\ Len(s.ind[cur].off) \in Nat /\ Len(s.ind[tail].off) \in Nat
        /\ DOMAIN s.ind[tail].off = 1..Len(s.ind[tail].off)
        /\ k \in Nat /\ k <= MMPM
    BY <1>3, IndicesFacts, Counting
  <1>5. CASE CopyMesoblk(s, k) = s
    BY <1>1, <1>2, <1>4, <1>5 DEF LoopOK
  <1>6. CASE CopyMesoblk(s, k) # s
    <2>1. PICK o : o = s.ind[tail].off[k]
      BY SMTT(30)
    <2>2. k <= Len(s.ind[tail].off) /\ o \in DOMAIN map /\ s.map[o].b = tail
      BY <1>2, <1>3, <1>4, <1>6, <2>1 DEF CopyMesoblk
    <2>3. tail # cur
      <3>1. ASSUME tail = cur PROVE FALSE
        <4>1. s.ind[tail].off = <<>>
          BY <1>2, <3>1 DEF Now, CopyStart
        <4> QED BY <1>4, <2>2, <4>1
      <3> QED BY <3>1
    <2>4. s.ind[tail].live # 0 /\ s.ind[tail].off = store[tail].off
      <3>1. PICK i, m : i = s.ind /\ m = s.map
        OBVIOUS
      <3>2. CountsOK(i, m) /\ o \in DOMAIN m /\ m[o].b \in Block \ {cur}
            /\ DOMAIN m \subseteq Offset
        BY <1>2, <1>3, <2>2, <2>3, <3>1 DEF Sound
      <3>3. i[m[o].b].live # 0 /\ i[m[o].b].off = store[m[o].b].off
        BY <3>2, LiveNonzero
      <3> QED BY <2>2, <3>1, <3>3
    <2>5. Len(s.ind[cur].off) # MMPM
      BY <1>2, <1>4
    <2>6. PICK t : t = CopyMesoblk(s, k)
      OBVIOUS
    <2>7. Moved(s, t, o, tail, ReadMesoblk(tail, k))
      BY <1>1, <1>2, <2>1, <2>2, <2>3, <2>4, <2>5, <2>6, CopyMoves
    <2>8. PICK d, c : d = tail /\ c = ReadMesoblk(tail, k)
      OBVIOUS
    <2>9. Moved(s, t, o, d, c) /\ d = s.map[o].b /\ d # cur
      BY <2>2, <2>3, <2>7, <2>8
    <2>10. Sound(t.ind, t.map)
      BY <1>1, <1>2, <2>2, <2>9, MovedSound
    <2>11. Len(t.ind[cur].off) <= k
      <3>1. t.ind[cur].off = Append(s.ind[cur].off, o) /\ o \in Offset
        BY <1>3, <2>2, <2>9 DEF Moved
      <3>2. s.ind[cur].off \in Seq(Offset)
        BY <1>3, IndicesFacts
      <3>3. Len(t.ind[cur].off) = Len(s.ind[cur].off) + 1
        BY <3>1, <3>2
      <3> QED BY <1>2, <1>4, <3>3
    <2>12. /\ ReadOf(t, o) = c
           /\ \A p \in DOMAIN map \ {o} : ReadOf(t, p) = ReadOf(s, p)
      BY <1>1, <1>2, <2>2, <2>9, MovedRead
    <2>13. ReadOf(s, o) = c
      <3>1. PICK e \in Place : e = s.map[o]
        BY <1>3, <2>2
      <3>2. e.b = tail /\ e # Unmapped
        BY <2>2, <3>1, PlaceFacts, Counting
      <3>3. e.k \in DOMAIN store[tail].off /\ store[tail].off[e.k] = o
        BY <1>2, <1>3, <2>2, <2>3, <3>1, <3>2, Counting DEF Sound, FoundOnDisk
      <3>4. k \in DOMAIN store[tail].off /\ store[tail].off[k] = o
        BY <1>4, <2>1, <2>2, <2>4
      <3>5. e.k = k
        BY <3>3, <3>4 DEF CopyStart, IsInjective
      <3> QED BY <2>3, <2>8, <3>1, <3>2, <3>5 DEF ReadOf
    <2>14. t.ok
      BY <2>9 DEF Moved
    <2> QED BY <1>1, <1>2, <2>3, <2>6, <2>10, <2>11, <2>12, <2>13, <2>14 DEF LoopOK
  <1> QED BY <1>5, <1>6

(* The whole loop keeps the types and, started in an empty block, fails no *)
(* assertion, keeps what the RAM says of the disk right and moves          *)
(* mesoblocks without changing what is read.                               *)
LEMMA CopyLoop ==
  ASSUME Scubed3TypeOK, cur \in Block
  PROVE  LoopOK(CopyOldBlock, MMPM)
  <1>0. LoopOK(Now, 0) /\ LoopOK(Now, MMPM)
    <2>1. StateOK(Now)
      BY NowType
    <2>2. \A o \in DOMAIN map : ReadOf(Now, o) = DoRead(o)
      BY DEF ReadOf, DoRead, Now
    <2>3. CopyStart => Len(ind[cur].off) = 0
      BY DEF CopyStart
    <2>4. CopyStart => Sound(ind, map)
      BY DEF CopyStart
    <2>5. Now.ind = ind /\ Now.map = map /\ Now.ok
      BY DEF Now
    <2> QED BY <2>1, <2>2, <2>3, <2>4, <2>5, Counting DEF LoopOK
  <1>1. CASE tail = NoBlock
    BY <1>0, <1>1 DEF CopyOldBlock
  <1>2. CASE tail # NoBlock
    <2>1. tail \in Block
      BY <1>2 DEF Scubed3TypeOK, BlockioTypeOK
    <2> DEFINE Bad == {k \in 0..MMPM : ~ LoopOK(CopyTrace[k], k)}
    <2>2. ASSUME Bad # {} PROVE FALSE
      <3>1. Bad \in SUBSET Nat
        BY Counting
      <3>2. PICK T : T = Bad
        OBVIOUS
      <3>3. PICK k \in T : \A u \in T : k <= u
        BY <2>2, <3>1, <3>2, LeastNumber
      <3>4. k \in 0..MMPM /\ ~ LoopOK(CopyTrace[k], k) /\ \A u \in Bad : k <= u
        BY <3>2, <3>3
      <3>5. k # 0
        BY <1>0, <3>4, CopyTraceDef
      <3>6. k \in 1..MMPM /\ k - 1 \in 0..MMPM /\ ~ (k <= k - 1)
        BY <3>4, <3>5, Counting
      <3>7. LoopOK(CopyTrace[k - 1], k - 1)
        BY <3>4, <3>6
      <3>8. PICK s : s = CopyTrace[k - 1]
        OBVIOUS
      <3>9. LoopOK(CopyMesoblk(s, k), k)
        BY <2>1, <3>6, <3>7, <3>8, CopyTurn
      <3> QED BY <3>4, <3>6, <3>8, <3>9, CopyTraceDef
    <2>3. LoopOK(CopyTrace[MMPM], MMPM)
      BY <2>2, Counting
    <2> QED BY <1>2, <2>3 DEF CopyOldBlock
  <1> QED BY <1>1, <1>2

(* The second half of do_write, when there is room for the mesoblock:      *)
(* no assertion fails, and a read returns what was written.                *)
LEMMA PlacedSound ==
  ASSUME Scubed3TypeOK, cur \in Block,
         NEW s, StateOK(s), s.ok, Sound(s.ind, s.map),
         NEW r, IsRequest(r),
         s.map[r.o].b # cur => Len(s.ind[cur].off) # MMPM,
         NEW t, t = Placed(s, r, s.map[r.o])
  PROVE  /\ t.ok /\ Sound(t.ind, t.map)
         /\ ReadOf(t, r.o) = Merge(r, ReadOf(s, r.o))
         /\ \A p \in DOMAIN map \ {r.o} : ReadOf(t, p) = ReadOf(s, p)
  <1>r. r.o \in DOMAIN map
    BY DEF IsRequest
  <1>1. PICK e \in Place : e = s.map[r.o]
    BY <1>r DEF StateOK
  <1>2. /\ e.b = cur => /\ t.ind = s.ind /\ t.map = s.map /\ t.ok = s.ok
                        /\ t.ram = [s.ram EXCEPT ![e.k] = Merge(r, @)]
        /\ e.b # cur /\ Len(s.ind[cur].off) # MMPM
             /\ (e.b # NoBlock => s.ind[e.b].live # 0)
           => Moved(s, t, r.o, e.b, Merge(r, OldContent(e)))
    <2>1. t = Placed(s, r, e)
      BY <1>1
    <2>2. PlacedOK(s, r, e, t)
      BY <2>1, PlacedFacts
    <2> QED BY <2>2 DEF PlacedOK
  <1>3. DOMAIN s.map = DOMAIN map /\ DOMAIN map \subseteq Offset
        /\ s.ram \in [1..MMPM -> Content]
    BY DEF StateOK, Scubed3TypeOK
  <1>4. CASE e.b = cur
    <2>1. t.ind = s.ind /\ t.map = s.map /\ t.ok = s.ok
          /\ t.ram = [s.ram EXCEPT ![e.k] = Merge(r, @)]
      BY <1>2, <1>4
    <2>2. e # Unmapped /\ e.k \in 1..MMPM
      BY <1>4, PlaceFacts, Counting
    <2>3. ReadOf(t, r.o) = Merge(r, ReadOf(s, r.o))
      <3>1. t.ram[e.k] = Merge(r, s.ram[e.k])
        BY <1>3, <2>1, <2>2
      <3>2. ReadOf(t, r.o) = t.ram[e.k] /\ ReadOf(s, r.o) = s.ram[e.k]
        BY <1>1, <1>4, <2>1, <2>2 DEF ReadOf
      <3> QED BY <3>1, <3>2
    <2>4. ASSUME NEW p \in DOMAIN map \ {r.o}
          PROVE  ReadOf(t, p) = ReadOf(s, p)
      <3>1. s.map[p].b = cur => s.map[p].k # e.k
        BY <1>1, <1>3, <1>4, <1>r, Counting DEF Sound, CurrentOK, Mapped
      <3>2. s.map[p] \in Place
        BY DEF StateOK
      <3>3. s.map[p].b = cur => s.map[p].k \in 1..MMPM
        BY <3>2, PlaceFacts, Counting
      <3>4. s.map[p].b = cur => t.ram[s.map[p].k] = s.ram[s.map[p].k]
        BY <1>3, <2>1, <2>2, <3>1, <3>3
      <3> QED BY <2>1, <3>4 DEF ReadOf
    <2> QED BY <2>1, <2>3, <2>4
  <1>5. CASE e.b # cur
    <2>1. Len(s.ind[cur].off) # MMPM
      BY <1>1, <1>5
    <2>2. e.b # NoBlock => s.ind[e.b].live # 0
      <3>1. PICK i, m, o : i = s.ind /\ m = s.map /\ o = r.o
        OBVIOUS
      <3>2. CountsOK(i, m) /\ o \in DOMAIN m /\ DOMAIN m \subseteq Offset
        BY <1>3, <1>r, <3>1 DEF Sound
      <3>3. e.b # NoBlock => m[o].b \in Block \ {cur}
        BY <1>1, <1>5, <3>1, PlaceFacts
      <3>4. e.b # NoBlock => i[m[o].b].live # 0
        BY <3>2, <3>3, LiveNonzero
      <3> QED BY <1>1, <3>1, <3>4
    <2>3. PICK o, d, c : o = r.o /\ d = e.b /\ c = Merge(r, OldContent(e))
      OBVIOUS
    <2>4. Moved(s, t, o, d, c) /\ o \in DOMAIN map /\ d = s.map[o].b /\ d # cur
      BY <1>1, <1>2, <1>5, <1>r, <2>1, <2>2, <2>3
    <2>5. Sound(t.ind, t.map)
      BY <2>4, MovedSound
    <2>6. ReadOf(t, o) = c /\ \A p \in DOMAIN map \ {o} : ReadOf(t, p) = ReadOf(s, p)
      BY <2>4, MovedRead
    <2>7. OldContent(e) = ReadOf(s, r.o)
      BY <1>1, <1>5 DEF OldContent, ReadOf
    <2>8. t.ok
      BY <2>4, Zenon DEF Moved
    <2> QED BY <2>3, <2>5, <2>6, <2>7, <2>8
  <1> QED BY <1>4, <1>5

----------------------------------------------------------------------------
(* replay. *)

(* One of the signed blocks X has the highest seqno. *)
LEMMA LatestBlock ==
  ASSUME BlockioTypeOK, NEW X \in SUBSET Signed(disk), X # {},
         NEW m, IsNewest(disk, m)
  PROVE  \E b \in X : \A c \in X : disk[c].seq <= disk[b].seq
  <1>1. \A b \in X : b \in Block /\ disk[b].seq \in Nat /\ disk[m].seq \in Nat
                     /\ disk[b].seq <= disk[m].seq
    BY DEF BlockioTypeOK, IsNewest, Signed, Header
  <1> DEFINE T == {disk[m].seq - disk[b].seq : b \in X}
  <1>2. T \in SUBSET Nat /\ T # {}
    BY <1>1
  <1>3. PICK t \in T : \A u \in T : t <= u
    BY <1>2, LeastNumber
  <1>4. PICK b \in X : t = disk[m].seq - disk[b].seq
    BY <1>3
  <1>5. \A c \in X : disk[m].seq - disk[b].seq <= disk[m].seq - disk[c].seq
    BY <1>3, <1>4
  <1> QED BY <1>1, <1>5

(* A mesoblock is found in the last block that lists it. *)
LEMMA ReplayedFacts ==
  ASSUME Scubed3TypeOK, NEW m, IsNewest(disk, m), NEW o, NEW e, e = Replayed(o)
  PROVE  /\ e \in Place
         /\ e = Unmapped <=> Listing(o) = {}
         /\ e # Unmapped =>
              /\ e.b \in Listing(o) /\ \A c \in Listing(o) : disk[c].seq <= disk[e.b].seq
              /\ e.k \in DOMAIN store[e.b].off /\ store[e.b].off[e.k] = o
  <1>1. CASE Listing(o) = {}
    BY <1>1 DEF Replayed, Place
  <1>2. CASE Listing(o) # {}
    <2>1. Listing(o) \in SUBSET Signed(disk)
      BY DEF Listing
    <2>2. \E b \in Listing(o) : \A c \in Listing(o) : disk[c].seq <= disk[b].seq
      BY <1>2, <2>1, LatestBlock DEF Scubed3TypeOK
    <2>3. PICK b : b = CHOOSE x \in Listing(o) :
                         \A c \in Listing(o) : disk[c].seq <= disk[x].seq
      OBVIOUS
    <2>4. b \in Listing(o) /\ \A c \in Listing(o) : disk[c].seq <= disk[b].seq
      BY <2>2, <2>3
    <2>5. \E k \in DOMAIN store[b].off : store[b].off[k] = o
      BY <2>4 DEF Listing
    <2>6. PICK k : k = CHOOSE x \in DOMAIN store[b].off : store[b].off[x] = o
      OBVIOUS
    <2>7. k \in DOMAIN store[b].off /\ store[b].off[k] = o
      BY <2>5, <2>6
    <2>8. e = [b |-> b, k |-> k]
      BY <1>2, <2>3, <2>6 DEF Replayed
    <2>9. b \in Block
      BY <2>4 DEF Listing, Signed
    <2>10. k \in 1..MMPM
      <3>1. store[b].off \in BoundedSeq(Offset, MMPM)
        BY <2>9 DEF Scubed3TypeOK
      <3>2. PICK f : f = store[b].off
        OBVIOUS
      <3>3. f \in Seq(Offset) /\ Len(f) <= MMPM
        BY <3>1, <3>2, BoundedOff
      <3> QED BY <2>7, <3>2, <3>3, Counting
    <2>11. e \in Place /\ e # Unmapped
      BY <2>8, <2>9, <2>10, Counting DEF Place, Unmapped
    <2> QED BY <1>2, <2>4, <2>7, <2>8, <2>11
  <1> QED BY <1>1, <1>2

(* What is left of a block after the replay: types. *)
LEMMA ReplayedIndType ==
  ASSUME Scubed3TypeOK, NEW m, NEW b \in Block
  PROVE  ReplayedInd(m, b) \in Indices
  <1>1. PICK f : f = store[b].off
    OBVIOUS
  <1>2. f \in BoundedSeq(Offset, MMPM)
    BY <1>1 DEF Scubed3TypeOK
  <1>3. f \in Seq(Offset) /\ Len(f) <= MMPM
    BY <1>2, BoundedOff
  <1>4. PICK A : A = {k \in DOMAIN f : f[k] \notin DOMAIN m \/ m[f[k]].b = b}
    OBVIOUS
  <1>5. A \subseteq 1..Len(f) /\ Len(f) \in Nat
    BY <1>3, <1>4
  <1>6. IsFiniteSet(1..Len(f)) /\ Cardinality(1..Len(f)) = Len(f)
    <2>1. PICK n \in Nat : n = Len(f)
      BY <1>5
    <2>2. IsFiniteSet(1..n) /\ Cardinality(1..n) = n
      BY FS_Interval
    <2> QED BY <2>1, <2>2
  <1>7. Cardinality(A) \in Nat /\ Cardinality(A) <= Len(f)
    BY <1>5, <1>6, FS_Subset, FS_CardinalityType
  <1>8. Cardinality(A) \in 0..MMPM
    BY <1>3, <1>5, <1>7, Counting
  <1>9. <<>> \in BoundedSeq(Offset, MMPM)
    <2>1. PICK g : g = <<>>
      OBVIOUS
    <2>2. g \in Seq(Offset) /\ Len(g) <= MMPM
      BY <2>1, Counting
    <2> QED BY <2>1, <2>2, BoundedOff
  <1>10. ReplayedInd(m, b) = [live |-> Cardinality(A),
                              off |-> IF A = {} THEN <<>> ELSE f]
    BY <1>1, <1>4 DEF ReplayedInd
  <1> QED BY <1>2, <1>8, <1>9, <1>10 DEF Indices

(* As many mesoblocks as indices: the list has no duplicates. *)
LEMMA ListedCount ==
  ASSUME NEW f \in Seq(Offset), IsInjective(f), NEW A \in SUBSET DOMAIN f, NEW X,
         \A k \in A : f[k] \in X, \A x \in X : \E k \in A : f[k] = x
  PROVE  /\ Cardinality(X) = Cardinality(A)
         /\ A = DOMAIN f => Cardinality(X) = Len(f)
         /\ Cardinality(A) = 0 <=> A = {}
  <1>1. PICK n \in Nat : n = Len(f)
    OBVIOUS
  <1>2. DOMAIN f = 1..n
    BY <1>1
  <1>3. IsFiniteSet(1..n) /\ Cardinality(1..n) = n
    BY FS_Interval
  <1>4. IsFiniteSet(A)
    BY <1>2, <1>3, FS_Subset
  <1>5. PICK g : g = [k \in A |-> f[k]]
    OBVIOUS
  <1>6. g \in Bijection(A, X)
    <2>1. g \in [A -> X]
      BY <1>5
    <2>2. \A j, k \in A : g[j] = g[k] => j = k
      BY <1>5 DEF IsInjective
    <2>3. \A x \in X : \E k \in A : g[k] = x
      BY <1>5
    <2> QED BY <2>1, <2>2, <2>3 DEF Bijection, Injection, Surjection, IsInjective
  <1>7. ExistsBijection(A, X)
    BY <1>6 DEF ExistsBijection
  <1> QED BY <1>1, <1>2, <1>3, <1>4, <1>7, FS_Bijection, FS_EmptySet

(* The indices of a block on disk. *)
LEMMA StoredOff ==
  ASSUME Scubed3TypeOK, NEW b \in Block
  PROVE  /\ store[b].off \in Seq(Offset) /\ Len(store[b].off) \in Nat
         /\ Len(store[b].off) <= MMPM
         /\ DOMAIN store[b].off = 1..Len(store[b].off)
  <1>1. PICK f : f = store[b].off
    OBVIOUS
  <1>2. f \in BoundedSeq(Offset, MMPM)
    BY <1>1 DEF Scubed3TypeOK
  <1>3. f \in Seq(Offset) /\ Len(f) <= MMPM
    BY <1>2, BoundedOff
  <1> QED BY <1>1, <1>3

(* The replay of a sound disk says what is on it, and finds nothing in the *)
(* block that is due next.                                                 *)
LEMMA ReplaySound ==
  ASSUME Scubed3TypeOK, DiskOK, cur = NoBlock,
         NEW m, IsNewest(disk, m), NEW mm, mm = ReplayedMap(SizeOf(disk[m])),
         SizeOf(disk[m]) \in Nat,
         0..(SizeOf(disk[m]) - 1) \subseteq Offset,
         NEW i, i = [b \in Block |-> ReplayedInd(mm, b)]
  PROVE  /\ Sound(i, mm)
         /\ \A b \in Signed(disk) : disk[b].next = disk[m].seq + 1 => Mapped(mm, b) = {}
  <1>1. PICK z \in Nat : z = SizeOf(disk[m])
    OBVIOUS
  <1>2. DOMAIN mm = 0..(z - 1) /\ \A o \in DOMAIN mm : mm[o] = Replayed(o)
    BY <1>1 DEF ReplayedMap
  <1>3. \A b \in Signed(disk) : \A k \in DOMAIN store[b].off :
          store[b].off[k] \in DOMAIN mm
    <2> TAKE b \in Signed(disk)
    <2> TAKE k \in DOMAIN store[b].off
    <2>1. store[b].off[k] < SizeOf(disk[b])
      BY DEF DiskOK
    <2>2. m \in Signed(disk) /\ disk[b].seq <= disk[m].seq /\ b \in Block
      BY DEF IsNewest, Signed
    <2>3. SizeOf(disk[b]) <= SizeOf(disk[m])
      BY <2>2 DEF DiskOK
    <2>4. store[b].off[k] \in Nat
      BY <2>2, StoredOff, Counting DEF Offset
    <2>5. SizeOf(disk[b]) \in Nat
      <3>1. disk[b].nmac \in Nat /\ disk[b].reserved \in Nat
        BY <2>2 DEF Scubed3TypeOK, BlockioTypeOK, Header
      <3> QED BY <3>1, SizeFacts DEF SizeOf
    <2>6. PICK x \in Nat : x = store[b].off[k]
      BY <2>4
    <2>7. PICK y \in Nat : y = SizeOf(disk[b])
      BY <2>5
    <2>8. x < y /\ y <= z
      BY <1>1, <2>1, <2>3, <2>6, <2>7
    <2>9. x \in 0..(z - 1)
      BY <2>8
    <2> QED BY <1>2, <2>6, <2>9
  <1>4. ASSUME NEW o \in DOMAIN mm
        PROVE  /\ mm[o] \in Place
               /\ mm[o].b = NoBlock <=> Listing(o) = {}
               /\ mm[o].b # NoBlock =>
                    /\ mm[o].b \in Listing(o)
                    /\ \A c \in Listing(o) : disk[c].seq <= disk[mm[o].b].seq
                    /\ mm[o].k \in DOMAIN store[mm[o].b].off
                    /\ store[mm[o].b].off[mm[o].k] = o
    <2>1. PICK e : e = Replayed(o)
      OBVIOUS
    <2>2. /\ e \in Place
          /\ e = Unmapped <=> Listing(o) = {}
          /\ e # Unmapped =>
              /\ e.b \in Listing(o) /\ \A c \in Listing(o) : disk[c].seq <= disk[e.b].seq
              /\ e.k \in DOMAIN store[e.b].off /\ store[e.b].off[e.k] = o
      BY <2>1, ReplayedFacts
    <2>3. mm[o] = e
      BY <1>2, <2>1
    <2> QED BY <2>2, <2>3, PlaceFacts
  <1>5. CountsOK(i, mm)
    <2> SUFFICES ASSUME NEW b \in Block
                 PROVE  /\ i[b].live = Cardinality(Mapped(mm, b))
                        /\ i[b].off = IF i[b].live = 0 THEN <<>> ELSE store[b].off
      BY Zenon DEF CountsOK
    <2>1. PICK f \in Seq(Offset) : f = store[b].off
      BY StoredOff
    <2>2. PICK A : A = {k \in DOMAIN f : f[k] \notin DOMAIN mm \/ mm[f[k]].b = b}
      OBVIOUS
    <2>3. i[b] = [live |-> Cardinality(A), off |-> IF A = {} THEN <<>> ELSE f]
      BY <2>1, <2>2 DEF ReplayedInd
    <2>4. PICK X : X = Mapped(mm, b)
      OBVIOUS
    <2>5. \A k \in A : f[k] \in X
      <3> SUFFICES ASSUME NEW k \in A PROVE f[k] \in X
        OBVIOUS
      <3>1. k \in DOMAIN store[b].off
        BY <2>1, <2>2
      <3>2. b \in Signed(disk)
        BY <3>1 DEF DiskOK
      <3>3. f[k] \in DOMAIN mm
        BY <1>3, <2>1, <3>1, <3>2
      <3> QED BY <2>2, <2>4, <3>3 DEF Mapped
    <2>6. \A x \in X : \E k \in A : f[k] = x
      <3> SUFFICES ASSUME NEW x \in X PROVE \E k \in A : f[k] = x
        OBVIOUS
      <3>1. x \in DOMAIN mm /\ mm[x].b = b
        BY <2>4 DEF Mapped
      <3>2. mm[x].k \in DOMAIN f /\ f[mm[x].k] = x
        BY <1>4, <2>1, <3>1, Counting
      <3>3. mm[x].k \in A
        BY <2>2, <3>1, <3>2
      <3> QED BY <3>2, <3>3
    <2>7. IsInjective(f)
      BY <2>1 DEF DiskOK
    <2>8. A \in SUBSET DOMAIN f
      BY <2>2
    <2>9. Cardinality(X) = Cardinality(A) /\ (Cardinality(A) = 0 <=> A = {})
      BY <2>5, <2>6, <2>7, <2>8, ListedCount
    <2> QED BY <2>1, <2>3, <2>4, <2>9
  <1>6. CurrentOK(i, mm)
    BY DEF CurrentOK
  <1>7. FoundOnDisk(mm)
    <2> SUFFICES ASSUME NEW o \in DOMAIN mm, mm[o].b # NoBlock
                 PROVE  /\ mm[o].b \in Signed(disk)
                        /\ mm[o].k \in DOMAIN store[mm[o].b].off
                        /\ store[mm[o].b].off[mm[o].k] = o
      BY DEF FoundOnDisk
    <2> QED BY <1>4 DEF Listing
  <1>8. LatestFound(mm)
    <2> SUFFICES ASSUME NEW b \in Signed(disk), NEW k \in DOMAIN store[b].off,
                        NEW o, o = store[b].off[k]
                 PROVE  /\ o \in DOMAIN mm /\ mm[o].b # NoBlock
                        /\ disk[mm[o].b].seq >= disk[b].seq
      BY DEF LatestFound
    <2>1. o \in DOMAIN mm
      BY <1>3
    <2>2. b \in Listing(o)
      BY DEF Listing
    <2>3. mm[o].b # NoBlock /\ disk[b].seq <= disk[mm[o].b].seq
          /\ mm[o].b \in Block
      BY <1>4, <2>1, <2>2 DEF Listing, Signed
    <2>4. disk[b].seq \in Nat /\ disk[mm[o].b].seq \in Nat
      <3>1. b \in Block
        BY DEF Signed
      <3> QED BY <2>3, <3>1 DEF Scubed3TypeOK, BlockioTypeOK, Header
    <2> QED BY <2>1, <2>3, <2>4
  <1>9. ASSUME NEW b \in Signed(disk), disk[b].next = disk[m].seq + 1,
               NEW o \in Mapped(mm, b)
        PROVE  FALSE
    <2>1. o \in DOMAIN mm /\ mm[o].b = b /\ b \in Block
      BY <1>9 DEF Mapped, Signed
    <2>2. /\ \A c \in Listing(o) : disk[c].seq <= disk[b].seq
          /\ mm[o].k \in DOMAIN store[b].off /\ store[b].off[mm[o].k] = o
      BY <1>4, <2>1, Counting
    <2>3. Superseded(b)
      <3>1. m \in Block
        BY DEF IsNewest, Signed
      <3> QED BY <1>9, <3>1 DEF DiskOK
    <2>4. PICK c \in Signed(disk) :
            /\ disk[c].seq > disk[b].seq
            /\ \E j \in DOMAIN store[c].off : store[c].off[j] = o
      BY <2>2, <2>3 DEF Superseded
    <2>5. c \in Listing(o)
      BY <2>4 DEF Listing
    <2>6. disk[b].seq \in Nat /\ disk[c].seq \in Nat
      BY <2>1 DEF Signed, Scubed3TypeOK, BlockioTypeOK, Header
    <2> QED BY <2>2, <2>4, <2>5, <2>6
  <1> QED BY <1>5, <1>6, <1>7, <1>8, <1>9 DEF Sound

----------------------------------------------------------------------------
(* blockio_dev_write_current_macroblock. *)

(* The block that will be selected next holds nothing when the current one *)
(* is written with the RAM s.                                              *)
Clean(s) ==
  /\ tail = cur => s.ind[cur].off = <<>>
  /\ tail \notin {cur, NoBlock} => s.ind[tail].live = 0

(* The current block is written with the RAM s. *)
Written(s) ==
  /\ disk' = [disk EXCEPT ![cur] = CurrentHeader]
  /\ store' = WrittenContents(s)

(* What is on disk then. *)
LEMMA WrittenFacts ==
  ASSUME Scubed3TypeOK, BlockOK, pc = "open", cur \in Block, NEW s, Written(s)
  PROVE  /\ Signed(disk') = Signed(disk) \cup {cur}
         /\ disk'[cur].seq = seqno /\ disk'[cur].next = bnext[cur]
         /\ SizeOf(disk'[cur]) = Size
         /\ store'[cur].off = s.ind[cur].off
         /\ \A k \in 1..MMPM : store'[cur].data[k] =
              IF k <= Len(s.ind[cur].off) THEN s.ram[k] ELSE ZeroContent
         /\ \A b \in Block \ {cur} : disk'[b] = disk[b] /\ store'[b] = store[b]
         /\ \A b \in Signed(disk) \ {cur} :
              /\ b \in Block /\ disk[b].seq < seqno /\ b \in scheduled
              /\ bnext[b] = disk[b].next /\ disk[b].seq \in Nat
         /\ cur \in scheduled /\ seqno \in Nat
  <1>1. disk \in [Block -> Header] /\ store \in [Block -> [off : BoundedSeq(Offset, MMPM),
                          data : [1..MMPM -> Content]]]
    BY DEF Scubed3TypeOK, BlockioTypeOK
  <1>2. cur # NoBlock
    BY Counting
  <1>3. seqno > 0 /\ bseq[cur] = seqno /\ \A c \in Signed(disk) : disk[c].seq < seqno
    BY <1>2 DEF BlockOK
  <1>4. disk'[cur] = CurrentHeader /\ \A b \in Block \ {cur} : disk'[b] = disk[b]
    BY <1>1 DEF Written
  <1>5. /\ disk'[cur].seq = seqno /\ disk'[cur].next = bnext[cur]
        /\ disk'[cur].nmac = nmac /\ disk'[cur].reserved = reserved
    BY <1>3, <1>4 DEF CurrentHeader
  <1>6. SizeOf(disk'[cur]) = Size
    BY <1>5 DEF SizeOf, Size
  <1>7. seqno \in Nat /\ seqno # 0
    BY <1>3 DEF Scubed3TypeOK, BlockioTypeOK, JugglerTypeOK
  <1>8. Signed(disk') = Signed(disk) \cup {cur}
    BY <1>4, <1>5, <1>7 DEF Signed
  <1>9. \A b \in Signed(disk) \ {cur} :
              /\ b \in Block /\ disk[b].seq < seqno /\ b \in scheduled
              /\ bnext[b] = disk[b].next /\ disk[b].seq \in Nat
    <2> TAKE b \in Signed(disk) \ {cur}
    <2>1. b \in Block
      BY DEF Signed
    <2>2. b \in scheduled /\ bnext[b] = disk[b].next
      BY DEF BlockOK, IsOpen
    <2>3. disk[b].seq \in Nat
      BY <1>1, <2>1 DEF Header
    <2> QED BY <1>3, <2>1, <2>2, <2>3
  <1>10. cur \in scheduled
    BY <1>2 DEF BlockOK, IsOpen
  <1>11. \A b \in Block \ {cur} : store'[b] = store[b]
    BY <1>1 DEF Written, WrittenContents
  <1>12. /\ store'[cur].off = s.ind[cur].off
         /\ \A k \in 1..MMPM : store'[cur].data[k] =
              IF k <= Len(s.ind[cur].off) THEN s.ram[k] ELSE ZeroContent
    <2>1. PICK x : x = [off |-> s.ind[cur].off,
                        data |-> [k \in 1..MMPM |->
                                    IF k <= Len(s.ind[cur].off) THEN s.ram[k]
                                    ELSE ZeroContent]]
      OBVIOUS
    <2>2. store' = [store EXCEPT ![cur] = x]
      BY <2>1 DEF Written, WrittenContents
    <2>3. store'[cur] = x
      BY <1>1, <2>2
    <2> QED BY <2>1, <2>3
  <1> QED BY <1>4, <1>5, <1>6, <1>7, <1>8, <1>9, <1>10, <1>11, <1>12

(* A write in a clean state leaves a sound disk. *)
LEMMA WrittenDisk ==
  ASSUME Scubed3TypeOK, BlockOK, ControlOK, pc = "open", cur \in Block,
         DiskOK, Grown, TailOK,
         NEW s, StateOK(s), Sound(s.ind, s.map), Clean(s), Written(s)
  PROVE  DiskOK' /\ \A b \in Signed(disk') : SizeOf(disk'[b]) <= Size
  <1>a. PICK c \in Block : c = cur
    OBVIOUS
  <1>1. PICK f, i, m : f = s.ind[cur].off /\ i = s.ind /\ m = s.map /\ c = cur
    BY <1>a
  <1>2. /\ Signed(disk') = Signed(disk) \cup {c}
        /\ disk'[c].seq = seqno /\ disk'[c].next = bnext[c] /\ SizeOf(disk'[c]) = Size
        /\ store'[c].off = f
        /\ \A b \in Block \ {c} : disk'[b] = disk[b] /\ store'[b] = store[b]
        /\ \A b \in Signed(disk) \ {c} :
             /\ b \in Block /\ disk[b].seq < seqno /\ b \in scheduled
             /\ bnext[b] = disk[b].next /\ disk[b].seq \in Nat
        /\ c \in scheduled /\ seqno \in Nat /\ c # NoBlock
    <2>1. c = cur /\ f = s.ind[cur].off
      BY SMTT(30), <1>1
    <2> QED BY <2>1, WrittenFacts, Counting
  <1>3. /\ CountsOK(i, m) /\ FoundOnDisk(m) /\ LatestFound(m)
        /\ \A k \in DOMAIN f : f[k] \in DOMAIN m /\ m[f[k]] = [b |-> c, k |-> k]
        /\ \A o \in DOMAIN m : m[o].b = c => m[o].k \in DOMAIN f /\ f[m[o].k] = o
    BY <1>1, <1>2 DEF Sound, CurrentOK, Mapped
  <1>4. DOMAIN m = 0..(Size - 1) /\ DOMAIN m \subseteq Offset /\ Size \in Nat
        /\ \A o \in DOMAIN m : m[o] \in Place
    <2>1. nmac \in Nat /\ reserved \in Nat
      BY DEF Scubed3TypeOK, BlockioTypeOK
    <2>2. Size \in Nat
      BY <2>1, SizeFacts DEF Size
    <2> QED BY <1>1, <2>2 DEF StateOK, ControlOK, IsOpen, Scubed3TypeOK
  <1>5. ASSUME NEW b \in Block PROVE IsInjective(store'[b].off)
    <2>1. CASE b = c
      <3>1. ASSUME NEW j \in DOMAIN f, NEW k \in DOMAIN f, f[j] = f[k]
            PROVE  j = k
        <4>1. m[f[j]] = [b |-> c, k |-> j] /\ m[f[k]] = [b |-> c, k |-> k]
          BY <1>3
        <4> QED BY <3>1, <4>1
      <3> QED BY <1>2, <2>1, <3>1 DEF IsInjective
    <2>2. CASE b # c
      BY <1>2, <2>2 DEF DiskOK
    <2> QED BY <2>1, <2>2
  <1>6. ASSUME NEW b \in Block \ Signed(disk') PROVE store'[b].off = <<>>
    BY <1>2 DEF DiskOK
  <1>7. ASSUME NEW b \in Signed(disk'), NEW k \in DOMAIN store'[b].off
        PROVE  store'[b].off[k] < SizeOf(disk'[b])
    <2>1. CASE b = c
      <3>1. f[k] \in 0..(Size - 1)
        BY <1>2, <1>3, <1>4, <2>1
      <3> QED BY <1>2, <1>4, <2>1, <3>1
    <2>2. CASE b # c
      BY <1>2, <2>2 DEF DiskOK
    <2> QED BY <2>1, <2>2
  <1>8. ASSUME NEW b \in Signed(disk') PROVE SizeOf(disk'[b]) <= Size
    BY <1>2, <1>4 DEF Grown
  <1>9. ASSUME NEW b \in Signed(disk'), NEW d \in Signed(disk'),
               disk'[b].seq <= disk'[d].seq
        PROVE  SizeOf(disk'[b]) <= SizeOf(disk'[d])
    <2>1. CASE d = c
      BY <1>2, <1>8, <2>1
    <2>2. CASE d # c
      <3>1. b # c
        BY <1>2, <1>9, <2>2
      <3> QED BY <1>2, <1>9, <2>2, <3>1 DEF DiskOK
    <2> QED BY <2>1, <2>2
  <1>10. ASSUME NEW n \in Block, IsNewest(disk', n), NEW b \in Signed(disk'),
                disk'[b].next = disk'[n].seq + 1,
                NEW k \in DOMAIN store'[b].off
         PROVE  \E d \in Signed(disk') :
                  /\ disk'[d].seq > disk'[b].seq
                  /\ \E j \in DOMAIN store'[d].off : store'[d].off[j] = store'[b].off[k]
    <2>1. n = c
      BY <1>2, <1>10 DEF IsNewest
    <2>2. b \in scheduled /\ bnext[b] = seqno + 1
      BY <1>2, <1>10, <2>1
    <2>3. b = tail
      BY <1>1, <1>2, <2>2 DEF TailOK
    <2>4. b # c
      <3>1. ASSUME b = c PROVE FALSE
        <4>1. f = <<>>
          BY <1>1, <2>3, <3>1 DEF Clean
        <4> QED BY <1>2, <1>10, <3>1, <4>1
      <3> QED BY <3>1
    <2>5. b \in Signed(disk) /\ b \in Block
      BY <1>2, <2>4
    <2>6. i[b].live = 0
      BY <1>1, <2>3, <2>4, <2>5, Counting DEF Clean
    <2>7. Mapped(m, b) = {}
      <3>1. i[b].live = Cardinality(Mapped(m, b))
        BY <1>1, <1>3, <2>4, <2>5 DEF CountsOK
      <3> QED BY <1>4, <2>6, <3>1, MappedFinite
    <2>8. PICK o : o = store[b].off[k]
      OBVIOUS
    <2>9. k \in DOMAIN store[b].off /\ store'[b].off[k] = o /\ disk'[b].seq = disk[b].seq
      BY <1>2, <1>10, <2>4, <2>5, <2>8
    <2>10. /\ o \in DOMAIN m /\ m[o].b # NoBlock
           /\ m[o].b = c \/ disk[m[o].b].seq >= disk[b].seq
      <3>1. b \in Signed(disk) \ {cur} /\ k \in DOMAIN store[b].off /\ LatestFound(m)
        BY <1>1, <1>3, <2>4, <2>5, <2>9
      <3>2. /\ o \in DOMAIN m /\ m[o].b # NoBlock
            /\ m[o].b = cur \/ disk[m[o].b].seq >= disk[b].seq
        BY <2>8, <3>1, Zenon DEF LatestFound
      <3> QED BY <1>1, <3>2
    <2>11. CASE m[o].b = c
      <3>1. m[o].k \in DOMAIN f /\ f[m[o].k] = o
        BY <1>3, <2>10, <2>11
      <3>2. disk'[c].seq > disk'[b].seq
        BY <1>2, <2>4, <2>5, <2>9
      <3> QED BY <1>2, <2>9, <3>1, <3>2
    <2>12. CASE m[o].b # c
      <3>1. PICK d : d = m[o].b
        BY SMTT(30)
      <3>2. /\ d \in Signed(disk) /\ m[o].k \in DOMAIN store[d].off
            /\ store[d].off[m[o].k] = o
        BY <1>1, <1>3, <2>10, <2>12, <3>1 DEF FoundOnDisk
      <3>3. d # b
        BY <2>7, <2>10, <3>1 DEF Mapped
      <3>4. disk[d].seq >= disk[b].seq /\ disk[d].seq # disk[b].seq
        BY <2>5, <2>10, <2>12, <3>1, <3>2, <3>3 DEF BlockOK
      <3>5. d \in Block /\ d # c /\ disk[d].seq \in Nat /\ disk[b].seq \in Nat
        BY <1>2, <2>4, <2>5, <2>12, <3>1, <3>2
      <3>6. disk'[d].seq > disk'[b].seq /\ store'[d] = store[d] /\ d \in Signed(disk')
        BY <1>2, <2>9, <3>2, <3>4, <3>5
      <3> QED BY <2>9, <3>2, <3>6
    <2> QED BY <2>11, <2>12
  <1> QED BY <1>5, <1>6, <1>7, <1>8, <1>9, <1>10, Zenon DEF DiskOK, Superseded

(* A mesoblock that a block on disk lists is found there or later. *)
LEMMA LatestAt ==
  ASSUME NEW m, LatestFound(m), NEW b \in Signed(disk) \ {cur},
         NEW k \in DOMAIN store[b].off, NEW o, o = store[b].off[k]
  PROVE  /\ o \in DOMAIN m /\ m[o].b # NoBlock
         /\ m[o].b = cur \/ disk[m[o].b].seq >= disk[b].seq
  BY DEF LatestFound

(* After the write the RAM describes the disk, with no current block. *)
LEMMA WrittenSound ==
  ASSUME Scubed3TypeOK, BlockOK, pc = "open", cur \in Block, TailOK,
         NEW s, StateOK(s), Sound(s.ind, s.map), Clean(s), Written(s),
         ind' = AllAlive(s.ind), map' = s.map, cur' = NoBlock,
         scheduled' = scheduled, bnext' = bnext, seqno' = seqno
  PROVE  Sound(ind, map)' /\ TailOK'
  <1>a. PICK c \in Block : c = cur
    OBVIOUS
  <1>1. PICK f, i, m : f = s.ind[cur].off /\ i = s.ind /\ m = s.map /\ c = cur
    BY <1>a
  <1>2. /\ Signed(disk') = Signed(disk) \cup {c}
        /\ disk'[c].seq = seqno /\ store'[c].off = f
        /\ \A b \in Block \ {c} : disk'[b] = disk[b] /\ store'[b] = store[b]
        /\ \A b \in Signed(disk) \ {c} :
             b \in Block /\ disk[b].seq < seqno /\ disk[b].seq \in Nat
        /\ seqno \in Nat /\ c # NoBlock /\ NoBlock \notin Block
    <2>1. c = cur /\ f = s.ind[cur].off
      BY SMTT(30), <1>1
    <2> QED BY <2>1, WrittenFacts, Counting
  <1>3. /\ CountsOK(i, m) /\ FoundOnDisk(m) /\ LatestFound(m)
        /\ \A k \in DOMAIN f : f[k] \in DOMAIN m /\ m[f[k]] = [b |-> c, k |-> k]
        /\ \A o \in DOMAIN m : m[o].b = c => m[o].k \in DOMAIN f /\ f[m[o].k] = o
    BY <1>1, <1>2 DEF Sound, CurrentOK, Mapped
  <1>4. /\ i \in [Block -> Indices] /\ DOMAIN m \subseteq Offset
        /\ \A o \in DOMAIN m : m[o] \in Place
    BY <1>1 DEF StateOK, Scubed3TypeOK
  <1>5. f \in Seq(Offset) /\ Len(f) \in Nat /\ DOMAIN f = 1..Len(f)
    <2>1. i[c] \in Indices
      BY <1>4
    <2> QED BY <1>1, <2>1, IndicesFacts
  <1>6. /\ ind'[c].live = Len(f) /\ ind'[c].off = f
        /\ \A b \in Block \ {c} : ind'[b] = i[b]
    <2>1. PICK x \in Indices : x = i[c]
      BY <1>4
    <2>2. PICK y : y = [x EXCEPT !.live = Len(f)]
      OBVIOUS
    <2>3. y.live = Len(f) /\ y.off = x.off
      BY <2>2 DEF Indices
    <2>4. ind' = [i EXCEPT ![c] = y]
      BY <1>1, <2>1, <2>2 DEF AllAlive
    <2> QED BY <1>1, <1>4, <2>1, <2>3, <2>4
  <1>7. map' = m
    BY <1>1
  <1>8. CountsOK(ind, map)'
    <2> SUFFICES ASSUME NEW b \in Block
                 PROVE  /\ ind'[b].live = Cardinality(Mapped(m, b))
                        /\ ind'[b].off = IF ind'[b].live = 0 THEN <<>>
                                         ELSE store'[b].off
      <3>1. \A b \in Block \ {cur'} :
              /\ ind'[b].live = Cardinality(Mapped(map', b))
              /\ ind'[b].off = IF ind'[b].live = 0 THEN <<>> ELSE store'[b].off
        BY <1>7, Zenon
      <3> QED BY <3>1, Zenon DEF CountsOK, Mapped
    <2>1. CASE b = c
      <3>1. PICK X : X = Mapped(m, c)
        OBVIOUS
      <3>2. ASSUME NEW k \in DOMAIN f PROVE f[k] \in X
        <4>1. f[k] \in DOMAIN m /\ m[f[k]] = [b |-> c, k |-> k]
          BY <1>3
        <4> QED BY <3>1, <4>1 DEF Mapped
      <3>3. \A x \in X : \E k \in DOMAIN f : f[k] = x
        BY <1>3, <3>1 DEF Mapped
      <3>4. IsInjective(f)
        <4>1. ASSUME NEW j \in DOMAIN f, NEW k \in DOMAIN f, f[j] = f[k]
              PROVE  j = k
          <5>1. m[f[j]] = [b |-> c, k |-> j] /\ m[f[k]] = [b |-> c, k |-> k]
            BY <1>3
          <5> QED BY <4>1, <5>1
        <4> QED BY <4>1 DEF IsInjective
      <3>5. PICK A : A = DOMAIN f
        OBVIOUS
      <3>6. Cardinality(X) = Len(f)
        <4>1. A \in SUBSET DOMAIN f /\ (\A k \in A : f[k] \in X)
              /\ \A x \in X : \E k \in A : f[k] = x
          BY <3>2, <3>3, <3>5
        <4>2. A = DOMAIN f => Cardinality(X) = Len(f)
          BY <1>5, <3>4, <4>1, ListedCount
        <4> QED BY <3>5, <4>2
      <3>7. Len(f) = 0 => f = <<>>
        BY <1>5
      <3> QED BY <1>2, <1>6, <2>1, <3>1, <3>6, <3>7
    <2>2. CASE b # c
      BY <1>1, <1>2, <1>3, <1>6, <2>2 DEF CountsOK
    <2> QED BY <2>1, <2>2
  <1>9. CurrentOK(ind, map)'
    BY Zenon DEF CurrentOK
  <1>10. FoundOnDisk(map)'
    <2> SUFFICES ASSUME NEW o \in DOMAIN m, m[o].b # NoBlock
                 PROVE  /\ m[o].b \in Signed(disk')
                        /\ m[o].k \in DOMAIN store'[m[o].b].off
                        /\ store'[m[o].b].off[m[o].k] = o
      BY <1>7 DEF FoundOnDisk
    <2>1. CASE m[o].b = c
      BY <1>2, <1>3, <2>1
    <2>2. CASE m[o].b # c
      <3>1. /\ m[o].b \in Signed(disk) /\ m[o].k \in DOMAIN store[m[o].b].off
            /\ store[m[o].b].off[m[o].k] = o
        BY <1>1, <1>3, <2>2 DEF FoundOnDisk
      <3>2. m[o].b \in Block
        BY <3>1 DEF Signed
      <3> QED BY SMTT(30), <1>2, <2>2, <3>1, <3>2
    <2> QED BY <2>1, <2>2
  <1>11. LatestFound(map)'
    <2> SUFFICES ASSUME NEW b \in Signed(disk'), NEW k \in DOMAIN store'[b].off,
                        NEW o, o = store'[b].off[k]
                 PROVE  /\ o \in DOMAIN m /\ m[o].b # NoBlock
                        /\ disk'[m[o].b].seq >= disk'[b].seq
      BY <1>7 DEF LatestFound
    <2>1. CASE b = c
      <3>1. k \in DOMAIN f /\ o = f[k]
        BY <1>2, <2>1
      <3>2. o \in DOMAIN m /\ m[o] = [b |-> c, k |-> k]
        BY <1>3, <3>1
      <3>3. m[o].b = c
        BY <3>2
      <3> QED BY <1>2, <2>1, <3>2, <3>3
    <2>2. CASE b # c
      <3>1. b \in Signed(disk) \ {cur} /\ k \in DOMAIN store[b].off
            /\ o = store[b].off[k] /\ disk'[b] = disk[b]
        BY <1>1, <1>2, <2>2
      <3>2. /\ o \in DOMAIN m /\ m[o].b # NoBlock
            /\ m[o].b = cur \/ disk[m[o].b].seq >= disk[b].seq
        BY <1>3, <3>1, LatestAt
      <3>3. CASE m[o].b = cur
        BY SMTT(30), <1>1, <1>2, <3>1, <3>2, <3>3
      <3>4. CASE m[o].b # cur
        <4>1. m[o].b \in Block
          BY <1>4, <3>2, PlaceFacts
        <4> QED BY <1>1, <1>2, <3>1, <3>2, <3>4, <4>1
      <3> QED BY <3>3, <3>4
    <2> QED BY <2>1, <2>2
  <1>12. TailOK'
    <2> SUFFICES ASSUME NEW b \in scheduled, bnext[b] = seqno + 1
                 PROVE  Mapped(m, b) = {}
      BY <1>7, ZenonT(30) DEF TailOK, Mapped
    <2>1. b = tail
      BY <1>1, <1>2 DEF TailOK
    <2>2. b \in Block
      BY DEF Scubed3TypeOK, BlockioTypeOK, JugglerTypeOK
    <2>3. CASE b = c
      <3>1. f = <<>>
        BY <1>1, <2>1, <2>3 DEF Clean
      <3> QED BY <1>3, <2>3, <3>1 DEF Mapped
    <2>4. CASE b # c
      <3>1. i[b].live = 0
        BY <1>1, <2>1, <2>2, <2>4, Counting DEF Clean
      <3>2. i[b].live = Cardinality(Mapped(m, b))
        BY <1>1, <1>3, <2>2, <2>4 DEF CountsOK
      <3> QED BY <1>4, <3>1, <3>2, MappedFinite
    <2> QED BY <2>3, <2>4
  <1> QED BY <1>8, <1>9, <1>10, <1>11, <1>12, Zenon DEF Sound

(* A write that taints nothing was clean. *)
LEMMA NotedClean ==
  ASSUME Scubed3TypeOK, NEW s, StateOK(s), cur \in Block,
         hist' = NotedWrite(s), ~ Tainted'
  PROVE  ~ Tainted /\ Clean(s)
  <1>1. hist \in [self : BOOLEAN, skip : BOOLEAN]
    BY DEF Scubed3TypeOK
  <1>2. /\ hist'.self = (hist.self \/ (tail = cur /\ s.ind[cur].off # <<>>))
        /\ hist'.skip = (hist.skip \/ (tail \notin {cur, NoBlock}
                                         /\ s.ind[tail].live > 0))
    BY <1>1 DEF NotedWrite
  <1>3. ~ hist'.self /\ ~ hist'.skip
    BY DEF Tainted
  <1>4. tail \in Block => s.ind[tail].live \in Nat
    <2>1. tail \in Block => s.ind[tail] \in Indices
      BY DEF StateOK
    <2> QED BY <2>1, IndicesFacts
  <1>5. tail \in Block \cup {NoBlock}
    BY DEF Scubed3TypeOK, BlockioTypeOK
  <1>6. /\ ~ hist.self /\ ~ hist.skip
        /\ tail = cur => s.ind[cur].off = <<>>
        /\ tail \notin {cur, NoBlock} => ~ (s.ind[tail].live > 0)
    BY <1>2, <1>3, Zenon
  <1>7. tail \notin {cur, NoBlock} => s.ind[tail].live = 0
    BY <1>4, <1>5, <1>6
  <1> QED BY <1>6, <1>7 DEF Tainted, Clean

----------------------------------------------------------------------------
(* The steps. *)

StoreType == [Block -> [off : BoundedSeq(Offset, MMPM),
                        data : [1..MMPM -> Content]]]

(* The empty sequence, as the indices of a block. *)
LEMMA EmptyOff == <<>> \in BoundedSeq(Offset, MMPM)
  <1>1. PICK f : f = <<>>
    OBVIOUS
  <1>2. f \in Seq(Offset) /\ Len(f) <= MMPM
    BY <1>1, Counting
  <1> QED BY <1>1, <1>2, BoundedOff

(* A partition that is not open: only the disk counts. *)
LEMMA GoneInv ==
  ASSUME BlockOK', PartitionGone, pc' = "closed", store' \in StoreType,
         died' \in {"no", "abort", "unlock", "null"},
         hist' \in [self : BOOLEAN, skip : BOOLEAN],
         ~ Tainted' => DiskOK', AssertionsHold'
  PROVE  DataInv'
  <1>1. Scubed3TypeOK'
    <2>1. BlockioTypeOK'
      BY DEF BlockOK
    <2>2. ind' \in [Block -> [off : BoundedSeq(Offset, MMPM), live : 0..MMPM]]
      <3>1. 0 \in 0..MMPM
        BY Counting
      <3> QED BY <3>1, EmptyOff DEF PartitionGone
    <2>3. DOMAIN map' = {}
      BY DEF PartitionGone, EmptyMap
    <2>4. ram' \in [1..MMPM -> Content]
      BY DEF PartitionGone, Buffer, ZeroContent, Content
    <2> QED BY <2>1, <2>2, <2>3, <2>4 DEF Scubed3TypeOK, PartitionGone, StoreType
  <1>2. ControlOK'
    BY DEF ControlOK, PartitionGone, IsOpen, NoRequest
  <1>3. ~ IsOpen'
    BY DEF IsOpen
  <1> QED BY <1>1, <1>2, <1>3, Zenon DEF DataInv

(* A disk that does not change stays sound. *)
LEMMA DiskSame ==
  ASSUME UNCHANGED <<disk, store>>
  PROVE  DiskOK => DiskOK'
  <1>1. \A b : Superseded(b)' <=> Superseded(b)
    BY DEF Superseded
  <1> QED BY <1>1, Zenon DEF DiskOK

(* What the RAM says depends on these. *)
LEMMA SoundSame ==
  ASSUME UNCHANGED <<disk, store, cur>>, Sound(ind', map')
  PROVE  Sound(ind, map)'
  <1>1. CountsOK(ind, map)'
    BY Zenon DEF Sound, CountsOK
  <1>2. CurrentOK(ind, map)'
    BY Zenon DEF Sound, CurrentOK
  <1>3. FoundOnDisk(map)'
    BY Zenon DEF Sound, FoundOnDisk
  <1>4. LatestFound(map)'
    BY ZenonT(30) DEF Sound, LatestFound
  <1> QED BY <1>1, <1>2, <1>3, <1>4, Zenon DEF Sound

(* The daemon dies in a handler. *)
LEMMA DieInv ==
  ASSUME DataInv, BlockOK', NEW w \in {"abort", "unlock", "null"}, Die(w),
         w = "abort" => Tainted
  PROVE  DataInv'
  <1>1. ~ Tainted' => DiskOK'
    <2>1. ~ Tainted' => DiskOK
      BY DEF Die, DataInv, Tainted
    <2> QED BY <2>1, DiskSame DEF Die
  <1>2. AssertionsHold'
    BY DEF Die, AssertionsHold, Tainted
  <1>3. store' \in StoreType /\ died' \in {"no", "abort", "unlock", "null"}
        /\ hist' \in [self : BOOLEAN, skip : BOOLEAN]
    BY DEF Die, DataInv, Scubed3TypeOK, StoreType
  <1>4. PartitionGone /\ pc' = "closed"
    BY DEF Die
  <1> QED BY <1>1, <1>2, <1>3, <1>4, GoneInv

(* A handler changes the RAM and goes on. *)
LEMMA ContinueInv ==
  ASSUME DataInv, BlockOK, BlockOK', pc = "open", cur \in Block,
         NEW s, StateOK(s), ~ Tainted => Sound(s.ind, s.map),
         NEW o \in {"idle", "flush"}, NEW r, Continue(s, o, r),
         r.parts \in SUBSET Part, r.v \in Value \cup {Zero},
         o = "flush" => r.o \in DOMAIN map,
         outinit' = TRUE,
         UNCHANGED <<jvars, disk, pc, cur, tail, nmac, reserved>>
  PROVE  DataInv'
  <1>1. /\ ind' = s.ind /\ map' = s.map /\ ram' = s.ram /\ op' = o /\ req' = r
        /\ UNCHANGED <<store, died, hist>>
    BY DEF Continue
  <1>2. Scubed3TypeOK'
    <2>1. BlockioTypeOK'
      BY DEF BlockOK
    <2>2. /\ ind' \in [Block -> [off : BoundedSeq(Offset, MMPM), live : 0..MMPM]]
          /\ ram' \in [1..MMPM -> Content]
          /\ DOMAIN map' = DOMAIN map
          /\ \A p \in DOMAIN map' : map'[p] \in [b : Block, k : 1..MMPM] \cup {Unmapped}
      BY <1>1 DEF StateOK, Indices, Place
    <2>3. DOMAIN map' \subseteq Offset /\ store' \in StoreType
          /\ died' \in {"no", "abort", "unlock", "null"}
          /\ hist' \in [self : BOOLEAN, skip : BOOLEAN]
      BY <1>1, <2>2 DEF DataInv, Scubed3TypeOK, StoreType
    <2>4. op' \in {"idle", "flush", "copy", "cycled"} /\ outinit' \in BOOLEAN
      BY <1>1
    <2> QED BY <2>1, <2>2, <2>3, <2>4 DEF Scubed3TypeOK, StoreType
  <1>3. ControlOK'
    <2>1. DOMAIN map' = DOMAIN map /\ DOMAIN map = 0..(Size - 1)
      BY <1>1 DEF StateOK, DataInv, ControlOK, IsOpen
    <2>2. Size' = Size /\ cur' # NoBlock /\ IsOpen' /\ pc' = "open"
      BY Counting DEF Size, IsOpen
    <2> QED BY <1>1, <2>1, <2>2 DEF ControlOK
  <1>4. ASSUME ~ Tainted' PROVE DiskOK'
    <2>1. DiskOK
      BY <1>1, <1>4 DEF Tainted, DataInv
    <2> QED BY <1>1, <2>1, DiskSame
  <1>5. ASSUME ~ Tainted' PROVE Sound(ind, map)' /\ TailOK' /\ FreshOK' /\ Grown'
    <2>1. ~ Tainted /\ IsOpen
      BY <1>1, <1>5 DEF Tainted, IsOpen
    <2>2. Sound(ind', map')
      BY <1>1, <2>1
    <2>3. Sound(ind, map)'
      BY <1>1, <2>2, SoundSame
    <2>4. TailOK'
      <3>1. TailOK /\ cur # NoBlock
        BY <2>1, Counting DEF DataInv
      <3> QED BY <3>1 DEF TailOK, jvars
    <2>5. FreshOK'
      BY <1>1 DEF FreshOK
    <2>6. Grown'
      BY <2>1 DEF DataInv, Grown, Size
    <2> QED BY <2>3, <2>4, <2>5, <2>6
  <1>6. AssertionsHold'
    BY <1>1 DEF DataInv, AssertionsHold, Tainted
  <1> QED BY <1>2, <1>3, <1>4, <1>5, <1>6, Zenon DEF DataInv

(* The contents that a write leaves have their types. *)
LEMMA WrittenType ==
  ASSUME Scubed3TypeOK, cur \in Block, NEW s, StateOK(s)
  PROVE  /\ WrittenContents(s) \in StoreType
         /\ NotedWrite(s) \in [self : BOOLEAN, skip : BOOLEAN]
         /\ AllAlive(s.ind) \in [Block -> Indices]
  <1>1. s.ind[cur] \in Indices /\ s.ind \in [Block -> Indices]
        /\ s.ram \in [1..MMPM -> Content]
    BY DEF StateOK
  <1>2. s.ind[cur].off \in BoundedSeq(Offset, MMPM) /\ Len(s.ind[cur].off) \in 0..MMPM
    BY <1>1, IndicesFacts, Counting DEF Indices
  <1>3. ZeroContent \in Content
    BY DEF ZeroContent, Content
  <1>4. WrittenContents(s) \in StoreType
    <2>1. PICK d : d = [k \in 1..MMPM |-> IF k <= Len(s.ind[cur].off) THEN s.ram[k]
                                          ELSE ZeroContent]
      OBVIOUS
    <2>2. d \in [1..MMPM -> Content]
      BY <1>1, <1>3, <2>1
    <2>3. PICK x : x = [off |-> s.ind[cur].off, data |-> d]
      OBVIOUS
    <2>4. x \in [off : BoundedSeq(Offset, MMPM), data : [1..MMPM -> Content]]
      BY <1>2, <2>2, <2>3
    <2>5. store \in StoreType
      BY DEF Scubed3TypeOK, StoreType
    <2>6. WrittenContents(s) = [store EXCEPT ![cur] = x]
      BY <2>1, <2>3 DEF WrittenContents
    <2> QED BY <2>4, <2>5, <2>6 DEF StoreType
  <1>5. NotedWrite(s) \in [self : BOOLEAN, skip : BOOLEAN]
    BY DEF NotedWrite, Scubed3TypeOK
  <1>6. AllAlive(s.ind) \in [Block -> Indices]
    <2>1. PICK h \in [Block -> Indices], c \in Block : h = s.ind /\ c = cur
      BY <1>1
    <2>2. PICK x \in Indices : x = h[c]
      BY <2>1
    <2>3. PICK y : y = [x EXCEPT !.live = Len(x.off)]
      OBVIOUS
    <2>4. y \in Indices
      BY <1>2, <2>1, <2>2, <2>3 DEF Indices
    <2>5. AllAlive(s.ind) = [h EXCEPT ![c] = y]
      BY <2>1, <2>2, <2>3 DEF AllAlive
    <2> QED BY <2>4, <2>5
  <1> QED BY <1>4, <1>5, <1>6

(* A handler writes the current block and goes on to select the next. *)
LEMMA WriteInv ==
  ASSUME DataInv, BlockOK, BlockOK', cur \in Block,
         NEW s, StateOK(s), ~ Tainted => Sound(s.ind, s.map),
         WriteForNext, WriteContents(s),
         UNCHANGED <<outinit, req, died>>,
         op' \in {"flush", "cycled"}, op' = "flush" => op = "flush"
  PROVE  DataInv'
  <1>1. /\ pc = "open" /\ pc' = "select" /\ cur' = NoBlock
        /\ UNCHANGED <<jvars, tail, updated, used, nmac, reserved, torn, warned>>
        /\ disk' = [disk EXCEPT ![cur] = CurrentHeader]
    BY DEF WriteForNext, WriteCurrent
  <1>2. /\ store' = WrittenContents(s) /\ ind' = AllAlive(s.ind) /\ map' = s.map
        /\ ram' = Buffer(CipherContent) /\ hist' = NotedWrite(s)
    BY DEF WriteContents
  <1>3. Written(s)
    BY <1>1, <1>2 DEF Written
  <1>4. Scubed3TypeOK /\ ControlOK
    BY DEF DataInv
  <1>5. Scubed3TypeOK'
    <2>1. BlockioTypeOK'
      BY DEF BlockOK
    <2>2. /\ store' \in StoreType /\ hist' \in [self : BOOLEAN, skip : BOOLEAN]
          /\ ind' \in [Block -> Indices]
      BY <1>2, <1>4, WrittenType
    <2>3. /\ DOMAIN map' \subseteq Offset
          /\ \A o \in DOMAIN map' : map'[o] \in Place
      BY <1>2, <1>4 DEF StateOK, Scubed3TypeOK
    <2>4. ram' \in [1..MMPM -> Content]
      BY <1>2 DEF Buffer, CipherContent, Content
    <2>5. outinit' \in BOOLEAN /\ died' \in {"no", "abort", "unlock", "null"}
          /\ op' \in {"idle", "flush", "copy", "cycled"}
      BY <1>4 DEF Scubed3TypeOK
    <2> QED BY <2>1, <2>2, <2>3, <2>4, <2>5 DEF Scubed3TypeOK, StoreType, Indices, Place
  <1>6. ControlOK'
    <2>1. IsOpen /\ IsOpen' /\ Size' = Size /\ DOMAIN map' = DOMAIN map
      BY <1>1, <1>2 DEF IsOpen, Size, StateOK
    <2> QED BY <1>1, <1>4, <2>1 DEF ControlOK
  <1>7. ASSUME ~ Tainted'
        PROVE  DiskOK' /\ Sound(ind, map)' /\ TailOK' /\ FreshOK' /\ Grown'
    <2>1. ~ Tainted /\ Clean(s)
      BY <1>2, <1>4, <1>7, NotedClean
    <2>2. DiskOK /\ TailOK /\ Grown /\ Sound(s.ind, s.map)
      BY <1>1, <2>1 DEF DataInv, IsOpen
    <2>3. DiskOK' /\ \A b \in Signed(disk') : SizeOf(disk'[b]) <= Size
      BY <1>1, <1>3, <1>4, <2>1, <2>2, WrittenDisk
    <2>4. Sound(ind, map)' /\ TailOK'
      <3>1. scheduled' = scheduled /\ bnext' = bnext /\ seqno' = seqno
        BY <1>1 DEF jvars
      <3> QED BY <1>1, <1>2, <1>3, <1>4, <2>1, <2>2, <3>1, WrittenSound
    <2>5. FreshOK'
      BY <1>1 DEF FreshOK
    <2>6. Grown'
      BY <1>1, <2>3 DEF Grown, Size
    <2> QED BY <2>3, <2>4, <2>5, <2>6
  <1>8. AssertionsHold'
    <2>1. Tainted => Tainted'
      <3>1. hist \in [self : BOOLEAN, skip : BOOLEAN]
        BY <1>4 DEF Scubed3TypeOK
      <3>2. (hist.self => hist'.self) /\ (hist.skip => hist'.skip)
        BY <1>2, <3>1 DEF NotedWrite
      <3> QED BY <3>2 DEF Tainted
    <2> QED BY <2>1 DEF DataInv, AssertionsHold
  <1> QED BY <1>5, <1>6, <1>7, <1>8, Zenon DEF DataInv

(* initialize_output, in a handler that starts: types, and what it keeps. *)
LEMMA OutputFacts ==
  ASSUME DataInv, BlockOK, pc = "open", cur \in Block, op = "idle"
  PROVE  /\ StateOK(InitializedOutput)
         /\ ~ Tainted => /\ InitializedOutput.ok
                         /\ Sound(InitializedOutput.ind, InitializedOutput.map)
                         /\ \A o \in DOMAIN map :
                              ReadOf(InitializedOutput, o) = DoRead(o)
                         /\ \A o \in DOMAIN map : map[o].b = cur =>
                              InitializedOutput.map[o] = map[o]
  <1>1. Scubed3TypeOK /\ IsOpen /\ cur # NoBlock
    BY Counting DEF DataInv, IsOpen
  <1>2. CASE outinit
    <2>1. InitializedOutput = Now
      BY <1>2 DEF InitializedOutput
    <2>2. StateOK(Now)
      BY <1>1, NowType
    <2>3. Now.ok /\ Now.ind = ind /\ Now.map = map
      BY DEF Now
    <2>4. \A o \in DOMAIN map : ReadOf(Now, o) = DoRead(o)
      BY DEF ReadOf, DoRead, Now
    <2>5. ~ Tainted => Sound(ind, map)
      BY <1>1 DEF DataInv
    <2> QED BY <2>1, <2>2, <2>3, <2>4, <2>5
  <1>3. CASE ~ outinit
    <2>1. InitializedOutput = CopyOldBlock
      BY <1>3 DEF InitializedOutput
    <2>2. LoopOK(CopyOldBlock, MMPM)
      BY <1>1, CopyLoop
    <2>3. ~ Tainted => CopyStart
      BY <1>1, <1>3 DEF DataInv, FreshOK, DiskOK, CopyStart
    <2>4. ~ Tainted => \A o \in DOMAIN map : map[o].b # cur
      BY <1>1, <2>3 DEF CopyStart, Sound, CurrentOK, Mapped
    <2> QED BY <2>1, <2>2, <2>3, <2>4 DEF LoopOK
  <1> QED BY <1>2, <1>3

(* do_write. *)
LEMMA DoWriteInv ==
  ASSUME DataInv, BlockOK, BlockOK', NEW o \in DOMAIN map,
         NEW parts \in SUBSET Part, NEW v \in Value, DoWrite(o, parts, v)
  PROVE  DataInv'
  <1>1. PICK r, s : r = [o |-> o, parts |-> parts, v |-> v] /\ s = InitializedOutput
    OBVIOUS
  <1>2. PICK e : e = IF map[o].b = cur THEN map[o] ELSE s.map[o]
    OBVIOUS
  <1>3. PICK t : t = Placed(s, r, e)
    OBVIOUS
  <1>4. PICK full \in BOOLEAN : full = (map[o].b # cur /\ Len(s.ind[cur].off) = MMPM)
    OBVIOUS
  <1>5. /\ op = "idle" /\ pc = "open"
        /\ IF ~ s.ok \/ (~ full /\ ~ t.ok) THEN Die("abort")
           ELSE IF full /\ ErrorCheck THEN Die("unlock")
           ELSE /\ MarkUpdated
                /\ outinit' = TRUE
                /\ IF full THEN Continue(s, "flush", r)
                   ELSE Continue(t, "idle", NoRequest)
    BY <1>1, <1>2, <1>3, <1>4, Zenon DEF DoWrite
  <1>6. Scubed3TypeOK /\ IsOpen /\ DOMAIN map = 0..(Size - 1) /\ map[o] \in Place
    BY <1>5 DEF DataInv, IsOpen, ControlOK, Scubed3TypeOK, Place
  <1>7. cur \in Block
    <2>1. ASSUME cur = NoBlock PROVE FALSE
      <3>1. nmac <= reserved /\ nmac \in Nat /\ reserved \in Nat
        BY <1>5, <2>1 DEF DataInv, ControlOK, Scubed3TypeOK, BlockioTypeOK
      <3>2. Size = 0
        BY <3>1, SizeFacts DEF Size
      <3> QED BY <1>6, <3>2
    <2> QED BY <2>1 DEF DataInv, Scubed3TypeOK, BlockioTypeOK
  <1>8. /\ StateOK(s)
        /\ ~ Tainted => s.ok /\ Sound(s.ind, s.map) /\ e = s.map[o]
    BY <1>1, <1>2, <1>5, <1>7, OutputFacts
  <1>9. e \in Place /\ IsRequest(r) /\ r.o = o
        /\ r.parts \in SUBSET Part /\ r.v \in Value \cup {Zero}
    BY <1>1, <1>2, <1>6, <1>8 DEF StateOK, IsRequest
  <1>10. StateOK(t)
    <2>1. PlacedOK(s, r, e, t)
      BY <1>3, <1>6, <1>7, <1>8, <1>9, PlacedFacts
    <2> QED BY <2>1 DEF PlacedOK
  <1>11. ASSUME ~ Tainted, ~ full PROVE t.ok /\ Sound(t.ind, t.map)
    <2>1. s.ok /\ Sound(s.ind, s.map) /\ t = Placed(s, r, s.map[r.o])
      BY <1>3, <1>8, <1>9, <1>11
    <2>2. s.map[r.o].b # cur => Len(s.ind[cur].off) # MMPM
      BY <1>2, <1>4, <1>8, <1>9, <1>11
    <2> QED BY <1>6, <1>7, <1>8, <1>9, <2>1, <2>2, PlacedSound
  <1>12. CASE ~ s.ok \/ (~ full /\ ~ t.ok)
    <2>1. Tainted
      BY <1>8, <1>11, <1>12
    <2>2. Die("abort")
      BY <1>5, <1>12
    <2> QED BY <2>1, <2>2, DieInv
  <1>13. CASE ~ (~ s.ok \/ (~ full /\ ~ t.ok)) /\ full /\ ErrorCheck
    <2>1. Die("unlock")
      BY <1>5, <1>13
    <2> QED BY <2>1, DieInv
  <1>14. CASE ~ (~ s.ok \/ (~ full /\ ~ t.ok)) /\ ~ (full /\ ErrorCheck)
    <2>1. MarkUpdated /\ outinit' = TRUE
          /\ IF full THEN Continue(s, "flush", r) ELSE Continue(t, "idle", NoRequest)
      BY <1>5, <1>14
    <2>2. UNCHANGED <<jvars, disk, pc, cur, tail, nmac, reserved>>
      BY <2>1 DEF MarkUpdated
    <2>3. CASE full
      BY <1>5, <1>7, <1>8, <1>9, <2>1, <2>2, <2>3, ContinueInv
    <2>4. CASE ~ full
      <3>1. NoRequest.parts \in SUBSET Part /\ NoRequest.v \in Value \cup {Zero}
        BY DEF NoRequest
      <3>2. ~ Tainted => Sound(t.ind, t.map)
        BY <1>11, <2>4
      <3>3. PICK q : q = NoRequest
        OBVIOUS
      <3> QED BY <1>5, <1>7, <1>10, <2>1, <2>2, <2>4, <3>1, <3>2, <3>3, ContinueInv
    <2> QED BY <2>3, <2>4
  <1> QED BY <1>12, <1>13, <1>14

(* The rest of do_write after select_new_macroblock selected a block. *)
LEMMA FlushCopyInv ==
  ASSUME DataInv, BlockOK, BlockOK', FlushCopy
  PROVE  DataInv'
  <1>1. PICK r, s : r = req /\ s = CopyOldBlock
    OBVIOUS
  <1>2. PICK e : e = s.map[r.o]
    OBVIOUS
  <1>3. PICK t : t = Placed(s, r, e)
    OBVIOUS
  <1>4. PICK full \in BOOLEAN : full = (Len(s.ind[cur].off) = MMPM)
    OBVIOUS
  <1>5. /\ op = "copy" /\ pc = "open"
        /\ IF ~ s.ok \/ (~ full /\ ~ t.ok) THEN Die("abort")
           ELSE /\ IF full THEN Continue(s, "flush", r)
                   ELSE Continue(t, "idle", NoRequest)
                /\ UNCHANGED <<bvars, outinit>>
    BY <1>1, <1>2, <1>3, <1>4, Zenon DEF FlushCopy
  <1>6. /\ Scubed3TypeOK /\ IsOpen /\ cur \in Block /\ cur # NoBlock
        /\ outinit = TRUE /\ r.o \in DOMAIN map
        /\ r.parts \in SUBSET Part /\ r.v \in Value \cup {Zero}
    BY <1>1, <1>5 DEF DataInv, IsOpen, ControlOK, Scubed3TypeOK, BlockioTypeOK
  <1>7. LoopOK(s, MMPM)
    BY <1>1, <1>6, CopyLoop
  <1>8. /\ StateOK(s)
        /\ ~ Tainted => s.ok /\ Sound(s.ind, s.map)
    <2>1. ~ Tainted => CopyStart
      BY <1>5, <1>6 DEF DataInv, FreshOK, DiskOK, CopyStart
    <2> QED BY <1>7, <2>1 DEF LoopOK
  <1>9. e \in Place /\ IsRequest(r)
    BY <1>2, <1>6, <1>8 DEF StateOK, IsRequest
  <1>10. StateOK(t)
    <2>1. PlacedOK(s, r, e, t)
      BY <1>3, <1>6, <1>8, <1>9, PlacedFacts
    <2> QED BY <2>1 DEF PlacedOK
  <1>11. ASSUME ~ Tainted, ~ full PROVE t.ok /\ Sound(t.ind, t.map)
    <2>1. s.ok /\ Sound(s.ind, s.map) /\ t = Placed(s, r, s.map[r.o])
      BY <1>2, <1>3, <1>8, <1>11
    <2>2. s.map[r.o].b # cur => Len(s.ind[cur].off) # MMPM
      BY <1>4, <1>11
    <2> QED BY <1>6, <1>8, <1>9, <2>1, <2>2, PlacedSound
  <1>12. CASE ~ s.ok \/ (~ full /\ ~ t.ok)
    <2>1. Tainted
      BY <1>8, <1>11, <1>12
    <2>2. Die("abort")
      BY <1>5, <1>12
    <2> QED BY <2>1, <2>2, DieInv
  <1>13. CASE ~ (~ s.ok \/ (~ full /\ ~ t.ok))
    <2>1. UNCHANGED <<bvars, outinit>>
          /\ IF full THEN Continue(s, "flush", r) ELSE Continue(t, "idle", NoRequest)
      BY <1>5, <1>13
    <2>2. UNCHANGED <<jvars, disk, pc, cur, tail, nmac, reserved>> /\ outinit' = TRUE
      BY <1>6, <2>1 DEF bvars, devvars
    <2>3. CASE full
      BY <1>5, <1>6, <1>8, <1>9, <2>1, <2>2, <2>3, ContinueInv
    <2>4. CASE ~ full
      <3>1. NoRequest.parts \in SUBSET Part /\ NoRequest.v \in Value \cup {Zero}
        BY DEF NoRequest
      <3>2. ~ Tainted => Sound(t.ind, t.map)
        BY <1>11, <2>4
      <3>3. PICK q : q = NoRequest
        OBVIOUS
      <3> QED BY <1>5, <1>6, <1>10, <2>1, <2>2, <2>4, <3>1, <3>2, <3>3, ContinueInv
    <2> QED BY <2>3, <2>4
  <1> QED BY <1>12, <1>13

(* select_new_macroblock writes the full block. *)
LEMMA FlushCurrentInv ==
  ASSUME DataInv, BlockOK, BlockOK', FlushCurrent
  PROVE  DataInv'
  <1>1. /\ op = "flush" /\ pc = "open" /\ WriteForNext /\ WriteContents(Now)
        /\ UNCHANGED <<outinit, op, req, died>>
    BY DEF FlushCurrent
  <1>2. Scubed3TypeOK /\ IsOpen
    BY <1>1 DEF DataInv, IsOpen
  <1>3. cur \in Block
    BY <1>1, <1>2 DEF WriteForNext, WriteCurrent, Scubed3TypeOK, BlockioTypeOK
  <1>4. PICK s : s = Now
    OBVIOUS
  <1>5. StateOK(s) /\ s.ind = ind /\ s.map = map
    BY <1>2, <1>4, NowType DEF Now
  <1>6. ~ Tainted => Sound(s.ind, s.map)
    BY <1>2, <1>5 DEF DataInv
  <1> QED BY <1>1, <1>3, <1>4, <1>5, <1>6, WriteInv

(* scubed3_cycle. *)
LEMMA CycleInv ==
  ASSUME DataInv, BlockOK, BlockOK', Cycle
  PROVE  DataInv'
  <1>1. PICK s : s = InitializedOutput
    OBVIOUS
  <1>2. /\ op = "idle" /\ pc = "open"
        /\ IF cur = NoBlock THEN Die("null")
           ELSE IF ~ s.ok THEN Die("abort")
           ELSE /\ WriteForNext
                /\ WriteContents(s)
                /\ op' = "cycled"
                /\ UNCHANGED <<outinit, req, died>>
    BY <1>1, Zenon DEF Cycle
  <1>3. CASE cur = NoBlock
    BY <1>2, <1>3, DieInv
  <1>4. CASE cur # NoBlock
    <2>1. cur \in Block
      BY <1>4 DEF DataInv, Scubed3TypeOK, BlockioTypeOK
    <2>2. StateOK(s) /\ (~ Tainted => s.ok /\ Sound(s.ind, s.map))
      BY <1>1, <1>2, <2>1, OutputFacts
    <2>3. CASE ~ s.ok
      <3>1. Die("abort") /\ Tainted
        BY <1>2, <1>4, <2>2, <2>3
      <3> QED BY <3>1, DieInv
    <2>4. CASE s.ok
      <3>1. /\ WriteForNext /\ WriteContents(s) /\ op' = "cycled"
            /\ UNCHANGED <<outinit, req, died>>
        BY <1>2, <1>4, <2>4
      <3> QED BY <2>1, <2>2, <3>1, WriteInv
    <2> QED BY <2>3, <2>4
  <1> QED BY <1>3, <1>4

(* control_create. *)
LEMMA CreateInv ==
  ASSUME DataInv, BlockOK, BlockOK', CreatePartition
  PROVE  DataInv'
  <1>1. /\ pc = "closed" /\ Signed(disk) = {} /\ pc' = "open" /\ died' = "no"
        /\ UNCHANGED <<jvars, disk, devvars, ind, store, map, ram, outinit, op, req, hist>>
    BY DEF CreatePartition, Create
  <1>2. /\ scheduled = {} /\ cur = NoBlock /\ nmac = 0 /\ map = EmptyMap
        /\ ind = [b \in Block |-> [off |-> <<>>, live |-> 0]]
        /\ ~ outinit /\ op = "idle"
    BY <1>1 DEF BlockOK, DataInv, ControlOK, IsOpen
  <1>3. Scubed3TypeOK'
    <2>1. BlockioTypeOK'
      BY DEF BlockOK
    <2> QED BY <1>1, <2>1 DEF DataInv, Scubed3TypeOK
  <1>4. Size' = 0 /\ nmac' <= reserved' /\ nmac' = 0
    <2>1. nmac' = 0 /\ reserved' \in Nat
      BY <1>1, <1>2, <1>3 DEF devvars, Scubed3TypeOK, BlockioTypeOK
    <2> QED BY <2>1, SizeFacts DEF Size
  <1>5. DOMAIN map' = {} /\ cur' = NoBlock /\ scheduled' = {}
    BY <1>1, <1>2 DEF EmptyMap, devvars, jvars
  <1>6. ControlOK'
    BY <1>1, <1>2, <1>4, <1>5 DEF DataInv, ControlOK, IsOpen
  <1>7. ~ Tainted' => DiskOK'
    <2>1. ~ Tainted' => DiskOK
      BY <1>1 DEF Tainted, DataInv
    <2> QED BY <1>1, <2>1, DiskSame
  <1>8. Sound(ind, map)'
    <2>1. CountsOK(ind, map)'
      <3>1. ASSUME NEW b \in Block PROVE Mapped(map', b) = {}
        BY <1>5 DEF Mapped
      <3>2. \A b \in Block : ind'[b].live = 0 /\ ind'[b].off = <<>>
        BY <1>1, <1>2
      <3>3. \A b \in Block \ {cur'} :
              /\ ind'[b].live = Cardinality(Mapped(map', b))
              /\ ind'[b].off = IF ind'[b].live = 0 THEN <<>> ELSE store'[b].off
        BY <3>1, <3>2, FS_EmptySet
      <3> QED BY <3>3, Zenon DEF CountsOK
    <2>2. CurrentOK(ind, map)' /\ FoundOnDisk(map)'
      BY <1>5, Zenon DEF CurrentOK, FoundOnDisk
    <2>3. LatestFound(map)'
      BY <1>1, Zenon DEF LatestFound
    <2> QED BY <2>1, <2>2, <2>3, Zenon DEF Sound
  <1>9. TailOK' /\ FreshOK' /\ Grown'
    BY <1>1, <1>5 DEF TailOK, FreshOK, Grown
  <1>10. AssertionsHold'
    BY <1>1 DEF AssertionsHold
  <1> QED BY <1>3, <1>6, <1>7, <1>8, <1>9, <1>10, Zenon DEF DataInv

(* Nothing is found in the block that is selected. *)
LEMMA SelectedEmpty ==
  ASSUME DataInv, BlockOK, ~ Tainted, IsOpen, cur = NoBlock, NEW b \in Candidates
  PROVE  Mapped(map, b) = {}
  <1>1. Scubed3TypeOK /\ Sound(ind, map) /\ TailOK
    BY DEF DataInv
  <1>2. CASE b \in scheduled /\ bnext[b] = seqno + 1
    BY <1>1, <1>2 DEF TailOK
  <1>3. CASE b \in unscheduled
    <2>1. b \notin Signed(disk) /\ b \in Block
      BY <1>1, <1>3 DEF BlockOK, Scubed3TypeOK, BlockioTypeOK, JugglerTypeOK
    <2> QED BY <1>1, <2>1, Counting DEF Sound, FoundOnDisk, Mapped
  <1> QED BY <1>2, <1>3 DEF Candidates, Obsoleted, OwnerOf

(* blockio_dev_select_next_macroblock: the block that is selected holds    *)
(* nothing.                                                                *)
LEMMA SelectInv ==
  ASSUME DataInv, BlockOK, BlockOK', SelectNext
  PROVE  DataInv'
  <1>0. PICK b \in Block : \E n \in NextSlots(b) : Select(b, n)
    BY DEF SelectNext
  <1>1. PICK n \in NextSlots(b) : Select(b, n)
    BY <1>0
  <1>2. /\ pc \in {"select", "selectResized"} /\ pc' = "open" /\ cur' = b
        /\ GetDevblock(b, n)
        /\ tail' = IF \E c \in scheduled' : bnext'[c] = seqno' + 1
                   THEN CHOOSE c \in scheduled' : bnext'[c] = seqno' + 1
                   ELSE NoBlock
        /\ UNCHANGED <<disk, used, nmac, reserved>>
    BY <1>1 DEF Select
  <1>3. /\ op' = (IF op = "flush" THEN "copy" ELSE "idle")
        /\ outinit' = (op = "flush" /\ outinit)
        /\ UNCHANGED <<ind, store, map, ram, req, died, hist>>
    BY DEF SelectNext
  <1>4. Scubed3TypeOK /\ ControlOK /\ IsOpen /\ cur = NoBlock /\ b # NoBlock
        /\ DOMAIN map = 0..(Size - 1)
    BY <1>2, Counting DEF DataInv, IsOpen, BlockOK, ControlOK
  <1>5. Scubed3TypeOK'
    <2>1. BlockioTypeOK'
      BY DEF BlockOK
    <2> QED BY <1>3, <1>4, <2>1 DEF Scubed3TypeOK
  <1>6. ControlOK'
    <2>1. Size' = Size /\ IsOpen'
      BY <1>2 DEF Size, IsOpen
    <2> QED BY <1>2, <1>3, <1>4, <2>1 DEF ControlOK
  <1>7. ASSUME ~ Tainted'
        PROVE  DiskOK' /\ Sound(ind, map)' /\ TailOK' /\ FreshOK' /\ Grown'
    <2>1. DiskOK /\ Sound(ind, map) /\ TailOK /\ Grown
      BY <1>3, <1>4, <1>7 DEF Tainted, DataInv
    <2>2. DiskOK'
      BY <1>2, <1>3, <2>1, DiskSame
    <2>3. Mapped(map, b) = {}
      <3>1. b \in Candidates /\ ~ Tainted
        BY <1>2, <1>3, <1>7 DEF GetDevblock, Tainted
      <3> QED BY <1>4, <3>1, SelectedEmpty
    <2>4. ind[b].off = <<>>
      <3>1. DOMAIN map \subseteq Offset
        BY <1>4 DEF Scubed3TypeOK
      <3>2. Cardinality(Mapped(map, b)) = 0
        BY <2>3, <3>1, MappedFinite
      <3> QED BY <1>4, <2>1, <3>2 DEF Sound, CountsOK
    <2>5. CountsOK(ind, map)'
      <3>1. \A c \in Block \ {cur'} :
              /\ ind'[c].live = Cardinality(Mapped(map', c))
              /\ ind'[c].off = IF ind'[c].live = 0 THEN <<>> ELSE store'[c].off
        <4>1. NoBlock \notin Block
          BY BlockAssumption
        <4>2. \A c \in Block : c # cur
          BY <1>4, <4>1
        <4>3. \A c \in Block :
                /\ ind[c].live = Cardinality(Mapped(map, c))
                /\ ind[c].off = IF ind[c].live = 0 THEN <<>> ELSE store[c].off
          BY <2>1, <4>2, Zenon DEF Sound, CountsOK
        <4> QED BY <1>3, <4>3
      <3> QED BY <3>1, Zenon DEF CountsOK
    <2>6. CurrentOK(ind, map)'
      <3>1. DOMAIN ind'[cur'].off = {} /\ Mapped(map', cur') = {}
        BY <1>2, <1>3, <2>3, <2>4
      <3> QED BY <3>1, Zenon DEF CurrentOK
    <2>7. FoundOnDisk(map)'
      BY <1>2, <1>3, <1>4, <2>1 DEF Sound, FoundOnDisk
    <2>8. LatestFound(map)'
      <3> SUFFICES ASSUME NEW c \in Signed(disk), NEW k \in DOMAIN store[c].off,
                          NEW o, o = store[c].off[k]
                   PROVE  /\ o \in DOMAIN map /\ map[o].b # NoBlock
                          /\ disk[map[o].b].seq >= disk[c].seq
        BY <1>2, <1>3 DEF LatestFound
      <3>1. PICK m : m = map
        OBVIOUS
      <3>2. LatestFound(m) /\ c \in Signed(disk) \ {cur}
        BY <1>4, <2>1, <3>1, Counting DEF Sound, Signed
      <3>3. /\ o \in DOMAIN m /\ m[o].b # NoBlock
            /\ m[o].b = cur \/ disk[m[o].b].seq >= disk[c].seq
        BY <3>2, LatestAt
      <3> QED BY <1>4, <3>1, <3>3
    <2>9. TailOK'
      <3>1. \A x, y \in scheduled' : bnext'[x] = bnext'[y] => x = y
        BY DEF BlockOK, ScheduleSound, SlotsUnique
      <3>2. cur' # NoBlock
        BY <1>2, <1>4
      <3>3. scheduled' \subseteq Block
        BY <1>5 DEF Scubed3TypeOK, BlockioTypeOK, JugglerTypeOK
      <3>4. CASE \E c \in scheduled' : bnext'[c] = seqno' + 1
        <4>1. tail' = CHOOSE c \in scheduled' : bnext'[c] = seqno' + 1
          BY <1>2, <3>4
        <4>2. tail' \in scheduled' /\ bnext'[tail'] = seqno' + 1
          BY <3>4, <4>1
        <4> QED BY <3>1, <3>2, <4>2 DEF TailOK
      <3>5. CASE ~ \E c \in scheduled' : bnext'[c] = seqno' + 1
        <4>1. tail' = NoBlock
          BY <1>2, <3>5
        <4> QED BY <3>2, <3>5, <4>1 DEF TailOK
      <3> QED BY <3>4, <3>5
    <2>10. FreshOK'
      BY <1>2, <1>3, <2>4 DEF FreshOK
    <2>11. Grown'
      BY <1>2, <2>1 DEF Grown, Size
    <2> QED BY <2>2, <2>5, <2>6, <2>7, <2>8, <2>9, <2>10, <2>11, Zenon DEF Sound
  <1>8. AssertionsHold'
    BY <1>3 DEF DataInv, AssertionsHold, Tainted
  <1> QED BY <1>5, <1>6, <1>7, <1>8, Zenon DEF DataInv

(* Headers on disk: types. *)
LEMMA HeaderFacts ==
  ASSUME BlockOK, NEW b \in Signed(disk)
  PROVE  /\ b \in Block /\ disk[b].seq \in Nat /\ disk[b].next \in Nat
         /\ disk[b].nmac \in Nat /\ disk[b].reserved \in Nat
         /\ SizeOf(disk[b]) \in Nat
         /\ 0..(SizeOf(disk[b]) - 1) \subseteq Offset
  <1>1. b \in Block /\ disk[b] \in Header
    BY DEF Signed, BlockOK, BlockioTypeOK
  <1>2. PICK h \in Header : h = disk[b]
    BY <1>1
  <1>3. /\ h.seq \in Nat /\ h.next \in Nat /\ h.nmac \in Nat /\ h.reserved \in Nat
        /\ h.used \in SUBSET Block
    BY DEF Header
  <1>4. h.nmac <= Cardinality(Block)
    <2>1. h.nmac = Cardinality(h.used)
      BY <1>2 DEF BlockOK
    <2> QED BY <1>3, <2>1, Counting
  <1>5. SizeOf(h) \in Nat /\ 0..(SizeOf(h) - 1) \subseteq Offset
    BY <1>3, <1>4, SizeFacts DEF SizeOf
  <1> QED BY <1>1, <1>2, <1>3, <1>5

(* control_open: the RAM is what replay reads from the disk. *)
LEMMA OpenInv ==
  ASSUME DataInv, BlockOK, BlockOK', OpenPartition
  PROVE  DataInv'
  <1>1. Load /\ died' = "no" /\ UNCHANGED <<store, ram, outinit, op, req, hist>>
        /\ pc' # "fatal"
    BY DEF OpenPartition, BlockOK
  <1>2. PICK m \in Block :
          /\ IsNewest(disk, m)
          /\ IF CountMismatch(m) \/ HeadersClash(m)
             THEN pc' = "fatal" /\ UNCHANGED <<jvars, devvars, warned>>
             ELSE /\ scheduled' = Signed(disk)
                  /\ unscheduled' = Claimed(m)
                  /\ seqno' = RestoredSeqno(m)
                  /\ bseq' = DiskSeq(disk)
                  /\ bnext' = DiskNext(disk)
                  /\ used' = disk[m].used
                  /\ nmac' = disk[m].nmac
                  /\ reserved' = disk[m].reserved
                  /\ warned' = (SeqnosHash(Signed(disk), DiskSeq(disk),
                                           DiskNext(disk)) # disk[m].hash)
                  /\ pc' = IF disk[m].nmac > disk[m].reserved
                           THEN "select" ELSE "open"
                  /\ UNCHANGED <<cur, tail, updated>>
    BY <1>1, Zenon DEF Load
  <1>3. /\ scheduled' = Signed(disk) /\ seqno' = disk[m].seq
        /\ bnext' = DiskNext(disk)
        /\ nmac' = disk[m].nmac /\ reserved' = disk[m].reserved
        /\ pc' = IF disk[m].nmac > disk[m].reserved THEN "select" ELSE "open"
        /\ cur' = cur
    BY <1>1, <1>2 DEF RestoredSeqno
  <1>4. pc = "closed" /\ disk' = disk
    BY <1>1 DEF Load
  <1>5. PICK mm : mm = ReplayedMap(SizeOf(disk[m]))
    OBVIOUS
  <1>6. map' = mm /\ ind' = [b \in Block |-> ReplayedInd(mm, b)]
    BY <1>1, <1>3, <1>5 DEF OpenPartition, SizeOf
  <1>7. m \in Signed(disk)
    BY <1>2 DEF IsNewest
  <1>8. /\ disk[m].nmac \in Nat /\ disk[m].reserved \in Nat /\ SizeOf(disk[m]) \in Nat
        /\ 0..(SizeOf(disk[m]) - 1) \subseteq Offset
    BY <1>7, HeaderFacts
  <1>9. Scubed3TypeOK /\ ControlOK /\ cur = NoBlock /\ ~ IsOpen
    BY <1>4 DEF DataInv, BlockOK, IsOpen
  <1>10. DOMAIN mm = 0..(SizeOf(disk[m]) - 1) /\ \A o \in DOMAIN mm : mm[o] \in Place
    <2>1. \A o : Replayed(o) \in Place
      BY <1>2, <1>9, ReplayedFacts
    <2> QED BY <1>5, <2>1 DEF ReplayedMap
  <1>11. Scubed3TypeOK'
    <2>1. BlockioTypeOK'
      BY DEF BlockOK
    <2>2. ind' \in [Block -> Indices]
      BY <1>6, <1>9, ReplayedIndType
    <2>3. DOMAIN map' \subseteq Offset /\ \A o \in DOMAIN map' : map'[o] \in Place
      BY <1>6, <1>8, <1>10
    <2> QED BY <1>1, <1>9, <2>1, <2>2, <2>3 DEF Scubed3TypeOK, Indices, Place
  <1>12. IsOpen' /\ Size' = SizeOf(disk[m])
    BY <1>3 DEF IsOpen, Size, SizeOf
  <1>13. ControlOK'
    BY <1>1, <1>3, <1>6, <1>8, <1>9, <1>10, <1>12 DEF ControlOK
  <1>14. ASSUME ~ Tainted'
         PROVE  DiskOK' /\ Sound(ind, map)' /\ TailOK' /\ FreshOK' /\ Grown'
    <2>1. DiskOK
      BY <1>1, <1>14 DEF Tainted, DataInv
    <2>2. DiskOK'
      BY <1>1, <1>4, <2>1, DiskSame
    <2>3. PICK i : i = [b \in Block |-> ReplayedInd(mm, b)]
      OBVIOUS
    <2>4. /\ Sound(i, mm)
          /\ \A b \in Signed(disk) : disk[b].next = disk[m].seq + 1 => Mapped(mm, b) = {}
      BY <1>2, <1>5, <1>8, <1>9, <2>1, <2>3, ReplaySound
    <2>5. Sound(ind, map)'
      BY <1>1, <1>3, <1>4, <1>6, <2>3, <2>4, SoundSame
    <2>6. cur' = NoBlock
      BY <1>3, <1>9
    <2>7. TailOK'
      <3>1. \A b \in Signed(disk) : DiskNext(disk)[b] = disk[b].next
        BY DEF DiskNext, Signed
      <3>2. \A b \in scheduled' : bnext'[b] = seqno' + 1 => Mapped(map', b) = {}
        BY <1>3, <1>6, <2>4, <3>1
      <3> QED BY <2>6, <3>2 DEF TailOK
    <2>8. FreshOK'
      BY <2>6 DEF FreshOK
    <2>9. Grown'
      <3>1. \A b \in Signed(disk) : SizeOf(disk[b]) <= SizeOf(disk[m])
        BY <1>2, <1>7, <2>1 DEF DiskOK, IsNewest
      <3> QED BY <1>4, <1>12, <3>1 DEF Grown
    <2> QED BY <2>2, <2>5, <2>7, <2>8, <2>9
  <1>15. AssertionsHold'
    BY <1>1 DEF AssertionsHold
  <1> QED BY <1>11, <1>13, <1>14, <1>15, Zenon DEF DataInv

(* Mesoblocks that are nowhere change nothing. *)
LEMMA ExtendedSound ==
  ASSUME NEW i, NEW m, Sound(i, m), NEW mm, cur \in Block \cup {NoBlock},
         DOMAIN m \subseteq DOMAIN mm, \A o \in DOMAIN m : mm[o] = m[o],
         \A o \in DOMAIN mm \ DOMAIN m : mm[o] = Unmapped
  PROVE  Sound(i, mm) /\ \A b \in Block : Mapped(mm, b) = Mapped(m, b)
  <1>1. \A o \in DOMAIN mm : mm[o].b # NoBlock => o \in DOMAIN m /\ mm[o] = m[o]
    BY DEF Unmapped
  <1>2. \A b \in Block : Mapped(mm, b) = Mapped(m, b)
    BY <1>1, Counting DEF Mapped
  <1>3. CountsOK(i, mm)
    <2>1. CountsOK(i, m)
      BY DEF Sound
    <2> QED BY <1>2, <2>1 DEF CountsOK
  <1>4. CurrentOK(i, mm)
    <2> SUFFICES ASSUME cur # NoBlock
                 PROVE  /\ \A k \in DOMAIN i[cur].off :
                             /\ i[cur].off[k] \in DOMAIN mm
                             /\ mm[i[cur].off[k]] = [b |-> cur, k |-> k]
                        /\ \A o \in Mapped(mm, cur) :
                             mm[o].k \in DOMAIN i[cur].off /\ i[cur].off[mm[o].k] = o
      BY DEF CurrentOK
    <2>1. CurrentOK(i, m) /\ Mapped(mm, cur) = Mapped(m, cur)
      BY <1>2 DEF Sound
    <2>2. \A o \in Mapped(m, cur) : mm[o] = m[o]
      BY DEF Mapped
    <2> QED BY <2>1, <2>2 DEF CurrentOK
  <1>5. FoundOnDisk(mm)
    <2>1. FoundOnDisk(m)
      BY DEF Sound
    <2> QED BY <1>1, <2>1 DEF FoundOnDisk
  <1>6. LatestFound(mm)
    <2>1. LatestFound(m)
      BY DEF Sound
    <2> QED BY <2>1 DEF LatestFound
  <1> QED BY <1>2, <1>3, <1>4, <1>5, <1>6 DEF Sound

(* control_resize. *)
LEMMA ResizeInv ==
  ASSUME DataInv, BlockOK, BlockOK', ResizePartition
  PROVE  DataInv'
  <1>1. op = "idle" /\ \E X \in SUBSET Block : \E r : Resize(X, r)
    BY DEF ResizePartition
  <1>2. PICK X \in SUBSET Block : \E r : Resize(X, r)
    BY <1>1
  <1>3. PICK r : Resize(X, r)
    BY <1>2
  <1>4. /\ pc = "open" /\ X \subseteq Block \ used /\ X # {}
        /\ r \in 0..(nmac + Cardinality(X)) /\ UNCHANGED <<disk, hiseq, torn>>
        /\ IF nmac > reserved /\ nmac + Cardinality(X) - r < nmac - reserved
           THEN DeviceGone /\ pc' = "closed"
           ELSE /\ unscheduled' = unscheduled \cup X
                /\ bseq' = [b \in Block |-> IF b \in X THEN 0 ELSE bseq[b]]
                /\ bnext' = [b \in Block |-> IF b \in X THEN 0 ELSE bnext[b]]
                /\ used' = used \cup X
                /\ nmac' = nmac + Cardinality(X)
                /\ reserved' = r
                /\ IF cur = NoBlock
                   THEN pc' = "selectResized" /\ UNCHANGED updated
                   ELSE updated' = TRUE /\ UNCHANGED pc
                /\ UNCHANGED <<scheduled, seqno, cur, tail, warned>>
    BY <1>3, Zenon DEF Resize
  <1>5. Scubed3TypeOK /\ ControlOK /\ IsOpen
    BY <1>4 DEF DataInv, IsOpen
  <1>6. UNCHANGED <<store, died, hist>>
    BY DEF ResizePartition
  <1>7. ~ Tainted' => DiskOK'
    <2>1. ~ Tainted' => DiskOK
      BY <1>6 DEF Tainted, DataInv
    <2> QED BY <1>4, <1>6, <2>1, DiskSame
  <1>8. AssertionsHold'
    BY <1>6 DEF DataInv, AssertionsHold, Tainted
  <1>9. CASE pc' = "closed"
    <2>1. PartitionGone
      BY <1>9 DEF ResizePartition
    <2>2. store' \in StoreType /\ died' \in {"no", "abort", "unlock", "null"}
          /\ hist' \in [self : BOOLEAN, skip : BOOLEAN]
      BY <1>5, <1>6 DEF Scubed3TypeOK, StoreType
    <2> QED BY <1>7, <1>8, <1>9, <2>1, <2>2, GoneInv
  <1>10. CASE pc' # "closed"
    <2>1. ~ (nmac > reserved /\ nmac + Cardinality(X) - r < nmac - reserved)
      BY <1>4, <1>10
    <2>2. /\ bnext' = [b \in Block |-> IF b \in X THEN 0 ELSE bnext[b]]
          /\ nmac' = nmac + Cardinality(X) /\ reserved' = r
          /\ UNCHANGED <<scheduled, seqno, cur, tail>>
          /\ IF cur = NoBlock THEN pc' = "selectResized" ELSE pc' = pc
      BY <1>4, <2>1
    <2>3. /\ map' = [o \in 0..(Size' - 1) |->
                       IF o \in DOMAIN map THEN map[o] ELSE Unmapped]
          /\ UNCHANGED <<ind, store, ram, outinit, op, req, died, hist>>
      BY <1>10 DEF ResizePartition, Size
    <2>4. nmac \in Nat /\ reserved \in Nat /\ r \in Nat /\ Cardinality(X) \in Nat
          /\ nmac + Cardinality(X) \in Nat
      <3>1. nmac \in Nat /\ reserved \in Nat /\ Cardinality(X) \in Nat
        BY <1>5, Counting DEF Scubed3TypeOK, BlockioTypeOK
      <3> QED BY <1>4, <3>1
    <2>5. nmac' <= Cardinality(Block) /\ nmac' \in Nat /\ reserved' \in Nat
      <3>1. IsOpen'
        BY <1>4, <2>2 DEF IsOpen
      <3>2. nmac' = Cardinality(used') /\ used' \in SUBSET Block
        BY <3>1 DEF BlockOK, BlockioTypeOK
      <3> QED BY <2>2, <2>4, <3>2, Counting
    <2>6. Size \in Nat /\ Size' \in Nat /\ Size <= Size' /\ 0..(Size' - 1) \subseteq Offset
      <3>1. PICK a, c \in Nat : a = nmac' /\ c = reserved'
        BY <2>5
      <3>2. nmac > reserved => a - c >= nmac - reserved
        BY <2>1, <2>2, <2>4, <3>1
      <3>3. NoBlockIndices(nmac, reserved) <= NoBlockIndices(a, c)
            /\ NoBlockIndices(nmac, reserved) \in Nat
        BY <2>4, <3>2, SizeFacts
      <3>4. NoBlockIndices(a, c) \in Nat /\ 0..(NoBlockIndices(a, c) - 1) \subseteq Offset
        BY <2>5, <3>1, SizeFacts
      <3> QED BY <3>1, <3>3, <3>4 DEF Size
    <2>7. DOMAIN map = 0..(Size - 1) /\ DOMAIN map' = 0..(Size' - 1)
      BY <1>5, <2>3 DEF ControlOK
    <2>8. /\ DOMAIN map \subseteq DOMAIN map'
          /\ \A o \in DOMAIN map : map'[o] = map[o]
          /\ \A o \in DOMAIN map' \ DOMAIN map : map'[o] = Unmapped
      <3>1. DOMAIN map \subseteq DOMAIN map'
        <4>1. PICK p, q \in Nat : p = Size /\ q = Size'
          BY <2>6
        <4>2. p <= q
          BY <2>6, <4>1
        <4>3. \A o \in 0..(p - 1) : o \in 0..(q - 1)
          BY <4>2
        <4> QED BY <2>7, <4>1, <4>3
      <3> QED BY <2>3, <2>7, <3>1
    <2>9. Scubed3TypeOK'
      <3>1. BlockioTypeOK'
        BY DEF BlockOK
      <3>2. DOMAIN map' \subseteq Offset /\ \A o \in DOMAIN map' : map'[o] \in Place
        BY <1>5, <2>6, <2>7, <2>8 DEF Scubed3TypeOK, Place
      <3> QED BY <1>5, <2>3, <3>1, <3>2 DEF Scubed3TypeOK, Place
    <2>10. ControlOK'
      <3>1. IsOpen'
        BY <1>4, <2>2 DEF IsOpen
      <3> QED BY <1>1, <1>5, <2>2, <2>3, <2>7, <3>1 DEF ControlOK
    <2>11. ASSUME ~ Tainted'
           PROVE  Sound(ind, map)' /\ TailOK' /\ FreshOK' /\ Grown'
      <3>1. Sound(ind, map) /\ TailOK /\ FreshOK /\ Grown
        BY <1>5, <1>6, <2>11 DEF Tainted, DataInv
      <3>2. cur \in Block \cup {NoBlock} /\ scheduled \subseteq Block
        BY <1>5 DEF Scubed3TypeOK, BlockioTypeOK, JugglerTypeOK
      <3>3. PICK mm : mm = map'
        OBVIOUS
      <3>4. Sound(ind, mm) /\ \A b \in Block : Mapped(mm, b) = Mapped(map, b)
        BY <2>8, <3>1, <3>2, <3>3, ExtendedSound
      <3>5. Sound(ind, map)'
        BY <1>4, <2>2, <2>3, <3>3, <3>4, SoundSame
      <3>6. \A b \in scheduled : b \in Block /\ bnext'[b] = bnext[b]
        <4>1. scheduled \cap X = {}
          BY <1>4, <1>5 DEF BlockOK
        <4> QED BY <2>2, <3>2, <4>1
      <3>7. TailOK'
        <4>1. \A b \in scheduled : Mapped(map', b) = Mapped(map, b)
          BY <3>3, <3>4, <3>6
        <4>2. scheduled' = scheduled /\ seqno' = seqno /\ cur' = cur /\ tail' = tail
          BY <2>2
        <4>3. CASE cur = NoBlock
          BY <3>1, <3>6, <4>1, <4>2, <4>3 DEF TailOK
        <4>4. CASE cur # NoBlock
          BY <3>1, <3>6, <4>2, <4>4 DEF TailOK
        <4> QED BY <4>3, <4>4
      <3>8. FreshOK'
        BY <2>2, <2>3, <3>1 DEF FreshOK
      <3>9. Grown'
        <4>1. \A b \in Signed(disk) : SizeOf(disk[b]) \in Nat /\ SizeOf(disk[b]) <= Size
          BY <3>1, HeaderFacts DEF Grown
        <4>2. \A b \in Signed(disk) : SizeOf(disk[b]) <= Size'
          BY <2>6, <4>1
        <4> QED BY <1>4, <4>2 DEF Grown
      <3> QED BY <3>5, <3>7, <3>8, <3>9
    <2> QED BY <1>7, <1>8, <2>9, <2>10, <2>11, Zenon DEF DataInv
  <1> QED BY <1>9, <1>10

(* control_close: the current block is written if it was updated. *)
LEMMA CloseInv ==
  ASSUME DataInv, BlockOK, BlockOK', ClosePartition
  PROVE  DataInv'
  <1>1. /\ pc = "open" /\ pc' = "closed" /\ PartitionGone /\ died' = died
        /\ IF updated THEN WriteCurrent ELSE UNCHANGED <<disk, hiseq>>
        /\ IF updated
           THEN store' = WrittenContents(Now) /\ hist' = NotedWrite(Now)
           ELSE UNCHANGED <<store, hist>>
    BY DEF ClosePartition, Close
  <1>2. Scubed3TypeOK /\ ControlOK /\ IsOpen
    BY <1>1 DEF DataInv, IsOpen
  <1>3. CASE ~ updated
    <2>1. UNCHANGED <<disk, store, hist>>
      BY <1>1, <1>3
    <2>2. ~ Tainted' => DiskOK'
      <3>1. ~ Tainted' => DiskOK
        BY <2>1 DEF Tainted, DataInv
      <3> QED BY <2>1, <3>1, DiskSame
    <2>3. AssertionsHold'
      BY <1>1, <2>1 DEF DataInv, AssertionsHold, Tainted
    <2>4. store' \in StoreType /\ died' \in {"no", "abort", "unlock", "null"}
          /\ hist' \in [self : BOOLEAN, skip : BOOLEAN]
      BY <1>1, <1>2, <2>1 DEF Scubed3TypeOK, StoreType
    <2> QED BY <1>1, <2>2, <2>3, <2>4, GoneInv
  <1>4. CASE updated
    <2>1. PICK s : s = Now
      OBVIOUS
    <2>2. StateOK(s) /\ s.ind = ind /\ s.map = map
      BY <1>2, <2>1, NowType DEF Now
    <2>3. cur \in Block /\ Written(s) /\ store' = WrittenContents(s) /\ hist' = NotedWrite(s)
      BY <1>1, <1>2, <1>4, <2>1
         DEF WriteCurrent, Written, Scubed3TypeOK, BlockioTypeOK
    <2>4. ASSUME ~ Tainted' PROVE DiskOK'
      <3>1. ~ Tainted /\ Clean(s)
        BY <1>2, <2>2, <2>3, <2>4, NotedClean
      <3>2. DiskOK /\ TailOK /\ Grown /\ Sound(s.ind, s.map)
        BY <1>2, <2>2, <3>1 DEF DataInv
      <3> QED BY <1>1, <1>2, <2>2, <2>3, <3>1, <3>2, WrittenDisk
    <2>5. AssertionsHold'
      <3>1. hist \in [self : BOOLEAN, skip : BOOLEAN]
        BY <1>2 DEF Scubed3TypeOK
      <3>2. (hist.self => hist'.self) /\ (hist.skip => hist'.skip)
        BY <2>3, <3>1 DEF NotedWrite
      <3> QED BY <1>1, <3>2 DEF DataInv, AssertionsHold, Tainted
    <2>6. store' \in StoreType /\ died' \in {"no", "abort", "unlock", "null"}
          /\ hist' \in [self : BOOLEAN, skip : BOOLEAN]
      BY <1>1, <1>2, <2>2, <2>3, WrittenType DEF Scubed3TypeOK
    <2> QED BY <1>1, <2>4, <2>5, <2>6, GoneInv
  <1> QED BY <1>3, <1>4

(* The daemon dies between two steps of a handler. *)
LEMMA CrashInv ==
  ASSUME DataInv, BlockOK', CrashPartition
  PROVE  DataInv'
  <1>1. pc' = "closed" /\ PartitionGone /\ UNCHANGED <<disk, store, died, hist>>
    BY DEF CrashPartition, Crash
  <1>2. ~ Tainted' => DiskOK'
    <2>1. ~ Tainted' => DiskOK
      BY <1>1 DEF Tainted, DataInv
    <2> QED BY <1>1, <2>1, DiskSame
  <1>3. AssertionsHold'
    BY <1>1 DEF DataInv, AssertionsHold, Tainted
  <1>4. store' \in StoreType /\ died' \in {"no", "abort", "unlock", "null"}
        /\ hist' \in [self : BOOLEAN, skip : BOOLEAN]
    BY <1>1 DEF DataInv, Scubed3TypeOK, StoreType
  <1> QED BY <1>1, <1>2, <1>3, <1>4, GoneInv

(* The daemon dies while it writes the current block.  If the block had a  *)
(* header, it was the block that was due after the newest one, and no      *)
(* other block is: the slots of the others lie beyond the seqno of the     *)
(* write.                                                                  *)
LEMMA CrashTornInv ==
  ASSUME DataInv, BlockOK, BlockOK', CrashTornPartition
  PROVE  DataInv'
  <1>1. /\ pc = "open" /\ cur # NoBlock /\ pc' = "closed" /\ PartitionGone
        /\ disk' = [disk EXCEPT ![cur] = NoHeader]
        /\ store' = [store EXCEPT ![cur] = NoContents]
        /\ UNCHANGED <<died, hist>>
    BY DEF CrashTornPartition, CrashTorn
  <1>2. Scubed3TypeOK /\ IsOpen
    BY <1>1 DEF DataInv, IsOpen
  <1>3. PICK c \in Block : c = cur
    BY <1>1, <1>2 DEF Scubed3TypeOK, BlockioTypeOK
  <1>4. disk \in [Block -> Header] /\ store \in StoreType
    BY <1>2 DEF Scubed3TypeOK, BlockioTypeOK, StoreType
  <1>5. /\ disk'[c] = NoHeader /\ store'[c] = NoContents
        /\ \A b \in Block \ {c} : disk'[b] = disk[b] /\ store'[b] = store[b]
    BY <1>1, <1>3, <1>4 DEF StoreType
  <1>6. Signed(disk') = Signed(disk) \ {c} /\ Signed(disk) \subseteq Block
    BY <1>5 DEF Signed, NoHeader
  <1>7. store'[c].off = <<>>
    BY <1>5 DEF NoContents
  <1>8. store' \in StoreType
    <2>1. PICK d : d = Buffer(ZeroContent)
      OBVIOUS
    <2>2. d \in [1..MMPM -> Content]
      BY <2>1 DEF Buffer, ZeroContent, Content
    <2>3. NoContents \in [off : BoundedSeq(Offset, MMPM), data : [1..MMPM -> Content]]
      BY <2>1, <2>2, EmptyOff DEF NoContents
    <2> QED BY <1>1, <1>4, <2>3 DEF StoreType
  <1>9. ASSUME ~ Tainted' PROVE DiskOK'
    <2>1. DiskOK
      BY <1>1, <1>9 DEF Tainted, DataInv
    <2>2. \A b \in Block : IsInjective(store'[b].off)
      <3>1. \A b \in Block \ {c} : IsInjective(store'[b].off)
        BY <1>5, <2>1 DEF DiskOK
      <3>2. IsInjective(store'[c].off)
        BY <1>7 DEF IsInjective
      <3> QED BY <3>1, <3>2
    <2>3. \A b \in Block \ Signed(disk') : store'[b].off = <<>>
      BY <1>5, <1>6, <1>7, <2>1 DEF DiskOK
    <2>4. \A b \in Signed(disk') : \A k \in DOMAIN store'[b].off :
            store'[b].off[k] < SizeOf(disk'[b])
      BY <1>5, <1>6, <2>1 DEF DiskOK
    <2>5. \A b, d \in Signed(disk') :
            disk'[b].seq <= disk'[d].seq => SizeOf(disk'[b]) <= SizeOf(disk'[d])
      BY <1>5, <1>6, <2>1 DEF DiskOK
    <2>6. ASSUME NEW m \in Block, IsNewest(disk', m), NEW b \in Signed(disk'),
                 disk'[b].next = disk'[m].seq + 1
          PROVE  Superseded(b)'
      <3>1. m \in Signed(disk') /\ \A d \in Signed(disk') : disk'[d].seq <= disk'[m].seq
        BY <2>6 DEF IsNewest
      <3>2. b \in Signed(disk) /\ m \in Signed(disk) /\ b # c /\ m # c
            /\ disk[b].next = disk[m].seq + 1
        BY <1>5, <1>6, <2>6, <3>1
      <3>3. c \notin Signed(disk)
        <4> SUFFICES ASSUME c \in Signed(disk) PROVE FALSE
          OBVIOUS
        <4>1. b \in scheduled /\ bnext[b] = disk[b].next /\ disk[m].seq < seqno
          BY <1>1, <1>2, <1>3, <3>2 DEF BlockOK
        <4>2. bnext[b] > seqno
          BY <4>1 DEF BlockOK, ScheduleSound, NoMissedSlot
        <4>3. disk[m].seq \in Nat /\ disk[b].next \in Nat
          BY <3>2, HeaderFacts
        <4>4. seqno \in Nat
          BY <1>2 DEF Scubed3TypeOK, BlockioTypeOK, JugglerTypeOK
        <4> QED BY <3>2, <4>1, <4>2, <4>3, <4>4
      <3>4. Signed(disk') = Signed(disk)
            /\ \A d \in Signed(disk) : disk'[d] = disk[d] /\ store'[d] = store[d]
        BY <1>5, <1>6, <3>3
      <3>5. IsNewest(disk, m)
        BY <3>1, <3>4 DEF IsNewest
      <3>6. Superseded(b)
        BY <2>1, <3>2, <3>5 DEF DiskOK
      <3>7. \A k \in DOMAIN store'[b].off : \E d \in Signed(disk') :
              /\ disk'[d].seq > disk'[b].seq
              /\ \E j \in DOMAIN store'[d].off : store'[d].off[j] = store'[b].off[k]
        BY <3>2, <3>4, <3>6 DEF Superseded
      <3> QED BY <3>7, Zenon DEF Superseded
    <2> QED BY <2>2, <2>3, <2>4, <2>5, <2>6, Zenon DEF DiskOK
  <1>10. AssertionsHold'
    BY <1>1 DEF DataInv, AssertionsHold, Tainted
  <1>11. died' \in {"no", "abort", "unlock", "null"}
         /\ hist' \in [self : BOOLEAN, skip : BOOLEAN]
    BY <1>1, <1>2 DEF Scubed3TypeOK
  <1> QED BY <1>1, <1>8, <1>9, <1>10, <1>11, GoneInv

(* A partition that does not exist yet. *)
LEMMA InitInv == Scubed3Init /\ BlockOK => DataInv
  <1> SUFFICES ASSUME Scubed3Init, BlockOK PROVE DataInv
    OBVIOUS
  <1> USE DEF Scubed3Init
  <1>1. pc = "closed" /\ disk = [b \in Block |-> NoHeader] /\ ~ IsOpen
    BY DEF BlockioInit, IsOpen
  <1>2. Signed(disk) = {}
    BY <1>1 DEF Signed, NoHeader
  <1>3. \A b \in Block : store[b].off = <<>>
    BY DEF NoContents
  <1>4. DiskOK
    <2>1. \A b \in Block : IsInjective(store[b].off)
      BY <1>3 DEF IsInjective
    <2> QED BY <1>2, <1>3, <2>1 DEF DiskOK
  <1>5. Scubed3TypeOK
    <2>1. PICK d : d = Buffer(ZeroContent)
      OBVIOUS
    <2>2. d \in [1..MMPM -> Content]
      BY <2>1 DEF Buffer, ZeroContent, Content
    <2>3. NoContents \in [off : BoundedSeq(Offset, MMPM), data : [1..MMPM -> Content]]
      BY <2>1, <2>2, EmptyOff DEF NoContents
    <2>4. ind \in [Block -> [off : BoundedSeq(Offset, MMPM), live : 0..MMPM]]
      <3>1. 0 \in 0..MMPM
        BY Counting
      <3> QED BY <3>1, EmptyOff
    <2>5. store \in [Block -> [off : BoundedSeq(Offset, MMPM), data : [1..MMPM -> Content]]]
      BY <2>3
    <2>6. DOMAIN map = {}
      BY DEF EmptyMap
    <2> QED BY <2>1, <2>2, <2>4, <2>5, <2>6 DEF Scubed3TypeOK, BlockOK
  <1>6. ControlOK
    BY <1>1 DEF ControlOK, NoRequest, IsOpen
  <1>7. AssertionsHold
    BY DEF AssertionsHold
  <1> QED BY <1>1, <1>4, <1>5, <1>6, <1>7, Zenon DEF DataInv

(* Nothing happens. *)
LEMMA StutterInv ==
  ASSUME DataInv, UNCHANGED vars
  PROVE  DataInv'
  <1>1. UNCHANGED <<jvars, disk, pc, devvars, hiseq, torn, warned, ind, store, map, ram,
                    outinit, op, req, died, hist>>
    BY DEF vars, bvars, svars
  <1>2. UNCHANGED <<scheduled, unscheduled, seqno, bseq, bnext, cur, tail, updated, used,
                    nmac, reserved>>
    BY <1>1 DEF jvars, devvars
  <1>3. Scubed3TypeOK'
    BY <1>1, <1>2 DEF DataInv, Scubed3TypeOK, BlockioTypeOK, JugglerTypeOK
  <1>4. IsOpen' = IsOpen /\ Size' = Size /\ Tainted' = Tainted
    BY <1>1, <1>2 DEF IsOpen, Size, Tainted
  <1>5. ControlOK'
    BY <1>1, <1>2, <1>4 DEF DataInv, ControlOK
  <1>6. ~ Tainted' => DiskOK'
    BY <1>1, <1>4, DiskSame DEF DataInv
  <1>7. ASSUME ~ Tainted', IsOpen'
        PROVE  Sound(ind, map)' /\ TailOK' /\ FreshOK' /\ Grown'
    <2>1. Sound(ind, map) /\ TailOK /\ FreshOK /\ Grown
      BY <1>4, <1>7 DEF DataInv
    <2>2. Sound(ind, map)'
      <3>1. Sound(ind', map')
        BY <1>1, <2>1
      <3> QED BY <1>1, <1>2, <3>1, SoundSame
    <2>3. TailOK' /\ FreshOK' /\ Grown'
      BY <1>1, <1>2, <1>4, <2>1 DEF TailOK, FreshOK, Grown
    <2> QED BY <2>2, <2>3
  <1>8. AssertionsHold'
    BY <1>1 DEF DataInv, AssertionsHold, Tainted
  <1> QED BY <1>3, <1>5, <1>6, <1>7, <1>8, Zenon DEF DataInv

(* Every step keeps the invariant. *)
LEMMA DataStep ==
  ASSUME DataInv, BlockOK, BlockOK', [Scubed3Next]_vars
  PROVE  DataInv'
  <1>1. CASE CreatePartition
    BY <1>1, CreateInv
  <1>2. CASE OpenPartition
    BY <1>2, OpenInv
  <1>3. CASE SelectNext
    BY <1>3, SelectInv
  <1>4. ASSUME NEW o \in DOMAIN map, NEW parts \in SUBSET Part \ {{}}, NEW v \in Value,
               DoWrite(o, parts, v)
        PROVE  DataInv'
    BY <1>4, DoWriteInv
  <1>5. CASE FlushCurrent
    BY <1>5, FlushCurrentInv
  <1>6. CASE FlushCopy
    BY <1>6, FlushCopyInv
  <1>7. CASE Cycle
    BY <1>7, CycleInv
  <1>8. CASE ResizePartition
    BY <1>8, ResizeInv
  <1>9. CASE ClosePartition
    BY <1>9, CloseInv
  <1>10. CASE CrashPartition
    BY <1>10, CrashInv
  <1>11. CASE CrashTornPartition
    BY <1>11, CrashTornInv
  <1>12. CASE UNCHANGED vars
    BY <1>12, StutterInv
  <1> QED BY <1>1, <1>2, <1>3, <1>4, <1>5, <1>6, <1>7, <1>8, <1>9, <1>10, <1>11, <1>12
          DEF Scubed3Next


(* The inductive invariant: what a partition has in RAM describes what it  *)
(* has on disk, until a block that holds data is overwritten.              *)
THEOREM DataInvariant == Scubed3Spec => []DataInv
  <1>1. Scubed3Init /\ BlockOK => DataInv
    BY InitInv
  <1>2. DataInv /\ BlockOK /\ BlockOK' /\ [Scubed3Next]_vars => DataInv'
    BY DataStep
  <1> QED BY <1>1, <1>2, BlockInvariant, PTL DEF Scubed3Spec

----------------------------------------------------------------------------
(* What follows from it. *)

(* Indices, counts, block indices and buffers stay within mmpm and within  *)
(* the device, whatever the sequence of commands and crashes: none of the  *)
(* arrays of blockio.c and scubed3.c is indexed beyond its end.            *)
THEOREM TypesHold == Scubed3Spec => []Scubed3TypeOK
  <1>1. DataInv => Scubed3TypeOK
    BY DEF DataInv
  <1> QED BY <1>1, DataInvariant, PTL

(* As long as no block that holds data was overwritten, none of the        *)
(* assertions of do_write, copy_old_block_to_current and obsolete_mesoblk  *)
(* fails: garbage collection fits in the current block, and a block that   *)
(* loses a mesoblock has one to lose.                                      *)
THEOREM AssertionsNeverFail == Scubed3Spec => []AssertionsHold
  <1>1. DataInv => AssertionsHold
    BY DEF DataInv
  <1> QED BY <1>1, DataInvariant, PTL

(* no_nonobsolete, which is counted down by do_write and by the copy loop, *)
(* set by a write and recomputed by replay, is the number of mesoblocks    *)
(* that block_indices finds in the block.                                  *)
THEOREM LiveCountsExact == Scubed3Spec => []LiveExact
  <1>1. DataInv => LiveExact
    <2> SUFFICES ASSUME DataInv, pc \in {"open", "select", "selectResized"}, ~ Tainted,
                        NEW b \in Block \ {cur}
                 PROVE  ind[b].live = Cardinality({o \in DOMAIN map : map[o].b = b})
      BY DEF LiveExact
    <2>1. CountsOK(ind, map)
      BY DEF DataInv, IsOpen, Sound
    <2> QED BY <2>1, Zenon DEF CountsOK, Mapped
  <1> QED BY <1>1, DataInvariant, PTL

(* No macroblock on disk lists a mesoblock twice, so that the assertion of *)
(* replay holds at every open.                                             *)
THEOREM ListsHaveNoDuplicates == Scubed3Spec => []NoDuplicates
  <1>1. DataInv => NoDuplicates
    BY DEF DataInv, DiskOK, NoDuplicates
  <1> QED BY <1>1, DataInvariant, PTL

----------------------------------------------------------------------------
(* The partition is a block store.  What the disk alone says, as a         *)
(* function of the headers d and the contents st.                          *)

ListingOf(d, st, o) ==
  {b \in Signed(d) : \E k \in DOMAIN st[b].off : st[b].off[k] = o}

ReplayedOf(d, st, o) ==
  IF ListingOf(d, st, o) = {} THEN Unmapped
  ELSE LET b == CHOOSE b \in ListingOf(d, st, o) :
                  \A c \in ListingOf(d, st, o) : d[c].seq <= d[b].seq
       IN  [b |-> b, k |-> CHOOSE k \in DOMAIN st[b].off : st[b].off[k] = o]

Stored(st, e) == IF e = Unmapped THEN ZeroContent ELSE st[e.b].data[e.k]

DiskViewOf(d, st) ==
  IF Signed(d) = {} THEN EmptyMap
  ELSE LET m == CHOOSE m \in Block : IsNewest(d, m)
       IN  [o \in 0..(SizeOf(d[m]) - 1) |-> Stored(st, ReplayedOf(d, st, o))]

(* The definitions of Scubed3 are those of the disk it has. *)
LEMMA DiskViewNow ==
  /\ DiskView = DiskViewOf(disk, store)
  /\ DiskView' = DiskViewOf(disk', store')
  /\ \A o : Replayed(o) = ReplayedOf(disk, store, o) /\ Listing(o) = ListingOf(disk, store, o)
  <1>1. /\ DiskView = DiskViewOf(disk, store)
        /\ DiskView' = DiskViewOf(disk', store')
    BY Zenon DEF DiskView, DiskViewOf, Replayed, ReplayedOf, Listing, ListingOf, Stored, SizeOf
  <1>2. \A o : Replayed(o) = ReplayedOf(disk, store, o) /\ Listing(o) = ListingOf(disk, store, o)
    BY Zenon DEF Replayed, ReplayedOf, Listing, ListingOf
  <1> QED BY <1>1, <1>2

(* A disk that does not change says the same. *)
LEMMA DiskViewSame ==
  ASSUME UNCHANGED <<disk, store>>
  PROVE  DiskView' = DiskView
  <1>1. disk' = disk /\ store' = store
    OBVIOUS
  <1>2. DiskViewOf(disk', store') = DiskViewOf(disk, store)
    BY <1>1
  <1> QED BY <1>2, DiskViewNow

(* The newest header says how large the device is. *)
LEMMA DiskViewIs ==
  ASSUME NEW d, NEW st, NEW m \in Block, IsNewest(d, m),
         \A c \in Signed(d) : d[m].seq <= d[c].seq => c = m
  PROVE  DiskViewOf(d, st)
           = [o \in 0..(SizeOf(d[m]) - 1) |-> Stored(st, ReplayedOf(d, st, o))]
  <1>1. Signed(d) # {} /\ m \in Signed(d)
    BY DEF IsNewest
  <1>2. \A c \in Block : IsNewest(d, c) => c = m
    BY <1>1 DEF IsNewest
  <1>3. (CHOOSE c \in Block : IsNewest(d, c)) = m
    BY <1>2
  <1>4. PICK n : n = CHOOSE c \in Block : IsNewest(d, c)
    OBVIOUS
  <1>5. DiskViewOf(d, st)
          = [o \in 0..(SizeOf(d[n]) - 1) |-> Stored(st, ReplayedOf(d, st, o))]
    BY <1>1, <1>4, Zenon DEF DiskViewOf
  <1> QED BY <1>3, <1>4, <1>5

(* A mesoblock is found in the one block that lists it last. *)
LEMMA ReplayedIs ==
  ASSUME NEW d, NEW st, NEW o, NEW c \in ListingOf(d, st, o),
         NEW k \in DOMAIN st[c].off, st[c].off[k] = o,
         \A j \in DOMAIN st[c].off : st[c].off[j] = o => j = k,
         \A b \in ListingOf(d, st, o) :
           d[b].seq <= d[c].seq /\ (d[c].seq <= d[b].seq => b = c)
  PROVE  ReplayedOf(d, st, o) = [b |-> c, k |-> k]
  <1>1. PICK L : L = ListingOf(d, st, o)
    OBVIOUS
  <1>2. c \in L /\ \A b \in L : d[b].seq <= d[c].seq /\ (d[c].seq <= d[b].seq => b = c)
    BY <1>1
  <1>3. PICK x : x = CHOOSE b \in L : \A a \in L : d[a].seq <= d[b].seq
    OBVIOUS
  <1>4. x \in L /\ \A a \in L : d[a].seq <= d[x].seq
    BY <1>2, <1>3
  <1>5. x = c
    BY <1>2, <1>4
  <1>6. PICK y : y = CHOOSE j \in DOMAIN st[x].off : st[x].off[j] = o
    OBVIOUS
  <1>7. y \in DOMAIN st[c].off /\ st[c].off[y] = o
    BY <1>5, <1>6
  <1>8. y = k
    BY <1>7
  <1>9. ReplayedOf(d, st, o) = [b |-> x, k |-> y]
    <2>1. L # {}
      BY <1>2
    <2> QED BY <1>1, <1>3, <1>6, <2>1, Zenon DEF ReplayedOf
  <1> QED BY <1>5, <1>8, <1>9

(* Nothing is found of a mesoblock that no block lists. *)
LEMMA ReplayedNot ==
  ASSUME NEW d, NEW st, NEW o, ListingOf(d, st, o) = {}
  PROVE  ReplayedOf(d, st, o) = Unmapped
  BY Zenon DEF ReplayedOf

(* What is read from a partition, and from the disk. *)
LEMMA ViewIs ==
  /\ IsOpen => View = [o \in DOMAIN map |-> DoRead(o)]
  /\ pc = "closed" => View = DiskView
  /\ IsOpen' => View' = [o \in DOMAIN map' |-> DoRead(o)']
  /\ pc' = "closed" => View' = DiskView'
  BY SMTT(30) DEF View, IsOpen

(* A partition that is open reads what its block indices say. *)
LEMMA ReadNow ==
  ASSUME BlockOK, IsOpen, NEW s, NEW o, NEW e, e = s.map[o]
  PROVE  /\ e = Unmapped => ReadOf(s, o) = ZeroContent
         /\ e # Unmapped /\ e.b = cur => ReadOf(s, o) = s.ram[e.k]
         /\ e # Unmapped /\ e.b \in Signed(disk) \ {cur} =>
              ReadOf(s, o) = store[e.b].data[e.k]
  BY DEF ReadOf, ReadMesoblk, BlockOK

(* When the current block is written, the disk finds the mesoblocks where  *)
(* the RAM does.                                                           *)
LEMMA WrittenReplay ==
  ASSUME Scubed3TypeOK, BlockOK, DiskOK, pc = "open", cur \in Block,
         NEW s, StateOK(s), Sound(s.ind, s.map), Written(s), NEW o \in DOMAIN map
  PROVE  ReplayedOf(disk', store', o) = s.map[o]
  <1>1. PICK c \in Block : c = cur
    OBVIOUS
  <1>2. PICK f, m, d, st : f = s.ind[c].off /\ m = s.map /\ d = disk' /\ st = store'
    OBVIOUS
  <1>3. /\ Signed(d) = Signed(disk) \cup {c} /\ d[c].seq = seqno /\ st[c].off = f
        /\ \A b \in Block \ {c} : d[b] = disk[b] /\ st[b] = store[b]
        /\ \A b \in Signed(disk) \ {c} :
             b \in Block /\ disk[b].seq < seqno /\ disk[b].seq \in Nat
        /\ seqno \in Nat
    <2>1. c = cur /\ f = s.ind[cur].off
      BY <1>1, <1>2
    <2> QED BY <1>2, <2>1, WrittenFacts
  <1>4. PICK e \in Place : e = m[o]
    BY <1>2 DEF StateOK
  <1>5. /\ \A k \in DOMAIN f : f[k] \in DOMAIN m /\ m[f[k]] = [b |-> c, k |-> k]
        /\ \A p \in Mapped(m, c) : m[p].k \in DOMAIN f /\ f[m[p].k] = p
    BY <1>1, <1>2, Counting DEF Sound, CurrentOK
  <1>6. LatestFound(m) /\ FoundOnDisk(m) /\ o \in DOMAIN m
    BY <1>2 DEF Sound, StateOK
  <1>7. PICK L : L = ListingOf(d, st, o)
    OBVIOUS
  <1>8. \A b \in L : b = c => m[o].b = c
    <2> SUFFICES ASSUME c \in L PROVE m[o].b = c
      OBVIOUS
    <2>1. PICK k \in DOMAIN f : f[k] = o
      BY <1>3, <1>7 DEF ListingOf
    <2>2. m[f[k]] = [b |-> c, k |-> k]
      BY <1>5
    <2> QED BY <2>1, <2>2
  <1>9. \A b \in L : b # c =>
          /\ b \in Signed(disk) \ {cur} /\ m[o].b # NoBlock
          /\ m[o].b = cur \/ disk[m[o].b].seq >= disk[b].seq
    <2> SUFFICES ASSUME NEW b \in L, b # c
                 PROVE  /\ b \in Signed(disk) \ {cur} /\ m[o].b # NoBlock
                        /\ m[o].b = cur \/ disk[m[o].b].seq >= disk[b].seq
      OBVIOUS
    <2>1. b \in Signed(disk) \ {cur} /\ st[b] = store[b]
      BY <1>1, <1>3, <1>7 DEF ListingOf
    <2>2. PICK k \in DOMAIN store[b].off : store[b].off[k] = o
      BY <1>7, <2>1 DEF ListingOf
    <2> QED BY <1>6, <2>1, <2>2, LatestAt
  <1>10. CASE e = Unmapped
    <2>1. e.b = NoBlock /\ c # NoBlock
      BY <1>10, Counting DEF Unmapped
    <2>2. L = {}
      BY <1>4, <1>8, <1>9, <2>1
    <2> QED BY <1>2, <1>4, <1>7, <1>10, <2>2, ReplayedNot
  <1>11. CASE e # Unmapped /\ e.b = c
    <2>1. o \in Mapped(m, c)
      BY <1>4, <1>6, <1>11 DEF Mapped
    <2>2. e.k \in DOMAIN f /\ f[e.k] = o
      BY <1>4, <1>5, <2>1
    <2>3. \A j \in DOMAIN f : f[j] = o => j = e.k
      <3> TAKE j \in DOMAIN f
      <3>1. m[f[j]] = [b |-> c, k |-> j]
        BY <1>5
      <3> QED BY <1>4, <3>1
    <2>4. c \in L
      BY <1>3, <1>7, <2>2 DEF ListingOf
    <2>5. \A b \in L : b # c => d[b].seq \in Nat /\ d[b].seq < seqno
      BY <1>1, <1>3, <1>9
    <2>6. ASSUME NEW b \in L PROVE d[b].seq <= d[c].seq /\ (d[c].seq <= d[b].seq => b = c)
      <3>1. d[c].seq = seqno /\ seqno \in Nat
        BY <1>3
      <3>2. b # c => d[b].seq \in Nat /\ d[b].seq < seqno
        BY <2>5
      <3> QED BY <3>1, <3>2
    <2>7. ReplayedOf(d, st, o) = [b |-> c, k |-> e.k]
      BY <1>3, <1>7, <2>2, <2>3, <2>4, <2>6, ReplayedIs
    <2>8. e = [b |-> e.b, k |-> e.k]
      BY <1>11 DEF Place
    <2> QED BY <1>2, <1>4, <1>11, <2>7, <2>8
  <1>12. CASE e # Unmapped /\ e.b # c
    <2>1. e.b \in Block /\ e = [b |-> e.b, k |-> e.k]
      BY <1>12 DEF Place
    <2>2. PICK a \in Block : a = e.b
      BY <2>1
    <2>3. a \in Signed(disk) \ {c} /\ e.k \in DOMAIN store[a].off /\ store[a].off[e.k] = o
      <3>1. m[o].b \notin {NoBlock, cur}
        BY <1>1, <1>4, <1>12, <2>1, Counting
      <3> QED BY <1>1, <1>4, <1>6, <1>12, <2>2, <3>1 DEF FoundOnDisk
    <2>4. st[a] = store[a] /\ d[a] = disk[a] /\ disk[a].seq \in Nat
      BY <1>3, <2>3
    <2>5. a \in L
      BY <1>3, <1>7, <2>3, <2>4 DEF ListingOf
    <2>6. \A j \in DOMAIN store[a].off : store[a].off[j] = o => j = e.k
      <3>1. IsInjective(store[a].off)
        BY DEF DiskOK
      <3> QED BY <2>3, <3>1 DEF IsInjective
    <2>7. ASSUME NEW b \in L PROVE d[b].seq <= d[a].seq /\ (d[a].seq <= d[b].seq => b = a)
      <3>1. b # c
        BY <1>4, <1>8, <1>12
      <3>2. b \in Signed(disk) \ {cur} /\ disk[a].seq >= disk[b].seq
        BY <1>1, <1>4, <1>9, <1>12, <2>2, <3>1
      <3>3. d[b] = disk[b] /\ disk[b].seq \in Nat
        BY <1>1, <1>3, <3>1, <3>2
      <3>4. disk[b].seq = disk[a].seq => b = a
        BY <2>3, <3>2 DEF BlockOK
      <3> QED BY <2>4, <3>2, <3>3, <3>4
    <2>8. ReplayedOf(d, st, o) = [b |-> a, k |-> e.k]
      BY <1>7, <2>3, <2>4, <2>5, <2>6, <2>7, ReplayedIs
    <2> QED BY <1>2, <1>4, <2>1, <2>2, <2>8
  <1> QED BY <1>10, <1>11, <1>12

(* So the disk says afterwards what was read before. *)
LEMMA WrittenView ==
  ASSUME Scubed3TypeOK, BlockOK, ControlOK, DiskOK, pc = "open", cur \in Block,
         NEW s, StateOK(s), Sound(s.ind, s.map), Written(s)
  PROVE  /\ DiskViewOf(disk', store') = [o \in DOMAIN map |-> ReadOf(s, o)]
         /\ \A o \in DOMAIN map : Stored(store', s.map[o]) = ReadOf(s, o)
         /\ \A o \in DOMAIN map : s.map[o] # Unmapped =>
              s.map[o].b \in Block /\ bseq[s.map[o].b] = disk'[s.map[o].b].seq
  <1>1. PICK c \in Block : c = cur
    OBVIOUS
  <1>2. PICK f, m, d, st : f = s.ind[c].off /\ m = s.map /\ d = disk' /\ st = store'
    OBVIOUS
  <1>3. /\ Signed(d) = Signed(disk) \cup {c} /\ d[c].seq = seqno /\ st[c].off = f
        /\ \A b \in Block \ {c} : d[b] = disk[b] /\ st[b] = store[b]
        /\ \A b \in Signed(disk) \ {c} :
             b \in Block /\ disk[b].seq < seqno /\ disk[b].seq \in Nat
        /\ seqno \in Nat /\ SizeOf(d[c]) = Size
        /\ \A k \in 1..MMPM : st[c].data[k] = IF k <= Len(f) THEN s.ram[k] ELSE ZeroContent
    <2>1. c = cur /\ f = s.ind[cur].off
      BY <1>1, <1>2
    <2> QED BY <1>2, <2>1, WrittenFacts
  <1>4. IsOpen /\ c # NoBlock /\ DOMAIN map = 0..(Size - 1)
    BY Counting DEF IsOpen, ControlOK
  <1>5. f \in Seq(Offset) /\ Len(f) \in Nat
    <2>1. s.ind[c] \in Indices
      BY DEF StateOK
    <2> QED BY <1>2, <2>1, IndicesFacts
  <1>6. ASSUME NEW o \in DOMAIN map
        PROVE  /\ Stored(st, m[o]) = ReadOf(s, o)
               /\ m[o] # Unmapped => m[o].b \in Block /\ bseq[m[o].b] = d[m[o].b].seq
    <2>1. PICK e \in Place : e = m[o]
      BY <1>2 DEF StateOK
    <2>2. CASE e = Unmapped
      BY <1>2, <1>4, <2>1, <2>2, ReadNow DEF Stored
    <2>3. CASE e # Unmapped /\ e.b = c
      <3>1. o \in Mapped(m, c)
        BY <1>2, <2>1, <2>3 DEF Mapped, StateOK
      <3>2. e.k \in DOMAIN f /\ e.k \in 1..MMPM
        BY <1>1, <1>2, <1>4, <2>1, <2>3, <3>1 DEF Sound, CurrentOK, Place
      <3>3. e.k <= Len(f)
        BY <1>5, <3>2
      <3>4. st[c].data[e.k] = s.ram[e.k]
        BY <1>3, <3>2, <3>3
      <3>5. ReadOf(s, o) = s.ram[e.k]
        BY <1>1, <1>2, <1>4, <2>1, <2>3, ReadNow
      <3>6. bseq[c] = seqno
        BY <1>1, <1>4 DEF BlockOK
      <3> QED BY <1>3, <2>1, <2>3, <3>4, <3>5, <3>6 DEF Stored
    <2>4. CASE e # Unmapped /\ e.b # c
      <3>1. PICK a \in Block : a = e.b
        BY <2>4 DEF Place
      <3>2. a \in Signed(disk) \ {c}
        <4>1. m[o].b \notin {NoBlock, cur} /\ o \in DOMAIN m
          BY <1>1, <1>2, <2>1, <2>4, <3>1, Counting DEF StateOK
        <4> QED BY <1>1, <1>2, <2>1, <3>1, <4>1 DEF Sound, FoundOnDisk
      <3>3. ReadOf(s, o) = store[a].data[e.k]
        BY <1>1, <1>2, <1>4, <2>1, <2>4, <3>1, <3>2, ReadNow
      <3>4. bseq[a] = disk[a].seq /\ d[a] = disk[a] /\ st[a] = store[a]
        BY <1>1, <1>3, <1>4, <3>2 DEF BlockOK
      <3> QED BY <2>1, <2>4, <3>1, <3>3, <3>4 DEF Stored
    <2> QED BY <2>2, <2>3, <2>4
  <1>7. DiskViewOf(d, st) = [o \in DOMAIN map |-> ReadOf(s, o)]
    <2>1. \A b \in Signed(d) : b # c => d[b].seq \in Nat /\ d[b].seq < seqno
      BY <1>3
    <2>2. IsNewest(d, c)
      BY <1>3, <2>1 DEF IsNewest
    <2>3. \A b \in Signed(d) : d[c].seq <= d[b].seq => b = c
      BY <1>3, <2>1
    <2>4. DiskViewOf(d, st) = [o \in 0..(Size - 1) |-> Stored(st, ReplayedOf(d, st, o))]
      BY <1>3, <2>2, <2>3, DiskViewIs
    <2>5. \A o \in DOMAIN map : ReplayedOf(d, st, o) = m[o]
      BY <1>2, WrittenReplay
    <2>6. \A o \in DOMAIN map : Stored(st, ReplayedOf(d, st, o)) = ReadOf(s, o)
      BY <1>6, <2>5
    <2> QED BY <1>4, <2>4, <2>6
  <1> QED BY <1>2, <1>6, <1>7

----------------------------------------------------------------------------
(* Two more things that the refinement needs: the request that waits for a *)
(* new macroblock is one that was made, and what the current block has on  *)
(* disk can be lost.                                                       *)
PendingOK ==
  /\ op \in {"flush", "copy"} =>
       req.parts \in SUBSET Part \ {{}} /\ req.v \in Value
  /\ ~ Tainted /\ IsOpen /\ cur \in Signed(disk) => Superseded(cur)

(* Nothing is pending in a partition that is not open. *)
LEMMA PendingGone ==
  ASSUME PartitionGone, pc' = "closed"
  PROVE  PendingOK'
  BY DEF PartitionGone, PendingOK, IsOpen

(* As long as the block is current its contents on disk do not change. *)
LEMMA PendingSame ==
  ASSUME PendingOK, IsOpen, UNCHANGED <<disk, store, cur, hist>>,
         op' \in {"flush", "copy"} =>
           req'.parts \in SUBSET Part \ {{}} /\ req'.v \in Value
  PROVE  PendingOK'
  <1>1. Superseded(cur)' <=> Superseded(cur)
    BY DEF Superseded
  <1>2. Tainted' <=> Tainted
    BY DEF Tainted
  <1> QED BY <1>1, <1>2, Zenon DEF PendingOK

(* Without a current block only the request matters. *)
LEMMA PendingNone ==
  ASSUME cur' = NoBlock,
         op' \in {"flush", "copy"} =>
           req'.parts \in SUBSET Part \ {{}} /\ req'.v \in Value
  PROVE  PendingOK'
  <1>1. cur' \notin Signed(disk')
    BY Counting DEF Signed
  <1> QED BY <1>1 DEF PendingOK

(* What a block that is selected has on disk is in later blocks too. *)
LEMMA SelectedSuperseded ==
  ASSUME DataInv, BlockOK, ~ Tainted, IsOpen, cur = NoBlock, NEW b \in Candidates,
         b \in Signed(disk)
  PROVE  Superseded(b)
  <1>1. Mapped(map, b) = {}
    BY SelectedEmpty
  <1>2. PICK m : m = map
    OBVIOUS
  <1>3. LatestFound(m) /\ FoundOnDisk(m) /\ Mapped(m, b) = {}
    BY <1>1, <1>2 DEF DataInv, Sound
  <1> SUFFICES ASSUME NEW k \in DOMAIN store[b].off
               PROVE  \E c \in Signed(disk) :
                        /\ disk[c].seq > disk[b].seq
                        /\ \E j \in DOMAIN store[c].off : store[c].off[j] = store[b].off[k]
    BY DEF Superseded
  <1>4. PICK o : o = store[b].off[k]
    OBVIOUS
  <1>5. b \in Signed(disk) \ {cur}
    BY Counting DEF Signed
  <1>6. /\ o \in DOMAIN m /\ m[o].b # NoBlock
        /\ m[o].b = cur \/ disk[m[o].b].seq >= disk[b].seq
    BY <1>3, <1>4, <1>5, LatestAt
  <1>7. PICK c : c = m[o].b
    OBVIOUS
  <1>8. c # b /\ disk[c].seq >= disk[b].seq
    BY <1>3, <1>6, <1>7 DEF Mapped
  <1>9. /\ c \in Signed(disk) /\ m[o].k \in DOMAIN store[c].off
        /\ store[c].off[m[o].k] = o
    BY <1>3, <1>6, <1>7 DEF FoundOnDisk
  <1>10. disk[c].seq # disk[b].seq
    BY <1>8, <1>9 DEF BlockOK
  <1>11. disk[c].seq \in Nat /\ disk[b].seq \in Nat
    BY <1>9, HeaderFacts
  <1>12. disk[c].seq > disk[b].seq
    BY <1>8, <1>10, <1>11
  <1> QED BY <1>4, <1>9, <1>12

(* Every step keeps both. *)
LEMMA PendingStep ==
  ASSUME DataInv, BlockOK, BlockOK', PendingOK, [Scubed3Next]_vars
  PROVE  PendingOK'
  <1>t. Scubed3TypeOK /\ ControlOK
    BY DEF DataInv
  <1>1. CASE CreatePartition
    <2>1. cur' = cur /\ op' = op /\ pc = "closed"
      BY <1>1 DEF CreatePartition, Create, devvars
    <2>2. cur' = NoBlock /\ op' = "idle"
      BY <1>t, <2>1 DEF BlockOK, ControlOK, IsOpen
    <2> QED BY <2>2, PendingNone
  <1>2. CASE OpenPartition
    <2>1. cur' = cur /\ op' = op /\ pc = "closed"
      BY <1>2 DEF OpenPartition, Load, BlockOK, devvars
    <2>2. cur' = NoBlock /\ op' = "idle"
      BY <1>t, <2>1 DEF BlockOK, ControlOK, IsOpen
    <2> QED BY <2>2, PendingNone
  <1>3. CASE SelectNext
    <2>1. PICK b \in Block : \E n \in NextSlots(b) : Select(b, n)
      BY <1>3 DEF SelectNext
    <2>2. PICK n \in NextSlots(b) : Select(b, n)
      BY <2>1
    <2>3. /\ pc \in {"select", "selectResized"} /\ cur' = b /\ b \in Candidates
          /\ disk' = disk
      BY <2>2 DEF Select, GetDevblock
    <2>4. op' = (IF op = "flush" THEN "copy" ELSE "idle") /\ UNCHANGED <<store, req, hist>>
      BY <1>3 DEF SelectNext
    <2>5. IsOpen /\ cur = NoBlock
      BY <2>3 DEF IsOpen, BlockOK
    <2>6. ~ Tainted /\ b \in Signed(disk) => Superseded(b)
      BY <2>3, <2>5, SelectedSuperseded
    <2>7. Superseded(b)' <=> Superseded(b)
      BY <2>3, <2>4 DEF Superseded
    <2>8. ~ Tainted' /\ cur' \in Signed(disk') => Superseded(cur)'
      <3>1. Superseded(cur)' <=> Superseded(b)'
        BY <2>3 DEF Superseded
      <3> QED BY <2>3, <2>4, <2>6, <2>7, <3>1 DEF Tainted
    <2> QED BY <2>4, <2>8, Zenon DEF PendingOK
  <1>4. ASSUME NEW o \in DOMAIN map, NEW parts \in SUBSET Part \ {{}}, NEW v \in Value,
               DoWrite(o, parts, v)
        PROVE  PendingOK'
    <2>1. PICK r, s : r = [o |-> o, parts |-> parts, v |-> v] /\ s = InitializedOutput
      OBVIOUS
    <2>2. PICK t : t = Placed(s, r, IF map[o].b = cur THEN map[o] ELSE s.map[o])
      OBVIOUS
    <2>3. pc = "open" /\ \/ Die("abort") \/ Die("unlock")
                         \/ MarkUpdated /\ Continue(s, "flush", r)
                         \/ MarkUpdated /\ Continue(t, "idle", NoRequest)
      BY <1>4, <2>1, <2>2, Zenon DEF DoWrite
    <2>4. IsOpen /\ r.parts \in SUBSET Part \ {{}} /\ r.v \in Value
      BY <2>1, <2>3 DEF IsOpen
    <2>5. CASE Die("abort") \/ Die("unlock")
      BY <2>5, PendingGone DEF Die
    <2>6. CASE MarkUpdated /\ Continue(s, "flush", r)
      BY <2>4, <2>6, PendingSame DEF MarkUpdated, Continue
    <2>7. CASE MarkUpdated /\ Continue(t, "idle", NoRequest)
      BY <2>4, <2>7, PendingSame DEF MarkUpdated, Continue
    <2> QED BY <2>3, <2>5, <2>6, <2>7
  <1>5. CASE FlushCurrent
    BY <1>5, PendingNone DEF FlushCurrent, WriteForNext, PendingOK
  <1>6. CASE FlushCopy
    <2>1. PICK s : s = CopyOldBlock
      OBVIOUS
    <2>2. PICK t : t = Placed(s, req, s.map[req.o])
      OBVIOUS
    <2>3. op = "copy" /\ pc = "open"
          /\ \/ Die("abort")
             \/ Continue(s, "flush", req) /\ UNCHANGED <<bvars, outinit>>
             \/ Continue(t, "idle", NoRequest) /\ UNCHANGED <<bvars, outinit>>
      BY <1>6, <2>1, <2>2, Zenon DEF FlushCopy
    <2>4. IsOpen /\ req.parts \in SUBSET Part \ {{}} /\ req.v \in Value
      BY <2>3 DEF IsOpen, PendingOK
    <2>5. CASE Die("abort")
      BY <2>5, PendingGone DEF Die
    <2>6. CASE Continue(s, "flush", req) /\ UNCHANGED <<bvars, outinit>>
      BY <2>4, <2>6, PendingSame DEF bvars, devvars, Continue
    <2>7. CASE Continue(t, "idle", NoRequest) /\ UNCHANGED <<bvars, outinit>>
      BY <2>4, <2>7, PendingSame DEF bvars, devvars, Continue
    <2> QED BY <2>3, <2>5, <2>6, <2>7
  <1>7. CASE Cycle
    <2>1. PICK s : s = InitializedOutput
      OBVIOUS
    <2>2. Die("null") \/ Die("abort") \/ (WriteForNext /\ op' = "cycled")
      BY <1>7, <2>1, Zenon DEF Cycle
    <2>3. CASE Die("null") \/ Die("abort")
      BY <2>3, PendingGone DEF Die
    <2>4. CASE WriteForNext /\ op' = "cycled"
      BY <2>4, PendingNone DEF WriteForNext
    <2> QED BY <2>2, <2>3, <2>4
  <1>8. CASE ResizePartition
    <2>1. op = "idle" /\ \E X \in SUBSET Block : \E r : Resize(X, r)
      BY <1>8 DEF ResizePartition
    <2>2. PICK X \in SUBSET Block : \E r : Resize(X, r)
      BY <2>1
    <2>3. PICK r : Resize(X, r)
      BY <2>2
    <2>4. pc = "open" /\ disk' = disk /\ (pc' = "closed" \/ cur' = cur)
      BY <2>3 DEF Resize
    <2>5. CASE pc' = "closed"
      BY <1>8, <2>5, PendingGone DEF ResizePartition
    <2>6. CASE pc' # "closed"
      <3>1. UNCHANGED <<disk, store, cur, hist>> /\ op' = "idle" /\ IsOpen
        BY <1>8, <2>1, <2>4, <2>6 DEF ResizePartition, IsOpen
      <3> QED BY <3>1, PendingSame
    <2> QED BY <2>5, <2>6
  <1>9. CASE ClosePartition
    BY <1>9, PendingGone DEF ClosePartition, Close
  <1>10. CASE CrashPartition
    BY <1>10, PendingGone DEF CrashPartition, Crash
  <1>11. CASE CrashTornPartition
    BY <1>11, PendingGone DEF CrashTornPartition, CrashTorn
  <1>12. CASE UNCHANGED vars
    <2>1. UNCHANGED <<disk, store, cur, hist, op, req, pc>>
      BY <1>12 DEF vars, bvars, svars, devvars
    <2>2. CASE IsOpen
      BY <2>1, <2>2, PendingSame DEF PendingOK
    <2>3. CASE ~ IsOpen
      BY <2>1, <2>3 DEF PendingOK, IsOpen
    <2> QED BY <2>2, <2>3
  <1> QED BY <1>1, <1>2, <1>3, <1>4, <1>5, <1>6, <1>7, <1>8, <1>9, <1>10, <1>11, <1>12
          DEF Scubed3Next

(* Both hold always. *)
LEMMA PendingInvariant == Scubed3Spec => []PendingOK
  <1>1. Scubed3Init => PendingOK
    BY DEF Scubed3Init, BlockioInit, PendingOK, IsOpen
  <1>2. DataInv /\ BlockOK /\ BlockOK' /\ PendingOK /\ [Scubed3Next]_vars => PendingOK'
    BY PendingStep
  <1> QED BY <1>1, <1>2, BlockInvariant, DataInvariant, PTL DEF Scubed3Spec

----------------------------------------------------------------------------
(* What the steps do to what is read now and after a crash. *)
Steady == View' = View /\ DiskView' = DiskView
Flushed == View' = View /\ DiskView' = View
Lost == View' = DiskView /\ DiskView' = DiskView
Wrote(r) ==
  /\ r.o \in DOMAIN View /\ r.parts \in SUBSET Part \ {{}} /\ r.v \in Value
  /\ View' = [View EXCEPT ![r.o] = Merge(r, @)]
  /\ DiskView' = DiskView
Grew(n) ==
  /\ DOMAIN View \subseteq 0..(n - 1)
  /\ View' = [o \in 0..(n - 1) |-> IF o \in DOMAIN View THEN View[o] ELSE ZeroContent]
  /\ DiskView' = DiskView
Shrank(n) ==
  /\ 0..(n - 1) \subseteq DOMAIN DiskView
  /\ \A o \in DOMAIN DiskView \ 0..(n - 1) : DiskView[o] = ZeroContent
  /\ DiskView' = [o \in 0..(n - 1) |-> DiskView[o]]
  /\ View' = DiskView'

MaxSize == Cardinality(Block) * MMPM

(* Each is a step of the block store. *)
LEMMA Allowed ==
  ASSUME ~ Tainted, ~ Tainted',
         \/ Steady \/ Flushed \/ Lost \/ (\E r : Wrote(r))
         \/ \E n \in 0..MaxSize : Grew(n) \/ Shrank(n)
  PROVE  [S!StoreNext]_(S!svars)
  <1>1. CASE Steady
    BY <1>1 DEF Steady, S!svars
  <1>2. CASE Flushed
    <2>1. S!Flush
      BY <1>2 DEF Flushed, S!Flush
    <2> QED BY <2>1 DEF S!StoreNext
  <1>3. CASE Lost
    <2>1. S!Lose
      BY <1>3 DEF Lost, S!Lose
    <2> QED BY <2>1 DEF S!StoreNext
  <1>4. ASSUME NEW r, Wrote(r) PROVE S!StoreNext
    <2>1. PICK o, parts, v : o = r.o /\ parts = r.parts /\ v = r.v
      OBVIOUS
    <2>2. /\ o \in DOMAIN View /\ parts \in SUBSET Part \ {{}} /\ v \in Value
          /\ View' = [View EXCEPT ![o] = [p \in Part |-> IF p \in parts THEN v ELSE @[p]]]
          /\ DiskView' = DiskView
      BY <1>4, <2>1 DEF Wrote, Merge
    <2>3. S!Write(o, parts, v)
      BY <2>2 DEF S!Write
    <2> QED BY <2>2, <2>3 DEF S!StoreNext
  <1>5. ASSUME NEW n \in 0..MaxSize, Grew(n) PROVE S!StoreNext
    <2>1. S!Grow(n)
      BY <1>5 DEF Grew, S!Grow, S!ZeroContent, ZeroContent
    <2> QED BY <2>1 DEF S!StoreNext, MaxSize
  <1>6. ASSUME NEW n \in 0..MaxSize, Shrank(n) PROVE S!StoreNext
    <2>1. S!LoseGrowth(n)
      BY <1>6 DEF Shrank, S!LoseGrowth, S!ZeroContent, ZeroContent
    <2> QED BY <2>1 DEF S!StoreNext, MaxSize
  <1> QED BY <1>1, <1>2, <1>3, <1>4, <1>5, <1>6

(* When a block that holds data is overwritten the store promises nothing  *)
(* more.                                                                   *)
LEMMA Spoiled ==
  ASSUME Tainted'
  PROVE  S!StoreNext
  <1>1. EmptyMap = S!Empty
    BY DEF EmptyMap, S!Empty
  <1>2. S!Spoil
    BY <1>1 DEF S!Spoil
  <1> QED BY <1>2 DEF S!StoreNext

(* The partition is gone, the disk is as it was. *)
LEMMA GoneView ==
  ASSUME pc' = "closed", UNCHANGED <<disk, store>>
  PROVE  Lost
  BY ViewIs, DiskViewSame DEF Lost

(* Only the RAM changes. *)
LEMMA RamView ==
  ASSUME IsOpen, IsOpen', NEW s, DOMAIN s.map = DOMAIN map,
         map' = s.map, ram' = s.ram, UNCHANGED <<disk, store, cur, bseq>>
  PROVE  /\ View = [o \in DOMAIN map |-> DoRead(o)]
         /\ View' = [o \in DOMAIN map |-> ReadOf(s, o)]
         /\ DiskView' = DiskView
  <1>1. \A o \in DOMAIN map : DoRead(o)' = ReadOf(s, o)
    BY DEF DoRead, ReadOf, ReadMesoblk
  <1>2. View' = [o \in DOMAIN map' |-> DoRead(o)']
    BY ViewIs
  <1>3. View' = [o \in DOMAIN map |-> ReadOf(s, o)]
    BY <1>1, <1>2
  <1> QED BY <1>3, ViewIs, DiskViewSame

(* Create: nothing there, nothing to read. *)
LEMMA CreateView ==
  ASSUME DataInv, BlockOK, CreatePartition
  PROVE  Steady
  <1>1. /\ pc = "closed" /\ Signed(disk) = {} /\ pc' = "open" /\ UNCHANGED <<disk, store, map>>
    BY DEF CreatePartition, Create
  <1>2. map = EmptyMap /\ DOMAIN map = {}
    BY <1>1 DEF DataInv, ControlOK, IsOpen, EmptyMap
  <1>3. DiskView = EmptyMap /\ DiskView' = DiskView
    BY <1>1, DiskViewSame DEF DiskView
  <1>4. View = DiskView /\ IsOpen'
    BY <1>1, ViewIs DEF IsOpen
  <1>5. View' = [o \in DOMAIN map' |-> DoRead(o)'] /\ DOMAIN map' = {}
    BY <1>1, <1>2, <1>4, ViewIs
  <1>6. View' = EmptyMap
    BY <1>5 DEF EmptyMap
  <1> QED BY <1>3, <1>4, <1>6 DEF Steady

(* Open: replay finds what the disk says. *)
LEMMA OpenView ==
  ASSUME DataInv, BlockOK, BlockOK', OpenPartition
  PROVE  Steady
  <1>1. Load /\ pc = "closed" /\ disk' = disk /\ store' = store /\ pc' # "fatal"
    BY DEF OpenPartition, Load, BlockOK
  <1>2. PICK m \in Block :
          /\ IsNewest(disk, m)
          /\ bseq' = DiskSeq(disk)
          /\ nmac' = disk[m].nmac /\ reserved' = disk[m].reserved
          /\ pc' = (IF disk[m].nmac > disk[m].reserved THEN "select" ELSE "open")
          /\ cur' = cur
    BY <1>1 DEF Load
  <1>3. PICK z : z = SizeOf(disk[m])
    OBVIOUS
  <1>4. map' = [o \in 0..(z - 1) |-> Replayed(o)]
    BY <1>1, <1>2, <1>3 DEF OpenPartition, SizeOf, ReplayedMap
  <1>5. m \in Signed(disk) /\ Scubed3TypeOK /\ cur' = NoBlock /\ IsOpen'
    BY <1>1, <1>2 DEF IsNewest, DataInv, BlockOK, IsOpen
  <1>6. \A c \in Signed(disk) : disk[m].seq <= disk[c].seq => c = m
    <2> TAKE c \in Signed(disk)
    <2>1. disk[c].seq <= disk[m].seq /\ (disk[c].seq = disk[m].seq => c = m)
      BY <1>2, <1>5 DEF IsNewest, BlockOK
    <2>2. disk[c].seq \in Nat /\ disk[m].seq \in Nat
      BY <1>5, HeaderFacts
    <2> QED BY <2>1, <2>2
  <1>7. DiskView = [o \in 0..(z - 1) |-> Stored(store, ReplayedOf(disk, store, o))]
    <2>1. PICK d, st : d = disk /\ st = store
      OBVIOUS
    <2>2. DiskViewOf(d, st) = [o \in 0..(z - 1) |-> Stored(st, ReplayedOf(d, st, o))]
      BY <1>2, <1>3, <1>6, <2>1, DiskViewIs
    <2> QED BY <2>1, <2>2, DiskViewNow
  <1>8. ASSUME NEW o \in 0..(z - 1)
        PROVE  DoRead(o)' = Stored(store, ReplayedOf(disk, store, o))
    <2>1. PICK e : e = Replayed(o)
      OBVIOUS
    <2>2. map'[o] = e /\ e = ReplayedOf(disk, store, o)
      BY <1>4, <2>1, DiskViewNow
    <2>3. /\ e \in Place
          /\ e # Unmapped => e.b \in Listing(o)
      BY <1>2, <1>5, <2>1, ReplayedFacts
    <2>4. e # Unmapped => e.b \in Block /\ e.b # NoBlock
      BY <2>3, Counting DEF Listing, Signed
    <2>5. e # Unmapped => bseq'[e.b] = disk'[e.b].seq
      BY <1>1, <1>2, <2>4 DEF DiskSeq
    <2>6. CASE e = Unmapped
      <3>1. DoRead(o)' = ZeroContent
        BY <2>2, <2>6 DEF DoRead
      <3> QED BY <2>2, <2>6, <3>1 DEF Stored
    <2>7. CASE e # Unmapped
      <3>1. DoRead(o)' = store'[e.b].data[e.k]
        BY <1>5, <2>2, <2>4, <2>5, <2>7 DEF DoRead, ReadMesoblk
      <3> QED BY <1>1, <2>2, <2>7, <3>1 DEF Stored
    <2> QED BY <2>6, <2>7
  <1>9. View' = [o \in DOMAIN map' |-> DoRead(o)']
    BY <1>5, ViewIs
  <1>10. View' = DiskView
    <2>1. DOMAIN map' = 0..(z - 1)
      BY <1>4
    <2> QED BY <1>7, <1>8, <1>9, <2>1
  <1> QED BY <1>1, <1>10, ViewIs, DiskViewSame DEF Steady

(* Select: the block that is selected held nothing. *)
LEMMA SelectView ==
  ASSUME DataInv, BlockOK, ~ Tainted, SelectNext
  PROVE  Steady
  <1>1. PICK b \in Block : \E n \in NextSlots(b) : Select(b, n)
    BY DEF SelectNext
  <1>2. PICK n \in NextSlots(b) : Select(b, n)
    BY <1>1
  <1>3. /\ pc \in {"select", "selectResized"} /\ pc' = "open" /\ cur' = b
        /\ b \in Candidates /\ disk' = disk /\ bseq' = [bseq EXCEPT ![b] = seqno + 1]
    BY <1>2 DEF Select, GetDevblock
  <1>4. UNCHANGED <<store, map>> /\ IsOpen /\ IsOpen' /\ cur = NoBlock /\ Scubed3TypeOK
    BY <1>3 DEF SelectNext, IsOpen, BlockOK, DataInv
  <1>5. Mapped(map, b) = {}
    BY <1>3, <1>4, SelectedEmpty
  <1>6. ASSUME NEW o \in DOMAIN map PROVE DoRead(o)' = DoRead(o)
    <2>1. PICK e \in Place : e = map[o]
      BY <1>4 DEF Scubed3TypeOK, Place
    <2>2. e.b # b
      BY <1>5, <2>1 DEF Mapped
    <2>3. CASE e = Unmapped
      BY <1>4, <2>1, <2>3 DEF DoRead
    <2>4. CASE e # Unmapped
      <3>1. e.b \in Block /\ e.b # NoBlock
        BY <2>4, Counting DEF Place
      <3>2. bseq'[e.b] = bseq[e.b]
        BY <1>3, <1>4, <2>2, <3>1 DEF Scubed3TypeOK, BlockioTypeOK, JugglerTypeOK
      <3> QED BY <1>3, <1>4, <2>1, <2>2, <2>4, <3>1, <3>2 DEF DoRead, ReadMesoblk
    <2> QED BY <2>3, <2>4
  <1>7. View' = View
    <2>1. View = [o \in DOMAIN map |-> DoRead(o)] /\ View' = [o \in DOMAIN map' |-> DoRead(o)']
      BY <1>4, ViewIs
    <2> QED BY <1>4, <1>6, <2>1
  <1> QED BY <1>3, <1>4, <1>7, DiskViewSame DEF Steady

(* A write that fits in the current block. *)
LEMMA WroteView ==
  ASSUME IsOpen, IsOpen', NEW s, NEW t, NEW r,
         r.o \in DOMAIN map, r.parts \in SUBSET Part \ {{}}, r.v \in Value,
         DOMAIN t.map = DOMAIN map, map' = t.map, ram' = t.ram,
         UNCHANGED <<disk, store, cur, bseq>>,
         \A o \in DOMAIN map : ReadOf(s, o) = DoRead(o),
         ReadOf(t, r.o) = Merge(r, ReadOf(s, r.o)),
         \A p \in DOMAIN map \ {r.o} : ReadOf(t, p) = ReadOf(s, p)
  PROVE  Wrote(r)
  <1>1. /\ View = [o \in DOMAIN map |-> DoRead(o)]
        /\ View' = [o \in DOMAIN map |-> ReadOf(t, o)]
        /\ DiskView' = DiskView
    BY RamView
  <1>2. PICK x, y, o : x = View /\ y = View' /\ o = r.o
    OBVIOUS
  <1>3. /\ x = [p \in DOMAIN map |-> DoRead(p)] /\ o \in DOMAIN map
        /\ y = [p \in DOMAIN map |-> ReadOf(t, p)]
        /\ ReadOf(t, o) = Merge(r, DoRead(o))
        /\ \A p \in DOMAIN map \ {o} : ReadOf(t, p) = DoRead(p)
    BY <1>1, <1>2
  <1>4. PICK c : c = Merge(r, DoRead(o))
    OBVIOUS
  <1>5. y = [x EXCEPT ![o] = c]
    BY <1>3, <1>4
  <1>6. x[o] = DoRead(o)
    BY <1>3
  <1>7. View' = [View EXCEPT ![r.o] = Merge(r, @)]
    BY <1>2, <1>4, <1>5, <1>6
  <1> QED BY <1>1, <1>7 DEF Wrote

(* do_write. *)
LEMMA DoWriteView ==
  ASSUME DataInv, BlockOK, ~ Tainted, NEW o \in DOMAIN map,
         NEW parts \in SUBSET Part \ {{}}, NEW v \in Value, DoWrite(o, parts, v)
  PROVE  Steady \/ Lost \/ \E r : Wrote(r)
  <1>1. PICK r, s : r = [o |-> o, parts |-> parts, v |-> v] /\ s = InitializedOutput
    OBVIOUS
  <1>2. PICK e : e = IF map[o].b = cur THEN map[o] ELSE s.map[o]
    OBVIOUS
  <1>3. PICK t : t = Placed(s, r, e)
    OBVIOUS
  <1>4. PICK full \in BOOLEAN : full = (map[o].b # cur /\ Len(s.ind[cur].off) = MMPM)
    OBVIOUS
  <1>5. /\ op = "idle" /\ pc = "open"
        /\ IF ~ s.ok \/ (~ full /\ ~ t.ok) THEN Die("abort")
           ELSE IF full /\ ErrorCheck THEN Die("unlock")
           ELSE /\ MarkUpdated
                /\ outinit' = TRUE
                /\ IF full THEN Continue(s, "flush", r)
                   ELSE Continue(t, "idle", NoRequest)
    BY <1>1, <1>2, <1>3, <1>4, Zenon DEF DoWrite
  <1>6. CASE Die("abort") \/ Die("unlock")
    BY <1>6, GoneView DEF Die
  <1>7. CASE MarkUpdated /\ IF full THEN Continue(s, "flush", r)
                                    ELSE Continue(t, "idle", NoRequest)
    <2>1. UNCHANGED <<disk, store, cur, bseq>> /\ pc' = pc /\ cur \in Block
      BY <1>7 DEF MarkUpdated, Continue, jvars, DataInv, Scubed3TypeOK, BlockioTypeOK
    <2>2. IsOpen /\ IsOpen' /\ Scubed3TypeOK
      BY <1>5, <2>1 DEF IsOpen, DataInv
    <2>3. /\ StateOK(s) /\ s.ok /\ Sound(s.ind, s.map) /\ e = s.map[o]
          /\ \A p \in DOMAIN map : ReadOf(s, p) = DoRead(p)
      BY <1>1, <1>2, <1>5, <2>1, OutputFacts
    <2>4. CASE full
      <3>1. map' = s.map /\ ram' = s.ram
        BY <1>7, <2>4 DEF Continue
      <3>2. View = [p \in DOMAIN map |-> DoRead(p)]
            /\ View' = [p \in DOMAIN map |-> ReadOf(s, p)] /\ DiskView' = DiskView
        BY <2>1, <2>2, <2>3, <3>1, RamView DEF StateOK
      <3>3. View' = View
        BY <2>3, <3>2
      <3> QED BY <3>2, <3>3 DEF Steady
    <2>5. CASE ~ full
      <3>1. map' = t.map /\ ram' = t.ram
        BY <1>7, <2>5 DEF Continue
      <3>2. /\ r.o = o /\ r.parts \in SUBSET Part \ {{}} /\ r.v \in Value
            /\ IsRequest(r) /\ e \in Place
        BY <1>1, <2>3 DEF IsRequest, StateOK
      <3>3. StateOK(t)
        <4>1. PlacedOK(s, r, e, t)
          BY <1>3, <2>1, <2>2, <2>3, <3>2, PlacedFacts
        <4> QED BY <4>1 DEF PlacedOK
      <3>4. s.map[r.o].b # cur => Len(s.ind[cur].off) # MMPM
        BY <1>2, <1>4, <2>3, <2>5, <3>2
      <3>5. t = Placed(s, r, s.map[r.o])
        BY <1>3, <2>3, <3>2
      <3>6. /\ ReadOf(t, r.o) = Merge(r, ReadOf(s, r.o))
            /\ \A p \in DOMAIN map \ {r.o} : ReadOf(t, p) = ReadOf(s, p)
        BY <2>1, <2>2, <2>3, <3>2, <3>4, <3>5, PlacedSound
      <3>7. Wrote(r)
        BY <2>1, <2>2, <2>3, <3>1, <3>2, <3>3, <3>6, WroteView DEF StateOK
      <3> QED BY <3>7
    <2> QED BY <2>4, <2>5
  <1> QED BY <1>5, <1>6, <1>7

(* The rest of do_write. *)
LEMMA FlushCopyView ==
  ASSUME DataInv, BlockOK, PendingOK, ~ Tainted, FlushCopy
  PROVE  Steady \/ Lost \/ \E r : Wrote(r)
  <1>1. PICK r, s : r = req /\ s = CopyOldBlock
    OBVIOUS
  <1>2. PICK e : e = s.map[r.o]
    OBVIOUS
  <1>3. PICK t : t = Placed(s, r, e)
    OBVIOUS
  <1>4. PICK full \in BOOLEAN : full = (Len(s.ind[cur].off) = MMPM)
    OBVIOUS
  <1>5. /\ op = "copy" /\ pc = "open"
        /\ IF ~ s.ok \/ (~ full /\ ~ t.ok) THEN Die("abort")
           ELSE /\ IF full THEN Continue(s, "flush", r)
                   ELSE Continue(t, "idle", NoRequest)
                /\ UNCHANGED <<bvars, outinit>>
    BY <1>1, <1>2, <1>3, <1>4, Zenon DEF FlushCopy
  <1>6. CASE Die("abort")
    BY <1>6, GoneView DEF Die
  <1>7. CASE /\ IF full THEN Continue(s, "flush", r) ELSE Continue(t, "idle", NoRequest)
             /\ UNCHANGED <<bvars, outinit>>
    <2>1. UNCHANGED <<disk, store, cur, bseq, pc>>
      BY <1>7 DEF Continue, bvars, jvars, devvars
    <2>2. /\ IsOpen /\ IsOpen' /\ Scubed3TypeOK /\ cur \in Block /\ cur # NoBlock
          /\ r.o \in DOMAIN map /\ r.parts \in SUBSET Part \ {{}} /\ r.v \in Value
      BY <1>1, <1>5, <2>1
         DEF IsOpen, DataInv, ControlOK, Scubed3TypeOK, BlockioTypeOK, PendingOK
    <2>3. /\ StateOK(s) /\ s.ok /\ Sound(s.ind, s.map)
          /\ \A p \in DOMAIN map : ReadOf(s, p) = DoRead(p)
      <3>1. LoopOK(s, MMPM)
        BY <1>1, <2>2, CopyLoop
      <3>2. CopyStart
        BY <1>5, <2>2 DEF DataInv, FreshOK, DiskOK, CopyStart
      <3> QED BY <3>1, <3>2 DEF LoopOK
    <2>4. CASE full
      <3>1. map' = s.map /\ ram' = s.ram
        BY <1>7, <2>4 DEF Continue
      <3>2. View = [p \in DOMAIN map |-> DoRead(p)]
            /\ View' = [p \in DOMAIN map |-> ReadOf(s, p)] /\ DiskView' = DiskView
        BY <2>1, <2>2, <2>3, <3>1, RamView DEF StateOK
      <3>3. View' = View
        BY <2>3, <3>2
      <3> QED BY <3>2, <3>3 DEF Steady
    <2>5. CASE ~ full
      <3>1. map' = t.map /\ ram' = t.ram
        BY <1>7, <2>5 DEF Continue
      <3>2. IsRequest(r) /\ e \in Place
        BY <1>2, <2>2, <2>3 DEF IsRequest, StateOK
      <3>3. StateOK(t)
        <4>1. PlacedOK(s, r, e, t)
          BY <1>3, <2>2, <2>3, <3>2, PlacedFacts
        <4> QED BY <4>1 DEF PlacedOK
      <3>4. Len(s.ind[cur].off) # MMPM /\ t = Placed(s, r, s.map[r.o])
        BY <1>2, <1>3, <1>4, <2>5
      <3>5. /\ ReadOf(t, r.o) = Merge(r, ReadOf(s, r.o))
            /\ \A p \in DOMAIN map \ {r.o} : ReadOf(t, p) = ReadOf(s, p)
        BY <2>2, <2>3, <3>2, <3>4, PlacedSound
      <3>6. Wrote(r)
        BY <2>1, <2>2, <2>3, <3>1, <3>3, <3>5, WroteView DEF StateOK
      <3> QED BY <3>6
    <2> QED BY <2>4, <2>5
  <1> QED BY <1>5, <1>6, <1>7

(* The current block is written, and another will be selected. *)
LEMMA WriteView ==
  ASSUME DataInv, BlockOK, ~ Tainted, cur \in Block, NEW s, StateOK(s),
         Sound(s.ind, s.map), \A o \in DOMAIN map : ReadOf(s, o) = DoRead(o),
         WriteForNext, WriteContents(s)
  PROVE  Flushed
  <1>1. /\ pc = "open" /\ pc' = "select" /\ cur' = NoBlock /\ bseq' = bseq
        /\ disk' = [disk EXCEPT ![cur] = CurrentHeader]
        /\ store' = WrittenContents(s) /\ map' = s.map
    BY DEF WriteForNext, WriteCurrent, WriteContents, jvars
  <1>2. Written(s) /\ IsOpen /\ IsOpen' /\ Scubed3TypeOK /\ ControlOK /\ DiskOK
        /\ DOMAIN map' = DOMAIN map
    BY <1>1 DEF Written, IsOpen, DataInv, StateOK
  <1>3. /\ DiskViewOf(disk', store') = [o \in DOMAIN map |-> ReadOf(s, o)]
        /\ \A o \in DOMAIN map : Stored(store', s.map[o]) = ReadOf(s, o)
        /\ \A o \in DOMAIN map : s.map[o] # Unmapped =>
             s.map[o].b \in Block /\ bseq[s.map[o].b] = disk'[s.map[o].b].seq
    BY <1>1, <1>2, WrittenView
  <1>4. View = [o \in DOMAIN map |-> DoRead(o)]
    BY <1>2, ViewIs
  <1>5. DiskView' = View
    BY <1>3, <1>4, DiskViewNow
  <1>6. ASSUME NEW o \in DOMAIN map PROVE DoRead(o)' = DoRead(o)
    <2>1. PICK e : e = s.map[o]
      OBVIOUS
    <2>2. map'[o] = e /\ Stored(store', e) = DoRead(o)
      BY <1>1, <1>3, <2>1
    <2>3. CASE e = Unmapped
      <3>1. DoRead(o)' = ZeroContent
        BY <2>2, <2>3 DEF DoRead
      <3> QED BY <2>2, <2>3, <3>1 DEF Stored
    <2>4. CASE e # Unmapped
      <3>1. e.b \in Block /\ bseq'[e.b] = disk'[e.b].seq /\ e.b # NoBlock
        BY <1>1, <1>3, <2>1, <2>4, Counting
      <3>2. DoRead(o)' = store'[e.b].data[e.k]
        BY <1>1, <2>2, <2>4, <3>1 DEF DoRead, ReadMesoblk
      <3> QED BY <2>2, <2>4, <3>2 DEF Stored
    <2> QED BY <2>3, <2>4
  <1>7. View' = View
    <2>1. View' = [o \in DOMAIN map' |-> DoRead(o)']
      BY <1>2, ViewIs
    <2> QED BY <1>2, <1>4, <1>6, <2>1
  <1> QED BY <1>5, <1>7 DEF Flushed

(* select_new_macroblock. *)
LEMMA FlushCurrentView ==
  ASSUME DataInv, BlockOK, ~ Tainted, FlushCurrent
  PROVE  Flushed
  <1>1. pc = "open" /\ WriteForNext /\ WriteContents(Now)
    BY DEF FlushCurrent
  <1>2. Scubed3TypeOK /\ IsOpen /\ Sound(ind, map)
    BY <1>1 DEF DataInv, IsOpen
  <1>3. cur \in Block
    BY <1>1, <1>2 DEF WriteForNext, WriteCurrent, Scubed3TypeOK, BlockioTypeOK
  <1>4. PICK s : s = Now
    OBVIOUS
  <1>5. StateOK(s) /\ s.ind = ind /\ s.map = map
    BY <1>2, <1>4, NowType DEF Now
  <1>6. \A o \in DOMAIN map : ReadOf(s, o) = DoRead(o)
    BY <1>4 DEF ReadOf, DoRead, Now
  <1> QED BY <1>1, <1>2, <1>3, <1>4, <1>5, <1>6, WriteView

(* scubed3_cycle. *)
LEMMA CycleView ==
  ASSUME DataInv, BlockOK, ~ Tainted, Cycle
  PROVE  Flushed \/ Lost
  <1>1. PICK s : s = InitializedOutput
    OBVIOUS
  <1>2. /\ op = "idle" /\ pc = "open"
        /\ \/ Die("null") \/ Die("abort")
           \/ cur # NoBlock /\ WriteForNext /\ WriteContents(s)
    BY <1>1, Zenon DEF Cycle
  <1>3. CASE Die("null") \/ Die("abort")
    BY <1>3, GoneView DEF Die
  <1>4. CASE cur # NoBlock /\ WriteForNext /\ WriteContents(s)
    <2>1. cur \in Block
      BY <1>4 DEF DataInv, Scubed3TypeOK, BlockioTypeOK
    <2>2. /\ StateOK(s) /\ Sound(s.ind, s.map)
          /\ \A o \in DOMAIN map : ReadOf(s, o) = DoRead(o)
      BY <1>1, <1>2, <2>1, OutputFacts
    <2> QED BY <1>4, <2>1, <2>2, WriteView
  <1> QED BY <1>2, <1>3, <1>4

(* The largest partition. *)
LEMMA MaxSizeFacts ==
  /\ MaxSize \in Nat
  /\ \A n \in Nat : 0..(n - 1) \subseteq Offset => n \in 0..MaxSize
  <1>1. Cardinality(Block) \in Nat
    BY Counting
  <1>2. MaxSize \in Nat
    BY <1>1, Counting, Products DEF MaxSize
  <1>3. ASSUME NEW n \in Nat, 0..(n - 1) \subseteq Offset
        PROVE  n \in 0..MaxSize
    <2>1. PICK z \in Nat : z = MaxSize /\ Offset = 0..(z - 1)
      BY <1>2 DEF Offset, MaxSize
    <2>2. n > 0 => n - 1 \in 0..(z - 1)
      BY <1>3, <2>1
    <2> QED BY <2>1, <2>2
  <1> QED BY <1>2, <1>3

(* control_resize. *)
LEMMA ResizeView ==
  ASSUME DataInv, BlockOK, BlockOK', DataInv', ~ Tainted, ResizePartition
  PROVE  Lost \/ \E n \in 0..MaxSize : Grew(n)
  <1>1. \E X \in SUBSET Block : \E r : Resize(X, r)
    BY DEF ResizePartition
  <1>2. PICK X \in SUBSET Block : \E r : Resize(X, r)
    BY <1>1
  <1>3. PICK r : Resize(X, r)
    BY <1>2
  <1>4. pc = "open" /\ X \subseteq Block \ used /\ disk' = disk /\ store' = store
    BY <1>3 DEF Resize, ResizePartition
  <1>5. CASE pc' = "closed"
    BY <1>4, <1>5, GoneView
  <1>6. CASE pc' # "closed"
    <2>1. /\ bseq' = [b \in Block |-> IF b \in X THEN 0 ELSE bseq[b]]
          /\ cur' = cur /\ (pc' = "selectResized" \/ pc' = pc)
      BY <1>3, <1>6 DEF Resize
    <2>2. /\ map' = [o \in 0..(Size' - 1) |-> IF o \in DOMAIN map THEN map[o] ELSE Unmapped]
          /\ ram' = ram
      BY <1>6 DEF ResizePartition, Size
    <2>3. IsOpen /\ IsOpen' /\ Scubed3TypeOK /\ Sound(ind, map) /\ DOMAIN map = 0..(Size - 1)
      BY <1>4, <2>1 DEF IsOpen, DataInv, ControlOK
    <2>4. PICK z : z = Size'
      OBVIOUS
    <2>5. /\ DOMAIN map' = 0..(z - 1) /\ DOMAIN map' \subseteq Offset
          /\ \A o \in DOMAIN map' : map'[o] = IF o \in DOMAIN map THEN map[o] ELSE Unmapped
      BY <2>2, <2>4 DEF DataInv, Scubed3TypeOK
    <2>6. z \in Nat /\ Size \in Nat /\ Size <= z
      <3>1. /\ nmac \in Nat /\ reserved \in Nat /\ nmac' \in Nat /\ reserved' \in Nat
        BY <2>3 DEF BlockOK, BlockioTypeOK
      <3>2. nmac > reserved => nmac' - reserved' >= nmac - reserved
        <4>1. /\ ~ (nmac > reserved /\ nmac + Cardinality(X) - r < nmac - reserved)
              /\ nmac' = nmac + Cardinality(X) /\ reserved' = r
          BY <1>3, <1>6 DEF Resize
        <4>2. Cardinality(X) \in Nat
          BY Counting
        <4> QED BY <3>1, <4>1, <4>2
      <3>3. PICK a, c \in Nat : a = nmac' /\ c = reserved'
        BY <3>1
      <3>4. NoBlockIndices(nmac, reserved) <= NoBlockIndices(a, c)
            /\ NoBlockIndices(nmac, reserved) \in Nat
        BY <3>1, <3>2, <3>3, SizeFacts
      <3>5. NoBlockIndices(a, c) \in Nat
        BY SizeFacts
      <3> QED BY <2>4, <3>3, <3>4, <3>5 DEF Size
    <2>7. z \in 0..MaxSize
      BY <2>5, <2>6, MaxSizeFacts
    <2>8. DOMAIN map \subseteq 0..(z - 1)
      <3>1. \A o \in 0..(Size - 1) : o \in 0..(z - 1)
        BY <2>6
      <3> QED BY <2>3, <3>1
    <2>9. ASSUME NEW o \in DOMAIN map PROVE DoRead(o)' = DoRead(o)
      <3>1. PICK e \in Place : e = map[o]
        BY <2>3 DEF Scubed3TypeOK, Place
      <3>2. map'[o] = e
        BY <2>5, <2>8, <3>1
      <3>3. CASE e = Unmapped \/ e.b = cur
        BY <2>1, <2>2, <3>1, <3>2, <3>3 DEF DoRead
      <3>4. CASE e # Unmapped /\ e.b # cur
        <4>1. e.b \in Block /\ e.b # NoBlock
          BY <3>4, Counting DEF Place
        <4>2. e.b \in Signed(disk)
          BY <2>3, <3>1, <3>4, <4>1 DEF Sound, FoundOnDisk
        <4>3. e.b \notin X
          BY <1>4, <2>3, <4>2 DEF BlockOK
        <4>4. bseq'[e.b] = bseq[e.b]
          BY <2>1, <4>1, <4>3
        <4> QED BY <1>4, <2>1, <3>1, <3>2, <3>4, <4>4 DEF DoRead, ReadMesoblk
      <3> QED BY <3>3, <3>4
    <2>10. ASSUME NEW o \in DOMAIN map' \ DOMAIN map PROVE DoRead(o)' = ZeroContent
      BY <2>5, <2>10 DEF DoRead
    <2>11. View = [o \in DOMAIN map |-> DoRead(o)] /\ View' = [o \in DOMAIN map' |-> DoRead(o)']
      BY <2>3, ViewIs
    <2>12. View' = [o \in 0..(z - 1) |-> IF o \in DOMAIN View THEN View[o] ELSE ZeroContent]
      BY <2>5, <2>9, <2>10, <2>11
    <2>13. Grew(z)
      BY <1>4, <2>8, <2>11, <2>12, DiskViewSame DEF Grew
    <2> QED BY <2>7, <2>13
  <1> QED BY <1>5, <1>6

(* control_close. *)
LEMMA CloseView ==
  ASSUME DataInv, BlockOK, ~ Tainted, ClosePartition
  PROVE  Flushed \/ Lost
  <1>1. /\ pc = "open" /\ pc' = "closed"
        /\ IF updated THEN WriteCurrent /\ store' = WrittenContents(Now)
           ELSE UNCHANGED <<disk, store>>
    BY DEF ClosePartition, Close
  <1>2. Scubed3TypeOK /\ ControlOK /\ IsOpen /\ DiskOK /\ Sound(ind, map)
    BY <1>1 DEF DataInv, IsOpen
  <1>3. CASE ~ updated
    BY <1>1, <1>3, GoneView
  <1>4. CASE updated
    <2>1. PICK s : s = Now
      OBVIOUS
    <2>2. StateOK(s) /\ s.ind = ind /\ s.map = map
      BY <1>2, <2>1, NowType DEF Now
    <2>3. cur \in Block /\ Written(s)
      BY <1>1, <1>2, <1>4, <2>1 DEF WriteCurrent, Written, Scubed3TypeOK, BlockioTypeOK
    <2>4. \A o \in DOMAIN map : ReadOf(s, o) = DoRead(o)
      BY <2>1 DEF ReadOf, DoRead, Now
    <2>5. DiskViewOf(disk', store') = [o \in DOMAIN map |-> ReadOf(s, o)]
      BY <1>1, <1>2, <2>2, <2>3, WrittenView
    <2>6. DiskView' = [o \in DOMAIN map |-> DoRead(o)]
      BY <2>4, <2>5, DiskViewNow
    <2>7. View = [o \in DOMAIN map |-> DoRead(o)] /\ View' = DiskView'
      BY <1>1, <1>2, ViewIs
    <2> QED BY <2>6, <2>7 DEF Flushed
  <1> QED BY <1>3, <1>4

(* A disk with a header has a newest one. *)
LEMMA NewestExists ==
  ASSUME NEW d, Signed(d) # {}, NEW q \in Nat,
         \A b \in Signed(d) : d[b].seq \in Nat /\ d[b].seq <= q
  PROVE  \E m \in Block : IsNewest(d, m)
  <1> DEFINE T == {q - d[b].seq : b \in Signed(d)}
  <1>1. T \in SUBSET Nat /\ T # {}
    OBVIOUS
  <1>2. PICK t \in T : \A u \in T : t <= u
    BY <1>1, LeastNumber
  <1>3. PICK m \in Signed(d) : t = q - d[m].seq
    BY <1>2
  <1>4. \A b \in Signed(d) : q - d[m].seq <= q - d[b].seq
    BY <1>2, <1>3
  <1>5. \A b \in Signed(d) : d[b].seq <= d[m].seq
    BY <1>4
  <1>6. m \in Block
    BY DEF Signed
  <1> QED BY <1>5, <1>6 DEF IsNewest

(* The daemon dies while it writes the current block: what that block had  *)
(* on disk is found elsewhere, so nothing but the size can change.         *)
LEMMA TornReplay ==
  ASSUME DataInv, BlockOK, ~ Tainted, IsOpen, NEW c \in Block,
         c \in Signed(disk) => Superseded(c),
         NEW d, NEW st, Signed(d) = Signed(disk) \ {c},
         \A b \in Block \ {c} : d[b] = disk[b] /\ st[b] = store[b],
         NEW o
  PROVE  Stored(st, ReplayedOf(d, st, o)) = Stored(store, ReplayedOf(disk, store, o))
         /\ (ListingOf(d, st, o) = {} => ReplayedOf(disk, store, o) = Unmapped)
  <1>t. Scubed3TypeOK /\ DiskOK
    BY DEF DataInv
  <1>1. PICK L, K : L = Listing(o) /\ K = ListingOf(d, st, o)
    OBVIOUS
  <1>2. \A b \in K : b \in L /\ b # c /\ b \in Signed(disk) /\ b \in Block
    BY <1>1 DEF Listing, ListingOf, Signed
  <1>3. \A b \in L : b # c => b \in K
    BY <1>1 DEF Listing, ListingOf, Signed
  <1>4. PICK e : e = Replayed(o)
    OBVIOUS
  <1>5. e = ReplayedOf(disk, store, o) /\ L = ListingOf(disk, store, o)
    BY <1>1, <1>4, DiskViewNow
  <1>6. CASE L = {}
    <2>1. K = {}
      BY <1>2, <1>6
    <2>2. ReplayedOf(d, st, o) = Unmapped
      BY <1>1, <2>1, ReplayedNot
    <2>3. e = Unmapped
      BY <1>1, <1>4, <1>6 DEF Replayed
    <2> QED BY <1>5, <2>2, <2>3 DEF Stored
  <1>7. CASE L # {}
    <2>1. Signed(disk) # {}
      BY <1>1, <1>7 DEF Listing
    <2>2. \A b \in Signed(disk) : disk[b].seq \in Nat /\ disk[b].seq <= seqno
      BY HeaderFacts DEF BlockOK
    <2>3. seqno \in Nat
      BY <1>t DEF Scubed3TypeOK, BlockioTypeOK, JugglerTypeOK
    <2>4. PICK m \in Block : IsNewest(disk, m)
      <3>1. PICK h : h = disk
        OBVIOUS
      <3> QED BY <2>1, <2>2, <2>3, <3>1, NewestExists
    <2>5. /\ e \in Place /\ e # Unmapped
          /\ e.b \in L /\ \A b \in L : disk[b].seq <= disk[e.b].seq
          /\ e.k \in DOMAIN store[e.b].off /\ store[e.b].off[e.k] = o
      BY <1>t, <1>1, <1>4, <1>7, <2>4, ReplayedFacts
    <2>6. PICK a : a = e.b
      OBVIOUS
    <2>7. a \in L /\ a \in Signed(disk) /\ a \in Block /\ e = [b |-> a, k |-> e.k]
      BY <1>1, <2>5, <2>6 DEF Listing, Signed, Place
    <2>8. a # c
      <3> SUFFICES ASSUME a = c PROVE FALSE
        OBVIOUS
      <3>1. Superseded(a) /\ e.k \in DOMAIN store[a].off /\ store[a].off[e.k] = o
        BY <2>5, <2>6, <2>7
      <3>2. PICK b \in Signed(disk) :
              /\ disk[b].seq > disk[a].seq
              /\ \E j \in DOMAIN store[b].off : store[b].off[j] = o
        BY <3>1 DEF Superseded
      <3>3. b \in L
        BY <1>1, <3>2 DEF Listing
      <3>4. disk[b].seq <= disk[a].seq
        BY <2>5, <2>6, <3>3
      <3> QED BY <2>2, <2>7, <3>2, <3>4
    <2>9. a \in K /\ st[a] = store[a] /\ d[a] = disk[a]
      BY <1>3, <2>7, <2>8
    <2>10. \A j \in DOMAIN store[a].off : store[a].off[j] = o => j = e.k
      <3>1. IsInjective(store[a].off)
        BY <1>t, <2>7 DEF DiskOK
      <3> QED BY <2>5, <2>6, <3>1 DEF IsInjective
    <2>11. ASSUME NEW b \in K PROVE d[b].seq <= d[a].seq /\ (d[a].seq <= d[b].seq => b = a)
      <3>1. b \in L /\ b # c /\ b \in Signed(disk) /\ d[b] = disk[b]
        BY <1>2
      <3>2. disk[b].seq <= disk[a].seq /\ (disk[b].seq = disk[a].seq => b = a)
        BY <2>5, <2>6, <2>7, <3>1 DEF BlockOK
      <3>3. disk[b].seq \in Nat /\ disk[a].seq \in Nat
        BY <2>2, <2>7, <3>1
      <3> QED BY <2>9, <3>1, <3>2, <3>3
    <2>12. e.k \in DOMAIN st[a].off /\ st[a].off[e.k] = o
      BY <2>5, <2>6, <2>9
    <2>13. ReplayedOf(d, st, o) = [b |-> a, k |-> e.k]
      BY <1>1, <2>9, <2>10, <2>11, <2>12, ReplayedIs
    <2>14. ReplayedOf(d, st, o) = e
      BY <2>7, <2>13
    <2> QED BY <1>1, <1>5, <2>5, <2>6, <2>9, <2>14 DEF Stored
  <1> QED BY <1>6, <1>7

(* So only mesoblocks that were never written can go. *)
LEMMA CrashTornView ==
  ASSUME DataInv, BlockOK, PendingOK, ~ Tainted, CrashTornPartition
  PROVE  \E n \in 0..MaxSize : Shrank(n)
  <1>1. /\ pc = "open" /\ cur # NoBlock /\ pc' = "closed"
        /\ disk' = [disk EXCEPT ![cur] = NoHeader]
        /\ store' = [store EXCEPT ![cur] = NoContents]
    BY DEF CrashTornPartition, CrashTorn
  <1>2. Scubed3TypeOK /\ IsOpen /\ DiskOK /\ seqno \in Nat
    BY <1>1 DEF DataInv, IsOpen, Scubed3TypeOK, BlockioTypeOK, JugglerTypeOK
  <1>3. PICK c \in Block : c = cur
    BY <1>1, <1>2 DEF Scubed3TypeOK, BlockioTypeOK
  <1>4. PICK d, st, h, sh : d = disk' /\ st = store' /\ h = disk /\ sh = store
    OBVIOUS
  <1>5. /\ d[c] = NoHeader
        /\ \A b \in Block \ {c} : d[b] = disk[b] /\ st[b] = store[b]
    <2>1. disk \in [Block -> Header] /\ store \in StoreType
      BY <1>2 DEF Scubed3TypeOK, BlockioTypeOK, StoreType
    <2> QED BY <1>1, <1>3, <1>4, <2>1 DEF StoreType
  <1>6. Signed(d) = Signed(disk) \ {c} /\ Signed(disk) \subseteq Block
    BY <1>5 DEF Signed, NoHeader
  <1>7. c \in Signed(disk) => Superseded(c)
    BY <1>2, <1>3 DEF PendingOK
  <1>8. /\ \A o : Stored(st, ReplayedOf(d, st, o)) = Stored(store, ReplayedOf(disk, store, o))
        /\ \A o : ListingOf(d, st, o) = {} => ReplayedOf(disk, store, o) = Unmapped
    BY <1>2, <1>5, <1>6, <1>7, TornReplay
  <1>9. \A b \in Signed(disk) : /\ disk[b].seq \in Nat /\ disk[b].seq <= seqno
                                /\ SizeOf(disk[b]) \in Nat
    BY <1>2, HeaderFacts DEF BlockOK
  <1>10. \A b \in Signed(d) : d[b] = disk[b] /\ b \in Signed(disk) /\ b # c /\ st[b] = store[b]
    BY <1>5, <1>6
  <1>11. DiskView = DiskViewOf(disk, store) /\ DiskView' = DiskViewOf(d, st) /\ View' = DiskView'
    BY <1>1, <1>4, DiskViewNow, ViewIs
  <1>12. CASE Signed(disk) = {}
    <2>1. DiskView = EmptyMap /\ DiskView' = EmptyMap
      BY <1>6, <1>11, <1>12 DEF DiskViewOf
    <2>2. Shrank(0)
      BY <1>11, <2>1 DEF Shrank, EmptyMap
    <2>3. 0 \in 0..MaxSize
      BY MaxSizeFacts
    <2> QED BY <2>2, <2>3
  <1>13. CASE Signed(disk) # {}
    <2>1. PICK m \in Block : IsNewest(h, m)
      BY <1>2, <1>4, <1>9, <1>13, NewestExists
    <2>2. m \in Signed(disk) /\ \A b \in Signed(disk) : disk[b].seq <= disk[m].seq
      BY <1>4, <2>1 DEF IsNewest
    <2>3. \A b \in Signed(h) : h[m].seq <= h[b].seq => b = m
      <3> TAKE b \in Signed(h)
      <3>1. disk[b].seq <= disk[m].seq /\ (disk[b].seq = disk[m].seq => b = m)
        BY <1>4, <2>2 DEF BlockOK
      <3> QED BY <1>4, <1>9, <2>2, <3>1
    <2>4. PICK z \in Nat : z = SizeOf(disk[m])
      BY <1>9, <2>2
    <2>5. DiskView = [o \in 0..(z - 1) |-> Stored(store, ReplayedOf(disk, store, o))]
      <3>1. DiskViewOf(h, sh) = [o \in 0..(z - 1) |-> Stored(sh, ReplayedOf(h, sh, o))]
        BY <1>4, <2>1, <2>3, <2>4, DiskViewIs
      <3> QED BY <1>4, <1>11, <3>1
    <2>6. CASE Signed(d) = {}
      <3>1. DiskView' = EmptyMap
        BY <1>11, <2>6 DEF DiskViewOf
      <3>2. \A o : ReplayedOf(disk, store, o) = Unmapped
        BY <1>8, <2>6 DEF ListingOf
      <3>3. \A o \in DOMAIN DiskView : DiskView[o] = ZeroContent
        BY <2>5, <3>2 DEF Stored
      <3>4. Shrank(0)
        BY <1>11, <3>1, <3>3 DEF Shrank, EmptyMap
      <3>5. 0 \in 0..MaxSize
        BY MaxSizeFacts
      <3> QED BY <3>4, <3>5
    <2>7. CASE Signed(d) # {}
      <3>1. PICK a \in Block : IsNewest(d, a)
        BY <1>2, <1>9, <1>10, <2>7, NewestExists
      <3>2. a \in Signed(d) /\ \A b \in Signed(d) : d[b].seq <= d[a].seq
        BY <3>1 DEF IsNewest
      <3>3. \A b \in Signed(d) : d[a].seq <= d[b].seq => b = a
        <4> TAKE b \in Signed(d)
        <4>1. disk[b].seq <= disk[a].seq /\ (disk[b].seq = disk[a].seq => b = a)
          BY <1>10, <3>2 DEF BlockOK
        <4> QED BY <1>9, <1>10, <3>2, <4>1
      <3>4. PICK n \in Nat : n = SizeOf(d[a])
        BY <1>9, <1>10, <3>2
      <3>5. n <= z /\ n \in 0..MaxSize
        <4>1. a \in Signed(disk) /\ n = SizeOf(disk[a])
          BY <1>10, <3>2, <3>4
        <4>2. SizeOf(disk[a]) <= SizeOf(disk[m])
          BY <1>2, <2>2, <4>1 DEF DiskOK
        <4>3. 0..(n - 1) \subseteq Offset
          BY <4>1, HeaderFacts
        <4> QED BY <2>4, <4>1, <4>2, <4>3, MaxSizeFacts
      <3>6. DiskView' = [o \in 0..(n - 1) |-> Stored(st, ReplayedOf(d, st, o))]
        BY <1>11, <3>1, <3>3, <3>4, DiskViewIs
      <3>7. \A o \in 0..(n - 1) : o \in 0..(z - 1)
        BY <3>5
      <3>8. ASSUME NEW o \in 0..(z - 1), o \notin 0..(n - 1)
            PROVE  DiskView[o] = ZeroContent
        <4>1. ListingOf(d, st, o) = {}
          <5> SUFFICES ASSUME NEW b \in ListingOf(d, st, o) PROVE FALSE
            OBVIOUS
          <5>1. b \in Signed(d) /\ \E k \in DOMAIN st[b].off : st[b].off[k] = o
            BY DEF ListingOf
          <5>2. b \in Signed(disk) /\ \E k \in DOMAIN store[b].off : store[b].off[k] = o
            BY <1>10, <5>1
          <5>3. o < SizeOf(disk[b])
            BY <1>2, <5>2 DEF DiskOK
          <5>4. SizeOf(disk[b]) <= n
            BY <1>2, <1>10, <3>2, <3>4, <5>1 DEF DiskOK
          <5> QED BY <1>9, <3>8, <5>2, <5>3, <5>4
        <4>2. ReplayedOf(disk, store, o) = Unmapped
          BY <1>8, <4>1
        <4> QED BY <2>5, <4>2 DEF Stored
      <3>9. DiskView' = [o \in 0..(n - 1) |-> DiskView[o]]
        BY <1>8, <2>5, <3>6, <3>7
      <3>10. Shrank(n)
        BY <1>11, <2>5, <3>7, <3>8, <3>9 DEF Shrank
      <3> QED BY <3>5, <3>10
    <2> QED BY <2>6, <2>7
  <1> QED BY <1>12, <1>13

(* Every step is one of the block store. *)
LEMMA StoreStep ==
  ASSUME DataInv, BlockOK, PendingOK, DataInv', BlockOK', [Scubed3Next]_vars
  PROVE  [S!StoreNext]_(S!svars)
  <1>1. CASE Tainted'
    BY <1>1, Spoiled
  <1>2. CASE ~ Tainted'
    <2>1. ~ Tainted
      <3>1. hist \in [self : BOOLEAN, skip : BOOLEAN]
        BY DEF DataInv, Scubed3TypeOK
      <3>2. hist' = hist \/ \E s : hist' = NotedWrite(s)
        <4>1. CASE \E o \in DOMAIN map : \E parts \in SUBSET Part \ {{}} : \E v \in Value :
                     DoWrite(o, parts, v)
          BY <4>1 DEF DoWrite, Die, Continue
        <4>2. CASE FlushCopy
          BY <4>2 DEF FlushCopy, Die, Continue
        <4>3. CASE FlushCurrent \/ Cycle
          BY <4>3 DEF FlushCurrent, Cycle, WriteContents, Die
        <4>4. CASE ClosePartition
          BY <4>4 DEF ClosePartition
        <4>5. CASE CreatePartition \/ OpenPartition \/ SelectNext \/ ResizePartition
                   \/ CrashPartition \/ CrashTornPartition
          BY <4>5 DEF CreatePartition, OpenPartition, SelectNext, ResizePartition,
                      CrashPartition, CrashTornPartition
        <4>6. CASE UNCHANGED vars
          BY <4>6 DEF vars, svars
        <4> QED BY <4>1, <4>2, <4>3, <4>4, <4>5, <4>6 DEF Scubed3Next
      <3>3. CASE hist' = hist
        BY <1>2, <3>3 DEF Tainted
      <3>4. ASSUME NEW s, hist' = NotedWrite(s) PROVE ~ Tainted
        <4>1. (hist.self => hist'.self) /\ (hist.skip => hist'.skip)
          BY <3>1, <3>4 DEF NotedWrite
        <4> QED BY <1>2, <4>1 DEF Tainted
      <3> QED BY <3>2, <3>3, <3>4
    <2>2. \/ Steady \/ Flushed \/ Lost \/ (\E r : Wrote(r))
          \/ \E n \in 0..MaxSize : Grew(n) \/ Shrank(n)
      <3>1. CASE CreatePartition
        BY <3>1, CreateView
      <3>2. CASE OpenPartition
        BY <3>2, OpenView
      <3>3. CASE SelectNext
        BY <2>1, <3>3, SelectView
      <3>4. ASSUME NEW o \in DOMAIN map, NEW parts \in SUBSET Part \ {{}}, NEW v \in Value,
                   DoWrite(o, parts, v)
            PROVE  Steady \/ Lost \/ \E r : Wrote(r)
        BY <2>1, <3>4, DoWriteView
      <3>5. CASE FlushCurrent
        BY <2>1, <3>5, FlushCurrentView
      <3>6. CASE FlushCopy
        BY <2>1, <3>6, FlushCopyView
      <3>7. CASE Cycle
        BY <2>1, <3>7, CycleView
      <3>8. CASE ResizePartition
        BY <2>1, <3>8, ResizeView
      <3>9. CASE ClosePartition
        BY <2>1, <3>9, CloseView
      <3>10. CASE CrashPartition
        BY <3>10, GoneView DEF CrashPartition, Crash
      <3>11. CASE CrashTornPartition
        BY <2>1, <3>11, CrashTornView
      <3>12. CASE UNCHANGED vars
        <4>1. UNCHANGED <<disk, store, pc, map, ram, cur, bseq>>
          BY <3>12 DEF vars, bvars, svars, jvars, devvars
        <4>2. DiskView' = DiskView
          BY <4>1, DiskViewSame
        <4>3. CASE IsOpen
          <5>1. IsOpen' /\ Now.map = map /\ Now.ram = ram
            BY <4>1, <4>3 DEF IsOpen, Now
          <5>2. \A o \in DOMAIN map : ReadOf(Now, o) = DoRead(o)
            BY DEF ReadOf, DoRead, Now
          <5>3. PICK s : s = Now
            OBVIOUS
          <5>4. View = [o \in DOMAIN map |-> DoRead(o)]
                /\ View' = [o \in DOMAIN map |-> ReadOf(s, o)]
            BY <4>1, <4>3, <5>1, <5>3, RamView
          <5> QED BY <4>2, <5>2, <5>3, <5>4 DEF Steady
        <4>4. CASE ~ IsOpen
          <5>1. pc = "closed" /\ pc' = "closed"
            BY <4>1, <4>4 DEF BlockOK, BlockioTypeOK, IsOpen
          <5> QED BY <4>2, <5>1, ViewIs DEF Steady
        <4> QED BY <4>3, <4>4
      <3> QED BY <3>1, <3>2, <3>3, <3>4, <3>5, <3>6, <3>7, <3>8, <3>9, <3>10, <3>11, <3>12
              DEF Scubed3Next
    <2> QED BY <1>2, <2>1, <2>2, Allowed
  <1> QED BY <1>1, <1>2

(* Until a block that holds data is overwritten, a partition is a block    *)
(* store, for any number of blocks and any history of requests, garbage    *)
(* collection, resizes and crashes: a read returns the last write, a flush *)
(* makes all of it durable at once, and a crash, also in the middle of a   *)
(* write, goes back to exactly the state of the last flush (only an        *)
(* enlargement that nothing was written in may be undone as well).         *)
THEOREM PartitionIsStore == Scubed3Spec => ImplementsStore
  <1>1. Scubed3Init => S!StoreInit
    <2> SUFFICES ASSUME Scubed3Init PROVE S!StoreInit
      OBVIOUS
    <2>1. pc = "closed" /\ Signed(disk) = {} /\ ~ Tainted
      BY DEF Scubed3Init, BlockioInit, Signed, NoHeader, Tainted
    <2>2. DiskView = EmptyMap /\ View = EmptyMap
      BY <2>1, ViewIs DEF DiskView
    <2>3. EmptyMap = S!Empty
      BY DEF EmptyMap, S!Empty
    <2> QED BY <2>1, <2>2, <2>3 DEF S!StoreInit
  <1>2. DataInv /\ BlockOK /\ PendingOK /\ DataInv' /\ BlockOK' /\ [Scubed3Next]_vars
          => [S!StoreNext]_(S!svars)
    BY StoreStep
  <1> QED BY <1>1, <1>2, BlockInvariant, DataInvariant, PendingInvariant, PTL
          DEF Scubed3Spec, ImplementsStore, S!StoreSpec

============================================================================
