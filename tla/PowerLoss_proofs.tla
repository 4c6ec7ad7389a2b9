-------------------------- MODULE PowerLoss_proofs --------------------------
(***************************************************************************)
(* Proofs about PowerLoss, and with it about Blockio: whatever is written, *)
(* and whenever the daemon dies or the power fails, an open is not fatal,  *)
(* a schedule that is not sound is one the open has warned about, there is *)
(* no false alarm, and no seqno is used twice.                             *)
(*                                                                         *)
(* All of it is proved from one inductive invariant, PowerInv.  Before it  *)
(* come the proofs about Juggler, on which Blockio rests: the schedule     *)
(* alone keeps JugglerInv.                                                 *)
(***************************************************************************)
EXTENDS PowerLoss, FunctionTheorems, FiniteSetTheorems,
        WellFoundedInduction, TLAPS

----------------------------------------------------------------------------
(* The schedule. *)

(* The inductive invariant.  BlockAvailable alone is not inductive: a      *)
(* selection consumes the block that is due, and that the slot after it is *)
(* owned or an unscheduled block is left is what NextSlots forces.  For    *)
(* that argument a slot must have one owner and lie in the future.         *)
JugglerInv ==
  /\ JugglerTypeOK
  /\ scheduled \cap unscheduled = {}
  /\ NoMissedSlot
  /\ SlotsUnique
  /\ BlockAvailable

(* A slot that juggler_get_devblock chooses is a number beyond the one     *)
(* just handed out, and no other scheduled block owns it.                  *)
LEMMA NextSlotsFree ==
  ASSUME JugglerTypeOK, NEW b \in Block, NEW n \in NextSlots(b)
  PROVE  /\ n \in Nat
         /\ n > seqno + 1
         /\ \A c \in scheduled \ {b} : bnext[c] # n
  BY SeqnoAssumption DEF JugglerTypeOK, NextSlots

(* When no unscheduled block is left and nobody owns the slot after the    *)
(* one just handed out, the selected block takes that slot itself.         *)
LEMMA NextSlotsForced ==
  ASSUME JugglerTypeOK, NEW b \in Block, NEW n \in NextSlots(b),
         unscheduled \ {b} = {},
         \A c \in scheduled \ {b} : bnext[c] # seqno + 2
  PROVE  n = seqno + 2
<1>1. n \in (seqno + 2)..(seqno + 1 + Horizon)
  BY DEF NextSlots
<1>2. seqno + 2 \in (seqno + 2)..(seqno + 1 + Horizon)
  BY <1>1, SeqnoAssumption DEF JugglerTypeOK
<1>. QED
  BY <1>2 DEF NextSlots

(* An empty juggler satisfies the invariant. *)
LEMMA JugglerInitInv == JugglerInit => JugglerInv
  BY DEF JugglerInit, JugglerInv, JugglerTypeOK, NoMissedSlot, SlotsUnique,
         BlockAvailable, Members

(* juggler_add_macroblock of a new block keeps the invariant: there is     *)
(* an unscheduled block now.                                               *)
LEMMA AddNewInv ==
  ASSUME JugglerInv, NEW b \in Block, AddNew(b)
  PROVE  JugglerInv'
<1>. USE DEF JugglerInv, AddNew, Members
<1>1. JugglerTypeOK'
  BY DEF JugglerTypeOK
<1>2. (scheduled \cap unscheduled = {})'
  OBVIOUS
<1>3. \A c \in scheduled : bnext'[c] = bnext[c] /\ bseq'[c] = bseq[c]
  BY DEF JugglerTypeOK
<1>4. NoMissedSlot' /\ SlotsUnique'
  BY <1>3 DEF NoMissedSlot, SlotsUnique
<1>5. BlockAvailable'
  BY DEF BlockAvailable, Candidates
<1>. QED
  BY <1>1, <1>2, <1>4, <1>5

(* juggler_get_devblock keeps the invariant. *)
LEMMA GetDevblockInv ==
  ASSUME JugglerInv, NEW b \in Block, NEW n \in NextSlots(b),
         GetDevblock(b, n)
  PROVE  JugglerInv'
<1>. USE DEF JugglerInv
<1>1. /\ n \in Nat
      /\ n > seqno + 1
      /\ \A c \in scheduled \ {b} : bnext[c] # n
  BY NextSlotsFree
<1>2. JugglerTypeOK'
  BY <1>1 DEF JugglerTypeOK, GetDevblock
<1>3. (scheduled \cap unscheduled = {})'
  BY DEF GetDevblock
<1>4. /\ scheduled' = scheduled \cup {b}
      /\ seqno' = seqno + 1
      /\ bseq'[b] = seqno + 1 /\ bnext'[b] = n
      /\ \A c \in scheduled \ {b} : bseq'[c] = bseq[c] /\ bnext'[c] = bnext[c]
  BY DEF JugglerTypeOK, GetDevblock
<1>5. \A c \in scheduled \ {b} : bnext[c] # seqno + 1
  <2>1. CASE Obsoleted = {}
    BY <2>1 DEF Obsoleted, OwnerOf
  <2>2. CASE Obsoleted # {}
    <3>1. b \in scheduled /\ bnext[b] = seqno + 1
      BY <2>2 DEF GetDevblock, Candidates, Obsoleted, OwnerOf
    <3>. QED
      BY <3>1 DEF SlotsUnique
  <2>. QED
    BY <2>1, <2>2
<1>6. NoMissedSlot'
  <2>. SUFFICES ASSUME NEW c \in scheduled \cup {b}
                PROVE  bseq'[c] <= seqno + 1 /\ seqno + 1 < bnext'[c]
    BY <1>4 DEF NoMissedSlot
  <2>1. CASE c = b
    BY <2>1, <1>1, <1>4 DEF JugglerTypeOK
  <2>2. CASE c # b
    <3>1. bseq[c] <= seqno /\ seqno < bnext[c] /\ bnext[c] # seqno + 1
      BY <2>2, <1>5 DEF NoMissedSlot
    <3>2. bseq[c] \in Nat /\ bnext[c] \in Nat /\ seqno \in Nat
      BY <2>2 DEF JugglerTypeOK
    <3>. QED
      BY <2>2, <3>1, <3>2, <1>4
  <2>. QED
    BY <2>1, <2>2
<1>7. SlotsUnique'
  BY <1>1, <1>4 DEF SlotsUnique
<1>8. BlockAvailable'
  <2>. SUFFICES ASSUME unscheduled \ {b} = {}
                PROVE  \E c \in scheduled \cup {b} : bnext'[c] = seqno + 2
    <3>1. unscheduled' = unscheduled \ {b}
      BY DEF GetDevblock
    <3>2. seqno' + 1 = seqno + 2
      BY <1>4 DEF JugglerTypeOK
    <3>. QED
      BY <1>4, <3>1, <3>2 DEF BlockAvailable, Candidates, Obsoleted, OwnerOf
  <2>1. CASE \E c \in scheduled \ {b} : bnext[c] = seqno + 2
    BY <2>1, <1>4
  <2>2. CASE \A c \in scheduled \ {b} : bnext[c] # seqno + 2
    <3>1. n = seqno + 2
      BY <2>2, NextSlotsForced
    <3>. QED
      BY <3>1, <1>4
  <2>. QED
    BY <2>1, <2>2
<1>. QED
  BY <1>2, <1>3, <1>6, <1>7, <1>8

(* Discarding the block that is due keeps the invariant, by                *)
(* juggler_discard_possible.                                               *)
LEMMA DiscardDueInv ==
  ASSUME JugglerInv, NEW b \in Block, DiscardDue(b)
  PROVE  JugglerInv'
<1>. USE DEF JugglerInv
<1>1. JugglerTypeOK'
  BY DEF JugglerTypeOK, DiscardDue
<1>2. (scheduled \cap unscheduled = {})'
  BY DEF DiscardDue
<1>3. /\ b \in scheduled /\ bnext[b] = seqno + 1
      /\ scheduled' = scheduled \ {b}
      /\ unscheduled' = unscheduled
      /\ seqno' = seqno + 1
      /\ \A c \in scheduled \ {b} : bseq'[c] = bseq[c] /\ bnext'[c] = bnext[c]
  BY DEF JugglerTypeOK, DiscardDue, Obsoleted, OwnerOf
<1>4. NoMissedSlot'
  <2>. SUFFICES ASSUME NEW c \in scheduled \ {b}
                PROVE  bseq[c] <= seqno + 1 /\ seqno + 1 < bnext[c]
    BY <1>3 DEF NoMissedSlot
  <2>1. bseq[c] <= seqno /\ seqno < bnext[c] /\ bnext[c] # seqno + 1
    BY <1>3 DEF NoMissedSlot, SlotsUnique
  <2>2. bseq[c] \in Nat /\ bnext[c] \in Nat /\ seqno \in Nat
    BY DEF JugglerTypeOK
  <2>. QED
    BY <2>1, <2>2
<1>5. SlotsUnique'
  BY <1>3 DEF SlotsUnique
<1>6. BlockAvailable'
  <2>1. CASE unscheduled # {}
    BY <2>1, <1>3 DEF BlockAvailable, Candidates
  <2>2. CASE unscheduled = {}
    <3>1. PICK c \in scheduled : bnext[c] = seqno + 2
      BY <2>2 DEF DiscardDue, DiscardDuePossible, OwnerOf
    <3>2. c # b
      BY <3>1, <1>3 DEF JugglerTypeOK
    <3>3. seqno' + 1 = seqno + 2
      BY <1>3 DEF JugglerTypeOK
    <3>. QED
      BY <3>1, <3>2, <3>3, <1>3
      DEF BlockAvailable, Candidates, Obsoleted, OwnerOf
  <2>. QED
    BY <2>1, <2>2
<1>. QED
  BY <1>1, <1>2, <1>4, <1>5, <1>6

(* Discarding an unscheduled block keeps the invariant: another one is     *)
(* left.                                                                   *)
LEMMA DiscardUnscheduledInv ==
  ASSUME JugglerInv, NEW b \in Block, DiscardUnscheduled(b)
  PROVE  JugglerInv'
<1>. USE DEF JugglerInv, DiscardUnscheduled
<1>1. JugglerTypeOK'
  BY DEF JugglerTypeOK
<1>2. (scheduled \cap unscheduled = {})'
  OBVIOUS
<1>3. \A c \in scheduled : bnext'[c] = bnext[c] /\ bseq'[c] = bseq[c]
  BY DEF JugglerTypeOK
<1>4. NoMissedSlot' /\ SlotsUnique'
  BY <1>3 DEF NoMissedSlot, SlotsUnique
<1>5. unscheduled' # {}
  BY DEF DiscardUnscheduledPossible
<1>6. BlockAvailable'
  BY <1>5 DEF BlockAvailable, Candidates
<1>. QED
  BY <1>1, <1>2, <1>4, <1>6

(* Every step of the juggler keeps the invariant. *)
LEMMA JugglerNextInv ==
  ASSUME JugglerInv, [JugglerNext]_jvars
  PROVE  JugglerInv'
<1>1. CASE \E b \in Block : AddNew(b)
  BY <1>1, AddNewInv
<1>2. CASE \E b \in Block : \E n \in NextSlots(b) : GetDevblock(b, n)
  BY <1>2, GetDevblockInv
<1>3. CASE \E b \in Block : DiscardDue(b)
  BY <1>3, DiscardDueInv
<1>4. CASE \E b \in Block : DiscardUnscheduled(b)
  BY <1>4, DiscardUnscheduledInv
<1>5. CASE JugglerFree
  BY <1>5 DEF JugglerFree, JugglerInv, JugglerTypeOK, NoMissedSlot,
              SlotsUnique, BlockAvailable, Members
<1>6. CASE UNCHANGED jvars
  BY <1>6 DEF jvars, JugglerInv, JugglerTypeOK, NoMissedSlot, SlotsUnique,
              BlockAvailable, Members, Candidates, Obsoleted, OwnerOf
<1>. QED
  BY <1>1, <1>2, <1>3, <1>4, <1>5, <1>6 DEF JugglerNext

(* The schedule is never broken: every reachable state of juggler.c        *)
(* satisfies the inductive invariant.                                      *)
THEOREM JugglerCorrect == JugglerSpec => []JugglerInv
<1>1. JugglerInit => JugglerInv
  BY JugglerInitInv
<1>2. JugglerInv /\ [JugglerNext]_jvars => JugglerInv'
  BY JugglerNextInv
<1>. QED
  BY <1>1, <1>2, PTL DEF JugglerSpec

(* The schedule can always go on: juggler_get_devblock finds a block, no   *)
(* slot is owned twice, so that the assertion of juggler_add_macroblock    *)
(* holds for the headers of the blocks, and none is missed.                *)
THEOREM JugglerScheduleSound == JugglerSpec => []ScheduleSound
<1>1. JugglerInv => ScheduleSound
  BY DEF JugglerInv, ScheduleSound
<1>. QED
  BY <1>1, JugglerCorrect, PTL

(* A scheduled block is rewritten exactly when its slot comes up. *)
THEOREM JugglerScheduleKept == JugglerSpec => ScheduleKept
<1>. DEFINE Kept(b) ==
       \/ bnext'[b] = bnext[b] /\ (b \in scheduled' \/ Members' = {})
       \/ seqno' = bnext[b] /\ bseq'[b] = bnext[b]
<1>1. ASSUME JugglerInv, [JugglerNext]_jvars, NEW c \in scheduled
      PROVE  Kept(c) \/ UNCHANGED jvars
  <2>. USE <1>1 DEF JugglerInv
  <2>1. ASSUME NEW b \in Block, AddNew(b) PROVE Kept(c)
    BY <2>1 DEF AddNew, Members, JugglerTypeOK
  <2>2. ASSUME NEW b \in Block, NEW n \in NextSlots(b), GetDevblock(b, n)
        PROVE  Kept(c)
    <3>1. CASE c # b
      BY <3>1, <2>2 DEF GetDevblock, JugglerTypeOK
    <3>2. CASE c = b
      <4>1. bnext[b] = seqno + 1
        BY <3>2, <2>2 DEF GetDevblock, Candidates, Obsoleted, OwnerOf
      <4>. QED
        BY <3>2, <4>1, <2>2 DEF GetDevblock, JugglerTypeOK
    <3>. QED
      BY <3>1, <3>2
  <2>3. ASSUME NEW b \in Block, DiscardDue(b) PROVE Kept(c)
    BY <2>3 DEF DiscardDue, Obsoleted, OwnerOf, JugglerTypeOK
  <2>4. ASSUME NEW b \in Block, DiscardUnscheduled(b) PROVE Kept(c)
    BY <2>4 DEF DiscardUnscheduled, JugglerTypeOK
  <2>5. CASE JugglerFree
    BY <2>5 DEF JugglerFree, Members
  <2>. QED
    BY <2>1, <2>2, <2>3, <2>4, <2>5 DEF JugglerNext
<1>2. JugglerInv /\ [JugglerNext]_jvars => [\A b \in scheduled : Kept(b)]_jvars
  BY <1>1 DEF jvars
<1>. QED
  BY <1>2, JugglerCorrect, PTL DEF JugglerSpec, ScheduleKept

----------------------------------------------------------------------------
(* The schedule with the disk, a crash and a power failure. *)

(* The headers of block b that may be read in the future: what is on the   *)
(* disk, and what a power failure can bring back.                          *)
Versions(b) ==
  {h \in {disk[b]} \cup (IF torn THEN {} ELSE {platter[b]}) : h.seq # 0}

(* The seqnos that went into the hash of a header. *)
Hashed(g) == {p[1] : p \in g.hash}

(* How two headers that may be found together fit: the later one claims    *)
(* the earlier block; a seqno identifies a header; slots are unique; the   *)
(* slot of a block whose seqno was hashed was still to come; and a version *)
(* was replaced when its slot had come.                                    *)
Fits(b, h, c, g) ==
  /\ h.seq <= g.seq => b \in g.used
  /\ h.seq = g.seq => b = c /\ h = g
  /\ h.next = g.next => b = c
  /\ h.seq \in Hashed(g) => g.seq < h.next
  /\ b = c /\ h.seq < g.seq => h.next <= g.seq

(* When a header was written, an unscheduled block was left (its seqno is  *)
(* not in the hash) or a block of the hash owned the next slot.            *)
Promise(g) ==
  \/ Cardinality(Hashed(g)) < g.nmac
  \/ \E s \in Hashed(g) : \A b \in Block : \A h \in Versions(b) :
       h.seq = s => h.next = g.seq + 1

HeadersOK ==
  /\ \A b, c \in Block : \A h \in Versions(b), g \in Versions(c) :
       Fits(b, h, c, g)
  /\ \A c \in Block : \A g \in Versions(c) :
       /\ g.nmac = Cardinality(g.used)
       /\ \A s \in Hashed(g) : s <= g.seq
       /\ Promise(g)
  /\ ~ torn => \A b \in Block : platter[b].seq <= disk[b].seq

(* As long as no power failure has erased a write, every slot on the disk  *)
(* is later than every seqno; and behind every header there is a block it  *)
(* claims that was due then, has been written since or has no header.      *)
DiskGoesOn ==
  "erased" \notin damage =>
    /\ \A b, c \in Signed(disk) : disk[b].seq < disk[c].next
    /\ \A c \in Signed(disk) : \E b \in disk[c].used :
         \/ b \notin Signed(disk)
         \/ disk[b].seq > disk[c].seq
         \/ disk[b].next = disk[c].seq + 1

(* Without damage the newest header has the hash of what is found. *)
HashOK ==
  /\ ~ torn /\ damage = {} =>
       \A m \in Block : IsNewest(disk, m) =>
         disk[m].hash = SeqnosHash(Signed(disk), DiskSeq(disk), DiskNext(disk))
  /\ WarningMeansDamage

(* hiseq bounds the seqnos, and without damage it is on the disk. *)
HiseqOK ==
  /\ \A b \in Block : disk[b].seq <= hiseq /\ platter[b].seq <= hiseq
  /\ ~ torn /\ "torn" \notin damage =>
       hiseq = 0 \/ \E b \in Signed(disk) : disk[b].seq = hiseq

IsOpen == pc \in {"open", "select", "selectResized"}

(* What an open device knows of the disk. *)
RamOK ==
  IsOpen =>
    /\ used = scheduled \cup unscheduled
    /\ scheduled \cap unscheduled = {}
    /\ nmac = Cardinality(used)
    /\ scheduled = Signed(disk) \cup (IF cur = NoBlock THEN {} ELSE {cur})
    /\ \A c \in Signed(disk) \ {cur} :
         bseq[c] = disk[c].seq /\ bnext[c] = disk[c].next
    /\ \A c \in Signed(disk) : disk[c].seq <= seqno

(* The current block has been selected and is not yet written. *)
CurOK ==
  cur # NoBlock =>
    /\ pc = "open" /\ ScheduleSound
    /\ seqno > 0 /\ bseq[cur] = seqno /\ seqno < bnext[cur]
    /\ \A c \in Signed(disk) : disk[c].seq < seqno
    /\ cur \in Signed(disk) => disk[cur].next = seqno

(* A closed device has nothing in memory. *)
ClosedOK ==
  pc = "closed" =>
    /\ scheduled = {} /\ unscheduled = {} /\ seqno = 0
    /\ cur = NoBlock /\ used = {} /\ nmac = 0 /\ ~ warned

PowerTypeOK ==
  /\ BlockioTypeOK
  /\ platter \in [Block -> Header]
  /\ failures \in Nat
  /\ damage \subseteq {"torn", "erased"}

PowerInv ==
  /\ PowerTypeOK /\ OpenNeverFatal
  /\ HeadersOK /\ DiskGoesOn /\ HashOK /\ HiseqOK
  /\ RamOK /\ CurOK /\ ClosedOK /\ ScheduleSurvives

----------------------------------------------------------------------------
(* Facts about headers and about numbers. *)

(* A set of numbers that is not empty has a least one. *)
LEMMA LeastNumber ==
  ASSUME NEW T \in SUBSET Nat, T # {}
  PROVE  \E t \in T : \A u \in T : t <= u
  <1>1. PICK t \in T : \A u \in T : ~ (<<u, t>> \in OpToRel(<, Nat))
    BY NatLessThanWellFounded, WFMin
  <1>2. \A u \in T : ~ (u < t)
    BY <1>1 DEF OpToRel
  <1> QED BY <1>2

(* A set of numbers with a bound has a greatest one. *)
LEMMA GreatestNumber ==
  ASSUME NEW T \in SUBSET Nat, T # {}, NEW m \in Nat, \A t \in T : t <= m
  PROVE  \E t \in T : \A u \in T : u <= t
  <1> DEFINE D == {m - t : t \in T}
  <1>1. D \in SUBSET Nat /\ D # {}
    <2>1. \A t \in T : t \in Nat /\ t <= m
      OBVIOUS
    <2>2. \A t \in T : m - t \in Nat
      BY <2>1
    <2> QED BY <2>2
  <1>2. PICK d \in D : \A u \in D : d <= u
    BY <1>1, LeastNumber
  <1>3. PICK t \in T : d = m - t
    OBVIOUS
  <1>4. ASSUME NEW u \in T PROVE u <= t
    <2>1. m - t <= m - u
      BY <1>2, <1>3
    <2> QED BY <2>1
  <1> QED BY <1>4

(* The fields of a header. *)
LEMMA HeaderFields ==
  ASSUME NEW h \in Header
  PROVE  /\ h.seq \in Nat /\ h.next \in Nat /\ h.used \in SUBSET Block
         /\ h.nmac \in Nat /\ h.reserved \in Nat
         /\ h.hash \in SUBSET (Nat \X SUBSET Nat)
  BY DEF Header

(* The numbers of a header. *)
LEMMA HeaderNumbers ==
  ASSUME NEW h \in Header
  PROVE  h.seq \in Nat /\ h.next \in Nat /\ h.nmac \in Nat
  BY HeaderFields

(* A block without a signature. *)
LEMMA NoHeaderFields == NoHeader \in Header /\ NoHeader.seq = 0
  BY DEF NoHeader, Header

(* What the type invariant says of the headers. *)
LEMMA DiskTypes ==
  ASSUME PowerTypeOK
  PROVE  /\ \A b \in Block : disk[b] \in Header /\ platter[b] \in Header
         /\ \A b \in Block : Versions(b) \subseteq Header
         /\ \A b \in Signed(disk) : b \in Block /\ disk[b] \in Versions(b)
                                    /\ disk[b].seq > 0
         /\ Signed(disk) \subseteq Block
  <1>1. \A b \in Block : disk[b] \in Header /\ platter[b] \in Header
    BY DEF PowerTypeOK, BlockioTypeOK
  <1>2. \A b \in Block : Versions(b) \subseteq Header
    BY <1>1 DEF Versions
  <1>3. \A b \in Signed(disk) : b \in Block /\ disk[b].seq # 0
    BY DEF Signed
  <1>4. ASSUME NEW b \in Signed(disk) PROVE disk[b].seq > 0
    <2>1. disk[b].seq \in Nat
      BY <1>1, <1>3, HeaderNumbers
    <2> QED BY <1>3, <2>1
  <1>5. \A b \in Signed(disk) : disk[b] \in Versions(b)
    BY <1>3 DEF Versions
  <1> QED BY <1>1, <1>2, <1>3, <1>4, <1>5

(* A version is what is on the disk or an older header of a signed block. *)
LEMMA VersionsOld ==
  ASSUME PowerTypeOK, HeadersOK, NEW b \in Block, NEW h \in Versions(b)
  PROVE  /\ h \in Header /\ h.seq > 0 /\ b \in Signed(disk)
         /\ h.seq <= disk[b].seq
         /\ h = disk[b] \/ (h.seq < disk[b].seq /\ h.next <= disk[b].seq)
  <1>1. h \in Header /\ disk[b] \in Header /\ h.seq \in Nat /\ disk[b].seq \in Nat
    BY DiskTypes, HeaderFields
  <1>2. h.seq # 0
    BY DEF Versions
  <1>3. h.seq <= disk[b].seq
    <2>1. h = disk[b] \/ (~ torn /\ h = platter[b])
      BY DEF Versions
    <2> QED BY <1>1, <2>1 DEF HeadersOK
  <1>4. b \in Signed(disk)
    BY <1>1, <1>2, <1>3 DEF Signed
  <1>5. Fits(b, h, b, disk[b])
    BY <1>4, DiskTypes DEF HeadersOK
  <1>6. h = disk[b] \/ (h.seq < disk[b].seq /\ h.next <= disk[b].seq)
    BY <1>1, <1>3, <1>5 DEF Fits
  <1> QED BY <1>1, <1>2, <1>3, <1>4, <1>6

(* Versions that disappear leave the others as they fit. *)
LEMMA HeadersShrink ==
  ASSUME HeadersOK, \A b \in Block : Versions(b)' \subseteq Versions(b),
         ~ torn' => \A b \in Block : platter'[b].seq <= disk'[b].seq
  PROVE  HeadersOK'
  <1>1. \A b, c \in Block : \A h \in Versions(b)', g \in Versions(c)' :
          Fits(b, h, c, g)
    BY DEF HeadersOK
  <1>2. ASSUME NEW c \in Block, NEW g \in Versions(c)'
        PROVE  /\ g.nmac = Cardinality(g.used)
               /\ \A s \in Hashed(g) : s <= g.seq
               /\ Promise(g)'
    <2>1. /\ g \in Versions(c) /\ g.nmac = Cardinality(g.used)
          /\ \A s \in Hashed(g) : s <= g.seq
          /\ Promise(g)
      BY DEF HeadersOK
    <2>2. CASE Cardinality(Hashed(g)) < g.nmac
      BY <2>1, <2>2 DEF Promise
    <2>3. CASE ~ (Cardinality(Hashed(g)) < g.nmac)
      <3>1. PICK s \in Hashed(g) : \A b \in Block : \A h \in Versions(b) :
              h.seq = s => h.next = g.seq + 1
        BY <2>1, <2>3 DEF Promise
      <3>2. \A b \in Block : \A h \in Versions(b)' :
              h.seq = s => h.next = g.seq + 1
        BY <3>1
      <3> QED BY <2>1, <3>2 DEF Promise
    <2> QED BY <2>2, <2>3
  <1> QED BY <1>1, <1>2 DEF HeadersOK

(* The hash stays right as long as the disk is as it was. *)
LEMMA HashSame ==
  ASSUME HashOK, disk' = disk, torn' = torn, damage' = damage,
         WarningMeansDamage'
  PROVE  HashOK'
  <1>1. /\ SeqnosHash(Signed(disk), DiskSeq(disk), DiskNext(disk))'
             = SeqnosHash(Signed(disk), DiskSeq(disk), DiskNext(disk))
        /\ \A m \in Block : IsNewest(disk, m)' = IsNewest(disk, m)
    OBVIOUS
  <1> QED BY <1>1 DEF HashOK

(* Steps that do not touch the disk. *)
DiskSame == UNCHANGED <<disk, platter, torn, damage, hiseq>>

(* Such steps preserve all that is said of the disk. *)
LEMMA DiskSameKeeps ==
  ASSUME PowerInv, DiskSame
  PROVE  /\ HeadersOK' /\ DiskGoesOn' /\ HiseqOK'
         /\ Signed(disk)' = Signed(disk)
         /\ WarningMeansDamage' => HashOK'
  <1>1. disk' = disk /\ platter' = platter /\ torn' = torn /\ damage' = damage
        /\ hiseq' = hiseq
    BY DEF DiskSame
  <1>2. \A b \in Block : Versions(b)' = Versions(b)
    BY <1>1 DEF Versions
  <1>3. HeadersOK'
    BY <1>1, <1>2, HeadersShrink DEF PowerInv, HeadersOK
  <1>4. Signed(disk)' = Signed(disk)
    BY <1>1 DEF Signed
  <1>5. DiskGoesOn' /\ HiseqOK'
    BY <1>1, <1>4 DEF PowerInv, DiskGoesOn, HiseqOK
  <1>6. WarningMeansDamage' => HashOK'
    BY <1>1, HashSame DEF PowerInv
  <1> QED BY <1>3, <1>4, <1>5, <1>6

(* What is in memory when the device is gone. *)
LEMMA GoneKeeps ==
  ASSUME DeviceGone, pc' = "closed"
  PROVE  /\ RamOK' /\ CurOK' /\ ClosedOK' /\ ScheduleSurvives'
         /\ OpenNeverFatal' /\ WarningMeansDamage' /\ JugglerTypeOK'
         /\ cur' = NoBlock /\ tail' = NoBlock /\ updated' = FALSE
         /\ used' = {} /\ nmac' = 0 /\ reserved' = 0 /\ warned' = FALSE
  <1> USE DEF DeviceGone
  <1>1. RamOK' /\ CurOK' /\ ClosedOK'
    BY DEF RamOK, IsOpen, CurOK, ClosedOK
  <1>2. ScheduleSurvives'
    BY DEF ScheduleSurvives, ScheduleSound, NoMissedSlot, SlotsUnique,
           BlockAvailable, Members
  <1>3. OpenNeverFatal' /\ WarningMeansDamage'
    BY DEF OpenNeverFatal, WarningMeansDamage
  <1>4. JugglerTypeOK'
    BY DEF JugglerTypeOK
  <1> QED BY <1>1, <1>2, <1>3, <1>4

(* The partition does not exist yet. *)
LEMMA PowerInvInit == PowerLossInit => PowerInv
  <1> SUFFICES ASSUME PowerLossInit PROVE PowerInv
    OBVIOUS
  <1> USE DEF PowerLossInit, BlockioInit, JugglerInit
  <1>1. \A b \in Block : disk[b] = NoHeader /\ platter[b] = NoHeader
    OBVIOUS
  <1>2. disk \in [Block -> Header] /\ platter \in [Block -> Header]
    BY NoHeaderFields
  <1>3. PowerTypeOK
    BY <1>2 DEF PowerTypeOK, BlockioTypeOK, JugglerTypeOK
  <1>4. Signed(disk) = {}
    BY <1>1, NoHeaderFields DEF Signed
  <1>5. \A b \in Block : Versions(b) = {}
    BY <1>1, NoHeaderFields DEF Versions
  <1>6. HeadersOK
    BY <1>1, <1>5, NoHeaderFields DEF HeadersOK
  <1>7. DiskGoesOn /\ HashOK /\ HiseqOK
    BY <1>1, <1>4, NoHeaderFields
       DEF DiskGoesOn, HashOK, IsNewest, WarningMeansDamage, HiseqOK
  <1>8. RamOK /\ CurOK /\ ClosedOK /\ OpenNeverFatal
    BY DEF RamOK, IsOpen, CurOK, ClosedOK, OpenNeverFatal
  <1>9. ScheduleSurvives
    BY DEF ScheduleSurvives, ScheduleSound, NoMissedSlot, SlotsUnique,
           BlockAvailable, Members
  <1> QED BY <1>3, <1>6, <1>7, <1>8, <1>9 DEF PowerInv

----------------------------------------------------------------------------
(* Steps that write nothing. *)

(* Only the history of power failures goes with a step of the daemon. *)
PowerSame == UNCHANGED <<platter, failures, damage>>

(* A schedule that stays the same stays sound. *)
LEMMA SoundSame ==
  ASSUME UNCHANGED jvars
  PROVE  ScheduleSound' <=> ScheduleSound
  BY DEF jvars, ScheduleSound, NoMissedSlot, SlotsUnique, BlockAvailable,
         Members, Candidates, Obsoleted, OwnerOf

(* control_create: nothing is claimed and nothing is scheduled. *)
LEMMA CreateKeeps ==
  ASSUME PowerInv, Create, PowerSame
  PROVE  PowerInv'
  <1> USE DEF Create, PowerSame
  <1>1. DiskSame
    BY DEF DiskSame
  <1>2. WarningMeansDamage'
    BY DEF PowerInv, HashOK, WarningMeansDamage
  <1>3. HeadersOK' /\ DiskGoesOn' /\ HashOK' /\ HiseqOK'
    BY <1>1, <1>2, DiskSameKeeps
  <1>4. Signed(disk') = {}
    OBVIOUS
  <1>5. /\ scheduled' = {} /\ unscheduled' = {} /\ cur' = NoBlock
        /\ used' = {} /\ nmac' = 0
    BY DEF PowerInv, ClosedOK, jvars, devvars
  <1>6. Cardinality({}) = 0
    BY FS_EmptySet
  <1>7. RamOK' /\ CurOK' /\ ClosedOK'
    BY <1>4, <1>5, <1>6 DEF RamOK, CurOK, ClosedOK
  <1>8. ScheduleSurvives' /\ OpenNeverFatal'
    BY SoundSame DEF PowerInv, ScheduleSurvives, OpenNeverFatal
  <1>9. PowerTypeOK'
    BY DEF PowerInv, PowerTypeOK, BlockioTypeOK, JugglerTypeOK, jvars, devvars
  <1> QED BY <1>3, <1>7, <1>8, <1>9 DEF PowerInv

(* A write request. *)
LEMMA MarkUpdatedKeeps ==
  ASSUME PowerInv, MarkUpdated, PowerSame
  PROVE  PowerInv'
  <1> USE DEF MarkUpdated, PowerSame
  <1>1. DiskSame
    BY DEF DiskSame
  <1>2. WarningMeansDamage'
    BY DEF PowerInv, HashOK, WarningMeansDamage
  <1>3. HeadersOK' /\ DiskGoesOn' /\ HashOK' /\ HiseqOK'
    BY <1>1, <1>2, DiskSameKeeps
  <1>4. ScheduleSound' <=> ScheduleSound
    BY SoundSame
  <1>5. RamOK' /\ CurOK' /\ ClosedOK'
    BY <1>4 DEF PowerInv, RamOK, IsOpen, CurOK, ClosedOK, Signed, jvars
  <1>6. ScheduleSurvives' /\ OpenNeverFatal'
    BY <1>4 DEF PowerInv, ScheduleSurvives, OpenNeverFatal
  <1>7. PowerTypeOK'
    BY DEF PowerInv, PowerTypeOK, BlockioTypeOK, JugglerTypeOK, jvars
  <1> QED BY <1>3, <1>5, <1>6, <1>7 DEF PowerInv

(* The device is gone, the disk is as it was. *)
LEMMA GoneSameKeeps ==
  ASSUME PowerInv, DeviceGone, pc' = "closed", DiskSame, failures' = failures
  PROVE  PowerInv'
  <1>1. /\ RamOK' /\ CurOK' /\ ClosedOK' /\ ScheduleSurvives'
        /\ OpenNeverFatal' /\ WarningMeansDamage' /\ JugglerTypeOK'
        /\ cur' = NoBlock /\ tail' = NoBlock /\ updated' = FALSE
        /\ used' = {} /\ nmac' = 0 /\ reserved' = 0 /\ warned' = FALSE
    BY GoneKeeps
  <1>2. HeadersOK' /\ DiskGoesOn' /\ HashOK' /\ HiseqOK'
    BY <1>1, DiskSameKeeps
  <1>3. PowerTypeOK'
    BY <1>1 DEF PowerInv, PowerTypeOK, BlockioTypeOK, DiskSame
  <1> QED BY <1>1, <1>2, <1>3 DEF PowerInv

(* The daemon dies between two writes. *)
LEMMA CrashKeeps ==
  ASSUME PowerInv, Crash, PowerSame
  PROVE  PowerInv'
  BY GoneSameKeeps DEF Crash, PowerSame, DiskSame

----------------------------------------------------------------------------
(* Headers that disappear. *)

(* A disk on which headers are gone and none is new goes on. *)
LEMMA GoesOnWithout ==
  ASSUME DiskGoesOn, PowerTypeOK,
         \A b \in Block : disk'[b] = disk[b] \/ disk'[b] = NoHeader,
         "erased" \notin damage' => "erased" \notin damage
  PROVE  DiskGoesOn'
  <1>1. \A b \in Signed(disk') : b \in Signed(disk) /\ disk'[b] = disk[b]
    BY NoHeaderFields DEF Signed
  <1> SUFFICES ASSUME "erased" \notin damage'
               PROVE  /\ \A b, c \in Signed(disk') : disk'[b].seq < disk'[c].next
                      /\ \A c \in Signed(disk') : \E b \in disk'[c].used :
                           \/ b \notin Signed(disk')
                           \/ disk'[b].seq > disk'[c].seq
                           \/ disk'[b].next = disk'[c].seq + 1
    BY DEF DiskGoesOn
  <1>2. \A b, c \in Signed(disk') : disk'[b].seq < disk'[c].next
    BY <1>1 DEF DiskGoesOn
  <1>3. ASSUME NEW c \in Signed(disk')
        PROVE  \E b \in disk'[c].used :
                 \/ b \notin Signed(disk')
                 \/ disk'[b].seq > disk'[c].seq
                 \/ disk'[b].next = disk'[c].seq + 1
    <2>1. c \in Signed(disk) /\ disk'[c] = disk[c]
      BY <1>1
    <2>2. PICK b \in disk[c].used :
            \/ b \notin Signed(disk)
            \/ disk[b].seq > disk[c].seq
            \/ disk[b].next = disk[c].seq + 1
      BY <2>1 DEF DiskGoesOn
    <2> QED BY <1>1, <2>1, <2>2
  <1> QED BY <1>2, <1>3

(* The daemon dies in the middle of a write. *)
LEMMA CrashTornKeeps ==
  ASSUME PowerInv, CrashTorn, PowerSame
  PROVE  PowerInv'
  <1> USE DEF PowerSame
  <1>1. /\ RamOK' /\ CurOK' /\ ClosedOK' /\ ScheduleSurvives'
        /\ OpenNeverFatal' /\ WarningMeansDamage' /\ JugglerTypeOK'
        /\ cur' = NoBlock /\ tail' = NoBlock /\ updated' = FALSE
        /\ used' = {} /\ nmac' = 0 /\ reserved' = 0 /\ warned' = FALSE
    BY GoneKeeps DEF CrashTorn
  <1>2. /\ disk \in [Block -> Header] /\ cur \in Block /\ torn' = TRUE
        /\ disk' = [disk EXCEPT ![cur] = NoHeader] /\ hiseq' = hiseq
        /\ pc' = "closed"
    BY DEF CrashTorn, PowerInv, PowerTypeOK, BlockioTypeOK
  <1>3. disk' \in [Block -> Header]
    BY <1>2, NoHeaderFields
  <1>4. \A b \in Block : disk'[b] = disk[b] \/ disk'[b] = NoHeader
    BY <1>2
  <1>5. \A b \in Block : Versions(b)' \subseteq Versions(b)
    BY <1>2, <1>4, NoHeaderFields DEF Versions
  <1>6. HeadersOK'
    BY <1>2, <1>5, HeadersShrink DEF PowerInv
  <1>7. DiskGoesOn'
    BY <1>4, GoesOnWithout DEF PowerInv
  <1>8. HashOK'
    BY <1>1, <1>2 DEF HashOK
  <1>9. HiseqOK'
    <2>1. hiseq \in Nat
      BY DEF PowerInv, PowerTypeOK, BlockioTypeOK
    <2> QED BY <1>2, <1>4, <2>1, NoHeaderFields DEF PowerInv, HiseqOK
  <1>10. PowerTypeOK'
    BY <1>1, <1>2, <1>3 DEF PowerInv, PowerTypeOK, BlockioTypeOK
  <1> QED BY <1>1, <1>6, <1>7, <1>8, <1>9, <1>10 DEF PowerInv

(* The operating system writes a block back. *)
LEMMA WriteBackKeeps ==
  ASSUME PowerInv, NEW b \in Block, WriteBack(b)
  PROVE  PowerInv'
  <1> USE DEF WriteBack
  <1>1. /\ platter \in [Block -> Header] /\ disk \in [Block -> Header]
        /\ platter' = [platter EXCEPT ![b] = disk[b]]
        /\ ~ torn /\ torn' = torn /\ disk' = disk /\ hiseq' = hiseq
        /\ damage' = damage /\ warned' = warned /\ pc' = pc /\ cur' = cur
    BY DEF PowerCanFail, PowerInv, PowerTypeOK, BlockioTypeOK, bvars, devvars
  <1>2. \A c \in Block : platter'[c] = platter[c] \/ platter'[c] = disk[c]
    BY <1>1
  <1>3. \A c \in Block : disk[c].seq \in Nat
    BY <1>1, HeaderNumbers
  <1>4. HeadersOK'
    <2>1. \A c \in Block : Versions(c)' \subseteq Versions(c)
      BY <1>1, <1>2 DEF Versions
    <2>2. \A c \in Block : platter'[c].seq <= disk'[c].seq
      BY <1>1, <1>2, <1>3 DEF PowerInv, HeadersOK
    <2> QED BY <2>1, <2>2, HeadersShrink DEF PowerInv
  <1>5. Signed(disk') = Signed(disk)
    BY <1>1
  <1>6. DiskGoesOn'
    BY <1>1 DEF PowerInv, DiskGoesOn
  <1>7. HashOK'
    <2>1. WarningMeansDamage'
      BY <1>1 DEF PowerInv, HashOK, WarningMeansDamage
    <2> QED BY <1>1, <2>1, HashSame DEF PowerInv
  <1>8. HiseqOK'
    BY <1>1, <1>2 DEF PowerInv, HiseqOK
  <1>9. ScheduleSound' <=> ScheduleSound
    BY SoundSame DEF bvars
  <1>10. RamOK' /\ CurOK' /\ ClosedOK'
    BY <1>1, <1>9 DEF PowerInv, RamOK, IsOpen, CurOK, ClosedOK, bvars, jvars,
                      devvars
  <1>11. ScheduleSurvives' /\ OpenNeverFatal'
    BY <1>1, <1>9 DEF PowerInv, ScheduleSurvives, OpenNeverFatal
  <1>12. platter' \in [Block -> Header]
    BY <1>1
  <1>13. PowerTypeOK'
    BY <1>12 DEF PowerInv, PowerTypeOK, BlockioTypeOK, JugglerTypeOK, bvars,
                 jvars, devvars
  <1> QED BY <1>4, <1>6, <1>7, <1>8, <1>10, <1>11, <1>13 DEF PowerInv

(* The power fails: what is read from then on is what the medium holds, or *)
(* nothing.                                                                *)
LEMMA PowerFailureKeeps ==
  ASSUME PowerInv, NEW T \in SUBSET Block, PowerFailure(T)
  PROVE  PowerInv'
  <1> DEFINE D == {b \in Block : platter[b] # disk[b]}
             S == {0} \cup {platter[b].seq : b \in Block}
  <1>1. /\ RamOK' /\ CurOK' /\ ClosedOK' /\ ScheduleSurvives'
        /\ OpenNeverFatal' /\ WarningMeansDamage' /\ JugglerTypeOK'
        /\ cur' = NoBlock /\ tail' = NoBlock /\ updated' = FALSE
        /\ used' = {} /\ nmac' = 0 /\ reserved' = 0 /\ warned' = FALSE
    BY GoneKeeps DEF PowerFailure
  <1>2. /\ ~ torn /\ torn' = torn /\ pc' = "closed" /\ failures' = failures + 1
        /\ D # {} /\ T \subseteq D
        /\ disk' = [b \in Block |-> IF b \in T THEN NoHeader ELSE platter[b]]
        /\ platter' = disk'
        /\ damage' = damage \cup {"torn" : b \in T} \cup {"erased" : b \in D \ T}
        /\ hiseq' = CHOOSE n \in S : \A b \in Block : platter[b].seq <= n
    BY DEF PowerFailure, PowerCanFail
  <1>3. /\ platter \in [Block -> Header] /\ disk \in [Block -> Header]
        /\ hiseq \in Nat /\ failures \in Nat /\ torn \in BOOLEAN
        /\ damage \subseteq {"torn", "erased"}
    BY DEF PowerInv, PowerTypeOK, BlockioTypeOK
  <1>4. disk' \in [Block -> Header]
    BY <1>2, <1>3, NoHeaderFields
  <1>5. \A b \in Block : disk'[b] = platter[b] \/ disk'[b] = NoHeader
    BY <1>2
  <1>6. \A b \in Block : disk'[b].seq \in Nat /\ platter[b].seq \in Nat
    BY <1>3, <1>4, HeaderNumbers
  <1>7. HeadersOK'
    <2>1. \A b \in Block : Versions(b)' \subseteq Versions(b)
      BY <1>2, <1>5, NoHeaderFields DEF Versions
    <2>2. \A b \in Block : platter'[b].seq <= disk'[b].seq
      BY <1>2, <1>6
    <2> QED BY <2>1, <2>2, HeadersShrink DEF PowerInv
  <1>8. DiskGoesOn'
    <2>1. CASE "erased" \in damage'
      BY <2>1 DEF DiskGoesOn
    <2>2. CASE "erased" \notin damage'
      <3>1. D \ T = {} /\ "erased" \notin damage
        BY <1>2, <2>2
      <3>2. \A b \in Block : disk'[b] = disk[b] \/ disk'[b] = NoHeader
        BY <1>2, <3>1
      <3> QED BY <3>1, <3>2, GoesOnWithout DEF PowerInv
    <2> QED BY <2>1, <2>2
  <1>9. HashOK'
    <2>1. damage' # {}
      BY <1>2
    <2> QED BY <1>1, <2>1 DEF HashOK
  <1>10. hiseq' \in S /\ \A b \in Block : platter[b].seq <= hiseq'
    <2>1. S \in SUBSET Nat /\ S # {}
      BY <1>6
    <2>2. \A n \in S : n <= hiseq
      BY <1>3 DEF PowerInv, HiseqOK
    <2>3. PICK n \in S : \A u \in S : u <= n
      BY <1>3, <2>1, <2>2, GreatestNumber
    <2>4. \A b \in Block : platter[b].seq <= n
      BY <2>3
    <2> QED BY <1>2, <2>4
  <1>11. hiseq' \in Nat
    BY <1>6, <1>10
  <1>12. HiseqOK'
    <2>1. \A b \in Block : disk'[b].seq <= hiseq' /\ platter'[b].seq <= hiseq'
      BY <1>2, <1>5, <1>10, <1>11, NoHeaderFields
    <2>2. ASSUME "torn" \notin damage', hiseq' # 0
          PROVE  \E b \in Signed(disk') : disk'[b].seq = hiseq'
      <3>1. T = {}
        BY <1>2, <2>2
      <3>2. PICK b \in Block : platter[b].seq = hiseq'
        BY <1>10, <2>2
      <3>3. disk'[b] = platter[b]
        BY <1>2, <3>1
      <3> QED BY <2>2, <3>2, <3>3 DEF Signed
    <2> QED BY <2>1, <2>2 DEF HiseqOK
  <1>13. damage' \subseteq {"torn", "erased"}
    BY <1>2, <1>3
  <1>14. PowerTypeOK'
    <2>1. /\ failures' \in Nat /\ platter' \in [Block -> Header]
          /\ torn' \in BOOLEAN
          /\ pc' \in {"closed", "open", "select", "selectResized", "fatal"}
      BY <1>2, <1>3, <1>4
    <2>2. BlockioTypeOK'
      BY <1>1, <1>4, <1>11, <2>1 DEF BlockioTypeOK
    <2> QED BY <1>13, <2>1, <2>2 DEF PowerTypeOK
  <1> QED BY <1>1, <1>7, <1>8, <1>9, <1>12, <1>14 DEF PowerInv

----------------------------------------------------------------------------
(* Selecting a block and allocating new ones. *)

(* A step that is followed and leaves the device open starts from a sound  *)
(* schedule.                                                               *)
LEMMA FollowedIsSound ==
  ASSUME PowerInv, Followed, pc' # "closed"
  PROVE  ScheduleSound
  BY DEF PowerInv, Followed, ScheduleSurvives

(* The invariant of the juggler, which the device keeps. *)
LEMMA OpenJugglerInv ==
  ASSUME PowerInv, IsOpen, ScheduleSound
  PROVE  JugglerInv
  BY DEF PowerInv, PowerTypeOK, BlockioTypeOK, RamOK, ScheduleSound, JugglerInv

(* blockio_dev_select_next_macroblock: the block on disk that it is to     *)
(* replace, if there is one, had this slot.                                *)
LEMMA SelectKeeps ==
  ASSUME PowerInv, NEW b \in Block, NEW n \in NextSlots(b), Select(b, n),
         PowerSame, Followed
  PROVE  PowerInv'
  <1> USE DEF PowerSame
  <1>1. /\ GetDevblock(b, n) /\ cur' = b /\ pc' = "open" /\ IsOpen
        /\ pc \in {"select", "selectResized"}
        /\ updated' = (pc = "selectResized")
        /\ UNCHANGED <<disk, used, nmac, reserved, hiseq, torn, warned>>
    BY DEF Select, IsOpen
  <1>2. DiskSame
    BY <1>1 DEF DiskSame
  <1>3. WarningMeansDamage'
    BY <1>1 DEF PowerInv, HashOK, WarningMeansDamage
  <1>4. HeadersOK' /\ DiskGoesOn' /\ HashOK' /\ HiseqOK'
    BY <1>2, <1>3, DiskSameKeeps
  <1>5. ScheduleSound /\ JugglerInv
    BY <1>1, FollowedIsSound, OpenJugglerInv
  <1>6. JugglerInv'
    BY <1>1, <1>5, GetDevblockInv
  <1>7. ScheduleSound' /\ JugglerTypeOK'
    BY <1>6 DEF JugglerInv, ScheduleSound
  <1>8. JugglerTypeOK /\ n \in Nat /\ n > seqno + 1
    BY <1>5, NextSlotsFree DEF JugglerInv
  <1>9. /\ scheduled' = scheduled \cup {b} /\ unscheduled' = unscheduled \ {b}
        /\ seqno' = seqno + 1 /\ bseq'[b] = seqno + 1 /\ bnext'[b] = n
        /\ \A c \in Block \ {b} : bseq'[c] = bseq[c] /\ bnext'[c] = bnext[c]
        /\ b \in Candidates /\ seqno \in Nat
    BY <1>1, <1>8 DEF GetDevblock, JugglerTypeOK
  <1>10. cur = NoBlock
    BY <1>1 DEF PowerInv, CurOK
  <1>11. /\ used = scheduled \cup unscheduled
         /\ scheduled \cap unscheduled = {}
         /\ nmac = Cardinality(used)
         /\ scheduled = Signed(disk)
         /\ \A c \in Signed(disk) : bseq[c] = disk[c].seq /\ bnext[c] = disk[c].next
         /\ \A c \in Signed(disk) : disk[c].seq <= seqno
    <2>1. NoBlock \notin Signed(disk)
      BY BlockAssumption DEF Signed
    <2> QED BY <1>1, <1>10, <2>1 DEF PowerInv, RamOK
  <1>12. b \in Obsoleted \/ b \in unscheduled
    BY <1>9 DEF Candidates
  <1>13. \A c \in Signed(disk) : c \in Block /\ disk[c].seq \in Nat
    <2>1. \A c \in Signed(disk) : c \in Block
      BY DEF Signed
    <2>2. \A c \in Block : disk[c] \in Header
      BY DiskTypes DEF PowerInv
    <2> QED BY <2>1, <2>2, HeaderNumbers
  <1>14. \A c \in Signed(disk) : disk[c].seq < seqno + 1
    BY <1>9, <1>11, <1>13
  <1>15. b # NoBlock
    BY BlockAssumption
  <1>16. Signed(disk)' = Signed(disk)
    BY <1>1
  <1>17. RamOK'
    <2>1. used' = scheduled' \cup unscheduled' /\ scheduled' \cap unscheduled' = {}
      BY <1>1, <1>9, <1>11, <1>12 DEF Obsoleted, OwnerOf
    <2>2. scheduled' = Signed(disk') \cup {cur'}
      BY <1>1, <1>9, <1>11
    <2>3. \A c \in Signed(disk') \ {cur'} :
            bseq'[c] = disk'[c].seq /\ bnext'[c] = disk'[c].next
      BY <1>1, <1>9, <1>11, <1>13
    <2>4. \A c \in Signed(disk') : disk'[c].seq <= seqno'
      BY <1>1, <1>9, <1>13, <1>14
    <2> QED BY <1>1, <1>11, <1>15, <2>1, <2>2, <2>3, <2>4 DEF RamOK
  <1>18. CurOK'
    <2>1. b \in Signed(disk) => disk[b].next = seqno + 1
      BY <1>11, <1>12 DEF Obsoleted, OwnerOf
    <2> QED BY <1>1, <1>7, <1>8, <1>9, <1>14, <2>1 DEF CurOK
  <1>19. ClosedOK' /\ ScheduleSurvives' /\ OpenNeverFatal'
    BY <1>1, <1>7 DEF ClosedOK, ScheduleSurvives, OpenNeverFatal
  <1>20. tail' \in Block \cup {NoBlock}
    <2>1. CASE \E c \in scheduled' : bnext'[c] = seqno' + 1
      <3>1. tail' \in scheduled'
        BY <2>1 DEF Select
      <3> QED BY <1>7, <3>1 DEF JugglerTypeOK
    <2>2. CASE ~ \E c \in scheduled' : bnext'[c] = seqno' + 1
      BY <2>2 DEF Select
    <2> QED BY <2>1, <2>2
  <1>21. updated' \in BOOLEAN
    BY <1>1
  <1>22. PowerTypeOK'
    BY <1>1, <1>7, <1>20, <1>21 DEF PowerInv, PowerTypeOK, BlockioTypeOK
  <1> QED BY <1>4, <1>17, <1>18, <1>19, <1>22 DEF PowerInv

(* Blocks are counted. *)
LEMMA BlockCount ==
  ASSUME NEW S \in SUBSET Block, NEW T \in SUBSET Block
  PROVE  /\ IsFiniteSet(S) /\ Cardinality(S) \in Nat
         /\ S \cap T = {} =>
              Cardinality(S \cup T) = Cardinality(S) + Cardinality(T)
         /\ S \subseteq T /\ S # T => Cardinality(S) < Cardinality(T)
  <1>1. /\ IsFiniteSet(S) /\ Cardinality(S) \in Nat
        /\ IsFiniteSet(T) /\ Cardinality(T) \in Nat
    BY BlockAssumption, FS_Subset, FS_CardinalityType
  <1>2. ASSUME S \cap T = {}
        PROVE  Cardinality(S \cup T) = Cardinality(S) + Cardinality(T)
    <2>1. Cardinality(S \cup T) = Cardinality(S) + Cardinality(T) - Cardinality({})
      BY <1>1, <1>2, FS_Union
    <2>2. Cardinality({}) = 0
      BY FS_EmptySet
    <2> QED BY <1>1, <2>1, <2>2
  <1>3. ASSUME S \subseteq T, S # T PROVE Cardinality(S) < Cardinality(T)
    <2>1. Cardinality(S) <= Cardinality(T) /\ Cardinality(S) # Cardinality(T)
      BY <1>1, <1>3, FS_Subset
    <2> QED BY <1>1, <2>1
  <1> QED BY <1>1, <1>2, <1>3

(* New blocks are unscheduled: they disturb nothing and one is available. *)
LEMMA ResizedIsSound ==
  ASSUME ScheduleSound, JugglerTypeOK, NEW S \in SUBSET Block, S # {},
         S \cap scheduled = {},
         scheduled' = scheduled, seqno' = seqno,
         unscheduled' = unscheduled \cup S,
         \A b \in Block \ S : bseq'[b] = bseq[b] /\ bnext'[b] = bnext[b]
  PROVE  ScheduleSound'
  <1>1. \A b \in scheduled : bseq'[b] = bseq[b] /\ bnext'[b] = bnext[b]
    BY DEF JugglerTypeOK
  <1>2. NoMissedSlot' /\ SlotsUnique'
    BY <1>1 DEF ScheduleSound, NoMissedSlot, SlotsUnique
  <1>3. BlockAvailable'
    <2>1. unscheduled' # {}
      OBVIOUS
    <2> QED BY <2>1 DEF BlockAvailable, Candidates
  <1> QED BY <1>2, <1>3 DEF ScheduleSound

(* control_resize. *)
LEMMA ResizeKeeps ==
  ASSUME PowerInv, NEW S \in SUBSET Block, NEW r, Resize(S, r), PowerSame,
         Followed
  PROVE  PowerInv'
  <1> USE DEF PowerSame
  <1>1. DiskSame /\ failures' = failures
    BY DEF Resize, DiskSame
  <1>2. CASE nmac > reserved /\ nmac + Cardinality(S) - r < nmac - reserved
    <2>1. DeviceGone /\ pc' = "closed"
      BY <1>2 DEF Resize
    <2> QED BY <1>1, <2>1, GoneSameKeeps
  <1>3. CASE ~ (nmac > reserved /\ nmac + Cardinality(S) - r < nmac - reserved)
    <2>1. /\ pc = "open" /\ S \subseteq Block \ used /\ S # {}
          /\ r \in 0..(nmac + Cardinality(S))
          /\ unscheduled' = unscheduled \cup S
          /\ bseq' = [b \in Block |-> IF b \in S THEN 0 ELSE bseq[b]]
          /\ bnext' = [b \in Block |-> IF b \in S THEN 0 ELSE bnext[b]]
          /\ used' = used \cup S
          /\ nmac' = nmac + Cardinality(S)
          /\ reserved' = r
          /\ UNCHANGED <<scheduled, seqno, cur, tail, warned>>
      BY <1>3 DEF Resize
    <2>2. \/ cur = NoBlock /\ pc' = "selectResized" /\ updated' = updated
          \/ cur # NoBlock /\ updated' = TRUE /\ pc' = pc
      BY <1>3 DEF Resize
    <2>3. /\ used = scheduled \cup unscheduled
          /\ scheduled \cap unscheduled = {}
          /\ nmac = Cardinality(used)
          /\ scheduled = Signed(disk) \cup (IF cur = NoBlock THEN {} ELSE {cur})
          /\ \A c \in Signed(disk) \ {cur} :
               bseq[c] = disk[c].seq /\ bnext[c] = disk[c].next
          /\ \A c \in Signed(disk) : disk[c].seq <= seqno
      BY <2>1 DEF PowerInv, RamOK, IsOpen
    <2>4. /\ JugglerTypeOK /\ used \in SUBSET Block /\ nmac \in Nat
          /\ disk' = disk /\ updated \in BOOLEAN
      BY <1>1 DEF PowerInv, PowerTypeOK, BlockioTypeOK, DiskSame
    <2>5. ScheduleSound
      BY <2>1, <2>2, FollowedIsSound
    <2>6. S \cap scheduled = {} /\ S \cap used = {}
      BY <2>1, <2>3
    <2>7. \A b \in Block \ S : bseq'[b] = bseq[b] /\ bnext'[b] = bnext[b]
      BY <2>1
    <2>8. ScheduleSound'
      BY <2>1, <2>4, <2>5, <2>6, <2>7, ResizedIsSound
    <2>9. nmac' = Cardinality(used') /\ nmac' \in Nat /\ reserved' \in Nat
      <3>1. Cardinality(S) \in Nat
            /\ Cardinality(used \cup S) = Cardinality(used) + Cardinality(S)
        BY <2>4, <2>6, BlockCount
      <3> QED BY <2>1, <2>3, <2>4, <3>1
    <2>10. WarningMeansDamage'
      BY <1>1, <2>1 DEF PowerInv, HashOK, WarningMeansDamage, DiskSame
    <2>11. HeadersOK' /\ DiskGoesOn' /\ HashOK' /\ HiseqOK'
      BY <1>1, <2>10, DiskSameKeeps
    <2>12. \A c \in Signed(disk) : c \in Block /\ c \notin S
      BY <2>3, <2>6 DEF Signed
    <2>13. Signed(disk') = Signed(disk)
      BY <2>4
    <2>14. RamOK'
      <3>1. used' = scheduled' \cup unscheduled'
            /\ scheduled' \cap unscheduled' = {}
        BY <2>1, <2>3, <2>6
      <3>2. \A c \in Signed(disk') \ {cur'} :
              bseq'[c] = disk'[c].seq /\ bnext'[c] = disk'[c].next
        BY <2>1, <2>3, <2>4, <2>7, <2>12
      <3>3. scheduled' = Signed(disk') \cup (IF cur' = NoBlock THEN {} ELSE {cur'})
        BY <2>1, <2>3, <2>13
      <3>4. \A c \in Signed(disk') : disk'[c].seq <= seqno'
        BY <2>1, <2>3, <2>4
      <3> QED BY <2>9, <3>1, <3>2, <3>3, <3>4 DEF RamOK
    <2>15. CurOK'
      <3>1. CASE cur = NoBlock
        BY <2>1, <3>1 DEF CurOK
      <3>2. CASE cur # NoBlock
        <4>1. /\ pc = "open" /\ seqno > 0 /\ bseq[cur] = seqno
              /\ seqno < bnext[cur]
              /\ \A c \in Signed(disk) : disk[c].seq < seqno
              /\ cur \in Signed(disk) => disk[cur].next = seqno
          BY <3>2 DEF PowerInv, CurOK
        <4>2. cur \in Block \ S
          BY <2>3, <2>4, <2>6, <3>2 DEF JugglerTypeOK
        <4>3. bseq'[cur] = bseq[cur] /\ bnext'[cur] = bnext[cur]
          BY <2>7, <4>2
        <4> QED BY <2>1, <2>2, <2>4, <2>8, <3>2, <4>1, <4>3 DEF CurOK
      <3> QED BY <3>1, <3>2
    <2>16. ClosedOK' /\ ScheduleSurvives' /\ OpenNeverFatal'
      BY <2>1, <2>2, <2>8 DEF ClosedOK, ScheduleSurvives, OpenNeverFatal
    <2>17. JugglerTypeOK'
      BY <2>1, <2>4 DEF JugglerTypeOK
    <2>18. used' \in SUBSET Block /\ updated' \in BOOLEAN
           /\ pc' \in {"closed", "open", "select", "selectResized", "fatal"}
      BY <2>1, <2>2, <2>4
    <2>19. PowerTypeOK'
      BY <1>1, <2>1, <2>9, <2>17, <2>18
         DEF PowerInv, PowerTypeOK, BlockioTypeOK, DiskSame
    <2> QED BY <2>11, <2>14, <2>15, <2>16, <2>19 DEF PowerInv
  <1> QED BY <1>2, <1>3

----------------------------------------------------------------------------
(* Writing the current block. *)

(* The seqnos of a digest. *)
LEMMA HashedSeqnos ==
  ASSUME NEW g, NEW S, NEW sq, NEW nx, g.hash = SeqnosHash(S, sq, nx)
  PROVE  Hashed(g) = {sq[b] : b \in S}
  <1>1. ASSUME NEW b \in S PROVE sq[b] \in Hashed(g)
    <2>1. <<sq[b], {sq[c] : c \in {d \in S : nx[d] < nx[b]}}>> \in g.hash
      BY DEF SeqnosHash
    <2>2. <<sq[b], {sq[c] : c \in {d \in S : nx[d] < nx[b]}}>>[1] = sq[b]
      OBVIOUS
    <2> QED BY <2>1, <2>2 DEF Hashed
  <1>2. ASSUME NEW s \in Hashed(g) PROVE \E b \in S : s = sq[b]
    BY DEF Hashed, SeqnosHash
  <1> QED BY <1>1, <1>2

(* What is known when the current block is about to be written. *)
LEMMA BeforeWrite ==
  ASSUME PowerInv, cur # NoBlock
  PROVE  /\ cur \in Block /\ cur \in scheduled /\ IsOpen
         /\ seqno \in Nat /\ seqno > 0 /\ bseq \in [Block -> Nat]
         /\ bnext \in [Block -> Nat] /\ hiseq \in Nat
         /\ bseq[cur] = seqno /\ seqno < bnext[cur]
         /\ ScheduleSound /\ scheduled \subseteq Block
         /\ scheduled = Signed(disk) \cup {cur}
         /\ used = scheduled \cup unscheduled /\ used \subseteq Block
         /\ scheduled \cap unscheduled = {} /\ nmac = Cardinality(used)
         /\ \A c \in Signed(disk) \ {cur} :
              bseq[c] = disk[c].seq /\ bnext[c] = disk[c].next
         /\ \A c \in Signed(disk) : disk[c].seq < seqno
         /\ \A c \in scheduled \ {cur} : c \in Signed(disk) /\ bseq[c] < seqno
         /\ \A c \in scheduled : bseq[c] <= seqno /\ seqno < bnext[c]
  <1>1. /\ cur \in Block /\ JugglerTypeOK /\ hiseq \in Nat /\ used \subseteq Block
    BY DEF PowerInv, PowerTypeOK, BlockioTypeOK
  <1>2. /\ pc = "open" /\ ScheduleSound
        /\ seqno > 0 /\ bseq[cur] = seqno /\ seqno < bnext[cur]
        /\ \A c \in Signed(disk) : disk[c].seq < seqno
    BY DEF PowerInv, CurOK
  <1>3. IsOpen
    BY <1>2 DEF IsOpen
  <1>4. /\ used = scheduled \cup unscheduled
        /\ scheduled \cap unscheduled = {}
        /\ nmac = Cardinality(used)
        /\ scheduled = Signed(disk) \cup {cur}
        /\ \A c \in Signed(disk) \ {cur} :
             bseq[c] = disk[c].seq /\ bnext[c] = disk[c].next
    BY <1>3 DEF PowerInv, RamOK
  <1>5. \A c \in scheduled \ {cur} : c \in Signed(disk) /\ bseq[c] < seqno
    BY <1>2, <1>4
  <1>6. \A c \in scheduled : bseq[c] <= seqno /\ seqno < bnext[c]
    BY <1>2 DEF ScheduleSound, NoMissedSlot
  <1> QED BY <1>1, <1>2, <1>3, <1>4, <1>5, <1>6 DEF JugglerTypeOK

(* The header that is written. *)
LEMMA CurrentHeaderFields ==
  ASSUME PowerInv, cur # NoBlock
  PROVE  /\ CurrentHeader \in Header
         /\ CurrentHeader.seq = seqno /\ CurrentHeader.next = bnext[cur]
         /\ CurrentHeader.used = used /\ CurrentHeader.nmac = nmac
         /\ CurrentHeader.hash = SeqnosHash(scheduled, bseq, bnext)
         /\ Hashed(CurrentHeader) = {bseq[b] : b \in scheduled}
  <1>1. /\ cur \in Block /\ bseq \in [Block -> Nat] /\ bnext \in [Block -> Nat]
        /\ scheduled \subseteq Block /\ used \subseteq Block
        /\ bseq[cur] = seqno
    BY BeforeWrite
  <1>2. nmac \in Nat /\ reserved \in Nat
    BY DEF PowerInv, PowerTypeOK, BlockioTypeOK
  <1>3. SeqnosHash(scheduled, bseq, bnext) \in SUBSET (Nat \X SUBSET Nat)
    <2> SUFFICES ASSUME NEW b \in scheduled
                 PROVE  <<bseq[b], {bseq[c] : c \in {d \in scheduled :
                                                 bnext[d] < bnext[b]}}>>
                          \in Nat \X SUBSET Nat
      BY DEF SeqnosHash
    <2> QED BY <1>1
  <1>4. /\ CurrentHeader.seq = seqno /\ CurrentHeader.next = bnext[cur]
        /\ CurrentHeader.used = used /\ CurrentHeader.nmac = nmac
        /\ CurrentHeader.hash = SeqnosHash(scheduled, bseq, bnext)
    BY <1>1 DEF CurrentHeader
  <1>5. CurrentHeader \in Header
    BY <1>1, <1>2, <1>3 DEF CurrentHeader, Header
  <1>6. Hashed(CurrentHeader) = {bseq[b] : b \in scheduled}
    BY <1>4, HashedSeqnos
  <1> QED BY <1>4, <1>5, <1>6

(* What is known then of a header that may be read in the future. *)
LEMMA OldVersion ==
  ASSUME PowerInv, cur # NoBlock, NEW b \in Block, NEW h \in Versions(b)
  PROVE  /\ h.seq \in Nat /\ h.next \in Nat /\ h.seq < seqno
         /\ b \in Signed(disk) /\ b \in scheduled /\ b \in used
         /\ b = cur => h.next <= seqno
         /\ b # cur => \/ h = disk[b] /\ h.seq = bseq[b] /\ h.next = bnext[b]
                       \/ h.next < seqno
  <1>1. /\ h \in Header /\ h.seq > 0 /\ b \in Signed(disk)
        /\ h.seq <= disk[b].seq
        /\ h = disk[b] \/ (h.seq < disk[b].seq /\ h.next <= disk[b].seq)
    BY VersionsOld DEF PowerInv
  <1>2. disk[b] \in Header
    BY DiskTypes DEF PowerInv
  <1>3. h.seq \in Nat /\ h.next \in Nat /\ disk[b].seq \in Nat
    BY <1>1, <1>2, HeaderNumbers
  <1>4. disk[b].seq < seqno /\ seqno \in Nat
    BY <1>1, BeforeWrite
  <1>5. b \in scheduled /\ b \in used
    BY <1>1, BeforeWrite
  <1>6. ASSUME b = cur PROVE h.next <= seqno
    <2>1. disk[b].next = seqno
      BY <1>1, <1>6 DEF PowerInv, CurOK
    <2> QED BY <1>1, <1>3, <1>4, <2>1
  <1>7. ASSUME b # cur
        PROVE  \/ h = disk[b] /\ h.seq = bseq[b] /\ h.next = bnext[b]
               \/ h.next < seqno
    <2>1. bseq[b] = disk[b].seq /\ bnext[b] = disk[b].next
      BY <1>1, <1>7, BeforeWrite
    <2> QED BY <1>1, <1>3, <1>4, <2>1
  <1> QED BY <1>1, <1>3, <1>4, <1>5, <1>6, <1>7

(* A version whose seqno is that of a scheduled block is what that block   *)
(* has on disk.                                                            *)
LEMMA SameSeqno ==
  ASSUME PowerInv, cur # NoBlock, NEW b \in Block, NEW h \in Versions(b),
         NEW c \in scheduled, h.seq = bseq[c]
  PROVE  b = c /\ b # cur /\ h = disk[c] /\ h.next = bnext[c]
  <1>1. h.seq < seqno /\ h.seq \in Nat /\ seqno \in Nat
    BY OldVersion, BeforeWrite
  <1>2. c # cur
    BY <1>1, BeforeWrite
  <1>3. c \in Signed(disk) /\ bseq[c] = disk[c].seq /\ bnext[c] = disk[c].next
    BY <1>2, BeforeWrite
  <1>4. c \in Block /\ disk[c] \in Versions(c)
    BY <1>3, DiskTypes DEF PowerInv
  <1>5. Fits(b, h, c, disk[c])
    BY <1>4 DEF PowerInv, HeadersOK
  <1>6. b = c /\ h = disk[c]
    BY <1>3, <1>5 DEF Fits
  <1> QED BY <1>2, <1>3, <1>6

(* The new header fits every old one, in both directions. *)
LEMMA CurrentFits ==
  ASSUME PowerInv, cur # NoBlock, NEW b \in Block, NEW h \in Versions(b)
  PROVE  Fits(b, h, cur, CurrentHeader) /\ Fits(cur, CurrentHeader, b, h)
  <1>1. /\ h.seq \in Nat /\ h.next \in Nat /\ h.seq < seqno
        /\ b \in Signed(disk) /\ b \in scheduled /\ b \in used
        /\ b = cur => h.next <= seqno
        /\ b # cur => \/ h = disk[b] /\ h.seq = bseq[b] /\ h.next = bnext[b]
                      \/ h.next < seqno
    BY OldVersion
  <1>2. PICK N : N = CurrentHeader
    OBVIOUS
  <1>3. /\ N.seq = seqno /\ N.next = bnext[cur] /\ N.used = used
        /\ Hashed(N) = {bseq[c] : c \in scheduled}
    BY <1>2, CurrentHeaderFields
  <1>4. /\ seqno \in Nat /\ bnext[cur] \in Nat /\ seqno < bnext[cur]
        /\ cur \in scheduled
        /\ \A c \in scheduled : bseq[c] <= seqno /\ seqno < bnext[c]
    BY BeforeWrite
  <1>5. h.next = N.next => b = cur
    <2> SUFFICES ASSUME h.next = bnext[cur], b # cur PROVE FALSE
      BY <1>3
    <2>1. h.next = bnext[b]
      BY <1>1, <1>4
    <2>2. b = cur
      BY <1>1, <1>4, <2>1, BeforeWrite DEF ScheduleSound, SlotsUnique
    <2> QED BY <2>2
  <1>6. ASSUME h.seq \in Hashed(N) PROVE seqno < h.next
    <2>1. PICK c \in scheduled : h.seq = bseq[c]
      BY <1>3, <1>6
    <2>2. h.next = bnext[c]
      BY <2>1, SameSeqno
    <2> QED BY <1>4, <2>2
  <1>7. Fits(b, h, cur, N)
    BY <1>1, <1>3, <1>4, <1>5, <1>6 DEF Fits
  <1>8. seqno \notin Hashed(h)
    <2>1. \A s \in Hashed(h) : s <= h.seq
      BY DEF PowerInv, HeadersOK
    <2> QED BY <1>1, <1>4, <2>1
  <1>9. Fits(cur, N, b, h)
    BY <1>1, <1>3, <1>4, <1>5, <1>8 DEF Fits
  <1> QED BY <1>2, <1>7, <1>9

(* There are no more seqnos than blocks, and as many if they differ. *)
LEMMA SeqnoCount ==
  ASSUME NEW S \in SUBSET Block, NEW f \in [Block -> Nat]
  PROVE  /\ Cardinality({f[b] : b \in S}) <= Cardinality(S)
         /\ Cardinality({f[b] : b \in S}) \in Nat
         /\ (\A b, c \in S : f[b] = f[c] => b = c) =>
              Cardinality({f[b] : b \in S}) = Cardinality(S)
  <1> DEFINE V == {f[b] : b \in S}
             g == [b \in S |-> f[b]]
  <1>1. IsFiniteSet(S)
    BY BlockCount
  <1>2. g \in [S -> V]
    OBVIOUS
  <1>3. \A v \in V : \E b \in S : g[b] = v
    OBVIOUS
  <1>4. g \in Surjection(S, V)
    <2> HIDE DEF g, V
    <2> QED BY <1>2, <1>3 DEF Surjection
  <1>5. /\ IsFiniteSet(V) /\ Cardinality(V) <= Cardinality(S)
        /\ Cardinality(V) = Cardinality(S) <=> g \in Injection(S, V)
    <2> HIDE DEF g, V
    <2> QED BY <1>1, <1>4, FS_Surjection
  <1>6. Cardinality(V) \in Nat
    <2> HIDE DEF V
    <2> QED BY <1>5, FS_CardinalityType
  <1>7. ASSUME \A b, c \in S : f[b] = f[c] => b = c
        PROVE  g \in Injection(S, V)
    <2>1. \A b, c \in S : g[b] = g[c] => b = c
      BY <1>7
    <2> HIDE DEF g, V
    <2> QED BY <1>2, <2>1 DEF Injection, IsInjective
  <1> QED BY <1>5, <1>6, <1>7

(* A block of the device is due next or was never written. *)
LEMMA DueOrNew ==
  ASSUME PowerInv, cur # NoBlock
  PROVE  (\E b \in scheduled : bnext[b] = seqno + 1) \/ unscheduled # {}
  BY BeforeWrite DEF ScheduleSound, BlockAvailable, Members, Candidates,
                     Obsoleted, OwnerOf

(* When the current block is written, versions of headers disappear and    *)
(* its new header is the only one that is added.                           *)
Written ==
  /\ cur # NoBlock
  /\ disk' = [disk EXCEPT ![cur] = CurrentHeader]
  /\ UNCHANGED <<platter, torn, damage>>

(* The headers that can be read after the write. *)
LEMMA WrittenVersions ==
  ASSUME PowerInv, Written
  PROVE  /\ \A b \in Block : \A h \in Versions(b)' :
              h \in Versions(b) \/ (b = cur /\ h = CurrentHeader)
         /\ \A b \in Block \ {cur} : disk'[b] = disk[b]
         /\ disk'[cur] = CurrentHeader
         /\ disk' \in [Block -> Header]
         /\ Signed(disk') = scheduled
         /\ \A b \in scheduled : disk'[b].seq = bseq[b] /\ disk'[b].next = bnext[b]
  <1>1. disk \in [Block -> Header] /\ cur \in Block
    BY BeforeWrite DEF Written, PowerInv, PowerTypeOK, BlockioTypeOK
  <1>2. /\ CurrentHeader \in Header /\ CurrentHeader.seq = seqno
        /\ CurrentHeader.next = bnext[cur]
    BY CurrentHeaderFields DEF Written
  <1>3. /\ \A b \in Block \ {cur} : disk'[b] = disk[b]
        /\ disk'[cur] = CurrentHeader
        /\ disk' \in [Block -> Header]
    BY <1>1, <1>2 DEF Written
  <1>4. \A b \in Block : \A h \in Versions(b)' :
          h \in Versions(b) \/ (b = cur /\ h = CurrentHeader)
    BY <1>3 DEF Versions, Written
  <1>5. /\ seqno > 0 /\ bseq[cur] = seqno /\ scheduled = Signed(disk) \cup {cur}
        /\ \A c \in Signed(disk) \ {cur} :
             bseq[c] = disk[c].seq /\ bnext[c] = disk[c].next
    BY BeforeWrite DEF Written
  <1>6. \A b \in Block : b \in Signed(disk') <=> b \in scheduled
    BY <1>2, <1>3, <1>5 DEF Signed
  <1>7. Signed(disk') = scheduled
    <2>1. scheduled \subseteq Block /\ Signed(disk') \subseteq Block
      BY BeforeWrite DEF Signed, Written
    <2> QED BY <1>6, <2>1
  <1>8. \A b \in scheduled : disk'[b].seq = bseq[b] /\ disk'[b].next = bnext[b]
    <2>1. \A b \in scheduled : b = cur \/ (b \in Signed(disk) \ {cur} /\ b \in Block)
      BY <1>5 DEF Signed
    <2> QED BY <1>2, <1>3, <1>5, <2>1
  <1> QED BY <1>3, <1>4, <1>7, <1>8

(* The new header promises that the schedule can go on. *)
LEMMA CurrentPromise ==
  ASSUME PowerInv, Written, NEW N, N = CurrentHeader
  PROVE  Promise(N)'
  <1>0. cur # NoBlock
    BY DEF Written
  <1>2. /\ N.seq = seqno /\ N.next = bnext[cur] /\ N.nmac = nmac
        /\ Hashed(N) = {bseq[c] : c \in scheduled}
    BY <1>0, CurrentHeaderFields
  <1>3. CASE unscheduled # {}
    <2>1. /\ scheduled \in SUBSET Block /\ used \in SUBSET Block
          /\ bseq \in [Block -> Nat] /\ nmac = Cardinality(used)
          /\ scheduled \subseteq used /\ scheduled # used
      BY <1>0, <1>3, BeforeWrite
    <2>2. Cardinality(scheduled) < Cardinality(used)
          /\ Cardinality(scheduled) \in Nat /\ Cardinality(used) \in Nat
      BY <2>1, BlockCount
    <2>3. Cardinality(Hashed(N)) <= Cardinality(scheduled)
          /\ Cardinality(Hashed(N)) \in Nat
      BY <1>2, <2>1, SeqnoCount
    <2>4. Cardinality(Hashed(N)) < N.nmac
      BY <1>2, <2>1, <2>2, <2>3
    <2> QED BY <2>4 DEF Promise
  <1>4. CASE \E b \in scheduled : bnext[b] = seqno + 1
    <2>1. PICK b \in scheduled : bnext[b] = seqno + 1
      BY <1>4
    <2>2. ASSUME NEW c \in Block, NEW h \in Versions(c)', h.seq = bseq[b]
          PROVE  h.next = N.seq + 1
      <3>1. CASE h \in Versions(c)
        <4>1. h.next = bnext[b]
          BY <1>0, <2>2, <3>1, SameSeqno
        <4> QED BY <1>2, <2>1, <4>1
      <3>2. CASE h = N
        <4>1. bseq[b] = seqno
          BY <1>2, <2>2, <3>2
        <4>2. b = cur
          BY <1>0, <4>1, BeforeWrite
        <4> QED BY <1>2, <2>1, <3>2, <4>2
      <3> QED BY <2>2, <3>1, <3>2, WrittenVersions
    <2>3. bseq[b] \in Hashed(N)
      BY <1>2
    <2> QED BY <2>2, <2>3 DEF Promise
  <1> QED BY <1>0, <1>3, <1>4, DueOrNew

(* The promises of the other headers are kept. *)
LEMMA OldPromise ==
  ASSUME PowerInv, Written, NEW c \in Block, NEW g \in Versions(c)
  PROVE  Promise(g)'
  <1>0. cur # NoBlock
    BY DEF Written
  <1>1. Promise(g) /\ \A s \in Hashed(g) : s <= g.seq
    BY DEF PowerInv, HeadersOK
  <1>2. CASE Cardinality(Hashed(g)) < g.nmac
    BY <1>2 DEF Promise
  <1>3. CASE ~ (Cardinality(Hashed(g)) < g.nmac)
    <2>1. PICK s \in Hashed(g) : \A b \in Block : \A h \in Versions(b) :
            h.seq = s => h.next = g.seq + 1
      BY <1>1, <1>3 DEF Promise
    <2>2. g.seq \in Nat /\ g.seq < seqno /\ seqno \in Nat
      BY <1>0, OldVersion, BeforeWrite
    <2>3. CurrentHeader.seq # s
      <3>1. CurrentHeader.seq = seqno /\ s <= g.seq
        BY <1>0, <1>1, CurrentHeaderFields
      <3>2. s # seqno
        BY <1>1, <2>2
      <3> QED BY <3>1, <3>2
    <2>4. \A b \in Block : \A h \in Versions(b)' :
            h.seq = s => h.next = g.seq + 1
      BY <2>1, <2>3, WrittenVersions
    <2> QED BY <2>4 DEF Promise
  <1> QED BY <1>2, <1>3

(* All headers fit together after the write. *)
LEMMA WrittenHeaders ==
  ASSUME PowerInv, Written
  PROVE  HeadersOK'
  <1>0. cur # NoBlock /\ cur \in Block
    BY BeforeWrite DEF Written
  <1>1. PICK N : N = CurrentHeader
    OBVIOUS
  <1>2. /\ N \in Header /\ N.seq = seqno /\ N.next = bnext[cur]
        /\ N.used = used /\ N.nmac = nmac
        /\ Hashed(N) = {bseq[c] : c \in scheduled}
    BY <1>0, <1>1, CurrentHeaderFields
  <1>3. /\ seqno < bnext[cur] /\ nmac = Cardinality(used) /\ seqno \in Nat
        /\ cur \in used
        /\ \A c \in scheduled : bseq[c] <= seqno
    BY <1>0, BeforeWrite
  <1>4. \A b \in Block : \A h \in Versions(b)' :
          h \in Versions(b) \/ (b = cur /\ h = N)
    BY <1>1, WrittenVersions
  <1>5. Fits(cur, N, cur, N)
    BY <1>2, <1>3 DEF Fits
  <1>6. \A b \in Block : \A h \in Versions(b) :
          Fits(b, h, cur, N) /\ Fits(cur, N, b, h)
    BY <1>0, <1>1, CurrentFits
  <1>7. \A b, c \in Block : \A h \in Versions(b), g \in Versions(c) :
          Fits(b, h, c, g)
    BY DEF PowerInv, HeadersOK
  <1>8. \A b, c \in Block : \A h \in Versions(b)', g \in Versions(c)' :
          Fits(b, h, c, g)
    BY <1>4, <1>5, <1>6, <1>7
  <1>9. ASSUME NEW c \in Block, NEW g \in Versions(c)'
        PROVE  /\ g.nmac = Cardinality(g.used)
               /\ \A s \in Hashed(g) : s <= g.seq
               /\ Promise(g)'
    <2>1. CASE g \in Versions(c)
      BY <2>1, OldPromise DEF PowerInv, HeadersOK
    <2>2. CASE g = N
      <3>1. Promise(N)'
        BY <1>1, CurrentPromise
      <3>2. N.nmac = Cardinality(N.used) /\ \A s \in Hashed(N) : s <= N.seq
        BY <1>2, <1>3
      <3> QED BY <2>2, <3>1, <3>2
    <2> QED BY <1>4, <1>9, <2>1, <2>2
  <1>10. ASSUME ~ torn', NEW b \in Block PROVE platter'[b].seq <= disk'[b].seq
    <2>1. platter'[b] = platter[b] /\ platter[b].seq <= disk[b].seq
      BY <1>10 DEF Written, PowerInv, HeadersOK
    <2>2. disk[b].seq \in Nat /\ platter[b].seq \in Nat
      BY DiskTypes, HeaderNumbers DEF PowerInv
    <2>3. CASE b # cur
      BY <2>1, <2>3, WrittenVersions
    <2>4. CASE b = cur
      <3>1. disk'[b].seq = seqno
        BY <1>1, <1>2, <2>4, WrittenVersions
      <3>2. disk[b].seq <= seqno
        BY <1>0, <1>3, <2>2, BeforeWrite DEF Signed
      <3> QED BY <1>3, <2>1, <2>2, <3>1, <3>2
    <2> QED BY <2>3, <2>4
  <1> QED BY <1>8, <1>9, <1>10 DEF HeadersOK

(* The schedule on the disk goes on after the write. *)
LEMMA WrittenGoesOn ==
  ASSUME PowerInv, Written
  PROVE  DiskGoesOn'
  <1>0. cur # NoBlock /\ cur \in Block
    BY BeforeWrite DEF Written
  <1>1. /\ Signed(disk') = scheduled
        /\ \A b \in scheduled : disk'[b].seq = bseq[b] /\ disk'[b].next = bnext[b]
        /\ \A b \in Block \ {cur} : disk'[b] = disk[b]
        /\ disk'[cur] = CurrentHeader
    BY WrittenVersions
  <1>2. /\ seqno \in Nat /\ bseq \in [Block -> Nat] /\ bnext \in [Block -> Nat]
        /\ scheduled \subseteq Block
        /\ scheduled = Signed(disk) \cup {cur} /\ bseq[cur] = seqno
        /\ used = scheduled \cup unscheduled /\ scheduled \cap unscheduled = {}
        /\ \A c \in scheduled : bseq[c] <= seqno /\ seqno < bnext[c]
        /\ \A c \in Signed(disk) : disk[c].seq < seqno
    BY <1>0, BeforeWrite
  <1>3. \A b, c \in Signed(disk') : disk'[b].seq < disk'[c].next
    <2> SUFFICES ASSUME NEW b \in scheduled, NEW c \in scheduled
                 PROVE  bseq[b] < bnext[c]
      BY <1>1
    <2>1. bseq[b] \in Nat /\ bnext[c] \in Nat
      BY <1>2
    <2> QED BY <1>2, <2>1
  <1>4. ASSUME "erased" \notin damage', NEW c \in scheduled
        PROVE  \E b \in disk'[c].used :
                 \/ b \notin Signed(disk')
                 \/ disk'[b].seq > disk'[c].seq
                 \/ disk'[b].next = disk'[c].seq + 1
    <2>1. CASE c = cur
      <3>1. disk'[c].used = used /\ disk'[c].seq = seqno
        BY <1>0, <1>1, <2>1, CurrentHeaderFields
      <3>2. CASE unscheduled # {}
        <4>1. PICK b \in unscheduled : TRUE
          BY <3>2
        <4>2. b \in used /\ b \notin scheduled
          BY <1>2
        <4> QED BY <1>1, <3>1, <4>2
      <3>3. CASE \E b \in scheduled : bnext[b] = seqno + 1
        <4>1. PICK b \in scheduled : bnext[b] = seqno + 1
          BY <3>3
        <4>2. b \in used /\ disk'[b].next = seqno + 1
          BY <1>1, <1>2, <4>1
        <4> QED BY <3>1, <4>2
      <3> QED BY <1>0, <3>2, <3>3, DueOrNew
    <2>2. CASE c # cur
      <3>1. c \in Signed(disk) /\ disk'[c] = disk[c]
        BY <1>1, <1>2, <2>2
      <3>2. "erased" \notin damage
        BY <1>4 DEF Written
      <3>3. PICK b \in disk[c].used :
              \/ b \notin Signed(disk)
              \/ disk[b].seq > disk[c].seq
              \/ disk[b].next = disk[c].seq + 1
        BY <3>1, <3>2 DEF PowerInv, DiskGoesOn
      <3>4. CASE b = cur
        <4>1. disk'[b].seq = seqno
          BY <1>0, <1>1, <3>4, CurrentHeaderFields
        <4>2. disk[c].seq \in Nat
          BY <3>1, DiskTypes, HeaderNumbers DEF PowerInv
        <4>3. disk'[b].seq > disk'[c].seq
          BY <1>2, <3>1, <4>1, <4>2
        <4> QED BY <3>1, <4>3
      <3>5. CASE b # cur
        <4>1. b \in Block
          <5>1. disk[c] \in Header
            BY <3>1, DiskTypes DEF PowerInv
          <5> QED BY <5>1, HeaderFields
        <4>2. disk'[b] = disk[b] /\ (b \in Signed(disk') => b \in Signed(disk))
          BY <1>1, <1>2, <3>5, <4>1
        <4> QED BY <3>1, <3>3, <4>2
      <3> QED BY <3>4, <3>5
    <2> QED BY <2>1, <2>2
  <1> QED BY <1>1, <1>3, <1>4 DEF DiskGoesOn

(* The digest does not tell apart schedules that agree on its blocks. *)
LEMMA HashAgrees ==
  ASSUME NEW S, NEW sq, NEW nx, NEW sq2, NEW nx2,
         \A b \in S : sq[b] = sq2[b] /\ nx[b] = nx2[b]
  PROVE  SeqnosHash(S, sq, nx) = SeqnosHash(S, sq2, nx2)
  <1>1. \A b \in S : {sq[c] : c \in {d \in S : nx[d] < nx[b]}}
                       = {sq2[c] : c \in {d \in S : nx2[d] < nx2[b]}}
    OBVIOUS
  <1> QED BY <1>1 DEF SeqnosHash

(* The header just written is the newest and has the right hash. *)
LEMMA WrittenHash ==
  ASSUME PowerInv, Written, WarningMeansDamage'
  PROVE  HashOK'
  <1>0. cur # NoBlock /\ cur \in Block
    BY BeforeWrite DEF Written
  <1>1. /\ Signed(disk') = scheduled
        /\ \A b \in scheduled : disk'[b].seq = bseq[b] /\ disk'[b].next = bnext[b]
        /\ disk'[cur] = CurrentHeader
    BY WrittenVersions
  <1>2. /\ scheduled \subseteq Block /\ cur \in scheduled /\ bseq[cur] = seqno
        /\ \A c \in scheduled \ {cur} : bseq[c] < seqno
        /\ bseq \in [Block -> Nat] /\ seqno \in Nat
    BY <1>0, BeforeWrite
  <1>3. \A m \in Block : IsNewest(disk', m) => m = cur
    <2> SUFFICES ASSUME NEW m \in scheduled, disk'[cur].seq <= disk'[m].seq,
                        m # cur
                 PROVE  FALSE
      BY <1>1, <1>2 DEF IsNewest
    <2>1. bseq[m] < seqno /\ bseq[m] \in Nat /\ seqno <= bseq[m]
      BY <1>1, <1>2
    <2> QED BY <1>2, <2>1
  <1>4. \A b \in scheduled : /\ bseq[b] = DiskSeq(disk')[b]
                             /\ bnext[b] = DiskNext(disk')[b]
    BY <1>1, <1>2 DEF DiskSeq, DiskNext
  <1>5. SeqnosHash(scheduled, bseq, bnext)
          = SeqnosHash(scheduled, DiskSeq(disk'), DiskNext(disk'))
    BY <1>4, HashAgrees
  <1>6. disk'[cur].hash
          = SeqnosHash(Signed(disk'), DiskSeq(disk'), DiskNext(disk'))
    BY <1>0, <1>1, <1>5, CurrentHeaderFields
  <1> QED BY <1>3, <1>6 DEF HashOK

(* The seqno just written is the highest. *)
LEMMA WrittenHiseq ==
  ASSUME PowerInv, WriteCurrent, Written
  PROVE  /\ HiseqOK' /\ hiseq' \in Nat
         /\ ~ torn /\ "torn" \notin damage => disk'[cur].seq > hiseq
  <1>1. /\ cur # NoBlock /\ cur \in Block
        /\ bseq[cur] = seqno /\ seqno \in Nat /\ hiseq \in Nat /\ seqno > 0
        /\ \A c \in Signed(disk) : disk[c].seq < seqno
        /\ cur \in scheduled
    BY BeforeWrite DEF Written
  <1>2. /\ \A b \in Block \ {cur} : disk'[b] = disk[b]
        /\ disk'[cur].seq = seqno /\ cur \in Signed(disk')
    BY <1>1, WrittenVersions
  <1>3. hiseq' = IF seqno > hiseq THEN seqno ELSE hiseq
    BY <1>1 DEF WriteCurrent
  <1>4. hiseq' \in Nat /\ hiseq <= hiseq' /\ seqno <= hiseq'
    BY <1>1, <1>3
  <1>5. ASSUME NEW b \in Block
        PROVE  disk'[b].seq <= hiseq' /\ platter'[b].seq <= hiseq'
    <2>1. disk[b].seq <= hiseq /\ platter[b].seq <= hiseq /\ platter' = platter
      BY DEF PowerInv, HiseqOK, Written
    <2>2. disk[b].seq \in Nat /\ platter[b].seq \in Nat
      BY DiskTypes, HeaderNumbers DEF PowerInv
    <2> QED BY <1>1, <1>2, <1>4, <2>1, <2>2
  <1>6. ASSUME ~ torn, "torn" \notin damage
        PROVE  hiseq < seqno
    <2>1. hiseq = 0 \/ \E b \in Signed(disk) : disk[b].seq = hiseq
      BY <1>6 DEF PowerInv, HiseqOK
    <2> QED BY <1>1, <2>1
  <1>7. ASSUME ~ torn', "torn" \notin damage'
        PROVE  \E b \in Signed(disk') : disk'[b].seq = hiseq'
    <2>1. hiseq < seqno
      BY <1>6, <1>7 DEF Written
    <2>2. hiseq' = seqno
      BY <1>1, <1>3, <2>1
    <2> QED BY <1>2, <2>2
  <1>8. HiseqOK'
    BY <1>5, <1>7 DEF HiseqOK
  <1> QED BY <1>1, <1>2, <1>4, <1>6, <1>8

(* The current block is written and the next one is to be selected. *)
LEMMA WriteForNextKeeps ==
  ASSUME PowerInv, WriteForNext, PowerSame
  PROVE  PowerInv'
  <1> USE DEF PowerSame
  <1>1. /\ WriteCurrent /\ cur' = NoBlock /\ pc' = "select" /\ cur # NoBlock
        /\ UNCHANGED <<jvars, tail, updated, used, nmac, reserved, torn, warned>>
    BY DEF WriteForNext, WriteCurrent
  <1>2. Written
    BY <1>1 DEF WriteCurrent, Written
  <1>3. WarningMeansDamage'
    BY <1>1 DEF PowerInv, HashOK, WarningMeansDamage
  <1>4. HeadersOK' /\ DiskGoesOn' /\ HashOK' /\ HiseqOK' /\ hiseq' \in Nat
    BY <1>1, <1>2, <1>3, WrittenHeaders, WrittenGoesOn, WrittenHash, WrittenHiseq
  <1>5. /\ disk' \in [Block -> Header] /\ Signed(disk') = scheduled
        /\ \A b \in scheduled : disk'[b].seq = bseq[b] /\ disk'[b].next = bnext[b]
    BY <1>2, WrittenVersions
  <1>6. /\ used = scheduled \cup unscheduled /\ scheduled \cap unscheduled = {}
        /\ nmac = Cardinality(used)
        /\ \A c \in scheduled : bseq[c] <= seqno
        /\ ScheduleSound
    BY <1>1, BeforeWrite
  <1>7. ScheduleSound'
    BY <1>1, <1>6, SoundSame
  <1>8. RamOK'
    BY <1>1, <1>5, <1>6 DEF RamOK, jvars
  <1>9. CurOK' /\ ClosedOK' /\ ScheduleSurvives' /\ OpenNeverFatal'
    BY <1>1, <1>7 DEF CurOK, ClosedOK, ScheduleSurvives, OpenNeverFatal
  <1>10. PowerTypeOK'
    BY <1>1, <1>4, <1>5
       DEF PowerInv, PowerTypeOK, BlockioTypeOK, JugglerTypeOK, jvars
  <1> QED BY <1>4, <1>8, <1>9, <1>10 DEF PowerInv

(* control_close. *)
LEMMA CloseKeeps ==
  ASSUME PowerInv, Close, PowerSame
  PROVE  PowerInv'
  <1> USE DEF PowerSame
  <1>1. DeviceGone /\ pc' = "closed" /\ torn' = torn
    BY DEF Close
  <1>2. CASE ~ updated
    BY <1>1, <1>2, GoneSameKeeps DEF Close, DiskSame
  <1>3. CASE updated
    <2>1. WriteCurrent /\ Written
      BY <1>1, <1>3 DEF Close, WriteCurrent, Written
    <2>2. /\ RamOK' /\ CurOK' /\ ClosedOK' /\ ScheduleSurvives'
          /\ OpenNeverFatal' /\ WarningMeansDamage' /\ JugglerTypeOK'
          /\ cur' = NoBlock /\ tail' = NoBlock /\ updated' = FALSE
          /\ used' = {} /\ nmac' = 0 /\ reserved' = 0 /\ warned' = FALSE
      BY <1>1, GoneKeeps
    <2>3. HeadersOK' /\ DiskGoesOn' /\ HashOK' /\ HiseqOK' /\ hiseq' \in Nat
      BY <2>1, <2>2, WrittenHeaders, WrittenGoesOn, WrittenHash, WrittenHiseq
    <2>4. disk' \in [Block -> Header]
      BY <2>1, WrittenVersions
    <2>5. PowerTypeOK'
      BY <1>1, <2>2, <2>3, <2>4 DEF PowerInv, PowerTypeOK, BlockioTypeOK
    <2> QED BY <2>2, <2>3, <2>5 DEF PowerInv
  <1> QED BY <1>2, <1>3

----------------------------------------------------------------------------
(* Opening the partition again. *)

(* The headers that are found fit together, and the newest one claims all  *)
(* of them.                                                                *)
LEMMA FoundHeaders ==
  ASSUME PowerInv, NEW m \in Block, IsNewest(disk, m)
  PROVE  /\ ~ CountMismatch(m) /\ ~ HeadersClash(m)
         /\ Signed(disk) \subseteq disk[m].used /\ disk[m].used \subseteq Block
         /\ disk[m].nmac = Cardinality(disk[m].used)
         /\ \A b, c \in Signed(disk) : Fits(b, disk[b], c, disk[c])
         /\ \A b \in Signed(disk) : /\ disk[b].seq <= disk[m].seq
                                    /\ disk[b].seq \in Nat /\ disk[b].next \in Nat
         /\ m \in Signed(disk) /\ Promise(disk[m]) /\ disk[m] \in Header
  <1>1. \A b \in Signed(disk) : b \in Block /\ disk[b] \in Versions(b)
                                /\ disk[b] \in Header
    BY DiskTypes DEF PowerInv
  <1>2. \A b, c \in Signed(disk) : Fits(b, disk[b], c, disk[c])
    BY <1>1 DEF PowerInv, HeadersOK
  <1>3. m \in Signed(disk) /\ \A b \in Signed(disk) : disk[b].seq <= disk[m].seq
    BY DEF IsNewest
  <1>4. Signed(disk) \subseteq disk[m].used
    BY <1>2, <1>3 DEF Fits
  <1>5. disk[m].nmac = Cardinality(disk[m].used) /\ Promise(disk[m])
    BY <1>1, <1>3 DEF PowerInv, HeadersOK
  <1>6. disk[m] \in Header /\ disk[m].used \subseteq Block
    BY <1>1, <1>3, HeaderFields
  <1>7. ~ CountMismatch(m)
    <2>1. PICK U \in SUBSET Block : U = disk[m].used
      BY <1>6
    <2>2. PICK S \in SUBSET Block : S = Signed(disk)
      BY <1>1
    <2>3. S \cap (U \ S) = {} /\ S \cup (U \ S) = U
      BY <1>4, <2>1, <2>2
    <2>4. Cardinality(U) = Cardinality(S) + Cardinality(U \ S)
      <3>1. U \ S \in SUBSET Block
        OBVIOUS
      <3> QED BY <2>3, <3>1, BlockCount
    <2> QED BY <1>5, <2>1, <2>2, <2>4 DEF CountMismatch
  <1>8. ~ HeadersClash(m)
    BY <1>2 DEF HeadersClash, Fits
  <1>9. \A b \in Signed(disk) : disk[b].seq \in Nat /\ disk[b].next \in Nat
    BY <1>1, HeaderNumbers
  <1> QED BY <1>2, <1>3, <1>4, <1>5, <1>6, <1>7, <1>8, <1>9

(* What the seqnos and slots of the disk, with the claims of its newest    *)
(* header, must satisfy to be a schedule that can go on.                   *)
DiskSound(m) ==
  /\ \A b \in Signed(disk) : disk[m].seq < disk[b].next
  /\ Claimed(m) # {} \/ \E b \in Signed(disk) : disk[b].next = disk[m].seq + 1

(* No write was erased: the schedule on the disk goes on. *)
LEMMA SoundUnlessErased ==
  ASSUME PowerInv, NEW m \in Block, IsNewest(disk, m), "erased" \notin damage
  PROVE  DiskSound(m)
  <1>1. /\ m \in Signed(disk) /\ \A b \in Signed(disk) : disk[b].seq <= disk[m].seq
        /\ \A b \in Signed(disk) : disk[b].seq \in Nat
    BY FoundHeaders
  <1>2. PICK b \in disk[m].used : \/ b \notin Signed(disk)
                                  \/ disk[b].seq > disk[m].seq
                                  \/ disk[b].next = disk[m].seq + 1
    BY <1>1 DEF PowerInv, DiskGoesOn
  <1>3. CASE b \notin Signed(disk)
    BY <1>1, <1>3 DEF Claimed, DiskSound, PowerInv, DiskGoesOn
  <1>4. CASE b \in Signed(disk)
    <2>1. disk[b].next = disk[m].seq + 1
      BY <1>1, <1>2, <1>4
    <2> QED BY <1>1, <1>4, <2>1 DEF DiskSound, PowerInv, DiskGoesOn
  <1> QED BY <1>3, <1>4

(* The hash is right: what was promised when the newest header was written *)
(* holds of the blocks that are found.                                     *)
LEMMA SoundUnlessWarned ==
  ASSUME PowerInv, NEW m \in Block, IsNewest(disk, m),
         SeqnosHash(Signed(disk), DiskSeq(disk), DiskNext(disk)) = disk[m].hash
  PROVE  DiskSound(m)
  <1> DEFINE S == Signed(disk)
             g == disk[m]
  <1>1. /\ m \in S /\ S \subseteq g.used /\ g.used \subseteq Block
        /\ g.nmac = Cardinality(g.used) /\ Promise(g)
        /\ \A b, c \in S : Fits(b, disk[b], c, disk[c])
        /\ \A b \in S : disk[b].seq \in Nat
    BY FoundHeaders
  <1>2. Hashed(g) = {DiskSeq(disk)[b] : b \in S}
    BY HashedSeqnos
  <1>3. \A b \in S : DiskSeq(disk)[b] = disk[b].seq /\ b \in Block
    BY DEF DiskSeq, Signed
  <1>4. \A b \in S : g.seq < disk[b].next
    BY <1>1, <1>2, <1>3 DEF Fits
  <1>5. CASE Cardinality(Hashed(g)) < g.nmac
    <2>1. DiskSeq(disk) \in [Block -> Nat]
      <3>1. \A b \in Block : disk[b].seq \in Nat
        BY DiskTypes, HeaderNumbers DEF PowerInv
      <3> QED BY <3>1 DEF DiskSeq
    <2>2. \A b, c \in S : DiskSeq(disk)[b] = DiskSeq(disk)[c] => b = c
      BY <1>1, <1>3 DEF Fits
    <2>3. S \in SUBSET Block
      BY <1>1
    <2>4. Cardinality(Hashed(g)) = Cardinality(S)
      <3> HIDE DEF S, g
      <3> QED BY <1>2, <2>1, <2>2, <2>3, SeqnoCount
    <2>5. S # g.used
      <3>1. Cardinality(S) \in Nat
        BY <2>3, BlockCount
      <3> QED BY <1>1, <1>5, <2>4, <3>1
    <2>6. g.used \ S # {}
      BY <1>1, <2>5
    <2> QED BY <1>4, <2>6 DEF DiskSound, Claimed
  <1>6. CASE ~ (Cardinality(Hashed(g)) < g.nmac)
    <2>1. PICK s \in Hashed(g) : \A b \in Block : \A h \in Versions(b) :
            h.seq = s => h.next = g.seq + 1
      BY <1>1, <1>6 DEF Promise
    <2>2. PICK b \in S : s = disk[b].seq
      BY <1>2, <1>3
    <2>3. disk[b] \in Versions(b) /\ b \in Block
      BY DiskTypes DEF PowerInv
    <2>4. disk[b].next = g.seq + 1
      BY <2>1, <2>2, <2>3
    <2> QED BY <1>4, <2>4 DEF DiskSound
  <1> QED BY <1>5, <1>6

(* control_open: it is not fatal, and a schedule that cannot go on is one  *)
(* that the warning is about.                                              *)
LEMMA LoadKeeps ==
  ASSUME PowerInv, Load, PowerSame
  PROVE  PowerInv'
  <1> USE DEF PowerSame
  <1>1. pc = "closed" /\ UNCHANGED <<disk, hiseq, torn>>
    BY DEF Load
  <1>2. DiskSame
    BY <1>1 DEF DiskSame
  <1>3. PICK m \in Block :
          /\ IsNewest(disk, m)
          /\ IF CountMismatch(m) \/ HeadersClash(m)
             THEN pc' = "fatal" /\ UNCHANGED <<jvars, devvars, warned>>
             ELSE /\ scheduled' = Signed(disk)
                  /\ unscheduled' = Claimed(m)
                  /\ seqno' = RestoredSeqno(m)
                  /\ bseq' = DiskSeq(disk)
                  /\ bnext' = DiskNext(disk)
                  /\ used' = disk[m].used
                  /\ nmac' = disk[m].nmac
                  /\ reserved' = disk[m].reserved
                  /\ warned' = (SeqnosHash(Signed(disk), DiskSeq(disk),
                                           DiskNext(disk)) # disk[m].hash)
                  /\ pc' = IF disk[m].nmac > disk[m].reserved
                           THEN "select" ELSE "open"
                  /\ UNCHANGED <<cur, tail, updated>>
    BY DEF Load
  <1>4. /\ ~ CountMismatch(m) /\ ~ HeadersClash(m)
        /\ Signed(disk) \subseteq disk[m].used /\ disk[m].used \subseteq Block
        /\ disk[m].nmac = Cardinality(disk[m].used)
        /\ \A b, c \in Signed(disk) : Fits(b, disk[b], c, disk[c])
        /\ \A b \in Signed(disk) : disk[b].seq <= disk[m].seq
        /\ m \in Signed(disk) /\ disk[m] \in Header
    BY <1>3, FoundHeaders
  <1>5. /\ scheduled' = Signed(disk)
        /\ unscheduled' = disk[m].used \ Signed(disk)
        /\ seqno' = disk[m].seq
        /\ bseq' = DiskSeq(disk) /\ bnext' = DiskNext(disk)
        /\ used' = disk[m].used /\ nmac' = disk[m].nmac
        /\ reserved' = disk[m].reserved
        /\ warned' = (SeqnosHash(Signed(disk), DiskSeq(disk),
                                 DiskNext(disk)) # disk[m].hash)
        /\ pc' \in {"select", "open"}
        /\ cur' = cur /\ tail' = tail /\ updated' = updated
    BY <1>3, <1>4 DEF Claimed, RestoredSeqno
  <1>6. cur' = NoBlock
    BY <1>1, <1>5 DEF PowerInv, ClosedOK
  <1>7. \A b \in Signed(disk) : /\ b \in Block
                                /\ bseq'[b] = disk[b].seq
                                /\ bnext'[b] = disk[b].next
    BY <1>5 DEF Signed, DiskSeq, DiskNext
  <1>8. WarningMeansDamage'
    <2> SUFFICES ASSUME warned', ~ torn', damage' = {} PROVE FALSE
      BY DEF WarningMeansDamage
    <2>1. disk[m].hash = SeqnosHash(Signed(disk), DiskSeq(disk), DiskNext(disk))
      BY <1>1, <1>3 DEF PowerInv, HashOK
    <2> QED BY <1>5, <2>1
  <1>9. HeadersOK' /\ DiskGoesOn' /\ HashOK' /\ HiseqOK'
    BY <1>2, <1>8, DiskSameKeeps
  <1>10. RamOK'
    <2>1. used' = scheduled' \cup unscheduled' /\ scheduled' \cap unscheduled' = {}
      BY <1>4, <1>5
    <2>2. scheduled' = Signed(disk') \cup (IF cur' = NoBlock THEN {} ELSE {cur'})
      BY <1>1, <1>5, <1>6
    <2>3. \A c \in Signed(disk') \ {cur'} :
            bseq'[c] = disk'[c].seq /\ bnext'[c] = disk'[c].next
      BY <1>1, <1>7
    <2>4. \A c \in Signed(disk') : disk'[c].seq <= seqno'
      BY <1>1, <1>4, <1>5
    <2>5. nmac' = Cardinality(used')
      BY <1>4, <1>5
    <2> QED BY <2>1, <2>2, <2>3, <2>4, <2>5 DEF RamOK
  <1>11. CurOK' /\ ClosedOK' /\ OpenNeverFatal'
    BY <1>5, <1>6 DEF CurOK, ClosedOK, OpenNeverFatal
  <1>12. DiskSound(m) => ScheduleSound'
    <2> SUFFICES ASSUME DiskSound(m) PROVE ScheduleSound'
      OBVIOUS
    <2>1. NoMissedSlot'
      BY <1>4, <1>5, <1>7 DEF NoMissedSlot, DiskSound
    <2>2. SlotsUnique'
      <3>1. \A b, c \in Signed(disk) : disk[b].next = disk[c].next => b = c
        BY <1>4 DEF Fits
      <3> QED BY <1>5, <1>7, <3>1 DEF SlotsUnique
    <2>3. unscheduled' # {} \/ \E b \in scheduled' : bnext'[b] = seqno' + 1
      BY <1>5, <1>7 DEF DiskSound, Claimed
    <2>4. BlockAvailable'
      BY <2>3 DEF BlockAvailable, Candidates, Obsoleted, OwnerOf
    <2> QED BY <2>1, <2>2, <2>4 DEF ScheduleSound
  <1>13. ScheduleSurvives'
    <2>1. CASE "erased" \notin damage
      BY <1>3, <1>12, <2>1, SoundUnlessErased DEF ScheduleSurvives
    <2>2. CASE ~ warned'
      BY <1>3, <1>5, <1>12, <2>2, SoundUnlessWarned DEF ScheduleSurvives
    <2> QED BY <2>1, <2>2 DEF ScheduleSurvives
  <1>14. JugglerTypeOK'
    <2>1. \A b \in Block : disk[b].seq \in Nat /\ disk[b].next \in Nat
      BY DiskTypes, HeaderNumbers DEF PowerInv
    <2>2. DiskSeq(disk) \in [Block -> Nat] /\ DiskNext(disk) \in [Block -> Nat]
      BY <2>1 DEF DiskSeq, DiskNext
    <2>3. scheduled' \subseteq Block /\ unscheduled' \subseteq Block
      BY <1>4, <1>5
    <2> QED BY <1>5, <2>1, <2>2, <2>3 DEF JugglerTypeOK
  <1>15. nmac' \in Nat /\ reserved' \in Nat /\ used' \in SUBSET Block
    BY <1>4, <1>5, HeaderFields
  <1>16. warned' \in BOOLEAN
         /\ pc' \in {"closed", "open", "select", "selectResized", "fatal"}
    BY <1>5
  <1>17. PowerTypeOK'
    BY <1>1, <1>5, <1>14, <1>15, <1>16
       DEF PowerInv, PowerTypeOK, BlockioTypeOK
  <1> QED BY <1>9, <1>10, <1>11, <1>13, <1>17 DEF PowerInv

----------------------------------------------------------------------------
(* The theorems. *)

(* A step that leaves everything as it is. *)
LEMMA StutterKeeps ==
  ASSUME PowerInv, UNCHANGED pvars
  PROVE  PowerInv'
  <1>1. DiskSame
    BY DEF DiskSame, pvars, bvars
  <1>2. WarningMeansDamage'
    BY DEF PowerInv, HashOK, WarningMeansDamage, pvars, bvars
  <1>3. HeadersOK' /\ DiskGoesOn' /\ HashOK' /\ HiseqOK'
    BY <1>1, <1>2, DiskSameKeeps
  <1>4. ScheduleSound' <=> ScheduleSound
    BY SoundSame DEF pvars, bvars
  <1>5. RamOK' /\ CurOK' /\ ClosedOK'
    BY <1>4 DEF PowerInv, RamOK, IsOpen, CurOK, ClosedOK, Signed, pvars, bvars,
                jvars, devvars
  <1>6. ScheduleSurvives' /\ OpenNeverFatal'
    BY <1>4 DEF PowerInv, ScheduleSurvives, OpenNeverFatal, pvars, bvars
  <1>7. PowerTypeOK'
    BY DEF PowerInv, PowerTypeOK, BlockioTypeOK, JugglerTypeOK, pvars, bvars,
           jvars, devvars
  <1> QED BY <1>3, <1>5, <1>6, <1>7 DEF PowerInv

(* Every step of the daemon, of the operating system and of the power      *)
(* keeps the invariant.                                                    *)
LEMMA PowerInvNext ==
  ASSUME PowerInv, [PowerLossNext]_pvars
  PROVE  PowerInv'
  <1>1. CASE BlockioNext /\ Followed /\ PowerSame
    <2>1. CASE Create BY <1>1, <2>1, CreateKeeps
    <2>2. CASE Load BY <1>1, <2>2, LoadKeeps
    <2>3. CASE \E b \in Block : \E n \in NextSlots(b) : Select(b, n)
      BY <1>1, <2>3, SelectKeeps
    <2>4. CASE WriteForNext BY <1>1, <2>4, WriteForNextKeeps
    <2>5. CASE MarkUpdated BY <1>1, <2>5, MarkUpdatedKeeps
    <2>6. CASE \E S \in SUBSET Block : \E sh \in Shapes :
                 sh[1] = nmac + Cardinality(S) /\ Resize(S, sh[2])
      BY <1>1, <2>6, ResizeKeeps
    <2>7. CASE Close BY <1>1, <2>7, CloseKeeps
    <2>8. CASE Crash BY <1>1, <2>8, CrashKeeps
    <2>9. CASE CrashTorn BY <1>1, <2>9, CrashTornKeeps
    <2> QED BY <1>1, <2>1, <2>2, <2>3, <2>4, <2>5, <2>6, <2>7, <2>8, <2>9
           DEF BlockioNext
  <1>2. CASE \E b \in Block : WriteBack(b)
    BY <1>2, WriteBackKeeps
  <1>3. CASE \E T \in {{}} \cup {{b} : b \in Block} : PowerFailure(T)
    <2>1. PICK T \in {{}} \cup {{b} : b \in Block} : PowerFailure(T)
      BY <1>3
    <2>2. T \in SUBSET Block
      OBVIOUS
    <2> QED BY <2>1, <2>2, PowerFailureKeeps
  <1>4. CASE UNCHANGED pvars
    BY <1>4, StutterKeeps
  <1> QED BY <1>1, <1>2, <1>3, <1>4 DEF PowerLossNext, PowerSame

(* The inductive invariant holds of every behaviour, for any number of     *)
(* blocks, resizes and power failures.                                     *)
THEOREM PowerInvariant == PowerLossSpec => []PowerInv
  <1>1. PowerInv /\ [PowerLossNext]_pvars => PowerInv'
    BY PowerInvNext
  <1> QED BY <1>1, PowerInvInit, PTL DEF PowerLossSpec

(* The variables of blockio.c have their types. *)
THEOREM BlockioTypeCorrect == PowerLossSpec => []BlockioTypeOK
  <1>1. PowerInv => BlockioTypeOK
    BY DEF PowerInv, PowerTypeOK
  <1> QED BY <1>1, PowerInvariant, PTL

(* blockio_dev_init and juggler_add_macroblock never give up on headers    *)
(* that the daemon wrote, whatever crash or power failure there was.       *)
THEOREM OpenIsNeverFatal == PowerLossSpec => []OpenNeverFatal
  <1>1. PowerInv => OpenNeverFatal
    BY DEF PowerInv
  <1> QED BY <1>1, PowerInvariant, PTL

(* The schedule that an open rebuilds can go on, unless a power failure    *)
(* erased a write; and then scubed3_init has warned about it.              *)
THEOREM ScheduleIsRebuilt == PowerLossSpec => []ScheduleSurvives
  <1>1. PowerInv => ScheduleSurvives
    BY DEF PowerInv
  <1> QED BY <1>1, PowerInvariant, PTL

(* The warning of scubed3_init is no false alarm. *)
THEOREM WarningIsHonest == PowerLossSpec => []WarningMeansDamage
  <1>1. PowerInv => WarningMeansDamage
    BY DEF PowerInv, HashOK
  <1> QED BY <1>1, PowerInvariant, PTL

(* The IV of a mesoblock is not used twice: a block is written with a      *)
(* seqno above all those that ever were on the disk.                       *)
THEOREM SeqnosAreFresh == PowerLossSpec => SeqnoFresh
  <1> DEFINE Fresh(b) ==
        disk'[b] \notin {disk[b], NoHeader} /\ failures' = failures
          /\ ~ torn /\ "torn" \notin damage => disk'[b].seq > hiseq
  <1>1. ASSUME PowerInv, [PowerLossNext]_pvars, NEW b \in Block
        PROVE  Fresh(b)
    <2>1. CASE disk' = disk
      BY <2>1
    <2>2. CASE WriteCurrent /\ UNCHANGED <<platter, torn, damage>>
      <3>1. Written
        BY <2>2 DEF WriteCurrent, Written
      <3>2. ~ torn /\ "torn" \notin damage => disk'[cur].seq > hiseq
        BY <1>1, <2>2, <3>1, WrittenHiseq
      <3>3. b # cur => disk'[b] = disk[b]
        BY <1>1, <3>1, WrittenVersions
      <3> QED BY <3>2, <3>3
    <2>3. CASE CrashTorn
      <3>1. disk \in [Block -> Header]
        BY <1>1 DEF PowerInv, PowerTypeOK, BlockioTypeOK
      <3>2. disk'[b] = disk[b] \/ disk'[b] = NoHeader
        BY <2>3, <3>1 DEF CrashTorn
      <3> QED BY <3>2
    <2>4. CASE \E T \in {{}} \cup {{c} : c \in Block} : PowerFailure(T)
      <3>1. failures' = failures + 1 /\ failures \in Nat
        BY <1>1, <2>4 DEF PowerFailure, PowerInv, PowerTypeOK
      <3>2. failures' # failures
        BY <3>1
      <3> QED BY <3>2
    <2>5. \/ disk' = disk \/ CrashTorn
          \/ WriteCurrent /\ UNCHANGED <<platter, torn, damage>>
          \/ \E T \in {{}} \cup {{c} : c \in Block} : PowerFailure(T)
      <3>1. CASE BlockioNext /\ UNCHANGED <<platter, failures, damage>>
        BY <3>1 DEF BlockioNext, Create, Load, Select, WriteForNext,
                    MarkUpdated, Resize, Close, Crash
      <3>2. CASE \E c \in Block : WriteBack(c)
        BY <3>2 DEF WriteBack, bvars
      <3>3. CASE UNCHANGED pvars
        BY <3>3 DEF pvars, bvars
      <3> QED BY <1>1, <3>1, <3>2, <3>3 DEF PowerLossNext
    <2> QED BY <2>1, <2>2, <2>3, <2>4, <2>5
  <1>2. PowerInv /\ [PowerLossNext]_pvars => [\A b \in Block : Fresh(b)]_pvars
    BY <1>1
  <1> QED BY <1>2, PowerInvariant, PTL DEF PowerLossSpec, SeqnoFresh
=============================================================================
