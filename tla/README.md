# A TLA+ model of scubed3

scubed3 is a FUSE daemon that keeps several encrypted, deniable partitions on
one backing file. Each partition is a log-structured block device; where and
when its macroblocks are overwritten is decided by a randomised schedule. This
directory holds TLA+ modules translated from `src/src/*.c`, the TLC runs that
check them on small instances, and TLAPS proofs, for instances of any size, of
all the safety properties that these runs check.

Every definition that models code is listed in `PROJECT.json` (`map`) with the
lines it stands for. A definition whose name ends in `_bad` is a wrong variant
of the definition that follows it; it is part of no specification and serves
mutation tests: the property named in `PROJECT.json` (`mutants`) has to fail
when the variant is put in place of the original.

## Inventory

| part | state | operations | used by |
|---|---|---|---|
| juggler (`juggler.c`) | scheduled and unscheduled list, `seqno`, `next_seqno` of every block | add, select, discard, rebuild, empty | blockio, scubed3 |
| blockio (`blockio.c`) | headers on disk, current and tail block, USED bitmap, counts, unallocated list | scan, allocate, select, write, close | scubed3, control, freer |
| scubed3 (`scubed3.c`) | index of every mesoblock, counts of live mesoblocks, the current block in RAM | read, write, copy on write, garbage collection, cycle, replay, resize | fuse_io, control |
| hashtbl (`hashtbl.c`) | buckets, elements, three kinds of mutex, count | find, add, delete, traverse, empty | control, fuse_io |
| fuse_io (`fuse_io.c`) | the entries, the identities of their keys | getattr, readdir, open, read, write, release, freer | the kernel |
| control (`control.c`) | the socket, its buffer, one command under way | 17 commands, one response each | scubed3ctl |
| scubed3ctl (`scubed3ctl.c`) | one response under way, the command it is in, `exit_status` | server commands; open, create, resize, mke2fs, mount, chown, umount | the user |
| dllarr (`dllarr.c`) | links, array and indices | init, append, insert, remove, nth, iterate, free | blockio |
| plmgr, pthd, bitmap, binio, random, ciphers, ecch, util | helpers | | all |

How they interact. The control thread and the FUSE threads find a partition's
entry in a hash table that returns it locked; under that lock they call scubed3,
which fills the current macroblock and calls blockio to write it, which asks the
juggler for the next one. The backing file is the only thing that survives a
death of the daemon. A partition is deleted by a control command or by a FUSE
thread (close on release); its freer runs in whichever thread it was.

What is hard:

- **the schedule**: a long sequence of legal steps must not leave a slot that no
  block can fill, and the walk over a sorted list must not miss an owner;
- **crashes and torn headers**: the schedule, the set of blocks and the current
  copy of every mesoblock are rebuilt from headers written at different times;
- **garbage collection**: data is moved while requests are being served, in RAM
  that becomes durable only when a whole macroblock is written;
- **threads**: hand-over-hand locking, deletion of what another thread looks for;
- **two deleters** of one entry, and an identity and a device released in order;
- **a stream protocol** cut up anywhere, with clients that die in the middle;
- **power failures**: macroblocks are never synced, so that a later write may
  survive an earlier one;
- **several partitions** that share one list of free blocks, and do not see the
  blocks of those that are not open;
- **commands in several exchanges**: scubed3ctl asks, runs `mount` or `mke2fs`
  and tells the daemon, and anything may happen between two of these.

`PROJECT.json` (`hazards`) lists these at their lines, with the properties that
would catch them and, where none does, why.

## Modules

```
Juggler  <--refines--  JugglerList     Hashtbl     ControlProtocol      Ctl
   ^                                      : (seen     : (one exchange
   | EXTENDS                              :  whole)   :   is one step)
Blockio  <--EXTENDS--  PowerLoss       Entries . . . . . . . . . . . . .
   ^ EXTENDS
Scubed3  --refines-->  BlockStore      Partitions --INSTANCE--> Dllarr

X_proofs EXTENDS X, for X = JugglerList, PowerLoss, Scubed3, Partitions,
                            Hashtbl, Entries, ControlProtocol, Ctl
PowerLoss_proofs  has the theorems about Juggler too, on which its own rest
Scubed3_proofs    INSTANCEs PowerLoss_proofs (a partition has its theorems)
```

- **Juggler**: the schedule. `GetDevblock(b, n)` is `juggler_get_devblock`: b is
  written at seqno + 1 and will be written again at n. Which n are possible
  (`NextSlots`) follows from the walk's `available_blocks`: the only slot that is
  never refused is a free seqno + 2 when no unscheduled block is left.
- **JugglerList**: the two lists as sequences, the walk one slot per step,
  `juggler_add_macroblock`'s sorted insertion, and what an open does: `Reopen`
  empties the lists and `Replay` adds one block at a time, in the order of their
  seqnos. It implements Juggler (`ImplementsJuggler`), which sees the lists and
  the blocks still to be added together: a reopening is stuttering.
- **Blockio**: one partition on the backing file. `disk[b]` is the header as the
  partition's key reads it. `pc` is `select` between writing a macroblock and
  selecting the next one, where the daemon may die. `Load` is an open: the scan,
  the blocks that the newest header claims without a signature, the comparison of
  counts, the warning about missing blocks, the juggler's seqno. `CrashTorn`
  destroys the header of the block being written.
- **PowerLoss**: Blockio with a medium behind it. `disk` is what the running
  machine reads back, `platter` what survives. `WriteBack` copies one block in
  any order, `PowerFailure` keeps what the platter has and tears one block at
  most. Two limits: a header that the daemon tore by dying and that a power
  failure brings back belongs to another history of the partition and can make
  the open FATAL, so `PowerCanFail` keeps the two accidents apart; and after an
  open that warned with slots behind its seqno the juggler is not followed
  (`Followed`).
- **Dllarr**: the list with an array on the side, as operators on one heap of
  links, indices and arrays, with its assertions. `Walk` follows the links, and
  `Transfer` is a loop that moves elements between lists, as a function of its
  turn. `ListsAgree` is what its users rely on.
- **Partitions**: two or more partitions with their headers on one file. An open
  is two steps (`Scan`, `Claim`), because `blockio_dev_init` gives up
  `unallocated_mutex` between the scan and the claim; closing is two as well
  (`Close` writes the current block, `GiveBack` returns the blocks).
  `blockio_dev_allocate_macroblocks` draws from the shared list, in which the
  blocks of a partition that is not open look free: `careless` records that one
  was taken, and from then on the writes of the two are not followed. Sizes are
  computed as `entry->size` and `no_block_indices` are, modulo `Word` (2^32 in
  the code), and `Pieces` is `do_req`'s cut of a byte range.
- **Scubed3**: Blockio with contents: the indices and data of every macroblock,
  the map from mesoblocks to places, the current block in RAM. A handler that
  writes several macroblocks is several steps (`DoWrite`, `FlushCurrent`,
  `FlushCopy`), between which the daemon may die; the loop of
  `copy_old_block_to_current` is a recursive function (`CopyTrace`), the RAM
  after each of its rounds. A mesoblock read with another
  seqno than it was written with yields `Cipher` (the seqno is its IV).
- **BlockStore**: what a partition promises: an array in which a read returns the
  last write, flushes, and crashes that go back to the last flush.
- **Hashtbl**: every bucket and element with its mutexes, every thread with its
  place in the code. A step ends where the thread waits for a mutex.
- **Entries**: the life of an entry under the control thread and the FUSE
  threads. A search is one step that locks (Hashtbl justifies that); what is done
  under the lock is one step; deleting is unlink, free the device, give up the
  identity. Deaths: the null device of an open that failed early, an assertion, a
  lock of an own mutex, any use of freed memory (which may also go well). The
  commands that change no field of this model (`info`, `get-aux`, `set-aux`,
  `cycle`, ...) are one command `look`.
- **ControlProtocol**: the buffer of the server byte by byte (a command is one
  byte of text and a newline, or a line that is too long), `wipememory` with the
  length the code gives it, the responses line by line, clients that read any
  number of lines and drop what follows the dot.
- **Ctl**: scubed3ctl's local commands, one exchange or shell command per step,
  with the entry fields they read and write, what is mounted where, and what the
  kernel has under way with a partition's file (a file system, a `mke2fs`, a
  file closed and not released yet). A client may be killed at every step; its
  `mke2fs` goes on. Assumed: nobody mounts over a mounted directory, `set-aux`
  and the `-internal` commands are not typed by hand. An open finds any number
  of macroblocks.

## Runs

| run | instance | shows |
|---|---|---|
| `juggler_list` | 3 blocks, seqnos to 5 | lists sorted, `available_blocks` exact, refinement of Juggler |
| `blockio` (MCPowerLoss) | 3 blocks, partitions of 1 or 2 that grow to 3, seqnos to 5, 2 power failures | an open after any close, crash, torn header or lost write finds consistent headers; its schedule goes on, or it warns; it warns only of real damage; no seqno is used twice |
| `scubed3` | 3 blocks of 1 mesoblock in 2 parts, seqnos to 4 | partial writes, reads, replay: a crash-safe block store on a sound schedule |
| `scubed3_gc` | 2 blocks of 3 mesoblocks, 2 values | the garbage collector packs several live mesoblocks |
| `hashtbl` | 3 threads with one operation each (a deletion follows its search), 2 buckets, 2 keys present, 2 spare elements | no deadlock, no use after free, unique keys, exact traversals |
| `entries` | 2 FUSE threads, 2 names, 1 key, 1 partition open, 2 commands, 3 calls | an open file keeps its entry, a key is open once, marked entries go, services end |
| `protocol` | 2 clients (4 and 1 commands before exit), buffer of 4 bytes | executed in order and once, answers belong to their commands |
| `partitions` | 2 partitions, 3 blocks, 2 writes each, words of 32 values (5 bits), mesoblocks of 4 bytes, 3 per block, lists that start with 2 places | one owner per block, sound lists, disjoint claims, opens that do not end the daemon, requests inside the index, sizes that survive a close |
| `ctl` | 2 partitions, 2 directories, 2 blocks | a partition in use is not formatted, mounted again, resized or closed; the noted mountpoint and the exit status are true |
| `dummy_write`, `tail_cleaned`, `close_release` | as above | violations, see Findings |

The largest are `ctl` (1.1 million states), `blockio` (306,000), `scubed3`
(272,000) and `partitions` (117,000). That the schedule is sound at all
(`ScheduleSound`) is proved for Juggler; `scubed3` checks it once more where the
schedule is rebuilt from headers, and `blockio` as `ScheduleSurvives`.

Why the bounds are enough to be interesting. Three blocks let a schedule have a
due block, an owner of the slot after it and an unscheduled one; slots up to four
ahead let the walk skip owned slots and leave holes. Three blocks on disk are a
current block, a tail and one that only the bitmap knows. The second power
failure meets what the open after the first one left. Three mesoblocks per block let a tail
hold live and obsolete ones next to each other. Three threads in the hash table
are a deleter, a walker behind it and one in front of it, in a chain of two or
three elements. In `entries` two commands suffice for the races of one deletion
with another, with a reopening of the same key and with a restart; three calls
are an open, a release and one more. One key is enough because entries with
different keys share only the table. In `partitions`
three blocks of three mesoblocks of four bytes are 36 bytes, more than a word of
5 bits holds, so that sizes wrap; the array of a list grows from 2 places to
three; the shapes hold a reserve that leaves nothing and a negative one. In `ctl`
two partitions and two directories let one command work on a stale mountpoint
that has come to be another partition's. In `protocol` five commands reach two
responses in flight after a double answer, and a full buffer. Symmetry is used
for blocks, values and partitions, and never in a run with a liveness property or with
`Initial`/`Opened` elements. Deadlock is checked everywhere but in `entries`,
where a lock that `control_resize` left behind really stops everybody; liveness
is checked there instead.

Fairness. Hashtbl, Entries and ControlProtocol assume weak fairness of every
thread's own steps: a thread that can go on is scheduled. Nothing is assumed
about the environment (commands, calls of the kernel, users). pthread mutexes
are not fair; operations are bounded in number, so a thread cannot be overtaken
forever, and the properties do not claim more than that. In `entries` they hold
as long as `control_resize` has not left a lock behind (`Leaked`), in
`protocol` correspondence is claimed for clients that never typed a number that
cannot be parsed (`InStep`); both exceptions are what the code does.
The other modules state safety only: how many rounds `select_new_macroblock`
needs is a matter of probability.

## Findings

- `dummy_write`: the README asks for a dummy write in a block that is reselected
  at once (`src/README.md:406`); `do_write` puts data in it, and the block
  overwrites itself. `ImplementsStore` and others are stated up to that moment
  (`Tainted`).
- `tail_cleaned`: resize and close write the current block without copying the
  tail's live data (`control.c:662`).
- `close_release`: `control_close` follows a pointer to an entry that
  `fuse_io_release` has freed; its own comment asks whether it can.

Other disagreements met while modelling, without a run of their own:

- `do_write` unlocks a mutex whose lock is commented out (`scubed3.c:367`); with
  error checking mutexes, the default build, that is FATAL. The Scubed3 runs are
  about the NDEBUG build (`ErrorCheck = FALSE`).
- "the exit status of scubed3ctl must match the exit status of the command"
  (`scubed3ctl.c:61`): `mke2fs` always exits with failure, because it needs
  `get-aux` to answer with an error and that sets `exit_status`; a refusal by
  the client itself, or a missing terminal, exits with success. `ExitTruthful`
  names both.
- a mountpoint that `ctl_mount` notes after the partition was unmounted and
  released stays noted (`scubed3ctl.c:606`); `MountpointTrue` names that case
  (`raced`) and shows that it is the only one.
- `entry->size` is computed in 32 bits (`control.c:369`), so that a large
  partition appears smaller than it is. `RequestsTiled` shows that it never
  appears larger than its index. `fuse_io_read` and `fuse_io_write` report the
  size asked for even when `do_req` refused the request.
- an open that fails before `blockio_dev_init` ends the daemon, `parse_int`
  answers twice, a lock stays behind in `control_resize`, `wipememory` gets an
  offset for a length, `cycle` on a partition of size 0 follows a null pointer.

## Proofs

All proofs are checked by TLAPS and hold for all values of the constants that
satisfy the assumptions named below; TLC evaluates the same assumptions in the
runs. The last theorem of a chain is always `Spec => []Inv`, from a lemma per
action. Every safety property that a passing run checks is the statement of a
theorem.

| module | theorems | from |
|---|---|---|
| JugglerList_proofs | `ScheduleIsOrdered`, `AvailableIsExact`, `ListImplementsJuggler`, `SelectionIsPossible` | `ListInv` |
| PowerLoss_proofs (Juggler) | `JugglerScheduleSound`, `JugglerScheduleKept` | `JugglerInv` |
| PowerLoss_proofs | `BlockioTypeCorrect`, `OpenIsNeverFatal`, `ScheduleIsRebuilt`, `WarningIsHonest`, `SeqnosAreFresh` | `PowerInv` |
| Scubed3_proofs | `TypesHold`, `AssertionsNeverFail`, `LiveCountsExact`, `ListsHaveNoDuplicates`, `PartitionIsStore` | `PowerInv`, `DataInv`, `PendingOK` |
| Partitions_proofs | `PartitionsTypes`, `ListsStaySound`, `OwnershipStaysExact`, `ClaimsStayDisjoint`, `OpensAreSafe`, `RequestsAreTiled`, `ClosesKeepSize` | `PartInv` |
| Hashtbl_proofs | `HashtblTypeCorrect`, `KeysAreUnique`, `NothingDangles`, `CountIsExact`, `TraversalsAreExact` | `HashtblInv` |
| Entries_proofs | `EntriesTypeCorrect`, `KeysAreExclusive`, `HandlesStayValid` | `EntriesInv` |
| ControlProtocol_proofs | `AnswersMatch`, `ServerExecutesWhatWasSent` | `ProtocolInv` |
| Ctl_proofs | `CtlTypeCorrect`, `CtlOneUser`, `CtlMountpointTrue`, `CtlExitTruthful` | `CtlInv` |

### The schedule: PowerLoss_proofs, first part

For every set of blocks and all values of the two bounds (`SeqnoAssumption`:
both are natural numbers).

`JugglerInv` is the conjunction of the type invariant, disjoint lists,
`NoMissedSlot`, `SlotsUnique` and `BlockAvailable`. None of them is inductive
alone: that a block remains available after a selection (`GetDevblockInv`) is
because the walk cannot refuse a free seqno + 2 when no unscheduled block is
left (`NextSlotsForced`), so either that slot is taken by the selected block or
another block owned it; that the other slots stay ahead needs that the selected
block is the only owner of seqno + 1, which is `SlotsUnique`; and that its new
slot is nobody else's is `NextSlotsFree`. One lemma per action, then
`JugglerNextInv`, then the temporal step.

### The lists of juggler.c: JugglerList_proofs

For every finite set of blocks and every `Horizon` at least as large
(`ListAssumption`; with a smaller one the model's cap on how far ahead a slot
may lie could leave the walk without a free slot, which the code does not have).
`ListInv` says that lists and replay are disjoint (`Apart`), that every slot is
ahead of the seqno that is or will be the last one handed out and has one owner
(`SlotsAhead`, which is why adding the blocks again is safe), and where the walk
is (`WalkOK`): in front of the first block that does not come before its slot,
with `available_blocks` counting what it passed. The last conjunct of `WalkOK`,
that the walk has passed seqno + 1 only because it is owned when no unscheduled
block is left, is what the schedule's `NextSlots` demands of the slot it ends
at. `ListImplementsJuggler` maps a walk that ends to `GetDevblock` and all else
but the discards to stuttering. `SelectionIsPossible` shows on top of it that
every step leaves the next slot owned or a block to fill it with
(`AvailableNext`), and reads that off the head of one list and the length of the
other, as the code does.

### Headers, crashes and power failures: PowerLoss_proofs, second part

For every finite set of blocks, all shapes and any number of failures
(`BlockAssumption`, `SeqnoAssumption`, `PowerLossAssumption`). A power failure
leaves any mixture of what is on disk and what is on the medium, so the
invariant speaks of both as `Versions` of a block:

- `HeadersOK`: any two versions fit together (`Fits`): the later one claims the
  earlier block, a seqno identifies a header, slots are unique, and a version
  was replaced only when its slot had come. Every header carries a `Promise`:
  when it was written, some block was unscheduled or the next slot was owned;
- `DiskGoesOn`: as long as nothing was erased, every slot is after every seqno,
  and behind every header there is a block with which the schedule went on. It
  is about every header, not only the newest, because a torn newest header makes
  the one before it the newest;
- `HashOK`, `HiseqOK`: without damage, the newest header has the hash of what is
  found, and the highest seqno ever used is on disk;
- `RamOK`, `CurOK`, `ClosedOK`: what an open or closed device knows of the disk.

The interesting step is `Load` after a failure that erased writes: no warning
means that the hashed seqnos are those found, so that `Promise` of the newest
header gives the schedule that goes on. The limits of the model are those of
the theorems: `PowerCanFail` and `Followed` (see PowerLoss above).

### A partition: Scubed3_proofs

For every finite set of blocks, all values and parts, and every mmpm above 0
(`BlockAssumption`, `Scubed3Assumption`). Every step of Scubed3 is a step of PowerLoss without power
failures, so that `BlockInvariant` is an instance of `PowerInvariant`.
`DataInv` adds:

- `Sound`, of indices and block indices: counts are exact (`CountsOK`), the
  current block's indices and the map are inverse to each other (`CurrentOK`),
  every other mesoblock is where the map says (`FoundOnDisk`) and in the latest
  block that lists it (`LatestFound`), which makes a replay rebuild the same map;
- `TailOK`: `tail` is the block that is due next, which is what makes the copy
  save the data that is about to be overwritten;
- `DiskOK`: the disk alone says what was written, and the block that is due
  after the newest one lists only mesoblocks that later blocks list too, so that
  a torn write destroys nothing;
- `FreshOK`, `Grown`, `ControlOK`: where the handlers are.

All is stated up to `Tainted` (see Findings). The loop of
`copy_old_block_to_current` is handled without induction: among the rounds in
which its loop invariant fails there would be a first one, and the round before
it preserves the invariant. The replay is a choice of the latest block that
lists a mesoblock, not a recursion, so it needs none.

`PartitionIsStore` maps creating, opening, selecting and copying to stuttering;
a write that fits to `Write`; a written macroblock to `Flush`; a crash, a death
and a close without update to `Lose`; a resize to `Grow`, or to `Lose` when it
ends in a death; a torn write to `LoseGrowth`; overwriting live data to `Spoil`.
What the store has is a function of disk and RAM (`View`), what survives a
function of the disk (`DiskView`). `PendingOK` adds that a
request waiting for room is one that was made, and that what the current block
still has on disk is listed by later blocks, which a torn write of it needs.

### Several partitions and their lists: Partitions_proofs

For any number of macroblocks and partitions, any shapes, any positive
`StartSize`, `Word`, `MesoSize` and `MMPM` (`PartitionsAssumption`: the
macroblocks are distinct, and null pointer, partitions, blocks and sentinels are
told apart). Nothing is assumed about overflow: that sizes wrap is part of the
theorems.

The first half is about dllarr.c. `Sound` says of a heap that the links and the
indices of each list are those of its array, sentinels included, that no element
is in two lists and that one in no list is unlinked. On a sound heap following
the links visits the array (`IteratedIsArray`), so that the nodes behind one are
those with a higher index; `dllarr_insert` and `dllarr_remove` fail no assertion
and keep the heap sound (`InsertSound`, `RemoveSound`, each by cases on the
position of a node: before, at or behind the change); and a loop that moves
elements shifts exactly these from one list to the other (`TransferSound`). The
walk and the loop are functions of the turn: if what is claimed of them failed
for some turn there would be a first one, and the turn before it contradicts it,
which needs no induction theorem.

The second half proves `PartInv`:

- `OwnersOK`: `bi->dev` is null exactly for the members of the unallocated list,
  and the control thread is in the partition that is between scan and claim;
- `DevOK`, per partition and place: a closed device has no blocks; between scan
  and claim it has those of its replay list; open, those of its bitmap, which are
  those of its juggler; while it is freed, those of juggler and replay list. The
  size never exceeds the index, and is the one an open would compute from the
  counts unless the reserve is larger than the device;
- `HeadersOK`: a header counts the blocks of its own bitmap;
- `Careful`, unless `careless`: the newest header of a partition claims all its
  blocks; no two partitions claim the same one; a claimed block belongs to its
  partition or to nobody; what was scanned is still the newest header when the
  blocks are claimed; and a device without updates has on disk what it has in
  RAM, which makes a close keep the size.

`OpenNeverDies` is not inductive alone: that the claim finds its blocks free is
the third conjunct of `Careful`, which an allocation by another partition keeps
because what is taken from an open one is not in the list and what is taken from
a closed one makes the history `careless`. That no other open gets between the
two halves is `OwnersOK`, from one control thread. `ClosesKeepSize` needs that
the block written last is the newest one, hence the seqnos in `Careful`.

`RequestsAreTiled` is arithmetic: the bytes of a device, modulo a word twice,
are at most `MesoSize` times the index, modulo the same word (`SizeFacts`), for
open and for resize (`ReinitSizes`), and the pieces that `do_req` makes of a
range follow each other and end at boundaries (`PieceFacts`, `Tiling`). The
multiplications that the SMT solver does not find are proved from uniqueness of
quotient and remainder (`DivModUnique`).

### The hash table: Hashtbl_proofs

For any finite sets of threads and elements, a non-empty set of keys and any
number of buckets (`HashtblAssumption`). `HashtblInv` has the shape of the table
(`TableOK`: one pointer to each element, linked elements alive and in their
bucket, keys unique), elements not linked yet belonging to one thread (`Fresh`),
the count, and for every thread what its mutexes guarantee at its place
(`ThreadOK`): that it stands in its bucket's chain, that an element to be
deleted is still the next one, that an adder's key is ahead of it or absent, and
what a traversal has seen and must still see. A chain is the least set closed
under the pointers, so that linking and unlinking (`ReachPush`, `ReachCut`) and
the absence of cycles (`ReachNoCycle`) are set reasoning, not induction.

### Entries: Entries_proofs

For any number of entries, keys, names and FUSE threads (`EntriesAssumption`).
`EntriesInv` says what a thread knows of its entry at its place (`Knows`), that
only the control thread opens (`OnlyCtlOpens`), that an entry has one freer
(`OneFreer`) and that a device's key is registered for it (`EntryOK`).
`KeysAreExclusive` follows from the last; that a file's entry stays needs that
an entry marked for deletion is not in use.

### The socket: ControlProtocol_proofs

For any clients, numbers of commands and buffer of at least 2 bytes
(`ProtocolAssumption`). `ProtocolInv`: on an open connection either every
command has been executed and no byte is under way (`Quiet`), or one line, whole
and nothing else, is spread over the stream and the buffer (`Asked`), so that a
newline in the buffer is the end of that command; and the lines that wait for a
client answer its last command. As in the run, for clients `InStep`.

### scubed3ctl: Ctl_proofs

For all sets of partitions and directories and any number of
macroblocks (`CtlAssumption`: there is at least one macroblock, and `None` is
neither a partition nor a directory): `CtlTypeCorrect`, `CtlOneUser`,
`CtlMountpointTrue` and `CtlExitTruthful`, all from `CtlSpec => []CtlInv`.
`CtlInv` adds to the properties what a command under way relies on:

- `ClientReady`: it names a partition and a directory; a partition between
  check-available and its opening is still closed (the daemon serves one client
  at a time, and nothing else opens partitions), so that opening it does not
  overwrite an entry in use; `umount` was given a directory;
- `StatusSound`: with `-c` nothing has failed while a command is under way,
  unless it is `mke2fs`; without it `ExitTruthful` says nothing of the step
  before the end;
- `NothingKnown`: an entry that is not open has no mountpoint.

Each action has a lemma. Those of the client alone rest on `GoesTo` and
`EndsWell` (what a step inside a command and its end need); those that touch the
world rest on `EntryChanges` (an entry changes, its users do not) and
`UserChanges` (one partition changes its user), so that the invariant is opened
for one partition at a time.

### Only model-checked

- Liveness: `OperationsEnd`, `MarkedIsDeleted`, `ServiceEnds`,
  `ServedIsAnswered`. TLAPS cannot do liveness under fairness, nor ENABLED.
- The three violations.

No module that is proved about, or that it uses, has a RECURSIVE operator.

## What is not modelled

- The byte layout of headers, ciphers, hashes, key derivation: a header is what
  its key reads. The hash of the data is computed and never checked, by the code
  as well.
- A torn write that leaves a valid header in front of old data: the macroblock
  is one write, and a torn one destroys the header. The combination of a torn
  header and a power failure (see PowerLoss).
- What two partitions write over each other after an allocation took blocks of
  one that was not open.
- The contents of a partition and its schedule together with other partitions:
  Scubed3 has one partition, Partitions has no contents.
- Reading several bits at once from a bitmap, binio's byte order: no property
  could tell them apart from what the callers use.
- `plmgr`'s thread (it waits and prints), `readdir` beyond the traversal, texts
  of `help`, `p` and `info`, the terminal and option parsing, ecch, verbose,
  util, `attic/` and `testing/`.

## Plan

Done: Juggler, JugglerList, Blockio, PowerLoss, Scubed3 with BlockStore, Dllarr,
Partitions, Hashtbl, Entries, ControlProtocol, Ctl; proofs of all safety
properties that the runs check. Left, in this order:

1. The juggler after an open that warned, with slots behind its seqno.
2. Blocks that are torn in the middle, with `blockio_check_data_hash` as the code
   would use it.
3. Contents in Partitions: that what one partition writes is not seen in another
   as long as nothing was `careless`.
