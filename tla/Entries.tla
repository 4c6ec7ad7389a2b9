------------------------------ MODULE Entries ------------------------------
(***************************************************************************)
(* The life of a partition inside the daemon: the entry that the control   *)
(* thread (src/src/control.c) makes when a partition is opened, that the   *)
(* FUSE threads (src/src/fuse_io.c) use, and that either of them deletes.  *)
(* Entries are found by name in the hash table of Hashtbl.tla, here seen   *)
(* from the outside: a search returns the entry with its data_mutex        *)
(* locked, and waits while another thread has it locked.                   *)
(*                                                                         *)
(* The control thread serves one command at a time.  A FUSE thread serves  *)
(* one call of the kernel at a time; the kernel (external) sends the       *)
(* release of a file after the reads and writes of that file have ended.   *)
(***************************************************************************)
EXTENDS Integers, FiniteSets

CONSTANTS
  Name, Key,
  Obj,          \* fuse_io_entry_t objects, never reused
  Fuse, Ctl,    \* the FUSE threads and the control thread
  None,         \* no object, no owner, no name, no key
  Opened,       \* the partitions that are open already, see EntriesInit
  ErrorCheck,   \* the build: mutexes are error checking (NDEBUG undefined)
  Commands,     \* bound: commands the control thread receives
  Calls         \* bound: calls of the kernel

Thread == Fuse \cup {Ctl}

ASSUME EntriesAssumption ==
  /\ ErrorCheck \in BOOLEAN
  /\ Commands \in Nat /\ Calls \in Nat
  /\ Ctl \notin Fuse
  /\ DOMAIN Opened \subseteq Obj
  /\ \A o \in DOMAIN Opened : Opened[o] \in Name \X Key
  /\ \A o, p \in DOMAIN Opened : \A i \in 1..2 :
       Opened[o][i] = Opened[p][i] => o = p
  /\ None \notin Thread \cup Obj \cup Name \cup Key

VARIABLES
  ent,      \* the entries
  ids,      \* priv->ids: which entry uses a cipher and key combination
  stored,   \* the keys with macroblocks on the backing file
  th,       \* the local variables of every thread
  file,     \* the kernel's open files: closed, or open with an access mode
  up,       \* whether the daemon runs
  left      \* bounds: commands and calls that may still come

vars == <<ent, ids, stored, th, file, up, left>>

(* mem: linked entries are in the table; an unlinked one is taken out, its *)
(* name is freed next, the entry itself last.  dev: blockio_dev_init has   *)
(* been called and blockio_dev_free has not.  grown: there are macroblocks.*)
Blank == [mem |-> "unused", name |-> None, key |-> None, lock |-> None,
          inuse |-> 0, readonly |-> FALSE, to_be_deleted |-> FALSE,
          close_on_release |-> FALSE,
          dev |-> FALSE, grown |-> FALSE, updated |-> FALSE]

Mem == {"unused", "linked", "unlinked", "freeing", "freed"}

Idle == [pc |-> "idle", op |-> "none", name |-> None, arg |-> None,
         obj |-> None]

EntriesTypeOK ==
  /\ ent \in [Obj -> [mem : Mem, name : Name \cup {None},
                      key : Key \cup {None}, lock : Thread \cup {None},
                      inuse : 0..1, readonly : BOOLEAN,
                      to_be_deleted : BOOLEAN, close_on_release : BOOLEAN,
                      dev : BOOLEAN, grown : BOOLEAN, updated : BOOLEAN]]
  /\ ids \in [Key -> Obj \cup {None}]
  /\ stored \subseteq Key
  /\ \A t \in Thread :
       /\ th[t].pc \in {"idle", "find", "body", "add", "init", "check",
                        "delete", "free", "forget"}
       /\ th[t].obj \in Obj \cup {None}
  /\ file \in [Name -> {"closed", "r", "rw"}]
  /\ up \in BOOLEAN
  /\ left \in [ctl : 0..Commands, fuse : 0..Calls]

Linked(n) == {o \in Obj : ent[o].mem = "linked" /\ ent[o].name = n}

(* The daemon serves the partitions of Opened, a name and a key for each,  *)
(* which were opened before.                                               *)
EntriesInit ==
  /\ ent = [o \in Obj |-> IF o \notin DOMAIN Opened THEN Blank
                          ELSE [Blank EXCEPT !.mem = "linked",
                                  !.name = Opened[o][1], !.key = Opened[o][2],
                                  !.dev = TRUE, !.grown = TRUE]]
  /\ ids = [k \in Key |-> IF \E o \in DOMAIN Opened : Opened[o][2] = k
                          THEN CHOOSE o \in DOMAIN Opened : Opened[o][2] = k
                          ELSE None]
  /\ stored = {Opened[o][2] : o \in DOMAIN Opened}
  /\ th = [t \in Thread |-> Idle]
  /\ file = [n \in Name |-> "closed"]
  /\ up = TRUE
  /\ left = [ctl |-> Commands, fuse |-> Calls]

Become(t, l) == th' = [th EXCEPT ![t] = l]

(* The daemon dies: its memory is gone, and the mount with the open files. *)
Died ==
  /\ up' = FALSE
  /\ ent' = [o \in Obj |-> IF ent[o].mem = "unused" THEN ent[o]
                           ELSE [Blank EXCEPT !.mem = "freed"]]
  /\ ids' = [k \in Key |-> None]
  /\ th' = [t \in Thread |-> Idle]
  /\ file' = [n \in Name |-> "closed"]
  /\ UNCHANGED <<stored, left>>

----------------------------------------------------------------------------
(* What the control thread and the FUSE threads are asked to do. *)

(* The commands about one partition.  "look" stands for those that change  *)
(* nothing of what is modelled here: info, get-aux, set-aux (it notes a    *)
(* mountpoint to be shown), check-available, verbose-juggler and cycle.    *)
Command ==
  {"open", "create"} \X (Key \cup {None})  \* None: a key that is refused
  \cup {"close", "look"} \X {None}
  \cup {"set-readonly", "set-close-on-release"} \X BOOLEAN
  \cup {"resize"} \X {"grow", "garbage"}

(* control_thread receives a line and control_call finds its command.      *)
(* Bound: as many partitions are opened as there are objects.              *)
Receive ==
  /\ up /\ th[Ctl].pc = "idle" /\ left.ctl > 0
  /\ \E n \in Name : \E c \in Command :
       /\ c[1] \in {"open", "create"} => \E o \in Obj : ent[o].mem = "unused"
       /\ Become(Ctl, [Idle EXCEPT !.pc = IF c[1] \in {"open", "create"}
                                          THEN "add" ELSE "find",
                                   !.op = c[1], !.name = n, !.arg = c[2]])
  /\ left' = [left EXCEPT !.ctl = @ - 1]
  /\ UNCHANGED <<ent, ids, stored, file, up>>

(* No thread is busy with a call about an open file of this name. *)
Quiet(n) == \A t \in Fuse : ~ (th[t].op \in {"read", "write", "release"}
                               /\ th[t].name = n)

(* The kernel calls fuse_io_getattr, fuse_io_open, fuse_io_read,           *)
(* fuse_io_write or fuse_io_release in some FUSE thread.                   *)
Call(t) ==
  /\ up /\ t \in Fuse /\ th[t].pc = "idle" /\ left.fuse > 0
  /\ \E n \in Name : \E op \in {"getattr", "open-r", "open-rw", "read",
                                "write", "release"} :
       /\ op = "read" => file[n] # "closed" /\ Quiet(n)
       /\ op = "write" => file[n] = "rw" /\ Quiet(n)
       /\ op = "release" => file[n] # "closed" /\ Quiet(n)
       /\ Become(t, [Idle EXCEPT !.pc = "find", !.op = op, !.name = n])
  /\ left' = [left EXCEPT !.fuse = @ - 1]
  /\ UNCHANGED <<ent, ids, stored, file, up>>

----------------------------------------------------------------------------
(* hashtbl_find_element_bykey; an answer that there is no such partition.  *)
(* The kernel forgets a file whatever its release returns.                 *)
Find(t) ==
  LET n == th[t].name
  IN  /\ th[t].pc = "find"
      /\ \/ /\ Linked(n) = {}
            /\ Become(t, Idle)
            /\ file' = IF th[t].op = "release"
                       THEN [file EXCEPT ![n] = "closed"] ELSE file
            /\ UNCHANGED ent
         \/ \E o \in Linked(n) :
              /\ ent[o].lock = None
              /\ ent' = [ent EXCEPT ![o].lock = t]
              /\ Become(t, [th[t] EXCEPT !.pc = "body", !.obj = o])
              /\ UNCHANGED file
      /\ UNCHANGED <<ids, stored, up, left>>

(* pthd_mutex_lock of an error checking mutex that the thread itself left  *)
(* locked: FATAL.                                                          *)
DoublyLock(t) ==
  /\ th[t].pc \in {"find", "add"}
  /\ ErrorCheck
  /\ \E o \in Linked(th[t].name) : ent[o].lock = t
  /\ Died

(* The thread stores e in its entry, unlocks it and is done. *)
Unlock(t, e) ==
  /\ ent' = [ent EXCEPT ![th[t].obj] = [e EXCEPT !.lock = None]]
  /\ Become(t, Idle)

(* The thread stores e, unlocks it and calls hashtbl_delete_element_byptr. *)
UnlockAndDelete(t, e) ==
  /\ ent' = [ent EXCEPT ![th[t].obj] = [e EXCEPT !.lock = None]]
  /\ Become(t, [Idle EXCEPT !.pc = "delete", !.op = th[t].op,
                            !.name = th[t].name, !.obj = th[t].obj])

In(t, ops) == th[t].pc = "body" /\ th[t].op \in ops

(* fuse_io_getattr, and the commands that change nothing of the entry. *)
Look(t) ==
  /\ In(t, {"look", "getattr"})
  /\ Unlock(t, ent[th[t].obj])
  /\ UNCHANGED <<ids, stored, file, up, left>>

(* fuse_io_open when it is refused or not, and what a refusal does to the  *)
(* entries and to the thread.                                              *)
OpenUnless(t, refused, refusal) ==
  LET e == ent[th[t].obj]
      mode == IF th[t].op = "open-r" THEN "r" ELSE "rw"
  IN  /\ In(t, {"open-r", "open-rw"})
      /\ IF refused THEN refusal /\ UNCHANGED file
         ELSE /\ Unlock(t, [e EXCEPT !.inuse = @ + 1])
              /\ file' = [file EXCEPT ![e.name] = mode]
      /\ UNCHANGED <<ids, stored, up, left>>

Denied(t, e) == e.readonly /\ th[t].op = "open-rw"

(* fuse_io_open does not look at to_be_deleted; at inuse; leaves the entry *)
(* locked when it is busy.                                                 *)
FuseOpenMarked_bad(t) ==
  LET e == ent[th[t].obj]
  IN  OpenUnless(t, e.inuse > 0 \/ Denied(t, e), Unlock(t, e))

FuseOpenInuse_bad(t) ==
  LET e == ent[th[t].obj]
  IN  OpenUnless(t, e.to_be_deleted \/ Denied(t, e), Unlock(t, e))

FuseOpenLocked_bad(t) ==
  LET e == ent[th[t].obj]
  IN  OpenUnless(t, e.inuse > 0 \/ e.to_be_deleted \/ Denied(t, e),
                 Become(t, Idle) /\ UNCHANGED ent)

(* fuse_io_open: -EBUSY, -EACCES, or the kernel has an open file. *)
FuseOpen(t) ==
  LET e == ent[th[t].obj]
  IN  OpenUnless(t, e.inuse > 0 \/ e.to_be_deleted \/ Denied(t, e),
                 Unlock(t, e))

(* fuse_io_read, and fuse_io_write with its assertion: do_req under the    *)
(* lock of the entry.  What is written becomes the current macroblock.     *)
ReadWrite(t) ==
  LET e == ent[th[t].obj]
  IN  /\ In(t, {"read", "write"})
      /\ IF th[t].op = "write" /\ e.readonly THEN Died
         ELSE /\ Unlock(t, [e EXCEPT !.updated = @ \/ (e.grown
                                                      /\ th[t].op = "write")])
              /\ UNCHANGED <<ids, stored, file, up, left>>

(* The entry is marked but not deleted (wrong variant, for mutation tests, *)
(* like every definition whose name ends in _bad).                         *)
Release_bad(t) ==
  LET e == ent[th[t].obj]
  IN  /\ In(t, {"release"})
      /\ e.inuse > 0
      /\ Unlock(t, [e EXCEPT !.inuse = @ - 1,
                             !.to_be_deleted = e.close_on_release])
      /\ file' = [file EXCEPT ![th[t].name] = "closed"]
      /\ UNCHANGED <<ids, stored, up, left>>

(* fuse_io_release *)
Release(t) ==
  LET e == ent[th[t].obj]
      r == [e EXCEPT !.inuse = @ - 1]
  IN  /\ In(t, {"release"})
      /\ IF e.inuse = 0 THEN Died
         ELSE /\ IF e.close_on_release
                 THEN UnlockAndDelete(t, [r EXCEPT !.to_be_deleted = TRUE])
                 ELSE Unlock(t, r)
              /\ file' = [file EXCEPT ![th[t].name] = "closed"]
              /\ UNCHANGED <<ids, stored, up, left>>

----------------------------------------------------------------------------
(* control_set_readonly and control_set_close_on_release *)
Set(t) ==
  LET e == ent[th[t].obj]
      a == th[t].arg
  IN  /\ In(t, {"set-readonly", "set-close-on-release"})
      /\ Unlock(t, IF th[t].op = "set-close-on-release"
                   THEN [e EXCEPT !.close_on_release = a]
                   ELSE IF e.inuse > 0 THEN e
                   ELSE [e EXCEPT !.readonly = a])
      /\ UNCHANGED <<ids, stored, file, up, left>>

(* control_close: busy, or mark the entry, unlock it and delete it. *)
Close(t) ==
  LET e == ent[th[t].obj]
  IN  /\ In(t, {"close"})
      /\ IF e.inuse > 0 THEN Unlock(t, e)
         ELSE UnlockAndDelete(t, [e EXCEPT !.to_be_deleted = TRUE])
      /\ UNCHANGED <<ids, stored, file, up, left>>

(* control_resize is refused (busy, a size that makes no sense, not enough *)
(* free blocks) or grows the partition.  When a number cannot be parsed,   *)
(* an error is sent and the command goes on with 0, which is refused; but  *)
(* if the client is gone, sending fails and control_resize returns with    *)
(* the entry locked.                                                       *)
Resize(t) ==
  LET e == ent[th[t].obj]
  IN  /\ In(t, {"resize"})
      /\ \/ Unlock(t, e)
         \/ /\ e.inuse = 0 /\ th[t].arg = "grow"
            /\ Unlock(t, [e EXCEPT !.grown = TRUE, !.updated = TRUE])
         \/ /\ e.inuse = 0 /\ th[t].arg = "garbage"
            /\ Become(t, Idle)
            /\ UNCHANGED ent
      /\ UNCHANGED <<ids, stored, file, up, left>>

----------------------------------------------------------------------------
(* control_open_create_common: hashtbl_allocate_and_add_element refuses a  *)
(* name that is in the table, for which it waits until the entry that has  *)
(* it is unlocked.                                                         *)
Add(t) ==
  LET n == th[t].name
      o == CHOOSE o \in Obj : ent[o].mem = "unused"
  IN  /\ th[t].pc = "add"
      /\ \/ /\ \E d \in Linked(n) : ent[d].lock = None
            /\ Become(t, Idle)
            /\ UNCHANGED ent
         \/ /\ Linked(n) = {}
            /\ ent' = [ent EXCEPT ![o] = [Blank EXCEPT !.mem = "linked",
                                            !.name = n, !.lock = t]]
            /\ Become(t, [th[t] EXCEPT !.pc = "init", !.obj = o])
      /\ UNCHANGED <<ids, stored, file, up, left>>

(* The try block of control_open_create_common.  The key is refused by     *)
(* unbase16 or cipher_init, or it is in use already: blockio_dev_init is   *)
(* not called.  Otherwise the headers are scanned, and creating fails when *)
(* the key has blocks, opening when it has none.                           *)
InitDevice(t) ==
  LET o == th[t].obj
      e == ent[o]
      k == th[t].arg
      refused == k \notin Key \/ ids[k] # None
      found == k \in stored
      ok == found = (th[t].op = "open")
  IN  /\ th[t].pc = "init"
      /\ ent' = [ent EXCEPT ![o] =
                   [e EXCEPT !.lock = None,
                             !.key = IF refused THEN None ELSE k,
                             !.dev = ~ refused,
                             !.grown = ~ refused /\ found,
                             !.to_be_deleted = refused \/ ~ ok]]
      /\ ids' = IF refused THEN ids ELSE [ids EXCEPT ![k] = o]
      /\ Become(t, [th[t] EXCEPT !.pc = "check"])
      /\ UNCHANGED <<stored, file, up, left>>

(* The entry is looked at once more, unlocked: delete it if that failed. *)
Check(t) ==
  LET o == th[t].obj
  IN  /\ th[t].pc = "check"
      /\ Become(t, IF ent[o].to_be_deleted
                   THEN [Idle EXCEPT !.pc = "delete", !.op = th[t].op,
                                     !.obj = o]
                   ELSE Idle)
      /\ UNCHANGED <<ent, ids, stored, file, up, left>>

----------------------------------------------------------------------------
(* hashtbl_delete_element_byptr: take the entry out when nobody uses it,   *)
(* or do nothing when it has been taken out already.  The search starts    *)
(* with the name of the entry: if that has been freed, anything goes.      *)
Delete(t) ==
  LET o == th[t].obj
  IN  /\ th[t].pc = "delete"
      /\ \/ /\ ent[o].mem = "linked" /\ ent[o].lock = None
            /\ ent' = [ent EXCEPT ![o].mem = "unlinked"]
            /\ Become(t, [th[t] EXCEPT !.pc = "free"])
            /\ UNCHANGED <<ids, stored, file, up, left>>
         \/ /\ ent[o].mem # "linked"
            /\ Become(t, Idle)
            /\ UNCHANGED <<ent, ids, stored, file, up, left>>
         \/ /\ ent[o].mem \in {"freeing", "freed"}
            /\ Died

(* The identity is given up before the device. *)
FreeDevice_bad(t) ==
  LET o == th[t].obj
      e == ent[o]
  IN  /\ th[t].pc = "free"
      /\ e.dev
      /\ ent' = [ent EXCEPT ![o].mem = "freeing"]
      /\ ids' = [ids EXCEPT ![e.key] = None]
      /\ Become(t, [th[t] EXCEPT !.pc = "forget"])
      /\ UNCHANGED <<stored, file, up, left>>

(* freer, up to and including blockio_dev_free, which writes the current   *)
(* macroblock and gives the blocks back; it follows dev->b, which is null  *)
(* when blockio_dev_init was not called.                                   *)
FreeDevice(t) ==
  LET o == th[t].obj
      e == ent[o]
  IN  /\ th[t].pc = "free"
      /\ IF ~ e.dev THEN Died
         ELSE /\ ent' = [ent EXCEPT ![o] = [e EXCEPT !.mem = "freeing",
                                                   !.dev = FALSE]]
              /\ stored' = IF e.updated THEN stored \cup {e.key} ELSE stored
              /\ Become(t, [th[t] EXCEPT !.pc = "forget"])
              /\ UNCHANGED <<ids, file, up, left>>

(* The rest of freer: give up the identity, free the entry. *)
Forget(t) ==
  LET o == th[t].obj
  IN  /\ th[t].pc = "forget"
      /\ ids' = [k \in Key |-> IF ids[k] = o THEN None ELSE ids[k]]
      /\ ent' = [ent EXCEPT ![o] = [Blank EXCEPT !.mem = "freed"]]
      /\ Become(t, Idle)
      /\ UNCHANGED <<stored, file, up, left>>

----------------------------------------------------------------------------
(* The file system is unmounted: fuse_io_destroy, and hashtbl_free of the  *)
(* entries, which locks each one and calls freer.                          *)
Unmount ==
  /\ up
  /\ \A t \in Thread : th[t].pc = "idle"
  /\ \A n \in Name : file[n] = "closed"
  /\ \A o \in Obj : ent[o].mem = "linked" => ent[o].lock = None
  /\ up' = FALSE
  /\ stored' = stored \cup {ent[o].key : o \in {o \in Obj :
                              ent[o].mem = "linked" /\ ent[o].updated}}
  /\ ent' = [o \in Obj |-> IF ent[o].mem = "linked"
                           THEN [Blank EXCEPT !.mem = "freed"] ELSE ent[o]]
  /\ ids' = [k \in Key |-> None]
  /\ UNCHANGED <<th, file, left>>

(* The daemon is started again. *)
Restart ==
  /\ ~ up
  /\ left.ctl > 0
  /\ up' = TRUE
  /\ UNCHANGED <<ent, ids, stored, th, file, left>>

Step(t) ==
  \/ Find(t) \/ DoublyLock(t) \/ Look(t) \/ FuseOpen(t) \/ ReadWrite(t)
  \/ Release(t) \/ Set(t) \/ Close(t) \/ Resize(t)
  \/ Add(t) \/ InitDevice(t) \/ Check(t)
  \/ Delete(t) \/ FreeDevice(t) \/ Forget(t)

EntriesNext ==
  \/ Receive
  \/ \E t \in Thread : Call(t) \/ Step(t)
  \/ Unmount
  \/ Restart

(* A thread that is serving a command or a call, and can go on, does so. *)
EntriesSpec ==
  EntriesInit /\ [][EntriesNext]_vars /\ \A t \in Thread : WF_vars(Step(t))

----------------------------------------------------------------------------
(* Two devices with the same cipher and key never have the backing file    *)
(* open at once: they would claim each other's macroblocks.                *)
KeyExclusive ==
  \A o, p \in Obj :
    ent[o].dev /\ ent[p].dev /\ ent[o].key = ent[p].key => o = p

(* As long as the kernel has a partition open, its entry stays: it is in   *)
(* the table under that name, in use, not about to be deleted, and it is   *)
(* writable if it was opened for writing (the assertions of                *)
(* fuse_io_release and fuse_io_write hold).                                *)
HandleValid ==
  \A n \in Name : file[n] # "closed" =>
    \E o \in Linked(n) :
      /\ ent[o].inuse = 1
      /\ ~ ent[o].to_be_deleted
      /\ file[n] = "rw" => ~ ent[o].readonly

(* A lock that control_resize has left behind. *)
Leaked == \E o \in Obj : ent[o].lock = Ctl /\ th[Ctl].obj # o

(* An entry that is marked to_be_deleted, and blocks its name meanwhile,   *)
(* is deleted in the end.                                                  *)
MarkedIsDeleted ==
  \A o \in Obj :
    ent[o].mem = "linked" /\ ent[o].to_be_deleted
      ~> ent[o].mem # "linked" \/ Leaked

(* Every command and every call of the kernel comes to its end: nobody     *)
(* waits forever for an entry, unless control_resize has left one locked.  *)
ServiceEnds ==
  \A t \in Thread : th[t].pc # "idle" ~> th[t].pc = "idle" \/ Leaked

(* "We assume that entry still exists": nobody follows the pointer to an   *)
(* entry after another thread has freed it (control_close against          *)
(* fuse_io_release of a partition that is closed on release).              *)
EntryStillExists ==
  \A t \in Thread :
    th[t].pc \in {"check", "delete"} =>
      ent[th[t].obj].mem \in {"linked", "unlinked"}
============================================================================
