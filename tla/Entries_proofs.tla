-------------------------- MODULE Entries_proofs --------------------------
(***************************************************************************)
(* Proofs about Entries: the type invariant, that two devices with one key *)
(* are never open at once, and that the entry of an open file stays.       *)
(*                                                                         *)
(* The three are proved from one inductive invariant, EntriesInv.  It says *)
(* what a thread knows of the entry it works on at every program counter   *)
(* (Knows), that one thread at most frees an entry (OneFreer), and that an *)
(* entry with a device is the one its key is registered for in priv->ids   *)
(* (Registered).                                                           *)
(***************************************************************************)
EXTENDS Entries, TLAPS

Operation == {"none", "open", "create", "close", "look", "set-readonly",
              "set-close-on-release", "resize", "getattr", "open-r",
              "open-rw", "read", "write", "release"}

Argument == Key \cup {None} \cup BOOLEAN \cup {"grow", "garbage"}

Local == [pc : {"idle", "find", "body", "add", "init", "check", "delete",
                "free", "forget"},
          op : Operation, name : Name \cup {None}, arg : Argument,
          obj : Obj \cup {None}]

Entry == [mem : Mem, name : Name \cup {None},
          key : Key \cup {None}, lock : Thread \cup {None},
          inuse : 0..1, readonly : BOOLEAN,
          to_be_deleted : BOOLEAN, close_on_release : BOOLEAN,
          dev : BOOLEAN, grown : BOOLEAN, updated : BOOLEAN]

(* What a thread knows about its request and about its entry. *)
KnowsRequest(l) ==
  /\ l.pc = "idle" => l = Idle
  /\ l.pc \in {"find", "body", "add", "init"} => l.name \in Name
  /\ l.pc \in {"body", "init", "check", "delete", "free", "forget"}
       => l.obj \in Obj
  /\ l.op \in {"set-readonly", "set-close-on-release"} /\ l.pc \in {"find", "body"}
       => l.arg \in BOOLEAN

KnowsEntry(t, l, e) ==
  /\ l.pc \in {"body", "init"} =>
       e.mem = "linked" /\ e.lock = t /\ e.name = l.name
  /\ l.pc = "init" => ~ e.dev /\ e.inuse = 0 /\ ~ e.to_be_deleted
                      /\ ~ e.updated /\ ~ e.grown
  /\ l.pc \in {"check", "delete"} => e.mem # "unused"
  /\ l.pc = "delete" /\ e.mem = "linked" => e.to_be_deleted
  /\ l.pc = "free" => e.mem = "unlinked"
  /\ l.pc = "forget" => e.mem = "freeing"

Knows(t) ==
  /\ KnowsRequest(th[t])
  /\ th[t].obj \in Obj => KnowsEntry(t, th[t], ent[th[t].obj])

(* Opening is done by the control thread only, one partition at a time,    *)
(* and starts only when there is an object for it.                         *)
OnlyCtlOpens ==
  /\ \A t \in Thread : th[t].pc \in {"add", "init", "check"} => t = Ctl
  /\ th[Ctl].pc = "add" => \E o \in Obj : ent[o].mem = "unused"
  /\ \A t \in Fuse : th[t].op \in {"none", "getattr", "open-r", "open-rw",
                                   "read", "write", "release"}

OneFreer ==
  \A t, u \in Thread :
    /\ th[t].pc \in {"free", "forget"} /\ th[u].pc \in {"free", "forget"}
    /\ th[t].obj = th[u].obj
    => t = u

(* An entry that is to be deleted is not in use; the key of a device is    *)
(* registered for it; an entry has its device from the time it is opened   *)
(* until it is freed, and nothing is written to one that has none.         *)
EntryOK(o, e) ==
  /\ e.to_be_deleted => e.inuse = 0
  /\ e.dev => e.key \in Key /\ ids[e.key] = o
  /\ e.dev => e.mem = "linked"
              \/ \E t \in Thread : th[t].pc = "free" /\ th[t].obj = o
  /\ e.mem = "linked" /\ ~ e.dev =>
       /\ ~ e.updated /\ ~ e.grown
       /\ th[Ctl].obj = o
       /\ \/ th[Ctl].pc = "init"
          \/ th[Ctl].pc \in {"check", "delete"} /\ e.to_be_deleted

EntriesInv ==
  /\ EntriesTypeOK
  /\ th \in [Thread -> Local]
  /\ \A t \in Thread : Knows(t)
  /\ OnlyCtlOpens
  /\ OneFreer
  /\ \A o \in Obj : EntryOK(o, ent[o])
  /\ HandleValid

----------------------------------------------------------------------------
(* Facts about the records the actions build. *)

(* An unused and a freed entry, and an idle thread, have their types. *)
LEMMA BlankTypes ==
  /\ Blank \in Entry
  /\ [Blank EXCEPT !.mem = "freed"] \in Entry
  /\ [Blank EXCEPT !.mem = "linked"] \in Entry
  /\ Idle \in Local
  <1>1. Blank \in Entry
    BY DEF Blank, Entry, Mem
  <1>2. [Blank EXCEPT !.mem = "freed"] \in Entry
    BY <1>1 DEF Entry, Mem
  <1>3. [Blank EXCEPT !.mem = "linked"] \in Entry
    BY <1>1 DEF Entry, Mem
  <1>4. Idle \in Local
    BY DEF Idle, Local, Operation, Argument
  <1> QED BY <1>1, <1>2, <1>3, <1>4

(* The fields of the type invariant, for one entry and for one thread. *)
LEMMA InvTypes ==
  ASSUME EntriesInv
  PROVE  /\ ent \in [Obj -> Entry]
         /\ ids \in [Key -> Obj \cup {None}]
         /\ stored \subseteq Key
         /\ th \in [Thread -> Local]
         /\ file \in [Name -> {"closed", "r", "rw"}]
         /\ up \in BOOLEAN
         /\ left \in [ctl : 0..Commands, fuse : 0..Calls]
  BY DEF EntriesInv, EntriesTypeOK, Entry

(* EntriesTypeOK holds after a step when the variables have their types. *)
LEMMA TypesInv ==
  ASSUME ent' \in [Obj -> Entry],
         ids' \in [Key -> Obj \cup {None}],
         stored' \subseteq Key,
         th' \in [Thread -> Local],
         file' \in [Name -> {"closed", "r", "rw"}],
         up' \in BOOLEAN,
         left' \in [ctl : 0..Commands, fuse : 0..Calls]
  PROVE  EntriesTypeOK'
  <1>1. \A t \in Thread : th'[t] \in Local
    OBVIOUS
  <1> QED BY <1>1 DEF EntriesTypeOK, Entry, Local

(* A daemon that serves nothing, with or without partitions that were      *)
(* freed, satisfies the invariant.                                         *)
LEMMA DiedInv ==
  ASSUME EntriesInv, Died
  PROVE  EntriesInv'
  <1> DEFINE gone == [Blank EXCEPT !.mem = "freed"]
  <1>1. gone \in Entry /\ gone.mem = "freed" /\ ~ gone.dev /\ ~ gone.to_be_deleted
    BY BlankTypes DEF Blank
  <1>2. /\ Idle \in Local /\ Idle.pc = "idle" /\ Idle.obj = None
        /\ Idle.op = "none"
    BY BlankTypes DEF Idle
  <1> HIDE DEF gone
  <1>3. /\ ent' = [o \in Obj |-> IF ent[o].mem = "unused" THEN ent[o] ELSE gone]
        /\ ids' = [k \in Key |-> None]
        /\ th' = [t \in Thread |-> Idle]
        /\ file' = [n \in Name |-> "closed"]
        /\ up' = FALSE /\ stored' = stored /\ left' = left
    BY DEF Died, gone
  <1>4. EntriesTypeOK' /\ th' \in [Thread -> Local]
    <2>1. ent' \in [Obj -> Entry]
      BY <1>1, <1>3, InvTypes
    <2> QED BY <2>1, <1>2, <1>3, InvTypes, TypesInv
  <1>5. \A t \in Thread : Knows(t)'
    BY <1>2, <1>3, EntriesAssumption DEF Knows, KnowsRequest
  <1>6. OnlyCtlOpens' /\ OneFreer'
    BY <1>2, <1>3 DEF OnlyCtlOpens, OneFreer, Thread
  <1>7. \A o \in Obj : EntryOK(o, ent[o])'
    <2> SUFFICES ASSUME NEW o \in Obj PROVE EntryOK(o, ent[o])'
      OBVIOUS
    <2>1. CASE ent[o].mem = "unused"
      <3>1. EntryOK(o, ent[o])
        BY DEF EntriesInv
      <3>2. ent'[o] = ent[o] /\ ent[o].mem # "linked"
        BY <2>1, <1>3
      <3>3. ~ ent[o].dev
        <4>1. SUFFICES ASSUME ent[o].dev PROVE FALSE
          OBVIOUS
        <4>2. PICK t \in Thread : th[t].pc = "free" /\ th[t].obj = o
          BY <3>1, <3>2, <4>1 DEF EntryOK
        <4>3. ent[o].mem = "unlinked"
          BY <4>2 DEF EntriesInv, Knows, KnowsEntry
        <4> QED BY <4>3, <2>1
      <3> QED BY <3>1, <3>2, <3>3 DEF EntryOK
    <2>2. CASE ent[o].mem # "unused"
      BY <1>1, <1>3, <2>2 DEF EntryOK
    <2> QED BY <2>1, <2>2
  <1>8. HandleValid'
    BY <1>3 DEF HandleValid
  <1> QED BY <1>4, <1>5, <1>6, <1>7, <1>8 DEF EntriesInv

(* The partitions of Opened. *)
LEMMA InitInv == EntriesInit => EntriesInv
  <1> SUFFICES ASSUME EntriesInit PROVE EntriesInv
    OBVIOUS
  <1> DEFINE was(o) == [Blank EXCEPT !.mem = "linked",
                          !.name = Opened[o][1], !.key = Opened[o][2],
                          !.dev = TRUE, !.grown = TRUE]
  <1>1. \A o \in DOMAIN Opened :
          /\ o \in Obj /\ Opened[o][1] \in Name /\ Opened[o][2] \in Key
          /\ was(o) \in Entry
          /\ was(o).mem = "linked" /\ was(o).dev
          /\ was(o).key = Opened[o][2] /\ ~ was(o).to_be_deleted
    <2> SUFFICES ASSUME NEW o \in DOMAIN Opened
                 PROVE /\ o \in Obj /\ Opened[o][1] \in Name
                       /\ Opened[o][2] \in Key /\ was(o) \in Entry
                       /\ was(o).mem = "linked" /\ was(o).dev
                       /\ was(o).key = Opened[o][2] /\ ~ was(o).to_be_deleted
      OBVIOUS
    <2>1. o \in Obj /\ Opened[o][1] \in Name /\ Opened[o][2] \in Key
      BY EntriesAssumption
    <2>2. was(o) \in Entry
      BY <2>1, BlankTypes DEF Entry, Mem
    <2>3. /\ was(o).mem = "linked" /\ was(o).dev
          /\ was(o).key = Opened[o][2] /\ ~ was(o).to_be_deleted
      BY <2>1 DEF Blank
    <2> QED BY <2>1, <2>2, <2>3
  <1>2. /\ Blank \in Entry /\ Blank.mem = "unused" /\ ~ Blank.dev
        /\ ~ Blank.to_be_deleted
    BY BlankTypes DEF Blank
  <1>3. /\ Idle \in Local /\ Idle.pc = "idle" /\ Idle.obj = None
        /\ Idle.op = "none"
    BY BlankTypes DEF Idle
  <1> HIDE DEF was
  <1>4. /\ ent = [o \in Obj |-> IF o \notin DOMAIN Opened THEN Blank ELSE was(o)]
        /\ ids = [k \in Key |-> IF \E o \in DOMAIN Opened : Opened[o][2] = k
                          THEN CHOOSE o \in DOMAIN Opened : Opened[o][2] = k
                          ELSE None]
        /\ stored = {Opened[o][2] : o \in DOMAIN Opened}
        /\ th = [t \in Thread |-> Idle]
        /\ file = [n \in Name |-> "closed"]
        /\ up = TRUE
        /\ left = [ctl |-> Commands, fuse |-> Calls]
    BY DEF EntriesInit, was
  <1>5. \A o \in DOMAIN Opened : ids[Opened[o][2]] = o
    <2> SUFFICES ASSUME NEW o \in DOMAIN Opened PROVE ids[Opened[o][2]] = o
      OBVIOUS
    <2> DEFINE k == Opened[o][2]
               c == CHOOSE p \in DOMAIN Opened : Opened[p][2] = k
    <2>1. c \in DOMAIN Opened /\ Opened[c][2] = k
      OBVIOUS
    <2>2. c = o
      BY <2>1, EntriesAssumption
    <2>3. ids[k] = c
      BY <1>1, <1>4
    <2> QED BY <2>2, <2>3
  <1>6. EntriesTypeOK /\ th \in [Thread -> Local]
    <2>1. ent \in [Obj -> Entry]
      BY <1>1, <1>2, <1>4
    <2>2. ids \in [Key -> Obj \cup {None}]
      BY <1>1, <1>4
    <2>3. left \in [ctl : 0..Commands, fuse : 0..Calls]
      BY <1>4, EntriesAssumption
    <2>4. th \in [Thread -> Local] /\ file \in [Name -> {"closed", "r", "rw"}]
          /\ stored \subseteq Key /\ up \in BOOLEAN
      BY <1>1, <1>3, <1>4
    <2>5. \A t \in Thread : th[t] \in Local
      BY <2>4
    <2> QED BY <2>1, <2>2, <2>3, <2>4, <2>5 DEF EntriesTypeOK, Entry, Local
  <1>7. \A t \in Thread : Knows(t)
    BY <1>3, <1>4, EntriesAssumption DEF Knows, KnowsRequest
  <1>8. OnlyCtlOpens /\ OneFreer
    BY <1>3, <1>4 DEF OnlyCtlOpens, OneFreer, Thread
  <1>9. \A o \in Obj : EntryOK(o, ent[o])
    BY <1>1, <1>2, <1>4, <1>5 DEF EntryOK
  <1>10. HandleValid
    BY <1>4 DEF HandleValid
  <1> QED BY <1>6, <1>7, <1>8, <1>9, <1>10 DEF EntriesInv

----------------------------------------------------------------------------
(* Steps that change one thread, and one entry or none. *)

(* What the other threads know of an entry remains true with e in it. *)
OthersKnow(t, o, e) ==
  \A u \in Thread \ {t} : th[u].obj = o => KnowsEntry(u, th[u], e)

(* What the other threads know survives when one thread changes its entry  *)
(* in a way that they cannot notice.                                       *)
LEMMA KnowsStep ==
  ASSUME EntriesInv, NEW t \in Thread, NEW l \in Local,
         NEW o \in Obj, NEW e \in Entry,
         th' = [th EXCEPT ![t] = l],
         ent' = [ent EXCEPT ![o] = e],
         KnowsRequest(l),
         l.obj \in Obj => l.obj = o /\ KnowsEntry(t, l, e),
         OthersKnow(t, o, e)
  PROVE  /\ th' \in [Thread -> Local]
         /\ ent' \in [Obj -> Entry]
         /\ \A u \in Thread : Knows(u)'
  <1>1. /\ th' \in [Thread -> Local] /\ th'[t] = l
        /\ \A u \in Thread \ {t} : th'[u] = th[u]
    BY InvTypes
  <1>2. /\ ent' \in [Obj -> Entry] /\ ent'[o] = e
        /\ \A p \in Obj \ {o} : ent'[p] = ent[p]
    BY InvTypes
  <1>3. Knows(t)'
    BY <1>1, <1>2 DEF Knows
  <1>4. ASSUME NEW u \in Thread \ {t} PROVE Knows(u)'
    <2>1. Knows(u)
      BY DEF EntriesInv
    <2> QED BY <1>1, <1>2, <2>1 DEF Knows, OthersKnow
  <1> QED BY <1>1, <1>2, <1>3, <1>4

(* A thread that has an entry locked stores e in it, which differs from    *)
(* the old contents in the flags and counts only, and unlocks it.  It is   *)
(* done, or goes on to delete the entry, which is then marked.             *)
LEMMA UnlockStep ==
  ASSUME EntriesInv, NEW t \in Thread, th[t].pc = "body",
         NEW e \in Entry, NEW l \in Local,
         e.mem = "linked", e.lock = None,
         e.name = ent[th[t].obj].name, e.key = ent[th[t].obj].key,
         e.dev = ent[th[t].obj].dev,
         ent[th[t].obj].to_be_deleted => e.to_be_deleted,
         e.to_be_deleted => e.inuse = 0,
         ~ e.dev /\ t # Ctl => ~ e.updated /\ ~ e.grown,
         \/ l = Idle
         \/ /\ l.pc = "delete" /\ e.to_be_deleted /\ l.obj = th[t].obj
            /\ l.op = th[t].op,
         th' = [th EXCEPT ![t] = l],
         ent' = [ent EXCEPT ![th[t].obj] = e],
         ids' = ids
  PROVE  /\ th' \in [Thread -> Local]
         /\ ent' \in [Obj -> Entry]
         /\ \A u \in Thread : Knows(u)'
         /\ OnlyCtlOpens' /\ OneFreer'
         /\ \A p \in Obj : EntryOK(p, ent[p])'
  <1>0. PICK o \in Obj : o = th[t].obj
    BY DEF EntriesInv, Knows, KnowsRequest
  <1>1. /\ o \in Obj /\ ent[o].mem = "linked" /\ ent[o].lock = t
        /\ ent[o] \in Entry
    BY <1>0, InvTypes DEF EntriesInv, Knows, KnowsEntry
  <1>2. Idle.pc = "idle" /\ Idle.obj = None /\ Idle.op = "none"
    BY DEF Idle
  <1>3. ASSUME NEW u \in Thread \ {t}, th[u].obj = o
        PROVE  KnowsEntry(u, th[u], e)
    <2>1. KnowsEntry(u, th[u], ent[o])
      BY <1>1, <1>3 DEF EntriesInv, Knows
    <2> QED BY <1>0, <1>1, <2>1 DEF KnowsEntry
  <1>4. KnowsRequest(l)
    BY <1>0, <1>1, <1>2 DEF KnowsRequest
  <1>5. l.obj \in Obj => l.obj = o /\ KnowsEntry(t, l, e)
    <2>1. l = Idle => l.obj \notin Obj
      BY <1>2, EntriesAssumption
    <2>2. l.pc = "delete" /\ e.to_be_deleted => KnowsEntry(t, l, e)
      BY DEF KnowsEntry
    <2> QED BY <2>1, <2>2, <1>0
  <1>6. ent' = [ent EXCEPT ![o] = e]
    BY <1>0
  <1>7. /\ th' \in [Thread -> Local] /\ ent' \in [Obj -> Entry]
        /\ \A u \in Thread : Knows(u)'
    <2>1. OthersKnow(t, o, e)
      BY <1>3 DEF OthersKnow
    <2>2. o \in Obj
      BY <1>1
    <2> QED BY <1>4, <1>5, <1>6, <2>1, <2>2, KnowsStep
  <1>8. /\ th'[t] = l /\ \A u \in Thread \ {t} : th'[u] = th[u]
        /\ ent'[o] = e /\ \A p \in Obj \ {o} : ent'[p] = ent[p]
    BY <1>1, <1>6, InvTypes
  <1>9. OnlyCtlOpens'
    <2>1. OnlyCtlOpens
      BY DEF EntriesInv
    <2>2. Ctl \in Thread
      BY DEF Thread
    <2>3. \A u \in Thread : th'[u].pc \in {"add", "init", "check"} => u = Ctl
      BY <1>2, <1>8, <2>1 DEF OnlyCtlOpens
    <2>4. th'[Ctl].pc = "add" => \E p \in Obj : ent'[p].mem = "unused"
      BY <1>1, <1>2, <1>8, <2>1, <2>2 DEF OnlyCtlOpens
    <2>5. \A u \in Fuse : th'[u].op \in {"none", "getattr", "open-r",
                                 "open-rw", "read", "write", "release"}
      BY <1>2, <1>8, <2>1 DEF OnlyCtlOpens, Thread
    <2> QED BY <2>3, <2>4, <2>5 DEF OnlyCtlOpens
  <1>10. OneFreer'
    BY <1>2, <1>8 DEF EntriesInv, OneFreer
  <1>11. ASSUME NEW p \in Obj PROVE EntryOK(p, ent[p])'
    <2>1. EntryOK(p, ent[p])
      BY DEF EntriesInv
    <2>2. CASE p = o
      <3>1. ent'[p] = e /\ e.mem = "linked"
        BY <1>8, <2>2
      <3>2. e.dev => e.key \in Key /\ ids'[e.key] = p
        BY <2>1, <2>2, <1>0 DEF EntryOK
      <3>3. ASSUME ~ e.dev
            PROVE  /\ ~ e.updated /\ ~ e.grown
                   /\ th'[Ctl].obj = p
                   /\ \/ th'[Ctl].pc = "init"
                      \/ th'[Ctl].pc \in {"check", "delete"} /\ e.to_be_deleted
        <4>1. /\ th[Ctl].obj = p
              /\ \/ th[Ctl].pc = "init"
                 \/ th[Ctl].pc \in {"check", "delete"} /\ ent[p].to_be_deleted
          BY <1>1, <2>1, <2>2, <3>3, <1>0 DEF EntryOK
        <4>2. t # Ctl /\ th'[Ctl] = th[Ctl]
          BY <4>1, <1>8 DEF Thread
        <4> QED BY <3>3, <4>1, <4>2, <2>2, <1>0
      <3> QED BY <3>1, <3>2, <3>3 DEF EntryOK
    <2>3. CASE p # o
      <3>1. ent'[p] = ent[p]
        BY <1>8, <2>3
      <3>2. \A u \in Thread : th[u].obj = p => u # t
        BY <2>3, <1>0
      <3>3. \A u \in Thread : th[u].obj = p => th'[u] = th[u]
        BY <3>2, <1>8
      <3>4. Ctl \in Thread
        BY DEF Thread
      <3> QED BY <2>1, <3>1, <3>3, <3>4 DEF EntryOK
    <2> QED BY <2>2, <2>3
  <1> QED BY <1>7, <1>9, <1>10, <1>11

(* The same for HandleValid: no open file loses its entry. *)
LEMMA HandleStep ==
  ASSUME EntriesInv, NEW o \in Obj, NEW e \in Entry,
         ent' = [ent EXCEPT ![o] = e],
         \/ ent[o].mem # "linked"
         \/ ent[o].inuse = 0
         \/ /\ e.mem = "linked" /\ e.name = ent[o].name /\ e.inuse = ent[o].inuse
            /\ e.to_be_deleted = ent[o].to_be_deleted
            /\ e.readonly = ent[o].readonly,
         file' = file
  PROVE  HandleValid'
  <1>1. ent'[o] = e /\ \A p \in Obj \ {o} : ent'[p] = ent[p]
    BY InvTypes
  <1> SUFFICES ASSUME NEW n \in Name, file'[n] # "closed"
               PROVE  \E p \in Linked(n)' :
                        /\ ent'[p].inuse = 1 /\ ~ ent'[p].to_be_deleted
                        /\ file'[n] = "rw" => ~ ent'[p].readonly
    BY DEF HandleValid
  <1>2. PICK p \in Linked(n) : /\ ent[p].inuse = 1 /\ ~ ent[p].to_be_deleted
                               /\ file[n] = "rw" => ~ ent[p].readonly
    BY DEF EntriesInv, HandleValid
  <1>3. p \in Obj /\ ent[p].mem = "linked" /\ ent[p].name = n
    BY DEF Linked
  <1>4. p \in Linked(n)'
    BY <1>1, <1>2, <1>3 DEF Linked
  <1> QED BY <1>1, <1>2, <1>3, <1>4

(* Two contents of an entry that EntryOK does not tell apart. *)
SameFor(e, f) ==
  /\ f.mem = e.mem /\ f.inuse = e.inuse /\ f.to_be_deleted = e.to_be_deleted
  /\ f.dev = e.dev /\ f.key = e.key /\ f.grown = e.grown
  /\ f.updated = e.updated

(* An entry that the moving thread does not work on stays as it should. *)
LEMMA EntryStays ==
  ASSUME EntriesInv, NEW t \in Thread, NEW l \in Local,
         th' = [th EXCEPT ![t] = l],
         NEW p \in Obj, SameFor(ent[p], ent'[p]),
         th[t].obj # p \/ th[t].pc \notin {"init", "check", "delete", "free"},
         ent[p].dev => ids'[ent[p].key] = p
  PROVE  EntryOK(p, ent[p])'
  <1>1. EntryOK(p, ent[p])
    BY DEF EntriesInv
  <1>2. \A u \in Thread : u # t => th'[u] = th[u]
    BY InvTypes
  <1>3. Ctl \in Thread
    BY DEF Thread
  <1>4. ent[p].dev /\ ent[p].mem # "linked"
          => \E u \in Thread : th'[u].pc = "free" /\ th'[u].obj = p
    BY <1>1, <1>2 DEF EntryOK
  <1>5. ent[p].mem = "linked" /\ ~ ent[p].dev => th'[Ctl] = th[Ctl]
    BY <1>1, <1>2, <1>3 DEF EntryOK
  <1> QED BY <1>1, <1>4, <1>5 DEF EntryOK, SameFor

(* A thread moves and no entry changes. *)
LEMMA ThreadStep ==
  ASSUME EntriesInv, NEW t \in Thread, NEW l \in Local,
         th' = [th EXCEPT ![t] = l], ent' = ent, ids' = ids,
         KnowsRequest(l),
         l.obj \in Obj => l.obj = th[t].obj /\ KnowsEntry(t, l, ent[l.obj]),
         l.pc \in {"idle", "find", "add", "delete"},
         l.pc = "add" => t = Ctl /\ \E o \in Obj : ent[o].mem = "unused",
         t \in Fuse => l.op \in {"none", "getattr", "open-r", "open-rw",
                                 "read", "write", "release"},
         th[t].pc # "free",
         th[t].pc \in {"init", "check", "delete"}
         /\ ent[th[t].obj].mem = "linked" /\ ~ ent[th[t].obj].dev
           => /\ l.pc = "delete" /\ l.obj = th[t].obj
              /\ ent[th[t].obj].to_be_deleted
  PROVE  /\ th' \in [Thread -> Local]
         /\ ent' \in [Obj -> Entry]
         /\ \A u \in Thread : Knows(u)'
         /\ OnlyCtlOpens' /\ OneFreer'
         /\ \A p \in Obj : EntryOK(p, ent[p])'
  <1>1. /\ th' \in [Thread -> Local] /\ th'[t] = l
        /\ \A u \in Thread \ {t} : th'[u] = th[u]
        /\ ent' \in [Obj -> Entry] /\ Ctl \in Thread
    BY InvTypes DEF Thread
  <1>2. ASSUME NEW u \in Thread PROVE Knows(u)'
    <2>1. CASE u = t
      BY <1>1, <2>1 DEF Knows
    <2>2. CASE u # t
      <3>1. Knows(u)
        BY DEF EntriesInv
      <3> QED BY <1>1, <2>2, <3>1 DEF Knows
    <2> QED BY <2>1, <2>2
  <1>3. OnlyCtlOpens'
    <2>1. OnlyCtlOpens
      BY DEF EntriesInv
    <2>2. \A u \in Thread : th'[u].pc \in {"add", "init", "check"} => u = Ctl
      BY <1>1, <2>1 DEF OnlyCtlOpens
    <2>3. th'[Ctl].pc = "add" => \E p \in Obj : ent'[p].mem = "unused"
      BY <1>1, <2>1 DEF OnlyCtlOpens
    <2>4. \A u \in Fuse : th'[u].op \in {"none", "getattr", "open-r",
                                 "open-rw", "read", "write", "release"}
      BY <1>1, <2>1 DEF OnlyCtlOpens, Thread
    <2> QED BY <2>2, <2>3, <2>4 DEF OnlyCtlOpens
  <1>4. OneFreer'
    BY <1>1 DEF EntriesInv, OneFreer
  <1>5. ASSUME NEW p \in Obj PROVE EntryOK(p, ent[p])'
    <2>1. EntryOK(p, ent[p])
      BY DEF EntriesInv
    <2>2. CASE th[t].obj # p \/ th[t].pc \notin {"init", "check", "delete", "free"}
      <3>1. SameFor(ent[p], ent'[p]) /\ (ent[p].dev => ids'[ent[p].key] = p)
        BY <2>1 DEF EntryOK, SameFor
      <3> QED BY <2>2, <3>1, EntryStays
    <2>3. CASE th[t].obj = p /\ th[t].pc \in {"init", "check", "delete"}
      <3>1. ent[p].dev /\ ent[p].mem # "linked"
              => \E u \in Thread : th'[u].pc = "free" /\ th'[u].obj = p
        BY <1>1, <2>1, <2>3 DEF EntryOK
      <3>2. ASSUME ent[p].mem = "linked", ~ ent[p].dev
            PROVE  /\ th'[Ctl].obj = p /\ ~ ent[p].updated /\ ~ ent[p].grown
                   /\ \/ th'[Ctl].pc = "init"
                      \/ /\ th'[Ctl].pc \in {"check", "delete"}
                         /\ ent[p].to_be_deleted
        <4>1. CASE t = Ctl
          BY <1>1, <2>1, <2>3, <3>2, <4>1 DEF EntryOK
        <4>2. CASE t # Ctl
          BY <1>1, <2>1, <3>2, <4>2 DEF EntryOK
        <4> QED BY <4>1, <4>2
      <3> QED BY <2>1, <3>1, <3>2 DEF EntryOK
    <2> QED BY <2>2, <2>3
  <1> QED BY <1>1, <1>2, <1>3, <1>4, <1>5

(* The conjuncts of the invariant put together. *)
LEMMA AllTogether ==
  ASSUME th' \in [Thread -> Local],
         ent' \in [Obj -> Entry],
         \A u \in Thread : Knows(u)',
         OnlyCtlOpens', OneFreer',
         \A p \in Obj : EntryOK(p, ent[p])',
         ids' \in [Key -> Obj \cup {None}],
         stored' \subseteq Key,
         file' \in [Name -> {"closed", "r", "rw"}],
         up' \in BOOLEAN,
         left' \in [ctl : 0..Commands, fuse : 0..Calls],
         HandleValid'
  PROVE  EntriesInv'
  BY TypesInv DEF EntriesInv

(* Nothing happens to the entry of an open file when entries and files     *)
(* stay as they are.                                                       *)
LEMMA HandleStays ==
  ASSUME EntriesInv, ent' = ent, file' = file
  PROVE  HandleValid'
  BY DEF EntriesInv, HandleValid, Linked

----------------------------------------------------------------------------
(* One lemma for each action, or for the actions that are alike. *)

(* A thread in its body works on a linked entry that it has locked. *)
LEMMA BodyEntry ==
  ASSUME EntriesInv, NEW t \in Thread, th[t].pc = "body"
  PROVE  /\ th[t].obj \in Obj /\ ent[th[t].obj] \in Entry
         /\ ent[th[t].obj].mem = "linked" /\ ent[th[t].obj].lock = t
         /\ ent[th[t].obj].name = th[t].name /\ th[t].name \in Name
         /\ ent[th[t].obj].to_be_deleted => ent[th[t].obj].inuse = 0
         /\ ~ ent[th[t].obj].dev => t # Ctl /\ ~ ent[th[t].obj].updated
                                            /\ ~ ent[th[t].obj].grown
  <1>1. th[t].obj \in Obj /\ th[t].name \in Name
    BY DEF EntriesInv, Knows, KnowsRequest
  <1>2. /\ ent[th[t].obj].mem = "linked" /\ ent[th[t].obj].lock = t
        /\ ent[th[t].obj].name = th[t].name
    BY <1>1 DEF EntriesInv, Knows, KnowsEntry
  <1>3. EntryOK(th[t].obj, ent[th[t].obj])
    BY <1>1 DEF EntriesInv
  <1> QED BY <1>1, <1>2, <1>3, InvTypes DEF EntryOK

(* What a thread becomes that goes on to delete its entry. *)
LEMMA DeleterType ==
  ASSUME NEW l \in Local
  PROVE  LET d == [Idle EXCEPT !.pc = "delete", !.op = l.op,
                               !.name = l.name, !.obj = l.obj]
         IN  /\ d \in Local /\ d.pc = "delete" /\ d.op = l.op
             /\ d.obj = l.obj
  <1> DEFINE d == [Idle EXCEPT !.pc = "delete", !.op = l.op,
                               !.name = l.name, !.obj = l.obj]
  <1>1. d \in Local
    BY BlankTypes DEF Local
  <1>2. d.pc = "delete" /\ d.op = l.op /\ d.obj = l.obj
    BY DEF Idle
  <1> QED BY <1>1, <1>2

(* An entry that is stored with its lock released. *)
LEMMA Unlocked ==
  ASSUME NEW e \in Entry
  PROVE  LET u == [e EXCEPT !.lock = None]
         IN  /\ u \in Entry /\ u.lock = None
             /\ u.mem = e.mem /\ u.name = e.name /\ u.key = e.key
             /\ u.inuse = e.inuse /\ u.readonly = e.readonly
             /\ u.to_be_deleted = e.to_be_deleted /\ u.dev = e.dev
             /\ u.grown = e.grown /\ u.updated = e.updated
  BY DEF Entry

(* Unlock and UnlockAndDelete, of an entry e made from the old one. *)
LEMMA StoreStep ==
  ASSUME EntriesInv, NEW t \in Thread, th[t].pc = "body",
         NEW e \in Entry,
         e.mem = "linked",
         e.name = ent[th[t].obj].name, e.key = ent[th[t].obj].key,
         e.dev = ent[th[t].obj].dev,
         ent[th[t].obj].to_be_deleted => e.to_be_deleted,
         e.to_be_deleted => e.inuse = 0,
         ~ e.dev => ~ e.updated /\ ~ e.grown,
         \/ Unlock(t, e)
         \/ e.to_be_deleted /\ UnlockAndDelete(t, e),
         ids' = ids
  PROVE  /\ th' \in [Thread -> Local]
         /\ ent' \in [Obj -> Entry]
         /\ \A u \in Thread : Knows(u)'
         /\ OnlyCtlOpens' /\ OneFreer'
         /\ \A p \in Obj : EntryOK(p, ent[p])'
  <1>1. PICK u \in Entry : u = [e EXCEPT !.lock = None]
    BY Unlocked
  <1>2. /\ u.lock = None
        /\ u.mem = e.mem /\ u.name = e.name /\ u.key = e.key
        /\ u.inuse = e.inuse /\ u.to_be_deleted = e.to_be_deleted
        /\ u.dev = e.dev /\ u.grown = e.grown /\ u.updated = e.updated
    BY <1>1, Unlocked
  <1>3. ent' = [ent EXCEPT ![th[t].obj] = u]
    BY <1>1 DEF Unlock, UnlockAndDelete
  <1>4. CASE Unlock(t, e)
    <2>1. th' = [th EXCEPT ![t] = Idle]
      BY <1>4 DEF Unlock, Become
    <2>2. Idle \in Local
      BY BlankTypes
    <2> QED BY <1>2, <1>3, <2>1, <2>2, UnlockStep
  <1>5. CASE e.to_be_deleted /\ UnlockAndDelete(t, e)
    <2> DEFINE d == [Idle EXCEPT !.pc = "delete", !.op = th[t].op,
                                 !.name = th[t].name, !.obj = th[t].obj]
    <2>1. th' = [th EXCEPT ![t] = d]
      BY <1>5 DEF UnlockAndDelete, Become
    <2>2. th[t] \in Local
      BY InvTypes
    <2>3. d \in Local /\ d.pc = "delete" /\ d.op = th[t].op /\ d.obj = th[t].obj
      BY <2>2, DeleterType
    <2>4. PICK l \in Local : l = d
      BY <2>3
    <2> HIDE DEF d
    <2>5. /\ l.pc = "delete" /\ u.to_be_deleted /\ l.obj = th[t].obj
          /\ l.op = th[t].op /\ th' = [th EXCEPT ![t] = l]
      BY <1>2, <1>5, <2>1, <2>3, <2>4
    <2> QED BY <1>2, <1>3, <2>5, UnlockStep
  <1> QED BY <1>4, <1>5

(* The part of HandleValid for the same steps. *)
LEMMA StoreHandle ==
  ASSUME EntriesInv, NEW t \in Thread, th[t].pc = "body",
         NEW e \in Entry,
         e.mem = "linked",
         e.name = ent[th[t].obj].name,
         \/ ent[th[t].obj].inuse = 0
         \/ /\ e.inuse = ent[th[t].obj].inuse
            /\ e.to_be_deleted = ent[th[t].obj].to_be_deleted
            /\ e.readonly = ent[th[t].obj].readonly,
         Unlock(t, e) \/ UnlockAndDelete(t, e),
         file' = file
  PROVE  HandleValid'
  <1>1. PICK u \in Entry : u = [e EXCEPT !.lock = None]
    BY Unlocked
  <1>2. /\ u.mem = e.mem /\ u.name = e.name /\ u.inuse = e.inuse
        /\ u.to_be_deleted = e.to_be_deleted /\ u.readonly = e.readonly
    BY <1>1, Unlocked
  <1>3. PICK o \in Obj : o = th[t].obj
    BY BodyEntry
  <1>4. ent' = [ent EXCEPT ![o] = u]
    BY <1>1, <1>3 DEF Unlock, UnlockAndDelete
  <1> QED BY <1>2, <1>3, <1>4, HandleStep

(* An entry that is stored unchanged but for its lock. *)
LEMMA StoreSame ==
  ASSUME EntriesInv, NEW t \in Thread, th[t].pc = "body",
         Unlock(t, ent[th[t].obj]),
         UNCHANGED <<ids, stored, file, up, left>>
  PROVE  EntriesInv'
  <1>1. PICK e \in Entry : e = ent[th[t].obj]
    BY BodyEntry
  <1>2. /\ e.mem = "linked"
        /\ e.to_be_deleted => e.inuse = 0
        /\ ~ e.dev => ~ e.updated /\ ~ e.grown
    BY <1>1, BodyEntry
  <1>3. Unlock(t, e)
    BY <1>1
  <1>4. HandleValid'
    BY <1>1, <1>2, <1>3, StoreHandle
  <1>5. /\ th' \in [Thread -> Local] /\ ent' \in [Obj -> Entry]
        /\ \A u \in Thread : Knows(u)'
        /\ OnlyCtlOpens' /\ OneFreer'
        /\ \A p \in Obj : EntryOK(p, ent[p])'
    BY <1>1, <1>2, <1>3, StoreStep
  <1> QED BY <1>4, <1>5, InvTypes, AllTogether

(* fuse_io_open *)
LEMMA FuseOpenInv ==
  ASSUME EntriesInv, NEW t \in Thread, FuseOpen(t)
  PROVE  EntriesInv'
  <1>1. th[t].pc = "body" /\ UNCHANGED <<ids, stored, up, left>>
    BY DEF FuseOpen, OpenUnless, In
  <1>2. PICK e \in Entry : e = ent[th[t].obj]
    BY <1>1, BodyEntry
  <1>3. PICK n \in Name : n = th[t].name /\ e.name = n
    BY <1>1, <1>2, BodyEntry
  <1>4. CASE e.inuse > 0 \/ e.to_be_deleted \/ Denied(t, e)
    <2>1. Unlock(t, e) /\ UNCHANGED file
      BY <1>2, <1>4 DEF FuseOpen, OpenUnless
    <2> QED BY <1>1, <1>2, <2>1, StoreSame
  <1>5. CASE ~ (e.inuse > 0 \/ e.to_be_deleted \/ Denied(t, e))
    <2>1. e.inuse = 0 /\ ~ e.to_be_deleted
      BY <1>5 DEF Entry
    <2>2. PICK f \in Entry : f = [e EXCEPT !.inuse = @ + 1]
      <3>1. e.inuse + 1 \in 0..1
        BY <2>1
      <3>2. [e EXCEPT !.inuse = e.inuse + 1] \in Entry
        BY <3>1 DEF Entry
      <3> QED BY <3>2
    <2>3. /\ f.inuse = 1 /\ f.mem = e.mem /\ f.name = e.name /\ f.key = e.key
          /\ f.to_be_deleted = e.to_be_deleted /\ f.readonly = e.readonly
          /\ f.dev = e.dev /\ f.grown = e.grown /\ f.updated = e.updated
      BY <2>1, <2>2 DEF Entry
    <2>4. PICK m \in {"r", "rw"} :
            /\ m = (IF th[t].op = "open-r" THEN "r" ELSE "rw")
            /\ file' = [file EXCEPT ![n] = m]
      BY <1>2, <1>3, <1>5 DEF FuseOpen, OpenUnless
    <2>5. Unlock(t, f)
      BY <1>2, <1>5, <2>2 DEF FuseOpen, OpenUnless
    <2>6. /\ e.mem = "linked"
          /\ ~ e.dev => ~ e.updated /\ ~ e.grown
      BY <1>1, <1>2, BodyEntry
    <2>7. /\ th' \in [Thread -> Local] /\ ent' \in [Obj -> Entry]
          /\ \A u \in Thread : Knows(u)'
          /\ OnlyCtlOpens' /\ OneFreer'
          /\ \A p \in Obj : EntryOK(p, ent[p])'
      <3>1. ~ f.to_be_deleted /\ ~ ent[th[t].obj].to_be_deleted
        BY <1>2, <2>1, <2>3
      <3>2. f.name = ent[th[t].obj].name /\ f.key = ent[th[t].obj].key
            /\ f.dev = ent[th[t].obj].dev /\ f.mem = "linked"
            /\ (~ f.dev => ~ f.updated /\ ~ f.grown)
        BY <1>2, <2>3, <2>6
      <3> QED BY <1>1, <2>5, <3>1, <3>2, StoreStep
    <2>8. HandleValid'
      <3>1. PICK o \in Obj : o = th[t].obj
        BY <1>1, BodyEntry
      <3>2. PICK g \in Entry : g = [f EXCEPT !.lock = None]
        BY Unlocked
      <3>3. /\ g.mem = "linked" /\ g.name = n /\ g.inuse = 1
            /\ ~ g.to_be_deleted /\ g.readonly = e.readonly
        BY <1>3, <2>1, <2>3, <2>6, <3>2, Unlocked
      <3>4. ent'[o] = g /\ \A p \in Obj \ {o} : ent'[p] = ent[p]
        BY <2>5, <3>1, <3>2, InvTypes DEF Unlock
      <3>5. file'[n] = m /\ \A x \in Name \ {n} : file'[x] = file[x]
        BY <2>4, InvTypes
      <3>6. m = "rw" => ~ e.readonly
        <4>1. In(t, {"open-r", "open-rw"})
          BY DEF FuseOpen, OpenUnless
        <4> QED BY <1>5, <2>4, <4>1 DEF Denied, In
      <3> SUFFICES ASSUME NEW x \in Name, file'[x] # "closed"
                   PROVE  \E p \in Linked(x)' :
                        /\ ent'[p].inuse = 1 /\ ~ ent'[p].to_be_deleted
                        /\ file'[x] = "rw" => ~ ent'[p].readonly
        BY DEF HandleValid
      <3>7. CASE x = n
        <4>1. o \in Linked(x)'
          BY <3>3, <3>4, <3>7 DEF Linked
        <4> QED BY <3>3, <3>4, <3>5, <3>6, <3>7, <4>1
      <3>8. CASE x # n
        <4>1. PICK p \in Linked(x) :
                /\ ent[p].inuse = 1 /\ ~ ent[p].to_be_deleted
                /\ file[x] = "rw" => ~ ent[p].readonly
          BY <3>5, <3>8 DEF EntriesInv, HandleValid
        <4>2. p \in Obj /\ p # o
          BY <1>2, <1>3, <3>1, <3>8 DEF Linked
        <4>3. p \in Linked(x)'
          BY <3>4, <4>2 DEF Linked
        <4> QED BY <3>4, <3>5, <3>8, <4>1, <4>2, <4>3
      <3> QED BY <3>7, <3>8
    <2>9. file' \in [Name -> {"closed", "r", "rw"}]
      BY <2>4, InvTypes
    <2> QED BY <1>1, <2>7, <2>8, <2>9, InvTypes, AllTogether
  <1> QED BY <1>4, <1>5

(* fuse_io_read and fuse_io_write *)
LEMMA ReadWriteInv ==
  ASSUME EntriesInv, NEW t \in Thread, ReadWrite(t)
  PROVE  EntriesInv'
  <1>1. th[t].pc = "body"
    BY DEF ReadWrite, In
  <1>2. PICK e \in Entry : e = ent[th[t].obj]
    BY <1>1, BodyEntry
  <1>3. CASE th[t].op = "write" /\ e.readonly
    BY <1>2, <1>3, DiedInv DEF ReadWrite
  <1>4. CASE ~ (th[t].op = "write" /\ e.readonly)
    <2>1. PICK w \in BOOLEAN : w = (e.updated \/ (e.grown /\ th[t].op = "write"))
      BY DEF Entry
    <2>2. PICK f \in Entry : f = [e EXCEPT !.updated = w]
      BY DEF Entry
    <2>3. /\ f.inuse = e.inuse /\ f.mem = e.mem /\ f.name = e.name
          /\ f.key = e.key /\ f.to_be_deleted = e.to_be_deleted
          /\ f.readonly = e.readonly /\ f.dev = e.dev /\ f.grown = e.grown
          /\ f.updated = w
      BY <2>2 DEF Entry
    <2>4. Unlock(t, f) /\ UNCHANGED <<ids, stored, file, up, left>>
      BY <1>2, <1>4, <2>1, <2>2 DEF ReadWrite
    <2>5. /\ e.mem = "linked"
          /\ e.to_be_deleted => e.inuse = 0
          /\ ~ e.dev => ~ e.updated /\ ~ e.grown
      BY <1>1, <1>2, BodyEntry
    <2>6. /\ f.mem = "linked" /\ f.name = ent[th[t].obj].name
          /\ f.key = ent[th[t].obj].key /\ f.dev = ent[th[t].obj].dev
          /\ ent[th[t].obj].to_be_deleted => f.to_be_deleted
          /\ f.to_be_deleted => f.inuse = 0
          /\ ~ f.dev => ~ f.updated /\ ~ f.grown
      BY <1>2, <2>1, <2>3, <2>5
    <2>7. /\ f.inuse = ent[th[t].obj].inuse
          /\ f.to_be_deleted = ent[th[t].obj].to_be_deleted
          /\ f.readonly = ent[th[t].obj].readonly
      BY <1>2, <2>3
    <2>8. HandleValid'
      BY <1>1, <2>4, <2>6, <2>7, StoreHandle
    <2>9. /\ th' \in [Thread -> Local] /\ ent' \in [Obj -> Entry]
          /\ \A u \in Thread : Knows(u)'
          /\ OnlyCtlOpens' /\ OneFreer'
          /\ \A p \in Obj : EntryOK(p, ent[p])'
      BY <1>1, <2>4, <2>6, StoreStep
    <2> QED BY <2>4, <2>8, <2>9, InvTypes, AllTogether
  <1> QED BY <1>3, <1>4

(* fuse_io_release.  The file is closed first, as the kernel sees it: the  *)
(* entry may lose its last user, and is deleted if it is to be.            *)
LEMMA ReleaseInv ==
  ASSUME EntriesInv, NEW t \in Thread, Release(t)
  PROVE  EntriesInv'
  <1>1. th[t].pc = "body"
    BY DEF Release, In
  <1>2. PICK e \in Entry : e = ent[th[t].obj]
    BY <1>1, BodyEntry
  <1>3. PICK n \in Name : n = th[t].name /\ e.name = n
    BY <1>1, <1>2, BodyEntry
  <1>4. CASE e.inuse = 0
    BY <1>2, <1>4, DiedInv DEF Release
  <1>5. CASE e.inuse # 0
    <2>1. e.inuse = 1 /\ e.inuse - 1 = 0 /\ e.inuse - 1 \in 0..1
      BY <1>5 DEF Entry
    <2>2. PICK r \in Entry : r = [e EXCEPT !.inuse = e.inuse - 1]
      BY <2>1 DEF Entry
    <2>3. /\ r.inuse = 0 /\ r.mem = e.mem /\ r.name = e.name /\ r.key = e.key
          /\ r.to_be_deleted = e.to_be_deleted
          /\ r.dev = e.dev /\ r.grown = e.grown /\ r.updated = e.updated
      BY <2>1, <2>2 DEF Entry
    <2>4. PICK f \in Entry : f = [r EXCEPT !.to_be_deleted = TRUE]
      BY DEF Entry
    <2>5. /\ f.inuse = 0 /\ f.mem = e.mem /\ f.name = e.name /\ f.key = e.key
          /\ f.to_be_deleted
          /\ f.dev = e.dev /\ f.grown = e.grown /\ f.updated = e.updated
      BY <2>3, <2>4 DEF Entry
    <2>6. /\ UnlockAndDelete(t, f) \/ Unlock(t, r)
          /\ file' = [file EXCEPT ![n] = "closed"]
          /\ UNCHANGED <<ids, stored, up, left>>
      BY <1>2, <1>3, <1>5, <2>2, <2>4 DEF Release
    <2>7. /\ e.mem = "linked"
          /\ ~ e.dev => ~ e.updated /\ ~ e.grown
      BY <1>1, <1>2, BodyEntry
    <2>8. /\ th' \in [Thread -> Local] /\ ent' \in [Obj -> Entry]
          /\ \A u \in Thread : Knows(u)'
          /\ OnlyCtlOpens' /\ OneFreer'
          /\ \A p \in Obj : EntryOK(p, ent[p])'
      <3>1. CASE UnlockAndDelete(t, f)
        <4>1. /\ f.name = ent[th[t].obj].name /\ f.key = ent[th[t].obj].key
              /\ f.dev = ent[th[t].obj].dev /\ f.mem = "linked"
              /\ (~ f.dev => ~ f.updated /\ ~ f.grown)
          BY <1>2, <2>5, <2>7
        <4>2. f.to_be_deleted /\ f.inuse = 0
          BY <2>5
        <4> QED BY <1>1, <2>6, <3>1, <4>1, <4>2, StoreStep
      <3>2. CASE Unlock(t, r)
        <4>1. /\ r.name = ent[th[t].obj].name /\ r.key = ent[th[t].obj].key
              /\ r.dev = ent[th[t].obj].dev /\ r.mem = "linked"
              /\ (~ r.dev => ~ r.updated /\ ~ r.grown)
              /\ r.to_be_deleted = ent[th[t].obj].to_be_deleted
          BY <1>2, <2>3, <2>7
        <4> QED BY <1>1, <2>3, <2>6, <3>2, <4>1, StoreStep
      <3> QED BY <2>6, <3>1, <3>2
    <2>9. HandleValid'
      <3>1. PICK o \in Obj : o = th[t].obj
        BY <1>1, BodyEntry
      <3>2. \A p \in Obj \ {o} : ent'[p] = ent[p]
        BY <2>6, <3>1, InvTypes DEF Unlock, UnlockAndDelete
      <3>3. file'[n] = "closed" /\ \A x \in Name \ {n} : file'[x] = file[x]
        BY <2>6, InvTypes
      <3> SUFFICES ASSUME NEW x \in Name, file'[x] # "closed"
                   PROVE  \E p \in Linked(x)' :
                        /\ ent'[p].inuse = 1 /\ ~ ent'[p].to_be_deleted
                        /\ file'[x] = "rw" => ~ ent'[p].readonly
        BY DEF HandleValid
      <3>4. PICK p \in Linked(x) :
              /\ ent[p].inuse = 1 /\ ~ ent[p].to_be_deleted
              /\ file[x] = "rw" => ~ ent[p].readonly
        BY <3>3 DEF EntriesInv, HandleValid
      <3>5. p \in Obj /\ p # o
        BY <1>2, <1>3, <3>1, <3>3 DEF Linked
      <3>6. p \in Linked(x)'
        BY <3>2, <3>5 DEF Linked
      <3> QED BY <3>2, <3>3, <3>4, <3>5, <3>6
    <2>10. file' \in [Name -> {"closed", "r", "rw"}]
      BY <2>6, InvTypes
    <2> QED BY <2>6, <2>8, <2>9, <2>10, InvTypes, AllTogether
  <1> QED BY <1>4, <1>5

(* control_set_readonly and control_set_close_on_release: read-only cannot *)
(* be set while the entry is in use.                                       *)
LEMMA SetInv ==
  ASSUME EntriesInv, NEW t \in Thread, Set(t)
  PROVE  EntriesInv'
  <1>1. /\ th[t].pc = "body" /\ UNCHANGED <<ids, stored, file, up, left>>
        /\ th[t].op \in {"set-readonly", "set-close-on-release"}
    BY DEF Set, In
  <1>2. PICK e \in Entry : e = ent[th[t].obj]
    BY <1>1, BodyEntry
  <1>3. PICK a \in BOOLEAN : a = th[t].arg
    BY <1>1 DEF EntriesInv, Knows, KnowsRequest
  <1>4. PICK f \in Entry :
          /\ Unlock(t, f)
          /\ f.inuse = e.inuse /\ f.mem = e.mem /\ f.name = e.name
          /\ f.key = e.key /\ f.to_be_deleted = e.to_be_deleted
          /\ f.dev = e.dev /\ f.grown = e.grown /\ f.updated = e.updated
          /\ f.readonly = e.readonly \/ e.inuse = 0
    <2>1. CASE th[t].op = "set-close-on-release"
      <3>1. PICK f \in Entry : f = [e EXCEPT !.close_on_release = a]
        BY DEF Entry
      <3>2. Unlock(t, f)
        BY <1>2, <1>3, <2>1, <3>1 DEF Set
      <3>3. /\ f.inuse = e.inuse /\ f.mem = e.mem /\ f.name = e.name
            /\ f.key = e.key /\ f.to_be_deleted = e.to_be_deleted
            /\ f.dev = e.dev /\ f.grown = e.grown /\ f.updated = e.updated
            /\ f.readonly = e.readonly
        BY <3>1 DEF Entry
      <3> QED BY <3>2, <3>3
    <2>2. CASE th[t].op # "set-close-on-release" /\ e.inuse > 0
      <3>1. Unlock(t, e)
        BY <1>2, <2>2 DEF Set
      <3> QED BY <3>1
    <2>3. CASE th[t].op # "set-close-on-release" /\ ~ e.inuse > 0
      <3>1. PICK f \in Entry : f = [e EXCEPT !.readonly = a]
        BY DEF Entry
      <3>2. Unlock(t, f)
        BY <1>2, <1>3, <2>3, <3>1 DEF Set
      <3>3. /\ f.inuse = e.inuse /\ f.mem = e.mem /\ f.name = e.name
            /\ f.key = e.key /\ f.to_be_deleted = e.to_be_deleted
            /\ f.dev = e.dev /\ f.grown = e.grown /\ f.updated = e.updated
        BY <3>1 DEF Entry
      <3>4. e.inuse = 0
        BY <2>3 DEF Entry
      <3> QED BY <3>2, <3>3, <3>4
    <2> QED BY <2>1, <2>2, <2>3
  <1>5. /\ e.mem = "linked"
        /\ e.to_be_deleted => e.inuse = 0
        /\ ~ e.dev => ~ e.updated /\ ~ e.grown
    BY <1>1, <1>2, BodyEntry
  <1>6. /\ f.mem = "linked" /\ f.name = ent[th[t].obj].name
        /\ f.key = ent[th[t].obj].key /\ f.dev = ent[th[t].obj].dev
        /\ f.to_be_deleted = ent[th[t].obj].to_be_deleted
        /\ f.inuse = ent[th[t].obj].inuse
        /\ f.to_be_deleted => f.inuse = 0
        /\ ~ f.dev => ~ f.updated /\ ~ f.grown
        /\ f.readonly = ent[th[t].obj].readonly \/ ent[th[t].obj].inuse = 0
    BY <1>2, <1>4, <1>5
  <1>7. HandleValid'
    BY <1>1, <1>4, <1>6, StoreHandle
  <1>8. /\ th' \in [Thread -> Local] /\ ent' \in [Obj -> Entry]
        /\ \A u \in Thread : Knows(u)'
        /\ OnlyCtlOpens' /\ OneFreer'
        /\ \A p \in Obj : EntryOK(p, ent[p])'
    BY <1>1, <1>4, <1>6, StoreStep
  <1> QED BY <1>1, <1>7, <1>8, InvTypes, AllTogether

(* control_close: only an entry that is not in use is marked. *)
LEMMA CloseInv ==
  ASSUME EntriesInv, NEW t \in Thread, Close(t)
  PROVE  EntriesInv'
  <1>1. /\ th[t].pc = "body" /\ UNCHANGED <<ids, stored, file, up, left>>
    BY DEF Close, In
  <1>2. PICK e \in Entry : e = ent[th[t].obj]
    BY <1>1, BodyEntry
  <1>3. CASE e.inuse > 0
    BY <1>1, <1>2, <1>3, StoreSame DEF Close
  <1>4. CASE ~ e.inuse > 0
    <2>1. e.inuse = 0
      BY <1>4 DEF Entry
    <2>2. PICK f \in Entry : f = [e EXCEPT !.to_be_deleted = TRUE]
      BY DEF Entry
    <2>3. UnlockAndDelete(t, f)
      BY <1>2, <1>4, <2>2 DEF Close
    <2>4. /\ f.inuse = e.inuse /\ f.mem = e.mem /\ f.name = e.name
          /\ f.key = e.key /\ f.to_be_deleted
          /\ f.dev = e.dev /\ f.grown = e.grown /\ f.updated = e.updated
      BY <2>2 DEF Entry
    <2>5. /\ e.mem = "linked"
          /\ ~ e.dev => ~ e.updated /\ ~ e.grown
      BY <1>1, <1>2, BodyEntry
    <2>6. /\ f.mem = "linked" /\ f.name = ent[th[t].obj].name
          /\ f.key = ent[th[t].obj].key /\ f.dev = ent[th[t].obj].dev
          /\ f.to_be_deleted /\ f.inuse = 0 /\ ent[th[t].obj].inuse = 0
          /\ (~ f.dev => ~ f.updated /\ ~ f.grown)
      BY <1>2, <2>1, <2>4, <2>5
    <2>7. HandleValid'
      BY <1>1, <2>3, <2>6, StoreHandle
    <2>8. /\ th' \in [Thread -> Local] /\ ent' \in [Obj -> Entry]
          /\ \A u \in Thread : Knows(u)'
          /\ OnlyCtlOpens' /\ OneFreer'
          /\ \A p \in Obj : EntryOK(p, ent[p])'
      BY <1>1, <2>3, <2>6, StoreStep
    <2> QED BY <1>1, <2>7, <2>8, InvTypes, AllTogether
  <1> QED BY <1>3, <1>4

(* A thread becomes idle and no entry changes, in a state where none needs *)
(* that thread.                                                            *)
LEMMA IdleStep ==
  ASSUME EntriesInv, NEW t \in Thread,
         Become(t, Idle), ent' = ent, ids' = ids,
         th[t].pc # "free",
         th[t].pc \in {"init", "check", "delete"} =>
           ent[th[t].obj].mem # "linked" \/ ent[th[t].obj].dev
  PROVE  /\ th' \in [Thread -> Local] /\ ent' \in [Obj -> Entry]
         /\ \A u \in Thread : Knows(u)'
         /\ OnlyCtlOpens' /\ OneFreer'
         /\ \A p \in Obj : EntryOK(p, ent[p])'
  <1>1. /\ Idle \in Local /\ Idle.pc = "idle" /\ Idle.obj \notin Obj
        /\ Idle.op = "none"
    BY BlankTypes, EntriesAssumption DEF Idle
  <1>2. KnowsRequest(Idle)
    BY <1>1 DEF KnowsRequest
  <1>3. th' = [th EXCEPT ![t] = Idle]
    BY DEF Become
  <1> QED BY <1>1, <1>2, <1>3, ThreadStep

(* control_resize: refused, done, or given up with the entry locked. *)
LEMMA ResizeInv ==
  ASSUME EntriesInv, NEW t \in Thread, Resize(t)
  PROVE  EntriesInv'
  <1>1. /\ th[t].pc = "body" /\ UNCHANGED <<ids, stored, file, up, left>>
        /\ th[t].op = "resize"
    BY DEF Resize, In
  <1>2. PICK e \in Entry : e = ent[th[t].obj]
    BY <1>1, BodyEntry
  <1>3. t = Ctl
    BY <1>1 DEF EntriesInv, OnlyCtlOpens, Thread
  <1>4. /\ e.mem = "linked" /\ e.dev
        /\ e.to_be_deleted => e.inuse = 0
    BY <1>1, <1>2, <1>3, BodyEntry
  <1>5. CASE Unlock(t, e)
    BY <1>1, <1>2, <1>5, StoreSame
  <1>6. CASE e.inuse = 0 /\ Unlock(t, [e EXCEPT !.grown = TRUE, !.updated = TRUE])
    <2>1. PICK f \in Entry : f = [e EXCEPT !.grown = TRUE, !.updated = TRUE]
      BY DEF Entry
    <2>2. /\ f.inuse = e.inuse /\ f.mem = e.mem /\ f.name = e.name
          /\ f.key = e.key /\ f.to_be_deleted = e.to_be_deleted
          /\ f.dev = e.dev
      BY <2>1 DEF Entry
    <2>3. Unlock(t, f)
      BY <1>6, <2>1
    <2>4. /\ f.mem = "linked" /\ f.name = ent[th[t].obj].name
          /\ f.key = ent[th[t].obj].key /\ f.dev = ent[th[t].obj].dev
          /\ f.to_be_deleted = ent[th[t].obj].to_be_deleted
          /\ f.inuse = 0 /\ ent[th[t].obj].inuse = 0 /\ f.dev
      BY <1>2, <1>4, <1>6, <2>2
    <2>5. HandleValid'
      BY <1>1, <2>3, <2>4, StoreHandle
    <2>6. /\ th' \in [Thread -> Local] /\ ent' \in [Obj -> Entry]
          /\ \A u \in Thread : Knows(u)'
          /\ OnlyCtlOpens' /\ OneFreer'
          /\ \A p \in Obj : EntryOK(p, ent[p])'
      BY <1>1, <2>3, <2>4, StoreStep
    <2> QED BY <1>1, <2>5, <2>6, InvTypes, AllTogether
  <1>7. CASE Become(t, Idle) /\ UNCHANGED ent
    <2>1. /\ th' \in [Thread -> Local] /\ ent' \in [Obj -> Entry]
          /\ \A u \in Thread : Knows(u)'
          /\ OnlyCtlOpens' /\ OneFreer'
          /\ \A p \in Obj : EntryOK(p, ent[p])'
      BY <1>1, <1>7, IdleStep
    <2>2. HandleValid'
      BY SMTT(30), <1>1, <1>7, HandleStays
    <2> QED BY <1>1, <2>1, <2>2, InvTypes, AllTogether
  <1> QED BY <1>2, <1>5, <1>6, <1>7 DEF Resize

(* hashtbl_find_element_bykey *)
LEMMA FindInv ==
  ASSUME EntriesInv, NEW t \in Thread, Find(t)
  PROVE  EntriesInv'
  <1>1. th[t].pc = "find" /\ UNCHANGED <<ids, stored, up, left>>
    BY DEF Find
  <1>2. PICK n \in Name : n = th[t].name
    BY <1>1 DEF EntriesInv, Knows, KnowsRequest
  <1>3. CASE /\ Linked(n) = {} /\ Become(t, Idle) /\ UNCHANGED ent
             /\ file' = IF th[t].op = "release"
                        THEN [file EXCEPT ![n] = "closed"] ELSE file
    <2>1. /\ th' \in [Thread -> Local] /\ ent' \in [Obj -> Entry]
          /\ \A u \in Thread : Knows(u)'
          /\ OnlyCtlOpens' /\ OneFreer'
          /\ \A p \in Obj : EntryOK(p, ent[p])'
      BY <1>1, <1>3, IdleStep
    <2>2. /\ file' \in [Name -> {"closed", "r", "rw"}]
          /\ \A x \in Name : file'[x] \in {file[x], "closed"}
      BY <1>3, InvTypes
    <2>3. HandleValid'
      BY <1>3, <2>2 DEF EntriesInv, HandleValid, Linked
    <2> QED BY <1>1, <2>1, <2>2, <2>3, InvTypes, AllTogether
  <1>4. ASSUME NEW o \in Linked(n), ent[o].lock = None,
               ent' = [ent EXCEPT ![o].lock = t],
               Become(t, [th[t] EXCEPT !.pc = "body", !.obj = o]),
               UNCHANGED file
        PROVE  EntriesInv'
    <2>1. o \in Obj /\ ent[o].mem = "linked" /\ ent[o].name = n /\ ent[o] \in Entry
      BY InvTypes DEF Linked
    <2>2. PICK e \in Entry : e = [ent[o] EXCEPT !.lock = t]
      BY <2>1 DEF Entry
    <2>3. /\ SameFor(ent[o], e) /\ e.lock = t /\ e.name = n /\ e.mem = "linked"
          /\ e.readonly = ent[o].readonly
      BY <2>1, <2>2 DEF Entry, SameFor
    <2>4. ent' = [ent EXCEPT ![o] = e]
      BY <1>4, <2>1, <2>2, InvTypes
    <2>5. PICK l \in Local : l = [th[t] EXCEPT !.pc = "body", !.obj = o]
      <3>1. th[t] \in Local
        BY InvTypes
      <3> QED BY <2>1, <3>1 DEF Local
    <2>6. /\ l.pc = "body" /\ l.obj = o /\ l.name = n
          /\ l.op = th[t].op /\ l.arg = th[t].arg
      <3>1. th[t] \in Local
        BY InvTypes
      <3> QED BY <1>2, <2>5, <3>1 DEF Local
    <2>7. th' = [th EXCEPT ![t] = l]
      BY <1>4, <2>5 DEF Become
    <2>8. KnowsRequest(l)
      <3>1. KnowsRequest(th[t])
        BY DEF EntriesInv, Knows
      <3> QED BY <1>1, <2>1, <2>6, <3>1 DEF KnowsRequest
    <2>9. KnowsEntry(t, l, e)
      BY <2>3, <2>6 DEF KnowsEntry
    <2>10. OthersKnow(t, o, e)
      <3> SUFFICES ASSUME NEW u \in Thread \ {t}, th[u].obj = o
                   PROVE  KnowsEntry(u, th[u], e)
        BY DEF OthersKnow
      <3>1. KnowsEntry(u, th[u], ent[o])
        BY <2>1 DEF EntriesInv, Knows
      <3>2. u # None
        BY EntriesAssumption
      <3> QED BY <1>4, <2>1, <2>3, <3>1, <3>2 DEF KnowsEntry, SameFor
    <2>11. /\ th' \in [Thread -> Local] /\ ent' \in [Obj -> Entry]
           /\ \A u \in Thread : Knows(u)'
      <3>1. o \in Obj
        BY <2>1
      <3> QED BY <2>4, <2>6, <2>7, <2>8, <2>9, <2>10, <3>1, KnowsStep
    <2>12. /\ th'[t] = l /\ \A u \in Thread \ {t} : th'[u] = th[u]
           /\ ent'[o] = e /\ \A p \in Obj \ {o} : ent'[p] = ent[p]
      BY <2>1, <2>4, <2>7, InvTypes
    <2>13. OnlyCtlOpens'
      <3>1. OnlyCtlOpens
        BY DEF EntriesInv
      <3>2. Ctl \in Thread
        BY DEF Thread
      <3>3. \A u \in Thread : th'[u].pc \in {"add", "init", "check"} => u = Ctl
        BY <2>6, <2>12, <3>1 DEF OnlyCtlOpens
      <3>4. th'[Ctl].pc = "add" => \E p \in Obj : ent'[p].mem = "unused"
        BY <2>1, <2>6, <2>12, <3>1, <3>2 DEF OnlyCtlOpens
      <3>5. \A u \in Fuse : th'[u].op \in {"none", "getattr", "open-r",
                                   "open-rw", "read", "write", "release"}
        BY <2>6, <2>12, <3>1 DEF OnlyCtlOpens, Thread
      <3> QED BY <3>3, <3>4, <3>5 DEF OnlyCtlOpens
    <2>14. OneFreer'
      BY <2>6, <2>12 DEF EntriesInv, OneFreer
    <2>15. ASSUME NEW p \in Obj PROVE EntryOK(p, ent[p])'
      <3>1. SameFor(ent[p], ent'[p])
        BY <2>3, <2>12 DEF SameFor
      <3>2. ent[p].dev => ids'[ent[p].key] = p
        BY <1>1 DEF EntriesInv, EntryOK
      <3>3. th[t].pc \notin {"init", "check", "delete", "free"}
        BY <1>1
      <3> QED BY <2>7, <3>1, <3>2, <3>3, EntryStays
    <2>16. HandleValid'
      <3>1. /\ e.mem = "linked" /\ e.name = ent[o].name /\ e.inuse = ent[o].inuse
            /\ e.to_be_deleted = ent[o].to_be_deleted
            /\ e.readonly = ent[o].readonly /\ o \in Obj
        BY <2>1, <2>3 DEF SameFor
      <3> QED BY <1>4, <2>4, <3>1, HandleStep
    <2> QED BY <1>1, <1>4, <2>11, <2>13, <2>14, <2>15, <2>16, InvTypes,
               AllTogether
  <1> QED BY <1>2, <1>3, <1>4 DEF Find

(* control_open_create_common, the first part. *)
LEMMA AddInv ==
  ASSUME EntriesInv, NEW t \in Thread, Add(t)
  PROVE  EntriesInv'
  <1>1. th[t].pc = "add" /\ UNCHANGED <<ids, stored, file, up, left>>
    BY DEF Add
  <1>2. PICK n \in Name : n = th[t].name
    BY <1>1 DEF EntriesInv, Knows, KnowsRequest
  <1>3. t = Ctl /\ \E p \in Obj : ent[p].mem = "unused"
    BY <1>1 DEF EntriesInv, OnlyCtlOpens
  <1>4. PICK o \in Obj : o = (CHOOSE p \in Obj : ent[p].mem = "unused")
                         /\ ent[o].mem = "unused"
    BY <1>3
  <1>5. CASE Become(t, Idle) /\ UNCHANGED ent
    <2>1. /\ th' \in [Thread -> Local] /\ ent' \in [Obj -> Entry]
          /\ \A u \in Thread : Knows(u)'
          /\ OnlyCtlOpens' /\ OneFreer'
          /\ \A p \in Obj : EntryOK(p, ent[p])'
      BY <1>1, <1>5, IdleStep
    <2>2. HandleValid'
      BY <1>1, <1>5, HandleStays
    <2> QED BY <1>1, <2>1, <2>2, InvTypes, AllTogether
  <1>6. CASE /\ ent' = [ent EXCEPT ![o] = [Blank EXCEPT !.mem = "linked",
                                             !.name = n, !.lock = t]]
             /\ Become(t, [th[t] EXCEPT !.pc = "init", !.obj = o])
    <2>1. PICK e \in Entry : e = [Blank EXCEPT !.mem = "linked",
                                               !.name = n, !.lock = t]
      <3>1. PICK b \in Entry : b = [Blank EXCEPT !.mem = "linked"]
        BY BlankTypes
      <3>2. [b EXCEPT !.name = n, !.lock = t] \in Entry
        BY DEF Entry
      <3> QED BY <3>1, <3>2
    <2>2. /\ e.mem = "linked" /\ e.name = n /\ e.lock = t /\ ~ e.dev
          /\ e.inuse = 0 /\ ~ e.to_be_deleted /\ ~ e.updated /\ ~ e.grown
      BY <2>1 DEF Blank
    <2>3. ent' = [ent EXCEPT ![o] = e]
      BY <1>6, <2>1
    <2>4. th[t] \in Local
      BY InvTypes
    <2>5. PICK l \in Local : l = [th[t] EXCEPT !.pc = "init", !.obj = o]
      BY <2>4 DEF Local
    <2>6. l.pc = "init" /\ l.obj = o /\ l.name = n
      BY <1>2, <2>4, <2>5 DEF Local
    <2>7. th' = [th EXCEPT ![t] = l]
      BY <1>6, <2>5 DEF Become
    <2>8. KnowsRequest(l) /\ KnowsEntry(t, l, e)
      BY <2>2, <2>6 DEF KnowsRequest, KnowsEntry
    <2>9. OthersKnow(t, o, e)
      <3> SUFFICES ASSUME NEW u \in Thread \ {t}, th[u].obj = o
                   PROVE  KnowsEntry(u, th[u], e)
        BY DEF OthersKnow
      <3>1. KnowsEntry(u, th[u], ent[o])
        BY DEF EntriesInv, Knows
      <3> QED BY <1>4, <3>1 DEF KnowsEntry
    <2>10. /\ th' \in [Thread -> Local] /\ ent' \in [Obj -> Entry]
           /\ \A u \in Thread : Knows(u)'
      BY <2>3, <2>6, <2>7, <2>8, <2>9, KnowsStep
    <2>11. /\ th'[t] = l /\ \A u \in Thread \ {t} : th'[u] = th[u]
           /\ ent'[o] = e /\ \A p \in Obj \ {o} : ent'[p] = ent[p]
      BY <2>3, <2>7, InvTypes
    <2>12. OnlyCtlOpens' /\ OneFreer'
      <3>1. OnlyCtlOpens /\ OneFreer /\ Ctl \notin Fuse
        BY EntriesAssumption DEF EntriesInv
      <3>2. OnlyCtlOpens'
        BY <1>3, <2>6, <2>11, <3>1 DEF OnlyCtlOpens, Thread
      <3>3. OneFreer'
        BY <2>6, <2>11, <3>1 DEF OneFreer
      <3> QED BY <3>2, <3>3
    <2>13. ASSUME NEW p \in Obj PROVE EntryOK(p, ent[p])'
      <3>1. CASE p = o
        BY <1>3, <2>2, <2>6, <2>11, <3>1 DEF EntryOK
      <3>2. CASE p # o
        <4>1. SameFor(ent[p], ent'[p])
          BY <2>11, <3>2 DEF SameFor
        <4>2. ent[p].dev => ids'[ent[p].key] = p
          BY <1>1 DEF EntriesInv, EntryOK
        <4>3. th[t].pc \notin {"init", "check", "delete", "free"}
          BY <1>1
        <4> QED BY <2>7, <4>1, <4>2, <4>3, EntryStays
      <3> QED BY <3>1, <3>2
    <2>14. HandleValid'
      BY <1>1, <1>4, <2>3, HandleStep
    <2> QED BY <1>1, <2>10, <2>12, <2>13, <2>14, InvTypes, AllTogether
  <1>7. \/ Become(t, Idle) /\ UNCHANGED ent
        \/ /\ ent' = [ent EXCEPT ![o] = [Blank EXCEPT !.mem = "linked",
                                             !.name = n, !.lock = t]]
           /\ Become(t, [th[t] EXCEPT !.pc = "init", !.obj = o])
    BY <1>2, <1>4 DEF Add
  <1> QED BY <1>5, <1>6, <1>7

(* The try block of control_open_create_common: a key that is registered   *)
(* for another entry is refused.                                           *)
LEMMA InitDeviceInv ==
  ASSUME EntriesInv, NEW t \in Thread, InitDevice(t)
  PROVE  EntriesInv'
  <1>1. th[t].pc = "init" /\ UNCHANGED <<stored, file, up, left>>
    BY DEF InitDevice
  <1>2. t = Ctl
    BY <1>1 DEF EntriesInv, OnlyCtlOpens
  <1>3. PICK o \in Obj : o = th[t].obj
    BY <1>1 DEF EntriesInv, Knows, KnowsRequest
  <1>4. PICK d \in Entry : d = ent[o]
    BY InvTypes
  <1>5. /\ d.mem = "linked" /\ d.lock = t /\ ~ d.dev /\ d.inuse = 0
        /\ ~ d.to_be_deleted /\ ~ d.updated /\ ~ d.grown
    BY <1>1, <1>3, <1>4 DEF EntriesInv, Knows, KnowsEntry
  <1>6. PICK k : k = th[t].arg
    OBVIOUS
  <1>7. PICK refused \in BOOLEAN : refused = (k \notin Key \/ ids[k] # None)
    OBVIOUS
  <1>8. PICK g \in BOOLEAN : g = (~ refused /\ k \in stored)
    OBVIOUS
  <1>9. PICK m \in BOOLEAN :
          m = (refused \/ ~ ((k \in stored) = (th[t].op = "open")))
    OBVIOUS
  <1>10. PICK q \in Key \cup {None} : q = IF refused THEN None ELSE k
    BY <1>7
  <1>11. PICK e \in Entry : e = [d EXCEPT !.lock = None, !.key = q,
                                   !.dev = ~ refused, !.grown = g,
                                   !.to_be_deleted = m]
    BY ZenonT(60) DEF Entry
  <1>12. /\ e.mem = "linked" /\ e.lock = None /\ e.name = d.name /\ e.key = q
         /\ e.dev = ~ refused /\ e.grown = g /\ e.to_be_deleted = m
         /\ e.inuse = 0 /\ ~ e.updated
    BY <1>5, <1>11 DEF Entry
  <1>13. /\ ent' = [ent EXCEPT ![o] = e]
         /\ ids' = IF refused THEN ids ELSE [ids EXCEPT ![k] = o]
    BY <1>3, <1>4, <1>6, <1>7, <1>8, <1>9, <1>10, <1>11 DEF InitDevice
  <1>14. th[t] \in Local
    BY InvTypes
  <1>15. PICK l \in Local : l = [th[t] EXCEPT !.pc = "check"]
    BY <1>14 DEF Local
  <1>16. l.pc = "check" /\ l.obj = o
    BY <1>3, <1>14, <1>15 DEF Local
  <1>17. th' = [th EXCEPT ![t] = l]
    BY <1>15 DEF InitDevice, Become
  <1>18. KnowsRequest(l) /\ KnowsEntry(t, l, e)
    BY <1>12, <1>16 DEF KnowsRequest, KnowsEntry
  <1>19. OthersKnow(t, o, e)
    <2> SUFFICES ASSUME NEW u \in Thread \ {t}, th[u].obj = o
                 PROVE  KnowsEntry(u, th[u], e)
      BY DEF OthersKnow
    <2>1. KnowsEntry(u, th[u], ent[o])
      BY DEF EntriesInv, Knows
    <2> QED BY <1>4, <1>5, <1>12, <2>1 DEF KnowsEntry
  <1>20. /\ th' \in [Thread -> Local] /\ ent' \in [Obj -> Entry]
         /\ \A u \in Thread : Knows(u)'
    BY <1>13, <1>16, <1>17, <1>18, <1>19, KnowsStep
  <1>21. /\ th'[t] = l /\ \A u \in Thread \ {t} : th'[u] = th[u]
         /\ ent'[o] = e /\ \A p \in Obj \ {o} : ent'[p] = ent[p]
    BY <1>13, <1>17, InvTypes
  <1>22. OnlyCtlOpens' /\ OneFreer'
    <2>1. OnlyCtlOpens /\ OneFreer /\ Ctl \notin Fuse
      BY EntriesAssumption DEF EntriesInv
    <2>2. OnlyCtlOpens'
      <3>1. th'[Ctl].pc = "check" /\ \A u \in Fuse : th'[u] = th[u]
        BY <1>2, <1>16, <1>21, <2>1 DEF Thread
      <3>2. \A u \in Thread : u # Ctl => u \in Fuse
        BY DEF Thread
      <3> QED BY <2>1, <3>1, <3>2 DEF OnlyCtlOpens, Thread
    <2>3. OneFreer'
      BY <1>16, <1>21, <2>1 DEF OneFreer
    <2> QED BY <2>2, <2>3
  <1>23. ids' \in [Key -> Obj \cup {None}]
    BY <1>7, <1>13, InvTypes
  <1>24. ASSUME NEW p \in Obj PROVE EntryOK(p, ent[p])'
    <2>1. CASE p = o
      <3>1. ~ refused => q \in Key /\ ids'[q] = o
        BY <1>7, <1>10, <1>13, InvTypes
      <3>2. refused => m /\ ~ g
        BY <1>8, <1>9
      <3> QED BY <1>2, <1>12, <1>16, <1>21, <2>1, <3>1, <3>2 DEF EntryOK
    <2>2. CASE p # o
      <3>1. SameFor(ent[p], ent'[p])
        BY <1>21, <2>2 DEF SameFor
      <3>2. ent[p].dev => ent[p].key \in Key /\ ids[ent[p].key] = p
        BY DEF EntriesInv, EntryOK
      <3>3. ent[p].dev => ids'[ent[p].key] = p
        <4>1. p # None
          BY EntriesAssumption
        <4> QED BY <1>7, <1>13, <3>2, <4>1, InvTypes
      <3>4. th[t].obj # p
        BY <1>3, <2>2
      <3> QED BY <1>17, <3>1, <3>3, <3>4, EntryStays
    <2> QED BY <2>1, <2>2
  <1>25. HandleValid'
    BY <1>1, <1>4, <1>5, <1>13, HandleStep
  <1> QED BY <1>1, <1>20, <1>22, <1>23, <1>24, <1>25, InvTypes, AllTogether

(* control_open_create_common looks at the entry again. *)
LEMMA CheckInv ==
  ASSUME EntriesInv, NEW t \in Thread, Check(t)
  PROVE  EntriesInv'
  <1>1. th[t].pc = "check" /\ UNCHANGED <<ent, ids, stored, file, up, left>>
    BY DEF Check
  <1>2. t = Ctl
    BY <1>1 DEF EntriesInv, OnlyCtlOpens
  <1>3. PICK o \in Obj : o = th[t].obj
    BY <1>1 DEF EntriesInv, Knows, KnowsRequest
  <1>4. /\ ent[o].mem # "unused"
        /\ ent[o].mem = "linked" /\ ~ ent[o].dev => ent[o].to_be_deleted
    BY <1>1, <1>2, <1>3 DEF EntriesInv, Knows, KnowsEntry, EntryOK
  <1>5. HandleValid'
    BY <1>1, HandleStays
  <1>6. CASE ~ ent[o].to_be_deleted
    <2>1. Become(t, Idle)
      BY <1>3, <1>6 DEF Check
    <2>2. ent[th[t].obj].mem # "linked" \/ ent[th[t].obj].dev
      BY <1>3, <1>4, <1>6
    <2> QED BY <1>1, <1>5, <2>1, <2>2, IdleStep, InvTypes, AllTogether
  <1>7. CASE ent[o].to_be_deleted
    <2>1. th[t] \in Local
      BY InvTypes
    <2>2. PICK l \in Local : l = [Idle EXCEPT !.pc = "delete", !.op = th[t].op,
                                              !.obj = o]
      BY <2>1, BlankTypes DEF Local
    <2>3. l.pc = "delete" /\ l.obj = o
      BY <2>2 DEF Idle
    <2>4. th' = [th EXCEPT ![t] = l]
      BY <1>3, <1>7, <2>2 DEF Check, Become
    <2>5. KnowsRequest(l) /\ KnowsEntry(t, l, ent[o])
      BY <1>4, <1>7, <2>3 DEF KnowsRequest, KnowsEntry
    <2>6. t \notin Fuse
      BY <1>2, EntriesAssumption
    <2>7. /\ th' \in [Thread -> Local] /\ ent' \in [Obj -> Entry]
          /\ \A u \in Thread : Knows(u)'
          /\ OnlyCtlOpens' /\ OneFreer'
          /\ \A p \in Obj : EntryOK(p, ent[p])'
      BY <1>1, <1>3, <1>7, <2>3, <2>4, <2>5, <2>6, ThreadStep
    <2> QED BY <1>1, <1>5, <2>7, InvTypes, AllTogether
  <1> QED BY <1>6, <1>7

(* hashtbl_delete_element_byptr: an entry is taken out of the table by one *)
(* thread, when it is marked and unlocked, and so not in use.              *)
LEMMA DeleteInv ==
  ASSUME EntriesInv, NEW t \in Thread, Delete(t)
  PROVE  EntriesInv'
  <1>1. th[t].pc = "delete"
    BY DEF Delete
  <1>2. PICK o \in Obj : o = th[t].obj
    BY <1>1 DEF EntriesInv, Knows, KnowsRequest
  <1>3. CASE Died
    BY <1>3, DiedInv
  <1>4. CASE /\ ent[o].mem # "linked" /\ Become(t, Idle)
             /\ UNCHANGED <<ent, ids, stored, file, up, left>>
    <2>1. HandleValid'
      BY <1>4, HandleStays
    <2>2. ent[th[t].obj].mem # "linked"
      BY <1>2, <1>4
    <2> QED BY <1>1, <1>4, <2>1, <2>2, IdleStep, InvTypes, AllTogether
  <1>5. CASE /\ ent[o].mem = "linked" /\ ent[o].lock = None
             /\ ent' = [ent EXCEPT ![o].mem = "unlinked"]
             /\ Become(t, [th[t] EXCEPT !.pc = "free"])
             /\ UNCHANGED <<ids, stored, file, up, left>>
    <2>1. PICK d \in Entry : d = ent[o]
      BY InvTypes
    <2>2. d.to_be_deleted /\ d.inuse = 0 /\ d.mem = "linked" /\ d.lock = None
      <3>1. d.to_be_deleted
        BY <1>1, <1>2, <1>5, <2>1 DEF EntriesInv, Knows, KnowsEntry
      <3> QED BY <1>5, <2>1, <3>1 DEF EntriesInv, EntryOK
    <2>3. PICK e \in Entry : e = [d EXCEPT !.mem = "unlinked"]
      BY DEF Entry, Mem
    <2>4. /\ e.mem = "unlinked" /\ e.dev = d.dev /\ e.key = d.key
          /\ e.to_be_deleted = d.to_be_deleted /\ e.inuse = d.inuse
      BY <2>3 DEF Entry
    <2>5. ent' = [ent EXCEPT ![o] = e]
      BY <1>5, <2>1, <2>3
    <2>6. th[t] \in Local
      BY InvTypes
    <2>7. PICK l \in Local : l = [th[t] EXCEPT !.pc = "free"]
      BY <2>6 DEF Local
    <2>8. l.pc = "free" /\ l.obj = o /\ l.op = th[t].op
      BY <1>2, <2>6, <2>7 DEF Local
    <2>9. th' = [th EXCEPT ![t] = l]
      BY <1>5, <2>7 DEF Become
    <2>10. KnowsRequest(l) /\ KnowsEntry(t, l, e)
      <3>1. KnowsRequest(th[t])
        BY DEF EntriesInv, Knows
      <3> QED BY <2>4, <2>8, <3>1 DEF KnowsRequest, KnowsEntry
    <2>11. OthersKnow(t, o, e)
      <3> SUFFICES ASSUME NEW u \in Thread \ {t}, th[u].obj = o
                   PROVE  KnowsEntry(u, th[u], e)
        BY DEF OthersKnow
      <3>1. KnowsEntry(u, th[u], ent[o])
        BY DEF EntriesInv, Knows
      <3>2. u # None
        BY EntriesAssumption
      <3> QED BY <2>1, <2>2, <2>4, <3>1, <3>2 DEF KnowsEntry
    <2>12. /\ th' \in [Thread -> Local] /\ ent' \in [Obj -> Entry]
           /\ \A u \in Thread : Knows(u)'
      BY <2>5, <2>8, <2>9, <2>10, <2>11, KnowsStep
    <2>13. /\ th'[t] = l /\ \A u \in Thread \ {t} : th'[u] = th[u]
           /\ ent'[o] = e /\ \A p \in Obj \ {o} : ent'[p] = ent[p]
      BY <2>5, <2>9, InvTypes
    <2>14. OnlyCtlOpens' /\ OneFreer'
      <3>1. OnlyCtlOpens /\ OneFreer /\ Ctl \in Thread
        BY DEF EntriesInv, Thread
      <3>2. OnlyCtlOpens'
        <4>1. \A u \in Thread : th'[u].pc \in {"add", "init", "check"} => u = Ctl
          BY <2>8, <2>13, <3>1 DEF OnlyCtlOpens
        <4>2. th'[Ctl].pc = "add" => \E p \in Obj : ent'[p].mem = "unused"
          BY <2>1, <2>2, <2>8, <2>13, <3>1 DEF OnlyCtlOpens
        <4>3. \A u \in Fuse : th'[u].op \in {"none", "getattr", "open-r",
                                     "open-rw", "read", "write", "release"}
          BY <2>8, <2>13, <3>1 DEF OnlyCtlOpens, Thread
        <4> QED BY <4>1, <4>2, <4>3 DEF OnlyCtlOpens
      <3>3. \A u \in Thread : th[u].pc \in {"free", "forget"} => th[u].obj # o
        BY <2>1, <2>2 DEF EntriesInv, Knows, KnowsEntry
      <3>4. OneFreer'
        BY <2>8, <2>13, <3>1, <3>3 DEF OneFreer
      <3> QED BY <3>2, <3>4
    <2>15. ASSUME NEW p \in Obj PROVE EntryOK(p, ent[p])'
      <3>1. CASE p = o
        <4>1. EntryOK(o, d)
          BY <2>1 DEF EntriesInv
        <4>2. th'[t].pc = "free" /\ th'[t].obj = p /\ ent'[p] = e
          BY <2>8, <2>13, <3>1
        <4>3. e.dev => e.key \in Key /\ ids'[e.key] = p
          BY <1>5, <2>4, <3>1, <4>1 DEF EntryOK
        <4>4. e.mem # "linked" /\ e.inuse = 0
          BY <2>2, <2>4
        <4> QED BY <4>2, <4>3, <4>4 DEF EntryOK
      <3>2. CASE p # o
        <4>1. SameFor(ent[p], ent'[p])
          BY <2>13, <3>2 DEF SameFor
        <4>2. ent[p].dev => ids'[ent[p].key] = p
          BY <1>5 DEF EntriesInv, EntryOK
        <4>3. th[t].obj # p
          BY <1>2, <3>2
        <4> QED BY <2>9, <4>1, <4>2, <4>3, EntryStays
      <3> QED BY <3>1, <3>2
    <2>16. HandleValid'
      BY <1>5, <2>1, <2>2, <2>5, HandleStep
    <2> QED BY <1>5, <2>12, <2>14, <2>15, <2>16, InvTypes, AllTogether
  <1> QED BY <1>2, <1>3, <1>4, <1>5 DEF Delete

(* freer: the device is closed before its key is given up. *)
LEMMA FreeInv ==
  ASSUME EntriesInv, NEW t \in Thread, FreeDevice(t) \/ Forget(t)
  PROVE  EntriesInv'
  <1>1. th[t].pc \in {"free", "forget"}
    BY DEF FreeDevice, Forget
  <1>2. PICK o \in Obj : o = th[t].obj
    BY <1>1 DEF EntriesInv, Knows, KnowsRequest
  <1>3. PICK d \in Entry : d = ent[o]
    BY InvTypes
  <1>4. d.mem \in {"unlinked", "freeing"}
    BY <1>1, <1>2, <1>3 DEF EntriesInv, Knows, KnowsEntry
  <1>5. EntryOK(o, d)
    BY <1>3 DEF EntriesInv
  <1>6. CASE Died
    BY <1>6, DiedInv
  <1>7. CASE ~ Died
    <2>1. PICK e \in Entry, l \in Local :
            /\ ent' = [ent EXCEPT ![o] = e] /\ th' = [th EXCEPT ![t] = l]
            /\ e.mem \in {"freeing", "freed"} /\ ~ e.dev
            /\ e.to_be_deleted => e.inuse = 0
            /\ \/ l = Idle
               \/ /\ l.pc = "forget" /\ l.obj = o /\ e.mem = "freeing"
                  /\ l.op = th[t].op
      <3>1. CASE FreeDevice(t)
        <4>1. PICK e \in Entry : e = [d EXCEPT !.mem = "freeing", !.dev = FALSE]
          BY DEF Entry, Mem
        <4>2. /\ e.mem = "freeing" /\ ~ e.dev /\ e.inuse = d.inuse
              /\ e.to_be_deleted = d.to_be_deleted
          BY <4>1 DEF Entry
        <4>3. th[t] \in Local
          BY InvTypes
        <4>4. PICK l \in Local : l = [th[t] EXCEPT !.pc = "forget"]
          BY <4>3 DEF Local
        <4>5. l.pc = "forget" /\ l.obj = o /\ l.op = th[t].op
          BY <1>2, <4>3, <4>4 DEF Local
        <4>6. ent' = [ent EXCEPT ![o] = e] /\ th' = [th EXCEPT ![t] = l]
          BY <1>2, <1>3, <1>7, <3>1, <4>1, <4>4 DEF FreeDevice, Become
        <4>7. e.to_be_deleted => e.inuse = 0
          BY <1>5, <4>2 DEF EntryOK
        <4> QED BY <4>2, <4>5, <4>6, <4>7
      <3>2. CASE Forget(t)
        <4>1. PICK e \in Entry : e = [Blank EXCEPT !.mem = "freed"]
          BY BlankTypes
        <4>2. e.mem = "freed" /\ ~ e.dev /\ ~ e.to_be_deleted
          BY <4>1 DEF Blank
        <4>3. ent' = [ent EXCEPT ![o] = e] /\ th' = [th EXCEPT ![t] = Idle]
          BY <1>2, <3>2, <4>1 DEF Forget, Become
        <4>4. Idle \in Local
          BY BlankTypes
        <4> QED BY <4>2, <4>3, <4>4
      <3> QED BY <3>1, <3>2
    <2>2. /\ ids' \in [Key -> Obj \cup {None}] /\ stored' \subseteq Key
          /\ \A k \in Key : ids[k] # o => ids'[k] = ids[k]
          /\ UNCHANGED <<file, up, left>>
      <3>1. CASE FreeDevice(t)
        <4>1. d.dev /\ stored' \in {stored, stored \cup {d.key}}
              /\ UNCHANGED <<ids, file, up, left>>
          BY <1>2, <1>3, <1>7, <3>1 DEF FreeDevice
        <4>2. d.key \in Key
          BY <1>5, <4>1 DEF EntryOK
        <4> QED BY <4>1, <4>2, InvTypes
      <3>2. CASE Forget(t)
        <4>1. /\ ids' = [k \in Key |-> IF ids[k] = o THEN None ELSE ids[k]]
              /\ UNCHANGED <<stored, file, up, left>>
          BY <1>2, <3>2 DEF Forget
        <4> QED BY <4>1, InvTypes
      <3> QED BY <3>1, <3>2
    <2>3. Idle.pc = "idle" /\ Idle.obj \notin Obj /\ Idle.op = "none"
      BY EntriesAssumption DEF Idle
    <2>4. KnowsRequest(l)
      BY <2>1, <2>3 DEF KnowsRequest
    <2>5. l.obj \in Obj => l.obj = o /\ KnowsEntry(t, l, e)
      <3>1. l.pc = "forget" /\ e.mem = "freeing" => KnowsEntry(t, l, e)
        BY DEF KnowsEntry
      <3> QED BY <2>1, <2>3, <3>1
    <2>6. OthersKnow(t, o, e)
      <3> SUFFICES ASSUME NEW u \in Thread \ {t}, th[u].obj = o
                   PROVE  KnowsEntry(u, th[u], e)
        BY DEF OthersKnow
      <3>1. KnowsEntry(u, th[u], d)
        BY <1>3 DEF EntriesInv, Knows
      <3>2. th[u].pc \notin {"free", "forget"}
        BY <1>1, <1>2 DEF EntriesInv, OneFreer
      <3> QED BY <1>4, <2>1, <3>1, <3>2 DEF KnowsEntry
    <2>7. /\ th' \in [Thread -> Local] /\ ent' \in [Obj -> Entry]
          /\ \A u \in Thread : Knows(u)'
      BY <2>1, <2>4, <2>5, <2>6, KnowsStep
    <2>8. /\ th'[t] = l /\ \A u \in Thread \ {t} : th'[u] = th[u]
          /\ ent'[o] = e /\ \A p \in Obj \ {o} : ent'[p] = ent[p]
      BY <2>1, InvTypes
    <2>9. OnlyCtlOpens'
      <3>1. OnlyCtlOpens /\ Ctl \in Thread
        BY DEF EntriesInv, Thread
      <3>2. \A u \in Thread : th'[u].pc \in {"add", "init", "check"} => u = Ctl
        BY <2>1, <2>3, <2>8, <3>1 DEF OnlyCtlOpens
      <3>3. th'[Ctl].pc = "add" => \E p \in Obj : ent'[p].mem = "unused"
        BY <1>3, <1>4, <2>1, <2>3, <2>8, <3>1 DEF OnlyCtlOpens
      <3>4. \A u \in Fuse : th'[u].op \in {"none", "getattr", "open-r",
                                   "open-rw", "read", "write", "release"}
        BY <2>1, <2>3, <2>8, <3>1 DEF OnlyCtlOpens, Thread
      <3> QED BY <3>2, <3>3, <3>4 DEF OnlyCtlOpens
    <2>10. OneFreer'
      <3>1. OneFreer
        BY DEF EntriesInv
      <3> QED BY <1>1, <1>2, <2>1, <2>3, <2>8, <3>1 DEF OneFreer
    <2>11. ASSUME NEW p \in Obj PROVE EntryOK(p, ent[p])'
      <3>1. CASE p = o
        BY <2>1, <2>8, <3>1 DEF EntryOK
      <3>2. CASE p # o
        <4>1. SameFor(ent[p], ent'[p])
          BY <2>8, <3>2 DEF SameFor
        <4>2. ent[p].dev => ids'[ent[p].key] = p
          BY <2>2, <3>2 DEF EntriesInv, EntryOK
        <4>3. th[t].obj # p
          BY <1>2, <3>2
        <4> QED BY <2>1, <4>1, <4>2, <4>3, EntryStays
      <3> QED BY <3>1, <3>2
    <2>12. HandleValid'
      <3>1. ent[o].mem # "linked" /\ file' = file
        BY <1>3, <1>4, <2>2
      <3> QED BY <2>1, <3>1, HandleStep
    <2> QED BY <2>2, <2>7, <2>9, <2>10, <2>11, <2>12, InvTypes, AllTogether
  <1> QED BY <1>6, <1>7

(* A request arrives: a command, or a call of the kernel. *)
LEMMA RequestInv ==
  ASSUME EntriesInv, Receive \/ \E t \in Thread : Call(t)
  PROVE  EntriesInv'
  <1>1. PICK t \in Thread, l \in Local :
          /\ th' = [th EXCEPT ![t] = l] /\ th[t].pc = "idle"
          /\ l.pc \in {"find", "add"} /\ l.name \in Name /\ l.obj = None
          /\ l.op \in {"set-readonly", "set-close-on-release"}
               => l.arg \in BOOLEAN
          /\ l.pc = "add" => t = Ctl /\ \E o \in Obj : ent[o].mem = "unused"
          /\ t \in Fuse => l.op \in {"none", "getattr", "open-r", "open-rw",
                                     "read", "write", "release"}
    <2>1. CASE Receive
      <3>1. PICK n \in Name, c \in Command :
              /\ c[1] \in {"open", "create"} => \E o \in Obj : ent[o].mem = "unused"
              /\ Become(Ctl, [Idle EXCEPT !.pc = IF c[1] \in {"open", "create"}
                                                 THEN "add" ELSE "find",
                                   !.op = c[1], !.name = n, !.arg = c[2]])
        BY <2>1 DEF Receive
      <3>2. /\ c[1] \in Operation /\ c[2] \in Argument
            /\ c[1] \in {"set-readonly", "set-close-on-release"}
                 => c[2] \in BOOLEAN
        BY DEF Command, Operation, Argument
      <3>3. PICK x \in {"add", "find"} :
              x = IF c[1] \in {"open", "create"} THEN "add" ELSE "find"
        OBVIOUS
      <3>4. PICK l \in Local : l = [Idle EXCEPT !.pc = x, !.op = c[1],
                                                !.name = n, !.arg = c[2]]
        BY <3>2, BlankTypes DEF Local
      <3>5. /\ l.pc = x /\ l.op = c[1] /\ l.name = n /\ l.arg = c[2]
            /\ l.obj = None
        BY <3>4 DEF Idle
      <3>6. th' = [th EXCEPT ![Ctl] = l] /\ th[Ctl].pc = "idle"
        BY <2>1, <3>1, <3>3, <3>4 DEF Become, Receive
      <3>7. Ctl \in Thread /\ Ctl \notin Fuse
        BY EntriesAssumption DEF Thread
      <3> QED BY <3>1, <3>2, <3>3, <3>5, <3>6, <3>7
    <2>2. CASE \E t \in Thread : Call(t)
      <3>1. PICK t \in Thread : Call(t)
        BY <2>2
      <3>2. PICK n \in Name, op \in {"getattr", "open-r", "open-rw", "read",
                                     "write", "release"} :
              Become(t, [Idle EXCEPT !.pc = "find", !.op = op, !.name = n])
        BY <3>1 DEF Call
      <3>3. PICK l \in Local : l = [Idle EXCEPT !.pc = "find", !.op = op,
                                                !.name = n]
        BY BlankTypes DEF Local, Operation
      <3>4. l.pc = "find" /\ l.op = op /\ l.name = n /\ l.obj = None
        BY <3>3 DEF Idle
      <3>5. th' = [th EXCEPT ![t] = l] /\ th[t].pc = "idle"
        BY <3>1, <3>2, <3>3 DEF Become, Call
      <3> QED BY <3>4, <3>5
    <2> QED BY <2>1, <2>2
  <1>2. UNCHANGED <<ent, ids, stored, file, up>>
    BY DEF Receive, Call
  <1>3. left' \in [ctl : 0..Commands, fuse : 0..Calls]
    <2>1. PICK a \in 0..Commands, b \in 0..Calls : left = [ctl |-> a, fuse |-> b]
      BY InvTypes
    <2>2. a \in Nat /\ b \in Nat /\ Commands \in Nat /\ Calls \in Nat
      BY EntriesAssumption
    <2>3. CASE Receive
      <3>1. a > 0 /\ left' = [left EXCEPT !.ctl = @ - 1]
        BY <2>1, <2>3 DEF Receive
      <3>2. left' = [ctl |-> a - 1, fuse |-> b] /\ a - 1 \in 0..Commands
        BY <2>1, <2>2, <3>1
      <3> QED BY <3>2
    <2>4. CASE \E t_1 \in Thread : Call(t_1)
      <3>1. b > 0 /\ left' = [left EXCEPT !.fuse = @ - 1]
        BY <2>1, <2>4 DEF Call
      <3>2. left' = [ctl |-> a, fuse |-> b - 1] /\ b - 1 \in 0..Calls
        BY <2>1, <2>2, <3>1
      <3> QED BY SMTT(30), <3>2
    <2> QED BY <2>3, <2>4
  <1>4. KnowsRequest(l) /\ l.obj \notin Obj
    BY <1>1, EntriesAssumption DEF KnowsRequest
  <1>5. /\ th' \in [Thread -> Local] /\ ent' \in [Obj -> Entry]
        /\ \A u \in Thread : Knows(u)'
        /\ OnlyCtlOpens' /\ OneFreer'
        /\ \A p \in Obj : EntryOK(p, ent[p])'
    <2>1. /\ l.pc \in {"idle", "find", "add", "delete"}
          /\ th[t].pc \notin {"free", "init", "check", "delete"}
          /\ ent' = ent /\ ids' = ids
      BY <1>1, <1>2
    <2> QED BY <1>1, <1>4, <2>1, ThreadStep
  <1>6. HandleValid'
    BY <1>2, HandleStays
  <1> QED BY <1>2, <1>3, <1>5, <1>6, InvTypes, AllTogether

(* fuse_io_destroy: every partition is closed. *)
LEMMA UnmountInv ==
  ASSUME EntriesInv, Unmount
  PROVE  EntriesInv'
  <1> DEFINE gone == [Blank EXCEPT !.mem = "freed"]
  <1>1. gone \in Entry /\ gone.mem = "freed" /\ ~ gone.dev /\ ~ gone.to_be_deleted
    BY BlankTypes DEF Blank
  <1> HIDE DEF gone
  <1>2. /\ ent' = [o \in Obj |-> IF ent[o].mem = "linked" THEN gone ELSE ent[o]]
        /\ ids' = [k \in Key |-> None]
        /\ stored' = stored \cup {ent[o].key : o \in {o \in Obj :
                              ent[o].mem = "linked" /\ ent[o].updated}}
        /\ up' = FALSE /\ UNCHANGED <<th, file, left>>
        /\ \A t \in Thread : th[t].pc = "idle"
        /\ \A n \in Name : file[n] = "closed"
    BY DEF Unmount, gone
  <1>3. \A t \in Thread : th[t] = Idle /\ Idle.obj \notin Obj /\ Idle.pc = "idle"
    BY <1>2, EntriesAssumption DEF EntriesInv, Knows, KnowsRequest, Idle
  <1>4. \A p \in Obj : ent[p].dev /\ ent[p].mem # "linked" => FALSE
    BY <1>2 DEF EntriesInv, EntryOK
  <1>5. \A p \in Obj : ent[p].mem = "linked" => ent[p].dev
    BY <1>2 DEF EntriesInv, EntryOK, Thread
  <1>6. stored' \subseteq Key
    BY <1>2, <1>5, InvTypes DEF EntriesInv, EntryOK
  <1>7. ent' \in [Obj -> Entry] /\ ids' \in [Key -> Obj \cup {None}]
    BY <1>1, <1>2, InvTypes
  <1>8. \A u \in Thread : Knows(u)'
    BY <1>2, <1>3 DEF EntriesInv, Knows
  <1>9. OnlyCtlOpens' /\ OneFreer'
    BY <1>2 DEF EntriesInv, OnlyCtlOpens, OneFreer, Thread
  <1>10. ASSUME NEW p \in Obj PROVE EntryOK(p, ent[p])'
    <2>1. CASE ent[p].mem = "linked"
      BY <1>1, <1>2, <2>1 DEF EntryOK
    <2>2. CASE ent[p].mem # "linked"
      <3>1. ~ ent[p].dev /\ ent'[p] = ent[p]
        BY <1>2, <1>4, <2>2
      <3> QED BY <2>2, <3>1 DEF EntriesInv, EntryOK
    <2> QED BY <2>1, <2>2
  <1>11. HandleValid'
    BY <1>2 DEF HandleValid
  <1> QED BY <1>2, <1>6, <1>7, <1>8, <1>9, <1>10, <1>11, InvTypes, AllTogether

(* Every step keeps the invariant. *)
LEMMA NextInv ==
  ASSUME EntriesInv, [EntriesNext]_vars
  PROVE  EntriesInv'
  <1>1. CASE Receive
    BY <1>1, RequestInv
  <1>2. ASSUME NEW t \in Thread, Call(t) PROVE EntriesInv'
    BY <1>2, RequestInv
  <1>3. ASSUME NEW t \in Thread, Step(t) PROVE EntriesInv'
    <2>1. CASE Find(t)
      BY <2>1, FindInv
    <2>2. CASE DoublyLock(t)
      BY <2>2, DiedInv DEF DoublyLock
    <2>3. CASE Look(t)
      BY <2>3, StoreSame DEF Look, In
    <2>4. CASE FuseOpen(t)
      BY <2>4, FuseOpenInv
    <2>5. CASE ReadWrite(t)
      BY <2>5, ReadWriteInv
    <2>6. CASE Release(t)
      BY <2>6, ReleaseInv
    <2>7. CASE Set(t)
      BY <2>7, SetInv
    <2>8. CASE Close(t)
      BY <2>8, CloseInv
    <2>9. CASE Resize(t)
      BY <2>9, ResizeInv
    <2>10. CASE Add(t)
      BY <2>10, AddInv
    <2>11. CASE InitDevice(t)
      BY <2>11, InitDeviceInv
    <2>12. CASE Check(t)
      BY <2>12, CheckInv
    <2>13. CASE Delete(t)
      BY <2>13, DeleteInv
    <2>14. CASE FreeDevice(t) \/ Forget(t)
      BY <2>14, FreeInv
    <2> QED BY <1>3, <2>1, <2>2, <2>3, <2>4, <2>5, <2>6, <2>7, <2>8, <2>9,
               <2>10, <2>11, <2>12, <2>13, <2>14 DEF Step
  <1>4. CASE Unmount
    BY <1>4, UnmountInv
  <1>5. CASE Restart
    <2>1. up' = TRUE /\ UNCHANGED <<ent, ids, stored, th, file, left>>
      BY <1>5 DEF Restart
    <2> QED BY <2>1 DEF EntriesInv, EntriesTypeOK, Knows, OnlyCtlOpens,
                        OneFreer, EntryOK, HandleValid, Linked
  <1>6. CASE UNCHANGED vars
    BY <1>6 DEF vars, EntriesInv, EntriesTypeOK, Knows, OnlyCtlOpens,
                OneFreer, EntryOK, HandleValid, Linked
  <1> QED BY <1>1, <1>2, <1>3, <1>4, <1>5, <1>6 DEF EntriesNext

----------------------------------------------------------------------------
(* The inductive invariant holds in every behaviour. *)
THEOREM EntriesInvariant == EntriesSpec => []EntriesInv
  <1>1. EntriesInit => EntriesInv
    BY InitInv
  <1>2. EntriesInv /\ [EntriesNext]_vars => EntriesInv'
    BY NextInv
  <1> QED BY <1>1, <1>2, PTL DEF EntriesSpec

(* The variables keep their types; in particular the counter inuse never   *)
(* exceeds one and never becomes negative (fuse_io_open, fuse_io_release). *)
THEOREM EntriesTypeCorrect == EntriesSpec => []EntriesTypeOK
  <1>1. EntriesInv => EntriesTypeOK
    BY DEF EntriesInv
  <1> QED BY <1>1, EntriesInvariant, PTL

(* Two devices with one cipher and key are never open at once, however     *)
(* opening, closing and closing on release interleave.                     *)
THEOREM KeysAreExclusive == EntriesSpec => []KeyExclusive
  <1>1. EntriesInv => KeyExclusive
    BY DEF EntriesInv, KeyExclusive, EntryOK
  <1> QED BY <1>1, EntriesInvariant, PTL

(* The entry of an open file is in the table, in use, not marked, and      *)
(* writable if the file is open for writing.                               *)
THEOREM HandlesStayValid == EntriesSpec => []HandleValid
  <1>1. EntriesInv => HandleValid
    BY DEF EntriesInv
  <1> QED BY <1>1, EntriesInvariant, PTL
============================================================================
