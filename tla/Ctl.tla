-------------------------------- MODULE Ctl --------------------------------
(***************************************************************************)
(* The local commands of scubed3ctl (src/src/scubed3ctl.c): open, create,  *)
(* resize, mke2fs, mount, chown and umount are each several commands to    *)
(* the daemon with a shell command between them.  The daemon answers one   *)
(* command at a time and serves one client at a time; while the client is  *)
(* between two commands the kernel releases files, somebody mounts and     *)
(* unmounts by hand, and the client may be killed, which does not end a    *)
(* mke2fs it started.                                                      *)
(*                                                                         *)
(* One exchange with the daemon is one step here: ControlProtocol.tla      *)
(* takes it apart, Entries.tla does so with the life of an entry.  What a  *)
(* partition holds on disk is not kept: opening one finds any number of    *)
(* macroblocks.  Nobody mounts on a directory that is mounted on already,  *)
(* and the commands that the client sends by itself (set-aux and those     *)
(* that end in -internal) are not typed at its prompt.                     *)
(***************************************************************************)
EXTENDS Integers

CONSTANTS
  Name,    \* partitions
  Place,   \* directories to mount on
  None,    \* no partition, no directory
  Total    \* priv->no_macroblocks, from static-info

ASSUME CtlAssumption ==
  /\ Total \in Nat \ {0}
  /\ None \notin Name \cup Place

VARIABLES
  ent,     \* the daemon's entries
  mnt,     \* what is mounted on a directory
  file,    \* for each partition what the kernel has under way with its file
  client,  \* scubed3ctl
  raced    \* history: entries whose mountpoint was noted after it was gone

ctlVars == <<ent, mnt, file, client, raced>>

Closed == [open |-> FALSE, size |-> 0, inuse |-> 0, mountpoint |-> None,
           close_on_release |-> FALSE]

(* mke2fs: how many processes format the partition; release: how many of   *)
(* its files are closed and fuse_io_release has not been called yet; size: *)
(* how large the partition was when the file was opened.                   *)
NoFile == [mke2fs |-> 0, release |-> 0, size |-> 0]

(* option: started with -c; status: result.status; answer: what info or    *)
(* get-aux told; number: what was typed.  done, quiet: history of this     *)
(* command: it had its effect; it was given up without touching            *)
(* exit_status.                                                            *)
Away == [pc |-> "away", option |-> FALSE, exit_status |-> "success",
         status |-> 0, op |-> "none", name |-> None, place |-> None,
         number |-> 0, answer |-> None, done |-> FALSE, quiet |-> FALSE]

(* How each command begins. *)
First == [open |-> "check", create |-> "check", resize |-> "info",
          mke2fs |-> "info", mount |-> "info", chown |-> "get-aux",
          umount |-> "get-aux", umountPlace |-> "system", close |-> "close"]

Client ==
  [pc : {"away", "prompt", "over", "check", "getpass", "internal", "info",
         "set-close", "get-aux", "set-aux", "ask", "resize", "close",
         "system", "formatting"},
   option : BOOLEAN, exit_status : {"success", "failure"}, status : {0, -1},
   op : DOMAIN First \cup {"none"}, name : Name \cup {None},
   place : Place \cup {None}, number : -1..(Total + 1),
   answer : Place \cup {None} \cup 0..Total, done : BOOLEAN,
   quiet : BOOLEAN]

CtlTypeOK ==
  /\ ent \in [Name -> [open : BOOLEAN, size : 0..Total, inuse : 0..1,
                       mountpoint : Place \cup {None},
                       close_on_release : BOOLEAN]]
  /\ mnt \in [Place -> Name \cup {None}]
  /\ file \in [Name -> [mke2fs : 0..1, release : 0..1, size : 0..Total]]
  /\ client \in Client
  /\ raced \subseteq Name

CtlInit ==
  /\ ent = [n \in Name |-> Closed]
  /\ mnt = [p \in Place |-> None]
  /\ file = [n \in Name |-> NoFile]
  /\ client = Away
  /\ raced = {}

----------------------------------------------------------------------------
(* The file of a partition, seen by the kernel. *)

(* fuse_io_open; Entries.tla has the moments in which an entry that is to  *)
(* be deleted is still found.                                              *)
FuseOpens_bad(n) == ent[n].open

FuseOpens(n) == ent[n].open /\ ent[n].inuse = 0

(* The partition's file is opened, and k tells what for. *)
OpenFile(n, k) ==
  /\ FuseOpens(n)
  /\ ent' = [ent EXCEPT ![n].inuse = @ + 1]
  /\ file' = [file EXCEPT ![n] = [k EXCEPT !.size = ent[n].size]]

(* fuse_io_release: forgets the mountpoint, and the whole entry when it is *)
(* closed on release.                                                      *)
Released_bad(e) == IF e.close_on_release THEN Closed
                   ELSE [e EXCEPT !.inuse = @ - 1]

Released(e) == IF e.close_on_release THEN Closed
               ELSE [e EXCEPT !.inuse = @ - 1, !.mountpoint = None]

Release(n) ==
  /\ file[n].release > 0
  /\ file' = [file EXCEPT ![n].release = @ - 1]
  /\ ent' = IF ent[n].open THEN [ent EXCEPT ![n] = Released(@)] ELSE ent
  /\ raced' = raced \ {n}
  /\ UNCHANGED <<mnt, client>>

(* The file system on p is unmounted; the loop device closes the file. *)
Unmounts(p) ==
  /\ mnt[p] # None
  /\ mnt' = [mnt EXCEPT ![p] = None]
  /\ file' = [file EXCEPT ![mnt[p]].release = @ + 1]

MountByHand ==
  /\ \E n \in Name, p \in Place :
       /\ mnt[p] = None
       /\ OpenFile(n, file[n])
       /\ mnt' = [mnt EXCEPT ![p] = n]
  /\ UNCHANGED <<client, raced>>

UmountByHand ==
  /\ \E p \in Place : Unmounts(p)
  /\ UNCHANGED <<ent, client, raced>>

----------------------------------------------------------------------------
(* scubed3ctl: the loop in main and the common ends of its commands. *)

World == <<ent, mnt, file, raced>>

(* The command is over; with -c there is no other. *)
Ended(c) == [c EXCEPT !.pc = IF c.option THEN "over" ELSE "prompt"]

(* A command that is given up by the client itself. *)
GivenUp(c) == Ended([c EXCEPT !.quiet = TRUE])

(* do_server_command: result.status is this answer's, exit_status any's. *)
Answered(c, ok) ==
  [c EXCEPT !.status = IF ok THEN 0 ELSE -1,
            !.exit_status = IF ok THEN @ ELSE "failure"]

(* vvar_system *)
VarSystem(c, ok) == [c EXCEPT !.exit_status = IF ok THEN @ ELSE "failure"]

At(pc, ops) == client.pc = pc /\ client.op \in ops

(* main connects, asks for static-info and starts its loop. *)
Connect ==
  /\ client.pc = "away"
  /\ \E o \in BOOLEAN : client' = [Away EXCEPT !.pc = "prompt", !.option = o]
  /\ UNCHANGED World

(* ctl_call and do_local_command: a command with a wrong number of         *)
(* arguments, help, a mountpoint without a slash, a chown of a path; or    *)
(* any other command.                                                      *)
Type ==
  /\ client.pc = "prompt"
  /\ LET c == [Away EXCEPT !.option = client.option,
                           !.exit_status = client.exit_status]
     IN  \/ client' = GivenUp(c)
         \/ \E op \in DOMAIN First, n \in Name, p \in Place,
               i \in -1..(Total + 1) :
              /\ op \notin {"mount", "umountPlace"} =>
                   p = CHOOSE q \in Place : TRUE
              /\ op # "resize" => i = 0
              /\ client' = [c EXCEPT !.op = op, !.name = n, !.place = p,
                                     !.number = i, !.pc = First[op]]
  /\ UNCHANGED World

(* exit, or the end of main after the command of -c. *)
Leave ==
  /\ \/ client.pc = "over"
     \/ client.pc = "prompt" /\ ~ client.option
  /\ client' = Away
  /\ UNCHANGED World

(* The client is killed; the daemon notices and accepts the next one. *)
Kill ==
  /\ client.pc # "away"
  /\ client' = Away
  /\ UNCHANGED World

----------------------------------------------------------------------------
(* Commands to the daemon. *)

(* ctl_open_create_common, check-available *)
CheckAvailable ==
  /\ client.pc = "check"
  /\ LET ok == ~ ent[client.name].open
         c == Answered(client, ok)
     IN  client' = IF ok THEN [c EXCEPT !.pc = "getpass"] ELSE Ended(c)
  /\ UNCHANGED World

(* The passphrase is read; a new one has to be typed twice.  Without a     *)
(* terminal ctl_open_create_common returns -1, which ctl_mount overlooks.  *)
GetPass ==
  /\ client.pc = "getpass"
  /\ \/ client' = [client EXCEPT !.pc = "internal"]
     \/ /\ client.op = "create"
        /\ client' = Ended([client EXCEPT !.exit_status = "failure"])
     \/ client' = IF client.op = "mount"
                  THEN [client EXCEPT !.pc = "set-close"]
                  ELSE [GivenUp(client) EXCEPT !.pc = "over"]
  /\ UNCHANGED World

(* open-internal and create-internal: blocks are found, or not. *)
Opened(s) == [open |-> TRUE, size |-> s, inuse |-> 0, mountpoint |-> None,
              close_on_release |-> FALSE]

OpenInternal ==
  /\ client.pc = "internal"
  /\ \/ /\ ent' = [ent EXCEPT ![client.name] = Opened(0)]
        /\ client.op = "create"
        /\ client' = Ended([Answered(client, TRUE) EXCEPT !.done = TRUE])
     \/ /\ \E s \in 1..Total : ent' = [ent EXCEPT ![client.name] = Opened(s)]
        /\ client.op \in {"open", "mount"}
        /\ client' = IF client.op = "mount"
                     THEN [Answered(client, TRUE) EXCEPT !.pc = "set-close"]
                     ELSE Ended([Answered(client, TRUE) EXCEPT !.done = TRUE])
     \/ /\ client' = Ended(Answered(client, FALSE))
        /\ UNCHANGED ent
  /\ UNCHANGED <<mnt, file, raced>>

(* info: ctl_resize, ctl_mke2fs and ctl_mount ask whether the partition is *)
(* open; ctl_mount opens it when it is not, and takes the error back.      *)
TakenBack_bad(c) == c

TakenBack(c) == [c EXCEPT !.exit_status = "success"]

Info ==
  /\ client.pc = "info"
  /\ LET e == ent[client.name]
         c == [Answered(client, e.open) EXCEPT !.answer = e.size]
     IN  client' =
           CASE ~ e.open /\ c.op = "mount" ->
                  [TakenBack(c) EXCEPT !.pc = "check"]
             [] ~ e.open /\ c.op # "mount" -> Ended(c)
             [] e.open -> [c EXCEPT !.pc = CASE c.op = "resize" -> "ask"
                                             [] c.op = "mke2fs" -> "get-aux"
                                             [] c.op = "mount" -> "system"]
  /\ UNCHANGED World

(* set-close-on-release NAME 1, before the file system is mounted *)
SetCloseOnRelease ==
  /\ client.pc = "set-close"
  /\ LET ok == ent[client.name].open
         c == Answered(client, ok)
     IN  /\ client' = IF ok THEN [c EXCEPT !.pc = "system"] ELSE Ended(c)
         /\ ent' = IF ok THEN [ent EXCEPT ![client.name].close_on_release = TRUE]
                   ELSE ent
  /\ UNCHANGED <<mnt, file, raced>>

(* get-aux NAME mountpoint: ctl_mke2fs goes on when it is an error. *)
GetAux ==
  /\ client.pc = "get-aux"
  /\ LET p == ent[client.name].mountpoint
         c == [Answered(client, p # None) EXCEPT !.answer = p]
     IN  client' = IF client.op = "mke2fs"
                   THEN IF p = None THEN [c EXCEPT !.pc = "system"]
                        ELSE GivenUp(c)
                   ELSE IF p = None THEN Ended(c)
                        ELSE [c EXCEPT !.pc = "system"]
  /\ UNCHANGED World

(* set-aux NAME mountpoint PLACE, the end of ctl_mount. *)
SetAux ==
  /\ client.pc = "set-aux"
  /\ LET n == client.name
         ok == ent[n].open
     IN  /\ client' = Ended([Answered(client, ok) EXCEPT !.done = ok])
         /\ ent' = IF ok THEN [ent EXCEPT ![n].mountpoint = client.place]
                   ELSE ent
         /\ raced' = IF ~ ok \/ mnt[client.place] = n \/ file[n].release > 0
                     THEN raced \ {n} ELSE raced \cup {n}
  /\ UNCHANGED <<mnt, file>>

(* ctl_resize: the checks of the client and its question. *)
ReservedFor(i) == IF i > 0 THEN (i - 1) \div 4 + 1 ELSE 0

Ask ==
  /\ client.pc = "ask"
  /\ \/ client' = GivenUp(client)   \* No
     \/ /\ client.number # client.answer
        /\ client.number \in 0..Total
        /\ client' = [client EXCEPT !.pc = "resize"]
     \/ client' = Ended([client EXCEPT !.exit_status = "failure"])
                                    \* parse_int: not a number
  /\ UNCHANGED World

(* resize-internal: a partition that is in use is not resized, one that is *)
(* not larger afterwards neither; there may not be enough unclaimed blocks.*)
Resizable(e, i, r) ==
  e.open /\ e.inuse = 0 /\ r <= i /\ i > e.size /\ i <= Total

ResizeInternal ==
  /\ client.pc = "resize"
  /\ LET n == client.name
     IN  \/ /\ Resizable(ent[n], client.number, ReservedFor(client.number))
            /\ ent' = [ent EXCEPT ![n].size = client.number]
            /\ client' = Ended([Answered(client, TRUE) EXCEPT !.done = TRUE])
         \/ /\ client' = Ended(Answered(client, FALSE))
            /\ UNCHANGED ent
  /\ UNCHANGED <<mnt, file, raced>>

(* close, typed at the prompt *)
Closable_bad(e) == e.open

Closable(e) == e.open /\ e.inuse = 0

Close ==
  /\ client.pc = "close"
  /\ LET n == client.name
         ok == Closable(ent[n])
     IN  /\ client' = Ended([Answered(client, ok) EXCEPT !.done = ok])
         /\ ent' = IF ok THEN [ent EXCEPT ![n] = Closed] ELSE ent
         /\ raced' = IF ok THEN raced \ {n} ELSE raced
  /\ UNCHANGED <<mnt, file>>

----------------------------------------------------------------------------
(* Shell commands. *)

Failed(c) == Ended(VarSystem(c, FALSE))

Succeeded(c) == Ended([VarSystem(c, TRUE) EXCEPT !.done = TRUE])

(* mount -o loop: opens the file and mounts it; opens it, finds no file    *)
(* system or no directory and closes it; or does not get that far.         *)
SystemMount ==
  /\ At("system", {"mount"})
  /\ LET n == client.name
     IN  \/ /\ mnt[client.place] = None
            /\ OpenFile(n, file[n])
            /\ mnt' = [mnt EXCEPT ![client.place] = n]
            /\ client' = [VarSystem(client, TRUE) EXCEPT !.pc = "set-aux"]
         \/ /\ OpenFile(n, [file[n] EXCEPT !.release = @ + 1])
            /\ client' = Failed(client)
            /\ UNCHANGED mnt
         \/ /\ client' = Failed(client)
            /\ UNCHANGED <<ent, mnt, file>>
  /\ UNCHANGED raced

(* mke2fs -F: opens the file, or cannot. *)
SystemMke2fs ==
  /\ At("system", {"mke2fs"})
  /\ LET n == client.name
     IN  \/ /\ OpenFile(n, [file[n] EXCEPT !.mke2fs = @ + 1])
            /\ client' = [client EXCEPT !.pc = "formatting"]
         \/ /\ client' = Failed(client)
            /\ UNCHANGED <<ent, file>>
  /\ UNCHANGED <<mnt, raced>>

(* A process that formats n ends and closes the file.  The client that     *)
(* waits for it goes on; the one that started it may have been killed.     *)
Mke2fsEnds(n) ==
  /\ file[n].mke2fs > 0
  /\ file' = [file EXCEPT ![n] = [mke2fs |-> @.mke2fs - 1,
                                  release |-> @.release + 1, size |-> @.size]]
  /\ IF client.pc = "formatting" /\ client.name = n
     THEN client' \in {Succeeded(client), Failed(client)}
     ELSE UNCHANGED client
  /\ UNCHANGED <<ent, mnt, raced>>

SystemChown ==
  /\ At("system", {"chown"})
  /\ client' \in {Succeeded(client), Failed(client)}
  /\ UNCHANGED World

(* ctl_umount: of the mountpoint that the daemon knows, or of a directory. *)
SystemUmount ==
  /\ At("system", {"umount", "umountPlace"})
  /\ \/ /\ Unmounts(IF client.op = "umount" THEN client.answer
                    ELSE client.place)
        /\ client' = Succeeded(client)
     \/ /\ client' = Failed(client)
        /\ UNCHANGED <<mnt, file>>
  /\ UNCHANGED <<ent, raced>>

----------------------------------------------------------------------------
CtlNext ==
  \/ Connect \/ Type \/ Leave \/ Kill
  \/ CheckAvailable \/ GetPass \/ OpenInternal
  \/ Info \/ SetCloseOnRelease \/ GetAux \/ SetAux
  \/ Ask \/ ResizeInternal \/ Close
  \/ SystemMount \/ SystemMke2fs \/ SystemChown \/ SystemUmount
  \/ MountByHand \/ UmountByHand
  \/ \E n \in Name : Release(n) \/ Mke2fsEnds(n)

CtlSpec == CtlInit /\ [][CtlNext]_ctlVars

----------------------------------------------------------------------------
(* Properties. *)

(* A partition has at most one user: a file system that is mounted, a      *)
(* mke2fs, or a file that is closed and not released yet.  While it has    *)
(* one it stays open and keeps its size.  get-aux cannot give that to      *)
(* ctl_mke2fs (a partition that was mounted by hand, or by a client that   *)
(* was killed before set-aux, has no mountpoint): what protects the file   *)
(* system is inuse, in fuse_io_open, control_resize and control_close.     *)
OneUser ==
  \A n \in Name :
    /\ ent[n].inuse = (IF \E p \in Place : mnt[p] = n THEN 1 ELSE 0)
                      + file[n].mke2fs + file[n].release
    /\ ent[n].inuse <= 1
    /\ ent[n].inuse = 1 => ent[n].open /\ ent[n].size = file[n].size
    /\ \A p, q \in Place : mnt[p] = n /\ mnt[q] = n => p = q

(* The mountpoint that the daemon tells for a partition is where it is     *)
(* mounted, so that ctl_umount unmounts this partition and no other.  The  *)
(* exceptions: fuse_io_release is still to come, and it clears the         *)
(* mountpoint; or the partition was unmounted and released before          *)
(* ctl_mount came to set-aux, which notes a mountpoint that nothing clears.*)
MountpointTrue ==
  \A n \in Name : ent[n].mountpoint # None =>
    mnt[ent[n].mountpoint] = n \/ file[n].release > 0 \/ n \in raced

(* "the exit status of scubed3ctl must match the exit status of the        *)
(* command that was requested using -c": success is told of a command that *)
(* had its effect, or that the client gave up by itself (wrong arguments,  *)
(* an answer of No, no terminal, mke2fs of a mounted partition); failure   *)
(* of one that had not, or of mke2fs, which needs an error from get-aux.   *)
ExitTruthful ==
  client.pc = "over" /\ client.option =>
    /\ client.exit_status = "success" => client.done \/ client.quiet
    /\ client.exit_status = "failure" => ~ client.done \/ client.op = "mke2fs"
============================================================================
