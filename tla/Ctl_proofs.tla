----------------------------- MODULE Ctl_proofs -----------------------------
(***************************************************************************)
(* Proofs about Ctl.tla, for any partitions, directories and number of     *)
(* macroblocks.                                                            *)
(***************************************************************************)
EXTENDS Ctl, TLAPS

(* A command is under way. *)
Busy == client.pc \notin {"away", "prompt", "over"}

(* What the steps of a command rely on: it names a partition and a         *)
(* directory, only some commands ask for info and only mount sets          *)
(* close-on-release, a partition that is about to be opened has not been   *)
(* opened since it was asked for, and umount got a directory as its answer.*)
ClientReady ==
  /\ Busy => client.name \in Name /\ client.place \in Place
  /\ client.pc = "info" => client.op \in {"resize", "mke2fs", "mount"}
  /\ client.pc = "set-close" => client.op = "mount"
  /\ client.pc \in {"getpass", "internal"} => ~ ent[client.name].open
  /\ client.pc = "system" /\ client.op = "umount" => client.answer \in Place

(* With -c nothing has failed yet while the command is under way, but for  *)
(* mke2fs.                                                                 *)
StatusSound ==
  /\ client.pc = "prompt" /\ client.option => client.exit_status = "success"
  /\ Busy => ~ client.done
  /\ Busy /\ client.option /\ client.exit_status = "failure" =>
       client.op = "mke2fs"
  /\ ExitTruthful

(* Nothing is known of a partition that is not open. *)
NothingKnown == \A n \in Name : ~ ent[n].open => ent[n].mountpoint = None

CtlInv == /\ CtlTypeOK /\ OneUser /\ MountpointTrue /\ NothingKnown
          /\ ClientReady /\ StatusSound

----------------------------------------------------------------------------
(* No partition is open and no client is there at the start.               *)
LEMMA InitInv == CtlInit => CtlInv
  BY CtlAssumption DEF CtlInit, CtlInv, CtlTypeOK, OneUser, MountpointTrue,
     NothingKnown, ClientReady, StatusSound, ExitTruthful, Busy, Closed, NoFile, Away, Client,
     First

(* Steps that leave the world alone need only care for the client. *)
LEMMA ClientOnly ==
  ASSUME CtlInv, UNCHANGED World, client' \in Client, ClientReady', StatusSound'
  PROVE  CtlInv'
  BY DEF CtlInv, CtlTypeOK, OneUser, MountpointTrue, NothingKnown, World

----------------------------------------------------------------------------
(* What the end of a command needs: nothing of the world. *)
LEMMA EndsWell ==
  ASSUME NEW c \in Client, client' = Ended(c),
         c.exit_status = "success" => c.done \/ c.quiet \/ ~ c.option,
         c.exit_status = "failure" => ~ c.done \/ c.op = "mke2fs" \/ ~ c.option
  PROVE  client' \in Client /\ ClientReady' /\ StatusSound'
<1>1. /\ client' \in Client
      /\ client'.pc = (IF c.option THEN "over" ELSE "prompt")
      /\ client'.option = c.option /\ client'.exit_status = c.exit_status
      /\ client'.op = c.op /\ client'.done = c.done /\ client'.quiet = c.quiet
  BY DEF Ended, Client
<1>2. c.option \in BOOLEAN
  BY DEF Client
<1>. QED
  BY <1>1, <1>2 DEF ClientReady, StatusSound, ExitTruthful, Busy

(* What a step inside a command needs. *)
LEMMA GoesOn ==
  ASSUME NEW c \in Client, client' = c,
         c.pc \notin {"away", "prompt", "over"},
         c.name \in Name, c.place \in Place, ~ c.done,
         c.exit_status = "failure" => c.op = "mke2fs" \/ ~ c.option,
         c.pc = "info" => c.op \in {"resize", "mke2fs", "mount"},
         c.pc = "set-close" => c.op = "mount",
         c.pc \in {"getpass", "internal"} => ~ ent'[c.name].open,
         c.pc = "system" /\ c.op = "umount" => c.answer \in Place
  PROVE  client' \in Client /\ ClientReady' /\ StatusSound'
  BY DEF ClientReady, StatusSound, ExitTruthful, Busy

(* The same, for a record that only gets another pc.                       *)
LEMMA GoesTo ==
  ASSUME NEW c \in Client,
         NEW q \in {"check", "getpass", "internal", "set-close", "get-aux",
                    "set-aux", "ask", "resize", "system", "formatting"},
         client' = [c EXCEPT !.pc = q],
         c.name \in Name, c.place \in Place, c.done = FALSE,
         c.exit_status = "failure" => c.op = "mke2fs" \/ ~ c.option,
         q = "set-close" => c.op = "mount",
         q \in {"getpass", "internal"} => ~ ent'[c.name].open,
         q = "system" /\ c.op = "umount" => c.answer \in Place
  PROVE  client' \in Client /\ ClientReady' /\ StatusSound'
<1>. DEFINE d == [c EXCEPT !.pc = q]
<1>1. d \in Client /\ d.pc = q /\ d.exit_status = c.exit_status
      /\ d.option = c.option /\ d.op = c.op /\ d.name = c.name
      /\ d.place = c.place /\ d.done = c.done /\ d.answer = c.answer
  BY DEF Client
<1>2. client' = d
  OBVIOUS
<1>. HIDE DEF d
<1>. QED
  BY <1>1, <1>2, GoesOn

(* The ends of a command: with its effect or not, given up, failed. *)
LEMMA EndsDone ==
  ASSUME NEW c \in Client, NEW b \in BOOLEAN,
         client' = Ended([c EXCEPT !.done = b]),
         c.exit_status = "success" => b,
         c.exit_status = "failure" => ~ b \/ c.op = "mke2fs" \/ ~ c.option
  PROVE  client' \in Client /\ ClientReady' /\ StatusSound'
<1>. DEFINE d == [c EXCEPT !.done = b]
<1>1. d \in Client /\ d.exit_status = c.exit_status /\ d.option = c.option
      /\ d.op = c.op /\ d.done = b
  BY DEF Client
<1>2. client' = Ended(d)
  OBVIOUS
<1>. HIDE DEF d
<1>. QED
  BY <1>1, <1>2, EndsWell

(* A command that the client gives up by itself.                           *)
LEMMA EndsQuiet ==
  ASSUME NEW c \in Client, c.done = FALSE, client' = GivenUp(c)
  PROVE  client' \in Client /\ ClientReady' /\ StatusSound'
<1>. DEFINE d == [c EXCEPT !.quiet = TRUE]
<1>1. d \in Client /\ d.quiet = TRUE /\ d.done = FALSE
  BY DEF Client
<1>2. client' = Ended(d)
  BY DEF GivenUp
<1>. HIDE DEF d
<1>. QED
  BY <1>1, <1>2, EndsWell

(* A command that fails before it has had an effect.                       *)
LEMMA EndsFailed ==
  ASSUME NEW c \in Client, c.done = FALSE,
         client' = Ended([c EXCEPT !.exit_status = "failure"])
  PROVE  client' \in Client /\ ClientReady' /\ StatusSound'
<1>. DEFINE d == [c EXCEPT !.exit_status = "failure"]
<1>1. d \in Client /\ d.exit_status = "failure" /\ d.done = FALSE
  BY DEF Client
<1>2. client' = Ended(d)
  OBVIOUS
<1>. HIDE DEF d
<1>. QED
  BY <1>1, <1>2, EndsWell

(* What is known of the client while a command is under way. *)
LEMMA BusyFacts ==
  ASSUME CtlInv, Busy
  PROVE  /\ client \in Client /\ client.name \in Name /\ client.place \in Place
         /\ client.done = FALSE
         /\ client.exit_status = "failure" =>
              client.op = "mke2fs" \/ ~ client.option
         /\ client.exit_status \in {"success", "failure"}
  BY DEF CtlInv, CtlTypeOK, ClientReady, StatusSound, Client

(* An answer of the daemon changes the two statuses only. *)
LEMMA AnsweredFacts ==
  ASSUME NEW c \in Client, NEW ok \in BOOLEAN
  PROVE  /\ Answered(c, ok) \in Client
         /\ Answered(c, ok).exit_status = IF ok THEN c.exit_status ELSE "failure"
         /\ Answered(c, ok).pc = c.pc /\ Answered(c, ok).option = c.option
         /\ Answered(c, ok).op = c.op /\ Answered(c, ok).name = c.name
         /\ Answered(c, ok).place = c.place /\ Answered(c, ok).done = c.done
         /\ Answered(c, ok).quiet = c.quiet
  BY ZenonT(60) DEF Answered, Client

----------------------------------------------------------------------------
(* main: connecting starts with an exit_status of success.                 *)
LEMMA ConnectInv == CtlInv /\ Connect => CtlInv'
<1>. SUFFICES ASSUME CtlInv, Connect PROVE CtlInv'
  OBVIOUS
<1>0. PICK o \in BOOLEAN : client' = [Away EXCEPT !.pc = "prompt", !.option = o]
  BY DEF Connect
<1>a. Away \in Client
  BY CtlAssumption DEF Away, Client
<1>1. client' \in Client
  BY <1>0, <1>a DEF Client
<1>2. client'.pc = "prompt" /\ client'.exit_status = "success"
  BY <1>0 DEF Away
<1>3. ClientReady'
  BY <1>2 DEF ClientReady, Busy
<1>4. StatusSound'
  BY <1>2 DEF StatusSound, ExitTruthful, Busy
<1>. QED
  BY <1>1, <1>3, <1>4, ClientOnly DEF Connect

(* ctl_call: a command that starts has its arguments.                      *)
LEMMA TypeInv == CtlInv /\ Type => CtlInv'
<1>. SUFFICES ASSUME CtlInv, Type PROVE CtlInv'
  OBVIOUS
<1>. DEFINE c == [Away EXCEPT !.option = client.option,
                              !.exit_status = client.exit_status]
<1>0. client \in Client /\ client.pc = "prompt"
      /\ (client.option => client.exit_status = "success")
  BY DEF CtlInv, CtlTypeOK, StatusSound, Type
<1>1. c \in Client /\ c.option = client.option
      /\ c.exit_status = client.exit_status /\ c.done = FALSE
  <2>1. Away \in Client /\ Away.done = FALSE
    BY CtlAssumption DEF Away, Client
  <2>2. client.option \in BOOLEAN /\ client.exit_status \in {"success", "failure"}
    BY <1>0 DEF Client
  <2>. HIDE DEF Away
  <2>. QED
    BY <2>1, <2>2 DEF Client
<1>2. CASE client' = GivenUp(c)
  <2>1. [c EXCEPT !.quiet = TRUE] \in Client
        /\ [c EXCEPT !.quiet = TRUE].quiet = TRUE
        /\ [c EXCEPT !.quiet = TRUE].done = FALSE
    BY <1>1 DEF Client
  <2>2. client' \in Client /\ ClientReady' /\ StatusSound'
    BY <1>2, <2>1, EndsWell DEF GivenUp
  <2>. QED
    BY <2>2, ClientOnly DEF Type
<1>3. ASSUME NEW op \in DOMAIN First, NEW n \in Name, NEW p \in Place,
             NEW i \in -1..(Total + 1),
             client' = [c EXCEPT !.op = op, !.name = n, !.place = p,
                                 !.number = i, !.pc = First[op]],
             op # "resize" => i = 0
      PROVE  CtlInv'
  <2>. DEFINE d == [c EXCEPT !.op = op, !.name = n, !.place = p,
                             !.number = i, !.pc = First[op]]
  <2>1. First[op] \in {"check", "info", "get-aux", "system", "close"}
        /\ (op = "umount" => First[op] # "system")
        /\ (First[op] = "info" => op \in {"resize", "mke2fs", "mount"})
    BY DEF First
  <2>2. d \in Client
    BY <1>1, <2>1 DEF Client
  <2>3. d.pc = First[op] /\ d.op = op /\ d.name = n /\ d.place = p
        /\ d.done = FALSE /\ d.option = client.option
        /\ d.exit_status = client.exit_status
    BY <1>1 DEF Client
  <2>. HIDE DEF d
  <2>4. client' = d
    BY <1>3 DEF d
  <2>5. client' \in Client /\ ClientReady' /\ StatusSound'
    BY <1>0, <2>1, <2>2, <2>3, <2>4, GoesOn
  <2>. QED
    BY <2>5, ClientOnly DEF Type
<1>. QED
  BY <1>2, <1>3 DEF Type

(* The client may end or be killed at any moment.                          *)
LEMMA LeaveInv == CtlInv /\ (Leave \/ Kill) => CtlInv'
<1>. SUFFICES ASSUME CtlInv, Leave \/ Kill PROVE CtlInv'
  OBVIOUS
<1>1. Away \in Client /\ Away.pc = "away"
  BY CtlAssumption DEF Away, Client
<1>2. client' = Away /\ UNCHANGED World
  BY DEF Leave, Kill
<1>3. client' \in Client /\ ClientReady' /\ StatusSound'
  BY <1>1, <1>2 DEF ClientReady, StatusSound, ExitTruthful, Busy
<1>. QED
  BY <1>2, <1>3, ClientOnly

(* check-available: the passphrase is asked for only when it was closed.   *)
LEMMA CheckAvailableInv == CtlInv /\ CheckAvailable => CtlInv'
<1>. SUFFICES ASSUME CtlInv, CheckAvailable PROVE CtlInv'
  OBVIOUS
<1>. DEFINE ok == ~ ent[client.name].open
            c == Answered(client, ok)
<1>1. Busy
  BY DEF CheckAvailable, Busy
<1>2. c \in Client /\ c.exit_status = (IF ok THEN client.exit_status ELSE "failure")
      /\ c.option = client.option /\ c.op = client.op /\ c.name = client.name
      /\ c.place = client.place /\ c.done = FALSE
  BY <1>1, BusyFacts, AnsweredFacts
<1>3. client' = IF ok THEN [c EXCEPT !.pc = "getpass"] ELSE Ended(c)
  BY DEF CheckAvailable
<1>. HIDE DEF c
<1>4. CASE ok
  <2>1. ~ ent'[c.name].open
    BY <1>2, <1>4 DEF CheckAvailable, World
  <2>2. client' \in Client /\ ClientReady' /\ StatusSound'
    BY <1>1, <1>2, <1>3, <1>4, <2>1, BusyFacts, GoesTo
  <2>. QED
    BY <2>2, ClientOnly DEF CheckAvailable
<1>5. CASE ~ ok
  <2>1. client' \in Client /\ ClientReady' /\ StatusSound'
    BY <1>2, <1>3, <1>5, EndsWell
  <2>. QED
    BY <2>1, ClientOnly DEF CheckAvailable
<1>. QED
  BY <1>4, <1>5

(* ctl_open_create_common, up to the daemon's part of it.                  *)
LEMMA GetPassInv == CtlInv /\ GetPass => CtlInv'
<1>. SUFFICES ASSUME CtlInv, GetPass PROVE CtlInv'
  OBVIOUS
<1>1. Busy /\ ~ ent[client.name].open
  BY DEF GetPass, Busy, CtlInv, ClientReady
<1>2. ent' = ent /\ UNCHANGED World
  BY DEF GetPass, World
<1>3. CASE client' = [client EXCEPT !.pc = "internal"]
  BY <1>1, <1>2, <1>3, BusyFacts, GoesTo, ClientOnly
<1>4. CASE client.op = "mount" /\ client' = [client EXCEPT !.pc = "set-close"]
  BY <1>1, <1>2, <1>4, BusyFacts, GoesTo, ClientOnly
<1>5. CASE client' = Ended([client EXCEPT !.exit_status = "failure"])
  BY <1>1, <1>2, <1>5, BusyFacts, EndsFailed, ClientOnly
<1>6. CASE client' = [GivenUp(client) EXCEPT !.pc = "over"]
  <2>. DEFINE d == [client EXCEPT !.quiet = TRUE]
  <2>1. d \in Client /\ d.quiet = TRUE /\ d.done = FALSE
    BY <1>1, BusyFacts DEF Client
  <2>2. client' = [Ended(d) EXCEPT !.pc = "over"]
    BY <1>6 DEF GivenUp
  <2>. HIDE DEF d
  <2>3. client' \in Client /\ client'.pc = "over" /\ client'.quiet = TRUE
        /\ client'.done = FALSE
    BY <2>1, <2>2 DEF Ended, Client
  <2>4. ClientReady' /\ StatusSound'
    BY <2>3 DEF ClientReady, StatusSound, ExitTruthful, Busy
  <2>. QED
    BY <1>2, <2>3, <2>4, ClientOnly
<1>. QED
  BY <1>3, <1>4, <1>5, <1>6 DEF GetPass

(* ctl_resize: the question changes nothing.                               *)
LEMMA AskInv == CtlInv /\ Ask => CtlInv'
<1>. SUFFICES ASSUME CtlInv, Ask PROVE CtlInv'
  OBVIOUS
<1>1. Busy /\ UNCHANGED World
  BY DEF Ask, Busy
<1>2. CASE client' = GivenUp(client)
  BY <1>1, <1>2, BusyFacts, EndsQuiet, ClientOnly
<1>3. CASE client' = [client EXCEPT !.pc = "resize"]
  BY <1>1, <1>3, BusyFacts, GoesTo, ClientOnly
<1>4. CASE client' = Ended([client EXCEPT !.exit_status = "failure"])
  BY <1>1, <1>4, BusyFacts, EndsFailed, ClientOnly
<1>. QED
  BY <1>2, <1>3, <1>4 DEF Ask

(* info: ctl_mount goes on to open the partition, without an error.        *)
LEMMA InfoInv == CtlInv /\ Info => CtlInv'
<1>. SUFFICES ASSUME CtlInv, Info PROVE CtlInv'
  OBVIOUS
<1>. DEFINE e == ent[client.name]
            a == Answered(client, e.open)
            c == [a EXCEPT !.answer = e.size]
            r == [c EXCEPT !.exit_status = "success"]
<1>1. Busy /\ UNCHANGED World /\ client.op \in {"resize", "mke2fs", "mount"}
  BY DEF Info, Busy, CtlInv, ClientReady
<1>2. e.open \in BOOLEAN /\ e.size \in 0..Total
  BY <1>1, BusyFacts DEF CtlInv, CtlTypeOK
<1>3. a \in Client /\ a.exit_status = (IF e.open THEN client.exit_status ELSE "failure")
      /\ a.option = client.option /\ a.op = client.op /\ a.name = client.name
      /\ a.place = client.place /\ a.done = FALSE
  BY <1>1, <1>2, BusyFacts, AnsweredFacts
<1>4. client' =
        CASE ~ e.open /\ c.op = "mount" -> [r EXCEPT !.pc = "check"]
          [] ~ e.open /\ c.op # "mount" -> Ended(c)
          [] e.open -> [c EXCEPT !.pc = CASE c.op = "resize" -> "ask"
                                          [] c.op = "mke2fs" -> "get-aux"
                                          [] c.op = "mount" -> "system"]
  BY DEF Info, TakenBack
<1>. HIDE DEF a
<1>5. c \in Client /\ c.exit_status = a.exit_status /\ c.option = a.option
      /\ c.op = a.op /\ c.name = a.name /\ c.place = a.place /\ c.done = FALSE
  BY <1>2, <1>3 DEF Client
<1>. HIDE DEF c
<1>6. r \in Client /\ r.exit_status = "success" /\ r.option = c.option
      /\ r.op = c.op /\ r.name = c.name /\ r.place = c.place /\ r.done = FALSE
  BY <1>5 DEF Client
<1>. HIDE DEF r
<1>7. CASE ~ e.open /\ c.op = "mount"
  <2>1. client' = [r EXCEPT !.pc = "check"]
    BY <1>4, <1>7
  <2>2. client' \in Client /\ ClientReady' /\ StatusSound'
    BY <1>1, <1>3, <1>5, <1>6, <1>7, <2>1, BusyFacts, GoesTo
  <2>. QED
    BY <1>1, <2>2, ClientOnly
<1>8. CASE ~ e.open /\ c.op # "mount"
  <2>1. client' = Ended(c)
    BY <1>4, <1>8
  <2>2. client' \in Client /\ ClientReady' /\ StatusSound'
    BY <1>3, <1>5, <1>8, <2>1, EndsWell
  <2>. QED
    BY <1>1, <2>2, ClientOnly
<1>9. CASE e.open
  <2>1. PICK q \in {"ask", "get-aux", "system"} :
          client' = [c EXCEPT !.pc = q] /\ (q = "system" => c.op = "mount")
    BY <1>1, <1>3, <1>4, <1>5, <1>9
  <2>2. client' \in Client /\ ClientReady' /\ StatusSound'
    BY <1>1, <1>3, <1>5, <1>9, <2>1, BusyFacts, GoesTo
  <2>. QED
    BY <1>1, <2>2, ClientOnly
<1>. QED
  BY <1>2, <1>7, <1>8, <1>9

(* get-aux: umount and chown go on with a directory, mke2fs without one.   *)
LEMMA GetAuxInv == CtlInv /\ GetAux => CtlInv'
<1>. SUFFICES ASSUME CtlInv, GetAux PROVE CtlInv'
  OBVIOUS
<1>. DEFINE p == ent[client.name].mountpoint
            a == Answered(client, p # None)
            c == [a EXCEPT !.answer = p]
<1>1. Busy /\ UNCHANGED World
  BY DEF GetAux, Busy
<1>2. p \in Place \cup {None}
  BY <1>1, BusyFacts DEF CtlInv, CtlTypeOK
<1>3. a \in Client /\ a.exit_status = (IF p # None THEN client.exit_status ELSE "failure")
      /\ a.option = client.option /\ a.op = client.op /\ a.name = client.name
      /\ a.place = client.place /\ a.done = FALSE
  BY <1>1, BusyFacts, AnsweredFacts
<1>4. client' = IF client.op = "mke2fs"
                THEN IF p = None THEN [c EXCEPT !.pc = "system"] ELSE GivenUp(c)
                ELSE IF p = None THEN Ended(c) ELSE [c EXCEPT !.pc = "system"]
  BY DEF GetAux
<1>. HIDE DEF a
<1>5. c \in Client /\ c.exit_status = a.exit_status /\ c.option = a.option
      /\ c.op = a.op /\ c.name = a.name /\ c.place = a.place /\ c.done = FALSE
      /\ c.answer = p
  BY <1>2, <1>3 DEF Client
<1>. HIDE DEF c
<1>6. CASE client' = [c EXCEPT !.pc = "system"]
  <2>1. (client.op = "mke2fs" \/ p # None)
    BY <1>3, <1>4, <1>5, <1>6 DEF Ended, Client
  <2>2. client' \in Client /\ ClientReady' /\ StatusSound'
    BY <1>1, <1>2, <1>3, <1>5, <1>6, <2>1, BusyFacts, GoesTo
  <2>. QED
    BY <1>1, <2>2, ClientOnly
<1>7. CASE client' = GivenUp(c)
  BY <1>1, <1>5, <1>7, EndsQuiet, ClientOnly
<1>8. CASE p = None /\ client' = Ended(c)
  <2>1. client' \in Client /\ ClientReady' /\ StatusSound'
    BY <1>3, <1>5, <1>8, EndsWell
  <2>. QED
    BY <1>1, <2>1, ClientOnly
<1>. QED
  BY <1>4, <1>6, <1>7, <1>8

(* A shell command that succeeded or failed. *)
LEMMA SystemEnds ==
  ASSUME CtlInv, Busy, client' = Succeeded(client) \/ client' = Failed(client)
  PROVE  client' \in Client /\ ClientReady' /\ StatusSound'
<1>1. CASE client' = Failed(client)
  <2>1. client' = Ended([client EXCEPT !.exit_status = "failure"])
    BY <1>1 DEF Failed, VarSystem
  <2>. QED
    BY <2>1, BusyFacts, EndsFailed
<1>2. CASE client' = Succeeded(client)
  <2>. DEFINE c == VarSystem(client, TRUE)
  <2>1. c \in Client /\ c.exit_status = client.exit_status
        /\ c.op = client.op /\ c.option = client.option
    BY BusyFacts DEF VarSystem, Client
  <2>2. client' = Ended([c EXCEPT !.done = TRUE])
    BY <1>2 DEF Succeeded
  <2>. HIDE DEF c
  <2>. QED
    BY <2>1, <2>2, BusyFacts, EndsDone
<1>. QED
  BY <1>1, <1>2

(* ctl_chown changes no mount.                                             *)
LEMMA SystemChownInv == CtlInv /\ SystemChown => CtlInv'
<1>. SUFFICES ASSUME CtlInv, SystemChown PROVE CtlInv'
  OBVIOUS
<1>1. Busy /\ UNCHANGED World
      /\ (client' = Succeeded(client) \/ client' = Failed(client))
  BY DEF SystemChown, At, Busy
<1>. QED
  BY <1>1, SystemEnds, ClientOnly

----------------------------------------------------------------------------
(* Steps that change the world. *)

Entry == [open : BOOLEAN, size : 0..Total, inuse : 0..1,
          mountpoint : Place \cup {None}, close_on_release : BOOLEAN]

File == [mke2fs : 0..1, release : 0..1, size : 0..Total]

WorldOK == /\ ent \in [Name -> Entry]
           /\ mnt \in [Place -> Name \cup {None}]
           /\ file \in [Name -> File]
           /\ raced \subseteq Name
           /\ OneUser /\ MountpointTrue /\ NothingKnown

(* The invariant is about the world and about the client.                  *)
LEMMA InvParts == CtlInv => WorldOK /\ client \in Client
  BY DEF CtlInv, CtlTypeOK, WorldOK, Entry, File

(* And it is enough to show both.                                          *)
LEMMA TwoParts ==
  ASSUME WorldOK', client' \in Client, ClientReady', StatusSound'
  PROVE  CtlInv'
  BY DEF CtlInv, CtlTypeOK, WorldOK, Entry, File

(* The client does not notice a step that opens no partition. *)
LEMMA ClientStays ==
  ASSUME CtlInv, UNCHANGED client,
         \A n \in Name : ~ ent[n].open => ~ ent'[n].open
  PROVE  client' \in Client /\ ClientReady' /\ StatusSound'
<1>1. client' \in Client /\ StatusSound'
  BY DEF CtlInv, CtlTypeOK, StatusSound, ExitTruthful, Busy
<1>2. ClientReady'
  BY DEF CtlInv, ClientReady, Busy
<1>. QED
  BY <1>1, <1>2

(* An entry is changed whose users stay the same. *)
LEMMA EntryChanges ==
  ASSUME WorldOK, NEW n \in Name, NEW e \in Entry,
         ent' = [ent EXCEPT ![n] = e], UNCHANGED <<mnt, file>>,
         e.inuse = ent[n].inuse,
         e.inuse = 1 => e.open /\ e.size = ent[n].size,
         raced' \in {raced, raced \cup {n}, raced \ {n}},
         e.mountpoint # None => \/ mnt[e.mountpoint] = n \/ file[n].release > 0
                                \/ n \in raced',
         ~ e.open => e.mountpoint = None
  PROVE  WorldOK'
<1>1. ent' \in [Name -> Entry] /\ ent'[n] = e
      /\ \A m \in Name \ {n} : ent'[m] = ent[m]
  BY DEF WorldOK
<1>2. OneUser'
  <2>. SUFFICES ASSUME NEW m \in Name
       PROVE  /\ ent'[m].inuse = ent[m].inuse
              /\ ent'[m].inuse = 1 => ent'[m].open /\ ent'[m].size = ent[m].size
    BY DEF OneUser, WorldOK
  <2>. QED
    BY <1>1 DEF WorldOK, OneUser
<1>3. MountpointTrue'
  BY <1>1 DEF WorldOK, MountpointTrue
<1>4. NothingKnown'
  BY <1>1 DEF WorldOK, NothingKnown
<1>. QED
  BY <1>1, <1>2, <1>3, <1>4 DEF WorldOK

(* The one user of a partition, whoever it is. *)
Mounted(n) == \E p \in Place : mnt[p] = n

(* A partition whose inuse is 0 has no user of any kind.                   *)
LEMMA NoUser ==
  ASSUME WorldOK, NEW n \in Name, ent[n].inuse = 0
  PROVE  ~ Mounted(n) /\ file[n].mke2fs = 0 /\ file[n].release = 0
  BY DEF WorldOK, OneUser, Mounted, Entry, File

OneUserOf(n) ==
  /\ ent[n].inuse = (IF Mounted(n) THEN 1 ELSE 0)
                    + file[n].mke2fs + file[n].release
  /\ ent[n].inuse = 1 => ent[n].open /\ ent[n].size = file[n].size
  /\ \A p, q \in Place : mnt[p] = n /\ mnt[q] = n => p = q

KnownOf(n) ==
  /\ ent[n].mountpoint # None =>
       mnt[ent[n].mountpoint] = n \/ file[n].release > 0 \/ n \in raced
  /\ ~ ent[n].open => ent[n].mountpoint = None

(* The invariant of the world, for one partition.                          *)
LEMMA PartsOf == ASSUME WorldOK, NEW n \in Name
                 PROVE  OneUserOf(n) /\ KnownOf(n) /\ ent[n].inuse \in 0..1
  BY DEF WorldOK, OneUser, MountpointTrue, NothingKnown, OneUserOf, KnownOf,
         Mounted, Entry

(* One partition changes its user. *)
LEMMA UserChanges ==
  ASSUME WorldOK, NEW n \in Name,
         ent' \in [Name -> Entry], file' \in [Name -> File],
         mnt' \in [Place -> Name \cup {None}],
         \A m \in Name \ {n} : /\ ent'[m] = ent[m] /\ file'[m] = file[m]
                               /\ \A p \in Place : mnt'[p] = m <=> mnt[p] = m,
         raced' \in {raced, raced \ {n}},
         OneUserOf(n)', KnownOf(n)'
  PROVE  WorldOK'
<1>1. ASSUME NEW m \in Name PROVE OneUserOf(m)' /\ KnownOf(m)'
  <2>1. CASE m = n
    BY <2>1
  <2>2. CASE m # n
    <3>1. /\ ent'[m] = ent[m] /\ file'[m] = file[m]
          /\ \A p \in Place : mnt'[p] = m <=> mnt[p] = m
      BY <2>2
    <3>2. Mounted(m)' <=> Mounted(m)
      BY <3>1 DEF Mounted
    <3>3. OneUserOf(m) /\ KnownOf(m)
      BY PartsOf
    <3>4. OneUserOf(m)'
      BY <3>1, <3>2, <3>3 DEF OneUserOf
    <3>5. ent[m].mountpoint \in Place \cup {None}
      BY DEF WorldOK, Entry
    <3>6. KnownOf(m)'
      BY <2>2, <3>1, <3>3, <3>5 DEF KnownOf
    <3>. QED
      BY <3>4, <3>6
  <2>. QED
    BY <2>1, <2>2
<1>2. \A m \in Name : ent'[m].inuse <= 1
  BY DEF Entry
<1>3. OneUser'
  BY <1>1, <1>2 DEF OneUser, OneUserOf, Mounted
<1>4. MountpointTrue' /\ NothingKnown'
  BY <1>1 DEF MountpointTrue, NothingKnown, KnownOf
<1>5. raced' \subseteq Name
  BY DEF WorldOK
<1>. QED
  BY <1>3, <1>4, <1>5 DEF WorldOK

(* A file is opened: to be mounted, to be formatted, or in vain. *)
LEMMA FileOpens ==
  ASSUME WorldOK, NEW n \in Name, NEW k, OpenFile(n, k), UNCHANGED raced,
         \/ /\ k = file[n]
            /\ \E p \in Place : /\ mnt[p] = None
                                /\ mnt' = [mnt EXCEPT ![p] = n]
         \/ k = [file[n] EXCEPT !.release = @ + 1] /\ UNCHANGED mnt
         \/ k = [file[n] EXCEPT !.mke2fs = @ + 1] /\ UNCHANGED mnt
  PROVE  WorldOK' /\ \A m \in Name : ent'[m].open = ent[m].open
<1>1. /\ ent[n] \in Entry /\ ent[n].inuse = 0 /\ ent[n].open
      /\ file[n] \in File
  BY DEF WorldOK, OpenFile, FuseOpens
<1>2. ~ Mounted(n) /\ file[n].mke2fs = 0 /\ file[n].release = 0
  BY <1>1, NoUser
<1>. DEFINE e == [ent[n] EXCEPT !.inuse = @ + 1]
            f == [k EXCEPT !.size = ent[n].size]
<1>3. e \in Entry /\ e.inuse = 1 /\ e.open /\ e.size = ent[n].size
      /\ e.mountpoint = ent[n].mountpoint
  <2>1. e = [ent[n] EXCEPT !.inuse = 1]
    BY <1>1
  <2>. QED
    BY <1>1, <2>1 DEF Entry
<1>4. /\ f \in File /\ f.size = ent[n].size
      /\ (k = file[n] => f.mke2fs = 0 /\ f.release = 0)
      /\ (k = [file[n] EXCEPT !.release = @ + 1] => f.mke2fs = 0 /\ f.release = 1)
      /\ (k = [file[n] EXCEPT !.mke2fs = @ + 1] => f.mke2fs = 1 /\ f.release = 0)
  BY <1>1, <1>2 DEF File, Entry
<1>5. ent' = [ent EXCEPT ![n] = e] /\ file' = [file EXCEPT ![n] = f]
  BY DEF OpenFile
<1>. HIDE DEF e, f
<1>6. /\ ent' \in [Name -> Entry] /\ file' \in [Name -> File]
      /\ mnt' \in [Place -> Name \cup {None}]
      /\ ent'[n] = e /\ file'[n] = f
      /\ \A m \in Name \ {n} : /\ ent'[m] = ent[m] /\ file'[m] = file[m]
                               /\ \A p \in Place : mnt'[p] = m <=> mnt[p] = m
  <2>1. /\ ent' \in [Name -> Entry] /\ file' \in [Name -> File]
        /\ ent'[n] = e /\ file'[n] = f
        /\ \A m \in Name \ {n} : ent'[m] = ent[m] /\ file'[m] = file[m]
    BY <1>3, <1>4, <1>5 DEF WorldOK
  <2>2. /\ mnt' \in [Place -> Name \cup {None}]
        /\ \A m \in Name \ {n} : \A p \in Place : mnt'[p] = m <=> mnt[p] = m
    BY CtlAssumption DEF WorldOK
  <2>. QED
    BY <2>1, <2>2
<1>7. OneUserOf(n)'
  <2>1. CASE k = file[n] /\ \E p \in Place : /\ mnt[p] = None
                                             /\ mnt' = [mnt EXCEPT ![p] = n]
    BY <1>2, <1>3, <1>4, <1>6, <2>1 DEF OneUserOf, Mounted, WorldOK
  <2>2. CASE UNCHANGED mnt /\ (\/ k = [file[n] EXCEPT !.release = @ + 1]
                               \/ k = [file[n] EXCEPT !.mke2fs = @ + 1])
    BY <1>2, <1>3, <1>4, <1>6, <2>2 DEF OneUserOf, Mounted
  <2>. QED
    BY <2>1, <2>2
<1>8. KnownOf(n)'
  <2>1. KnownOf(n) /\ ent[n].mountpoint \in Place \cup {None}
    BY <1>1, PartsOf DEF Entry
  <2>2. ent[n].mountpoint # None => n \in raced
    BY <1>2, <2>1 DEF KnownOf, Mounted
  <2>. QED
    BY <1>3, <1>6, <2>2 DEF KnownOf
<1>9. \A m \in Name : ent[m].open = ent'[m].open
  <2>. SUFFICES ASSUME NEW m \in Name PROVE ent'[m].open = ent[m].open
    OBVIOUS
  <2>1. CASE m = n
    BY <1>1, <1>3, <1>6, <2>1 DEF Entry
  <2>2. CASE m # n
    BY <1>6, <2>2
  <2>. QED
    BY <2>1, <2>2
<1>10. WorldOK'
  BY <1>6, <1>7, <1>8, UserChanges
<1>. QED
  BY <1>9, <1>10

(* An unmount turns a mounted user into one to be released.                *)
LEMMA UnmountsOK ==
  ASSUME WorldOK, NEW p \in Place, NEW n \in Name, mnt[p] = n,
         Unmounts(p), UNCHANGED <<ent, raced>>
  PROVE  WorldOK'
<1>. DEFINE f == [file[n] EXCEPT !.release = @ + 1]
<1>1. Mounted(n)
  BY DEF Mounted
<1>2. /\ OneUserOf(n) /\ KnownOf(n)
      /\ ent[n] \in Entry /\ file[n] \in File
  BY PartsOf DEF WorldOK
<1>3. ent[n].inuse = 1 /\ file[n].mke2fs = 0 /\ file[n].release = 0
  BY <1>1, <1>2 DEF OneUserOf, Entry, File
<1>4. f \in File /\ f.release = 1 /\ f.mke2fs = 0 /\ f.size = file[n].size
  BY <1>2, <1>3 DEF File
<1>5. file' = [file EXCEPT ![n] = f] /\ mnt' = [mnt EXCEPT ![p] = None]
  BY DEF Unmounts
<1>. HIDE DEF f
<1>6. /\ file' \in [Name -> File] /\ mnt' \in [Place -> Name \cup {None}]
      /\ file'[n] = f
      /\ \A m \in Name \ {n} : /\ file'[m] = file[m]
                               /\ \A q \in Place : mnt'[q] = m <=> mnt[q] = m
  BY <1>4, <1>5, CtlAssumption DEF WorldOK
<1>7. \A q \in Place : mnt'[q] # n
  <2>1. \A q \in Place : mnt[q] = n => q = p
    BY <1>2 DEF OneUserOf
  <2>. QED
    BY <1>5, <2>1, CtlAssumption DEF WorldOK
<1>8. OneUserOf(n)'
  BY <1>2, <1>3, <1>4, <1>6, <1>7 DEF OneUserOf, Mounted
<1>9. KnownOf(n)'
  BY <1>2, <1>4, <1>6 DEF KnownOf
<1>10. ent' \in [Name -> Entry] /\ \A m \in Name : ent'[m] = ent[m]
  BY DEF WorldOK
<1>. QED
  BY <1>6, <1>8, <1>9, <1>10, UserChanges

(* fuse_io_release takes the only user away, and its mountpoint.           *)
LEMMA ReleaseOK ==
  ASSUME WorldOK, NEW n \in Name, Release(n)
  PROVE  WorldOK' /\ \A m \in Name : ~ ent[m].open => ~ ent'[m].open
<1>. DEFINE f == [file[n] EXCEPT !.release = @ - 1]
            e == Released(ent[n])
<1>1. /\ OneUserOf(n) /\ ent[n] \in Entry /\ file[n] \in File
  BY PartsOf DEF WorldOK
<1>2. /\ ~ Mounted(n) /\ file[n].mke2fs = 0 /\ file[n].release = 1
      /\ ent[n].inuse = 1 /\ ent[n].open
  BY <1>1 DEF OneUserOf, Entry, File, Release
<1>3. f \in File /\ f.release = 0 /\ f.mke2fs = 0
  BY <1>1, <1>2 DEF File
<1>4. e \in Entry /\ e.inuse = 0 /\ e.mountpoint = None
  <2>1. CASE ent[n].close_on_release
    BY <2>1, CtlAssumption DEF Released, Closed, Entry
  <2>2. CASE ~ ent[n].close_on_release
    <3>1. e = [ent[n] EXCEPT !.inuse = ent[n].inuse - 1, !.mountpoint = None]
      BY <1>1, <2>2 DEF Released, Entry
    <3>2. ent[n].inuse - 1 = 0
      BY <1>2
    <3>3. e = [open |-> ent[n].open, size |-> ent[n].size, inuse |-> 0,
               mountpoint |-> None, close_on_release |-> ent[n].close_on_release]
      BY <1>1, <3>1, <3>2 DEF Entry
    <3>. HIDE DEF e
    <3>. QED
      BY <1>1, <3>3 DEF Entry
  <2>. QED
    BY <2>1, <2>2
<1>5. /\ file' = [file EXCEPT ![n] = f] /\ ent' = [ent EXCEPT ![n] = e]
      /\ mnt' = mnt /\ raced' = raced \ {n}
  BY <1>2 DEF Release
<1>. HIDE DEF e, f
<1>6. /\ file' \in [Name -> File] /\ ent' \in [Name -> Entry]
      /\ mnt' \in [Place -> Name \cup {None}]
      /\ file'[n] = f /\ ent'[n] = e
      /\ \A m \in Name \ {n} : /\ file'[m] = file[m] /\ ent'[m] = ent[m]
                               /\ \A q \in Place : mnt'[q] = m <=> mnt[q] = m
  BY <1>3, <1>4, <1>5 DEF WorldOK
<1>7. OneUserOf(n)'
  BY <1>2, <1>3, <1>4, <1>5, <1>6 DEF OneUserOf, Mounted
<1>8. KnownOf(n)'
  BY <1>4, <1>6 DEF KnownOf
<1>9. WorldOK'
  BY <1>5, <1>6, <1>7, <1>8, UserChanges
<1>10. \A m \in Name : ~ ent[m].open => ~ ent'[m].open
  BY <1>2, <1>6
<1>. QED
  BY <1>9, <1>10

(* A mke2fs that ends becomes a user to be released.                       *)
LEMMA Mke2fsEndsOK ==
  ASSUME WorldOK, NEW n \in Name, Mke2fsEnds(n)
  PROVE  WorldOK'
<1>. DEFINE f == [mke2fs |-> file[n].mke2fs - 1,
                  release |-> file[n].release + 1, size |-> file[n].size]
<1>1. /\ OneUserOf(n) /\ KnownOf(n) /\ ent[n] \in Entry /\ file[n] \in File
  BY PartsOf DEF WorldOK
<1>2. /\ ~ Mounted(n) /\ file[n].mke2fs = 1 /\ file[n].release = 0
      /\ ent[n].inuse = 1
  BY <1>1 DEF OneUserOf, Entry, File, Mke2fsEnds
<1>3. f \in File /\ f.release = 1 /\ f.mke2fs = 0 /\ f.size = file[n].size
  BY <1>1, <1>2 DEF File
<1>4. file' = [file EXCEPT ![n] = f] /\ UNCHANGED <<ent, mnt, raced>>
  BY DEF Mke2fsEnds
<1>. HIDE DEF f
<1>5. /\ file' \in [Name -> File] /\ ent' \in [Name -> Entry]
      /\ mnt' \in [Place -> Name \cup {None}] /\ file'[n] = f
      /\ \A m \in Name \ {n} : /\ file'[m] = file[m] /\ ent'[m] = ent[m]
                               /\ \A q \in Place : mnt'[q] = m <=> mnt[q] = m
  BY <1>3, <1>4 DEF WorldOK
<1>6. OneUserOf(n)'
  BY <1>1, <1>2, <1>3, <1>4, <1>5 DEF OneUserOf, Mounted
<1>7. KnownOf(n)'
  BY <1>1, <1>3, <1>4, <1>5 DEF KnownOf
<1>. QED
  BY <1>4, <1>5, <1>6, <1>7, UserChanges

----------------------------------------------------------------------------
(* open-internal, create-internal: the entry that is made was closed.      *)
LEMMA OpenInternalInv == CtlInv /\ OpenInternal => CtlInv'
<1>. SUFFICES ASSUME CtlInv, OpenInternal PROVE CtlInv'
  OBVIOUS
<1>1. Busy /\ ~ ent[client.name].open
  BY DEF OpenInternal, Busy, CtlInv, ClientReady
<1>n. PICK n \in Name : n = client.name
  BY <1>1, BusyFacts
<1>. DEFINE a == Answered(client, TRUE)
            b == Answered(client, FALSE)
<1>2. WorldOK /\ ent[n].inuse = 0 /\ UNCHANGED <<mnt, file, raced>>
  <2>1. WorldOK /\ ent[n].inuse \in 0..1 /\ ~ ent[n].open
    BY <1>1, <1>n, InvParts, PartsOf
  <2>2. ent[n].inuse # 1
    BY <2>1 DEF WorldOK, OneUser
  <2>3. UNCHANGED <<mnt, file, raced>>
    BY DEF OpenInternal
  <2>. QED
    BY <2>1, <2>2, <2>3
<1>3. /\ a \in Client /\ a.exit_status = client.exit_status
      /\ a.option = client.option /\ a.op = client.op /\ a.name = client.name
      /\ a.place = client.place /\ a.done = FALSE
      /\ b \in Client /\ b.exit_status = "failure" /\ b.done = FALSE
  BY <1>1, BusyFacts, AnsweredFacts
<1>4. ASSUME NEW s \in 0..Total, ent' = [ent EXCEPT ![n] = Opened(s)]
      PROVE  WorldOK'
  <2>. DEFINE e == Opened(s)
  <2>1. e \in Entry /\ e.inuse = 0 /\ e.open /\ e.mountpoint = None
    BY CtlAssumption DEF Opened, Entry
  <2>. HIDE DEF e
  <2>2. ent' = [ent EXCEPT ![n] = e]
    BY <1>4 DEF e
  <2>3. e.inuse = ent[n].inuse /\ e.inuse # 1 /\ UNCHANGED <<mnt, file>>
        /\ raced' \in {raced, raced \cup {n}, raced \ {n}}
    BY <1>2, <2>1
  <2>. QED
    BY <1>2, <2>1, <2>2, <2>3, EntryChanges
<1>5. \/ /\ \/ client' = Ended([a EXCEPT !.done = TRUE])
            \/ client.op = "mount" /\ client' = [a EXCEPT !.pc = "set-close"]
         /\ \E s \in 0..Total : ent' = [ent EXCEPT ![n] = Opened(s)]
      \/ client' = Ended(b) /\ UNCHANGED ent
  <2>1. 0 \in 0..Total /\ \A s \in 1..Total : s \in 0..Total
    BY CtlAssumption
  <2>. HIDE DEF a, b
  <2>. QED
    BY <1>n, <2>1 DEF OpenInternal, a, b
<1>. HIDE DEF a, b
<1>6. CASE \E s \in 0..Total : ent' = [ent EXCEPT ![n] = Opened(s)]
  <2>1. CASE client' = Ended([a EXCEPT !.done = TRUE])
    BY <1>1, <1>3, <1>4, <1>6, <2>1, BusyFacts, EndsDone, TwoParts
  <2>2. CASE client.op = "mount" /\ client' = [a EXCEPT !.pc = "set-close"]
    <3>1. client' \in Client /\ ClientReady' /\ StatusSound'
      BY <1>1, <1>3, <2>2, BusyFacts, GoesTo
    <3>. QED
      BY <1>4, <1>6, <3>1, TwoParts
  <2>3. CASE client' = Ended(b)
    <3>1. client' \in Client /\ ClientReady' /\ StatusSound'
      BY <1>3, <2>3, EndsWell
    <3>. QED
      BY <1>4, <1>6, <3>1, TwoParts
  <2>. QED
    BY <1>5, <2>1, <2>2, <2>3
<1>7. CASE client' = Ended(b) /\ UNCHANGED ent
  <2>1. client' \in Client /\ ClientReady' /\ StatusSound'
    BY <1>3, <1>7, EndsWell
  <2>. QED
    BY <1>2, <1>7, <2>1, ClientOnly DEF World
<1>. QED
  BY <1>5, <1>6, <1>7

(* set-close-on-release: the flag is all that changes.                     *)
LEMMA SetCloseOnReleaseInv == CtlInv /\ SetCloseOnRelease => CtlInv'
<1>. SUFFICES ASSUME CtlInv, SetCloseOnRelease PROVE CtlInv'
  OBVIOUS
<1>1. Busy /\ UNCHANGED <<mnt, file, raced>>
  BY DEF SetCloseOnRelease, Busy
<1>n. PICK n \in Name : n = client.name
  BY <1>1, BusyFacts
<1>. DEFINE ok == ent[n].open
            c == Answered(client, ok)
            e == [ent[n] EXCEPT !.close_on_release = TRUE]
<1>2. WorldOK /\ ent[n] \in Entry /\ OneUserOf(n) /\ KnownOf(n)
  BY <1>1, BusyFacts, InvParts, PartsOf DEF WorldOK
<1>3. c \in Client /\ c.exit_status = (IF ok THEN client.exit_status ELSE "failure")
      /\ c.option = client.option /\ c.op = client.op /\ c.name = client.name
      /\ c.place = client.place /\ c.done = FALSE
  <2>1. ok \in BOOLEAN
    BY <1>2 DEF Entry
  <2>. QED
    BY <1>1, <2>1, BusyFacts, AnsweredFacts
<1>4. /\ client' = IF ok THEN [c EXCEPT !.pc = "system"] ELSE Ended(c)
      /\ ent' = IF ok THEN [ent EXCEPT ![n] = e] ELSE ent
  BY <1>n DEF SetCloseOnRelease
<1>5. e \in Entry /\ e.inuse = ent[n].inuse /\ e.open = ent[n].open
      /\ e.size = ent[n].size /\ e.mountpoint = ent[n].mountpoint
  BY <1>2 DEF Entry
<1>. HIDE DEF c, e
<1>6. CASE ok
  <2>1. client.op = "mount"
    BY DEF CtlInv, ClientReady, SetCloseOnRelease
  <2>2. client' \in Client /\ ClientReady' /\ StatusSound'
    BY <1>1, <1>3, <1>4, <1>6, <2>1, BusyFacts, GoesTo
  <2>3. WorldOK'
    BY <1>1, <1>2, <1>4, <1>5, <1>6, EntryChanges DEF KnownOf
  <2>. QED
    BY <2>2, <2>3, TwoParts
<1>7. CASE ~ ok
  <2>1. client' \in Client /\ ClientReady' /\ StatusSound'
    BY <1>3, <1>4, <1>7, EndsWell
  <2>. QED
    BY <1>1, <1>4, <1>7, <2>1, ClientOnly DEF World
<1>. QED
  BY <1>6, <1>7

(* set-aux: the mountpoint is true, to be released, or raced.              *)
LEMMA SetAuxInv == CtlInv /\ SetAux => CtlInv'
<1>. SUFFICES ASSUME CtlInv, SetAux PROVE CtlInv'
  OBVIOUS
<1>1. Busy /\ UNCHANGED <<mnt, file>>
  BY DEF SetAux, Busy
<1>n. PICK n \in Name : n = client.name
  BY <1>1, BusyFacts
<1>. DEFINE ok == ent[n].open
            a == Answered(client, ok)
            e == [ent[n] EXCEPT !.mountpoint = client.place]
<1>2. WorldOK /\ ent[n] \in Entry /\ OneUserOf(n) /\ KnownOf(n)
      /\ ok \in BOOLEAN
  BY <1>1, BusyFacts, InvParts, PartsOf DEF WorldOK, Entry
<1>3. client' \in Client /\ ClientReady' /\ StatusSound'
  <2>1. a \in Client /\ a.op = client.op /\ a.option = client.option
        /\ a.exit_status = (IF ok THEN client.exit_status ELSE "failure")
    BY <1>1, <1>2, BusyFacts, AnsweredFacts
  <2>2. client' = Ended([a EXCEPT !.done = ok])
    BY <1>n DEF SetAux
  <2>. HIDE DEF a
  <2>. QED
    BY <1>1, <1>2, <2>1, <2>2, BusyFacts, EndsDone
<1>4. CASE ok
  <2>1. e \in Entry /\ e.inuse = ent[n].inuse /\ e.open = ent[n].open
        /\ e.size = ent[n].size /\ e.mountpoint = client.place
    BY <1>1, <1>2, BusyFacts DEF Entry
  <2>2. ent' = [ent EXCEPT ![n] = e]
    BY <1>4, <1>n DEF SetAux
  <2>3. raced' = IF mnt[client.place] = n \/ file[n].release > 0
                 THEN raced \ {n} ELSE raced \cup {n}
    BY <1>4, <1>n DEF SetAux
  <2>. HIDE DEF e
  <2>4. WorldOK'
    BY <1>1, <1>2, <1>4, <2>1, <2>2, <2>3, EntryChanges
  <2>. QED
    BY <1>3, <2>4, TwoParts
<1>5. CASE ~ ok
  <2>1. UNCHANGED <<ent, mnt, file>> /\ raced' = raced \ {n}
    BY <1>5, <1>n DEF SetAux
  <2>2. ent[n].mountpoint = None
    BY <1>2, <1>5 DEF KnownOf
  <2>3. OneUserOf(n)' /\ KnownOf(n)'
    BY <1>2, <2>1, <2>2 DEF OneUserOf, KnownOf, Mounted
  <2>4. WorldOK'
    BY <1>2, <2>1, <2>3, UserChanges DEF WorldOK
  <2>. QED
    BY <1>3, <2>4, TwoParts
<1>. QED
  BY <1>4, <1>5

(* resize-internal: only a partition without a user gets another size.     *)
LEMMA ResizeInternalInv == CtlInv /\ ResizeInternal => CtlInv'
<1>. SUFFICES ASSUME CtlInv, ResizeInternal PROVE CtlInv'
  OBVIOUS
<1>1. Busy /\ UNCHANGED <<mnt, file, raced>>
  BY DEF ResizeInternal, Busy
<1>n. PICK n \in Name : n = client.name
  BY <1>1, BusyFacts
<1>. DEFINE a == Answered(client, TRUE)
            b == Answered(client, FALSE)
            e == [ent[n] EXCEPT !.size = client.number]
<1>2. WorldOK /\ ent[n] \in Entry /\ KnownOf(n)
  BY InvParts, PartsOf DEF WorldOK
<1>3. /\ a \in Client /\ a.exit_status = client.exit_status
      /\ a.option = client.option /\ a.op = client.op
      /\ b \in Client /\ b.exit_status = "failure" /\ b.done = FALSE
  BY <1>1, BusyFacts, AnsweredFacts
<1>4. \/ /\ Resizable(ent[n], client.number, ReservedFor(client.number))
         /\ ent' = [ent EXCEPT ![n] = e]
         /\ client' = Ended([a EXCEPT !.done = TRUE])
      \/ client' = Ended(b) /\ UNCHANGED ent
  BY <1>n DEF ResizeInternal
<1>. HIDE DEF a, b, e
<1>5. CASE /\ Resizable(ent[n], client.number, ReservedFor(client.number))
           /\ ent' = [ent EXCEPT ![n] = e]
           /\ client' = Ended([a EXCEPT !.done = TRUE])
  <2>1. client.number \in 0..Total
    <3>1. client.number \in -1..(Total + 1) /\ ent[n].size \in 0..Total
      BY <1>1, <1>2, BusyFacts DEF Client, Entry
    <3>. QED
      BY <1>5, <3>1, CtlAssumption DEF Resizable
  <2>2. e \in Entry /\ e.inuse = ent[n].inuse /\ e.open = ent[n].open
        /\ e.mountpoint = ent[n].mountpoint
    BY <1>2, <2>1 DEF Entry, e
  <2>3. e.inuse = 0 /\ e.open
    BY <1>5, <2>2 DEF Resizable
  <2>4. WorldOK'
    <3>1. e.inuse # 1 /\ UNCHANGED <<mnt, file>> /\ ent' = [ent EXCEPT ![n] = e]
          /\ raced' \in {raced, raced \cup {n}, raced \ {n}}
      BY <1>1, <1>5, <2>3
    <3>2. e.mountpoint # None => \/ mnt[e.mountpoint] = n
                                 \/ file[n].release > 0 \/ n \in raced'
      BY <1>1, <1>2, <2>2 DEF KnownOf
    <3>. QED
      BY <1>2, <2>2, <2>3, <3>1, <3>2, EntryChanges
  <2>5. client' \in Client /\ ClientReady' /\ StatusSound'
    BY <1>1, <1>3, <1>5, BusyFacts, EndsDone
  <2>. QED
    BY <2>4, <2>5, TwoParts
<1>6. CASE client' = Ended(b) /\ UNCHANGED ent
  <2>1. client' \in Client /\ ClientReady' /\ StatusSound'
    BY <1>3, <1>6, EndsWell
  <2>. QED
    BY <1>1, <1>6, <2>1, ClientOnly DEF World
<1>. QED
  BY <1>4, <1>5, <1>6

(* close: only a partition without a user is closed.                       *)
LEMMA CloseInv == CtlInv /\ Close => CtlInv'
<1>. SUFFICES ASSUME CtlInv, Close PROVE CtlInv'
  OBVIOUS
<1>1. Busy /\ UNCHANGED <<mnt, file>>
  BY DEF Close, Busy
<1>n. PICK n \in Name : n = client.name
  BY <1>1, BusyFacts
<1>. DEFINE ok == Closable(ent[n])
            a == Answered(client, ok)
<1>2. WorldOK /\ ent[n] \in Entry
  BY InvParts, PartsOf DEF WorldOK
<1>0. ok \in BOOLEAN
  BY <1>2 DEF Closable, Entry
<1>3. client' \in Client /\ ClientReady' /\ StatusSound'
  <2>1. a \in Client /\ a.op = client.op /\ a.option = client.option
        /\ a.exit_status = (IF ok THEN client.exit_status ELSE "failure")
    BY <1>0, <1>1, BusyFacts, AnsweredFacts
  <2>2. client' = Ended([a EXCEPT !.done = ok])
    BY <1>n DEF Close
  <2>. HIDE DEF a, ok
  <2>. QED
    BY <1>0, <1>1, <2>1, <2>2, BusyFacts, EndsDone
<1>4. CASE ok
  <2>. DEFINE e == Closed
  <2>1. e \in Entry /\ e.inuse = 0 /\ e.mountpoint = None
    BY CtlAssumption DEF Closed, Entry
  <2>2. ent' = [ent EXCEPT ![n] = e] /\ raced' = raced \ {n}
    BY <1>4, <1>n DEF Close
  <2>3. ent[n].inuse = 0
    BY <1>4 DEF Closable
  <2>. HIDE DEF e
  <2>4. WorldOK'
    <3>1. e.inuse = ent[n].inuse /\ e.inuse # 1 /\ UNCHANGED <<mnt, file>>
          /\ raced' \in {raced, raced \cup {n}, raced \ {n}}
      BY <1>1, <2>1, <2>2, <2>3
    <3>. QED
      BY <1>2, <2>1, <2>2, <3>1, EntryChanges
  <2>. QED
    BY <1>3, <2>4, TwoParts
<1>5. CASE ~ ok
  <2>1. UNCHANGED World
    BY <1>1, <1>5, <1>n DEF Close, World
  <2>. QED
    BY <1>3, <2>1, ClientOnly
<1>. QED
  BY <1>4, <1>5

(* ctl_mount: the mount opens the file only when nobody uses it.           *)
LEMMA SystemMountInv == CtlInv /\ SystemMount => CtlInv'
<1>. SUFFICES ASSUME CtlInv, SystemMount PROVE CtlInv'
  OBVIOUS
<1>1. Busy /\ UNCHANGED raced
  BY DEF SystemMount, At, Busy
<1>n. PICK n \in Name : n = client.name
  BY <1>1, BusyFacts
<1>2. WorldOK /\ client.place \in Place
  BY <1>1, BusyFacts, InvParts
<1>3. CASE /\ mnt[client.place] = None /\ OpenFile(n, file[n])
           /\ mnt' = [mnt EXCEPT ![client.place] = n]
           /\ client' = [VarSystem(client, TRUE) EXCEPT !.pc = "set-aux"]
  <2>. DEFINE c == VarSystem(client, TRUE)
  <2>1. c \in Client /\ c.exit_status = client.exit_status /\ c.op = client.op
        /\ c.option = client.option /\ c.name = client.name
        /\ c.place = client.place /\ c.done = FALSE
    BY <1>1, BusyFacts DEF VarSystem, Client
  <2>2. client' = [c EXCEPT !.pc = "set-aux"]
    BY <1>3
  <2>. HIDE DEF c
  <2>3. client' \in Client /\ ClientReady' /\ StatusSound'
    BY <1>1, <2>1, <2>2, BusyFacts, GoesTo
  <2>4. WorldOK'
    BY <1>1, <1>2, <1>3, FileOpens
  <2>. QED
    BY <2>3, <2>4, TwoParts
<1>4. CASE /\ OpenFile(n, [file[n] EXCEPT !.release = @ + 1])
           /\ client' = Failed(client) /\ UNCHANGED mnt
  <2>1. WorldOK'
    BY <1>1, <1>2, <1>4, FileOpens
  <2>. QED
    BY <1>1, <1>4, <2>1, SystemEnds, TwoParts
<1>5. CASE client' = Failed(client) /\ UNCHANGED <<ent, mnt, file>>
  BY <1>1, <1>5, SystemEnds, ClientOnly DEF World
<1>. QED
  BY <1>3, <1>4, <1>5, <1>n DEF SystemMount

(* ctl_mke2fs: mke2fs opens the file only when nobody uses it.             *)
LEMMA SystemMke2fsInv == CtlInv /\ SystemMke2fs => CtlInv'
<1>. SUFFICES ASSUME CtlInv, SystemMke2fs PROVE CtlInv'
  OBVIOUS
<1>1. Busy /\ UNCHANGED <<mnt, raced>>
  BY DEF SystemMke2fs, At, Busy
<1>n. PICK n \in Name : n = client.name
  BY <1>1, BusyFacts
<1>2. CASE /\ OpenFile(n, [file[n] EXCEPT !.mke2fs = @ + 1])
           /\ client' = [client EXCEPT !.pc = "formatting"]
  <2>1. WorldOK'
    BY <1>1, <1>2, InvParts, FileOpens
  <2>2. client' \in Client /\ ClientReady' /\ StatusSound'
    BY <1>1, <1>2, BusyFacts, GoesTo
  <2>. QED
    BY <2>1, <2>2, TwoParts
<1>3. CASE client' = Failed(client) /\ UNCHANGED <<ent, file>>
  BY <1>1, <1>3, SystemEnds, ClientOnly DEF World
<1>. QED
  BY <1>2, <1>3, <1>n DEF SystemMke2fs

(* ctl_umount unmounts a directory.                                        *)
LEMMA SystemUmountInv == CtlInv /\ SystemUmount => CtlInv'
<1>. SUFFICES ASSUME CtlInv, SystemUmount PROVE CtlInv'
  OBVIOUS
<1>1. Busy /\ UNCHANGED <<ent, raced>> /\ client.pc = "system"
  BY DEF SystemUmount, At, Busy
<1>p. PICK p \in Place :
        p = IF client.op = "umount" THEN client.answer ELSE client.place
  BY <1>1, BusyFacts DEF CtlInv, ClientReady
<1>2. CASE Unmounts(p) /\ client' = Succeeded(client)
  <2>1. PICK n \in Name : mnt[p] = n
    BY <1>2, InvParts DEF Unmounts, WorldOK
  <2>2. WorldOK'
    BY <1>1, <1>2, <2>1, InvParts, UnmountsOK
  <2>. QED
    BY <1>1, <1>2, <2>2, SystemEnds, TwoParts
<1>3. CASE client' = Failed(client) /\ UNCHANGED <<mnt, file>>
  BY <1>1, <1>3, SystemEnds, ClientOnly DEF World
<1>. QED
  BY <1>2, <1>3, <1>p DEF SystemUmount

(* Somebody mounts or unmounts by hand.                                    *)
LEMMA ByHandInv == CtlInv /\ (MountByHand \/ UmountByHand) => CtlInv'
<1>. SUFFICES ASSUME CtlInv, MountByHand \/ UmountByHand PROVE CtlInv'
  OBVIOUS
<1>1. CASE MountByHand
  <2>1. PICK n \in Name, p \in Place : /\ mnt[p] = None /\ OpenFile(n, file[n])
                                       /\ mnt' = [mnt EXCEPT ![p] = n]
    BY <1>1 DEF MountByHand
  <2>2. UNCHANGED <<client, raced>>
    BY <1>1 DEF MountByHand
  <2>3. WorldOK' /\ \A m \in Name : ent'[m].open = ent[m].open
    BY <2>1, <2>2, InvParts, FileOpens
  <2>. QED
    BY <2>2, <2>3, ClientStays, TwoParts
<1>2. CASE UmountByHand
  <2>1. PICK p \in Place : Unmounts(p)
    BY <1>2 DEF UmountByHand
  <2>2. UNCHANGED <<ent, client, raced>>
    BY <1>2 DEF UmountByHand
  <2>3. PICK n \in Name : mnt[p] = n
    BY <2>1, InvParts DEF Unmounts, WorldOK
  <2>4. WorldOK'
    BY <2>1, <2>2, <2>3, InvParts, UnmountsOK
  <2>. QED
    BY <2>2, <2>4, ClientStays, TwoParts
<1>. QED
  BY <1>1, <1>2

(* The kernel releases a file, a mke2fs ends.                              *)
LEMMA KernelInv ==
  CtlInv /\ (\E n \in Name : Release(n) \/ Mke2fsEnds(n)) => CtlInv'
<1>. SUFFICES ASSUME CtlInv, NEW n \in Name, Release(n) \/ Mke2fsEnds(n)
              PROVE  CtlInv'
  OBVIOUS
<1>1. CASE Release(n)
  <2>1. WorldOK' /\ \A m \in Name : ~ ent[m].open => ~ ent'[m].open
    BY <1>1, InvParts, ReleaseOK
  <2>2. UNCHANGED client
    BY <1>1 DEF Release
  <2>. QED
    BY <2>1, <2>2, ClientStays, TwoParts
<1>2. CASE Mke2fsEnds(n)
  <2>1. WorldOK' /\ UNCHANGED ent
    BY <1>2, InvParts, Mke2fsEndsOK DEF Mke2fsEnds
  <2>2. CASE UNCHANGED client
    BY <2>1, <2>2, ClientStays, TwoParts
  <2>3. CASE /\ client.pc = "formatting"
             /\ client' = Succeeded(client) \/ client' = Failed(client)
    <3>1. Busy
      BY <2>3 DEF Busy
    <3>. QED
      BY <2>1, <2>3, <3>1, SystemEnds, TwoParts
  <2>. QED
    BY <1>2, <2>2, <2>3 DEF Mke2fsEnds
<1>. QED
  BY <1>1, <1>2

----------------------------------------------------------------------------
(* No step of scubed3ctl, the kernel or somebody at the keyboard disturbs  *)
(* the invariant.                                                          *)
LEMMA NextInv == CtlInv /\ [CtlNext]_ctlVars => CtlInv'
<1>1. ASSUME CtlInv, UNCHANGED ctlVars PROVE CtlInv'
  <2>1. client' \in Client /\ ClientReady' /\ StatusSound'
    BY <1>1, ClientStays DEF ctlVars
  <2>. QED
    BY <1>1, <2>1, ClientOnly DEF ctlVars, World
<1>. QED
  BY <1>1, ConnectInv, TypeInv, LeaveInv, CheckAvailableInv, GetPassInv,
     OpenInternalInv, InfoInv, SetCloseOnReleaseInv, GetAuxInv, SetAuxInv,
     AskInv, ResizeInternalInv, CloseInv, SystemMountInv, SystemMke2fsInv,
     SystemChownInv, SystemUmountInv, ByHandInv, KernelInv DEF CtlNext

(* The inductive invariant holds in every reachable state.                 *)
LEMMA CtlInvariant == CtlSpec => []CtlInv
  BY InitInv, NextInv, PTL DEF CtlSpec

(* Type correctness, for any partitions and directories: no counter of     *)
(* users or size leaves its range.                                         *)
THEOREM CtlTypeCorrect == CtlSpec => []CtlTypeOK
<1>1. CtlInv => CtlTypeOK
  BY DEF CtlInv
<1>. QED
  BY <1>1, CtlInvariant, PTL

(* For any partitions and directories: whatever scubed3ctl, a user at the  *)
(* keyboard and the kernel do, a partition has at most one user, and keeps *)
(* its size and stays open while it has one.                               *)
THEOREM CtlOneUser == CtlSpec => []OneUser
<1>1. CtlInv => OneUser
  BY DEF CtlInv
<1>. QED
  BY <1>1, CtlInvariant, PTL

(* For any partitions and directories: the mountpoint the daemon tells is  *)
(* where the partition is mounted, but for the two exceptions named there. *)
THEOREM CtlMountpointTrue == CtlSpec => []MountpointTrue
<1>1. CtlInv => MountpointTrue
  BY DEF CtlInv
<1>. QED
  BY <1>1, CtlInvariant, PTL

(* For any partitions and directories: the exit status of scubed3ctl -c is *)
(* that of its command, in the sense of ExitTruthful.                      *)
THEOREM CtlExitTruthful == CtlSpec => []ExitTruthful
<1>1. CtlInv => ExitTruthful
  BY DEF CtlInv, StatusSound
<1>. QED
  BY <1>1, CtlInvariant, PTL
============================================================================
