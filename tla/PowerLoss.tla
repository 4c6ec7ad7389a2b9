----------------------------- MODULE PowerLoss -----------------------------
(***************************************************************************)
(* Blockio on a machine that can lose its power.  Macroblocks are written  *)
(* with fwrite or pwrite and never synced (blockio.c has no fsync), so     *)
(* what is read back while the machine runs (disk) is ahead of what the    *)
(* medium holds (platter).  The operating system writes back the blocks in *)
(* any order; a power failure keeps an arbitrary mixture of old and new    *)
(* macroblocks, and may tear the one that is being written back.           *)
(***************************************************************************)
EXTENDS Blockio

CONSTANT MaxFailures   \* bound: how many power failures that lose something

ASSUME PowerLossAssumption == MaxFailures \in Nat

VARIABLES
  platter,  \* the header each block has on the medium
  failures, \* how many there were
  damage    \* history: what power failures did, "erased" a write or "torn" one

pvars == <<bvars, platter, failures, damage>>

PowerLossInit ==
  /\ BlockioInit
  /\ platter = disk
  /\ failures = 0
  /\ damage = {}

(* A header that the daemon destroyed by dying in the middle of a write    *)
(* can be brought back by a power failure, and then belongs to another     *)
(* history of the partition: the open may end in a FATAL or an assertion.  *)
(* Those two accidents are not combined.                                   *)
PowerCanFail == failures < MaxFailures /\ ~ torn

(* The operating system writes a block back.  It has only the last version *)
(* of it.                                                                  *)
WriteBack(b) ==
  /\ PowerCanFail
  /\ platter[b] # disk[b]
  /\ platter' = [platter EXCEPT ![b] = disk[b]]
  /\ UNCHANGED <<bvars, failures, damage>>

(* The power fails before the blocks in D were written back; those in T,   *)
(* one at most, were being written back and are torn.  A seqno that never  *)
(* reached the medium counts as not used.                                  *)
PowerFailure(T) ==
  LET D == {b \in Block : platter[b] # disk[b]}
      left == [b \in Block |-> IF b \in T THEN NoHeader ELSE platter[b]]
  IN  /\ PowerCanFail
      /\ D # {} /\ T \subseteq D
      /\ failures' = failures + 1
      /\ disk' = left
      /\ platter' = left
      /\ damage' = damage \cup {"torn" : b \in T} \cup {"erased" : b \in D \ T}
      /\ hiseq' = CHOOSE n \in {0} \cup {platter[b].seq : b \in Block} :
                    \A b \in Block : platter[b].seq <= n
      /\ DeviceGone
      /\ pc' = "closed"
      /\ UNCHANGED torn

(* After an open that warned, slots may lie behind the sequence number.    *)
(* How the juggler goes on with those is not followed: such a daemon ends. *)
Followed == ScheduleSound \/ "erased" \notin damage \/ pc' = "closed"

PowerLossNext ==
  \/ BlockioNext /\ Followed /\ UNCHANGED <<platter, failures, damage>>
  \/ \E b \in Block : WriteBack(b)
  \/ \E T \in {{}} \cup {{b} : b \in Block} : PowerFailure(T)

PowerLossSpec == PowerLossInit /\ [][PowerLossNext]_pvars

----------------------------------------------------------------------------
(* Whatever was written, and whenever the daemon died or the power failed, *)
(* an open does not end in the FATAL about the number of macroblocks or in *)
(* an assertion about seqnos and slots: the newest header claims exactly   *)
(* the blocks that are found, and these fit together.                      *)
OpenNeverFatal == pc # "fatal"

(* The schedule that an open rebuilds from the headers can go on: slots    *)
(* are unique and ahead, a block is available.  That holds however the     *)
(* daemon died, and even a power failure can only break it in a way that   *)
(* the hash of the seqnos in the newest header gives away: an open that    *)
(* does not warn is an open that can be trusted.                           *)
ScheduleSurvives == ScheduleSound \/ ("erased" \in damage /\ warned)

(* The warning of scubed3_init that a block seems to be missing is given   *)
(* only when one is: after a torn header or a lost write.  No sequence of  *)
(* resizes, crashes and closes gives a false alarm.                        *)
WarningMeansDamage == warned => torn \/ damage # {}

(* A macroblock is written with a seqno higher than any that ever was on   *)
(* disk, across closes, crashes and power failures: the seqno is the IV of *)
(* its mesoblocks (README, "the mesoblock IV will never repeat").  Damage  *)
(* to the newest header is excepted, the seqno is reset then, and so is a  *)
(* seqno that a power failure erased before it reached the medium.         *)
SeqnoFresh ==
  [][\A b \in Block :
       disk'[b] \notin {disk[b], NoHeader} /\ failures' = failures
         /\ ~ torn /\ "torn" \notin damage
         => disk'[b].seq > hiseq]_pvars
============================================================================
