----------------------------- MODULE BlockStore -----------------------------
(***************************************************************************)
(* What a scubed3 partition promises to the file system above it: an array *)
(* of mesoblocks, zero until written, in which a read returns the last     *)
(* write.  A flush makes everything written so far durable; a crash goes   *)
(* back to the last flush, never to a mixture of two states.  Once ok is   *)
(* FALSE nothing is promised any more.                                     *)
(***************************************************************************)
EXTENDS Integers

CONSTANTS
  Part,     \* the parts of a mesoblock that can be written separately
  Value,    \* what can be written in a part
  Zero,     \* what is read before that
  MaxSize   \* the number of mesoblocks of the largest partition

VARIABLES
  mem,  \* what reads return, a function from mesoblock numbers to contents
  dur,  \* what reads return after a crash
  ok

svars == <<mem, dur, ok>>

Content == [Part -> Value \cup {Zero}]
ZeroContent == [p \in Part |-> Zero]
Empty == [o \in {} |-> ZeroContent]

StoreInit == mem = Empty /\ dur = Empty /\ ok = TRUE

Write(o, parts, v) ==
  /\ ok
  /\ mem' = [mem EXCEPT ![o] = [p \in Part |-> IF p \in parts THEN v ELSE @[p]]]
  /\ UNCHANGED <<dur, ok>>

Flush == ok /\ dur' = mem /\ UNCHANGED <<mem, ok>>

Lose == ok /\ mem' = dur /\ UNCHANGED <<dur, ok>>

(* A partition of n mesoblocks: the old ones keep what they hold. *)
Grow(n) ==
  /\ ok
  /\ DOMAIN mem \subseteq 0..(n - 1)
  /\ mem' = [o \in 0..(n - 1) |->
               IF o \in DOMAIN mem THEN mem[o] ELSE ZeroContent]
  /\ UNCHANGED <<dur, ok>>

(* A crash in the middle of a flush may undo an enlargement whose          *)
(* mesoblocks were not written yet.                                        *)
LoseGrowth(n) ==
  /\ ok
  /\ 0..(n - 1) \subseteq DOMAIN dur
  /\ \A o \in DOMAIN dur \ 0..(n - 1) : dur[o] = ZeroContent
  /\ dur' = [o \in 0..(n - 1) |-> dur[o]]
  /\ mem' = dur'
  /\ UNCHANGED ok

Spoil == ok' = FALSE /\ mem' = Empty /\ dur' = Empty

StoreNext ==
  \/ \E o \in DOMAIN mem : \E parts \in SUBSET Part \ {{}} : \E v \in Value :
       Write(o, parts, v)
  \/ Flush
  \/ Lose
  \/ \E n \in 0..MaxSize : Grow(n) \/ LoseGrowth(n)
  \/ Spoil

StoreSpec == StoreInit /\ [][StoreNext]_svars
============================================================================
