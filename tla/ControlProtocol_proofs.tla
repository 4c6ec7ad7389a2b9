----------------------- MODULE ControlProtocol_proofs -----------------------
(***************************************************************************)
(* Proofs about ControlProtocol: a client shows the response to its last   *)
(* command, and the server executes what the client has sent.              *)
(*                                                                         *)
(* Both are proved from one inductive invariant, ProtocolInv.  Its core is *)
(* what a connection that is still open looks like (Open): either every    *)
(* command has been executed and no byte is left anywhere between the      *)
(* client and control_call, or one command has not and its line, whole and *)
(* nothing else, is spread over the buffer of the server and the stream.   *)
(* A newline in the buffer is then the end of that line.                   *)
(***************************************************************************)
EXTENDS ControlProtocol, SequenceTheorems, WellFoundedInduction, TLAPS

ReplyText == {"OK", "ERR", "text", "dot"}
ReplyLine == [text : ReplyText, for : Nat]

(* What CommandOf can return; more than the client can send. *)
Executed == Byte \cup {"empty"}

ClientState == [pc : {"start", "wait", "prompt", "away"}, known : BOOLEAN,
                status : {"OK", "ERR"}, from : SUBSET Nat]

ServerState == [pc : {"accept", "recv", "scan"}, conn : Client \cup {None},
                buf : Seq(Byte), start : Nat]

ProtocolType ==
  /\ toServer \in [Client -> Seq(Byte)]
  /\ toClient \in [Client -> Seq(ReplyLine)]
  /\ closed \subseteq Client
  /\ server \in ServerState
  /\ client \in [Client -> ClientState]
  /\ sent \in [Client -> Seq(Command)]
  /\ done \in [Client -> Seq(Executed)]

(* The buffer of control_thread is within its bounds, and a connection is  *)
(* served that exists.                                                     *)
ServerOK ==
  /\ server.start <= Len(server.buf) /\ Len(server.buf) <= BufSize
  /\ server.pc = "accept" <=> server.conn = None
  /\ server.pc \in {"accept", "recv"} => server.start = 0
  /\ server.conn # None => server.conn \notin closed /\ sent[server.conn] # <<>>

(* What was received and not looked at, and with it what a client has sent *)
(* and the server has not executed.                                        *)
Rest == SubSeq(server.buf, server.start + 1, Len(server.buf))
Pending(c) == IF server.conn = c THEN Rest \o toServer[c] ELSE toServer[c]

Quiet(c) == done[c] = sent[c] /\ Pending(c) = <<>>

Asked(c) ==
  /\ client[c].pc # "prompt"
  /\ client[c].pc = "wait" => toClient[c] = <<>> /\ client[c].from = {}
  /\ \E cmd \in Command : sent[c] = Append(done[c], cmd) /\ Pending(c) = Line(cmd)

(* The lines that wait for a client answer its last command, and one dot   *)
(* at most is among them, as the last one.                                 *)
Answer(c) ==
  \A i \in 1..Len(toClient[c]) :
    /\ toClient[c][i].for = Len(sent[c])
    /\ toClient[c][i].text = "dot" => i = Len(toClient[c])

ConversationOK(c) ==
  /\ client[c].pc = "wait" => client[c].from \subseteq {Len(sent[c])} /\ Answer(c)
  /\ client[c].pc = "prompt" =>
       client[c].from = {Len(sent[c])} /\ toClient[c] = <<>>
  /\ c \notin closed => Quiet(c) \/ Asked(c)
  /\ c \in closed => IsPrefix(done[c], sent[c])

(* Nothing has happened to a client that has not been started. *)
Unstarted(c) ==
  /\ toServer[c] = <<>> /\ toClient[c] = <<>> /\ sent[c] = <<>> /\ done[c] = <<>>
  /\ c \notin closed

ClientOK(c) ==
  /\ client[c].pc = "start" => Unstarted(c)
  /\ InStep(c) => ConversationOK(c)

ProtocolInv ==
  /\ ProtocolType
  /\ ServerOK
  /\ \A c \in Client : ClientOK(c)
----------------------------------------------------------------------------
(* Lines, prefixes and replies. *)

(* What vwrite_line sends: the command, and one newline, at the end. *)
LEMMA LineFacts ==
  ASSUME NEW cmd \in Command
  PROVE  /\ Line(cmd) \in Seq(Byte)
         /\ Len(Line(cmd)) = IF cmd = "long" THEN BufSize + 1 ELSE 2
         /\ Line(cmd)[1] = cmd
         /\ \A i \in 1..Len(Line(cmd)) :
              Line(cmd)[i] = Newline <=> i = Len(Line(cmd))
<1> DEFINE n == IF cmd = "long" THEN BufSize ELSE 1
           text == [i \in 1..n |-> cmd]
<1>1. n \in Nat /\ n >= 1
  BY ProtocolAssumption
<1>2. cmd \in Byte /\ Newline \in Byte /\ cmd # Newline
  BY DEF Byte, Command, Newline
<1>3. text \in Seq(Byte) /\ Len(text) = n /\ \A i \in 1..n : text[i] = cmd
  BY <1>1, <1>2
<1>4. Line(cmd) = Append(text, Newline)
  BY DEF Line
<1> HIDE DEF text
<1>5. /\ Line(cmd) \in Seq(Byte)
      /\ Len(Line(cmd)) = n + 1
      /\ \A i \in 1..n : Line(cmd)[i] = cmd
      /\ Line(cmd)[n + 1] = Newline
  BY <1>1, <1>2, <1>3, <1>4, AppendProperties
<1> QED
  BY <1>1, <1>2, <1>5

(* A sequence is a prefix of itself and of what one more element makes it. *)
LEMMA PrefixFacts ==
  ASSUME NEW S, NEW s \in Seq(S)
  PROVE  /\ IsPrefix(s, s)
         /\ \A e \in S : IsPrefix(s, Append(s, e))
<1>1. Len(s) \in Nat
  BY LenProperties
<1>2. IsPrefix(s, s)
  BY <1>1 DEF IsPrefix
<1>3. ASSUME NEW e \in S
      PROVE  IsPrefix(s, Append(s, e))
  <2>1. /\ Append(s, e) \in Seq(S)
        /\ Len(Append(s, e)) = Len(s) + 1
        /\ \A i \in 1..Len(s) : Append(s, e)[i] = s[i]
    BY AppendProperties
  <2> DEFINE a == Append(s, e)
  <2> HIDE DEF a
  <2>2. /\ SubSeq(s, 1, Len(s)) \in Seq(S) /\ SubSeq(a, 1, Len(s)) \in Seq(S)
        /\ Len(SubSeq(s, 1, Len(s))) = Len(s)
        /\ Len(SubSeq(a, 1, Len(s))) = Len(s)
        /\ \A i \in 1..Len(s) : SubSeq(s, 1, Len(s))[i] = SubSeq(a, 1, Len(s))[i]
    <3>1. \A i \in 1..Len(s) : s[i] \in S /\ a[i] = s[i]
      BY <1>1, <2>1, ElementOfSeq DEF a
    <3> QED
      BY <1>1, <3>1
  <2>3. SubSeq(s, 1, Len(s)) = SubSeq(a, 1, Len(s))
    BY <2>2, <1>1, SeqEqual
  <2> QED
    BY <1>1, <2>1, <2>3 DEF IsPrefix, a
<1> QED
  BY <1>2, <1>3

(* A reply is a sequence of lines; one dot ends it, unless the command was *)
(* one with a number that cannot be parsed.                                *)
LEMMA ReplyFacts ==
  ASSUME NEW cmd \in Executed, NEW r \in Replies(cmd)
  PROVE  /\ r \in Seq(ReplyText)
         /\ Len(r) >= 1
         /\ cmd # "int" => \A i \in 1..Len(r) : r[i] = "dot" => i = Len(r)
<1>1. CASE cmd = "wrong"
  <2>1. r = <<"ERR", "text", "dot">>
    BY <1>1 DEF Replies
  <2> QED
    BY <2>1 DEF ReplyText
<1>2. CASE cmd = "info"
  <2>1. r = <<"OK", "text", "dot">>
    BY <1>2 DEF Replies
  <2> QED
    BY <2>1 DEF ReplyText
<1>3. CASE cmd = "int"
  <2>1. PICK s \in {"OK", "ERR"} :
          r = <<"ERR", "text", "text", "dot", s, "text", "dot">>
    BY <1>3 DEF Replies
  <2> QED
    BY <2>1, <1>3 DEF ReplyText
<1>4. CASE cmd \notin {"wrong", "info", "int"}
  <2>1. r = <<"OK", "dot">>
    BY <1>4 DEF Replies
  <2> QED
    BY <2>1 DEF ReplyText
<1> QED
  BY <1>1, <1>2, <1>3, <1>4

(* What control_call makes of a line is something that can be executed. *)
LEMMA CommandOfType ==
  ASSUME NEW b \in Seq(Byte)
  PROVE  CommandOf(b) \in Executed
<1>1. CASE b = <<>> \/ b[1] = Wiped
  BY <1>1 DEF CommandOf, Executed
<1>2. CASE b # <<>> /\ b[1] # Wiped
  <2>1. b[1] \in Byte
    BY <1>2, EmptySeq, ElementOfSeq
  <2> QED
    BY <1>2, <2>1 DEF CommandOf, Executed, Byte, Command
<1> QED
  BY <1>1, <1>2

(* The bytes of a command that fits the buffer are taken for that command. *)
LEMMA CommandOfOne ==
  ASSUME NEW b, NEW cmd \in Command, b \in Seq(Byte), Len(b) = 1, b[1] = cmd
  PROVE  CommandOf(b) = cmd
<1>1. b # <<>>
  OBVIOUS
<1>2. cmd # Wiped
  BY DEF Command, Wiped
<1> QED
  BY <1>1, <1>2 DEF CommandOf

(* A line whose newline has been received has been received as a whole,    *)
(* and nothing behind it.                                                  *)
LEMMA WholeLine ==
  ASSUME NEW r \in Seq(Byte), NEW s \in Seq(Byte), NEW cmd \in Command,
         r \o s = Line(cmd), NEW k \in 1..Len(r), r[k] = Newline
  PROVE  k = Len(r) /\ s = <<>> /\ r = Line(cmd)
<1>1. /\ Len(r) \in Nat /\ Len(s) \in Nat
      /\ Len(r \o s) = Len(r) + Len(s)
      /\ (r \o s)[k] = r[k]
  BY ConcatProperties, LenProperties
<1>2. k = Len(r) + Len(s)
  BY <1>1, LineFacts
<1>3. Len(s) = 0
  BY <1>1, <1>2
<1>4. s = <<>>
  BY <1>3, EmptySeq
<1> QED
  BY <1>1, <1>2, <1>3, <1>4, ConcatEmptySeq

(* A set of numbers that is not empty has a least one. *)
LEMMA SmallestInNat ==
  ASSUME NEW T, T \subseteq Nat, T # {}
  PROVE  \E i \in T : \A j \in T : i <= j
<1>1. IsWellFoundedOn(OpToRel(<, Nat), Nat)
  BY NatLessThanWellFounded
<1>2. PICK i \in T : \A j \in T : ~(<<j, i>> \in OpToRel(<, Nat))
  BY <1>1, WFMin
<1>3. \A j \in T : ~(j < i)
  BY <1>2 DEF OpToRel
<1> QED
  BY <1>3

(* Bytes that are concatenated in two ways. *)
LEMMA BytesAssociative ==
  \A a, b, d \in Seq(Byte) : a \o (b \o d) = (a \o b) \o d
<1> SUFFICES ASSUME NEW a \in Seq(Byte), NEW b \in Seq(Byte), NEW d \in Seq(Byte)
             PROVE  a \o (b \o d) = (a \o b) \o d
  OBVIOUS
<1>1. (a \o b) \o d = a \o (b \o d)
  BY ConcatAssociative
<1> QED
  BY <1>1, Zenon

----------------------------------------------------------------------------
(* The steps. *)

(* Before anybody has connected. *)
LEMMA InitOK == ProtocolInit => ProtocolInv
<1> SUFFICES ASSUME ProtocolInit
             PROVE  ProtocolInv
  OBVIOUS
<1> USE DEF ProtocolInit
<1>1. ProtocolType
  <2>1. server \in ServerState
    BY DEF Accepting, ServerState
  <2>2. [Away EXCEPT !.pc = "start"] \in ClientState
    BY DEF Away, ClientState
  <2>3. client \in [Client -> ClientState]
    BY <2>2
  <2>4. <<>> \in Seq(Byte) /\ <<>> \in Seq(ReplyLine) /\ <<>> \in Seq(Command)
        /\ <<>> \in Seq(Executed)
    BY EmptySeq
  <2>5. toServer \in [Client -> Seq(Byte)] /\ toClient \in [Client -> Seq(ReplyLine)]
        /\ sent \in [Client -> Seq(Command)] /\ done \in [Client -> Seq(Executed)]
    BY <2>4
  <2> QED
    BY <2>1, <2>3, <2>5 DEF ProtocolType
<1>2. ServerOK
  BY ProtocolAssumption DEF ServerOK, Accepting
<1>3. ASSUME NEW c \in Client
      PROVE  ClientOK(c)
  <2>1. client[c].pc = "start"
    BY DEF Away
  <2>2. Pending(c) = <<>>
    BY ProtocolAssumption DEF Pending, Accepting
  <2>3. Unstarted(c)
    BY DEF Unstarted
  <2> QED
    BY <2>1, <2>2, <2>3 DEF ClientOK, ConversationOK, Quiet, Unstarted
<1> QED
  BY <1>1, <1>2, <1>3 DEF ProtocolInv

(* A client that a step does not concern, though bytes of it may have gone *)
(* from the stream into the buffer.                                        *)
LEMMA Untouched ==
  ASSUME NEW c \in Client, ClientOK(c),
         client'[c] = client[c], sent'[c] = sent[c], done'[c] = done[c],
         toClient'[c] = toClient[c], c \in closed' <=> c \in closed,
         Pending(c)' = Pending(c),
         toServer'[c] = toServer[c] \/ sent[c] # <<>>
  PROVE  ClientOK(c)'
<1>1. client[c].pc = "start" => Unstarted(c)'
  BY DEF ClientOK, Unstarted
<1>2. InStep(c)' => InStep(c)
  BY DEF InStep
<1>3. Quiet(c) => Quiet(c)'
  BY DEF Quiet
<1>4. Asked(c) => Asked(c)'
  BY DEF Asked
<1>5. Answer(c) => Answer(c)'
  BY DEF Answer
<1>6. ConversationOK(c) => ConversationOK(c)'
  BY <1>3, <1>4, <1>5 DEF ConversationOK
<1> QED
  BY <1>1, <1>2, <1>6 DEF ClientOK

(* What the server knows of its buffer. *)
LEMMA RestFacts ==
  ASSUME ProtocolType, ServerOK
  PROVE  /\ Rest \in Seq(Byte)
         /\ Len(Rest) = Len(server.buf) - server.start
         /\ \A i \in 1..Len(Rest) : Rest[i] = server.buf[server.start + i]
<1> DEFINE b == server.buf
           k == server.start
<1>1. b \in Seq(Byte) /\ k \in Nat /\ k <= Len(b) /\ Len(b) \in Nat
  BY DEF ProtocolType, ServerState, ServerOK
<1> HIDE DEF b, k
<1>2. \A i \in (k + 1)..Len(b) : b[i] \in Byte
  BY <1>1, ElementOfSeq
<1>3. /\ SubSeq(b, k + 1, Len(b)) \in Seq(Byte)
      /\ Len(SubSeq(b, k + 1, Len(b))) =
           IF k + 1 <= Len(b) THEN Len(b) - (k + 1) + 1 ELSE 0
      /\ \A i \in 1..(Len(b) - (k + 1) + 1) :
           SubSeq(b, k + 1, Len(b))[i] = b[(k + 1) + i - 1]
  BY <1>1, <1>2, SubSeqProperties
<1>4. Rest = SubSeq(b, k + 1, Len(b))
  BY DEF Rest, b, k
<1>5. Len(Rest) = Len(b) - k
  BY <1>1, <1>3, <1>4
<1>6. ASSUME NEW i \in 1..Len(Rest)
      PROVE  Rest[i] = b[k + i]
  <2>1. (k + 1) + i - 1 = k + i
    BY <1>1
  <2> QED
    BY <2>1, <1>1, <1>3, <1>4, <1>5
<1> QED
  BY <1>3, <1>4, <1>5, <1>6 DEF b, k

(* do_server_command sends a command when nothing of an earlier one is     *)
(* under way.                                                              *)
LEMMA SendOK ==
  ASSUME ProtocolInv, NEW c \in Client, NEW cmd \in Command, Send(c, cmd),
         c \notin closed,
         InStep(c) => Quiet(c) /\ toClient[c] = <<>>
  PROVE  ProtocolInv'
<1> USE DEF ProtocolInv
<1>0. Line(cmd) \in Seq(Byte)
  BY LineFacts
<1>1. /\ toServer'[c] = toServer[c] \o Line(cmd)
      /\ sent'[c] = Append(sent[c], cmd)
      /\ client'[c] = [Away EXCEPT !.pc = "wait"]
      /\ UNCHANGED <<toClient, closed, server, done>>
      /\ \A d \in Client \ {c} : /\ toServer'[d] = toServer[d]
                                 /\ sent'[d] = sent[d]
                                 /\ client'[d] = client[d]
  BY DEF Send, ProtocolType
<1>2. toServer[c] \o Line(cmd) \in Seq(Byte)
  BY <1>0, ConcatProperties DEF ProtocolType
<1>3. Append(sent[c], cmd) \in Seq(Command) /\ Append(sent[c], cmd) # <<>>
  <2>1. sent[c] \in Seq(Command)
    BY DEF ProtocolType
  <2> QED
    BY <2>1, AppendProperties
<1>4. [Away EXCEPT !.pc = "wait"] \in ClientState
  BY DEF Away, ClientState
<1>5. ProtocolType'
  BY <1>2, <1>3, <1>4 DEF ProtocolType, Send
<1>6. ServerOK'
  <2>1. \A d \in Client : sent[d] # <<>> => sent'[d] # <<>>
    BY <1>1, <1>3
  <2>2. server.conn # None => server.conn \in Client
    BY DEF ProtocolType, ServerState
  <2> QED
    BY <1>1, <2>1, <2>2 DEF ServerOK
<1>7. ASSUME NEW d \in Client \ {c}
      PROVE  ClientOK(d)'
  <2>1. Pending(d)' = Pending(d)
    BY <1>1 DEF Pending, Rest
  <2> QED
    BY <1>1, <1>7, <2>1, Untouched
<1>8. ClientOK(c)'
  <2>1. client'[c].pc = "wait" /\ client'[c].from = {}
    BY <1>1 DEF Away
  <2>2. SUFFICES ASSUME InStep(c)'
                 PROVE  ConversationOK(c)'
    BY <2>1 DEF ClientOK
  <2>3. InStep(c)
    <3>1. sent[c] \in Seq(Command)
      BY DEF ProtocolType
    <3>2. /\ Len(sent'[c]) = Len(sent[c]) + 1
          /\ \A i \in 1..Len(sent[c]) : sent'[c][i] = sent[c][i]
          /\ sent'[c] \in Seq(Command)
      BY <1>1, <3>1, AppendProperties
    <3>3. DOMAIN sent[c] = 1..Len(sent[c]) /\ DOMAIN sent'[c] = 1..(Len(sent[c]) + 1)
      BY <3>1, <3>2
    <3>4. ToSet(sent[c]) \subseteq ToSet(sent'[c])
      BY <3>1, <3>2, <3>3 DEF ToSet
    <3> QED
      BY <2>2, <3>4 DEF InStep
  <2>4. Quiet(c) /\ toClient'[c] = <<>>
    BY <2>3, <1>1
  <2>5. Pending(c)' = Line(cmd)
    <3>1. toServer[c] \in Seq(Byte) /\ Rest \in Seq(Byte)
      BY RestFacts DEF ProtocolType
    <3>2. Rest' = Rest
      BY <1>1 DEF Rest
    <3>3. CASE server.conn = c
      <4>1. Pending(c)' = Rest \o (toServer[c] \o Line(cmd))
        BY <3>3, <3>2, <1>1 DEF Pending
      <4>2. Rest \o (toServer[c] \o Line(cmd)) = (Rest \o toServer[c]) \o Line(cmd)
        BY <3>1, <1>0, BytesAssociative
      <4>3. Rest \o toServer[c] = <<>>
        BY <2>4, <3>3 DEF Quiet, Pending
      <4> QED
        BY <4>1, <4>2, <4>3, <1>0, ConcatEmptySeq
    <3>4. CASE server.conn # c
      <4>1. Pending(c)' = toServer[c] \o Line(cmd) /\ toServer[c] = <<>>
        BY <3>4, <1>1, <2>4 DEF Pending, Quiet
      <4> QED
        BY <4>1, <1>0, ConcatEmptySeq
    <3> QED
      BY <3>3, <3>4
  <2>6. Asked(c)'
    BY <2>1, <2>4, <2>5, <1>1 DEF Asked, Quiet
  <2>7. Answer(c)'
    BY <2>4 DEF Answer
  <2> QED
    BY <2>1, <2>6, <2>7, <1>1 DEF ConversationOK
<1> QED
  BY <1>5, <1>6, <1>7, <1>8

(* What the loop of do_server_command makes of n lines: the client gives   *)
(* up, or reads on when no dot was among them, or is done at a dot.        *)
LEMMA ResponseFacts ==
  ASSUME ProtocolType, NEW c \in Client, client[c].pc = "wait",
         NEW n \in 1..Len(toClient[c]), Response(c, n)
  PROVE  \/ Gone(c)
         \/ \E m \in 1..n, s \in ClientState :
              /\ client' = [client EXCEPT ![c] = s]
              /\ s.from = client[c].from \cup {toClient[c][i].for : i \in 1..m}
              /\ \/ /\ s.pc = "wait" /\ m = n
                    /\ \A i \in 1..n : toClient[c][i].text # "dot"
                 \/ s.pc = "prompt" /\ toClient[c][m].text = "dot"
<1> DEFINE tc == toClient[c]
           lines == SubSeq(tc, 1, n)
           dots == {i \in 1..n : lines[i].text = "dot"}
           end == CHOOSE i \in dots : \A j \in dots : i <= j
           mine == IF dots = {} THEN lines ELSE SubSeq(lines, 1, end)
           state == client[c]
           st == IF ~ state.known /\ mine[1].text \in {"OK", "ERR"}
                 THEN mine[1].text ELSE state.status
           new == [state EXCEPT !.known = TRUE, !.status = st,
                     !.from = @ \cup {mine[i].for : i \in DOMAIN mine}]
<1>1. tc \in Seq(ReplyLine) /\ Len(tc) \in Nat /\ n \in 1..Len(tc)
  BY DEF ProtocolType
<1>2. state \in ClientState /\ state.pc = "wait"
  BY DEF ProtocolType
<1>3. Gone(c) \/ client' = [client EXCEPT ![c] =
                   IF dots = {} THEN new ELSE [new EXCEPT !.pc = "prompt"]]
  BY DEF Response
<1> HIDE DEF tc
<1>4. \A i \in 1..n : tc[i] \in ReplyLine
  BY <1>1, ElementOfSeq
<1>5. /\ lines \in Seq(ReplyLine) /\ Len(lines) = n
      /\ \A i \in 1..n : lines[i] = tc[i]
  <2>1. /\ lines \in Seq(ReplyLine)
        /\ Len(lines) = IF 1 <= n THEN n - 1 + 1 ELSE 0
        /\ \A i \in 1..(n - 1 + 1) : lines[i] = tc[1 + i - 1]
    BY <1>1, <1>4, SubSeqProperties
  <2>2. n - 1 + 1 = n /\ \A i \in 1..n : 1 + i - 1 = i
    BY <1>1
  <2> QED
    BY <2>1, <2>2, <1>1
<1>6. dots # {} => end \in dots
  <2> SUFFICES ASSUME dots # {}
               PROVE  end \in dots
    OBVIOUS
  <2>1. dots \subseteq Nat
    BY <1>1
  <2> HIDE DEF dots
  <2>2. \E i \in dots : \A j \in dots : i <= j
    BY <2>1, SmallestInNat
  <2> QED
    BY <2>2
<1> HIDE DEF lines, end
<1>7. PICK m \in 1..n : /\ mine \in Seq(ReplyLine) /\ Len(mine) = m
                        /\ \A i \in 1..m : mine[i] = tc[i]
                        /\ dots = {} => m = n
                        /\ dots # {} => tc[m].text = "dot"
  <2>1. CASE dots = {}
    BY <2>1, <1>5, <1>1
  <2>2. CASE dots # {}
    <3>1. end \in 1..n /\ lines[end].text = "dot"
      BY <2>2, <1>6
    <3>2. mine = SubSeq(lines, 1, end)
      BY <2>2
    <3>3. \A i \in 1..end : lines[i] \in ReplyLine /\ lines[i] = tc[i]
      BY <3>1, <1>4, <1>5
    <3>4. /\ SubSeq(lines, 1, end) \in Seq(ReplyLine)
          /\ Len(SubSeq(lines, 1, end)) = IF 1 <= end THEN end - 1 + 1 ELSE 0
          /\ \A i \in 1..(end - 1 + 1) : SubSeq(lines, 1, end)[i] = lines[1 + i - 1]
      BY <3>1, <3>3, SubSeqProperties
    <3>5. end - 1 + 1 = end /\ \A i \in 1..end : 1 + i - 1 = i
      BY <3>1
    <3>6. Len(mine) = end /\ mine \in Seq(ReplyLine)
          /\ \A i \in 1..end : mine[i] = lines[i]
      BY <3>1, <3>2, <3>4, <3>5
    <3>7. tc[end].text = "dot"
      BY <3>1, <3>3
    <3> QED
      BY <2>2, <3>1, <3>3, <3>6, <3>7
  <2> QED
    BY <2>1, <2>2
<1>8. dots = {} => \A i \in 1..n : tc[i].text # "dot"
  BY <1>5
<1> HIDE DEF mine, dots
<1>9. {mine[i].for : i \in DOMAIN mine} = {tc[i].for : i \in 1..m}
  <2>1. DOMAIN mine = 1..m
    BY <1>7
  <2> QED
    BY <2>1, <1>7
<1>10. {tc[i].for : i \in 1..m} \subseteq Nat
  BY <1>4, <1>7 DEF ReplyLine
<1>11. st \in {"OK", "ERR"}
  BY <1>2 DEF ClientState
<1> HIDE DEF st
<1>12. /\ new \in ClientState /\ new.pc = "wait"
       /\ new.from = client[c].from \cup {tc[i].for : i \in 1..m}
  BY <1>2, <1>9, <1>10, <1>11 DEF ClientState
<1> HIDE DEF new
<1>13. CASE client' = [client EXCEPT ![c] =
                         IF dots = {} THEN new ELSE [new EXCEPT !.pc = "prompt"]]
  <2>1. CASE dots = {}
    <3>1. client' = [client EXCEPT ![c] = new]
      BY <1>13, <2>1
    <3> QED
      BY <2>1, <3>1, <1>7, <1>8, <1>12 DEF tc
  <2>2. CASE dots # {}
    <3>1. client' = [client EXCEPT ![c] = [new EXCEPT !.pc = "prompt"]]
      BY <1>13, <2>2
    <3>2. [new EXCEPT !.pc = "prompt"] \in ClientState
          /\ [new EXCEPT !.pc = "prompt"].pc = "prompt"
          /\ [new EXCEPT !.pc = "prompt"].from = new.from
      BY <1>12 DEF ClientState
    <3> QED
      BY <2>2, <3>1, <3>2, <1>7, <1>12 DEF tc
  <2> QED
    BY <2>1, <2>2
<1> QED
  BY SMTT(30), <1>3, <1>13

(* Lines that were received are gone, the others are what they were. *)
LEMMA CutFacts ==
  ASSUME NEW S, NEW s \in Seq(S), NEW n \in 0..Len(s)
  PROVE  /\ SubSeq(s, n + 1, Len(s)) \in Seq(S)
         /\ Len(SubSeq(s, n + 1, Len(s))) = Len(s) - n
         /\ \A i \in 1..(Len(s) - n) : SubSeq(s, n + 1, Len(s))[i] = s[n + i]
<1>1. Len(s) \in Nat /\ n \in Nat /\ n <= Len(s)
  BY LenProperties
<1>2. \A i \in (n + 1)..Len(s) : s[i] \in S
  BY <1>1, ElementOfSeq
<1>3. /\ SubSeq(s, n + 1, Len(s)) \in Seq(S)
      /\ Len(SubSeq(s, n + 1, Len(s))) =
           IF n + 1 <= Len(s) THEN Len(s) - (n + 1) + 1 ELSE 0
      /\ \A i \in 1..(Len(s) - (n + 1) + 1) :
           SubSeq(s, n + 1, Len(s))[i] = s[(n + 1) + i - 1]
  BY <1>1, <1>2, SubSeqProperties
<1>4. Len(SubSeq(s, n + 1, Len(s))) = Len(s) - n
  BY <1>1, <1>3
<1>5. ASSUME NEW i \in 1..(Len(s) - n)
      PROVE  SubSeq(s, n + 1, Len(s))[i] = s[n + i]
  <2>1. (n + 1) + i - 1 = n + i /\ i \in 1..(Len(s) - (n + 1) + 1)
    BY <1>1
  <2> QED
    BY <2>1, <1>3
<1> QED
  BY <1>3, <1>4, <1>5

(* A client that goes away is not shown anything any more. *)
LEMMA GoneOK ==
  ASSUME ProtocolInv, NEW c \in Client, Gone(c), client[c].pc # "start",
         UNCHANGED <<toServer, closed, server, sent, done>>,
         toClient' \in [Client -> Seq(ReplyLine)],
         \A d \in Client \ {c} : toClient'[d] = toClient[d]
  PROVE  ProtocolInv'
<1> USE DEF ProtocolInv
<1>1. Away \in ClientState /\ Away.pc = "away"
  BY DEF Away, ClientState
<1>2. ProtocolType'
  BY <1>1 DEF ProtocolType, Gone
<1>3. ServerOK'
  BY DEF ServerOK
<1>4. \A d \in Client : Pending(d)' = Pending(d)
  BY DEF Pending, Rest
<1>5. ASSUME NEW d \in Client \ {c}
      PROVE  ClientOK(d)'
  <2>1. client'[d] = client[d]
    BY DEF Gone, ProtocolType
  <2> QED
    BY <1>4, <1>5, <2>1, Untouched
<1>6. ClientOK(c)'
  <2>1. client'[c].pc = "away"
    BY <1>1 DEF Gone, ProtocolType
  <2>2. InStep(c)' => InStep(c)
    BY DEF InStep
  <2>3. Quiet(c) => Quiet(c)'
    BY <1>4 DEF Quiet
  <2>4. Asked(c) => Asked(c)'
    BY <1>4, <2>1 DEF Asked
  <2> QED
    BY <2>1, <2>2, <2>3, <2>4 DEF ClientOK, ConversationOK
<1> QED
  BY <1>2, <1>3, <1>5, <1>6

(* do_server_command receives some lines. *)
LEMMA ReadOK ==
  ASSUME ProtocolInv, NEW c \in Client, Read(c)
  PROVE  ProtocolInv'
<1> USE DEF ProtocolInv
<1>1. PICK n \in 1..Len(toClient[c]) :
        /\ Response(c, n)
        /\ toClient' = [toClient EXCEPT ![c] =
                          SubSeq(toClient[c], n + 1, Len(toClient[c]))]
  BY DEF Read
<1>2. client[c].pc = "wait" /\ UNCHANGED <<toServer, closed, server, sent, done>>
  BY DEF Read
<1>3. toClient[c] \in Seq(ReplyLine) /\ Len(toClient[c]) \in Nat
  BY DEF ProtocolType
<1> DEFINE left == SubSeq(toClient[c], n + 1, Len(toClient[c]))
<1>4. /\ left \in Seq(ReplyLine) /\ Len(left) = Len(toClient[c]) - n
      /\ \A i \in 1..(Len(toClient[c]) - n) : left[i] = toClient[c][n + i]
  BY <1>3, CutFacts
<1> HIDE DEF left
<1>5. /\ toClient' \in [Client -> Seq(ReplyLine)] /\ toClient'[c] = left
      /\ \A d \in Client \ {c} : toClient'[d] = toClient[d]
  BY <1>1, <1>4 DEF ProtocolType, left
<1>6. CASE Gone(c)
  BY <1>2, <1>5, <1>6, GoneOK
<1>7. CASE \E m \in 1..n, s \in ClientState :
             /\ client' = [client EXCEPT ![c] = s]
             /\ s.from = client[c].from \cup {toClient[c][i].for : i \in 1..m}
             /\ \/ /\ s.pc = "wait" /\ m = n
                   /\ \A i \in 1..n : toClient[c][i].text # "dot"
                \/ s.pc = "prompt" /\ toClient[c][m].text = "dot"
  <2>1. PICK m \in 1..n, s \in ClientState :
             /\ client' = [client EXCEPT ![c] = s]
             /\ s.from = client[c].from \cup {toClient[c][i].for : i \in 1..m}
             /\ \/ /\ s.pc = "wait" /\ m = n
                   /\ \A i \in 1..n : toClient[c][i].text # "dot"
                \/ s.pc = "prompt" /\ toClient[c][m].text = "dot"
    BY <1>7
  <2>2. client'[c] = s /\ \A d \in Client \ {c} : client'[d] = client[d]
    BY <2>1 DEF ProtocolType
  <2>3. ProtocolType'
    BY <2>1, <1>2, <1>5 DEF ProtocolType
  <2>4. ServerOK'
    BY <1>2 DEF ServerOK
  <2>5. \A d \in Client : Pending(d)' = Pending(d)
    BY <1>2 DEF Pending, Rest
  <2>6. ASSUME NEW d \in Client \ {c}
        PROVE  ClientOK(d)'
    BY <2>5, <2>6, <2>2, <1>2, <1>5, Untouched
  <2>7. ClientOK(c)'
    <3>1. client'[c].pc \in {"wait", "prompt"}
      BY <2>1, <2>2
    <3>2. SUFFICES ASSUME InStep(c)
                   PROVE  ConversationOK(c)'
      BY <3>1, <1>2 DEF ClientOK, InStep
    <3>3. /\ client[c].from \subseteq {Len(sent[c])} /\ Answer(c)
          /\ c \notin closed => Quiet(c) \/ Asked(c)
          /\ c \in closed => IsPrefix(done[c], sent[c])
      BY <3>2, <1>2 DEF ClientOK, ConversationOK
    <3>4. toClient[c] # <<>>
      BY <1>1, <1>3
    <3>5. c \notin closed => Quiet(c)'
      BY <3>3, <3>4, <2>5, <1>2 DEF Asked, Quiet
    <3>6. \A i \in 1..m : toClient[c][i].for = Len(sent[c])
      BY <3>3, <1>1, <1>3, <2>1 DEF Answer
    <3>7. s.from = {Len(sent[c])}
      <4>1. {toClient[c][i].for : i \in 1..m} = {Len(sent[c])}
        BY <3>6, <2>1
      <4> QED
        BY <4>1, <2>1, <3>3
    <3>8. s.pc = "wait" => Answer(c)'
      <4> SUFFICES ASSUME NEW i \in 1..Len(left)
                   PROVE  /\ left[i].for = Len(sent[c])
                          /\ left[i].text = "dot" => i = Len(left)
        BY <1>2, <1>5 DEF Answer
      <4>1. left[i] = toClient[c][n + i] /\ n + i \in 1..Len(toClient[c])
        BY <1>3, <1>4
      <4>2. left[i].text = "dot" => n + i = Len(toClient[c])
        BY <4>1, <3>3 DEF Answer
      <4> QED
        BY <4>1, <4>2, <3>3, <1>3, <1>4 DEF Answer
    <3>9. s.pc = "prompt" => left = <<>>
      <4> SUFFICES ASSUME s.pc = "prompt"
                   PROVE  left = <<>>
        OBVIOUS
      <4>1. toClient[c][m].text = "dot" /\ m \in 1..Len(toClient[c])
        BY <2>1, <1>3
      <4>2. m = Len(toClient[c])
        BY <4>1, <3>3 DEF Answer
      <4>3. Len(left) = 0
        BY <4>2, <1>3, <1>4
      <4> QED
        BY <4>3, <1>4, EmptySeq
    <3> QED
      BY <3>1, <3>3, <3>5, <3>7, <3>8, <3>9, <2>2, <1>2, <1>5 DEF ConversationOK
  <2> QED
    BY <2>3, <2>4, <2>6, <2>7
<1> QED
  BY <1>1, <1>2, <1>6, <1>7, ResponseFacts

(* Whatever is left to execute, what was executed is a prefix of what was  *)
(* sent.                                                                   *)
LEMMA ExecutedIsPrefix ==
  ASSUME ProtocolInv, NEW c \in Client, InStep(c)
  PROVE  IsPrefix(done[c], sent[c])
<1>1. done[c] \in Seq(Executed) /\ Command \subseteq Executed
  BY DEF ProtocolInv, ProtocolType, Executed, Byte
<1>2. ConversationOK(c)
  BY DEF ProtocolInv, ClientOK
<1>3. CASE Quiet(c)
  BY <1>1, <1>3, PrefixFacts DEF Quiet
<1>4. CASE Asked(c)
  <2>1. PICK cmd \in Command : sent[c] = Append(done[c], cmd)
    BY <1>4 DEF Asked
  <2> QED
    BY <1>1, <2>1, PrefixFacts
<1> QED
  BY <1>2, <1>3, <1>4 DEF ConversationOK

(* control_thread accepts a connection, with an empty buffer. *)
LEMMA AcceptOK ==
  ASSUME ProtocolInv, NEW c \in Client, Accept(c)
  PROVE  ProtocolInv'
<1> USE DEF ProtocolInv
<1>1. /\ server' = [server EXCEPT !.pc = "recv", !.conn = c, !.buf = <<>>]
      /\ UNCHANGED <<toServer, toClient, closed, client, sent, done>>
      /\ server.pc = "accept" /\ c \notin closed /\ sent[c] # <<>>
  BY DEF Accept
<1>2. server.conn = None /\ server.start = 0 /\ server \in ServerState
  BY <1>1 DEF ServerOK, ProtocolType
<1>3. /\ server' \in ServerState /\ server'.pc = "recv" /\ server'.conn = c
      /\ server'.buf = <<>> /\ server'.start = 0
  <2>1. <<>> \in Seq(Byte)
    BY EmptySeq
  <2> QED
    BY <1>1, <1>2, <2>1 DEF ServerState
<1>4. ProtocolType'
  BY <1>1, <1>3 DEF ProtocolType
<1>5. ServerOK'
  BY <1>1, <1>3, ProtocolAssumption DEF ServerOK
<1>6. ASSUME NEW d \in Client
      PROVE  ClientOK(d)'
  <2>1. toServer[d] \in Seq(Byte)
    BY DEF ProtocolType
  <2>2. Rest' = <<>>
    BY <1>3, SubSeqEmpty DEF Rest
  <2>3. Pending(d)' = toServer[d]
    BY <1>1, <1>3, <2>1, <2>2, ConcatEmptySeq DEF Pending
  <2>4. Pending(d) = toServer[d]
    BY <1>2, ProtocolAssumption DEF Pending
  <2> QED
    BY <1>1, <2>3, <2>4, Untouched
<1> QED
  BY <1>4, <1>5, <1>6

(* control_thread closes a connection, after a command or without one. *)
LEMMA HangupOK ==
  ASSUME ProtocolInv, NEW c \in Client, server.conn = c, Hangup,
         UNCHANGED <<toServer, client, sent>>,
         toClient' \in [Client -> Seq(ReplyLine)],
         done' \in [Client -> Seq(Executed)],
         \A d \in Client \ {c} : toClient'[d] = toClient[d] /\ done'[d] = done[d],
         InStep(c) =>
           /\ IsPrefix(done'[c], sent[c])
           /\ client[c].pc = "wait" => Answer(c)'
           /\ client[c].pc = "prompt" => toClient'[c] = <<>>
  PROVE  ProtocolInv'
<1> USE DEF ProtocolInv
<1>1. /\ closed' = closed \cup {c}
      /\ server' = [Accepting EXCEPT !.buf = Rest]
  BY DEF Hangup, Rest
<1>2. Rest \in Seq(Byte) /\ Len(Rest) = Len(server.buf) - server.start
      /\ server.start \in Nat /\ Len(server.buf) \in Nat
      /\ server.start <= Len(server.buf) /\ Len(server.buf) <= BufSize
  BY RestFacts DEF ProtocolType, ServerState, ServerOK
<1>3. /\ server' \in ServerState /\ server'.pc = "accept" /\ server'.conn = None
      /\ server'.buf = Rest /\ server'.start = 0
  BY <1>1, <1>2 DEF Accepting, ServerState
<1>4. ProtocolType'
  BY <1>1, <1>3 DEF ProtocolType
<1>5. ServerOK'
  <2>1. 0 <= Len(Rest) /\ Len(Rest) <= BufSize
    BY <1>2, ProtocolAssumption
  <2> QED
    BY <1>3, <2>1 DEF ServerOK
<1>6. ASSUME NEW d \in Client \ {c}
      PROVE  ClientOK(d)'
  <2>1. Pending(d)' = Pending(d)
    BY <1>3, <1>6, ProtocolAssumption DEF Pending
  <2> QED
    BY <1>1, <1>6, <2>1, Untouched
<1>7. ClientOK(c)'
  <2>1. sent[c] # <<>>
    BY ProtocolAssumption DEF ServerOK
  <2>2. client'[c].pc # "start"
    BY <2>1 DEF ClientOK, Unstarted
  <2>3. SUFFICES ASSUME InStep(c)
                 PROVE  ConversationOK(c)'
    BY <2>2 DEF ClientOK, InStep
  <2>4. ConversationOK(c)
    BY <2>3 DEF ClientOK
  <2> QED
    BY <1>1, <2>3, <2>4 DEF ConversationOK
<1> QED
  BY <1>4, <1>5, <1>6, <1>7

(* A connection that is closed without a command being executed. *)
LEMMA HangupIdle ==
  ASSUME ProtocolInv, server.pc # "accept", Hangup,
         UNCHANGED <<toServer, toClient, client, sent, done>>
  PROVE  ProtocolInv'
<1>1. PICK c \in Client : server.conn = c
  BY DEF ProtocolInv, ServerOK, ProtocolType, ServerState
<1>2. toClient' \in [Client -> Seq(ReplyLine)] /\ done' \in [Client -> Seq(Executed)]
  BY DEF ProtocolInv, ProtocolType
<1>3. InStep(c) =>
           /\ IsPrefix(done'[c], sent[c])
           /\ client[c].pc = "wait" => Answer(c)'
           /\ client[c].pc = "prompt" => toClient'[c] = <<>>
  <2> SUFFICES ASSUME InStep(c)
               PROVE  /\ IsPrefix(done'[c], sent[c])
                      /\ client[c].pc = "wait" => Answer(c)'
                      /\ client[c].pc = "prompt" => toClient'[c] = <<>>
    OBVIOUS
  <2>1. IsPrefix(done[c], sent[c])
    BY <1>1, ExecutedIsPrefix
  <2>2. ConversationOK(c)
    BY <1>1 DEF ProtocolInv, ClientOK
  <2>3. Answer(c) => Answer(c)'
    BY SMTT(30) DEF Answer
  <2> QED
    BY <2>1, <2>2, <2>3 DEF ConversationOK
<1> QED
  BY <1>1, <1>2, <1>3, HangupOK

(* recv: bytes go from the stream to the end of the buffer. *)
LEMMA RecvOK ==
  ASSUME ProtocolInv, Recv
  PROVE  ProtocolInv'
<1>1. server.pc = "recv" /\ UNCHANGED <<toClient, client, sent, done>>
  BY DEF Recv
<1>2. PICK c \in Client : server.conn = c /\ server.start = 0 /\ server \in ServerState
  BY <1>1 DEF ProtocolInv, ServerOK, ProtocolType, ServerState
<1> DEFINE stream == toServer[c]
<1>3. CASE stream = <<>> /\ client[c].pc = "away" /\ Hangup /\ UNCHANGED toServer
  BY <1>1, <1>3, HangupIdle
<1>4. CASE \E n \in 1..Len(stream) :
             /\ n <= BufSize - Len(server.buf)
             /\ server' = [server EXCEPT !.pc = "scan",
                             !.buf = server.buf \o SubSeq(stream, 1, n)]
             /\ toServer' = [toServer EXCEPT ![c] =
                               SubSeq(stream, n + 1, Len(stream))]
             /\ UNCHANGED closed
  <2>1. PICK n \in 1..Len(stream) :
             /\ n <= BufSize - Len(server.buf)
             /\ server' = [server EXCEPT !.pc = "scan",
                             !.buf = server.buf \o SubSeq(stream, 1, n)]
             /\ toServer' = [toServer EXCEPT ![c] =
                               SubSeq(stream, n + 1, Len(stream))]
             /\ UNCHANGED closed
    BY <1>4
  <2> DEFINE b == server.buf
             got == SubSeq(stream, 1, n)
             left == SubSeq(stream, n + 1, Len(stream))
  <2>2. b \in Seq(Byte) /\ Len(b) \in Nat /\ stream \in Seq(Byte)
        /\ Len(stream) \in Nat
    BY <1>2 DEF ProtocolInv, ProtocolType, ServerState
  <2> HIDE DEF stream, b
  <2>3. left \in Seq(Byte)
    BY <2>2, CutFacts
  <2>4. got \in Seq(Byte) /\ Len(got) = n
    <3>1. \A i \in 1..n : stream[i] \in Byte
      BY <2>2, ElementOfSeq
    <3>2. got \in Seq(Byte) /\ Len(got) = IF 1 <= n THEN n - 1 + 1 ELSE 0
      BY <2>2, <3>1, SubSeqProperties
    <3> QED
      BY <2>2, <3>2
  <2>5. got \o left = stream
    <3>1. got \o left = SubSeq(stream, 1, Len(stream))
      BY <2>2, ConcatAdjacentSubSeq
    <3> QED
      BY <2>2, <3>1, SubSeqFull
  <2> HIDE DEF got, left
  <2>6. b \o got \in Seq(Byte) /\ Len(b \o got) = Len(b) + n
    BY <2>2, <2>4, ConcatProperties
  <2>7. /\ server' \in ServerState /\ server'.pc = "scan" /\ server'.conn = c
        /\ server'.buf = b \o got /\ server'.start = 0
    BY <1>2, <2>1, <2>6 DEF ServerState, b, got
  <2>8. /\ toServer' \in [Client -> Seq(Byte)] /\ toServer'[c] = left
        /\ \A d \in Client \ {c} : toServer'[d] = toServer[d]
    BY <1>2, <2>1, <2>3 DEF ProtocolInv, ProtocolType, left
  <2>9. ProtocolType'
    BY <1>1, <2>1, <2>7, <2>8 DEF ProtocolInv, ProtocolType
  <2>10. ServerOK'
    <3>1. 0 <= Len(b \o got) /\ Len(b \o got) <= BufSize
      BY <2>1, <2>2, <2>6, ProtocolAssumption DEF b
    <3>2. c \notin closed /\ sent[c] # <<>> /\ c # None
      BY <1>2, ProtocolAssumption DEF ProtocolInv, ServerOK
    <3> QED
      BY <1>1, <2>1, <2>7, <3>1, <3>2 DEF ServerOK
  <2>11. ASSUME NEW d \in Client
         PROVE  ClientOK(d)'
    <3>1. CASE d # c
      <4>1. Pending(d)' = Pending(d)
        BY <1>2, <2>7, <2>8, <3>1 DEF Pending
      <4> QED
        BY <1>1, <2>1, <2>8, <3>1, <4>1, Untouched DEF ProtocolInv
    <3>2. CASE d = c
      <4>1. Rest = b
        BY <1>2, <2>2, SubSeqFull DEF Rest, b
      <4>2. Rest' = b \o got
        BY <2>6, <2>7, SubSeqFull DEF Rest
      <4>3. Pending(c)' = (b \o got) \o left
        BY <2>7, <2>8, <4>2 DEF Pending
      <4>4. Pending(c) = b \o stream
        BY <1>2, <4>1 DEF Pending, stream
      <4>5. b \o (got \o left) = (b \o got) \o left
        BY SMTT(30), <2>2, <2>3, <2>4, BytesAssociative
      <4>6. Pending(c)' = Pending(c)
        BY <2>5, <4>3, <4>4, <4>5
      <4>7. sent[c] # <<>>
        BY <1>2, ProtocolAssumption DEF ProtocolInv, ServerOK
      <4> QED
        BY <1>1, <1>2, <2>1, <3>2, <4>6, <4>7, Untouched DEF ProtocolInv
    <3> QED
      BY <3>1, <3>2
  <2> QED
    BY <2>9, <2>10, <2>11 DEF ProtocolInv
<1> QED
  BY <1>2, <1>3, <1>4 DEF Recv

(* The loop over the buffer has found no newline: what is left goes to the *)
(* front, or the connection is closed.                                     *)
LEMMA CompactOK ==
  ASSUME ProtocolInv, Compact
  PROVE  ProtocolInv'
<1>1. server.pc = "scan" /\ UNCHANGED <<toServer, toClient, client, sent, done>>
  BY DEF Compact
<1>2. CASE Hangup
  BY <1>1, <1>2, HangupIdle
<1>3. CASE /\ server' = [server EXCEPT !.pc = "recv", !.start = 0, !.buf = Rest]
           /\ UNCHANGED closed
  <2>1. ProtocolType /\ ServerOK /\ server \in ServerState
    BY DEF ProtocolInv, ProtocolType
  <2>2. Rest \in Seq(Byte) /\ Len(Rest) = Len(server.buf) - server.start
        /\ server.start \in Nat /\ Len(server.buf) \in Nat
        /\ server.start <= Len(server.buf) /\ Len(server.buf) <= BufSize
    BY <2>1, RestFacts DEF ServerState, ServerOK
  <2>3. /\ server' \in ServerState /\ server'.pc = "recv"
        /\ server'.conn = server.conn /\ server'.buf = Rest /\ server'.start = 0
    BY <1>3, <2>1, <2>2 DEF ServerState
  <2>4. ProtocolType'
    BY <1>1, <1>3, <2>1, <2>3 DEF ProtocolType
  <2>5. ServerOK'
    <3>1. 0 <= Len(Rest) /\ Len(Rest) <= BufSize
      BY <2>2, ProtocolAssumption
    <3> QED
      BY <1>1, <1>3, <2>1, <2>3, <3>1 DEF ServerOK
  <2>6. Rest' = Rest
    <3>1. PICK rest \in Seq(Byte) : rest = Rest
      BY <2>2
    <3>2. Rest' = SubSeq(rest, 1, Len(rest))
      BY <2>3, <3>1 DEF Rest
    <3> QED
      BY <3>1, <3>2, SubSeqFull
  <2>7. ASSUME NEW d \in Client
        PROVE  ClientOK(d)'
    <3>1. Pending(d)' = Pending(d)
      BY <1>1, <2>3, <2>6 DEF Pending
    <3> QED
      BY <1>1, <1>3, <3>1, Untouched DEF ProtocolInv
  <2> QED
    BY <2>4, <2>5, <2>7 DEF ProtocolInv
<1> QED
  BY <1>2, <1>3 DEF Compact, Rest

(* The heart of the proof: the line that control_call is given is the one  *)
(* command that was not executed, and the last bytes that were sent.       *)
LEMMA DispatchFacts ==
  ASSUME ProtocolInv, NEW c \in Client, server.conn = c, InStep(c),
         NEW i \in Newlines
  PROVE  /\ client[c].pc # "prompt"
         /\ client[c].pc = "wait" => toClient[c] = <<>> /\ client[c].from = {}
         /\ i = Len(server.buf) /\ toServer[c] = <<>>
         /\ \E cm \in Command :
              /\ sent[c] = Append(done[c], cm)
              /\ CommandOf(SubSeq(server.buf, server.start + 1, i - 1)) = cm
<1>1. ProtocolType /\ ServerOK
  BY DEF ProtocolInv
<1>2. /\ server.buf \in Seq(Byte) /\ Len(server.buf) \in Nat /\ server.start \in Nat
      /\ toServer[c] \in Seq(Byte)
      /\ server.start <= Len(server.buf) /\ Len(server.buf) <= BufSize
  BY <1>1 DEF ProtocolType, ServerState, ServerOK
<1>3. i \in (server.start + 1)..Len(server.buf) /\ server.buf[i] = Newline
  BY DEF Newlines
<1>4. /\ Rest \in Seq(Byte)
      /\ Len(Rest) = Len(server.buf) - server.start
      /\ \A j \in 1..Len(Rest) : Rest[j] = server.buf[server.start + j]
  BY <1>1, RestFacts
<1> DEFINE k == i - server.start
<1>5. k \in 1..Len(Rest) /\ server.start + k = i
  BY <1>2, <1>3, <1>4
<1>6. Rest[k] = Newline
  BY <1>3, <1>4, <1>5
<1> HIDE DEF k
<1>7. Pending(c) = Rest \o toServer[c]
  BY DEF Pending
<1>8. ~ Quiet(c)
  <2>1. Len(Rest \o toServer[c]) = Len(Rest) + Len(toServer[c])
        /\ Len(toServer[c]) \in Nat
    BY ZenonT(60), <1>2, <1>4, ConcatProperties, LenProperties
  <2>2. Len(Rest) >= 1
    BY <1>2, <1>4, <1>5
  <2>3. Rest \o toServer[c] # <<>>
    BY <2>1, <2>2, <1>2, <1>4, EmptySeq
  <2> QED
    BY <1>7, <2>3 DEF Quiet
<1>9. Asked(c)
  <2>1. ClientOK(c) /\ c \notin closed
    BY <1>1, ProtocolAssumption DEF ProtocolInv, ServerOK
  <2> QED
    BY <1>8, <2>1 DEF ClientOK, ConversationOK
<1>10. PICK cm \in Command : sent[c] = Append(done[c], cm) /\ Pending(c) = Line(cm)
  BY <1>9 DEF Asked
<1>11. k = Len(Rest) /\ toServer[c] = <<>> /\ Rest = Line(cm)
  <2>1. PICK r \in Seq(Byte), s \in Seq(Byte) : r = Rest /\ s = toServer[c]
    BY <1>2, <1>4
  <2>2. r \o s = Line(cm) /\ k \in 1..Len(r) /\ r[k] = Newline
    BY <2>1, <1>5, <1>6, <1>7, <1>10
  <2>3. k = Len(r) /\ s = <<>> /\ r = Line(cm)
    BY <2>2, WholeLine
  <2> QED
    BY <2>1, <2>3
<1>12. Len(Rest) = 2 /\ Rest[1] = cm
  <2>0. BufSize \in Nat
    BY ProtocolAssumption
  <2>1. Len(Rest) <= BufSize
    <3>1. Len(Rest) = Len(server.buf) - server.start
      BY <1>4
    <3> QED
      BY <1>2, <2>0, <3>1
  <2>2. Len(Line(cm)) = (IF cm = "long" THEN BufSize + 1 ELSE 2) /\ Line(cm)[1] = cm
    BY LineFacts
  <2> QED
    BY <1>11, <2>0, <2>1, <2>2
<1>13. i = Len(server.buf) /\ i - 1 = server.start + 1
  <2>1. k = 2 /\ Len(server.buf) - server.start = 2
    BY <1>4, <1>11, <1>12
  <2>2. server.start + 2 = i
    BY <1>5, <2>1
  <2> QED
    BY <1>2, <2>1, <2>2
<1> DEFINE text == SubSeq(server.buf, server.start + 1, i - 1)
<1>14. text \in Seq(Byte) /\ Len(text) = 1 /\ text[1] = cm
  <2> DEFINE m == server.start + 1
  <2>1. m \in Int /\ i - 1 = m /\ m \in 1..Len(server.buf)
    BY <1>2, <1>13
  <2>2. server.buf[m] \in Byte
    BY <1>2, <2>1, ElementOfSeq
  <2>3. server.buf[m] = cm
    BY <1>4, <1>12
  <2> HIDE DEF m
  <2>4. /\ SubSeq(server.buf, m, m) \in Seq(Byte)
        /\ Len(SubSeq(server.buf, m, m)) = IF m <= m THEN m - m + 1 ELSE 0
        /\ \A j \in 1..(m - m + 1) : SubSeq(server.buf, m, m)[j] = server.buf[m + j - 1]
    <3>1. \A j \in m..m : server.buf[j] \in Byte
      BY <2>1, <2>2
    <3> QED
      BY <2>1, <3>1, SubSeqProperties
  <2>5. SubSeq(server.buf, m, m)[1] = server.buf[m] /\ Len(SubSeq(server.buf, m, m)) = 1
    <3>1. 1 \in 1..(m - m + 1) /\ m + 1 - 1 = m /\ m - m + 1 = 1
      BY <2>1
    <3>2. SubSeq(server.buf, m, m)[1] = server.buf[m + 1 - 1]
      BY <2>4, <3>1
    <3> QED
      BY <2>1, <2>4, <3>1, <3>2
  <2>6. text = SubSeq(server.buf, m, m)
    BY <2>1 DEF m
  <2> QED
    BY <2>3, <2>4, <2>5, <2>6
<1>15. CommandOf(text) = cm
  BY <1>14, CommandOfOne
<1> QED
  BY <1>9, <1>10, <1>11, <1>13, <1>15 DEF Asked

(* control_call. *)
LEMMA DispatchOK ==
  ASSUME ProtocolInv, Dispatch
  PROVE  ProtocolInv'
<1>1. ProtocolType /\ ServerOK /\ server \in ServerState
  BY DEF ProtocolInv, ProtocolType
<1>2. server.pc = "scan" /\ Newlines # {} /\ UNCHANGED <<toServer, client, sent>>
  BY DEF Dispatch
<1>3. PICK c \in Client : server.conn = c
  BY <1>1, <1>2 DEF ServerOK, ServerState
<1>4. PICK i \in Newlines :
        i = CHOOSE j \in Newlines : \A l \in Newlines : j <= l
  <2>1. Newlines \subseteq Nat
    BY <1>1 DEF Newlines, ServerState
  <2>2. \E j \in Newlines : \A l \in Newlines : j <= l
    BY <1>2, <2>1, SmallestInNat
  <2> QED
    BY <2>2
<1>5. /\ server.buf \in Seq(Byte) /\ Len(server.buf) \in Nat /\ server.start \in Nat
      /\ i \in (server.start + 1)..Len(server.buf) /\ i \in Nat
      /\ server.start <= Len(server.buf) /\ Len(server.buf) <= BufSize
  BY <1>1 DEF Newlines, ServerState, ServerOK
<1> DEFINE text == SubSeq(server.buf, server.start + 1, i - 1)
<1>6. text \in Seq(Byte)
  <2>1. \A j \in (server.start + 1)..(i - 1) : server.buf[j] \in Byte
    BY <1>5, ElementOfSeq
  <2> QED
    BY <1>5, <2>1, SubSeqProperties
<1>7. PICK cmd \in Executed : cmd = CommandOf(text)
  BY <1>6, CommandOfType
<1>8. PICK number \in Nat : number = Len(done[c]) + 1
  BY <1>1 DEF ProtocolType
<1> DEFINE conn == server.conn
           first == CHOOSE j \in Newlines : \A l \in Newlines : j <= l
           given == CommandOf(SubSeq(server.buf, server.start + 1, first - 1))
<1>a. /\ done' = [done EXCEPT ![conn] = Append(@, given)]
      /\ \E r \in Replies(given) :
           toClient' = IF client[conn].pc = "away" THEN toClient
                       ELSE [toClient EXCEPT ![conn] = @ \o
                               [j \in DOMAIN r |-> [text |-> r[j],
                                                    for |-> Len(done[conn]) + 1]]]
      /\ IF client[conn].pc = "away" \/ given = "exit" THEN Hangup
         ELSE /\ server' = Dispatched(Wipe(server.buf, server.start, first - 1), first)
              /\ UNCHANGED closed
  BY Zenon DEF Dispatch
<1>b. conn = c /\ first = i /\ given = cmd
  BY <1>3, <1>4, <1>7
<1> HIDE DEF conn, first, given
<1>9. done' = [done EXCEPT ![c] = Append(done[c], cmd)]
  BY <1>a, <1>b
<1>10. PICK r \in Replies(cmd) :
         toClient' = IF client[c].pc = "away" THEN toClient
                     ELSE [toClient EXCEPT ![c] = toClient[c] \o
                             [j \in DOMAIN r |-> [text |-> r[j], for |-> number]]]
  <2>1. PICK r \in Replies(given) :
          toClient' = IF client[conn].pc = "away" THEN toClient
                      ELSE [toClient EXCEPT ![conn] = @ \o
                              [j \in DOMAIN r |-> [text |-> r[j],
                                                   for |-> Len(done[conn]) + 1]]]
    BY <1>a, Zenon
  <2>2. number = Len(done[conn]) + 1
    BY <1>b, <1>8
  <2> QED
    BY <1>b, <2>1, <2>2, Zenon
<1>11. IF client[c].pc = "away" \/ cmd = "exit" THEN Hangup
       ELSE /\ server' = Dispatched(Wipe(server.buf, server.start, i - 1), i)
            /\ UNCHANGED closed
  BY <1>a, <1>b
<1> DEFINE lines == [j \in DOMAIN r |-> [text |-> r[j], for |-> number]]
<1>12. /\ lines \in Seq(ReplyLine) /\ Len(lines) = Len(r) /\ Len(r) \in Nat
       /\ \A j \in 1..Len(r) : lines[j].text = r[j] /\ lines[j].for = number
  <2>1. r \in Seq(ReplyText) /\ DOMAIN r = 1..Len(r) /\ Len(r) \in Nat
    BY ReplyFacts
  <2>2. \A j \in 1..Len(r) : [text |-> r[j], for |-> number] \in ReplyLine
    BY <2>1, ElementOfSeq DEF ReplyLine
  <2> QED
    BY <2>1, <2>2
<1> HIDE DEF lines
<1>13. /\ toClient' \in [Client -> Seq(ReplyLine)]
       /\ \A d \in Client \ {c} : toClient'[d] = toClient[d]
       /\ client[c].pc # "away" => toClient'[c] = toClient[c] \o lines
  <2>1. toClient[c] \in Seq(ReplyLine) /\ toClient \in [Client -> Seq(ReplyLine)]
    BY <1>1 DEF ProtocolType
  <2>2. toClient[c] \o lines \in Seq(ReplyLine)
    BY <2>1, <1>12, ConcatProperties
  <2>3. CASE client[c].pc = "away"
    BY <1>10, <2>1, <2>3
  <2>4. CASE client[c].pc # "away"
    <3>1. toClient' = [toClient EXCEPT ![c] = toClient[c] \o lines]
      BY <1>10, <2>4 DEF lines
    <3> QED
      BY <2>1, <2>2, <3>1
  <2> QED
    BY <2>3, <2>4
<1>14. /\ done' \in [Client -> Seq(Executed)] /\ done'[c] = Append(done[c], cmd)
       /\ \A d \in Client \ {c} : done'[d] = done[d]
  <2>1. done[c] \in Seq(Executed) /\ done \in [Client -> Seq(Executed)]
    BY <1>1 DEF ProtocolType
  <2>2. Append(done[c], cmd) \in Seq(Executed)
    BY <2>1, AppendProperties
  <2> QED
    BY <1>9, <2>1, <2>2
<1>15. ASSUME InStep(c)
       PROVE  /\ i = Len(server.buf) /\ toServer[c] = <<>> /\ done'[c] = sent[c]
              /\ client[c].pc # "prompt"
              /\ client[c].pc = "wait" => Answer(c)' /\ client[c].from = {}
  <2>1. /\ client[c].pc # "prompt"
        /\ client[c].pc = "wait" => toClient[c] = <<>> /\ client[c].from = {}
        /\ i = Len(server.buf) /\ toServer[c] = <<>>
        /\ \E cm \in Command :
              /\ sent[c] = Append(done[c], cm)
              /\ CommandOf(SubSeq(server.buf, server.start + 1, i - 1)) = cm
    BY <1>3, <1>15, DispatchFacts
  <2>2. cmd \in Command /\ sent[c] = Append(done[c], cmd)
    BY <2>1, <1>7
  <2>3. done[c] \in Seq(Executed) /\ sent[c] \in Seq(Command)
    BY <1>1 DEF ProtocolType
  <2>4. /\ Len(sent[c]) = Len(done[c]) + 1
        /\ sent[c][Len(done[c]) + 1] = cmd
    BY <2>2, <2>3, AppendProperties
  <2>5. cmd # "int"
    <3>1. Len(sent[c]) \in DOMAIN sent[c] /\ sent[c][Len(sent[c])] = cmd
      BY <2>3, <2>4
    <3>2. cmd \in ToSet(sent[c])
      BY <3>1 DEF ToSet
    <3> QED
      BY <3>2, <1>15 DEF InStep
  <2>6. ASSUME client[c].pc = "wait"
        PROVE  Answer(c)'
    <3>1. toClient'[c] = lines
      <4>1. toClient'[c] = <<>> \o lines
        BY <1>13, <2>1, <2>6
      <4> QED
        BY <4>1, <1>12, ConcatEmptySeq
    <3>2. \A j \in 1..Len(r) : r[j] = "dot" => j = Len(r)
      BY <2>5, ReplyFacts
    <3>3. number = Len(sent[c])
      BY <1>8, <2>4
    <3>4. \A j \in 1..Len(lines) : /\ lines[j].for = Len(sent[c])
                                   /\ lines[j].text = "dot" => j = Len(lines)
      BY <1>12, <3>2, <3>3
    <3> QED
      BY <1>2, <3>1, <3>4 DEF Answer
  <2> QED
    BY <2>1, <2>2, <2>6, <1>14
<1>16. CASE client[c].pc = "away" \/ cmd = "exit"
  <2>1. Hangup
    BY <1>11, <1>16
  <2>2. InStep(c) => IsPrefix(done'[c], sent[c])
    <3>1. done'[c] \in Seq(Executed)
      BY <1>14
    <3> QED
      BY <1>15, <3>1, PrefixFacts
  <2> QED
    BY <1>2, <1>3, <1>13, <1>14, <1>15, <2>1, <2>2, HangupOK
<1>17. CASE ~ (client[c].pc = "away" \/ cmd = "exit")
  <2> DEFINE w == Wipe(server.buf, server.start, i - 1)
  <2>1. server' = [server EXCEPT !.buf = w, !.start = i] /\ UNCHANGED closed
    BY <1>11, <1>17 DEF Dispatched
  <2>2. w \in Seq(Byte) /\ Len(w) = Len(server.buf)
    <3>1. DOMAIN server.buf = 1..Len(server.buf)
          /\ \A j \in 1..Len(server.buf) : server.buf[j] \in Byte
      BY <1>5, ElementOfSeq
    <3>2. Wiped \in Byte
      BY DEF Byte
    <3> QED
      BY <1>5, <3>1, <3>2 DEF Wipe
  <2> HIDE DEF w
  <2>3. /\ server' \in ServerState /\ server'.pc = "scan" /\ server'.conn = c
        /\ server'.buf = w /\ server'.start = i
    BY <1>1, <1>2, <1>3, <1>5, <2>1, <2>2 DEF ServerState
  <2>4. ProtocolType'
    BY <1>1, <1>2, <1>13, <1>14, <2>1, <2>3 DEF ProtocolType
  <2>5. ServerOK'
    BY <1>1, <1>2, <1>3, <1>5, <2>1, <2>2, <2>3, ProtocolAssumption DEF ServerOK
  <2>6. ASSUME NEW d \in Client \ {c}
        PROVE  ClientOK(d)'
    <3>1. Pending(d)' = Pending(d)
      BY <1>2, <1>3, <2>3, <2>6 DEF Pending
    <3> QED
      BY <1>2, <1>13, <1>14, <2>1, <2>6, <3>1, Untouched DEF ProtocolInv
  <2>7. ClientOK(c)'
    <3>1. sent[c] # <<>> /\ c \notin closed
      BY <1>1, <1>3, ProtocolAssumption DEF ServerOK
    <3>2. client'[c].pc # "start"
      BY <1>2, <3>1 DEF ProtocolInv, ClientOK, Unstarted
    <3>3. SUFFICES ASSUME InStep(c)
                   PROVE  ConversationOK(c)'
      BY <1>2, <3>2 DEF ClientOK, InStep
    <3>4. Rest' = <<>>
      BY <1>5, <1>15, <2>2, <2>3, <3>3, SubSeqEmpty DEF Rest
    <3>5. Pending(c)' = <<>> \o toServer[c]
      BY <1>2, <2>3, <3>4 DEF Pending
    <3>6. Pending(c)' = <<>>
      <4>1. toServer[c] = <<>> /\ <<>> \in Seq(Byte)
        BY <1>15, <3>3, EmptySeq
      <4> QED
        BY <3>5, <4>1, ConcatEmptySeq
    <3>7. Quiet(c)'
      BY <1>2, <1>15, <3>3, <3>6 DEF Quiet
    <3> QED
      BY <1>2, <1>15, <2>1, <3>1, <3>3, <3>7 DEF ConversationOK
  <2> QED
    BY <2>4, <2>5, <2>6, <2>7 DEF ProtocolInv
<1> QED
  BY <1>16, <1>17

----------------------------------------------------------------------------
(* The theorems. *)

(* Nothing happens. *)
LEMMA StutterOK ==
  ASSUME ProtocolInv, UNCHANGED vars
  PROVE  ProtocolInv'
<1> USE DEF ProtocolInv, vars
<1>1. ProtocolType' /\ ServerOK'
  BY DEF ProtocolType, ServerOK
<1>2. ASSUME NEW c \in Client
      PROVE  ClientOK(c)'
  <2>1. Pending(c)' = Pending(c)
    BY DEF Pending, Rest
  <2> QED
    BY <2>1, Untouched
<1> QED
  BY <1>1, <1>2

(* Every step of a client and of the control thread keeps the invariant.   *)
LEMMA NextOK ==
  ASSUME ProtocolInv, [ProtocolNext]_vars
  PROVE  ProtocolInv'
<1>1. ASSUME NEW c \in Client, Connect(c)
      PROVE  ProtocolInv'
  <2>1. Send(c, "info") /\ Unstarted(c)
    BY <1>1 DEF Connect, ProtocolInv, ClientOK
  <2>2. server.conn # c
    BY <2>1, ProtocolAssumption DEF ProtocolInv, ServerOK, Unstarted
  <2>3. Quiet(c)
    BY <2>1, <2>2 DEF Quiet, Unstarted, Pending
  <2> QED
    BY <2>1, <2>3, SendOK DEF Unstarted, Command
<1>2. ASSUME NEW c \in Client, NEW cmd \in Command, Type(c, cmd)
      PROVE  ProtocolInv'
  <2>1. client[c].pc = "prompt" /\ c \notin closed /\ Send(c, cmd)
    BY <1>2 DEF Type
  <2>2. InStep(c) => Quiet(c) /\ toClient[c] = <<>>
    BY <2>1 DEF ProtocolInv, ClientOK, ConversationOK, Asked
  <2> QED
    BY <2>1, <2>2, SendOK
<1>3. ASSUME NEW c \in Client, Reset(c) \/ Kill(c)
      PROVE  ProtocolInv'
  <2>1. /\ client[c].pc # "start" /\ Gone(c)
        /\ UNCHANGED <<toServer, toClient, closed, server, sent, done>>
    BY <1>3 DEF Reset, Kill
  <2>2. toClient' \in [Client -> Seq(ReplyLine)]
    BY <2>1 DEF ProtocolInv, ProtocolType
  <2> QED
    BY <2>1, <2>2, GoneOK
<1>4. CASE UNCHANGED vars
  BY <1>4, StutterOK
<1>5. CASE Finished
  BY <1>5, StutterOK DEF Finished
<1> QED
  BY <1>1, <1>2, <1>3, <1>4, <1>5, ReadOK, AcceptOK, RecvOK, DispatchOK, CompactOK
     DEF ProtocolNext, ServerStep

(* ProtocolInv is an invariant of the exchange on the control socket. *)
THEOREM ProtocolInvariant == ProtocolSpec => []ProtocolInv
<1>1. ProtocolInit => ProtocolInv
  BY InitOK
<1>2. ProtocolInv /\ [ProtocolNext]_vars => ProtocolInv'
  BY NextOK
<1> QED
  BY <1>1, <1>2, PTL DEF ProtocolSpec

(* A client that shows a response shows the one to its last command: the   *)
(* loop of do_server_command never takes a line of another response, for   *)
(* any number of clients and commands and any size of the buffer.          *)
THEOREM AnswersMatch == ProtocolSpec => []AnswerMatches
<1>1. ProtocolInv => AnswerMatches
  BY DEF ProtocolInv, ClientOK, ConversationOK, AnswerMatches
<1> QED
  BY <1>1, ProtocolInvariant, PTL

(* control_thread executes the commands of a client in the order in which  *)
(* they were sent and once each, however recv cuts the stream up and       *)
(* whatever an earlier client has left in the buffer.                      *)
THEOREM ServerExecutesWhatWasSent == ProtocolSpec => []ExecutesWhatWasSent
<1>1. ProtocolInv => ExecutesWhatWasSent
  BY ExecutedIsPrefix DEF ExecutesWhatWasSent
<1> QED
  BY <1>1, ProtocolInvariant, PTL

============================================================================
