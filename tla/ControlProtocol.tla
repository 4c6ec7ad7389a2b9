-------------------------- MODULE ControlProtocol --------------------------
(***************************************************************************)
(* The exchange of commands and responses on the control socket, between   *)
(* control_thread (src/src/control.c) and scubed3ctl                       *)
(* (src/src/scubed3ctl.c).  A stream socket (external) delivers what was   *)
(* sent in order, in pieces of any size, until one end closes it.  The     *)
(* server serves one client; another one that has connected waits.         *)
(*                                                                         *)
(* To the server a command is a line of bytes, to the client a response is *)
(* a sequence of lines: the status, text, and a dot that ends it.  As a    *)
(* history, every line of a response has the number of the command that it *)
(* answers.                                                                *)
(***************************************************************************)
EXTENDS Integers, SequencesExt

CONSTANTS
  Client,     \* the runs of scubed3ctl
  None,       \* no client
  BufSize,    \* BUF_SIZE of the server
  Turns       \* bound: commands each client sends before it exits

(* ok: a command that succeeds without more; info: one that answers with   *)
(* text; wrong: one that fails (unknown, usage, busy, not found, ...);     *)
(* int: cycle or resize with a number that cannot be parsed; long: a line  *)
(* that does not fit the buffer; exit: the end of the conversation.        *)
Command == {"ok", "info", "wrong", "int", "long", "exit"}

ASSUME ProtocolAssumption ==
  /\ None \notin Client
  /\ BufSize \in Nat /\ BufSize >= 2
  /\ Turns \in [Client -> Nat]

VARIABLES
  toServer,  \* the bytes under way from every client
  toClient,  \* the lines under way to every client
  closed,    \* the connections that the server has closed
  server,    \* the local variables of control_thread
  client,    \* those of every scubed3ctl
  sent,      \* history: the commands that a client has sent
  done       \* history: those that the server has executed

vars == <<toServer, toClient, closed, server, client, sent, done>>

Newline == "newline"
Wiped == "wiped"  \* a byte that wipememory has overwritten

Byte == Command \cup {Newline, Wiped}

(* vwrite_line: a text of one byte, or one that fills the buffer. *)
Line(c) ==
  Append([i \in 1..(IF c = "long" THEN BufSize ELSE 1) |-> c], Newline)

(* conn is the client that is served, buf what was received from it, start *)
(* the number of bytes of buf that have been dealt with.                   *)
Accepting == [pc |-> "accept", conn |-> None, buf |-> <<>>, start |-> 0]

(* known and status: of the response that is being read; from: the numbers *)
(* of the commands that its lines answer.                                  *)
Away == [pc |-> "away", known |-> FALSE, status |-> "OK", from |-> {}]

ProtocolInit ==
  /\ toServer = [c \in Client |-> <<>>]
  /\ toClient = [c \in Client |-> <<>>]
  /\ closed = {}
  /\ server = Accepting
  /\ client = [c \in Client |-> [Away EXCEPT !.pc = "start"]]
  /\ sent = [c \in Client |-> <<>>]
  /\ done = [c \in Client |-> <<>>]

----------------------------------------------------------------------------
(* scubed3ctl *)

(* do_server_command, up to the point where it waits for the response. *)
Send(c, cmd) ==
  /\ toServer' = [toServer EXCEPT ![c] = @ \o Line(cmd)]
  /\ sent' = [sent EXCEPT ![c] = Append(@, cmd)]
  /\ client' = [client EXCEPT ![c] = [Away EXCEPT !.pc = "wait"]]
  /\ UNCHANGED <<toClient, closed, server, done>>

(* The program connects and asks for static-info. *)
Connect(c) ==
  /\ client[c].pc = "start"
  /\ Send(c, "info")

(* The user types a command.  The end of the session is a command too, and *)
(* it is the only one left when the bound is reached.                      *)
Type(c, cmd) ==
  /\ client[c].pc = "prompt"
  /\ c \notin closed
  /\ Len(sent[c]) < Turns[c] \/ cmd = "exit"
  /\ Send(c, cmd)

(* The client is gone: it was killed, or gave up. *)
Gone(c) == client' = [client EXCEPT ![c] = Away]

(* recv in do_server_command returns some lines, and the loop looks at     *)
(* them up to the dot that ends the response.  What was received behind it *)
(* is dropped, what was not is still under way.                            *)
Response(c, n) ==
  LET lines == SubSeq(toClient[c], 1, n)
      dots == {i \in 1..n : lines[i].text = "dot"}
      end == CHOOSE i \in dots : \A j \in dots : i <= j
      mine == IF dots = {} THEN lines ELSE SubSeq(lines, 1, end)
      state == client[c]
      isStatus == mine[1].text \in {"OK", "ERR"}
      malformed == ~ state.known /\ mine[1].text = "text"
      new == [state EXCEPT
                !.known = TRUE,
                !.status = IF ~ state.known /\ isStatus THEN mine[1].text
                           ELSE @,
                !.from = @ \cup {mine[i].for : i \in DOMAIN mine}]
  IN  IF malformed \/ (dots # {} /\ Last(sent[c]) = "exit") THEN Gone(c)
      ELSE client' = [client EXCEPT ![c] =
             IF dots = {} THEN new ELSE [new EXCEPT !.pc = "prompt"]]

Read(c) ==
  /\ client[c].pc = "wait"
  /\ \E n \in 1..Len(toClient[c]) :
       /\ Response(c, n)
       /\ toClient' = [toClient EXCEPT ![c] = SubSeq(@, n + 1, Len(@))]
  /\ UNCHANGED <<toServer, closed, server, sent, done>>

(* FATAL: the connection was closed by the server. *)
Reset(c) ==
  /\ client[c].pc \in {"wait", "prompt"}
  /\ c \in closed /\ toClient[c] = <<>>
  /\ Gone(c)
  /\ UNCHANGED <<toServer, toClient, closed, server, sent, done>>

(* The user kills the program. *)
Kill(c) ==
  /\ client[c].pc \in {"wait", "prompt"}
  /\ Gone(c)
  /\ UNCHANGED <<toServer, toClient, closed, server, sent, done>>

----------------------------------------------------------------------------
(* control_thread *)

(* buf_len is not reset (wrong variant, for mutation tests, like every     *)
(* definition whose name ends in _bad).                                    *)
Accept_bad(c) ==
  /\ server.pc = "accept" /\ c \notin closed /\ sent[c] # <<>>
  /\ server' = [server EXCEPT !.pc = "recv", !.conn = c]
  /\ UNCHANGED <<toServer, toClient, closed, client, sent, done>>

(* accept *)
Accept(c) ==
  /\ server.pc = "accept" /\ c \notin closed /\ sent[c] # <<>>
  /\ server' = [server EXCEPT !.pc = "recv", !.conn = c, !.buf = <<>>]
  /\ UNCHANGED <<toServer, toClient, closed, client, sent, done>>

(* Break out of the loop and close the connection; buf is what it was. *)
Hangup ==
  /\ closed' = closed \cup {server.conn}
  /\ server' = [Accepting EXCEPT !.buf = SubSeq(server.buf, server.start + 1,
                                                Len(server.buf))]

(* recv returns some bytes, as many as fit, or the end of the stream. *)
Recv ==
  LET c == server.conn
      stream == toServer[c]
      room == BufSize - Len(server.buf)
  IN  /\ server.pc = "recv"
      /\ \/ \E n \in 1..Len(stream) :
              /\ n <= room
              /\ server' = [server EXCEPT !.pc = "scan",
                              !.buf = @ \o SubSeq(stream, 1, n)]
              /\ toServer' = [toServer EXCEPT ![c] =
                                SubSeq(stream, n + 1, Len(stream))]
              /\ UNCHANGED closed
         \/ /\ stream = <<>> /\ client[c].pc = "away"
            /\ Hangup
            /\ UNCHANGED toServer
      /\ UNCHANGED <<toClient, client, sent, done>>

(* The positions of the newlines that have not been looked at. *)
Newlines == {i \in (server.start + 1)..Len(server.buf) :
               server.buf[i] = Newline}

(* control_call finds the command that the bytes up to the first zero      *)
(* stand for; an empty line is no command.                                 *)
CommandOf(bytes) ==
  IF bytes = <<>> \/ bytes[1] = Wiped THEN "empty"
  ELSE IF \A i \in 2..Len(bytes) : bytes[i] = Wiped THEN bytes[1]
  ELSE "wrong"

(* A failing command sends the end of its response twice; a listing is not *)
(* ended.                                                                  *)
Replies_bad(cmd) ==
  CASE cmd = "wrong" -> {<<"ERR", "text", "dot", "dot">>}
    [] cmd = "info" -> {<<"OK", "text", "dot">>}
    [] OTHER -> {<<"OK", "dot">>}

RepliesOpen_bad(cmd) ==
  CASE cmd = "wrong" -> {<<"ERR", "text", "dot">>}
    [] cmd = "info" -> {<<"OK", "text">>}
    [] OTHER -> {<<"OK", "dot">>}

(* The lines that a command sends.  parse_int answers and returns success, *)
(* and the command goes on with a number that was never set: it is taken   *)
(* for negative, or not.                                                   *)
Replies(cmd) ==
  CASE cmd = "wrong" -> {<<"ERR", "text", "dot">>}
    [] cmd = "info" -> {<<"OK", "text", "dot">>}
    [] cmd = "int" -> {<<"ERR", "text", "text", "dot", s, "text", "dot">> :
                         s \in {"OK", "ERR"}}
    [] OTHER -> {<<"OK", "dot">>}

(* wipememory(buf + start, i) for a newline at offset i. *)
Wipe(buf, start, i) ==
  [j \in DOMAIN buf |-> IF start < j /\ j <= start + i THEN Wiped ELSE buf[j]]

Dispatched(buf, i) == [server EXCEPT !.buf = buf, !.start = i]

(* control_call for the next line.  The connection is closed after exit,   *)
(* and when sending fails because the client is gone.                      *)
Dispatch ==
  LET c == server.conn
      i == CHOOSE i \in Newlines : \A j \in Newlines : i <= j
      cmd == CommandOf(SubSeq(server.buf, server.start + 1, i - 1))
      number == Len(done[c]) + 1
      gone == client[c].pc = "away"
  IN  /\ server.pc = "scan" /\ Newlines # {}
      /\ done' = [done EXCEPT ![c] = Append(@, cmd)]
      /\ \E r \in Replies(cmd) :
           toClient' = IF gone THEN toClient
                       ELSE [toClient EXCEPT ![c] = @ \o
                               [j \in DOMAIN r |-> [text |-> r[j],
                                                    for |-> number]]]
      /\ IF gone \/ cmd = "exit" THEN Hangup
         ELSE /\ server' = Dispatched(Wipe(server.buf, server.start, i - 1), i)
              /\ UNCHANGED closed
      /\ UNCHANGED <<toServer, client, sent>>

(* The rest of the loop: move what is left to the front of the buffer; if  *)
(* it is full, the command is too long.                                    *)
Compact ==
  /\ server.pc = "scan" /\ Newlines = {}
  /\ IF Len(server.buf) - server.start = BufSize THEN Hangup
     ELSE /\ server' = [server EXCEPT !.pc = "recv", !.start = 0,
                          !.buf = SubSeq(@, server.start + 1, Len(@))]
          /\ UNCHANGED closed
  /\ UNCHANGED <<toServer, toClient, client, sent, done>>

ServerStep == (\E c \in Client : Accept(c)) \/ Recv \/ Dispatch \/ Compact

(* Every client is done and the server waits for another one. *)
Finished ==
  /\ \A c \in Client : client[c].pc = "away"
  /\ server.pc = "accept" /\ closed = Client
  /\ UNCHANGED vars

ProtocolNext ==
  \/ \E c \in Client :
       \/ Connect(c) \/ Read(c) \/ Reset(c) \/ Kill(c)
       \/ \E cmd \in Command : Type(c, cmd)
  \/ ServerStep
  \/ Finished

(* The control thread runs, and so does a client that can read. *)
ProtocolSpec ==
  /\ ProtocolInit /\ [][ProtocolNext]_vars
  /\ WF_vars(ServerStep)
  /\ \A c \in Client : WF_vars(Read(c)) /\ WF_vars(Reset(c))

----------------------------------------------------------------------------
(* Nobody typed a number that cannot be parsed; parse_int answers that one *)
(* twice.                                                                  *)
InStep(c) == "int" \notin ToSet(sent[c])

(* The response that a client shows is the response to its last command,   *)
(* and to nothing else, however the lines were cut up on their way.        *)
AnswerMatches ==
  \A c \in Client :
    client[c].pc = "prompt" /\ InStep(c) => client[c].from = {Len(sent[c])}

(* The server executes what the client has sent, in that order and once,   *)
(* also when an earlier client was cut off in the middle of a command.     *)
ExecutesWhatWasSent ==
  \A c \in Client : InStep(c) => IsPrefix(done[c], sent[c])

(* A client that is being served gets its answer, or the connection ends.  *)
ServedIsAnswered ==
  \A c \in Client :
    client[c].pc = "wait" /\ server.conn = c ~> client[c].pc # "wait"
============================================================================
