---------------------------------- MODULE Ctl ----------------------------------
(***************************************************************************)
(* The control socket of a mount with -c: the server thread of fs.c        *)
(* (ctl_server, process_request) and the chironctl clients of ctl.c, over  *)
(* the replicas' flags that requests set meanwhile.                        *)
(*                                                                         *)
(* A message is a command code, the number of a replica, or an answer.     *)
(* One action is one call on a socket.  Clients may be killed at any time. *)
(* The server never closes a connection, so each costs the daemon a        *)
(* descriptor for good; its open files compete for the same limit.         *)
(*                                                                         *)
(* Of the kernel: a stream keeps its order, data written before a close    *)
(* can still be read, accept takes its descriptor before it waits (as      *)
(* Linux does), and FUSE has SIGPIPE ignored.  The backlog of 5 holds all  *)
(* clients.                                                                *)
(***************************************************************************)
EXTENDS Naturals, Sequences

CONSTANTS
  Clients,     \* chironctl processes, one at a time each
  MaxReplica,  \* config.max_replica
  Limit,       \* descriptors left for open files and connections
  MaxFiles,    \* of these, the most that open files use
  None         \* no client

Replicas == 0 .. MaxReplica - 1

ASSUME CtlAssumption ==
  /\ MaxReplica \in Nat \ {0} /\ Limit \in Nat /\ MaxFiles \in Nat
  /\ MaxFiles <= Limit /\ None \notin Clients

VARIABLES
  disabled,  \* replicas with config.replicas[i].disabled # 0
  files,     \* descriptors open files use
  sock,      \* the socket file exists
  srv,       \* where the server thread is; "off" and "exited": no daemon
  cfd,       \* the client it serves
  code, id,  \* in process_request: the command, `c'
  conns,     \* descriptors accept has taken
  queue,     \* clients that are connected and not accepted
  toServer, toClient,  \* the two streams of each connection
  pc,        \* where a client is
  question,  \* the number of its current question
  atAsk      \* history: replicas disabled when it asked

server == <<srv, cfd, code, id, conns>>
client == <<pc, question, atAsk>>
vars == <<disabled, files, sock, server, queue, toServer, toClient, client>>

(* Questions in the order of chironctl's main: number 0, then five of each  *)
(* replica.                                                                *)
Kinds == <<"path", "status", "priority", "read", "write">>

(* Mutant of LastQuestion: main loops while i <= max_replica.              *)
LastQuestionPastEnd == 5 * MaxReplica + 1
LastQuestion == 5 * MaxReplica

Kind(n) == IF n = 0 THEN "max" ELSE Kinds[((n - 1) % 5) + 1]
Subject(n) == IF n = 0 THEN 0 ELSE (n - 1) \div 5

(* Mutant of TakesReplica: no number is read for a path.                   *)
TakesReplicaButPath(k) == k \in {"status", "priority", "read", "write"}
(* Commands followed by the number of a replica.                           *)
TakesReplica(k) == k \in {"path", "status", "priority", "read", "write"}

CodeOf(k) == [type |-> "code", code |-> k, id |-> 0]
NumberOf(r) == [type |-> "id", code |-> "none", id |-> r]
Codes == {"max", "path", "status", "priority", "read", "write", "none"}

TypeOK ==
  /\ disabled \subseteq Replicas /\ files \in 0 .. MaxFiles /\ sock \in BOOLEAN
  /\ srv \in {"off", "exited", "bind", "listen", "call", "accept", "code", "id", "answer", "body"}
  /\ cfd \in Clients \cup {None} /\ code \in Codes /\ id \in Replicas
  /\ conns \in Nat /\ conns + files <= Limit
  /\ queue \in Seq(Clients)
  /\ toServer \in [Clients -> Seq([type : {"code", "id"}, code : Codes, id : Replicas])]
  /\ toClient \in
       [Clients -> Seq([kind : Codes \cup {"body"}, replica : Replicas, disabled : BOOLEAN])]
  /\ pc \in [Clients -> {"off", "lost", "code", "id", "answer", "body"}]
  /\ question \in [Clients -> 0 .. LastQuestion]
  /\ atAsk \in [Clients -> SUBSET Replicas]

Init ==
  /\ disabled = {} /\ files = 0 /\ sock = FALSE
  /\ srv = "bind" /\ cfd = None /\ code = "none" /\ id = 0 /\ conns = 0
  /\ queue = <<>>
  /\ toServer = [c \in Clients |-> <<>>] /\ toClient = [c \in Clients |-> <<>>]
  /\ pc = [c \in Clients |-> "off"]
  /\ question = [c \in Clients |-> 0]
  /\ atAsk = [c \in Clients |-> {}]

(* Mutant of Answer: the flag of the first replica.                        *)
AnswerFirst(k, r) == [kind |-> k, replica |-> r, disabled |-> k = "status" /\ 0 \in disabled]
(* An answer: the field k of replica r, read when it is written.           *)
Answer(k, r) == [kind |-> k, replica |-> r, disabled |-> k = "status" /\ r \in disabled]

Alive == srv \notin {"off", "exited"}

-----------------------------------------------------------------------------
(***************************************************************************)
(* The daemon.                                                             *)
(***************************************************************************)

(* The process ends, with its memory, descriptors and connections.         *)
Ends(how) ==
  /\ srv' = how /\ cfd' = None /\ code' = "none" /\ id' = 0
  /\ queue' = <<>>
  /\ toServer' = [c \in Clients |-> <<>>] /\ toClient' = [c \in Clients |-> <<>>]
  /\ pc' = [c \in Clients |-> IF pc[c] = "off" THEN "off" ELSE "lost"]
  /\ disabled' = {} /\ files' = 0 /\ conns' = 0
  /\ UNCHANGED <<sock, question, atAsk>>

(* bind creates the socket file; nothing ever removes it but the            *)
(* administrator.                                                          *)
Bind ==
  /\ srv = "bind" /\ ~sock /\ sock' = TRUE /\ srv' = "listen"
  /\ UNCHANGED <<disabled, files, cfd, code, id, conns, queue, toServer, toClient, client>>

Listen ==
  /\ srv = "listen" /\ srv' = "call"
  /\ UNCHANGED <<disabled, files, sock, cfd, code, id, conns, queue, toServer, toClient, client>>

(* socket, bind or listen fails, for the file that exists or for any other  *)
(* reason: exit(EXIT_FAILURE), the file system included.                   *)
SetupFails == srv \in {"bind", "listen"} /\ Ends("exited")

(* accept takes a descriptor, then waits for a client.                     *)
CallAccept ==
  /\ srv = "call" /\ conns + files < Limit
  /\ conns' = conns + 1 /\ srv' = "accept"
  /\ UNCHANGED <<disabled, files, sock, cfd, code, id, queue, toServer, toClient, client>>

(* EMFILE: exit(EXIT_FAILURE).                                             *)
CallAcceptFails == srv = "call" /\ conns + files >= Limit /\ Ends("exited")

Accept ==
  /\ srv = "accept" /\ queue # <<>>
  /\ cfd' = Head(queue) /\ queue' = Tail(queue) /\ srv' = "code"
  /\ UNCHANGED <<disabled, files, sock, code, id, conns, toServer, toClient, client>>

(* process_request returns -1: on to the next client.                      *)
Hangup ==
  /\ cfd' = None /\ code' = "none" /\ id' = 0 /\ srv' = "call"
  /\ UNCHANGED <<disabled, files, sock, conns, queue, toServer, toClient, client>>

Closed(c) == c # None /\ pc[c] = "off"
Incoming == IF cfd = None THEN <<>> ELSE toServer[cfd]

(* Mutant of EndOfFile: process_request returns 0.                         *)
EndOfFileIgnored ==
  /\ srv \in {"code", "id"} /\ Incoming = <<>> /\ Closed(cfd)
  /\ srv' = "code" /\ code' = "none" /\ id' = 0
  /\ UNCHANGED <<disabled, files, sock, cfd, conns, queue, toServer, toClient, client>>

(* read returns 0 instead of a code or of a number.                        *)
EndOfFile == srv \in {"code", "id"} /\ Incoming = <<>> /\ Closed(cfd) /\ Hangup

Consume ==
  /\ toServer' = [toServer EXCEPT ![cfd] = Tail(@)]
  /\ UNCHANGED <<disabled, files, sock, conns, queue, toClient, client>>

(* What the bytes of a message can mean to a server that has fallen out of  *)
(* step with its client: any command, or any number.                       *)
CodesIn(msg) == IF msg.type = "code" THEN {msg.code} ELSE Codes \cup {"done"}
NumbersIn(msg) == IF msg.type = "id" THEN {msg.id} ELSE 0 .. MaxReplica

(* The switch; an unknown code ("none") is ignored.                        *)
ReadCode ==
  /\ srv = "code" /\ Incoming # <<>>
  /\ \E k \in CodesIn(Head(Incoming)) :
       IF k = "done"
         THEN srv' = "call" /\ code' = "none" /\ id' = 0 /\ cfd' = None
         ELSE /\ srv' = IF k = "none" THEN "code" ELSE IF TakesReplica(k) THEN "id" ELSE "answer"
              /\ code' = k /\ UNCHANGED <<id, cfd>>
  /\ Consume

(* `c >= config.max_replica' ends the connection.                          *)
ReadId ==
  /\ srv = "id" /\ Incoming # <<>>
  /\ \E c \in NumbersIn(Head(Incoming)) :
       IF c \in Replicas
         THEN id' = c /\ srv' = "answer" /\ UNCHANGED <<code, cfd>>
         ELSE id' = 0 /\ srv' = "call" /\ code' = "none" /\ cfd' = None
  /\ Consume

Send(msg, next) ==
  /\ toClient' = [toClient EXCEPT ![cfd] = Append(@, msg)]
  /\ srv' = next
  /\ UNCHANGED <<disabled, files, sock, cfd, code, id, conns, queue, toServer, client>>

(* The answer; a path is its length, then its bytes.                       *)
WriteAnswer ==
  /\ srv = "answer" /\ ~Closed(cfd)
  /\ Send(Answer(code, id), IF code = "path" THEN "body" ELSE "code")

WriteBody == srv = "body" /\ ~Closed(cfd) /\ Send(Answer("body", id), "code")

(* EPIPE.                                                                  *)
WriteFails == srv \in {"answer", "body"} /\ Closed(cfd) /\ Hangup

Server ==
  \/ Bind \/ Listen \/ SetupFails \/ CallAccept \/ CallAcceptFails \/ Accept
  \/ EndOfFile \/ ReadCode \/ ReadId \/ WriteAnswer \/ WriteBody \/ WriteFails

(* The other threads of the daemon: requests open and release files, and    *)
(* disable replicas (disable_replica).                                     *)
OpenFile ==
  /\ Alive /\ files < MaxFiles /\ conns + files < Limit /\ files' = files + 1
  /\ UNCHANGED <<disabled, sock, server, queue, toServer, toClient, client>>

ReleaseFile ==
  /\ Alive /\ files > 0 /\ files' = files - 1
  /\ UNCHANGED <<disabled, sock, server, queue, toServer, toClient, client>>

Disable(r) ==
  /\ Alive /\ r \notin disabled /\ disabled' = disabled \cup {r}
  /\ UNCHANGED <<files, sock, server, queue, toServer, toClient, client>>

Unmount == Alive /\ Ends("off")

(* The administrator mounts again, every replica enabled, or removes the    *)
(* socket file left by the last mount.                                     *)
Mount ==
  /\ ~Alive /\ srv' = "bind"
  /\ UNCHANGED <<disabled, files, sock, cfd, code, id, conns, queue, toServer, toClient, client>>

RemoveSocket ==
  /\ ~Alive /\ sock /\ sock' = FALSE
  /\ UNCHANGED <<disabled, files, server, queue, toServer, toClient, client>>

-----------------------------------------------------------------------------
(***************************************************************************)
(* chironctl.                                                              *)
(***************************************************************************)

(* A new process; the last one's connection has been dealt with.           *)
Connect(c) ==
  /\ pc[c] = "off" /\ Alive /\ srv \notin {"bind", "listen"}
  /\ cfd # c /\ \A n \in 1 .. Len(queue) : queue[n] # c
  /\ pc' = [pc EXCEPT ![c] = "code"]
  /\ queue' = Append(queue, c)
  /\ toServer' = [toServer EXCEPT ![c] = <<>>]
  /\ UNCHANGED <<disabled, files, sock, server, toClient, question, atAsk>>

Write(c, msg, next) ==
  /\ toServer' = [toServer EXCEPT ![c] = Append(@, msg)]
  /\ pc' = [pc EXCEPT ![c] = next]
  /\ UNCHANGED <<disabled, files, sock, server, queue, toClient, question>>

SendCode(c) ==
  /\ pc[c] = "code"
  /\ Write(c, CodeOf(Kind(question[c])), IF question[c] = 0 THEN "answer" ELSE "id")
  /\ UNCHANGED atAsk

SendId(c) ==
  /\ pc[c] = "id"
  /\ Write(c, NumberOf(Subject(question[c])), "answer")
  /\ atAsk' = [atAsk EXCEPT ![c] = disabled]

(* The process ends: last question answered, killed, or connection lost.    *)
Exit(c) ==
  /\ pc' = [pc EXCEPT ![c] = "off"]
  /\ question' = [question EXCEPT ![c] = 0]
  /\ atAsk' = [atAsk EXCEPT ![c] = {}]
  /\ toClient' = [toClient EXCEPT ![c] = <<>>]
  /\ UNCHANGED <<disabled, files, sock, server, queue, toServer>>

NextQuestion(c) ==
  /\ pc' = [pc EXCEPT ![c] = "code"]
  /\ question' = [question EXCEPT ![c] = @ + 1]
  /\ atAsk' = [atAsk EXCEPT ![c] = {}]
  /\ toClient' = [toClient EXCEPT ![c] = Tail(@)]
  /\ UNCHANGED <<disabled, files, sock, server, queue, toServer>>

(* The length of a path has come; its bytes are next.                      *)
ReadLength(c) ==
  /\ pc[c] = "answer" /\ toClient[c] # <<>> /\ Kind(question[c]) = "path"
  /\ pc' = [pc EXCEPT ![c] = "body"]
  /\ toClient' = [toClient EXCEPT ![c] = Tail(@)]
  /\ UNCHANGED <<disabled, files, sock, server, queue, toServer, question, atAsk>>

ReadAnswer(c) ==
  /\ pc[c] = (IF Kind(question[c]) = "path" THEN "body" ELSE "answer")
  /\ toClient[c] # <<>>
  /\ IF question[c] = LastQuestion THEN Exit(c) ELSE NextQuestion(c)

Lost(c) == pc[c] = "lost" /\ Exit(c)

Killed(c) == pc[c] # "off" /\ Exit(c)

Chironctl(c) ==
  SendCode(c) \/ SendId(c) \/ ReadLength(c) \/ ReadAnswer(c) \/ Lost(c)

-----------------------------------------------------------------------------

Next ==
  \/ Server
  \/ OpenFile \/ ReleaseFile \/ (\E r \in Replicas : Disable(r))
  \/ Unmount \/ Mount \/ RemoveSocket
  \/ \E c \in Clients : Connect(c) \/ Chironctl(c) \/ Killed(c)

(* The server thread and the clients are scheduled.  Nothing is assumed of  *)
(* the requests, of who starts or kills a client, or of the administrator. *)
Spec == Init /\ [][Next]_vars /\ WF_vars(Server) /\ \A c \in Clients : WF_vars(Chironctl(c))

-----------------------------------------------------------------------------
(***************************************************************************)
(* Properties.                                                             *)
(***************************************************************************)

(* What a client reads next is the answer to its own question about the     *)
(* replica it asked for: client and server never fall out of step, however *)
(* earlier clients ended.                                                  *)
AnswersMatch ==
  \A c \in Clients : toClient[c] # <<>> =>
    /\ Head(toClient[c]).kind = (IF pc[c] = "body" THEN "body" ELSE Kind(question[c]))
    /\ Head(toClient[c]).replica = Subject(question[c])

(* A status is one the replica had between question and answer: reported    *)
(* disabled, it is; reported enabled, it was when the client asked.        *)
StatusIsRecent ==
  \A c \in Clients : \A n \in 1 .. Len(toClient[c]) :
    LET msg == toClient[c][n]
    IN  msg.kind = "status" =>
          /\ msg.disabled => msg.replica \in disabled
          /\ msg.replica \in atAsk[c] => msg.disabled

(* A client that waits for an answer does not wait for a server that waits  *)
(* for it: its question is on the way, or being answered, or it stands in   *)
(* the queue.  (No connection is ever closed under it.)                    *)
NoStalemate ==
  \A c \in Clients : (pc[c] \in {"answer", "body"} /\ toClient[c] = <<>>) =>
    IF cfd = c
      THEN toServer[c] # <<>> \/ srv \in {"answer", "body"}
      ELSE \E n \in 1 .. Len(queue) : queue[n] = c

(* Every client ends, served or cut off: none waits for ever behind others  *)
(* that were killed half-way through a command.                            *)
EveryClientEnds == \A c \in Clients : pc[c] # "off" ~> pc[c] = "off"

=============================================================================
