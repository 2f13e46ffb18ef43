------------------------------ MODULE CtlProofs ------------------------------
(***************************************************************************)
(* The conversation over the control socket, for any number of clients,    *)
(* replicas and descriptors: however clients are killed and mounts end, an *)
(* answer is read by the question it belongs to, and a status is not older *)
(* than its question.                                                      *)
(***************************************************************************)
EXTENDS Ctl, TLAPS, SequenceTheorems

LEMMA TupleFacts ==
  ASSUME NEW a, NEW b
  PROVE  /\ <<a>> # <<>> /\ <<a, b>> # <<>>
         /\ Head(<<a>>) = a /\ Head(<<a, b>>) = a
         /\ Tail(<<a>>) = <<>> /\ Tail(<<a, b>>) = <<b>>
         /\ Append(<<>>, a) = <<a>> /\ Append(<<a>>, b) = <<a, b>>
<1>1. /\ <<a>> # <<>> /\ <<a, b>> # <<>>
      /\ Head(<<a>>) = a /\ Head(<<a, b>>) = a
  OBVIOUS
<1>2. Tail(<<a>>) = <<>>
  OBVIOUS
<1>3. Tail(<<a, b>>) = <<b>>
  OBVIOUS
<1>4. Append(<<>>, a) = <<a>>
  OBVIOUS
<1>5. Append(<<a>>, b) = <<a, b>>
  <2>1. <<a>> \in Seq({a, b}) /\ <<a, b>> \in Seq({a, b})
    OBVIOUS
  <2>2. Len(<<a>>) = 1 /\ Len(<<a, b>>) = 2 /\ <<a>>[1] = a /\ <<a, b>>[1] = a /\ <<a, b>>[2] = b
    OBVIOUS
  <2>3. /\ Append(<<a>>, b) \in Seq({a, b}) /\ Len(Append(<<a>>, b)) = 2
        /\ Append(<<a>>, b)[1] = a /\ Append(<<a>>, b)[2] = b
    <3>1. 1 \in 1 .. Len(<<a>>) /\ Len(<<a>>) + 1 = 2
      BY <2>2
    <3> QED BY <2>1, <2>2, <3>1, AppendProperties
  <2>4. \A n \in 1 .. 2 : Append(<<a>>, b)[n] = <<a, b>>[n]
    BY <2>2, <2>3
  <2> QED BY <2>1, <2>2, <2>3, <2>4, SeqEqual
<1> QED BY <1>1, <1>2, <1>3, <1>4, <1>5

(* One of the streams loses or gets a message.                             *)
LEMMA StreamStep ==
  ASSUME NEW S, NEW q \in [Clients -> Seq(S)], NEW c \in Clients
  PROVE  /\ \A m \in S : [q EXCEPT ![c] = Append(@, m)] \in [Clients -> Seq(S)]
         /\ [q EXCEPT ![c] = <<>>] \in [Clients -> Seq(S)]
         /\ q[c] # <<>> => /\ Head(q[c]) \in S
                           /\ [q EXCEPT ![c] = Tail(@)] \in [Clients -> Seq(S)]
<1>1. q[c] \in Seq(S) /\ <<>> \in Seq(S)
  BY EmptySeq
<1>2. \A m \in S : Append(q[c], m) \in Seq(S)
  BY <1>1, AppendProperties
<1>3. q[c] # <<>> => Head(q[c]) \in S /\ Tail(q[c]) \in Seq(S)
  BY <1>1, HeadTailProperties
<1> QED BY <1>1, <1>2, <1>3

(* chironctl's questions are about replicas of the mount, except the first. *)
LEMMA Questions ==
  ASSUME NEW n \in 0 .. LastQuestion
  PROVE  /\ Kind(n) \in Codes /\ Subject(n) \in Replicas
         /\ Kind(n) # "body"
         /\ n = 0 => Kind(n) = "max" /\ Subject(n) = 0
         /\ n # 0 => Kind(n) \in {"path", "status", "priority", "read", "write"}
<1>1. CASE n = 0
  BY <1>1, CtlAssumption DEF Kind, Subject, Codes, Replicas
<1>2. CASE n # 0
  <2>1. ((n - 1) % 5) + 1 \in 1 .. 5 /\ n \in 1 .. 5 * MaxReplica
    BY <1>2, CtlAssumption DEF LastQuestion
  <2>2. \A j \in 1 .. 5 : Kinds[j] \in {"path", "status", "priority", "read", "write"}
    BY DEF Kinds
  <2>3. (n - 1) \div 5 \in 0 .. MaxReplica - 1
    BY <2>1, CtlAssumption
  <2> QED BY <1>2, <2>1, <2>2, <2>3 DEF Kind, Subject, Codes, Replicas
<1> QED BY <1>1, <1>2

LEMMA NothingTaken ==
  /\ ~TakesReplica("max")
  /\ \A k \in {"path", "status", "priority", "read", "write"} : TakesReplica(k)
  BY DEF TakesReplica

-----------------------------------------------------------------------------
(***************************************************************************)
(* Types.                                                                  *)
(***************************************************************************)

Messages == [type : {"code", "id"}, code : Codes, id : Replicas]
Replies  == [kind : Codes \cup {"body"}, replica : Replicas, disabled : BOOLEAN]

(* The server serves somebody from accept until the end of the connection.  *)
ServerInv ==
  /\ cfd = None <=> srv \in {"off", "exited", "bind", "listen", "call", "accept"}
  /\ cfd = None => id = 0

LEMMA InitTyped == Init => TypeOK /\ ServerInv
<1> SUFFICES ASSUME Init PROVE TypeOK /\ ServerInv
  OBVIOUS
<1>1. 0 \in Replicas /\ <<>> \in Seq(Clients) /\ 0 \in 0 .. MaxFiles /\ 0 \in 0 .. LastQuestion
  BY CtlAssumption DEF Replicas, LastQuestion
<1>2. 0 + 0 <= Limit
  BY CtlAssumption
<1>3. \A S : [c \in Clients |-> <<>>] \in [Clients -> Seq(S)]
  BY EmptySeq
<1>4. /\ conns \in Nat /\ conns + files <= Limit
      /\ toServer \in [Clients -> Seq([type : {"code", "id"}, code : Codes, id : Replicas])]
      /\ toClient \in
           [Clients -> Seq([kind : Codes \cup {"body"}, replica : Replicas, disabled : BOOLEAN])]
  BY <1>2, <1>3 DEF Init
<1>5. ServerInv
  BY DEF Init, ServerInv
<1>6. pc \in [Clients -> {"off", "lost", "code", "id", "answer", "body"}]
  BY DEF Init
<1> QED BY <1>1, <1>4, <1>5, <1>6 DEF Init, TypeOK, Codes

LEMMA EndsTyped ==
  ASSUME TypeOK, NEW how \in {"off", "exited"}, Ends(how)
  PROVE  TypeOK' /\ ServerInv'
<1>1. 0 \in Replicas /\ <<>> \in Seq(Clients) /\ 0 \in 0 .. MaxFiles /\ 0 + 0 <= Limit
  BY CtlAssumption DEF Replicas
<1>2. pc' \in [Clients -> {"off", "lost", "code", "id", "answer", "body"}]
  BY DEF Ends, TypeOK
<1> QED BY <1>1, <1>2 DEF Ends, TypeOK, ServerInv, Codes

LEMMA TypedStep == TypeOK /\ ServerInv /\ [Next]_vars => TypeOK' /\ ServerInv'
<1> SUFFICES ASSUME TypeOK, ServerInv, [Next]_vars PROVE TypeOK' /\ ServerInv'
  OBVIOUS
<1> USE DEF server, client
<1>0. /\ 0 \in Replicas /\ None \notin Clients /\ 0 \in 0 .. LastQuestion
      /\ MaxFiles \in Nat /\ Limit \in Nat
  BY CtlAssumption DEF Replicas, LastQuestion
<1>1. CASE Bind \/ Listen
  BY <1>1 DEF Bind, Listen, TypeOK, ServerInv
<1>2. CASE SetupFails \/ CallAcceptFails \/ Unmount
  BY <1>2, EndsTyped DEF SetupFails, CallAcceptFails, Unmount
<1>3. CASE CallAccept
  <2>1. conns' \in Nat /\ conns' + files' <= Limit
    <3>1. /\ conns \in Nat /\ files \in Nat /\ conns + files < Limit
          /\ conns' = conns + 1 /\ files' = files
      BY <1>0, <1>3 DEF CallAccept, TypeOK
    <3> QED BY <1>0, <3>1
  <2> QED BY <1>0, <1>3, <2>1 DEF CallAccept, TypeOK, ServerInv
<1>4. CASE Accept
  <2>1. Head(queue) \in Clients /\ Tail(queue) \in Seq(Clients)
    BY <1>4 DEF Accept, TypeOK
  <2> QED BY <1>0, <1>4, <2>1 DEF Accept, TypeOK, ServerInv
<1>h. ASSUME Hangup PROVE TypeOK' /\ ServerInv'
  BY <1>0, <1>h DEF Hangup, TypeOK, ServerInv, Codes
<1>5. CASE EndOfFile \/ WriteFails
  BY <1>5, <1>h DEF EndOfFile, WriteFails
<1>c. ASSUME Consume, cfd # None, Incoming # <<>>
      PROVE  /\ Head(Incoming) \in Messages
             /\ toServer' \in [Clients -> Seq(Messages)]
  <2>1. /\ cfd \in Clients /\ toServer[cfd] # <<>> /\ Incoming = toServer[cfd]
        /\ toServer \in [Clients -> Seq(Messages)]
    BY <1>c DEF TypeOK, Messages, Incoming
  <2> QED BY <1>c, <2>1, StreamStep DEF Consume
<1>6. CASE ReadCode
  <2>1. Consume /\ cfd # None /\ Incoming # <<>>
    BY <1>6 DEF ReadCode, ServerInv
  <2>2. CodesIn(Head(Incoming)) \subseteq Codes \cup {"done"} /\ toServer' \in [Clients -> Seq(Messages)]
    BY <1>c, <2>1 DEF Messages, CodesIn
  <2>3. /\ code' \in Codes /\ id' \in Replicas
        /\ \/ srv' \in {"code", "id", "answer"} /\ cfd' = cfd
           \/ srv' = "call" /\ cfd' = None /\ id' = 0
    BY <1>0, <1>6, <2>2 DEF ReadCode, TypeOK, Codes
  <2> QED BY <2>1, <2>2, <2>3 DEF Consume, TypeOK, ServerInv, Messages
<1>7. CASE ReadId
  <2>1. Consume /\ cfd # None /\ Incoming # <<>>
    BY <1>7 DEF ReadId, ServerInv
  <2>2. toServer' \in [Clients -> Seq(Messages)]
    BY <1>c, <2>1
  <2>3. /\ code' \in Codes /\ id' \in Replicas
        /\ \/ srv' = "answer" /\ cfd' = cfd
           \/ srv' = "call" /\ cfd' = None /\ id' = 0
    BY <1>0, <1>7 DEF ReadId, TypeOK, Codes
  <2> QED BY <2>1, <2>2, <2>3 DEF Consume, TypeOK, ServerInv, Messages
<1>s. ASSUME NEW msg \in Replies, NEW next \in {"code", "body"}, cfd # None, Send(msg, next)
      PROVE  TypeOK' /\ ServerInv'
  <2>1. cfd \in Clients /\ toClient \in [Clients -> Seq(Replies)]
    BY <1>s DEF TypeOK, Replies
  <2>2. toClient' \in [Clients -> Seq(Replies)]
    BY <1>s, <2>1, StreamStep DEF Send
  <2> QED BY <1>s, <2>2 DEF Send, TypeOK, ServerInv, Replies
<1>8. CASE WriteAnswer
  <2>1. Answer(code, id) \in Replies
    BY DEF Answer, Replies, TypeOK
  <2> QED BY <1>8, <1>s, <2>1 DEF WriteAnswer, ServerInv
<1>9. CASE WriteBody
  <2>1. Answer("body", id) \in Replies
    BY DEF Answer, Replies, TypeOK
  <2> QED BY <1>9, <1>s, <2>1 DEF WriteBody, ServerInv
<1>10. CASE OpenFile \/ ReleaseFile
  <2>1. files' \in 0 .. MaxFiles /\ conns' = conns /\ conns + files' <= Limit
    <3>1. /\ conns \in Nat /\ files \in 0 .. MaxFiles /\ conns + files <= Limit
          /\ conns' = conns
          /\ \/ files < MaxFiles /\ conns + files < Limit /\ files' = files + 1
             \/ files > 0 /\ files' = files - 1
      BY <1>10 DEF OpenFile, ReleaseFile, TypeOK
    <3> QED BY <1>0, <3>1
  <2> QED BY <1>10, <2>1 DEF OpenFile, ReleaseFile, TypeOK, ServerInv
<1>11. ASSUME NEW r \in Replicas, Disable(r) PROVE TypeOK' /\ ServerInv'
  BY <1>11 DEF Disable, TypeOK, ServerInv
<1>12. CASE Mount
  BY <1>12 DEF Mount, Alive, TypeOK, ServerInv
<1>13. CASE RemoveSocket
  BY <1>13 DEF RemoveSocket, TypeOK, ServerInv
<1>14. ASSUME NEW c \in Clients, Connect(c) PROVE TypeOK' /\ ServerInv'
  <2>1. Append(queue, c) \in Seq(Clients) /\ <<>> \in Seq(Messages)
    BY DEF TypeOK
  <2> QED BY <1>14, <2>1 DEF Connect, TypeOK, ServerInv, Messages
<1>w. ASSUME NEW c \in Clients, NEW msg \in Messages, NEW next \in {"id", "answer"},
             Write(c, msg, next), atAsk' \in [Clients -> SUBSET Replicas]
      PROVE  TypeOK' /\ ServerInv'
  <2>1. toServer \in [Clients -> Seq(Messages)]
    BY DEF TypeOK, Messages
  <2>2. toServer' \in [Clients -> Seq(Messages)]
    BY <1>w, <2>1, StreamStep DEF Write
  <2> QED BY <1>w, <2>2 DEF Write, TypeOK, ServerInv, Messages
<1>15. ASSUME NEW c \in Clients, SendCode(c) PROVE TypeOK' /\ ServerInv'
  <2>1. CodeOf(Kind(question[c])) \in Messages
    BY <1>0, Questions DEF CodeOf, Messages, TypeOK
  <2> QED BY <1>15, <1>w, <2>1 DEF SendCode, TypeOK
<1>16. ASSUME NEW c \in Clients, SendId(c) PROVE TypeOK' /\ ServerInv'
  <2>1. NumberOf(Subject(question[c])) \in Messages
    BY <1>0, Questions DEF NumberOf, Messages, TypeOK, Codes
  <2>2. atAsk' \in [Clients -> SUBSET Replicas]
    BY <1>16 DEF SendId, TypeOK
  <2> QED BY <1>16, <1>w, <2>1, <2>2 DEF SendId
<1>17. ASSUME NEW c \in Clients, Exit(c) PROVE TypeOK' /\ ServerInv'
  <2>1. <<>> \in Seq(Replies)
    OBVIOUS
  <2> QED BY <1>0, <1>17, <2>1 DEF Exit, TypeOK, ServerInv, Replies
<1>t. ASSUME NEW c \in Clients, toClient[c] # <<>>
      PROVE  [toClient EXCEPT ![c] = Tail(@)] \in [Clients -> Seq(Replies)]
  BY <1>t, StreamStep DEF TypeOK, Replies
<1>18. ASSUME NEW c \in Clients, ReadLength(c) PROVE TypeOK' /\ ServerInv'
  <2>1. toClient' \in [Clients -> Seq(Replies)]
    BY <1>18, <1>t DEF ReadLength, TypeOK, Replies
  <2> QED BY <1>18, <2>1 DEF ReadLength, TypeOK, ServerInv, Replies
<1>19. ASSUME NEW c \in Clients, ReadAnswer(c) PROVE TypeOK' /\ ServerInv'
  <2>1. CASE question[c] = LastQuestion
    BY <1>17, <1>19, <2>1 DEF ReadAnswer
  <2>2. CASE question[c] # LastQuestion
    <3>1. toClient' \in [Clients -> Seq(Replies)]
      BY <1>19, <1>t, <2>2 DEF ReadAnswer, NextQuestion, TypeOK, Replies
    <3>2. question[c] + 1 \in 0 .. LastQuestion
      <4>1. LastQuestion \in Nat /\ question[c] \in 0 .. LastQuestion
        BY CtlAssumption DEF TypeOK, LastQuestion
      <4> QED BY <2>2, <4>1
    <3>3. question' \in [Clients -> 0 .. LastQuestion]
      BY <1>19, <2>2, <3>2 DEF ReadAnswer, NextQuestion, TypeOK
    <3> QED BY <1>19, <2>2, <3>1, <3>3 DEF ReadAnswer, NextQuestion, TypeOK, ServerInv, Replies
  <2> QED BY <2>1, <2>2
<1>20. ASSUME NEW c \in Clients, Lost(c) \/ Killed(c) PROVE TypeOK' /\ ServerInv'
  BY <1>17, <1>20 DEF Lost, Killed
<1>21. CASE UNCHANGED vars
  BY <1>21 DEF vars, TypeOK, ServerInv
<1> QED
  BY <1>1, <1>2, <1>3, <1>4, <1>5, <1>6, <1>7, <1>8, <1>9, <1>10, <1>11, <1>12, <1>13,
     <1>14, <1>15, <1>16, <1>18, <1>19, <1>20, <1>21
  DEF Next, Server, Chironctl

(* Messages carry codes and replicas of the mount, and connections and open *)
(* files stay within the limit (fs.c:1564-1704, ctl.c:20-225).             *)
THEOREM CtlTyped == Spec => []TypeOK
<1>1. Init => TypeOK /\ ServerInv
  BY InitTyped
<1>2. TypeOK /\ ServerInv /\ [Next]_vars => TypeOK' /\ ServerInv'
  BY TypedStep
<1> QED BY <1>1, <1>2, PTL DEF Spec

-----------------------------------------------------------------------------
(***************************************************************************)
(* Client and server in step.  A client that is being served is at one of  *)
(* these points of its question, with these messages under way; one that   *)
(* waits to be accepted has at most sent its first question.               *)
(***************************************************************************)

Live(c)  == pc[c] \in {"code", "id", "answer", "body"}
Waits(c) == \E n \in 1 .. Len(queue) : queue[n] = c

Early(c) ==
  /\ question[c] = 0 /\ toClient[c] = <<>>
  /\ \/ pc[c] = "code" /\ toServer[c] = <<>>
     \/ pc[c] = "answer" /\ toServer[c] = <<CodeOf("max")>>

(* m is the reply k to the question the client is at.                      *)
Replies1(c, k, m) == m.kind = k /\ m.replica = Subject(question[c])

(* The server reads a code: nothing sent, or the code, or the number too.   *)
AtCode(c, k) ==
  /\ srv = "code" /\ toClient[c] = <<>> /\ (question[c] = 0 => id = 0)
  /\ \/ pc[c] = "code" /\ toServer[c] = <<>>
     \/ pc[c] = "id" /\ question[c] # 0 /\ toServer[c] = <<CodeOf(k)>>
     \/ pc[c] = "answer" /\ question[c] = 0 /\ toServer[c] = <<CodeOf(k)>>
     \/ /\ pc[c] = "answer" /\ question[c] # 0
        /\ toServer[c] = <<CodeOf(k), NumberOf(Subject(question[c]))>>

AtId(c, k) ==
  /\ srv = "id" /\ code = k /\ question[c] # 0 /\ toClient[c] = <<>>
  /\ \/ pc[c] = "id" /\ toServer[c] = <<>>
     \/ pc[c] = "answer" /\ toServer[c] = <<NumberOf(Subject(question[c]))>>

AtAnswer(c, k) ==
  /\ srv = "answer" /\ code = k /\ id = Subject(question[c])
  /\ pc[c] = "answer" /\ toServer[c] = <<>> /\ toClient[c] = <<>>

AtBody(c, k) ==
  /\ srv = "body" /\ id = Subject(question[c]) /\ k = "path" /\ toServer[c] = <<>>
  /\ \/ pc[c] = "answer" /\ \E m : toClient[c] = <<m>> /\ Replies1(c, k, m)
     \/ pc[c] = "body" /\ toClient[c] = <<>>

(* The server has answered; the client has not read it all.                *)
Answered(c, k) ==
  /\ srv = "code" /\ toServer[c] = <<>>
  /\ \/ pc[c] = "answer" /\ k # "path" /\ \E m : toClient[c] = <<m>> /\ Replies1(c, k, m)
     \/ /\ pc[c] = "answer" /\ k = "path"
        /\ \E m, n : toClient[c] = <<m, n>> /\ Replies1(c, k, m) /\ Replies1(c, "body", n)
     \/ pc[c] = "body" /\ k = "path" /\ \E m : toClient[c] = <<m>> /\ Replies1(c, "body", m)

InStep(c) ==
  LET k == Kind(question[c])
  IN  AtCode(c, k) \/ AtId(c, k) \/ AtAnswer(c, k) \/ AtBody(c, k) \/ Answered(c, k)

Placed(c) ==
  /\ Live(c) => (cfd = c /\ InStep(c)) \/ (cfd # c /\ Waits(c) /\ Early(c))
  /\ ~Live(c) => toClient[c] = <<>>
  /\ pc[c] = "lost" => cfd # c /\ ~Waits(c)
  /\ pc[c] = "off" => question[c] = 0

CtlInv == TypeOK /\ ServerInv /\ \A c \in Clients : Placed(c)

LEMMA PlacedMatches ==
  ASSUME NEW c \in Clients, Placed(c), toClient[c] # <<>>
  PROVE  /\ Head(toClient[c]).kind = (IF pc[c] = "body" THEN "body" ELSE Kind(question[c]))
         /\ Head(toClient[c]).replica = Subject(question[c])
<1>1. InStep(c)
  BY DEF Placed, Early
<1>2. CASE AtBody(c, Kind(question[c])) \/ Answered(c, Kind(question[c]))
  BY <1>2, TupleFacts DEF AtBody, Answered, Replies1
<1> QED BY <1>1, <1>2 DEF InStep, AtCode, AtId, AtAnswer

(* A client the step does not concern: it is not the one that is served, or *)
(* the server does not move.                                               *)
LEMMA Undisturbed ==
  ASSUME NEW c \in Clients, Placed(c), Waits(c) <=> Waits(c)',
         pc'[c] = pc[c], question'[c] = question[c],
         toServer'[c] = toServer[c], toClient'[c] = toClient[c],
         \/ cfd # c /\ cfd' # c
         \/ UNCHANGED <<cfd, srv, code, id>>
  PROVE  Placed(c)'
<1>1. CASE cfd # c /\ cfd' # c
  BY <1>1 DEF Placed, Live, Early
<1>2. CASE UNCHANGED <<cfd, srv, code, id>>
  <2>1. ASSUME InStep(c) PROVE InStep(c)'
    BY <1>2, <2>1 DEF InStep, AtCode, AtId, AtAnswer, AtBody, Answered, Replies1
  <2> QED BY <1>2, <2>1 DEF Placed, Live, Early
<1> QED BY <1>1, <1>2

(* A client that ended, or was killed, while the server served it.          *)
LEMMA Absent ==
  ASSUME NEW c \in Clients, ~Live(c), Placed(c), Waits(c)' => Waits(c), cfd' \in {cfd, None},
         c # None, pc'[c] = pc[c], question'[c] = question[c], toClient'[c] = toClient[c]
  PROVE  Placed(c)'
  BY DEF Placed, Live

LEMMA ServerStep ==
  ASSUME CtlInv, Server, NEW c \in Clients
  PROVE  Placed(c)'
<1> USE DEF server, client
<1>0. /\ TypeOK /\ ServerInv /\ Placed(c) /\ c # None
      /\ question[c] \in 0 .. LastQuestion
  BY CtlAssumption DEF CtlInv, TypeOK
<1>e. ASSUME NEW how, Ends(how) PROVE Placed(c)'
  <2>1. /\ pc'[c] \in {"off", "lost"}
        /\ pc'[c] = "off" => pc[c] = "off"
        /\ question'[c] = question[c] /\ toClient'[c] = <<>> /\ queue' = <<>> /\ cfd' # c
    BY <1>0, <1>e DEF Ends, TypeOK, ServerInv
  <2>2. ~Waits(c)'
    BY <2>1 DEF Waits
  <2> QED BY <1>0, <2>1, <2>2 DEF Placed, Live
<1>1. CASE Bind \/ Listen \/ CallAccept
  <2>1. UNCHANGED <<cfd, queue, pc, question, toServer, toClient>> /\ cfd # c
    BY <1>0, <1>1 DEF Bind, Listen, CallAccept, ServerInv
  <2> QED BY <1>0, <2>1, Undisturbed DEF Waits
<1>2. CASE SetupFails \/ CallAcceptFails
  BY <1>2, <1>e DEF SetupFails, CallAcceptFails
<1>3. CASE Accept
  <2>1. /\ queue \in Seq(Clients) /\ queue # <<>> /\ cfd = None /\ id = 0
        /\ cfd' = Head(queue) /\ queue' = Tail(queue) /\ srv' = "code"
        /\ UNCHANGED <<id, pc, question, toServer, toClient>>
    BY <1>0, <1>3 DEF Accept, ServerInv, TypeOK
  <2>2. /\ Len(queue) \in Nat \ {0} /\ Head(queue) = queue[1]
        /\ Len(Tail(queue)) = Len(queue) - 1
        /\ \A n \in 1 .. Len(Tail(queue)) : Tail(queue)[n] = queue[n + 1]
    BY <2>1, EmptySeq, HeadTailProperties
  <2>3. CASE c = Head(queue)
    <3>1. Waits(c) /\ cfd # c
      BY <1>0, <2>1, <2>2, <2>3 DEF Waits
    <3>2. Live(c) => AtCode(c, Kind(question[c]))'
      BY <1>0, <2>1, <3>1, Questions DEF Placed, Early, AtCode
    <3> QED BY <1>0, <2>1, <2>3, <3>1, <3>2 DEF Placed, Live, InStep
  <2>4. CASE c # Head(queue)
    <3>1. ASSUME NEW n \in 1 .. Len(queue), queue[n] = c
          PROVE  n - 1 \in 1 .. Len(Tail(queue)) /\ Tail(queue)[n - 1] = c
      BY <2>2, <2>4, <3>1
    <3>2. ASSUME NEW n \in 1 .. Len(Tail(queue)), Tail(queue)[n] = c
          PROVE  n + 1 \in 1 .. Len(queue) /\ queue[n + 1] = c
      BY <2>2, <3>2
    <3>3. Waits(c) <=> Waits(c)'
      BY <2>1, <3>1, <3>2 DEF Waits
    <3> QED BY <1>0, <2>1, <2>4, <3>3, Undisturbed
  <2> QED BY <2>3, <2>4
<1>4. CASE EndOfFile \/ WriteFails
  <2>1. /\ cfd' = None /\ UNCHANGED <<queue, pc, question, toServer, toClient>>
        /\ c = cfd => ~Live(c)
    BY <1>4 DEF EndOfFile, WriteFails, Hangup, Closed, Live
  <2>2. Waits(c) <=> Waits(c)'
    BY <2>1 DEF Waits
  <2> QED BY <1>0, <2>1, <2>2, Undisturbed, Absent
<1>r. ASSUME Consume, cfd # None, Incoming # <<>>, cfd' \in {cfd, None}, c # cfd \/ ~Live(c)
      PROVE  Placed(c)'
  <2>1. UNCHANGED <<queue, pc, question, toClient>> /\ (c # cfd => toServer'[c] = toServer[c])
    BY <1>0, <1>r DEF Consume, TypeOK
  <2>2. Waits(c) <=> Waits(c)'
    BY <2>1 DEF Waits
  <2> QED BY <1>0, <1>r, <2>1, <2>2, Undisturbed, Absent
<1>5. CASE ReadCode
  <2>1. Consume /\ cfd # None /\ Incoming # <<>> /\ cfd' \in {cfd, None} /\ srv = "code"
    BY <1>0, <1>5 DEF ReadCode, ServerInv
  <2>2. CASE c # cfd \/ ~Live(c)
    BY <1>r, <2>1, <2>2
  <2>3. CASE c = cfd /\ Live(c)
    <3> DEFINE k == Kind(question[c])
    <3>1. /\ toServer[c] # <<>> /\ Incoming = toServer[c] /\ toServer'[c] = Tail(toServer[c])
          /\ UNCHANGED <<queue, pc, question, toClient>>
      BY <1>0, <2>1, <2>3 DEF Consume, Incoming, TypeOK
    <3>2. InStep(c)
      BY <1>0, <2>3 DEF Placed
    <3>3. AtCode(c, k)
      BY <2>1, <3>1, <3>2 DEF InStep, AtId, AtAnswer, AtBody, Answered
    <3>4. /\ Head(toServer[c]) = CodeOf(k) /\ code' = k /\ UNCHANGED <<cfd, id>>
          /\ srv' = IF TakesReplica(k) THEN "id" ELSE "answer"
      <4>1. Head(toServer[c]) = CodeOf(k)
        BY <3>1, <3>3, TupleFacts DEF AtCode
      <4>2. CodesIn(Head(Incoming)) = {k}
        BY <3>1, <4>1 DEF CodesIn, CodeOf
      <4>3. k \notin {"none", "done"}
        BY <1>0, Questions DEF TakesReplica
      <4> QED BY <1>5, <4>1, <4>2, <4>3 DEF ReadCode
    <3>5. CASE question[c] = 0
      <4>1. /\ pc[c] = "answer" /\ toServer'[c] = <<>> /\ toClient[c] = <<>>
            /\ id = Subject(question[c]) /\ srv' = "answer"
        BY <1>0, <3>1, <3>3, <3>4, <3>5, Questions, NothingTaken, TupleFacts DEF AtCode
      <4>2. AtAnswer(c, k)'
        BY <2>1, <3>1, <3>4, <4>1 DEF AtAnswer
      <4> QED BY <2>3, <3>1, <3>4, <4>2 DEF Placed, InStep, Live
    <3>6. CASE question[c] # 0
      <4>1. srv' = "id"
        BY <1>0, <3>4, <3>6, Questions, NothingTaken
      <4>2. \/ pc[c] = "id" /\ toServer'[c] = <<>>
            \/ pc[c] = "answer" /\ toServer'[c] = <<NumberOf(Subject(question[c]))>>
        <5>1. Tail(<<CodeOf(k)>>) = <<>>
          BY TupleFacts
        <5>2. Tail(<<CodeOf(k), NumberOf(Subject(question[c]))>>)
                = <<NumberOf(Subject(question[c]))>>
          BY TupleFacts
        <5>3. CASE pc[c] = "id"
          BY <3>1, <3>3, <5>1, <5>3 DEF AtCode
        <5>4. CASE pc[c] # "id"
          BY <3>1, <3>3, <3>6, <5>2, <5>4 DEF AtCode
        <5> QED BY <5>3, <5>4
      <4>3. AtId(c, k)'
        BY <3>1, <3>3, <3>4, <3>6, <4>1, <4>2 DEF AtCode, AtId
      <4> QED BY <2>3, <3>1, <3>4, <4>3 DEF Placed, InStep, Live
    <3> QED BY <3>5, <3>6
  <2> QED BY <2>2, <2>3
<1>6. CASE ReadId
  <2>1. Consume /\ cfd # None /\ Incoming # <<>> /\ cfd' \in {cfd, None} /\ srv = "id"
    BY <1>0, <1>6 DEF ReadId, ServerInv
  <2>2. CASE c # cfd \/ ~Live(c)
    BY <1>r, <2>1, <2>2
  <2>3. CASE c = cfd /\ Live(c)
    <3> DEFINE k == Kind(question[c])
    <3>1. /\ toServer[c] # <<>> /\ Incoming = toServer[c] /\ toServer'[c] = Tail(toServer[c])
          /\ UNCHANGED <<queue, pc, question, toClient>>
      BY <1>0, <2>1, <2>3 DEF Consume, Incoming, TypeOK
    <3>2. AtId(c, k)
      BY <1>0, <2>1, <2>3 DEF Placed, InStep, AtCode, AtAnswer, AtBody, Answered
    <3>3. pc[c] = "answer" /\ toServer[c] = <<NumberOf(Subject(question[c]))>>
      BY <3>1, <3>2 DEF AtId
    <3>4. Head(Incoming).id = Subject(question[c]) /\ Subject(question[c]) \in Replicas
      BY <1>0, <3>1, <3>3, TupleFacts, Questions DEF NumberOf
    <3>5. id' = Subject(question[c]) /\ srv' = "answer" /\ UNCHANGED <<code, cfd>>
      <4>1. NumbersIn(Head(Incoming)) = {Subject(question[c])}
        BY <3>1, <3>3, <3>4, TupleFacts DEF NumbersIn, NumberOf
      <4> QED BY <1>6, <3>4, <4>1 DEF ReadId
    <3>6. AtAnswer(c, k)'
      BY <3>1, <3>2, <3>3, <3>5, TupleFacts DEF AtId, AtAnswer
    <3> QED BY <2>3, <3>1, <3>5, <3>6 DEF Placed, InStep, Live
  <2> QED BY <2>2, <2>3
<1>s. ASSUME NEW msg, NEW next, cfd # None, Send(msg, next), c # cfd
      PROVE  Placed(c)'
  <2>1. UNCHANGED <<cfd, queue, pc, question, toServer>> /\ toClient'[c] = toClient[c]
    BY <1>0, <1>s DEF Send, TypeOK
  <2>2. Waits(c) <=> Waits(c)'
    BY <2>1 DEF Waits
  <2> QED BY <1>0, <1>s, <2>1, <2>2, Undisturbed
<1>l. cfd # None /\ ~Closed(cfd) /\ c = cfd => Live(c) /\ InStep(c)
  BY <1>0 DEF Closed, Placed, Live, TypeOK
<1>7. CASE WriteAnswer
  <2>1. /\ srv = "answer" /\ cfd # None /\ ~Closed(cfd)
        /\ Send(Answer(code, id), IF code = "path" THEN "body" ELSE "code")
    BY <1>0, <1>7 DEF WriteAnswer, ServerInv
  <2>2. CASE c = cfd
    <3> DEFINE k == Kind(question[c])
    <3>0. PICK m : m = Answer(code, id)
      OBVIOUS
    <3>1. AtAnswer(c, k)
      BY <1>l, <2>1, <2>2 DEF InStep, AtCode, AtId, AtBody, Answered
    <3>2. m.kind = k /\ m.replica = Subject(question[c])
      BY <3>0, <3>1 DEF AtAnswer, Answer
    <3>3. /\ UNCHANGED <<cfd, id, queue, pc, question, toServer>>
          /\ toClient'[c] = <<m>> /\ srv' = IF k = "path" THEN "body" ELSE "code"
      <4>1. Append(toClient[c], m) = <<m>>
        BY <3>1, TupleFacts DEF AtAnswer
      <4> QED BY <1>0, <2>1, <2>2, <3>0, <3>1, <4>1 DEF Send, AtAnswer, TypeOK
    <3>4. Replies1(c, k, m)'
      BY <3>2, <3>3 DEF Replies1
    <3>5. CASE k = "path"
      <4>1. AtBody(c, k)'
        BY <3>1, <3>3, <3>4, <3>5 DEF AtAnswer, AtBody
      <4> QED BY <1>l, <2>1, <2>2, <3>3, <4>1 DEF Placed, InStep, Live
    <3>6. CASE k # "path"
      <4>1. Answered(c, k)'
        BY <3>1, <3>3, <3>4, <3>6 DEF AtAnswer, Answered
      <4> QED BY <1>l, <2>1, <2>2, <3>3, <4>1 DEF Placed, InStep, Live
    <3> QED BY <3>5, <3>6
  <2> QED BY <1>s, <2>1, <2>2
<1>8. CASE WriteBody
  <2>1. /\ srv = "body" /\ cfd # None /\ ~Closed(cfd) /\ Send(Answer("body", id), "code")
    BY <1>0, <1>8 DEF WriteBody, ServerInv
  <2>2. CASE c = cfd
    <3> DEFINE k == Kind(question[c])
    <3>0. PICK b : b = Answer("body", id)
      OBVIOUS
    <3>1. AtBody(c, k)
      BY <1>l, <2>1, <2>2 DEF InStep, AtCode, AtId, AtAnswer, Answered
    <3>2. b.kind = "body" /\ b.replica = Subject(question[c])
      BY <3>0, <3>1 DEF AtBody, Answer
    <3>3. /\ UNCHANGED <<cfd, id, queue, pc, question, toServer>>
          /\ toClient'[c] = Append(toClient[c], b) /\ srv' = "code"
      BY <1>0, <2>1, <2>2, <3>0 DEF Send, TypeOK
    <3>4. Replies1(c, "body", b)'
      BY <3>2, <3>3 DEF Replies1
    <3>5. Answered(c, k)'
      <4>1. CASE pc[c] = "body"
        <5>1. toClient'[c] = <<b>>
          BY <3>1, <3>3, <4>1, TupleFacts DEF AtBody
        <5> QED BY <3>1, <3>3, <3>4, <4>1, <5>1 DEF AtBody, Answered
      <4>2. CASE pc[c] # "body"
        <5>1. PICK m : toClient[c] = <<m>> /\ Replies1(c, k, m)
          BY <3>1, <4>2 DEF AtBody
        <5>2. toClient'[c] = <<m, b>> /\ Replies1(c, k, m)'
          BY <3>3, <5>1, TupleFacts DEF Replies1
        <5> QED BY <3>1, <3>3, <3>4, <4>2, <5>2 DEF AtBody, Answered
      <4> QED BY <4>1, <4>2
    <3> QED BY <1>l, <2>1, <2>2, <3>3, <3>5 DEF Placed, InStep, Live
  <2> QED BY <1>s, <2>1, <2>2
<1> QED BY <1>1, <1>2, <1>3, <1>4, <1>5, <1>6, <1>7, <1>8 DEF Server

(* A client's own step.                                                    *)
LEMMA ClientStep ==
  ASSUME CtlInv, NEW c \in Clients, Connect(c) \/ Chironctl(c) \/ Killed(c)
  PROVE  Placed(c)'
<1> USE DEF server, client
<1> DEFINE k == Kind(question[c])
           s == Subject(question[c])
<1>0. /\ TypeOK /\ ServerInv /\ Placed(c) /\ c # None
      /\ question[c] \in 0 .. LastQuestion
  BY CtlAssumption DEF CtlInv, TypeOK
<1>f. /\ k # "body" /\ (question[c] = 0 => k = "max" /\ s = 0)
  BY <1>0, Questions
<1>1. CASE Connect(c)
  <2>1. /\ pc[c] = "off" /\ pc'[c] = "code" /\ cfd # c /\ cfd' = cfd
        /\ toServer'[c] = <<>> /\ toClient' = toClient /\ question' = question
        /\ queue \in Seq(Clients) /\ queue' = Append(queue, c)
    BY <1>0, <1>1 DEF Connect, TypeOK
  <2>2. Len(queue) + 1 \in 1 .. Len(queue') /\ queue'[Len(queue) + 1] = c
    <3>1. Len(queue) \in Nat
      BY <2>1, LenProperties
    <3>2. Len(queue') = Len(queue) + 1 /\ queue'[Len(queue) + 1] = c
      BY <2>1, AppendProperties
    <3> QED BY <3>1, <3>2
  <2>3. Waits(c)'
    BY <2>2 DEF Waits
  <2>4. Early(c)'
    BY <1>0, <2>1 DEF Early, Placed, Live
  <2> QED BY <2>1, <2>3, <2>4 DEF Placed, Live
<1>2. CASE Exit(c)
  <2>1. pc'[c] = "off" /\ toClient'[c] = <<>> /\ question'[c] = 0
    BY <1>0, <1>2 DEF Exit, TypeOK
  <2> QED BY <2>1 DEF Placed, Live
<1>l. ASSUME UNCHANGED <<cfd, queue>>, Live(c), Live(c)', InStep(c) => InStep(c)',
             Early(c) => Early(c)'
      PROVE  Placed(c)'
  <2>1. Waits(c) <=> Waits(c)'
    BY <1>l DEF Waits
  <2> QED BY <1>0, <1>l, <2>1 DEF Placed, Live
<1>3. CASE SendCode(c)
  <2>1. /\ pc[c] = "code" /\ pc'[c] = IF question[c] = 0 THEN "answer" ELSE "id"
        /\ toServer'[c] = Append(toServer[c], CodeOf(k))
        /\ UNCHANGED <<srv, code, id, cfd, queue, toClient, question>>
    BY <1>0, <1>3 DEF SendCode, Write, TypeOK
  <2>2. toServer[c] = <<>> => toServer'[c] = <<CodeOf(k)>>
    BY <2>1, TupleFacts
  <2>3. ASSUME InStep(c) PROVE InStep(c)'
    <3>1. AtCode(c, k) /\ toServer[c] = <<>>
      BY <2>1, <2>3 DEF InStep, AtCode, AtId, AtAnswer, AtBody, Answered
    <3>2. AtCode(c, k)'
      BY <2>1, <2>2, <3>1 DEF AtCode
    <3> QED BY <3>2 DEF InStep
  <2>4. ASSUME Early(c) PROVE Early(c)'
    BY <1>f, <2>1, <2>2, <2>4 DEF Early
  <2> QED BY <1>l, <2>1, <2>3, <2>4 DEF Live
<1>4. CASE SendId(c)
  <2>1. /\ pc[c] = "id" /\ pc'[c] = "answer"
        /\ toServer'[c] = Append(toServer[c], NumberOf(s))
        /\ UNCHANGED <<srv, code, id, cfd, queue, toClient, question>>
    BY <1>0, <1>4 DEF SendId, Write, TypeOK
  <2>2. /\ toServer[c] = <<>> => toServer'[c] = <<NumberOf(s)>>
        /\ toServer[c] = <<CodeOf(k)>> => toServer'[c] = <<CodeOf(k), NumberOf(s)>>
    BY <2>1, TupleFacts
  <2>3. ASSUME InStep(c) PROVE InStep(c)'
    <3>1. CASE AtCode(c, k)
      <4>1. AtCode(c, k)'
        BY <2>1, <2>2, <3>1 DEF AtCode
      <4> QED BY <4>1 DEF InStep
    <3>2. CASE AtId(c, k)
      <4>1. AtId(c, k)'
        BY <2>1, <2>2, <3>2 DEF AtId
      <4> QED BY <4>1 DEF InStep
    <3> QED BY <2>1, <2>3, <3>1, <3>2 DEF InStep, AtAnswer, AtBody, Answered
  <2>4. ~Early(c)
    BY <2>1 DEF Early
  <2> QED BY <1>l, <2>1, <2>3, <2>4 DEF Live
<1>5. CASE ReadLength(c)
  <2>1. /\ pc[c] = "answer" /\ pc'[c] = "body" /\ toClient[c] # <<>> /\ k = "path"
        /\ toClient'[c] = Tail(toClient[c])
        /\ UNCHANGED <<srv, code, id, cfd, queue, toServer, question>>
    BY <1>0, <1>5 DEF ReadLength, TypeOK
  <2>2. ASSUME InStep(c) PROVE InStep(c)'
    <3>1. CASE AtBody(c, k)
      <4>1. toClient'[c] = <<>>
        BY <2>1, <3>1, TupleFacts DEF AtBody
      <4>2. AtBody(c, k)'
        BY <2>1, <3>1, <4>1 DEF AtBody
      <4> QED BY <4>2 DEF InStep
    <3>2. CASE Answered(c, k)
      <4>1. PICK m, n : toClient[c] = <<m, n>> /\ Replies1(c, "body", n)
        BY <2>1, <3>2 DEF Answered
      <4>2. toClient'[c] = <<n>> /\ Replies1(c, "body", n)'
        BY <2>1, <4>1, TupleFacts DEF Replies1
      <4>3. Answered(c, k)'
        BY <2>1, <3>2, <4>2 DEF Answered
      <4> QED BY <4>3 DEF InStep
    <3> QED BY <2>1, <2>2, <3>1, <3>2 DEF InStep, AtCode, AtId, AtAnswer
  <2> QED BY <1>l, <2>1, <2>2 DEF Live, Early
<1>6. CASE ReadAnswer(c) /\ question[c] # LastQuestion
  <2>1. /\ pc[c] = (IF k = "path" THEN "body" ELSE "answer") /\ pc'[c] = "code"
        /\ toClient[c] # <<>> /\ toClient'[c] = Tail(toClient[c])
        /\ question'[c] = question[c] + 1 /\ question'[c] # 0
        /\ UNCHANGED <<srv, code, id, cfd, queue, toServer>>
    BY <1>0, <1>6 DEF ReadAnswer, NextQuestion, TypeOK
  <2>2. ASSUME InStep(c) PROVE InStep(c)'
    <3>1. Answered(c, k)
      BY <2>1, <2>2 DEF InStep, AtCode, AtId, AtAnswer, AtBody
    <3>2. PICK m : toClient[c] = <<m>>
      BY <2>1, <3>1 DEF Answered
    <3>3. toClient'[c] = <<>>
      BY <2>1, <3>2, TupleFacts
    <3>4. AtCode(c, Kind(question[c]))'
      BY <2>1, <3>1, <3>3 DEF Answered, AtCode
    <3> QED BY <3>4 DEF InStep
  <2> QED BY <1>l, <2>1, <2>2 DEF Live, Early
<1> QED
  BY <1>1, <1>2, <1>3, <1>4, <1>5, <1>6 DEF Chironctl, ReadAnswer, Lost, Killed

(* Every other step leaves the client where it is, or ends the daemon.      *)
LEMMA OtherStep ==
  ASSUME CtlInv, NEW c \in Clients,
         \/ OpenFile \/ ReleaseFile \/ (\E r \in Replicas : Disable(r))
         \/ Unmount \/ Mount \/ RemoveSocket
         \/ \E d \in Clients \ {c} : Connect(d) \/ Chironctl(d) \/ Killed(d)
         \/ UNCHANGED vars
  PROVE  Placed(c)'
<1> USE DEF server, client
<1>0. TypeOK /\ ServerInv /\ Placed(c) /\ c # None
  BY CtlAssumption DEF CtlInv
<1>1. CASE Unmount
  <2>1. /\ pc'[c] \in {"off", "lost"}
        /\ pc'[c] = "off" => pc[c] = "off"
        /\ question'[c] = question[c] /\ toClient'[c] = <<>> /\ queue' = <<>> /\ cfd' # c
    BY <1>0, <1>1 DEF Unmount, Ends, TypeOK
  <2>2. ~Waits(c)'
    BY <2>1 DEF Waits
  <2> QED BY <1>0, <2>1, <2>2 DEF Placed, Live
<1>u. ASSUME Waits(c) <=> Waits(c)', pc'[c] = pc[c], question'[c] = question[c],
             toServer'[c] = toServer[c], toClient'[c] = toClient[c],
             UNCHANGED cfd, UNCHANGED <<srv, code, id>> \/ cfd # c
      PROVE  Placed(c)'
  BY <1>0, <1>u, Undisturbed
<1>2. CASE \/ OpenFile \/ ReleaseFile \/ (\E r \in Replicas : Disable(r))
           \/ Mount \/ RemoveSocket \/ UNCHANGED vars
  <2>1. /\ UNCHANGED <<queue, pc, question, toServer, toClient, cfd>>
        /\ UNCHANGED <<srv, code, id>> \/ cfd # c
    BY <1>0, <1>2 DEF OpenFile, ReleaseFile, Disable, Mount, Alive, RemoveSocket, vars, ServerInv
  <2>2. Waits(c) <=> Waits(c)'
    BY <2>1 DEF Waits
  <2> QED BY <1>u, <2>1, <2>2
<1>3. ASSUME NEW d \in Clients \ {c}, Chironctl(d) \/ Killed(d) PROVE Placed(c)'
  <2>1. /\ UNCHANGED <<queue, cfd, srv, code, id>>
        /\ pc'[c] = pc[c] /\ question'[c] = question[c]
        /\ toServer'[c] = toServer[c] /\ toClient'[c] = toClient[c]
    BY <1>0, <1>3 DEF Chironctl, SendCode, SendId, Write, ReadLength, ReadAnswer, Exit,
                      NextQuestion, Lost, Killed, TypeOK
  <2>2. Waits(c) <=> Waits(c)'
    BY <2>1 DEF Waits
  <2> QED BY <1>u, <2>1, <2>2
<1>4. ASSUME NEW d \in Clients \ {c}, Connect(d) PROVE Placed(c)'
  <2>1. /\ UNCHANGED <<cfd, srv, code, id, toClient, question>>
        /\ pc'[c] = pc[c] /\ toServer'[c] = toServer[c]
        /\ queue \in Seq(Clients) /\ queue' = Append(queue, d)
    BY <1>0, <1>4 DEF Connect, TypeOK
  <2>2. /\ Len(queue) \in Nat /\ Len(queue') = Len(queue) + 1 /\ queue'[Len(queue) + 1] = d
        /\ \A n \in 1 .. Len(queue) : queue'[n] = queue[n]
    BY <2>1, LenProperties, AppendProperties
  <2>3. ASSUME NEW n \in 1 .. Len(queue), queue[n] = c
        PROVE  n \in 1 .. Len(queue') /\ queue'[n] = c
    BY <2>2, <2>3
  <2>4. ASSUME NEW n \in 1 .. Len(queue'), queue'[n] = c
        PROVE  n \in 1 .. Len(queue) /\ queue[n] = c
    BY <2>2, <2>4
  <2>5. Waits(c) <=> Waits(c)'
    BY <2>3, <2>4 DEF Waits
  <2> QED BY <1>u, <2>1, <2>5
<1> QED BY <1>1, <1>2, <1>3, <1>4

LEMMA CtlStep == CtlInv /\ [Next]_vars => CtlInv'
<1> SUFFICES ASSUME CtlInv, [Next]_vars PROVE CtlInv'
  OBVIOUS
<1>1. TypeOK' /\ ServerInv'
  BY TypedStep DEF CtlInv
<1>2. ASSUME NEW c \in Clients PROVE Placed(c)'
  BY ServerStep, ClientStep, OtherStep DEF Next
<1> QED BY <1>1, <1>2 DEF CtlInv

LEMMA InitCtlInv == Init => CtlInv
<1> SUFFICES ASSUME Init PROVE CtlInv
  OBVIOUS
<1>1. ASSUME NEW c \in Clients PROVE Placed(c)
  BY DEF Init, Placed, Live
<1> QED BY <1>1, InitTyped DEF CtlInv

(* process_request and chironctl's main (fs.c:1564-1661, ctl.c:210-225)     *)
(* agree on what has been asked and what is answered, whoever was killed.   *)
THEOREM AnswersBelong == Spec => []AnswersMatch
<1>1. CtlInv => AnswersMatch
  BY PlacedMatches DEF CtlInv, AnswersMatch
<1> QED BY <1>1, InitCtlInv, CtlStep, PTL DEF Spec

(* Client and server never wait for each other (process_request, fs.c:1564; *)
(* main of ctl.c), whichever clients are killed and whenever.              *)
THEOREM CtlNeverStuck == Spec => []NoStalemate
<1>1. ASSUME NEW c \in Clients, Placed(c), pc[c] \in {"answer", "body"}, toClient[c] = <<>>
      PROVE  IF cfd = c
               THEN toServer[c] # <<>> \/ srv \in {"answer", "body"}
               ELSE \E n \in 1 .. Len(queue) : queue[n] = c
  <2>1. Live(c)
    BY <1>1 DEF Live
  <2>2. CASE cfd = c /\ InStep(c)
    BY <1>1, <2>2, TupleFacts DEF InStep, AtCode, AtId, AtAnswer, AtBody, Answered
  <2>3. CASE cfd # c /\ Waits(c)
    BY <2>3 DEF Waits
  <2> QED BY <1>1, <2>1, <2>2, <2>3 DEF Placed
<1>2. CtlInv => NoStalemate
  BY <1>1 DEF CtlInv, NoStalemate
<1> QED BY <1>2, InitCtlInv, CtlStep, PTL DEF Spec

-----------------------------------------------------------------------------
(***************************************************************************)
(* The age of a status.  Flags are only ever set while a mount lasts, and   *)
(* no answer outlives it.                                                  *)
(***************************************************************************)

Recent(m, c) ==
  m.kind = "status" =>
    /\ m.disabled => m.replica \in disabled
    /\ m.replica \in atAsk[c] => m.disabled

Told(c) ==
  /\ \A n \in 1 .. Len(toClient[c]) : Recent(toClient[c][n], c)
  /\ Live(c) => atAsk[c] \subseteq disabled
  /\ pc[c] = "off" => atAsk[c] = {}

StatusInv == \A c \in Clients : Told(c)

LEMMA ToldStep ==
  ASSUME CtlInv, Next, NEW c \in Clients, Told(c)
  PROVE  Told(c)'
<1> USE DEF server, client
<1>0. /\ TypeOK /\ ServerInv /\ Placed(c) /\ None \notin Clients
      /\ toClient \in [Clients -> Seq(Replies)]
  BY CtlAssumption DEF CtlInv, TypeOK, Replies
<1>n. \A n \in 1 .. Len(<<>>) : FALSE
  BY EmptySeq
<1>k. ASSUME disabled \subseteq disabled', atAsk'[c] = atAsk[c], toClient'[c] = toClient[c],
             Live(c)' => Live(c), pc'[c] = "off" => pc[c] = "off"
      PROVE  Told(c)'
  BY <1>k DEF Told, Recent
<1>e. ASSUME NEW how, Ends(how) PROVE Told(c)'
  <2>1. /\ toClient'[c] = <<>> /\ pc'[c] \in {"off", "lost"} /\ atAsk' = atAsk
        /\ pc'[c] = "off" => pc[c] = "off"
    BY <1>0, <1>e DEF Ends, TypeOK
  <2> QED BY <1>n, <2>1 DEF Told, Live
<1>1. CASE SetupFails \/ CallAcceptFails \/ Unmount
  BY <1>1, <1>e DEF SetupFails, CallAcceptFails, Unmount
<1>2. CASE \/ Bind \/ Listen \/ CallAccept \/ Accept \/ EndOfFile \/ ReadCode \/ ReadId \/ WriteFails
           \/ OpenFile \/ ReleaseFile \/ Mount \/ RemoveSocket
  BY <1>2, <1>k DEF Bind, Listen, CallAccept, Accept, EndOfFile, ReadCode, ReadId, Consume, WriteFails,
                    Hangup, OpenFile, ReleaseFile, Mount, RemoveSocket, Live
<1>3. ASSUME NEW r \in Replicas, Disable(r) PROVE Told(c)'
  BY <1>3, <1>k DEF Disable, Live
<1>4. ASSUME NEW msg \in Replies, NEW next, Send(msg, next), cfd \in Clients, ~Closed(cfd),
             Live(cfd) => Recent(msg, cfd)
      PROVE  Told(c)'
  <2>1. UNCHANGED <<disabled, atAsk, pc>>
    BY <1>4 DEF Send
  <2>2. CASE c # cfd
    <3>1. toClient'[c] = toClient[c]
      BY <1>0, <1>4, <2>2 DEF Send
    <3> QED BY <1>k, <2>1, <3>1 DEF Live
  <2>3. CASE c = cfd
    <3>1. toClient'[c] = Append(toClient[c], msg)
      BY <1>0, <1>4, <2>3 DEF Send
    <3>2. /\ Len(toClient[c]) \in Nat /\ Len(toClient'[c]) = Len(toClient[c]) + 1
          /\ toClient'[c][Len(toClient[c]) + 1] = msg
          /\ \A n \in 1 .. Len(toClient[c]) : toClient'[c][n] = toClient[c][n]
      BY <1>0, <3>1, LenProperties, AppendProperties
    <3>3. Live(c) /\ Recent(msg, c)
      BY <1>0, <1>4, <2>3 DEF Placed, Closed, Live, TypeOK
    <3>4. ASSUME NEW n \in 1 .. Len(toClient'[c]) PROVE Recent(toClient'[c][n], c)
      <4>1. n \in 1 .. Len(toClient[c]) \/ n = Len(toClient[c]) + 1
        BY <3>2
      <4> QED BY <3>2, <3>3, <4>1 DEF Told
    <3> QED BY <2>1, <3>3, <3>4 DEF Told, Recent, Live
  <2> QED BY <2>2, <2>3
<1>5. CASE WriteAnswer \/ WriteBody
  <2>1. /\ cfd \in Clients /\ ~Closed(cfd)
        /\ \E kind \in Codes \cup {"body"}, next \in {"code", "body"} : Send(Answer(kind, id), next)
    BY <1>0, <1>5 DEF WriteAnswer, WriteBody, ServerInv, TypeOK
  <2>2. PICK kind \in Codes \cup {"body"}, next \in {"code", "body"} : Send(Answer(kind, id), next)
    BY <2>1
  <2>3. Answer(kind, id) \in Replies
    BY <1>0 DEF Answer, Replies, TypeOK
  <2>4. CASE c # cfd
    <3>1. UNCHANGED <<disabled, atAsk, pc>> /\ toClient'[c] = toClient[c]
      BY <1>0, <2>2, <2>4 DEF Send
    <3> QED BY <1>k, <3>1 DEF Live
  <2>5. CASE c = cfd
    <3>1. Live(cfd) => Recent(Answer(kind, id), cfd)
      BY <2>5 DEF Recent, Answer, Told
    <3> QED BY <1>4, <2>1, <2>2, <2>3, <3>1
  <2> QED BY <2>4, <2>5
<1>6. ASSUME NEW d \in Clients, d # c, Connect(d) \/ Chironctl(d) \/ Killed(d) PROVE Told(c)'
  <2>1. /\ disabled' = disabled /\ atAsk'[c] = atAsk[c] /\ toClient'[c] = toClient[c]
        /\ pc'[c] = pc[c]
    BY <1>0, <1>6 DEF Connect, Chironctl, SendCode, SendId, Write, ReadLength, ReadAnswer, Exit,
                      NextQuestion, Lost, Killed, TypeOK
  <2> QED BY <1>k, <2>1 DEF Live
<1>7. CASE Connect(c)
  <2>1. disabled' = disabled /\ atAsk'[c] = atAsk[c] /\ toClient'[c] = <<>> /\ atAsk[c] = {}
    BY <1>0, <1>7 DEF Connect, Placed, Live, Told
  <2>2. pc'[c] = "code"
    BY <1>0, <1>7 DEF Connect, TypeOK
  <2> QED BY <1>n, <2>1, <2>2 DEF Told
<1>8. CASE SendCode(c)
  BY <1>8, <1>k DEF SendCode, Write, Live
<1>9. CASE SendId(c)
  <2>1. /\ pc[c] = "id" /\ pc'[c] = "answer" /\ UNCHANGED <<disabled, toClient>>
        /\ atAsk'[c] = disabled
    BY <1>0, <1>9 DEF SendId, Write, TypeOK
  <2>2. toClient[c] = <<>>
    BY <1>0, <2>1 DEF Placed, Live, InStep, Early, AtCode, AtId, AtAnswer, AtBody, Answered
  <2> QED BY <1>n, <2>1, <2>2 DEF Told
<1>t. ASSUME toClient[c] # <<>>, toClient'[c] = Tail(toClient[c])
      PROVE  \A n \in 1 .. Len(toClient'[c]) :
               n + 1 \in 1 .. Len(toClient[c]) /\ toClient'[c][n] = toClient[c][n + 1]
  <2>1. /\ Len(toClient[c]) \in Nat /\ Len(toClient'[c]) = Len(toClient[c]) - 1
        /\ \A n \in 1 .. Len(toClient'[c]) : toClient'[c][n] = toClient[c][n + 1]
    BY <1>0, <1>t, LenProperties, HeadTailProperties
  <2> QED BY <2>1
<1>10. CASE ReadLength(c)
  <2>1. /\ toClient[c] # <<>> /\ toClient'[c] = Tail(toClient[c])
        /\ UNCHANGED <<disabled, atAsk>> /\ Live(c) /\ pc'[c] = "body"
    BY <1>0, <1>10 DEF ReadLength, TypeOK, Live
  <2> QED BY <1>t, <2>1 DEF Told, Recent
<1>11. CASE Exit(c)
  <2>1. toClient'[c] = <<>> /\ pc'[c] = "off" /\ atAsk'[c] = {}
    BY <1>0, <1>11 DEF Exit, TypeOK
  <2> QED BY <1>n, <2>1 DEF Told, Live
<1>12. CASE ReadAnswer(c) /\ question[c] # LastQuestion
  <2>1. /\ toClient[c] # <<>> /\ toClient'[c] = Tail(toClient[c])
        /\ disabled' = disabled /\ atAsk'[c] = {}
    BY <1>0, <1>12 DEF ReadAnswer, NextQuestion, TypeOK
  <2> QED BY <1>t, <2>1 DEF Told, Recent
<1> QED
  BY <1>1, <1>2, <1>3, <1>5, <1>6, <1>7, <1>8, <1>9, <1>10, <1>11, <1>12
  DEF Next, Server, Chironctl, ReadAnswer, Lost, Killed

(* A status chironctl reads was true when it was asked or since (fs.c:1590,  *)
(* ctl.c:128-150).                                                         *)
THEOREM StatusNotOlder == Spec => []StatusIsRecent
<1>1. Init => StatusInv
  <2>1. ASSUME Init, NEW c \in Clients PROVE Told(c)
    BY <2>1, EmptySeq DEF Init, Told, Live
  <2> QED BY <2>1 DEF StatusInv
<1>2. CtlInv /\ StatusInv /\ [Next]_vars => StatusInv'
  <2> SUFFICES ASSUME CtlInv, \A c \in Clients : Told(c), [Next]_vars, NEW c \in Clients
               PROVE  Told(c)'
    BY DEF StatusInv
  <2>1. CASE UNCHANGED vars
    BY <2>1 DEF vars, client, Told, Recent, Live
  <2> QED BY <2>1, ToldStep
<1>3. StatusInv => StatusIsRecent
  BY DEF StatusInv, Told, Recent, StatusIsRecent
<1> QED BY <1>1, <1>2, <1>3, InitCtlInv, CtlStep, PTL DEF Spec

=============================================================================
