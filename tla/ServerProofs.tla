---------------------------- MODULE ServerProofs ----------------------------
(***************************************************************************)
(* Theorems about Server, for any number of connections, descriptors,      *)
(* heap chunks, thread identifiers and requests.  They rest on facts about *)
(* the list operations of LinkList, for every list, which come first; at   *)
(* the end, the handlers implement Channel: each request is in one place,  *)
(* and moves from place to place as it should.                             *)
(***************************************************************************)
EXTENDS Server, SequencesExt, SequenceTheorems, TLAPS

(* The elements of a sequence over S are in S.                             *)
LEMMA NodesType ==
  ASSUME NEW S, NEW s \in Seq(S)
  PROVE  Nodes(s) \subseteq S
BY DEF Nodes, ToSet

(* insert_link returns a chain with the new node added, nothing removed.   *)
LEMMA InsertLink ==
  ASSUME NEW S, NEW s \in Seq(S), NEW a \in S
  PROVE  /\ insert_link(s, a) \in Seq(S)
         /\ Len(insert_link(s, a)) = Len(s) + 1
         /\ Nodes(insert_link(s, a)) = Nodes(s) \cup {a}
<1> DEFINE t == <<a>> \o s
<1>1. <<a>> \in Seq(S) /\ Len(<<a>>) = 1 /\ <<a>>[1] = a
  OBVIOUS
<1>2. t \in Seq(S) /\ Len(t) = Len(s) + 1
  BY <1>1, ConcatProperties
<1>3. \A i \in 1..(Len(s) + 1) : t[i] = IF i = 1 THEN a ELSE s[i - 1]
  BY <1>1, ConcatProperties
<1>4. \A i \in 1..Len(s) : t[i + 1] = s[i]
  BY <1>3
<1>5. Nodes(t) = Nodes(s) \cup {a}
  <2>1. Nodes(t) \subseteq Nodes(s) \cup {a}
    BY <1>2, <1>3 DEF Nodes, ToSet
  <2>2. Nodes(s) \subseteq Nodes(t)
    <3>1. SUFFICES ASSUME NEW i \in 1..Len(s)
                   PROVE  s[i] \in Nodes(t)
      BY LenProperties DEF Nodes, ToSet
    <3>2. i + 1 \in 1..Len(t) /\ t[i + 1] = s[i]
      BY <1>2, <1>4, LenProperties
    <3> HIDE DEF t
    <3> QED
      BY <3>2, <1>2, LenProperties DEF Nodes, ToSet
  <2>3. a \in Nodes(t)
    BY <1>2, <1>3 DEF Nodes, ToSet
  <2> QED
    BY <2>1, <2>2, <2>3
<1> QED
  BY <1>2, <1>5 DEF insert_link

(* delete_link returns a chain; when some node has the descriptor, the     *)
(* chain is shorter by exactly one and holds no new node.                  *)
LEMMA DeleteLink ==
  ASSUME NEW S, NEW s \in Seq(S), NEW field, NEW fd
  PROVE  LET d == delete_link(s, field, fd)
         IN  /\ d \in Seq(S)
             /\ Nodes(d) \subseteq Nodes(s)
             /\ Len(d) = IF find_fd(s, field, fd) = 0 THEN Len(s) - 1 ELSE Len(s)
<1> DEFINE d == delete_link(s, field, fd)
           n == Len(s)
           hit(i) == \E j \in 1..i : field[s[j]].fd = fd
<1>1. CASE find_fd(s, field, fd) = -1
  BY <1>1 DEF delete_link
<1>2. CASE find_fd(s, field, fd) = 0
  <2>1. d = [i \in 1..(n - 1) |-> IF hit(i) THEN s[i + 1] ELSE s[i]]
    BY <1>2 DEF delete_link
  <2>2. n \in Nat \ {0}
    BY <1>2, LenProperties, EmptySeq DEF find_fd, Nodes, ToSet
  <2>3. \A i \in 1..(n - 1) : i \in 1..n /\ i + 1 \in 1..n
    BY <2>2
  <2> HIDE DEF hit
  <2>4. \A i \in 1..n : s[i] \in S /\ s[i] \in Nodes(s)
    BY ElementOfSeq, LenProperties DEF Nodes, ToSet
  <2>5. d \in [1..(n - 1) -> S]
    BY <2>1, <2>3, <2>4
  <2>6. n - 1 \in Nat
    BY <2>2
  <2>7. d \in Seq(S) /\ Len(d) = n - 1
    BY <2>5, <2>6, SeqDef, LenProperties
  <2>8. Nodes(d) \subseteq Nodes(s)
    BY <2>1, <2>3, <2>4 DEF Nodes, ToSet
  <2> QED
    BY <2>7, <2>8, <1>2
<1>3. find_fd(s, field, fd) \in {0, -1}
  BY DEF find_fd
<1> QED
  BY <1>1, <1>2, <1>3

(* The pointer to the next node is a node of the chain, or the null        *)
(* pointer; so is the pointer in the head.                                 *)
LEMMA NextLink ==
  ASSUME NEW S, NEW s \in Seq(S), NEW null, NEW a \in Nodes(s)
  PROVE  next_link(s, a, null) \in Nodes(s) \cup {null}
<1>1. Len(s) \in Nat /\ DOMAIN s = 1..Len(s)
  BY LenProperties
<1>2. ASSUME NEW k \in DOMAIN s, k # Len(s)
      PROVE  s[k + 1] \in Nodes(s)
  <2>1. k + 1 \in 1..Len(s)
    BY <1>1, <1>2
  <2> QED
    BY <1>1, <2>1 DEF Nodes, ToSet
<1>3. (CHOOSE k \in DOMAIN s : s[k] = a) \in DOMAIN s
  BY DEF Nodes, ToSet
<1> QED
  BY <1>2, <1>3 DEF next_link

(* The pointer in the head of a non-empty chain is one of its nodes. *)
LEMMA FirstLink ==
  ASSUME NEW S, NEW s \in Seq(S), NEW null
  PROVE  /\ s = <<>> => first_link(s, null) = null
         /\ s # <<>> => first_link(s, null) \in Nodes(s)
BY LenProperties, EmptySeq DEF first_link, Nodes, ToSet

-----------------------------------------------------------------------------
USE ServerAssumption

(* A descriptor number names a connection, or nothing. *)
LEMMA ConnType ==
  ASSUME NetTypes, NEW fd
  PROVE  Conn(fd) \in Handlers \cup {NULL}
BY DEF NetTypes, Conn

(* The messages the program sends are in the set of messages. *)
LEMMA MessagesType ==
  /\ Login \in Messages /\ Granted \in Messages /\ Denied \in Messages
  /\ Ping \in Messages /\ Lost \in Messages
  /\ \A r \in 0..MaxReq : Msg("cmd", r) \in Messages
BY DEF Login, Granted, Denied, Ping, Lost, Msg, Messages, Kinds

(* What the socket calls do to the state of the network. *)
LEMMA SendToType ==
  ASSUME NetTypes, NEW c \in Handlers \cup {NULL}, NEW m \in Messages, SendTo(c, m)
  PROVE  /\ peer' \in [Handlers -> Far]
         /\ down' \in [Handlers -> Seq(Messages)]
         /\ alive' \in BOOLEAN
<1>1. CASE UNCHANGED <<peer, down>> /\ alive' \in {alive, FALSE}
  BY <1>1 DEF NetTypes
<1>2. CASE /\ \E s \in Far : peer' = [peer EXCEPT ![c] = s]
           /\ UNCHANGED <<down, alive>>
  BY <1>2 DEF NetTypes
<1>3. CASE /\ c \in Handlers /\ down' = [down EXCEPT ![c] = Append(@, m)]
           /\ UNCHANGED <<peer, alive>>
  <2>1. Append(down[c], m) \in Seq(Messages)
    BY <1>3, AppendProperties DEF NetTypes
  <2> QED
    BY <1>3, <2>1 DEF NetTypes
<1> QED
  BY <1>1, <1>2, <1>3 DEF SendTo, Far

(* What recv leaves of the received bytes and of the connection's state. *)
LEMMA RecvType ==
  ASSUME NetTypes, NEW c \in Handlers \cup {NULL},
         RecvMsg(c) \/ RecvEof(c) \/ RecvErr(c)
  PROVE  /\ peer' \in [Handlers -> Far]
         /\ up' \in [Handlers -> Seq(Messages)]
         /\ RecvMsg(c) => Head(up[c]) \in Messages
<1>1. CASE RecvMsg(c)
  BY <1>1, HeadTailProperties DEF NetTypes, RecvMsg
<1>2. CASE RecvEof(c) /\ ~RecvMsg(c)
  BY <1>2 DEF NetTypes, RecvEof
<1>3. CASE RecvErr(c) /\ ~RecvMsg(c)
  BY <1>3 DEF NetTypes, RecvErr, Far
<1> QED
  BY <1>1, <1>2, <1>3

(* close() keeps the descriptor table well-typed. *)
LEMMA CloseType ==
  ASSUME NetTypes, NEW fd, Close(fd)
  PROVE  sock' \in [Fds -> Handlers \cup {NULL}]
BY DEF NetTypes, Close

(* Posting an answer keeps the message queue and the buffers well-typed. *)
LEMMA ReplyType ==
  ASSUME ThreadTypes, MqTypes, NEW h \in Handlers, NEW m \in Messages, Reply(h, m)
  PROVE  /\ req' \in [Handlers -> 0..MaxReq]
         /\ replies' \in Seq([req : 0..MaxReq, ans : Messages])
         /\ taken \in 0..Len(replies')
<1>1. 0 \in 0..MaxReq
  OBVIOUS
<1>2. req' \in [Handlers -> 0..MaxReq]
  BY <1>1 DEF ThreadTypes, Reply
<1>3. [req |-> req[h], ans |-> m] \in [req : 0..MaxReq, ans : Messages]
  BY DEF ThreadTypes
<1>4. Len(replies) \in Nat /\ Len(replies') = Len(replies) + 1
  BY <1>3, AppendProperties, LenProperties DEF Reply, MqTypes
<1> QED
  BY <1>2, <1>3, <1>4, AppendProperties DEF Reply, MqTypes

(* Unlinking keeps the chain and the freed nodes' pointers well-typed. *)
LEMMA UnlinkType ==
  ASSUME ListTypes, NEW fd, Unlink(fd)
  PROVE  /\ chain' \in Seq(Addrs)
         /\ node' \in [Addrs -> Nodetype]
         /\ stale' \in [Addrs -> Addrs \cup {NULL}]
<1>1. chain' \in Seq(Addrs) /\ node' \in [Addrs -> Nodetype]
  BY DeleteLink DEF Unlink, ListTypes
<1>2. \A a \in Nodes(chain) : next_link(chain, a, NULL) \in Addrs \cup {NULL}
  BY NextLink, NodesType DEF ListTypes
<1>3. stale' \in [Addrs -> Addrs \cup {NULL}]
  BY <1>2 DEF Unlink, ListTypes
<1> QED
  BY <1>1, <1>3

(* The pointer the inspector follows, from a live node or a freed one. *)
LEMMA NextType ==
  ASSUME ListTypes, NEW a \in Addrs
  PROVE  Next_of(a) \in Addrs \cup {NULL}
BY NextLink, NodesType DEF ListTypes, Next_of

(* The initial state is well-typed. *)
LEMMA TypeInit == Init => TypeOK
<1> SUFFICES ASSUME Init PROVE TypeOK
  OBVIOUS
<1>1. ThreadTypes
  <2>1. 0 \in 0..MaxReq
    OBVIOUS
  <2>2. "none" \in Labels
    BY DEF Labels
  <2> QED
    BY <2>1, <2>2, MessagesType DEF Init, ThreadTypes
<1>2. ListTypes
  BY EmptySeq DEF Init, ListTypes, Nodetype
<1>3. HbTypes
  BY DEF Init, HbTypes, HbLabels
<1>4. MqTypes
  <2>1. <<>> \in Seq(1..MaxReq) /\ <<>> \in Seq([req : 0..MaxReq, ans : Messages])
    BY EmptySeq
  <2>2. 0 \in 0..MaxReq
    OBVIOUS
  <2>3. taken \in 0..Len(replies)
    <3>1. replies = <<>> /\ taken = 0
      BY DEF Init
    <3> QED
      BY <3>1
  <2> QED
    BY <2>1, <2>2, <2>3 DEF Init, MqTypes
<1>5. NetTypes
  BY EmptySeq DEF Init, NetTypes, Far
<1> QED
  BY <1>1, <1>2, <1>3, <1>4, <1>5 DEF TypeOK

(* Every step keeps the state well-typed. *)
LEMMA TypeStep ==
  ASSUME TypeOK, [Next]_vars
  PROVE  TypeOK'
<1>0. ThreadTypes /\ ListTypes /\ HbTypes /\ MqTypes /\ NetTypes
  BY DEF TypeOK
<1> USE <1>0
<1>1. ASSUME NEW h \in Handlers, Accept(h)
      PROVE  TypeOK'
  <2>1. ThreadTypes'
    BY <1>1 DEF Accept, ThreadTypes, Free, Goto, Labels
  <2>2. NetTypes'
    BY <1>1 DEF Accept, NetTypes, Free, Far
  <2>3. ListTypes' /\ HbTypes' /\ MqTypes'
    BY <1>1 DEF Accept, ListTypes, HbTypes, MqTypes, listVars, hbVars, mqVars
  <2> QED
    BY <2>1, <2>2, <2>3 DEF TypeOK
<1>2. ASSUME NEW h \in Handlers, AcceptFails(h)
      PROVE  TypeOK'
  <2>1. NetTypes'
    BY <1>2 DEF AcceptFails, NetTypes
  <2>2. ThreadTypes' /\ ListTypes' /\ HbTypes' /\ MqTypes'
    BY <1>2 DEF AcceptFails, ThreadTypes, ListTypes, HbTypes, MqTypes, threadVars, listVars, hbVars, mqVars
  <2> QED
    BY <2>1, <2>2 DEF TypeOK
<1>3. ASSUME NEW h \in Handlers, Start(h)
      PROVE  TypeOK'
  <2>1. ThreadTypes'
    BY <1>3, ConnType DEF Start, ThreadTypes, At, Goto, Labels
  <2>2. ListTypes' /\ HbTypes' /\ MqTypes' /\ NetTypes'
    BY <1>3 DEF Start, ListTypes, HbTypes, MqTypes, NetTypes, listVars, hbVars, mqVars, netVars
  <2> QED
    BY <2>1, <2>2 DEF TypeOK
<1>4. ASSUME NEW h \in Handlers, ReadLogin(h)
      PROVE  TypeOK'
  <2> DEFINE c == rc[h]
  <2>0. c \in Handlers \cup {NULL}
    BY DEF ThreadTypes
  <2>1. ThreadTypes'
    <3>1. ans' \in [Handlers -> Messages]
      BY <1>4, <2>0, RecvType DEF ReadLogin, ThreadTypes
    <3>2. \E l \in {"grant", "deny", "done"} : Goto(h, l)
      BY <1>4 DEF ReadLogin
    <3>3. pc' \in [Handlers -> Labels]
      BY <3>2 DEF Goto, ThreadTypes, Labels, Exited
    <3> QED
      BY <1>4, <3>1, <3>3 DEF ReadLogin, ThreadTypes
  <2>2. NetTypes'
    <3>1. peer' \in [Handlers -> Far] /\ up' \in [Handlers -> Seq(Messages)]
      BY <1>4, <2>0, RecvType DEF ReadLogin
    <3>2. sock' \in [Fds -> Handlers \cup {NULL}]
      BY <1>4, CloseType DEF ReadLogin, NetTypes
    <3> QED
      BY <1>4, <3>1, <3>2 DEF ReadLogin, NetTypes
  <2>3. ListTypes' /\ HbTypes' /\ MqTypes'
    BY <1>4 DEF ReadLogin, ListTypes, HbTypes, MqTypes, listVars, hbVars, mqVars
  <2> QED
    BY <2>1, <2>2, <2>3 DEF TypeOK
<1>5. ASSUME NEW h \in Handlers, Grant(h)
      PROVE  TypeOK'
  <2>1. ThreadTypes'
    BY <1>5 DEF Grant, ThreadTypes, At, Goto, Labels
  <2>2. NetTypes'
    BY <1>5, SendToType, ConnType, MessagesType DEF Grant, NetTypes
  <2>3. ListTypes' /\ HbTypes' /\ MqTypes'
    BY <1>5 DEF Grant, ListTypes, HbTypes, MqTypes, listVars, hbVars, mqVars
  <2> QED
    BY <2>1, <2>2, <2>3 DEF TypeOK
<1>6. ASSUME NEW h \in Handlers, Deny(h)
      PROVE  TypeOK'
  <2>1. ThreadTypes'
    BY <1>6 DEF Deny, ThreadTypes, At, Goto, Labels, Exited
  <2>2. NetTypes'
    <3>1. (IF ans[h].kind \in {"ping", "cmd"} THEN ans[h] ELSE Denied) \in Messages
      BY MessagesType DEF ThreadTypes
    <3> QED
      BY <1>6, <3>1, SendToType, ConnType, CloseType DEF Deny, NetTypes
  <2>3. ListTypes' /\ HbTypes' /\ MqTypes'
    BY <1>6 DEF Deny, ListTypes, HbTypes, MqTypes, listVars, hbVars, mqVars
  <2> QED
    BY <2>1, <2>2, <2>3 DEF TypeOK
<1>7. ASSUME NEW h \in Handlers, SemWait(h)
      PROVE  TypeOK'
  <2>1. ThreadTypes'
    BY <1>7 DEF SemWait, ThreadTypes, Goto, Labels
  <2>2. ListTypes'
    BY <1>7 DEF SemWait, ListTypes, sem_wait
  <2>3. HbTypes' /\ MqTypes' /\ NetTypes'
    BY <1>7 DEF SemWait, HbTypes, MqTypes, NetTypes, hbVars, mqVars, netVars
  <2> QED
    BY <2>1, <2>2, <2>3 DEF TypeOK
<1>8. ASSUME NEW h \in Handlers, Insert(h)
      PROVE  TypeOK'
  <2>1. ThreadTypes'
    BY <1>8 DEF Insert, ThreadTypes, At, Goto, Labels
  <2>2. ListTypes'
    <3>1. PICK a \in Addrs \ Nodes(chain) :
            /\ node' = [node EXCEPT ![a] = [ID |-> "admin", fd |-> hfd[h], tid |-> htid[h]]]
            /\ chain' = insert_link(chain, a)
      BY <1>8 DEF Insert
    <3>2. chain' \in Seq(Addrs)
      BY <3>1, InsertLink DEF ListTypes
    <3>3. [ID |-> "admin", fd |-> hfd[h], tid |-> htid[h]] \in Nodetype
      BY DEF ThreadTypes, Nodetype
    <3>4. node' \in [Addrs -> Nodetype]
      BY <3>1, <3>3 DEF ListTypes
    <3> QED
      BY <1>8, <3>2, <3>4 DEF Insert, ListTypes, sem_post
  <2>3. HbTypes' /\ MqTypes' /\ NetTypes'
    BY <1>8 DEF Insert, HbTypes, MqTypes, NetTypes, hbVars, mqVars, netVars
  <2> QED
    BY <2>1, <2>2, <2>3 DEF TypeOK
<1>9. ASSUME NEW h \in Handlers, TakeRequest(h)
      PROVE  TypeOK'
  <2>1. ThreadTypes'
    <3>1. Head(reqs) \in 0..MaxReq
      BY <1>9, HeadTailProperties DEF TakeRequest, MqTypes
    <3> QED
      BY <1>9, <3>1 DEF TakeRequest, ThreadTypes, At, Goto, Labels
  <2>2. MqTypes'
    BY <1>9, HeadTailProperties DEF TakeRequest, MqTypes
  <2>3. ListTypes' /\ HbTypes' /\ NetTypes'
    BY <1>9 DEF TakeRequest, ListTypes, HbTypes, NetTypes, listVars, hbVars, netVars
  <2> QED
    BY <2>1, <2>2, <2>3 DEF TypeOK
<1>10. ASSUME NEW h \in Handlers, Check(h)
       PROVE  TypeOK'
  <2>1. ThreadTypes'
    BY <1>10 DEF Check, ThreadTypes, At, Goto, Labels
  <2>2. ListTypes'
    BY <1>10 DEF Check, ListTypes, sem_post
  <2>3. HbTypes' /\ MqTypes' /\ NetTypes'
    BY <1>10 DEF Check, HbTypes, MqTypes, NetTypes, hbVars, mqVars, netVars
  <2> QED
    BY <2>1, <2>2, <2>3 DEF TypeOK
<1>11. ASSUME NEW h \in Handlers, Send(h)
       PROVE  TypeOK'
  <2>1. ThreadTypes'
    BY <1>11, ConnType DEF Send, ThreadTypes, At, Goto, Labels
  <2>2. NetTypes'
    <3>1. Msg("cmd", req[h]) \in Messages
      BY MessagesType DEF ThreadTypes
    <3> QED
      BY <1>11, <3>1, SendToType, ConnType DEF Send, NetTypes
  <2>3. ListTypes' /\ HbTypes' /\ MqTypes'
    BY <1>11 DEF Send, ListTypes, HbTypes, MqTypes, listVars, hbVars, mqVars
  <2> QED
    BY <2>1, <2>2, <2>3 DEF TypeOK
<1>12. ASSUME NEW h \in Handlers, Wait(h)
       PROVE  TypeOK'
  <2> DEFINE c == rc[h]
  <2>0. c \in Handlers \cup {NULL}
    BY DEF ThreadTypes
  <2>1. ThreadTypes'
    <3>1. ans' \in [Handlers -> Messages]
      <4>1. CASE RecvMsg(c) /\ ans' = [ans EXCEPT ![h] = Head(up[c])]
        BY <4>1, <2>0, RecvType DEF ThreadTypes
      <4>2. CASE UNCHANGED ans
        BY <4>2 DEF ThreadTypes
      <4>3. CASE ans' = [ans EXCEPT ![h] = Lost]
        BY <4>3, MessagesType DEF ThreadTypes
      <4> QED
        BY <1>12, <4>1, <4>2, <4>3 DEF Wait
    <3>2. \E l \in {"post", "close"} : Goto(h, l)
      BY <1>12 DEF Wait
    <3>3. pc' \in [Handlers -> Labels]
      BY <3>2 DEF Goto, ThreadTypes, Labels
    <3> QED
      BY <1>12, <3>1, <3>3 DEF Wait, ThreadTypes
  <2>2. NetTypes'
    <3>1. peer' \in [Handlers -> Far] /\ up' \in [Handlers -> Seq(Messages)]
      BY <1>12, <2>0, RecvType DEF Wait
    <3> QED
      BY <1>12, <3>1 DEF Wait, NetTypes
  <2>3. ListTypes' /\ HbTypes' /\ MqTypes'
    BY <1>12 DEF Wait, ListTypes, HbTypes, MqTypes, listVars, hbVars, mqVars
  <2> QED
    BY <2>1, <2>2, <2>3 DEF TypeOK
<1>13. ASSUME NEW h \in Handlers, Post(h)
       PROVE  TypeOK'
  <2>0. ans[h] \in Messages
    BY DEF ThreadTypes
  <2>1. ThreadTypes'
    BY <1>13, <2>0, ReplyType DEF Post, ThreadTypes, At, Goto, Labels
  <2>2. MqTypes'
    BY <1>13, <2>0, ReplyType DEF Post, MqTypes
  <2>3. ListTypes' /\ HbTypes' /\ NetTypes'
    BY <1>13 DEF Post, Reply, ListTypes, HbTypes, NetTypes, listVars, hbVars, netVars
  <2> QED
    BY <2>1, <2>2, <2>3 DEF TypeOK
<1>14. ASSUME NEW h \in Handlers, CloseFd(h)
       PROVE  TypeOK'
  <2>1. ThreadTypes'
    BY <1>14 DEF CloseFd, ThreadTypes, At, Goto, Labels
  <2>2. NetTypes'
    BY <1>14, CloseType DEF CloseFd, NetTypes
  <2>3. ListTypes' /\ HbTypes' /\ MqTypes'
    BY <1>14 DEF CloseFd, ListTypes, HbTypes, MqTypes, listVars, hbVars, mqVars
  <2> QED
    BY <2>1, <2>2, <2>3 DEF TypeOK
<1>15. ASSUME NEW h \in Handlers, Delete(h)
       PROVE  TypeOK'
  <2>0. Reply(h, Denied) \/ UNCHANGED <<replies, req>>
    BY <1>15 DEF Delete
  <2>1. ThreadTypes'
    <3>1. req' \in [Handlers -> 0..MaxReq]
      BY <2>0, ReplyType, MessagesType DEF ThreadTypes
    <3> QED
      BY <1>15, <3>1 DEF Delete, ThreadTypes, Goto, Labels, Exited
  <2>2. ListTypes'
    BY <1>15, UnlinkType DEF Delete, Reply, ListTypes, sem_post
  <2>3. MqTypes'
    <3>1. replies' \in Seq([req : 0..MaxReq, ans : Messages]) /\ taken \in 0..Len(replies')
      BY <2>0, ReplyType, MessagesType DEF MqTypes
    <3> QED
      BY <1>15, <3>1 DEF Delete, MqTypes
  <2>4. NetTypes'
    BY <1>15, CloseType DEF Delete, Reply, NetTypes
  <2>5. HbTypes'
    BY <1>15 DEF Delete, Reply, HbTypes, hbVars
  <2> QED
    BY <2>1, <2>2, <2>3, <2>4, <2>5 DEF TypeOK
<1>16. ASSUME NEW h \in Handlers, Cancelled(h)
       PROVE  TypeOK'
  <2>1. ThreadTypes'
    BY <1>16 DEF Cancelled, ThreadTypes, Goto, Labels, Exited
  <2>2. ListTypes' /\ HbTypes' /\ MqTypes' /\ NetTypes'
    BY <1>16 DEF Cancelled, ListTypes, HbTypes, MqTypes, NetTypes, listVars, hbVars, mqVars, netVars
  <2> QED
    BY <2>1, <2>2 DEF TypeOK
<1>17. ASSUME HbStart
       PROVE  TypeOK'
  <2>1. HbTypes'
    <3>1. first_link(chain, NULL) \in Addrs
      BY <1>17, FirstLink, NodesType DEF HbStart, ListTypes
    <3> QED
      BY <1>17, <3>1 DEF HbStart, HbTypes, StandAt, HbLabels
  <2>2. ThreadTypes' /\ ListTypes' /\ MqTypes' /\ NetTypes'
    BY <1>17 DEF HbStart, ThreadTypes, ListTypes, MqTypes, NetTypes, threadVars, listVars, mqVars, netVars
  <2> QED
    BY <2>1, <2>2 DEF TypeOK
<1>18. ASSUME HbPing
       PROVE  TypeOK'
  <2>1. HbTypes'
    BY <1>18, ConnType DEF HbPing, HbTypes, HbAt, HbLabels
  <2>2. NetTypes'
    BY <1>18, SendToType, ConnType, MessagesType DEF HbPing, NetTypes
  <2>3. ThreadTypes' /\ ListTypes' /\ MqTypes'
    BY <1>18 DEF HbPing, ThreadTypes, ListTypes, MqTypes, threadVars, listVars, mqVars
  <2> QED
    BY <2>1, <2>2, <2>3 DEF TypeOK
<1>19. ASSUME HbPong
       PROVE  TypeOK'
  <2>1. HbTypes'
    BY <1>19, NextType DEF HbPong, HbTypes, HbAt, StandAt, HbLabels
  <2>2. NetTypes'
    <3>1. peer' \in [Handlers -> Far] /\ up' \in [Handlers -> Seq(Messages)]
      BY <1>19, RecvType DEF HbPong, HbTypes
    <3> QED
      BY <1>19, <3>1 DEF HbPong, NetTypes
  <2>3. ThreadTypes' /\ ListTypes' /\ MqTypes'
    BY <1>19 DEF HbPong, ThreadTypes, ListTypes, MqTypes, threadVars, listVars, mqVars
  <2> QED
    BY <2>1, <2>2, <2>3 DEF TypeOK
<1>20. ASSUME HbCancel
       PROVE  TypeOK'
  <2>1. ThreadTypes'
    BY <1>20 DEF HbCancel, ThreadTypes
  <2>2. HbTypes'
    BY <1>20 DEF HbCancel, HbTypes, HbAt, HbLabels
  <2>3. NetTypes'
    BY <1>20 DEF HbCancel, NetTypes
  <2>4. ListTypes' /\ MqTypes'
    BY <1>20 DEF HbCancel, ListTypes, MqTypes, listVars, mqVars
  <2> QED
    BY <2>1, <2>2, <2>3, <2>4 DEF TypeOK
<1>21. ASSUME HbSemWait
       PROVE  TypeOK'
  <2>1. ListTypes'
    BY <1>21 DEF HbSemWait, ListTypes, sem_wait
  <2>2. HbTypes'
    BY <1>21 DEF HbSemWait, HbTypes, HbAt, HbLabels
  <2>3. ThreadTypes' /\ MqTypes' /\ NetTypes'
    BY <1>21 DEF HbSemWait, ThreadTypes, MqTypes, NetTypes, threadVars, mqVars, netVars
  <2> QED
    BY <2>1, <2>2, <2>3 DEF TypeOK
<1>22. ASSUME HbDelete
       PROVE  TypeOK'
  <2>1. ListTypes'
    BY <1>22, UnlinkType DEF HbDelete, ListTypes, sem_post
  <2>2. HbTypes'
    BY <1>22, UnlinkType, FirstLink, NodesType DEF HbDelete, HbTypes, HbAt, StandAt, HbLabels
  <2>3. ThreadTypes' /\ MqTypes' /\ NetTypes'
    BY <1>22 DEF HbDelete, ThreadTypes, MqTypes, NetTypes, threadVars, mqVars, netVars
  <2> QED
    BY <2>1, <2>2, <2>3 DEF TypeOK
<1>23. ASSUME NEW h \in Handlers, DeviceLogin(h)
       PROVE  TypeOK'
  <2>1. NetTypes'
    BY <1>23, AppendProperties, MessagesType DEF DeviceLogin, NetTypes, Far
  <2>2. ThreadTypes' /\ ListTypes' /\ HbTypes' /\ MqTypes'
    BY <1>23 DEF DeviceLogin, ThreadTypes, ListTypes, HbTypes, MqTypes, threadVars, listVars, hbVars, mqVars
  <2> QED
    BY <2>1, <2>2 DEF TypeOK
<1>24. ASSUME NEW h \in Handlers, DeviceLoggedIn(h)
       PROVE  TypeOK'
  <2>1. NetTypes'
    BY <1>24, HeadTailProperties DEF DeviceLoggedIn, NetTypes, Far
  <2>2. ThreadTypes' /\ ListTypes' /\ HbTypes' /\ MqTypes'
    BY <1>24 DEF DeviceLoggedIn, ThreadTypes, ListTypes, HbTypes, MqTypes, threadVars, listVars, hbVars, mqVars
  <2> QED
    BY <2>1, <2>2 DEF TypeOK
<1>25. ASSUME NEW h \in Handlers, DeviceRecv(h)
       PROVE  TypeOK'
  <2>1. NetTypes'
    <3> DEFINE m == Head(down[h])
    <3>1. m \in Messages /\ Tail(down[h]) \in Seq(Messages)
      BY <1>25, HeadTailProperties DEF DeviceRecv, NetTypes
    <3>2. down' \in [Handlers -> Seq(Messages)]
      BY <1>25, <3>1 DEF DeviceRecv, NetTypes
    <3>3. up' \in [Handlers -> Seq(Messages)]
      BY <1>25, AppendProperties, MessagesType DEF DeviceRecv, NetTypes
    <3>4. m.id \in 0..MaxReq
      BY <3>1 DEF Messages
    <3>5. work' \in [Handlers -> SUBSET (0..MaxReq)]
      BY <1>25, <3>4 DEF DeviceRecv, NetTypes
    <3> QED
      BY <1>25, <3>2, <3>3, <3>5 DEF DeviceRecv, NetTypes
  <2>2. ThreadTypes' /\ ListTypes' /\ HbTypes' /\ MqTypes'
    BY <1>25 DEF DeviceRecv, ThreadTypes, ListTypes, HbTypes, MqTypes, threadVars, listVars, hbVars, mqVars
  <2> QED
    BY <2>1, <2>2 DEF TypeOK
<1>26. ASSUME NEW h \in Handlers, DeviceAnswer(h)
       PROVE  TypeOK'
  <2>1. NetTypes'
    BY <1>26, AppendProperties, MessagesType DEF DeviceAnswer, NetTypes
  <2>2. ThreadTypes' /\ ListTypes' /\ HbTypes' /\ MqTypes'
    BY <1>26 DEF DeviceAnswer, ThreadTypes, ListTypes, HbTypes, MqTypes, threadVars, listVars, hbVars, mqVars
  <2> QED
    BY <2>1, <2>2 DEF TypeOK
<1>27. ASSUME NEW h \in Handlers, DeviceExit(h)
       PROVE  TypeOK'
  <2>1. NetTypes'
    BY <1>27 DEF DeviceExit, NetTypes, Far
  <2>2. ThreadTypes' /\ ListTypes' /\ HbTypes' /\ MqTypes'
    BY <1>27 DEF DeviceExit, ThreadTypes, ListTypes, HbTypes, MqTypes, threadVars, listVars, hbVars, mqVars
  <2> QED
    BY <2>1, <2>2 DEF TypeOK
<1>28. ASSUME CgiRequest
       PROVE  TypeOK'
  <2>1. MqTypes'
    BY <1>28, AppendProperties DEF CgiRequest, MqTypes
  <2>2. ThreadTypes' /\ ListTypes' /\ HbTypes' /\ NetTypes'
    BY <1>28 DEF CgiRequest, ThreadTypes, ListTypes, HbTypes, NetTypes, threadVars, listVars, hbVars, netVars
  <2> QED
    BY <2>1, <2>2 DEF TypeOK
<1>29. ASSUME CgiReceive
       PROVE  TypeOK'
  <2>1. MqTypes'
    <3>1. Len(replies) \in Nat
      BY LenProperties DEF MqTypes
    <3> QED
      BY <1>29, <3>1 DEF CgiReceive, MqTypes
  <2>2. ThreadTypes' /\ ListTypes' /\ HbTypes' /\ NetTypes'
    BY <1>29 DEF CgiReceive, ThreadTypes, ListTypes, HbTypes, NetTypes, threadVars, listVars, hbVars, netVars
  <2> QED
    BY <2>1, <2>2 DEF TypeOK
<1>30. ASSUME sig_handler
       PROVE  TypeOK'
  <2>1. NetTypes'
    BY <1>30 DEF sig_handler, NetTypes
  <2>2. ThreadTypes' /\ ListTypes' /\ HbTypes' /\ MqTypes'
    BY <1>30 DEF sig_handler, ThreadTypes, ListTypes, HbTypes, MqTypes, threadVars, listVars, hbVars, mqVars
  <2> QED
    BY <2>1, <2>2 DEF TypeOK
<1>31. CASE UNCHANGED vars
  BY <1>31 DEF vars, threadVars, listVars, hbVars, mqVars, netVars, ThreadTypes, ListTypes, HbTypes, MqTypes, NetTypes, TypeOK
<1> QED
  BY <1>1, <1>2, <1>3, <1>4, <1>5, <1>6, <1>7, <1>8, <1>9, <1>10, <1>11, <1>12, <1>13, <1>14, <1>15, <1>16, <1>17, <1>18, <1>19, <1>20, <1>21, <1>22, <1>23, <1>24, <1>25, <1>26, <1>27, <1>28, <1>29, <1>30, <1>31 DEF Next, HandlerStep, HbStep, DeviceMain

(* Every behaviour of the server, its inspector and its greenhouses keeps  *)
(* all state within its types, whatever the number of connections.         *)
THEOREM TypeCorrect == Spec => []TypeOK
BY TypeInit, TypeStep, PTL DEF Spec

-----------------------------------------------------------------------------
(* A thread that jumps to label l holds the semaphore exactly if l does. *)
LEMMA HoldersGoto ==
  ASSUME ThreadTypes, NEW h \in Handlers, NEW l, Goto(h, l)
  PROVE  Holders' = IF l \in HolderLabels THEN Holders \cup {h} ELSE Holders \ {h}
BY DEF ThreadTypes, Goto, Holders

(* Steps that leave the semaphore alone: the thread stays outside, or stays inside. *)
LEMMA HoldersKeep ==
  ASSUME ThreadTypes, NEW h \in Handlers, NEW l, Goto(h, l),
         pc[h] \in HolderLabels <=> l \in HolderLabels
  PROVE  Holders' = Holders
BY HoldersGoto DEF Holders

(* At the start the semaphore is free and nobody is inside. *)
LEMMA MutexInit == Init => Mutex /\ MissingNodeBranchDead
<1> SUFFICES ASSUME Init PROVE Mutex /\ MissingNodeBranchDead
  OBVIOUS
<1>1. Holders = {}
  BY DEF Init, Holders, HolderLabels
<1> QED
  BY <1>1 DEF Init, Mutex, MissingNodeBranchDead

(* The lock argument: a step keeps the semaphore and who is inside, or     *)
(* takes it when nobody is, or is the release of the only one inside.      *)
Keeps == /\ Holders' = Holders /\ linksem' = linksem
         /\ hb' = "hb_del" <=> hb = "hb_del"
Takes == /\ sem_wait
         /\ \/ hb' = hb /\ \E h \in Handlers : Holders' = Holders \cup {h}
            \/ hb' = "hb_del" /\ Holders' = Holders
Releases == /\ linksem' = 1
            /\ \/ hb' = hb /\ \E h \in Holders : Holders' = Holders \ {h}
               \/ hb = "hb_del" /\ hb' # "hb_del" /\ Holders' = Holders

(* A step that changes neither the semaphore nor who is inside keeps the lock. *)
LEMMA MutexKept ==
  ASSUME Mutex, Keeps \/ Takes \/ Releases
  PROVE  Mutex'
<1>1. CASE Keeps
  BY <1>1 DEF Keeps, Mutex
<1>2. CASE Takes
  BY <1>2 DEF Takes, Mutex, sem_wait
<1>3. CASE Releases
  BY <1>3 DEF Releases, Mutex
<1> QED
  BY <1>1, <1>2, <1>3

(* Every step keeps the lock, and keeps everyone off the dead branch. *)
LEMMA MutexStep ==
  ASSUME TypeOK, Mutex, MissingNodeBranchDead, [Next]_vars
  PROVE  (Keeps \/ Takes \/ Releases) /\ MissingNodeBranchDead'
<1>0. ThreadTypes
  BY DEF TypeOK
<1> USE <1>0
<1>1. ASSUME NEW h \in Handlers, Accept(h) PROVE Keeps /\ MissingNodeBranchDead'
  <2>1. Goto(h, "start") /\ pc[h] \notin HolderLabels /\ "start" \notin HolderLabels
    BY <1>1 DEF Accept, At, HolderLabels
  <2> QED
    BY <1>1, <2>1, HoldersKeep DEF Accept, Goto, Keeps, listVars, hbVars, ThreadTypes, MissingNodeBranchDead
<1>2. ASSUME NEW h \in Handlers, Start(h) PROVE Keeps /\ MissingNodeBranchDead'
  <2>1. Goto(h, "login") /\ pc[h] \notin HolderLabels /\ "login" \notin HolderLabels
    BY <1>2 DEF Start, At, HolderLabels
  <2> QED
    BY <1>2, <2>1, HoldersKeep DEF Start, Goto, Keeps, listVars, hbVars, ThreadTypes, MissingNodeBranchDead
<1>3. ASSUME NEW h \in Handlers, Grant(h) PROVE Keeps /\ MissingNodeBranchDead'
  <2>1. Goto(h, "ins_wait") /\ pc[h] \notin HolderLabels /\ "ins_wait" \notin HolderLabels
    BY <1>3 DEF Grant, At, HolderLabels
  <2> QED
    BY <1>3, <2>1, HoldersKeep DEF Grant, Goto, Keeps, listVars, hbVars, ThreadTypes, MissingNodeBranchDead
<1>4. ASSUME NEW h \in Handlers, Deny(h) PROVE Keeps /\ MissingNodeBranchDead'
  <2>1. Goto(h, "done") /\ pc[h] \notin HolderLabels /\ "done" \notin HolderLabels
    BY <1>4 DEF Deny, At, HolderLabels
  <2> QED
    BY <1>4, <2>1, HoldersKeep DEF Deny, Goto, Keeps, listVars, hbVars, ThreadTypes, MissingNodeBranchDead
<1>5. ASSUME NEW h \in Handlers, TakeRequest(h) PROVE Keeps /\ MissingNodeBranchDead'
  <2>1. Goto(h, "chk_wait") /\ pc[h] \notin HolderLabels /\ "chk_wait" \notin HolderLabels
    BY <1>5 DEF TakeRequest, At, HolderLabels
  <2> QED
    BY <1>5, <2>1, HoldersKeep DEF TakeRequest, Goto, Keeps, listVars, hbVars, ThreadTypes, MissingNodeBranchDead
<1>6. ASSUME NEW h \in Handlers, Send(h) PROVE Keeps /\ MissingNodeBranchDead'
  <2>1. Goto(h, "wait") /\ pc[h] \notin HolderLabels /\ "wait" \notin HolderLabels
    BY <1>6 DEF Send, At, HolderLabels
  <2> QED
    BY <1>6, <2>1, HoldersKeep DEF Send, Goto, Keeps, listVars, hbVars, ThreadTypes, MissingNodeBranchDead
<1>7. ASSUME NEW h \in Handlers, Post(h) PROVE Keeps /\ MissingNodeBranchDead'
  <2>1. Goto(h, "rcv") /\ pc[h] \notin HolderLabels /\ "rcv" \notin HolderLabels
    BY <1>7 DEF Post, At, HolderLabels
  <2> QED
    BY <1>7, <2>1, HoldersKeep DEF Post, Goto, Keeps, listVars, hbVars, ThreadTypes, MissingNodeBranchDead
<1>8. ASSUME NEW h \in Handlers, CloseFd(h) PROVE Keeps /\ MissingNodeBranchDead'
  <2>1. Goto(h, "del_wait") /\ pc[h] \notin HolderLabels /\ "del_wait" \notin HolderLabels
    BY <1>8 DEF CloseFd, At, HolderLabels
  <2> QED
    BY <1>8, <2>1, HoldersKeep DEF CloseFd, Goto, Keeps, listVars, hbVars, ThreadTypes, MissingNodeBranchDead
<1>9. ASSUME NEW h \in Handlers, ReadLogin(h) PROVE Keeps /\ MissingNodeBranchDead'
  <2>1. \E l \in {"grant", "deny", "done"} : Goto(h, l) /\ pc[h] \notin HolderLabels /\ l \notin HolderLabels /\ l # "miss"
    BY <1>9 DEF ReadLogin, At, HolderLabels
  <2> QED
    BY <1>9, <2>1, HoldersKeep DEF ReadLogin, Goto, Keeps, listVars, hbVars, ThreadTypes, MissingNodeBranchDead
<1>10. ASSUME NEW h \in Handlers, Wait(h) PROVE Keeps /\ MissingNodeBranchDead'
  <2>1. \E l \in {"post", "close"} : Goto(h, l) /\ pc[h] \notin HolderLabels /\ l \notin HolderLabels /\ l # "miss"
    BY <1>10 DEF Wait, At, HolderLabels
  <2> QED
    BY <1>10, <2>1, HoldersKeep DEF Wait, Goto, Keeps, listVars, hbVars, ThreadTypes, MissingNodeBranchDead
<1>11. ASSUME NEW h \in Handlers, Cancelled(h) PROVE Keeps /\ MissingNodeBranchDead'
  <2>1. \E l \in {"lost", "cancelled"} : Goto(h, l) /\ (pc[h] \in HolderLabels <=> l \in HolderLabels)
    BY <1>11 DEF Cancelled, At, HolderLabels, CancellationPoints
  <2> QED
    BY <1>11, <2>1, HoldersKeep DEF Cancelled, Goto, Keeps, listVars, hbVars, ThreadTypes, MissingNodeBranchDead
<1>12. ASSUME NEW h \in Handlers, SemWait(h) PROVE Takes /\ MissingNodeBranchDead'
  <2>1. Holders = {} /\ linksem = 1
    BY <1>12 DEF SemWait, sem_wait, Mutex
  <2>2. pc[h] # "miss_wait"
    BY <2>1 DEF Holders, HolderLabels
  <2>3. \E l \in {"ins", "chk", "del"} : Goto(h, l)
    BY <1>12, <2>2 DEF SemWait
  <2>4. Holders' = Holders \cup {h}
    BY <2>3, HoldersGoto DEF HolderLabels
  <2>5. MissingNodeBranchDead'
    BY <2>3 DEF Goto, ThreadTypes, MissingNodeBranchDead
  <2> QED
    BY <1>12, <2>4, <2>5 DEF SemWait, Takes, hbVars
<1>13. ASSUME NEW h \in Handlers, Insert(h) PROVE Releases /\ MissingNodeBranchDead'
  <2>1. Goto(h, "rcv") /\ h \in Holders
    BY <1>13 DEF Insert, At, Holders, HolderLabels
  <2>2. Holders' = Holders \ {h}
    BY <2>1, HoldersGoto DEF HolderLabels
  <2> QED
    BY <1>13, <2>1, <2>2 DEF Insert, Goto, Releases, sem_post, hbVars, ThreadTypes, MissingNodeBranchDead
<1>14. ASSUME NEW h \in Handlers, Delete(h) PROVE Releases /\ MissingNodeBranchDead'
  <2>1. Goto(h, "done") /\ h \in Holders
    BY <1>14 DEF Delete, At, Holders, HolderLabels
  <2>2. Holders' = Holders \ {h}
    BY <2>1, HoldersGoto DEF HolderLabels
  <2> QED
    BY <1>14, <2>1, <2>2 DEF Delete, Goto, Releases, sem_post, hbVars, ThreadTypes, MissingNodeBranchDead
<1>15. ASSUME NEW h \in Handlers, Check(h) PROVE (Keeps \/ Releases) /\ MissingNodeBranchDead'
  <2>1. h \in Holders
    BY <1>15 DEF Check, At, Holders, HolderLabels
  <2>2. CASE Goto(h, "miss_wait") /\ UNCHANGED linksem
    <3>1. Holders' = Holders
      BY <2>1, <2>2, HoldersGoto DEF HolderLabels
    <3> QED
      BY <1>15, <2>2, <3>1 DEF Check, Goto, Keeps, hbVars, ThreadTypes, MissingNodeBranchDead
  <2>3. CASE Goto(h, "send") /\ sem_post
    <3>1. Holders' = Holders \ {h}
      BY <2>3, HoldersGoto DEF HolderLabels
    <3> QED
      BY <1>15, <2>1, <2>3, <3>1 DEF Check, Goto, Releases, sem_post, hbVars, ThreadTypes, MissingNodeBranchDead
  <2> QED
    BY <1>15, <2>2, <2>3 DEF Check
<1>16. ASSUME HbSemWait PROVE Takes /\ MissingNodeBranchDead'
  BY <1>16 DEF HbSemWait, Takes, Holders, threadVars, MissingNodeBranchDead
<1>17. ASSUME HbDelete PROVE Releases /\ MissingNodeBranchDead'
  BY <1>17 DEF HbDelete, HbAt, StandAt, sem_post, Releases, Holders, threadVars, MissingNodeBranchDead
<1>18. ASSUME HbStart \/ HbPing \/ HbPong \/ HbCancel PROVE Keeps /\ MissingNodeBranchDead'
  BY <1>18 DEF HbStart, HbPing, HbPong, HbCancel, HbAt, StandAt, Keeps, Holders, threadVars, listVars,
     MissingNodeBranchDead
<1>19. ASSUME UNCHANGED <<pc, linksem, hb>> PROVE Keeps /\ MissingNodeBranchDead'
  BY <1>19 DEF Keeps, Holders, MissingNodeBranchDead
<1>20. ASSUME NEW h \in Handlers,
                AcceptFails(h) \/ DeviceMain(h) \/ DeviceAnswer(h) \/ DeviceExit(h)
         PROVE  UNCHANGED <<pc, linksem, hb>>
  BY <1>20 DEF AcceptFails, DeviceMain, DeviceLogin, DeviceLoggedIn, DeviceRecv, DeviceAnswer, DeviceExit,
     threadVars, listVars, hbVars
<1>21. ASSUME CgiRequest \/ CgiReceive \/ sig_handler \/ UNCHANGED vars PROVE UNCHANGED <<pc, linksem, hb>>
  BY <1>21 DEF CgiRequest, CgiReceive, sig_handler, vars, threadVars, listVars, hbVars
<1> QED
  BY <1>1, <1>2, <1>3, <1>4, <1>5, <1>6, <1>7, <1>8, <1>9, <1>10, <1>11, <1>12, <1>13, <1>14, <1>15, <1>16, <1>17, <1>18, <1>19, <1>20, <1>21 DEF Next, HandlerStep, HbStep

(* linksem is a lock: no two threads are ever inside, and it is free       *)
(* exactly when none is, however threads block, exit and are cancelled.    *)
THEOREM MutexHolds == Spec => []Mutex
<1>1. Init => TypeOK /\ Mutex /\ MissingNodeBranchDead
  BY TypeInit, MutexInit
<1>2. TypeOK /\ Mutex /\ MissingNodeBranchDead /\ [Next]_vars
        => (TypeOK /\ Mutex /\ MissingNodeBranchDead)'
  BY TypeStep, MutexStep, MutexKept
<1> QED
  BY <1>1, <1>2, PTL DEF Spec

(* The failure report for a missing node is dead code: its handler would   *)
(* have to pass a semaphore it holds itself.                               *)
THEOREM FailureNeverReported == Spec => []MissingNodeBranchDead
<1>1. Init => TypeOK /\ Mutex /\ MissingNodeBranchDead
  BY TypeInit, MutexInit
<1>2. TypeOK /\ Mutex /\ MissingNodeBranchDead /\ [Next]_vars
        => (TypeOK /\ Mutex /\ MissingNodeBranchDead)'
  BY TypeStep, MutexStep, MutexKept
<1> QED
  BY <1>1, <1>2, PTL DEF Spec

-----------------------------------------------------------------------------
(* Handlers that have closed their descriptor and not been cancelled since. *)
Gone == {"del_wait", "del", "done"}

(* A connection has no descriptor before it is accepted, and a handler past *)
(* its close does not still own the descriptor it read.                     *)
Closed ==
  \A h \in Handlers, f \in Fds : sock[f] = h =>
    pc[h] # "none" /\ ~(pc[h] \in Gone /\ hfd[h] = f)

(* Descriptors are at most closed, and no handler but h is touched. *)
OnlyCloses(h) ==
  /\ \A f \in Fds : sock'[f] \in {sock[f], NULL}
  /\ \A k \in Handlers \ {h} : hfd'[k] = hfd[k]

(* A handler that ends up past its close was there already, or has just    *)
(* closed its own descriptor.                                              *)
LEMMA ClosedKept ==
  ASSUME TypeOK, Closed, NEW h \in Handlers, NEW l, l # "none", Goto(h, l), OnlyCloses(h),
         l \in Gone => hfd'[h] = hfd[h] /\ (pc[h] \in Gone \/ Close(hfd[h]))
  PROVE  Closed'
<1>1. \A k \in Handlers : pc'[k] = IF k = h THEN l ELSE pc[k]
  BY DEF Goto, TypeOK, ThreadTypes
<1>2. NULL \notin Handlers
  BY DEF ServerAssumption
<1> SUFFICES ASSUME NEW k \in Handlers, NEW f \in Fds, sock'[f] = k
             PROVE  pc'[k] # "none" /\ ~(pc'[k] \in Gone /\ hfd'[k] = f)
  BY DEF Closed
<1>3. sock[f] = k
  BY <1>2 DEF OnlyCloses
<1>4. pc[k] # "none" /\ ~(pc[k] \in Gone /\ hfd[k] = f)
  BY <1>3 DEF Closed
<1>5. CASE k # h
  BY <1>1, <1>4, <1>5 DEF OnlyCloses
<1>6. CASE k = h /\ l \notin Gone
  BY <1>1, <1>6
<1>7. CASE k = h /\ l \in Gone
  <2>1. pc'[k] = l /\ hfd'[k] = hfd[k]
    BY <1>1, <1>7
  <2>2. CASE pc[h] \in Gone
    BY <1>4, <1>7, <2>1, <2>2
  <2>3. CASE Close(hfd[h])
    BY <1>2, <1>7, <2>1, <2>3 DEF Close
  <2> QED
    BY <1>7, <2>2, <2>3
<1> QED
  BY <1>5, <1>6, <1>7

(* The new descriptor is the new handler's, which has closed nothing. *)
LEMMA ClosedAccept ==
  ASSUME TypeOK, Closed, NEW h \in Handlers, Accept(h)
  PROVE  Closed'
<1>1. pc[h] = "none" /\ Goto(h, "start") /\ hfd' = hfd
  BY DEF Accept
<1>2. \A k \in Handlers : pc'[k] = IF k = h THEN "start" ELSE pc[k]
  BY <1>1 DEF Goto, TypeOK, ThreadTypes
<1>3. \A f \in Fds : sock'[f] \in {sock[f], h}
  BY DEF Accept, TypeOK, NetTypes
<1> SUFFICES ASSUME NEW k \in Handlers, NEW f \in Fds, sock'[f] = k
             PROVE  pc'[k] # "none" /\ ~(pc'[k] \in Gone /\ hfd'[k] = f)
  BY DEF Closed
<1>4. CASE k = h
  BY <1>2, <1>4 DEF Gone
<1>5. CASE k # h
  BY <1>1, <1>2, <1>3, <1>5 DEF Closed
<1> QED
  BY <1>4, <1>5

(* Every step of a handler closes at most descriptors. *)
LEMMA ClosedStep ==
  ASSUME TypeOK, Closed, [Next]_vars
  PROVE  Closed'
<1>0. NULL \notin Handlers /\ (\A f \in Fds : sock[f] \in Handlers \cup {NULL})
  BY DEF ServerAssumption, TypeOK, NetTypes
<1>a. ASSUME NEW fd, Close(fd) PROVE \A f \in Fds : sock'[f] \in {sock[f], NULL}
  BY <1>a DEF Close
<1>1. ASSUME NEW h \in Handlers, Start(h) PROVE Closed'
  <2>1. Goto(h, "login") /\ sock' = sock /\ "login" \notin Gone
    BY <1>1 DEF Start, netVars, Gone
  <2>2. OnlyCloses(h)
    BY <1>1, <2>1 DEF Start, OnlyCloses, TypeOK, ThreadTypes
  <2> QED
    BY <2>1, <2>2, ClosedKept
<1>2. ASSUME NEW h \in Handlers,
             Grant(h) \/ TakeRequest(h) \/ Send(h) \/ Wait(h) \/ Post(h) \/ Insert(h) \/ Check(h)
      PROVE  Closed'
  <2>1. sock' = sock /\ hfd' = hfd
    BY <1>2 DEF Grant, TakeRequest, Send, Wait, Post, Insert, Check, netVars
  <2>2. \E l \in {"ins_wait", "chk_wait", "wait", "post", "close", "rcv", "miss_wait", "send"} : Goto(h, l)
    BY <1>2 DEF Grant, TakeRequest, Send, Wait, Post, Insert, Check
  <2> QED
    BY <2>1, <2>2, ClosedKept DEF OnlyCloses, Gone
<1>3. ASSUME NEW h \in Handlers, SemWait(h) PROVE Closed'
  <2>1. sock' = sock /\ hfd' = hfd
    BY <1>3 DEF SemWait, netVars
  <2>2. \/ Goto(h, "ins") \/ Goto(h, "chk") \/ Goto(h, "miss")
        \/ pc[h] = "del_wait" /\ Goto(h, "del")
    BY <1>3 DEF SemWait
  <2> QED
    BY <2>1, <2>2, ClosedKept DEF OnlyCloses, Gone
<1>4. ASSUME NEW h \in Handlers, Cancelled(h) PROVE Closed'
  <2>1. sock' = sock /\ hfd' = hfd
    BY <1>4 DEF Cancelled, netVars
  <2>2. \E l \in {"lost", "cancelled"} : Goto(h, l)
    BY <1>4 DEF Cancelled
  <2> QED
    BY <2>1, <2>2, ClosedKept DEF OnlyCloses, Gone
<1>5. ASSUME NEW h \in Handlers, CloseFd(h) \/ Deny(h) PROVE Closed'
  <2>1. Close(hfd[h]) /\ hfd' = hfd
    BY <1>5 DEF CloseFd, Deny
  <2>2. Goto(h, "del_wait") \/ Goto(h, "done")
    BY <1>5 DEF CloseFd, Deny
  <2>3. OnlyCloses(h)
    BY <1>a, <2>1 DEF OnlyCloses
  <2> QED
    BY <2>1, <2>2, <2>3, ClosedKept
<1>6. ASSUME NEW h \in Handlers, ReadLogin(h) PROVE Closed'
  <2>1. hfd' = hfd
    BY <1>6 DEF ReadLogin
  <2>2. \/ sock' = sock /\ (Goto(h, "grant") \/ Goto(h, "deny"))
        \/ Close(hfd[h]) /\ Goto(h, "done")
    BY <1>6 DEF ReadLogin
  <2>3. OnlyCloses(h)
    BY <1>a, <2>1, <2>2 DEF OnlyCloses
  <2> QED
    BY <2>1, <2>2, <2>3, ClosedKept DEF Gone
<1>7. ASSUME NEW h \in Handlers, Delete(h) PROVE Closed'
  <2>1. hfd' = hfd /\ Goto(h, "done")
    BY <1>7 DEF Delete
  <2>2. (pc[h] = "del" /\ sock' = sock) \/ Close(hfd[h])
    BY <1>7 DEF Delete
  <2>3. OnlyCloses(h)
    BY <1>a, <2>1, <2>2 DEF OnlyCloses
  <2> QED
    BY <2>1, <2>2, <2>3, ClosedKept DEF Gone
<1>8. ASSUME UNCHANGED <<pc, hfd, sock>> PROVE Closed'
  BY <1>8 DEF Closed
<1>9. ASSUME HbStep \/ CgiRequest \/ CgiReceive \/ sig_handler \/ UNCHANGED vars PROVE UNCHANGED <<pc, hfd, sock>>
  BY <1>9 DEF HbStep, HbStart, HbPing, HbPong, HbCancel, HbSemWait, HbDelete, CgiRequest, CgiReceive, sig_handler,
     vars, threadVars, netVars
<1>10. ASSUME NEW h \in Handlers, AcceptFails(h) \/ DeviceMain(h) \/ DeviceAnswer(h) \/ DeviceExit(h)
       PROVE  UNCHANGED <<pc, hfd, sock>>
  BY <1>10 DEF AcceptFails, DeviceMain, DeviceLogin, DeviceLoggedIn, DeviceRecv, DeviceAnswer, DeviceExit,
     threadVars
<1> QED
  BY <1>1, <1>2, <1>3, <1>4, <1>5, <1>6, <1>7, <1>8, <1>9, <1>10, ClosedAccept DEF Next, HandlerStep

(* The two leaks named at LeaksExplained are all there are: every other    *)
(* open descriptor belongs to a handler that has not ended.                *)
THEOREM OnlyTwoLeaks == Spec => []LeaksExplained
<1>1. Init => TypeOK /\ Closed
  <2>1. Init => \A f \in Fds : sock[f] = NULL
    BY DEF Init
  <2> QED
    BY <2>1, TypeInit DEF Closed, ServerAssumption
<1>2. TypeOK /\ Closed /\ [Next]_vars => (TypeOK /\ Closed)'
  BY TypeStep, ClosedStep
<1>3. TypeOK /\ Closed => LeaksExplained
  <2> SUFFICES ASSUME TypeOK, Closed, NEW f \in Fds, sock[f] # NULL, hfd[sock[f]] = f
               PROVE  \E h \in Handlers : \/ Running(h) /\ hfd[h] = f
                                          \/ pc[h] \in {"cancelled", "lost"} /\ hfd[h] = f
    BY DEF LeaksExplained
  <2>1. sock[f] \in Handlers
    BY DEF TypeOK, NetTypes
  <2>2. pc[sock[f]] \notin {"none", "done"}
    BY <2>1 DEF Closed, Gone
  <2> QED
    BY <2>1, <2>2 DEF Running, Exited
<1> QED
  BY <1>1, <1>2, <1>3, PTL DEF Spec

-----------------------------------------------------------------------------
(* Only main, when it starts a handler, and a handler's own steps change   *)
(* where it is.                                                            *)
LEMMA OnlyOwnStep ==
  ASSUME ThreadTypes, [Next]_vars, NEW h \in Handlers, pc'[h] # pc[h]
  PROVE  Accept(h) \/ HandlerStep(h)
<1>1. ASSUME NEW k \in Handlers, k # h, Accept(k) \/ HandlerStep(k)
      PROVE  FALSE
  <2>1. PICK l : Goto(k, l)
    BY <1>1 DEF HandlerStep, Accept, Start, ReadLogin, Grant, Deny, SemWait, Insert, TakeRequest,
       Check, Send, Wait, Post, CloseFd, Delete, Cancelled
  <2> QED
    BY <1>1, <2>1 DEF Goto, ThreadTypes
<1>2. ASSUME NEW k \in Handlers, AcceptFails(k) \/ DeviceMain(k) \/ DeviceAnswer(k) \/ DeviceExit(k)
      PROVE  FALSE
  BY <1>2 DEF AcceptFails, DeviceMain, DeviceLogin, DeviceLoggedIn, DeviceRecv, DeviceAnswer,
     DeviceExit, threadVars
<1>3. ASSUME HbStart \/ HbPing \/ HbPong \/ HbCancel \/ HbSemWait \/ HbDelete
             \/ CgiRequest \/ CgiReceive \/ sig_handler \/ UNCHANGED vars
      PROVE  FALSE
  BY <1>3 DEF HbStart, HbPing, HbPong, HbCancel, HbSemWait, HbDelete, CgiRequest, CgiReceive, sig_handler,
     vars, threadVars
<1> QED
  BY <1>1, <1>2, <1>3 DEF Next, HbStep

(* Only a handler inside the semaphore and the inspector write the list.   *)
LEMMA ListWriters ==
  ASSUME [Next]_vars, chain' # chain
  PROVE  HbDelete \/ \E k \in Handlers : pc[k] \in {"ins", "del", "miss"}
<1>1. ASSUME NEW k \in Handlers,
             Accept(k) \/ AcceptFails(k) \/ HandlerStep(k) \/ DeviceMain(k) \/ DeviceAnswer(k) \/ DeviceExit(k)
      PROVE  pc[k] \in {"ins", "del", "miss"}
  <2>1. Insert(k) \/ Delete(k)
    BY <1>1 DEF Accept, AcceptFails, HandlerStep, DeviceMain, DeviceExit, DeviceLogin,
       DeviceLoggedIn, DeviceRecv, DeviceAnswer, Start, ReadLogin, Grant, Deny, SemWait,
       TakeRequest, Check, Send, Wait, Post, CloseFd, Cancelled, listVars
  <2> QED
    BY <2>1 DEF Insert, Delete, At
<1>2. ASSUME HbStart \/ HbPing \/ HbPong \/ HbCancel \/ HbSemWait
             \/ CgiRequest \/ CgiReceive \/ sig_handler \/ UNCHANGED vars
      PROVE  FALSE
  BY <1>2 DEF HbStart, HbPing, HbPong, HbCancel, HbSemWait, CgiRequest, CgiReceive, sig_handler, vars, listVars
<1> QED
  BY <1>1, <1>2 DEF Next, HbStep

(* After a miss, no step changes the list or lets the thread out. *)
LEMMA WedgedStep ==
  ASSUME TypeOK, Mutex, [Next]_vars, Wedged
  PROVE  chain' = chain /\ Wedged'
<1>0. ThreadTypes
  BY DEF TypeOK
<1>1. PICK h \in Handlers : pc[h] \in {"miss_wait", "lost"}
  BY DEF Wedged
<1>2. Holders = {h} /\ linksem # 1 /\ hb # "hb_del"
  BY <1>1 DEF Mutex, Holders, HolderLabels
<1>3. chain' = chain
  <2>1. SUFFICES ASSUME chain' # chain PROVE FALSE
    OBVIOUS
  <2>2. ~HbDelete
    BY <1>2 DEF HbDelete, HbAt
  <2>3. PICK k \in Handlers : pc[k] \in {"ins", "del", "miss"}
    BY <2>1, <2>2, ListWriters
  <2>4. k \in Holders
    BY <2>3 DEF Holders, HolderLabels
  <2> QED
    BY <1>1, <1>2, <2>3, <2>4
<1>4. Wedged'
  <2>1. CASE pc'[h] = pc[h]
    BY <1>1, <2>1 DEF Wedged
  <2>2. CASE pc'[h] # pc[h]
    <3>1. ASSUME NEW k \in Handlers, Accept(k) \/ HandlerStep(k) PROVE k = h => Cancelled(k)
      <4>1. ~SemWait(k)
        BY <1>2 DEF SemWait, sem_wait
      <4> QED
        BY <1>1, <3>1, <4>1 DEF HandlerStep, Accept, Start, ReadLogin, Grant, Deny, Insert,
           TakeRequest, Check, Send, Wait, Post, CloseFd, Delete, At
    <3>2. Cancelled(h)
      BY <1>0, <2>2, <3>1, OnlyOwnStep
    <3> QED
      BY <1>0, <1>1, <3>2 DEF Cancelled, CancellationPoints, Goto, ThreadTypes, Wedged
  <2> QED
    BY <2>1, <2>2
<1> QED
  BY <1>3, <1>4

(* Once a handler has missed its node, the list is frozen: no greenhouse   *)
(* is added and none is dropped until the server restarts.                 *)
THEOREM FrozenForever == Spec => WedgedForever
<1>1. TypeOK /\ Mutex /\ [Next]_vars => [Wedged => chain' = chain /\ Wedged']_vars
  BY WedgedStep
<1> QED
  BY <1>1, TypeCorrect, MutexHolds, PTL DEF Spec, WedgedForever
-----------------------------------------------------------------------------
(* What a handler's buffer holds, by the place it is at: nothing before it *)
(* takes a request, the request until it has answered or gone.             *)
EmptyAt == {"none", "start", "login", "grant", "deny", "ins_wait", "ins", "rcv"}
FullAt == {"chk_wait", "chk", "miss_wait", "miss", "send", "wait", "post"}

Buffers ==
  \A h \in Handlers : (pc[h] \in EmptyAt => req[h] = 0) /\ (pc[h] \in FullAt => req[h] # 0)

Requests == RequestConserved /\ Buffers

(* Nothing happens to the requests. *)
Idle == UNCHANGED <<reqs, nreq, replies, req>>

(* A step of the program either leaves the requests alone, or queues one,  *)
(* or takes one, or posts an answer.                                       *)
LEMMA FourKinds ==
  ASSUME MissingNodeBranchDead, [Next]_vars
  PROVE  Idle \/ CgiRequest \/ \E h \in Handlers : TakeRequest(h) \/ Post(h)
<1>1. ASSUME NEW h \in Handlers, Accept(h) \/ AcceptFails(h) PROVE Idle
  BY <1>1 DEF Accept, AcceptFails, mqVars, threadVars, Idle
<1>2. ASSUME NEW h \in Handlers,
             Start(h) \/ ReadLogin(h) \/ Grant(h) \/ Deny(h) \/ SemWait(h) \/ Insert(h)
      PROVE  Idle
  BY <1>2 DEF Start, ReadLogin, Grant, Deny, SemWait, Insert, mqVars, Idle
<1>3. ASSUME NEW h \in Handlers,
             Check(h) \/ Send(h) \/ Wait(h) \/ CloseFd(h) \/ Cancelled(h)
      PROVE  Idle
  BY <1>3 DEF Check, Send, Wait, CloseFd, Cancelled, mqVars, Idle
<1>4. ASSUME NEW h \in Handlers, Delete(h) PROVE Idle
  BY <1>4 DEF Delete, MissingNodeBranchDead, Idle
<1>5. ASSUME HbStep PROVE Idle
  BY <1>5 DEF HbStep, HbStart, HbPing, HbPong, HbCancel, HbSemWait, HbDelete, mqVars, threadVars, Idle
<1>6. ASSUME NEW c \in Handlers, DeviceMain(c) \/ DeviceAnswer(c) \/ DeviceExit(c) PROVE Idle
  BY <1>6 DEF DeviceMain, DeviceLogin, DeviceLoggedIn, DeviceRecv, DeviceAnswer, DeviceExit,
     mqVars, threadVars, Idle
<1>7. ASSUME CgiReceive \/ sig_handler \/ UNCHANGED vars PROVE Idle
  BY <1>7 DEF CgiReceive, sig_handler, vars, mqVars, threadVars, Idle
<1> QED
  BY <1>1, <1>2, <1>3, <1>4, <1>5, <1>6, <1>7 DEF Next, HandlerStep
-----------------------------------------------------------------------------
(* A label of a running handler is in one of the two sets until it posts   *)
(* or ends, and steps that leave req alone do not cross from one to the    *)
(* other.                                                                  *)
LEMMA BuffersIdle ==
  ASSUME TypeOK, Buffers, MissingNodeBranchDead, [Next]_vars, Idle,
         ~\E h \in Handlers : TakeRequest(h) \/ Post(h)
  PROVE  Buffers'
<1>0. ThreadTypes /\ req' = req
  BY DEF TypeOK, Idle
<1> SUFFICES ASSUME NEW h \in Handlers
             PROVE  /\ pc'[h] \in EmptyAt => pc[h] \in EmptyAt
                    /\ pc'[h] \in FullAt => pc[h] \in FullAt
  BY <1>0 DEF Buffers
<1>1. CASE pc'[h] = pc[h]
  BY <1>1
<1>2. CASE pc'[h] # pc[h]
  <2>1. Accept(h) \/ HandlerStep(h)
    BY <1>0, <1>2, OnlyOwnStep
  <2>2. CASE Accept(h)
    BY <1>0, <2>2 DEF Accept, Goto, ThreadTypes, EmptyAt, FullAt
  <2>3. CASE Start(h) \/ Grant(h) \/ Deny(h) \/ Insert(h)
    BY <1>0, <2>3 DEF Start, Grant, Deny, Insert, At, Goto, ThreadTypes, EmptyAt, FullAt
  <2>4. CASE ReadLogin(h)
    <3>1. pc[h] = "login" /\ \E l \in {"grant", "deny", "done"} : Goto(h, l)
      BY <2>4 DEF ReadLogin, At
    <3> QED
      BY <1>0, <3>1 DEF Goto, ThreadTypes, EmptyAt, FullAt
  <2>5. CASE SemWait(h)
    BY <1>0, <2>5 DEF SemWait, Goto, ThreadTypes, EmptyAt, FullAt
  <2>6. CASE Check(h) \/ Send(h) \/ CloseFd(h)
    BY <1>0, <2>6 DEF Check, Send, CloseFd, At, Goto, ThreadTypes, EmptyAt, FullAt
  <2>7. CASE Wait(h)
    <3>1. pc[h] = "wait" /\ \E l \in {"post", "close"} : Goto(h, l)
      BY <2>7 DEF Wait, At
    <3> QED
      BY <1>0, <3>1 DEF Goto, ThreadTypes, EmptyAt, FullAt
  <2>8. CASE Delete(h) \/ Cancelled(h)
    BY <1>0, <2>8 DEF Delete, Cancelled, Goto, ThreadTypes, EmptyAt, FullAt
  <2> QED
    BY <2>1, <2>2, <2>3, <2>4, <2>5, <2>6, <2>7, <2>8 DEF HandlerStep
<1> QED
  BY <1>1, <1>2
-----------------------------------------------------------------------------
(* Queues whose elements differ from each other, and queues of records     *)
(* that carry the name of a request each, and no name twice.               *)
Distinct(s) == \A i, j \in DOMAIN s : s[i] = s[j] => i = j
Names(s) == {s[i].req : i \in DOMAIN s}
DistinctNames(s) == \A i, j \in DOMAIN s : s[i].req = s[j].req => i = j

(* A new element goes to the end of a queue. *)
LEMMA AppendDistinct ==
  ASSUME NEW S, NEW s \in Seq(S), NEW e \in S
  PROVE  /\ ToSet(Append(s, e)) = ToSet(s) \cup {e}
         /\ Distinct(s) /\ e \notin ToSet(s) => Distinct(Append(s, e))
<1> DEFINE t == Append(s, e)
<1>1. /\ t \in Seq(S) /\ Len(t) = Len(s) + 1 /\ Len(s) \in Nat
      /\ \A i \in 1..Len(s) : t[i] = s[i]
      /\ t[Len(s) + 1] = e
  BY AppendProperties, LenProperties
<1>2. DOMAIN s = 1..Len(s) /\ DOMAIN t = 1..(Len(s) + 1)
  BY <1>1, LenProperties
<1> HIDE DEF t
<1>3. PICK n : /\ n \notin DOMAIN s /\ DOMAIN t = DOMAIN s \cup {n} /\ t[n] = e
               /\ \A i \in DOMAIN s : t[i] = s[i]
  <2>1. Len(s) + 1 \notin DOMAIN s /\ DOMAIN t = DOMAIN s \cup {Len(s) + 1}
    BY <1>1, <1>2
  <2> QED BY <1>1, <1>2, <2>1
<1>4. ToSet(t) = ToSet(s) \cup {e}
  BY <1>3 DEF ToSet
<1>5. Distinct(s) /\ e \notin ToSet(s) => Distinct(t)
  BY <1>3 DEF Distinct, ToSet
<1> QED BY <1>4, <1>5 DEF t

(* The oldest element leaves a queue. *)
LEMMA TailDistinct ==
  ASSUME NEW S, NEW s \in Seq(S), s # <<>>, Distinct(s)
  PROVE  /\ ToSet(Tail(s)) = ToSet(s) \ {Head(s)}
         /\ Head(s) \in ToSet(s)
         /\ Distinct(Tail(s))
<1> DEFINE t == Tail(s)
<1>1. /\ t \in Seq(S) /\ Len(t) = Len(s) - 1 /\ Len(s) \in Nat /\ Len(s) >= 1
      /\ \A i \in 1..Len(t) : t[i] = s[i + 1]
      /\ Head(s) = s[1]
  BY HeadTailProperties, LenProperties, EmptySeq
<1>2. DOMAIN s = 1..Len(s) /\ DOMAIN t = 1..(Len(s) - 1)
  BY <1>1, LenProperties
<1> HIDE DEF t
<1>3. /\ 1 \in DOMAIN s
      /\ \A i \in DOMAIN t : i \in Nat /\ i + 1 \in DOMAIN s \ {1} /\ t[i] = s[i + 1]
  BY <1>1, <1>2
<1>4. ASSUME NEW i \in DOMAIN s \ {1} PROVE \E j \in DOMAIN t : j + 1 = i
  <2>1. i - 1 \in DOMAIN t /\ (i - 1) + 1 = i
    BY <1>1, <1>2
  <2> QED BY <2>1
<1>5. Distinct(t)
  BY <1>3 DEF Distinct
<1>6. ToSet(t) = ToSet(s) \ {s[1]}
  BY <1>3, <1>4 DEF Distinct, ToSet
<1>7. s[1] \in ToSet(s)
  BY <1>3 DEF ToSet
<1> QED BY <1>1, <1>5, <1>6, <1>7 DEF t

(* The names in a queue when an element comes. *)
LEMMA AppendNames ==
  ASSUME NEW S, NEW s \in Seq(S), NEW e \in S
  PROVE  /\ Names(Append(s, e)) = Names(s) \cup {e.req}
         /\ DistinctNames(s) /\ e.req \notin Names(s) => DistinctNames(Append(s, e))
<1> DEFINE t == Append(s, e)
<1>1. /\ t \in Seq(S) /\ Len(t) = Len(s) + 1 /\ Len(s) \in Nat
      /\ \A i \in 1..Len(s) : t[i] = s[i]
      /\ t[Len(s) + 1] = e
  BY AppendProperties, LenProperties
<1>2. DOMAIN s = 1..Len(s) /\ DOMAIN t = 1..(Len(s) + 1)
  BY <1>1, LenProperties
<1> HIDE DEF t
<1>3. PICK n : /\ n \notin DOMAIN s /\ DOMAIN t = DOMAIN s \cup {n} /\ t[n] = e
               /\ \A i \in DOMAIN s : t[i] = s[i]
  <2>1. Len(s) + 1 \notin DOMAIN s /\ DOMAIN t = DOMAIN s \cup {Len(s) + 1}
    BY <1>1, <1>2
  <2> QED BY <1>1, <1>2, <2>1
<1>4. Names(t) = Names(s) \cup {e.req}
  BY <1>3 DEF Names
<1>5. DistinctNames(s) /\ e.req \notin Names(s) => DistinctNames(t)
  BY <1>3 DEF DistinctNames, Names
<1> QED BY <1>4, <1>5 DEF t

(* The parts of RequestConserved, in these words. *)
LEMMA ConservedParts ==
  RequestConserved <=>
    /\ Queued \cup Held \cup Answered = 1..nreq
    /\ Queued \cap Held = {} /\ Held \cap Answered = {} /\ Answered \cap Queued = {}
    /\ Distinct(reqs)
    /\ \A h, k \in Handlers : req[h] = req[k] /\ req[h] # 0 => h = k
    /\ DistinctNames(replies)
BY DEF RequestConserved, Distinct, DistinctNames

(* A page queues a request: the next number comes to the end of the queue. *)
LEMMA AskStep ==
  ASSUME TypeOK, Requests, CgiRequest
  PROVE  /\ nreq + 1 \in 1..MaxReq /\ nreq + 1 \notin Queued \cup Held \cup Answered
         /\ Queued' = Queued \cup {nreq + 1} /\ Held' = Held /\ Answered' = Answered
         /\ Requests'
<1> DEFINE r == nreq + 1
<1>1. nreq \in 0..MaxReq /\ r \in 1..MaxReq /\ r \notin 1..nreq /\ 1..r = (1..nreq) \cup {r}
  BY DEF TypeOK, MqTypes, CgiRequest
<1>2. /\ Queued' = Queued \cup {r}
      /\ r \notin Queued /\ Distinct(reqs) => Distinct(reqs')
  <2>1. reqs \in Seq(1..MaxReq) /\ reqs' = Append(reqs, r)
    BY DEF TypeOK, MqTypes, CgiRequest
  <2> HIDE DEF r
  <2>2. /\ ToSet(Append(reqs, r)) = ToSet(reqs) \cup {r}
        /\ Distinct(reqs) /\ r \notin ToSet(reqs) => Distinct(Append(reqs, r))
    BY <1>1, <2>1, AppendDistinct
  <2> QED
    BY <2>1, <2>2 DEF Queued
<1>3. UNCHANGED <<req, replies, pc>> /\ nreq' = r
  BY DEF CgiRequest, threadVars
<1>4. Held' = Held /\ Answered' = Answered
  BY <1>3 DEF Held, Answered
<1>5. r \notin Queued \cup Held \cup Answered
  BY <1>1, ConservedParts DEF Requests
<1>6. RequestConserved'
  <2>1. (Queued \cup Held \cup Answered)' = (1..nreq)'
    BY <1>1, <1>2, <1>3, <1>4, ConservedParts DEF Requests
  <2>2. /\ Queued' \cap Held' = {} /\ Held' \cap Answered' = {} /\ Answered' \cap Queued' = {}
        /\ Distinct(reqs')
    BY <1>2, <1>4, <1>5, ConservedParts DEF Requests
  <2>3. /\ \A h, k \in Handlers : req'[h] = req'[k] /\ req'[h] # 0 => h = k
        /\ \A i, j \in DOMAIN replies' : replies'[i].req = replies'[j].req => i = j
    BY <1>3 DEF Requests, RequestConserved
  <2> QED
    BY <2>1, <2>2, <2>3 DEF RequestConserved, Distinct
<1>7. Buffers'
  BY <1>3 DEF Requests, Buffers
<1> QED
  BY <1>1, <1>2, <1>4, <1>5, <1>6, <1>7 DEF Requests

(* A handler takes the oldest request into its empty buffer. *)
LEMMA TakeStep ==
  ASSUME TypeOK, Requests, NEW h \in Handlers, TakeRequest(h)
  PROVE  /\ Head(reqs) \in 1..MaxReq /\ Head(reqs) \in Queued
         /\ Queued' = Queued \ {Head(reqs)} /\ Held' = Held \cup {Head(reqs)}
         /\ Answered' = Answered
         /\ Requests'
<1> DEFINE r == Head(reqs)
<1>0. ThreadTypes /\ MqTypes /\ reqs # <<>> /\ pc[h] = "rcv"
  BY DEF TypeOK, TakeRequest, At
<1>1. r \in 1..MaxReq
  BY <1>0, HeadTailProperties DEF MqTypes
<1>2. Queued' = Queued \ {r} /\ r \in Queued /\ Distinct(reqs')
  BY <1>0, TailDistinct, ConservedParts DEF MqTypes, TakeRequest, Queued, Requests
<1>3. req[h] = 0 /\ req' = [req EXCEPT ![h] = r] /\ pc' = [pc EXCEPT ![h] = "chk_wait"]
  BY <1>0 DEF Requests, Buffers, EmptyAt, TakeRequest, Goto
<1>4. UNCHANGED <<replies, nreq>>
  BY DEF TakeRequest
<1> HIDE DEF r
<1>5. Held' = Held \cup {r}
  <2>1. \A k \in Handlers : req'[k] = IF k = h THEN r ELSE req[k]
    BY <1>0, <1>3 DEF ThreadTypes
  <2>2. r # 0
    BY <1>1
  <2> QED
    BY <1>3, <2>1, <2>2 DEF Held
<1>6. Answered' = Answered
  BY <1>4 DEF Answered
<1>7. RequestConserved'
  <2>1. (Queued \cup Held \cup Answered)' = (1..nreq)'
    BY <1>2, <1>4, <1>5, <1>6, ConservedParts DEF Requests
  <2>2. /\ Queued' \cap Held' = {} /\ Held' \cap Answered' = {} /\ Answered' \cap Queued' = {}
    BY <1>2, <1>5, <1>6, ConservedParts DEF Requests
  <2>3. \A k, l \in Handlers : req'[k] = req'[l] /\ req'[k] # 0 => k = l
    <3>1. \A k \in Handlers : req[k] # r
      <4>1. r \notin Held
        BY <1>2, ConservedParts DEF Requests
      <4> QED
        BY <1>1, <4>1 DEF Held
    <3>2. \A k \in Handlers : req'[k] = IF k = h THEN r ELSE req[k]
      BY <1>0, <1>3 DEF ThreadTypes
    <3> QED
      BY <3>1, <3>2 DEF Requests, RequestConserved
  <2>4. \A i, j \in DOMAIN replies' : replies'[i].req = replies'[j].req => i = j
    BY <1>4 DEF Requests, RequestConserved
  <2> QED
    BY <1>2, <2>1, <2>2, <2>3, <2>4 DEF RequestConserved, Distinct
<1>8. Buffers'
  BY <1>0, <1>1, <1>3 DEF Requests, Buffers, ThreadTypes, EmptyAt, FullAt
<1> QED
  BY <1>1, <1>2, <1>5, <1>6, <1>7, <1>8 DEF Requests, r

(* A handler posts the answer to the request in its buffer and clears it. *)
LEMMA PostStep ==
  ASSUME TypeOK, Requests, NEW h \in Handlers, Post(h)
  PROVE  /\ req[h] \in 1..MaxReq /\ req[h] \in Held
         /\ Queued' = Queued /\ Held' = Held \ {req[h]}
         /\ Answered' = Answered \cup {req[h]}
         /\ Requests'
<1> DEFINE r == req[h]
           e == [req |-> r, ans |-> ans[h]]
<1>0. ThreadTypes /\ MqTypes /\ pc[h] = "post"
  BY DEF TypeOK, Post, At
<1>1. r \in 1..MaxReq /\ r # 0
  BY <1>0 DEF ThreadTypes, Requests, Buffers, FullAt
<1>2. r \in Held
  BY <1>1 DEF Held
<1>3. /\ replies' = Append(replies, e)
      /\ req' = [req EXCEPT ![h] = 0] /\ pc' = [pc EXCEPT ![h] = "rcv"]
      /\ UNCHANGED <<reqs, nreq>>
  BY DEF Post, Reply, Goto
<1>4. e \in [req : 0..MaxReq, ans : Messages] /\ e.req = r
  BY <1>0 DEF ThreadTypes
<1>5. /\ Names(replies') = Names(replies) \cup {r}
      /\ DistinctNames(replies) /\ r \notin Names(replies) => DistinctNames(replies')
  <2>1. replies \in Seq([req : 0..MaxReq, ans : Messages])
    BY <1>0 DEF MqTypes
  <2> HIDE DEF e, r
  <2>2. /\ Names(Append(replies, e)) = Names(replies) \cup {e.req}
        /\ DistinctNames(replies) /\ e.req \notin Names(replies) => DistinctNames(Append(replies, e))
    BY <1>4, <2>1, AppendNames
  <2> QED
    BY <1>3, <1>4, <2>2
<1>6. Answered' = Answered \cup {r}
  BY <1>5 DEF Answered, Names
<1>7. \A k \in Handlers : req'[k] = IF k = h THEN 0 ELSE req[k]
  BY <1>0, <1>3 DEF ThreadTypes
<1>8. \A k \in Handlers : req[k] = r => k = h
  BY <1>1 DEF Requests, RequestConserved
<1> HIDE DEF e
<1>9. Held' = Held \ {r}
  BY <1>7, <1>8 DEF Held
<1>10. Queued' = Queued
  BY <1>3 DEF Queued
<1>11. RequestConserved'
  <2>1. (Queued \cup Held \cup Answered)' = (1..nreq)'
    BY <1>2, <1>3, <1>6, <1>9, <1>10, ConservedParts DEF Requests
  <2>2. /\ Queued' \cap Held' = {} /\ Held' \cap Answered' = {} /\ Answered' \cap Queued' = {}
    BY <1>2, <1>6, <1>9, <1>10, ConservedParts DEF Requests
  <2>3. \A k, l \in Handlers : req'[k] = req'[l] /\ req'[k] # 0 => k = l
    BY <1>7 DEF Requests, RequestConserved
  <2>4. DistinctNames(replies')
    BY <1>2, <1>5, ConservedParts DEF Requests, Answered, Names
  <2>5. \A i, j \in DOMAIN reqs' : reqs'[i] = reqs'[j] => i = j
    BY <1>3 DEF Requests, RequestConserved
  <2> QED
    BY <2>1, <2>2, <2>3, <2>4, <2>5 DEF RequestConserved, DistinctNames
<1>12. Buffers'
  BY <1>0, <1>3, <1>7 DEF Requests, Buffers, ThreadTypes, EmptyAt, FullAt
<1> QED
  BY <1>1, <1>2, <1>6, <1>9, <1>10, <1>11, <1>12 DEF Requests
-----------------------------------------------------------------------------
(* At the start there are no requests. *)
LEMMA NoRequests ==
  ASSUME Init
  PROVE  /\ Queued = {} /\ Held = {} /\ Answered = {} /\ 1..nreq = {}
         /\ DOMAIN reqs = {} /\ DOMAIN replies = {}
<1>1. reqs = <<>> /\ replies = <<>> /\ nreq = 0 /\ req = [h \in Handlers |-> 0]
  BY DEF Init
<1>2. DOMAIN reqs = {} /\ DOMAIN replies = {}
  BY <1>1
<1>3. \A h \in Handlers : req[h] = 0
  BY <1>1
<1>4. 1..nreq = {}
  BY <1>1
<1>5. Queued = {} /\ Answered = {}
  BY <1>2 DEF Queued, Answered, ToSet
<1>6. Held = {}
  BY <1>3 DEF Held
<1> QED
  BY <1>2, <1>4, <1>5, <1>6

LEMMA RequestsInit == Init => Requests
<1> SUFFICES ASSUME Init PROVE Requests
  OBVIOUS
<1>1. \A h \in Handlers : req[h] = 0 /\ pc[h] = "none"
  BY DEF Init
<1>2. RequestConserved
  BY <1>1, NoRequests DEF RequestConserved
<1> QED
  BY <1>1, <1>2 DEF Requests, Buffers, FullAt

LEMMA RequestsStep ==
  ASSUME TypeOK, Requests, MissingNodeBranchDead, [Next]_vars
  PROVE  Requests'
<1>1. CASE Idle /\ ~\E h \in Handlers : TakeRequest(h) \/ Post(h)
  <2>1. RequestConserved'
    BY <1>1 DEF Idle, Requests, RequestConserved, Queued, Held, Answered
  <2> QED
    BY <1>1, <2>1, BuffersIdle DEF Requests
<1> QED
  BY <1>1, FourKinds, AskStep, TakeStep, PostStep

(* A request is at every moment in one place only: in the queue, in one    *)
(* handler's buffer, or answered, once; none disappears from the books.    *)
THEOREM RequestsConserved == Spec => []RequestConserved
<1>1. Init => Requests
  BY RequestsInit
<1>2. TypeOK /\ MissingNodeBranchDead /\ Requests /\ [Next]_vars => Requests'
  BY RequestsStep
<1>3. Requests => RequestConserved
  BY DEF Requests
<1> QED
  BY <1>1, <1>2, <1>3, TypeCorrect, FailureNeverReported, PTL DEF Spec
-----------------------------------------------------------------------------
(* Each step is a step of Channel, or none. *)
LEMMA ChannelStep ==
  ASSUME TypeOK, Requests, MissingNodeBranchDead, [Next]_vars
  PROVE  [Abstract!Next]_(Abstract!vars)
<1>0. Queued \cap Held = {} /\ Held \cap Answered = {} /\ Answered \cap Queued = {}
  BY DEF Requests, RequestConserved
<1>1. CASE Idle
  <2>1. \A r \in 1..MaxReq : Stage(r)' = Stage(r)
    BY <1>1 DEF Idle, Stage, Queued, Held, Answered
  <2> QED
    BY <1>1, <2>1 DEF Idle, Abstract!vars
<1>2. CASE CgiRequest
  <2> DEFINE r == nreq + 1
  <2>1. /\ r \in 1..MaxReq /\ r \notin Queued \cup Held \cup Answered
        /\ Queued' = Queued \cup {r} /\ Held' = Held /\ Answered' = Answered
    BY <1>2, AskStep
  <2>2. reqs' = Append(reqs, r)
    BY <1>2 DEF CgiRequest
  <2> HIDE DEF r
  <2>3. Stage(r) = "none"
    BY <2>1 DEF Stage
  <2>4. \A q \in 1..MaxReq : Stage(q)' = IF q = r THEN "pending" ELSE Stage(q)
    BY <2>1 DEF Stage
  <2>5. Abstract!Ask(r)
    BY <2>1, <2>2, <2>3, <2>4 DEF Abstract!Ask, Abstract!Move
  <2> QED
    BY <2>1, <2>5 DEF Abstract!Next
<1>3. ASSUME NEW h \in Handlers, TakeRequest(h) PROVE Abstract!Next
  <2> DEFINE r == Head(reqs)
  <2>1. /\ r \in 1..MaxReq /\ r \in Queued
        /\ Queued' = Queued \ {r} /\ Held' = Held \cup {r} /\ Answered' = Answered
    BY <1>3, TakeStep
  <2>2. reqs # <<>> /\ reqs' = Tail(reqs)
    BY <1>3 DEF TakeRequest
  <2> HIDE DEF r
  <2>3. Stage(r) = "pending"
    BY <1>0, <2>1 DEF Stage
  <2>4. \A q \in 1..MaxReq : Stage(q)' = IF q = r THEN "taken" ELSE Stage(q)
    BY <1>0, <2>1 DEF Stage
  <2>5. Abstract!Leave("taken")
    BY <2>1, <2>2, <2>3, <2>4 DEF Abstract!Leave, Abstract!Move, r
  <2> QED
    BY <2>5 DEF Abstract!Next
<1>4. ASSUME NEW h \in Handlers, Post(h) PROVE Abstract!Next
  <2> DEFINE r == req[h]
  <2>1. /\ r \in 1..MaxReq /\ r \in Held
        /\ Queued' = Queued /\ Held' = Held \ {r} /\ Answered' = Answered \cup {r}
    BY <1>4, PostStep
  <2>2. reqs' = reqs
    BY <1>4 DEF Post
  <2> HIDE DEF r
  <2>3. Stage(r) = "taken"
    BY <1>0, <2>1 DEF Stage
  <2>4. \A q \in 1..MaxReq : Stage(q)' = IF q = r THEN "answered" ELSE Stage(q)
    BY <1>0, <2>1 DEF Stage
  <2>5. Abstract!Answer(r)
    BY <2>1, <2>2, <2>3, <2>4 DEF Abstract!Answer, Abstract!Move
  <2> QED
    BY <2>1, <2>5 DEF Abstract!Next
<1> QED
  BY <1>1, <1>2, <1>3, <1>4, FourKinds

(* The handlers keep the promise of Channel, whatever the inspector, the   *)
(* greenhouses and cancellation do to them: requests are taken in turn,    *)
(* and each is answered at most once.                                      *)
THEOREM ServerKeepsChannel == Spec => ChannelKept
<1>1. Init => Abstract!Init
  <2> SUFFICES ASSUME Init PROVE Abstract!Init
    OBVIOUS
  <2>1. \A r \in 1..MaxReq : Stage(r) = "none"
    BY NoRequests DEF Stage
  <2>2. reqs = <<>>
    BY DEF Init
  <2> QED
    BY <2>1, <2>2 DEF Abstract!Init
<1>2. TypeOK /\ Requests /\ MissingNodeBranchDead /\ [Next]_vars => [Abstract!Next]_(Abstract!vars)
  BY ChannelStep
<1>3. Init => Requests
  BY RequestsInit
<1>4. TypeOK /\ MissingNodeBranchDead /\ Requests /\ [Next]_vars => Requests'
  BY RequestsStep
<1> QED
  BY <1>1, <1>2, <1>3, <1>4, TypeCorrect, FailureNeverReported, PTL
  DEF Spec, ChannelKept, Abstract!Spec
=============================================================================
