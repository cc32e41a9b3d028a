------------------------------- MODULE Server -------------------------------
(***************************************************************************)
(* The threads of the cloud server that share the list of greenhouses      *)
(* (src/server.c): main accepts connections, one handl_thread per          *)
(* connection forwards the requests of the web side to its greenhouse, and *)
(* insprct_thread pings every greenhouse in the list.                      *)
(*                                                                         *)
(* Every step is one blocking call of a thread, or the accesses to shared  *)
(* state between two of them.  A thread may be cancelled only inside a     *)
(* call that is a POSIX cancellation point.  recv completes later than it  *)
(* is entered, on the connection its descriptor named on entry.  The       *)
(* greenhouses and the kernel's sockets are modelled from how the server   *)
(* and the client use them; login_thread only reads the list.              *)
(***************************************************************************)
EXTENDS LinkList

CONSTANTS
  Handlers,  \* one per connection ever accepted; names both its thread and its socket
  Fds,       \* descriptor numbers left for accepted sockets
  Addrs,     \* heap chunks large enough for a list node
  Tids,      \* pthread_t values; an exited thread's value is handed out again
  NULL,
  MaxReq,    \* bound: number of requests the web side ever queues
  Cap        \* messages the queue has room for

ASSUME ServerAssumption ==
  /\ Fds \subseteq Nat \ {0}
  /\ MaxReq \in Nat
  /\ Cap \in Nat \ {0}
  /\ NULL \notin Handlers \cup Addrs \cup Tids

VARIABLES
  (* main and the handlers *)
  accept_fd, \* main's local variable, whose address every handler is given
  pc,        \* where each handler is
  hfd,       \* each handler's own copy of accept_fd
  htid,      \* pthread_self() of each handler
  rc,        \* connection each handler's current recv was entered on
  req,       \* request in each handler's buf, 0 when there is none
  ans,       \* what each handler's last recv stored in buf
  canc,      \* handlers that were sent a cancellation request
  (* the shared list *)
  linksem,   \* binary semaphore
  chain,     \* addresses of the nodes, newest first
  node,      \* fields stored at each address
  stale,     \* next pointer left behind in a freed node
  (* the inspector *)
  hb,        \* where it is
  p,         \* node it stands at
  hbc,       \* connection its current recv was entered on
  (* the message queue, types 521 (requests) and 1042 (answers) *)
  reqs, nreq, replies,
  taken,     \* answers the web side has taken, oldest first
  (* sockets and greenhouses *)
  sock,      \* connection each descriptor refers to
  peer,      \* far side of each connection as the server's kernel sees it
  up, down,  \* messages under way
  work,      \* requests each greenhouse is executing
  alive      \* the server process runs

threadVars == <<accept_fd, pc, hfd, htid, rc, req, ans, canc>>
listVars == <<linksem, chain, node, stale>>
hbVars == <<hb, p, hbc>>
mqVars == <<reqs, nreq, replies, taken>>
netVars == <<sock, peer, up, down, work, alive>>
vars == <<threadVars, listVars, hbVars, mqVars, netVars>>
-----------------------------------------------------------------------------
Msg(kind, id) == [kind |-> kind, id |-> id]
Login == Msg("login", 0)     \* a message carrying admin / 123456
Granted == Msg("granted", 0) \* its answer with user.flags = 1
Denied == Msg("denied", 0)   \* its answer with user.flags = 0
Ping == Msg("ping", 0)       \* commd = 255, everything else zero
Lost == Msg("error", 0)      \* recv returned -1 and left buf as it was

Kinds == {"login", "granted", "denied", "ping", "error", "cmd"}
Messages == [kind : Kinds, id : 0..MaxReq]

Exited == {"done", "cancelled", "lost"}
Labels == Exited \cup
  {"none", "start", "login", "grant", "deny", "ins_wait", "ins", "rcv", "chk_wait",
   "chk", "miss_wait", "miss", "send", "wait", "post", "close", "del_wait", "del"}
CancellationPoints ==
  {"login", "grant", "deny", "ins_wait", "rcv", "chk_wait", "miss_wait", "send",
   "wait", "post", "close", "del_wait"}
HbLabels == {"sleep", "ping", "pong", "cancel", "hb_wait", "hb_del"}
Far == {"none", "new", "login", "ready", "fin", "rst", "shut"}

Running(h) == pc[h] \notin {"none"} \cup Exited
At(h, l) == alive /\ pc[h] = l /\ (l \in CancellationPoints => h \notin canc)
HbAt(l) == alive /\ hb = l
Goto(h, l) == pc' = [pc EXCEPT ![h] = l]
-----------------------------------------------------------------------------
(* A descriptor that is not open gives EBADF. *)
Conn(fd) == IF fd \in Fds THEN sock[fd] ELSE NULL

(* send(): a reset connection reports the error once; after that, and once *)
(* the far side has answered a send with a reset, the write raises         *)
(* SIGPIPE, which nothing in server.c handles.                             *)
SendTo(c, m) ==
  \/ c = NULL /\ UNCHANGED <<peer, down, alive>>
  \/ /\ c # NULL /\ peer[c] = "shut"
     /\ alive' = FALSE /\ UNCHANGED <<peer, down>>
  \/ /\ c # NULL /\ peer[c] = "rst"
     /\ peer' = [peer EXCEPT ![c] = "shut"] /\ UNCHANGED <<down, alive>>
  \/ /\ c # NULL /\ peer[c] = "fin"
     /\ \E s \in {"fin", "shut"} : peer' = [peer EXCEPT ![c] = s]
     /\ UNCHANGED <<down, alive>>
  \/ /\ c # NULL /\ peer[c] \in {"new", "login", "ready"}
     /\ down' = [down EXCEPT ![c] = Append(@, m)] /\ UNCHANGED <<peer, alive>>

(* The three ways a recv entered on connection c returns: positive, 0, -1. *)
RecvMsg(c) == c # NULL /\ up[c] # <<>> /\ up' = [up EXCEPT ![c] = Tail(@)] /\ UNCHANGED peer
RecvEof(c) == c # NULL /\ up[c] = <<>> /\ peer[c] \in {"fin", "shut"} /\ UNCHANGED <<up, peer>>
RecvErr(c) ==
  /\ UNCHANGED up
  /\ \/ c = NULL /\ UNCHANGED peer
     \/ /\ c # NULL /\ up[c] = <<>> /\ peer[c] = "rst"
        /\ peer' = [peer EXCEPT ![c] = "shut"]

(* Mutations of the calls below: the call is left out. *)
NoClose(fd) == UNCHANGED sock
NoWait == linksem' = 0
NoPost == UNCHANGED linksem

Close(fd) == sock' = [f \in Fds |-> IF f = fd THEN NULL ELSE sock[f]]

sem_wait == linksem = 1 /\ linksem' = 0
sem_post == linksem' = 1

(* Unlink and free the node; the freed chunk keeps its fields. *)
Unlink(fd) ==
  /\ chain' = delete_link(chain, node, fd)
  /\ stale' = [a \in Addrs |-> IF a \in Nodes(chain) \ Nodes(chain')
                               THEN next_link(chain, a, NULL) ELSE stale[a]]
  /\ UNCHANGED node
-----------------------------------------------------------------------------
(* main: accept stores the new descriptor (the lowest free one) in         *)
(* accept_fd and the thread is created with the address of that variable.  *)
(* A handler is a connection that has not been made yet.                   *)
Free(fd) == sock[fd] = NULL

Accept(h) ==
  /\ alive
  /\ pc[h] = "none"
  /\ \E fd \in Fds, t \in Tids :
       /\ Free(fd) /\ \A g \in Fds : Free(g) => fd <= g
       /\ \A k \in Handlers : Running(k) => htid[k] # t
       /\ accept_fd' = fd
       /\ sock' = [sock EXCEPT ![fd] = h]
       /\ htid' = [htid EXCEPT ![h] = t]
  /\ peer' = [peer EXCEPT ![h] = "new"]
  /\ Goto(h, "start")
  /\ UNCHANGED <<hfd, rc, req, ans, canc, listVars, hbVars, mqVars, up, down, work, alive>>

(* accept fails, because no descriptor is left or the connection is gone   *)
(* again, or pthread_create does: main removes the queue and exits.        *)
AcceptFails(h) ==
  /\ alive
  /\ pc[h] = "none"
  /\ alive' = FALSE
  /\ UNCHANGED <<threadVars, listVars, hbVars, mqVars, sock, peer, up, down, work>>

(* SIGINT or SIGTERM: sig_handler removes the queue and exits. *)
sig_handler ==
  /\ alive
  /\ alive' = FALSE
  /\ UNCHANGED <<threadVars, listVars, hbVars, mqVars, sock, peer, up, down, work>>
-----------------------------------------------------------------------------
(* handl_thread reads accept_fd through the pointer, then enters recv. *)
Start(h) ==
  /\ At(h, "start")
  /\ hfd' = [hfd EXCEPT ![h] = accept_fd]
  /\ rc' = [rc EXCEPT ![h] = Conn(accept_fd)]
  /\ Goto(h, "login")
  /\ UNCHANGED <<accept_fd, htid, req, ans, canc, listVars, hbVars, mqVars, netVars>>

(* The first message must be a login.  When recv fails, the comparison     *)
(* reads an uninitialised buf, which may hold an earlier thread's bytes.   *)
ReadLogin(h) ==
  LET c == rc[h] IN
  /\ At(h, "login")
  /\ \/ /\ RecvMsg(c)
        /\ ans' = [ans EXCEPT ![h] = Head(up[c])]
        /\ Goto(h, IF Head(up[c]) = Login THEN "grant" ELSE "deny")
        /\ UNCHANGED sock
     \/ /\ RecvEof(c)
        /\ Close(hfd[h])
        /\ Goto(h, "done")
        /\ UNCHANGED ans
     \/ /\ RecvErr(c)
        /\ \E l \in {"grant", "deny"} : Goto(h, l)
        /\ UNCHANGED <<ans, sock>>
  /\ UNCHANGED <<accept_fd, hfd, htid, rc, req, canc, listVars, hbVars, mqVars, down, work, alive>>

Grant(h) ==
  /\ At(h, "grant")
  /\ SendTo(Conn(hfd[h]), Granted)
  /\ Goto(h, "ins_wait")
  /\ UNCHANGED <<accept_fd, hfd, htid, rc, req, ans, canc, listVars, hbVars, mqVars, sock, up, work>>

(* The refusal is the message that came, with user.flags cleared. *)
Deny(h) ==
  /\ At(h, "deny")
  /\ SendTo(Conn(hfd[h]), IF ans[h].kind \in {"ping", "cmd"} THEN ans[h] ELSE Denied)
  /\ Close(hfd[h])
  /\ Goto(h, "done")
  /\ UNCHANGED <<accept_fd, hfd, htid, rc, req, ans, canc, listVars, hbVars, mqVars, up, work>>

(* sem_wait is entered with the cancellation test first, so a request that *)
(* comes later may still find the semaphore taken.                         *)
SemWait(h) ==
  /\ alive
  /\ \E w \in {<<"ins_wait", "ins">>, <<"chk_wait", "chk">>, <<"miss_wait", "miss">>,
               <<"del_wait", "del">>} : pc[h] = w[1] /\ Goto(h, w[2])
  /\ sem_wait
  /\ UNCHANGED <<accept_fd, hfd, htid, rc, req, ans, canc, chain, node, stale, hbVars, mqVars, netVars>>

Insert(h) ==
  /\ At(h, "ins")
  /\ \E a \in Addrs \ Nodes(chain) :
       /\ node' = [node EXCEPT ![a] = [ID |-> "admin", fd |-> hfd[h], tid |-> htid[h]]]
       /\ chain' = insert_link(chain, a)
  /\ sem_post
  /\ Goto(h, "rcv")
  /\ UNCHANGED <<accept_fd, hfd, htid, rc, req, ans, canc, stale, hbVars, mqVars, netVars>>
-----------------------------------------------------------------------------
(* Mutation: buf keeps the request it has answered (no memset). *)
ReplyKeepsBuf(h, m) == replies' = Append(replies, [req |-> req[h], ans |-> m]) /\ UNCHANGED req

Reply(h, m) ==
  /\ replies' = Append(replies, [req |-> req[h], ans |-> m])
  /\ req' = [req EXCEPT ![h] = 0]

TakeRequest(h) ==
  /\ At(h, "rcv")
  /\ reqs # <<>>
  /\ reqs' = Tail(reqs)
  /\ req' = [req EXCEPT ![h] = Head(reqs)]
  /\ Goto(h, "chk_wait")
  /\ UNCHANGED <<accept_fd, hfd, htid, rc, ans, canc, listVars, hbVars, nreq, replies, taken, netVars>>

(* Mutation: the semaphore is kept while the handler talks to the greenhouse. *)
CheckKeeps(h) ==
  /\ At(h, "chk")
  /\ Goto(h, IF find_fd(chain, node, hfd[h]) # 0 THEN "miss_wait" ELSE "send")
  /\ UNCHANGED <<accept_fd, hfd, htid, rc, req, ans, canc, listVars, hbVars, mqVars, netVars>>

(* find_fd is nonzero when the node is gone: the handler then waits for    *)
(* the semaphore it holds.                                                 *)
Check(h) ==
  /\ At(h, "chk")
  /\ \/ /\ find_fd(chain, node, hfd[h]) # 0
        /\ Goto(h, "miss_wait")
        /\ UNCHANGED linksem
     \/ /\ find_fd(chain, node, hfd[h]) = 0
        /\ sem_post
        /\ Goto(h, "send")
  /\ UNCHANGED <<accept_fd, hfd, htid, rc, req, ans, canc, chain, node, stale, hbVars, mqVars, netVars>>

Send(h) ==
  /\ At(h, "send")
  /\ SendTo(Conn(hfd[h]), Msg("cmd", req[h]))
  /\ rc' = [rc EXCEPT ![h] = Conn(hfd[h])]
  /\ Goto(h, "wait")
  /\ UNCHANGED <<accept_fd, hfd, htid, req, ans, canc, listVars, hbVars, mqVars, sock, up, work>>

(* Only a result of 0 is an error: after -1 buf still holds the request. *)
Wait(h) ==
  LET c == rc[h] IN
  /\ At(h, "wait")
  /\ \/ /\ RecvMsg(c)
        /\ ans' = [ans EXCEPT ![h] = Head(up[c])]
        /\ Goto(h, "post")
     \/ /\ RecvEof(c)
        /\ Goto(h, "close")
        /\ UNCHANGED ans
     \/ /\ RecvErr(c)
        /\ ans' = [ans EXCEPT ![h] = Lost]
        /\ Goto(h, "post")
  /\ UNCHANGED <<accept_fd, hfd, htid, rc, req, canc, listVars, hbVars, mqVars, sock, down, work, alive>>

(* msgsnd waits while the queue is full, of messages of either type. *)
Room == Len(reqs) + Len(replies) - taken < Cap

(* msgsnd of whatever buf holds, once there is room; the memset that follows clears it. *)
Post(h) ==
  /\ At(h, "post")
  /\ Room
  /\ Reply(h, ans[h])
  /\ Goto(h, "rcv")
  /\ UNCHANGED <<accept_fd, hfd, htid, rc, ans, canc, listVars, hbVars, reqs, nreq, taken, netVars>>

CloseFd(h) ==
  /\ At(h, "close")
  /\ Close(hfd[h])
  /\ Goto(h, "del_wait")
  /\ UNCHANGED <<accept_fd, hfd, htid, rc, req, ans, canc, listVars, hbVars, mqVars, peer, up, down, work, alive>>

(* Both ways out drop the node; the one behind the second sem_wait then    *)
(* reports the failure and closes the descriptor.                          *)
Delete(h) ==
  LET missing == pc[h] = "miss" IN
  /\ alive
  /\ pc[h] \in {"del", "miss"}
  /\ missing => Room
  /\ Unlink(hfd[h])
  /\ sem_post
  /\ IF missing THEN Reply(h, Denied) /\ Close(hfd[h]) ELSE UNCHANGED <<replies, req, sock>>
  /\ Goto(h, "done")
  /\ UNCHANGED <<accept_fd, hfd, htid, rc, ans, canc, hbVars, reqs, nreq, taken, peer, up, down, work, alive>>

(* A cancelled thread just ends: no cleanup handler releases the           *)
(* semaphore, closes the descriptor or returns the request.                *)
Cancelled(h) ==
  /\ alive
  /\ h \in canc
  /\ pc[h] \in CancellationPoints
  /\ Goto(h, IF pc[h] = "miss_wait" THEN "lost" ELSE "cancelled")
  /\ UNCHANGED <<accept_fd, hfd, htid, rc, req, ans, canc, listVars, hbVars, mqVars, netVars>>
-----------------------------------------------------------------------------
(* show_list, called by insprct_thread every ten seconds, walks the list   *)
(* without the semaphore.                                                  *)
Next_of(a) == IF a \in Nodes(chain) THEN next_link(chain, a, NULL) ELSE stale[a]

(* Mutation: the loop does not stop at the end of the list. *)
StandAnywhere(a) == p' = a /\ hb' = "ping"

StandAt(a) == p' = a /\ hb' = IF a = NULL THEN "sleep" ELSE "ping"

HbStart ==
  /\ HbAt("sleep")
  /\ chain # <<>>
  /\ StandAt(first_link(chain, NULL))
  /\ UNCHANGED <<threadVars, listVars, hbc, mqVars, netVars>>

HbPing ==
  /\ HbAt("ping")
  /\ SendTo(Conn(node[p].fd), Ping)
  /\ hbc' = Conn(node[p].fd)
  /\ hb' = "pong"
  /\ UNCHANGED <<threadVars, listVars, p, mqVars, sock, up, work>>

(* Mutation: an orderly shutdown by the greenhouse is not an error. *)
HbPongOnlyErr ==
  /\ HbAt("pong")
  /\ \/ (RecvMsg(hbc) \/ RecvEof(hbc)) /\ StandAt(Next_of(p))
     \/ RecvErr(hbc) /\ hb' = "cancel" /\ UNCHANGED p
  /\ UNCHANGED <<threadVars, listVars, hbc, mqVars, sock, down, work, alive>>

(* Any bytes at all count as a sign of life. *)
HbPong ==
  /\ HbAt("pong")
  /\ \/ RecvMsg(hbc) /\ StandAt(Next_of(p))
     \/ (RecvEof(hbc) \/ RecvErr(hbc)) /\ hb' = "cancel" /\ UNCHANGED p
  /\ UNCHANGED <<threadVars, listVars, hbc, mqVars, sock, down, work, alive>>

(* pthread_cancel of a thread that has ended does nothing, or faults when  *)
(* its stack has been unmapped.                                            *)
HbCancel ==
  LET victims == {h \in Handlers : Running(h) /\ htid[h] = node[p].tid} IN
  /\ HbAt("cancel")
  /\ canc' = canc \cup victims
  /\ alive' \in {TRUE, victims # {}}
  /\ hb' = "hb_wait"
  /\ UNCHANGED <<accept_fd, pc, hfd, htid, rc, req, ans, listVars, p, hbc, mqVars, sock, peer, up, down, work>>

HbSemWait ==
  /\ HbAt("hb_wait")
  /\ sem_wait
  /\ hb' = "hb_del"
  /\ UNCHANGED <<threadVars, chain, node, stale, p, hbc, mqVars, netVars>>

HbDelete ==
  /\ HbAt("hb_del")
  /\ Unlink(node[p].fd)
  /\ sem_post
  /\ StandAt(first_link(chain', NULL))
  /\ UNCHANGED <<threadVars, hbc, mqVars, netVars>>
-----------------------------------------------------------------------------
(* The greenhouse at the far side of connection c: it logs in, then        *)
(* answers pings itself and runs each command in a thread of its own.      *)
DeviceLogin(c) ==
  /\ alive
  /\ peer[c] = "new"
  /\ peer' = [peer EXCEPT ![c] = "login"]
  /\ up' = [up EXCEPT ![c] = Append(@, Login)]
  /\ UNCHANGED <<threadVars, listVars, hbVars, mqVars, sock, down, work, alive>>

DeviceLoggedIn(c) ==
  /\ alive
  /\ peer[c] = "login"
  /\ down[c] # <<>>
  /\ peer' = [peer EXCEPT ![c] = IF Head(down[c]) = Granted THEN "ready" ELSE "fin"]
  /\ down' = [down EXCEPT ![c] = Tail(@)]
  /\ UNCHANGED <<threadVars, listVars, hbVars, mqVars, sock, up, work, alive>>

DeviceRecv(c) ==
  LET m == Head(down[c]) IN
  /\ alive
  /\ peer[c] = "ready"
  /\ down[c] # <<>>
  /\ down' = [down EXCEPT ![c] = Tail(@)]
  /\ up' = IF m = Ping THEN [up EXCEPT ![c] = Append(@, Ping)] ELSE up
  /\ work' = IF m.kind = "cmd" THEN [work EXCEPT ![c] = @ \cup {m.id}] ELSE work
  /\ UNCHANGED <<threadVars, listVars, hbVars, mqVars, sock, peer, alive>>

DeviceAnswer(c) ==
  /\ alive
  /\ peer[c] = "ready"
  /\ \E r \in work[c] :
       /\ work' = [work EXCEPT ![c] = @ \ {r}]
       /\ up' = [up EXCEPT ![c] = Append(@, Msg("cmd", r))]
  /\ UNCHANGED <<threadVars, listVars, hbVars, mqVars, sock, peer, down, alive>>

(* The client stops, or its machine or network does (found out later);     *)
(* leaving unread data behind resets the connection.                       *)
DeviceExit(c) ==
  /\ alive
  /\ peer[c] \in {"new", "login", "ready"}
  /\ \E s \in {"fin", "rst"} :
       /\ s = "fin" => down[c] = <<>>
       /\ peer' = [peer EXCEPT ![c] = s]
  /\ down' = [down EXCEPT ![c] = <<>>]
  /\ work' = [work EXCEPT ![c] = {}]
  /\ UNCHANGED <<threadVars, listVars, hbVars, mqVars, sock, up, alive>>

(* A CGI program queues a request. *)
CgiRequest ==
  /\ alive
  /\ nreq < MaxReq
  /\ Room
  /\ nreq' = nreq + 1
  /\ reqs' = Append(reqs, nreq + 1)
  /\ UNCHANGED <<threadVars, listVars, hbVars, replies, taken, netVars>>

(* A CGI program takes an answer. *)
CgiReceive ==
  /\ alive
  /\ taken < Len(replies)
  /\ taken' = taken + 1
  /\ UNCHANGED <<threadVars, listVars, hbVars, reqs, nreq, replies, netVars>>
-----------------------------------------------------------------------------
Init ==
  /\ accept_fd = 0
  /\ pc = [h \in Handlers |-> "none"]
  /\ hfd = [h \in Handlers |-> 0]
  /\ htid = [h \in Handlers |-> NULL]
  /\ rc = [h \in Handlers |-> NULL]
  /\ req = [h \in Handlers |-> 0]
  /\ ans = [h \in Handlers |-> Lost]
  /\ canc = {}
  /\ linksem = 1
  /\ chain = <<>>
  /\ node = [a \in Addrs |-> [ID |-> "", fd |-> 0, tid |-> NULL]]
  /\ stale = [a \in Addrs |-> NULL]
  /\ hb = "sleep" /\ p = NULL /\ hbc = NULL
  /\ reqs = <<>> /\ nreq = 0 /\ replies = <<>> /\ taken = 0
  /\ sock = [fd \in Fds |-> NULL]
  /\ peer = [h \in Handlers |-> "none"]
  /\ up = [h \in Handlers |-> <<>>]
  /\ down = [h \in Handlers |-> <<>>]
  /\ work = [h \in Handlers |-> {}]
  /\ alive = TRUE

HandlerStep(h) ==
  \/ Start(h) \/ ReadLogin(h) \/ Grant(h) \/ Deny(h) \/ SemWait(h) \/ Insert(h)
  \/ TakeRequest(h) \/ Check(h) \/ Send(h) \/ Wait(h) \/ Post(h)
  \/ CloseFd(h) \/ Delete(h) \/ Cancelled(h)

HbStep == HbStart \/ HbPing \/ HbPong \/ HbCancel \/ HbSemWait \/ HbDelete

DeviceMain(c) == DeviceLogin(c) \/ DeviceLoggedIn(c) \/ DeviceRecv(c)

Next ==
  \/ \E h \in Handlers : Accept(h) \/ AcceptFails(h) \/ HandlerStep(h)
  \/ HbStep
  \/ \E c \in Handlers : DeviceMain(c) \/ DeviceAnswer(c) \/ DeviceExit(c)
  \/ CgiRequest \/ CgiReceive
  \/ sig_handler

Spec == Init /\ [][Next]_vars

(* Threads are scheduled, and what is ready again and again for a blocked  *)
(* call (the semaphore, bytes on a socket two threads read) wakes it in    *)
(* the end: the inspector sleeps ten seconds between two rounds.  A        *)
(* greenhouse that stays connected answers.                                *)
Fairness ==
  /\ \A h \in Handlers : SF_vars(HandlerStep(h))
  /\ SF_vars(HbStep)
  /\ \A c \in Handlers : WF_vars(DeviceMain(c)) /\ WF_vars(DeviceAnswer(c))

FairSpec == Spec /\ Fairness
-----------------------------------------------------------------------------
Nodetype == [ID : {"", "admin"}, fd : Fds \cup {0}, tid : Tids \cup {NULL}]

ThreadTypes ==
  /\ accept_fd \in Fds \cup {0}
  /\ pc \in [Handlers -> Labels]
  /\ hfd \in [Handlers -> Fds \cup {0}]
  /\ htid \in [Handlers -> Tids \cup {NULL}]
  /\ rc \in [Handlers -> Handlers \cup {NULL}]
  /\ req \in [Handlers -> 0..MaxReq]
  /\ ans \in [Handlers -> Messages]
  /\ canc \in SUBSET Handlers
ListTypes ==
  /\ linksem \in {0, 1}
  /\ chain \in Seq(Addrs)
  /\ node \in [Addrs -> Nodetype]
  /\ stale \in [Addrs -> Addrs \cup {NULL}]
HbTypes ==
  /\ hb \in HbLabels /\ hbc \in Handlers \cup {NULL}
  /\ IF hb = "sleep" THEN p = NULL ELSE p \in Addrs
MqTypes ==
  /\ nreq \in 0..MaxReq
  /\ reqs \in Seq(1..MaxReq)
  /\ replies \in Seq([req : 0..MaxReq, ans : Messages])
  /\ taken \in 0..Len(replies)
NetTypes ==
  /\ sock \in [Fds -> Handlers \cup {NULL}]
  /\ peer \in [Handlers -> Far]
  /\ up \in [Handlers -> Seq(Messages)]
  /\ down \in [Handlers -> Seq(Messages)]
  /\ work \in [Handlers -> SUBSET (0..MaxReq)]
  /\ alive \in BOOLEAN

(* Every descriptor, pointer, message and label stays in its range; the    *)
(* inspector stands at some node, possibly freed, unless it sleeps.        *)
TypeOK == ThreadTypes /\ ListTypes /\ HbTypes /\ MqTypes /\ NetTypes

(* Threads between a sem_wait and the sem_post after it, or dead there. *)
HolderLabels == {"ins", "chk", "miss_wait", "miss", "del", "lost"}
Holders == {h \in Handlers : pc[h] \in HolderLabels}

(* linksem is a lock: it is taken exactly when one thread is inside, and   *)
(* no two threads are, whatever order they block, exit and are cancelled   *)
(* in (server.c:187-220, 387-389).                                         *)
Mutex ==
  /\ \A h, k \in Holders : h = k
  /\ hb = "hb_del" => Holders = {}
  /\ linksem = 1 <=> Holders = {} /\ hb # "hb_del"

(* No handler ever gets past the second sem_wait of server.c:199: the      *)
(* branch that drops the node and reports the failure is dead code.        *)
MissingNodeBranchDead == \A h \in Handlers : pc[h] # "miss"

Wedged == \E h \in Handlers : pc[h] \in {"miss_wait", "lost"}

(* Once a handler has missed its node (server.c:198), the list never       *)
(* changes again: nobody can be added, and nobody dropped.                 *)
WedgedForever == [][Wedged => chain' = chain /\ Wedged']_vars

Queued == ToSet(reqs)
Held == {req[h] : h \in Handlers} \ {0}
Answered == {replies[i].req : i \in DOMAIN replies}

(* A request the web side queued is at every moment in one place only: in  *)
(* the queue, in the buffer of one handler (which may be dead), or         *)
(* answered, once (server.c:192-194, 221-223).                             *)
RequestConserved ==
  /\ Queued \cup Held \cup Answered = 1..nreq
  /\ Queued \cap Held = {} /\ Held \cap Answered = {} /\ Answered \cap Queued = {}
  /\ \A i, j \in DOMAIN reqs : reqs[i] = reqs[j] => i = j
  /\ \A h, k \in Handlers : req[h] = req[k] /\ req[h] # 0 => h = k
  /\ \A i, j \in DOMAIN replies : replies[i].req = replies[j].req => i = j

(* The handlers keep the promise of Channel, whatever the inspector, the   *)
(* greenhouses and cancellation do to them (server.c:191-224).             *)
Stage(r) ==
  CASE r \in Queued -> "pending" [] r \in Held -> "taken" [] r \in Answered -> "answered"
    [] OTHER -> "none"

Abstract == INSTANCE Channel WITH
  Requests <- 1..MaxReq, pending <- reqs, stage <- [r \in 1..MaxReq |-> Stage(r)]
ChannelKept == Abstract!Spec

(* An open descriptor is one of a handler that has not ended (it may be    *)
(* blocked, and never come to its close), or one of two leaks: its handler *)
(* was cancelled (server.c:386), or read accept_fd too late (server.c:155) *)
(* and serves another connection.                                          *)
LeaksExplained ==
  \A f \in Fds : sock[f] # NULL =>
    \/ \E h \in Handlers : Running(h) /\ (hfd[h] = f \/ pc[h] = "start")
    \/ \E h \in Handlers : pc[h] \in {"cancelled", "lost"} /\ hfd[h] = f
    \/ hfd[sock[f]] # f

(* server.c:215: a handler that exits drops its own node from the list.    *)
ExitDropsOwnNode ==
  [][\A h \in Handlers : pc[h] = "del" /\ pc'[h] = "done" =>
       \A a \in Nodes(chain) \ Nodes(chain') : node[a].tid = htid[h]]_vars

(* server.c:210,221: what a handler returns as the result of a request is  *)
(* the answer of the greenhouse to that request.                           *)
AnswerMatches == \A i \in DOMAIN replies : replies[i].ans = Msg("cmd", replies[i].req)

(* server.c:105: the inspector finds out which greenhouses are offline and *)
(* drops them from the list, however many there are and whoever reads from *)
(* their sockets beside it; unless a handler that missed its node keeps    *)
(* the semaphore for ever (WedgedForever).                                 *)
OfflineAt(f) ==
  /\ sock[f] # NULL /\ peer[sock[f]] \in {"fin", "rst", "shut"}
  /\ \E a \in Nodes(chain) : node[a].fd = f
OfflineRemoved == \A f \in Fds : OfflineAt(f) ~> (~OfflineAt(f) \/ ~alive \/ Wedged)

(* A request a handler took is answered, or its handler ends, although two *)
(* threads read its socket (server.c:211, 384) and msgsnd waits for room;  *)
(* if there is room again and again, and nobody keeps the semaphore.       *)
TakenIsAnswered ==
  []<>Room =>
    \A h \in Handlers : req[h] # 0 ~> (req[h] = 0 \/ pc[h] \in Exited \/ ~alive \/ Wedged)
=============================================================================
