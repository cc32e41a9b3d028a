------------------------------- MODULE Login -------------------------------
(***************************************************************************)
(* The login page (src/cgisrc/login.c) and the server's login_thread       *)
(* (src/src/server.c), which tells it whether the user's greenhouse is     *)
(* connected.  They use types 1 and 2 of the queue that CgiQueue models    *)
(* and that all types share.  A page is one process of one user: it sends  *)
(* the name, arms an alarm of three seconds and waits for a reply; the     *)
(* alarm's handler looks for the page's own message in the queue.          *)
(***************************************************************************)
EXTENDS SequencesExt, FiniteSets, Integers

CONSTANTS
  Pages,   \* login page processes
  Users,   \* registered names
  Admin,   \* the name every greenhouse logs in with
  Cap,     \* messages the queue has room for
  NULL

ASSUME LoginAssumption ==
  /\ Admin \in Users
  /\ Cap \in Nat \ {0}
  /\ NULL \notin Users

VARIABLES
  q1,      \* type 1: names in the queue, oldest first
  q2,      \* type 2: replies in the queue, oldest first
  busy,    \* reply login_thread is sending, NULL while it waits for a name
  online,  \* the list of greenhouses is not empty
  user,    \* whose login each page is
  pc,      \* where each page is
  msg,     \* the page's message buffer
  gone     \* pages whose msgid is that of a queue that was removed

vars == <<q1, q2, busy, online, user, pc, msg, gone>>
-----------------------------------------------------------------------------
Messages == [msgtype : {1, 2}, username : Users, flags : {0, 1}]
Labels == {"new", "send", "wait", "got", "printed", "take", "resend", "expired", "done"}

Goto(p, l) == pc' = [pc EXCEPT ![p] = l]

(* Mutation: each type of message has the whole room. *)
FullOfOneType == Len(q1) >= Cap \/ Len(q2) >= Cap

(* msgsnd waits for room: all types share the room of one queue. *)
Full == Len(q1) + Len(q2) >= Cap
-----------------------------------------------------------------------------
(* A form with a wrong name or password, or a database that fails, ends    *)
(* the page at once.                                                       *)
Open(p) ==
  /\ pc[p] = "new"
  /\ \/ Goto(p, "done") /\ UNCHANGED msg
     \/ /\ Goto(p, "send")
        /\ msg' = [msg EXCEPT ![p] = [msgtype |-> 1, username |-> user[p], flags |-> 0]]
  /\ UNCHANGED <<q1, q2, busy, online, user, gone>>

Send(p) ==
  /\ pc[p] = "send" /\ p \notin gone
  /\ ~Full
  /\ q1' = Append(q1, user[p])
  /\ Goto(p, "wait")
  /\ UNCHANGED <<q2, busy, online, user, msg, gone>>

(* msgrcv takes the oldest reply, whoever asked for it. *)
Receive(p) ==
  /\ pc[p] = "wait" /\ p \notin gone
  /\ q2 # <<>>
  /\ msg' = [msg EXCEPT ![p] = Head(q2)]
  /\ q2' = Tail(q2)
  /\ Goto(p, "got")
  /\ UNCHANGED <<q1, busy, online, user, gone>>

(* The calls fail on a removed queue and leave msg alone: user.flags is 0. *)
CallFails(p) ==
  /\ pc[p] \in {"send", "wait"} /\ p \in gone
  /\ Goto(p, "got")
  /\ UNCHANGED <<q1, q2, busy, online, user, msg, gone>>

(* The cookie and the redirection, or the news that the greenhouse is not  *)
(* connected; then the page exits.                                         *)
Answered(p) ==
  /\ \/ pc[p] = "got" /\ Goto(p, "printed")
     \/ pc[p] = "printed" /\ Goto(p, "done")
  /\ UNCHANGED <<q1, q2, busy, online, user, msg, gone>>
-----------------------------------------------------------------------------
(* SIGALRM.  The alarm stays armed until the page exits. *)
Alarm(p) ==
  /\ pc[p] \in {"wait", "got", "printed"}
  /\ Goto(p, "take")
  /\ UNCHANGED <<q1, q2, busy, online, user, msg, gone>>

(* Mutation: the buffer is not looked at when there was no message. *)
HandlerTakeRetries(p) ==
  LET found == p \notin gone /\ q1 # <<>>
      m == IF found THEN [msgtype |-> 1, username |-> Head(q1), flags |-> 0] ELSE msg[p]
  IN  /\ pc[p] = "take"
      /\ msg' = [msg EXCEPT ![p] = m]
      /\ q1' = IF found THEN Tail(q1) ELSE q1
      /\ Goto(p, IF ~found THEN "take" ELSE IF m.username = user[p] THEN "expired" ELSE "resend")
      /\ UNCHANGED <<q2, busy, online, user, gone>>

(* handler: msgrcv with IPC_NOWAIT.  When there is no message the buffer   *)
(* keeps what it had; the loop ends if that names the page's own user.     *)
HandlerTake(p) ==
  LET found == p \notin gone /\ q1 # <<>>
      m == IF found THEN [msgtype |-> 1, username |-> Head(q1), flags |-> 0] ELSE msg[p]
  IN  /\ pc[p] = "take"
      /\ msg' = [msg EXCEPT ![p] = m]
      /\ q1' = IF found THEN Tail(q1) ELSE q1
      /\ Goto(p, IF m.username = user[p] THEN "expired" ELSE "resend")
      /\ UNCHANGED <<q2, busy, online, user, gone>>

(* handler puts back what is in the buffer, under the type it has there. *)
HandlerResend(p) ==
  /\ pc[p] = "resend"
  /\ p \notin gone => ~Full
  /\ q1' = IF p \notin gone /\ msg[p].msgtype = 1 THEN Append(q1, msg[p].username) ELSE q1
  /\ q2' = IF p \notin gone /\ msg[p].msgtype = 2 THEN Append(q2, msg[p]) ELSE q2
  /\ Goto(p, "take")
  /\ UNCHANGED <<busy, online, user, msg, gone>>
-----------------------------------------------------------------------------
(* login_thread takes a name and searches the list, in which every node    *)
(* carries the name Admin.                                                 *)
ThreadTake ==
  /\ busy = NULL
  /\ q1 # <<>>
  /\ q1' = Tail(q1)
  /\ busy' = [msgtype |-> 2, username |-> Head(q1),
               flags |-> IF Head(q1) = Admin /\ online THEN 1 ELSE 0]
  /\ UNCHANGED <<q2, online, user, pc, msg, gone>>

(* Mutation: the thread does not wait for the next name after a reply. *)
ThreadRepliesAgain ==
  /\ busy # NULL
  /\ ~Full
  /\ q2' = Append(q2, busy)
  /\ busy' \in {NULL, busy}
  /\ UNCHANGED <<q1, online, user, pc, msg, gone>>

ThreadReply ==
  /\ busy # NULL
  /\ ~Full
  /\ q2' = Append(q2, busy)
  /\ busy' = NULL
  /\ UNCHANGED <<q1, online, user, pc, msg, gone>>

(* The list of greenhouses becomes empty, or is not empty any more. *)
ListChanges ==
  /\ online' = ~online
  /\ UNCHANGED <<q1, q2, busy, user, pc, msg, gone>>

(* The server stops and removes the queue; the next msgget makes a new one. *)
RemoveQueue ==
  /\ q1' = <<>> /\ q2' = <<>> /\ busy' = NULL /\ online' = FALSE
  /\ gone' = gone \cup {p \in Pages : pc[p] \notin {"new", "expired", "done"}}
  /\ UNCHANGED <<user, pc, msg>>
-----------------------------------------------------------------------------
Init ==
  /\ q1 = <<>> /\ q2 = <<>> /\ busy = NULL /\ online = FALSE
  /\ user \in [Pages -> Users]
  /\ pc = [p \in Pages |-> "new"]
  /\ msg = [p \in Pages |-> [msgtype |-> 1, username |-> user[p], flags |-> 0]]
  /\ gone = {}

PageStep(p) ==
  \/ Open(p) \/ Send(p) \/ Receive(p) \/ CallFails(p) \/ Answered(p)
  \/ HandlerTake(p) \/ HandlerResend(p)

Next ==
  \/ \E p \in Pages : PageStep(p) \/ Alarm(p)
  \/ ThreadTake \/ ThreadReply
  \/ ListChanges \/ RemoveQueue

Spec == Init /\ [][Next]_vars

(* Pages and the thread are scheduled, a blocked msgsnd or msgrcv is woken *)
(* when it can go on, and an alarm that was armed goes off.                *)
Fairness ==
  /\ \A p \in Pages : SF_vars(PageStep(p)) /\ WF_vars(Alarm(p))
  /\ SF_vars(ThreadTake \/ ThreadReply)

FairSpec == Spec /\ Fairness
-----------------------------------------------------------------------------
(* Each variable has its type, and the queue is never over its capacity. *)
TypeOK ==
  /\ q1 \in Seq(Users) /\ q2 \in Seq(Messages)
  /\ Len(q1) + Len(q2) <= Cap
  /\ busy \in Messages \cup {NULL}
  /\ online \in BOOLEAN
  /\ user \in [Pages -> Users]
  /\ pc \in [Pages -> Labels]
  /\ msg \in [Pages -> Messages]
  /\ gone \in SUBSET Pages

OneUser == \A p, q \in Pages : user[p] = user[q]

Total == Len(q1) + Len(q2) + (IF busy = NULL THEN 0 ELSE 1)

(* Every message beyond those the pages sent was made by a timeout handler *)
(* that holds another user's message (login.c:11-14).                      *)
OnlyForeignAdd ==
  [][Total' > Total =>
       \E p \in Pages : Send(p) \/ (HandlerResend(p) /\ msg[p].username # user[p])]_vars

(* With one user only, there are never more messages than pages that wait  *)
(* or gave up: none is multiplied, and a page that was answered takes its  *)
(* message with it.                                                        *)
NoMoreThanAsked ==
  OneUser =>
    Total <= Cardinality({p \in Pages : pc[p] \in {"wait", "take", "resend", "expired"}})

(* login.c:8-15, with one user only: the page ends, in its timeout handler *)
(* if need be.                                                             *)
LoginEnds == \A p \in Pages : (pc[p] = "wait" /\ OneUser) ~> pc[p] \in {"done", "expired"}
=============================================================================
