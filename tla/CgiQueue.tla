------------------------------ MODULE CgiQueue ------------------------------
(***************************************************************************)
(* The pages for readings, devices and thresholds (src/cgisrc/garden_      *)
(* stuff_view.c, _dev.c, _set.c) and the System V queue that carries their *)
(* requests (type rettype/2) to the server's handler threads and the       *)
(* answers (type rettype) back.  The three pages speak to the queue in the *)
(* same way; each is one process that sends one request, arms an alarm,    *)
(* waits for one answer and exits.  Neither type says which page a message *)
(* belongs to.  The handlers are those of Server, reduced to what they do  *)
(* to the queue: they take a request, and answer it or end.                *)
(***************************************************************************)
EXTENDS SequencesExt, FiniteSets, Integers

CONSTANTS
  Pages,    \* the page processes; a page's name is also the name of its request
  Workers,  \* handler threads of the server
  Cap,      \* messages the queue has room for
  NULL

Answer == [req : Pages, flags : {0, 1}]

ASSUME CgiQueueAssumption ==
  /\ Cap \in Nat \ {0}
  /\ NULL \notin Pages \cup Answer

VARIABLES
  reqs,     \* requests in the queue, oldest first
  answers,  \* answers in the queue, oldest first: request and user.flags
  held,     \* request each worker has taken and not answered
  pc,       \* where each page is
  got,      \* answer a page received, NULL when msgrcv failed or did not return
  shown,    \* what the page tells its user: "ok", "failed", or both
  gone      \* pages whose msgid is that of a queue that was removed

vars == <<reqs, answers, held, pc, got, shown, gone>>
-----------------------------------------------------------------------------
Labels == {"new", "send", "wait", "got", "printed", "done"}

Goto(p, l) == pc' = [pc EXCEPT ![p] = l]

(* Mutation: each type of message has the whole room. *)
FullOfOneType == Len(reqs) >= Cap \/ Len(answers) >= Cap

(* msgsnd waits: both types share the room of one queue. *)
Full == Len(reqs) + Len(answers) >= Cap
Show(p, s) == shown' = [shown EXCEPT ![p] = @ \cup {s}]
-----------------------------------------------------------------------------
(* ftok, msgget and the request: the queue is created if there is none. *)
Open(p) ==
  /\ pc[p] = "new"
  /\ Goto(p, "send")
  /\ UNCHANGED <<reqs, answers, held, got, shown, gone>>

(* msgsnd waits for room; the alarm is armed only when it has returned. *)
Send(p) ==
  /\ pc[p] = "send" /\ p \notin gone
  /\ ~Full
  /\ reqs' = Append(reqs, p)
  /\ Goto(p, "wait")
  /\ UNCHANGED <<answers, held, got, shown, gone>>

(* msgrcv takes the oldest answer, whoever asked for it. *)
Receive(p) ==
  /\ pc[p] = "wait" /\ p \notin gone
  /\ answers # <<>>
  /\ got' = [got EXCEPT ![p] = Head(answers)]
  /\ answers' = Tail(answers)
  /\ Goto(p, "got")
  /\ UNCHANGED <<reqs, held, shown, gone>>

(* The queue was removed under the page: msgsnd and msgrcv return -1, which *)
(* is not checked, and msg is still all zero.                               *)
CallFails(p) ==
  /\ pc[p] \in {"send", "wait"} /\ p \in gone
  /\ Goto(p, "got")
  /\ UNCHANGED <<reqs, answers, held, got, shown, gone>>

Answered(p) ==
  /\ pc[p] = "got"
  /\ Show(p, IF got[p] # NULL /\ got[p].flags = 1 THEN "ok" ELSE "failed")
  /\ Goto(p, "printed")
  /\ UNCHANGED <<reqs, answers, held, got, gone>>

Exit(p) ==
  /\ pc[p] = "printed"
  /\ Goto(p, "done")
  /\ UNCHANGED <<reqs, answers, held, got, shown, gone>>

(* Mutation: msgrcv without IPC_NOWAIT. *)
TimeoutWaits(p) ==
  /\ pc[p] \in {"wait", "got", "printed"}
  /\ p \notin gone => reqs # <<>>
  /\ reqs' = IF p \in gone THEN reqs ELSE Tail(reqs)
  /\ Show(p, "failed")
  /\ Goto(p, "done")
  /\ UNCHANGED <<answers, held, got, gone>>

(* Mutation: the handler clears the queue of everything it can take. *)
TimeoutDrains(p) ==
  /\ pc[p] \in {"wait", "got", "printed"}
  /\ reqs' = IF p \in gone THEN reqs ELSE <<>>
  /\ answers' = IF p \in gone THEN answers ELSE <<>>
  /\ Show(p, "failed")
  /\ Goto(p, "done")
  /\ UNCHANGED <<held, got, gone>>

(* handler, on SIGALRM: it removes the oldest request if there is one,     *)
(* tells the user that it failed and exits.  The alarm stays armed until   *)
(* the page exits, so it may also interrupt a page that has its answer.    *)
handler(p) ==
  /\ pc[p] \in {"wait", "got", "printed"}
  /\ reqs' = IF p \in gone \/ reqs = <<>> THEN reqs ELSE Tail(reqs)
  /\ Show(p, "failed")
  /\ Goto(p, "done")
  /\ UNCHANGED <<answers, held, got, gone>>
-----------------------------------------------------------------------------
(* A handler thread of the server takes the oldest request. *)
Take(w) ==
  /\ held[w] = NULL
  /\ reqs # <<>>
  /\ held' = [held EXCEPT ![w] = Head(reqs)]
  /\ reqs' = Tail(reqs)
  /\ UNCHANGED <<answers, pc, got, shown, gone>>

(* Mutation: the thread keeps what it has answered. *)
ReplyTwice(w) ==
  /\ held[w] # NULL
  /\ ~Full
  /\ \E f \in {0, 1} : answers' = Append(answers, [req |-> held[w], flags |-> f])
  /\ UNCHANGED <<reqs, held, pc, got, shown, gone>>

(* It returns the greenhouse's result, or, when recv failed, the request   *)
(* itself with user.flags still 0; msgsnd waits for room.                  *)
Reply(w) ==
  /\ held[w] # NULL
  /\ ~Full
  /\ held' = [held EXCEPT ![w] = NULL]
  /\ \E f \in {0, 1} : answers' = Append(answers, [req |-> held[w], flags |-> f])
  /\ UNCHANGED <<reqs, pc, got, shown, gone>>

(* The greenhouse disconnects, the thread is cancelled, or the server dies *)
(* without a handler for the signal: the request goes, the queue stays.    *)
WorkerEnds(w) ==
  /\ held[w] # NULL
  /\ held' = [held EXCEPT ![w] = NULL]
  /\ UNCHANGED <<reqs, answers, pc, got, shown, gone>>

(* The server stops and removes the queue; the next msgget makes a new one. *)
RemoveQueue ==
  /\ reqs' = <<>> /\ answers' = <<>>
  /\ held' = [w \in Workers |-> NULL]
  /\ gone' = gone \cup {p \in Pages : pc[p] \in {"send", "wait", "got", "printed"}}
  /\ UNCHANGED <<pc, got, shown>>
-----------------------------------------------------------------------------
Init ==
  /\ reqs = <<>> /\ answers = <<>>
  /\ held = [w \in Workers |-> NULL]
  /\ pc = [p \in Pages |-> "new"]
  /\ got = [p \in Pages |-> NULL]
  /\ shown = [p \in Pages |-> {}]
  /\ gone = {}

PageStep(p) == Open(p) \/ Send(p) \/ Receive(p) \/ CallFails(p) \/ Answered(p) \/ Exit(p)

Next ==
  \/ \E p \in Pages : PageStep(p) \/ handler(p)
  \/ \E w \in Workers : Take(w) \/ Reply(w) \/ WorkerEnds(w)
  \/ RemoveQueue

Spec == Init /\ [][Next]_vars

(* Pages are scheduled, a blocked msgsnd is woken when there is room, and  *)
(* an alarm that was armed goes off.  Nothing is assumed of the server.    *)
Fairness ==
  /\ \A p \in Pages : SF_vars(PageStep(p)) /\ WF_vars(handler(p))

FairSpec == Spec /\ Fairness
-----------------------------------------------------------------------------
(* Each variable has its type, and the queue is never over its capacity. *)
TypeOK ==
  /\ reqs \in Seq(Pages) /\ answers \in Seq(Answer)
  /\ Len(reqs) + Len(answers) <= Cap
  /\ held \in [Workers -> Pages \cup {NULL}]
  /\ pc \in [Pages -> Labels]
  /\ got \in [Pages -> Answer \cup {NULL}]
  /\ shown \in [Pages -> SUBSET {"ok", "failed"}]
  /\ gone \in SUBSET Pages

Sent(p) == pc[p] \notin {"new", "send"}

(* A request is in one place: in the queue, taken by one thread, or        *)
(* answered once, the answer being in the queue or with one page, and only *)
(* requests that were sent are anywhere (view.c:62-69, server.c:192-223).  *)
OneAnswerPerRequest ==
  LET Queued == ToSet(reqs)
      Held == {held[w] : w \in Workers} \ {NULL}
      Waiting == {answers[i].req : i \in DOMAIN answers}
      Delivered == {got[p].req : p \in {q \in Pages : got[q] # NULL}}
  IN  /\ \A p \in Queued \cup Held \cup Waiting \cup Delivered : Sent(p)
      /\ Queued \cap (Held \cup Waiting \cup Delivered) = {}
      /\ Held \cap (Waiting \cup Delivered) = {} /\ Waiting \cap Delivered = {}
      /\ \A i, j \in DOMAIN reqs : reqs[i] = reqs[j] => i = j
      /\ \A v, w \in Workers : held[v] = held[w] /\ held[v] # NULL => v = w
      /\ \A i, j \in DOMAIN answers : answers[i].req = answers[j].req => i = j
      /\ \A p, q \in Pages : got[p] # NULL /\ got[q] # NULL /\ got[p].req = got[q].req => p = q

(* Messages in the system that no waiting page has a use for; negative     *)
(* when pages wait for messages that no longer exist.                      *)
Surplus ==
  Len(reqs) + Len(answers) + Cardinality({w \in Workers : held[w] # NULL})
    - Cardinality({p \in Pages : pc[p] = "wait" /\ p \notin gone})

(* A late answer shifts every later page by one: what is superfluous in    *)
(* the queue stays so until the server loses a request or is stopped, or   *)
(* an alarm interrupts a page that already has its answer and takes the    *)
(* request of another (view.c:7).                                          *)
ShiftedForGood ==
  [][Surplus' < Surplus =>
       \/ \E w \in Workers : WorkerEnds(w)
       \/ \E p \in Pages : pc[p] # "wait" /\ handler(p)
       \/ RemoveQueue]_vars

(* When late answers fill the queue and no page is past its msgsnd, the    *)
(* queue never moves again until somebody removes it: every page waits to  *)
(* send before it would take an answer away (view.c:62-69).                *)
Clogged == Len(answers) = Cap /\ \A p \in Pages : pc[p] # "wait" \/ p \in gone
CloggedForever == [][Clogged => (Clogged' /\ answers' = answers) \/ RemoveQueue]_vars

(* view.c:65: a page that has sent its request ends, with or without an    *)
(* answer: nothing in the alarm's handler waits.                           *)
SentPageEnds == \A p \in Pages : pc[p] = "wait" ~> pc[p] = "done"

(* The pages, the threads and the alarms together keep the promise of      *)
(* Channel: each request is taken once, in turn, and answered at most once *)
(* (garden_stuff_view.c:62-69, server.c:192-223).                          *)
Stage(p) ==
  CASE p \in ToSet(reqs) -> "pending"
    [] \E w \in Workers : held[w] = p -> "taken"
    [] \/ \E i \in DOMAIN answers : answers[i].req = p
       \/ \E q \in Pages : got[q] # NULL /\ got[q].req = p -> "answered"
    [] pc[p] \in {"new", "send"} -> "none"
    [] OTHER -> "lost"

Abstract == INSTANCE Channel WITH
  Requests <- Pages, pending <- reqs, stage <- [p \in Pages |-> Stage(p)]
ChannelKept == Abstract!Spec
=============================================================================
