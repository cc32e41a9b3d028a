--------------------------- MODULE CgiQueueProofs ---------------------------
(***************************************************************************)
(* Theorems about CgiQueue, for any number of pages and handler threads    *)
(* and any capacity of the queue; at the end, the pages, the threads and   *)
(* the alarms implement Channel.                                           *)
(***************************************************************************)
EXTENDS CgiQueue, SequencesExt, SequenceTheorems, FiniteSetTheorems, TLAPS

USE CgiQueueAssumption

(* The queue is empty and everybody is idle at the start. *)
LEMMA TypeInit == Init => TypeOK
<1> SUFFICES ASSUME Init PROVE TypeOK
  OBVIOUS
<1>1. reqs \in Seq(Pages) /\ answers \in Seq(Answer) /\ Len(reqs) = 0 /\ Len(answers) = 0
  BY EmptySeq DEF Init
<1> QED
  BY <1>1 DEF Init, TypeOK, Labels

(* What taking the oldest message does to a queue. *)
LEMMA Taken ==
  ASSUME NEW S, NEW s \in Seq(S), s # <<>>
  PROVE  Head(s) \in S /\ Tail(s) \in Seq(S) /\ Len(Tail(s)) = Len(s) - 1
BY HeadTailProperties

(* Every step keeps the state well-typed and the queue within its room. *)
LEMMA TypeStep == TypeOK /\ [Next]_vars => TypeOK'
<1> SUFFICES ASSUME TypeOK, [Next]_vars PROVE TypeOK'
  OBVIOUS
<1> USE DEF TypeOK
<1>1. ASSUME NEW p \in Pages, Open(p) PROVE TypeOK'
  BY <1>1 DEF Open, Goto, Labels
<1>2. ASSUME NEW p \in Pages, Send(p) PROVE TypeOK'
  <2>1. reqs' \in Seq(Pages) /\ Len(reqs') = Len(reqs) + 1
    BY <1>2, AppendProperties DEF Send
  <2>2. Len(reqs') + Len(answers') <= Cap
    BY <1>2, <2>1, LenProperties DEF Send, Full
  <2> QED
    BY <1>2, <2>1, <2>2 DEF Send, Goto, Labels
<1>3. ASSUME NEW p \in Pages, Receive(p) PROVE TypeOK'
  <2>1. /\ Head(answers) \in Answer /\ answers' \in Seq(Answer)
        /\ Len(answers') = Len(answers) - 1
    BY <1>3, Taken DEF Receive
  <2>2. Len(reqs') + Len(answers') <= Cap
    BY <1>3, <2>1, LenProperties DEF Receive
  <2> QED
    BY <1>3, <2>1, <2>2 DEF Receive, Goto, Labels
<1>4. ASSUME NEW p \in Pages, CallFails(p) PROVE TypeOK'
  BY <1>4 DEF CallFails, Goto, Labels
<1>5. ASSUME NEW p \in Pages, Answered(p) PROVE TypeOK'
  BY <1>5 DEF Answered, Show, Goto, Labels
<1>6. ASSUME NEW p \in Pages, Exit(p) PROVE TypeOK'
  BY <1>6 DEF Exit, Goto, Labels
<1>7. ASSUME NEW p \in Pages, handler(p) PROVE TypeOK'
  <2>1. reqs' \in Seq(Pages) /\ Len(reqs') <= Len(reqs)
    BY <1>7, Taken, LenProperties DEF handler
  <2>2. Len(reqs') + Len(answers') <= Cap
    BY <1>7, <2>1, LenProperties DEF handler
  <2> QED
    BY <1>7, <2>1, <2>2 DEF handler, Show, Goto, Labels
<1>8. ASSUME NEW w \in Workers, Take(w) PROVE TypeOK'
  <2>1. Head(reqs) \in Pages /\ reqs' \in Seq(Pages) /\ Len(reqs') = Len(reqs) - 1
    BY <1>8, Taken DEF Take
  <2>2. Len(reqs') + Len(answers') <= Cap
    BY <1>8, <2>1, LenProperties DEF Take
  <2> QED
    BY <1>8, <2>1, <2>2 DEF Take
<1>9. ASSUME NEW w \in Workers, Reply(w) PROVE TypeOK'
  <2>1. PICK f \in {0, 1} : answers' = Append(answers, [req |-> held[w], flags |-> f])
    BY <1>9 DEF Reply
  <2>2. [req |-> held[w], flags |-> f] \in Answer
    BY <1>9 DEF Reply, Answer
  <2>3. answers' \in Seq(Answer) /\ Len(answers') = Len(answers) + 1
    BY <2>1, <2>2, AppendProperties
  <2>4. Len(reqs') + Len(answers') <= Cap
    BY <1>9, <2>3, LenProperties DEF Reply, Full
  <2> QED
    BY <1>9, <2>3, <2>4 DEF Reply
<1>10. ASSUME NEW w \in Workers, WorkerEnds(w) PROVE TypeOK'
  BY <1>10 DEF WorkerEnds
<1>11. CASE RemoveQueue
  <2>1. /\ reqs' \in Seq(Pages) /\ answers' \in Seq(Answer)
        /\ Len(reqs') = 0 /\ Len(answers') = 0
    BY <1>11, EmptySeq DEF RemoveQueue
  <2> QED
    BY <1>11, <2>1 DEF RemoveQueue
<1>12. CASE UNCHANGED vars
  BY <1>12 DEF vars
<1> QED
  BY <1>1, <1>2, <1>3, <1>4, <1>5, <1>6, <1>7, <1>8, <1>9, <1>10, <1>11, <1>12
  DEF Next, PageStep

(* Type correctness: the queue never holds more messages than it has room  *)
(* for, and all variables stay in their types.                             *)
THEOREM TypeCorrect == Spec => []TypeOK
BY TypeInit, TypeStep, PTL DEF Spec

(* In a clogged queue there is no request, and nobody takes an answer. *)
LEMMA CloggedStep ==
  TypeOK /\ [Next]_vars /\ Clogged => (Clogged' /\ answers' = answers) \/ RemoveQueue
<1> SUFFICES ASSUME TypeOK, [Next]_vars, Clogged, ~RemoveQueue
             PROVE  Clogged' /\ answers' = answers
  OBVIOUS
<1>1. reqs = <<>> /\ Full
  BY EmptySeq, LenProperties DEF TypeOK, Clogged, Full
<1>2. ASSUME NEW p \in Pages, PageStep(p)
      PROVE  answers' = answers /\ gone' = gone /\ \E l \in Labels \ {"wait"} : pc' = [pc EXCEPT ![p] = l]
  BY <1>1, <1>2 DEF Clogged, PageStep, Open, Send, Receive, CallFails, Answered, Exit, Goto, Labels
<1>3. ASSUME NEW p \in Pages, handler(p)
      PROVE  answers' = answers /\ gone' = gone /\ \E l \in Labels \ {"wait"} : pc' = [pc EXCEPT ![p] = l]
  BY <1>3 DEF handler, Goto, Labels
<1>4. ASSUME NEW w \in Workers, Take(w) \/ Reply(w) \/ WorkerEnds(w)
      PROVE  UNCHANGED <<answers, pc, gone>>
  BY <1>1, <1>4 DEF Take, Reply, WorkerEnds
<1>5. ASSUME NEW p \in Pages, answers' = answers, gone' = gone,
             \E l \in Labels \ {"wait"} : pc' = [pc EXCEPT ![p] = l]
      PROVE  Clogged'
  BY <1>5 DEF Clogged, TypeOK
<1> QED
  BY <1>2, <1>3, <1>4, <1>5 DEF Next, vars, Clogged

(* Once late answers fill the queue and nobody is past its msgsnd, nothing *)
(* ever moves in the queue until it is removed, whatever its capacity.     *)
THEOREM CloggedStays == Spec => CloggedForever
<1>1. TypeOK /\ [Next]_vars => [Clogged => (Clogged' /\ answers' = answers) \/ RemoveQueue]_vars
  BY CloggedStep
<1> QED
  BY <1>1, TypeCorrect, PTL DEF Spec, CloggedForever

-----------------------------------------------------------------------------
(* The threads that have a request and the pages that wait for an answer.  *)
(* There are finitely many of each, however many threads and pages exist.  *)
Holders == {w \in Workers : held[w] # NULL}
Waiters == {p \in Pages : pc[p] = "wait" /\ p \notin gone}
Counted == IsFiniteSet(Holders) /\ IsFiniteSet(Waiters)

(* Surplus is a sum of four numbers: it is not less after a step that      *)
(* changes them by a, b, c and d.                                          *)
LEMMA Kept ==
  ASSUME TypeOK, Counted, NEW a \in Int, NEW b \in Int, NEW c \in Int, NEW d \in Int,
         Len(reqs') = Len(reqs) + a, Len(answers') = Len(answers) + b,
         Cardinality(Holders') = Cardinality(Holders) + c,
         Cardinality(Waiters') = Cardinality(Waiters) + d,
         a + b + c - d >= 0
  PROVE  ~(Surplus' < Surplus)
<1>1. /\ Len(reqs) \in Nat /\ Len(answers) \in Nat
      /\ Cardinality(Holders) \in Nat /\ Cardinality(Waiters) \in Nat
  BY LenProperties, FS_CardinalityType DEF TypeOK, Counted
<1>2. Surplus = Len(reqs) + Len(answers) + Cardinality(Holders) - Cardinality(Waiters)
  BY DEF Surplus, Holders, Waiters
<1>3. Surplus' = Len(reqs') + Len(answers') + Cardinality(Holders') - Cardinality(Waiters')
  BY DEF Surplus, Holders, Waiters
<1> QED
  BY <1>1, <1>2, <1>3

(* A page's steps and its alarm: one message leaves the queue for a page   *)
(* that stops waiting, one enters it for a page that begins to; only an    *)
(* alarm that comes later takes a message for nothing.                     *)
LEMMA PageCounts ==
  ASSUME TypeOK, Counted, NEW p \in Pages, PageStep(p) \/ handler(p)
  PROVE  Counted' /\ (Surplus' < Surplus => pc[p] # "wait" /\ handler(p))
<1>0. /\ reqs \in Seq(Pages) /\ answers \in Seq(Answer)
      /\ Len(reqs) \in Nat /\ Len(answers) \in Nat
      /\ Cardinality(Holders) \in Nat /\ Cardinality(Waiters) \in Nat
      /\ reqs # <<>> => Len(Tail(reqs)) = Len(reqs) - 1
      /\ answers # <<>> => Len(Tail(answers)) = Len(answers) - 1
      /\ Len(Append(reqs, p)) = Len(reqs) + 1
  BY HeadTailProperties, AppendProperties, LenProperties, FS_CardinalityType DEF TypeOK, Counted
<1>1. held' = held /\ gone' = gone
  BY DEF PageStep, Open, Send, Receive, CallFails, Answered, Exit, handler
<1>2. Holders' = Holders /\ IsFiniteSet(Holders)
  BY <1>1 DEF Holders, Counted
<1>3. /\ IsFiniteSet(Waiters \cup {p}) /\ IsFiniteSet(Waiters \ {p})
      /\ p \notin Waiters => Cardinality(Waiters \cup {p}) = Cardinality(Waiters) + 1
      /\ p \in Waiters => Cardinality(Waiters \ {p}) = Cardinality(Waiters) - 1
      /\ p \notin Waiters => Waiters \ {p} = Waiters
  BY FS_AddElement, FS_RemoveElement DEF Counted
<1>4. ASSUME NEW l, Goto(p, l)
      PROVE  Waiters' = IF l = "wait" /\ p \notin gone THEN Waiters \cup {p} ELSE Waiters \ {p}
  BY <1>1, <1>4 DEF Waiters, Goto, TypeOK
<1>5. p \in Waiters <=> pc[p] = "wait" /\ p \notin gone
  BY DEF Waiters
<1>6. CASE Send(p)
  <2>1. Waiters' = Waiters \cup {p} /\ p \notin Waiters
    BY <1>4, <1>5, <1>6 DEF Send
  <2>2. Len(reqs') = Len(reqs) + 1 /\ Len(answers') = Len(answers) + 0
    BY <1>0, <1>6 DEF Send
  <2>3. Cardinality(Waiters') = Cardinality(Waiters) + 1
    BY <1>3, <2>1
  <2>4. Cardinality(Holders') = Cardinality(Holders) + 0
    BY <1>0, <1>2
  <2>5. ~(Surplus' < Surplus)
    <3>1. 1 \in Int /\ 0 \in Int /\ 1 + 0 + 0 - 1 >= 0
      OBVIOUS
    <3> QED
      BY <2>2, <2>3, <2>4, <3>1, Kept
  <2> QED
    BY <1>2, <1>3, <2>1, <2>5 DEF Counted
<1>7. CASE Receive(p)
  <2>1. Waiters' = Waiters \ {p} /\ p \in Waiters
    BY <1>4, <1>5, <1>7 DEF Receive
  <2>2. Len(reqs') = Len(reqs) + 0 /\ Len(answers') = Len(answers) + (-1)
    BY <1>0, <1>7 DEF Receive
  <2>3. Cardinality(Waiters') = Cardinality(Waiters) + (-1)
    BY <1>0, <1>3, <2>1
  <2>4. Cardinality(Holders') = Cardinality(Holders) + 0
    BY <1>0, <1>2
  <2>5. ~(Surplus' < Surplus)
    <3>1. -1 \in Int /\ 0 \in Int /\ 0 + (-1) + 0 - (-1) >= 0
      OBVIOUS
    <3> QED
      BY <2>2, <2>3, <2>4, <3>1, Kept
  <2> QED
    BY <1>2, <1>3, <2>1, <2>5 DEF Counted
<1>8. CASE Open(p) \/ CallFails(p) \/ Answered(p) \/ Exit(p)
  <2>1. p \notin Waiters /\ UNCHANGED <<reqs, answers>>
    BY <1>5, <1>8 DEF Open, CallFails, Answered, Exit
  <2>2. Waiters' = Waiters
    <3>1. \E l \in {"send", "got", "printed", "done"} : Goto(p, l)
      BY <1>8 DEF Open, CallFails, Answered, Exit
    <3> QED
      BY <1>3, <1>4, <2>1, <3>1
  <2>3. ~(Surplus' < Surplus)
    <3>1. /\ Len(reqs') = Len(reqs) + 0 /\ Len(answers') = Len(answers) + 0
          /\ Cardinality(Holders') = Cardinality(Holders) + 0
          /\ Cardinality(Waiters') = Cardinality(Waiters) + 0
      BY <1>0, <1>2, <2>1, <2>2
    <3>2. 0 \in Int /\ 0 + 0 + 0 - 0 >= 0
      OBVIOUS
    <3> QED
      BY <3>1, <3>2, Kept
  <2> QED
    BY <1>2, <2>2, <2>3 DEF Counted
<1>9. CASE handler(p)
  <2>1. Waiters' = Waiters \ {p} /\ answers' = answers
    BY <1>4, <1>9 DEF handler
  <2>2. ASSUME pc[p] = "wait" PROVE ~(Surplus' < Surplus)
    <3>1. /\ Len(answers') = Len(answers) + 0
          /\ Cardinality(Holders') = Cardinality(Holders) + 0
      BY <1>0, <1>2, <2>1
    <3>2. 0 \in Int /\ -1 \in Int /\ 0 + 0 + 0 - 0 >= 0 /\ -1 + 0 + 0 - (-1) >= 0
          /\ 0 + 0 + 0 - (-1) >= 0
      OBVIOUS
    <3>3. CASE p \in gone
      <4>1. Len(reqs') = Len(reqs) + 0
        BY <1>0, <1>9, <3>3 DEF handler
      <4>2. Waiters' = Waiters
        BY <1>3, <1>5, <2>1, <3>3
      <4>3. Cardinality(Waiters') = Cardinality(Waiters) + 0
        BY <1>0, <4>2
      <4> QED
        BY <3>1, <3>2, <4>1, <4>3, Kept
    <3>4. CASE p \notin gone
      <4>1. Cardinality(Waiters') = Cardinality(Waiters) + (-1)
        BY <1>0, <1>3, <1>5, <2>1, <2>2, <3>4
      <4>2. Len(reqs') = Len(reqs) + 0 \/ Len(reqs') = Len(reqs) + (-1)
        BY <1>0, <1>9 DEF handler
      <4> QED
        BY <3>1, <3>2, <4>1, <4>2, Kept
    <3> QED
      BY <3>3, <3>4
  <2> QED
    BY <1>2, <1>3, <1>9, <2>1, <2>2 DEF Counted
<1> QED
  BY <1>6, <1>7, <1>8, <1>9 DEF PageStep

(* A thread's steps: a message only changes its place, unless the thread   *)
(* loses it.                                                               *)
LEMMA WorkerCounts ==
  ASSUME TypeOK, Counted, NEW w \in Workers, Take(w) \/ Reply(w) \/ WorkerEnds(w)
  PROVE  Counted' /\ (Surplus' < Surplus => WorkerEnds(w))
<1>0. /\ reqs \in Seq(Pages) /\ answers \in Seq(Answer)
      /\ Len(reqs) \in Nat /\ Len(answers) \in Nat
      /\ Cardinality(Holders) \in Nat /\ Cardinality(Waiters) \in Nat
      /\ reqs # <<>> => Len(Tail(reqs)) = Len(reqs) - 1 /\ Head(reqs) \in Pages
  BY HeadTailProperties, LenProperties, FS_CardinalityType DEF TypeOK, Counted
<1>1. Waiters' = Waiters
  BY DEF Waiters, Take, Reply, WorkerEnds
<1>2. Cardinality(Waiters') = Cardinality(Waiters) + 0
  BY <1>0, <1>1
<1>3. /\ IsFiniteSet(Holders \cup {w}) /\ IsFiniteSet(Holders \ {w})
      /\ w \notin Holders => Cardinality(Holders \cup {w}) = Cardinality(Holders) + 1
      /\ w \in Holders => Cardinality(Holders \ {w}) = Cardinality(Holders) - 1
  BY FS_AddElement, FS_RemoveElement DEF Counted
<1>4. ASSUME NEW v, held' = [held EXCEPT ![w] = v]
      PROVE  Holders' = IF v # NULL THEN Holders \cup {w} ELSE Holders \ {w}
  BY <1>4 DEF Holders, TypeOK
<1>5. w \in Holders <=> held[w] # NULL
  BY DEF Holders
<1>6. CASE Take(w)
  <2>1. Holders' = Holders \cup {w} /\ w \notin Holders
    <3>1. PICK r : r = Head(reqs)
      OBVIOUS
    <3>2. r # NULL
      BY <1>0, <1>6, <3>1 DEF Take
    <3>3. held' = [held EXCEPT ![w] = r] /\ held[w] = NULL
      BY <1>6, <3>1 DEF Take
    <3>4. Holders' = IF r # NULL THEN Holders \cup {w} ELSE Holders \ {w}
      BY <1>4, <3>3
    <3> QED
      BY <1>5, <3>2, <3>3, <3>4
  <2>2. /\ Len(reqs') = Len(reqs) + (-1) /\ Len(answers') = Len(answers) + 0
        /\ Cardinality(Holders') = Cardinality(Holders) + 1
    BY <1>0, <1>3, <1>6, <2>1 DEF Take
  <2>3. ~(Surplus' < Surplus)
    <3>1. -1 \in Int /\ 0 \in Int /\ 1 \in Int /\ -1 + 0 + 1 - 0 >= 0
      OBVIOUS
    <3> QED
      BY <1>2, <2>2, <3>1, Kept
  <2> QED
    BY <1>1, <1>3, <2>1, <2>3 DEF Counted
<1>7. CASE Reply(w)
  <2>1. Holders' = Holders \ {w} /\ w \in Holders
    BY <1>4, <1>5, <1>7 DEF Reply
  <2>2. PICK f \in {0, 1} : answers' = Append(answers, [req |-> held[w], flags |-> f])
    BY <1>7 DEF Reply
  <2>3. [req |-> held[w], flags |-> f] \in Answer
    BY <1>7 DEF Reply, Answer, TypeOK
  <2>4. /\ Len(answers') = Len(answers) + 1 /\ Len(reqs') = Len(reqs) + 0
        /\ Cardinality(Holders') = Cardinality(Holders) + (-1)
    <3>1. Len(answers') = Len(answers) + 1
      BY <1>0, <2>2, <2>3, AppendProperties
    <3> QED
      BY <1>0, <1>3, <1>7, <2>1, <3>1 DEF Reply
  <2>5. ~(Surplus' < Surplus)
    <3>1. -1 \in Int /\ 0 \in Int /\ 1 \in Int /\ 0 + 1 + (-1) - 0 >= 0
      OBVIOUS
    <3> QED
      BY <1>2, <2>4, <3>1, Kept
  <2> QED
    BY <1>1, <1>3, <2>1, <2>5 DEF Counted
<1>8. CASE WorkerEnds(w)
  <2>1. Holders' = Holders \ {w}
    BY <1>4, <1>8 DEF WorkerEnds
  <2> QED
    BY <1>1, <1>3, <1>8, <2>1 DEF Counted
<1> QED
  BY <1>6, <1>7, <1>8

LEMMA CountedInit == Init => Counted
<1> SUFFICES ASSUME Init PROVE Counted
  OBVIOUS
<1>1. Holders = {} /\ Waiters = {}
  BY DEF Init, Holders, Waiters
<1> QED
  BY <1>1, FS_EmptySet DEF Counted

(* What a step may make less of. *)
Shifts ==
  Surplus' < Surplus =>
    \/ \E w \in Workers : WorkerEnds(w)
    \/ \E p \in Pages : pc[p] # "wait" /\ handler(p)
    \/ RemoveQueue

LEMMA CountedStep ==
  ASSUME TypeOK, Counted, [Next]_vars
  PROVE  Counted' /\ [Shifts]_vars
<1>1. CASE RemoveQueue
  <2>1. Holders' = {} /\ Waiters' = {}
    BY <1>1 DEF RemoveQueue, Holders, Waiters
  <2> QED
    BY <1>1, <2>1, FS_EmptySet DEF Counted, Shifts
<1>2. CASE UNCHANGED vars
  BY <1>2 DEF vars, Counted, Holders, Waiters
<1>3. ASSUME NEW p \in Pages, PageStep(p) \/ handler(p) PROVE Counted' /\ Shifts
  BY <1>3, PageCounts DEF Shifts
<1>4. ASSUME NEW w \in Workers, Take(w) \/ Reply(w) \/ WorkerEnds(w) PROVE Counted' /\ Shifts
  BY <1>4, WorkerCounts DEF Shifts
<1> QED
  BY <1>1, <1>2, <1>3, <1>4 DEF Next

(* A late answer shifts every later page by one, for any number of pages:  *)
(* only a request the server loses, an alarm that finds its page answered  *)
(* or the end of the queue makes up for it (view.c:7, view.c:62-69).       *)
THEOREM ShiftsStay == Spec => ShiftedForGood
<1>1. TypeOK /\ Counted /\ [Next]_vars => Counted' /\ [Shifts]_vars
  BY CountedStep
<1>2. Spec => [][Shifts]_vars
  BY <1>1, CountedInit, TypeCorrect, PTL DEF Spec
<1> QED
  BY <1>2 DEF ShiftedForGood, Shifts
-----------------------------------------------------------------------------
(* Queues whose elements differ from each other, and queues of records     *)
(* that carry the name of a request each, and no name twice.               *)
Distinct(s) == \A i, j \in DOMAIN s : s[i] = s[j] => i = j
Names(s) == {s[i].req : i \in DOMAIN s}
DistinctNames(s) == \A i, j \in DOMAIN s : s[i].req = s[j].req => i = j

(* A new element goes to the end of a queue. *)
LEMMA AppendDistinct ==
  ASSUME NEW S, NEW s \in Seq(S), NEW e \in S
  PROVE  /\ ToSet(Append(s, e)) = ToSet(s) \cup {e}
         /\ Distinct(s) /\ e \notin ToSet(s) => Distinct(Append(s, e))
<1> DEFINE t == Append(s, e)
<1>1. /\ t \in Seq(S) /\ Len(t) = Len(s) + 1 /\ Len(s) \in Nat
      /\ \A i \in 1..Len(s) : t[i] = s[i]
      /\ t[Len(s) + 1] = e
  BY AppendProperties, LenProperties
<1>2. DOMAIN s = 1..Len(s) /\ DOMAIN t = 1..(Len(s) + 1)
  BY <1>1, LenProperties
<1> HIDE DEF t
<1>3. PICK n : /\ n \notin DOMAIN s /\ DOMAIN t = DOMAIN s \cup {n} /\ t[n] = e
               /\ \A i \in DOMAIN s : t[i] = s[i]
  <2>1. Len(s) + 1 \notin DOMAIN s /\ DOMAIN t = DOMAIN s \cup {Len(s) + 1}
    BY <1>1, <1>2
  <2> QED BY <1>1, <1>2, <2>1
<1>4. ToSet(t) = ToSet(s) \cup {e}
  BY <1>3 DEF ToSet
<1>5. Distinct(s) /\ e \notin ToSet(s) => Distinct(t)
  BY <1>3 DEF Distinct, ToSet
<1> QED BY <1>4, <1>5 DEF t

(* The oldest element leaves a queue. *)
LEMMA TailDistinct ==
  ASSUME NEW S, NEW s \in Seq(S), s # <<>>, Distinct(s)
  PROVE  /\ ToSet(Tail(s)) = ToSet(s) \ {Head(s)}
         /\ Head(s) \in ToSet(s)
         /\ Distinct(Tail(s))
<1> DEFINE t == Tail(s)
<1>1. /\ t \in Seq(S) /\ Len(t) = Len(s) - 1 /\ Len(s) \in Nat /\ Len(s) >= 1
      /\ \A i \in 1..Len(t) : t[i] = s[i + 1]
      /\ Head(s) = s[1]
  BY HeadTailProperties, LenProperties, EmptySeq
<1>2. DOMAIN s = 1..Len(s) /\ DOMAIN t = 1..(Len(s) - 1)
  BY <1>1, LenProperties
<1> HIDE DEF t
<1>3. /\ 1 \in DOMAIN s
      /\ \A i \in DOMAIN t : i \in Nat /\ i + 1 \in DOMAIN s \ {1} /\ t[i] = s[i + 1]
  BY <1>1, <1>2
<1>4. ASSUME NEW i \in DOMAIN s \ {1} PROVE \E j \in DOMAIN t : j + 1 = i
  <2>1. i - 1 \in DOMAIN t /\ (i - 1) + 1 = i
    BY <1>1, <1>2
  <2> QED BY <2>1
<1>5. Distinct(t)
  BY <1>3 DEF Distinct
<1>6. ToSet(t) = ToSet(s) \ {s[1]}
  BY <1>3, <1>4 DEF Distinct, ToSet
<1>7. s[1] \in ToSet(s)
  BY <1>3 DEF ToSet
<1> QED BY <1>1, <1>5, <1>6, <1>7 DEF t

(* The names in a queue when an element comes. *)
LEMMA AppendNames ==
  ASSUME NEW S, NEW s \in Seq(S), NEW e \in S
  PROVE  /\ Names(Append(s, e)) = Names(s) \cup {e.req}
         /\ DistinctNames(s) /\ e.req \notin Names(s) => DistinctNames(Append(s, e))
<1> DEFINE t == Append(s, e)
<1>1. /\ t \in Seq(S) /\ Len(t) = Len(s) + 1 /\ Len(s) \in Nat
      /\ \A i \in 1..Len(s) : t[i] = s[i]
      /\ t[Len(s) + 1] = e
  BY AppendProperties, LenProperties
<1>2. DOMAIN s = 1..Len(s) /\ DOMAIN t = 1..(Len(s) + 1)
  BY <1>1, LenProperties
<1> HIDE DEF t
<1>3. PICK n : /\ n \notin DOMAIN s /\ DOMAIN t = DOMAIN s \cup {n} /\ t[n] = e
               /\ \A i \in DOMAIN s : t[i] = s[i]
  <2>1. Len(s) + 1 \notin DOMAIN s /\ DOMAIN t = DOMAIN s \cup {Len(s) + 1}
    BY <1>1, <1>2
  <2> QED BY <1>1, <1>2, <2>1
<1>4. Names(t) = Names(s) \cup {e.req}
  BY <1>3 DEF Names
<1>5. DistinctNames(s) /\ e.req \notin Names(s) => DistinctNames(t)
  BY <1>3 DEF DistinctNames, Names
<1> QED BY <1>4, <1>5 DEF t

(* The names in a queue when the oldest element leaves. *)
LEMMA TailNames ==
  ASSUME NEW S, NEW s \in Seq(S), s # <<>>, DistinctNames(s)
  PROVE  /\ Names(Tail(s)) = Names(s) \ {Head(s).req}
         /\ Head(s).req \in Names(s)
         /\ DistinctNames(Tail(s))
<1> DEFINE t == Tail(s)
<1>1. /\ t \in Seq(S) /\ Len(t) = Len(s) - 1 /\ Len(s) \in Nat /\ Len(s) >= 1
      /\ \A i \in 1..Len(t) : t[i] = s[i + 1]
      /\ Head(s) = s[1]
  BY HeadTailProperties, LenProperties, EmptySeq
<1>2. DOMAIN s = 1..Len(s) /\ DOMAIN t = 1..(Len(s) - 1)
  BY <1>1, LenProperties
<1> HIDE DEF t
<1>3. /\ 1 \in DOMAIN s
      /\ \A i \in DOMAIN t : i \in Nat /\ i + 1 \in DOMAIN s \ {1} /\ t[i] = s[i + 1]
  BY <1>1, <1>2
<1>4. ASSUME NEW i \in DOMAIN s \ {1} PROVE \E j \in DOMAIN t : j + 1 = i
  <2>1. i - 1 \in DOMAIN t /\ (i - 1) + 1 = i
    BY <1>1, <1>2
  <2> QED BY <2>1
<1>5. DistinctNames(t)
  BY <1>3 DEF DistinctNames
<1>6. Names(t) = Names(s) \ {s[1].req}
  BY <1>3, <1>4 DEF DistinctNames, Names
<1>7. s[1].req \in Names(s)
  BY <1>3 DEF Names
<1> QED BY <1>1, <1>5, <1>6, <1>7 DEF t

-----------------------------------------------------------------------------
(* The places a request may be in. *)
Queued == ToSet(reqs)
Held == {held[w] : w \in Workers} \ {NULL}
Waiting == Names(answers)
Delivered == {got[p].req : p \in {q \in Pages : got[q] # NULL}}

(* Each place is apart from the others. *)
Apart ==
  /\ Queued \cap Held = {} /\ Queued \cap Waiting = {} /\ Queued \cap Delivered = {}
  /\ Held \cap Waiting = {} /\ Held \cap Delivered = {} /\ Waiting \cap Delivered = {}

Elsewhere == Queued \cup Held \cup Waiting \cup Delivered

HeldOnce == \A v, w \in Workers : held[v] = held[w] /\ held[v] # NULL => v = w
GotOnce ==
  \A p, q \in Pages : got[p] # NULL /\ got[q] # NULL /\ got[p].req = got[q].req => p = q

(* A page has nothing before its msgrcv returns. *)
NothingYet == \A p \in Pages : pc[p] \in {"new", "send", "wait"} => got[p] = NULL

Requests ==
  /\ \A p \in Elsewhere : Sent(p)
  /\ Apart
  /\ Distinct(reqs) /\ HeldOnce /\ DistinctNames(answers) /\ GotOnce
  /\ NothingYet

LEMMA RequestsMean == Requests <=> OneAnswerPerRequest /\ NothingYet
BY DEF Requests, OneAnswerPerRequest, Elsewhere, Apart, Queued, Held, Waiting, Delivered,
   Distinct, DistinctNames, Names, HeldOnce, GotOnce

(* How far a request has come, by the place it is in. *)
StageByPlace(p) ==
  CASE p \in Queued -> "pending" [] p \in Held -> "taken"
    [] p \in Waiting \cup Delivered -> "answered"
    [] ~Sent(p) -> "none" [] OTHER -> "lost"

LEMMA StageIs ==
  ASSUME NEW p \in Pages
  PROVE  Stage(p) = StageByPlace(p) /\ Stage(p)' = StageByPlace(p)'
<1>1. /\ p \in Held <=> \E w \in Workers : held[w] = p
      /\ p \in Held' <=> \E w \in Workers : held'[w] = p
  BY DEF Held
<1>2. /\ p \in Delivered <=> \E q \in Pages : got[q] # NULL /\ got[q].req = p
      /\ p \in Delivered' <=> \E q \in Pages : got'[q] # NULL /\ got'[q].req = p
  BY DEF Delivered
<1>3. /\ p \in Waiting <=> \E i \in DOMAIN answers : answers[i].req = p
      /\ p \in Waiting' <=> \E i \in DOMAIN answers' : answers'[i].req = p
  BY DEF Waiting, Names
<1>4. Stage(p) = StageByPlace(p)
  BY <1>1, <1>2, <1>3 DEF Stage, StageByPlace, Queued, Sent
<1>5. Stage(p)' = StageByPlace(p)'
  BY <1>1, <1>2, <1>3 DEF Stage, StageByPlace, Queued, Sent
<1> QED
  BY <1>4, <1>5

(* Every request that is anywhere is a page's. *)
LEMMA PlacesType ==
  ASSUME TypeOK
  PROVE  Elsewhere \subseteq Pages
<1>1. Queued \subseteq Pages
  BY DEF TypeOK, Queued, ToSet
<1>2. Held \subseteq Pages
  BY DEF TypeOK, Held
<1>3. Waiting \subseteq Pages
  <2>1. \A i \in DOMAIN answers : answers[i] \in Answer
    BY DEF TypeOK
  <2> QED
    BY <2>1 DEF Waiting, Names, Answer
<1>4. Delivered \subseteq Pages
  BY DEF TypeOK, Delivered, Answer
<1> QED
  BY <1>1, <1>2, <1>3, <1>4 DEF Elsewhere
-----------------------------------------------------------------------------
(* What each kind of step does to the places.  First, those that move no   *)
(* request: a page goes on, but never back to before its msgsnd.           *)
Idle ==
  /\ UNCHANGED <<reqs, answers, held, got>>
  /\ \A p \in Pages : Sent(p) => Sent(p)'
  /\ NothingYet'

LEMMA IdlePlaces ==
  ASSUME Idle
  PROVE  UNCHANGED <<Queued, Held, Waiting, Delivered>>
BY DEF Idle, Queued, Held, Waiting, Delivered, Names

LEMMA IdleSteps ==
  ASSUME TypeOK, Requests, NEW p \in Pages,
         \/ Open(p) \/ CallFails(p) \/ Answered(p) \/ Exit(p)
         \/ handler(p) /\ reqs' = reqs
  PROVE  /\ Idle
         /\ \A q \in Pages : Sent(q)' <=> (Sent(q) \/ (CallFails(p) /\ q = p))
<1>1. UNCHANGED <<reqs, answers, held, got>>
  BY DEF Open, CallFails, Answered, Exit, handler
<1>2. CASE Open(p)
  BY <1>1, <1>2 DEF Open, Goto, TypeOK, Requests, NothingYet, Sent, Idle, CallFails
<1>3. CASE CallFails(p)
  <2>1. got[p] = NULL
    BY <1>3 DEF CallFails, Requests, NothingYet
  <2> QED
    BY <1>1, <1>3, <2>1 DEF CallFails, Goto, TypeOK, Requests, NothingYet, Sent, Idle
<1>4. CASE Answered(p) \/ Exit(p) \/ (handler(p) /\ reqs' = reqs)
  BY <1>1, <1>4 DEF Answered, Exit, handler, Goto, TypeOK, Requests, NothingYet, Sent, Idle, CallFails
<1> QED
  BY <1>2, <1>3, <1>4

LEMMA SendPlaces ==
  ASSUME TypeOK, Requests, NEW p \in Pages, Send(p)
  PROVE  /\ p \notin Elsewhere /\ ~Sent(p)
         /\ Queued' = Queued \cup {p} /\ UNCHANGED <<Held, Waiting, Delivered>>
         /\ \A q \in Pages : Sent(q)' <=> Sent(q) \/ q = p
         /\ Requests'
<1>1. pc[p] = "send" /\ pc' = [pc EXCEPT ![p] = "wait"] /\ UNCHANGED <<answers, held, got>>
  BY DEF Send, Goto
<1>2. p \notin Elsewhere /\ ~Sent(p)
  BY <1>1 DEF Requests, Sent
<1>3. Queued' = Queued \cup {p} /\ Distinct(reqs')
  BY <1>2, AppendDistinct DEF TypeOK, Send, Requests, Elsewhere, Queued
<1>4. UNCHANGED <<Held, Waiting, Delivered>>
  BY <1>1 DEF Held, Waiting, Delivered, Names
<1>5. \A q \in Pages : Sent(q)' <=> Sent(q) \/ q = p
  BY <1>1 DEF TypeOK, Sent
<1>6. Apart' /\ \A q \in Elsewhere' : Sent(q)'
  BY <1>2, <1>3, <1>4, <1>5, PlacesType DEF Requests, Apart, Elsewhere
<1>7. NothingYet'
  BY <1>1 DEF TypeOK, Requests, NothingYet
<1> QED
  BY <1>1, <1>2, <1>3, <1>4, <1>5, <1>6, <1>7 DEF Requests, HeldOnce, GotOnce

(* The oldest answer goes to a page that has none. *)
LEMMA ReceivePlaces ==
  ASSUME TypeOK, Requests, NEW p \in Pages, Receive(p)
  PROVE  /\ Waiting' \cup Delivered' = Waiting \cup Delivered
         /\ UNCHANGED <<Queued, Held>>
         /\ \A q \in Pages : Sent(q)' <=> Sent(q)
         /\ Requests'
<1> DEFINE a == Head(answers)
<1>1. /\ pc[p] = "wait" /\ pc' = [pc EXCEPT ![p] = "got"]
      /\ got[p] = NULL /\ got' = [got EXCEPT ![p] = a]
      /\ answers # <<>> /\ answers' = Tail(answers) /\ UNCHANGED <<reqs, held>>
  BY DEF Receive, Goto, Requests, NothingYet
<1>2. a \in Answer
  BY <1>1, HeadTailProperties DEF TypeOK
<1>3. Waiting' = Waiting \ {a.req} /\ a.req \in Waiting /\ DistinctNames(answers')
  BY <1>1, TailNames DEF TypeOK, Requests, Waiting
<1>4. a # NULL
  BY <1>2 DEF CgiQueueAssumption
<1> HIDE DEF a
<1>5. \A q \in Pages : got'[q] = IF q = p THEN a ELSE got[q]
  BY <1>1 DEF TypeOK
<1>6. Delivered' = Delivered \cup {a.req}
  BY <1>1, <1>4, <1>5 DEF Delivered
<1>7. UNCHANGED <<Queued, Held>>
  BY <1>1 DEF Queued, Held
<1>8. \A q \in Pages : Sent(q)' <=> Sent(q)
  BY <1>1 DEF TypeOK, Sent
<1>9. Apart' /\ \A q \in Elsewhere' : Sent(q)'
  BY <1>3, <1>6, <1>7, <1>8, PlacesType DEF Requests, Apart, Elsewhere
<1>10. GotOnce'
  <2>1. a.req \notin Delivered
    BY <1>3 DEF Requests, Apart
  <2>2. \A q \in Pages : got[q] # NULL => got[q].req # a.req
    BY <2>1 DEF Delivered
  <2> QED
    BY <1>5, <2>2 DEF Requests, GotOnce
<1>11. NothingYet'
  BY <1>1 DEF TypeOK, Requests, NothingYet
<1> QED
  BY <1>1, <1>3, <1>6, <1>7, <1>8, <1>9, <1>10, <1>11 DEF Requests, HeldOnce, a

(* A page whose alarm goes off throws the oldest request away. *)
LEMMA TimeoutPlaces ==
  ASSUME TypeOK, Requests, NEW p \in Pages, handler(p), reqs' # reqs
  PROVE  /\ reqs # <<>> /\ reqs' = Tail(reqs) /\ Head(reqs) \in Queued
         /\ Queued' = Queued \ {Head(reqs)} /\ UNCHANGED <<Held, Waiting, Delivered>>
         /\ \A q \in Pages : Sent(q)' <=> Sent(q)
         /\ Requests'
<1>1. /\ pc[p] \in {"wait", "got", "printed"} /\ pc' = [pc EXCEPT ![p] = "done"]
      /\ reqs # <<>> /\ reqs' = Tail(reqs) /\ UNCHANGED <<answers, held, got>>
  BY DEF handler, Goto
<1>2. Queued' = Queued \ {Head(reqs)} /\ Head(reqs) \in Queued /\ Distinct(reqs')
  BY <1>1, TailDistinct DEF TypeOK, Requests, Queued
<1>3. UNCHANGED <<Held, Waiting, Delivered>>
  BY <1>1 DEF Held, Waiting, Delivered, Names
<1>4. \A q \in Pages : Sent(q)' <=> Sent(q)
  BY <1>1 DEF TypeOK, Sent
<1>5. Apart' /\ \A q \in Elsewhere' : Sent(q)'
  BY <1>2, <1>3, <1>4, PlacesType DEF Requests, Apart, Elsewhere
<1>6. NothingYet'
  BY <1>1 DEF TypeOK, Requests, NothingYet
<1> QED
  BY <1>1, <1>2, <1>3, <1>4, <1>5, <1>6 DEF Requests, HeldOnce, GotOnce

LEMMA TakePlaces ==
  ASSUME TypeOK, Requests, NEW w \in Workers, Take(w)
  PROVE  /\ reqs # <<>> /\ reqs' = Tail(reqs) /\ Head(reqs) \in Queued
         /\ Queued' = Queued \ {Head(reqs)} /\ Held' = Held \cup {Head(reqs)}
         /\ UNCHANGED <<Waiting, Delivered, pc>>
         /\ Requests'
<1> DEFINE r == Head(reqs)
<1>1. /\ held[w] = NULL /\ held' = [held EXCEPT ![w] = r]
      /\ reqs # <<>> /\ reqs' = Tail(reqs) /\ UNCHANGED <<answers, got, pc>>
  BY DEF Take
<1>2. Queued' = Queued \ {r} /\ r \in Queued /\ Distinct(reqs')
  BY <1>1, TailDistinct DEF TypeOK, Requests, Queued
<1>3. r # NULL
  BY <1>1, HeadTailProperties DEF TypeOK, CgiQueueAssumption
<1> HIDE DEF r
<1>4. \A v \in Workers : held'[v] = IF v = w THEN r ELSE held[v]
  BY <1>1 DEF TypeOK
<1>5. Held' = Held \cup {r}
  BY <1>1, <1>3, <1>4 DEF Held
<1>6. UNCHANGED <<Waiting, Delivered>>
  BY <1>1 DEF Waiting, Delivered, Names
<1>7. Apart' /\ \A q \in Elsewhere' : Sent(q)'
  BY <1>1, <1>2, <1>5, <1>6 DEF Requests, Apart, Elsewhere, Sent
<1>8. HeldOnce'
  <2>1. \A v \in Workers : held[v] # r
    BY <1>2, <1>3 DEF Requests, Apart, Held
  <2> QED
    BY <1>4, <2>1 DEF Requests, HeldOnce
<1>9. NothingYet' /\ GotOnce' /\ DistinctNames(answers')
  BY <1>1 DEF Requests, NothingYet, GotOnce
<1> QED
  BY <1>1, <1>2, <1>5, <1>6, <1>7, <1>8, <1>9 DEF Requests, r

(* A thread lets go of its request: by answering it, or by ending. *)
LEMMA LetGo ==
  ASSUME TypeOK, Requests, NEW w \in Workers, held[w] # NULL, held' = [held EXCEPT ![w] = NULL]
  PROVE  held[w] \in Pages /\ held[w] \in Held /\ Held' = Held \ {held[w]} /\ HeldOnce'
<1>1. \A v \in Workers : held'[v] = IF v = w THEN NULL ELSE held[v]
  BY DEF TypeOK
<1>2. \A v \in Workers : held[v] = held[w] => v = w
  BY DEF Requests, HeldOnce
<1>3. Held' = Held \ {held[w]} /\ held[w] \in Held
  BY <1>1, <1>2 DEF Held
<1>4. HeldOnce'
  BY <1>1 DEF Requests, HeldOnce
<1> QED
  BY <1>3, <1>4 DEF TypeOK

LEMMA ReplyPlaces ==
  ASSUME TypeOK, Requests, NEW w \in Workers, Reply(w)
  PROVE  /\ held[w] \in Pages /\ held[w] \in Held /\ Held' = Held \ {held[w]}
         /\ Waiting' = Waiting \cup {held[w]} /\ UNCHANGED <<Queued, Delivered, pc, reqs>>
         /\ Requests'
<1>1. /\ held[w] # NULL /\ held' = [held EXCEPT ![w] = NULL] /\ UNCHANGED <<reqs, got, pc>>
  BY DEF Reply
<1>2. held[w] \in Pages /\ held[w] \in Held /\ Held' = Held \ {held[w]} /\ HeldOnce'
  BY <1>1, LetGo
<1>3. PICK f \in {0, 1} : answers' = Append(answers, [req |-> held[w], flags |-> f])
  BY DEF Reply
<1> DEFINE e == [req |-> held[w], flags |-> f]
<1>4. e \in Answer /\ e.req = held[w] /\ answers' = Append(answers, e) /\ answers \in Seq(Answer)
  BY <1>2, <1>3 DEF Answer, TypeOK
<1> HIDE DEF e
<1>5. Waiting' = Waiting \cup {held[w]}
  BY <1>4, AppendNames DEF Waiting
<1>6. DistinctNames(answers')
  <2>1. held[w] \notin Names(answers)
    BY <1>2 DEF Requests, Apart, Waiting
  <2> QED
    BY <1>4, <2>1, AppendNames DEF Requests
<1>7. UNCHANGED <<Queued, Delivered>>
  BY <1>1 DEF Queued, Delivered
<1>8. Apart' /\ \A q \in Elsewhere' : Sent(q)'
  BY <1>1, <1>2, <1>5, <1>7 DEF Requests, Apart, Elsewhere, Sent
<1>9. NothingYet' /\ GotOnce' /\ Distinct(reqs')
  BY <1>1 DEF Requests, NothingYet, GotOnce
<1> QED
  BY <1>1, <1>2, <1>5, <1>6, <1>7, <1>8, <1>9 DEF Requests

LEMMA EndsPlaces ==
  ASSUME TypeOK, Requests, NEW w \in Workers, WorkerEnds(w)
  PROVE  /\ held[w] \in Pages /\ held[w] \in Held /\ Held' = Held \ {held[w]}
         /\ UNCHANGED <<Queued, Waiting, Delivered, pc, reqs>>
         /\ Requests'
<1>1. /\ held[w] # NULL /\ held' = [held EXCEPT ![w] = NULL] /\ UNCHANGED <<reqs, answers, got, pc>>
  BY DEF WorkerEnds
<1>2. held[w] \in Pages /\ held[w] \in Held /\ Held' = Held \ {held[w]} /\ HeldOnce'
  BY <1>1, LetGo
<1>3. UNCHANGED <<Queued, Waiting, Delivered>>
  BY <1>1 DEF Queued, Waiting, Delivered, Names
<1>4. Apart' /\ \A q \in Elsewhere' : Sent(q)'
  BY <1>1, <1>2, <1>3 DEF Requests, Apart, Elsewhere, Sent
<1>5. NothingYet' /\ GotOnce' /\ Distinct(reqs') /\ DistinctNames(answers')
  BY <1>1 DEF Requests, NothingYet, GotOnce
<1> QED
  BY <1>1, <1>2, <1>3, <1>4, <1>5 DEF Requests

LEMMA RemovePlaces ==
  ASSUME TypeOK, Requests, RemoveQueue
  PROVE  /\ Queued' = {} /\ Held' = {} /\ Waiting' = {} /\ UNCHANGED <<Delivered, pc>>
         /\ reqs' = <<>>
         /\ Requests'
<1>1. /\ reqs' = <<>> /\ answers' = <<>> /\ held' = [w \in Workers |-> NULL]
      /\ UNCHANGED <<pc, got>>
  BY DEF RemoveQueue
<1>2. DOMAIN reqs' = {} /\ DOMAIN answers' = {} /\ \A w \in Workers : held'[w] = NULL
  BY <1>1
<1>3. Queued' = {} /\ Waiting' = {}
  BY <1>2 DEF Queued, Waiting, ToSet, Names
<1>4. Held' = {}
  BY <1>2 DEF Held
<1>5. Delivered' = Delivered
  BY <1>1 DEF Delivered
<1>6. Apart' /\ \A q \in Elsewhere' : Sent(q)'
  BY <1>1, <1>3, <1>4, <1>5 DEF Requests, Apart, Elsewhere, Sent
<1>7. NothingYet' /\ GotOnce'
  BY <1>1 DEF Requests, NothingYet, GotOnce
<1>8. Distinct(reqs') /\ DistinctNames(answers') /\ HeldOnce'
  BY <1>2 DEF Distinct, DistinctNames, HeldOnce
<1> QED
  BY <1>1, <1>3, <1>4, <1>5, <1>6, <1>7, <1>8 DEF Requests
-----------------------------------------------------------------------------
(* The kinds of step there are. *)
Quiet(p) ==
  \/ Open(p) \/ CallFails(p) \/ Answered(p) \/ Exit(p)
  \/ handler(p) /\ reqs' = reqs

LEMMA Kinds ==
  ASSUME [Next]_vars
  PROVE  \/ UNCHANGED vars \/ RemoveQueue
         \/ \E p \in Pages : Quiet(p) \/ Send(p) \/ Receive(p) \/ (handler(p) /\ reqs' # reqs)
         \/ \E w \in Workers : Take(w) \/ Reply(w) \/ WorkerEnds(w)
BY DEF Next, PageStep, Quiet

LEMMA RequestsInit == Init => Requests
<1> SUFFICES ASSUME Init PROVE Requests
  OBVIOUS
<1>1. /\ DOMAIN reqs = {} /\ DOMAIN answers = {}
      /\ \A w \in Workers : held[w] = NULL
      /\ \A p \in Pages : got[p] = NULL
  BY DEF Init
<1>2. Queued = {} /\ Waiting = {}
  BY <1>1 DEF Queued, Waiting, ToSet, Names
<1>3. Held = {} /\ Delivered = {}
  BY <1>1 DEF Held, Delivered
<1> QED
  BY <1>1, <1>2, <1>3 DEF Requests, Elsewhere, Apart, Distinct, DistinctNames, HeldOnce, GotOnce,
     NothingYet

LEMMA RequestsStep ==
  ASSUME TypeOK, Requests, [Next]_vars
  PROVE  Requests'
<1>1. ASSUME NEW p \in Pages, Quiet(p) PROVE Requests'
  <2>1. Idle
    BY <1>1, IdleSteps DEF Quiet
  <2>2. UNCHANGED <<Queued, Held, Waiting, Delivered>>
    BY <2>1, IdlePlaces
  <2>3. Apart' /\ \A q \in Elsewhere' : Sent(q)'
    BY <2>1, <2>2, PlacesType DEF Requests, Apart, Elsewhere, Idle
  <2> QED
    BY <2>1, <2>3 DEF Requests, Idle, HeldOnce, GotOnce
<1>2. CASE UNCHANGED vars
  <2>1. UNCHANGED <<Queued, Held, Waiting, Delivered>>
    BY <1>2 DEF vars, Queued, Held, Waiting, Delivered, Names
  <2> QED
    BY <1>2, <2>1 DEF vars, Requests, Apart, Elsewhere, Sent, HeldOnce, GotOnce, NothingYet
<1> QED
  BY <1>1, <1>2, Kinds, SendPlaces, ReceivePlaces, TimeoutPlaces, TakePlaces, ReplyPlaces, EndsPlaces,
     RemovePlaces

(* Each request is in one place: in the queue, with one thread, or         *)
(* answered once, the answer being in the queue or with one page.          *)
THEOREM AnsweredOnce == Spec => []OneAnswerPerRequest
<1>1. Init => Requests
  BY RequestsInit
<1>2. TypeOK /\ Requests /\ [Next]_vars => Requests'
  BY RequestsStep
<1>3. Requests => OneAnswerPerRequest
  BY RequestsMean
<1> QED
  BY <1>1, <1>2, <1>3, TypeCorrect, PTL DEF Spec
-----------------------------------------------------------------------------
(* One request moves, all others stay where they are. *)
LEMMA OneMoves ==
  ASSUME NEW r \in Pages, NEW from, NEW to,
         StageByPlace(r) = from, StageByPlace(r)' = to,
         \A q \in Pages \ {r} : StageByPlace(q)' = StageByPlace(q)
  PROVE  Abstract!Move(r, from, to)
<1>1. \A q \in Pages : Stage(q) = StageByPlace(q) /\ Stage(q)' = StageByPlace(q)'
  BY StageIs
<1> QED
  BY <1>1 DEF Abstract!Move

(* Nothing moves. *)
LEMMA NoneMoves ==
  ASSUME reqs' = reqs, \A q \in Pages : StageByPlace(q)' = StageByPlace(q)
  PROVE  UNCHANGED Abstract!vars
<1>1. \A q \in Pages : Stage(q) = StageByPlace(q) /\ Stage(q)' = StageByPlace(q)'
  BY StageIs
<1> QED
  BY <1>1 DEF Abstract!vars

(* Each step is a step of Channel, or none. *)
LEMMA ChannelStep ==
  ASSUME TypeOK, Requests, [Next]_vars
  PROVE  [Abstract!Next]_(Abstract!vars)
<1>0. Apart /\ \A q \in Elsewhere : Sent(q)
  BY DEF Requests
<1>1. ASSUME NEW p \in Pages, Quiet(p) PROVE [Abstract!Next]_(Abstract!vars)
  <2>1. /\ UNCHANGED <<reqs, Queued, Held, Waiting, Delivered>>
        /\ \A q \in Pages : Sent(q)' <=> (Sent(q) \/ (CallFails(p) /\ q = p))
    BY <1>1, IdleSteps, IdlePlaces DEF Quiet, Idle
  <2>2. CASE CallFails(p) /\ ~Sent(p)
    <3>1. StageByPlace(p) = "none" /\ StageByPlace(p)' = "lost"
      BY <1>0, <2>1, <2>2 DEF StageByPlace, Elsewhere
    <3>2. \A q \in Pages \ {p} : StageByPlace(q)' = StageByPlace(q)
      BY <2>1 DEF StageByPlace
    <3>3. Abstract!Move(p, "none", "lost")
      BY <3>1, <3>2, OneMoves
    <3> QED
      BY <2>1, <3>3 DEF Abstract!Next, Abstract!Fail
  <2>3. CASE ~(CallFails(p) /\ ~Sent(p))
    <3>1. \A q \in Pages : StageByPlace(q)' = StageByPlace(q)
      BY <2>1, <2>3 DEF StageByPlace
    <3> QED
      BY <2>1, <3>1, NoneMoves
  <2> QED
    BY <2>2, <2>3
<1>2. ASSUME NEW p \in Pages, Send(p) PROVE Abstract!Next
  <2>1. /\ p \notin Elsewhere /\ ~Sent(p)
        /\ Queued' = Queued \cup {p} /\ UNCHANGED <<Held, Waiting, Delivered>>
        /\ \A q \in Pages : Sent(q)' <=> Sent(q) \/ q = p
    BY <1>2, SendPlaces
  <2>2. StageByPlace(p) = "none" /\ StageByPlace(p)' = "pending"
    BY <2>1 DEF StageByPlace, Elsewhere
  <2>3. \A q \in Pages \ {p} : StageByPlace(q)' = StageByPlace(q)
    BY <2>1 DEF StageByPlace
  <2>4. Abstract!Move(p, "none", "pending")
    BY <2>2, <2>3, OneMoves
  <2>5. reqs' = Append(reqs, p)
    BY <1>2 DEF Send
  <2> QED
    BY <2>4, <2>5 DEF Abstract!Next, Abstract!Ask
<1>3. ASSUME NEW p \in Pages, Receive(p) PROVE UNCHANGED Abstract!vars
  <2>1. /\ Waiting' \cup Delivered' = Waiting \cup Delivered
        /\ UNCHANGED <<Queued, Held>> /\ \A q \in Pages : Sent(q)' <=> Sent(q)
    BY <1>3, ReceivePlaces
  <2>2. \A q \in Pages : StageByPlace(q)' = StageByPlace(q)
    BY <2>1 DEF StageByPlace
  <2> QED
    BY <1>3, <2>2, NoneMoves DEF Receive
<1>4. ASSUME NEW p \in Pages, handler(p), reqs' # reqs PROVE Abstract!Next
  <2>1. PICK r \in Pages : r = Head(reqs)
    BY <1>4, TimeoutPlaces, PlacesType DEF Elsewhere
  <2>2. /\ reqs # <<>> /\ reqs' = Tail(reqs) /\ r \in Queued
        /\ Queued' = Queued \ {r} /\ UNCHANGED <<Held, Waiting, Delivered>>
        /\ \A q \in Pages : Sent(q)' <=> Sent(q)
    BY <1>4, <2>1, TimeoutPlaces
  <2>3. StageByPlace(r) = "pending" /\ StageByPlace(r)' = "lost"
    BY <1>0, <2>2 DEF StageByPlace, Apart, Elsewhere
  <2>4. \A q \in Pages \ {r} : StageByPlace(q)' = StageByPlace(q)
    BY <2>2 DEF StageByPlace
  <2>5. Abstract!Move(r, "pending", "lost")
    BY <2>3, <2>4, OneMoves
  <2> QED
    BY <2>1, <2>2, <2>5 DEF Abstract!Next, Abstract!Leave
<1>5. ASSUME NEW w \in Workers, Take(w) PROVE Abstract!Next
  <2>1. PICK r \in Pages : r = Head(reqs)
    BY <1>5, TakePlaces, PlacesType DEF Elsewhere
  <2>2. /\ reqs # <<>> /\ reqs' = Tail(reqs) /\ r \in Queued
        /\ Queued' = Queued \ {r} /\ Held' = Held \cup {r}
        /\ UNCHANGED <<Waiting, Delivered, pc>>
    BY <1>5, <2>1, TakePlaces
  <2>3. StageByPlace(r) = "pending" /\ StageByPlace(r)' = "taken"
    <3>1. Sent(r) /\ r \notin Held \cup Waiting \cup Delivered
      BY <1>0, <2>2 DEF Apart, Elsewhere
    <3>2. Sent(r)' /\ r \in Held' /\ r \notin Queued' \cup Waiting' \cup Delivered'
      BY <2>2, <3>1 DEF Sent
    <3> QED
      BY <2>2, <3>1, <3>2 DEF StageByPlace
  <2>4. \A q \in Pages \ {r} : StageByPlace(q)' = StageByPlace(q)
    BY <2>2 DEF StageByPlace, Sent
  <2>5. Abstract!Move(r, "pending", "taken")
    BY <2>3, <2>4, OneMoves
  <2> QED
    BY <2>1, <2>2, <2>5 DEF Abstract!Next, Abstract!Leave
<1>6. ASSUME NEW w \in Workers, Reply(w) PROVE Abstract!Next
  <2>0. PICK r \in Pages : r = held[w]
    BY <1>6, ReplyPlaces
  <2>1. /\ r \in Pages /\ r \in Held /\ Held' = Held \ {r}
        /\ Waiting' = Waiting \cup {r} /\ UNCHANGED <<Queued, Delivered, pc, reqs>>
    BY <1>6, <2>0, ReplyPlaces
  <2>2. StageByPlace(r) = "taken" /\ StageByPlace(r)' = "answered"
    <3>1. Sent(r) /\ r \notin Queued \cup Waiting \cup Delivered
      BY <1>0, <2>1 DEF Apart, Elsewhere
    <3>2. Sent(r)' /\ r \in Waiting' /\ r \notin Queued' \cup Held'
      BY <2>1, <3>1 DEF Sent
    <3> QED
      BY <2>1, <3>1, <3>2 DEF StageByPlace
  <2>3. \A q \in Pages \ {r} : StageByPlace(q)' = StageByPlace(q)
    BY <2>1 DEF StageByPlace, Sent
  <2>4. Abstract!Move(r, "taken", "answered")
    BY <2>1, <2>2, <2>3, OneMoves
  <2> QED
    BY <2>1, <2>4 DEF Abstract!Next, Abstract!Answer
<1>7. ASSUME NEW w \in Workers, WorkerEnds(w) PROVE Abstract!Next
  <2>0. PICK r \in Pages : r = held[w]
    BY <1>7, EndsPlaces
  <2>1. /\ r \in Pages /\ r \in Held /\ Held' = Held \ {r}
        /\ UNCHANGED <<Queued, Waiting, Delivered, pc, reqs>>
    BY <1>7, <2>0, EndsPlaces
  <2>2. StageByPlace(r) = "taken" /\ StageByPlace(r)' = "lost"
    BY <1>0, <2>1 DEF StageByPlace, Apart, Elsewhere, Sent
  <2>3. \A q \in Pages \ {r} : StageByPlace(q)' = StageByPlace(q)
    BY <2>1 DEF StageByPlace, Sent
  <2>4. Abstract!Move(r, "taken", "lost")
    BY <2>1, <2>2, <2>3, OneMoves
  <2> QED
    BY <2>1, <2>4 DEF Abstract!Next, Abstract!Drop
<1>8. ASSUME RemoveQueue PROVE Abstract!Next
  <2>1. /\ Queued' = {} /\ Held' = {} /\ Waiting' = {} /\ UNCHANGED <<Delivered, pc>>
        /\ reqs' = <<>>
    BY <1>8, RemovePlaces
  <2>2. \A q \in Pages : Stage(q) = StageByPlace(q) /\ Stage(q)' = StageByPlace(q)'
    BY StageIs
  <2> DEFINE S == {q \in Pages : q \in Waiting}
  <2>3. S \in SUBSET {q \in Pages : Stage(q) = "answered"}
    <3>1. ASSUME NEW q \in Pages, q \in Waiting PROVE StageByPlace(q) = "answered"
      <4>1. Sent(q) /\ q \notin Queued \cup Held
        BY <1>0, <3>1 DEF Apart, Elsewhere
      <4> QED
        BY <3>1, <4>1 DEF StageByPlace
    <3> QED
      BY <2>2, <3>1
  <2>4. \A q \in Pages : Stage(q)' = IF Stage(q) \in {"pending", "taken"} \/ q \in S
                                     THEN "lost" ELSE Stage(q)
    BY <1>0, <2>1, <2>2 DEF StageByPlace, Apart, Elsewhere, Sent
  <2> HIDE DEF S
  <2>5. Abstract!Remove
    BY <2>1, <2>3, <2>4 DEF Abstract!Remove
  <2> QED
    BY <2>5 DEF Abstract!Next
<1>9. ASSUME UNCHANGED vars PROVE UNCHANGED Abstract!vars
  <2>1. \A q \in Pages : StageByPlace(q)' = StageByPlace(q)
    BY <1>9 DEF vars, StageByPlace, Queued, Held, Waiting, Delivered, Names, Sent
  <2> QED
    BY <1>9, <2>1, NoneMoves DEF vars
<1> QED
  BY <1>1, <1>2, <1>3, <1>4, <1>5, <1>6, <1>7, <1>8, <1>9, Kinds

(* The pages, the threads and the alarms keep the promise of Channel:      *)
(* requests are taken in turn, and each is answered at most once, however  *)
(* late the answers are and whenever the queue is removed.                 *)
THEOREM QueueKeepsChannel == Spec => ChannelKept
<1>1. Init => Abstract!Init
  <2> SUFFICES ASSUME Init PROVE Abstract!Init
    OBVIOUS
  <2>1. Elsewhere = {}
    <3>1. \A q \in Pages : ~Sent(q)
      BY DEF Init, Sent
    <3> QED
      BY <3>1, RequestsInit, TypeInit, PlacesType DEF Requests
  <2>2. \A q \in Pages : StageByPlace(q) = "none"
    BY <2>1 DEF Init, StageByPlace, Elsewhere, Sent
  <2>3. \A q \in Pages : Stage(q) = "none"
    BY <2>2, StageIs
  <2> QED
    BY <2>3 DEF Init, Abstract!Init
<1>2. TypeOK /\ Requests /\ [Next]_vars => [Abstract!Next]_(Abstract!vars)
  BY ChannelStep
<1>3. Init => Requests
  BY RequestsInit
<1>4. TypeOK /\ Requests /\ [Next]_vars => Requests'
  BY RequestsStep
<1> QED
  BY <1>1, <1>2, <1>3, <1>4, TypeCorrect, PTL DEF Spec, ChannelKept, Abstract!Spec
=============================================================================
