--------------------------- MODULE AccountsProofs ---------------------------
(***************************************************************************)
(* Theorems about Login and Accounts, for any numbers of pages and users   *)
(* and any capacity of the queue.                                          *)
(***************************************************************************)
EXTENDS Accounts, SequenceTheorems, FiniteSetTheorems, TLAPS

USE LoginAssumption DEF LoginAssumption

(* What taking the oldest message does to a queue. *)
LEMMA Taken ==
  ASSUME NEW S, NEW q \in Seq(S), q # <<>>
  PROVE  /\ Head(q) \in S /\ Tail(q) \in Seq(S)
         /\ Len(q) \in Nat /\ Len(Tail(q)) = Len(q) - 1
         /\ \A i \in DOMAIN Tail(q) : i + 1 \in DOMAIN q /\ Tail(q)[i] = q[i + 1]
         /\ 1 \in DOMAIN q /\ Head(q) = q[1]
BY HeadTailProperties, LenProperties, EmptySeq

(* What a new message does to a queue. *)
LEMMA Added ==
  ASSUME NEW S, NEW q \in Seq(S), NEW e \in S
  PROVE  /\ Append(q, e) \in Seq(S)
         /\ Len(q) \in Nat /\ Len(Append(q, e)) = Len(q) + 1
         /\ \A i \in DOMAIN Append(q, e) : Append(q, e)[i] = e \/ (i \in DOMAIN q /\ Append(q, e)[i] = q[i])
BY AppendProperties, LenProperties

(* Queues are empty and every page is about to start. *)
LEMMA TypeInit == Init => TypeOK
<1> SUFFICES ASSUME Init PROVE TypeOK
  OBVIOUS
<1>1. q1 \in Seq(Users) /\ q2 \in Seq(Messages) /\ Len(q1) = 0 /\ Len(q2) = 0
  BY EmptySeq DEF Init
<1>2. msg \in [Pages -> Messages]
  BY DEF Init, Messages
<1>3. Len(q1) + Len(q2) <= Cap
  BY <1>1
<1>4. pc \in [Pages -> Labels]
  BY DEF Init, Labels
<1>5. busy \in Messages \cup {NULL} /\ online \in BOOLEAN /\ gone \in SUBSET Pages /\ user \in [Pages -> Users]
  BY DEF Init
<1> QED
  BY <1>1, <1>2, <1>3, <1>4, <1>5 DEF TypeOK

(* Every step keeps the state well-typed and the queue within its room. *)
LEMMA TypeStep == TypeOK /\ [Next]_vars => TypeOK'
<1> SUFFICES ASSUME TypeOK, [Next]_vars PROVE TypeOK'
  OBVIOUS
<1> USE DEF TypeOK
<1>0. Len(q1) \in Nat /\ Len(q2) \in Nat
  BY LenProperties
<1>1. ASSUME NEW p \in Pages, Open(p) PROVE TypeOK'
  <2>1. [msgtype |-> 1, username |-> user[p], flags |-> 0] \in Messages
    BY DEF Messages
  <2> QED
    BY <1>1, <2>1 DEF Open, Goto, Labels
<1>2. ASSUME NEW p \in Pages, Send(p) PROVE TypeOK'
  <2>1. q1' \in Seq(Users) /\ Len(q1') = Len(q1) + 1
    BY <1>2, Added DEF Send
  <2> QED
    BY <1>0, <1>2, <2>1 DEF Send, Full, Goto, Labels
<1>3. ASSUME NEW p \in Pages, Receive(p) PROVE TypeOK'
  <2>1. Head(q2) \in Messages /\ q2' \in Seq(Messages) /\ Len(q2') = Len(q2) - 1
    BY <1>3, Taken DEF Receive
  <2> QED
    BY <1>0, <1>3, <2>1 DEF Receive, Goto, Labels
<1>4. ASSUME NEW p \in Pages, CallFails(p) \/ Answered(p) \/ Alarm(p) PROVE TypeOK'
  BY <1>4 DEF CallFails, Answered, Alarm, Goto, Labels
<1>5. ASSUME NEW p \in Pages, HandlerTake(p) PROVE TypeOK'
  <2>1. CASE p \notin gone /\ q1 # <<>>
    <3>1. Head(q1) \in Users /\ Tail(q1) \in Seq(Users) /\ Len(Tail(q1)) = Len(q1) - 1
      BY <2>1, Taken
    <3>2. [msgtype |-> 1, username |-> Head(q1), flags |-> 0] \in Messages
      BY <3>1 DEF Messages
    <3> QED
      BY <1>0, <1>5, <2>1, <3>1, <3>2 DEF HandlerTake, Goto, Labels
  <2>2. CASE ~(p \notin gone /\ q1 # <<>>)
    BY <1>5, <2>2 DEF HandlerTake, Goto, Labels
  <2> QED
    BY <2>1, <2>2
<1>6. ASSUME NEW p \in Pages, HandlerResend(p) PROVE TypeOK'
  <2>1. msg[p] \in Messages /\ msg[p].username \in Users /\ msg[p].msgtype \in {1, 2}
    BY DEF Messages
  <2>2. CASE p \in gone
    BY <1>6, <2>2 DEF HandlerResend, Goto, Labels
  <2>3. CASE p \notin gone /\ msg[p].msgtype = 1
    <3>1. q1' \in Seq(Users) /\ Len(q1') = Len(q1) + 1
      BY <1>6, <2>1, <2>3, Added DEF HandlerResend
    <3> QED
      BY <1>0, <1>6, <2>3, <3>1 DEF HandlerResend, Full, Goto, Labels
  <2>4. CASE p \notin gone /\ msg[p].msgtype = 2
    <3>1. q2' \in Seq(Messages) /\ Len(q2') = Len(q2) + 1
      BY <1>6, <2>1, <2>4, Added DEF HandlerResend
    <3> QED
      BY <1>0, <1>6, <2>4, <3>1 DEF HandlerResend, Full, Goto, Labels
  <2> QED
    BY <2>1, <2>2, <2>3, <2>4
<1>7. CASE ThreadTake
  <2>1. Head(q1) \in Users /\ q1' \in Seq(Users) /\ Len(q1') = Len(q1) - 1
    BY <1>7, Taken DEF ThreadTake
  <2>2. busy' \in Messages
    BY <1>7, <2>1 DEF ThreadTake, Messages
  <2> QED
    BY <1>0, <1>7, <2>1, <2>2 DEF ThreadTake
<1>8. CASE ThreadReply
  <2>1. q2' \in Seq(Messages) /\ Len(q2') = Len(q2) + 1
    BY <1>8, Added DEF ThreadReply
  <2> QED
    BY <1>0, <1>8, <2>1 DEF ThreadReply, Full
<1>9. CASE ListChanges
  BY <1>9 DEF ListChanges
<1>10. CASE RemoveQueue
  <2>1. q1' \in Seq(Users) /\ q2' \in Seq(Messages) /\ Len(q1') = 0 /\ Len(q2') = 0
    BY <1>10, EmptySeq DEF RemoveQueue
  <2>2. Len(q1') + Len(q2') <= Cap
    BY <2>1
  <2>3. UNCHANGED <<user, pc, msg>> /\ busy' \in Messages \cup {NULL} /\ online' \in BOOLEAN /\ gone' \in SUBSET Pages
    BY <1>10 DEF RemoveQueue
  <2> QED
    BY <2>1, <2>2, <2>3
<1>11. CASE UNCHANGED vars
  BY <1>11 DEF vars
<1> QED
  BY <1>1, <1>2, <1>3, <1>4, <1>5, <1>6, <1>7, <1>8, <1>9, <1>10, <1>11 DEF Next, PageStep

(* Type correctness of the login pages, login_thread and their queue.      *)
THEOREM TypeCorrect == Spec => []TypeOK
BY TypeInit, TypeStep, PTL DEF Spec
-----------------------------------------------------------------------------
(* The timeout handler sends again only what is another user's, and with   *)
(* one user only nothing is.                                               *)
Foreign == \A p \in Pages : pc[p] = "resend" => msg[p].username # user[p]

Own ==
  OneUser => \A p \in Pages :
    /\ msg[p].username = user[p]
    /\ \A i \in DOMAIN q1 : q1[i] = user[p]
    /\ \A i \in DOMAIN q2 : q2[i].username = user[p]
    /\ busy # NULL => busy.username = user[p]

LEMMA ForeignInit == Init => Foreign /\ Own
BY EmptySeq DEF Init, Foreign, Own, OneUser

LEMMA ForeignStep == TypeOK /\ [Next]_vars /\ Foreign => Foreign'
<1> SUFFICES ASSUME TypeOK, [Next]_vars, Foreign PROVE Foreign'
  OBVIOUS
<1> USE DEF TypeOK, Foreign
<1>1. ASSUME NEW p \in Pages, HandlerTake(p) PROVE Foreign'
  <2>1. CASE p \notin gone /\ q1 # <<>>
    BY <1>1, <2>1 DEF HandlerTake, Goto
  <2>2. CASE ~(p \notin gone /\ q1 # <<>>)
    BY <1>1, <2>2 DEF HandlerTake, Goto
  <2> QED
    BY <2>1, <2>2
<1>2. ASSUME NEW p \in Pages, Open(p) \/ Send(p) \/ Receive(p) PROVE Foreign'
  BY <1>2 DEF Open, Send, Receive, Goto
<1>3. ASSUME NEW p \in Pages, CallFails(p) \/ Answered(p) \/ HandlerResend(p) \/ Alarm(p)
      PROVE  Foreign'
  BY <1>3 DEF CallFails, Answered, HandlerResend, Alarm, Goto
<1>4. CASE ThreadTake \/ ThreadReply \/ ListChanges \/ RemoveQueue \/ UNCHANGED vars
  BY <1>4 DEF ThreadTake, ThreadReply, ListChanges, RemoveQueue, vars
<1> QED
  BY <1>1, <1>2, <1>3, <1>4 DEF Next, PageStep

LEMMA OwnStep == TypeOK /\ [Next]_vars /\ Foreign /\ Own => Own'
<1> SUFFICES ASSUME TypeOK, [Next]_vars, Foreign, Own, OneUser', NEW o \in Pages
             PROVE  /\ msg'[o].username = user'[o]
                    /\ \A i \in DOMAIN q1' : q1'[i] = user'[o]
                    /\ \A i \in DOMAIN q2' : q2'[i].username = user'[o]
                    /\ busy' # NULL => busy'.username = user'[o]
  BY DEF Own
<1> USE DEF TypeOK
<1>0. user' = user
  BY DEF Next, PageStep, Open, Send, Receive, CallFails, Answered, HandlerTake, HandlerResend,
         Alarm, ThreadTake, ThreadReply, ListChanges, RemoveQueue, vars
<1>a. OneUser /\ \A p \in Pages : user[p] = user[o]
  BY <1>0 DEF OneUser
<1>b. /\ \A p \in Pages : msg[p].username = user[o]
      /\ \A i \in DOMAIN q1 : q1[i] = user[o]
      /\ \A i \in DOMAIN q2 : q2[i].username = user[o]
      /\ busy # NULL => busy.username = user[o]
  BY <1>a DEF Own
<1>1. ASSUME NEW p \in Pages, Open(p) PROVE msg'[o].username = user[o]
  BY <1>1, <1>a, <1>b DEF Open
<1>2. ASSUME NEW p \in Pages, Send(p) PROVE \A i \in DOMAIN q1' : q1'[i] = user[o]
  BY <1>2, <1>a, <1>b, Added DEF Send
<1>3. ASSUME NEW p \in Pages, Receive(p)
      PROVE  msg'[o].username = user[o] /\ \A i \in DOMAIN q2' : q2'[i].username = user[o]
  BY <1>3, <1>b, Taken DEF Receive
<1>4. ASSUME NEW p \in Pages, HandlerTake(p)
      PROVE  msg'[o].username = user[o] /\ \A i \in DOMAIN q1' : q1'[i] = user[o]
  <2>1. CASE p \notin gone /\ q1 # <<>>
    BY <1>4, <2>1, <1>b, Taken DEF HandlerTake
  <2>2. CASE ~(p \notin gone /\ q1 # <<>>)
    BY <1>4, <2>2, <1>b DEF HandlerTake
  <2> QED
    BY <2>1, <2>2
<1>5. ASSUME NEW p \in Pages PROVE ~HandlerResend(p)
  BY <1>a, <1>b DEF HandlerResend, Foreign
<1>6. CASE ThreadTake
  <2>1. Head(q1) = user[o] /\ \A i \in DOMAIN q1' : q1'[i] = user[o]
    BY <1>6, <1>b, Taken DEF ThreadTake
  <2> QED
    BY <1>0, <1>6, <1>b, <2>1 DEF ThreadTake
<1>7. CASE ThreadReply
  <2>1. \A i \in DOMAIN q2' : q2'[i].username = user[o]
    BY <1>7, <1>b, Added DEF ThreadReply
  <2> QED
    BY <1>0, <1>7, <1>b, <2>1 DEF ThreadReply
<1>8. CASE RemoveQueue
  BY <1>0, <1>8, <1>b, EmptySeq DEF RemoveQueue
<1>9. CASE ListChanges \/ UNCHANGED vars
  BY <1>0, <1>9, <1>b DEF ListChanges, vars
<1>10. ASSUME NEW p \in Pages, PageStep(p) \/ Alarm(p)
       PROVE  /\ msg'[o].username = user'[o]
              /\ \A i \in DOMAIN q1' : q1'[i] = user'[o]
              /\ \A i \in DOMAIN q2' : q2'[i].username = user'[o]
              /\ busy' # NULL => busy'.username = user'[o]
  BY <1>0, <1>1, <1>2, <1>3, <1>4, <1>5, <1>10, <1>b
  DEF PageStep, Open, Send, Receive, HandlerTake, CallFails, Answered, Alarm
<1> QED
  BY <1>6, <1>7, <1>8, <1>9, <1>10 DEF Next
-----------------------------------------------------------------------------
(* How the number of messages changes. *)
LEMMA TotalStep ==
  ASSUME TypeOK, [Next]_vars, Foreign
  PROVE  /\ Total \in Nat /\ Total' \in Nat
         /\ \/ Total' <= Total
            \/ \E p \in Pages : Send(p) \/ (HandlerResend(p) /\ msg[p].username # user[p])
         /\ \A p \in Pages : /\ Send(p) => Total' = Total + 1
                             /\ Receive(p) => Total' = Total - 1
         /\ RemoveQueue => Total' = 0
<1> USE DEF TypeOK
<1>0. /\ Len(q1) \in Nat /\ Len(q2) \in Nat /\ Total \in Nat
      /\ Len(q1)' \in Nat /\ Len(q2)' \in Nat /\ Total' \in Nat
  BY TypeStep, LenProperties DEF Total
<1>1. ASSUME NEW p \in Pages, Send(p) PROVE Total' = Total + 1
  BY <1>0, <1>1, Added DEF Send, Total
<1>2. ASSUME NEW p \in Pages, Receive(p) PROVE Total' = Total - 1
  BY <1>0, <1>2, Taken DEF Receive, Total
<1>3. ASSUME NEW p \in Pages, HandlerTake(p) PROVE Total' <= Total
  <2>1. CASE p \notin gone /\ q1 # <<>>
    BY <1>0, <1>3, <2>1, Taken DEF HandlerTake, Total
  <2>2. CASE ~(p \notin gone /\ q1 # <<>>)
    BY <1>0, <1>3, <2>2 DEF HandlerTake, Total
  <2> QED
    BY <2>1, <2>2
<1>4. ASSUME NEW p \in Pages, HandlerResend(p) PROVE msg[p].username # user[p]
  BY <1>4 DEF HandlerResend, Foreign
<1>5. ASSUME NEW p \in Pages, Open(p) \/ CallFails(p) \/ Answered(p) \/ Alarm(p)
      PROVE  Total' = Total
  BY <1>5 DEF Open, CallFails, Answered, Alarm, Total
<1>6. ASSUME ThreadTake PROVE Total' <= Total
  BY <1>0, <1>6, Taken DEF ThreadTake, Total
<1>7. ASSUME ThreadReply PROVE Total' <= Total
  BY <1>0, <1>7, Added DEF ThreadReply, Total
<1>8. ASSUME RemoveQueue PROVE Total' = 0
  BY <1>8, EmptySeq DEF RemoveQueue, Total
<1>9. ASSUME ListChanges \/ UNCHANGED vars PROVE Total' = Total
  BY <1>9 DEF ListChanges, vars, Total
<1>10. Total' <= Total \/ \E p \in Pages : Send(p) \/ (HandlerResend(p) /\ msg[p].username # user[p])
  BY <1>0, <1>2, <1>3, <1>4, <1>5, <1>6, <1>7, <1>8, <1>9 DEF Next, PageStep
<1> QED
  BY <1>0, <1>1, <1>2, <1>8, <1>10

(* Whatever multiplies messages is a timeout handler with another user's. *)
THEOREM OnlyForeignAdds == Spec => OnlyForeignAdd
<1>1. TypeOK /\ Foreign /\ [Next]_vars =>
        [Total' > Total =>
           \E p \in Pages : Send(p) \/ (HandlerResend(p) /\ msg[p].username # user[p])]_vars
  BY TotalStep
<1> QED
  BY <1>1, TypeInit, TypeStep, ForeignInit, ForeignStep, PTL DEF Spec, OnlyForeignAdd
-----------------------------------------------------------------------------
(* Pages that asked and do not hold a reply.  Those of them whose queue    *)
(* was removed have nothing in the queue any more: that makes the bound    *)
(* inductive.  Both sets are finite, however many pages there are.         *)
Away == {"new", "send", "got", "printed", "done"}
Asking == {p \in Pages : pc[p] \notin Away}
Live == {p \in Asking : p \notin gone}

Bound == IsFiniteSet(Asking) /\ (OneUser => Total <= Cardinality(Live))

LEMMA BoundInit == Init => Bound
<1> SUFFICES ASSUME Init PROVE Bound
  OBVIOUS
<1>1. Asking = {} /\ Live = {}
  BY DEF Init, Asking, Live, Away
<1>2. Total = 0
  BY EmptySeq DEF Init, Total
<1> QED
  BY <1>1, <1>2, FS_EmptySet DEF Bound

(* What a page's step does to the two sets. *)
LEMMA PageGoes ==
  ASSUME TypeOK, NEW p \in Pages, NEW l \in Labels, Goto(p, l), gone' = gone
  PROVE  /\ Asking' = IF l \in Away THEN Asking \ {p} ELSE Asking \cup {p}
         /\ Live' = IF l \in Away THEN Live \ {p} ELSE IF p \in gone THEN Live ELSE Live \cup {p}
<1>1. \A q \in Pages : pc'[q] = IF q = p THEN l ELSE pc[q]
  BY DEF TypeOK, Goto
<1> QED
  BY <1>1 DEF Asking, Live

(* Each step of a page goes to some label.  The page is among Live when it *)
(* takes a reply, and was not when it sends.                               *)
LEMMA PageTo ==
  ASSUME TypeOK, NEW p \in Pages, PageStep(p) \/ Alarm(p)
  PROVE  /\ gone' = gone
         /\ \E l \in Labels :
              /\ Goto(p, l)
              /\ l \in Away => Receive(p) \/ p \notin Live
         /\ Send(p) => p \notin gone /\ p \notin Live /\ Goto(p, "wait")
         /\ Receive(p) => p \in Live /\ Goto(p, "got")
<1> USE DEF Labels, Away, Live, Asking
<1>1. CASE Open(p)
  BY <1>1 DEF Open, Send, Receive
<1>2. CASE Send(p)
  BY <1>2 DEF Send, Receive
<1>3. CASE Receive(p)
  BY <1>3 DEF Send, Receive
<1>4. CASE CallFails(p)
  BY <1>4 DEF CallFails, Send, Receive
<1>5. CASE Answered(p)
  BY <1>5 DEF Answered, Send, Receive
<1>6. CASE HandlerTake(p)
  BY <1>6 DEF HandlerTake, Send, Receive
<1>7. CASE HandlerResend(p)
  BY <1>7 DEF HandlerResend, Send, Receive
<1>8. CASE Alarm(p)
  BY <1>8 DEF Alarm, Send, Receive
<1> QED
  BY <1>1, <1>2, <1>3, <1>4, <1>5, <1>6, <1>7, <1>8 DEF PageStep

LEMMA BoundStep == TypeOK /\ [Next]_vars /\ Foreign /\ Own /\ Bound => Bound'
<1> SUFFICES ASSUME TypeOK, [Next]_vars, Foreign, Own, Bound PROVE Bound'
  OBVIOUS
<1>0. user' = user /\ (OneUser' => OneUser)
  BY DEF Next, PageStep, Open, Send, Receive, CallFails, Answered, HandlerTake, HandlerResend,
         Alarm, ThreadTake, ThreadReply, ListChanges, RemoveQueue, vars, OneUser
<1>1. IsFiniteSet(Asking) /\ IsFiniteSet(Live) /\ Cardinality(Live) \in Nat
  BY FS_Subset, FS_CardinalityType DEF Bound, Live
<1>2. Total \in Nat /\ Total' \in Nat
  BY TotalStep
<1>3. ASSUME NEW p \in Pages, PageStep(p) \/ Alarm(p) PROVE Bound'
  <2>1. PICK l \in Labels : /\ Goto(p, l)
                            /\ l \in Away => Receive(p) \/ p \notin Live
    BY <1>3, PageTo
  <2>2. gone' = gone
    BY <1>3, PageTo
  <2>3. /\ Asking' = IF l \in Away THEN Asking \ {p} ELSE Asking \cup {p}
        /\ Live' = IF l \in Away THEN Live \ {p} ELSE IF p \in gone THEN Live ELSE Live \cup {p}
    BY <2>1, <2>2, PageGoes
  <2>4. IsFiniteSet(Asking')
    BY <1>1, <2>3, FS_AddElement, FS_RemoveElement
  <2>5. ASSUME OneUser' PROVE Total' <= Cardinality(Live')
    <3>1. Total <= Cardinality(Live)
      BY <1>0, <2>5 DEF Bound
    <3>2. CASE Send(p)
      <4>1. Live' = Live \cup {p} /\ p \notin Live
        <5>1. Goto(p, "wait") /\ p \notin gone /\ p \notin Live
          BY <1>3, <3>2, PageTo
        <5> QED
          BY <2>2, <5>1, PageGoes DEF Labels, Away
      <4> QED
        <5>1. Total' = Total + 1
          BY <3>2, TotalStep
        <5>2. Cardinality(Live') = Cardinality(Live) + 1
          BY <1>1, <4>1, FS_AddElement
        <5> QED
          BY <1>1, <1>2, <3>1, <5>1, <5>2
    <3>3. CASE Receive(p)
      <4>1. Live' = Live \ {p} /\ p \in Live
        <5>1. Goto(p, "got") /\ p \in Live
          BY <1>3, <3>3, PageTo
        <5> QED
          BY <2>2, <5>1, PageGoes DEF Labels, Away
      <4> QED
        <5>1. Total' = Total - 1
          BY <3>3, TotalStep
        <5>2. Cardinality(Live') = Cardinality(Live) - 1
          BY <1>1, <4>1, FS_RemoveElement
        <5> QED
          BY <1>1, <1>2, <3>1, <5>1, <5>2
    <3>4. CASE ~Send(p) /\ ~Receive(p)
      <4>1. Total' <= Total
        <5>1. ~HandlerResend(p)
          BY <1>0, <2>5 DEF HandlerResend, Foreign, Own
        <5>2. \A q \in Pages : Send(q) \/ HandlerResend(q) => q = p
          <6>1. \A q \in Pages : q # p => pc'[q] = pc[q]
            BY <2>1 DEF Goto, TypeOK
          <6>2. \A q \in Pages : Send(q) \/ HandlerResend(q) => pc'[q] # pc[q]
            BY DEF Send, HandlerResend, Goto, TypeOK
          <6> QED
            BY <6>1, <6>2
        <5> QED
          BY <3>4, <5>1, <5>2, TotalStep
      <4>2. Live' = Live \/ Live' = Live \cup {p}
        BY <2>1, <2>3, <3>4
      <4>3. Cardinality(Live') \in Nat /\ Cardinality(Live) <= Cardinality(Live')
        <5>1. CASE Live' = Live
          BY <1>1, <5>1
        <5>2. CASE Live' = Live \cup {p}
          <6>1. Cardinality(Live') = IF p \in Live THEN Cardinality(Live) ELSE Cardinality(Live) + 1
            BY <1>1, <5>2, FS_AddElement
          <6> QED
            BY <1>1, <6>1
        <5> QED
          BY <4>2, <5>1, <5>2
      <4> QED
        BY <1>1, <1>2, <3>1, <4>1, <4>3
    <3> QED
      BY <3>2, <3>3, <3>4
  <2> QED
    BY <2>4, <2>5 DEF Bound
<1>4. CASE ThreadTake \/ ThreadReply \/ ListChanges \/ UNCHANGED vars
  <2>1. pc' = pc /\ gone' = gone
    BY <1>4 DEF ThreadTake, ThreadReply, ListChanges, vars
  <2>2. Asking' = Asking /\ Live' = Live
    BY <2>1 DEF Asking, Live
  <2>3. \A p \in Pages : ~Send(p) /\ ~HandlerResend(p)
    BY <2>1 DEF Send, HandlerResend, Goto, TypeOK
  <2>4. Total' <= Total
    BY <2>3, TotalStep
  <2> QED
    BY <1>0, <1>1, <1>2, <2>2, <2>4 DEF Bound
<1>5. CASE RemoveQueue
  <2>1. Asking' = Asking /\ Live' \subseteq Asking
    BY <1>5 DEF RemoveQueue, Asking, Live
  <2>2. Cardinality(Live') \in Nat
    BY <1>1, <2>1, FS_Subset, FS_CardinalityType
  <2> QED
    BY <1>1, <1>5, <2>1, <2>2, TotalStep DEF Bound
<1> QED
  BY <1>3, <1>4, <1>5 DEF Next

(* With one user, login_thread, the handlers and the pages together never  *)
(* make a second message of one.                                           *)
THEOREM NotMultiplied == Spec => []NoMoreThanAsked
<1>1. ASSUME TypeOK, Bound, Total \in Nat PROVE NoMoreThanAsked
  <2>1. IsFiniteSet(Asking) /\ Live \subseteq Asking
    BY <1>1 DEF Bound, Live
  <2>2. Cardinality(Live) <= Cardinality(Asking) /\ Cardinality(Live) \in Nat /\ Cardinality(Asking) \in Nat
    BY <2>1, FS_Subset, FS_CardinalityType
  <2>3. Asking = {p \in Pages : pc[p] \in {"wait", "take", "resend", "expired"}}
    BY <1>1 DEF Asking, Away, TypeOK, Labels
  <2> QED
    BY <1>1, <2>2, <2>3 DEF Bound, NoMoreThanAsked
<1>2. TypeOK => Total \in Nat
  BY LenProperties DEF TypeOK, Total
<1> QED
  BY <1>1, <1>2, TypeInit, TypeStep, ForeignInit, ForeignStep, OwnStep, BoundInit, BoundStep, PTL
  DEF Spec
-----------------------------------------------------------------------------
USE AccountsAssumption DEF AccountsAssumption

(* The register pages and the table of names only restrict what the login  *)
(* pages do: beside them, Login's specification holds as it is.            *)
THEOREM RegisteringIsApart == AccountsSpec => FairSpec
<1>1. AccountsInit => Init
  BY DEF AccountsInit
<1>2. [AccountsNext]_allVars => [Next]_vars
  BY DEF AccountsNext, LoginStep, RegisterStep, allVars
<1> QED
  BY <1>1, <1>2, PTL DEF AccountsSpec, FairSpec, Spec

Places == {"new", "insert", "refused", "registered"}
Registered(u) == {r \in Registrars : name[r] = u /\ at[r] = "registered"}

(* Until two register pages meet between their two statements, the one     *)
(* that is there found its name free, and it still is.                     *)
Inserting ==
  \A r \in Registrars : at[r] = "insert" =>
    rows[name[r]] = 0 /\ \A s \in Registrars : at[s] = "insert" => s = r

AccountsType ==
  /\ rows \in [Users -> Nat] /\ name \in [Registrars -> Names]
  /\ at \in [Registrars -> Places] /\ met \in BOOLEAN

AccountsInv ==
  /\ AccountsType
  /\ met \/ (Inserting /\ \A u \in Users : rows[u] <= 1)
  /\ \A u \in Users : IsFiniteSet(Registered(u)) /\ rows[u] >= Cardinality(Registered(u))
  /\ \A p \in Pages : pc[p] \notin {"new", "done"} => rows[user[p]] > 0

LEMMA AccountsBegin == AccountsInit => AccountsInv
<1> SUFFICES ASSUME AccountsInit PROVE AccountsInv
  OBVIOUS
<1>0. AccountsType
  <2>1. \A u \in Users : rows[u] \in {0, 1}
    BY DEF AccountsInit
  <2>2. rows \in [Users -> Nat]
    BY <2>1 DEF AccountsInit
  <2> QED
    BY <2>2 DEF AccountsInit, AccountsType, Places
<1>1. Inserting /\ \A u \in Users : rows[u] <= 1
  BY DEF AccountsInit, Inserting
<1>2. \A u \in Users : Registered(u) = {}
  BY DEF AccountsInit, Registered
<1>3. \A p \in Pages : pc[p] \in {"new", "done"}
  BY DEF AccountsInit, Init
<1>4. \A u \in Users : IsFiniteSet(Registered(u)) /\ rows[u] >= Cardinality(Registered(u))
  BY <1>0, <1>2, FS_EmptySet DEF AccountsType
<1> QED
  BY <1>0, <1>1, <1>3, <1>4 DEF AccountsInv

(* A step of a login page that leaves the form has found the user's row.   *)
LEMMA LoginLeaves ==
  ASSUME TypeOK, LoginStep, NEW p \in Pages, pc'[p] \notin {"new", "done"}
  PROVE  user' = user /\ (pc[p] \notin {"new", "done"} \/ rows[user[p]] > 0)
<1>1. user' = user
  BY DEF LoginStep, Next, PageStep, Open, Send, Receive, CallFails, Answered, HandlerTake,
         HandlerResend, Alarm, ThreadTake, ThreadReply, ListChanges, RemoveQueue
<1>2. ASSUME NEW q \in Pages, NEW l \in Labels, Goto(q, l), q # p PROVE pc'[p] = pc[p]
  BY <1>2 DEF Goto, TypeOK
<1>3. ASSUME NEW q \in Pages, Open(q) PROVE pc'[p] = pc[p] \/ (pc[p] = "new" /\ pc'[p] = "send")
  <2>1. CASE q = p
    BY <1>3, <2>1 DEF Open, Goto, TypeOK
  <2>2. CASE q # p
    BY <1>3, <2>2, <1>2 DEF Open, Labels
  <2> QED
    BY <2>1, <2>2
<1>4. ASSUME NEW q \in Pages, PageStep(q) \/ Alarm(q), ~Open(q)
      PROVE  pc'[p] = pc[p] \/ pc[p] \notin {"new", "done"}
  <2>1. CASE q = p
    BY <1>4, <2>1
    DEF PageStep, Send, Receive, CallFails, Answered, HandlerTake, HandlerResend, Alarm
  <2>2. CASE q # p
    BY <1>4, <2>2, <1>2, PageTo
  <2> QED
    BY <2>1, <2>2
<1>5. pc'[p] = pc[p] \/ pc[p] \notin {"new", "done"} \/ (pc[p] = "new" /\ pc'[p] = "send")
  <2>1. CASE \E q \in Pages : PageStep(q) \/ Alarm(q)
    BY <2>1, <1>3, <1>4
  <2>2. CASE ThreadTake \/ ThreadReply \/ ListChanges \/ RemoveQueue
    BY <2>2 DEF ThreadTake, ThreadReply, ListChanges, RemoveQueue
  <2> QED
    BY <2>1, <2>2 DEF LoginStep, Next
<1> QED
  BY <1>1, <1>5 DEF LoginStep

LEMMA AccountsStep == TypeOK /\ AccountsInv /\ [AccountsNext]_allVars => AccountsInv'
<1> SUFFICES ASSUME TypeOK, AccountsInv, [AccountsNext]_allVars PROVE AccountsInv'
  OBVIOUS
<1> USE DEF AccountsType
<1>0. AccountsType
  BY DEF AccountsInv
<1>1. ASSUME UNCHANGED accountVars
      PROVE  /\ AccountsType' /\ (met' \/ (Inserting' /\ \A u \in Users : rows'[u] <= 1))
             /\ \A u \in Users : IsFiniteSet(Registered(u)') /\ rows'[u] >= Cardinality(Registered(u)')
  BY <1>1 DEF AccountsInv, accountVars, Inserting, Registered
<1>2. CASE LoginStep
  <2>1. \A p \in Pages : pc'[p] \notin {"new", "done"} => rows'[user'[p]] > 0
    BY <1>2, LoginLeaves DEF LoginStep, accountVars, AccountsInv
  <2>2. UNCHANGED accountVars
    BY <1>2 DEF LoginStep
  <2>3. AccountsType' /\ (met' \/ (Inserting' /\ \A u \in Users : rows'[u] <= 1))
    BY <1>1, <2>2
  <2>4. \A u \in Users : IsFiniteSet(Registered(u)') /\ rows'[u] >= Cardinality(Registered(u)')
    BY <1>1, <2>2
  <2> QED
    BY <2>1, <2>3, <2>4 DEF AccountsInv
<1>3. CASE UNCHANGED allVars
  BY <1>1, <1>3 DEF allVars, vars, AccountsInv, accountVars
<1>4. ASSUME NEW r \in Registrars, Refuse(r) \/ Select(r), UNCHANGED vars PROVE AccountsInv'
  <2>1. AccountsType'
    BY <1>0, <1>4 DEF Refuse, Select, Places
  <2>2. rows' = rows /\ name' = name /\ \A u \in Users : Registered(u)' = Registered(u)
    BY <1>0, <1>4 DEF Refuse, Select, Registered
  <2>3. met' \/ (Inserting' /\ \A u \in Users : rows'[u] <= 1)
    <3>1. CASE Refuse(r)
      BY <1>0, <3>1 DEF Refuse, AccountsInv, Inserting
    <3>2. CASE Select(r)
      BY <1>0, <3>2 DEF Select, AccountsInv, Inserting
    <3> QED
      BY <1>4, <3>1, <3>2
  <2>4. \A p \in Pages : pc'[p] \notin {"new", "done"} => rows'[user'[p]] > 0
    BY <1>4, <2>2 DEF vars, AccountsInv
  <2>5. \A u \in Users : IsFiniteSet(Registered(u)') /\ rows'[u] >= Cardinality(Registered(u)')
    BY <2>2 DEF AccountsInv
  <2> QED
    BY <2>1, <2>3, <2>4, <2>5 DEF AccountsInv
<1>5. ASSUME NEW r \in Registrars, Insert(r), UNCHANGED vars PROVE AccountsInv'
  <2>0. name[r] \in Users /\ rows[name[r]] \in Nat
    BY <1>0
  <2>1. AccountsType'
    BY <1>0, <1>5, <2>0 DEF Insert, Places
  <2>2. \A u \in Users : rows'[u] = IF u = name[r] THEN rows[u] + 1 ELSE rows[u]
    BY <1>0, <1>5, <2>0 DEF Insert
  <2>3. met' \/ (Inserting' /\ \A u \in Users : rows'[u] <= 1)
    <3>1. SUFFICES ASSUME ~met PROVE Inserting' /\ \A u \in Users : rows'[u] <= 1
      BY <1>5 DEF Insert
    <3>2. rows[name[r]] = 0 /\ \A s \in Registrars : at[s] = "insert" => s = r
      BY <1>5, <3>1 DEF Insert, AccountsInv, Inserting
    <3>3. \A s \in Registrars : at'[s] # "insert"
      BY <1>0, <1>5, <3>2 DEF Insert
    <3> QED
      BY <2>2, <3>1, <3>2, <3>3 DEF AccountsInv, Inserting
  <2>4. ASSUME NEW p \in Pages, pc'[p] \notin {"new", "done"} PROVE rows'[user'[p]] > 0
    <3>1. user'[p] = user[p] /\ user[p] \in Users /\ rows[user[p]] \in Nat /\ rows[user[p]] > 0
      BY <1>0, <1>5, <2>4 DEF vars, TypeOK, AccountsInv
    <3> QED
      BY <2>2, <3>1
  <2>5. ASSUME NEW u \in Users
        PROVE  IsFiniteSet(Registered(u)') /\ rows'[u] >= Cardinality(Registered(u)')
    <3>0. /\ rows[u] \in Nat /\ IsFiniteSet(Registered(u)) /\ rows[u] >= Cardinality(Registered(u))
          /\ Cardinality(Registered(u)) \in Nat
      BY <1>0, FS_CardinalityType DEF AccountsInv
    <3>1. CASE u = name[r]
      <4>1. Registered(u)' = Registered(u) \cup {r} /\ r \notin Registered(u)
        BY <1>0, <1>5, <3>1 DEF Insert, Registered
      <4>2. IsFiniteSet(Registered(u)') /\ Cardinality(Registered(u)') = Cardinality(Registered(u)) + 1
        BY <3>0, <4>1, FS_AddElement
      <4> QED
        BY <2>2, <3>0, <3>1, <4>2
    <3>2. CASE u # name[r]
      <4>1. Registered(u)' = Registered(u)
        BY <1>0, <1>5, <3>2 DEF Insert, Registered
      <4> QED
        BY <2>2, <3>0, <3>2, <4>1
    <3> QED
      BY <3>1, <3>2
  <2> QED
    <3>1. met' \/ (Inserting' /\ \A u \in Users : rows'[u] <= 1)
      BY <2>3
    <3> QED
      BY <2>1, <2>4, <2>5, <3>1 DEF AccountsInv
<1> QED
  BY <1>2, <1>3, <1>4, <1>5 DEF AccountsNext, RegisterStep

(* A name gets a second row only after two register pages were between     *)
(* their two statements at one time; a page that reports a registration    *)
(* has made a row; only users get past the query of the login page.        *)
THEOREM NamesTaken == AccountsSpec => []OneAccountPerName
<1>1. AccountsInv => OneAccountPerName
  BY DEF AccountsInv, OneAccountPerName, Registered
<1>2. AccountsSpec => []TypeOK
  BY RegisteringIsApart, TypeCorrect, PTL DEF FairSpec
<1> QED
  BY <1>1, <1>2, AccountsBegin, AccountsStep, PTL DEF AccountsSpec
=============================================================================
