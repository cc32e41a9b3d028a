---------------------------- MODULE ClientProofs ----------------------------
(***************************************************************************)
(* Theorems about Client, for any number of threads, messages and restarts. *)
(***************************************************************************)
EXTENDS Client, SequenceTheorems, FiniteSetTheorems, TLAPS

USE ClientAssumption DEF ClientAssumption

(* Taking the oldest message. *)
LEMMA Taken ==
  ASSUME NEW S, NEW q \in Seq(S), q # <<>>
  PROVE  /\ Head(q) \in S /\ Tail(q) \in Seq(S)
         /\ Len(q) \in Nat /\ Len(Tail(q)) = Len(q) - 1
         /\ \A i \in DOMAIN Tail(q) : i + 1 \in DOMAIN q /\ Tail(q)[i] = q[i + 1]
         /\ 1 \in DOMAIN q /\ Head(q) = q[1]
BY HeadTailProperties, LenProperties, EmptySeq

(* A new message, or a new line. *)
LEMMA Added ==
  ASSUME NEW S, NEW q \in Seq(S), NEW e \in S
  PROVE  /\ Append(q, e) \in Seq(S)
         /\ Len(q) \in Nat /\ Len(Append(q, e)) = Len(q) + 1
         /\ DOMAIN q = 1..Len(q) /\ DOMAIN Append(q, e) = 1..(Len(q) + 1)
         /\ \A i \in 1..Len(q) : Append(q, e)[i] = q[i]
         /\ Append(q, e)[Len(q) + 1] = e
BY AppendProperties, LenProperties

(* The second line behind the first. *)
LEMMA TwoLines == ASSUME NEW a, NEW b PROVE Append(<<a>>, b) = <<a, b>>
<1> DEFINE q == <<a>>
           S == {a, b}
<1>1. q \in Seq(S) /\ Len(q) = 1 /\ q[1] = a
  OBVIOUS
<1>2. <<a, b>> \in Seq(S) /\ Len(<<a, b>>) = 2 /\ <<a, b>>[1] = a /\ <<a, b>>[2] = b
  OBVIOUS
<1>3. Append(q, b) \in Seq(S) /\ Len(Append(q, b)) = 2 /\ Append(q, b)[1] = a /\ Append(q, b)[2] = b
  BY <1>1, AppendProperties
<1>4. \A i \in 1..2 : i = 1 \/ i = 2
  OBVIOUS
<1> QED
  BY <1>2, <1>3, <1>4, SeqEqual

(* What the flush of a FILE leaves: its lines, and behind them those that  *)
(* the file had there before.                                              *)
LEMMA Overlaid ==
  ASSUME NEW lines \in Seq(Data), init_txt \in Seq(Data)
  PROVE  /\ Overlay(lines) \in Seq(Data)
         /\ Len(Overlay(lines)) = IF Len(lines) >= Len(init_txt) THEN Len(lines) ELSE Len(init_txt)
         /\ init_txt = <<>> => Overlay(lines) = lines
<1> DEFINE n == Len(init_txt)
           m == Len(lines)
           rest == SubSeq(init_txt, m + 1, n)
<1>1. n \in Nat /\ m \in Nat /\ (init_txt = <<>> => n = 0)
  BY LenProperties, EmptySeq
<1>2. /\ rest \in Seq(Data)
      /\ Len(rest) = IF m + 1 <= n THEN n - m ELSE 0
  BY <1>1, SubSeqProperties, LenProperties
<1>3. Overlay(lines) = lines \o rest
  BY DEF Overlay
<1>4. Overlay(lines) \in Seq(Data) /\ Len(Overlay(lines)) = m + Len(rest)
  BY <1>2, <1>3, ConcatProperties
<1>5. ASSUME init_txt = <<>> PROVE Overlay(lines) = lines
  <2>1. rest = <<>>
    BY <1>1, <1>2, <1>5, EmptySeq
  <2> QED
    BY <1>3, <2>1, ConcatEmptySeq
<1> QED
  BY <1>1, <1>2, <1>4, <1>5
-----------------------------------------------------------------------------
LEMMA Halved == ASSUME NEW n \in Nat, NEW m \in Nat, m = 2 * n PROVE m \div 2 = n
<1>1. m \div 2 \in Nat /\ m % 2 \in 0..1 /\ m = 2 * (m \div 2) + (m % 2)
  OBVIOUS
<1> QED
  BY <1>1

(* What is printed is a threshold, which is printed as it is. *)
LEMMA PrintedType ==
  ASSUME NEW v \in Data
  PROVE  Printed(v) \in Data /\ Printed(Printed(v)) = Printed(v)
<1>1. v \in Nat /\ v <= 2 * (MaxMsg + 1)
  BY DEF Data, Start
<1>2. v \div 2 \in Nat /\ v % 2 \in 0..1 /\ v = 2 * (v \div 2) + (v % 2)
  BY <1>1
<1> DEFINE h == v \div 2
<1>3. h \in Nat /\ Printed(v) = 2 * h /\ 2 * h <= v
  BY <1>1, <1>2 DEF Printed
<1>4. Printed(2 * h) = 2 * h
  BY <1>3, Halved DEF Printed
<1>5. 2 * h \in Data
  BY <1>1, <1>3 DEF Data, Start
<1> QED
  BY <1>3, <1>4, <1>5
-----------------------------------------------------------------------------
(* Where the steps of threads lead. *)
Busy == {t \in Threads : pc[t] # "free"}

(* Stop changes main and the file only; what it leaves in the file         *)
(* was there or is an overlay of one thread's lines.                       *)
Stops ==
  /\ main' = "stopped" /\ main # "stopped"
  /\ UNCHANGED <<inbox, sent, conn, threadbuf, threadVars, up, down, history>>
  /\ \/ init_txt' = init_txt
     \/ \E t \in Threads : /\ pc[t] \in {"print_up", "print_down", "fclose"}
                           /\ init_txt' = Overlay(file[t])

LEMMA StopSteps ==
  ASSUME TypeOK, RecvEof \/ SendFails \/ CallFails \/ handle_sigint \/ Kill
  PROVE  Stops
<1>1. CASE RecvEof
  BY <1>1 DEF RecvEof, Stop, Stops
<1>2. CASE SendFails
  BY <1>2 DEF SendFails, Stop, Stops, At
<1>3. CASE handle_sigint
  BY <1>3 DEF handle_sigint, Stop, Stops
<1>4. CASE Kill
  BY <1>4 DEF Kill, Stop, Stops
<1>5. CASE CallFails
  BY <1>5 DEF CallFails, Stop, Stops, At
<1> QED
  BY <1>1, <1>2, <1>3, <1>4, <1>5

(* A thread's step leaves main, the connection and the counts of messages  *)
(* alone; only Answer makes a busy thread free.                            *)
Working(t) ==
  \/ CopyUp(t) \/ CopyDown(t) \/ Getenv(t) \/ Ctrl(t) \/ SetUp(t) \/ SetDown(t)
  \/ Fopen(t) \/ PrintUp(t) \/ PrintDown(t) \/ Fclose(t)

LEMMA Works ==
  ASSUME TypeOK, NEW t \in Threads, Working(t)
  PROVE  /\ UNCHANGED <<inbox, sent, conn, mainVars, made, created, answered, starts, mixed>>
         /\ met' \in BOOLEAN /\ (met' => met)
         /\ ~Fclose(t) => met' = met
         /\ main # "stopped" /\ pc[t] # "free"
         /\ \E l \in Labels \ {"free"} : pc' = [pc EXCEPT ![t] = l]
<1>1. CASE CopyUp(t) \/ CopyDown(t) \/ Getenv(t) \/ Ctrl(t)
  BY <1>1 DEF CopyUp, CopyDown, Getenv, Ctrl, At, Goto, Labels, limitVars, history, TypeOK
<1>2. CASE SetUp(t) \/ SetDown(t) \/ Fopen(t) \/ PrintUp(t) \/ PrintDown(t)
  BY <1>2 DEF SetUp, SetDown, Fopen, PrintUp, PrintDown, At, Goto, Labels, limitVars, history, TypeOK
<1>3. CASE Fclose(t)
  BY <1>3 DEF Fclose, At, Goto, Labels, TypeOK
<1> QED
  BY <1>1, <1>2, <1>3 DEF Working

(* The highest number of the messages sent until now. *)
Top == 2 * sent + 1

(* A message of the server's. *)
LEMMA SentMessage ==
  ASSUME TypeOK, ServerSends
  PROVE  /\ Top \in Nat /\ Top' = Top + 2
         /\ sent < MaxMsg /\ sent' = sent + 1
         /\ \E m \in Message : /\ inbox' = Append(inbox, m)
                               /\ m.data \in {0, Top + 1, Top + 2}
<1>1. sent \in 0..MaxMsg /\ sent < MaxMsg /\ sent' = sent + 1
  BY DEF TypeOK, ServerSends
<1>2. Top \in Nat /\ Top' = Top + 2
  BY <1>1 DEF Top
<1>3. PICK c \in {1, 2, 3, 255}, d \in {0, Top + 1, Top + 2} :
        /\ c = 1 \/ c = 255 => d = 0
        /\ inbox' = Append(inbox, [commd |-> c, data |-> d])
  <2>1. 2 * (sent + 1) = Top + 1 /\ 2 * (sent + 1) + 1 = Top + 2
    BY <1>1 DEF Top
  <2> QED
    BY <2>1 DEF ServerSends
<1>4. d \in Data
  BY <1>1, <1>3 DEF Data, Start, Top
<1>5. [commd |-> c, data |-> d] \in Message
  BY <1>4 DEF Message
<1> QED
  BY <1>1, <1>2, <1>3, <1>5

(* The kinds of steps. *)
LEMMA Kinds ==
  ASSUME [Next]_vars, TypeOK
  PROVE  \/ ServerSends \/ ConnectionEnds \/ RecvMsg \/ RecvErr \/ read_config
         \/ Stops \/ Pong
         \/ \E t \in Threads : Create(t) \/ Working(t) \/ Answer(t)
         \/ UNCHANGED vars
BY StopSteps DEF Next, MainStep, ThreadStep, Working
-----------------------------------------------------------------------------
(* Every message main accepted is one the server sent, and every command   *)
(* is being worked on by one thread or has been answered.                  *)
Accepted == IF main = "create" THEN 1 ELSE 0

Counts ==
  /\ created + Len(inbox) + Accepted <= sent
  /\ IsFiniteSet(Busy) /\ created = answered + Cardinality(Busy)

LEMMA CountsInit == Init => Counts
<1> SUFFICES ASSUME Init PROVE Counts
  OBVIOUS
<1>1. Busy = {} /\ Len(inbox) = 0 /\ Accepted = 0
  BY EmptySeq DEF Init, Busy, Accepted
<1> QED
  BY <1>1, FS_EmptySet DEF Init, Counts

LEMMA CountsStep == TypeOK /\ Counts /\ [Next]_vars => Counts'
<1> SUFFICES ASSUME TypeOK, Counts, [Next]_vars PROVE Counts'
  OBVIOUS
<1>0. /\ Len(inbox) \in Nat /\ Cardinality(Busy) \in Nat
      /\ created \in Nat /\ answered \in Nat /\ sent \in Nat /\ Accepted \in Nat
  BY LenProperties, FS_CardinalityType DEF Counts, Accepted, TypeOK
<1>1. CASE ServerSends
  <2>1. PICK m \in Message : inbox' = Append(inbox, m)
    BY <1>1, SentMessage
  <2>2. Len(inbox') = Len(inbox) + 1
    BY <2>1, Added DEF TypeOK
  <2>3. /\ Busy' = Busy /\ sent' = sent + 1 /\ created' = created /\ answered' = answered
        /\ Accepted' = Accepted
    BY <1>1 DEF ServerSends, Busy, mainVars, threadVars, history, Accepted
  <2> QED
    <3>1. created' + Len(inbox') + Accepted' <= sent'
      <4>1. created + Len(inbox) + Accepted <= sent
        BY DEF Counts
      <4>2. created' + Len(inbox') + Accepted' = created + (Len(inbox) + 1) + Accepted
        BY <2>2, <2>3
      <4> QED
        BY <1>0, <4>1, <4>2, <2>3
    <3>2. IsFiniteSet(Busy') /\ created' = answered' + Cardinality(Busy')
      BY <1>0, <2>2, <2>3 DEF Counts
    <3> QED
      BY <3>1, <3>2 DEF Counts
<1>2. CASE ConnectionEnds \/ RecvErr \/ Pong
  BY <1>2 DEF ConnectionEnds, RecvErr, Pong, Counts, Busy, mainVars, threadVars, history, Accepted
<1>3. CASE RecvMsg
  <2>1. Len(inbox') = Len(inbox) - 1
    BY <1>3, Taken DEF RecvMsg, TypeOK
  <2>2. /\ Busy' = Busy /\ created' = created /\ answered' = answered /\ sent' = sent
        /\ Accepted = 0 /\ Accepted' \in 0..1
    BY <1>3 DEF RecvMsg, Busy, threadVars, Accepted
  <2> QED
    <3>1. created' + Len(inbox') + Accepted' <= sent'
      <4>1. created + Len(inbox) <= sent
        BY <1>0, <2>2 DEF Counts
      <4>2. created' + Len(inbox') + Accepted' = created + (Len(inbox) - 1) + Accepted'
        BY <2>1, <2>2
      <4>3. Accepted' = 0 \/ Accepted' = 1
        BY <2>2
      <4> QED
        BY <1>0, <4>1, <4>2, <4>3, <2>2
    <3>2. IsFiniteSet(Busy') /\ created' = answered' + Cardinality(Busy')
      BY <1>0, <2>1, <2>2 DEF Counts
    <3> QED
      BY <3>1, <3>2 DEF Counts
<1>4. CASE read_config
  <2>1. Busy' = {} /\ Len(inbox') = 0 /\ Accepted' = 0
    BY <1>4, EmptySeq DEF read_config, Busy, Accepted
  <2> QED
    BY <1>0, <1>4, <2>1, FS_EmptySet DEF read_config, Counts
<1>5. CASE Stops
  <2>1. /\ Busy' = Busy /\ inbox' = inbox /\ created' = created /\ answered' = answered
        /\ sent' = sent /\ Accepted' = 0
    BY <1>5 DEF Stops, Busy, threadVars, history, Accepted
  <2> QED
    BY <1>0, <2>1 DEF Counts
<1>6. ASSUME NEW t \in Threads, Create(t) PROVE Counts'
  <2>1. Busy' = Busy \cup {t} /\ t \notin Busy
    BY <1>6 DEF Create, Goto, Busy, Labels, TypeOK
  <2>2. IsFiniteSet(Busy') /\ Cardinality(Busy') = Cardinality(Busy) + 1
    BY <2>1, FS_AddElement DEF Counts
  <2>3. /\ Accepted = 1 /\ Accepted' = 0 /\ created' = created + 1
        /\ inbox' = inbox /\ sent' = sent /\ answered' = answered
    BY <1>6 DEF Create, Accepted
  <2> QED
    BY <1>0, <2>2, <2>3 DEF Counts
<1>7. ASSUME NEW t \in Threads, Answer(t) PROVE Counts'
  <2>1. Busy' = Busy \ {t} /\ t \in Busy
    BY <1>7 DEF Answer, Free, At, Busy, Labels, TypeOK
  <2>2. IsFiniteSet(Busy') /\ Cardinality(Busy') = Cardinality(Busy) - 1
    BY <2>1, FS_RemoveElement DEF Counts
  <2>3. /\ Accepted' = Accepted /\ created' = created /\ answered' = answered + 1
        /\ inbox' = inbox /\ sent' = sent
    BY <1>7 DEF Answer, mainVars, Accepted
  <2> QED
    <3>1. created' + Len(inbox') + Accepted' <= sent'
      <4>1. created + Len(inbox) + Accepted <= sent
        BY DEF Counts
      <4>2. created' + Len(inbox') + Accepted' = created + Len(inbox) + Accepted
        BY <2>3
      <4> QED
        BY <4>1, <4>2, <2>3
    <3>2. IsFiniteSet(Busy') /\ created' = answered' + Cardinality(Busy')
      BY <1>0, <2>2, <2>3 DEF Counts
    <3> QED
      BY <3>1, <3>2 DEF Counts
<1>8. ASSUME NEW t \in Threads, Working(t) PROVE Counts'
  <2>1. Busy' = Busy
    <3>1. PICK l \in Labels \ {"free"} : pc' = [pc EXCEPT ![t] = l]
      BY <1>8, Works
    <3>2. pc[t] # "free" /\ pc \in [Threads -> Labels]
      BY <1>8, Works DEF TypeOK
    <3> QED
      BY <3>1, <3>2 DEF Busy
  <2>2. UNCHANGED <<inbox, sent, mainVars, created, answered>>
    BY <1>8, Works
  <2> QED
    BY <2>1, <2>2 DEF Counts, mainVars, Accepted
<1>9. CASE UNCHANGED vars
  BY <1>9 DEF vars, Counts, Busy, mainVars, threadVars, history, Accepted
<1> QED
  BY <1>1, <1>2, <1>3, <1>4, <1>5, <1>6, <1>7, <1>8, <1>9, Kinds
-----------------------------------------------------------------------------
(* How much a thread has printed is told by where it is. *)
Lines ==
  \A t \in Threads : /\ pc[t] = "print_up" => file[t] = <<>>
                     /\ pc[t] = "print_down" => Len(file[t]) = 1

LEMMA LinesStep == TypeOK /\ Lines /\ [Next]_vars => Lines'
<1> SUFFICES ASSUME TypeOK, Lines, [Next]_vars PROVE Lines'
  OBVIOUS
<1> USE DEF Lines
<1>1. CASE ServerSends \/ ConnectionEnds \/ RecvMsg \/ RecvErr \/ Pong \/ Stops \/ UNCHANGED vars
  <2>1. UNCHANGED threadVars
    BY <1>1 DEF ServerSends, ConnectionEnds, RecvMsg, RecvErr, Pong, Stops, vars
  <2> QED
    BY <2>1 DEF threadVars
<1>2. CASE read_config
  BY <1>2 DEF read_config
<1>3. ASSUME NEW t \in Threads, Create(t) PROVE Lines'
  BY <1>3 DEF Create, Goto, TypeOK
<1>4. ASSUME NEW t \in Threads, Working(t) PROVE Lines'
  <2>1. CASE PrintUp(t)
    <3>1. /\ pc' = [pc EXCEPT ![t] = "print_down"]
          /\ file' = [file EXCEPT ![t] = Append(file[t], Printed(up))]
      BY <2>1 DEF PrintUp, Goto
    <3>2. file[t] = <<>> /\ Printed(up) \in Data /\ file[t] \in Seq(Data)
      BY <2>1, PrintedType DEF PrintUp, At, TypeOK
    <3>3. Len(Append(file[t], Printed(up))) = 1
      BY <3>2, Added, EmptySeq
    <3> QED
      BY <3>1, <3>3 DEF TypeOK
  <2>2. CASE Fopen(t)
    BY <2>2 DEF Fopen, Goto, TypeOK
  <2>3. CASE PrintDown(t) \/ Fclose(t) \/ SetUp(t) \/ SetDown(t)
    BY <2>3 DEF PrintDown, Fclose, SetUp, SetDown, Goto, TypeOK
  <2>4. CASE CopyUp(t) \/ CopyDown(t) \/ Getenv(t) \/ Ctrl(t)
    BY <2>4 DEF CopyUp, CopyDown, Getenv, Ctrl, Goto, TypeOK
  <2> QED
    BY <1>4, <2>1, <2>2, <2>3, <2>4 DEF Working
<1>5. ASSUME NEW t \in Threads, Answer(t) PROVE Lines'
  BY <1>5 DEF Answer, Free, TypeOK
<1> QED
  BY <1>1, <1>2, <1>3, <1>4, <1>5, Kinds
-----------------------------------------------------------------------------
LEMMA TypeInit == Init => TypeOK /\ Counts /\ Lines
<1> SUFFICES ASSUME Init PROVE TypeOK /\ Lines
  BY CountsInit
<1>1. Start \in Data /\ 0 \in Data
  BY DEF Start, Data
<1>2. <<Start, Start>> \in Seq(Data) /\ Len(<<Start, Start>>) = 2
  BY <1>1
<1>3. <<>> \in Seq(Message) /\ <<>> \in Seq(Data) /\ Len(<<>>) = 0
  BY EmptySeq
<1>4. Zero \in Message /\ [up |-> 0, down |-> 0] \in Limits
  BY <1>1 DEF Zero, Message, Limits
<1>5. /\ main \in {"recv", "create", "pong", "stopped"} /\ conn \in {"up", "closed", "reset", "shut"}
      /\ pc \in [Threads -> Labels] /\ made \in [Threads -> Message]
      /\ buf \in [Threads -> Limits] /\ file \in [Threads -> Seq(Data)]
      /\ \A t \in Threads : Len(file[t]) <= 2
  BY <1>3, <1>4 DEF Init, Labels
<1>6. Lines
  BY DEF Init, Lines
<1>7. /\ sent \in 0..MaxMsg /\ created \in 0..MaxMsg /\ answered \in 0..MaxMsg
      /\ starts \in 0..MaxStart
  BY DEF Init
<1>9. inbox \in Seq(Message) /\ threadbuf \in Message /\ met \in BOOLEAN /\ mixed \subseteq Threads
  BY <1>3, <1>4 DEF Init
<1>8. up \in Data /\ down \in Data /\ init_txt \in Seq(Data) /\ Len(init_txt) <= 2
  BY <1>1, <1>2 DEF Init
<1> QED
  BY <1>5, <1>6, <1>7, <1>8, <1>9 DEF TypeOK

LEMMA TypeStep == TypeOK /\ Counts /\ Lines /\ [Next]_vars => TypeOK'
<1> SUFFICES ASSUME TypeOK, Counts, Lines, [Next]_vars PROVE TypeOK'
  OBVIOUS
<1>0. Counts'
  BY CountsStep
<1>1. CASE ServerSends
  <2>1. PICK m \in Message : inbox' = Append(inbox, m)
    BY <1>1, SentMessage
  <2>2. inbox' \in Seq(Message)
    BY <2>1, Added DEF TypeOK
  <2>3. sent' \in 0..MaxMsg
    BY <1>1, SentMessage DEF TypeOK
  <2> QED
    BY <1>1, <2>2, <2>3 DEF ServerSends, TypeOK, mainVars, threadVars, limitVars, history
<1>2. CASE ConnectionEnds \/ Pong
  BY <1>2 DEF ConnectionEnds, Pong, SendOk, TypeOK, mainVars, threadVars, limitVars, history
<1>3. CASE RecvMsg
  <2>1. Head(inbox) \in Message /\ Tail(inbox) \in Seq(Message)
    BY <1>3, Taken DEF RecvMsg, TypeOK
  <2>2. main' \in {"create", "pong"} /\ met' \in BOOLEAN /\ mixed' \subseteq Threads
    BY <1>3 DEF RecvMsg, Disturb, Copying, TypeOK
  <2> QED
    BY <1>3, <2>1, <2>2 DEF RecvMsg, TypeOK, threadVars, limitVars
<1>4. CASE RecvErr
  <2>1. Zero \in Message
    BY DEF Zero, Message, Data, Start
  <2>2. met' \in BOOLEAN /\ mixed' \subseteq Threads
    BY <1>4 DEF RecvErr, Disturb, Copying, TypeOK
  <2> QED
    BY <1>4, <2>1, <2>2 DEF RecvErr, TypeOK, threadVars, limitVars
<1>5. CASE read_config
  <2>1. 0 \in Data
    BY DEF Data, Start
  <2>2. Line(1) \in Data /\ Line(2) \in Data
    BY <2>1, ElementOfSeq DEF Line, TypeOK
  <2>3. Zero \in Message /\ [up |-> 0, down |-> 0] \in Limits
    BY <2>1 DEF Zero, Message, Limits
  <2>4. <<>> \in Seq(Message) /\ <<>> \in Seq(Data) /\ Len(<<>>) = 0
    BY EmptySeq
  <2>5. /\ pc' \in [Threads -> Labels] /\ made' \in [Threads -> Message]
        /\ buf' \in [Threads -> Limits] /\ file' \in [Threads -> Seq(Data)]
        /\ \A t \in Threads : Len(file'[t]) <= 2
    <3>1. pc' \in [Threads -> Labels] /\ made' \in [Threads -> Message]
      BY <1>5, <2>3 DEF read_config, Labels
    <3>2. buf' \in [Threads -> Limits]
      BY <1>5, <2>3 DEF read_config
    <3>3. file' \in [Threads -> Seq(Data)] /\ \A t \in Threads : Len(file'[t]) <= 2
      BY <1>5, <2>4 DEF read_config
    <3> QED
      BY <3>1, <3>2, <3>3
  <2>6. starts' \in 0..MaxStart /\ created' \in 0..MaxMsg /\ answered' \in 0..MaxMsg
    BY <1>5 DEF read_config, TypeOK
  <2> QED
    BY <1>5, <2>2, <2>3, <2>4, <2>5, <2>6 DEF read_config, TypeOK
<1>6. CASE Stops
  <2>1. init_txt' \in Seq(Data) /\ Len(init_txt') <= 2
    <3>1. CASE init_txt' = init_txt
      BY <3>1 DEF TypeOK
    <3>2. ASSUME NEW t \in Threads, init_txt' = Overlay(file[t])
          PROVE  init_txt' \in Seq(Data) /\ Len(init_txt') <= 2
      BY <3>2, Overlaid DEF TypeOK
    <3> QED
      BY <1>6, <3>1, <3>2 DEF Stops
  <2> QED
    BY <1>6, <2>1 DEF Stops, TypeOK, threadVars, history
<1>7. ASSUME NEW t \in Threads, Create(t) PROVE TypeOK'
  <2>1. created' \in 0..MaxMsg
    <3>1. /\ Len(inbox) \in Nat /\ Accepted = 1 /\ created' = created + 1
          /\ created \in Nat /\ sent \in 0..MaxMsg
      BY <1>7, LenProperties DEF TypeOK, Create, Accepted
    <3>2. created + Len(inbox) + Accepted <= sent
      BY DEF Counts
    <3> QED
      BY <3>1, <3>2
  <2>2. pc' \in [Threads -> Labels] /\ made' \in [Threads -> Message]
    BY <1>7 DEF Create, Goto, TypeOK, Labels
  <2>3. met' \in BOOLEAN /\ mixed' \subseteq Threads
    BY <1>7 DEF Create, Setting, TypeOK
  <2> QED
    BY <1>7, <2>1, <2>2, <2>3 DEF Create, TypeOK, limitVars
<1>8. ASSUME NEW t \in Threads, Working(t) PROVE TypeOK'
  <2>1. /\ UNCHANGED <<inbox, sent, conn, main, threadbuf, made, created, answered, starts, mixed>>
        /\ met' \in BOOLEAN
    BY <1>8, Works DEF mainVars
  <2>2. pc' \in [Threads -> Labels]
    BY <1>8, Works DEF TypeOK
  <2>3. /\ buf' \in [Threads -> Limits]
        /\ up' \in Data /\ down' \in Data
        /\ file' \in [Threads -> Seq(Data)] /\ \A s \in Threads : Len(file'[s]) <= 2
        /\ init_txt' \in Seq(Data) /\ Len(init_txt') <= 2
    <3>1. CASE CopyUp(t) \/ CopyDown(t)
      <4>1. threadbuf.data \in Data
        BY DEF TypeOK, Message
      <4>2. buf' \in [Threads -> Limits]
        BY <3>1, <4>1 DEF CopyUp, CopyDown, TypeOK, Limits
      <4> QED
        BY <3>1, <4>2 DEF CopyUp, CopyDown, TypeOK, limitVars
    <3>2. CASE Getenv(t)
      BY <3>2 DEF Getenv, TypeOK, limitVars, Limits
    <3>3. CASE Ctrl(t) \/ SetUp(t) \/ SetDown(t)
      BY <3>3 DEF Ctrl, SetUp, SetDown, TypeOK, limitVars, Limits
    <3>4. CASE Fopen(t)
      <4>1. <<>> \in Seq(Data) /\ Len(<<>>) = 0
        BY EmptySeq
      <4>2. file' = [file EXCEPT ![t] = <<>>] /\ init_txt' = <<>>
        BY <3>4 DEF Fopen
      <4>3. file' \in [Threads -> Seq(Data)] /\ \A s \in Threads : Len(file'[s]) <= 2
        BY <4>1, <4>2 DEF TypeOK
      <4>4. init_txt' \in Seq(Data) /\ Len(init_txt') <= 2
        BY <4>1, <4>2
      <4>5. up' \in Data /\ down' \in Data /\ buf' \in [Threads -> Limits]
        BY <3>4 DEF Fopen, TypeOK
      <4> QED
        BY <4>3, <4>4, <4>5
    <3>5. ASSUME PrintUp(t) \/ PrintDown(t), NEW v \in Data, file' = [file EXCEPT ![t] = Append(file[t], v)]
          PROVE  file' \in [Threads -> Seq(Data)] /\ \A s \in Threads : Len(file'[s]) <= 2
      <4>0. pc[t] = "print_up" \/ pc[t] = "print_down"
        BY <3>5 DEF PrintUp, PrintDown, At
      <4>1. file[t] \in Seq(Data)
        BY DEF TypeOK
      <4>2. PICK n \in {0, 1} : Len(file[t]) = n
        BY <4>0, EmptySeq DEF Lines
      <4>3. Append(file[t], v) \in Seq(Data) /\ Len(Append(file[t], v)) = n + 1
        BY <4>1, <4>2, Added
      <4>4. n + 1 <= 2
        OBVIOUS
      <4>6. Len(Append(file[t], v)) <= 2
        BY <4>3, <4>4
      <4>7. file'[t] = Append(file[t], v) /\ \A s \in Threads \ {t} : file'[s] = file[s]
        BY <3>5 DEF TypeOK
      <4>8. \A s \in Threads : Len(file'[s]) <= 2
        BY <4>6, <4>7 DEF TypeOK
      <4>9. file' \in [Threads -> Seq(Data)]
        BY <3>5, <4>3 DEF TypeOK
      <4> QED
        BY <4>8, <4>9
    <3>6. CASE PrintUp(t) \/ PrintDown(t)
      BY <3>5, <3>6, PrintedType DEF PrintUp, PrintDown, TypeOK, limitVars
    <3>7. CASE Fclose(t)
      <4>1. init_txt' \in Seq(Data) /\ Len(init_txt') <= 2
        BY <3>7, Overlaid DEF Fclose, TypeOK
      <4> QED
        BY <3>7, <4>1 DEF Fclose, TypeOK
    <3> QED
      BY <1>8, <3>1, <3>2, <3>3, <3>4, <3>6, <3>7 DEF Working
  <2> QED
    BY <2>1, <2>2, <2>3 DEF TypeOK
<1>9. ASSUME NEW t \in Threads, Answer(t) PROVE TypeOK'
  <2>1. answered' \in 0..MaxMsg
    <3>1. /\ Len(inbox') \in Nat /\ Accepted' \in 0..1 /\ created' \in Nat /\ sent' \in 0..MaxMsg
          /\ answered' \in Nat
      BY <1>9, LenProperties DEF TypeOK, Answer, Accepted
    <3>2. created' + Len(inbox') + Accepted' <= sent'
      BY <1>0 DEF Counts
    <3>3. Cardinality(Busy') \in Nat /\ created' = answered' + Cardinality(Busy')
      BY <1>0, FS_CardinalityType DEF Counts
    <3> QED
      BY <3>1, <3>2, <3>3
  <2>2. /\ pc' \in [Threads -> Labels] /\ made' \in [Threads -> Message]
        /\ buf' \in [Threads -> Limits]
        /\ file' \in [Threads -> Seq(Data)] /\ \A s \in Threads : Len(file'[s]) <= 2
    <3>1. Zero \in Message /\ [up |-> 0, down |-> 0] \in Limits
      BY DEF Zero, Message, Limits, Data, Start
    <3>2. <<>> \in Seq(Data) /\ Len(<<>>) = 0
      BY EmptySeq
    <3> QED
      BY <1>9, <3>1, <3>2 DEF Answer, Free, TypeOK, Labels
  <2> QED
    BY <1>9, <2>1, <2>2 DEF Answer, SendOk, Free, TypeOK, mainVars, limitVars
<1>10. CASE UNCHANGED vars
  BY <1>10 DEF vars, TypeOK, mainVars, threadVars, limitVars, history
<1> QED
  BY <1>1, <1>2, <1>3, <1>4, <1>5, <1>6, <1>7, <1>8, <1>9, <1>10, Kinds

ClientInv == TypeOK /\ Counts /\ Lines

LEMMA ClientInvariant == Spec => []ClientInv
<1>1. Init => ClientInv
  BY TypeInit DEF ClientInv
<1>2. ClientInv /\ [Next]_vars => ClientInv'
  BY TypeStep, CountsStep, LinesStep DEF ClientInv
<1> QED
  BY <1>1, <1>2, PTL DEF Spec

(* The client's variables keep their types; in particular neither a FILE   *)
(* nor init.txt ever has more lines than there are thresholds, and no more *)
(* commands are accepted or answered than the server sent.                 *)
THEOREM TypeCorrect == Spec => []TypeOK
<1>1. ClientInv => TypeOK
  BY DEF ClientInv
<1> QED
  BY <1>1, ClientInvariant, PTL

(* client.c:108-124: no command is lost or answered twice. *)
THEOREM AnsweredOnce == Spec => []OneAnswerPerCommand
<1>1. ClientInv => OneAnswerPerCommand
  BY DEF ClientInv, Counts, Busy, OneAnswerPerCommand
<1> QED
  BY <1>1, ClientInvariant, PTL
-----------------------------------------------------------------------------
(* The order of messages: a number that is not 0 is of a message no older   *)
(* than those that threads were created for.                               *)
Recent(d) == d = 0 \/ (d <= Top /\ \A t \in Threads : made[t].data <= d)

(* threadbuf and the messages behind it are in the order they were sent    *)
(* in, and what a thread has copied is of its message or a later one.      *)
Ordered ==
  /\ \A t \in Threads : made[t].data <= Top
  /\ Recent(threadbuf.data)
  /\ \A i \in 1..Len(inbox) : /\ Recent(inbox[i].data)
                              /\ inbox[i].data = 0 \/ threadbuf.data <= inbox[i].data
  /\ \A i, j \in 1..Len(inbox) : i < j => inbox[j].data = 0 \/ inbox[i].data <= inbox[j].data
  /\ \A t \in Threads :
       /\ pc[t] \in {"copied", "set_up", "ctrl"} => buf[t].up \in {0} \cup made[t].data..Top
       /\ pc[t] \in {"set_up", "ctrl"} => buf[t].down \in {0} \cup made[t].data..Top

LEMMA OrderedInit == Init => Ordered
<1> SUFFICES ASSUME Init PROVE Ordered
  OBVIOUS
<1>1. Len(inbox) = 0
  BY EmptySeq DEF Init
<1>2. \A t \in Threads : made[t].data = 0 /\ pc[t] = "free"
  BY DEF Init, Zero
<1>3. Top = 1 /\ threadbuf.data = 0
  BY DEF Init, Zero, Top
<1>4. 1..Len(inbox) = {}
  BY <1>1
<1> QED
  BY <1>2, <1>3, <1>4 DEF Ordered, Recent

LEMMA OrderedStep == TypeOK /\ Ordered /\ [Next]_vars => Ordered'
<1> SUFFICES ASSUME TypeOK, Ordered, [Next]_vars PROVE Ordered'
  OBVIOUS
<1>0. /\ Top \in Nat /\ Len(inbox) \in Nat /\ threadbuf.data \in Nat
      /\ \A t \in Threads : made[t].data \in Nat
      /\ \A i \in 1..Len(inbox) : inbox[i].data \in Nat
  <2>1. Data \subseteq Nat
    BY DEF Data, Start
  <2>2. \A i \in 1..Len(inbox) : inbox[i] \in Message
    BY ElementOfSeq DEF TypeOK
  <2>3. \A m \in Message : m.data \in Nat
    <3>1. \A m \in Message : m.data \in Data
      BY DEF Message
    <3> QED
      BY <2>1, <3>1
  <2>4. Top \in Nat /\ Len(inbox) \in Nat
    BY LenProperties DEF TypeOK, Top
  <2>5. threadbuf.data \in Nat /\ \A t \in Threads : made[t].data \in Nat
    BY <2>3 DEF TypeOK
  <2> QED
    BY <2>2, <2>3, <2>4, <2>5
<1>1. CASE ServerSends
  <2>1. PICK m \in Message : inbox' = Append(inbox, m) /\ m.data \in {0, Top + 1, Top + 2}
    BY <1>1, SentMessage
  <2>2. /\ Top' = Top + 2
        /\ UNCHANGED <<made, threadbuf, pc, buf>>
    BY <1>1, SentMessage DEF ServerSends, mainVars, threadVars
  <2>3. /\ Len(inbox') = Len(inbox) + 1
        /\ \A i \in 1..Len(inbox) : inbox'[i] = inbox[i]
        /\ inbox'[Len(inbox) + 1] = m
    BY <2>1, Added DEF TypeOK
  <2>4. \A n \in Nat : n <= Top => n <= Top'
    BY <1>0, <2>2
  <2>5. \A n \in Nat : Recent(n) => Recent(n)'
    BY <2>2, <2>4 DEF Recent
  <2>6. Recent(m.data)'
    BY <1>0, <2>1, <2>2 DEF Recent, Ordered
  <2>7. \A n \in Nat : Recent(n) => m.data = 0 \/ n <= m.data
    BY <1>0, <2>1 DEF Recent
  <2>8. \A i \in 1..Len(inbox') : i \in 1..Len(inbox) \/ i = Len(inbox) + 1
    BY <1>0, <2>3
  <2>9. /\ \A t \in Threads : made'[t].data <= Top'
        /\ Recent(threadbuf.data)'
    BY <1>0, <2>2, <2>4, <2>5 DEF Ordered
  <2>10. ASSUME NEW i \in 1..Len(inbox')
         PROVE  Recent(inbox[i].data)' /\ (inbox'[i].data = 0 \/ threadbuf'.data <= inbox'[i].data)
    BY <1>0, <2>2, <2>3, <2>5, <2>6, <2>7, <2>8 DEF Ordered
  <2>11. ASSUME NEW i \in 1..Len(inbox'), NEW j \in 1..Len(inbox'), i < j
         PROVE  inbox'[j].data = 0 \/ inbox'[i].data <= inbox'[j].data
    <3>1. i \in 1..Len(inbox)
      BY <1>0, <2>3, <2>11
    <3>2. CASE j \in 1..Len(inbox)
      BY <2>3, <2>11, <3>1, <3>2 DEF Ordered
    <3>3. CASE j = Len(inbox) + 1
      BY <1>0, <2>3, <2>7, <3>1, <3>3 DEF Ordered
    <3> QED
      BY <2>8, <3>2, <3>3
  <2>12. ASSUME NEW t \in Threads
         PROVE  {0} \cup made[t].data..Top \subseteq {0} \cup made'[t].data..Top'
    BY <1>0, <2>2
  <2>13. ASSUME NEW t \in Threads
         PROVE  /\ pc'[t] \in {"copied", "set_up", "ctrl"} => buf'[t].up \in {0} \cup made'[t].data..Top'
                /\ pc'[t] \in {"set_up", "ctrl"} => buf'[t].down \in {0} \cup made'[t].data..Top'
    BY <2>2, <2>12 DEF Ordered
  <2> QED
    BY <2>9, <2>10, <2>11, <2>13 DEF Ordered
<1>2. CASE RecvMsg
  <2>1. /\ Len(inbox') = Len(inbox) - 1
        /\ \A i \in 1..Len(inbox') : i + 1 \in 1..Len(inbox) /\ inbox'[i] = inbox[i + 1]
        /\ 1 \in 1..Len(inbox) /\ threadbuf' = inbox[1]
    BY <1>2, Taken, LenProperties DEF RecvMsg, TypeOK
  <2>2. UNCHANGED <<made, pc, buf>> /\ Top' = Top
    BY <1>2 DEF RecvMsg, threadVars, Top
  <2>3. \A n : Recent(n)' = Recent(n)
    BY <2>2 DEF Recent
  <2>4. Recent(threadbuf.data)'
    BY <2>1, <2>3 DEF Ordered
  <2>5. ASSUME NEW i \in 1..Len(inbox')
        PROVE  Recent(inbox[i].data)' /\ (inbox'[i].data = 0 \/ threadbuf'.data <= inbox'[i].data)
    <3>1. 1 < i + 1
      OBVIOUS
    <3> QED
      BY <2>1, <2>3, <3>1 DEF Ordered
  <2>6. ASSUME NEW i \in 1..Len(inbox'), NEW j \in 1..Len(inbox'), i < j
        PROVE  inbox'[j].data = 0 \/ inbox'[i].data <= inbox'[j].data
    <3>1. i + 1 < j + 1
      BY <2>6
    <3> QED
      BY <2>1, <3>1 DEF Ordered
  <2> QED
    BY <2>2, <2>4, <2>5, <2>6 DEF Ordered
<1>3. CASE RecvErr
  <2>1. threadbuf'.data = 0 /\ 1..Len(inbox') = {} /\ UNCHANGED <<made, pc, buf>> /\ Top' = Top
    <3>1. Len(inbox') = 0
      BY <1>3, EmptySeq DEF RecvErr
    <3>2. 1..Len(inbox') = {}
      BY <3>1
    <3> QED
      BY <1>3, <3>2 DEF RecvErr, Zero, threadVars, Top
  <2> QED
    BY <2>1 DEF Ordered, Recent
<1>4. CASE read_config
  <2>1. threadbuf'.data = 0 /\ 1..Len(inbox') = {} /\ Top' = Top
    <3>1. Len(inbox') = 0
      BY <1>4, EmptySeq DEF read_config
    <3>2. 1..Len(inbox') = {}
      BY <3>1
    <3> QED
      BY <1>4, <3>2 DEF read_config, Zero, Top
  <2>2. \A t \in Threads : made'[t].data = 0 /\ pc'[t] = "free"
    BY <1>4 DEF read_config, Zero
  <2>3. 0 <= Top'
    BY <1>0, <2>1
  <2> QED
    BY <2>1, <2>2, <2>3 DEF Ordered, Recent
<1>5. ASSUME NEW t \in Threads, Create(t) PROVE Ordered'
  <2>1. /\ made' = [made EXCEPT ![t] = threadbuf]
        /\ UNCHANGED <<inbox, threadbuf, buf>> /\ Top' = Top
    BY <1>5 DEF Create, Top
  <2>2. /\ pc'[t] \notin {"copied", "set_up", "ctrl"}
        /\ \A s \in Threads \ {t} : pc'[s] = pc[s]
    BY <1>5 DEF Create, Goto, TypeOK
  <2>3. /\ made'[t] = threadbuf
        /\ \A s \in Threads \ {t} : made'[s] = made[s]
    BY <2>1 DEF TypeOK
  <2>4. threadbuf.data <= Top
    BY <1>0 DEF Ordered, Recent
  <2>5. ASSUME NEW d \in Nat, Recent(d), d = 0 \/ threadbuf.data <= d PROVE Recent(d)'
    BY <2>1, <2>3, <2>5 DEF Recent
  <2>6. Recent(threadbuf.data)'
    <3>1. threadbuf.data <= threadbuf.data
      BY <1>0
    <3> QED
      BY <1>0, <2>1, <2>5, <3>1 DEF Ordered
  <2>7. ASSUME NEW i \in 1..Len(inbox) PROVE Recent(inbox[i].data)'
    BY <1>0, <2>1, <2>5 DEF Ordered
  <2>8. \A s \in Threads : made'[s].data <= Top'
    BY <2>1, <2>3, <2>4 DEF Ordered
  <2>9. ASSUME NEW s \in Threads
        PROVE  /\ pc'[s] \in {"copied", "set_up", "ctrl"} => buf'[s].up \in {0} \cup made'[s].data..Top'
               /\ pc'[s] \in {"set_up", "ctrl"} => buf'[s].down \in {0} \cup made'[s].data..Top'
    BY <2>1, <2>2, <2>3 DEF Ordered
  <2> QED
    BY <2>1, <2>6, <2>7, <2>8, <2>9 DEF Ordered
<1>6. ASSUME NEW t \in Threads, Working(t) PROVE Ordered'
  <2>1. UNCHANGED <<inbox, threadbuf, made>> /\ Top' = Top
    BY <1>6, Works DEF mainVars, Top
  <2>2. threadbuf.data \in {0} \cup made[t].data..Top
    BY <1>0 DEF Ordered, Recent
  <2>3. ASSUME NEW s \in Threads
        PROVE  /\ pc'[s] \in {"copied", "set_up", "ctrl"} => buf'[s].up \in {0} \cup made[s].data..Top
               /\ pc'[s] \in {"set_up", "ctrl"} => buf'[s].down \in {0} \cup made[s].data..Top
    <3>1. CASE CopyUp(t)
      BY <2>2, <3>1 DEF CopyUp, Goto, TypeOK, Ordered, Limits
    <3>2. CASE CopyDown(t)
      BY <2>2, <3>2 DEF CopyDown, At, Goto, TypeOK, Ordered, Limits
    <3>3. CASE Getenv(t) \/ Ctrl(t)
      BY <3>3 DEF Getenv, Ctrl, Goto, TypeOK, Ordered
    <3>4. CASE SetUp(t) \/ SetDown(t) \/ Fopen(t)
      BY <3>4 DEF SetUp, SetDown, Fopen, Goto, TypeOK, Ordered
    <3>5. CASE PrintUp(t) \/ PrintDown(t) \/ Fclose(t)
      BY <3>5 DEF PrintUp, PrintDown, Fclose, Goto, TypeOK, Ordered
    <3> QED
      BY <1>6, <3>1, <3>2, <3>3, <3>4, <3>5 DEF Working
  <2> QED
    BY <2>1, <2>3 DEF Ordered, Recent
<1>7. ASSUME NEW t \in Threads, Answer(t) PROVE Ordered'
  <2>1. /\ UNCHANGED <<inbox, threadbuf>> /\ Top' = Top
        /\ made'[t].data = 0 /\ pc'[t] = "free"
        /\ \A s \in Threads \ {t} : made'[s] = made[s] /\ pc'[s] = pc[s] /\ buf'[s] = buf[s]
    BY <1>7 DEF Answer, Free, mainVars, Zero, TypeOK, Top
  <2>2. ASSUME NEW d \in Nat, Recent(d) PROVE Recent(d)'
    BY <2>1, <2>2 DEF Recent
  <2>3. Recent(threadbuf.data)' /\ \A i \in 1..Len(inbox) : Recent(inbox[i].data)'
    BY <1>0, <2>1, <2>2 DEF Ordered
  <2>4. \A s \in Threads : made'[s].data <= Top'
    BY <1>0, <2>1 DEF Ordered
  <2>5. ASSUME NEW s \in Threads
        PROVE  /\ pc'[s] \in {"copied", "set_up", "ctrl"} => buf'[s].up \in {0} \cup made'[s].data..Top'
               /\ pc'[s] \in {"set_up", "ctrl"} => buf'[s].down \in {0} \cup made'[s].data..Top'
    BY <2>1 DEF Ordered
  <2> QED
    BY <2>1, <2>3, <2>4, <2>5 DEF Ordered
<1>8. CASE ConnectionEnds \/ Pong \/ Stops \/ UNCHANGED vars
  <2>1. UNCHANGED <<inbox, threadbuf, made, pc, buf>> /\ Top' = Top
    BY <1>8 DEF ConnectionEnds, Pong, Stops, vars, mainVars, threadVars, Top
  <2> QED
    BY <2>1 DEF Ordered, Recent
<1> QED
  BY <1>1, <1>2, <1>3, <1>4, <1>5, <1>6, <1>7, <1>8, Kinds
-----------------------------------------------------------------------------
(* A thread that no message came upon while it copied has threadbuf for    *)
(* its message as long as it copies, and what it copied is that message's. *)
Undisturbed ==
  \A t \in Threads : t \notin mixed =>
    /\ pc[t] \in {"copy", "copied"} => threadbuf = made[t]
    /\ pc[t] \in {"copied", "set_up", "ctrl"} => buf[t].up = made[t].data
    /\ pc[t] \in {"set_up", "ctrl"} => buf[t].down = made[t].data

LEMMA UndisturbedStep == TypeOK /\ Undisturbed /\ [Next]_vars => Undisturbed'
<1> SUFFICES ASSUME TypeOK, Undisturbed, [Next]_vars PROVE Undisturbed'
  OBVIOUS
<1> USE DEF Undisturbed
<1>1. CASE ServerSends \/ ConnectionEnds \/ Pong \/ Stops \/ UNCHANGED vars
  <2>1. UNCHANGED <<threadbuf, made, pc, buf, mixed>>
    BY <1>1 DEF ServerSends, ConnectionEnds, Pong, Stops, vars, mainVars, threadVars, history
  <2> QED
    BY <2>1
<1>2. CASE RecvMsg \/ RecvErr
  <2>1. UNCHANGED <<made, pc, buf>> /\ mixed' = mixed \cup Copying
    BY <1>2 DEF RecvMsg, RecvErr, Disturb, threadVars
  <2> QED
    BY <2>1 DEF Copying
<1>3. CASE read_config
  BY <1>3 DEF read_config
<1>4. ASSUME NEW t \in Threads, Create(t) PROVE Undisturbed'
  <2>1. UNCHANGED <<threadbuf, buf>> /\ mixed \subseteq mixed'
    BY <1>4 DEF Create
  <2>2. made' = [made EXCEPT ![t] = threadbuf] /\ pc'[t] \in {"getenv", "copy"}
    BY <1>4 DEF Create, Goto, TypeOK
  <2>3. \A s \in Threads \ {t} : pc'[s] = pc[s]
    BY <1>4 DEF Create, Goto, TypeOK
  <2> QED
    BY <2>1, <2>2, <2>3 DEF TypeOK
<1>5. ASSUME NEW t \in Threads, Working(t) PROVE Undisturbed'
  <2>1. UNCHANGED <<threadbuf, made, mixed>>
    BY <1>5, Works DEF mainVars
  <2>2. CASE CopyUp(t)
    BY <2>1, <2>2 DEF CopyUp, At, Goto, TypeOK, Limits
  <2>3. CASE CopyDown(t)
    BY <2>1, <2>3 DEF CopyDown, At, Goto, TypeOK, Limits
  <2>4. CASE Getenv(t) \/ Ctrl(t)
    BY <2>1, <2>4 DEF Getenv, Ctrl, Goto, TypeOK
  <2>5. CASE SetUp(t) \/ SetDown(t) \/ Fopen(t)
    BY <2>1, <2>5 DEF SetUp, SetDown, Fopen, Goto, TypeOK
  <2>6. CASE PrintUp(t) \/ PrintDown(t) \/ Fclose(t)
    BY <2>1, <2>6 DEF PrintUp, PrintDown, Fclose, Goto, TypeOK
  <2> QED
    BY <1>5, <2>2, <2>3, <2>4, <2>5, <2>6 DEF Working
<1>6. ASSUME NEW t \in Threads, Answer(t) PROVE Undisturbed'
  BY <1>6 DEF Answer, Free, mainVars, TypeOK
<1> QED
  BY <1>1, <1>2, <1>3, <1>4, <1>5, <1>6, Kinds

(* client.c:107-126: whatever order messages and threads come in, no       *)
(* thread acts on a message older than its own, and it acts on its own     *)
(* unless another message came while it copied.                            *)
THEOREM ActsOnOwn == Spec => []ActsOnOwnUnlessMet
<1>1. Init => Ordered /\ Undisturbed
  BY OrderedInit DEF Init, Undisturbed
<1>2. ClientInv /\ Ordered /\ Undisturbed /\ [Next]_vars => Ordered' /\ Undisturbed'
  BY OrderedStep, UndisturbedStep DEF ClientInv
<1>3. ClientInv /\ Ordered /\ Undisturbed => ActsOnOwnUnlessMet
  <2> SUFFICES ASSUME ClientInv, Ordered, Undisturbed, NEW t \in Threads, pc[t] \in {"set_up", "ctrl"}
               PROVE  /\ t \in mixed \/ buf[t] = [up |-> made[t].data, down |-> made[t].data]
                      /\ {buf[t].up, buf[t].down} \subseteq {0} \cup made[t].data..Top
    BY DEF ActsOnOwnUnlessMet, Top
  <2>1. buf[t].up \in {0} \cup made[t].data..Top /\ buf[t].down \in {0} \cup made[t].data..Top
    BY DEF Ordered
  <2>2. t \notin mixed => buf[t].up = made[t].data /\ buf[t].down = made[t].data
    BY DEF Undisturbed
  <2>3. buf[t] = [up |-> buf[t].up, down |-> buf[t].down]
    BY DEF ClientInv, TypeOK, Limits
  <2> QED
    BY <2>1, <2>2, <2>3
<1> QED
  BY <1>1, <1>2, <1>3, ClientInvariant, PTL DEF Spec
-----------------------------------------------------------------------------
Between == {"set_down", "fopen", "print_up", "print_down", "fclose"}

(* A thread that is not mixed is the only one that sets thresholds, and    *)
(* met is TRUE as long as one that is mixed sets any.                      *)
Apart ==
  /\ \A t \in Threads : pc[t] = "free" => t \notin mixed
  /\ \A t \in Threads : pc[t] \in Between \cup {"set_up"} => made[t].commd = 2
  /\ \A s \in Setting \ mixed, t \in Setting : s = t
  /\ ~met => Setting \cap mixed = {}

LEMMA ApartStep == TypeOK /\ Apart /\ [Next]_vars => Apart'
<1> SUFFICES ASSUME TypeOK, Apart, [Next]_vars PROVE Apart'
  OBVIOUS
<1> USE DEF Apart
<1>1. CASE ServerSends \/ ConnectionEnds \/ Pong \/ Stops \/ UNCHANGED vars
  <2>1. UNCHANGED <<pc, made, mixed, met>> /\ Setting' = Setting
    BY <1>1 DEF ServerSends, ConnectionEnds, Pong, Stops, vars, threadVars, history, Setting
  <2> QED
    BY <2>1
<1>2. CASE RecvMsg \/ RecvErr
  <2>1. UNCHANGED <<pc, made>> /\ Setting' = Setting
    BY <1>2 DEF RecvMsg, RecvErr, threadVars, Setting
  <2>2. mixed' = mixed \cup Copying /\ met' = (met \/ Copying \cap Setting # {})
    BY <1>2 DEF RecvMsg, RecvErr, Disturb
  <2> QED
    BY <2>1, <2>2 DEF Copying
<1>3. CASE read_config
  BY <1>3 DEF read_config, Setting, Between
<1>4. ASSUME NEW t \in Threads, Create(t) PROVE Apart'
  <2>1. /\ pc'[t] \in {"getenv", "copy"} /\ made'[t] = threadbuf /\ pc[t] = "free"
        /\ \A s \in Threads \ {t} : pc'[s] = pc[s] /\ made'[s] = made[s]
    BY <1>4 DEF Create, Goto, TypeOK
  <2>2. Setting' = IF threadbuf.commd = 2 THEN Setting \cup {t} ELSE Setting
    BY <2>1 DEF Setting
  <2>3. t \notin Setting /\ t \notin mixed
    BY <2>1 DEF Setting
  <2>4. \A s \in Threads : pc'[s] \in Between \cup {"set_up"} => made'[s].commd = 2
    BY <2>1 DEF Between
  <2>5. CASE threadbuf.commd = 2 /\ Setting # {}
    <3>1. met' = TRUE /\ mixed' = mixed \cup Setting \cup {t}
      BY <1>4, <2>5 DEF Create
    <3>2. \A s \in Threads : pc'[s] = "free" => s \notin mixed'
      BY <2>1, <3>1 DEF Setting
    <3> QED
      BY <2>2, <2>4, <2>5, <3>1, <3>2
  <2>6. CASE ~(threadbuf.commd = 2 /\ Setting # {})
    <3>1. UNCHANGED <<met, mixed>>
      BY <1>4, <2>6 DEF Create
    <3> QED
      BY <2>1, <2>2, <2>3, <2>4, <2>6, <3>1
  <2> QED
    BY <2>5, <2>6
<1>5. ASSUME NEW t \in Threads, Answer(t) PROVE Apart'
  <2>1. /\ met' = met /\ mixed' = mixed \ {t}
        /\ pc'[t] = "free" /\ \A s \in Threads \ {t} : pc'[s] = pc[s] /\ made'[s] = made[s]
    BY <1>5 DEF Answer, Free, TypeOK
  <2>2. Setting' = Setting \ {t}
    BY <2>1 DEF Setting
  <2> QED
    BY <2>1, <2>2 DEF Between
<1>6. ASSUME NEW t \in Threads, Working(t) PROVE Apart'
  <2>1. /\ UNCHANGED <<made, mixed>> /\ pc[t] # "free" /\ pc'[t] # "free"
        /\ \A s \in Threads \ {t} : pc'[s] = pc[s]
    BY <1>6, Works DEF TypeOK
  <2>2. pc'[t] \in Between \cup {"set_up"} => made[t].commd = 2
    BY <1>6 DEF Working, CopyUp, CopyDown, Getenv, Ctrl, SetUp, SetDown, Fopen, PrintUp,
                PrintDown, Fclose, At, Goto, Between, TypeOK
  <2>3. Setting' \subseteq Setting
    <3>1. pc[t] # "answer"
      BY <1>6 DEF Working, CopyUp, CopyDown, Getenv, Ctrl, SetUp, SetDown, Fopen, PrintUp,
                  PrintDown, Fclose, At
    <3> QED
      BY <2>1, <3>1 DEF Setting
  <2>4. ASSUME ~met' PROVE Setting' \cap mixed' = {}
    <3>1. CASE ~met
      BY <2>1, <2>3, <3>1
    <3>2. CASE met
      <4>1. Fclose(t) /\ t \notin mixed
        BY <1>6, <2>4, <3>2, Works DEF Fclose
      <4>2. t \in Setting
        BY <4>1 DEF Fclose, At, Setting, Between
      <4>3. t \notin Setting'
        BY <4>1 DEF Fclose, Goto, Setting, TypeOK
      <4> QED
        BY <2>3, <4>1, <4>2, <4>3
    <3> QED
      BY <3>1, <3>2
  <2> QED
    BY <2>1, <2>2, <2>3, <2>4
<1> QED
  BY <1>1, <1>2, <1>3, <1>4, <1>5, <1>6, Kinds
-----------------------------------------------------------------------------
(* How far a thread has come that sets thresholds alone. *)
Written(t) ==
  /\ pc[t] = "set_down" => up = buf[t].down
  /\ pc[t] \in {"fopen", "print_up", "print_down", "fclose"} => up = down
  /\ pc[t] \in {"print_up", "print_down", "fclose"} => init_txt = <<>>
  /\ pc[t] = "print_down" => file[t] = <<Printed(up)>>
  /\ pc[t] = "fclose" => file[t] = <<Printed(up), Printed(down)>>

Alone == main # "stopped" => \A t \in Setting \ mixed : Written(t)

LEMMA AloneStep ==
  TypeOK /\ Lines /\ Undisturbed /\ Apart /\ Alone /\ [Next]_vars => Alone'
<1> SUFFICES ASSUME TypeOK, Lines, Undisturbed, Apart, Alone, [Next]_vars,
                    main' # "stopped", NEW s \in Setting', s \notin mixed'
             PROVE  Written(s)'
  BY DEF Alone
<1>0. s \in Threads
  BY DEF Setting
<1>1. CASE ServerSends \/ ConnectionEnds \/ Pong \/ RecvMsg \/ RecvErr \/ UNCHANGED vars
  <2>1. UNCHANGED <<pc, made, buf, file, up, down, init_txt>> /\ Setting' = Setting
    BY <1>1 DEF ServerSends, ConnectionEnds, Pong, RecvMsg, RecvErr, vars, threadVars, limitVars, Setting
  <2>2. mixed \subseteq mixed' /\ main # "stopped"
    BY <1>1 DEF ServerSends, ConnectionEnds, Pong, RecvMsg, RecvErr, Disturb, vars, mainVars, history
  <2> QED
    BY <2>1, <2>2 DEF Alone, Written
<1>2. CASE Stops
  BY <1>2 DEF Stops
<1>3. CASE read_config
  BY <1>0, <1>3 DEF read_config, Setting
<1>4. ASSUME NEW t \in Threads, Create(t) PROVE Written(s)'
  <2>1. UNCHANGED <<buf, file, up, down, init_txt>> /\ mixed \subseteq mixed' /\ main # "stopped"
    BY <1>4 DEF Create, limitVars
  <2>2. /\ pc'[t] \in {"getenv", "copy"}
        /\ \A r \in Threads \ {t} : pc'[r] = pc[r] /\ made'[r] = made[r]
    BY <1>4 DEF Create, Goto, TypeOK
  <2>3. CASE s = t
    BY <2>2, <2>3 DEF Written
  <2>4. CASE s # t
    <3>1. pc'[s] = pc[s] /\ s \in Setting
      BY <1>0, <2>2, <2>4 DEF Setting
    <3> QED
      BY <2>1, <3>1 DEF Alone, Written
  <2> QED
    BY <2>3, <2>4
<1>5. ASSUME NEW t \in Threads, Answer(t) PROVE Written(s)'
  <2>1. /\ UNCHANGED <<main, up, down, init_txt>> /\ main # "stopped" /\ mixed' = mixed \ {t}
        /\ pc'[t] = "free"
        /\ \A r \in Threads \ {t} :
             pc'[r] = pc[r] /\ made'[r] = made[r] /\ buf'[r] = buf[r] /\ file'[r] = file[r]
    BY <1>5 DEF Answer, At, Free, mainVars, limitVars, TypeOK
  <2>2. s # t /\ s \in Setting /\ s \notin mixed
    BY <1>0, <2>1 DEF Setting
  <2> QED
    BY <1>0, <2>1, <2>2 DEF Alone, Written
<1>6. ASSUME NEW t \in Threads, Working(t) PROVE Written(s)'
  <2>1. /\ UNCHANGED <<made, mixed, main>> /\ main # "stopped" /\ pc[t] # "free"
        /\ \A r \in Threads \ {t} : pc'[r] = pc[r]
    BY <1>6, Works DEF mainVars, TypeOK
  <2>2. CASE CopyUp(t) \/ CopyDown(t) \/ Getenv(t) \/ Ctrl(t)
    <3>1. /\ UNCHANGED <<up, down, init_txt, file>>
          /\ pc'[t] \notin Between /\ pc[t] \notin {"free", "answer"}
          /\ \A r \in Threads \ {t} : buf'[r] = buf[r]
      BY <2>2 DEF CopyUp, CopyDown, Getenv, Ctrl, At, Goto, limitVars, Between, TypeOK
    <3>2. s \in Setting /\ s \notin mixed
      BY <1>0, <2>1, <3>1 DEF Setting
    <3> QED
      BY <1>0, <2>1, <3>1, <3>2 DEF Alone, Written, Between
  <2>3. CASE SetUp(t) \/ SetDown(t) \/ Fopen(t) \/ PrintUp(t) \/ PrintDown(t) \/ Fclose(t)
    <3>1. pc[t] \in Between \cup {"set_up"} /\ t \in Setting
      BY <2>3 DEF SetUp, SetDown, Fopen, PrintUp, PrintDown, Fclose, At, Between, Apart, Setting
    <3>2. s \in Setting /\ s \notin mixed
      BY <1>0, <2>1, <3>1 DEF Setting
    <3>3. s = t
      BY <3>1, <3>2 DEF Apart
    <3>4. Written(t) /\ t \notin mixed
      BY <2>1, <3>2, <3>3 DEF Alone
    <3>5. Written(t)'
      <4>1. CASE SetUp(t)
        <5>1. buf[t].up = buf[t].down
          BY <3>4, <4>1 DEF SetUp, At, Undisturbed
        <5> QED
          BY <4>1, <5>1 DEF SetUp, Goto, Written, TypeOK
      <4>2. CASE SetDown(t)
        <5>1. up = buf[t].down
          BY <3>4, <4>2 DEF SetDown, At, Written
        <5> QED
          BY <4>2, <5>1 DEF SetDown, Goto, Written, TypeOK
      <4>3. CASE Fopen(t)
        <5>1. up = down
          BY <3>4, <4>3 DEF Fopen, At, Written
        <5> QED
          BY <4>3, <5>1 DEF Fopen, Goto, Written, TypeOK
      <4>4. CASE PrintUp(t)
        <5>1. up = down /\ init_txt = <<>> /\ file[t] = <<>>
          BY <3>4, <4>4 DEF PrintUp, At, Written, Lines
        <5>2. pc'[t] = "print_down" /\ file'[t] = Append(file[t], Printed(up))
          BY <4>4 DEF PrintUp, Goto, TypeOK
        <5>3. file'[t] = <<Printed(up)>>
          BY <5>1, <5>2
        <5>4. up' = up /\ down' = down /\ init_txt' = init_txt /\ Printed(up)' = Printed(up)
          BY <4>4 DEF PrintUp, limitVars, Printed
        <5> QED
          BY <5>1, <5>2, <5>3, <5>4 DEF Written
      <4>5. CASE PrintDown(t)
        <5>1. up = down /\ init_txt = <<>> /\ file[t] = <<Printed(up)>>
          BY <3>4, <4>5 DEF PrintDown, At, Written
        <5>2. pc'[t] = "fclose" /\ file'[t] = Append(file[t], Printed(down))
          BY <4>5 DEF PrintDown, Goto, TypeOK
        <5>3. file'[t] = <<Printed(up), Printed(down)>>
          BY <5>1, <5>2, TwoLines
        <5>4. /\ up' = up /\ down' = down /\ init_txt' = init_txt
              /\ Printed(up)' = Printed(up) /\ Printed(down)' = Printed(down)
          BY <4>5 DEF PrintDown, limitVars, Printed
        <5> QED
          BY <5>1, <5>2, <5>3, <5>4 DEF Written
      <4>6. CASE Fclose(t)
        BY <4>6 DEF Fclose, Goto, Written, TypeOK
      <4> QED
        BY <2>3, <4>1, <4>2, <4>3, <4>4, <4>5, <4>6
    <3> QED
      BY <3>3, <3>5
  <2> QED
    BY <1>6, <2>2, <2>3 DEF Working
<1> QED
  BY <1>1, <1>2, <1>3, <1>4, <1>5, <1>6, Kinds
-----------------------------------------------------------------------------
(* What the file may be, and what it and the thresholds are while no       *)
(* thread is between its first assignment and its fclose.                  *)
Whole == Len(init_txt) = 2 => \E v \in Data : init_txt = <<Printed(v), Printed(v)>>

Agrees ==
  IF Len(init_txt) = 2
  THEN up = down /\ init_txt = <<Printed(up), Printed(down)>>
  ELSE starts > 0 /\ up = Line(1) /\ down = Line(2)

Kept ==
  ~met => /\ Whole
          /\ main # "stopped" /\ (\A t \in Threads : pc[t] \notin Between) => Agrees

(* What a thread that is alone leaves in the file, however far it came. *)
LEMMA Flushed ==
  ASSUME TypeOK, Lines, NEW t \in Threads, Written(t), pc[t] \in {"print_up", "print_down", "fclose"}
  PROVE  /\ Overlay(file[t]) = file[t]
         /\ Len(file[t]) = 2 => file[t] = <<Printed(up), Printed(up)>> /\ pc[t] = "fclose"
         /\ pc[t] = "fclose" => up = down /\ Len(file[t]) = 2
<1>1. init_txt = <<>> /\ up = down
  BY DEF Written
<1>2. Overlay(file[t]) = file[t]
  BY <1>1, Overlaid DEF TypeOK
<1>3. CASE pc[t] = "print_up"
  BY <1>2, <1>3, EmptySeq DEF Lines
<1>4. CASE pc[t] = "print_down"
  BY <1>2, <1>4 DEF Lines
<1>5. CASE pc[t] = "fclose"
  <2>1. file[t] = <<Printed(up), Printed(up)>>
    BY <1>1, <1>5 DEF Written
  <2>2. Len(<<Printed(up), Printed(up)>>) = 2
    OBVIOUS
  <2> QED
    BY <1>1, <1>2, <1>5, <2>1, <2>2
<1> QED
  BY <1>3, <1>4, <1>5

LEMMA KeptStep ==
  TypeOK /\ Lines /\ Apart /\ Alone /\ Kept /\ [Next]_vars => Kept'
<1> SUFFICES ASSUME TypeOK, Lines, Apart, Alone, Kept, [Next]_vars, ~met'
             PROVE  /\ Whole'
                    /\ main' # "stopped" /\ (\A t \in Threads : pc'[t] \notin Between) => Agrees'
  BY DEF Kept
<1>1. CASE ServerSends \/ ConnectionEnds \/ Pong \/ RecvMsg \/ RecvErr \/ UNCHANGED vars
  <2>1. UNCHANGED <<pc, up, down, init_txt, starts>>
    BY <1>1 DEF ServerSends, ConnectionEnds, Pong, RecvMsg, RecvErr, vars, threadVars, limitVars, history
  <2>2. ~met /\ (main' # "stopped" => main # "stopped")
    <3>1. CASE ServerSends \/ ConnectionEnds \/ Pong \/ UNCHANGED vars
      BY <3>1 DEF ServerSends, ConnectionEnds, Pong, vars, mainVars, history
    <3>2. CASE RecvMsg \/ RecvErr
      BY <3>2 DEF RecvMsg, RecvErr, Disturb
    <3> QED
      BY <1>1, <3>1, <3>2
  <2> QED
    BY <2>1, <2>2 DEF Kept, Whole, Agrees, Line
<1>2. CASE Stops
  <2>1. ~met /\ main # "stopped" /\ main' = "stopped" /\ up' = up
    BY <1>2 DEF Stops, history
  <2>2. CASE init_txt' = init_txt
    BY <2>1, <2>2 DEF Kept, Whole
  <2>3. ASSUME NEW t \in Threads, pc[t] \in {"print_up", "print_down", "fclose"},
               init_txt' = Overlay(file[t])
        PROVE  Whole'
    <3>1. t \in Setting \ mixed
      BY <2>1, <2>3 DEF Apart, Between, Setting
    <3>2. Written(t)
      BY <2>1, <3>1 DEF Alone
    <3>3. init_txt' = file[t] /\ (Len(file[t]) = 2 => file[t] = <<Printed(up), Printed(up)>>)
      BY <2>3, <3>2, Flushed
    <3> QED
      BY <3>3 DEF Whole, TypeOK
  <2> QED
    BY <1>2, <2>1, <2>2, <2>3 DEF Stops
<1>3. CASE read_config
  <2>1. /\ UNCHANGED <<init_txt, met>> /\ starts' = starts + 1
        /\ up' = Line(1) /\ down' = Line(2) /\ Line(1)' = Line(1) /\ Line(2)' = Line(2)
    BY <1>3 DEF read_config, Line
  <2>2. Whole
    BY <2>1 DEF Kept
  <2>3. CASE Len(init_txt) = 2
    <3>1. PICK v \in Data : init_txt = <<Printed(v), Printed(v)>>
      BY <2>2, <2>3 DEF Whole
    <3>2. Line(1) = Printed(v) /\ Line(2) = Printed(v)
      BY <3>1 DEF Line
    <3>3. Printed(Printed(v)) = Printed(v)
      BY PrintedType
    <3>4. Printed(up)' = Printed(up') /\ Printed(down)' = Printed(down')
      BY DEF Printed
    <3> QED
      BY <2>1, <2>2, <2>3, <3>1, <3>2, <3>3, <3>4 DEF Agrees, Whole
  <2>4. CASE Len(init_txt) # 2
    BY <2>1, <2>4 DEF Agrees, Whole, TypeOK
  <2> QED
    BY <2>3, <2>4
<1>4. ASSUME NEW t \in Threads, Create(t) \/ Answer(t)
      PROVE  Whole' /\ (main' # "stopped" /\ (\A s \in Threads : pc'[s] \notin Between) => Agrees')
  <2>1. UNCHANGED <<up, down, init_txt, starts>> /\ ~met /\ main # "stopped"
    BY <1>4 DEF Create, Answer, At, limitVars
  <2>2. pc[t] \notin Between /\ \A s \in Threads \ {t} : pc'[s] = pc[s]
    BY <1>4 DEF Create, Answer, At, Free, Goto, Between, TypeOK
  <2> QED
    BY <2>1, <2>2 DEF Kept, Whole, Agrees, Line
<1>5. ASSUME NEW t \in Threads, Working(t)
      PROVE  Whole' /\ (main' # "stopped" /\ (\A s \in Threads : pc'[s] \notin Between) => Agrees')
  <2>1. /\ UNCHANGED <<main, starts>> /\ main # "stopped"
        /\ \A s \in Threads \ {t} : pc'[s] = pc[s]
    BY <1>5, Works DEF mainVars, TypeOK
  <2>2. CASE CopyUp(t) \/ CopyDown(t) \/ Getenv(t) \/ Ctrl(t)
    <3>1. UNCHANGED <<up, down, init_txt>> /\ ~met /\ pc[t] \notin Between
      BY <2>2, Works DEF Working, CopyUp, CopyDown, Getenv, Ctrl, At, limitVars, history, Between
    <3> QED
      BY <2>1, <3>1 DEF Kept, Whole, Agrees, Line
  <2>3. CASE SetUp(t) \/ SetDown(t) \/ PrintUp(t) \/ PrintDown(t)
    <3>1. UNCHANGED init_txt /\ ~met /\ pc'[t] \in Between
      BY <2>3 DEF SetUp, SetDown, PrintUp, PrintDown, Goto, limitVars, history, Between, TypeOK
    <3> QED
      BY <3>1 DEF Kept, Whole
  <2>4. CASE Fopen(t)
    <3>1. init_txt' = <<>> /\ pc'[t] \in Between
      BY <2>4 DEF Fopen, Goto, Between, TypeOK
    <3> QED
      BY <3>1, EmptySeq DEF Whole
  <2>5. CASE Fclose(t)
    <3>1. t \in Setting /\ pc[t] = "fclose"
      BY <2>5 DEF Fclose, At, Apart, Between, Setting
    <3>2. t \notin mixed
      BY <2>5, <3>1 DEF Fclose, Apart
    <3>3. Written(t)
      BY <2>1, <3>1, <3>2 DEF Alone
    <3>4. /\ init_txt' = file[t] /\ file[t] = <<Printed(up), Printed(up)>> /\ Len(file[t]) = 2
          /\ up = down
      BY <2>5, <3>1, <3>3, Flushed DEF Fclose
    <3>5. up' = up /\ down' = down /\ Printed(up)' = Printed(up) /\ Printed(down)' = Printed(down)
      BY <2>5 DEF Fclose, Printed
    <3>6. Whole'
      BY <3>4 DEF Whole, TypeOK
    <3> QED
      BY <3>4, <3>5, <3>6 DEF Agrees
  <2> QED
    BY <1>5, <2>2, <2>3, <2>4, <2>5 DEF Working
<1>6. CASE \E t \in Threads : Create(t) \/ Answer(t) \/ Working(t)
  BY <1>4, <1>5, <1>6
<1> QED
  BY <1>1, <1>2, <1>3, <1>6, Kinds

(* client.c:281: once a command has set the thresholds alone, and until    *)
(* two of them, or a command and another message, meet, the thresholds in  *)
(* force and the file are those of one command, to two decimals; a client  *)
(* that stopped while it wrote the file starts with what it finds there.   *)
THEOREM FileKeepsUp == Spec => []FileAgrees
<1> DEFINE Inv == Undisturbed /\ Apart /\ Alone /\ Kept
<1>1. Init => Inv
  <2> SUFFICES ASSUME Init PROVE Inv
    OBVIOUS
  <2>1. Setting = {} /\ Undisturbed /\ Apart /\ Alone
    BY DEF Init, Undisturbed, Apart, Alone, Setting, Between
  <2>2. Start \in Data /\ Printed(Start) = Start
    <3>1. Start \in Nat /\ MaxMsg + 1 \in Nat /\ Start = 2 * (MaxMsg + 1)
      BY DEF Start
    <3> QED
      BY <3>1, Halved DEF Printed, Data
  <2>3. init_txt = <<Start, Start>> /\ up = Start /\ down = Start /\ Len(<<Start, Start>>) = 2
    BY DEF Init
  <2>4. Kept
    BY <2>2, <2>3 DEF Kept, Whole, Agrees
  <2> QED
    BY <2>1, <2>4
<1>2. ClientInv /\ Inv /\ [Next]_vars => Inv'
  BY UndisturbedStep, ApartStep, AloneStep, KeptStep DEF ClientInv
<1>3. ClientInv /\ Inv => FileAgrees
  BY DEF Apart, Kept, Agrees, FileAgrees, Setting, Between
<1> QED
  BY <1>1, <1>2, <1>3, ClientInvariant, PTL DEF Spec
=============================================================================
