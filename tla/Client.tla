------------------------------- MODULE Client -------------------------------
(***************************************************************************)
(* The greenhouse's client (src/src/client.c) between the server's socket  *)
(* and its configuration file: main receives messages and creates one      *)
(* thread per command, which takes its data from main's variable threadbuf *)
(* through a pointer; setlimit_thread stores new thresholds and writes     *)
(* them to init.txt, from which read_config restores them after a restart. *)
(* What ctrldev_thread does to the devices is in Devices.                  *)
(*                                                                         *)
(* The six thresholds are represented by two, which the code treats one    *)
(* after the other: up and down.  A message is its command and one number, *)
(* which stands for all its thresholds or its device bits; a message that  *)
(* carries none has 0, the memset value.  An odd number stands for         *)
(* thresholds with more decimals than the file keeps, the number before it *)
(* for what fprintf makes of them.                                         *)
(***************************************************************************)
EXTENDS SequencesExt, FiniteSets, Integers

CONSTANTS
  Threads,  \* bound: threads that may be at work at one time
  MaxMsg,   \* bound: messages the server ever sends
  MaxStart  \* bound: times the client is started again

ASSUME ClientAssumption == MaxMsg \in Nat /\ MaxStart \in Nat

VARIABLES
  (* the connection *)
  inbox,      \* messages that have arrived, oldest first
  sent,       \* messages the server has sent
  conn,       \* the connection: "up", "closed" by the server, "reset", or "shut"
  (* main *)
  main,       \* where main is
  threadbuf,  \* its copy of the message, which the threads read
  (* the threads *)
  pc, made, buf, file, \* where each is; the message it was created for; what it copied; its FILE
  (* shared *)
  up, down,   \* settempup .. setluxup and settempdown .. setluxdown
  init_txt,   \* lines of the configuration file
  (* history *)
  created, answered, \* commands accepted, and answers to them, in this run
  starts,     \* times the client was started again
  mixed,      \* threads that had no exclusive use of threadbuf or of the thresholds
  met         \* one of them set thresholds, and none was alone since

mainVars == <<main, threadbuf>>
threadVars == <<pc, made, buf, file>>
limitVars == <<up, down, init_txt>>
history == <<created, answered, starts, mixed, met>>
vars == <<inbox, sent, conn, mainVars, threadVars, limitVars, history>>
-----------------------------------------------------------------------------
Start == 2 * (MaxMsg + 1)   \* the thresholds the file has at first
Data == 0..Start
Message == [commd : {0, 1, 2, 3, 255}, data : Data]
Zero == [commd |-> 0, data |-> 0]
Limits == [up : Data, down : Data]

Labels == {"free", "getenv", "copy", "copied", "ctrl", "set_up", "set_down", "fopen",
           "print_up", "print_down", "fclose", "answer"}
At(t, l) == main # "stopped" /\ pc[t] = l
Goto(t, l) == pc' = [pc EXCEPT ![t] = l]
Setting == {t \in Threads : pc[t] \notin {"free", "answer"} /\ made[t].commd = 2}
Copying == {t \in Threads : pc[t] \in {"copy", "copied"}}
-----------------------------------------------------------------------------
(* The server sends a command or a ping; thresholds and device bits come   *)
(* from a form, the other messages carry none.  The set page takes up to   *)
(* nine characters for a threshold, so any number of decimals.             *)
ServerSends ==
  /\ main # "stopped" /\ conn = "up"
  /\ sent < MaxMsg
  /\ \E c \in {1, 2, 3, 255}, d \in {0, 2 * (sent + 1), 2 * (sent + 1) + 1} :
       /\ d = 0 <=> c \in {1, 255}
       /\ c = 3 => d = 2 * (sent + 1)
       /\ inbox' = Append(inbox, [commd |-> c, data |-> d])
  /\ sent' = sent + 1
  /\ UNCHANGED <<conn, mainVars, threadVars, limitVars, history>>

ConnectionEnds ==
  /\ main # "stopped" /\ conn = "up"
  /\ conn' \in {"closed", "reset"}
  /\ UNCHANGED <<inbox, sent, mainVars, threadVars, limitVars, history>>

(* exit() flushes the FILEs that are open: what a thread has printed so    *)
(* far replaces the beginning of the file.                                 *)
Overlay(lines) == lines \o SubSeq(init_txt, Len(lines) + 1, Len(init_txt))

Stop(flush) ==
  /\ main' = "stopped"
  /\ IF flush /\ \E t \in Threads : pc[t] \in {"print_up", "print_down", "fclose"}
     THEN \E t \in Threads : /\ pc[t] \in {"print_up", "print_down", "fclose"}
                             /\ init_txt' = Overlay(file[t])
     ELSE UNCHANGED init_txt
-----------------------------------------------------------------------------
(* main: recv into msgarm, which is zeroed first, then threadbuf = msgarm, *)
(* whatever the command is.  A ping is sent back; result 0 ends the client *)
(* and -1 is not looked at: a reset is reported once, and then 0.          *)
Disturb ==
  /\ mixed' = mixed \cup Copying
  /\ met' = (met \/ Copying \cap Setting # {})

RecvMsg ==
  LET m == Head(inbox) IN
  /\ main = "recv"
  /\ inbox # <<>>
  /\ inbox' = Tail(inbox)
  /\ threadbuf' = m
  /\ main' = IF m.commd = 255 THEN "pong" ELSE "create"
  /\ Disturb
  /\ UNCHANGED <<sent, conn, threadVars, limitVars, created, answered, starts>>

RecvErr ==
  /\ main = "recv"
  /\ inbox = <<>> /\ conn = "reset"
  /\ conn' = "shut"
  /\ threadbuf' = Zero
  /\ Disturb
  /\ UNCHANGED <<inbox, sent, main, threadVars, limitVars, created, answered, starts>>

RecvEof ==
  /\ main = "recv"
  /\ inbox = <<>> /\ conn \in {"closed", "shut"}
  /\ Stop(TRUE)
  /\ UNCHANGED <<inbox, sent, conn, threadbuf, threadVars, up, down, history>>

(* A send after the server has closed is answered with a reset; after that *)
(* the next one raises SIGPIPE.                                            *)
SendOk ==
  \/ conn = "up" /\ UNCHANGED conn
  \/ conn = "closed" /\ conn' \in {"closed", "shut"}

Pong ==
  /\ main = "pong"
  /\ SendOk
  /\ main' = "recv"
  /\ UNCHANGED <<inbox, sent, threadbuf, threadVars, limitVars, history>>

Create(t) ==
  /\ main = "create"
  /\ pc[t] = "free"
  /\ Goto(t, IF threadbuf.commd = 1 THEN "getenv" ELSE "copy")
  /\ made' = [made EXCEPT ![t] = threadbuf]
  /\ created' = created + 1
  /\ main' = "recv"
  /\ IF threadbuf.commd = 2 /\ Setting # {}
     THEN met' = TRUE /\ mixed' = mixed \cup Setting \cup {t}
     ELSE UNCHANGED <<met, mixed>>
  /\ UNCHANGED <<inbox, sent, conn, threadbuf, buf, file, limitVars, answered, starts>>
-----------------------------------------------------------------------------
(* A thread copies *threadbuf, in two parts if main is unlucky. *)
CopyUp(t) ==
  /\ At(t, "copy")
  /\ buf' = [buf EXCEPT ![t].up = threadbuf.data]
  /\ Goto(t, "copied")
  /\ UNCHANGED <<inbox, sent, conn, mainVars, made, file, limitVars, history>>

(* Mutation: the size of the copy is that of a pointer. *)
CopyDownForgotten(t) ==
  /\ At(t, "copied")
  /\ Goto(t, IF made[t].commd = 2 THEN "set_up" ELSE "ctrl")
  /\ UNCHANGED <<inbox, sent, conn, mainVars, made, buf, file, limitVars, history>>

CopyDown(t) ==
  /\ At(t, "copied")
  /\ buf' = [buf EXCEPT ![t].down = threadbuf.data]
  /\ Goto(t, IF made[t].commd = 2 THEN "set_up" ELSE "ctrl")
  /\ UNCHANGED <<inbox, sent, conn, mainVars, made, file, limitVars, history>>

(* getenv_thpread puts readings and thresholds into a buffer of its own. *)
Getenv(t) ==
  /\ At(t, "getenv")
  /\ buf' = [buf EXCEPT ![t] = [up |-> up, down |-> down]]
  /\ Goto(t, "answer")
  /\ UNCHANGED <<inbox, sent, conn, mainVars, made, file, limitVars, history>>

Ctrl(t) ==
  /\ At(t, "ctrl")
  /\ Goto(t, "answer")
  /\ UNCHANGED <<inbox, sent, conn, mainVars, made, buf, file, limitVars, history>>

(* Mutation: a thread waits until no other sets thresholds. *)
SetUpWaits(t) ==
  /\ At(t, "set_up") /\ Setting = {t}
  /\ up' = buf[t].up
  /\ Goto(t, "set_down")
  /\ UNCHANGED <<inbox, sent, conn, mainVars, made, buf, file, down, init_txt, history>>

SetUp(t) ==
  /\ At(t, "set_up")
  /\ up' = buf[t].up
  /\ Goto(t, "set_down")
  /\ UNCHANGED <<inbox, sent, conn, mainVars, made, buf, file, down, init_txt, history>>

(* Mutation: the second half is forgotten. *)
SetDownForgotten(t) ==
  /\ At(t, "set_down")
  /\ Goto(t, "fopen")
  /\ UNCHANGED <<inbox, sent, conn, mainVars, made, buf, file, limitVars, history>>

SetDown(t) ==
  /\ At(t, "set_down")
  /\ down' = buf[t].down
  /\ Goto(t, "fopen")
  /\ UNCHANGED <<inbox, sent, conn, mainVars, made, buf, file, up, init_txt, history>>

(* Mutation: the file is not emptied first, and lines are added to it. *)
FopenAppends(t) ==
  /\ At(t, "fopen")
  /\ file' = [file EXCEPT ![t] = init_txt]
  /\ Goto(t, "print_up")
  /\ UNCHANGED <<inbox, sent, conn, mainVars, made, buf, limitVars, history>>

(* fopen with "w" empties the file at once. *)
Fopen(t) ==
  /\ At(t, "fopen")
  /\ init_txt' = <<>>
  /\ file' = [file EXCEPT ![t] = <<>>]
  /\ Goto(t, "print_up")
  /\ UNCHANGED <<inbox, sent, conn, mainVars, made, buf, up, down, history>>

(* fprintf prints the shared variables, not the command, into the FILE's   *)
(* buffer, with two decimals.                                              *)
Printed(v) == 2 * (v \div 2)

PrintUp(t) ==
  /\ At(t, "print_up")
  /\ file' = [file EXCEPT ![t] = Append(@, Printed(up))]
  /\ Goto(t, "print_down")
  /\ UNCHANGED <<inbox, sent, conn, mainVars, made, buf, limitVars, history>>

PrintDown(t) ==
  /\ At(t, "print_down")
  /\ file' = [file EXCEPT ![t] = Append(@, Printed(down))]
  /\ Goto(t, "fclose")
  /\ UNCHANGED <<inbox, sent, conn, mainVars, made, buf, limitVars, history>>

Fclose(t) ==
  /\ At(t, "fclose")
  /\ init_txt' = Overlay(file[t])
  /\ met' = (met /\ t \in mixed)
  /\ Goto(t, "answer")
  /\ UNCHANGED <<inbox, sent, conn, mainVars, made, buf, file, up, down, created, answered, starts, mixed>>

Free(t) ==
  /\ pc' = [pc EXCEPT ![t] = "free"]
  /\ made' = [made EXCEPT ![t] = Zero]
  /\ buf' = [buf EXCEPT ![t] = [up |-> 0, down |-> 0]]
  /\ file' = [file EXCEPT ![t] = <<>>]
  /\ mixed' = mixed \ {t}

(* Mutation: a thread that has read the environment does not answer. *)
AnswerNotEnv(t) ==
  /\ At(t, "answer")
  /\ SendOk
  /\ answered' = IF made[t].commd = 1 THEN answered ELSE answered + 1
  /\ Free(t)
  /\ UNCHANGED <<inbox, sent, mainVars, limitVars, created, starts, met>>

(* send of the result, then the thread ends. *)
Answer(t) ==
  /\ At(t, "answer")
  /\ SendOk
  /\ answered' = answered + 1
  /\ Free(t)
  /\ UNCHANGED <<inbox, sent, mainVars, limitVars, created, starts, met>>

(* A send that fails, in a thread or when main returns a ping, ends the    *)
(* client (PRINT_ERR); SIGPIPE kills it, and nothing is flushed.           *)
SendFails ==
  /\ main = "pong" \/ \E t \in Threads : At(t, "answer")
  /\ conn \in {"reset", "shut"}
  /\ Stop(conn = "reset")
  /\ UNCHANGED <<inbox, sent, conn, threadbuf, threadVars, up, down, history>>

(* pthread_create and fopen may fail as well. *)
CallFails ==
  /\ main = "create" \/ \E t \in Threads : At(t, "fopen")
  /\ Stop(TRUE)
  /\ UNCHANGED <<inbox, sent, conn, threadbuf, threadVars, up, down, history>>

(* SIGINT: handle_sigint calls exit(). *)
handle_sigint ==
  /\ main # "stopped"
  /\ Stop(TRUE)
  /\ UNCHANGED <<inbox, sent, conn, threadbuf, threadVars, up, down, history>>

(* Power failure or kill: nothing is flushed. *)
Kill ==
  /\ main # "stopped"
  /\ Stop(FALSE)
  /\ UNCHANGED <<inbox, sent, conn, threadbuf, threadVars, up, down, history>>

(* The client is started again: read_config takes what fscanf finds; what  *)
(* it does not find keeps the 0 of the global variable.                    *)
Line(i) == IF i \in DOMAIN init_txt THEN init_txt[i] ELSE 0

read_config ==
  /\ main = "stopped"
  /\ starts < MaxStart
  /\ starts' = starts + 1
  /\ main' = "recv" /\ threadbuf' = Zero
  /\ inbox' = <<>> /\ conn' = "up"
  /\ up' = Line(1) /\ down' = Line(2)
  /\ pc' = [t \in Threads |-> "free"]
  /\ made' = [t \in Threads |-> Zero]
  /\ buf' = [t \in Threads |-> [up |-> 0, down |-> 0]]
  /\ file' = [t \in Threads |-> <<>>]
  /\ created' = 0 /\ answered' = 0 /\ mixed' = {}
  /\ UNCHANGED <<sent, init_txt, met>>
-----------------------------------------------------------------------------
Init ==
  /\ inbox = <<>> /\ sent = 0 /\ conn = "up"
  /\ main = "recv" /\ threadbuf = Zero
  /\ pc = [t \in Threads |-> "free"]
  /\ made = [t \in Threads |-> Zero]
  /\ buf = [t \in Threads |-> [up |-> 0, down |-> 0]]
  /\ file = [t \in Threads |-> <<>>]
  /\ up = Start /\ down = Start /\ init_txt = <<Start, Start>>
  /\ created = 0 /\ answered = 0 /\ starts = 0 /\ mixed = {} /\ met = FALSE

ThreadStep(t) ==
  \/ CopyUp(t) \/ CopyDown(t) \/ Getenv(t) \/ Ctrl(t) \/ SetUp(t) \/ SetDown(t)
  \/ Fopen(t) \/ PrintUp(t) \/ PrintDown(t) \/ Fclose(t) \/ Answer(t)

MainStep == RecvMsg \/ RecvErr \/ RecvEof \/ Pong \/ \E t \in Threads : Create(t)

Next ==
  \/ ServerSends \/ ConnectionEnds
  \/ MainStep
  \/ \E t \in Threads : ThreadStep(t)
  \/ SendFails \/ CallFails \/ handle_sigint \/ Kill
  \/ read_config

Spec == Init /\ [][Next]_vars

(* The threads are scheduled, and a failed send ends the client. *)
Fairness ==
  /\ WF_vars(MainStep) /\ WF_vars(SendFails)
  /\ \A t \in Threads : WF_vars(ThreadStep(t))

FairSpec == Spec /\ Fairness
-----------------------------------------------------------------------------
(* Each variable has its type; the file never has more lines than fields. *)
TypeOK ==
  /\ inbox \in Seq(Message) /\ sent \in 0..MaxMsg
  /\ conn \in {"up", "closed", "reset", "shut"}
  /\ main \in {"recv", "create", "pong", "stopped"} /\ threadbuf \in Message
  /\ pc \in [Threads -> Labels] /\ made \in [Threads -> Message]
  /\ buf \in [Threads -> Limits]
  /\ file \in [Threads -> Seq(Data)] /\ \A t \in Threads : Len(file[t]) <= 2
  /\ up \in Data /\ down \in Data
  /\ init_txt \in Seq(Data) /\ Len(init_txt) <= 2
  /\ created \in 0..MaxMsg /\ answered \in 0..MaxMsg
  /\ starts \in 0..MaxStart /\ mixed \subseteq Threads /\ met \in BOOLEAN

(* client.c:281: unless two commands met that set thresholds, or a command *)
(* met another message, and none was alone since: while nobody sets any,   *)
(* the thresholds in force are those of one command and the file has them, *)
(* to two decimals.  If the client stopped while it wrote the file, they   *)
(* are what the next start found there, 0 where it found nothing.          *)
FileAgrees ==
  ~met /\ main # "stopped" /\ Setting = {} =>
    IF Len(init_txt) = 2
    THEN up = down /\ init_txt = <<Printed(up), Printed(down)>>
    ELSE starts > 0 /\ up = Line(1) /\ down = Line(2)

(* client.c:108-124: every command main accepted is being worked on by one *)
(* thread or has been answered, once.                                      *)
OneAnswerPerCommand ==
  main # "stopped" => created = answered + Cardinality({t \in Threads : pc[t] # "free"})

(* client.c:112-124: a thread ends, or the client does, however messages,  *)
(* errors and other threads interleave.                                    *)
ThreadEnds ==
  \A t \in Threads : pc[t] # "free" ~> (pc[t] = "free" \/ main = "stopped")

(* client.c:107-126,263,303: a thread acts on the message it was created   *)
(* for unless another came while it copied; then a part of what it copied  *)
(* may be of a later one, and 0 if that was a ping, never of an earlier.   *)
ActsOnOwnUnlessMet ==
  \A t \in Threads : pc[t] \in {"set_up", "ctrl"} =>
    /\ t \in mixed \/ buf[t] = [up |-> made[t].data, down |-> made[t].data]
    /\ {buf[t].up, buf[t].down} \subseteq {0} \cup made[t].data..(2 * sent + 1)
=============================================================================
