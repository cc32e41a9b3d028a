------------------------------ MODULE LinkHeap ------------------------------
(***************************************************************************)
(* The server's list of greenhouses (src/src/server.c) with its pointers   *)
(* and its memory: what insert_link and delete_link do store by store,     *)
(* and login_thread's find_link, which walks the list without the          *)
(* semaphore while that happens.  Writers hold the semaphore, which        *)
(* excludes (module Server, theorem MutexHolds), so one writer stands for  *)
(* all.  Stores happen in the order of the source; what a freed chunk      *)
(* holds where its ID was is up to free(), which does not reach as far as  *)
(* next.  Every node has the ID Admin (server.c:156,171).                  *)
(***************************************************************************)
EXTENDS LinkList, FiniteSets

CONSTANTS
  Chunks,  \* what malloc can return
  Fds,     \* descriptors of greenhouses
  Names,   \* names login_thread is asked for
  Admin,   \* the ID in every node
  NULL

ASSUME LinkHeapAssumption ==
  /\ Admin \in Names /\ NULL \notin Chunks
  /\ Fds \subseteq Nat \ {0} /\ Names \cap {"zeros", "junk"} = {}
  /\ IsFiniteSet(Chunks)

VARIABLES
  head,  \* head->next
  next, ID, fd,  \* the fields of each chunk
  used,  \* chunks malloc has handed out
  w,     \* the writer: where it is, its chunk p, the node q before it, its descriptor
  s,     \* find_link: where it is, its pointer p, the name, and what it returned
  kept,  \* nodes that have been in the list ever since find_link began
  stale  \* find_link has stood at a chunk that was not in the list

heap == <<head, next, ID, fd, used>>
vars == <<heap, w, s, kept, stale>>
-----------------------------------------------------------------------------
(* The nodes that the pointers n lead to from h, in order; at most one     *)
(* more than there are chunks, so that a cycle shows.                      *)
Follow(h, n) ==
  LET p[i \in 1..(Cardinality(Chunks) + 1)] ==
        IF i = 1 THEN h ELSE IF p[i - 1] = NULL THEN NULL ELSE n[p[i - 1]]
  IN  SubSeq(p, 1, Cardinality({i \in DOMAIN p : p[i] # NULL}))

Chain == Follow(head, next)

Node == [a \in Chunks |-> [ID |-> ID[a], fd |-> fd[a]]]

Idle == [at |-> "idle", p |-> NULL, q |-> NULL, fd |-> 0]

(* create_link's memset, which covers ID before next, and insert_link.     *)
(* Mutation: the node is linked before it has its next.                    *)
InsertStepsSwapped == <<"memset_ID", "memset_next", "strcpy", "fd", "link", "next">>
InsertSteps == <<"memset_ID", "memset_next", "strcpy", "fd", "next", "link">>

After(l) ==
  LET i == CHOOSE i \in DOMAIN InsertSteps : InsertSteps[i] = l
  IN  IF i = Len(InsertSteps) THEN Idle ELSE [w EXCEPT !.at = InsertSteps[i + 1]]

Malloc ==
  /\ w = Idle
  /\ \E a \in Chunks \ used, f \in Fds :
       /\ used' = used \cup {a}
       /\ w' = [at |-> InsertSteps[1], p |-> a, q |-> NULL, fd |-> f]
  /\ UNCHANGED <<head, next, ID, fd>>

Insert ==
  /\ w.at \in ToSet(InsertSteps)
  /\ w' = After(w.at)
  /\ ID' = CASE w.at = "memset_ID" -> [ID EXCEPT ![w.p] = "zeros"]
             [] w.at = "strcpy" -> [ID EXCEPT ![w.p] = Admin]
             [] OTHER -> ID
  /\ next' = CASE w.at = "memset_next" -> [next EXCEPT ![w.p] = NULL]
               [] w.at = "next" -> [next EXCEPT ![w.p] = head]
               [] OTHER -> next
  /\ fd' = IF w.at = "fd" THEN [fd EXCEPT ![w.p] = w.fd] ELSE fd
  /\ head' = IF w.at = "link" THEN w.p ELSE head
  /\ UNCHANGED used

(* delete_link: the walk to the first node with the descriptor. *)
DeleteBegin ==
  /\ w = Idle
  /\ \E f \in Fds : w' = [at |-> "find", p |-> head, q |-> NULL, fd |-> f]
  /\ UNCHANGED heap

DeleteFind ==
  /\ w.at = "find"
  /\ w' = IF w.p = NULL THEN Idle
          ELSE IF fd[w.p] = w.fd THEN [w EXCEPT !.at = "unlink"]
          ELSE [w EXCEPT !.p = next[w.p], !.q = w.p]
  /\ UNCHANGED heap

(* Mutation: the node's successors are forgotten. *)
UnlinkCuts ==
  /\ w.at = "unlink"
  /\ w' = [w EXCEPT !.at = "free"]
  /\ IF w.q = NULL THEN head' = NULL /\ UNCHANGED next
                   ELSE next' = [next EXCEPT ![w.q] = NULL] /\ UNCHANGED head
  /\ UNCHANGED <<ID, fd, used>>

(* q->next = p->next, where q is the dummy head for the first node. *)
Unlink ==
  /\ w.at = "unlink"
  /\ w' = [w EXCEPT !.at = "free"]
  /\ IF w.q = NULL THEN head' = next[w.p] /\ UNCHANGED next
                   ELSE next' = [next EXCEPT ![w.q] = next[w.p]] /\ UNCHANGED head
  /\ UNCHANGED <<ID, fd, used>>

Free ==
  /\ w.at = "free"
  /\ w' = Idle
  /\ used' = used \ {w.p}
  /\ ID' \in {ID, [ID EXCEPT ![w.p] = "junk"]}
  /\ UNCHANGED <<head, next, fd>>

Write ==
  /\ Malloc \/ Insert \/ DeleteBegin \/ DeleteFind \/ Unlink \/ Free
  /\ UNCHANGED s
-----------------------------------------------------------------------------
(* find_link goes to p, or returns -1 when there is no node. *)
StandAt(p, name) ==
  s' = IF p = NULL THEN [at |-> "done", p |-> NULL, name |-> name, found |-> FALSE]
       ELSE [at |-> "compare", p |-> p, name |-> name, found |-> FALSE]

(* Mutation: the search is given the first node for the dummy head. *)
FindBeginSecond ==
  /\ s.at = "idle"
  /\ \E n \in Names : StandAt(IF head = NULL THEN NULL ELSE next[head], n)

FindBegin ==
  /\ s.at = "idle"
  /\ \E n \in Names : StandAt(head, n)

FindCompare ==
  /\ s.at = "compare"
  /\ s' = IF ID[s.p] = s.name THEN [s EXCEPT !.at = "done", !.p = NULL, !.found = TRUE]
                              ELSE [s EXCEPT !.at = "next"]

FindNext ==
  /\ s.at = "next"
  /\ StandAt(next[s.p], s.name)

(* login_thread replies with the result and waits for the next name. *)
Reply ==
  /\ s.at = "done"
  /\ s' = [at |-> "idle", p |-> NULL, name |-> Admin, found |-> FALSE]

Search == (FindBegin \/ FindCompare \/ FindNext \/ Reply) /\ UNCHANGED <<heap, w>>
-----------------------------------------------------------------------------
(* History: what find_link meets on its way. *)
Watch ==
  LET now == ToSet(Chain') IN
  /\ kept' = IF s'.at = "idle" THEN {} ELSE IF s.at = "idle" THEN now ELSE kept \cap now
  /\ stale' = (s'.at # "idle" /\ (stale \/ s'.p \notin now \cup {NULL}))

Init ==
  /\ head = NULL /\ used = {}
  /\ next = [a \in Chunks |-> NULL]
  /\ ID = [a \in Chunks |-> "junk"]
  /\ fd = [a \in Chunks |-> 0]
  /\ w = Idle
  /\ s = [at |-> "idle", p |-> NULL, name |-> Admin, found |-> FALSE]
  /\ kept = {} /\ stale = FALSE

Next == (Write \/ Search) /\ Watch

(* login_thread is scheduled. *)
Spec == Init /\ [][Next]_vars /\ WF_s(Search)
-----------------------------------------------------------------------------
TypeOK ==
  LET P == Chunks \cup {NULL} IN
  /\ head \in P /\ next \in [Chunks -> P]
  /\ ID \in [Chunks -> {"junk", "zeros", Admin}]
  /\ fd \in [Chunks -> Fds \cup {0}]
  /\ used \in SUBSET Chunks
  /\ w \in [at : ToSet(InsertSteps) \cup {"idle", "find", "unlink", "free"},
            p : P, q : P, fd : Fds \cup {0}]
  /\ s \in [at : {"idle", "compare", "next", "done"}, p : P, name : Names, found : BOOLEAN]
  /\ s.p = NULL <=> s.at \in {"idle", "done"}
  /\ kept \in SUBSET Chunks /\ stale \in BOOLEAN

(* Each variable has its type, and (server.c:289-358) at every moment,     *)
(* also between the stores of a writer, the pointers from head lead        *)
(* through complete nodes that are in use, each once, and a chunk malloc   *)
(* has handed out is in the list or is the writer's.                       *)
ListSound ==
  /\ TypeOK
  /\ Cardinality(ToSet(Chain)) = Len(Chain)
  /\ \A a \in ToSet(Chain) : a \in used /\ ID[a] = Admin /\ fd[a] \in Fds
  /\ used = ToSet(Chain) \cup (IF w.at \in {"idle", "find", "unlink"} THEN {} ELSE {w.p})

(* server.c:303-305,347-352: what others see of insert_link and            *)
(* delete_link is one step of LinkList each, at one store, and nothing     *)
(* else changes the list.                                                  *)
ListStores ==
  [][\/ Chain' = Chain
     \/ w.at = "link" /\ Chain' = insert_link(Chain, w.p)
     \/ w.at = "unlink" /\ Chain' = delete_link(Chain, Node, w.fd)]_vars

(* server.c:260: login_thread finds no name but Admin, whatever memory it  *)
(* reads; and when it says that Admin is not connected although a          *)
(* greenhouse was all the time, its walk has passed through memory that    *)
(* was taken out of the list under it.                                     *)
AnswerExplained ==
  s.at = "done" =>
    /\ s.found => s.name = Admin
    /\ ~s.found /\ s.name = Admin => stale \/ kept = {}

(* server.c:309-323: when the list has stopped changing, the search comes  *)
(* to its end, also from a chunk that was freed under it: the pointers in  *)
(* such chunks never form a cycle.                                         *)
SearchEnds == <>[](w = Idle) => (s.at = "compare" ~> s.at = "done")
=============================================================================
