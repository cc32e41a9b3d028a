--------------------------- MODULE LinkHeapProofs ---------------------------
(***************************************************************************)
(* Theorems about LinkHeap, for any number of chunks, descriptors and      *)
(* names.  What Chain finds by following the pointers is told by induction *)
(* along the list: the first place at which it could differ from a list    *)
(* that the pointers lead through would be one behind where it does not.   *)
(***************************************************************************)
EXTENDS LinkHeap, FiniteSetTheorems, WellFoundedInduction, TLAPS

(* A set of numbers has a smallest. *)
LEMMA Least ==
  ASSUME NEW T, T \subseteq Nat, T # {}
  PROVE  \E n \in T : \A m \in T : n <= m
<1>1. PICK R : R = {ss \in Nat \X Nat : ss[1] < ss[2]}
  OBVIOUS
<1>2. IsWellFoundedOn(R, Nat)
  BY <1>1, NatLessThanWellFounded DEF OpToRel
<1>3. PICK n \in T : \A m \in T : ~ (<<m, n>> \in R)
  BY <1>2, WFMin
<1>4. ASSUME NEW m \in T, ~ (n <= m) PROVE FALSE
  <2>1. m \in Nat /\ n \in Nat /\ m < n
    BY <1>4
  <2>2. <<m, n>> \in Nat \X Nat /\ <<m, n>>[1] = m /\ <<m, n>>[2] = n
    BY <2>1
  <2>3. <<m, n>> \in R
    BY <1>1, <2>1, <2>2
  <2> QED BY <1>3, <2>3
<1> QED BY <1>3, <1>4

(* The pointers lead from h through the nodes of L, each once, to NULL. *)
Once(L) == \A i, j \in 1..Len(L) : L[i] = L[j] => i = j
Leads(h, n, L) ==
  /\ L \in Seq(Chunks) /\ Once(L)
  /\ h = IF L = <<>> THEN NULL ELSE L[1]
  /\ \A i \in 1..Len(L) : n[L[i]] = IF i = Len(L) THEN NULL ELSE L[i + 1]

(* As many nodes as places, and no more than there are chunks. *)
LEMMA OnceCounts ==
  ASSUME NEW L \in Seq(Chunks), Once(L)
  PROVE  /\ Cardinality(ToSet(L)) = Len(L) /\ Cardinality(1..Len(L)) = Len(L)
         /\ Len(L) <= Cardinality(Chunks) /\ Cardinality(Chunks) \in Nat
<1>1. Len(L) \in Nat /\ DOMAIN L = 1..Len(L) /\ L \in [1..Len(L) -> Chunks]
  OBVIOUS
<1>2. ToSet(L) \subseteq Chunks
  BY <1>1 DEF ToSet
<1>3. L \in Injection(1..Len(L), Chunks)
  BY <1>1 DEF Once, Injection, IsInjective
<1>4. IsFiniteSet(1..Len(L)) /\ Cardinality(1..Len(L)) = Len(L)
  BY <1>1, FS_Interval
<1>5. IsFiniteSet(Chunks)
  BY LinkHeapAssumption
<1>6. Len(L) <= Cardinality(Chunks)
  BY <1>3, <1>4, <1>5, FS_Injection
<1>7. L \in Bijection(1..Len(L), ToSet(L))
  BY <1>1 DEF Once, Bijection, Injection, Surjection, IsInjective, ToSet
<1>8. Cardinality(ToSet(L)) = Len(L)
  BY <1>4, <1>7, FS_Bijection DEF ExistsBijection
<1> QED BY <1>4, <1>5, <1>6, <1>8, FS_CardinalityType

(* Following the pointers finds the list they lead through. *)
LEMMA FollowIs ==
  ASSUME NEW h, NEW n, NEW L, Leads(h, n, L)
  PROVE  Follow(h, n) = L
<1> DEFINE N == Cardinality(Chunks) + 1
           q == [i \in 1..N |-> IF i <= Len(L) THEN L[i] ELSE NULL]
           F(p) == p = [i \in 1..N |-> IF i = 1 THEN h
                                       ELSE IF p[i - 1] = NULL THEN NULL ELSE n[p[i - 1]]]
<1>1. /\ L \in Seq(Chunks) /\ Len(L) \in Nat /\ Len(L) < N /\ N \in Nat
      /\ \A i \in 1..Len(L) : L[i] \in Chunks /\ L[i] # NULL
  BY OnceCounts, LinkHeapAssumption DEF Leads
<1>2. F(q)
  <2>1. ASSUME NEW i \in 1..N
        PROVE  q[i] = IF i = 1 THEN h ELSE IF q[i - 1] = NULL THEN NULL ELSE n[q[i - 1]]
    <3>1. CASE i = 1
      <4>1. L = <<>> <=> Len(L) = 0
        BY <1>1
      <4> QED BY <1>1, <3>1, <4>1 DEF Leads
    <3>2. CASE i # 1
      <4>1. i - 1 \in 1..N /\ i \in Nat
        BY <1>1, <3>2
      <4>2. q[i - 1] = NULL <=> i - 1 > Len(L)
        BY <1>1, <4>1
      <4>3. CASE i - 1 > Len(L)
        BY <1>1, <3>2, <4>1, <4>2, <4>3
      <4>4. CASE i - 1 <= Len(L)
        <5>1. q[i - 1] = L[i - 1] /\ i - 1 \in 1..Len(L)
          BY <1>1, <3>2, <4>1, <4>4
        <5>2. n[L[i - 1]] = IF i - 1 = Len(L) THEN NULL ELSE L[i]
          BY <1>1, <5>1 DEF Leads
        <5> QED BY <1>1, <3>2, <4>1, <4>2, <4>4, <5>1, <5>2
      <4> QED BY <1>1, <4>1, <4>3, <4>4
    <3> QED BY <3>1, <3>2
  <2> QED BY <2>1
<1>3. ASSUME NEW p, F(p) PROVE p = q
  <2> DEFINE T == {i \in 1..N : p[i] # q[i]}
  <2>1. ASSUME T # {} PROVE FALSE
    <3>1. PICK i \in T : \A m \in T : i <= m
      <4>1. T \subseteq Nat OBVIOUS
      <4> HIDE DEF T
      <4> QED BY <2>1, <4>1, Least
    <3>2. i \in 1..N /\ p[i] # q[i]
      OBVIOUS
    <3>3. p[i] = IF i = 1 THEN h ELSE IF p[i - 1] = NULL THEN NULL ELSE n[p[i - 1]]
      BY <1>3, <3>2
    <3>4. q[i] = IF i = 1 THEN h ELSE IF q[i - 1] = NULL THEN NULL ELSE n[q[i - 1]]
      <4> HIDE DEF q
      <4> QED BY <1>2, <3>2
    <3>5. CASE i = 1
      BY <3>2, <3>3, <3>4, <3>5
    <3>6. CASE i # 1
      <4>1. i - 1 \in 1..N /\ ~(i <= i - 1)
        BY <1>1, <3>2, <3>6
      <4>2. p[i - 1] = q[i - 1]
        <5>1. i - 1 \notin T
          BY <3>1, <4>1
        <5> QED BY <4>1, <5>1
      <4> HIDE DEF q
      <4> QED BY <3>2, <3>3, <3>4, <3>6, <4>2
    <3> QED BY <3>5, <3>6
  <2>2. DOMAIN p = 1..N /\ p = [i \in 1..N |-> p[i]]
    BY <1>3
  <2>3. \A i \in 1..N : p[i] = q[i]
    BY <2>1
  <2> QED BY <2>2, <2>3
<1> DEFINE p == CHOOSE f : F(f)
<1>4. p = q
  <2>1. F(p)
    <3> HIDE DEF F, q
    <3> QED BY <1>2
  <2> HIDE DEF F, q, p
  <2> QED BY <1>3, <2>1
<1>5. Follow(h, n) = SubSeq(p, 1, Cardinality({i \in DOMAIN p : p[i] # NULL}))
  BY DEF Follow
<1>6. {i \in DOMAIN q : q[i] # NULL} = 1..Len(L)
  BY <1>1
<1>7. Cardinality(1..Len(L)) = Len(L)
  BY OnceCounts DEF Leads
<1>8. SubSeq(q, 1, Len(L)) = L
  BY <1>1
<1> HIDE DEF p, q
<1> QED BY <1>4, <1>5, <1>6, <1>7, <1>8
-----------------------------------------------------------------------------
(* What insert_link makes of a list. *)
LEMMA Push ==
  ASSUME NEW L \in Seq(Chunks), Once(L), NEW a \in Chunks \ ToSet(L)
  PROVE  LET M == insert_link(L, a) IN
         /\ M \in Seq(Chunks) /\ Once(M) /\ M # <<>> /\ Len(M) = Len(L) + 1 /\ M[1] = a
         /\ \A i \in 1..Len(L) : M[i + 1] = L[i]
         /\ ToSet(M) = ToSet(L) \cup {a}
<1> DEFINE M == insert_link(L, a)
<1>1. /\ Len(L) \in Nat /\ DOMAIN L = 1..Len(L)
      /\ M \in Seq(Chunks) /\ Len(M) = Len(L) + 1 /\ M[1] = a /\ DOMAIN M = 1..(Len(L) + 1)
      /\ \A i \in 1..Len(L) : M[i + 1] = L[i]
  BY DEF insert_link
<1> HIDE DEF M
<1>2. \A k \in DOMAIN M : M[k] = IF k = 1 THEN a ELSE L[k - 1]
  <2>1. ASSUME NEW k \in DOMAIN M, k # 1 PROVE M[k] = L[k - 1]
    <3>1. k - 1 \in 1..Len(L) /\ (k - 1) + 1 = k
      BY <1>1, <2>1
    <3> QED BY <1>1, <3>1
  <2> QED BY <1>1, <2>1
<1>3. \A i \in 1..Len(L) : L[i] \in ToSet(L) /\ L[i] # a
  BY <1>1 DEF ToSet
<1>4. Once(M)
  <2> SUFFICES ASSUME NEW i \in DOMAIN M, NEW j \in DOMAIN M, M[i] = M[j] PROVE i = j
    BY <1>1 DEF Once
  <2>1. i # 1 => i - 1 \in 1..Len(L)
    BY <1>1
  <2>2. j # 1 => j - 1 \in 1..Len(L)
    BY <1>1
  <2>3. i = 1 <=> j = 1
    BY <1>2, <1>3, <2>1, <2>2
  <2>4. i # 1 => i - 1 = j - 1
    BY <1>2, <2>1, <2>2, <2>3 DEF Once
  <2> QED BY <1>1, <2>3, <2>4
<1>5. ToSet(M) = ToSet(L) \cup {a}
  <2>1. ASSUME NEW x \in ToSet(M) PROVE x \in ToSet(L) \cup {a}
    <3>1. PICK k \in DOMAIN M : x = M[k]
      BY <2>1 DEF ToSet
    <3>2. k # 1 => k - 1 \in 1..Len(L)
      BY <1>1
    <3> QED BY <1>2, <1>3, <3>1, <3>2
  <2>2. ASSUME NEW x \in ToSet(L) PROVE x \in ToSet(M)
    <3>1. PICK k \in 1..Len(L) : x = L[k]
      BY <1>1, <2>2 DEF ToSet
    <3>2. k + 1 \in DOMAIN M /\ M[k + 1] = x
      BY <1>1, <3>1
    <3> QED BY <3>2 DEF ToSet
  <2>3. a \in ToSet(M)
    BY <1>1 DEF ToSet
  <2> QED BY <2>1, <2>2, <2>3
<1>6. M # <<>>
  BY <1>1
<1> QED BY <1>1, <1>4, <1>5, <1>6 DEF M

(* The list without its node i. *)
Without(L, i) == [k \in 1..(Len(L) - 1) |-> IF k >= i THEN L[k + 1] ELSE L[k]]

(* It has the others in their order, each once. *)
LEMMA Drop ==
  ASSUME NEW L \in Seq(Chunks), Once(L), NEW i \in 1..Len(L)
  PROVE  LET M == Without(L, i) IN
         /\ M \in Seq(Chunks) /\ Once(M) /\ Len(M) = Len(L) - 1
         /\ \A k \in 1..Len(M) : M[k] = IF k >= i THEN L[k + 1] ELSE L[k]
         /\ ToSet(M) = ToSet(L) \ {L[i]}
<1> DEFINE M == Without(L, i)
<1>1. /\ Len(L) \in Nat /\ Len(L) >= 1 /\ DOMAIN L = 1..Len(L)
      /\ \A k \in 1..Len(L) : L[k] \in Chunks
  OBVIOUS
<1>2. M \in [1..(Len(L) - 1) -> Chunks]
  BY <1>1 DEF Without
<1>3. M \in Seq(Chunks) /\ Len(M) = Len(L) - 1 /\ DOMAIN M = 1..Len(M)
  <2>1. PICK m \in Nat : m = Len(L) - 1
    <3>1. Len(L) - 1 \in Nat
      BY <1>1
    <3> QED BY <3>1
  <2>2. PICK S : S = M
    OBVIOUS
  <2>3. S \in [1..m -> Chunks]
    BY <1>2, <2>1, <2>2
  <2>4. S \in Seq(Chunks) /\ Len(S) = m /\ DOMAIN S = 1..m
    BY <2>3
  <2> HIDE DEF M
  <2> QED BY <2>1, <2>2, <2>4
<1>4. \A k \in 1..Len(M) : M[k] = IF k >= i THEN L[k + 1] ELSE L[k]
  BY <1>3 DEF Without
<1> HIDE DEF M
<1> DEFINE at(k) == IF k >= i THEN k + 1 ELSE k
<1>5. \A k \in 1..Len(M) : at(k) \in 1..Len(L) /\ at(k) # i /\ M[k] = L[at(k)]
  BY <1>1, <1>3, <1>4
<1>6. \A k, j \in 1..Len(M) : at(k) = at(j) => k = j
  BY <1>1, <1>3
<1>7. \A m \in 1..Len(L) : m # i => \E k \in 1..Len(M) : at(k) = m
  <2> SUFFICES ASSUME NEW m \in 1..Len(L), m # i PROVE \E k \in 1..Len(M) : at(k) = m
    OBVIOUS
  <2>1. CASE m < i
    BY <1>1, <1>3, <2>1
  <2>2. CASE m > i
    <3>1. m - 1 \in 1..Len(M) /\ at(m - 1) = m
      BY <1>1, <1>3, <2>2
    <3> QED BY <3>1
  <2> QED BY <2>1, <2>2
<1> HIDE DEF at
<1>8. Once(M)
  BY <1>5, <1>6 DEF Once
<1>9. ToSet(M) = ToSet(L) \ {L[i]}
  <2>1. ASSUME NEW x \in ToSet(M) PROVE x \in ToSet(L) /\ x # L[i]
    <3>1. PICK k \in 1..Len(M) : x = M[k]
      BY <1>3, <2>1 DEF ToSet
    <3> QED BY <1>1, <1>5, <3>1 DEF ToSet, Once
  <2>2. ASSUME NEW x \in ToSet(L), x # L[i] PROVE x \in ToSet(M)
    <3>1. PICK m \in 1..Len(L) : x = L[m]
      BY <1>1, <2>2 DEF ToSet
    <3>2. PICK k \in 1..Len(M) : at(k) = m
      BY <1>7, <2>2, <3>1
    <3> QED BY <1>3, <1>5, <3>1, <3>2 DEF ToSet
  <2> QED BY <2>1, <2>2
<1> QED BY <1>3, <1>4, <1>8, <1>9 DEF M

(* p is a node of L, q the one before it, and no node before has the       *)
(* descriptor k: where delete_link's walk is.                              *)
Reached(L, p, q, k) ==
  \E i \in 1..Len(L) : /\ p = L[i] /\ q = IF i = 1 THEN NULL ELSE L[i - 1]
                       /\ \A j \in 1..(i - 1) : fd[L[j]] # k

(* delete_link takes out the first node with the descriptor. *)
LEMMA DeleteIs ==
  ASSUME NEW L \in Seq(Chunks), NEW k, NEW i \in 1..Len(L), fd[L[i]] = k,
         \A j \in 1..(i - 1) : fd[L[j]] # k
  PROVE  delete_link(L, Node, k) = Without(L, i)
<1>1. Len(L) \in Nat /\ \A j \in 1..Len(L) : L[j] \in Chunks /\ Node[L[j]].fd = fd[L[j]]
  BY DEF Node
<1>2. L[i] \in ToSet(L) /\ Node[L[i]].fd = k
  BY <1>1 DEF ToSet
<1>3. find_fd(L, Node, k) # -1
  BY <1>2 DEF find_fd, Nodes
<1>4. \A m \in 1..(Len(L) - 1) : (\E j \in 1..m : Node[L[j]].fd = k) <=> m >= i
  BY <1>1, <1>2
<1>5. delete_link(L, Node, k)
        = [m \in 1..(Len(L) - 1) |->
             IF \E j \in 1..m : Node[L[j]].fd = k THEN L[m + 1] ELSE L[m]]
  BY <1>3 DEF delete_link
<1> QED BY <1>4, <1>5 DEF Without
-----------------------------------------------------------------------------
(* The writer has a chunk that is not in the list: before it is linked,    *)
(* and after it is unlinked.                                               *)
Labels == {"memset_ID", "memset_next", "strcpy", "fd", "next", "link"}
Apart == Labels \cup {"free"}

(* The heap holds the list L, and what the writer relies on is so. *)
Sound(L) ==
  /\ Leads(head, next, L)
  /\ \A a \in ToSet(L) : ID[a] = Admin /\ fd[a] \in Fds
  /\ used = ToSet(L) \cup (IF w.at \in Apart THEN {w.p} ELSE {})
  /\ w.at \in Apart => w.p \in Chunks \ ToSet(L)
  /\ w.at # "idle" => w.fd \in Fds
  /\ w.at \in {"fd", "next", "link"} => ID[w.p] = Admin
  /\ w.at \in {"next", "link"} => fd[w.p] = w.fd
  /\ w.at = "link" => next[w.p] = head
  /\ w.at = "find" => w.p = NULL \/ Reached(L, w.p, w.q, w.fd)
  /\ w.at = "unlink" => Reached(L, w.p, w.q, w.fd) /\ fd[w.p] = w.fd

(* The part of TypeOK about the heap. *)
HeapTyped ==
  LET P == Chunks \cup {NULL} IN
  /\ head \in P /\ next \in [Chunks -> P]
  /\ ID \in [Chunks -> {"junk", "zeros", Admin}]
  /\ fd \in [Chunks -> Fds \cup {0}]
  /\ used \in SUBSET Chunks
  /\ w \in [at : Labels \cup {"idle", "find", "unlink", "free"}, p : P, q : P, fd : Fds \cup {0}]

(* The labels by name. *)
LEMMA LabelsAre == ToSet(InsertSteps) = Labels
BY DEF ToSet, InsertSteps, Labels

(* What is sound is what Chain finds. *)
LEMMA ChainIs == \A L : Sound(L) => Chain = L
<1> SUFFICES ASSUME NEW L, Sound(L) PROVE Chain = L
  OBVIOUS
<1>1. Follow(head, next) = L
  BY FollowIs DEF Sound
<1> QED BY <1>1 DEF Chain

(* The same after a step. *)
LEMMA NextChainIs == ASSUME NEW L, Sound(L)' PROVE Chain' = L
<1>1. Follow(head', next') = L
  BY FollowIs DEF Sound
<1> QED BY <1>1 DEF Chain

(* Where the writer goes on after a store. *)
LEMMA AfterIs ==
  /\ After("memset_ID") = [w EXCEPT !.at = "memset_next"]
  /\ After("memset_next") = [w EXCEPT !.at = "strcpy"]
  /\ After("strcpy") = [w EXCEPT !.at = "fd"]
  /\ After("fd") = [w EXCEPT !.at = "next"]
  /\ After("next") = [w EXCEPT !.at = "link"]
  /\ After("link") = Idle
<1> DEFINE P(l, i) == i \in DOMAIN InsertSteps /\ InsertSteps[i] = l
<1>1. DOMAIN InsertSteps = 1..6 /\ Len(InsertSteps) = 6
  BY DEF InsertSteps
<1>2. /\ InsertSteps[1] = "memset_ID" /\ InsertSteps[2] = "memset_next"
      /\ InsertSteps[3] = "strcpy" /\ InsertSteps[4] = "fd"
      /\ InsertSteps[5] = "next" /\ InsertSteps[6] = "link"
  BY DEF InsertSteps
<1>3. \A i \in 1..6 : i = 1 \/ i = 2 \/ i = 3 \/ i = 4 \/ i = 5 \/ i = 6
  OBVIOUS
<1>4. ASSUME NEW i \in 1..6
      PROVE  After(InsertSteps[i]) = IF i = 6 THEN Idle ELSE [w EXCEPT !.at = InsertSteps[i + 1]]
  <2>1. \A j \in 1..6 : InsertSteps[j] = InsertSteps[i] => j = i
    BY <1>2, <1>3
  <2>2. (CHOOSE j \in DOMAIN InsertSteps : InsertSteps[j] = InsertSteps[i]) = i
    BY <1>1, <2>1
  <2> QED BY <1>1, <2>2 DEF After
<1>5. /\ After(InsertSteps[1]) = [w EXCEPT !.at = InsertSteps[2]]
      /\ After(InsertSteps[2]) = [w EXCEPT !.at = InsertSteps[3]]
      /\ After(InsertSteps[3]) = [w EXCEPT !.at = InsertSteps[4]]
      /\ After(InsertSteps[4]) = [w EXCEPT !.at = InsertSteps[5]]
      /\ After(InsertSteps[5]) = [w EXCEPT !.at = InsertSteps[6]]
      /\ After(InsertSteps[6]) = Idle
  BY <1>4
<1> QED BY <1>2, <1>5
-----------------------------------------------------------------------------
(* Every action of the writer keeps the types of the heap. *)
LEMMA WriteTyped ==
  ASSUME HeapTyped, NEW L, Sound(L), Malloc \/ Insert \/ DeleteBegin \/ DeleteFind \/ Unlink \/ Free
  PROVE  HeapTyped'
<1> USE LinkHeapAssumption DEF HeapTyped
<1>1. CASE Malloc
  BY <1>1 DEF Malloc, InsertSteps, Labels
<1>2. CASE Insert
  <2>1. w.at \in Labels /\ w.p \in Chunks
    BY <1>2, LabelsAre DEF Insert, Sound, Apart
  <2>2. w' \in [at : Labels \cup {"idle", "find", "unlink", "free"}, p : Chunks \cup {NULL},
                q : Chunks \cup {NULL}, fd : Fds \cup {0}]
    BY <1>2, <2>1, AfterIs DEF Insert, Labels, Idle
  <2>3. ID' \in [Chunks -> {"junk", "zeros", Admin}]
    BY <1>2, <2>1 DEF Insert
  <2>4. next' \in [Chunks -> Chunks \cup {NULL}]
    BY <1>2, <2>1 DEF Insert
  <2>5. fd' \in [Chunks -> Fds \cup {0}]
    BY <1>2, <2>1 DEF Insert
  <2>6. head' \in Chunks \cup {NULL} /\ used' \in SUBSET Chunks
    BY <1>2, <2>1 DEF Insert
  <2> QED BY <2>2, <2>3, <2>4, <2>5, <2>6
<1>3. CASE DeleteBegin
  BY <1>3 DEF DeleteBegin, heap
<1>4. CASE DeleteFind
  <2>1. w.p # NULL => w.p \in Chunks /\ next[w.p] \in Chunks \cup {NULL}
    OBVIOUS
  <2> QED BY <1>4, <2>1 DEF DeleteFind, heap, Idle
<1>5. CASE Unlink
  <2>1. w.p \in Chunks /\ next[w.p] \in Chunks \cup {NULL}
    BY <1>5 DEF Unlink, Sound, Reached, Leads
  <2> QED BY <1>5, <2>1 DEF Unlink
<1>6. CASE Free
  <2>1. w.p \in Chunks
    BY <1>6 DEF Free, Sound, Apart
  <2> QED BY <1>6, <2>1 DEF Free, Idle
<1> QED BY <1>1, <1>2, <1>3, <1>4, <1>5, <1>6

(* Pointers that do not touch the list's nodes leave the list. *)
LEMMA LeadsAlong ==
  ASSUME NEW h, NEW n, NEW m, NEW L, Leads(h, n, L), \A a \in ToSet(L) : m[a] = n[a]
  PROVE  Leads(h, m, L)
<1>1. \A i \in 1..Len(L) : L[i] \in ToSet(L)
  BY DEF Leads, ToSet
<1> QED BY <1>1 DEF Leads

(* The new chunk was not in the list. *)
LEMMA MallocSound ==
  ASSUME HeapTyped, NEW L, Sound(L), Malloc
  PROVE  Sound(L)'
<1>1. PICK a \in Chunks \ used, f \in Fds :
        used' = used \cup {a} /\ w' = [at |-> "memset_ID", p |-> a, q |-> NULL, fd |-> f]
  BY DEF Malloc, InsertSteps
<1>2. w.at = "idle" /\ w'.at = "memset_ID" /\ w'.p = a /\ w'.fd = f
  BY <1>1 DEF Malloc, Idle
<1>3. head' = head /\ next' = next /\ ID' = ID /\ fd' = fd
  BY DEF Malloc
<1>4. used = ToSet(L)
  BY <1>2 DEF Sound, Apart, Labels
<1>5. w'.at \in Apart
  BY <1>2 DEF Apart, Labels
<1> QED BY <1>1, <1>2, <1>3, <1>4, <1>5 DEF Sound

(* The stores that fill a new node do not touch the list. *)
LEMMA InsertSound ==
  ASSUME HeapTyped, NEW L, Sound(L), Insert, w.at # "link"
  PROVE  Sound(L)'
<1>1. /\ w.p \in Chunks \ ToSet(L) /\ w.fd \in Fds /\ w.at \in Apart
      /\ w.at \in {"memset_ID", "memset_next", "strcpy", "fd", "next"}
  BY LabelsAre DEF Insert, Sound, Apart, Labels
<1>2. /\ w'.p = w.p /\ w'.fd = w.fd
      /\ w.at = "memset_ID" => w'.at = "memset_next"
      /\ w.at = "memset_next" => w'.at = "strcpy"
      /\ w.at = "strcpy" => w'.at = "fd"
      /\ w.at = "fd" => w'.at = "next"
      /\ w.at = "next" => w'.at = "link"
  BY <1>1, AfterIs DEF Insert, HeapTyped
<1>3. w'.at \in {"memset_next", "strcpy", "fd", "next", "link"} /\ w'.at \in Apart
  BY <1>1, <1>2 DEF Apart, Labels
<1>4. head' = head /\ used' = used
  BY <1>1 DEF Insert
<1>5. \A a \in ToSet(L) : next'[a] = next[a] /\ ID'[a] = ID[a] /\ fd'[a] = fd[a]
  <2>1. ToSet(L) \subseteq Chunks
    BY DEF Sound, Leads, ToSet
  <2> QED BY <1>1, <2>1 DEF Insert, HeapTyped
<1>6. Leads(head', next', L)
  BY <1>4, <1>5, LeadsAlong DEF Sound
<1>7. w'.at \in {"fd", "next", "link"} => ID'[w'.p] = Admin
  BY <1>1, <1>2 DEF Insert, HeapTyped, Sound
<1>8. w'.at \in {"next", "link"} => fd'[w'.p] = w'.fd
  BY <1>1, <1>2 DEF Insert, HeapTyped, Sound
<1>9. w'.at = "link" => next'[w'.p] = head'
  BY <1>1, <1>2, <1>4 DEF Insert, HeapTyped
<1>10. (\A a \in ToSet(L) : ID'[a] = Admin /\ fd'[a] \in Fds) /\ used' = ToSet(L) \cup {w'.p}
  BY <1>1, <1>2, <1>4, <1>5 DEF Sound
<1> QED BY <1>1, <1>2, <1>3, <1>6, <1>7, <1>8, <1>9, <1>10 DEF Sound

(* The store into head puts the node in front of the list. *)
LEMMA LinkSound ==
  ASSUME HeapTyped, NEW L, Sound(L), Insert, w.at = "link",
         NEW K, K = insert_link(L, w.p)
  PROVE  Sound(K)'
<1>1. /\ w.p \in Chunks \ ToSet(L) /\ w.at \in Apart /\ w.fd \in Fds
      /\ ID[w.p] = Admin /\ fd[w.p] = w.fd /\ next[w.p] = head
  BY DEF Sound, Apart, Labels
<1>2. w' = Idle /\ head' = w.p /\ next' = next /\ ID' = ID /\ fd' = fd /\ used' = used
  BY AfterIs DEF Insert
<1>3. L \in Seq(Chunks) /\ Once(L) /\ Len(L) \in Nat
  BY DEF Sound, Leads
<1>4. /\ K \in Seq(Chunks) /\ Once(K) /\ K # <<>> /\ Len(K) = Len(L) + 1 /\ K[1] = w.p
      /\ \A i \in 1..Len(L) : K[i + 1] = L[i]
      /\ ToSet(K) = ToSet(L) \cup {w.p}
  BY <1>1, <1>3, Push
<1>6. Leads(head', next', K)
  <2>1. head' = IF K = <<>> THEN NULL ELSE K[1]
    BY <1>2, <1>4
  <2>2. ASSUME NEW i \in 1..Len(K)
        PROVE  next'[K[i]] = IF i = Len(K) THEN NULL ELSE K[i + 1]
    <3>1. CASE i = 1
      <4>1. next'[K[i]] = IF L = <<>> THEN NULL ELSE L[1]
        BY <1>1, <1>2, <1>4, <3>1 DEF Sound, Leads
      <4>2. L = <<>> <=> Len(L) = 0
        BY <1>3
      <4>3. Len(L) # 0 => K[i + 1] = L[1]
        BY <1>3, <1>4, <3>1
      <4> QED BY <1>3, <1>4, <3>1, <4>1, <4>2, <4>3
    <3>2. CASE i # 1
      <4>1. PICK j \in 1..Len(L) : i = j + 1
        <5>1. i - 1 \in 1..Len(L) /\ i = (i - 1) + 1
          BY <1>3, <1>4, <3>2
        <5> QED BY <5>1
      <4>2. K[i] = L[j] /\ (j # Len(L) => K[i + 1] = L[j + 1])
        <5>1. j # Len(L) => j + 1 \in 1..Len(L)
          BY <1>3, <4>1
        <5> QED BY <1>4, <4>1, <5>1
      <4>3. next[L[j]] = IF j = Len(L) THEN NULL ELSE L[j + 1]
        BY <4>1 DEF Sound, Leads
      <4> QED BY <1>2, <1>3, <1>4, <4>1, <4>2, <4>3
    <3> QED BY <3>1, <3>2
  <2> QED BY <1>4, <2>1, <2>2 DEF Leads
<1>7. \A a \in ToSet(K) : ID'[a] = Admin /\ fd'[a] \in Fds
  BY <1>1, <1>2, <1>4 DEF Sound
<1>8. used' = ToSet(K) /\ w'.at = "idle"
  BY <1>1, <1>2, <1>4 DEF Sound, Idle
<1> QED BY <1>6, <1>7, <1>8 DEF Sound, Apart, Labels

(* The walk of delete_link goes from node to node. *)
LEMMA DeleteSound ==
  ASSUME HeapTyped, NEW L, Sound(L), DeleteBegin \/ DeleteFind
  PROVE  Sound(L)'
<1>1. head' = head /\ next' = next /\ ID' = ID /\ fd' = fd /\ used' = used
  BY DEF DeleteBegin, DeleteFind, heap
<1>2. used = ToSet(L) /\ used' = ToSet(L)
  BY <1>1 DEF DeleteBegin, DeleteFind, Sound, Apart, Labels, Idle
<1>3. Len(L) \in Nat /\ \A j \in 1..Len(L) : L[j] \in Chunks /\ L[j] # NULL
  BY LinkHeapAssumption DEF Sound, Leads
<1>4. ASSUME DeleteBegin
      PROVE  w'.at = "find" /\ w'.fd \in Fds /\ (w'.p = NULL \/ Reached(L, w.p, w.q, w.fd)')
  <2>1. PICK f \in Fds : w' = [at |-> "find", p |-> head, q |-> NULL, fd |-> f]
    BY <1>4 DEF DeleteBegin
  <2>2. L # <<>> => 1 \in 1..Len(L) /\ head = L[1]
    <3>1. L # <<>> => Len(L) # 0
      BY DEF Sound, Leads
    <3> QED BY <1>3, <3>1 DEF Sound, Leads
  <2>3. L = <<>> => head = NULL
    BY DEF Sound, Leads
  <2>4. \A j \in 1..(1 - 1) : FALSE
    OBVIOUS
  <2> QED BY <2>1, <2>2, <2>3, <2>4 DEF Reached
<1>5. ASSUME DeleteFind, w.p # NULL, fd[w.p] = w.fd
      PROVE  /\ w'.at = "unlink" /\ w'.fd \in Fds /\ Reached(L, w.p, w.q, w.fd)'
             /\ fd'[w'.p] = w'.fd
  <2>1. /\ w.at = "find" /\ w'.at = "unlink"
        /\ w'.p = w.p /\ w'.q = w.q /\ w'.fd = w.fd
    BY <1>5 DEF DeleteFind, HeapTyped
  <2>2. w.fd \in Fds /\ Reached(L, w.p, w.q, w.fd)
    BY <1>5, <2>1 DEF Sound
  <2> QED BY <1>1, <1>5, <2>1, <2>2 DEF Reached
<1>6. ASSUME DeleteFind, w.p # NULL, fd[w.p] # w.fd
      PROVE  w'.at = "find" /\ w'.fd \in Fds /\ (w'.p = NULL \/ Reached(L, w.p, w.q, w.fd)')
  <2>1. /\ w.at = "find" /\ w'.at = "find"
        /\ w'.p = next[w.p] /\ w'.q = w.p /\ w'.fd = w.fd
    BY <1>6 DEF DeleteFind, HeapTyped
  <2>2. w.fd \in Fds /\ Reached(L, w.p, w.q, w.fd)
    BY <1>6, <2>1 DEF Sound
  <2>3. PICK i \in 1..Len(L) : w.p = L[i] /\ \A j \in 1..(i - 1) : fd[L[j]] # w.fd
    BY <2>2 DEF Reached
  <2>4. next[w.p] = IF i = Len(L) THEN NULL ELSE L[i + 1]
    BY <2>3 DEF Sound, Leads
  <2>5. CASE i = Len(L)
    BY <2>1, <2>2, <2>4, <2>5
  <2>6. CASE i # Len(L)
    <3>1. PICK m \in 1..Len(L) : m = i + 1 /\ m # 1 /\ m - 1 = i
      <4>1. i + 1 \in 1..Len(L) /\ i + 1 # 1 /\ (i + 1) - 1 = i
        BY <1>3, <2>6
      <4> QED BY <4>1
    <3>2. w'.p = L[m] /\ w'.q = L[m - 1]
      BY <2>1, <2>3, <2>4, <2>6, <3>1
    <3>3. \A j \in 1..(m - 1) : fd[L[j]] # w.fd
      <4>1. \A j \in 1..(m - 1) : j = i \/ j \in 1..(i - 1)
        BY <3>1
      <4> QED BY <1>6, <2>3, <4>1
    <3> QED BY <1>1, <2>1, <2>2, <3>1, <3>2, <3>3 DEF Reached
  <2> QED BY <2>5, <2>6
<1>7. ASSUME DeleteFind, w.p = NULL PROVE w'.at = "idle"
  BY <1>7 DEF DeleteFind, Idle
<1>8. \/ w'.at = "idle"
      \/ w'.at = "find" /\ w'.fd \in Fds /\ (w'.p = NULL \/ Reached(L, w.p, w.q, w.fd)')
      \/ w'.at = "unlink" /\ w'.fd \in Fds /\ Reached(L, w.p, w.q, w.fd)' /\ fd'[w'.p] = w'.fd
  BY <1>4, <1>5, <1>6, <1>7
<1>9. Leads(head', next', L) /\ \A a \in ToSet(L) : ID'[a] = Admin /\ fd'[a] \in Fds
  BY <1>1 DEF Sound
<1> QED BY <1>2, <1>8, <1>9 DEF Sound, Apart, Labels

(* The node is taken out at one store, and delete_link's result is it. *)
LEMMA UnlinkSound ==
  ASSUME HeapTyped, NEW L, Sound(L), Unlink
  PROVE  \E K : Sound(K)' /\ K = delete_link(L, Node, w.fd)
<1>1. w.at = "unlink" /\ w.fd \in Fds /\ w.p \in Chunks /\ used = ToSet(L)
  BY DEF Unlink, Sound, Reached, Leads, Apart, Labels
<1>2. PICK i \in 1..Len(L) : /\ w.p = L[i] /\ w.q = IF i = 1 THEN NULL ELSE L[i - 1]
                             /\ \A j \in 1..(i - 1) : fd[L[j]] # w.fd
  BY <1>1 DEF Sound, Reached
<1>3. L \in Seq(Chunks) /\ Once(L) /\ Len(L) \in Nat /\ \A j \in 1..Len(L) : L[j] \in Chunks
  BY DEF Sound, Leads
<1>4. PICK K : K = Without(L, i)
  OBVIOUS
<1>5. K = delete_link(L, Node, w.fd)
  BY <1>1, <1>2, <1>3, <1>4, DeleteIs DEF Sound
<1>6. /\ K \in Seq(Chunks) /\ Once(K) /\ Len(K) = Len(L) - 1
      /\ \A k \in 1..Len(K) : K[k] = IF k >= i THEN L[k + 1] ELSE L[k]
      /\ ToSet(K) = ToSet(L) \ {w.p}
  BY <1>2, <1>3, <1>4, Drop
<1>7. \A j \in 1..Len(L) : next[L[j]] = IF j = Len(L) THEN NULL ELSE L[j + 1]
  BY DEF Sound, Leads
<1>8. w'.at = "free" /\ w'.p = w.p /\ w'.fd = w.fd
  BY DEF Unlink, HeapTyped
<1>9. ID' = ID /\ fd' = fd /\ used' = used
  BY DEF Unlink
<1>10. w.q = NULL <=> i = 1
  <2>1. i # 1 => i - 1 \in 1..Len(L)
    BY <1>3
  <2> QED BY <1>2, <1>3, <2>1, LinkHeapAssumption
<1>11. head' = IF K = <<>> THEN NULL ELSE K[1]
  <2>1. K = <<>> <=> Len(L) = 1
    BY <1>3, <1>6
  <2>2. CASE i = 1
    <3>1. head' = IF Len(L) = 1 THEN NULL ELSE L[2]
      <4>1. head' = next[L[1]]
        BY <1>2, <1>10, <2>2 DEF Unlink
      <4>2. 1 \in 1..Len(L) /\ 1 + 1 = 2 /\ (1 = Len(L) <=> Len(L) = 1)
        BY <1>3, <2>2
      <4>3. next[L[1]] = IF 1 = Len(L) THEN NULL ELSE L[1 + 1]
        BY <1>7, <4>2
      <4> QED BY <4>1, <4>2, <4>3
    <3>2. Len(L) # 1 => 1 \in 1..Len(K) /\ K[1] = L[2]
      BY <1>3, <1>6, <2>2
    <3> QED BY <2>1, <3>1, <3>2
  <2>3. CASE i # 1
    <3>1. head' = L[1] /\ Len(L) # 1
      BY <1>3, <1>10, <2>3 DEF Unlink, Sound, Leads
    <3>2. 1 \in 1..Len(K) /\ K[1] = L[1]
      BY <1>3, <1>6, <2>3
    <3> QED BY <2>1, <3>1, <3>2
  <2> QED BY <2>2, <2>3
<1>12. ASSUME NEW k \in 1..Len(K)
       PROVE  next'[K[k]] = IF k = Len(K) THEN NULL ELSE K[k + 1]
  <2>1. k # Len(K) => K[k + 1] = IF k + 1 >= i THEN L[k + 2] ELSE L[k + 1]
    <3>1. k # Len(K) => k + 1 \in 1..Len(K) /\ (k + 1) + 1 = k + 2
      BY <1>3, <1>6
    <3> QED BY <1>6, <3>1
  <2>2. CASE k >= i
    <3>1. PICK j \in 1..Len(L) : j = k + 1 /\ j # i - 1 /\ (j = Len(L) <=> k = Len(K))
      <4>1. k + 1 \in 1..Len(L) /\ k + 1 # i - 1 /\ (k + 1 = Len(L) <=> k = Len(K))
        BY <1>3, <1>6, <2>2
      <4> QED BY <4>1
    <3>2. K[k] = L[j]
      BY <1>6, <2>2, <3>1
    <3>3. i # 1 => L[i - 1] # L[j] /\ i - 1 \in 1..Len(L)
      BY <1>3, <3>1 DEF Once
    <3>4. next'[L[j]] = next[L[j]]
      BY <1>2, <1>3, <1>10, <3>3 DEF Unlink, HeapTyped
    <3>5. k # Len(K) => K[k + 1] = L[j + 1]
      <4>1. k + 1 >= i /\ j + 1 = k + 2
        BY <2>2, <3>1
      <4> QED BY <2>1, <4>1
    <3> QED BY <1>7, <3>1, <3>2, <3>4, <3>5
  <2>3. CASE k + 1 < i
    <3>1. k \in 1..Len(L) /\ k # i - 1 /\ k # Len(L) /\ k # Len(K) /\ K[k] = L[k]
      BY <1>3, <1>6, <2>3
    <3>2. i # 1 => L[i - 1] # L[k] /\ i - 1 \in 1..Len(L)
      BY <1>3, <3>1 DEF Once
    <3>3. next'[L[k]] = next[L[k]]
      BY <1>2, <1>3, <1>10, <3>1, <3>2 DEF Unlink, HeapTyped
    <3>4. K[k + 1] = L[k + 1]
      BY <2>1, <2>3, <3>1
    <3> QED BY <1>7, <3>1, <3>3, <3>4
  <2>4. CASE k + 1 = i
    <3>1. k \in 1..Len(L) /\ i # 1 /\ i - 1 = k /\ K[k] = L[k] /\ (i = Len(L) <=> k = Len(K))
      BY <1>3, <1>6, <2>4
    <3>2. next'[L[k]] = next[L[i]]
      BY <1>2, <1>3, <1>10, <3>1 DEF Unlink, HeapTyped
    <3>3. k # Len(K) => K[k + 1] = L[i + 1]
      <4>1. k + 1 >= i /\ k + 2 = i + 1
        BY <2>4
      <4> QED BY <2>1, <4>1
    <3> QED BY <1>7, <3>1, <3>2, <3>3
  <2>5. k >= i \/ k + 1 < i \/ k + 1 = i
    BY <1>6
  <2> QED BY <2>2, <2>3, <2>4, <2>5
<1>13. Leads(head', next', K)
  BY <1>6, <1>11, <1>12 DEF Leads
<1>14. \A a \in ToSet(K) : ID'[a] = Admin /\ fd'[a] \in Fds
  BY <1>6, <1>9 DEF Sound
<1>15. used' = ToSet(K) \cup {w'.p} /\ w'.p \in Chunks \ ToSet(K)
  <2>1. w.p \in ToSet(L)
    BY <1>2, <1>3 DEF ToSet
  <2> QED BY <1>1, <1>6, <1>8, <1>9, <2>1
<1>16. Sound(K)'
  BY <1>1, <1>8, <1>13, <1>14, <1>15 DEF Sound, Apart, Labels
<1> QED BY <1>5, <1>16

(* A chunk that is freed was not in the list any more. *)
LEMMA FreeSound ==
  ASSUME HeapTyped, NEW L, Sound(L), Free
  PROVE  Sound(L)'
<1>1. w.at = "free" /\ w.p \in Chunks \ ToSet(L) /\ used = ToSet(L) \cup {w.p}
  BY DEF Free, Sound, Apart
<1>2. head' = head /\ next' = next /\ fd' = fd /\ used' = ToSet(L) /\ w'.at = "idle"
  BY <1>1 DEF Free, Idle
<1>3. \A a \in ToSet(L) : ID'[a] = ID[a]
  <2>1. ToSet(L) \subseteq Chunks
    BY DEF Sound, Leads, ToSet
  <2> QED BY <1>1, <2>1 DEF Free, HeapTyped
<1> QED BY <1>1, <1>2, <1>3 DEF Sound, Apart, Labels

(* What one step of the writer does to the list. *)
LEMMA WriteSound ==
  ASSUME HeapTyped, NEW L, Sound(L), Malloc \/ Insert \/ DeleteBegin \/ DeleteFind \/ Unlink \/ Free
  PROVE  \E K : /\ Sound(K)'
                /\ \/ K = L
                   \/ w.at = "link" /\ K = insert_link(L, w.p)
                   \/ w.at = "unlink" /\ K = delete_link(L, Node, w.fd)
<1>1. CASE Malloc BY <1>1, MallocSound
<1>2. CASE Insert /\ w.at # "link" BY <1>2, InsertSound
<1>3. CASE Insert /\ w.at = "link"
  <2>1. PICK K : K = insert_link(L, w.p) OBVIOUS
  <2> QED BY <1>3, <2>1, LinkSound
<1>4. CASE DeleteBegin \/ DeleteFind BY <1>4, DeleteSound
<1>5. CASE Unlink
  <2>1. w.at = "unlink" BY <1>5 DEF Unlink
  <2> QED BY <1>5, <2>1, UnlinkSound
<1>6. CASE Free BY <1>6, FreeSound
<1> QED BY <1>1, <1>2, <1>3, <1>4, <1>5, <1>6
-----------------------------------------------------------------------------
(* The part of TypeOK about the search. *)
STyped ==
  /\ s \in [at : {"idle", "compare", "next", "done"}, p : Chunks \cup {NULL},
            name : Names, found : BOOLEAN]
  /\ s.p = NULL <=> s.at \in {"idle", "done"}
  /\ kept \in SUBSET Chunks /\ stale \in BOOLEAN

(* Where find_link stands and what it has ruled out, unless it has stood   *)
(* outside the list.                                                       *)
SearchInv ==
  /\ s.at = "compare" => stale \/ s.p \in ToSet(Chain)
  /\ s.at = "next" => stale \/ s.name # Admin
  /\ AnswerExplained

(* The inductive invariant. *)
IInv == TypeOK /\ (\E L : Sound(L)) /\ SearchInv

(* TypeOK has a part about the heap and one about the search. *)
LEMMA TypedIs == (TypeOK <=> HeapTyped /\ STyped) /\ (TypeOK' <=> HeapTyped' /\ STyped')
<1>1. TypeOK <=> HeapTyped /\ STyped
  BY LabelsAre DEF TypeOK, HeapTyped, STyped
<1>2. ToSet(InsertSteps)' = Labels
  BY LabelsAre DEF InsertSteps, Labels
<1>3. TypeOK' <=> HeapTyped' /\ STyped'
  BY LabelsAre DEF TypeOK, HeapTyped, STyped
<1> QED BY <1>1, <1>3

(* Every step keeps the heap sound and changes the list as LinkList says.  *)
LEMMA HeapStep ==
  ASSUME HeapTyped, NEW L, Sound(L), [Next]_vars
  PROVE  /\ HeapTyped'
         /\ \E K : /\ Sound(K)'
                   /\ \/ K = L
                      \/ w.at = "link" /\ K = insert_link(L, w.p)
                      \/ w.at = "unlink" /\ K = delete_link(L, Node, w.fd)
<1>1. CASE Write
  BY <1>1, WriteTyped, WriteSound DEF Write
<1>2. CASE Search \/ UNCHANGED vars
  <2>1. head' = head /\ next' = next /\ ID' = ID /\ fd' = fd /\ used' = used /\ w' = w
    BY <1>2 DEF Search, vars, heap
  <2>2. HeapTyped'
    BY <2>1 DEF HeapTyped
  <2>3. Sound(L)'
    BY <2>1 DEF Sound, Reached
  <2> QED BY <2>2, <2>3
<1> QED BY <1>1, <1>2 DEF Next

(* Every step keeps what is known of the search. *)
LEMMA SearchStep ==
  ASSUME HeapTyped, STyped, SearchInv, NEW L, Sound(L), [Next]_vars, NEW K, Sound(K)', HeapTyped'
  PROVE  STyped' /\ SearchInv'
<1>1. Chain = L
  BY ChainIs
<1>2. Chain' = K
  BY NextChainIs
<1>3. ToSet(K) \subseteq Chunks /\ NULL \notin ToSet(K)
  BY LinkHeapAssumption DEF Sound, Leads, ToSet
<1>4. \A a \in ToSet(L) : ID[a] = Admin
  BY DEF Sound
<1>5. head' = NULL => ToSet(K) = {}
  <2>1. ASSUME K # <<>> PROVE head' # NULL
    <3>1. head' = K[1] /\ Len(K) # 0 /\ Len(K) \in Nat
      BY <2>1 DEF Sound, Leads
    <3>2. K[1] \in Chunks
      BY <3>1 DEF Sound, Leads
    <3> QED BY <3>1, <3>2, LinkHeapAssumption
  <2> QED BY <2>1 DEF ToSet
<1>6. ASSUME Watch
      PROVE  /\ kept' = IF s'.at = "idle" THEN {} ELSE IF s.at = "idle" THEN ToSet(K)
                                                   ELSE kept \cap ToSet(K)
             /\ stale' = (s'.at # "idle" /\ (stale \/ s'.p \notin ToSet(K) \cup {NULL}))
  BY <1>2, <1>6 DEF Watch
<1>7. ASSUME Watch, s' \in [at : {"idle", "compare", "next", "done"}, p : Chunks \cup {NULL},
                           name : Names, found : BOOLEAN],
             s'.p = NULL <=> s'.at \in {"idle", "done"}
      PROVE  STyped'
  BY <1>3, <1>6, <1>7 DEF STyped
<1>8. CASE Write /\ Watch
  <2>1. s' = s
    BY <1>8 DEF Write
  <2>2. STyped'
    BY <1>7, <1>8, <2>1 DEF STyped
  <2>3. s.at # "idle" => (stale => stale') /\ (kept = {} => kept' = {})
    BY <1>6, <1>8, <2>1
  <2>4. s'.at = "compare" => stale' \/ s'.p \in ToSet(K)
    BY <1>6, <1>8, <2>1 DEF STyped
  <2>5. s'.at = "next" => stale' \/ s'.name # Admin
    BY <2>1, <2>3 DEF SearchInv
  <2>6. AnswerExplained'
    BY <2>1, <2>3 DEF SearchInv, AnswerExplained
  <2> QED BY <1>2, <2>2, <2>4, <2>5, <2>6 DEF SearchInv
<1>9. ASSUME Watch, NEW p \in Chunks \cup {NULL}, NEW name \in Names, StandAt(p, name),
             p = NULL /\ name = Admin => stale' \/ kept' = {}
      PROVE  STyped' /\ SearchInv'
  <2>1. STyped'
    BY <1>7, <1>9, LinkHeapAssumption DEF StandAt
  <2>2. s'.at = "compare" => stale' \/ s'.p \in ToSet(K)
    BY <1>6, <1>9, <2>1 DEF STyped
  <2>3. s'.at # "next"
    BY <1>9 DEF StandAt
  <2>4. AnswerExplained'
    BY <1>9 DEF StandAt, AnswerExplained
  <2> QED BY <1>2, <2>1, <2>2, <2>3, <2>4 DEF SearchInv
<1>10. CASE FindBegin /\ Search /\ Watch
  <2>1. PICK name \in Names : StandAt(head, name)
    BY <1>10 DEF FindBegin
  <2>2. head' = head /\ s.at = "idle" /\ head \in Chunks \cup {NULL}
    BY <1>10 DEF FindBegin, Search, heap, HeapTyped
  <2>3. head = NULL => kept' = {}
    BY <1>5, <1>6, <1>10, <2>1, <2>2 DEF StandAt
  <2> QED BY <1>9, <1>10, <2>1, <2>2, <2>3
<1>11. CASE FindCompare /\ Watch
  <2>1. s.at = "compare" /\ s.p \in Chunks /\ s.name \in Names
    BY <1>11 DEF FindCompare, STyped
  <2>2. CASE ID[s.p] = s.name
    <3>1. s' = [at |-> "done", p |-> NULL, name |-> s.name, found |-> TRUE]
      BY <1>11, <2>2 DEF FindCompare, STyped
    <3>2. s.name = Admin
      BY <2>1, <2>2, LinkHeapAssumption DEF HeapTyped
    <3>3. STyped'
      BY <1>7, <1>11, <2>1, <3>1
    <3> QED BY <3>1, <3>2, <3>3 DEF SearchInv, AnswerExplained
  <2>3. CASE ID[s.p] # s.name
    <3>1. s' = [at |-> "next", p |-> s.p, name |-> s.name, found |-> s.found]
      BY <1>11, <2>3 DEF FindCompare, STyped
    <3>2. STyped'
      BY <1>7, <1>11, <2>1, <3>1, LinkHeapAssumption DEF STyped
    <3>3. stale \/ s.name # Admin
      BY <1>1, <1>4, <2>1, <2>3 DEF SearchInv
    <3>4. stale => stale'
      BY <1>6, <1>11, <3>1
    <3> QED BY <3>1, <3>2, <3>3, <3>4 DEF SearchInv, AnswerExplained
  <2> QED BY <2>2, <2>3
<1>12. CASE FindNext /\ Watch
  <2>1. s.at = "next" /\ s.p \in Chunks /\ s.name \in Names /\ StandAt(next[s.p], s.name)
    BY <1>12 DEF FindNext, STyped
  <2>2. next[s.p] \in Chunks \cup {NULL}
    BY <2>1 DEF HeapTyped
  <2>3. s'.at # "idle"
    BY <2>1 DEF StandAt
  <2>4. s.name = Admin => stale'
    BY <1>6, <1>12, <2>1, <2>3 DEF SearchInv
  <2> QED BY <1>9, <1>12, <2>1, <2>2, <2>4
<1>13. CASE Reply /\ Watch
  <2>1. s' = [at |-> "idle", p |-> NULL, name |-> Admin, found |-> FALSE]
    BY <1>13 DEF Reply
  <2>2. STyped'
    BY <1>7, <1>13, <2>1, LinkHeapAssumption
  <2> QED BY <2>1, <2>2 DEF SearchInv, AnswerExplained
<1>14. CASE UNCHANGED vars
  <2>1. s' = s /\ kept' = kept /\ stale' = stale /\ head' = head /\ next' = next
    BY <1>14 DEF vars, heap
  <2>2. Chain' = Chain
    BY <2>1 DEF Chain
  <2> QED BY <2>1, <2>2 DEF STyped, SearchInv, AnswerExplained
<1> QED BY <1>8, <1>10, <1>11, <1>12, <1>13, <1>14 DEF Next, Search
-----------------------------------------------------------------------------
(* The empty list is sound. *)
LEMMA Start == Init => IInv
<1> SUFFICES ASSUME Init PROVE IInv
  OBVIOUS
<1>1. Sound(<<>>)
  BY DEF Init, Sound, Leads, Once, ToSet, Apart, Labels, Idle
<1>2. HeapTyped
  BY DEF Init, HeapTyped, Idle
<1>3. STyped
  BY LinkHeapAssumption DEF Init, STyped
<1>4. SearchInv
  BY DEF Init, SearchInv, AnswerExplained
<1> QED BY <1>1, <1>2, <1>3, <1>4, TypedIs DEF IInv

(* IInv is inductive. *)
LEMMA Step == IInv /\ [Next]_vars => IInv'
<1> SUFFICES ASSUME IInv, [Next]_vars PROVE IInv'
  OBVIOUS
<1>1. HeapTyped /\ STyped /\ SearchInv
  BY TypedIs DEF IInv
<1>2. PICK L : Sound(L)
  BY DEF IInv
<1>3. HeapTyped' /\ \E K : Sound(K)'
  BY <1>1, <1>2, HeapStep
<1>4. PICK K : Sound(K)'
  BY <1>3
<1>5. STyped' /\ SearchInv'
  BY <1>1, <1>2, <1>3, <1>4, SearchStep
<1> QED BY <1>3, <1>5, TypedIs DEF IInv

(* So it always holds. *)
LEMMA Invariant == Spec => []IInv
BY Start, Step, PTL DEF Spec

(* What it says of the list as a reader of the pointers sees it. *)
LEMMA SoundNow == IInv => ListSound
<1> SUFFICES ASSUME IInv PROVE ListSound
  OBVIOUS
<1>1. PICK L : Sound(L)
  BY DEF IInv
<1>2. Chain = L
  BY <1>1, ChainIs
<1>3. Cardinality(ToSet(L)) = Len(L)
  BY <1>1, OnceCounts DEF Sound, Leads
<1>4. HeapTyped /\ TypeOK
  BY TypedIs DEF IInv
<1>5. w.at \in Apart <=> w.at \notin {"idle", "find", "unlink"}
  BY <1>4 DEF HeapTyped, Apart, Labels
<1>6. used = ToSet(L) \cup (IF w.at \in {"idle", "find", "unlink"} THEN {} ELSE {w.p})
  BY <1>1, <1>5 DEF Sound
<1>7. \A a \in ToSet(L) : a \in used /\ ID[a] = Admin /\ fd[a] \in Fds
  BY <1>1 DEF Sound
<1> QED BY <1>2, <1>3, <1>4, <1>6, <1>7 DEF ListSound

(* server.c:289-358: at every store of a writer, for any number of chunks, *)
(* the list leads through complete nodes in use, each once, and no chunk   *)
(* is lost or used twice.                                                  *)
THEOREM ListIsSound == Spec => []ListSound
BY Invariant, SoundNow, PTL

(* server.c:303-305,347-352: the pointers implement LinkList: the list     *)
(* changes at two stores only, and there as insert_link and delete_link.   *)
THEOREM StoresAreSteps == Spec => ListStores
<1> DEFINE A == \/ Chain' = Chain
                \/ w.at = "link" /\ Chain' = insert_link(Chain, w.p)
                \/ w.at = "unlink" /\ Chain' = delete_link(Chain, Node, w.fd)
<1>1. ASSUME IInv, [Next]_vars PROVE A
  <2>1. PICK L : Sound(L)
    BY <1>1 DEF IInv
  <2>2. HeapTyped
    BY <1>1, TypedIs DEF IInv
  <2>3. PICK K : /\ Sound(K)'
                 /\ \/ K = L
                    \/ w.at = "link" /\ K = insert_link(L, w.p)
                    \/ w.at = "unlink" /\ K = delete_link(L, Node, w.fd)
    BY <1>1, <2>1, <2>2, HeapStep
  <2>4. Chain = L /\ Chain' = K
    BY <2>1, <2>3, ChainIs, NextChainIs
  <2> QED BY <2>3, <2>4
<1>2. IInv /\ [Next]_vars => [A]_vars
  BY <1>1
<1> QED BY <1>2, Invariant, PTL DEF Spec, ListStores

(* server.c:260: find_link finds no name but Admin, and misses Admin while *)
(* a greenhouse is connected all along only after it has stood at a chunk  *)
(* that was taken out of the list under it.                                *)
THEOREM AnswersAreExplained == Spec => []AnswerExplained
<1>1. IInv => AnswerExplained
  BY DEF IInv, SearchInv
<1> QED BY <1>1, Invariant, PTL
-----------------------------------------------------------------------------
(* Along the pointers n the numbers r fall.  All chunks have one, also     *)
(* those that were freed.                                                  *)
Ranks(r, n) == \A a \in Chunks : n[a] # NULL => r[n[a]] < r[a]
Acyclic == \E r \in [Chunks -> Nat] : Ranks(r, next)

(* The store into a new node's next: the chunks outside of the list, of    *)
(* which some may lead to the new node, are raised above the list.         *)
LEMMA Raised ==
  ASSUME HeapTyped, NEW L, Sound(L), w.at = "next", Insert, Acyclic
  PROVE  Acyclic'
<1>1. w.p \in Chunks \ ToSet(L) /\ ToSet(L) \subseteq Chunks
  BY DEF Sound, Apart, Labels, Leads, ToSet
<1>2. next' = [next EXCEPT ![w.p] = head] /\ next \in [Chunks -> Chunks \cup {NULL}]
  BY DEF Insert, HeapTyped
<1>3. PICK r \in [Chunks -> Nat] : Ranks(r, next)
  BY DEF Acyclic
<1>4. PICK m \in Nat : head # NULL => m = r[head]
  <2>1. head # NULL => head \in Chunks
    BY DEF HeapTyped
  <2>2. CASE head = NULL
    BY <2>2
  <2>3. CASE head # NULL
    BY <2>1, <2>3
  <2> QED BY <2>2, <2>3
<1>5. PICK t \in [Chunks -> Nat] :
        \A a \in Chunks : t[a] = IF a \in ToSet(L) THEN r[a] ELSE r[a] + (m + 1)
  <2>1. [a \in Chunks |-> IF a \in ToSet(L) THEN r[a] ELSE r[a] + (m + 1)] \in [Chunks -> Nat]
    OBVIOUS
  <2> QED BY <2>1
<1>6. head # NULL => head \in ToSet(L)
  <2>1. head # NULL => L # <<>> /\ head = L[1] /\ L \in Seq(Chunks)
    BY DEF Sound, Leads
  <2> QED BY <2>1 DEF ToSet
<1>7. ASSUME NEW a \in ToSet(L) PROVE next[a] = NULL \/ next[a] \in ToSet(L)
  <2>1. PICK i \in 1..Len(L) : a = L[i]
    BY <1>7 DEF ToSet, Sound, Leads
  <2>2. next[L[i]] = IF i = Len(L) THEN NULL ELSE L[i + 1]
    BY DEF Sound, Leads
  <2>3. i # Len(L) => i + 1 \in DOMAIN L
    BY DEF Sound, Leads
  <2> QED BY <2>1, <2>2, <2>3 DEF ToSet
<1>8. ASSUME NEW a \in Chunks, next'[a] # NULL PROVE t[next'[a]] < t[a]
  <2>1. CASE a = w.p
    <3>1. next'[a] = head /\ head # NULL
      BY <1>2, <1>8, <2>1
    <3>2. t[head] = m /\ t[a] = r[a] + (m + 1) /\ r[a] \in Nat
      BY <1>1, <1>3, <1>4, <1>5, <1>6, <2>1, <3>1
    <3>3. m < r[a] + (m + 1)
      BY <3>2
    <3> QED BY <3>1, <3>2, <3>3
  <2>2. CASE a # w.p
    <3>1. PICK b \in Chunks : b = next[a] /\ b = next'[a] /\ b # NULL
      BY <1>2, <1>8, <2>2
    <3>2. r[b] < r[a] /\ r[b] \in Nat /\ r[a] \in Nat
      BY <1>3, <3>1 DEF Ranks
    <3>3. a \in ToSet(L) => b \in ToSet(L)
      BY <1>7, <3>1
    <3>4. t[a] = (IF a \in ToSet(L) THEN r[a] ELSE r[a] + (m + 1))
      BY <1>5
    <3>5. t[b] = (IF b \in ToSet(L) THEN r[b] ELSE r[b] + (m + 1))
      BY <1>5
    <3>6. t[b] < t[a]
      BY <3>2, <3>3, <3>4, <3>5
    <3> QED BY <3>1, <3>6
  <2> QED BY <2>1, <2>2
<1> QED BY <1>5, <1>8 DEF Acyclic, Ranks

(* Taking a node out leads past it, from a higher number to a lower one.   *)
LEMMA Passed ==
  ASSUME HeapTyped, NEW L, Sound(L), Unlink, w.q # NULL, Acyclic
  PROVE  Acyclic'
<1>1. PICK i \in 1..Len(L) : w.p = L[i] /\ w.q = IF i = 1 THEN NULL ELSE L[i - 1]
  BY DEF Unlink, Sound, Reached
<1>2. w.q \in Chunks /\ w.p \in Chunks /\ next[w.q] = w.p
  <2>1. i # 1 /\ i - 1 \in 1..Len(L) /\ i - 1 # Len(L) /\ (i - 1) + 1 = i
    BY <1>1 DEF Sound, Leads
  <2>2. next[L[i - 1]] = IF i - 1 = Len(L) THEN NULL ELSE L[(i - 1) + 1]
    BY <2>1 DEF Sound, Leads
  <2>3. L[i] \in Chunks /\ L[i - 1] \in Chunks
    BY <2>1 DEF Sound, Leads
  <2> QED BY <1>1, <2>1, <2>2, <2>3
<1>3. next' = [next EXCEPT ![w.q] = next[w.p]] /\ next \in [Chunks -> Chunks \cup {NULL}]
  BY DEF Unlink, HeapTyped
<1>4. PICK r \in [Chunks -> Nat] : Ranks(r, next)
  BY DEF Acyclic
<1>5. r[w.p] < r[w.q]
  BY <1>2, <1>4, LinkHeapAssumption DEF Ranks
<1>6. ASSUME NEW a \in Chunks, next'[a] # NULL PROVE r[next'[a]] < r[a]
  <2>1. CASE a = w.q
    <3>1. PICK b \in Chunks : b = next[w.p] /\ b = next'[a]
      BY <1>2, <1>3, <1>6, <2>1
    <3>2. r[b] < r[w.p]
      BY <1>2, <1>4, <1>6, <3>1 DEF Ranks
    <3>3. r[b] \in Nat /\ r[w.p] \in Nat /\ r[w.q] \in Nat
      BY <1>2, <1>4, <3>1
    <3>4. r[b] < r[w.q]
      BY <1>5, <3>2, <3>3
    <3>5. r[b] < r[a]
      BY <2>1, <3>4
    <3> QED BY <3>1, <3>5
  <2>2. CASE a # w.q
    BY <1>3, <1>4, <1>6, <2>2 DEF Ranks
  <2> QED BY <2>1, <2>2
<1> QED BY <1>4, <1>6 DEF Acyclic, Ranks

(* Every step keeps the pointers free of cycles. *)
LEMMA AcyclicStep == IInv /\ Acyclic /\ [Next]_vars => Acyclic'
<1> SUFFICES ASSUME IInv, Acyclic, [Next]_vars PROVE Acyclic'
  OBVIOUS
<1>1. PICK L : Sound(L)
  BY DEF IInv
<1>2. HeapTyped
  BY TypedIs DEF IInv
<1>3. CASE next' = next
  BY <1>3 DEF Acyclic
<1>4. CASE Insert /\ w.at = "next"
  BY <1>1, <1>2, <1>4, Raised
<1>5. CASE Insert /\ w.at = "memset_next"
  <2>1. w.p \in Chunks /\ next \in [Chunks -> Chunks \cup {NULL}]
    BY <1>1, <1>2, <1>5 DEF Sound, Apart, Labels, HeapTyped
  <2>2. next' = [next EXCEPT ![w.p] = NULL]
    BY <1>5 DEF Insert
  <2>3. PICK r \in [Chunks -> Nat] : Ranks(r, next)
    BY DEF Acyclic
  <2>4. ASSUME NEW a \in Chunks, next'[a] # NULL PROVE r[next'[a]] < r[a]
    BY <2>1, <2>2, <2>3, <2>4 DEF Ranks
  <2> QED BY <2>3, <2>4 DEF Acyclic, Ranks
<1>6. CASE Unlink /\ w.q # NULL
  BY <1>1, <1>2, <1>6, Passed
<1>7. \/ next' = next
      \/ Insert /\ w.at = "next"
      \/ Insert /\ w.at = "memset_next"
      \/ Unlink /\ w.q # NULL
  <2>1. CASE Insert
    BY <2>1 DEF Insert
  <2>2. CASE Unlink
    BY <2>2 DEF Unlink
  <2>3. CASE Malloc \/ DeleteBegin \/ DeleteFind \/ Free \/ Search \/ UNCHANGED vars
    BY <2>3 DEF Malloc, DeleteBegin, DeleteFind, Free, Search, vars, heap
  <2> QED BY <2>1, <2>2, <2>3 DEF Next, Write
<1> QED BY <1>3, <1>4, <1>5, <1>6, <1>7

(* server.c:309-323: whatever insert_link and delete_link do under the     *)
(* search, the pointers of all chunks, also of freed ones, lead to NULL    *)
(* and never in a circle: a walk that nobody disturbs any more ends.       *)
THEOREM PointersNeverCycle == Spec => []Acyclic
<1>1. Init => Acyclic
  <2> SUFFICES ASSUME Init PROVE Acyclic
    OBVIOUS
  <2>1. PICK r \in [Chunks -> Nat] : r = [a \in Chunks |-> 0]
    OBVIOUS
  <2>2. \A a \in Chunks : next[a] = NULL
    BY DEF Init
  <2> QED BY <2>1, <2>2 DEF Acyclic, Ranks
<1> QED BY <1>1, AcyclicStep, Invariant, PTL DEF Spec
=============================================================================
