------------------------------ MODULE LinkList ------------------------------
(***************************************************************************)
(* The list of connected greenhouses that the server keeps (src/server.c,  *)
(* struct node of include/myhead.h): a dummy head and a chain of heap      *)
(* nodes, newest first.  A chain is the sequence of the addresses of its   *)
(* nodes and node[a] the fields stored at address a, so that a freed node  *)
(* is an address that is not in the chain any more; malloc may hand it out *)
(* again.  The return values are those of the C functions.                 *)
(***************************************************************************)
EXTENDS SequencesExt, Integers

Nodes(chain) == ToSet(chain)

(* Head insertion at the address malloc returned. *)
insert_link(chain, a) == <<a>> \o chain

(* Descriptor of the newest node with this ID, or -1. *)
find_link(chain, node, ID) ==
  LET i == SelectInSeq(chain, LAMBDA a : node[a].ID = ID)
  IN  IF i = 0 THEN -1 ELSE node[chain[i]].fd

(* 0 when some node has this descriptor, -1 when none has. *)
find_fd(chain, node, fd) ==
  IF \E a \in Nodes(chain) : node[a].fd = fd THEN 0 ELSE -1

(* Only the newest node with this descriptor is unlinked and freed: those  *)
(* behind it move up by one.                                               *)
delete_link(chain, node, fd) ==
  IF find_fd(chain, node, fd) = -1 THEN chain
  ELSE [i \in 1..(Len(chain) - 1) |->
         IF \E j \in 1..i : node[chain[j]].fd = fd THEN chain[i + 1] ELSE chain[i]]

(* p->next of a node in the chain. *)
next_link(chain, a, null) ==
  LET i == CHOOSE i \in DOMAIN chain : chain[i] = a
  IN  IF i = Len(chain) THEN null ELSE chain[i + 1]

(* head->next. *)
first_link(chain, null) == IF chain = <<>> THEN null ELSE chain[1]
=============================================================================
