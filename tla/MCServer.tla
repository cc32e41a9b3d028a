------------------------------ MODULE MCServer ------------------------------
(* Small instances of Server for TLC. *)
EXTENDS Server, TLC

MCFds == 4..5

(* Threads, heap chunks and thread identifiers are interchangeable; descriptors *)
(* are not, since accept takes the lowest.                                      *)
MCSymmetry ==
  Permutations(Handlers) \cup Permutations(Addrs) \cup Permutations(Tids)

(* TLC cannot use a symmetry under fairness.  Where these are numbers, each is  *)
(* instead used for the first time after the ones below it, which leaves one of *)
(* the behaviours that differ in the names only.  A server that stops satisfies *)
(* both liveness properties, so only behaviours in which it runs on are made.   *)
InOrder ==
  /\ \A h \in Handlers : pc[h] # "none" => \A k \in 1..h : pc[k] # "none"
  /\ \A a \in Addrs : node[a].ID # "" => \A b \in 1..a : node[b].ID # ""
  /\ \A h \in Handlers : htid[h] # NULL => htid[1] = 1

RunsOn == Next /\ alive' /\ InOrder'

(* Requests come once both greenhouses are in the list, and while there are two *)
(* of them the second greenhouse stays; before, and with one request, they come *)
(* and go in any order.                                                         *)
Few ==
  /\ nreq' # nreq => Len(chain) = 2
  /\ nreq' = 2 => peer'[2] = "ready"

LiveSpec == Init /\ [][RunsOn /\ Few]_vars /\ Fairness
=============================================================================
