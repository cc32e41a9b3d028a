------------------------------- MODULE Channel -------------------------------
(***************************************************************************)
(* What the message queue promises to the pages that ask and the threads   *)
(* of the server that answer: a request goes through its stages once and   *)
(* in one direction, and requests are taken in the order they were asked.  *)
(* It may be lost on the way; nothing is ever answered twice.  CgiQueue    *)
(* and Server implement it, each with its own side of the queue in detail. *)
(***************************************************************************)
EXTENDS Sequences

CONSTANT Requests

VARIABLES
  pending,  \* requests in the queue, oldest first
  stage     \* how far each request has come

vars == <<pending, stage>>

Stages == {"none", "pending", "taken", "answered", "lost"}

Move(r, from, to) ==
  /\ stage[r] = from
  /\ stage' = [stage EXCEPT ![r] = to]
-----------------------------------------------------------------------------
(* A page asks, or gives up before it could. *)
Ask(r) == Move(r, "none", "pending") /\ pending' = Append(pending, r)
Fail(r) == Move(r, "none", "lost") /\ UNCHANGED pending

(* The oldest request leaves the queue: a thread of the server takes it,   *)
(* or a page whose alarm went off throws it away.                          *)
Leave(to) ==
  /\ pending # <<>>
  /\ Move(Head(pending), "pending", to)
  /\ pending' = Tail(pending)

Answer(r) == Move(r, "taken", "answered") /\ UNCHANGED pending
Drop(r) == Move(r, "taken", "lost") /\ UNCHANGED pending

(* The queue is removed: what is under way is lost, and so are answers     *)
(* nobody has received.                                                    *)
Remove ==
  \E S \in SUBSET {r \in Requests : stage[r] = "answered"} :
    /\ stage' = [r \in Requests |->
                  IF stage[r] \in {"pending", "taken"} \/ r \in S THEN "lost" ELSE stage[r]]
    /\ pending' = <<>>
-----------------------------------------------------------------------------
Init == pending = <<>> /\ stage = [r \in Requests |-> "none"]

Next ==
  \/ \E r \in Requests : Ask(r) \/ Fail(r) \/ Answer(r) \/ Drop(r)
  \/ Leave("taken") \/ Leave("lost")
  \/ Remove

Spec == Init /\ [][Next]_vars
=============================================================================
