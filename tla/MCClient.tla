------------------------------ MODULE MCClient ------------------------------
(* A small instance of Client for TLC: two messages that may meet each     *)
(* other in any way, and one more when they have met and are done with, so *)
(* that a command can be alone again.                                      *)
EXTENDS Client

OneMore == sent = 2 /\ sent' = 3 => met /\ \A t \in Threads : pc[t] = "free"

LiveSpec == Init /\ [][Next /\ OneMore]_vars /\ Fairness
=============================================================================
