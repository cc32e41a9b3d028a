---------------------------- MODULE MCClientLife ----------------------------
(* A small instance of ClientLife for TLC.  By day the light is at 255 or  *)
(* 256, so that both bytes change at one time, and the lamps burn below    *)
(* 256.  A refused number leaves the fan's driver with a rest that is a    *)
(* level, or with one that makes it refuse "0" as well.                    *)
EXTENDS ClientLife

MCDay == {<<255, 0>>, <<0, 1>>}
MCNight == {<<0, 0>>}
MCLights == MCDay \cup MCNight
MCDark == 0..255
MCTails == {1, 9}

(* The client has no terminal.  By night commands are at work and the      *)
(* light sensor answers, and SIGINT and a number that the fan's driver     *)
(* refuses do not come together; by day only main and the holding thread   *)
(* are at work, and neither of the two comes.                              *)
ByNight == light' \in MCNight /\ ~lost' /\ (signal' => tail' = 0)
ByDay == light' \in MCDay /\ ~signal' /\ tail' = 0 /\ \A w \in Workers : pc'[w] = "none"
Step ==
  /\ Next /\ ~stdin'
  /\ IF light \in MCNight THEN ByNight ELSE ByDay

LifeInit == Init /\ ~stdin

LifeSpec == LifeInit /\ [][Step]_vars
=============================================================================
