------------------------------- MODULE MCPwm -------------------------------
(* A small instance of Pwm for TLC: one of the client's texts,             *)
(* close_device's one character (client.c:12), and a number the fan has no *)
(* level for, which the driver's test program may write (fan/test.c:26).   *)
EXTENDS Pwm, TLC

MCFanTexts == {<<3, NUL>>, <<0>>, <<1, 2, NUL>>}

MCSymmetry == Permutations(Threads)
=============================================================================
