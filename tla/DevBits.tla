------------------------------ MODULE DevBits ------------------------------
(***************************************************************************)
(* The byte that carries a command for the devices: how the device page    *)
(* packs it (garden_stuff_dev.c), ctrldev_thread takes it apart and keeps  *)
(* the status byte (client.c), and the view page reads that (garden_stuff_ *)
(* view.c).  A byte is the set of its bits that are 1, so that C's |, &    *)
(* and & ~ are union, intersection and difference: bit 0 is the light,     *)
(* bits 1-2 the fan's level, bit 3 the humidifier ("BEEP" in the form).    *)
(***************************************************************************)
EXTENDS Integers

Byte == SUBSET (0..7)

Led == {0}
Fan == {1, 2}
Motor == {3}

(* What a form may hold: the buttons' values, or nothing at all. *)
Forms == [LED : {"ON", "OFF", ""}, FAN : {"0", "1", "2", "3", ""}, BEEP : {"ON", "OFF", ""}]

Levels == [led : {0, 1}, motor : {0, 1}, fan : 0..3]
Off == [led |-> 0, motor |-> 0, fan |-> 0]
-----------------------------------------------------------------------------
(* The bits of device d, and those that stand for its level n. *)
Bits(d) == CASE d = "led" -> Led [] d = "fan" -> Fan [] d = "motor" -> Motor
Level(d, n) ==
  IF d # "fan" THEN IF n = 1 THEN Bits(d) ELSE {}
  ELSE CASE n = 1 -> {1} [] n = 2 -> {2} [] n = 3 -> {1, 2} [] OTHER -> {}

(* The device page: devctrl starts as 0, and any other level means off. *)
devctrl(f) ==
  Level("led", IF f.LED = "ON" THEN 1 ELSE 0)
    \cup Level("fan", CASE f.FAN = "1" -> 1 [] f.FAN = "2" -> 2 [] f.FAN = "3" -> 3 [] OTHER -> 0)
    \cup Level("motor", IF f.BEEP = "ON" THEN 1 ELSE 0)

(* ctrldev_thread: the levels a command asks for. *)
Unpack(b) ==
  [led |-> IF b \cap Led # {} THEN 1 ELSE 0,
   motor |-> IF b \cap Motor = Motor THEN 1 ELSE 0,
   fan |-> CASE b \cap Fan = {1} -> 1 [] b \cap Fan = {2} -> 2 [] b \cap Fan = {1, 2} -> 3
             [] OTHER -> 0]

(* Mutation: the status is replaced, not changed. *)
SetBitsOnly(s, d, n) == Level(d, n)

(* The two assignments to the status byte s, in either thread. *)
ClearBits(s, d) == s \ Bits(d)
SetBits(s, d, n) == s \cup Level(d, n)

(* What the view page shows of it. *)
View(s) ==
  [led |-> IF s \cap Led # {} THEN 1 ELSE 0,
   motor |-> IF s \cap Motor # {} THEN 1 ELSE 0,
   fan |-> CASE s \cap Fan = {} -> 0 [] s \cap Fan = {1} -> 1 [] s \cap Fan = {2} -> 2
             [] s \cap Fan = {1, 2} -> 3]

(* What the user meant. *)
Asked(f) ==
  [led |-> IF f.LED = "ON" THEN 1 ELSE 0,
   motor |-> IF f.BEEP = "ON" THEN 1 ELSE 0,
   fan |-> CASE f.FAN = "1" -> 1 [] f.FAN = "2" -> 2 [] f.FAN = "3" -> 3 [] OTHER -> 0]
=============================================================================
