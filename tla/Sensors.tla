------------------------------- MODULE Sensors -------------------------------
(***************************************************************************)
(* What the sensors' drivers return for what is on the bus (src/mydev/     *)
(* temp-hume/si7006.c, src/mydev/Ambient-light/ap3216.c).  Words have 16   *)
(* bits; on this machine the first byte in memory is the low one, and the  *)
(* si7006 sends the high one first.                                        *)
(***************************************************************************)
EXTENDS Integers

Byte == 0..255
EAGAIN == 11

(* The low byte of an int. *)
U8(n) == n % 256

(* i2c_transfer of the si7006: two bytes, or an error.  The shifted words  *)
(* share no bit, so that C's | is a sum.                                   *)
i2c_read_tmp_hum(ok, b1, b2) ==
  LET data == b1 + 256 * b2
  IN  IF ok THEN data \div 256 + 256 * data ELSE -EAGAIN

(* An error ends the ioctl before anything is given to the caller. *)
Result(data) ==
  IF data < 0 THEN [ret |-> -1, data |-> 0] ELSE [ret |-> 0, data |-> data % 65536]

si7006_ioctl(ok, b1, b2) == Result(i2c_read_tmp_hum(ok, b1, b2))

(* One register of the ap3216. *)
i2c_read_reg(ok, b) == IF ok THEN b ELSE -EAGAIN

(* Mutation: the registers the wrong way round. *)
AlsSwapped(low, high) == U8(high) + 256 * U8(low)

(* ap3216_read: each register's result is stored in a byte, error or not. *)
Als(low, high) == U8(low) + 256 * U8(high)
=============================================================================
