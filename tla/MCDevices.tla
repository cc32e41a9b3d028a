----------------------------- MODULE MCDevices -----------------------------
(* Small instances of Devices for TLC. *)
EXTENDS Devices, TLC

Set(l, m, f) == [led |-> l, motor |-> m, fan |-> f]
MCHoldLevels == {Set(0, 0, 0), Set(1, 1, 3)}
Form(l, f, b) == [LED |-> l, FAN |-> f, BEEP |-> b]
MCCmdForms == {Form("OFF", "2", "ON"), Form("ON", "", "OFF")}
=============================================================================
