------------------------------ MODULE LifeProofs ------------------------------
(***************************************************************************)
(* How programs start and end.  Theorems about ClientLife, for any workers,*)
(* any light, dark words and depth of the stack; about the results of      *)
(* the sensors' drivers, from Sensors; and, in the last part, about        *)
(* Lifecycle, for any number of open files.                                *)
(***************************************************************************)
EXTENDS ClientLife, Lifecycle, FiniteSetTheorems, SequenceTheorems, TLAPS

USE ClientLifeAssumption DEF ClientLifeAssumption
-----------------------------------------------------------------------------
(* A word's remainder is its rest. *)
LEMMA WordRemainder ==
  ASSUME NEW n \in Int, NEW q \in Int, NEW r \in Int, 0 <= r, r < 65536, n = 65536 * q + r
  PROVE  n % 65536 = r
  BY SMTT(30)

(* A byte's remainder, also of a negative number, is its rest. *)
LEMMA ByteRemainder ==
  ASSUME NEW n \in Int, NEW q \in Int, NEW r \in Int, 0 <= r, r < 256, n = 256 * q + r
  PROVE  n % 256 = r
  BY SMTT(30)

(* si7006.c:56,74: the caller gets the two bytes as the sensor sent them,  *)
(* high byte first, and no word of the sensor looks like an error.         *)
THEOREM WordAsSent ==
  ASSUME NEW b1 \in Byte, NEW b2 \in Byte
  PROVE  si7006_ioctl(TRUE, b1, b2) = [ret |-> 0, data |-> 256 * b1 + b2]
<1>1. (b1 + 256 * b2) \div 256 = b2
  BY DEF Byte
<1>2. i2c_read_tmp_hum(TRUE, b1, b2) = b2 + 256 * (b1 + 256 * b2)
  BY <1>1 DEF i2c_read_tmp_hum
<1>3. (b2 + 256 * (b1 + 256 * b2)) % 65536 = 256 * b1 + b2
  <2>1. /\ b2 + 256 * (b1 + 256 * b2) \in Int /\ b2 \in Int /\ 256 * b1 + b2 \in Int
        /\ 0 <= 256 * b1 + b2 /\ 256 * b1 + b2 < 65536
        /\ b2 + 256 * (b1 + 256 * b2) = 65536 * b2 + (256 * b1 + b2)
    BY DEF Byte
  <2> QED
    BY <2>1, WordRemainder
<1>4. ~(b2 + 256 * (b1 + 256 * b2) < 0)
  BY DEF Byte
<1> QED
  <2>1. PICK w : w = i2c_read_tmp_hum(TRUE, b1, b2)
    OBVIOUS
  <2>2. w = b2 + 256 * (b1 + 256 * b2)
    BY <1>2, <2>1
  <2>3. ~(w < 0)
    BY <2>2, <1>4 DEF Byte
  <2>4. w % 65536 = 256 * b1 + b2
    BY <2>2, <1>3 DEF Byte
  <2> QED
    <3>1. Result(w) = [ret |-> 0, data |-> 256 * b1 + b2]
      BY <2>3, <2>4 DEF Result
    <3> QED
      BY <2>1, <3>1 DEF si7006_ioctl

(* ap3216.c:84-86: two failed reads are the word 62965, whatever the light *)
(* is, and that is not told apart from a measurement.                      *)
THEOREM FailureIsAWord ==
  ASSUME NEW b \in Byte, NEW c \in Byte
  PROVE  /\ Als(i2c_read_reg(FALSE, b), i2c_read_reg(FALSE, c)) = 62965
         /\ Als(i2c_read_reg(TRUE, 245), i2c_read_reg(TRUE, 245)) = 62965
         /\ Als(i2c_read_reg(TRUE, b), i2c_read_reg(TRUE, c)) = b + 256 * c
<1>1. U8(-EAGAIN) = 245
  <2>1. -EAGAIN \in Int /\ -EAGAIN = 256 * (-1) + 245
    BY DEF EAGAIN
  <2> QED
    BY <2>1, ByteRemainder DEF U8
<1>2. U8(245) = 245 /\ U8(b) = b /\ U8(c) = c
  BY DEF U8, Byte
<1> QED
  BY <1>1, <1>2 DEF Als, i2c_read_reg
-----------------------------------------------------------------------------
(* The stack has room for MaxDepth calls, and for the signal's.            *)
Depths == \A t \in Threads : depth[t] <= IF signal THEN MaxDepth + 1 ELSE MaxDepth

(* Where a thread is that works, or waits for work.                        *)
Working ==
  {"none", "serve", "send", "fopen", "tmp", "hum", "low", "high", "sleep",
   "d_led", "d_fan", "d_motor"}

(* Before main has connected there is no other thread; the devices are     *)
(* open in the order of Opens.                                             *)
Starting ==
  /\ pc["main"] \in {"config"} \cup Devices => ~ready
  /\ pc["main"] \in {"connect"} \cup Working => ready
  /\ pc["main"] \in {"config", "connect"} \cup Devices =>
       \A t \in Threads \ {"main"} : pc[t] = "none"
  /\ \A t \in Threads \ {"main"} : pc[t] # "none" => ready
  /\ \A i \in 1..5 : pc["main"] = Opens[i] => \A j \in 1..(i - 1) : fd[Opens[j]] = "open"

(* Each thread that closes has entered close_device on its own.            *)
Entered ==
  /\ \A t \in Threads : pc[t] \notin Closing => depth[t] = 0
  /\ \A t \in Threads : pc[t] \in Closing => enters >= 1
  /\ \A s, t \in Threads : s # t /\ pc[s] \in Closing /\ pc[t] \in Closing => enters >= 2

(* The devices that are on, and neither switched on while a thread was     *)
(* closing nor by a "0" that was misread.                                  *)
Unexcused == dev \ (late \cup IF misread THEN {"fan"} ELSE {})
SomeoneCloses == \E t \in Threads : pc[t] \in Closing
-----------------------------------------------------------------------------
(* What a step does, call by call.  A call fails in thread t: it enters    *)
(* close_device, or there is no more room on its stack.                    *)
EntersClose(t) ==
  /\ pc' = [pc EXCEPT ![t] = "c_led"]
  /\ depth[t] < MaxDepth /\ depth' = [depth EXCEPT ![t] = depth[t] + 1]
  /\ enters' = Fresh(t) /\ outcome' = outcome

Overflows(t) ==
  /\ outcome' = "crash" /\ pc[t] \in Closing
  /\ UNCHANGED <<pc, depth, enters>>

(* A thread that closes fails where a device is not open, or where the     *)
(* fan's driver refuses the text.                                          *)
Fails(t) ==
  /\ outcome = "running" /\ pc[t] # "none"
  /\ EntersClose(t) \/ Overflows(t)
  /\ UNCHANGED <<dev, tail, misread, late, sensing, ready, signal>>
  /\ \/ /\ fd' = fd
        /\ pc[t] \in Closing => /\ pc[t] \in {"c_fan", "c_motor"}
                                /\ (\E d \in Devices : fd[d] # "open") \/ tail > 3
     \/ /\ t = "main" /\ pc["main"] \in Devices
        /\ fd' = [fd EXCEPT ![pc["main"]] = "bad"]

Configured ==
  /\ outcome = "running" /\ pc["main"] = "config"
  /\ Goto("main", "si7006")
  /\ UNCHANGED <<fd, depth, outcome, enters, driven, sensing, ready, signal>>

Opened(i) ==
  /\ outcome = "running" /\ pc["main"] = Opens[i]
  /\ fd' = [fd EXCEPT ![Opens[i]] = "open"]
  /\ Goto("main", IF i < 5 THEN Opens[i + 1] ELSE "connect")
  /\ ready' = (i = 5)
  /\ UNCHANGED <<depth, outcome, enters, driven, sensing, signal>>

Connected ==
  /\ outcome = "running" /\ pc["main"] = "connect"
  /\ pc' = [pc EXCEPT !["main"] = "serve", !["hold"] = "tmp"]
  /\ UNCHANGED <<fd, depth, outcome, enters, driven, sensing, ready, signal>>

(* The process ends, and close_device was not called for it.               *)
Stops ==
  /\ outcome = "running" /\ outcome' \in {"return", "killed"}
  /\ UNCHANGED <<fd, pc, depth, enters, driven, sensing, ready, signal>>

(* A thread goes on with its work, or a worker begins.                     *)
Works(t) ==
  /\ outcome = "running"
  /\ \/ pc[t] \in Working \ {"none"}
     \/ t \in Workers /\ pc[t] = "none" /\ pc["main"] = "serve"
  /\ \E l \in Working : /\ pc' = [pc EXCEPT ![t] = l]
                        /\ t = "hold" => l \notin {"high", "d_led"}
  /\ SomeoneCloses => Unexcused' \subseteq Unexcused
  /\ UNCHANGED <<fd, depth, outcome, enters, sensing, ready, signal>>

(* The server, or somebody who uses the fan.                               *)
Others ==
  /\ outcome = "running"
  /\ SomeoneCloses => Unexcused' \subseteq Unexcused
  /\ UNCHANGED <<fd, pc, depth, outcome, enters, sensing, ready, signal>>

HoldReads ==
  /\ outcome = "running"
  /\ \E ok \in BOOLEAN :
       \/ /\ pc["hold"] = "low" /\ Goto("hold", "high")
          /\ als' = [als EXCEPT !.low = i2c_read_reg(ok, light[1])]
          /\ seen' = {light} /\ lost' = ~ok
       \/ /\ pc["hold"] = "high" /\ (Goto("hold", "d_led") \/ Goto("hold", "sleep"))
          /\ als' = [als EXCEPT !.high = i2c_read_reg(ok, light[2])]
          /\ seen' = seen /\ lost' = (lost \/ ~ok)
  /\ UNCHANGED <<fd, depth, outcome, enters, driven, light, ready, signal>>

(* close_device switches a device off, or the fan on by mistake.           *)
SwitchesOff(t, l, d, next) ==
  /\ outcome = "running" /\ pc[t] = l /\ Goto(t, next)
  /\ Unexcused' \subseteq Unexcused
  /\ fd[d] = "open" => d \notin Unexcused'
  /\ UNCHANGED <<fd, depth, outcome, enters, sensing, ready, signal>>

SwitchOff(t) ==
  \/ SwitchesOff(t, "c_led", "led", "c_fan")
  \/ SwitchesOff(t, "c_fan", "fan", "c_motor")
  \/ SwitchesOff(t, "c_motor", "motor", "c_close")

LEMMA Errors ==
  ASSUME TypeOK, Entered, NEW t \in Threads, Error(t)
  PROVE  EntersClose(t) \/ Overflows(t)
<1>1. CASE depth[t] < MaxDepth
  BY <1>1 DEF Error, PRINT_ERR, EntersClose, Goto
<1>2. CASE ~(depth[t] < MaxDepth)
  <2>1. depth[t] \in Nat
    BY DEF TypeOK
  <2>2. depth[t] # 0
    BY <1>2, <2>1
  <2>3. pc[t] \in Closing
    BY <2>2 DEF Entered
  <2> QED
    BY <1>2, <2>3 DEF Error, PRINT_ERR, Overflows, Fresh
<1> QED
  BY <1>1, <1>2

(* Whoever switches a device while a thread closes is late.                *)
LEMMA Switched ==
  ASSUME NEW d, NEW on \in BOOLEAN, Switch(d, on)
  PROVE  /\ SomeoneCloses => Unexcused' \subseteq Unexcused
         /\ ~on => Unexcused' \subseteq Unexcused /\ d \notin Unexcused'
<1>1. /\ dev' = Put(dev, d, on) /\ late' = Put(late, d, on /\ SomeoneCloses)
      /\ misread' = (misread /\ d # "fan")
  BY DEF Switch, SomeoneCloses
<1>2. ASSUME NEW e \in Unexcused', e # d PROVE e \in Unexcused
  <2>1. e \in dev /\ e \notin late /\ ~(e = "fan" /\ misread')
    BY <1>1, <1>2 DEF Unexcused, Put
  <2>2. e = "fan" /\ misread => misread'
    BY <1>1, <1>2
  <2> QED
    BY <2>1, <2>2 DEF Unexcused
<1>3. SomeoneCloses \/ ~on => d \notin Unexcused'
  BY <1>1 DEF Unexcused, Put
<1> QED
  BY <1>2, <1>3

LEMMA ToldOff ==
  ASSUME NEW d, NEW on \in BOOLEAN, Tell(d, on)
  PROVE  /\ SomeoneCloses => Unexcused' \subseteq Unexcused
         /\ ~on => Unexcused' \subseteq Unexcused /\ (fd[d] = "open" => d \notin Unexcused')
<1>1. CASE fd[d] = "open"
  BY <1>1, Switched DEF Tell
<1>2. CASE fd[d] # "open"
  BY <1>2 DEF Tell, Unexcused
<1> QED
  BY <1>1, <1>2

Kind ==
  \/ \E t \in Threads : Fails(t) \/ SwitchOff(t) \/ CloseFds(t) \/ Exit(t) \/ Sigint(t) \/ Works(t)
  \/ Configured \/ (\E i \in 1..5 : Opened(i)) \/ Connected \/ Stops \/ Others
  \/ HoldReads \/ LightChanges \/ Restart \/ UNCHANGED vars

LEMMA Kinds == TypeOK /\ Starting /\ Entered /\ [Next]_vars => Kind
<1> SUFFICES ASSUME TypeOK, Starting, Entered, [Next]_vars PROVE Kind
  OBVIOUS
<1>0. /\ "main" \in Threads /\ "hold" \in Threads /\ \A w \in Workers : w \in Threads
      /\ \A w \in Workers : w # "hold" /\ w # "main"
  BY DEF Threads
(* A failure outside close_device, with the descriptors as they are. *)
<1>a. ASSUME NEW t \in Threads, Error(t), outcome = "running", pc[t] # "none", pc[t] \notin Closing,
             UNCHANGED <<fd, driven, sensing, ready, signal>>
      PROVE  Fails(t)
  <2>1. EntersClose(t) \/ Overflows(t)
    BY <1>a, Errors
  <2> QED
    BY <1>a, <2>1 DEF Fails, driven
(* Work in which nothing is switched. *)
<1>b. ASSUME NEW t \in Threads, NEW l \in Working, Goto(t, l), outcome = "running",
             \/ pc[t] \in Working \ {"none"}
             \/ t \in Workers /\ pc[t] = "none" /\ pc["main"] = "serve",
             t = "hold" => l \notin {"high", "d_led"},
             UNCHANGED <<fd, calls, driven, sensing, ready, signal>>
      PROVE  Works(t)
  <2>1. Unexcused' = Unexcused
    BY <1>b DEF driven, Unexcused
  <2> QED
    BY <1>b, <2>1 DEF Works, Goto, calls
<1>1. ASSUME ReadConfig PROVE Kind
  <2>1. CASE Error("main")
    <3>1. Fails("main")
      BY <1>0, <1>1, <1>a, <2>1 DEF ReadConfig, At, Closing
    <3> QED
      BY <1>0, <3>1 DEF Kind
  <2>2. CASE Goto("main", Opens[1]) /\ UNCHANGED calls
    <3>1. Configured
      BY <1>1, <2>2 DEF ReadConfig, At, Configured, Opens, calls
    <3> QED
      BY <3>1 DEF Kind
  <2> QED
    BY <1>1, <2>1, <2>2 DEF ReadConfig
<1>2. ASSUME NEW i \in 1..5, OpenDevice(i) PROVE Kind
  <2>1. CASE fd' = [fd EXCEPT ![Opens[i]] = "bad"] /\ Error("main") /\ UNCHANGED ready
    <3>1. EntersClose("main") \/ Overflows("main")
      BY <1>0, <2>1, Errors
    <3>2. Opens[i] \in Devices /\ pc["main"] = Opens[i] /\ pc["main"] # "none"
      BY <1>2 DEF Opens, Devices, OpenDevice, At
    <3>3. Fails("main")
      BY <1>2, <2>1, <3>1, <3>2 DEF OpenDevice, At, Fails, driven
    <3> QED
      BY <1>0, <3>3 DEF Kind
  <2>2. CASE /\ fd' = [fd EXCEPT ![Opens[i]] = "open"]
             /\ Goto("main", IF i < 5 THEN Opens[i + 1] ELSE "connect")
             /\ ready' = (i = 5)
             /\ UNCHANGED calls
    <3>1. Opened(i)
      BY <1>2, <2>2 DEF OpenDevice, At, Opened, calls
    <3> QED
      BY <3>1 DEF Kind
  <2> QED
    BY <1>2, <2>1, <2>2 DEF OpenDevice
<1>3. ASSUME Connect PROVE Kind
  <2>1. CASE Error("main")
    <3>1. Fails("main")
      BY <1>0, <1>3, <1>a, <2>1 DEF Connect, At, Closing
    <3> QED
      BY <1>0, <3>1 DEF Kind
  <2>2. CASE ~Error("main")
    <3>1. Connected \/ Stops
      BY <1>3, <2>2 DEF Connect, At, Connected, Stops, calls
    <3> QED
      BY <3>1 DEF Kind
  <2> QED
    BY <2>1, <2>2
<1>4. ASSUME NEW w \in Workers, Receive(w) PROVE Kind
  <2>1. CASE Error("main")
    <3>1. Fails("main")
      BY <1>0, <1>4, <1>a, <2>1 DEF Receive, At, Closing
    <3> QED
      BY <1>0, <3>1 DEF Kind
  <2>2. CASE ~Error("main")
    <3>1. PICK l \in {"send", "fopen", "d_led"} : Goto(w, l)
      BY <1>4, <2>2 DEF Receive
    <3>2. Works(w)
      BY <1>0, <1>4, <1>b, <2>2, <3>1 DEF Receive, At, Working
    <3> QED
      BY <1>0, <3>2 DEF Kind
  <2> QED
    BY <2>1, <2>2
<1>5. ASSUME ReceivePing PROVE Kind
  <2>1. Works("main")
    BY <1>0, <1>5, <1>b DEF ReceivePing, At, Working
  <2> QED
    BY <1>0, <2>1 DEF Kind
<1>6. ASSUME RecvErr \/ ConnectionEnds PROVE Kind
  <2>1. Others
    BY <1>6 DEF RecvErr, ConnectionEnds, At, Others, calls, driven, Unexcused
  <2> QED
    BY <2>1 DEF Kind
<1>7. ASSUME ServeEnds PROVE Kind
  <2>1. Fails("main")
    BY <1>0, <1>7, <1>a DEF ServeEnds, At, Closing
  <2> QED
    BY <1>0, <2>1 DEF Kind
<1>8. ASSUME NEW w \in Workers, Fopen(w) PROVE Kind
  <2>1. CASE Error(w)
    <3>1. Fails(w)
      BY <1>0, <1>8, <1>a, <2>1 DEF Fopen, At, Closing
    <3> QED
      BY <1>0, <3>1 DEF Kind
  <2>2. CASE ~Error(w)
    <3>1. Works(w)
      BY <1>0, <1>8, <1>b, <2>2 DEF Fopen, At, Working
    <3> QED
      BY <1>0, <3>1 DEF Kind
  <2> QED
    BY <2>1, <2>2
<1>9. ASSUME NEW t \in Threads, Send(t) PROVE Kind
  <2>1. CASE Error(t)
    <3>1. Fails(t)
      BY <1>9, <1>a, <2>1 DEF Send, At, Closing
    <3> QED
      BY <3>1 DEF Kind
  <2>2. CASE outcome' = "killed" /\ UNCHANGED <<pc, depth, enters>>
    <3>1. Stops
      BY <1>9, <2>2 DEF Send, At, Stops
    <3> QED
      BY <3>1 DEF Kind
  <2>3. CASE Goto(t, IF t = "main" THEN "serve" ELSE "none") /\ UNCHANGED calls
    <3>1. PICK l \in {"serve", "none"} : Goto(t, l)
      BY <2>3
    <3>2. Works(t)
      BY <1>9, <1>b, <2>3, <3>1 DEF Send, At, Working
    <3> QED
      BY <3>2 DEF Kind
  <2> QED
    BY <1>9, <2>1, <2>2, <2>3 DEF Send
<1>10. ASSUME NEW from, NEW to, HoldTmpHum(from, to), <<from, to>> \in {<<"tmp", "hum">>, <<"hum", "low">>}
       PROVE  Kind
  <2>0. from \in {"tmp", "hum"} /\ to \in {"hum", "low"}
    BY <1>10
  <2>1. CASE Error("hold")
    <3>1. Fails("hold")
      BY <1>0, <1>10, <1>a, <2>0, <2>1 DEF HoldTmpHum, At, Closing
    <3> QED
      BY <1>0, <3>1 DEF Kind
  <2>2. CASE ~Error("hold")
    <3>1. Works("hold")
      BY <1>0, <1>10, <1>b, <2>0, <2>2 DEF HoldTmpHum, At, Working
    <3> QED
      BY <1>0, <3>1 DEF Kind
  <2> QED
    BY <2>1, <2>2
<1>11. ASSUME HoldLow PROVE Kind
  <2>1. CASE fd["ap3216"] # "open"
    <3>1. Fails("hold")
      BY <1>0, <1>11, <1>a, <2>1 DEF HoldLow, At, Closing, sensing
    <3> QED
      BY <1>0, <3>1 DEF Kind
  <2>2. CASE fd["ap3216"] = "open"
    <3>1. HoldReads
      BY <1>11, <2>2 DEF HoldLow, At, HoldReads, calls
    <3> QED
      BY <3>1 DEF Kind
  <2> QED
    BY <2>1, <2>2
<1>12. ASSUME HoldHigh PROVE Kind
  <2>1. HoldReads
    BY <1>12 DEF HoldHigh, At, HoldReads, calls
  <2> QED
    BY <2>1 DEF Kind
<1>13. ASSUME HoldSleep PROVE Kind
  <2>1. Works("hold")
    BY <1>0, <1>13, <1>b DEF HoldSleep, At, Working
  <2> QED
    BY <1>0, <2>1 DEF Kind
<1>14. ASSUME NEW t \in Threads, NEW on \in BOOLEAN, DriveLed(t, on) PROVE Kind
  <2>1. SomeoneCloses => Unexcused' \subseteq Unexcused
    BY <1>14, ToldOff DEF DriveLed
  <2>2. Works(t)
    BY <1>14, <2>1 DEF DriveLed, At, Goto, Works, Working, calls
  <2> QED
    BY <2>2 DEF Kind
<1>15. ASSUME NEW t \in Threads, NEW l \in {"d_fan", "d_motor"}, NEW d,
              NEW next \in {"d_motor", "sleep", "send"}, DriveWrite(t, l, d, next)
       PROVE  Kind
  <2>1. CASE Writable(d)
    <3>1. SomeoneCloses => Unexcused' \subseteq Unexcused
      BY <1>15, <2>1, ToldOff DEF DriveWrite
    <3>2. Works(t)
      BY <1>15, <2>1, <3>1 DEF DriveWrite, At, Goto, Works, Working, calls
    <3> QED
      BY <3>2 DEF Kind
  <2>2. CASE ~Writable(d)
    <3>1. Fails(t)
      BY <1>15, <1>a, <2>2 DEF DriveWrite, At, Closing
    <3> QED
      BY <3>1 DEF Kind
  <2> QED
    BY <2>1, <2>2
<1>16. ASSUME NEW t \in Threads, Drive(t) PROVE Kind
  BY <1>15, <1>16 DEF Drive
<1>17. ASSUME FanTest PROVE Kind
  <2>1. SomeoneCloses => Unexcused' \subseteq Unexcused
    <3>1. CASE \E on \in BOOLEAN : Switch("fan", on)
      BY <3>1, Switched
    <3>2. CASE UNCHANGED <<dev, late, misread>>
      BY <3>2 DEF Unexcused
    <3> QED
      BY <1>17, <3>1, <3>2 DEF FanTest
  <2>2. Others
    BY <1>17, <2>1 DEF FanTest, Others, calls
  <2> QED
    BY <2>2 DEF Kind
<1>18. ASSUME NEW t \in Threads, CloseLed(t) PROVE Kind
  <2>1. Unexcused' \subseteq Unexcused /\ (fd["led"] = "open" => "led" \notin Unexcused')
    BY <1>18, ToldOff DEF CloseLed
  <2>2. SwitchOff(t)
    BY <1>18, <2>1 DEF CloseLed, At, SwitchOff, SwitchesOff, calls
  <2> QED
    BY <2>2 DEF Kind
<1>19. ASSUME NEW t \in Threads, CloseFan(t) PROVE Kind
  <2>1. CASE Writable("fan") /\ ~(fd["fan"] = "open" /\ tail > 3)
    <3>1. Unexcused' \subseteq Unexcused /\ (fd["fan"] = "open" => "fan" \notin Unexcused')
      <4>1. CASE fd["fan"] = "open" /\ tail # 0
        <5>1. dev' = dev \cup {"fan"} /\ late' = late \ {"fan"} /\ misread' = TRUE
          BY <1>19, <2>1, <4>1 DEF CloseFan
        <5> QED
          BY <5>1 DEF Unexcused
      <4>2. CASE ~(fd["fan"] = "open" /\ tail # 0)
        BY <1>19, <2>1, <4>2, ToldOff DEF CloseFan
      <4> QED
        BY <4>1, <4>2
    <3>2. SwitchOff(t)
      BY <1>19, <2>1, <3>1 DEF CloseFan, At, SwitchOff, SwitchesOff, calls
    <3> QED
      BY <3>2 DEF Kind
  <2>2. CASE ~(Writable("fan") /\ ~(fd["fan"] = "open" /\ tail > 3))
    <3>1. EntersClose(t) \/ Overflows(t)
      BY <1>19, <2>2, Errors DEF CloseFan
    <3>2. (\E d \in Devices : fd[d] # "open") \/ tail > 3
      BY <2>2 DEF Writable, Devices
    <3>3. Fails(t)
      BY <1>19, <2>2, <3>1, <3>2 DEF CloseFan, At, Fails
    <3> QED
      BY <3>3 DEF Kind
  <2> QED
    BY <2>1, <2>2
<1>20. ASSUME NEW t \in Threads, CloseMotor(t) PROVE Kind
  <2>1. CASE Writable("motor")
    <3>1. Unexcused' \subseteq Unexcused /\ (fd["motor"] = "open" => "motor" \notin Unexcused')
      BY <1>20, <2>1, ToldOff DEF CloseMotor
    <3>2. SwitchOff(t)
      BY <1>20, <2>1, <3>1 DEF CloseMotor, At, SwitchOff, SwitchesOff, calls
    <3> QED
      BY <3>2 DEF Kind
  <2>2. CASE ~Writable("motor")
    <3>1. EntersClose(t) \/ Overflows(t)
      BY <1>20, <2>2, Errors DEF CloseMotor
    <3>2. \E d \in Devices : fd[d] # "open"
      BY <2>2 DEF Writable, Devices
    <3>3. Fails(t)
      BY <1>20, <2>2, <3>1, <3>2 DEF CloseMotor, At, Fails
    <3> QED
      BY <3>3 DEF Kind
  <2> QED
    BY <2>1, <2>2
<1>21. ASSUME HoldLed PROVE Kind
  <2>1. (Als(als.low, als.high) \in Dark) \in BOOLEAN
    OBVIOUS
  <2> QED
    BY <1>0, <1>14, <1>21, <2>1 DEF HoldLed
<1>22. ASSUME HoldStep PROVE Kind
  BY <1>0, <1>10, <1>11, <1>12, <1>13, <1>16, <1>21, <1>22 DEF HoldStep
<1>23. ASSUME NEW w \in Workers, WorkerStep(w) PROVE Kind
  BY <1>0, <1>8, <1>9, <1>14, <1>16, <1>23 DEF WorkerStep, CtrlLed
<1>24. ASSUME MainStep PROVE Kind
  BY <1>0, <1>1, <1>2, <1>3, <1>4, <1>5, <1>6, <1>7, <1>9, <1>24 DEF MainStep
<1>25. ASSUME NEW t \in Threads, CloseStep(t) \/ Sigint(t) PROVE Kind
  BY <1>18, <1>19, <1>20, <1>25 DEF CloseStep, Kind
<1>26. ASSUME LightChanges \/ Restart \/ UNCHANGED vars PROVE Kind
  BY <1>26 DEF Kind
<1> QED
  BY <1>6, <1>17, <1>22, <1>23, <1>24, <1>25, <1>26 DEF Next
-----------------------------------------------------------------------------
Conns == {"none", "up", "fin", "rst", "shut"}
Fds == {"zero", "open", "bad", "closed"}

(* The order in which main opens the devices.                              *)
LEMMA Order ==
  /\ Opens[1] = "si7006" /\ Opens[2] = "ap3216" /\ Opens[3] = "led"
  /\ Opens[4] = "fan" /\ Opens[5] = "motor"
  /\ \A i \in 1..5 : Opens[i] \in Devices
  /\ \A i \in 1..5 : i # 5 => i < 5 /\ i + 1 \in 1..5
  /\ \A d \in Devices : \E i \in 1..5 : Opens[i] = d
BY DEF Opens, Devices

LEMMA TypedInit == Init => TypeOK /\ Depths
<1> SUFFICES ASSUME Init PROVE TypeOK /\ Depths
  OBVIOUS
<1>1. pc \in [Threads -> Labels] /\ fd \in [Devices -> Fds] /\ conn \in Conns
  BY DEF Init, Process, Zeros, Labels, Fds, Conns
<1>2. depth \in [Threads -> 0..(MaxDepth + 1)] /\ Depths
  BY DEF Init, Process, Depths
<1>3. als \in [low : Byte \cup {-EAGAIN}, high : Byte \cup {-EAGAIN}]
  BY DEF Init, Process, Byte
<1>4. /\ stdin \in BOOLEAN /\ outcome = "running" /\ enters = 0 /\ ready = FALSE /\ signal = FALSE
      /\ dev = {} /\ tail = 0 /\ misread = FALSE /\ late = {}
      /\ light \in Lights /\ seen = {} /\ lost = FALSE
  BY DEF Init
<1>5. dev \subseteq Loads /\ tail \in Nat /\ misread \in BOOLEAN /\ late \subseteq Loads
  BY <1>4
<1>6. seen \subseteq Lights /\ lost \in BOOLEAN
  BY <1>4
<1>7. ready \in BOOLEAN /\ signal \in BOOLEAN
  BY <1>4
<1>8. enters \in 0..2 
  BY <1>4
<1>9. outcome \in {"running", "exit", "return", "killed", "crash"}
  BY <1>4
<1> QED
  BY <1>1, <1>2, <1>3, <1>4, <1>5, <1>6, <1>7, <1>8, <1>9 DEF TypeOK, Fds, Conns

(* What the kinds of steps say nothing of.                                 *)
LEMMA PlainTyped ==
  ASSUME TypeOK, [Next]_vars
  PROVE  /\ conn' \in Conns /\ stdin' \in BOOLEAN
         /\ dev' \subseteq Loads /\ late' \subseteq Loads
         /\ tail' \in Nat /\ misread' \in BOOLEAN
<1> DEFINE Goal == /\ conn' \in Conns /\ stdin' \in BOOLEAN
                   /\ dev' \subseteq Loads /\ late' \subseteq Loads
                   /\ tail' \in Nat /\ misread' \in BOOLEAN
<1>0. /\ conn \in Conns /\ stdin \in BOOLEAN
      /\ dev \subseteq Loads /\ late \subseteq Loads
      /\ tail \in Nat /\ misread \in BOOLEAN
  BY DEF TypeOK, Conns
<1>a. ASSUME NEW d \in Loads, NEW on \in BOOLEAN, Switch(d, on) \/ Tell(d, on)
      PROVE  dev' \subseteq Loads /\ late' \subseteq Loads /\ misread' \in BOOLEAN
  <2>1. CASE Switch(d, on)
    <3>1. dev' \subseteq Loads /\ late' \subseteq Loads
      BY <1>0, <1>a, <2>1 DEF Switch, Put
    <3>2. misread' \in BOOLEAN
      BY <1>0, <2>1 DEF Switch
    <3> QED
      BY <3>1, <3>2
  <2>2. CASE UNCHANGED <<dev, late, misread>>
    BY <1>0, <2>2
  <2> QED
    BY <1>a, <2>1, <2>2 DEF Tell
<1>1. ASSUME MainStep PROVE Goal
  <2>1. UNCHANGED <<stdin, driven>>
    BY <1>1 DEF MainStep, ReadConfig, OpenDevice, Connect, Receive, ReceivePing, RecvErr, ServeEnds, Send
  <2>2. conn' \in Conns
    BY <1>0, <1>1 DEF MainStep, ReadConfig, OpenDevice, Connect, Receive, ReceivePing, RecvErr,
                      ServeEnds, Send, Conns
  <2> QED
    BY <1>0, <2>1, <2>2 DEF driven
<1>2. ASSUME NEW t, NEW on \in BOOLEAN, DriveLed(t, on) PROVE Goal
  <2>1. UNCHANGED <<stdin, conn, tail>> /\ Tell("led", on) /\ "led" \in Loads
    BY <1>2 DEF DriveLed, Loads
  <2> QED
    BY <1>0, <1>a, <2>1
<1>b. ASSUME NEW t, NEW l, NEW d \in Loads, NEW next, DriveWrite(t, l, d, next) PROVE Goal
  <2>1. CASE Writable(d)
    <3>1. UNCHANGED <<stdin, conn>> /\ (tail' = 0 \/ tail' = tail) /\ \E on \in BOOLEAN : Tell(d, on)
      BY <1>b, <2>1 DEF DriveWrite
    <3>2. dev' \subseteq Loads /\ late' \subseteq Loads /\ misread' \in BOOLEAN
      BY <1>a, <3>1
    <3> QED
      BY <1>0, <3>1, <3>2
  <2>2. CASE ~Writable(d)
    BY <1>0, <1>b, <2>2 DEF DriveWrite, driven
  <2> QED
    BY <2>1, <2>2
<1>3. ASSUME NEW t, Drive(t) PROVE Goal
  <2>1. "fan" \in Loads /\ "motor" \in Loads
    BY DEF Loads
  <2> QED
    BY <1>3, <1>b, <2>1 DEF Drive
<1>4. ASSUME HoldStep PROVE Goal
  <2>1. CASE HoldLed
    <3>1. (Als(als.low, als.high) \in Dark) \in BOOLEAN
      OBVIOUS
    <3> QED
      BY <1>2, <2>1, <3>1 DEF HoldLed
  <2>2. CASE Drive("hold")
    BY <1>3, <2>2
  <2>3. CASE HoldTmpHum("tmp", "hum") \/ HoldTmpHum("hum", "low") \/ HoldLow \/ HoldHigh \/ HoldSleep
    <3>1. UNCHANGED <<stdin, conn, driven>>
      BY <2>3 DEF HoldTmpHum, HoldLow, HoldHigh, HoldSleep
    <3> QED
      BY <1>0, <3>1 DEF driven
  <2> QED
    BY <1>4, <2>1, <2>2, <2>3 DEF HoldStep
<1>5. ASSUME NEW w \in Workers, WorkerStep(w) PROVE Goal
  <2>1. CASE CtrlLed(w)
    BY <1>2, <2>1 DEF CtrlLed
  <2>2. CASE Drive(w)
    BY <1>3, <2>2
  <2>3. CASE Fopen(w) \/ Send(w)
    <3>1. UNCHANGED <<stdin, driven>> /\ conn' \in Conns
      BY <1>0, <2>3 DEF Fopen, Send, Conns
    <3> QED
      BY <1>0, <3>1 DEF driven
  <2> QED
    BY <1>5, <2>1, <2>2, <2>3 DEF WorkerStep
<1>6. ASSUME NEW t \in Threads, CloseStep(t) PROVE Goal
  <2>1. CASE CloseLed(t)
    <3>1. UNCHANGED <<stdin, conn, tail>> /\ Tell("led", FALSE) /\ "led" \in Loads
      BY <2>1 DEF CloseLed, Loads
    <3> QED
      BY <1>0, <1>a, <3>1
  <2>2. CASE CloseFan(t)
    <3>0. UNCHANGED <<stdin, conn, tail>>
      BY <2>2 DEF CloseFan
    <3>1. \/ UNCHANGED <<dev, late, misread>>
          \/ dev' = dev \cup {"fan"} /\ late' = late \ {"fan"} /\ misread' = TRUE
          \/ Tell("fan", FALSE)
      BY <2>2 DEF CloseFan
    <3>2. "fan" \in Loads
      BY DEF Loads
    <3> QED
      BY <1>0, <1>a, <3>0, <3>1, <3>2
  <2>3. CASE CloseMotor(t)
    <3>1. /\ UNCHANGED <<stdin, conn, tail>> /\ "motor" \in Loads
          /\ Tell("motor", FALSE) \/ UNCHANGED <<dev, late, misread>>
      BY <2>3 DEF CloseMotor, Loads
    <3> QED
      BY <1>0, <1>a, <3>1
  <2>4. CASE CloseFds(t) \/ Exit(t)
    <3>1. UNCHANGED <<conn, driven>> /\ stdin' \in BOOLEAN
      BY <1>0, <2>4 DEF CloseFds, Exit
    <3> QED
      BY <1>0, <3>1 DEF driven
  <2> QED
    BY <1>6, <2>1, <2>2, <2>3, <2>4 DEF CloseStep
<1>7. ASSUME FanTest PROVE Goal
  <2>0. \A n \in Tails : n \in Nat
    OBVIOUS
  <2>1. stdin' = stdin /\ conn' = conn /\ (tail' = 0 \/ tail' \in Tails)
    BY <1>7 DEF FanTest
  <2>3. tail' \in Nat
    <3>1. CASE tail' = 0
      BY <3>1
    <3>2. CASE tail' \in Tails
      BY <2>0, <3>2
    <3> QED
      BY <2>1, <3>1, <3>2
  <2>4. "fan" \in Loads
    BY DEF Loads
  <2>2. UNCHANGED <<dev, late, misread>> \/ \E on \in BOOLEAN : Switch("fan", on)
    BY <1>7 DEF FanTest
  <2> QED
    BY <1>0, <1>a, <2>1, <2>2, <2>3, <2>4
<1>8. ASSUME (\E t \in Threads : Sigint(t)) \/ ConnectionEnds \/ LightChanges \/ UNCHANGED vars PROVE Goal
  <2>1. UNCHANGED <<stdin, driven>> /\ conn' \in Conns
    BY <1>0, <1>8 DEF Sigint, ConnectionEnds, LightChanges, vars, Conns
  <2> QED
    BY <1>0, <2>1 DEF driven
<1>9. ASSUME Restart PROVE Goal
  BY <1>0, <1>9 DEF Restart, Process, Conns
<1> QED
  BY <1>1, <1>4, <1>5, <1>6, <1>7, <1>8, <1>9 DEF Next

LEMMA TypedStep == TypeOK /\ Depths /\ Starting /\ Entered /\ [Next]_vars => TypeOK' /\ Depths'
<1> SUFFICES ASSUME TypeOK, Depths, Starting, Entered, [Next]_vars PROVE TypeOK' /\ Depths'
  OBVIOUS
<1> DEFINE Pcs == pc \in [Threads -> Labels]
           Stack == /\ depth \in [Threads -> Nat]
                    /\ \A t \in Threads : depth[t] <= IF signal THEN MaxDepth + 1 ELSE MaxDepth
           Als2 == als \in [low : Byte \cup {-EAGAIN}, high : Byte \cup {-EAGAIN}]
           Rest == /\ fd \in [Devices -> Fds]
                   /\ outcome \in {"running", "exit", "return", "killed", "crash"}
                   /\ light \in Lights /\ seen \subseteq Lights /\ lost \in BOOLEAN
                   /\ enters \in 0..2 /\ ready \in BOOLEAN /\ signal \in BOOLEAN
<1>0. Pcs /\ Stack /\ Als2 /\ Rest
  BY DEF TypeOK, Depths, Fds
<1> SUFFICES Pcs' /\ Stack' /\ Als2' /\ Rest'
  <2>1. ASSUME Stack' PROVE depth' \in [Threads -> 0..(MaxDepth + 1)] /\ Depths'
    <3>1. \A t \in Threads : depth'[t] \in Nat /\ (depth'[t] <= MaxDepth + 1 \/ depth'[t] <= MaxDepth)
      BY <2>1
    <3>2. \A t \in Threads : depth'[t] \in 0..(MaxDepth + 1)
      BY <3>1
    <3> QED
      BY <2>1, <3>2 DEF Depths
  <2> QED
    BY <2>1, PlainTyped DEF TypeOK, Fds, Conns
<1>a. "main" \in Threads /\ "hold" \in Threads /\ "main" # "hold"
  BY DEF Threads
<1>1. ASSUME NEW t \in Threads, Fails(t) PROVE Pcs' /\ Stack' /\ Als2' /\ Rest'
  <2>1. UNCHANGED <<light, als, seen, lost, ready, signal>>
    BY <1>1 DEF Fails, sensing
  <2>2. fd' \in [Devices -> Fds]
    BY <1>0, <1>1 DEF Fails, Fds
  <2>3. CASE EntersClose(t)
    <3>1. Pcs'
      BY <1>0, <2>3 DEF EntersClose, Labels, Closing
    <3>2. Stack'
      <4>1. depth[t] \in Nat /\ depth[t] + 1 <= MaxDepth /\ depth[t] + 1 <= MaxDepth + 1
        BY <1>0, <2>3 DEF EntersClose
      <4>2. depth'[t] = depth[t] + 1 /\ \A s \in Threads \ {t} : depth'[s] = depth[s]
        BY <1>0, <2>3 DEF EntersClose
      <4>3. depth' \in [Threads -> Nat]
        BY <1>0, <2>3, <4>1 DEF EntersClose
      <4>4. depth'[t] <= IF signal' THEN MaxDepth + 1 ELSE MaxDepth
        BY <4>1, <4>2
      <4>5. \A s \in Threads \ {t} : depth'[s] <= IF signal' THEN MaxDepth + 1 ELSE MaxDepth
        BY <1>0, <2>1, <4>2
      <4> QED
        BY <4>3, <4>4, <4>5
    <3>3. enters' \in 0..2
      BY <1>0, <2>3 DEF EntersClose, Fresh
    <3>4. outcome' = outcome
      BY <2>3 DEF EntersClose
    <3> QED
      BY <1>0, <2>1, <2>2, <3>1, <3>2, <3>3, <3>4
  <2>4. CASE Overflows(t)
    <3>1. UNCHANGED <<pc, depth, enters>> /\ outcome' = "crash"
      BY <2>4 DEF Overflows
    <3> QED
      BY <1>0, <2>1, <2>2, <3>1
  <2> QED
    BY <1>1, <2>3, <2>4 DEF Fails
<1>2. ASSUME Configured \/ (\E i \in 1..5 : Opened(i)) \/ Connected PROVE Pcs' /\ Stack' /\ Als2' /\ Rest'
  <2>1. UNCHANGED <<depth, outcome, light, als, seen, lost, enters, signal>>
    BY <1>2 DEF Configured, Opened, Connected, sensing
  <2>2. Pcs'
    <3>1. CASE Configured
      BY <1>0, <1>a, <3>1 DEF Configured, Goto, Labels, Devices
    <3>2. ASSUME NEW i \in 1..5, Opened(i) PROVE Pcs'
      <4>1. \E l \in Devices \cup {"connect"} : pc' = [pc EXCEPT !["main"] = l]
        <5>1. CASE i = 5
          <6>1. ~(5 < 5)
            OBVIOUS
          <6> QED
            BY <3>2, <5>1, <6>1 DEF Opened, Goto
        <5>2. CASE i # 5
          <6>1. i < 5 /\ Opens[i + 1] \in Devices
            BY <5>2, Order
          <6> QED
            BY <3>2, <6>1 DEF Opened, Goto
        <5> QED
          BY <5>1, <5>2
      <4> QED
        BY <1>0, <1>a, <4>1 DEF Labels
    <3>3. CASE Connected
      BY <1>0, <3>3 DEF Connected, Labels
    <3> QED
      BY <1>2, <3>1, <3>2, <3>3
  <2>3. fd' \in [Devices -> Fds] /\ ready' \in BOOLEAN
    BY <1>0, <1>2 DEF Configured, Opened, Connected, Fds
  <2> QED
    BY <1>0, <2>1, <2>2, <2>3
<1>3. ASSUME Stops \/ Others \/ \E t \in Threads : Works(t) PROVE Pcs' /\ Stack' /\ Als2' /\ Rest'
  <2>1. UNCHANGED <<fd, depth, light, als, seen, lost, ready, enters, signal>>
    BY <1>3 DEF Stops, Others, Works, sensing
  <2>2. Pcs'
    BY <1>0, <1>3 DEF Stops, Others, Works, Working, Labels
  <2>3. outcome' \in {"running", "return", "killed"}
    BY <1>3 DEF Stops, Others, Works
  <2> QED
    BY <1>0, <2>1, <2>2, <2>3
<1>4. ASSUME HoldReads PROVE Pcs' /\ Stack' /\ Als2' /\ Rest'
  <2>1. UNCHANGED <<fd, depth, outcome, light, ready, enters, signal>>
    BY <1>4 DEF HoldReads
  <2>2. Pcs'
    BY <1>0, <1>4, <1>a DEF HoldReads, Goto, Labels
  <2>3. light[1] \in Byte /\ light[2] \in Byte
    BY <1>0
  <2>4. \A ok \in BOOLEAN : i2c_read_reg(ok, light[1]) \in Byte \cup {-EAGAIN}
                            /\ i2c_read_reg(ok, light[2]) \in Byte \cup {-EAGAIN}
    BY <2>3 DEF i2c_read_reg
  <2>5. Als2'
    BY <1>0, <1>4, <2>4 DEF HoldReads
  <2>6. seen' \subseteq Lights /\ lost' \in BOOLEAN
    BY <1>0, <1>4 DEF HoldReads
  <2> QED
    BY <1>0, <2>1, <2>2, <2>5, <2>6
<1>5. ASSUME LightChanges PROVE Pcs' /\ Stack' /\ Als2' /\ Rest'
  <2>1. UNCHANGED <<fd, pc, depth, outcome, als, lost, ready, enters, signal>>
    BY <1>5 DEF LightChanges, calls
  <2>2. light' \in Lights /\ seen' \subseteq Lights
    BY <1>0, <1>5 DEF LightChanges
  <2> QED
    BY <1>0, <2>1, <2>2
<1>6. ASSUME NEW t \in Threads, SwitchOff(t) \/ CloseFds(t) \/ Exit(t)
      PROVE  Pcs' /\ Stack' /\ Als2' /\ Rest'
  <2>1. UNCHANGED <<depth, light, als, seen, lost, ready, enters, signal>>
    BY <1>6 DEF SwitchOff, SwitchesOff, CloseFds, Exit, sensing, calls
  <2>2. Pcs'
    <3>1. pc' = pc \/ \E l \in Closing : pc' = [pc EXCEPT ![t] = l]
      BY <1>6 DEF SwitchOff, SwitchesOff, CloseFds, Exit, Goto, Closing
    <3> QED
      BY <1>0, <3>1 DEF Labels
  <2>3. outcome' = outcome \/ outcome' = "exit"
    BY <1>6 DEF SwitchOff, SwitchesOff, CloseFds, Exit, calls
  <2>4. fd' \in [Devices -> Fds]
    <3>1. CASE CloseFds(t)
      BY <1>0, <3>1 DEF CloseFds, Fds
    <3>2. CASE SwitchOff(t) \/ Exit(t)
      BY <1>0, <3>2 DEF SwitchOff, SwitchesOff, Exit
    <3> QED
      BY <1>6, <3>1, <3>2
  <2> QED
    BY <1>0, <2>1, <2>2, <2>3, <2>4
<1>7. ASSUME NEW t \in Threads, Sigint(t) PROVE Pcs' /\ Stack' /\ Als2' /\ Rest'
  <2>1. UNCHANGED <<fd, outcome, light, als, seen, lost, ready>>
    BY <1>7 DEF Sigint, sensing
  <2>2. Pcs'
    BY <1>0, <1>7 DEF Sigint, Goto, Labels, Closing
  <2>3. Stack'
    <3>1. signal' = TRUE /\ ~signal /\ depth' = [depth EXCEPT ![t] = depth[t] + 1]
      BY <1>7 DEF Sigint
    <3>2. \A s \in Threads : depth[s] \in Nat /\ depth[s] <= MaxDepth
      BY <1>0, <3>1
    <3>3. \A s \in Threads : depth'[s] = depth[s] \/ depth'[s] = depth[s] + 1
      BY <1>0, <3>1
    <3>4. \A s \in Threads : depth'[s] <= MaxDepth + 1
      BY <3>2, <3>3
    <3>5. depth' \in [Threads -> Nat]
      BY <1>0, <3>1, <3>2
    <3> QED
      BY <3>1, <3>4, <3>5
  <2>4. enters' \in 0..2 /\ signal' \in BOOLEAN
    BY <1>0, <1>7 DEF Sigint
  <2> QED
    BY <1>0, <2>1, <2>2, <2>3, <2>4
<1>8. ASSUME Restart PROVE Pcs' /\ Stack' /\ Als2' /\ Rest'
  <2>1. Pcs'
    BY <1>8 DEF Restart, Process, Labels
  <2>2. Stack'
    <3>1. depth' = [t \in Threads |-> 0] /\ signal' = FALSE
      BY <1>8 DEF Restart, Process
    <3> QED
      BY <3>1
  <2>4. Als2'
    BY <1>8 DEF Restart, Process, Byte
  <2>3. Rest'
    <3>1. fd' = [d \in Devices |-> "zero"] /\ light' = light /\ seen' = {} /\ lost' = FALSE
      BY <1>8 DEF Restart, Process, Zeros
    <3>2. outcome' = "running" /\ enters' = 0 /\ ready' = FALSE /\ signal' = FALSE
      BY <1>8 DEF Restart
    <3>3. fd' \in [Devices -> Fds]
      BY <3>1 DEF Fds
    <3>4. light' \in Lights /\ seen' \subseteq Lights /\ lost' \in BOOLEAN
      BY <1>0, <3>1
    <3>5. enters' \in 0..2
      BY <3>2
    <3>6. ready' \in BOOLEAN /\ signal' \in BOOLEAN
      BY <3>2
    <3> QED
      BY <3>2, <3>3, <3>4, <3>5, <3>6
  <2> QED
    BY <2>1, <2>2, <2>3, <2>4
<1>9. ASSUME UNCHANGED vars PROVE Pcs' /\ Stack' /\ Als2' /\ Rest'
  BY <1>0, <1>9 DEF vars, sensing, calls
<1> QED
  BY <1>1, <1>2, <1>3, <1>4, <1>5, <1>6, <1>7, <1>8, <1>9, Kinds DEF Kind
-----------------------------------------------------------------------------
LEMMA StartingInit == Init => Starting
<1> SUFFICES ASSUME Init PROVE Starting
  OBVIOUS
<1>0. "main" \in Threads
  BY DEF Threads
<1>1. /\ pc["main"] = "config" /\ ~ready
      /\ \A t \in Threads \ {"main"} : pc[t] = "none"
  BY <1>0 DEF Init, Process
<1>2. \A i \in 1..5 : pc["main"] # Opens[i]
  BY <1>1, Order DEF Devices
<1>3. "config" \notin {"connect"} \cup Working
  BY DEF Working
<1> QED
  BY <1>1, <1>2, <1>3 DEF Starting

LEMMA StartingStep == TypeOK /\ Starting /\ Entered /\ [Next]_vars => Starting'
<1> SUFFICES ASSUME TypeOK, Starting, Entered, [Next]_vars PROVE Starting'
  OBVIOUS
<1>a. "main" \in Threads /\ "hold" \in Threads /\ pc \in [Threads -> Labels]
  BY DEF Threads, TypeOK
<1>b. /\ Closing \cap ({"none", "config", "connect"} \cup Devices \cup Working) = {}
      /\ Working \cap ({"config", "connect"} \cup Devices) = {}
      /\ \A i \in 1..5 : Opens[i] \in Devices
  BY Order DEF Closing, Devices, Working
(* A thread goes on, or begins, when main has connected; main may also     *)
(* close before that.                                                      *)
<1>1. ASSUME NEW t \in Threads, NEW l \in Closing \cup Working, pc' = [pc EXCEPT ![t] = l],
             ready' = ready, l \in Working => ready,
             t # "main" => ready /\ pc["main"] \notin {"config", "connect"} \cup Devices
      PROVE  Starting'
  <2>1. CASE t = "main"
    <3>1. pc'["main"] = l /\ \A s \in Threads \ {"main"} : pc'[s] = pc[s]
      BY <1>1, <1>a, <2>1
    <3>2. l \notin {"config", "connect"} \cup Devices
      BY <1>b
    <3> QED
      BY <1>1, <1>b, <3>1, <3>2 DEF Starting
  <2>2. CASE t # "main"
    <3>1. pc'["main"] = pc["main"] /\ \A s \in Threads \ {t} : pc'[s] = pc[s]
      BY <1>1, <1>a, <2>2
    <3> QED
      BY <1>1, <1>b, <2>2, <3>1 DEF Starting
  <2> QED
    BY <2>1, <2>2
(* Who is not "none" may do so. *)
<1>2. ASSUME NEW t \in Threads, pc[t] # "none", NEW l \in Closing, pc' = [pc EXCEPT ![t] = l],
             ready' = ready
      PROVE  Starting'
  <2>1. t # "main" => ready /\ pc["main"] \notin {"config", "connect"} \cup Devices
    BY <1>2 DEF Starting
  <2>2. l \notin Working
    BY <1>b
  <2> QED
    BY <1>1, <1>2, <2>1, <2>2
<1>3. ASSUME NEW t \in Threads, Fails(t) PROVE Starting'
  <2>1. CASE EntersClose(t)
    <3>1. pc' = [pc EXCEPT ![t] = "c_led"] /\ "c_led" \in Closing /\ ready' = ready /\ pc[t] # "none"
      BY <1>3, <2>1 DEF Fails, EntersClose, Closing
    <3> QED
      BY <1>2, <3>1
  <2>2. CASE Overflows(t)
    <3>1. pc' = pc /\ ready' = ready /\ pc[t] \in Closing
      BY <1>3, <2>2 DEF Fails, Overflows
    <3>2. fd' = fd
      BY <1>3, <1>b, <3>1 DEF Fails
    <3> QED
      BY <3>1, <3>2 DEF Starting
  <2> QED
    BY <1>3, <2>1, <2>2 DEF Fails
<1>4. ASSUME NEW t \in Threads, SwitchOff(t) \/ CloseFds(t) \/ Sigint(t) PROVE Starting'
  <2>1. ready' = ready /\ pc[t] # "none"
    BY <1>4 DEF SwitchOff, SwitchesOff, CloseFds, Sigint, At
  <2>2. \E l \in Closing : pc' = [pc EXCEPT ![t] = l]
    BY <1>4 DEF SwitchOff, SwitchesOff, CloseFds, Sigint, Goto, Closing
  <2> QED
    BY <1>2, <2>1, <2>2
<1>5. ASSUME NEW t \in Threads, Works(t) PROVE Starting'
  <2>1. PICK l \in Working : pc' = [pc EXCEPT ![t] = l]
    BY <1>5 DEF Works
  <2>2. ready' = ready
    BY <1>5 DEF Works
  <2>3. CASE pc[t] \in Working \ {"none"}
    <3>1. ready /\ (t # "main" => pc["main"] \notin {"config", "connect"} \cup Devices)
      BY <2>3 DEF Starting
    <3> QED
      BY <1>1, <2>1, <2>2, <3>1
  <2>4. CASE pc["main"] = "serve"
    <3>1. ready /\ "serve" \notin {"config", "connect"} \cup Devices
      BY <2>4 DEF Starting, Working, Devices
    <3> QED
      BY <1>1, <2>1, <2>2, <2>4, <3>1
  <2> QED
    BY <1>5, <2>3, <2>4 DEF Works
<1>6. CASE Configured
  <2>1. /\ pc'["main"] = "si7006" /\ ready' = ready /\ fd' = fd
        /\ \A s \in Threads \ {"main"} : pc'[s] = pc[s]
    BY <1>6, <1>a DEF Configured, Goto
  <2>2. ~ready /\ \A s \in Threads \ {"main"} : pc[s] = "none"
    BY <1>6 DEF Configured, Starting
  <2>3. \A i \in 1..5 : pc'["main"] = Opens[i] => 1..(i - 1) = {}
    BY <2>1, Order
  <2>4. "si7006" \notin {"connect"} \cup Working
    BY DEF Working
  <2> QED
    BY <2>1, <2>2, <2>3, <2>4 DEF Starting
<1>7. ASSUME NEW i \in 1..5, Opened(i) PROVE Starting'
  <2>1. /\ ~ready /\ pc["main"] = Opens[i]
        /\ \A s \in Threads \ {"main"} : pc[s] = "none"
    BY <1>7, <1>b DEF Opened, Starting
  <2>2. fd'[Opens[i]] = "open" /\ \A d \in Devices \ {Opens[i]} : fd'[d] = fd[d]
    BY <1>7, Order DEF Opened, TypeOK
  <2>3. \A j \in 1..i : fd'[Opens[j]] = "open"
    <3>1. \A j \in 1..(i - 1) : fd[Opens[j]] = "open"
      BY <2>1 DEF Starting
    <3> SUFFICES ASSUME NEW j \in 1..i PROVE fd'[Opens[j]] = "open"
      OBVIOUS
    <3>2. CASE j = i
      BY <2>2, <3>2
    <3>3. CASE j # i
      <4>1. j \in 1..(i - 1) /\ j \in 1..5
        BY <3>3
      <4> QED
        BY <2>2, <3>1, <4>1, Order
    <3> QED
      BY <3>2, <3>3
  <2>4. CASE i = 5
    <3>1. /\ pc'["main"] = "connect" /\ ready'
          /\ \A s \in Threads \ {"main"} : pc'[s] = "none"
      <4>1. ~(5 < 5)
        OBVIOUS
      <4> QED
        BY <1>7, <1>a, <2>1, <2>4, <4>1 DEF Opened, Goto
    <3>2. pc'["main"] \notin {"config"} \cup Devices
      BY <3>1 DEF Devices
    <3> QED
      BY <1>b, <3>1, <3>2 DEF Starting
  <2>5. CASE i # 5
    <3>1. i < 5 /\ i + 1 \in 1..5
      BY <2>5, Order
    <3>2. /\ pc'["main"] = Opens[i + 1] /\ ~ready'
          /\ \A s \in Threads \ {"main"} : pc'[s] = "none"
      BY <1>7, <1>a, <2>1, <2>5, <3>1 DEF Opened, Goto
    <3>3. Opens[i + 1] \in Devices /\ pc'["main"] \notin {"connect"} \cup Working
      BY <1>b, <3>1, <3>2 DEF Devices
    <3>4. ASSUME NEW k \in 1..5, pc'["main"] = Opens[k] PROVE k = i + 1
      <4>1. \A m, n \in 1..5 : Opens[m] = Opens[n] => m = n
        BY Order
      <4> QED
        BY <3>1, <3>2, <3>4, <4>1
    <3>5. (i + 1) - 1 = i
      OBVIOUS
    <3>6. \A k \in 1..5 : pc'["main"] = Opens[k] => \A j \in 1..(k - 1) : fd'[Opens[j]] = "open"
      BY <2>3, <3>4, <3>5
    <3> QED
      BY <3>2, <3>3, <3>6 DEF Starting
  <2> QED
    BY <2>4, <2>5
<1>8. CASE Connected
  <2>1. ready /\ ready' = ready
    BY <1>8 DEF Connected, Starting
  <2>2. pc'["main"] = "serve"
    BY <1>8, <1>a DEF Connected
  <2>3. pc'["main"] \notin {"config", "connect"} \cup Devices
    BY <2>2 DEF Devices
  <2> QED
    BY <1>b, <2>1, <2>3 DEF Starting
<1>9. CASE HoldReads
  <2>1. ready' = ready /\ pc["hold"] \in Working \ {"none"}
    BY <1>9 DEF HoldReads, Working
  <2>2. \E l \in Working : pc' = [pc EXCEPT !["hold"] = l]
    BY <1>9 DEF HoldReads, Goto, Working
  <2>3. ready /\ pc["main"] \notin {"config", "connect"} \cup Devices
    BY <1>a, <2>1 DEF Starting, Threads
  <2> QED
    BY <1>1, <1>a, <2>1, <2>2, <2>3
<1>10. CASE Stops \/ Others \/ LightChanges \/ UNCHANGED vars \/ \E t \in Threads : Exit(t)
  <2>1. UNCHANGED <<pc, ready, fd>>
    BY <1>10 DEF Stops, Others, LightChanges, vars, Exit
  <2> QED
    BY <2>1 DEF Starting
<1>11. CASE Restart
  <2>1. /\ pc'["main"] = "config" /\ ~ready'
        /\ \A t \in Threads \ {"main"} : pc'[t] = "none"
    BY <1>11, <1>a DEF Restart, Process
  <2>2. \A i \in 1..5 : pc'["main"] # Opens[i]
    BY <2>1, Order DEF Devices
  <2>3. "config" \notin {"connect"} \cup Working
    BY DEF Working
  <2> QED
    BY <2>1, <2>2, <2>3 DEF Starting
<1> QED
  BY <1>3, <1>4, <1>5, <1>6, <1>7, <1>8, <1>9, <1>10, <1>11, Kinds DEF Kind
-----------------------------------------------------------------------------
LEMMA EnteredInit == Init => Entered
<1> SUFFICES ASSUME Init PROVE Entered
  OBVIOUS
<1>1. \A t \in Threads : pc[t] \notin Closing /\ depth[t] = 0
  BY DEF Init, Process, Closing
<1> QED
  BY <1>1 DEF Entered

LEMMA EnteredStep == TypeOK /\ Starting /\ Entered /\ [Next]_vars => Entered'
<1> SUFFICES ASSUME TypeOK, Starting, Entered, [Next]_vars PROVE Entered'
  OBVIOUS
<1>a. /\ "main" \in Threads /\ "hold" \in Threads
      /\ pc \in [Threads -> Labels] /\ depth \in [Threads -> 0..(MaxDepth + 1)] /\ enters \in 0..2
  BY DEF Threads, TypeOK
<1>b. Closing \cap ({"none", "config", "connect"} \cup Devices \cup Working) = {}
  BY DEF Closing, Devices, Working
(* A thread that moves on within close_device, or outside it. *)
<1>1. ASSUME NEW t \in Threads, NEW l, pc' = [pc EXCEPT ![t] = l],
             depth' = depth, enters' = enters, l \in Closing <=> pc[t] \in Closing
      PROVE  Entered'
  <2>1. \A s \in Threads : pc'[s] \in Closing <=> pc[s] \in Closing
    BY <1>1, <1>a
  <2> QED
    BY <1>1, <2>1 DEF Entered
(* A thread that enters it for the first time or once more. *)
<1>2. ASSUME NEW t \in Threads, pc' = [pc EXCEPT ![t] = "c_led"],
             depth' = [depth EXCEPT ![t] = depth[t] + 1],
             \/ enters' = IF enters = 2 THEN 2 ELSE enters + 1
             \/ enters' = enters /\ pc[t] \in Closing
      PROVE  Entered'
  <2>1. pc'[t] \in Closing /\ \A s \in Threads \ {t} : pc'[s] = pc[s] /\ depth'[s] = depth[s]
    BY <1>2, <1>a DEF Closing
  <2>2. \A s \in Threads : pc'[s] \notin Closing => depth'[s] = 0
    BY <2>1 DEF Entered
  <2>3. enters' >= 1 /\ enters' >= enters
    <3>1. CASE enters' = IF enters = 2 THEN 2 ELSE enters + 1
      BY <1>a, <3>1
    <3>2. CASE enters' = enters /\ pc[t] \in Closing
      BY <1>a, <3>2 DEF Entered
    <3> QED
      BY <1>2, <3>1, <3>2
  <2>4. ASSUME NEW s \in Threads, s # t, pc[s] \in Closing PROVE enters' >= 2
    <3>1. enters >= 1
      BY <2>4 DEF Entered
    <3>2. CASE enters' = IF enters = 2 THEN 2 ELSE enters + 1
      BY <1>a, <3>1, <3>2
    <3>3. CASE enters' = enters /\ pc[t] \in Closing
      BY <2>4, <3>3 DEF Entered
    <3> QED
      BY <1>2, <3>2, <3>3
  <2>5. ASSUME NEW r \in Threads, NEW s \in Threads, r # s, pc'[r] \in Closing, pc'[s] \in Closing
        PROVE  enters' >= 2
    <3>1. CASE r = t \/ s = t
      BY <2>1, <2>4, <2>5, <3>1
    <3>2. CASE r # t /\ s # t
      <4>1. enters >= 2
        BY <2>1, <2>5, <3>2 DEF Entered
      <4>2. enters' \in Int
        BY <1>2, <1>a
      <4> QED
        BY <1>a, <2>3, <4>1, <4>2
    <3> QED
      BY <3>1, <3>2
  <2> QED
    BY <2>2, <2>3, <2>5 DEF Entered
<1>3. ASSUME NEW t \in Threads, Fails(t) PROVE Entered'
  <2>1. CASE EntersClose(t)
    <3>1. \/ enters' = IF enters = 2 THEN 2 ELSE enters + 1
          \/ enters' = enters /\ pc[t] \in Closing
      BY <2>1 DEF EntersClose, Fresh
    <3> QED
      BY <1>2, <2>1, <3>1 DEF EntersClose
  <2>2. CASE Overflows(t)
    BY <2>2 DEF Overflows, Entered
  <2> QED
    BY <1>3, <2>1, <2>2 DEF Fails
<1>4. ASSUME NEW t \in Threads, SwitchOff(t) \/ CloseFds(t) PROVE Entered'
  <2>1. PICK l \in Closing : pc' = [pc EXCEPT ![t] = l]
    BY <1>4 DEF SwitchOff, SwitchesOff, CloseFds, Goto, Closing
  <2>2. depth' = depth /\ enters' = enters /\ pc[t] \in Closing
    BY <1>4 DEF SwitchOff, SwitchesOff, CloseFds, At, Closing, calls
  <2> QED
    BY <1>1, <2>1, <2>2
<1>5. ASSUME NEW t \in Threads, Sigint(t) PROVE Entered'
  BY <1>2, <1>5 DEF Sigint, Goto
<1>6. CASE Configured \/ \E i \in 1..5 : Opened(i)
  <2>1. PICK l \in Devices \cup {"connect"} : pc' = [pc EXCEPT !["main"] = l]
    <3>1. CASE Configured
      BY <3>1 DEF Configured, Goto, Devices
    <3>2. ASSUME NEW i \in 1..5, Opened(i), i = 5 PROVE pc' = [pc EXCEPT !["main"] = "connect"]
      <4>1. ~(5 < 5)
        OBVIOUS
      <4> QED
        BY <3>2, <4>1 DEF Opened, Goto
    <3>3. ASSUME NEW i \in 1..5, Opened(i), i # 5
          PROVE  Opens[i + 1] \in Devices /\ pc' = [pc EXCEPT !["main"] = Opens[i + 1]]
      <4>1. i < 5 /\ Opens[i + 1] \in Devices
        BY <3>3, Order
      <4> QED
        BY <3>3, <4>1 DEF Opened, Goto
    <3> QED
      BY <1>6, <3>1, <3>2, <3>3
  <2>2. depth' = depth /\ enters' = enters
    BY <1>6 DEF Configured, Opened
  <2>3. pc["main"] \notin Closing /\ l \notin Closing
    <3>1. pc["main"] \in {"config"} \cup Devices
      BY <1>6, Order DEF Configured, Opened
    <3> QED
      BY <1>b, <3>1
  <2> QED
    BY <1>1, <1>a, <2>1, <2>2, <2>3
<1>7. CASE Connected
  <2>1. depth' = depth /\ enters' = enters
    BY <1>7 DEF Connected
  <2>2. pc["main"] = "connect" /\ pc["hold"] = "none"
    BY <1>7, <1>a DEF Connected, Starting, Threads
  <2>3. /\ pc'["main"] = "serve" /\ pc'["hold"] = "tmp"
        /\ \A t \in Threads \ {"main", "hold"} : pc'[t] = pc[t]
    BY <1>7, <1>a DEF Connected
  <2>4. \A t \in Threads : pc'[t] \in Closing <=> pc[t] \in Closing
    BY <2>2, <2>3 DEF Closing
  <2> QED
    BY <2>1, <2>4 DEF Entered
<1>8. ASSUME NEW t \in Threads, Works(t) PROVE Entered'
  <2>1. PICK l \in Working : pc' = [pc EXCEPT ![t] = l]
    BY <1>8 DEF Works
  <2>2. depth' = depth /\ enters' = enters /\ pc[t] \notin Closing /\ l \notin Closing
    BY <1>8, <1>b DEF Works
  <2> QED
    BY <1>1, <2>1, <2>2
<1>9. CASE HoldReads
  <2>1. PICK l \in Working : pc' = [pc EXCEPT !["hold"] = l]
    BY <1>9 DEF HoldReads, Goto, Working
  <2>2. depth' = depth /\ enters' = enters /\ pc["hold"] \in Working
    BY <1>9 DEF HoldReads, Working
  <2> QED
    BY <1>1, <1>a, <1>b, <2>1, <2>2
<1>10. CASE Stops \/ Others \/ LightChanges \/ UNCHANGED vars \/ \E t \in Threads : Exit(t)
  <2>1. UNCHANGED <<pc, depth, enters>>
    BY <1>10 DEF Stops, Others, LightChanges, vars, Exit, calls
  <2> QED
    BY <2>1 DEF Entered
<1>11. CASE Restart
  <2>1. \A t \in Threads : pc'[t] \notin Closing /\ depth'[t] = 0
    BY <1>11 DEF Restart, Process, Closing
  <2> QED
    BY <2>1 DEF Entered
<1> QED
  BY <1>3, <1>4, <1>5, <1>6, <1>7, <1>8, <1>9, <1>10, <1>11, Kinds DEF Kind
-----------------------------------------------------------------------------
AllOpen == \A d \in Devices : fd[d] = "open"
AllClosed == \A d \in Devices : fd[d] = "closed"

(* What a thread that closes has switched off stays off.                   *)
SwitchedOff(t) ==
  /\ pc[t] = "c_fan" => "led" \notin Unexcused
  /\ pc[t] = "c_motor" => {"led", "fan"} \cap Unexcused = {}
  /\ pc[t] \in {"c_close", "c_exit"} => Unexcused = {}

(* Once all devices were opened they are closed together, behind the last  *)
(* write to them; who finds them closed is not the first in close_device.  *)
Ended ==
  ready => /\ AllOpen \/ AllClosed
           /\ AllClosed /\ enters # 2 =>
                \A t \in Threads : pc[t] \in Closing => pc[t] = "c_exit"
           /\ AllClosed => SomeoneCloses
           /\ outcome = "crash" => enters = 2 \/ tail > 3
           /\ AllClosed \/ outcome = "exit" => Unexcused = {}
           /\ \A t \in Threads : SwitchedOff(t)

LEMMA EndedStep ==
  TypeOK /\ Starting /\ Entered /\ Ended /\ [Next]_vars => Ended'
<1> SUFFICES ASSUME TypeOK, Starting, Entered, Ended, [Next]_vars, ready' PROVE Ended'
  BY DEF Ended
<1>a. /\ "main" \in Threads /\ "hold" \in Threads
      /\ pc \in [Threads -> Labels] /\ enters \in 0..2
  BY DEF Threads, TypeOK
<1>b. Unexcused \subseteq {"led", "fan", "motor"}
  BY DEF TypeOK, Loads, Unexcused
<1>c. ~(AllOpen /\ AllClosed)
  BY DEF AllOpen, AllClosed, Devices
<1>e. Closing \cap ({"none", "config", "connect"} \cup Devices \cup Working) = {}
  BY DEF Closing, Devices, Working
(* The conjuncts by name, for a state in which all devices were opened. *)
<1> DEFINE Together == AllOpen \/ AllClosed
           Behind == AllClosed /\ enters # 2 =>
                       \A t \in Threads : pc[t] \in Closing => pc[t] = "c_exit"
           Someone == AllClosed => SomeoneCloses
           Twice == outcome = "crash" => enters = 2 \/ tail > 3
           Off == /\ AllClosed \/ outcome = "exit" => Unexcused = {}
                  /\ \A t \in Threads : SwitchedOff(t)
<1>d. ready => Together /\ Behind /\ Someone /\ Twice /\ Off
  BY DEF Ended
<1> SUFFICES Together' /\ Behind' /\ Someone' /\ Twice' /\ Off'
  BY DEF Ended
<1> HIDE DEF Together, Behind, Someone, Twice, Off
<1>1. ASSUME NEW t \in Threads, Fails(t) PROVE Together' /\ Behind' /\ Someone' /\ Twice' /\ Off'
  <2>1. /\ ready /\ UNCHANGED <<tail, ready>> /\ outcome = "running"
        /\ pc["main"] \notin Devices
    BY <1>1 DEF Fails, Starting
  <2>0. Unexcused' = Unexcused
    BY <1>1 DEF Fails, Unexcused
  <2>2. /\ fd' = fd
        /\ pc[t] \in Closing => /\ pc[t] \in {"c_fan", "c_motor"}
                                /\ (\E d \in Devices : fd[d] # "open") \/ tail > 3
    BY <1>1, <2>1 DEF Fails
  <2>3. AllOpen' = AllOpen /\ AllClosed' = AllClosed
    BY <2>2 DEF AllOpen, AllClosed
  <2>4. pc[t] \in Closing /\ AllClosed => enters = 2
    BY <1>d, <2>1, <2>2 DEF Behind
  <2>5. Together'
    BY <1>d, <2>1, <2>3 DEF Together
  <2>6. CASE EntersClose(t)
    <3>1. /\ pc'[t] = "c_led" /\ \A s \in Threads \ {t} : pc'[s] = pc[s]
          /\ outcome' = outcome /\ enters' = Fresh(t)
      BY <1>a, <2>6 DEF EntersClose
    <3>2. AllClosed => enters' = 2
      <4>1. CASE pc[t] \in Closing
        BY <2>4, <3>1, <4>1 DEF Fresh
      <4>2. CASE pc[t] \notin Closing
        <5>1. enters' = IF enters = 2 THEN enters ELSE enters + 1
          BY <3>1, <4>2 DEF Fresh
        <5>2. AllClosed => enters >= 1
          BY <1>d, <2>1 DEF Someone, SomeoneCloses, Entered
        <5> QED
          BY <1>a, <5>1, <5>2
      <4> QED
        BY <4>1, <4>2
    <3>3. Someone'
      BY <3>1 DEF Someone, SomeoneCloses, Closing
    <3>4. Behind'
      BY <2>3, <3>2 DEF Behind
    <3>5. Twice'
      BY <2>1, <3>1 DEF Twice
    <3>6. Off'
      BY <1>d, <2>0, <2>1, <2>3, <3>1 DEF Off, SwitchedOff
    <3> QED
      BY <2>5, <3>3, <3>4, <3>5, <3>6
  <2>7. CASE Overflows(t)
    <3>1. UNCHANGED <<pc, enters>> /\ outcome' = "crash" /\ pc[t] \in Closing
      BY <2>7 DEF Overflows
    <3>2. Behind' /\ Someone'
      BY <1>d, <2>1, <2>3, <3>1 DEF Behind, Someone, SomeoneCloses
    <3>3. Twice'
      <4>1. CASE tail > 3
        BY <2>1, <4>1 DEF Twice
      <4>2. CASE ~(tail > 3)
        <5>1. AllClosed
          BY <1>d, <2>1, <2>2, <3>1, <4>2 DEF Together, AllOpen
        <5> QED
          BY <2>4, <3>1, <5>1 DEF Twice
      <4> QED
        BY <4>1, <4>2
    <3>4. Off'
      BY <1>d, <2>0, <2>1, <2>3, <3>1 DEF Off, SwitchedOff
    <3> QED
      BY <2>5, <3>2, <3>3, <3>4
  <2> QED
    BY <1>1, <2>6, <2>7 DEF Fails
<1>2. ASSUME NEW t \in Threads, SwitchOff(t) PROVE Together' /\ Behind' /\ Someone' /\ Twice' /\ Off'
  <2>1. ready /\ UNCHANGED <<fd, enters, outcome>> /\ outcome = "running"
    BY <1>2 DEF SwitchOff, SwitchesOff
  <2>2. AllOpen' = AllOpen /\ AllClosed' = AllClosed
    BY <2>1 DEF AllOpen, AllClosed
  <2>3. /\ pc[t] \in {"c_led", "c_fan", "c_motor"} /\ pc'[t] \in Closing
        /\ \A s \in Threads \ {t} : pc'[s] = pc[s]
    BY <1>2, <1>a DEF SwitchOff, SwitchesOff, Goto, Closing
  <2>4. Together' /\ Someone' /\ Twice'
    BY <1>d, <2>1, <2>2, <2>3 DEF Together, Someone, SomeoneCloses, Twice
  <2>5. Behind'
    <3>1. pc[t] \in Closing /\ pc[t] # "c_exit"
      BY <2>3 DEF Closing
    <3>2. ~(AllClosed /\ enters # 2)
      BY <1>d, <2>1, <3>1 DEF Behind
    <3> QED
      BY <2>1, <2>2, <3>2 DEF Behind
  <2>6. Off'
    <3>1. /\ AllClosed => Unexcused = {}
          /\ \A s \in Threads : SwitchedOff(s)
      BY <1>d, <2>1 DEF Off
    <3>2. Unexcused' \subseteq Unexcused
      BY <1>2 DEF SwitchOff, SwitchesOff
    <3>3. \A s \in Threads \ {t} : SwitchedOff(s)'
      BY <2>3, <3>1, <3>2 DEF SwitchedOff
    <3>5. SwitchedOff(t)'
      <4>1. ASSUME NEW d \in Devices, fd[d] = "open" => d \notin Unexcused' PROVE d \notin Unexcused'
        <5>1. CASE AllOpen
          BY <4>1, <5>1 DEF AllOpen
        <5>2. CASE AllClosed
          BY <3>1, <3>2, <5>2
        <5> QED
          BY <1>d, <2>1, <5>1, <5>2 DEF Together
      <4>2. CASE SwitchesOff(t, "c_led", "led", "c_fan")
        <5>1. pc'[t] = "c_fan" /\ "led" \notin Unexcused'
          BY <1>a, <4>1, <4>2 DEF SwitchesOff, Goto, Devices
        <5> QED
          BY <5>1 DEF SwitchedOff
      <4>3. CASE SwitchesOff(t, "c_fan", "fan", "c_motor")
        <5>1. pc'[t] = "c_motor" /\ "fan" \notin Unexcused' /\ "led" \notin Unexcused
          BY <1>a, <3>1, <4>1, <4>3 DEF SwitchesOff, Goto, Devices, SwitchedOff
        <5> QED
          BY <3>2, <5>1 DEF SwitchedOff
      <4>4. CASE SwitchesOff(t, "c_motor", "motor", "c_close")
        <5>1. /\ pc'[t] = "c_close" /\ "motor" \notin Unexcused'
              /\ {"led", "fan"} \cap Unexcused = {}
          BY <1>a, <3>1, <4>1, <4>4 DEF SwitchesOff, Goto, Devices, SwitchedOff
        <5>2. Unexcused' = {}
          BY <1>b, <3>2, <5>1
        <5> QED
          BY <5>1, <5>2 DEF SwitchedOff
      <4> QED
        BY <1>2, <4>2, <4>3, <4>4 DEF SwitchOff
    <3>6. AllClosed \/ outcome' = "exit" => Unexcused' = {}
      BY <2>1, <3>1, <3>2
    <3> QED
      BY <2>2, <3>3, <3>5, <3>6 DEF Off
  <2> QED
    BY <2>4, <2>5, <2>6
<1>3. ASSUME NEW t \in Threads, CloseFds(t) PROVE Together' /\ Behind' /\ Someone' /\ Twice' /\ Off'
  <2>1. /\ ready /\ UNCHANGED <<enters, outcome, dev, late, misread>>
        /\ outcome = "running" /\ pc[t] = "c_close"
    BY <1>3 DEF CloseFds, At, calls, driven
  <2>0. Unexcused' = Unexcused
    BY <2>1 DEF Unexcused
  <2>2. AllClosed' /\ ~AllOpen'
    <3>1. \A d \in Devices : fd[d] \in {"open", "closed"}
      BY <1>d, <2>1 DEF Together, AllOpen, AllClosed
    <3>2. \A d \in Devices : fd'[d] = "closed"
      BY <1>3, <3>1 DEF CloseFds
    <3> QED
      BY <3>2 DEF AllClosed, AllOpen, Devices
  <2>3. pc'[t] = "c_exit" /\ \A s \in Threads \ {t} : pc'[s] = pc[s]
    BY <1>3, <1>a DEF CloseFds, Goto
  <2>4. enters # 2 => \A s \in Threads \ {t} : pc[s] \notin Closing
    <3>1. pc[t] \in Closing
      BY <2>1 DEF Closing
    <3>2. ASSUME NEW s \in Threads \ {t}, pc[s] \in Closing PROVE enters >= 2
      BY <3>1, <3>2 DEF Entered
    <3> QED
      BY <1>a, <3>2
  <2>5. Together' /\ Someone' /\ Twice'
    BY <2>1, <2>2, <2>3 DEF Together, Someone, SomeoneCloses, Twice, Closing
  <2>6. Behind'
    BY <2>1, <2>3, <2>4 DEF Behind
  <2>7. Off'
    <3>1. Unexcused = {} /\ \A s \in Threads : SwitchedOff(s)
      BY <1>d, <2>1 DEF Off, SwitchedOff
    <3> QED
      BY <2>0, <2>3, <3>1 DEF Off, SwitchedOff
  <2> QED
    BY <2>5, <2>6, <2>7
<1>4. ASSUME NEW t \in Threads, Exit(t) PROVE Together' /\ Behind' /\ Someone' /\ Twice' /\ Off'
  <2>1. /\ ready /\ UNCHANGED <<fd, pc, enters, dev, late, misread>>
        /\ pc[t] = "c_exit" /\ outcome' = "exit"
    BY <1>4 DEF Exit, At, driven
  <2>0. Unexcused' = Unexcused
    BY <2>1 DEF Unexcused
  <2>2. AllOpen' = AllOpen /\ AllClosed' = AllClosed
    BY <2>1 DEF AllOpen, AllClosed
  <2>3. Together' /\ Someone' /\ Twice' /\ Behind'
    BY <1>d, <2>1, <2>2 DEF Together, Someone, SomeoneCloses, Twice, Behind
  <2>4. Off'
    <3>1. Unexcused = {} /\ \A s \in Threads : SwitchedOff(s)
      BY <1>d, <2>1 DEF Off, SwitchedOff
    <3> QED
      BY <2>0, <2>1, <3>1 DEF Off, SwitchedOff
  <2> QED
    BY <2>3, <2>4
<1>5. ASSUME NEW t \in Threads, Sigint(t) PROVE Together' /\ Behind' /\ Someone' /\ Twice' /\ Off'
  <2>1. /\ ready /\ UNCHANGED <<fd, outcome, dev, late, misread>> /\ outcome = "running"
        /\ enters' = IF enters = 2 THEN 2 ELSE enters + 1
    BY <1>5 DEF Sigint, driven
  <2>0. Unexcused' = Unexcused
    BY <2>1 DEF Unexcused
  <2>2. AllOpen' = AllOpen /\ AllClosed' = AllClosed
    BY <2>1 DEF AllOpen, AllClosed
  <2>3. pc'[t] = "c_led" /\ \A s \in Threads \ {t} : pc'[s] = pc[s]
    BY <1>5, <1>a DEF Sigint, Goto
  <2>4. AllClosed => enters' = 2
    <3>1. AllClosed => enters >= 1
      BY <1>d, <2>1 DEF Someone, SomeoneCloses, Entered
    <3> QED
      BY <1>a, <2>1, <3>1
  <2>5. Together'
    BY <1>d, <2>1, <2>2 DEF Together
  <2>6. Someone' /\ Behind'
    BY <2>2, <2>3, <2>4 DEF Someone, SomeoneCloses, Behind, Closing
  <2>7. Twice'
    BY <2>1 DEF Twice
  <2>8. Off'
    BY <1>d, <2>0, <2>1, <2>2, <2>3 DEF Off, SwitchedOff
  <2> QED
    BY <2>5, <2>6, <2>7, <2>8
<1>6. CASE Configured
  BY <1>6 DEF Configured, Starting
<1>7. ASSUME NEW i \in 1..5, Opened(i) PROVE Together' /\ Behind' /\ Someone' /\ Twice' /\ Off'
  <2>1. /\ i = 5 /\ pc["main"] = Opens[5] /\ UNCHANGED <<enters, outcome>>
        /\ outcome = "running" /\ \A s \in Threads \ {"main"} : pc[s] = "none"
    BY <1>7, Order DEF Opened, Starting
  <2>2. AllOpen'
    <3>1. \A j \in 1..4 : fd[Opens[j]] = "open"
      <4>1. 5 - 1 = 4
        OBVIOUS
      <4> QED
        BY <2>1, <4>1 DEF Starting
    <3>2. fd' = [fd EXCEPT ![Opens[5]] = "open"] /\ fd \in [Devices -> Fds]
      BY <1>7, <2>1 DEF Opened, TypeOK, Fds
    <3>3. \A j \in 1..5 : j = 5 \/ j \in 1..4
      OBVIOUS
    <3>4. \A j \in 1..5 : fd'[Opens[j]] = "open"
      BY <3>1, <3>2, <3>3, Order
    <3> QED
      BY <3>4, Order DEF AllOpen
  <2>3. ~AllClosed'
    BY <2>2 DEF AllOpen, AllClosed, Devices
  <2>4. \A s \in Threads : pc'[s] \notin Closing
    <3>1. ~(5 < 5)
      OBVIOUS
    <3>2. pc'["main"] = "connect" /\ \A s \in Threads \ {"main"} : pc'[s] = "none"
      BY <1>7, <1>a, <2>1, <3>1 DEF Opened, Goto
    <3> QED
      BY <3>2 DEF Closing
  <2>5. \A s \in Threads : SwitchedOff(s)'
    BY <2>4 DEF SwitchedOff, Closing
  <2> QED
    BY <2>1, <2>2, <2>3, <2>5 DEF Together, Behind, Someone, Twice, Off
(* Nobody comes to close_device, and nothing is switched on in its back.   *)
<1>8. ASSUME ready, UNCHANGED <<fd, enters>>,
             outcome' \in {"running", "return", "killed"},
             \A s \in Threads : pc'[s] \in Closing \/ pc[s] \in Closing => pc'[s] = pc[s],
             SomeoneCloses => Unexcused' \subseteq Unexcused
      PROVE  Together' /\ Behind' /\ Someone' /\ Twice' /\ Off'
  <2>1. AllOpen' = AllOpen /\ AllClosed' = AllClosed
    BY <1>8 DEF AllOpen, AllClosed
  <2>2. Together' /\ Behind'
    BY <1>8, <1>d, <2>1 DEF Together, Behind
  <2>3. Someone'
    BY <1>8, <1>d, <2>1 DEF Someone, SomeoneCloses
  <2>4. Twice'
    BY <1>8 DEF Twice
  <2>5. AllClosed => Unexcused' = {}
    BY <1>8, <1>d DEF Someone, Off
  <2>6. ASSUME NEW s \in Threads PROVE SwitchedOff(s)'
    <3>1. CASE pc'[s] \in Closing
      <4>1. pc'[s] = pc[s] /\ SomeoneCloses
        BY <1>8, <3>1 DEF SomeoneCloses
      <4>2. Unexcused' \subseteq Unexcused /\ SwitchedOff(s)
        BY <1>8, <1>d, <4>1 DEF Off
      <4> QED
        BY <4>1, <4>2 DEF SwitchedOff
    <3>2. CASE pc'[s] \notin Closing
      BY <3>2 DEF SwitchedOff, Closing
    <3> QED
      BY <3>1, <3>2
  <2>7. Off'
    BY <1>8, <2>1, <2>5, <2>6 DEF Off
  <2> QED
    BY <2>2, <2>3, <2>4, <2>7
<1>9. CASE Connected
  <2>1. ready /\ UNCHANGED <<fd, enters, dev, late, misread>> /\ outcome' = "running"
    BY <1>9 DEF Connected, driven
  <2>2. Unexcused' = Unexcused
    BY <2>1 DEF Unexcused
  <2>3. pc["main"] = "connect" /\ pc["hold"] = "none"
    BY <1>9, <1>a DEF Connected, Starting, Threads
  <2>4. /\ pc'["main"] = "serve" /\ pc'["hold"] = "tmp"
        /\ \A t \in Threads \ {"main", "hold"} : pc'[t] = pc[t]
    BY <1>9, <1>a DEF Connected
  <2>5. \A s \in Threads : pc'[s] \in Closing \/ pc[s] \in Closing => pc'[s] = pc[s]
    BY <2>3, <2>4 DEF Closing
  <2> QED
    BY <1>8, <2>1, <2>2, <2>5
<1>10. ASSUME NEW t \in Threads, Works(t) PROVE Together' /\ Behind' /\ Someone' /\ Twice' /\ Off'
  <2>1. /\ ready /\ UNCHANGED <<fd, enters>> /\ outcome' = "running"
        /\ SomeoneCloses => Unexcused' \subseteq Unexcused
    BY <1>10 DEF Works
  <2>2. PICK l \in Working : pc' = [pc EXCEPT ![t] = l]
    BY <1>10 DEF Works
  <2>3. pc[t] \notin Closing /\ l \notin Closing
    BY <1>10, <1>e DEF Works
  <2>4. \A s \in Threads : pc'[s] \in Closing \/ pc[s] \in Closing => pc'[s] = pc[s]
    BY <1>a, <2>2, <2>3
  <2> QED
    BY <1>8, <2>1, <2>4
<1>11. CASE HoldReads
  <2>1. ready /\ UNCHANGED <<fd, enters, dev, late, misread>> /\ outcome' = "running"
    BY <1>11 DEF HoldReads, driven
  <2>2. Unexcused' = Unexcused
    BY <2>1 DEF Unexcused
  <2>3. pc["hold"] \in Working /\ \E l \in Working : pc' = [pc EXCEPT !["hold"] = l]
    BY <1>11 DEF HoldReads, Goto, Working
  <2>4. \A s \in Threads : pc'[s] \in Closing \/ pc[s] \in Closing => pc'[s] = pc[s]
    BY <1>a, <1>e, <2>3
  <2> QED
    BY <1>8, <2>1, <2>2, <2>4
<1>12. CASE Stops \/ Others \/ LightChanges
  <2>1. ready /\ UNCHANGED <<fd, pc, enters>> /\ outcome' \in {"running", "return", "killed"}
    BY <1>12 DEF Stops, Others, LightChanges, calls
  <2>2. SomeoneCloses => Unexcused' \subseteq Unexcused
    <3>1. CASE Others
      BY <3>1 DEF Others
    <3>2. CASE UNCHANGED <<dev, late, misread>>
      BY <3>2 DEF Unexcused
    <3> QED
      BY <1>12, <3>1, <3>2 DEF Stops, LightChanges, driven
  <2> QED
    BY <1>8, <2>1, <2>2
<1>13. CASE UNCHANGED vars
  <2>1. ready /\ UNCHANGED <<fd, pc, enters, outcome, dev, late, misread, tail>>
    BY <1>13 DEF vars, calls, driven
  <2>2. AllOpen' = AllOpen /\ AllClosed' = AllClosed /\ Unexcused' = Unexcused
    BY <2>1 DEF AllOpen, AllClosed, Unexcused
  <2> QED
    BY <1>d, <2>1, <2>2 DEF Together, Behind, Someone, SomeoneCloses, Twice, Off, SwitchedOff
<1>14. CASE Restart
  BY <1>14 DEF Restart
<1> QED
  BY <1>1, <1>2, <1>3, <1>4, <1>5, <1>6, <1>7, <1>9, <1>10, <1>11, <1>12, <1>13, <1>14, Kinds DEF Kind
-----------------------------------------------------------------------------
(* The light that the two bytes are of, if nothing came between.           *)
Read ==
  /\ IsFiniteSet(seen)
  /\ pc["hold"] \in {"high", "d_led"} =>
       /\ seen # {}
       /\ \A l \in seen : ~lost /\ seen = {l} =>
            als.low = l[1] /\ (pc["hold"] = "d_led" => als.high = l[2])
  /\ pc["hold"] = "high" => light \in seen

LEMMA ReadInit == Init => Read
BY FS_EmptySet DEF Init, Process, Threads, Read

LEMMA ReadStep == TypeOK /\ Starting /\ Entered /\ Read /\ [Next]_vars => Read'
<1> SUFFICES ASSUME TypeOK, Starting, Entered, Read, [Next]_vars PROVE Read'
  OBVIOUS
<1>a. "main" \in Threads /\ "hold" \in Threads /\ pc \in [Threads -> Labels]
  BY DEF Threads, TypeOK
(* hold stays where it is, or goes where nothing is said of als. *)
<1>1. ASSUME UNCHANGED sensing, pc'["hold"] = pc["hold"] \/ pc'["hold"] \notin {"high", "d_led"}
      PROVE  Read'
  BY <1>1 DEF sensing, Read
<1>2. ASSUME NEW t \in Threads, Fails(t) \/ SwitchOff(t) \/ CloseFds(t) \/ Exit(t) \/ Sigint(t)
      PROVE  Read'
  <2>1. UNCHANGED sensing
    BY <1>2 DEF Fails, SwitchOff, SwitchesOff, CloseFds, Exit, Sigint
  <2>2. pc' = pc \/ \E l \in Closing : pc' = [pc EXCEPT ![t] = l]
    BY <1>2 DEF Fails, EntersClose, Overflows, SwitchOff, SwitchesOff, CloseFds, Exit, Sigint,
                Goto, Closing
  <2>3. pc'["hold"] = pc["hold"] \/ pc'["hold"] \in Closing
    BY <1>a, <2>2
  <2> QED
    BY <1>1, <2>1, <2>3 DEF Closing
<1>3. ASSUME Configured \/ (\E i \in 1..5 : Opened(i)) \/ Connected \/ Stops \/ Others PROVE Read'
  <2>1. UNCHANGED sensing
    BY <1>3 DEF Configured, Opened, Connected, Stops, Others
  <2>2. pc'["hold"] = pc["hold"] \/ pc'["hold"] = "tmp"
    BY <1>3, <1>a DEF Configured, Opened, Connected, Stops, Others, Goto
  <2> QED
    BY <1>1, <2>1, <2>2
<1>4. ASSUME NEW t \in Threads, Works(t) PROVE Read'
  <2>1. UNCHANGED sensing
    BY <1>4 DEF Works
  <2>2. pc'["hold"] = pc["hold"] \/ pc'["hold"] \notin {"high", "d_led"}
    BY <1>4, <1>a DEF Works
  <2> QED
    BY <1>1, <2>1, <2>2
<1>5. ASSUME HoldReads PROVE Read'
  <2>1. PICK ok \in BOOLEAN :
          \/ /\ pc["hold"] = "low" /\ Goto("hold", "high")
             /\ als' = [als EXCEPT !.low = i2c_read_reg(ok, light[1])]
             /\ seen' = {light} /\ lost' = ~ok
          \/ /\ pc["hold"] = "high" /\ (Goto("hold", "d_led") \/ Goto("hold", "sleep"))
             /\ als' = [als EXCEPT !.high = i2c_read_reg(ok, light[2])]
             /\ seen' = seen /\ lost' = (lost \/ ~ok)
    BY <1>5 DEF HoldReads
  <2>2. light' = light
    BY <1>5 DEF HoldReads
  <2>3. CASE pc["hold"] = "low"
    <3>1. /\ pc'["hold"] = "high" /\ seen' = {light} /\ lost' = ~ok
          /\ als' = [als EXCEPT !.low = i2c_read_reg(ok, light[1])]
      BY <1>a, <2>1, <2>3 DEF Goto
    <3>2. ~lost' => als'.low = light[1]
      BY <3>1 DEF TypeOK, i2c_read_reg
    <3>3. IsFiniteSet(seen')
      BY <3>1, FS_Singleton
    <3> QED
      BY <2>2, <3>1, <3>2, <3>3 DEF Read
  <2>4. CASE pc["hold"] = "high"
    <3>1. /\ pc'["hold"] \in {"d_led", "sleep"} /\ seen' = seen /\ lost' = (lost \/ ~ok)
          /\ als' = [als EXCEPT !.high = i2c_read_reg(ok, light[2])]
      BY <1>a, <2>1, <2>4 DEF Goto
    <3>2. /\ ~lost' => als'.high = light[2] /\ ~lost
          /\ als'.low = als.low
      BY <3>1 DEF TypeOK, i2c_read_reg
    <3>3. seen # {} /\ light \in seen /\ IsFiniteSet(seen)
      BY <2>4 DEF Read
    <3>4. ASSUME NEW l \in seen, ~lost', seen = {l} PROVE als'.low = l[1] /\ als'.high = l[2]
      <4>1. light = l
        BY <3>3, <3>4
      <4>2. als.low = l[1]
        BY <2>4, <3>2, <3>4 DEF Read
      <4> QED
        BY <3>2, <3>4, <4>1, <4>2
    <3> QED
      BY <3>1, <3>3, <3>4 DEF Read
  <2> QED
    BY <2>1, <2>3, <2>4
<1>6. ASSUME LightChanges PROVE Read'
  <2>1. /\ UNCHANGED <<pc, als, lost>>
        /\ pc["hold"] \in {"low", "high"}
        /\ seen' = IF pc["hold"] = "high" THEN seen \cup {light'} ELSE seen
    BY <1>6 DEF LightChanges, calls
  <2>2. CASE pc["hold"] = "low"
    BY <2>1, <2>2 DEF Read
  <2>3. CASE pc["hold"] = "high"
    <3>1. seen' = seen \cup {light'} /\ seen # {} /\ IsFiniteSet(seen)
      BY <2>1, <2>3 DEF Read
    <3>2. IsFiniteSet(seen')
      BY <3>1, FS_AddElement
    <3>3. ASSUME NEW l \in seen', seen' = {l}, ~lost PROVE als.low = l[1]
      <4>1. seen = {l}
        BY <3>1, <3>3
      <4> QED
        BY <2>3, <3>3, <4>1 DEF Read
    <3> QED
      BY <2>1, <2>3, <3>1, <3>2, <3>3 DEF Read
  <2> QED
    BY <2>1, <2>2, <2>3
<1>7. ASSUME Restart PROVE Read'
  <2>1. pc'["hold"] = "none" /\ seen' = {}
    BY <1>7, <1>a DEF Restart, Process, Threads
  <2> QED
    BY <2>1, FS_EmptySet DEF Read
<1>8. ASSUME UNCHANGED vars PROVE Read'
  BY <1>8 DEF vars, sensing, Read
<1> QED
  BY <1>2, <1>3, <1>4, <1>5, <1>6, <1>7, <1>8, Kinds DEF Kind
-----------------------------------------------------------------------------
LifeInv == TypeOK /\ Depths /\ Starting /\ Entered /\ Ended /\ Read

LEMMA Life == Spec => []LifeInv
<1>1. Init => LifeInv
  BY TypedInit, StartingInit, EnteredInit, ReadInit DEF LifeInv, Init, Ended
<1>2. LifeInv /\ [Next]_vars => LifeInv'
  BY TypedStep, StartingStep, EnteredStep, EndedStep, ReadStep DEF LifeInv
<1> QED
  BY <1>1, <1>2, PTL DEF Spec

(* client.c:4-37: however many workers there are, and whichever threads    *)
(* met which errors or the signal, a client that had opened its devices    *)
(* and ends by close_device and exit leaves on only what another thread or *)
(* program switched on while it was closing, or a fan that read the "0"    *)
(* with the rest of a text it had refused (fan.c:37-48).                   *)
THEOREM SwitchedOffAtExit == Spec => []OffUnlessLate
<1>1. LifeInv => OffUnlessLate
  BY DEF LifeInv, Ended, OffUnlessLate, Unexcused
<1> QED
  BY <1>1, Life, PTL

(* client.c:12-17: for a stack of any depth, only a second call of         *)
(* close_device, one before the devices were open, or the fan's driver     *)
(* that refuses the "0" for the rest of an earlier text, runs out of it.   *)
THEOREM CrashesExplained == Spec => []CrashExplained
<1>1. LifeInv => CrashExplained
  BY DEF LifeInv, Ended, CrashExplained
<1> QED
  BY <1>1, Life, PTL

(* ap3216.c:84-86, client.c:177-217: a light that stays the same while it  *)
(* is read and is read without error is the light the lamps follow, for    *)
(* any light and any set of dark words.                                    *)
THEOREM LampsFollow == Spec => LampsExplained
<1>1. LifeInv /\ [Next]_vars =>
        [HoldLed /\ fd["led"] = "open" =>
           \/ lost \/ Cardinality(seen) > 1
           \/ \E l \in seen : ("led" \in dev') = (l[1] + 256 * l[2] \in Dark)]_vars
  <2> SUFFICES ASSUME LifeInv, HoldLed, fd["led"] = "open", ~lost, ~(Cardinality(seen) > 1)
               PROVE  \E l \in seen : ("led" \in dev') = (l[1] + 256 * l[2] \in Dark)
    OBVIOUS
  <2>1. IsFiniteSet(seen) /\ seen # {} /\ seen \subseteq Lights /\ pc["hold"] = "d_led"
    BY DEF LifeInv, Read, TypeOK, HoldLed, DriveLed, At
  <2>2. PICK l \in seen : TRUE
    BY <2>1
  <2>3. seen = {l}
    <3>1. Cardinality(seen) \in Nat /\ Cardinality(seen) # 0
      BY <2>1, FS_CardinalityType, FS_EmptySet
    <3>2. Cardinality(seen) = 1
      BY <3>1
    <3>3. \E m : seen = {m}
      BY <2>1, <3>2, FS_Singleton
    <3> QED
      BY <2>2, <3>3
  <2>4. als.low = l[1] /\ als.high = l[2]
    BY <2>1, <2>2, <2>3 DEF LifeInv, Read
  <2>5. l[1] \in Byte /\ l[2] \in Byte
    BY <2>1, <2>2
  <2>6. Als(als.low, als.high) = l[1] + 256 * l[2]
    <3>1. U8(l[1]) = l[1] /\ U8(l[2]) = l[2]
      BY <2>5 DEF U8, Byte
    <3> QED
      BY <2>4, <3>1 DEF Als
  <2>7. ("led" \in dev') = (Als(als.low, als.high) \in Dark)
    BY DEF HoldLed, DriveLed, Tell, Switch, Put
  <2> QED
    BY <2>2, <2>6, <2>7
<1> QED
  BY <1>1, Life, PTL DEF Spec, LampsExplained
-----------------------------------------------------------------------------
(* From here on, Lifecycle: the drivers and the server. *)
HIDE ClientLifeAssumption DEF ClientLifeAssumption

(* A list that follows another. *)
LEMMA Joined ==
  ASSUME NEW a, NEW b, NEW m \in Nat, NEW n \in Nat,
         a = [i \in 1..m |-> a[i]], b = [i \in 1..n |-> b[i]]
  PROVE  /\ Len(a \o b) = m + n /\ a \o b = [i \in 1..(m + n) |-> (a \o b)[i]]
         /\ \A i \in 1..m : (a \o b)[i] = a[i]
         /\ \A i \in 1..n : (a \o b)[m + i] = b[i]
<1> DEFINE S == {a[i] : i \in 1..m} \cup {b[i] : i \in 1..n}
<1>1. a \in [1..m -> S] /\ b \in [1..n -> S]
  OBVIOUS
<1> HIDE DEF S
<1>2. a \in Seq(S) /\ Len(a) = m /\ b \in Seq(S) /\ Len(b) = n
  BY <1>1
<1>3. PICK c : c = a \o b
  OBVIOUS
<1>4. /\ c \in Seq(S) /\ Len(c) = m + n
      /\ \A i \in 1..(m + n) : c[i] = IF i <= m THEN a[i] ELSE b[i - m]
  BY <1>2, <1>3, ConcatProperties
<1>5. c = [i \in 1..(m + n) |-> c[i]]
  BY <1>4
<1>6. ASSUME NEW i \in 1..m PROVE c[i] = a[i]
  <2>1. i \in 1..(m + n) /\ i <= m
    OBVIOUS
  <2> QED BY <1>4, <2>1
<1>7. ASSUME NEW i \in 1..n PROVE c[m + i] = b[i]
  <2>1. PICK k : k = m + i
    OBVIOUS
  <2>2. k \in 1..(m + n) /\ ~(k <= m) /\ k - m = i
    BY <2>1
  <2>3. c[k] = b[k - m]
    BY <1>4, <2>2
  <2> QED BY <2>1, <2>2, <2>3
<1> QED BY <1>3, <1>4, <1>5, <1>6, <1>7

(* The calls of a fan's or motor's driver, one by one. *)
LEMMA PwmInitIs ==
  ASSUME NEW maps, NEW n \in Nat, n = Len(maps)
  PROVE  LET s == PwmInit(maps) IN
         /\ Len(s) = n + 3
         /\ s[1] = Call("register_chrdev", "chrdev", {})
         /\ s[2] = Call("class_create", "class", {"chrdev"})
         /\ s[3] = Call("device_create", "node", {})
         /\ \A i \in 1..n : s[i + 3] = Call("ioremap", maps[i], {})
<1>1. PICK a : a = <<Call("register_chrdev", "chrdev", {}), Call("class_create", "class", {"chrdev"}),
                     Call("device_create", "node", {})>>
  OBVIOUS
<1>2. PICK b : b = [i \in 1..n |-> Call("ioremap", maps[i], {})]
  OBVIOUS
<1>3. /\ a[1] = Call("register_chrdev", "chrdev", {})
      /\ a[2] = Call("class_create", "class", {"chrdev"})
      /\ a[3] = Call("device_create", "node", {})
      /\ a = [i \in 1..3 |-> a[i]]
  BY <1>1
<1>4. b = [i \in 1..n |-> b[i]] /\ \A i \in 1..n : b[i] = Call("ioremap", maps[i], {})
  BY <1>2
<1>5. PICK c : c = a \o b
  OBVIOUS
<1>6. /\ Len(c) = 3 + n /\ c[1] = a[1] /\ c[2] = a[2] /\ c[3] = a[3]
      /\ \A i \in 1..n : c[3 + i] = b[i]
  BY <1>3, <1>4, <1>5, Joined
<1>7. PwmInit(maps) = c
  BY <1>1, <1>2, <1>5 DEF PwmInit
<1>8. \A i \in 1..n : 3 + i = i + 3
  OBVIOUS
<1> QED BY <1>3, <1>4, <1>6, <1>7, <1>8

(* What the calls of a list before the i-th take. *)
Before(s, i) == {s[j].takes : j \in 1..(i - 1)}
Taken(i) == Before(init, i) \ {"nothing"}

(* The calls whose error branches LeftExplained names. *)
Named ==
  CASE sub \in Pwm -> {"ioremap"}
    [] sub = "led" -> {"gpio_direction_output"}
    [] sub \in I2c -> {"class_create", "device_create"}
    [] sub = "server" -> {"create_link", "login_thread", "kill"}

(* The lists fit together: what a failing call finds in hand its branch    *)
(* gives back, or is named; what loading takes unloading gives; the node   *)
(* comes last, but in the fan's and motor's drivers, where only ioremap    *)
(* comes after it; and the server has its queue from the second call on,   *)
(* and never a node.                                                       *)
ListsFit ==
  LET n == Len(init) IN
  /\ n \in Nat
  /\ \A i \in 1..n : init[i].takes \in Resources \cup {"nothing"}
  /\ \A i \in 1..n : <<sub, init[i].call>> \in Ignores => sub \in Pwm /\ init[i].takes = "node"
  /\ \A i \in 1..n : \/ init[i].call \in Named
                     \/ <<sub, init[i].call>> \in Ignores
                     \/ Left(Taken(i) \ init[i].frees) \subseteq OfNodes
  /\ sub # "server" => /\ Len(exit) \in Nat \ {0}
                       /\ Taken(n + 1) \subseteq OfNodes \cup {exit[j] : j \in 1..Len(exit)}
  /\ sub \notin Pwm => \A i \in 1..(n + 1) : "node" \in Taken(i) => Uses \subseteq Taken(i) \ {"node"}
  /\ sub \notin Pwm \cup {"led"} => Uses = {}
  /\ sub \in Pwm => /\ Uses \subseteq Taken(n + 1) \ {"node"}
                    /\ \A i \in 1..n : "node" \in Taken(i) => init[i].call = "ioremap"
  /\ sub = "server" => /\ n > 1
                       /\ \A i \in 1..(n + 1) : i > 2 => "msgid" \in Taken(i)
                       /\ \A i \in 1..(n + 1) : "node" \notin Taken(i)

(* The registers of a fan's or motor's driver. *)
LEMMA MapsAre ==
  ASSUME NEW m, m = FanMaps \/ m = MotorMaps
  PROVE  /\ Len(m) = 11 /\ DOMAIN m = 1..11
         /\ \A i \in 1..11 : m[i] \in Elems(m) /\ m[i] \notin {"nothing", "node", "class", "chrdev"}
         /\ Elems(m) = {m[i] : i \in 1..11} /\ Elems(m) \subseteq Resources
         /\ m = FanMaps => "tim1_ccr1" \in Elems(m)
<1>1. Len(m) = 11 /\ DOMAIN m = 1..11 /\ m = [i \in 1..11 |-> m[i]]
  BY DEF FanMaps, MotorMaps
<1>2. \A i \in 1..11 : \/ i = 1 \/ i = 2 \/ i = 3 \/ i = 4 \/ i = 5 \/ i = 6
                       \/ i = 7 \/ i = 8 \/ i = 9 \/ i = 10 \/ i = 11
  OBVIOUS
<1>3. ASSUME NEW i \in 1..11 PROVE m[i] \notin {"nothing", "node", "class", "chrdev"}
  BY <1>2 DEF FanMaps, MotorMaps
<1>4. Elems(m) = {m[i] : i \in 1..11}
  BY <1>1 DEF Elems
<1>5. m = FanMaps => m[7] = "tim1_ccr1"
  BY DEF FanMaps
<1>6. Elems(m) \subseteq Resources
  BY DEF Resources
<1> QED BY <1>1, <1>3, <1>4, <1>5, <1>6

(* What its unloading gives, in order. *)
LEMMA PwmExitIs ==
  ASSUME NEW m, m = FanMaps \/ m = MotorMaps
  PROVE  LET e == PwmExit(m) IN
         /\ Len(e) = 14 /\ \A i \in 1..11 : e[i] = m[i]
         /\ e[12] = "node" /\ e[13] = "class" /\ e[14] = "chrdev"
<1>1. PICK b : b = <<"node", "class", "chrdev">>
  OBVIOUS
<1>2. b[1] = "node" /\ b[2] = "class" /\ b[3] = "chrdev" /\ b = [i \in 1..3 |-> b[i]]
  BY <1>1
<1>3. m = [i \in 1..11 |-> m[i]]
  BY DEF FanMaps, MotorMaps
<1>4. PICK e : e = m \o b
  OBVIOUS
<1>5. Len(e) = 11 + 3 /\ (\A i \in 1..11 : e[i] = m[i]) /\ \A i \in 1..3 : e[11 + i] = b[i]
  BY <1>2, <1>3, <1>4, Joined
<1>6. PwmExit(m) = e
  BY <1>1, <1>4 DEF PwmExit
<1>7. e[12] = b[1] /\ e[13] = b[2] /\ e[14] = b[3]
  BY <1>5
<1> QED BY <1>2, <1>5, <1>6, <1>7

(* fan.c:85, motor.c:167: only ioremap's failure leaves anything. *)
LEMMA PwmFits ==
  ASSUME sub \in Pwm PROVE ListsFit
<1>1. PICK m : /\ m = FanMaps \/ m = MotorMaps
               /\ init = PwmInit(m) /\ exit = PwmExit(m) /\ Uses \subseteq Elems(m)
  <2>1. CASE sub = "fan"
    BY <2>1, MapsAre DEF init, exit, fan_init, fan_exit, Uses
  <2>2. CASE sub = "motor"
    BY <2>2 DEF init, exit, motor_init, motor_exit, Uses
  <2> QED BY <2>1, <2>2 DEF Pwm
<1>2. /\ Len(m) = 11 /\ Elems(m) = {m[i] : i \in 1..11} /\ Elems(m) \subseteq Resources
      /\ \A i \in 1..11 : m[i] \in Elems(m) /\ m[i] \notin {"nothing", "node", "class", "chrdev"}
  BY <1>1, MapsAre
<1>3. /\ Len(init) = 14
      /\ init[1] = Call("register_chrdev", "chrdev", {})
      /\ init[2] = Call("class_create", "class", {"chrdev"})
      /\ init[3] = Call("device_create", "node", {})
      /\ \A i \in 1..11 : init[i + 3] = Call("ioremap", m[i], {})
  <2>1. PICK n \in Nat : n = 11 /\ n = Len(m)
    BY <1>2
  <2>2. PICK c : c = PwmInit(m)
    OBVIOUS
  <2>3. /\ Len(c) = n + 3
        /\ c[1] = Call("register_chrdev", "chrdev", {})
        /\ c[2] = Call("class_create", "class", {"chrdev"})
        /\ c[3] = Call("device_create", "node", {})
        /\ \A i \in 1..n : c[i + 3] = Call("ioremap", m[i], {})
    BY <2>1, <2>2, PwmInitIs
  <2>4. n + 3 = 14
    BY <2>1
  <2> QED BY <1>1, <2>1, <2>2, <2>3, <2>4
<1>4. /\ init[1].call = "register_chrdev" /\ init[1].takes = "chrdev" /\ init[1].frees = {}
      /\ init[2].call = "class_create" /\ init[2].takes = "class" /\ init[2].frees = {"chrdev"}
      /\ init[3].call = "device_create" /\ init[3].takes = "node"
      /\ \A i \in 1..11 : init[i + 3].call = "ioremap" /\ init[i + 3].takes = m[i]
  BY <1>3 DEF Call
<1>5. ASSUME NEW i \in 1..14
      PROVE  i = 1 \/ i = 2 \/ i = 3 \/ \E k \in 1..11 : i = k + 3
  <2>1. i > 3 => i - 3 \in 1..11 /\ (i - 3) + 3 = i
    OBVIOUS
  <2> QED BY <2>1
<1>6. \A i \in 1..14 : init[i].takes \in {"chrdev", "class", "node"} \cup Elems(m)
  BY <1>2, <1>4, <1>5
<1>7. {"chrdev", "class", "node"} \subseteq Resources
  BY DEF Resources
<1>8. Before(init, 1) = {} /\ Before(init, 2) = {"chrdev"} /\ Before(init, 3) = {"chrdev", "class"}
  BY <1>4 DEF Before
<1>9. Before(init, 15) = {"chrdev", "class", "node"} \cup Elems(m)
  <2>1. Before(init, 15) = {init[i].takes : i \in 1..14}
    BY DEF Before
  <2>2. ASSUME NEW x \in {"chrdev", "class", "node"} \cup Elems(m)
        PROVE  \E i \in 1..14 : x = init[i].takes
    <3>1. CASE x \in Elems(m)
      <4>1. PICK k \in 1..11 : x = m[k]
        BY <1>2, <3>1
      <4>2. k + 3 \in 1..14
        OBVIOUS
      <4> QED BY <1>4, <4>1, <4>2
    <3> QED BY <1>4, <3>1
  <2> QED BY <1>6, <2>1, <2>2
<1>10. /\ Len(exit) = 14 /\ \A i \in 1..11 : exit[i] = m[i]
       /\ exit[12] = "node" /\ exit[13] = "class" /\ exit[14] = "chrdev"
  BY <1>1, PwmExitIs
<1>11. {"chrdev", "class", "node"} \cup Elems(m) \subseteq {exit[j] : j \in 1..14}
  BY <1>2, <1>10
<1>12. /\ sub # "led" /\ sub \notin I2c /\ sub # "server"
       /\ Named = {"ioremap"} /\ \A c : <<sub, c>> \in Ignores <=> c = "device_create"
  <2>1. sub # "led" /\ sub \notin I2c /\ sub # "server"
    BY DEF Pwm, I2c
  <2>2. \A c : <<sub, c>> \in Ignores <=> c = "device_create"
    BY DEF Ignores
  <2>3. Named = {"ioremap"}
    BY <2>1 DEF Named
  <2> QED BY <2>1, <2>2, <2>3
<1>13. ASSUME NEW i \in 1..14
       PROVE  \/ init[i].call \in Named
              \/ <<sub, init[i].call>> \in Ignores
              \/ Left(Taken(i) \ init[i].frees) \subseteq OfNodes
  BY <1>4, <1>5, <1>8, <1>12 DEF Left, Taken
<1>14. ASSUME NEW i \in 1..14, "node" \in Taken(i) PROVE init[i].call = "ioremap"
  BY <1>4, <1>5, <1>8, <1>14 DEF Taken
<1>15. Uses \subseteq Taken(15) \ {"node"}
  BY <1>1, <1>2, <1>9 DEF Taken
<1>16. \A i \in 1..14 : <<sub, init[i].call>> \in Ignores => init[i].takes = "node"
  BY <1>4, <1>5, <1>12
<1>17. Taken(15) \subseteq OfNodes \cup {exit[j] : j \in 1..Len(exit)}
  BY <1>9, <1>10, <1>11 DEF Taken
<1>18. Len(init) \in Nat /\ Len(init) + 1 = 15 /\ 14 \in Nat \ {0}
  BY <1>3
<1>19. \A i \in 1..14 : init[i].takes \in Resources
  BY <1>2, <1>6, <1>7
<1>20. sub # "server" => /\ Len(exit) \in Nat \ {0}
                         /\ Taken(15) \subseteq OfNodes \cup {exit[j] : j \in 1..Len(exit)}
  BY <1>10, <1>17, <1>18
<1> QED BY <1>3, <1>12, <1>13, <1>14, <1>15, <1>16, <1>18, <1>19, <1>20 DEF ListsFit

(* ap3216.c:113, si7006.c:111: class and node leave what was before them. *)
LEMMA I2cFits ==
  ASSUME sub \in I2c PROVE ListsFit
<1>1. /\ init = Probe /\ exit = <<"node", "class", "chrdev">>
      /\ sub \notin Pwm /\ sub # "led" /\ sub # "server"
  BY DEF I2c, Pwm, init, exit, ap3216_probe, si7006_probe, ap3216_remove, si7006_remove
<1>2. Uses = {} /\ Named = {"class_create", "device_create"}
  BY <1>1 DEF Uses, Named, Pwm
<1>3. /\ Len(init) = 3
      /\ init[1].call = "register_chrdev" /\ init[1].takes = "chrdev"
      /\ init[2].call = "class_create" /\ init[2].takes = "class"
      /\ init[3].call = "device_create" /\ init[3].takes = "node"
  BY <1>1 DEF Probe, Call
<1>4. Len(exit) = 3 /\ exit[1] = "node" /\ exit[2] = "class" /\ exit[3] = "chrdev"
  BY <1>1
<1>5. Len(init) \in Nat /\ Len(init) + 1 = 4 /\ \A i \in 1..3 : i = 1 \/ i = 2 \/ i = 3
  BY <1>3
<1>6. Taken(1) = {} /\ Taken(4) \subseteq {"chrdev", "class", "node"}
  BY <1>3, <1>5 DEF Taken, Before
<1>7. \A i \in 1..3 : init[i].takes \in Resources
  BY <1>3, <1>5 DEF Resources
<1>8. ASSUME NEW i \in 1..3
      PROVE  init[i].call \in Named \/ Left(Taken(i) \ init[i].frees) \subseteq OfNodes
  BY <1>1, <1>2, <1>3, <1>5, <1>6 DEF Left
<1>9. Len(exit) \in Nat \ {0} /\ Taken(4) \subseteq {exit[j] : j \in 1..Len(exit)}
  BY <1>4, <1>6
<1>10. \A c : <<sub, c>> \notin Ignores
  BY <1>1 DEF Ignores
<1> QED BY <1>1, <1>2, <1>3, <1>5, <1>7, <1>8, <1>9, <1>10 DEF ListsFit

(* server.c:48: only create_link's failure leaves the queue. *)
LEMMA ServerFits ==
  ASSUME sub = "server" PROVE ListsFit
<1>1. init = server_main /\ sub \notin Pwm /\ sub \notin I2c /\ sub # "led"
  BY DEF I2c, Pwm, init
<1>2. Uses = {} /\ Named = {"create_link", "login_thread", "kill"}
  BY <1>1 DEF Uses, Named, Pwm
<1>3. PICK all : all = {"sockfd", "msgid", "head"}
  OBVIOUS
<1>4. init = <<Call("network_init", "sockfd", {}), Call("msgget", "msgid", {"sockfd"}),
               Call("create_link", "head", {}), Call("sem_init", "linksem", all),
               Call("pthread_create", "insprct_thread", all),
               Call("pthread_create", "login_thread", all)>>
  BY <1>1, <1>3 DEF server_main
<1>5. /\ Len(init) = 6
      /\ init[1].takes = "sockfd"
      /\ init[2].takes = "msgid"
      /\ init[3].call = "create_link" /\ init[3].takes = "head"
      /\ init[4].takes = "linksem" /\ init[4].frees = all
      /\ init[5].takes = "insprct_thread" /\ init[5].frees = all
      /\ init[6].takes = "login_thread" /\ init[6].frees = all
  BY <1>4 DEF Call
<1>6. /\ Len(init) \in Nat /\ Len(init) + 1 = 7 /\ Len(init) > 1
      /\ \A i \in 1..6 : i = 1 \/ i = 2 \/ i = 3 \/ i = 4 \/ i = 5 \/ i = 6
  BY <1>5
<1>7. \A i \in 1..6 : init[i].takes \in Resources
  <2>1. server_main = init
    BY <1>1
  <2>2. \A i \in 1..6 : init[i].takes \in {c.takes : c \in Elems(init)}
    BY <1>5 DEF Elems
  <2> QED BY <2>1, <2>2 DEF Resources
<1>8. \A i \in 1..6 : init[i].takes # "node"
  BY <1>5, <1>6
<1>9. \A i \in 1..7 : "node" \notin Taken(i)
  BY <1>8 DEF Taken, Before
<1>10. ASSUME NEW i \in 1..7, i > 2 PROVE "msgid" \in Taken(i)
  BY <1>5, <1>10 DEF Taken, Before
<1>11. ASSUME NEW i \in 1..6
       PROVE  init[i].call \in Named \/ Left(Taken(i) \ init[i].frees) \subseteq OfNodes
  <2>1. i <= 2 => "msgid" \notin Taken(i)
    BY <1>5 DEF Taken, Before
  <2>2. i <= 2 \/ i = 3 \/ "msgid" \in init[i].frees
    BY <1>3, <1>5, <1>6
  <2> QED BY <1>2, <1>5, <2>1, <2>2 DEF Left
<1>12. \A c : <<sub, c>> \notin Ignores
  BY <1>1 DEF Ignores
<1> QED BY <1>1, <1>2, <1>5, <1>6, <1>7, <1>9, <1>10, <1>11, <1>12 DEF ListsFit

(* What is freed when a call about the j-th line of a group fails. *)
Undo(no, others, j) == others \cup {no[i] : i \in 1..(j - 1)}

(* The three calls for each line of a group. *)
LEMMA GroupIs ==
  ASSUME NEW no, NEW others, NEW s, s = myleds_init_value(no, others)
  PROVE  /\ s = [k \in 1..9 |-> s[k]]
         /\ \A j \in 1..3 :
              /\ s[3 * j - 2] = Call("of_get_named_gpio", "nothing", Undo(no, others, j))
              /\ s[3 * j - 1] = Call("gpio_request", no[j], Undo(no, others, j))
              /\ s[3 * j] = Call("gpio_direction_output", "nothing", Undo(no, others, j))
<1> DEFINE undo(j) == Undo(no, others, j)
<1>1. \A k \in 1..9 : s[k] = CASE k % 3 = 1 -> Call("of_get_named_gpio", "nothing", undo((k + 2) \div 3))
                               [] k % 3 = 2 -> Call("gpio_request", no[(k + 2) \div 3], undo((k + 2) \div 3))
                               [] k % 3 = 0 -> Call("gpio_direction_output", "nothing", undo((k + 2) \div 3))
  BY DEF myleds_init_value, Undo
<1>2. s = [k \in 1..9 |-> s[k]]
  BY DEF myleds_init_value
<1> HIDE DEF undo
<1>3. ASSUME NEW j \in 1..3 
      PROVE  /\ s[3 * j - 2] = Call("of_get_named_gpio", "nothing", undo(j))
             /\ s[3 * j - 1] = Call("gpio_request", no[j], undo(j))
             /\ s[3 * j] = Call("gpio_direction_output", "nothing", undo(j))
  <2>1. PICK k \in 1..9 : k = 3 * j - 2 /\ k % 3 = 1 /\ (k + 2) \div 3 = j
    <3>1. 3 * j - 2 \in 1..9 /\ (3 * j - 2) % 3 = 1 /\ (3 * j - 2 + 2) \div 3 = j
      OBVIOUS
    <3> QED BY <3>1
  <2>2. PICK m \in 1..9 : m = 3 * j - 1 /\ m % 3 = 2 /\ (m + 2) \div 3 = j
    <3>1. 3 * j - 1 \in 1..9 /\ (3 * j - 1) % 3 = 2 /\ (3 * j - 1 + 2) \div 3 = j
      OBVIOUS
    <3> QED BY <3>1
  <2>3. PICK n \in 1..9 : n = 3 * j /\ n % 3 = 0 /\ (n + 2) \div 3 = j
    <3>1. 3 * j \in 1..9 /\ (3 * j) % 3 = 0 /\ (3 * j + 2) \div 3 = j
      OBVIOUS
    <3> QED BY <3>1
  <2>4. s[k] = Call("of_get_named_gpio", "nothing", undo(j))
    BY <1>1, <2>1
  <2>5. s[m] = Call("gpio_request", no[j], undo(j))
    BY <1>1, <2>2
  <2>6. s[n] = Call("gpio_direction_output", "nothing", undo(j))
    BY <1>1, <2>3
  <2> QED BY <2>1, <2>2, <2>3, <2>4, <2>5, <2>6
<1> QED BY <1>2, <1>3 DEF undo

(* The LED driver's lines in the order of their requests. *)
Lines == <<"c1", "c2", "c3", "e1", "e2", "e3">>

(* The two groups of lines, and that nothing else has such a name. *)
LEMMA LinesAre ==
  /\ \A j \in 1..3 : cgpiono[j] = Lines[j] /\ egpiono[j] = Lines[j + 3]
  /\ Elems(cgpiono) = {Lines[i] : i \in 1..3}
  /\ Gpios = {Lines[i] : i \in 1..6}
  /\ \A j \in 1..6 : Lines[j] \notin {"nothing", "node", "class", "chrdev"}
<1>1. \A j \in 1..3 : cgpiono[j] = Lines[j] /\ egpiono[j] = Lines[j + 3]
  BY DEF cgpiono, egpiono, Lines
<1>2. Elems(cgpiono) = {"c1", "c2", "c3"} /\ Elems(egpiono) = {"e1", "e2", "e3"}
  BY DEF cgpiono, egpiono, Elems
<1>3. {Lines[i] : i \in 1..3} = {"c1", "c2", "c3"}
  BY DEF Lines
<1>4. {Lines[i] : i \in 1..6} = {"c1", "c2", "c3", "e1", "e2", "e3"}
  BY DEF Lines
<1>5. \A j \in 1..6 : Lines[j] \in {"c1", "c2", "c3", "e1", "e2", "e3"}
  BY <1>4
<1> QED BY <1>1, <1>2, <1>3, <1>4, <1>5 DEF Gpios

(* The calls for the six lines: each frees the lines before it. *)
LEMMA LedGpiosIs ==
  /\ LedGpios = [k \in 1..18 |-> LedGpios[k]]
  /\ \A j \in 1..6 :
       LET undo == {Lines[i] : i \in 1..(j - 1)}
       IN  /\ LedGpios[3 * j - 2] = Call("of_get_named_gpio", "nothing", undo)
           /\ LedGpios[3 * j - 1] = Call("gpio_request", Lines[j], undo)
           /\ LedGpios[3 * j] = Call("gpio_direction_output", "nothing", undo)
<1>1. PICK a : a = myleds_init_value(cgpiono, {})
  OBVIOUS
<1>2. PICK b : b = myleds_init_value(egpiono, Elems(cgpiono))
  OBVIOUS
<1>3. PICK g : g = a \o b
  OBVIOUS
<1>4. LedGpios = g
  BY <1>1, <1>2, <1>3 DEF LedGpios
<1>5. a = [k \in 1..9 |-> a[k]] /\ b = [k \in 1..9 |-> b[k]]
  BY <1>1, <1>2, GroupIs
<1>6. /\ g = [k \in 1..(9 + 9) |-> g[k]]
      /\ \A k \in 1..9 : g[k] = a[k]
      /\ \A k \in 1..9 : g[9 + k] = b[k]
  BY <1>3, <1>5, Joined
<1>7. ASSUME NEW j \in 1..3, NEW undo, undo = {Lines[i] : i \in 1..(j - 1)}
      PROVE  /\ g[3 * j - 2] = Call("of_get_named_gpio", "nothing", undo)
             /\ g[3 * j - 1] = Call("gpio_request", Lines[j], undo)
             /\ g[3 * j] = Call("gpio_direction_output", "nothing", undo)
  <2>1. PICK none, no : none = {} /\ no = cgpiono
    OBVIOUS
  <2>2. /\ a[3 * j - 2] = Call("of_get_named_gpio", "nothing", undo)
        /\ a[3 * j - 1] = Call("gpio_request", no[j], undo)
        /\ a[3 * j] = Call("gpio_direction_output", "nothing", undo)
    <3>1. \A i \in 1..(j - 1) : no[i] = Lines[i]
      BY <2>1, LinesAre
    <3>2. undo = Undo(no, none, j)
      BY <1>7, <2>1, <3>1 DEF Undo
    <3>3. a = myleds_init_value(no, none)
      BY <1>1, <2>1
    <3> QED BY <3>2, <3>3, GroupIs
  <2>3. 3 * j - 2 \in 1..9 /\ 3 * j - 1 \in 1..9 /\ 3 * j \in 1..9
    OBVIOUS
  <2> QED BY <1>6, <2>1, <2>2, <2>3, LinesAre
<1>8. ASSUME NEW j \in 1..3, NEW undo, undo = {Lines[i] : i \in 1..(j + 3 - 1)}
      PROVE  /\ g[3 * (j + 3) - 2] = Call("of_get_named_gpio", "nothing", undo)
             /\ g[3 * (j + 3) - 1] = Call("gpio_request", Lines[j + 3], undo)
             /\ g[3 * (j + 3)] = Call("gpio_direction_output", "nothing", undo)
  <2>1. undo = Elems(cgpiono) \cup {egpiono[i] : i \in 1..(j - 1)}
    <3>1. \A i \in 1..(j - 1) : egpiono[i] = Lines[i + 3] /\ i + 3 \in 1..(j + 3 - 1)
      BY LinesAre
    <3>2. ASSUME NEW i \in 1..(j + 3 - 1) PROVE i \in 1..3 \/ \E k \in 1..(j - 1) : i = k + 3
      <4>1. i > 3 => i - 3 \in 1..(j - 1) /\ i = (i - 3) + 3
        OBVIOUS
      <4> QED BY <4>1
    <3>3. \A i \in 1..3 : i \in 1..(j + 3 - 1)
      OBVIOUS
    <3> QED BY <1>8, <3>1, <3>2, <3>3, LinesAre
  <2>2. /\ b[3 * j - 2] = Call("of_get_named_gpio", "nothing", undo)
        /\ b[3 * j - 1] = Call("gpio_request", egpiono[j], undo)
        /\ b[3 * j] = Call("gpio_direction_output", "nothing", undo)
    <3>1. PICK no, others : no = egpiono /\ others = Elems(cgpiono)
      OBVIOUS
    <3>2. b = myleds_init_value(no, others)
      BY <1>2, <3>1
    <3>3. undo = Undo(no, others, j)
      BY <2>1, <3>1 DEF Undo
    <3> QED BY <3>1, <3>2, <3>3, GroupIs
  <2>3. /\ 3 * j - 2 \in 1..9 /\ 3 * j - 1 \in 1..9 /\ 3 * j \in 1..9
        /\ 3 * (j + 3) - 2 = 9 + (3 * j - 2) /\ 3 * (j + 3) - 1 = 9 + (3 * j - 1)
        /\ 3 * (j + 3) = 9 + 3 * j
    OBVIOUS
  <2>4. g[9 + (3 * j - 2)] = b[3 * j - 2] /\ g[9 + (3 * j - 1)] = b[3 * j - 1] /\ g[9 + 3 * j] = b[3 * j]
    BY <1>6, <2>3
  <2> QED BY <2>2, <2>3, <2>4, LinesAre
<1>9. ASSUME NEW j \in 1..6, NEW undo, undo = {Lines[i] : i \in 1..(j - 1)}
      PROVE  /\ g[3 * j - 2] = Call("of_get_named_gpio", "nothing", undo)
             /\ g[3 * j - 1] = Call("gpio_request", Lines[j], undo)
             /\ g[3 * j] = Call("gpio_direction_output", "nothing", undo)
  <2>1. CASE j \in 1..3
    BY <1>7, <1>9, <2>1
  <2>2. CASE j \notin 1..3
    <3>1. PICK m \in 1..3 : j = m + 3
      <4>1. j - 3 \in 1..3 /\ j = (j - 3) + 3
        BY <2>2
      <4> QED BY <4>1
    <3> QED BY <1>8, <1>9, <3>1
  <2> QED BY <2>1, <2>2
<1>10. 9 + 9 = 18
  OBVIOUS
<1> QED BY <1>4, <1>6, <1>9, <1>10

(* led.c:145: only the direction of a line leaves anything, the line itself. *)
LEMMA LedFits ==
  ASSUME sub = "led" PROVE ListsFit
<1>1. /\ init = myleds_init /\ exit = myleds_exit /\ Uses = Gpios
      /\ sub \notin Pwm /\ sub \notin I2c /\ sub # "server" /\ Named = {"gpio_direction_output"}
  BY DEF I2c, Pwm, init, exit, Uses, Named
<1>2. PICK a : a = get_led_node
  OBVIOUS
<1>3. PICK b : b = LedGpios
  OBVIOUS
<1>4. PICK c : c = LedNode
  OBVIOUS
<1>5. /\ a = [k \in 1..3 |-> a[k]]
      /\ \A k \in 1..3 : a[k].takes \in OfNodes /\ a[k].frees = {}
  BY <1>2 DEF get_led_node, Call, OfNodes
<1>6. /\ b = [k \in 1..18 |-> b[k]]
      /\ \A j \in 1..6 : \A undo :
           undo = {Lines[i] : i \in 1..(j - 1)} =>
             /\ b[3 * j - 2] = Call("of_get_named_gpio", "nothing", undo)
             /\ b[3 * j - 1] = Call("gpio_request", Lines[j], undo)
             /\ b[3 * j] = Call("gpio_direction_output", "nothing", undo)
  BY <1>3, LedGpiosIs
<1>7. /\ c = [k \in 1..3 |-> c[k]]
      /\ c[1] = Call("register_chrdev", "chrdev", Gpios)
      /\ c[2] = Call("class_create", "class", Gpios \cup {"chrdev"})
      /\ c[3] = Call("device_create", "node", Gpios \cup {"chrdev", "class"})
  BY <1>4 DEF LedNode
<1>8. PICK d : d = a \o b
  OBVIOUS
<1>9. PICK e : e = d \o c
  OBVIOUS
<1>10. init = e
  BY <1>1, <1>2, <1>3, <1>4, <1>8, <1>9 DEF myleds_init
<1>11. /\ d = [k \in 1..21 |-> d[k]]
       /\ \A k \in 1..3 : d[k] = a[k]
       /\ \A k \in 1..18 : d[3 + k] = b[k]
  <2>1. /\ d = [k \in 1..(3 + 18) |-> d[k]]
        /\ \A k \in 1..3 : d[k] = a[k]
        /\ \A k \in 1..18 : d[3 + k] = b[k]
    <3>1. a = [k \in 1..3 |-> a[k]] /\ b = [k \in 1..18 |-> b[k]]
      BY <1>5, <1>6
    <3> QED BY <1>8, <3>1, Joined
  <2>2. 3 + 18 = 21
    OBVIOUS
  <2> QED BY <2>1, <2>2
<1>12. /\ Len(e) = 24
       /\ \A k \in 1..21 : e[k] = d[k]
       /\ \A k \in 1..3 : e[21 + k] = c[k]
  BY <1>7, <1>9, <1>11, Joined
<1>13. \A k \in 1..3 : e[k].takes \in OfNodes /\ e[k].frees = {}
  BY <1>5, <1>11, <1>12
<1>14. ASSUME NEW j \in 1..6, NEW undo, undo = {Lines[i] : i \in 1..(j - 1)}
       PROVE  /\ e[3 * j + 1].takes = "nothing" /\ e[3 * j + 1].frees = undo
              /\ e[3 * j + 2].takes = Lines[j] /\ e[3 * j + 2].frees = undo
              /\ e[3 * j + 3].takes = "nothing" /\ e[3 * j + 3].call = "gpio_direction_output"
  <2>1. /\ 3 * j - 2 \in 1..18 /\ 3 * j - 1 \in 1..18 /\ 3 * j \in 1..18
        /\ 3 * j + 1 = 3 + (3 * j - 2) /\ 3 * j + 2 = 3 + (3 * j - 1) /\ 3 * j + 3 = 3 + 3 * j
        /\ 3 * j + 1 \in 1..21 /\ 3 * j + 2 \in 1..21 /\ 3 * j + 3 \in 1..21
    OBVIOUS
  <2>2. e[3 * j + 1] = b[3 * j - 2] /\ e[3 * j + 2] = b[3 * j - 1] /\ e[3 * j + 3] = b[3 * j]
    BY <1>11, <1>12, <2>1
  <2>3. /\ b[3 * j - 2] = Call("of_get_named_gpio", "nothing", undo)
        /\ b[3 * j - 1] = Call("gpio_request", Lines[j], undo)
        /\ b[3 * j] = Call("gpio_direction_output", "nothing", undo)
    BY <1>6, <1>14
  <2> QED BY <2>2, <2>3 DEF Call
<1>15. /\ e[22].takes = "chrdev" /\ e[22].frees = Gpios
       /\ e[23].takes = "class" /\ e[23].frees = Gpios \cup {"chrdev"}
       /\ e[24].takes = "node" /\ e[24].frees = Gpios \cup {"chrdev", "class"}
  <2>1. e[21 + 1] = c[1] /\ e[21 + 2] = c[2] /\ e[21 + 3] = c[3]
    BY <1>12
  <2>2. 21 + 1 = 22 /\ 21 + 2 = 23 /\ 21 + 3 = 24
    OBVIOUS
  <2> QED BY <1>7, <2>1, <2>2 DEF Call
<1>16. ASSUME NEW k \in 1..24
       PROVE  \/ k \in 1..3 \/ k = 22 \/ k = 23 \/ k = 24
              \/ \E j \in 1..6 : k = 3 * j + 1 \/ k = 3 * j + 2 \/ k = 3 * j + 3
  <2>1. CASE k \in 4..21
    <3>1. PICK j : j = (k - 1) \div 3
      OBVIOUS
    <3>2. j \in 1..6 /\ (k = 3 * j + 1 \/ k = 3 * j + 2 \/ k = 3 * j + 3)
      BY <2>1, <3>1
    <3> QED BY <3>2
  <2> QED BY <2>1
<1>17. ASSUME NEW k \in 1..24
       PROVE  \/ e[k].takes \in OfNodes \cup {"nothing"}
              \/ \E j \in 1..6 : k = 3 * j + 2 /\ e[k].takes = Lines[j]
              \/ k = 22 /\ e[k].takes = "chrdev"
              \/ k = 23 /\ e[k].takes = "class"
              \/ k = 24 /\ e[k].takes = "node"
  <2>1. CASE k \in 1..3
    BY <1>13, <2>1
  <2>2. ASSUME NEW j \in 1..6, k = 3 * j + 1 \/ k = 3 * j + 2 \/ k = 3 * j + 3
        PROVE  e[k].takes = "nothing" \/ (k = 3 * j + 2 /\ e[k].takes = Lines[j])
    <3>1. PICK undo : undo = {Lines[i] : i \in 1..(j - 1)}
      OBVIOUS
    <3>2. PICK x, y, z : x = 3 * j + 1 /\ y = 3 * j + 2 /\ z = 3 * j + 3
      OBVIOUS
    <3>3. e[x].takes = "nothing" /\ e[y].takes = Lines[j] /\ e[z].takes = "nothing"
      BY <1>14, <3>1, <3>2
    <3>4. k = x \/ k = y \/ k = z
      BY <2>2, <3>2
    <3> QED BY <3>2, <3>3, <3>4
  <2> QED BY <1>15, <1>16, <2>1, <2>2
<1>18. ASSUME NEW j \in 1..6, NEW k \in 1..24, k < 3 * j + 2
       PROVE  e[k].takes \in OfNodes \cup {"nothing"} \cup {Lines[i] : i \in 1..(j - 1)}
  <2>1. k # 22 /\ k # 23 /\ k # 24
    BY <1>18
  <2>2. ASSUME NEW i \in 1..6, k = 3 * i + 2 PROVE i \in 1..(j - 1)
    BY <1>18, <2>2
  <2> QED BY <1>17, <2>1, <2>2
<1>19. \A k \in 1..21 : e[k].takes \in OfNodes \cup {"nothing"} \cup Gpios
  BY <1>17, LinesAre
<1>20. \A k \in 1..24 : e[k].takes \in OfNodes \cup {"nothing", "chrdev", "class", "node"} \cup Gpios
  BY <1>17, LinesAre
<1>21. Len(init) \in Nat /\ Len(init) + 1 = 25
  BY <1>10, <1>12
<1>22. \A i : Taken(i) = {e[k].takes : k \in 1..(i - 1)} \ {"nothing"}
  BY <1>10 DEF Taken, Before
<1>23. ASSUME NEW i \in 1..24
       PROVE  e[i].call \in Named \/ Taken(i) \ e[i].frees \subseteq OfNodes
  <2>1. CASE i \in 1..3
    BY <1>13, <1>22, <2>1
  <2>2. ASSUME NEW j \in 1..6, i = 3 * j + 1 \/ i = 3 * j + 2
        PROVE  Taken(i) \ e[i].frees \subseteq OfNodes
    <3>1. PICK undo : undo = {Lines[m] : m \in 1..(j - 1)}
      OBVIOUS
    <3>2. e[i].frees = undo
      <4>1. PICK x, y : x = 3 * j + 1 /\ y = 3 * j + 2
        OBVIOUS
      <4>2. e[x].frees = undo /\ e[y].frees = undo
        BY <1>14, <3>1, <4>1
      <4> QED BY <2>2, <4>1, <4>2
    <3>3. \A k \in 1..(i - 1) : k \in 1..24 /\ k < 3 * j + 2
      BY <2>2
    <3>4. \A k \in 1..(i - 1) : e[k].takes \in OfNodes \cup {"nothing"} \cup undo
      BY <1>18, <3>1, <3>3
    <3> QED BY <1>22, <3>2, <3>4
  <2>3. ASSUME NEW j \in 1..6, i = 3 * j + 3 PROVE e[i].call \in Named
    BY <1>1, <1>14, <2>3
  <2>4. CASE i = 22
    BY <1>15, <1>19, <1>22, <2>4
  <2>5. CASE i = 23
    <3>1. \A k \in 1..22 : k \in 1..21 \/ k = 22
      OBVIOUS
    <3> QED BY <1>15, <1>19, <1>22, <2>5, <3>1
  <2>6. CASE i = 24
    <3>1. \A k \in 1..23 : k \in 1..21 \/ k = 22 \/ k = 23
      OBVIOUS
    <3> QED BY <1>15, <1>19, <1>22, <2>6, <3>1
  <2> QED BY <1>16, <2>1, <2>2, <2>3, <2>4, <2>5, <2>6
<1>24. Gpios \subseteq Taken(25) \ {"node"}
  <2>1. ASSUME NEW x \in Gpios PROVE x \in Taken(25) \ {"node"}
    <3>1. PICK j \in 1..6 : x = Lines[j]
      BY LinesAre
    <3>2. PICK undo : undo = {Lines[m] : m \in 1..(j - 1)}
      OBVIOUS
    <3>3. PICK k : k = 3 * j + 2
      OBVIOUS
    <3>4. k \in 1..24 /\ k \in 1..(25 - 1)
      BY <3>3
    <3>5. e[k].takes = x
      BY <1>14, <3>1, <3>2, <3>3
    <3>6. x \notin {"nothing", "node"}
      BY <3>1, LinesAre
    <3> QED BY <1>22, <3>4, <3>5, <3>6
  <2> QED BY <2>1
<1>25. ASSUME NEW i \in 1..25, "node" \in Taken(i) PROVE i = 25
  <2>1. PICK k \in 1..(i - 1) : e[k].takes = "node"
    BY <1>22, <1>25
  <2>2. k \in 1..24
    BY <2>1
  <2>3. k = 24
    <3>1. "node" \notin OfNodes \cup {"nothing"} /\ \A j \in 1..6 : Lines[j] # "node"
      BY LinesAre DEF OfNodes
    <3> QED BY <1>17, <2>1, <2>2, <3>1
  <2> QED BY <2>1, <2>3
<1>26. \A i \in 1..24 : e[i].takes \in Resources \cup {"nothing"}
  BY <1>20 DEF Resources
<1>27. Len(exit) \in Nat \ {0} /\ Taken(25) \subseteq OfNodes \cup {exit[j] : j \in 1..Len(exit)}
  <2>1. PICK u : u = <<"node", "class", "chrdev">>
    OBVIOUS
  <2>2. PICK v : v = u \o egpiono
    OBVIOUS
  <2>3. PICK x : x = v \o cgpiono
    OBVIOUS
  <2>4. /\ u = [k \in 1..3 |-> u[k]] /\ u[1] = "node" /\ u[2] = "class" /\ u[3] = "chrdev"
        /\ egpiono = [k \in 1..3 |-> egpiono[k]] /\ cgpiono = [k \in 1..3 |-> cgpiono[k]]
    BY <2>1 DEF egpiono, cgpiono
  <2>5. /\ v = [k \in 1..6 |-> v[k]]
        /\ \A k \in 1..3 : v[k] = u[k]
        /\ \A k \in 1..3 : v[3 + k] = egpiono[k]
    <3>1. /\ v = [k \in 1..(3 + 3) |-> v[k]]
          /\ \A k \in 1..3 : v[k] = u[k]
          /\ \A k \in 1..3 : v[3 + k] = egpiono[k]
      BY <2>2, <2>4, Joined
    <3>2. 3 + 3 = 6
      OBVIOUS
    <3> QED BY <3>1, <3>2
  <2>6. /\ Len(x) = 9
        /\ \A k \in 1..6 : x[k] = v[k]
        /\ \A k \in 1..3 : x[6 + k] = cgpiono[k]
    BY <2>3, <2>4, <2>5, Joined
  <2>7. exit = x
    BY <1>1, <2>1, <2>2, <2>3 DEF myleds_exit
  <2>8. {"node", "class", "chrdev"} \subseteq {x[j] : j \in 1..9}
    <3>1. x[1] = u[1] /\ x[2] = u[2] /\ x[3] = u[3]
      BY <2>5, <2>6
    <3> QED BY <2>4, <3>1
  <2>9. Gpios \subseteq {x[j] : j \in 1..9}
    <3>1. \A k \in 1..3 : 6 + k \in 1..9 /\ 3 + k \in 1..9 /\ 3 + k \in 1..6
      OBVIOUS
    <3>2. \A k \in 1..3 : x[3 + k] = egpiono[k]
      BY <2>5, <2>6, <3>1
    <3>3. /\ Elems(cgpiono) = {cgpiono[k] : k \in 1..3}
          /\ Elems(egpiono) = {egpiono[k] : k \in 1..3}
      BY DEF Elems, cgpiono, egpiono
    <3> QED BY <2>6, <3>1, <3>2, <3>3 DEF Gpios
  <2>10. Taken(25) \subseteq OfNodes \cup {"chrdev", "class", "node"} \cup Gpios
    BY <1>20, <1>22
  <2>11. Taken(25) \subseteq OfNodes \cup {x[j] : j \in 1..9}
    BY <2>8, <2>9, <2>10
  <2>12. Len(exit) = 9 /\ 9 \in Nat \ {0}
    BY <2>6, <2>7
  <2> QED BY <2>7, <2>11, <2>12
<1>28. \A t : <<sub, t>> \notin Ignores
  BY <1>1 DEF Ignores
<1>29. \A r : Left(r) = r
  BY <1>1 DEF Left
<1>30. /\ \A i \in 1..24 : init[i] = e[i]
       /\ Len(init) = 24
  BY <1>10, <1>12
<1>31. \A i \in 1..24 : init[i].takes \in Resources \cup {"nothing"}
  BY <1>26, <1>30
<1>32. \A i \in 1..24 : init[i].call \in Named \/ Left(Taken(i) \ init[i].frees) \subseteq OfNodes
  BY <1>23, <1>29, <1>30
<1>33. \A i \in 1..25 : "node" \in Taken(i) => Uses \subseteq Taken(i) \ {"node"}
  BY <1>1, <1>24, <1>25
<1> QED BY <1>1, <1>21, <1>27, <1>28, <1>30, <1>31, <1>32, <1>33 DEF ListsFit

(* Every subject's lists fit together. *)
LEMMA Fits ==
  ASSUME sub \in Subjects PROVE ListsFit
  BY PwmFits, I2cFits, LedFits, ServerFits DEF Subjects

(* What is in hand, or has been, of what was taken until now. *)
Due == Taken(IF st = "loading" THEN pos ELSE Len(init) + 1)

(* What a subject has while it is loading or live: all that it has asked   *)
(* for, but perhaps the node.                                              *)
Loading ==
  /\ st = "loading" => pos \in 1..(Len(init) + 1)
  /\ st \in {"loading", "live"} => held \subseteq Due /\ Due \ {"node"} \subseteq held

(* What it still has while it is unloading: what the rest of the list gives. *)
Unloading ==
  /\ st = "unloading" => /\ sub # "server" /\ pos \in 1..Len(exit)
                         /\ held \subseteq OfNodes \cup {exit[j] : j \in pos..Len(exit)}
  /\ st = "unbound" => sub \in I2c

(* When the device can be open. *)
Files ==
  /\ sub \notin I2c /\ st = "out" => opens = 0
  /\ sub \notin I2c /\ st \in {"loading", "live"} /\ opens > 0 => "node" \in Due
  /\ sub \in Pwm /\ st = "unloading" => opens = 0
  /\ sub \in Pwm /\ stale > 0 => "ioremap" \in failed

(* LeftExplained without the types, by the name of the calls. *)
Explained == leaked \ OfNodes # {} => failed \cap Named # {}

IInv == LifecycleTypeOK /\ Explained /\ Loading /\ Unloading /\ Files

(* The subject stays the same, and with it its lists. *)
LEMMA SameLists ==
  ASSUME sub' = sub
  PROVE  /\ init' = init /\ exit' = exit /\ Named' = Named
         /\ \A i : Taken(i)' = Taken(i)
<1>1. init' = init /\ exit' = exit
  BY DEF init, exit
<1>2. Named' = Named
  BY DEF Named
<1> QED BY <1>1, <1>2 DEF Taken, Before

(* A call takes one resource more, or nothing. *)
LEMMA TakenNext ==
  ASSUME NEW i \in Nat \ {0}
  PROVE  Taken(i + 1) = (Taken(i) \cup {init[i].takes}) \ {"nothing"}
<1>1. \A j : j \in 1..((i + 1) - 1) <=> (j \in 1..(i - 1) \/ j = i)
  OBVIOUS
<1>2. Taken(i + 1) = {init[j].takes : j \in 1..((i + 1) - 1)} \ {"nothing"}
  BY DEF Taken, Before
<1>3. Taken(i) = {init[j].takes : j \in 1..(i - 1)} \ {"nothing"}
  BY DEF Taken, Before
<1> QED BY <1>1, <1>2, <1>3

(* Nothing is taken before the first call. *)
LEMMA TakenFirst == Taken(1) = {}
  BY DEF Taken, Before

(* Nothing is held, left or open when it starts. *)
LEMMA Start == LifecycleInit => IInv
<1> SUFFICES ASSUME LifecycleInit PROVE IInv
  OBVIOUS
<1>1. LifecycleTypeOK
  BY LifecycleAssumption DEF LifecycleAssumption, LifecycleInit, LifecycleTypeOK
<1> QED BY <1>1 DEF LifecycleInit, IInv, Explained, Loading, Unloading, Files

(* A subject that ends with r in hand keeps the invariant if what stays of *)
(* r is explained, and so is an open file of a fan's or motor's driver.    *)
LEMMA EndsKeeps ==
  ASSUME IInv, NEW r, r \subseteq held, Ends(r), sub' = sub,
         failed \subseteq failed', faults' = faults,
         Left(r) \subseteq OfNodes \/ failed' \cap Named # {},
         sub \in Pwm /\ opens > 0 => "ioremap" \in failed'
  PROVE  IInv'
<1>1. st' \in {"out", "unbound"} /\ (st' = "unbound" <=> sub \in I2c) /\ held' = {}
  BY DEF Ends
<1>2. Named' = Named
  BY SameLists
<1>3. leaked' = leaked \cup Left(r) /\ Left(r) \subseteq r
  BY DEF Ends, Left
<1>4. Explained'
  BY <1>2, <1>3 DEF IInv, Explained
<1>5. /\ opens' \in Nat /\ stale' \in Nat /\ opens' + stale' <= MaxOpen
      /\ sub \notin I2c => opens' = 0 /\ stale' = stale + opens
      /\ sub \in I2c => stale' = stale
  BY DEF IInv, LifecycleTypeOK, Ends
<1>6. LifecycleTypeOK'
  BY <1>1, <1>3, <1>5 DEF IInv, LifecycleTypeOK, Ends
<1>7. sub \in Pwm => sub \notin I2c
  BY DEF Pwm, I2c
<1>8. sub \in Pwm /\ stale' > 0 => "ioremap" \in failed'
  BY <1>5, <1>7 DEF IInv, Files, LifecycleTypeOK
<1>9. Files'
  BY <1>1, <1>5, <1>8 DEF Files
<1>10. Loading' /\ Unloading'
  BY <1>1 DEF Loading, Unloading
<1> QED BY <1>4, <1>6, <1>9, <1>10 DEF IInv

(* A file is opened or closed, and nothing else changes but the faults. *)
LEMMA FilesKeep ==
  ASSUME IInv, UNCHANGED <<sub, st, pos, held, leaked, failed>>,
         opens' \in Nat, stale' \in Nat, opens' + stale' <= MaxOpen, stale' <= stale,
         faults' \subseteq {"null", "freed", "not_owned", "foreign"},
         opens' <= opens \/ ("node" \in held /\ ~(sub \in Pwm /\ st = "unloading"))
  PROVE  IInv'
<1>1. LifecycleTypeOK'
  BY DEF IInv, LifecycleTypeOK
<1>2. Due' = Due /\ Named' = Named /\ init' = init /\ exit' = exit
  BY SameLists DEF Due, Taken, Before
<1>3. Explained' /\ Loading' /\ Unloading'
  BY <1>2 DEF IInv, Explained, Loading, Unloading
<1>4. opens \in Nat /\ stale \in Nat
  BY DEF IInv, LifecycleTypeOK
<1>5. ASSUME opens' > opens
      PROVE  /\ ~(st = "out") /\ ~(sub \in Pwm /\ st = "unloading")
             /\ st \in {"loading", "live"} => "node" \in Due
  BY <1>4, <1>5 DEF IInv, LifecycleTypeOK, Loading
<1>6. opens' > opens \/ (opens > 0 <=> opens' > 0) \/ opens' = 0
  BY <1>4
<1>7. opens' <= opens => (opens' > 0 => opens > 0) /\ (opens = 0 => opens' = 0)
  BY <1>4
<1>8. opens' > opens \/ opens' <= opens
  BY <1>4
<1>9. /\ sub \notin I2c /\ st = "out" => opens' = 0
      /\ sub \notin I2c /\ st \in {"loading", "live"} /\ opens' > 0 => "node" \in Due
      /\ sub \in Pwm /\ st = "unloading" => opens' = 0
  BY <1>5, <1>7, <1>8 DEF IInv, Files
<1>10. stale' > 0 => stale > 0
  BY <1>4
<1> QED BY <1>1, <1>2, <1>3, <1>9, <1>10 DEF IInv, Files

(* Every step keeps the invariant. *)
LEMMA Step == IInv /\ [LifecycleNext]_lifecycleVars => IInv'
<1> SUFFICES ASSUME IInv, [LifecycleNext]_lifecycleVars PROVE IInv'
  OBVIOUS
<1>1. ListsFit /\ LifecycleTypeOK /\ Explained /\ Loading /\ Unloading /\ Files
  BY Fits DEF IInv, LifecycleTypeOK
<1>2. PICK n \in Nat : n = Len(init)
  BY <1>1 DEF ListsFit
<1>3. ASSUME sub' = sub
      PROVE  /\ init' = init /\ exit' = exit /\ Named' = Named
             /\ Due' = Taken(IF st' = "loading" THEN pos' ELSE n + 1)
             /\ Due = Taken(IF st = "loading" THEN pos ELSE n + 1)
  BY <1>2, <1>3, SameLists DEF Due, Taken, Before
<1>4. ASSUME st' = "loading", pos' = 1, st \in {"out", "unbound"},
             UNCHANGED <<sub, held, leaked, failed, opens, stale, faults>>
      PROVE  IInv'
  <2>1. held = {} /\ LifecycleTypeOK'
    BY <1>1, <1>4 DEF LifecycleTypeOK
  <2>2. Due' = {} /\ Named' = Named /\ init' = init
    BY <1>3, <1>4, TakenFirst
  <2>3. Explained' /\ Loading' /\ Unloading'
    BY <1>1, <1>2, <1>4, <2>1, <2>2 DEF Explained, Loading, Unloading
  <2>4. sub \notin I2c => opens = 0
    BY <1>1, <1>4 DEF Unloading, Files
  <2>5. Files'
    BY <1>1, <1>4, <2>4 DEF Files, LifecycleTypeOK
  <2> QED BY <2>1, <2>3, <2>5 DEF IInv
<1>5. CASE Load
  BY <1>4, <1>5 DEF Load
<1>6. CASE Bind
  BY <1>4, <1>6 DEF Bind
<1>7. CASE Take
  <2>1. /\ st = "loading" /\ st' = "loading" /\ pos \in 1..n /\ pos' = pos + 1
        /\ held' = (held \cup {init[pos].takes}) \ {"nothing"} /\ leaked' \subseteq leaked
        /\ UNCHANGED <<sub, failed, opens, stale, faults>>
    BY <1>1, <1>2, <1>7 DEF Take, Loading
  <2>2. init[pos].takes \in Resources \cup {"nothing"}
    BY <1>1, <1>2, <2>1 DEF ListsFit
  <2>3. LifecycleTypeOK'
    BY <1>1, <2>1, <2>2 DEF LifecycleTypeOK
  <2>4. Due' = (Due \cup {init[pos].takes}) \ {"nothing"}
    <3>1. Due' = Taken(pos + 1) /\ Due = Taken(pos)
      BY <1>3, <2>1
    <3> QED BY <2>1, <3>1, TakenNext
  <2>5. Loading'
    <3>1. pos + 1 \in 1..(n + 1)
      BY <2>1
    <3>2. "nothing" \notin Due
      BY DEF Due, Taken
    <3> QED BY <1>1, <1>2, <1>3, <2>1, <2>4, <3>1, <3>2 DEF Loading
  <2>6. Explained' /\ Unloading'
    BY <1>1, <1>3, <2>1 DEF Explained, Unloading
  <2>7. Files'
    BY <1>1, <2>1, <2>4 DEF Files
  <2> QED BY <2>3, <2>5, <2>6, <2>7 DEF IInv
<1>8. CASE Fail
  <2>1. /\ st = "loading" /\ pos \in 1..n /\ failed' = failed \cup {init[pos].call}
        /\ UNCHANGED <<sub, faults>>
    BY <1>1, <1>2, <1>8 DEF Fail, Loading
  <2>2. CASE <<sub, init[pos].call>> \in Ignores
    <3>1. st' = "loading" /\ pos' = pos + 1 /\ UNCHANGED <<held, leaked, opens, stale>>
      BY <1>8, <2>1, <2>2 DEF Fail
    <3>2. sub \in Pwm /\ init[pos].takes = "node"
      BY <1>1, <1>2, <2>1, <2>2 DEF ListsFit
    <3>3. Due' = Due \cup {"node"}
      <4>1. Due' = Taken(pos + 1) /\ Due = Taken(pos) /\ "nothing" \notin Due
        BY <1>3, <2>1, <3>1 DEF Taken
      <4> QED BY <2>1, <3>2, <4>1, TakenNext
    <3>4. pos + 1 \in 1..(n + 1)
      BY <2>1
    <3>5. Loading'
      BY <1>1, <1>2, <1>3, <2>1, <3>1, <3>3, <3>4 DEF Loading
    <3>6. Explained' /\ Unloading' /\ Files'
      BY <1>1, <1>3, <2>1, <3>1, <3>3 DEF Explained, Unloading, Files
    <3>7. LifecycleTypeOK'
      BY <1>1, <2>1, <3>1 DEF LifecycleTypeOK
    <3> QED BY <3>5, <3>6, <3>7 DEF IInv
  <2>3. CASE <<sub, init[pos].call>> \notin Ignores
    <3>1. PICK r : r = held \ init[pos].frees
      OBVIOUS
    <3>2. Ends(r)
      BY <1>8, <2>3, <3>1 DEF Fail
    <3>3. init[pos].call \in Named \/ Left(Taken(pos) \ init[pos].frees) \subseteq OfNodes
      BY <1>1, <1>2, <2>1, <2>3 DEF ListsFit
    <3>4. held \subseteq Taken(pos)
      BY <1>1, <2>1 DEF Loading, Due
    <3>5. Left(r) \subseteq Left(Taken(pos) \ init[pos].frees)
      BY <3>1, <3>4 DEF Left
    <3>6. sub \in Pwm /\ opens > 0 => init[pos].call = "ioremap"
      <4>1. sub \in Pwm => sub \notin I2c
        BY DEF Pwm, I2c
      <4>2. sub \in Pwm /\ opens > 0 => "node" \in Taken(pos)
        BY <1>1, <2>1, <4>1 DEF Files, Due
      <4> QED BY <1>1, <1>2, <2>1, <4>2 DEF ListsFit
    <3>7. /\ r \subseteq held /\ failed \subseteq failed'
          /\ Left(r) \subseteq OfNodes \/ failed' \cap Named # {}
          /\ sub \in Pwm /\ opens > 0 => "ioremap" \in failed'
      BY <2>1, <3>1, <3>3, <3>5, <3>6
    <3> QED BY <2>1, <3>2, <3>7, EndsKeeps
  <2> QED BY <2>2, <2>3
<1>9. CASE Loaded
  <2>1. /\ st = "loading" /\ st' = "live" /\ pos = n + 1
        /\ UNCHANGED <<sub, pos, held, leaked, failed, opens, stale, faults>>
    BY <1>1, <1>2, <1>9 DEF Loaded, Loading
  <2>2. Due' = Due
    BY <1>3, <2>1
  <2> QED BY <1>1, <1>3, <2>1, <2>2 DEF IInv, LifecycleTypeOK, Explained, Loading, Unloading, Files
<1>10. CASE Unload
  <2>1. /\ st = "live" /\ st' = "unloading" /\ sub # "server" /\ pos' = 1
        /\ sub \in Pwm => opens = 0
        /\ UNCHANGED <<sub, held, leaked, failed, opens, stale, faults>>
    BY <1>10 DEF Unload, Owner
  <2>2. held \subseteq Taken(n + 1)
    BY <1>1, <1>3, <2>1 DEF Loading
  <2>3. /\ 1 \in 1..Len(exit)
        /\ held \subseteq OfNodes \cup {exit[j] : j \in 1..Len(exit)}
    BY <1>1, <1>2, <2>1, <2>2 DEF ListsFit
  <2>4. Unloading'
    BY <1>3, <2>1, <2>3 DEF Unloading
  <2> QED BY <1>1, <1>3, <2>1, <2>4 DEF IInv, LifecycleTypeOK, Explained, Loading, Files
<1>11. CASE Give
  <2>1. /\ st = "unloading" /\ sub # "server" /\ pos \in 1..Len(exit)
        /\ held \subseteq OfNodes \cup {exit[j] : j \in pos..Len(exit)}
        /\ UNCHANGED <<sub, failed, faults>>
    BY <1>1, <1>11 DEF Give, Unloading
  <2>2. PICK m \in Nat : m = Len(exit)
    BY <1>1, <2>1 DEF ListsFit
  <2>3. CASE pos < Len(exit)
    <3>1. /\ held' = held \ {exit[pos]} /\ pos' = pos + 1
          /\ UNCHANGED <<st, leaked, opens, stale>>
      BY <1>11, <2>3 DEF Give
    <3>2. \A j \in pos..m : j = pos \/ j \in (pos + 1)..m
      BY <2>1, <2>2
    <3>3. pos + 1 \in 1..m /\ held' \subseteq OfNodes \cup {exit[j] : j \in (pos + 1)..m}
      BY <2>1, <2>2, <2>3, <3>1, <3>2
    <3>4. Unloading'
      BY <1>1, <1>3, <2>1, <2>2, <3>1, <3>3 DEF Unloading
    <3> QED BY <1>1, <1>3, <2>1, <3>1, <3>4 DEF IInv, LifecycleTypeOK, Explained, Loading, Files
  <2>4. CASE ~(pos < Len(exit))
    <3>1. PICK r : r = held \ {exit[pos]}
      OBVIOUS
    <3>2. Ends(r)
      BY <1>11, <2>4, <3>1 DEF Give
    <3>3. \A j \in pos..m : j = pos
      BY <2>1, <2>2, <2>4
    <3>4. r \subseteq OfNodes /\ r \subseteq held
      BY <2>1, <2>2, <3>1, <3>3
    <3>5. Left(r) \subseteq OfNodes
      BY <3>4 DEF Left
    <3>6. sub \in Pwm => opens = 0
      BY <1>1, <2>1 DEF Files
    <3>7. sub \in Pwm /\ opens > 0 => "ioremap" \in failed'
      BY <3>6
    <3> QED BY <2>1, <3>2, <3>4, <3>5, <3>7, EndsKeeps
  <2> QED BY <2>3, <2>4
<1>12. CASE FreeModule
  <2>1. /\ st = "unbound" /\ st' = "out" /\ sub \in I2c
        /\ stale' = stale + opens /\ opens' = 0
        /\ UNCHANGED <<sub, pos, held, leaked, failed, faults>>
    BY <1>1, <1>12 DEF FreeModule, Unloading
  <2>2. sub \notin Pwm
    BY <2>1 DEF Pwm, I2c
  <2>3. LifecycleTypeOK'
    BY <1>1, <2>1 DEF LifecycleTypeOK
  <2> QED BY <1>1, <1>3, <2>1, <2>2, <2>3 DEF IInv, Explained, Loading, Unloading, Files
<1>13. CASE Open
  <2>1. UNCHANGED <<sub, st, pos, held, leaked, failed, stale>> /\ opens + stale < MaxOpen
    BY <1>13 DEF Open
  <2>2. \/ opens' = opens + 1 /\ faults' = faults /\ "node" \in held /\ ~(sub \in Pwm /\ st = "unloading")
        \/ opens' = opens /\ faults' = faults \cup {"freed"}
    BY <1>13 DEF Open, Owner
  <2>3. faults' \subseteq {"null", "freed", "not_owned", "foreign"}
    BY <1>1, <2>2 DEF LifecycleTypeOK
  <2>4. opens' = opens + 1 \/ opens' = opens
    BY <2>2
  <2>5. opens \in Nat /\ stale \in Nat /\ stale' = stale /\ opens + stale < MaxOpen
    BY <1>1, <2>1 DEF LifecycleTypeOK
  <2>6. opens' \in Nat /\ stale' \in Nat /\ opens' + stale' <= MaxOpen /\ stale' <= stale
    BY <2>4, <2>5, LifecycleAssumption DEF LifecycleAssumption
  <2>7. opens' <= opens \/ ("node" \in held /\ ~(sub \in Pwm /\ st = "unloading"))
    BY <1>1, <2>2 DEF LifecycleTypeOK
  <2> QED BY <2>1, <2>3, <2>6, <2>7, FilesKeep
<1>14. CASE Handle
  <2>1. UNCHANGED <<sub, st, pos, held, leaked, failed>>
    BY <1>14 DEF Handle
  <2>2. \/ opens > 0 /\ opens' = opens - 1 /\ stale' = stale
        \/ stale > 0 /\ stale' = stale - 1 /\ opens' = opens
    BY <1>14 DEF Handle
  <2>3. /\ opens' \in Nat /\ stale' \in Nat /\ opens' + stale' <= MaxOpen
        /\ stale' <= stale /\ opens' <= opens
    BY <1>1, <2>2, LifecycleAssumption DEF LifecycleAssumption, LifecycleTypeOK
  <2>4. faults' \subseteq {"null", "freed", "not_owned", "foreign"}
    BY <1>1, <1>14 DEF Handle, LifecycleTypeOK
  <2> QED BY <2>1, <2>3, <2>4, FilesKeep
<1>15. ASSUME sub = "server", st \in {"loading", "live"}, st' = "out", held' = {},
              leaked' = leaked \/ failed' \cap Named # {}, failed \subseteq failed',
              leaked' \subseteq leaked \cup held,
              faults' \subseteq faults \cup {"foreign"}, UNCHANGED <<sub, pos, opens, stale>>
       PROVE  IInv'
  <2>1. sub \notin I2c /\ sub \notin Pwm
    BY <1>15 DEF I2c, Pwm
  <2>2. "node" \notin Due
    <3>1. Due = Taken(IF st = "loading" THEN pos ELSE n + 1)
      BY <1>3, <1>15
    <3>2. (IF st = "loading" THEN pos ELSE n + 1) \in 1..(n + 1)
      BY <1>1, <1>2 DEF Loading
    <3> QED BY <1>1, <1>2, <1>15, <3>1, <3>2 DEF ListsFit
  <2>3. opens = 0
    BY <1>1, <1>15, <2>1, <2>2 DEF Files, LifecycleTypeOK
  <2>4. LifecycleTypeOK'
    BY <1>1, <1>15 DEF LifecycleTypeOK
  <2>6. Explained'
    BY <1>1, <1>3, <1>15 DEF Explained
  <2> QED BY <1>15, <2>1, <2>3, <2>4, <2>6 DEF IInv, Loading, Unloading, Files
<1>16. CASE Stop
  <2>1. faults' \subseteq faults \cup {"foreign"}
    BY <1>16 DEF Stop
  <2> QED BY <1>15, <1>16, <2>1 DEF Stop
<1>17. CASE Kill \/ ThreadExits
  <2>1. sub = "server" /\ sub \notin Pwm /\ sub \notin I2c
    BY <1>17 DEF Kill, ThreadExits, Pwm, I2c
  <2>2. Named = {"create_link", "login_thread", "kill"}
    BY <2>1 DEF Named
  <2>3. \E c \in Named : failed' = failed \cup {c}
    BY <1>17, <2>2 DEF Kill, ThreadExits
  <2>4. failed' \cap Named # {} /\ failed \subseteq failed'
    BY <2>3
  <2> QED BY <1>15, <1>17, <2>4 DEF Kill, ThreadExits, Left
<1>18. CASE UNCHANGED lifecycleVars
  <2>1. UNCHANGED <<sub, st, pos, held, leaked, failed, opens, stale, faults>>
    BY <1>18 DEF lifecycleVars
  <2>2. /\ opens' \in Nat /\ stale' \in Nat /\ opens' + stale' <= MaxOpen
        /\ stale' <= stale /\ opens' <= opens
        /\ faults' \subseteq {"null", "freed", "not_owned", "foreign"}
    BY <1>1, <2>1 DEF LifecycleTypeOK
  <2> QED BY <2>1, <2>2, FilesKeep
<1> QED BY <1>5, <1>6, <1>7, <1>8, <1>9, <1>10, <1>11, <1>12, <1>13, <1>14, <1>16, <1>17, <1>18
        DEF LifecycleNext

(* The invariant holds throughout. *)
LEMMA Always == LifecycleSpec => []IInv
  BY Start, Step, PTL DEF LifecycleSpec

(* What nobody gives back comes from the error branches of ioremap         *)
(* (fan.c:110, motor.c:191), a line's direction (led.c:73), the sensors'   *)
(* class and node (ap3216.c:139, si7006.c:126) and the server's            *)
(* create_link (server.c:281) and login_thread (server.c:255, 270), or     *)
(* from a kill: from no other failure, and from no unloading, however      *)
(* often a module is loaded and whatever is open meanwhile.                *)
THEOREM LeftoversExplained == LifecycleSpec => []LeftExplained
<1>1. IInv => LeftExplained
  BY DEF IInv, Explained, Named, LeftExplained
<1> QED BY <1>1, Always, PTL

(* A handler meets registers that are not mapped only while the fan's or   *)
(* motor's driver is loaded (fan.c:103), lines it does not own only while  *)
(* the LED driver is unloaded (led.c:140), code that is gone, in the two   *)
(* drivers that pin their module, only after a failed ioremap; and SIGINT  *)
(* meets no queue of its own only before msgget (server.c:43).             *)
THEOREM FaultsExplained == LifecycleSpec => FaultExplained
<1>1. ASSUME IInv, [LifecycleNext]_lifecycleVars, NEW new, new = faults' \ faults
      PROVE  /\ "null" \in new => sub \in Pwm /\ st = "loading"
             /\ "not_owned" \in new => sub = "led" /\ st = "unloading"
             /\ "freed" \in new /\ sub \in Pwm => "ioremap" \in failed
             /\ "foreign" \in new => sub = "server" /\ st = "loading" /\ pos <= 2
  <2>1. ListsFit /\ LifecycleTypeOK /\ Explained /\ Loading /\ Unloading /\ Files
    BY <1>1, Fits DEF IInv, LifecycleTypeOK
  <2>2. PICK n \in Nat : n = Len(init)
    BY <2>1 DEF ListsFit
  <2>3. sub \in Pwm => sub \notin I2c /\ sub # "led" /\ sub # "server" /\ Named = {"ioremap"}
    BY DEF Pwm, I2c, Named
  <2>4. CASE Open
    <3>1. "freed" \in new => "node" \in leaked
      BY <1>1, <2>4 DEF Open
    <3>2. new \subseteq {"freed"}
      BY <1>1, <2>4 DEF Open
    <3>3. "node" \notin OfNodes
      BY DEF OfNodes
    <3>4. "freed" \in new /\ sub \in Pwm => "ioremap" \in failed
      BY <2>1, <2>3, <3>1, <3>3 DEF Explained
    <3> QED BY <3>2, <3>4
  <2>5. CASE Handle
    <3>1. CASE opens > 0 /\ ~(Uses \subseteq held) /\ new \subseteq {IF sub \in Pwm THEN "null" ELSE "not_owned"}
      <4>1. CASE sub \in Pwm
        <5>1. st \notin {"out", "unloading", "unbound"}
          BY <2>1, <2>3, <3>1, <4>1 DEF Files, Unloading
        <5>2. st # "live"
          <6>1. Uses \subseteq Taken(n + 1) \ {"node"}
            BY <2>1, <2>2, <4>1 DEF ListsFit
          <6> QED BY <2>1, <2>2, <3>1, <6>1 DEF Loading, Due
        <5> QED BY <2>1, <3>1, <4>1, <5>1, <5>2 DEF LifecycleTypeOK
      <4>2. CASE sub \notin Pwm
        <5>1. sub = "led"
          BY <2>1, <3>1, <4>2 DEF ListsFit
        <5>2. sub \notin I2c
          BY <5>1 DEF I2c
        <5>3. st \notin {"out", "unbound"}
          BY <2>1, <3>1, <5>2 DEF Files, Unloading
        <5>4. st \notin {"loading", "live"}
          <6>1. ASSUME st \in {"loading", "live"} PROVE Uses \subseteq held
            <7>1. PICK i : i = IF st = "loading" THEN pos ELSE n + 1
              OBVIOUS
            <7>2. i \in 1..(n + 1) /\ Due = Taken(i)
              BY <2>1, <2>2, <7>1 DEF Loading, Due
            <7>3. "node" \in Due
              BY <2>1, <3>1, <5>2, <6>1 DEF Files
            <7>4. Uses \subseteq Due \ {"node"}
              BY <2>1, <2>2, <4>2, <7>2, <7>3 DEF ListsFit
            <7> QED BY <2>1, <6>1, <7>4 DEF Loading
          <6> QED BY <3>1, <6>1
        <5> QED BY <2>1, <3>1, <4>2, <5>1, <5>3, <5>4 DEF LifecycleTypeOK
      <4> QED BY <4>1, <4>2
    <3>2. CASE stale > 0 /\ new \subseteq {"freed"}
      BY <2>1, <3>2 DEF Files
    <3>3. CASE new = {}
      BY <3>3
    <3> QED BY <1>1, <2>5, <3>1, <3>2, <3>3 DEF Handle
  <2>6. CASE Stop
    <3>1. /\ sub = "server" /\ st \in {"loading", "live"} /\ new \subseteq {"foreign"}
          /\ "foreign" \in new => "msgid" \notin held
      BY <1>1, <2>6 DEF Stop
    <3>2. ASSUME "msgid" \notin held PROVE st = "loading" /\ pos <= 2
      <4>1. PICK i : i = IF st = "loading" THEN pos ELSE n + 1
        OBVIOUS
      <4>2. i \in 1..(n + 1) /\ Due = Taken(i)
        BY <2>1, <2>2, <4>1 DEF Loading, Due
      <4>3. "msgid" \notin Due
        BY <2>1, <3>1, <3>2 DEF Loading
      <4>4. ~(i > 2) /\ n > 1
        BY <2>1, <2>2, <3>1, <4>2, <4>3 DEF ListsFit
      <4> QED BY <3>1, <4>1, <4>2, <4>4
    <3> QED BY <3>1, <3>2
  <2>7. CASE faults' = faults
    BY <1>1, <2>7
  <2>8. Open \/ Handle \/ Stop \/ faults' = faults
    BY <1>1 DEF LifecycleNext, lifecycleVars, Load, Take, Fail, Loaded, Unload, Give, Bind, FreeModule, Kill,
              ThreadExits
  <2> QED BY <2>4, <2>5, <2>6, <2>7, <2>8
<1>2. IInv /\ [LifecycleNext]_lifecycleVars =>
        LET new == faults' \ faults
        IN  /\ "null" \in new => sub \in Pwm /\ st = "loading"
            /\ "not_owned" \in new => sub = "led" /\ st = "unloading"
            /\ "freed" \in new /\ sub \in Pwm => "ioremap" \in failed
            /\ "foreign" \in new => sub = "server" /\ st = "loading" /\ pos <= 2
  BY <1>1
<1> QED BY <1>2, Always, PTL DEF LifecycleSpec, FaultExplained
=============================================================================
