----------------------------- MODULE ClientLife -----------------------------
(***************************************************************************)
(* How the client on the greenhouse board starts, works and stops          *)
(* (src/src/client.c): main opens the devices and logs in, hold_envthread  *)
(* reads the sensors and drives the devices, main starts a worker for each *)
(* command, and an error of any call, the end of the connection or SIGINT  *)
(* makes the thread that meets it run close_device and exit.  The error    *)
(* macro does so too, also inside close_device itself.  SIGPIPE ends the   *)
(* process at once.  It may be started again; a device keeps what it was   *)
(* last told, and the fan's driver the text it was last told it with.      *)
(***************************************************************************)
EXTENDS Sensors, FiniteSets

CONSTANTS
  Workers,   \* bound: threads for commands that may be at work at one time
  Lights,    \* what the light sensor may measure: pairs of a low and a high byte
  Dark,      \* the words at which the lamps are to burn
  Tails,     \* what a "0" may read as in front of the rest of a refused text
  MaxDepth   \* calls of close_device the stack has room for

ASSUME ClientLifeAssumption ==
  /\ "main" \notin Workers /\ "hold" \notin Workers
  /\ Lights \subseteq Byte \X Byte /\ Tails \subseteq Nat
  /\ MaxDepth \in Nat \ {0}

VARIABLES
  fd,      \* the device descriptors: "zero" at first, "open", "bad" or "closed"
  stdin,   \* whether descriptor 0 can be written to, as a terminal's can
  conn,    \* the connection: "none", "up", "fin" or "rst" by the server, "shut"
  pc,      \* where each thread is
  depth,   \* calls of close_device on each thread's stack
  outcome, \* "running", "exit", "return", "killed" or "crash"
  enters,  \* calls of close_device, but for its own errors; 2 for more
  dev,     \* the devices that are switched on
  tail,    \* the number that "0" and the rest of the fan's last text are
  misread, \* the fan is on since it took close_device's "0" for another number
  late,    \* devices that are on since somebody switched them on while a
           \* thread was closing
  light,   \* what the sensor measures now
  als,     \* als_data: <<low, high>> as the driver returns them
  seen,    \* what the sensor measured while it was read
  lost,    \* a register could not be read
  ready,   \* all devices were opened
  signal   \* SIGINT was sent

calls == <<depth, outcome, enters>>
driven == <<dev, tail, misread, late>>
sensing == <<light, als, seen, lost>>
vars == <<fd, stdin, conn, pc, calls, driven, sensing, ready, signal>>

Threads == {"main", "hold"} \cup Workers
Devices == {"si7006", "ap3216", "led", "fan", "motor"}
Loads == {"led", "fan", "motor"}
Closing == {"c_led", "c_fan", "c_motor", "c_close", "c_exit"}

At(t, l) == outcome = "running" /\ pc[t] = l
Goto(t, l) == pc' = [pc EXCEPT ![t] = l]
-----------------------------------------------------------------------------
(* write and ioctl on a device's descriptor: 0 is not a device. *)
Writable(d) == fd[d] = "open" \/ (fd[d] = "zero" /\ stdin)

Put(set, d, in) == IF in THEN set \cup {d} ELSE set \ {d}

(* The device is switched on or off, for another reason than close_device. *)
Switch(d, on) ==
  /\ dev' = Put(dev, d, on)
  /\ late' = Put(late, d, on /\ \E t \in Threads : pc[t] \in Closing)
  /\ misread' = (misread /\ d # "fan")

Tell(d, on) == IF fd[d] = "open" THEN Switch(d, on) ELSE UNCHANGED <<dev, late, misread>>

(* PRINT_ERR: perror, close_device, exit.  There is room for MaxDepth calls. *)
PRINT_ERR(t) ==
  IF depth[t] < MaxDepth
    THEN /\ Goto(t, "c_led") /\ depth' = [depth EXCEPT ![t] = @ + 1]
         /\ UNCHANGED outcome
    ELSE outcome' = "crash" /\ UNCHANGED <<pc, depth>>

Fresh(t) == IF pc[t] \in Closing \/ enters = 2 THEN enters ELSE enters + 1

(* A call in thread t fails: the macro. *)
Error(t) == PRINT_ERR(t) /\ enters' = Fresh(t)
-----------------------------------------------------------------------------
Opens == <<"si7006", "ap3216", "led", "fan", "motor">>

ReadConfig ==
  /\ At("main", "config")
  /\ \/ Goto("main", Opens[1]) /\ UNCHANGED calls
     \/ Error("main")
  /\ UNCHANGED <<fd, stdin, conn, driven, sensing, ready, signal>>

(* Mutation: the result of open is not looked at. *)
OpenUnchecked(i) ==
  /\ At("main", Opens[i])
  /\ \E f \in {"open", "bad"} : fd' = [fd EXCEPT ![Opens[i]] = f]
  /\ Goto("main", IF i < 5 THEN Opens[i + 1] ELSE "connect")
  /\ ready' = (i = 5)
  /\ UNCHANGED <<stdin, conn, calls, driven, sensing, signal>>

OpenDevice(i) ==
  /\ At("main", Opens[i])
  /\ \/ /\ fd' = [fd EXCEPT ![Opens[i]] = "open"]
        /\ Goto("main", IF i < 5 THEN Opens[i + 1] ELSE "connect")
        /\ ready' = (i = 5)
        /\ UNCHANGED calls
     \/ fd' = [fd EXCEPT ![Opens[i]] = "bad"] /\ Error("main") /\ UNCHANGED ready
  /\ UNCHANGED <<stdin, conn, driven, sensing, signal>>

(* socket, connect, send and recv of the login; socket's error exits at    *)
(* once, and a login that is refused returns with the devices as they are. *)
Connect ==
  /\ At("main", "connect")
  /\ \/ /\ pc' = [pc EXCEPT !["main"] = "serve", !["hold"] = "tmp"]
        /\ conn' = "up" /\ UNCHANGED calls
     \/ Error("main") /\ UNCHANGED conn
     \/ outcome' = "return" /\ UNCHANGED <<conn, pc, depth, enters>>
  /\ UNCHANGED <<fd, stdin, driven, sensing, ready, signal>>

ConnectionEnds ==
  /\ outcome = "running" /\ conn = "up"
  /\ conn' \in {"fin", "rst"}
  /\ UNCHANGED <<fd, stdin, pc, calls, driven, sensing, ready, signal>>
-----------------------------------------------------------------------------
(* recv in main: a command, for which a thread is created, or a ping.  A   *)
(* getenv_thpread only sends; setlimit_thread opens its file first, and    *)
(* ctrldev_thread drives the devices.                                      *)
Receive(w) ==
  /\ At("main", "serve") /\ conn # "shut"
  /\ \/ /\ pc[w] = "none"
        /\ \E l \in {"send", "fopen", "d_led"} : Goto(w, l)
        /\ UNCHANGED calls
     \/ Error("main")
  /\ UNCHANGED <<fd, stdin, conn, driven, sensing, ready, signal>>

ReceivePing ==
  /\ At("main", "serve") /\ conn # "shut"
  /\ Goto("main", "send")
  /\ UNCHANGED <<fd, stdin, conn, calls, driven, sensing, ready, signal>>

(* A reset is reported once, which nobody looks at; the end closes. *)
RecvErr ==
  /\ At("main", "serve") /\ conn = "rst"
  /\ conn' = "shut"
  /\ UNCHANGED <<fd, stdin, pc, calls, driven, sensing, ready, signal>>

ServeEnds ==
  /\ At("main", "serve") /\ conn \in {"fin", "shut"}
  /\ Error("main")
  /\ UNCHANGED <<fd, stdin, conn, driven, sensing, ready, signal>>

Fopen(w) ==
  /\ At(w, "fopen")
  /\ \/ Goto(w, "send") /\ UNCHANGED calls
     \/ Error(w)
  /\ UNCHANGED <<fd, stdin, conn, driven, sensing, ready, signal>>

(* What is sent behind the server's close is answered with a reset; after  *)
(* that, SIGPIPE.  A reset that nobody was told of yet is an error.        *)
Send(t) ==
  /\ At(t, "send")
  /\ \/ /\ \/ conn = "up" /\ conn' = "up"
           \/ conn = "fin" /\ conn' \in {"fin", "shut"}
        /\ Goto(t, IF t = "main" THEN "serve" ELSE "none")
        /\ UNCHANGED calls
     \/ conn = "rst" /\ conn' = "shut" /\ Error(t)
     \/ conn = "shut" /\ outcome' = "killed" /\ UNCHANGED <<conn, pc, depth, enters>>
  /\ UNCHANGED <<fd, stdin, driven, sensing, ready, signal>>
-----------------------------------------------------------------------------
(* The two ioctls on the si7006: a failed transfer stops the client. *)
HoldTmpHum(from, to) ==
  /\ At("hold", from)
  /\ \E ok \in BOOLEAN :
       IF fd["si7006"] = "open" /\ si7006_ioctl(ok, 0, 0).ret = 0
         THEN Goto("hold", to) /\ UNCHANGED calls
         ELSE Error("hold")
  /\ UNCHANGED <<fd, stdin, conn, driven, sensing, ready, signal>>

(* ap3216_read: the low register, then the high one. *)
HoldLow ==
  /\ At("hold", "low")
  /\ IF fd["ap3216"] # "open" THEN Error("hold") /\ UNCHANGED <<als, seen, lost>>
     ELSE \E ok \in BOOLEAN :
            /\ als' = [als EXCEPT !.low = i2c_read_reg(ok, light[1])]
            /\ seen' = {light} /\ lost' = ~ok
            /\ Goto("hold", "high") /\ UNCHANGED calls
  /\ UNCHANGED <<fd, stdin, conn, driven, light, ready, signal>>

HoldHigh ==
  /\ At("hold", "high")
  /\ \E ok \in BOOLEAN :
       /\ als' = [als EXCEPT !.high = i2c_read_reg(ok, light[2])]
       /\ lost' = (lost \/ ~ok)
  /\ \/ Goto("hold", "d_led")
     \/ Goto("hold", "sleep")  \* a command holds: nothing is set
  /\ UNCHANGED <<fd, stdin, conn, calls, driven, light, seen, ready, signal>>

LightChanges ==
  /\ outcome = "running" /\ pc["hold"] \in {"low", "high"}
  /\ light' \in Lights
  /\ seen' = IF pc["hold"] = "high" THEN seen \cup {light'} ELSE seen
  /\ UNCHANGED <<fd, stdin, conn, pc, calls, driven, als, lost, ready, signal>>

HoldSleep ==
  /\ At("hold", "sleep")
  /\ Goto("hold", "tmp")
  /\ UNCHANGED <<fd, stdin, conn, calls, driven, sensing, ready, signal>>
-----------------------------------------------------------------------------
(* The six ioctls on the LEDs, whose results nobody looks at. *)
DriveLed(t, on) ==
  /\ At(t, "d_led")
  /\ Tell("led", on)
  /\ Goto(t, "d_fan")
  /\ UNCHANGED <<fd, stdin, conn, calls, tail, sensing, ready, signal>>

HoldLed == DriveLed("hold", Als(als.low, als.high) \in Dark)
CtrlLed(w) == \E on \in BOOLEAN : DriveLed(w, on)

(* A level is written with all of fanbuf or motorbuf, so that nothing of   *)
(* an earlier text is behind it.                                           *)
DriveWrite(t, l, d, next) ==
  /\ At(t, l)
  /\ IF Writable(d)
       THEN /\ \E on \in BOOLEAN : Tell(d, on)
            /\ tail' = IF d = "fan" /\ fd["fan"] = "open" THEN 0 ELSE tail
            /\ Goto(t, next) /\ UNCHANGED calls
       ELSE Error(t) /\ UNCHANGED driven
  /\ UNCHANGED <<fd, stdin, conn, sensing, ready, signal>>

Drive(t) ==
  \/ DriveWrite(t, "d_fan", "fan", "d_motor")
  \/ DriveWrite(t, "d_motor", "motor", IF t = "hold" THEN "sleep" ELSE "send")

(* Somebody uses the fan's test program: a level, or a number that the     *)
(* driver refuses and keeps.                                               *)
FanTest ==
  /\ outcome = "running"
  /\ \/ (\E on \in BOOLEAN : Switch("fan", on)) /\ tail' = 0
     \/ tail' \in Tails /\ UNCHANGED <<dev, late, misread>>
  /\ UNCHANGED <<fd, stdin, conn, pc, calls, sensing, ready, signal>>
-----------------------------------------------------------------------------
(* close_device *)
CloseLed(t) ==
  /\ At(t, "c_led")
  /\ Tell("led", FALSE)
  /\ Goto(t, "c_fan")
  /\ UNCHANGED <<fd, stdin, conn, calls, tail, sensing, ready, signal>>

(* The one character "0" in front of what the driver has kept: a level, or *)
(* a number it refuses.                                                    *)
CloseFan(t) ==
  /\ At(t, "c_fan")
  /\ IF Writable("fan") /\ ~(fd["fan"] = "open" /\ tail > 3)
       THEN /\ IF fd["fan"] = "open" /\ tail # 0
                 THEN /\ dev' = dev \cup {"fan"} /\ late' = late \ {"fan"}
                      /\ misread' = TRUE
                 ELSE Tell("fan", FALSE)
            /\ Goto(t, "c_motor") /\ UNCHANGED calls
       ELSE Error(t) /\ UNCHANGED <<dev, late, misread>>
  /\ UNCHANGED <<fd, stdin, conn, tail, sensing, ready, signal>>

(* Mutation: the motor is forgotten. *)
CloseMotorForgotten(t) ==
  /\ At(t, "c_motor")
  /\ Goto(t, "c_close")
  /\ UNCHANGED <<fd, stdin, conn, calls, driven, sensing, ready, signal>>

CloseMotor(t) ==
  /\ At(t, "c_motor")
  /\ IF Writable("motor")
       THEN Tell("motor", FALSE) /\ Goto(t, "c_close") /\ UNCHANGED calls
       ELSE Error(t) /\ UNCHANGED <<dev, late, misread>>
  /\ UNCHANGED <<fd, stdin, conn, tail, sensing, ready, signal>>

(* Descriptor 0 is closed where a device was never opened. *)
CloseFds(t) ==
  /\ At(t, "c_close")
  /\ fd' = [d \in Devices |-> IF fd[d] = "open" THEN "closed" ELSE fd[d]]
  /\ stdin' = (stdin /\ \A d \in Devices : fd[d] # "zero")
  /\ Goto(t, "c_exit")
  /\ UNCHANGED <<conn, calls, driven, sensing, ready, signal>>

Exit(t) ==
  /\ At(t, "c_exit")
  /\ outcome' = "exit"
  /\ UNCHANGED <<fd, stdin, conn, pc, depth, enters, driven, sensing, ready, signal>>

(* SIGINT, once: whichever thread gets it calls close_device, wherever it  *)
(* was.                                                                    *)
Sigint(t) ==
  /\ outcome = "running" /\ pc[t] # "none"
  /\ ~signal /\ signal' = TRUE
  /\ Goto(t, "c_led")
  /\ depth' = [depth EXCEPT ![t] = @ + 1]
  /\ enters' = IF enters = 2 THEN 2 ELSE enters + 1
  /\ UNCHANGED <<fd, stdin, conn, outcome, driven, sensing, ready>>
-----------------------------------------------------------------------------
Zeros == [d \in Devices |-> "zero"]

Process ==
  [fd |-> Zeros, conn |-> "none", pc |-> [t \in Threads |-> IF t = "main" THEN "config" ELSE "none"],
   depth |-> [t \in Threads |-> 0], als |-> [low |-> 0, high |-> 0]]

Init ==
  /\ fd = Process.fd /\ stdin \in BOOLEAN /\ conn = Process.conn
  /\ pc = Process.pc /\ depth = Process.depth
  /\ outcome = "running" /\ enters = 0 /\ ready = FALSE /\ signal = FALSE
  /\ dev = {} /\ tail = 0 /\ misread = FALSE /\ late = {}
  /\ light \in Lights /\ als = Process.als /\ seen = {} /\ lost = FALSE

(* A new process: only the devices and the fan's driver keep their state. *)
Restart ==
  /\ outcome # "running"
  /\ fd' = Process.fd /\ stdin' \in BOOLEAN /\ conn' = Process.conn
  /\ pc' = Process.pc /\ depth' = Process.depth
  /\ outcome' = "running" /\ enters' = 0 /\ ready' = FALSE /\ signal' = FALSE
  /\ misread' = FALSE /\ late' = {}
  /\ als' = Process.als /\ seen' = {} /\ lost' = FALSE
  /\ UNCHANGED <<dev, tail, light>>

CloseStep(t) == CloseLed(t) \/ CloseFan(t) \/ CloseMotor(t) \/ CloseFds(t) \/ Exit(t)

HoldStep ==
  \/ HoldTmpHum("tmp", "hum") \/ HoldTmpHum("hum", "low") \/ HoldLow \/ HoldHigh
  \/ HoldLed \/ Drive("hold") \/ HoldSleep

WorkerStep(w) == Fopen(w) \/ CtrlLed(w) \/ Drive(w) \/ Send(w)

MainStep ==
  \/ ReadConfig \/ (\E i \in 1..5 : OpenDevice(i)) \/ Connect
  \/ (\E w \in Workers : Receive(w)) \/ ReceivePing \/ RecvErr \/ ServeEnds \/ Send("main")

Next ==
  \/ MainStep \/ HoldStep \/ \E w \in Workers : WorkerStep(w)
  \/ \E t \in Threads : CloseStep(t) \/ Sigint(t)
  \/ ConnectionEnds \/ LightChanges \/ FanTest \/ Restart

Spec == Init /\ [][Next]_vars
-----------------------------------------------------------------------------
Labels ==
  {"none", "config", "connect", "serve", "send", "fopen", "tmp", "hum", "low", "high", "sleep",
   "d_led", "d_fan", "d_motor"} \cup Devices \cup Closing

TypeOK ==
  /\ fd \in [Devices -> {"zero", "open", "bad", "closed"}] /\ stdin \in BOOLEAN
  /\ conn \in {"none", "up", "fin", "rst", "shut"}
  /\ pc \in [Threads -> Labels] /\ depth \in [Threads -> 0..(MaxDepth + 1)]
  /\ outcome \in {"running", "exit", "return", "killed", "crash"} /\ enters \in 0..2
  /\ dev \subseteq Loads /\ tail \in Nat /\ misread \in BOOLEAN /\ late \subseteq Loads
  /\ light \in Lights /\ seen \subseteq Lights /\ lost \in BOOLEAN
  /\ als \in [low : Byte \cup {-EAGAIN}, high : Byte \cup {-EAGAIN}]
  /\ ready \in BOOLEAN /\ signal \in BOOLEAN

(* client.c:4-37: when a client that had opened its devices exits, those   *)
(* still switched on were switched on by another thread or program while   *)
(* close_device ran, or it is the fan, and its driver read the "0" with    *)
(* the rest of a text it had refused (fan.c:37-48).                        *)
OffUnlessLate ==
  outcome = "exit" /\ ready =>
    dev \subseteq late \cup IF misread THEN {"fan"} ELSE {}

(* Each variable has its type, the stack its bound; and the macro inside   *)
(* close_device (client.c:12-17) calls close_device without end only if    *)
(* the fan or the motor was not open, because main had not come so far or  *)
(* another call of close_device was first, or if the fan's driver refuses  *)
(* the "0" for the rest of an earlier text.                                *)
CrashExplained ==
  /\ TypeOK
  /\ outcome = "crash" => ~ready \/ enters = 2 \/ tail > 3

(* ap3216.c:84-86, client.c:177-217: the lamps follow a light that was     *)
(* there, unless it changed between the two registers or one of them could *)
(* not be read.                                                            *)
LampsExplained ==
  [][HoldLed /\ fd["led"] = "open" =>
       \/ lost \/ Cardinality(seen) > 1
       \/ \E l \in seen : ("led" \in dev') = (l[1] + 256 * l[2] \in Dark)]_vars
=============================================================================
