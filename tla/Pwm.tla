-------------------------------- MODULE Pwm --------------------------------
(***************************************************************************)
(* The registers that the fan's and the motor's driver share (src/mydev/   *)
(* fan/fan.c, src/mydev/motor/motor.c) and their write handlers.  Nothing  *)
(* is locked: a handler copies the text into the driver's one buffer, then *)
(* reads it there, and its statements on registers are loads and stores of *)
(* other threads' values.  Both drivers use the same two clock registers,  *)
(* RCC_MP_AHB4ENSETR and RCC_MP_APB2ENSETR (fan.h, motor.h): a 1 stored    *)
(* there switches a clock on, a 0 does nothing.  A register is the set of  *)
(* its bits that are 1; one that is only ever stored whole is {} for 0 and *)
(* {v} for v.                                                              *)
(***************************************************************************)
EXTENDS Integers, Sequences, FiniteSets

CONSTANTS
  Threads,   \* threads that are inside a driver at one time
  MaxMeet,   \* how often a thread enters while another is inside
  FanTexts,  \* what is written to the fan: sequences of digits, up to a NUL
  NUL

Devs == {"fan", "motor"}
Chars == 0..9 \cup {NUL}

(* A number of one or two digits as sprintf prints it, with or without the *)
(* NUL behind it.                                                          *)
Number(s) ==
  /\ s \in Seq(Chars) /\ Len(s) \in 1..3
  /\ s[1] \in 0..9 /\ (\A i \in 1..(Len(s) - 1) : s[i] \in 0..9)
  /\ Len(s) = 3 => s[3] = NUL
  /\ Len(s) > 1 /\ s[2] \in 0..9 => s[1] # 0

ASSUME PwmAssumption ==
  /\ NUL \notin 0..9 /\ MaxMeet \in Nat
  /\ \A s \in FanTexts : Number(s)

VARIABLES
  reg,     \* the registers
  kbuf,    \* each driver's buffer, as far as it is ever looked at
  loaded,  \* drivers whose module_init has begun and module_exit has not
  th,      \* what each thread is doing
  meets,   \* how often a thread has entered while another was inside
  told,    \* the last command a driver has finished, with its text and the buffer
  alone    \* whether no other thread was in that driver meanwhile

vars == <<reg, kbuf, loaded, th, meets, told, alone>>
-----------------------------------------------------------------------------
(* Mutation: = for |=. *)
OrAssigns(r, bits) == [reg |-> r, clear |-> {}, set |-> bits, loads |-> FALSE]

(* *r |= bits, *r &= ~bits, *r = v. *)
Or(r, bits) == [reg |-> r, clear |-> {}, set |-> bits, loads |-> TRUE]
AndNot(r, bits) == [reg |-> r, clear |-> bits, set |-> {}, loads |-> TRUE]
Assign(r, v) == [reg |-> r, clear |-> {}, set |-> IF v = 0 THEN {} ELSE {v}, loads |-> FALSE]

Registers ==
  {"rcc_4", "rcc_2",
   "gpiof_moder", "gpiof_afrl", "tim16_psc", "tim16_arr", "tim16_ccr1", "tim16_ccmr1",
   "tim16_ccer", "tim16_cr1", "tim16_bdtr",
   "gpioe_moder", "gpioe_afrh", "tim1_psc", "tim1_arr", "tim1_ccr1", "tim1_ccmr1",
   "tim1_ccer", "tim1_cr1", "tim1_bdtr"}

(* The registers in which only a 1 counts. *)
SetOnly == {"rcc_4", "rcc_2"}

Mode == 4..6  \* OC1M, and bit 16 above it

motor_start ==
  <<Or("rcc_4", {5}),
    AndNot("gpiof_moder", {12, 13}), Or("gpiof_moder", {13}),
    AndNot("gpiof_afrl", 24..27), Or("gpiof_afrl", {24}),
    Or("rcc_2", {3}),
    Assign("tim16_psc", 208), Assign("tim16_arr", 1000), Assign("tim16_ccr1", 700),
    AndNot("tim16_ccmr1", Mode \cup {16}), Or("tim16_ccmr1", {5, 6}),
    Or("tim16_ccmr1", {3}), AndNot("tim16_ccmr1", {0, 1}),
    AndNot("tim16_ccer", {1}), Or("tim16_ccer", {0}),
    Or("tim16_cr1", {7}), Or("tim16_bdtr", {15}), Or("tim16_cr1", {0})>>

motor_stop ==
  <<AndNot("tim16_cr1", {0}), AndNot("tim16_bdtr", {15}), AndNot("tim16_cr1", {7}),
    AndNot("tim16_ccer", {0}), Or("tim16_ccer", {1}),
    Or("tim16_ccmr1", {0, 1}), AndNot("tim16_ccmr1", {3}), Or("tim16_ccmr1", Mode \cup {16}),
    Assign("tim16_ccr1", 0), Assign("tim16_arr", 0), Assign("tim16_psc", 0),
    AndNot("rcc_2", {3}),
    Or("gpiof_afrl", 24..27),
    AndNot("gpiof_moder", {13}), Or("gpiof_moder", {12, 13}),
    AndNot("rcc_4", {5})>>

(* motor_init of fan.c, after the mapping. *)
fan_init ==
  <<Or("rcc_4", {4}),
    AndNot("gpioe_moder", {18, 19}), Or("gpioe_moder", {19}),
    AndNot("gpioe_afrh", 4..7), Or("gpioe_afrh", {4}),
    Or("rcc_2", {0}),
    Assign("tim1_psc", 208), Assign("tim1_arr", 1000), Assign("tim1_ccr1", 0),
    AndNot("tim1_ccmr1", Mode \cup {16}), Or("tim1_ccmr1", {5, 6}),
    Or("tim1_ccmr1", {3}), AndNot("tim1_ccmr1", {0, 1}),
    AndNot("tim1_ccer", {1}), Or("tim1_ccer", {0}),
    Or("tim1_cr1", {7}), AndNot("tim1_cr1", {5, 6}), AndNot("tim1_cr1", {4}),
    Or("tim1_bdtr", {15}), Or("tim1_cr1", {0})>>

fan_exit ==
  <<AndNot("rcc_4", {4}), AndNot("gpioe_moder", {18, 19}), AndNot("gpioe_afrh", 4..7),
    AndNot("rcc_2", {0}),
    Assign("tim1_psc", 0), Assign("tim1_arr", 0), Assign("tim1_ccr1", 0),
    AndNot("tim1_ccmr1", Mode \cup {16}), AndNot("tim1_ccmr1", {3}), Or("tim1_ccmr1", {0, 1}),
    Or("tim1_ccer", {1}), AndNot("tim1_ccer", {0}),
    AndNot("tim1_cr1", {7}), Or("tim1_cr1", {5, 6}), Or("tim1_cr1", {4}),
    AndNot("tim1_bdtr", {15}), AndNot("tim1_cr1", {0})>>

(* The switch of motor_write in fan.c. *)
Level == [level0 |-> 0, level1 |-> 300, level2 |-> 500, level3 |-> 800]
Levels == <<"level0", "level1", "level2", "level3">>

(* Mutation: motor_start leaves the timer's clock as it is. *)
CodeUnclocked(job) ==
  CASE job = "start" -> SelectSeq(motor_start, LAMBDA s : s.reg # "rcc_2")
    [] job = "stop" -> motor_stop [] job = "init" -> fan_init [] job = "exit" -> fan_exit
    [] job \in DOMAIN Level -> <<Assign("tim1_ccr1", Level[job])>>
    [] OTHER -> <<>>

Code(job) ==
  CASE job = "start" -> motor_start [] job = "stop" -> motor_stop
    [] job = "init" -> fan_init [] job = "exit" -> fan_exit
    [] job \in DOMAIN Level -> <<Assign("tim1_ccr1", Level[job])>>
    [] OTHER -> <<>>
-----------------------------------------------------------------------------
Idle == [dev |-> "fan", job |-> "none", at |-> 1, old |-> <<>>, text |-> <<>>, own |-> TRUE]

In(d) == {t \in Threads : th[t].job # "none" /\ th[t].dev = d}
Busy == In("fan") \cup In("motor")

(* Thread t enters driver d.  Who is inside is not alone any more. *)
Enter(t, d, job, text) ==
  /\ th[t].job = "none" /\ (Busy # {} => meets < MaxMeet)
  /\ meets' = meets + (IF Busy # {} THEN 1 ELSE 0)
  /\ th' = [u \in Threads |->
              IF u = t THEN [Idle EXCEPT !.dev = d, !.job = job, !.text = text, !.own = In(d) = {}]
              ELSE [th[u] EXCEPT !.own = @ /\ th[u].dev # d]]

InitFan(t) ==
  /\ "fan" \notin loaded /\ In("fan") = {}
  /\ Enter(t, "fan", "init", <<>>)
  /\ loaded' = loaded \cup {"fan"}
  /\ kbuf' = [kbuf EXCEPT !["fan"] = <<NUL, NUL, NUL>>]
  /\ UNCHANGED <<reg, told, alone>>

(* motor_init leaves the registers as they are. *)
InitMotor ==
  /\ "motor" \notin loaded /\ In("motor") = {}
  /\ loaded' = loaded \cup {"motor"}
  /\ kbuf' = [kbuf EXCEPT !["motor"] = <<NUL, NUL, NUL>>]
  /\ UNCHANGED <<meets, reg, th, told, alone>>

(* A module is not unloaded while a file of its device is open. *)
Exit(t, d) ==
  /\ d \in loaded /\ In(d) = {}
  /\ Enter(t, d, IF d = "fan" THEN "exit" ELSE "stop", <<>>)
  /\ loaded' = loaded \ {d}
  /\ UNCHANGED <<reg, kbuf, told, alone>>

Write(t, d) ==
  /\ d \in loaded
  /\ \E text \in IF d = "fan" THEN FanTexts ELSE {<<0>>, <<1>>} : Enter(t, d, "copy", text)
  /\ UNCHANGED <<reg, kbuf, loaded, told, alone>>
-----------------------------------------------------------------------------
(* copy_from_user writes as much as the caller gave. *)
Copy(t) ==
  /\ th[t].job = "copy"
  /\ kbuf' = [kbuf EXCEPT ![th[t].dev] = [i \in 1..3 |->
                IF i <= Len(th[t].text) THEN th[t].text[i] ELSE @[i]]]
  /\ th' = [th EXCEPT ![t].job = "decide"]
  /\ UNCHANGED <<meets, reg, loaded, told, alone>>

(* kstrtoint of the digits up to the NUL. *)
Parsed(b) ==
  IF b[1] = NUL THEN -1 ELSE IF b[2] = NUL THEN b[1]
  ELSE IF b[3] = NUL THEN 10 * b[1] + b[2] ELSE 100 * b[1] + 10 * b[2] + b[3]

(* Mutation: the first digit decides. *)
AskedFirst(d) ==
  LET n == kbuf[d][1]
  IN  IF d = "fan" THEN IF n \in 0..3 THEN Levels[n + 1] ELSE "none"
      ELSE CASE n = 1 -> "start" [] n = 0 -> "stop" [] OTHER -> "none"

(* What the text in the buffer asks for; "none" is an error, or nothing. *)
Asked(d) ==
  LET n == Parsed(kbuf[d])
  IN  IF d = "fan" THEN IF n \in 0..3 THEN Levels[n + 1] ELSE "none"
      ELSE CASE kbuf[d][1] = 1 -> "start" [] kbuf[d][1] = 0 -> "stop" [] OTHER -> "none"

Decide(t) ==
  /\ th[t].job = "decide"
  /\ LET asked == Asked(th[t].dev)
     IN  th' = [th EXCEPT ![t] = IF asked = "none" THEN Idle
                                 ELSE [th[t] EXCEPT !.job = asked]]
  /\ UNCHANGED <<meets, reg, kbuf, loaded, told, alone>>
-----------------------------------------------------------------------------
Running(t) == th[t].at <= Len(Code(th[t].job))
Now(t) == Code(th[t].job)[th[t].at]

(* A load and its store are two steps where another thread may come in     *)
(* between: of the fan's own registers fan_init and fan_exit, which exclude *)
(* each other, are the only ones that load.                                *)
Split(t) ==
  Now(t).loads /\ (th[t].dev = "motor" \/ Now(t).reg \in SetOnly)

LoadReg(t) ==
  /\ Running(t)
  /\ Split(t) /\ th[t].old = <<>>
  /\ th' = [th EXCEPT ![t].old = <<reg[Now(t).reg]>>]
  /\ UNCHANGED <<meets, reg, kbuf, loaded, told, alone>>

StoreReg(t) ==
  /\ Running(t)
  /\ Split(t) => th[t].old # <<>>
  /\ LET old == IF Split(t) THEN th[t].old[1] ELSE IF Now(t).loads THEN reg[Now(t).reg] ELSE {}
         new == (old \ Now(t).clear) \cup Now(t).set
     IN  reg' = [reg EXCEPT ![Now(t).reg] = IF Now(t).reg \in SetOnly THEN @ \cup new ELSE new]
  /\ th' = [th EXCEPT ![t].at = @ + 1, ![t].old = <<>>]
  /\ UNCHANGED <<meets, kbuf, loaded, told, alone>>

Finish(t) ==
  /\ Code(th[t].job) # <<>> /\ ~Running(t)
  /\ told' = [told EXCEPT ![th[t].dev] =
                [job |-> th[t].job, text |-> th[t].text, buf |-> kbuf[th[t].dev]]]
  /\ alone' = [alone EXCEPT ![th[t].dev] = th[t].own]
  /\ th' = [th EXCEPT ![t] = Idle]
  /\ UNCHANGED <<meets, reg, kbuf, loaded>>
-----------------------------------------------------------------------------
Init ==
  /\ reg = [r \in Registers |-> {}]
  /\ kbuf = [d \in Devs |-> <<NUL, NUL, NUL>>]
  /\ loaded = {}
  /\ th = [t \in Threads |-> Idle]
  /\ meets = 0
  /\ told = [d \in Devs |-> [job |-> "none", text |-> <<>>, buf |-> kbuf[d]]]
  /\ alone = [d \in Devs |-> TRUE]

Next ==
  \/ InitMotor
  \/ \E t \in Threads :
       \/ InitFan(t) \/ \E d \in Devs : Exit(t, d) \/ Write(t, d)
       \/ Copy(t) \/ Decide(t) \/ LoadReg(t) \/ StoreReg(t) \/ Finish(t)

Spec == Init /\ [][Next]_vars
-----------------------------------------------------------------------------
TypeOK ==
  /\ reg \in [Registers -> SUBSET (0..1000)]
  /\ kbuf \in [Devs -> [1..3 -> Chars]]
  /\ loaded \subseteq Devs
  /\ \A t \in Threads : th[t].dev \in Devs /\ Len(th[t].old) <= 1

(* The pin belongs to the timer, and the timer puts a wave on it. *)
Wired(d) ==
  IF d = "motor" THEN /\ reg["gpiof_moder"] \cap {12, 13} = {13}
                      /\ reg["gpiof_afrl"] \cap 24..27 = {24}
  ELSE /\ reg["gpioe_moder"] \cap {18, 19} = {19}
       /\ reg["gpioe_afrh"] \cap 4..7 = {4}

Timer(d) ==
  IF d = "motor" THEN [ccer |-> reg["tim16_ccer"], bdtr |-> reg["tim16_bdtr"],
                       cr1 |-> reg["tim16_cr1"], ccmr1 |-> reg["tim16_ccmr1"],
                       ccr1 |-> reg["tim16_ccr1"]]
  ELSE [ccer |-> reg["tim1_ccer"], bdtr |-> reg["tim1_bdtr"], cr1 |-> reg["tim1_cr1"],
        ccmr1 |-> reg["tim1_ccmr1"], ccr1 |-> reg["tim1_ccr1"]]

Wave(d) ==
  /\ Timer(d).ccer \cap {0, 1} = {0} /\ 15 \in Timer(d).bdtr /\ 0 \in Timer(d).cr1
  /\ Timer(d).ccmr1 \cap (Mode \cup {16}) = {5, 6}

Off(d) == 0 \notin Timer(d).ccer /\ 15 \notin Timer(d).bdtr /\ 0 \notin Timer(d).cr1

Duty(v) == IF v = 0 THEN {} ELSE {v}
Quiet(d) == In(d) = {} /\ told[d].job # "none"

(* Each variable has its type; and (motor.c:11-110, fan.c:163-272) a       *)
(* command that no other met inside its driver leaves the device as it     *)
(* says, whatever mixture earlier commands that did meet left in the       *)
(* registers.                                                              *)
AsTold ==
  /\ TypeOK
  /\ Quiet("motor") /\ alone["motor"] =>
       IF told["motor"].job = "start"
         THEN Wired("motor") /\ Wave("motor") /\ Timer("motor").ccr1 = Duty(700)
         ELSE ~Wired("motor") /\ Off("motor") /\ Timer("motor").ccr1 = {}
  /\ Quiet("fan") /\ alone["fan"] =>
       CASE told["fan"].job = "init" -> Wired("fan") /\ Wave("fan") /\ Timer("fan").ccr1 = {}
         [] told["fan"].job = "exit" -> ~Wired("fan") /\ Off("fan") /\ Timer("fan").ccr1 = {}
         [] OTHER -> Timer("fan").ccr1 = Duty(Level[told["fan"].job])

(* The port's clock is a bit of rcc_4, the timer's one of rcc_2. *)
PortClock(d) == (IF d = "fan" THEN 4 ELSE 5) \in reg["rcc_4"]
TimerClock(d) == (IF d = "fan" THEN 0 ELSE 3) \in reg["rcc_2"]
Ports == {"gpioe_moder", "gpioe_afrh", "gpiof_moder", "gpiof_afrl"}

Clocked(t) ==
  \/ Now(t).reg \in SetOnly
  \/ IF Now(t).reg \in Ports THEN PortClock(th[t].dev) ELSE TimerClock(th[t].dev)

Initialising == \E t \in Threads : th[t].job = "init"

(* Whatever meets, in either driver: a statement finds its port's or its   *)
(* timer's clock switched on, unless it is of a motor_stop and no          *)
(* motor_start is the last command (motor.c:62: close_device stops a motor *)
(* that was never started), or of a level that is written while fan.c's    *)
(* initialisation is under way, behind the node (fan.c:103); and a driver  *)
(* that has started its device has both its clocks.                        *)
ClockFirst ==
  /\ \A t \in Threads : Running(t) /\ ~Clocked(t) =>
       \/ th[t].job = "stop" /\ told["motor"].job # "start"
       \/ th[t].job \in DOMAIN Level /\ Initialising
  /\ told["motor"].job = "start" => PortClock("motor") /\ TimerClock("motor")
  /\ told["fan"].job # "none" /\ ~Initialising => PortClock("fan") /\ TimerClock("fan")

(* A write that was alone in its driver and was accepted does what its     *)
(* text says, if the text ends with a NUL or the buffer holds one behind   *)
(* it (fan.c:37-67, motor.c:139-149).                                      *)
TextObeyed ==
  \A d \in Devs : LET c == told[d] IN
    Quiet(d) /\ alone[d] /\ c.text # <<>>
      /\ (\/ d = "motor" \/ c.text[Len(c.text)] = NUL \/ c.buf[Len(c.text) + 1] = NUL) =>
      IF d = "motor" THEN c.job = IF c.text[1] = 1 THEN "start" ELSE "stop"
      ELSE c.job = Levels[c.text[1] + 1] /\ Len(c.text) <= 2 /\ c.text[Len(c.text)] \in {c.text[1], NUL}
=============================================================================
