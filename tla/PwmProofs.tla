----------------------------- MODULE PwmProofs -----------------------------
(***************************************************************************)
(* Proofs about Pwm.  First the code: of its statements on one register    *)
(* the last that decides a bit has the say (Done), which gives what each   *)
(* command leaves behind.  Then the threads: nobody writes the registers   *)
(* of one that is alone, so it gets as far as its code says (Progress),    *)
(* and what it leaves stays until the next command begins (Posted).  The   *)
(* clock registers belong to both drivers and only grow, so a clock that a *)
(* thread has switched on is on from then on, whoever meets (Clocks).      *)
(* Last the texts.                                                         *)
(***************************************************************************)
EXTENDS Pwm, TLAPS

(* The registers that only driver d writes: all but the clock registers.   *)
Private(d) ==
  IF d = "fan" THEN
    {"gpioe_moder", "gpioe_afrh", "tim1_psc", "tim1_arr", "tim1_ccr1", "tim1_ccmr1",
     "tim1_ccer", "tim1_cr1", "tim1_bdtr"}
  ELSE
    {"gpiof_moder", "gpiof_afrl", "tim16_psc", "tim16_arr", "tim16_ccr1", "tim16_ccmr1",
     "tim16_ccer", "tim16_cr1", "tim16_bdtr"}

(* What a thread in driver d may have to do to the registers.              *)
LevelJobs == {"level0", "level1", "level2", "level3"}
Jobs(d) == IF d = "fan" THEN {"init", "exit"} \cup LevelJobs ELSE {"start", "stop"}
Values == SUBSET (0..1000)

(* Whether a statement decides bit b of its register. *)
Touches(s, b) == ~s.loads \/ b \in s.clear \cup s.set

(* Of the registers R, every bit that one of the first k - 1 statements of *)
(* c decides is in g as the last of them that does says.                   *)
Done(c, k, R, g) ==
  \A i \in 1..(k - 1) : c[i].reg \in R =>
    \A b : /\ Touches(c[i], b)
           /\ \A j \in (i + 1)..(k - 1) : c[j].reg = c[i].reg => ~Touches(c[j], b)
           => (b \in g[c[i].reg] <=> b \in c[i].set)

(* The register value that statement s makes of the value v it loaded. *)
Stored(s, v) == (v \ s.clear) \cup s.set

(* Before its first statement code has done nothing.                       *)
LEMMA DoneNothing == \A c, R, g : Done(c, 1, R, g)
BY DEF Done

(* A statement that works on what its register holds adds itself to what   *)
(* is done, and undoes nothing else.                                       *)
LEMMA DoneNext ==
  ASSUME NEW c, NEW k \in Nat \ {0}, NEW R, NEW g, NEW h, NEW v,
         Done(c, k, R, g),
         \A r \in R : r # c[k].reg => h[r] = g[r],
         c[k].reg \in R => /\ h[c[k].reg] = Stored(c[k], v)
                           /\ v = IF c[k].loads THEN g[c[k].reg] ELSE {}
  PROVE  Done(c, k + 1, R, h)
<1> SUFFICES ASSUME NEW i \in 1..k, c[i].reg \in R, NEW b, Touches(c[i], b),
                    \A j \in (i + 1)..k : c[j].reg = c[i].reg => ~Touches(c[j], b)
             PROVE  b \in h[c[i].reg] <=> b \in c[i].set
  BY DEF Done
<1>1. CASE i = k
  BY <1>1 DEF Touches, Stored
<1>2. CASE i # k
  <2>1. i \in 1..(k - 1) /\ k \in (i + 1)..k /\ (\A j \in (i + 1)..(k - 1) : j \in (i + 1)..k)
    BY <1>2
  <2>2. b \in g[c[i].reg] <=> b \in c[i].set
    BY <2>1 DEF Done
  <2>3. CASE c[k].reg = c[i].reg
    <3>1. c[k].loads /\ b \notin c[k].clear /\ b \notin c[k].set
      BY <2>1, <2>3 DEF Touches
    <3> QED BY <2>2, <2>3, <3>1 DEF Stored
  <2>4. CASE c[k].reg # c[i].reg
    BY <2>2, <2>4
  <2> QED BY <2>3, <2>4
<1> QED BY <1>1, <1>2
-----------------------------------------------------------------------------
(* The three forms of statement.                                           *)
LEMMA StatementIs ==
  \A r, b : /\ Or(r, b).reg = r /\ Or(r, b).clear = {} /\ Or(r, b).set = b
            /\ AndNot(r, b).reg = r /\ AndNot(r, b).clear = b /\ AndNot(r, b).set = {}
            /\ Assign(r, b).reg = r /\ Assign(r, b).set = Duty(b)
BY DEF Or, AndNot, Assign, Duty

(* Of the three only the assignment does not load.                         *)
LEMMA Loads == \A r, b : Or(r, b).loads /\ AndNot(r, b).loads /\ ~Assign(r, b).loads
BY DEF Or, AndNot, Assign

(* No code has more than twenty statements.                                *)
LEMMA UpTo20 ==
  \A k \in 1..20 :
    \/ k = 1 \/ k = 2 \/ k = 3 \/ k = 4 \/ k = 5 \/ k = 6 \/ k = 7 \/ k = 8 \/ k = 9 \/ k = 10
    \/ k = 11 \/ k = 12 \/ k = 13 \/ k = 14 \/ k = 15 \/ k = 16 \/ k = 17 \/ k = 18 \/ k = 19 \/ k = 20
OBVIOUS

(* How many statements each code has.                                      *)
LEMMA Lengths ==
  Len(motor_start) = 18 /\ Len(motor_stop) = 16 /\ Len(fan_init) = 20 /\ Len(fan_exit) = 17
<1>1. Len(motor_start) = 18 BY DEF motor_start
<1>2. Len(motor_stop) = 16 BY DEF motor_stop
<1>3. Len(fan_init) = 20 BY DEF fan_init
<1>4. Len(fan_exit) = 17 BY DEF fan_exit
<1> QED BY <1>1, <1>2, <1>3, <1>4

(* A statement of driver d writes its own registers or a clock register.   *)
Proper(d, s) ==
  s.reg \in Private(d) \cup SetOnly /\ \A b \in s.set : b \in 0..1000

(* The code of each job.                                                   *)
LEMMA CodeIs ==
  /\ Code("start") = motor_start /\ Code("stop") = motor_stop
  /\ Code("init") = fan_init /\ Code("exit") = fan_exit
  /\ \A job \in LevelJobs : Code(job) = <<Assign("tim1_ccr1", Level[job])>>
  /\ Code("none") = <<>> /\ Code("copy") = <<>> /\ Code("decide") = <<>>
BY DEF Code, Level, LevelJobs

(* The values and the bits that the statements assign, set and clear.      *)
WholeValues == {Duty(v) : v \in {0, 208, 300, 500, 700, 800, 1000}}
BitSets ==
  {{}, {0}, {1}, {3}, {4}, {5}, {7}, {13}, {15}, {19}, {24}, {0, 1}, {5, 6}, {12, 13},
   Mode \cup {16}, 24..27}

(* The values fit into a register.                                         *)
LEMMA WholeValuesSmall == \A v \in {0, 208, 300, 500, 700, 800, 1000} : \A b \in Duty(v) : b \in 0..1000
BY DEF Duty

(* So do the bits.                                                         *)
LEMMA BitSetsSmall == \A s \in BitSets \cup WholeValues : \A b \in s : b \in 0..1000
<1> SUFFICES ASSUME NEW s \in BitSets \cup WholeValues, NEW b \in s PROVE b \in 0..1000
  OBVIOUS
<1>1. CASE s \in WholeValues
  BY <1>1 DEF WholeValues, Duty
<1>2. CASE s = Mode \cup {16} \/ s = 24..27
  BY <1>2 DEF Mode
<1>3. CASE s \in {{}, {0}, {1}, {3}, {4}, {5}, {7}, {13}, {15}, {19}, {24}, {0, 1}, {5, 6}, {12, 13}}
  BY <1>3
<1> QED BY <1>1, <1>2, <1>3 DEF BitSets

(* The one statement that sets a level is proper.                          *)
LEMMA LevelProper ==
  ASSUME NEW v \in {0, 300, 500, 800}
  PROVE  Proper("fan", Assign("tim1_ccr1", v))
<1>1. PICK c : c = Assign("tim1_ccr1", v)
  OBVIOUS
<1>2. c.reg = "tim1_ccr1" /\ c.set = Duty(v)
  BY <1>1, StatementIs
<1>3. c.reg \in Private("fan")
  BY <1>2 DEF Private
<1>4. \A b \in Duty(v) : b \in 0..1000
  BY WholeValuesSmall
<1>5. \A b \in c.set : b \in 0..1000
  BY <1>2, <1>4
<1> QED BY <1>1, <1>3, <1>5 DEF Proper

(* Every statement of a driver's code is.                                  *)
LEMMA CodeProper ==
  ASSUME NEW d \in Devs, NEW job \in Jobs(d), NEW k \in 1..Len(Code(job))
  PROVE  Proper(d, Code(job)[k])
<1>1. CASE job = "start"
  <2>1. d = "motor" /\ k \in 1..18 /\ Code(job) = motor_start
    BY <1>1, Lengths, CodeIs DEF Jobs, LevelJobs, Devs
  <2>2. motor_start[k].reg \in Private("motor") \cup SetOnly
    BY <2>1, UpTo20, StatementIs DEF motor_start, Private, SetOnly
  <2>3. motor_start[k].set \in BitSets \cup WholeValues
    BY <2>1, UpTo20, StatementIs DEF motor_start, BitSets, WholeValues
  <2>4. \A b \in motor_start[k].set : b \in 0..1000
    BY <2>3, BitSetsSmall
  <2>5. Proper("motor", motor_start[k])
    BY <2>2, <2>4 DEF Proper
  <2> QED BY <2>1, <2>5
<1>2. CASE job = "stop"
  <2>1. d = "motor" /\ k \in 1..16 /\ Code(job) = motor_stop
    BY <1>2, Lengths, CodeIs DEF Jobs, LevelJobs, Devs
  <2>2. motor_stop[k].reg \in Private("motor") \cup SetOnly
    BY <2>1, UpTo20, StatementIs DEF motor_stop, Private, SetOnly
  <2>3. motor_stop[k].set \in BitSets \cup WholeValues
    BY <2>1, UpTo20, StatementIs DEF motor_stop, BitSets, WholeValues
  <2>4. \A b \in motor_stop[k].set : b \in 0..1000
    BY <2>3, BitSetsSmall
  <2>5. Proper("motor", motor_stop[k])
    BY <2>2, <2>4 DEF Proper
  <2> QED BY <2>1, <2>5
<1>3. CASE job = "init"
  <2>1. d = "fan" /\ k \in 1..20 /\ Code(job) = fan_init
    BY <1>3, Lengths, CodeIs DEF Jobs, LevelJobs, Devs
  <2>2. fan_init[k].reg \in Private("fan") \cup SetOnly
    BY <2>1, UpTo20, StatementIs DEF fan_init, Private, SetOnly
  <2>3. fan_init[k].set \in BitSets \cup WholeValues
    BY <2>1, UpTo20, StatementIs DEF fan_init, BitSets, WholeValues
  <2>4. \A b \in fan_init[k].set : b \in 0..1000
    BY <2>3, BitSetsSmall
  <2>5. Proper("fan", fan_init[k])
    BY <2>2, <2>4 DEF Proper
  <2> QED BY <2>1, <2>5
<1>4. CASE job = "exit"
  <2>1. d = "fan" /\ k \in 1..17 /\ Code(job) = fan_exit
    BY <1>4, Lengths, CodeIs DEF Jobs, LevelJobs, Devs
  <2>2. fan_exit[k].reg \in Private("fan") \cup SetOnly
    BY <2>1, UpTo20, StatementIs DEF fan_exit, Private, SetOnly
  <2>3. fan_exit[k].set \in BitSets \cup WholeValues
    BY <2>1, UpTo20, StatementIs DEF fan_exit, BitSets, WholeValues
  <2>4. \A b \in fan_exit[k].set : b \in 0..1000
    BY <2>3, BitSetsSmall
  <2>5. Proper("fan", fan_exit[k])
    BY <2>2, <2>4 DEF Proper
  <2> QED BY <2>1, <2>5
<1>5. CASE job \in LevelJobs
  <2>1. d = "fan" BY <1>5 DEF Jobs, LevelJobs, Devs
  <2>2. Level[job] \in {0, 300, 500, 800}
    BY <1>5 DEF LevelJobs, Level
  <2>3. Code(job)[k] = Assign("tim1_ccr1", Level[job])
    BY <1>5, CodeIs
  <2> QED BY <2>1, <2>2, <2>3, LevelProper
<1> QED BY <1>1, <1>2, <1>3, <1>4, <1>5 DEF Jobs
-----------------------------------------------------------------------------
(* Statement i is the last of c that decides bit b of r, and sets or clears it. *)
Last(c, i, r, b) ==
  /\ c[i].reg = r /\ Touches(c[i], b)
  /\ \A j \in (i + 1)..Len(c) : c[j].reg = r => ~Touches(c[j], b)
Sets(c, i, r, b) == Last(c, i, r, b) /\ b \in c[i].set
Clears(c, i, r, b) == Last(c, i, r, b) /\ b \notin c[i].set

(* Once code is through, a bit is as the last statement that decides it    *)
(* says.                                                                   *)
LEMMA LastDecides ==
  ASSUME NEW c, Len(c) \in Nat, NEW R, NEW g, Done(c, Len(c) + 1, R, g),
         NEW i \in 1..Len(c), NEW r \in R
  PROVE  \A b : /\ Sets(c, i, r, b) => b \in g[r]
                /\ Clears(c, i, r, b) => b \notin g[r]
                /\ Last(c, i, r, b) => (b \in g[r] <=> b \in c[i].set)
BY DEF Done, Last, Sets, Clears

(* What a command of driver d leaves in its registers. *)
PostOf(d, job) ==
  IF d = "motor"
    THEN IF job = "start"
           THEN Wired("motor") /\ Wave("motor") /\ Timer("motor").ccr1 = Duty(700)
           ELSE ~Wired("motor") /\ Off("motor") /\ Timer("motor").ccr1 = {}
    ELSE CASE job = "init" -> Wired("fan") /\ Wave("fan") /\ Timer("fan").ccr1 = {}
           [] job = "exit" -> ~Wired("fan") /\ Off("fan") /\ Timer("fan").ccr1 = {}
           [] OTHER -> Timer("fan").ccr1 = Duty(Level[job])

(* motor_start, done, leaves the motor running (motor.c:11-58).            *)
LEMMA StartDoes ==
  ASSUME Done(motor_start, Len(motor_start) + 1, Private("motor"), reg)
  PROVE  PostOf("motor", "start")
<1>1. Clears(motor_start, 2, "gpiof_moder", 12) /\ Sets(motor_start, 3, "gpiof_moder", 13)
  BY UpTo20, StatementIs, Loads, Lengths DEF Touches, Last, Sets, Clears, motor_start
<1>2. \A b \in 25..27 : Clears(motor_start, 4, "gpiof_afrl", b)
  BY UpTo20, StatementIs, Loads, Lengths DEF Touches, Last, Clears, motor_start
<1>3. Sets(motor_start, 5, "gpiof_afrl", 24)
  BY UpTo20, StatementIs, Loads, Lengths DEF Touches, Last, Sets, motor_start
<1>4. \A b : Last(motor_start, 9, "tim16_ccr1", b)
  BY UpTo20, StatementIs, Loads, Lengths DEF Touches, Last, motor_start
<1>5. \A b \in {4, 16} : Clears(motor_start, 10, "tim16_ccmr1", b)
  BY UpTo20, StatementIs, Loads, Lengths DEF Touches, Last, Clears, motor_start, Mode
<1>6. \A b \in {5, 6} : Sets(motor_start, 11, "tim16_ccmr1", b)
  BY UpTo20, StatementIs, Loads, Lengths DEF Touches, Last, Sets, motor_start
<1>7. Clears(motor_start, 14, "tim16_ccer", 1) /\ Sets(motor_start, 15, "tim16_ccer", 0)
  BY UpTo20, StatementIs, Loads, Lengths DEF Touches, Last, Sets, Clears, motor_start
<1>8. Sets(motor_start, 17, "tim16_bdtr", 15) /\ Sets(motor_start, 18, "tim16_cr1", 0)
  BY UpTo20, StatementIs, Loads, Lengths DEF Touches, Last, Sets, motor_start
<1>9. \A i \in 1..Len(motor_start), r \in Private("motor") : \A b :
         /\ Sets(motor_start, i, r, b) => b \in reg[r]
         /\ Clears(motor_start, i, r, b) => b \notin reg[r]
         /\ Last(motor_start, i, r, b) => (b \in reg[r] <=> b \in motor_start[i].set)
  <2>1. Len(motor_start) \in Nat BY Lengths
  <2> QED BY <2>1, LastDecides, Zenon
<1>10. 12 \notin reg["gpiof_moder"] /\ 13 \in reg["gpiof_moder"]
  BY <1>1, <1>9, Lengths DEF Private
<1>11. 24 \in reg["gpiof_afrl"] /\ \A b \in 25..27 : b \notin reg["gpiof_afrl"]
  BY <1>2, <1>3, <1>9, Lengths DEF Private
<1>12. motor_start[9].set = Duty(700)
  BY StatementIs DEF motor_start
<1>13. \A b : b \in reg["tim16_ccr1"] <=> b \in motor_start[9].set
  BY <1>4, <1>9, Lengths DEF Private
<1>14. (\A b \in {4, 16} : b \notin reg["tim16_ccmr1"]) /\ (\A b \in {5, 6} : b \in reg["tim16_ccmr1"])
  BY <1>5, <1>6, <1>9, Lengths DEF Private
<1>15. 1 \notin reg["tim16_ccer"] /\ 0 \in reg["tim16_ccer"]
  BY <1>7, <1>9, Lengths DEF Private
<1>16. 15 \in reg["tim16_bdtr"] /\ 0 \in reg["tim16_cr1"]
  BY <1>8, <1>9, Lengths DEF Private
<1>17. Wired("motor")
  BY <1>10, <1>11 DEF Wired
<1>18. Wave("motor")
  BY <1>14, <1>15, <1>16 DEF Wave, Timer, Mode
<1>19. Timer("motor").ccr1 = Duty(700)
  BY <1>12, <1>13 DEF Timer, Duty
<1> QED BY <1>17, <1>18, <1>19 DEF PostOf

(* motor_stop, done, leaves it off (motor.c:63-110).                       *)
LEMMA StopDoes ==
  ASSUME Done(motor_stop, Len(motor_stop) + 1, Private("motor"), reg)
  PROVE  PostOf("motor", "stop")
<1>1. Sets(motor_stop, 15, "gpiof_moder", 12)
  BY UpTo20, StatementIs, Loads, Lengths DEF Touches, Last, Sets, motor_stop
<1>2. \A b : Last(motor_stop, 9, "tim16_ccr1", b)
  BY UpTo20, StatementIs, Loads, Lengths DEF Touches, Last, motor_stop
<1>3. Clears(motor_stop, 4, "tim16_ccer", 0)
  BY UpTo20, StatementIs, Loads, Lengths DEF Touches, Last, Clears, motor_stop
<1>4. Clears(motor_stop, 2, "tim16_bdtr", 15) /\ Clears(motor_stop, 1, "tim16_cr1", 0)
  BY UpTo20, StatementIs, Loads, Lengths DEF Touches, Last, Clears, motor_stop
<1>5. \A i \in 1..Len(motor_stop), r \in Private("motor") : \A b :
         /\ Sets(motor_stop, i, r, b) => b \in reg[r]
         /\ Clears(motor_stop, i, r, b) => b \notin reg[r]
         /\ Last(motor_stop, i, r, b) => (b \in reg[r] <=> b \in motor_stop[i].set)
  <2>1. Len(motor_stop) \in Nat BY Lengths
  <2> QED BY <2>1, LastDecides, Zenon
<1>6. 12 \in reg["gpiof_moder"]
  BY <1>1, <1>5, Lengths DEF Private
<1>7. motor_stop[9].set = {}
  BY StatementIs DEF motor_stop, Duty
<1>8. \A b : b \notin reg["tim16_ccr1"]
  BY <1>2, <1>7, <1>5, Lengths DEF Private
<1>9. 0 \notin reg["tim16_ccer"] /\ 15 \notin reg["tim16_bdtr"] /\ 0 \notin reg["tim16_cr1"]
  BY <1>3, <1>4, <1>5, Lengths DEF Private
<1>10. ~Wired("motor")
  BY <1>6 DEF Wired
<1>11. Off("motor") /\ Timer("motor").ccr1 = {}
  BY <1>8, <1>9 DEF Off, Timer
<1> QED BY <1>10, <1>11 DEF PostOf

(* motor_init of fan.c, done, leaves a wave of no width (fan.c:163-219).   *)
LEMMA InitDoes ==
  ASSUME Done(fan_init, Len(fan_init) + 1, Private("fan"), reg)
  PROVE  PostOf("fan", "init")
<1>1. Clears(fan_init, 2, "gpioe_moder", 18) /\ Sets(fan_init, 3, "gpioe_moder", 19)
  BY UpTo20, StatementIs, Loads, Lengths DEF Touches, Last, Sets, Clears, fan_init
<1>2. \A b \in 5..7 : Clears(fan_init, 4, "gpioe_afrh", b)
  BY UpTo20, StatementIs, Loads, Lengths DEF Touches, Last, Clears, fan_init
<1>3. Sets(fan_init, 5, "gpioe_afrh", 4)
  BY UpTo20, StatementIs, Loads, Lengths DEF Touches, Last, Sets, fan_init
<1>4. \A b : Last(fan_init, 9, "tim1_ccr1", b)
  BY UpTo20, StatementIs, Loads, Lengths DEF Touches, Last, fan_init
<1>5. \A b \in {4, 16} : Clears(fan_init, 10, "tim1_ccmr1", b)
  BY UpTo20, StatementIs, Loads, Lengths DEF Touches, Last, Clears, fan_init, Mode
<1>6. \A b \in {5, 6} : Sets(fan_init, 11, "tim1_ccmr1", b)
  BY UpTo20, StatementIs, Loads, Lengths DEF Touches, Last, Sets, fan_init
<1>7. Clears(fan_init, 14, "tim1_ccer", 1) /\ Sets(fan_init, 15, "tim1_ccer", 0)
  BY UpTo20, StatementIs, Loads, Lengths DEF Touches, Last, Sets, Clears, fan_init
<1>8. Sets(fan_init, 19, "tim1_bdtr", 15) /\ Sets(fan_init, 20, "tim1_cr1", 0)
  BY UpTo20, StatementIs, Loads, Lengths DEF Touches, Last, Sets, fan_init
<1>9. \A i \in 1..Len(fan_init), r \in Private("fan") : \A b :
         /\ Sets(fan_init, i, r, b) => b \in reg[r]
         /\ Clears(fan_init, i, r, b) => b \notin reg[r]
         /\ Last(fan_init, i, r, b) => (b \in reg[r] <=> b \in fan_init[i].set)
  <2>1. Len(fan_init) \in Nat BY Lengths
  <2> QED BY <2>1, LastDecides, Zenon
<1>10. 18 \notin reg["gpioe_moder"] /\ 19 \in reg["gpioe_moder"]
  BY <1>1, <1>9, Lengths DEF Private
<1>11. 4 \in reg["gpioe_afrh"] /\ \A b \in 5..7 : b \notin reg["gpioe_afrh"]
  BY <1>2, <1>3, <1>9, Lengths DEF Private
<1>12. fan_init[9].set = Duty(0)
  BY StatementIs DEF fan_init
<1>13. \A b : b \in reg["tim1_ccr1"] <=> b \in fan_init[9].set
  BY <1>4, <1>9, Lengths DEF Private
<1>14. (\A b \in {4, 16} : b \notin reg["tim1_ccmr1"]) /\ (\A b \in {5, 6} : b \in reg["tim1_ccmr1"])
  BY <1>5, <1>6, <1>9, Lengths DEF Private
<1>15. 1 \notin reg["tim1_ccer"] /\ 0 \in reg["tim1_ccer"]
  BY <1>7, <1>9, Lengths DEF Private
<1>16. 15 \in reg["tim1_bdtr"] /\ 0 \in reg["tim1_cr1"]
  BY <1>8, <1>9, Lengths DEF Private
<1>17. Wired("fan")
  BY <1>10, <1>11 DEF Wired
<1>18. Wave("fan")
  BY <1>14, <1>15, <1>16 DEF Wave, Timer, Mode
<1>19. Timer("fan").ccr1 = {}
  BY <1>12, <1>13 DEF Timer, Duty
<1> QED BY <1>17, <1>18, <1>19 DEF PostOf

(* The exit of fan.c, done, leaves the fan off (fan.c:222-272).            *)
LEMMA ExitDoes ==
  ASSUME Done(fan_exit, Len(fan_exit) + 1, Private("fan"), reg)
  PROVE  PostOf("fan", "exit")
<1>1. Clears(fan_exit, 2, "gpioe_moder", 19)
  BY UpTo20, StatementIs, Loads, Lengths DEF Touches, Last, Clears, fan_exit
<1>2. \A b : Last(fan_exit, 7, "tim1_ccr1", b)
  BY UpTo20, StatementIs, Loads, Lengths DEF Touches, Last, fan_exit
<1>3. Clears(fan_exit, 12, "tim1_ccer", 0)
  BY UpTo20, StatementIs, Loads, Lengths DEF Touches, Last, Clears, fan_exit
<1>4. Clears(fan_exit, 16, "tim1_bdtr", 15) /\ Clears(fan_exit, 17, "tim1_cr1", 0)
  BY UpTo20, StatementIs, Loads, Lengths DEF Touches, Last, Clears, fan_exit
<1>5. \A i \in 1..Len(fan_exit), r \in Private("fan") : \A b :
         /\ Sets(fan_exit, i, r, b) => b \in reg[r]
         /\ Clears(fan_exit, i, r, b) => b \notin reg[r]
         /\ Last(fan_exit, i, r, b) => (b \in reg[r] <=> b \in fan_exit[i].set)
  <2>1. Len(fan_exit) \in Nat BY Lengths
  <2> QED BY <2>1, LastDecides, Zenon
<1>6. 19 \notin reg["gpioe_moder"]
  BY <1>1, <1>5, Lengths DEF Private
<1>7. fan_exit[7].set = {}
  BY StatementIs DEF fan_exit, Duty
<1>8. \A b : b \notin reg["tim1_ccr1"]
  BY <1>2, <1>7, <1>5, Lengths DEF Private
<1>9. 0 \notin reg["tim1_ccer"] /\ 15 \notin reg["tim1_bdtr"] /\ 0 \notin reg["tim1_cr1"]
  BY <1>3, <1>4, <1>5, Lengths DEF Private
<1>10. ~Wired("fan")
  BY <1>6 DEF Wired
<1>11. Off("fan") /\ Timer("fan").ccr1 = {}
  BY <1>8, <1>9 DEF Off, Timer
<1> QED BY <1>10, <1>11 DEF PostOf

(* Every driver has registers that are not the clocks.                     *)
LEMMA PrivateInside == \A d \in Devs : Private(d) \subseteq Registers /\ SetOnly \subseteq Registers
                                        /\ Private(d) \cap SetOnly = {}
BY DEF Private, SetOnly, Registers, Devs

(* Every job, done, leaves the device as it says.                          *)
LEMMA PostDone ==
  ASSUME NEW d \in Devs, NEW job \in Jobs(d),
         Done(Code(job), Len(Code(job)) + 1, Private(d), reg)
  PROVE  PostOf(d, job)
<1>1. CASE job = "start"
  BY <1>1, CodeIs, StartDoes DEF Jobs, LevelJobs, Devs
<1>2. CASE job = "stop"
  BY <1>2, CodeIs, StopDoes DEF Jobs, LevelJobs, Devs
<1>3. CASE job = "init"
  BY <1>3, CodeIs, InitDoes DEF Jobs, LevelJobs, Devs
<1>4. CASE job = "exit"
  BY <1>4, CodeIs, ExitDoes DEF Jobs, LevelJobs, Devs
<1>5. CASE job \in LevelJobs
  <2>1. d = "fan" BY <1>5 DEF Jobs, LevelJobs, Devs
  <2>2. PICK c : c = Code(job)
    OBVIOUS
  <2>3. PICK a : a = Assign("tim1_ccr1", Level[job])
    OBVIOUS
  <2>4. c = <<a>>
    BY <1>5, <2>2, <2>3, CodeIs
  <2>5. a.reg = "tim1_ccr1" /\ a.set = Duty(Level[job]) /\ ~a.loads
    BY <2>3, StatementIs, Loads
  <2>6. c[1] = a /\ Len(c) = 1
    BY <2>4
  <2>7. Done(c, 2, Private(d), reg)
    BY <2>2, <2>6
  <2>8. \A b : b \in reg["tim1_ccr1"] <=> b \in a.set
    BY <2>1, <2>5, <2>6, <2>7 DEF Done, Touches, Private
  <2>9. job # "init" /\ job # "exit"
    BY <1>5 DEF LevelJobs
  <2>10. reg["tim1_ccr1"] = Duty(Level[job])
    BY <2>5, <2>8
  <2>11. Timer("fan").ccr1 = reg["tim1_ccr1"]
    BY DEF Timer
  <2>12. PostOf("fan", job) = (Timer("fan").ccr1 = Duty(Level[job]))
    BY <2>9 DEF PostOf
  <2> QED BY <2>1, <2>10, <2>11, <2>12
<1> QED BY <1>1, <1>2, <1>3, <1>4, <1>5 DEF Jobs

-----------------------------------------------------------------------------
(* What the variables hold.                                                *)
Works == {"none", "copy", "decide"} \cup Jobs("fan") \cup Jobs("motor")
Texts == {<<>>, <<0>>, <<1>>} \cup FanTexts
Olds == {<<>>} \cup {<<s>> : s \in Values}
Doing == [dev : Devs, job : Works, at : Nat, old : Olds, text : Texts, own : BOOLEAN]

(* The type invariant, as strong as the steps need it.                     *)
Typed ==
  /\ reg \in [Registers -> Values]
  /\ kbuf \in [Devs -> [1..3 -> Chars]]
  /\ loaded \subseteq Devs
  /\ th \in [Threads -> Doing]
  /\ told \in [Devs -> [job : Works, text : Texts, buf : [1..3 -> Chars]]]
  /\ alone \in [Devs -> BOOLEAN]

(* What a thread does belongs to the driver that it is in. *)
Working(t) ==
  /\ th[t].job \in {"none", "copy", "decide"} \cup Jobs(th[t].dev)
  /\ th[t].at \in 1..(Len(Code(th[t].job)) + 1)
  /\ th[t].old # <<>> => Running(t) /\ Split(t)

(* No two threads are each alone. *)
Apart ==
  \A t, u \in Threads :
    t # u /\ th[t].job # "none" /\ th[u].job # "none" /\ th[t].dev = th[u].dev => ~th[t].own

(* What the invariants below rest on.                                      *)
Basics == Typed /\ (\A t \in Threads : Working(t)) /\ Apart

(* A text is a sequence of at most three characters.                       *)
LEMMA TextsTyped == \A s \in Texts : s \in Seq(Chars) /\ Len(s) <= 3
<1> SUFFICES ASSUME NEW s \in Texts PROVE s \in Seq(Chars) /\ Len(s) <= 3
  OBVIOUS
<1>1. CASE s = <<>>
  BY <1>1
<1>2. CASE s = <<0>> \/ s = <<1>>
  <2>1. 0 \in Chars /\ 1 \in Chars BY DEF Chars
  <2>2. <<0>> \in Seq(Chars) /\ <<1>> \in Seq(Chars) /\ Len(<<0>>) = 1 /\ Len(<<1>>) = 1
    BY <2>1
  <2>3. s = <<0>> => s \in Seq(Chars) /\ Len(s) <= 3
    BY <2>2
  <2>4. s = <<1>> => s \in Seq(Chars) /\ Len(s) <= 3
    BY <2>2
  <2> QED BY <1>2, <2>3, <2>4
<1>3. CASE s \in FanTexts
  BY <1>3, PwmAssumption DEF Number
<1> QED BY <1>1, <1>2, <1>3 DEF Texts

(* A thread that is in no driver.                                          *)
LEMMA IdleTyped ==
  /\ Idle \in Doing /\ Idle.job = "none" /\ Idle.at = 1 /\ Idle.old = <<>> /\ Idle.text = <<>>
  /\ Idle.dev = "fan" /\ Idle.own
<1>1. Idle.job = "none" /\ Idle.at = 1 /\ Idle.old = <<>> /\ Idle.text = <<>> /\ Idle.dev = "fan"
  BY DEF Idle
<1>2. Idle.own
  BY DEF Idle
<1>3. "none" \in Works /\ <<>> \in Olds /\ <<>> \in Texts /\ "fan" \in Devs
  BY DEF Works, Olds, Texts, Devs
<1>4. Idle \in Doing
  BY <1>3 DEF Idle, Doing
<1> QED BY <1>1, <1>2, <1>4

(* A step leaves thread u where it is in its work. *)
Stays(u) ==
  /\ th'[u].dev = th[u].dev /\ th'[u].job = th[u].job /\ th'[u].at = th[u].at
  /\ th'[u].old = th[u].old /\ th'[u].text = th[u].text

(* Where it stays, so does its statement.                                  *)
LEMMA StaysRunning ==
  ASSUME NEW u, Stays(u)
  PROVE  (Running(u)' <=> Running(u)) /\ Now(u)' = Now(u) /\ (Split(u)' <=> Split(u))
BY DEF Stays, Running, Now, Split

(* Thread t enters driver d: it is at the start of its job, and alone only *)
(* if nobody is inside; who is inside is not alone any more.               *)
LEMMA Entered ==
  ASSUME th \in [Threads -> Doing], NEW t \in Threads, NEW d \in Devs, NEW job \in Works,
         NEW text \in Texts, Enter(t, d, job, text)
  PROVE  /\ th' \in [Threads -> Doing] /\ th[t].job = "none"
         /\ th'[t].dev = d /\ th'[t].job = job /\ th'[t].at = 1 /\ th'[t].old = <<>>
         /\ th'[t].text = text
         /\ th'[t].own <=> In(d) = {}
         /\ \A u \in Threads \ {t} : /\ Stays(u)
                                     /\ th'[u].own <=> (th[u].own /\ th[u].dev # d)
<1> DEFINE h == [Idle EXCEPT !.dev = d, !.job = job, !.text = text, !.own = (In(d) = {})]
           g(u) == [th[u] EXCEPT !.own = @ /\ th[u].dev # d]
<1>1. th[t].job = "none" /\ th' = [u \in Threads |-> IF u = t THEN h ELSE g(u)]
  BY DEF Enter
<1>2. h \in Doing
  BY IdleTyped DEF Doing
<1>3. /\ h.dev = d /\ h.job = job /\ h.at = 1 /\ h.old = <<>> /\ h.text = text
  BY DEF Idle
<1>4. h.own <=> In(d) = {}
  BY DEF Idle
<1>6. ASSUME NEW u \in Threads
      PROVE  /\ g(u) \in Doing
             /\ g(u).own <=> (th[u].own /\ th[u].dev # d)
             /\ g(u).dev = th[u].dev /\ g(u).job = th[u].job /\ g(u).at = th[u].at
             /\ g(u).old = th[u].old /\ g(u).text = th[u].text
  BY DEF Doing
<1> HIDE DEF h, g
<1>7. th' \in [Threads -> Doing]
  BY <1>1, <1>2, <1>6
<1>8. th'[t] = h /\ \A u \in Threads \ {t} : th'[u] = g(u)
  BY <1>1
<1>9. \A u \in Threads \ {t} : /\ Stays(u)
                               /\ th'[u].own <=> (th[u].own /\ th[u].dev # d)
  BY <1>6, <1>8 DEF Stays
<1>10. th'[t].own <=> In(d) = {}
  BY <1>4, <1>8
<1> QED BY <1>1, <1>3, <1>7, <1>8, <1>9, <1>10

(* Waiting, copying and deciding are no jobs of a driver.                  *)
LEMMA JobsApart ==
  \A d \in Devs : /\ "none" \notin Jobs(d) /\ "copy" \notin Jobs(d) /\ "decide" \notin Jobs(d)
                  /\ Jobs(d) \subseteq Works
BY DEF Jobs, LevelJobs, Works, Devs

(* These four have at least one statement.                                 *)
LEMMA JobLengths ==
  ASSUME NEW job \in {"start", "stop", "init", "exit"}
  PROVE  Len(Code(job)) \in Nat /\ Len(Code(job)) > 0
<1>1. PICK c : c = Code(job)
  OBVIOUS
<1>2. c = motor_start \/ c = motor_stop \/ c = fan_init \/ c = fan_exit
  BY <1>1, CodeIs
<1>3. Len(c) = 18 \/ Len(c) = 16 \/ Len(c) = 20 \/ Len(c) = 17
  BY <1>2, Lengths, Zenon
<1>4. Len(c) \in Nat /\ Len(c) > 0
  BY <1>3
<1> QED BY <1>1, <1>4

(* A thread has code exactly if it has a job of its driver.                *)
LEMMA CodeLong ==
  \A d \in Devs : \A job \in Jobs(d) \cup {"none", "copy", "decide"} :
    /\ Len(Code(job)) \in Nat
    /\ Len(Code(job)) > 0 <=> job \in Jobs(d)
    /\ Code(job) # <<>> <=> job \in Jobs(d)
<1> SUFFICES ASSUME NEW d \in Devs, NEW job \in Jobs(d) \cup {"none", "copy", "decide"}
             PROVE  /\ Len(Code(job)) \in Nat
                    /\ Len(Code(job)) > 0 <=> job \in Jobs(d)
                    /\ Code(job) # <<>> <=> job \in Jobs(d)
  OBVIOUS
<1>1. CASE job \in {"none", "copy", "decide"}
  BY <1>1, CodeIs, JobsApart
<1>2. CASE job \in {"start", "stop", "init", "exit"}
  <2>1. Len(Code(job)) \in Nat /\ Len(Code(job)) > 0
    BY <1>2, JobLengths
  <2>2. Code(job) # <<>>
    BY <2>1
  <2> QED BY <1>2, <2>1, <2>2
<1>3. CASE job \in LevelJobs
  <2>1. PICK c : c = Code(job)
    OBVIOUS
  <2>2. PICK a : c = <<a>>
    BY <1>3, <2>1, CodeIs
  <2>3. Len(c) = 1 /\ c # <<>>
    BY <2>2
  <2>4. job \in Jobs(d)
    BY <1>3 DEF LevelJobs
  <2> QED BY <2>1, <2>3, <2>4
<1> QED BY <1>1, <1>2, <1>3 DEF Jobs

(* A thread that is at a statement has a job of its driver. *)
LEMMA AtWork ==
  ASSUME NEW t \in Threads, th \in [Threads -> Doing], Working(t), Running(t)
  PROVE  /\ th[t].dev \in Devs /\ th[t].job \in Jobs(th[t].dev)
         /\ th[t].at \in 1..Len(Code(th[t].job)) /\ Proper(th[t].dev, Now(t))
<1>1. th[t].dev \in Devs /\ th[t].job \in Jobs(th[t].dev) \cup {"none", "copy", "decide"}
      /\ th[t].at \in Nat
  BY DEF Doing, Working
<1>2. Len(Code(th[t].job)) \in Nat
  BY <1>1, CodeLong
<1>3. th[t].at \in 1..Len(Code(th[t].job))
  BY <1>1, <1>2 DEF Working, Running
<1>4. Len(Code(th[t].job)) > 0
  BY <1>2, <1>3
<1>5. th[t].job \in Jobs(th[t].dev)
  BY <1>1, <1>4, CodeLong
<1> QED BY <1>1, <1>3, <1>5, CodeProper DEF Now

(* Entering keeps the types and makes nobody alone who is not.             *)
LEMMA EnterBasics ==
  ASSUME th \in [Threads -> Doing], \A u \in Threads : Working(u), Apart,
         NEW t \in Threads, NEW d \in Devs, NEW job \in {"copy"} \cup Jobs(d),
         NEW text \in Texts, Enter(t, d, job, text)
  PROVE  th' \in [Threads -> Doing] /\ (\A u \in Threads : Working(u)') /\ Apart'
<1>1. job \in Works /\ job # "none"
  BY JobsApart DEF Works
<1>2. /\ th' \in [Threads -> Doing] /\ th[t].job = "none"
      /\ th'[t].dev = d /\ th'[t].job = job /\ th'[t].at = 1 /\ th'[t].old = <<>>
  BY <1>1, Entered
<1>3. th'[t].own <=> In(d) = {}
  BY <1>1, Entered
<1>4. \A u \in Threads \ {t} : /\ Stays(u)
                               /\ th'[u].own <=> (th[u].own /\ th[u].dev # d)
  BY <1>1, Entered
<1>5. Working(t)'
  <2>1. Len(Code(job)) \in Nat
    BY CodeLong
  <2> QED BY <1>2, <2>1 DEF Working
<1>6. ASSUME NEW u \in Threads \ {t} PROVE Working(u)'
  BY <1>4, StaysRunning DEF Working, Stays
<1>7. ASSUME NEW v \in Threads, NEW u \in Threads, v # u, th'[v].job # "none", th'[u].job # "none"
      PROVE  th'[v].dev = th'[u].dev => ~th'[v].own
  <2>1. CASE v = t
    <3>1. th'[u].dev = d => u \in In(d)
      BY <1>4, <1>7, <2>1 DEF In, Stays
    <3> QED BY <1>2, <1>3, <2>1, <3>1
  <2>2. CASE v # t /\ u = t
    BY <1>2, <1>4, <2>2 DEF Stays
  <2>3. CASE v # t /\ u # t
    BY <1>4, <1>7, <2>3 DEF Stays, Apart
  <2> QED BY <2>1, <2>2, <2>3
<1> QED BY <1>2, <1>5, <1>6, <1>7 DEF Apart

(* A step of thread t in the work that it has, or the end of it. *)
Goes(t) ==
  /\ \A u \in Threads \ {t} : th'[u] = th[u]
  /\ \/ th'[t] = Idle
     \/ /\ th[t].job # "none" /\ th'[t].dev = th[t].dev /\ th'[t].text = th[t].text
        /\ th'[t].own <=> th[t].own

(* So does a step that changes one thread.                                 *)
LEMMA GoesBasics ==
  ASSUME th \in [Threads -> Doing], th' \in [Threads -> Doing], \A u \in Threads : Working(u),
         Apart, NEW t \in Threads, Goes(t), Working(t)'
  PROVE  (\A u \in Threads : Working(u)') /\ Apart'
<1>1. ASSUME NEW u \in Threads \ {t} PROVE Working(u)'
  <2>1. Stays(u) /\ th'[u].own = th[u].own
    BY DEF Goes, Stays
  <2> QED BY <2>1, StaysRunning DEF Working, Stays
<1>2. th'[t].job # "none" => /\ th[t].job # "none" /\ th'[t].dev = th[t].dev
                             /\ (th'[t].own => th[t].own)
  BY IdleTyped DEF Goes
<1>3. ASSUME NEW v \in Threads, NEW u \in Threads, v # u, th'[v].job # "none", th'[u].job # "none"
      PROVE  th'[v].dev = th'[u].dev => ~th'[v].own
  BY <1>2, <1>3 DEF Goes, Apart
<1> QED BY <1>1, <1>3 DEF Apart

(* The copy: the buffer begins with the text.                              *)
LEMMA CopyGoes ==
  ASSUME Typed, NEW t \in Threads, Working(t), Copy(t)
  PROVE  /\ th' \in [Threads -> Doing] /\ Goes(t) /\ Working(t)'
         /\ th'[t].job = "decide" /\ th'[t].old = <<>>
         /\ kbuf' \in [Devs -> [1..3 -> Chars]]
         /\ \A d \in Devs : IF d = th[t].dev THEN \A i \in 1..Len(th[t].text) : kbuf'[d][i] = th[t].text[i]
                            ELSE kbuf'[d] = kbuf[d]
<1>1. th' = [th EXCEPT ![t].job = "decide"] /\ th[t].job = "copy" /\ th[t] \in Doing
  BY DEF Copy, Typed
<1>2. /\ th'[t].job = "decide" /\ th'[t].dev = th[t].dev /\ th'[t].text = th[t].text
      /\ th'[t].at = th[t].at /\ th'[t].old = th[t].old
      /\ th'[t].own = th[t].own
  BY <1>1 DEF Typed, Doing
<1>3. \A u \in Threads \ {t} : th'[u] = th[u]
  BY <1>1 DEF Typed
<1>4. "decide" \in Works
  BY DEF Works
<1>5. th' \in [Threads -> Doing]
  BY <1>1, <1>4 DEF Typed, Doing
<1>6. Goes(t)
  BY <1>1, <1>2, <1>3 DEF Goes
<1>7. th[t].old = <<>> /\ th[t].at = 1
  <2>1. Code(th[t].job) = <<>> /\ Len(Code(th[t].job)) = 0
    BY <1>1, CodeIs
  <2> QED BY <2>1 DEF Working, Running
<1>8. Working(t)'
  <2>1. Len(Code(th'[t].job)) = 0
    BY <1>2, CodeIs
  <2> QED BY <1>2, <1>7, <2>1 DEF Working
<1>9. th[t].text \in Seq(Chars) /\ Len(th[t].text) <= 3 /\ th[t].dev \in Devs
  BY <1>1, TextsTyped DEF Doing
<1> DEFINE b == [i \in 1..3 |-> IF i <= Len(th[t].text) THEN th[t].text[i] ELSE kbuf[th[t].dev][i]]
<1>10. kbuf' = [kbuf EXCEPT ![th[t].dev] = b]
  BY DEF Copy
<1>11. b \in [1..3 -> Chars] /\ \A i \in 1..Len(th[t].text) : b[i] = th[t].text[i]
  BY <1>9 DEF Typed
<1> HIDE DEF b
<1>12. kbuf' \in [Devs -> [1..3 -> Chars]]
  BY <1>10, <1>11 DEF Typed
<1>13. kbuf'[th[t].dev] = b /\ \A d \in Devs : d # th[t].dev => kbuf'[d] = kbuf[d]
  BY <1>9, <1>10 DEF Typed
<1> QED BY <1>2, <1>5, <1>6, <1>7, <1>8, <1>11, <1>12, <1>13

(* A driver is asked for one of its own jobs, or for none.                 *)
LEMMA AskedIs ==
  ASSUME NEW d \in Devs
  PROVE  Asked(d) \in {"none"} \cup Jobs(d)
<1>1. CASE d = "fan"
  BY <1>1 DEF Asked, Levels, Jobs, LevelJobs
<1>2. CASE d = "motor"
  BY <1>2 DEF Asked, Jobs
<1> QED BY <1>1, <1>2 DEF Devs

(* The decision: the thread has the job it was asked for, or leaves.       *)
LEMMA DecideGoes ==
  ASSUME Typed, NEW t \in Threads, Working(t), Decide(t)
  PROVE  /\ th' \in [Threads -> Doing] /\ Goes(t) /\ Working(t)'
         /\ th[t].job = "decide" /\ th'[t].old = <<>> /\ th'[t].at = 1
         /\ th'[t] = Idle \/ (th'[t].job = Asked(th[t].dev) /\ th'[t].job \in Jobs(th[t].dev))
<1>1. th[t].job = "decide" /\ th[t] \in Doing /\ th[t].dev \in Devs
  BY DEF Decide, Typed, Doing
<1>2. PICK a : a = Asked(th[t].dev)
  OBVIOUS
<1>3. PICK h : h = IF a = "none" THEN Idle ELSE [th[t] EXCEPT !.job = a]
  OBVIOUS
<1>4. th' = [th EXCEPT ![t] = h]
  BY <1>2, <1>3 DEF Decide
<1>5. th'[t] = h /\ \A u \in Threads \ {t} : th'[u] = th[u]
  BY <1>4 DEF Typed
<1>6. th[t].old = <<>> /\ th[t].at = 1
  <2>1. Code(th[t].job) = <<>> /\ Len(Code(th[t].job)) = 0
    BY <1>1, CodeIs
  <2> QED BY <2>1 DEF Working, Running
<1>7. CASE a = "none"
  <2>1. h = Idle
    BY <1>3, <1>7
  <2>2. th' \in [Threads -> Doing]
    BY <1>4, <2>1, IdleTyped DEF Typed
  <2>3. Working(t)'
    <3>1. Len(Code("none")) = 0
      BY CodeIs
    <3> QED BY <1>5, <2>1, <3>1, IdleTyped DEF Working
  <2> QED BY <1>1, <1>5, <2>1, <2>2, <2>3, IdleTyped DEF Goes
<1>8. CASE a # "none"
  <2>1. h = [th[t] EXCEPT !.job = a] /\ a \in Jobs(th[t].dev)
    BY <1>1, <1>2, <1>3, <1>8, AskedIs
  <2>2. a \in Works
    BY <1>1, <2>1, JobsApart
  <2>3. /\ h \in Doing /\ h.job = a /\ h.dev = th[t].dev /\ h.text = th[t].text
        /\ h.at = th[t].at /\ h.old = th[t].old /\ h.own = th[t].own
    BY <1>1, <2>1, <2>2 DEF Doing
  <2>4. th' \in [Threads -> Doing]
    BY <1>4, <2>3 DEF Typed
  <2>5. Working(t)'
    <3>1. Len(Code(a)) \in Nat
      BY <1>1, <2>1, CodeLong
    <3> QED BY <1>5, <1>6, <2>1, <2>3, <3>1 DEF Working
  <2>6. Goes(t)
    BY <1>1, <1>5, <2>3 DEF Goes
  <2> QED BY <1>1, <1>2, <1>5, <1>6, <2>1, <2>3, <2>4, <2>5, <2>6
<1> QED BY <1>7, <1>8

(* The load: the thread has what the register holds.                       *)
LEMMA LoadGoes ==
  ASSUME Typed, NEW t \in Threads, Working(t), LoadReg(t)
  PROVE  /\ th' \in [Threads -> Doing] /\ Goes(t) /\ Working(t)'
         /\ th'[t].job = th[t].job /\ th'[t].at = th[t].at /\ Split(t)
         /\ Now(t)' = Now(t) /\ th'[t].old = <<reg[Now(t).reg]>>
<1>1. /\ th[t] \in Doing /\ th[t].dev \in Devs /\ th[t].job \in Jobs(th[t].dev)
      /\ Proper(th[t].dev, Now(t)) /\ Running(t) /\ Split(t)
  BY AtWork DEF LoadReg, Typed
<1>2. Now(t).reg \in Registers
  BY <1>1, PrivateInside DEF Proper
<1>3. <<reg[Now(t).reg]>> \in Olds
  BY <1>2 DEF Typed, Olds
<1>4. th' = [th EXCEPT ![t].old = <<reg[Now(t).reg]>>]
  BY DEF LoadReg
<1> DEFINE o == <<reg[Now(t).reg]>>
<1> HIDE DEF o
<1>5. /\ th'[t].old = o /\ th'[t].job = th[t].job /\ th'[t].at = th[t].at
      /\ th'[t].dev = th[t].dev /\ th'[t].text = th[t].text
      /\ th'[t].own = th[t].own
  BY <1>4 DEF Typed, Doing, o
<1>6. th' \in [Threads -> Doing]
  BY <1>3, <1>4 DEF Typed, Doing, o
<1>7. th[t].job # "none"
  BY <1>1, JobsApart
<1>8. Goes(t)
  BY <1>4, <1>5, <1>7 DEF Goes, Typed
<1>9. (Running(t)' <=> Running(t)) /\ Now(t)' = Now(t) /\ (Split(t)' <=> Split(t))
  BY <1>5 DEF Running, Now, Split
<1>10. Working(t)'
  BY <1>1, <1>5, <1>9 DEF Working
<1> QED BY <1>1, <1>5, <1>6, <1>8, <1>9, <1>10 DEF o

(* What the statement that thread t is at works on. *)
Operand(t) ==
  IF Split(t) THEN th[t].old[1] ELSE IF Now(t).loads THEN reg[Now(t).reg] ELSE {}

(* The store: one register has the new value.                              *)
LEMMA StoreGoes ==
  ASSUME Typed, NEW t \in Threads, Working(t), StoreReg(t)
  PROVE  /\ th' \in [Threads -> Doing] /\ Goes(t) /\ Working(t)' /\ Running(t)
         /\ th'[t].job = th[t].job /\ th'[t].at = th[t].at + 1 /\ th'[t].old = <<>>
         /\ reg' \in [Registers -> Values]
         /\ Now(t).reg \in Registers
         /\ Now(t).reg \notin SetOnly => reg'[Now(t).reg] = Stored(Now(t), Operand(t))
         /\ Now(t).reg \in SetOnly => Now(t).set \subseteq reg'[Now(t).reg]
         /\ \A r \in Registers : r # Now(t).reg => reg'[r] = reg[r]
         /\ \A r \in SetOnly : reg[r] \subseteq reg'[r]
         /\ Split(t) => th[t].old # <<>>
<1>1. /\ th[t] \in Doing /\ th[t].dev \in Devs /\ th[t].job \in Jobs(th[t].dev)
      /\ Proper(th[t].dev, Now(t)) /\ Running(t) /\ th[t].at \in 1..Len(Code(th[t].job))
  BY AtWork DEF StoreReg, Typed
<1>2. Now(t).reg \in Registers
  BY <1>1, PrivateInside DEF Proper
<1>3. th' = [th EXCEPT ![t].at = @ + 1, ![t].old = <<>>]
  BY DEF StoreReg
<1>4. th[t].at \in Nat /\ Len(Code(th[t].job)) \in Nat
  BY <1>1, CodeLong DEF Doing
<1>5. /\ th'[t].old = <<>> /\ th'[t].job = th[t].job /\ th'[t].at = th[t].at + 1
      /\ th'[t].dev = th[t].dev /\ th'[t].text = th[t].text
      /\ th'[t].own = th[t].own
  BY <1>3 DEF Typed, Doing
<1>6. th' \in [Threads -> Doing]
  <2>1. <<>> \in Olds /\ th[t].at + 1 \in Nat
    BY <1>4 DEF Olds
  <2>2. th'[t] = [th[t] EXCEPT !.at = @ + 1, !.old = <<>>]
    BY <1>3 DEF Typed
  <2>3. th'[t] \in Doing
    BY <1>1, <2>1, <2>2 DEF Doing
  <2>4. th' = [u \in Threads |-> th'[u]] /\ \A u \in Threads \ {t} : th'[u] = th[u]
    BY <1>3 DEF Typed
  <2> QED BY <2>3, <2>4 DEF Typed
<1>7. th[t].job # "none"
  BY <1>1, JobsApart
<1>8. Goes(t)
  BY <1>3, <1>5, <1>7 DEF Goes, Typed
<1>9. Working(t)'
  BY <1>1, <1>4, <1>5 DEF Working
<1> DEFINE new == IF Now(t).reg \in SetOnly THEN reg[Now(t).reg] \cup Stored(Now(t), Operand(t))
                  ELSE Stored(Now(t), Operand(t))
<1>10. reg' = [reg EXCEPT ![Now(t).reg] = new]
  BY DEF StoreReg, Stored, Operand
<1>11. Split(t) => th[t].old # <<>>
  BY DEF StoreReg
<1>12. Operand(t) \in Values
  <2>1. CASE Split(t)
    <3>1. PICK s \in Values : th[t].old = <<s>>
      BY <1>1, <1>11, <2>1 DEF Doing, Olds
    <3>2. th[t].old[1] = s
      BY <3>1
    <3> QED BY <2>1, <3>2 DEF Operand
  <2>2. CASE ~Split(t)
    BY <1>2, <2>2 DEF Operand, Typed, Values
  <2> QED BY <2>1, <2>2
<1>13. Stored(Now(t), Operand(t)) \in Values
  <2>1. \A b \in Operand(t) : b \in 0..1000
    BY <1>12 DEF Values
  <2>2. \A b \in Now(t).set : b \in 0..1000
    BY <1>1 DEF Proper
  <2> QED BY <2>1, <2>2 DEF Stored, Values
<1>14. new \in Values /\ reg' \in [Registers -> Values]
  BY <1>2, <1>10, <1>13 DEF Typed, Values
<1>15. reg'[Now(t).reg] = new /\ \A r \in Registers : r # Now(t).reg => reg'[r] = reg[r]
  BY <1>2, <1>10 DEF Typed
<1>16. /\ Now(t).reg \notin SetOnly => reg'[Now(t).reg] = Stored(Now(t), Operand(t))
       /\ Now(t).reg \in SetOnly => Now(t).set \subseteq reg'[Now(t).reg]
  BY <1>15 DEF Stored
<1>17. \A r \in SetOnly : r \in Registers /\ reg[r] \subseteq reg'[r]
  BY <1>15, PrivateInside DEF Devs
<1> QED BY <1>1, <1>2, <1>5, <1>6, <1>8, <1>9, <1>11, <1>14, <1>15, <1>16, <1>17

(* The end of a command: it is recorded, and the thread leaves.            *)
LEMMA FinishGoes ==
  ASSUME Typed, NEW t \in Threads, Working(t), Finish(t)
  PROVE  /\ th' \in [Threads -> Doing] /\ Goes(t) /\ Working(t)' /\ th'[t] = Idle
         /\ th[t].dev \in Devs /\ th[t].job \in Jobs(th[t].dev) /\ th[t].at = Len(Code(th[t].job)) + 1
         /\ told' \in [Devs -> [job : Works, text : Texts, buf : [1..3 -> Chars]]]
         /\ alone' \in [Devs -> BOOLEAN]
<1>1. th[t] \in Doing /\ th[t].dev \in Devs /\ th[t].at \in Nat
  BY DEF Typed, Doing
<1>2. th[t].job \in Jobs(th[t].dev) /\ Len(Code(th[t].job)) \in Nat
  BY <1>1, CodeLong DEF Finish, Working
<1>3. th[t].at = Len(Code(th[t].job)) + 1
  BY <1>1, <1>2 DEF Finish, Working, Running
<1>4. th' = [th EXCEPT ![t] = Idle]
  BY DEF Finish
<1>5. th'[t] = Idle /\ th' \in [Threads -> Doing] /\ Goes(t)
  BY <1>4, IdleTyped DEF Typed, Goes
<1>6. Working(t)'
  <2>1. Len(Code("none")) = 0
    BY CodeIs
  <2> QED BY <1>5, <2>1, IdleTyped DEF Working
<1>7. [job |-> th[t].job, text |-> th[t].text, buf |-> kbuf[th[t].dev]]
        \in [job : Works, text : Texts, buf : [1..3 -> Chars]]
  BY <1>1 DEF Typed, Doing
<1>8. told' \in [Devs -> [job : Works, text : Texts, buf : [1..3 -> Chars]]]
  BY <1>7 DEF Finish, Typed
<1>9. alone' \in [Devs -> BOOLEAN]
  BY <1>1 DEF Finish, Typed, Doing
<1> QED BY <1>1, <1>2, <1>3, <1>5, <1>6, <1>8, <1>9

(* Thread t enters driver d: to write, or, alone, to load or unload it. *)
Entering(t, d, job, text) ==
  /\ Enter(t, d, job, text)
  /\ reg' = reg /\ told' = told /\ alone' = alone
  /\ kbuf' \in [Devs -> [1..3 -> Chars]]
  /\ \/ /\ job = "copy" /\ text \in (IF d = "fan" THEN FanTexts ELSE {<<0>>, <<1>>})
        /\ kbuf' = kbuf /\ loaded' = loaded /\ d \in loaded
     \/ /\ job \in Jobs(d) \ LevelJobs /\ text = <<>> /\ In(d) = {}
        /\ \A e \in Devs : e # d => kbuf'[e] = kbuf[e]
        /\ IF job = "init" THEN loaded' = loaded \cup {d}
           ELSE job \in {"exit", "stop"} /\ d \in loaded /\ loaded' = loaded \ {d}

(* The buffer that kzalloc gives is empty.                                 *)
LEMMA EmptyBuffer == <<NUL, NUL, NUL>> \in [1..3 -> Chars]
BY DEF Chars

(* Every step is one of these.                                             *)
LEMMA Kinds ==
  ASSUME Typed, Next
  PROVE  \/ InitMotor
         \/ \E t \in Threads :
              \/ \E d \in Devs, job \in Works, text \in Texts : Entering(t, d, job, text)
              \/ Copy(t) \/ Decide(t) \/ LoadReg(t) \/ StoreReg(t) \/ Finish(t)
<1>1. ASSUME NEW t \in Threads, InitFan(t)
      PROVE  Entering(t, "fan", "init", <<>>)
  <2>1. kbuf' \in [Devs -> [1..3 -> Chars]] /\ \A e \in Devs : e # "fan" => kbuf'[e] = kbuf[e]
    BY <1>1, EmptyBuffer DEF InitFan, Typed
  <2>2. "init" \in Jobs("fan") \ LevelJobs
    BY DEF Jobs, LevelJobs
  <2> QED BY <1>1, <2>1, <2>2 DEF InitFan, Entering
<1>2. ASSUME NEW t \in Threads, NEW d \in Devs, Exit(t, d)
      PROVE  \E job \in Works : Entering(t, d, job, <<>>)
  <2>1. PICK job : job = IF d = "fan" THEN "exit" ELSE "stop"
    OBVIOUS
  <2>2. job \in Jobs(d) \ LevelJobs /\ job \in {"exit", "stop"} /\ job # "init" /\ job \in Works
    BY <2>1 DEF Jobs, LevelJobs, Works, Devs
  <2>3. Enter(t, d, job, <<>>)
    BY <1>2, <2>1 DEF Exit
  <2> QED BY <1>2, <2>2, <2>3 DEF Exit, Entering, Typed
<1>3. ASSUME NEW t \in Threads, NEW d \in Devs, Write(t, d)
      PROVE  \E text \in Texts : Entering(t, d, "copy", text)
  <2>1. PICK text \in IF d = "fan" THEN FanTexts ELSE {<<0>>, <<1>>} : Enter(t, d, "copy", text)
    BY <1>3 DEF Write
  <2>2. text \in Texts
    BY <2>1 DEF Texts
  <2> QED BY <1>3, <2>1, <2>2 DEF Write, Entering, Typed
<1>4. "init" \in Works /\ "copy" \in Works /\ <<>> \in Texts /\ "fan" \in Devs
  BY DEF Works, Texts, Devs, Jobs
<1> QED BY <1>1, <1>2, <1>3, <1>4 DEF Next

(* The basics hold at first.                                               *)
LEMMA BasicsInit == Init => Basics
<1> SUFFICES ASSUME Init PROVE Basics
  OBVIOUS
<1>1. kbuf = [d \in Devs |-> <<NUL, NUL, NUL>>] /\ th = [t \in Threads |-> Idle]
      /\ reg = [r \in Registers |-> {}] /\ loaded = {}
  BY DEF Init
<1>2. kbuf \in [Devs -> [1..3 -> Chars]] /\ reg \in [Registers -> Values] /\ loaded \subseteq Devs
  BY <1>1, EmptyBuffer DEF Values
<1>3. \A d \in Devs : [job |-> "none", text |-> <<>>, buf |-> kbuf[d]]
                        \in [job : Works, text : Texts, buf : [1..3 -> Chars]]
  BY <1>2 DEF Works, Texts
<1>4. told \in [Devs -> [job : Works, text : Texts, buf : [1..3 -> Chars]]]
  BY <1>3 DEF Init
<1>5. alone \in [Devs -> BOOLEAN]
  BY DEF Init
<1>6. Typed
  BY <1>1, <1>2, <1>4, <1>5, IdleTyped DEF Typed
<1>7. \A t \in Threads : Working(t)
  <2>1. Len(Code("none")) = 0
    BY CodeIs
  <2> QED BY <1>1, <2>1, IdleTyped DEF Working
<1>8. Apart
  BY <1>1, IdleTyped DEF Apart
<1> QED BY <1>6, <1>7, <1>8 DEF Basics

(* Every step keeps them.                                                  *)
LEMMA BasicsStep == Basics /\ [Next]_vars => Basics'
<1> SUFFICES ASSUME Basics, [Next]_vars PROVE Basics'
  OBVIOUS
<1> USE DEF Basics
<1>1. CASE UNCHANGED vars
  BY <1>1 DEF vars, Typed, Working, Apart, Running, Now, Split
<1>2. ASSUME InitMotor PROVE Basics'
  <2>1. kbuf' \in [Devs -> [1..3 -> Chars]] /\ loaded' \subseteq Devs
    BY <1>2, EmptyBuffer DEF InitMotor, Typed, Devs
  <2> QED BY <1>2, <2>1 DEF InitMotor, Typed, Working, Apart, Running, Now, Split
<1>3. ASSUME NEW t \in Threads, NEW d \in Devs, NEW job \in Works, NEW text \in Texts,
             Entering(t, d, job, text)
      PROVE  Basics'
  <2>1. th \in [Threads -> Doing] /\ Enter(t, d, job, text) /\ job \in {"copy"} \cup Jobs(d)
    BY <1>3 DEF Entering, Typed
  <2>2. th' \in [Threads -> Doing] /\ (\A u \in Threads : Working(u)') /\ Apart'
    BY <2>1, EnterBasics
  <2>3. loaded' \subseteq Devs
    BY <1>3 DEF Entering, Typed
  <2> QED BY <1>3, <2>2, <2>3 DEF Entering, Typed
<1>4. ASSUME NEW t \in Threads, Copy(t) PROVE Basics'
  <2>1. th' \in [Threads -> Doing] /\ Goes(t) /\ Working(t)' /\ kbuf' \in [Devs -> [1..3 -> Chars]]
    BY <1>4, CopyGoes
  <2>2. (\A u \in Threads : Working(u)') /\ Apart'
    BY <2>1, GoesBasics DEF Typed
  <2> QED BY <1>4, <2>1, <2>2 DEF Copy, Typed
<1>5. ASSUME NEW t \in Threads, Decide(t) PROVE Basics'
  <2>1. th' \in [Threads -> Doing] /\ Goes(t) /\ Working(t)'
    BY <1>5, DecideGoes
  <2>2. (\A u \in Threads : Working(u)') /\ Apart'
    BY <2>1, GoesBasics DEF Typed
  <2> QED BY <1>5, <2>1, <2>2 DEF Decide, Typed
<1>6. ASSUME NEW t \in Threads, LoadReg(t) PROVE Basics'
  <2>1. th' \in [Threads -> Doing] /\ Goes(t) /\ Working(t)'
    BY <1>6, LoadGoes
  <2>2. (\A u \in Threads : Working(u)') /\ Apart'
    BY <2>1, GoesBasics DEF Typed
  <2> QED BY <1>6, <2>1, <2>2 DEF LoadReg, Typed
<1>7. ASSUME NEW t \in Threads, StoreReg(t) PROVE Basics'
  <2>1. th' \in [Threads -> Doing] /\ Goes(t) /\ Working(t)' /\ reg' \in [Registers -> Values]
    BY <1>7, StoreGoes
  <2>2. (\A u \in Threads : Working(u)') /\ Apart'
    BY <2>1, GoesBasics DEF Typed
  <2> QED BY <1>7, <2>1, <2>2 DEF StoreReg, Typed
<1>8. ASSUME NEW t \in Threads, Finish(t) PROVE Basics'
  <2>1. /\ th' \in [Threads -> Doing] /\ Goes(t) /\ Working(t)'
        /\ told' \in [Devs -> [job : Works, text : Texts, buf : [1..3 -> Chars]]]
        /\ alone' \in [Devs -> BOOLEAN]
    BY <1>8, FinishGoes
  <2>2. (\A u \in Threads : Working(u)') /\ Apart'
    BY <2>1, GoesBasics DEF Typed
  <2> QED BY <1>8, <2>1, <2>2 DEF Finish, Typed
<1> QED BY <1>1, <1>2, <1>3, <1>4, <1>5, <1>6, <1>7, <1>8, Kinds
-----------------------------------------------------------------------------
(* What a command that is alone has done so far is in its registers. *)
Progress(t) ==
  LET R == Private(th[t].dev)
  IN  th[t].job \in Jobs(th[t].dev) /\ th[t].own =>
        /\ Done(Code(th[t].job), th[t].at, R, reg)
        /\ th[t].old # <<>> /\ Now(t).reg \in R => th[t].old[1] = reg[Now(t).reg]

(* No register belongs to both drivers.                                    *)
LEMMA PrivateApart ==
  \A d, e \in Devs : d # e => Private(d) \cap Private(e) = {}
BY DEF Private, Devs

(* What is done stays done while the registers stay.                       *)
LEMMA DoneSame ==
  ASSUME NEW c, NEW k, NEW S, NEW g, Done(c, k, S, g),
         NEW R, R \subseteq S, NEW h, \A r \in R : h[r] = g[r]
  PROVE  Done(c, k, R, h)
BY DEF Done

(* Nobody disturbs a thread that stays alone. *)
LEMMA ProgressStays ==
  ASSUME NEW u \in Threads, Progress(u), Stays(u), Basics,
         th'[u].own => th[u].own, \A r \in Private(th[u].dev) : reg'[r] = reg[r]
  PROVE  Progress(u)'
<1> SUFFICES ASSUME th'[u].job \in Jobs(th'[u].dev), th'[u].own
             PROVE  /\ Done(Code(th'[u].job), th'[u].at, Private(th'[u].dev), reg')
                    /\ th'[u].old # <<>> /\ Now(u)'.reg \in Private(th'[u].dev)
                         => th'[u].old[1] = reg'[Now(u)'.reg]
  BY DEF Progress
<1>1. Now(u)' = Now(u) /\ th'[u].old = th[u].old
  BY StaysRunning DEF Stays
<1>2. Done(Code(th[u].job), th[u].at, Private(th[u].dev), reg)
      /\ (th[u].old # <<>> /\ Now(u).reg \in Private(th[u].dev) => th[u].old[1] = reg[Now(u).reg])
  BY DEF Progress, Stays
<1>3. Done(Code(th[u].job), th[u].at, Private(th[u].dev), reg')
  BY <1>2, DoneSame
<1> QED BY <1>1, <1>2, <1>3 DEF Stays

(* A store of another thread is not among the registers of one that is alone. *)
LEMMA StoreElsewhere ==
  ASSUME Basics, NEW t \in Threads, NEW u \in Threads \ {t}, StoreReg(t),
         th[u].job # "none", th[u].own
  PROVE  \A r \in Private(th[u].dev) : reg'[r] = reg[r]
<1>1. /\ th[t].dev \in Devs /\ th[t].job # "none" /\ Proper(th[t].dev, Now(t))
  BY AtWork, JobsApart DEF StoreReg, Basics, Typed
<1>2. th[u].dev \in Devs /\ th[u].dev # th[t].dev
  BY <1>1 DEF Basics, Apart, Typed, Doing
<1>3. \A r \in Private(th[u].dev) : r \in Registers /\ r # Now(t).reg
  BY <1>1, <1>2, PrivateApart, PrivateInside DEF Proper
<1> QED BY <1>3, StoreGoes DEF Basics

(* Every step keeps what commands that are alone have done.                *)
LEMMA ProgressStep ==
  Basics /\ (\A t \in Threads : Progress(t)) /\ [Next]_vars => (\A t \in Threads : Progress(t))'
<1> SUFFICES ASSUME Basics, \A t \in Threads : Progress(t), [Next]_vars,
                    NEW u \in Threads
             PROVE  Progress(u)'
  OBVIOUS
<1> USE DEF Basics
<1>0. th \in [Threads -> Doing]
  BY DEF Typed
<1>1. CASE UNCHANGED vars
  BY <1>1 DEF vars, Progress, Now
<1>2. CASE InitMotor
  BY <1>2 DEF InitMotor, Progress, Now
<1>3. ASSUME NEW t \in Threads, NEW d \in Devs, NEW job \in Works, NEW text \in Texts,
             Entering(t, d, job, text)
      PROVE  Progress(u)'
  <2>1. Enter(t, d, job, text) /\ reg' = reg
    BY <1>3 DEF Entering
  <2>2. CASE u = t
    <3>1. th'[u].at = 1 /\ th'[u].old = <<>>
      BY <1>0, <2>1, <2>2, Entered
    <3> QED BY <3>1, DoneNothing DEF Progress
  <2>3. CASE u # t
    <3>1. Stays(u) /\ (th'[u].own => th[u].own)
      BY <1>0, <2>1, <2>3, Entered
    <3> QED BY <2>1, <3>1, ProgressStays
  <2> QED BY <2>2, <2>3
<1>4. ASSUME NEW t \in Threads, t # u, Goes(t), reg' = reg \/ StoreReg(t)
      PROVE  Progress(u)'
  <2>1. Stays(u) /\ th'[u].own = th[u].own
    BY <1>4 DEF Goes, Stays
  <2>2. CASE reg' = reg
    BY <2>1, <2>2, ProgressStays
  <2>3. CASE StoreReg(t) /\ th[u].job # "none" /\ th[u].own
    BY <1>4, <2>1, <2>3, StoreElsewhere, ProgressStays
  <2>4. CASE th[u].job = "none" \/ ~th[u].own
    <3>1. th[u].dev \in Devs
      BY <1>0 DEF Doing
    <3> QED BY <2>1, <2>4, <3>1, JobsApart DEF Progress, Stays
  <2> QED BY <1>4, <2>2, <2>3, <2>4
<1>5. CASE Copy(u)
  <2>1. th'[u].job = "decide" /\ th' \in [Threads -> Doing]
    BY <1>5, CopyGoes
  <2>2. th'[u].dev \in Devs
    BY <2>1 DEF Doing
  <2> QED BY <2>1, <2>2, JobsApart DEF Progress
<1>6. CASE Decide(u)
  <2>1. th'[u].at = 1 /\ th'[u].old = <<>>
    BY <1>6, DecideGoes
  <2> QED BY <2>1, DoneNothing DEF Progress
<1>7. CASE LoadReg(u)
  <2>1. /\ Goes(u) /\ th'[u].job = th[u].job /\ th'[u].at = th[u].at
        /\ Now(u)' = Now(u) /\ th'[u].old = <<reg[Now(u).reg]>> /\ reg' = reg
    BY <1>7, LoadGoes DEF LoadReg
  <2>2. th[u].job # "none" /\ th[u].dev \in Devs
    BY <1>0, <1>7, AtWork, JobsApart DEF LoadReg
  <2>3. th'[u].job # "none"
    BY <2>1, <2>2
  <2>4. /\ th'[u].dev = th[u].dev
        /\ th'[u].own <=> th[u].own
    BY <2>1, <2>3, IdleTyped DEF Goes
  <2>5. th'[u].old[1] = reg[Now(u).reg]
    BY <2>1
  <2> QED BY <2>1, <2>4, <2>5 DEF Progress
<1>8. CASE StoreReg(u)
  <2>1. /\ Goes(u) /\ Running(u) /\ th'[u].job = th[u].job /\ th'[u].at = th[u].at + 1
        /\ th'[u].old = <<>> /\ Now(u).reg \in Registers
        /\ Now(u).reg \notin SetOnly => reg'[Now(u).reg] = Stored(Now(u), Operand(u))
        /\ \A r \in Registers : r # Now(u).reg => reg'[r] = reg[r]
        /\ Split(u) => th[u].old # <<>>
    BY <1>8, StoreGoes
  <2>2. th[u].job # "none" /\ th[u].dev \in Devs
    BY <1>0, <1>8, AtWork, JobsApart DEF StoreReg
  <2>3. th'[u].job # "none"
    BY <2>1, <2>2
  <2>4. /\ th'[u].dev = th[u].dev
        /\ th'[u].own <=> th[u].own
    BY <2>1, <2>3, IdleTyped DEF Goes
  <2>5. PICK R : R = Private(th[u].dev)
    OBVIOUS
  <2>8. R \subseteq Registers /\ R \cap SetOnly = {}
    BY <2>2, <2>5, PrivateInside
  <2>6. th[u].job \in Jobs(th[u].dev) /\ th[u].at \in Nat \ {0}
    BY <1>0, <2>1, AtWork
  <2>7. ASSUME th[u].own
        PROVE  Done(Code(th[u].job), th[u].at + 1, R, reg')
    <3>1. Done(Code(th[u].job), th[u].at, R, reg)
          /\ (th[u].old # <<>> /\ Now(u).reg \in R => th[u].old[1] = reg[Now(u).reg])
      BY <2>5, <2>6, <2>7 DEF Progress
    <3>2. Now(u) = Code(th[u].job)[th[u].at]
      BY DEF Now
    <3>3. Now(u).reg \in R =>
            Operand(u) = (IF Now(u).loads THEN reg[Now(u).reg] ELSE {})
      BY <2>1, <3>1 DEF Operand, Split
    <3>4. \A r \in R : r # Now(u).reg => reg'[r] = reg[r]
      BY <2>1, <2>8
    <3>5. PICK c : c = Code(th[u].job)
      OBVIOUS
    <3>6. PICK k \in Nat \ {0} : k = th[u].at
      BY <2>6
    <3>7. PICK v : v = Operand(u)
      OBVIOUS
    <3>9. Done(c, k, R, reg) /\ \A r \in R : r # c[k].reg => reg'[r] = reg[r]
      BY <3>1, <3>2, <3>4, <3>5, <3>6
    <3>10. c[k].reg \in R => /\ reg'[c[k].reg] = Stored(c[k], v)
                             /\ v = IF c[k].loads THEN reg[c[k].reg] ELSE {}
      BY <2>1, <2>8, <3>2, <3>3, <3>5, <3>6, <3>7
    <3>11. Done(c, k + 1, R, reg')
      BY <3>9, <3>10, DoneNext
    <3> QED BY <3>5, <3>6, <3>11
  <2> QED BY <2>1, <2>4, <2>5, <2>7 DEF Progress
<1>9. CASE Finish(u)
  <2>1. th'[u] = Idle
    BY <1>9, FinishGoes
  <2>2. th'[u].job = "none" /\ th'[u].dev \in Devs
    BY <2>1, IdleTyped DEF Devs
  <2> QED BY <2>2, JobsApart DEF Progress
<1>10. ASSUME NEW t \in Threads, t # u,
              Copy(t) \/ Decide(t) \/ LoadReg(t) \/ StoreReg(t) \/ Finish(t)
       PROVE  Goes(t) /\ (reg' = reg \/ StoreReg(t))
  <2>1. Goes(t)
    BY <1>10, CopyGoes, DecideGoes, LoadGoes, StoreGoes, FinishGoes
  <2>2. reg' = reg \/ StoreReg(t)
    BY <1>10 DEF Copy, Decide, LoadReg, Finish
  <2> QED BY <2>1, <2>2
<1> QED BY <1>1, <1>2, <1>3, <1>4, <1>5, <1>6, <1>7, <1>8, <1>9, <1>10, Kinds
-----------------------------------------------------------------------------
(* No command of driver d is under way. *)
Settled(d) == \A t \in Threads : th[t].dev = d => th[t].job \in {"none", "copy", "decide"}

(* A command that nobody met has done what it says, until the next begins. *)
Posted(d) ==
  /\ told[d].job \in {"none"} \cup Jobs(d)
  /\ told[d].job # "none" /\ alone[d] /\ Settled(d) => PostOf(d, told[d].job)

(* How the device is depends on its own registers only.                    *)
LEMMA PostSame ==
  ASSUME NEW d \in Devs, \A r \in Private(d) : reg'[r] = reg[r], NEW job
  PROVE  PostOf(d, job)' <=> PostOf(d, job)
<1>1. CASE d = "fan"
  <2>1. /\ reg'["gpioe_moder"] = reg["gpioe_moder"] /\ reg'["gpioe_afrh"] = reg["gpioe_afrh"]
        /\ reg'["tim1_ccr1"] = reg["tim1_ccr1"] /\ reg'["tim1_ccmr1"] = reg["tim1_ccmr1"]
        /\ reg'["tim1_ccer"] = reg["tim1_ccer"] /\ reg'["tim1_cr1"] = reg["tim1_cr1"]
        /\ reg'["tim1_bdtr"] = reg["tim1_bdtr"]
    BY <1>1 DEF Private
  <2>2. Wired("fan")' <=> Wired("fan")
    BY <2>1 DEF Wired
  <2>3. Timer("fan")' = Timer("fan")
    BY <2>1 DEF Timer
  <2>4. (Wave("fan")' <=> Wave("fan")) /\ (Off("fan")' <=> Off("fan"))
    BY <2>3 DEF Wave, Off
  <2> QED BY <1>1, <2>2, <2>3, <2>4 DEF PostOf
<1>2. CASE d = "motor"
  <2>1. /\ reg'["gpiof_moder"] = reg["gpiof_moder"] /\ reg'["gpiof_afrl"] = reg["gpiof_afrl"]
        /\ reg'["tim16_ccr1"] = reg["tim16_ccr1"] /\ reg'["tim16_ccmr1"] = reg["tim16_ccmr1"]
        /\ reg'["tim16_ccer"] = reg["tim16_ccer"] /\ reg'["tim16_cr1"] = reg["tim16_cr1"]
        /\ reg'["tim16_bdtr"] = reg["tim16_bdtr"]
    BY <1>2 DEF Private
  <2>2. Wired("motor")' <=> Wired("motor")
    BY <2>1 DEF Wired
  <2>3. Timer("motor")' = Timer("motor")
    BY <2>1 DEF Timer
  <2>4. (Wave("motor")' <=> Wave("motor")) /\ (Off("motor")' <=> Off("motor"))
    BY <2>3 DEF Wave, Off
  <2> QED BY <1>2, <2>2, <2>3, <2>4 DEF PostOf
<1> QED BY <1>1, <1>2 DEF Devs

(* As long as the last command stays, so do the registers of its driver. *)
LEMMA PostStays ==
  ASSUME Basics, NEW d \in Devs, Posted(d), told'[d].job = told[d].job,
         alone'[d] <=> alone[d],
         Settled(d)' => Settled(d) /\ \A r \in Private(d) : reg'[r] = reg[r]
  PROVE  Posted(d)'
<1>1. told'[d].job \in {"none"} \cup Jobs(d)
  BY DEF Posted
<1>2. PICK job : job = told[d].job
  OBVIOUS
<1>3. ASSUME job # "none", alone'[d], Settled(d)'
      PROVE  PostOf(d, job)'
  <2>1. PostOf(d, job) /\ \A r \in Private(d) : reg'[r] = reg[r]
    BY <1>2, <1>3 DEF Posted
  <2> QED BY <2>1, PostSame
<1> QED BY <1>1, <1>2, <1>3 DEF Posted

(* Every step keeps the promise of a command that nobody met.              *)
LEMMA PostStep ==
  Basics /\ (\A t \in Threads : Progress(t)) /\ (\A d \in Devs : Posted(d)) /\ [Next]_vars
    => (\A d \in Devs : Posted(d))'
<1> SUFFICES ASSUME Basics, \A t \in Threads : Progress(t), \A e \in Devs : Posted(e), [Next]_vars,
                    NEW d \in Devs
             PROVE  Posted(d)'
  OBVIOUS
<1> USE DEF Basics
<1>0. th \in [Threads -> Doing]
  BY DEF Typed
<1>1. CASE UNCHANGED vars
  BY <1>1, PostStays DEF vars, Settled
<1>2. CASE InitMotor
  BY <1>2, PostStays DEF InitMotor, Settled
<1>3. ASSUME NEW t \in Threads, NEW e \in Devs, NEW job \in Works, NEW text \in Texts,
             Entering(t, e, job, text)
      PROVE  Posted(d)'
  <2>1. Enter(t, e, job, text) /\ reg' = reg /\ told' = told /\ alone' = alone
    BY <1>3 DEF Entering
  <2>2. th[t].job = "none" /\ \A u \in Threads \ {t} : Stays(u)
    BY <1>0, <2>1, Entered
  <2>3. Settled(d)' => Settled(d)
    BY <2>2 DEF Settled, Stays
  <2> QED BY <2>1, <2>3, PostStays
<1>4. ASSUME NEW t \in Threads, Copy(t) \/ Decide(t)
      PROVE  Posted(d)'
  <2>1. /\ reg' = reg /\ told' = told /\ alone' = alone /\ th[t].job \in {"copy", "decide"}
        /\ \A u \in Threads \ {t} : th'[u] = th[u]
    BY <1>4, CopyGoes, DecideGoes DEF Copy, Decide, Goes
  <2>2. Settled(d)' => Settled(d)
    BY <2>1 DEF Settled
  <2> QED BY <2>1, <2>2, PostStays
<1>5. ASSUME NEW t \in Threads, LoadReg(t) \/ StoreReg(t)
      PROVE  Posted(d)'
  <2>1. /\ told' = told /\ alone' = alone /\ Goes(t) /\ Running(t) /\ th'[t].job = th[t].job
    BY <1>5, LoadGoes, StoreGoes DEF LoadReg, StoreReg
  <2>2. /\ th[t].dev \in Devs /\ th[t].job \in Jobs(th[t].dev) /\ Proper(th[t].dev, Now(t))
    BY <2>1, <1>0, AtWork
  <2>3. th'[t].dev = th[t].dev /\ th[t].job \notin {"none", "copy", "decide"}
    BY <2>1, <2>2, JobsApart, IdleTyped DEF Goes
  <2>4. ASSUME Settled(d)' PROVE Settled(d) /\ th[t].dev # d
    BY <2>1, <2>3, <2>4 DEF Settled, Goes
  <2>5. ASSUME th[t].dev # d PROVE \A r \in Private(d) : reg'[r] = reg[r]
    <3>1. CASE LoadReg(t)
      BY <3>1 DEF LoadReg
    <3>2. CASE StoreReg(t)
      <4>1. \A r \in Private(d) : r \in Registers /\ r # Now(t).reg
        BY <2>2, <2>5, PrivateApart, PrivateInside DEF Proper
      <4> QED BY <3>2, <4>1, StoreGoes
    <3> QED BY <1>5, <3>1, <3>2
  <2> QED BY <2>1, <2>4, <2>5, PostStays
<1>6. ASSUME NEW t \in Threads, Finish(t)
      PROVE  Posted(d)'
  <2>1. /\ Goes(t) /\ th[t].dev \in Devs /\ th[t].job \in Jobs(th[t].dev)
        /\ th[t].at = Len(Code(th[t].job)) + 1
    BY <1>6, FinishGoes
  <2>2. reg' = reg
    BY <1>6 DEF Finish
  <2>3. CASE th[t].dev = d
    <3>1. told'[d].job = th[t].job /\ (alone'[d] <=> th[t].own)
      BY <1>6, <2>3 DEF Finish, Typed
    <3>2. PICK job \in Jobs(d) : job = th[t].job
      BY <2>1, <2>3
    <3>3. ASSUME th[t].own PROVE PostOf(d, job)'
      <4>1. Done(Code(th[t].job), Len(Code(th[t].job)) + 1, Private(d), reg)
        BY <2>1, <2>3, <3>3 DEF Progress
      <4>2. PostOf(d, job)
        BY <3>2, <4>1, PostDone
      <4> QED BY <2>2, <4>2, PostSame
    <3> QED BY <3>1, <3>2, <3>3 DEF Posted
  <2>4. CASE th[t].dev # d
    <3>1. told'[d] = told[d] /\ alone'[d] = alone[d]
      BY <1>6, <2>4 DEF Finish, Typed
    <3>2. Settled(d)' => Settled(d)
      BY <2>1, <2>4 DEF Settled, Goes
    <3> QED BY <2>2, <3>1, <3>2, PostStays
  <2> QED BY <2>3, <2>4
<1> QED BY <1>1, <1>2, <1>3, <1>4, <1>5, <1>6, Kinds
-----------------------------------------------------------------------------
(* The fan is loaded while it is written to, and then has been initialised *)
(* since it was last unloaded.                                             *)
FanLoaded ==
  /\ \A t \in Threads : th[t].dev = "fan" =>
       /\ th[t].job \in {"copy", "decide", "init"} \cup LevelJobs => "fan" \in loaded
       /\ th[t].job = "exit" => "fan" \notin loaded
  /\ "fan" \in loaded /\ (\A t \in Threads : th[t].dev = "fan" => th[t].job # "init") =>
       told["fan"].job \notin {"none", "exit"}

(* The jobs of the fan.                                                    *)
LEMMA FanJobs ==
  /\ Jobs("fan") = {"init", "exit"} \cup LevelJobs /\ "copy" \notin Jobs("fan")
  /\ "init" \notin LevelJobs /\ "exit" \notin LevelJobs
  /\ Jobs("motor") = {"start", "stop"} /\ "init" \notin Jobs("motor")
  /\ "fan" \in Devs /\ "motor" \in Devs
BY DEF Jobs, LevelJobs, Devs

(* Every step keeps a loaded fan initialised.                              *)
LEMMA FanLoadedStep ==
  Basics /\ FanLoaded /\ [Next]_vars => FanLoaded'
<1> SUFFICES ASSUME Basics, FanLoaded, [Next]_vars PROVE FanLoaded'
  OBVIOUS
<1> USE DEF Basics
<1>0. th \in [Threads -> Doing]
  BY DEF Typed
<1>1. CASE UNCHANGED vars
  BY <1>1 DEF vars, FanLoaded
<1>2. CASE InitMotor
  BY <1>2 DEF InitMotor, FanLoaded
<1>3. ASSUME NEW t \in Threads, NEW d \in Devs, NEW job \in Works, NEW text \in Texts,
             Entering(t, d, job, text)
      PROVE  FanLoaded'
  <2>1. Enter(t, d, job, text) /\ told' = told
    BY <1>3 DEF Entering
  <2>2. /\ th[t].job = "none" /\ th'[t].dev = d /\ th'[t].job = job
        /\ \A u \in Threads \ {t} : th'[u].dev = th[u].dev /\ th'[u].job = th[u].job
    BY <1>0, <2>1, Entered DEF Stays
  <2>3. CASE d = "motor" \/ job = "copy"
    <3>1. "fan" \in loaded' <=> "fan" \in loaded
      BY <1>3, <2>3, FanJobs DEF Entering
    <3>2. d = "fan" => "fan" \in loaded
      BY <1>3, <2>3, FanJobs DEF Entering
    <3>3. d = "fan" => job = "copy"
      BY <2>3
    <3> QED BY <2>1, <2>2, <3>1, <3>2, <3>3, FanJobs DEF FanLoaded
  <2>4. CASE d = "fan" /\ job # "copy"
    <3>1. In("fan") = {} /\ job \in {"init", "exit"}
      BY <1>3, <2>4, FanJobs DEF Entering
    <3>2. \A u \in Threads \ {t} : th'[u].dev = "fan" => th'[u].job = "none"
      BY <2>2, <3>1 DEF In
    <3>3. "fan" \in loaded' <=> job = "init"
      BY <1>3, <2>4, <3>1, FanJobs DEF Entering
    <3> QED BY <2>2, <2>4, <3>1, <3>2, <3>3, FanJobs DEF FanLoaded, LevelJobs
  <2> QED BY <2>3, <2>4 DEF Devs
<1>4. ASSUME NEW t \in Threads, Copy(t) \/ LoadReg(t) \/ StoreReg(t)
      PROVE  FanLoaded'
  <2>1. loaded' = loaded /\ told' = told /\ Goes(t)
    BY <1>4, CopyGoes, LoadGoes, StoreGoes DEF Copy, LoadReg, StoreReg
  <2>2. th'[t].job = th[t].job \/ (th[t].job = "copy" /\ th'[t].job = "decide")
    BY <1>4, CopyGoes, LoadGoes, StoreGoes DEF Copy
  <2>3. th[t].job # "none" /\ th'[t].job # "none"
    <3>1. CASE Copy(t)
      BY <3>1, CopyGoes DEF Copy
    <3>2. CASE LoadReg(t) \/ StoreReg(t)
      <4>1. Running(t)
        BY <3>2 DEF LoadReg, StoreReg
      <4> QED BY <1>0, <3>2, <4>1, AtWork, JobsApart, LoadGoes, StoreGoes
    <3> QED BY <1>4, <3>1, <3>2
  <2>4. th'[t].dev = th[t].dev
    BY <2>1, <2>3, IdleTyped DEF Goes
  <2>5. \A u \in Threads : th'[u].dev = th[u].dev
          /\ (th'[u].job = th[u].job \/ (th[u].job = "copy" /\ th'[u].job = "decide"))
    BY <2>1, <2>2, <2>4 DEF Goes
  <2> QED BY <2>1, <2>5, FanJobs DEF FanLoaded, LevelJobs
<1>5. ASSUME NEW t \in Threads, Decide(t)
      PROVE  FanLoaded'
  <2>1. /\ loaded' = loaded /\ told' = told /\ th[t].job = "decide"
        /\ \A u \in Threads \ {t} : th'[u] = th[u]
    BY <1>5, DecideGoes DEF Decide, Goes
  <2>2. th'[t].dev = "fan" => th'[t].job = "none" \/ (th[t].dev = "fan" /\ th'[t].job \in LevelJobs)
    <3>1. CASE th'[t] = Idle
      BY <3>1, IdleTyped
    <3>2. CASE th'[t] # Idle
      <4>1. th'[t].job = Asked(th[t].dev) /\ th'[t].dev = th[t].dev /\ th'[t].job \in Jobs(th[t].dev)
        BY <1>5, <3>2, DecideGoes DEF Goes
      <4>2. th'[t].dev = "fan" => Asked(th[t].dev) \in LevelJobs \cup {"none"}
        BY <4>1 DEF Asked, Levels, LevelJobs
      <4> QED BY <4>1, <4>2
    <3> QED BY <3>1, <3>2
  <2> QED BY <2>1, <2>2, FanJobs DEF FanLoaded, LevelJobs
<1>6. ASSUME NEW t \in Threads, Finish(t)
      PROVE  FanLoaded'
  <2>1. /\ Goes(t) /\ th'[t] = Idle /\ th[t].dev \in Devs /\ th[t].job \in Jobs(th[t].dev)
    BY <1>6, FinishGoes
  <2>2. loaded' = loaded /\ th'[t].job = "none" /\ \A u \in Threads \ {t} : th'[u] = th[u]
    BY <1>6, <2>1, IdleTyped DEF Finish, Goes
  <2>3. CASE th[t].dev = "fan"
    <3>1. told'["fan"].job = th[t].job
      BY <1>6, <2>1, <2>3 DEF Finish, Typed
    <3>2. th[t].job # "none" /\ (th[t].job = "exit" => "fan" \notin loaded)
      BY <2>1, <2>3, JobsApart DEF FanLoaded
    <3> QED BY <2>2, <3>1, <3>2, FanJobs DEF FanLoaded, LevelJobs
  <2>4. CASE th[t].dev # "fan"
    <3>1. told'["fan"] = told["fan"]
      BY <1>6, <2>1, <2>4, FanJobs DEF Finish, Typed
    <3> QED BY <2>2, <2>4, <3>1 DEF FanLoaded, LevelJobs
  <2> QED BY <2>3, <2>4
<1> QED BY <1>1, <1>2, <1>3, <1>4, <1>5, <1>6, Kinds
-----------------------------------------------------------------------------
(* Both clocks of driver d are on. *)
Ticks(d) == PortClock(d) /\ TimerClock(d)

(* A thread that starts a device is past the statement that switches a     *)
(* clock on, or does not need it yet.                                      *)
Begun(t) ==
  th[t].job \in {"start", "init"} =>
    /\ th[t].at > 1 => PortClock(th[t].dev)
    /\ th[t].at > 6 => TimerClock(th[t].dev)

(* A device that was started has its clocks, and so has a fan that is      *)
(* switched off for unloading.                                             *)
Ticking ==
  /\ told["motor"].job = "start" => Ticks("motor")
  /\ ~Initialising /\ (told["fan"].job # "none" \/ \E t \in Threads : th[t].job = "exit") =>
       Ticks("fan")

Clocks == (\A t \in Threads : Begun(t)) /\ Ticking

(* Where the two starting codes switch the clocks on and where they use    *)
(* them (motor.c:14, 25, fan.c:164, 175).                                  *)
LEMMA StartsClocked ==
  /\ motor_start[1].reg = "rcc_4" /\ 5 \in motor_start[1].set
  /\ motor_start[6].reg = "rcc_2" /\ 3 \in motor_start[6].set
  /\ fan_init[1].reg = "rcc_4" /\ 4 \in fan_init[1].set
  /\ fan_init[6].reg = "rcc_2" /\ 0 \in fan_init[6].set
  /\ \A k \in 1..18 : motor_start[k].reg \notin SetOnly => k > (IF motor_start[k].reg \in Ports THEN 1 ELSE 6)
  /\ \A k \in 1..20 : fan_init[k].reg \notin SetOnly => k > (IF fan_init[k].reg \in Ports THEN 1 ELSE 6)
<1>1. motor_start[1] = Or("rcc_4", {5}) /\ motor_start[6] = Or("rcc_2", {3})
  BY DEF motor_start
<1>2. fan_init[1] = Or("rcc_4", {4}) /\ fan_init[6] = Or("rcc_2", {0})
  BY DEF fan_init
<1>3. ASSUME NEW k \in 1..18, motor_start[k].reg \notin SetOnly
      PROVE  k > (IF motor_start[k].reg \in Ports THEN 1 ELSE 6)
  BY <1>3, UpTo20, StatementIs DEF motor_start, SetOnly, Ports
<1>4. ASSUME NEW k \in 1..20, fan_init[k].reg \notin SetOnly
      PROVE  k > (IF fan_init[k].reg \in Ports THEN 1 ELSE 6)
  BY <1>4, UpTo20, StatementIs DEF fan_init, SetOnly, Ports
<1> QED BY <1>1, <1>2, <1>3, <1>4, StatementIs

(* No step switches a clock off. *)
LEMMA ClocksGrow ==
  Basics /\ [Next]_vars =>
    \A d \in Devs : (PortClock(d) => PortClock(d)') /\ (TimerClock(d) => TimerClock(d)')
<1> SUFFICES ASSUME Basics, [Next]_vars
             PROVE  \A d \in Devs : (PortClock(d) => PortClock(d)') /\ (TimerClock(d) => TimerClock(d)')
  OBVIOUS
<1>1. \A r \in SetOnly : reg[r] \subseteq reg'[r]
  <2>1. ASSUME NEW t \in Threads, StoreReg(t) PROVE \A r \in SetOnly : reg[r] \subseteq reg'[r]
    BY <2>1, StoreGoes DEF Basics
  <2>2. CASE UNCHANGED vars
    BY <2>2 DEF vars
  <2>3. reg' = reg \/ UNCHANGED vars \/ \E t \in Threads : StoreReg(t)
    BY Kinds DEF Basics, InitMotor, Entering, Copy, Decide, LoadReg, Finish
  <2> QED BY <2>1, <2>2, <2>3
<1> QED BY <1>1 DEF PortClock, TimerClock, SetOnly

(* What a step does to thread t, as far as its clocks are concerned.       *)
LEMMA BegunStep ==
  ASSUME Basics, [Next]_vars, NEW t \in Threads, Begun(t)
  PROVE  Begun(t)'
<1> USE DEF Basics
<1>0. th \in [Threads -> Doing] /\ th[t].dev \in Devs
  BY DEF Typed, Doing
<1>1. CASE th'[t].job = th[t].job /\ th'[t].dev = th[t].dev /\ th'[t].at = th[t].at
  BY <1>0, <1>1, ClocksGrow DEF Begun
<1>2. CASE th'[t].at = 1 \/ th'[t].job \notin {"start", "init"}
  BY <1>2 DEF Begun
<1>3. CASE StoreReg(t)
  <2>1. /\ Goes(t) /\ Running(t) /\ th'[t].job = th[t].job /\ th'[t].at = th[t].at + 1
        /\ \A r \in SetOnly : Now(t).reg = r => Now(t).set \subseteq reg'[r]
    BY <1>3, StoreGoes
  <2>2. th[t].job \in Jobs(th[t].dev) /\ th[t].at \in Nat \ {0}
    BY <1>0, <2>1, AtWork DEF Doing
  <2>3. th'[t].dev = th[t].dev
    BY <1>0, <2>1, <2>2, JobsApart, IdleTyped DEF Goes
  <2>4. Now(t) = Code(th[t].job)[th[t].at]
    BY DEF Now
  <2>5. ASSUME th[t].job = "start" PROVE Begun(t)'
    <3>1. th[t].dev = "motor" /\ Now(t) = motor_start[th[t].at]
      BY <1>0, <2>2, <2>4, <2>5, CodeIs DEF Jobs, LevelJobs, Devs
    <3>2. th[t].at = 1 => PortClock("motor")'
      BY <2>1, <3>1, StartsClocked DEF PortClock, SetOnly
    <3>3. th[t].at = 6 => TimerClock("motor")'
      BY <2>1, <3>1, StartsClocked DEF TimerClock, SetOnly
    <3>4. (th[t].at > 1 => PortClock("motor")') /\ (th[t].at > 6 => TimerClock("motor")')
      BY <1>0, <2>5, <3>1, ClocksGrow DEF Begun
    <3> QED BY <2>1, <2>2, <2>3, <3>1, <3>2, <3>3, <3>4 DEF Begun
  <2>6. ASSUME th[t].job = "init" PROVE Begun(t)'
    <3>1. th[t].dev = "fan" /\ Now(t) = fan_init[th[t].at]
      BY <1>0, <2>2, <2>4, <2>6, CodeIs DEF Jobs, LevelJobs, Devs
    <3>2. th[t].at = 1 => PortClock("fan")'
      BY <2>1, <3>1, StartsClocked DEF PortClock, SetOnly
    <3>3. th[t].at = 6 => TimerClock("fan")'
      BY <2>1, <3>1, StartsClocked DEF TimerClock, SetOnly
    <3>4. (th[t].at > 1 => PortClock("fan")') /\ (th[t].at > 6 => TimerClock("fan")')
      BY <1>0, <2>6, <3>1, ClocksGrow DEF Begun
    <3> QED BY <2>1, <2>2, <2>3, <3>1, <3>2, <3>3, <3>4 DEF Begun
  <2> QED BY <2>1, <2>5, <2>6 DEF Begun
<1>4. \/ th'[t].job = th[t].job /\ th'[t].dev = th[t].dev /\ th'[t].at = th[t].at
      \/ th'[t].at = 1 \/ th'[t].job \notin {"start", "init"}
      \/ StoreReg(t)
  <2>1. ASSUME NEW u \in Threads, u # t, Goes(u) PROVE th'[t] = th[t]
    BY <2>1 DEF Goes
  <2>2. ASSUME NEW u \in Threads, NEW d \in Devs, NEW job \in Works, NEW text \in Texts,
               Entering(u, d, job, text)
        PROVE  th'[t].at = 1 \/ Stays(t)
    BY <1>0, <2>2, Entered DEF Entering
  <2>3. CASE LoadReg(t)
    <3>1. Goes(t) /\ th'[t].job = th[t].job /\ th'[t].at = th[t].at /\ Running(t)
      BY <2>3, LoadGoes DEF LoadReg
    <3>2. th[t].job \in Jobs(th[t].dev)
      BY <1>0, <3>1, AtWork
    <3> QED BY <1>0, <3>1, <3>2, JobsApart, IdleTyped DEF Goes
  <2>4. CASE Copy(t) \/ Decide(t) \/ Finish(t)
    BY <2>4, CopyGoes, DecideGoes, FinishGoes, IdleTyped
  <2>5. ASSUME NEW u \in Threads, Copy(u) \/ Decide(u) \/ LoadReg(u) \/ StoreReg(u) \/ Finish(u)
        PROVE  Goes(u)
    BY <2>5, CopyGoes, DecideGoes, LoadGoes, StoreGoes, FinishGoes
  <2>6. CASE InitMotor \/ UNCHANGED vars
    BY <2>6 DEF InitMotor, vars
  <2> QED BY <2>1, <2>2, <2>3, <2>4, <2>5, <2>6, Kinds DEF Stays
<1> QED BY <1>1, <1>2, <1>3, <1>4

(* A command that is told next has just been finished; another that ends   *)
(* had been begun.                                                         *)
LEMMA ToldNext ==
  ASSUME Basics, [Next]_vars
  PROVE  \A d \in Devs : told'[d] = told[d] \/
           \E t \in Threads : Finish(t) /\ th[t].dev = d /\ told'[d].job = th[t].job
<1>1. ASSUME NEW t \in Threads, Finish(t), NEW d \in Devs
      PROVE  told'[d] = told[d] \/ (th[t].dev = d /\ told'[d].job = th[t].job)
  BY <1>1 DEF Finish, Basics, Typed
<1>2. told' = told \/ \E t \in Threads : Finish(t)
  <2>1. CASE UNCHANGED vars
    BY <2>1 DEF vars
  <2>2. CASE Next
    BY <2>2, Kinds DEF Basics, InitMotor, Entering, Copy, Decide, LoadReg, StoreReg
  <2> QED BY <2>1, <2>2
<1> QED BY <1>1, <1>2

(* A thread that is at the end of a starting code has both clocks.         *)
LEMMA BegunEnds ==
  ASSUME Basics, NEW t \in Threads, Begun(t), Finish(t), th[t].job \in {"start", "init"}
  PROVE  Ticks(th[t].dev)
<1>1. th[t].at = Len(Code(th[t].job)) + 1
  BY FinishGoes DEF Basics
<1>2. Len(Code(th[t].job)) = 18 \/ Len(Code(th[t].job)) = 20
  BY CodeIs, Lengths
<1>3. th[t].at > 6 /\ th[t].at > 1
  <2>1. CASE Len(Code(th[t].job)) = 18
    <3>1. th[t].at = 18 + 1
      BY <1>1, <2>1
    <3> QED BY <3>1
  <2>2. CASE Len(Code(th[t].job)) = 20
    <3>1. th[t].at = 20 + 1
      BY <1>1, <2>2
    <3> QED BY <3>1
  <2> QED BY <1>2, <2>1, <2>2
<1> QED BY <1>3 DEF Begun, Ticks

(* Who is in which job next. *)
LEMMA JobNext ==
  ASSUME Basics, [Next]_vars, NEW t \in Threads
  PROVE  /\ th[t].job = "init" => th'[t].job = "init" \/ Finish(t)
         /\ th'[t].job = "exit" => th[t].job = "exit" \/ (In("fan") = {} /\ "fan" \in loaded)
<1> USE DEF Basics
<1>0. th \in [Threads -> Doing] /\ th[t].dev \in Devs
  BY DEF Typed, Doing
<1>1. CASE InitMotor \/ UNCHANGED vars
  BY <1>1 DEF InitMotor, vars
<1>2. ASSUME NEW u \in Threads, NEW d \in Devs, NEW job \in Works, NEW text \in Texts,
             Entering(u, d, job, text)
      PROVE  /\ th[t].job = "init" => th'[t].job = "init" \/ Finish(t)
             /\ th'[t].job = "exit" => th[t].job = "exit" \/ (In("fan") = {} /\ "fan" \in loaded)
  <2>1. th[u].job = "none" /\ th'[u].job = job /\ \A v \in Threads \ {u} : Stays(v)
    BY <1>0, <1>2, Entered DEF Entering
  <2>2. job = "exit" => In("fan") = {} /\ "fan" \in loaded
    BY <1>2 DEF Entering, Jobs, LevelJobs, Devs
  <2> QED BY <2>1, <2>2 DEF Stays
<1>3. ASSUME NEW u \in Threads, Copy(u) \/ Decide(u) \/ LoadReg(u) \/ StoreReg(u) \/ Finish(u)
      PROVE  /\ th[t].job = "init" => th'[t].job = "init" \/ Finish(t)
             /\ th'[t].job = "exit" => th[t].job = "exit" \/ (In("fan") = {} /\ "fan" \in loaded)
  <2>1. u # t => th'[t] = th[t]
    BY <1>3, CopyGoes, DecideGoes, LoadGoes, StoreGoes, FinishGoes DEF Goes
  <2>2. Copy(t) => th[t].job = "copy" /\ th'[t].job = "decide"
    BY CopyGoes DEF Copy
  <2>3. ASSUME Decide(t) PROVE th[t].job = "decide" /\ th'[t].job # "exit"
    <3>1. Asked(th[t].dev) # "exit"
      BY DEF Asked, Levels
    <3> QED BY <2>3, <3>1, DecideGoes, IdleTyped
  <2>4. LoadReg(t) \/ StoreReg(t) => th'[t].job = th[t].job
    BY LoadGoes, StoreGoes
  <2>5. Finish(t) => th'[t].job = "none"
    BY FinishGoes, IdleTyped
  <2> QED BY <1>3, <2>1, <2>2, <2>3, <2>4, <2>5
<1> QED BY <1>1, <1>2, <1>3, Kinds

(* Every step keeps the clocks going. *)
LEMMA ClocksStep == Basics /\ FanLoaded /\ Clocks /\ [Next]_vars => Clocks'
<1> SUFFICES ASSUME Basics, FanLoaded, Clocks, [Next]_vars PROVE Clocks'
  OBVIOUS
<1> USE DEF Clocks
<1>1. \A t \in Threads : Begun(t)'
  BY BegunStep
<1>2. Ticks("motor") => Ticks("motor")'
  BY ClocksGrow, FanJobs DEF Ticks
<1>3. Ticks("fan") => Ticks("fan")'
  BY ClocksGrow, FanJobs DEF Ticks
<1>4. ASSUME told'["motor"].job = "start" PROVE Ticks("motor")'
  <2>1. CASE told'["motor"] = told["motor"]
    BY <1>2, <1>4, <2>1 DEF Ticking
  <2>2. CASE told'["motor"] # told["motor"]
    <3>1. PICK t \in Threads : Finish(t) /\ th[t].dev = "motor" /\ th[t].job = "start"
      BY <1>4, <2>2, ToldNext, FanJobs
    <3> QED BY <1>2, <3>1, BegunEnds
  <2> QED BY <2>1, <2>2
<1>5. ASSUME ~Initialising', told'["fan"].job # "none" \/ \E t \in Threads : th'[t].job = "exit"
      PROVE  Ticks("fan")'
  <2>1. CASE Initialising
    <3>1. PICK t \in Threads : th[t].job = "init"
      BY <2>1 DEF Initialising
    <3>2. Finish(t)
      BY <1>5, <3>1, JobNext DEF Initialising
    <3>3. th[t].dev = "fan"
      BY <3>1, <3>2, FinishGoes DEF Basics, Jobs, LevelJobs, Devs
    <3> QED BY <1>3, <3>1, <3>2, <3>3, BegunEnds
  <2>2. CASE ~Initialising
    <3>1. "fan" \in loaded => told["fan"].job # "none"
      BY <2>2 DEF FanLoaded, Initialising
    <3>2. CASE \E t \in Threads : th'[t].job = "exit"
      <4>1. told["fan"].job # "none" \/ \E t \in Threads : th[t].job = "exit"
        BY <3>1, <3>2, JobNext
      <4> QED BY <1>3, <2>2, <4>1 DEF Ticking
    <3>3. CASE told'["fan"].job # "none"
      <4>1. CASE told'["fan"] = told["fan"]
        BY <1>3, <2>2, <3>3, <4>1 DEF Ticking
      <4>2. CASE told'["fan"] # told["fan"]
        <5>1. PICK t \in Threads : Finish(t) /\ th[t].dev = "fan"
          BY <4>2, ToldNext, FanJobs
        <5>2. th[t].job \in Jobs("fan") /\ th[t].job # "init"
          BY <2>2, <5>1, FinishGoes DEF Basics, Initialising
        <5>3. th[t].job = "exit" \/ "fan" \in loaded
          BY <5>1, <5>2, FanJobs DEF FanLoaded
        <5> QED BY <1>3, <2>2, <3>1, <5>3 DEF Ticking
      <4> QED BY <4>1, <4>2
    <3> QED BY <1>5, <3>2, <3>3
  <2> QED BY <2>1, <2>2
<1> QED BY <1>1, <1>4, <1>5 DEF Ticking
-----------------------------------------------------------------------------
(* What is ever written to driver d. *)
GivenTo(d) == IF d = "fan" THEN FanTexts ELSE {<<0>>, <<1>>}

(* What driver d makes of the buffer b. *)
Reads(d, b) ==
  IF d = "fan" THEN IF Parsed(b) \in 0..3 THEN Levels[Parsed(b) + 1] ELSE "none"
  ELSE CASE b[1] = 1 -> "start" [] b[1] = 0 -> "stop" [] OTHER -> "none"

(* The buffer b begins with the text. *)
Begins(b, text) == \A i \in 1..Len(text) : b[i] = text[i]

(* A thread that nobody met finds its own text in the buffer, and has the  *)
(* job that the buffer asks for.                                           *)
TextHeld(t) ==
  th[t].text # <<>> =>
    /\ th[t].text \in GivenTo(th[t].dev)
    /\ th[t].own /\ th[t].job \in {"decide"} \cup Jobs(th[t].dev) =>
         /\ Begins(kbuf[th[t].dev], th[t].text)
         /\ th[t].job # "decide" => th[t].job = Reads(th[t].dev, kbuf[th[t].dev])

(* What driver d was told last is a text of its own, and what it obeyed.   *)
Obeys(d, told_d) ==
  told_d.text # <<>> =>
    /\ told_d.text \in GivenTo(d)
    /\ Begins(told_d.buf, told_d.text)
    /\ told_d.job \in Jobs(d) /\ told_d.job = Reads(d, told_d.buf)

(* The same of the last command of driver d, if nobody met it.             *)
TextTold(d) == alone[d] => Obeys(d, told[d])

(* Two digits make more than three.                                        *)
LEMMA TwoDigits == \A m \in 1..9, n \in 0..9 : 10 * m + n \notin 0..3
OBVIOUS

(* A number that the fan accepts, and that a NUL ends, has one digit.      *)
LEMMA FanReads ==
  ASSUME NEW text, Number(text), NEW b \in [1..3 -> Chars], Begins(b, text),
         Parsed(b) \in 0..3, text[Len(text)] = NUL \/ b[Len(text) + 1] = NUL
  PROVE  /\ Parsed(b) = text[1] /\ Len(text) <= 2
         /\ text[Len(text)] \in {text[1], NUL}
<1>1. /\ text[1] \in 0..9 /\ b[1] = text[1] /\ b[1] # NUL
      /\ b[2] \in 0..9 \cup {NUL} /\ b[3] \in 0..9 \cup {NUL}
  BY PwmAssumption DEF Number, Begins, Chars
<1>2. CASE Len(text) = 1
  <2>1. text[1] # NUL
    BY <1>1
  <2>2. b[2] = NUL
    BY <1>2, <2>1
  <2> QED BY <1>1, <1>2, <2>2 DEF Parsed
<1>3. CASE Len(text) = 2
  <2>1. b[2] = text[2] /\ (text[2] = NUL \/ b[3] = NUL)
    BY <1>3 DEF Begins
  <2>2. CASE b[2] = NUL
    BY <1>1, <1>3, <2>1, <2>2 DEF Parsed
  <2>3. CASE b[2] # NUL
    <3>1. b[2] \in 0..9 /\ b[3] = NUL /\ b[1] \in 1..9
      BY <1>1, <1>3, <2>1, <2>3 DEF Number
    <3>2. Parsed(b) = 10 * b[1] + b[2]
      BY <1>1, <2>3, <3>1 DEF Parsed
    <3> QED BY <3>1, <3>2, TwoDigits
  <2> QED BY <2>2, <2>3
<1>4. CASE Len(text) = 3
  <2>1. b[2] = text[2] /\ b[3] = text[3] /\ text[3] = NUL /\ text[2] \in 0..9
    BY <1>4 DEF Begins, Number
  <2>2. b[2] \in 0..9 /\ b[2] # NUL /\ b[1] \in 1..9
    BY <1>1, <1>4, <2>1, PwmAssumption DEF Number
  <2>3. Parsed(b) = 10 * b[1] + b[2]
    BY <1>1, <2>1, <2>2 DEF Parsed
  <2> QED BY <2>2, <2>3, TwoDigits
<1> QED BY <1>2, <1>3, <1>4 DEF Number

(* The last command was what its text says.                                *)
LEMMA ToldObeyed ==
  ASSUME Typed, NEW d \in Devs, TextTold(d), alone[d], told[d].text # <<>>,
         \/ d = "motor" \/ told[d].text[Len(told[d].text)] = NUL
         \/ told[d].buf[Len(told[d].text) + 1] = NUL
  PROVE  IF d = "motor" THEN told[d].job = IF told[d].text[1] = 1 THEN "start" ELSE "stop"
         ELSE /\ told[d].job = Levels[told[d].text[1] + 1] /\ Len(told[d].text) <= 2
              /\ told[d].text[Len(told[d].text)] \in {told[d].text[1], NUL}
<1>1. PICK text, b : text = told[d].text /\ b = told[d].buf
  OBVIOUS
<1>2. /\ text \in GivenTo(d) /\ Begins(b, text) /\ b \in [1..3 -> Chars]
      /\ told[d].job \in Jobs(d) /\ told[d].job = Reads(d, b)
  BY <1>1 DEF TextTold, Obeys, Typed
<1>3. CASE d = "motor"
  <2>1. text = <<0>> \/ text = <<1>>
    BY <1>2, <1>3 DEF GivenTo
  <2>2. b[1] = text[1] /\ (text[1] = 0 \/ text[1] = 1)
    BY <1>2, <2>1 DEF Begins
  <2>3. told[d].job = IF b[1] = 1 THEN "start" ELSE "stop"
    BY <1>2, <1>3, <2>2 DEF Reads
  <2> QED BY <1>1, <1>3, <2>2, <2>3
<1>4. CASE d = "fan"
  <2>1. Number(text)
    BY <1>2, <1>4, PwmAssumption DEF GivenTo
  <2>2. Parsed(b) \in 0..3 /\ told[d].job = Levels[Parsed(b) + 1]
    BY <1>2, <1>4, JobsApart DEF Reads
  <2>3. text[Len(text)] = NUL \/ b[Len(text) + 1] = NUL
    BY <1>1, <1>4
  <2>4. Parsed(b) = text[1] /\ Len(text) <= 2 /\ text[Len(text)] \in {text[1], NUL}
    BY <1>2, <2>1, <2>2, <2>3, FanReads
  <2> QED BY <1>1, <1>4, <2>2, <2>4
<1> QED BY <1>3, <1>4 DEF Devs

(* Nobody disturbs the text of a thread that stays alone. *)
LEMMA HeldStays ==
  ASSUME NEW u \in Threads, th \in [Threads -> Doing], TextHeld(u), Stays(u),
         th'[u].own => th[u].own,
         th[u].job # "none" /\ th[u].own => kbuf'[th[u].dev] = kbuf[th[u].dev]
  PROVE  TextHeld(u)'
<1> SUFFICES ASSUME th[u].text # <<>>
             PROVE  /\ th[u].text \in GivenTo(th[u].dev)
                    /\ th'[u].own /\ th[u].job \in {"decide"} \cup Jobs(th[u].dev) =>
                         /\ Begins(kbuf'[th[u].dev], th[u].text)
                         /\ th[u].job # "decide" => th[u].job = Reads(th[u].dev, kbuf'[th[u].dev])
  BY DEF TextHeld, Stays, GivenTo, Begins, Reads
<1>1. th[u].dev \in Devs
  BY DEF Doing
<1>2. th[u].job \in {"decide"} \cup Jobs(th[u].dev) => th[u].job # "none"
  BY <1>1, JobsApart
<1> QED BY <1>2 DEF TextHeld

(* Every step keeps a text in the buffer that is its writer's alone.       *)
LEMMA HeldStep ==
  Basics /\ (\A t \in Threads : TextHeld(t)) /\ [Next]_vars => (\A t \in Threads : TextHeld(t))'
<1> SUFFICES ASSUME Basics, \A t \in Threads : TextHeld(t), [Next]_vars,
                    NEW u \in Threads
             PROVE  TextHeld(u)'
  OBVIOUS
<1> USE DEF Basics
<1>0. th \in [Threads -> Doing] /\ th[u].dev \in Devs
  BY DEF Typed, Doing
<1>1. CASE UNCHANGED vars
  BY <1>0, <1>1, HeldStays DEF vars, Stays
<1>2. CASE InitMotor
  <2>1. th' = th /\ In("motor") = {} /\ kbuf' = [kbuf EXCEPT !["motor"] = <<NUL, NUL, NUL>>]
    BY <1>2 DEF InitMotor
  <2>2. th[u].job # "none" => th[u].dev # "motor"
    BY <2>1 DEF In
  <2>3. th[u].job # "none" => kbuf'[th[u].dev] = kbuf[th[u].dev]
    BY <1>0, <2>1, <2>2 DEF Typed
  <2> QED BY <1>0, <2>1, <2>3, HeldStays DEF Stays
<1>3. ASSUME NEW t \in Threads, NEW d \in Devs, NEW job \in Works, NEW text \in Texts,
             Entering(t, d, job, text)
      PROVE  TextHeld(u)'
  <2>1. Enter(t, d, job, text)
    BY <1>3 DEF Entering
  <2>2. CASE u = t
    <3>1. th'[u].dev = d /\ th'[u].job = job /\ th'[u].text = text
      BY <1>0, <2>1, <2>2, Entered
    <3>2. text # <<>> => text \in GivenTo(d) /\ job = "copy"
      BY <1>3 DEF Entering, GivenTo
    <3>3. "copy" \notin {"decide"} \cup Jobs(d)
      BY JobsApart
    <3> QED BY <3>1, <3>2, <3>3 DEF TextHeld, GivenTo
  <2>3. CASE u # t
    <3>1. Stays(u) /\ (th'[u].own => th[u].own)
      BY <1>0, <2>1, <2>3, Entered
    <3>2. th[u].job # "none" => th[u].dev # d \/ kbuf' = kbuf
      BY <1>3 DEF Entering, In
    <3>3. th[u].job # "none" => kbuf'[th[u].dev] = kbuf[th[u].dev]
      BY <1>0, <1>3, <3>2 DEF Entering
    <3> QED BY <1>0, <3>1, <3>3, HeldStays
  <2> QED BY <2>2, <2>3
<1>4. ASSUME NEW t \in Threads, t # u, Goes(t), kbuf' = kbuf \/ Copy(t)
      PROVE  TextHeld(u)'
  <2>1. Stays(u) /\ th'[u].own = th[u].own
    BY <1>4 DEF Goes, Stays
  <2>2. ASSUME Copy(t), th[u].job # "none", th[u].own
        PROVE  kbuf'[th[u].dev] = kbuf[th[u].dev]
    <3>1. th[t].job # "none"
      BY <2>2 DEF Copy
    <3>2. th[u].dev # th[t].dev
      BY <1>4, <2>2, <3>1 DEF Apart
    <3> QED BY <1>0, <2>2, <3>2, CopyGoes
  <2> QED BY <1>0, <1>4, <2>1, <2>2, HeldStays
<1>5. CASE Copy(u)
  <2>1. /\ Goes(u) /\ th[u].job = "copy" /\ th'[u].job = "decide"
        /\ \A i \in 1..Len(th[u].text) : kbuf'[th[u].dev][i] = th[u].text[i]
    BY <1>0, <1>5, CopyGoes DEF Copy
  <2>2. th'[u].dev = th[u].dev /\ th'[u].text = th[u].text
    BY <2>1, IdleTyped DEF Goes
  <2> QED BY <2>1, <2>2 DEF TextHeld, GivenTo, Begins
<1>6. CASE Decide(u)
  <2>1. /\ Goes(u) /\ th[u].job = "decide" /\ kbuf' = kbuf
        /\ th'[u] = Idle \/ (th'[u].job = Asked(th[u].dev) /\ th'[u].job \in Jobs(th[u].dev))
    BY <1>6, DecideGoes DEF Decide
  <2>2. CASE th'[u] = Idle
    BY <2>2, IdleTyped DEF TextHeld
  <2>3. CASE th'[u] # Idle
    <3>1. /\ th'[u].dev = th[u].dev /\ th'[u].text = th[u].text
          /\ th'[u].own => th[u].own
      BY <2>1, <2>3 DEF Goes
    <3>2. th'[u].job = Reads(th[u].dev, kbuf[th[u].dev])
      BY <2>1, <2>3 DEF Asked, Reads
    <3> QED BY <2>1, <3>1, <3>2 DEF TextHeld, GivenTo, Begins, Reads
  <2> QED BY <2>2, <2>3
<1>7. CASE LoadReg(u) \/ StoreReg(u)
  <2>1. Goes(u) /\ th'[u].job = th[u].job /\ kbuf' = kbuf /\ Running(u)
    BY <1>7, LoadGoes, StoreGoes DEF LoadReg, StoreReg
  <2>2. th[u].job # "none"
    BY <1>0, <2>1, AtWork, JobsApart
  <2>3. /\ th'[u].dev = th[u].dev /\ th'[u].text = th[u].text
        /\ th'[u].own => th[u].own
    BY <2>1, <2>2, IdleTyped DEF Goes
  <2> QED BY <2>1, <2>3 DEF TextHeld, GivenTo, Begins, Reads
<1>8. CASE Finish(u)
  BY <1>8, FinishGoes, IdleTyped DEF TextHeld
<1>9. ASSUME NEW t \in Threads, t # u,
             Copy(t) \/ Decide(t) \/ LoadReg(t) \/ StoreReg(t) \/ Finish(t)
      PROVE  Goes(t) /\ (kbuf' = kbuf \/ Copy(t))
  <2>1. Goes(t)
    BY <1>9, CopyGoes, DecideGoes, LoadGoes, StoreGoes, FinishGoes
  <2>2. kbuf' = kbuf \/ Copy(t)
    BY <1>9 DEF Decide, LoadReg, StoreReg, Finish
  <2> QED BY <2>1, <2>2
<1> QED BY <1>1, <1>2, <1>3, <1>4, <1>5, <1>6, <1>7, <1>8, <1>9, Kinds

(* Every step keeps what the last command was told.                        *)
LEMMA ToldStep ==
  Basics /\ (\A t \in Threads : TextHeld(t)) /\ (\A d \in Devs : TextTold(d)) /\ [Next]_vars
    => (\A d \in Devs : TextTold(d))'
<1> SUFFICES ASSUME Basics, \A t \in Threads : TextHeld(t), \A d \in Devs : TextTold(d),
                    [Next]_vars, NEW d \in Devs
             PROVE  TextTold(d)'
  OBVIOUS
<1>1. ASSUME told' = told, alone' = alone PROVE TextTold(d)'
  BY <1>1 DEF TextTold
<1>2. CASE UNCHANGED vars \/ InitMotor
  BY <1>1, <1>2 DEF vars, InitMotor
<1>3. ASSUME NEW t \in Threads, NEW e \in Devs, NEW job \in Works, NEW text \in Texts,
             Entering(t, e, job, text)
      PROVE  TextTold(d)'
  BY <1>1, <1>3 DEF Entering
<1>4. ASSUME NEW t \in Threads, Copy(t) \/ Decide(t) \/ LoadReg(t) \/ StoreReg(t)
      PROVE  TextTold(d)'
  BY <1>1, <1>4 DEF Copy, Decide, LoadReg, StoreReg
<1>5. ASSUME NEW t \in Threads, Finish(t)
      PROVE  TextTold(d)'
  <2>1. th[t].dev \in Devs /\ th[t].job \in Jobs(th[t].dev)
    BY <1>5, FinishGoes DEF Basics
  <2>2. CASE th[t].dev # d
    <3>1. told'[d] = told[d] /\ alone'[d] = alone[d]
      BY <1>5, <2>1, <2>2 DEF Finish, Basics, Typed
    <3> QED BY <3>1 DEF TextTold
  <2>3. CASE th[t].dev = d
    <3>1. /\ told'[d].job = th[t].job /\ told'[d].text = th[t].text /\ told'[d].buf = kbuf[d]
          /\ alone'[d] <=> th[t].own
      BY <1>5, <2>3 DEF Finish, Basics, Typed
    <3>2. th[t].job # "decide"
      BY <2>1, JobsApart
    <3>3. th[t].own /\ th[t].text # <<>> =>
            /\ th[t].text \in GivenTo(d) /\ Begins(kbuf[d], th[t].text)
            /\ th[t].job = Reads(d, kbuf[d])
      BY <2>1, <2>3, <3>2 DEF TextHeld
    <3> QED BY <2>1, <2>3, <3>1, <3>3 DEF TextTold, Obeys, GivenTo, Begins, Reads
  <2> QED BY <2>2, <2>3
<1> QED BY <1>2, <1>3, <1>4, <1>5, Kinds DEF Basics
-----------------------------------------------------------------------------
(* The inductive invariant. *)
IInv ==
  /\ Basics
  /\ \A t \in Threads : Progress(t) /\ TextHeld(t)
  /\ FanLoaded /\ Clocks
  /\ \A d \in Devs : Posted(d) /\ TextTold(d)

(* It holds at first.                                                      *)
LEMMA IInvInit == Init => IInv
<1> SUFFICES ASSUME Init PROVE IInv
  OBVIOUS
<1>1. Basics
  BY BasicsInit
<1>2. /\ \A t \in Threads : th[t] = Idle
      /\ \A d \in Devs : told[d].job = "none" /\ told[d].text = <<>>
      /\ loaded = {}
  BY DEF Init
<1>3. \A t \in Threads : th[t].job = "none" /\ th[t].text = <<>> /\ th[t].dev \in Devs
  BY <1>2, IdleTyped DEF Devs
<1>4. \A t \in Threads : Progress(t) /\ TextHeld(t)
  BY <1>3, JobsApart DEF Progress, TextHeld
<1>5. FanLoaded
  BY <1>2, <1>3 DEF FanLoaded, LevelJobs
<1>6. \A d \in Devs : Posted(d) /\ TextTold(d)
  BY <1>2 DEF Posted, TextTold, Obeys
<1>7. Clocks
  BY <1>2, <1>3, FanJobs DEF Clocks, Begun, Ticking
<1> QED BY <1>1, <1>4, <1>5, <1>6, <1>7 DEF IInv

(* Every step keeps it.                                                    *)
LEMMA IInvStep == IInv /\ [Next]_vars => IInv'
BY BasicsStep, ProgressStep, PostStep, FanLoadedStep, ClocksStep, HeldStep, ToldStep DEF IInv

(* It holds always.                                                        *)
LEMMA Invariance == Spec => []IInv
BY IInvInit, IInvStep, PTL DEF Spec

(* Where nobody is inside, no command is under way.                        *)
LEMMA QuietSettled == \A d \in Devs : Quiet(d) => Settled(d)
BY DEF Quiet, In, Settled

(* The types that the run checks.                                          *)
LEMMA TypeHolds == Basics => TypeOK
<1> SUFFICES ASSUME Basics PROVE TypeOK
  OBVIOUS
<1>1. /\ reg \in [Registers -> SUBSET (0..1000)] /\ kbuf \in [Devs -> [1..3 -> Chars]]
      /\ loaded \subseteq Devs
  BY DEF Basics, Typed, Values
<1>2. ASSUME NEW t \in Threads PROVE th[t].dev \in Devs /\ Len(th[t].old) <= 1
  <2>1. th[t].dev \in Devs /\ th[t].old \in Olds
    BY DEF Basics, Typed, Doing
  <2>2. CASE th[t].old = <<>>
    BY <2>1, <2>2
  <2>3. CASE th[t].old # <<>>
    <3>1. PICK s : th[t].old = <<s>>
      BY <2>1, <2>3 DEF Olds
    <3> QED BY <2>1, <3>1
  <2> QED BY <2>2, <2>3
<1> QED BY <1>1, <1>2 DEF TypeOK

(* A command that no other met inside its driver leaves the device as it   *)
(* says, whatever mixture earlier commands that did meet left in the       *)
(* registers (motor_start and motor_stop of motor.c, the initialisation,   *)
(* the levels and the exit of fan.c).                                      *)
THEOREM CommandsDoAsTold == Spec => []AsTold
<1>1. IInv => AsTold
  <2> SUFFICES ASSUME IInv PROVE AsTold
    OBVIOUS
  <2>1. TypeOK
    BY TypeHolds DEF IInv
  <2>2. \A d \in Devs : Quiet(d) /\ alone[d] => PostOf(d, told[d].job)
    BY QuietSettled DEF IInv, Posted, Quiet
  <2>3. "fan" \in Devs /\ "motor" \in Devs
    BY DEF Devs
  <2>4. Quiet("motor") /\ alone["motor"] => PostOf("motor", told["motor"].job)
    BY <2>2, <2>3
  <2>5. Quiet("fan") /\ alone["fan"] => PostOf("fan", told["fan"].job)
    BY <2>2, <2>3
  <2> QED BY <2>1, <2>4, <2>5 DEF AsTold, PostOf
<1> QED BY <1>1, Invariance, PTL

(* Whatever meets, in either driver: a statement finds the clock of its    *)
(* port or timer on, but for those of a motor_stop when no motor_start is  *)
(* the last command (motor.c:62), and of a level written while the fan is  *)
(* initialised (fan.c:103); a device that was started has its clocks.      *)
THEOREM ClocksComeFirst == Spec => []ClockFirst
<1>1. IInv => ClockFirst
  <2> SUFFICES ASSUME IInv PROVE ClockFirst
    OBVIOUS
  <2>1. Basics /\ FanLoaded /\ Ticking /\ \A t \in Threads : Begun(t)
    BY DEF IInv, Clocks
  <2>2. ASSUME NEW t \in Threads, Running(t), ~Clocked(t)
        PROVE  \/ th[t].job = "stop" /\ told["motor"].job # "start"
               \/ th[t].job \in DOMAIN Level /\ Initialising
    <3>1. /\ th[t].dev \in Devs /\ th[t].job \in Jobs(th[t].dev)
          /\ th[t].at \in 1..Len(Code(th[t].job))
      BY <2>1, <2>2, AtWork DEF Basics, Typed
    <3>2. Now(t).reg \notin SetOnly /\ ~Ticks(th[t].dev)
      BY <2>2 DEF Clocked, Ticks
    <3>3. CASE th[t].job = "start"
      <4>1. Now(t) = motor_start[th[t].at] /\ th[t].at \in 1..18
        BY <3>1, <3>3, CodeIs, Lengths DEF Now
      <4>2. IF Now(t).reg \in Ports THEN PortClock(th[t].dev) ELSE TimerClock(th[t].dev)
        BY <2>1, <3>2, <3>3, <4>1, StartsClocked DEF Begun
      <4> QED BY <2>2, <4>2 DEF Clocked
    <3>4. CASE th[t].job = "init"
      <4>1. Now(t) = fan_init[th[t].at] /\ th[t].at \in 1..20
        BY <3>1, <3>4, CodeIs, Lengths DEF Now
      <4>2. IF Now(t).reg \in Ports THEN PortClock(th[t].dev) ELSE TimerClock(th[t].dev)
        BY <2>1, <3>2, <3>4, <4>1, StartsClocked DEF Begun
      <4> QED BY <2>2, <4>2 DEF Clocked
    <3>5. CASE th[t].job = "stop"
      <4>1. th[t].dev = "motor"
        BY <3>1, <3>5 DEF Jobs, LevelJobs, Devs
      <4> QED BY <2>1, <3>2, <3>5, <4>1 DEF Ticking
    <3>6. CASE th[t].job = "exit"
      <4>1. th[t].dev = "fan"
        BY <3>1, <3>6 DEF Jobs, LevelJobs, Devs
      <4>2. Initialising
        BY <2>1, <3>2, <3>6, <4>1 DEF Ticking
      <4>3. PICK u \in Threads : th[u].job = "init"
        BY <4>2 DEF Initialising
      <4>4. th[u].dev = "fan"
        BY <2>1, <4>3 DEF Basics, Typed, Doing, Working, Jobs, LevelJobs, Devs
      <4> QED BY <2>1, <3>6, <4>1, <4>3, <4>4 DEF FanLoaded
    <3>7. CASE th[t].job \in LevelJobs
      <4>1. th[t].dev = "fan" /\ th[t].job \in DOMAIN Level
        BY <3>1, <3>7 DEF Jobs, LevelJobs, Devs, Level
      <4>2. "fan" \in loaded
        BY <2>1, <3>7, <4>1 DEF FanLoaded
      <4>3. ~Initialising => Ticks("fan")
        BY <2>1, <4>2 DEF FanLoaded, Ticking, Initialising
      <4> QED BY <3>2, <4>1, <4>3
    <3> QED BY <3>1, <3>3, <3>4, <3>5, <3>6, <3>7 DEF Jobs, Devs
  <2> QED BY <2>1, <2>2 DEF ClockFirst, Ticking, Ticks
<1> QED BY <1>1, Invariance, PTL

(* A write that was alone in its driver and was accepted does what its     *)
(* text says, if the text ends with a NUL or the buffer holds one behind   *)
(* it (fan.c:37-67, motor.c:139-149).                                      *)
THEOREM TextsAreObeyed == Spec => []TextObeyed
<1>1. IInv => TextObeyed
  BY ToldObeyed DEF IInv, Basics, TextObeyed
<1> QED BY <1>1, Invariance, PTL
=============================================================================
