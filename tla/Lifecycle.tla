------------------------------ MODULE Lifecycle ------------------------------
(***************************************************************************)
(* How the five drivers (src/mydev) are loaded and unloaded, and how the   *)
(* server process starts and stops (src/src/server.c).  Each takes a list  *)
(* of resources in order and, when a call fails, gives back what the error *)
(* branch of that call names; leaving gives them back by a list of its     *)
(* own.  What nobody gives back stays: in the kernel, or, for the server,  *)
(* the message queue.  One subject is followed at a time; any process may  *)
(* have its device open meanwhile.  LifecycleSpec is the specification, so *)
(* that this module can be extended together with another one.             *)
(***************************************************************************)
EXTENDS Integers, Sequences, FiniteSets

CONSTANT MaxOpen  \* files that are open at one time

ASSUME LifecycleAssumption == MaxOpen \in Nat

VARIABLES
  sub,     \* the subject: which driver, or the server
  st,      \* "out", "loading", "live", "unloading", or "unbound"
  pos,     \* position in the list being worked through
  held,    \* resources the subject has and knows of
  leaked,  \* resources nobody will give back
  failed,  \* calls that have failed so far
  opens,   \* open files whose handlers are in the loaded module
  stale,   \* open files whose handlers are gone
  faults   \* what went wrong in a handler

lifecycleVars == <<sub, st, pos, held, leaked, failed, opens, stale, faults>>

Call(c, r, u) == [call |-> c, takes |-> r, frees |-> u]
Elems(s) == {s[i] : i \in 1..Len(s)}
-----------------------------------------------------------------------------
FanMaps == <<"rcc_4", "rcc_2", "gpioe_moder", "gpioe_afrh", "tim1_psc", "tim1_arr",
             "tim1_ccr1", "tim1_ccmr1", "tim1_ccer", "tim1_cr1", "tim1_bdtr">>
MotorMaps == <<"rcc_4", "rcc_2", "gpiof_moder", "gpiof_afrl", "tim16_psc", "tim16_arr",
               "tim16_ccr1", "tim16_ccmr1", "tim16_ccer", "tim16_cr1", "tim16_bdtr">>

(* The node is there before the registers are mapped, and a failed ioremap *)
(* gives nothing back.                                                     *)
PwmInit(maps) ==
  <<Call("register_chrdev", "chrdev", {}), Call("class_create", "class", {"chrdev"}),
    Call("device_create", "node", {})>>
    \o [i \in 1..Len(maps) |-> Call("ioremap", maps[i], {})]
PwmExit(maps) == maps \o <<"node", "class", "chrdev">>

fan_init == PwmInit(FanMaps)
fan_exit == PwmExit(FanMaps)
motor_init == PwmInit(MotorMaps)
motor_exit == PwmExit(MotorMaps)
-----------------------------------------------------------------------------
cgpiono == <<"c1", "c2", "c3">>
egpiono == <<"e1", "e2", "e3">>
OfNodes == {"pnode", "cnode", "enode"}

get_led_node ==
  <<Call("of_find_compatible_node", "pnode", {}), Call("of_get_child_by_name", "cnode", {}),
    Call("of_get_child_by_name", "enode", {})>>

(* Mutation: err1 instead of err2 when the second group fails. *)
myleds_init_value_alone(no, others) ==
  [k \in 1..9 |->
    LET i == (k + 2) \div 3
        undo == {no[j] : j \in 1..(i - 1)}
    IN  CASE k % 3 = 1 -> Call("of_get_named_gpio", "nothing", undo)
          [] k % 3 = 2 -> Call("gpio_request", no[i], undo)
          [] k % 3 = 0 -> Call("gpio_direction_output", "nothing", undo)]

(* Per line: its number, the request, the direction.  A call that fails    *)
(* frees the lines before, not the one it is about.                        *)
myleds_init_value(no, others) ==
  [k \in 1..9 |->
    LET i == (k + 2) \div 3
        undo == others \cup {no[j] : j \in 1..(i - 1)}
    IN  CASE k % 3 = 1 -> Call("of_get_named_gpio", "nothing", undo)
          [] k % 3 = 2 -> Call("gpio_request", no[i], undo)
          [] k % 3 = 0 -> Call("gpio_direction_output", "nothing", undo)]

Gpios == Elems(cgpiono) \cup Elems(egpiono)

LedGpios == myleds_init_value(cgpiono, {}) \o myleds_init_value(egpiono, Elems(cgpiono))
LedNode ==
  <<Call("register_chrdev", "chrdev", Gpios), Call("class_create", "class", Gpios \cup {"chrdev"}),
    Call("device_create", "node", Gpios \cup {"chrdev", "class"})>>

myleds_init == get_led_node \o LedGpios \o LedNode
myleds_exit == <<"node", "class", "chrdev">> \o egpiono \o cgpiono
-----------------------------------------------------------------------------
(* A probe that fails gives nothing back: ap3216.c, si7006.c. *)
Probe ==
  <<Call("register_chrdev", "chrdev", {}), Call("class_create", "class", {}),
    Call("device_create", "node", {})>>

ap3216_probe == Probe
ap3216_remove == <<"node", "class", "chrdev">>
si7006_probe == Probe
si7006_remove == <<"node", "class", "chrdev">>
-----------------------------------------------------------------------------
(* The server.  create_link ends the process by itself when malloc fails,  *)
(* so that the branch of main that removes the queue is not reached.       *)
server_main ==
  LET all == {"sockfd", "msgid", "head"}
  IN  <<Call("network_init", "sockfd", {}), Call("msgget", "msgid", {"sockfd"}),
        Call("create_link", "head", {}), Call("sem_init", "linksem", all),
        Call("pthread_create", "insprct_thread", all), Call("pthread_create", "login_thread", all)>>
-----------------------------------------------------------------------------
Pwm == {"fan", "motor"}
I2c == {"ap3216", "si7006"}
Subjects == Pwm \cup I2c \cup {"led", "server"}

init ==
  CASE sub = "fan" -> fan_init [] sub = "motor" -> motor_init [] sub = "led" -> myleds_init
    [] sub = "ap3216" -> ap3216_probe [] sub = "si7006" -> si7006_probe
    [] sub = "server" -> server_main
exit ==
  CASE sub = "fan" -> fan_exit [] sub = "motor" -> motor_exit [] sub = "led" -> myleds_exit
    [] sub = "ap3216" -> ap3216_remove [] sub = "si7006" -> si7006_remove

(* Mutation: no file operations name their module. *)
NoOwner == {}

(* The file operations that name their module: an open file pins it. *)
Owner == Pwm

(* What the handlers of a device work with. *)
Uses ==
  CASE sub = "fan" -> {"tim1_ccr1"} [] sub = "motor" -> Elems(MotorMaps)
    [] sub = "led" -> Gpios [] OTHER -> {}

(* Calls whose result the code does not look at. *)
Ignores == {<<s, "device_create">> : s \in Pwm}

(* A class's name and a line can be taken once in the whole kernel. *)
Clashes(r) == r \in leaked \cap ({"class"} \cup Gpios)

(* What stays when the subject ends with r in hand. *)
Left(r) == IF sub = "server" THEN r \cap {"msgid"} ELSE r

(* The subject ends with r in hand.  The code of a module goes with it; an *)
(* I2C driver stays loaded, without a device.                              *)
Ends(r) ==
  /\ held' = {} /\ leaked' = leaked \cup Left(r)
  /\ st' = IF sub \in I2c THEN "unbound" ELSE "out"
  /\ IF sub \in I2c THEN UNCHANGED <<opens, stale>> ELSE stale' = stale + opens /\ opens' = 0
  /\ UNCHANGED pos
-----------------------------------------------------------------------------
Load ==
  /\ st = "out"
  /\ st' = "loading" /\ pos' = 1
  /\ UNCHANGED <<sub, held, leaked, failed, opens, stale, faults>>

(* msgget finds the queue an earlier server left. *)
Take ==
  /\ st = "loading" /\ pos <= Len(init)
  /\ ~Clashes(init[pos].takes)
  /\ held' = (held \cup {init[pos].takes}) \ {"nothing"}
  /\ leaked' = leaked \ (IF sub = "server" THEN {init[pos].takes} ELSE {})
  /\ pos' = pos + 1
  /\ UNCHANGED <<sub, st, failed, opens, stale, faults>>

Fail ==
  /\ st = "loading" /\ pos <= Len(init)
  /\ failed' = failed \cup {init[pos].call}
  /\ IF <<sub, init[pos].call>> \in Ignores
       THEN pos' = pos + 1 /\ UNCHANGED <<st, held, leaked, opens, stale>>
       ELSE Ends(held \ init[pos].frees)
  /\ UNCHANGED <<sub, faults>>

Loaded ==
  /\ st = "loading" /\ pos > Len(init)
  /\ st' = "live"
  /\ UNCHANGED <<sub, pos, held, leaked, failed, opens, stale, faults>>

(* rmmod, or, for an I2C driver, the device unbound; the kernel refuses to *)
(* unload a module that is pinned.                                         *)
Unload ==
  /\ st = "live" /\ sub # "server"
  /\ sub \in Owner => opens = 0
  /\ st' = "unloading" /\ pos' = 1
  /\ UNCHANGED <<sub, held, leaked, failed, opens, stale, faults>>

Give ==
  /\ st = "unloading"
  /\ IF pos < Len(exit)
       THEN held' = held \ {exit[pos]} /\ pos' = pos + 1 /\ UNCHANGED <<st, leaked, opens, stale>>
       ELSE Ends(held \ {exit[pos]})
  /\ UNCHANGED <<sub, failed, faults>>

Bind ==
  /\ st = "unbound"
  /\ st' = "loading" /\ pos' = 1
  /\ UNCHANGED <<sub, held, leaked, failed, opens, stale, faults>>

FreeModule ==
  /\ st = "unbound"
  /\ st' = "out"
  /\ stale' = stale + opens /\ opens' = 0
  /\ UNCHANGED <<sub, pos, held, leaked, failed, faults>>
-----------------------------------------------------------------------------
(* The node exists: held, or left behind by a module that is gone.  A      *)
(* pinned module that is going is not opened any more.                     *)
Open ==
  /\ opens + stale < MaxOpen
  /\ \/ /\ "node" \in held /\ ~(sub \in Owner /\ st = "unloading")
        /\ opens' = opens + 1
        /\ UNCHANGED faults
     \/ /\ "node" \in leaked
        /\ faults' = faults \cup {"freed"}
        /\ UNCHANGED opens
  /\ UNCHANGED <<sub, st, pos, held, leaked, failed, stale>>

(* read, write, ioctl or release.  A process that faults is killed. *)
Handle ==
  /\ \/ /\ opens > 0 /\ ~(Uses \subseteq held)
        /\ faults' = faults \cup {IF sub \in Pwm THEN "null" ELSE "not_owned"}
        /\ opens' = opens - 1
        /\ UNCHANGED stale
     \/ /\ stale > 0
        /\ faults' = faults \cup {"freed"}
        /\ stale' = stale - 1
        /\ UNCHANGED opens
     \/ opens > 0 /\ opens' = opens - 1 /\ UNCHANGED <<stale, faults>>
  /\ UNCHANGED <<sub, st, pos, held, leaked, failed>>
-----------------------------------------------------------------------------
(* sig_handler, at any time: before msgget msgid is still 0, and the queue *)
(* with that identifier goes.  accept or a handler's thread may fail too.  *)
Stop ==
  /\ sub = "server" /\ st \in {"loading", "live"}
  /\ st' = "out"
  /\ held' = {}
  /\ faults' = faults \cup (IF "msgid" \in held THEN {} ELSE {"foreign"})
  /\ UNCHANGED <<sub, pos, leaked, failed, opens, stale>>

Kill ==
  /\ sub = "server" /\ st \in {"loading", "live"}
  /\ st' = "out"
  /\ leaked' = leaked \cup Left(held) /\ held' = {}
  /\ failed' = failed \cup {"kill"}
  /\ UNCHANGED <<sub, pos, opens, stale, faults>>

(* A thread ends the process by exit, and the queue stays: login_thread    *)
(* when msgrcv or msgsnd fails, a handler when create_link has no memory.  *)
ThreadExits ==
  /\ sub = "server" /\ st \in {"loading", "live"}
  /\ \/ "login_thread" \in held /\ failed' = failed \cup {"login_thread"}
     \/ st = "live" /\ failed' = failed \cup {"create_link"}
  /\ st' = "out"
  /\ leaked' = leaked \cup Left(held) /\ held' = {}
  /\ UNCHANGED <<sub, pos, opens, stale, faults>>
-----------------------------------------------------------------------------
LifecycleInit ==
  /\ sub \in Subjects
  /\ st = "out" /\ pos = 1
  /\ held = {} /\ leaked = {} /\ failed = {}
  /\ opens = 0 /\ stale = 0 /\ faults = {}

LifecycleNext ==
  \/ Load \/ Take \/ Fail \/ Loaded \/ Unload \/ Give \/ Bind \/ FreeModule
  \/ Open \/ Handle
  \/ Stop \/ Kill \/ ThreadExits

LifecycleSpec == LifecycleInit /\ [][LifecycleNext]_lifecycleVars
-----------------------------------------------------------------------------
Resources ==
  {"chrdev", "class", "node"} \cup Elems(FanMaps) \cup Elems(MotorMaps) \cup Gpios
    \cup OfNodes \cup {c.takes : c \in Elems(server_main)}

LifecycleTypeOK ==
  /\ sub \in Subjects
  /\ st \in {"out", "loading", "live", "unloading", "unbound"}
  /\ pos \in Nat
  /\ held \subseteq Resources /\ leaked \subseteq Resources
  /\ opens \in Nat /\ stale \in Nat /\ opens + stale <= MaxOpen
  /\ faults \subseteq {"null", "freed", "not_owned", "foreign"}
  /\ st \in {"out", "unbound"} => held = {}

(* Each variable has its type, and what is left behind, apart from         *)
(* references to nodes of the device tree, comes from these error branches *)
(* only: ioremap (fan.c:110, motor.c:191), the direction of a line         *)
(* (led.c:73), class and node of the sensors (ap3216.c:139, si7006.c:126), *)
(* malloc in the server's create_link (server.c:281), msgrcv or msgsnd in  *)
(* its login_thread (server.c:255, 270), or a kill.  In particular         *)
(* unloading leaves nothing.                                               *)
LeftExplained ==
  /\ LifecycleTypeOK
  /\ leaked \ OfNodes # {} =>
    failed \cap (CASE sub \in Pwm -> {"ioremap"}
                   [] sub = "led" -> {"gpio_direction_output"}
                   [] sub \in I2c -> {"class_create", "device_create"}
                   [] sub = "server" -> {"create_link", "login_thread", "kill"}) # {}

(* A handler meets registers that are not mapped in the fan's and motor's  *)
(* drivers only, while they are loaded (the node comes first, fan.c:103),  *)
(* lines it does not own in the LED driver only, while it is unloaded with *)
(* the device open (led.c:140), and code that is gone in the fan's and     *)
(* motor's drivers only after a failed ioremap: the sensors' and the LED   *)
(* driver do not name their module (ap3216.c:106, si7006.c:105).  SIGINT   *)
(* removes another program's queue only before msgget (server.c:43).       *)
FaultExplained ==
  [][LET new == faults' \ faults
     IN  /\ "null" \in new => sub \in Pwm /\ st = "loading"
         /\ "not_owned" \in new => sub = "led" /\ st = "unloading"
         /\ "freed" \in new /\ sub \in Pwm => "ioremap" \in failed
         /\ "foreign" \in new => sub = "server" /\ st = "loading" /\ pos <= 2]_lifecycleVars
=============================================================================
