------------------------------ MODULE Devices ------------------------------
(***************************************************************************)
(* The threads of the greenhouse's client that switch its devices          *)
(* (src/src/client.c): hold_envthread, which keeps the climate within the  *)
(* thresholds, and the ctrldev_threads, which carry out the user's         *)
(* commands.  They share setflags, the duty cycles, the text buffers and   *)
(* the status byte without a lock.  Each thread is a sequence of accesses  *)
(* to that state; a statement that reads and writes shared memory is two   *)
(* accesses.  Thresholds and readings only decide between "off" and the    *)
(* level hold_envthread uses, so the decision is left open.                *)
(***************************************************************************)
EXTENDS DevBits, Sequences

CONSTANTS
  Ctrls,      \* ctrldev_threads that may run at one time
  HoldLevels, \* settings the readings may call for
  CmdForms    \* forms a user may send

(* The automatic control runs the fan at 3 or not at all. *)
ASSUME DevicesAssumption ==
  /\ HoldLevels \subseteq {l \in Levels : l.fan \in {0, 3}}
  /\ CmdForms \subseteq Forms

VARIABLES
  setflags,      \* 1 while hold_envthread may switch devices
  contdevstatus, \* status byte
  duty,          \* fan_duty_cycle and motor_duty_cycle
  text,          \* fanbuf and motorbuf
  dev,           \* what the devices are really doing
  pc,            \* where each thread is outside of its accesses
  todo,          \* accesses each thread still has to make
  want,          \* levels each thread is setting
  reg,           \* status byte each thread has read
  arg,           \* duty cycle each thread has read
  last,          \* form of the command that cleared setflags last
  alone,         \* history: the pass under way has been the only one so far
  mixed          \* history: threads met, and no pass was alone since

vars == <<setflags, contdevstatus, duty, text, dev, pc, todo, want, reg, arg, last, alone, mixed>>
-----------------------------------------------------------------------------
Hold == "hold"
Threads == Ctrls \cup {Hold}
Devs == {"led", "fan", "motor"}

(* The accesses of a thread, in the order of the code. *)
Op(op, d) == <<op, d>>
Status(d, n) == <<Op("load", d), Op(IF n = 0 THEN "clear" ELSE "set", d)>>
Write(d) == <<Op("arg", d), Op("print", d), Op("write", d)>>
Lights(l) == <<Op("ioctl", "led")>> \o Status("led", l.led)

HoldPass(l) ==
  <<Op("duty", "fan")>> \o Status("fan", l.fan) \o <<Op("duty", "motor")>>
      \o Status("motor", l.motor) \o Lights(l) \o Write("fan") \o Write("motor")

(* Mutation: the fan's old level stays in the status. *)
FanStatusAdds(n) == Status("fan", n)

(* ctrldev_thread clears the fan's bits before it sets them. *)
FanStatus(n) == Status("fan", 0) \o IF n = 0 THEN <<>> ELSE Status("fan", n)

CtrlPass(l) ==
  Lights(l) \o <<Op("duty", "motor")>> \o Status("motor", l.motor) \o <<Op("duty", "fan")>>
      \o FanStatus(l.fan) \o Write("fan") \o Write("motor")

Ops == {"load", "clear", "set", "arg", "print", "write", "ioctl", "duty"} \X Devs

Goto(t, l) == pc' = [pc EXCEPT ![t] = l]
Busy == {t \in Threads : pc[t] = "busy"}
Begin(t, prog) ==
  /\ Goto(t, "busy")
  /\ todo' = [todo EXCEPT ![t] = prog]
  /\ alone' = (Busy = {})
  /\ mixed' = (mixed \/ Busy # {})
-----------------------------------------------------------------------------
(* One access of thread t to shared memory or to a device. *)
DutyCycle(t, d) == duty' = [duty EXCEPT ![d] = want[t][d]]
                   /\ UNCHANGED <<contdevstatus, text, dev, reg, arg>>
Load(t) == reg' = [reg EXCEPT ![t] = contdevstatus]
           /\ UNCHANGED <<contdevstatus, duty, text, dev, arg>>
Store(t, b) == contdevstatus' = b
               /\ reg' = [reg EXCEPT ![t] = {}] /\ UNCHANGED <<duty, text, dev, arg>>
Arg(t, d) == arg' = [arg EXCEPT ![t] = duty[d]]
             /\ UNCHANGED <<contdevstatus, duty, text, dev, reg>>
Sprintf(t, d) == text' = [text EXCEPT ![d] = arg[t]]
                 /\ arg' = [arg EXCEPT ![t] = 0] /\ UNCHANGED <<contdevstatus, duty, dev, reg>>
WriteDev(d) == dev' = [dev EXCEPT ![d] = text[d]]
               /\ UNCHANGED <<contdevstatus, duty, text, reg, arg>>
(* Mutation: the number of the light is taken for its state. *)
IoctlNumber(t, d) == \E n \in 1..6 : dev' = [dev EXCEPT ![d] = n]
                     /\ UNCHANGED <<contdevstatus, duty, text, reg, arg>>

Ioctl(t, d) == dev' = [dev EXCEPT ![d] = want[t][d]]
               /\ UNCHANGED <<contdevstatus, duty, text, reg, arg>>

Access(t) ==
  /\ pc[t] = "busy"
  /\ LET op == Head(todo[t])[1]
         d == Head(todo[t])[2]
     IN  \/ op = "duty" /\ DutyCycle(t, d)
         \/ op = "load" /\ Load(t)
         \/ op = "clear" /\ Store(t, ClearBits(reg[t], d))
         \/ op = "set" /\ Store(t, SetBits(reg[t], d, want[t][d]))
         \/ op = "arg" /\ Arg(t, d)
         \/ op = "print" /\ Sprintf(t, d)
         \/ op = "write" /\ WriteDev(d)
         \/ op = "ioctl" /\ Ioctl(t, d)
  /\ todo' = [todo EXCEPT ![t] = Tail(@)]
  /\ IF Len(todo[t]) > 1 THEN UNCHANGED <<pc, want, mixed>>
     ELSE /\ Goto(t, IF t = Hold THEN "nap" ELSE "new")
          /\ want' = [want EXCEPT ![t] = Off]
          /\ mixed' = (mixed /\ ~alone)
  /\ UNCHANGED <<setflags, last, alone>>
-----------------------------------------------------------------------------
(* hold_envthread's first statements may run after a command: they forget  *)
(* what it did.                                                            *)
HoldStart ==
  /\ pc[Hold] = "start"
  /\ contdevstatus' = {}
  /\ setflags' = 1
  /\ Goto(Hold, "awake")
  /\ alone' = FALSE /\ mixed' = TRUE
  /\ UNCHANGED <<duty, text, dev, todo, want, reg, arg, last>>

(* Mutation: setflags is not tested. *)
HoldDecidesAlways ==
  /\ pc[Hold] = "awake"
  /\ \E l \in HoldLevels : want' = [want EXCEPT ![Hold] = l] /\ Begin(Hold, HoldPass(l))
  /\ UNCHANGED <<setflags, contdevstatus, duty, text, dev, reg, arg, last>>

(* hold_envthread reads the sensors, tests setflags and decides.           *)
HoldDecide ==
  /\ pc[Hold] = "awake"
  /\ setflags = 1
  /\ \E l \in HoldLevels : want' = [want EXCEPT ![Hold] = l] /\ Begin(Hold, HoldPass(l))
  /\ UNCHANGED <<setflags, contdevstatus, duty, text, dev, reg, arg, last>>

HoldSkip ==
  /\ pc[Hold] = "awake"
  /\ setflags = 0
  /\ Goto(Hold, "nap")
  /\ UNCHANGED <<setflags, contdevstatus, duty, text, dev, todo, want, reg, arg, last, alone, mixed>>

(* It tests setflags again: after a command it sleeps 120 seconds. *)
HoldNap ==
  /\ pc[Hold] = "nap"
  /\ Goto(Hold, IF setflags = 0 THEN "sleep" ELSE "awake")
  /\ UNCHANGED <<setflags, contdevstatus, duty, text, dev, todo, want, reg, arg, last, alone, mixed>>

(* Mutation: setflags is not set again. *)
HoldOversleeps ==
  /\ pc[Hold] = "sleep"
  /\ Goto(Hold, "awake")
  /\ UNCHANGED <<setflags, contdevstatus, duty, text, dev, todo, want, reg, arg, last, alone, mixed>>

HoldWake ==
  /\ pc[Hold] = "sleep"
  /\ setflags' = 1
  /\ Goto(Hold, "awake")
  /\ UNCHANGED <<contdevstatus, duty, text, dev, todo, want, reg, arg, last, alone, mixed>>

(* ctrldev_thread copies its command and clears setflags. *)
CtrlBegin(t) ==
  /\ pc[t] = "new"
  /\ setflags' = 0
  /\ \E f \in CmdForms :
       /\ last' = f
       /\ LET l == Unpack(devctrl(f))
          IN  want' = [want EXCEPT ![t] = l] /\ Begin(t, CtrlPass(l))
  /\ UNCHANGED <<contdevstatus, duty, text, dev, reg, arg>>

(* setlimit_thread lets the automatic control act at once. *)
SetLimit ==
  /\ setflags' = 1
  /\ UNCHANGED <<contdevstatus, duty, text, dev, pc, todo, want, reg, arg, last, alone, mixed>>
-----------------------------------------------------------------------------
(* The client has logged in and created hold_envthread. *)
Init ==
  /\ setflags = 0
  /\ contdevstatus = {}
  /\ duty = [fan |-> 0, motor |-> 0]
  /\ text = [fan |-> 0, motor |-> 0]
  /\ dev = Off
  /\ pc = [t \in Threads |-> IF t = Hold THEN "start" ELSE "new"]
  /\ todo = [t \in Threads |-> <<>>]
  /\ want = [t \in Threads |-> Off]
  /\ reg = [t \in Threads |-> {}]
  /\ arg = [t \in Threads |-> 0]
  /\ last = [LED |-> "", FAN |-> "", BEEP |-> ""]
  /\ alone = FALSE /\ mixed = FALSE

HoldStep == HoldStart \/ HoldDecide \/ HoldSkip \/ HoldNap \/ HoldWake \/ Access(Hold)

Next ==
  \/ HoldStep
  \/ \E t \in Ctrls : CtrlBegin(t) \/ Access(t)
  \/ SetLimit

Spec == Init /\ [][Next]_vars

(* The threads are scheduled, and every sleep ends. *)
Fairness == WF_vars(HoldStep) /\ \A t \in Ctrls : WF_vars(Access(t))
FairSpec == Spec /\ Fairness
-----------------------------------------------------------------------------
(* Flags, levels and programs stay in their types: what reaches a driver   *)
(* as text is always one digit it knows.                                   *)
TypeOK ==
  /\ setflags \in {0, 1}
  /\ contdevstatus \in SUBSET (0..3) /\ dev \in Levels /\ last \in Forms
  /\ duty \in [fan : 0..3, motor : {0, 1}]
  /\ text \in [fan : 0..3, motor : {0, 1}]
  /\ pc \in [Threads -> {"new", "start", "awake", "nap", "sleep", "busy"}]
  /\ todo \in [Threads -> Seq(Ops)]
  /\ want \in [Threads -> Levels]
  /\ reg \in [Threads -> SUBSET (0..3)] /\ arg \in [Threads -> 0..3]
  /\ alone \in BOOLEAN /\ mixed \in BOOLEAN

Quiet == Busy = {}

(* myhead.h:42, client.c:308: the status byte tells what each device does, *)
(* and the duty cycles what the fan and the motor do, unless two threads   *)
(* met (or hold_envthread starts late); the next pass that is alone        *)
(* repairs that.                                                           *)
StatusAgrees ==
  Quiet /\ ~mixed =>
    View(contdevstatus) = dev /\ \A d \in {"fan", "motor"} : duty[d] = dev[d]

(* client.c:308: the devices do what the last form asked for until the long *)
(* sleep of hold_envthread ends or new thresholds come, unless two threads *)
(* met and no pass was alone since.                                        *)
ManualHolds == Quiet /\ ~mixed /\ setflags = 0 => dev = Asked(last)

(* client.c:228-230: the automatic control comes back after every command. *)
HoldResumes == setflags = 0 ~> setflags = 1
=============================================================================
