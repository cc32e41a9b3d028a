--------------------------- MODULE DevicesProofs ---------------------------
(***************************************************************************)
(* Proofs about DevBits and Devices.  First the bits: a command is         *)
(* understood as it was meant, and the status shown is the level set.      *)
(* Then the passes of the threads, put together from parts that keep an    *)
(* order of their accesses (Shaped), which the rest of a pass keeps too:   *)
(* with it the types are inductive.  Last, a pass that nobody disturbs     *)
(* (Sole) settles one thing with every access, until all three records of  *)
(* what the devices do agree.                                              *)
(***************************************************************************)
EXTENDS Devices, SequenceTheorems, TLAPS

(* A byte holds three independent fields: what is written in one of them   *)
(* does not disturb what is read from the others.                          *)
Fields(l) == Level("led", l.led) \cup Level("fan", l.fan) \cup Level("motor", l.motor)

(* The status s after a pass of ctrldev_thread with levels l that no other *)
(* thread met (client.c:309-350).                                          *)
Put(s, d, n) == IF n = 0 THEN ClearBits(s, d) ELSE SetBits(ClearBits(s, d), d, n)
AfterPass(s, l) == Put(Put(Put(s, "led", l.led), "motor", l.motor), "fan", l.fan)

(* Each of the three fields of levels l, read where the client and the     *)
(* view page read it.                                                      *)
LEMMA FieldsIntersect ==
  ASSUME NEW l \in Levels
  PROVE  /\ Fields(l) \cap Led = Level("led", l.led)
         /\ Fields(l) \cap Fan = Level("fan", l.fan)
         /\ Fields(l) \cap Motor = Level("motor", l.motor)
<1>1. Level("led", l.led) \subseteq {0} /\ Level("motor", l.motor) \subseteq {3}
  BY DEF Level, Bits, Led, Motor
<1>2. Level("fan", l.fan) \subseteq {1, 2}
  BY DEF Level
<1> QED BY <1>1, <1>2 DEF Fields, Led, Fan, Motor

(* The client reads from a byte the levels that were packed into it        *)
(* (client.c:309-350).                                                     *)
LEMMA UnpackFields ==
  ASSUME NEW l \in Levels
  PROVE  Unpack(Fields(l)) = l
<1>1. l = [led |-> l.led, motor |-> l.motor, fan |-> l.fan]
  BY DEF Levels
<1>2. l.led \in {0, 1} /\ l.motor \in {0, 1} /\ l.fan \in {0, 1, 2, 3}
  BY DEF Levels
<1>3. Level("led", l.led) = (IF l.led = 1 THEN {0} ELSE {})
      /\ Level("motor", l.motor) = (IF l.motor = 1 THEN {3} ELSE {})
  BY DEF Level, Bits, Led, Motor
<1>4. (IF Level("led", l.led) # {} THEN 1 ELSE 0) = l.led
  BY <1>2, <1>3
<1>5. (IF Level("motor", l.motor) = Motor THEN 1 ELSE 0) = l.motor
  BY <1>2, <1>3 DEF Motor
<1>6. (CASE Level("fan", l.fan) = {1} -> 1 [] Level("fan", l.fan) = {2} -> 2
         [] Level("fan", l.fan) = {1, 2} -> 3 [] OTHER -> 0) = l.fan
  <2>1. CASE l.fan = 0 BY <2>1 DEF Level
  <2>2. CASE l.fan = 1 BY <2>2 DEF Level
  <2>3. CASE l.fan = 2 BY <2>3 DEF Level
  <2>4. CASE l.fan = 3 BY <2>4 DEF Level
  <2> QED BY <1>2, <2>1, <2>2, <2>3, <2>4
<1> QED BY <1>1, <1>4, <1>5, <1>6, FieldsIntersect DEF Unpack

(* What ctrldev_thread takes from the byte is what the user meant by the   *)
(* form (garden_stuff_dev.c:54-90, client.c:309-350).                      *)
THEOREM CommandUnderstood == \A f \in Forms : Unpack(devctrl(f)) = Asked(f)
<1> SUFFICES ASSUME NEW f \in Forms PROVE Unpack(devctrl(f)) = Asked(f)
  OBVIOUS
<1>1. Asked(f) \in Levels
  BY DEF Asked, Levels
<1>2. devctrl(f) = Fields(Asked(f))
  BY DEF devctrl, Fields, Asked
<1> QED BY <1>1, <1>2, UnpackFields

(* The view page shows the levels whose bits the status byte holds.        *)
LEMMA ViewFields ==
  ASSUME NEW s, NEW l \in Levels,
         s \cap Led = Level("led", l.led), s \cap Motor = Level("motor", l.motor),
         s \cap Fan = Level("fan", l.fan)
  PROVE  View(s) = l
<1>1. l = [led |-> l.led, motor |-> l.motor, fan |-> l.fan]
      /\ l.led \in {0, 1} /\ l.motor \in {0, 1} /\ l.fan \in {0, 1, 2, 3}
  BY DEF Levels
<1>2. (IF s \cap Led # {} THEN 1 ELSE 0) = l.led
  BY <1>1 DEF Level, Bits, Led
<1>3. (IF s \cap Motor # {} THEN 1 ELSE 0) = l.motor
  BY <1>1 DEF Level, Bits, Motor
<1>4. (CASE s \cap Fan = {} -> 0 [] s \cap Fan = {1} -> 1 [] s \cap Fan = {2} -> 2
         [] s \cap Fan = {1, 2} -> 3) = l.fan
  <2>1. CASE l.fan = 0 BY <2>1 DEF Level
  <2>2. CASE l.fan = 1 BY <2>2 DEF Level
  <2>3. CASE l.fan = 2 BY <2>3 DEF Level
  <2>4. CASE l.fan = 3 BY <2>4 DEF Level
  <2> QED BY <1>1, <2>1, <2>2, <2>3, <2>4
<1> QED BY <1>1, <1>2, <1>3, <1>4 DEF View

(* Whatever the status byte was, the view page shows what the last command *)
(* set when no other thread met it (garden_stuff_view.c:110-140).          *)
THEOREM StatusShown == \A s \in Byte, l \in Levels : View(AfterPass(s, l)) = l
<1> SUFFICES ASSUME NEW s \in Byte, NEW l \in Levels PROVE View(AfterPass(s, l)) = l
  OBVIOUS
<1> DEFINE b == AfterPass(s, l)
<1>1. l.led \in {0, 1} /\ l.motor \in {0, 1} /\ l.fan \in {0, 1, 2, 3}
  BY DEF Levels
<1>2. b \cap Led = Level("led", l.led)
  BY <1>1 DEF AfterPass, Put, ClearBits, SetBits, Level, Bits, Led, Fan, Motor
<1>3. b \cap Motor = Level("motor", l.motor)
  BY <1>1 DEF AfterPass, Put, ClearBits, SetBits, Level, Bits, Led, Fan, Motor
<1>4. b \cap Fan = Level("fan", l.fan)
  BY <1>1 DEF AfterPass, Put, ClearBits, SetBits, Level, Bits, Led, Fan, Motor
<1> HIDE DEF b
<1> QED BY <1>2, <1>3, <1>4, ViewFields DEF b
-----------------------------------------------------------------------------
(* The devices driven by a duty cycle, which is written to them as text. *)
Wheels == {"fan", "motor"}

(* The accesses that are left of a pass, and those that exist at all. *)
Rest(q) == {q[i] : i \in DOMAIN q}
Known == ({"load", "clear", "set"} \X Devs) \cup ({"duty", "arg", "print", "write"} \X Wheels)
           \cup {Op("ioctl", "led")}

(* A pass that sets the levels w, or the rest of one: an access that uses  *)
(* what another has read comes right after it, the duty cycle of a device  *)
(* is settled before it is used, and the bits of its level are set last.   *)
Follows(q) ==
  \A i \in DOMAIN q, d \in Devs : i > 1 =>
    /\ q[i] \in {Op("clear", d), Op("set", d)} => q[i - 1] = Op("load", d)
    /\ q[i] = Op("print", d) => q[i - 1] = Op("arg", d)
    /\ q[i] = Op("write", d) => q[i - 1] = Op("print", d)
Ordered(q) ==
  \A i, j \in DOMAIN q, d \in Devs : q[i] = Op("arg", d) /\ q[j] = Op("duty", d) => j < i
SetsTo(q, w) ==
  \A i \in DOMAIN q, d \in Devs :
    /\ q[i] = Op("set", d) => w[d] # 0
    /\ q[i] = Op("clear", d) /\ w[d] # 0 => \E j \in DOMAIN q : j > i /\ q[j] = Op("set", d)
Shaped(q, w) ==
  /\ q \in Seq(Ops) /\ Rest(q) \subseteq Known
  /\ Follows(q) /\ Ordered(q) /\ SetsTo(q, w)

(* A part that needs nothing read before it. *)
Starts(q) ==
  q # <<>> => \E d \in Devs : q[1] \in {Op("load", d), Op("ioctl", d), Op("duty", d), Op("arg", d)}


(* The first part of a pass. *)
Opens(q, w) == Shaped(q, w) /\ q # <<>> /\ Starts(q)

(* Two parts of a pass make one. *)
LEMMA Join ==
  ASSUME NEW w, NEW s, NEW t, Shaped(s, w), Shaped(t, w), Starts(t),
         \A d \in Devs : Op("arg", d) \notin Rest(s) \/ Op("duty", d) \notin Rest(t)
  PROVE  /\ Shaped(s \o t, w) /\ Rest(s \o t) = Rest(s) \cup Rest(t)
         /\ Opens(s, w) => Opens(s \o t, w)
<1> DEFINE q == s \o t
           m == Len(s)
<1>1. s \in Seq(Ops) /\ t \in Seq(Ops)
  BY DEF Shaped
<1>2. q \in Seq(Ops) /\ m \in Nat /\ Len(t) \in Nat /\ Len(q) = m + Len(t)
      /\ DOMAIN s = 1..m /\ DOMAIN t = 1..Len(t) /\ DOMAIN q = 1..Len(q)
  BY <1>1, ConcatProperties, LenProperties
<1>3. \A i \in 1..m : i \in DOMAIN q /\ q[i] = s[i]
  BY <1>1, <1>2, ConcatProperties
<1>4. \A i \in 1..Len(t) : m + i \in DOMAIN q /\ q[m + i] = t[i]
  BY <1>1, <1>2, ConcatProperties
<1>5. \A i \in DOMAIN q : (i \in DOMAIN s /\ q[i] = s[i])
                          \/ (i - m \in DOMAIN t /\ i > m /\ q[i] = t[i - m])
  <2> SUFFICES ASSUME NEW i \in DOMAIN q, ~(i \in DOMAIN s /\ q[i] = s[i])
               PROVE  i - m \in DOMAIN t /\ i > m /\ q[i] = t[i - m]
    OBVIOUS
  <2>1. i \in 1..(m + Len(t)) /\ i > m
    BY <1>2, <1>3
  <2>2. i - m \in 1..Len(t) /\ m + (i - m) = i
    BY <1>2, <2>1
  <2> QED
    BY <1>2, <1>4, <2>1, <2>2
<1>6. Rest(q) = Rest(s) \cup Rest(t)
  <2>1. Rest(q) \subseteq Rest(s) \cup Rest(t)
    BY <1>5 DEF Rest
  <2>2. Rest(s) \subseteq Rest(q)
    BY <1>2, <1>3 DEF Rest
  <2>3. ASSUME NEW i \in DOMAIN t PROVE t[i] \in Rest(q)
    <3>1. m + i \in DOMAIN q /\ q[m + i] = t[i]
      BY <1>2, <1>4
    <3> HIDE DEF q, m
    <3> QED
      BY <3>1 DEF Rest
  <2> QED
    BY <2>1, <2>2, <2>3 DEF Rest
<1> HIDE DEF q, m
<1>7. Follows(q)
  <2> SUFFICES ASSUME NEW i \in DOMAIN q, NEW d \in Devs, i > 1
               PROVE  /\ q[i] \in {Op("clear", d), Op("set", d)} => q[i - 1] = Op("load", d)
                      /\ q[i] = Op("print", d) => q[i - 1] = Op("arg", d)
                      /\ q[i] = Op("write", d) => q[i - 1] = Op("print", d)
    BY DEF Follows
  <2>1. CASE i \in DOMAIN s /\ q[i] = s[i]
    <3>1. i - 1 \in 1..m
      BY <1>2, <2>1
    <3>2. q[i - 1] = s[i - 1]
      BY <1>3, <3>1
    <3> QED
      BY <2>1, <3>2 DEF Shaped, Follows
  <2>2. CASE i - m \in DOMAIN t /\ i > m /\ q[i] = t[i - m]
    <3>1. CASE i - m > 1
      <4>1. (i - m) - 1 \in 1..Len(t) /\ m + ((i - m) - 1) = i - 1
        BY <1>2, <2>2, <3>1
      <4>2. q[i - 1] = t[(i - m) - 1]
        BY <1>4, <4>1
      <4> DEFINE k == i - m
      <4>3. k \in DOMAIN t /\ k > 1 /\ q[i] = t[k] /\ q[i - 1] = t[k - 1]
        BY <2>2, <3>1, <4>2
      <4> HIDE DEF k
      <4> QED
        BY <4>3 DEF Shaped, Follows
    <3>2. CASE i - m = 1
      <4>1. q[i] = t[1] /\ t # <<>>
        BY <1>2, <2>2, <3>2
      <4>2. PICK e \in Devs : t[1] \in {Op("load", e), Op("ioctl", e), Op("duty", e), Op("arg", e)}
        BY <4>1 DEF Starts
      <4> QED
        BY <4>1, <4>2 DEF Op
    <3> QED
      BY <1>2, <2>2, <3>1, <3>2
  <2> QED
    BY <1>5, <2>1, <2>2
<1>8. Ordered(q)
  <2> SUFFICES ASSUME NEW i \in DOMAIN q, NEW j \in DOMAIN q, NEW d \in Devs,
                      q[i] = Op("arg", d), q[j] = Op("duty", d)
               PROVE  j < i
    BY DEF Ordered
  <2>1. CASE i \in DOMAIN s /\ q[i] = s[i] /\ j \in DOMAIN s /\ q[j] = s[j]
    BY <2>1 DEF Shaped, Ordered
  <2>2. CASE i \in DOMAIN s /\ q[i] = s[i] /\ j - m \in DOMAIN t /\ q[j] = t[j - m]
    BY <2>2 DEF Rest
  <2>3. CASE i - m \in DOMAIN t /\ i > m /\ q[i] = t[i - m] /\ j \in DOMAIN s
    BY <1>2, <2>3
  <2>4. CASE i - m \in DOMAIN t /\ q[i] = t[i - m] /\ j - m \in DOMAIN t /\ q[j] = t[j - m]
    <3>1. j - m < i - m
      BY <2>4 DEF Shaped, Ordered
    <3> QED
      BY <1>2, <3>1
  <2> QED
    BY <1>5, <2>1, <2>2, <2>3, <2>4
<1>9. SetsTo(q, w)
  <2> SUFFICES ASSUME NEW i \in DOMAIN q, NEW d \in Devs
               PROVE  /\ q[i] = Op("set", d) => w[d] # 0
                      /\ q[i] = Op("clear", d) /\ w[d] # 0 =>
                           \E j \in DOMAIN q : j > i /\ q[j] = Op("set", d)
    BY DEF SetsTo
  <2>0. SetsTo(s, w) /\ SetsTo(t, w)
    BY DEF Shaped
  <2>1. CASE i \in DOMAIN s /\ q[i] = s[i]
    <3>1. q[i] = Op("set", d) => w[d] # 0
      BY <2>0, <2>1 DEF SetsTo
    <3>2. ASSUME q[i] = Op("clear", d), w[d] # 0
          PROVE  \E j \in DOMAIN q : j > i /\ q[j] = Op("set", d)
      <4>1. PICK j \in DOMAIN s : j > i /\ s[j] = Op("set", d)
        BY <2>0, <2>1, <3>2 DEF SetsTo
      <4> QED
        BY <1>2, <1>3, <4>1
    <3> QED
      BY <3>1, <3>2
  <2>2. CASE i - m \in DOMAIN t /\ i > m /\ q[i] = t[i - m]
    <3>1. q[i] = Op("set", d) => w[d] # 0
      BY <2>0, <2>2 DEF SetsTo
    <3>2. ASSUME q[i] = Op("clear", d), w[d] # 0
          PROVE  \E j \in DOMAIN q : j > i /\ q[j] = Op("set", d)
      <4>1. PICK j \in DOMAIN t : j > i - m /\ t[j] = Op("set", d)
        BY <2>0, <2>2, <3>2 DEF SetsTo
      <4>2. m + j \in DOMAIN q /\ q[m + j] = t[j] /\ m + j > i
        BY <1>2, <1>4, <2>2, <4>1
      <4> QED
        BY <4>1, <4>2
    <3> QED
      BY <3>1, <3>2
  <2> QED
    BY <1>5, <2>1, <2>2
<1>10. ASSUME Opens(s, w) PROVE q # <<>> /\ Starts(q)
  <2>1. s # <<>> /\ Starts(s)
    BY <1>10 DEF Opens
  <2>2. 1 \in 1..m
    BY <1>1, <1>2, <2>1, EmptySeq DEF m
  <2>3. q[1] = s[1] /\ q # <<>>
    BY <1>2, <1>3, <2>2
  <2> QED
    BY <2>1, <2>3 DEF Starts
<1> QED
  BY <1>2, <1>6, <1>7, <1>8, <1>9, <1>10 DEF Shaped, Opens, q

(* The first part s of a pass, continued by t. *)
Precedes(s, t) == \A d \in Devs : Op("arg", d) \notin Rest(s) \/ Op("duty", d) \notin Rest(t)
Continued(q, s, t, w) == Opens(q, w) /\ Rest(q) = Rest(s) \cup Rest(t)

LEMMA Continue ==
  ASSUME NEW w, NEW s, NEW t, NEW q, Opens(s, w), Shaped(t, w), Starts(t), Precedes(s, t),
         q = s \o t
  PROVE  Continued(q, s, t, w)
<1>1. Shaped(s, w)
  BY DEF Opens
<1> QED
  BY <1>1, Join DEF Precedes, Continued

(* The parts that passes are made of. *)
LEMMA SimpleParts ==
  ASSUME NEW w
  PROVE  /\ Shaped(<<>>, w) /\ Starts(<<>>) /\ Rest(<<>>) = {}
         /\ \A d \in Wheels : /\ Shaped(<<Op("duty", d)>>, w) /\ Starts(<<Op("duty", d)>>)
                              /\ Rest(<<Op("duty", d)>>) = {Op("duty", d)}
         /\ /\ Shaped(<<Op("ioctl", "led")>>, w) /\ Starts(<<Op("ioctl", "led")>>)
            /\ Rest(<<Op("ioctl", "led")>>) = {Op("ioctl", "led")}
<1>0. \A d \in Wheels : d \in Devs /\ Op("duty", d) \in Ops /\ Op("ioctl", "led") \in Ops
  BY DEF Wheels, Devs, Op, Ops
<1>1. Shaped(<<>>, w) /\ Starts(<<>>) /\ Rest(<<>>) = {}
  BY DEF Shaped, Starts, Rest, Follows, Ordered, SetsTo
<1>2. ASSUME NEW d \in Devs, NEW o \in {"duty", "ioctl"}, NEW q, q = <<Op(o, d)>>,
             Op(o, d) \in Known, Op(o, d) \in Ops
      PROVE  Shaped(q, w) /\ Starts(q) /\ Rest(q) = {Op(o, d)}
  <2>1. q \in Seq(Ops) /\ DOMAIN q = {1} /\ q[1] = Op(o, d)
    BY <1>2
  <2>2. Rest(q) = {Op(o, d)}
    BY <2>1 DEF Rest
  <2>3. Starts(q)
    BY <1>2, <2>1 DEF Starts
  <2>4. Follows(q) /\ Ordered(q) /\ SetsTo(q, w)
    BY <1>2, <2>1 DEF Follows, Ordered, SetsTo, Op
  <2> QED
    BY <1>2, <2>1, <2>2, <2>3, <2>4 DEF Shaped
<1>3. \A d \in Wheels : Op("duty", d) \in Known /\ Op("ioctl", "led") \in Known
  BY DEF Known, Op
<1>4. "led" \in Devs /\ Op("ioctl", "led") \in Known /\ Op("ioctl", "led") \in Ops
  BY DEF Devs, Known, Ops, Op
<1> QED
  BY <1>0, <1>1, <1>2, <1>3, <1>4

(* An assignment to the status byte loads it, then stores it. *)
LEMMA StatusPart ==
  ASSUME NEW w, NEW d \in Devs, NEW n, n = 0 => w[d] = 0, n # 0 => w[d] # 0
  PROVE  /\ Shaped(Status(d, n), w) /\ Starts(Status(d, n))
         /\ Rest(Status(d, n)) = {Op("load", d), Op(IF n = 0 THEN "clear" ELSE "set", d)}
<1> DEFINE o == IF n = 0 THEN "clear" ELSE "set"
           q == Status(d, n)
<1>1. q = <<Op("load", d), Op(o, d)>>
  BY DEF Status
<1>2. Op("load", d) \in Ops /\ Op(o, d) \in Ops /\ Op("load", d) \in Known /\ Op(o, d) \in Known
  BY DEF Ops, Known, Op
<1>3. (n = 0 => o = "clear") /\ (n # 0 => o = "set")
  OBVIOUS
<1> HIDE DEF o, q
<1>4. q \in Seq(Ops) /\ DOMAIN q = {1, 2} /\ q[1] = Op("load", d) /\ q[2] = Op(o, d)
  BY <1>1, <1>2
<1>5. Rest(q) = {Op("load", d), Op(o, d)}
  BY <1>4 DEF Rest
<1>6. Starts(q)
  BY <1>4 DEF Starts
<1>7. Follows(q)
  BY <1>3, <1>4 DEF Follows, Op
<1>8. Ordered(q)
  BY <1>3, <1>4 DEF Ordered, Op
<1>9. SetsTo(q, w)
  <2>1. CASE n = 0
    BY <1>3, <1>4, <2>1 DEF SetsTo, Op
  <2>2. CASE n # 0
    BY <1>3, <1>4, <2>2 DEF SetsTo, Op
  <2> QED
    BY <2>1, <2>2
<1> QED
  BY <1>2, <1>4, <1>5, <1>6, <1>7, <1>8, <1>9 DEF Shaped, q, o

(* Another reads the duty cycle, prints it and writes the text. *)
LEMMA WritePart ==
  ASSUME NEW w, NEW d \in Wheels
  PROVE  /\ Shaped(Write(d), w) /\ Starts(Write(d))
         /\ Rest(Write(d)) = {Op("arg", d), Op("print", d), Op("write", d)}
<1> DEFINE q == Write(d)
<1>0. d \in Devs
  BY DEF Wheels, Devs
<1>1. q = <<Op("arg", d), Op("print", d), Op("write", d)>>
  BY DEF Write
<1>2. \A o \in {"arg", "print", "write"} : Op(o, d) \in Ops /\ Op(o, d) \in Known
  BY <1>0 DEF Ops, Known, Op
<1> HIDE DEF q
<1>3. q \in Seq(Ops) /\ DOMAIN q = {1, 2, 3}
      /\ q[1] = Op("arg", d) /\ q[2] = Op("print", d) /\ q[3] = Op("write", d)
  BY <1>1, <1>2
<1>4. Rest(q) = {Op("arg", d), Op("print", d), Op("write", d)}
  BY <1>3 DEF Rest
<1>5. Starts(q)
  BY <1>0, <1>3 DEF Starts
<1>6. Follows(q)
  BY <1>3 DEF Follows, Op
<1>7. Ordered(q) /\ SetsTo(q, w)
  BY <1>3 DEF Ordered, SetsTo, Op
<1> QED
  BY <1>2, <1>3, <1>4, <1>5, <1>6, <1>7 DEF Shaped, q

(* A sequence of two. *)
LEMMA Pair ==
  ASSUME NEW S, NEW a \in S, NEW b \in S, NEW q, q = <<a, b>>
  PROVE  q \in Seq(S) /\ Len(q) = 2 /\ q[1] = a /\ q[2] = b
OBVIOUS

(* ctrldev_thread clears the fan's bits even when it sets some of them. *)
LEMMA FanPart ==
  ASSUME NEW w, NEW n, n = w["fan"]
  PROVE  /\ Shaped(FanStatus(n), w) /\ Starts(FanStatus(n))
         /\ Op("clear", "fan") \in Rest(FanStatus(n))
         /\ Rest(FanStatus(n)) \subseteq {Op("load", "fan"), Op("clear", "fan"), Op("set", "fan")}
<1> DEFINE q == FanStatus(n)
<1>0. "fan" \in Devs
  BY DEF Devs
<1>1. CASE n = 0
  <2>1. q = Status("fan", 0) \o <<>>
    BY <1>1 DEF FanStatus
  <2>2. /\ Shaped(Status("fan", 0), w) /\ Starts(Status("fan", 0))
        /\ Rest(Status("fan", 0)) = {Op("load", "fan"), Op("clear", "fan")}
    BY <1>0, <1>1, StatusPart
  <2>3. Status("fan", 0) \o <<>> = Status("fan", 0)
    BY <2>2, ConcatEmptySeq DEF Shaped
  <2> QED
    BY <2>1, <2>2, <2>3
<1>2. CASE n # 0
  <2>1. q = Status("fan", 0) \o Status("fan", n)
    BY <1>2 DEF FanStatus
  <2>2. /\ Status("fan", 0) = <<Op("load", "fan"), Op("clear", "fan")>>
        /\ Status("fan", n) = <<Op("load", "fan"), Op("set", "fan")>>
    BY <1>2 DEF Status
  <2>3. /\ Op("load", "fan") \in Ops /\ Op("clear", "fan") \in Ops /\ Op("set", "fan") \in Ops
        /\ Op("load", "fan") \in Known /\ Op("clear", "fan") \in Known /\ Op("set", "fan") \in Known
    BY <1>0 DEF Ops, Known, Op
  <2>4. /\ Status("fan", 0) \in Seq(Ops) /\ Len(Status("fan", 0)) = 2
        /\ Status("fan", 0)[1] = Op("load", "fan") /\ Status("fan", 0)[2] = Op("clear", "fan")
    BY <2>2, <2>3, Pair
  <2>5. /\ Status("fan", n) \in Seq(Ops) /\ Len(Status("fan", n)) = 2
        /\ Status("fan", n)[1] = Op("load", "fan") /\ Status("fan", n)[2] = Op("set", "fan")
    BY <2>2, <2>3, Pair
  <2> HIDE DEF q
  <2>6. q \in Seq(Ops) /\ Len(q) = 4 /\ \A i \in 1..4 : q[i] =
          IF i <= 2 THEN Status("fan", 0)[i] ELSE Status("fan", n)[i - 2]
    <3> DEFINE a == Status("fan", 0)
               b == Status("fan", n)
    <3>1. a \in Seq(Ops) /\ b \in Seq(Ops) /\ Len(a) = 2 /\ Len(b) = 2 /\ q = a \o b
      BY <2>1, <2>4, <2>5
    <3> HIDE DEF a, b
    <3>3. /\ q \in Seq(Ops) /\ Len(q) = Len(a) + Len(b)
          /\ \A i \in 1..(Len(a) + Len(b)) : q[i] = IF i <= Len(a) THEN a[i] ELSE b[i - Len(a)]
      BY <3>1, ConcatProperties
    <3>2. q \in Seq(Ops) /\ Len(q) = 4 /\ \A i \in 1..4 : q[i] = IF i <= 2 THEN a[i] ELSE b[i - 2]
      BY <3>1, <3>3
    <3> QED
      BY <3>2 DEF a, b
  <2>7. DOMAIN q = {1, 2, 3, 4}
    BY <2>6, LenProperties
  <2>8. q[1] = Op("load", "fan") /\ q[2] = Op("clear", "fan")
        /\ q[3] = Op("load", "fan") /\ q[4] = Op("set", "fan")
    BY <2>4, <2>5, <2>6
  <2>9. Rest(q) = {Op("load", "fan"), Op("clear", "fan"), Op("set", "fan")}
    BY <2>7, <2>8 DEF Rest
  <2>10. Starts(q)
    BY <1>0, <2>8 DEF Starts
  <2>11. Follows(q)
    BY <2>7, <2>8 DEF Follows, Op
  <2>12. Ordered(q)
    BY <2>7, <2>8 DEF Ordered, Op
  <2>13. SetsTo(q, w)
    BY <1>2, <2>7, <2>8 DEF SetsTo, Op
  <2> QED
    BY <2>3, <2>6, <2>9, <2>10, <2>11, <2>12, <2>13 DEF Shaped, q
<1> QED
  BY <1>1, <1>2

(* What a pass has to do: an access for each thing it settles. *)
Complete(q, w) ==
  /\ \A d \in Wheels : Op("duty", d) \in Rest(q) /\ Op("write", d) \in Rest(q)
  /\ Op("ioctl", "led") \in Rest(q)
  /\ \A d \in Devs : \/ Op("clear", d) \in Rest(q)
                     \/ Op("set", d) \in Rest(q) /\ Level(d, w[d]) = Bits(d)

(* The light's part of a pass, which both threads have. *)
LEMMA LightsPart ==
  ASSUME NEW w \in Levels
  PROVE  /\ Opens(Lights(w), w)
         /\ Rest(Lights(w)) = {Op("ioctl", "led"), Op("load", "led"),
                               Op(IF w.led = 0 THEN "clear" ELSE "set", "led")}
<1> DEFINE s == Status("led", w.led)
           i == <<Op("ioctl", "led")>>
<1>1. Lights(w) = i \o s
  BY DEF Lights
<1>2. "led" \in Devs
  BY DEF Devs
<1>3. /\ Shaped(s, w) /\ Starts(s)
      /\ Rest(s) = {Op("load", "led"), Op(IF w.led = 0 THEN "clear" ELSE "set", "led")}
  BY <1>2, StatusPart
<1>4. Shaped(i, w) /\ Rest(i) = {Op("ioctl", "led")}
  BY SimpleParts
<1>5. Precedes(i, s)
  BY <1>4 DEF Op, Precedes
<1>6. Opens(i, w)
  BY <1>2, <1>4 DEF Opens, Starts
<1> HIDE DEF s, i
<1>7. Continued(i \o s, i, s, w)
  BY <1>3, <1>5, <1>6, Continue
<1> QED
  BY <1>1, <1>3, <1>4, <1>7 DEF Continued

(* A pass of hold_envthread has the shape, and settles everything. *)
LEMMA HoldShape ==
  ASSUME NEW w \in Levels, w.fan \in {0, 3}
  PROVE  Opens(HoldPass(w), w) /\ Complete(HoldPass(w), w)
<1> DEFINE b1 == <<Op("duty", "fan")>>
           b2 == Status("fan", w.fan)
           b3 == <<Op("duty", "motor")>>
           b4 == Status("motor", w.motor)
           b5 == Lights(w)
           b6 == Write("fan")
           b7 == Write("motor")
           s2 == b1 \o b2
           s3 == s2 \o b3
           s4 == s3 \o b4
           s5 == s4 \o b5
           s6 == s5 \o b6
           s7 == s6 \o b7
           NoArg(L) == \A d \in Devs : Op("arg", d) \notin L
           NoDuty(L) == \A d \in Devs : Op("duty", d) \notin L
           S(d, n) == {Op("load", d), Op(IF n = 0 THEN "clear" ELSE "set", d)}
           W(d) == {Op("arg", d), Op("print", d), Op("write", d)}
<1>0. HoldPass(w) = s7
  BY DEF HoldPass
<1>a. "fan" \in Wheels /\ "motor" \in Wheels /\ "fan" \in Devs /\ "motor" \in Devs /\ "led" \in Devs
  BY DEF Wheels, Devs
<1>b. \A d \in Devs : \A n : NoArg(S(d, n)) /\ NoDuty(S(d, n)) /\ NoDuty(W(d))
  BY DEF Op
<1>c. \A d \in Devs : NoArg({Op("duty", d)}) /\ NoArg({Op("ioctl", d)}) /\ NoDuty({Op("ioctl", d)})
  BY DEF Op
<1>1. Opens(b1, w) /\ Rest(b1) = {Op("duty", "fan")}
  BY <1>a, SimpleParts DEF Opens
<1>2. Shaped(b2, w) /\ Starts(b2) /\ Rest(b2) = S("fan", w.fan)
  BY <1>a, StatusPart DEF Opens
<1>3. Shaped(b3, w) /\ Starts(b3) /\ Rest(b3) = {Op("duty", "motor")}
  BY <1>a, SimpleParts DEF Opens
<1>4. Shaped(b4, w) /\ Starts(b4) /\ Rest(b4) = S("motor", w.motor)
  BY <1>a, StatusPart DEF Opens
<1>5. Shaped(b5, w) /\ Starts(b5) /\ Rest(b5) = {Op("ioctl", "led")} \cup S("led", w.led)
  BY <1>a, LightsPart DEF Opens
<1>6. Shaped(b6, w) /\ Starts(b6) /\ Rest(b6) = W("fan")
  BY <1>a, WritePart DEF Opens
<1>7. Shaped(b7, w) /\ Starts(b7) /\ Rest(b7) = W("motor")
  BY <1>a, WritePart DEF Opens
<1> HIDE DEF b1, b2, b3, b4, b5, b6, b7
<1>8. Opens(s2, w) /\ Rest(s2) = Rest(b1) \cup Rest(b2)
  <2>1. Precedes(b1, b2)
    BY <1>a, <1>b, <1>c, <1>2 DEF Precedes
  <2>2. Continued(s2, b1, b2, w)
    BY <1>1, <1>2, <2>1, Continue
  <2> QED
    BY <2>2 DEF Continued
<1> HIDE DEF s2
<1>9. Opens(s3, w) /\ Rest(s3) = Rest(s2) \cup Rest(b3)
  <2>1. Precedes(s2, b3)
    BY <1>a, <1>b, <1>c, <1>1, <1>2, <1>8 DEF Precedes
  <2>2. Continued(s3, s2, b3, w)
    BY <1>8, <1>3, <2>1, Continue
  <2> QED
    BY <2>2 DEF Continued
<1> HIDE DEF s3
<1>10. Opens(s4, w) /\ Rest(s4) = Rest(s3) \cup Rest(b4)
  <2>1. Precedes(s3, b4)
    BY <1>a, <1>b, <1>c, <1>4 DEF Precedes
  <2>2. Continued(s4, s3, b4, w)
    BY <1>9, <1>4, <2>1, Continue
  <2> QED
    BY <2>2 DEF Continued
<1> HIDE DEF s4
<1>11. Opens(s5, w) /\ Rest(s5) = Rest(s4) \cup Rest(b5)
  <2>1. Precedes(s4, b5)
    BY <1>a, <1>b, <1>c, <1>5 DEF Precedes
  <2>2. Continued(s5, s4, b5, w)
    BY <1>10, <1>5, <2>1, Continue
  <2> QED
    BY <2>2 DEF Continued
<1> HIDE DEF s5
<1>12. Opens(s6, w) /\ Rest(s6) = Rest(s5) \cup Rest(b6)
  <2>1. Precedes(s5, b6)
    BY <1>a, <1>b, <1>c, <1>6 DEF Precedes
  <2>2. Continued(s6, s5, b6, w)
    BY <1>11, <1>6, <2>1, Continue
  <2> QED
    BY <2>2 DEF Continued
<1> HIDE DEF s6
<1>13. Opens(s7, w) /\ Rest(s7) = Rest(s6) \cup Rest(b7)
  <2>1. Precedes(s6, b7)
    BY <1>a, <1>b, <1>c, <1>7 DEF Precedes
  <2>2. Continued(s7, s6, b7, w)
    BY <1>12, <1>7, <2>1, Continue
  <2> QED
    BY <2>2 DEF Continued
<1> HIDE DEF s7
<1>14. Rest(s7) = Rest(b1) \cup Rest(b2) \cup Rest(b3) \cup Rest(b4) \cup Rest(b5) \cup Rest(b6) \cup Rest(b7)
  BY <1>8, <1>9, <1>10, <1>11, <1>12, <1>13
<1>15. Complete(s7, w)
  <2>1. \A d \in Wheels : Op("duty", d) \in Rest(s7) /\ Op("write", d) \in Rest(s7)
    BY <1>1, <1>2, <1>3, <1>4, <1>5, <1>6, <1>7, <1>14 DEF Wheels
  <2>2. Op("ioctl", "led") \in Rest(s7)
    BY <1>1, <1>2, <1>3, <1>4, <1>5, <1>6, <1>7, <1>14
  <2>3. \A d \in Devs : S(d, w[d]) \subseteq Rest(s7)
    BY <1>1, <1>2, <1>3, <1>4, <1>5, <1>6, <1>7, <1>14 DEF Devs
  <2>4. \A d \in Devs : w[d] # 0 => Level(d, w[d]) = Bits(d)
    <3>1. w["led"] \in {0, 1} /\ w["motor"] \in {0, 1} /\ w["fan"] \in {0, 3}
      BY DEF Levels
    <3> QED
      BY <3>1 DEF Level, Bits, Devs, Fan
  <2> QED
    BY <2>1, <2>2, <2>3, <2>4 DEF Complete
<1> QED
  BY <1>0, <1>13, <1>15

(* So has a pass of ctrldev_thread. *)
LEMMA CtrlShape ==
  ASSUME NEW w \in Levels
  PROVE  Opens(CtrlPass(w), w) /\ Complete(CtrlPass(w), w)
<1> DEFINE b1 == Lights(w)
           b2 == <<Op("duty", "motor")>>
           b3 == Status("motor", w.motor)
           b4 == <<Op("duty", "fan")>>
           b5 == FanStatus(w.fan)
           b6 == Write("fan")
           b7 == Write("motor")
           s2 == b1 \o b2
           s3 == s2 \o b3
           s4 == s3 \o b4
           s5 == s4 \o b5
           s6 == s5 \o b6
           s7 == s6 \o b7
           NoArg(L) == \A d \in Devs : Op("arg", d) \notin L
           NoDuty(L) == \A d \in Devs : Op("duty", d) \notin L
           S(d, n) == {Op("load", d), Op(IF n = 0 THEN "clear" ELSE "set", d)}
           W(d) == {Op("arg", d), Op("print", d), Op("write", d)}
<1>0. CtrlPass(w) = s7
  BY DEF CtrlPass
<1>a. "fan" \in Wheels /\ "motor" \in Wheels /\ "fan" \in Devs /\ "motor" \in Devs /\ "led" \in Devs
  BY DEF Wheels, Devs
<1>b. \A d \in Devs : \A n : NoArg(S(d, n)) /\ NoDuty(S(d, n)) /\ NoDuty(W(d))
  BY DEF Op
<1>c. \A d \in Devs : NoArg({Op("duty", d)}) /\ NoArg({Op("ioctl", d)}) /\ NoDuty({Op("ioctl", d)})
  BY DEF Op
<1>1. Opens(b1, w) /\ Rest(b1) = {Op("ioctl", "led")} \cup S("led", w.led)
  BY <1>a, LightsPart DEF Opens
<1>2. Shaped(b2, w) /\ Starts(b2) /\ Rest(b2) = {Op("duty", "motor")}
  BY <1>a, SimpleParts DEF Opens
<1>3. Shaped(b3, w) /\ Starts(b3) /\ Rest(b3) = S("motor", w.motor)
  BY <1>a, StatusPart DEF Opens
<1>4. Shaped(b4, w) /\ Starts(b4) /\ Rest(b4) = {Op("duty", "fan")}
  BY <1>a, SimpleParts DEF Opens
<1>5. /\ Shaped(b5, w) /\ Starts(b5) /\ Op("clear", "fan") \in Rest(b5) /\ NoDuty(Rest(b5))
  <2>1. \A d \in Devs : Op("duty", d) \notin {Op("load", "fan"), Op("clear", "fan"), Op("set", "fan")}
    BY DEF Op
  <2> QED
    BY <2>1, FanPart
<1>6. Shaped(b6, w) /\ Starts(b6) /\ Rest(b6) = W("fan")
  BY <1>a, WritePart DEF Opens
<1>7. Shaped(b7, w) /\ Starts(b7) /\ Rest(b7) = W("motor")
  BY <1>a, WritePart DEF Opens
<1> HIDE DEF b1, b2, b3, b4, b5, b6, b7
<1>8. Opens(s2, w) /\ Rest(s2) = Rest(b1) \cup Rest(b2)
  <2>1. Precedes(b1, b2)
    BY <1>a, <1>b, <1>c, <1>1 DEF Precedes
  <2>2. Continued(s2, b1, b2, w)
    BY <1>1, <1>2, <2>1, Continue
  <2> QED
    BY <2>2 DEF Continued
<1> HIDE DEF s2
<1>9. Opens(s3, w) /\ Rest(s3) = Rest(s2) \cup Rest(b3)
  <2>1. Precedes(s2, b3)
    BY <1>a, <1>b, <1>c, <1>3 DEF Precedes
  <2>2. Continued(s3, s2, b3, w)
    BY <1>8, <1>3, <2>1, Continue
  <2> QED
    BY <2>2 DEF Continued
<1> HIDE DEF s3
<1>10. Opens(s4, w) /\ Rest(s4) = Rest(s3) \cup Rest(b4)
  <2>1. Precedes(s3, b4)
    BY <1>a, <1>b, <1>c, <1>1, <1>2, <1>3, <1>8, <1>9 DEF Precedes
  <2>2. Continued(s4, s3, b4, w)
    BY <1>9, <1>4, <2>1, Continue
  <2> QED
    BY <2>2 DEF Continued
<1> HIDE DEF s4
<1>11. Opens(s5, w) /\ Rest(s5) = Rest(s4) \cup Rest(b5)
  <2>1. Precedes(s4, b5)
    BY <1>a, <1>b, <1>c, <1>5 DEF Precedes
  <2>2. Continued(s5, s4, b5, w)
    BY <1>10, <1>5, <2>1, Continue
  <2> QED
    BY <2>2 DEF Continued
<1> HIDE DEF s5
<1>12. Opens(s6, w) /\ Rest(s6) = Rest(s5) \cup Rest(b6)
  <2>1. Precedes(s5, b6)
    BY <1>a, <1>b, <1>c, <1>6 DEF Precedes
  <2>2. Continued(s6, s5, b6, w)
    BY <1>11, <1>6, <2>1, Continue
  <2> QED
    BY <2>2 DEF Continued
<1> HIDE DEF s6
<1>13. Opens(s7, w) /\ Rest(s7) = Rest(s6) \cup Rest(b7)
  <2>1. Precedes(s6, b7)
    BY <1>a, <1>b, <1>c, <1>7 DEF Precedes
  <2>2. Continued(s7, s6, b7, w)
    BY <1>12, <1>7, <2>1, Continue
  <2> QED
    BY <2>2 DEF Continued
<1> HIDE DEF s7
<1>14. Rest(s7) = Rest(b1) \cup Rest(b2) \cup Rest(b3) \cup Rest(b4) \cup Rest(b5) \cup Rest(b6) \cup Rest(b7)
  BY <1>8, <1>9, <1>10, <1>11, <1>12, <1>13
<1>15. Complete(s7, w)
  <2>1. \A d \in Wheels : Op("duty", d) \in Rest(s7) /\ Op("write", d) \in Rest(s7)
    BY <1>1, <1>2, <1>3, <1>4, <1>5, <1>6, <1>7, <1>14 DEF Wheels
  <2>2. Op("ioctl", "led") \in Rest(s7)
    BY <1>1, <1>2, <1>3, <1>4, <1>5, <1>6, <1>7, <1>14
  <2>3. Op("clear", "fan") \in Rest(s7)
    BY <1>5, <1>14
  <2>4. \A d \in {"led", "motor"} : S(d, w[d]) \subseteq Rest(s7)
    BY <1>1, <1>2, <1>3, <1>4, <1>5, <1>6, <1>7, <1>14
  <2>5. \A d \in {"led", "motor"} : w[d] # 0 => Level(d, w[d]) = Bits(d)
    <3>1. w["led"] \in {0, 1} /\ w["motor"] \in {0, 1}
      BY DEF Levels
    <3> QED
      BY <3>1 DEF Level, Bits
  <2> QED
    BY <2>1, <2>2, <2>3, <2>4, <2>5 DEF Complete, Devs
<1> QED
  BY <1>0, <1>13, <1>15
-----------------------------------------------------------------------------
(* The first access of a pass, and what is left after it. *)
LEMMA First ==
  ASSUME NEW w, NEW q, Shaped(q, w), q # <<>>
  PROVE  /\ Shaped(Tail(q), w)
         /\ Rest(Tail(q)) \subseteq Rest(q)
         /\ Rest(q) \subseteq Rest(Tail(q)) \cup {Head(q)}
         /\ Head(q) = q[1] /\ Head(q) \in Known
         /\ Len(q) \in Nat /\ Len(Tail(q)) = Len(q) - 1
<1> DEFINE r == Tail(q)
<1>1. q \in Seq(Ops)
  BY DEF Shaped
<1>2. /\ r \in Seq(Ops) /\ Len(r) = Len(q) - 1 /\ Head(q) = q[1]
      /\ DOMAIN q = 1..Len(q) /\ DOMAIN r = 1..Len(r) /\ Len(q) \in Nat /\ Len(q) > 0
      /\ \A i \in 1..Len(r) : r[i] = q[i + 1]
  BY <1>1, HeadTailProperties, LenProperties, EmptySeq
<1> HIDE DEF r
<1>3. \A i \in DOMAIN r : i + 1 \in DOMAIN q /\ i + 1 > 1 /\ r[i] = q[i + 1]
  BY <1>2
<1>4. \A i \in DOMAIN q : i # 1 => i - 1 \in DOMAIN r /\ r[i - 1] = q[i]
  <2> SUFFICES ASSUME NEW i \in DOMAIN q, i # 1 PROVE i - 1 \in DOMAIN r /\ r[i - 1] = q[i]
    OBVIOUS
  <2>1. i - 1 \in 1..Len(r) /\ (i - 1) + 1 = i
    BY <1>2
  <2> QED
    BY <1>2, <2>1
<1>5. Rest(r) \subseteq Rest(q)
  BY <1>3 DEF Rest
<1>6. Rest(q) \subseteq Rest(r) \cup {Head(q)}
  BY <1>2, <1>4 DEF Rest
<1>7. 1 \in DOMAIN q
  BY <1>2
<1>8. Head(q) \in Known
  BY <1>2, <1>7 DEF Shaped, Rest
<1>9. Follows(r)
  <2> SUFFICES ASSUME NEW i \in DOMAIN r, NEW d \in Devs, i > 1
               PROVE  /\ r[i] \in {Op("clear", d), Op("set", d)} => r[i - 1] = Op("load", d)
                      /\ r[i] = Op("print", d) => r[i - 1] = Op("arg", d)
                      /\ r[i] = Op("write", d) => r[i - 1] = Op("print", d)
    BY DEF Follows
  <2>1. i + 1 \in DOMAIN q /\ i + 1 > 1 /\ r[i] = q[i + 1]
    BY <1>3
  <2>2. i - 1 \in DOMAIN r /\ (i - 1) + 1 = i /\ (i + 1) - 1 = i
    BY <1>2
  <2>3. r[i - 1] = q[(i + 1) - 1]
    BY <1>3, <2>2
  <2>4. Follows(q)
    BY DEF Shaped
  <2> DEFINE k == i + 1
  <2>5. k \in DOMAIN q /\ k > 1 /\ r[i] = q[k] /\ r[i - 1] = q[k - 1]
    BY <2>1, <2>3
  <2> HIDE DEF k
  <2> QED
    BY <2>4, <2>5 DEF Follows
<1>10. Ordered(r)
  <2> SUFFICES ASSUME NEW i \in DOMAIN r, NEW j \in DOMAIN r, NEW d \in Devs,
                      r[i] = Op("arg", d), r[j] = Op("duty", d)
               PROVE  j < i
    BY DEF Ordered
  <2>1. j + 1 < i + 1
    BY <1>3 DEF Shaped, Ordered
  <2> QED
    BY <1>2, <2>1
<1>11. SetsTo(r, w)
  <2> SUFFICES ASSUME NEW i \in DOMAIN r, NEW d \in Devs
               PROVE  /\ r[i] = Op("set", d) => w[d] # 0
                      /\ r[i] = Op("clear", d) /\ w[d] # 0 =>
                           \E j \in DOMAIN r : j > i /\ r[j] = Op("set", d)
    BY DEF SetsTo
  <2>0. SetsTo(q, w)
    BY DEF Shaped
  <2>1. i + 1 \in DOMAIN q /\ r[i] = q[i + 1]
    BY <1>3
  <2>2. r[i] = Op("set", d) => w[d] # 0
    BY <2>0, <2>1 DEF SetsTo
  <2>3. ASSUME r[i] = Op("clear", d), w[d] # 0
        PROVE  \E j \in DOMAIN r : j > i /\ r[j] = Op("set", d)
    <3>1. PICK j \in DOMAIN q : j > i + 1 /\ q[j] = Op("set", d)
      BY <2>0, <2>1, <2>3 DEF SetsTo
    <3>2. j # 1 /\ j - 1 > i
      BY <1>2, <3>1
    <3>3. j - 1 \in DOMAIN r /\ r[j - 1] = q[j]
      BY <1>4, <3>2
    <3> QED
      BY <3>1, <3>2, <3>3
  <2> QED
    BY <2>2, <2>3
<1>12. Rest(r) \subseteq Known
  BY <1>5 DEF Shaped
<1> QED
  BY <1>2, <1>5, <1>6, <1>8, <1>9, <1>10, <1>11, <1>12 DEF Shaped, r

(* What the shape says of the first access and the second. *)
LEMMA Second ==
  ASSUME NEW w, NEW q, Shaped(q, w), q # <<>>, NEW d \in Devs
  PROVE  /\ Tail(q) # <<>> =>
              /\ Tail(q)[1] \in {Op("clear", d), Op("set", d)} => Head(q) = Op("load", d)
              /\ Tail(q)[1] = Op("print", d) => Head(q) = Op("arg", d)
              /\ Tail(q)[1] = Op("write", d) => Head(q) = Op("print", d)
         /\ Head(q) = Op("arg", d) => Op("duty", d) \notin Rest(q)
         /\ Head(q) = Op("set", d) => w[d] # 0
         /\ Head(q) = Op("clear", d) /\ w[d] # 0 => Op("set", d) \in Rest(Tail(q))
<1> DEFINE r == Tail(q)
<1>1. q \in Seq(Ops) /\ Follows(q) /\ Ordered(q) /\ SetsTo(q, w)
  BY DEF Shaped
<1>2. /\ r \in Seq(Ops) /\ Len(r) = Len(q) - 1 /\ Head(q) = q[1]
      /\ DOMAIN q = 1..Len(q) /\ DOMAIN r = 1..Len(r) /\ Len(q) \in Nat /\ Len(q) > 0
      /\ \A i \in 1..Len(r) : r[i] = q[i + 1]
      /\ r # <<>> => Len(r) > 0
  BY <1>1, HeadTailProperties, LenProperties, EmptySeq
<1> HIDE DEF r
<1>3. 1 \in DOMAIN q
  BY <1>2
<1>4. ASSUME r # <<>>
      PROVE  /\ r[1] \in {Op("clear", d), Op("set", d)} => Head(q) = Op("load", d)
             /\ r[1] = Op("print", d) => Head(q) = Op("arg", d)
             /\ r[1] = Op("write", d) => Head(q) = Op("print", d)
  <2>1. 2 \in DOMAIN q /\ r[1] = q[2] /\ 2 > 1 /\ 2 - 1 = 1
    BY <1>2, <1>4
  <2> QED
    BY <1>1, <1>2, <2>1 DEF Follows
<1>5. ASSUME Head(q) = Op("arg", d) PROVE Op("duty", d) \notin Rest(q)
  <2>1. \A j \in DOMAIN q : q[j] = Op("duty", d) => j < 1
    BY <1>1, <1>2, <1>3, <1>5 DEF Ordered
  <2>2. \A j \in DOMAIN q : ~(j < 1)
    BY <1>2
  <2> QED
    BY <2>1, <2>2 DEF Rest
<1>6. Head(q) = Op("set", d) => w[d] # 0
  BY <1>1, <1>2, <1>3 DEF SetsTo
<1>7. ASSUME Head(q) = Op("clear", d), w[d] # 0 PROVE Op("set", d) \in Rest(r)
  <2>1. PICK j \in DOMAIN q : j > 1 /\ q[j] = Op("set", d)
    BY <1>1, <1>2, <1>3, <1>7 DEF SetsTo
  <2>2. j - 1 \in 1..Len(r) /\ (j - 1) + 1 = j
    BY <1>2, <2>1
  <2>3. r[j - 1] = q[j] /\ j - 1 \in DOMAIN r
    BY <1>2, <2>2
  <2> QED
    BY <2>1, <2>3 DEF Rest
<1> QED
  BY <1>4, <1>5, <1>6, <1>7 DEF r
-----------------------------------------------------------------------------
(* Each thread is where its pass says, its pass has the shape, and what it *)
(* has read for the motor is a level of the motor.                         *)
Programs ==
  \A t \in Threads :
    /\ pc[t] = "busy" <=> todo[t] # <<>>
    /\ Shaped(todo[t], want[t])
    /\ todo[t] # <<>> /\ todo[t][1] = Op("print", "motor") => arg[t] \in {0, 1}

(* The data an access may change. *)
Data ==
  /\ contdevstatus \in SUBSET (0..3) /\ dev \in Levels
  /\ duty \in [fan : 0..3, motor : {0, 1}]
  /\ text \in [fan : 0..3, motor : {0, 1}]
  /\ reg \in [Threads -> SUBSET (0..3)] /\ arg \in [Threads -> 0..3]

(* An access of thread t is one of eight, on a device it may be made on. *)
Does(t, a, d) ==
  \/ a = Op("duty", d) /\ d \in Wheels /\ DutyCycle(t, d)
  \/ a = Op("load", d) /\ Load(t)
  \/ a = Op("clear", d) /\ Store(t, ClearBits(reg[t], d))
  \/ a = Op("set", d) /\ Store(t, SetBits(reg[t], d, want[t][d]))
  \/ a = Op("arg", d) /\ d \in Wheels /\ Arg(t, d)
  \/ a = Op("print", d) /\ d \in Wheels /\ Sprintf(t, d)
  \/ a = Op("write", d) /\ d \in Wheels /\ WriteDev(d)
  \/ a = Op("ioctl", d) /\ d = "led" /\ Ioctl(t, d)

LEMMA AccessDoes ==
  ASSUME TypeOK, Programs, NEW t \in Threads, Access(t)
  PROVE  /\ todo[t] # <<>> /\ Shaped(todo[t], want[t])
         /\ \E d \in Devs : Does(t, Head(todo[t]), d)
<1>1. todo[t] # <<>> /\ Shaped(todo[t], want[t])
  BY DEF Access, Programs
<1> DEFINE h == Head(todo[t])
<1>2. h \in Known
  BY <1>1, First
<1> HIDE DEF h
<1>3. PICK o \in {"duty", "load", "clear", "set", "arg", "print", "write", "ioctl"}, d \in Devs :
        /\ h = Op(o, d) /\ h[1] = o /\ h[2] = d
        /\ o \in {"duty", "arg", "print", "write"} => d \in Wheels
        /\ o = "ioctl" => d = "led"
  BY <1>2 DEF Known, Op, Wheels, Devs
<1>4. \/ o = "duty" /\ DutyCycle(t, d)
      \/ o = "load" /\ Load(t)
      \/ o = "clear" /\ Store(t, ClearBits(reg[t], d))
      \/ o = "set" /\ Store(t, SetBits(reg[t], d, want[t][d]))
      \/ o = "arg" /\ Arg(t, d)
      \/ o = "print" /\ Sprintf(t, d)
      \/ o = "write" /\ WriteDev(d)
      \/ o = "ioctl" /\ Ioctl(t, d)
  BY <1>3 DEF Access, h
<1>5. Does(t, h, d)
  BY <1>3, <1>4 DEF Does
<1> QED
  BY <1>1, <1>5 DEF h

(* The bits of the devices are apart, and inside the status byte. *)
LEMMA BitsApart ==
  ASSUME NEW d \in Devs, NEW n
  PROVE  /\ Bits(d) \subseteq 0..3 /\ Level(d, n) \subseteq Bits(d)
         /\ Level(d, 0) = {}
         /\ \A e \in Devs : e # d => Bits(e) \cap Bits(d) = {}
<1>1. CASE d = "led"
  BY <1>1 DEF Bits, Level, Devs, Led, Fan, Motor
<1>2. CASE d = "motor"
  BY <1>2 DEF Bits, Level, Devs, Led, Fan, Motor
<1>3. CASE d = "fan"
  BY <1>3 DEF Bits, Level, Devs, Led, Fan, Motor
<1> QED
  BY <1>1, <1>2, <1>3 DEF Devs

(* Whatever is read, printed or written fits the device it is for. *)
LEMMA DataStep ==
  ASSUME TypeOK, Programs, NEW t \in Threads, NEW d \in Devs, todo[t] # <<>>,
         Does(t, Head(todo[t]), d)
  PROVE  Data'
<1>0. Data /\ want[t] \in Levels /\ Head(todo[t]) = todo[t][1]
  BY First DEF TypeOK, Data, Programs
<1>a. want[t].led \in {0, 1} /\ want[t].motor \in {0, 1} /\ want[t].fan \in 0..3
  BY <1>0 DEF Levels
<1>1. CASE d \in Wheels /\ DutyCycle(t, d)
  BY <1>0, <1>1, <1>a DEF DutyCycle, Data, Wheels
<1>2. CASE Load(t)
  BY <1>0, <1>2 DEF Load, Data
<1>3. CASE Store(t, ClearBits(reg[t], d))
  BY <1>0, <1>3 DEF Store, ClearBits, Data
<1>4. CASE Store(t, SetBits(reg[t], d, want[t][d]))
  <2>1. SetBits(reg[t], d, want[t][d]) \in SUBSET (0..3)
    BY <1>0, BitsApart DEF SetBits, Data
  <2> QED
    BY <1>0, <1>4, <2>1 DEF Store, Data
<1>5. CASE d \in Wheels /\ Arg(t, d)
  <2>1. duty[d] \in 0..3
    BY <1>0, <1>5 DEF Data, Wheels
  <2> QED
    BY <1>0, <1>5, <2>1 DEF Arg, Data
<1>6. CASE Head(todo[t]) = Op("print", d) /\ d \in Wheels /\ Sprintf(t, d)
  <2>1. d = "motor" => arg[t] \in {0, 1}
    BY <1>0, <1>6 DEF Programs
  <2>2. arg[t] \in 0..3
    BY <1>0 DEF Data
  <2>3. text' \in [fan : 0..3, motor : {0, 1}]
    BY <1>0, <1>6, <2>1, <2>2 DEF Sprintf, Data, Wheels
  <2> QED
    BY <1>0, <1>6, <2>3 DEF Sprintf, Data
<1>7. CASE d \in Wheels /\ WriteDev(d)
  <2>1. dev' \in Levels
    BY <1>0, <1>7 DEF WriteDev, Data, Wheels, Levels
  <2> QED
    BY <1>0, <1>7, <2>1 DEF WriteDev, Data
<1>8. CASE d = "led" /\ Ioctl(t, d)
  <2>1. dev' \in Levels
    BY <1>0, <1>8, <1>a DEF Ioctl, Data, Levels
  <2> QED
    BY <1>0, <1>8, <2>1 DEF Ioctl, Data
<1> QED
  BY <1>1, <1>2, <1>3, <1>4, <1>5, <1>6, <1>7, <1>8 DEF Does

(* Only thread t's own reads change, and after "arg" its argument is a     *)
(* duty cycle of the device.                                               *)
LEMMA ReadsOf ==
  ASSUME TypeOK, NEW t \in Threads, NEW a, NEW d \in Devs, Does(t, a, d)
  PROVE  /\ \A u \in Threads \ {t} : reg'[u] = reg[u] /\ arg'[u] = arg[u]
         /\ a = Op("arg", "motor") => arg'[t] \in {0, 1}
<1>0. reg \in [Threads -> SUBSET (0..3)] /\ arg \in [Threads -> 0..3] /\ duty["motor"] \in {0, 1}
  BY DEF TypeOK
<1>1. \A u \in Threads \ {t} : reg'[u] = reg[u] /\ arg'[u] = arg[u]
  BY <1>0 DEF Does, DutyCycle, Load, Store, Arg, Sprintf, WriteDev, Ioctl
<1>2. ASSUME a = Op("arg", "motor") PROVE arg'[t] \in {0, 1}
  <2>1. d = "motor" /\ Arg(t, d)
    BY <1>2 DEF Does, Op
  <2> QED
    BY <1>0, <2>1 DEF Arg
<1> QED
  BY <1>1, <1>2

(* A pass begins with an access that uses nothing read before. *)
LEMMA OpensWith ==
  ASSUME NEW w, NEW q, Opens(q, w)
  PROVE  /\ q \in Seq(Ops) /\ q # <<>> /\ Shaped(q, w)
         /\ \A d \in Devs : q[1] \notin {Op("clear", d), Op("set", d), Op("print", d), Op("write", d)}
<1>1. PICK e \in Devs : q[1] \in {Op("load", e), Op("ioctl", e), Op("duty", e), Op("arg", e)}
  BY DEF Opens, Starts
<1> QED
  BY <1>1 DEF Opens, Shaped, Op

(* The part of the types that is about passes. *)
Passes ==
  /\ pc \in [Threads -> {"new", "start", "awake", "nap", "sleep", "busy"}]
  /\ todo \in [Threads -> Seq(Ops)] /\ want \in [Threads -> Levels]
  /\ alone \in BOOLEAN /\ mixed \in BOOLEAN

(* A thread that begins a pass. *)
LEMMA BeginPass ==
  ASSUME TypeOK, Programs, NEW t \in Threads, NEW w \in Levels, NEW q, Opens(q, w),
         want' = [want EXCEPT ![t] = w], Begin(t, q), arg' = arg
  PROVE  Passes' /\ Programs'
<1>1. /\ q \in Seq(Ops) /\ q # <<>> /\ Shaped(q, w)
      /\ q[1] # Op("print", "motor")
  BY OpensWith DEF Devs
<1>2. /\ pc' = [pc EXCEPT ![t] = "busy"] /\ todo' = [todo EXCEPT ![t] = q]
      /\ alone' \in BOOLEAN /\ mixed' = (mixed \/ Busy # {})
  BY DEF Begin, Goto
<1>3. Passes'
  BY <1>1, <1>2 DEF TypeOK, Passes
<1>4. Programs'
  <2> SUFFICES ASSUME NEW u \in Threads
               PROVE  /\ pc'[u] = "busy" <=> todo'[u] # <<>>
                      /\ Shaped(todo'[u], want'[u])
                      /\ todo'[u] # <<>> /\ todo'[u][1] = Op("print", "motor") => arg'[u] \in {0, 1}
    BY DEF Programs, Shaped, Rest, Known, Follows, Ordered, SetsTo
  <2>1. CASE u = t
    <3>1. pc'[u] = "busy" /\ todo'[u] = q /\ want'[u] = w
      BY <1>2, <2>1 DEF TypeOK
    <3> QED
      BY <1>1, <3>1
  <2>2. CASE u # t
    <3>1. pc'[u] = pc[u] /\ todo'[u] = todo[u] /\ want'[u] = want[u] /\ arg'[u] = arg[u]
      BY <1>2, <2>2 DEF TypeOK
    <3> QED
      BY <3>1 DEF Programs
  <2> QED
    BY <2>1, <2>2
<1> QED
  BY <1>3, <1>4

(* A thread that makes one access of its pass. *)
LEMMA AccessPass ==
  ASSUME TypeOK, Programs, NEW t \in Threads, Access(t)
  PROVE  Data' /\ Passes' /\ Programs'
<1> DEFINE q == todo[t]
           w == want[t]
<1>1. PICK d \in Devs : Does(t, Head(q), d)
  BY AccessDoes
<1>2. q # <<>> /\ Shaped(q, w)
  BY AccessDoes
<1>3. /\ Shaped(Tail(q), w) /\ Len(Tail(q)) = Len(q) - 1 /\ Len(q) \in Nat /\ Tail(q) \in Seq(Ops)
      /\ Tail(q) # <<>> /\ Tail(q)[1] = Op("print", "motor") => Head(q) = Op("arg", "motor")
  <2>1. "motor" \in Devs
    BY DEF Devs
  <2> QED
    BY <1>2, <2>1, First, Second DEF Shaped
<1>4. Data'
  BY <1>1, <1>2, DataStep
<1>5. todo' = [todo EXCEPT ![t] = Tail(q)]
  BY DEF Access
<1>6. \/ Len(q) > 1 /\ pc' = pc /\ want' = want /\ mixed' = mixed
      \/ ~(Len(q) > 1) /\ (\E l \in {"nap", "new"} : pc' = [pc EXCEPT ![t] = l])
           /\ want' = [want EXCEPT ![t] = Off] /\ mixed' = (mixed /\ ~alone)
  BY DEF Access, Goto
<1>7. alone' = alone
  BY DEF Access
<1>8. Off \in Levels /\ Shaped(<<>>, Off)
  BY SimpleParts DEF Off, Levels
<1>9. Len(q) > 1 <=> Tail(q) # <<>>
  <2>1. Len(q) > 0
    BY <1>2, <1>3, EmptySeq DEF Shaped
  <2>2. Tail(q) = <<>> <=> Len(Tail(q)) = 0
    BY <1>3, EmptySeq
  <2> QED
    BY <1>3, <2>1, <2>2
<1>10. Passes'
  <2>1. todo' \in [Threads -> Seq(Ops)]
    BY <1>3, <1>5 DEF TypeOK
  <2>2. pc' \in [Threads -> {"new", "start", "awake", "nap", "sleep", "busy"}]
    BY <1>6 DEF TypeOK
  <2>3. want' \in [Threads -> Levels]
    BY <1>6, <1>8 DEF TypeOK
  <2>4. alone' \in BOOLEAN /\ mixed' \in BOOLEAN
    <3>1. alone \in BOOLEAN /\ mixed \in BOOLEAN
      BY DEF TypeOK
    <3>2. CASE mixed' = mixed
      BY <1>7, <3>1, <3>2
    <3>3. CASE mixed' = (mixed /\ ~alone)
      BY <1>7, <3>1, <3>3
    <3> QED
      BY <1>6, <3>2, <3>3
  <2> QED
    BY <2>1, <2>2, <2>3, <2>4 DEF Passes
<1>11. Programs'
  <2> SUFFICES ASSUME NEW u \in Threads
               PROVE  /\ pc'[u] = "busy" <=> todo'[u] # <<>>
                      /\ Shaped(todo'[u], want'[u])
                      /\ todo'[u] # <<>> /\ todo'[u][1] = Op("print", "motor") => arg'[u] \in {0, 1}
    BY DEF Programs, Shaped, Rest, Known, Follows, Ordered, SetsTo
  <2>1. CASE u = t
    <3>1. todo'[u] = Tail(q)
      BY <1>5, <2>1 DEF TypeOK
    <3>2. pc[t] = "busy"
      BY DEF Access
    <3>3. CASE Len(q) > 1
      <4>1. pc'[u] = "busy" /\ want'[u] = w
        BY <1>6, <2>1, <3>2, <3>3
      <4>2. todo'[u][1] = Op("print", "motor") => arg'[u] \in {0, 1}
        BY <1>1, <1>3, <1>9, <2>1, <3>1, <3>3, ReadsOf
      <4> QED
        BY <1>3, <1>9, <3>1, <3>3, <4>1, <4>2
    <3>4. CASE ~(Len(q) > 1)
      <4>1. pc'[u] # "busy" /\ want'[u] = Off
        BY <1>6, <2>1, <3>4 DEF TypeOK
      <4>2. todo'[u] = <<>>
        BY <1>9, <3>1, <3>4
      <4> QED
        BY <1>8, <4>1, <4>2
    <3> QED
      BY <3>3, <3>4
  <2>2. CASE u # t
    <3>1. pc'[u] = pc[u] /\ todo'[u] = todo[u] /\ want'[u] = want[u]
      BY <1>5, <1>6, <2>2 DEF TypeOK
    <3>2. arg'[u] = arg[u]
      BY <1>1, <2>2, ReadsOf
    <3> QED
      BY <3>1, <3>2 DEF Programs
  <2> QED
    BY <2>1, <2>2
<1> QED
  BY <1>4, <1>10, <1>11

(* A command is understood as a level of each device. *)
LEMMA CmdLevels ==
  ASSUME NEW f \in CmdForms
  PROVE  /\ f \in Forms /\ Unpack(devctrl(f)) = Asked(f) /\ Asked(f) \in Levels
         /\ Opens(CtrlPass(Asked(f)), Asked(f)) /\ Complete(CtrlPass(Asked(f)), Asked(f))
<1>1. f \in Forms
  BY DevicesAssumption DEF DevicesAssumption
<1>2. Asked(f) \in Levels
  BY DEF Asked, Levels
<1> QED
  BY <1>1, <1>2, CommandUnderstood, CtrlShape

LEMMA HoldPasses ==
  ASSUME NEW l \in HoldLevels
  PROVE  l \in Levels /\ Opens(HoldPass(l), l) /\ Complete(HoldPass(l), l)
BY DevicesAssumption, HoldShape DEF DevicesAssumption

LEMMA TypeInit == Init => TypeOK /\ Programs
<1> SUFFICES ASSUME Init PROVE TypeOK /\ Programs
  OBVIOUS
<1>1. Off \in Levels /\ Shaped(<<>>, Off)
  BY SimpleParts DEF Off, Levels
<1>2. TypeOK
  <2>1. setflags \in {0, 1} /\ contdevstatus \in SUBSET (0..3) /\ dev \in Levels
    BY <1>1 DEF Init
  <2>2. last \in Forms
    BY DEF Init, Forms
  <2>3. duty \in [fan : 0..3, motor : {0, 1}] /\ text \in [fan : 0..3, motor : {0, 1}]
    <3>1. [fan |-> 0, motor |-> 0] \in [fan : 0..3, motor : {0, 1}]
      OBVIOUS
    <3> QED
      BY <3>1 DEF Init
  <2>4. pc \in [Threads -> {"new", "start", "awake", "nap", "sleep", "busy"}]
    BY DEF Init
  <2>5. /\ todo \in [Threads -> Seq(Ops)] /\ want \in [Threads -> Levels]
        /\ reg \in [Threads -> SUBSET (0..3)] /\ arg \in [Threads -> 0..3]
    <3>1. <<>> \in Seq(Ops) /\ {} \in SUBSET (0..3) /\ 0 \in 0..3
      OBVIOUS
    <3> QED
      BY <1>1, <3>1 DEF Init
  <2> QED
    BY <2>1, <2>2, <2>3, <2>4, <2>5 DEF TypeOK, Init
<1>3. Programs
  BY <1>1 DEF Init, Programs
<1> QED
  BY <1>2, <1>3

(* Every step keeps the types and the passes' shape. *)
LEMMA TypeStep ==
  ASSUME TypeOK, Programs, [Next]_vars
  PROVE  TypeOK' /\ Programs'
<1>0. Hold \in Threads
  BY DEF Threads
<1>1. ASSUME UNCHANGED <<contdevstatus, dev, duty, text, reg, arg>> PROVE Data'
  BY <1>1 DEF TypeOK, Data
<1>2. ASSUME Data', Passes', setflags' \in {0, 1}, last' \in Forms PROVE TypeOK'
  BY <1>2 DEF TypeOK, Data, Passes
<1>3. ASSUME UNCHANGED <<todo, want, arg>>,
             \E l \in {"awake", "nap", "sleep"} : pc' = [pc EXCEPT ![Hold] = l] /\ pc[Hold] # "busy"
      PROVE  Programs'
  <2> SUFFICES ASSUME NEW u \in Threads
               PROVE  /\ pc'[u] = "busy" <=> todo'[u] # <<>>
                      /\ Shaped(todo'[u], want'[u])
                      /\ todo'[u] # <<>> /\ todo'[u][1] = Op("print", "motor") => arg'[u] \in {0, 1}
    BY DEF Programs, Shaped, Rest, Known, Follows, Ordered, SetsTo
  <2>1. pc'[u] = "busy" <=> pc[u] = "busy"
    BY <1>0, <1>3 DEF TypeOK
  <2> QED
    BY <1>3, <2>1 DEF Programs
<1>4. ASSUME HoldStart PROVE TypeOK' /\ Programs'
  <2>1. Data'
    BY <1>4 DEF HoldStart, TypeOK, Data
  <2>2. Passes'
    BY <1>4 DEF HoldStart, TypeOK, Passes, Goto
  <2>3. Programs'
    BY <1>3, <1>4 DEF HoldStart, Goto
  <2> QED
    BY <1>2, <1>4, <2>1, <2>2, <2>3 DEF HoldStart, TypeOK
<1>5. ASSUME HoldSkip \/ HoldNap \/ HoldWake PROVE TypeOK' /\ Programs'
  <2>1. Data'
    BY <1>1, <1>5 DEF HoldSkip, HoldNap, HoldWake
  <2>2. \E l \in {"awake", "nap", "sleep"} : pc' = [pc EXCEPT ![Hold] = l] /\ pc[Hold] # "busy"
    BY <1>5 DEF HoldSkip, HoldNap, HoldWake, Goto
  <2>3. UNCHANGED <<todo, want, arg, alone, mixed, last>>
    BY <1>5 DEF HoldSkip, HoldNap, HoldWake
  <2>4. Passes'
    BY <2>2, <2>3 DEF TypeOK, Passes
  <2>5. Programs'
    BY <1>3, <2>2, <2>3
  <2>6. setflags' \in {0, 1}
    BY <1>5 DEF HoldSkip, HoldNap, HoldWake, TypeOK
  <2>7. last' \in Forms
    BY <2>3 DEF TypeOK
  <2> QED
    BY <1>2, <2>1, <2>4, <2>5, <2>6, <2>7
<1>6. ASSUME HoldDecide PROVE TypeOK' /\ Programs'
  <2>1. PICK l \in HoldLevels : want' = [want EXCEPT ![Hold] = l] /\ Begin(Hold, HoldPass(l))
    BY <1>6 DEF HoldDecide
  <2>2. Passes' /\ Programs'
    BY <1>0, <1>6, <2>1, HoldPasses, BeginPass DEF HoldDecide
  <2>3. Data' /\ setflags' = setflags /\ last' = last
    BY <1>1, <1>6 DEF HoldDecide
  <2> QED
    BY <1>2, <2>2, <2>3 DEF TypeOK
<1>7. ASSUME NEW t \in Ctrls, CtrlBegin(t) PROVE TypeOK' /\ Programs'
  <2>0. t \in Threads
    BY DEF Threads
  <2>1. PICK f \in CmdForms :
          /\ last' = f /\ want' = [want EXCEPT ![t] = Unpack(devctrl(f))]
          /\ Begin(t, CtrlPass(Unpack(devctrl(f))))
    BY <1>7 DEF CtrlBegin
  <2>2. f \in Forms /\ Unpack(devctrl(f)) \in Levels
        /\ Opens(CtrlPass(Unpack(devctrl(f))), Unpack(devctrl(f)))
    BY CmdLevels
  <2>3. Passes' /\ Programs'
    BY <1>7, <2>0, <2>1, <2>2, BeginPass DEF CtrlBegin
  <2>4. Data' /\ setflags' = 0
    BY <1>1, <1>7 DEF CtrlBegin
  <2> QED
    BY <1>2, <2>1, <2>2, <2>3, <2>4
<1>8. ASSUME NEW t \in Threads, Access(t) PROVE TypeOK' /\ Programs'
  <2>1. setflags' = setflags /\ last' = last
    BY <1>8 DEF Access
  <2>2. Data' /\ Passes' /\ Programs'
    BY <1>8, AccessPass
  <2> QED
    BY <1>2, <2>1, <2>2 DEF TypeOK
<1>9. ASSUME SetLimit \/ UNCHANGED vars PROVE TypeOK' /\ Programs'
  <2>1. UNCHANGED <<contdevstatus, duty, text, dev, pc, todo, want, reg, arg, last, alone, mixed>>
        /\ setflags' \in {0, 1}
    BY <1>9 DEF SetLimit, vars, TypeOK
  <2> QED
    BY <2>1 DEF TypeOK, Programs
<1> QED
  BY <1>0, <1>4, <1>5, <1>6, <1>7, <1>8, <1>9 DEF Next, HoldStep, Threads

(* Whatever the threads do to each other, every level, text and status     *)
(* byte stays one that its device and the pages know (client.c:123-355).   *)
THEOREM TypeCorrect == Spec => []TypeOK
<1>1. TypeOK /\ Programs /\ [Next]_vars => (TypeOK /\ Programs)'
  BY TypeStep
<1> QED
  BY <1>1, TypeInit, PTL DEF Spec
-----------------------------------------------------------------------------
(* What a pass that sets the levels w, with the accesses L left, has       *)
(* settled when nobody came in between.                                    *)
Settled(L, w) ==
  /\ \A d \in Wheels : duty[d] = w[d] \/ Op("duty", d) \in L
  /\ \A d \in Wheels : dev[d] = w[d] \/ Op("write", d) \in L
  /\ dev["led"] = w["led"] \/ Op("ioctl", "led") \in L
  /\ \A d \in Devs : \/ contdevstatus \cap Bits(d) = Level(d, w[d])
                     \/ Op("clear", d) \in L \/ Op("set", d) \in L
  /\ \A d \in Devs : contdevstatus \cap Bits(d) \subseteq Level(d, w[d]) \/ Op("clear", d) \in L

(* What thread t has read for the next access of q is still so. *)
Fresh(t, q, w) ==
  q # <<>> =>
    \A d \in Devs :
      /\ q[1] \in {Op("clear", d), Op("set", d)} => reg[t] = contdevstatus
      /\ q[1] = Op("print", d) => arg[t] = w[d]
      /\ q[1] = Op("write", d) => text[d] = w[d]

(* Every access leaves one thing less to settle. *)
LEMMA SettledStep ==
  ASSUME TypeOK, NEW t \in Threads, NEW q, q # <<>>, NEW w, w = want[t], Shaped(q, w),
         NEW d \in Devs, Does(t, Head(q), d), Settled(Rest(q), w), Fresh(t, q, w)
  PROVE  Settled(Rest(Tail(q)), w)' /\ Fresh(t, Tail(q), w)'
<1> DEFINE h == Head(q)
           L == Rest(q)
           M == Rest(Tail(q))
           r == Tail(q)
<1>1. L \subseteq M \cup {h} /\ h = q[1]
  BY First
<1>2. /\ \A e \in Devs : /\ r # <<>> =>
                              /\ r[1] \in {Op("clear", e), Op("set", e)} => h = Op("load", e)
                              /\ r[1] = Op("print", e) => h = Op("arg", e)
                              /\ r[1] = Op("write", e) => h = Op("print", e)
                         /\ h = Op("arg", e) => Op("duty", e) \notin L
                         /\ h = Op("set", e) => w[e] # 0
                         /\ h = Op("clear", e) /\ w[e] # 0 => Op("set", e) \in M
  BY Second
<1>3. /\ \A e \in Devs : /\ h \in {Op("clear", e), Op("set", e)} => reg[t] = contdevstatus
                         /\ h = Op("print", e) => arg[t] = w[e]
                         /\ h = Op("write", e) => text[e] = w[e]
  BY <1>1 DEF Fresh
<1>4. /\ DOMAIN duty = Wheels /\ DOMAIN dev = Devs /\ DOMAIN text = Wheels /\ Wheels \subseteq Devs
      /\ reg \in [Threads -> SUBSET (0..3)] /\ arg \in [Threads -> 0..3]
  BY DEF TypeOK, Levels, Wheels, Devs
<1>5. Does(t, h, d)
  OBVIOUS
<1>6. Settled(L, w)
  OBVIOUS
<1> HIDE DEF h, L, M, r
<1>7. \A e \in Wheels : duty'[e] = w[e] \/ Op("duty", e) \in M
  <2> SUFFICES ASSUME NEW e \in Wheels PROVE duty'[e] = w[e] \/ Op("duty", e) \in M
    OBVIOUS
  <2>1. duty[e] = w[e] \/ Op("duty", e) \in L
    BY <1>6 DEF Settled
  <2>2. CASE h = Op("duty", d)
    <3>1. duty' = [duty EXCEPT ![d] = w[d]]
      BY <1>5, <2>2 DEF Does, Op, DutyCycle
    <3>2. CASE e = d
      BY <1>4, <3>1, <3>2
    <3>3. CASE e # d
      <4>1. duty'[e] = duty[e] /\ Op("duty", e) # h
        BY <1>4, <2>2, <3>1, <3>3 DEF Op
      <4> QED
        BY <1>1, <2>1, <4>1
    <3> QED
      BY <3>2, <3>3
  <2>3. CASE h # Op("duty", d)
    <3>1. duty' = duty
      BY <1>5, <2>3 DEF Does, Op, Load, Store, Arg, Sprintf, WriteDev, Ioctl
    <3>2. h # Op("duty", e)
      BY <1>5, <2>3 DEF Does, Op
    <3> QED
      BY <1>1, <2>1, <3>1, <3>2
  <2> QED
    BY <2>2, <2>3
<1>8. \A e \in Wheels : dev'[e] = w[e] \/ Op("write", e) \in M
  <2> SUFFICES ASSUME NEW e \in Wheels PROVE dev'[e] = w[e] \/ Op("write", e) \in M
    OBVIOUS
  <2>1. dev[e] = w[e] \/ Op("write", e) \in L
    BY <1>6 DEF Settled
  <2>2. CASE h = Op("write", d)
    <3>1. dev' = [dev EXCEPT ![d] = text[d]] /\ text[d] = w[d]
      BY <1>3, <1>5, <2>2 DEF Does, Op, WriteDev
    <3>2. CASE e = d
      BY <1>4, <3>1, <3>2
    <3>3. CASE e # d
      <4>1. dev'[e] = dev[e] /\ Op("write", e) # h
        BY <1>4, <2>2, <3>1, <3>3 DEF Op
      <4> QED
        BY <1>1, <2>1, <4>1
    <3> QED
      BY <3>2, <3>3
  <2>3. CASE h = Op("ioctl", d)
    <3>1. dev' = [dev EXCEPT !["led"] = want[t]["led"]] /\ e # "led"
      BY <1>5, <2>3 DEF Does, Op, Ioctl, Wheels
    <3>2. dev'[e] = dev[e] /\ h # Op("write", e)
      BY <1>4, <2>3, <3>1 DEF Op
    <3> QED
      BY <1>1, <2>1, <3>2
  <2>4. CASE h # Op("write", d) /\ h # Op("ioctl", d)
    <3>1. dev' = dev
      BY <1>5, <2>4 DEF Does, Op, Load, Store, Arg, Sprintf, DutyCycle
    <3>2. h # Op("write", e)
      BY <1>5, <2>4 DEF Does, Op
    <3> QED
      BY <1>1, <2>1, <3>1, <3>2
  <2> QED
    BY <2>2, <2>3, <2>4
<1>9. dev'["led"] = w["led"] \/ Op("ioctl", "led") \in M
  <2>1. dev["led"] = w["led"] \/ Op("ioctl", "led") \in L
    BY <1>6 DEF Settled
  <2>2. CASE h = Op("ioctl", d)
    <3>1. dev' = [dev EXCEPT !["led"] = w["led"]]
      BY <1>5, <2>2 DEF Does, Op, Ioctl
    <3> QED
      BY <1>4, <3>1 DEF Devs
  <2>3. CASE h = Op("write", d)
    <3>1. dev' = [dev EXCEPT ![d] = text[d]] /\ d # "led" /\ h # Op("ioctl", "led")
      BY <1>5, <2>3 DEF Does, Op, WriteDev, Wheels
    <3>2. dev'["led"] = dev["led"]
      BY <1>4, <3>1 DEF Devs
    <3> QED
      BY <1>1, <2>1, <3>1, <3>2
  <2>4. CASE h # Op("write", d) /\ h # Op("ioctl", d)
    <3>1. dev' = dev
      BY <1>5, <2>4 DEF Does, Op, Load, Store, Arg, Sprintf, DutyCycle
    <3>2. h # Op("ioctl", "led")
      BY <1>5, <2>4 DEF Does, Op
    <3> QED
      BY <1>1, <2>1, <3>1, <3>2
  <2> QED
    BY <2>2, <2>3, <2>4
<1>10. \A e \in Devs : /\ \/ contdevstatus' \cap Bits(e) = Level(e, w[e])
                          \/ Op("clear", e) \in M \/ Op("set", e) \in M
                       /\ contdevstatus' \cap Bits(e) \subseteq Level(e, w[e]) \/ Op("clear", e) \in M
  <2> SUFFICES ASSUME NEW e \in Devs
               PROVE  /\ \/ contdevstatus' \cap Bits(e) = Level(e, w[e])
                         \/ Op("clear", e) \in M \/ Op("set", e) \in M
                      /\ contdevstatus' \cap Bits(e) \subseteq Level(e, w[e]) \/ Op("clear", e) \in M
    OBVIOUS
  <2>1. /\ \/ contdevstatus \cap Bits(e) = Level(e, w[e])
           \/ Op("clear", e) \in L \/ Op("set", e) \in L
        /\ contdevstatus \cap Bits(e) \subseteq Level(e, w[e]) \/ Op("clear", e) \in L
    BY <1>6 DEF Settled
  <2>2. CASE h = Op("clear", d)
    <3>1. contdevstatus' = contdevstatus \ Bits(d)
      BY <1>3, <1>5, <2>2 DEF Does, Op, Store, ClearBits
    <3>2. CASE e = d
      <4>1. contdevstatus' \cap Bits(e) = {} /\ Level(e, 0) = {}
        BY <3>1, <3>2, BitsApart
      <4>2. w[e] # 0 => Op("set", e) \in M
        BY <1>2, <2>2, <3>2
      <4>3. w[e] = 0 => Level(e, w[e]) = {}
        BY <4>1
      <4> QED
        BY <4>1, <4>2, <4>3
    <3>3. CASE e # d
      <4>1. contdevstatus' \cap Bits(e) = contdevstatus \cap Bits(e)
        BY <3>1, <3>3, BitsApart
      <4>2. h # Op("clear", e) /\ h # Op("set", e)
        BY <2>2, <3>3 DEF Op
      <4> QED
        BY <1>1, <2>1, <4>1, <4>2
    <3> QED
      BY <3>2, <3>3
  <2>3. CASE h = Op("set", d)
    <3>1. contdevstatus' = contdevstatus \cup Level(d, w[d])
      BY <1>3, <1>5, <2>3 DEF Does, Op, Store, SetBits
    <3>2. Level(d, w[d]) \subseteq Bits(d)
      BY BitsApart
    <3>3. CASE e = d
      <4>1. h # Op("clear", e)
        BY <2>3 DEF Op
      <4>2. CASE Op("clear", e) \in L
        BY <1>1, <4>1, <4>2
      <4>3. CASE contdevstatus \cap Bits(e) \subseteq Level(e, w[e])
        <5>1. contdevstatus' \cap Bits(e) = Level(e, w[e])
          BY <3>1, <3>2, <3>3, <4>3
        <5> QED
          BY <5>1
      <4> QED
        BY <2>1, <4>2, <4>3
    <3>4. CASE e # d
      <4>1. contdevstatus' \cap Bits(e) = contdevstatus \cap Bits(e)
        <5>1. Bits(e) \cap Bits(d) = {}
          BY <3>4, BitsApart
        <5> QED
          BY <3>1, <3>2, <5>1
      <4>2. h # Op("clear", e) /\ h # Op("set", e)
        BY <2>3, <3>4 DEF Op
      <4> QED
        BY <1>1, <2>1, <4>1, <4>2
    <3> QED
      BY <3>3, <3>4
  <2>4. CASE h # Op("clear", d) /\ h # Op("set", d)
    <3>1. contdevstatus' = contdevstatus
      BY <1>5, <2>4 DEF Does, Op, Load, Arg, Sprintf, DutyCycle, WriteDev, Ioctl
    <3>2. h # Op("clear", e) /\ h # Op("set", e)
      BY <1>5, <2>4 DEF Does, Op
    <3> QED
      BY <1>1, <2>1, <3>1, <3>2
  <2> QED
    BY <2>2, <2>3, <2>4
<1>11. Settled(M, w)'
  BY <1>7, <1>8, <1>9, <1>10 DEF Settled
<1>12. Fresh(t, r, w)'
  <2> SUFFICES ASSUME r # <<>>, NEW e \in Devs
               PROVE  /\ r[1] \in {Op("clear", e), Op("set", e)} => reg'[t] = contdevstatus'
                      /\ r[1] = Op("print", e) => arg'[t] = w[e]
                      /\ r[1] = Op("write", e) => text'[e] = w[e]
    BY DEF Fresh
  <2>1. ASSUME r[1] \in {Op("clear", e), Op("set", e)} PROVE reg'[t] = contdevstatus'
    <3>1. h = Op("load", e)
      BY <1>2, <2>1
    <3>2. Load(t)
      BY <1>5, <3>1 DEF Does, Op
    <3> QED
      BY <1>4, <3>2 DEF Load
  <2>2. ASSUME r[1] = Op("print", e) PROVE arg'[t] = w[e]
    <3>1. h = Op("arg", e)
      BY <1>2, <2>2
    <3>2. e \in Wheels /\ Arg(t, e)
      BY <1>5, <3>1 DEF Does, Op
    <3>3. duty[e] = w[e]
      BY <1>2, <1>6, <3>1, <3>2 DEF Settled
    <3> QED
      BY <1>4, <3>2, <3>3 DEF Arg
  <2>3. ASSUME r[1] = Op("write", e) PROVE text'[e] = w[e]
    <3>1. h = Op("print", e)
      BY <1>2, <2>3
    <3>2. e \in Wheels /\ Sprintf(t, e)
      BY <1>5, <3>1 DEF Does, Op
    <3>3. arg[t] = w[e]
      BY <1>3, <3>1
    <3> QED
      BY <1>4, <3>2, <3>3 DEF Sprintf
  <2> QED
    BY <2>1, <2>2, <2>3
<1> QED
  BY <1>11, <1>12 DEF M, r
-----------------------------------------------------------------------------
(* The status byte, the devices and the duty cycles tell the same levels.  *)
Agrees(w) == View(contdevstatus) = w /\ dev = w /\ \A d \in Wheels : duty[d] = w[d]

(* Thread t is the only one that is at work, and has been since it began.  *)
Sole(t) ==
  /\ Busy = {t}
  /\ Settled(Rest(todo[t]), want[t])
  /\ Fresh(t, todo[t], want[t])
  /\ setflags = 0 => want[t] = Asked(last)

(* A pass nobody disturbs is on its way to what it was asked for, and when *)
(* the last pass was such a one its levels are what is there.              *)
Met == Busy # {} => IF alone THEN \A t \in Busy : Sole(t) ELSE mixed
AtRest ==
  Busy = {} /\ ~mixed => /\ \E w \in Levels : Agrees(w)
                         /\ setflags = 0 => dev = Asked(last)

(* Nothing left to settle is agreement. *)
LEMMA AllSettled ==
  ASSUME NEW w \in Levels, NEW v \in Levels, NEW s,
         \A d \in Devs : v[d] = w[d],
         \A d \in Devs : s \cap Bits(d) = Level(d, w[d])
  PROVE  View(s) = w /\ v = w
<1>1. v = w
  BY DEF Levels, Devs
<1>2. /\ s \cap Led = Level("led", w.led) /\ s \cap Fan = Level("fan", w.fan)
      /\ s \cap Motor = Level("motor", w.motor)
  BY DEF Devs, Bits
<1> QED
  BY <1>1, <1>2, ViewFields

(* A thread that begins a pass is alone, or the threads have met. *)
LEMMA PassBegins ==
  ASSUME TypeOK, NEW t \in Threads, NEW w \in Levels, NEW q, Opens(q, w), Complete(q, w),
         want' = [want EXCEPT ![t] = w], Begin(t, q),
         UNCHANGED <<contdevstatus, duty, text, dev, reg, arg>>,
         setflags' = 0 => w = Asked(last')
  PROVE  Met' /\ AtRest'
<1>1. /\ Busy' = Busy \cup {t} /\ todo'[t] = q /\ want'[t] = w
      /\ alone' = (Busy = {}) /\ mixed' = (mixed \/ Busy # {})
  BY DEF Begin, Goto, Busy, TypeOK
<1>2. Settled(Rest(q), w)'
  <2>1. Settled(Rest(q), w)
    <3>1. \A d \in Devs : contdevstatus \cap Bits(d) \subseteq Level(d, w[d])
                          \/ Op("clear", d) \in Rest(q)
      BY DEF Complete
    <3> QED
      BY <3>1 DEF Settled, Complete
  <2> QED
    BY <2>1 DEF Settled
<1>3. Fresh(t, q, w)'
  BY OpensWith DEF Fresh
<1>4. AtRest'
  BY <1>1 DEF AtRest
<1>5. CASE Busy = {}
  <2>1. Busy' = {t} /\ alone'
    BY <1>1, <1>5
  <2>2. Sole(t)'
    <3>1. Settled(Rest(todo[t]), want[t])'
      BY <1>1, <1>2
    <3>2. Fresh(t, todo[t], want[t])'
      BY <1>1, <1>3
    <3> QED
      BY <1>1, <2>1, <3>1, <3>2 DEF Sole
  <2> QED
    BY <1>4, <2>1, <2>2 DEF Met
<1>6. CASE Busy # {}
  <2>1. ~alone' /\ mixed'
    BY <1>1, <1>6
  <2> QED
    BY <1>4, <2>1 DEF Met
<1> QED
  BY <1>5, <1>6

(* A thread that goes on with its pass. *)
LEMMA PassGoes ==
  ASSUME TypeOK, Programs, Met, NEW t \in Threads, Access(t)
  PROVE  Met' /\ AtRest'
<1>0. t \in Busy /\ pc[t] = "busy"
  BY DEF Access, Busy
<1>1. TypeOK'
  <2>1. [Next]_vars
    BY DEF Next, HoldStep, Threads
  <2> QED
    BY <2>1, TypeStep
<1>2. alone' = alone /\ setflags' = setflags /\ last' = last
  BY DEF Access
<1>3. CASE ~alone
  <2>1. mixed
    BY <1>0, <1>3 DEF Met
  <2>2. mixed'
    BY <1>3, <2>1 DEF Access
  <2> QED
    BY <1>2, <1>3, <2>2 DEF Met, AtRest
<1>4. CASE alone
  <2>1. Sole(t)
    BY <1>0, <1>4 DEF Met
  <2>2. PICK q : q = todo[t]
    OBVIOUS
  <2>3. PICK w : w = want[t]
    OBVIOUS
  <2>4. PICK d \in Devs : Does(t, Head(q), d)
    BY <2>2, AccessDoes
  <2>5. q # <<>> /\ Shaped(q, w)
    BY <2>2, <2>3, AccessDoes
  <2>6. Settled(Rest(q), w) /\ Fresh(t, q, w) /\ Busy = {t}
    BY <2>1, <2>2, <2>3 DEF Sole
  <2>7. Settled(Rest(Tail(q)), w)' /\ Fresh(t, Tail(q), w)'
    BY <2>2, <2>3, <2>4, <2>5, <2>6, SettledStep
  <2>8. todo'[t] = Tail(q)
    BY <2>2 DEF Access, TypeOK
  <2>9. w \in Levels /\ (setflags' = 0 => w = Asked(last'))
    BY <1>2, <2>1, <2>3 DEF Sole, TypeOK
  <2>10. CASE Len(q) > 1
    <3>1. pc' = pc /\ want' = want
      BY <2>2, <2>10 DEF Access
    <3>2. Busy' = {t}
      BY <2>6, <3>1 DEF Busy
    <3>3. Sole(t)'
      <4>1. want'[t] = w
        BY <2>3, <3>1
      <4>2. Settled(Rest(todo[t]), want[t])'
        BY <2>7, <2>8, <4>1
      <4>3. Fresh(t, todo[t], want[t])'
        BY <2>7, <2>8, <4>1
      <4> QED
        BY <2>9, <3>2, <4>1, <4>2, <4>3 DEF Sole
    <3> QED
      BY <1>2, <1>4, <3>2, <3>3 DEF Met, AtRest
  <2>11. CASE ~(Len(q) > 1)
    <3>1. \E l \in {"nap", "new"} : pc' = [pc EXCEPT ![t] = l]
      BY <2>2, <2>11 DEF Access, Goto
    <3>2. Busy' = {}
      BY <2>6, <3>1 DEF Busy, TypeOK
    <3>3. Rest(Tail(q)) = {}
      <4>0. q \in Seq(Ops) /\ Len(q) \in Nat
        BY <2>5, First DEF Shaped
      <4>1. Len(q) = 1
        <5>1. PICK n : n = Len(q)
          OBVIOUS
        <5>2. n # 0
          BY <2>5, <4>0, <5>1, EmptySeq
        <5>3. n \in Nat /\ ~(n > 1)
          BY <2>11, <4>0, <5>1
        <5>4. n = 1
          BY <5>2, <5>3
        <5> QED
          BY <5>1, <5>4
      <4>2. Tail(q) \in Seq(Ops) /\ Len(Tail(q)) = 0
        BY <2>5, <4>0, <4>1, First DEF Shaped
      <4>3. Tail(q) = <<>>
        BY <4>2, EmptySeq
      <4> QED
        BY <4>3 DEF Rest
    <3>4. Settled({}, w)'
      BY <2>7, <3>3
    <3>5. /\ \A e \in Wheels : duty'[e] = w[e]
          /\ \A e \in Devs : dev'[e] = w[e]
          /\ \A e \in Devs : contdevstatus' \cap Bits(e) = Level(e, w[e])
      BY <3>4 DEF Settled, Wheels, Devs
    <3>6. View(contdevstatus') = w /\ dev' = w
      <4>1. dev' \in Levels
        BY <1>1 DEF TypeOK
      <4> QED
        BY <2>9, <3>5, <4>1, AllSettled
    <3>7. View(contdevstatus)' = w
      BY <3>6 DEF View
    <3>8. Agrees(w)'
      BY <3>5, <3>6, <3>7 DEF Agrees
    <3> QED
      BY <2>9, <3>2, <3>6, <3>8 DEF Met, AtRest
  <2> QED
    BY <2>10, <2>11
<1> QED
  BY <1>3, <1>4

LEMMA AloneInit == Init => Met /\ AtRest
<1> SUFFICES ASSUME Init PROVE Met /\ AtRest
  OBVIOUS
<1>1. Busy = {} /\ dev = Off
  BY DEF Init, Busy, Threads
<1>2. Off \in Levels /\ Off.led = 0 /\ Off.motor = 0 /\ Off.fan = 0
  BY DEF Off, Levels
<1>3. \A d \in Devs : Off[d] = 0
  BY <1>2 DEF Devs
<1>4. Agrees(Off)
  <2>1. \A d \in Devs : contdevstatus \cap Bits(d) = Level(d, Off[d])
    BY <1>3, BitsApart DEF Init
  <2>2. View(contdevstatus) = Off
    BY <1>2, <2>1, AllSettled
  <2>3. duty["fan"] = 0 /\ duty["motor"] = 0
    BY DEF Init
  <2>4. \A d \in Wheels : duty[d] = Off[d]
    BY <1>2, <2>3 DEF Wheels
  <2> QED
    BY <1>1, <2>2, <2>4 DEF Agrees
<1>5. dev = Asked(last)
  BY <1>1 DEF Init, Asked, Off
<1> QED
  BY <1>1, <1>2, <1>4, <1>5 DEF Met, AtRest

LEMMA AloneStep ==
  ASSUME TypeOK, Programs, Met, AtRest, [Next]_vars
  PROVE  Met' /\ AtRest'
<1>0. Hold \in Threads
  BY DEF Threads
<1>1. ASSUME UNCHANGED <<contdevstatus, duty, text, dev, todo, want, reg, arg, last, alone, mixed>>,
             Busy' = Busy, setflags' = setflags \/ setflags' = 1
      PROVE  Met' /\ AtRest'
  <2>1. setflags' = 0 => setflags = 0
    BY <1>1
  <2>2. ASSUME NEW t \in Busy, Sole(t) PROVE Sole(t)'
    BY <1>1, <2>1, <2>2 DEF Sole, Settled, Fresh
  <2>3. Met'
    BY <1>1, <2>2 DEF Met
  <2>4. ASSUME NEW w \in Levels, Agrees(w) PROVE Agrees(w)'
    BY <1>1, <2>4 DEF Agrees
  <2>5. AtRest'
    BY <1>1, <2>1, <2>4 DEF AtRest
  <2> QED
    BY <2>3, <2>5
<1>2. CASE HoldStart
  BY <1>2 DEF HoldStart, Met, AtRest
<1>3. CASE HoldSkip \/ HoldNap \/ HoldWake
  <2>1. \E l \in {"awake", "nap", "sleep"} : pc' = [pc EXCEPT ![Hold] = l] /\ pc[Hold] # "busy"
    BY <1>3 DEF HoldSkip, HoldNap, HoldWake, Goto
  <2>2. Busy' = Busy
    BY <1>0, <2>1 DEF Busy, TypeOK
  <2> QED
    BY <1>1, <1>3, <2>2 DEF HoldSkip, HoldNap, HoldWake
<1>4. CASE HoldDecide
  <2>1. PICK l \in HoldLevels : want' = [want EXCEPT ![Hold] = l] /\ Begin(Hold, HoldPass(l))
    BY <1>4 DEF HoldDecide
  <2>2. setflags' # 0 /\ UNCHANGED <<contdevstatus, duty, text, dev, reg, arg>>
    BY <1>4 DEF HoldDecide
  <2> QED
    BY <1>0, <2>1, <2>2, HoldPasses, PassBegins
<1>5. ASSUME NEW t \in Ctrls, CtrlBegin(t) PROVE Met' /\ AtRest'
  <2>0. t \in Threads
    BY DEF Threads
  <2>1. PICK f \in CmdForms :
          /\ last' = f /\ want' = [want EXCEPT ![t] = Unpack(devctrl(f))]
          /\ Begin(t, CtrlPass(Unpack(devctrl(f))))
    BY <1>5 DEF CtrlBegin
  <2>2. PICK w : w = Asked(f)
    OBVIOUS
  <2>3. /\ w \in Levels /\ w = Asked(last') /\ want' = [want EXCEPT ![t] = w]
        /\ Begin(t, CtrlPass(w)) /\ Opens(CtrlPass(w), w) /\ Complete(CtrlPass(w), w)
    BY <2>1, <2>2, CmdLevels
  <2>4. UNCHANGED <<contdevstatus, duty, text, dev, reg, arg>>
    BY <1>5 DEF CtrlBegin
  <2> QED
    BY <2>0, <2>3, <2>4, PassBegins
<1>6. ASSUME NEW t \in Threads, Access(t) PROVE Met' /\ AtRest'
  BY <1>6, PassGoes
<1>7. CASE SetLimit \/ UNCHANGED vars
  <2>1. UNCHANGED <<contdevstatus, duty, text, dev, todo, want, reg, arg, last, alone, mixed>>
        /\ UNCHANGED pc /\ (setflags' = setflags \/ setflags' = 1)
    BY <1>7 DEF SetLimit, vars
  <2>2. Busy' = Busy
    BY <2>1 DEF Busy
  <2> QED
    BY <1>1, <2>1, <2>2
<1> QED
  BY <1>0, <1>2, <1>3, <1>4, <1>5, <1>6, <1>7 DEF Next, HoldStep, Threads

(* The invariant of the passes. *)
LEMMA AloneInv == Spec => [](TypeOK /\ Programs /\ Met /\ AtRest)
<1>1. Init => TypeOK /\ Programs /\ Met /\ AtRest
  BY TypeInit, AloneInit
<1>2. TypeOK /\ Programs /\ Met /\ AtRest /\ [Next]_vars => (TypeOK /\ Programs /\ Met /\ AtRest)'
  BY TypeStep, AloneStep
<1> QED
  BY <1>1, <1>2, PTL DEF Spec

(* When no thread is at work and the last pass was not disturbed, the      *)
(* status byte and the duty cycles tell what the devices do (myhead.h:42,  *)
(* client.c:308), for any number of ctrldev_threads, forms and decisions.  *)
THEOREM StatusKeepsUp == Spec => []StatusAgrees
<1>1. AtRest => StatusAgrees
  BY DEF AtRest, Agrees, StatusAgrees, Quiet, Wheels
<1> QED
  BY <1>1, AloneInv, PTL

(* And until hold_envthread may switch again, they do what the last form   *)
(* asked for (client.c:308).                                               *)
THEOREM ManualKept == Spec => []ManualHolds
<1>1. AtRest => ManualHolds
  BY DEF AtRest, ManualHolds, Quiet
<1> QED
  BY <1>1, AloneInv, PTL
=============================================================================
