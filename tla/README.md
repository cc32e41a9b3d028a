# A TLA+ model of the greenhouse system

The repository is a remote control for greenhouses. A browser talks to CGI
programs; these talk through a System V message queue to a server; the server
talks over TCP to a client on each greenhouse's board; the client drives the
board's kernel drivers. This directory models the parts in which processes and
threads meet, checks them with TLC, and proves the most important results with
TLAPS for every value of the constants.

    browser -> CGI pages  <- message queue ->  server threads  <- TCP ->  client threads -> drivers
               view, dev, set (T / 2T)          handl_thread               main, getenv, setlimit,
               login          (1 / 2)           login_thread               ctrldev, hold_env
                                                insprct_thread (pings)

(T is the sum of the characters of the user's name; for the only name a
greenhouse logs in with, `admin`, it is 521.)

## Inventory

| component | state it keeps | operations | hard behaviour | modelled in |
|---|---|---|---|---|
| list of greenhouses (`server.c:275-396`) | head, nodes (ID, fd, tid, next) | create, insert, find by ID or fd, delete, walk | searched and walked without the semaphore, nodes freed meanwhile | `LinkList`, `LinkHeap`, `Server` |
| server threads (`server.c`) | `accept_fd`, one stack per handler, `linksem`, sockets | start, accept, login, take request, forward, wait, answer, drop, ping, cancel | address of a local shared with threads, nested `sem_wait`, two readers of one socket, cancellation, descriptors used again | `Server`, `Login`, `Lifecycle` |
| CGI pages view, dev, set | one request, one alarm, one answer; the queue outlives them | send, arm the alarm, receive, print; handler on SIGALRM | bounded queue, late answers, several pages of one user | `CgiQueue`, `Channel` |
| device byte | `devctrl`, `contdevstatus` | pack, unpack, update, show | four bits shifted by hand in three programs | `DevBits` |
| login page and `login_thread` | types 1 and 2 of the same queue | ask, search the list, reply; handler on SIGALRM | replies without an addressee, a handler that puts messages back | `Login`, `LinkHeap` |
| register page | table of names and passwords | select, then insert | two statements, no transaction | `Accounts` |
| client: receive loop and commands | `threadbuf`, thresholds, `init.txt` | receive, create a thread, copy, store, write the file, answer; `read_config` | data handed over by pointer, stop while the file is empty | `Client` |
| client: devices | `setflags`, duty cycles, text buffers, status byte | `hold_envthread`, `ctrldev_thread` | check, then act; reads and writes without a lock | `Devices` |
| client: start and stop | device descriptors, socket | open, log in, serve, `close_device` | an error macro that calls itself, threads that go on while another closes, SIGINT, SIGPIPE | `ClientLife` |
| fan and motor driver | one buffer each, timer, pin and clock registers, two of them shared | init, write, exit | buffer not cleared, unlocked registers, node before registers | `Pwm`, `Lifecycle` |
| LED driver | six GPIO lines | init, ioctl, exit | seven kinds of call that may fail, unloaded while open | `Lifecycle` |
| si7006 and ap3216 drivers | an I2C client | probe, ioctl or read, remove | errors that look like data, a measurement in two reads | `Sensors`, `Lifecycle`, `ClientLife` |
| `cgic.c`, driver tests, `Makefile` | | | third-party, manual or build only | not modelled |

## Modules

* **Channel** - what the queue promises: a request is asked, taken in turn, and
  answered at most once, or lost. `CgiQueue` and `Server` implement it, under
  `ChannelKept`: the stage of a request is read off the place it is in.
* **LinkList** - the list operations as operators on a chain of addresses and
  the fields stored at each address. `delete_link` unlinks the newest node with
  a descriptor, as the C function does; a freed node is an address that is not
  in the chain any more, whose fields stay until `malloc` hands it out again.
* **LinkHeap** - the same list as pointers in memory, each store of
  `create_link`, `insert_link` and `delete_link` an action, with `malloc`,
  `free`, and the search of `login_thread` between them. One writer stands for
  all, since they hold the semaphore (proved in `ServerProofs`).
* **Server** extends LinkList with the threads. `pc[h]` is the place of handler `h`
  in `handl_thread`; each action is one blocking call or the accesses to shared
  state between two of them. `hb` and `p` are the place of `insprct_thread` and
  its pointer in `show_list`. `sock` is the descriptor table, in which `accept`
  takes the lowest free number; `rc[h]` is the connection a `recv` was entered
  on, which is not the descriptor's any more if somebody closes it. `canc` and
  `CancellationPoints` model `pthread_cancel` with deferred cancellation. The
  far side (`peer`, `up`, `down`, `work`) is the client as `client.c` behaves
  towards the server. `linksem` is a binary semaphore. Reads of an
  uninitialised buffer (`server.c:163` when `recv` fails) are a free choice. The
  queue has room for `Cap` messages of both types: `msgsnd` of an answer waits
  for it (`Room` in `Post`, and in the branch for a missing node), as a page's
  does in `CgiRequest`. `taken` counts the answers a page has received
  (`CgiReceive`), which makes room again. `DeviceMain` and `DeviceAnswer` are the
  client's receive loop and its threads, as far as the server sees them.
* **CgiQueue** - any number of page processes and handler threads and the queue
  between them. A page's name is its request's name, so that answers can be
  told from each other, which the pages cannot. `handler` is the SIGALRM
  handler; the alarm is armed from the return of `msgsnd` to the exit, also
  after the answer was received. `gone` are pages that hold the identifier of a
  queue the server removed. The handler threads are the ones of `Server`,
  reduced to the queue: `WorkerEnds` stands for each way in which `Server` loses
  a request, `Reply` with flags 0 for the request sent back when `recv` failed.
* **Login** - `login.c` and `login_thread` on types 1 and 2. `user` is chosen in
  the initial state, so that one run covers one and several users. The search
  of the list is one step here and says whether the list is empty, since all
  nodes carry the same name; `LinkHeap` has the search itself. A page that has its
  answer and one that its handler ended are told apart (`done`, `expired`).
* **Accounts** extends Login with `register.c` and the table both pages read.
* **Client** - `main`'s receive loop, the hand-over through `threadbuf` (copied
  in two parts, as a struct that is being overwritten may be), `setlimit_thread`
  statement by statement, stops with and without the flush of `exit()`, and
  `read_config`. Two of the six thresholds stand for all, and a number stands for
  a message's data. The set page takes up to nine characters for a threshold,
  while `fprintf` prints two decimals (`client.c:285-290`): an odd number stands
  for thresholds with more decimals, and `Printed` is the even one below it, which
  is what gets into the file. `mixed` are threads that had `threadbuf` or
  the thresholds not to themselves, `met` says that one of them set thresholds and
  no thread was alone since. A reset connection is reported once by `recv`,
  which nobody looks at, and by 0 after that; a `send` on it fails, or raises
  SIGPIPE, which flushes nothing. `getenv_thpread` and `ctrldev_thread` are here only
  as far as they use the hand-over and answer.
* **Devices** - `hold_envthread` and `ctrldev_thread` as sequences of accesses
  to shared state (`HoldPass`, `CtrlPass`); `x |= y` and `x &= y` are a load and a
  store each, and `sprintf` reads its argument before it stores. One light
  stands for six.
* **DevBits** - the byte itself, as the set of its bits that are 1: how the
  device page packs it, the client takes it apart and keeps the status, and the
  view page shows that. `Devices` uses its operators.
* **ClientLife** - the client as a process: the opens in order, the login, `main`'s
  receive loop, `hold_envthread`, and the threads of commands, of which
  `getenv_thpread` only sends, `setlimit_thread` opens its file first, and
  `ctrldev_thread` drives the same devices as `hold_envthread` (`Drive`). Each call
  may fail, and `close_device` may run in any thread, by error, by the end of the
  connection or by SIGINT. `fd` says of each descriptor whether it is still 0, open,
  -1 or closed; writing to 0 may succeed, when standard input is a terminal. A
  `send` behind the server's close is answered with a reset, and the next raises
  SIGPIPE: the process is killed and nothing is switched off. `tail` is what the
  fan's driver has kept of the last text: the client's levels are written with all
  of `fanbuf`, but `close_device` writes the one character "0", so that it reads as
  another level after "11" (`misread`), and is refused after "19". Such texts come
  from `FanTest`, the fan's test program. A restart keeps the devices and the text.
* **Sensors** - the two sensor drivers' reads as operators: bytes into words,
  and what an error becomes on its way. `ClientLife` uses them.
* **Pwm** - the fan's and the motor's driver: every statement on a register in
  the order of the source, `|=` and `&=` as a load and a store where another thread
  can come between and as one step where nothing can (`Split`), the copy of the
  text over the old one, and the decision made from the buffer. The two clock
  registers both drivers use are `RCC_MP_AHB4ENSETR` and `RCC_MP_APB2ENSETR`
  (`fan.h:11,14`): a 1 stored there switches a clock on and a 0 does nothing
  (`SetOnly`), so no driver can undo the other's bit, and none can switch a
  clock off. The other registers keep what is stored in them also while their
  clock is off; `ClockFirst` says when that can be.
* **Lifecycle** - five drivers and the server's `main` as lists of calls, each
  with the resource it takes and those its error branch gives back, and the list
  by which they leave. A thread that ends the server by `exit` (`ThreadExits`) leaves the
  queue behind. One subject at a time; files may be open in any state,
  and a module is pinned by them only if its file operations name it.
* `MCServer`, `MCClient`, `MCDevices`, `MCPwm` and `MCClientLife` give the constants
  that are not model values, the symmetry, and the specifications that cut a run to
  size; the other modules are run as they are.

## Runs

| run | configuration | what it shows |
|---|---|---|
| server_safety | 2 connections, 2 descriptors, 2 chunks, 2 thread ids, 2 requests | `linksem` excludes (`Mutex`) although cancelled threads never release it; the branch of `server.c:199-206` is dead (`MissingNodeBranchDead`), and reaching it freezes the list (`WedgedForever`); an open descriptor is one of a handler that has not ended, or one of two leaks (`LeaksExplained`) |
| server_live | 2 connections, 2 descriptors, 2 requests, room for 1 message, fairness (`LiveSpec`) | an offline greenhouse is dropped, however many there are (`OfflineRemoved`); a request that was taken is answered or its handler ends (`TakenIsAnswered`); the handlers implement `Channel` (`ChannelKept`, proved for any number of them) |
| search | 3 chunks, 2 descriptors, 2 names | each store of a writer leaves a sound list (`ListSound`) and is no or one operation of `LinkList` (`ListStores`); `login_thread` misses a connected greenhouse only after walking through memory freed under it (`AnswerExplained`), and comes to an end even there (`SearchEnds`) |
| queue | 3 pages, 2 threads, room for 2, fairness | pages and threads implement `Channel` (`ChannelKept`); `ShiftedForGood`, `CloggedForever`; a page that has sent ends (`SentPageEnds`) |
| login | 2 login pages of any of 2 users, 2 register pages, room for 2, fairness | who may multiply messages (`OnlyForeignAdd`), nobody with one user (`NoMoreThanAsked`), and then a page ends (`LoginEnds`); a name has one row unless two register pages met (`OneAccountPerName`) |
| client | 2 threads at a time, 2 messages and one behind them, 1 restart, fairness (`LiveSpec`) | `FileAgrees`, `OneAnswerPerCommand`, `ActsOnOwnUnlessMet`, `ThreadEnds` |
| devices | 1 command at a time, any number of them, fairness | `StatusAgrees`, `ManualHolds`, also after threads met and one pass was alone; `HoldResumes` |
| life | main, the holding thread and 1 command at a time, 1 SIGINT, any number of restarts, room for 2 calls of `close_device` (`LifeSpec`) | devices are off at the exit, but for those somebody switched on while `close_device` ran and a fan that misread the "0" (`OffUnlessLate`); the recursion of the error macro has one of three reasons (`CrashExplained`); the lamps follow the light (`LampsExplained`) |
| pwm | 2 threads, any number of commands, 1 meeting | a command that met no other does what it says, whatever an earlier race left (`AsTold`, `TextObeyed`); a register is used behind its clock, but for two cases (`ClockFirst`) |
| lifecycle | each subject, 2 open files | what is left behind and by which branches (`LeftExplained`); which handler may fault, and when, and when SIGINT removes a queue that is not the server's (`FaultExplained`) |

Runs that find a violation, each of one statement of the source that the code
does not keep: server_answer (a ping's echo returned as a result) and
server_exit_node (another greenhouse's node freed). PROJECT.json quotes the lines.

The exceptions in the properties that hold are the other things to know of this
code. Each of them occurs; the property says that nothing else does.

* A page that takes another page's late answer reports success although its own
  request has not been taken (`ShiftedForGood`); late answers that fill the queue
  make every later page wait in `msgsnd`, before its alarm is armed
  (`CloggedForever`).
* The timeout handler of `login.c:8-15` holds another user's message and sends it
  again and again until the queue is full (`OnlyForeignAdd`; `LoginEnds` is
  about one user for that reason).
* A ping that arrives behind a command overwrites `threadbuf` before the command's
  thread has copied it: all its thresholds are then 0 (`ActsOnOwnUnlessMet`).
* A client that stopped between `fopen` and `fclose` leaves `read_config` without
  thresholds (`FileAgrees`); after two passes met, the status byte may be wrong
  until a pass has been alone (`StatusAgrees`).
* `login_thread` says "not connected" of a connected greenhouse when the chunk it
  stands on is freed and used again (`AnswerExplained`).
* `hold_envthread` or a command switches a device on after `close_device`
  (`client.c:34`) has switched it off, and the process exits (`OffUnlessLate`). A
  client that SIGPIPE kills, or that runs out of stack, or whose login is refused,
  switches nothing off; the property is about those that end by `exit`.
* A handler that the inspector cancels, or that misses its node, may keep the semaphore
  for ever; a greenhouse that goes offline then stays in the list, and requests
  stay with their handlers (`Wedged` in `OfflineRemoved` and `TakenIsAnswered`).
  `msgsnd` of an answer waits as long as the queue is full: `TakenIsAnswered` is about
  queues that have room again and again (`[]<>Room`).
* After "12" was refused but copied, `close_device`'s one character "0" is read as
  "02": the fan turns at level 2 (`TextObeyed` excludes a longer tail, `OffUnlessLate`
  the fan that was `misread`). After "19" it is "09" and refused: the error macro inside
  `close_device` calls `close_device`, until the stack is full (`CrashExplained`).
* `close_device` and `rmmod` stop a motor that was never started, whose port and
  timer have no clock; a level may be written behind the node before fan.c has
  switched its clocks on (`ClockFirst`). No clock ever goes off again: `motor.c:97`,
  `motor.c:107` and `fan.c:232` say so of statements that store a 0 in a register in which only
  1s count.
* A failed `ioremap` leaves a node that leads into a module that is gone
  (`FaultExplained`), and the class's name taken: the driver does not load again.

**Bounds.** Two of a kind are enough for two actors to meet on one
descriptor, semaphore, socket, variable or file. In `server_safety` there are as many
descriptors, chunks and thread ids as connections, so a second connection can
get the number, chunk or id of a first one that has ended. `MaxReq = 2` gives a
request to each handler, or two to one; with `Cap = 1` one of them waits in `msgsnd`
while the other is in the queue. TLC cannot use symmetry for liveness, so `server_live` makes
fewer behaviours instead (`LiveSpec` in `MCServer`): greenhouses, chunks and ids are
used for the first time in order, the server runs on (a server that has stopped
satisfies both properties), requests come once both greenhouses are in the list, and while
there are two requests the second greenhouse stays. Before that, connections are
made, share a descriptor, are cut and are made again in any order, and two
greenhouses may be offline at one time. In `LinkHeap` three chunks let one be
freed and used again while another stays in the list. In `CgiQueue` three pages
and room for two messages let two late answers fill the queue in front of one
more page. In `Client` two messages make a command and one that overlaps it, or
a ping, before or after a restart; a third comes when they have met and are done with,
so that a command can be alone again, which is what `FileAgrees` needs after a
meeting. `Cap` is small because what matters is that
the queue can be full; the kernel's limit is 16 KiB, about a hundred messages,
shared with every other type in the queue. `MaxMeet = 1` bounds how often a
thread enters a driver while another is inside; before and after that any number
of commands follow each other, which is where a race could leave its traces.
`MaxDepth = 2` stands for the size of the stack: what matters is whether the
calls end by themselves, which they do at depth 1 or never. The run `life` is two in one
(`LifeSpec`): by night the light sensor answers and a command is at work beside
the holding thread, and SIGINT and a refused text do not come together; by day the light is one of two pairs of bytes, 255 and
256 as words, so that a word made of two measurements is neither, it changes at
any moment and reads fail, but no command is at work and nobody sends SIGINT or a
refused text. In both the client has no terminal; the theorems have no such
restriction. `enters` counts to 2, which stands for more. `MaxOpen = 2` lets one
file be open in the loaded module and one in a module that is gone.

**Fairness.** Threads and processes are scheduled, so each has weak fairness.
Strong fairness is used where a blocked call is woken again and again but
another thread may be faster: the semaphore, the two readers of one socket,
`msgsnd` on a queue in which room appears. Alarms that were armed go off. A
greenhouse that stays connected answers in `server_live`, where no page is
assumed to take an answer: that there is room again and again is a premise of
`TakenIsAnswered` only. Nothing is assumed of
the server in `queue`, nor that anybody stops or stays connected. In `search`
only the searching thread is fair, and the property is about a list that has
stopped changing. `life` and `pwm` have no liveness properties and assume no fairness.

## Proofs

Eight modules hold theorems: `ServerProofs`, `CgiQueueProofs`,
`AccountsProofs` (also about Login), `ClientProofs`,
`DevicesProofs` (also about DevBits), `LifeProofs` (about ClientLife, Sensors and
Lifecycle), `PwmProofs` and `LinkHeapProofs`. They hold for every number of threads,
pages, connections, messages, chunks and open files and every capacity. They assume what the modules declare and no more:

| assumption | says |
|---|---|
| `ServerAssumption` | descriptors are positive numbers, `MaxReq` is a number, the queue has room for a message, and `NULL` is no handler, address or thread id |
| `CgiQueueAssumption`, `LoginAssumption` | the queue has room for a message, and `NULL` is no page, answer or user; `admin` is a user |
| `AccountsAssumption` | the names in the register page's form are users |
| `ClientAssumption` | the bounds are numbers |
| `DevicesAssumption` | forms are forms; the readings call for the fan at 3 or not at all, as `client.c:189-194` does |
| `ClientLifeAssumption` | the light is a pair of bytes, a tail a number, the stack has room for one call, and no worker is called `main` or `hold` |
| `LifecycleAssumption` | the bound on open files is a number |
| `LinkHeapAssumption` | `NULL` is no chunk, the chunks are finitely many, descriptors are positive numbers, and no name is what cleared or freed memory reads as |
| `PwmAssumption` | what is written to the fan are numbers of one or two digits as `sprintf` prints them, with or without the NUL behind; `NUL` is no digit and `MaxMeet` a number |

Every safety invariant and action property of the passing runs is proved. Each proof has the form invariant and step: a lemma says that
the initial states satisfy an inductive invariant, a lemma that every step keeps
it, one named step per action, and the theorem joins them. What follows is the
invariant that each needs and why the property alone is not inductive.

**Server**

* `TypeCorrect`. `TypeOK` is inductive. It says that the inspector's pointer is
  NULL only while it sleeps, so that a walk over freed nodes always stands at
  some chunk; the lemmas about insertion, deletion and the next pointer at the
  top of the module are for this.
* `MutexHolds` and `FailureNeverReported`. `Mutex` and `MissingNodeBranchDead`
  are inductive together with `TypeOK`: the dead label is one of the labels
  inside the semaphore, and its only entrance is a `sem_wait` from a label that
  is inside already, which `Mutex` makes impossible. Each step of a thread is
  classified by whether its labels before and after are inside (`HoldersGoto`,
  `HoldersKeep`).
* `OnlyTwoLeaks` (a handler that has not ended, or two leaks). `LeaksExplained` follows from `Closed`: whose descriptor is
  open has been accepted, and has not closed it. That is inductive because
  `close` frees a number for everybody at once (`OnlyCloses`), and a number is
  only taken by `accept`, for a handler that has not begun.
* `FrozenForever`. A handler at the second `sem_wait` or cancelled there is
  inside; by `Mutex` nobody else is, and only threads inside write the list
  (`ListWriters`).
* `RequestsConserved` and `ServerKeepsChannel`. A request
  is in the queue, in one buffer or answered. That is not inductive by itself: a
  handler could overwrite a request with the next one, or post an answer to
  nothing. `Buffers` excludes it: the buffer is empty at every label before a
  request is taken and full from there to `Post`. `Delete` posts an answer too,
  on the branch that `FailureNeverReported` excludes. Only three actions then
  move a request (`FourKinds`), and each is the action of `Channel` it looks
  like.

**CgiQueue**

* `TypeCorrect` and `CloggedStays`. A queue full of answers has no request in it,
  so no handler removes anything, no page is at its `msgrcv`, and each that
  wants to get there waits in `msgsnd`; only the removal of the queue ends this.
* `ShiftsStay`. `Surplus` is the sum of two lengths and two numbers of processes.
  The threads with a request and the pages that wait are finitely many, however
  many there may be, because one step adds one (`Counted`); then each step
  changes each of the four by one or none, and `Kept` adds them up.
* `AnsweredOnce` and `QueueKeepsChannel`. A request has four places, pairwise
  apart. The strengthening is `NothingYet`, that a page has no answer before its
  `msgrcv` returns; otherwise receiving one would lose another. A step moves one
  request from one place to another, none, or, when the queue is removed, all
  that are under way (`SendPlaces` to `RemovePlaces`); by `OneMoves` that is a
  step of `Channel`.

**Login and Accounts**

* `TypeCorrect`, `OnlyForeignAdds`. Only a handler that put a message aside sends
  one again, and what it put aside is another user's (`Foreign`).
* `NotMultiplied`. With one user every message is of that user (`Own`), so no
  handler puts one aside. The bound is inductive for `Live`, the pages that ask
  and whose queue still exists, not for all that ask: after a removal these
  have nothing in the queue that the next pages find. Here too the sets are
  finite because they grow one by one.
* `RegisteringIsApart`, `NamesTaken`. The two pages share the table only, so the
  theorems about Login hold beside `register.c`. `Inserting`: until two register
  pages meet, the one that is between its statements found its name free, and it
  still is.

**Client**

* `TypeCorrect`, `AnsweredOnce`. `Counts` says that what main accepted is being
  worked on by one thread or answered, `Lines` how much of the file a thread has
  printed at each label; main cannot stop one thread alone.
* `ActsOnOwn`. `Ordered` puts the messages on their way, `threadbuf` and what the
  threads have copied in the order they were sent, so that no copy is older
  than its thread; `Undisturbed` says that for a thread that is not `mixed`,
  `threadbuf` is its message while it copies, and what it has copied is of it.
* `FileKeepsUp`. `Apart`: a thread that sets thresholds and is not `mixed` is the only
  one, and `met` is true as long as one that is mixed sets any. `Alone`: such a
  thread has, at each of its labels, both thresholds from its own copy and the
  file as far as it has printed (`Written`). `Kept`: unless `met`, a complete file
  has one command's values, as they are printed (`Whole`), and while
  nobody sets any the thresholds agree with it; so also what a stop flushes is the
  beginning of what the thread would have written (`Flushed`). Printing is not
  the identity, but what was printed prints as itself (`PrintedType`), which is what
  a restart needs.

**Devices and DevBits**

* `CommandUnderstood` and `StatusShown`. The three fields of the byte are
  disjoint, so each can be read by itself, and each is a case split over its
  levels. They are about one pass that no other thread met.
* `TypeCorrect`. What is printed for the motor is a level of the motor, although
  the duty cycles, texts and status are shared: this needs to know what comes
  next in a pass. `Shaped` says it of any rest of a pass: an access that uses
  something read before comes right after the read, a duty cycle is set before it
  is read, bits are set after they are cleared. `Join` puts passes together from
  parts that have the shape (`HoldShape`, `CtrlShape`), `First` and `Second` take
  them apart access by access.
* `StatusKeepsUp` and `ManualKept`. The pass that nobody disturbs has, for each
  of the four things it sets (duty cycle, device, light, bits), set it or still
  has an access for it (`Settled`), and what it has read is still so (`Fresh`);
  every access leaves one thing less (`SettledStep`). At its end nothing is left,
  and all records agree (`AllSettled`). `Sole` is that and that the levels are
  the last form's while `setflags` is 0; it holds of a pass that begins when
  nobody is at work, whatever state the passes before it left.

**ClientLife and Sensors**

* Each step is classified first (`Kind`, `Kinds`): it drives one device, closes
  the next, enters `close_device`, fails, or leaves the devices alone. There
  are as many workers as the constants say, and all that is said of one is said of every
  thread.
* `SwitchedOffAtExit`. Once all devices were opened they are closed together; a
  thread that closes has switched off what it has passed, but for devices with
  an excuse (`Unexcused`, `SwitchedOff`). The property alone says nothing of a
  thread that is still closing, nor that another that drives a device meanwhile makes it
  `late` (`Ended`).
* `CrashesExplained`. A call in `close_device` fails only where a device is not
  open, or where the fan's driver refuses the "0"; main opens the devices in order
  (`Starting`), after that only the second that closes can find one closed, and
  it has entered on its own (`Entered`).
* `LampsFollow`. `Read` relates the two bytes hold has to the light it saw.
* `WordAsSent` and `FailureIsAWord`. The si7006 driver hands on the two bytes as
  the sensor sent them, and no word looks like an error; two failed reads of the
  ap3216 are the word 62965, which is also a measurement, so that nobody above
  can tell.

**Lifecycle**

* `LeftoversExplained`. `ListsFit` says what the six pairs of lists have in
  common (`Fits`, one lemma per kind of subject): what a failing call finds in
  hand its branch gives back, or the call is one of those the property names; what
  the whole of loading takes, unloading gives; the node comes last, or, in the fan's
  and motor's drivers, only `ioremap` comes after it. From there on the proof
  does not look into a list again. `IInv` relates what is held to the position:
  all that was taken until now (`Due`), but perhaps a node whose creation was not
  looked at; while unloading, at most what the rest of the list gives. The
  property alone says nothing of what a failure will find in hand.
* `FaultsExplained`. `Files` says when a device can be open: not before its node
  was taken, and, in a driver that pins its module, not while it unloads; so a
  failure with the device open is one of `ioremap`, and the handlers of the LED
  driver have their lines until `exit` takes them. The server has its queue from
  the third call on, so SIGINT removes another's only before.

**Pwm**

* `CommandsDoAsTold`. `Done` says of a prefix of a command's statements that each
  bit one of them decides is as the last of them that does says; one more
  statement keeps that (`DoneNext`), whatever was in the registers before, and
  from the whole code the four commands and the levels follow bit by bit
  (`StartDoes` to `ExitDoes`, `PostDone`). `Progress`: a thread that nobody met in
  its driver has its prefix done, for the other driver's statements are on other
  registers (`CodeProper`). `Posted`: what it leaves stays until the next command
  of its driver begins. The property alone says nothing of a command under way.
* `ClocksComeFirst`. No step takes a bit out of the clock registers
  (`ClocksGrow`), and the two starting codes have their clocks on before they come to
  a register that needs one (`StartsClocked`). `Begun` says it of a thread on its way,
  whoever it meets; `Ticking` of a device that was started. The exit of the fan is the
  one command whose clocks do not follow from the last command told, because
  the initialisation may be the only one before it; `FanLoaded` is there for that.
* `TextsAreObeyed`. A writer that nobody met has its own text at the beginning of
  the buffer, and the job that the buffer asks for (`TextHeld`). Then it is
  arithmetic: a number the fan accepts is below 4, so two digits and a NUL are
  not accepted (`FanReads`).

**LinkHeap**

* `ListIsSound`. The invariant is `Sound(L)` for some list `L`: the pointers lead
  from head through `L`, each node once (`Leads`); a chunk that is being filled or
  was unlinked is apart from it; and what the writer relies on is so: its new
  node has ID, descriptor and next when it needs them, and its walk stands at
  a node of `L`, behind the one in `q`, with no node of that descriptor before
  (`Reached`). The stores that fill a chunk touch no node (`LeadsAlong`), linking
  is `Push`, unlinking is `Drop`.
* `FollowIs`: what `Chain` finds by following pointers is that `L`. This is
  induction along the list, from the principle of the least number (`Least`),
  which the library's theorems about well-founded relations give without an
  operator as a parameter: the first place where `Chain` could differ follows
  one where it does not.
* `StoresAreSteps`. The two stores that change `L` make of it what `insert_link`
  and `delete_link` of `LinkList` do (`DeleteIs`: the walk has come to the node
  that `delete_link` chooses), so the pointers implement the list that `Server` uses.
* `AnswersAreExplained`. While the search has stood in the list only, what it
  stands at is a node with Admin's ID; so it goes on only if it looks for another
  name (`SearchInv`).
* `PointersNeverCycle`, which is no property of a run. Every chunk, freed ones too,
  can be given a number that falls along the pointers (`Acyclic`). Taking a node
  out leads from a higher number past a lower one (`Passed`); the store into a new
  node's `next` raises all chunks outside of the list above it, since freed chunks
  may lead to the new node (`Raised`). It is what `SearchEnds` rests on: once the
  writer is idle the numbers stay, and each step of the search goes to a lower one.

`RequestConserved` and `OneAnswerPerRequest` are proved and not properties of a
run: beside `ChannelKept` they say no more than that no place holds a request
twice.

**Model-checked only.** Liveness, which the prover cannot do (`ENABLED`):
`OfflineRemoved`, `TakenIsAnswered`, `SentPageEnds`, `LoginEnds`, `HoldResumes`,
`ThreadEnds` and `SearchEnds` (of the last, `PointersNeverCycle` is
the part that is proved).

## Plan

What would add most from here, in this order:

1. `LinkHeap` with a walking inspector beside the search, so that `show_list`
   follows the same pointers (in `Server` it follows `stale`, one per chunk).
2. The LED driver's lines as data: which lamp a number of `ioctl` names.
3. The buffers of several writers in `Pwm` and the client's shared `fanbuf` together,
   so that a text torn by two threads reaches the driver.

## Not modelled

* `cgic.c` and `cgic.h`, a third-party library, 2836 of the lines: the pages use
  it to read a form and to print. What they print is modelled as success or
  failure, the forms as a free choice.
* The pages' HTML and the database behind `login.c` and `register.c` beyond its
  rows and the result of a statement. The cookie, from which a page computes
  its type: every greenhouse logs in with the same name, so all pages that get
  answers have one type.
* Formats and units of the values on their way from a sensor to a page. The
  registers of the light sensor are modelled as the ones the driver reads, not
  by their numbers.
* Stores that the compiler or the processor reorders or merges (the drivers' register
  pointers are not volatile): each store of `LinkHeap`, `Pwm` and `Devices` is visible to the other threads at once, in program order.
* A queue with the same key that another program made before `msgget`. Of the queue
  that SIGINT removes by the identifier 0 it is only said when that can happen
  (`FaultExplained`).
* In `ClientLife`: descriptor numbers that `fopen` takes over after another thread has
  closed the devices; what a thread does between two of the `close` calls (they are one
  step); devices that other programs than the fan's test program switch on.
* The test programs of the other drivers, which are run by hand, and the build.
