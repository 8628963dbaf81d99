# Specification of the smart factory's control software

The repository drives a small factory: a conveyor with a colour detector, a
robot arm that picks what was detected, a TCP server that couples the two, a
second, newer gateway that does the same through a message queue, and a Wi-Fi
monitor for the gateway board. This directory holds TLA+ specifications of the
parts that carry the control logic, the configurations TLC checks, and proofs
for TLAPS.

    tlc -workers 2 -config RcpTopic.cfg MCRcpManager
    tlc -workers 2 -config Line.cfg MCLine
    tlapm IotServerProofs.tla
    tlapm LineProofs.tla
    tlapm RobotArmProofs.tla

Every safety property and every refinement that a passing run checks is also proved, for all
values of the constants (section 4); liveness is model-checked only.

## 1. Inventory

| part | source | state it keeps | operations | talks to |
|---|---|---|---|---|
| RCP manager | `gateway/channel/v1.0/manager` | device table, `fd_data`, thread pools, three mutexes, epoll set, the queue `/nmx_channel_01`, `isFirst` | accept and authenticate, publish a detection, take a task, send COMMAND, wait for READY | workers over TCP; its own threads through the queue |
| RCP worker | `gateway/channel/v1.0/worker/Core` | UART buffers, servo pulses | log in, receive COMMAND, move, send READY | manager, through an ESP8266 |
| IoT server | `conveyor/src/*/iot_server.c` | client table, count of clients | accept and log in, route `[to]msg`, log out | one thread per client |
| SQL client | `conveyor/src/*/iot_client_sql.c` | `done_flag`, last id sent, MySQL tables | poll the database and send a detection, take DONE and DETECT | IoT server (and the RCP manager, in the variant for two servers), database |
| Bluetooth client | `conveyor/src/내부통신/iot_client_bluetooth.c` | socket of the belt's controller | pass lines between the belt's controller and the server | IoT server, belt |
| Robot arm | `Robot_arm/mathmatics/Core/src` | receive buffer, pulse widths, message flags | receive a colour, move, report back | IoT server, through an ESP8266 |
| Colour detector | `conveyor/src/color-detector.py` | time of the last detection | write a detection to the database | database |
| Wi-Fi monitor | `gateway/wifi_health/v1.0` | `keyNum`, LED count and timer in the kernel; flags, thread pool and two mutexes in the application | key interrupt, read, write, poll, timer; choose a mode, stop its predecessor's thread | its kernel module |

Outside the scope: `worker/Drivers/**` (vendor HAL), the CubeMX start-up code,
images and videos.

### The RCP manager

One process, three threads. The *broker* (`rct_brocker_handler`) waits in
`epoll_wait`; for an event of the listening socket it accepts, reads the login,
authenticates (`auth_worker_connect`) and, for the first conveyer and the first
robot, starts a thread and writes the descriptor in a slot of `fd_data`; for an
event of any other descriptor it joins its threads, with both mutexes held. The
*conveyer thread* reads detection lines and publishes them with a non-blocking
`mq_send`. The *robot thread* takes tasks and sends COMMANDs: the first at once,
each later one only after it has read a READY from the robot.

What is hard: all three use plain descriptor numbers, in one table, without
telling each other when they close one; a number that was closed is handed out
again. The queue outlives the process while `isFirst` does not. A read takes
everything that has arrived, of which only the first line or PDU counts. Any
write to a peer that is gone ends the process.

What makes it correct: tasks leave the queue in order, none is commanded twice;
a process sends no COMMAND while one it sent is unanswered; a slot denotes the worker it
was given; a detection the topic accepted is commanded in the end; a worker that
connects is served. The last two, and a slot after its conveyer left, the code does not
keep (section 5).

### The IoT server

The line's hub: conveyor, database client, robot arm and phones log in to it and
every message between them passes through it. The *main thread* accepts a
connection, reads its login and, unless 32 threads run already or the id is
unknown, writes the descriptor in the row of that id and starts a thread. The
*client thread* reads `[to]text`, looks the receiver's row up and writes to the
number it finds there; when its read ends it closes the number, takes itself off
`clnt_cnt` and puts -1 in the row.

What is hard: the mutex protects the writes of count and row, but none of the
reads. A thread does not keep its descriptor: it takes it from the row, for each
read and for the close. A second login of a client ("Already logged!") sets that
row to -1 under the thread that serves it. Numbers are used again between the
close and the -1. Between a thread's load of a number and the kernel's lookup of
it anything may happen to the number. `strtok` keeps its place in one variable for main
and all threads. Connections that are turned away are never closed. A descriptor that is
kept in a `MSG_INFO` is a `char`.

What makes it correct: the count is the number of threads; a row denotes the
connection of its client and has one thread; mail reaches the client it is
addressed to, with the text that was sent; a client that left is logged out. The text is
what the code does not keep, and the addressee only while none logs out (section 5).

### The other parts

*SQL client*: one thread polls the database once a second and, when a row has
`IRStatus` 1, is not the one sent last and `done_flag` is set, sends it to the arm and
clears the flag; the other sets the flag when DONE arrives and moves rows from NULL to 1
to 0 on DETECT and END_DETECT. The flag is a plain `int`, cleared only after the write,
so a DONE that comes at once is overwritten; a row may be at 0 again before it was
polled; the last id sent is only in memory; two messages in one read match nothing, for
the first keeps its newline. Correct if each detection is sent once, in order, one at a
time.

*Bluetooth client*: one thread passes the belt's lines (its infrared sensor's DETECT and
END_DETECT) to the server, the other passes what the server sends to the belt, where one
`strstr` takes END_DETECT for DETECT. They tell each other the end through `sockfd`,
and `main` waits for the first only. Correct if every line is passed on whole and once,
and the end of either connection ends the process.

*Robot arm*: an interrupt handler fills the buffer that the main loop copies and clears,
with two statements between which a byte may arrive, and that every AT command wipes. A
job that arrives during a move waits there; one that arrives while the report of the
previous one is sent is lost. An AT command that gets no answer within a second counts
as answered, so a late answer meets the next command. The moves set pulse widths in
strides, from where the arm should be. Correct if jobs are carried out in order and at
most once, reports are true, the arm always gets back to listening, and no joint jumps.

*Colour detector*: inserts every confident detection, then pauses for half a second.

*Wi-Fi monitor*: a key interrupt stores the key's number and wakes the application,
which reads it, ends the handler thread of the mode before and starts that of the new
one; a handler measures and writes a number of LEDs, which a kernel timer shows. The
mutex around the key is only ever tried, and unlocked by whoever comes by; a handler is
cancelled wherever it is, with the mutex it holds; `clean_handler` always names the same
entry of the thread pool. Correct if the application never blocks in `read`, one handler
runs, that of the mode, a key is acted on and a level is shown.

### How the parts of the line interact

    camera -> color-detector.py -> ObjectDetection (NULL)
    sensor -> Bluetooth client -> server -> SQL client: recv_msg   (NULL -> 1 -> 0)
    ObjectDetection (1) -> SQL client: send_msg -> server -> arm
    arm -> server -> SQL client: recv_msg -> done_flag

## 2. Modules

| module | what it is | status |
|---|---|---|
| `NmxTopic` | abstract: what the gateway promises about the topic and its COMMANDs | done |
| `RcpManager` | the manager with its three threads, descriptor table, queue, crashes and restarts, and the workers as environment | done |
| `MCRcpManager` | the instance TLC checks, and what the documentation claims | done |
| `RcpManagerProofs` | type correctness, the inductive invariant, flow control, refinement of `NmxTopic` | done |
| `IotServer` | the line's message server: main thread, client threads, client table, descriptor table, and the clients as environment | done |
| `MCIotServer` | the instances TLC checks, and what the documentation claims | done |
| `IotServerProofs` | type correctness, the inductive invariant, the thread count, who owns a row, whom mail reaches | done |
| `Dispatch` | abstract: what the SQL client promises the arm | done |
| `SqlClient` | the two threads of the SQL client, the rows, the connection, restarts; the colour detector's insert | done |
| `SqlClientProofs` | type correctness, the inductive invariant, order of the rows, refinement of `Dispatch` | done |
| `BtClient`, `MCBtClient` | the Bluetooth client between belt and server | done |
| `BtClientProofs` | type correctness, every line relayed once and whole | done |
| `ArmService` | abstract: what the line may expect of the arm | done |
| `ArmMotion` | `move_direction`: the loops that move joints and gripper | done |
| `ArmMotionProofs` | the joints' registers never jump, for every table of positions | done |
| `RobotArm`, `MCRobotArm` | the firmware: interrupt, main loop, AT commands, around `ArmMotion`; the ESP8266 and the server as environment. Implements `ArmService` | done |
| `RobotArmProofs` | type correctness, a message where one is copied, gentle moves, refinement of `ArmService` | done |
| `Line`, `MCLine` | composition: `SqlClient`, with `ArmService` for the arm, the belt's lines in order as `BtClient` has them, and a server that forwards one message of each read | done |
| `LineProofs` | type correctness, every order paid for, objects put down in order, refinement of `Dispatch` in the composition | done |
| `WifiMonitor`, `MCWifiMonitor` | key driver, LED timer, main thread and handler threads | done |
| `WifiMonitorProofs` | type correctness, a read that never blocks, one handler thread | done |

### How RcpManager corresponds to the code

* A thread is a record with a `pc`; one action is the code from one system call
  that can block or be observed to the next. `broker.fd` is the local
  `worker_fd`, `conv.slot` and `robot.slot` are `fd_data.conveyer_fd[1]` and
  `fd_data.robot_fd[1]`, slot 0 meaning free as in the code. `broker.pc` walks
  `poll`, `batch` (the `for` over events), `login` and `reading` (the blocking
  `read`), `auth`, `place`, `watch`, and the joins in their order.
* `fdtab` is the process's descriptor table. A system call looks its number up
  when it is called: `LoginCall`, `ConvRead`, `ConvClose`, `Consider`. `accept`
  and `mq_open` take the lowest free number, as POSIX requires. A thread that is
  blocked in `read` keeps the connection it entered with.
* Reading a POSIX queue's descriptor (Linux allows it) returns a status text
  once, then end of file: `MqDesc`, `MqDescRead`.
* `loggedIn` holds the rows of the device table whose `fd` is not -1. The row
  `auth_worker_connect` marks is `TokenRow`, because the token loop at lines
  96-104 leaves 2 in the index for every id of the form `a_b`.
* `JoinUninitialised` is undefined behaviour: it may return, block for ever or
  fault.
* `locked` is `fd_data_mutx`. `thread_pool_mutx` is taken by the broker only and
  never while another thread has it, so it has no variable of its own.
* `Crash` is the end of the process: SIGPIPE, `strcmp` with the NULL token of an
  empty login, a fault in a join, or a signal. The kernel closes every
  descriptor; the topic and its messages survive, and so does the COMMAND a robot is
  carrying out: `owed` is left alone. `Restart` runs `main` again, with `isFirst` TRUE;
  `life[c]` is the number of restarts there had been when connection `c` was made. The
  first process finds in the topic what an earlier one left (`LeftBehind`).
* `rx[c]` holds the units a worker wrote: its login, lines, PDUs. A read takes
  them all and looks at the first. `owed[c]` is the number of COMMANDs a robot has
  received and not answered; it answers also when the manager is gone, to nobody.
* `Answers` is what reaches the manager of a READY. `esp_send_data` (`esp.c:432-441`) takes
  `strlen` of the binary PDU, so only `rcp/1.1` is sent, without the message type: `"cut"`.
  The manager copies what it read over a buffer nobody clears, so a cut PDU is taken for
  what an earlier text put in the place of the type (`TypeIsReady`, `robot.buffered`).
  `"READY"` is the PDU as `rcp.h` has it; the theorems hold for any set of the two.
* Tasks carry an `item` so that two of them can be told apart; the code's task has
  a colour in its place.

### How IotServer corresponds to the code

* `row_fd[i]` is `client_info[i].fd`; the id of a row is its index, which is what
  `strcmp` over the table computes. `main` holds the locals of `main`, `thr[c]` those
  of the thread started for connection `c`: its row, the number it has loaded (`out`), the
  connection its `read` is blocked on (`file`), the receiver, `msg_info.fd`, the text it
  copied and the rows `send_msg` has still to write to.
* A number is loaded in one step and looked up by the kernel in another: `ReadCall` and
  `ReadFile`, `Send` and `WriteOut`, `Bye` and `Close`. A thread that is preempted in
  between uses a number that may have been closed and given to somebody else. The test for
  -1 and the load for the write (lines 248, 249) are one step: a -1 between the two makes
  the write fail, which has the effect of a test that found it.
* `strtok` is the one variable of the C library; `FirstToken` sets it to the caller's
  buffer, `NextToken` takes the next token wherever it points, in whoever's buffer. If there
  is none the loop ends and `pArray[1]` keeps its old value, NULL at first. `took` is the
  index `i` of the loop. `buffer` is what the buffers hold, as tokens: two for each message,
  the receiver and the text. `Format` copies the text from where `pArray[1]` points by then.
  A buffer of a thread that ended is empty; a position counts tokens, as if all names
  and texts were equally long; the NULs a stolen `strtok` writes cut only tokens nobody
  reads any more.
* `Admit` is the locked block of lines 155-159, `Start` the `pthread_create` after the
  write to the client; `Close` and `Logout` are line 228 and the locked block 233-236,
  with the window in between where other threads run.
* `Refuse` resets the row, as the block marked "for MCU" does, without the mutex, and
  leaves thread and count alone.
* A message is its receiver and a number; a login has number 0, which is also the password
  as a text. What is left of a message whose head went into the login's buffer has receiver
  `Nobody`.
* `SigPipe` may end the server when the next write goes to a client that is gone. A
  write to it may also be lost, since the first one after the end still succeeds.
* `inbox` is what each connection received: from whom, to whom and which text; `spoken` is
  what was said, by whom and to whom. `refused` keeps the connections told "Already
  logged!", for the properties.

### How the modules of the line correspond to the code

* `SqlClient`: `snd` and `rcv` are the two threads; `snd.id` is the local `id`, `snd.last`
  is `last_sent_id`, `rcv.target` is `target_id`. `Poll`, `Send` and `Sent` are the query
  (line 102), the `write` (132) and the assignments after it (138-140); `Select` and
  `Update` the two queries of `save_to_db`. `ir` is `IRStatus`; the tests of `IRTimestamp`
  say nothing more, since it is set together with `IRStatus`. `orders` is every order ever
  written, a history. Restarting takes a killed or ended client to its initial state and
  leaves the table.
* A message is the second token of its text. `Read` takes all that has arrived: if that
  is more than one message, the first keeps its newline and equals none of the texts.
* `Line`: a client's writes form a sequence; the server's read of them takes all there is
  and passes the first message on, as `IotServer` does when nobody takes `strtok`'s place
  and nobody logs out. `ReportText` is what the arm's reports are for the SQL client: text
  that `recv_msg` compares with nothing (section 5). `Prompt` is a client that is not of
  the line and sends DONE, which anybody logged in may do; with `MaxPrompts` 0 there is none.
* `BtClient`: the belt's lines travel in two units, of which the second has the newline,
  so that a read can end within a line. `BufSize` is `BUF_SIZE` in these units. `sockfd`
  says only whether the shared descriptor is -1. `server.waits` is what `recv_msg` has
  not read yet; a text with DETECT in it is DETECT for `strstr`, END_DETECT included.
  `sensed` and `relayed` are histories of the same units, so that what was sent is at all
  times what was relayed, buffered and not yet read, one after the other.

### How the modules of the arm correspond to the code

* `ArmMotion`: a move is seven loops, `JointOf` says which servo each moves; `move.cur` is
  the loop's variable, `pwm` and `gripper` the compare registers. `Pulse` is one turn of
  a loop. `Pos` is the table that `mathmatics` computes from the four positions of the
  code; its trigonometry is out of scope, its results are natural numbers, as the
  registers need them to be.
* `RobotArm`: `main.pc` walks the main loop (lines 204-254), `esp_event` and
  `esp_at_command`; `main.next` is where the latter returns to. `buf` and `length` are
  `cb_data`. A cell of `buf` is a piece of text the code tells from others (`+IPD`, a
  text from `[` to its newline, OK, ERROR, anything else); clearing is two actions, the
  bytes and the length. A byte the interrupt stores between the two is lost from its
  piece (`Torn`) and stands in a cell past the new end.
* `Copy` is undefined when there is no `[` (`strchr` returns NULL) or when `strBuff`, 64
  bytes, is too small for all that waits: `pc` becomes `"wild"` and stays there. The first
  never happens (`CopyFindsMessage`), the second can.
* `Return` is what the callers of `esp_at_command` do with its result: `esp_send_data` goes
  on with the data after a 0 only, `esp_client_conn` goes on in any case, and then `esp_event`
  continues or ends. `Stage` is how far `esp_event` is with the job it took last.
* `AtReturns` returns 0 at any time: line 35 gives up after a second and returns 0 too.
* The ESP is busy until it has answered; between the prompt and the data it takes
  whatever it is handed for data.

### How WifiMonitor corresponds to the code

* `isr[k]` is the handler of key `k` between its `mutex_trylock` and its `mutex_unlock`;
  handlers of two keys may run on two processors. `main` names the system calls of the
  main thread. `pool` is `wifi_thread_pool`, whose entries are 0 until written.
* A thread id is the address of its stack, so a new thread gets the id of one that was
  joined, if there is one. `pthread_cancel` with an id that was never given out follows a
  null pointer: `"crashed"`.
* A cancelled thread ends at its next cancellation point (`Die`), inside the mutex or
  outside, with `write` done or not.
* A measurement is any member of `Samples`; 12 is a load in the gap of
  `get_wifi_network_level` (section 5).

## 3. Runs

All instances of the manager have one conveyer id (`SCM_SQL`), one robot id (`KEG_ROBOT`), the id
in row 2 (`PJW_AND`) and one stranger, which are the classes the code tells apart.
Deadlock is not checked: the system may really stop (a process that died and is
not started again, a broker hung in its joins with no traffic left).

| run | question | bounds |
|---|---|---|
| `rcp_topic` | do the threads and the queue implement `NmxTopic`, can one process have two COMMANDs unanswered, do the slots keep denoting their workers while no conveyer hangs up? | 2 connections, 4 descriptors, topic of 2, in which an earlier process left 1 task, 2 lines or other texts, READYs whole or cut, 1 restart |
| `rcp_accept` | is every connection request served, without faults? Violated | 2 connections, 1 line |
| `rcp_duplicate` | is a device connected once at a time? Violated | 2 connections |
| `iot_sessions` | is the thread count right, do rows denote their clients, when may mail reach a wrong client, and is the proof's invariant an invariant? | 2 clients, 2 threads, 3 connections on 3 descriptors, 1 message |
| `iot_mail` | does a client receive only what was said to it or to all? Violated | 2 clients, 2 connections, 2 messages |
| `iot_hangup` | is a client that hung up logged out? | 2 clients, 3 connections, no messages, fair threads |
| `line` | does the SQL client implement `Dispatch`, is its invariant one, is every order paid for, are objects put down in order? | 2 rows, 3 lines of the sensor, 2 DONEs of another client, 1 fault (a failed query, an end, a restart), 2 unread messages |
| `line_done` | is the first object at the sensor ordered once the arm has done all it was told? Violated | as `line`, without faults and without other clients |
| `belt` | does every line of the belt reach the server, once and in order, and does an end end the process? | buffer of 3 half lines, 3 lines, 2 messages of the server |
| `arm` | does the firmware implement `ArmService`, does it always find a message where it copies one, move gently, get back to listening, and carry out what lies complete in its buffer? | buffer of 5 pieces, `strBuff` of 3, 2 events (jobs, texts, buttons, losses of the connection) |
| `wifi` | does main never block in `read`, does one handler run, is a key main finds acted on, and a level shown while the timer runs? | keys 1, 2 and 7 (shut down), 2 thread ids, 3 presses, 2 sessions |
| `wifi_cleanup` | does `clean_handler` end the thread that ran before? Violated | as `wifi` |

Why the bounds are enough: the code has one slot per kind of worker, so two connections of one
kind, or one of each, already compete for it; a refused or ended one lets another take over its
number. Four descriptors hold both connections and both queue descriptors, and no more; that
`accept` and `mq_open` fail when there is none is left to the proofs. A topic of two can hold
two tasks in the wrong order. The task an earlier process left and two lines of this one meet
in it, and are one more than it holds, so `mq_send` fails too. One restart separates two
processes; a robot of the first may come back in the second and still be moving. `MaxConn`,
`MaxLines`, `Left` and `MaxRestarts` only cap the environment; `MaxFd` and `MqMaxMsg` are
parameters of the system. What needs more connections or lines than these is covered by the
proofs, which fix none of the bounds.

For the IoT server, two clients are a sender and a receiver, and compete for
numbers; three connections give a client a second login while its first thread
runs, and a third one after the refusal that reset the row, which is when two
threads serve one row. In `iot_hangup` connections may also log in as somebody not in the table.
Three descriptors are exhausted by refused connections, which stay open. With
`CharSize` 4 the descriptor 2 does not fit in the `char`, as 128 does not in the code.
A stolen token needs one thread with a message and a login, or
two messages, which is what the runs with messages have.

For the line, two rows are one that is ordered and one behind it; the third line of the
sensor is the second object's DETECT, with the first one's END_DETECT before it. Two
unread messages are one read that matches nothing. Two DONEs of another client let both
objects be ordered and race each other for `done_flag`. One fault is enough for each of the
kinds, alone against everything else; several together are in the proofs of `SqlClient` and
`Line`, which bound none. For the arm, two events are a second job, or a text, a button or a
loss, during every stage of the first; the buffer holds a job and half of what may come
behind it, `AtLimit` is below `Cap` as 512 is below 1024. The belt's buffer holds a line
and a half. In the monitor three keys choose a mode, change it and shut down; two thread
ids let a new thread get an id of its own or a joined one's; a second session finds the
driver as the first one left it.

### Fairness

`SteadySpec` leaves out the faults (disconnections, kills, a robot that writes
text while it has nothing to answer) and assumes weak fairness of each thread, which is what
the operating system's scheduler gives a runnable thread; of `Login`, since every
client of the repository logs in as soon as it is connected; and of `Respond`,
since the worker sends at the end of each move what it can of READY. Nothing is assumed of
`Detect` or `Connect`. Weak fairness of a thread as a whole is enough because each
thread is sequential: once one of its steps is enabled it stays so until taken.

`FairSpec` of the IoT server has weak fairness of the main thread and of each client
thread, for the same reason, and nothing else: no client need log in, speak or hang
up, and `HungUpLoggedOut` holds without that because the end of a connection ends the
read that waits on it.

`Line!FairSpec` has weak fairness of the SQL client's two threads and of the server for
each of its clients, all of them threads of the operating system, and of the arm's report of what it
has done; nothing makes the sensor, the camera or a failing query do anything.
`DetectedOrdered` starts from objects that have all been put down, so no fairness of the
arm's moves is needed. `BtClient!FairSpec` has the two threads
and `main`. `RobotArm!FairSpec` has the processor: the main loop always has a next step
except where anything may happen, and interrupts are taken; the ESP need not answer.
`WifiMonitor!FairSpec` has every thread, interrupt handler and the timer; nothing makes a
user press a key.

## 4. What is proved

`RcpManagerProofs` proves, for every value of the constants that satisfies
`ManagerAssumption` (a non-empty topic, a row 2 that is neither conveyer nor
robot, disjoint kinds of ids, at least one string that is not in the table):

* `TypeCorrect`: `Spec => []TypeOK`
* `Invariance`: `Spec => []IInv`
* `FlowControl`: `Spec => []OneCommandOutstanding`
* `SlotsKept`: `Spec => []SlotsDenoteTheirWorkers`
* `Refinement`: `Spec => TopicRefined`, that is, `Spec` implements
  `NmxTopic!Spec` with `permit` mapped to `robot.isFirst \/ robot.pc = "again"`.

`OneCommandOutstanding` alone is not inductive: nothing in it forbids a READY
waiting in a robot's stream while a COMMAND is out. `FlowInv` strengthens it to
the place of the one permit each process has: not used yet (`isFirst`), in the robot
thread's hand (`pc = "again"`), with the robot that carries out a COMMAND (`owed`), as one
answer in one stream, or lost. It can be lost (a READY that is cut, or read together with
other text, a robot that is replaced) but never copied. A restart makes a new permit and
takes none away: the robot of the earlier process still owes its answer, on a connection
of that life, which nobody reads any more. So permits are told apart by the life of their
connection, and the theorem says one per life, not one in all. `ConnectionsMade` says that
what descriptors and backlog name is of the process that runs. `OrderInv` says that the
queue is the part of the log nobody took and that the task in hand is the one taken last
and not yet commanded. `RobotPlaced` supplies the facts on slots and pcs both need,
`ListenerWaits` that an event of the listener is backed by a connection, without
which `accept` would take the head of an empty sequence.

The proof that a step preserves `IInv` goes action by action; an action of the
broker or of a worker that touches none of a conjunct's variables is dispatched by
the lemma `Steps`. Refinement needs the invariant at one point: `SendCommand`
issues `log[taken]`, which `OrderInv` ties to the task in hand.

`SlotsKept` needs a conjunct of its own, `SlotInv`: the number in a slot denotes the
connection the slot was given for as long as that connection's reference is in the table,
a number the broker holds denotes what it accepted, and no two numbers denote one
connection. It stands under the hypothesis that no conveyer hung up, the one case in
which the code closes a number that a slot keeps (section 5).

`IotServerProofs` proves, for every size of the table, limit of threads, number of
descriptors and width of the `char` (`ServerAssumption`):

* `TypeCorrect`: `Spec => []TypeOK`
* `Invariance`: `Spec => []IInv`
* `ThreadCount`: `Spec => []CountsThreads`
* `RowOwnership`: `Spec => []RowsDenoteTheirClients`
* `MailReaches`: `Spec => MailAddressed`

`AdmissionInv` follows a connection from the backlog through the hands of the main thread to
its thread: it is in one place at a time, so `Start` adds a thread that was not there, and
`clnt_cnt < MAX_CLNT` survives from the check to the admission because the main thread alone
adds to the count. `NextCounts` then needs only the cardinality of `Active` with one element
more or less. For the rows, `SessionInv` adds that until the first refusal every thread has its
row, that nobody closes the number the main thread holds, that a number a thread loaded to read
or to close is still its row's, and that a row is given to a client nobody serves; `LoginInv`
that a login names the client that wrote it. None of them rests on what `strtok` returns: whose
text a thread has in hand is in `TypeOK` only. The step that needs all of it is `Close`: it
closes the number in the row, which is the thread's own connection because the row has no other
thread, and nobody else's because two numbers that denote different connections differ
(`ThreadTable`). `ServedKept` says once what a step must leave alone.

`MailReaches` adds `ReceiverInv`: the rows a thread has still to write to are the receiver's or
everybody's, and the number in its hand denotes the receiver's connection, unless a session of
the receiver ended since it was loaded. A number changes what it denotes when it is closed and
given out again; `accept` gives out free numbers only, and a `Close`, by
`RowsDenoteTheirClients` and `SessionInv`, closes the thread's own connection, which ends its
client's session (`Ended`). So the two steps of a write may be as far apart as they like.

Only model-checked: `HungUpLoggedOut`, which is liveness.

`RowsDenoteTheirClients` and `MailAddressed` are stated up to the first
"Already logged!": after it a row can be served by two threads, the older of which
closes and logs out the newer session when it ends, and a thread may read, and take for a
message, the login of a third. `CountsThreads` and
`HungUpLoggedOut` hold throughout.

`SqlClientProofs` proves, for any set of colours and every bound on rows, messages and
restarts (`ClientAssumption`):

* `TypeCorrect`: `Spec => []TypeOK`
* `Invariance`: `Spec => []IInv`
* `BeltOrder`: `Spec => []RowsInOrder`
* `Refinement`: `Spec => DispatchRefined`, with `permit` mapped to `done_flag /\ snd.pc #
  "sent"` and `last` to the row being sent, or sent last.

Dispatch orders rows in rising order, but the code only compares for equality with the
last one; that this is enough is the point of the invariant. `RowsInOrder`: along the
table, statuses never fall, so the rows at 1 are an interval. `TargetInv`: the row
`recv_msg` is about to update is still the first of its status, because nobody else
changes one. `SenderInv`: what `send_msg` found, and what it sent last, is not beyond the
first row at 1 now (`NotBeyond`), so a row that differs from the last one lies behind it.

`LineProofs` proves of the composition, with the arm as `ArmService` promises it and for every
number of rows, messages, faults and restarts (`LineAssumption` besides `ClientAssumption`):

* `LineInvariance`: `LineSpec => []LineInv`
* `LineTypeCorrect`: `LineSpec => []LineTypeOK`
* `EveryOrderPaid`: `LineSpec => []OrdersPaid`
* `DownInOrder`: `LineSpec => []PlacedInOrder`
* `LineRefinement`: `LineSpec => DispatchRefined`

A step of the line is a step of the client or leaves it alone (`LineStepIsClients`), so the
client's own invariant and refinement carry over. `OrdersPaid` counts what can pay for an
order: the start of a life, and each DONE sent, of which one is at a time in the client's mail
(`InMail`), in the hands of `recv_msg` (`InHand`) or in `done_flag` (`Permit`). They can be
lost, by two messages in one read or by the assignment at `iot_client_sql.c:138`, but nothing
copies them; that needs `Cardinality` of the mail with one message more or less. `OrderInv`
says that in the first life ids rise from what the arm has heard over what the server has read
to the orders still to be read, none beyond the row sent last (`OrderedLast`), which gives
`PlacedInOrder`; a restarted client may order the same row again. Only model-checked:
`DetectedOrdered`, which is liveness, and violated.

`BtClientProofs` proves, for every size of the buffer and number of lines and messages
(`BtAssumption`):

* `TypeCorrect`: `Spec => []TypeOK`
* `Invariance`: `Spec => []IInv`
* `LinesRelayed`: `Spec => []EveryLineOnItsWay`

`Read` ends where the buffer or the line does; that nothing is lost there needs what the
belt sends to alternate between the two units of a line (`Alternates`) and that a write happens
only at the end of one (`WriteInv`). Only model-checked: `EndsWithEither`, which is liveness.

`ArmMotionProofs` proves, for every table of positions, home and stride
(`MotionAssumption`: all natural numbers, strides not 0):

* `MotionInvariant`: `MotionSpec => []MotionInv`
* `MotionIsGentle`: `MotionSpec => JointsMoveGently`

`JointsMoveGently` speaks of one step, but a loop sets the register to its start value
whatever the register holds, so where the loops before it left the joint must be known.
`PulsesInv` says so: the joint of the running loop stands next to the loop's variable,
every other joint next to where its last loop ended. A loop that would do nothing is
skipped; `SkippedIsThere` shows that it starts where it would end, so the invariant holds
for the next loop that runs (`SkippingKeeps`, `FollowingInv`). That theorem is about
the motion alone; the next module has it for the firmware's moves.

`RobotArmProofs` proves, for every size of the buffers, every finite set of colours and every
number of jobs, texts, buttons and losses (`ArmAssumption`):

* `ArmInvariance`: `Spec => []IInv`
* `ArmTypeCorrect`: `Spec => []TypeOK`
* `CopyFinds`: `Spec => []CopyFindsMessage`
* `ArmGentle`: `Spec => JointsMoveGently`
* `ArmRefinement`: `Spec => ArmRefined`

The main loop looks for `+IPD` and a newline at the end, and copies from the first `[`.
`HeadInv` is why there is one: behind a `+IPD` comes its message, in the buffer or still
on its way, unless the buffer was full. `BufferInv` is why a clearing does not break that:
what a byte between its two statements leaves behind is a torn piece, never a whole `+IPD`,
and the bytes of the message that follow come behind it.

For the refinement, `JobInv` and `StrInv` follow the jobs in the order they were given, from the
ESP over the buffer to `strBuff`, all behind the one taken last; so `Event` takes a later one,
whatever was wiped in between. `TextInv` and `SaidInv` follow a report: what was said, or is with
the ESP to be said (`Out`), is of no job after the last and done only if its object was put
down, and what the main loop still has to hand over comes after all of it (`Pending`). A late
answer cannot make it say a report twice, because the ESP ignores a command while it has not
answered the one before, and takes data only once for a prompt. `Ways` lists what a step can
do to a report: nothing (`Silent`), a command on its way (`Handing`), data given to the ESP
(`Handed`), a job taken (`Took`), a reconnect (`Reconnects`), an object put down
(`PutItDown`). Only model-checked: `ListensAgain` and `OfferedTaken`, which are liveness.

The proof found one fault of the model: two arms of a CASE in `Return` overlapped, and TLA+
leaves open which of them is taken; they are conditions in the order of the code now.

`WifiMonitorProofs` proves, for all sets of keys, thread ids and samples
(`WifiAssumption`):

* `TypeCorrect`: `Spec => []TypeOK`, with `LevelInRange` for what is written to the LEDs
* `Invariance`: `Spec => []IInv`
* `NeverBlocks`: `Spec => []ReadNeverBlocks`
* `OneHandler`: `Spec => []HandlerOfMode`

`clean_handler` names one entry of the pool whatever runs, and yet, unless it crashes,
ends the right thread: `IdInv` says that once that entry was written only one id is in
use, which every later thread inherits, because the thread before it was joined first.
Only model-checked: `KeyServed` and `LevelShown`, which are liveness.

## 5. Where the code and its documentation part

With a run:

1. `rcp_accept`: `gateway/README.md:119` promises event-driven handling of
   connection requests. The first event of a worker sends the broker into
   `pthread_join` (line 465), under the mutex it would need to accept.
2. `rcp_duplicate`: the comments at `rcp_manager.c:79-81` say that a connected
   user is recognised. The index of the row is overwritten by the token count, so
   the wrong row is marked.
3. `wifi_cleanup`: the comment at `nexusmeshx_app.c:201` says that `clean_handler` ends
   the thread that ran before. Lines 208 and 212 end another entry of the pool, which was
   never written if the first mode chosen is a traffic mode.
4. `line_done`: `conveyor/README.md:119,139` let the arm complete a job with DONE, and
   `iot_client_sql.c:277` compares with that text. The firmware sends
   `RED_ACT_DONE_ARM_READY` and the like (`main.c:896`, `904`, `912`, and
   `Robot_arm/README.md:19`), so `done_flag` stays clear after the first order, and the line
   stops after one object, unless somebody else sends DONE. With the word DONE in its place
   the property is still violated: a DONE that is read together with another message is lost.
5. `iot_mail`: `conveyor/README.md:127` says that a message received is handed on. Main and
   the threads share `strtok`'s place (`iot_server.c:124`, `131`, `206`, `213`), so a thread
   may forward its message without the text or with another's. The run finds the first. A
   number that is reused between the load in `send_msg` and the write is a second cause of mail
   that reaches the wrong client; `MailAddressed` says when that can happen.

Seen while modelling:

6. The comment at `rcp_manager.c:177` says the handler receives from the conveyer. When
   one hangs up, lines 186-188 close the number and go on with it; the next connection
   gets it. `SlotsDenoteTheirWorkers` is stated up to there.
7. `gateway/README.md:387` has the robot operated when a detection arrives. The READY that
   releases the second COMMAND is a binary PDU that `esp_send_data` sends up to its first
   NUL, so the manager finds no READY in it (`rcp_manager.c:278-288`): with
   `Answers = {"cut"}` each process sends one COMMAND, and of the detections after it the
   one in hand is dropped or waits in `read` for ever. A property that every accepted
   detection is commanded is violated there, and holds with `Answers = {"READY"}`; it is no
   run of this project.
8. A manager that is started again sends a COMMAND at once (`isFirst`, `rcp_manager.c:10`,
   `271`), also while a robot still moves for the process before. `OneCommandOutstanding`
   counts per process for that reason.
9. `nexusmeshx_module.c:68` says that unloading gives back what was acquired; line 77
   tests `timerLed`, which is never set up, instead of the timer that runs.
10. The comment at `nexusmeshx_app.c:347` speaks of key 8; the code stops at
   `MODE_APP_SHUTDOWN`, which is 7.
11. `get_wifi_network_level` has no interval for a load from 1.2 up to 1.3 (lines 56-60)
   and lights all LEDs for it.
12. The key driver: a key latched between `put_user` and `keyNum = 0` (`irq_switch.c:84`, `93`) is
   wiped unread, and one pressed while the mutex is taken is not latched at all. `KeyServed`
   speaks of the keys main finds.
13. A handler may be cancelled with a mutex in its hands (`nexusmeshx_app.c:87`); the next one
   waits for it for ever, and main for that one. `Deadlocked` in `WifiMonitor` is that state,
   and the only one in which `KeyServed` lets main wait in vain.

## 6. What is left out of the manager's model

The wrong-password path (every account and client of the repository has the same
password); ids without an underscore, for which `strtok` yields NULL at line 107;
logins that arrive in pieces or exceed the buffer of 63 bytes; what a peer sees of
`shutdown(SHUT_WR)`; CPU-level data races on `worker_cnt` and `device`; checksum and
payload of the PDUs, which no receiver looks at before acting. A detection line may
carry flag 0 although the SQL client sends only 1: the handler has a branch for it.
What a READY looks like when it arrives is the parameter `Answers` (section 2).

## 7. What is left out of the IoT server's model

A failing `pthread_create`; a wrong password; the piece of a following message that comes
into the login's buffer; a sixth token, which is written past `pArray`; the lengths of names
and texts, which decide where exactly a stale pointer ends up; the terminators written one
past the buffers (`idpasswd[23]`, and `idpasswd[-1]` after a failed read); the text of
IDLIST and GETTIME, of which only the receiver matters here; a write to a connection
the server itself shut down.

## 8. What is left out of the other models

SQL client: a database that refuses the connection at start-up (the process exits); the printed
text; the stale token pointers of `strtok`, since every message of the server has two tokens
and one thread calls it. Its variant for two servers writes the same order to a second socket,
which `RcpManager` has as its conveyer.

Bluetooth client: `save_to_db`, which nothing calls; the byte `msg[total] = 0` one past
the buffer when a line ends at its very end; the prologue (`init_db`, login).

Robot arm: the start-up, the console UART (`rx2Data` has 50 bytes and no test of its
end), a received LED command, the trigonometry of `mathmatics`. `Pos` is any
table of natural numbers.

Wi-Fi monitor: the netlink queries, whose result is a sample; the ioctls, which
`USE_MEGIC_KEY` compiles out, so that nothing starts the timer again after the first
session; loading and unloading the module; a second open of the device, which fails after
it has requested the interrupts; `thread_pool_mutex`, which only the main thread takes.

## 9. Not modelled, and why

`worker/Drivers/**`, the vendor's HAL and CMSIS headers, is most of the repository's
lines and none of its logic; the same goes for CubeMX start-up code (`main.c` of the
boards outside the user sections, `stm32f4xx_*`, `syscalls.c`). `nexusmeshx_mon.c` prints
in a loop, `wifi_init.c` fills structures from netlink messages, `led_switch.c` and
`ioctl.c` set pins and numbers: no state of theirs outlives a call that a property could
speak of. The worker's firmware (`worker/Core`) has the arm's structure with other
messages and is modelled as the manager sees it; its own receive path
has no defined outcome to model: the interrupt clears `length` after every byte
(`esp.c:389`), the main loop then looks one byte before the buffer (`main.c:213`), and
`esp_event` copies the login name to a null pointer before it reads the PDU (`main.c:999`).

## 10. Plan

Every safety property of the passing runs has its theorem. Left:

1. The composition from below: that the server's part of `Line` (`TakeFrom`, `ToSql`, `ToArm`)
   is what `IotServer` does as long as `strtok` is not interrupted, as a refinement instead of
   by reading.
2. The environment of `RcpManager` against the firmware of the worker, once that has a receive
   path with a defined outcome (section 9).
3. More of what the topic promises: that a detection is dropped only when the topic is full, as
   a step property of `RcpManager` with its theorem.
