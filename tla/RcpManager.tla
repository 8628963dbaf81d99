----------------------------- MODULE RcpManager -----------------------------
(***************************************************************************)
(* The gateway's RCP manager (gateway/channel/v1.0/manager): the broker    *)
(* thread that accepts and authenticates workers, the conveyer thread that *)
(* publishes what it reads to a POSIX message queue, the robot thread that *)
(* takes tasks from it and sends COMMANDs, the process's descriptor table  *)
(* they share, and the workers at the other end of the connections.        *)
(*                                                                         *)
(* A descriptor is a number; what it denotes is looked up in fdtab at each *)
(* system call, so a number one thread closes and the kernel hands out     *)
(* again reaches whoever still uses it.                                    *)
(***************************************************************************)
EXTENDS Integers, Sequences

CONSTANTS
    ConveyerIds,    \* ids in the device table of the form x_SQL
    RobotIds,       \* ids in the device table of the form x_ROBOT
    PlainIds,       \* the other ids x_y of the device table
    StrangerIds,    \* ids that are not in the table
    TokenRow,       \* the id in row 2 of the table
    Answers,        \* what reaches the manager of a READY: see Message
    MaxFd,          \* descriptors left to the process after start-up
    MqMaxMsg,       \* capacity of the topic
    Left,           \* bound: how many tasks an earlier process may have left in it
    MaxConn,        \* bound: connections ever made
    MaxLines,       \* bound: lines and other text ever written, before the start too
    MaxRestarts     \* bound: times the process is started again

Listed == ConveyerIds \cup RobotIds \cup PlainIds
Ids == Listed \cup StrangerIds

ASSUME ManagerAssumption ==
    /\ MaxFd \in Nat /\ MaxConn \in Nat /\ MaxLines \in Nat /\ MaxRestarts \in Nat
    /\ Left \subseteq Nat
    /\ MqMaxMsg \in Nat \ {0}
    /\ TokenRow \in PlainIds
    /\ Answers \subseteq {"READY", "cut"}
    /\ ConveyerIds \cap RobotIds = {}
    /\ PlainIds \cap (ConveyerIds \cup RobotIds) = {}
    /\ StrangerIds # {} /\ StrangerIds \cap Listed = {}

Fd == 1..MaxFd
Conn == 1..MaxConn

\* What a descriptor can denote besides a connection.  Reading a descriptor of
\* the queue gives its status text once, then end of file.
NoFile == 0
MqDesc == -1
MqDescRead == -2
File == Conn \cup {NoFile, MqDesc, MqDescRead}
IsMq(f) == f \in {MqDesc, MqDescRead}

\* The manager's listening socket, among the sources of events.
Listener == 0

Task == [detect : BOOLEAN, item : 0..MaxLines]
NoTask == [detect |-> FALSE, item |-> 0]

\* The units a worker writes: its login, a detection line, a PDU that is READY, what
\* esp_send_data makes of one ("rcp/1.1", the bytes before its first NUL, which do not
\* reach the message type), or text that does.
Message == [kind : {"login", "line", "READY", "cut", "other"}, task : Task]
Msg(k, t) == [kind |-> k, task |-> t]

VARIABLES
    broker,     \* the broker thread: pc, worker_fd, connection it reads, id it read
    batch,      \* events of the last epoll_wait not served yet
    locked,     \* fd_data_mutx is held
    epset,      \* files registered with epoll
    loggedIn,   \* rows of the device table whose fd is not -1
    conv,       \* the conveyer thread: pc, slot conveyer_fd[1], mq, task
    robot,      \* the robot thread: pc, slot robot_fd[1], mq, task, connection it
                \* reads, isFirst, and does its buffer hold READY as message type
    fdtab       \* the descriptor table

VARIABLES
    mq,         \* the topic, kept by the kernel
    log,        \* history: every task the topic accepted
    taken,      \* history: tasks the robot thread took
    commands    \* history: COMMANDs the robot thread sent

VARIABLES
    cid,        \* the device behind each connection
    life,       \* the restarts there had been when it was made
    peer,       \* its end of the connection: not yet made, up or down
    said,       \* it has written its login
    rx,         \* what it wrote and nobody read
    owed,       \* COMMANDs it received and has not answered with READY
    welcome,    \* the connections told "Authentication successful"
    backlog,    \* connections waiting for accept
    lines,      \* lines and other text written so far
    restarts    \* restarts so far

brokerVars == <<broker, batch, locked, epset, loggedIn>>
topicVars == <<mq, log, taken, commands>>
workerVars == <<cid, life, peer, said, lines, restarts>>
netVars == <<workerVars, rx, owed, welcome, backlog>>
vars == <<brokerVars, conv, robot, fdtab, topicVars, netVars>>
-----------------------------------------------------------------------------
Free == {fd \in Fd : fdtab[fd] = NoFile}
Lowest == {fd \in Free : \A other \in Free : fd <= other}

\* A connection stays open while a descriptor names it or a thread is blocked
\* in a read on it.
Held(c) ==
    \/ \E fd \in Fd : fdtab[fd] = c
    \/ broker.pc = "reading" /\ broker.conn = c
    \/ robot.pc = "reading" /\ robot.conn = c

\* What epoll_wait reports, level-triggered.
Reported ==
    {Listener : i \in DOMAIN backlog}
    \cup {c \in epset \cap Conn : Held(c) /\ (rx[c] # <<>> \/ peer[c] = "down")}
    \cup {f \in epset \cap {MqDesc} : mq # <<>> /\ \E fd \in Fd : IsMq(fdtab[fd])}

IdleBroker == [pc |-> "poll", fd |-> 0, conn |-> 0, id |-> TokenRow]
NoConv == [pc |-> "off", slot |-> 0, mq |-> 0, task |-> NoTask]
NoRobot == [pc |-> "off", slot |-> 0, mq |-> 0, task |-> NoTask, conn |-> 0,
            isFirst |-> TRUE, buffered |-> FALSE]

BrokerGoes(pc) == broker' = [broker EXCEPT !.pc = pc] /\ UNCHANGED batch

\* The broker goes on to the next event of its batch, or polls again.
NextEvent(rest) ==
    /\ batch' = rest
    /\ broker' = [IdleBroker EXCEPT !.pc = IF rest = {} THEN "poll" ELSE "batch"]

\* The process ends, by a signal or a fault: the kernel closes its descriptors,
\* connections end, and only the topic with its messages remains.  A robot knows
\* nothing of it and goes on with the COMMAND it has.
Crash ==
    /\ broker' = [IdleBroker EXCEPT !.pc = "dead"]
    /\ batch' = {} /\ locked' = FALSE /\ epset' = {} /\ loggedIn' = {}
    /\ conv' = NoConv /\ robot' = NoRobot
    /\ fdtab' = [fd \in Fd |-> NoFile]
    /\ peer' = [c \in Conn |-> IF peer[c] = "none" THEN "none" ELSE "down"]
    /\ rx' = [c \in Conn |-> <<>>]
    /\ backlog' = <<>>
    /\ UNCHANGED <<topicVars, cid, life, said, owed, welcome, lines, restarts>>
-----------------------------------------------------------------------------
(* The broker thread: rct_brocker_handler and auth_worker_connect. *)

EpollWait ==
    /\ broker.pc = "poll"
    /\ Reported # {}
    /\ NextEvent(Reported)
    /\ UNCHANGED <<locked, epset, loggedIn, conv, robot, fdtab, topicVars, netVars>>

\* accept that fails, for want of a descriptor, leaves the mutex locked.
Accept ==
    /\ broker.pc = "batch" /\ Listener \in batch /\ ~locked
    /\ \/ /\ \E fd \in Lowest :
                /\ broker' = [broker EXCEPT !.pc = "login", !.fd = fd]
                /\ fdtab' = [fdtab EXCEPT ![fd] = Head(backlog)]
          /\ batch' = batch \ {Listener}
          /\ backlog' = Tail(backlog)
          /\ UNCHANGED locked
       \/ /\ Free = {}
          /\ locked' = TRUE
          /\ NextEvent(batch \ {Listener})
          /\ UNCHANGED <<fdtab, backlog>>
    /\ UNCHANGED <<epset, loggedIn, conv, robot, topicVars, workerVars, rx, owed, welcome>>

\* read() of the login looks the descriptor up when it is called ...
LoginCall ==
    /\ broker.pc = "login"
    /\ LET f == fdtab[broker.fd] IN
       \/ /\ f \in Conn
          /\ broker' = [broker EXCEPT !.pc = "reading", !.conn = f]
          /\ UNCHANGED <<batch, locked, epset, loggedIn, conv, robot, fdtab, topicVars, netVars>>
       \/ /\ f = MqDesc
          /\ \E s \in StrangerIds : broker' = [broker EXCEPT !.pc = "auth", !.id = s]
          /\ fdtab' = [fdtab EXCEPT ![broker.fd] = MqDescRead]
          /\ UNCHANGED <<batch, locked, epset, loggedIn, conv, robot, topicVars, netVars>>
       \/ f \in {NoFile, MqDescRead} /\ Crash  \* strcmp with the NULL pArray[0]

\* ... and returns all that has arrived on that file.  Text that is not a login
\* names no device.
LoginRead ==
    /\ broker.pc = "reading"
    /\ LET c == broker.conn IN
       \/ /\ rx[c] # <<>>
          /\ \E id \in Ids :
                /\ IF Head(rx[c]).kind = "login" THEN id = cid[c] ELSE id \in StrangerIds
                /\ broker' = [broker EXCEPT !.pc = "auth", !.conn = 0, !.id = id]
          /\ rx' = [rx EXCEPT ![c] = <<>>]
          /\ UNCHANGED <<batch, locked, epset, loggedIn, conv, robot, fdtab, topicVars,
                         workerVars, owed, welcome, backlog>>
       \/ rx[c] = <<>> /\ peer[c] = "down" /\ Crash

\* The id's own row says whether it is logged in; the row that is marked is the
\* one the token count, 2, selects.
Authenticate ==
    /\ broker.pc = "auth"
    /\ \/ /\ broker.id \in Listed \ loggedIn
          /\ welcome' = welcome \cup ({fdtab[broker.fd]} \cap Conn)
          /\ loggedIn' = loggedIn \cup {TokenRow}
          /\ IF broker.id \in PlainIds THEN NextEvent(batch) ELSE BrokerGoes("place")
       \/ /\ broker.id \notin Listed \ loggedIn
          /\ loggedIn' = loggedIn \ {broker.id}
          /\ NextEvent(batch)
          /\ UNCHANGED welcome
    /\ UNCHANGED <<locked, epset, conv, robot, fdtab, topicVars, workerVars, rx, owed, backlog>>

\* Mutant: a second conveyer's login closes the descriptor of the first.
PlaceCloses ==
    /\ broker.pc = "place"
    /\ IF broker.id \in ConveyerIds /\ conv.slot # 0
         THEN fdtab' = [fdtab EXCEPT ![conv.slot] = NoFile] ELSE UNCHANGED fdtab
    /\ conv' = IF broker.id \in ConveyerIds /\ conv.slot = 0
                 THEN [conv EXCEPT !.pc = "open", !.slot = broker.fd] ELSE conv
    /\ robot' = IF broker.id \in RobotIds /\ robot.slot = 0
                  THEN [robot EXCEPT !.pc = "open", !.slot = broker.fd] ELSE robot
    /\ BrokerGoes("watch")
    /\ UNCHANGED <<locked, epset, loggedIn, topicVars, netVars>>

\* A slot that is taken keeps its thread and its descriptor.
Place ==
    /\ broker.pc = "place"
    /\ conv' = IF broker.id \in ConveyerIds /\ conv.slot = 0
                 THEN [conv EXCEPT !.pc = "open", !.slot = broker.fd] ELSE conv
    /\ robot' = IF broker.id \in RobotIds /\ robot.slot = 0
                  THEN [robot EXCEPT !.pc = "open", !.slot = broker.fd] ELSE robot
    /\ BrokerGoes("watch")
    /\ UNCHANGED <<locked, epset, loggedIn, fdtab, topicVars, netVars>>

\* Mutant: whatever the number denotes is registered.
WatchUnchecked ==
    /\ broker.pc = "watch"
    /\ epset' = epset \cup {fdtab[broker.fd]}
    /\ NextEvent(batch)
    /\ UNCHANGED <<locked, loggedIn, conv, robot, fdtab, topicVars, netVars>>

Watch ==
    /\ broker.pc = "watch"
    /\ LET f == fdtab[broker.fd] IN
       epset' = epset \cup IF IsMq(f) THEN {MqDesc} ELSE {f} \cap Conn
    /\ NextEvent(batch)
    /\ UNCHANGED <<locked, loggedIn, conv, robot, fdtab, topicVars, netVars>>

\* Any event but the listener's: the broker joins its threads, and returns to
\* the loop, if ever, with fd_data_mutx locked.
WorkerEvent ==
    /\ broker.pc = "batch" /\ ~locked
    /\ \E f \in batch \ {Listener} : batch' = batch \ {f}
    /\ broker' = [broker EXCEPT !.pc = "join0"]
    /\ locked' = TRUE
    /\ UNCHANGED <<epset, loggedIn, conv, robot, fdtab, topicVars, netVars>>

\* Joining an uninitialised pthread_t returns, never returns, or faults.  A
\* thread that exists is waited for; only index 1 of a pool ever has one.
JoinUninitialised(next) ==
    \/ /\ next \/ BrokerGoes("hung")
       /\ UNCHANGED <<locked, epset, loggedIn, conv, robot, fdtab, topicVars, netVars>>
    \/ Crash
JoinThread(pc, next) ==
    \/ /\ pc = "done" /\ next
       /\ UNCHANGED <<locked, epset, loggedIn, conv, robot, fdtab, topicVars, netVars>>
    \/ pc = "off" /\ JoinUninitialised(next)

Join0 == broker.pc = "join0" /\ JoinUninitialised(BrokerGoes("joinConv"))
JoinConv == broker.pc = "joinConv" /\ JoinThread(conv.pc, BrokerGoes("joinRobot"))
JoinRobot == broker.pc = "joinRobot" /\ JoinThread(robot.pc, BrokerGoes("join2"))
Join2 == broker.pc = "join2" /\ JoinUninitialised(NextEvent(batch))
-----------------------------------------------------------------------------
(* The conveyer thread: conveyer_handler. *)

ConvOpen ==
    /\ conv.pc = "open"
    /\ \/ \E fd \in Lowest :
             /\ conv' = [conv EXCEPT !.pc = "read", !.mq = fd]
             /\ fdtab' = [fdtab EXCEPT ![fd] = MqDesc]
       \/ /\ Free = {}
          /\ conv' = [conv EXCEPT !.pc = "done"]
          /\ UNCHANGED fdtab
    /\ UNCHANGED <<brokerVars, robot, topicVars, netVars>>

\* One read takes everything that has arrived, and only its first line is
\* parsed; what is not a line is ignored.
ConvRead ==
    /\ conv.pc = "read"
    /\ LET f == fdtab[conv.slot] IN
       \/ /\ f \in Conn
          /\ rx[f] # <<>>
          /\ rx' = [rx EXCEPT ![f] = <<>>]
          /\ conv' = IF Head(rx[f]).kind = "line"
                       THEN [conv EXCEPT !.pc = "send", !.task = Head(rx[f]).task] ELSE conv
          /\ UNCHANGED fdtab
       \/ /\ \/ f \in {NoFile, MqDescRead}
             \/ f \in Conn /\ rx[f] = <<>> /\ peer[f] = "down"
          /\ conv' = [conv EXCEPT !.pc = "close"]
          /\ UNCHANGED <<rx, fdtab>>
       \/ /\ f = MqDesc
          /\ fdtab' = [fdtab EXCEPT ![conv.slot] = MqDescRead]
          /\ UNCHANGED <<rx, conv>>
    /\ UNCHANGED <<brokerVars, robot, topicVars, workerVars, owed, welcome, backlog>>

\* close(worker_fd); continue -- whatever the number denotes by now.
ConvClose ==
    /\ conv.pc = "close"
    /\ fdtab' = [fdtab EXCEPT ![conv.slot] = NoFile]
    /\ conv' = [conv EXCEPT !.pc = "read"]
    /\ UNCHANGED <<brokerVars, robot, topicVars, netVars>>

\* Mutant: detections are sent with a higher priority and overtake the other tasks.
ConvSendUrgent ==
    /\ conv.pc = "send"
    /\ Len(mq) < MqMaxMsg
    /\ mq' = SelectSeq(mq, LAMBDA t : t.detect \/ ~conv.task.detect) \o <<conv.task>>
                \o SelectSeq(mq, LAMBDA t : ~t.detect /\ conv.task.detect)
    /\ log' = Append(log, conv.task)
    /\ conv' = [conv EXCEPT !.pc = "reply"]
    /\ UNCHANGED <<brokerVars, robot, fdtab, taken, commands, netVars>>

\* mq_send does not block: a full topic ends the thread.
ConvSend ==
    /\ conv.pc = "send"
    /\ \/ /\ Len(mq) < MqMaxMsg
          /\ mq' = Append(mq, conv.task)
          /\ log' = Append(log, conv.task)
          /\ conv' = [conv EXCEPT !.pc = "reply"]
          /\ UNCHANGED fdtab
       \/ /\ Len(mq) >= MqMaxMsg
          /\ conv' = [conv EXCEPT !.pc = "done"]
          /\ fdtab' = [fdtab EXCEPT ![conv.mq] = NoFile]
          /\ UNCHANGED <<mq, log>>
    /\ UNCHANGED <<brokerVars, robot, taken, commands, netVars>>

ConvReply ==
    /\ conv.pc = "reply"
    /\ conv' = [conv EXCEPT !.pc = "read", !.task = NoTask]
    /\ UNCHANGED <<brokerVars, robot, fdtab, topicVars, netVars>>
-----------------------------------------------------------------------------
(* The robot thread: robot_handler and send_command. *)

RobotOpen ==
    /\ robot.pc = "open"
    /\ \/ \E fd \in Lowest :
             /\ robot' = [robot EXCEPT !.pc = "loop", !.mq = fd]
             /\ fdtab' = [fdtab EXCEPT ![fd] = MqDesc]
       \/ /\ Free = {}
          /\ robot' = [robot EXCEPT !.pc = "done"]
          /\ UNCHANGED fdtab
    /\ UNCHANGED <<brokerVars, conv, topicVars, netVars>>

\* mq_receive on a descriptor that is no queue fails, and is tried again.
ReceiveCall ==
    /\ robot.pc = "loop"
    /\ IsMq(fdtab[robot.mq])
    /\ robot' = [robot EXCEPT !.pc = "receive"]
    /\ UNCHANGED <<brokerVars, conv, fdtab, topicVars, netVars>>

Receive ==
    /\ robot.pc = "receive"
    /\ mq # <<>>
    /\ robot' = [robot EXCEPT !.pc = "got", !.task = Head(mq)]
    /\ mq' = Tail(mq)
    /\ taken' = taken + 1
    /\ UNCHANGED <<brokerVars, conv, fdtab, log, commands, netVars>>

\* The task is dropped: back to the queue for the next.
Drop == robot' = [robot EXCEPT !.pc = "loop", !.conn = 0, !.task = NoTask]
ReadPduOf(c) == robot' = [robot EXCEPT !.pc = "reading", !.conn = c]

\* The first COMMAND goes out at once, any other waits for the robot's PDU.
Consider ==
    /\ robot.pc = "got"
    /\ LET f == fdtab[robot.slot] IN
       \/ ~robot.task.detect /\ Drop /\ UNCHANGED fdtab
       \/ /\ robot.task.detect /\ robot.isFirst
          /\ robot' = [robot EXCEPT !.pc = "first"]
          /\ UNCHANGED fdtab
       \/ /\ robot.task.detect /\ ~robot.isFirst
          /\ IF f \in Conn THEN ReadPduOf(f) ELSE Drop
          /\ fdtab' = [fdtab EXCEPT ![robot.slot] = IF f = MqDesc THEN MqDescRead ELSE f]
    /\ UNCHANGED <<brokerVars, conv, topicVars, netVars>>

\* Mutant: any PDU of the robot releases the next COMMAND.
ReadPduAnyType ==
    /\ robot.pc = "reading"
    /\ LET c == robot.conn IN
       /\ rx[c] # <<>> \/ peer[c] = "down"
       /\ IF rx[c] # <<>> THEN robot' = [robot EXCEPT !.pc = "again", !.conn = 0] ELSE Drop
       /\ rx' = [rx EXCEPT ![c] = <<>>]
    /\ UNCHANGED <<brokerVars, conv, fdtab, topicVars, workerVars, owed, welcome, backlog>>

\* The message type deserialize finds: bytes 8 to 23 of a buffer nobody clears, which
\* a cut READY alone leaves as an earlier read wrote them.
TypeIsReady(c) == IF Len(rx[c]) = 1 /\ Head(rx[c]).kind = "cut"
                    THEN robot.buffered ELSE Head(rx[c]).kind = "READY"

\* Of what has arrived only the first PDU counts; a failed read or a PDU that
\* is not READY drops the task.
ReadPdu ==
    /\ robot.pc = "reading"
    /\ LET c == robot.conn IN
       /\ \/ rx[c] = <<>> /\ peer[c] = "down" /\ Drop
          \/ /\ rx[c] # <<>>
             /\ robot' = [robot EXCEPT !.conn = 0, !.buffered = TypeIsReady(c),
                              !.pc = IF TypeIsReady(c) THEN "again" ELSE "loop",
                              !.task = IF TypeIsReady(c) THEN @ ELSE NoTask]
       /\ rx' = [rx EXCEPT ![c] = <<>>]
    /\ UNCHANGED <<brokerVars, conv, fdtab, topicVars, workerVars, owed, welcome, backlog>>

\* A write to a connection whose worker is gone may still succeed.
SendCommand ==
    /\ robot.pc \in {"first", "again"}
    /\ commands' = Append(commands, [pos |-> taken, task |-> robot.task])
    /\ owed' = [c \in Conn |-> IF fdtab[robot.slot] = c /\ peer[c] = "up"
                                 THEN owed[c] + 1 ELSE owed[c]]
    /\ robot' = [robot EXCEPT !.pc = "loop", !.task = NoTask, !.isFirst = FALSE]
    /\ UNCHANGED <<brokerVars, conv, fdtab, mq, log, taken, workerVars, rx, welcome, backlog>>
-----------------------------------------------------------------------------
(* Faults of the process. *)

\* SIGPIPE, which nothing ignores: a write to a connection the worker closed.
Gone(fd) == fdtab[fd] \in Conn /\ peer[fdtab[fd]] = "down"
SigPipe ==
    /\ \/ broker.pc = "auth" /\ Gone(broker.fd)
       \/ conv.pc = "reply" /\ Gone(conv.slot)
       \/ robot.pc \in {"first", "again"} /\ Gone(robot.slot)
    /\ Crash

Kill == broker.pc # "dead" /\ restarts < MaxRestarts /\ Crash

Restart ==
    /\ broker.pc = "dead"
    /\ restarts < MaxRestarts
    /\ restarts' = restarts + 1
    /\ broker' = IdleBroker
    /\ UNCHANGED <<batch, locked, epset, loggedIn, conv, robot, fdtab, topicVars,
                   cid, life, peer, said, lines, rx, owed, welcome, backlog>>
-----------------------------------------------------------------------------
(* The workers. *)

Connect(c, id) ==
    /\ broker.pc # "dead"
    /\ peer[c] = "none"
    /\ \A d \in Conn : d < c => peer[d] # "none"
    /\ peer' = [peer EXCEPT ![c] = "up"]
    /\ cid' = [cid EXCEPT ![c] = id]
    /\ life' = [life EXCEPT ![c] = restarts]
    /\ backlog' = Append(backlog, c)
    /\ UNCHANGED <<brokerVars, conv, robot, fdtab, topicVars, said, lines, restarts, rx, owed,
                   welcome>>

Write(c, m) ==
    /\ peer[c] = "up"
    /\ rx' = [rx EXCEPT ![c] = Append(@, m)]
    /\ UNCHANGED <<brokerVars, conv, robot, fdtab, topicVars, cid, life, peer, restarts,
                   welcome, backlog>>

Login(c) ==
    /\ ~said[c]
    /\ said' = [said EXCEPT ![c] = TRUE]
    /\ Write(c, Msg("login", NoTask))
    /\ UNCHANGED <<owed, lines>>

\* A conveyer reports whether it detected an object.
Detect(c) ==
    /\ cid[c] \in ConveyerIds /\ said[c]
    /\ lines < MaxLines
    /\ lines' = lines + 1
    /\ \E d \in BOOLEAN : Write(c, Msg("line", [detect |-> d, item |-> lines + 1]))
    /\ UNCHANGED <<said, owed>>

\* A robot may write other text, as long as its login, any time.
Chatter(c) ==
    /\ cid[c] \in RobotIds /\ said[c]
    /\ lines < MaxLines
    /\ lines' = lines + 1
    /\ Write(c, Msg("other", NoTask))
    /\ UNCHANGED <<said, owed>>

\* A robot that has carried out a COMMAND reports READY, whether or not the manager
\* that sent it is still there; esp_send_data cuts the PDU short.
Respond(c) ==
    /\ cid[c] \in RobotIds /\ said[c]
    /\ owed[c] > 0
    /\ owed' = [owed EXCEPT ![c] = @ - 1]
    /\ \/ \E k \in Answers : Write(c, Msg(k, NoTask)) /\ UNCHANGED <<said, lines>>
       \/ /\ peer[c] = "down"
          /\ UNCHANGED <<brokerVars, conv, robot, fdtab, topicVars, workerVars, rx, welcome,
                         backlog>>

Disconnect(c) ==
    /\ peer[c] = "up"
    /\ peer' = [peer EXCEPT ![c] = "down"]
    /\ UNCHANGED <<brokerVars, conv, robot, fdtab, topicVars, cid, life, said, lines, restarts,
                   rx, owed, welcome, backlog>>
-----------------------------------------------------------------------------
\* The queue is the kernel's: what conveyers published to an earlier process and
\* nobody took is there when this one starts.
LeftBehind == {left \in UNION {[1..n -> Task] : n \in 0..MqMaxMsg} :
                   /\ Len(left) \in Left /\ Len(left) <= MaxLines
                   /\ \A i \in DOMAIN left : left[i].item = i}

Init ==
    /\ broker = IdleBroker /\ conv = NoConv /\ robot = NoRobot
    /\ batch = {} /\ locked = FALSE /\ epset = {} /\ loggedIn = {}
    /\ fdtab = [fd \in Fd |-> NoFile]
    /\ mq \in LeftBehind /\ log = mq /\ taken = 0 /\ commands = <<>>
    /\ cid = [c \in Conn |-> TokenRow]
    /\ life = [c \in Conn |-> 0]
    /\ peer = [c \in Conn |-> "none"]
    /\ said = [c \in Conn |-> FALSE]
    /\ rx = [c \in Conn |-> <<>>]
    /\ owed = [c \in Conn |-> 0]
    /\ welcome = {} /\ backlog = <<>> /\ lines = Len(mq) /\ restarts = 0

Broker == \/ EpollWait \/ Accept \/ LoginCall \/ LoginRead \/ Authenticate \/ Place \/ Watch
          \/ WorkerEvent \/ Join0 \/ JoinConv \/ JoinRobot \/ Join2
Conveyer == ConvOpen \/ ConvRead \/ ConvClose \/ ConvSend \/ ConvReply
Robot == RobotOpen \/ ReceiveCall \/ Receive \/ Consider \/ ReadPdu \/ SendCommand
Worker(c) == (\E id \in Ids : Connect(c, id)) \/ Login(c) \/ Detect(c) \/ Respond(c)
Fault == SigPipe \/ Kill \/ Restart \/ \E c \in Conn : Disconnect(c) \/ Chatter(c)

Next == Broker \/ Conveyer \/ Robot \/ (\E c \in Conn : Worker(c)) \/ Fault

Spec == Init /\ [][Next]_vars

\* Without faults workers stay connected and a robot writes nothing but READY,
\* as the RCP worker does after moving.  Each thread is scheduled; workers log in
\* and robots finish their moves; nothing makes a conveyer detect anything.
SteadySpec ==
    /\ Init /\ [][Broker \/ Conveyer \/ Robot \/ \E c \in Conn : Worker(c)]_vars
    /\ WF_vars(Broker) /\ WF_vars(Conveyer) /\ WF_vars(Robot)
    /\ \A c \in Conn : WF_vars(Login(c)) /\ WF_vars(Respond(c))
-----------------------------------------------------------------------------
\* The type invariant.
BrokerPc == {"poll", "batch", "login", "reading", "auth", "place", "watch",
             "join0", "joinConv", "joinRobot", "join2", "hung", "dead"}
ConvPc == {"off", "open", "read", "close", "send", "reply", "done"}
RobotPc == {"off", "open", "loop", "receive", "got", "first", "reading", "again", "done"}
BrokerType == [pc : BrokerPc, fd : Fd \cup {0}, conn : Conn \cup {0}, id : Ids]
ConvType == [pc : ConvPc, slot : Fd \cup {0}, mq : Fd \cup {0}, task : Task]
RobotType == [pc : RobotPc, slot : Fd \cup {0}, mq : Fd \cup {0}, task : Task,
              conn : Conn \cup {0}, isFirst : BOOLEAN, buffered : BOOLEAN]
TypeOK ==
    /\ broker \in BrokerType /\ conv \in ConvType /\ robot \in RobotType
    /\ batch \in SUBSET (Conn \cup {Listener, MqDesc})
    /\ locked \in BOOLEAN
    /\ epset \in SUBSET (Conn \cup {MqDesc})
    /\ loggedIn \in SUBSET Listed
    /\ fdtab \in [Fd -> File]
    /\ mq \in Seq(Task) /\ log \in Seq(Task) /\ taken \in Nat
    /\ commands \in Seq([pos : Nat, task : Task])
    /\ cid \in [Conn -> Ids] /\ life \in [Conn -> Nat]
    /\ peer \in [Conn -> {"none", "up", "down"}]
    /\ said \in [Conn -> BOOLEAN]
    /\ rx \in [Conn -> Seq(Message)]
    /\ owed \in [Conn -> Nat]
    /\ welcome \in SUBSET Conn
    /\ backlog \in Seq(Conn)
    /\ lines \in Nat /\ restarts \in Nat

\* The topic the two worker threads share behaves as NmxTopic promises: order of
\* publication, no task commanded twice, never more than mq_maxmsg waiting, and
\* each COMMAND paid for by the process's first permit or by a READY, across any
\* disconnection, crash and restart.
Topic == INSTANCE NmxTopic WITH
           Capacity <- MqMaxMsg,
           permit <- robot.isFirst \/ robot.pc = "again"
TopicRefined == Topic!Spec

\* Flow control of robot_handler (rcp_manager.c:269-292), as far as it goes: of the
\* COMMANDs one process has sent at most one is unanswered, at one robot.  A process
\* that is started again knows nothing of the COMMAND its predecessor sent, so there
\* may be one more for each restart, but never two at one connection.
OneCommandOutstanding ==
    /\ \A c \in Conn : owed[c] <= 1
    /\ \A c, d \in Conn : owed[c] > 0 /\ owed[d] > 0 /\ life[c] = life[d] => c = d

\* The descriptors the two handlers keep reading from the slots of fd_data still
\* denote the workers they were given, and COMMANDs have reached robots only, as
\* long as no conveyer has hung up on this process: a robot that hangs up, or a login
\* that is refused, disturbs neither.
Ours(c) == broker.pc # "dead" /\ life[c] = restarts
ConveyerHungUp == \E c \in Conn : Ours(c) /\ cid[c] \in ConveyerIds /\ peer[c] = "down"
Denotes(slot, ids) == slot # 0 => fdtab[slot] \in Conn /\ cid[fdtab[slot]] \in ids
SlotsDenoteTheirWorkers ==
    ~ConveyerHungUp =>
        /\ Denotes(conv.slot, ConveyerIds)
        /\ Denotes(robot.slot, RobotIds)
        /\ \A c \in Conn : Ours(c) /\ owed[c] > 0 => cid[c] \in RobotIds
-----------------------------------------------------------------------------
(* The inductive invariant behind TopicRefined and OneCommandOutstanding. *)

\* A listener event is served while a connection still waits.
ListenerWaits == Listener \in batch => backlog # <<>>

\* The descriptor of a login being served is one, a robot thread has a slot, and
\* it reads a connection of its own process.
RobotPlaced ==
    /\ broker.pc \in {"login", "reading", "auth", "place", "watch"} => broker.fd # 0
    /\ robot.slot = 0 => robot.pc = "off"
    /\ robot.pc = "reading" => robot.conn \in Conn /\ Ours(robot.conn)

\* The one permit of a process to send is in one place: unused (isFirst), in the robot
\* thread's hand, with the robot that carries out a COMMAND, or in an answer that
\* nobody read -- or it is lost.
Unread(c) == {i \in DOMAIN rx[c] : rx[c][i].kind \in {"READY", "cut"}}
PermitAt(c) == owed[c] > 0 \/ Unread(c) # {}
FlowInv ==
    /\ robot.pc = "first" => robot.isFirst
    /\ robot.pc \in {"reading", "again"} => ~robot.isFirst
    /\ robot.isFirst \/ robot.pc = "again" => \A c \in Conn : Ours(c) => ~PermitAt(c)
    /\ \A c \in Conn : owed[c] <= 1 /\ (owed[c] > 0 => Unread(c) = {})
    /\ \A c \in Conn : \A i, j \in Unread(c) : i = j
    /\ \A c, d \in Conn : PermitAt(c) /\ PermitAt(d) /\ life[c] = life[d] => c = d

\* The topic holds the part of the log that is not taken, and the task in the
\* robot thread's hand is the one taken last, not commanded yet.
OrderInv ==
    /\ Len(log) = taken + Len(mq)
    /\ Len(mq) <= MqMaxMsg
    /\ \A i \in 1..Len(mq) : mq[i] = log[taken + i]
    /\ \A j \in DOMAIN commands : commands[j].pos <= taken
    /\ robot.pc \in {"got", "first", "reading", "again"} =>
           /\ taken > 0 /\ robot.task = log[taken]
           /\ \A j \in DOMAIN commands : commands[j].pos < taken
    /\ robot.pc \in {"first", "reading", "again"} => robot.task.detect

\* What a descriptor or the backlog names was made by a worker, for the process that
\* runs; what owes an answer was made once; no connection is of a life to come.
ConnectionsMade ==
    /\ \A fd \in Fd : fdtab[fd] \in Conn => peer[fdtab[fd]] # "none" /\ Ours(fdtab[fd])
    /\ \A i \in DOMAIN backlog : peer[backlog[i]] # "none" /\ Ours(backlog[i])
    /\ \A c \in Conn : peer[c] = "none" => ~PermitAt(c)
    /\ \A c \in Conn : life[c] <= restarts

\* As long as no conveyer has hung up nothing closes a connection's number: the
\* conveyer thread does not come to its close, its queue descriptor is one, and the
\* broker's login stays with the device it was read from.
SlotInv ==
    /\ conv.slot = 0 => conv.pc = "off"
    /\ ~ConveyerHungUp =>
          /\ Denotes(conv.slot, ConveyerIds)
          /\ Denotes(robot.slot, RobotIds)
          /\ \A c \in Conn : Ours(c) /\ owed[c] > 0 => cid[c] \in RobotIds
          /\ conv.pc # "close"
          /\ conv.pc \in {"read", "send", "reply"} => conv.mq # 0 /\ IsMq(fdtab[conv.mq])
          /\ broker.pc \in {"login", "reading", "auth", "place"} => fdtab[broker.fd] \in Conn
          /\ broker.pc = "reading" => broker.conn = fdtab[broker.fd]
          /\ broker.pc \in {"auth", "place"} /\ broker.id \in Listed =>
                cid[fdtab[broker.fd]] = broker.id

\* Topic, flow control and slots, as one inductive invariant of the broker's batch,
\* the two worker threads, the queue and the connections.
IInv ==
    /\ TypeOK /\ ListenerWaits /\ RobotPlaced /\ FlowInv /\ OrderInv
    /\ ConnectionsMade /\ SlotInv
=============================================================================
