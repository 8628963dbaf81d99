-------------------------- MODULE RcpManagerProofs --------------------------
(***************************************************************************)
(* What holds of RcpManager for every device table, descriptor limit,      *)
(* topic capacity and number of connections, lines and restarts.           *)
(***************************************************************************)
EXTENDS RcpManager, SequenceTheorems, TLAPS

-----------------------------------------------------------------------------
(* Type correctness. *)

\* The constants the thread states start from are of their types.
LEMMA ConstantTypes ==
    /\ TokenRow \in Ids /\ TokenRow \in Listed
    /\ NoTask \in Task
    /\ IdleBroker \in BrokerType /\ NoConv \in ConvType /\ NoRobot \in RobotType
    /\ NoFile \in File /\ MqDesc \in File /\ MqDescRead \in File /\ Conn \subseteq File
<1>1. TokenRow \in Ids /\ TokenRow \in Listed
    BY ManagerAssumption DEF Ids, Listed
<1>2. NoTask \in Task
    BY ManagerAssumption DEF Task, NoTask
<1>3. IdleBroker \in BrokerType
    BY <1>1 DEF IdleBroker, BrokerType, BrokerPc
<1>4. NoConv \in ConvType
    BY <1>2 DEF NoConv, ConvType, ConvPc
<1>5. NoRobot \in RobotType
    BY <1>2 DEF NoRobot, RobotType, RobotPc
<1> QED
    BY <1>1, <1>2, <1>3, <1>4, <1>5 DEF File

\* Reading all that arrived on a connection leaves nothing there.
LEMMA Emptied ==
    ASSUME TypeOK, NEW c
    PROVE  [rx EXCEPT ![c] = <<>>] \in [Conn -> Seq(Message)]
BY EmptySeq DEF TypeOK

\* Moving a thread on to another of its steps keeps its state well typed.
LEMMA BrokerMoves ==
    ASSUME NEW b \in BrokerType, NEW pc \in BrokerPc
    PROVE  [b EXCEPT !.pc = pc] \in BrokerType
BY DEF BrokerType

LEMMA ConvMoves ==
    ASSUME NEW c \in ConvType, NEW pc \in ConvPc
    PROVE  [c EXCEPT !.pc = pc] \in ConvType
BY DEF ConvType

LEMMA RobotMoves ==
    ASSUME NEW r \in RobotType, NEW pc \in RobotPc
    PROVE  [r EXCEPT !.pc = pc] \in RobotType
BY DEF RobotType

\* The end of the process leaves well-typed state behind.
LEMMA CrashTypeOK == TypeOK /\ Crash => TypeOK'
<1> SUFFICES ASSUME TypeOK, Crash
             PROVE  TypeOK'
    OBVIOUS
<1>1. broker' \in BrokerType /\ conv' \in ConvType /\ robot' \in RobotType
    BY ConstantTypes, BrokerMoves DEF Crash, BrokerPc
<1>2. fdtab' \in [Fd -> File] /\ backlog' \in Seq(Conn)
    BY ConstantTypes DEF Crash
<1>3. /\ peer' \in [Conn -> {"none", "up", "down"}]
      /\ rx' \in [Conn -> Seq(Message)]
    BY DEF Crash, TypeOK
<1> QED
    BY <1>1, <1>2, <1>3 DEF TypeOK, Crash, topicVars

\* Going on to the next event of a batch keeps the broker well typed.
LEMMA NextEventTypeOK ==
    ASSUME NEW rest \in SUBSET (Conn \cup {Listener, MqDesc}), NextEvent(rest)
    PROVE  broker' \in BrokerType /\ batch' \in SUBSET (Conn \cup {Listener, MqDesc})
BY ConstantTypes, BrokerMoves DEF NextEvent, BrokerPc

LEMMA BrokerGoesTypeOK ==
    ASSUME TypeOK, NEW pc \in BrokerPc, BrokerGoes(pc)
    PROVE  broker' \in BrokerType /\ batch' \in SUBSET (Conn \cup {Listener, MqDesc})
BY BrokerMoves DEF TypeOK, BrokerGoes

\* Each action of the broker thread preserves the type invariant.
LEMMA BrokerTypeOK == TypeOK /\ ListenerWaits /\ Broker => TypeOK'
<1> SUFFICES ASSUME TypeOK, ListenerWaits, Broker
             PROVE  TypeOK'
    OBVIOUS
<1> USE DEF brokerVars, topicVars, netVars, workerVars
<1>1. CASE EpollWait
    <2>1. Reported \in SUBSET (Conn \cup {Listener, MqDesc})
        BY DEF Reported
    <2> QED
        BY <1>1, <2>1, NextEventTypeOK DEF EpollWait, TypeOK
<1>2. CASE Accept
    <2>1. backlog \in Seq(Conn) /\ backlog # <<>>
        BY <1>2 DEF Accept, ListenerWaits, TypeOK
    <2>2. Head(backlog) \in Conn /\ Tail(backlog) \in Seq(Conn)
        BY <2>1, HeadTailProperties
    <2>3. batch \ {Listener} \in SUBSET (Conn \cup {Listener, MqDesc})
        BY DEF TypeOK
    <2>4. CASE Free = {} /\ NextEvent(batch \ {Listener})
        BY <1>2, <2>3, <2>4, NextEventTypeOK DEF Accept, TypeOK, Lowest
    <2>5. CASE \E fd \in Lowest :
                 /\ broker' = [broker EXCEPT !.pc = "login", !.fd = fd]
                 /\ fdtab' = [fdtab EXCEPT ![fd] = Head(backlog)]
        <3>1. PICK fd \in Lowest :
                 /\ broker' = [broker EXCEPT !.pc = "login", !.fd = fd]
                 /\ fdtab' = [fdtab EXCEPT ![fd] = Head(backlog)]
            BY <2>5
        <3>2. fd \in Fd
            BY <3>1 DEF Lowest, Free
        <3>3. broker' \in BrokerType
            BY <3>1, <3>2 DEF TypeOK, BrokerType, BrokerPc
        <3>4. fdtab' \in [Fd -> File]
            BY <2>2, <3>1, <3>2, ConstantTypes DEF TypeOK
        <3>5. Free # {} /\ Lowest # {}
            BY <3>1 DEF Lowest
        <3> QED
            BY <1>2, <2>2, <2>3, <3>3, <3>4, <3>5 DEF Accept, TypeOK
    <2> QED
        BY <1>2, <2>4, <2>5 DEF Accept
<1>3. CASE LoginCall
    <2>1. CASE Crash
        BY <2>1, CrashTypeOK
    <2>2. CASE ~Crash
        <3>1. broker' \in BrokerType
            BY <1>3, <2>2 DEF LoginCall, TypeOK, BrokerType, BrokerPc, Ids
        <3>2. fdtab' \in [Fd -> File]
            BY <1>3, <2>2, ConstantTypes DEF LoginCall, TypeOK
        <3> QED
            BY <1>3, <2>2, <3>1, <3>2 DEF LoginCall, TypeOK
    <2> QED
        BY <2>1, <2>2
<1>4. CASE LoginRead
    <2>1. CASE Crash
        BY <2>1, CrashTypeOK
    <2>2. CASE ~Crash
        <3>1. broker' \in BrokerType
            BY <1>4, <2>2 DEF LoginRead, TypeOK, BrokerType, BrokerPc
        <3>2. rx' = [rx EXCEPT ![broker.conn] = <<>>]
            BY <1>4, <2>2 DEF LoginRead
        <3>3. UNCHANGED <<batch, locked, epset, loggedIn, conv, robot, fdtab, topicVars,
                          workerVars, owed, welcome, backlog>>
            BY <1>4, <2>2 DEF LoginRead
        <3> QED
            BY <3>1, <3>2, <3>3, Emptied DEF TypeOK
    <2> QED
        BY <2>1, <2>2
<1>5. CASE Authenticate
    <2>1. broker' \in BrokerType /\ batch' \in SUBSET (Conn \cup {Listener, MqDesc})
        BY <1>5, NextEventTypeOK, BrokerGoesTypeOK DEF Authenticate, BrokerPc, TypeOK
    <2>2. loggedIn' \in SUBSET Listed /\ welcome' \in SUBSET Conn
        BY <1>5, ConstantTypes DEF Authenticate, TypeOK
    <2> QED
        BY <1>5, <2>1, <2>2 DEF Authenticate, TypeOK
<1>6. CASE Place
    <2>1. broker' \in BrokerType
        BY <1>6, BrokerGoesTypeOK DEF Place, BrokerPc
    <2>2. conv' \in ConvType
        BY <1>6 DEF Place, TypeOK, BrokerType, ConvType, ConvPc
    <2>3. robot' \in RobotType
        BY <1>6 DEF Place, TypeOK, BrokerType, RobotType, RobotPc
    <2> QED
        BY <1>6, <2>1, <2>2, <2>3 DEF Place, TypeOK, BrokerGoes
<1>7. CASE Watch
    <2>1. epset' \in SUBSET (Conn \cup {MqDesc})
        BY <1>7 DEF Watch, TypeOK
    <2>2. broker' \in BrokerType /\ batch' \in SUBSET (Conn \cup {Listener, MqDesc})
        BY <1>7, NextEventTypeOK DEF Watch, TypeOK
    <2> QED
        BY <1>7, <2>1, <2>2 DEF Watch, TypeOK
<1>8. CASE WorkerEvent
    <2>1. broker' \in BrokerType
        BY <1>8, BrokerMoves DEF WorkerEvent, TypeOK, BrokerPc
    <2>2. batch' \in SUBSET (Conn \cup {Listener, MqDesc})
        BY <1>8 DEF WorkerEvent, TypeOK
    <2> QED
        BY <1>8, <2>1, <2>2 DEF WorkerEvent, TypeOK
<1>9. CASE Join0 \/ JoinConv \/ JoinRobot \/ Join2
    <2>1. CASE Crash
        BY <2>1, CrashTypeOK
    <2>2. CASE ~Crash
        <3>1. broker' \in BrokerType /\ batch' \in SUBSET (Conn \cup {Listener, MqDesc})
            BY <1>9, <2>2, NextEventTypeOK, BrokerGoesTypeOK
            DEF Join0, JoinConv, JoinRobot, Join2, JoinThread, JoinUninitialised, BrokerPc, TypeOK
        <3> QED
            BY <1>9, <2>2, <3>1
            DEF Join0, JoinConv, JoinRobot, Join2, JoinThread, JoinUninitialised, TypeOK
    <2> QED
        BY <2>1, <2>2
<1> QED
    BY <1>1, <1>2, <1>3, <1>4, <1>5, <1>6, <1>7, <1>8, <1>9 DEF Broker

\* Each action of the conveyer thread preserves it ...
LEMMA ConveyerTypeOK == TypeOK /\ Conveyer => TypeOK'
<1> SUFFICES ASSUME TypeOK, Conveyer
             PROVE  TypeOK'
    OBVIOUS
<1> USE DEF brokerVars, topicVars, netVars, workerVars
<1>1. CASE ConvOpen
    <2>1. ASSUME NEW fd \in Lowest
          PROVE  [conv EXCEPT !.pc = "read", !.mq = fd] \in ConvType
        BY <2>1 DEF TypeOK, ConvType, ConvPc, Lowest, Free
    <2>2. conv' \in ConvType
        <3>1. \/ \E fd \in Lowest : conv' = [conv EXCEPT !.pc = "read", !.mq = fd]
              \/ conv' = [conv EXCEPT !.pc = "done"]
            BY <1>1 DEF ConvOpen
        <3>2. [conv EXCEPT !.pc = "done"] \in ConvType
            BY ConvMoves DEF TypeOK, ConvPc
        <3> QED
            BY <2>1, <3>1, <3>2
    <2>3. fdtab' \in [Fd -> File]
        BY <1>1, ConstantTypes DEF ConvOpen, TypeOK
    <2> QED
        BY <1>1, <2>2, <2>3 DEF ConvOpen, TypeOK
<1>2. CASE ConvRead
    <2>1. ASSUME NEW f \in Conn, rx[f] # <<>>
          PROVE  Head(rx[f]) \in Message
        BY <2>1, HeadTailProperties DEF TypeOK
    <2>2. conv' \in ConvType
        BY <1>2, <2>1, ZenonT(40) DEF ConvRead, TypeOK, ConvType, ConvPc, Message
    <2>3. fdtab' \in [Fd -> File]
        BY <1>2, ConstantTypes DEF ConvRead, TypeOK
    <2>4. rx' \in [Conn -> Seq(Message)]
        BY <1>2, Emptied, ZenonT(40) DEF ConvRead, TypeOK
    <2> QED
        BY <1>2, <2>2, <2>3, <2>4 DEF ConvRead, TypeOK
<1>3. CASE ConvClose
    <2>1. conv' \in ConvType
        BY <1>3, ConvMoves DEF ConvClose, TypeOK, ConvPc
    <2>2. fdtab' \in [Fd -> File]
        BY <1>3, ConstantTypes DEF ConvClose, TypeOK
    <2> QED
        BY <1>3, <2>1, <2>2 DEF ConvClose, TypeOK
<1>4. CASE ConvSend
    <2>1. conv' \in ConvType
        BY <1>4, ConvMoves DEF ConvSend, TypeOK, ConvPc
    <2>2. fdtab' \in [Fd -> File]
        BY <1>4, ConstantTypes DEF ConvSend, TypeOK
    <2>3. conv.task \in Task
        BY DEF TypeOK, ConvType
    <2>4. mq' \in Seq(Task) /\ log' \in Seq(Task)
        <3>1. \/ UNCHANGED <<mq, log>>
              \/ mq' = Append(mq, conv.task) /\ log' = Append(log, conv.task)
            BY <1>4 DEF ConvSend
        <3>2. Append(mq, conv.task) \in Seq(Task) /\ Append(log, conv.task) \in Seq(Task)
            BY <2>3, AppendProperties DEF TypeOK
        <3> QED
            BY <3>1, <3>2 DEF TypeOK
    <2> QED
        BY <1>4, <2>1, <2>2, <2>4 DEF ConvSend, TypeOK
<1>5. CASE ConvReply
    <2>1. conv' \in ConvType
        BY <1>5, ConstantTypes DEF ConvReply, TypeOK, ConvType, ConvPc
    <2> QED
        BY <1>5, <2>1 DEF ConvReply, TypeOK
<1> QED
    BY <1>1, <1>2, <1>3, <1>4, <1>5 DEF Conveyer

\* ... as does each action of the robot thread.
LEMMA RobotTypeOK == TypeOK /\ Robot => TypeOK'
<1> SUFFICES ASSUME TypeOK, Robot
             PROVE  TypeOK'
    OBVIOUS
<1> USE DEF brokerVars, topicVars, netVars, workerVars
<1>1. CASE RobotOpen
    <2>1. ASSUME NEW fd \in Lowest
          PROVE  [robot EXCEPT !.pc = "loop", !.mq = fd] \in RobotType
        BY <2>1 DEF TypeOK, RobotType, RobotPc, Lowest, Free
    <2>2. robot' \in RobotType
        <3>1. \/ \E fd \in Lowest : robot' = [robot EXCEPT !.pc = "loop", !.mq = fd]
              \/ robot' = [robot EXCEPT !.pc = "done"]
            BY <1>1 DEF RobotOpen
        <3>2. [robot EXCEPT !.pc = "done"] \in RobotType
            BY RobotMoves DEF TypeOK, RobotPc
        <3> QED
            BY <2>1, <3>1, <3>2
    <2>3. fdtab' \in [Fd -> File]
        BY <1>1, ConstantTypes DEF RobotOpen, TypeOK
    <2> QED
        BY <1>1, <2>2, <2>3 DEF RobotOpen, TypeOK
<1>2. CASE ReceiveCall
    <2>1. robot' \in RobotType
        BY <1>2, RobotMoves DEF ReceiveCall, TypeOK, RobotPc
    <2> QED
        BY <1>2, <2>1 DEF ReceiveCall, TypeOK
<1>3. CASE Receive
    <2>1. Head(mq) \in Task /\ Tail(mq) \in Seq(Task)
        BY <1>3, HeadTailProperties DEF Receive, TypeOK
    <2>2. robot' \in RobotType
        BY <1>3, <2>1 DEF Receive, TypeOK, RobotType, RobotPc
    <2>3. mq' \in Seq(Task) /\ taken' \in Nat
        BY <1>3, <2>1 DEF Receive, TypeOK
    <2>4. UNCHANGED <<brokerVars, conv, fdtab, log, commands, netVars>>
        BY <1>3 DEF Receive
    <2> QED
        BY <2>2, <2>3, <2>4 DEF TypeOK
<1>4. CASE Consider
    <2>1. robot' \in RobotType
        <3>1. CASE Drop
            BY <3>1, ConstantTypes DEF Drop, TypeOK, RobotType, RobotPc
        <3>2. CASE robot' = [robot EXCEPT !.pc = "first"]
            BY <3>2, RobotMoves DEF TypeOK, RobotPc
        <3>3. CASE fdtab[robot.slot] \in Conn /\ ReadPduOf(fdtab[robot.slot])
            BY <3>3 DEF ReadPduOf, TypeOK, RobotType, RobotPc
        <3> QED
            BY <1>4, <3>1, <3>2, <3>3 DEF Consider
    <2>2. fdtab' \in [Fd -> File]
        BY <1>4, ConstantTypes DEF Consider, TypeOK
    <2> QED
        BY <1>4, <2>1, <2>2 DEF Consider, TypeOK
<1>5. CASE ReadPdu
    <2>1. robot' \in RobotType
        <3>1. CASE Drop
            BY <3>1, ConstantTypes DEF Drop, TypeOK, RobotType, RobotPc
        <3>2. CASE ~Drop
            <4>1. PICK c : robot' = [robot EXCEPT !.conn = 0, !.buffered = TypeIsReady(c),
                                        !.pc = IF TypeIsReady(c) THEN "again" ELSE "loop",
                                        !.task = IF TypeIsReady(c) THEN @ ELSE NoTask]
                BY <1>5, <3>2 DEF ReadPdu
            <4>2. TypeIsReady(c) \in BOOLEAN
                BY Zenon DEF TypeIsReady, TypeOK, RobotType
            <4> QED
                BY <4>1, <4>2, ConstantTypes DEF TypeOK, RobotType, RobotPc
        <3> QED
            BY <3>1, <3>2
    <2>2. rx' \in [Conn -> Seq(Message)]
        BY <1>5, Emptied DEF ReadPdu, TypeOK
    <2> QED
        BY <1>5, <2>1, <2>2 DEF ReadPdu, TypeOK
<1>6. CASE SendCommand
    <2>1. robot' \in RobotType
        BY <1>6, ConstantTypes DEF SendCommand, TypeOK, RobotType, RobotPc
    <2>2. owed' \in [Conn -> Nat]
        BY <1>6 DEF SendCommand, TypeOK
    <2>3. robot.task \in Task
        BY DEF TypeOK, RobotType
    <2>4. commands' \in Seq([pos : Nat, task : Task])
        BY <1>6, <2>3 DEF SendCommand, TypeOK
    <2> QED
        BY <1>6, <2>1, <2>2, <2>4 DEF SendCommand, TypeOK
<1> QED
    BY <1>1, <1>2, <1>3, <1>4, <1>5, <1>6 DEF Robot

\* What a worker writes is a message.
LEMMA WriteTypeOK ==
    ASSUME TypeOK, NEW c \in Conn, NEW m \in Message, Write(c, m)
    PROVE  rx' \in [Conn -> Seq(Message)]
BY DEF Write, TypeOK

\* An answer is a message, and one of the two a READY can arrive as.
LEMMA AnswerIs ==
    \A k \in Answers : Msg(k, NoTask) \in Message /\ Msg(k, NoTask).kind \in {"READY", "cut"}
BY ConstantTypes, ManagerAssumption DEF Msg, Message

\* Each action of the workers, and each fault, preserves it.
LEMMA WorkerTypeOK ==
    ASSUME TypeOK, NEW c \in Conn, Worker(c) \/ Chatter(c) \/ Disconnect(c)
    PROVE  TypeOK'
<1> USE DEF brokerVars, topicVars, netVars, workerVars
<1>1. CASE \E id \in Ids : Connect(c, id)
    <2>1. PICK id \in Ids : Connect(c, id)
        BY <1>1
    <2>2. /\ peer' \in [Conn -> {"none", "up", "down"}]
          /\ cid' \in [Conn -> Ids] /\ life' \in [Conn -> Nat]
          /\ backlog' \in Seq(Conn)
        BY <2>1 DEF Connect, TypeOK
    <2> QED
        BY <2>1, <2>2 DEF Connect, TypeOK
<1>2. CASE Login(c)
    <2>1. Msg("login", NoTask) \in Message
        BY ConstantTypes DEF Msg, Message
    <2>2. rx' \in [Conn -> Seq(Message)] /\ said' \in [Conn -> BOOLEAN]
        BY <1>2, <2>1, WriteTypeOK DEF Login, TypeOK
    <2> QED
        BY <1>2, <2>2 DEF Login, Write, TypeOK
<1>3. CASE Detect(c)
    <2>1. PICK d \in BOOLEAN : Write(c, Msg("line", [detect |-> d, item |-> lines + 1]))
        BY <1>3 DEF Detect
    <2>2. lines + 1 \in 0..MaxLines
        BY <1>3, ManagerAssumption DEF Detect, TypeOK
    <2>3. Msg("line", [detect |-> d, item |-> lines + 1]) \in Message
        BY <2>2 DEF Msg, Message, Task
    <2>4. rx' \in [Conn -> Seq(Message)]
        BY <2>1, <2>3, WriteTypeOK
    <2> QED
        BY <1>3, <2>1, <2>4 DEF Detect, Write, TypeOK
<1>6. CASE Chatter(c)
    <2>1. Msg("other", NoTask) \in Message
        BY ConstantTypes DEF Msg, Message
    <2>2. rx' \in [Conn -> Seq(Message)]
        BY <1>6, <2>1, WriteTypeOK DEF Chatter
    <2> QED
        BY <1>6, <2>2 DEF Chatter, Write, TypeOK
<1>4. CASE Respond(c)
    <2>1. owed' \in [Conn -> Nat]
        BY <1>4 DEF Respond, TypeOK
    <2>2. CASE \E k \in Answers : Write(c, Msg(k, NoTask)) /\ UNCHANGED <<said, lines>>
        <3>1. PICK m \in Message : Write(c, m) /\ UNCHANGED <<said, lines>>
            BY <2>2, AnswerIs
        <3>2. rx' \in [Conn -> Seq(Message)]
            BY <3>1, WriteTypeOK
        <3> QED
            BY <2>1, <3>1, <3>2 DEF Write, TypeOK
    <2>3. CASE UNCHANGED <<brokerVars, conv, robot, fdtab, topicVars, workerVars, rx, welcome,
                           backlog>>
        BY <2>1, <2>3 DEF TypeOK
    <2> QED
        BY <1>4, <2>2, <2>3 DEF Respond
<1>5. CASE Disconnect(c)
    BY <1>5 DEF Disconnect, TypeOK
<1> QED
    BY <1>1, <1>2, <1>3, <1>4, <1>5, <1>6 DEF Worker

LEMMA NextTypeOK == TypeOK /\ ListenerWaits /\ [Next]_vars => TypeOK'
<1> SUFFICES ASSUME TypeOK, ListenerWaits, [Next]_vars
             PROVE  TypeOK'
    OBVIOUS
<1>1. CASE SigPipe \/ Kill
    BY <1>1, CrashTypeOK DEF SigPipe, Kill
<1>2. CASE Restart
    BY <1>2, ConstantTypes DEF Restart, TypeOK, topicVars
<1>3. CASE UNCHANGED vars
    BY <1>3 DEF TypeOK, vars, brokerVars, topicVars, netVars, workerVars
<1> QED
    BY <1>1, <1>2, <1>3, BrokerTypeOK, ConveyerTypeOK, RobotTypeOK, WorkerTypeOK
    DEF Next, Fault

-----------------------------------------------------------------------------
(* The parts of the inductive invariant about the broker. *)

\* A batch names the listener only while a connection waits.
LEMMA NextListenerWaits == TypeOK /\ ListenerWaits /\ [Next]_vars => ListenerWaits'
<1> SUFFICES ASSUME TypeOK, ListenerWaits, [Next]_vars
             PROVE  ListenerWaits'
    OBVIOUS
<1> USE DEF brokerVars, topicVars, netVars, workerVars
<1>1. CASE EpollWait
    <2>1. Listener \in Reported => backlog # <<>>
        BY DEF Reported, Listener, Conn, MqDesc
    <2> QED
        BY <1>1, <2>1 DEF EpollWait, NextEvent, ListenerWaits
<1>2. CASE Accept
    BY <1>2 DEF Accept, NextEvent, ListenerWaits
<1>3. CASE \E c \in Conn, id \in Ids : Connect(c, id)
    <2>1. PICK c \in Conn : backlog' = Append(backlog, c) /\ UNCHANGED batch
        BY <1>3 DEF Connect
    <2>2. backlog \in Seq(Conn)
        BY DEF TypeOK
    <2>3. backlog' # <<>>
        BY <2>1, <2>2, AppendProperties
    <2> QED
        BY <2>3 DEF ListenerWaits
<1>4. CASE Crash
    BY <1>4 DEF Crash, ListenerWaits
<1>5. CASE batch' \subseteq batch /\ UNCHANGED backlog
    BY <1>5 DEF ListenerWaits
<1>6. CASE Broker
    BY <1>1, <1>2, <1>4, <1>5, <1>6
    DEF Broker, LoginCall, LoginRead, Authenticate, Place, Watch, WorkerEvent, Join0, JoinConv,
        JoinRobot, Join2, JoinThread, JoinUninitialised, NextEvent, BrokerGoes
<1>7. CASE Conveyer
    BY <1>5, <1>7 DEF Conveyer, ConvOpen, ConvRead, ConvClose, ConvSend, ConvReply
<1>8. CASE Robot
    BY <1>5, <1>8 DEF Robot, RobotOpen, ReceiveCall, Receive, Consider, ReadPdu, SendCommand
<1>9. CASE (\E c \in Conn : Worker(c)) \/ Fault
    BY <1>3, <1>4, <1>5, <1>9
    DEF Worker, Login, Detect, Write, Respond, Fault, SigPipe, Kill, Restart, Disconnect,
        Chatter
<1>10. CASE UNCHANGED vars
    BY <1>5, <1>10 DEF vars
<1> QED
    BY <1>6, <1>7, <1>8, <1>9, <1>10 DEF Next

-----------------------------------------------------------------------------
(* Which connections are the running process's. *)

\* A process does not end but by Crash, and does not start but by Restart.
LEMMA Alive ==
    ASSUME TypeOK, [Next]_vars, ~Crash, ~Restart
    PROVE  /\ broker'.pc = "dead" <=> broker.pc = "dead"
           /\ UNCHANGED restarts
<1> USE DEF brokerVars, topicVars, netVars, workerVars
<1>1. CASE UNCHANGED <<broker, restarts>>
    BY <1>1
<1>2. CASE Broker
    <2>1. UNCHANGED restarts
        BY <1>2
        DEF Broker, EpollWait, Accept, LoginCall, LoginRead, Authenticate, Place, Watch,
            WorkerEvent, Join0, JoinConv, JoinRobot, Join2, JoinThread, JoinUninitialised
    <2>2. broker.pc # "dead"
        BY <1>2
        DEF Broker, EpollWait, Accept, LoginCall, LoginRead, Authenticate, Place, Watch,
            WorkerEvent, Join0, JoinConv, JoinRobot, Join2
    <2>3. \A rest : NextEvent(rest) => broker'.pc # "dead"
        BY DEF NextEvent, IdleBroker
    <2>4. \A pc : BrokerGoes(pc) => broker'.pc = pc
        BY DEF BrokerGoes, TypeOK, BrokerType
    <2>5. CASE EpollWait \/ Authenticate \/ Place \/ Watch \/ Join0 \/ JoinConv \/ JoinRobot
               \/ Join2
        BY <2>3, <2>4, <2>5
        DEF EpollWait, Authenticate, Place, Watch, Join0, JoinConv, JoinRobot, Join2, JoinThread,
            JoinUninitialised
    <2>6. CASE Accept \/ LoginCall \/ LoginRead \/ WorkerEvent
        BY <2>3, <2>6 DEF Accept, LoginCall, LoginRead, WorkerEvent, TypeOK, BrokerType
    <2> QED
        BY <1>2, <2>1, <2>2, <2>5, <2>6 DEF Broker
<1>3. CASE Conveyer
    BY <1>1, <1>3 DEF Conveyer, ConvOpen, ConvRead, ConvClose, ConvSend, ConvReply
<1>4. CASE Robot
    BY <1>1, <1>4 DEF Robot, RobotOpen, ReceiveCall, Receive, Consider, ReadPdu, SendCommand
<1>5. CASE (\E c \in Conn : Worker(c)) \/ Fault
    BY <1>1, <1>5
    DEF Worker, Connect, Login, Detect, Respond, Write, Fault, SigPipe, Kill, Disconnect, Chatter
<1>6. CASE UNCHANGED vars
    BY <1>1, <1>6 DEF vars
<1> QED
    BY <1>2, <1>3, <1>4, <1>5, <1>6 DEF Next

\* Only Connect says of what life a connection is, once.
LEMMA LifeStays ==
    ASSUME TypeOK, [Next]_vars
    PROVE  \/ UNCHANGED life
           \/ \E c \in Conn, id \in Ids : Connect(c, id)
<1> USE DEF brokerVars, topicVars, netVars, workerVars
<1>1. CASE Crash \/ Restart
    BY <1>1 DEF Crash, Restart
<1>2. CASE Broker
    BY <1>1, <1>2
    DEF Broker, EpollWait, Accept, LoginCall, LoginRead, Authenticate, Place, Watch,
        WorkerEvent, Join0, JoinConv, JoinRobot, Join2, JoinThread, JoinUninitialised
<1>3. CASE Conveyer
    BY <1>3 DEF Conveyer, ConvOpen, ConvRead, ConvClose, ConvSend, ConvReply
<1>4. CASE Robot
    BY <1>4 DEF Robot, RobotOpen, ReceiveCall, Receive, Consider, ReadPdu, SendCommand
<1>5. CASE (\E c \in Conn : Worker(c)) \/ Fault
    BY <1>1, <1>5
    DEF Worker, Login, Detect, Respond, Write, Fault, SigPipe, Kill, Disconnect, Chatter
<1>6. CASE UNCHANGED vars
    BY <1>6 DEF vars
<1> QED
    BY <1>2, <1>3, <1>4, <1>5, <1>6 DEF Next

LEMMA Lives ==
    ASSUME TypeOK, ConnectionsMade, [Next]_vars, NEW c \in Conn
    PROVE  /\ life'[c] <= restarts'
           /\ peer[c] # "none" => life'[c] = life[c]
           /\ Ours(c)' => Ours(c) \/ peer[c] = "none"
           /\ Ours(c) /\ ~Crash => Ours(c)'
<1>1. life[c] \in Nat /\ restarts \in Nat /\ life[c] <= restarts
    BY DEF TypeOK, ConnectionsMade
<1>2. CASE Crash
    BY <1>1, <1>2 DEF Crash, IdleBroker, Ours, topicVars
<1>3. CASE Restart
    BY <1>1, <1>3 DEF Restart, Ours
<1>4. CASE ~Crash /\ ~Restart
    <2>1. (broker'.pc = "dead" <=> broker.pc = "dead") /\ UNCHANGED restarts
        BY <1>4, Alive
    <2>2. CASE UNCHANGED life
        BY <1>1, <2>1, <2>2 DEF Ours
    <2>3. ASSUME NEW d \in Conn, NEW id \in Ids, Connect(d, id)
          PROVE  life'[c] = life[c] \/ (peer[c] = "none" /\ life'[c] = restarts)
        BY <2>3 DEF Connect, TypeOK
    <2> QED
        BY <1>1, <2>1, <2>2, <2>3, LifeStays DEF Ours
<1> QED
    BY <1>2, <1>3, <1>4

-----------------------------------------------------------------------------
(* Flow control. *)

\* Every step but these leaves the robot thread, the topic, what was received
\* and what is owed as they are.
Quiet == UNCHANGED <<robot, rx, owed, topicVars>>
Telling(c) == Login(c) \/ Detect(c) \/ Chatter(c)
LEMMA Steps ==
    ASSUME [Next]_vars
    PROVE  \/ Quiet \/ Crash \/ LoginRead \/ Place \/ ConvRead \/ ConvSend \/ Robot
           \/ \E c \in Conn : Telling(c) \/ Respond(c)
<1> USE DEF brokerVars, netVars, workerVars
<1>1. CASE Broker
    BY <1>1
    DEF Broker, EpollWait, Accept, LoginCall, Authenticate, Watch, WorkerEvent, Join0, JoinConv,
        JoinRobot, Join2, JoinThread, JoinUninitialised, Quiet
<1>2. CASE Conveyer
    BY <1>2 DEF Conveyer, ConvOpen, ConvClose, ConvReply, Quiet
<1>3. CASE \E c \in Conn : Worker(c)
    BY <1>3 DEF Worker, Connect, Telling, Quiet
<1>4. CASE Fault
    BY <1>4 DEF Fault, SigPipe, Kill, Restart, Disconnect, Telling, Quiet
<1>5. CASE UNCHANGED vars
    BY <1>5 DEF vars, Quiet
<1> QED
    BY <1>1, <1>2, <1>3, <1>4, <1>5 DEF Next

\* What is received only shrinks, and no answer comes in, when a thread reads or
\* a worker writes something else.
LEMMA Flows ==
    ASSUME TypeOK, LoginRead \/ ConvRead \/ ReadPdu \/ Quiet \/ Place \/ ConvSend, ~Crash
    PROVE  \A c \in Conn : Unread(c)' \subseteq Unread(c)
<1>1. ASSUME NEW c \in Conn, rx'[c] = rx[c] \/ rx'[c] = <<>>
      PROVE  Unread(c)' \subseteq Unread(c)
    BY <1>1, EmptySeq DEF Unread
<1>2. CASE Quiet \/ Place \/ ConvSend
    BY <1>1, <1>2 DEF Quiet, Place, ConvSend, netVars
<1>3. CASE LoginRead \/ ConvRead \/ ReadPdu
    BY <1>1, <1>3 DEF LoginRead, ConvRead, ReadPdu, TypeOK
<1> QED
    BY <1>2, <1>3

LEMMA WriteUnread ==
    ASSUME TypeOK, NEW c \in Conn, NEW m \in Message, Write(c, m)
    PROVE  /\ \A d \in Conn \ {c} : Unread(d)' = Unread(d)
           /\ m.kind \notin {"READY", "cut"} => Unread(c)' = Unread(c)
           /\ m.kind \in {"READY", "cut"} => Unread(c)' = Unread(c) \cup {Len(rx[c]) + 1}
<1>1. rx[c] \in Seq(Message) /\ rx'[c] = Append(rx[c], m)
    BY DEF Write, TypeOK
<1>2. /\ DOMAIN rx[c] = 1..Len(rx[c]) /\ DOMAIN rx'[c] = 1..(Len(rx[c]) + 1)
      /\ \A i \in 1..Len(rx[c]) : rx'[c][i] = rx[c][i]
      /\ rx'[c][Len(rx[c]) + 1] = m
      /\ Len(rx[c]) \in Nat
    BY <1>1, AppendProperties, LenProperties
<1>3. \A d \in Conn \ {c} : rx'[d] = rx[d]
    BY DEF Write, TypeOK
<1>4. m.kind \notin {"READY", "cut"} => Unread(c)' = Unread(c)
    BY <1>2 DEF Unread
<1>5. m.kind \in {"READY", "cut"} => Unread(c)' = Unread(c) \cup {Len(rx[c]) + 1}
    BY <1>2 DEF Unread
<1> QED
    BY <1>3, <1>4, <1>5 DEF Unread

\* Where the robot thread goes when it drops its task, reads a PDU, or moves on.
LEMMA RobotGoes ==
    ASSUME TypeOK
    PROVE  /\ Drop => /\ robot'.pc = "loop" /\ robot'.task = NoTask
                      /\ UNCHANGED <<robot.slot, robot.isFirst>>
           /\ \A c : ReadPduOf(c) => /\ robot'.pc = "reading" /\ robot'.conn = c
                                     /\ UNCHANGED <<robot.slot, robot.isFirst, robot.task>>
           /\ \A pc : robot' = [robot EXCEPT !.pc = pc] =>
                          /\ robot'.pc = pc
                          /\ UNCHANGED <<robot.slot, robot.isFirst, robot.task>>
BY DEF Drop, ReadPduOf, TypeOK, RobotType

\* The robot thread comes to read a PDU by Consider, and goes on reading the connection it
\* read, which is of this process.
LEMMA ReadsItsOwn ==
    ASSUME TypeOK, ConnectionsMade, RobotPlaced, [Next]_vars, robot'.pc = "reading"
    PROVE  robot'.conn \in Conn /\ Ours(robot'.conn) /\ ~Crash
<1> USE DEF brokerVars, topicVars, netVars, workerVars
<1>1. ~Crash
    BY DEF Crash, NoRobot
<1>2. CASE UNCHANGED robot
    BY <1>1, <1>2 DEF RobotPlaced
<1>3. CASE Place
    <2>1. robot'.pc = robot.pc /\ robot'.conn = robot.conn
        BY <1>3 DEF Place, TypeOK, RobotType
    <2> QED
        BY <1>1, <2>1 DEF RobotPlaced
<1>4. CASE Consider
    <2>1. robot.pc = "got" /\ fdtab[robot.slot] \in Conn /\ robot'.conn = fdtab[robot.slot]
        BY <1>4, RobotGoes DEF Consider
    <2>2. robot.slot \in Fd
        BY <2>1 DEF RobotPlaced, TypeOK, RobotType
    <2> QED
        BY <1>1, <2>1, <2>2 DEF ConnectionsMade
<1>5. CASE Robot /\ ~Consider
    BY <1>5, RobotGoes
    DEF Robot, RobotOpen, ReceiveCall, Receive, ReadPdu, SendCommand, TypeOK, RobotType
<1>6. CASE LoginRead \/ ConvRead \/ ConvSend \/ Quiet
    BY <1>1, <1>2, <1>6 DEF LoginRead, ConvRead, ConvSend, Quiet
<1>7. CASE \E c \in Conn : Telling(c) \/ Respond(c)
    BY <1>2, <1>7 DEF Telling, Login, Detect, Chatter, Respond, Write
<1> QED
    BY <1>1, <1>3, <1>4, <1>5, <1>6, <1>7, Steps

LEMMA NextRobotPlaced == TypeOK /\ ConnectionsMade /\ RobotPlaced /\ [Next]_vars => RobotPlaced'
<1> SUFFICES ASSUME TypeOK, ConnectionsMade, RobotPlaced, [Next]_vars
             PROVE  RobotPlaced'
    OBVIOUS
<1> USE DEF brokerVars, topicVars, netVars, workerVars
<1> DEFINE Serving == {"login", "reading", "auth", "place", "watch"}
           AtBroker == (broker.pc \in Serving => broker.fd # 0)
           AtSlot == (robot.slot = 0 => robot.pc = "off")
           Reads == (robot.pc = "reading" => robot.conn \in Conn /\ Ours(robot.conn))
<1>1. CASE Crash
    BY <1>1 DEF Crash, IdleBroker, NoRobot, RobotPlaced
<1>2. Reads'
    <2>1. SUFFICES ASSUME robot'.pc = "reading"
                   PROVE  (robot.conn \in Conn /\ Ours(robot.conn))'
        OBVIOUS
    <2>2. robot'.conn \in Conn /\ Ours(robot'.conn) /\ ~Crash
        BY <2>1, ReadsItsOwn
    <2>3. \A c \in Conn : Ours(c) /\ ~Crash => Ours(c)'
        BY Lives
    <2> QED
        BY <2>2, <2>3 DEF Ours
<1>3. SUFFICES ASSUME ~Crash
               PROVE  AtBroker' /\ AtSlot'
    BY <1>1, <1>2 DEF RobotPlaced
<1>4. AtBroker /\ AtSlot
    BY DEF RobotPlaced
<1>5. CASE Broker
    <2>1. ASSUME NEW rest, NextEvent(rest)
          PROVE  AtBroker'
        BY <2>1 DEF NextEvent, IdleBroker
    <2>2. ASSUME NEW pc, BrokerGoes(pc), pc \in Serving => broker.pc \in Serving
          PROVE  AtBroker'
        BY <1>4, <2>2 DEF BrokerGoes, TypeOK, BrokerType
    <2>3. CASE Accept
        <3>1. CASE \E fd \in Lowest : broker' = [broker EXCEPT !.pc = "login", !.fd = fd]
            <4>1. AtBroker'
                BY <3>1 DEF Lowest, Free, Fd, TypeOK, BrokerType
            <4> QED
                BY <1>4, <2>3, <4>1 DEF Accept
        <3> QED
            BY <1>4, <2>1, <2>3, <3>1 DEF Accept
    <2>4. CASE LoginCall \/ LoginRead \/ WorkerEvent
        BY <1>3, <1>4, <2>4 DEF LoginCall, LoginRead, WorkerEvent, TypeOK, BrokerType
    <2>5. CASE Place
        <3>1. AtBroker'
            BY <2>2, <2>5 DEF Place
        <3>2. broker.fd # 0
            BY <1>4, <2>5 DEF Place
        <3>3. AtSlot'
            BY <1>4, <2>5, <3>2 DEF Place, TypeOK, RobotType
        <3> QED
            BY <3>1, <3>3
    <2>6. CASE EpollWait \/ Authenticate \/ Watch \/ Join0 \/ JoinConv \/ JoinRobot \/ Join2
        <3>1. AtBroker'
            BY <1>3, <2>1, <2>2, <2>6
            DEF EpollWait, Authenticate, Watch, Join0, JoinConv, JoinRobot, Join2, JoinThread,
                JoinUninitialised
        <3>2. UNCHANGED robot
            BY <1>3, <2>6
            DEF EpollWait, Authenticate, Watch, Join0, JoinConv, JoinRobot, Join2, JoinThread,
                JoinUninitialised
        <3> QED
            BY <1>4, <3>1, <3>2
    <2> QED
        BY <1>5, <2>3, <2>4, <2>5, <2>6 DEF Broker
<1>6. CASE Robot
    <2>1. UNCHANGED broker
        BY <1>6 DEF Robot, RobotOpen, ReceiveCall, Receive, Consider, ReadPdu, SendCommand
    <2>2. robot.pc # "off"
        BY <1>6 DEF Robot, RobotOpen, ReceiveCall, Receive, Consider, ReadPdu, SendCommand
    <2>3. robot'.slot = robot.slot
        <3>1. CASE Consider
            BY <3>1, RobotGoes DEF Consider
        <3>2. CASE ~Consider
            BY <1>6, <3>2, RobotGoes
            DEF Robot, RobotOpen, ReceiveCall, Receive, ReadPdu, SendCommand, TypeOK, RobotType
        <3> QED
            BY <3>1, <3>2
    <2> QED
        BY <1>4, <2>1, <2>2, <2>3
<1>7. CASE UNCHANGED <<broker, robot>>
    BY <1>4, <1>7
<1>8. CASE Restart
    BY <1>4, <1>8 DEF Restart, IdleBroker
<1>9. CASE Conveyer
    BY <1>7, <1>9 DEF Conveyer, ConvOpen, ConvRead, ConvClose, ConvSend, ConvReply
<1>10. CASE (\E c \in Conn : Worker(c)) \/ Fault
    BY <1>3, <1>7, <1>8, <1>10
    DEF Worker, Connect, Login, Detect, Write, Respond, Fault, SigPipe, Kill, Disconnect,
        Chatter
<1> QED
    BY <1>5, <1>6, <1>7, <1>9, <1>10 DEF Next, vars

\* Where no step gives a permit out, the one permit of each process stays where it is.
\* A connection that is made is of this process and has none yet.
LEMMA PermitsStay ==
    ASSUME TypeOK, ConnectionsMade, FlowInv, [Next]_vars,
           \A c \in Conn : Unread(c)' \subseteq Unread(c) /\ owed'[c] = owed[c]
    PROVE  /\ robot.isFirst \/ robot.pc = "again" => \A c \in Conn : Ours(c)' => ~PermitAt(c)'
           /\ \A c \in Conn : owed'[c] <= 1 /\ (owed'[c] > 0 => Unread(c)' = {})
           /\ \A c \in Conn : \A i, j \in Unread(c)' : i = j
           /\ \A c, d \in Conn : PermitAt(c)' /\ PermitAt(d)' /\ life'[c] = life'[d] => c = d
<1>1. \A c \in Conn : PermitAt(c)' => PermitAt(c) /\ life'[c] = life[c] /\ (Ours(c)' => Ours(c))
    <2>1. \A c \in Conn : PermitAt(c)' => PermitAt(c)
        BY DEF PermitAt
    <2>2. \A c \in Conn : PermitAt(c) => peer[c] # "none"
        BY DEF ConnectionsMade
    <2> QED
        BY <2>1, <2>2, Lives
<1> QED
    BY <1>1 DEF FlowInv

\* Of the robot thread's own steps only two touch the permit: it takes it from
\* the connection when it reads a READY, and gives it out with a COMMAND.
LEMMA RobotFlowInv ==
    ASSUME TypeOK, ConnectionsMade, RobotPlaced, FlowInv, [Next]_vars, Robot
    PROVE  FlowInv'
<1> USE DEF brokerVars, topicVars, netVars, workerVars
<1>0. UNCHANGED <<life, restarts, broker>>
    BY DEF Robot, RobotOpen, ReceiveCall, Receive, Consider, ReadPdu, SendCommand
<1>1. CASE RobotOpen \/ ReceiveCall \/ Receive \/ Consider
    <2>1. UNCHANGED <<rx, owed>>
        BY <1>1 DEF RobotOpen, ReceiveCall, Receive, Consider
    <2>2. robot.pc \notin {"first", "reading", "again"}
        BY <1>1 DEF RobotOpen, ReceiveCall, Receive, Consider
    <2>3. /\ robot'.isFirst = robot.isFirst /\ robot'.pc # "again"
          /\ robot'.pc = "first" => robot.isFirst
          /\ robot'.pc = "reading" => ~robot.isFirst
        <3>1. CASE Consider
            BY <3>1, RobotGoes DEF Consider
        <3>2. CASE RobotOpen \/ ReceiveCall \/ Receive
            BY <3>2 DEF RobotOpen, ReceiveCall, Receive, TypeOK, RobotType
        <3> QED
            BY <1>1, <3>1, <3>2
    <2>4. \A c \in Conn : Unread(c)' = Unread(c) /\ owed'[c] = owed[c]
        BY <2>1 DEF Unread
    <2> QED
        BY <2>2, <2>3, <2>4, PermitsStay DEF FlowInv
<1>2. CASE ReadPdu
    <2>0. PICK c \in Conn : c = robot.conn /\ Ours(c)
        BY <1>2 DEF ReadPdu, RobotPlaced
    <2>1. ~robot.isFirst /\ UNCHANGED owed
        BY <1>2 DEF ReadPdu, FlowInv
    <2>2. rx' = [rx EXCEPT ![c] = <<>>]
        BY <1>2, <2>0 DEF ReadPdu
    <2>3. \A d \in Conn : Unread(d)' \subseteq Unread(d) /\ owed'[d] = owed[d]
        BY <2>1, <2>2, EmptySeq DEF Unread, TypeOK
    <2>4. robot'.isFirst = robot.isFirst /\ robot'.pc \in {"again", "loop"}
        BY <1>2, RobotGoes DEF ReadPdu, TypeOK, RobotType
    <2>5. CASE robot'.pc = "again"
        <3>1. rx[c] # <<>> /\ TypeIsReady(c)
            BY <1>2, <2>0, <2>5, RobotGoes DEF ReadPdu, TypeOK, RobotType
        <3>2. Head(rx[c]).kind \in {"READY", "cut"}
            BY <3>1 DEF TypeIsReady
        <3>3. 1 \in Unread(c)
            BY <3>1, <3>2, LenProperties, EmptySeq DEF Unread, TypeOK
        <3>4. ~PermitAt(c)'
            <4>1. owed[c] \in Nat /\ ~(owed[c] > 0)
                BY <3>3 DEF FlowInv, TypeOK
            <4>2. rx'[c] = <<>>
                BY <2>2 DEF TypeOK
            <4>3. Unread(c)' = {}
                BY <4>2 DEF Unread
            <4> QED
                BY <2>3, <4>1, <4>3 DEF PermitAt
        <3>5. \A d \in Conn \ {c} : Ours(d) => ~PermitAt(d)
            BY <2>0, <3>3 DEF FlowInv, PermitAt, Ours
        <3>6. \A d \in Conn : Ours(d)' => ~PermitAt(d)'
            BY <1>0, <2>3, <3>4, <3>5 DEF PermitAt, Ours
        <3> QED
            BY <2>1, <2>3, <2>4, <2>5, <3>6, PermitsStay DEF FlowInv
    <2>6. CASE robot'.pc = "loop"
        BY <2>1, <2>3, <2>4, <2>6, PermitsStay DEF FlowInv
    <2> QED
        BY <2>4, <2>5, <2>6
<1>3. CASE SendCommand
    <2>1. \A d \in Conn : Ours(d) => ~PermitAt(d)
        BY <1>3 DEF SendCommand, FlowInv
    <2>2. robot'.isFirst = FALSE /\ robot'.pc = "loop"
        BY <1>3 DEF SendCommand, TypeOK, RobotType
    <2>3. /\ \A d \in Conn : Unread(d)' = Unread(d)
          /\ UNCHANGED life
        BY <1>3 DEF SendCommand, Unread
    <2>4. \A d \in Conn : owed'[d] = owed[d]
                             \/ (Ours(d) /\ d = fdtab[robot.slot] /\ owed'[d] = 1)
        <3>1. \A d \in Conn : owed'[d] = IF fdtab[robot.slot] = d /\ peer[d] = "up"
                                             THEN owed[d] + 1 ELSE owed[d]
            BY <1>3 DEF SendCommand
        <3>2. robot.slot \in Fd
            BY <1>3 DEF SendCommand, RobotPlaced, TypeOK, RobotType
        <3>3. fdtab[robot.slot] \in Conn => Ours(fdtab[robot.slot])
            BY <3>2 DEF ConnectionsMade
        <3>4. \A d \in Conn : owed[d] \in Nat /\ (Ours(d) => owed[d] = 0)
            BY <2>1 DEF PermitAt, TypeOK
        <3> QED
            BY <3>1, <3>3, <3>4
    <2>5. \A d \in Conn : PermitAt(d)' => PermitAt(d) \/ (Ours(d) /\ d = fdtab[robot.slot])
        BY <2>3, <2>4 DEF PermitAt
    <2>6. \A c, d \in Conn : PermitAt(c)' /\ PermitAt(d)' /\ life[c] = life[d] => c = d
        <3>1. \A c, d \in Conn : Ours(c) /\ life[c] = life[d] => Ours(d)
            BY DEF Ours
        <3> QED
            BY <2>1, <2>5, <3>1 DEF FlowInv
    <2>7. \A d \in Conn : owed'[d] <= 1 /\ (owed'[d] > 0 => Unread(d)' = {})
        BY <2>1, <2>3, <2>4 DEF FlowInv, PermitAt
    <2> QED
        BY <2>2, <2>3, <2>6, <2>7 DEF FlowInv
<1> QED
    BY <1>1, <1>2, <1>3 DEF Robot

LEMMA TellingWrites ==
    ASSUME TypeOK, NEW c \in Conn, Telling(c)
    PROVE  \E m \in Message : m.kind \notin {"READY", "cut"} /\ Write(c, m) /\ UNCHANGED owed
<1>1. CASE Login(c)
    <2>1. Msg("login", NoTask) \in Message
        BY ConstantTypes DEF Msg, Message
    <2> QED
        BY <1>1, <2>1 DEF Login, Msg
<1>2. CASE Detect(c)
    <2>1. PICK d \in BOOLEAN : Write(c, Msg("line", [detect |-> d, item |-> lines + 1]))
        BY <1>2 DEF Detect
    <2>2. lines + 1 \in 0..MaxLines
        BY <1>2, ManagerAssumption DEF Detect, TypeOK
    <2>3. Msg("line", [detect |-> d, item |-> lines + 1]) \in Message
        BY <2>2 DEF Msg, Message, Task
    <2> QED
        BY <1>2, <2>1, <2>3 DEF Detect, Msg
<1>3. CASE Chatter(c)
    <2>1. Msg("other", NoTask) \in Message
        BY ConstantTypes DEF Msg, Message
    <2> QED
        BY <1>3, <2>1 DEF Chatter, Msg
<1> QED
    BY <1>1, <1>2, <1>3 DEF Telling

LEMMA NextFlowInv ==
    ASSUME TypeOK, ConnectionsMade, RobotPlaced, FlowInv, [Next]_vars
    PROVE  FlowInv'
<1> USE DEF brokerVars, topicVars, netVars, workerVars
<1>1. CASE Crash
    <2>1. broker'.pc = "dead" /\ robot'.isFirst /\ robot'.pc = "off"
        BY <1>1 DEF Crash, IdleBroker, NoRobot
    <2>2. \A c \in Conn : Unread(c)' = {} /\ owed'[c] = owed[c]
        BY <1>1 DEF Crash, Unread
    <2>3. \A c \in Conn : ~Ours(c)'
        BY <2>1 DEF Ours
    <2> QED
        BY <2>1, <2>2, <2>3, PermitsStay DEF FlowInv
<1>2. CASE (LoginRead \/ ConvRead \/ Quiet \/ Place \/ ConvSend) /\ ~Crash
    <2>1. \A c \in Conn : Unread(c)' \subseteq Unread(c)
        BY <1>2, Flows
    <2>2. UNCHANGED owed
        BY <1>2 DEF LoginRead, ConvRead, Quiet, Place, ConvSend
    <2>3. \/ robot' = robot
          \/ robot'.pc = "open" /\ robot'.isFirst = robot.isFirst
        BY <1>2 DEF LoginRead, ConvRead, Quiet, Place, ConvSend, TypeOK, RobotType
    <2> QED
        BY <2>1, <2>2, <2>3, PermitsStay DEF FlowInv
<1>3. ASSUME NEW c \in Conn, Telling(c)
      PROVE  FlowInv'
    <2>1. PICK m \in Message : m.kind \notin {"READY", "cut"} /\ Write(c, m) /\ UNCHANGED owed
        BY <1>3, TellingWrites
    <2>2. \A d \in Conn : Unread(d)' = Unread(d)
        BY <2>1, WriteUnread
    <2>3. UNCHANGED robot
        BY <2>1 DEF Write
    <2> QED
        BY <2>1, <2>2, <2>3, PermitsStay DEF FlowInv
<1>4. ASSUME NEW c \in Conn, Respond(c)
      PROVE  FlowInv'
    <2>1. /\ owed[c] = 1 /\ Unread(c) = {} /\ PermitAt(c)
          /\ owed' = [owed EXCEPT ![c] = 0]
        <3>1. owed[c] > 0 /\ owed[c] \in Nat /\ owed[c] <= 1
            BY <1>4 DEF Respond, FlowInv, TypeOK
        <3>2. Unread(c) = {}
            BY <3>1 DEF FlowInv
        <3>3. owed' = [owed EXCEPT ![c] = owed[c] - 1]
            BY <1>4 DEF Respond
        <3>4. owed[c] = 1 /\ owed[c] - 1 = 0
            BY <3>1
        <3>5. owed' = [owed EXCEPT ![c] = 0]
            BY <3>3, <3>4
        <3> QED
            BY <3>1, <3>2, <3>4, <3>5 DEF PermitAt
    <2>2. UNCHANGED <<robot, broker, life, restarts>>
        BY <1>4 DEF Respond, Write
    <2>3. /\ \E n : Unread(c)' \subseteq {n}
          /\ \A d \in Conn \ {c} : Unread(d)' = Unread(d)
        <3>1. CASE UNCHANGED rx
            BY <2>1, <3>1 DEF Unread
        <3>2. ASSUME NEW k \in Answers, Write(c, Msg(k, NoTask))
              PROVE  /\ Unread(c)' = {Len(rx[c]) + 1}
                     /\ \A d \in Conn \ {c} : Unread(d)' = Unread(d)
            BY <2>1, <3>2, AnswerIs, WriteUnread
        <3> QED
            BY <1>4, <3>1, <3>2 DEF Respond
    <2>4. \A d \in Conn \ {c} : Unread(d)' = Unread(d) /\ owed'[d] = owed[d]
        BY <2>1, <2>3 DEF TypeOK
    <2>5. owed'[c] = 0
        BY <2>1 DEF TypeOK
    <2>6. \A d \in Conn : PermitAt(d)' => PermitAt(d)
        BY <2>1, <2>4 DEF PermitAt
    <2>7. robot'.isFirst \/ robot'.pc = "again" => \A d \in Conn : Ours(d)' => ~PermitAt(d)'
        BY <2>2, <2>6 DEF FlowInv, Ours
    <2>8. \A d \in Conn : owed'[d] <= 1 /\ (owed'[d] > 0 => Unread(d)' = {})
        BY <2>4, <2>5 DEF FlowInv
    <2>9. \A d \in Conn : \A i, j \in Unread(d)' : i = j
        BY <2>3, <2>4 DEF FlowInv
    <2>10. \A d, e \in Conn : PermitAt(d)' /\ PermitAt(e)' /\ life'[d] = life'[e] => d = e
        BY <2>2, <2>6 DEF FlowInv
    <2> QED
        BY <2>2, <2>7, <2>8, <2>9, <2>10 DEF FlowInv
<1> QED
    BY <1>1, <1>2, <1>3, <1>4, RobotFlowInv, Steps

-----------------------------------------------------------------------------
(* The topic. *)

LEMMA CommandPositions ==
    ASSUME TypeOK
    PROVE  \A j \in DOMAIN commands : commands[j].pos \in Nat
<1>1. commands \in Seq([pos : Nat, task : Task])
    BY DEF TypeOK
<1>2. \A j \in DOMAIN commands : commands[j] \in [pos : Nat, task : Task]
    BY <1>1, ElementOfSeq, LenProperties
<1> QED
    BY <1>2

\* The robot thread's step from a task to its COMMAND.
LEMMA RobotOrderInv == TypeOK /\ OrderInv /\ Robot => OrderInv'
<1> SUFFICES ASSUME TypeOK, OrderInv, Robot
             PROVE  OrderInv'
    OBVIOUS
<1> USE DEF topicVars, netVars, workerVars
<1>1. CASE RobotOpen \/ ReceiveCall \/ Consider \/ ReadPdu
    <2>1. UNCHANGED topicVars
        BY <1>1 DEF RobotOpen, ReceiveCall, Consider, ReadPdu
    <2>2. \/ robot'.pc \in {"loop", "receive", "done"}
          \/ robot'.task = robot.task /\ robot.pc = "got" /\ robot.task.detect
          \/ robot'.task = robot.task /\ robot.pc = "reading"
        <3>1. CASE RobotOpen \/ ReceiveCall
            BY <3>1 DEF RobotOpen, ReceiveCall, TypeOK, RobotType
        <3>2. CASE Consider
            BY <3>2, RobotGoes DEF Consider
        <3>3. CASE ReadPdu
            BY <3>3, RobotGoes DEF ReadPdu, TypeOK, RobotType
        <3> QED
            BY <1>1, <3>1, <3>2, <3>3
    <2> QED
        BY <2>1, <2>2 DEF OrderInv
<1>2. CASE Receive
    <2>1. /\ mq # <<>> /\ mq' = Tail(mq) /\ taken' = taken + 1
          /\ UNCHANGED <<log, commands>>
          /\ robot'.pc = "got" /\ robot'.task = Head(mq)
        BY <1>2 DEF Receive, TypeOK, RobotType
    <2>2. /\ Len(mq) \in Nat \ {0} /\ Len(mq') = Len(mq) - 1
          /\ \A i \in 1..Len(mq') : mq'[i] = mq[i + 1]
          /\ Head(mq) = mq[1]
        BY <2>1, HeadTailProperties, EmptySeq DEF TypeOK
    <2>3. taken \in Nat /\ Len(log) \in Nat
        BY LenProperties DEF TypeOK
    <2>4. Len(log') = taken' + Len(mq') /\ Len(mq') <= MqMaxMsg
        BY <2>1, <2>2, <2>3, ManagerAssumption, SMTT(30) DEF OrderInv
    <2>5. \A i \in 1..Len(mq') : mq'[i] = log'[taken' + i]
        <3> SUFFICES ASSUME NEW i \in 1..Len(mq')
                     PROVE  mq'[i] = log'[taken' + i]
            OBVIOUS
        <3>1. mq'[i] = mq[i + 1] /\ i + 1 \in 1..Len(mq)
            BY <2>2
        <3>2. mq[i + 1] = log[taken + (i + 1)]
            BY <3>1 DEF OrderInv
        <3>3. taken + (i + 1) = (taken + 1) + i
            BY <2>3
        <3> QED
            BY <2>1, <3>1, <3>2, <3>3
    <2>6. taken' > 0 /\ robot'.task = log'[taken']
        BY <2>1, <2>2, <2>3 DEF OrderInv
    <2>7. \A j \in DOMAIN commands' : commands'[j].pos < taken'
        <3> SUFFICES ASSUME NEW j \in DOMAIN commands
                     PROVE  commands[j].pos < taken + 1
            BY <2>1
        <3>1. commands[j].pos \in Nat
            BY CommandPositions
        <3>2. commands[j].pos <= taken
            BY DEF OrderInv
        <3> QED
            BY <2>3, <3>1, <3>2
    <2>8. \A j \in DOMAIN commands' : commands'[j].pos <= taken'
        BY <2>1, <2>3, <2>7, CommandPositions
    <2>9. robot'.pc \notin {"first", "reading", "again"}
        BY <2>1
    <2> QED
        BY <2>4, <2>5, <2>6, <2>7, <2>8, <2>9 DEF OrderInv
<1>3. CASE SendCommand
    <2>1. /\ commands' = Append(commands, [pos |-> taken, task |-> robot.task])
          /\ UNCHANGED <<mq, log, taken>>
          /\ robot'.pc = "loop"
        BY <1>3 DEF SendCommand, TypeOK, RobotType
    <2>2. [pos |-> taken, task |-> robot.task] \in [pos : Nat, task : Task]
        BY DEF TypeOK, RobotType
    <2>3. \A j \in DOMAIN commands' : commands'[j].pos <= taken
        <3>1. commands \in Seq([pos : Nat, task : Task]) /\ taken \in Nat
            BY DEF TypeOK
        <3>2. /\ DOMAIN commands' = 1..(Len(commands) + 1) /\ DOMAIN commands = 1..Len(commands)
              /\ \A j \in 1..Len(commands) : commands'[j] = commands[j]
              /\ commands'[Len(commands) + 1] = [pos |-> taken, task |-> robot.task]
              /\ Len(commands) \in Nat
            BY <2>1, <2>2, <3>1, AppendProperties, LenProperties
        <3>3. \A j \in DOMAIN commands : commands[j].pos <= taken
            BY DEF OrderInv
        <3> QED
            BY <3>1, <3>2, <3>3
    <2> QED
        BY <2>1, <2>3 DEF OrderInv
<1> QED
    BY <1>1, <1>2, <1>3 DEF Robot

LEMMA NextOrderInv == TypeOK /\ RobotPlaced /\ OrderInv /\ [Next]_vars => OrderInv'
<1> SUFFICES ASSUME TypeOK, RobotPlaced, OrderInv, [Next]_vars
             PROVE  OrderInv'
    OBVIOUS
<1> USE DEF topicVars, netVars, workerVars
<1>1. CASE Crash
    BY <1>1 DEF Crash, NoRobot, OrderInv
<1>2. CASE UNCHANGED <<robot, topicVars>>
    BY <1>2 DEF OrderInv
<1>3. CASE Place
    <2>1. robot' = robot \/ robot'.pc = "open"
        BY <1>3 DEF Place, TypeOK, RobotType
    <2>2. UNCHANGED topicVars
        BY <1>3 DEF Place
    <2> QED
        BY <2>1, <2>2 DEF OrderInv
<1>4. CASE ConvSend
    <2>1. CASE UNCHANGED <<mq, log>>
        BY <1>2, <1>4, <2>1 DEF ConvSend
    <2>2. CASE /\ Len(mq) < MqMaxMsg
               /\ mq' = Append(mq, conv.task) /\ log' = Append(log, conv.task)
        <3>1. conv.task \in Task /\ taken \in Nat
            BY DEF TypeOK, ConvType
        <3>2. /\ Len(mq') = Len(mq) + 1 /\ mq'[Len(mq) + 1] = conv.task
              /\ \A i \in 1..Len(mq) : mq'[i] = mq[i]
              /\ Len(mq) \in Nat
            BY <2>2, <3>1, AppendProperties, LenProperties DEF TypeOK
        <3>3. /\ Len(log') = Len(log) + 1 /\ log'[Len(log) + 1] = conv.task
              /\ \A i \in 1..Len(log) : log'[i] = log[i]
              /\ Len(log) \in Nat
            BY <2>2, <3>1, AppendProperties, LenProperties DEF TypeOK
        <3>4. UNCHANGED <<robot, taken, commands>>
            BY <1>4 DEF ConvSend
        <3>5. Len(log') = taken' + Len(mq') /\ Len(mq') <= MqMaxMsg
            BY <2>2, <3>1, <3>2, <3>3, <3>4, ManagerAssumption DEF OrderInv
        <3>6. \A i \in 1..Len(mq') : mq'[i] = log'[taken' + i]
            <4> SUFFICES ASSUME NEW i \in 1..Len(mq')
                         PROVE  mq'[i] = log'[taken + i]
                BY <3>4
            <4>1. CASE i = Len(mq) + 1
                <5>1. taken + i = Len(log) + 1
                    BY <3>1, <3>2, <4>1 DEF OrderInv
                <5> QED
                    BY <3>2, <3>3, <4>1, <5>1
            <4>2. CASE i \in 1..Len(mq)
                <5>1. taken + i \in 1..Len(log)
                    BY <3>1, <3>2, <4>2 DEF OrderInv
                <5>2. mq[i] = log[taken + i]
                    BY <4>2 DEF OrderInv
                <5> QED
                    BY <3>2, <3>3, <4>2, <5>1, <5>2
            <4> QED
                BY <3>2, <4>1, <4>2
        <3>7. taken > 0 => log'[taken] = log[taken]
            BY <3>1, <3>2, <3>3 DEF OrderInv
        <3> QED
            BY <3>4, <3>5, <3>6, <3>7 DEF OrderInv
    <2> QED
        BY <1>4, <2>1, <2>2 DEF ConvSend
<1>5. CASE (LoginRead \/ ConvRead) /\ ~Crash
    BY <1>2, <1>5 DEF LoginRead, ConvRead
<1>6. ASSUME NEW c \in Conn, Telling(c) \/ Respond(c)
      PROVE  OrderInv'
    BY <1>2, <1>6 DEF Telling, Login, Detect, Chatter, Respond, Write
<1>7. CASE Quiet
    BY <1>2, <1>7 DEF Quiet
<1> QED
    BY <1>1, <1>3, <1>4, <1>5, <1>6, <1>7, RobotOrderInv, Steps

-----------------------------------------------------------------------------
(* Slots. *)

\* Which device a connection is of does not change once it is made, and a worker
\* that hung up does not come back on it.
LEMMA PeersStay ==
    ASSUME TypeOK, [Next]_vars, NEW c \in Conn, peer[c] # "none"
    PROVE  cid'[c] = cid[c] /\ peer'[c] # "none" /\ (peer[c] = "down" => peer'[c] = "down")
<1> USE DEF brokerVars, topicVars, netVars, workerVars
<1>1. CASE Crash
    BY <1>1 DEF Crash, TypeOK
<1>2. CASE UNCHANGED <<cid, peer>>
    BY <1>2
<1>3. ASSUME NEW d \in Conn, NEW id \in Ids, Connect(d, id)
      PROVE  cid'[c] = cid[c] /\ peer'[c] # "none" /\ (peer[c] = "down" => peer'[c] = "down")
    BY <1>3 DEF Connect, TypeOK
<1>4. ASSUME NEW d \in Conn, Disconnect(d)
      PROVE  cid'[c] = cid[c] /\ peer'[c] # "none" /\ (peer[c] = "down" => peer'[c] = "down")
    BY <1>4 DEF Disconnect, TypeOK
<1>5. CASE Broker
    BY <1>1, <1>2, <1>5
    DEF Broker, EpollWait, Accept, LoginCall, LoginRead, Authenticate, Place, Watch, WorkerEvent,
        Join0, JoinConv, JoinRobot, Join2, JoinThread, JoinUninitialised
<1>6. CASE Conveyer
    BY <1>2, <1>6 DEF Conveyer, ConvOpen, ConvRead, ConvClose, ConvSend, ConvReply
<1>7. CASE Robot
    BY <1>2, <1>7 DEF Robot, RobotOpen, ReceiveCall, Receive, Consider, ReadPdu, SendCommand
<1>8. CASE (\E d \in Conn : Worker(d)) \/ Fault
    BY <1>1, <1>2, <1>3, <1>4, <1>8
    DEF Worker, Login, Detect, Write, Respond, Fault, SigPipe, Kill, Restart, Chatter
<1>9. CASE UNCHANGED vars
    BY <1>2, <1>9 DEF vars
<1> QED
    BY <1>5, <1>6, <1>7, <1>8, <1>9 DEF Next

\* A connection that is not made yet gets no permit.
LEMMA PermitsOfMade ==
    ASSUME TypeOK, [Next]_vars, NEW c \in Conn, peer[c] = "none", ~PermitAt(c)
    PROVE  ~PermitAt(c)'
<1> USE DEF brokerVars, topicVars, netVars, workerVars
<1>1. CASE Crash
    BY <1>1 DEF Crash, PermitAt, Unread
<1>2. CASE (LoginRead \/ ConvRead \/ ReadPdu \/ Quiet \/ Place \/ ConvSend) /\ ~Crash
    <2>1. Unread(c)' \subseteq Unread(c)
        BY <1>2, Flows
    <2>2. UNCHANGED owed
        BY <1>2 DEF LoginRead, ConvRead, ReadPdu, Quiet, Place, ConvSend
    <2> QED
        BY <2>1, <2>2 DEF PermitAt
<1>3. CASE Robot /\ ~ReadPdu
    <2>1. UNCHANGED rx /\ owed'[c] = owed[c]
        BY <1>3 DEF Robot, RobotOpen, ReceiveCall, Receive, Consider, SendCommand
    <2> QED
        BY <2>1 DEF PermitAt, Unread
<1>4. ASSUME NEW d \in Conn, Telling(d) \/ Respond(d)
      PROVE  ~PermitAt(c)'
    <2>1. rx'[c] = rx[c]
        BY <1>4 DEF Telling, Login, Detect, Chatter, Respond, Write, TypeOK
    <2>2. owed'[c] = owed[c]
        BY <1>4 DEF Telling, Login, Detect, Chatter, Respond, TypeOK, PermitAt
    <2> QED
        BY <2>1, <2>2 DEF PermitAt, Unread
<1> QED
    BY <1>1, <1>2, <1>3, <1>4, Steps

\* No action but these touches the descriptor table and the backlog: what they name
\* was made for this process and stays so.
Made(c) == peer[c] # "none" /\ Ours(c)
Named == /\ \A fd \in Fd : fdtab[fd] \in Conn => Made(fdtab[fd])
         /\ \A i \in DOMAIN backlog : Made(backlog[i])
LEMMA NextNamed ==
    ASSUME TypeOK, ListenerWaits, ConnectionsMade, [Next]_vars
    PROVE  Named'
<1> USE DEF brokerVars, topicVars, netVars, workerVars
<1>1. CASE Crash
    BY <1>1 DEF Crash, Named, Conn, NoFile
<1>2. SUFFICES ASSUME ~Crash
               PROVE  Named'
    BY <1>1
<1>3. Named /\ \A c \in Conn : Made(c) => Made(c)'
    BY <1>2, Lives, PeersStay DEF Made, Named, ConnectionsMade
<1>4. fdtab \in [Fd -> File] /\ backlog \in Seq(Conn) /\ \A i \in DOMAIN backlog : backlog[i] \in Conn
    BY DEF TypeOK
<1>5. CASE UNCHANGED backlog /\ \A fd \in Fd : fdtab'[fd] \in Conn => fdtab'[fd] = fdtab[fd]
    BY <1>3, <1>4, <1>5 DEF Named, Made, Ours
<1>6. CASE Accept
    <2>1. backlog # <<>>
        BY <1>6 DEF Accept, ListenerWaits
    <2>2. Head(backlog) = backlog[1] /\ 1 \in DOMAIN backlog /\ Head(backlog) \in Conn
        BY <1>4, <2>1
    <2>3. \A fd \in Fd : fdtab'[fd] = fdtab[fd] \/ fdtab'[fd] = Head(backlog)
        BY <1>4, <1>6 DEF Accept
    <2>4. backlog' = backlog \/ backlog' = Tail(backlog)
        BY <1>6 DEF Accept
    <2>5. \A i \in DOMAIN backlog' : \E k \in DOMAIN backlog : backlog'[i] = backlog[k]
        BY <1>4, <2>1, <2>4
    <2>6. \A fd \in Fd : fdtab'[fd] \in Conn => Made(fdtab'[fd])
        BY <1>3, <2>2, <2>3 DEF Named
    <2>7. \A i \in DOMAIN backlog' : backlog'[i] \in Conn /\ Made(backlog'[i])
        BY <1>3, <1>4, <2>5 DEF Named
    <2> QED
        BY <1>3, <2>6, <2>7 DEF Named, Made, Ours
<1>7. ASSUME NEW c \in Conn, NEW id \in Ids, Connect(c, id)
      PROVE  Named'
    <2>1. Made(c)'
        BY <1>7 DEF Connect, Made, Ours, TypeOK
    <2>2. backlog' = Append(backlog, c) /\ UNCHANGED fdtab
        BY <1>7 DEF Connect
    <2>3. \A i \in DOMAIN backlog' : (i \in DOMAIN backlog /\ backlog'[i] = backlog[i]) \/ backlog'[i] = c
        BY <1>4, <2>2
    <2> QED
        BY <1>3, <1>4, <2>1, <2>2, <2>3 DEF Named, Made, Ours
<1>8. ASSUME UNCHANGED backlog,
             NEW fd, NEW f \in {NoFile, MqDesc, MqDescRead}, fdtab' = [fdtab EXCEPT ![fd] = f]
      PROVE  Named'
    <2>1. f \notin Conn
        BY <1>8 DEF Conn, NoFile, MqDesc, MqDescRead
    <2>2. \A g \in Fd : fdtab'[g] = fdtab[g] \/ fdtab'[g] = f
        BY <1>4, <1>8
    <2> QED
        BY <1>5, <1>8, <2>1, <2>2
<1>9. CASE Broker
    <2>1. CASE LoginCall
        BY <1>2, <1>5, <1>8, <2>1 DEF LoginCall
    <2> QED
        BY <1>2, <1>5, <1>6, <1>9, <2>1
        DEF Broker, EpollWait, LoginRead, Authenticate, Place, Watch, WorkerEvent, Join0,
            JoinConv, JoinRobot, Join2, JoinThread, JoinUninitialised
<1>10. CASE Conveyer
    BY <1>5, <1>8, <1>10 DEF Conveyer, ConvOpen, ConvRead, ConvClose, ConvSend, ConvReply
<1>11. CASE Robot
    <2>1. CASE Consider
        <3>1. UNCHANGED fdtab \/ fdtab' = [fdtab EXCEPT ![robot.slot] = fdtab[robot.slot]]
                              \/ fdtab' = [fdtab EXCEPT ![robot.slot] = MqDescRead]
            BY <2>1 DEF Consider
        <3>2. UNCHANGED backlog
            BY <2>1 DEF Consider
        <3>3. CASE fdtab' = [fdtab EXCEPT ![robot.slot] = fdtab[robot.slot]]
            BY <1>4, <1>5, <3>2, <3>3
        <3> QED
            BY <1>5, <1>8, <3>1, <3>2, <3>3
    <2> QED
        BY <1>5, <1>8, <1>11, <2>1
        DEF Robot, RobotOpen, ReceiveCall, Receive, ReadPdu, SendCommand
<1>12. CASE (\E c \in Conn : Worker(c)) \/ Fault
    BY <1>2, <1>5, <1>7, <1>12
    DEF Worker, Login, Detect, Respond, Write, Fault, SigPipe, Kill, Restart, Disconnect, Chatter
<1>13. CASE UNCHANGED vars
    BY <1>5, <1>13 DEF vars
<1> QED
    BY <1>9, <1>10, <1>11, <1>12, <1>13 DEF Next

LEMMA NextConnectionsMade ==
    TypeOK /\ ListenerWaits /\ ConnectionsMade /\ [Next]_vars => ConnectionsMade'
<1> SUFFICES ASSUME TypeOK, ListenerWaits, ConnectionsMade, [Next]_vars
             PROVE  ConnectionsMade'
    OBVIOUS
<1>1. Named'
    BY NextNamed
<1>2. \A c \in Conn : peer'[c] = "none" => ~PermitAt(c)'
    <2>1. \A c \in Conn : peer'[c] = "none" => peer[c] = "none"
        BY PeersStay
    <2> QED
        BY <2>1, PermitsOfMade DEF ConnectionsMade
<1>3. \A c \in Conn : life'[c] <= restarts'
    BY Lives
<1> QED
    BY <1>1, <1>2, <1>3 DEF ConnectionsMade, Named, Made, Ours

LEMMA HungUpStays ==
    ASSUME TypeOK, ConnectionsMade, [Next]_vars, ~Crash, ~ConveyerHungUp'
    PROVE  ~ConveyerHungUp
BY PeersStay, Lives DEF ConveyerHungUp

\* What the slots rest on, while no conveyer has hung up.
SlotCore ==
    /\ Denotes(conv.slot, ConveyerIds)
    /\ Denotes(robot.slot, RobotIds)
    /\ conv.pc # "close"
    /\ conv.pc \in {"read", "send", "reply"} => conv.mq # 0 /\ IsMq(fdtab[conv.mq])
    /\ broker.pc \in {"login", "reading", "auth", "place"} => fdtab[broker.fd] \in Conn
    /\ broker.pc = "reading" => broker.conn = fdtab[broker.fd]
    /\ broker.pc \in {"auth", "place"} /\ broker.id \in Listed =>
          cid[fdtab[broker.fd]] = broker.id

\* COMMANDs of this process go to the device in the robot's slot, and to nobody else.
RobotsOwe == \A c \in Conn : Ours(c) /\ owed[c] > 0 => cid[c] \in RobotIds
LEMMA NextRobotsOwe ==
    ASSUME TypeOK, ConnectionsMade, RobotPlaced, RobotsOwe, Denotes(robot.slot, RobotIds),
           [Next]_vars
    PROVE  RobotsOwe'
<1> USE DEF brokerVars, topicVars, netVars, workerVars
<1>1. \A c \in Conn : owed[c] > 0 => cid'[c] = cid[c] /\ (Ours(c)' => Ours(c))
    BY PeersStay, Lives DEF ConnectionsMade, PermitAt
<1>2. CASE \A c \in Conn : owed'[c] > 0 => owed[c] > 0
    BY <1>1, <1>2 DEF RobotsOwe
<1>3. CASE SendCommand
    <2>1. \A c \in Conn : owed'[c] # owed[c] => c = fdtab[robot.slot]
        BY <1>3 DEF SendCommand, TypeOK
    <2>2. robot.slot # 0 /\ UNCHANGED cid
        BY <1>3 DEF SendCommand, RobotPlaced
    <2>3. \A c \in Conn : owed'[c] > 0 => owed[c] > 0 \/ cid'[c] \in RobotIds
        BY <2>1, <2>2 DEF Denotes
    <2> QED
        BY <1>1, <2>2, <2>3 DEF RobotsOwe
<1>4. CASE UNCHANGED owed
    BY <1>2, <1>4
<1>5. ASSUME NEW c \in Conn, Telling(c) \/ Respond(c)
      PROVE  RobotsOwe'
    <2>1. \A d \in Conn : owed'[d] > 0 => owed[d] > 0
        BY <1>5 DEF Telling, Login, Detect, Chatter, Respond, TypeOK
    <2> QED
        BY <1>2, <2>1
<1>6. CASE Robot
    BY <1>3, <1>4, <1>6 DEF Robot, RobotOpen, ReceiveCall, Receive, Consider, ReadPdu
<1> QED
    BY <1>4, <1>5, <1>6, Steps DEF Quiet, Crash, LoginRead, Place, ConvRead, ConvSend

\* A file that is given to a free number is nobody's but its new owner's.
LEMMA FreshNumber ==
    ASSUME TypeOK, RobotPlaced, SlotCore, NEW fd \in Lowest, NEW f \in File,
           fdtab' = [fdtab EXCEPT ![fd] = f]
    PROVE  /\ fd \in Fd /\ fdtab[fd] = NoFile /\ fdtab'[fd] = f
           /\ conv.slot # 0 => conv.slot # fd /\ fdtab'[conv.slot] = fdtab[conv.slot]
           /\ robot.slot # 0 => robot.slot # fd /\ fdtab'[robot.slot] = fdtab[robot.slot]
           /\ conv.pc \in {"read", "send", "reply"} => fdtab'[conv.mq] = fdtab[conv.mq]
           /\ broker.pc \in {"login", "reading", "auth", "place"} =>
                  fdtab'[broker.fd] = fdtab[broker.fd]
<1>1. fd \in Fd /\ fdtab[fd] = NoFile
    BY DEF Lowest, Free
<1>2. \A g \in Fd : g # fd => fdtab'[g] = fdtab[g]
    BY DEF TypeOK
<1>3. fdtab'[fd] = f
    BY <1>1 DEF TypeOK
<1>4. NoFile \notin Conn /\ ~IsMq(NoFile)
    BY DEF NoFile, Conn, IsMq, MqDesc, MqDescRead
<1>5. /\ conv.slot \in Fd \cup {0} /\ robot.slot \in Fd \cup {0} /\ conv.mq \in Fd \cup {0}
      /\ broker.fd \in Fd \cup {0}
    BY DEF TypeOK, ConvType, RobotType, BrokerType
<1> QED
    BY <1>1, <1>2, <1>3, <1>4, <1>5 DEF SlotCore, Denotes, RobotPlaced

\* Each action of the broker keeps them ...
LEMMA BrokerSlots ==
    ASSUME TypeOK, ListenerWaits, RobotPlaced, SlotInv, SlotCore, Broker, ~Crash
    PROVE  SlotCore'
<1> USE DEF brokerVars, topicVars, netVars, workerVars
<1>1. CASE /\ UNCHANGED <<conv, robot, fdtab, cid, owed>>
           /\ broker'.pc \in {"login", "reading", "auth", "place"} =>
                 /\ broker'.pc = "place" /\ broker.pc = "auth"
                 /\ broker'.fd = broker.fd /\ broker'.id = broker.id
    BY <1>1 DEF SlotCore, Denotes
<1>2. CASE EpollWait \/ Watch \/ WorkerEvent \/ Join0 \/ JoinConv \/ JoinRobot \/ Join2
    BY <1>1, <1>2
    DEF EpollWait, Watch, WorkerEvent, Join0, JoinConv, JoinRobot, Join2, JoinThread,
        JoinUninitialised, NextEvent, BrokerGoes, IdleBroker, TypeOK, BrokerType
<1>3. CASE Authenticate
    BY <1>1, <1>3, SMTT(30) DEF Authenticate, NextEvent, BrokerGoes, IdleBroker, TypeOK, BrokerType
<1>4. CASE Accept
    <2>1. CASE UNCHANGED fdtab /\ NextEvent(batch \ {Listener})
        BY <1>1, <1>4, <2>1 DEF Accept, NextEvent, IdleBroker, TypeOK, BrokerType
    <2>2. ASSUME NEW fd \in Lowest, fdtab' = [fdtab EXCEPT ![fd] = Head(backlog)],
                 broker' = [broker EXCEPT !.pc = "login", !.fd = fd]
          PROVE  SlotCore'
        <3>1. Head(backlog) \in Conn
            <4>1. backlog \in Seq(Conn) /\ backlog # <<>>
                BY <1>4 DEF Accept, ListenerWaits, TypeOK
            <4> QED
                BY <4>1
        <3>2. Head(backlog) \in File
            BY <3>1, ConstantTypes
        <3>3. broker'.pc = "login" /\ broker'.fd = fd
            BY <2>2 DEF TypeOK, BrokerType
        <3>4. UNCHANGED <<conv, robot, cid, owed>>
            BY <1>4 DEF Accept
        <3> QED
            BY <2>2, <3>1, <3>2, <3>3, <3>4, FreshNumber, ZenonT(40) DEF SlotCore, Denotes
    <2> QED
        BY <1>4, <2>1, <2>2 DEF Accept
<1>5. CASE LoginCall
    <2>1. broker.pc = "login" /\ fdtab[broker.fd] \in Conn
        BY <1>5 DEF LoginCall, SlotCore
    <2>2. fdtab[broker.fd] \notin {NoFile, MqDesc, MqDescRead}
        BY <2>1 DEF Conn, NoFile, MqDesc, MqDescRead
    <2>3. /\ broker' = [broker EXCEPT !.pc = "reading", !.conn = fdtab[broker.fd]]
          /\ UNCHANGED <<conv, robot, fdtab, cid, owed>>
        BY <1>5, <2>2 DEF LoginCall
    <2>4. broker'.pc = "reading" /\ broker'.fd = broker.fd /\ broker'.conn = fdtab[broker.fd]
        BY <2>3 DEF TypeOK, BrokerType
    <2> QED
        BY <2>1, <2>3, <2>4 DEF SlotCore, Denotes
<1>6. CASE LoginRead
    <2>1. PICK id \in Ids :
              /\ IF Head(rx[broker.conn]).kind = "login" THEN id = cid[broker.conn]
                                                        ELSE id \in StrangerIds
              /\ broker' = [broker EXCEPT !.pc = "auth", !.conn = 0, !.id = id]
              /\ UNCHANGED <<conv, robot, fdtab, cid, owed>>
        BY <1>6 DEF LoginRead
    <2>2. broker.conn = fdtab[broker.fd] /\ fdtab[broker.fd] \in Conn
        BY <1>6 DEF LoginRead, SlotCore
    <2>3. broker'.pc = "auth" /\ broker'.fd = broker.fd /\ broker'.id = id
        BY <2>1 DEF TypeOK, BrokerType
    <2>4. id \in Listed => id = cid[fdtab[broker.fd]]
        BY <2>1, <2>2, ManagerAssumption
    <2> QED
        BY <2>1, <2>2, <2>3, <2>4 DEF SlotCore, Denotes
<1>7. CASE Place
    <2>1. /\ broker.pc = "place" /\ UNCHANGED <<fdtab, cid, owed>>
          /\ broker' = [broker EXCEPT !.pc = "watch"]
        BY <1>7 DEF Place, BrokerGoes
    <2>2. fdtab[broker.fd] \in Conn /\ (broker.id \in Listed => cid[fdtab[broker.fd]] = broker.id)
        BY <2>1 DEF SlotCore
    <2>3. broker'.pc = "watch"
        BY <2>1 DEF TypeOK, BrokerType
    <2>4. \/ UNCHANGED conv
          \/ /\ conv'.slot = broker.fd /\ conv'.pc = "open"
             /\ broker.id \in ConveyerIds
        BY <1>7 DEF Place, TypeOK, ConvType
    <2>5. \/ UNCHANGED robot
          \/ robot'.slot = broker.fd /\ broker.id \in RobotIds
        BY <1>7 DEF Place, TypeOK, RobotType
    <2>6. Denotes(conv.slot, ConveyerIds)' /\ Denotes(robot.slot, RobotIds)'
        BY <2>1, <2>2, <2>4, <2>5 DEF Denotes, SlotCore, Listed
    <2> QED
        BY <2>1, <2>3, <2>4, <2>6 DEF SlotCore
<1> QED
    BY <1>2, <1>3, <1>4, <1>5, <1>6, <1>7 DEF Broker

\* ... each action of the conveyer thread does, for its worker has not hung up ...
LEMMA ConveyerSlots ==
    ASSUME TypeOK, RobotPlaced, ConnectionsMade, SlotInv, SlotCore, ~ConveyerHungUp, Conveyer
    PROVE  SlotCore'
<1> USE DEF brokerVars, topicVars, netVars, workerVars
<1>1. conv.slot # 0 /\ fdtab[conv.slot] \in Conn /\ cid[fdtab[conv.slot]] \in ConveyerIds
    BY DEF Conveyer, ConvOpen, ConvRead, ConvClose, ConvSend, ConvReply, SlotInv, SlotCore, Denotes
<1>2. peer[fdtab[conv.slot]] # "down"
    <2>1. conv.slot \in Fd
        BY <1>1 DEF TypeOK, ConvType
    <2> QED
        BY <1>1, <2>1 DEF ConveyerHungUp, ConnectionsMade
<1>3. fdtab[conv.slot] \notin {NoFile, MqDesc, MqDescRead}
    BY <1>1 DEF Conn, NoFile, MqDesc, MqDescRead
<1>4. UNCHANGED <<broker, robot, cid, owed>>
    BY DEF Conveyer, ConvOpen, ConvRead, ConvClose, ConvSend, ConvReply
<1>5. CASE /\ UNCHANGED fdtab /\ conv'.slot = conv.slot /\ conv'.mq = conv.mq
           /\ conv'.pc # "close"
           /\ conv'.pc \in {"read", "send", "reply"} => conv.pc \in {"read", "send", "reply"}
    BY <1>4, <1>5 DEF SlotCore, Denotes
<1>6. CASE ConvOpen
    <2>1. CASE UNCHANGED fdtab /\ conv' = [conv EXCEPT !.pc = "done"]
        BY <1>5, <2>1 DEF TypeOK, ConvType
    <2>2. ASSUME NEW fd \in Lowest, conv' = [conv EXCEPT !.pc = "read", !.mq = fd],
                 fdtab' = [fdtab EXCEPT ![fd] = MqDesc]
          PROVE  SlotCore'
        <3>1. conv'.slot = conv.slot /\ conv'.mq = fd /\ conv'.pc = "read"
            BY <2>2 DEF TypeOK, ConvType
        <3>2. fd # 0 /\ IsMq(MqDesc)
            BY DEF Lowest, Free, Fd, IsMq
        <3>3. /\ fdtab'[fd] = MqDesc
              /\ conv.slot # 0 => fdtab'[conv.slot] = fdtab[conv.slot]
              /\ robot.slot # 0 => fdtab'[robot.slot] = fdtab[robot.slot]
              /\ broker.pc \in {"login", "reading", "auth", "place"} =>
                     fdtab'[broker.fd] = fdtab[broker.fd]
            BY <2>2, ConstantTypes, FreshNumber
        <3> QED
            BY <1>4, <3>1, <3>2, <3>3 DEF SlotCore, Denotes
    <2> QED
        BY <1>6, <2>1, <2>2 DEF ConvOpen
<1>7. CASE ConvRead
    <2>1. /\ UNCHANGED fdtab /\ conv.pc = "read"
          /\ conv' = conv \/ conv' = [conv EXCEPT !.pc = "send", !.task = Head(rx[fdtab[conv.slot]]).task]
        BY <1>2, <1>3, <1>7 DEF ConvRead
    <2> QED
        BY <1>5, <2>1 DEF TypeOK, ConvType
<1>8. CASE ConvClose
    BY <1>8 DEF ConvClose, SlotCore
<1>9. CASE ConvSend
    <2>1. CASE UNCHANGED fdtab
        BY <1>5, <1>9, <2>1 DEF ConvSend, TypeOK, ConvType
    <2>2. CASE fdtab' = [fdtab EXCEPT ![conv.mq] = NoFile] /\ conv' = [conv EXCEPT !.pc = "done"]
        <3>1. conv.mq \in Fd /\ IsMq(fdtab[conv.mq])
            BY <1>9 DEF ConvSend, SlotCore, TypeOK, ConvType
        <3>2. fdtab[conv.mq] \notin Conn
            BY <3>1 DEF IsMq, Conn, MqDesc, MqDescRead
        <3>3. \A g \in Fd : g # conv.mq => fdtab'[g] = fdtab[g]
            BY <2>2 DEF TypeOK
        <3>4. conv'.slot = conv.slot /\ conv'.pc = "done"
            BY <2>2 DEF TypeOK, ConvType
        <3>5. /\ conv.slot \in Fd \cup {0} /\ robot.slot \in Fd \cup {0}
              /\ broker.fd \in Fd \cup {0}
            BY DEF TypeOK, ConvType, RobotType, BrokerType
        <3> QED
            BY <1>4, <3>2, <3>3, <3>4, <3>5 DEF SlotCore, Denotes, RobotPlaced
    <2> QED
        BY <1>9, <2>1, <2>2 DEF ConvSend
<1>10. CASE ConvReply
    BY <1>5, <1>10 DEF ConvReply, TypeOK, ConvType
<1> QED
    BY <1>6, <1>7, <1>8, <1>9, <1>10 DEF Conveyer

\* ... and each action of the robot thread.
LEMMA RobotSlots ==
    ASSUME TypeOK, RobotPlaced, SlotInv, SlotCore, Robot
    PROVE  SlotCore'
<1> USE DEF brokerVars, topicVars, netVars, workerVars
<1>1. UNCHANGED <<broker, conv, cid>> /\ robot'.slot = robot.slot
    BY DEF Robot, RobotOpen, ReceiveCall, Receive, Consider, ReadPdu, SendCommand, Drop, ReadPduOf,
           TypeOK, RobotType
<1>2. robot.slot # 0 /\ fdtab[robot.slot] \in Conn /\ cid[fdtab[robot.slot]] \in RobotIds
    BY DEF Robot, RobotOpen, ReceiveCall, Receive, Consider, ReadPdu, SendCommand, RobotPlaced,
           SlotCore, Denotes
<1>3. fdtab[robot.slot] # MqDesc
    BY <1>2 DEF Conn, MqDesc
<1>4. CASE UNCHANGED <<fdtab, owed>>
    BY <1>1, <1>4 DEF SlotCore, Denotes
<1>5. CASE RobotOpen
    <2>1. UNCHANGED owed
        BY <1>5 DEF RobotOpen
    <2>2. ASSUME NEW fd \in Lowest, fdtab' = [fdtab EXCEPT ![fd] = MqDesc]
          PROVE  SlotCore'
        BY <1>1, <2>1, <2>2, ConstantTypes, FreshNumber DEF SlotCore, Denotes
    <2> QED
        BY <1>4, <1>5, <2>1, <2>2 DEF RobotOpen
<1>6. CASE Consider
    <2>1. fdtab' = fdtab /\ UNCHANGED owed
        BY <1>3, <1>6 DEF Consider, TypeOK
    <2> QED
        BY <1>4, <2>1
<1>7. CASE SendCommand
    BY <1>1, <1>7 DEF SendCommand, SlotCore, Denotes
<1> QED
    BY <1>4, <1>5, <1>6, <1>7 DEF Robot, ReceiveCall, Receive, ReadPdu

LEMMA NextSlotInv ==
    /\ TypeOK /\ ListenerWaits /\ RobotPlaced /\ ConnectionsMade /\ SlotInv
    /\ [Next]_vars
    => SlotInv'
<1> SUFFICES ASSUME TypeOK, ListenerWaits, RobotPlaced, ConnectionsMade, SlotInv, [Next]_vars
             PROVE  SlotInv'
    OBVIOUS
<1> USE DEF brokerVars, topicVars, netVars, workerVars
<1>1. SlotInv' <=> /\ conv'.slot = 0 => conv'.pc = "off"
                   /\ ~ConveyerHungUp' => SlotCore' /\ RobotsOwe'
    BY DEF SlotInv, SlotCore, RobotsOwe
<1>2. conv'.slot = 0 => conv'.pc = "off"
    <2>1. CASE UNCHANGED conv
        BY <2>1 DEF SlotInv
    <2>2. CASE Crash
        BY <2>2 DEF Crash, NoConv
    <2>3. CASE Place
        BY <2>3 DEF Place, RobotPlaced, SlotInv, TypeOK, ConvType
    <2>4. CASE Conveyer
        BY <2>4 DEF Conveyer, ConvOpen, ConvRead, ConvClose, ConvSend, ConvReply, SlotInv, TypeOK,
                    ConvType
    <2>5. CASE Broker
        BY <2>1, <2>2, <2>3, <2>5
        DEF Broker, EpollWait, Accept, LoginCall, LoginRead, Authenticate, Watch, WorkerEvent,
            Join0, JoinConv, JoinRobot, Join2, JoinThread, JoinUninitialised
    <2>6. CASE Robot
        BY <2>1, <2>6 DEF Robot, RobotOpen, ReceiveCall, Receive, Consider, ReadPdu, SendCommand
    <2>7. CASE (\E c \in Conn : Worker(c)) \/ Fault
        BY <2>1, <2>2, <2>7
        DEF Worker, Connect, Login, Detect, Write, Respond, Fault, SigPipe, Kill, Restart,
            Disconnect, Chatter
    <2> QED
        BY <2>1, <2>4, <2>5, <2>6, <2>7 DEF Next, vars
<1>3. CASE Crash
    <2>1. broker'.pc = "dead" /\ conv'.slot = 0 /\ conv'.pc = "off" /\ robot'.slot = 0
        BY <1>3 DEF Crash, IdleBroker, NoConv, NoRobot
    <2> QED
        BY <1>1, <2>1 DEF SlotCore, RobotsOwe, Denotes, Ours
<1>4. SUFFICES ASSUME ~ConveyerHungUp', ~Crash
               PROVE  SlotCore' /\ RobotsOwe'
    BY <1>1, <1>2, <1>3
<1>5. ~ConveyerHungUp
    BY <1>4, HungUpStays
<1>6. SlotCore /\ RobotsOwe
    BY <1>5 DEF SlotInv, SlotCore, RobotsOwe
<1>7. RobotsOwe'
    BY <1>6, NextRobotsOwe DEF SlotCore
<1>8. CASE UNCHANGED <<broker, conv, robot, fdtab, cid>>
    BY <1>6, <1>7, <1>8 DEF SlotCore, Denotes
<1>9. CASE Restart
    BY <1>6, <1>7, <1>9 DEF Restart, IdleBroker, SlotCore, Denotes
<1>10. ASSUME NEW c \in Conn, Worker(c)
       PROVE  SlotCore'
    <2>1. UNCHANGED <<broker, conv, robot, fdtab>>
        BY <1>10 DEF Worker, Connect, Login, Detect, Write, Respond
    <2>2. \A d \in Conn : peer[d] # "none" => cid'[d] = cid[d]
        BY PeersStay
    <2>3. /\ conv.slot \in Fd \cup {0} /\ robot.slot \in Fd \cup {0} /\ broker.fd \in Fd \cup {0}
        BY DEF TypeOK, ConvType, RobotType, BrokerType
    <2>4. \A fd \in Fd : fdtab[fd] \in Conn => cid'[fdtab[fd]] = cid[fdtab[fd]]
        BY <2>2 DEF ConnectionsMade
    <2> QED
        BY <1>6, <2>1, <2>3, <2>4 DEF SlotCore, Denotes, RobotPlaced
<1>11. CASE Fault
    BY <1>4, <1>7, <1>8, <1>9, <1>11 DEF Fault, SigPipe, Kill, Disconnect, Chatter, Write
<1>12. CASE UNCHANGED vars
    BY <1>7, <1>8, <1>12 DEF vars
<1>13. CASE Broker
    BY <1>4, <1>6, <1>7, <1>13, BrokerSlots
<1>14. CASE Conveyer
    BY <1>5, <1>6, <1>7, <1>14, ConveyerSlots
<1>15. CASE Robot
    BY <1>6, <1>7, <1>15, RobotSlots
<1> QED
    BY <1>7, <1>10, <1>11, <1>12, <1>13, <1>14, <1>15 DEF Next

-----------------------------------------------------------------------------
(* The theorems. *)

\* What an earlier process left in the queue is a sequence of tasks that fits it.
LEMMA LeftBehindTypes ==
    ASSUME NEW left \in LeftBehind
    PROVE  left \in Seq(Task) /\ Len(left) \in Nat /\ Len(left) <= MqMaxMsg
<1>1. PICK n \in 0..MqMaxMsg : left \in [1..n -> Task]
    BY DEF LeftBehind
<1>2. n \in Nat /\ n <= MqMaxMsg
    BY <1>1, ManagerAssumption
<1>3. left \in Seq(Task)
    BY <1>1, <1>2
<1>4. Len(left) = n
    BY <1>1, <1>2, <1>3, LenProperties
<1> QED
    BY <1>2, <1>3, <1>4

LEMMA InitIInv == Init => IInv
<1> SUFFICES ASSUME Init
             PROVE  IInv
    OBVIOUS
<1>1. TypeOK
    <2>1. broker \in BrokerType /\ conv \in ConvType /\ robot \in RobotType
        BY ConstantTypes DEF Init
    <2>2. fdtab \in [Fd -> File] /\ cid \in [Conn -> Ids]
        BY ConstantTypes DEF Init
    <2>3. mq \in Seq(Task) /\ log \in Seq(Task) /\ commands \in Seq([pos : Nat, task : Task])
        BY LeftBehindTypes, EmptySeq DEF Init
    <2>4. rx \in [Conn -> Seq(Message)] /\ backlog \in Seq(Conn)
        BY EmptySeq DEF Init
    <2>5. /\ peer \in [Conn -> {"none", "up", "down"}] /\ owed \in [Conn -> Nat]
          /\ life \in [Conn -> Nat]
        BY DEF Init
    <2>6. lines \in Nat
        BY LeftBehindTypes DEF Init
    <2> QED
        BY <2>1, <2>2, <2>3, <2>4, <2>5, <2>6 DEF Init, TypeOK
<1>2. ListenerWaits /\ RobotPlaced
    BY DEF Init, IdleBroker, NoRobot, ListenerWaits, RobotPlaced
<1>3. FlowInv
    <2>1. \A c \in Conn : owed[c] = 0 /\ Unread(c) = {}
        BY DEF Init, Unread
    <2> QED
        BY <2>1 DEF Init, NoRobot, FlowInv, PermitAt
<1>4. OrderInv
    BY LeftBehindTypes DEF Init, NoRobot, OrderInv
<1>5. ConnectionsMade
    BY DEF Init, ConnectionsMade, Conn, NoFile, PermitAt, Unread
<1>6. SlotInv
    BY DEF Init, IdleBroker, NoConv, NoRobot, SlotInv, Denotes
<1> QED
    BY <1>1, <1>2, <1>3, <1>4, <1>5, <1>6 DEF IInv

LEMMA NextIInv == IInv /\ [Next]_vars => IInv'
BY NextTypeOK, NextListenerWaits, NextRobotPlaced, NextFlowInv, NextOrderInv, NextConnectionsMade,
   NextSlotInv DEF IInv

\* The inductive invariant holds in every state: the one permit a process has to send a
\* COMMAND is in one place at most, and the topic's queue is the part of the log not
\* taken yet.
THEOREM Invariance == Spec => []IInv
BY InitIInv, NextIInv, PTL DEF Spec

\* Every state is well typed: however the process ends and starts again, and
\* whatever number a thread still holds, a thread reads only connections that
\* were made, and the topic holds tasks.
THEOREM TypeCorrect == Spec => []TypeOK
<1>1. IInv => TypeOK
    BY DEF IInv
<1> QED
    BY <1>1, Invariance, PTL

\* However connections are made and lost, a process never has a second COMMAND out before
\* the first is answered, and never at two robots: the flow control of robot_handler.
\* The next process starts from isFirst = TRUE whatever its predecessor's robot still
\* does, so the COMMANDs out are at most one for each process there was.
THEOREM FlowControl == Spec => []OneCommandOutstanding
<1>1. IInv => OneCommandOutstanding
    BY DEF IInv, FlowInv, PermitAt, OneCommandOutstanding
<1> QED
    BY <1>1, Invariance, PTL

\* As long as no conveyer has hung up, the numbers the two handlers read, without
\* asking again whose they are, denote the workers they were given: a robot that
\* hangs up, a refused login or a second robot costs descriptors, but gives none of
\* theirs to anybody else.
THEOREM SlotsKept == Spec => []SlotsDenoteTheirWorkers
<1>1. IInv => SlotsDenoteTheirWorkers
    BY DEF IInv, SlotInv, SlotsDenoteTheirWorkers
<1> QED
    BY <1>1, Invariance, PTL

-----------------------------------------------------------------------------
(* The refinement of the topic. *)

LEMMA InitRefines == Init => Topic!Init
BY LeftBehindTypes DEF Init, NoRobot, Topic!Init

\* The permit moves only with READY, COMMAND or a new process.
LEMMA StepRefines == IInv /\ [Next]_vars => [Topic!Next]_(Topic!topicVars)
<1> SUFFICES ASSUME IInv, [Next]_vars
             PROVE  [Topic!Next]_(Topic!topicVars)
    OBVIOUS
<1> USE DEF topicVars, netVars, workerVars, Topic!topicVars
<1>1. TypeOK /\ RobotPlaced /\ OrderInv /\ FlowInv
    BY DEF IInv
<1>2. CASE UNCHANGED <<robot, topicVars>>
    BY <1>2
<1>3. CASE Crash
    <2>1. robot'.isFirst = TRUE /\ UNCHANGED topicVars
        BY <1>3 DEF Crash, NoRobot
    <2>2. Topic!Permit
        BY <2>1 DEF Topic!Permit
    <2> QED
        BY <2>2 DEF Topic!Next
<1>4. CASE Place
    <2>1. /\ robot.pc # "again" \/ robot'.pc = robot.pc
          /\ robot'.pc = "again" => robot.pc = "again"
          /\ robot'.isFirst = robot.isFirst
        BY <1>1, <1>4 DEF Place, RobotPlaced, TypeOK, RobotType
    <2>2. UNCHANGED topicVars
        BY <1>4 DEF Place
    <2>3. (robot'.isFirst \/ robot'.pc = "again") = (robot.isFirst \/ robot.pc = "again")
        BY <2>1
    <2> QED
        BY <2>2, <2>3
<1>5. CASE ConvSend
    <2>1. CASE UNCHANGED <<mq, log>>
        BY <1>2, <1>5, <2>1 DEF ConvSend
    <2>2. CASE Len(mq) < MqMaxMsg /\ log' = Append(log, conv.task)
        <3>1. Len(log) - taken = Len(mq)
            BY <1>1, LenProperties DEF OrderInv, TypeOK
        <3>2. UNCHANGED <<robot, taken, commands>>
            BY <1>5 DEF ConvSend
        <3>3. conv.task \in Task
            BY <1>1 DEF TypeOK, ConvType
        <3>4. Topic!Publish(conv.task)
            BY <2>2, <3>1, <3>2 DEF Topic!Publish
        <3> QED
            BY <3>3, <3>4 DEF Topic!Next
    <2> QED
        BY <1>5, <2>1, <2>2 DEF ConvSend
<1>6. CASE RobotOpen \/ ReceiveCall \/ Consider
    <2>1. robot.pc # "again" /\ UNCHANGED topicVars
        BY <1>6 DEF RobotOpen, ReceiveCall, Consider
    <2>2. robot'.isFirst = robot.isFirst /\ robot'.pc # "again"
        <3>1. CASE Consider
            BY <1>1, <3>1, RobotGoes DEF Consider
        <3>2. CASE RobotOpen \/ ReceiveCall
            BY <1>1, <3>2 DEF RobotOpen, ReceiveCall, TypeOK, RobotType
        <3> QED
            BY <1>6, <3>1, <3>2
    <2>3. (robot'.isFirst \/ robot'.pc = "again") = (robot.isFirst \/ robot.pc = "again")
        BY <2>1, <2>2
    <2> QED
        BY <2>1, <2>3
<1>7. CASE Receive
    <2>1. /\ robot.pc = "receive" /\ robot'.pc = "got" /\ robot'.isFirst = robot.isFirst
          /\ mq # <<>> /\ taken' = taken + 1 /\ UNCHANGED <<log, commands>>
        BY <1>1, <1>7 DEF Receive, TypeOK, RobotType
    <2>2. taken < Len(log)
        <3>1. Len(mq) \in Nat \ {0} /\ taken \in Nat /\ Len(log) = taken + Len(mq)
            BY <1>1, <2>1, EmptySeq DEF TypeOK, OrderInv
        <3> QED
            BY <3>1
    <2>3. (robot'.isFirst \/ robot'.pc = "again") = (robot.isFirst \/ robot.pc = "again")
        BY <2>1
    <2>4. Topic!Take
        BY <2>1, <2>2, <2>3 DEF Topic!Take
    <2> QED
        BY <2>4 DEF Topic!Next
<1>8. CASE ReadPdu
    <2>1. robot.pc = "reading" /\ UNCHANGED topicVars
        BY <1>8 DEF ReadPdu
    <2>2. robot'.pc \in {"again", "loop"} /\ robot'.isFirst = robot.isFirst
        BY <1>1, <1>8, RobotGoes DEF ReadPdu, TypeOK, RobotType
    <2>3. CASE robot'.pc = "again"
        <3>1. Topic!Permit
            BY <2>1, <2>3 DEF Topic!Permit
        <3> QED
            BY <3>1 DEF Topic!Next
    <2>4. CASE robot'.pc = "loop"
        <3>1. (robot'.isFirst \/ robot'.pc = "again") = (robot.isFirst \/ robot.pc = "again")
            BY <2>1, <2>2, <2>4
        <3> QED
            BY <2>1, <3>1
    <2> QED
        BY <2>2, <2>3, <2>4
<1>9. CASE SendCommand
    <2>1. /\ robot.pc \in {"first", "again"}
          /\ robot'.pc = "loop" /\ robot'.isFirst = FALSE
          /\ commands' = Append(commands, [pos |-> taken, task |-> robot.task])
          /\ UNCHANGED <<log, taken>>
        BY <1>1, <1>9 DEF SendCommand, TypeOK, RobotType
    <2>2. robot.isFirst \/ robot.pc = "again"
        BY <1>1, <2>1 DEF FlowInv
    <2>3. /\ taken > 0 /\ robot.task = log[taken] /\ log[taken].detect
          /\ \A i \in DOMAIN commands : commands[i].pos < taken
        BY <1>1, <2>1 DEF OrderInv
    <2>4. (robot'.isFirst \/ robot'.pc = "again") = FALSE
        BY <2>1
    <2>5. Topic!Issue
        BY <2>1, <2>2, <2>3, <2>4 DEF Topic!Issue
    <2> QED
        BY <2>5 DEF Topic!Next
<1>10. CASE Quiet
    BY <1>2, <1>10 DEF Quiet
<1>11. CASE LoginRead \/ ConvRead
    BY <1>2, <1>3, <1>11 DEF LoginRead, ConvRead
<1>12. CASE \E c \in Conn : Telling(c) \/ Respond(c)
    BY <1>2, <1>12 DEF Telling, Login, Detect, Chatter, Respond, Write
<1> QED
    BY <1>3, <1>4, <1>5, <1>6, <1>7, <1>8, <1>9, <1>10, <1>11, <1>12, Steps DEF Robot

\* The two threads and the kernel's queue implement the topic that NmxTopic
\* promises, across disconnections, crashes and restarts: tasks are taken in the
\* order of publication, each is commanded at most once, and every COMMAND spends
\* a permit.
THEOREM Refinement == Spec => TopicRefined
<1>1. Spec => []IInv
    BY Invariance
<1> QED
    BY <1>1, InitRefines, StepRefines, PTL DEF Spec, TopicRefined, Topic!Spec
=============================================================================
