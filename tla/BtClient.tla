------------------------------ MODULE BtClient ------------------------------
(***************************************************************************)
(* The Bluetooth client (conveyor/src/*/iot_client_bluetooth.c) between    *)
(* the belt's controller and the line's message server.                    *)
(*                                                                         *)
(* send_msg collects what the belt says until a read ends in a newline and *)
(* passes it to the server; recv_msg passes what the server says to the    *)
(* belt.  Each tells the other that it ended by putting -1 in sockfd, and  *)
(* main waits for send_msg alone.                                          *)
(***************************************************************************)
EXTENDS Integers, Sequences, FiniteSetsExt, SequencesExt

CONSTANTS
    BufSize,        \* BUF_SIZE, in the units below
    MaxSensed,      \* bound: lines the belt ever sends
    MaxTold         \* bound: messages the server ever sends

ASSUME BtAssumption == BufSize \in Nat \ {0} /\ MaxSensed \in Nat /\ MaxTold \in Nat

\* What recv_msg tells apart, and what the sensor sends.
Text == {"DETECT", "END_DETECT", "OTHER"}

\* A line travels in two units, of which the second has the newline.
Unit == [text : Text, end : BOOLEAN]

VARIABLES
    belt,       \* units that wait to be read from the belt, and its connection
    sensed,     \* units the belt sent, oldest first
    msg,        \* send_msg's buffer
    snd,        \* send_msg's pc
    rcv,        \* recv_msg: pc and the text it read
    sockfd,     \* is it a descriptor, or -1?
    server,     \* messages that wait to be read from the server, its connection, and
                \* how many it sent
    relayed,    \* units written to the server, oldest first
    told,       \* texts written to the belt, oldest first
    running     \* has the process not ended?

vars == <<belt, sensed, msg, snd, rcv, sockfd, server, relayed, told, running>>

Ended == running' = FALSE /\ snd' = "off" /\ rcv' = [rcv EXCEPT !.pc = "off"]
-----------------------------------------------------------------------------
(* send_msg: belt to server *)

\* Mutants: a read that does not complete a line is forgotten; sockfd is not looked at.
ReadForgetful ==
    /\ snd = "select" /\ belt.units # <<>> /\ Len(msg) < BufSize
    /\ LET n == Min({Len(belt.units), BufSize - Len(msg)})
           got == SubSeq(belt.units, 1, n)
       IN  /\ msg' = IF Last(got).end THEN msg \o got ELSE <<>>
           /\ snd' = IF Last(got).end THEN "write" ELSE "select"
           /\ belt' = [belt EXCEPT !.units = SubSeq(belt.units, n + 1, Len(belt.units))]
    /\ UNCHANGED <<sensed, rcv, sockfd, server, relayed, told, running>>
NeverTimesOut == FALSE
\* Mutant: the space left in the buffer is not looked at.
ReadOver ==
    /\ snd = "select" /\ belt.units # <<>>
    /\ msg' = msg \o belt.units
    /\ snd' = IF Last(belt.units).end THEN "write" ELSE "select"
    /\ belt' = [belt EXCEPT !.units = <<>>]
    /\ UNCHANGED <<sensed, rcv, sockfd, server, relayed, told, running>>

\* A read takes all that arrived, as far as the buffer goes.
Read ==
    /\ snd = "select" /\ belt.units # <<>> /\ Len(msg) < BufSize
    /\ LET n == Min({Len(belt.units), BufSize - Len(msg)})
           got == SubSeq(belt.units, 1, n)
       IN  /\ msg' = msg \o got
           /\ snd' = IF Last(got).end THEN "write" ELSE "select"
           /\ belt' = [belt EXCEPT !.units = SubSeq(belt.units, n + 1, Len(belt.units))]
    /\ UNCHANGED <<sensed, rcv, sockfd, server, relayed, told, running>>

\* A read returns 0 at the end of the belt's connection, and for a full buffer.
ReadEnd ==
    /\ snd = "select"
    /\ \/ belt.units = <<>> /\ belt.link = "down"
       \/ belt.units # <<>> /\ Len(msg) = BufSize
    /\ sockfd' = FALSE
    /\ snd' = "off"
    /\ UNCHANGED <<belt, sensed, msg, rcv, server, relayed, told, running>>

\* A read fails.  send_msg then looks at the end of the buffer it had, which is
\* before its start if it was empty: what lies there may be a newline, and
\* the write of an empty line ends the thread.
ReadFails ==
    /\ snd = "select"
    /\ belt.units = <<>> /\ belt.link = "reset"
    /\ belt' = [belt EXCEPT !.link = "down"]
    /\ \/ UNCHANGED <<snd, sockfd>>
       \/ msg = <<>> /\ snd' = "off" /\ sockfd' = FALSE
    /\ UNCHANGED <<sensed, msg, rcv, server, relayed, told, running>>

\* select returns after a second in which nothing arrived.
Timeout ==
    /\ snd = "select"
    /\ belt.units = <<>> /\ belt.link = "up"
    /\ ~sockfd
    /\ snd' = "off"
    /\ UNCHANGED <<belt, sensed, msg, rcv, sockfd, server, relayed, told, running>>

\* The first write after the server's end succeeds like any other.
Write ==
    /\ snd = "write"
    /\ sockfd
    /\ relayed' = relayed \o msg
    /\ msg' = <<>>
    /\ snd' = "select"
    /\ UNCHANGED <<belt, sensed, rcv, sockfd, server, told, running>>

\* To a descriptor of -1, or to a server that is gone, when SIGPIPE may end the process.
WriteFails ==
    /\ snd = "write"
    /\ \/ ~sockfd /\ snd' = "off" /\ UNCHANGED <<rcv, running>>
       \/ server.link = "down" /\ snd' = "off" /\ UNCHANGED <<rcv, running>>
       \/ server.link = "down" /\ Ended
    /\ sockfd' = FALSE
    /\ UNCHANGED <<belt, sensed, msg, server, relayed, told>>
-----------------------------------------------------------------------------
(* recv_msg: server to belt *)

\* Of what one read returns only its first text matters, and whether DETECT is in it.
Receive ==
    /\ rcv.pc = "read"
    /\ server.waits # <<>>
    /\ rcv' = [pc |-> "got", text |-> IF \E t \in Range(server.waits) : t # "OTHER"
                                      THEN "DETECT" ELSE "OTHER"]
    /\ server' = [server EXCEPT !.waits = <<>>]
    /\ UNCHANGED <<belt, sensed, msg, snd, sockfd, relayed, told, running>>

\* END_DETECT has DETECT in it, so the belt hears DETECT in its place.
Tell ==
    /\ rcv.pc = "got"
    /\ told' = Append(told, rcv.text)
    /\ rcv' = [rcv EXCEPT !.pc = "read"]
    /\ UNCHANGED <<belt, sensed, msg, snd, sockfd, server, relayed, running>>

\* A read that is called with -1 fails as well.
ReceiveEnd ==
    /\ rcv.pc = "read"
    /\ server.waits = <<>> /\ server.link = "down"
    /\ sockfd' = FALSE
    /\ rcv' = [rcv EXCEPT !.pc = "off"]
    /\ UNCHANGED <<belt, sensed, msg, snd, server, relayed, told, running>>
-----------------------------------------------------------------------------
(* main *)

Exit ==
    /\ running /\ snd = "off"
    /\ Ended
    /\ UNCHANGED <<belt, sensed, msg, sockfd, server, relayed, told>>
-----------------------------------------------------------------------------
(* The belt and the server. *)

\* The sensor sees an object come, and then go.
Begun == sensed # <<>> /\ ~Last(sensed).end
NextUnit ==
    [text |-> IF Begun THEN Last(sensed).text
              ELSE IF Len(sensed) % 4 = 0 THEN "DETECT" ELSE "END_DETECT",
     end |-> Begun]
Sense ==
    /\ belt.link = "up"
    /\ Begun \/ Len(sensed) < 2 * MaxSensed
    /\ sensed' = Append(sensed, NextUnit)
    /\ belt' = [belt EXCEPT !.units = Append(@, NextUnit)]
    /\ UNCHANGED <<msg, snd, rcv, sockfd, server, relayed, told, running>>

BeltEnds ==
    /\ belt.link = "up"
    /\ \E l \in {"down", "reset"} : belt' = [belt EXCEPT !.link = l]
    /\ UNCHANGED <<sensed, msg, snd, rcv, sockfd, server, relayed, told, running>>

ServerSends(t) ==
    /\ server.link = "up" /\ server.sent < MaxTold
    /\ server' = [server EXCEPT !.waits = Append(@, t), !.sent = @ + 1]
    /\ UNCHANGED <<belt, sensed, msg, snd, rcv, sockfd, relayed, told, running>>

ServerEnds ==
    /\ server.link = "up"
    /\ server' = [server EXCEPT !.link = "down"]
    /\ UNCHANGED <<belt, sensed, msg, snd, rcv, sockfd, relayed, told, running>>
-----------------------------------------------------------------------------
Init ==
    /\ belt = [units |-> <<>>, link |-> "up"]
    /\ sensed = <<>> /\ msg = <<>> /\ relayed = <<>> /\ told = <<>>
    /\ snd = "select"
    /\ rcv = [pc |-> "read", text |-> "OTHER"]
    /\ sockfd = TRUE
    /\ server = [waits |-> <<>>, link |-> "up", sent |-> 0]
    /\ running = TRUE

Sender == Read \/ ReadEnd \/ ReadFails \/ Timeout \/ Write \/ WriteFails
Receiver == Receive \/ Tell \/ ReceiveEnd
Outside == Sense \/ BeltEnds \/ (\E t \in Text : ServerSends(t)) \/ ServerEnds

Next == Sender \/ Receiver \/ Exit \/ Outside

Spec == Init /\ [][Next]_vars

\* The threads of the process run.
FairSpec == Spec /\ WF_vars(Sender) /\ WF_vars(Receiver) /\ WF_vars(Exit)
-----------------------------------------------------------------------------
TypeOK ==
    /\ belt \in [units : Seq(Unit), link : {"up", "reset", "down"}]
    /\ sensed \in Seq(Unit) /\ Len(sensed) <= 2 * MaxSensed
    /\ msg \in Seq(Unit) /\ Len(msg) <= BufSize
    /\ snd \in {"select", "write", "off"}
    /\ rcv \in [pc : {"read", "got", "off"}, text : Text]
    /\ sockfd \in BOOLEAN
    /\ server \in [waits : Seq(Text), link : {"up", "down"}, sent : 0..MaxTold]
    /\ relayed \in Seq(Unit) /\ told \in Seq(Text)
    /\ running \in BOOLEAN

\* Whatever the pieces in which the belt's lines are read, every one of them is on
\* its way to the server or there, once and in order, and the server never has the
\* beginning of a line only; only the thread's end loses what is in its hands (send_msg).
EveryLineOnItsWay ==
    /\ relayed \o msg \o belt.units = sensed
    /\ relayed # <<>> => Last(relayed).end

\* The end of either connection ends the process (send_msg, recv_msg and main).
EndsWithEither ==
    /\ (belt.link # "up") ~> ~running
    /\ (server.link = "down") ~> ~running
-----------------------------------------------------------------------------
(* The inductive invariant behind EveryLineOnItsWay. *)

\* The belt ends every line it begins before it begins the next.
Alternates == \A i \in DOMAIN sensed : sensed[i].end <=> i % 2 = 0

\* What is about to be written is whole lines.
WriteInv == snd = "write" => msg # <<>> /\ Last(msg).end

IInv == TypeOK /\ Alternates /\ WriteInv /\ EveryLineOnItsWay
=============================================================================
