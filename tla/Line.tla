-------------------------------- MODULE Line --------------------------------
(***************************************************************************)
(* The line: colour detector, SQL client, Bluetooth client and robot arm,  *)
(* around the message server.  The server passes on, in order, the first   *)
(* of the messages that one read takes together; a token that strtok gives *)
(* to the wrong thread (MailTrue of MCIotServer) is outside this module.   *)
(* The Bluetooth client is what BtClient shows it to be: lines arrive      *)
(* whole and in order, until it ends.  The arm is what ArmService          *)
(* promises.  None of its reports is the DONE recv_msg waits for; whoever  *)
(* else is logged in may send one.                                         *)
(***************************************************************************)
EXTENDS SqlClient, FiniteSets

CONSTANTS
    MaxSensed,      \* bound: lines the sensor ever sends
    MaxFaults,      \* bound: failed queries, ends and restarts, all together
    MaxPrompts      \* how many DONEs another client sends; 0 in the line as it is

VARIABLES
    heard, last, stage, placed, said,                           \* of ArmService
    sensed,     \* how many lines the sensor sent
    relayed,    \* the lines the Bluetooth client wrote to the server, oldest first
    relaying,   \* has it not ended?
    read,       \* how much of each client's writes the server has read
    faults, prompts

armVars == <<heard, last, stage, placed, said>>
beltVars == <<sensed, relayed, relaying>>
lineVars == <<vars, armVars, beltVars, read, faults, prompts>>

ASSUME LineAssumption == MaxSensed \in Nat /\ MaxFaults \in Nat /\ MaxPrompts \in Nat

Arm == INSTANCE ArmService WITH Job <- Order
-----------------------------------------------------------------------------
(* The message server *)

\* A client thread reads all that its client wrote and passes the first message on.
TakeFrom(from, written) ==
    /\ read[from] < Len(written)
    /\ read' = [read EXCEPT ![from] = Len(written)]
FirstOf(from, written) == written[read[from] + 1]

\* Without a connection the SQL client does not get it.
ToSql(text) ==
    /\ IF link = "up" THEN Arrive(text) ELSE UNCHANGED vars
    /\ UNCHANGED <<armVars, beltVars, faults>>
ToArm(order) == Arm!Hear(order) /\ UNCHANGED <<vars, beltVars, faults>>
\* OBJECT_GRIPPING and RED_ACT_DONE_ARM_READY compare with nothing in recv_msg.
ReportText == "OTHER"

ForwardLine == TakeFrom("belt", relayed) /\ ToSql(FirstOf("belt", relayed)) /\ UNCHANGED prompts
ForwardOrder == TakeFrom("sql", orders) /\ ToArm(FirstOf("sql", orders)) /\ UNCHANGED prompts
ForwardReport == TakeFrom("arm", said) /\ ToSql(ReportText) /\ UNCHANGED prompts

\* A client that is not of this line says DONE.
Prompt ==
    /\ prompts < MaxPrompts
    /\ prompts' = prompts + 1
    /\ ToSql("DONE")
    /\ UNCHANGED read

Server == ForwardLine \/ ForwardOrder \/ ForwardReport
-----------------------------------------------------------------------------
(* The belt *)

Fault == faults < MaxFaults /\ faults' = faults + 1

\* The sensor sees an object come, and then go.
Sense ==
    /\ sensed < MaxSensed
    /\ sensed' = sensed + 1
    /\ relayed' = IF relaying
                    THEN Append(relayed, IF sensed % 2 = 0 THEN "DETECT" ELSE "END_DETECT")
                    ELSE relayed
    /\ UNCHANGED <<vars, armVars, relaying, read, faults, prompts>>

RelayEnds ==
    /\ relaying
    /\ relaying' = FALSE
    /\ Fault
    /\ UNCHANGED <<vars, armVars, sensed, relayed, read, prompts>>
-----------------------------------------------------------------------------
(* Steps of one component alone *)

SqlSender == Sender /\ UNCHANGED <<armVars, beltVars, read, faults, prompts>>
SqlReceiver == Receiver /\ UNCHANGED <<armVars, beltVars, read, faults, prompts>>
SqlFails ==
    /\ QueryFails \/ HangUp \/ Restart
    /\ Fault
    /\ UNCHANGED <<armVars, beltVars, read, prompts>>
SqlCamera == Camera /\ UNCHANGED <<armVars, beltVars, read, faults, prompts>>
ArmWork ==
    /\ \/ \E n \in 1..Len(heard) : Arm!Take(n)
       \/ Arm!Grip \/ Arm!PutDown \/ Arm!Rest
    /\ UNCHANGED <<vars, beltVars, read, faults, prompts>>
ArmSpeaks ==
    /\ \E n \in 1..last, d \in BOOLEAN : Arm!Say([job |-> n, done |-> d])
    /\ UNCHANGED <<vars, beltVars, read, faults, prompts>>

LineInit ==
    /\ Init /\ Arm!Init
    /\ sensed = 0 /\ relayed = <<>> /\ relaying = TRUE
    /\ read = [from \in {"belt", "sql", "arm"} |-> 0]
    /\ faults = 0 /\ prompts = 0

LineNext ==
    \/ Server \/ Prompt \/ Sense \/ RelayEnds
    \/ SqlSender \/ SqlReceiver \/ SqlFails \/ SqlCamera
    \/ ArmWork \/ ArmSpeaks

LineSpec == LineInit /\ [][LineNext]_lineVars

\* Threads and processes run on; the arm says in the end what it did.
FairSpec ==
    /\ LineSpec
    /\ WF_lineVars(SqlSender) /\ WF_lineVars(SqlReceiver)
    /\ WF_lineVars(ForwardLine) /\ WF_lineVars(ForwardOrder) /\ WF_lineVars(ForwardReport)
    /\ WF_lineVars(ArmSpeaks)
-----------------------------------------------------------------------------
LineTypeOK ==
    /\ TypeOK
    /\ heard \in Seq(Order) /\ placed \subseteq DOMAIN heard /\ last \in 0..Len(heard)
    /\ stage \in {"rest", "taken", "gripped", "placed"}
    /\ said \in Seq(Arm!Report)
    /\ sensed \in 0..MaxSensed
    /\ relayed \in Seq({"DETECT", "END_DETECT"}) /\ relaying \in BOOLEAN
    /\ read \in [{"belt", "sql", "arm"} -> Nat]
    /\ faults \in 0..MaxFaults /\ prompts \in 0..MaxPrompts

\* Every order is paid for: by its life's first permit or by a DONE of its own.  What is
\* still to be spent is set in done_flag, in recv_msg's hands or in its mail.  Neither the
\* race for done_flag nor a restart pays twice (send_msg and recv_msg, in any order).
Permit == done_flag /\ snd.pc # "sent"
InHand == rcv.pc = "got" /\ rcv.text = "DONE"
InMail == {i \in DOMAIN inbox : inbox[i] = "DONE"}
Unspent == (IF Permit THEN 1 ELSE 0) + (IF InHand THEN 1 ELSE 0) + Cardinality(InMail)
OrdersPaid == Len(orders) + Unspent <= 1 + restarts + prompts

\* Objects are put down in the order the camera saw them, and none twice, in one
\* life of the SQL client, whoever says DONE (send_msg's last_sent_id, through the
\* server, which may lose an order, to the arm, which may overhear one).
PlacedInOrder ==
    restarts = 0 => \A m, n \in placed : m < n => heard[m].id < heard[n].id
-----------------------------------------------------------------------------
(* The inductive invariant behind PlacedInOrder. *)

ArmInv == stage # "rest" => last > 0

\* In its first life the client writes the orders with rising ids; those the arm heard
\* are among the ones the server has read.
OrderedLast == IF snd.pc = "sent" THEN snd.id ELSE snd.last
Rising(s) == \A i, j \in DOMAIN s : i < j => s[i].id < s[j].id
OrderInv ==
    /\ read["sql"] <= Len(orders)
    /\ Rising(orders) /\ Rising(heard)
    /\ \A i \in DOMAIN heard, k \in DOMAIN orders :
           read["sql"] < k => heard[i].id < orders[k].id
    /\ snd.pc # "off" =>
           /\ \A k \in DOMAIN orders : orders[k].id <= OrderedLast
           /\ \A i \in DOMAIN heard : heard[i].id <= OrderedLast

LineInv ==
    /\ LineTypeOK /\ IInv /\ ArmInv /\ OrdersPaid
    /\ restarts = 0 => OrderInv
=============================================================================
