----------------------------- MODULE LineProofs -----------------------------
(***************************************************************************)
(* What holds of the line for every number of objects, lines, messages,    *)
(* faults and prompts: the SQL client keeps what Dispatch promises         *)
(* although it stands among the others, every order is paid for, and       *)
(* objects are put down in the order the camera saw them.                  *)
(***************************************************************************)
EXTENDS Line, SqlClientProofs, FiniteSetTheorems

-----------------------------------------------------------------------------
(* The SQL client in the line *)

From == {"belt", "sql", "arm"}
SensorText == {"DETECT", "END_DETECT"}

LEMMA FirstOfType ==
    ASSUME NEW S, NEW written \in Seq(S), NEW from \in From, read \in [From -> Nat],
           TakeFrom(from, written)
    PROVE  /\ FirstOf(from, written) \in S /\ read[from] + 1 \in 1 .. Len(written)
           /\ read' \in [From -> Nat] /\ read'[from] = Len(written)
           /\ \A f \in From : f # from => read'[f] = read[f]
<1>1. read[from] \in Nat /\ Len(written) \in Nat /\ read[from] < Len(written)
  BY DEF TakeFrom
<1>2. read[from] + 1 \in 1 .. Len(written)
  BY <1>1
<1> QED
  BY <1>1, <1>2, ElementOfSeq DEF TakeFrom, FirstOf

\* Whatever the server forwards to the client is a step of the client's environment.
LEMMA ToSqlStep ==
    ASSUME NEW text \in Text, ToSql(text)
    PROVE  [Next]_vars /\ UNCHANGED <<snd, rcv, done_flag, orders, restarts, db>>
<1>1. CASE link = "up"
  BY <1>1 DEF ToSql, Arrive, Next
<1>2. CASE link # "up"
  BY <1>2 DEF ToSql, vars, clientVars
<1> QED
  BY <1>1, <1>2

LEMMA Forwarded ==
    ASSUME LineTypeOK
    PROVE  /\ ForwardLine => FirstOf("belt", relayed) \in SensorText
           /\ ForwardOrder => FirstOf("sql", orders) \in Order
<1>1. /\ read \in [From -> Nat] /\ relayed \in Seq(SensorText) /\ orders \in Seq(Order)
  BY DEF LineTypeOK, TypeOK, From, SensorText
<1>2. "belt" \in From /\ "sql" \in From
  BY DEF From
<1>3. ASSUME ForwardLine PROVE FirstOf("belt", relayed) \in SensorText
  <2>1. TakeFrom("belt", relayed)
    BY <1>3 DEF ForwardLine
  <2> QED
    BY <1>1, <1>2, <2>1, FirstOfType
<1>4. ASSUME ForwardOrder PROVE FirstOf("sql", orders) \in Order
  <2>1. TakeFrom("sql", orders)
    BY <1>4 DEF ForwardOrder
  <2> QED
    BY <1>1, <1>2, <2>1, FirstOfType
<1> QED
  BY <1>3, <1>4

\* Every step of the line is a step of the SQL client, or of others without it.
LEMMA LineStepIsClients == LineTypeOK /\ [LineNext]_lineVars => [Next]_vars
<1> SUFFICES ASSUME LineTypeOK, [LineNext]_lineVars PROVE [Next]_vars
  OBVIOUS
<1>1. CASE ForwardLine
  <2>1. FirstOf("belt", relayed) \in Text
    BY <1>1, Forwarded DEF SensorText, Text
  <2> QED
    BY <1>1, <2>1, ToSqlStep DEF ForwardLine
<1>2. CASE ForwardReport \/ Prompt
  <2>1. ReportText \in Text /\ "DONE" \in Text
    BY DEF ReportText, Text
  <2> QED
    BY <1>2, <2>1, ToSqlStep DEF ForwardReport, Prompt
<1>3. CASE ForwardOrder \/ Sense \/ RelayEnds \/ ArmWork \/ ArmSpeaks
  BY <1>3 DEF ForwardOrder, ToArm, Sense, RelayEnds, ArmWork, ArmSpeaks
<1>4. CASE SqlSender \/ SqlReceiver \/ SqlFails \/ SqlCamera
  BY <1>4 DEF SqlSender, SqlReceiver, SqlFails, SqlCamera, Next
<1>5. CASE UNCHANGED lineVars
  BY <1>5 DEF lineVars
<1> QED
  BY <1>1, <1>2, <1>3, <1>4, <1>5 DEF LineNext, Server

LEMMA ClientInv == LineTypeOK /\ IInv /\ [LineNext]_lineVars => IInv'
BY LineStepIsClients, NextType, NextRows, NextTarget, NextSender DEF IInv

-----------------------------------------------------------------------------
(* Types, and what the arm is known to do *)

ArmTypeOK ==
    /\ heard \in Seq(Order) /\ placed \subseteq DOMAIN heard /\ last \in 0..Len(heard)
    /\ stage \in {"rest", "taken", "gripped", "placed"}
    /\ said \in Seq(Arm!Report)

\* The arm's own variables change in these ways only.
LEMMA ArmSteps ==
    ASSUME [LineNext]_lineVars
    PROVE  \/ UNCHANGED armVars
           \/ ForwardOrder
           \/ ArmWork
           \/ ArmSpeaks
BY DEF LineNext, Server, ForwardLine, ForwardReport, Prompt, ToSql, Sense, RelayEnds, SqlSender,
       SqlReceiver, SqlFails, SqlCamera, lineVars

LEMMA HearType ==
    ASSUME LineTypeOK, ForwardOrder
    PROVE  /\ heard' = Append(heard, FirstOf("sql", orders)) /\ heard' \in Seq(Order)
           /\ Len(heard') = Len(heard) + 1 /\ Len(heard) \in Nat
           /\ heard'[Len(heard) + 1] = FirstOf("sql", orders)
           /\ \A i \in 1 .. Len(heard) : heard'[i] = heard[i]
           /\ UNCHANGED <<last, stage, placed, said>>
<1>1. FirstOf("sql", orders) \in Order /\ heard \in Seq(Order)
  BY Forwarded DEF LineTypeOK
<1>2. heard' = Append(heard, FirstOf("sql", orders)) /\ UNCHANGED <<last, stage, placed, said>>
  BY DEF ForwardOrder, ToArm, Arm!Hear
<1> QED
  BY <1>1, <1>2, AppendProperties, LenProperties

LEMMA SpeakType ==
    ASSUME LineTypeOK, ArmSpeaks
    PROVE  said' \in Seq(Arm!Report) /\ UNCHANGED <<heard, last, stage, placed>>
<1>1. PICK n \in 1..last, d \in BOOLEAN : Arm!Say([job |-> n, done |-> d])
  BY DEF ArmSpeaks
<1> DEFINE r == [job |-> n, done |-> d]
<1>2. r \in Arm!Report /\ said \in Seq(Arm!Report)
  BY DEF Arm!Report, LineTypeOK
<1>3. said' = Append(said, r) /\ UNCHANGED <<heard, last, stage, placed>>
  BY <1>1 DEF Arm!Say
<1> QED
  BY <1>2, <1>3, AppendProperties

LEMMA ArmTypeStep == LineTypeOK /\ ArmInv /\ [LineNext]_lineVars => ArmTypeOK'
<1> SUFFICES ASSUME LineTypeOK, ArmInv, [LineNext]_lineVars PROVE ArmTypeOK'
  OBVIOUS
<1>1. /\ heard \in Seq(Order) /\ DOMAIN heard = 1 .. Len(heard) /\ Len(heard) \in Nat
      /\ placed \subseteq DOMAIN heard /\ last \in 0..Len(heard)
      /\ stage \in {"rest", "taken", "gripped", "placed"} /\ said \in Seq(Arm!Report)
  BY DEF LineTypeOK
<1>2. CASE UNCHANGED armVars
  BY <1>1, <1>2 DEF armVars, ArmTypeOK
<1>3. CASE ForwardOrder
  BY <1>1, <1>3, HearType DEF ArmTypeOK
<1>4. CASE ArmWork
  <2>1. CASE \E n \in 1..Len(heard) : Arm!Take(n)
    BY <1>1, <2>1 DEF Arm!Take, ArmTypeOK
  <2>2. CASE Arm!Grip \/ Arm!Rest
    BY <1>1, <2>2 DEF Arm!Grip, Arm!Rest, ArmTypeOK
  <2>3. CASE Arm!PutDown
    <3>1. last \in DOMAIN heard
      BY <1>1, <2>3 DEF ArmInv, Arm!PutDown
    <3> QED
      BY <1>1, <2>3, <3>1 DEF Arm!PutDown, ArmTypeOK
  <2> QED
    BY <1>4, <2>1, <2>2, <2>3 DEF ArmWork
<1>5. CASE ArmSpeaks
  BY <1>1, <1>5, SpeakType DEF ArmTypeOK
<1> QED
  BY <1>2, <1>3, <1>4, <1>5, ArmSteps

BeltTypeOK ==
    /\ sensed \in 0..MaxSensed
    /\ relayed \in Seq(SensorText) /\ relaying \in BOOLEAN
    /\ read \in [From -> Nat]
    /\ faults \in 0..MaxFaults /\ prompts \in 0..MaxPrompts

\* How far the server has read each client.
LEMMA ReadStep ==
    ASSUME LineTypeOK, [LineNext]_lineVars
    PROVE  /\ read' \in [From -> Nat]
           /\ read'["sql"] = IF ForwardOrder THEN Len(orders) ELSE read["sql"]
<1>1. read \in [From -> Nat] /\ Len(relayed) \in Nat /\ Len(orders) \in Nat /\ Len(said) \in Nat
  BY DEF LineTypeOK, TypeOK, From
<1>2. CASE Server
  BY <1>1, <1>2 DEF Server, ForwardLine, ForwardOrder, ForwardReport, TakeFrom, From
<1>3. CASE UNCHANGED read
  <2>1. ~ForwardOrder
    BY <1>1, <1>3 DEF ForwardOrder, TakeFrom, From
  <2> QED
    BY <1>1, <1>3, <2>1
<1> QED
  BY <1>2, <1>3 DEF LineNext, Prompt, Sense, RelayEnds, SqlSender, SqlReceiver, SqlFails, SqlCamera,
     ArmWork, ArmSpeaks, lineVars

LEMMA BeltTypeStep == LineTypeOK /\ [LineNext]_lineVars => BeltTypeOK'
<1> SUFFICES ASSUME LineTypeOK, [LineNext]_lineVars PROVE BeltTypeOK'
  OBVIOUS
<1>1. /\ sensed \in 0..MaxSensed /\ relayed \in Seq(SensorText) /\ relaying \in BOOLEAN
      /\ faults \in 0..MaxFaults /\ prompts \in 0..MaxPrompts
  BY DEF LineTypeOK, SensorText
<1>2. read' \in [From -> Nat]
  BY ReadStep
<1>3. CASE UNCHANGED <<beltVars, faults, prompts>>
  BY <1>1, <1>2, <1>3 DEF beltVars, BeltTypeOK
<1>4. CASE Sense
  <2>1. (IF sensed % 2 = 0 THEN "DETECT" ELSE "END_DETECT") \in SensorText
    BY DEF SensorText
  <2>2. relayed' \in Seq(SensorText)
    BY <1>1, <1>4, <2>1, AppendProperties DEF Sense
  <2> QED
    BY <1>1, <1>2, <1>4, <2>2, LineAssumption DEF Sense, BeltTypeOK
<1>5. CASE RelayEnds
  <2>1. faults' \in 0..MaxFaults
    BY <1>1, <1>5, LineAssumption DEF RelayEnds, Fault
  <2>2. relayed' = relayed /\ sensed' = sensed /\ relaying' \in BOOLEAN /\ prompts' = prompts
    BY <1>5 DEF RelayEnds
  <2> QED
    BY <1>1, <1>2, <2>1, <2>2 DEF BeltTypeOK
<1>6. CASE SqlFails
  BY <1>1, <1>2, <1>6, LineAssumption DEF SqlFails, Fault, BeltTypeOK, beltVars
<1>7. CASE Server
  BY <1>3, <1>7 DEF Server, ForwardLine, ForwardOrder, ForwardReport, ToSql, ToArm
<1>8. CASE SqlSender \/ SqlReceiver \/ SqlCamera \/ ArmWork \/ ArmSpeaks \/ UNCHANGED lineVars
  <2>1. UNCHANGED <<beltVars, faults, prompts>>
    BY <1>8 DEF SqlSender, SqlReceiver, SqlCamera, ArmWork, ArmSpeaks, lineVars
  <2> QED
    BY <1>3, <2>1
<1>9. CASE Prompt
  BY <1>1, <1>2, <1>9, LineAssumption DEF Prompt, ToSql, BeltTypeOK, beltVars
<1> QED
  BY <1>4, <1>5, <1>6, <1>7, <1>8, <1>9 DEF LineNext

LEMMA LineTypeStep == LineTypeOK /\ ArmInv /\ IInv /\ [LineNext]_lineVars => LineTypeOK'
<1> SUFFICES ASSUME LineTypeOK, ArmInv, IInv, [LineNext]_lineVars PROVE LineTypeOK'
  OBVIOUS
<1>1. TypeOK'
  BY ClientInv DEF IInv
<1> QED
  BY <1>1, ArmTypeStep, BeltTypeStep DEF LineTypeOK, ArmTypeOK, BeltTypeOK, From, SensorText

\* The arm works on a job it took.
LEMMA ArmInvStep == LineTypeOK /\ ArmInv /\ [LineNext]_lineVars => ArmInv'
<1> SUFFICES ASSUME LineTypeOK, ArmInv, [LineNext]_lineVars PROVE ArmInv'
  OBVIOUS
<1>1. last \in Nat /\ Len(heard) \in Nat
  BY LenProperties DEF LineTypeOK
<1>2. CASE UNCHANGED <<last, stage>>
  BY <1>2 DEF ArmInv
<1>3. CASE ArmWork
  <2>1. ASSUME NEW n \in 1..Len(heard), Arm!Take(n) PROVE ArmInv'
    BY <1>1, <2>1 DEF Arm!Take, ArmInv
  <2>2. CASE Arm!Grip \/ Arm!Rest \/ Arm!PutDown
    BY <2>2 DEF Arm!Grip, Arm!Rest, Arm!PutDown, ArmInv
  <2> QED
    BY <1>3, <2>1, <2>2 DEF ArmWork
<1>4. CASE ForwardOrder \/ ArmSpeaks
  BY <1>2, <1>4, HearType, SpeakType
<1> QED
  BY <1>2, <1>3, <1>4, ArmSteps DEF armVars

-----------------------------------------------------------------------------
(* Orders, in the first life of the client *)

\* The client's steps, as orders, permits and mail see them.
Issues ==
    /\ Permit /\ snd.pc = "check" /\ snd'.pc = "sent" /\ snd'.id = snd.id /\ snd.last < snd.id
    /\ \E o \in Order : o.id = snd.id /\ orders' = Append(orders, o)
    /\ UNCHANGED <<rcv, done_flag, inbox, restarts>>
Quiet == UNCHANGED <<orders, restarts>> /\ (snd'.pc = "off" \/ OrderedLast' = OrderedLast)

LEMMA SndSteps ==
    ASSUME [Next]_vars
    PROVE  UNCHANGED <<snd, orders, restarts>> \/ Sender \/ Restart
<1>1. CASE Receiver
  BY <1>1 DEF Receiver, Read, ReadEnd, Ignore, Done, Select, Update
<1>2. CASE QueryFails \/ (\E text \in Text : Arrive(text)) \/ HangUp
  BY <1>2 DEF QueryFails, Arrive, HangUp
<1>3. CASE Camera \/ UNCHANGED vars
  BY <1>3 DEF Camera, insert_to_db, vars, clientVars
<1> QED
  BY <1>1, <1>2, <1>3 DEF Next

LEMMA FirstLife ==
    ASSUME IInv, [Next]_vars, restarts' = 0
    PROVE  restarts = 0 /\ ~Restart
<1>1. restarts \in Nat
  BY ClientAssumption DEF IInv, TypeOK
<1>2. ~Restart
  BY <1>1 DEF Restart
<1>3. Sender => UNCHANGED restarts
  BY DEF Sender, Poll, Skip, Send, Sent, SendFails
<1> QED
  BY <1>2, <1>3, SndSteps

LEMMA ClientSteps ==
    ASSUME IInv, [Next]_vars, restarts' = 0
    PROVE  restarts = 0 /\ (Issues \/ Quiet)
<1>1. restarts = 0 /\ ~Restart
  BY FirstLife
<1>2. snd \in SndType
  BY DEF IInv, TypeOK, SndType
<1>3. CASE Send
  <2>1. snd.pc = "check" /\ snd.id # snd.last /\ done_flag /\ snd'.pc = "sent" /\ snd'.id = snd.id
    BY <1>2, <1>3 DEF Send, MaySend, SndType
  <2>2. snd.last < snd.id
    BY <1>2, <2>1, ClientAssumption DEF IInv, SenderInv, SndType, Ids, NoId
  <2>3. snd.id \in DOMAIN db /\ snd.id \in Ids /\ db[snd.id] \in RowType
    BY <2>1, WithRows, ClientAssumption DEF IInv, SenderInv, NotBeyond, TypeOK, Ids
  <2>4. [id |-> snd.id, color |-> db[snd.id].color] \in Order
    BY <2>3 DEF Order, RowType
  <2>5. /\ orders' = Append(orders, [id |-> snd.id, color |-> db[snd.id].color])
        /\ UNCHANGED <<rcv, done_flag, inbox, restarts>>
    BY <1>3 DEF Send
  <2>6. \E o \in Order : o.id = snd.id /\ orders' = Append(orders, o)
    BY <2>4, <2>5
  <2> QED
    BY <1>1, <2>1, <2>2, <2>5, <2>6 DEF Issues, Permit
<1>4. CASE Poll \/ Skip
  BY <1>1, <1>2, <1>4 DEF Poll, Skip, SndType, Quiet, OrderedLast
<1>5. CASE Sent
  BY <1>1, <1>2, <1>5 DEF Sent, SndType, Quiet, OrderedLast
<1>6. CASE SendFails
  BY <1>1, <1>2, <1>6 DEF SendFails, SndType, IdleSnd, Quiet
<1>7. CASE UNCHANGED <<snd, orders, restarts>>
  BY <1>1, <1>7 DEF Quiet, OrderedLast
<1> QED
  BY <1>1, <1>3, <1>4, <1>5, <1>6, <1>7, SndSteps DEF Sender

\* Off is the end of a life.
LEMMA OffStays ==
    ASSUME IInv, [Next]_vars, restarts' = 0, snd.pc = "off"
    PROVE  snd'.pc = "off" /\ UNCHANGED orders
<1>1. ~Sender
  BY DEF Sender, Poll, Skip, Send, Sent, SendFails
<1> QED
  BY <1>1, SndSteps, FirstLife

LEMMA HeardStep ==
    ASSUME [LineNext]_lineVars, ~ForwardOrder
    PROVE  UNCHANGED heard
<1>1. ArmWork => UNCHANGED heard
  BY DEF ArmWork, Arm!Take, Arm!Grip, Arm!PutDown, Arm!Rest
<1>2. ArmSpeaks => UNCHANGED heard
  BY DEF ArmSpeaks, Arm!Say
<1> QED
  BY <1>1, <1>2, ArmSteps DEF armVars

LEMMA IssueKeepsOrder ==
    ASSUME LineTypeOK, OrderInv, Issues, [LineNext]_lineVars
    PROVE  OrderInv'
<1>1. heard' = heard /\ read'["sql"] = read["sql"]
  <2>1. ~ForwardOrder
    BY DEF ForwardOrder, ToArm, vars, clientVars, Issues
  <2> QED
    BY <2>1, HeardStep, ReadStep
<1>2. PICK o \in Order : o.id = snd.id /\ orders' = Append(orders, o)
  BY DEF Issues
<1> DEFINE N == Len(orders)
<1>3. /\ N \in Nat /\ DOMAIN orders = 1..N /\ Len(orders') = N + 1 /\ DOMAIN orders' = 1..N + 1
      /\ orders'[N + 1] = o /\ \A k \in 1..N : orders'[k] = orders[k]
  <2>1. orders \in Seq(Order)
    BY DEF LineTypeOK, TypeOK
  <2> QED
    BY <1>2, <2>1, AppendProperties, LenProperties
<1>4. /\ \A k \in 1..N : orders[k].id \in Nat
      /\ \A i \in DOMAIN heard : heard[i].id \in Nat
  <2>1. orders \in Seq(Order) /\ heard \in Seq(Order) /\ DOMAIN heard = 1..Len(heard)
    BY LenProperties DEF LineTypeOK, TypeOK
  <2>2. \A o1 \in Order : o1.id \in Nat
    BY ClientAssumption DEF Order, Ids
  <2> QED
    BY <2>1, <2>2, ElementOfSeq
<1>5. o.id \in Nat /\ snd.last \in Int /\ snd.last < o.id
  BY <1>2, SMTT(30) DEF Issues, LineTypeOK, TypeOK, Ids, NoId, Order
<1>6. /\ \A k \in 1..N : orders[k].id < o.id
      /\ \A i \in DOMAIN heard : heard[i].id < o.id
  <2>1. /\ \A k \in 1..N : orders[k].id <= snd.last
        /\ \A i \in DOMAIN heard : heard[i].id <= snd.last
    BY <1>3 DEF OrderInv, OrderedLast, Issues
  <2> QED
    BY <1>4, <1>5, <2>1
<1> HIDE DEF N
<1>7. read'["sql"] <= Len(orders')
  <2>1. read["sql"] \in Nat /\ read["sql"] <= N
    BY DEF OrderInv, LineTypeOK, N
  <2> QED
    BY <1>1, <1>3, <2>1
<1>8. Rising(orders') /\ Rising(heard')
  <2>1. \A i, j \in 1..N : i < j => orders[i].id < orders[j].id
    BY <1>3 DEF OrderInv, Rising
  <2>2. ASSUME NEW i \in 1..N + 1, NEW j \in 1..N + 1, i < j PROVE orders'[i].id < orders'[j].id
    <3>1. i \in 1..N /\ (j \in 1..N \/ j = N + 1)
      BY <1>3, <2>2
    <3> QED
      BY <1>3, <1>6, <2>1, <2>2, <3>1
  <2>3. Rising(orders')
    BY <1>3, <2>2 DEF Rising
  <2> QED
    BY <1>1, <2>3 DEF OrderInv, Rising
<1>9. \A i \in DOMAIN heard', k \in DOMAIN orders' :
         read'["sql"] < k => heard'[i].id < orders'[k].id
  <2>1. SUFFICES ASSUME NEW i \in DOMAIN heard, NEW k \in 1..N + 1, read["sql"] < k
                 PROVE  heard[i].id < orders'[k].id
    BY <1>1, <1>3
  <2>2. CASE k \in 1..N
    BY <1>3, <2>1, <2>2 DEF OrderInv
  <2>3. CASE k = N + 1
    BY <1>3, <1>6, <2>3
  <2> QED
    BY <1>3, <2>2, <2>3
<1>10. /\ \A k \in DOMAIN orders' : orders'[k].id <= OrderedLast'
       /\ \A i \in DOMAIN heard' : heard'[i].id <= OrderedLast'
  <2>1. OrderedLast' = o.id
    BY <1>2 DEF OrderedLast, Issues
  <2>2. ASSUME NEW k \in 1..N + 1 PROVE orders'[k].id <= o.id
    <3>1. k \in 1..N \/ k = N + 1
      BY <1>3
    <3> QED
      BY <1>3, <1>4, <1>5, <1>6, <3>1
  <2>3. \A i \in DOMAIN heard : heard[i].id <= o.id
    BY <1>4, <1>5, <1>6
  <2> QED
    BY <1>1, <1>3, <2>1, <2>2, <2>3
<1> QED
  BY <1>7, <1>8, <1>9, <1>10 DEF OrderInv

LEMMA ForwardKeepsOrder ==
    ASSUME LineTypeOK, OrderInv, ForwardOrder
    PROVE  OrderInv'
<1> DEFINE r == read["sql"]
<1>1. /\ UNCHANGED <<orders, snd>> /\ r < Len(orders)
      /\ FirstOf("sql", orders) = orders[r + 1]
  BY DEF ForwardOrder, ToArm, TakeFrom, FirstOf, vars, clientVars
<1>2. r \in Nat /\ Len(orders) \in Nat /\ DOMAIN orders = 1..Len(orders) /\ read'["sql"] = Len(orders)
  <2>1. read \in [From -> Nat] /\ orders \in Seq(Order)
    BY DEF LineTypeOK, TypeOK, From
  <2> QED
    BY <2>1, LenProperties DEF ForwardOrder, TakeFrom, From
<1>3. /\ heard' \in Seq(Order) /\ heard \in Seq(Order) /\ Len(heard) \in Nat /\ Len(heard') = Len(heard) + 1
      /\ heard'[Len(heard) + 1] = orders[r + 1]
      /\ \A i \in 1 .. Len(heard) : heard'[i] = heard[i]
      /\ DOMAIN heard' = 1 .. Len(heard) + 1 /\ DOMAIN heard = 1 .. Len(heard)
  BY <1>1, HearType, LenProperties DEF LineTypeOK
<1> HIDE DEF r
<1>4. r + 1 \in DOMAIN orders /\ r < r + 1
  BY <1>1, <1>2
<1>5. \A i \in 1 .. Len(heard) : heard[i].id < orders[r + 1].id
  BY <1>3, <1>4 DEF OrderInv, r
<1>6. Rising(heard')
  <2>1. \A i, j \in 1 .. Len(heard) : i < j => heard[i].id < heard[j].id
    BY <1>3 DEF OrderInv, Rising
  <2>2. ASSUME NEW i \in 1 .. Len(heard) + 1, NEW j \in 1 .. Len(heard) + 1, i < j
        PROVE  heard'[i].id < heard'[j].id
    <3>1. i \in 1 .. Len(heard) /\ (j \in 1 .. Len(heard) \/ j = Len(heard) + 1)
      BY <1>3, <2>2
    <3> QED
      BY <1>3, <1>5, <2>1, <2>2, <3>1
  <2> QED
    BY <1>3, <2>2 DEF Rising
<1>7. \A k \in DOMAIN orders : ~(Len(orders) < k)
  BY <1>2
<1>8. ASSUME snd.pc # "off"
      PROVE  /\ \A k \in DOMAIN orders : orders[k].id <= OrderedLast
             /\ \A i \in DOMAIN heard' : heard'[i].id <= OrderedLast
  <2>1. /\ \A k \in DOMAIN orders : orders[k].id <= OrderedLast
        /\ \A i \in DOMAIN heard : heard[i].id <= OrderedLast
    BY <1>8 DEF OrderInv
  <2>2. \A i \in 1 .. Len(heard) + 1 : i \in 1 .. Len(heard) \/ i = Len(heard) + 1
    BY <1>3
  <2> QED
    BY <1>3, <1>4, <2>1, <2>2
<1>9. orders' = orders /\ snd'.pc = snd.pc /\ OrderedLast' = OrderedLast
  BY <1>1 DEF OrderedLast
<1>10. Rising(orders)
  BY DEF OrderInv
<1>11. read'["sql"] <= Len(orders')
  BY <1>2, <1>9
<1>12. Rising(orders')
  BY <1>9, <1>10 DEF Rising
<1>13. \A i \in DOMAIN heard', k \in DOMAIN orders' :
          read'["sql"] < k => heard'[i].id < orders'[k].id
  BY <1>2, <1>7, <1>9
<1> QED
  BY <1>6, <1>8, <1>9, <1>11, <1>12, <1>13 DEF OrderInv

LEMMA OrderStep ==
    ASSUME LineTypeOK, IInv, OrderInv, [LineNext]_lineVars, restarts' = 0
    PROVE  OrderInv'
<1>1. [Next]_vars
  BY LineStepIsClients
<1>2. CASE Issues
  BY <1>2, IssueKeepsOrder
<1>3. CASE ForwardOrder
  BY <1>3, ForwardKeepsOrder
<1>4. CASE Quiet /\ ~ForwardOrder
  <2>1. orders' = orders /\ heard' = heard /\ read'["sql"] = read["sql"]
    BY <1>4, HeardStep, ReadStep DEF Quiet
  <2>2. snd'.pc # "off" => snd.pc # "off" /\ OrderedLast' = OrderedLast
    BY <1>1, <1>4, OffStays DEF Quiet
  <2> QED
    BY <2>1, <2>2 DEF OrderInv, Rising
<1> QED
  BY <1>1, <1>2, <1>3, <1>4, ClientSteps

-----------------------------------------------------------------------------
(* What is paid for, and what is still to be spent *)

Dones(mail) == {i \in DOMAIN mail : mail[i] = "DONE"}

LEMMA DonesCount ==
    ASSUME NEW mail \in Seq(Text)
    PROVE  IsFiniteSet(Dones(mail)) /\ Cardinality(Dones(mail)) \in Nat
<1>1. Len(mail) \in Nat /\ Dones(mail) \subseteq 1 .. Len(mail)
  BY LenProperties DEF Dones
<1>2. IsFiniteSet(1 .. Len(mail))
  BY <1>1, FS_Interval
<1> QED
  BY <1>1, <1>2, FS_Subset, FS_CardinalityType

LEMMA DonesAppend ==
    ASSUME NEW mail \in Seq(Text), NEW text \in Text
    PROVE  /\ Cardinality(Dones(Append(mail, text))) <= Cardinality(Dones(mail)) + 1
           /\ text # "DONE" => Dones(Append(mail, text)) = Dones(mail)
<1> DEFINE more == Append(mail, text)
<1>1. /\ Len(mail) \in Nat /\ DOMAIN mail = 1 .. Len(mail) /\ DOMAIN more = 1 .. Len(mail) + 1
      /\ more[Len(mail) + 1] = text /\ \A i \in 1 .. Len(mail) : more[i] = mail[i]
  BY AppendProperties, LenProperties
<1>2. IsFiniteSet(Dones(mail)) /\ Cardinality(Dones(mail)) \in Nat
  BY DonesCount
<1> HIDE DEF more
<1>3. text # "DONE" => Dones(more) = Dones(mail)
  BY <1>1 DEF Dones
<1>4. text = "DONE" => Dones(more) = Dones(mail) \cup {Len(mail) + 1} /\ Len(mail) + 1 \notin Dones(mail)
  BY <1>1 DEF Dones
<1>5. text = "DONE" => Cardinality(Dones(more)) = Cardinality(Dones(mail)) + 1
  BY <1>2, <1>4, FS_AddElement
<1> QED
  BY <1>2, <1>3, <1>5 DEF more

\* What the counts are, before and after a step.
LEMMA Counts ==
    ASSUME LineTypeOK, LineTypeOK'
    PROVE  /\ Len(orders) \in Nat /\ Len(orders') \in Nat
           /\ restarts \in Nat /\ restarts' \in Nat /\ prompts \in Nat /\ prompts' \in Nat
           /\ Cardinality(InMail) \in Nat /\ Cardinality(InMail') \in Nat
           /\ InMail = Dones(inbox) /\ InMail' = Dones(inbox')
           /\ inbox \in Seq(Text) /\ Unspent \in Nat /\ Unspent' \in Nat
<1>1. inbox \in Seq(Text) /\ inbox' \in Seq(Text) /\ orders \in Seq(Order) /\ orders' \in Seq(Order)
  BY DEF LineTypeOK, TypeOK
<1>2. restarts \in Nat /\ restarts' \in Nat /\ prompts \in Nat /\ prompts' \in Nat
  BY ClientAssumption, LineAssumption DEF LineTypeOK, TypeOK
<1>3. InMail = Dones(inbox) /\ InMail' = Dones(inbox')
  BY DEF InMail, Dones
<1>4. Cardinality(InMail) \in Nat /\ Cardinality(InMail') \in Nat
  BY <1>1, <1>3, DonesCount
<1>5. Unspent \in Nat /\ Unspent' \in Nat
  BY <1>4 DEF Unspent
<1> QED
  BY <1>1, <1>2, <1>3, <1>4, <1>5, LenProperties

\* Nothing is ordered and nothing comes in.
LEMMA PaidFades ==
    ASSUME LineTypeOK, LineTypeOK', OrdersPaid, UNCHANGED <<orders, restarts, prompts>>,
           Permit' => Permit, InHand' => InHand, inbox' = inbox
    PROVE  OrdersPaid'
<1>1. Cardinality(InMail') = Cardinality(InMail) /\ Cardinality(InMail) \in Nat
  BY Counts
<1>2. Unspent' <= Unspent
  BY <1>1 DEF Unspent
<1> QED
  BY <1>2, Counts DEF OrdersPaid

LEMMA MailPaid ==
    ASSUME LineTypeOK, LineTypeOK', OrdersPaid, NEW text \in Text, ToSql(text),
           IF text = "DONE" THEN prompts' = prompts + 1 ELSE prompts' = prompts
    PROVE  OrdersPaid'
<1>1. UNCHANGED <<snd, rcv, done_flag, orders, restarts>>
  BY ToSqlStep
<1>2. inbox' = inbox \/ inbox' = Append(inbox, text)
  BY DEF ToSql, Arrive, vars, clientVars
<1>3. /\ Cardinality(InMail') <= Cardinality(InMail) + 1
      /\ text # "DONE" => Cardinality(InMail') = Cardinality(InMail)
  <2>1. CASE inbox' = inbox
    BY <2>1, Counts
  <2>2. CASE inbox' = Append(inbox, text)
    BY <2>2, Counts, DonesAppend
  <2> QED
    BY <1>2, <2>1, <2>2
<1>4. (Permit' <=> Permit) /\ (InHand' <=> InHand)
  BY <1>1 DEF Permit, InHand
<1>5. Cardinality(InMail) \in Nat /\ Cardinality(InMail') \in Nat
  BY Counts
<1>6. Unspent' <= Unspent + 1 /\ (text # "DONE" => Unspent' = Unspent)
  BY <1>3, <1>4, <1>5 DEF Unspent
<1>7. /\ Len(orders) \in Nat /\ Unspent \in Nat /\ Unspent' \in Nat
      /\ restarts \in Nat /\ prompts \in Nat
  BY Counts
<1>8. CASE text = "DONE"
  BY <1>1, <1>6, <1>7, <1>8 DEF OrdersPaid
<1>9. CASE text # "DONE"
  BY <1>1, <1>6, <1>9 DEF OrdersPaid
<1> QED
  BY <1>8, <1>9

LEMMA SendPaid ==
    ASSUME LineTypeOK, LineTypeOK', OrdersPaid, Send, UNCHANGED prompts
    PROVE  OrdersPaid'
<1>1. /\ Permit /\ snd'.pc = "sent" /\ UNCHANGED <<rcv, inbox, restarts>>
      /\ orders' = Append(orders, [id |-> snd.id, color |-> db[snd.id].color])
  <2>1. snd \in SndType
    BY DEF LineTypeOK, TypeOK, SndType
  <2> QED
    BY <2>1 DEF Send, MaySend, Permit, SndType
<1>2. Len(orders') = Len(orders) + 1
  <2>1. orders \in Seq(Order)
    BY DEF LineTypeOK, TypeOK
  <2> QED
    BY <1>1, <2>1
<1>3. Permit /\ ~Permit' /\ (InHand' <=> InHand) /\ InMail' = InMail
  BY <1>1 DEF Permit, InHand, InMail
<1>4. Unspent' + 1 = Unspent
  BY <1>3, Counts DEF Unspent
<1> QED
  BY <1>1, <1>2, <1>4, Counts DEF OrdersPaid

LEMMA OthersOfSender ==
    ASSUME LineTypeOK, LineTypeOK', OrdersPaid, Poll \/ Skip \/ Sent \/ SendFails, UNCHANGED prompts
    PROVE  OrdersPaid'
<1>1. snd \in SndType /\ rcv \in RcvType
  BY DEF LineTypeOK, TypeOK, SndType, RcvType
<1>2. Permit' => Permit
  BY <1>1 DEF Poll, Skip, Sent, SendFails, Permit, SndType, IdleSnd
<1>3. InHand' => InHand
  BY <1>1 DEF Poll, Skip, Sent, SendFails, InHand, RcvType, IdleRcv
<1>4. UNCHANGED <<inbox, orders, restarts>>
  BY DEF Poll, Skip, Sent, SendFails
<1> QED
  BY <1>2, <1>3, <1>4, PaidFades

LEMMA DonePaid ==
    ASSUME LineTypeOK, LineTypeOK', OrdersPaid, Done, UNCHANGED prompts
    PROVE  OrdersPaid'
<1>1. UNCHANGED <<inbox, orders, restarts>> /\ InHand /\ ~InHand'
  <2>1. rcv \in RcvType
    BY DEF LineTypeOK, TypeOK, RcvType
  <2> QED
    BY <2>1 DEF Done, InHand, RcvType
<1>2. Cardinality(InMail') = Cardinality(InMail)
  BY <1>1, Counts
<1>3. Unspent' <= Unspent
  BY <1>1, <1>2, Counts DEF Unspent
<1> QED
  BY <1>1, <1>3, Counts DEF OrdersPaid

\* A DONE that is read alone comes in hand; one that is read with others is lost.
LEMMA ReadPaid ==
    ASSUME LineTypeOK, LineTypeOK', OrdersPaid, Read, UNCHANGED prompts
    PROVE  OrdersPaid'
<1>1. /\ UNCHANGED <<orders, snd, done_flag, restarts>> /\ ~InHand /\ inbox' = <<>>
      /\ InHand' => Len(inbox) = 1 /\ inbox[1] = "DONE"
  <2>1. rcv \in RcvType
    BY DEF LineTypeOK, TypeOK, RcvType
  <2> QED
    BY <2>1 DEF Read, InHand, RcvType
<1>2. Cardinality(InMail') = 0
  <2>1. InMail' = {}
    BY <1>1 DEF InMail
  <2> QED
    BY <2>1, FS_EmptySet
<1>3. InHand' => Cardinality(InMail) > 0
  <2>1. SUFFICES ASSUME InHand' PROVE Cardinality(InMail) > 0
    OBVIOUS
  <2>2. inbox \in Seq(Text) /\ IsFiniteSet(InMail)
    BY Counts, DonesCount
  <2>3. 1 \in InMail
    BY <1>1, <2>1, <2>2 DEF InMail
  <2> QED
    BY <2>2, <2>3, FS_EmptySet, Counts
<1>4. Permit' <=> Permit
  BY <1>1 DEF Permit
<1>5. Unspent' <= Unspent
  BY <1>1, <1>2, <1>3, <1>4, Counts DEF Unspent
<1> QED
  BY <1>1, <1>5, Counts DEF OrdersPaid

LEMMA OthersOfReceiver ==
    ASSUME LineTypeOK, LineTypeOK', OrdersPaid,
           ReadEnd \/ Ignore \/ Select \/ Update \/ QueryFails, UNCHANGED prompts
    PROVE  OrdersPaid'
<1>1. UNCHANGED <<inbox, orders, snd, done_flag, restarts>>
  BY DEF ReadEnd, Ignore, Select, Update, QueryFails
<1>2. rcv'.pc # "got"
  <2>1. rcv \in RcvType
    BY DEF LineTypeOK, TypeOK, RcvType
  <2> QED
    BY <2>1 DEF ReadEnd, Ignore, Select, Update, QueryFails, RcvType
<1>3. ~InHand' /\ (Permit' <=> Permit)
  BY <1>1, <1>2 DEF InHand, Permit
<1> QED
  BY <1>1, <1>3, PaidFades

LEMMA RestartPaid ==
    ASSUME LineTypeOK, LineTypeOK', OrdersPaid, Restart, UNCHANGED prompts
    PROVE  OrdersPaid'
<1>1. /\ UNCHANGED orders /\ restarts' = restarts + 1 /\ inbox' = <<>>
      /\ ~InHand'
  BY DEF Restart, InHand, IdleRcv
<1>2. Cardinality(InMail') = 0
  <2>1. InMail' = {}
    BY <1>1 DEF InMail
  <2> QED
    BY <2>1, FS_EmptySet
<1>3. Unspent' <= 1
  BY <1>1, <1>2 DEF Unspent
<1>4. /\ Len(orders) \in Nat /\ Unspent \in Nat /\ Unspent' \in Nat
      /\ restarts \in Nat /\ prompts \in Nat
  BY Counts
<1> QED
  BY <1>1, <1>3, <1>4 DEF OrdersPaid

LEMMA PaidStep ==
    ASSUME LineTypeOK, LineTypeOK', OrdersPaid, [LineNext]_lineVars
    PROVE  OrdersPaid'
<1>1. CASE ForwardLine
  <2>1. FirstOf("belt", relayed) \in Text /\ FirstOf("belt", relayed) # "DONE"
    BY <1>1, Forwarded DEF SensorText, Text
  <2> QED
    BY <1>1, <2>1, MailPaid DEF ForwardLine
<1>2. CASE ForwardReport
  <2>1. ReportText \in Text /\ ReportText # "DONE"
    BY DEF ReportText, Text
  <2> QED
    BY <1>2, <2>1, MailPaid DEF ForwardReport
<1>3. CASE Prompt
  <2>1. "DONE" \in Text
    BY DEF Text
  <2> QED
    BY <1>3, <2>1, MailPaid DEF Prompt
<1>4. CASE UNCHANGED <<snd, rcv, done_flag, inbox, orders, restarts, prompts>>
  BY <1>4, PaidFades DEF Permit, InHand
<1>5. CASE ForwardOrder \/ Sense \/ RelayEnds \/ ArmWork \/ ArmSpeaks \/ UNCHANGED lineVars
  BY <1>4, <1>5 DEF ForwardOrder, ToArm, Sense, RelayEnds, ArmWork, ArmSpeaks, vars, clientVars, lineVars
<1>6. CASE SqlSender
  BY <1>6, SendPaid, OthersOfSender DEF SqlSender, Sender
<1>7. CASE SqlReceiver
  BY <1>7, DonePaid, ReadPaid, OthersOfReceiver DEF SqlReceiver, Receiver
<1>8. CASE SqlFails
  <2>1. HangUp => UNCHANGED <<snd, rcv, done_flag, inbox, orders, restarts>>
    BY DEF HangUp
  <2> QED
    BY <1>4, <1>8, <2>1, OthersOfReceiver, RestartPaid DEF SqlFails
<1>9. CASE SqlCamera
  BY <1>4, <1>9 DEF SqlCamera, Camera, insert_to_db, clientVars
<1> QED
  BY <1>1, <1>2, <1>3, <1>5, <1>6, <1>7, <1>8, <1>9 DEF LineNext, Server

-----------------------------------------------------------------------------
(* The theorems *)

LEMMA LineInitInv == LineInit => LineInv
<1> SUFFICES ASSUME LineInit PROVE LineInv
  OBVIOUS
<1> USE DEF LineInit, Arm!Init
<1>1. IInv
  BY InitInv
<1>2. LineTypeOK
  <2>1. /\ read \in [{"belt", "sql", "arm"} -> Nat] /\ faults \in 0..MaxFaults /\ sensed \in 0..MaxSensed
        /\ relayed \in Seq({"DETECT", "END_DETECT"}) /\ relaying \in BOOLEAN /\ prompts \in 0..MaxPrompts
    BY LineAssumption
  <2>2. /\ heard \in Seq(Order) /\ placed \subseteq DOMAIN heard /\ last \in 0..Len(heard)
        /\ said \in Seq(Arm!Report) /\ stage = "rest"
    OBVIOUS
  <2> QED
    BY <1>1, <2>1, <2>2 DEF LineTypeOK, IInv
<1>3. ArmInv
  BY DEF ArmInv
<1>4. orders = <<>> /\ inbox = <<>> /\ rcv.pc = "read" /\ restarts = 0 /\ prompts = 0
  BY DEF Init, IdleRcv
<1>5. OrderInv
  BY <1>4 DEF OrderInv, Rising
<1>6. OrdersPaid
  <2>1. InMail = {} /\ ~InHand
    BY <1>4 DEF InMail, InHand
  <2>2. Unspent \in {0, 1}
    BY <2>1, FS_EmptySet DEF Unspent
  <2> QED
    BY <1>4, <2>2 DEF OrdersPaid
<1> QED
  BY <1>1, <1>2, <1>3, <1>5, <1>6 DEF LineInv

LEMMA LineInvStep == LineInv /\ [LineNext]_lineVars => LineInv'
<1> SUFFICES ASSUME LineInv, [LineNext]_lineVars PROVE LineInv'
  OBVIOUS
<1>1. LineTypeOK /\ IInv /\ ArmInv /\ OrdersPaid
  BY DEF LineInv
<1>2. LineTypeOK' /\ IInv' /\ ArmInv'
  BY <1>1, LineTypeStep, ClientInv, ArmInvStep
<1>3. ASSUME restarts' = 0 PROVE OrderInv'
  <2>1. OrderInv
    BY <1>1, <1>3, LineStepIsClients, FirstLife DEF LineInv
  <2> QED
    BY <1>1, <1>3, <2>1, OrderStep
<1>4. OrdersPaid'
  BY <1>1, <1>2, PaidStep
<1> QED
  BY <1>2, <1>3, <1>4 DEF LineInv

\* The inductive invariant: the client's own, that every order is paid for, and in the
\* client's first life the ids of what is ordered and heard.
THEOREM LineInvariance == LineSpec => []LineInv
BY LineInitInv, LineInvStep, PTL DEF LineSpec

\* Every variable of the line keeps its type.
THEOREM LineTypeCorrect == LineSpec => []LineTypeOK
<1>1. LineInv => LineTypeOK
  BY DEF LineInv
<1> QED
  BY LineInvariance, <1>1, PTL

\* However often the client is started again and whoever says DONE, there is never an
\* order more than lives and DONEs, with what is still to be spent counted: the race for
\* done_flag and a joined read only lose permits (send_msg and recv_msg).  Nobody on the
\* line says DONE (prompts = 0), so a life of the client writes one order and no more.
THEOREM EveryOrderPaid == LineSpec => []OrdersPaid
<1>1. LineInv => OrdersPaid
  BY DEF LineInv
<1> QED
  BY LineInvariance, <1>1, PTL

LEMMA InOrder == LineInv => PlacedInOrder
<1> SUFFICES ASSUME LineInv, restarts = 0, NEW m \in placed, NEW n \in placed, m < n
             PROVE  heard[m].id < heard[n].id
  BY DEF PlacedInOrder
<1>1. m \in DOMAIN heard /\ n \in DOMAIN heard
  BY DEF LineInv, LineTypeOK
<1> QED
  BY <1>1 DEF LineInv, OrderInv, Rising

\* Until the client is started again the arm puts objects down in the order the camera
\* saw them, and none twice, whoever says DONE (send_msg's last_sent_id, through the
\* server, which may lose an order, to the arm, which may overhear one).
THEOREM DownInOrder == LineSpec => []PlacedInOrder
BY LineInvariance, InOrder, PTL

\* The client keeps what Dispatch promises with the whole line as its environment: each
\* order against a permit, ids rising in each life (send_msg and recv_msg).
THEOREM LineRefinement == LineSpec => DispatchRefined
<1>1. LineInit => Dispatched!Init
  BY DEF LineInit, Init, IdleSnd, NoId, Dispatched!Init
<1>2. LineInv /\ [LineNext]_lineVars => [Dispatched!Next]_Dispatched!dispatchVars
  BY LineStepIsClients, StepRefines DEF LineInv
<1> QED
  BY LineInvariance, <1>1, <1>2, PTL DEF LineSpec, DispatchRefined, Dispatched!Spec
=============================================================================
