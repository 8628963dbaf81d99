-------------------------- MODULE SqlClientProofs --------------------------
(***************************************************************************)
(* What holds of SqlClient for every number of rows, messages and          *)
(* restarts: the rows stay in order, and the client implements Dispatch.   *)
(***************************************************************************)
EXTENDS SqlClient, SequenceTheorems, WellFoundedInduction, TLAPS

-----------------------------------------------------------------------------
\* A set of naturals that is not empty has a first member.
LEMMA FirstIs ==
    ASSUME NEW S, S \subseteq Nat, S # {}
    PROVE  First(S) \in S /\ \A j \in S : First(S) <= j
<1> DEFINE R == OpToRel(<, Nat)
<1>1. IsWellFoundedOn(R, Nat)
  BY NatLessThanWellFounded
<1>2. \A i, j \in S : j < i => <<j, i>> \in R
  BY DEF OpToRel
<1> HIDE DEF R
<1>3. PICK i \in S : \A j \in S : ~(<<j, i>> \in R)
  BY <1>1, WFMin
<1>4. ASSUME NEW j \in S PROVE i <= j
  <2>1. i \in Nat /\ j \in Nat
    OBVIOUS
  <2>2. ~(j < i)
    BY <1>2, <1>3, Zenon
  <2> QED
    BY <2>1, <2>2
<1> QED
  BY <1>4 DEF First

\* The rows of a status are numbers of rows.
LEMMA WithRows ==
    ASSUME TypeOK, NEW status
    PROVE  With(status) \subseteq Ids /\ With(status) \subseteq Nat
<1>1. DOMAIN db = 1 .. Len(db) /\ Len(db) \in Nat /\ Len(db) <= MaxRow
  BY DEF TypeOK
<1> QED
  BY <1>1, ClientAssumption DEF With, Ids

LEMMA FirstWith ==
    ASSUME TypeOK, NEW status, With(status) # {}
    PROVE  /\ First(With(status)) \in With(status) /\ First(With(status)) \in Ids
           /\ \A j \in With(status) : First(With(status)) <= j
BY WithRows, FirstIs

-----------------------------------------------------------------------------
(* Type correctness *)

SndType == [pc : {"poll", "check", "sent", "off"}, id : Ids \cup {NoId}, last : Ids \cup {NoId}]
RcvType == [pc : {"read", "got", "update", "off"}, text : Text, target : Ids \cup {NoId}]

LEMMA InitType == Init => TypeOK
<1> SUFFICES ASSUME Init PROVE TypeOK
  OBVIOUS
<1>1. db \in Seq(RowType) /\ Len(db) = 0 /\ inbox \in Seq(Text) /\ orders \in Seq(Order)
  BY DEF Init
<1>2. snd \in SndType /\ rcv \in RcvType
  BY DEF Init, IdleSnd, IdleRcv, SndType, RcvType, Text
<1>3. done_flag \in BOOLEAN
  BY Zenon DEF Init
<1> QED
  BY <1>1, <1>2, <1>3, ClientAssumption DEF Init, TypeOK, SndType, RcvType

\* An update leaves the rows' colours and number alone.
LEMMA UpdateType ==
    ASSUME TypeOK, TargetInv, Update
    PROVE  /\ rcv.target \in DOMAIN db
           /\ db' \in Seq(RowType) /\ Len(db') = Len(db)
           /\ DOMAIN db' = DOMAIN db
           /\ \A i \in DOMAIN db : db'[i].ir = IF i = rcv.target THEN After(rcv.text) ELSE db[i].ir
<1>1. rcv.target \in DOMAIN db
  BY DEF Update, TargetInv, With
<1>2. db[rcv.target] \in RowType
  BY <1>1 DEF TypeOK
<1>3. [db[rcv.target] EXCEPT !.ir = After(rcv.text)] \in RowType
  BY <1>2 DEF RowType, After
<1>4. db' = [db EXCEPT ![rcv.target] = [db[rcv.target] EXCEPT !.ir = After(rcv.text)]]
  BY DEF Update
<1>5. db' \in Seq(RowType) /\ Len(db') = Len(db) /\ DOMAIN db' = DOMAIN db
  BY <1>1, <1>3, <1>4, ExceptSeq DEF TypeOK
<1>6. \A i \in DOMAIN db : db[i] \in RowType
  BY DEF TypeOK
<1>7. \A i \in DOMAIN db : db'[i].ir = IF i = rcv.target THEN After(rcv.text) ELSE db[i].ir
  BY <1>1, <1>2, <1>4 DEF RowType
<1> QED
  BY <1>1, <1>5, <1>7

LEMMA InsertType ==
    ASSUME TypeOK, NEW c \in Colour, insert_to_db(c)
    PROVE  /\ db' \in Seq(RowType) /\ Len(db') = Len(db) + 1 /\ Len(db') <= MaxRow
           /\ DOMAIN db' = 1 .. Len(db) + 1 /\ DOMAIN db = 1 .. Len(db) /\ Len(db) \in Nat
           /\ \A i \in DOMAIN db : db'[i] = db[i]
           /\ db'[Len(db) + 1].ir = "null"
<1> DEFINE row == [color |-> c, ir |-> "null"]
<1>1. row \in RowType
  BY DEF RowType
<1>2. db \in Seq(RowType) /\ Len(db) \in Nat /\ DOMAIN db = 1 .. Len(db)
  BY DEF TypeOK
<1>3. db' = Append(db, row) /\ Len(db) < MaxRow
  BY DEF insert_to_db
<1>4. /\ db' \in Seq(RowType) /\ Len(db') = Len(db) + 1
      /\ \A i \in 1 .. Len(db) : db'[i] = db[i]
      /\ db'[Len(db) + 1] = row
  BY <1>1, <1>2, <1>3, AppendProperties
<1>5. DOMAIN db' = 1 .. Len(db')
  BY <1>4
<1>6. row.ir = "null"
  OBVIOUS
<1> QED
  BY <1>2, <1>3, <1>4, <1>5, <1>6, ClientAssumption

LEMMA NextType == TypeOK /\ TargetInv /\ SenderInv /\ [Next]_vars => TypeOK'
<1> SUFFICES ASSUME TypeOK, TargetInv, SenderInv, [Next]_vars PROVE TypeOK'
  OBVIOUS
<1> USE DEF SndType, RcvType
<1>1. CASE Camera
  BY <1>1, InsertType DEF Camera, insert_to_db, clientVars, TypeOK
<1>2. CASE Sender
  <2>1. CASE Poll
    <3>1. First(With("1")) \in Ids
      BY <2>1, FirstWith DEF Poll
    <3> QED
      BY <2>1, <3>1 DEF Poll, TypeOK
  <2>2. CASE Skip \/ Sent
    BY <2>2 DEF Skip, Sent, TypeOK
  <2>3. CASE Send
    <3>1. snd.id \in DOMAIN db
      BY <2>3 DEF Send, SenderInv, NotBeyond
    <3>2. snd.id \in Ids /\ db[snd.id] \in RowType
      BY <3>1, WithRows, ClientAssumption DEF TypeOK, Ids
    <3>3. [id |-> snd.id, color |-> db[snd.id].color] \in Order
      BY <3>2 DEF RowType, Order
    <3>4. orders' \in Seq(Order)
      BY <2>3, <3>3, AppendProperties DEF Send, TypeOK
    <3> QED
      BY <2>3, <3>4 DEF Send, TypeOK
  <2>4. CASE SendFails
    <3>1. [IdleSnd EXCEPT !.pc = "off"] \in SndType /\ [IdleRcv EXCEPT !.pc = "off"] \in RcvType
      BY DEF IdleSnd, IdleRcv, Text
    <3> QED
      BY <2>4, <3>1 DEF SendFails, TypeOK
  <2> QED
    BY <1>2, <2>1, <2>2, <2>3, <2>4 DEF Sender
<1>3. CASE Receiver
  <2>1. CASE Read
    <3>1. inbox # <<>> => inbox[1] \in Text
      BY EmptySeq DEF TypeOK
    <3>2. (IF Len(inbox) = 1 THEN inbox[1] ELSE "OTHER") \in Text
      BY <2>1, <3>1 DEF Read, Text
    <3>3. rcv' \in RcvType
      BY <2>1, <3>2 DEF Read, TypeOK
    <3> QED
      BY <2>1, <3>3, EmptySeq DEF Read, TypeOK
  <2>2. CASE ReadEnd \/ Ignore \/ Done
    BY <2>2 DEF ReadEnd, Ignore, Done, TypeOK
  <2>3. CASE Select
    <3>1. With(Before(rcv.text)) # {} => First(With(Before(rcv.text))) \in Ids
      BY FirstWith
    <3>2. rcv' \in RcvType
      BY <2>3, <3>1 DEF Select, TypeOK
    <3> QED
      BY <2>3, <3>2 DEF Select, TypeOK
  <2>4. CASE Update
    BY <2>4, UpdateType DEF Update, TypeOK
  <2> QED
    BY <1>3, <2>1, <2>2, <2>3, <2>4 DEF Receiver
<1>4. CASE QueryFails
  BY <1>4 DEF QueryFails, TypeOK
<1>5. CASE \E text \in Text : Arrive(text)
  <2>1. inbox' \in Seq(Text)
    BY <1>5, AppendProperties DEF Arrive, TypeOK
  <2> QED
    BY <1>5, <2>1 DEF Arrive, TypeOK
<1>6. CASE HangUp
  BY <1>6 DEF HangUp, TypeOK
<1>7. CASE Restart
  <2>1. IdleSnd \in SndType /\ IdleRcv \in RcvType
    BY DEF IdleSnd, IdleRcv, Text
  <2>2. restarts' \in 0 .. MaxRestarts
    BY <1>7, ClientAssumption DEF Restart, TypeOK
  <2> QED
    BY <1>7, <2>1, <2>2, EmptySeq DEF Restart, TypeOK
<1>8. CASE UNCHANGED vars
  BY <1>8 DEF vars, clientVars, TypeOK
<1> QED
  BY <1>1, <1>2, <1>3, <1>4, <1>5, <1>6, <1>7, <1>8 DEF Next
-----------------------------------------------------------------------------
(* The rows and who points at them *)

LEMMA Ranks == Rank("0") = 0 /\ Rank("1") = 1 /\ Rank("null") = 2
BY DEF Rank

LEMMA Statuses == TypeOK => \A i \in DOMAIN db : db[i].ir \in {"null", "1", "0"}
<1>1. TypeOK => \A i \in DOMAIN db : db[i] \in RowType
  BY DEF TypeOK
<1> QED
  BY <1>1 DEF RowType

\* The rows change only when the camera inserts one or recv_msg updates one.
LEMMA RowSteps ==
    [Next]_vars => db' = db \/ Camera \/ Update
BY DEF Next, Sender, Poll, Skip, Send, Sent, SendFails, Receiver, Read, ReadEnd, Ignore, Done,
   Select, QueryFails, Arrive, HangUp, Restart, vars

LEMMA NextRows == TypeOK /\ RowsInOrder /\ TargetInv /\ [Next]_vars => RowsInOrder'
<1> SUFFICES ASSUME TypeOK, RowsInOrder, TargetInv, [Next]_vars,
                    NEW i \in DOMAIN db', NEW j \in DOMAIN db', i < j
             PROVE  Rank(db'[i].ir) <= Rank(db'[j].ir)
  BY DEF RowsInOrder
<1>1. CASE db' = db
  BY <1>1 DEF RowsInOrder
<1>2. CASE Camera
  <2>1. PICK c \in Colour : insert_to_db(c)
    BY <1>2 DEF Camera
  <2>2. i \in DOMAIN db /\ db'[i] = db[i] /\ Rank(db[i].ir) \in 0 .. 2
    BY <2>1, InsertType, Statuses, Ranks
  <2>3. CASE j \in DOMAIN db
    BY <2>1, <2>2, <2>3, InsertType DEF RowsInOrder
  <2>4. CASE j \notin DOMAIN db
    <3>1. j = Len(db) + 1 /\ db'[j].ir = "null"
      BY <2>1, <2>4, InsertType
    <3> QED
      BY <2>2, <3>1, Ranks
  <2> QED
    BY <2>3, <2>4
<1>3. CASE Update
  <2> DEFINE t == rcv.target
  <2>1. /\ t \in DOMAIN db /\ i \in DOMAIN db /\ j \in DOMAIN db
        /\ db'[i].ir = (IF i = t THEN After(rcv.text) ELSE db[i].ir)
        /\ db'[j].ir = (IF j = t THEN After(rcv.text) ELSE db[j].ir)
    BY <1>3, UpdateType
  <2>2. Rank(db[i].ir) <= Rank(db[j].ir) /\ db[i].ir \in {"null", "1", "0"} /\ db[j].ir \in {"null", "1", "0"}
    BY <2>1, Statuses DEF RowsInOrder
  <2>3. /\ rcv.text \in {"DETECT", "END_DETECT"} /\ db[t].ir = Before(rcv.text)
        /\ db[i].ir = Before(rcv.text) => t <= i
    BY <1>3, <2>1 DEF Update, TargetInv, With
  <2>4. i \in Int /\ j \in Int /\ t \in Int
    BY <2>1 DEF TypeOK
  <2> QED
    BY <2>1, <2>2, <2>3, <2>4, Ranks DEF Before, After
<1> QED
  BY <1>1, <1>2, <1>3, RowSteps

LEMMA NextTarget == TypeOK /\ TargetInv /\ [Next]_vars => TargetInv'
<1> SUFFICES ASSUME TypeOK, TargetInv, [Next]_vars PROVE TargetInv'
  OBVIOUS
<1>1. CASE UNCHANGED <<db, rcv>>
  BY <1>1 DEF TargetInv, With
<1>2. CASE Camera
  <2>1. PICK c \in Colour : insert_to_db(c)
    BY <1>2 DEF Camera
  <2>2. rcv' = rcv
    BY <2>1 DEF insert_to_db, clientVars
  <2>3. \A s : /\ With(s) \subseteq With(s)'
                /\ \A i \in With(s)' : i \in With(s) \/ i = Len(db) + 1
    BY <2>1, InsertType DEF With
  <2>4. \A t \in DOMAIN db : t <= Len(db) + 1
    BY <2>1, InsertType
  <2>5. \A t \in With(Before(rcv.text)) : t \in DOMAIN db
    BY DEF With
  <2> QED
    BY <2>2, <2>3, <2>4, <2>5 DEF TargetInv, Before
<1>3. CASE rcv'.pc # "update"
  BY <1>3 DEF TargetInv
<1>4. CASE Select /\ rcv'.pc = "update"
  <2>1. /\ With(Before(rcv.text)) # {} /\ db' = db /\ rcv.text \in {"DETECT", "END_DETECT"}
        /\ rcv'.text = rcv.text /\ rcv'.target = First(With(Before(rcv.text)))
    BY <1>4 DEF Select, TypeOK
  <2>2. \A s : With(s)' = With(s)
    BY <2>1 DEF With
  <2>3. /\ First(With(Before(rcv.text))) \in With(Before(rcv.text))
        /\ \A i \in With(Before(rcv.text)) : First(With(Before(rcv.text))) <= i
    BY <2>1, FirstWith
  <2> QED
    BY <2>1, <2>2, <2>3 DEF TargetInv, Before
<1>5. CASE Read \/ ReadEnd \/ Ignore \/ Done \/ Update \/ QueryFails \/ Restart \/ SendFails
  <2>1. rcv'.pc # "update" \/ UNCHANGED <<db, rcv>>
    <3> USE DEF TypeOK
    <3>1. CASE Read
      BY <3>1 DEF Read
    <3>2. CASE ReadEnd \/ Ignore \/ Done
      BY <3>2 DEF ReadEnd, Ignore, Done
    <3>3. CASE Update \/ QueryFails
      BY <3>3 DEF Update, QueryFails
    <3>4. CASE Restart \/ SendFails
      BY <3>4 DEF Restart, SendFails, IdleRcv
    <3> QED
      BY <1>5, <3>1, <3>2, <3>3, <3>4
  <2> QED
    BY <2>1, <1>1, <1>3
<1>6. CASE Poll \/ Skip \/ Send \/ Sent \/ HangUp \/ (\E text \in Text : Arrive(text)) \/ UNCHANGED vars
  <2>1. UNCHANGED <<db, rcv>>
    BY <1>6 DEF Poll, Skip, Send, Sent, HangUp, Arrive, vars, clientVars
  <2> QED
    BY <2>1, <1>1
<1> QED
  BY <1>2, <1>3, <1>4, <1>5, <1>6 DEF Next, Sender, Receiver

\* What is not beyond the first row at the sensor stays so, for rows come to the
\* sensor in their order.
LEMMA NotBeyondStays ==
    ASSUME TypeOK, RowsInOrder, TargetInv, [Next]_vars, NEW n, NotBeyond(n)
    PROVE  NotBeyond(n)'
<1>1. CASE db' = db
  BY <1>1 DEF NotBeyond, With
<1>2. CASE Camera
  <2>1. PICK c \in Colour : insert_to_db(c)
    BY <1>2 DEF Camera
  <2>2. With("1")' = With("1")
    BY <2>1, InsertType DEF With
  <2>3. n \in DOMAIN db /\ n \in DOMAIN db' /\ db'[n] = db[n]
    BY <2>1, InsertType DEF NotBeyond
  <2> QED
    BY <2>2, <2>3 DEF NotBeyond
<1>3. CASE Update
  <2> DEFINE t == rcv.target
  <2>1. /\ t \in DOMAIN db /\ n \in DOMAIN db /\ DOMAIN db' = DOMAIN db
        /\ \A i \in DOMAIN db : db'[i].ir = IF i = t THEN After(rcv.text) ELSE db[i].ir
    BY <1>3, UpdateType DEF NotBeyond
  <2>2. rcv.text \in {"DETECT", "END_DETECT"} /\ db[t].ir = Before(rcv.text)
    BY <1>3, <2>1 DEF Update, TargetInv, With
  <2>3. db'[n].ir # "null"
    BY <2>1, <2>2 DEF NotBeyond, After
  <2>4. ASSUME NEW j \in With("1")' PROVE n <= j
    <3>1. j \in DOMAIN db /\ db'[j].ir = "1"
      BY <2>1, <2>4 DEF With
    <3>2. CASE j \in With("1")
      BY <3>2 DEF NotBeyond
    <3>3. CASE j \notin With("1")
      <4>1. j = t /\ db[t].ir = "null"
        BY <2>1, <2>2, <3>1, <3>3 DEF With, After, Before
      <4>2. db[n].ir \in {"1", "0"}
        BY <2>1, Statuses DEF NotBeyond
      <4>3. ~(t < n)
        BY <2>1, <4>1, <4>2, Ranks DEF RowsInOrder
      <4>4. n \in Int /\ t \in Int
        BY <2>1 DEF TypeOK
      <4> QED
        BY <4>1, <4>3, <4>4
    <3> QED
      BY <3>2, <3>3
  <2> QED
    BY <2>1, <2>3, <2>4 DEF NotBeyond
<1> QED
  BY <1>1, <1>2, <1>3, RowSteps

LEMMA NextSender == TypeOK /\ RowsInOrder /\ TargetInv /\ SenderInv /\ [Next]_vars => SenderInv'
<1> SUFFICES ASSUME TypeOK, RowsInOrder, TargetInv, SenderInv, [Next]_vars PROVE SenderInv'
  OBVIOUS
<1>1. \A n : NotBeyond(n) => n \in DOMAIN db' /\ db'[n].ir # "null" /\ \A j \in With("1")' : n <= j
  BY NotBeyondStays DEF NotBeyond
<1>2. snd.id \in Int /\ snd.last \in Int
  BY ClientAssumption DEF TypeOK, Ids, NoId
<1>3. CASE snd' = snd
  BY <1>1, <1>3 DEF SenderInv, NotBeyond
<1>4. CASE Poll
  <2> DEFINE n == First(With("1"))
  <2>1. snd'.pc = "check" /\ snd'.id = n /\ snd'.last = snd.last /\ db' = db
    BY <1>4 DEF Poll, TypeOK
  <2>2. n \in With("1") /\ n \in Ids /\ \A j \in With("1") : n <= j
    BY <1>4, FirstWith DEF Poll
  <2>3. NotBeyond(n)
    BY <2>2 DEF NotBeyond, With
  <2>4. snd.last <= n
    BY <2>2, ClientAssumption DEF SenderInv, NotBeyond, NoId, Ids
  <2> HIDE DEF n
  <2> QED
    BY <1>1, <2>1, <2>3, <2>4 DEF SenderInv, NotBeyond
<1>5. CASE Skip \/ SendFails \/ Restart
  <2>1. snd'.pc \notin {"check", "sent"} /\ snd'.last \in {snd.last, NoId}
    BY <1>5 DEF Skip, SendFails, Restart, IdleSnd, TypeOK
  <2> QED
    BY <1>1, <2>1 DEF SenderInv, NotBeyond
<1>6. CASE Send
  <2>1. snd.pc = "check" /\ snd.id # snd.last /\ snd'.pc = "sent" /\ snd'.id = snd.id /\ snd'.last = snd.last
    BY <1>6 DEF Send, MaySend, TypeOK
  <2> QED
    BY <1>1, <1>2, <2>1 DEF SenderInv, NotBeyond
<1>7. CASE Sent
  <2>1. snd.pc = "sent" /\ snd'.pc = "poll" /\ snd'.last = snd.id
    BY <1>7 DEF Sent, TypeOK
  <2> QED
    BY <1>1, <2>1 DEF SenderInv, NotBeyond
<1>8. CASE \/ Receiver \/ QueryFails \/ Camera \/ (\E text \in Text : Arrive(text)) \/ HangUp
           \/ UNCHANGED vars
  BY <1>3, <1>8 DEF Receiver, Read, ReadEnd, Ignore, Done, Select, Update, QueryFails, Camera, insert_to_db,
     Arrive, HangUp, vars, clientVars
<1> QED
  BY <1>4, <1>5, <1>6, <1>7, <1>8 DEF Next, Sender
-----------------------------------------------------------------------------
(* The theorems *)

LEMMA InitInv == Init => IInv
<1> SUFFICES ASSUME Init PROVE IInv
  OBVIOUS
<1>1. TypeOK
  BY InitType
<1>2. RowsInOrder /\ TargetInv /\ SenderInv
  BY DEF Init, IdleSnd, IdleRcv, NoId, RowsInOrder, TargetInv, SenderInv
<1> QED
  BY <1>1, <1>2 DEF IInv

\* The inductive invariant: the rows at the sensor, the row recv_msg is about to
\* update and the row send_msg is about to order, for every number of rows.
THEOREM Invariance == Spec => []IInv
<1>1. IInv /\ [Next]_vars => IInv'
  BY NextType, NextRows, NextTarget, NextSender DEF IInv
<1> QED
  BY InitInv, <1>1, PTL DEF Spec

\* Every variable of the client and its table keeps its type.
THEOREM TypeCorrect == Spec => []TypeOK
<1>1. IInv => TypeOK
  BY DEF IInv
<1> QED
  BY Invariance, <1>1, PTL

\* The table has the rows that left the sensor, those at it and those that did not come
\* yet, in this order (save_to_db), whatever messages are lost and whichever queries fail.
THEOREM BeltOrder == Spec => []RowsInOrder
<1>1. IInv => RowsInOrder
  BY DEF IInv
<1> QED
  BY Invariance, <1>1, PTL

LEMMA StepRefines == IInv /\ [Next]_vars => [Dispatched!Next]_Dispatched!dispatchVars
<1> SUFFICES ASSUME IInv, [Next]_vars PROVE [Dispatched!Next]_Dispatched!dispatchVars
  OBVIOUS
<1> USE DEF Dispatched!Next, Dispatched!dispatchVars, Dispatched!Issue, Dispatched!Grant, Dispatched!Restart
<1>1. TypeOK /\ SenderInv
  BY DEF IInv
<1>2. CASE Send
  <2>1. snd.pc = "check" /\ snd.id # snd.last /\ done_flag /\ snd'.pc = "sent" /\ snd'.id = snd.id
    BY <1>1, <1>2 DEF Send, MaySend, TypeOK
  <2>2. snd.last < snd.id
    BY <1>1, <2>1, ClientAssumption DEF SenderInv, TypeOK, Ids, NoId
  <2>3. snd.id \in DOMAIN db /\ snd.id \in Ids /\ db[snd.id] \in RowType
    BY <1>1, <2>1, WithRows, ClientAssumption DEF SenderInv, NotBeyond, TypeOK, Ids
  <2> DEFINE o == [id |-> snd.id, color |-> db[snd.id].color]
  <2>4. o \in Order /\ o.id = snd.id
    BY <2>3 DEF Order, RowType
  <2>5. orders' = Append(orders, o)
    BY <1>2 DEF Send
  <2> HIDE DEF o
  <2>6. Dispatched!Issue(o)
    BY <2>1, <2>2, <2>4, <2>5
  <2> QED
    BY <2>4, <2>6
<1>3. CASE Sent
  BY <1>1, <1>3 DEF Sent, TypeOK
<1>4. CASE Poll \/ Skip
  BY <1>1, <1>4 DEF Poll, Skip, TypeOK
<1>5. CASE SendFails \/ Restart
  BY <1>1, <1>5 DEF SendFails, MaySend, Restart, IdleSnd, NoId, TypeOK
<1>6. CASE Receiver
  <2>1. UNCHANGED <<snd, orders>> /\ (done_flag' = TRUE \/ done_flag' = done_flag)
    BY <1>6 DEF Receiver, Read, ReadEnd, Ignore, Done, Select, Update
  <2> QED
    BY <2>1
<1>7. CASE QueryFails \/ Camera \/ (\E text \in Text : Arrive(text)) \/ HangUp \/ UNCHANGED vars
  <2>1. UNCHANGED <<snd, orders, done_flag>>
    BY <1>7 DEF QueryFails, Camera, insert_to_db, Arrive, HangUp, vars, clientVars
  <2> QED
    BY <2>1
<1> QED
  BY <1>2, <1>3, <1>4, <1>5, <1>6, <1>7 DEF Next, Sender

\* The client implements Dispatch: each order against a permit, ids rising in each life,
\* although done_flag is cleared only after the write.
THEOREM Refinement == Spec => DispatchRefined
<1>1. Init => Dispatched!Init
  BY DEF Init, IdleSnd, NoId, Dispatched!Init
<1> QED
  BY Invariance, <1>1, StepRefines, PTL DEF Spec, DispatchRefined, Dispatched!Spec
=============================================================================
