--------------------------- MODULE BtClientProofs ---------------------------
(***************************************************************************)
(* What holds of BtClient for every size of its buffer and every number of *)
(* lines and messages: the server gets the belt's lines whole, once and in *)
(* order, whatever the pieces in which they are read.                      *)
(***************************************************************************)
EXTENDS BtClient, SequenceTheorems, TLAPS

-----------------------------------------------------------------------------
(* Sequences *)

\* The last element of a concatenation is that of its second part.
LEMMA LastOfConcat ==
    ASSUME NEW S, NEW s \in Seq(S), NEW t \in Seq(S), t # <<>>
    PROVE  s \o t # <<>> /\ Last(s \o t) = Last(t)
<1>1. Len(t) \in Nat \ {0} /\ Len(s) \in Nat
  BY EmptySeq
<1>2. Len(s \o t) = Len(s) + Len(t) /\ s \o t \in Seq(S)
  BY ConcatProperties
<1>3. (s \o t)[Len(s) + Len(t)] = t[Len(t)]
  BY <1>1, ConcatProperties
<1> QED
  BY <1>1, <1>2, <1>3, EmptySeq DEF Last

\* What is appended to the second part is appended to the whole.
LEMMA AppendToSecond ==
    ASSUME NEW S, NEW s \in Seq(S), NEW t \in Seq(S), NEW e \in S
    PROVE  s \o Append(t, e) = Append(s \o t, e)
<1> DEFINE one == <<e>>
<1>1. s \o t \in Seq(S) /\ one \in Seq(S)
  BY ConcatProperties
<1>2. Append(t, e) = t \o one /\ Append(s \o t, e) = (s \o t) \o one
  BY <1>1, AppendIsConcat
<1> HIDE DEF one
<1>3. s \o (t \o one) = (s \o t) \o one
  BY <1>1, ConcatAssociative
<1> QED
  BY <1>2, <1>3

\* What a read takes and what it leaves are what was there.
LEMMA CutAt ==
    ASSUME NEW S, NEW s \in Seq(S), NEW n \in 1 .. Len(s)
    PROVE  /\ SubSeq(s, 1, n) \in Seq(S) /\ SubSeq(s, n + 1, Len(s)) \in Seq(S)
           /\ Len(SubSeq(s, 1, n)) = n
           /\ SubSeq(s, 1, n) \o SubSeq(s, n + 1, Len(s)) = s
<1>1. Len(s) \in Nat /\ \A i \in 1 .. Len(s) : s[i] \in S
  BY LenProperties, ElementOfSeq
<1>2. SubSeq(s, 1, n) \in Seq(S) /\ Len(SubSeq(s, 1, n)) = n
  BY <1>1, SubSeqProperties
<1>3. SubSeq(s, n + 1, Len(s)) \in Seq(S)
  BY <1>1, SubSeqProperties
<1>4. SubSeq(s, 1, n) \o SubSeq(s, n + 1, Len(s)) = SubSeq(s, 1, Len(s))
  BY <1>1, ConcatAdjacentSubSeq
<1> QED
  BY <1>2, <1>3, <1>4, SubSeqFull

\* A read takes at least one unit, all that is there or all that fits.
LEMMA ReadSize ==
    ASSUME NEW a \in Nat \ {0}, NEW b \in Nat \ {0}
    PROVE  Min({a, b}) \in Nat /\ 1 <= Min({a, b}) /\ Min({a, b}) <= a /\ Min({a, b}) <= b
<1>1. CASE a <= b
  <2>1. a \in {a, b} /\ \A y \in {a, b} : a <= y
    BY <1>1
  <2>2. Min({a, b}) \in {a, b} /\ \A y \in {a, b} : Min({a, b}) <= y
    BY <2>1 DEF Min
  <2> QED
    BY <2>2
<1>2. CASE b <= a
  <2>1. b \in {a, b} /\ \A y \in {a, b} : b <= y
    BY <1>2
  <2>2. Min({a, b}) \in {a, b} /\ \A y \in {a, b} : Min({a, b}) <= y
    BY <2>1 DEF Min
  <2> QED
    BY <2>2
<1> QED
  BY <1>1, <1>2

-----------------------------------------------------------------------------
(* The steps *)

BeltType == [units : Seq(Unit), link : {"up", "reset", "down"}]

LEMMA InitInv == Init => IInv
<1> SUFFICES ASSUME Init PROVE IInv
  OBVIOUS
<1>1. /\ belt = [units |-> <<>>, link |-> "up"] /\ sensed = <<>> /\ msg = <<>>
      /\ relayed = <<>> /\ told = <<>> /\ snd = "select"
      /\ <<>> \in Seq(Unit) /\ <<>> \in Seq(Text) /\ Len(<<>>) = 0
  BY DEF Init
<1>2. TypeOK
  <2>1. rcv \in [pc : {"read", "got", "off"}, text : Text]
    BY DEF Init, Text
  <2>2. server \in [waits : Seq(Text), link : {"up", "down"}, sent : 0..MaxTold]
    BY <1>1, BtAssumption DEF Init
  <2>3. sockfd \in BOOLEAN /\ running \in BOOLEAN
    BY Zenon DEF Init
  <2> QED
    BY <1>1, <2>1, <2>2, <2>3, BtAssumption DEF TypeOK
<1>3. EveryLineOnItsWay
  BY <1>1 DEF EveryLineOnItsWay
<1> QED
  BY <1>1, <1>2, <1>3 DEF IInv, Alternates, WriteInv

LEMMA UnitsAssociate == \A s, t, u \in Seq(Unit) : (s \o t) \o u = s \o (t \o u)
<1> SUFFICES ASSUME NEW s \in Seq(Unit), NEW t \in Seq(Unit), NEW u \in Seq(Unit)
             PROVE  (s \o t) \o u = s \o (t \o u)
  OBVIOUS
<1> QED
  BY ConcatAssociative

\* Where the stream is cut into units sent, in hand and on the way.
LEMMA ReadInv == IInv /\ Read => IInv'
<1> SUFFICES ASSUME IInv, Read PROVE IInv'
  OBVIOUS
<1> DEFINE n == Min({Len(belt.units), BufSize - Len(msg)})
           got == SubSeq(belt.units, 1, n)
           rest == SubSeq(belt.units, n + 1, Len(belt.units))
<1>1. /\ belt \in BeltType /\ belt.units \in Seq(Unit) /\ msg \in Seq(Unit) /\ relayed \in Seq(Unit)
      /\ sensed \in Seq(Unit) /\ BufSize \in Nat /\ Len(msg) \in Nat /\ Len(msg) < BufSize
      /\ belt.units # <<>>
  BY BtAssumption DEF IInv, TypeOK, BeltType, Read
<1>2. Len(belt.units) \in Nat \ {0} /\ BufSize - Len(msg) \in Nat \ {0}
  BY <1>1, EmptySeq
<1>3. n \in 1 .. Len(belt.units) /\ n <= BufSize - Len(msg)
  BY <1>2, ReadSize
<1> HIDE DEF n
<1>4. /\ got \in Seq(Unit) /\ rest \in Seq(Unit) /\ Len(got) = n /\ got \o rest = belt.units
  BY <1>1, <1>3, CutAt
<1>5. /\ msg' = msg \o got /\ snd' = IF Last(got).end THEN "write" ELSE "select"
      /\ belt' = [belt EXCEPT !.units = rest]
      /\ UNCHANGED <<sensed, rcv, sockfd, server, relayed, told, running>>
  BY DEF Read, n
<1>6. got # <<>>
  BY <1>3, <1>4, EmptySeq
<1> HIDE DEF got, rest
<1>7. msg' \in Seq(Unit) /\ Len(msg') <= BufSize /\ msg' # <<>> /\ Last(msg') = Last(got)
  <2>1. msg \o got \in Seq(Unit) /\ Len(msg \o got) = Len(msg) + Len(got)
    BY <1>1, <1>4, ConcatProperties
  <2> QED
    BY <1>1, <1>3, <1>4, <1>5, <1>6, <2>1, LastOfConcat
<1>8. belt' \in BeltType /\ belt'.units = rest
  BY <1>1, <1>4, <1>5 DEF BeltType
<1>9. TypeOK'
  BY <1>5, <1>7, <1>8 DEF IInv, TypeOK, BeltType
<1>10. relayed' \o msg' \o belt'.units = sensed'
  <2>1. relayed \in Seq(Unit) /\ msg \in Seq(Unit) /\ got \in Seq(Unit) /\ rest \in Seq(Unit)
    BY <1>1, <1>4
  <2>2. relayed \o (msg \o got) = (relayed \o msg) \o got
    BY <2>1, UnitsAssociate, SMTT(30)
  <2>3. relayed \o msg \in Seq(Unit)
    BY <2>1, ConcatProperties
  <2>4. ((relayed \o msg) \o got) \o rest = (relayed \o msg) \o (got \o rest)
    BY <2>1, <2>3, UnitsAssociate
  <2> QED
    BY <1>4, <1>5, <1>8, <2>2, <2>4 DEF IInv, EveryLineOnItsWay
<1>11. WriteInv'
  BY <1>5, <1>7 DEF WriteInv
<1> QED
  BY <1>5, <1>9, <1>10, <1>11 DEF IInv, Alternates, EveryLineOnItsWay

LEMMA WriteStep == IInv /\ Write => IInv'
<1> SUFFICES ASSUME IInv, Write PROVE IInv'
  OBVIOUS
<1>1. /\ relayed' = relayed \o msg /\ msg' = <<>> /\ snd' = "select" /\ snd = "write"
      /\ UNCHANGED <<belt, sensed, rcv, sockfd, server, told, running>>
  BY DEF Write
<1>2. msg \in Seq(Unit) /\ relayed \in Seq(Unit) /\ msg # <<>> /\ Last(msg).end
  BY <1>1 DEF IInv, TypeOK, WriteInv
<1>3. relayed' \in Seq(Unit) /\ relayed' # <<>> /\ Last(relayed').end /\ relayed' \o msg' = relayed'
  BY <1>1, <1>2, ConcatProperties, LastOfConcat, ConcatEmptySeq
<1>4. TypeOK'
  <2>1. <<>> \in Seq(Unit) /\ Len(<<>>) = 0
    OBVIOUS
  <2> QED
    BY <1>1, <1>3, <2>1, BtAssumption DEF IInv, TypeOK
<1>5. EveryLineOnItsWay'
  BY <1>1, <1>3 DEF IInv, EveryLineOnItsWay
<1> QED
  BY <1>1, <1>4, <1>5 DEF IInv, Alternates, WriteInv

\* A line has two units, so a line that is begun fits where its number does.
LEMMA NextUnitInv ==
    ASSUME IInv, Sense
    PROVE  /\ NextUnit \in Unit /\ Len(sensed') <= 2 * MaxSensed
           /\ NextUnit.end <=> (Len(sensed) + 1) % 2 = 0
<1>1. sensed \in Seq(Unit) /\ Len(sensed) \in Nat /\ DOMAIN sensed = 1 .. Len(sensed)
  BY DEF IInv, TypeOK
<1>2. sensed # <<>> => Len(sensed) \in 1 .. Len(sensed) /\ Last(sensed) \in Unit
  BY <1>1, EmptySeq DEF Last
<1>3. Begun <=> Len(sensed) % 2 = 1
  <2>1. CASE sensed = <<>>
    BY <2>1 DEF Begun
  <2>2. CASE sensed # <<>>
    <3>1. Last(sensed).end <=> Len(sensed) % 2 = 0
      BY <1>1, <1>2, <2>2 DEF IInv, Alternates, Last
    <3> QED
      BY <1>1, <2>2, <3>1 DEF Begun
  <2> QED
    BY <2>1, <2>2
<1>4. Begun \in BOOLEAN
  BY Zenon DEF Begun
<1>5. NextUnit \in Unit
  <2>1. Begun => Last(sensed).text \in Text
    BY <1>2 DEF Begun, Unit
  <2> QED
    BY <1>4, <2>1 DEF NextUnit, Unit, Text
<1>6. NextUnit.end = Begun
  BY DEF NextUnit
<1>7. Len(sensed) < 2 * MaxSensed
  <2>1. CASE Begun
    <3>1. Len(sensed) % 2 = 1 /\ Len(sensed) <= 2 * MaxSensed
      BY <1>3, <2>1 DEF IInv, TypeOK
    <3> QED
      BY <1>1, <3>1, BtAssumption
  <2>2. CASE ~Begun
    BY <2>2 DEF Sense
  <2> QED
    BY <2>1, <2>2
<1>8. Len(sensed') = Len(sensed) + 1
  BY <1>1, <1>5, AppendProperties DEF Sense
<1> QED
  BY <1>1, <1>3, <1>5, <1>6, <1>7, <1>8, BtAssumption

LEMMA SenseInv == IInv /\ Sense => IInv'
<1> SUFFICES ASSUME IInv, Sense PROVE IInv'
  OBVIOUS
<1> DEFINE u == NextUnit
<1>1. /\ sensed' = Append(sensed, u) /\ belt' = [belt EXCEPT !.units = Append(belt.units, u)]
      /\ UNCHANGED <<msg, snd, rcv, sockfd, server, relayed, told, running>>
  BY DEF Sense
<1>2. u \in Unit /\ Len(sensed') <= 2 * MaxSensed /\ (u.end <=> (Len(sensed) + 1) % 2 = 0)
  BY NextUnitInv
<1> HIDE DEF u
<1>3. /\ sensed \in Seq(Unit) /\ belt \in BeltType /\ belt.units \in Seq(Unit)
      /\ relayed \in Seq(Unit) /\ msg \in Seq(Unit) /\ Len(sensed) \in Nat
  BY DEF IInv, TypeOK, BeltType
<1>4. /\ sensed' \in Seq(Unit) /\ Len(sensed') = Len(sensed) + 1
      /\ \A i \in 1 .. Len(sensed) : sensed'[i] = sensed[i]
      /\ sensed'[Len(sensed) + 1] = u
  BY <1>1, <1>2, <1>3, AppendProperties
<1>5. Append(belt.units, u) \in Seq(Unit)
  BY <1>2, <1>3, AppendProperties
<1>6. belt' \in BeltType /\ belt'.units = Append(belt.units, u)
  BY <1>1, <1>3, <1>5 DEF BeltType
<1>7. TypeOK'
  BY <1>1, <1>2, <1>4, <1>6 DEF IInv, TypeOK, BeltType
<1>8. Alternates'
  <2>1. \A i \in 1 .. Len(sensed) : sensed[i].end <=> i % 2 = 0
    BY <1>3 DEF IInv, Alternates
  <2>2. DOMAIN sensed' = 1 .. Len(sensed) + 1
    BY <1>4
  <2>3. ASSUME NEW i \in DOMAIN sensed' PROVE sensed'[i].end <=> i % 2 = 0
    <3>1. CASE i \in 1 .. Len(sensed)
      BY <1>4, <2>1, <3>1
    <3>2. CASE i = Len(sensed) + 1
      BY <1>2, <1>4, <3>2
    <3> QED
      BY <1>3, <2>2, <3>1, <3>2
  <2> QED
    BY <2>3 DEF Alternates
<1>9. relayed' \o msg' \o belt'.units = sensed'
  <2> DEFINE gone == relayed \o msg
  <2>1. gone \in Seq(Unit)
    BY <1>3, ConcatProperties
  <2>2. gone \o belt.units = sensed
    BY DEF IInv, EveryLineOnItsWay
  <2>3. gone' = gone
    BY <1>1
  <2> HIDE DEF gone
  <2>4. gone \o Append(belt.units, u) = Append(gone \o belt.units, u)
    <3>1. belt.units \in Seq(Unit) /\ u \in Unit
      BY <1>2, <1>3
    <3> QED
      BY <2>1, <3>1, AppendToSecond
  <2>5. gone \o belt'.units = sensed'
    BY <1>1, <1>6, <2>2, <2>4
  <2> QED
    BY <2>3, <2>5 DEF gone
<1> QED
  BY <1>1, <1>7, <1>8, <1>9 DEF IInv, EveryLineOnItsWay, WriteInv

\* The rest of the program does not touch the stream.
LEMMA OthersInv ==
    ASSUME IInv,
           \/ ReadEnd \/ ReadFails \/ Timeout \/ WriteFails \/ Receiver \/ Exit
           \/ BeltEnds \/ (\E t \in Text : ServerSends(t)) \/ ServerEnds \/ UNCHANGED vars
    PROVE  IInv'
<1>1. /\ sensed' = sensed /\ msg' = msg /\ relayed' = relayed /\ belt'.units = belt.units
      /\ snd' = "write" => snd = "write"
  <2>1. belt \in BeltType
    BY DEF IInv, TypeOK, BeltType
  <2> QED
    BY <2>1 DEF ReadEnd, ReadFails, Timeout, WriteFails, Receiver, Receive, Tell, ReceiveEnd,
         Exit, BeltEnds, ServerSends, ServerEnds, vars, Ended, BeltType
<1>2. Alternates' /\ WriteInv' /\ EveryLineOnItsWay'
  BY <1>1 DEF IInv, Alternates, WriteInv, EveryLineOnItsWay
<1>3. TypeOK'
  <2>1. CASE ReadEnd \/ ReadFails \/ Timeout \/ BeltEnds
    BY <2>1 DEF IInv, TypeOK, ReadEnd, ReadFails, Timeout, BeltEnds
  <2>2. CASE WriteFails \/ Exit
    BY <2>2 DEF IInv, TypeOK, WriteFails, Exit, Ended
  <2>3. CASE Receiver
    <3>1. rcv \in [pc : {"read", "got", "off"}, text : Text] /\ told \in Seq(Text)
      BY DEF IInv, TypeOK
    <3>2. Append(told, rcv.text) \in Seq(Text)
      BY <3>1, AppendProperties
    <3>3. CASE Receive
      <4>1. rcv' \in [pc : {"read", "got", "off"}, text : Text]
        BY <3>3 DEF Receive, Text
      <4>2. server' \in [waits : Seq(Text), link : {"up", "down"}, sent : 0..MaxTold]
        <5>1. <<>> \in Seq(Text)
          OBVIOUS
        <5> QED
          BY <3>3, <5>1 DEF Receive, IInv, TypeOK
      <4> QED
        BY <3>3, <4>1, <4>2 DEF Receive, IInv, TypeOK
    <3>4. CASE Tell
      BY <3>1, <3>2, <3>4 DEF Tell, IInv, TypeOK
    <3>5. CASE ReceiveEnd
      BY <3>1, <3>5 DEF ReceiveEnd, IInv, TypeOK
    <3> QED
      BY <2>3, <3>3, <3>4, <3>5 DEF Receiver
  <2>4. ASSUME NEW t \in Text, ServerSends(t) PROVE TypeOK'
    <3>1. /\ server \in [waits : Seq(Text), link : {"up", "down"}, sent : 0..MaxTold]
          /\ server.sent < MaxTold
      BY <2>4 DEF IInv, TypeOK, ServerSends
    <3>2. Append(server.waits, t) \in Seq(Text) /\ server.sent + 1 \in 0..MaxTold
      BY <3>1, AppendProperties, BtAssumption
    <3> QED
      BY <2>4, <3>1, <3>2 DEF IInv, TypeOK, ServerSends
  <2>5. CASE ServerEnds
    BY <2>5 DEF IInv, TypeOK, ServerEnds
  <2>6. CASE UNCHANGED vars
    BY <2>6 DEF IInv, TypeOK, vars
  <2> QED
    BY <2>1, <2>2, <2>3, <2>4, <2>5, <2>6
<1> QED
  BY <1>2, <1>3 DEF IInv

-----------------------------------------------------------------------------
(* The theorems *)

\* What is written is whole lines, and the units sent are cut into those written, those
\* in the buffer and those on the way (send_msg).
THEOREM Invariance == Spec => []IInv
<1>1. IInv /\ [Next]_vars => IInv'
  BY ReadInv, WriteStep, SenseInv, OthersInv DEF Next, Sender, Outside
<1> QED
  BY InitInv, <1>1, PTL DEF Spec

\* Every variable keeps its type; msg never outgrows its buffer (send_msg).
THEOREM TypeCorrect == Spec => []TypeOK
<1>1. IInv => TypeOK
  BY DEF IInv
<1> QED
  BY Invariance, <1>1, PTL

\* Every line of the belt is on its way to the server or there, once, whole and in order
\* (send_msg).
THEOREM LinesRelayed == Spec => []EveryLineOnItsWay
<1>1. IInv => EveryLineOnItsWay
  BY DEF IInv
<1> QED
  BY Invariance, <1>1, PTL
=============================================================================
