--------------------------- MODULE IotServerProofs ---------------------------
(***************************************************************************)
(* What holds of IotServer for every size of the table, limit of threads   *)
(* and descriptors, and number of connections and messages.                *)
(***************************************************************************)
EXTENDS IotServer, SequenceTheorems, FiniteSetTheorems, TLAPS

-----------------------------------------------------------------------------
(* Type correctness. *)

\* What the threads start from is of their types.
LEMMA ConstantTypes ==
    /\ Rows \subseteq Dest /\ 0..MaxSay \subseteq Text /\ NoText \in Text
    /\ IdleMain \in MainType /\ NoThread \in ThreadType
    /\ 0 \notin Conn /\ NoFd \notin Fd
<1>1. Nobody \in Dest /\ NoText \in Text
    BY DEF Dest, Text
<1>2. IdleMain \in MainType
    BY <1>1 DEF IdleMain, MainType
<1>3. NoThread \in ThreadType
    <2>1. <<>> \in Seq(Rows) /\ NoFd \in Int
        BY EmptySeq DEF NoFd
    <2> QED
        BY <1>1, <2>1 DEF NoThread, ThreadType, ThreadPc
<1> QED
    BY <1>1, <1>2, <1>3, ServerAssumption DEF Dest, Text, Conn, Fd, NoFd

\* So is a thread that begins to read.
LEMMA AtReadType ==
    ASSUME NEW r \in Rows
    PROVE  AtRead(r) \in ThreadType /\ AtRead(r).pc = "read" /\ AtRead(r).row = r
<1>1. NoThread \in ThreadType
    BY ConstantTypes
<1> QED
    BY <1>1 DEF AtRead, ThreadType, ThreadPc

\* The char that keeps a descriptor is an integer.
LEMMA CharFdInt ==
    ASSUME NEW fd \in Fd \cup {NoFd}
    PROVE  CharFd(fd) \in Int
<1>1. fd \in Int /\ CharSize \in Int /\ CharSize > 0
    BY ServerAssumption DEF Fd, NoFd
<1>2. CharSize \div 2 \in Int
    BY <1>1
<1>3. fd + CharSize \div 2 \in Int
    BY <1>1, <1>2
<1>4. (fd + CharSize \div 2) % CharSize \in Int
    BY <1>1, <1>3
<1> QED
    BY <1>2, <1>4 DEF CharFd

\* send_msg writes to rows of the table only: to the receiver's, or to all.
LEMMA RouteRows ==
    ASSUME NEW to \in Dest
    PROVE  /\ Route(to) \in Seq(Rows)
           /\ \A k \in DOMAIN Route(to) : to \in {Everybody, Route(to)[k]}
<1>1. CASE to = Everybody
    <2>1. [i \in Rows |-> i] \in Seq(Rows)
        BY ServerAssumption DEF Rows
    <2> QED
        BY <1>1, <2>1 DEF Route
<1>2. CASE to # Everybody /\ to \in Rows
    <2>1. Route(to) = <<to>>
        BY <1>2 DEF Route
    <2>2. <<to>> \in Seq(Rows) /\ \A k \in DOMAIN <<to>> : <<to>>[k] = to
        BY <1>2
    <2> QED
        BY <2>1, <2>2
<1>3. CASE to # Everybody /\ to \notin Rows
    <2>1. Route(to) = <<>>
        BY <1>3 DEF Route
    <2>2. <<>> \in Seq(Rows) /\ DOMAIN <<>> = {}
        BY EmptySeq
    <2> QED
        BY <2>1, <2>2
<1> QED
    BY <1>1, <1>2, <1>3

\* What the login's buffer leaves is a sequence of messages.
LEMMA CutTailUnits ==
    ASSUME NEW s \in Seq(Unit), s # <<>>
    PROVE  CutTail(s) \in Seq(Unit)
<1>1. CASE Len(s) < 2
    BY <1>1, HeadTailProperties DEF CutTail
<1>2. CASE ~(Len(s) < 2)
    <2> DEFINE cut == [s[2] EXCEPT !.to = Nobody]
               rest == SubSeq(s, 3, Len(s))
    <2>1. Len(s) \in Nat /\ Len(s) >= 2 /\ s[2] \in Unit
        BY <1>2, LenProperties, ElementOfSeq
    <2>2. cut \in Unit
        BY <2>1 DEF Unit, Dest
    <2>3. rest \in Seq(Unit)
        <3>1. \A i \in 3..Len(s) : s[i] \in Unit
            BY <2>1, ElementOfSeq
        <3>2. 3 \in Int /\ Len(s) \in Int /\ \A i \in 3..Len(s) : i \in DOMAIN s
            BY <2>1
        <3> QED
            BY <3>1, <3>2, SubSeqProperties
    <2>4. <<cut>> \in Seq(Unit)
        BY <2>2
    <2>5. CutTail(s) = <<cut>> \o rest
        BY <1>2 DEF CutTail
    <2> HIDE DEF cut, rest
    <2> QED
        BY <2>3, <2>4, <2>5, ConcatProperties
<1> QED
    BY <1>1, <1>2

-----------------------------------------------------------------------------
(* What strtok keeps stays of its type. *)

\* The tokens of what was read are texts.
LEMMA TokensText ==
    ASSUME NEW s \in Seq(Unit)
    PROVE  Tokens(s) \in Seq(Text)
<1>1. Len(s) \in Nat /\ 2 * Len(s) \in Nat
    BY LenProperties
<1>2. ASSUME NEW k \in 1..2 * Len(s)
      PROVE  (IF k % 2 = 1 THEN NoText ELSE s[k \div 2].n) \in Text
    <2>1. CASE k % 2 = 1
        BY <2>1, ConstantTypes
    <2>2. CASE k % 2 # 1
        <3>1. k \div 2 \in 1..Len(s)
            BY <1>1, <2>2
        <3>2. s[k \div 2] \in Unit
            BY <3>1, ElementOfSeq
        <3> QED
            BY <2>2, <3>2, ConstantTypes DEF Unit
    <2> QED
        BY <2>1, <2>2
<1>3. [k \in 1..2 * Len(s) |-> IF k % 2 = 1 THEN NoText ELSE s[k \div 2].n] \in Seq(Text)
    BY <1>1, <1>2, IsASeq
<1> QED
    BY <1>3 DEF Tokens

\* A buffer that is filled or cleared.
LEMMA BufferType ==
    ASSUME StrType, NEW b \in Owner, NEW s \in Seq(Text),
           buffer' = [buffer EXCEPT ![b] = s], UNCHANGED <<strtok, pArray, took>>
    PROVE  StrType'
BY DEF StrType

LEMMA FirstTokenType ==
    ASSUME StrType, NEW b \in Owner, FirstToken(b)
    PROVE  StrType'
<1>1. strtok' \in Place
    BY DEF FirstToken, Place
<1>2. 1 \in 0..ARR_CNT + 1
    BY DEF ARR_CNT
<1>3. took' \in [Owner -> 0..ARR_CNT + 1]
    BY <1>2 DEF FirstToken, StrType
<1> QED
    BY <1>1, <1>3 DEF FirstToken, StrType

LEMMA NextTokenType ==
    ASSUME StrType, NEW b \in Owner, NextToken(b)
    PROVE  StrType'
<1>1. strtok \in Place /\ pArray \in [Owner -> Place] /\ took \in [Owner -> 0..ARR_CNT + 1]
    BY DEF StrType
<1>2. strtok' \in Place
    BY <1>1 DEF NextToken, Place
<1>3. pArray' \in [Owner -> Place]
    BY <1>1 DEF NextToken
<1>4. took' \in [Owner -> 0..ARR_CNT + 1]
    <2>1. 0 \in 0..ARR_CNT + 1
        BY DEF ARR_CNT
    <2>2. ~LastToken(b) => took[b] + 1 \in 0..ARR_CNT + 1
        <3>1. took[b] \in 0..ARR_CNT + 1
            BY <1>1
        <3> QED
            BY <3>1 DEF LastToken, ARR_CNT
    <2> QED
        BY <1>1, <2>1, <2>2 DEF NextToken
<1> QED
    BY <1>2, <1>3, <1>4 DEF NextToken, StrType

LEMMA TextAtText ==
    ASSUME StrType, NEW ptr \in Place
    PROVE  TextAt(ptr) \in Text
<1>1. buffer[ptr.buf] \in Seq(Text)
    BY DEF StrType, Place
<1> QED
    BY <1>1, ConstantTypes, ElementOfSeq DEF TextAt

-----------------------------------------------------------------------------
(* The steps keep the state well typed. *)

\* Moving a thread on to another of its steps.
LEMMA ThreadMoves ==
    ASSUME TypeOK, NEW c \in Conn, NEW pc \in ThreadPc, ThreadGoes(c, pc)
    PROVE  thr' \in [Conn -> ThreadType]
<1>1. thr \in [Conn -> ThreadType] /\ thr' = [thr EXCEPT ![c].pc = pc]
    BY DEF TypeOK, ThreadGoes
<1>2. thr[c] \in ThreadType
    BY <1>1
<1>3. [thr[c] EXCEPT !.pc = pc] \in ThreadType
    BY <1>2 DEF ThreadType
<1> QED
    BY <1>1, <1>3

\* What a thread writes arrives as messages.
Mail == [from : Rows, to : Dest, n : Text]
LEMMA DeliverTypes ==
    ASSUME TypeOK, NEW c \in Conn, thr[c].row \in Rows, NEW fd, Deliver(fd, c)
    PROVE  inbox' \in [Conn -> Seq(Mail)]
<1> DEFINE m == [from |-> thr[c].row, to |-> thr[c].to, n |-> thr[c].n]
<1>1. m \in Mail
    BY DEF TypeOK, ThreadType, Mail
<1>2. File(fd) \in Conn \cup {NoFile} /\ inbox \in [Conn -> Seq(Mail)]
    BY DEF File, TypeOK, Mail
<1>3. CASE inbox' = inbox
    BY <1>2, <1>3
<1>4. CASE File(fd) \in Conn /\ inbox' = [inbox EXCEPT ![File(fd)] = Append(@, m)]
    <2>1. Append(inbox[File(fd)], m) \in Seq(Mail)
        BY <1>1, <1>2, <1>4, AppendProperties
    <2> QED
        BY <1>2, <1>4, <2>1
<1> QED
    BY <1>2, <1>3, <1>4 DEF Deliver

\* Each step of the main thread preserves the type invariant.
LEMMA MainTypeOK == TypeOK /\ AdmissionInv /\ Main => TypeOK'
<1> SUFFICES ASSUME TypeOK, AdmissionInv, Main
             PROVE  TypeOK'
    OBVIOUS
<1> USE DEF clientVars, strVars
<1>0. MainBuf \in Owner /\ StrType /\ (UNCHANGED strVars => StrType')
    BY DEF Owner, TypeOK, StrType
<1>1. CASE Accept
    <2>1. PICK fd \in Lowest :
             /\ main' = [main EXCEPT !.pc = "check", !.fd = fd]
             /\ fdtab' = [fdtab EXCEPT ![fd] = Head(backlog)]
        BY <1>1 DEF Accept
    <2>2. Head(backlog) \in Conn /\ Tail(backlog) \in Seq(Conn)
        BY <1>1, HeadTailProperties DEF Accept, TypeOK
    <2>3. main' \in MainType /\ fdtab' \in [Fd -> Conn \cup {NoFile}]
        BY <2>1, <2>2 DEF TypeOK, MainType, Lowest
    <2> QED
        BY <1>0, <1>1, <2>2, <2>3 DEF Accept, TypeOK
<1>2. CASE CheckFull
    <2>1. main' \in MainType
        BY <1>2, ConstantTypes DEF CheckFull, TypeOK, MainType
    <2> QED
        BY <1>0, <1>2, <2>1 DEF CheckFull, TypeOK
<1>3. CASE LoginCall
    <2>1. File(main.fd) \in Conn \cup {NoFile}
        BY DEF File, TypeOK
    <2>2. main' \in MainType
        BY <1>3, <2>1, ConstantTypes DEF LoginCall, TypeOK, MainType
    <2> QED
        BY <1>0, <1>3, <2>2 DEF LoginCall, TypeOK
<1>4. CASE LoginRead
    <2> DEFINE c == main.conn
    <2>1. c \in Conn
        BY <1>4 DEF LoginRead, AdmissionInv, MainInv
    <2>2. CASE /\ rx[c] # <<>>
               /\ main' = [main EXCEPT !.pc = "first", !.to = Head(rx[c]).to]
               /\ buffer' = [buffer EXCEPT ![MainBuf] = Tokens(<<Head(rx[c])>>)]
               /\ rx' = [rx EXCEPT ![c] = CutTail(@)]
        <3>1. rx[c] \in Seq(Unit) /\ rx[c] # <<>>
            BY <2>1, <2>2 DEF TypeOK
        <3>2. Head(rx[c]) \in Unit /\ Head(rx[c]).to \in Dest
            <4>1. Head(rx[c]) \in Unit
                BY <3>1, HeadTailProperties
            <4> QED
                BY <4>1 DEF Unit
        <3>3. CutTail(rx[c]) \in Seq(Unit)
            BY <3>1, CutTailUnits
        <3>4. main' \in MainType
            BY <2>2, <3>2 DEF TypeOK, MainType
        <3>5. rx' \in [Conn -> Seq(Unit)]
            BY <2>1, <2>2, <3>3 DEF TypeOK
        <3>6. <<Head(rx[c])>> \in Seq(Unit)
            BY <3>2
        <3>7. StrType'
            BY <1>0, <1>4, <2>2, <3>6, TokensText, BufferType DEF LoginRead
        <3> QED
            BY <1>4, <3>4, <3>5, <3>7 DEF LoginRead, TypeOK
    <2>3. CASE main' = IdleMain /\ rx' = rx /\ buffer' = buffer
        BY <1>0, <1>4, <2>3, ConstantTypes DEF LoginRead, TypeOK
    <2> QED
        BY <1>4, <2>2, <2>3 DEF LoginRead
<1>5. CASE LoginFirst
    <2>1. StrType' /\ main' \in MainType
        BY <1>0, <1>5, FirstTokenType DEF LoginFirst, MainGoes, TypeOK, MainType
    <2> QED
        BY <1>5, <2>1 DEF LoginFirst, TypeOK
<1>6. CASE LoginNext
    <2>1. StrType' /\ main' \in MainType
        BY <1>0, <1>6, NextTokenType DEF LoginNext, MainGoes, TypeOK, MainType
    <2> QED
        BY <1>6, <2>1 DEF LoginNext, TypeOK
<1>7. CASE Refuse
    <2>1. main.conn \in Conn
        BY <1>7 DEF Refuse, AdmissionInv, MainInv
    <2>2. row_fd' \in [Rows -> Fd \cup {NoFd}]
        BY <1>7 DEF Refuse, TypeOK
    <2>3. refused' \in SUBSET Conn
        BY <1>7, <2>1 DEF Refuse, TypeOK
    <2> QED
        BY <1>0, <1>7, <2>2, <2>3, ConstantTypes DEF Refuse, TypeOK
<1>8. CASE Admit
    <2>1. main.fd \in Fd
        BY <1>8 DEF Admit, AdmissionInv, MainInv
    <2>2. row_fd' \in [Rows -> Fd \cup {NoFd}]
        BY <1>8, <2>1 DEF Admit, TypeOK
    <2>3. main' \in MainType
        BY <1>8 DEF Admit, MainGoes, TypeOK, MainType
    <2>4. clnt_cnt' \in Int
        BY <1>8 DEF Admit, TypeOK
    <2> QED
        BY <1>0, <1>8, <2>2, <2>3, <2>4 DEF Admit, TypeOK
<1>9. CASE Reject
    BY <1>0, <1>9, ConstantTypes DEF Reject, TypeOK
<1>10. CASE Start
    <2>1. main.conn \in Conn /\ main.to \in Rows
        BY <1>10 DEF Start, AdmissionInv, MainInv
    <2>2. thr' \in [Conn -> ThreadType]
        BY <1>10, <2>1, AtReadType DEF Start, TypeOK
    <2> QED
        BY <1>0, <1>10, <2>2, ConstantTypes DEF Start, TypeOK
<1> QED
    BY <1>1, <1>2, <1>3, <1>4, <1>5, <1>6, <1>7, <1>8, <1>9, <1>10 DEF Main

\* Each step of a client's thread preserves the type invariant.
LEMMA ThreadTypeOK ==
    ASSUME TypeOK, AdmissionInv, NEW c \in Conn, Thread(c)
    PROVE  TypeOK'
<1> USE DEF clientVars, strVars
<1>0. c \in Owner /\ StrType /\ (UNCHANGED strVars => StrType')
    BY DEF Owner, TypeOK, StrType
<1>1. thr[c] \in ThreadType
    BY DEF TypeOK
<1>2. thr[c].row \in Rows \/ thr[c].pc = "off"
    BY DEF AdmissionInv, ThreadInv, Fresh
<1>3. thr[c].row \in Rows => row_fd[thr[c].row] \in Fd \cup {NoFd}
    BY DEF TypeOK
<1>4. CASE ReadCall(c)
    <2>1. thr' \in [Conn -> ThreadType]
        BY <1>1, <1>2, <1>3, <1>4 DEF ReadCall, TypeOK, ThreadType, ThreadPc
    <2>2. StrType'
        BY <1>0, <1>4, EmptySeq, BufferType DEF ReadCall
    <2> QED
        BY <1>4, <2>1, <2>2 DEF ReadCall, TypeOK
<1>5. CASE ReadFile(c)
    <2>1. File(thr[c].out) \in Conn \cup {NoFile}
        BY DEF File, TypeOK
    <2>2. thr' \in [Conn -> ThreadType]
        BY <1>1, <1>5, <2>1 DEF ReadFile, TypeOK, ThreadType, ThreadPc
    <2> QED
        BY <1>0, <1>5, <2>2 DEF ReadFile, TypeOK
<1>6. CASE Read(c)
    <2> DEFINE f == thr[c].file
    <2>1. f \in Conn
        BY <1>6 DEF Read, AdmissionInv, ThreadInv
    <2>2. CASE /\ rx[f] # <<>>
               /\ thr' = [thr EXCEPT ![c].pc = "first", ![c].to = Head(rx[f]).to, ![c].file = NoFile]
               /\ buffer' = [buffer EXCEPT ![c] = Tokens(rx[f])]
               /\ rx' = [rx EXCEPT ![f] = <<>>]
        <3>1. rx[f] \in Seq(Unit) /\ rx[f] # <<>>
            BY <2>1, <2>2 DEF TypeOK
        <3>2. Head(rx[f]).to \in Dest
            <4>1. Head(rx[f]) \in Unit
                BY <3>1, HeadTailProperties
            <4> QED
                BY <4>1 DEF Unit
        <3>3. thr' \in [Conn -> ThreadType]
            BY <1>1, <2>2, <3>2 DEF TypeOK, ThreadType, ThreadPc
        <3>4. rx' \in [Conn -> Seq(Unit)]
            BY <2>1, <2>2, EmptySeq DEF TypeOK
        <3>5. StrType'
            BY <1>0, <1>6, <2>2, <3>1, TokensText, BufferType DEF Read
        <3> QED
            BY <1>6, <3>3, <3>4, <3>5 DEF Read, TypeOK
    <2>3. CASE /\ thr' = [thr EXCEPT ![c].pc = "bye", ![c].file = NoFile]
               /\ UNCHANGED <<buffer, rx>>
        <3>1. thr' \in [Conn -> ThreadType]
            BY <1>1, <2>3 DEF TypeOK, ThreadType, ThreadPc
        <3> QED
            BY <1>0, <1>6, <2>3, <3>1 DEF Read, TypeOK
    <2> QED
        BY <1>6, <2>2, <2>3 DEF Read
<1>7. CASE ReadFirst(c)
    <2>1. StrType' /\ thr' \in [Conn -> ThreadType]
        BY <1>0, <1>7, FirstTokenType, ThreadMoves DEF ReadFirst, ThreadPc
    <2> QED
        BY <1>7, <2>1 DEF ReadFirst, TypeOK
<1>8. CASE ReadNext(c)
    <2>1. StrType' /\ thr' \in [Conn -> ThreadType]
        BY <1>0, <1>8, NextTokenType, ThreadMoves DEF ReadNext, ThreadPc
    <2> QED
        BY <1>8, <2>1 DEF ReadNext, TypeOK
<1>9. CASE Format(c)
    <2>1. CharFd(row_fd[thr[c].row]) \in Int
        BY <1>2, <1>3, <1>9, CharFdInt DEF Format
    <2>2. TextAt(pArray[c]) \in Text
        BY <1>0, TextAtText DEF StrType
    <2>3. thr[c].to \in Dest /\ Route(thr[c].to) \in Seq(Rows)
        BY <1>1, RouteRows DEF ThreadType
    <2>4. thr' \in [Conn -> ThreadType]
        BY <1>1, <1>9, <2>1, <2>2, <2>3 DEF Format, TypeOK, ThreadType, ThreadPc
    <2> QED
        BY <1>0, <1>9, <2>4 DEF Format, TypeOK
<1>10. CASE Send(c)
    <2>1. thr[c].left \in Seq(Rows) /\ thr[c].left # <<>>
        BY <1>1, <1>10 DEF Send, ThreadType
    <2>2. Head(thr[c].left) \in Rows /\ Tail(thr[c].left) \in Seq(Rows)
        BY <2>1, HeadTailProperties
    <2>3. row_fd[Head(thr[c].left)] \in Fd \cup {NoFd}
        BY <2>2 DEF TypeOK
    <2>4. thr' \in [Conn -> ThreadType]
        BY <1>1, <1>10, <2>2, <2>3 DEF Send, TypeOK, ThreadType, ThreadPc
    <2> QED
        BY <1>0, <1>10, <2>4 DEF Send, TypeOK
<1>11. CASE WriteOut(c)
    <2>1. inbox' \in [Conn -> Seq(Mail)]
        BY <1>2, <1>11, DeliverTypes DEF WriteOut
    <2>2. thr' \in [Conn -> ThreadType]
        BY <1>1, <1>11 DEF WriteOut, TypeOK, ThreadType, ThreadPc
    <2> QED
        BY <1>0, <1>11, <2>1, <2>2 DEF WriteOut, TypeOK, Mail
<1>12. CASE Reply(c)
    <2>1. inbox' \in [Conn -> Seq(Mail)]
        BY <1>2, <1>12, DeliverTypes DEF Reply, TypeOK, Mail
    <2>2. AtRead(thr[c].row) \in ThreadType
        BY <1>2, <1>12, AtReadType DEF Reply
    <2>3. thr' \in [Conn -> ThreadType]
        BY <1>12, <2>2 DEF Reply, TypeOK
    <2> QED
        BY <1>0, <1>12, <2>1, <2>3 DEF Reply, TypeOK, Mail
<1>13. CASE Bye(c)
    <2>1. thr' \in [Conn -> ThreadType]
        BY <1>1, <1>2, <1>3, <1>13 DEF Bye, TypeOK, ThreadType, ThreadPc
    <2> QED
        BY <1>0, <1>13, <2>1 DEF Bye, TypeOK
<1>14. CASE Close(c)
    <2>1. fdtab' \in [Fd -> Conn \cup {NoFile}]
        BY <1>14 DEF Close, TypeOK
    <2>2. thr' \in [Conn -> ThreadType]
        BY <1>1, <1>14 DEF Close, TypeOK, ThreadType, ThreadPc
    <2> QED
        BY <1>0, <1>14, <2>1, <2>2 DEF Close, TypeOK
<1>15. CASE Logout(c)
    <2>1. row_fd' \in [Rows -> Fd \cup {NoFd}]
        BY <1>15 DEF Logout, TypeOK
    <2>2. thr' \in [Conn -> ThreadType]
        BY <1>15, ThreadMoves DEF Logout, ThreadPc
    <2>3. clnt_cnt' \in Int
        BY <1>15 DEF Logout, TypeOK
    <2> QED
        BY <1>0, <1>15, <2>1, <2>2, <2>3 DEF Logout, TypeOK
<1> QED
    BY <1>4, <1>5, <1>6, <1>7, <1>8, <1>9, <1>10, <1>11, <1>12, <1>13, <1>14, <1>15 DEF Thread

\* So does each step of a client.
LEMMA WriteTypeOK ==
    ASSUME TypeOK, NEW c \in Conn, NEW to \in Dest, NEW n \in 0..MaxSay, Write(c, to, n)
    PROVE  rx' \in [Conn -> Seq(Unit)]
<1>1. [to |-> to, n |-> n] \in Unit
    BY DEF Unit
<1>2. Append(rx[c], [to |-> to, n |-> n]) \in Seq(Unit)
    BY <1>1, AppendProperties DEF TypeOK
<1> QED
    BY <1>2 DEF Write, TypeOK

\* The ids clients come with are of the table, or of nobody in it.
LEMMA ClientIdsTyped == ClientIds \subseteq Rows \cup {Stranger}
<1>1. \A n \in Nat : \A i \in 0..n : i \in 1..n \/ i = 0
    OBVIOUS
<1> QED
    BY <1>1, ServerAssumption DEF Rows, Stranger

LEMMA ClientTypeOK ==
    ASSUME TypeOK, NEW c \in Conn, Client(c)
    PROVE  TypeOK'
<1> USE DEF serverVars, strVars
<1>0. UNCHANGED strVars => StrType'
    BY DEF TypeOK, StrType
<1>1. CASE \E id \in ClientIds : Connect(c, id)
    <2>1. PICK id \in Rows \cup {Stranger} : Connect(c, id)
        BY <1>1, ClientIdsTyped
    <2>2. Append(backlog, c) \in Seq(Conn)
        BY AppendProperties DEF TypeOK
    <2>3. /\ cid' \in [Conn -> Rows \cup {Stranger}]
          /\ peer' \in [Conn -> {"none", "up", "down"}]
        BY <2>1 DEF Connect, TypeOK
    <2> QED
        BY <1>0, <2>1, <2>2, <2>3 DEF Connect, TypeOK
<1>2. CASE Login(c)
    <2>1. cid[c] \in Dest /\ 0 \in 0..MaxSay
        BY ServerAssumption DEF TypeOK, Dest
    <2>2. rx' \in [Conn -> Seq(Unit)]
        BY <1>2, <2>1, WriteTypeOK DEF Login
    <2>3. said' \in [Conn -> BOOLEAN]
        BY <1>2 DEF Login, TypeOK
    <2> QED
        BY <1>0, <1>2, <2>2, <2>3 DEF Login, Write, TypeOK
<1>3. CASE Say(c)
    <2>1. PICK to \in Rows \cup {Everybody, Server} :
             /\ Write(c, to, Len(spoken) + 1)
             /\ spoken' = Append(spoken, [from |-> cid[c], to |-> to])
        BY <1>3 DEF Say
    <2> DEFINE said_ == [from |-> cid[c], to |-> to]
               Said == [from : Dest, to : Dest]
    <2>2. spoken \in Seq(Said) /\ Len(spoken) \in Nat
        BY DEF TypeOK
    <2>3. Len(spoken) + 1 \in 0..MaxSay
        BY <1>3, <2>2, ServerAssumption DEF Say
    <2>4. rx' \in [Conn -> Seq(Unit)]
        BY <2>1, <2>3, WriteTypeOK DEF Dest
    <2>5. said_ \in Said
        BY DEF TypeOK, Dest
    <2>6. Append(spoken, said_) \in Seq(Said) /\ Len(Append(spoken, said_)) = Len(spoken) + 1
        BY <2>2, <2>5, AppendProperties
    <2>7. spoken' \in Seq(Said) /\ Len(spoken') <= MaxSay
        BY <2>1, <2>3, <2>6
    <2> QED
        BY <1>0, <1>3, <2>1, <2>4, <2>7 DEF Say, Write, TypeOK
<1>4. CASE HangUp(c)
    <2>1. peer' \in [Conn -> {"none", "up", "down"}]
        BY <1>4 DEF HangUp, TypeOK
    <2> QED
        BY <1>0, <1>4, <2>1 DEF HangUp, TypeOK
<1> QED
    BY <1>1, <1>2, <1>3, <1>4 DEF Client

\* The end of the server leaves well-typed state behind.
LEMMA SigPipeTypeOK == TypeOK /\ SigPipe => TypeOK'
<1> SUFFICES ASSUME TypeOK, SigPipe
             PROVE  TypeOK'
    OBVIOUS
<1>1. main' \in MainType
    BY ConstantTypes DEF SigPipe, MainType
<1>2. thr' \in [Conn -> ThreadType]
    BY ConstantTypes DEF SigPipe
<1>3. peer' \in [Conn -> {"none", "up", "down"}]
    BY DEF SigPipe, TypeOK
<1>4. backlog' \in Seq(Conn)
    BY EmptySeq DEF SigPipe
<1>5. row_fd' \in [Rows -> Fd \cup {NoFd}] /\ fdtab' \in [Fd -> Conn \cup {NoFile}]
    BY DEF SigPipe
<1>6. clnt_cnt' \in Int /\ UNCHANGED <<cid, said, spoken, rx, inbox, refused>>
    BY DEF SigPipe
<1>7. StrType'
    BY DEF SigPipe, strVars, TypeOK, StrType
<1> QED
    BY <1>1, <1>2, <1>3, <1>4, <1>5, <1>6, <1>7 DEF TypeOK

LEMMA NextTypeOK == TypeOK /\ AdmissionInv /\ [Next]_vars => TypeOK'
<1> SUFFICES ASSUME TypeOK, AdmissionInv, [Next]_vars
             PROVE  TypeOK'
    OBVIOUS
<1>1. CASE UNCHANGED vars
    BY <1>1 DEF vars, serverVars, strVars, clientVars, TypeOK, StrType
<1> QED
    BY <1>1, MainTypeOK, SigPipeTypeOK, ThreadTypeOK, ClientTypeOK DEF Next

-----------------------------------------------------------------------------
(* Where a connection is, and what the server counts. *)

\* Sending, replying and the client's own steps move no connection.
LEMMA ClientAdmissionInv ==
    ASSUME TypeOK, AdmissionInv, NEW c \in Conn, Client(c)
    PROVE  AdmissionInv'
<1> USE DEF serverVars, Fresh, Waits, File
<1>1. CASE \E id \in ClientIds : Connect(c, id)
    <2>1. PICK id : Connect(c, id)
        BY <1>1
    <2>2. /\ backlog' = Append(backlog, c) /\ peer' = [peer EXCEPT ![c] = "up"]
          /\ peer[c] = "none" /\ UNCHANGED <<main, clnt_cnt, thr, fdtab, rx>>
        BY <2>1 DEF Connect
    <2>3. /\ Len(backlog') = Len(backlog) + 1 /\ backlog'[Len(backlog) + 1] = c
          /\ \A i \in 1..Len(backlog) : backlog'[i] = backlog[i]
          /\ DOMAIN backlog' = 1..Len(backlog) + 1
          /\ DOMAIN backlog = 1..Len(backlog) /\ Len(backlog) \in Nat
        <3>1. backlog \in Seq(Conn)
            BY DEF TypeOK
        <3>2. /\ Append(backlog, c) \in Seq(Conn)
              /\ Len(Append(backlog, c)) = Len(backlog) + 1
              /\ \A i \in 1..Len(backlog) : Append(backlog, c)[i] = backlog[i]
              /\ Append(backlog, c)[Len(backlog) + 1] = c
            BY <3>1, AppendProperties
        <3> QED
            BY <2>2, <3>1, <3>2, LenProperties
    <2>4. \A i \in DOMAIN backlog' : i \in DOMAIN backlog \/ i = Len(backlog) + 1
        <3>1. \A n \in Nat : \A i \in 1..n + 1 : i \in 1..n \/ i = n + 1
            OBVIOUS
        <3> QED
            BY <2>3, <3>1, Zenon
    <2>5. ~Waits(c) /\ Fresh(c) /\ (\A fd \in Fd : fdtab[fd] # c)
        <3>1. ~Waits(c) /\ Fresh(c)
            BY <2>2 DEF AdmissionInv, BacklogInv, ThreadInv
        <3>2. \A fd \in Fd : fdtab[fd] # c
            <4> HIDE DEF Waits, Fresh, File
            <4> SUFFICES ASSUME NEW fd \in Fd, fdtab[fd] = c
                         PROVE  FALSE
                OBVIOUS
            <4>1. fdtab[fd] # NoFile
                BY ConstantTypes DEF NoFile
            <4> QED
                BY <2>2, <4>1 DEF AdmissionInv, BacklogInv
        <3> QED
            BY <3>1, <3>2
    <2>6. \A d \in Conn : Waits(d)' => Waits(d) \/ d = c
        BY <2>3, <2>4
    <2>7. \A d \in Conn : peer'[d] # "none" <=> d = c \/ peer[d] # "none"
        BY <2>2 DEF TypeOK
    <2>8. BacklogInv'
        <3>1. \A i, j \in DOMAIN backlog' : backlog'[i] = backlog'[j] => i = j
            BY <2>3, <2>4, <2>5 DEF AdmissionInv, BacklogInv
        <3>2. \A d \in Conn : Waits(d)' => Fresh(d)' /\ peer'[d] # "none" /\ \A fd \in Fd : fdtab'[fd] # d
            BY <2>2, <2>5, <2>6, <2>7 DEF AdmissionInv, BacklogInv
        <3>3. \A fd \in Fd : fdtab'[fd] # NoFile => peer'[fdtab'[fd]] # "none"
            BY <2>2, <2>7 DEF AdmissionInv, BacklogInv, TypeOK
        <3> QED
            BY <3>1, <3>2, <3>3 DEF BacklogInv
    <2>9. ThreadInv'
        BY <2>2, <2>7 DEF AdmissionInv, ThreadInv
    <2>10. MainInv'
        BY <2>2, <2>6, <2>7 DEF AdmissionInv, MainInv
    <2> QED
        BY <2>8, <2>9, <2>10 DEF AdmissionInv
<1>2. CASE Login(c) \/ Say(c)
    <2>1. /\ UNCHANGED <<main, clnt_cnt, thr, fdtab, peer, backlog>>
          /\ \A d \in Conn : peer[d] = "none" => rx'[d] = rx[d]
        BY <1>2 DEF Login, Say, Write, TypeOK
    <2> QED
        BY <2>1 DEF AdmissionInv, BacklogInv, ThreadInv, MainInv
<1>3. CASE HangUp(c)
    <2>1. /\ UNCHANGED <<main, clnt_cnt, thr, fdtab, rx, backlog>>
          /\ \A d \in Conn : peer'[d] = "none" <=> peer[d] = "none"
        BY <1>3 DEF HangUp, TypeOK
    <2> QED
        BY <2>1 DEF AdmissionInv, BacklogInv, ThreadInv, MainInv, TypeOK
<1> QED
    BY <1>1, <1>2, <1>3 DEF Client

\* The end of the server leaves no connection anywhere.
LEMMA SigPipeAdmissionInv == TypeOK /\ AdmissionInv /\ SigPipe => AdmissionInv'
<1> SUFFICES ASSUME TypeOK, AdmissionInv, SigPipe
             PROVE  AdmissionInv'
    OBVIOUS
<1>1. /\ main'.pc = "dead" /\ thr' = [c \in Conn |-> NoThread]
      /\ fdtab' = [fd \in Fd |-> NoFile] /\ backlog' = <<>> /\ rx' = rx
      /\ peer' = [c \in Conn |-> IF peer[c] = "none" THEN "none" ELSE "down"]
    BY DEF SigPipe, IdleMain
<1>2. BacklogInv'
    BY <1>1 DEF BacklogInv, Waits
<1>3. ThreadInv'
    BY <1>1 DEF AdmissionInv, ThreadInv, Fresh, NoThread
<1>4. MainInv'
    BY <1>1 DEF MainInv
<1> QED
    BY <1>2, <1>3, <1>4 DEF AdmissionInv

\* What a step of a client's thread does to the table, the descriptors and itself: it goes
\* on with its client, ...
OpenPc == ThreadPc \ {"off", "logout", "done"}
GoesOn(c) ==
    /\ thr[c].pc \in OpenPc /\ thr'[c].pc \in OpenPc
    /\ thr'[c].pc = "reading" =>
           thr[c].pc = "call" /\ thr'[c].file = File(thr[c].out) /\ thr'[c].file \in Conn
    /\ thr'[c].pc \in {"call", "close"} => thr'[c].out = row_fd[thr[c].row]
    /\ \A d \in Conn :
           \/ rx'[d] = rx[d]
           \/ rx'[d] = <<>> /\ thr[c].pc = "reading" /\ d = thr[c].file
    /\ UNCHANGED <<clnt_cnt, row_fd, fdtab>>
\* ... closes the connection, ...
Closes(c) ==
    /\ thr[c].pc = "close" /\ thr'[c].pc = "logout"
    /\ fdtab' = [fd \in Fd |-> IF fd = thr[c].out THEN NoFile ELSE fdtab[fd]]
    /\ UNCHANGED <<clnt_cnt, row_fd, rx>>
\* ... or says that it did.
LogsOut(c) ==
    /\ thr[c].pc = "logout" /\ thr'[c].pc = "done"
    /\ clnt_cnt' = clnt_cnt - 1
    /\ row_fd' = [row_fd EXCEPT ![thr[c].row] = NoFd]
    /\ UNCHANGED <<fdtab, rx>>
LEMMA ThreadEffect ==
    ASSUME TypeOK, NEW c \in Conn, Thread(c)
    PROVE  /\ UNCHANGED <<main, cid, peer, said, refused, backlog>>
           /\ \A d \in Conn \ {c} : thr'[d] = thr[d]
           /\ thr'[c].row = thr[c].row
           /\ GoesOn(c) \/ Closes(c) \/ LogsOut(c)
<1> USE DEF clientVars, ThreadGoes, OpenPc, ThreadPc
<1>1. thr \in [Conn -> ThreadType] /\ thr[c] \in ThreadType
    BY DEF TypeOK
<1>2. CASE ReadCall(c) \/ Bye(c)
    BY <1>1, <1>2 DEF ReadCall, Bye, GoesOn, ThreadType
<1>3. CASE ReadFile(c)
    <2>1. File(thr[c].out) \in Conn \cup {NoFile}
        BY DEF File, TypeOK
    <2>2. /\ thr[c].pc = "call" /\ \A d \in Conn \ {c} : thr'[d] = thr[d]
          /\ thr'[c].row = thr[c].row /\ thr'[c].file = File(thr[c].out)
          /\ thr'[c].pc = IF File(thr[c].out) = NoFile THEN "bye" ELSE "reading"
        BY <1>1, <1>3 DEF ReadFile, ThreadType
    <2>3. GoesOn(c)
        BY <1>3, <2>1, <2>2 DEF ReadFile, GoesOn
    <2> QED
        BY <1>3, <2>2, <2>3 DEF ReadFile
<1>4. CASE Read(c)
    <2>1. \A d \in Conn : rx'[d] = rx[d] \/ (rx'[d] = <<>> /\ d = thr[c].file)
        BY <1>4 DEF Read, TypeOK
    <2>2. /\ thr[c].pc = "reading" /\ \A d \in Conn \ {c} : thr'[d] = thr[d]
          /\ thr'[c].row = thr[c].row /\ thr'[c].pc \in {"first", "bye"}
        BY <1>1, <1>4 DEF Read, ThreadType
    <2>3. GoesOn(c)
        BY <1>4, <2>1, <2>2 DEF Read, GoesOn
    <2> QED
        BY <1>4, <2>2, <2>3 DEF Read
<1>5. CASE ReadFirst(c) \/ ReadNext(c)
    <2>1. /\ thr[c].pc \in {"first", "tokens"} /\ \A d \in Conn \ {c} : thr'[d] = thr[d]
          /\ thr'[c].row = thr[c].row /\ thr'[c].pc \in {"tokens", "format"}
        BY <1>1, <1>5 DEF ReadFirst, ReadNext, ThreadType
    <2>2. GoesOn(c)
        BY <1>5, <2>1 DEF ReadFirst, ReadNext, GoesOn
    <2> QED
        BY <1>5, <2>1, <2>2 DEF ReadFirst, ReadNext
<1>6. CASE Format(c)
    <2>1. /\ thr[c].pc = "format" /\ \A d \in Conn \ {c} : thr'[d] = thr[d]
          /\ thr'[c].row = thr[c].row /\ thr'[c].pc = "send"
        BY <1>1, <1>6 DEF Format, ThreadType
    <2>2. GoesOn(c)
        BY <1>6, <2>1 DEF Format, GoesOn
    <2> QED
        BY <1>6, <2>1, <2>2 DEF Format, strVars
<1>7. CASE Send(c)
    <2>1. /\ thr[c].pc = "send" /\ \A d \in Conn \ {c} : thr'[d] = thr[d]
          /\ thr'[c].row = thr[c].row /\ thr'[c].pc \in {"send", "write"}
        BY <1>1, <1>7 DEF Send, ThreadType
    <2>2. GoesOn(c)
        BY <1>7, <2>1 DEF Send, GoesOn
    <2> QED
        BY <1>7, <2>1, <2>2 DEF Send
<1>8. CASE WriteOut(c)
    BY <1>1, <1>8 DEF WriteOut, GoesOn, ThreadType
<1>9. CASE Reply(c)
    <2>1. AtRead(thr[c].row).pc = "read" /\ AtRead(thr[c].row).row = thr[c].row
        BY DEF AtRead, NoThread
    <2>2. /\ thr[c].pc = "send" /\ \A d \in Conn \ {c} : thr'[d] = thr[d]
          /\ thr'[c].row = thr[c].row /\ thr'[c].pc = "read"
        BY <1>1, <1>9, <2>1 DEF Reply
    <2>3. GoesOn(c)
        BY <1>9, <2>2 DEF Reply, GoesOn
    <2> QED
        BY <1>9, <2>2, <2>3 DEF Reply
<1>10. CASE Close(c)
    <2>1. fdtab' = [fd \in Fd |-> IF fd = thr[c].out THEN NoFile ELSE fdtab[fd]]
        BY <1>10 DEF Close, TypeOK
    <2> QED
        BY <1>1, <1>10, <2>1 DEF Close, Closes, ThreadType
<1>11. CASE Logout(c)
    BY <1>1, <1>11 DEF Logout, LogsOut, ThreadType
<1> QED
    BY <1>2, <1>3, <1>4, <1>5, <1>6, <1>7, <1>8, <1>9, <1>10, <1>11 DEF Thread

\* A client's thread opens no connection and stays the thread of its row.
LEMMA ThreadAdmissionInv ==
    ASSUME TypeOK, AdmissionInv, NEW c \in Conn, Thread(c)
    PROVE  AdmissionInv'
<1> USE DEF GoesOn, Closes, LogsOut, OpenPc
<1>1. /\ UNCHANGED <<main, cid, peer, refused, backlog>>
      /\ \A d \in Conn \ {c} : thr'[d] = thr[d]
      /\ thr'[c].row = thr[c].row
      /\ GoesOn(c) \/ Closes(c) \/ LogsOut(c)
    BY ThreadEffect
<1>2. thr[c].pc # "off" /\ thr'[c].pc # "off"
    BY <1>1
<1>3. \A d \in Conn : (Fresh(d)' <=> Fresh(d)) /\ thr'[d].row = thr[d].row
    BY <1>1, <1>2 DEF Fresh
<1>4. \A fd \in Fd : fdtab'[fd] = fdtab[fd] \/ fdtab'[fd] = NoFile
    BY <1>1
<1>5. clnt_cnt' = clnt_cnt \/ clnt_cnt' = clnt_cnt - 1
    BY <1>1
<1>6. \A d \in Conn : rx'[d] = rx[d] \/ rx'[d] = <<>>
    BY <1>1
<1>7. thr'[c].pc = "reading" => thr'[c].file \in Conn
    BY <1>1
<1>8. \A d \in Conn : Waits(d)' <=> Waits(d)
    BY <1>1 DEF Waits
<1>9. BacklogInv'
    <2>1. \A i, j \in DOMAIN backlog' : backlog'[i] = backlog'[j] => i = j
        BY <1>1 DEF AdmissionInv, BacklogInv
    <2>2. \A d \in Conn : Waits(d)' =>
             Fresh(d)' /\ peer'[d] # "none" /\ \A fd \in Fd : fdtab'[fd] # d
        BY <1>1, <1>3, <1>4, <1>8, ConstantTypes DEF AdmissionInv, BacklogInv, NoFile
    <2>3. \A fd \in Fd : fdtab'[fd] # NoFile => peer'[fdtab'[fd]] # "none"
        BY <1>1, <1>4 DEF AdmissionInv, BacklogInv
    <2> QED
        BY <2>1, <2>2, <2>3 DEF BacklogInv
<1>10. ThreadInv'
    <2>1. \A d \in Conn : ~Fresh(d)' => peer'[d] # "none" /\ thr'[d].row \in Rows
        BY <1>1, <1>3 DEF AdmissionInv, ThreadInv
    <2>2. \A d \in Conn : thr'[d].pc = "reading" => thr'[d].file \in Conn
        BY <1>1, <1>7 DEF AdmissionInv, ThreadInv
    <2>3. \A d \in Conn : peer'[d] = "none" => rx'[d] = <<>>
        BY <1>1, <1>6 DEF AdmissionInv, ThreadInv
    <2> QED
        BY <2>1, <2>2, <2>3 DEF ThreadInv
<1>11. MainInv'
    <2>1. File(main.fd)' = File(main.fd) \/ File(main.fd)' = NoFile
        BY <1>1, <1>4 DEF File
    <2>2. File(main.fd) \in Conn \cup {NoFile}
        BY DEF File, TypeOK
    <2>3. main'.pc \in {"check", "login"} /\ File(main.fd)' # NoFile => (Fresh(File(main.fd)))'
        BY <1>1, <1>3, <2>1, <2>2 DEF AdmissionInv, MainInv, Fresh
    <2>4. main.pc \in {"login", "reading", "first", "tokens", "auth"} => clnt_cnt' < MAX_CLNT
        <3>1. clnt_cnt \in Int /\ MAX_CLNT \in Int
            BY ServerAssumption DEF TypeOK
        <3>2. \A m, n \in Int : m < n => m - 1 < n
            OBVIOUS
        <3> QED
            BY <1>5, <3>1, <3>2 DEF AdmissionInv, MainInv
    <2>5. main.pc \in {"reading", "first", "tokens", "auth", "start"} =>
             /\ main.conn \in Conn /\ (Fresh(main.conn))' /\ peer[main.conn] # "none"
             /\ ~(Waits(main.conn))'
        BY <1>1, <1>3, <1>8 DEF AdmissionInv, MainInv, Fresh, Waits
    <2> QED
        BY <1>1, <2>3, <2>4, <2>5 DEF AdmissionInv, MainInv
<1> QED
    BY <1>9, <1>10, <1>11 DEF AdmissionInv

\* The connection accept returns is the first that waited, and the others wait on.
LEMMA AcceptTakes ==
    ASSUME TypeOK, Accept
    PROVE  \E c \in Conn, fd \in Fd :
              /\ fdtab[fd] = NoFile /\ \A d \in Fd : fdtab'[d] = IF d = fd THEN c ELSE fdtab[d]
              /\ main.pc = "accept" /\ main'.pc = "check" /\ main'.fd = fd
              /\ 1 \in DOMAIN backlog /\ backlog[1] = c /\ 0 \notin DOMAIN backlog'
              /\ \A i \in DOMAIN backlog' : i \in Nat /\ i + 1 \in DOMAIN backlog
                                            /\ backlog'[i] = backlog[i + 1]
<1> DEFINE c == Head(backlog)
<1>1. PICK fd \in Lowest :
         /\ main' = [main EXCEPT !.pc = "check", !.fd = fd]
         /\ fdtab' = [fdtab EXCEPT ![fd] = c]
    BY DEF Accept
<1>2. fd \in Fd /\ fdtab[fd] = NoFile /\ main.pc = "accept" /\ main'.pc = "check" /\ main'.fd = fd
    BY <1>1 DEF Accept, Lowest, TypeOK, MainType
<1>3. \A d \in Fd : fdtab'[d] = IF d = fd THEN c ELSE fdtab[d]
    BY <1>1 DEF TypeOK
<1>4. backlog' = Tail(backlog)
    BY DEF Accept
<1>5. backlog \in Seq(Conn) /\ backlog # <<>>
    BY DEF Accept, TypeOK
<1>6. /\ c = backlog[1] /\ Tail(backlog) \in Seq(Conn)
      /\ Len(Tail(backlog)) = Len(backlog) - 1 /\ Len(backlog) \in Nat /\ Len(backlog) # 0
      /\ \A i \in 1..Len(Tail(backlog)) : Tail(backlog)[i] = backlog[i + 1]
    BY <1>5, HeadTailProperties, EmptySeq, LenProperties
<1>7. /\ DOMAIN backlog = 1..Len(backlog) /\ DOMAIN backlog' = 1..Len(backlog) - 1
      /\ \A i \in 1..Len(backlog) - 1 : backlog'[i] = backlog[i + 1]
    BY <1>4, <1>5, <1>6, LenProperties
<1>8. \A n \in Nat : /\ n # 0 => 1 \in 1..n
                     /\ 0 \notin 1..n - 1 /\ \A i \in 1..n - 1 : i \in Nat /\ i + 1 \in 1..n
    OBVIOUS
<1>9. c \in Conn
    BY <1>5, <1>6, <1>8, ElementOfSeq
<1> HIDE DEF c
<1> QED
    BY <1>2, <1>3, <1>6, <1>7, <1>8, <1>9, Zenon

\* The main thread takes a connection through its places, one after the other.
LEMMA AcceptAdmissionInv == TypeOK /\ AdmissionInv /\ Accept => AdmissionInv'
<1> SUFFICES ASSUME TypeOK, AdmissionInv, Accept
             PROVE  AdmissionInv'
    OBVIOUS
<1>1. PICK c \in Conn, fd \in Fd :
         /\ fdtab[fd] = NoFile /\ \A d \in Fd : fdtab'[d] = IF d = fd THEN c ELSE fdtab[d]
         /\ main.pc = "accept" /\ main'.pc = "check" /\ main'.fd = fd
         /\ 1 \in DOMAIN backlog /\ backlog[1] = c /\ 0 \notin DOMAIN backlog'
         /\ \A i \in DOMAIN backlog' : i \in Nat /\ i + 1 \in DOMAIN backlog
                                       /\ backlog'[i] = backlog[i + 1]
    BY AcceptTakes
<1>2. UNCHANGED <<clnt_cnt, thr, peer, rx>>
    BY DEF Accept, clientVars
<1>3. Fresh(c) /\ peer[c] # "none" /\ \A d \in Fd : fdtab[d] # c
    BY <1>1 DEF AdmissionInv, BacklogInv, Waits
<1>4. \A i, j \in DOMAIN backlog' : backlog'[i] = backlog'[j] => i = j
    <2>1. \A i, j \in Nat : i + 1 = j + 1 => i = j
        OBVIOUS
    <2> QED
        BY <1>1, <2>1 DEF AdmissionInv, BacklogInv
<1>5. \A d \in Conn : Waits(d)' => Waits(d) /\ d # c
    <2>1. \A i \in Nat : i + 1 = 1 => i = 0
        OBVIOUS
    <2> QED
        BY <1>1, <2>1 DEF Waits, AdmissionInv, BacklogInv
<1>6. BacklogInv'
    <2>1. \A d \in Conn : Waits(d)' =>
             Fresh(d)' /\ peer'[d] # "none" /\ \A n \in Fd : fdtab'[n] # d
        BY <1>1, <1>2, <1>5 DEF AdmissionInv, BacklogInv, Fresh
    <2>2. \A n \in Fd : fdtab'[n] # NoFile => peer'[fdtab'[n]] # "none"
        BY <1>1, <1>2, <1>3 DEF AdmissionInv, BacklogInv
    <2> QED
        BY <1>4, <2>1, <2>2 DEF BacklogInv
<1>7. ThreadInv'
    BY <1>2 DEF AdmissionInv, ThreadInv, Fresh
<1>8. MainInv'
    <2>1. File(main.fd)' = c
        BY <1>1 DEF File
    <2> QED
        BY <1>1, <1>2, <1>3, <2>1 DEF MainInv, Fresh
<1> QED
    BY <1>6, <1>7, <1>8 DEF AdmissionInv

LEMMA MainAdmissionInv == TypeOK /\ AdmissionInv /\ Main => AdmissionInv'
<1> SUFFICES ASSUME TypeOK, AdmissionInv, Main
             PROVE  AdmissionInv'
    OBVIOUS
<1> USE DEF clientVars, MainGoes
<1>1. CASE Accept
    BY <1>1, AcceptAdmissionInv
<1>2. CASE CheckFull \/ LoginCall \/ Refuse \/ Admit \/ Reject
    <2>1. UNCHANGED <<thr, fdtab, peer, rx, backlog>>
        BY <1>2 DEF CheckFull, LoginCall, Refuse, Admit, Reject
    <2>2. BacklogInv' /\ ThreadInv'
        BY <2>1 DEF AdmissionInv, BacklogInv, ThreadInv, Waits, Fresh
    <2>3. CASE main' = IdleMain
        BY <2>2, <2>3 DEF IdleMain, AdmissionInv, MainInv
    <2>4. CASE CheckFull /\ main' # IdleMain
        <3>1. /\ main.pc = "check" /\ main'.pc = "login" /\ main'.fd = main.fd
              /\ clnt_cnt' = clnt_cnt /\ ~(clnt_cnt >= MAX_CLNT)
            BY <2>4 DEF CheckFull, TypeOK, MainType
        <3>2. clnt_cnt' < MAX_CLNT
            BY <3>1, ServerAssumption DEF TypeOK
        <3>3. File(main.fd)' = File(main.fd)
            BY <2>1, <3>1 DEF File
        <3>4. MainInv'
            BY <2>1, <3>1, <3>2, <3>3 DEF AdmissionInv, MainInv, Fresh
        <3> QED
            BY <2>2, <3>4 DEF AdmissionInv
    <2>5. CASE LoginCall /\ main' # IdleMain
        <3>1. /\ main.pc = "login" /\ main'.pc = "reading" /\ main'.fd = main.fd
              /\ main'.conn = File(main.fd) /\ File(main.fd) # NoFile /\ clnt_cnt' = clnt_cnt
            BY <2>5 DEF LoginCall, TypeOK, MainType
        <3>2. main.fd \in Fd /\ File(main.fd) = fdtab[main.fd] /\ fdtab[main.fd] \in Conn
            BY <3>1 DEF File, TypeOK, AdmissionInv, MainInv
        <3>3. Fresh(File(main.fd)) /\ peer[File(main.fd)] # "none" /\ ~Waits(File(main.fd))
            BY <3>1, <3>2 DEF AdmissionInv, MainInv, BacklogInv
        <3>4. MainInv'
            BY <2>1, <3>1, <3>2, <3>3 DEF AdmissionInv, MainInv, Fresh, Waits
        <3> QED
            BY <2>2, <3>4 DEF AdmissionInv
    <2>6. CASE Admit
        <3>1. /\ main.pc = "auth" /\ main'.pc = "start" /\ main'.fd = main.fd
              /\ main'.conn = main.conn /\ main'.to = main.to /\ main.to \in Rows
            BY <2>6 DEF Admit, TypeOK, MainType
        <3>2. MainInv'
            BY <2>1, <3>1 DEF AdmissionInv, MainInv, Fresh, Waits
        <3> QED
            BY <2>2, <3>2 DEF AdmissionInv
    <2> QED
        BY <1>2, <2>3, <2>4, <2>5, <2>6 DEF Refuse, Reject
<1>3. CASE LoginRead
    <2>1. /\ main.pc = "reading" /\ main.conn \in Conn
          /\ UNCHANGED <<clnt_cnt, thr, fdtab, peer, backlog>>
        BY <1>3 DEF LoginRead, AdmissionInv, MainInv
    <2>2. \A d \in Conn : peer[d] = "none" => rx'[d] = rx[d]
        BY <1>3, <2>1 DEF LoginRead, TypeOK, AdmissionInv, MainInv
    <2>3. BacklogInv' /\ ThreadInv'
        BY <2>1, <2>2 DEF AdmissionInv, BacklogInv, ThreadInv, Waits, Fresh
    <2>4. \/ main' = IdleMain
          \/ main'.pc = "first" /\ main'.conn = main.conn /\ main'.fd = main.fd
        BY <1>3 DEF LoginRead, TypeOK, MainType
    <2>5. MainInv'
        BY <2>1, <2>4 DEF AdmissionInv, MainInv, IdleMain, Waits, Fresh
    <2> QED
        BY <2>3, <2>5 DEF AdmissionInv
<1>4. CASE LoginFirst \/ LoginNext
    <2>1. /\ main.pc \in {"first", "tokens"} /\ main'.pc \in {"tokens", "auth"}
          /\ main'.conn = main.conn /\ main'.fd = main.fd
          /\ UNCHANGED <<clnt_cnt, thr, fdtab, peer, rx, backlog>>
        BY <1>4 DEF LoginFirst, LoginNext, TypeOK, MainType
    <2>2. BacklogInv' /\ ThreadInv'
        BY <2>1 DEF AdmissionInv, BacklogInv, ThreadInv, Waits, Fresh
    <2>3. MainInv'
        BY <2>1 DEF AdmissionInv, MainInv, Waits, Fresh
    <2> QED
        BY <2>2, <2>3 DEF AdmissionInv
<1>5. CASE Start
    <2>1. /\ main.conn \in Conn /\ main.to \in Rows /\ Fresh(main.conn)
          /\ peer[main.conn] # "none" /\ ~Waits(main.conn)
        BY <1>5 DEF Start, AdmissionInv, MainInv
    <2>2. /\ \A d \in Conn \ {main.conn} : thr'[d] = thr[d]
          /\ thr'[main.conn].pc = "read" /\ thr'[main.conn].row = main.to
          /\ main' = IdleMain /\ UNCHANGED <<clnt_cnt, fdtab, peer, rx, backlog>>
        BY <1>5, <2>1, AtReadType DEF Start, TypeOK
    <2>3. BacklogInv'
        BY <2>1, <2>2 DEF AdmissionInv, BacklogInv, Waits, Fresh
    <2>4. ThreadInv'
        BY <2>1, <2>2 DEF AdmissionInv, ThreadInv, Fresh
    <2>5. MainInv'
        BY <2>2 DEF MainInv, IdleMain
    <2> QED
        BY <2>3, <2>4, <2>5 DEF AdmissionInv
<1> QED
    BY <1>1, <1>2, <1>3, <1>4, <1>5 DEF Main

LEMMA NextAdmissionInv == TypeOK /\ AdmissionInv /\ [Next]_vars => AdmissionInv'
<1> SUFFICES ASSUME TypeOK, AdmissionInv, [Next]_vars
             PROVE  AdmissionInv'
    OBVIOUS
<1>1. CASE UNCHANGED vars
    BY <1>1 DEF vars, serverVars, clientVars, AdmissionInv, BacklogInv, ThreadInv, MainInv,
                Waits, Fresh, File
<1> QED
    BY <1>1, MainAdmissionInv, SigPipeAdmissionInv, ThreadAdmissionInv, ClientAdmissionInv
    DEF Next

\* The count follows the threads: it moves with an admission and with a logout.
LEMMA ActiveFinite == IsFiniteSet(Active)
<1>1. IsFiniteSet(Conn)
    BY FS_Interval, ServerAssumption DEF Conn
<1>2. Active \in SUBSET Conn
    BY DEF Active
<1> QED
    BY <1>1, <1>2, FS_Subset

LEMMA NextCounts == TypeOK /\ AdmissionInv /\ CountsThreads /\ [Next]_vars => CountsThreads'
<1> SUFFICES ASSUME TypeOK, AdmissionInv, CountsThreads, [Next]_vars
             PROVE  CountsThreads'
    OBVIOUS
<1> DEFINE n == Cardinality(Active)
<1>0. /\ n \in Nat /\ clnt_cnt \in Int /\ MAX_CLNT \in Nat /\ clnt_cnt <= MAX_CLNT
      /\ clnt_cnt = n + (IF main.pc = "start" THEN 1 ELSE 0)
    BY ActiveFinite, FS_CardinalityType, ServerAssumption DEF TypeOK, CountsThreads
<1> HIDE DEF n
<1>1. ASSUME UNCHANGED <<clnt_cnt, thr>>, main.pc # "start", main'.pc # "start"
      PROVE  CountsThreads'
    <2>1. Active' = Active
        BY <1>1 DEF Active
    <2> QED
        BY <1>0, <1>1, <2>1 DEF CountsThreads, n
<1>2. ASSUME UNCHANGED <<clnt_cnt, main>>, Active' = Active
      PROVE  CountsThreads'
    BY <1>0, <1>2 DEF CountsThreads, n
<1>3. CASE \/ Accept \/ CheckFull \/ LoginCall \/ LoginRead
          \/ LoginFirst \/ LoginNext \/ Refuse \/ Reject
    <2>1. UNCHANGED <<clnt_cnt, thr>> /\ main.pc # "start" /\ main'.pc # "start"
        <3>1. main \in MainType
            BY DEF TypeOK
        <3>2. CASE Accept
            BY <3>1, <3>2 DEF Accept, MainType
        <3>3. CASE CheckFull \/ LoginCall \/ LoginRead
            <4>1. IdleMain.pc = "accept"
                BY DEF IdleMain
            <4>2. main'.pc \in {"accept", "login", "reading", "first"}
                BY <3>1, <3>3, <4>1 DEF CheckFull, LoginCall, LoginRead, MainType
            <4>3. UNCHANGED <<clnt_cnt, thr>>
                BY <3>3 DEF CheckFull, LoginCall, LoginRead
            <4>4. main.pc # "start"
                BY <3>3 DEF CheckFull, LoginCall, LoginRead
            <4> QED
                BY <4>2, <4>3, <4>4
        <3>4. CASE LoginFirst \/ LoginNext
            BY <3>1, <3>4 DEF LoginFirst, LoginNext, MainGoes, MainType
        <3>5. CASE Refuse \/ Reject
            BY <3>5 DEF Refuse, Reject, IdleMain
        <3> QED
            BY <1>3, <3>2, <3>3, <3>4, <3>5
    <2> QED
        BY <1>1, <2>1
<1>4. CASE Admit
    <2>1. /\ main.pc = "auth" /\ main'.pc = "start" /\ clnt_cnt' = clnt_cnt + 1 /\ thr' = thr
        BY <1>4 DEF Admit, MainGoes, TypeOK, MainType
    <2>2. clnt_cnt < MAX_CLNT
        BY <2>1 DEF AdmissionInv, MainInv
    <2>3. Active' = Active
        BY <2>1 DEF Active
    <2> QED
        BY <1>0, <2>1, <2>2, <2>3 DEF CountsThreads, n
<1>5. CASE Start
    <2>1. /\ main.pc = "start" /\ main'.pc = "accept" /\ clnt_cnt' = clnt_cnt
          /\ main.conn \in Conn /\ thr[main.conn].pc = "off"
        BY <1>5 DEF Start, IdleMain, AdmissionInv, MainInv, Fresh
    <2>0. main.to \in Rows
        BY <1>5 DEF Start, AdmissionInv, MainInv
    <2>2. thr'[main.conn].pc = "read" /\ \A d \in Conn \ {main.conn} : thr'[d] = thr[d]
        BY <1>5, <2>1, <2>0, AtReadType DEF Start, TypeOK
    <2>3. main.conn \notin Active /\ Active' = Active \cup {main.conn}
        BY <2>1, <2>2 DEF Active
    <2>4. Cardinality(Active') = n + 1
        BY <2>3, ActiveFinite, FS_AddElement DEF n
    <2> QED
        BY <1>0, <2>1, <2>4 DEF CountsThreads
<1>6. ASSUME NEW c \in Conn, Thread(c)
      PROVE  CountsThreads'
    <2>1. /\ main' = main /\ \A d \in Conn \ {c} : thr'[d] = thr[d]
          /\ GoesOn(c) \/ Closes(c) \/ LogsOut(c)
        BY <1>6, ThreadEffect
    <2>2. CASE GoesOn(c) \/ Closes(c)
        <3>1. clnt_cnt' = clnt_cnt /\ thr[c].pc \notin {"off", "done"}
              /\ thr'[c].pc \notin {"off", "done"}
            BY <2>2 DEF GoesOn, Closes, OpenPc
        <3>2. Active' = Active
            BY <2>1, <3>1 DEF Active
        <3> QED
            BY <1>2, <2>1, <3>1, <3>2
    <2>3. CASE LogsOut(c)
        <3>1. clnt_cnt' = clnt_cnt - 1 /\ thr[c].pc = "logout" /\ thr'[c].pc = "done"
            BY <2>3 DEF LogsOut
        <3>2. c \in Active /\ Active' = Active \ {c}
            BY <2>1, <3>1 DEF Active
        <3>3. Cardinality(Active') = n - 1
            BY <3>2, ActiveFinite, FS_RemoveElement DEF n
        <3> QED
            BY <1>0, <2>1, <3>1, <3>3 DEF CountsThreads
    <2> QED
        BY <2>1, <2>2, <2>3
<1>7. CASE SigPipe
    <2>1. main'.pc = "dead" /\ clnt_cnt' = 0 /\ thr' = [c \in Conn |-> NoThread]
        BY <1>7 DEF SigPipe, IdleMain
    <2>2. Active' = {}
        BY <2>1 DEF Active, NoThread
    <2>3. Cardinality(Active') = 0
        BY <2>2, FS_EmptySet
    <2> QED
        BY <1>0, <2>1, <2>3 DEF CountsThreads
<1>8. ASSUME NEW c \in Conn, Client(c)
      PROVE  CountsThreads'
    <2>1. UNCHANGED <<main, clnt_cnt, thr>>
        BY <1>8 DEF Client, Connect, Login, Say, HangUp, Write, serverVars
    <2> QED
        BY <1>2, <2>1 DEF Active
<1>9. CASE UNCHANGED vars
    BY <1>2, <1>9 DEF vars, serverVars, Active
<1> QED
    BY <1>3, <1>4, <1>5, <1>6, <1>7, <1>8, <1>9 DEF Next, Main

-----------------------------------------------------------------------------
(* The rows of the table, as long as nobody was refused. *)

InHand == {"reading", "first", "tokens", "auth", "start"}
Logins ==
    /\ \A c \in Conn : Unread(c) =>
           IF said[c] THEN rx[c] # <<>> /\ rx[c][1].to = cid[c] ELSE rx[c] = <<>>
    /\ main.pc \in {"first", "tokens", "auth", "start"} => main.to = cid[main.conn]
    /\ \A c \in Conn : ~Fresh(c) => thr[c].row = cid[c]
Table ==
    /\ \A c \in Active : row_fd[thr[c].row] # NoFd
    /\ \A c \in Conn : thr[c].pc \in {"call", "close"} => thr[c].out = row_fd[thr[c].row]
    /\ \A c \in Conn : thr[c].pc = "reading" => thr[c].file = c
    /\ main.pc \in {"check", "login"} => File(main.fd) # NoFile
    /\ main.pc \in InHand => File(main.fd) = main.conn
    /\ main.pc = "start" =>
          row_fd[main.to] = main.fd /\ \A c \in Conn : ~Serves(c, main.to)
    /\ \A r \in Rows : row_fd[r] # NoFd => Starting(r) \/ Served(r)

\* A connection nobody read keeps its login, and a login in hand is its client's.
LEMMA LoginsKept ==
    ASSUME TypeOK, AdmissionInv, Logins,
           \A c \in Conn : peer[c] # "none" => cid'[c] = cid[c],
           \A c \in Conn : Unread(c)' =>
              Unread(c) /\ cid'[c] = cid[c] /\ rx'[c] = rx[c] /\ said'[c] = said[c],
           main'.pc \in {"first", "tokens", "auth", "start"} =>
              /\ main.pc \in {"first", "tokens", "auth", "start"}
              /\ main'.to = main.to /\ main'.conn = main.conn,
           \A c \in Conn : ~Fresh(c)' => ~Fresh(c) /\ thr'[c].row = thr[c].row
    PROVE  Logins'
<1>1. \A c \in Conn : Unread(c)' =>
         IF said'[c] THEN rx'[c] # <<>> /\ rx'[c][1].to = cid'[c] ELSE rx'[c] = <<>>
    BY DEF Logins
<1>2. main'.pc \in {"first", "tokens", "auth", "start"} => main'.to = cid'[main'.conn]
    BY DEF Logins, AdmissionInv, MainInv
<1>3. \A c \in Conn : ~Fresh(c)' => thr'[c].row = cid'[c]
    BY DEF Logins, AdmissionInv, ThreadInv
<1> QED
    BY <1>1, <1>2, <1>3 DEF Logins

\* The steps of the main thread.
LEMMA MainLogins == TypeOK /\ AdmissionInv /\ Logins /\ Main => Logins'
<1> SUFFICES ASSUME TypeOK, AdmissionInv, Logins, Main
             PROVE  Logins'
    OBVIOUS
<1> USE DEF clientVars
<1>0. IdleMain.pc = "accept" /\ main \in MainType
    BY DEF IdleMain, TypeOK
<1>1. UNCHANGED <<cid, peer, said>>
    BY DEF Main, Accept, CheckFull, LoginCall, LoginRead, LoginFirst, LoginNext, Refuse, Admit,
           Reject, Start
<1>2. CASE Accept
    <2>1. PICK c \in Conn, fd \in Fd :
             /\ \A d \in Fd : fdtab'[d] = IF d = fd THEN c ELSE fdtab[d]
             /\ main'.pc = "check" /\ main'.fd = fd
             /\ 1 \in DOMAIN backlog /\ backlog[1] = c
             /\ \A i \in DOMAIN backlog' : i \in Nat /\ i + 1 \in DOMAIN backlog
                                           /\ backlog'[i] = backlog[i + 1]
        BY <1>2, AcceptTakes
    <2>2. UNCHANGED <<thr, rx>>
        BY <1>2 DEF Accept
    <2>3. File(main.fd)' = c /\ Waits(c) /\ \A d \in Conn : Waits(d)' => Waits(d)
        BY <2>1 DEF File, Waits
    <2>4. \A d \in Conn : Unread(d)' => Unread(d)
        BY <1>1, <2>1, <2>3 DEF Unread
    <2> QED
        BY <1>1, <2>1, <2>2, <2>4, LoginsKept DEF Fresh
<1>3. CASE CheckFull \/ LoginCall \/ Refuse \/ Admit \/ Reject \/ LoginFirst \/ LoginNext
    <2>1. UNCHANGED <<thr, fdtab, rx, backlog>>
        BY <1>3 DEF CheckFull, LoginCall, Refuse, Admit, Reject, LoginFirst, LoginNext
    <2>2. \/ main'.pc = "accept"
          \/ main.pc = "check" /\ main'.pc = "login" /\ main'.fd = main.fd
          \/ main.pc = "login" /\ main'.pc = "reading" /\ main'.conn = File(main.fd)
          \/ /\ main.pc \in {"first", "tokens", "auth"} /\ main'.pc \in {"tokens", "auth", "start"}
             /\ main'.to = main.to /\ main'.conn = main.conn
        BY <1>0, <1>3 DEF CheckFull, LoginCall, Refuse, Admit, Reject, LoginFirst, LoginNext,
                          MainGoes, MainType
    <2>3. \A d \in Conn : (Waits(d)' <=> Waits(d)) /\ (main'.fd = main.fd => File(main.fd)' = File(main.fd))
        BY <2>1 DEF Waits, File
    <2>4. \A d \in Conn : Unread(d)' => Unread(d)
        BY <1>1, <2>2, <2>3 DEF Unread
    <2> QED
        BY <1>1, <2>1, <2>2, <2>4, LoginsKept DEF Fresh
<1>4. CASE LoginRead
    <2> DEFINE c == main.conn
    <2>1. /\ c \in Conn /\ main.pc = "reading" /\ Unread(c) /\ peer[c] # "none" /\ ~Waits(c)
          /\ UNCHANGED <<thr, fdtab, backlog>>
        BY <1>4 DEF LoginRead, AdmissionInv, MainInv, Unread
    <2>2. CASE main' = IdleMain /\ rx' = rx
        <3>1. \A d \in Conn : Unread(d)' => Unread(d)
            BY <1>0, <1>1, <2>1, <2>2 DEF Unread, Waits
        <3> QED
            BY <1>0, <1>1, <2>1, <2>2, <3>1, LoginsKept DEF Fresh
    <2>3. CASE /\ rx[c] # <<>>
               /\ main' = [main EXCEPT !.pc = "first", !.to = Head(rx[c]).to]
               /\ rx' = [rx EXCEPT ![c] = CutTail(@)]
        <3>1. Head(rx[c]) = rx[c][1]
            OBVIOUS
        <3>2. main'.pc = "first" /\ main'.conn = c /\ main'.to = cid[c]
            BY <1>0, <2>1, <2>3, <3>1 DEF Logins, MainType
        <3>3. \A d \in Conn : Unread(d)' => d # c /\ Unread(d) /\ rx'[d] = rx[d]
            BY <1>1, <2>1, <2>3, <3>2 DEF Unread, Waits, TypeOK
        <3> QED
            BY <1>1, <2>1, <3>2, <3>3 DEF Logins, Fresh
    <2> QED
        BY <1>4, <2>2, <2>3 DEF LoginRead
<1>5. CASE Start
    <2>1. /\ main.pc = "start" /\ main.conn \in Conn /\ main.to \in Rows /\ main.to = cid[main.conn]
          /\ UNCHANGED <<fdtab, rx, backlog>> /\ main' = IdleMain
        BY <1>5 DEF Start, AdmissionInv, MainInv, Logins
    <2>2. /\ thr'[main.conn].row = main.to
          /\ \A d \in Conn \ {main.conn} : thr'[d] = thr[d]
        BY <1>5, <2>1, AtReadType DEF Start, TypeOK
    <2>3. \A d \in Conn : Unread(d)' => Unread(d)
        BY <1>0, <1>1, <2>1 DEF Unread, Waits
    <2> QED
        BY <1>0, <1>1, <2>1, <2>2, <2>3 DEF Logins, Fresh
<1> QED
    BY <1>2, <1>3, <1>4, <1>5 DEF Main

\* A client's thread reads of its own connection only.
LEMMA ThreadLogins ==
    ASSUME TypeOK, AdmissionInv, Logins, Table, NEW c \in Conn, Thread(c)
    PROVE  Logins'
<1>1. /\ UNCHANGED <<main, cid, peer, said, backlog>>
      /\ \A d \in Conn \ {c} : thr'[d] = thr[d]
      /\ thr'[c].row = thr[c].row
      /\ GoesOn(c) \/ Closes(c) \/ LogsOut(c)
    BY ThreadEffect
<1>2. ~Fresh(c) /\ peer[c] # "none"
    BY <1>1 DEF GoesOn, Closes, LogsOut, OpenPc, Fresh, AdmissionInv, ThreadInv
<1>3. ~Unread(c)
    <2>1. c # NoFile
        BY ConstantTypes DEF NoFile
    <2> QED
        BY <1>2, <2>1 DEF Unread, AdmissionInv, BacklogInv, MainInv
<1>4. \A d \in Conn : rx'[d] = rx[d] \/ d = c
    BY <1>1 DEF GoesOn, Closes, LogsOut, Table
<1>5. \A d \in Conn : File(main.fd)' = d => File(main.fd) = d
    <2>1. \A fd \in Fd : fdtab'[fd] = fdtab[fd] \/ fdtab'[fd] = NoFile
        BY <1>1 DEF GoesOn, Closes, LogsOut
    <2> QED
        BY <1>1, <2>1, ConstantTypes DEF File, NoFile
<1>6. \A d \in Conn : Unread(d)' => Unread(d)
    BY <1>1, <1>5 DEF Unread, Waits
<1> QED
    BY <1>1, <1>2, <1>3, <1>4, <1>6, LoginsKept DEF Fresh

\* A client says its login first, once.
LEMMA ClientLogins ==
    ASSUME TypeOK, AdmissionInv, Logins, NEW c \in Conn, Client(c)
    PROVE  Logins'
<1> USE DEF serverVars
<1>0. \A d \in Conn : ~Fresh(d)' => ~Fresh(d) /\ thr'[d].row = thr[d].row
    BY DEF Client, Connect, Login, Say, HangUp, Write, Fresh
<1>1. ASSUME NEW id, Connect(c, id)
      PROVE  Logins'
    <2>1. /\ peer[c] = "none" /\ UNCHANGED <<main, thr, fdtab, rx, said>>
          /\ \A d \in Conn \ {c} : cid'[d] = cid[d] /\ peer'[d] = peer[d]
          /\ peer'[c] = "up" /\ backlog' = Append(backlog, c)
        BY <1>1 DEF Connect, TypeOK
    <2>2. Unread(c) /\ rx[c] = <<>> /\ ~said[c]
        BY <2>1 DEF AdmissionInv, ThreadInv, Unread, Logins
    <2>3. \A d \in Conn \ {c} : Waits(d)' => Waits(d)
        <3>1. backlog \in Seq(Conn) /\ Len(backlog) \in Nat
            BY DEF TypeOK
        <3>2. \A i \in DOMAIN backlog' : \/ i \in DOMAIN backlog /\ backlog'[i] = backlog[i]
                                         \/ backlog'[i] = c
            <4>1. /\ DOMAIN Append(backlog, c) = 1..Len(backlog) + 1
                  /\ DOMAIN backlog = 1..Len(backlog)
                  /\ \A i \in 1..Len(backlog) : Append(backlog, c)[i] = backlog[i]
                  /\ Append(backlog, c)[Len(backlog) + 1] = c
                BY <3>1, AppendProperties
            <4>2. \A n \in Nat : \A i \in 1..n + 1 : i \in 1..n \/ i = n + 1
                OBVIOUS
            <4> QED
                BY <2>1, <3>1, <4>1, <4>2, Zenon
        <3> QED
            BY <3>2 DEF Waits
    <2>4. \A d \in Conn \ {c} : Unread(d)' => Unread(d)
        BY <2>1, <2>3 DEF Unread, File
    <2>5. \A d \in Conn : Unread(d)' =>
             IF said'[d] THEN rx'[d] # <<>> /\ rx'[d][1].to = cid'[d] ELSE rx'[d] = <<>>
        BY <2>1, <2>2, <2>4 DEF Logins
    <2>6. main.pc \in {"first", "tokens", "auth", "start"} => cid'[main.conn] = cid[main.conn]
        BY <2>1 DEF AdmissionInv, MainInv
    <2>7. \A d \in Conn : ~Fresh(d) => cid'[d] = cid[d]
        BY <2>1 DEF AdmissionInv, ThreadInv
    <2> QED
        BY <1>0, <2>1, <2>5, <2>6, <2>7 DEF Logins
<1>2. ASSUME NEW to, NEW n, Write(c, to, n), said'[c], \A d \in Conn \ {c} : said'[d] = said[d],
             ~said[c] => to = cid[c]
      PROVE  Logins'
    <2>1. /\ UNCHANGED <<main, thr, fdtab, cid, peer, backlog>>
          /\ rx'[c] = Append(rx[c], [to |-> to, n |-> n])
          /\ \A d \in Conn \ {c} : rx'[d] = rx[d]
        BY <1>2 DEF Write, TypeOK
    <2>2. \A d \in Conn : Unread(d)' <=> Unread(d)
        BY <2>1 DEF Unread, Waits, File
    <2>3. rx'[c] # <<>> /\ (rx[c] = <<>> => rx'[c][1].to = to)
          /\ (rx[c] # <<>> => rx'[c][1] = rx[c][1])
        <3>1. rx[c] \in Seq(Unit) /\ Len(rx[c]) \in Nat
            BY DEF TypeOK
        <3>2. Append(rx[c], [to |-> to, n |-> n]) # <<>>
            BY <3>1
        <3>3. CASE rx[c] = <<>>
            BY <2>1, <3>2, <3>3
        <3>4. CASE rx[c] # <<>>
            <4>1. Len(rx[c]) # 0 /\ 1 \in 1..Len(rx[c])
                BY <3>1, <3>4
            <4>2. Append(rx[c], [to |-> to, n |-> n])[1] = rx[c][1]
                BY <3>1, <4>1
            <4> QED
                BY <2>1, <3>2, <3>4, <4>2
        <3> QED
            BY <3>3, <3>4
    <2>4. \A d \in Conn : Unread(d)' =>
             IF said'[d] THEN rx'[d] # <<>> /\ rx'[d][1].to = cid'[d] ELSE rx'[d] = <<>>
        BY <1>2, <2>1, <2>2, <2>3 DEF Logins
    <2> QED
        BY <2>1, <2>4 DEF Logins, Fresh
<1>3. CASE Login(c)
    <2>1. said'[c] /\ \A d \in Conn \ {c} : said'[d] = said[d]
        BY <1>3 DEF Login, TypeOK
    <2> QED
        BY <1>2, <1>3, <2>1 DEF Login
<1>4. CASE Say(c)
    BY <1>2, <1>4 DEF Say
<1>5. CASE HangUp(c)
    <2>1. /\ UNCHANGED <<main, thr, fdtab, cid, said, rx, backlog>>
          /\ \A d \in Conn : peer'[d] = "none" <=> peer[d] = "none"
        BY <1>5 DEF HangUp, TypeOK
    <2>2. \A d \in Conn : Unread(d)' => Unread(d)
        BY <2>1 DEF Unread, Waits, File
    <2> QED
        BY <1>0, <2>1, <2>2, LoginsKept
<1> QED
    BY <1>1, <1>3, <1>4, <1>5 DEF Client

\* A row stays served as long as its thread, its number and its connection stay.
LEMMA ServedKept ==
    ASSUME NEW r, Served(r),
           \A d \in Conn :
              /\ (Serves(d, r))' <=> Serves(d, r)
              /\ Serves(d, r) /\ thr'[d].pc # "logout" =>
                    /\ thr[d].pc # "logout" /\ cid'[d] = cid[d]
                    /\ File(row_fd[r]) = d => (File(row_fd[r]))' = d
    PROVE  (Served(r))'
<1>1. PICK c \in Conn :
         /\ Serves(c, r) /\ \A d \in Conn : Serves(d, r) => d = c
         /\ thr[c].pc # "logout" => File(row_fd[r]) = c /\ cid[c] = r
    BY DEF Served
<1>2. (Serves(c, r))' /\ \A d \in Conn : (Serves(d, r))' => d = c
    BY <1>1
<1>3. thr'[c].pc # "logout" => (File(row_fd[r]))' = c /\ cid'[c] = r
    BY <1>1
<1> QED
    BY <1>2, <1>3 DEF Served

\* Steps that touch neither the table, the descriptors nor the threads.
LEMMA IdleTable ==
    ASSUME TypeOK, AdmissionInv, Table,
           UNCHANGED <<row_fd, fdtab, thr>>,
           main' = main \/ main'.pc \in {"accept", "login", "reading", "first", "tokens", "auth", "dead"},
           main' # main => main.pc # "start",
           main' # main /\ main'.pc = "login" =>
              File(main'.fd) # NoFile,
           main' # main /\ main'.pc \in {"reading", "first", "tokens", "auth"} =>
              File(main'.fd) = main'.conn,
           \A c \in Conn : peer[c] # "none" => cid'[c] = cid[c]
    PROVE  Table'
<1>1. /\ Active' = Active /\ \A c \in Conn, r \in Rows : (Serves(c, r))' <=> Serves(c, r)
    BY DEF Active, Serves
<1>2. \A n : (File(n))' = File(n)
    BY DEF File
<1>3. \A c \in Conn, r \in Rows : Serves(c, r) => cid'[c] = cid[c]
    BY DEF Serves, Active, AdmissionInv, ThreadInv, Fresh
<1>4. \A r \in Rows : Served(r) => (Served(r))'
    BY <1>1, <1>2, <1>3, ServedKept
<1>5. CASE main' = main
    <2>1. \A r \in Rows : Starting(r) => (Starting(r))'
        <3>1. main.pc = "start" => main.conn \in Conn /\ cid'[main.conn] = cid[main.conn]
            BY DEF AdmissionInv, MainInv
        <3> QED
            BY <1>1, <1>2, <1>5, <3>1 DEF Starting
    <2>2. main.pc = "start" => \A c \in Conn : ~(Serves(c, main.to))'
        BY <1>1, <1>5 DEF Table, AdmissionInv, MainInv
    <2> QED
        BY <1>1, <1>2, <1>4, <1>5, <2>1, <2>2 DEF Table
<1>6. CASE main' # main
    BY <1>1, <1>2, <1>4, <1>6 DEF Table, Starting, InHand, Active
<1> QED
    BY <1>5, <1>6

LEMMA MainTable == TypeOK /\ AdmissionInv /\ Logins /\ Table /\ Main /\ ~Refuse => Table'
<1> SUFFICES ASSUME TypeOK, AdmissionInv, Logins, Table, Main, ~Refuse
             PROVE  Table'
    OBVIOUS
<1> USE DEF clientVars
<1>0. IdleMain.pc = "accept" /\ main \in MainType
    BY DEF IdleMain, TypeOK
<1>1. CASE Accept
    <2>1. PICK k \in Conn, fd \in Fd :
             /\ fdtab[fd] = NoFile /\ \A d \in Fd : fdtab'[d] = IF d = fd THEN k ELSE fdtab[d]
             /\ main.pc = "accept" /\ main'.pc = "check" /\ main'.fd = fd
        BY <1>1, AcceptTakes
    <2>2. UNCHANGED <<row_fd, thr, cid>> /\ 0 \notin Conn
        BY <1>1, ConstantTypes DEF Accept
    <2>3. (File(main.fd))' # NoFile
        BY <2>1, <2>2 DEF File, NoFile
    <2>4. \A n : \A c \in Conn : File(n) = c => (File(n))' = c
        BY <2>1, <2>2 DEF File, NoFile
    <2>5. Active' = Active /\ \A c \in Conn, r \in Rows : (Serves(c, r))' <=> Serves(c, r)
        BY <2>2 DEF Active, Serves
    <2>6. \A r \in Rows : Served(r) => (Served(r))'
        BY <2>2, <2>4, <2>5, ServedKept
    <2>7. \A r \in Rows : ~Starting(r)
        BY <2>1 DEF Starting
    <2> QED
        BY <2>1, <2>2, <2>3, <2>5, <2>6, <2>7 DEF Table, InHand
<1>2. CASE CheckFull \/ LoginCall \/ LoginRead \/ LoginFirst \/ LoginNext \/ Reject
    <2>1. /\ UNCHANGED <<row_fd, fdtab, thr, cid>> /\ main.pc # "start"
        BY <1>2 DEF CheckFull, LoginCall, LoginRead, LoginFirst, LoginNext, Reject
    <2>2. \/ main'.pc = "accept"
          \/ CheckFull /\ main.pc = "check" /\ main'.pc = "login" /\ main'.fd = main.fd
          \/ LoginCall /\ main'.pc = "reading" /\ main'.fd = main.fd /\ main'.conn = File(main.fd)
          \/ /\ main.pc \in {"reading", "first", "tokens"} /\ main'.pc \in {"first", "tokens", "auth"}
             /\ main'.fd = main.fd /\ main'.conn = main.conn
        BY <1>0, <1>2 DEF CheckFull, LoginCall, LoginRead, LoginFirst, LoginNext, Reject, MainGoes,
                          MainType
    <2> QED
        BY <2>1, <2>2, IdleTable DEF Table, InHand
<1>3. CASE Admit
    <2>0. PICK s \in Rows : s = main.to
        BY <1>3 DEF Admit
    <2>1. /\ row_fd[s] = NoFd /\ main.pc = "auth"
          /\ row_fd' = [row_fd EXCEPT ![s] = main.fd] /\ UNCHANGED <<thr, fdtab, cid>>
        BY <1>3, <2>0 DEF Admit, LoggedIn
    <2>2. main'.pc = "start" /\ main'.fd = main.fd /\ main'.conn = main.conn /\ main'.to = main.to
        BY <1>0, <1>3 DEF Admit, MainGoes, MainType
    <2>3. main.fd \in Fd /\ main.fd # NoFd /\ main.conn \in Conn /\ File(main.fd) = main.conn
        BY <2>1, ConstantTypes DEF AdmissionInv, MainInv, Table, InHand
    <2>4. \A r \in Rows : row_fd'[r] = IF r = s THEN main.fd ELSE row_fd[r]
        BY <2>1 DEF TypeOK
    <2>5. Active' = Active /\ \A c \in Conn, r \in Rows : (Serves(c, r))' <=> Serves(c, r)
        BY <2>1 DEF Active, Serves
    <2>6. \A c \in Conn : ~Serves(c, s)
        BY <2>1 DEF Table, Serves
    <2>7. \A n : (File(n))' = File(n)
        BY <2>1 DEF File
    <2>8. cid[main.conn] = s
        BY <2>0, <2>1 DEF Logins
    <2>9. (Starting(s))'
        BY <2>0, <2>1, <2>2, <2>3, <2>4, <2>5, <2>6, <2>7, <2>8 DEF Starting
    <2>10. \A r \in Rows \ {s} : row_fd[r] # NoFd => (Served(r))'
        <3> SUFFICES ASSUME NEW r \in Rows \ {s}, row_fd[r] # NoFd
                     PROVE  (Served(r))'
            OBVIOUS
        <3>1. Served(r)
            BY <2>1 DEF Table, Starting
        <3> QED
            BY <2>1, <2>4, <2>5, <2>7, <3>1, ServedKept
    <2>11. \A c \in Active' : row_fd'[thr'[c].row] # NoFd /\ row_fd'[thr[c].row] = row_fd[thr[c].row]
        BY <2>1, <2>3, <2>4, <2>5, <2>6 DEF Table, Active, Serves, AdmissionInv, ThreadInv, Fresh
    <2>12. row_fd'[main'.to] = main'.fd /\ \A c \in Conn : ~(Serves(c, main.to))'
        BY <2>0, <2>1, <2>2, <2>4, <2>6 DEF Serves, Active
    <2>13. \A r \in Rows : row_fd'[r] # NoFd => (Starting(r))' \/ (Served(r))'
        BY <2>4, <2>9, <2>10
    <2>14. (File(main.fd))' = main'.conn
        BY <2>2, <2>3, <2>7
    <2> QED
        BY <2>1, <2>2, <2>11, <2>12, <2>13, <2>14 DEF Table, Active
<1>4. CASE Start
    <2>0. PICK s \in Rows, k \in Conn : s = main.to /\ k = main.conn
        BY <1>4 DEF Start, AdmissionInv, MainInv
    <2>1. /\ main.pc = "start" /\ main'.pc = "accept"
          /\ thr[k].pc = "off" /\ UNCHANGED <<row_fd, fdtab, cid>>
        BY <1>0, <1>4, <2>0 DEF Start, AdmissionInv, MainInv, Fresh
    <2>2. /\ thr'[k].pc = "read" /\ thr'[k].row = s
          /\ \A d \in Conn \ {k} : thr'[d] = thr[d]
        BY <1>4, <2>0, <2>1, AtReadType DEF Start, TypeOK
    <2>3. Active' = Active \cup {k} /\ k \notin Active
        BY <2>1, <2>2 DEF Active
    <2>4. \A c \in Conn, r \in Rows : (Serves(c, r))' <=> Serves(c, r) \/ (c = k /\ r = s)
        BY <2>2, <2>3 DEF Serves
    <2>5. \A n : (File(n))' = File(n)
        BY <2>1 DEF File
    <2>6. /\ row_fd[s] = main.fd /\ File(main.fd) = k /\ main.fd # NoFd
          /\ \A c \in Conn : ~Serves(c, s)
        BY <2>0, <2>1, ConstantTypes DEF Table, InHand, AdmissionInv, MainInv
    <2>7. Starting(s)
        <3>1. Starting(s) \/ Served(s)
            BY <2>1, <2>6 DEF Table
        <3> QED
            BY <2>6, <3>1 DEF Served
    <2>8. (Served(s))'
        <3>1. cid[k] = s
            BY <2>0, <2>7 DEF Starting
        <3>2. (Serves(k, s))' /\ \A d \in Conn : (Serves(d, s))' => d = k
            BY <2>4, <2>6
        <3>3. (File(row_fd[s]))' = k /\ cid'[k] = s
            BY <2>1, <2>5, <2>6, <3>1
        <3> QED
            BY <3>2, <3>3 DEF Served
    <2>9. \A r \in Rows \ {s} : row_fd[r] # NoFd => (Served(r))'
        <3> SUFFICES ASSUME NEW r \in Rows \ {s}, row_fd[r] # NoFd
                     PROVE  (Served(r))'
            OBVIOUS
        <3>1. Served(r)
            BY <2>0 DEF Table, Starting
        <3>2. \A d \in Conn : Serves(d, r) => thr'[d] = thr[d]
            BY <2>2, <2>3 DEF Serves
        <3> QED
            BY <2>1, <2>4, <2>5, <3>1, <3>2, ServedKept
    <2>10. \A c \in Active' : row_fd'[thr'[c].row] # NoFd
        BY <2>1, <2>2, <2>3, <2>6 DEF Table, Active
    <2>11. \A r \in Rows : row_fd'[r] # NoFd => (Served(r))'
        BY <2>1, <2>8, <2>9
    <2> QED
        BY <2>1, <2>2, <2>10, <2>11 DEF Table, InHand
<1> QED
    BY <1>1, <1>2, <1>3, <1>4 DEF Main

\* A thread that has not closed its connection has the row that denotes it.
LEMMA OwnRow ==
    ASSUME TypeOK, AdmissionInv, Table, NEW c \in Conn, thr[c].pc \notin {"off", "done", "logout"}
    PROVE  /\ thr[c].row \in Rows /\ row_fd[thr[c].row] \in Fd
           /\ File(row_fd[thr[c].row]) = c /\ cid[c] = thr[c].row
           /\ \A d \in Conn : Serves(d, thr[c].row) => d = c
<1> DEFINE r == thr[c].row
<1>1. c \in Active /\ r \in Rows /\ Serves(c, r)
    BY DEF Active, Serves, AdmissionInv, ThreadInv, Fresh
<1>2. row_fd[r] # NoFd /\ row_fd[r] \in Fd
    BY <1>1 DEF Table, TypeOK
<1>3. Served(r)
    BY <1>1, <1>2 DEF Table, Starting
<1>4. PICK d \in Conn :
         /\ Serves(d, r) /\ \A e \in Conn : Serves(e, r) => e = d
         /\ thr[d].pc # "logout" => File(row_fd[r]) = d /\ cid[d] = r
    BY <1>3 DEF Served
<1>5. d = c
    BY <1>1, <1>4
<1> QED
    BY <1>1, <1>2, <1>4, <1>5

\* A thread closes the number of its own client, and gives its own row back.
LEMMA ThreadTable ==
    ASSUME TypeOK, AdmissionInv, Table, NEW c \in Conn, Thread(c)
    PROVE  Table'
<1>0. PICK s \in Rows : thr[c].row = s
    BY ThreadEffect DEF GoesOn, Closes, LogsOut, OpenPc, AdmissionInv, ThreadInv, Fresh
<1>1. /\ UNCHANGED <<main, cid>> /\ thr'[c].row = s
      /\ \A d \in Conn \ {c} : thr'[d] = thr[d]
      /\ GoesOn(c) \/ Closes(c) \/ LogsOut(c)
    BY <1>0, ThreadEffect
<1>2. c \in Active /\ Serves(c, s) /\ row_fd[s] # NoFd
    BY <1>0, <1>1 DEF GoesOn, Closes, LogsOut, OpenPc, Active, Serves, Table
<1>3. ~Starting(s) /\ Served(s)
    BY <1>2 DEF Table, Starting
<1>4. \A d \in Conn : Serves(d, s) => d = c
    BY <1>2, <1>3 DEF Served
<1>5. main.pc \in InHand => main.conn \in Conn /\ main.conn # c
    BY <1>2 DEF AdmissionInv, MainInv, Fresh, Active, InHand
<1>6. main.pc \in {"check", "login"} => File(main.fd) # c
    BY <1>2 DEF AdmissionInv, MainInv, Fresh, Active, Table
<1>7. main.pc = "start" => main.to # s /\ main.to \in Rows
    BY <1>2 DEF AdmissionInv, MainInv, Table
<1>8. CASE GoesOn(c)
    <2>1. /\ UNCHANGED <<row_fd, fdtab>> /\ thr[c].pc \notin {"off", "done", "logout"}
          /\ thr'[c].pc \notin {"off", "done", "logout"}
        BY <1>8 DEF GoesOn, OpenPc
    <2>2. Active' = Active /\ \A d \in Conn, r \in Rows : (Serves(d, r))' <=> Serves(d, r)
        BY <1>0, <1>1, <2>1 DEF Active, Serves
    <2>3. \A n : (File(n))' = File(n)
        BY <2>1 DEF File
    <2>4. \A r \in Rows : Served(r) => (Served(r))'
        BY <1>1, <2>1, <2>2, <2>3, ServedKept
    <2>5. \A r \in Rows : Starting(r) => (Starting(r))'
        BY <1>1, <2>1, <2>2, <2>3 DEF Starting
    <2>6. \A d \in Active' : row_fd'[thr'[d].row] # NoFd
        BY <1>0, <1>1, <2>1, <2>2 DEF Table, Active
    <2>7. main.pc = "start" => \A d \in Conn : ~(Serves(d, main.to))'
        BY <1>1, <1>7, <2>2 DEF Table
    <2>8. thr'[c].pc = "reading" => thr'[c].file = c
        BY <1>0, <1>8, OwnRow DEF GoesOn, Table
    <2>9. thr'[c].pc \in {"call", "close"} => thr'[c].out = row_fd'[thr'[c].row]
        BY <1>1, <1>8, <2>1, <1>0 DEF GoesOn
    <2> QED
        BY <1>1, <2>1, <2>3, <2>4, <2>5, <2>6, <2>7, <2>8, <2>9 DEF Table, InHand
<1>9. CASE Closes(c)
    <2>1. /\ thr[c].pc = "close" /\ thr'[c].pc = "logout" /\ UNCHANGED row_fd
          /\ fdtab' = [fd \in Fd |-> IF fd = row_fd[s] THEN NoFile ELSE fdtab[fd]]
        BY <1>0, <1>9 DEF Closes, Table
    <2>2. File(row_fd[s]) = c
        BY <1>2, <1>3, <1>4, <2>1 DEF Served
    <2>3. \A n : \A d \in Conn \ {c} : File(n) = d => (File(n))' = d
        BY <2>1, <2>2 DEF File
    <2>4. Active' = Active /\ \A d \in Conn, r \in Rows : (Serves(d, r))' <=> Serves(d, r)
        BY <1>0, <1>1, <2>1 DEF Active, Serves
    <2>5. \A r \in Rows : Served(r) => (Served(r))'
        <3>1. \A d \in Conn : thr'[d].pc # "logout" => d # c
            BY <2>1
        <3> QED
            BY <1>1, <2>1, <2>3, <2>4, <3>1, ServedKept
    <2>6. \A r \in Rows : Starting(r) => (Starting(r))'
        BY <1>1, <1>5, <2>1, <2>3, <2>4 DEF Starting, InHand
    <2>7. \A d \in Active' : row_fd'[thr'[d].row] # NoFd
        BY <1>0, <1>1, <2>1, <2>4 DEF Table, Active
    <2>8. main.pc = "start" => \A d \in Conn : ~(Serves(d, main.to))'
        BY <1>1, <1>7, <2>4 DEF Table
    <2>9. main.pc \in {"check", "login"} => (File(main.fd))' # NoFile
        <3>1. File(main.fd) \in Conn \cup {NoFile} /\ 0 \notin Conn
            BY ConstantTypes DEF File, TypeOK
        <3> QED
            BY <1>1, <1>6, <2>3, <3>1 DEF Table, NoFile
    <2>10. main.pc \in InHand => (File(main.fd))' = main.conn
        BY <1>1, <1>5, <2>3 DEF Table
    <2> QED
        BY <1>1, <2>1, <2>5, <2>6, <2>7, <2>8, <2>9, <2>10 DEF Table
<1>10. CASE LogsOut(c)
    <2>1. /\ thr[c].pc = "logout" /\ thr'[c].pc = "done" /\ UNCHANGED fdtab
          /\ \A r \in Rows : row_fd'[r] = IF r = s THEN NoFd ELSE row_fd[r]
        BY <1>0, <1>10 DEF LogsOut, TypeOK
    <2>2. Active' = Active \ {c}
        BY <1>1, <2>1 DEF Active
    <2>3. \A d \in Conn, r \in Rows : (Serves(d, r))' <=> Serves(d, r) /\ d # c
        BY <1>1, <2>2 DEF Serves
    <2>4. \A n : (File(n))' = File(n)
        BY <2>1 DEF File
    <2>5. \A r \in Rows \ {s} : ~Serves(c, r)
        BY <1>0 DEF Serves
    <2>6. \A r \in Rows \ {s} : Served(r) => (Served(r))'
        BY <1>1, <2>1, <2>3, <2>4, <2>5, ServedKept
    <2>7. \A r \in Rows \ {s} : Starting(r) => (Starting(r))'
        BY <1>1, <2>1, <2>3, <2>4 DEF Starting
    <2>8. \A d \in Active' :
             /\ row_fd'[thr'[d].row] # NoFd
             /\ thr'[d] = thr[d] /\ row_fd'[thr[d].row] = row_fd[thr[d].row]
        <3> SUFFICES ASSUME NEW d \in Active, d # c
                     PROVE  /\ row_fd'[thr'[d].row] # NoFd
                            /\ thr'[d] = thr[d] /\ row_fd'[thr[d].row] = row_fd[thr[d].row]
            BY <2>2
        <3>1. d \in Conn /\ thr'[d] = thr[d] /\ thr[d].row \in Rows /\ row_fd[thr[d].row] # NoFd
            BY <1>1 DEF Active, AdmissionInv, ThreadInv, Fresh, Table
        <3>2. thr[d].row # s
            BY <1>4, <3>1 DEF Serves
        <3> QED
            BY <2>1, <3>1, <3>2
    <2>9. main.pc = "start" =>
             row_fd'[main.to] = main.fd /\ \A d \in Conn : ~(Serves(d, main.to))'
        BY <1>1, <1>7, <2>1, <2>3 DEF Table
    <2>10. \A r \in Rows : row_fd'[r] # NoFd => (Starting(r))' \/ (Served(r))'
        BY <2>1, <2>6, <2>7 DEF Table
    <2> QED
        BY <1>1, <2>1, <2>4, <2>8, <2>9, <2>10 DEF Table, Active, InHand
<1> QED
    BY <1>1, <1>8, <1>9, <1>10

LEMMA SigPipeTable == SigPipe => Table'
<1> SUFFICES ASSUME SigPipe
             PROVE  Table'
    OBVIOUS
<1>1. /\ main'.pc = "dead" /\ row_fd' = [r \in Rows |-> NoFd]
      /\ \A c \in Conn : thr'[c].pc = "off"
    BY DEF SigPipe, IdleMain, NoThread
<1>2. Active' = {}
    BY <1>1 DEF Active
<1> QED
    BY <1>1, <1>2 DEF Table, InHand

\* A connection that is told so stays refused.
LEMMA RefusedStays ==
    ASSUME [Next]_vars, refused' = {}
    PROVE  refused = {} /\ ~Refuse
<1>1. ASSUME NEW c \in Conn, Thread(c) \/ Client(c)
      PROVE  refused' = refused
    BY <1>1 DEF Thread, ReadCall, ReadFile, Read, ReadFirst, ReadNext, Format, Send, WriteOut, Reply,
                Bye, Close, Logout, Client, Connect, Login, Say, HangUp, Write
<1>2. CASE Main
    BY <1>2 DEF Main, Accept, CheckFull, LoginCall, LoginRead, LoginFirst, LoginNext, Refuse, Admit,
                Reject, Start
<1>3. ~Refuse
    BY DEF Refuse
<1> QED
    BY <1>1, <1>2, <1>3 DEF Next, SigPipe, vars

\* The end of the server ends every session.
LEMMA SigPipeLogins == TypeOK /\ AdmissionInv /\ Logins /\ SigPipe => Logins'
<1> SUFFICES ASSUME TypeOK, AdmissionInv, Logins, SigPipe
             PROVE  Logins'
    OBVIOUS
<1>1. /\ main'.pc = "dead" /\ backlog' = <<>> /\ UNCHANGED <<cid, said, rx>>
      /\ \A c \in Conn : thr'[c].pc = "off" /\ (peer'[c] = "none" => peer[c] = "none")
    BY DEF SigPipe, IdleMain, NoThread
<1>2. \A c \in Conn : Unread(c)' => Unread(c)
    BY <1>1 DEF Unread, Waits
<1> QED
    BY <1>1, <1>2, LoginsKept DEF Fresh

\* Only the first refusal ends what holds of the logins and of the table.
LEMMA NextRows ==
    ASSUME TypeOK, AdmissionInv, [Next]_vars, refused' = {}, refused = {} => Logins /\ Table
    PROVE  Logins' /\ Table'
<1>1. refused = {} /\ ~Refuse /\ Logins /\ Table
    BY RefusedStays
<1>2. ASSUME NEW c \in Conn, Client(c)
      PROVE  Table'
    <2>1. UNCHANGED <<main, row_fd, fdtab, thr>>
        BY <1>2 DEF Client, Connect, Login, Say, HangUp, Write, serverVars
    <2>2. \A d \in Conn : peer[d] # "none" => cid'[d] = cid[d]
        BY <1>2 DEF Client, Connect, Login, Say, HangUp, Write, TypeOK
    <2> QED
        BY <1>1, <2>1, <2>2, IdleTable
<1>3. CASE UNCHANGED vars
    <2>1. Table'
        BY <1>1, <1>3, IdleTable DEF vars, serverVars, clientVars
    <2>2. Logins'
        BY <1>1, <1>3 DEF vars, serverVars, clientVars, Logins, Unread, Waits, File, Fresh
    <2> QED
        BY <2>1, <2>2
<1> QED
    BY <1>1, <1>2, <1>3, MainTable, MainLogins, ThreadTable, ThreadLogins, ClientLogins,
       SigPipeTable, SigPipeLogins DEF Next

-----------------------------------------------------------------------------
(* Whom a thread writes to. *)

Hand(c) ==
    /\ thr[c].pc \in {"send", "write"} =>
           \A k \in DOMAIN thr[c].left : thr[c].to \in {Everybody, thr[c].left[k]}
    /\ thr[c].pc = "write" /\ refused = {} =>
           \/ thr[c].to = Everybody \/ Ended(thr[c].to)
           \/ File(thr[c].out) # NoFile /\ cid[File(thr[c].out)] = thr[c].to

\* Every step but the end of the server.
Moves == Main \/ \E c \in Conn : Thread(c) \/ Client(c)

\* The next step's Ended and File, of a value this step has.
EndedNext(r) == \E c \in Conn : cid'[c] = r /\ thr'[c].pc \in {"logout", "done"}
FileNext(fd) == IF fd \in Fd THEN fdtab'[fd] ELSE NoFile

\* A session that has ended stays ended, as long as the server runs.
LEMMA EndedStays ==
    ASSUME TypeOK, AdmissionInv, Moves, NEW r, Ended(r)
    PROVE  EndedNext(r)
<1>1. PICK e \in Conn : cid[e] = r /\ thr[e].pc \in {"logout", "done"}
    BY DEF Ended, EndedNext
<1>2. ~Fresh(e) /\ peer[e] # "none"
    BY <1>1 DEF Fresh, AdmissionInv, ThreadInv
<1>3. CASE Main
    <2>1. cid' = cid
        BY <1>3 DEF Main, Accept, CheckFull, LoginCall, LoginRead, LoginFirst, LoginNext, Refuse,
                    Admit, Reject, Start, clientVars
    <2>2. CASE Start
        <3>1. main.conn # e
            BY <1>2, <2>2 DEF Start, AdmissionInv, MainInv
        <3>2. thr'[e] = thr[e]
            BY <2>2, <3>1 DEF Start, TypeOK
        <3> QED
            BY <1>1, <2>1, <3>2 DEF Ended, EndedNext
    <2>3. CASE ~Start
        <3>1. thr' = thr
            BY <1>3, <2>3 DEF Main, Accept, CheckFull, LoginCall, LoginRead, LoginFirst, LoginNext,
                              Refuse, Admit, Reject
        <3> QED
            BY <1>1, <2>1, <3>1 DEF Ended, EndedNext
    <2> QED
        BY <2>2, <2>3
<1>4. ASSUME NEW c \in Conn, Thread(c)
      PROVE  EndedNext(r)
    <2>1. /\ cid' = cid /\ \A d \in Conn \ {c} : thr'[d] = thr[d]
          /\ GoesOn(c) \/ Closes(c) \/ LogsOut(c)
        BY <1>4, ThreadEffect
    <2>2. thr'[e].pc \in {"logout", "done"}
        BY <1>1, <2>1 DEF GoesOn, Closes, LogsOut, OpenPc
    <2> QED
        BY <1>1, <2>1, <2>2 DEF Ended, EndedNext
<1>5. ASSUME NEW c \in Conn, Client(c)
      PROVE  EndedNext(r)
    <2>1. thr' = thr
        BY <1>5 DEF Client, Connect, Login, Say, HangUp, Write, serverVars
    <2>2. cid'[e] = cid[e]
        BY <1>2, <1>5 DEF Client, Connect, Login, Say, HangUp, Write, TypeOK
    <2> QED
        BY <1>1, <2>1, <2>2 DEF Ended, EndedNext
<1> QED
    BY <1>3, <1>4, <1>5 DEF Moves

\* What a thread has in hand stays good while its number denotes the same connection.
LEMMA HandKept ==
    ASSUME TypeOK, AdmissionInv, Moves, NEW c \in Conn, Hand(c), thr'[c] = thr[c],
           thr[c].pc = "write" /\ refused' = {} /\ File(thr[c].out) # NoFile
              => \/ EndedNext(cid[File(thr[c].out)])
                 \/ /\ FileNext(thr[c].out) = File(thr[c].out)
                    /\ cid'[File(thr[c].out)] = cid[File(thr[c].out)]
    PROVE  Hand(c)'
<1>1. \A k \in DOMAIN thr'[c].left :
         thr'[c].pc \in {"send", "write"} => thr'[c].to \in {Everybody, thr'[c].left[k]}
    BY DEF Hand
<1>2. ASSUME thr'[c].pc = "write", refused' = {}
      PROVE  \/ thr[c].to = Everybody \/ EndedNext(thr[c].to)
             \/ FileNext(thr[c].out) # NoFile /\ cid'[FileNext(thr[c].out)] = thr[c].to
    <2>1. \/ thr[c].to = Everybody \/ Ended(thr[c].to)
          \/ File(thr[c].out) # NoFile /\ cid[File(thr[c].out)] = thr[c].to
        BY <1>2, RefusedStays DEF Hand, Moves, Next
    <2>2. Ended(thr[c].to) => EndedNext(thr[c].to)
        BY EndedStays
    <2>3. ASSUME File(thr[c].out) # NoFile, cid[File(thr[c].out)] = thr[c].to
          PROVE  \/ EndedNext(thr[c].to)
                 \/ FileNext(thr[c].out) # NoFile /\ cid'[FileNext(thr[c].out)] = thr[c].to
        BY <1>2, <2>3
    <2> QED
        BY <2>1, <2>2, <2>3
<1> QED
    BY <1>1, <1>2 DEF Hand, Ended, EndedNext, File, FileNext

\* The main thread hands out numbers that denote nothing.
LEMMA MainReceiver == TypeOK /\ AdmissionInv /\ ReceiverInv /\ Main => ReceiverInv'
<1> SUFFICES ASSUME TypeOK, AdmissionInv, ReceiverInv, Main, NEW c \in Conn
             PROVE  Hand(c)'
    BY DEF ReceiverInv, Hand
<1>1. cid' = cid
    BY DEF Main, Accept, CheckFull, LoginCall, LoginRead, LoginFirst, LoginNext, Refuse, Admit,
           Reject, Start, clientVars
<1>2. \A fd : File(fd) # NoFile => FileNext(fd) = File(fd)
    <2>1. CASE Accept
        BY <2>1, AcceptTakes DEF File, FileNext
    <2>2. CASE ~Accept
        BY <2>2 DEF Main, CheckFull, LoginCall, LoginRead, LoginFirst, LoginNext, Refuse, Admit,
                    Reject, Start, File, FileNext
    <2> QED
        BY <2>1, <2>2
<1>3. CASE Start /\ c = main.conn
    <2>1. thr'[c].pc = "read"
        BY <1>3, AtReadType DEF Start, AdmissionInv, MainInv, TypeOK
    <2> QED
        BY <2>1 DEF Hand
<1>4. CASE ~(Start /\ c = main.conn)
    <2>1. thr'[c] = thr[c]
        BY <1>4 DEF Main, Accept, CheckFull, LoginCall, LoginRead, LoginFirst, LoginNext, Refuse,
                    Admit, Reject, Start, TypeOK
    <2>2. Hand(c) /\ Moves
        BY DEF ReceiverInv, Hand, Moves
    <2> QED
        BY <1>1, <1>2, <2>1, <2>2, HandKept
<1> QED
    BY <1>3, <1>4

\* A number a thread loads is its receiver's, unless the receiver's session has ended.
LEMMA Loaded ==
    ASSUME TypeOK, AdmissionInv, Logins, Table, NEW r \in Rows, row_fd[r] # NoFd
    PROVE  Ended(r) \/ (File(row_fd[r]) # NoFile /\ cid[File(row_fd[r])] = r)
<1>1. 0 \notin Conn
    BY ConstantTypes
<1>2. CASE Starting(r)
    BY <1>1, <1>2 DEF Starting, NoFile, AdmissionInv, MainInv
<1>3. CASE Served(r)
    <2>1. PICK e \in Conn :
             Serves(e, r) /\ (thr[e].pc # "logout" => File(row_fd[r]) = e /\ cid[e] = r)
        BY <1>3 DEF Served
    <2>2. CASE thr[e].pc = "logout"
        BY <2>1, <2>2 DEF Serves, Logins, Fresh, Ended
    <2>3. CASE thr[e].pc # "logout"
        BY <1>1, <2>1, <2>3 DEF NoFile
    <2> QED
        BY <2>2, <2>3
<1> QED
    BY <1>2, <1>3 DEF Table

\* The thread that takes a step has the right number in hand, too.
LEMMA OwnHand ==
    ASSUME TypeOK, AdmissionInv, refused = {} => Logins /\ Table, ReceiverInv,
           NEW c \in Conn, Thread(c)
    PROVE  Hand(c)'
<1>1. thr \in [Conn -> ThreadType] /\ thr[c] \in ThreadType /\ Hand(c)
    BY DEF TypeOK, ReceiverInv, Hand
<1>2. CASE Format(c)
    <2>1. thr'[c].pc = "send" /\ thr'[c].to = thr[c].to /\ thr'[c].left = Route(thr[c].to)
        BY <1>1, <1>2 DEF Format, ThreadType
    <2>2. \A k \in DOMAIN Route(thr[c].to) : thr[c].to \in {Everybody, Route(thr[c].to)[k]}
        <3>1. thr[c].to \in Dest
            BY <1>1 DEF ThreadType
        <3> QED
            BY <3>1, RouteRows
    <2> QED
        BY <2>1, <2>2 DEF Hand
<1>3. CASE Send(c)
    <2> DEFINE h == Head(thr[c].left)
    <2>1. /\ thr[c].left \in Seq(Rows) /\ thr[c].left # <<>> /\ thr[c].pc = "send"
          /\ thr'[c].to = thr[c].to /\ thr'[c].left = Tail(thr[c].left)
          /\ thr'[c].out = row_fd[h] /\ thr'[c].pc = (IF row_fd[h] = NoFd THEN "send" ELSE "write")
        BY <1>1, <1>3 DEF Send, ThreadType
    <2>2. /\ h \in Rows /\ h = thr[c].left[1] /\ 1 \in DOMAIN thr[c].left
          /\ \A k \in DOMAIN Tail(thr[c].left) :
                k + 1 \in DOMAIN thr[c].left /\ Tail(thr[c].left)[k] = thr[c].left[k + 1]
        <3>1. /\ h \in Rows /\ h = thr[c].left[1] /\ Tail(thr[c].left) \in Seq(Rows)
              /\ Len(Tail(thr[c].left)) = Len(thr[c].left) - 1
              /\ \A k \in 1..Len(Tail(thr[c].left)) : Tail(thr[c].left)[k] = thr[c].left[k + 1]
            BY <2>1, HeadTailProperties
        <3>2. Len(thr[c].left) \in Nat /\ Len(thr[c].left) # 0
            BY <2>1, LenProperties, EmptySeq
        <3>3. \A n \in Nat : n # 0 => 1 \in 1..n /\ \A k \in 1..n - 1 : k + 1 \in 1..n
            OBVIOUS
        <3>4. DOMAIN thr[c].left = 1..Len(thr[c].left) /\ DOMAIN Tail(thr[c].left) = 1..Len(thr[c].left) - 1
            BY <2>1, <3>1
        <3> HIDE DEF h
        <3> QED
            BY <3>1, <3>2, <3>3, <3>4, Zenon
    <2> HIDE DEF h
    <2>3. \A k \in DOMAIN thr'[c].left : thr'[c].to \in {Everybody, thr'[c].left[k]}
        BY <1>1, <2>1, <2>2 DEF Hand
    <2>4. UNCHANGED <<cid, fdtab, refused>> /\ \A r : Ended(r) => EndedNext(r)
        <3>1. UNCHANGED <<cid, fdtab, refused>>
            BY <1>3 DEF Send, clientVars
        <3>2. \A d \in Conn : thr[d].pc \in {"logout", "done"} => thr'[d] = thr[d]
            BY <1>1, <1>3 DEF Send
        <3> QED
            BY <3>1, <3>2 DEF Ended, EndedNext
    <2>5. thr[c].to \in {Everybody, h}
        BY <1>1, <2>1, <2>2 DEF Hand
    <2>6. ASSUME thr'[c].pc = "write", refused' = {}, thr[c].to # Everybody
          PROVE  \/ EndedNext(thr[c].to)
                 \/ FileNext(row_fd[h]) # NoFile /\ cid'[FileNext(row_fd[h])] = thr[c].to
        <3>1. row_fd[h] # NoFd
            BY <2>1, <2>6
        <3>2. thr[c].to = h /\ refused = {}
            BY <2>4, <2>5, <2>6
        <3>3. Ended(h) \/ (File(row_fd[h]) # NoFile /\ cid[File(row_fd[h])] = h)
            BY <2>2, <3>1, <3>2, Loaded
        <3>4. FileNext(row_fd[h]) = File(row_fd[h])
            BY <2>4 DEF File, FileNext
        <3> QED
            BY <2>4, <3>2, <3>3, <3>4
    <2> QED
        BY <2>1, <2>3, <2>6 DEF Hand, Ended, EndedNext, File, FileNext
<1>4. CASE WriteOut(c)
    <2>1. /\ thr[c].pc = "write" /\ thr'[c].pc = "send"
          /\ thr'[c].to = thr[c].to /\ thr'[c].left = thr[c].left
        BY <1>1, <1>4 DEF WriteOut, ThreadType
    <2> QED
        BY <1>1, <2>1 DEF Hand
<1>5. CASE ~Format(c) /\ ~Send(c) /\ ~WriteOut(c)
    <2>1. thr'[c].pc \notin {"send", "write"}
        <3>1. CASE ReadCall(c) \/ ReadFile(c) \/ Read(c)
            BY <1>1, <3>1 DEF ReadCall, ReadFile, Read, ThreadType
        <3>2. CASE ReadFirst(c) \/ ReadNext(c) \/ Logout(c)
            BY <1>1, <3>2 DEF ReadFirst, ReadNext, Logout, ThreadGoes, ThreadType
        <3>3. CASE Reply(c)
            BY <1>1, <3>3 DEF Reply, AtRead, NoThread
        <3>4. CASE Bye(c) \/ Close(c)
            BY <1>1, <3>4 DEF Bye, Close, ThreadType
        <3> QED
            BY <1>5, <3>1, <3>2, <3>3, <3>4 DEF Thread
    <2> QED
        BY <2>1 DEF Hand
<1> QED
    BY <1>2, <1>3, <1>4, <1>5

\* A thread closes its own client's number, and with that its client's session.
LEMMA ThreadReceiver ==
    ASSUME TypeOK, AdmissionInv, refused = {} => Logins /\ Table, ReceiverInv,
           NEW c \in Conn, Thread(c)
    PROVE  ReceiverInv'
<1>1. /\ UNCHANGED <<main, cid, refused>>
      /\ \A d \in Conn \ {c} : thr'[d] = thr[d]
      /\ GoesOn(c) \/ Closes(c) \/ LogsOut(c)
    BY ThreadEffect
<1>2. Hand(c)'
    BY OwnHand
<1>3. Moves
    BY DEF Moves
<1>4. ASSUME NEW d \in Conn \ {c}
      PROVE  Hand(d)'
    <2>1. Hand(d)
        BY DEF ReceiverInv, Hand
    <2>2. ASSUME refused' = {}, File(thr[d].out) # NoFile
          PROVE  \/ EndedNext(cid[File(thr[d].out)])
                 \/ /\ FileNext(thr[d].out) = File(thr[d].out)
                    /\ cid'[File(thr[d].out)] = cid[File(thr[d].out)]
        <3>1. CASE fdtab' = fdtab
            BY <1>1, <1>4, <3>1 DEF File, FileNext
        <3>2. CASE Closes(c) /\ thr[d].out = thr[c].out
            <4>1. thr[c].out = row_fd[thr[c].row] /\ File(row_fd[thr[c].row]) = c
                BY <1>1, <2>2, <3>2, OwnRow DEF Closes, Table
            <4> QED
                BY <1>1, <3>2, <4>1 DEF Closes, EndedNext
        <3>3. CASE Closes(c) /\ thr[d].out # thr[c].out
            BY <1>1, <1>4, <3>3 DEF Closes, File, FileNext
        <3> QED
            BY <1>1, <3>1, <3>2, <3>3 DEF GoesOn, LogsOut
    <2> QED
        BY <1>1, <1>3, <1>4, <2>1, <2>2, HandKept
<1> QED
    BY <1>2, <1>4 DEF ReceiverInv, Hand

\* Its clients do not change hands.
LEMMA ClientReceiver ==
    ASSUME TypeOK, AdmissionInv, ReceiverInv, NEW c \in Conn, Client(c)
    PROVE  ReceiverInv'
<1>1. UNCHANGED <<thr, fdtab, refused, main>>
    BY DEF Client, Connect, Login, Say, HangUp, Write, serverVars
<1>2. \A d \in Conn : peer[d] # "none" => cid'[d] = cid[d]
    BY DEF Client, Connect, Login, Say, HangUp, Write, TypeOK
<1>3. \A fd : File(fd) # NoFile => FileNext(fd) = File(fd) /\ cid'[File(fd)] = cid[File(fd)]
    BY <1>1, <1>2 DEF File, FileNext, TypeOK, AdmissionInv, BacklogInv
<1>4. Moves
    BY DEF Moves
<1>5. ASSUME NEW d \in Conn
      PROVE  Hand(d)'
    BY <1>1, <1>3, <1>4, <1>5, HandKept DEF ReceiverInv, Hand
<1> QED
    BY <1>5 DEF ReceiverInv, Hand

\* The end of the server leaves no thread to write.
LEMMA NextReceiver == IInv /\ ReceiverInv /\ [Next]_vars => ReceiverInv'
<1> SUFFICES ASSUME IInv, ReceiverInv, [Next]_vars
             PROVE  ReceiverInv'
    OBVIOUS
<1>1. TypeOK /\ AdmissionInv /\ (refused = {} => Logins /\ Table)
    BY DEF IInv, RowInv, LoginInv, Logins, SessionInv, RowsDenoteTheirClients, Table, InHand
<1>2. CASE SigPipe
    BY <1>2 DEF SigPipe, NoThread, ReceiverInv
<1>3. CASE UNCHANGED vars
    BY <1>3 DEF vars, serverVars, clientVars, ReceiverInv, Ended, File
<1> QED
    BY <1>1, <1>2, <1>3, MainReceiver, ThreadReceiver, ClientReceiver DEF Next

\* What a write adds to an inbox is what the thread has in hand.
LEMMA DeliverIs ==
    ASSUME TypeOK, NEW c \in Conn, NEW fd, Deliver(fd, c), NEW d \in Conn, inbox'[d] # inbox[d]
    PROVE  File(fd) = d /\ inbox'[d][Len(inbox'[d])].to = thr[c].to
<1> DEFINE m == [from |-> thr[c].row, to |-> thr[c].to, n |-> thr[c].n]
<1>1. File(fd) = d /\ inbox'[d] = Append(inbox[d], m)
    BY DEF Deliver, TypeOK
<1>2. inbox[d] \in Seq(Mail) /\ Len(inbox[d]) \in Nat
    <2>1. inbox[d] \in Seq(Mail)
        BY DEF TypeOK, Mail
    <2> QED
        BY <2>1, LenProperties
<1>3. Append(inbox[d], m)[Len(Append(inbox[d], m))] = m
    <2> HIDE DEF m
    <2> QED
        BY <1>2
<1> QED
    BY <1>1, <1>3

LEMMA NextAddressed ==
    ASSUME IInv, ReceiverInv, [Next]_vars,
           NEW c \in Conn, inbox'[c] # inbox[c], refused = {}
    PROVE  inbox'[c][Len(inbox'[c])].to \in {cid[c], Everybody, Server}
           \/ Ended(inbox'[c][Len(inbox'[c])].to)
<1>1. TypeOK
    BY DEF IInv
<1>2. PICK d \in Conn : WriteOut(d) \/ (Reply(d) /\ thr[d].to = Server)
    <2>1. ~Main
        BY DEF Main, Accept, CheckFull, LoginCall, LoginRead, LoginFirst, LoginNext, Refuse, Admit,
               Reject, Start
    <2>2. ASSUME NEW d \in Conn, Thread(d)
          PROVE  WriteOut(d) \/ (Reply(d) /\ thr[d].to = Server)
        BY <2>2 DEF Thread, ReadCall, ReadFile, Read, ReadFirst, ReadNext, Format, Send, Reply, Bye,
                    Close, Logout
    <2>3. \A d \in Conn : ~Client(d)
        BY DEF Client, Connect, Login, Say, HangUp, Write
    <2>4. ~SigPipe /\ ~UNCHANGED vars
        BY DEF SigPipe, vars
    <2> QED
        BY <2>1, <2>2, <2>3, <2>4 DEF Next
<1>3. CASE Reply(d) /\ thr[d].to = Server
    BY <1>1, <1>3, DeliverIs DEF Reply
<1>4. CASE WriteOut(d)
    <2>1. File(thr[d].out) = c /\ inbox'[c][Len(inbox'[c])].to = thr[d].to
        BY <1>1, <1>4, DeliverIs DEF WriteOut
    <2>2. \/ thr[d].to = Everybody \/ Ended(thr[d].to)
          \/ cid[File(thr[d].out)] = thr[d].to
        BY <1>4 DEF WriteOut, ReceiverInv
    <2> QED
        BY <2>1, <2>2
<1> QED
    BY <1>2, <1>3, <1>4

-----------------------------------------------------------------------------
(* The theorems. *)

LEMMA InitIInv == Init => IInv /\ ReceiverInv
<1> SUFFICES ASSUME Init
             PROVE  IInv /\ ReceiverInv
    OBVIOUS
<1> USE DEF Init
<1>1. TypeOK
    <2>1. /\ main \in MainType /\ thr \in [Conn -> ThreadType]
          /\ rx \in [Conn -> Seq(Unit)] /\ inbox \in [Conn -> Seq([from : Rows, to : Dest, n : Text])]
          /\ backlog \in Seq(Conn) /\ spoken \in Seq([from : Dest, to : Dest])
        BY ConstantTypes, EmptySeq
    <2>2. Len(spoken) <= MaxSay
        BY EmptySeq, ServerAssumption
    <2>3. StrType
        <3>1. NoPtr \in Place /\ 0 \in 0..ARR_CNT + 1 /\ <<>> \in Seq(Text)
            BY EmptySeq DEF NoPtr, Place, Owner, ARR_CNT
        <3> QED
            BY <3>1 DEF StrType
    <2>4. /\ clnt_cnt \in Int /\ row_fd \in [Rows -> Fd \cup {NoFd}]
          /\ fdtab \in [Fd -> Conn \cup {NoFile}] /\ cid \in [Conn -> Rows \cup {Stranger}]
          /\ peer \in [Conn -> {"none", "up", "down"}] /\ said \in [Conn -> BOOLEAN]
          /\ refused \in SUBSET Conn
        OBVIOUS
    <2> QED
        BY <2>1, <2>2, <2>3, <2>4 DEF TypeOK
<1>2. main.pc = "accept" /\ \A c \in Conn : thr[c].pc = "off"
    BY DEF IdleMain, NoThread
<1>3. AdmissionInv
    BY <1>2 DEF AdmissionInv, BacklogInv, ThreadInv, MainInv, Waits, Fresh
<1>4. Active = {}
    BY <1>2 DEF Active
<1>5. CountsThreads
    BY <1>2, <1>4, FS_EmptySet, ServerAssumption DEF CountsThreads
<1>6. LoginInv
    BY <1>2 DEF LoginInv, Fresh
<1>7. SessionInv /\ RowsDenoteTheirClients
    BY <1>2, <1>4 DEF SessionInv, RowsDenoteTheirClients
<1>8. ReceiverInv
    BY <1>2 DEF ReceiverInv
<1> QED
    BY <1>1, <1>3, <1>5, <1>6, <1>7, <1>8 DEF IInv, RowInv

LEMMA NextIInv == IInv /\ [Next]_vars => IInv'
<1> SUFFICES ASSUME IInv, [Next]_vars
             PROVE  IInv'
    OBVIOUS
<1>1. TypeOK' /\ AdmissionInv' /\ CountsThreads'
    BY NextTypeOK, NextAdmissionInv, NextCounts DEF IInv
<1>2. refused = {} => Logins /\ Table
    BY DEF IInv, RowInv, LoginInv, Logins, SessionInv, RowsDenoteTheirClients, Table, InHand
<1>3. refused' = {} => Logins' /\ Table'
    BY <1>2, NextRows DEF IInv
<1>4. LoginInv'
    BY <1>3 DEF LoginInv, Logins
<1>5. SessionInv' /\ RowsDenoteTheirClients'
    BY <1>3 DEF SessionInv, RowsDenoteTheirClients, Table, InHand
<1> QED
    BY <1>1, <1>4, <1>5 DEF IInv, RowInv

\* The invariant of the message server: where each connection is, how many threads
\* there are, and what the rows of the table denote.
THEOREM Invariance == Spec => []IInv
<1>1. Init => IInv
    BY InitIInv
<1>2. IInv /\ [Next]_vars => IInv'
    BY NextIInv
<1> QED
    BY <1>1, <1>2, PTL DEF Spec

\* Every variable of the server and of its clients keeps its type.
THEOREM TypeCorrect == Spec => []TypeOK
<1>1. IInv => TypeOK
    BY DEF IInv
<1> QED
    BY <1>1, Invariance, PTL

\* clnt_cnt is the number of threads, and never more than MAX_CLNT (main and
\* clnt_connection).
THEOREM ThreadCount == Spec => []CountsThreads
<1>1. IInv => CountsThreads
    BY DEF IInv
<1> QED
    BY <1>1, Invariance, PTL

\* Until somebody is told "Already logged!", a taken row is served by the one
\* thread of its client and denotes that client's connection.
THEOREM RowOwnership == Spec => []RowsDenoteTheirClients
<1>1. IInv => RowsDenoteTheirClients
    BY DEF IInv, RowInv
<1> QED
    BY <1>1, Invariance, PTL

\* Until then, what is addressed to one client reaches another only if a session of the
\* addressee has ended, however long a sender sleeps between the load of a number and
\* the write to it (send_msg and clnt_connection).
THEOREM MailReaches == Spec => MailAddressed
<1> DEFINE A == \A c \in Conn : inbox'[c] # inbox[c] /\ refused = {} =>
                  LET to == inbox'[c][Len(inbox'[c])].to IN
                  to \in {cid[c], Everybody, Server} \/ Ended(to)
<1>1. Init => IInv /\ ReceiverInv
    BY InitIInv
<1>2. IInv /\ ReceiverInv /\ [Next]_vars => (IInv /\ ReceiverInv)'
    BY NextIInv, NextReceiver
<1>3. IInv /\ ReceiverInv /\ [Next]_vars => [A]_vars
    BY NextAddressed
<1>4. [][A]_vars => MailAddressed
    BY DEF MailAddressed
<1> HIDE DEF A
<1> QED
    BY <1>1, <1>2, <1>3, <1>4, PTL DEF Spec

=============================================================================
