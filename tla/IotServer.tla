------------------------------ MODULE IotServer ------------------------------
(***************************************************************************)
(* The line's message server (conveyor/src/*/iot_server.c): the main       *)
(* thread accepts a client, reads its login and starts a thread for it;    *)
(* that thread forwards what the client says, "[to]text", to whoever is    *)
(* logged in as "to".                                                      *)
(*                                                                         *)
(* The table of clients holds one descriptor number per id.  Threads load  *)
(* it without the mutex, each time they use it, and the kernel looks it up *)
(* later and hands a closed number out again.  strtok keeps its place in   *)
(* one variable of the process, which main and all threads share.          *)
(***************************************************************************)
EXTENDS Integers, Sequences, FiniteSets

CONSTANTS
    NRows,          \* clients in the table
    MAX_CLNT,       \* threads the server admits
    CharSize,       \* values of a char, the type of MSG_INFO.fd
    ClientIds,      \* the ids clients come with; the one of nobody in the table is Stranger
    MaxFd,          \* descriptors left to the process after start-up
    MaxConn,        \* bound: connections ever made
    MaxSay          \* bound: messages the clients ever send

ASSUME ServerAssumption ==
    /\ NRows \in Nat /\ MAX_CLNT \in Nat /\ MaxFd \in Nat /\ MaxConn \in Nat /\ MaxSay \in Nat
    /\ CharSize \in Nat \ {0}
    /\ ClientIds \subseteq 0..NRows

Rows == 1..NRows
Fd == 0..MaxFd - 1
Conn == 1..MaxConn

\* In place of a client id: of nobody in the table, of everybody (ALLMSG), of the
\* server itself (IDLIST, GETTIME), and what is left of a message cut in two.
Stranger == 0
Everybody == -1
Server == -2
Nobody == -3
Dest == Rows \cup {Stranger, Everybody, Server, Nobody}

NoFd == -1
NoFile == 0

\* A message "[to]text", numbered; with number 0 the login "[to:PASSWD]".
Unit == [to : Dest, n : 0..MaxSay]

\* A token as a text: a message's, the password, or another, as is a name.
NoText == -1
Text == 0..MaxSay \cup {NoText}
Tokens(units) ==
    [k \in 1..2 * Len(units) |-> IF k % 2 = 1 THEN NoText ELSE units[k \div 2].n]

\* Who has a buffer, main's idpasswd or a thread's msg, and a place in one.
MainBuf == 0
Owner == Conn \cup {MainBuf}
ARR_CNT == 5
NoPtr == [buf |-> MainBuf, at |-> 0]

\* MSG_INFO keeps a descriptor in a char.
CharFd(fd) == ((fd + CharSize \div 2) % CharSize) - CharSize \div 2

VARIABLES
    main,       \* the main thread: pc, clnt_sock, connection it reads, pArray[0]
    clnt_cnt,
    row_fd,     \* client_info[i].fd
    thr,        \* the thread of each connection: pc, its row, the number it loaded,
                \* the connection it reads, pArray[0], the text it made, msg_info.fd,
                \* rows still to write to
    fdtab       \* the descriptor table

VARIABLES
    strtok,     \* where the next strtok(NULL) of anybody goes on
    buffer,     \* the tokens in each buffer
    pArray,     \* pArray[1] of main and of each thread
    took        \* how many tokens each took, the i of both loops

VARIABLES
    cid,        \* the client behind each connection
    peer,       \* its end of the connection: not yet made, up or down
    said,       \* it has written its login
    spoken,     \* the messages sent so far: who to whom
    rx,         \* what it wrote and nobody read
    inbox,      \* what the server wrote to it: from whom, to whom, which text
    refused,    \* the connections told "Already logged!"
    backlog     \* connections waiting for accept

strVars == <<strtok, buffer, pArray, took>>
serverVars == <<main, clnt_cnt, row_fd, thr, fdtab, strVars>>
clientVars == <<cid, peer, said, spoken>>
vars == <<serverVars, clientVars, rx, inbox, refused, backlog>>
-----------------------------------------------------------------------------
Lowest == {fd \in Fd : fdtab[fd] = NoFile /\ \A low \in Fd : low < fd => fdtab[low] # NoFile}

\* The file a number denotes.
File(fd) == IF fd \in Fd THEN fdtab[fd] ELSE NoFile
Gone(fd) == File(fd) # NoFile /\ peer[File(fd)] = "down"

IdleMain == [pc |-> "accept", fd |-> NoFd, conn |-> NoFile, to |-> Nobody]
NoThread == [pc |-> "off", row |-> 0, out |-> NoFd, file |-> NoFile, to |-> Nobody, n |-> NoText,
             fd |-> NoFd, left |-> <<>>]

\* A thread about to read: nothing it has in hand is used again.
AtRead(row) == [NoThread EXCEPT !.pc = "read", !.row = row]

MainGoes(pc) == main' = [main EXCEPT !.pc = pc]
ThreadGoes(c, pc) == thr' = [thr EXCEPT ![c].pc = pc]
-----------------------------------------------------------------------------
(* strtok, of main and of every thread. *)

\* The first token is in the caller's own buffer.
FirstToken(b) ==
    /\ strtok' = [buf |-> b, at |-> 2]
    /\ took' = [took EXCEPT ![b] = 1]
    /\ UNCHANGED <<buffer, pArray>>

\* Further ones are wherever the last call of anybody left off.  If there is none the
\* loop ends, and pArray[1] is what it was, perhaps of a message long past.
MoreTokens == strtok.at \in DOMAIN buffer[strtok.buf]
LastToken(b) == ~MoreTokens \/ took[b] >= ARR_CNT
NextToken(b) ==
    /\ IF MoreTokens
         THEN /\ strtok' = [strtok EXCEPT !.at = @ + 1]
              /\ took' = [took EXCEPT ![b] = IF LastToken(b) THEN 0 ELSE @ + 1]
              /\ pArray' = IF took[b] = 1 THEN [pArray EXCEPT ![b] = strtok] ELSE pArray
         ELSE took' = [took EXCEPT ![b] = 0] /\ UNCHANGED <<strtok, pArray>>
    /\ UNCHANGED buffer

\* What pArray[1] points to by now.
TextAt(ptr) == IF ptr.at \in DOMAIN buffer[ptr.buf] THEN buffer[ptr.buf][ptr.at] ELSE NoText
-----------------------------------------------------------------------------
(* The main thread. *)

Accept ==
    /\ main.pc = "accept"
    /\ backlog # <<>>
    /\ \E fd \in Lowest :
          /\ main' = [main EXCEPT !.pc = "check", !.fd = fd]
          /\ fdtab' = [fdtab EXCEPT ![fd] = Head(backlog)]
    /\ backlog' = Tail(backlog)
    /\ UNCHANGED <<clnt_cnt, row_fd, thr, strVars, clientVars, rx, inbox, refused>>

\* Mutant: one thread more than the server admits.
CheckFullLate ==
    /\ main.pc = "check"
    /\ main' = IF clnt_cnt > MAX_CLNT THEN IdleMain ELSE [main EXCEPT !.pc = "login"]
    /\ UNCHANGED <<clnt_cnt, row_fd, thr, fdtab, strVars, clientVars, rx, inbox, refused, backlog>>

\* A connection that is turned away is never closed.
CheckFull ==
    /\ main.pc = "check"
    /\ main' = IF clnt_cnt >= MAX_CLNT THEN IdleMain ELSE [main EXCEPT !.pc = "login"]
    /\ UNCHANGED <<clnt_cnt, row_fd, thr, fdtab, strVars, clientVars, rx, inbox, refused, backlog>>

LoginCall ==
    /\ main.pc = "login"
    /\ main' = IF File(main.fd) = NoFile THEN IdleMain
               ELSE [main EXCEPT !.pc = "reading", !.conn = File(main.fd)]
    /\ UNCHANGED <<clnt_cnt, row_fd, thr, fdtab, strVars, clientVars, rx, inbox, refused, backlog>>

\* The buffer is as long as a login, and what follows at once is cut in two.
CutTail(units) ==
    IF Len(units) < 2 THEN Tail(units)
    ELSE <<[units[2] EXCEPT !.to = Nobody]>> \o SubSeq(units, 3, Len(units))

LoginRead ==
    /\ main.pc = "reading"
    /\ LET c == main.conn IN
       \/ /\ rx[c] # <<>>
          /\ main' = [main EXCEPT !.pc = "first", !.to = Head(rx[c]).to]
          /\ buffer' = [buffer EXCEPT ![MainBuf] = Tokens(<<Head(rx[c])>>)]
          /\ rx' = [rx EXCEPT ![c] = CutTail(@)]
       \/ /\ rx[c] = <<>> /\ peer[c] = "down"
          /\ main' = IdleMain
          /\ UNCHANGED <<buffer, rx>>
    /\ UNCHANGED <<clnt_cnt, row_fd, thr, fdtab, strtok, pArray, took, clientVars, inbox, refused, backlog>>

LoginFirst ==
    /\ main.pc = "first"
    /\ FirstToken(MainBuf)
    /\ MainGoes("tokens")
    /\ UNCHANGED <<clnt_cnt, row_fd, thr, fdtab, clientVars, rx, inbox, refused, backlog>>

LoginNext ==
    /\ main.pc = "tokens"
    /\ NextToken(MainBuf)
    /\ MainGoes(IF LastToken(MainBuf) THEN "auth" ELSE "tokens")
    /\ UNCHANGED <<clnt_cnt, row_fd, thr, fdtab, clientVars, rx, inbox, refused, backlog>>

LoggedIn(id) == id \in Rows /\ row_fd[id] # NoFd

\* Mutant: a refusal also takes the thread off the count.
RefuseUncounts ==
    /\ main.pc = "auth"
    /\ LoggedIn(main.to)
    /\ row_fd' = [row_fd EXCEPT ![main.to] = NoFd]
    /\ refused' = refused \cup {main.conn}
    /\ clnt_cnt' = clnt_cnt - 1
    /\ main' = IdleMain
    /\ UNCHANGED <<thr, fdtab, strVars, clientVars, rx, inbox, backlog>>

\* "Already logged!": the row is reset for a client that lost its connection.
Refuse ==
    /\ main.pc = "auth"
    /\ LoggedIn(main.to)
    /\ row_fd' = [row_fd EXCEPT ![main.to] = NoFd]
    /\ refused' = refused \cup {main.conn}
    /\ main' = IdleMain
    /\ UNCHANGED <<clnt_cnt, thr, fdtab, strVars, clientVars, rx, inbox, backlog>>

\* A pArray[1] that is of an earlier login points to the same place, where this one's
\* password is.
Password == TextAt(pArray[MainBuf]) = 0

Admit ==
    /\ main.pc = "auth"
    /\ main.to \in Rows /\ ~LoggedIn(main.to) /\ Password
    /\ row_fd' = [row_fd EXCEPT ![main.to] = main.fd]
    /\ clnt_cnt' = clnt_cnt + 1
    /\ MainGoes("start")
    /\ UNCHANGED <<thr, fdtab, strVars, clientVars, rx, inbox, refused, backlog>>

\* "Authentication Error!"
Reject ==
    /\ main.pc = "auth"
    /\ ~LoggedIn(main.to) /\ (main.to \notin Rows \/ ~Password)
    /\ main' = IdleMain
    /\ UNCHANGED <<clnt_cnt, row_fd, thr, fdtab, strVars, clientVars, rx, inbox, refused, backlog>>

Start ==
    /\ main.pc = "start"
    /\ thr' = [thr EXCEPT ![main.conn] = AtRead(main.to)]
    /\ main' = IdleMain
    /\ UNCHANGED <<clnt_cnt, row_fd, fdtab, strVars, clientVars, rx, inbox, refused, backlog>>
-----------------------------------------------------------------------------
(* The thread of a connection: clnt_connection and send_msg. *)

ReadCall(c) ==
    /\ thr[c].pc = "read"
    /\ buffer' = [buffer EXCEPT ![c] = <<>>]
    /\ thr' = [thr EXCEPT ![c].pc = "call", ![c].out = row_fd[thr[c].row]]
    /\ UNCHANGED <<main, clnt_cnt, row_fd, fdtab, strtok, pArray, took, clientVars, rx, inbox, refused, backlog>>

ReadFile(c) ==
    /\ thr[c].pc = "call"
    /\ LET f == File(thr[c].out) IN
       thr' = [thr EXCEPT ![c].pc = IF f = NoFile THEN "bye" ELSE "reading", ![c].file = f,
                            ![c].out = NoFd]
    /\ UNCHANGED <<main, clnt_cnt, row_fd, fdtab, strVars, clientVars, rx, inbox, refused, backlog>>

\* Mutant: the end of a connection is not noticed.
ReadOnError(c) ==
    /\ thr[c].pc = "reading"
    /\ LET f == thr[c].file IN
       /\ rx[f] # <<>> \/ peer[f] = "down"
       /\ IF rx[f] # <<>>
            THEN /\ thr' = [thr EXCEPT ![c].pc = "first", ![c].to = Head(rx[f]).to]
                 /\ buffer' = [buffer EXCEPT ![c] = Tokens(rx[f])]
            ELSE ThreadGoes(c, "read") /\ UNCHANGED buffer
       /\ rx' = [rx EXCEPT ![f] = <<>>]
    /\ UNCHANGED <<main, clnt_cnt, row_fd, fdtab, strtok, pArray, took, clientVars, inbox, refused, backlog>>

\* A read takes everything that has arrived.
Read(c) ==
    /\ thr[c].pc = "reading"
    /\ LET f == thr[c].file IN
       \/ /\ rx[f] # <<>>
          /\ thr' = [thr EXCEPT ![c].pc = "first", ![c].to = Head(rx[f]).to, ![c].file = NoFile]
          /\ buffer' = [buffer EXCEPT ![c] = Tokens(rx[f])]
          /\ rx' = [rx EXCEPT ![f] = <<>>]
       \/ /\ rx[f] = <<>> /\ peer[f] = "down"
          /\ thr' = [thr EXCEPT ![c].pc = "bye", ![c].file = NoFile]
          /\ UNCHANGED <<buffer, rx>>
    /\ UNCHANGED <<main, clnt_cnt, row_fd, fdtab, strtok, pArray, took, clientVars, inbox, refused, backlog>>

ReadFirst(c) ==
    /\ thr[c].pc = "first"
    /\ FirstToken(c)
    /\ ThreadGoes(c, "tokens")
    /\ UNCHANGED <<main, clnt_cnt, row_fd, fdtab, clientVars, rx, inbox, refused, backlog>>

ReadNext(c) ==
    /\ thr[c].pc = "tokens"
    /\ NextToken(c)
    /\ ThreadGoes(c, IF LastToken(c) THEN "format" ELSE "tokens")
    /\ UNCHANGED <<main, clnt_cnt, row_fd, fdtab, clientVars, rx, inbox, refused, backlog>>

\* Mutants: the receiver is not looked up; the row after the receiver's.
RouteUnchecked(to) == IF to = Everybody THEN [r \in Rows |-> r] ELSE <<to>>
RouteAfter(to) == IF to = Everybody THEN [r \in Rows |-> r]
                  ELSE IF to \in Rows THEN <<(to % NRows) + 1>> ELSE <<>>

\* The rows send_msg writes to, in its order.
Route(to) == IF to = Everybody THEN [r \in Rows |-> r]
             ELSE IF to \in Rows THEN <<to>> ELSE <<>>

\* msg_info, with the text copied from where it is.
Format(c) ==
    /\ thr[c].pc = "format"
    /\ thr' = [thr EXCEPT ![c].pc = "send", ![c].fd = CharFd(row_fd[thr[c].row]),
                          ![c].n = TextAt(pArray[c]), ![c].left = Route(thr[c].to)]
    /\ UNCHANGED <<main, clnt_cnt, row_fd, fdtab, strVars, clientVars, rx, inbox, refused, backlog>>

\* A row is passed over if it is -1; else its number is loaded for the write.
Send(c) ==
    /\ thr[c].pc = "send" /\ thr[c].left # <<>>
    /\ LET fd == row_fd[Head(thr[c].left)] IN
       thr' = [thr EXCEPT ![c].pc = IF fd = NoFd THEN "send" ELSE "write", ![c].out = fd,
                          ![c].left = Tail(@)]
    /\ UNCHANGED <<main, clnt_cnt, row_fd, fdtab, strVars, clientVars, rx, inbox, refused, backlog>>

\* A write reaches the client if the number denotes a connection and the client
\* is there.
Deliver(fd, c) ==
    LET f == File(fd) IN
    inbox' = IF f # NoFile /\ peer[f] = "up"
               THEN [inbox EXCEPT ![f] =
                        Append(@, [from |-> thr[c].row, to |-> thr[c].to, n |-> thr[c].n])]
               ELSE inbox

WriteOut(c) ==
    /\ thr[c].pc = "write"
    /\ Deliver(thr[c].out, c)
    /\ thr' = [thr EXCEPT ![c].pc = "send", ![c].out = NoFd]
    /\ UNCHANGED <<main, clnt_cnt, row_fd, fdtab, strVars, clientVars, rx, refused, backlog>>

\* The answer to GETTIME follows a second later.
Reply(c) ==
    /\ thr[c].pc = "send" /\ thr[c].left = <<>>
    /\ IF thr[c].to = Server THEN Deliver(thr[c].fd, c) ELSE UNCHANGED inbox
    /\ thr' = [thr EXCEPT ![c] = AtRead(@.row)]
    /\ UNCHANGED <<main, clnt_cnt, row_fd, fdtab, strVars, clientVars, rx, refused, backlog>>

Bye(c) ==
    /\ thr[c].pc = "bye"
    /\ thr' = [thr EXCEPT ![c].pc = "close", ![c].out = row_fd[thr[c].row]]
    /\ UNCHANGED <<main, clnt_cnt, row_fd, fdtab, strVars, clientVars, rx, inbox, refused, backlog>>

Close(c) ==
    /\ thr[c].pc = "close"
    /\ fdtab' = IF thr[c].out \in Fd THEN [fdtab EXCEPT ![thr[c].out] = NoFile] ELSE fdtab
    /\ thr' = [thr EXCEPT ![c].pc = "logout", ![c].out = NoFd]
    /\ UNCHANGED <<main, clnt_cnt, row_fd, strVars, clientVars, rx, inbox, refused, backlog>>

\* Mutant: the row keeps the number.
LogoutKeepsRow(c) ==
    /\ thr[c].pc = "logout"
    /\ clnt_cnt' = clnt_cnt - 1
    /\ ThreadGoes(c, "done")
    /\ UNCHANGED <<main, row_fd, fdtab, strVars, clientVars, rx, inbox, refused, backlog>>

Logout(c) ==
    /\ thr[c].pc = "logout"
    /\ clnt_cnt' = clnt_cnt - 1
    /\ row_fd' = [row_fd EXCEPT ![thr[c].row] = NoFd]
    /\ ThreadGoes(c, "done")
    /\ UNCHANGED <<main, fdtab, strVars, clientVars, rx, inbox, refused, backlog>>

\* SIGPIPE, which nothing ignores, ends the server: every connection ends.
SigPipe ==
    /\ \/ main.pc \in {"auth", "start"} /\ Gone(main.fd)
       \/ \E c \in Conn :
             \/ thr[c].pc = "write" /\ Gone(thr[c].out)
             \/ /\ thr[c].pc = "send" /\ thr[c].left = <<>> /\ thr[c].to = Server
                /\ Gone(thr[c].fd)
    /\ main' = [IdleMain EXCEPT !.pc = "dead"]
    /\ clnt_cnt' = 0
    /\ row_fd' = [r \in Rows |-> NoFd]
    /\ thr' = [c \in Conn |-> NoThread]
    /\ fdtab' = [fd \in Fd |-> NoFile]
    /\ peer' = [c \in Conn |-> IF peer[c] = "none" THEN "none" ELSE "down"]
    /\ backlog' = <<>>
    /\ UNCHANGED <<strVars, cid, said, spoken, rx, inbox, refused>>
-----------------------------------------------------------------------------
(* The clients. *)

Connect(c, id) ==
    /\ main.pc # "dead"
    /\ peer[c] = "none"
    /\ \A d \in Conn : d < c => peer[d] # "none"
    /\ peer' = [peer EXCEPT ![c] = "up"]
    /\ cid' = [cid EXCEPT ![c] = id]
    /\ backlog' = Append(backlog, c)
    /\ UNCHANGED <<serverVars, said, spoken, rx, inbox, refused>>

Write(c, to, n) ==
    /\ peer[c] = "up"
    /\ rx' = [rx EXCEPT ![c] = Append(@, [to |-> to, n |-> n])]
    /\ UNCHANGED <<serverVars, cid, peer, inbox, refused, backlog>>

Login(c) ==
    /\ ~said[c]
    /\ said' = [said EXCEPT ![c] = TRUE]
    /\ Write(c, cid[c], 0)
    /\ UNCHANGED spoken

Say(c) ==
    /\ said[c]
    /\ Len(spoken) < MaxSay
    /\ \E to \in Rows \cup {Everybody, Server} :
          /\ Write(c, to, Len(spoken) + 1)
          /\ spoken' = Append(spoken, [from |-> cid[c], to |-> to])
    /\ UNCHANGED said

HangUp(c) ==
    /\ peer[c] = "up"
    /\ peer' = [peer EXCEPT ![c] = "down"]
    /\ UNCHANGED <<serverVars, cid, said, spoken, rx, inbox, refused, backlog>>
-----------------------------------------------------------------------------
Init ==
    /\ main = IdleMain
    /\ clnt_cnt = 0
    /\ row_fd = [r \in Rows |-> NoFd]
    /\ thr = [c \in Conn |-> NoThread]
    /\ fdtab = [fd \in Fd |-> NoFile]
    /\ strtok = NoPtr
    /\ buffer = [b \in Owner |-> <<>>]
    /\ pArray = [b \in Owner |-> NoPtr]
    /\ took = [b \in Owner |-> 0]
    /\ cid = [c \in Conn |-> Stranger]
    /\ peer = [c \in Conn |-> "none"]
    /\ said = [c \in Conn |-> FALSE]
    /\ spoken = <<>>
    /\ rx = [c \in Conn |-> <<>>]
    /\ inbox = [c \in Conn |-> <<>>]
    /\ refused = {}
    /\ backlog = <<>>

Main ==
    \/ Accept \/ CheckFull
    \/ LoginCall \/ LoginRead \/ LoginFirst \/ LoginNext
    \/ Refuse \/ Admit \/ Reject \/ Start
Thread(c) ==
    \/ ReadCall(c) \/ ReadFile(c) \/ Read(c) \/ ReadFirst(c) \/ ReadNext(c) \/ Format(c)
    \/ Send(c) \/ WriteOut(c) \/ Reply(c)
    \/ Bye(c) \/ Close(c) \/ Logout(c)
Client(c) == (\E id \in ClientIds : Connect(c, id)) \/ Login(c) \/ Say(c) \/ HangUp(c)

Next == Main \/ SigPipe \/ \E c \in Conn : Thread(c) \/ Client(c)

Spec == Init /\ [][Next]_vars

\* Each thread is scheduled.  Nothing makes a client log in, speak or hang up.
FairSpec == Spec /\ WF_vars(Main) /\ \A c \in Conn : WF_vars(Thread(c))
-----------------------------------------------------------------------------
\* The type invariant.
ThreadPc == {"off", "read", "call", "reading", "first", "tokens", "format", "send", "write",
             "bye", "close", "logout", "done"}
MainType == [pc : {"accept", "check", "login", "reading", "first", "tokens", "auth", "start", "dead"},
             fd : Fd \cup {NoFd}, conn : Conn \cup {NoFile}, to : Dest]
ThreadType == [pc : ThreadPc, row : Rows \cup {0}, out : Fd \cup {NoFd}, file : Conn \cup {NoFile},
               to : Dest, n : Text, fd : Int, left : Seq(Rows)]
Place == [buf : Owner, at : Nat]
StrType ==
    /\ strtok \in Place
    /\ buffer \in [Owner -> Seq(Text)]
    /\ pArray \in [Owner -> Place]
    /\ took \in [Owner -> 0..ARR_CNT + 1]
TypeOK ==
    /\ main \in MainType
    /\ clnt_cnt \in Int
    /\ row_fd \in [Rows -> Fd \cup {NoFd}]
    /\ thr \in [Conn -> ThreadType]
    /\ fdtab \in [Fd -> Conn \cup {NoFile}]
    /\ StrType
    /\ cid \in [Conn -> Rows \cup {Stranger}]
    /\ peer \in [Conn -> {"none", "up", "down"}]
    /\ said \in [Conn -> BOOLEAN]
    /\ spoken \in Seq([from : Dest, to : Dest]) /\ Len(spoken) <= MaxSay
    /\ rx \in [Conn -> Seq(Unit)]
    /\ inbox \in [Conn -> Seq([from : Rows, to : Dest, n : Text])]
    /\ refused \in SUBSET Conn
    /\ backlog \in Seq(Conn)

\* clnt_cnt counts the threads that have not logged out, and the one being
\* started, whatever clients were refused in between; so there are never more than
\* MAX_CLNT of them (main and clnt_connection).
Active == {c \in Conn : thr[c].pc \notin {"off", "done"}}
CountsThreads ==
    /\ clnt_cnt = Cardinality(Active) + (IF main.pc = "start" THEN 1 ELSE 0)
    /\ clnt_cnt <= MAX_CLNT

\* Until somebody is told "Already logged!", a row that is taken is served by one
\* thread or about to be, and its number denotes the connection of that client,
\* except while the thread, having closed it, waits for the mutex to say so.
Serves(c, r) == c \in Active /\ thr[c].row = r
Starting(r) ==
    /\ main.pc = "start" /\ main.to = r
    /\ File(row_fd[r]) = main.conn /\ cid[main.conn] = r
    /\ \A c \in Conn : ~Serves(c, r)
Served(r) ==
    \E c \in Conn :
        /\ Serves(c, r) /\ \A d \in Conn : Serves(d, r) => d = c
        /\ thr[c].pc # "logout" => File(row_fd[r]) = c /\ cid[c] = r
RowsDenoteTheirClients ==
    refused = {} => \A r \in Rows : row_fd[r] # NoFd => Starting(r) \/ Served(r)

\* Until then, what is addressed to one client reaches another only if a session of the
\* addressee has ended: then its number may be another's, in the row until the mutex is
\* had, in a sender's hand for as long as it sleeps (clnt_connection, send_msg).
Ended(r) == \E c \in Conn : cid[c] = r /\ thr[c].pc \in {"logout", "done"}
MailAddressed ==
    [][\A c \in Conn : inbox'[c] # inbox[c] /\ refused = {} =>
          LET to == inbox'[c][Len(inbox'[c])].to IN
          to \in {cid[c], Everybody, Server} \/ Ended(to)]_vars

\* A client that hung up is logged out in the end, even if it was refused and
\* admitted again in between (clnt_connection).
HungUp(r) == row_fd[r] # NoFd /\ File(row_fd[r]) # NoFile /\ peer[File(row_fd[r])] = "down"
HungUpLoggedOut == \A r \in Rows : HungUp(r) ~> ~HungUp(r)
-----------------------------------------------------------------------------
(* The inductive invariant behind CountsThreads and RowsDenoteTheirClients. *)

\* A connection is in one place: it waits for accept, main has it in hand, or it
\* has its thread.
Fresh(c) == thr[c].pc = "off"
Waits(c) == \E i \in DOMAIN backlog : backlog[i] = c
BacklogInv ==
    /\ \A i, j \in DOMAIN backlog : backlog[i] = backlog[j] => i = j
    /\ \A c \in Conn : Waits(c) => Fresh(c) /\ peer[c] # "none" /\ \A fd \in Fd : fdtab[fd] # c
    /\ \A fd \in Fd : fdtab[fd] # NoFile => peer[fdtab[fd]] # "none"
ThreadInv ==
    \A c \in Conn :
        /\ ~Fresh(c) => peer[c] # "none" /\ thr[c].row \in Rows
        /\ thr[c].pc = "reading" => thr[c].file \in Conn
        /\ peer[c] = "none" => rx[c] = <<>>

\* Room is made sure of before a login is read.
MainInv ==
    /\ main.pc \notin {"accept", "dead"} => main.fd \in Fd
    /\ main.pc \in {"check", "login"} /\ File(main.fd) # NoFile => Fresh(File(main.fd))
    /\ main.pc \in {"reading", "first", "tokens", "auth", "start"} =>
           main.conn \in Conn /\ Fresh(main.conn) /\ peer[main.conn] # "none" /\ ~Waits(main.conn)
    /\ main.pc = "start" => main.to \in Rows
    /\ main.pc \in {"login", "reading", "first", "tokens", "auth"} => clnt_cnt < MAX_CLNT
AdmissionInv == BacklogInv /\ ThreadInv /\ MainInv

\* Until somebody is refused, the first that comes on a connection main has not read is
\* the login of its client, ...
Unread(c) ==
    \/ peer[c] = "none" \/ Waits(c)
    \/ main.pc \in {"check", "login"} /\ File(main.fd) = c
    \/ main.pc = "reading" /\ main.conn = c
LoginInv ==
    refused = {} =>
        /\ \A c \in Conn : Unread(c) =>
               IF said[c] THEN rx[c] # <<>> /\ rx[c][1].to = cid[c] ELSE rx[c] = <<>>
        /\ main.pc \in {"first", "tokens", "auth", "start"} => main.to = cid[main.conn]
        /\ \A c \in Conn : ~Fresh(c) => thr[c].row = cid[c]

\* ... a client with a thread has its row, and the thread its connection, nobody closes
\* the descriptor main holds, and a row is given to a client nobody serves yet.
SessionInv ==
    refused = {} =>
        /\ \A c \in Active : row_fd[thr[c].row] # NoFd
        /\ \A c \in Conn : thr[c].pc \in {"call", "close"} => thr[c].out = row_fd[thr[c].row]
        /\ \A c \in Conn : thr[c].pc = "reading" => thr[c].file = c
        /\ main.pc \in {"check", "login"} => File(main.fd) # NoFile
        /\ main.pc \in {"reading", "first", "tokens", "auth", "start"} => File(main.fd) = main.conn
        /\ main.pc = "start" =>
              row_fd[main.to] = main.fd /\ \A c \in Conn : ~Serves(c, main.to)
RowInv == LoginInv /\ SessionInv /\ RowsDenoteTheirClients

\* The threads admitted and the rows of the table, as one inductive invariant.
IInv == TypeOK /\ AdmissionInv /\ CountsThreads /\ RowInv
-----------------------------------------------------------------------------
(* The inductive invariant behind MailAddressed, with IInv. *)

\* A thread has a message to send to its receiver alone, or to everybody; until somebody
\* is refused or the receiver's session ends, the number in its hand is the receiver's.
ReceiverInv ==
    \A c \in Conn :
        /\ thr[c].pc \in {"send", "write"} =>
               \A k \in DOMAIN thr[c].left : thr[c].to \in {Everybody, thr[c].left[k]}
        /\ thr[c].pc = "write" /\ refused = {} =>
               \/ thr[c].to = Everybody \/ Ended(thr[c].to)
               \/ File(thr[c].out) # NoFile /\ cid[File(thr[c].out)] = thr[c].to
=============================================================================
