----------------------------- MODULE SqlClient -----------------------------
(***************************************************************************)
(* The SQL client (conveyor/src/*/iot_client_sql.c) between the database   *)
(* and the line's message server, with the colour detector that fills the  *)
(* table.                                                                  *)
(*                                                                         *)
(* send_msg polls for a row whose IRStatus is 1 and orders it from the     *)
(* arm, if done_flag is set; recv_msg sets the flag on DONE and moves rows *)
(* from NULL to 1 on DETECT, from 1 to 0 on END_DETECT.  The flag is a     *)
(* plain int that send_msg clears only after it has written the order.     *)
(***************************************************************************)
EXTENDS Integers, Sequences

CONSTANTS
    Colour,         \* what the detector tells apart
    MaxRow,         \* bound: rows ever inserted
    MaxInbox,       \* bound: messages that wait for a read
    MaxRestarts     \* bound: how often the client is started again

ASSUME ClientAssumption ==
    MaxRow \in Nat /\ MaxInbox \in Nat /\ MaxRestarts \in Nat

\* The second token of a message, "[from]text": those recv_msg compares with,
\* and all others.
Text == {"DONE", "DETECT", "END_DETECT", "OTHER"}

NoId == -1
Ids == 1..MaxRow
RowType == [color : Colour, ir : {"null", "1", "0"}]
Order == [id : Ids, color : Colour]

VARIABLES
    db,         \* ObjectDetection: the rows by id
    snd,        \* send_msg: pc, id of the row it found, last_sent_id
    rcv,        \* recv_msg: pc, the text it read, target_id
    done_flag,
    inbox,      \* what the server wrote to the client and nobody read
    link,       \* the connection to the server
    orders,     \* every order written
    restarts

clientVars == <<snd, rcv, done_flag, inbox, link, restarts>>
vars == <<db, clientVars, orders>>

With(status) == {i \in DOMAIN db : db[i].ir = status}
First(S) == CHOOSE i \in S : \A j \in S : i <= j

IdleSnd == [pc |-> "poll", id |-> NoId, last |-> NoId]
IdleRcv == [pc |-> "read", text |-> "OTHER", target |-> NoId]
-----------------------------------------------------------------------------
(* color-detector.py *)

insert_to_db(c) ==
    /\ Len(db) < MaxRow
    /\ db' = Append(db, [color |-> c, ir |-> "null"])
    /\ UNCHANGED <<clientVars, orders>>
-----------------------------------------------------------------------------
(* send_msg *)

\* The engine scans the table by its primary key, so LIMIT 1 is the lowest id.
Poll ==
    /\ snd.pc = "poll"
    /\ With("1") # {}
    /\ snd' = [snd EXCEPT !.pc = "check", !.id = First(With("1"))]
    /\ UNCHANGED <<db, rcv, done_flag, inbox, link, orders, restarts>>

MaySend == snd.id # snd.last /\ done_flag

Skip ==
    /\ snd.pc = "check"
    /\ ~MaySend
    /\ snd' = [snd EXCEPT !.pc = "poll"]
    /\ UNCHANGED <<db, rcv, done_flag, inbox, link, orders, restarts>>

\* Mutants: done_flag is not looked at; the row sent last is sent again; the order
\* names the row sent before.
SendUnasked ==
    /\ snd.pc = "check"
    /\ snd.id # snd.last
    /\ orders' = Append(orders, [id |-> snd.id, color |-> db[snd.id].color])
    /\ snd' = [snd EXCEPT !.pc = "sent"]
    /\ UNCHANGED <<db, rcv, done_flag, inbox, link, restarts>>
SendAgain ==
    /\ snd.pc = "check"
    /\ done_flag
    /\ orders' = Append(orders, [id |-> snd.id, color |-> db[snd.id].color])
    /\ snd' = [snd EXCEPT !.pc = "sent"]
    /\ UNCHANGED <<db, rcv, done_flag, inbox, link, restarts>>
SendStale ==
    /\ snd.pc = "check"
    /\ MaySend
    /\ orders' = Append(orders, [id |-> snd.last, color |-> db[snd.id].color])
    /\ snd' = [snd EXCEPT !.pc = "sent"]
    /\ UNCHANGED <<db, rcv, done_flag, inbox, link, restarts>>

Send ==
    /\ snd.pc = "check"
    /\ MaySend
    /\ orders' = Append(orders, [id |-> snd.id, color |-> db[snd.id].color])
    /\ snd' = [snd EXCEPT !.pc = "sent"]
    /\ UNCHANGED <<db, rcv, done_flag, inbox, link, restarts>>

\* Mutant: the permit is not taken back.
SentKeeps ==
    /\ snd.pc = "sent"
    /\ snd' = [snd EXCEPT !.pc = "poll", !.last = snd.id]
    /\ UNCHANGED <<db, rcv, done_flag, inbox, link, orders, restarts>>

Sent ==
    /\ snd.pc = "sent"
    /\ done_flag' = FALSE
    /\ snd' = [snd EXCEPT !.pc = "poll", !.last = snd.id]
    /\ UNCHANGED <<db, rcv, inbox, link, orders, restarts>>

\* The write fails, or raises SIGPIPE, for the server is gone.
SendFails ==
    /\ snd.pc = "check"
    /\ MaySend
    /\ link = "down"
    /\ \/ snd' = [snd EXCEPT !.pc = "off"] /\ UNCHANGED rcv
       \/ snd' = [IdleSnd EXCEPT !.pc = "off"] /\ rcv' = [IdleRcv EXCEPT !.pc = "off"]
    /\ UNCHANGED <<db, done_flag, inbox, link, orders, restarts>>
-----------------------------------------------------------------------------
(* recv_msg and save_to_db *)

\* A read takes all that has arrived.  Only the last newline is cut off, so if
\* it is more than one message the text compares with nothing.
Read ==
    /\ rcv.pc = "read"
    /\ inbox # <<>>
    /\ rcv' = [rcv EXCEPT !.pc = "got", !.text = IF Len(inbox) = 1 THEN inbox[1] ELSE "OTHER"]
    /\ inbox' = <<>>
    /\ UNCHANGED <<db, snd, done_flag, link, orders, restarts>>

ReadEnd ==
    /\ rcv.pc = "read"
    /\ inbox = <<>> /\ link = "down"
    /\ rcv' = [rcv EXCEPT !.pc = "off"]
    /\ UNCHANGED <<db, snd, done_flag, inbox, link, orders, restarts>>

Ignore ==
    /\ rcv.pc = "got" /\ rcv.text = "OTHER"
    /\ rcv' = [rcv EXCEPT !.pc = "read"]
    /\ UNCHANGED <<db, snd, done_flag, inbox, link, orders, restarts>>

Done ==
    /\ rcv.pc = "got" /\ rcv.text = "DONE"
    /\ done_flag' = TRUE
    /\ rcv' = [rcv EXCEPT !.pc = "read"]
    /\ UNCHANGED <<db, snd, inbox, link, orders, restarts>>

\* The status of the rows a message is about, and the one they get.
Before(text) == IF text = "DETECT" THEN "null" ELSE "1"
After(text) == IF text = "DETECT" THEN "1" ELSE "0"

\* Mutant: any row of that status.
SelectAny ==
    /\ rcv.pc = "got" /\ rcv.text \in {"DETECT", "END_DETECT"}
    /\ IF With(Before(rcv.text)) = {}
         THEN rcv' = [rcv EXCEPT !.pc = "read"]
         ELSE \E i \in With(Before(rcv.text)) : rcv' = [rcv EXCEPT !.pc = "update", !.target = i]
    /\ UNCHANGED <<db, snd, done_flag, inbox, link, orders, restarts>>

Select ==
    /\ rcv.pc = "got" /\ rcv.text \in {"DETECT", "END_DETECT"}
    /\ LET rows == With(Before(rcv.text)) IN
       rcv' = IF rows = {} THEN [rcv EXCEPT !.pc = "read"]
              ELSE [rcv EXCEPT !.pc = "update", !.target = First(rows)]
    /\ UNCHANGED <<db, snd, done_flag, inbox, link, orders, restarts>>

Update ==
    /\ rcv.pc = "update"
    /\ db' = [db EXCEPT ![rcv.target].ir = After(rcv.text)]
    /\ rcv' = [rcv EXCEPT !.pc = "read"]
    /\ UNCHANGED <<snd, done_flag, inbox, link, orders, restarts>>

\* A query that fails is reported and forgotten.
QueryFails ==
    /\ \/ rcv.pc = "got" /\ rcv.text \in {"DETECT", "END_DETECT"}
       \/ rcv.pc = "update"
    /\ rcv' = [rcv EXCEPT !.pc = "read"]
    /\ UNCHANGED <<db, snd, done_flag, inbox, link, orders, restarts>>
-----------------------------------------------------------------------------
(* The server's end of the connection, and whoever starts the client. *)

Arrive(text) ==
    /\ link = "up"
    /\ Len(inbox) < MaxInbox
    /\ inbox' = Append(inbox, text)
    /\ UNCHANGED <<db, snd, rcv, done_flag, link, orders, restarts>>

HangUp ==
    /\ link = "up"
    /\ link' = "down"
    /\ UNCHANGED <<db, snd, rcv, done_flag, inbox, orders, restarts>>

\* The client is killed, if it has not ended, and started again.
Restart ==
    /\ restarts < MaxRestarts
    /\ restarts' = restarts + 1
    /\ snd' = IdleSnd /\ rcv' = IdleRcv
    /\ done_flag' = TRUE
    /\ inbox' = <<>> /\ link' = "up"
    /\ UNCHANGED <<db, orders>>
-----------------------------------------------------------------------------
Init ==
    /\ db = <<>>
    /\ snd = IdleSnd
    /\ rcv = IdleRcv
    /\ done_flag = TRUE
    /\ inbox = <<>>
    /\ link = "up"
    /\ orders = <<>>
    /\ restarts = 0

Sender == Poll \/ Skip \/ Send \/ Sent \/ SendFails
Receiver == Read \/ ReadEnd \/ Ignore \/ Done \/ Select \/ Update
Camera == \E c \in Colour : insert_to_db(c)

Next ==
    \/ Sender \/ Receiver \/ QueryFails \/ Camera
    \/ (\E text \in Text : Arrive(text)) \/ HangUp \/ Restart

Spec == Init /\ [][Next]_vars
-----------------------------------------------------------------------------
\* The type invariant.
TypeOK ==
    /\ db \in Seq(RowType) /\ Len(db) <= MaxRow
    /\ snd \in [pc : {"poll", "check", "sent", "off"}, id : Ids \cup {NoId},
                last : Ids \cup {NoId}]
    /\ rcv \in [pc : {"read", "got", "update", "off"}, text : Text, target : Ids \cup {NoId}]
    /\ done_flag \in BOOLEAN
    /\ inbox \in Seq(Text)
    /\ link \in {"up", "down"}
    /\ orders \in Seq(Order)
    /\ restarts \in 0..MaxRestarts

\* The belt keeps the order of the camera: an object comes to the sensor only after
\* those inserted before it, and leaves it only after they left (save_to_db).
Rank(status) == CASE status = "0" -> 0 [] status = "1" -> 1 [] status = "null" -> 2
RowsInOrder == \A i, j \in DOMAIN db : i < j => Rank(db[i].ir) <= Rank(db[j].ir)

\* The orders are what Dispatch promises, although send_msg clears done_flag only
\* after the write, when a DONE may have come in between (send_msg and recv_msg).
Dispatched ==
    INSTANCE Dispatch WITH
        last <- IF snd.pc = "sent" THEN snd.id ELSE snd.last,
        permit <- done_flag /\ snd.pc # "sent"
DispatchRefined == Dispatched!Spec

-----------------------------------------------------------------------------
(* The inductive invariant behind DispatchRefined. *)

\* The row to be updated next is the first of its status, and nobody else
\* changes a status.
TargetInv ==
    rcv.pc = "update" =>
        /\ rcv.text \in {"DETECT", "END_DETECT"}
        /\ rcv.target \in With(Before(rcv.text))
        /\ \A i \in With(Before(rcv.text)) : rcv.target <= i

\* What was found at 1 is before or at the first row that is at 1 now, and so is
\* what was sent.
NotBeyond(i) == i \in DOMAIN db /\ db[i].ir # "null" /\ \A j \in With("1") : i <= j
SenderInv ==
    /\ snd.pc \in {"check", "sent"} => NotBeyond(snd.id) /\ snd.last <= snd.id
    /\ snd.pc = "sent" => snd.last < snd.id
    /\ snd.last # NoId => NotBeyond(snd.last)

IInv == TypeOK /\ RowsInOrder /\ TargetInv /\ SenderInv
=============================================================================
