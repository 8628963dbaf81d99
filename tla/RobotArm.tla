------------------------------ MODULE RobotArm ------------------------------
(***************************************************************************)
(* The robot arm's firmware (Robot_arm/mathmatics/Core/src, main.c and     *)
(* esp.c) behind its ESP8266.                                              *)
(*                                                                         *)
(* The receive interrupt appends to cb_data; the main loop copies the      *)
(* first message out of it and clears it; and every AT command, which the  *)
(* reports need, clears it and waits in it for the answer.  Clearing is    *)
(* two statements, the bytes and then the length, and a byte that arrives  *)
(* between them stays behind in a cell beyond the new end.                 *)
(*                                                                         *)
(* A cell of the buffer is a piece of text the code tells from others;     *)
(* of a byte that is lost only matters which piece it tears.               *)
(***************************************************************************)
EXTENDS ArmMotion, Sequences, FiniteSets, FiniteSetsExt, Functions

CONSTANTS
    GripPlace,      \* grip_pos
    ColorPlace,     \* red_pos, green_pos, blue_pos, by the colour's code
    NoColor,        \* a code that is none of theirs
    Cap,            \* MAX_ESP_RX_BUFFER
    AtLimit,        \* MAX_UART_RX_BUFFER
    StrCells,       \* what fits in strBuff
    MaxEvents       \* bound: jobs and other texts ever sent, buttons ever pressed and
                    \* losses of the connection, all together

Color == DOMAIN ColorPlace
Job == Color \cup {NoColor}

ASSUME ArmAssumption ==
    /\ GripPlace \in Place /\ ColorPlace \in [Color -> Place] /\ NoColor \notin Color
    /\ IsFiniteSet(Color)
    /\ Cap \in Nat \ {0} /\ AtLimit \in 1..Cap /\ StrCells \in Nat \ {0}
    /\ MaxEvents \in Nat

VARIABLES
    buf, length,            \* cb_data
    uart,       \* cells the ESP sent and the interrupt has not taken
    main,       \* the main loop: pc, strBuff, the button moves that are
                \* left, the AT command, its text and what follows it
    esp,        \* the ESP: is it taking data, is it connected, the command it was
                \* handed and has not answered, and its text
    heard, said, last, placed,      \* of ArmService
    events      \* jobs, texts, buttons and losses so far

serviceVars == <<heard, said, last, placed>>
vars == <<motionVars, buf, length, uart, main, esp, serviceVars, events>>

-----------------------------------------------------------------------------
(* The buffer *)

Cell(k) == [k |-> k, n |-> 0]
Nul == Cell("nul")
\* "+IPD,15:" without its newline; a text from '[' to its newline, which is a job,
\* "Already logged!" or any other; the answers OK and ERROR; all that is left.
Body == {"job", "again", "text"}
Ended == Body \cup {"ok", "error", "noise"}
Kinds == Ended \cup {"head", "part"}
CellType == [k : Kinds, n : 0..MaxEvents]

Blank == [i \in 1..Cap |-> Nul]

\* What the string functions see.
Visible ==
    LET nuls == {i \in 1..Cap : buf[i] = Nul}
        end == IF nuls = {} THEN Cap ELSE Min(nuls) - 1
    IN  [i \in 1..end |-> buf[i]]
Sees(k) == \E i \in DOMAIN Visible : Visible[i].k = k

\* A byte that is lost tears its cell.
Torn(c) == Cell(IF c.k \in Ended THEN "noise" ELSE "part")
Clearing == main.pc \in {"zero", "at_zero"}

\* Mutant: the end of the buffer is not looked at.
InterruptUnbounded ==
    /\ uart # <<>> /\ ~Clearing
    /\ uart' = Tail(uart)
    /\ buf' = [buf EXCEPT ![length + 1] = Head(uart)] /\ length' = length + 1
    /\ UNCHANGED <<motionVars, main, esp, serviceVars, events>>

\* HAL_UART_RxCpltCallback.  Between the two statements of a clearing there is time
\* for one byte, which is stored where the old end was.
Interrupt ==
    /\ uart # <<>>
    /\ IF Clearing
         THEN /\ length > 0 => buf[length] = Nul
              /\ uart' = <<Torn(Head(uart))>> \o Tail(uart)
              /\ IF length < Cap
                   THEN buf' = [buf EXCEPT ![length + 1] = Cell("part")] /\ length' = length + 1
                   ELSE UNCHANGED <<buf, length>>
         ELSE /\ uart' = Tail(uart)
              /\ IF length < Cap
                   THEN buf' = [buf EXCEPT ![length + 1] = Head(uart)] /\ length' = length + 1
                   ELSE UNCHANGED <<buf, length>>
    /\ UNCHANGED <<motionVars, main, esp, serviceVars, events>>
-----------------------------------------------------------------------------
(* The main loop *)

NoReport == [job |-> 0, done |-> FALSE]
Events(n) == events' = events + n /\ events' <= MaxEvents

Go(pc) == main' = [main EXCEPT !.pc = pc]
Idle(pc) == [pc |-> pc, str |-> <<>>, todo |-> {}, cmd |-> "none", text |-> NoReport, next |-> "buttons"]
\* The end of esp_event: nothing of it is read again.
Finish == main' = Idle("buttons")

\* Mutant: the newline is not waited for.
ReadyAtOnce == Sees("head") /\ length > 0
Ready == Sees("head") /\ length > 0 /\ buf[length].k \in Ended

Check ==
    /\ main.pc = "loop"
    /\ Go(IF Ready THEN "copy" ELSE "buttons")
    /\ UNCHANGED <<motionVars, buf, length, uart, esp, serviceVars, events>>

\* Mutant: from the last '[' on.
CopyLast ==
    /\ main.pc = "copy"
    /\ LET bodies == {i \in DOMAIN Visible : Visible[i].k \in Body}
           text == SubSeq(Visible, Max(bodies), Len(Visible))
       IN  main' = [main EXCEPT !.pc = "wipe", !.str = text]
    /\ UNCHANGED <<motionVars, buf, length, uart, esp, serviceVars, events>>

\* strcpy from the first '[' on.  If there is none, or strBuff is too small for what
\* follows, anything may happen.
Copy ==
    /\ main.pc = "copy"
    /\ LET bodies == {i \in DOMAIN Visible : Visible[i].k \in Body}
           text == SubSeq(Visible, Min(bodies), Len(Visible))
       IN  IF bodies = {} \/ Len(text) > StrCells
             THEN Go("wild")
             ELSE main' = [main EXCEPT !.pc = "wipe", !.str = text]
    /\ UNCHANGED <<motionVars, buf, length, uart, esp, serviceVars, events>>

Wipe ==
    /\ main.pc = "wipe"
    /\ buf' = Blank
    /\ Go("zero")
    /\ UNCHANGED <<motionVars, length, uart, esp, serviceVars, events>>

Zero ==
    /\ main.pc = "zero"
    /\ length' = 0
    /\ Go("event")
    /\ UNCHANGED <<motionVars, buf, uart, esp, serviceVars, events>>

\* esp_at_command is called with cmd, and then continues with next.
At(cmd, text, next) == [main EXCEPT !.pc = "at_wipe", !.cmd = cmd, !.text = text, !.next = next]

\* esp_event.  A text other than "1", "Already log" and " New conn" changes nothing;
\* "LED" a pin that nobody reads.
Event ==
    /\ main.pc = "event"
    /\ LET first == main.str[1] IN
       CASE first.k = "job" ->
              /\ last' = first.n
              /\ main' = At("cipsend", [job |-> first.n, done |-> FALSE], "grip")
         [] first.k = "again" ->
              /\ main' = At("cipstart", NoReport, "buttons") /\ UNCHANGED last
         [] OTHER ->
              /\ Finish /\ UNCHANGED last
    /\ UNCHANGED <<motionVars, buf, length, uart, esp, heard, said, placed, events>>

Grip ==
    /\ main.pc = "grip"
    /\ MoveTo(GripPlace, TRUE)
    /\ Go("gripping")
    /\ UNCHANGED <<buf, length, uart, esp, serviceVars, events>>

\* strtok leaves the colour alone only if the message was the last text in strBuff:
\* otherwise its newline is part of it, and it equals none.
Clean == Len(main.str) = 1
Colored == Clean /\ heard[last] \in Color

\* Mutant: the job is reported as done whatever its colour.
GrippedAnyway ==
    /\ main.pc = "gripping" /\ move.leg = AtRest
    /\ IF Colored
         THEN MoveTo(ColorPlace[heard[last]], FALSE) /\ Go("placing")
         ELSE /\ main' = At("cipsend", [job |-> last, done |-> TRUE], "buttons")
              /\ UNCHANGED motionVars
    /\ UNCHANGED <<buf, length, uart, esp, serviceVars, events>>

Gripped ==
    /\ main.pc = "gripping" /\ move.leg = AtRest
    /\ IF Colored
         THEN MoveTo(ColorPlace[heard[last]], FALSE) /\ Go("placing")
         ELSE Finish /\ UNCHANGED motionVars
    /\ UNCHANGED <<buf, length, uart, esp, serviceVars, events>>

Placed ==
    /\ main.pc = "placing" /\ move.leg = AtRest
    /\ placed' = placed \cup {last}
    /\ main' = At("cipsend", [job |-> last, done |-> TRUE], "buttons")
    /\ UNCHANGED <<motionVars, buf, length, uart, esp, heard, said, last, events>>

\* The four buttons are read once, and what was pressed is done, gripping first.
Buttons ==
    /\ main.pc = "buttons"
    /\ \E todo \in SUBSET ({GripPlace} \cup Range(ColorPlace)) :
         /\ Events(Cardinality(todo))
         /\ main' = [main EXCEPT !.pc = "manual", !.todo = todo]
    /\ UNCHANGED <<motionVars, buf, length, uart, esp, serviceVars>>

Manual ==
    /\ main.pc = "manual" /\ move.leg = AtRest
    /\ \/ main.todo = {} /\ Go("loop") /\ UNCHANGED motionVars
       \/ \E p \in main.todo :
            /\ GripPlace \in main.todo => p = GripPlace
            /\ MoveTo(p, p = GripPlace)
            /\ main' = [main EXCEPT !.todo = @ \ {p}]
    /\ UNCHANGED <<buf, length, uart, esp, serviceVars, events>>

\* move_direction, called from one of the three.
Moving ==
    /\ main.pc \in {"gripping", "placing", "manual"}
    /\ Pulse
    /\ UNCHANGED <<buf, length, uart, main, esp, serviceVars, events>>
-----------------------------------------------------------------------------
(* esp_at_command *)

AtWipe ==
    /\ main.pc = "at_wipe"
    /\ buf' = Blank
    /\ Go("at_zero")
    /\ UNCHANGED <<motionVars, length, uart, esp, serviceVars, events>>

AtZero ==
    /\ main.pc = "at_zero"
    /\ length' = 0
    /\ Go("at_send")
    /\ UNCHANGED <<motionVars, buf, uart, esp, serviceVars, events>>

\* An ESP that has not answered the command before ignores this one.
AtSend ==
    /\ main.pc = "at_send"
    /\ esp' = IF esp.cmd = "none" THEN [esp EXCEPT !.cmd = main.cmd, !.text = main.text] ELSE esp
    /\ Go("at_wait")
    /\ UNCHANGED <<motionVars, buf, length, uart, serviceVars, events>>

Refused == length >= AtLimit \/ Sees("error")
Granted == ~Refused /\ Sees("ok")

\* esp_send_data goes on with the data only after a 0; esp_client_conn in any case.
Return(zero) ==
    main' = IF main.cmd = "cipsend" /\ zero THEN At("data", main.text, main.next)
            ELSE IF main.cmd = "cipstart" THEN At("cipsend", main.text, main.next)
            ELSE IF main.next = "grip" THEN [Idle("grip") EXCEPT !.str = main.str]
            ELSE Idle("buttons")

\* Mutant: without an answer the command is given again.
AtRetries ==
    /\ main.pc = "at_wait"
    /\ IF Refused \/ Granted THEN Return(Granted) ELSE main' = At(main.cmd, main.text, main.next)
    /\ UNCHANGED <<motionVars, buf, length, uart, esp, serviceVars, events>>

\* An answer, or a second without one, which is a 0 as well.
AtReturns ==
    /\ main.pc = "at_wait"
    /\ Return(~Refused)
    /\ UNCHANGED <<motionVars, buf, length, uart, esp, serviceVars, events>>
-----------------------------------------------------------------------------
(* The ESP and the server behind it *)

Sends(cells) == uart' = uart \o cells

\* While it takes data, whatever it is handed is data.
EspTakes ==
    /\ esp.cmd # "none" /\ esp.taking
    /\ esp' = [esp EXCEPT !.cmd = "none", !.text = NoReport, !.taking = FALSE]
    /\ said' = IF esp.up /\ esp.cmd = "data" /\ esp.text # NoReport
                 THEN Append(said, esp.text) ELSE said
    /\ Sends(<<Cell(IF esp.up THEN "ok" ELSE "error")>>)
    /\ UNCHANGED <<motionVars, buf, length, main, heard, last, placed, events>>

\* The prompt comes after the OK.
EspAnswers ==
    /\ esp.cmd # "none" /\ ~esp.taking
    /\ \/ /\ esp.cmd = "cipsend" /\ esp.up
          /\ esp' = [esp EXCEPT !.cmd = "none", !.text = NoReport, !.taking = TRUE]
          /\ Sends(<<Cell("ok"), Cell("part")>>)
       \/ /\ esp.cmd = "cipstart" /\ ~esp.up
          /\ esp' = [esp EXCEPT !.cmd = "none", !.text = NoReport, !.up = TRUE]
          /\ Sends(<<Cell("ok")>>)
       \/ /\ ~(esp.cmd = "cipsend" /\ esp.up)
          /\ esp' = [esp EXCEPT !.cmd = "none", !.text = NoReport]
          /\ Sends(<<Cell("error")>>)
    /\ UNCHANGED <<motionVars, buf, length, main, serviceVars, events>>

EspLoses ==
    /\ esp.up
    /\ esp' = [esp EXCEPT !.up = FALSE]
    /\ Events(1)
    /\ Sends(<<Cell("noise")>>)
    /\ UNCHANGED <<motionVars, buf, length, main, serviceVars>>

Orders(j) ==
    /\ esp.up
    /\ Events(1)
    /\ heard' = Append(heard, j)
    /\ Sends(<<Cell("head"), [k |-> "job", n |-> Len(heard')]>>)
    /\ UNCHANGED <<motionVars, buf, length, main, esp, said, last, placed>>

\* "Already logged!" is the last the server says on a connection.
Says(k) ==
    /\ esp.up
    /\ Events(1)
    /\ esp' = [esp EXCEPT !.up = (k # "again")]
    /\ Sends(IF k = "again" THEN <<Cell("head"), Cell(k), Cell("noise")>>
             ELSE <<Cell("head"), Cell(k)>>)
    /\ UNCHANGED <<motionVars, buf, length, main, serviceVars>>
-----------------------------------------------------------------------------
Init ==
    /\ MotionInit
    /\ buf = Blank /\ length = 0 /\ uart = <<>>
    /\ main = Idle("loop")
    /\ esp = [taking |-> FALSE, up |-> TRUE, cmd |-> "none", text |-> NoReport]
    /\ heard = <<>> /\ said = <<>> /\ last = 0 /\ placed = {}
    /\ events = 0

Main ==
    \/ Check \/ Copy \/ Wipe \/ Zero \/ Event \/ Grip \/ Gripped \/ Placed
    \/ Buttons \/ Manual \/ Moving
    \/ AtWipe \/ AtZero \/ AtSend \/ AtReturns
Outside ==
    \/ EspTakes \/ EspAnswers \/ EspLoses
    \/ (\E j \in Job : Orders(j)) \/ (\E k \in {"again", "text"} : Says(k))

Next == Main \/ Interrupt \/ Outside

Spec == Init /\ [][Next]_vars

\* The processor runs, and takes its interrupts.  The first is WF_vars(Main): only
\* where anything may happen is no step of the main loop possible.
FairSpec ==
    /\ Spec
    /\ <>[](main.pc # "wild") => []<><<Main>>_vars
    /\ WF_vars(Interrupt)
-----------------------------------------------------------------------------
Pcs == {"loop", "copy", "wipe", "zero", "event", "grip", "gripping", "placing", "buttons",
        "manual", "at_wipe", "at_zero", "at_send", "at_wait", "wild"}
Commands == {"none", "cipsend", "data", "cipstart"}
ReportType == [job : 0..MaxEvents, done : BOOLEAN]

TypeOK ==
    /\ MotionTypeOK
    /\ buf \in [1..Cap -> CellType \cup {Nul}] /\ length \in 0..Cap
    /\ uart \in Seq(CellType)
    /\ main \in [pc : Pcs, str : Seq(CellType), todo : SUBSET Place, cmd : Commands,
                 text : ReportType, next : {"grip", "buttons"}]
    /\ esp \in [taking : BOOLEAN, up : BOOLEAN, cmd : Commands, text : ReportType]
    /\ heard \in Seq(Job) /\ Len(heard) <= MaxEvents
    /\ said \in Seq(ReportType) /\ last \in 0..Len(heard) /\ placed \subseteq 1..last
    /\ events \in 0..MaxEvents

\* Whatever was torn, lost or cleared under it, the main loop copies only when there
\* is a '[' to copy from: the interrupt handler and the clearings never leave a
\* "+IPD" in the buffer that is followed by a newline but not by its message.
CopyFindsMessage == main.pc = "copy" => \E i \in DOMAIN Visible : Visible[i].k \in Body

\* The main loop always gets back to listening, whatever the ESP does or does not
\* answer, unless it overran strBuff (main, esp_at_command).
ListensAgain == main.pc # "loop" ~> main.pc \in {"loop", "wild"}

\* A job that lies complete in the buffer when the main loop looks is carried out,
\* unless what comes behind it overruns strBuff, or hides it: fills the buffer, or ends
\* without a newline, as the ESP's prompt does when it comes too late (main).
FirstBody == LET bodies == {i \in DOMAIN Visible : Visible[i].k \in Body}
             IN  IF bodies = {} THEN Nul ELSE Visible[Min(bodies)]
Offered(n) == main.pc = "loop" /\ Ready /\ FirstBody = [k |-> "job", n |-> n]
Hidden == length = Cap \/ (length > 0 /\ buf[length].k = "part")
OfferedTaken == \A n \in 1..MaxEvents : Offered(n) ~> (last = n \/ main.pc = "wild" \/ Hidden)

\* The firmware keeps what ArmService promises.
Stage ==
    CASE main.pc \in {"at_wipe", "at_zero", "at_send", "at_wait"} ->
            IF main.next = "grip" THEN "taken" ELSE IF main.text.done THEN "placed" ELSE "rest"
      [] main.pc \in {"grip", "gripping"} -> "taken"
      [] main.pc = "placing" -> "gripped"
      [] OTHER -> "rest"
Service == INSTANCE ArmService WITH stage <- Stage
ArmRefined == Service!Spec
-----------------------------------------------------------------------------
(* The inductive invariant behind CopyFindsMessage and ArmRefined. *)

\* Up to length the buffer holds what came, behind it at most a byte that a clearing
\* left; while it is cleared there is no more in it than that.
BufferInv ==
    /\ \A i \in 1..Cap : Clearing \/ i > length => buf[i] = Nul \/ buf[i].k = "part"
    /\ ~Clearing => \A i \in 1..length : buf[i] # Nul
    /\ main.pc = "copy" => \E i \in 1..length : buf[i].k \in Body

\* A "+IPD" has its message behind it, in the buffer or still on the way, or the buffer
\* was full.
HeadInv ==
    /\ \A i \in DOMAIN uart : uart[i].k = "head" => i < Len(uart) /\ uart[i + 1].k \in Body
    /\ \A i \in 1..length : buf[i].k = "head" =>
         \/ i < length /\ buf[i + 1].k \in Body
         \/ i = length /\ uart # <<>> /\ uart[1].k \in Body
         \/ i = Cap

\* Jobs are on their way in the order they were given, behind the one taken last: in
\* strBuff, in the buffer, at the ESP.
IsJob(c) == c.k = "job"
Given(c) == last < c.n /\ c.n <= Len(heard)
JobInv ==
    /\ Len(heard) <= events
    /\ \A i \in DOMAIN uart : IsJob(uart[i]) =>
         /\ Given(uart[i])
         /\ \A j \in DOMAIN uart : i < j /\ IsJob(uart[j]) => uart[i].n < uart[j].n
    /\ \A i \in 1..Cap : IsJob(buf[i]) =>
         /\ Given(buf[i])
         /\ \A j \in 1..Cap : i < j /\ IsJob(buf[j]) => buf[i].n < buf[j].n
         /\ \A j \in DOMAIN uart : IsJob(uart[j]) => buf[i].n < uart[j].n
StrInv ==
    main.pc \in {"wipe", "zero", "event"} =>
        /\ main.str # <<>>
        /\ IsJob(main.str[1]) =>
             /\ Given(main.str[1])
             /\ \A j \in DOMAIN uart : IsJob(uart[j]) => main.str[1].n < uart[j].n
             /\ main.pc # "wipe" => \A j \in 1..Cap : IsJob(buf[j]) => main.str[1].n < buf[j].n

\* What was said, or is with the ESP to be said, comes before what the main loop is about
\* to hand over, and that is of the job it took last.
Out == (IF said = <<>> THEN {} ELSE {said[Len(said)]})
         \cup (IF esp.cmd = "data" THEN {esp.text} ELSE {})
AtPcs == {"at_wipe", "at_zero", "at_send", "at_wait"}
Pending == main.pc \in AtPcs /\ main.text # NoReport /\ ~(main.cmd = "data" /\ main.pc = "at_wait")
TextInv ==
    main.pc \in AtPcs =>
        IF main.next = "grip"
          THEN main.text = [job |-> last, done |-> FALSE]
          ELSE main.text = NoReport \/ (main.text = [job |-> last, done |-> TRUE] /\ last \in placed)
SaidInv ==
    /\ \A r \in Out : r.job <= last /\ (r.done => r.job \in placed)
    /\ said # <<>> /\ esp.cmd = "data" /\ esp.text # NoReport =>
         Service!Later(esp.text, said[Len(said)])
    /\ Stage \in {"taken", "gripped"} => last > 0 /\ \A r \in Out : r.job = last => ~r.done
    /\ Pending => \A r \in Out : Service!Later(main.text, r)

IInv ==
    /\ TypeOK /\ PulsesInv
    /\ BufferInv /\ HeadInv /\ JobInv /\ StrInv
    /\ TextInv /\ SaidInv
=============================================================================
