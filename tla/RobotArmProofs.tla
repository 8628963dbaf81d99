--------------------------- MODULE RobotArmProofs ---------------------------
(***************************************************************************)
(* The firmware keeps what ArmService promises for every size of its       *)
(* buffers, every colour and every number of jobs, texts, buttons and      *)
(* losses; it copies only when there is a message to copy, although a byte *)
(* may come while it clears; and its joints move gently.                   *)
(***************************************************************************)
EXTENDS RobotArm, ArmMotionProofs, FiniteSetTheorems, SequenceTheorems

-----------------------------------------------------------------------------
(* The buffer as the string functions see it *)

LEMMA MinIs ==
    ASSUME NEW S, S \subseteq Nat, S # {}
    PROVE  Min(S) \in S /\ \A j \in S : Min(S) <= j
<1> DEFINE R == OpToRel(<, Nat)
<1>1. IsWellFoundedOn(R, Nat)
  BY NatLessThanWellFounded
<1>2. \A i, j \in S : j < i => <<j, i>> \in R
  BY DEF OpToRel
<1> HIDE DEF R
<1>3. PICK i \in S : \A j \in S : ~(<<j, i>> \in R)
  BY <1>1, WFMin
<1>4. \A j \in S : ~(j < i)
  BY <1>2, <1>3, Zenon
<1>5. \A j \in S : i <= j
  BY <1>4
<1> QED
  BY <1>5 DEF Min

LEMMA NulIs == Nul.k = "nul" /\ \A c \in CellType : c # Nul /\ c.k \in Kinds /\ c.n \in 0..MaxEvents
BY DEF Nul, Cell, CellType, Kinds, Ended, Body

LEMMA VisibleIs ==
    ASSUME TypeOK
    PROVE  \E end \in 0..Cap :
               /\ Visible \in Seq(CellType) /\ DOMAIN Visible = 1..end /\ Len(Visible) = end
               /\ \A i \in 1..end : Visible[i] = buf[i] /\ buf[i] # Nul
               /\ end # Cap => buf[end + 1] = Nul
<1> DEFINE nuls == {i \in 1..Cap : buf[i] = Nul}
           end == IF nuls = {} THEN Cap ELSE Min(nuls) - 1
<1>1. Cap \in Nat \ {0} /\ buf \in [1..Cap -> CellType \cup {Nul}]
  BY ArmAssumption DEF TypeOK
<1>2. end \in 0..Cap /\ (\A i \in 1..end : i \notin nuls) /\ (end # Cap => end + 1 \in nuls)
  <2>1. CASE nuls = {}
    BY <1>1, <2>1
  <2>2. CASE nuls # {}
    <3>1. nuls \subseteq Nat
      BY <1>1
    <3> HIDE DEF nuls
    <3>2. Min(nuls) \in nuls /\ \A j \in nuls : Min(nuls) <= j
      BY <2>2, <3>1, MinIs
    <3>3. Min(nuls) \in 1..Cap
      BY <3>2 DEF nuls
    <3> QED
      BY <1>1, <2>2, <3>2, <3>3
  <2> QED
    BY <2>1, <2>2
<1>3. Visible = [i \in 1..end |-> buf[i]]
  BY DEF Visible
<1>4. \A i \in 1..end : buf[i] # Nul /\ buf[i] \in CellType
  BY <1>1, <1>2
<1> HIDE DEF end, nuls
<1>5. Visible \in Seq(CellType) /\ DOMAIN Visible = 1..end /\ Len(Visible) = end
  <2>1. Visible \in [1..end -> CellType] /\ end \in Nat
    BY <1>1, <1>2, <1>3, <1>4
  <2> QED
    BY <2>1
<1>6. end # Cap => buf[end + 1] = Nul
  BY <1>2 DEF nuls
<1> QED
  BY <1>2, <1>3, <1>4, <1>5, <1>6

-----------------------------------------------------------------------------
(* The joints *)

\* Every step of the firmware is a step of the motion, or leaves it alone.
LEMMA StepMoves == TypeOK /\ [Next]_vars => [MotionNext]_motionVars
<1> SUFFICES ASSUME TypeOK, [Next]_vars PROVE [MotionNext]_motionVars
  OBVIOUS
<1>1. CASE Grip
  BY <1>1, ArmAssumption DEF Grip, MotionNext
<1>2. CASE Gripped
  <2>1. Colored => ColorPlace[heard[last]] \in Place
    BY ArmAssumption DEF Colored
  <2> QED
    BY <1>2, <2>1 DEF Gripped, MotionNext
<1>3. CASE Manual
  <2>1. main.todo \subseteq Place
    BY DEF TypeOK
  <2> QED
    BY <1>3, <2>1 DEF Manual, MotionNext
<1>4. CASE Moving
  BY <1>4 DEF Moving, MotionNext
<1>5. CASE Check \/ Copy \/ Wipe \/ Zero \/ Event \/ Placed \/ Buttons
  BY <1>5 DEF Check, Copy, Wipe, Zero, Event, Placed, Buttons
<1>6. CASE AtWipe \/ AtZero \/ AtSend \/ AtReturns \/ Interrupt
  BY <1>6 DEF AtWipe, AtZero, AtSend, AtReturns, Interrupt
<1>7. CASE Outside
  BY <1>7 DEF Outside, EspTakes, EspAnswers, EspLoses, Orders, Says
<1>8. CASE UNCHANGED vars
  BY <1>8 DEF vars
<1> QED
  BY <1>1, <1>2, <1>3, <1>4, <1>5, <1>6, <1>7, <1>8 DEF Next, Main

LEMMA Moves ==
    ASSUME TypeOK, PulsesInv, [Next]_vars
    PROVE  (MotionTypeOK /\ PulsesInv)' /\ [\A j \in Joint : Close(pwm[j], pwm'[j])]_pwm
<1>1. MotionInv
  BY DEF MotionInv, TypeOK
<1>2. [MotionNext]_motionVars
  BY StepMoves
<1> QED
  BY <1>1, <1>2, StepInv DEF MotionInv

-----------------------------------------------------------------------------
(* Types *)

MainType == [pc : Pcs, str : Seq(CellType), todo : SUBSET Place, cmd : Commands,
             text : ReportType, next : {"grip", "buttons"}]
EspType == [taking : BOOLEAN, up : BOOLEAN, cmd : Commands, text : ReportType]

LEMMA NoReportType == NoReport \in ReportType /\ NoReport.job = 0 /\ ~NoReport.done
BY ArmAssumption DEF NoReport, ReportType

LEMMA GoIs ==
    ASSUME main \in MainType, NEW pc \in Pcs, Go(pc)
    PROVE  /\ main' \in MainType /\ main'.pc = pc
           /\ main'.str = main.str /\ main'.todo = main.todo /\ main'.cmd = main.cmd
           /\ main'.text = main.text /\ main'.next = main.next
BY DEF Go, MainType

LEMMA AtIs ==
    ASSUME main \in MainType, NEW cmd \in Commands, NEW text \in ReportType,
           NEW next \in {"grip", "buttons"}, main' = At(cmd, text, next)
    PROVE  /\ main' \in MainType /\ main'.pc = "at_wipe" /\ main'.str = main.str
           /\ main'.cmd = cmd /\ main'.text = text /\ main'.next = next
BY DEF At, MainType, Pcs

LEMMA IdleIs ==
    ASSUME NEW pc \in Pcs
    PROVE  Idle(pc) \in MainType /\ Idle(pc).pc = pc
BY NoReportType DEF Idle, MainType, Commands

LEMMA ReturnIs ==
    ASSUME main \in MainType, NEW zero, Return(zero)
    PROVE  /\ main' \in MainType
           /\ \/ /\ main.cmd = "cipsend" /\ main'.pc = "at_wipe" /\ main'.cmd = "data"
                 /\ main'.text = main.text /\ main'.next = main.next
              \/ /\ main.cmd = "cipstart" /\ main'.pc = "at_wipe" /\ main'.cmd = "cipsend"
                 /\ main'.text = main.text /\ main'.next = main.next
              \/ main.next = "grip" /\ main'.pc = "grip"
              \/ main.next = "buttons" /\ main'.pc = "buttons"
<1>1. /\ main.text \in ReportType /\ main.next \in {"grip", "buttons"}
      /\ {"data", "cipsend"} \subseteq Commands
  BY DEF MainType, Commands
<1>2. CASE main.cmd = "cipsend" /\ zero
  <2>1. main' = At("data", main.text, main.next)
    BY <1>2 DEF Return
  <2> QED
    BY <1>1, <1>2, <2>1, AtIs
<1>3. CASE main.cmd = "cipstart"
  <2>1. main' = At("cipsend", main.text, main.next)
    BY <1>3 DEF Return
  <2> QED
    BY <1>1, <1>3, <2>1, AtIs
<1>4. CASE ~(main.cmd = "cipsend" /\ zero) /\ main.cmd # "cipstart" /\ main.next = "grip"
  <2>1. main' = [Idle("grip") EXCEPT !.str = main.str]
    BY <1>4 DEF Return
  <2>2. Idle("grip") \in MainType /\ Idle("grip").pc = "grip" /\ main.str \in Seq(CellType)
    BY IdleIs DEF Pcs, MainType
  <2> QED
    BY <1>4, <2>1, <2>2 DEF MainType
<1>5. CASE ~(main.cmd = "cipsend" /\ zero) /\ main.cmd # "cipstart" /\ main.next # "grip"
  <2>1. main' = Idle("buttons") /\ main.next = "buttons"
    BY <1>1, <1>5 DEF Return
  <2> QED
    BY <2>1, IdleIs DEF Pcs
<1> QED
  BY <1>2, <1>3, <1>4, <1>5

\* What the main loop copies is the text from the first '[' on.
LEMMA CopyIs ==
    ASSUME TypeOK, Copy
    PROVE  /\ main' \in MainType /\ main'.pc \in {"wipe", "wild"}
           /\ main'.pc = "wipe" =>
                \E i \in 1..Cap : main'.str # <<>> /\ main'.str[1] = buf[i] /\ buf[i].k \in Body
<1> DEFINE bodies == {i \in DOMAIN Visible : Visible[i].k \in Body}
           text == SubSeq(Visible, Min(bodies), Len(Visible))
<1>1. main \in MainType
  BY DEF TypeOK, MainType
<1>2. CASE bodies = {} \/ Len(text) > StrCells
  <2>1. Go("wild")
    BY <1>2 DEF Copy
  <2> QED
    BY <1>1, <2>1, GoIs DEF Pcs
<1>3. CASE ~(bodies = {} \/ Len(text) > StrCells)
  <2>1. PICK e \in 0..Cap :
           /\ Visible \in Seq(CellType) /\ DOMAIN Visible = 1..e /\ Len(Visible) = e
           /\ \A i \in 1..e : Visible[i] = buf[i] /\ buf[i] # Nul
    BY VisibleIs
  <2>2. e \in Nat /\ e <= Cap /\ Cap \in Nat
    BY ArmAssumption
  <2>3. bodies \subseteq Nat /\ bodies # {}
    BY <1>3, <2>1, <2>2
  <2>4. main' = [main EXCEPT !.pc = "wipe", !.str = text]
    BY <1>3 DEF Copy
  <2> HIDE DEF bodies
  <2>5. Min(bodies) \in 1..e /\ Visible[Min(bodies)].k \in Body
    BY <2>1, <2>3, MinIs DEF bodies
  <2>6. text \in Seq(CellType) /\ text # <<>> /\ text[1] = Visible[Min(bodies)]
    <3>1. \A i \in Min(bodies)..e : Visible[i] \in CellType
      BY <2>1, <2>2, <2>5
    <3>2. /\ text \in Seq(CellType) /\ Len(text) = e - Min(bodies) + 1
          /\ \A i \in 1..e - Min(bodies) + 1 : text[i] = Visible[Min(bodies) + i - 1]
      BY <2>1, <2>2, <2>5, <3>1, SubSeqProperties
    <3>3. 1 \in 1..e - Min(bodies) + 1 /\ Min(bodies) + 1 - 1 = Min(bodies) /\ Len(text) > 0
      BY <2>2, <2>5, <3>2
    <3> HIDE DEF text
    <3> QED
      BY <3>2, <3>3
  <2> HIDE DEF text
  <2>7. main' \in MainType /\ main'.pc = "wipe" /\ main'.str = text
    BY <1>1, <2>4, <2>6 DEF MainType, Pcs
  <2>8. Min(bodies) \in 1..Cap /\ text[1] = buf[Min(bodies)] /\ buf[Min(bodies)].k \in Body
    BY <2>1, <2>2, <2>5, <2>6
  <2> QED
    BY <2>6, <2>7, <2>8
<1> QED
  BY <1>2, <1>3

-----------------------------------------------------------------------------
(* What comes in *)

LEMMA CellIs ==
    ASSUME NEW k \in Kinds
    PROVE  Cell(k) \in CellType /\ Cell(k).k = k /\ Cell(k).n = 0
BY ArmAssumption DEF Cell, CellType

LEMMA TornIs ==
    ASSUME NEW c
    PROVE  Torn(c) \in CellType /\ Torn(c).k \in {"noise", "part"}
BY CellIs DEF Torn, Kinds, Ended

LEMMA SendsIs ==
    ASSUME uart \in Seq(CellType), NEW cells \in Seq(CellType), Sends(cells)
    PROVE  /\ uart' \in Seq(CellType) /\ Len(uart') = Len(uart) + Len(cells)
           /\ DOMAIN uart' = 1 .. Len(uart) + Len(cells) /\ Len(uart) \in Nat /\ Len(cells) \in Nat
           /\ \A i \in 1 .. Len(uart) : uart'[i] = uart[i]
           /\ \A i \in 1 .. Len(cells) : uart'[Len(uart) + i] = cells[i]
           /\ \A i \in DOMAIN uart' : \/ i \in 1 .. Len(uart)
                                      \/ i - Len(uart) \in 1 .. Len(cells) /\ uart'[i] = cells[i - Len(uart)]
<1>1. uart' = uart \o cells
  BY DEF Sends
<1>2. Len(uart) \in Nat /\ Len(cells) \in Nat
  OBVIOUS
<1>3. /\ uart' \in Seq(CellType) /\ Len(uart') = Len(uart) + Len(cells)
      /\ \A i \in 1 .. Len(uart) + Len(cells) :
           uart'[i] = IF i <= Len(uart) THEN uart[i] ELSE cells[i - Len(uart)]
  BY <1>1, ConcatProperties
<1>4. DOMAIN uart' = 1 .. Len(uart) + Len(cells)
  BY <1>3, LenProperties
<1>5. \A i \in 1 .. Len(uart) : i \in 1 .. Len(uart) + Len(cells) /\ i <= Len(uart)
  BY <1>2
<1>6. \A i \in 1 .. Len(cells) :
        /\ Len(uart) + i \in 1 .. Len(uart) + Len(cells)
        /\ ~(Len(uart) + i <= Len(uart)) /\ Len(uart) + i - Len(uart) = i
  BY <1>2
<1>7. \A i \in 1 .. Len(uart) + Len(cells) :
        i \in 1 .. Len(uart) \/ (i - Len(uart) \in 1 .. Len(cells) /\ ~(i <= Len(uart)))
  BY <1>2
<1>8. \A i \in 1 .. Len(uart) : uart'[i] = uart[i]
  BY <1>3, <1>5
<1>9. \A i \in 1 .. Len(cells) : uart'[Len(uart) + i] = cells[i]
  BY <1>3, <1>6
<1>10. \A i \in DOMAIN uart' : \/ i \in 1 .. Len(uart)
                               \/ i - Len(uart) \in 1 .. Len(cells) /\ uart'[i] = cells[i - Len(uart)]
  BY <1>3, <1>4, <1>7
<1> QED
  BY <1>2, <1>3, <1>4, <1>8, <1>9, <1>10

\* The ESP hands over whole messages, and jobs by their number.
Whole(cells) ==
    /\ \A i \in 1 .. Len(cells) : cells[i].k = "head" => i < Len(cells) /\ cells[i + 1].k \in Body
    /\ \A i \in 1 .. Len(cells) : IsJob(cells[i]) => /\ cells[i].n = Len(heard) + 1
                                                     /\ Len(heard') = Len(heard) + 1
    /\ \A i, j \in 1 .. Len(cells) : IsJob(cells[i]) /\ IsJob(cells[j]) => i = j

LEMMA NoWhole ==
    ASSUME NEW cells \in Seq(CellType),
           \A i \in 1 .. Len(cells) : cells[i].k \in {"ok", "error", "noise", "part"}
    PROVE  Whole(cells)
BY DEF Whole, IsJob

LEMMA Tuples ==
    ASSUME NEW a \in CellType, NEW b \in CellType, NEW c \in CellType
    PROVE  /\ <<a>> \in Seq(CellType) /\ Len(<<a>>) = 1 /\ <<a>>[1] = a
           /\ <<a, b>> \in Seq(CellType) /\ Len(<<a, b>>) = 2 /\ <<a, b>>[1] = a /\ <<a, b>>[2] = b
           /\ <<a, b, c>> \in Seq(CellType) /\ Len(<<a, b, c>>) = 3
           /\ <<a, b, c>>[1] = a /\ <<a, b, c>>[2] = b /\ <<a, b, c>>[3] = c
<1>1. /\ <<a>> \in Seq(CellType) /\ Len(<<a>>) = 1 /\ <<a>>[1] = a
      /\ <<a, b>> \in Seq(CellType) /\ Len(<<a, b>>) = 2 /\ <<a, b>>[1] = a /\ <<a, b>>[2] = b
  OBVIOUS
<1>2. /\ <<a, b, c>> \in Seq(CellType) /\ Len(<<a, b, c>>) = 3
      /\ <<a, b, c>>[1] = a /\ <<a, b, c>>[2] = b /\ <<a, b, c>>[3] = c
  OBVIOUS
<1> QED
  BY <1>1, <1>2

\* Answers, and no message.
LEMMA OneCell ==
    ASSUME NEW a \in CellType, a.k \in {"ok", "error", "noise", "part"}
    PROVE  <<a>> \in Seq(CellType) /\ Whole(<<a>>)
<1>1. <<a>> \in Seq(CellType) /\ Len(<<a>>) = 1 /\ <<a>>[1] = a
  BY Tuples
<1>2. \A i \in 1 .. Len(<<a>>) : <<a>>[i].k \in {"ok", "error", "noise", "part"}
  BY <1>1
<1> QED
  BY <1>1, <1>2, NoWhole

LEMMA TwoCells ==
    ASSUME NEW a \in CellType, a.k \in {"ok", "error", "noise", "part"},
           NEW b \in CellType, b.k \in {"ok", "error", "noise", "part"}
    PROVE  <<a, b>> \in Seq(CellType) /\ Whole(<<a, b>>)
<1>1. <<a, b>> \in Seq(CellType) /\ Len(<<a, b>>) = 2 /\ <<a, b>>[1] = a /\ <<a, b>>[2] = b
  BY Tuples
<1>2. \A i \in 1 .. Len(<<a, b>>) : <<a, b>>[i].k \in {"ok", "error", "noise", "part"}
  BY <1>1
<1> QED
  BY <1>1, <1>2, NoWhole

\* A message without a job, and what may come behind it.
LEMMA Message ==
    ASSUME NEW a \in CellType, a.k = "head", NEW b \in CellType, b.k \in {"again", "text"},
           NEW c \in CellType, c.k = "noise"
    PROVE  /\ <<a, b>> \in Seq(CellType) /\ Whole(<<a, b>>)
           /\ <<a, b, c>> \in Seq(CellType) /\ Whole(<<a, b, c>>)
<1>1. <<a, b>> \in Seq(CellType) /\ Len(<<a, b>>) = 2 /\ <<a, b>>[1] = a /\ <<a, b>>[2] = b
  BY Tuples
<1>2. /\ <<a, b, c>> \in Seq(CellType) /\ Len(<<a, b, c>>) = 3
      /\ <<a, b, c>>[1] = a /\ <<a, b, c>>[2] = b /\ <<a, b, c>>[3] = c
  BY Tuples
<1>3. Whole(<<a, b>>)
  BY <1>1 DEF Whole, IsJob, Body
<1>4. Whole(<<a, b, c>>)
  BY <1>2 DEF Whole, IsJob, Body
<1> QED
  BY <1>1, <1>2, <1>3, <1>4

\* What the ESP sends, and what else it may change that the buffer's invariants speak of.
LEMMA OutsideSends ==
    ASSUME TypeOK, JobInv, Outside
    PROVE  /\ \E cells \in Seq(CellType) : Sends(cells) /\ Whole(cells)
           /\ heard' \in Seq(Job) /\ Len(heard) \in Nat /\ Len(heard) <= Len(heard')
           /\ Len(heard') <= events' /\ events' \in 0..MaxEvents
           /\ UNCHANGED <<motionVars, buf, length, main, last, placed>>
<1>1. /\ heard \in Seq(Job) /\ Len(heard) \in Nat /\ Len(heard) <= events /\ events \in 0..MaxEvents
      /\ MaxEvents \in Nat
  BY ArmAssumption DEF TypeOK, JobInv
<1>2. /\ Cell("ok") \in CellType /\ Cell("ok").k = "ok"
      /\ Cell("error") \in CellType /\ Cell("error").k = "error"
      /\ Cell("noise") \in CellType /\ Cell("noise").k = "noise"
      /\ Cell("part") \in CellType /\ Cell("part").k = "part"
      /\ Cell("head") \in CellType /\ Cell("head").k = "head"
      /\ Cell("again") \in CellType /\ Cell("again").k = "again"
      /\ Cell("text") \in CellType /\ Cell("text").k = "text"
  BY CellIs DEF Kinds, Ended, Body
<1>3. CASE EspTakes
  <2>1. PICK c \in CellType : c.k \in {"ok", "error"} /\ Sends(<<c>>)
    <3> DEFINE k == IF esp.up THEN "ok" ELSE "error"
    <3>1. k \in {"ok", "error"}
      OBVIOUS
    <3>2. Sends(<<Cell(k)>>)
      BY <1>3 DEF EspTakes
    <3> HIDE DEF k
    <3>3. Cell(k) \in CellType /\ Cell(k).k \in {"ok", "error"}
      BY <1>2, <3>1
    <3> QED
      BY <3>2, <3>3
  <2>2. UNCHANGED <<motionVars, buf, length, main, heard, last, placed, events>>
    BY <1>3 DEF EspTakes
  <2>3. \E cells \in Seq(CellType) : Sends(cells) /\ Whole(cells)
    BY <2>1, OneCell
  <2> QED
    BY <1>1, <2>2, <2>3
<1>4. CASE EspAnswers
  <2>1. \/ Sends(<<Cell("ok"), Cell("part")>>)
        \/ Sends(<<Cell("ok")>>)
        \/ Sends(<<Cell("error")>>)
    BY <1>4 DEF EspAnswers
  <2>2. \E cells \in Seq(CellType) : Sends(cells) /\ Whole(cells)
    BY <1>2, <2>1, OneCell, TwoCells
  <2>3. UNCHANGED <<motionVars, buf, length, main, heard, last, placed, events>>
    BY <1>4 DEF EspAnswers, serviceVars
  <2> QED
    BY <1>1, <2>2, <2>3
<1>5. CASE EspLoses
  <2>1. \E cells \in Seq(CellType) : Sends(cells) /\ Whole(cells)
    BY <1>2, <1>5, OneCell DEF EspLoses
  <2>2. UNCHANGED <<motionVars, buf, length, main, heard, last, placed>>
    BY <1>5 DEF EspLoses, serviceVars
  <2>3. events' = events + 1 /\ events' <= MaxEvents
    BY <1>5 DEF EspLoses, Events
  <2> QED
    BY <1>1, <2>1, <2>2, <2>3
<1>6. CASE \E j \in Job : Orders(j)
  <2>1. PICK j \in Job : Orders(j)
    BY <1>6
  <2> DEFINE job == [k |-> "job", n |-> Len(heard')]
             cells == <<Cell("head"), job>>
  <2>2. heard' \in Seq(Job) /\ Len(heard') = Len(heard) + 1
    BY <1>1, <2>1, AppendProperties DEF Orders
  <2>3. events' = events + 1 /\ events' <= MaxEvents
    BY <2>1 DEF Orders, Events
  <2>4. job \in CellType /\ job.k = "job" /\ job.n = Len(heard) + 1
    BY <1>1, <2>2, <2>3 DEF CellType, Kinds, Ended, Body
  <2>5. Sends(cells)
    BY <2>1 DEF Orders
  <2> HIDE DEF job
  <2>6. cells \in Seq(CellType) /\ Len(cells) = 2 /\ cells[1] = Cell("head") /\ cells[2] = job
    BY <1>2, <2>4
  <2> HIDE DEF cells
  <2>7. Whole(cells)
    BY <1>2, <2>2, <2>4, <2>6 DEF Whole, IsJob, Body
  <2> QED
    BY <1>1, <2>1, <2>2, <2>3, <2>5, <2>6, <2>7 DEF Orders
<1>7. CASE \E k \in {"again", "text"} : Says(k)
  <2>1. PICK k \in {"again", "text"} : Says(k)
    BY <1>7
  <2>2. Cell(k) \in CellType /\ Cell(k).k \in {"again", "text"}
    BY <1>2, <2>1
  <2>3. Sends(<<Cell("head"), Cell(k)>>) \/ Sends(<<Cell("head"), Cell(k), Cell("noise")>>)
    BY <2>1 DEF Says
  <2>4. \E cells \in Seq(CellType) : Sends(cells) /\ Whole(cells)
    BY <1>2, <2>2, <2>3, Message
  <2>5. UNCHANGED <<motionVars, buf, length, main, heard, last, placed>>
    BY <2>1 DEF Says, serviceVars
  <2>6. events' = events + 1 /\ events' <= MaxEvents
    BY <2>1 DEF Says, Events
  <2> QED
    BY <1>1, <2>4, <2>5, <2>6
<1> QED
  BY <1>3, <1>4, <1>5, <1>6, <1>7 DEF Outside

\* The receive interrupt takes a cell, or tears it if the buffer is being cleared.
Stores(c) ==
    \/ /\ length < Cap /\ length' = length + 1 /\ buf'[length + 1] = c
       /\ \A i \in 1..Cap : i # length + 1 => buf'[i] = buf[i]
    \/ length = Cap /\ UNCHANGED <<buf, length>>

LEMMA StoresIs ==
    ASSUME TypeOK, NEW c \in CellType,
           IF length < Cap THEN buf' = [buf EXCEPT ![length + 1] = c] /\ length' = length + 1
                           ELSE UNCHANGED <<buf, length>>
    PROVE  Stores(c) /\ buf' \in [1..Cap -> CellType \cup {Nul}] /\ length' \in 0..Cap
<1>1. /\ buf \in [1..Cap -> CellType \cup {Nul}] /\ length \in 0..Cap /\ Cap \in Nat
  BY ArmAssumption DEF TypeOK
<1>2. CASE length < Cap
  <2>1. length + 1 \in 1..Cap /\ length + 1 \in 0..Cap
    BY <1>1, <1>2
  <2>2. buf' = [buf EXCEPT ![length + 1] = c] /\ length' = length + 1
    BY <1>2
  <2>3. buf' \in [1..Cap -> CellType \cup {Nul}]
    BY <1>1, <2>1, <2>2
  <2>4. buf'[length + 1] = c /\ \A i \in 1..Cap : i # length + 1 => buf'[i] = buf[i]
    BY <1>1, <2>1, <2>2
  <2> QED
    BY <1>2, <2>1, <2>2, <2>3, <2>4 DEF Stores
<1>3. CASE ~(length < Cap)
  BY <1>1, <1>3 DEF Stores
<1> QED
  BY <1>2, <1>3

LEMMA InterruptIs ==
    ASSUME TypeOK, Interrupt
    PROVE  /\ uart # <<>> /\ uart[1] \in CellType /\ Len(uart) \in Nat \ {0}
           /\ uart' \in Seq(CellType) /\ length' \in 0..Cap
           /\ buf' \in [1..Cap -> CellType \cup {Nul}]
           /\ UNCHANGED <<motionVars, main, esp, serviceVars, events>>
           /\ \/ /\ Clearing /\ Stores(Cell("part")) /\ Len(uart') = Len(uart)
                 /\ uart'[1] = Torn(uart[1]) /\ \A i \in 2 .. Len(uart) : uart'[i] = uart[i]
              \/ /\ ~Clearing /\ Stores(uart[1]) /\ Len(uart') = Len(uart) - 1
                 /\ \A i \in 1 .. Len(uart) - 1 : uart'[i] = uart[i + 1]
<1>1. uart \in Seq(CellType) /\ uart # <<>> /\ UNCHANGED <<motionVars, main, esp, serviceVars, events>>
  BY DEF TypeOK, Interrupt
<1>2. /\ uart[1] \in CellType /\ Len(uart) \in Nat \ {0} /\ Head(uart) = uart[1]
      /\ Tail(uart) \in Seq(CellType) /\ Len(Tail(uart)) = Len(uart) - 1
      /\ \A i \in 1 .. Len(uart) - 1 : Tail(uart)[i] = uart[i + 1]
  <2>1. /\ Head(uart) \in CellType /\ Tail(uart) \in Seq(CellType) /\ Len(Tail(uart)) = Len(uart) - 1
        /\ \A i \in 1 .. Len(Tail(uart)) : Tail(uart)[i] = uart[i + 1]
    BY <1>1, HeadTailProperties
  <2>2. Head(uart) = uart[1] /\ Len(uart) \in Nat \ {0}
    BY <1>1, EmptySeq
  <2> QED
    BY <2>1, <2>2
<1>3. CASE Clearing
  <2> DEFINE t == Torn(uart[1])
  <2>1. t \in CellType /\ Cell("part") \in CellType
    BY TornIs, CellIs DEF Kinds
  <2>2. /\ uart' = <<Torn(Head(uart))>> \o Tail(uart)
        /\ IF length < Cap THEN buf' = [buf EXCEPT ![length + 1] = Cell("part")] /\ length' = length + 1
                           ELSE UNCHANGED <<buf, length>>
    BY <1>3 DEF Interrupt
  <2>3. /\ Stores(Cell("part")) /\ buf' \in [1..Cap -> CellType \cup {Nul}] /\ length' \in 0..Cap
    BY <2>1, <2>2, StoresIs
  <2>4. uart' = <<t>> \o Tail(uart)
    BY <1>2, <2>2
  <2> HIDE DEF t
  <2>5. <<t>> \in Seq(CellType) /\ Len(<<t>>) = 1 /\ <<t>>[1] = t
    BY <2>1
  <2>6. /\ uart' \in Seq(CellType) /\ Len(uart') = 1 + (Len(uart) - 1)
        /\ \A i \in 1 .. 1 + (Len(uart) - 1) :
             uart'[i] = IF i <= 1 THEN <<t>>[i] ELSE Tail(uart)[i - 1]
    BY <1>2, <2>4, <2>5, ConcatProperties
  <2>7. Len(uart') = Len(uart) /\ uart'[1] = t
    BY <1>2, <2>5, <2>6
  <2>8. \A i \in 2 .. Len(uart) : uart'[i] = uart[i]
    <3>1. SUFFICES ASSUME NEW i \in 2 .. Len(uart) PROVE uart'[i] = uart[i]
      OBVIOUS
    <3>2. i \in 1 .. 1 + (Len(uart) - 1) /\ ~(i <= 1) /\ i - 1 \in 1 .. Len(uart) - 1 /\ i - 1 + 1 = i
      BY <1>2, <3>1
    <3> QED
      BY <1>2, <2>6, <3>2
  <2> QED
    BY <1>1, <1>2, <1>3, <2>3, <2>6, <2>7, <2>8 DEF t
<1>4. CASE ~Clearing
  <2>1. /\ uart' = Tail(uart)
        /\ IF length < Cap THEN buf' = [buf EXCEPT ![length + 1] = uart[1]] /\ length' = length + 1
                           ELSE UNCHANGED <<buf, length>>
    BY <1>2, <1>4 DEF Interrupt
  <2>2. /\ Stores(uart[1]) /\ buf' \in [1..Cap -> CellType \cup {Nul}] /\ length' \in 0..Cap
    BY <1>2, <2>1, StoresIs
  <2> QED
    BY <1>1, <1>2, <1>4, <2>1, <2>2
<1> QED
  BY <1>3, <1>4

-----------------------------------------------------------------------------
(* Type correctness *)

\* The message esp_event looks at.
LEMMA EventIs ==
    ASSUME TypeOK, StrInv, Event
    PROVE  /\ main.pc = "event" /\ main.str # <<>> /\ main.str[1] \in CellType
           /\ main.str[1].n \in 0..MaxEvents
           /\ \/ /\ IsJob(main.str[1]) /\ Given(main.str[1]) /\ last' = main.str[1].n
                 /\ main' = At("cipsend", [job |-> main.str[1].n, done |-> FALSE], "grip")
              \/ main' = At("cipstart", NoReport, "buttons") /\ UNCHANGED last
              \/ Finish /\ UNCHANGED last
           /\ UNCHANGED <<motionVars, buf, length, uart, esp, heard, said, placed, events>>
<1>1. main.str \in Seq(CellType) /\ main.pc = "event"
  BY DEF TypeOK, Event
<1>2. main.str # <<>> /\ (IsJob(main.str[1]) => Given(main.str[1]))
  BY <1>1 DEF StrInv
<1>3. main.str[1] \in CellType
  <2>1. 1 \in 1 .. Len(main.str)
    BY <1>1, <1>2, EmptySeq
  <2> QED
    BY <1>1, <2>1, ElementOfSeq
<1>4. main.str[1].n \in 0..MaxEvents
  BY <1>3 DEF CellType
<1>5. \/ /\ IsJob(main.str[1]) /\ last' = main.str[1].n
         /\ main' = At("cipsend", [job |-> main.str[1].n, done |-> FALSE], "grip")
      \/ main' = At("cipstart", NoReport, "buttons") /\ UNCHANGED last
      \/ Finish /\ UNCHANGED last
  BY DEF Event, IsJob
<1>6. UNCHANGED <<motionVars, buf, length, uart, esp, heard, said, placed, events>>
  BY DEF Event
<1> QED
  BY <1>1, <1>2, <1>3, <1>4, <1>5, <1>6

LEMMA MainIs ==
    ASSUME TypeOK, StrInv, Main
    PROVE  main' \in MainType
<1>1. main \in MainType /\ last \in 0..Len(heard) /\ Len(heard) <= MaxEvents /\ Len(heard) \in Nat
  BY DEF TypeOK, MainType
<1>2. /\ {"buttons", "copy", "zero", "event", "at_zero", "at_send", "at_wait", "gripping", "placing",
          "loop"} \subseteq Pcs
      /\ {"cipsend", "cipstart"} \subseteq Commands
  BY DEF Pcs, Commands
<1>3. CASE Check \/ Wipe \/ Zero \/ AtWipe \/ AtZero \/ AtSend
  <2>1. \E pc \in Pcs : Go(pc)
    BY <1>2, <1>3 DEF Check, Wipe, Zero, AtWipe, AtZero, AtSend
  <2> QED
    BY <1>1, <2>1, GoIs
<1>4. CASE Copy
  BY <1>4, CopyIs
<1>5. CASE Event
  <2>1. [job |-> main.str[1].n, done |-> FALSE] \in ReportType
    BY <1>5, EventIs DEF ReportType
  <2>2. Finish => main' \in MainType
    BY <1>2, IdleIs DEF Finish
  <2> QED
    BY <1>1, <1>2, <1>5, <2>1, <2>2, EventIs, AtIs, NoReportType
<1>6. CASE Grip \/ Gripped
  <2>1. Finish => main' \in MainType
    BY <1>2, IdleIs DEF Finish
  <2> QED
    BY <1>1, <1>2, <1>6, <2>1, GoIs DEF Grip, Gripped
<1>7. CASE Placed
  <2>1. [job |-> last, done |-> TRUE] \in ReportType
    BY <1>1, ArmAssumption DEF ReportType
  <2> QED
    BY <1>1, <1>2, <1>7, <2>1, AtIs DEF Placed
<1>8. CASE Buttons
  <2>1. PICK todo \in SUBSET ({GripPlace} \cup Range(ColorPlace)) :
          main' = [main EXCEPT !.pc = "manual", !.todo = todo]
    BY <1>8 DEF Buttons
  <2>2. todo \in SUBSET Place
    BY ArmAssumption DEF Range
  <2> QED
    BY <1>1, <2>1, <2>2 DEF MainType, Pcs
<1>9. CASE Manual
  <2>1. CASE Go("loop")
    BY <1>1, <1>2, <2>1, GoIs
  <2>2. CASE \E p \in main.todo : main' = [main EXCEPT !.todo = @ \ {p}]
    BY <1>1, <2>2 DEF MainType
  <2> QED
    BY <1>9, <2>1, <2>2 DEF Manual
<1>10. CASE Moving
  BY <1>1, <1>10 DEF Moving
<1>11. CASE AtReturns
  BY <1>1, <1>11, ReturnIs DEF AtReturns
<1> QED
  BY <1>3, <1>4, <1>5, <1>6, <1>7, <1>8, <1>9, <1>10, <1>11 DEF Main

\* Main's effect on what it shares with the interrupt and the ESP.
LEMMA MainShares ==
    ASSUME Main
    PROVE  /\ UNCHANGED <<uart, heard, said>>
           /\ buf' = buf \/ ((Wipe \/ AtWipe) /\ buf' = Blank)
           /\ length' = length \/ ((Zero \/ AtZero) /\ length' = 0)
           /\ esp' = esp \/ AtSend
           /\ last' = last \/ Event
           /\ placed' = placed \/ (Placed /\ placed' = placed \cup {last})
           /\ events' = events \/ Buttons
<1>1. CASE Check \/ Copy \/ Grip \/ Gripped \/ Manual \/ Moving \/ AtReturns
  BY <1>1 DEF Check, Copy, Grip, Gripped, Manual, Moving, AtReturns, serviceVars
<1>2. CASE Wipe \/ Zero \/ AtWipe \/ AtZero \/ AtSend
  BY <1>2 DEF Wipe, Zero, AtWipe, AtZero, AtSend, serviceVars
<1>3. CASE Event \/ Placed \/ Buttons
  BY <1>3 DEF Event, Placed, Buttons, serviceVars
<1> QED
  BY <1>1, <1>2, <1>3 DEF Main

LEMMA EspIs ==
    ASSUME TypeOK, Outside
    PROVE  esp' \in EspType /\ said' \in Seq(ReportType)
<1>1. esp \in EspType /\ said \in Seq(ReportType) /\ esp.text \in ReportType /\ NoReport \in ReportType
  BY NoReportType DEF TypeOK, EspType
<1>2. CASE EspTakes
  <2>1. esp' \in EspType
    BY <1>1, <1>2 DEF EspTakes, EspType, Commands
  <2>2. said' = said \/ said' = Append(said, esp.text)
    BY <1>2 DEF EspTakes
  <2> QED
    BY <1>1, <2>1, <2>2, AppendProperties
<1>3. CASE EspAnswers
  <2>1. said' = said /\ esp' \in EspType
    BY <1>1, <1>3 DEF EspAnswers, EspType, Commands, serviceVars
  <2> QED
    BY <1>1, <2>1
<1>4. CASE EspLoses
  BY <1>1, <1>4 DEF EspLoses, EspType, serviceVars
<1>5. CASE \E j \in Job : Orders(j)
  BY <1>1, <1>5 DEF Orders
<1>6. CASE \E k \in {"again", "text"} : Says(k)
  BY <1>1, <1>6 DEF Says, EspType, serviceVars
<1> QED
  BY <1>2, <1>3, <1>4, <1>5, <1>6 DEF Outside

LEMMA SendType ==
    ASSUME TypeOK, AtSend
    PROVE  esp' \in EspType
BY DEF TypeOK, AtSend, EspType

LEMMA ButtonsType ==
    ASSUME TypeOK, Buttons
    PROVE  events' \in 0..MaxEvents /\ events <= events'
<1>1. events \in 0..MaxEvents /\ MaxEvents \in Nat
  BY ArmAssumption DEF TypeOK
<1>2. PICK todo \in SUBSET ({GripPlace} \cup Range(ColorPlace)) : Events(Cardinality(todo))
  BY DEF Buttons
<1>3. IsFiniteSet(Range(ColorPlace))
  <2>1. ColorPlace \in Surjection(Color, Range(ColorPlace))
    BY ArmAssumption DEF Surjection, Range, Color
  <2> QED
    BY <2>1, ArmAssumption, FS_Surjection
<1>4. IsFiniteSet({GripPlace} \cup Range(ColorPlace))
  BY <1>3, FS_Singleton, FS_Union
<1>5. Cardinality(todo) \in Nat
  BY <1>2, <1>4, FS_Subset, FS_CardinalityType
<1> QED
  BY <1>1, <1>2, <1>5 DEF Events

LEMMA TypeStep ==
    ASSUME TypeOK, PulsesInv, JobInv, StrInv, SaidInv, [Next]_vars
    PROVE  TypeOK'
<1>1. MotionTypeOK'
  BY Moves
<1>2. /\ buf \in [1..Cap -> CellType \cup {Nul}] /\ length \in 0..Cap /\ uart \in Seq(CellType)
      /\ main \in MainType /\ esp \in EspType
      /\ heard \in Seq(Job) /\ Len(heard) \in Nat /\ Len(heard) <= MaxEvents
      /\ said \in Seq(ReportType) /\ last \in 0..Len(heard) /\ placed \subseteq 1..last
      /\ events \in 0..MaxEvents
  BY DEF TypeOK, MainType, EspType
<1> USE DEF MainType, EspType
<1>3. CASE Main
  <2>1. main' \in MainType
    BY <1>3, MainIs
  <2>2. buf' \in [1..Cap -> CellType \cup {Nul}] /\ length' \in 0..Cap
    <3>1. Blank \in [1..Cap -> CellType \cup {Nul}] /\ 0 \in 0..Cap
      BY ArmAssumption DEF Blank
    <3> QED
      BY <1>2, <1>3, <3>1, MainShares
  <2>3. esp' \in EspType
    BY <1>2, <1>3, MainShares, SendType
  <2>4. events' \in 0..MaxEvents
    BY <1>2, <1>3, MainShares, ButtonsType
  <2>5. last' \in 0..Len(heard) /\ last <= last'
    <3>1. CASE Event
      BY <1>2, <3>1, EventIs DEF Given
    <3> QED
      BY <1>2, <1>3, <3>1, MainShares
  <2>6. placed' \subseteq 1..last'
    <3>1. CASE Placed
      <4>1. last > 0
        <5>1. main.pc = "placing"
          BY <3>1 DEF Placed
        <5>2. Stage = "gripped"
          BY <5>1 DEF Stage
        <5> QED
          BY <5>2 DEF SaidInv
      <4>2. last' = last /\ placed' = placed \cup {last}
        BY <3>1 DEF Placed
      <4> QED
        BY <1>2, <4>1, <4>2
    <3>2. CASE placed' = placed
      <4>1. 1..last \subseteq 1..last'
        BY <1>2, <2>5
      <4> QED
        BY <1>2, <3>2, <4>1
    <3> QED
      BY <1>3, <3>1, <3>2, MainShares
  <2>7. UNCHANGED <<uart, heard, said>>
    BY <1>3, MainShares
  <2> QED
    BY <1>1, <1>2, <2>1, <2>2, <2>3, <2>4, <2>5, <2>6, <2>7 DEF TypeOK
<1>4. CASE Interrupt
  BY <1>1, <1>2, <1>4, InterruptIs DEF TypeOK, serviceVars
<1>5. CASE Outside
  <2>1. /\ \E cells \in Seq(CellType) : Sends(cells)
        /\ heard' \in Seq(Job) /\ Len(heard') \in Nat /\ Len(heard) <= Len(heard')
        /\ Len(heard') <= events' /\ events' \in 0..MaxEvents
        /\ UNCHANGED <<motionVars, buf, length, main, last, placed>>
    BY <1>5, OutsideSends
  <2>2. uart' \in Seq(CellType)
    BY <1>2, <2>1, SendsIs
  <2>3. esp' \in EspType /\ said' \in Seq(ReportType)
    BY <1>5, EspIs
  <2>4. Len(heard') <= MaxEvents /\ last' \in 0..Len(heard') /\ placed' \subseteq 1..last'
    BY <1>2, <2>1, ArmAssumption
  <2> QED
    BY <1>1, <1>2, <2>1, <2>2, <2>3, <2>4 DEF TypeOK
<1>6. CASE UNCHANGED vars
  BY <1>1, <1>2, <1>6 DEF TypeOK, vars, serviceVars
<1> QED
  BY <1>3, <1>4, <1>5, <1>6 DEF Next

-----------------------------------------------------------------------------
(* The buffer *)

Loud == {"copy", "wipe", "zero", "event", "at_zero"}

\* The main loop, as the buffer sees it.
LEMMA MainSteps ==
    ASSUME TypeOK, StrInv, Main
    PROVE  \/ /\ ~Clearing /\ main'.pc \in {"zero", "at_zero"} /\ buf' = Blank /\ length' = length
              /\ main'.pc = "zero" => main.pc = "wipe" /\ main'.str = main.str
              /\ UNCHANGED last
           \/ /\ Clearing /\ main'.pc \in {"event", "at_send"} /\ buf' = buf /\ length' = 0
              /\ main'.pc = "event" => main.pc = "zero" /\ main'.str = main.str
              /\ UNCHANGED last
           \/ Check /\ main.pc = "loop" /\ main'.pc = "copy" /\ Ready /\ UNCHANGED <<buf, length, last>>
           \/ Copy /\ main.pc = "copy" /\ main'.pc \in {"wipe", "wild"} /\ UNCHANGED <<buf, length, last>>
           \/ Event /\ main.pc = "event" /\ main'.pc \notin Loud /\ UNCHANGED <<buf, length>>
           \/ main.pc \notin Loud /\ main'.pc \notin Loud /\ UNCHANGED <<buf, length, last>>
<1>1. main \in MainType
  BY DEF TypeOK, MainType
<1>2. {"copy", "buttons", "zero", "event", "at_zero", "at_send", "at_wait", "gripping", "placing", "loop"}
        \subseteq Pcs
  BY DEF Pcs
<1>3. CASE Wipe \/ AtWipe
  <2>1. \/ main.pc = "wipe" /\ Go("zero")
        \/ main.pc = "at_wipe" /\ Go("at_zero")
    BY <1>3 DEF Wipe, AtWipe
  <2>2. buf' = Blank /\ length' = length /\ last' = last
    BY <1>3 DEF Wipe, AtWipe, serviceVars
  <2> QED
    BY <1>1, <1>2, <2>1, <2>2, GoIs DEF Clearing
<1>4. CASE Zero \/ AtZero
  <2>1. \/ main.pc = "zero" /\ Go("event")
        \/ main.pc = "at_zero" /\ Go("at_send")
    BY <1>4 DEF Zero, AtZero
  <2>2. buf' = buf /\ length' = 0 /\ last' = last
    BY <1>4 DEF Zero, AtZero, serviceVars
  <2> QED
    BY <1>1, <1>2, <2>1, <2>2, GoIs DEF Clearing
<1>5. CASE Check
  <2>1. main.pc = "loop" /\ UNCHANGED <<buf, length, last>>
    BY <1>5 DEF Check, serviceVars
  <2>2. (Ready /\ Go("copy")) \/ Go("buttons")
    BY <1>5 DEF Check
  <2> QED
    BY <1>1, <1>2, <1>5, <2>1, <2>2, GoIs DEF Loud
<1>6. CASE Copy
  <2>1. main.pc = "copy" /\ UNCHANGED <<buf, length, last>>
    BY <1>6 DEF Copy, serviceVars
  <2> QED
    BY <1>6, <2>1, CopyIs
<1>7. CASE Event
  <2>1. Finish => main'.pc = "buttons"
    BY <1>2, IdleIs DEF Finish
  <2>2. main'.pc \in {"at_wipe", "buttons"}
    <3>1. [job |-> main.str[1].n, done |-> FALSE] \in ReportType
      BY <1>7, EventIs DEF ReportType
    <3>2. {"cipsend", "cipstart"} \subseteq Commands
      BY DEF Commands
    <3> QED
      BY <1>1, <1>7, <2>1, <3>1, <3>2, EventIs, AtIs, NoReportType
  <2> QED
    BY <1>7, <2>2, EventIs DEF Loud
<1>8. CASE Grip \/ Gripped \/ Placed \/ Buttons \/ Manual \/ Moving \/ AtSend \/ AtReturns
  <2>1. UNCHANGED <<buf, length, last>>
    BY <1>8 DEF Grip, Gripped, Placed, Buttons, Manual, Moving, AtSend, AtReturns, serviceVars
  <2>2. main.pc \in {"grip", "gripping", "placing", "buttons", "manual", "at_send", "at_wait"}
    BY <1>8 DEF Grip, Gripped, Placed, Buttons, Manual, Moving, AtSend, AtReturns
  <2>3. main'.pc \in {"gripping", "placing", "buttons", "manual", "loop", "at_wipe", "at_wait", "grip"}
    <3>1. CASE Grip \/ Gripped
      <4>1. Finish => main'.pc = "buttons"
        BY <1>2, IdleIs DEF Finish
      <4> QED
        BY <1>1, <1>2, <3>1, <4>1, GoIs DEF Grip, Gripped
    <3>2. CASE Placed
      <4>1. [job |-> last, done |-> TRUE] \in ReportType /\ "cipsend" \in Commands
        BY ArmAssumption DEF ReportType, Commands, TypeOK
      <4> QED
        BY <1>1, <3>2, <4>1, AtIs DEF Placed
    <3>3. CASE Buttons \/ Manual \/ Moving
      BY <1>1, <1>2, <3>3, GoIs DEF Buttons, Manual, Moving, MainType
    <3>4. CASE AtSend
      BY <1>1, <1>2, <3>4, GoIs DEF AtSend
    <3>5. CASE AtReturns
      BY <1>1, <3>5, ReturnIs DEF AtReturns
    <3> QED
      BY <1>8, <3>1, <3>2, <3>3, <3>4, <3>5
  <2> QED
    BY <2>1, <2>2, <2>3 DEF Loud
<1> QED
  BY <1>3, <1>4, <1>5, <1>6, <1>7, <1>8 DEF Main

\* A "+IPD" in a buffer that ends in a newline is followed by its message.
LEMMA ReadyHasBody ==
    ASSUME TypeOK, BufferInv, HeadInv, ~Clearing, Ready
    PROVE  \E i \in 1..length : buf[i].k \in Body
<1>1. length \in 1..Cap /\ Cap \in Nat /\ buf[length].k \in Ended
  BY ArmAssumption DEF TypeOK, Ready
<1>2. PICK e \in 0..Cap : DOMAIN Visible = 1..e /\ \A i \in 1..e : Visible[i] = buf[i]
  BY VisibleIs
<1>3. PICK h \in 1..e : Visible[h].k = "head"
  BY <1>2 DEF Ready, Sees
<1>4. h \in 1..Cap /\ buf[h].k = "head"
  BY <1>1, <1>2, <1>3
<1>5. h \in 1..length
  BY <1>1, <1>4, NulIs DEF BufferInv
<1>6. h # length
  BY <1>1, <1>4 DEF Ended, Body
<1>7. h < length /\ buf[h + 1].k \in Body
  BY <1>1, <1>4, <1>5, <1>6 DEF HeadInv
<1> QED
  BY <1>1, <1>5, <1>7

LEMMA BufferStep ==
    ASSUME TypeOK, BufferInv, HeadInv, StrInv, JobInv, [Next]_vars
    PROVE  BufferInv'
<1>1. length \in 0..Cap /\ Cap \in Nat /\ buf \in [1..Cap -> CellType \cup {Nul}]
  BY ArmAssumption DEF TypeOK
<1>2. CASE Main
  <2>1. CASE ~Clearing /\ main'.pc \in {"zero", "at_zero"} /\ buf' = Blank
    BY <2>1 DEF BufferInv, Clearing, Blank
  <2>2. CASE Clearing /\ main'.pc \in {"event", "at_send"} /\ buf' = buf /\ length' = 0
    BY <1>1, <2>2 DEF BufferInv, Clearing
  <2>3. CASE main.pc = "loop" /\ main'.pc = "copy" /\ Ready /\ UNCHANGED <<buf, length>>
    <3>1. ~Clearing /\ ~Clearing'
      BY <2>3 DEF Clearing
    <3>2. \E i \in 1..length : buf[i].k \in Body
      BY <2>3, <3>1, ReadyHasBody
    <3> QED
      BY <2>3, <3>1, <3>2 DEF BufferInv
  <2>4. CASE ~Clearing /\ ~Clearing' /\ main'.pc # "copy" /\ UNCHANGED <<buf, length>>
    BY <2>4 DEF BufferInv
  <2> QED
    BY <1>2, <2>1, <2>2, <2>3, <2>4, MainSteps DEF Clearing, Loud
<1>3. CASE Interrupt
  <2>1. (Clearing' <=> Clearing) /\ main' = main
    BY <1>3, InterruptIs DEF Clearing
  <2>2. CASE Clearing
    <3>1. Stores(Cell("part")) /\ Cell("part").k = "part"
      BY <1>3, <2>2, InterruptIs, CellIs DEF Kinds
    <3>2. \A i \in 1..Cap : buf'[i] = Nul \/ buf'[i].k = "part"
      BY <1>1, <2>2, <3>1 DEF Stores, BufferInv
    <3>3. main.pc # "copy"
      BY <2>2 DEF Clearing
    <3> QED
      BY <2>1, <2>2, <3>2, <3>3 DEF BufferInv
  <2>3. CASE ~Clearing
    <3>1. Stores(uart[1]) /\ uart[1] # Nul
      BY <1>3, <2>3, InterruptIs, NulIs
    <3>2. CASE length = Cap /\ UNCHANGED <<buf, length>>
      BY <2>1, <3>2 DEF BufferInv
    <3>3. CASE /\ length < Cap /\ length' = length + 1 /\ buf'[length + 1] = uart[1]
               /\ \A i \in 1..Cap : i # length + 1 => buf'[i] = buf[i]
      <4>1. \A i \in 1..Cap : i > length' => buf'[i] = Nul \/ buf'[i].k = "part"
        BY <1>1, <3>3 DEF BufferInv
      <4>2. \A i \in 1..length' : buf'[i] # Nul
        <5>1. \A i \in 1..length : i \in 1..Cap /\ i # length + 1 /\ buf[i] # Nul
          BY <1>1, <2>3 DEF BufferInv
        <5>2. \A i \in 1..length' : i \in 1..length \/ i = length + 1
          BY <1>1, <3>3
        <5> QED
          BY <3>1, <3>3, <5>1, <5>2
      <4>3. main.pc = "copy" => \E i \in 1..length' : buf'[i].k \in Body
        <5>1. SUFFICES ASSUME main.pc = "copy" PROVE \E i \in 1..length' : buf'[i].k \in Body
          OBVIOUS
        <5>2. PICK i \in 1..length : buf[i].k \in Body
          BY <5>1 DEF BufferInv
        <5>3. i \in 1..Cap /\ i # length + 1 /\ i \in 1..length'
          BY <1>1, <3>3
        <5> QED
          BY <3>3, <5>2, <5>3
      <4> QED
        BY <2>1, <2>3, <4>1, <4>2, <4>3 DEF BufferInv
    <3> QED
      BY <3>1, <3>2, <3>3 DEF Stores
  <2> QED
    BY <2>2, <2>3
<1>4. CASE UNCHANGED <<buf, length, main>>
  BY <1>4 DEF BufferInv, Clearing
<1>5. CASE Outside
  BY <1>4, <1>5, OutsideSends
<1>6. CASE UNCHANGED vars
  BY <1>4, <1>6 DEF vars
<1> QED
  BY <1>2, <1>3, <1>5, <1>6 DEF Next

\* While the buffer is cleared there is neither a "+IPD" nor a job in it.
LEMMA ClearedIsEmpty ==
    ASSUME BufferInv, Clearing, NEW i \in 1..Cap
    PROVE  buf[i].k # "head" /\ ~IsJob(buf[i])
BY NulIs DEF BufferInv, IsJob

LEMMA HeadStep ==
    ASSUME TypeOK, BufferInv, HeadInv, StrInv, JobInv, [Next]_vars
    PROVE  HeadInv'
<1>1. /\ length \in 0..Cap /\ Cap \in Nat /\ buf \in [1..Cap -> CellType \cup {Nul}]
      /\ uart \in Seq(CellType) /\ DOMAIN uart = 1 .. Len(uart) /\ Len(uart) \in Nat
  BY ArmAssumption, LenProperties DEF TypeOK
<1>2. TypeOK /\ BufferInv'
  BY BufferStep
<1>3. ASSUME Clearing', length' \in 0..Cap, NEW i \in 1..length' PROVE buf'[i].k # "head"
  <2>1. i \in 1..Cap
    BY <1>1, <1>3
  <2> QED
    BY <1>2, <1>3, <2>1, NulIs DEF BufferInv
<1>4. CASE Main
  <2>1. uart' = uart
    BY <1>4, MainShares
  <2>2. CASE Clearing' /\ length' = length
    BY <1>1, <1>3, <2>1, <2>2 DEF HeadInv
  <2>3. CASE length' = 0
    BY <2>1, <2>3 DEF HeadInv
  <2>4. CASE UNCHANGED <<buf, length>>
    BY <2>1, <2>4 DEF HeadInv
  <2> QED
    BY <1>4, <2>2, <2>3, <2>4, MainSteps DEF Clearing
<1>5. CASE Interrupt
  <2>1. uart' \in Seq(CellType) /\ length' \in 0..Cap /\ main' = main /\ Len(uart) \in Nat \ {0}
    BY <1>5, InterruptIs
  <2>2. DOMAIN uart' = 1 .. Len(uart') /\ Len(uart') \in Nat
    BY <2>1, LenProperties
  <2>3. CASE Clearing
    <3>1. /\ Len(uart') = Len(uart) /\ uart'[1].k # "head"
          /\ \A i \in 2 .. Len(uart) : uart'[i] = uart[i]
      BY <1>5, <2>3, InterruptIs, TornIs
    <3>2. ASSUME NEW i \in 1 .. Len(uart), uart'[i].k = "head"
          PROVE  i < Len(uart) /\ uart'[i + 1].k \in Body
      <4>1. i \in 2 .. Len(uart)
        BY <2>1, <3>1, <3>2
      <4>2. i < Len(uart) /\ uart[i + 1].k \in Body
        BY <1>1, <3>1, <3>2, <4>1 DEF HeadInv
      <4>3. i + 1 \in 2 .. Len(uart)
        BY <2>1, <4>1, <4>2
      <4> QED
        BY <3>1, <4>2, <4>3
    <3>3. \A i \in 1..length' : buf'[i].k # "head"
      BY <1>3, <2>1, <2>3 DEF Clearing
    <3> QED
      BY <2>2, <3>1, <3>2, <3>3 DEF HeadInv
  <2>4. CASE ~Clearing
    <3>1. /\ Stores(uart[1]) /\ Len(uart') = Len(uart) - 1
          /\ \A i \in 1 .. Len(uart) - 1 : uart'[i] = uart[i + 1]
      BY <1>5, <2>4, InterruptIs
    <3>2. ASSUME NEW i \in 1 .. Len(uart'), uart'[i].k = "head"
          PROVE  i < Len(uart') /\ uart'[i + 1].k \in Body
      <4>1. i \in 1 .. Len(uart) - 1 /\ i + 1 \in 1 .. Len(uart)
        BY <2>1, <3>1, <3>2
      <4>2. i + 1 < Len(uart) /\ uart[i + 1 + 1].k \in Body
        BY <1>1, <3>1, <3>2, <4>1 DEF HeadInv
      <4>3. i + 1 \in 1 .. Len(uart) - 1 /\ i < Len(uart')
        BY <2>1, <3>1, <4>1, <4>2
      <4> QED
        BY <3>1, <4>2, <4>3
    <3>3. ASSUME NEW i \in 1..length', buf'[i].k = "head"
          PROVE  \/ i < length' /\ buf'[i + 1].k \in Body
                 \/ i = length' /\ uart' # <<>> /\ uart'[1].k \in Body
                 \/ i = Cap
      <4>1. CASE length = Cap /\ UNCHANGED <<buf, length>>
        BY <1>1, <3>3, <4>1 DEF HeadInv
      <4>2. CASE /\ length < Cap /\ length' = length + 1 /\ buf'[length + 1] = uart[1]
                 /\ \A j \in 1..Cap : j # length + 1 => buf'[j] = buf[j]
        <5>1. CASE i = length + 1
          <6>1. 1 \in 1 .. Len(uart) /\ uart[1].k = "head"
            BY <2>1, <3>3, <4>2, <5>1
          <6>2. 1 < Len(uart) /\ uart[1 + 1].k \in Body
            BY <1>1, <6>1 DEF HeadInv
          <6>3. 1 \in 1 .. Len(uart) - 1 /\ uart' # <<>>
            BY <2>1, <3>1, <6>2
          <6> QED
            BY <3>1, <4>2, <5>1, <6>2, <6>3
        <5>2. CASE i # length + 1
          <6>1. i \in 1..length /\ i \in 1..Cap
            BY <1>1, <4>2, <5>2
          <6>2. buf[i].k = "head"
            BY <3>3, <4>2, <5>2, <6>1
          <6>3. CASE i < length
            <7>1. buf[i + 1].k \in Body /\ i + 1 \in 1..Cap /\ i + 1 # length + 1
              BY <1>1, <4>2, <6>1, <6>2, <6>3 DEF HeadInv
            <7>2. i < length' /\ buf'[i + 1] = buf[i + 1]
              BY <1>1, <4>2, <6>1, <6>3, <7>1
            <7> QED
              BY <7>1, <7>2
          <6>4. CASE i = length
            <7>1. uart[1].k \in Body
              BY <1>1, <4>2, <6>1, <6>2, <6>4 DEF HeadInv
            <7> QED
              BY <1>1, <4>2, <6>4, <7>1
          <6> QED
            BY <1>1, <6>1, <6>3, <6>4
        <5> QED
          BY <5>1, <5>2
      <4> QED
        BY <3>1, <4>1, <4>2 DEF Stores
    <3> QED
      BY <2>2, <3>2, <3>3 DEF HeadInv
  <2> QED
    BY <2>3, <2>4
<1>6. CASE Outside
  <2>1. PICK cells \in Seq(CellType) : Sends(cells) /\ Whole(cells)
    BY <1>6, OutsideSends
  <2>2. UNCHANGED <<buf, length>>
    BY <1>6, OutsideSends
  <2>3. /\ Len(uart') = Len(uart) + Len(cells) /\ Len(cells) \in Nat
        /\ DOMAIN uart' = 1 .. Len(uart) + Len(cells)
        /\ \A i \in 1 .. Len(uart) : uart'[i] = uart[i]
        /\ \A i \in 1 .. Len(cells) : uart'[Len(uart) + i] = cells[i]
        /\ \A i \in DOMAIN uart' : \/ i \in 1 .. Len(uart)
                                   \/ i - Len(uart) \in 1 .. Len(cells) /\ uart'[i] = cells[i - Len(uart)]
    BY <1>1, <2>1, SendsIs
  <2>4. ASSUME NEW i \in DOMAIN uart', uart'[i].k = "head"
        PROVE  i < Len(uart') /\ uart'[i + 1].k \in Body
    <3>1. CASE i \in 1 .. Len(uart)
      <4>1. i < Len(uart) /\ uart[i + 1].k \in Body
        BY <1>1, <2>3, <2>4, <3>1 DEF HeadInv
      <4>2. i + 1 \in 1 .. Len(uart) /\ i < Len(uart')
        BY <1>1, <2>3, <3>1, <4>1
      <4> QED
        BY <2>3, <4>1, <4>2
    <3>2. CASE i - Len(uart) \in 1 .. Len(cells) /\ uart'[i] = cells[i - Len(uart)]
      <4>1. i - Len(uart) < Len(cells) /\ cells[i - Len(uart) + 1].k \in Body
        BY <2>1, <2>4, <3>2 DEF Whole
      <4>2. i \in Int
        BY <1>1, <2>3
      <4>3. /\ i - Len(uart) + 1 \in 1 .. Len(cells) /\ Len(uart) + (i - Len(uart) + 1) = i + 1
            /\ i < Len(uart')
        <5>1. /\ Len(uart) \in Nat /\ Len(cells) \in Nat /\ Len(uart') = Len(uart) + Len(cells)
              /\ i - Len(uart) \in 1 .. Len(cells) /\ i - Len(uart) < Len(cells) /\ i \in Int
          BY <1>1, <2>3, <3>2, <4>1, <4>2
        <5> QED
          BY <5>1
      <4> QED
        BY <2>3, <4>1, <4>3
    <3> QED
      BY <2>3, <3>1, <3>2
  <2>5. uart # <<>> => uart' # <<>> /\ uart'[1] = uart[1]
    <3>1. uart # <<>> => Len(uart) > 0
      BY <1>1, EmptySeq
    <3> QED
      BY <1>1, <2>3, <3>1
  <2> QED
    BY <2>2, <2>4, <2>5 DEF HeadInv
<1>7. CASE UNCHANGED vars
  BY <1>7 DEF HeadInv, vars
<1> QED
  BY <1>4, <1>5, <1>6, <1>7 DEF Next

-----------------------------------------------------------------------------
(* Jobs on their way *)

LEMMA NoJobs ==
    /\ ~IsJob(Nul) /\ \A c : c.k = "part" => ~IsJob(c)
    /\ \A c : ~IsJob(Torn(c))
BY NulIs, TornIs DEF IsJob

LEMMA Numbers ==
    ASSUME TypeOK
    PROVE  /\ \A i \in DOMAIN uart : uart[i] \in CellType /\ uart[i].n \in Nat
           /\ \A i \in 1..Cap : IsJob(buf[i]) => buf[i] \in CellType /\ buf[i].n \in Nat
           /\ last \in Nat /\ Len(heard) \in Nat /\ last <= Len(heard) /\ events \in Nat
           /\ length \in 0..Cap /\ Cap \in Nat
<1>1. /\ uart \in Seq(CellType) /\ buf \in [1..Cap -> CellType \cup {Nul}] /\ heard \in Seq(Job)
      /\ last \in 0..Len(heard) /\ events \in 0..MaxEvents /\ MaxEvents \in Nat
      /\ length \in 0..Cap /\ Cap \in Nat
  BY ArmAssumption DEF TypeOK
<1>2. \A c \in CellType : c.n \in Nat
  BY <1>1 DEF CellType
<1>3. \A i \in DOMAIN uart : uart[i] \in CellType
  BY <1>1, LenProperties, ElementOfSeq
<1>4. \A i \in 1..Cap : IsJob(buf[i]) => buf[i] \in CellType
  BY <1>1, NoJobs
<1> QED
  BY <1>1, <1>2, <1>3, <1>4

\* The jobs the interrupt leaves with the ESP, and the one it may take.
LEMMA InterruptJobs ==
    ASSUME TypeOK, BufferInv, Interrupt
    PROVE  /\ \E shift \in {0, 1} : \A i \in DOMAIN uart' : IsJob(uart'[i]) =>
                /\ i + shift \in DOMAIN uart /\ uart'[i] = uart[i + shift]
                /\ ~Clearing => 1 < i + shift
           /\ \A i \in 1..Cap : IsJob(buf'[i]) =>
                \/ buf'[i] = buf[i] /\ (i <= length \/ UNCHANGED <<buf, length>>)
                \/ ~Clearing /\ i = length + 1 /\ buf'[i] = uart[1] /\ 1 \in DOMAIN uart
<1>1. /\ uart \in Seq(CellType) /\ DOMAIN uart = 1 .. Len(uart) /\ Len(uart) \in Nat \ {0}
      /\ uart' \in Seq(CellType) /\ DOMAIN uart' = 1 .. Len(uart') /\ 1 \in DOMAIN uart
  BY InterruptIs, LenProperties DEF TypeOK
<1>2. length \in 0..Cap /\ Cap \in Nat
  BY Numbers
<1>3. CASE Clearing
  <2>1. /\ Stores(Cell("part")) /\ Len(uart') = Len(uart) /\ ~IsJob(uart'[1])
        /\ \A i \in 2 .. Len(uart) : uart'[i] = uart[i]
    BY <1>3, InterruptIs, NoJobs
  <2>2. \A i \in DOMAIN uart' : IsJob(uart'[i]) => i + 0 \in DOMAIN uart /\ uart'[i] = uart[i + 0]
    BY <1>1, <2>1
  <2>3. ~IsJob(Cell("part"))
    BY NoJobs, CellIs DEF Kinds
  <2>4. \A i \in 1..Cap : IsJob(buf'[i]) => buf'[i] = buf[i]
    BY <2>1, <2>3 DEF Stores
  <2>5. \A i \in 1..Cap : ~IsJob(buf[i])
    BY <1>3, ClearedIsEmpty
  <2>6. \A i \in 1..Cap : ~IsJob(buf'[i])
    BY <2>4, <2>5
  <2> QED
    BY <1>3, <2>2, <2>6
<1>4. CASE ~Clearing
  <2>1. /\ Stores(uart[1]) /\ Len(uart') = Len(uart) - 1
        /\ \A i \in 1 .. Len(uart) - 1 : uart'[i] = uart[i + 1]
    BY <1>4, InterruptIs
  <2>2. \A i \in DOMAIN uart' : i + 1 \in DOMAIN uart /\ uart'[i] = uart[i + 1] /\ 1 < i + 1
    BY <1>1, <2>1
  <2>3. ASSUME NEW i \in 1..Cap, IsJob(buf'[i])
        PROVE  \/ buf'[i] = buf[i] /\ (i <= length \/ UNCHANGED <<buf, length>>)
               \/ i = length + 1 /\ buf'[i] = uart[1]
    <3>1. CASE length = Cap /\ UNCHANGED <<buf, length>>
      BY <3>1
    <3>2. CASE /\ buf'[length + 1] = uart[1]
               /\ \A j \in 1..Cap : j # length + 1 => buf'[j] = buf[j]
      <4>1. i > length => ~IsJob(buf[i])
        BY NoJobs DEF BufferInv
      <4> QED
        BY <1>2, <2>3, <3>2, <4>1
    <3> QED
      BY <2>1, <3>1, <3>2 DEF Stores
  <2> QED
    BY <1>1, <1>4, <2>2, <2>3
<1> QED
  BY <1>3, <1>4

\* The jobs the server sends.
LEMMA SendJobs ==
    ASSUME TypeOK, JobInv, Outside
    PROVE  /\ \A i \in DOMAIN uart' : IsJob(uart'[i]) =>
                \/ i \in DOMAIN uart /\ uart'[i] = uart[i]
                \/ i > Len(uart) /\ uart'[i].n = Len(heard) + 1 /\ Len(heard') = Len(heard) + 1
           /\ \A i, j \in DOMAIN uart' :
                i > Len(uart) /\ j > Len(uart) /\ IsJob(uart'[i]) /\ IsJob(uart'[j]) => i = j
           /\ DOMAIN uart = 1 .. Len(uart) /\ Len(uart) \in Nat /\ DOMAIN uart' \subseteq Int
<1>1. uart \in Seq(CellType) /\ DOMAIN uart = 1 .. Len(uart) /\ Len(uart) \in Nat
  BY LenProperties DEF TypeOK
<1>2. PICK cells \in Seq(CellType) : Sends(cells) /\ Whole(cells)
  BY OutsideSends
<1>3. /\ DOMAIN uart' = 1 .. Len(uart) + Len(cells) /\ Len(cells) \in Nat
      /\ \A i \in 1 .. Len(uart) : uart'[i] = uart[i]
      /\ \A i \in DOMAIN uart' : \/ i \in 1 .. Len(uart)
                                 \/ i - Len(uart) \in 1 .. Len(cells) /\ uart'[i] = cells[i - Len(uart)]
  BY <1>1, <1>2, SendsIs
<1>4. DOMAIN uart' \subseteq Int
  BY <1>3
<1>5. \A i \in DOMAIN uart' : i > Len(uart) =>
        i - Len(uart) \in 1 .. Len(cells) /\ uart'[i] = cells[i - Len(uart)]
  BY <1>1, <1>3, <1>4
<1>6. \A i \in DOMAIN uart' : i \in 1 .. Len(uart) \/ i > Len(uart)
  BY <1>1, <1>3
<1>7. ASSUME NEW i \in DOMAIN uart', IsJob(uart'[i])
      PROVE  \/ i \in DOMAIN uart /\ uart'[i] = uart[i]
             \/ i > Len(uart) /\ uart'[i].n = Len(heard) + 1 /\ Len(heard') = Len(heard) + 1
  <2>1. CASE i > Len(uart)
    BY <1>2, <1>5, <1>7, <2>1 DEF Whole
  <2> QED
    BY <1>1, <1>3, <1>6, <2>1
<1>8. ASSUME NEW i \in DOMAIN uart', NEW j \in DOMAIN uart', i > Len(uart), j > Len(uart),
             IsJob(uart'[i]), IsJob(uart'[j])
      PROVE  i = j
  <2>1. i - Len(uart) = j - Len(uart)
    BY <1>2, <1>5, <1>8 DEF Whole
  <2> QED
    BY <1>1, <1>4, <2>1
<1> QED
  BY <1>1, <1>4, <1>7, <1>8

LEMMA JobStep ==
    ASSUME TypeOK, BufferInv, JobInv, StrInv, [Next]_vars
    PROVE  JobInv'
<1>1. /\ \A i \in DOMAIN uart : uart[i].n \in Nat
      /\ \A i \in 1..Cap : IsJob(buf[i]) => buf[i].n \in Nat
      /\ last \in Nat /\ Len(heard) \in Nat /\ last <= Len(heard) /\ events \in Nat
      /\ length \in 0..Cap /\ Cap \in Nat
  BY Numbers
<1>2. CASE Main
  <2>1. UNCHANGED <<uart, heard>>
    BY <1>2, MainShares
  <2>2. Len(heard') <= events'
    <3>1. events <= events' /\ events' \in Nat
      BY <1>1, <1>2, MainShares, ButtonsType
    <3> QED
      BY <1>1, <2>1, <3>1 DEF JobInv
  <2>3. /\ \A i \in DOMAIN uart : IsJob(uart[i]) => last' < uart[i].n
        /\ \A i \in 1..Cap : IsJob(buf[i]) => last' < buf[i].n
    <3>1. CASE last' = last
      BY <3>1 DEF JobInv, Given
    <3>2. CASE main.pc = "event" /\ IsJob(main.str[1]) /\ last' = main.str[1].n
      BY <3>2 DEF StrInv
    <3> QED
      BY <1>2, <3>1, <3>2, MainShares, EventIs
  <2>4. CASE buf' = buf
    BY <2>1, <2>2, <2>3, <2>4 DEF JobInv, Given
  <2>5. CASE buf' = Blank
    <3>1. \A i \in 1..Cap : ~IsJob(buf'[i])
      BY <2>5, NoJobs DEF Blank
    <3> QED
      BY <2>1, <2>2, <2>3, <3>1 DEF JobInv, Given
  <2> QED
    BY <1>2, <2>4, <2>5, MainShares
<1>3. CASE Interrupt
  <2>1. UNCHANGED <<heard, last, events>>
    BY <1>3, InterruptIs DEF serviceVars
  <2>2. PICK shift \in {0, 1} : \A i \in DOMAIN uart' : IsJob(uart'[i]) =>
           /\ i + shift \in DOMAIN uart /\ uart'[i] = uart[i + shift]
           /\ ~Clearing => 1 < i + shift
    BY <1>3, InterruptJobs
  <2>3. \A i \in 1..Cap : IsJob(buf'[i]) =>
           \/ buf'[i] = buf[i] /\ (i <= length \/ UNCHANGED <<buf, length>>)
           \/ ~Clearing /\ i = length + 1 /\ buf'[i] = uart[1] /\ 1 \in DOMAIN uart
    BY <1>3, InterruptJobs
  <2>4. DOMAIN uart' \subseteq Int
    BY <1>3, InterruptIs, LenProperties
  <2>5. ASSUME NEW i \in DOMAIN uart', IsJob(uart'[i])
        PROVE  /\ last' < uart'[i].n /\ uart'[i].n <= Len(heard')
               /\ \A j \in DOMAIN uart' : i < j /\ IsJob(uart'[j]) => uart'[i].n < uart'[j].n
    <3>1. i + shift \in DOMAIN uart /\ uart'[i] = uart[i + shift]
      BY <2>2, <2>5
    <3>2. last' < uart'[i].n /\ uart'[i].n <= Len(heard')
      BY <2>1, <2>5, <3>1 DEF JobInv, Given
    <3>3. ASSUME NEW j \in DOMAIN uart', i < j, IsJob(uart'[j])
          PROVE  uart'[i].n < uart'[j].n
      <4>1. j + shift \in DOMAIN uart /\ uart'[j] = uart[j + shift]
        BY <2>2, <3>3
      <4>2. i + shift < j + shift
        BY <2>4, <3>3
      <4> QED
        BY <2>5, <3>1, <3>3, <4>1, <4>2 DEF JobInv
    <3> QED
      BY <3>2, <3>3
  <2>6. ASSUME NEW i \in 1..Cap, IsJob(buf'[i])
        PROVE  /\ last' < buf'[i].n /\ buf'[i].n <= Len(heard')
               /\ \A j \in 1..Cap : i < j /\ IsJob(buf'[j]) => buf'[i].n < buf'[j].n
               /\ \A j \in DOMAIN uart' : IsJob(uart'[j]) => buf'[i].n < uart'[j].n
    <3>1. last' < buf'[i].n /\ buf'[i].n <= Len(heard')
      BY <2>1, <2>3, <2>6 DEF JobInv, Given
    <3>2. ASSUME NEW j \in 1..Cap, i < j, IsJob(buf'[j])
          PROVE  buf'[i].n < buf'[j].n
      <4>1. buf'[i] = buf[i]
        <5>1. CASE i = length + 1 /\ buf'[j] = buf[j] /\ j <= length
          BY <1>1, <3>2, <5>1
        <5>2. CASE i = length + 1 /\ j = length + 1
          BY <1>1, <3>2, <5>2
        <5> QED
          BY <2>3, <2>6, <3>2, <5>1, <5>2
      <4> QED
        BY <2>3, <2>6, <3>2, <4>1 DEF JobInv
    <3>3. ASSUME NEW j \in DOMAIN uart', IsJob(uart'[j])
          PROVE  buf'[i].n < uart'[j].n
      <4>1. /\ j + shift \in DOMAIN uart /\ uart'[j] = uart[j + shift]
            /\ ~Clearing => 1 < j + shift
        BY <2>2, <3>3
      <4>2. CASE buf'[i] = buf[i]
        BY <2>6, <3>3, <4>1, <4>2 DEF JobInv
      <4>3. CASE ~Clearing /\ buf'[i] = uart[1] /\ 1 \in DOMAIN uart
        BY <2>6, <3>3, <4>1, <4>3 DEF JobInv
      <4> QED
        BY <2>3, <2>6, <4>2, <4>3
    <3> QED
      BY <3>1, <3>2, <3>3
  <2>7. Len(heard') <= events'
    BY <2>1 DEF JobInv
  <2> QED
    BY <2>5, <2>6, <2>7 DEF JobInv, Given
<1>4. CASE Outside
  <2>1. UNCHANGED <<buf, length, last>> /\ Len(heard) <= Len(heard') /\ Len(heard') <= events'
    BY <1>4, OutsideSends
  <2>2. Len(heard') \in Nat
    BY <1>4, OutsideSends
  <2>3. \A i \in DOMAIN uart' : IsJob(uart'[i]) =>
           \/ i \in DOMAIN uart /\ uart'[i] = uart[i]
           \/ i > Len(uart) /\ uart'[i].n = Len(heard) + 1 /\ Len(heard') = Len(heard) + 1
    BY <1>4, SendJobs
  <2>4. \A i, j \in DOMAIN uart' :
           i > Len(uart) /\ j > Len(uart) /\ IsJob(uart'[i]) /\ IsJob(uart'[j]) => i = j
    BY <1>4, SendJobs
  <2>5. DOMAIN uart = 1 .. Len(uart) /\ Len(uart) \in Nat /\ DOMAIN uart' \subseteq Int
    BY <1>4, SendJobs
  <2>6. \A i \in DOMAIN uart : IsJob(uart[i]) =>
           last < uart[i].n /\ uart[i].n <= Len(heard) /\ uart[i].n < Len(heard) + 1
    BY <1>1 DEF JobInv, Given
  <2>7. \A i \in 1..Cap : IsJob(buf[i]) =>
           last < buf[i].n /\ buf[i].n <= Len(heard) /\ buf[i].n < Len(heard) + 1
    BY <1>1 DEF JobInv, Given
  <2>8. ASSUME NEW i \in DOMAIN uart', IsJob(uart'[i])
        PROVE  /\ last' < uart'[i].n /\ uart'[i].n <= Len(heard')
               /\ \A j \in DOMAIN uart' : i < j /\ IsJob(uart'[j]) => uart'[i].n < uart'[j].n
    <3>1. last' < uart'[i].n /\ uart'[i].n <= Len(heard')
      BY <1>1, <2>1, <2>2, <2>3, <2>6, <2>8 DEF Given
    <3>2. ASSUME NEW j \in DOMAIN uart', i < j, IsJob(uart'[j])
          PROVE  uart'[i].n < uart'[j].n
      <4>1. CASE i > Len(uart)
        <5>1. j > Len(uart)
          BY <2>5, <3>2, <4>1
        <5> QED
          BY <2>4, <2>5, <2>8, <3>2, <4>1, <5>1
      <4>2. CASE i \in DOMAIN uart /\ uart'[i] = uart[i]
        BY <2>3, <2>6, <2>8, <3>2, <4>2 DEF JobInv
      <4> QED
        BY <2>3, <2>8, <4>1, <4>2
    <3> QED
      BY <3>1, <3>2
  <2>9. ASSUME NEW i \in 1..Cap, IsJob(buf[i])
        PROVE  /\ last' < buf[i].n /\ buf[i].n <= Len(heard')
               /\ \A j \in 1..Cap : i < j /\ IsJob(buf[j]) => buf[i].n < buf[j].n
               /\ \A j \in DOMAIN uart' : IsJob(uart'[j]) => buf[i].n < uart'[j].n
    <3>1. last < buf[i].n /\ buf[i].n <= Len(heard')
      BY <1>1, <2>1, <2>2, <2>7, <2>9
    <3>2. \A j \in DOMAIN uart' : IsJob(uart'[j]) => buf[i].n < uart'[j].n
      BY <2>3, <2>7, <2>9 DEF JobInv
    <3>3. \A j \in 1..Cap : i < j /\ IsJob(buf[j]) => buf[i].n < buf[j].n
      BY <2>9 DEF JobInv
    <3> QED
      BY <2>1, <3>1, <3>2, <3>3 DEF Given
  <2> QED
    BY <2>1, <2>8, <2>9 DEF JobInv, Given
<1>5. CASE UNCHANGED vars
  BY <1>5 DEF JobInv, Given, vars, serviceVars
<1> QED
  BY <1>2, <1>3, <1>4, <1>5 DEF Next

LEMMA StrStep ==
    ASSUME TypeOK, BufferInv, JobInv, StrInv, [Next]_vars
    PROVE  StrInv'
<1> DEFINE pcs == {"wipe", "zero", "event"}
           first == main.str[1]
<1>1. last \in Nat /\ Len(heard) \in Nat
  BY Numbers
<1>2. CASE Main
  <2>1. UNCHANGED <<uart, heard>>
    BY <1>2, MainShares
  <2>2. SUFFICES ASSUME main'.pc \in pcs PROVE StrInv'
    BY DEF StrInv
  <2>3. CASE main'.pc = "zero" /\ main.pc = "wipe" /\ main'.str = main.str /\ buf' = Blank /\ last' = last
    <3>1. \A j \in 1..Cap : ~IsJob(buf'[j])
      BY <2>3, NoJobs DEF Blank
    <3> QED
      BY <2>1, <2>3, <3>1 DEF StrInv, Given
  <2>4. CASE main'.pc = "event" /\ main.pc = "zero" /\ main'.str = main.str /\ buf' = buf /\ last' = last
    BY <2>1, <2>4 DEF StrInv, Given
  <2>5. CASE Copy /\ UNCHANGED <<buf, length, last>>
    <3>1. main'.pc = "wipe"
      BY <2>2, <2>5, CopyIs
    <3>2. PICK i \in 1..Cap : main'.str # <<>> /\ main'.str[1] = buf[i]
      BY <2>5, <3>1, CopyIs
    <3>3. IsJob(main'.str[1]) =>
            /\ last < main'.str[1].n /\ main'.str[1].n <= Len(heard)
            /\ \A j \in DOMAIN uart : IsJob(uart[j]) => main'.str[1].n < uart[j].n
      BY <3>2 DEF JobInv, Given
    <3> QED
      BY <2>1, <2>5, <3>1, <3>2, <3>3 DEF StrInv, Given
  <2> QED
    BY <1>2, <2>2, <2>3, <2>4, <2>5, MainSteps DEF Loud
<1>3. CASE Interrupt
  <2>1. UNCHANGED <<heard, last, main>>
    BY <1>3, InterruptIs DEF serviceVars
  <2>2. SUFFICES ASSUME main.pc \in pcs PROVE StrInv'
    BY <2>1 DEF StrInv
  <2>3. \A i \in DOMAIN uart' : IsJob(uart'[i]) => \E j \in DOMAIN uart : uart'[i] = uart[j]
    BY <1>3, InterruptJobs
  <2>4. \A i \in 1..Cap : IsJob(buf'[i]) => buf'[i] = buf[i] \/ \E j \in DOMAIN uart : buf'[i] = uart[j]
    BY <1>3, InterruptJobs
  <2>5. main.str # <<>> /\ (IsJob(first) => last < first.n /\ first.n <= Len(heard))
    BY <2>2 DEF StrInv, Given
  <2>6. ASSUME IsJob(first), NEW i \in DOMAIN uart', IsJob(uart'[i]) PROVE first.n < uart'[i].n
    BY <2>2, <2>3, <2>6 DEF StrInv
  <2>7. ASSUME IsJob(first), main.pc # "wipe", NEW i \in 1..Cap, IsJob(buf'[i]) PROVE first.n < buf'[i].n
    BY <2>2, <2>4, <2>7 DEF StrInv
  <2> QED
    BY <2>1, <2>5, <2>6, <2>7 DEF StrInv, Given
<1>4. CASE Outside
  <2>1. UNCHANGED <<buf, main, last>> /\ Len(heard) <= Len(heard') /\ Len(heard') <= events'
        /\ heard' \in Seq(Job)
    BY <1>4, OutsideSends
  <2>2. SUFFICES ASSUME main.pc \in pcs PROVE StrInv'
    BY <2>1 DEF StrInv
  <2>3. main.str # <<>> /\ (IsJob(first) => first.n \in Nat /\ last < first.n /\ first.n <= Len(heard))
    <3>1. main.str \in Seq(CellType) /\ main.str # <<>>
      BY <2>2 DEF StrInv, TypeOK
    <3>2. main.str[1] \in CellType
      <4>1. 1 \in 1 .. Len(main.str)
        BY <3>1, EmptySeq
      <4> QED
        BY <3>1, <4>1, ElementOfSeq
    <3> QED
      BY <2>2, <3>1, <3>2, ArmAssumption DEF StrInv, Given, CellType
  <2>4. ASSUME IsJob(first), NEW i \in DOMAIN uart', IsJob(uart'[i]) PROVE first.n < uart'[i].n
    <3>1. \/ i \in DOMAIN uart /\ uart'[i] = uart[i]
          \/ uart'[i].n = Len(heard) + 1
      BY <1>4, <2>4, SendJobs
    <3>2. first.n < Len(heard) + 1
      BY <1>1, <2>3, <2>4
    <3> QED
      BY <2>2, <2>4, <3>1, <3>2 DEF StrInv
  <2>5. IsJob(first) => first.n <= Len(heard')
    <3>1. Len(heard') \in Nat
      BY <2>1
    <3> QED
      BY <1>1, <2>1, <2>3, <3>1
  <2>6. IsJob(first) /\ main.pc # "wipe" => \A j \in 1..Cap : IsJob(buf[j]) => first.n < buf[j].n
    BY <2>2 DEF StrInv
  <2> QED
    BY <2>1, <2>3, <2>4, <2>5, <2>6 DEF StrInv, Given
<1>5. CASE UNCHANGED vars
  BY <1>5 DEF StrInv, Given, vars, serviceVars
<1> QED
  BY <1>2, <1>3, <1>4, <1>5 DEF Next

-----------------------------------------------------------------------------
(* Reports on their way *)

LEMMA StageIs ==
    /\ main.pc \in AtPcs =>
         Stage = IF main.next = "grip" THEN "taken" ELSE IF main.text.done THEN "placed" ELSE "rest"
    /\ main.pc \in {"grip", "gripping"} => Stage = "taken"
    /\ main.pc = "placing" => Stage = "gripped"
    /\ main.pc \notin AtPcs \cup {"grip", "gripping", "placing"} => Stage = "rest"
BY DEF Stage, AtPcs

LEMMA StageNext ==
    /\ main'.pc \in AtPcs =>
         Stage' = IF main'.next = "grip" THEN "taken" ELSE IF main'.text.done THEN "placed" ELSE "rest"
    /\ main'.pc \in {"grip", "gripping"} => Stage' = "taken"
    /\ main'.pc = "placing" => Stage' = "gripped"
    /\ main'.pc \notin AtPcs \cup {"grip", "gripping", "placing"} => Stage' = "rest"
BY DEF Stage, AtPcs

\* The main loop, as the line sees it: it hands nothing to the ESP, ...
Silent ==
    /\ main'.pc \notin AtPcs /\ UNCHANGED <<esp, last, placed>>
    /\ \/ Stage' = Stage
       \/ Stage = "taken" /\ Stage' = "gripped"
       \/ Stage # "rest" /\ Stage' = "rest"
\* ... or is about to, ...
Handing ==
    /\ main.pc \in AtPcs /\ main'.pc \in AtPcs /\ UNCHANGED <<esp, last, placed>>
    /\ main'.text = main.text /\ main'.next = main.next /\ Stage' = Stage
    /\ main.text # NoReport => Pending
\* ... or does.
Handed ==
    /\ AtSend /\ main.pc = "at_send" /\ main'.pc = "at_wait" /\ UNCHANGED <<last, placed>>
    /\ main'.text = main.text /\ main'.next = main.next /\ main'.cmd = main.cmd /\ Stage' = Stage
Took ==
    /\ last < last' /\ last' <= Len(heard) /\ UNCHANGED <<esp, placed>>
    /\ Stage = "rest" /\ Stage' = "taken" /\ main'.pc \in AtPcs
    /\ main'.text = [job |-> last', done |-> FALSE] /\ main'.next = "grip"
Reconnects ==
    /\ UNCHANGED <<esp, last, placed>> /\ main'.pc \in AtPcs
    /\ Stage' = Stage /\ Stage = "rest" /\ main'.text = NoReport /\ main'.next = "buttons"
PutItDown ==
    /\ UNCHANGED <<esp, last>> /\ placed' = placed \cup {last}
    /\ Stage = "gripped" /\ Stage' = "placed" /\ main'.pc \in AtPcs
    /\ main'.text = [job |-> last, done |-> TRUE] /\ main'.next = "buttons"

LEMMA Ways ==
    ASSUME TypeOK, StrInv, Main
    PROVE  Silent \/ Handing \/ Handed \/ Took \/ Reconnects \/ PutItDown
<1>1. /\ main \in MainType /\ last \in 0..Len(heard) /\ Len(heard) <= MaxEvents /\ Len(heard) \in Nat
      /\ MaxEvents \in Nat
  BY ArmAssumption DEF TypeOK, MainType
<1>2. {"copy", "buttons", "zero", "event", "at_wipe", "at_zero", "at_send", "at_wait", "grip",
       "gripping", "placing", "loop", "manual", "wild"} \subseteq Pcs
  BY DEF Pcs
<1>3. Finish => main'.pc = "buttons"
  BY <1>2, IdleIs DEF Finish
<1>4. {"cipsend", "cipstart", "data"} \subseteq Commands
  BY DEF Commands
<1>5. CASE Check \/ Copy \/ Wipe \/ Zero
  <2>1. main.pc \in {"loop", "copy", "wipe", "zero"}
    BY <1>5 DEF Check, Copy, Wipe, Zero
  <2>2. main'.pc \in {"copy", "buttons", "wipe", "wild", "zero", "event"}
    <3>1. CASE Copy
      BY <3>1, CopyIs
    <3> QED
      BY <1>1, <1>2, <1>5, <3>1, GoIs DEF Check, Wipe, Zero
  <2>3. UNCHANGED <<esp, last, placed>>
    BY <1>5 DEF Check, Copy, Wipe, Zero, serviceVars
  <2> QED
    BY <2>1, <2>2, <2>3, StageIs, StageNext DEF Silent, AtPcs
<1>6. CASE Buttons \/ Manual
  <2>1. main.pc \in {"buttons", "manual"}
    BY <1>6 DEF Buttons, Manual
  <2>2. main'.pc \in {"manual", "loop"}
    BY <1>1, <1>2, <1>6, GoIs DEF Buttons, Manual, MainType
  <2>3. UNCHANGED <<esp, last, placed>>
    BY <1>6 DEF Buttons, Manual, serviceVars
  <2> QED
    BY <2>1, <2>2, <2>3, StageIs, StageNext DEF Silent, AtPcs
<1>7. CASE Moving
  <2>1. main' = main /\ main.pc \in {"gripping", "placing", "manual"} /\ UNCHANGED <<esp, last, placed>>
    BY <1>7 DEF Moving, serviceVars
  <2>2. Stage' = Stage
    BY <2>1 DEF Stage
  <2> QED
    BY <2>1, <2>2 DEF Silent, AtPcs
<1>8. CASE Event
  <2>1. main.pc = "event" /\ Stage = "rest" /\ UNCHANGED <<esp, placed>>
    BY <1>8, EventIs, StageIs DEF AtPcs
  <2>2. CASE /\ Given(main.str[1]) /\ last' = main.str[1].n
             /\ main' = At("cipsend", [job |-> main.str[1].n, done |-> FALSE], "grip")
    <3>1. [job |-> main.str[1].n, done |-> FALSE] \in ReportType
      BY <1>8, EventIs DEF ReportType
    <3>2. main'.pc = "at_wipe" /\ main'.text = [job |-> last', done |-> FALSE] /\ main'.next = "grip"
      BY <1>1, <1>4, <2>2, <3>1, AtIs
    <3>3. Stage' = "taken"
      BY <3>2, StageNext DEF AtPcs
    <3> QED
      BY <2>1, <2>2, <3>2, <3>3 DEF Took, Given, AtPcs
  <2>3. CASE main' = At("cipstart", NoReport, "buttons") /\ UNCHANGED last
    <3>1. main'.pc = "at_wipe" /\ main'.text = NoReport /\ main'.next = "buttons"
      BY <1>1, <1>4, <2>3, AtIs, NoReportType
    <3>2. Stage' = "rest"
      BY <3>1, StageNext, NoReportType DEF AtPcs
    <3> QED
      BY <2>1, <2>3, <3>1, <3>2 DEF Reconnects, AtPcs
  <2>4. CASE Finish /\ UNCHANGED last
    BY <1>3, <2>1, <2>4, StageNext DEF Silent, AtPcs
  <2> QED
    BY <1>8, <2>2, <2>3, <2>4, EventIs
<1>9. CASE Grip
  <2>1. main.pc = "grip" /\ main'.pc = "gripping" /\ UNCHANGED <<esp, last, placed>>
    BY <1>1, <1>2, <1>9, GoIs DEF Grip, serviceVars
  <2> QED
    BY <2>1, StageIs, StageNext DEF Silent, AtPcs
<1>10. CASE Gripped
  <2>1. main.pc = "gripping" /\ UNCHANGED <<esp, last, placed>> /\ (Go("placing") \/ Finish)
    BY <1>10 DEF Gripped, serviceVars
  <2>2. main'.pc \in {"placing", "buttons"}
    BY <1>1, <1>2, <1>3, <2>1, GoIs
  <2> QED
    BY <2>1, <2>2, StageIs, StageNext DEF Silent, AtPcs
<1>11. CASE Placed
  <2>1. /\ main.pc = "placing" /\ UNCHANGED <<esp, last>> /\ placed' = placed \cup {last}
        /\ main' = At("cipsend", [job |-> last, done |-> TRUE], "buttons")
    BY <1>11 DEF Placed
  <2>2. [job |-> last, done |-> TRUE] \in ReportType
    BY <1>1 DEF ReportType
  <2>3. main'.pc = "at_wipe" /\ main'.text = [job |-> last, done |-> TRUE] /\ main'.next = "buttons"
    BY <1>1, <1>4, <2>1, <2>2, AtIs
  <2>4. Stage = "gripped" /\ Stage' = "placed"
    <3>1. main'.text.done /\ main'.next # "grip"
      BY <2>3
    <3> QED
      BY <2>1, <2>3, <3>1, StageIs, StageNext DEF AtPcs
  <2> QED
    BY <2>1, <2>3, <2>4 DEF PutItDown, AtPcs
<1>12. CASE AtWipe \/ AtZero
  <2>1. /\ main.pc \in {"at_wipe", "at_zero"} /\ UNCHANGED <<esp, last, placed>>
        /\ Go("at_zero") \/ Go("at_send")
    BY <1>12 DEF AtWipe, AtZero, serviceVars
  <2>2. /\ main'.pc \in {"at_zero", "at_send"} /\ main'.text = main.text /\ main'.next = main.next
    BY <1>1, <1>2, <2>1, GoIs
  <2>3. Stage' = Stage
    BY <2>1, <2>2, StageIs, StageNext DEF AtPcs
  <2> QED
    BY <2>1, <2>2, <2>3 DEF Handing, Pending, AtPcs
<1>13. CASE AtSend
  <2>1. main.pc = "at_send" /\ UNCHANGED <<last, placed>> /\ Go("at_wait")
    BY <1>13 DEF AtSend, serviceVars
  <2>2. /\ main'.pc = "at_wait" /\ main'.text = main.text /\ main'.next = main.next
        /\ main'.cmd = main.cmd
    BY <1>1, <1>2, <2>1, GoIs
  <2>3. Stage' = Stage
    BY <2>1, <2>2, StageIs, StageNext DEF AtPcs
  <2> QED
    BY <1>13, <2>1, <2>2, <2>3 DEF Handed
<1>14. CASE AtReturns
  <2>1. main.pc = "at_wait" /\ UNCHANGED <<esp, last, placed>> /\ Return(~Refused)
    BY <1>14 DEF AtReturns, serviceVars
  <2>2. CASE /\ main.cmd \in {"cipsend", "cipstart"} /\ main'.pc = "at_wipe"
             /\ main'.text = main.text /\ main'.next = main.next
    <3>1. Stage' = Stage
      BY <2>1, <2>2, StageIs, StageNext DEF AtPcs
    <3> QED
      BY <2>1, <2>2, <3>1 DEF Handing, Pending, AtPcs
  <2>3. CASE main.next = "grip" /\ main'.pc = "grip"
    BY <2>1, <2>3, StageIs, StageNext DEF Silent, AtPcs
  <2>4. CASE main.next = "buttons" /\ main'.pc = "buttons"
    BY <2>1, <2>4, StageIs, StageNext DEF Silent, AtPcs
  <2> QED
    BY <1>1, <2>1, <2>2, <2>3, <2>4, ReturnIs
<1> QED
  BY <1>5, <1>6, <1>7, <1>8, <1>9, <1>10, <1>11, <1>12, <1>13, <1>14 DEF Main

LEMMA TextStep ==
    ASSUME TypeOK, StrInv, JobInv, TextInv, [Next]_vars
    PROVE  TextInv'
<1>1. CASE Main
  <2>1. last \in Nat
    BY Numbers
  <2>2. CASE Silent
    BY <2>2 DEF Silent, TextInv
  <2>3. CASE Handing
    BY <2>3 DEF Handing, TextInv
  <2>4. CASE Handed
    BY <2>4 DEF Handed, TextInv, AtPcs
  <2>5. CASE Took
    BY <2>5 DEF Took, TextInv
  <2>6. CASE Reconnects
    BY <2>6 DEF Reconnects, TextInv
  <2>7. CASE PutItDown
    BY <2>7 DEF PutItDown, TextInv
  <2> QED
    BY <1>1, <2>2, <2>3, <2>4, <2>5, <2>6, <2>7, Ways
<1>2. CASE UNCHANGED <<main, last, placed>>
  BY <1>2 DEF TextInv
<1>3. CASE Interrupt
  BY <1>2, <1>3, InterruptIs DEF serviceVars
<1>4. CASE Outside
  BY <1>2, <1>4, OutsideSends
<1>5. CASE UNCHANGED vars
  BY <1>2, <1>5 DEF vars, serviceVars
<1> QED
  BY <1>1, <1>3, <1>4, <1>5 DEF Next

\* What the ESP does only takes reports away from what is with it.
LEMMA OutShrinks ==
    ASSUME TypeOK, Outside
    PROVE  /\ Out' \subseteq Out
           /\ esp'.cmd = "data" => esp.cmd = "data" /\ esp'.text = esp.text /\ said' = said
<1>1. esp \in EspType /\ said \in Seq(ReportType)
  BY DEF TypeOK, EspType
<1>2. CASE EspTakes
  <2>1. esp'.cmd = "none"
    BY <1>1, <1>2 DEF EspTakes, EspType
  <2>2. \/ said' = said
        \/ esp.cmd = "data" /\ said' = Append(said, esp.text)
    BY <1>2 DEF EspTakes
  <2>3. CASE said' = said
    BY <2>1, <2>3 DEF Out
  <2>4. CASE esp.cmd = "data" /\ said' = Append(said, esp.text)
    <3>1. esp.text \in ReportType
      BY <1>1 DEF EspType
    <3>2. Len(said') = Len(said) + 1 /\ said'[Len(said) + 1] = esp.text
      BY <1>1, <2>4, <3>1, AppendProperties
    <3>3. said'[Len(said')] = esp.text
      BY <3>2
    <3>4. Out' \subseteq {esp.text}
      BY <2>1, <3>3 DEF Out
    <3> QED
      BY <2>1, <2>4, <3>4 DEF Out
  <2> QED
    BY <2>2, <2>3, <2>4
<1>3. CASE EspAnswers
  <2>1. said' = said /\ esp'.cmd = "none"
    BY <1>1, <1>3 DEF EspAnswers, EspType, serviceVars
  <2> QED
    BY <2>1 DEF Out
<1>4. CASE said' = said /\ esp'.cmd = esp.cmd /\ esp'.text = esp.text
  BY <1>4 DEF Out
<1>5. CASE EspLoses
  BY <1>1, <1>4, <1>5 DEF EspLoses, EspType, serviceVars
<1>6. CASE \E j \in Job : Orders(j)
  BY <1>4, <1>6 DEF Orders
<1>7. CASE \E k \in {"again", "text"} : Says(k)
  BY <1>1, <1>4, <1>7 DEF Says, EspType, serviceVars
<1> QED
  BY <1>2, <1>3, <1>5, <1>6, <1>7 DEF Outside

LEMMA OutType ==
    ASSUME TypeOK, NEW r \in Out
    PROVE  r \in ReportType /\ r.job \in Nat
<1>1. esp.text \in ReportType /\ said \in Seq(ReportType)
  BY DEF TypeOK
<1>2. said # <<>> => said[Len(said)] \in ReportType
  <2>1. said # <<>> => Len(said) \in 1 .. Len(said)
    BY <1>1, EmptySeq
  <2> QED
    BY <1>1, <2>1, ElementOfSeq
<1>3. r \in ReportType
  BY <1>1, <1>2 DEF Out
<1> QED
  BY <1>3, ArmAssumption DEF ReportType

LEMMA SaidStep ==
    ASSUME TypeOK, StrInv, JobInv, TextInv, SaidInv, [Next]_vars
    PROVE  SaidInv'
<1>1. last \in Nat /\ Len(heard) \in Nat /\ placed \subseteq 1..last
  BY Numbers DEF TypeOK
<1>2. CASE UNCHANGED <<main, last, placed>> /\ Out' \subseteq Out
             /\ (esp'.cmd = "data" => esp.cmd = "data" /\ esp'.text = esp.text /\ said' = said)
  <2>1. Stage' = Stage /\ Pending' = Pending
    BY <1>2 DEF Stage, Pending
  <2>2. \A r \in Out' : r.job <= last' /\ (r.done => r.job \in placed')
    BY <1>2 DEF SaidInv
  <2>3. said' # <<>> /\ esp'.cmd = "data" /\ esp'.text # NoReport =>
          Service!Later(esp'.text, said'[Len(said')])
    BY <1>2 DEF SaidInv
  <2>4. Stage' \in {"taken", "gripped"} => last' > 0 /\ \A r \in Out' : r.job = last' => ~r.done
    BY <1>2, <2>1 DEF SaidInv
  <2>5. Pending' => \A r \in Out' : Service!Later(main'.text, r)
    BY <1>2, <2>1 DEF SaidInv
  <2> QED
    BY <2>2, <2>3, <2>4, <2>5 DEF SaidInv
<1>3. CASE Interrupt
  <2>1. UNCHANGED <<main, last, placed, esp, said>>
    BY <1>3, InterruptIs DEF serviceVars
  <2> QED
    BY <1>2, <2>1 DEF Out
<1>4. CASE Outside
  BY <1>2, <1>4, OutsideSends, OutShrinks
<1>5. CASE UNCHANGED vars
  BY <1>2, <1>5 DEF Out, vars, serviceVars
<1>6. CASE Main
  <2>1. said' = said
    BY <1>6, MainShares
  <2>2. CASE ~Handed
    <3>0. esp' = esp
      BY <1>6, <2>2, Ways DEF Silent, Handing, Took, Reconnects, PutItDown
    <3>1. Out' = Out
      BY <2>1, <3>0 DEF Out
    <3>2. said' # <<>> /\ esp'.cmd = "data" /\ esp'.text # NoReport =>
            Service!Later(esp'.text, said'[Len(said')])
      BY <2>1, <3>0 DEF SaidInv
    <3>3. CASE Silent
      <4>1. ~Pending' /\ UNCHANGED <<last, placed>>
        BY <3>3 DEF Silent, Pending
      <4>2. Stage' \in {"taken", "gripped"} => Stage \in {"taken", "gripped"}
        BY <3>3 DEF Silent
      <4> QED
        BY <3>1, <3>2, <4>1, <4>2 DEF SaidInv
    <3>4. CASE Handing
      <4>1. Pending' => Pending
        BY <3>4 DEF Handing, Pending
      <4> QED
        BY <3>1, <3>2, <3>4, <4>1 DEF SaidInv, Handing
    <3>5. CASE Took
      <4>1. \A r \in Out : r.job \in Nat /\ r.job <= last /\ (r.done => r.job \in placed)
        BY OutType DEF SaidInv
      <4>2. last < last' /\ last' <= Len(heard) /\ placed' = placed
        BY <3>5 DEF Took
      <4>3. last' \in Nat
        BY <1>6, <1>1, <3>5, MainShares, EventIs DEF Took
      <4>4. \A r \in Out : r.job < last' /\ r.job <= last' /\ r.job # last'
        BY <1>1, <4>1, <4>2, <4>3
      <4>5. main'.text.job = last'
        BY <3>5 DEF Took
      <4>6. \A r \in Out : Service!Later(main'.text, r)
        BY <4>4, <4>5 DEF Service!Later
      <4>7. last' > 0
        BY <1>1, <4>2, <4>3
      <4> QED
        BY <3>1, <3>2, <4>1, <4>2, <4>4, <4>6, <4>7 DEF SaidInv
    <3>6. CASE Reconnects
      <4>1. ~Pending' /\ UNCHANGED <<last, placed>> /\ Stage' = "rest"
        BY <3>6 DEF Reconnects, Pending
      <4> QED
        BY <3>1, <3>2, <4>1 DEF SaidInv
    <3>7. CASE PutItDown
      <4>1. last > 0 /\ \A r \in Out : r.job <= last /\ (r.done => r.job \in placed)
                                      /\ (r.job = last => ~r.done)
        BY <3>7 DEF PutItDown, SaidInv
      <4>2. main'.text.job = last /\ main'.text.done
        BY <3>7 DEF PutItDown
      <4>3. \A r \in Out : r.job < last \/ r.job = last
        BY <1>1, <4>1, OutType
      <4>4. \A r \in Out : Service!Later(main'.text, r)
        BY <4>1, <4>2, <4>3 DEF Service!Later
      <4>5. UNCHANGED last /\ placed' = placed \cup {last} /\ Stage' = "placed"
        BY <3>7 DEF PutItDown
      <4> QED
        BY <3>1, <3>2, <4>1, <4>4, <4>5 DEF SaidInv
    <3> QED
      BY <1>6, <2>2, <3>3, <3>4, <3>5, <3>6, <3>7, Ways
  <2>3. CASE Handed
    <3>1. esp \in EspType /\ main \in MainType
      BY DEF TypeOK, EspType, MainType
    <3>2. /\ main.pc = "at_send" /\ main'.pc = "at_wait" /\ UNCHANGED <<last, placed>>
          /\ main'.text = main.text /\ main'.cmd = main.cmd /\ Stage' = Stage
      BY <2>3 DEF Handed
    <3>3. esp' = IF esp.cmd = "none" THEN [esp EXCEPT !.cmd = main.cmd, !.text = main.text] ELSE esp
      BY <2>3 DEF Handed, AtSend
    <3>4. /\ main.text.job <= last /\ (main.text.done => main.text.job \in placed)
          /\ Stage \in {"taken", "gripped"} => ~main.text.done
      <4>1. \/ main.next = "grip" /\ main.text = [job |-> last, done |-> FALSE]
            \/ main.next # "grip" /\ main.text = NoReport
            \/ main.next # "grip" /\ main.text = [job |-> last, done |-> TRUE] /\ last \in placed
        BY <3>2 DEF TextInv, AtPcs
      <4>2. main.next # "grip" => Stage \in {"placed", "rest"}
        BY <3>2, StageIs DEF AtPcs
      <4> QED
        BY <1>1, <4>1, <4>2, NoReportType
    <3>5. CASE esp.cmd = "none" /\ main.cmd = "data"
      <4>1. esp'.cmd = "data" /\ esp'.text = main.text
        BY <3>1, <3>3, <3>5 DEF EspType
      <4>2. Out' \subseteq Out \cup {main.text}
        BY <2>1, <4>1 DEF Out
      <4>3. ~Pending'
        BY <3>2, <3>5 DEF Pending
      <4>4. said # <<>> /\ main.text # NoReport => Service!Later(main.text, said[Len(said)])
        <5>1. main.text # NoReport => Pending
          BY <3>2 DEF Pending, AtPcs
        <5>2. said # <<>> => said[Len(said)] \in Out
          BY DEF Out
        <5> QED
          BY <5>1, <5>2 DEF SaidInv
      <4>5. \A r \in Out' : r.job <= last' /\ (r.done => r.job \in placed')
        BY <3>2, <3>4, <4>2 DEF SaidInv
      <4>6. Stage' \in {"taken", "gripped"} => last' > 0 /\ \A r \in Out' : r.job = last' => ~r.done
        BY <3>2, <3>4, <4>2 DEF SaidInv
      <4> QED
        BY <2>1, <4>1, <4>3, <4>4, <4>5, <4>6 DEF SaidInv
    <3>6. CASE esp.cmd = "none" /\ main.cmd # "data"
      <4>1. esp'.cmd # "data"
        BY <3>1, <3>3, <3>6 DEF EspType
      <4>2. Out' \subseteq Out
        BY <2>1, <4>1 DEF Out
      <4>3. Pending' => Pending
        BY <3>2, <3>6 DEF Pending, AtPcs
      <4>4. \A r \in Out' : r.job <= last' /\ (r.done => r.job \in placed')
        BY <3>2, <4>2 DEF SaidInv
      <4>5. Stage' \in {"taken", "gripped"} => last' > 0 /\ \A r \in Out' : r.job = last' => ~r.done
        BY <3>2, <4>2 DEF SaidInv
      <4>6. Pending' => \A r \in Out' : Service!Later(main'.text, r)
        BY <3>2, <4>2, <4>3 DEF SaidInv
      <4> QED
        BY <4>1, <4>4, <4>5, <4>6 DEF SaidInv
    <3>7. CASE esp.cmd # "none"
      <4>1. esp' = esp /\ Out' = Out
        BY <2>1, <3>3, <3>7 DEF Out
      <4>2. Pending' => Pending
        BY <3>2 DEF Pending, AtPcs
      <4>3. Pending' => \A r \in Out' : Service!Later(main'.text, r)
        BY <3>2, <4>1, <4>2 DEF SaidInv
      <4> QED
        BY <2>1, <3>2, <4>1, <4>3 DEF SaidInv
    <3> QED
      BY <3>5, <3>6, <3>7
  <2> QED
    BY <2>2, <2>3
<1> QED
  BY <1>3, <1>4, <1>5, <1>6 DEF Next

-----------------------------------------------------------------------------
(* The invariant *)

LEMMA ArmInit == Init => IInv
<1> SUFFICES ASSUME Init PROVE IInv
  OBVIOUS
<1>1. MotionTypeOK /\ PulsesInv
  BY InitInv DEF Init, MotionInv
<1>2. /\ buf = Blank /\ length = 0 /\ uart = <<>> /\ main = Idle("loop")
      /\ esp = [taking |-> FALSE, up |-> TRUE, cmd |-> "none", text |-> NoReport]
      /\ heard = <<>> /\ said = <<>> /\ last = 0 /\ placed = {} /\ events = 0
  BY DEF Init
<1>3. main \in MainType /\ main.pc = "loop"
  BY <1>2, IdleIs DEF Pcs
<1>4. TypeOK
  <2>1. buf \in [1..Cap -> CellType \cup {Nul}] /\ length \in 0..Cap /\ uart \in Seq(CellType)
    BY <1>2, ArmAssumption DEF Blank
  <2>2. esp \in [taking : BOOLEAN, up : BOOLEAN, cmd : Commands, text : ReportType]
    BY <1>2, NoReportType DEF Commands
  <2>3. /\ heard \in Seq(Job) /\ Len(heard) = 0 /\ said \in Seq(ReportType)
        /\ last \in 0..Len(heard) /\ placed \subseteq 1..last /\ events \in 0..MaxEvents
        /\ Len(heard) <= MaxEvents
    BY <1>2, ArmAssumption
  <2> QED
    BY <1>1, <1>3, <2>1, <2>2, <2>3 DEF TypeOK, MainType
<1>5. \A i \in 1..Cap : buf[i] = Nul /\ ~IsJob(buf[i])
  BY <1>2, NoJobs DEF Blank
<1>6. DOMAIN uart = {} /\ Len(heard) = 0
  BY <1>2
<1>7. BufferInv
  BY <1>2, <1>3, <1>5 DEF BufferInv, Clearing
<1>8. HeadInv
  BY <1>2, <1>6 DEF HeadInv
<1>9. JobInv
  BY <1>2, <1>5, <1>6 DEF JobInv
<1>10. StrInv /\ TextInv
  BY <1>3 DEF StrInv, TextInv, AtPcs
<1>11. SaidInv
  <2>1. Out = {}
    BY <1>2 DEF Out
  <2>2. ~Pending /\ Stage = "rest"
    BY <1>3, StageIs DEF Pending, AtPcs
  <2> QED
    BY <1>2, <2>1, <2>2 DEF SaidInv
<1> QED
  BY <1>1, <1>4, <1>7, <1>8, <1>9, <1>10, <1>11 DEF IInv

LEMMA ArmStep == IInv /\ [Next]_vars => IInv'
<1> SUFFICES ASSUME IInv, [Next]_vars PROVE IInv'
  OBVIOUS
<1>1. /\ TypeOK /\ PulsesInv /\ BufferInv /\ HeadInv /\ JobInv /\ StrInv /\ TextInv /\ SaidInv
  BY DEF IInv
<1>2. TypeOK' /\ PulsesInv'
  BY <1>1, TypeStep, Moves
<1>3. BufferInv' /\ HeadInv'
  BY <1>1, BufferStep, HeadStep
<1>4. JobInv' /\ StrInv'
  BY <1>1, JobStep, StrStep
<1>5. TextInv' /\ SaidInv'
  BY <1>1, TextStep, SaidStep
<1> QED
  BY <1>2, <1>3, <1>4, <1>5 DEF IInv

\* What the firmware keeps between its buffer, the jobs on their way and the reports on
\* theirs, whatever the interrupt does to a clearing (main, esp_at_command).
THEOREM ArmInvariance == Spec => []IInv
<1>1. Init => IInv
  BY ArmInit
<1>2. IInv /\ [Next]_vars => IInv'
  BY ArmStep
<1> QED
  BY <1>1, <1>2, PTL DEF Spec

\* The interrupt never writes beyond cb_data, and every variable keeps to its kind
\* (HAL_UART_RxCpltCallback).
THEOREM ArmTypeCorrect == Spec => []TypeOK
<1>1. IInv => TypeOK
  BY DEF IInv
<1> QED
  BY <1>1, ArmInvariance, PTL

\* The main loop copies only when there is a '[' to copy from, whatever was torn, lost
\* or cleared under it (main, HAL_UART_RxCpltCallback).
THEOREM CopyFinds == Spec => []CopyFindsMessage
<1>1. IInv => CopyFindsMessage
  <2> SUFFICES ASSUME IInv, main.pc = "copy" PROVE \E i \in DOMAIN Visible : Visible[i].k \in Body
    BY DEF CopyFindsMessage
  <2>1. TypeOK /\ BufferInv /\ ~Clearing
    BY DEF IInv, Clearing
  <2>2. length \in 0..Cap /\ Cap \in Nat
    BY <2>1, Numbers
  <2>3. PICK i \in 1..length : buf[i].k \in Body
    BY <2>1 DEF BufferInv
  <2>4. PICK e \in 0..Cap : /\ DOMAIN Visible = 1..e /\ \A j \in 1..e : Visible[j] = buf[j]
                            /\ e # Cap => buf[e + 1] = Nul
    BY <2>1, VisibleIs
  <2>5. ~(e + 1 <= length)
    <3>1. e + 1 <= length => e + 1 \in 1..length /\ e # Cap
      BY <2>2
    <3> QED
      BY <2>1, <2>4, <3>1 DEF BufferInv
  <2>6. i \in 1..e
    BY <2>2, <2>5
  <2> QED
    BY <2>3, <2>4, <2>6
<1> QED
  BY <1>1, ArmInvariance, PTL

\* No joint jumps, whatever the firmware is told, and when (move_direction, main).
THEOREM ArmGentle == Spec => JointsMoveGently
<1>1. IInv /\ [Next]_vars => [\A j \in Joint : Close(pwm[j], pwm'[j])]_pwm
  BY Moves DEF IInv
<1> QED
  BY <1>1, ArmInvariance, PTL DEF Spec, JointsMoveGently

-----------------------------------------------------------------------------
(* The firmware implements ArmService *)

LEMMA StartsServing == Init => Service!Init
<1> SUFFICES ASSUME Init PROVE Service!Init
  OBVIOUS
<1>1. main.pc = "loop"
  BY IdleIs DEF Init, Pcs
<1>2. Stage = "rest"
  BY <1>1, StageIs DEF AtPcs
<1> QED
  BY <1>2 DEF Init, Service!Init

LEMMA MainServes ==
    ASSUME TypeOK, StrInv, Main
    PROVE  [Service!Next]_(Service!armVars)
<1>1. UNCHANGED <<heard, said>>
  BY MainShares
<1>2. CASE UNCHANGED <<last, placed>> /\ Stage' = Stage
  BY <1>1, <1>2 DEF Service!armVars
<1>3. CASE Silent
  <2>1. CASE Stage = "taken" /\ Stage' = "gripped"
    BY <1>1, <1>3, <2>1 DEF Silent, Service!Next, Service!Grip
  <2>2. CASE Stage # "rest" /\ Stage' = "rest"
    BY <1>1, <1>3, <2>2 DEF Silent, Service!Next, Service!Rest
  <2> QED
    BY <1>2, <1>3, <2>1, <2>2 DEF Silent
<1>4. CASE Handing \/ Handed \/ Reconnects
  BY <1>2, <1>4 DEF Handing, Handed, Reconnects
<1>5. CASE Took
  <2>1. last' \in 1..Len(heard)
    <3>1. last \in Nat /\ Len(heard) \in Nat
      BY Numbers
    <3>2. last' = last \/ (Event /\ last' = main.str[1].n)
      BY MainShares, EventIs
    <3>3. last' \in Nat
      BY <3>1, <3>2, EventIs
    <3> QED
      BY <1>5, <3>1, <3>3 DEF Took
  <2>2. Service!Take(last')
    BY <1>1, <1>5 DEF Took, Service!Take
  <2> QED
    BY <2>1, <2>2 DEF Service!Next
<1>6. CASE PutItDown
  BY <1>1, <1>6 DEF PutItDown, Service!Next, Service!PutDown
<1> QED
  BY <1>3, <1>4, <1>5, <1>6, Ways

LEMMA OutsideServes ==
    ASSUME TypeOK, JobInv, SaidInv, Outside
    PROVE  [Service!Next]_(Service!armVars)
<1>1. UNCHANGED <<main, last, placed>>
  BY OutsideSends
<1>2. Stage' = Stage
  BY <1>1 DEF Stage
<1>3. CASE UNCHANGED <<heard, said>>
  BY <1>1, <1>2, <1>3 DEF Service!armVars
<1>4. CASE EspTakes
  <2>1. heard' = heard
    BY <1>4 DEF EspTakes
  <2>2. CASE esp.cmd = "data" /\ esp.text # NoReport /\ said' = Append(said, esp.text)
    <3>1. esp.text \in Out /\ esp.text \in ReportType /\ esp.text.job \in Nat
      BY <2>2, OutType DEF Out
    <3>2. esp.text.job <= last /\ (esp.text.done => esp.text.job \in placed)
      BY <3>1 DEF SaidInv
    <3>3. esp.text = [job |-> esp.text.job, done |-> esp.text.done] /\ esp.text.done \in BOOLEAN
      BY <3>1 DEF ReportType
    <3>4. placed \subseteq 1..last /\ last \in Nat
      BY Numbers DEF TypeOK
    <3>5. 0 < esp.text.job
      <4>1. CASE esp.text.done
        <5>1. esp.text.job \in 1..last
          BY <3>2, <3>4, <4>1
        <5> QED
          BY <3>4, <5>1
      <4>2. CASE ~esp.text.done
        <5>1. esp.text.job # 0
          BY <2>2, <3>3, <4>2 DEF NoReport
        <5> QED
          BY <3>1, <5>1
      <4> QED
        BY <4>1, <4>2
    <3>6. said # <<>> => Service!Later(esp.text, said[Len(said)])
      BY <2>2 DEF SaidInv
    <3>7. Service!Say(esp.text)
      BY <1>1, <1>2, <2>1, <2>2, <3>2, <3>5, <3>6 DEF Service!Say
    <3>8. esp.text.job \in 1..last
      BY <3>1, <3>2, <3>4, <3>5
    <3>9. \E n \in 1..last, d \in BOOLEAN : Service!Say([job |-> n, done |-> d])
      BY <3>3, <3>7, <3>8
    <3> QED
      BY <3>9 DEF Service!Next
  <2>3. CASE said' = said
    BY <1>3, <2>1, <2>3
  <2> QED
    BY <1>4, <2>2, <2>3 DEF EspTakes
<1>5. CASE \E j \in Job : Orders(j)
  <2>1. PICK j \in Job : Orders(j)
    BY <1>5
  <2>2. Service!Hear(j)
    BY <1>1, <1>2, <2>1 DEF Orders, Service!Hear
  <2> QED
    BY <2>2 DEF Service!Next
<1>6. CASE EspAnswers \/ EspLoses \/ \E k \in {"again", "text"} : Says(k)
  BY <1>3, <1>6 DEF EspAnswers, EspLoses, Says, serviceVars
<1> QED
  BY <1>4, <1>5, <1>6 DEF Outside

\* The firmware takes jobs in order, grips before it puts down, and reports only what it
\* did, in that order, whatever the buffer loses (main, esp_event, esp_at_command).
THEOREM ArmRefinement == Spec => ArmRefined
<1>1. Init => Service!Init
  BY StartsServing
<1>2. IInv /\ [Next]_vars => [Service!Next]_(Service!armVars)
  <2> SUFFICES ASSUME IInv, [Next]_vars PROVE [Service!Next]_(Service!armVars)
    OBVIOUS
  <2>1. TypeOK /\ JobInv /\ StrInv /\ SaidInv
    BY DEF IInv
  <2>2. CASE UNCHANGED <<heard, last, placed, said, main>>
    BY <2>2 DEF Service!armVars, Stage
  <2>3. CASE Interrupt
    BY <2>1, <2>2, <2>3, InterruptIs DEF serviceVars
  <2>4. CASE UNCHANGED vars
    BY <2>2, <2>4 DEF vars, serviceVars
  <2> QED
    BY <2>1, <2>3, <2>4, MainServes, OutsideServes DEF Next
<1> QED
  BY <1>1, <1>2, ArmInvariance, PTL DEF Spec, ArmRefined, Service!Spec
=============================================================================
