-------------------------- MODULE ArmMotionProofs --------------------------
(***************************************************************************)
(* The joints move gently for every position, home and stride: PulsesInv   *)
(* is inductive.  Its argument: a loop that does nothing starts where it   *)
(* would end, so skipping it leaves no joint away from where the next loop *)
(* of that joint starts.                                                   *)
(***************************************************************************)
EXTENDS ArmMotion, WellFoundedInduction, TLAPS

\* The loop that takes joint j home, and where j is before loop k of a move to p.
Back(j) == IF j = 1 THEN 7 ELSE j + 3
Where(j, k, p) == IF j < k /\ k <= Back(j) THEN Pos[p][j] ELSE Home[j]
AllWhere(reg, k, p) == \A j \in Joint : Close(reg[j], Where(j, k, p))
-----------------------------------------------------------------------------
(* The loops *)

LEMMA JointOfIs ==
    /\ JointOf[1] = 1 /\ JointOf[2] = 2 /\ JointOf[3] = 3
    /\ JointOf[GripLeg] = 0
    /\ JointOf[5] = 2 /\ JointOf[6] = 3 /\ JointOf[7] = 1
BY DEF JointOf, GripLeg

\* A joint is moved by the loop of its number and by Back's, from home and to home.
LEMMA LegsOfJoint ==
    ASSUME NEW k \in Legs, k # GripLeg
    PROVE  /\ JointOf[k] \in Joint
           /\ \A j \in Joint : JointOf[k] = j <=> (k = j \/ k = Back(j))
           /\ k < GripLeg <=> k = JointOf[k]
<1>1. k = 1 \/ k = 2 \/ k = 3 \/ k = 5 \/ k = 6 \/ k = 7
  BY DEF Legs, GripLeg
<1> QED
  BY <1>1, JointOfIs DEF Joint, Back, GripLeg

LEMMA Widths ==
    ASSUME NEW p \in Place, NEW j \in Joint
    PROVE  Pos[p][j] \in Nat /\ Home[j] \in Nat
<1>1. Pos[p] \in [Joint -> Nat] /\ Home \in [Joint -> Nat]
  BY MotionAssumption
<1> QED
  BY <1>1

LEMMA EndsType ==
    ASSUME NEW k \in Legs, NEW p \in Place, NEW close \in BOOLEAN
    PROVE  From(k, p, close) \in Nat /\ To(k, p, close) \in Nat
<1>1. Near(k) \in Nat /\ Away(k, p) \in Nat
  <2>1. CASE k = GripLeg
    BY <2>1, MotionAssumption DEF Near, Away
  <2>2. CASE k # GripLeg
    BY <2>2, LegsOfJoint, Widths DEF Near, Away
  <2> QED
    BY <2>1, <2>2
<1> QED
  BY <1>1 DEF From, To

LEMMA EndsAreWhere ==
    ASSUME NEW k \in Legs, k # GripLeg, NEW p \in Place, NEW close \in BOOLEAN
    PROVE  /\ From(k, p, close) = Where(JointOf[k], k, p)
           /\ To(k, p, close) = Where(JointOf[k], k + 1, p)
<1>1. JointOf[k] \in Joint /\ (k = JointOf[k] \/ k = Back(JointOf[k])) /\ (k < GripLeg <=> k = JointOf[k])
  BY LegsOfJoint
<1>2. CASE k = JointOf[k]
  <2>1. Outward(k, close) /\ ~(JointOf[k] < k) /\ JointOf[k] < k + 1 /\ k + 1 <= Back(JointOf[k])
    BY <1>1, <1>2 DEF Outward, Back, Joint
  <2> QED
    BY <1>1, <2>1 DEF From, To, Near, Away, Where
<1>3. CASE k # JointOf[k]
  <2>1. /\ ~Outward(k, close) /\ JointOf[k] < k /\ k <= Back(JointOf[k])
        /\ ~(k + 1 <= Back(JointOf[k]))
    BY <1>1, <1>3 DEF Outward, Back, Joint
  <2> QED
    BY <1>1, <2>1 DEF From, To, Near, Away, Where
<1> QED
  BY <1>2, <1>3

\* A loop that has nothing to do begins where it ends.
LEMMA SkippedIsThere ==
    ASSUME NEW k \in Legs, NEW p \in Place, NEW close \in BOOLEAN,
           ~Runs(k, From(k, p, close), p, close)
    PROVE  From(k, p, close) = To(k, p, close)
BY EndsType DEF Runs, Upward

\* Skipping loops moves no joint away from where it should be.
LEMMA SkippingKeeps ==
    ASSUME NEW p \in Place, NEW close \in BOOLEAN, NEW k \in 1 .. 8, NEW n \in k .. 8,
           \A l \in k .. n - 1 : ~Runs(l, From(l, p, close), p, close),
           NEW j \in Joint
    PROVE  Where(j, n, p) = Where(j, k, p)
<1>1. j \in Legs /\ j # GripLeg /\ Back(j) \in Legs /\ Back(j) # GripLeg /\ j < Back(j)
  BY DEF Joint, Back, Legs, GripLeg
<1>2. JointOf[j] = j /\ JointOf[Back(j)] = j
  BY <1>1, LegsOfJoint
<1>3. ASSUME NEW l \in k .. n - 1, l = j \/ l = Back(j) PROVE Where(j, l, p) = Where(j, l + 1, p)
  <2>1. l \in Legs /\ l # GripLeg /\ JointOf[l] = j
    BY <1>1, <1>2, <1>3
  <2> QED
    BY <2>1, EndsAreWhere, SkippedIsThere
<1>4. /\ j < j + 1 /\ ~(j < j) /\ j + 1 <= Back(j)
      /\ j < Back(j) /\ ~(Back(j) + 1 <= Back(j))
  BY <1>1 DEF Joint, Legs
<1>5. ASSUME j \in k .. n - 1 \/ Back(j) \in k .. n - 1 PROVE Pos[p][j] = Home[j]
  BY <1>3, <1>4, <1>5 DEF Where
<1>6. CASE j \in k .. n - 1 \/ Back(j) \in k .. n - 1
  BY <1>5, <1>6 DEF Where
<1>7. CASE ~(j \in k .. n - 1 \/ Back(j) \in k .. n - 1)
  <2>1. j \in Int /\ Back(j) \in Int /\ k \in Int /\ n \in Int /\ k <= n
    BY <1>1 DEF Joint, Legs
  <2>2. (j < k <=> j < n) /\ (k <= Back(j) <=> n <= Back(j))
    BY <1>7, <2>1
  <2> QED
    BY <2>2 DEF Where
<1> QED
  BY <1>6, <1>7

-----------------------------------------------------------------------------
(* The next loop *)

LEMMA FollowingIs ==
    ASSUME NEW k \in 1 .. 8, NEW p \in Place, NEW close \in BOOLEAN
    PROVE  \/ /\ Following(k, p, close) = Still
              /\ \A l \in k .. 7 : ~Runs(l, From(l, p, close), p, close)
           \/ \E n \in k .. 7 :
                /\ Following(k, p, close)
                     = [leg |-> n, cur |-> From(n, p, close), place |-> p, close |-> close]
                /\ Runs(n, From(n, p, close), p, close)
                /\ \A l \in k .. n - 1 : ~Runs(l, From(l, p, close), p, close)
<1> DEFINE running == {l \in k .. 7 : Runs(l, From(l, p, close), p, close)}
           next == CHOOSE l \in running : \A m \in running : l <= m
           R == OpToRel(<, Nat)
<1>1. CASE running = {}
  BY <1>1 DEF Following
<1>2. CASE running # {}
  <2>1. running \subseteq Nat
    OBVIOUS
  <2>2. IsWellFoundedOn(R, Nat)
    BY NatLessThanWellFounded
  <2>3. \A i, j \in running : j < i => <<j, i>> \in R
    BY <2>1 DEF OpToRel
  <2> HIDE DEF R, running
  <2>4. PICK i \in running : \A j \in running : ~(<<j, i>> \in R)
    BY <1>2, <2>1, <2>2, WFMin
  <2>5. \A j \in running : ~(j < i)
    BY <2>3, <2>4, Zenon
  <2>6. \A j \in running : i <= j
    BY <2>1, <2>5
  <2>7. next \in running /\ \A j \in running : next <= j
    BY <2>6
  <2>8. Following(k, p, close)
          = [leg |-> next, cur |-> From(next, p, close), place |-> p, close |-> close]
    BY <1>2 DEF Following, running
  <2> HIDE DEF next
  <2>9. next \in k .. 7 /\ Runs(next, From(next, p, close), p, close)
    BY <2>7 DEF running
  <2>10. \A l \in k .. next - 1 : ~Runs(l, From(l, p, close), p, close)
    BY <2>7, <2>9 DEF running
  <2> QED
    BY <2>8, <2>9, <2>10
<1> QED
  BY <1>1, <1>2

-----------------------------------------------------------------------------
(* The invariant *)

MotionInv == MotionTypeOK /\ PulsesInv

LEMMA StillType ==
    /\ Still \in [leg : Legs \cup {AtRest}, cur : Nat, place : Place, close : BOOLEAN]
    /\ Still.leg = AtRest
BY MotionAssumption DEF Still

\* A joint that no loop moves is where the loop that runs takes it to be.
LEMMA OthersWhere ==
    ASSUME NEW n \in Legs \cup {AtRest}, NEW j \in Joint, NEW p \in Place,
           n = AtRest \/ JointOf[n] # j
    PROVE  Where(j, n, p) = IF j < n /\ n < (IF j = 1 THEN 7 ELSE j + 3) THEN Pos[p][j] ELSE Home[j]
<1>1. Back(j) = (IF j = 1 THEN 7 ELSE j + 3) /\ Back(j) \in 1 .. 7 /\ Back(j) # GripLeg
  BY DEF Back, Joint, GripLeg
<1>2. n # Back(j)
  <2>1. JointOf[Back(j)] = j
    BY <1>1, LegsOfJoint DEF Legs
  <2> QED
    BY <1>1, <2>1 DEF AtRest
<1>3. n \in Int
  BY DEF Legs, AtRest
<1> QED
  BY <1>1, <1>2, <1>3 DEF Where

\* The invariant holds again when one loop is over and the next one takes over.
LEMMA FollowingInv ==
    ASSUME NEW k \in 1 .. 8, NEW p \in Place, NEW close \in BOOLEAN,
           pwm' \in [Joint -> Nat], gripper' \in Nat,
           AllWhere(pwm', k, p), move' = Following(k, p, close)
    PROVE  MotionInv'
<1>1. CASE /\ Following(k, p, close) = Still
           /\ \A l \in k .. 7 : ~Runs(l, From(l, p, close), p, close)
  <2>1. move' = Still /\ move'.leg = AtRest
    BY <1>1, StillType
  <2>2. MotionTypeOK'
    BY <2>1, StillType DEF MotionTypeOK
  <2>3. ASSUME NEW j \in Joint PROVE ~Goes(j)' /\ ~IsOut(j)' /\ Close(pwm'[j], Home[j])
    <3>1. \A l \in k .. 8 - 1 : ~Runs(l, From(l, p, close), p, close)
      BY <1>1
    <3>2. Where(j, 8, p) = Where(j, k, p)
      BY <3>1, SkippingKeeps
    <3>3. Where(j, 8, p) = Home[j]
      BY DEF Where, Back, Joint
    <3> QED
      BY <2>1, <3>2, <3>3 DEF AllWhere, Goes, IsOut, AtRest, Joint
  <2>4. PulsesInv'
    BY <2>1, <2>3 DEF PulsesInv
  <2> QED
    BY <2>2, <2>4 DEF MotionInv
<1>2. ASSUME NEW n \in k .. 7,
             Following(k, p, close)
               = [leg |-> n, cur |-> From(n, p, close), place |-> p, close |-> close],
             Runs(n, From(n, p, close), p, close),
             \A l \in k .. n - 1 : ~Runs(l, From(l, p, close), p, close)
      PROVE  MotionInv'
  <2>1. /\ move' = [leg |-> n, cur |-> From(n, p, close), place |-> p, close |-> close]
        /\ move'.leg = n /\ move'.cur = From(n, p, close) /\ move'.place = p /\ move'.close = close
        /\ n \in Legs /\ n # AtRest /\ n \in k .. 8
    BY <1>2 DEF Legs, AtRest
  <2>2. From(n, p, close) \in Nat
    BY <2>1, EndsType
  <2>3. MotionTypeOK'
    BY <2>1, <2>2 DEF MotionTypeOK
  <2>4. Start' = From(n, p, close)
    BY <2>1 DEF Start
  <2>5. ASSUME NEW j \in Joint PROVE Close(pwm'[j], Where(j, n, p))
    BY <1>2, <2>1, SkippingKeeps DEF AllWhere
  <2>6. ASSUME NEW j \in Joint, Goes(j)' PROVE move'.cur = Start' /\ Close(pwm'[j], Start')
    <3>1. JointOf[n] = j /\ n # GripLeg
      BY <2>1, <2>6, JointOfIs DEF Goes, Joint
    <3>2. From(n, p, close) = Where(j, n, p)
      BY <2>1, <3>1, EndsAreWhere
    <3> QED
      BY <2>1, <2>4, <2>5, <3>2
  <2>7. ASSUME NEW j \in Joint, ~Goes(j)'
        PROVE  Close(pwm'[j], IF IsOut(j)' THEN Pos[move'.place][j] ELSE Home[j])
    <3>1. JointOf[n] # j
      BY <2>1, <2>7 DEF Goes
    <3>2. Where(j, n, p) = IF IsOut(j)' THEN Pos[p][j] ELSE Home[j]
      BY <2>1, <3>1, OthersWhere DEF IsOut
    <3> QED
      BY <2>1, <2>5, <3>2
  <2>8. PulsesInv'
    BY <1>2, <2>1, <2>6, <2>7 DEF PulsesInv
  <2> QED
    BY <2>3, <2>8 DEF MotionInv
<1> QED
  BY <1>1, <1>2, FollowingIs

LEMMA InitInv == MotionInit => MotionInv
<1> SUFFICES ASSUME MotionInit PROVE MotionInv
  OBVIOUS
<1>1. move = Still /\ move.leg = AtRest /\ pwm = Home
  BY StillType DEF MotionInit
<1>2. MotionTypeOK
  BY <1>1, StillType, MotionAssumption DEF MotionInit, MotionTypeOK
<1>3. ASSUME NEW j \in Joint PROVE ~Goes(j) /\ ~IsOut(j) /\ Close(pwm[j], Home[j])
  <2>1. Home[j] \in Nat /\ MOTOR_MOVE \in Nat
    BY MotionAssumption
  <2> QED
    BY <1>1, <2>1 DEF Goes, IsOut, AtRest, Joint, Close
<1> QED
  BY <1>1, <1>2, <1>3 DEF MotionInv, PulsesInv

LEMMA MoveToInv ==
    ASSUME MotionInv, NEW p \in Place, NEW close \in BOOLEAN, MoveTo(p, close)
    PROVE  MotionInv' /\ pwm' = pwm
<1>1. pwm' = pwm /\ gripper' = gripper /\ move.leg = AtRest /\ move' = Following(1, p, close)
  BY DEF MoveTo
<1>2. ASSUME NEW j \in Joint PROVE Close(pwm[j], Where(j, 1, p))
  <2>1. ~Goes(j) /\ ~IsOut(j)
    BY <1>1 DEF Goes, IsOut, AtRest, Joint
  <2>2. Where(j, 1, p) = Home[j]
    BY DEF Where, Joint
  <2> QED
    BY <2>1, <2>2 DEF MotionInv, PulsesInv
<1>3. AllWhere(pwm', 1, p)
  BY <1>1, <1>2 DEF AllWhere
<1>4. pwm' \in [Joint -> Nat] /\ gripper' \in Nat
  BY <1>1 DEF MotionInv, MotionTypeOK
<1> QED
  BY <1>1, <1>3, <1>4, FollowingInv

\* A loop of another joint changes nothing for this one.
LEMMA PassingKeeps ==
    ASSUME NEW k \in Legs, NEW j \in Joint, JointOf[k] # j, NEW p \in Place
    PROVE  Where(j, k + 1, p) = Where(j, k, p)
<1>1. j \in Legs /\ j # GripLeg /\ Back(j) \in Legs /\ Back(j) # GripLeg
  BY DEF Joint, Back, Legs, GripLeg
<1>2. JointOf[j] = j /\ JointOf[Back(j)] = j
  BY <1>1, LegsOfJoint DEF Joint, GripLeg
<1>3. k # j /\ k # Back(j)
  BY <1>2
<1> QED
  BY <1>1, <1>3 DEF Where, Legs

\* What every stride of a loop preserves, and where the loop leaves the register.
LEMMA PulseInv ==
    ASSUME MotionInv, Pulse
    PROVE  MotionInv' /\ \A j \in Joint : Close(pwm[j], pwm'[j])
<1> DEFINE leg == move.leg
           c == move.cur
           n == IF Up THEN c + Stride(leg) ELSE c - Stride(leg)
<1>1. /\ leg \in Legs /\ leg # AtRest /\ move.place \in Place /\ move.close \in BOOLEAN
      /\ c \in Nat /\ pwm \in [Joint -> Nat] /\ gripper \in Nat
      /\ MOTOR_MOVE \in Nat /\ Stride(leg) \in Nat
  BY MotionAssumption DEF MotionInv, MotionTypeOK, Pulse, AtRest, Legs, Stride
<1>2. Start \in Nat /\ Goal \in Nat /\ Up = (Start <= Goal)
  BY <1>1, EndsType DEF Start, Goal, Up, Upward
<1>3. Runs(leg, c, move.place, move.close)
  BY <1>1 DEF MotionInv, PulsesInv
<1>4. \A v : Runs(leg, v, move.place, move.close) = IF Up THEN v < Goal ELSE v > Goal
  BY DEF Runs, Up, Goal
<1>5. n \in Int
  BY <1>1
<1>6. move' = IF Runs(leg, n, move.place, move.close)
                THEN [move EXCEPT !.cur = n]
                ELSE Following(leg + 1, move.place, move.close)
  BY DEF Pulse, Up
<1>7. /\ leg = GripLeg => gripper' = c /\ pwm' = pwm
      /\ leg # GripLeg => pwm' = [pwm EXCEPT ![JointOf[leg]] = c] /\ gripper' = gripper
  BY DEF Pulse
<1>8. pwm' \in [Joint -> Nat] /\ gripper' \in Nat
  BY <1>1, <1>7, LegsOfJoint
<1>9. \A j \in Joint : Goes(j) <=> JointOf[leg] = j
  BY <1>1 DEF Goes
<1>10. ASSUME NEW j \in Joint, Goes(j)
       PROVE  /\ leg # GripLeg /\ pwm'[j] = c /\ Stride(leg) = MOTOR_MOVE
              /\ Close(pwm[j], c)
  <2>1. leg # GripLeg /\ JointOf[leg] = j
    BY <1>9, <1>10, JointOfIs DEF Joint
  <2>2. \/ c = Start /\ Close(pwm[j], Start)
        \/ c = IF Up THEN pwm[j] + MOTOR_MOVE ELSE pwm[j] - MOTOR_MOVE
    BY <1>10 DEF MotionInv, PulsesInv
  <2>3. Close(pwm[j], c)
    BY <1>1, <2>2 DEF Close
  <2> QED
    BY <1>1, <1>7, <2>1, <2>3 DEF Stride
<1>11. ASSUME NEW j \in Joint, ~Goes(j)
       PROVE  /\ pwm'[j] = pwm[j] /\ JointOf[leg] # j
              /\ Close(pwm[j], IF IsOut(j) THEN Pos[move.place][j] ELSE Home[j])
  <2>1. JointOf[leg] # j
    BY <1>9, <1>11
  <2> QED
    BY <1>1, <1>7, <1>11, <2>1 DEF MotionInv, PulsesInv
<1>12. \A j \in Joint : Close(pwm[j], pwm'[j])
  <2>1. ASSUME NEW j \in Joint PROVE Close(pwm[j], pwm[j])
    BY <1>1 DEF Close
  <2> QED
    BY <1>10, <1>11, <2>1
<1> HIDE DEF n
<1>13. ASSUME Runs(leg, n, move.place, move.close) PROVE MotionInv'
  <2>1. n \in Nat
    BY <1>1, <1>2, <1>4, <1>5, <1>13 DEF n
  <2>2. move' = [move EXCEPT !.cur = n]
    BY <1>6, <1>13
  <2>3. /\ MotionTypeOK' /\ move'.leg = leg /\ move'.cur = n
        /\ move'.place = move.place /\ move'.close = move.close
    BY <1>8, <2>1, <2>2 DEF MotionInv, MotionTypeOK
  <2>4. Start' = Start /\ Goal' = Goal /\ (Up' <=> Up)
    BY <2>3 DEF Start, Goal, Up
  <2>5. \A j \in Joint : (Goes(j)' <=> Goes(j)) /\ (IsOut(j)' <=> IsOut(j))
    BY <2>3 DEF Goes, IsOut
  <2>6. ASSUME NEW j \in Joint, Goes(j)
        PROVE  /\ n = IF Up THEN pwm'[j] + MOTOR_MOVE ELSE pwm'[j] - MOTOR_MOVE
               /\ IF Up THEN pwm'[j] < Goal ELSE pwm'[j] > Goal
    BY <1>3, <1>4, <1>10, <2>6 DEF n
  <2>7. Runs(move.leg, move.cur, move.place, move.close)'
    BY <1>13, <2>3
  <2>8. PulsesInv'
    BY <1>11, <2>3, <2>4, <2>5, <2>6, <2>7 DEF PulsesInv
  <2> QED
    BY <2>3, <2>8 DEF MotionInv
<1>14. ASSUME ~Runs(leg, n, move.place, move.close) PROVE MotionInv'
  <2>1. ASSUME NEW j \in Joint PROVE Close(pwm'[j], Where(j, leg + 1, move.place))
    <3>1. CASE Goes(j)
      <4>1. Where(j, leg + 1, move.place) = Goal
        BY <1>1, <1>9, <1>10, <3>1, EndsAreWhere DEF Goal
      <4>2. n = IF Up THEN c + MOTOR_MOVE ELSE c - MOTOR_MOVE
        BY <1>10, <3>1 DEF n
      <4>3. Close(c, Goal)
        BY <1>1, <1>2, <1>3, <1>4, <1>14, <4>2 DEF Close
      <4> QED
        BY <1>10, <3>1, <4>1, <4>3
    <3>2. CASE ~Goes(j)
      <4>1. Where(j, leg + 1, move.place) = Where(j, leg, move.place)
        BY <1>1, <1>11, <3>2, PassingKeeps
      <4>2. Where(j, leg, move.place) = IF IsOut(j) THEN Pos[move.place][j] ELSE Home[j]
        BY <1>1, <1>11, <3>2, OthersWhere DEF IsOut
      <4> QED
        BY <1>11, <3>2, <4>1, <4>2
    <3> QED
      BY <3>1, <3>2
  <2>2. leg + 1 \in 1 .. 8
    BY <1>1 DEF Legs
  <2>3. move' = Following(leg + 1, move.place, move.close)
    BY <1>6, <1>14
  <2>4. AllWhere(pwm', leg + 1, move.place)
    BY <2>1 DEF AllWhere
  <2> HIDE DEF leg
  <2> QED
    BY <1>1, <1>8, <2>2, <2>3, <2>4, FollowingInv
<1> QED
  BY <1>12, <1>13, <1>14

LEMMA StepInv ==
    ASSUME MotionInv, [MotionNext]_motionVars
    PROVE  MotionInv' /\ [\A j \in Joint : Close(pwm[j], pwm'[j])]_pwm
<1>1. ASSUME NEW p \in Place, NEW close \in BOOLEAN, MoveTo(p, close)
      PROVE  MotionInv' /\ pwm' = pwm
  BY <1>1, MoveToInv
<1>2. CASE Pulse
  BY <1>2, PulseInv
<1>3. CASE UNCHANGED motionVars
  BY <1>3 DEF motionVars, MotionInv, MotionTypeOK, PulsesInv, Goes, IsOut, Start, Goal, Up
<1> QED
  BY <1>1, <1>2, <1>3 DEF MotionNext

\* PulsesInv: while a loop runs its joint stands next to the loop's variable, and every
\* other joint next to where its last loop ended (move_direction).
THEOREM MotionInvariant == MotionSpec => []MotionInv
<1>1. MotionInv /\ [MotionNext]_motionVars => MotionInv'
  BY StepInv
<1> QED
  BY InitInv, <1>1, PTL DEF MotionSpec

\* No compare register of a joint changes by more than MOTOR_MOVE in one step, for every
\* table of positions and every sequence of moves (move_direction).
THEOREM MotionIsGentle == MotionSpec => JointsMoveGently
<1>1. MotionInv /\ [MotionNext]_motionVars => [\A j \in Joint : Close(pwm[j], pwm'[j])]_pwm
  BY StepInv
<1> QED
  BY MotionInvariant, <1>1, PTL DEF MotionSpec, JointsMoveGently
=============================================================================
