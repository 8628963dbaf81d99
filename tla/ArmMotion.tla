----------------------------- MODULE ArmMotion -----------------------------
(***************************************************************************)
(* move_direction of the robot arm (Robot_arm/mathmatics/Core/src/main.c): *)
(* the joints go to a position one after the other, the gripper opens or   *)
(* closes, the joints go home.  A servo follows the pulse width in its     *)
(* compare register at once, so the code changes it in small strides; the  *)
(* loops run to their end exclusively and start from where the arm should  *)
(* be, not from what the register holds.                                   *)
(***************************************************************************)
EXTENDS Integers

CONSTANTS
    Place,          \* positions: over the belt, and one per colour
    Pos,            \* what mathmatics computes: the pulse width of each joint there
    Home,           \* the pulse widths servo_Init sets
    GripHome,       \* gripper_init_pwm
    GripEnd,        \* m_grip_pwm
    MOTOR_MOVE,
    GRIP_MOVE

Joint == 1..3

ASSUME MotionAssumption ==
    /\ Place # {}
    /\ Pos \in [Place -> [Joint -> Nat]] /\ Home \in [Joint -> Nat]
    /\ GripHome \in Nat /\ GripEnd \in Nat /\ GripHome <= GripEnd
    /\ MOTOR_MOVE \in Nat \ {0} /\ GRIP_MOVE \in Nat \ {0}

VARIABLES
    pwm,        \* the compare registers of the joints
    gripper,    \* that of the gripper
    move        \* which loop runs, its variable, the position, and grip_flag

motionVars == <<pwm, gripper, move>>

\* The loops, by the joint each moves; the fourth moves the gripper.
Legs == 1..7
AtRest == 8
GripLeg == 4
JointOf == <<1, 2, 3, 0, 2, 3, 1>>

\* Where a loop starts and what it runs up, or down, to.
Outward(leg, close) == leg < GripLeg \/ (leg = GripLeg /\ close)
Near(leg) == IF leg = GripLeg THEN GripHome ELSE Home[JointOf[leg]]
Away(leg, p) == IF leg = GripLeg THEN GripEnd ELSE Pos[p][JointOf[leg]]
\* Mutant: the way back starts from home.
FromHome(leg, p, close) == Near(leg)
From(leg, p, close) == IF Outward(leg, close) THEN Near(leg) ELSE Away(leg, p)
To(leg, p, close) == IF Outward(leg, close) THEN Away(leg, p) ELSE Near(leg)

Upward(leg, p, close) == From(leg, p, close) <= To(leg, p, close)
Runs(leg, cur, p, close) ==
    IF Upward(leg, p, close) THEN cur < To(leg, p, close) ELSE cur > To(leg, p, close)
Stride(leg) == IF leg = GripLeg THEN GRIP_MOVE ELSE MOTOR_MOVE

\* The first loop from leg on that does anything.
Still == [leg |-> AtRest, cur |-> 0, place |-> CHOOSE p \in Place : TRUE, close |-> FALSE]
Following(leg, p, close) ==
    LET running == {k \in leg..7 : Runs(k, From(k, p, close), p, close)}
        next == CHOOSE k \in running : \A l \in running : k <= l
    IN  IF running = {} THEN Still
        ELSE [leg |-> next, cur |-> From(next, p, close), place |-> p, close |-> close]
-----------------------------------------------------------------------------
MoveTo(p, close) ==
    /\ move.leg = AtRest
    /\ move' = Following(1, p, close)
    /\ UNCHANGED <<pwm, gripper>>

\* __HAL_TIM_SET_COMPARE, the increment, and the end of the loop.
Pulse ==
    /\ move.leg # AtRest
    /\ IF move.leg = GripLeg
         THEN gripper' = move.cur /\ UNCHANGED pwm
         ELSE pwm' = [pwm EXCEPT ![JointOf[move.leg]] = move.cur] /\ UNCHANGED gripper
    /\ LET cur == IF Upward(move.leg, move.place, move.close)
                    THEN move.cur + Stride(move.leg) ELSE move.cur - Stride(move.leg)
       IN  move' = IF Runs(move.leg, cur, move.place, move.close)
                     THEN [move EXCEPT !.cur = cur]
                     ELSE Following(move.leg + 1, move.place, move.close)

MotionInit == pwm = Home /\ gripper = GripHome /\ move = Still

MotionNext == (\E p \in Place, close \in BOOLEAN : MoveTo(p, close)) \/ Pulse

MotionSpec == MotionInit /\ [][MotionNext]_motionVars
-----------------------------------------------------------------------------
MotionTypeOK ==
    /\ pwm \in [Joint -> Nat] /\ gripper \in Nat
    /\ move \in [leg : Legs \cup {AtRest}, cur : Nat, place : Place, close : BOOLEAN]

\* A joint never jumps, whatever the positions and the moves before: each loop takes
\* over where the one before it, or the last move, left the joint.  The gripper may:
\* it jumps when two moves in a row open it, or close it (move_direction).
Close(a, b) == a - b <= MOTOR_MOVE /\ b - a <= MOTOR_MOVE
JointsMoveGently == [][\A j \in Joint : Close(pwm[j], pwm'[j])]_pwm

\* Where each joint is while a loop runs: next to the variable of its own loop, or
\* to where its last loop ended.
Goes(j) == move.leg # AtRest /\ JointOf[move.leg] = j
IsOut(j) == j < move.leg /\ move.leg < (IF j = 1 THEN 7 ELSE j + 3)
Start == From(move.leg, move.place, move.close)
Goal == To(move.leg, move.place, move.close)
Up == Upward(move.leg, move.place, move.close)
PulsesInv ==
    /\ move.leg # AtRest => Runs(move.leg, move.cur, move.place, move.close)
    /\ \A j \in Joint :
         IF Goes(j)
           THEN \/ move.cur = Start /\ Close(pwm[j], Start)
                \/ /\ move.cur = IF Up THEN pwm[j] + MOTOR_MOVE ELSE pwm[j] - MOTOR_MOVE
                   /\ IF Up THEN pwm[j] < Goal ELSE pwm[j] > Goal
           ELSE Close(pwm[j], IF IsOut(j) THEN Pos[move.place][j] ELSE Home[j])
=============================================================================
