---------------------------- MODULE MCRobotArm ----------------------------
(***************************************************************************)
(* The instance TLC checks: one colour, and positions near enough to home  *)
(* for few strides, yet one joint of each kind: moved by the grip only.    *)
(***************************************************************************)
EXTENDS RobotArm

mcPlace == {"grip", "red"}
mcHome == <<1, 1, 2>>
mcPos == [p \in mcPlace |-> IF p = "grip" THEN <<4, 1, 2>> ELSE <<1, 1, 2>>]
mcColorPlace == [c \in {1} |-> "red"]
=============================================================================
