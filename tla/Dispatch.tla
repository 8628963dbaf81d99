------------------------------ MODULE Dispatch ------------------------------
(***************************************************************************)
(* What the SQL client promises the robot arm: objects are ordered in the  *)
(* order the camera saw them and none twice in one life of the client,     *)
(* and an order goes out only against a permit: the first one of a life,   *)
(* or a DONE.  Detailed by SqlClient, which implements it.                 *)
(***************************************************************************)
EXTENDS Integers, Sequences

CONSTANT Order      \* orders: records with a field id, a natural number

VARIABLES
    orders,     \* every order ever written, oldest first
    last,       \* the id ordered last in this life, -1 if none was
    permit      \* may an order be written?

dispatchVars == <<orders, last, permit>>

Init ==
    /\ orders = <<>>
    /\ last = -1
    /\ permit = TRUE

Issue(o) ==
    /\ permit
    /\ last < o.id
    /\ orders' = Append(orders, o)
    /\ last' = o.id
    /\ permit' = FALSE

Grant ==
    /\ permit' = TRUE
    /\ UNCHANGED <<orders, last>>

\* The client ends, and is started anew.
Restart ==
    /\ last' = -1
    /\ permit' = TRUE
    /\ UNCHANGED orders

Next == (\E o \in Order : Issue(o)) \/ Grant \/ Restart

Spec == Init /\ [][Next]_dispatchVars
=============================================================================
