----------------------------- MODULE ArmService -----------------------------
(***************************************************************************)
(* What the line may expect of the robot arm: it takes the jobs it hears   *)
(* in order, each at most once and one at a time, puts an object down only *)
(* after it gripped it, and says only what it did.  It may overhear a job, *)
(* and may keep a report to itself.  RobotArm implements it.               *)
(***************************************************************************)
EXTENDS Integers, Sequences

CONSTANT Job

VARIABLES
    heard,      \* every job ever sent to the arm, oldest first
    last,       \* the one it took last, 0 before the first
    stage,      \* how far it is with that one
    placed,     \* the jobs whose object it put down
    said        \* every report, oldest first: the job, and is it done?

armVars == <<heard, last, stage, placed, said>>

Report == [job : Nat, done : BOOLEAN]

\* A job is reported when it begins and when it is done.
Later(r, s) == s.job < r.job \/ (s.job = r.job /\ r.done /\ ~s.done)

Init ==
    /\ heard = <<>> /\ said = <<>>
    /\ last = 0 /\ stage = "rest" /\ placed = {}

Hear(j) ==
    /\ heard' = Append(heard, j)
    /\ UNCHANGED <<last, stage, placed, said>>

Take(n) ==
    /\ stage = "rest"
    /\ last < n /\ n <= Len(heard)
    /\ last' = n
    /\ stage' = "taken"
    /\ UNCHANGED <<heard, placed, said>>

Grip ==
    /\ stage = "taken"
    /\ stage' = "gripped"
    /\ UNCHANGED <<heard, last, placed, said>>

PutDown ==
    /\ stage = "gripped"
    /\ stage' = "placed"
    /\ placed' = placed \cup {last}
    /\ UNCHANGED <<heard, last, said>>

Rest ==
    /\ stage # "rest"
    /\ stage' = "rest"
    /\ UNCHANGED <<heard, last, placed, said>>

Say(r) ==
    /\ 0 < r.job /\ r.job <= last
    /\ r.done => r.job \in placed
    /\ said # <<>> => Later(r, said[Len(said)])
    /\ said' = Append(said, r)
    /\ UNCHANGED <<heard, last, stage, placed>>

Next ==
    \/ (\E j \in Job : Hear(j))
    \/ (\E n \in 1..Len(heard) : Take(n))
    \/ Grip \/ PutDown \/ Rest
    \/ \E n \in 1..last, d \in BOOLEAN : Say([job |-> n, done |-> d])

Spec == Init /\ [][Next]_armVars
=============================================================================
