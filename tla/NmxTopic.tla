------------------------------ MODULE NmxTopic ------------------------------
(***************************************************************************)
(* What the gateway promises about the topic /nmx_channel_01: tasks leave  *)
(* in the order they were published, none twice, and a COMMAND is issued   *)
(* only against a permit -- the first one of a manager's life, or a READY  *)
(* read from the robot.  Detailed by RcpManager, which implements it.      *)
(***************************************************************************)
EXTENDS Naturals, Sequences

CONSTANTS
    Task,        \* what a conveyer publishes: records with a Boolean field detect
    Capacity     \* mq_maxmsg of the topic

VARIABLES
    log,         \* every task the topic had at the start or accepted, oldest first
    taken,       \* how many of them the subscriber has taken since
    commands,    \* COMMANDs issued: the position in log and the task sent
    permit       \* may the next COMMAND be issued?

topicVars == <<log, taken, commands, permit>>

Init ==
    /\ log \in Seq(Task) /\ Len(log) <= Capacity
    /\ taken = 0
    /\ commands = <<>>
    /\ permit = TRUE

Publish(t) ==
    /\ Len(log) - taken < Capacity
    /\ log' = Append(log, t)
    /\ UNCHANGED <<taken, commands, permit>>

Take ==
    /\ taken < Len(log)
    /\ taken' = taken + 1
    /\ UNCHANGED <<log, commands, permit>>

\* A READY was read, or the manager starts anew.
Permit ==
    /\ permit' = TRUE
    /\ UNCHANGED <<log, taken, commands>>

\* Only the task taken last can be commanded, once, and only if it says that
\* an object was detected.
Issue ==
    /\ permit
    /\ taken > 0
    /\ \A i \in DOMAIN commands : commands[i].pos < taken
    /\ log[taken].detect
    /\ commands' = Append(commands, [pos |-> taken, task |-> log[taken]])
    /\ permit' = FALSE
    /\ UNCHANGED <<log, taken>>

Next ==
    \/ \E t \in Task : Publish(t)
    \/ Take
    \/ Permit
    \/ Issue

Spec == Init /\ [][Next]_topicVars
=============================================================================
