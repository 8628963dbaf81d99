------------------------------- MODULE MCLine -------------------------------
(* The instance TLC checks: Line.cfg and LineDone.cfg give its bounds. *)
EXTENDS Line

\* What conveyor/README.md:118-119 promises of the line: the SQL client handles a new
\* object once the last job is done.  When every object ordered so far has been put down,
\* the first object at the sensor is ordered, or leaves the sensor first, or the client
\* ends.  It needs the arm's report to be the DONE that recv_msg waits for (main.c:896).
Ordered(i) == \E k \in DOMAIN orders : orders[k].id = i
Foremost(i) == i \in With("1") /\ \A j \in With("1") : i <= j
DetectedOrdered ==
    \A i \in Ids :
        (Foremost(i) /\ placed = 1..Len(orders)) ~> (Ordered(i) \/ ~Foremost(i) \/ snd.pc = "off")
=============================================================================
