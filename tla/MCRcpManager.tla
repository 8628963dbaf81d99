---------------------------- MODULE MCRcpManager ----------------------------
(***************************************************************************)
(* The instance TLC checks: the configurations give the device table one   *)
(* conveyer, one robot, the id of row 2 and one stranger.  Beside the      *)
(* properties of RcpManager it states what the documentation and the       *)
(* comments say of the manager and its behaviours contradict.              *)
(***************************************************************************)
EXTENDS RcpManager

\* gateway/README.md:119 -- epoll serves connection requests asynchronously: a
\* connection request does not wait for ever, even if one allows the joins of
\* uninitialised threads to hang.
Waiting(c) == \E i \in DOMAIN backlog : backlog[i] = c
ConnectionsAccepted == \A c \in Conn : Waiting(c) ~> (~Waiting(c) \/ broker.pc = "hung")

\* rcp_manager.c:79-81 -- a user who is connected is told "Already logged": no
\* two open connections of one device are both authenticated.
OneSessionPerDevice ==
    \A c, d \in welcome :
        c # d /\ cid[c] = cid[d] /\ peer[c] = "up" /\ peer[d] = "up" => ~(Held(c) /\ Held(d))
=============================================================================
