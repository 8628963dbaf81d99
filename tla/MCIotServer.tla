---------------------------- MODULE MCIotServer ----------------------------
(* The instances TLC checks: the .cfg files give their bounds. *)
EXTENDS IotServer

\* conveyor/README.md:127: the server hands every message it received on to its client.
\* So what reaches a client from another was said by that one, to this client or to all.
\* It needs the token after the receiver's name to be the message's own (strtok), and a
\* number to stay its receiver's until it is written to (send_msg).
MailTrue ==
    \A c \in Conn : \A k \in DOMAIN inbox[c] :
        LET m == inbox[c][k] IN
        m.to # Server =>
            /\ m.n \in DOMAIN spoken /\ spoken[m.n] = [from |-> m.from, to |-> m.to]
            /\ m.to \in {cid[c], Everybody}
=============================================================================
