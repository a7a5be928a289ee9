---------------------------- MODULE RequestReply ----------------------------
(***************************************************************************)
(* What a connection to the server promises: requests are served one at a  *)
(* time, a request is not read before the previous one has been answered,  *)
(* nothing is sent while there is no request, and a closed connection      *)
(* stays closed.  A request that is not run is answered exactly once,      *)
(* unless the connection is closed in the meantime; one that is run is     *)
(* answered at least once.                                                 *)
(***************************************************************************)
EXTENDS Naturals

VARIABLES
    state,    \* waiting for a request, busy with one, running it, or closed
    replies   \* answers sent so far

rrVars == <<state, replies>>

RRInit == state = "waiting" /\ replies = 0

Receive == state = "waiting" /\ state' = "busy" /\ UNCHANGED replies

Run == state = "busy" /\ state' = "running" /\ UNCHANGED replies

Answer == state = "busy" /\ state' = "waiting" /\ replies' = replies + 1

Finish == state = "running" /\ state' = "waiting" /\ replies' > replies

\* The server may say why it gives up, or be in the middle of its answers.
Close ==
    /\ state # "closed"
    /\ state' = "closed"
    /\ IF state = "running" THEN replies' >= replies
       ELSE replies' \in {replies, replies + 1}

RRNext == Receive \/ Run \/ Answer \/ Finish \/ Close

RRSpec == RRInit /\ [][RRNext]_rrVars
=============================================================================
