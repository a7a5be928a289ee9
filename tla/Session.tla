------------------------------ MODULE Session -------------------------------
(***************************************************************************)
(* The client library and a server over one connection at a time.  The     *)
(* server handles the messages of Client in order, as ServerConnection     *)
(* does: commands are put together from their tokens, limited in size, run *)
(* and answered with outputs and a status or error, or with several (the   *)
(* kinds of commands that SingleAnswer of Commands excepts).  A server of  *)
(* protocol 1 handles one command and closes.                              *)
(***************************************************************************)
EXTENDS Client

CONSTANTS
    Limit,        \* tokens of a command the server accepts
    MaxOutputs    \* bound: messages before the last one of a command

ASSUME LimitAssumption == Limit \in Nat \ {0}
ASSUME MaxOutputsAssumption == MaxOutputs \in Nat

-----------------------------------------------------------------------------
(* The server *)

Send(type, from) == toClient' = Append(toClient, [type |-> type, from |-> from])

\* The server takes the next message.
Takes(type) ==
    /\ link = "up" /\ server.serving = {} /\ toServer # <<>>
    /\ Head(toServer).type = type
    /\ toServer' = Tail(toServer)
    /\ UNCHANGED <<object, caller, parties>>

\* A token that cannot be unwrapped: the connection is closed, with or
\* without an error.
TakeGarbage ==
    /\ Takes("garbage")
    /\ link' = "closed"
    /\ UNCHANGED toClient \/ Send("ERROR", {})
    /\ UNCHANGED <<flaws, server>>

\* A server without protocol 3 answers with MESSAGE_VERSION.  In the middle
\* of a command the message ends the connection.
TakeNoop ==
    /\ Takes("NOOP")
    /\ IF server.continued
       THEN Send("ERROR", {}) /\ link' = "closed"
       ELSE (Send("NOOP", {}) \/ Send("VERSION", {})) /\ UNCHANGED link
    /\ UNCHANGED <<flaws, server>>

BadContinue(cont) ==
    (cont = 1 /\ server.continued) \/ (cont > 1 /\ ~server.continued)

TooMuchData == server.pieces >= Limit

\* The command is dropped without an answer.
MutRefuse ==
    /\ Takes("COMMAND") /\ speaks # 1
    /\ BadContinue(Head(toServer).cont) \/ TooMuchData
    /\ flaws' = IF Head(toServer).cont \in {1, 2}
                THEN flaws \cup {"part"} ELSE flaws
    /\ server' = NewServer
    /\ UNCHANGED <<link, toClient>>

\* The error is sent at once; tokens left of the command are new messages.
Refuse ==
    /\ Takes("COMMAND") /\ speaks # 1
    /\ BadContinue(Head(toServer).cont) \/ TooMuchData
    /\ Send("ERROR", {Head(toServer).cmd})
    /\ flaws' = IF Head(toServer).cont \in {1, 2}
                THEN flaws \cup {"part"} ELSE flaws
    /\ server' = NewServer
    /\ UNCHANGED link

\* A token is added to the command, which is run when it is complete.
Accept ==
    /\ Takes("COMMAND") /\ speaks # 1
    /\ ~BadContinue(Head(toServer).cont) /\ ~TooMuchData
    /\ LET all == server.gathered \cup {Head(toServer).cmd}
       IN server' = IF Head(toServer).cont \in {1, 2}
                    THEN [server EXCEPT !.gathered = all, !.continued = TRUE,
                                        !.pieces = server.pieces + 1]
                    ELSE [NewServer EXCEPT !.serving = all]
    /\ UNCHANGED <<link, toClient, flaws>>

\* token_recv_priv of protocol 1 acknowledges the command with a MIC.
AcceptV1 ==
    /\ Takes("COMMAND") /\ speaks = 1
    /\ Send("MIC", {Head(toServer).cmd})
    /\ server' = [NewServer EXCEPT !.serving = {Head(toServer).cmd}]
    /\ UNCHANGED <<link, flaws>>

ServerOutput ==
    /\ link = "up" /\ speaks # 1
    /\ server.serving # {} /\ server.outputs < MaxOutputs
    /\ Send("OUTPUT", server.serving)
    /\ server' = [server EXCEPT !.outputs = server.outputs + 1]
    /\ UNCHANGED <<object, caller, parties, link, toServer, flaws>>

\* An error that is not the end of the command: a help request with too many
\* words, or a program of a summary that failed.
ServerErrs ==
    /\ link = "up" /\ server.serving # {} /\ server.outputs < MaxOutputs
    /\ IF speaks = 1 THEN Send("RESULT", server.serving)
       ELSE Send("ERROR", server.serving)
    /\ flaws' = flaws \cup {"twice"}
    /\ server' = [server EXCEPT !.outputs = server.outputs + 1]
    /\ UNCHANGED <<object, caller, parties, link, toServer>>

ServerFinish ==
    /\ link = "up" /\ server.serving # {}
    /\ server' = NewServer
    /\ IF speaks = 1 THEN Send("RESULT", server.serving) /\ link' = "closed"
       ELSE (\E t \in Terminal : Send(t, server.serving)) /\ UNCHANGED link
    /\ UNCHANGED <<object, caller, parties, toServer, flaws>>

\* After the context has expired the server cannot read or answer either, and
\* closes.  What it has sent is of no use to the client any more.
ServerExpired ==
    /\ link = "expired" /\ (toServer # <<>> \/ server.serving # {})
    /\ link' = "closed" /\ toClient' = <<>>
    /\ UNCHANGED <<object, caller, parties, toServer, flaws, server>>

ServerStep ==
    \/ TakeGarbage \/ TakeNoop \/ Refuse \/ Accept \/ AcceptV1
    \/ ServerOutput \/ ServerErrs \/ ServerFinish \/ ServerExpired

\* The server or the network ends the connection, possibly with the messages
\* under way, or the GSS-API context expires.
LinkFails ==
    /\ link = "up"
    /\ link' \in {"closed", "expired"}
    /\ toClient' = toClient \/ (link' = "closed" /\ toClient' = <<>>)
    /\ UNCHANGED <<object, caller, parties, toServer, flaws, server>>

Freed == pc = "freed" /\ UNCHANGED vars

Next == ClientNext \/ ServerStep \/ LinkFails \/ Freed

Spec == Init /\ [][Next]_vars

\* The caller completes its calls and keeps reading; the server runs.
FairSpec == Spec /\ WF_vars(ServerStep) /\ WF_vars(Continue) /\ WF_vars(Output)

-----------------------------------------------------------------------------
(* Properties *)

\* Every variable has its type.
TypeOK ==
    /\ fd \in {"invalid", "open", "closed"}
    /\ protocol \in 0..2 /\ host \in BOOLEAN /\ ready \in BOOLEAN
    /\ output \in Result /\ status \in SUBSET Nat
    /\ pc \in {"idle", "command", "mic", "noop", "noop reply", "freed"}
    /\ held \in Nat /\ stray \in BOOLEAN
    /\ calls \in Nat /\ opens \in Nat /\ cur \in Nat /\ seen \in Seq(Result)
    /\ timeout \in BOOLEAN /\ speaks \in {1, 2}
    /\ link \in {"up", "closed", "expired"}
    /\ toServer \in Seq(Message) /\ toClient \in Seq(Reply)
    /\ flaws \in SUBSET Flaws
    /\ server \in ServerState

Answer == {"OUTPUT"} \cup Terminal
Own == \A i \in 1..Len(seen) :
          seen[i].type \in Answer => seen[i].from = {cur}

\* Whatever remctl_output returns is an answer to the command it is called
\* for.  Timeouts, lost and reopened connections, failed sends and the early
\* return of protocol 1 never leave the answer of one command to be read as
\* the answer of the next, as long as on this connection the server got every
\* command whole or not at all and answered it once.  Where it did not, the
\* client keeps the connection and takes what is left for the next answer.
OwnAnswers == flaws = {} => Own

\* The comment of remctl_output: outputs, then a status or an error, and
\* REMCTL_OUT_DONE from then on and only then.  Protocol 2 only: protocol 1
\* returns the status again after REMCTL_OUT_DONE.
ResponseShape ==
    protocol = 2 =>
        \A i \in 1..Len(seen) :
            LET ended == \E j \in 1..(i - 1) : seen[j].type \in Terminal
            IN (seen[i].type = "DONE") = (ended /\ seen[i].type # "NULL")

\* The library has one descriptor open while the object holds it and none
\* otherwise: neither a failed negotiation, a lost connection, a second open
\* nor the close of protocol 1 loses one.  The number of a descriptor that
\* has been closed is used or closed again only by an object that was opened
\* twice: internal_reset leaves it in r->fd when the new connection fails.
OneHeld == (fd = "open" => held = 1) /\ (fd # "open" => held = 0)
OneDescriptor == OneHeld /\ (stray => opens > 1)

\* Every call returns, and the results of every command come to an end, as
\* long as the server runs: the client never waits for an answer that nobody
\* owes it.
CallsReturn == (pc # "idle" \/ ~Drained) ~> (pc \in {"idle", "freed"} /\ Drained)
=============================================================================
