------------------------------- MODULE Client -------------------------------
(***************************************************************************)
(* The client library (client/api.c, client-v1.c, client-v2.c, open.c):    *)
(* one struct remctl used by one caller.  The caller does what the manual  *)
(* pages ask for: after a command it calls remctl_output until it gets a   *)
(* status, an error or a failure before it sends the next one.  It may     *)
(* open the object again or close it at any time.  Commands are numbered;  *)
(* every message records the commands it is about.  The server is in       *)
(* Session.                                                                *)
(***************************************************************************)
EXTENDS Integers, Sequences

CONSTANTS
    Sizes,        \* numbers of tokens a command may need
    MaxCalls,     \* bound: calls of remctl_command and remctl_noop
    MaxOpens,     \* bound: attempts to connect
    MaxResults    \* bound: calls of remctl_output for one command

ASSUME SizesAssumption == Sizes \subseteq Nat \ {0}
ASSUME BoundsAssumption ==
    MaxCalls \in Nat /\ MaxOpens \in Nat /\ MaxResults \in Nat

VARIABLES
    \* struct remctl
    fd,         \* "invalid", "open", or "closed": the number of a descriptor
                \* that has been closed
    protocol,   \* 0 before the first negotiation
    host,       \* the host is known, so the connection can be reopened
    ready,
    timeout,    \* the caller has set a timeout (remctl_set_timeout)
    output,     \* the type of r->output and the commands it is about
    status,     \* the commands whose exit status r->status is
    \* the process of the caller
    pc,         \* where in a call the caller is
    held,       \* descriptors the library has open
    stray,      \* a descriptor was used or closed after it had been closed
    calls,      \* calls so far, the number of the last command
    opens,      \* attempts to connect so far
    cur,        \* the command whose results are being read, 0 if none
    seen,       \* what remctl_output has returned for it
    \* the connection
    speaks,     \* the protocol the server speaks
    link,       \* "up", "closed" by the server, or "expired" credentials
    toServer, toClient,   \* messages under way
    flaws,      \* commands and answers do not pair up any more: the server
                \* got only a "part" of some command or answered one "twice"
    server      \* the state of the server process

object == <<fd, protocol, host, ready, output, status>>
caller == <<pc, held, stray, calls, opens, cur, seen>>
\* fixed from the start
parties == <<timeout, speaks>>
connection == <<link, toServer, toClient, flaws, server>>
vars == <<object, caller, parties, connection>>

\* The commands of the tokens gathered so far, their number, whether more are
\* to follow, the commands being run, and the outputs sent for them.
ServerState == [gathered : SUBSET Nat, continued : BOOLEAN, pieces : Nat,
                serving : SUBSET Nat, outputs : Nat]

NewServer == [gathered |-> {}, continued |-> FALSE, pieces |-> 0,
              serving |-> {}, outputs |-> 0]

\* To the server: the command a token belongs to and its continue status.
Message == [type : {"COMMAND", "NOOP", "garbage"}, cmd : Nat, cont : 0..3]

\* To the client: the commands a message is about.
Reply == [type : {"OUTPUT", "STATUS", "ERROR", "NOOP", "VERSION", "MIC",
                  "RESULT"},
          from : SUBSET Nat]

\* What remctl_output returns; NULL is also the initial r->output.
Result == [type : {"NULL", "OUTPUT", "STATUS", "ERROR", "DONE"},
           from : SUBSET Nat]

Flaws == {"part", "twice"}

Null == [type |-> "NULL", from |-> {}]
Done == [type |-> "DONE", from |-> {}]

Init ==
    /\ fd = "invalid" /\ protocol = 0 /\ host = FALSE /\ ready = FALSE
    /\ output = Null /\ status = {}
    /\ pc = "idle" /\ held = 0 /\ stray = FALSE /\ calls = 0 /\ opens = 0
    /\ cur = 0 /\ seen = <<>>
    /\ timeout \in BOOLEAN /\ speaks \in {1, 2}
    /\ link = "closed" /\ toServer = <<>> /\ toClient = <<>>
    /\ flaws = {} /\ server = NewServer

\* All results of the last command have been read, or reading them failed.
Drained == cur = 0 \/ (seen # <<>> /\ seen[Len(seen)].type # "OUTPUT")

-----------------------------------------------------------------------------
(* Opening: internal_reset, internal_connect, internal_open *)

\* The old connection stays open.
MutReset ==
    /\ held' = held
    /\ stray' = (stray \/ fd = "closed")
    /\ output' = Null

\* QUIT is sent on the old connection and it is closed, also if r->fd is left
\* from an earlier reset.
Reset ==
    /\ held' = IF fd = "open" THEN held - 1 ELSE held
    /\ stray' = (stray \/ fd = "closed")
    /\ output' = Null

\* Protocol 2 unless the server drops TOKEN_PROTOCOL; the choice is never
\* revised.
Negotiated ==
    IF speaks = 1 THEN 1 ELSE IF protocol = 0 THEN 2 ELSE protocol

\* No connection to either port: r->fd keeps its value.
ConnectFails ==
    /\ Reset
    /\ fd' = IF fd = "invalid" THEN "invalid" ELSE "closed"
    /\ UNCHANGED <<protocol, ready, connection>>

\* Connected, but no context: the new descriptor is closed again.
NegotiationFails ==
    /\ Reset
    /\ fd' = "invalid"
    /\ protocol' \in {protocol, IF protocol = 0 THEN 2 ELSE protocol,
                      Negotiated}
    /\ UNCHANGED <<ready, connection>>

Established ==
    /\ fd' = "open"
    /\ held' = IF fd = "open" THEN held ELSE held + 1
    /\ stray' = (stray \/ fd = "closed")
    /\ output' = Null
    /\ protocol' = Negotiated
    /\ ready' = FALSE
    /\ link' = "up" /\ toServer' = <<>> /\ toClient' = <<>>
    /\ flaws' = {} /\ server' = NewServer

\* remctl_open, which knows the host (h), or remctl_open_addrinfo,
\* remctl_open_sockaddr and remctl_open_fd, which do not keep it.
Open(h) ==
    /\ pc = "idle" /\ opens < MaxOpens
    /\ opens' = opens + 1
    /\ host' = h
    /\ cur' = 0 /\ seen' = <<>>
    /\ ConnectFails \/ NegotiationFails \/ Established
    /\ UNCHANGED <<pc, calls, status, parties>>

\* remctl_close
Close ==
    /\ pc = "idle"
    /\ pc' = "freed"
    /\ fd' = "invalid"
    /\ Reset
    /\ cur' = 0 /\ seen' = <<>>
    /\ UNCHANGED <<protocol, host, ready, status, calls, opens, parties,
                   connection>>

-----------------------------------------------------------------------------
(* remctl_commandv and remctl_noop begin with internal_reopen *)

Begin(call) ==
    /\ pc = "idle" /\ Drained /\ calls < MaxCalls
    /\ calls' = calls + 1
    /\ cur' = 0 /\ seen' = <<>>
    /\ \/ /\ fd # "invalid"
          /\ pc' = call
          /\ UNCHANGED <<object, held, stray, opens, connection>>
       \/ /\ fd = "invalid" /\ ~host
          /\ UNCHANGED <<pc, object, held, stray, opens, connection>>
       \/ /\ fd = "invalid" /\ host /\ opens < MaxOpens
          /\ opens' = opens + 1
          /\ \/ Established /\ pc' = call
             \/ (ConnectFails \/ NegotiationFails) /\ UNCHANGED pc
          /\ UNCHANGED <<host, status>>
    /\ UNCHANGED parties

\* A call fails with the object as it is.
CallFails == pc' = "idle" /\ UNCHANGED <<cur, seen>>

\* A message without a command.
Bare(type) == [type |-> type, cmd |-> 0, cont |-> 0]

\* Write msgs to the connection: all, or the first k and possibly a part of
\* the next.  A write fails if it takes too long or the connection is gone,
\* and wrapping a message fails if the context has expired.
Transmit(msgs, k, cut) ==
    /\ link = "expired" => k = 0 /\ ~cut
    /\ k < Len(msgs) => timeout \/ link # "up"
    /\ cut => k < Len(msgs)
    /\ toServer' = IF link # "up" THEN toServer
                   ELSE toServer \o SubSeq(msgs, 1, k)
                        \o (IF cut THEN <<Bare("garbage")>> ELSE <<>>)
    /\ flaws' = IF k < Len(msgs) /\ (k > 0 \/ cut)
                THEN flaws \cup {"part"} ELSE flaws

\* r->fd is not a connection any more: the write fails, or goes elsewhere.
SendStray ==
    /\ pc = "command" \/ (pc = "noop" /\ protocol # 1)
    /\ fd = "closed"
    /\ stray' = TRUE
    /\ CallFails
    /\ UNCHANGED <<object, held, calls, opens, parties, connection>>

\* The tokens of a command and their continue statuses.
Pieces(c, n) ==
    [i \in 1..n |->
        [type |-> "COMMAND", cmd |-> c,
         cont |-> IF n = 1 THEN 0 ELSE IF i = 1 THEN 1
                  ELSE IF i = n THEN 3 ELSE 2]]

\* ready is left to the first call of remctl_output.
MutSendCommand ==
    /\ pc = "command" /\ fd = "open" /\ protocol # 1
    /\ \E n \in Sizes, cut \in BOOLEAN : \E k \in 0..n :
          /\ Transmit(Pieces(calls, n), k, cut)
          /\ cur' = IF k = n THEN calls ELSE cur
    /\ pc' = "idle"
    /\ UNCHANGED <<object, held, stray, calls, opens, seen, parties, link,
                   toClient, server>>

\* internal_v2_commandv
SendCommand ==
    /\ pc = "command" /\ fd = "open" /\ protocol # 1
    /\ \E n \in Sizes, cut \in BOOLEAN : \E k \in 0..n :
          /\ Transmit(Pieces(calls, n), k, cut)
          /\ IF k = n THEN ready' = TRUE /\ cur' = calls
             ELSE UNCHANGED <<ready, cur>>
    /\ pc' = "idle"
    /\ UNCHANGED <<fd, protocol, host, output, status, held, stray, calls,
                   opens, seen, parties, link, toClient, server>>

\* internal_v1_commandv: token_send_priv then waits for the MIC.
SendCommandV1 ==
    /\ pc = "command" /\ fd = "open" /\ protocol = 1
    /\ \E cut \in BOOLEAN, k \in 0..1 :
          /\ Transmit(Pieces(calls, 1), k, cut)
          /\ pc' = IF k = 1 THEN "mic" ELSE "idle"
    /\ UNCHANGED <<object, held, stray, calls, opens, cur, seen, parties, link,
                   toClient, server>>

\* The MIC has to be that of the command.
ReceiveMic ==
    /\ pc = "mic" /\ toClient # <<>>
    /\ toClient' = Tail(toClient)
    /\ IF /\ link # "expired"
          /\ Head(toClient) = [type |-> "MIC", from |-> {calls}]
       THEN ready' = TRUE /\ cur' = calls
       ELSE UNCHANGED <<ready, cur>>
    /\ pc' = "idle"
    /\ UNCHANGED <<fd, protocol, host, output, status, held, stray, calls,
                   opens, seen, parties, link, toServer, flaws, server>>

\* The connection is gone and nothing is left to read on it.
Gone == link = "closed" /\ toClient = <<>>

\* End of file, or nothing arrives in time.
ReceiveFails == timeout \/ Gone

\* The command fails although the server may run it.
MicFails ==
    /\ pc = "mic" /\ ReceiveFails
    /\ CallFails
    /\ UNCHANGED <<object, held, stray, calls, opens, parties, connection>>

\* remctl_noop: protocol 1 has no such message.
NoopUnsupported ==
    /\ pc = "noop" /\ protocol = 1
    /\ CallFails
    /\ UNCHANGED <<object, held, stray, calls, opens, parties, connection>>

\* internal_noop
SendNoop ==
    /\ pc = "noop" /\ fd = "open" /\ protocol # 1
    /\ \E cut \in BOOLEAN, k \in 0..1 :
          /\ Transmit(<<Bare("NOOP")>>, k, cut)
          /\ pc' = IF k = 1 THEN "noop reply" ELSE "idle"
    /\ UNCHANGED <<object, held, stray, calls, opens, cur, seen, parties, link,
                   toClient, server>>

\* One token is read, whatever it is.
ReceiveNoop ==
    /\ pc = "noop reply" /\ toClient # <<>>
    /\ toClient' = Tail(toClient)
    /\ CallFails
    /\ UNCHANGED <<object, held, stray, calls, opens, parties, link, toServer,
                   flaws, server>>

\* The connection is closed after end of file and after a timeout, and kept
\* after a socket error.
LoseConnection == fd' = "invalid" /\ held' = held - 1

NoopFails ==
    /\ pc = "noop reply"
    /\ \/ ReceiveFails /\ LoseConnection
       \/ Gone /\ UNCHANGED <<fd, held>>
    /\ CallFails
    /\ UNCHANGED <<protocol, host, ready, output, status, stray, calls, opens,
                   parties, connection>>

-----------------------------------------------------------------------------
(* remctl_output *)

\* The caller reads results of a command that was sent.
Reading == pc = "idle" /\ cur # 0 /\ Len(seen) < MaxResults

Return(result) ==
    /\ seen' = Append(seen, result)
    /\ UNCHANGED <<pc, calls, opens, cur, parties>>

OutputNoConnection ==
    /\ Reading /\ fd = "invalid" /\ (protocol # 1 \/ ~host)
    /\ Return(Null)
    /\ UNCHANGED <<object, held, stray, connection>>

\* A token is expected on the connection.
Expecting == Reading /\ fd = "open" /\ (protocol # 1 \/ ready \/ output = Null)

(* internal_v2_output *)

OutputDone ==
    /\ Reading /\ fd = "open" /\ protocol # 1 /\ ~ready
    /\ output' = Done
    /\ Return(Done)
    /\ UNCHANGED <<fd, protocol, host, ready, status, held, stray, connection>>

Terminal == {"STATUS", "ERROR"}

OutputToken ==
    /\ Expecting /\ protocol # 1 /\ ready /\ link # "expired"
    /\ toClient # <<>>
    /\ toClient' = Tail(toClient)
    /\ IF Head(toClient).type \in {"OUTPUT"} \cup Terminal
       THEN /\ output' = Head(toClient)
            /\ ready' = (Head(toClient).type \notin Terminal)
            /\ Return(output')
       ELSE output' = Done /\ UNCHANGED ready /\ Return(Null)
    /\ UNCHANGED <<fd, protocol, host, status, held, stray, link, toServer,
                   flaws, server>>

\* The token cannot be unwrapped: it is lost and the connection is kept.
OutputExpired ==
    /\ Expecting /\ (protocol = 1 \/ ready) /\ link = "expired"
    /\ toClient # <<>>
    /\ toClient' = Tail(toClient)
    /\ output' = IF protocol = 1 THEN output ELSE Done
    /\ Return(Null)
    /\ UNCHANGED <<fd, protocol, host, ready, status, held, stray, link,
                   toServer, flaws, server>>

\* The connection is kept after a timeout.
MutOutputLost ==
    /\ Expecting /\ (protocol = 1 \/ ready) /\ ReceiveFails
    /\ ready' = (protocol # 1)
    /\ output' = IF protocol = 1 THEN output ELSE Done
    /\ Return(Null)
    /\ UNCHANGED <<fd, protocol, host, status, held, stray, connection>>

\* End of file or timeout, where protocol 2 leaves ready set, or a socket
\* error, after which the connection is kept.
OutputLost ==
    /\ Expecting /\ (protocol = 1 \/ ready)
    /\ \/ ReceiveFails /\ LoseConnection /\ ready' = (protocol # 1)
       \/ Gone /\ UNCHANGED <<fd, held, ready>>
    /\ output' = IF protocol = 1 THEN output ELSE Done
    /\ Return(Null)
    /\ UNCHANGED <<protocol, host, status, stray, connection>>

(* internal_v1_output *)

\* The token holds output and status; the connection has served its purpose.
OutputTokenV1 ==
    /\ Expecting /\ protocol = 1 /\ link # "expired" /\ toClient # <<>>
    /\ toClient' = Tail(toClient)
    /\ IF Head(toClient).type = "RESULT"
       THEN /\ output' = [type |-> "OUTPUT", from |-> Head(toClient).from]
            /\ status' = Head(toClient).from
            /\ ready' = FALSE
            /\ LoseConnection
            /\ Return(output')
       ELSE UNCHANGED <<output, status, ready, fd, held>> /\ Return(Null)
    /\ UNCHANGED <<protocol, host, stray, link, toServer, flaws, server>>

\* Later calls return the status and REMCTL_OUT_DONE in turn.
OutputAgain ==
    /\ Reading /\ protocol = 1 /\ output # Null /\ ~ready
    /\ fd # "invalid" \/ host
    /\ output' = IF output.type = "STATUS" THEN Done
                 ELSE [type |-> "STATUS", from |-> status]
    /\ Return(output')
    /\ UNCHANGED <<fd, protocol, host, ready, status, held, stray, connection>>

\* After a failure the read is tried again on no descriptor.
OutputInvalid ==
    /\ Reading /\ protocol = 1 /\ fd = "invalid" /\ host
    /\ ready \/ output = Null
    /\ Return(Null)
    /\ UNCHANGED <<object, held, stray, connection>>

Output ==
    \/ OutputNoConnection \/ OutputDone \/ OutputToken \/ OutputExpired
    \/ OutputLost \/ OutputTokenV1 \/ OutputAgain \/ OutputInvalid

\* The steps of a call that has begun.
Continue ==
    \/ SendStray \/ SendCommand \/ SendCommandV1 \/ ReceiveMic \/ MicFails
    \/ NoopUnsupported \/ SendNoop \/ ReceiveNoop \/ NoopFails

ClientNext ==
    \/ \E h \in BOOLEAN : Open(h)
    \/ Close
    \/ Begin("command") \/ Begin("noop")
    \/ Continue
    \/ Output
=============================================================================
