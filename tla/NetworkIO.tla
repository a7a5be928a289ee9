----------------------------- MODULE NetworkIO -----------------------------
(***************************************************************************)
(* The lowest layer of the protocol: util/network.c makes a connection and *)
(* moves bytes under a timeout, util/tokens.c frames tokens with it.  One  *)
(* side connects (network_connect) and calls token_send, the other calls   *)
(* token_recv.  Between them is a byte stream of bounded capacity that     *)
(* delivers in pieces, either system call may be interrupted by a signal,  *)
(* and either side may go away.                                            *)
(*                                                                         *)
(* Time passes in ticks, and only while every process is blocked.  A call  *)
(* keeps `age', the ticks since the start of the second in which it began, *)
(* so that time(NULL) - start is age \div TicksPerSecond, and `left', the  *)
(* ticks its select may still wait.                                        *)
(***************************************************************************)
EXTENDS Octets, FiniteSets, SequencesExt, FiniteSetsExt

CONSTANTS
  Addresses,       \* how many addresses getaddrinfo returned
  Timeouts,        \* timeouts in seconds that callers pass; 0 is none
  TicksPerSecond,
  Tokens,          \* tokens a sender may send
  MaxToken,        \* the limit token_recv is called with
  Capacity,        \* octets the connection holds between the two sides
  ReadTries,       \* 100 in socket_xread
  WriteTries,      \* 10 in xwrite
  MaxSends,        \* bound: calls of token_send
  MaxInterrupts    \* bound: signals during one call

ASSUME NetworkAssumption ==
  /\ Addresses \in Nat
  /\ Timeouts \subseteq Nat
  /\ TicksPerSecond \in Nat \ {0}
  /\ Capacity \in Nat \ {0}
  /\ MaxToken \in Nat
  /\ ReadTries \in Nat
  /\ WriteTries \in Nat
  /\ MaxSends \in Nat
  /\ MaxInterrupts \in Nat

\* token_send refuses a token whose length its field cannot hold.
Token == [flags : Octet, data : Seq(Octet)]

ASSUME TokensAssumption ==
  /\ Tokens \subseteq Token
  /\ \A token \in Tokens : Representable(Len(token.data))

VARIABLES
  phase,      \* ticks since the last whole second
  con,        \* network_connect, and the timeout of the connecting side
  open,       \* descriptors of sockets the connecting side has open
  blocking,   \* whether O_NONBLOCK is clear on the connecting side's socket
  wire,       \* octets written and not yet read
  delivered,  \* how many of them have reached the other side
  snd,        \* token_send
  sends,      \* the tokens it sent with success
  torn,       \* whether a send failed after part of its token was written
  rcv,        \* token_recv
  received    \* the tokens it returned with TOKEN_OK

vars == <<phase, con, open, blocking, wire, delivered, snd, sends, torn,
          rcv, received>>

connecting == <<con, open>>
sender     == <<snd, sends, torn>>
receiver   == <<rcv, received>>

NoSocket == 0
NoToken  == [flags |-> 0, data |-> <<>>]

------------------------------------------------------------------------------
\* The wire format of a token.

\* The buffer token_send builds: flags, length, data.
Frame(token) == <<token.flags>> \o Htonl(Len(token.data)) \o token.data

------------------------------------------------------------------------------
\* Waiting.

\* The time for select without taking off what has passed.
MutRemaining(timeout, now) == IF timeout < 1 THEN 1 ELSE timeout

\* The seconds network_read and network_write pass to select once `now'
\* seconds of the timeout are known to have passed.
Remaining(timeout, now) == IF timeout - now < 1 THEN 1 ELSE timeout - now

Select(timeout, now) == Remaining(timeout, now) * TicksPerSecond

Seconds(age) == age \div TicksPerSecond

------------------------------------------------------------------------------
Idle == [pc |-> "idle", age |-> 0, now |-> 0, left |-> 0, interrupts |-> 0,
         tries |-> 0]

Init ==
  /\ phase \in 0 .. TicksPerSecond - 1
  /\ con \in [pc : {"resolve"}, at : {0}, fd : {NoSocket}, ok : {FALSE},
              timeout : Timeouts, left : {0}, age : {0}, interrupts : {0}]
  /\ open = {}
  /\ blocking = TRUE
  /\ wire = <<>>
  /\ delivered = 0
  /\ snd = [call |-> Idle, token |-> NoToken, buffer |-> <<>>, calls |-> 0]
  /\ sends = <<>>
  /\ torn = FALSE
  /\ \E timeout \in Timeouts :
       rcv = [call |-> Idle, timeout |-> timeout, part |-> "flags",
              need |-> 1, got |-> <<>>, flags |-> 0, why |-> "none"]
  /\ received = <<>>

------------------------------------------------------------------------------
\* network_connect

\* internal_connect and network_connect_host: getaddrinfo, which may fail.
Resolve ==
  /\ con.pc = "resolve"
  /\ con' \in {[con EXCEPT !.pc = "next"], [con EXCEPT !.pc = "failed"]}
  /\ UNCHANGED <<phase, open, blocking, wire, delivered, sender, receiver>>

\* The lowest descriptor that is free.
NewSocket(used) == Min((1 .. Addresses) \ used)

\* The head of the loop without closing the previous socket.
MutTryNext ==
  /\ con.pc = "next" /\ ~con.ok /\ con.at < Addresses
  /\ \/ /\ con' = [con EXCEPT !.at = @ + 1, !.fd = NewSocket(open),
                     !.pc = "source"]
        /\ open' = open \union {NewSocket(open)}
        /\ blocking' = TRUE
     \/ /\ con' = [con EXCEPT !.at = @ + 1, !.fd = NoSocket]
        /\ UNCHANGED <<open, blocking>>
  /\ UNCHANGED <<phase, wire, delivered, sender, receiver>>

\* The head of the loop: close the socket of the address before and make one
\* for the next.
TryNext ==
  /\ con.pc = "next" /\ ~con.ok /\ con.at < Addresses
  /\ LET others == open \ {con.fd}
     IN  \/ /\ con' = [con EXCEPT !.at = @ + 1, !.fd = NewSocket(others),
                         !.pc = "source"]
            /\ open' = others \union {NewSocket(others)}
            /\ blocking' = TRUE
         \/ /\ con' = [con EXCEPT !.at = @ + 1, !.fd = NoSocket]
            /\ open' = others
            /\ UNCHANGED blocking
  /\ UNCHANGED <<phase, wire, delivered, sender, receiver>>

\* network_source binds the socket; an address it cannot bind is skipped.
Source ==
  /\ con.pc = "source"
  /\ con' \in {[con EXCEPT !.pc = "connect"], [con EXCEPT !.pc = "next"]}
  /\ UNCHANGED <<phase, open, blocking, wire, delivered, sender, receiver>>

\* connect: at once or, on a socket made non-blocking, perhaps in progress.
Connect ==
  /\ con.pc = "connect"
  /\ IF con.timeout = 0
       THEN /\ \E ok \in BOOLEAN :
                 con' = [con EXCEPT !.pc = "next", !.ok = ok]
            /\ UNCHANGED blocking
       ELSE /\ blocking' = FALSE
            /\ \/ \E ok \in BOOLEAN :
                    con' = [con EXCEPT !.pc = "restore", !.ok = ok]
               \/ con' = [con EXCEPT !.pc = "wait", !.age = 0,
                            !.interrupts = 0,
                            !.left = con.timeout * TicksPerSecond]
  /\ UNCHANGED <<phase, open, wire, delivered, sender, receiver>>

\* connect_wait: select for the whole timeout, again after every signal.
ConnectWait ==
  /\ con.pc = "wait"
  /\ \/ /\ con.interrupts < MaxInterrupts
        /\ con' = [con EXCEPT !.interrupts = @ + 1,
                     !.left = con.timeout * TicksPerSecond]
     \/ \E ok \in BOOLEAN : con' = [con EXCEPT !.pc = "restore", !.ok = ok]
     \/ /\ con.left = 0
        /\ con' = [con EXCEPT !.pc = "restore", !.ok = FALSE]
  /\ UNCHANGED <<phase, open, blocking, wire, delivered, sender, receiver>>

\* fdflag_nonblocking(fd, false)
Restore ==
  /\ con.pc = "restore"
  /\ con' = [con EXCEPT !.pc = "next", !.left = 0, !.age = 0,
               !.interrupts = 0]
  /\ blocking' = TRUE
  /\ UNCHANGED <<phase, open, wire, delivered, sender, receiver>>

\* After the loop: the connected socket, or no socket.
ConnectReturn ==
  /\ con.pc = "next"
  /\ con.ok \/ con.at = Addresses
  /\ IF con.ok
       THEN /\ con' = [con EXCEPT !.pc = "connected", !.at = 0]
            /\ UNCHANGED open
       ELSE /\ con' = [con EXCEPT !.pc = "failed"]
            /\ open' = open \ {con.fd}
  /\ UNCHANGED <<phase, blocking, wire, delivered, sender, receiver>>

------------------------------------------------------------------------------
\* token_send and network_write

Room == Capacity - Len(wire)

ReceiverGone == rcv.call.pc = "closed"

\* What select reports for the sender's socket.
Writable == Room > 0 \/ ReceiverGone

Selecting(call, timeout, now) ==
  [call EXCEPT !.pc = "select", !.now = now, !.left = Select(timeout, now)]

\* Both sides treat a signal alike: `continue' tests the loop condition with
\* the old value of now, and select starts again with the old time remaining.
Interrupted(call, timeout) ==
  [Selecting(call, timeout, call.now) EXCEPT !.interrupts = @ + 1]

\* The bottom of the loop, after some octets moved: look at the clock again.
\* TRUE when the loop goes on.
TimeLeft(call, timeout) == Seconds(call.age) < timeout

\* token_send(token) builds the frame and calls network_write, which makes the
\* socket non-blocking unless there is no timeout.
TokenSend(token) ==
  /\ con.pc = "connected" /\ snd.call.pc = "idle"
  /\ snd.calls < MaxSends
  /\ snd' = [snd EXCEPT !.token = token, !.buffer = Frame(token),
               !.calls = @ + 1,
               !.call = IF con.timeout = 0
                          THEN [Idle EXCEPT !.pc = "xwrite"]
                          ELSE Selecting([Idle EXCEPT !.age = phase],
                                         con.timeout, 0)]
  /\ blocking' = (con.timeout = 0)
  /\ UNCHANGED <<phase, connecting, wire, delivered, sends, torn, receiver>>

\* Every return of network_write clears O_NONBLOCK again.
SendDone ==
  /\ snd' = [snd EXCEPT !.call = Idle, !.buffer = <<>>, !.token = NoToken]
  /\ sends' = Append(sends, snd.token)
  /\ blocking' = TRUE
  /\ UNCHANGED torn

\* The call fails with the rest of its buffer not written.
SendFails(rest) ==
  /\ snd' = [snd EXCEPT !.call = Idle, !.buffer = <<>>, !.token = NoToken]
  /\ torn' = (torn \/ rest # Frame(snd.token))
  /\ blocking' = TRUE
  /\ UNCHANGED sends

\* select in network_write taking the end of the time for a signal.
MutWriteSelect ==
  /\ snd.call.pc = "select"
  /\ \/ /\ ~Writable /\ snd.call.left = 0
        /\ snd' = [snd EXCEPT !.call.left = Select(con.timeout, snd.call.now),
                             !.call.age = 0]
     \/ /\ Writable
        /\ snd' = [snd EXCEPT !.call.pc = "write"]
  /\ UNCHANGED <<phase, connecting, wire, delivered, sends, torn, blocking,
                 receiver>>

\* select in network_write: a signal, the end of the time, or room.
WriteSelect ==
  /\ snd.call.pc = "select"
  /\ \/ /\ snd.call.interrupts < MaxInterrupts
        /\ snd' = [snd EXCEPT !.call = Interrupted(@, con.timeout)]
        /\ UNCHANGED <<sends, torn, blocking>>
     \/ /\ ~Writable /\ snd.call.left = 0
        /\ SendFails(snd.buffer)
     \/ /\ Writable
        /\ snd' = [snd EXCEPT !.call.pc = "write"]
        /\ UNCHANGED <<sends, torn, blocking>>
  /\ UNCHANGED <<phase, connecting, wire, delivered, receiver>>

\* write: as many octets of the rest as there is room for, or fewer.
Put(n) ==
  /\ ~ReceiverGone
  /\ wire' = wire \o SubSeq(snd.buffer, 1, n)

\* What is left, counted from the start of the buffer.
MutRest(n) == SubSeq(snd.buffer, 1, Len(snd.buffer) - n)

Rest(n) == SubSeq(snd.buffer, n + 1, Len(snd.buffer))

Fits == 1 .. Min({Room, Len(snd.buffer)})

Write ==
  /\ snd.call.pc = "write"
  /\ \/ /\ snd.call.interrupts < MaxInterrupts
        /\ snd' = [snd EXCEPT !.call = Interrupted(@, con.timeout)]
        /\ UNCHANGED <<sends, torn, blocking, wire>>
     \/ /\ ReceiverGone
        /\ SendFails(snd.buffer)
        /\ UNCHANGED wire
     \/ \E n \in Fits :
          /\ Put(n)
          /\ \/ /\ n = Len(snd.buffer)
                /\ SendDone
             \/ /\ n < Len(snd.buffer)
                /\ TimeLeft(snd.call, con.timeout)
                /\ snd' = [snd EXCEPT !.buffer = Rest(n),
                             !.call = Selecting(@, con.timeout, Seconds(@.age))]
                /\ UNCHANGED <<sends, torn, blocking>>
             \/ /\ n < Len(snd.buffer)
                /\ ~TimeLeft(snd.call, con.timeout)
                /\ SendFails(Rest(n))
  /\ UNCHANGED <<phase, connecting, delivered, receiver>>

\* xwrite, when there is no timeout: write blocks until there is room, and
\* the call is given up after WriteTries signals without progress.
XWrite ==
  /\ snd.call.pc = "xwrite"
  /\ \/ /\ snd.call.tries = WriteTries
        /\ SendFails(snd.buffer)
        /\ UNCHANGED wire
     \/ /\ snd.call.tries < WriteTries
        /\ snd.call.interrupts < MaxInterrupts
        /\ snd' = [snd EXCEPT !.call.tries = @ + 1, !.call.interrupts = @ + 1]
        /\ UNCHANGED <<sends, torn, blocking, wire>>
     \/ /\ snd.call.tries < WriteTries
        /\ ReceiverGone
        /\ SendFails(snd.buffer)
        /\ UNCHANGED wire
     \/ /\ snd.call.tries < WriteTries
        /\ \E n \in Fits :
             /\ Put(n)
             /\ \/ /\ n = Len(snd.buffer)
                   /\ SendDone
                \/ /\ n < Len(snd.buffer)
                   /\ snd' = [snd EXCEPT !.buffer = Rest(n), !.call.tries = 0]
                   /\ UNCHANGED <<sends, torn, blocking>>
  /\ UNCHANGED <<phase, connecting, delivered, receiver>>

\* The sender closes the connection between two calls.
Close ==
  /\ con.pc = "connected" /\ snd.call.pc = "idle"
  /\ snd' = [snd EXCEPT !.call.pc = "closed"]
  /\ open' = open \ {con.fd}
  /\ UNCHANGED <<phase, con, blocking, wire, delivered, sends, torn, receiver>>

------------------------------------------------------------------------------
\* token_recv and network_read

AtEOF == snd.call.pc = "closed" /\ wire = <<>>

Readable == delivered > 0 \/ AtEOF

\* network_read of n octets, as one of the three parts of a token.
StartRead(part, n) ==
  [rcv EXCEPT !.part = part, !.need = n, !.got = <<>>,
     !.call = IF rcv.timeout = 0
                THEN [Idle EXCEPT !.pc = "xread"]
                ELSE Selecting([Idle EXCEPT !.age = phase], rcv.timeout, 0)]

TokenRecv ==
  /\ con.pc = "connected" /\ rcv.call.pc = "idle"
  /\ rcv' = StartRead("flags", 1)
  /\ UNCHANGED <<phase, connecting, blocking, wire, delivered, sender,
                 received>>

\* No call of token_recv in progress.
Fresh == [rcv EXCEPT !.call = Idle, !.part = "flags", !.need = 1,
            !.got = <<>>, !.flags = 0]

\* The server gives the connection up after any failure of token_recv, the
\* client after an end of file and a timeout.  A length beyond the limit ends
\* the receiver here too: what it reads after that is no token any more.
RecvFails(why) ==
  /\ rcv' = [Fresh EXCEPT !.call.pc = "closed", !.why = why]
  /\ UNCHANGED received

RecvDone(data) ==
  /\ rcv' = Fresh
  /\ received' = Append(received, [flags |-> rcv.flags, data |-> data])

\* What token_recv does when network_read has filled its buffer.
PartRead(octets) ==
  \/ /\ rcv.part = "flags"
     /\ rcv' = [StartRead("length", LengthSize) EXCEPT !.flags = octets[1]]
     /\ UNCHANGED received
  \/ /\ rcv.part = "length"
     /\ LET length == Ntohl(octets)
        IN  \/ /\ length > MaxToken
               /\ RecvFails("large")
            \/ /\ length = 0
               /\ RecvDone(<<>>)
            \/ /\ length \in 1 .. MaxToken
               /\ rcv' = StartRead("data", length)
               /\ UNCHANGED received
  \/ /\ rcv.part = "data"
     /\ RecvDone(octets)

ReadSelect ==
  /\ rcv.call.pc = "select"
  /\ \/ /\ rcv.call.interrupts < MaxInterrupts
        /\ rcv' = [rcv EXCEPT !.call = Interrupted(@, rcv.timeout)]
        /\ UNCHANGED received
     \/ /\ ~Readable /\ rcv.call.left = 0
        /\ RecvFails("timeout")
     \/ /\ Readable
        /\ rcv' = [rcv EXCEPT !.call.pc = "read"]
        /\ UNCHANGED received
  /\ UNCHANGED <<phase, connecting, blocking, wire, delivered, sender>>

\* read: as many of the delivered octets as are still wanted, or fewer.
Take(n) ==
  /\ wire' = SubSeq(wire, n + 1, Len(wire))
  /\ delivered' = delivered - n

Wanted == 1 .. Min({delivered, rcv.need - Len(rcv.got)})

Got(n) == rcv.got \o SubSeq(wire, 1, n)

Read ==
  /\ rcv.call.pc = "read"
  /\ \/ /\ rcv.call.interrupts < MaxInterrupts
        /\ rcv' = [rcv EXCEPT !.call = Interrupted(@, rcv.timeout)]
        /\ UNCHANGED <<received, wire, delivered>>
     \/ /\ AtEOF
        /\ RecvFails("eof")
        /\ UNCHANGED <<wire, delivered>>
     \/ \E n \in Wanted :
          /\ Take(n)
          /\ \/ /\ Len(Got(n)) = rcv.need
                /\ PartRead(Got(n))
             \/ /\ Len(Got(n)) < rcv.need
                /\ TimeLeft(rcv.call, rcv.timeout)
                /\ rcv' = [rcv EXCEPT !.got = Got(n),
                             !.call = Selecting(@, rcv.timeout, Seconds(@.age))]
                /\ UNCHANGED received
             \/ /\ Len(Got(n)) < rcv.need
                /\ ~TimeLeft(rcv.call, rcv.timeout)
                /\ RecvFails("timeout")
  /\ UNCHANGED <<phase, connecting, blocking, sender>>

\* socket_xread, when there is no timeout.
XRead ==
  /\ rcv.call.pc = "xread"
  /\ \/ /\ rcv.call.tries = ReadTries
        /\ RecvFails("eof")
        /\ UNCHANGED <<wire, delivered>>
     \/ /\ rcv.call.tries < ReadTries
        /\ rcv.call.interrupts < MaxInterrupts
        /\ rcv' = [rcv EXCEPT !.call.tries = @ + 1, !.call.interrupts = @ + 1]
        /\ UNCHANGED <<received, wire, delivered>>
     \/ /\ rcv.call.tries < ReadTries
        /\ AtEOF
        /\ RecvFails("eof")
        /\ UNCHANGED <<wire, delivered>>
     \/ /\ rcv.call.tries < ReadTries
        /\ \E n \in Wanted :
             /\ Take(n)
             /\ \/ /\ Len(Got(n)) = rcv.need
                   /\ PartRead(Got(n))
                \/ /\ Len(Got(n)) < rcv.need
                   /\ rcv' = [rcv EXCEPT !.got = Got(n), !.call.tries = 0]
                   /\ UNCHANGED received
  /\ UNCHANGED <<phase, connecting, blocking, sender>>

------------------------------------------------------------------------------
\* The network and the clock.

Deliver ==
  /\ delivered < Len(wire)
  /\ delivered' \in delivered + 1 .. Len(wire)
  /\ UNCHANGED <<phase, connecting, blocking, wire, sender, receiver>>

SenderBlocked ==
  \/ snd.call.pc \in {"idle", "closed"}
  \/ snd.call.pc = "select" /\ ~Writable /\ snd.call.left > 0
  \/ snd.call.pc = "xwrite" /\ snd.call.tries < WriteTries /\ ~Writable

ReceiverBlocked ==
  \/ rcv.call.pc \in {"idle", "closed"}
  \/ rcv.call.pc = "select" /\ ~Readable /\ rcv.call.left > 0
  \/ rcv.call.pc = "xread" /\ rcv.call.tries < ReadTries /\ ~Readable

ConnectBlocked ==
  \/ con.pc \in {"connected", "failed"}
  \/ con.pc = "wait" /\ con.left > 0

Older(call) ==
  IF call.pc = "select" THEN [call EXCEPT !.age = @ + 1, !.left = @ - 1]
                        ELSE call

Tick ==
  /\ SenderBlocked /\ ReceiverBlocked /\ ConnectBlocked
  /\ phase' = (phase + 1) % TicksPerSecond
  /\ con' = IF con.pc = "wait"
              THEN [con EXCEPT !.age = @ + 1, !.left = @ - 1] ELSE con
  /\ snd' = [snd EXCEPT !.call = Older(@)]
  /\ rcv' = [rcv EXCEPT !.call = Older(@)]
  /\ UNCHANGED <<open, blocking, wire, delivered, sends, torn, received>>

------------------------------------------------------------------------------
Client ==
  \/ Resolve \/ TryNext \/ Source \/ Connect \/ ConnectWait \/ Restore \/ ConnectReturn
  \/ WriteSelect \/ Write \/ XWrite

Server == ReadSelect \/ Read \/ XRead

Next ==
  \/ Client
  \/ Server
  \/ \E token \in Tokens : TokenSend(token)
  \/ Close
  \/ TokenRecv
  \/ Deliver
  \/ Tick

Spec == Init /\ [][Next]_vars

\* The processes run and time passes; nothing is said of the network.
FairSpec == Spec /\ WF_vars(Client) /\ WF_vars(Server) /\ WF_vars(Tick)

------------------------------------------------------------------------------
\* Properties

CallOf(pcs) ==
  [pc : pcs, age : Nat, now : Nat, left : Nat, interrupts : Nat, tries : Nat]

ConnectType ==
  [pc : {"resolve", "next", "source", "connect", "wait", "restore",
         "connected", "failed"},
   at : 0 .. Addresses, fd : 0 .. Addresses, ok : BOOLEAN,
   timeout : Timeouts, left : Nat, age : Nat, interrupts : Nat]

SendType ==
  [call : CallOf({"idle", "select", "write", "xwrite", "closed"}),
   token : Token, buffer : Seq(Octet), calls : Nat]

ReceiveType ==
  [call : CallOf({"idle", "select", "read", "xread", "closed"}),
   timeout : Timeouts, part : {"flags", "length", "data"}, need : Nat,
   got : Seq(Octet), flags : Octet, why : {"none", "large", "timeout", "eof"}]

\* Every variable has its type; the sockets are in range.
TypeOK ==
  /\ phase \in 0 .. TicksPerSecond - 1
  /\ con \in ConnectType
  /\ open \subseteq 1 .. Addresses
  /\ blocking \in BOOLEAN
  /\ wire \in Seq(Octet)
  /\ delivered \in 0 .. Len(wire)
  /\ snd \in SendType
  /\ sends \in Seq(Tokens)
  /\ torn \in BOOLEAN
  /\ rcv \in ReceiveType
  /\ received \in Seq(Token)

(***************************************************************************)
(* network_connect leaves no socket behind: at most the one it is trying   *)
(* is open, none after it failed or the connection was closed, and the one *)
(* it returns is blocking, as it is again whenever no network_write is in  *)
(* progress.  (A socket left non-blocking makes socket_xread give up.)     *)
(***************************************************************************)
SocketsAccounted ==
  /\ open \subseteq {con.fd}
  /\ con.pc = "failed" \/ snd.call.pc = "closed" => open = {}
  /\ con.pc = "connected" /\ snd.call.pc # "closed" => open = {con.fd}
  /\ con.pc = "connected" /\ snd.call.pc \in {"idle", "closed"} => blocking

\* The ticks a timeout stands for, counted from the start of the second in
\* which the call began.
Limit(timeout) == timeout * TicksPerSecond + TicksPerSecond - 1

(***************************************************************************)
(* A call that no signal interrupts takes no longer than its timeout, in   *)
(* however many pieces the octets come and however late in the timeout the *)
(* last of them: what network_read and network_write have left for select  *)
(* shrinks with every piece.  Their comments say so of calls that signals  *)
(* interrupt too; but then select waits the old time once more.            *)
(***************************************************************************)
WithinTimeout ==
  /\ con.interrupts = 0 => con.age <= Limit(con.timeout)
  /\ snd.call.interrupts = 0 => snd.call.age <= Limit(con.timeout)
  /\ rcv.call.interrupts = 0 => rcv.call.age <= Limit(rcv.timeout)

(***************************************************************************)
(* As long as no send failed half way, the receiver gets exactly the       *)
(* tokens that were sent, whole and in order, whatever pieces the octets   *)
(* came in; and a token beyond the limit is never returned.                *)
(***************************************************************************)
TokensIntact ==
  /\ ~torn => IsPrefix(received, sends)
  /\ \A i \in DOMAIN received : Len(received[i].data) <= MaxToken

(***************************************************************************)
(* Every call of network_connect returns, and with a timeout every call of *)
(* network_read and network_write, whatever the other side does.           *)
(***************************************************************************)
TimedCallsReturn ==
  /\ con.pc = "resolve" ~> con.pc \in {"connected", "failed"}
  /\ snd.call.pc = "select" ~> snd.call.pc \in {"idle", "closed"}
  /\ rcv.call.pc = "select" ~> rcv.call.pc \in {"idle", "closed"}

============================================================================
