------------------------- MODULE Negotiation_proofs -------------------------
(***************************************************************************)
(* Proofs about Negotiation, for contexts of any number of tokens.         *)
(***************************************************************************)
EXTENDS Negotiation, SequenceTheorems, TLAPS

\* TypeOK but for the Boolean variable.
TokenFlags == {"NOOP", "CONTEXT_NEXT", "CONTEXT", "PROTOCOL", "DATA"}
ClientPc ==
  {"start", "cred", "hello", "init", "recv", "check", "open", "fail", "failed"}
ServerPc ==
  {"peer", "hello", "context", "accept", "check", "ready", "gone", "fail",
   "failed"}
ClientThings == {"fd", "name", "cred", "context", "token"}
ServerThings ==
  {"fd", "client", "ipaddress", "hostname", "token", "context", "name", "user"}
ClientState == [kind : {"library", "foreign"}, pc : ClientPc,
                protocol : 0 .. 2, leg : Nat, holds : SUBSET ClientThings]
ServerState == [kind : {"current", "old"}, pc : ServerPc,
                protocol : 0 .. 2, leg : Nat, holds : SUBSET ServerThings]

StateTypes ==
  /\ legs \in Legs /\ granted \subseteq Required
  /\ client \in ClientState /\ server \in ServerState
  /\ toServer \in Seq(SUBSET TokenFlags)
  /\ toClient \in Seq(SUBSET {"CONTEXT", "PROTOCOL"})

\* Neither side has failed, and the client is the library.
Alive ==
  /\ client.kind = "library" /\ client.pc \notin {"fail", "failed"}
  /\ server.pc \notin {"fail", "failed"}

\* The best protocol the server speaks, and what the first token makes of it.
Best == IF server.kind = "old" THEN 1 ELSE 2

Settled ==
  server.protocol = IF client.leg = 1 /\ client.protocol # 1 THEN Best
                    ELSE client.protocol

Silent == toServer = <<>> /\ toClient = <<>>

ServerDone == server.pc \in {"check", "ready", "gone"}

\* The server has dealt with n tokens of the context.
ServerAt(n) ==
  /\ server.leg = n
  /\ IF n < legs THEN server.pc = "context" ELSE ServerDone

\* The client has not sent anything yet.
Quiet ==
  /\ client.pc \in {"start", "cred", "hello"} /\ client.leg = 0
  /\ server.pc \in {"peer", "hello"} /\ server.leg = 0
  /\ Silent

\* It has sent the initial token.
Greeting ==
  /\ client.pc = "init" /\ client.leg = 0
  /\ server.leg = 0 /\ toClient = <<>>
  /\ \/ server.pc \in {"peer", "hello"} /\ toServer = <<Hello>>
     \/ server.pc = "context" /\ toServer = <<>> /\ server.protocol = Best

\* It has received a token and the server waits for the next.
Turn ==
  /\ client.pc = "init" /\ client.leg \in 2 .. legs
  /\ Silent /\ ServerAt(client.leg)
  /\ server.protocol = client.protocol

\* It has sent a token, the last one or one the server has to answer.
Sent ==
  /\ client.leg \in 1 .. legs
  /\ client.pc \in IF client.leg < legs THEN {"recv"} ELSE {"check", "open"}

\* Where that token, or the answer to it, is.
Unread ==
  /\ client.leg = 1 /\ server.leg = 0 /\ server.pc \in {"peer", "hello"}
  /\ toServer = <<Hello, ContextFlags(client.protocol)>> /\ toClient = <<>>

Sending ==
  /\ server.leg = client.leg - 1 /\ server.pc = "context"
  /\ toServer = <<ContextFlags(client.protocol)>> /\ toClient = <<>>
  /\ server.protocol = IF client.leg = 1 THEN Best ELSE client.protocol

Accepting ==
  server.leg = client.leg /\ server.pc = "accept" /\ Silent /\ Settled

Answered ==
  /\ client.leg < legs /\ ServerAt(client.leg + 1)
  /\ toServer = <<>> /\ toClient = <<ContextFlags(server.protocol)>>
  /\ Settled

Complete ==
  /\ client.leg = legs /\ server.leg = legs /\ ServerDone
  /\ Silent /\ Settled

\* The tokens go back and forth one at a time, and the protocols with them.
Exchange ==
  \/ Quiet \/ Greeting \/ Turn
  \/ Sent /\ (Unread \/ Sending \/ Accepting \/ Answered \/ Complete)

TurnInv == Alive => Exchange

\* What a side has accepted is acceptable; mutual authentication takes two
\* tokens.
FlagsInv ==
  /\ "mutual" \in granted => legs > 1
  /\ client.pc \in {"hello", "init", "recv", "check", "open"} =>
       client.protocol \in {1, 2}
  /\ client.pc = "open" => Acceptable(client.protocol)
  /\ Established => Acceptable(server.protocol)

\* A token without TOKEN_PROTOCOL has made the server choose protocol 1.
PlainInv ==
  /\ server.pc \in {"peer", "hello"} => ~plain
  /\ plain => server.protocol = 1 \/ server.pc \in {"fail", "failed"}

\* Another client stays where it begins.
KindInv == client.kind = "foreign" => client.pc = "start"

\* What internal_open holds where.
ClientHolds ==
  /\ client.kind = "library" /\ client.pc # "failed" => "fd" \in client.holds
  /\ client.pc \in {"check", "open"} => "context" \in client.holds
  /\ client.pc # "init" => "token" \notin client.holds
  /\ client.pc = "open" =>
       "name" \notin client.holds /\ "cred" \notin client.holds
  /\ client.pc = "failed" => client.holds = {}

\* What server_new_client and handle_connection hold where.
ServerHolds ==
  /\ server.pc \notin {"failed", "gone"} => "fd" \in server.holds
  /\ server.pc \notin {"fail", "failed", "gone"} => "client" \in server.holds
  /\ server.pc \notin {"peer", "fail", "failed", "gone"} =>
       "ipaddress" \in server.holds
  /\ server.pc \in {"check", "ready"} => "context" \in server.holds
  /\ server.pc # "accept" => "token" \notin server.holds
  /\ server.pc \notin {"check", "fail"} => "name" \notin server.holds
  /\ server.pc = "ready" <=> "user" \in server.holds
  /\ server.pc \in {"failed", "gone"} => server.holds = {}

IInv ==
  /\ TypeOK /\ KindInv /\ FlagsInv /\ PlainInv /\ TurnInv
  /\ ClientHolds /\ ServerHolds

-----------------------------------------------------------------------------
\* The two parts are the whole.
LEMMA TypeParts == TypeOK <=> StateTypes /\ plain \in BOOLEAN
BY Zenon DEF TypeOK, StateTypes, ClientState, ServerState, TokenFlags,
             ClientPc, ServerPc, ClientThings, ServerThings

\* The flags of a context token.
LEMMA ContextFlagsFacts ==
  ASSUME NEW p \in 0 .. 2
  PROVE  /\ ContextFlags(p) \in {{"CONTEXT"}, {"CONTEXT", "PROTOCOL"}}
         /\ ContextFlags(p) = {"CONTEXT"} <=> p # 2
         /\ "PROTOCOL" \in ContextFlags(p) <=> p = 2
         /\ ContextFlags(p) \in SUBSET TokenFlags
         /\ ContextFlags(p) \in SUBSET {"CONTEXT", "PROTOCOL"}
BY DEF ContextFlags, TokenFlags

\* A token is added to a queue.
LEMMA AppendFacts ==
  ASSUME NEW S, NEW q \in Seq(S), NEW t \in S
  PROVE  Append(q, t) \in Seq(S)
BY AppendProperties

\* What a token is taken from is a queue.
LEMMA TailFacts ==
  ASSUME NEW S, NEW q \in Seq(S), q # <<>>
  PROVE  Tail(q) \in Seq(S) /\ Head(q) \in S
BY HeadTailProperties

\* Changes of some of the fields leave a state of the client ...
LEMMA ClientEdits ==
  ASSUME NEW c \in ClientState, NEW n \in ClientPc
  PROVE  /\ [c EXCEPT !.pc = n] \in ClientState
         /\ \A h \in SUBSET ClientThings :
              /\ [c EXCEPT !.pc = n, !.holds = h] \in ClientState
              /\ \A l \in Nat :
                   [c EXCEPT !.pc = n, !.leg = l, !.holds = h] \in ClientState
              /\ \A p \in 0 .. 2 :
                   [c EXCEPT !.pc = n, !.holds = h, !.protocol = p]
                     \in ClientState
              /\ \A l \in Nat, p \in 0 .. 2 :
                   [c EXCEPT !.pc = n, !.leg = l, !.holds = h, !.protocol = p]
                     \in ClientState
BY DEF ClientState

\* ... and of the server.
LEMMA ServerEdits ==
  ASSUME NEW s \in ServerState, NEW n \in ServerPc
  PROVE  /\ [s EXCEPT !.pc = n] \in ServerState
         /\ \A p \in 0 .. 2 :
              [s EXCEPT !.pc = n, !.protocol = p] \in ServerState
         /\ \A h \in SUBSET ServerThings :
              /\ [s EXCEPT !.pc = n, !.holds = h] \in ServerState
              /\ \A l \in Nat :
                   [s EXCEPT !.leg = l, !.pc = n, !.holds = h] \in ServerState
              /\ \A l \in Nat, p \in 0 .. 2 :
                   [s EXCEPT !.pc = n, !.leg = l, !.protocol = p, !.holds = h]
                     \in ServerState
BY DEF ServerState

\* Every step keeps the flag Boolean.
LEMMA PlainStep ==
  ASSUME plain \in BOOLEAN, [Next]_vars
  PROVE  plain' \in BOOLEAN
<1> USE DEF ClientUnchanged, ServerUnchanged
<1>1. CASE ImportName
  BY <1>1, Zenon DEF ImportName
<1>2. CASE SetCred
  BY <1>2, Zenon DEF SetCred
<1>3. CASE SendHello
  BY <1>3, Zenon DEF SendHello
<1>4. CASE InitContext
  BY <1>4, Zenon DEF InitContext
<1>5. CASE RecvToken
  BY <1>5, Zenon DEF RecvToken
<1>6. CASE RecvEnds
  BY <1>6, Zenon DEF RecvEnds
<1>7. CASE RecvTimesOut
  BY <1>7, Zenon DEF RecvTimesOut
<1>8. CASE CheckFlags
  BY <1>8, Zenon DEF CheckFlags
<1>9. CASE OpenFails
  BY <1>9, Zenon DEF OpenFails
<1>10. CASE ForeignSend
  BY <1>10, Zenon DEF ForeignSend
<1>11. CASE ForeignClose
  BY <1>11, Zenon DEF ForeignClose
<1>12. CASE Peer
  BY <1>12, Zenon DEF Peer
<1>13. CASE ServerRecvFails
  BY <1>13, Zenon DEF ServerRecvFails
<1>14. CASE RecvHello
  BY <1>14, Zenon DEF RecvHello
<1>15. CASE RecvContext
  BY <1>15, Zenon DEF RecvContext
<1>16. CASE AcceptContext
  BY <1>16, Zenon DEF AcceptContext
<1>17. CASE Finish
  BY <1>17, Zenon DEF Finish
<1>18. CASE NewClientFails
  BY <1>18, Zenon DEF NewClientFails
<1>19. CASE FreeClient
  BY <1>19, Zenon DEF FreeClient
<1>20. CASE UNCHANGED vars
  BY <1>20, Zenon DEF vars
<1> QED
  BY <1>1, <1>2, <1>3, <1>4, <1>5, <1>6, <1>7, <1>8, <1>9, <1>10, <1>11,
     <1>12, <1>13, <1>14, <1>15, <1>16, <1>17, <1>18, <1>19, <1>20
  DEF Next, Library, ServerSide

\* Every step keeps the other types.
LEMMA StateStep ==
  ASSUME StateTypes, [Next]_vars
  PROVE  StateTypes'
<1> USE DEF StateTypes, ClientUnchanged, ServerUnchanged
<1>1. CASE ImportName
  <2>1. /\ client.leg + 1 \in Nat /\ client.protocol \in 0 .. 2
        /\ client.holds \in SUBSET ClientThings
    BY DEF ClientState
  <2>2. client.holds \union {"name"} \in SUBSET ClientThings
    BY <2>1 DEF ClientThings
  <2>3. {"cred", "fail"} \subseteq ClientPc
    BY DEF ClientPc
  <2>4. /\ [client EXCEPT !.pc = "fail"] \in ClientState
        /\ [client EXCEPT !.pc = "cred",
              !.holds = client.holds \union {"name"}] \in ClientState
    BY <2>2, <2>3, ClientEdits
  <2> QED
    BY <1>1, <2>4 DEF ImportName
<1>2. CASE SetCred
  <2>1. /\ client.leg + 1 \in Nat /\ client.protocol \in 0 .. 2
        /\ client.holds \in SUBSET ClientThings
    BY DEF ClientState
  <2>2. \A cred \in SUBSET {"cred"} :
           client.holds \union cred \in SUBSET ClientThings
    BY <2>1 DEF ClientThings
  <2>3. (IF client.protocol = 0 THEN 2 ELSE client.protocol) \in 0 .. 2
    BY <2>1
  <2>4. {"hello", "fail"} \subseteq ClientPc
    BY DEF ClientPc
  <2>5. [client EXCEPT !.pc = "fail"] \in ClientState
    BY <2>4, ClientEdits
  <2>6. ASSUME NEW cred \in SUBSET {"cred"}
        PROVE  [client EXCEPT !.pc = "hello",
                  !.holds = client.holds \union cred,
                  !.protocol = IF client.protocol = 0 THEN 2
                               ELSE client.protocol] \in ClientState
    BY <2>2, <2>3, <2>4, ClientEdits
  <2>7. client' \in ClientState
    BY <1>2, <2>5, <2>6, Zenon DEF SetCred
  <2> QED
    BY <1>2, <2>7 DEF SetCred
<1>3. CASE SendHello
  <2>1. client' \in ClientState
    BY <1>3 DEF SendHello, ClientState, ClientPc
  <2>2. Hello \in SUBSET TokenFlags
    BY DEF Hello, TokenFlags
  <2>3. Append(toServer, Hello) \in Seq(SUBSET TokenFlags)
    BY <2>2, AppendFacts
  <2> QED
    BY <1>3, <2>1, <2>3 DEF SendHello, Send
<1>4. CASE InitContext
  <2>1. /\ client.leg + 1 \in Nat /\ client.protocol \in 0 .. 2
        /\ client.holds \in SUBSET ClientThings
    BY DEF ClientState
  <2>2. (client.holds \ {"token"}) \union {"context"} \in SUBSET ClientThings
    BY <2>1 DEF ClientThings
  <2>3. (IF client.leg + 1 < legs THEN "recv" ELSE "check") \in ClientPc
    BY DEF ClientPc
  <2>4. "check" \in ClientPc /\ "fail" \in ClientPc
    BY DEF ClientPc
  <2> DEFINE held == (client.holds \ {"token"}) \union {"context"}
             done == IF client.leg + 1 < legs THEN "recv" ELSE "check"
  <2>a. /\ [client EXCEPT !.pc = done, !.leg = client.leg + 1, !.holds = held]
             \in ClientState
        /\ [client EXCEPT !.pc = "check", !.holds = held] \in ClientState
        /\ [client EXCEPT !.pc = "fail", !.holds = held] \in ClientState
    <3> HIDE DEF done
    <3> QED
      BY <2>1, <2>2, <2>3, <2>4, ClientEdits DEF done
  <2>5. client' \in ClientState
    BY <1>4, <2>a, Zenon DEF InitContext
  <2>6. ContextFlags(client.protocol) \in SUBSET TokenFlags
    BY <2>1, ContextFlagsFacts
  <2>7. Append(toServer, ContextFlags(client.protocol))
          \in Seq(SUBSET TokenFlags)
    BY <2>6, AppendFacts
  <2>8. toServer' \in {toServer, Send(toServer, ContextFlags(client.protocol),
                                      ServerClosed)}
    BY <1>4, Zenon DEF InitContext
  <2>9. toServer' \in Seq(SUBSET TokenFlags)
    BY <2>7, <2>8 DEF Send
  <2> QED
    BY <1>4, <2>5, <2>9 DEF InitContext
<1>5. CASE RecvToken
  <2>1. /\ client.leg + 1 \in Nat /\ client.protocol \in 0 .. 2
        /\ client.holds \in SUBSET ClientThings
    BY DEF ClientState
  <2>2. client.holds \union {"token"} \in SUBSET ClientThings
    BY <2>1 DEF ClientThings
  <2>3. (IF client.protocol > 1 /\ "PROTOCOL" \notin Head(toClient) THEN 1
         ELSE client.protocol) \in 0 .. 2
    BY <2>1
  <2>4. "init" \in ClientPc
    BY DEF ClientPc
  <2>5. client' \in ClientState
    BY <1>5, <2>1, <2>2, <2>3, <2>4, ClientEdits DEF RecvToken
  <2>6. toClient' \in Seq(SUBSET {"CONTEXT", "PROTOCOL"})
    BY <1>5, TailFacts DEF RecvToken
  <2> QED
    BY <1>5, <2>5, <2>6 DEF RecvToken
<1>6. CASE RecvEnds
  BY <1>6 DEF RecvEnds, ClientState, ServerState, ClientPc, ServerPc
<1>7. CASE RecvTimesOut
  BY <1>7 DEF RecvTimesOut, ClientState, ServerState, ClientPc, ServerPc
<1>8. CASE CheckFlags
  <2>1. /\ client.leg + 1 \in Nat /\ client.protocol \in 0 .. 2
        /\ client.holds \in SUBSET ClientThings
    BY DEF ClientState
  <2>2. client.holds \ {"name", "cred"} \in SUBSET ClientThings
    BY <2>1
  <2> QED
    BY <1>8, <2>2, ClientEdits DEF CheckFlags, ClientPc
<1>9. CASE OpenFails
  <2>1. /\ client.leg + 1 \in Nat /\ client.protocol \in 0 .. 2
        /\ client.holds \in SUBSET ClientThings
    BY DEF ClientState
  <2>2. client.holds \ {"fd", "name", "cred", "context"}
           \in SUBSET ClientThings
    BY <2>1
  <2> QED
    BY <1>9, <2>2, ClientEdits DEF OpenFails, ClientPc
<1>10. CASE ForeignSend
  <2>1. client' \in ClientState
    BY <1>10 DEF ForeignSend, ClientState
  <2>2. \A flags \in AnyFlags : flags \in SUBSET TokenFlags
    BY DEF AnyFlags, Hello, HelloV1, TokenFlags
  <2>3. \A flags \in AnyFlags :
           Append(toServer, flags) \in Seq(SUBSET TokenFlags)
    BY <2>2, AppendFacts
  <2> QED
    BY <1>10, <2>1, <2>3 DEF ForeignSend, Send
<1>11. CASE ForeignClose
  BY <1>11 DEF ForeignClose, ClientState, ServerState, ClientPc, ServerPc
<1>12. CASE Peer
  <2>1. /\ server.leg + 1 \in Nat /\ server.protocol \in 0 .. 2
        /\ server.holds \in SUBSET ServerThings
    BY DEF ServerState
  <2>2. /\ server.holds \union {"ipaddress"} \in SUBSET ServerThings
        /\ \A named \in SUBSET {"hostname"} :
             server.holds \union {"ipaddress"} \union named
               \in SUBSET ServerThings
    BY <2>1 DEF ServerThings
  <2>3. {"hello", "fail"} \subseteq ServerPc
    BY DEF ServerPc
  <2>4. /\ [server EXCEPT !.pc = "fail"] \in ServerState
        /\ [server EXCEPT !.pc = "fail",
              !.holds = server.holds \union {"ipaddress"}] \in ServerState
    BY <2>2, <2>3, ServerEdits
  <2>5. ASSUME NEW named \in SUBSET {"hostname"}
        PROVE  [server EXCEPT !.pc = "hello",
                  !.holds = server.holds \union {"ipaddress"} \union named]
                 \in ServerState
    BY <2>2, <2>3, ServerEdits
  <2>6. server' \in ServerState
    BY <1>12, <2>4, <2>5, Zenon DEF Peer
  <2> QED
    BY <1>12, <2>6 DEF Peer
<1>13. CASE ServerRecvFails
  BY <1>13 DEF ServerRecvFails, ClientState, ServerState, ClientPc, ServerPc
<1>14. CASE RecvHello
  <2>1. /\ server.leg + 1 \in Nat /\ server.protocol \in 0 .. 2
        /\ server.holds \in SUBSET ServerThings
    BY DEF ServerState
  <2>2. {"context", "fail"} \subseteq ServerPc
    BY DEF ServerPc
  <2>3. \A p \in 0 .. 2 : [server EXCEPT !.pc = "context", !.protocol = p]
                            \in ServerState
    BY <2>2, ServerEdits
  <2>4. [server EXCEPT !.pc = "fail"] \in ServerState
    BY <2>2, ServerEdits
  <2> DEFINE best == IF server.kind = "old" THEN 1 ELSE 2
  <2>a. best \in 0 .. 2 /\ 1 \in 0 .. 2
    OBVIOUS
  <2>b. /\ [server EXCEPT !.pc = "context", !.protocol = best] \in ServerState
        /\ [server EXCEPT !.pc = "context", !.protocol = 1] \in ServerState
    <3> HIDE DEF best
    <3> QED
      BY <2>a, <2>3
  <2>5. server' \in ServerState
    BY <1>14, <2>b, <2>4, Zenon DEF RecvHello
  <2>6. toServer' \in Seq(SUBSET TokenFlags)
    BY <1>14, TailFacts DEF RecvHello
  <2> QED
    BY <1>14, <2>5, <2>6 DEF RecvHello
<1>15. CASE RecvContext
  <2>1. /\ server.leg + 1 \in Nat /\ server.protocol \in 0 .. 2
        /\ server.holds \in SUBSET ServerThings
    BY DEF ServerState
  <2>2. {"accept", "fail"} \subseteq ServerPc
    BY DEF ServerPc
  <2>3. server.holds \union {"token"} \in SUBSET ServerThings
    BY <2>1 DEF ServerThings
  <2>4. TokenProtocol(Head(toServer)) \in 0 .. 2
    BY <2>1 DEF TokenProtocol
  <2>5. server' \in ServerState
    BY <1>15, <2>1, <2>2, <2>3, <2>4, ServerEdits DEF RecvContext
  <2>6. toServer' \in Seq(SUBSET TokenFlags)
    BY <1>15, TailFacts DEF RecvContext
  <2> QED
    BY <1>15, <2>5, <2>6 DEF RecvContext
<1>16. CASE AcceptContext
  <2>1. /\ server.leg + 1 \in Nat /\ server.protocol \in 0 .. 2
        /\ server.holds \in SUBSET ServerThings
    BY DEF ServerState
  <2> DEFINE held == (server.holds \ {"token"}) \union {"context"}
  <2>2. /\ held \in SUBSET ServerThings
        /\ held \union {"name"} \in SUBSET ServerThings
        /\ \A kept \in {{}, {"context"}, {"context", "name"}} :
             (server.holds \ {"token"}) \union kept \in SUBSET ServerThings
    BY <2>1 DEF ServerThings
  <2>3. {"context", "check", "fail"} \subseteq ServerPc
    BY DEF ServerPc
  <2>a. /\ [server EXCEPT !.leg = server.leg + 1, !.pc = "context",
              !.holds = held] \in ServerState
        /\ [server EXCEPT !.leg = server.leg + 1, !.pc = "check",
              !.holds = held \union {"name"}] \in ServerState
        /\ [server EXCEPT !.pc = "check", !.holds = held \union {"name"}]
             \in ServerState
    BY <2>1, <2>2, <2>3, ServerEdits
  <2>b. ASSUME NEW kept \in {{}, {"context"}, {"context", "name"}}
        PROVE  [server EXCEPT !.pc = "fail",
                  !.holds = (server.holds \ {"token"}) \union kept]
                 \in ServerState
    BY <2>2, <2>3, ServerEdits
  <2>4. server' \in ServerState
    BY <1>16, <2>a, <2>b DEF AcceptContext
  <2>5. ContextFlags(server.protocol) \in SUBSET {"CONTEXT", "PROTOCOL"}
    BY <2>1, ContextFlagsFacts
  <2>6. Append(toClient, ContextFlags(server.protocol))
          \in Seq(SUBSET {"CONTEXT", "PROTOCOL"})
    BY <2>5, AppendFacts
  <2>7. toClient' \in {toClient, Send(toClient, ContextFlags(server.protocol),
                                      ClientClosed)}
    BY <1>16, Zenon DEF AcceptContext
  <2>8. toClient' \in Seq(SUBSET {"CONTEXT", "PROTOCOL"})
    BY <2>6, <2>7 DEF Send
  <2> QED
    BY <1>16, <2>4, <2>8 DEF AcceptContext
<1>17. CASE Finish
  <2>1. /\ server.leg + 1 \in Nat /\ server.protocol \in 0 .. 2
        /\ server.holds \in SUBSET ServerThings
    BY DEF ServerState
  <2>2. (server.holds \ {"name"}) \union {"user"} \in SUBSET ServerThings
    BY <2>1 DEF ServerThings
  <2>3. {"ready", "fail"} \subseteq ServerPc
    BY DEF ServerPc
  <2>4. /\ [server EXCEPT !.pc = "fail"] \in ServerState
        /\ [server EXCEPT !.pc = "ready",
              !.holds = (server.holds \ {"name"}) \union {"user"}]
             \in ServerState
    BY <2>2, <2>3, ServerEdits
  <2> QED
    BY <1>17, <2>4 DEF Finish
<1>18. CASE NewClientFails
  <2>1. /\ server.leg + 1 \in Nat /\ server.protocol \in 0 .. 2
        /\ server.holds \in SUBSET ServerThings
    BY DEF ServerState
  <2>2. server.holds \ {"context", "name", "ipaddress", "hostname", "client",
                        "fd"} \in SUBSET ServerThings
    BY <2>1
  <2> QED
    BY <1>18, <2>2, ServerEdits DEF NewClientFails, ServerPc
<1>19. CASE FreeClient
  <2>1. /\ server.leg + 1 \in Nat /\ server.protocol \in 0 .. 2
        /\ server.holds \in SUBSET ServerThings
    BY DEF ServerState
  <2>2. server.holds \ {"context", "fd", "user", "hostname", "ipaddress",
                        "client"} \in SUBSET ServerThings
    BY <2>1
  <2> QED
    BY <1>19, <2>2, ServerEdits DEF FreeClient, ServerPc
<1>20. CASE UNCHANGED vars
  BY <1>20 DEF vars
<1> QED
  BY <1>1, <1>2, <1>3, <1>4, <1>5, <1>6, <1>7, <1>8, <1>9, <1>10, <1>11,
     <1>12, <1>13, <1>14, <1>15, <1>16, <1>17, <1>18, <1>19, <1>20
  DEF Next, Library, ServerSide

\* Every step keeps another client where it is.
LEMMA KindStep ==
  ASSUME TypeOK, KindInv, [Next]_vars
  PROVE  KindInv'
<1> USE DEF KindInv, TypeOK, ClientUnchanged, ServerUnchanged
<1>1. CASE ImportName
  BY <1>1 DEF ImportName
<1>2. CASE SetCred
  BY <1>2 DEF SetCred
<1>3. CASE SendHello
  BY <1>3 DEF SendHello
<1>4. CASE InitContext
  BY <1>4 DEF InitContext
<1>5. CASE RecvToken
  BY <1>5 DEF RecvToken
<1>6. CASE RecvEnds
  BY <1>6 DEF RecvEnds
<1>7. CASE RecvTimesOut
  BY <1>7 DEF RecvTimesOut
<1>8. CASE CheckFlags
  BY <1>8 DEF CheckFlags
<1>9. CASE OpenFails
  BY <1>9 DEF OpenFails
<1>10. CASE ForeignSend
  BY <1>10 DEF ForeignSend
<1>11. CASE ForeignClose
  BY <1>11 DEF ForeignClose
<1>12. CASE Peer
  BY <1>12 DEF Peer
<1>13. CASE ServerRecvFails
  BY <1>13 DEF ServerRecvFails
<1>14. CASE RecvHello
  BY <1>14 DEF RecvHello
<1>15. CASE RecvContext
  BY <1>15 DEF RecvContext
<1>16. CASE AcceptContext
  BY <1>16 DEF AcceptContext
<1>17. CASE Finish
  BY <1>17 DEF Finish
<1>18. CASE NewClientFails
  BY <1>18 DEF NewClientFails
<1>19. CASE FreeClient
  BY <1>19 DEF FreeClient
<1>20. CASE UNCHANGED vars
  BY <1>20 DEF vars
<1> QED
  BY <1>1, <1>2, <1>3, <1>4, <1>5, <1>6, <1>7, <1>8, <1>9, <1>10, <1>11,
     <1>12, <1>13, <1>14, <1>15, <1>16, <1>17, <1>18, <1>19, <1>20
  DEF Next, Library, ServerSide

\* Every step of internal_open accounts for what it holds.
LEMMA ClientHoldsStep ==
  ASSUME TypeOK, KindInv, ClientHolds, [Next]_vars
  PROVE  ClientHolds'
<1> USE DEF KindInv, TypeOK, ClientUnchanged, ServerUnchanged
<1>1. CASE ImportName
  <2>1. /\ client.pc = "start" /\ client.kind = "library"
        /\ client'.kind = client.kind /\ client'.pc \in {"fail", "cred"}
        /\ client'.holds \in {client.holds, client.holds \union {"name"}}
    BY <1>1 DEF ImportName
  <2> QED
    BY <2>1 DEF ClientHolds
<1>2. CASE SetCred
  <2>1. client.pc = "cred" /\ client.kind = "library"
    BY <1>2 DEF SetCred
  <2>2. CASE client' = [client EXCEPT !.pc = "fail"]
    BY <2>1, <2>2 DEF ClientHolds
  <2>3. ASSUME NEW cred \in SUBSET {"cred"},
               client' = [client EXCEPT !.pc = "hello",
                            !.holds = client.holds \union cred,
                            !.protocol = IF client.protocol = 0 THEN 2
                                         ELSE client.protocol]
        PROVE  ClientHolds'
    <3>1. /\ client'.pc = "hello" /\ client'.kind = "library"
          /\ client'.holds = client.holds \union cred
      BY <2>1, <2>3
    <3> QED
      BY <2>1, <3>1 DEF ClientHolds
  <2> QED
    BY <1>2, <2>2, <2>3 DEF SetCred
<1>3. CASE SendHello
  BY <1>3 DEF SendHello, ClientHolds
<1>4. CASE InitContext
  <2>1. /\ client.pc = "init" /\ client.kind = "library"
        /\ client'.kind = client.kind
        /\ client'.pc \in {"fail", "recv", "check"}
        /\ client'.holds = (client.holds \ {"token"}) \union {"context"}
    BY <1>4 DEF InitContext
  <2> QED
    BY <2>1 DEF ClientHolds
<1>5. CASE RecvToken
  BY <1>5 DEF RecvToken, ClientHolds
<1>6. CASE RecvEnds
  BY <1>6 DEF RecvEnds, ClientHolds
<1>7. CASE RecvTimesOut
  BY <1>7 DEF RecvTimesOut, ClientHolds
<1>8. CASE CheckFlags
  BY <1>8 DEF CheckFlags, ClientHolds
<1>9. CASE OpenFails
  BY <1>9 DEF OpenFails, ClientHolds
<1>10. CASE ForeignSend
  BY <1>10 DEF ForeignSend, ClientHolds
<1>11. CASE ForeignClose
  BY <1>11 DEF ForeignClose, ClientHolds
<1>12. CASE Peer
  BY <1>12 DEF Peer, ClientHolds
<1>13. CASE ServerRecvFails
  BY <1>13 DEF ServerRecvFails, ClientHolds
<1>14. CASE RecvHello
  BY <1>14 DEF RecvHello, ClientHolds
<1>15. CASE RecvContext
  BY <1>15 DEF RecvContext, ClientHolds
<1>16. CASE AcceptContext
  BY <1>16 DEF AcceptContext, ClientHolds
<1>17. CASE Finish
  BY <1>17 DEF Finish, ClientHolds
<1>18. CASE NewClientFails
  BY <1>18 DEF NewClientFails, ClientHolds
<1>19. CASE FreeClient
  BY <1>19 DEF FreeClient, ClientHolds
<1>20. CASE UNCHANGED vars
  BY <1>20 DEF vars, ClientHolds
<1> QED
  BY <1>1, <1>2, <1>3, <1>4, <1>5, <1>6, <1>7, <1>8, <1>9, <1>10, <1>11,
     <1>12, <1>13, <1>14, <1>15, <1>16, <1>17, <1>18, <1>19, <1>20
  DEF Next, Library, ServerSide

\* Every step of server_new_client and its caller accounts for what they hold.
LEMMA ServerHoldsStep ==
  ASSUME TypeOK, ServerHolds, [Next]_vars
  PROVE  ServerHolds'
<1> USE DEF TypeOK, ClientUnchanged, ServerUnchanged
<1>1. CASE ImportName
  BY <1>1 DEF ImportName, ServerHolds
<1>2. CASE SetCred
  BY <1>2 DEF SetCred, ServerHolds
<1>3. CASE SendHello
  BY <1>3 DEF SendHello, ServerHolds
<1>4. CASE InitContext
  BY <1>4 DEF InitContext, ServerHolds
<1>5. CASE RecvToken
  BY <1>5 DEF RecvToken, ServerHolds
<1>6. CASE RecvEnds
  BY <1>6 DEF RecvEnds, ServerHolds
<1>7. CASE RecvTimesOut
  BY <1>7 DEF RecvTimesOut, ServerHolds
<1>8. CASE CheckFlags
  BY <1>8 DEF CheckFlags, ServerHolds
<1>9. CASE OpenFails
  BY <1>9 DEF OpenFails, ServerHolds
<1>10. CASE ForeignSend
  BY <1>10 DEF ForeignSend, ServerHolds
<1>11. CASE ForeignClose
  BY <1>11 DEF ForeignClose, ServerHolds
<1>12. CASE Peer
  <2>1. server.pc = "peer"
    BY <1>12 DEF Peer
  <2>2. CASE server' = [server EXCEPT !.pc = "fail"]
    BY <2>1, <2>2 DEF ServerHolds
  <2>3. CASE server' = [server EXCEPT !.pc = "fail",
                          !.holds = server.holds \union {"ipaddress"}]
    <3>1. /\ server'.pc = "fail"
          /\ server'.holds = server.holds \union {"ipaddress"}
      BY <2>3
    <3> QED
      BY <2>1, <3>1 DEF ServerHolds
  <2>4. ASSUME NEW named \in SUBSET {"hostname"},
               server' = [server EXCEPT !.pc = "hello",
                            !.holds = server.holds \union {"ipaddress"}
                                        \union named]
        PROVE  ServerHolds'
    <3>1. /\ server'.pc = "hello"
          /\ server'.holds = server.holds \union {"ipaddress"} \union named
      BY <2>4
    <3> QED
      BY <2>1, <3>1 DEF ServerHolds
  <2> QED
    BY <1>12, <2>2, <2>3, <2>4 DEF Peer
<1>13. CASE ServerRecvFails
  BY <1>13 DEF ServerRecvFails, ServerHolds
<1>14. CASE RecvHello
  BY <1>14 DEF RecvHello, ServerHolds
<1>15. CASE RecvContext
  BY <1>15 DEF RecvContext, ServerHolds
<1>16. CASE AcceptContext
  <2> DEFINE held == (server.holds \ {"token"}) \union {"context"}
  <2>1. server.pc = "accept"
    BY <1>16 DEF AcceptContext
  <2>2. \/ server'.pc = "context" /\ server'.holds = held
        \/ server'.pc = "check" /\ server'.holds = held \union {"name"}
        \/ /\ server'.pc = "fail"
           /\ \E kept \in {{}, {"context"}, {"context", "name"}} :
                server'.holds = (server.holds \ {"token"}) \union kept
    BY <1>16 DEF AcceptContext
  <2> QED
    BY <2>1, <2>2 DEF ServerHolds
<1>17. CASE Finish
  <2>1. server.pc = "check"
    BY <1>17 DEF Finish
  <2>2. \/ server'.pc = "fail" /\ server'.holds = server.holds
        \/ /\ server'.pc = "ready"
           /\ server'.holds = (server.holds \ {"name"}) \union {"user"}
    BY <1>17 DEF Finish
  <2> QED
    BY <2>1, <2>2 DEF ServerHolds
<1>18. CASE NewClientFails
  BY <1>18 DEF NewClientFails, ServerHolds
<1>19. CASE FreeClient
  BY <1>19 DEF FreeClient, ServerHolds
<1>20. CASE UNCHANGED vars
  BY <1>20 DEF vars, ServerHolds
<1> QED
  BY <1>1, <1>2, <1>3, <1>4, <1>5, <1>6, <1>7, <1>8, <1>9, <1>10, <1>11,
     <1>12, <1>13, <1>14, <1>15, <1>16, <1>17, <1>18, <1>19, <1>20
  DEF Next, Library, ServerSide

\* Every step keeps what has been accepted acceptable.
LEMMA FlagsStep ==
  ASSUME StateTypes, FlagsInv, [Next]_vars
  PROVE  FlagsInv'
<1> USE DEF StateTypes, ClientUnchanged, ServerUnchanged
<1>1. CASE ImportName
  BY <1>1
  DEF ImportName, ClientState, ServerState, FlagsInv, Established, Acceptable
<1>2. CASE SetCred
  <2>1. /\ client.protocol \in 0 .. 2
        /\ \/ client'.pc = "fail"
           \/ /\ client'.pc = "hello"
              /\ client'.protocol = IF client.protocol = 0 THEN 2
                                    ELSE client.protocol
        /\ UNCHANGED <<legs, granted, server>>
    BY <1>2 DEF SetCred, ClientState
  <2> QED
    BY <2>1 DEF FlagsInv, Established, Acceptable
<1>3. CASE SendHello
  BY <1>3
  DEF SendHello, ClientState, ServerState, FlagsInv, Established, Acceptable
<1>4. CASE InitContext
  <2>1. /\ client.pc = "init" /\ client'.pc \in {"fail", "recv", "check"}
        /\ client'.protocol = client.protocol
        /\ UNCHANGED <<legs, granted, server>>
    BY <1>4 DEF InitContext, ClientState
  <2> QED
    BY <2>1 DEF FlagsInv, Established, Acceptable
<1>5. CASE RecvToken
  BY <1>5
  DEF RecvToken, ClientState, ServerState, FlagsInv, Established, Acceptable
<1>6. CASE RecvEnds
  BY <1>6
  DEF RecvEnds, ClientState, ServerState, FlagsInv, Established, Acceptable
<1>7. CASE RecvTimesOut
  BY <1>7
  DEF RecvTimesOut, ClientState, ServerState, FlagsInv, Established, Acceptable
<1>8. CASE CheckFlags
  BY <1>8
  DEF CheckFlags, ClientState, ServerState, FlagsInv, Established, Acceptable
<1>9. CASE OpenFails
  BY <1>9
  DEF OpenFails, ClientState, ServerState, FlagsInv, Established, Acceptable
<1>10. CASE ForeignSend
  BY <1>10
  DEF ForeignSend, ClientState, ServerState, FlagsInv, Established, Acceptable
<1>11. CASE ForeignClose
  BY <1>11
  DEF ForeignClose, ClientState, ServerState, FlagsInv, Established, Acceptable
<1>12. CASE Peer
  BY <1>12
  DEF Peer, ClientState, ServerState, FlagsInv, Established, Acceptable
<1>13. CASE ServerRecvFails
  BY <1>13
  DEF ServerRecvFails, ClientState, ServerState, FlagsInv, Established,
      Acceptable
<1>14. CASE RecvHello
  <2>1. server'.pc \in {"context", "fail"}
    BY <1>14 DEF RecvHello, ServerState
  <2> QED
    BY <1>14, <2>1 DEF RecvHello, FlagsInv, Established, Acceptable
<1>15. CASE RecvContext
  <2>1. server'.pc \in {"accept", "fail"}
    BY <1>15 DEF RecvContext, ServerState
  <2> QED
    BY <1>15, <2>1 DEF RecvContext, FlagsInv, Established, Acceptable
<1>16. CASE AcceptContext
  <2>1. server'.pc \in {"context", "check", "fail"}
    BY <1>16 DEF AcceptContext, ServerState
  <2> QED
    BY <1>16, <2>1 DEF AcceptContext, FlagsInv, Established, Acceptable
<1>17. CASE Finish
  BY <1>17
  DEF Finish, ClientState, ServerState, FlagsInv, Established, Acceptable
<1>18. CASE NewClientFails
  BY <1>18
  DEF NewClientFails, ClientState, ServerState, FlagsInv, Established,
      Acceptable
<1>19. CASE FreeClient
  BY <1>19
  DEF FreeClient, ClientState, ServerState, FlagsInv, Established, Acceptable
<1>20. CASE UNCHANGED vars
  BY <1>20 DEF vars, FlagsInv, Established, Acceptable
<1> QED
  BY <1>1, <1>2, <1>3, <1>4, <1>5, <1>6, <1>7, <1>8, <1>9, <1>10, <1>11,
     <1>12, <1>13, <1>14, <1>15, <1>16, <1>17, <1>18, <1>19, <1>20
  DEF Next, Library, ServerSide

\* Every step keeps protocol 1 where a token lacked TOKEN_PROTOCOL.
LEMMA PlainInvStep ==
  ASSUME StateTypes, PlainInv, [Next]_vars
  PROVE  PlainInv'
<1> USE DEF StateTypes, ClientUnchanged, ServerUnchanged
<1>1. CASE ImportName
  BY <1>1 DEF ImportName, PlainInv
<1>2. CASE SetCred
  BY <1>2 DEF SetCred, PlainInv
<1>3. CASE SendHello
  BY <1>3 DEF SendHello, PlainInv
<1>4. CASE InitContext
  BY <1>4 DEF InitContext, PlainInv
<1>5. CASE RecvToken
  BY <1>5 DEF RecvToken, PlainInv
<1>6. CASE RecvEnds
  BY <1>6 DEF RecvEnds, PlainInv
<1>7. CASE RecvTimesOut
  BY <1>7 DEF RecvTimesOut, PlainInv
<1>8. CASE CheckFlags
  BY <1>8 DEF CheckFlags, PlainInv
<1>9. CASE OpenFails
  BY <1>9 DEF OpenFails, PlainInv
<1>10. CASE ForeignSend
  BY <1>10 DEF ForeignSend, PlainInv
<1>11. CASE ForeignClose
  BY <1>11 DEF ForeignClose, PlainInv
<1>12. CASE Peer
  BY <1>12 DEF Peer, ServerState, PlainInv
<1>13. CASE ServerRecvFails
  BY <1>13 DEF ServerRecvFails, ServerState, PlainInv
<1>14. CASE RecvHello
  <2>1. server.pc = "hello" /\ server.protocol \in 0 .. 2
    BY <1>14 DEF RecvHello, ServerState
  <2>2. ~plain
    BY <2>1 DEF PlainInv
  <2>3. plain' => "PROTOCOL" \notin Head(toServer)
    BY <1>14, <2>2, Zenon DEF RecvHello
  <2>4. Head(toServer) = Hello => "PROTOCOL" \in Head(toServer)
    BY DEF Hello
  <2>5. /\ server'.pc \in {"context", "fail"}
        /\ \/ Head(toServer) = Hello
           \/ server'.protocol = 1
           \/ server'.pc = "fail"
    BY <1>14 DEF RecvHello, ServerState
  <2> QED
    BY <2>3, <2>4, <2>5, Zenon DEF PlainInv
<1>15. CASE RecvContext
  <2>1. server.pc = "context"
    BY <1>15 DEF RecvContext
  <2>2. plain' => plain \/ "PROTOCOL" \notin Head(toServer)
    BY <1>15, Zenon DEF RecvContext
  <2>3. Head(toServer) = {"CONTEXT", "PROTOCOL"}
           => "PROTOCOL" \in Head(toServer)
    OBVIOUS
  <2>4. \/ Head(toServer) = {"CONTEXT", "PROTOCOL"} /\ server'.pc = "accept"
           /\ (server'.protocol = server.protocol \/ server'.protocol = 1)
        \/ server'.pc = "accept" /\ server'.protocol = 1
        \/ server'.pc = "fail"
    BY <1>15 DEF RecvContext, ServerState, TokenProtocol
  <2>5. plain => server.protocol = 1
    BY <2>1 DEF PlainInv
  <2> QED
    BY <2>2, <2>3, <2>4, <2>5 DEF PlainInv
<1>16. CASE AcceptContext
  BY <1>16 DEF AcceptContext, ServerState, PlainInv
<1>17. CASE Finish
  BY <1>17 DEF Finish, ServerState, PlainInv
<1>18. CASE NewClientFails
  BY <1>18 DEF NewClientFails, ServerState, PlainInv
<1>19. CASE FreeClient
  BY <1>19 DEF FreeClient, ServerState, PlainInv
<1>20. CASE UNCHANGED vars
  BY <1>20 DEF vars, PlainInv
<1> QED
  BY <1>1, <1>2, <1>3, <1>4, <1>5, <1>6, <1>7, <1>8, <1>9, <1>10, <1>11,
     <1>12, <1>13, <1>14, <1>15, <1>16, <1>17, <1>18, <1>19, <1>20
  DEF Next, Library, ServerSide

\* Queues of one and two tokens.
LEMMA ShortQueues ==
  ASSUME NEW s, NEW t
  PROVE  /\ <<s>> # <<>> /\ Head(<<s>>) = s /\ Tail(<<s>>) = <<>>
         /\ Head(<<s, t>>) = s /\ Tail(<<s, t>>) = <<t>>
         /\ Append(<<>>, s) = <<s>> /\ Append(<<s>>, t) = <<s, t>>
<1>1. /\ <<s>> # <<>> /\ Head(<<s>>) = s /\ Tail(<<s>>) = <<>>
  OBVIOUS
<1>2. Head(<<s, t>>) = s
  OBVIOUS
<1>3. Tail(<<s, t>>) = <<t>>
  OBVIOUS
<1>4. Append(<<>>, s) = <<s>>
  OBVIOUS
<1>5. Append(<<s>>, t) = <<s, t>>
  <2> DEFINE S == {s, t}
             q == <<s>>
  <2>1. q \in Seq(S) /\ t \in S /\ <<s, t>> \in Seq(S)
    OBVIOUS
  <2>2. Len(q) = 1 /\ q[1] = s /\ Len(<<s, t>>) = 2
    OBVIOUS
  <2>3. /\ Append(q, t) \in Seq(S) /\ Len(Append(q, t)) = Len(q) + 1
        /\ \A i \in 1 .. Len(q) : Append(q, t)[i] = q[i]
        /\ Append(q, t)[Len(q) + 1] = t
    <3> HIDE DEF q, S
    <3> QED
      BY <2>1, AppendProperties
  <2>4. \A i \in 1 .. Len(Append(q, t)) : Append(q, t)[i] = <<s, t>>[i]
    <3>1. Append(q, t)[1] = s /\ Append(q, t)[2] = t
      <4> HIDE DEF q
      <4> QED
        BY <2>2, <2>3
    <3>2. <<s, t>>[1] = s /\ <<s, t>>[2] = t
      OBVIOUS
    <3>3. Len(Append(q, t)) = 2
      <4> HIDE DEF q
      <4> QED
        BY <2>2, <2>3
    <3> HIDE DEF q
    <3>4. \A i \in 1 .. 2 : i = 1 \/ i = 2
      OBVIOUS
    <3> QED
      BY <3>1, <3>2, <3>3, <3>4
  <2> DEFINE u == Append(q, t)
             v == <<s, t>>
  <2>5. /\ u \in Seq(S) /\ v \in Seq(S) /\ Len(u) = Len(v)
        /\ \A i \in 1 .. Len(u) : u[i] = v[i]
    <3> HIDE DEF q, S
    <3> QED
      BY <2>1, <2>2, <2>3, <2>4
  <2>6. u = v
    <3> HIDE DEF u, v, S
    <3> QED
      BY <2>5, SeqEqual
  <2> QED
    BY <2>6
<1> QED
  BY <1>1, <1>2, <1>3, <1>4, <1>5

\* A side that has failed stays failed.
LEMMA AliveStep ==
  ASSUME StateTypes, KindInv, Alive', [Next]_vars
  PROVE  Alive
<1> USE DEF StateTypes, KindInv, Alive, ClientUnchanged, ServerUnchanged
<1>1. CASE ImportName
  BY <1>1 DEF ImportName, ClientState, ServerState, ClientPc, ServerPc
<1>2. CASE SetCred
  BY <1>2 DEF SetCred, ClientState, ServerState, ClientPc, ServerPc
<1>3. CASE SendHello
  BY <1>3 DEF SendHello, ClientState, ServerState, ClientPc, ServerPc
<1>4. CASE InitContext
  BY <1>4 DEF InitContext, ClientState, ServerState, ClientPc, ServerPc
<1>5. CASE RecvToken
  BY <1>5 DEF RecvToken, ClientState, ServerState, ClientPc, ServerPc
<1>6. CASE RecvEnds
  BY <1>6 DEF RecvEnds, ClientState, ServerState, ClientPc, ServerPc
<1>7. CASE RecvTimesOut
  BY <1>7 DEF RecvTimesOut, ClientState, ServerState, ClientPc, ServerPc
<1>8. CASE CheckFlags
  BY <1>8 DEF CheckFlags, ClientState, ServerState, ClientPc, ServerPc
<1>9. CASE OpenFails
  BY <1>9 DEF OpenFails, ClientState, ServerState, ClientPc, ServerPc
<1>10. CASE ForeignSend
  BY <1>10 DEF ForeignSend, ClientState, ServerState, ClientPc, ServerPc
<1>11. CASE ForeignClose
  BY <1>11 DEF ForeignClose, ClientState, ServerState, ClientPc, ServerPc
<1>12. CASE Peer
  BY <1>12 DEF Peer, ClientState, ServerState, ClientPc, ServerPc
<1>13. CASE ServerRecvFails
  BY <1>13 DEF ServerRecvFails, ClientState, ServerState, ClientPc, ServerPc
<1>14. CASE RecvHello
  BY <1>14 DEF RecvHello, ClientState, ServerState, ClientPc, ServerPc
<1>15. CASE RecvContext
  BY <1>15 DEF RecvContext, ClientState, ServerState, ClientPc, ServerPc
<1>16. CASE AcceptContext
  BY <1>16 DEF AcceptContext, ClientState, ServerState, ClientPc, ServerPc
<1>17. CASE Finish
  BY <1>17 DEF Finish, ClientState, ServerState, ClientPc, ServerPc
<1>18. CASE NewClientFails
  BY <1>18 DEF NewClientFails, ClientState, ServerState, ClientPc, ServerPc
<1>19. CASE FreeClient
  BY <1>19 DEF FreeClient, ClientState, ServerState, ClientPc, ServerPc
<1>20. CASE UNCHANGED vars
  BY <1>20 DEF vars
<1> QED
  BY <1>1, <1>2, <1>3, <1>4, <1>5, <1>6, <1>7, <1>8, <1>9, <1>10, <1>11,
     <1>12, <1>13, <1>14, <1>15, <1>16, <1>17, <1>18, <1>19, <1>20
  DEF Next, Library, ServerSide

\* Every step keeps the exchange of tokens going in turn.
LEMMA ExchangeStep ==
  ASSUME StateTypes, FlagsInv, Exchange,
         ClientHolds, ServerHolds, Alive, Alive', [Next]_vars
  PROVE  Exchange'
<1> USE DEF StateTypes, ClientUnchanged, ServerUnchanged
<1>1. CASE ImportName
  <2>1. /\ client.pc = "start" /\ client'.pc = "cred"
        /\ client'.leg = client.leg
        /\ UNCHANGED <<server, toServer, toClient>>
    BY <1>1 DEF ImportName, Alive, ClientState
  <2>2. Quiet
    BY <2>1 DEF Exchange, Greeting, Turn, Sent
  <2>3. Quiet'
    BY <2>1, <2>2 DEF Quiet, Silent
  <2> QED
    BY <2>3 DEF Exchange
<1>2. CASE SetCred
  <2>1. /\ client.pc = "cred" /\ client'.pc = "hello"
        /\ client'.leg = client.leg
        /\ UNCHANGED <<server, toServer, toClient>>
    BY <1>2 DEF SetCred, Alive, ClientState
  <2>2. Quiet
    BY <2>1 DEF Exchange, Greeting, Turn, Sent
  <2>3. Quiet'
    BY <2>1, <2>2 DEF Quiet, Silent
  <2> QED
    BY <2>3 DEF Exchange
<1>3. CASE SendHello
  <2>1. /\ client.pc = "hello" /\ client'.pc = "init"
        /\ client'.leg = client.leg
        /\ toServer' = Send(toServer, Hello, ServerClosed)
        /\ UNCHANGED <<server, toClient>>
    BY <1>3 DEF SendHello, Alive, ClientState
  <2>2. Quiet
    BY <2>1 DEF Exchange, Greeting, Turn, Sent
  <2>3. ~ServerClosed
    BY <2>2 DEF Quiet, ServerHolds, ServerClosed
  <2>4. toServer' = <<Hello>>
    BY <2>1, <2>2, <2>3, ShortQueues DEF Quiet, Silent, Send
  <2>5. Greeting'
    BY <2>1, <2>2, <2>4 DEF Greeting, Quiet, Silent
  <2> QED
    BY <2>5 DEF Exchange
<1>4. CASE InitContext
  <2> DEFINE flags == ContextFlags(client.protocol)
             next  == client.leg + 1
  <2>1. client.pc = "init" /\ UNCHANGED <<legs, server, toClient>>
    BY <1>4 DEF InitContext
  <2>2. /\ client.leg \in Nat /\ client'.protocol = client.protocol
        /\ \/ /\ next <= legs /\ client'.leg = next
              /\ client'.pc = IF next < legs THEN "recv" ELSE "check"
              /\ toServer' = Send(toServer, flags, ServerClosed)
           \/ /\ next > legs /\ client'.leg = client.leg
              /\ client'.pc = "check" /\ toServer' = toServer
    BY <1>4 DEF InitContext, Alive, ClientState
  <2>3. legs \in Nat \ {0}
    BY LegsAssumption
  <2>4. Greeting \/ Turn
    BY <2>1 DEF Exchange, Quiet, Sent
  <2>5. CASE Greeting
    <3>1. ~ServerClosed
      BY <2>5 DEF Greeting, ServerHolds, ServerClosed
    <3>2. client'.leg = 1 /\ Sent' /\ toServer' = Append(toServer, flags)
      BY <2>1, <2>2, <2>3, <2>5, <3>1 DEF Greeting, Sent, Send
    <3>3. CASE server.pc \in {"peer", "hello"} /\ toServer = <<Hello>>
      <4>1. toServer' = <<Hello, flags>>
        BY <3>2, <3>3, ShortQueues
      <4>2. Unread'
        BY <2>1, <2>2, <2>5, <3>2, <3>3, <4>1 DEF Greeting, Unread
      <4> QED
        BY <3>2, <4>2 DEF Exchange
    <3>4. CASE /\ server.pc = "context" /\ toServer = <<>>
               /\ server.protocol = Best
      <4>1. toServer' = <<flags>>
        BY <3>2, <3>4, ShortQueues
      <4>2. Sending'
        BY <2>1, <2>2, <2>5, <3>2, <3>4, <4>1 DEF Greeting, Sending, Best
      <4> QED
        BY <3>2, <4>2 DEF Exchange
    <3> QED
      BY <2>5, <3>3, <3>4 DEF Greeting
  <2>6. CASE Turn
    <3>1. CASE next <= legs
      <4>1. server.pc = "context" /\ server.leg = client.leg
        BY <2>2, <2>3, <2>6, <3>1 DEF Turn, ServerAt
      <4>2. ~ServerClosed
        BY <4>1 DEF ServerHolds, ServerClosed
      <4>3. toServer' = <<flags>>
        BY <2>2, <2>3, <2>6, <3>1, <4>2, ShortQueues DEF Turn, Silent, Send
      <4>4. client'.leg = next /\ client'.leg # 1 /\ Sent'
        BY <2>1, <2>2, <2>3, <2>6, <3>1 DEF Turn, Sent
      <4>5. Sending'
        BY <2>1, <2>2, <2>6, <4>1, <4>3, <4>4 DEF Turn, Silent, Sending
      <4> QED
        BY <4>4, <4>5 DEF Exchange
    <3>2. CASE next > legs
      <4>1. /\ client'.leg = client.leg /\ client.leg = legs
            /\ client.leg # 1 /\ Sent'
        BY <2>1, <2>2, <2>3, <2>6, <3>2 DEF Turn, Sent
      <4>2. server.leg = legs /\ ServerDone /\ toServer' = toServer
        BY <2>2, <2>3, <2>6, <3>2, <4>1 DEF Turn, ServerAt
      <4>3. Complete'
        BY <2>1, <2>2, <2>6, <4>1, <4>2
        DEF Turn, Complete, Silent, Settled, ServerDone
      <4> QED
        BY <4>1, <4>3 DEF Exchange
    <3> QED
      BY <2>2, <2>3, <3>1, <3>2
  <2> QED
    BY <2>4, <2>5, <2>6
<1>5. CASE RecvToken
  <2>1. /\ client.pc = "recv" /\ toClient # <<>>
        /\ toClient' = Tail(toClient)
        /\ UNCHANGED <<legs, server, toServer>>
    BY <1>5 DEF RecvToken
  <2>2. /\ client.leg \in Nat /\ client'.leg = client.leg + 1
        /\ client'.pc = "init"
        /\ client'.protocol = IF client.protocol > 1
                                   /\ "PROTOCOL" \notin Head(toClient)
                                THEN 1 ELSE client.protocol
    BY <1>5 DEF RecvToken, ClientState
  <2>3. Sent /\ Answered
    BY <2>1 DEF Exchange, Quiet, Greeting, Turn, Sent, Unread, Sending,
                Accepting, Complete, Silent
  <2>4. /\ Head(toClient) = ContextFlags(server.protocol)
        /\ toClient' = <<>>
    BY <2>1, <2>3, ShortQueues DEF Answered
  <2>5. client.protocol \in {1, 2} /\ server.protocol \in 0 .. 2
    BY <2>1 DEF FlagsInv, ServerState
  <2>6. "PROTOCOL" \in Head(toClient) <=> server.protocol = 2
    BY <2>4, <2>5, ContextFlagsFacts
  <2>7. server.protocol = client'.protocol
    BY <2>2, <2>3, <2>5, <2>6 DEF Answered, Settled, Best
  <2>8. legs \in Nat
    BY LegsAssumption
  <2>9. Turn'
    BY <2>1, <2>2, <2>3, <2>4, <2>7, <2>8
    DEF Turn, Sent, Answered, Silent, ServerAt, ServerDone
  <2> QED
    BY <2>9 DEF Exchange
<1>6. CASE RecvEnds
  BY <1>6 DEF RecvEnds, Alive, ClientState, ServerState
<1>7. CASE RecvTimesOut
  BY <1>7 DEF RecvTimesOut, Alive, ClientState, ServerState
<1>8. CASE CheckFlags
  <2>1. /\ client.pc = "check" /\ client'.pc = "open"
        /\ client'.leg = client.leg /\ client'.protocol = client.protocol
        /\ UNCHANGED <<legs, server, toServer, toClient>>
    BY <1>8 DEF CheckFlags, Alive, ClientState
  <2>2. Sent /\ (Unread \/ Sending \/ Accepting \/ Answered \/ Complete)
    BY <2>1 DEF Exchange, Quiet, Greeting, Turn
  <2>3. Sent'
    BY <2>1, <2>2 DEF Sent
  <2>4. Unread => Unread'
    BY <2>1 DEF Unread
  <2>5. Sending => Sending'
    BY <2>1 DEF Sending, Best
  <2>6. Accepting => Accepting'
    BY <2>1 DEF Accepting, Silent, Settled, Best
  <2>7. Answered => Answered'
    BY <2>1 DEF Answered, ServerAt, ServerDone, Settled, Best
  <2>8. Complete => Complete'
    BY <2>1 DEF Complete, ServerDone, Silent, Settled, Best
  <2> QED
    BY <2>2, <2>3, <2>4, <2>5, <2>6, <2>7, <2>8, Zenon DEF Exchange
<1>9. CASE OpenFails
  BY <1>9 DEF OpenFails, Alive, ClientState, ServerState
<1>10. CASE ForeignSend
  BY <1>10 DEF ForeignSend, Alive, ClientState, ServerState
<1>11. CASE ForeignClose
  BY <1>11 DEF ForeignClose, Alive, ClientState, ServerState
<1>12. CASE Peer
  <2>1. /\ server.pc = "peer" /\ server'.pc = "hello"
        /\ server'.leg = server.leg
        /\ UNCHANGED <<legs, client, toServer, toClient>>
    BY <1>12 DEF Peer, Alive, ServerState
  <2>2. Quiet \/ Greeting \/ (Sent /\ Unread)
    <3>1. ~Turn /\ ~Sending /\ ~Accepting /\ ~Answered /\ ~Complete
      BY <2>1 DEF Turn, ServerAt, ServerDone, Sending, Accepting, Answered,
                  Complete
    <3> QED
      BY <3>1, Zenon DEF Exchange
  <2>3. Quiet => Quiet'
    BY <2>1 DEF Quiet, Silent
  <2>4. Greeting => Greeting'
    BY <2>1 DEF Greeting
  <2>5. Sent /\ Unread => Sent' /\ Unread'
    BY <2>1 DEF Sent, Unread
  <2> QED
    BY <2>2, <2>3, <2>4, <2>5, Zenon DEF Exchange
<1>13. CASE ServerRecvFails
  BY <1>13 DEF ServerRecvFails, Alive, ClientState, ServerState
<1>14. CASE RecvHello
  <2>1. /\ server.pc = "hello" /\ toServer # <<>>
        /\ toServer' = Tail(toServer)
        /\ UNCHANGED <<legs, client, toClient>>
    BY <1>14 DEF RecvHello
  <2>2. CASE Greeting
    <3>1. Head(toServer) = Hello /\ toServer' = <<>>
      BY <2>1, <2>2, ShortQueues DEF Greeting
    <3>2. /\ server'.pc = "context" /\ server'.leg = server.leg
          /\ server'.kind = server.kind /\ server'.protocol = Best
      BY <1>14, <3>1 DEF RecvHello, ServerState, Best
    <3>3. Greeting'
      BY <2>1, <2>2, <3>1, <3>2 DEF Greeting, Best
    <3> QED
      BY <3>3 DEF Exchange
  <2>3. CASE Sent /\ Unread
    <3>1. /\ Head(toServer) = Hello
          /\ toServer' = <<ContextFlags(client.protocol)>>
      BY <2>1, <2>3, ShortQueues DEF Unread
    <3>2. /\ server'.pc = "context" /\ server'.leg = server.leg
          /\ server'.kind = server.kind /\ server'.protocol = Best
      BY <1>14, <3>1 DEF RecvHello, ServerState, Best
    <3>3. Sent' /\ Sending'
      BY <2>1, <2>3, <3>1, <3>2 DEF Sent, Unread, Sending, Best
    <3> QED
      BY <3>3 DEF Exchange
  <2> QED
    BY <2>1, <2>2, <2>3
    DEF Exchange, Quiet, Silent, Turn, ServerAt, ServerDone, Sending,
        Accepting, Answered, Complete
<1>15. CASE RecvContext
  <2>1. /\ server.pc = "context" /\ toServer # <<>>
        /\ toServer' = Tail(toServer)
        /\ UNCHANGED <<legs, client, toClient>>
    BY <1>15 DEF RecvContext
  <2>2. Sent /\ Sending
    BY <2>1 DEF Exchange, Quiet, Greeting, Turn, Silent, Unread, Accepting,
                Answered, Complete
  <2>3. /\ Head(toServer) = ContextFlags(client.protocol)
        /\ toServer' = <<>>
    BY <2>1, <2>2, ShortQueues DEF Sending
  <2>4. client.protocol \in {1, 2} /\ client.leg \in Nat
    BY <2>2 DEF Sent, FlagsInv, ClientState
  <2>5. /\ Head(toServer) \in {{"CONTEXT"}, {"CONTEXT", "PROTOCOL"}}
        /\ Head(toServer) = {"CONTEXT"} <=> client.protocol = 1
    BY <2>3, <2>4, ContextFlagsFacts
  <2>6. /\ server'.pc = "accept" /\ server'.leg = server.leg + 1
        /\ server'.kind = server.kind
        /\ server'.protocol = TokenProtocol(Head(toServer))
    BY <1>15, <2>5 DEF RecvContext, ServerState
  <2>7. server'.protocol = IF client.protocol = 1 THEN 1 ELSE server.protocol
    BY <2>5, <2>6 DEF TokenProtocol
  <2>8. Settled'
    BY <2>1, <2>2, <2>4, <2>6, <2>7 DEF Sending, Settled, Best
  <2>9. Sent' /\ Accepting'
    BY <2>1, <2>2, <2>3, <2>4, <2>6, <2>8 DEF Sent, Sending, Accepting, Silent
  <2> QED
    BY <2>9 DEF Exchange
<1>16. CASE AcceptContext
  <2> DEFINE reply == server.leg + 1
             flags == ContextFlags(server.protocol)
  <2>1. server.pc = "accept" /\ UNCHANGED <<legs, client, toServer>>
    BY <1>16 DEF AcceptContext
  <2>2. /\ server.leg \in Nat /\ server'.protocol = server.protocol
        /\ server'.kind = server.kind
        /\ \/ /\ reply <= legs /\ server'.leg = reply
              /\ server'.pc = IF reply < legs THEN "context" ELSE "check"
              /\ toClient' = Send(toClient, flags, ClientClosed)
           \/ /\ reply > legs /\ server'.leg = server.leg
              /\ server'.pc = "check" /\ toClient' = toClient
    BY <1>16 DEF AcceptContext, Alive, ServerState
  <2>3. Sent /\ Accepting
    BY <2>1 DEF Exchange, Quiet, Greeting, Turn, ServerAt, ServerDone, Unread,
                Sending, Answered, Complete
  <2>4. legs \in Nat
    BY LegsAssumption
  <2>5. ~ClientClosed
    BY <2>3 DEF Alive, ClientHolds, ClientClosed
  <2>6. Sent' /\ Settled'
    BY <2>1, <2>2, <2>3 DEF Sent, Accepting, Settled, Best
  <2>7. CASE reply <= legs
    <3>1. toClient' = <<flags>>
      BY <2>2, <2>3, <2>4, <2>5, <2>7, ShortQueues DEF Accepting, Silent, Send
    <3>2. Answered'
      BY <2>1, <2>2, <2>3, <2>4, <2>6, <2>7, <3>1
      DEF Accepting, Silent, Answered, ServerAt, ServerDone
    <3> QED
      BY <2>6, <3>2 DEF Exchange
  <2>8. CASE reply > legs
    <3>1. Complete'
      BY <2>1, <2>2, <2>3, <2>4, <2>6, <2>8
      DEF Sent, Accepting, Silent, Complete, ServerDone
    <3> QED
      BY <2>6, <3>1 DEF Exchange
  <2> QED
    BY <2>2, <2>4, <2>7, <2>8
<1>17. CASE Finish
  <2>1. /\ server.pc = "check" /\ server'.pc = "ready"
        /\ server'.leg = server.leg /\ server'.protocol = server.protocol
        /\ server'.kind = server.kind
        /\ UNCHANGED <<legs, client, toServer, toClient>>
    BY <1>17 DEF Finish, Alive, ServerState
  <2>2. Turn \/ (Sent /\ (Answered \/ Complete))
    <3>1. ~Quiet /\ ~Greeting /\ ~Unread /\ ~Sending /\ ~Accepting
      BY <2>1 DEF Quiet, Greeting, Unread, Sending, Accepting
    <3> QED
      BY <3>1, Zenon DEF Exchange
  <2>3. Turn => Turn'
    BY <2>1 DEF Turn, Silent, ServerAt, ServerDone
  <2>4. Sent => Sent'
    BY <2>1 DEF Sent
  <2>5. Answered => Answered'
    BY <2>1 DEF Answered, ServerAt, ServerDone, Settled, Best
  <2>6. Complete => Complete'
    BY <2>1 DEF Complete, ServerDone, Silent, Settled, Best
  <2> QED
    BY <2>2, <2>3, <2>4, <2>5, <2>6, Zenon DEF Exchange
<1>18. CASE NewClientFails
  BY <1>18 DEF NewClientFails, Alive, ClientState, ServerState
<1>19. CASE FreeClient
  <2>1. /\ server.pc = "ready" /\ server'.pc = "gone"
        /\ server'.leg = server.leg /\ server'.protocol = server.protocol
        /\ server'.kind = server.kind
        /\ UNCHANGED <<legs, client, toServer, toClient>>
    BY <1>19 DEF FreeClient, Alive, ServerState
  <2>2. Turn \/ (Sent /\ (Answered \/ Complete))
    <3>1. ~Quiet /\ ~Greeting /\ ~Unread /\ ~Sending /\ ~Accepting
      BY <2>1 DEF Quiet, Greeting, Unread, Sending, Accepting
    <3> QED
      BY <3>1, Zenon DEF Exchange
  <2>3. Turn => Turn'
    BY <2>1 DEF Turn, Silent, ServerAt, ServerDone
  <2>4. Sent => Sent'
    BY <2>1 DEF Sent
  <2>5. Answered => Answered'
    BY <2>1 DEF Answered, ServerAt, ServerDone, Settled, Best
  <2>6. Complete => Complete'
    BY <2>1 DEF Complete, ServerDone, Silent, Settled, Best
  <2> QED
    BY <2>2, <2>3, <2>4, <2>5, <2>6, Zenon DEF Exchange
<1>20. CASE UNCHANGED vars
  BY <1>20 DEF vars, Exchange, Quiet, Greeting, Turn, Sent, 
     Unread, Sending, Accepting, Answered, Complete, 
     Settled, Silent, ServerAt, ServerDone, Best
<1> QED
  BY <1>1, <1>2, <1>3, <1>4, <1>5, <1>6, <1>7, <1>8, <1>9, <1>10, <1>11,
     <1>12, <1>13, <1>14, <1>15, <1>16, <1>17, <1>18, <1>19, <1>20
  DEF Next, Library, ServerSide

-----------------------------------------------------------------------------
\* The initial states satisfy the invariant.
LEMMA InitInv ==
  ASSUME Init
  PROVE  IInv
<1> USE DEF Init
<1>1. TypeOK
  <2>1. StateTypes
    BY DEF StateTypes, ClientState, ServerState, ClientPc, ServerPc,
           ClientThings, ServerThings
  <2>2. plain \in BOOLEAN
    BY Zenon
  <2> QED
    BY <2>1, <2>2, TypeParts
<1>2. KindInv /\ FlagsInv
  BY DEF KindInv, FlagsInv, Established
<1>3. PlainInv
  BY DEF PlainInv
<1>4. Quiet
  BY DEF Quiet, Silent
<1>5. ClientHolds /\ ServerHolds
  BY DEF ClientHolds, ServerHolds
<1> QED
  BY <1>1, <1>2, <1>3, <1>4, <1>5 DEF IInv, TurnInv, Exchange

\* Every step keeps the invariant.
LEMMA StepInv ==
  ASSUME IInv, [Next]_vars
  PROVE  IInv'
<1>1. StateTypes /\ plain \in BOOLEAN
  BY TypeParts DEF IInv
<1>2. StateTypes' /\ plain' \in BOOLEAN
  BY <1>1, StateStep, PlainStep
<1>3. TypeOK'
  BY <1>2 DEF TypeOK, StateTypes, ClientState, ServerState, TokenFlags,
              ClientPc, ServerPc, ClientThings, ServerThings
<1>4. KindInv' /\ ClientHolds' /\ ServerHolds'
  BY KindStep, ClientHoldsStep, ServerHoldsStep DEF IInv
<1>5. FlagsInv' /\ PlainInv'
  BY <1>1, FlagsStep, PlainInvStep DEF IInv
<1>6. Alive' => Exchange'
  BY <1>1, AliveStep, ExchangeStep DEF IInv, TurnInv
<1> QED
  BY <1>3, <1>4, <1>5, <1>6 DEF IInv, TurnInv

LEMMA Invariance == Spec => []IInv
<1>1. Init => IInv
  BY InitInv
<1>2. IInv /\ [Next]_vars => IInv'
  BY StepInv
<1> QED
  BY <1>1, <1>2, PTL DEF Spec

\* The two sides hold and send what their types say.
THEOREM TypeCorrect == Spec => []TypeOK
<1>1. IInv => TypeOK
  BY DEF IInv
<1> QED
  BY <1>1, Invariance, PTL

(***************************************************************************)
(* internal_open and server_new_client agree on the protocol, whichever of *)
(* them is old and however many tokens the context takes; a server of      *)
(* protocol 2 saw TOKEN_PROTOCOL in every token and has all the flags.     *)
(***************************************************************************)
THEOREM ProtocolAgreed == Spec => []AgreeOnProtocol
<1>1. ASSUME IInv
      PROVE  AgreeOnProtocol
  <2>1. StateTypes
    BY <1>1, TypeParts DEF IInv
  <2>2. ASSUME client.kind = "library", client.pc = "open", Established
        PROVE  client.protocol = server.protocol
    <3>1. server.pc \in {"ready", "gone"}
      BY <2>2 DEF Established
    <3>2. Exchange
      BY <1>1, <2>2, <3>1 DEF IInv, TurnInv, Alive
    <3>3. Sent /\ Complete
      BY <2>2, <3>1, <3>2
      DEF Exchange, Quiet, Greeting, Turn, Sent, Unread, Sending, Accepting,
          Answered
    <3>4. client.leg = legs /\ Settled
      BY <3>3 DEF Complete
    <3>5. client.protocol \in {1, 2} /\ Acceptable(client.protocol)
      BY <1>1, <2>2 DEF IInv, FlagsInv
    <3>6. client.leg = 1 => client.protocol = 1
      BY <1>1, <3>4, <3>5 DEF IInv, FlagsInv, Acceptable, Required
    <3> QED
      BY <3>4, <3>6 DEF Settled
  <2>3. ASSUME Established, server.protocol = 2
        PROVE  ~plain /\ granted = Required
    <3>1. granted = Required
      BY <1>1, <2>3 DEF IInv, FlagsInv, Acceptable
    <3>2. ~plain
      BY <1>1, <2>3 DEF IInv, PlainInv, Established
    <3> QED
      BY <3>1, <3>2
  <2> QED
    BY <2>2, <2>3 DEF AgreeOnProtocol
<1> QED
  BY <1>1, Invariance, PTL

(***************************************************************************)
(* Every path out of internal_open, server_new_client and                  *)
(* handle_connection releases what was allocated on the way.               *)
(***************************************************************************)
THEOREM ResourcesReleased == Spec => []NothingLeaked
<1>1. ASSUME IInv
      PROVE  NothingLeaked
  <2>1. StateTypes
    BY <1>1, TypeParts DEF IInv
  <2>2. /\ client.pc = "failed" => client.holds = {}
        /\ server.pc \in {"failed", "gone"} => server.holds = {}
    BY <1>1 DEF IInv, ClientHolds, ServerHolds
  <2>3. ASSUME client.pc = "open"
        PROVE  client.holds = {"fd", "context"}
    <3>1. client.kind = "library"
      BY <1>1, <2>1, <2>3 DEF IInv, KindInv, StateTypes, ClientState
    <3>2. client.holds \in SUBSET ClientThings
      BY <2>1 DEF StateTypes, ClientState
    <3>3. /\ "fd" \in client.holds /\ "context" \in client.holds
          /\ "token" \notin client.holds /\ "name" \notin client.holds
          /\ "cred" \notin client.holds
      BY <1>1, <2>3, <3>1 DEF IInv, ClientHolds
    <3> QED
      BY <3>2, <3>3 DEF ClientThings
  <2>4. ASSUME server.pc = "ready"
        PROVE  server.holds \ {"hostname"}
                 = {"fd", "client", "ipaddress", "context", "user"}
    <3>1. server.holds \in SUBSET ServerThings
      BY <2>1 DEF StateTypes, ServerState
    <3>2. /\ "fd" \in server.holds /\ "client" \in server.holds
          /\ "ipaddress" \in server.holds /\ "context" \in server.holds
          /\ "user" \in server.holds
          /\ "token" \notin server.holds /\ "name" \notin server.holds
      BY <1>1, <2>4 DEF IInv, ServerHolds
    <3> QED
      BY <3>1, <3>2 DEF ServerThings
  <2> QED
    BY <2>2, <2>3, <2>4 DEF NothingLeaked
<1> QED
  BY <1>1, Invariance, PTL

=============================================================================
