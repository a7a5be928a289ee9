---------------------------- MODULE Negotiation ----------------------------
(***************************************************************************)
(* Setting up a connection: internal_open in the client library and        *)
(* server_new_client under handle_connection in the server exchange the    *)
(* tokens of a GSS-API context and agree on a protocol on the way.  The    *)
(* flags of the tokens carry that agreement: TOKEN_PROTOCOL says that the  *)
(* sender speaks protocol 2 or later.                                      *)
(*                                                                         *)
(* GSS-API is external: a context takes `legs' tokens, sent in turn from   *)
(* the client on, and gives both sides the flags `granted'.  Mutual        *)
(* authentication needs a token from the server.  Other implementations    *)
(* are external too: a client that sends what flags it likes, and a server *)
(* of protocol 1, which never sets TOKEN_PROTOCOL.                         *)
(***************************************************************************)
EXTENDS Integers, Sequences, FiniteSets

CONSTANT Legs      \* numbers of tokens a context may take

ASSUME LegsAssumption == Legs \subseteq Nat \ {0}

VARIABLES
  legs,      \* GSS-API: how many tokens this context takes
  granted,   \* GSS-API: the flags both sides end up with
  client,    \* internal_open
  server,    \* handle_connection and server_new_client
  toServer,  \* tokens under way, each a set of token flags
  toClient,
  plain      \* whether the server accepted a token without TOKEN_PROTOCOL

vars == <<legs, granted, client, server, toServer, toClient, plain>>

Required == {"mutual", "conf", "integ"}

Hello        == {"NOOP", "CONTEXT_NEXT", "PROTOCOL"}
HelloV1      == {"NOOP", "CONTEXT_NEXT"}
ContextFlags(protocol) ==
  IF protocol > 1 THEN {"CONTEXT", "PROTOCOL"} ELSE {"CONTEXT"}
AnyFlags == {Hello, HelloV1, {"CONTEXT"}, {"CONTEXT", "PROTOCOL"}, {"DATA"}}

------------------------------------------------------------------------------
Init ==
  /\ legs \in Legs
  /\ granted \in {g \in SUBSET Required : "mutual" \in g => legs > 1}
  /\ client \in [kind : {"library", "foreign"}, pc : {"start"},
                 protocol : {0, 1, 2}, leg : {0}, holds : {{"fd"}}]
  /\ server \in [kind : {"current", "old"}, pc : {"peer"}, protocol : {0},
                 leg : {0}, holds : {{"fd", "client"}}]
  /\ toServer = <<>>
  /\ toClient = <<>>
  /\ plain = FALSE

ClientClosed == "fd" \notin client.holds
ServerClosed == "fd" \notin server.holds

\* token_send: the token goes out, unless the other side is gone.  Either way
\* the call may fail.
Send(queue, flags, gone) == IF gone THEN queue ELSE Append(queue, flags)

------------------------------------------------------------------------------
\* internal_open

ClientUnchanged == UNCHANGED <<legs, granted, server, plain>>

\* internal_import_name
ImportName ==
  /\ client.kind = "library" /\ client.pc = "start"
  /\ \/ client' = [client EXCEPT !.pc = "fail"]
     \/ client' = [client EXCEPT !.pc = "cred", !.holds = @ \union {"name"}]
  /\ UNCHANGED <<toServer, toClient>> /\ ClientUnchanged

\* internal_set_cred, for an object with a ticket cache, then the protocol
\* wanted: one that an earlier connection of the object fell back to is kept.
SetCred ==
  /\ client.kind = "library" /\ client.pc = "cred"
  /\ \/ client' = [client EXCEPT !.pc = "fail"]
     \/ \E cred \in SUBSET {"cred"} :
          client' = [client EXCEPT !.pc = "hello", !.holds = @ \union cred,
                       !.protocol = IF @ = 0 THEN 2 ELSE @]
  /\ UNCHANGED <<toServer, toClient>> /\ ClientUnchanged

\* The initial token, always with TOKEN_PROTOCOL.
SendHello ==
  /\ client.kind = "library" /\ client.pc = "hello"
  /\ \/ /\ client' = [client EXCEPT !.pc = "init"]
        /\ toServer' = Send(toServer, Hello, ServerClosed)
     \/ /\ client' = [client EXCEPT !.pc = "fail"]
        /\ UNCHANGED toServer
  /\ UNCHANGED toClient /\ ClientUnchanged

\* gss_init_sec_context and what follows it in the loop.  It takes the token
\* of leg client.leg and makes the next one if there is one; the context is
\* complete for the client when no further token of the server is due.
InitContext ==
  /\ client.kind = "library" /\ client.pc = "init"
  /\ LET leg  == client.leg + 1
         held == (client.holds \ {"token"}) \union {"context"}
         done == IF leg < legs THEN "recv" ELSE "check"
     IN  \/ /\ leg <= legs
            /\ toServer' = Send(toServer, ContextFlags(client.protocol),
                                ServerClosed)
            /\ client' = [client EXCEPT !.pc = done, !.leg = leg,
                            !.holds = held]
         \/ /\ leg > legs
            /\ client' = [client EXCEPT !.pc = "check", !.holds = held]
            /\ UNCHANGED toServer
         \/ \* The call fails, with or without a token for the server, or
            \* the token cannot be sent.
            /\ client' = [client EXCEPT !.pc = "fail", !.holds = held]
            /\ toServer' \in {toServer,
                              Send(toServer, ContextFlags(client.protocol),
                                   ServerClosed)}
  /\ UNCHANGED toClient /\ ClientUnchanged

\* The next token of the server, with its flags ignored.
MutRecvToken ==
  /\ client.kind = "library" /\ client.pc = "recv"
  /\ toClient # <<>>
  /\ client' = [client EXCEPT !.pc = "init", !.leg = @ + 1,
                  !.holds = @ \union {"token"}]
  /\ toClient' = Tail(toClient)
  /\ UNCHANGED toServer /\ ClientUnchanged

\* The next token of the server.  Without TOKEN_PROTOCOL it means protocol 1.
RecvToken ==
  /\ client.kind = "library" /\ client.pc = "recv"
  /\ toClient # <<>>
  /\ client' = [client EXCEPT !.pc = "init", !.leg = @ + 1,
                  !.holds = @ \union {"token"},
                  !.protocol = IF @ > 1 /\ "PROTOCOL" \notin Head(toClient)
                                 THEN 1 ELSE @]
  /\ toClient' = Tail(toClient)
  /\ UNCHANGED toServer /\ ClientUnchanged

\* The server closed the connection, or the timeout of the client ran out.
RecvEnds ==
  /\ client.kind = "library" /\ client.pc = "recv"
  /\ toClient = <<>> /\ ServerClosed
  /\ client' = [client EXCEPT !.pc = "fail"]
  /\ UNCHANGED <<toServer, toClient>> /\ ClientUnchanged

RecvTimesOut ==
  /\ client.kind = "library" /\ client.pc = "recv"
  /\ toClient = <<>> /\ ~ServerClosed
  /\ client' = [client EXCEPT !.pc = "fail"]
  /\ UNCHANGED <<toServer, toClient>> /\ ClientUnchanged

\* The flags of the context are checked for protocol 2 only.
Acceptable(protocol) == protocol > 1 => granted = Required

CheckFlags ==
  /\ client.kind = "library" /\ client.pc = "check"
  /\ client' = IF Acceptable(client.protocol)
                 THEN [client EXCEPT !.pc = "open",
                         !.holds = @ \ {"name", "cred"}]
                 ELSE [client EXCEPT !.pc = "fail"]
  /\ UNCHANGED <<toServer, toClient>> /\ ClientUnchanged

\* The label fail, without the release of the context.
MutOpenFails ==
  /\ client.kind = "library" /\ client.pc = "fail"
  /\ client' = [client EXCEPT !.pc = "failed",
                  !.holds = @ \ {"fd", "name", "cred"}]
  /\ UNCHANGED <<toServer, toClient>> /\ ClientUnchanged

\* The label fail.
OpenFails ==
  /\ client.kind = "library" /\ client.pc = "fail"
  /\ client' = [client EXCEPT !.pc = "failed",
                  !.holds = @ \ {"fd", "name", "cred", "context"}]
  /\ UNCHANGED <<toServer, toClient>> /\ ClientUnchanged

Library ==
  \/ ImportName \/ SetCred \/ SendHello \/ InitContext \/ RecvToken
  \/ RecvEnds \/ CheckFlags \/ OpenFails

------------------------------------------------------------------------------
\* Another client: at most one token more than the context takes, with any
\* flags, and it may close the connection whenever it likes.  (Tokens sent
\* ahead of the server change nothing: it reads them one at a time.)

ForeignSend ==
  /\ client.kind = "foreign" /\ ~ClientClosed
  /\ client.leg <= legs /\ toServer = <<>>
  /\ \E flags \in AnyFlags : toServer' = Send(toServer, flags, ServerClosed)
  /\ client' = [client EXCEPT !.leg = @ + 1]
  /\ UNCHANGED toClient /\ ClientUnchanged

ForeignClose ==
  /\ client.kind = "foreign" /\ ~ClientClosed
  /\ client' = [client EXCEPT !.holds = {}]
  /\ UNCHANGED <<toServer, toClient>> /\ ClientUnchanged

------------------------------------------------------------------------------
\* server_new_client

ServerUnchanged == UNCHANGED <<legs, granted, client>>

\* The address of the client, then its name.
Peer ==
  /\ server.pc = "peer"
  /\ \/ server' = [server EXCEPT !.pc = "fail"]
     \/ server' = [server EXCEPT !.pc = "fail",
                     !.holds = @ \union {"ipaddress"}]
     \/ \E named \in SUBSET {"hostname"} :
          server' = [server EXCEPT !.pc = "hello",
                       !.holds = @ \union {"ipaddress"} \union named]
  /\ UNCHANGED <<toServer, toClient, plain>> /\ ServerUnchanged

\* token_recv in the server ends with an error when the client is gone, and
\* after TIMEOUT in any case.
ServerRecvFails ==
  /\ server.pc \in {"hello", "context"}
  /\ toServer = <<>>
  /\ server' = [server EXCEPT !.pc = "fail"]
  /\ UNCHANGED <<toServer, toClient, plain>> /\ ServerUnchanged

\* The initial token.
RecvHello ==
  /\ server.pc = "hello" /\ toServer # <<>>
  /\ LET flags == Head(toServer)
         old   == server.kind = "old"
     IN  /\ server' =
              IF flags = Hello
                THEN [server EXCEPT !.pc = "context",
                        !.protocol = IF old THEN 1 ELSE 2]
              ELSE IF flags = HelloV1
                THEN [server EXCEPT !.pc = "context", !.protocol = 1]
                ELSE [server EXCEPT !.pc = "fail"]
         /\ plain' = (plain \/ "PROTOCOL" \notin flags)
  /\ toServer' = Tail(toServer)
  /\ UNCHANGED toClient /\ ServerUnchanged

\* The flags of a context token: protocol 1 from the first one that lacks
\* TOKEN_PROTOCOL.
TokenProtocol(flags) == IF flags = {"CONTEXT"} THEN 1 ELSE server.protocol

RecvContext ==
  /\ server.pc = "context" /\ toServer # <<>>
  /\ LET flags == Head(toServer)
     IN  /\ server' =
              IF flags \in {{"CONTEXT"}, {"CONTEXT", "PROTOCOL"}}
                THEN [server EXCEPT !.pc = "accept", !.leg = @ + 1,
                        !.protocol = TokenProtocol(flags),
                        !.holds = @ \union {"token"}]
                ELSE [server EXCEPT !.pc = "fail"]
         /\ plain' = (plain \/ "PROTOCOL" \notin flags)
  /\ toServer' = Tail(toServer)
  /\ UNCHANGED toClient /\ ServerUnchanged

\* gss_accept_sec_context and what follows it in the loop.
AcceptContext ==
  /\ server.pc = "accept"
  /\ LET reply == server.leg + 1
         held  == (server.holds \ {"token"}) \union {"context"}
         flags == ContextFlags(server.protocol)
     IN  \/ /\ reply <= legs
            /\ toClient' = Send(toClient, flags, ClientClosed)
            /\ server' = [server EXCEPT !.leg = reply,
                            !.pc = IF reply < legs THEN "context" ELSE "check",
                            !.holds = IF reply < legs THEN held
                                      ELSE held \union {"name"}]
         \/ /\ reply > legs
            /\ server' = [server EXCEPT !.pc = "check",
                            !.holds = held \union {"name"}]
            /\ UNCHANGED toClient
         \/ \* The call fails, with or without a token for the client, or the
            \* token cannot be sent, also the last one, with a name by then.
            \E kept \in {{}, {"context"}, {"context", "name"}} :
              /\ "name" \in kept => reply = legs
              /\ server' = [server EXCEPT !.pc = "fail",
                              !.holds = (@ \ {"token"}) \union kept]
              /\ toClient' \in {toClient, Send(toClient, flags, ClientClosed)}
  /\ UNCHANGED <<toServer, plain>> /\ ServerUnchanged

\* The flags of the context, then gss_display_name, then the message loop.
Finish ==
  /\ server.pc = "check"
  /\ \/ /\ Acceptable(server.protocol)
        /\ server' = [server EXCEPT !.pc = "ready",
                        !.holds = (@ \ {"name"}) \union {"user"}]
     \/ server' = [server EXCEPT !.pc = "fail"]
  /\ UNCHANGED <<toServer, toClient, plain>> /\ ServerUnchanged

\* The label fail, and a caller that does not close the descriptor.
MutNewClientFails ==
  /\ server.pc = "fail"
  /\ server' = [server EXCEPT !.pc = "failed", !.holds = {"fd"}]
  /\ UNCHANGED <<toServer, toClient, plain>> /\ ServerUnchanged

\* The label fail, and handle_connection, which closes the descriptor.
NewClientFails ==
  /\ server.pc = "fail"
  /\ server' = [server EXCEPT !.pc = "failed",
                  !.holds = @ \ {"context", "name", "ipaddress", "hostname",
                                 "client", "fd"}]
  /\ UNCHANGED <<toServer, toClient, plain>> /\ ServerUnchanged

\* The message loop is over: server_free_client.
FreeClient ==
  /\ server.pc = "ready"
  /\ server' = [server EXCEPT !.pc = "gone",
                  !.holds = @ \ {"context", "fd", "user", "hostname",
                                 "ipaddress", "client"}]
  /\ UNCHANGED <<toServer, toClient, plain>> /\ ServerUnchanged

ServerSide ==
  \/ Peer \/ ServerRecvFails \/ RecvHello \/ RecvContext \/ AcceptContext
  \/ Finish \/ NewClientFails

------------------------------------------------------------------------------
Next ==
  \/ Library \/ RecvTimesOut
  \/ ForeignSend \/ ForeignClose
  \/ ServerSide \/ FreeClient

Spec == Init /\ [][Next]_vars

\* Both programs run.  A client need not have a timeout, so nothing is assumed
\* of RecvTimesOut; the server always has one.
FairSpec == Spec /\ WF_vars(Library) /\ WF_vars(ServerSide)

------------------------------------------------------------------------------
\* Properties

\* Types, and what each side may hold.
TypeOK ==
  /\ legs \in Legs
  /\ granted \subseteq Required
  /\ client \in [kind : {"library", "foreign"},
                 pc : {"start", "cred", "hello", "init", "recv", "check", "open",
                       "fail", "failed"},
                 protocol : 0 .. 2, leg : Nat,
                 holds : SUBSET {"fd", "name", "cred", "context", "token"}]
  /\ server \in [kind : {"current", "old"},
                 pc : {"peer", "hello", "context", "accept", "check", "ready",
                       "gone", "fail", "failed"},
                 protocol : 0 .. 2, leg : Nat,
                 holds : SUBSET {"fd", "client", "ipaddress", "hostname",
                                 "token", "context", "name", "user"}]
  /\ toServer \in Seq(SUBSET {"NOOP", "CONTEXT_NEXT", "CONTEXT", "PROTOCOL",
                              "DATA"})
  /\ toClient \in Seq(SUBSET {"CONTEXT", "PROTOCOL"})
  /\ plain \in BOOLEAN

Established == server.pc \in {"ready", "gone"}

(***************************************************************************)
(* When both ends of a connection of the library have set it up, they      *)
(* speak the same protocol, whichever of them is old; and a server that    *)
(* speaks protocol 2 has seen TOKEN_PROTOCOL in every token of the client, *)
(* whatever client that is, and has all the required flags.                *)
(***************************************************************************)
AgreeOnProtocol ==
  /\ client.kind = "library" /\ client.pc = "open" /\ Established
       => client.protocol = server.protocol
  /\ Established /\ server.protocol = 2
       => ~plain /\ granted = Required

(***************************************************************************)
(* Every path out of the two functions releases what was allocated: after  *)
(* a failure nothing is left, after success what the connection needs.     *)
(***************************************************************************)
NothingLeaked ==
  /\ client.pc = "failed" => client.holds = {}
  /\ client.pc = "open" => client.holds = {"fd", "context"}
  /\ server.pc \in {"failed", "gone"} => server.holds = {}
  /\ server.pc = "ready" =>
       server.holds \ {"hostname"}
         = {"fd", "client", "ipaddress", "context", "user"}

(***************************************************************************)
(* Neither side waits for the other for ever, even when the client has no  *)
(* timeout: a server that gives up closes the connection.                  *)
(***************************************************************************)
BothDecide ==
  <>(/\ client.kind = "library" => client.pc \in {"open", "failed"}
     /\ Established \/ server.pc = "failed")

============================================================================
