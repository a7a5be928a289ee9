-------------------------- MODULE ServerConnection --------------------------
(***************************************************************************)
(* The server side of an established connection: the message loops         *)
(* server_v2_handle_messages (server/server-v2.c) and                      *)
(* server_v1_handle_messages (server/server-v1.c).  The client may send    *)
(* anything.  A token is its protocol header and its length; what          *)
(* server_run_command sends is a number of replies, one but for the two    *)
(* kinds of commands that SingleAnswer of Commands names.                  *)
(***************************************************************************)
EXTENDS Integers, Sequences

CONSTANTS
    Lengths,            \* token lengths the client uses
    ContinueStatuses,   \* continue statuses the client uses
    TOKEN_MAX_DATA,
    COMMAND_MAX_DATA,
    SizeModulus,        \* 2^w for the w bits of a size_t
    MaxAnswers,         \* errors and statuses one command may bring
    MaxTokens           \* bound: tokens the client sends

ASSUME LengthsAssumption ==
    Lengths \subseteq Nat /\ \A n \in Lengths : n < SizeModulus
ASSUME ContinueAssumption == ContinueStatuses \subseteq Int
ASSUME LimitAssumption ==
    /\ TOKEN_MAX_DATA \in Nat /\ COMMAND_MAX_DATA \in Nat \ {0}
    /\ SizeModulus \in Nat
    /\ SizeModulus > COMMAND_MAX_DATA + 4
ASSUME MaxAnswersAssumption == MaxAnswers \in Nat \ {0}
ASSUME MaxTokensAssumption == MaxTokens \in Nat

\* The header is read as an array of char, so a continue status above 127 is
\* negative where char is signed.  An octet that a short token does not have
\* is whatever follows it in memory.  COMMAND, NOOP, QUIT are the types the
\* server knows; "other" is any other type.
Token == [ver : {2, 3, 4}, type : {"COMMAND", "NOOP", "QUIT", "other"},
          keep : BOOLEAN, cont : ContinueStatuses, length : Lengths]

HeaderSize == 4

VARIABLES
    protocol,   \* client->protocol, fixed by the negotiation
    pc,         \* where the message loop is
    token,      \* the token being handled
    keepalive,  \* client->keepalive
    fatal,      \* client->fatal
    continued,  \* continued of server_v2_handle_command
    total,      \* total of server_v2_handle_command
    pieces,     \* continue statuses of the tokens buffered for this command
    executed,   \* pieces of each command handed to server_parse_command
    replies,    \* replies sent to the client, outputs not counted
    tokens      \* tokens received

commandVars == <<continued, total, pieces, executed>>
vars == <<protocol, pc, token, keepalive, fatal, commandVars, replies,
          tokens>>

Init ==
    /\ protocol \in {1, 2}
    /\ pc = "read"
    /\ token = [ver |-> 2, type |-> "NOOP", keep |-> TRUE, cont |-> 0,
                length |-> 0]
    /\ keepalive = TRUE /\ fatal = FALSE
    /\ continued = FALSE /\ total = 0 /\ pieces = <<>> /\ executed = <<>>
    /\ replies = 0 /\ tokens = 0

-----------------------------------------------------------------------------
(* The client *)

\* The next token arrives.
Arrives(t) ==
    /\ tokens < MaxTokens
    /\ token' = t
    /\ tokens' = tokens + 1

-----------------------------------------------------------------------------
(* Replies *)

\* One reply, which may fail to be sent.
Reply ==
    \/ replies' = replies + 1 /\ UNCHANGED fatal
    \/ fatal' = TRUE /\ UNCHANGED replies

\* A command is answered n times: after an error for a help request with too
\* many words, or for a program of a summary that failed, the server goes on
\* and answers again, also if the error could not be sent.
Answers(n) ==
    \E sent \in 0..n : /\ replies' = replies + sent
                       /\ fatal' = (fatal \/ sent < n)

\* The end of the do loop: go on while the client wants the connection kept
\* and the last reply was sent.
NextMessage(keep) ==
    pc' = IF keep /\ ~fatal' THEN "read" ELSE "closed"

\* token_recv_priv fails: end of file and socket errors are silent, others
\* are reported.
ReceiveFails ==
    /\ pc = "read"
    /\ \/ UNCHANGED <<replies, fatal>>
       \/ Reply
    /\ pc' = "closed"
    /\ UNCHANGED <<protocol, token, keepalive, commandVars, tokens>>

-----------------------------------------------------------------------------
(* server_v1_handle_messages: a single command, no header *)

ReceiveV1 ==
    /\ protocol = 1 /\ pc = "read"
    /\ \E t \in Token : Arrives(t)
    /\ pc' = "v1"
    /\ UNCHANGED <<protocol, keepalive, fatal, commandVars, replies>>

RefuseV1 ==
    /\ pc = "v1" /\ token.length > TOKEN_MAX_DATA
    /\ Reply
    /\ pc' = "closed"
    /\ UNCHANGED <<protocol, token, keepalive, commandVars, tokens>>

AcceptV1 ==
    /\ pc = "v1" /\ token.length <= TOKEN_MAX_DATA
    /\ total' = token.length /\ pieces' = <<0>>
    /\ pc' = "run"
    /\ UNCHANGED <<protocol, token, keepalive, fatal, continued, executed,
                   replies, tokens>>

-----------------------------------------------------------------------------
(* server_v2_handle_token *)

ReceiveMessage ==
    /\ protocol # 1 /\ pc = "read"
    /\ \E t \in Token : Arrives(t)
    /\ pc' = "handle"
    /\ UNCHANGED <<protocol, keepalive, fatal, commandVars, replies>>

KnownVersion(t) == t.ver \in {2, 3}

\* A reply that needs no command: MESSAGE_VERSION for an unknown version,
\* MESSAGE_NOOP, or the error for an unknown message type.
HandleSimple ==
    /\ pc = "handle"
    /\ ~KnownVersion(token) \/ token.type \in {"NOOP", "other"}
    /\ Reply
    /\ NextMessage(keepalive)
    /\ UNCHANGED <<protocol, token, keepalive, commandVars, tokens>>

HandleQuit ==
    /\ pc = "handle" /\ KnownVersion(token) /\ token.type = "QUIT"
    /\ keepalive' = FALSE
    /\ pc' = "closed"
    /\ UNCHANGED <<protocol, token, fatal, commandVars, replies, tokens>>

BeginCommand ==
    /\ pc = "handle" /\ KnownVersion(token) /\ token.type = "COMMAND"
    /\ continued' = FALSE /\ total' = 0 /\ pieces' = <<>>
    /\ pc' = "chunk"
    /\ UNCHANGED <<protocol, token, keepalive, fatal, executed, replies,
                   tokens>>

-----------------------------------------------------------------------------
(* server_v2_handle_command, one iteration of its loop for each token *)

\* A second first token is accepted.
MutBadContinue == (token.cont > 1 /\ ~continued) \/ token.cont > 3

\* A status of 0, or a negative one, is not refused after the first token.
BadContinue ==
    \/ token.cont = 1 /\ continued
    \/ token.cont > 1 /\ ~continued
    \/ token.cont > 3

\* A difference of two values of type size_t.
SizeDiff(a, b) == IF a >= b THEN a - b ELSE SizeModulus + a - b

\* The octets after the header: a huge number if the token is shorter.
DataLength == SizeDiff(token.length, HeaderSize)

\* The length of a token is compared with the limit, not the total.
MutTooMuchData ==
    \/ token.length > TOKEN_MAX_DATA
    \/ DataLength >= COMMAND_MAX_DATA

TooMuchData ==
    \/ token.length > TOKEN_MAX_DATA
    \/ DataLength >= SizeDiff(COMMAND_MAX_DATA, total)

\* The command is refused.  The connection stays open, and what the client
\* still sends of this command is read as a new message.
RefuseChunk ==
    /\ pc = "chunk" /\ (TooMuchData \/ BadContinue)
    /\ keepalive' = token.keep
    /\ Reply
    /\ NextMessage(token.keep)
    /\ UNCHANGED <<protocol, token, commandVars, tokens>>

AcceptChunk ==
    /\ pc = "chunk" /\ ~TooMuchData /\ ~BadContinue
    /\ keepalive' = token.keep
    /\ continued' = (token.cont \in {1, 2})
    /\ total' = total + DataLength
    /\ pieces' = Append(pieces, token.cont)
    /\ pc' = IF continued' THEN "continue" ELSE "run"
    /\ UNCHANGED <<protocol, token, fatal, executed, replies, tokens>>

(* server_v2_read_continuation *)

ContinueCommand ==
    /\ pc = "continue"
    /\ \E t \in Token : Arrives(t)
    /\ IF KnownVersion(token') /\ token'.type = "COMMAND"
       THEN pc' = "chunk" ELSE pc' = "abort"
    /\ UNCHANGED <<protocol, keepalive, fatal, commandVars, replies>>

\* Answer a bad continuation and wait for another one.
MutAbortCommand ==
    /\ pc = "abort"
    /\ IF KnownVersion(token) /\ token.type = "QUIT"
       THEN keepalive' = FALSE /\ UNCHANGED <<replies, fatal>> /\ pc' = "closed"
       ELSE Reply /\ UNCHANGED keepalive
            /\ pc' = IF fatal' THEN "closed" ELSE "continue"
    /\ UNCHANGED <<protocol, token, commandVars, tokens>>

\* Anything but a command token ends the command and, since result is still
\* false in server_v2_handle_command, the connection.
AbortCommand ==
    /\ pc = "abort"
    /\ IF KnownVersion(token) /\ token.type = "QUIT"
       THEN keepalive' = FALSE /\ UNCHANGED <<replies, fatal>>
       ELSE Reply /\ UNCHANGED keepalive
    /\ pc' = "closed"
    /\ UNCHANGED <<protocol, token, commandVars, tokens>>

ContinueFails ==
    /\ pc = "continue"
    /\ replies' \in {replies, replies + 1}
    /\ fatal' = TRUE
    /\ pc' = "closed"
    /\ UNCHANGED <<protocol, token, keepalive, commandVars, tokens>>

\* The result of server_run_command is not looked at.
MutRunCommand ==
    /\ pc = "run"
    /\ executed' = Append(executed, pieces)
    /\ Reply
    /\ pc' = IF keepalive THEN "read" ELSE "closed"
    /\ UNCHANGED <<protocol, token, keepalive, continued, total, pieces,
                   tokens>>

\* server_parse_command and server_run_command: the command or the error in
\* it is answered.  Protocol 1 has a single command.
RunCommand ==
    /\ pc = "run"
    /\ executed' = Append(executed, pieces)
    /\ \E n \in 1..MaxAnswers : Answers(n)
    /\ NextMessage(keepalive /\ protocol # 1)
    /\ UNCHANGED <<protocol, token, keepalive, continued, total, pieces,
                   tokens>>

Closed == pc = "closed" /\ UNCHANGED vars

Next ==
    \/ ReceiveFails \/ ReceiveV1 \/ RefuseV1 \/ AcceptV1
    \/ ReceiveMessage \/ HandleSimple \/ HandleQuit \/ BeginCommand
    \/ RefuseChunk \/ AcceptChunk \/ ContinueCommand \/ AbortCommand
    \/ ContinueFails \/ RunCommand \/ Closed

Spec == Init /\ [][Next]_vars

-----------------------------------------------------------------------------
(* Properties *)

\* Every variable has its type.
TypeOK ==
    /\ protocol \in {1, 2}
    /\ pc \in {"read", "v1", "handle", "chunk", "continue", "abort", "run",
               "closed"}
    /\ token.ver \in Nat /\ token.keep \in BOOLEAN /\ token.cont \in Int
    /\ token.length \in Nat
    /\ keepalive \in BOOLEAN /\ fatal \in BOOLEAN /\ continued \in BOOLEAN
    /\ total \in Nat /\ pieces \in Seq(Int) /\ executed \in Seq(Seq(Int))
    /\ replies \in Nat /\ tokens \in 0..MaxTokens

\* The command buffer never holds COMMAND_MAX_DATA octets or more, however a
\* command is split, and a token shorter than its header does not get past
\* the check by wrapping around.
BufferBound == protocol # 1 => total < COMMAND_MAX_DATA

\* The continue statuses of a command as the code puts it together: a token of
\* its own (0), or a first one (1), middle ones (2) and a last one (3), as in
\* protocol.xml, but a token that stands for itself, 0 or less, may take the
\* place of the last one.
Assembled(e) ==
    /\ Len(e) > 0
    /\ \A j \in 1..Len(e) :
          /\ e[j] <= 3
          /\ e[j] = 1 => j = 1 /\ Len(e) > 1
          /\ e[j] = 2 => j > 1 /\ j < Len(e)
          /\ e[j] = 3 => j = Len(e) /\ j > 1
          /\ j > 1 => e[1] = 1 /\ (j < Len(e) => e[j] = 2)

\* A command that is run begins with a token that begins a command, goes on
\* with middle ones only and ends with the first token that is neither: never
\* the rest of a command whose beginning was refused, never two beginnings,
\* and nothing after an end.  That the last token belongs to the same command
\* is not promised: a complete command in the middle of a continued one is run
\* together with its beginning, which protocol.xml forbids.
CommandsAssembled == \A k \in 1..Len(executed) : Assembled(executed[k])

\* The connection implements the request-reply discipline: every message is
\* answered before the next one is read, nothing is sent between messages,
\* and only a command that is run may be answered more than once: a message
\* that is refused or malformed, and a command that is given up, however it
\* is split, is answered at most once.
RR == INSTANCE RequestReply WITH
          state <- CASE pc = "read" -> "waiting"
                     [] pc = "closed" -> "closed"
                     [] pc = "run" -> "running"
                     [] OTHER -> "busy"

AnsweredBeforeNext == RR!RRSpec

\* The server does not read another message after a reply could not be sent.
FatalCloses == pc = "read" => ~fatal
=============================================================================
