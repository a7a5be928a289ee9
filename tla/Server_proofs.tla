---------------------------- MODULE Server_proofs ----------------------------
(***************************************************************************)
(* Proofs about the two parts of remctld that decide how long it lives:    *)
(* ServerConnection, the message loops of one connection, and Daemon, the  *)
(* main loop.  They share no variable.                                     *)
(***************************************************************************)
EXTENDS ServerConnection, Daemon, SequenceTheorems, TLAPS

(* The message loops: the type invariant, the safety invariants and the    *)
(* implementation of RequestReply, for every choice of the limits and      *)
(* every client.                                                           *)

\* Where protocol 1 can be.
ProtocolInv ==
    /\ protocol = 1 => pc \in {"read", "v1", "run", "closed"}
    /\ pc = "v1" => protocol = 1

\* The pieces buffered so far: none before the first token is accepted, then
\* a first token and middle ones, and a whole command when it is run.
PiecesInv ==
    /\ pc \in {"chunk", "continue", "abort"} =>
          IF continued
          THEN /\ Len(pieces) > 0
               /\ pieces[1] = 1
               /\ \A j \in 2..Len(pieces) : pieces[j] = 2
          ELSE pieces = <<>>
    /\ pc \in {"continue", "abort"} => continued
    /\ pc = "run" => Assembled(pieces)

\* A reply that could not be sent has closed the connection.
FatalInv == fatal => pc = "closed"

IInv ==
    /\ TypeOK
    /\ ProtocolInv
    /\ BufferBound
    /\ PiecesInv
    /\ CommandsAssembled
    /\ FatalInv

-----------------------------------------------------------------------------
\* The initial state satisfies the inductive invariant.
LEMMA InitInv == Init => IInv
<1> SUFFICES ASSUME Init PROVE IInv
  OBVIOUS
<1>a. pieces \in Seq(Int) /\ executed \in Seq(Seq(Int))
  BY DEF Init
<1>b. /\ token.ver \in Nat /\ token.keep \in BOOLEAN /\ token.cont \in Int
      /\ token.length \in Nat
  BY DEF Init
<1>c. /\ protocol \in {1, 2} /\ pc = "read"
      /\ total = 0 /\ replies = 0 /\ tokens = 0
      /\ keepalive = TRUE /\ fatal = FALSE /\ continued = FALSE
  BY DEF Init
<1>d. /\ total \in Nat /\ replies \in Nat
      /\ tokens \in 0..MaxTokens
  BY <1>c, MaxTokensAssumption
<1>e. /\ keepalive \in BOOLEAN /\ fatal \in BOOLEAN /\ continued \in BOOLEAN
  BY <1>c
<1>1. TypeOK
  BY <1>a, <1>b, <1>c, <1>d, <1>e, Zenon DEF TypeOK
<1>2. BufferBound
  BY LimitAssumption DEF Init, BufferBound
<1>3. CommandsAssembled
  BY DEF Init, CommandsAssembled
<1>4. ProtocolInv /\ PiecesInv /\ FatalInv
  BY DEF Init, ProtocolInv, PiecesInv, FatalInv
<1> QED
  BY <1>1, <1>2, <1>3, <1>4 DEF IInv

\* A token of the client has the type TypeOK asks for.
LEMMA ArrivesType ==
    ASSUME TypeOK, NEW t \in Token, Arrives(t)
    PROVE  /\ token' \in Token
           /\ token'.ver \in Nat /\ token'.keep \in BOOLEAN
           /\ token'.cont \in Int /\ token'.length \in Nat
           /\ tokens' \in 0..MaxTokens
<1>1. token' \in Token /\ token'.ver \in Nat /\ token'.keep \in BOOLEAN
  BY DEF Token, Arrives
<1>2. token'.cont \in Int /\ token'.length \in Nat
  BY LengthsAssumption, ContinueAssumption DEF Token, Arrives
<1>3. tokens' \in 0..MaxTokens
  BY MaxTokensAssumption DEF TypeOK, Arrives
<1> QED
  BY <1>1, <1>2, <1>3

\* An accepted token extends the pieces of a command correctly, and the last
\* one completes it.
LEMMA PiecesExtended ==
    ASSUME pieces \in Seq(Int), token.cont \in Int, continued \in BOOLEAN,
           IF continued
           THEN /\ Len(pieces) > 0
                /\ pieces[1] = 1
                /\ \A j \in 2..Len(pieces) : pieces[j] = 2
           ELSE pieces = <<>>,
           ~BadContinue
    PROVE  LET new == Append(pieces, token.cont)
           IN IF token.cont \in {1, 2}
              THEN /\ Len(new) > 0
                   /\ new[1] = 1
                   /\ \A j \in 2..Len(new) : new[j] = 2
              ELSE Assembled(new)
BY DEF BadContinue, Assembled

\* What the buffer holds after a token has been accepted.
LEMMA BufferExtended ==
    ASSUME total \in Nat, total < COMMAND_MAX_DATA, token.length \in Nat,
           ~TooMuchData
    PROVE  /\ DataLength \in Nat
           /\ total + DataLength < COMMAND_MAX_DATA
BY LimitAssumption DEF TooMuchData, DataLength, SizeDiff, HeaderSize

\* A command in one token is whole.
LEMMA SingleAssembled == <<0>> \in Seq(Int) /\ Assembled(<<0>>)
BY DEF Assembled

\* A reply leaves the count of replies and the failure flag well typed.
LEMMA ReplyType ==
    ASSUME TypeOK, Reply
    PROVE  replies' \in Nat /\ fatal' \in BOOLEAN
<1>1. replies' \in Nat
  BY DEF TypeOK, Reply
<1>2. fatal' \in BOOLEAN
  BY Zenon DEF TypeOK, Reply
<1> QED
  BY <1>1, <1>2

\* So does any number of answers, and if none is lost there is at least one.
LEMMA AnswersType ==
    ASSUME TypeOK, NEW n \in 1..MaxAnswers, Answers(n)
    PROVE  /\ replies' \in Nat /\ fatal' \in BOOLEAN
           /\ replies' >= replies
           /\ ~fatal' => replies' > replies
<1>0. n \in Nat \ {0}
  BY MaxAnswersAssumption
<1>1. PICK sent \in 0..n : /\ replies' = replies + sent
                           /\ fatal' = (fatal \/ sent < n)
  BY DEF Answers
<1>2. replies' \in Nat /\ replies' >= replies /\ (sent = n => replies' > replies)
  BY <1>0, <1>1 DEF TypeOK
<1>3. ~(sent < n) => sent = n
  BY <1>0
<1>4. fatal' \in BOOLEAN /\ (~fatal' => sent = n)
  BY <1>1, <1>3, Zenon DEF TypeOK
<1> QED
  BY <1>2, <1>4

\* One more whole command has been run.
LEMMA ExecutedExtended ==
    ASSUME executed \in Seq(Seq(Int)), CommandsAssembled,
           NEW e \in Seq(Int), Assembled(e), executed' = Append(executed, e)
    PROVE  executed' \in Seq(Seq(Int)) /\ CommandsAssembled'
<1>1. executed' \in Seq(Seq(Int))
  OBVIOUS
<1>2. ASSUME NEW k \in 1..Len(executed') PROVE Assembled(executed'[k])
  <2>1. CASE k = Len(executed) + 1
    BY <2>1
  <2>2. CASE k # Len(executed) + 1
    BY <2>2 DEF CommandsAssembled
  <2> QED
    BY <2>1, <2>2
<1> QED
  BY <1>1, <1>2 DEF CommandsAssembled, Assembled

\* The parts of the invariant that a step keeps if it leaves alone the
\* variables of the command being read.
LEMMA CommandUnchanged ==
    ASSUME IInv, UNCHANGED <<protocol, commandVars>>
    PROVE  BufferBound' /\ CommandsAssembled'
BY DEF IInv, BufferBound, CommandsAssembled, commandVars, Assembled

\* Every step preserves the inductive invariant.
LEMMA NextInv == IInv /\ [Next]_vars => IInv'
<1> SUFFICES ASSUME IInv, [Next]_vars PROVE IInv'
  OBVIOUS
<1>0. /\ TypeOK /\ ProtocolInv /\ BufferBound /\ PiecesInv
      /\ CommandsAssembled /\ FatalInv
  BY DEF IInv
<1>1. CASE ReceiveFails
  <2>1. TypeOK'
    BY <1>1, <1>0, ReplyType DEF ReceiveFails, TypeOK, commandVars
  <2>2. ProtocolInv' /\ FatalInv'
    BY <1>1, <1>0 DEF ReceiveFails, Reply, TypeOK, ProtocolInv, FatalInv
  <2>3. PiecesInv'
    BY <1>1, <1>0 DEF ReceiveFails, Reply, PiecesInv, ProtocolInv, commandVars
  <2> QED
    BY <1>1, <2>1, <2>2, <2>3, CommandUnchanged DEF ReceiveFails, IInv
<1>2. CASE ReceiveV1
  <2>0. PICK t \in Token : Arrives(t)
    BY <1>2 DEF ReceiveV1
  <2>1. TypeOK'
    BY <1>2, <1>0, <2>0, ArrivesType DEF ReceiveV1, TypeOK, commandVars
  <2>2. ProtocolInv' /\ FatalInv'
    BY <1>2, <1>0 DEF ReceiveV1, TypeOK, ProtocolInv, FatalInv
  <2>3. PiecesInv'
    BY <1>2, <1>0 DEF ReceiveV1, PiecesInv, ProtocolInv, commandVars
  <2> QED
    BY <1>2, <2>1, <2>2, <2>3, CommandUnchanged DEF ReceiveV1, IInv
<1>3. CASE RefuseV1
  <2>1. TypeOK'
    BY <1>3, <1>0, ReplyType DEF RefuseV1, TypeOK, commandVars
  <2>2. ProtocolInv' /\ FatalInv'
    BY <1>3, <1>0 DEF RefuseV1, Reply, TypeOK, ProtocolInv, FatalInv
  <2>3. PiecesInv'
    BY <1>3, <1>0 DEF RefuseV1, Reply, PiecesInv, ProtocolInv, commandVars
  <2> QED
    BY <1>3, <2>1, <2>2, <2>3, CommandUnchanged DEF RefuseV1, IInv
<1>15. CASE AcceptV1
  <2>1. TypeOK'
    BY <1>15, <1>0, SingleAssembled DEF AcceptV1, TypeOK
  <2>2. ProtocolInv' /\ FatalInv'
    BY <1>15, <1>0 DEF AcceptV1, TypeOK, ProtocolInv, FatalInv
  <2>3. PiecesInv'
    BY <1>15, SingleAssembled DEF AcceptV1, PiecesInv
  <2>4. BufferBound' /\ CommandsAssembled'
    BY <1>15, <1>0 DEF AcceptV1, BufferBound, ProtocolInv, CommandsAssembled,
       Assembled
  <2> QED
    BY <2>1, <2>2, <2>3, <2>4 DEF IInv
<1>4. CASE ReceiveMessage
  <2>0. PICK t \in Token : Arrives(t)
    BY <1>4 DEF ReceiveMessage
  <2>1. TypeOK'
    BY <1>4, <1>0, <2>0, ArrivesType DEF ReceiveMessage, TypeOK, commandVars
  <2>2. ProtocolInv' /\ FatalInv'
    BY <1>4, <1>0 DEF ReceiveMessage, TypeOK, ProtocolInv, FatalInv
  <2>3. PiecesInv'
    BY <1>4, <1>0 DEF ReceiveMessage, PiecesInv, ProtocolInv, commandVars
  <2> QED
    BY <1>4, <2>1, <2>2, <2>3, CommandUnchanged DEF ReceiveMessage, IInv
<1>5. CASE HandleSimple
  <2>1. TypeOK'
    BY <1>5, <1>0, ReplyType DEF HandleSimple, NextMessage, TypeOK, commandVars
  <2>2. ProtocolInv' /\ FatalInv'
    BY <1>5, <1>0 DEF HandleSimple, Reply, NextMessage, TypeOK, ProtocolInv, FatalInv
  <2>3. PiecesInv'
    BY <1>5, <1>0 DEF HandleSimple, Reply, NextMessage, PiecesInv, ProtocolInv, commandVars
  <2> QED
    BY <1>5, <2>1, <2>2, <2>3, CommandUnchanged DEF HandleSimple, IInv
<1>6. CASE HandleQuit
  <2>1. TypeOK'
    BY <1>6, <1>0 DEF HandleQuit, TypeOK, commandVars
  <2>2. ProtocolInv' /\ FatalInv'
    BY <1>6, <1>0 DEF HandleQuit, TypeOK, ProtocolInv, FatalInv
  <2>3. PiecesInv'
    BY <1>6, <1>0 DEF HandleQuit, PiecesInv, ProtocolInv, commandVars
  <2> QED
    BY <1>6, <2>1, <2>2, <2>3, CommandUnchanged DEF HandleQuit, IInv
<1>7. CASE BeginCommand
  <2>0. pieces' \in Seq(Int)
    BY <1>7 DEF BeginCommand
  <2>1. TypeOK'
    BY <1>7, <1>0, <2>0 DEF BeginCommand, TypeOK
  <2>2. ProtocolInv' /\ FatalInv'
    BY <1>7, <1>0 DEF BeginCommand, TypeOK, ProtocolInv, FatalInv
  <2>3. PiecesInv'
    BY <1>7, <1>0 DEF BeginCommand, PiecesInv, ProtocolInv, commandVars
  <2>4. BufferBound' /\ CommandsAssembled'
    BY <1>7, <1>0, LimitAssumption
       DEF BeginCommand, BufferBound, CommandsAssembled, Assembled
  <2> QED
    BY <2>1, <2>2, <2>3, <2>4 DEF IInv
<1>8. CASE RefuseChunk
  <2>1. TypeOK'
    BY <1>8, <1>0, ReplyType DEF RefuseChunk, NextMessage, TypeOK, commandVars
  <2>2. ProtocolInv' /\ FatalInv'
    BY <1>8, <1>0 DEF RefuseChunk, Reply, NextMessage, TypeOK, ProtocolInv, FatalInv
  <2>3. PiecesInv'
    BY <1>8, <1>0 DEF RefuseChunk, Reply, NextMessage, PiecesInv, ProtocolInv, commandVars
  <2> QED
    BY <1>8, <2>1, <2>2, <2>3, CommandUnchanged DEF RefuseChunk, IInv
<1>9. CASE AcceptChunk
  <2>0. /\ total \in Nat /\ total < COMMAND_MAX_DATA
        /\ token.length \in Nat /\ token.cont \in Int
        /\ continued \in BOOLEAN /\ pieces \in Seq(Int)
    BY <1>9, <1>0 DEF AcceptChunk, TypeOK, BufferBound, ProtocolInv
  <2>a. total' \in Nat /\ total' < COMMAND_MAX_DATA
    BY <1>9, <2>0, BufferExtended DEF AcceptChunk
  <2>b. PiecesInv'
    BY <1>9, <1>0, <2>0, PiecesExtended DEF AcceptChunk, PiecesInv
  <2>1. TypeOK'
    BY <1>9, <1>0, <2>a DEF AcceptChunk, TypeOK
  <2>2. ProtocolInv' /\ FatalInv'
    BY <1>9, <1>0 DEF AcceptChunk, TypeOK, ProtocolInv, FatalInv
  <2>3. BufferBound'
    BY <2>a DEF BufferBound
  <2>4. CommandsAssembled'
    BY <1>9, <1>0 DEF AcceptChunk, CommandsAssembled, Assembled
  <2> QED
    BY <2>b, <2>1, <2>2, <2>3, <2>4 DEF IInv
<1>10. CASE ContinueCommand
  <2>0. PICK t \in Token : Arrives(t)
    BY <1>10 DEF ContinueCommand
  <2>1. TypeOK'
    BY <1>10, <1>0, <2>0, ArrivesType DEF ContinueCommand, TypeOK, commandVars
  <2>2. ProtocolInv' /\ FatalInv'
    BY <1>10, <1>0 DEF ContinueCommand, TypeOK, ProtocolInv, FatalInv
  <2>3. PiecesInv'
    BY <1>10, <1>0 DEF ContinueCommand, PiecesInv, ProtocolInv, commandVars
  <2> QED
    BY <1>10, <2>1, <2>2, <2>3, CommandUnchanged DEF ContinueCommand, IInv
<1>11. CASE AbortCommand
  <2>1. TypeOK'
    BY <1>11, <1>0, ReplyType DEF AbortCommand, TypeOK, commandVars
  <2>2. ProtocolInv' /\ FatalInv'
    BY <1>11, <1>0 DEF AbortCommand, Reply, TypeOK, ProtocolInv, FatalInv
  <2>3. PiecesInv'
    BY <1>11, <1>0 DEF AbortCommand, Reply, PiecesInv, ProtocolInv, commandVars
  <2> QED
    BY <1>11, <2>1, <2>2, <2>3, CommandUnchanged DEF AbortCommand, IInv
<1>12. CASE ContinueFails
  <2>1. TypeOK'
    BY <1>12, <1>0 DEF ContinueFails, TypeOK, commandVars
  <2>2. ProtocolInv' /\ FatalInv'
    BY <1>12, <1>0 DEF ContinueFails, TypeOK, ProtocolInv, FatalInv
  <2>3. PiecesInv'
    BY <1>12, <1>0 DEF ContinueFails, PiecesInv, ProtocolInv, commandVars
  <2> QED
    BY <1>12, <2>1, <2>2, <2>3, CommandUnchanged DEF ContinueFails, IInv
<1>13. CASE RunCommand
  <2>0. executed' \in Seq(Seq(Int)) /\ CommandsAssembled'
    BY <1>13, <1>0, ExecutedExtended DEF RunCommand, TypeOK, PiecesInv
  <2>1. TypeOK'
    BY <1>13, <1>0, <2>0, AnswersType DEF RunCommand, NextMessage, TypeOK
  <2>2. ProtocolInv' /\ FatalInv'
    BY <1>13, <1>0 DEF RunCommand, NextMessage, TypeOK, ProtocolInv, FatalInv
  <2>3. PiecesInv'
    BY <1>13, <1>0 DEF RunCommand, NextMessage, PiecesInv, ProtocolInv, commandVars
  <2>4. BufferBound'
    BY <1>13, <1>0 DEF RunCommand, BufferBound, ProtocolInv
  <2> QED
    BY <2>0, <2>1, <2>2, <2>3, <2>4 DEF IInv
<1>14. CASE UNCHANGED vars
  BY <1>14, <1>0, CommandUnchanged
     DEF vars, TypeOK, ProtocolInv, PiecesInv, FatalInv, commandVars,
         IInv, Assembled
<1> QED
  BY <1>1, <1>2, <1>3, <1>4, <1>5, <1>6, <1>7, <1>8, <1>9, <1>10, <1>11,
     <1>12, <1>13, <1>14, <1>15 DEF Next, Closed

\* The inductive invariant holds in every reachable state.
THEOREM Invariance == Spec => []IInv
BY InitInv, NextInv, PTL DEF Spec

\* Every variable keeps its type, for every client and all limits.
THEOREM TypeCorrect == Spec => []TypeOK
BY Invariance, PTL DEF IInv

\* However a command is split, fewer than COMMAND_MAX_DATA octets of it are
\* ever buffered.
THEOREM Bounded == Spec => []BufferBound
BY Invariance, PTL DEF IInv

\* No command is run that begins with the rest of another one, has a second
\* beginning or goes on after an end, however its tokens are numbered.
THEOREM Continuation == Spec => []CommandsAssembled
BY Invariance, PTL DEF IInv

\* No message is read once a reply could not be sent.
THEOREM Fatal == Spec => []FatalCloses
<1>1. IInv => FatalCloses
  BY DEF IInv, FatalInv, FatalCloses
<1> QED
  BY <1>1, Invariance, PTL

-----------------------------------------------------------------------------
\* The connection implements RequestReply: each message is answered before the
\* next one is read, exactly once unless it is a command that was run,
\* whatever number of answers a command brings.
THEOREM Implements == Spec => AnsweredBeforeNext
<1>1. Init => RR!RRInit
  BY DEF Init, RR!RRInit
<1>2. IInv /\ [Next]_vars => [RR!RRNext]_(RR!rrVars)
  <2> SUFFICES ASSUME IInv, [Next]_vars PROVE [RR!RRNext]_(RR!rrVars)
    OBVIOUS
  <2> USE DEF IInv, TypeOK, FatalInv, RR!RRNext, RR!rrVars, RR!Receive,
              RR!Run, RR!Answer, RR!Finish, RR!Close
  <2>1. CASE ReceiveFails
    BY <2>1 DEF ReceiveFails, Reply
  <2>2. CASE ReceiveV1
    BY <2>2 DEF ReceiveV1
  <2>3. CASE RefuseV1
    BY <2>3 DEF RefuseV1, Reply
  <2>15. CASE AcceptV1
    BY <2>15 DEF AcceptV1
  <2>4. CASE ReceiveMessage
    BY <2>4 DEF ReceiveMessage
  <2>5. CASE HandleSimple
    BY <2>5 DEF HandleSimple, Reply, NextMessage
  <2>6. CASE HandleQuit
    BY <2>6 DEF HandleQuit
  <2>7. CASE BeginCommand
    BY <2>7 DEF BeginCommand
  <2>8. CASE RefuseChunk
    BY <2>8 DEF RefuseChunk, Reply, NextMessage
  <2>9. CASE AcceptChunk
    BY <2>9 DEF AcceptChunk
  <2>10. CASE ContinueCommand
    BY <2>10 DEF ContinueCommand
  <2>11. CASE AbortCommand
    BY <2>11 DEF AbortCommand, Reply
  <2>12. CASE ContinueFails
    BY <2>12 DEF ContinueFails
  <2>13. CASE RunCommand
    BY <2>13, AnswersType DEF RunCommand, NextMessage
  <2>14. CASE UNCHANGED vars
    BY <2>14 DEF vars
  <2> QED
    BY <2>1, <2>2, <2>3, <2>4, <2>5, <2>6, <2>7, <2>8, <2>9, <2>10, <2>11,
       <2>12, <2>13, <2>14, <2>15 DEF Next, Closed
<1> QED
  BY <1>1, <1>2, Invariance, PTL DEF Spec, AnsweredBeforeNext, RR!RRSpec

-----------------------------------------------------------------------------
(* The daemon, for any number of sockets, children, descriptors, waiting   *)
(* connections and edits of the configuration.                             *)

\* DaemonTypeOK in two parts: Boolean variables, and the others.
FlagTypes ==
    /\ childSig \in BOOLEAN /\ configSig \in BOOLEAN /\ exitSig \in BOOLEAN
    /\ eintr \in BOOLEAN /\ pidFile \in BOOLEAN

StateTypes ==
    /\ options \in Option
    /\ daemonPc \in Handling \union Ended \union {"main", "inetd"}
    /\ todoBind \subseteq Sockets /\ bound \subseteq Sockets
    /\ queue \in [Sockets -> 0..MaxQueue]
    /\ ready \in Sockets \union {NoSocket}
    /\ daemonPc = "accept" => ready \in bound
    /\ open \in Nat /\ unforked \in Nat
    /\ file \in [version : 0..MaxVersion, valid : BOOLEAN]
    /\ config \in {NoConfig} \union 0..MaxVersion
    /\ mainConfig \in {"none", "held", "dangling", "twice"}
    /\ hupVersion \in {NoConfig} \union 0..MaxVersion
    /\ children \in [Pids -> Child]

\* Nobody has sent SIGHUP for a version that was not there yet.
HupInv == hupVersion <= file.version

\* Where the server holds the descriptor of a connection it works on.
Holding == {"inetd", "fork", "close"}

\* Every other descriptor belongs to a fork that failed.
FdInv ==
    /\ daemonPc = "main" => open = 0
    /\ daemonPc \notin Ended =>
          open = IF daemonPc \in Holding THEN unforked + 1 ELSE unforked

\* Where there is no configuration in memory.
Unconfigured == {"main", "load"} \union Ended

\* Elsewhere there is one, so a child never starts without.
ConfigInv ==
    /\ daemonPc \notin Unconfigured => config # NoConfig
    /\ \A p \in Pids : children[p].state = "serving" =>
                           children[p].config # NoConfig

DaemonInv ==
    /\ DaemonTypeOK /\ HupInv /\ FdInv /\ ConfigInv
    /\ NoZombieForgotten /\ ReloadNotLost

-----------------------------------------------------------------------------
\* The two parts are the whole.
LEMMA TypeParts == DaemonTypeOK <=> FlagTypes /\ StateTypes
BY Zenon DEF DaemonTypeOK, FlagTypes, StateTypes

\* What main does to the state the other parts of the server use: it ends, or
\* it has a configuration and goes on to the sockets or to its connection.
LEMMA MainEffect ==
    ASSUME Main
    PROVE  /\ daemonPc = "main"
           /\ \/ daemonPc' = "died" /\ UNCHANGED <<config, mainConfig, open>>
              \/ /\ config' = file.version /\ mainConfig' = "held"
                 /\ daemonPc' = "listen" /\ UNCHANGED open
              \/ /\ config' = file.version /\ mainConfig' = "held"
                 /\ daemonPc' = "inetd" /\ open' = 1
           /\ UNCHANGED <<options, childSig, configSig, exitSig, eintr, todoBind,
                          bound, queue, ready, pidFile, file, children,
                          hupVersion, unforked>>
BY Zenon DEF Main, Die, Goto, flags, memory

\* Every step keeps the flags Boolean.
LEMMA FlagStep ==
    ASSUME FlagTypes, StateTypes, [DaemonNext]_daemonVars
    PROVE  FlagTypes'
<1> USE DEF FlagTypes, daemonVars, flags, sockets, memory, Goto
<1>1. CASE Main
  BY <1>1, Zenon DEF Main, Die, InvalidOptions, BindAddresses,
     acquire_creds
<1>2. CASE Inetd
  BY <1>2, Zenon DEF Inetd
<1>3. CASE Bind
  BY <1>3, Zenon DEF Bind, BindActivated, network_bind_all, BindGiven,
     network_bind, Die
<1>4. CASE Listen
  BY <1>4, Zenon DEF Listen, Die
<1>5. CASE WritePidFile
  BY <1>5, Zenon DEF WritePidFile, StateTypes, Option
<1>6. CASE TestChild
  BY <1>6, Zenon DEF TestChild
<1>7. CASE Reap
  BY <1>7, Zenon DEF Reap, Zombies
<1>8. CASE TestConfig
  BY <1>8, Zenon DEF TestConfig
<1>9. CASE FreeConfig
  BY <1>9, Zenon DEF FreeConfig
<1>10. CASE LoadConfig
  BY <1>10, Zenon DEF LoadConfig, Die
<1>11. CASE TestExit
  BY <1>11, Zenon DEF TestExit
<1>12. CASE Interrupted
  BY <1>12, Zenon DEF Interrupted
<1>13. CASE WaitAny
  BY <1>13, Zenon DEF WaitAny
<1>14. CASE Accept
  BY <1>14, Zenon DEF Accept, Die
<1>15. CASE Fork
  BY <1>15, Zenon DEF Fork, Idle
<1>16. CASE CloseConnection
  BY <1>16, Zenon DEF CloseConnection
<1>17. CASE Wake
  BY <1>17, Zenon DEF Wake
<1>18. CASE Cleanup
  BY <1>18, Zenon DEF Cleanup, Die
<1>19. CASE EditFile
  BY <1>19, Zenon DEF EditFile
<1>20. CASE SignalConfig
  BY <1>20, Zenon DEF SignalConfig, Interrupt
<1>21. CASE SignalExit
  BY <1>21, Zenon DEF SignalExit, Interrupt
<1>22. ASSUME NEW x \in Pids, ChildExit(x) PROVE FlagTypes'
  BY <1>22, Zenon DEF ChildExit, Interrupt
<1>23. ASSUME NEW x \in Sockets, Connect(x) PROVE FlagTypes'
  BY <1>23, Zenon DEF Connect
<1>24. ASSUME NEW x \in Sockets, GiveUp(x) PROVE FlagTypes'
  BY <1>24, Zenon DEF GiveUp
<1>25. CASE UNCHANGED daemonVars
  BY <1>25, Zenon
<1>26. CASE ListenFds
  BY <1>26, Zenon DEF ListenFds, Die
<1> QED
  BY <1>1, <1>2, <1>3, <1>4, <1>5, <1>6, <1>7, <1>8, <1>9, <1>10, <1>11, <1>12,
     <1>13, <1>14, <1>15, <1>16, <1>17, <1>18, <1>19, <1>20, <1>21, <1>22,
     <1>23, <1>24, <1>25, <1>26
  DEF DaemonNext, Server, Loop, Environment, Terminated

\* Every step keeps the other types.
LEMMA StateStep ==
    ASSUME StateTypes, FdInv, [DaemonNext]_daemonVars
    PROVE  StateTypes'
<1> MaxQueue \in Nat /\ MaxFds \in Nat /\ MaxVersion \in Nat
  BY DaemonAssumption
<1> USE DEF StateTypes, Child, Option, NoConfig, NoSocket, NoChild,
    Handling, Ended, daemonVars, flags, sockets, memory, Goto
<1>1. CASE Main
  BY <1>1, MainEffect
<1>2. CASE Inetd
  BY <1>2 DEF Inetd
<1>3. CASE Bind
  BY <1>3 DEF Bind, BindActivated, network_bind_all, BindGiven,
     network_bind, Die
<1>4. CASE Listen
  BY <1>4 DEF Listen, Die
<1>5. CASE WritePidFile
  BY <1>5 DEF WritePidFile, Die
<1>6. CASE TestChild
  BY <1>6 DEF TestChild
<1>7. CASE Reap
  BY <1>7 DEF Reap, Zombies
<1>8. CASE TestConfig
  BY <1>8 DEF TestConfig
<1>9. CASE FreeConfig
  BY <1>9 DEF FreeConfig
<1>10. CASE LoadConfig
  BY <1>10 DEF LoadConfig, Die
<1>11. CASE TestExit
  BY <1>11 DEF TestExit
<1>12. CASE Interrupted
  BY <1>12 DEF Interrupted, Blocked
<1>13. CASE WaitAny
  BY <1>13 DEF WaitAny
<1>14. CASE Accept
  BY <1>14 DEF Accept, Die
<1>15. CASE Fork
  BY <1>15 DEF Fork, Idle
<1>16. CASE CloseConnection
  BY <1>16 DEF CloseConnection, FdInv, Holding
<1>17. CASE Wake
  BY <1>17 DEF Wake
<1>18. CASE Cleanup
  BY <1>18 DEF Cleanup, Die
<1>19. CASE EditFile
  BY <1>19 DEF EditFile
<1>20. CASE SignalConfig
  BY <1>20 DEF SignalConfig, Interrupt, Blocked
<1>21. CASE SignalExit
  BY <1>21 DEF SignalExit, Interrupt, Blocked
<1>22. ASSUME NEW x \in Pids, ChildExit(x) PROVE StateTypes'
  <2>1. children' \in [Pids -> Child]
    <3>1. /\ children' = [children EXCEPT ![x] =
                           [children[x] EXCEPT !.state = "zombie"]]
          /\ children[x] \in Child
      BY <1>22 DEF ChildExit
    <3> QED
      BY <3>1
  <2> QED
    BY <1>22, <2>1 DEF ChildExit, Interrupt
<1>23. ASSUME NEW x \in Sockets, Connect(x) PROVE StateTypes'
  BY <1>23 DEF Connect
<1>24. ASSUME NEW x \in Sockets, GiveUp(x) PROVE StateTypes'
  BY <1>24 DEF GiveUp
<1>25. CASE UNCHANGED daemonVars
  BY <1>25
<1>26. CASE ListenFds
  <2>1. BindAddresses \subseteq Sockets
    BY Zenon DEF BindAddresses
  <2> QED
    BY <1>26, <2>1 DEF ListenFds, Die
<1> QED
  BY <1>1, <1>2, <1>3, <1>4, <1>5, <1>6, <1>7, <1>8, <1>9, <1>10, <1>11, <1>12,
     <1>13, <1>14, <1>15, <1>16, <1>17, <1>18, <1>19, <1>20, <1>21, <1>22,
     <1>23, <1>24, <1>25, <1>26
  DEF DaemonNext, Server, Loop, Environment, Terminated

\* Every step accounts for the descriptors.
LEMMA FdStep ==
    ASSUME StateTypes, FdInv, [DaemonNext]_daemonVars
    PROVE  FdInv'
<1> USE DEF StateTypes, FdInv, Holding, Handling, Ended, daemonVars, flags,
    sockets, memory, Goto
<1>1. CASE Main
  BY <1>1, MainEffect
<1>2. CASE Inetd
  BY <1>2 DEF Inetd
<1>3. CASE Bind
  BY <1>3 DEF Bind, BindActivated, network_bind_all, BindGiven,
     network_bind, Die
<1>4. CASE Listen
  BY <1>4 DEF Listen, Die
<1>5. CASE WritePidFile
  BY <1>5 DEF WritePidFile, Die
<1>6. CASE TestChild
  BY <1>6 DEF TestChild
<1>7. CASE Reap
  BY <1>7 DEF Reap, Zombies
<1>8. CASE TestConfig
  BY <1>8 DEF TestConfig
<1>9. CASE FreeConfig
  BY <1>9 DEF FreeConfig
<1>10. CASE LoadConfig
  BY <1>10 DEF LoadConfig, Die
<1>11. CASE TestExit
  BY <1>11 DEF TestExit
<1>12. CASE Interrupted
  BY <1>12 DEF Interrupted, Blocked
<1>13. CASE WaitAny
  BY <1>13 DEF WaitAny
<1>14. CASE Accept
  BY <1>14 DEF Accept, Die
<1>15. CASE Fork
  BY <1>15 DEF Fork, Idle
<1>16. CASE CloseConnection
  BY <1>16 DEF CloseConnection
<1>17. CASE Wake
  BY <1>17 DEF Wake
<1>18. CASE Cleanup
  BY <1>18 DEF Cleanup, Die
<1>19. CASE EditFile
  BY <1>19 DEF EditFile
<1>20. CASE SignalConfig
  BY <1>20 DEF SignalConfig, Interrupt, Blocked
<1>21. CASE SignalExit
  BY <1>21 DEF SignalExit, Interrupt, Blocked
<1>22. ASSUME NEW x \in Pids, ChildExit(x) PROVE FdInv'
  BY <1>22 DEF ChildExit, Interrupt, Blocked
<1>23. ASSUME NEW x \in Sockets, Connect(x) PROVE FdInv'
  BY <1>23 DEF Connect
<1>24. ASSUME NEW x \in Sockets, GiveUp(x) PROVE FdInv'
  BY <1>24 DEF GiveUp
<1>25. CASE UNCHANGED daemonVars
  BY <1>25
<1>26. CASE ListenFds
  BY <1>26 DEF ListenFds, Die
<1> QED
  BY <1>1, <1>2, <1>3, <1>4, <1>5, <1>6, <1>7, <1>8, <1>9, <1>10, <1>11, <1>12,
     <1>13, <1>14, <1>15, <1>16, <1>17, <1>18, <1>19, <1>20, <1>21, <1>22,
     <1>23, <1>24, <1>25, <1>26
  DEF DaemonNext, Server, Loop, Environment, Terminated

\* Every step keeps the flag up while there are zombies.
LEMMA ZombieStep ==
    ASSUME StateTypes, NoZombieForgotten, [DaemonNext]_daemonVars
    PROVE  NoZombieForgotten'
<1> USE DEF StateTypes, NoZombieForgotten, Zombies, NoChild, Handling,
    Ended, daemonVars, flags, sockets, memory, Goto
<1>1. CASE Main
  BY <1>1 DEF Main, Die, InvalidOptions, BindAddresses, acquire_creds
<1>2. CASE Inetd
  BY <1>2 DEF Inetd
<1>3. CASE Bind
  BY <1>3 DEF Bind, BindActivated, network_bind_all, BindGiven,
     network_bind, Die
<1>4. CASE Listen
  BY <1>4 DEF Listen, Die
<1>5. CASE WritePidFile
  BY <1>5 DEF WritePidFile, Die
<1>6. CASE TestChild
  BY <1>6 DEF TestChild
<1>7. CASE Reap
  BY <1>7 DEF Reap, Zombies
<1>8. CASE TestConfig
  BY <1>8 DEF TestConfig
<1>9. CASE FreeConfig
  BY <1>9 DEF FreeConfig
<1>10. CASE LoadConfig
  BY <1>10 DEF LoadConfig, Die
<1>11. CASE TestExit
  BY <1>11 DEF TestExit
<1>12. CASE Interrupted
  BY <1>12 DEF Interrupted, Blocked
<1>13. CASE WaitAny
  BY <1>13 DEF WaitAny
<1>14. CASE Accept
  BY <1>14 DEF Accept, Die
<1>15. CASE Fork
  BY <1>15 DEF Fork, Idle
<1>16. CASE CloseConnection
  BY <1>16 DEF CloseConnection
<1>17. CASE Wake
  BY <1>17 DEF Wake
<1>18. CASE Cleanup
  BY <1>18 DEF Cleanup, Die
<1>19. CASE EditFile
  BY <1>19 DEF EditFile
<1>20. CASE SignalConfig
  BY <1>20 DEF SignalConfig, Interrupt, Blocked
<1>21. CASE SignalExit
  BY <1>21 DEF SignalExit, Interrupt, Blocked
<1>22. ASSUME NEW x \in Pids, ChildExit(x) PROVE NoZombieForgotten'
  BY <1>22 DEF ChildExit, Interrupt, Blocked
<1>23. ASSUME NEW x \in Sockets, Connect(x) PROVE NoZombieForgotten'
  BY <1>23 DEF Connect
<1>24. ASSUME NEW x \in Sockets, GiveUp(x) PROVE NoZombieForgotten'
  BY <1>24 DEF GiveUp
<1>25. CASE UNCHANGED daemonVars
  BY <1>25
<1>26. CASE ListenFds
  BY <1>26 DEF ListenFds, Die
<1> QED
  BY <1>1, <1>2, <1>3, <1>4, <1>5, <1>6, <1>7, <1>8, <1>9, <1>10, <1>11, <1>12,
     <1>13, <1>14, <1>15, <1>16, <1>17, <1>18, <1>19, <1>20, <1>21, <1>22,
     <1>23, <1>24, <1>25, <1>26
  DEF DaemonNext, Server, Loop, Environment, Terminated

\* Every step keeps the promise of a reload.
LEMMA ReloadStep ==
    ASSUME StateTypes, HupInv, ReloadNotLost, [DaemonNext]_daemonVars
    PROVE  HupInv' /\ ReloadNotLost'
<1> MaxQueue \in Nat /\ MaxFds \in Nat /\ MaxVersion \in Nat
  BY DaemonAssumption
<1> USE DEF StateTypes, HupInv, ReloadNotLost, NoConfig, Handling,
    Ended, daemonVars, flags, sockets, memory, Goto
<1>1. CASE Main
  BY <1>1 DEF Main, Die, InvalidOptions, BindAddresses, acquire_creds
<1>2. CASE Inetd
  BY <1>2 DEF Inetd
<1>3. CASE Bind
  BY <1>3 DEF Bind, BindActivated, network_bind_all, BindGiven,
     network_bind, Die
<1>4. CASE Listen
  BY <1>4 DEF Listen, Die
<1>5. CASE WritePidFile
  BY <1>5 DEF WritePidFile, Die
<1>6. CASE TestChild
  BY <1>6 DEF TestChild
<1>7. CASE Reap
  BY <1>7 DEF Reap, Zombies
<1>8. CASE TestConfig
  BY <1>8 DEF TestConfig
<1>9. CASE FreeConfig
  BY <1>9 DEF FreeConfig
<1>10. CASE LoadConfig
  BY <1>10 DEF LoadConfig, Die
<1>11. CASE TestExit
  BY <1>11 DEF TestExit
<1>12. CASE Interrupted
  BY <1>12 DEF Interrupted, Blocked
<1>13. CASE WaitAny
  BY <1>13 DEF WaitAny
<1>14. CASE Accept
  BY <1>14 DEF Accept, Die
<1>15. CASE Fork
  BY <1>15 DEF Fork, Idle
<1>16. CASE CloseConnection
  BY <1>16 DEF CloseConnection
<1>17. CASE Wake
  BY <1>17 DEF Wake
<1>18. CASE Cleanup
  BY <1>18 DEF Cleanup, Die
<1>19. CASE EditFile
  BY <1>19 DEF EditFile
<1>20. CASE SignalConfig
  BY <1>20 DEF SignalConfig, Interrupt, Blocked
<1>21. CASE SignalExit
  BY <1>21 DEF SignalExit, Interrupt, Blocked
<1>22. ASSUME NEW x \in Pids, ChildExit(x) PROVE HupInv' /\ ReloadNotLost'
  BY <1>22 DEF ChildExit, Interrupt, Blocked
<1>23. ASSUME NEW x \in Sockets, Connect(x) PROVE HupInv' /\ ReloadNotLost'
  BY <1>23 DEF Connect
<1>24. ASSUME NEW x \in Sockets, GiveUp(x) PROVE HupInv' /\ ReloadNotLost'
  BY <1>24 DEF GiveUp
<1>25. CASE UNCHANGED daemonVars
  BY <1>25
<1>26. CASE ListenFds
  BY <1>26 DEF ListenFds, Die
<1> QED
  BY <1>1, <1>2, <1>3, <1>4, <1>5, <1>6, <1>7, <1>8, <1>9, <1>10, <1>11, <1>12,
     <1>13, <1>14, <1>15, <1>16, <1>17, <1>18, <1>19, <1>20, <1>21, <1>22,
     <1>23, <1>24, <1>25, <1>26
  DEF DaemonNext, Server, Loop, Environment, Terminated

\* Every step keeps a configuration where one is needed.
LEMMA ConfigStep ==
    ASSUME StateTypes, ConfigInv, [DaemonNext]_daemonVars
    PROVE  ConfigInv'
<1> MaxQueue \in Nat /\ MaxFds \in Nat /\ MaxVersion \in Nat
  BY DaemonAssumption
<1> USE DEF StateTypes, ConfigInv, Unconfigured, NoConfig, NoChild,
    Handling, Ended, daemonVars, flags, sockets, memory, Goto
<1>1. CASE Main
  BY <1>1, MainEffect
<1>2. CASE Inetd
  BY <1>2 DEF Inetd
<1>3. CASE Bind
  BY <1>3 DEF Bind, BindActivated, network_bind_all, BindGiven,
     network_bind, Die
<1>4. CASE Listen
  BY <1>4 DEF Listen, Die
<1>5. CASE WritePidFile
  BY <1>5 DEF WritePidFile, Die
<1>6. CASE TestChild
  BY <1>6 DEF TestChild
<1>7. CASE Reap
  BY <1>7 DEF Reap, Zombies
<1>8. CASE TestConfig
  BY <1>8 DEF TestConfig
<1>9. CASE FreeConfig
  BY <1>9 DEF FreeConfig
<1>10. CASE LoadConfig
  BY <1>10 DEF LoadConfig, Die
<1>11. CASE TestExit
  BY <1>11 DEF TestExit
<1>12. CASE Interrupted
  BY <1>12 DEF Interrupted, Blocked
<1>13. CASE WaitAny
  BY <1>13 DEF WaitAny
<1>14. CASE Accept
  BY <1>14 DEF Accept, Die
<1>15. CASE Fork
  BY <1>15 DEF Fork, Idle
<1>16. CASE CloseConnection
  BY <1>16 DEF CloseConnection
<1>17. CASE Wake
  BY <1>17 DEF Wake
<1>18. CASE Cleanup
  BY <1>18 DEF Cleanup, Die
<1>19. CASE EditFile
  BY <1>19 DEF EditFile
<1>20. CASE SignalConfig
  BY <1>20 DEF SignalConfig, Interrupt, Blocked
<1>21. CASE SignalExit
  BY <1>21 DEF SignalExit, Interrupt, Blocked
<1>22. ASSUME NEW x \in Pids, ChildExit(x) PROVE ConfigInv'
  BY <1>22 DEF ChildExit, Interrupt, Blocked
<1>23. ASSUME NEW x \in Sockets, Connect(x) PROVE ConfigInv'
  BY <1>23 DEF Connect
<1>24. ASSUME NEW x \in Sockets, GiveUp(x) PROVE ConfigInv'
  BY <1>24 DEF GiveUp
<1>25. CASE UNCHANGED daemonVars
  BY <1>25
<1>26. CASE ListenFds
  BY <1>26 DEF ListenFds, Die
<1> QED
  BY <1>1, <1>2, <1>3, <1>4, <1>5, <1>6, <1>7, <1>8, <1>9, <1>10, <1>11, <1>12,
     <1>13, <1>14, <1>15, <1>16, <1>17, <1>18, <1>19, <1>20, <1>21, <1>22,
     <1>23, <1>24, <1>25, <1>26
  DEF DaemonNext, Server, Loop, Environment, Terminated

\* The server starts in a state of the invariant.
LEMMA DaemonInitInv == DaemonInit => DaemonInv
<1> SUFFICES ASSUME DaemonInit PROVE DaemonInv
  OBVIOUS
<1>1. FlagTypes
  BY Zenon DEF DaemonInit, FlagTypes
<1>2. StateTypes
  BY DaemonAssumption DEF DaemonInit, StateTypes, Child, NoChild, NoConfig,
     NoSocket
<1>3. HupInv /\ FdInv
  BY DEF DaemonInit, HupInv, FdInv, Holding, NoConfig
<1>4. ConfigInv
  BY DEF DaemonInit, ConfigInv, Unconfigured, NoChild
<1>5. NoZombieForgotten
  BY DEF DaemonInit, NoZombieForgotten, Zombies, NoChild
<1>6. ReloadNotLost
  BY DEF DaemonInit, ReloadNotLost, NoConfig
<1> QED
  BY <1>1, <1>2, <1>3, <1>4, <1>5, <1>6, TypeParts DEF DaemonInv

\* Every step of the server, its children and its surroundings keeps it.
LEMMA DaemonStep == DaemonInv /\ [DaemonNext]_daemonVars => DaemonInv'
<1> SUFFICES ASSUME DaemonInv, [DaemonNext]_daemonVars PROVE DaemonInv'
  OBVIOUS
<1>1. FlagTypes /\ StateTypes
  BY TypeParts DEF DaemonInv
<1>2. FlagTypes' /\ StateTypes'
  BY <1>1, FlagStep, StateStep DEF DaemonInv
<1>3. DaemonTypeOK'
  BY <1>2, Zenon DEF DaemonTypeOK, FlagTypes, StateTypes
<1> QED
  BY <1>1, <1>3, FdStep, ZombieStep, ReloadStep, ConfigStep DEF DaemonInv

\* The invariant holds in every state the daemon reaches.
LEMMA DaemonInvariance == DaemonSpec => []DaemonInv
BY DaemonInitInv, DaemonStep, PTL DEF DaemonSpec

-----------------------------------------------------------------------------
(* DaemonTypeOK for any number of sockets and children: select never       *)
(* returns a socket that is not bound, and no counter of main's loop       *)
(* leaves its range.                                                       *)
THEOREM DaemonTypes == DaemonSpec => []DaemonTypeOK
<1>1. DaemonInv => DaemonTypeOK
  BY DEF DaemonInv
<1> QED
  BY <1>1, DaemonInvariance, PTL

(* NoZombieForgotten for any number of children: however many exit at      *)
(* whatever points of the loop, child_signaled is set or the reaping loop  *)
(* is still running while one of them is a zombie.                         *)
THEOREM ChildrenReaped == DaemonSpec => []NoZombieForgotten
<1>1. DaemonInv => NoZombieForgotten
  BY DEF DaemonInv
<1> QED
  BY <1>1, DaemonInvariance, PTL

(* ReloadNotLost for any number of edits and signals: a SIGHUP leads to a  *)
(* configuration at least as recent as the file was when it arrived.       *)
THEOREM ReloadsHappen == DaemonSpec => []ReloadNotLost
<1>1. DaemonInv => ReloadNotLost
  BY DEF DaemonInv
<1> QED
  BY <1>1, DaemonInvariance, PTL

(* DescriptorsAccounted for any limit: the loop of server_daemon leaks the *)
(* descriptors of failed forks and no others.                              *)
THEOREM DescriptorsBalance == DaemonSpec => []DescriptorsAccounted
<1>1. DaemonInv => DescriptorsAccounted
  BY DEF DaemonInv, FdInv, DescriptorsAccounted, Holding, Ended
<1> QED
  BY <1>1, DaemonInvariance, PTL

(* Between server_config_free and server_config_load nothing uses the      *)
(* configuration: wherever the server accepts connections, and in every    *)
(* child that serves one, there is a configuration.                        *)
THEOREM ConfigPresent == DaemonSpec => []ConfigInv
<1>1. DaemonInv => ConfigInv
  BY DEF DaemonInv
<1> QED
  BY <1>1, DaemonInvariance, PTL
==============================================================================
