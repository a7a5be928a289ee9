--------------------------- MODULE Session_proofs ---------------------------
(***************************************************************************)
(* Proofs about Session, for every number of commands and connections,     *)
(* every size of a command and every limit of the server: the library      *)
(* keeps track of its descriptor, and what it returns answers the command  *)
(* the caller asked about.                                                 *)
(***************************************************************************)
EXTENDS Session, SequenceTheorems, TLAPS

\* Where a call can be, given the connection.
CallInv ==
    /\ pc \in {"command", "noop"} => fd # "invalid"
    /\ pc = "mic" => fd = "open" /\ protocol = 1
    /\ pc = "noop reply" => fd = "open" /\ protocol # 1
    /\ pc # "idle" => cur = 0
    /\ cur = 0 => seen = <<>>
    /\ fd = "closed" => cur = 0
    /\ fd = "open" => protocol = speaks
    /\ protocol = 1 => speaks = 1
    /\ pc \notin {"idle", "freed"} => calls # 0

\* Protocol 1: a connection carries the MIC and the result of one command,
\* the first that the server took.  Once its MIC was accepted the command is
\* the caller's, and the caller is idle until the result has been read.
Mic(c) == [type |-> "MIC", from |-> c]
Outcome(c) == [type |-> "RESULT", from |-> c]
AwaitsOutcome == pc = "idle" /\ cur # 0 /\ seen = <<>>

V1Quiet ==
    ~ready =>
        /\ link = "up" =>
              \/ toClient = <<>>
              \/ server.serving # {} /\ toClient = <<Mic(server.serving)>>
        /\ link # "up" =>
              \/ toClient = <<>>
              \/ \E c \in {toClient[1].from} :
                    \/ toClient = <<Mic(c)>> \/ toClient = <<Outcome(c)>>
                    \/ toClient = <<Mic(c), Outcome(c)>>

V1Ready ==
    ready =>
        /\ link = "up" =>
              toClient = <<>> /\ server.serving = {cur} /\ AwaitsOutcome
        /\ link # "up" =>
              toClient = <<>> \/ (toClient = <<Outcome({cur})>> /\ AwaitsOutcome)

V1Read ==
    /\ fd = "open" => output = Null /\ (cur # 0 => ready)
    /\ cur # 0 /\ output # Null /\ flaws = {} => status = {cur}

V1Link ==
    fd = "open" /\ flaws = {} =>
        /\ \A i \in 1..Len(toServer) : toServer[i].type = "COMMAND"
        /\ V1Quiet /\ V1Ready

V1Inv == protocol = 1 => V1Read /\ V1Link

\* What is left to be taken of a command, continued or not.
Remainder(s, continued) ==
    \A i \in 1..Len(s) :
        /\ s[i].type = "COMMAND" /\ s[i].cmd = cur
        /\ s[i].cont \in 0..3
        /\ s[i].cont \in {1, 2} <=> i < Len(s)
        /\ s[i].cont > 1 <=> (i > 1 \/ continued)

\* Protocol 2, nothing was asked: nothing is under way.
QuietInv ==
    ~ready /\ pc # "noop reply" =>
        /\ toClient = <<>>
        /\ link = "up" => toServer = <<>> /\ server = NewServer

\* One NOOP is under way, in one direction or the other.
NoopInv ==
    pc = "noop reply" =>
        /\ link = "up" => ~ready /\ server = NewServer
        /\ \/ toClient = <<>> /\ (link = "up" => toServer = <<Bare("NOOP")>>)
           \/ /\ Len(toClient) = 1 /\ (link = "up" => toServer = <<>>)
              /\ toClient[1].type \notin Answer

\* A command was sent.  The caller reads its results, and either the rest of
\* the command is on its way, or it is running, or its last result has been
\* sent.
Asked ==
    pc = "idle" /\ cur # 0 /\ \A i \in 1..Len(seen) : seen[i].type = "OUTPUT"

Answers ==
    \A i \in 1..Len(toClient) :
        /\ toClient[i].from = {cur} /\ toClient[i].type \in Answer
        /\ toClient[i].type \in Terminal => i = Len(toClient)

OnItsWay ==
    /\ toServer # <<>> /\ toClient = <<>>
    /\ server.serving = {} /\ server.gathered \subseteq {cur}
    /\ Remainder(toServer, server.continued)

Running ==
    /\ toServer = <<>> /\ server.serving = {cur}
    /\ \A i \in 1..Len(toClient) : toClient[i].type = "OUTPUT"

Answered ==
    /\ toServer = <<>> /\ server = NewServer
    /\ toClient # <<>> /\ toClient[Len(toClient)].type \in Terminal

ReadyInv ==
    ready /\ (link = "up" \/ toClient # <<>>) =>
        /\ Asked /\ Answers
        /\ link = "up" => OnItsWay \/ Running \/ Answered

V2Inv ==
    protocol # 1 /\ fd = "open" /\ flaws = {} /\ link # "expired" =>
        QuietInv /\ NoopInv /\ ReadyInv

\* A connection takes one attempt to open it, the number of a closed one in
\* r->fd another.
StrayInv ==
    /\ fd # "invalid" => opens > 0
    /\ fd = "closed" => opens > 1
    /\ stray => opens > 1

IInv == /\ TypeOK /\ OneHeld /\ StrayInv /\ CallInv /\ V1Inv /\ V2Inv
        /\ OwnAnswers

-----------------------------------------------------------------------------
(* Sequences *)

\* What is left of a sequence after its first element was taken.
LEMMA TailFacts ==
    ASSUME NEW S, NEW s \in Seq(S), s # <<>>
    PROVE  /\ Head(s) = s[1] /\ Head(s) \in S
           /\ Len(s) \in Nat /\ Len(s) > 0
           /\ Tail(s) \in Seq(S) /\ Len(Tail(s)) = Len(s) - 1
           /\ \A i \in 1..Len(Tail(s)) : Tail(s)[i] = s[i + 1]
  BY HeadTailProperties, EmptySeq

\* A sequence with one element more.
LEMMA AppendFacts ==
    ASSUME NEW S, NEW s \in Seq(S), NEW e \in S
    PROVE  /\ Append(s, e) \in Seq(S)
           /\ Len(s) \in Nat /\ Len(Append(s, e)) = Len(s) + 1
           /\ \A i \in 1..Len(s) : Append(s, e)[i] = s[i]
           /\ Append(s, e)[Len(s) + 1] = e
           /\ Append(s, e) # <<>>
  BY AppendProperties

-----------------------------------------------------------------------------
(* Types *)

\* The values that messages and results are made of have their types.
LEMMA Values ==
    /\ Null \in Result /\ Done \in Result
    /\ NewServer \in ServerState
    /\ \A t \in {"NOOP", "garbage"} : Bare(t) \in Message
    /\ \A c \in Nat, n \in Nat : Pieces(c, n) \in Seq(Message)
<1>1. Null \in Result /\ Done \in Result
  BY DEF Null, Done, Result
<1>2. NewServer \in ServerState
  BY DEF NewServer, ServerState
<1>3. \A t \in {"NOOP", "garbage"} : Bare(t) \in Message
  BY DEF Bare, Message
<1>4. \A c \in Nat, n \in Nat : Pieces(c, n) \in Seq(Message)
  <2> SUFFICES ASSUME NEW c \in Nat, NEW n \in Nat
               PROVE  Pieces(c, n) \in Seq(Message)
    OBVIOUS
  <2>1. Pieces(c, n) \in [1..n -> Message]
    BY DEF Pieces, Message
  <2> QED
    BY <2>1
<1> QED
  BY <1>1, <1>2, <1>3, <1>4

\* A send leaves a sequence of messages.
LEMMA TransmitType ==
    ASSUME TypeOK, NEW msgs \in Seq(Message), NEW k \in 0..Len(msgs),
           NEW cut \in BOOLEAN, Transmit(msgs, k, cut)
    PROVE  toServer' \in Seq(Message) /\ flaws' \in SUBSET Flaws
<1>1. SubSeq(msgs, 1, k) \in Seq(Message)
  BY SubSeqProperties
<1>2. (IF cut THEN <<Bare("garbage")>> ELSE <<>>) \in Seq(Message)
  BY Values
<1>3. toServer' \in Seq(Message)
  BY <1>1, <1>2, ConcatProperties DEF TypeOK, Transmit
<1>4. flaws' \in SUBSET Flaws
  BY DEF TypeOK, Transmit, Flaws
<1> QED
  BY <1>3, <1>4

\* The counter of open descriptors, for each thing that can happen to one.
LEMMA SameDescriptor ==
    ASSUME OneHeld, UNCHANGED <<fd, held>> PROVE OneHeld'
  BY DEF OneHeld

LEMMA LostDescriptor ==
    ASSUME OneHeld, fd = "open", LoseConnection PROVE OneHeld'
  BY DEF OneHeld, LoseConnection

LEMMA OpenedDescriptor ==
    ASSUME OneHeld, ConnectFails \/ NegotiationFails \/ Established
    PROVE  OneHeld'
  BY DEF OneHeld, ConnectFails, NegotiationFails, Established, Reset

LEMMA ClosedDescriptor == ASSUME OneHeld, Close PROVE OneHeld'
  BY DEF OneHeld, Close, Reset

\* Every way to open, to lose and to close a connection counts it right.
LEMMA DescriptorStep ==
    ASSUME OneHeld, CallInv, [Next]_vars
    PROVE  OneHeld'
<1>1. ASSUME NEW h \in BOOLEAN, Open(h) PROVE OneHeld'
  BY <1>1, OpenedDescriptor DEF Open
<1>2. ASSUME NEW call \in {"command", "noop"}, Begin(call)
      PROVE  OneHeld'
  BY <1>2, OpenedDescriptor, SameDescriptor DEF Begin, object
<1>3. CASE NoopFails
  BY <1>3, LostDescriptor, SameDescriptor DEF NoopFails, CallInv
<1>4. CASE OutputLost
  BY <1>4, LostDescriptor, SameDescriptor DEF OutputLost, Expecting
<1>5. CASE OutputTokenV1
  BY <1>5, LostDescriptor, SameDescriptor DEF OutputTokenV1, Expecting
<1>6. CASE SendStray \/ SendCommand \/ SendCommandV1 \/ ReceiveMic
  BY <1>6, SameDescriptor
     DEF SendStray, SendCommand, SendCommandV1, ReceiveMic, object
<1>7. CASE MicFails \/ NoopUnsupported \/ SendNoop \/ ReceiveNoop
  BY <1>7, SameDescriptor
     DEF MicFails, NoopUnsupported, SendNoop, ReceiveNoop, object
<1>8. CASE \/ OutputNoConnection \/ OutputDone \/ OutputToken
           \/ OutputExpired \/ OutputAgain \/ OutputInvalid
  BY <1>8, SameDescriptor
     DEF OutputNoConnection, OutputDone, OutputToken, OutputExpired,
         OutputAgain, OutputInvalid, object
<1>9. CASE ServerStep \/ LinkFails \/ UNCHANGED vars
  BY <1>9, SameDescriptor
     DEF ServerStep, TakeGarbage, TakeNoop, Refuse, Accept, AcceptV1, Takes,
         ServerOutput, ServerErrs, ServerFinish, ServerExpired, LinkFails, vars, object,
         caller
<1> QED
  BY <1>1, <1>2, <1>3, <1>4, <1>5, <1>6, <1>7, <1>8, <1>9, ClosedDescriptor
     DEF Next, ClientNext, Continue, Output, Freed

\* A step that connects counts the attempt.
LEMMA StrayOpened ==
    ASSUME StrayInv, opens \in Nat, opens' = opens + 1,
           ConnectFails \/ NegotiationFails \/ Established
    PROVE  StrayInv'
<1>1. opens' > 0 /\ (opens > 0 => opens' > 1) /\ (opens > 1 => opens' > 1)
  OBVIOUS
<1>2. stray' => stray \/ fd = "closed"
  BY Zenon DEF ConnectFails, NegotiationFails, Established, Reset
<1>3. fd' = "closed" => fd # "invalid"
  BY DEF ConnectFails, NegotiationFails, Established
<1> QED
  BY <1>1, <1>2, <1>3, Zenon DEF StrayInv

\* A step that leaves the descriptor alone or gives it up.
LEMMA StraySame ==
    ASSUME StrayInv, opens' = opens, fd' = fd \/ fd' = "invalid",
           stray' => stray \/ fd = "closed"
    PROVE  StrayInv'
  BY Zenon DEF StrayInv

\* A closed descriptor is met only after a second attempt to connect.
LEMMA StrayStep ==
    ASSUME TypeOK, StrayInv, [Next]_vars
    PROVE  StrayInv'
<1>0. opens \in Nat
  BY DEF TypeOK
<1>1. ASSUME NEW h \in BOOLEAN, Open(h) PROVE StrayInv'
  BY <1>0, <1>1, StrayOpened DEF Open
<1>2. ASSUME NEW call \in {"command", "noop"}, Begin(call)
      PROVE  StrayInv'
  <2>1. CASE UNCHANGED <<object, held, stray, opens, connection>>
    BY <2>1, StraySame, Zenon DEF object
  <2>2. CASE ~ UNCHANGED <<object, held, stray, opens, connection>>
    <3>1. opens' = opens + 1 /\ (ConnectFails \/ NegotiationFails \/ Established)
      BY <1>2, <2>2, Zenon DEF Begin
    <3> QED
      BY <1>0, <3>1, StrayOpened
  <2> QED
    BY <2>1, <2>2
<1>3. CASE Close
  BY <1>3, StraySame, Zenon DEF Close, Reset
<1>4. CASE SendStray
  <2>1. opens' = opens /\ fd' = fd /\ fd = "closed"
    BY <1>4 DEF SendStray, object
  <2> QED
    BY <2>1, StraySame, Zenon
<1>5. CASE Continue /\ ~SendStray
  <2>1. opens' = opens /\ stray' = stray /\ (fd' = fd \/ fd' = "invalid")
    <3>1. CASE SendCommand \/ SendCommandV1 \/ ReceiveMic \/ MicFails
      BY <3>1 DEF SendCommand, SendCommandV1, ReceiveMic, MicFails, object
    <3>2. CASE NoopUnsupported \/ SendNoop \/ ReceiveNoop \/ NoopFails
      BY <3>2 DEF NoopUnsupported, SendNoop, ReceiveNoop, NoopFails,
                  LoseConnection, object
    <3> QED
      BY <1>5, <3>1, <3>2 DEF Continue
  <2> QED
    BY <2>1, StraySame, Zenon
<1>6. CASE Output
  <2>1. opens' = opens /\ stray' = stray /\ (fd' = fd \/ fd' = "invalid")
    <3>1. CASE OutputLost \/ OutputTokenV1
      BY <3>1 DEF OutputLost, OutputTokenV1, LoseConnection, Return
    <3>2. CASE \/ OutputNoConnection \/ OutputDone \/ OutputToken
               \/ OutputExpired \/ OutputAgain \/ OutputInvalid
      BY <3>2
         DEF OutputNoConnection, OutputDone, OutputToken, OutputExpired,
             OutputAgain, OutputInvalid, Return, object
    <3> QED
      BY <1>6, <3>1, <3>2 DEF Output
  <2> QED
    BY <2>1, StraySame, Zenon
<1>7. CASE ServerStep \/ LinkFails \/ UNCHANGED vars
  <2>1. opens' = opens /\ stray' = stray /\ fd' = fd
    BY <1>7
       DEF ServerStep, TakeGarbage, TakeNoop, Refuse, Accept, AcceptV1, Takes,
           ServerOutput, ServerErrs, ServerFinish, ServerExpired, LinkFails, vars, object,
           caller
  <2> QED
    BY <2>1, StraySame, Zenon
<1> QED
  BY <1>1, <1>2, <1>3, <1>4, <1>5, <1>6, <1>7
     DEF Next, ClientNext, Freed

\* A new connection, or none.
LEMMA OpenType ==
    ASSUME TypeOK, ConnectFails \/ NegotiationFails \/ Established
    PROVE  /\ fd' \in {"invalid", "open", "closed"} /\ protocol' \in 0..2
           /\ output' \in Result
           /\ ready' \in BOOLEAN /\ stray' \in BOOLEAN
           /\ link' \in {"up", "closed", "expired"}
           /\ toServer' \in Seq(Message) /\ toClient' \in Seq(Reply)
           /\ flaws' \in SUBSET Flaws /\ server' \in ServerState
<1>1. stray' \in BOOLEAN
  BY Zenon DEF TypeOK, ConnectFails, NegotiationFails, Established, Reset
<1>2. output' \in Result
  BY Values DEF ConnectFails, NegotiationFails, Established, Reset
<1>3. CASE ConnectFails
  BY <1>1, <1>2, <1>3 DEF ConnectFails, TypeOK, connection
<1>n. Negotiated \in 0..2
  <2>1. protocol \in 0..2
    BY DEF TypeOK
  <2> QED
    BY <2>1 DEF Negotiated
<1>4. CASE NegotiationFails
  <2>0. protocol \in 0..2
    BY DEF TypeOK
  <2>a. protocol' = protocol \/ protocol' = 2 \/ protocol' = Negotiated
    BY <1>4 DEF NegotiationFails
  <2>1. protocol' \in 0..2
    BY <2>0, <2>a, <1>n
  <2> QED
    BY <1>1, <1>2, <1>4, <2>1 DEF NegotiationFails, TypeOK, connection
<1>5. CASE Established
  <2>1. protocol' \in 0..2
    BY <1>5, <1>n DEF Established
  <2>2. server' \in ServerState
    BY <1>5, Values DEF Established
  <2>3. flaws' \in SUBSET Flaws /\ ready' \in BOOLEAN
    BY <1>5 DEF Established
  <2>4. toServer' \in Seq(Message) /\ toClient' \in Seq(Reply)
    BY <1>5 DEF Established
  <2> QED
    BY <1>1, <1>2, <1>5, <2>1, <2>2, <2>3, <2>4 DEF Established
<1> QED
  BY <1>3, <1>4, <1>5

\* Every step keeps the types.
LEMMA TypeStep ==
    ASSUME TypeOK, OneHeld, CallInv, [Next]_vars
    PROVE  TypeOK'
<1>0. held' \in Nat
  BY DescriptorStep DEF OneHeld
<1>1. ASSUME NEW h \in BOOLEAN, Open(h) PROVE TypeOK'
  <2>1. /\ UNCHANGED <<pc, calls, status, timeout, speaks>>
        /\ host' \in BOOLEAN /\ opens' \in Nat
        /\ cur' \in Nat /\ seen' \in Seq(Result)
    BY <1>1 DEF Open, TypeOK, parties
  <2>2. ConnectFails \/ NegotiationFails \/ Established
    BY <1>1 DEF Open
  <2> QED
    BY <1>0, <2>1, <2>2, OpenType DEF TypeOK
<1>2. CASE Close
  <2>1. stray' \in BOOLEAN
    BY <1>2, Zenon DEF Close, Reset, TypeOK
  <2>2. /\ pc' = "freed" /\ fd' = "invalid" /\ output' = Null /\ cur' = 0
        /\ seen' = <<>>
        /\ UNCHANGED <<protocol, host, ready, status, calls, opens>>
        /\ UNCHANGED <<timeout, speaks, link, toServer, toClient>>
        /\ UNCHANGED <<flaws, server>>
    BY <1>2 DEF Close, Reset, parties, connection
  <2>3. output' \in Result /\ cur' \in Nat /\ seen' \in Seq(Result)
    BY <2>2, Values
  <2> QED
    BY <1>0, <2>1, <2>2, <2>3, ZenonT(60) DEF TypeOK
<1>3. ASSUME NEW call \in {"command", "noop"}, Begin(call)
      PROVE  TypeOK'
  <2>0. /\ calls' \in Nat /\ cur' \in Nat /\ seen' \in Seq(Result)
        /\ timeout' \in BOOLEAN /\ speaks' \in {1, 2}
    BY <1>3 DEF Begin, TypeOK, parties
  <2>1. CASE fd # "invalid" \/ ~host
    BY <1>0, <1>3, <2>0, <2>1
       DEF Begin, TypeOK, object, parties, connection
  <2>2. CASE fd = "invalid" /\ host
    <3>1. ConnectFails \/ NegotiationFails \/ Established
      BY <1>3, <2>2 DEF Begin
    <3>2. opens' \in Nat /\ host' = host /\ status' = status
          /\ pc' \in {call, pc}
      BY <1>3, <2>2 DEF Begin, TypeOK
    <3> QED
      BY <1>0, <2>0, <3>1, <3>2, OpenType DEF TypeOK
  <2> QED
    BY <2>1, <2>2
<1>4. CASE SendStray
  BY <1>0, <1>4 DEF SendStray, CallFails, TypeOK, object, parties,
              connection
<1>5. CASE SendCommand
  <2>1. PICK n \in Sizes, cut \in BOOLEAN : \E k \in 0..n :
          /\ Transmit(Pieces(calls, n), k, cut)
          /\ IF k = n THEN ready' = TRUE /\ cur' = calls
             ELSE UNCHANGED <<ready, cur>>
    BY <1>5 DEF SendCommand
  <2>2. PICK k \in 0..n :
          /\ Transmit(Pieces(calls, n), k, cut)
          /\ IF k = n THEN ready' = TRUE /\ cur' = calls
             ELSE UNCHANGED <<ready, cur>>
    BY <2>1
  <2>3. n \in Nat /\ calls \in Nat /\ Pieces(calls, n) \in Seq(Message)
    BY SizesAssumption, Values DEF TypeOK
  <2>4. Len(Pieces(calls, n)) = n
    BY <2>3 DEF Pieces
  <2>5. toServer' \in Seq(Message) /\ flaws' \in SUBSET Flaws
    BY <2>2, <2>3, <2>4, TransmitType
  <2> QED
    BY <1>0, <1>5, <2>2, <2>5 DEF SendCommand, TypeOK, parties
<1>6. CASE SendCommandV1
  <2>1. PICK cut \in BOOLEAN, k \in 0..1 :
          /\ Transmit(Pieces(calls, 1), k, cut)
          /\ pc' = IF k = 1 THEN "mic" ELSE "idle"
    BY <1>6 DEF SendCommandV1
  <2>2. Pieces(calls, 1) \in Seq(Message)
    BY Values DEF TypeOK
  <2>3. Len(Pieces(calls, 1)) = 1
    BY DEF Pieces
  <2>4. toServer' \in Seq(Message) /\ flaws' \in SUBSET Flaws
    BY <2>1, <2>2, <2>3, TransmitType
  <2> QED
    BY <1>0, <1>6, <2>1, <2>4
       DEF SendCommandV1, TypeOK, object, parties
<1>7. CASE SendNoop
  <2>1. PICK cut \in BOOLEAN, k \in 0..1 :
          /\ Transmit(<<Bare("NOOP")>>, k, cut)
          /\ pc' = IF k = 1 THEN "noop reply" ELSE "idle"
    BY <1>7 DEF SendNoop
  <2>2. <<Bare("NOOP")>> \in Seq(Message) /\ Len(<<Bare("NOOP")>>) = 1
    BY Values
  <2>3. toServer' \in Seq(Message) /\ flaws' \in SUBSET Flaws
    BY <2>1, <2>2, TransmitType
  <2> QED
    BY <1>0, <1>7, <2>1, <2>3 DEF SendNoop, TypeOK, object, parties
<1>8. CASE ReceiveMic
  <2>1. toClient' \in Seq(Reply)
    BY <1>8, TailFacts DEF ReceiveMic, TypeOK
  <2> QED
    BY <1>0, <1>8, <2>1 DEF ReceiveMic, TypeOK, parties
<1>9. CASE MicFails \/ NoopUnsupported
  BY <1>0, <1>9 DEF MicFails, NoopUnsupported, CallFails, TypeOK,
              object, parties, connection
<1>10. CASE ReceiveNoop
  <2>1. toClient' \in Seq(Reply)
    BY <1>10, TailFacts DEF ReceiveNoop, TypeOK
  <2> QED
    BY <1>0, <1>10, <2>1 DEF ReceiveNoop, CallFails, TypeOK, object,
                       parties
<1>11. CASE NoopFails
  BY <1>0, <1>11 DEF NoopFails, LoseConnection, CallFails, CallInv, TypeOK,
               parties, connection
<1>12. CASE OutputNoConnection \/ OutputInvalid
  <2>1. Return(Null)
    BY <1>12 DEF OutputNoConnection, OutputInvalid
  <2>2. seen' \in Seq(Result)
    BY <2>1, AppendFacts, Values DEF Return, TypeOK
  <2>3. /\ UNCHANGED <<fd, protocol, host, ready, output, status>>
        /\ UNCHANGED <<pc, held, stray, calls, opens, cur>>
        /\ UNCHANGED <<timeout, speaks, link, toServer, toClient>>
        /\ UNCHANGED <<flaws, server>>
    BY <1>12, <2>1 DEF OutputNoConnection, OutputInvalid, Return, object,
                       parties, connection
  <2> QED
    BY <2>2, <2>3, ZenonT(60) DEF TypeOK
<1>13. CASE OutputDone
  <2>1. seen' \in Seq(Result) /\ output' \in Result
    BY <1>13, AppendFacts, Values DEF OutputDone, Return, TypeOK
  <2> QED
    BY <1>0, <1>13, <2>1
       DEF OutputDone, Return, TypeOK, parties, connection
<1>14. CASE OutputToken
  <2>1. toClient' \in Seq(Reply) /\ Head(toClient) \in Reply
    BY <1>14, TailFacts DEF OutputToken, TypeOK
  <2>2. output' \in Result
    BY <1>14, <2>1, Values DEF OutputToken, Terminal, Reply, Result
  <2>3. seen' \in Seq(Result)
    <3>1. seen' = Append(seen, output') \/ seen' = Append(seen, Null)
      BY <1>14 DEF OutputToken, Return
    <3>2. seen \in Seq(Result)
      BY DEF TypeOK
    <3>3. CASE seen' = Append(seen, output')
      BY <2>2, <3>2, <3>3, AppendFacts
    <3>4. CASE seen' = Append(seen, Null)
      BY <3>2, <3>4, AppendFacts, Values
    <3> QED
      BY <3>1, <3>3, <3>4
  <2>4. ready' \in BOOLEAN
    BY <1>14, Zenon DEF OutputToken, TypeOK
  <2> QED
    BY <1>0, <1>14, <2>1, <2>2, <2>3, <2>4, ZenonT(60)
       DEF OutputToken, Return, TypeOK, parties
<1>15. CASE OutputExpired
  <2>1. toClient' \in Seq(Reply)
    BY <1>15, TailFacts DEF OutputExpired, TypeOK
  <2>2. seen' \in Seq(Result) /\ output' \in Result
    BY <1>15, AppendFacts, Values DEF OutputExpired, Return, TypeOK
  <2> QED
    BY <1>0, <1>15, <2>1, <2>2, ZenonT(60)
       DEF OutputExpired, Return, TypeOK, parties
<1>16. CASE OutputLost
  <2>1. seen' \in Seq(Result) /\ output' \in Result
    BY <1>16, AppendFacts, Values DEF OutputLost, Return, TypeOK
  <2>2. ready' \in BOOLEAN
    BY <1>16, Zenon DEF OutputLost, TypeOK
  <2> QED
    BY <1>0, <1>16, <2>1, <2>2
       DEF OutputLost, LoseConnection, Expecting, Return, TypeOK,
           parties, connection
<1>17. CASE OutputTokenV1
  <2>1. toClient' \in Seq(Reply) /\ Head(toClient) \in Reply
    BY <1>17, TailFacts DEF OutputTokenV1, TypeOK
  <2>2. output' \in Result /\ status' \in SUBSET Nat /\ ready' \in BOOLEAN
    <3>1. CASE Head(toClient).type = "RESULT"
      <4>1. Head(toClient).from \in SUBSET Nat
        BY <2>1 DEF Reply
      <4>2. /\ output' = [type |-> "OUTPUT", from |-> Head(toClient).from]
            /\ status' = Head(toClient).from /\ ready' = FALSE
        BY <1>17, <3>1 DEF OutputTokenV1
      <4>3. output' \in Result
        BY <4>1, <4>2 DEF Result
      <4> QED
        BY <4>1, <4>2, <4>3
    <3>2. CASE Head(toClient).type # "RESULT"
      BY <1>17, <3>2 DEF OutputTokenV1, TypeOK
    <3> QED
      BY <3>1, <3>2
  <2>3. seen' \in Seq(Result)
    <3>1. seen' = Append(seen, output') \/ seen' = Append(seen, Null)
      BY <1>17 DEF OutputTokenV1, Return
    <3>2. seen \in Seq(Result)
      BY DEF TypeOK
    <3>3. CASE seen' = Append(seen, output')
      BY <2>2, <3>2, <3>3, AppendFacts
    <3>4. CASE seen' = Append(seen, Null)
      BY <3>2, <3>4, AppendFacts, Values
    <3> QED
      BY <3>1, <3>3, <3>4
  <2> QED
    BY <1>0, <1>17, <2>1, <2>2, <2>3
       DEF OutputTokenV1, LoseConnection, Expecting, Return, TypeOK,
           parties
<1>18. CASE OutputAgain
  <2>1. output' \in Result
    BY <1>18, Values DEF OutputAgain, Result, TypeOK
  <2>2. seen' \in Seq(Result)
    BY <1>18, <2>1, AppendFacts DEF OutputAgain, Return, TypeOK
  <2> QED
    BY <1>0, <1>18, <2>1, <2>2, ZenonT(60)
       DEF OutputAgain, Return, TypeOK, parties, connection
<1>19. ASSUME NEW type \in {"COMMAND", "NOOP", "garbage"}, Takes(type)
       PROVE  /\ toServer' \in Seq(Message) /\ Head(toServer) \in Message
              /\ TypeOK' <=>
                    /\ link' \in {"up", "closed", "expired"}
                    /\ toClient' \in Seq(Reply) /\ flaws' \in SUBSET Flaws
                    /\ server' \in ServerState
  <2>1. toServer' \in Seq(Message) /\ Head(toServer) \in Message
    BY <1>19, TailFacts DEF Takes, TypeOK
  <2> QED
    BY <1>0, <1>19, <2>1 DEF Takes, TypeOK, object, caller, parties
<1>20. ASSUME NEW type \in {"OUTPUT", "STATUS", "ERROR", "NOOP", "VERSION",
                            "MIC", "RESULT"},
              NEW from \in SUBSET Nat, Send(type, from)
       PROVE  toClient' \in Seq(Reply)
  BY <1>20, AppendFacts DEF Send, Reply, TypeOK
<1>21. CASE TakeGarbage
  <2>1. toClient' \in Seq(Reply)
    BY <1>21, <1>20 DEF TakeGarbage, TypeOK
  <2> QED
    BY <1>0, <1>21, <1>19, <2>1 DEF TakeGarbage, TypeOK
<1>22. CASE TakeNoop
  <2>1. toClient' \in Seq(Reply)
    BY <1>22, <1>20 DEF TakeNoop
  <2> QED
    BY <1>0, <1>22, <1>19, <2>1 DEF TakeNoop, TypeOK
<1>23. CASE Refuse
  <2>1. Head(toServer) \in Message
    BY <1>23, <1>19 DEF Refuse
  <2>2. toClient' \in Seq(Reply)
    BY <1>23, <1>20, <2>1 DEF Refuse, Message
  <2>3. flaws' \in SUBSET Flaws
    BY <1>23 DEF Refuse, TypeOK, Flaws
  <2> QED
    BY <1>0, <1>23, <1>19, <2>2, <2>3, Values DEF Refuse, TypeOK
<1>24. CASE Accept
  <2>1. Head(toServer) \in Message
    BY <1>24, <1>19 DEF Accept
  <2>2. server.gathered \cup {Head(toServer).cmd} \in SUBSET Nat
    BY <2>1 DEF Message, ServerState, TypeOK
  <2>3. server' \in ServerState
    <3>1. server \in ServerState
      BY DEF TypeOK
    <3>2. CASE Head(toServer).cont \in {1, 2}
      <4> DEFINE all == server.gathered \cup {Head(toServer).cmd}
      <4>1. server' = [server EXCEPT !.gathered = all, !.continued = TRUE,
                                     !.pieces = server.pieces + 1]
        BY <1>24, <3>2 DEF Accept
      <4>2. all \in SUBSET Nat
        BY <2>2
      <4>3. server.pieces + 1 \in Nat
        BY <3>1 DEF ServerState
      <4> DEFINE more == server.pieces + 1
      <4>4. more \in Nat
        BY <4>3
      <4>5. server' = [server EXCEPT !.gathered = all, !.continued = TRUE,
                                     !.pieces = more]
        BY <4>1
      <4> HIDE DEF all, more
      <4> QED
        BY <3>1, <4>2, <4>4, <4>5 DEF ServerState
    <3>3. CASE Head(toServer).cont \notin {1, 2}
      BY <1>24, <2>2, <3>3 DEF Accept, NewServer, ServerState
    <3> QED
      BY <3>2, <3>3
  <2> QED
    BY <1>0, <1>24, <1>19, <2>3 DEF Accept, TypeOK
<1>25. CASE AcceptV1
  <2>1. Head(toServer) \in Message
    BY <1>25, <1>19 DEF AcceptV1
  <2>2. toClient' \in Seq(Reply)
    BY <1>25, <1>20, <2>1 DEF AcceptV1, Message
  <2>3. server' \in ServerState
    BY <1>25, <2>1 DEF AcceptV1, NewServer, ServerState, Message
  <2> QED
    BY <1>0, <1>25, <1>19, <2>2, <2>3 DEF AcceptV1, TypeOK
<1>26. CASE ServerOutput
  <2>1. toClient' \in Seq(Reply)
    BY <1>26, <1>20 DEF ServerOutput, ServerState, TypeOK
  <2>0. server \in ServerState
    BY DEF TypeOK
  <2>2. server' \in ServerState
    BY <1>26, <2>0 DEF ServerOutput, ServerState
  <2> QED
    BY <1>0, <1>26, <2>1, <2>2
       DEF ServerOutput, TypeOK, object, caller, parties
<1>27. CASE ServerFinish
  <2>1. toClient' \in Seq(Reply)
    BY <1>27, <1>20 DEF ServerFinish, Terminal, ServerState, TypeOK
  <2>2. link' \in {"up", "closed", "expired"}
    BY <1>27 DEF ServerFinish, TypeOK
  <2> QED
    BY <1>0, <1>27, <2>1, <2>2, Values
       DEF ServerFinish, TypeOK, object, caller, parties
<1>30. CASE ServerErrs
  <2>0. server \in ServerState
    BY DEF TypeOK
  <2>1. toClient' \in Seq(Reply)
    BY <1>30, <1>20, <2>0 DEF ServerErrs, ServerState
  <2>2. server' \in ServerState
    BY <1>30, <2>0 DEF ServerErrs, ServerState
  <2>3. flaws' \in SUBSET Flaws
    BY <1>30 DEF ServerErrs, TypeOK, Flaws
  <2>4. /\ UNCHANGED <<fd, protocol, host, ready, output, status>>
        /\ UNCHANGED <<pc, held, stray, calls, opens, cur, seen>>
        /\ UNCHANGED <<timeout, speaks, link, toServer>>
    BY <1>30 DEF ServerErrs, object, caller, parties
  <2> QED
    BY <2>1, <2>2, <2>3, <2>4, ZenonT(60) DEF TypeOK
<1>28. CASE ServerExpired \/ LinkFails
  <2>0. toClient \in Seq(Reply)
    BY DEF TypeOK
  <2>1. toClient' \in Seq(Reply)
    BY <1>28, <2>0, EmptySeq DEF ServerExpired, LinkFails
  <2>2. /\ UNCHANGED <<fd, protocol, host, ready, output, status>>
        /\ UNCHANGED <<pc, held, stray, calls, opens, cur, seen>>
        /\ UNCHANGED <<timeout, speaks, toServer, flaws, server>>
    BY <1>28 DEF ServerExpired, LinkFails, object, caller, parties
  <2>3. link' \in {"up", "closed", "expired"}
    BY <1>28 DEF ServerExpired, LinkFails
  <2> QED
    BY <2>1, <2>2, <2>3, ZenonT(60) DEF TypeOK
<1>29. CASE UNCHANGED vars
  <2>1. /\ UNCHANGED <<fd, protocol, host, ready, output, status>>
        /\ UNCHANGED <<pc, held, stray, calls, opens, cur, seen>>
        /\ UNCHANGED <<timeout, speaks, link, toServer, toClient>>
        /\ UNCHANGED <<flaws, server>>
    BY <1>29 DEF vars, object, caller, parties, connection
  <2> QED
    BY <2>1, ZenonT(60) DEF TypeOK
<1> QED
  BY <1>1, <1>2, <1>3, <1>4, <1>5, <1>6, <1>7, <1>8, <1>9, <1>10, <1>11,
     <1>12, <1>13, <1>14, <1>15, <1>16, <1>17, <1>18, <1>21, <1>22, <1>23,
     <1>24, <1>25, <1>26, <1>27, <1>28, <1>29, <1>30
     DEF Next, ClientNext, Continue, Output, ServerStep, Freed

-----------------------------------------------------------------------------
(* Where a call can be *)

\* The protocol of a new connection is the one of the server.
LEMMA OpenedProtocol ==
    ASSUME TypeOK, CallInv, ConnectFails \/ NegotiationFails \/ Established,
           UNCHANGED speaks
    PROVE  /\ fd' = "open" => protocol' = speaks
           /\ protocol' = 1 => speaks = 1
<1>0. protocol \in 0..2
  BY DEF TypeOK
<1>a. speaks \in {1, 2}
  BY DEF TypeOK
<1>1. protocol \in {0, 1, 2} /\ speaks \in {1, 2}
  BY <1>0, <1>a
<1>2. protocol = 1 => speaks = 1
  BY DEF CallInv
<1>3. Negotiated = speaks
  BY <1>1, <1>2 DEF Negotiated
<1>4. CASE ConnectFails
  BY <1>2, <1>4 DEF ConnectFails, Reset
<1>5. CASE NegotiationFails
  <2>1. protocol' = protocol \/ protocol' = 2 \/ protocol' = Negotiated
    BY <1>5 DEF NegotiationFails
  <2> QED
    BY <1>1, <1>2, <1>3, <1>5, <2>1 DEF NegotiationFails
<1>6. CASE Established
  BY <1>3, <1>6, <1>1 DEF Established
<1> QED
  BY <1>4, <1>5, <1>6

\* A call that has begun or has returned is where CallInv says.
LEMMA CallStep ==
    ASSUME TypeOK, CallInv, [Next]_vars
    PROVE  CallInv'
<1>1. ASSUME NEW h \in BOOLEAN, Open(h) PROVE CallInv'
  <2>1. UNCHANGED speaks
        /\ (ConnectFails \/ NegotiationFails \/ Established)
    BY <1>1 DEF Open, parties
  <2> QED
    BY <1>1, <2>1, OpenedProtocol DEF Open, CallInv
<1>2. CASE Close
  BY <1>2 DEF Close, CallInv, parties
<1>3. ASSUME NEW call \in {"command", "noop"}, Begin(call)
      PROVE  CallInv'
  <2>1. calls' # 0 /\ cur' = 0 /\ seen' = <<>> /\ pc = "idle"
        /\ UNCHANGED speaks
    BY <1>3 DEF Begin, TypeOK, parties
  <2>2. CASE fd # "invalid" \/ ~host
    BY <1>3, <2>1, <2>2 DEF Begin, CallInv, object
  <2>3. CASE fd = "invalid" /\ host
    <3>1. /\ ConnectFails \/ NegotiationFails \/ Established
          /\ pc' = "idle" \/ (pc' = call /\ Established)
      BY <1>3, <2>1, <2>3 DEF Begin
    <3>2. Established => fd' = "open"
      BY DEF Established
    <3> QED
      BY <2>1, <3>1, <3>2, OpenedProtocol DEF CallInv
  <2> QED
    BY <2>2, <2>3
<1>4. CASE SendStray \/ MicFails \/ NoopUnsupported \/ ReceiveNoop
  BY <1>4 DEF SendStray, MicFails, NoopUnsupported, ReceiveNoop, CallFails,
              CallInv, object, parties
<1>5. CASE SendCommand
  BY <1>5 DEF SendCommand, CallInv, parties
<1>6. CASE SendCommandV1 \/ SendNoop
  BY <1>6 DEF SendCommandV1, SendNoop, CallInv, object, parties
<1>7. CASE ReceiveMic
  BY <1>7 DEF ReceiveMic, CallInv, parties
<1>8. CASE NoopFails
  BY <1>8 DEF NoopFails, CallFails, LoseConnection, CallInv, parties
<1>9. CASE OutputNoConnection \/ OutputDone \/ OutputToken
  BY <1>9 DEF OutputNoConnection, OutputDone, OutputToken, Expecting, Reading,
              Return, CallInv, object, parties
<1>10. CASE OutputExpired \/ OutputAgain \/ OutputInvalid
  BY <1>10 DEF OutputExpired, OutputAgain, OutputInvalid, Expecting, Reading,
               Return, CallInv, object, parties
<1>11. CASE OutputLost
  BY <1>11 DEF OutputLost, LoseConnection, Expecting, Reading, Return, CallInv,
               parties
<1>12. CASE OutputTokenV1
  BY <1>12 DEF OutputTokenV1, LoseConnection, Expecting, Reading, Return,
               CallInv, parties
<1>13. CASE ServerStep \/ LinkFails \/ UNCHANGED vars
  BY <1>13
     DEF ServerStep, TakeGarbage, TakeNoop, Refuse, Accept, AcceptV1, Takes,
         ServerOutput, ServerErrs, ServerFinish, ServerExpired, LinkFails, vars, object,
         caller, parties, CallInv
<1> QED
  BY <1>1, <1>2, <1>3, <1>4, <1>5, <1>6, <1>7, <1>8, <1>9, <1>10, <1>11,
     <1>12, <1>13
     DEF Next, ClientNext, Continue, Output, Freed

-----------------------------------------------------------------------------
(* Messages *)

\* A sequence of two messages.
LEMMA AppendOne ==
    ASSUME NEW a, NEW b PROVE Append(<<a>>, b) = <<a, b>>
<1> DEFINE S == {a, b}  x == <<a>>  y == Append(x, b)  z == <<a, b>>
<1>1. x \in Seq(S) /\ b \in S /\ Len(x) = 1 /\ x[1] = a
  OBVIOUS
<1>2. z \in Seq(S) /\ Len(z) = 2 /\ z[1] = a /\ z[2] = b
  OBVIOUS
<1> HIDE DEF S, x, z
<1>3. y \in Seq(S) /\ Len(y) = Len(x) + 1
  BY <1>1, AppendFacts
<1>4. y[Len(x) + 1] = b
  BY <1>1, AppendFacts
<1>5. \A i \in 1..Len(x) : y[i] = x[i]
  BY <1>1, AppendFacts, ZenonT(60)
<1> HIDE DEF y
<1>6. Len(y) = 2 /\ y[1] = a /\ y[2] = b
  BY <1>1, <1>3, <1>4, <1>5
<1>7. \A i \in 1..Len(y) : y[i] = z[i]
  BY <1>2, <1>6
<1>8. y = z
  BY <1>2, <1>3, <1>6, <1>7, SeqEqual
<1> QED
  BY <1>8 DEF x, y, z

\* Short sequences.
LEMMA Tuples ==
    ASSUME NEW a, NEW b
    PROVE  /\ Append(<<>>, a) = <<a>> /\ Append(<<a>>, b) = <<a, b>>
           /\ Tail(<<a>>) = <<>> /\ Tail(<<a, b>>) = <<b>>
           /\ Head(<<a>>) = a /\ Head(<<a, b>>) = a
           /\ <<a>>[1] = a /\ <<a, b>>[1] = a
           /\ <<a>> # <<>> /\ <<a, b>> # <<>>
<1>1. <<a>> \in Seq({a, b}) /\ <<a, b>> \in Seq({a, b})
      /\ <<b>> \in Seq({a, b}) /\ <<>> \in Seq({a, b})
  OBVIOUS
<1>2. Len(<<a>>) = 1 /\ Len(<<b>>) = 1 /\ Len(<<a, b>>) = 2
      /\ <<a>>[1] = a /\ <<a, b>>[1] = a /\ <<a, b>>[2] = b /\ <<b>>[1] = b
  OBVIOUS
<1>3. <<a>> # <<>> /\ <<a, b>> # <<>>
  BY <1>2
<1>4. Head(<<a>>) = a /\ Head(<<a, b>>) = a
  BY <1>1, <1>2, <1>3, TailFacts
<1>5. Append(<<>>, a) = <<a>>
  OBVIOUS
<1>6. Append(<<a>>, b) = <<a, b>>
  BY AppendOne
<1>7. Tail(<<a>>) = <<>>
  BY <1>1, <1>2, <1>3, TailFacts, EmptySeq
<1>8. Tail(<<a, b>>) = <<b>>
  <2>1. /\ Tail(<<a, b>>) \in Seq({a, b}) /\ Len(Tail(<<a, b>>)) = 1
        /\ Tail(<<a, b>>)[1] = b
    BY <1>1, <1>2, <1>3, TailFacts
  <2> QED
    BY <1>1, <1>2, <2>1, SeqEqual
<1> QED
  BY <1>2, <1>3, <1>4, <1>5, <1>6, <1>7, <1>8

\* A send that does not tear a command is a whole one, or none.
LEMMA WholeSend ==
    ASSUME TypeOK, NEW msgs \in Seq(Message), NEW k \in 0..Len(msgs),
           NEW cut \in BOOLEAN, Transmit(msgs, k, cut), flaws' = {}
    PROVE  /\ flaws = {}
           /\ link # "up" => toServer' = toServer
           /\ link = "up" => \/ k = Len(msgs) /\ toServer' = toServer \o msgs
                             \/ k # Len(msgs) /\ toServer' = toServer
<1>l. Len(msgs) \in Nat
  BY LenProperties
<1>s. toServer \in Seq(Message)
  BY DEF TypeOK
<1>0. toServer \in Seq(Message) /\ Len(msgs) \in Nat
  BY <1>l, <1>s
<1>t. flaws = {} /\ ~(k < Len(msgs) /\ (k > 0 \/ cut)) /\ (cut => k < Len(msgs))
  BY Zenon DEF Transmit
<1>1. flaws = {} /\ (k = Len(msgs) \/ (k = 0 /\ ~cut)) /\ (cut => k < Len(msgs))
  BY <1>0, <1>t
<1>2. link # "up" => toServer' = toServer
  BY DEF Transmit
<1>3. ASSUME link = "up", k = Len(msgs) PROVE toServer' = toServer \o msgs
  <2>1. SubSeq(msgs, 1, k) = msgs
    BY <1>3, <1>0, SubSeqProperties, SeqEqual
  <2>2. ~cut
    BY <1>0, <1>1, <1>3
  <2>3. toServer' = toServer \o msgs \o <<>>
    BY <1>3, <2>1, <2>2 DEF Transmit
  <2>4. toServer \o msgs \in Seq(Message)
    BY <1>0, ConcatProperties
  <2> QED
    BY <2>3, <2>4, ConcatEmptySeq
<1>4. ASSUME link = "up", k # Len(msgs) PROVE toServer' = toServer
  <2>1. SubSeq(msgs, 1, k) = <<>> /\ ~cut
    BY <1>4, <1>1, <1>0, SubSeqProperties, EmptySeq
  <2>2. toServer' = toServer \o <<>> \o <<>>
    BY <1>4, <2>1 DEF Transmit
  <2> QED
    BY <1>0, <2>2, ConcatEmptySeq
<1>5. link = "up" => \/ k = Len(msgs) /\ toServer' = toServer \o msgs
                     \/ k # Len(msgs) /\ toServer' = toServer
  BY <1>3, <1>4
<1> QED
  BY <1>1, <1>2, <1>5

\* Only a new connection makes up for a command that the server got in part
\* or answered twice.
LEMMA TornStep ==
    ASSUME TypeOK, [Next]_vars, flaws' = {}, flaws # {}
    PROVE  Established /\ cur' = 0 /\ seen' = <<>>
<1>1. ASSUME NEW h \in BOOLEAN, Open(h) 
      PROVE  Established /\ cur' = 0 /\ seen' = <<>>
  BY <1>1 DEF Open, ConnectFails, NegotiationFails, connection
<1>2. ASSUME NEW call \in {"command", "noop"}, Begin(call)
      PROVE  Established /\ cur' = 0 /\ seen' = <<>>
  BY <1>2 DEF Begin, ConnectFails, NegotiationFails, connection
<1>3. CASE Close
  BY <1>3 DEF Close, connection
<1>4. CASE Continue
  BY <1>4 DEF Continue, SendStray, SendCommand, SendCommandV1, ReceiveMic,
              MicFails, NoopUnsupported, SendNoop, ReceiveNoop, NoopFails,
              Transmit, connection
<1>5. CASE Output
  BY <1>5 DEF Output, OutputNoConnection, OutputDone, OutputToken,
              OutputExpired, OutputLost, OutputTokenV1, OutputAgain,
              OutputInvalid, connection
<1>6. CASE ServerStep
  BY <1>6 DEF ServerStep, TakeGarbage, TakeNoop, Refuse, Accept, AcceptV1,
              ServerOutput, ServerErrs, ServerFinish, ServerExpired
<1>7. CASE LinkFails \/ Freed \/ UNCHANGED vars
  BY <1>7 DEF LinkFails, Freed, vars, connection
<1> QED
  BY <1>1, <1>2, <1>3, <1>4, <1>5, <1>6, <1>7 DEF Next, ClientNext

-----------------------------------------------------------------------------
(* Protocol 1 *)

\* A new connection carries nothing.
LEMMA V1Opened ==
    ASSUME Established, cur' = 0
    PROVE  V1Inv'
  BY DEF Established, V1Inv, V1Read, V1Link, V1Quiet, V1Ready

\* Without a connection there is nothing on it.
LEMMA V1Closed ==
    ASSUME fd' # "open", cur' = 0
    PROVE  V1Inv'
  BY DEF V1Inv, V1Read, V1Link

\* While a call is under way no result is awaited.
LEMMA V1Called ==
    ASSUME V1Inv, pc # "idle",
           UNCHANGED <<fd, protocol, output, ready, status, cur, link,
                       toServer, toClient, flaws, server>>
    PROVE  V1Inv'
  BY DEF V1Inv, V1Read, V1Link, V1Quiet, V1Ready, AwaitsOutcome, Mic, Outcome

\* The calls that open a connection, or use the one there is.
LEMMA V1Calls ==
    ASSUME TypeOK, CallInv, V1Inv,
           (\E h \in BOOLEAN : Open(h)) \/ Close
           \/ Begin("command") \/ Begin("noop")
    PROVE  V1Inv'
<1>1. ASSUME NEW h \in BOOLEAN, Open(h) PROVE V1Inv'
  <2>1. cur' = 0 /\ (fd' # "open" \/ Established)
    BY <1>1 DEF Open, ConnectFails, NegotiationFails
  <2> QED
    BY <2>1, V1Opened, V1Closed
<1>2. CASE Close
  BY <1>2, V1Closed DEF Close
<1>3. ASSUME NEW call \in {"command", "noop"}, Begin(call)
      PROVE  V1Inv'
  <2>1. cur' = 0 /\ pc = "idle" /\ Drained
    BY <1>3 DEF Begin
  <2>2. CASE fd = "open"
    <3>1. UNCHANGED <<fd, protocol, output, ready, status, link, toServer,
                      toClient, flaws, server>>
      BY <1>3, <2>2 DEF Begin, object, connection
    <3>2. ~AwaitsOutcome
      BY <2>1 DEF Drained, AwaitsOutcome
    <3> QED
      BY <2>1, <3>1, <3>2
         DEF V1Inv, V1Read, V1Link, V1Quiet, V1Ready, Mic, Outcome
  <2>3. CASE fd # "open"
    <3>1. Established \/ fd' # "open"
      BY <1>3, <2>3 DEF Begin, ConnectFails, NegotiationFails, object
    <3> QED
      BY <2>1, <3>1, V1Opened, V1Closed
  <2> QED
    BY <2>2, <2>3
<1> QED
  BY <1>1, <1>2, <1>3

\* The rest of a call.
LEMMA V1Continue ==
    ASSUME TypeOK, CallInv, V1Inv, Continue
    PROVE  V1Inv'
<1>1. CASE SendStray \/ MicFails \/ NoopUnsupported
  BY <1>1, V1Called
     DEF SendStray, MicFails, NoopUnsupported, CallFails, object, connection
<1>2. CASE SendCommand
  BY <1>2 DEF SendCommand, V1Inv
<1>3. CASE SendNoop \/ ReceiveNoop \/ NoopFails
  BY <1>3 DEF SendNoop, ReceiveNoop, NoopFails, CallInv, V1Inv, object
<1>4. CASE SendCommandV1
  <2>1. V1Read'
    BY <1>4 DEF SendCommandV1, Transmit, CallInv, V1Inv, V1Read, object
  <2>2. ASSUME flaws' = {} PROVE V1Link'
    <3>1. PICK cut \in BOOLEAN, k \in 0..1 :
            Transmit(Pieces(calls, 1), k, cut)
      BY <1>4 DEF SendCommandV1
    <3>2. Pieces(calls, 1) \in Seq(Message)
      BY Values DEF TypeOK
    <3>3. /\ Len(Pieces(calls, 1)) = 1
          /\ \A i \in 1..1 : Pieces(calls, 1)[i].type = "COMMAND"
      BY DEF Pieces
    <3>4. flaws = {} /\ (toServer' = toServer
                    \/ toServer' = toServer \o Pieces(calls, 1))
      BY <2>2, <3>1, <3>2, <3>3, WholeSend
    <3>5. /\ pc = "command" /\ fd = "open" /\ protocol = 1
          /\ UNCHANGED <<fd, ready, cur, seen, link, toClient, server>>
      BY <1>4 DEF SendCommandV1, object
    <3>6. /\ \A i \in 1..Len(toServer) : toServer[i].type = "COMMAND"
          /\ V1Quiet /\ V1Ready
      BY <3>4, <3>5 DEF V1Inv, V1Link
    <3>7. \A i \in 1..Len(toServer') : toServer'[i].type = "COMMAND"
      <4>1. toServer \in Seq(Message)
        BY DEF TypeOK
      <4>2. CASE toServer' = toServer
        BY <3>6, <4>2
      <4>3. CASE toServer' = toServer \o Pieces(calls, 1)
        BY <3>2, <3>3, <3>6, <4>1, <4>3, ConcatProperties
      <4> QED
        BY <3>4, <4>2, <4>3
    <3>8. V1Quiet' /\ V1Ready'
      BY <3>5, <3>6 DEF V1Quiet, V1Ready, AwaitsOutcome, Mic, Outcome
    <3> QED
      BY <3>7, <3>8 DEF V1Link
  <2> QED
    BY <2>1, <2>2 DEF V1Inv, V1Link
<1>5. CASE ReceiveMic
  <2>1. /\ pc = "mic" /\ pc' = "idle" /\ toClient # <<>>
        /\ toClient' = Tail(toClient)
        /\ UNCHANGED <<fd, protocol, output, status, seen, link, toServer,
                       flaws, server>>
    BY <1>5 DEF ReceiveMic
  <2>2. fd = "open" /\ protocol = 1 /\ cur = 0 /\ seen = <<>> /\ calls # 0
    BY <2>1 DEF CallInv
  <2>3. V1Read /\ V1Link
    BY <2>2 DEF V1Inv
  <2>4. V1Read'
    BY <1>5, <2>1, <2>2, <2>3 DEF ReceiveMic, V1Read
  <2>5. ASSUME flaws = {} PROVE V1Quiet' /\ V1Ready'
    <3>1. V1Quiet /\ V1Ready
      BY <2>2, <2>3, <2>5 DEF V1Link
    <3>2. ~ready
      BY <2>1, <3>1 DEF V1Ready, AwaitsOutcome
    <3>3. PICK c \in SUBSET Nat :
            \/ toClient = <<Mic(c)>> /\ (link = "up" => server.serving = c)
            \/ toClient = <<Outcome(c)>> /\ link # "up"
            \/ toClient = <<Mic(c), Outcome(c)>> /\ link # "up"
      <4>1. CASE link = "up"
        <5>1. server.serving \in SUBSET Nat
          BY DEF TypeOK, ServerState
        <5> QED
          BY <2>1, <3>1, <3>2, <4>1, <5>1 DEF V1Quiet
      <4>2. CASE link # "up"
        <5>1. toClient[1] \in Reply
          BY <2>1, TailFacts DEF TypeOK
        <5>2. toClient[1].from \in SUBSET Nat
          BY <5>1 DEF Reply
        <5> QED
          BY <2>1, <3>1, <3>2, <4>2, <5>2 DEF V1Quiet
      <4> QED
        BY <4>1, <4>2
    <3>4. Mic(c).type = "MIC" /\ Outcome(c).type = "RESULT"
          /\ Mic(c).from = c /\ Outcome(c).from = c
      BY DEF Mic, Outcome
    <3>5. CASE link # "expired" /\ Head(toClient) = Mic({calls})
      <4>1. ready' /\ cur' = calls
        BY <1>5, <3>5 DEF ReceiveMic, Mic
      <4>2. c = {calls} /\ (toClient = <<Mic(c)>>
                            \/ toClient = <<Mic(c), Outcome(c)>>)
        <5>1. Head(toClient) = Mic(c) \/ Head(toClient) = Outcome(c)
          BY <3>3, Tuples
        <5>2. Mic({calls}).type = "MIC" /\ Mic({calls}).from = {calls}
          BY DEF Mic
        <5> QED
          BY <3>3, <3>4, <3>5, <5>1, <5>2, Tuples
      <4>3. toClient' = <<>> \/ (toClient' = <<Outcome(c)>> /\ link # "up")
        <5>1. CASE toClient = <<Mic(c)>>
          BY <2>1, <5>1, Tuples
        <5>2. CASE toClient = <<Mic(c), Outcome(c)>>
          <6>1. link # "up"
            BY <3>3, <5>2, Tuples
          <6> QED
            BY <2>1, <5>2, <6>1, Tuples
        <5> QED
          BY <4>2, <5>1, <5>2
      <4>4. AwaitsOutcome'
        BY <2>1, <2>2, <4>1 DEF AwaitsOutcome
      <4>5. link = "up" => server.serving = c
        BY <3>3
      <4> QED
        BY <2>1, <4>1, <4>2, <4>3, <4>4, <4>5 DEF V1Quiet, V1Ready, Outcome
    <3>6. CASE ~(link # "expired" /\ Head(toClient) = Mic({calls}))
      <4>1. ~ready' /\ cur' = cur
        BY <1>5, <3>2, <3>6 DEF ReceiveMic, Mic
      <4>2. toClient' = <<>> \/ (toClient' = <<Outcome(c)>> /\ link # "up")
        <5>1. CASE toClient = <<Mic(c)>> \/ toClient = <<Outcome(c)>>
          BY <2>1, <5>1, Tuples
        <5>2. CASE toClient = <<Mic(c), Outcome(c)>> /\ link # "up"
          BY <2>1, <5>2, Tuples
        <5> QED
          BY <3>3, <5>1, <5>2
      <4>3. <<Outcome(c)>>[1].from = c
        BY <3>4
      <4> QED
        BY <2>1, <4>1, <4>2, <4>3 DEF V1Quiet, V1Ready, Outcome
    <3> QED
      BY <3>5, <3>6
  <2> QED
    BY <2>1, <2>2, <2>3, <2>4, <2>5 DEF V1Inv, V1Link
<1> QED
  BY <1>1, <1>2, <1>3, <1>4, <1>5 DEF Continue

\* What there is to read on a connection is the result of the command.
LEMMA V1Expects ==
    ASSUME TypeOK, V1Inv, protocol = 1, Expecting, flaws = {}
    PROVE  /\ ready
           /\ toClient # <<>> =>
                 link # "up" /\ toClient = <<Outcome({cur})>>
<1>1. fd = "open" /\ cur # 0
  BY DEF Expecting, Reading
<1>2. ready /\ V1Ready
  BY <1>1 DEF V1Inv, V1Read, V1Link
<1> QED
  BY <1>2 DEF V1Ready

LEMMA V1Output ==
    ASSUME TypeOK, CallInv, V1Inv, Output
    PROVE  V1Inv'
<1>1. CASE OutputDone \/ OutputToken
  BY <1>1 DEF OutputDone, OutputToken, V1Inv
<1>2. CASE OutputNoConnection \/ OutputInvalid
  BY <1>2 DEF OutputNoConnection, OutputInvalid, Return, object, connection,
              V1Inv, V1Read, V1Link
<1>3. CASE OutputLost
  <2>1. /\ UNCHANGED <<protocol, status, cur, link, toServer, toClient, flaws,
                       server>>
        /\ fd = "open" /\ (protocol = 1 => output' = output)
    BY <1>3 DEF OutputLost, Expecting, Return, connection
  <2>2. CASE LoseConnection
    BY <2>1, <2>2 DEF LoseConnection, V1Inv, V1Read, V1Link
  <2>3. CASE Gone /\ UNCHANGED <<fd, held, ready>>
    <3>1. V1Quiet' /\ V1Ready'
      BY <2>1, <2>3 DEF Gone, V1Quiet, V1Ready
    <3> QED
      BY <2>1, <2>3, <3>1 DEF V1Inv, V1Read, V1Link
  <2> QED
    BY <1>3, <2>2, <2>3 DEF OutputLost
<1>4. CASE OutputAgain
  BY <1>4 DEF OutputAgain, Return, connection, V1Inv, V1Read, V1Link
<1>5. CASE OutputExpired
  <2>1. /\ UNCHANGED <<fd, protocol, ready, status, cur, link, toServer, flaws,
                       server>>
        /\ Expecting /\ link = "expired" /\ toClient # <<>>
        /\ toClient' = Tail(toClient) /\ (protocol = 1 => output' = output)
    BY <1>5 DEF OutputExpired, Return
  <2>2. ASSUME protocol = 1 PROVE V1Read'
    BY <2>1, <2>2 DEF V1Inv, V1Read
  <2>3. ASSUME protocol = 1, flaws = {} PROVE V1Link'
    <3>1. ready /\ toClient = <<Outcome({cur})>>
      BY <2>1, <2>3, V1Expects
    <3>2. toClient' = <<>>
      BY <2>1, <3>1, Tuples
    <3>3. \A i \in 1..Len(toServer) : toServer[i].type = "COMMAND"
      BY <2>1, <2>3 DEF V1Inv, V1Link, Expecting
    <3> QED
      BY <2>1, <3>1, <3>2, <3>3 DEF V1Link, V1Quiet, V1Ready
  <2> QED
    BY <2>1, <2>2, <2>3 DEF V1Inv, V1Link
<1>6. CASE OutputTokenV1
  <2>1. /\ protocol = 1 /\ Expecting /\ toClient # <<>>
        /\ UNCHANGED <<protocol, cur, link, toServer, flaws, server>>
    BY <1>6 DEF OutputTokenV1, Return
  <2>2. CASE Head(toClient).type = "RESULT"
    <3>1. fd' = "invalid" /\ status' = Head(toClient).from
      BY <1>6, <2>2 DEF OutputTokenV1, LoseConnection
    <3>2. ASSUME flaws = {} PROVE status' = {cur}
      <4>1. toClient = <<Outcome({cur})>>
        BY <2>1, <3>2, V1Expects
      <4>2. Head(toClient) = Outcome({cur})
        BY <4>1, Tuples
      <4> QED
        BY <3>1, <4>2 DEF Outcome
    <3> QED
      BY <2>1, <3>1, <3>2 DEF V1Inv, V1Read, V1Link
  <2>3. CASE Head(toClient).type # "RESULT"
    <3>1. UNCHANGED <<fd, output, status, ready>>
      BY <1>6, <2>3 DEF OutputTokenV1
    <3>2. flaws # {}
      <4> SUFFICES ASSUME flaws = {} PROVE FALSE
        OBVIOUS
      <4>1. toClient = <<Outcome({cur})>>
        BY <2>1, V1Expects
      <4>2. Head(toClient) = Outcome({cur})
        BY <4>1, Tuples
      <4> QED
        BY <2>3, <4>2 DEF Outcome
    <3> QED
      BY <2>1, <3>1, <3>2 DEF V1Inv, V1Read, V1Link
  <2> QED
    BY <2>2, <2>3
<1> QED
  BY <1>1, <1>2, <1>3, <1>4, <1>5, <1>6 DEF Output

\* The server and the network.
LEMMA V1Server ==
    ASSUME TypeOK, CallInv, V1Inv, ServerStep \/ LinkFails
    PROVE  V1Inv'
<1>0. UNCHANGED <<fd, protocol, output, ready, status, pc, cur, seen>>
  BY DEF ServerStep, TakeGarbage, TakeNoop, Refuse, Accept, AcceptV1, Takes,
         ServerOutput, ServerErrs, ServerFinish, ServerExpired, LinkFails, object, caller
<1>1. flaws # {} => flaws' # {}
  BY DEF ServerStep, TakeGarbage, TakeNoop, Refuse, Accept, AcceptV1,
         ServerOutput, ServerErrs, ServerFinish, ServerExpired, LinkFails
<1>2. protocol = 1 => V1Read'
  BY <1>0, <1>1 DEF V1Inv, V1Read
<1> SUFFICES ASSUME protocol = 1, fd = "open", flaws = {}, flaws' = {} PROVE V1Link'
  BY <1>0, <1>1, <1>2 DEF V1Inv, V1Link
<1>3. /\ \A i \in 1..Len(toServer) : toServer[i].type = "COMMAND"
      /\ V1Quiet /\ V1Ready /\ speaks = 1
  BY DEF V1Inv, V1Link, CallInv
<1>4. ASSUME NEW type, Takes(type)
      PROVE  /\ type = "COMMAND" /\ server.serving = {} /\ link = "up"
             /\ ~ready /\ toClient = <<>>
             /\ \A i \in 1..Len(toServer') : toServer'[i].type = "COMMAND"
  <2>1. /\ link = "up" /\ server.serving = {} /\ toServer # <<>>
        /\ Head(toServer).type = type /\ toServer' = Tail(toServer)
    BY <1>4 DEF Takes
  <2>2. toServer \in Seq(Message)
    BY DEF TypeOK
  <2>3. /\ Head(toServer) = toServer[1] /\ Len(toServer) \in Nat
        /\ Len(toServer) > 0 /\ Len(toServer') = Len(toServer) - 1
        /\ \A i \in 1..Len(toServer') : toServer'[i] = toServer[i + 1]
    BY <2>1, <2>2, TailFacts
  <2>4. /\ type = "COMMAND"
        /\ \A i \in 1..Len(toServer') : toServer'[i].type = "COMMAND"
    BY <1>3, <2>1, <2>3
  <2>5. {cur} # {}
    OBVIOUS
  <2>6. ~ready /\ toClient = <<>>
    BY <1>3, <2>1, <2>5 DEF V1Quiet, V1Ready
  <2> QED
    BY <2>1, <2>4, <2>6
<1>5. CASE TakeGarbage \/ TakeNoop
  BY <1>4, <1>5 DEF TakeGarbage, TakeNoop
<1>6. CASE Refuse \/ Accept \/ ServerOutput
  BY <1>3, <1>6 DEF Refuse, Accept, ServerOutput
<1>7. CASE AcceptV1
  <2> DEFINE c == {Head(toServer).cmd}
  <2>1. /\ toClient = <<>> /\ ~ready /\ link = "up"
        /\ \A i \in 1..Len(toServer') : toServer'[i].type = "COMMAND"
        /\ toClient' = Append(toClient, Mic(c)) /\ UNCHANGED link
    BY <1>4, <1>7 DEF AcceptV1, Send, Mic
  <2>2. server'.serving = c
    BY <1>7 DEF AcceptV1, NewServer
  <2>3. c # {}
    OBVIOUS
  <2> HIDE DEF c
  <2>4. toClient' = <<Mic(c)>>
    BY <2>1, Tuples
  <2> QED
    BY <1>0, <2>1, <2>2, <2>3, <2>4 DEF V1Link, V1Quiet, V1Ready, Mic
<1>8. CASE ServerFinish
  <2>1. /\ server.serving # {} /\ link = "up" /\ link' = "closed"
        /\ toClient' = Append(toClient, Outcome(server.serving))
        /\ UNCHANGED toServer
    BY <1>3, <1>8 DEF ServerFinish, Send, Outcome
  <2> DEFINE c == server.serving
  <2>2. CASE ready
    <3>1. toClient = <<>> /\ c = {cur} /\ AwaitsOutcome
      BY <1>3, <2>1, <2>2 DEF V1Ready
    <3>2. toClient' = <<Outcome({cur})>>
      BY <2>1, <3>1, Tuples
    <3>3. AwaitsOutcome'
      BY <1>0, <3>1 DEF AwaitsOutcome
    <3> QED
      BY <1>0, <1>3, <2>1, <2>2, <3>2, <3>3
         DEF V1Link, V1Quiet, V1Ready, Outcome
  <2>3. CASE ~ready
    <3>1. toClient = <<>> \/ toClient = <<Mic(c)>>
      BY <1>3, <2>1, <2>3 DEF V1Quiet
    <3>2. toClient' = <<Outcome(c)>> \/ toClient' = <<Mic(c), Outcome(c)>>
      <4>1. CASE toClient = <<>>
        BY <2>1, <4>1, Tuples
      <4>2. CASE toClient = <<Mic(c)>>
        BY <2>1, <4>2, AppendOne
      <4> QED
        BY <3>1, <4>1, <4>2
    <3>3. Outcome(c).from = c /\ Mic(c).from = c
      BY DEF Outcome, Mic
    <3>4. toClient'[1].from = c
      BY <3>2, <3>3, Tuples
    <3>5. V1Quiet'
      BY <2>1, <3>2, <3>4 DEF V1Quiet, Outcome, Mic
    <3> QED
      BY <1>0, <1>3, <2>1, <2>3, <3>5 DEF V1Link, V1Ready
  <2> QED
    BY <2>2, <2>3
<1>9. CASE ServerExpired
  BY <1>0, <1>3, <1>9 DEF ServerExpired, V1Link, V1Quiet, V1Ready
<1>10. CASE LinkFails
  <2>1. /\ link = "up" /\ link' # "up" /\ UNCHANGED toServer
        /\ toClient' = toClient \/ toClient' = <<>>
    BY <1>10 DEF LinkFails
  <2>2. CASE toClient' = <<>>
    BY <1>0, <1>3, <2>1, <2>2 DEF V1Link, V1Quiet, V1Ready
  <2>3. CASE toClient' = toClient
    <3>1. Mic(server.serving).from = server.serving
      BY DEF Mic
    <3>2. <<Mic(server.serving)>>[1].from = server.serving
      BY <3>1
    <3> QED
      BY <1>0, <1>3, <2>1, <2>3, <3>2 DEF V1Link, V1Quiet, V1Ready, Mic, Outcome
  <2> QED
    BY <2>1, <2>2, <2>3
<1>11. ~ServerErrs
  BY DEF ServerErrs
<1> QED
  BY <1>5, <1>6, <1>7, <1>8, <1>9, <1>10, <1>11 DEF ServerStep

-----------------------------------------------------------------------------
(* Protocol 2 *)

\* Nothing is asked on a new connection, and nothing is known of a closed one.
LEMMA V2Opened ==
    ASSUME Established \/ fd' # "open", pc' # "noop reply"
    PROVE  V2Inv'
  BY DEF Established, V2Inv, QuietInv, NoopInv, ReadyInv

\* Nothing is under way on a connection that is gone.
LEMMA V2Broken ==
    ASSUME Gone, UNCHANGED <<ready, connection>>, pc' = "idle"
    PROVE  V2Inv'
  BY DEF Gone, connection, V2Inv, QuietInv, NoopInv, ReadyInv

\* A caller that has read all results has nothing under way.
LEMMA V2Drained ==
    ASSUME TypeOK, Drained, ReadyInv
    PROVE  ~(ready /\ (link = "up" \/ toClient # <<>>))
<1> SUFFICES ASSUME Asked PROVE FALSE
  BY DEF ReadyInv
<1>1. seen # <<>> /\ seen[Len(seen)].type # "OUTPUT"
  BY DEF Drained, Asked
<1>2. Len(seen) \in 1..Len(seen)
  <2>1. seen \in Seq(Result)
    BY DEF TypeOK
  <2> QED
    BY <1>1, <2>1, TailFacts
<1> QED
  BY <1>1, <1>2 DEF Asked

LEMMA V2Calls ==
    ASSUME TypeOK, CallInv, V2Inv,
           (\E h \in BOOLEAN : Open(h)) \/ Close
           \/ Begin("command") \/ Begin("noop")
    PROVE  V2Inv'
<1>1. ASSUME NEW h \in BOOLEAN, Open(h) PROVE V2Inv'
  <2>1. pc' # "noop reply" /\ (fd' # "open" \/ Established)
    BY <1>1 DEF Open, ConnectFails, NegotiationFails
  <2> QED
    BY <2>1, V2Opened
<1>2. CASE Close
  BY <1>2, V2Opened DEF Close
<1>3. ASSUME NEW call \in {"command", "noop"}, Begin(call)
      PROVE  V2Inv'
  <2>1. Drained /\ pc = "idle" /\ pc' # "noop reply"
    BY <1>3 DEF Begin
  <2>2. CASE fd = "open"
    <3>1. UNCHANGED <<fd, protocol, ready, link, toServer, toClient, flaws,
                      server>>
      BY <1>3, <2>2 DEF Begin, object, connection
    <3>2. V2Inv => (protocol # 1 /\ fd = "open" /\ flaws = {} /\ link # "expired"
                      => QuietInv /\ ReadyInv)
      BY DEF V2Inv
    <3>3. QuietInv => QuietInv'
      BY <2>1, <3>1 DEF QuietInv, NewServer
    <3>4. ReadyInv => ReadyInv'
      BY <2>1, <3>1, V2Drained DEF ReadyInv
    <3>5. NoopInv'
      BY <2>1 DEF NoopInv
    <3> QED
      BY <3>1, <3>2, <3>3, <3>4, <3>5 DEF V2Inv
  <2>3. CASE fd # "open"
    <3>1. Established \/ fd' # "open"
      BY <1>3, <2>3 DEF Begin, ConnectFails, NegotiationFails, object
    <3> QED
      BY <2>1, <3>1, V2Opened
  <2> QED
    BY <2>2, <2>3
<1> QED
  BY <1>1, <1>2, <1>3

\* A whole command is one that the server puts together from the start.
LEMMA WholeCommand ==
    ASSUME NEW n \in Nat \ {0}, NEW c \in Nat
    PROVE  /\ Len(Pieces(c, n)) = n
           /\ \A i \in 1..n :
                /\ Pieces(c, n)[i].type = "COMMAND" /\ Pieces(c, n)[i].cmd = c
                /\ Pieces(c, n)[i].cont \in 0..3
                /\ Pieces(c, n)[i].cont \in {1, 2} <=> i < n
                /\ Pieces(c, n)[i].cont > 1 <=> i > 1
<1>1. Len(Pieces(c, n)) = n
  BY DEF Pieces
<1> SUFFICES ASSUME NEW i \in 1..n
             PROVE  /\ Pieces(c, n)[i].type = "COMMAND"
                    /\ Pieces(c, n)[i].cmd = c
                    /\ Pieces(c, n)[i].cont \in 0..3
                    /\ Pieces(c, n)[i].cont \in {1, 2} <=> i < n
                    /\ Pieces(c, n)[i].cont > 1 <=> i > 1
  BY <1>1
<1>2. Pieces(c, n)[i].type = "COMMAND" /\ Pieces(c, n)[i].cmd = c
  BY DEF Pieces
<1>3. Pieces(c, n)[i].cont = IF n = 1 THEN 0 ELSE IF i = 1 THEN 1
                             ELSE IF i = n THEN 3 ELSE 2
  BY DEF Pieces
<1>4. CASE n = 1
  BY <1>2, <1>3, <1>4
<1>5. CASE n # 1 /\ i = 1
  BY <1>2, <1>3, <1>5
<1>6. CASE n # 1 /\ i # 1 /\ i = n
  BY <1>2, <1>3, <1>6
<1>7. CASE n # 1 /\ i # 1 /\ i # n
  BY <1>2, <1>3, <1>7
<1> QED
  BY <1>4, <1>5, <1>6, <1>7

\* Before a call sends anything nothing is under way.
LEMMA V2Silent ==
    ASSUME V2Inv, protocol # 1, fd = "open", flaws = {}, link # "expired",
           pc \in {"command", "noop"}
    PROVE  /\ toClient = <<>>
           /\ link = "up" => ~ready /\ toServer = <<>> /\ server = NewServer
<1>1. QuietInv /\ ReadyInv
  BY DEF V2Inv
<1>2. ~(ready /\ (link = "up" \/ toClient # <<>>))
  BY <1>1 DEF ReadyInv, Asked
<1> QED
  BY <1>1, <1>2 DEF QuietInv

LEMMA V2Continue ==
    ASSUME TypeOK, CallInv, V2Inv, Continue
    PROVE  V2Inv'
<1>1. CASE SendStray \/ NoopFails
  <2>1. pc' = "idle"
    BY <1>1 DEF SendStray, NoopFails, CallFails
  <2>2. CASE fd' # "open"
    BY <2>1, <2>2, V2Opened
  <2>3. CASE fd' = "open"
    <3>1. Gone /\ UNCHANGED <<ready, connection>>
      BY <1>1, <2>3 DEF SendStray, NoopFails, LoseConnection, object
    <3> QED
      BY <2>1, <3>1, V2Broken
  <2> QED
    BY <2>2, <2>3
<1>2. CASE SendCommandV1 \/ MicFails \/ NoopUnsupported
  BY <1>2 DEF SendCommandV1, MicFails, NoopUnsupported, object, CallInv, V2Inv
<1>3. CASE ReceiveMic
  BY <1>3 DEF ReceiveMic, CallInv, V2Inv
<1>4. CASE SendCommand
  <2>1. /\ pc = "command" /\ pc' = "idle" /\ fd = "open" /\ protocol # 1
        /\ UNCHANGED <<fd, protocol, seen, link, toClient, server>>
    BY <1>4 DEF SendCommand
  <2>2. PICK n \in Sizes, cut \in BOOLEAN : \E k \in 0..n :
          /\ Transmit(Pieces(calls, n), k, cut)
          /\ IF k = n THEN ready' = TRUE /\ cur' = calls
             ELSE UNCHANGED <<ready, cur>>
    BY <1>4 DEF SendCommand
  <2>3. PICK k \in 0..n :
          /\ Transmit(Pieces(calls, n), k, cut)
          /\ IF k = n THEN ready' = TRUE /\ cur' = calls
             ELSE UNCHANGED <<ready, cur>>
    BY <2>2
  <2>4. n \in Nat \ {0} /\ calls \in Nat /\ Pieces(calls, n) \in Seq(Message)
    BY SizesAssumption, Values DEF TypeOK
  <2>5. Len(Pieces(calls, n)) = n
    BY <2>4, WholeCommand
  <2>6. cur = 0 /\ seen = <<>> /\ calls # 0
    BY <2>1 DEF CallInv
  <2> SUFFICES ASSUME flaws' = {}, link # "expired"
               PROVE  QuietInv' /\ NoopInv' /\ ReadyInv'
    BY <2>1 DEF V2Inv
  <2>7. /\ flaws = {}
        /\ link # "up" => toServer' = toServer
        /\ link = "up" => \/ k = n /\ toServer' = toServer \o Pieces(calls, n)
                          \/ k # n /\ toServer' = toServer
    BY <2>3, <2>4, <2>5, WholeSend
  <2>8. /\ toClient = <<>>
        /\ link = "up" => ~ready /\ toServer = <<>> /\ server = NewServer
    BY <2>1, <2>7, V2Silent
  <2>9. NoopInv'
    BY <2>1 DEF NoopInv
  <2>10. CASE link # "up"
    BY <2>1, <2>8, <2>9, <2>10 DEF QuietInv, ReadyInv
  <2>11. CASE link = "up" /\ k # n
    BY <2>1, <2>3, <2>7, <2>8, <2>9, <2>11 DEF QuietInv, ReadyInv, NewServer
  <2>12. CASE link = "up" /\ k = n
    <3>1. ready' /\ cur' = calls /\ toServer' = Pieces(calls, n)
      BY <2>3, <2>4, <2>7, <2>8, <2>12, ConcatEmptySeq
    <3>2. Asked'
      BY <2>1, <2>6, <3>1 DEF Asked
    <3>3. Answers'
      BY <2>1, <2>8 DEF Answers
    <3>4. server.serving = {} /\ server.gathered = {} /\ server.continued = FALSE
      BY <2>8, <2>12 DEF NewServer
    <3>5. toServer' # <<>>
      BY <2>4, <2>5, <3>1
    <3>6. Remainder(toServer, server.continued)'
      BY <2>1, <2>4, <2>5, <3>1, <3>4, WholeCommand DEF Remainder
    <3>7. OnItsWay'
      BY <2>1, <2>8, <3>4, <3>5, <3>6 DEF OnItsWay
    <3> QED
      BY <2>9, <3>1, <3>2, <3>3, <3>7 DEF QuietInv, ReadyInv
  <2> QED
    BY <2>10, <2>11, <2>12
<1>5. CASE SendNoop
  <2>1. /\ pc = "noop" /\ fd = "open" /\ protocol # 1
        /\ UNCHANGED <<fd, protocol, ready, cur, seen, link, toClient, server>>
    BY <1>5 DEF SendNoop, object
  <2>2. PICK cut \in BOOLEAN, k \in 0..1 :
          /\ Transmit(<<Bare("NOOP")>>, k, cut)
          /\ pc' = IF k = 1 THEN "noop reply" ELSE "idle"
    BY <1>5 DEF SendNoop
  <2>3. <<Bare("NOOP")>> \in Seq(Message) /\ Len(<<Bare("NOOP")>>) = 1
    BY Values
  <2> SUFFICES ASSUME flaws' = {}, link # "expired"
               PROVE  QuietInv' /\ NoopInv' /\ ReadyInv'
    BY <2>1 DEF V2Inv
  <2>4. /\ flaws = {}
        /\ link # "up" => toServer' = toServer
        /\ link = "up" => \/ k = 1 /\ toServer' = toServer \o <<Bare("NOOP")>>
                          \/ k # 1 /\ toServer' = toServer
    BY <2>2, <2>3, WholeSend
  <2>5. /\ toClient = <<>>
        /\ link = "up" => ~ready /\ toServer = <<>> /\ server = NewServer
    BY <2>1, <2>4, V2Silent
  <2>6. ReadyInv'
    BY <2>1, <2>5 DEF ReadyInv
  <2>7. CASE k = 1
    <3>1. link = "up" => toServer' = <<Bare("NOOP")>>
      BY <2>3, <2>4, <2>5, <2>7, ConcatEmptySeq
    <3>2. pc' = "noop reply"
      BY <2>2, <2>7
    <3> QED
      BY <2>1, <2>5, <2>6, <3>1, <3>2 DEF QuietInv, NoopInv, NewServer, Bare
  <2>8. CASE k # 1
    BY <2>1, <2>2, <2>4, <2>5, <2>6, <2>8 DEF QuietInv, NoopInv, NewServer
  <2> QED
    BY <2>7, <2>8
<1>6. CASE ReceiveNoop
  <2>1. /\ pc = "noop reply" /\ pc' = "idle" /\ toClient # <<>>
        /\ toClient' = Tail(toClient)
        /\ UNCHANGED <<fd, protocol, ready, cur, seen, link, toServer, flaws,
                       server>>
    BY <1>6 DEF ReceiveNoop, CallFails, object
  <2> SUFFICES ASSUME protocol # 1, fd = "open", flaws = {}, link # "expired"
               PROVE  QuietInv' /\ NoopInv' /\ ReadyInv'
    BY <2>1 DEF V2Inv
  <2>2. NoopInv /\ ReadyInv
    BY DEF V2Inv
  <2>3. /\ Len(toClient) = 1
        /\ link = "up" => ~ready /\ toServer = <<>> /\ server = NewServer
    BY <2>1, <2>2 DEF NoopInv
  <2>4. toClient' = <<>>
    <3>1. toClient \in Seq(Reply)
      BY DEF TypeOK
    <3>2. toClient' \in Seq(Reply) /\ Len(toClient') = Len(toClient) - 1
      BY <2>1, <3>1, TailFacts
    <3> QED
      BY <2>3, <3>2, EmptySeq
  <2> QED
    BY <2>1, <2>3, <2>4 DEF QuietInv, NoopInv, ReadyInv, NewServer
<1> QED
  BY <1>1, <1>2, <1>3, <1>4, <1>5, <1>6 DEF Continue

\* A token that is read is an answer to the caller's command.
LEMMA V2Expects ==
    ASSUME TypeOK, V2Inv, protocol # 1, Expecting, flaws = {}, link # "expired",
           ready, toClient # <<>>
    PROVE  /\ Asked /\ Answers
           /\ link = "up" => Running \/ Answered
           /\ Head(toClient).from = {cur} /\ Head(toClient).type \in Answer
<1>1. fd = "open"
  BY DEF Expecting
<1>2. /\ Asked /\ Answers
      /\ link = "up" => OnItsWay \/ Running \/ Answered
  BY <1>1 DEF V2Inv, ReadyInv
<1>3. ~OnItsWay
  BY DEF OnItsWay
<1>4. Head(toClient) = toClient[1] /\ 1 \in 1..Len(toClient)
  <2>1. toClient \in Seq(Reply)
    BY DEF TypeOK
  <2> QED
    BY <2>1, TailFacts
<1> QED
  BY <1>2, <1>3, <1>4 DEF Answers

LEMMA V2Output ==
    ASSUME TypeOK, CallInv, V2Inv, Output
    PROVE  V2Inv'
<1>1. CASE OutputNoConnection \/ OutputInvalid \/ OutputLost
  <2>1. pc' = "idle"
    BY <1>1 DEF OutputNoConnection, OutputInvalid, OutputLost, Reading,
       Expecting, Return
  <2>2. CASE fd' # "open"
    BY <2>1, <2>2, V2Opened
  <2>3. CASE fd' = "open"
    <3>1. Gone /\ UNCHANGED <<ready, connection>>
      BY <1>1, <2>3 DEF OutputNoConnection, OutputInvalid, OutputLost,
         LoseConnection, object
    <3> QED
      BY <2>1, <3>1, V2Broken
  <2> QED
    BY <2>2, <2>3
<1>2. CASE OutputTokenV1 \/ OutputAgain
  BY <1>2 DEF OutputTokenV1, OutputAgain, V2Inv
<1>3. CASE OutputExpired
  BY <1>3 DEF OutputExpired, V2Inv
<1>4. CASE OutputDone
  BY <1>4 DEF OutputDone, Reading, Return, connection, V2Inv, QuietInv,
              NoopInv, ReadyInv, NewServer
<1>5. CASE OutputToken
  <2>1. /\ Expecting /\ protocol # 1 /\ ready /\ link # "expired"
        /\ toClient # <<>> /\ toClient' = Tail(toClient)
        /\ UNCHANGED <<fd, protocol, pc, cur, link, toServer, flaws, server>>
    BY <1>5 DEF OutputToken, Return
  <2> SUFFICES ASSUME flaws = {} PROVE QuietInv' /\ NoopInv' /\ ReadyInv'
    BY <2>1 DEF V2Inv
  <2>2. /\ Asked /\ Answers
        /\ link = "up" => Running \/ Answered
        /\ Head(toClient).type \in Answer
    BY <2>1, V2Expects
  <2>3. /\ ready' = (Head(toClient).type \notin Terminal)
        /\ seen' = Append(seen, Head(toClient))
    BY <1>5, <2>2 DEF OutputToken, Return, Answer
  <2>4. toClient \in Seq(Reply)
    BY DEF TypeOK
  <2>5. /\ Head(toClient) = toClient[1] /\ Len(toClient) \in Nat
        /\ Len(toClient) > 0 /\ Len(toClient') = Len(toClient) - 1
        /\ \A i \in 1..Len(toClient') : toClient'[i] = toClient[i + 1]
        /\ toClient' \in Seq(Reply)
    BY <2>1, <2>4, TailFacts
  <2>6. pc = "idle" /\ NoopInv'
    BY <2>1, <2>2 DEF Asked, NoopInv
  <2>7. CASE Head(toClient).type \in Terminal
    <3>0. 1 \in 1..Len(toClient) /\ toClient[1].type \in Terminal
      BY <2>5, <2>7
    <3>a. ~ready'
      BY <2>3, <2>7, Zenon
    <3>1. Len(toClient) = 1 /\ ~ready'
      BY <2>2, <3>0, <3>a DEF Answers
    <3>2. toClient' = <<>>
      BY <2>5, <3>1, EmptySeq
    <3>3. link = "up" => toServer = <<>> /\ server = NewServer
      BY <2>2, <2>5, <2>7 DEF Running, Answered, Terminal
    <3> QED
      BY <2>1, <2>6, <3>1, <3>2, <3>3 DEF QuietInv, ReadyInv, NewServer
  <2>8. CASE Head(toClient).type \notin Terminal
    <3>1. ready' /\ Head(toClient).type = "OUTPUT"
      BY <2>2, <2>3, <2>8 DEF Answer
    <3>2. Head(toClient) \in Result /\ seen \in Seq(Result)
      <4>1. Head(toClient) \in Reply
        BY <2>1, <2>4, TailFacts
      <4> QED
        BY <3>1, <4>1 DEF Reply, Result, TypeOK
    <3>3. Asked'
      <4>1. \A i \in 1..Len(seen) : seen[i].type = "OUTPUT"
        BY <2>2 DEF Asked
      <4>2. /\ Len(seen) \in Nat /\ Len(seen') = Len(seen) + 1
            /\ \A i \in 1..Len(seen) : seen'[i] = seen[i]
            /\ seen'[Len(seen) + 1] = Head(toClient)
        BY <2>3, <3>2, AppendFacts
      <4>3. \A i \in 1..Len(seen') : seen'[i].type = "OUTPUT"
        BY <3>1, <4>1, <4>2
      <4> QED
        BY <2>1, <2>2, <4>3 DEF Asked
    <3>4. Answers'
      <4> SUFFICES ASSUME NEW i \in 1..Len(toClient')
                   PROVE  /\ toClient'[i].from = {cur}
                          /\ toClient'[i].type \in Answer
                          /\ toClient'[i].type \in Terminal => i = Len(toClient')
        BY <2>1 DEF Answers, Answer, Terminal
      <4>1. i + 1 \in 1..Len(toClient) /\ toClient'[i] = toClient[i + 1]
        BY <2>5
      <4>2. /\ toClient[i + 1].from = {cur} /\ toClient[i + 1].type \in Answer
            /\ toClient[i + 1].type \in Terminal => i + 1 = Len(toClient)
        BY <2>2, <4>1 DEF Answers
      <4> QED
        BY <2>5, <4>1, <4>2
    <3>5. Running => Running'
      BY <2>1, <2>5 DEF Running
    <3>6. Answered => Answered'
      <4> SUFFICES ASSUME Answered PROVE Answered'
        OBVIOUS
      <4>1. Len(toClient) # 1
        BY <2>5, <2>8 DEF Answered
      <4>2. toClient'[Len(toClient')] = toClient[Len(toClient)]
        BY <2>5, <4>1
      <4>3. toClient' # <<>>
        BY <2>5, <4>1
      <4> QED
        BY <2>1, <4>2, <4>3 DEF Answered, NewServer
    <3> QED
      BY <2>1, <2>2, <2>6, <3>1, <3>3, <3>4, <3>5, <3>6 DEF QuietInv, ReadyInv
  <2> QED
    BY <2>7, <2>8
<1> QED
  BY <1>1, <1>2, <1>3, <1>4, <1>5 DEF Output

\* The server takes a message: a NOOP that nothing else accompanies, or a
\* token of the caller's command.
LEMMA V2Takes ==
    ASSUME TypeOK, V2Inv, protocol # 1, fd = "open", flaws = {},
           NEW type \in {"COMMAND", "NOOP", "garbage"}, Takes(type)
    PROVE  /\ toClient = <<>> /\ link = "up"
           /\ \/ /\ type = "NOOP" /\ pc = "noop reply" /\ ~ready
                 /\ server = NewServer /\ toServer' = <<>>
              \/ /\ type = "COMMAND" /\ ready /\ Asked /\ OnItsWay
<1>1. /\ link = "up" /\ server.serving = {} /\ toServer # <<>>
      /\ Head(toServer).type = type /\ toServer' = Tail(toServer)
  BY DEF Takes
<1>2. QuietInv /\ NoopInv /\ ReadyInv
  BY <1>1 DEF V2Inv
<1>3. Head(toServer) = toServer[1] /\ 1 \in 1..Len(toServer)
  <2>1. toServer \in Seq(Message)
    BY DEF TypeOK
  <2> QED
    BY <1>1, <2>1, TailFacts
<1>4. CASE pc = "noop reply"
  <2>1. ~ready /\ server = NewServer
    BY <1>1, <1>2, <1>4 DEF NoopInv
  <2>2. toClient = <<>> /\ toServer = <<Bare("NOOP")>>
    BY <1>1, <1>2, <1>4 DEF NoopInv
  <2>3. Head(toServer) = Bare("NOOP") /\ toServer' = <<>>
    BY <1>1, <2>2, Tuples
  <2>4. type = "NOOP"
    BY <1>1, <2>3 DEF Bare
  <2> QED
    BY <1>1, <1>4, <2>1, <2>2, <2>3, <2>4
<1>5. CASE pc # "noop reply"
  <2>1. ready
    BY <1>1, <1>2, <1>5 DEF QuietInv
  <2>2. Asked /\ OnItsWay
    BY <1>1, <1>2, <2>1 DEF ReadyInv, Running, Answered
  <2>3. type = "COMMAND" /\ toClient = <<>>
    BY <1>1, <1>3, <2>2 DEF OnItsWay, Remainder
  <2> QED
    BY <1>1, <2>1, <2>2, <2>3
<1> QED
  BY <1>4, <1>5

\* What the token says about the rest of the command.
LEMMA V2Token ==
    ASSUME TypeOK, OnItsWay, Takes("COMMAND")
    PROVE  /\ Head(toServer).cmd = cur
           /\ Head(toServer).cont \notin {1, 2} => toServer' = <<>>
           /\ Head(toServer).cont \in {1, 2} =>
                 toServer' # <<>> /\ Remainder(toServer', TRUE)
<1>1. toServer # <<>> /\ toServer' = Tail(toServer)
  BY DEF Takes
<1>2. toServer \in Seq(Message)
  BY DEF TypeOK
<1>3. /\ Head(toServer) = toServer[1] /\ Len(toServer) \in Nat
      /\ Len(toServer) > 0 /\ Len(toServer') = Len(toServer) - 1
      /\ \A i \in 1..Len(toServer') : toServer'[i] = toServer[i + 1]
      /\ toServer' \in Seq(Message)
  BY <1>1, <1>2, TailFacts
<1>4. \A i \in 1..Len(toServer) :
        /\ toServer[i].type = "COMMAND" /\ toServer[i].cmd = cur
        /\ toServer[i].cont \in 0..3
        /\ toServer[i].cont \in {1, 2} <=> i < Len(toServer)
        /\ toServer[i].cont > 1 <=> (i > 1 \/ server.continued)
  BY DEF OnItsWay, Remainder
<1>5. 1 \in 1..Len(toServer)
  BY <1>3
<1>6. /\ Head(toServer).cmd = cur
      /\ Head(toServer).cont \in {1, 2} <=> 1 < Len(toServer)
  BY <1>3, <1>4, <1>5
<1>7. ASSUME Head(toServer).cont \notin {1, 2} PROVE toServer' = <<>>
  <2>1. Len(toServer') = 0
    BY <1>3, <1>6, <1>7
  <2> QED
    BY <1>3, <2>1, EmptySeq
<1>8. ASSUME Head(toServer).cont \in {1, 2} PROVE toServer' # <<>>
  <2>1. Len(toServer') > 0
    BY <1>3, <1>6, <1>8
  <2> QED
    BY <2>1
<1>9. Remainder(toServer', TRUE)
  <2> SUFFICES ASSUME NEW i \in 1..Len(toServer')
               PROVE  /\ toServer'[i].type = "COMMAND" /\ toServer'[i].cmd = cur
                      /\ toServer'[i].cont \in 0..3
                      /\ toServer'[i].cont \in {1, 2} <=> i < Len(toServer')
                      /\ toServer'[i].cont > 1
    BY DEF Remainder
  <2>1. i + 1 \in 1..Len(toServer) /\ toServer'[i] = toServer[i + 1]
    BY <1>3
  <2>2. /\ toServer[i + 1].type = "COMMAND" /\ toServer[i + 1].cmd = cur
        /\ toServer[i + 1].cont \in 0..3
        /\ toServer[i + 1].cont \in {1, 2} <=> i + 1 < Len(toServer)
        /\ toServer[i + 1].cont > 1 <=> (i + 1 > 1 \/ server.continued)
    BY <1>4, <2>1
  <2>3. i + 1 > 1 /\ (i + 1 < Len(toServer) <=> i < Len(toServer'))
    BY <1>3
  <2> QED
    BY <2>1, <2>2, <2>3
<1> QED
  BY <1>6, <1>7, <1>8, <1>9

\* One more answer after outputs only.
LEMMA V2Sent ==
    ASSUME TypeOK, Answers, UNCHANGED cur, NEW t \in Answer, Send(t, {cur}),
           \A i \in 1..Len(toClient) : toClient[i].type = "OUTPUT"
    PROVE  /\ Answers' /\ toClient' # <<>>
           /\ toClient'[Len(toClient')].type = t
           /\ t = "OUTPUT" =>
                 \A i \in 1..Len(toClient') : toClient'[i].type = "OUTPUT"
<1> DEFINE e == [type |-> t, from |-> {cur}]
<1>1. toClient \in Seq(Reply)
  BY DEF TypeOK
<1>2. e \in Reply
  <2>1. {cur} \in SUBSET Nat
    BY DEF TypeOK
  <2> QED
    BY <2>1 DEF Reply, Answer, Terminal
<1>3. e.type = t /\ e.from = {cur} /\ toClient' = Append(toClient, e)
  BY DEF Send
<1> HIDE DEF e
<1>4. Len(toClient) \in Nat /\ Len(toClient') = Len(toClient) + 1
  BY <1>1, <1>2, <1>3, AppendFacts
<1>5. /\ \A i \in 1..Len(toClient) : toClient'[i] = toClient[i]
      /\ toClient'[Len(toClient) + 1] = e
  BY <1>1, <1>2, <1>3, AppendFacts
<1>6. toClient' # <<>>
  BY <1>1, <1>2, <1>3, AppendFacts
<1>7. ASSUME NEW i \in 1..Len(toClient')
      PROVE  \/ /\ i \in 1..Len(toClient) /\ i # Len(toClient')
                /\ toClient'[i] = toClient[i]
             \/ i = Len(toClient') /\ toClient'[i] = e
  BY <1>4, <1>5
<1>8. Answers'
  <2> SUFFICES ASSUME NEW i \in 1..Len(toClient')
               PROVE  /\ toClient'[i].from = {cur}
                      /\ toClient'[i].type \in Answer
                      /\ toClient'[i].type \in Terminal => i = Len(toClient')
    BY DEF Answers, Answer, Terminal
  <2>1. CASE i \in 1..Len(toClient) /\ toClient'[i] = toClient[i]
    BY <2>1 DEF Answers, Terminal
  <2>2. CASE i = Len(toClient') /\ toClient'[i] = e
    BY <1>3, <2>2
  <2> QED
    BY <1>7, <2>1, <2>2
<1>9. toClient'[Len(toClient')].type = t
  BY <1>3, <1>4, <1>5
<1>10. ASSUME t = "OUTPUT"
       PROVE  \A i \in 1..Len(toClient') : toClient'[i].type = "OUTPUT"
  BY <1>3, <1>7, <1>10
<1> QED
  BY <1>6, <1>8, <1>9, <1>10

\* The server and the network.
LEMMA V2Server ==
    ASSUME TypeOK, CallInv, V2Inv, ServerStep \/ LinkFails
    PROVE  V2Inv'
<1>0. UNCHANGED <<fd, protocol, ready, pc, cur, seen>>
  BY DEF ServerStep, TakeGarbage, TakeNoop, Refuse, Accept, AcceptV1, Takes,
         ServerOutput, ServerErrs, ServerFinish, ServerExpired, LinkFails, object, caller
<1>1. flaws # {} => flaws' # {}
  BY DEF ServerStep, TakeGarbage, TakeNoop, Refuse, Accept, AcceptV1,
         ServerOutput, ServerErrs, ServerFinish, ServerExpired, LinkFails
<1> SUFFICES ASSUME protocol # 1, fd = "open", flaws = {}, flaws' = {},
                    link' # "expired"
             PROVE  QuietInv' /\ NoopInv' /\ ReadyInv'
  BY <1>0, <1>1 DEF V2Inv
<1>2. speaks # 1
  BY DEF CallInv
<1>3. Asked => Asked'
  BY <1>0 DEF Asked
<1>4. CASE TakeGarbage
  BY <1>4, V2Takes DEF TakeGarbage
<1>5. CASE TakeNoop
  <2>1. Takes("NOOP")
    BY <1>5 DEF TakeNoop
  <2>2. /\ toClient = <<>> /\ link = "up" /\ pc = "noop reply" /\ ~ready
        /\ server = NewServer /\ toServer' = <<>>
    BY <2>1, V2Takes
  <2>3. ~server.continued
    BY <2>2 DEF NewServer
  <2>4. /\ UNCHANGED <<link, server>>
        /\ \/ toClient' = Append(<<>>, [type |-> "NOOP", from |-> {}])
           \/ toClient' = Append(<<>>, [type |-> "VERSION", from |-> {}])
    BY <1>5, <2>2, <2>3 DEF TakeNoop, Send
  <2>5. Len(toClient') = 1 /\ toClient'[1].type \in {"NOOP", "VERSION"}
    BY <2>4
  <2>6. toClient'[1].type \notin Answer
    BY <2>5 DEF Answer, Terminal
  <2> QED
    BY <1>0, <2>2, <2>4, <2>5, <2>6
       DEF QuietInv, NoopInv, ReadyInv, NewServer, Answer, Terminal
<1>6. CASE Refuse
  <2>1. Takes("COMMAND")
    BY <1>6 DEF Refuse
  <2>2. toClient = <<>> /\ link = "up" /\ ready /\ Asked /\ OnItsWay
    BY <2>1, V2Takes
  <2>3. Head(toServer).cont \notin {1, 2}
    BY <1>6 DEF Refuse
  <2>4. Head(toServer).cmd = cur /\ toServer' = <<>>
    BY <2>1, <2>2, <2>3, V2Token
  <2>5. Send("ERROR", {cur}) /\ server' = NewServer /\ UNCHANGED link
    BY <1>6, <2>4 DEF Refuse
  <2>6. Answers /\ \A i \in 1..Len(toClient) : toClient[i].type = "OUTPUT"
    BY <2>2 DEF Answers
  <2>7. /\ Answers' /\ toClient' # <<>>
        /\ toClient'[Len(toClient')].type = "ERROR"
    BY <1>0, <2>5, <2>6, V2Sent DEF Answer, Terminal
  <2>8. Answered'
    BY <2>4, <2>5, <2>7 DEF Answered, Terminal, NewServer
  <2>9. pc = "idle"
    BY <2>2 DEF Asked
  <2> QED
    BY <1>0, <1>3, <2>2, <2>7, <2>8, <2>9 DEF QuietInv, NoopInv, ReadyInv
<1>7. CASE Accept
  <2>1. Takes("COMMAND")
    BY <1>7 DEF Accept
  <2>2. toClient = <<>> /\ link = "up" /\ ready /\ Asked /\ OnItsWay
    BY <2>1, V2Takes
  <2>3. /\ Head(toServer).cmd = cur
        /\ Head(toServer).cont \notin {1, 2} => toServer' = <<>>
        /\ Head(toServer).cont \in {1, 2} =>
              toServer' # <<>> /\ Remainder(toServer', TRUE)
    BY <2>1, <2>2, V2Token
  <2>4. toClient' = <<>> /\ UNCHANGED link
    BY <1>7, <2>2 DEF Accept
  <2>5. server.gathered \cup {Head(toServer).cmd} = {cur}
    BY <2>2, <2>3 DEF OnItsWay
  <2>6. server.serving = {} /\ server \in ServerState
    BY <2>2 DEF OnItsWay, TypeOK
  <2>7. CASE Head(toServer).cont \in {1, 2}
    <3>1. server' = [server EXCEPT !.gathered = {cur}, !.continued = TRUE,
                                   !.pieces = server.pieces + 1]
      BY <1>7, <2>5, <2>7 DEF Accept
    <3>2. /\ server'.gathered = {cur} /\ server'.serving = {}
          /\ server'.continued = TRUE
      BY <2>6, <3>1 DEF ServerState
    <3>3. Remainder(toServer, server.continued)'
      BY <1>0, <2>3, <2>7, <3>2 DEF Remainder
    <3>4. OnItsWay'
      BY <1>0, <2>3, <2>4, <2>7, <3>2, <3>3 DEF OnItsWay
    <3> QED
      BY <1>0, <1>3, <2>2, <2>4, <3>4
         DEF QuietInv, NoopInv, ReadyInv, Answers, Asked
  <2>8. CASE Head(toServer).cont \notin {1, 2}
    <3>1. server' = [NewServer EXCEPT !.serving = {cur}]
      BY <1>7, <2>5, <2>8 DEF Accept
    <3>2. server'.serving = {cur}
      BY <3>1 DEF NewServer
    <3>3. Running'
      BY <1>0, <2>3, <2>4, <2>8, <3>2 DEF Running
    <3> QED
      BY <1>0, <1>3, <2>2, <2>4, <3>3
         DEF QuietInv, NoopInv, ReadyInv, Answers, Asked
  <2> QED
    BY <2>7, <2>8
<1>8. CASE AcceptV1
  BY <1>2, <1>8 DEF AcceptV1
<1>9. CASE ServerOutput \/ ServerFinish
  <2>1. link = "up" /\ server.serving # {} /\ UNCHANGED <<link, toServer>>
    BY <1>2, <1>9 DEF ServerOutput, ServerErrs, ServerFinish
  <2>2. server # NewServer
    BY <2>1 DEF NewServer
  <2>3. QuietInv /\ NoopInv /\ ReadyInv
    BY <2>1 DEF V2Inv
  <2>4. ready
    BY <2>1, <2>2, <2>3 DEF QuietInv, NoopInv
  <2>5. Asked /\ Answers /\ Running
    BY <2>1, <2>2, <2>3, <2>4 DEF ReadyInv, OnItsWay, Answered
  <2>6. /\ toServer = <<>> /\ server.serving = {cur} /\ pc = "idle"
        /\ \A i \in 1..Len(toClient) : toClient[i].type = "OUTPUT"
    BY <2>5 DEF Running, Asked
  <2>7. CASE ServerOutput
    <3>1. Send("OUTPUT", {cur})
      BY <2>6, <2>7 DEF ServerOutput
    <3>2. server'.serving = {cur}
      <4>1. server \in ServerState
        BY DEF TypeOK
      <4> QED
        BY <2>6, <2>7, <4>1 DEF ServerOutput, ServerState
    <3>3. /\ Answers'
          /\ \A i \in 1..Len(toClient') : toClient'[i].type = "OUTPUT"
      BY <1>0, <2>5, <2>6, <3>1, V2Sent DEF Answer
    <3>4. Running'
      BY <1>0, <2>1, <2>6, <3>2, <3>3 DEF Running
    <3> QED
      BY <1>0, <1>3, <2>4, <2>5, <2>6, <3>3, <3>4
         DEF QuietInv, NoopInv, ReadyInv
  <2>8. CASE ServerFinish
    <3>1. PICK t \in Terminal : Send(t, {cur})
      BY <1>2, <2>6, <2>8 DEF ServerFinish
    <3>2. server' = NewServer
      BY <2>8 DEF ServerFinish
    <3>3. /\ Answers' /\ toClient' # <<>>
          /\ toClient'[Len(toClient')].type = t
      BY <1>0, <2>5, <2>6, <3>1, V2Sent DEF Answer
    <3>4. Answered'
      BY <2>1, <2>6, <3>1, <3>2, <3>3 DEF Answered, Terminal, NewServer
    <3> QED
      BY <1>0, <1>3, <2>4, <2>5, <2>6, <3>3, <3>4
         DEF QuietInv, NoopInv, ReadyInv
  <2> QED
    BY <1>9, <2>7, <2>8
<1>10. CASE ServerExpired
  BY <1>10 DEF ServerExpired, QuietInv, NoopInv, ReadyInv
<1>11. CASE LinkFails
  <2>1. /\ link = "up" /\ link' = "closed"
        /\ toClient' = toClient \/ toClient' = <<>>
    BY <1>11 DEF LinkFails
  <2>2. QuietInv /\ NoopInv /\ ReadyInv
    BY <2>1 DEF V2Inv
  <2>3. CASE toClient' = <<>>
    BY <2>1, <2>3 DEF QuietInv, NoopInv, ReadyInv
  <2>4. CASE toClient' = toClient
    <3>1. QuietInv' /\ NoopInv'
      BY <1>0, <2>1, <2>2, <2>4 DEF QuietInv, NoopInv, Answer, Terminal
    <3>2. Answers => Answers'
      BY <1>0, <2>4 DEF Answers, Answer, Terminal
    <3> QED
      BY <1>0, <1>3, <2>1, <2>2, <2>4, <3>1, <3>2 DEF ReadyInv
  <2> QED
    BY <2>1, <2>3, <2>4
<1>12. ~ServerErrs
  BY DEF ServerErrs
<1> QED
  BY <1>4, <1>5, <1>6, <1>7, <1>8, <1>9, <1>10, <1>11, <1>12 DEF ServerStep

-----------------------------------------------------------------------------
(* What remctl_output returns *)

\* One more result.
LEMMA OwnReturn ==
    ASSUME TypeOK, OwnAnswers, NEW r \in Result, seen' = Append(seen, r),
           UNCHANGED <<cur, flaws>>,
           flaws = {} => (r.type \in Answer => r.from = {cur})
    PROVE  OwnAnswers'
<1>1. seen \in Seq(Result)
  BY DEF TypeOK
<1>2. /\ Len(seen) \in Nat /\ Len(seen') = Len(seen) + 1
      /\ \A i \in 1..Len(seen) : seen'[i] = seen[i]
      /\ seen'[Len(seen) + 1] = r
  BY <1>1, AppendFacts
<1> SUFFICES ASSUME flaws = {}, NEW i \in 1..Len(seen'), seen'[i].type \in Answer
             PROVE  seen'[i].from = {cur}
  BY DEF OwnAnswers, Own, Answer, Terminal
<1>3. CASE i \in 1..Len(seen)
  BY <1>2, <1>3 DEF OwnAnswers, Own
<1>4. CASE i = Len(seen) + 1
  BY <1>2, <1>4
<1> QED
  BY <1>2, <1>3, <1>4

\* No answers, or the same ones.
LEMMA OwnSame ==
    ASSUME OwnAnswers,
           \/ seen' = <<>>
           \/ UNCHANGED <<seen, cur>> /\ (flaws # {} => flaws' # {})
    PROVE  OwnAnswers'
  BY DEF OwnAnswers, Own, Answer, Terminal

LEMMA OwnOutput ==
    ASSUME TypeOK, CallInv, V1Inv, V2Inv, OwnAnswers, Output
    PROVE  OwnAnswers'
<1>1. UNCHANGED <<cur, flaws>>
  BY DEF Output, OutputNoConnection, OutputDone, OutputToken, OutputExpired,
         OutputLost, OutputTokenV1, OutputAgain, OutputInvalid, Return,
         connection
<1>2. Null \in Result /\ Done \in Result /\ Null.type \notin Answer
      /\ Done.type \notin Answer
  BY Values DEF Null, Done, Answer, Terminal
<1>3. ASSUME seen' = Append(seen, Null) \/ seen' = Append(seen, Done)
      PROVE  OwnAnswers'
  <2>1. CASE seen' = Append(seen, Null)
    BY <1>1, <1>2, <2>1, OwnReturn
  <2>2. CASE seen' = Append(seen, Done)
    BY <1>1, <1>2, <2>2, OwnReturn
  <2> QED
    BY <1>3, <2>1, <2>2
<1>4. CASE \/ OutputNoConnection \/ OutputDone \/ OutputExpired \/ OutputLost
           \/ OutputInvalid
  BY <1>3, <1>4 DEF OutputNoConnection, OutputDone, OutputExpired, OutputLost,
                    OutputInvalid, Return
<1>5. CASE OutputToken
  <2>1. /\ Expecting /\ protocol # 1 /\ ready /\ link # "expired"
        /\ toClient # <<>>
    BY <1>5 DEF OutputToken
  <2>2. CASE Head(toClient).type \in Answer
    <3>1. seen' = Append(seen, Head(toClient))
      BY <1>5, <2>2 DEF OutputToken, Return, Answer
    <3>2. Head(toClient) \in Result
      <4>1. Head(toClient) \in Reply
        BY <2>1, TailFacts DEF TypeOK
      <4> QED
        BY <2>2, <4>1 DEF Reply, Result, Answer, Terminal
    <3>3. flaws = {} => Head(toClient).from = {cur}
      BY <2>1, V2Expects
    <3> QED
      BY <1>1, <3>1, <3>2, <3>3, OwnReturn
  <2>3. CASE Head(toClient).type \notin Answer
    BY <1>3, <1>5, <2>3 DEF OutputToken, Return, Answer
  <2> QED
    BY <2>2, <2>3
<1>6. CASE OutputTokenV1
  <2>1. protocol = 1 /\ Expecting /\ toClient # <<>>
    BY <1>6 DEF OutputTokenV1
  <2>2. CASE Head(toClient).type = "RESULT"
    <3> DEFINE r == [type |-> "OUTPUT", from |-> Head(toClient).from]
    <3>1. seen' = Append(seen, r)
      BY <1>6, <2>2 DEF OutputTokenV1, Return
    <3>2. r \in Result /\ r.from = Head(toClient).from
      <4>1. Head(toClient) \in Reply
        BY <2>1, TailFacts DEF TypeOK
      <4>2. Head(toClient).from \in SUBSET Nat
        BY <4>1 DEF Reply
      <4> QED
        BY <4>2 DEF Result
    <3>3. ASSUME flaws = {} PROVE Head(toClient).from = {cur}
      <4>1. toClient = <<Outcome({cur})>>
        BY <2>1, <3>3, V1Expects
      <4>2. Head(toClient) = Outcome({cur})
        BY <4>1, Tuples
      <4> QED
        BY <4>2 DEF Outcome
    <3> HIDE DEF r
    <3> QED
      BY <1>1, <3>1, <3>2, <3>3, OwnReturn
  <2>3. CASE Head(toClient).type # "RESULT"
    BY <1>3, <1>6, <2>3 DEF OutputTokenV1, Return
  <2> QED
    BY <2>2, <2>3
<1>7. CASE OutputAgain
  <2>1. protocol = 1 /\ cur # 0 /\ output # Null
    BY <1>7 DEF OutputAgain, Reading
  <2>2. flaws = {} => status = {cur}
    BY <2>1 DEF V1Inv, V1Read
  <2>3. CASE output.type = "STATUS"
    BY <1>3, <1>7, <2>3 DEF OutputAgain, Return
  <2>4. CASE output.type # "STATUS"
    <3> DEFINE r == [type |-> "STATUS", from |-> status]
    <3>1. seen' = Append(seen, r)
      BY <1>7, <2>4 DEF OutputAgain, Return
    <3>2. r \in Result /\ r.from = status
      BY DEF Result, TypeOK
    <3> HIDE DEF r
    <3> QED
      BY <1>1, <2>2, <3>1, <3>2, OwnReturn
  <2> QED
    BY <2>3, <2>4
<1> QED
  BY <1>4, <1>5, <1>6, <1>7 DEF Output

LEMMA OwnStep ==
    ASSUME IInv, [Next]_vars
    PROVE  OwnAnswers'
<1>0. TypeOK /\ CallInv /\ V1Inv /\ V2Inv /\ OwnAnswers
  BY DEF IInv
<1>1. flaws # {} => (flaws' # {} \/ seen' = <<>>)
  BY <1>0, TornStep
<1>2. ASSUME NEW h \in BOOLEAN, Open(h) PROVE OwnAnswers'
  BY <1>0, <1>2, OwnSame DEF Open
<1>3. ASSUME NEW call \in {"command", "noop"}, Begin(call) PROVE OwnAnswers'
  BY <1>0, <1>3, OwnSame DEF Begin
<1>4. CASE Close
  BY <1>0, <1>4, OwnSame DEF Close
<1>5. CASE Continue
  <2>1. pc # "idle" /\ UNCHANGED seen
    BY <1>5 DEF Continue, SendStray, SendCommand, SendCommandV1, ReceiveMic,
                MicFails, NoopUnsupported, SendNoop, ReceiveNoop, NoopFails,
                CallFails
  <2>2. seen = <<>>
    BY <1>0, <2>1 DEF CallInv
  <2> QED
    BY <1>0, <2>1, <2>2, OwnSame
<1>6. CASE Output
  BY <1>0, <1>6, OwnOutput
<1>7. CASE ServerStep \/ LinkFails \/ UNCHANGED vars
  <2>1. UNCHANGED <<seen, cur>>
    BY <1>7
       DEF ServerStep, TakeGarbage, TakeNoop, Refuse, Accept, AcceptV1, Takes,
           ServerOutput, ServerErrs, ServerFinish, ServerExpired, LinkFails, vars, caller
  <2> QED
    BY <1>0, <1>1, <2>1, OwnSame
<1> QED
  BY <1>2, <1>3, <1>4, <1>5, <1>6, <1>7 DEF Next, ClientNext, Freed

-----------------------------------------------------------------------------
(* The theorems *)

\* A new object.
LEMMA InitInv == Init => IInv
<1> SUFFICES ASSUME Init PROVE IInv
  OBVIOUS
<1>1. TypeOK
  <2>1. /\ fd \in {"invalid", "open", "closed"} /\ host \in BOOLEAN
        /\ ready \in BOOLEAN /\ stray \in BOOLEAN /\ timeout \in BOOLEAN
        /\ flaws \in SUBSET Flaws /\ link \in {"up", "closed", "expired"}
        /\ pc \in {"idle", "command", "mic", "noop", "noop reply", "freed"}
    BY DEF Init
  <2>2. /\ protocol \in 0..2 /\ held \in Nat /\ calls \in Nat
        /\ opens \in Nat /\ cur \in Nat /\ status \in SUBSET Nat
    BY DEF Init
  <2>3. speaks \in {1, 2}
    BY DEF Init
  <2>4. output \in Result /\ server \in ServerState
    BY Values DEF Init
  <2>5. /\ seen \in Seq(Result) /\ toServer \in Seq(Message)
        /\ toClient \in Seq(Reply)
    BY DEF Init
  <2> QED
    BY <2>1, <2>2, <2>3, <2>4, <2>5 DEF TypeOK
<1>2. OneHeld /\ CallInv /\ V2Inv /\ OwnAnswers
  BY DEF Init, OneHeld, CallInv, V2Inv, OwnAnswers, Own
<1>4. StrayInv
  BY Zenon DEF Init, StrayInv
<1>3. V1Inv
  BY DEF Init, V1Inv
<1> QED
  BY <1>1, <1>2, <1>3, <1>4 DEF IInv

\* Every step keeps the invariant.
LEMMA InvStep == IInv /\ [Next]_vars => IInv'
<1> SUFFICES ASSUME IInv, [Next]_vars PROVE IInv'
  OBVIOUS
<1>0. TypeOK /\ OneHeld /\ StrayInv /\ CallInv /\ V1Inv /\ V2Inv
  BY DEF IInv
<1>1. TypeOK' /\ OneHeld' /\ StrayInv' /\ CallInv' /\ OwnAnswers'
  BY <1>0, TypeStep, DescriptorStep, StrayStep, CallStep, OwnStep
<1>2. V1Inv' /\ V2Inv'
  <2>1. CASE (\E h \in BOOLEAN : Open(h)) \/ Close
             \/ Begin("command") \/ Begin("noop")
    BY <1>0, <2>1, V1Calls, V2Calls
  <2>2. CASE Continue
    BY <1>0, <2>2, V1Continue, V2Continue
  <2>3. CASE Output
    BY <1>0, <2>3, V1Output, V2Output
  <2>4. CASE ServerStep \/ LinkFails
    BY <1>0, <2>4, V1Server, V2Server
  <2>5. CASE UNCHANGED vars
    <3>1. V1Inv'
      BY <1>0, <2>5
         DEF vars, object, caller, connection, V1Inv, V1Read, V1Link, V1Quiet,
             V1Ready, AwaitsOutcome, Mic, Outcome
    <3>2. V2Inv'
      BY <1>0, <2>5
         DEF vars, object, caller, connection, V2Inv, QuietInv, NoopInv,
             ReadyInv, Asked, Answers, OnItsWay, Running, Answered, Remainder
    <3> QED
      BY <3>1, <3>2
  <2> QED
    BY <2>1, <2>2, <2>3, <2>4, <2>5 DEF Next, ClientNext, Freed
<1> QED
  BY <1>1, <1>2 DEF IInv

LEMMA Invariant == Spec => []IInv
  BY InitInv, InvStep, PTL DEF Spec

\* Whatever the caller does and the connection suffers, the variables of the
\* client library and the connection keep their types.
THEOREM TypeCorrect == Spec => []TypeOK
<1>1. IInv => TypeOK
  BY DEF IInv
<1> QED
  BY <1>1, Invariant, PTL

\* internal_reset, internal_connect, the closing of a lost connection and of a
\* used one of protocol 1 never leave a descriptor open that the object does
\* not hold, however often the caller opens it again, and only an object that
\* was opened twice uses the number of a closed one.
THEOREM Descriptors == Spec => []OneDescriptor
<1>1. IInv => OneDescriptor
  BY Zenon DEF IInv, StrayInv, OneDescriptor
<1> QED
  BY <1>1, Invariant, PTL

\* remctl_output returns answers to the command it is called for, as long as
\* the server did not get just a part of a command, or answer one twice.
THEOREM AnswersAreOwn == Spec => []OwnAnswers
<1>1. IInv => OwnAnswers
  BY DEF IInv
<1> QED
  BY <1>1, Invariant, PTL

-----------------------------------------------------------------------------
(* The order of the results *)

\* One of the first n results has ended the response.
EndedBy(n) == \E j \in 1..n : seen[j].type \in Terminal

\* REMCTL_OUT_DONE comes after the end and, but for NULL, nothing else does.
InOrder(i) ==
    seen[i].type = "DONE" <=> EndedBy(i - 1) /\ seen[i].type # "NULL"

\* While the command has a connection, ready is set until its response has
\* ended.
ShapeInv ==
    protocol = 2 =>
        /\ \A i \in 1..Len(seen) : InOrder(i)
        /\ cur # 0 /\ fd = "open" => (ready <=> ~EndedBy(Len(seen)))

\* One more result.
LEMMA ShapeReturn ==
    ASSUME TypeOK, NEW r \in Result, seen' = Append(seen, r),
           \A i \in 1..Len(seen) : InOrder(i),
           r.type = "DONE" <=> EndedBy(Len(seen)) /\ r.type # "NULL"
    PROVE  /\ \A i \in 1..Len(seen') : InOrder(i)'
           /\ EndedBy(Len(seen))' <=> EndedBy(Len(seen)) \/ r.type \in Terminal
<1>1. seen \in Seq(Result)
  BY DEF TypeOK
<1>2. /\ Len(seen) \in Nat /\ Len(seen') = Len(seen) + 1
      /\ \A i \in 1..Len(seen) : seen'[i] = seen[i]
      /\ seen'[Len(seen) + 1] = r
  BY <1>1, AppendFacts
<1>3. ASSUME NEW n \in 0..Len(seen)
      PROVE  (\E j \in 1..n : seen'[j].type \in Terminal) <=> EndedBy(n)
  BY <1>2 DEF EndedBy
<1>4. ASSUME NEW i \in 1..Len(seen') PROVE InOrder(i)'
  <2>1. i - 1 \in 0..Len(seen)
    BY <1>2
  <2>2. (\E j \in 1..(i - 1) : seen'[j].type \in Terminal) <=> EndedBy(i - 1)
    BY <1>3, <2>1
  <2>3. seen'[i].type = "DONE" <=> EndedBy(i - 1) /\ seen'[i].type # "NULL"
    <3>1. CASE i \in 1..Len(seen)
      BY <1>2, <3>1 DEF InOrder
    <3>2. CASE i = Len(seen) + 1
      <4>1. i - 1 = Len(seen)
        BY <1>2, <3>2
      <4> QED
        BY <1>2, <3>2, <4>1
    <3> QED
      BY <1>2, <3>1, <3>2
  <2> QED
    BY <2>2, <2>3 DEF InOrder, EndedBy, Terminal
<1>5. EndedBy(Len(seen))' <=> EndedBy(Len(seen)) \/ r.type \in Terminal
  <2>1. EndedBy(Len(seen))'
          <=> \E j \in 1..(Len(seen) + 1) : seen'[j].type \in Terminal
    BY <1>2 DEF EndedBy, Terminal
  <2>2. (\E j \in 1..(Len(seen) + 1) : seen'[j].type \in Terminal)
          <=> (\E j \in 1..Len(seen) : seen'[j].type \in Terminal)
              \/ r.type \in Terminal
    BY <1>2
  <2>3. Len(seen) \in 0..Len(seen)
    BY <1>2
  <2> QED
    BY <1>3, <2>1, <2>2, <2>3
<1> QED
  BY <1>4, <1>5

\* No results, or the same ones of a command whose object is as it was.
LEMMA ShapeSame ==
    ASSUME ShapeInv, UNCHANGED <<seen, cur, protocol, fd, ready>>
    PROVE  ShapeInv'
  BY DEF ShapeInv, InOrder, EndedBy, Terminal

LEMMA ShapeNone ==
    ASSUME seen' = <<>>, cur' = 0 \/ ready' \/ fd' # "open"
    PROVE  ShapeInv'
<1>1. 1..Len(seen') = {}
  OBVIOUS
<1> QED
  BY <1>1 DEF ShapeInv, InOrder, EndedBy

LEMMA ShapeOutput ==
    ASSUME TypeOK, ShapeInv, Output
    PROVE  ShapeInv'
<1>1. UNCHANGED <<cur, protocol>> /\ cur # 0
  BY DEF Output, OutputNoConnection, OutputDone, OutputToken, OutputExpired,
         OutputLost, OutputTokenV1, OutputAgain, OutputInvalid, Return,
         Reading, Expecting, object
<1> SUFFICES ASSUME protocol = 2 PROVE ShapeInv'
  BY <1>1 DEF ShapeInv
<1>2. /\ \A i \in 1..Len(seen) : InOrder(i)
      /\ fd = "open" => (ready <=> ~EndedBy(Len(seen)))
  BY <1>1 DEF ShapeInv
<1>3. /\ Null \in Result /\ Null.type = "NULL" /\ Null.type \notin Terminal
      /\ Done \in Result /\ Done.type = "DONE" /\ Done.type \notin Terminal
  BY Values DEF Null, Done, Terminal
<1>4. ASSUME seen' = Append(seen, Null), fd' # "open" \/ UNCHANGED <<fd, ready>>
      PROVE  ShapeInv'
  <2>1. /\ \A i \in 1..Len(seen') : InOrder(i)'
        /\ EndedBy(Len(seen))' <=> EndedBy(Len(seen))
    BY <1>2, <1>3, <1>4, ShapeReturn
  <2> QED
    BY <1>1, <1>2, <1>4, <2>1 DEF ShapeInv
<1>5. CASE OutputNoConnection
  BY <1>4, <1>5 DEF OutputNoConnection, Return, object
<1>6. CASE OutputDone
  <2>1. /\ seen' = Append(seen, Done) /\ fd = "open" /\ ~ready
        /\ UNCHANGED <<fd, ready>>
    BY <1>6 DEF OutputDone, Return
  <2>2. EndedBy(Len(seen))
    BY <1>2, <2>1
  <2>3. /\ \A i \in 1..Len(seen') : InOrder(i)'
        /\ EndedBy(Len(seen))' <=> EndedBy(Len(seen))
    BY <1>2, <1>3, <2>1, <2>2, ShapeReturn
  <2> QED
    BY <1>1, <2>1, <2>2, <2>3 DEF ShapeInv
<1>7. CASE OutputToken
  <2> DEFINE r == Head(toClient)
  <2>1. /\ fd = "open" /\ ready /\ toClient # <<>> /\ UNCHANGED fd
    BY <1>7 DEF OutputToken, Expecting
  <2>2. ~EndedBy(Len(seen))
    BY <1>2, <2>1
  <2>3. CASE r.type \in {"OUTPUT"} \cup Terminal
    <3>1. seen' = Append(seen, r) /\ ready' = (r.type \notin Terminal)
      BY <1>7, <2>3 DEF OutputToken, Return
    <3>2. r \in Result
      <4>1. r \in Reply
        BY <2>1, TailFacts DEF TypeOK
      <4> QED
        BY <2>3, <4>1 DEF Reply, Result, Terminal
    <3>3. r.type # "DONE"
      BY <2>3 DEF Terminal
    <3> HIDE DEF r
    <3>4. /\ \A i \in 1..Len(seen') : InOrder(i)'
          /\ EndedBy(Len(seen))' <=> r.type \in Terminal
      BY <1>2, <2>2, <3>1, <3>2, <3>3, ShapeReturn
    <3>5. ready' <=> ~EndedBy(Len(seen))'
      BY <3>1, <3>4, Zenon
    <3> QED
      BY <3>4, <3>5 DEF ShapeInv
  <2>4. CASE r.type \notin {"OUTPUT"} \cup Terminal
    <3>1. seen' = Append(seen, Null) /\ UNCHANGED <<fd, ready>>
      BY <1>7, <2>4 DEF OutputToken, Return
    <3> QED
      BY <1>4, <3>1
  <2> QED
    BY <2>3, <2>4
<1>8. CASE OutputExpired
  BY <1>4, <1>8 DEF OutputExpired, Return
<1>9. CASE OutputLost
  <2>1. /\ seen' = Append(seen, Null)
        /\ fd' # "open" \/ UNCHANGED <<fd, ready>>
    BY <1>9 DEF OutputLost, LoseConnection, Return
  <2> QED
    BY <1>4, <2>1
<1>10. ~(OutputTokenV1 \/ OutputAgain \/ OutputInvalid)
  BY DEF OutputTokenV1, OutputAgain, OutputInvalid
<1> QED
  BY <1>5, <1>6, <1>7, <1>8, <1>9, <1>10 DEF Output

LEMMA ShapeStep ==
    ASSUME IInv, ShapeInv, [Next]_vars
    PROVE  ShapeInv'
<1>0. TypeOK /\ CallInv
  BY DEF IInv
<1>1. CASE (\E h \in BOOLEAN : Open(h)) \/ Close
           \/ Begin("command") \/ Begin("noop")
  <2>1. seen' = <<>> /\ cur' = 0
    BY <1>1 DEF Open, Close, Begin
  <2> QED
    BY <2>1, ShapeNone
<1>2. CASE Continue
  <2>1. pc # "idle" /\ UNCHANGED seen
    BY <1>2 DEF Continue, SendStray, SendCommand, SendCommandV1, ReceiveMic,
                MicFails, NoopUnsupported, SendNoop, ReceiveNoop, NoopFails,
                CallFails
  <2>2. seen' = <<>> /\ cur = 0
    BY <1>0, <2>1 DEF CallInv
  <2>3. UNCHANGED cur \/ ready'
    BY <1>2 DEF Continue, SendStray, SendCommand, SendCommandV1, ReceiveMic,
                MicFails, NoopUnsupported, SendNoop, ReceiveNoop, NoopFails,
                CallFails
  <2> QED
    BY <2>2, <2>3, ShapeNone
<1>3. CASE Output
  BY <1>0, <1>3, ShapeOutput
<1>4. CASE ServerStep \/ LinkFails \/ UNCHANGED vars
  <2>1. UNCHANGED <<seen, cur, protocol, fd, ready>>
    BY <1>4
       DEF ServerStep, TakeGarbage, TakeNoop, Refuse, Accept, AcceptV1, Takes,
           ServerOutput, ServerErrs, ServerFinish, ServerExpired, LinkFails, vars, caller,
           object
  <2> QED
    BY <2>1, ShapeSame
<1> QED
  BY <1>1, <1>2, <1>3, <1>4 DEF Next, ClientNext, Freed

\* Under protocol 2 remctl_output returns outputs, then a status or an error,
\* and REMCTL_OUT_DONE from then on and only then, for a command of any number
\* of outputs and however the connection fails meanwhile.
THEOREM ResultsInOrder == Spec => []ResponseShape
<1>1. Init => ShapeInv
  BY DEF Init, ShapeInv
<1>2. ASSUME ShapeInv PROVE ResponseShape
  <2>1. ASSUME protocol = 2, NEW i \in 1..Len(seen)
        PROVE  (seen[i].type = "DONE")
                 = ((\E j \in 1..(i - 1) : seen[j].type \in Terminal)
                    /\ seen[i].type # "NULL")
    <3>1. InOrder(i)
      BY <1>2, <2>1 DEF ShapeInv
    <3> QED
      BY <3>1, Zenon DEF InOrder, EndedBy
  <2> QED
    BY <2>1, Zenon DEF ResponseShape
<1> QED
  BY <1>1, <1>2, ShapeStep, Invariant, PTL DEF Spec
=============================================================================
