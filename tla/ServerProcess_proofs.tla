------------------------ MODULE ServerProcess_proofs ------------------------
(***************************************************************************)
(* Proofs about ServerProcess, for every protocol, every size of the       *)
(* buffers and every amount of output.                                     *)
(*                                                                         *)
(* That the output is complete when server_process_run succeeds rests on   *)
(* two facts the code relies on: the drain loop only starts when the       *)
(* command has been reaped, so it will write nothing more (LoopInv), and a *)
(* pass of the loop that handles no output has found every socket empty or *)
(* at end of file (DrainInv).                                              *)
(***************************************************************************)
EXTENDS ServerProcess, TLAPS

\* Where the control can be: handlers run only inside a pass of the loop, an
\* error ends the loop for good, and the drain loop follows the reaping of
\* the command.
LoopInv ==
    /\ active # {} => inPass
    /\ inPass => pc \in {"dispatch", "drain"}
    /\ gotBreak => pc \in {"close", "wait", "done"}
    /\ pc = "wait" => gotBreak
    /\ "start" \in active => child = "none"
    /\ exiting # "no" => child = "reaped"
    /\ pc # "dispatch" /\ ~gotBreak => child = "reaped"
    /\ pc = "done" => child \in {"none", "reaped"}

\* Where the bytes are.  A stream that is no longer read is empty for good,
\* and so is one that poll reported without data.
FlowInv ==
    \A s \in Streams :
        /\ exitMark[s] <= written[s]
        /\ Protocol # 1 /\ ~gotBreak => sent[s] + sock[s] = written[s]
        /\ child = "none" => ~reading[s]
        /\ child # "none" /\ ~reading[s] => sock[s] = 0 /\ ~PeerOpen
        /\ s \in active => child # "none" /\ (sock[s] > 0 \/ ~PeerOpen)

\* Once a pass of the drain loop has seen no output, every stream it has
\* dealt with is complete.
DrainInv ==
    Protocol # 1 /\ ~gotBreak =>
        /\ pc = "drain" /\ ~sawOutput
              => \A s \in Streams : s \in active \/ sent[s] >= exitMark[s]
        /\ pc \in {"close", "done"}
              => \A s \in Streams : sent[s] >= exitMark[s]

\* An error message or a lost connection comes with leaving the loop.
ErrorInv ==
    /\ errors \in {0, 1}
    /\ gotBreak <=> (errors = 1 \/ fatal)

IInv == TypeOK /\ LoopInv /\ FlowInv /\ DrainInv /\ ErrorInv

-----------------------------------------------------------------------------
\* The streams are not confused with the other events.
LEMMA StreamsFacts ==
    /\ "out" \in Streams
    /\ "start" \notin Streams /\ "stdin" \notin Streams
    /\ "sigchld" \notin Streams
BY DEF Streams

\* A read moves at least nothing and at most what is in the socket, and does
\* not overfill the evbuffer.
LEMMA ReadSizeFacts ==
    ASSUME TypeOK, NEW s \in Streams
    PROVE  /\ ReadSize(s) \in Nat
           /\ ReadSize(s) <= sock[s]
           /\ inbuf[s] + ReadSize(s) <= OutputMax
BY BoundAssumption DEF TypeOK, ReadSize, Min2

\* Beginning a pass of the loop preserves the invariant.
LEMMA PollInv ==
    ASSUME IInv, Poll
    PROVE  IInv'
<1>0. TypeOK /\ LoopInv /\ FlowInv /\ DrainInv /\ ErrorInv
  BY DEF IInv
<1>1. TypeOK'
  BY <1>0, BoundAssumption, StreamsFacts DEF Poll, Ready, Readable, TypeOK,
     loopVars, childVars, outVars, inVars, replyVars
<1>2. LoopInv'
  BY <1>0, StreamsFacts DEF Poll, Ready, Readable, TypeOK, LoopInv,
     loopVars, childVars, outVars, inVars, replyVars
<1>3. FlowInv'
  BY <1>0, StreamsFacts
     DEF Poll, Ready, Readable, TypeOK, LoopInv, FlowInv, PeerOpen,
     loopVars, childVars, outVars, inVars, replyVars
<1>4. DrainInv'
  BY <1>0, StreamsFacts
     DEF Poll, Ready, Readable, TypeOK, LoopInv, FlowInv, DrainInv,
     PeerOpen, loopVars, childVars, outVars, inVars, replyVars
<1>5. ErrorInv'
  BY <1>0 DEF Poll, Ready, Readable, TypeOK, LoopInv, ErrorInv, loopVars,
     childVars, outVars, inVars, replyVars
<1> QED
  BY <1>1, <1>2, <1>3, <1>4, <1>5 DEF IInv

\* Ending a pass preserves the invariant: in the drain loop nothing is active
\* any more, so every stream is complete unless output was seen.
LEMMA EndPassInv ==
    ASSUME IInv, EndPass
    PROVE  IInv'
<1>0. TypeOK /\ LoopInv /\ FlowInv /\ DrainInv /\ ErrorInv
  BY DEF IInv
<1>a. /\ inPass' \in BOOLEAN
      /\ sawOutput' \in BOOLEAN
  BY <1>0, Zenon DEF EndPass, TypeOK, replyVars
<1>1. TypeOK'
  BY <1>0, <1>a, BoundAssumption, StreamsFacts DEF EndPass, TypeOK,
     loopVars, childVars, outVars, inVars, replyVars
<1>2. LoopInv'
  BY <1>0, StreamsFacts DEF EndPass, TypeOK, LoopInv, loopVars, childVars,
     outVars, inVars, replyVars
<1>3. FlowInv'
  BY <1>0, StreamsFacts
     DEF EndPass, TypeOK, LoopInv, FlowInv, PeerOpen, loopVars, childVars,
     outVars, inVars, replyVars
<1>4. DrainInv'
  BY <1>0, StreamsFacts
     DEF EndPass, TypeOK, LoopInv, FlowInv, DrainInv, PeerOpen, loopVars,
     childVars, outVars, inVars, replyVars
<1>5. ErrorInv'
  BY <1>0 DEF EndPass, TypeOK, LoopInv, ErrorInv, loopVars, childVars,
     outVars, inVars, replyVars
<1> QED
  BY <1>1, <1>2, <1>3, <1>4, <1>5 DEF IInv

\* Forking the command preserves the invariant.
LEMMA StartInv ==
    ASSUME IInv, Start
    PROVE  IInv'
<1>0. TypeOK /\ LoopInv /\ FlowInv /\ DrainInv /\ ErrorInv
  BY DEF IInv
<1>a. /\ writing' \in BOOLEAN
  BY <1>0, ModeAssumption DEF Start, Handled, TypeOK
<1>1. TypeOK'
  BY <1>0, <1>a, BoundAssumption, StreamsFacts DEF Start, Handled, TypeOK,
     loopVars, childVars, outVars, inVars, replyVars
<1>2. LoopInv'
  BY <1>0, StreamsFacts DEF Start, Handled, TypeOK, LoopInv, loopVars,
     childVars, outVars, inVars, replyVars
<1>3. FlowInv'
  BY <1>0, StreamsFacts
     DEF Start, Handled, TypeOK, LoopInv, FlowInv, PeerOpen, loopVars,
     childVars, outVars, inVars, replyVars
<1>4. DrainInv'
  BY <1>0, StreamsFacts
     DEF Start, Handled, TypeOK, LoopInv, FlowInv, DrainInv, PeerOpen,
     loopVars, childVars, outVars, inVars, replyVars
<1>5. ErrorInv'
  BY <1>0 DEF Start, Handled, TypeOK, LoopInv, ErrorInv, loopVars,
     childVars, outVars, inVars, replyVars
<1> QED
  BY <1>1, <1>2, <1>3, <1>4, <1>5 DEF IInv

\* Failing to fork the command preserves the invariant.
LEMMA StartFailsInv ==
    ASSUME IInv, StartFails
    PROVE  IInv'
<1>0. TypeOK /\ LoopInv /\ FlowInv /\ DrainInv /\ ErrorInv
  BY DEF IInv
<1>a. /\ gotBreak' \in BOOLEAN
      /\ inPass' \in BOOLEAN
      /\ fatal' \in BOOLEAN
  BY <1>0, Zenon DEF StartFails, LoopBreak, SendError, TypeOK
<1>1. TypeOK'
  BY <1>0, <1>a, BoundAssumption, StreamsFacts DEF StartFails, LoopBreak,
     SendError, TypeOK, loopVars, childVars, outVars, inVars, replyVars
<1>2. LoopInv'
  BY <1>0, StreamsFacts DEF StartFails, LoopBreak, SendError, TypeOK,
     LoopInv, loopVars, childVars, outVars, inVars, replyVars
<1>3. FlowInv'
  BY <1>0, StreamsFacts
     DEF StartFails, LoopBreak, SendError, TypeOK, LoopInv, FlowInv,
     PeerOpen, loopVars, childVars, outVars, inVars, replyVars
<1>4. DrainInv'
  BY <1>0, StreamsFacts
     DEF StartFails, LoopBreak, SendError, TypeOK, LoopInv, FlowInv,
     DrainInv, PeerOpen, loopVars, childVars, outVars, inVars, replyVars
<1>5. ErrorInv'
  BY <1>0 DEF StartFails, LoopBreak, SendError, TypeOK, LoopInv, ErrorInv,
     loopVars, childVars, outVars, inVars, replyVars
<1> QED
  BY <1>1, <1>2, <1>3, <1>4, <1>5 DEF IInv

\* The output handler of protocol 2 preserves the invariant: it has seen
\* output, so the drain loop will make another pass.
LEMMA HandleOutputInv ==
    ASSUME IInv, NEW s \in Streams, HandleOutput(s)
    PROVE  IInv'
<1>0. TypeOK /\ LoopInv /\ FlowInv /\ DrainInv /\ ErrorInv
  BY DEF IInv
<1>a. /\ sawOutput' \in BOOLEAN
      /\ fatal' \in BOOLEAN
      /\ gotBreak' \in BOOLEAN
      /\ inPass' \in BOOLEAN
  BY <1>0, Zenon DEF HandleOutput, Handled, LoopBreak, TypeOK
<1>1. TypeOK'
  BY <1>0, <1>a, BoundAssumption, StreamsFacts,
     ReadSizeFacts DEF HandleOutput, Handled, LoopBreak, TypeOK, loopVars,
     childVars, outVars, inVars, replyVars
<1>2. LoopInv'
  BY <1>0, StreamsFacts DEF HandleOutput, Handled, LoopBreak, TypeOK,
     LoopInv, loopVars, childVars, outVars, inVars, replyVars
<1>3. FlowInv'
  BY <1>0, StreamsFacts, ReadSizeFacts
     DEF HandleOutput, Handled, LoopBreak, TypeOK, LoopInv, FlowInv,
     PeerOpen, loopVars, childVars, outVars, inVars, replyVars
<1>4. DrainInv'
  BY <1>0, StreamsFacts, ReadSizeFacts
     DEF HandleOutput, Handled, LoopBreak, TypeOK, LoopInv, FlowInv,
     DrainInv, PeerOpen, loopVars, childVars, outVars, inVars, replyVars
<1>5. ErrorInv'
  BY <1>0 DEF HandleOutput, Handled, LoopBreak, TypeOK, LoopInv, ErrorInv,
     loopVars, childVars, outVars, inVars, replyVars
<1> QED
  BY <1>1, <1>2, <1>3, <1>4, <1>5 DEF IInv

\* Reading output below the low watermark preserves the invariant.
LEMMA BufferOutputInv ==
    ASSUME IInv, NEW s \in Streams, BufferOutput(s)
    PROVE  IInv'
<1>0. TypeOK /\ LoopInv /\ FlowInv /\ DrainInv /\ ErrorInv
  BY DEF IInv
<1>1. TypeOK'
  BY <1>0, BoundAssumption, StreamsFacts, ReadSizeFacts DEF BufferOutput,
     Handled, TypeOK, loopVars, childVars, outVars, inVars, replyVars
<1>2. LoopInv'
  BY <1>0, StreamsFacts DEF BufferOutput, Handled, TypeOK, LoopInv,
     loopVars, childVars, outVars, inVars, replyVars
<1>3. FlowInv'
  BY <1>0, StreamsFacts, ReadSizeFacts
     DEF BufferOutput, Handled, TypeOK, LoopInv, FlowInv, PeerOpen,
     loopVars, childVars, outVars, inVars, replyVars
<1>4. DrainInv'
  BY <1>0, StreamsFacts, ReadSizeFacts
     DEF BufferOutput, Handled, TypeOK, LoopInv, FlowInv, DrainInv,
     PeerOpen, loopVars, childVars, outVars, inVars, replyVars
<1>5. ErrorInv'
  BY <1>0 DEF BufferOutput, Handled, TypeOK, LoopInv, ErrorInv, loopVars,
     childVars, outVars, inVars, replyVars
<1> QED
  BY <1>1, <1>2, <1>3, <1>4, <1>5 DEF IInv

\* handle_output_full preserves the invariant.
LEMMA HandleOutputFullInv ==
    ASSUME IInv, NEW s \in Streams, HandleOutputFull(s)
    PROVE  IInv'
<1>0. TypeOK /\ LoopInv /\ FlowInv /\ DrainInv /\ ErrorInv
  BY DEF IInv
<1>1. TypeOK'
  BY <1>0, BoundAssumption, StreamsFacts,
     ReadSizeFacts DEF HandleOutputFull, Handled, TypeOK, loopVars,
     childVars, outVars, inVars, replyVars
<1>2. LoopInv'
  BY <1>0, StreamsFacts DEF HandleOutputFull, Handled, TypeOK, LoopInv,
     loopVars, childVars, outVars, inVars, replyVars
<1>3. FlowInv'
  BY <1>0, StreamsFacts, ReadSizeFacts
     DEF HandleOutputFull, Handled, TypeOK, LoopInv, FlowInv, PeerOpen,
     loopVars, childVars, outVars, inVars, replyVars
<1>4. DrainInv'
  BY <1>0, StreamsFacts, ReadSizeFacts
     DEF HandleOutputFull, Handled, TypeOK, LoopInv, FlowInv, DrainInv,
     PeerOpen, loopVars, childVars, outVars, inVars, replyVars
<1>5. ErrorInv'
  BY <1>0 DEF HandleOutputFull, Handled, TypeOK, LoopInv, ErrorInv,
     loopVars, childVars, outVars, inVars, replyVars
<1> QED
  BY <1>1, <1>2, <1>3, <1>4, <1>5 DEF IInv

\* handle_output_discard preserves the invariant.
LEMMA HandleOutputDiscardInv ==
    ASSUME IInv, NEW s \in Streams, HandleOutputDiscard(s)
    PROVE  IInv'
<1>0. TypeOK /\ LoopInv /\ FlowInv /\ DrainInv /\ ErrorInv
  BY DEF IInv
<1>1. TypeOK'
  BY <1>0, BoundAssumption, StreamsFacts,
     ReadSizeFacts DEF HandleOutputDiscard, Handled, TypeOK, loopVars,
     childVars, outVars, inVars, replyVars
<1>2. LoopInv'
  BY <1>0, StreamsFacts DEF HandleOutputDiscard, Handled, TypeOK, LoopInv,
     loopVars, childVars, outVars, inVars, replyVars
<1>3. FlowInv'
  BY <1>0, StreamsFacts, ReadSizeFacts
     DEF HandleOutputDiscard, Handled, TypeOK, LoopInv, FlowInv, PeerOpen,
     loopVars, childVars, outVars, inVars, replyVars
<1>4. DrainInv'
  BY <1>0, StreamsFacts, ReadSizeFacts
     DEF HandleOutputDiscard, Handled, TypeOK, LoopInv, FlowInv, DrainInv,
     PeerOpen, loopVars, childVars, outVars, inVars, replyVars
<1>5. ErrorInv'
  BY <1>0 DEF HandleOutputDiscard, Handled, TypeOK, LoopInv, ErrorInv,
     loopVars, childVars, outVars, inVars, replyVars
<1> QED
  BY <1>1, <1>2, <1>3, <1>4, <1>5 DEF IInv

\* End of file preserves the invariant: the stream is empty, hence complete.
LEMMA HandleEOFInv ==
    ASSUME IInv, NEW s \in Streams, HandleEOF(s)
    PROVE  IInv'
<1>0. TypeOK /\ LoopInv /\ FlowInv /\ DrainInv /\ ErrorInv
  BY DEF IInv
<1>1. TypeOK'
  BY <1>0, BoundAssumption, StreamsFacts DEF HandleEOF, TypeOK, loopVars,
     childVars, outVars, inVars, replyVars
<1>2. LoopInv'
  BY <1>0, StreamsFacts DEF HandleEOF, TypeOK, LoopInv, loopVars, childVars,
     outVars, inVars, replyVars
<1>3. FlowInv'
  BY <1>0, StreamsFacts
     DEF HandleEOF, TypeOK, LoopInv, FlowInv, PeerOpen, loopVars, childVars,
     outVars, inVars, replyVars
<1>4. DrainInv'
  BY <1>0, StreamsFacts
     DEF HandleEOF, TypeOK, LoopInv, FlowInv, DrainInv, PeerOpen, loopVars,
     childVars, outVars, inVars, replyVars
<1>5. ErrorInv'
  BY <1>0 DEF HandleEOF, TypeOK, LoopInv, ErrorInv, loopVars, childVars,
     outVars, inVars, replyVars
<1> QED
  BY <1>1, <1>2, <1>3, <1>4, <1>5 DEF IInv

\* Feeding the command preserves the invariant.
LEMMA WriteInputInv ==
    ASSUME IInv, WriteInput
    PROVE  IInv'
<1>0. TypeOK /\ LoopInv /\ FlowInv /\ DrainInv /\ ErrorInv
  BY DEF IInv
<1>a. /\ writing' \in BOOLEAN
      /\ shut' \in BOOLEAN
  BY <1>0, Zenon DEF WriteInput, Handled, TypeOK
<1>b. toWrite' \in 0..InputLen /\ insock' \in 0..SockCap
  BY <1>0, BoundAssumption DEF WriteInput, TypeOK, Min2
<1>1. TypeOK'
  BY <1>0, <1>a, <1>b, BoundAssumption, StreamsFacts DEF WriteInput,
     Handled, TypeOK, loopVars, childVars, outVars, inVars, replyVars
<1>2. LoopInv'
  BY <1>0, StreamsFacts DEF WriteInput, Handled, TypeOK, LoopInv, loopVars,
     childVars, outVars, inVars, replyVars
<1>3. FlowInv'
  BY <1>0, StreamsFacts
     DEF WriteInput, Handled, TypeOK, LoopInv, FlowInv, PeerOpen, loopVars,
     childVars, outVars, inVars, replyVars
<1>4. DrainInv'
  BY <1>0, StreamsFacts
     DEF WriteInput, Handled, TypeOK, LoopInv, FlowInv, DrainInv, PeerOpen,
     loopVars, childVars, outVars, inVars, replyVars
<1>5. ErrorInv'
  BY <1>0 DEF WriteInput, Handled, TypeOK, LoopInv, ErrorInv, loopVars,
     childVars, outVars, inVars, replyVars
<1> QED
  BY <1>1, <1>2, <1>3, <1>4, <1>5 DEF IInv

\* A command that reads no more input preserves the invariant.
LEMMA InputRefusedInv ==
    ASSUME IInv, InputRefused
    PROVE  IInv'
<1>0. TypeOK /\ LoopInv /\ FlowInv /\ DrainInv /\ ErrorInv
  BY DEF IInv
<1>a. /\ writing' \in BOOLEAN
  BY <1>0, Zenon DEF InputRefused, Handled, TypeOK
<1>1. TypeOK'
  BY <1>0, <1>a, BoundAssumption, StreamsFacts DEF InputRefused, Handled,
     TypeOK, loopVars, childVars, outVars, inVars, replyVars
<1>2. LoopInv'
  BY <1>0, StreamsFacts DEF InputRefused, Handled, TypeOK, LoopInv,
     loopVars, childVars, outVars, inVars, replyVars
<1>3. FlowInv'
  BY <1>0, StreamsFacts
     DEF InputRefused, Handled, TypeOK, LoopInv, FlowInv, PeerOpen,
     loopVars, childVars, outVars, inVars, replyVars
<1>4. DrainInv'
  BY <1>0, StreamsFacts
     DEF InputRefused, Handled, TypeOK, LoopInv, FlowInv, DrainInv,
     PeerOpen, loopVars, childVars, outVars, inVars, replyVars
<1>5. ErrorInv'
  BY <1>0 DEF InputRefused, Handled, TypeOK, LoopInv, ErrorInv, loopVars,
     childVars, outVars, inVars, replyVars
<1> QED
  BY <1>1, <1>2, <1>3, <1>4, <1>5 DEF IInv

\* An error of a read or a write preserves the invariant.
LEMMA HandleIOErrorInv ==
    ASSUME IInv, HandleIOError
    PROVE  IInv'
<1>0. TypeOK /\ LoopInv /\ FlowInv /\ DrainInv /\ ErrorInv
  BY DEF IInv
<1>a. /\ gotBreak' \in BOOLEAN
      /\ inPass' \in BOOLEAN
      /\ fatal' \in BOOLEAN
  BY <1>0, Zenon DEF HandleIOError, LoopBreak, SendError, TypeOK
<1>1. TypeOK'
  BY <1>0, <1>a, BoundAssumption, StreamsFacts DEF HandleIOError, LoopBreak,
     SendError, TypeOK, loopVars, childVars, outVars, inVars, replyVars
<1>2. LoopInv'
  BY <1>0, StreamsFacts DEF HandleIOError, LoopBreak, SendError, TypeOK,
     LoopInv, loopVars, childVars, outVars, inVars, replyVars
<1>3. FlowInv'
  BY <1>0, StreamsFacts
     DEF HandleIOError, LoopBreak, SendError, TypeOK, LoopInv, FlowInv,
     PeerOpen, loopVars, childVars, outVars, inVars, replyVars
<1>4. DrainInv'
  BY <1>0, StreamsFacts
     DEF HandleIOError, LoopBreak, SendError, TypeOK, LoopInv, FlowInv,
     DrainInv, PeerOpen, loopVars, childVars, outVars, inVars, replyVars
<1>5. ErrorInv'
  BY <1>0 DEF HandleIOError, LoopBreak, SendError, TypeOK, LoopInv,
     ErrorInv, loopVars, childVars, outVars, inVars, replyVars
<1> QED
  BY <1>1, <1>2, <1>3, <1>4, <1>5 DEF IInv

\* handle_exit preserves the invariant: it ends the loop only when the command
\* is reaped.
LEMMA HandleExitInv ==
    ASSUME IInv, HandleExit
    PROVE  IInv'
<1>0. TypeOK /\ LoopInv /\ FlowInv /\ DrainInv /\ ErrorInv
  BY DEF IInv
<1>a. /\ sigchld' \in BOOLEAN
  BY <1>0, Zenon DEF HandleExit, TypeOK
<1>1. TypeOK'
  BY <1>0, <1>a, BoundAssumption, StreamsFacts DEF HandleExit, TypeOK,
     loopVars, childVars, outVars, inVars, replyVars
<1>2. LoopInv'
  BY <1>0, StreamsFacts DEF HandleExit, TypeOK, LoopInv, loopVars,
     childVars, outVars, inVars, replyVars
<1>3. FlowInv'
  BY <1>0, StreamsFacts
     DEF HandleExit, TypeOK, LoopInv, FlowInv, PeerOpen, loopVars,
     childVars, outVars, inVars, replyVars
<1>4. DrainInv'
  BY <1>0, StreamsFacts
     DEF HandleExit, TypeOK, LoopInv, FlowInv, DrainInv, PeerOpen, loopVars,
     childVars, outVars, inVars, replyVars
<1>5. ErrorInv'
  BY <1>0 DEF HandleExit, TypeOK, LoopInv, ErrorInv, loopVars, childVars,
     outVars, inVars, replyVars
<1> QED
  BY <1>1, <1>2, <1>3, <1>4, <1>5 DEF IInv

\* A new pass of the drain loop preserves the invariant: a stream that is not
\* ready is empty, hence complete.
LEMMA DrainPassInv ==
    ASSUME IInv, DrainPass
    PROVE  IInv'
<1>0. TypeOK /\ LoopInv /\ FlowInv /\ DrainInv /\ ErrorInv
  BY DEF IInv
<1>1. TypeOK'
  <2>1. active' \subseteq (Streams \cup {"start", "stdin", "sigchld"})
    BY DEF DrainPass, Ready
  <2>2. inPass' \in BOOLEAN /\ sawOutput' \in BOOLEAN
    BY Zenon DEF DrainPass
  <2>3. /\ UNCHANGED <<pc, exiting, gotBreak, child, sigchld, bg, written>>
        /\ UNCHANGED <<exitMark, readIn, sock, inbuf, sent, reading, full>>
        /\ UNCHANGED <<toWrite, insock, writing, shut, errors, fatal, closed>>
    BY DEF DrainPass, childVars, outVars, inVars
  <2> QED
    BY <1>0, <2>1, <2>2, <2>3, SMT DEF TypeOK
<1>2. LoopInv'
  BY <1>0, StreamsFacts DEF DrainPass, Ready, Readable, TypeOK, LoopInv,
     loopVars, childVars, outVars, inVars, replyVars
<1>3. FlowInv'
  BY <1>0, StreamsFacts
     DEF DrainPass, Ready, Readable, TypeOK, LoopInv, FlowInv, PeerOpen,
     loopVars, childVars, outVars, inVars, replyVars
<1>4. DrainInv'
  BY <1>0, StreamsFacts
     DEF DrainPass, Ready, Readable, TypeOK, LoopInv, FlowInv, DrainInv,
     PeerOpen, loopVars, childVars, outVars, inVars, replyVars
<1>5. ErrorInv'
  BY <1>0 DEF DrainPass, Ready, Readable, TypeOK, LoopInv, ErrorInv,
     loopVars, childVars, outVars, inVars, replyVars
<1> QED
  BY <1>1, <1>2, <1>3, <1>4, <1>5 DEF IInv

\* Leaving the drain loop preserves the invariant.
LEMMA DrainDoneInv ==
    ASSUME IInv, DrainDone
    PROVE  IInv'
<1>0. TypeOK /\ LoopInv /\ FlowInv /\ DrainInv /\ ErrorInv
  BY DEF IInv
<1>1. TypeOK'
  BY <1>0, BoundAssumption, StreamsFacts DEF DrainDone, TypeOK, loopVars,
     childVars, outVars, inVars, replyVars
<1>2. LoopInv'
  BY <1>0, StreamsFacts DEF DrainDone, TypeOK, LoopInv, loopVars, childVars,
     outVars, inVars, replyVars
<1>3. FlowInv'
  BY <1>0, StreamsFacts
     DEF DrainDone, TypeOK, LoopInv, FlowInv, PeerOpen, loopVars, childVars,
     outVars, inVars, replyVars
<1>4. DrainInv'
  BY <1>0, StreamsFacts
     DEF DrainDone, TypeOK, LoopInv, FlowInv, DrainInv, PeerOpen, loopVars,
     childVars, outVars, inVars, replyVars
<1>5. ErrorInv'
  BY <1>0 DEF DrainDone, TypeOK, LoopInv, ErrorInv, loopVars, childVars,
     outVars, inVars, replyVars
<1> QED
  BY <1>1, <1>2, <1>3, <1>4, <1>5 DEF IInv

\* Closing the sockets preserves the invariant.
LEMMA CloseSocketsInv ==
    ASSUME IInv, CloseSockets
    PROVE  IInv'
<1>0. TypeOK /\ LoopInv /\ FlowInv /\ DrainInv /\ ErrorInv
  BY DEF IInv
<1>1. TypeOK'
  BY <1>0, BoundAssumption, StreamsFacts DEF CloseSockets, TypeOK, loopVars,
     childVars, outVars, inVars, replyVars
<1>2. LoopInv'
  BY <1>0, StreamsFacts DEF CloseSockets, TypeOK, LoopInv, loopVars,
     childVars, outVars, inVars, replyVars
<1>3. FlowInv'
  BY <1>0, StreamsFacts
     DEF CloseSockets, TypeOK, LoopInv, FlowInv, PeerOpen, loopVars,
     childVars, outVars, inVars, replyVars
<1>4. DrainInv'
  BY <1>0, StreamsFacts
     DEF CloseSockets, TypeOK, LoopInv, FlowInv, DrainInv, PeerOpen,
     loopVars, childVars, outVars, inVars, replyVars
<1>5. ErrorInv'
  BY <1>0 DEF CloseSockets, TypeOK, LoopInv, ErrorInv, loopVars, childVars,
     outVars, inVars, replyVars
<1> QED
  BY <1>1, <1>2, <1>3, <1>4, <1>5 DEF IInv

\* Waiting for the command preserves the invariant.
LEMMA WaitChildInv ==
    ASSUME IInv, WaitChild
    PROVE  IInv'
<1>0. TypeOK /\ LoopInv /\ FlowInv /\ DrainInv /\ ErrorInv
  BY DEF IInv
<1>1. TypeOK'
  BY <1>0, BoundAssumption, StreamsFacts DEF WaitChild, TypeOK, loopVars,
     childVars, outVars, inVars, replyVars
<1>2. LoopInv'
  BY <1>0, StreamsFacts DEF WaitChild, TypeOK, LoopInv, loopVars, childVars,
     outVars, inVars, replyVars
<1>3. FlowInv'
  BY <1>0, StreamsFacts
     DEF WaitChild, TypeOK, LoopInv, FlowInv, PeerOpen, loopVars, childVars,
     outVars, inVars, replyVars
<1>4. DrainInv'
  BY <1>0, StreamsFacts
     DEF WaitChild, TypeOK, LoopInv, FlowInv, DrainInv, PeerOpen, loopVars,
     childVars, outVars, inVars, replyVars
<1>5. ErrorInv'
  BY <1>0 DEF WaitChild, TypeOK, LoopInv, ErrorInv, loopVars, childVars,
     outVars, inVars, replyVars
<1> QED
  BY <1>1, <1>2, <1>3, <1>4, <1>5 DEF IInv

\* Output of the command preserves the invariant.
LEMMA ChildWriteInv ==
    ASSUME IInv, NEW s \in Streams, ChildWrite(s)
    PROVE  IInv'
<1>0. TypeOK /\ LoopInv /\ FlowInv /\ DrainInv /\ ErrorInv
  BY DEF IInv
<1>1. TypeOK'
  BY <1>0, BoundAssumption, StreamsFacts DEF ChildWrite, TypeOK, loopVars,
     childVars, outVars, inVars, replyVars
<1>2. LoopInv'
  BY <1>0, StreamsFacts DEF ChildWrite, TypeOK, LoopInv, loopVars,
     childVars, outVars, inVars, replyVars
<1>3. FlowInv'
  BY <1>0, StreamsFacts
     DEF ChildWrite, TypeOK, LoopInv, FlowInv, PeerOpen, loopVars,
     childVars, outVars, inVars, replyVars
<1>4. DrainInv'
  BY <1>0, StreamsFacts
     DEF ChildWrite, TypeOK, LoopInv, FlowInv, DrainInv, PeerOpen, loopVars,
     childVars, outVars, inVars, replyVars
<1>5. ErrorInv'
  BY <1>0 DEF ChildWrite, TypeOK, LoopInv, ErrorInv, loopVars, childVars,
     outVars, inVars, replyVars
<1> QED
  BY <1>1, <1>2, <1>3, <1>4, <1>5 DEF IInv

\* Reading input by the command preserves the invariant.
LEMMA ChildReadInv ==
    ASSUME IInv, ChildRead
    PROVE  IInv'
<1>0. TypeOK /\ LoopInv /\ FlowInv /\ DrainInv /\ ErrorInv
  BY DEF IInv
<1>1. TypeOK'
  BY <1>0, BoundAssumption, StreamsFacts DEF ChildRead, TypeOK, loopVars,
     childVars, outVars, inVars, replyVars
<1>2. LoopInv'
  BY <1>0, StreamsFacts DEF ChildRead, TypeOK, LoopInv, loopVars, childVars,
     outVars, inVars, replyVars
<1>3. FlowInv'
  BY <1>0, StreamsFacts
     DEF ChildRead, TypeOK, LoopInv, FlowInv, PeerOpen, loopVars, childVars,
     outVars, inVars, replyVars
<1>4. DrainInv'
  BY <1>0, StreamsFacts
     DEF ChildRead, TypeOK, LoopInv, FlowInv, DrainInv, PeerOpen, loopVars,
     childVars, outVars, inVars, replyVars
<1>5. ErrorInv'
  BY <1>0 DEF ChildRead, TypeOK, LoopInv, ErrorInv, loopVars, childVars,
     outVars, inVars, replyVars
<1> QED
  BY <1>1, <1>2, <1>3, <1>4, <1>5 DEF IInv

\* The exit of the command preserves the invariant.
LEMMA ChildExitInv ==
    ASSUME IInv, ChildExit
    PROVE  IInv'
<1>0. TypeOK /\ LoopInv /\ FlowInv /\ DrainInv /\ ErrorInv
  BY DEF IInv
<1>a. /\ sigchld' \in BOOLEAN
      /\ bg' \in BOOLEAN
  BY <1>0, Zenon DEF ChildExit, TypeOK
<1>1. TypeOK'
  BY <1>0, <1>a, BoundAssumption, StreamsFacts DEF ChildExit, TypeOK,
     loopVars, childVars, outVars, inVars, replyVars
<1>2. LoopInv'
  BY <1>0, StreamsFacts DEF ChildExit, TypeOK, LoopInv, loopVars, childVars,
     outVars, inVars, replyVars
<1>3. FlowInv'
  BY <1>0, StreamsFacts
     DEF ChildExit, TypeOK, LoopInv, FlowInv, PeerOpen, loopVars, childVars,
     outVars, inVars, replyVars
<1>4. DrainInv'
  BY <1>0, StreamsFacts
     DEF ChildExit, TypeOK, LoopInv, FlowInv, DrainInv, PeerOpen, loopVars,
     childVars, outVars, inVars, replyVars
<1>5. ErrorInv'
  BY <1>0 DEF ChildExit, TypeOK, LoopInv, ErrorInv, loopVars, childVars,
     outVars, inVars, replyVars
<1> QED
  BY <1>1, <1>2, <1>3, <1>4, <1>5 DEF IInv

\* A SIGCHLD without an exit preserves the invariant.
LEMMA ChildStopsInv ==
    ASSUME IInv, ChildStops
    PROVE  IInv'
<1>0. TypeOK /\ LoopInv /\ FlowInv /\ DrainInv /\ ErrorInv
  BY DEF IInv
<1>1. TypeOK'
  BY <1>0, BoundAssumption, StreamsFacts DEF ChildStops, TypeOK, loopVars,
     childVars, outVars, inVars, replyVars
<1>2. LoopInv'
  BY <1>0, StreamsFacts DEF ChildStops, TypeOK, LoopInv, loopVars,
     childVars, outVars, inVars, replyVars
<1>3. FlowInv'
  BY <1>0, StreamsFacts
     DEF ChildStops, TypeOK, LoopInv, FlowInv, PeerOpen, loopVars,
     childVars, outVars, inVars, replyVars
<1>4. DrainInv'
  BY <1>0, StreamsFacts
     DEF ChildStops, TypeOK, LoopInv, FlowInv, DrainInv, PeerOpen, loopVars,
     childVars, outVars, inVars, replyVars
<1>5. ErrorInv'
  BY <1>0 DEF ChildStops, TypeOK, LoopInv, ErrorInv, loopVars, childVars,
     outVars, inVars, replyVars
<1> QED
  BY <1>1, <1>2, <1>3, <1>4, <1>5 DEF IInv

\* Output of a descendant preserves the invariant.
LEMMA DescendantWriteInv ==
    ASSUME IInv, NEW s \in Streams, DescendantWrite(s)
    PROVE  IInv'
<1>0. TypeOK /\ LoopInv /\ FlowInv /\ DrainInv /\ ErrorInv
  BY DEF IInv
<1>1. TypeOK'
  BY <1>0, BoundAssumption, StreamsFacts DEF DescendantWrite, TypeOK,
     loopVars, childVars, outVars, inVars, replyVars
<1>2. LoopInv'
  BY <1>0, StreamsFacts DEF DescendantWrite, TypeOK, LoopInv, loopVars,
     childVars, outVars, inVars, replyVars
<1>3. FlowInv'
  BY <1>0, StreamsFacts
     DEF DescendantWrite, TypeOK, LoopInv, FlowInv, PeerOpen, loopVars,
     childVars, outVars, inVars, replyVars
<1>4. DrainInv'
  BY <1>0, StreamsFacts
     DEF DescendantWrite, TypeOK, LoopInv, FlowInv, DrainInv, PeerOpen,
     loopVars, childVars, outVars, inVars, replyVars
<1>5. ErrorInv'
  BY <1>0 DEF DescendantWrite, TypeOK, LoopInv, ErrorInv, loopVars,
     childVars, outVars, inVars, replyVars
<1> QED
  BY <1>1, <1>2, <1>3, <1>4, <1>5 DEF IInv

\* The exit of a descendant preserves the invariant.
LEMMA DescendantExitInv ==
    ASSUME IInv, DescendantExit
    PROVE  IInv'
<1>0. TypeOK /\ LoopInv /\ FlowInv /\ DrainInv /\ ErrorInv
  BY DEF IInv
<1>a. /\ bg' \in BOOLEAN
  BY <1>0, Zenon DEF DescendantExit, TypeOK
<1>1. TypeOK'
  BY <1>0, <1>a, BoundAssumption, StreamsFacts DEF DescendantExit, TypeOK,
     loopVars, childVars, outVars, inVars, replyVars
<1>2. LoopInv'
  BY <1>0, StreamsFacts DEF DescendantExit, TypeOK, LoopInv, loopVars,
     childVars, outVars, inVars, replyVars
<1>3. FlowInv'
  BY <1>0, StreamsFacts
     DEF DescendantExit, TypeOK, LoopInv, FlowInv, PeerOpen, loopVars,
     childVars, outVars, inVars, replyVars
<1>4. DrainInv'
  BY <1>0, StreamsFacts
     DEF DescendantExit, TypeOK, LoopInv, FlowInv, DrainInv, PeerOpen,
     loopVars, childVars, outVars, inVars, replyVars
<1>5. ErrorInv'
  BY <1>0 DEF DescendantExit, TypeOK, LoopInv, ErrorInv, loopVars,
     childVars, outVars, inVars, replyVars
<1> QED
  BY <1>1, <1>2, <1>3, <1>4, <1>5 DEF IInv

-----------------------------------------------------------------------------
\* The initial state satisfies the inductive invariant.
LEMMA InitInv == Init => IInv
<1> SUFFICES ASSUME Init PROVE IInv
  OBVIOUS
<1>a. /\ written \in [Streams -> Nat] /\ exitMark \in [Streams -> Nat]
      /\ sock \in [Streams -> 0..SockCap] /\ sent \in [Streams -> Nat]
      /\ inbuf \in [Streams -> 0..OutputMax]
      /\ reading \in [Streams -> BOOLEAN]
      /\ readIn \in Nat /\ errors \in Nat
      /\ toWrite \in 0..InputLen /\ insock \in 0..SockCap
  BY BoundAssumption DEF Init
<1>1. TypeOK
  BY <1>a, Zenon DEF Init, TypeOK
<1>2. LoopInv /\ DrainInv /\ ErrorInv
  BY DEF Init, LoopInv, DrainInv, ErrorInv
<1>3. FlowInv
  BY DEF Init, FlowInv, PeerOpen
<1> QED
  BY <1>1, <1>2, <1>3 DEF IInv

\* Every step of the server, the command and its descendant preserves the
\* inductive invariant.
LEMMA NextInv == IInv /\ [Next]_vars => IInv'
<1> SUFFICES ASSUME IInv, [Next]_vars PROVE IInv'
  OBVIOUS
<1>1. CASE Server
  BY <1>1, PollInv, EndPassInv, StartInv, StartFailsInv, HandleOutputInv,
     BufferOutputInv, HandleOutputFullInv, HandleOutputDiscardInv,
     HandleEOFInv, WriteInputInv, InputRefusedInv, HandleIOErrorInv,
     HandleExitInv, DrainPassInv, DrainDoneInv, CloseSocketsInv, WaitChildInv
     DEF Server
<1>2. CASE Child
  BY <1>2, ChildWriteInv, ChildReadInv, ChildExitInv DEF Child
<1>3. CASE ChildStops
  BY <1>3, ChildStopsInv
<1>4. CASE Descendant
  BY <1>4, DescendantWriteInv, DescendantExitInv DEF Descendant
<1>5. CASE UNCHANGED vars
  <2>1. TypeOK'
    BY <1>5 DEF vars, loopVars, childVars, outVars, inVars, replyVars, IInv,
                TypeOK
  <2>2. LoopInv' /\ FlowInv' /\ DrainInv' /\ ErrorInv'
    BY <1>5 DEF vars, loopVars, childVars, outVars, inVars, replyVars, IInv,
                LoopInv, FlowInv, DrainInv, ErrorInv, PeerOpen
  <2> QED
    BY <2>1, <2>2 DEF IInv
<1> QED
  BY <1>1, <1>2, <1>3, <1>4, <1>5 DEF Next, Returned

\* The inductive invariant holds in every reachable state.
THEOREM Invariance == Spec => []IInv
BY InitInv, NextInv, PTL DEF Spec

\* Every variable keeps its type, and no buffer exceeds its capacity.
THEOREM TypeCorrect == Spec => []TypeOK
BY Invariance, PTL DEF IInv

\* Under protocol 2 a successful server_process_run has forwarded everything
\* the command wrote, whatever the sizes of the buffers, however much it
\* wrote and whenever it exited.
THEOREM Complete == Spec => []CompleteOnSuccess
<1>1. IInv => CompleteOnSuccess
  BY DEF IInv, DrainInv, CompleteOnSuccess
<1> QED
  BY <1>1, Invariance, PTL

\* server_process_run fails exactly when it has sent its one error message or
\* lost the connection.
THEOREM Errors == Spec => []ErrorIffFailed
<1>1. IInv => ErrorIffFailed
  BY DEF IInv, ErrorInv, ErrorIffFailed
<1> QED
  BY <1>1, Invariance, PTL

\* The command has been reaped when server_process_run returns.
THEOREM Reaped == Spec => []ReapedOnReturn
<1>1. IInv => ReapedOnReturn
  BY DEF IInv, LoopInv, ReapedOnReturn
<1> QED
  BY <1>1, Invariance, PTL

\* Nothing is forwarded after an error message: the loop that runs the output
\* handlers has been left for good.
THEOREM ErrorIsLast == Spec => NoOutputAfterError
<1>1. IInv /\ [Next]_vars => [errors > 0 => sent' = sent]_vars
  <2> SUFFICES ASSUME IInv, Next, errors > 0 PROVE sent' = sent
    OBVIOUS
  <2>1. gotBreak /\ active = {}
    BY DEF IInv, ErrorInv, LoopInv, TypeOK
  <2>2. CASE Server
    BY <2>1, <2>2
       DEF Server, Poll, EndPass, Start, StartFails, HandleOutput,
           BufferOutput, HandleOutputFull, HandleOutputDiscard, HandleEOF,
           WriteInput, InputRefused, HandleIOError, HandleExit, DrainPass,
           DrainDone, CloseSockets, WaitChild, outVars
  <2>3. CASE Child \/ ChildStops \/ Descendant \/ Returned
    BY <2>3
       DEF Child, ChildWrite, ChildRead, ChildExit, ChildStops, Descendant,
           DescendantWrite, DescendantExit, Returned, vars, outVars
  <2> QED
    BY <2>2, <2>3 DEF Next
<1> QED
  BY <1>1, Invariance, PTL DEF Spec, NoOutputAfterError
=============================================================================
