---------------------------- MODULE ServerProcess ----------------------------
(***************************************************************************)
(* One call of server_process_run (server/process.c): the server forks the *)
(* command, feeds its standard input, forwards its output, and returns     *)
(* once the command has been reaped and its output collected.              *)
(*                                                                         *)
(* Actors: the event loop of the server (one action per libevent callback, *)
(* passes of the loop made explicit), the command, and a descendant of the *)
(* command that keeps the socket pairs open after the command has exited.  *)
(*                                                                         *)
(* Data are counted, not spelled out: sockets and evbuffers are FIFO, so   *)
(* the number of bytes that have passed each point says which ones.        *)
(* Protocol 2 also stands for protocol 3 and for remctl-shell, whose       *)
(* output handler has the same effects.                                    *)
(***************************************************************************)
EXTENDS Naturals

CONSTANTS
    Protocol,     \* client->protocol: 1, or 2 for every later one
    HasInput,     \* process->input # NULL
    InputLen,     \* bytes of process->input
    ChildWrites,  \* bound: bytes the command writes to each stream
    LateWrites,   \* bound: bytes a descendant writes after the command exits
    Filter,       \* the command is a filter: it echoes its input until EOF
    SockCap,      \* capacity of each direction of a socket pair
    ReadMax,      \* bytes libevent reads from a socket in one callback
    OutputMax     \* TOKEN_MAX_OUTPUT_V1 or TOKEN_MAX_OUTPUT

ASSUME ProtocolAssumption == Protocol \in {1, 2}
ASSUME ModeAssumption == HasInput \in BOOLEAN /\ Filter \in BOOLEAN
ASSUME BoundAssumption ==
    /\ InputLen \in Nat /\ ChildWrites \in Nat /\ LateWrites \in Nat
    /\ SockCap \in Nat \ {0} /\ ReadMax \in Nat \ {0}
    /\ OutputMax \in Nat \ {0}

VARIABLES
    pc,         \* where server_process_run is
    active,     \* events the current pass of the loop has still to run
    inPass,     \* a pass of event_base_loop is under way
    exiting,    \* event_base_loopexit: not called, timer queued, timer run
    gotBreak,   \* event_base_got_break
    child,      \* the command: none, running, zombie, reaped
    sigchld,    \* a SIGCHLD is pending
    bg,         \* a descendant still holds the command's ends of the sockets
    written,    \* bytes written to each stream
    exitMark,   \* bytes the command itself had written when it exited
    readIn,     \* bytes of input the command has read
    sock,       \* bytes in the socket, written and not read by the server
    inbuf,      \* bytes in the input evbuffer of each bufferevent
    sent,       \* bytes sent to the client (protocol 1: in process->output)
    reading,    \* EV_READ is enabled
    toWrite,    \* bytes of input still in the output evbuffer
    insock,     \* bytes of input in the socket, not read by the command
    writing,    \* EV_WRITE is enabled
    shut,       \* the server has shut down its writing side
    closed,     \* the server has closed its ends of the socket pairs
    sawOutput,  \* process->saw_output
    errors,     \* error messages sent to the client
    fatal,      \* client->fatal
    full        \* protocol 1: process->output # NULL inside the loop

loopVars  == <<pc, active, inPass, exiting, gotBreak>>
childVars == <<child, sigchld, bg, written, exitMark, readIn>>
outVars   == <<sock, inbuf, sent, reading, full>>
inVars    == <<toWrite, insock, writing, shut>>
replyVars == <<sawOutput, errors, fatal>>
vars      == <<loopVars, childVars, outVars, inVars, replyVars, closed>>

Min2(a, b) == IF a < b THEN a ELSE b

\* Protocol 1 gives the command one socket pair for both output streams.
Streams == IF Protocol = 1 THEN {"out"} ELSE {"out", "err"}

Init ==
    /\ pc = "dispatch" /\ active = {} /\ inPass = FALSE
    /\ exiting = "no" /\ gotBreak = FALSE
    /\ child = "none" /\ sigchld = FALSE /\ bg = FALSE /\ readIn = 0
    /\ written = [s \in Streams |-> 0] /\ exitMark = [s \in Streams |-> 0]
    /\ sock = [s \in Streams |-> 0] /\ inbuf = [s \in Streams |-> 0]
    /\ sent = [s \in Streams |-> 0]
    /\ reading = [s \in Streams |-> FALSE] /\ full = FALSE
    /\ toWrite = 0 /\ insock = 0 /\ writing = FALSE /\ shut = FALSE
    /\ sawOutput = FALSE /\ errors = 0 /\ fatal = FALSE /\ closed = FALSE

-----------------------------------------------------------------------------
(* The command and its descendant *)

\* Somebody still holds the command's end of the socket pairs.
PeerOpen == child = "running" \/ bg

\* A read of standard input by the command returns end of file.
AtEOF == closed \/ ~HasInput \/ (shut /\ insock = 0)

ChildWrite(s) ==
    /\ child = "running" /\ ~closed
    /\ IF Filter THEN s = "out" /\ written[s] < readIn
                 ELSE written[s] < ChildWrites
    /\ sock[s] < SockCap
    /\ written' = [written EXCEPT ![s] = @ + 1]
    /\ sock' = [sock EXCEPT ![s] = @ + 1]
    /\ UNCHANGED <<loopVars, child, sigchld, bg, exitMark, readIn, inbuf,
                   sent, reading, full, inVars, replyVars, closed>>

ChildRead ==
    /\ child = "running" /\ insock > 0 /\ ~closed
    /\ Filter => written["out"] = readIn
    /\ insock' = insock - 1
    /\ readIn' = readIn + 1
    /\ UNCHANGED <<loopVars, child, sigchld, bg, written, exitMark, outVars,
                   toWrite, writing, shut, replyVars, closed>>

\* A filter exits once it has echoed all its input; any other command may
\* exit at any time.  It may leave a descendant behind.
ChildExit ==
    /\ child = "running"
    /\ Filter => AtEOF /\ (closed \/ written["out"] = readIn)
    /\ child' = "zombie"
    /\ sigchld' = TRUE
    /\ exitMark' = written
    /\ bg' \in (IF LateWrites > 0 THEN BOOLEAN ELSE {FALSE})
    /\ UNCHANGED <<loopVars, written, readIn, outVars, inVars, replyVars,
                   closed>>

\* SIGCHLD is also sent when the command stops or continues.
ChildStops ==
    /\ child = "running" /\ ~sigchld
    /\ sigchld' = TRUE
    /\ UNCHANGED <<loopVars, child, bg, written, exitMark, readIn, outVars,
                   inVars, replyVars, closed>>

DescendantWrite(s) ==
    /\ bg /\ ~closed
    /\ written[s] < exitMark[s] + LateWrites
    /\ sock[s] < SockCap
    /\ written' = [written EXCEPT ![s] = @ + 1]
    /\ sock' = [sock EXCEPT ![s] = @ + 1]
    /\ UNCHANGED <<loopVars, child, sigchld, bg, exitMark, readIn, inbuf,
                   sent, reading, full, inVars, replyVars, closed>>

DescendantExit ==
    /\ bg
    /\ bg' = FALSE
    /\ UNCHANGED <<loopVars, child, sigchld, written, exitMark, readIn,
                   outVars, inVars, replyVars, closed>>

-----------------------------------------------------------------------------
(* The event loop *)

\* poll reports a stream that has data or whose other end is closed.
Readable(s) == reading[s] /\ (sock[s] > 0 \/ ~PeerOpen)

Writable == writing /\ (insock < SockCap \/ ~PeerOpen)

Ready ==
    {s \in Streams : Readable(s)}
    \cup (IF child = "none" THEN {"start"} ELSE {})
    \cup (IF Writable THEN {"stdin"} ELSE {})
    \cup (IF sigchld /\ child # "reaped" THEN {"sigchld"} ELSE {})

\* event_base_loopbreak: the loop returns as soon as the handler does, and
\* server_process_run skips the drain loop.
LoopBreak ==
    /\ gotBreak' = TRUE
    /\ pc' = "close"
    /\ active' = {}
    /\ inPass' = FALSE
    /\ UNCHANGED exiting

\* client->error: one more error message.  Sending it may fail, which the
\* handlers of protocol 2 record in client->fatal.
SendError ==
    /\ errors' = errors + 1
    /\ fatal' \in (IF Protocol = 1 THEN {fatal} ELSE {fatal, TRUE})

\* A handler of the current pass has run.
Handled(e) ==
    /\ active' = active \ {e}
    /\ UNCHANGED <<pc, inPass, exiting, gotBreak>>

\* A blocking pass of event_base_dispatch begins.
Poll ==
    /\ pc = "dispatch" /\ ~inPass
    /\ Ready # {} \/ exiting = "queued"
    /\ active' = Ready
    /\ inPass' = TRUE
    /\ exiting' = IF exiting = "queued" THEN "term" ELSE exiting
    /\ UNCHANGED <<pc, gotBreak, childVars, outVars, inVars, replyVars, closed>>

\* Every event of the pass has been handled: the loop returns if the exit
\* timer has run, and goes on otherwise.  One pass is all a nonblocking
\* call of event_base_loop makes.
EndPass ==
    /\ inPass /\ active = {}
    /\ inPass' = FALSE
    /\ IF pc = "dispatch" /\ exiting = "term"
       THEN pc' = "drain" /\ sawOutput' = TRUE
       ELSE UNCHANGED <<pc, sawOutput>>
    /\ UNCHANGED <<active, exiting, gotBreak, childVars, outVars, inVars,
                   errors, fatal, closed>>

\* The one-shot event that creates the socket pairs, forks the command and
\* installs the bufferevents.
Start ==
    /\ "start" \in active
    /\ Handled("start")
    /\ child' = "running"
    /\ reading' = [s \in Streams |-> TRUE]
    /\ toWrite' = IF HasInput THEN InputLen ELSE 0
    /\ writing' = HasInput
    /\ UNCHANGED <<sigchld, bg, written, exitMark, readIn, sock, inbuf, sent,
                   full, insock, shut, replyVars, closed>>

\* No error message when the command cannot be started.
MutStartFails ==
    /\ "start" \in active
    /\ LoopBreak
    /\ UNCHANGED <<childVars, outVars, inVars, replyVars, closed>>

\* socketpair or fork fails.
StartFails ==
    /\ "start" \in active
    /\ LoopBreak
    /\ SendError
    /\ UNCHANGED <<childVars, outVars, inVars, sawOutput, closed>>

\* Bytes one read callback moves from the socket into the evbuffer: at most
\* ReadMax, and no more than the high watermark leaves room for.
ReadSize(s) == Min2(Min2(sock[s], ReadMax), OutputMax - inbuf[s])

\* handle_output of server-v2.c without the assignment to saw_output.
MutHandleOutput(s) ==
    /\ Protocol # 1 /\ s \in active /\ sock[s] > 0
    /\ sock' = [sock EXCEPT ![s] = @ - ReadSize(s)]
    /\ \/ /\ sent' = [sent EXCEPT ![s] = @ + ReadSize(s)]
          /\ Handled(s)
          /\ UNCHANGED fatal
       \/ /\ fatal' = TRUE
          /\ LoopBreak
          /\ UNCHANGED sent
    /\ UNCHANGED <<childVars, inbuf, reading, full, inVars, sawOutput, errors,
                   closed>>

\* handle_output of server-v2.c and server-ssh.c: forward the whole evbuffer;
\* when that fails the connection is lost.
HandleOutput(s) ==
    /\ Protocol # 1 /\ s \in active /\ sock[s] > 0
    /\ sock' = [sock EXCEPT ![s] = @ - ReadSize(s)]
    /\ sawOutput' = TRUE
    /\ \/ /\ sent' = [sent EXCEPT ![s] = @ + ReadSize(s)]
          /\ Handled(s)
          /\ UNCHANGED fatal
       \/ /\ fatal' = TRUE
          /\ LoopBreak
          /\ UNCHANGED sent
    /\ UNCHANGED <<childVars, inbuf, reading, full, inVars, errors, closed>>

\* Protocol 1, evbuffer below the low watermark: no callback runs.
BufferOutput(s) ==
    /\ Protocol = 1 /\ s \in active /\ sock[s] > 0
    /\ inbuf[s] + ReadSize(s) < OutputMax
    /\ sock' = [sock EXCEPT ![s] = @ - ReadSize(s)]
    /\ inbuf' = [inbuf EXCEPT ![s] = @ + ReadSize(s)]
    /\ Handled(s)
    /\ UNCHANGED <<childVars, sent, reading, full, inVars, replyVars, closed>>

\* handle_output_full: the evbuffer becomes process->output.
HandleOutputFull(s) ==
    /\ Protocol = 1 /\ s \in active /\ sock[s] > 0 /\ ~full
    /\ inbuf[s] + ReadSize(s) >= OutputMax
    /\ sock' = [sock EXCEPT ![s] = @ - ReadSize(s)]
    /\ sent' = [sent EXCEPT ![s] = inbuf[s] + ReadSize(s)]
    /\ inbuf' = [inbuf EXCEPT ![s] = 0]
    /\ full' = TRUE
    /\ Handled(s)
    /\ UNCHANGED <<childVars, reading, inVars, replyVars, closed>>

\* Stop reading instead of discarding.
MutHandleOutputDiscard(s) ==
    /\ Protocol = 1 /\ s \in active /\ sock[s] > 0 /\ full
    /\ inbuf[s] + ReadSize(s) >= OutputMax
    /\ reading' = [reading EXCEPT ![s] = FALSE]
    /\ Handled(s)
    /\ UNCHANGED <<childVars, sock, inbuf, sent, full, inVars, replyVars,
                   closed>>

\* handle_output_discard: what exceeds the limit is thrown away.
HandleOutputDiscard(s) ==
    /\ Protocol = 1 /\ s \in active /\ sock[s] > 0 /\ full
    /\ inbuf[s] + ReadSize(s) >= OutputMax
    /\ sock' = [sock EXCEPT ![s] = @ - ReadSize(s)]
    /\ inbuf' = [inbuf EXCEPT ![s] = 0]
    /\ Handled(s)
    /\ UNCHANGED <<childVars, sent, reading, full, inVars, replyVars, closed>>

\* server_handle_io_event on end of file, or on the ECONNRESET that the
\* kernel reports instead when the command left input unread: libevent has
\* disabled reading, and ECONNRESET also disables writing.
HandleEOF(s) ==
    /\ s \in active /\ sock[s] = 0
    /\ reading' = [reading EXCEPT ![s] = FALSE]
    /\ LET reset == s = "out" /\ insock > 0
       IN /\ writing' = (writing /\ ~reset)
          /\ active' = active \ ({s} \cup IF reset THEN {"stdin"} ELSE {})
    /\ UNCHANGED <<pc, inPass, exiting, gotBreak, childVars, sock, inbuf, sent,
                   full, toWrite, insock, shut, replyVars, closed>>

\* bufferevent_write to the command, then server_handle_input_end when the
\* buffer is empty.
WriteInput ==
    /\ "stdin" \in active /\ PeerOpen
    /\ LET n == Min2(toWrite, SockCap - insock)
       IN /\ toWrite' = toWrite - n
          /\ insock' = insock + n
          /\ writing' = (toWrite # n)
          /\ shut' = (toWrite = n)
    /\ Handled("stdin")
    /\ UNCHANGED <<childVars, outVars, replyVars, closed>>

\* server_handle_io_event on EPIPE: nobody will read the rest of the input.
InputRefused ==
    /\ "stdin" \in active /\ ~PeerOpen
    /\ writing' = FALSE
    /\ Handled("stdin")
    /\ UNCHANGED <<childVars, outVars, toWrite, insock, shut, replyVars, closed>>

\* Report the error and stay in the loop.
MutHandleIOError ==
    /\ \E e \in active \cap (Streams \cup {"stdin"}) : Handled(e)
    /\ SendError
    /\ UNCHANGED <<childVars, outVars, inVars, sawOutput, closed>>

\* server_handle_io_event on any other error of a read or a write.
HandleIOError ==
    /\ active \cap (Streams \cup {"stdin"}) # {}
    /\ LoopBreak
    /\ SendError
    /\ UNCHANGED <<childVars, outVars, inVars, sawOutput, closed>>

\* Take every SIGCHLD for the exit of the command.
MutHandleExit ==
    /\ "sigchld" \in active
    /\ sigchld' = FALSE
    /\ exiting' \in {"queued", "term"}
    /\ child' = IF child = "zombie" THEN "reaped" ELSE child
    /\ active' = active \ {"sigchld"}
    /\ UNCHANGED <<pc, inPass, gotBreak, bg, written, exitMark, readIn,
                   outVars, inVars, replyVars, closed>>

\* handle_exit: reap the command if it has exited.  Depending on its version
\* libevent runs the exit timer in this pass or in the next one.
HandleExit ==
    /\ "sigchld" \in active
    /\ sigchld' = FALSE
    /\ IF child = "zombie"
       THEN child' = "reaped" /\ exiting' \in {"queued", "term"}
       ELSE UNCHANGED <<child, exiting>>
    /\ active' = active \ {"sigchld"}
    /\ UNCHANGED <<pc, inPass, gotBreak, bg, written, exitMark, readIn,
                   outVars, inVars, replyVars, closed>>

-----------------------------------------------------------------------------
(* server_process_run after event_base_dispatch *)

\* saw_output is not reset before the pass.
MutDrainPass ==
    /\ pc = "drain" /\ ~inPass /\ sawOutput
    /\ active' = Ready
    /\ inPass' = TRUE
    /\ UNCHANGED <<pc, exiting, gotBreak, childVars, outVars, inVars,
                   replyVars, closed>>

\* Another nonblocking pass, because the last one saw output.
DrainPass ==
    /\ pc = "drain" /\ ~inPass /\ sawOutput
    /\ sawOutput' = FALSE
    /\ active' = Ready
    /\ inPass' = TRUE
    /\ UNCHANGED <<pc, exiting, gotBreak, childVars, outVars, inVars, errors,
                   fatal, closed>>

DrainDone ==
    /\ pc = "drain" /\ ~inPass /\ ~sawOutput
    /\ pc' = "close"
    /\ UNCHANGED <<active, inPass, exiting, gotBreak, childVars, outVars,
                   inVars, replyVars, closed>>

\* Close the sockets.  On success protocol 1 now takes the output out of the
\* evbuffer, unless the evbuffer filled up before.
CloseSockets ==
    /\ pc = "close"
    /\ closed' = TRUE
    /\ IF gotBreak THEN pc' = "wait" /\ UNCHANGED sent
       ELSE /\ pc' = "done"
            /\ sent' = IF Protocol = 1 /\ ~full THEN inbuf ELSE sent
    /\ UNCHANGED <<active, inPass, exiting, gotBreak, childVars, sock, inbuf,
                   reading, full, inVars, replyVars>>

\* waitpid after an error.  Without a command it fails with ECHILD at once.
WaitChild ==
    /\ pc = "wait" /\ child # "running"
    /\ child' = IF child = "zombie" THEN "reaped" ELSE child
    /\ pc' = "done"
    /\ UNCHANGED <<active, inPass, exiting, gotBreak, sigchld, bg, written,
                   exitMark, readIn, outVars, inVars, replyVars, closed>>

-----------------------------------------------------------------------------
Server ==
    \/ Poll \/ EndPass \/ Start \/ StartFails
    \/ \E s \in Streams :
          \/ HandleOutput(s) \/ BufferOutput(s) \/ HandleOutputFull(s)
          \/ HandleOutputDiscard(s) \/ HandleEOF(s)
    \/ WriteInput \/ InputRefused \/ HandleIOError \/ HandleExit
    \/ DrainPass \/ DrainDone \/ CloseSockets \/ WaitChild

Child == (\E s \in Streams : ChildWrite(s)) \/ ChildRead \/ ChildExit

Descendant == (\E s \in Streams : DescendantWrite(s)) \/ DescendantExit

Returned == pc = "done" /\ UNCHANGED vars

Next == Server \/ Child \/ ChildStops \/ Descendant \/ Returned

Spec == Init /\ [][Next]_vars

\* The server and the command are each scheduled again and again; a
\* descendant is not assumed to do anything.
FairSpec == Spec /\ WF_vars(Server) /\ WF_vars(Child)

-----------------------------------------------------------------------------
(* Properties *)

\* Every variable has its type; the buffers stay within their capacities.
TypeOK ==
    /\ pc \in {"dispatch", "drain", "close", "wait", "done"}
    /\ active \subseteq (Streams \cup {"start", "stdin", "sigchld"})
    /\ inPass \in BOOLEAN /\ gotBreak \in BOOLEAN
    /\ exiting \in {"no", "queued", "term"}
    /\ child \in {"none", "running", "zombie", "reaped"}
    /\ sigchld \in BOOLEAN /\ bg \in BOOLEAN
    /\ written \in [Streams -> Nat] /\ exitMark \in [Streams -> Nat]
    /\ readIn \in Nat
    /\ sock \in [Streams -> 0..SockCap] /\ inbuf \in [Streams -> 0..OutputMax]
    /\ sent \in [Streams -> Nat] /\ reading \in [Streams -> BOOLEAN]
    /\ toWrite \in 0..InputLen /\ insock \in 0..SockCap
    /\ writing \in BOOLEAN /\ shut \in BOOLEAN /\ closed \in BOOLEAN
    /\ sawOutput \in BOOLEAN /\ errors \in Nat /\ fatal \in BOOLEAN
    /\ full \in BOOLEAN

\* When server_process_run succeeds under protocol 2, everything the command
\* wrote before it exited has been sent to the client, although the command
\* may exit with output still in the sockets and SIGCHLD may overtake it.
CompleteOnSuccess ==
    pc = "done" /\ ~gotBreak /\ Protocol # 1
        => \A s \in Streams : sent[s] >= exitMark[s]

\* The same promise for protocol 1, up to the size of a protocol 1 token.
CompleteOnSuccessV1 ==
    pc = "done" /\ ~gotBreak /\ Protocol = 1
        => sent["out"] >= Min2(exitMark["out"], OutputMax)

\* server_process_run fails exactly when it has sent one error message or the
\* connection is lost, so its caller never adds a second terminal message.
ErrorIffFailed ==
    /\ errors <= 1
    /\ pc = "done" => (gotBreak <=> errors = 1 \/ fatal)

\* When server_process_run returns, the command it started has been reaped:
\* no zombie is left behind and no command outlives its request.
ReapedOnReturn ==
    pc = "done" => child = "reaped" \/ (child = "none" /\ gotBreak)

\* Nothing is forwarded to the client after an error message, which ends the
\* response to a command.
NoOutputAfterError == [][errors > 0 => sent' = sent]_vars

\* server_process_run returns: neither a command that fills its output
\* socket before reading its input, nor one that writes more than protocol 1
\* can return, nor a missed SIGCHLD leaves the server and the command
\* waiting for each other.
Returns == <>(pc = "done")
=============================================================================
