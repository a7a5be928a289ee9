# A TLA+ model of remctl

remctl runs commands on a remote host for authenticated users.  A client
opens a GSS-API connection to `remctld` (or runs `remctl-shell` through ssh),
sends a command, and gets back its output and its exit status.  This
directory models the server from its start and its configuration to the
command it runs, the connection between the two sides, and the client library
with the programs and language bindings on top of it.  TLC checks the modules
on small instances; nearly all of their safety properties are also proved with
TLAPS for every value of the parameters.

## Inventory

| Component | Source | State | Operations | Talks to |
|---|---|---|---|---|
| running a command | `server/process.c`, output handlers in `server-v1.c`, `server-v2.c`, `server-ssh.c` | event loop, two socket pairs, child, evbuffers, `saw_output`, `reaped` | start, I/O callbacks, SIGCHLD, drain, close, wait | the command (sockets, signal), the client (output and error messages) |
| message loops | `server-v2.c`, `server-v1.c` | `keepalive`, `fatal`, the partial command | receive, dispatch by type, continue, abort, run | the client, command dispatch |
| command dispatch | `commands.c` | the rule, argument vectors, statuses of a summary | lookup, NUL check, ACL, help, run, summary | configuration, running a command, the client |
| configuration and ACLs | `config.c` | rules, the C stack of nested includes | parse, include, evaluate an ACL | file system, group database |
| connection setup | `server/generic.c`, `client/open.c` | GSS-API context, names, `protocol` | negotiate, parse a command | both sides |
| daemon | `remctld.c` | signal flags, children, configuration | accept, fork, reap, reload, exit | clients, kernel |
| ssh shell | `remctl-shell.c`, `server-ssh.c` | one client | parse the command line, run it | ssh, command dispatch |
| client library | `client/*.c` | connection, `ready`, `status`, output | open, command, output, noop, close | the server |
| tokens and network I/O | `util/tokens.c`, `gss-tokens.c`, `network.c` | descriptor, deadline | read, write, connect, accept | kernel |
| buffers, vectors | `util/buffer.c`, `util/vector.c` | contents | append, split, join | - |
| simple interface, `remctl`, bindings | `client/api.c`, `client/remctl.c`, `ruby/`, `python/`, `php/` | the `struct remctl` an object refers to, a `struct remctl_result` | new, open, reopen, command, output, noop, close, collect | client library, script |

What is hard here, and what would make each part correct:

* **Running a command** is the concurrent heart: SIGCHLD races with output
  that is still in the sockets, the command and the server can each block on
  a full socket, either stream can fail at any moment, and descendants keep
  the sockets open.  Correct means: no output of a command is lost on
  success, one error at most and nothing after it, the command is reaped,
  and the call returns.
* **Message loops** take whatever a client sends.  Correct means: bounded
  memory, commands put together from their own pieces only, an answer to
  each message before the next is read, and no more reading after a failed
  reply.
* **Command dispatch** decides who may run what.  Correct means: no program
  runs, for its help or a summary either, without the permission of its ACL;
  each argument reaches the program once; one answer to each command.
* **The client library** keeps one object through timeouts, failed sends,
  lost and reopened connections and two protocols.  Correct means: what it
  returns for a command answers that command and no other, it never loses or
  reuses a descriptor, and every call returns.
* **Configuration and ACLs** are evaluated by functions that call each other
  through files, directories and `deny`.  Correct means: what cannot be
  evaluated is refused, a deny that has matched is final, and the answer is
  the one the manual page describes.
* **The daemon** meets signals at every point of its loop.  Correct means: no
  child stays a zombie, no reload is lost, no descriptor is lost.
* **Timed I/O** moves tokens in pieces under a deadline.  Correct means: tokens
  arrive whole, calls end in time, no socket is left behind or non-blocking.
* **Negotiation** has a dozen steps that can fail on either side, and peers of
  another age.  Correct means: both speak the same protocol or there is no
  connection, nothing leaks, nobody waits for ever.
* **Parsers** walk over lengths and quotes from outside.  Correct means: inside
  their buffers, and the words that were meant.
* **Callers of the library** own a struct that the library frees.  Correct
  means: not used before or after its life, not left behind, and no partial
  output taken for success.

## Modules

| Module | What it is |
|---|---|
| `ServerProcess` | one call of `server_process_run`: event loop, command, descendant |
| `ServerProcess_proofs` | its theorems |
| `ServerConnection` | `server_v1_handle_messages` and `server_v2_handle_messages` against a client that sends any tokens |
| `RequestReply` | abstract specification of a connection: one request at a time, each answered before the next |
| `MCConnection` | instance for TLC |
| `Commands` | `server_run_command` and `server_send_summary` |
| `Commands_proofs` | its theorems |
| `MCCommands` | instance for TLC |
| `Client` | the client library and a caller that reads all results of a command |
| `Session` | `Client` composed with a server over a connection |
| `Session_proofs` | its theorems |
| `Config` | `server_config_load` and `server_config_acl_permit` |
| `Config_proofs` | its theorems |
| `MCConfig` | file systems for TLC, and reference definitions of what a configuration means |
| `Daemon` | `remctld`: start-up, main loop, signal handlers, children |
| `Server_proofs` | theorems of `ServerConnection`, that it implements `RequestReply`, and theorems of `Daemon` |
| `MCDaemon` | the ways to start it |
| `Octets` | octets, `htonl` and `ntohl` |
| `NetworkIO` | `network_connect`, and `token_send` and `token_recv` over timed partial reads and writes |
| `MCNetwork` | instance for TLC |
| `Negotiation` | `internal_open` against `handle_connection` and `server_new_client` |
| `Negotiation_proofs` | its theorems |
| `Words` | `server_parse_command`, `remctl-shell` and its parser, `vector_split`, `vector_split_multi` |
| `MCWords` | inputs, and the words they mean |
| `Octets_proofs` | theorems of `NetworkIO` and of `Words` |
| `Callers` | `remctl()`, the program `remctl`, and objects in Ruby, Python and PHP |
| `Callers_proofs` | its theorems |

How they fit together: `Config` justifies the free choice of rules and
permissions in `Commands`; `ServerProcess` justifies how `Commands` and
`Session` run a command; `Commands` shows that a command may be answered more
than once (the exceptions of `SingleAnswer`), which `ServerConnection` and `Session` therefore
have too; `NetworkIO` justifies that
`Session`, `ServerConnection` and `Negotiation` exchange whole tokens in
order; `Negotiation` justifies that both ends of a `Session` speak one
protocol; `Words` turns the payload of a token into the words of `Commands`;
`Session` justifies the library as `Callers` sees it.

Two modules of proofs are about two components each and extend both; the
initial predicate, next-state relation, specification and type invariant of
`Daemon` and `Words` therefore have names of their own (`DaemonSpec`,
`WordsSpec` and so on).

Operators whose names begin with `Mut` are deliberately wrong variants of a
definition that follows them.  Each stands for a plausible bug and shows that
some property notices it; no specification uses them.

### ServerProcess

Each libevent callback is an action: `Start` and `StartFails` (`start`),
`HandleOutput` (protocol 2, 3 and ssh), `BufferOutput`, `HandleOutputFull`,
`HandleOutputDiscard` (protocol 1), `HandleEOF`, `InputRefused`,
`HandleIOError` (the three branches of `server_handle_io_event`),
`WriteInput` (writing to the command and `server_handle_input_end`) and
`HandleExit`.  A pass of `event_base_loop` is explicit: `Poll` or `DrainPass`
collects the events that are ready into `active`, their handlers run in any
order, `EndPass` ends the pass.  So an event that becomes ready during a pass
waits for the next one, which is what decides whether output is drained.
`exiting` is the timer `event_base_loopexit` queues, which runs in the same
pass or in the next depending on the libevent version.  `CloseSockets` and
`WaitChild` are what follows the loop.

Bytes are counted and not spelled out: sockets and evbuffers are FIFO.
`sent[s] >= exitMark[s]` therefore says that the first `exitMark[s]` bytes,
those the command wrote itself, are the ones sent.

The command is external: it may write, read, stop, exit at any moment and
leave a descendant that holds its sockets; with `Filter` it is one that
alternates between reading and writing as `cat` does.  libevent and the
kernel are external too: readiness, read sizes, watermarks, and that a Unix
socket whose peer closed with unread data reports ECONNRESET.

### ServerConnection

A token is its header and its length.  The client sends any token.
One action for each exit of `server_v2_handle_token`,
`server_v2_handle_command` and `server_v2_read_continuation`.  Lengths are
`size_t`: subtraction wraps at `SizeModulus`.  Continue statuses are `char`,
so -1 stands for those above 127.  `pieces` and `executed` are history
variables: of which tokens the commands consist that were run.  Sending a
reply may fail.  The outputs of a command are not counted: `replies` counts
terminal messages, of which a command brings up to `MaxAnswers`, each sent or
not.

### Commands

Init chooses a configuration, the set of rules whose ACL permits the user,
and a command.  One action for each step of `server_run_command` that can
end it, and for one iteration of the loop of `server_send_summary`.
An argument is a word and whether a NUL follows it; the conversion to a C
string keeps the word, so what a NUL cuts off is visible.
`server_process_run` appears through what `ServerProcess` establishes of it:
it succeeds, or it fails and has sent one error or lost the connection
(`ErrorIffFailed`).  Rules in `execs` record which program was started with
which argument vector and input; an empty argument on standard input is told
from no input at all, as `process->input` is.

### Client and Session

`Client` is one `struct remctl` and its caller.  `object` are the fields of
the struct; `fd` tells a number that belongs to an open connection from one
that has been closed and from -1.  `Open` is `remctl_open` and its variants
with `internal_reset` (the QUIT it sends is not read by anyone: the
connection is gone), `Begin` is `internal_reopen`, the others are one action
for each way a call goes on or returns.  A call that sends and then waits
(`remctl_noop`, `remctl_command` of protocol 1) takes two steps, so the
server, a failure or a timeout can come in between.  The caller follows the
manual page and `process_response`: it reads results until a status, an error
or a failure before it sends the next command.

A message carries the set of commands it is about, so a result can be
compared with the command it is returned for.  `Transmit` writes all tokens
of a command, or some and possibly a part of the next one; it can stop early
only with a timeout or on a lost connection.  `flaws` records what has gone
wrong on the connection: the server got a `part` of a command only, or answered
one `twice`.  Waiting for a token fails with an end of file or a timeout, after
which the library closes the connection, or with an error of the socket, after
which it does not.

`Session` adds the server: the loop of `ServerConnection` reduced to what a
client of this library can make it do (a limit in tokens instead of bytes),
and one command per connection for protocol 1.  `ServerErrs` is the error after
which `server_run_command` or `server_send_summary` goes on and answers again.
The link can close, with or
without the answers under way, or the GSS-API context can expire.

### Config

`read_conf_file` and `acl_check_file_internal` call themselves through
`handle_include`, `acl_check` and `acl_check_deny`.  The C stack is explicit:
`stack` holds the frames that wait for a result, `todo` the call or return that
comes next; a frame more than `MaxDepth` is a crash.  Each action is one pass of
a loop or one return.  A line is what `fgets` gives: its words, what it ends
with, and its length where the code computes with it.  A word is the tuple of
the parts the code cuts it into.  The ACL schemes are there in full; the
libraries behind `gput`, `pcre`, `regex` and `localgroup` are functions given
as constants.  `granted`, `denied` and `errored` are history variables: whether
an entry outside of any deny matched, whether a deny matched, whether anything
could not be evaluated.

### Daemon

One action for each step between two points where a signal can arrive: each
test of a flag, `select`, `accept`, `fork`, the close in the parent, each call
of `waitpid`, the reload and its exit.  A handler sets its flag at any point,
and `eintr` if the server is blocked in a system call and not just about to
block in it.  So a signal between the last test and `select` is not seen by
that `select`.  `config` is the configuration of `server_daemon`, `mainConfig`
the pointer that `main` keeps and frees at the end.  Also: binding with
failures, `-b` and socket activation, the PID file, inetd mode, an editor of
the configuration file, clients that connect and give up.

### NetworkIO

Time passes in ticks, and only while every process is blocked.  A call keeps
`age`, from the start of the second in which it began (the code uses
`time(NULL)`), and `left`, what `select` may still wait.  The connection holds
`Capacity` octets and delivers them in pieces of any size.  A length field is
octets like everything else, so a read can end in the middle of it.  A signal
can interrupt any wait.  `network_connect` goes through the addresses with
every way a step can fail.  `torn` is a history variable: a send has failed
after part of its token was written, the first write of a call included.

### Negotiation

A context takes `legs` tokens in turn and ends with the flags `granted`; a
token is the set of its flags.  Each call of either function that can fail is
an action with both outcomes.  `holds` is the set of what a side has allocated.
The name of the
client belongs to it from the last token on, also when that cannot be sent.
A `foreign` client sends any flags at any moment and an `old` server never sets
`TOKEN_PROTOCOL`; both are external.

### Words

One pass of a parser's loop is one step.  `reach` is the last position of the
input that has been read and `slots` the room of the vector: `InBounds`
compares them with what there is.  A payload may be too short for the argument
count; what it lacks is then any octets.  `remctl-shell` is there with its
environment variables and its exits before the parser runs.

### Callers

Structs are numbered as `remctl_new` returns them and are live or closed;
`handle` is the one an object refers to.  `conn` is what the struct knows of
its connection, and `alive` whether the string `r->host` points to exists.
Using or closing a struct that is closed, a NULL one, or connecting to a freed
name leads to `undefined`, where nothing is known.  PHP 5 and PHP 7 differ in
their check of a closed resource.  The library is nondeterministic: outputs and
then a status, an error or a failure.  `answer` is what the server sent,
`pending` what `remctl_output` makes of it: under protocol 2 a status above 127
becomes negative (`AsRead`), and the exit status of the program is that number
modulo 256 again.  `held` is what is allocated of a result, which `remctl()`
frees in whole or in part before it returns NULL.  A local write of the program
that fails is only reported (`cut`).

## Runs

| Run | Instance | Checks |
|---|---|---|
| `process_v2` | two streams, up to 3 bytes each and 1 from a descendant, 3 bytes of input that may be left unread, sockets of 2 | `CompleteOnSuccess`, `ErrorIffFailed`, `ReapedOnReturn`, `NoOutputAfterError`, `Returns` |
| `process_v1` | a filter under protocol 1, 8 bytes through an evbuffer of 3 | `Returns` |
| `process_v1_truncated` | 5 bytes, reads of 1 | `CompleteOnSuccessV1` is violated |
| `connection` | 3 tokens, 5 lengths around every limit, 6 continue statuses | `BufferBound`, `CommandsAssembled`, `FatalCloses`, `AnsweredBeforeNext` |
| `commands` | all sequences of at most 2 of 5 rules, all ACL decisions, commands of at most 4 words | `SingleAnswer`, `ExecPermitted`, `NulOnlyOnStdin`, `ArgumentsReachProgram` |
| `session` | 3 calls, 2 connections, commands of 1, 2 or 4 tokens against a limit of 2 | `OwnAnswers`, `ResponseShape`, `OneDescriptor`, `CallsReturn` |
| `config` | 8 paths, all combinations of small sets of lines in the configuration, in ACL files and in directories, two clients | `FailClosed`, `DenyIsFinal`, `GrantedByMatch`, `AnswerAsDocumented`, `PastedVerbatim`, `OnlyCyclesExhaust` |
| `daemon` | 2 sockets, 2 children, 2 descriptors, one edit of the file, 6 ways to start | `NoZombieForgotten`, `ReloadNotLost`, `DescriptorsAccounted`, `SignalsHandled` |
| `network` | 2 addresses, timeouts of 0 and 2 seconds of 2 ticks, 2 tokens, a connection of 2 octets | `SocketsAccounted`, `WithinTimeout`, `TokensIntact`, `TimedCallsReturn` |
| `negotiation` | contexts of 1 to 4 tokens, any flags granted, every kind of peer | `AgreeOnProtocol`, `NothingLeaked`, `BothDecide` |
| `words` | all payloads of at most 8 octets, command lines of at most three quoted pieces, all strings of at most 5 of 4 characters | `InBounds`, `ArgumentsArrive` |
| `callers` | 3 structs, 3 outputs, statuses 0, 3 and 255, every language | `LiveWhenUsed`, `NothingLost`, `ResultFaithful` |

Properties that quote the documentation compare the code with a second
definition: `AnswerAsDocumented` and `PastedVerbatim` with the meaning of a
configuration defined by recursion over files in `MCConfig`,
`ArgumentsArrive` with the encoding of arguments and with command lines put
together from pieces whose meaning is known.  A property that the code does
not keep in some named case states the case as its exception; each exception
is explained below.  Without their exceptions, as the documentation has them,
TLC refutes `CommandsAssembled`, `SingleAnswer`, `ArgumentsReachProgram`,
`OwnAnswers`, `AnswerAsDocumented`, `WithinTimeout` and `ResultFaithful`.

**Bounds.**  Sockets of two bytes and reads of one are the smallest sizes at
which a socket can be full, partly read and empty, and at which one pass of
the drain loop leaves data behind; the streams are longer than a socket, and
under protocol 1 longer than two evbuffers, so that filling, discarding and
blocking all happen.  A filter cannot exit before it has echoed its input,
so its input exceeds everything the two sockets can hold: a server that
wrote without reading would get stuck.  Three tokens are what a first, a middle and a last
piece need, and what a refused command with pieces left needs.  Two answers to
a command are what the code sends for a help request with too many words;
more change nothing but the count.  The lengths
are one below the header, the header, the limits and one above; the token
limit is far below `SizeModulus`, as in the code.  Two rules let one rule
shadow, precede or follow another; the rules differ in everything the code
tells apart (wildcards, `EMPTY`, `stdin`, `help`, `summary`, `sudo`).  Wait
statuses are success, exit 1, exit 255 and death by a signal.  For a session,
two connections give one reopening, three calls a command before and one
after a disturbed one; four tokens against a limit of two leave two behind a
refused command.  Three results are an output, a status and a call after it.
Without a cycle the files of `MCConfig` nest far less deeply than `MaxDepth`,
files, directories and denies counted, so that only cycles exhaust it.  Two children can exit between
two calls of `waitpid`; two descriptors let one failed fork pass and the next
one stop the server.  An octet of one bit and a length field of two give
lengths below, at and above the limit; a connection of two octets is full in
the middle of a header.  A context of four tokens makes each side receive and
send twice.  Payloads of eight octets hold two arguments and something left
over; two arguments are also the limit `MaxArgs`.  Three structs are an object
that is reopened twice; 255 is a status that a signed octet makes negative.

**Fairness.**  Liveness (`Returns`) assumes weak fairness of the server's
next step and of the command's next step.  The server is one process that
the kernel schedules, and libevent runs each event of a pass; the
disjunction is enough, because a pass is a finite set of handlers.  The
command is assumed to make progress when it can (a command that hangs keeps
the server waiting, by design: see the comment before `waitpid` in
`process.c`).  Nothing is assumed of descendants; they write a bounded
number of bytes.

`CallsReturn` assumes that the server takes its next step
(`ServerStep`), that a call that has begun goes on (`Continue`) and that the
caller keeps calling `remctl_output` (`Output`), as the manual page tells it
to and `process_response` does.  Nothing is assumed of the link, nor that a
timeout ever strikes: the property holds without timeouts because every
message is answered or the connection is closed.

`SignalsHandled` assumes that the server takes its next step when it can, and
nothing of clients and children: connections need never come.  So it can only
say what happens once the server comes round its loop, and that an interrupted
`select` brings it there.  The promise of the manual page, that a signal is
acted on whatever happens, does not hold: see below.  `TimedCallsReturn` assumes that both sides run and
that time passes.  `BothDecide` assumes that both functions go on; nothing is
assumed of timeouts of the client or of foreign peers.

**Deadlock** is checked in all runs but two: the end of a call or a connection
is an explicit stuttering action.  In `negotiation` and `words` the functions
return and nothing follows, so deadlock is not checked there; for the first
`BothDecide` takes its place.

### Where the code and what is said of it differ

The run `process_v1_truncated` shows the first of these; the others are
behaviours of the model that its properties name as exceptions, or facts met
while modelling.

Server:

* Under protocol 1 no handler sets `saw_output`, so the drain loop stops after
  one pass although output is left (`process.c:422`).  The client gets a status
  of success with truncated output.
* Continue status 0 in the middle of a continued command is accepted and the
  command is run (`server-v2.c:390`); `protocol.xml` requires it to be
  discarded.  `CommandsAssembled` has such a token as a possible end.
* A command refused for its size before its last token leaves tokens behind,
  each answered by an error of its own (`server-v2.c:405`); the client takes
  them for the answers of the commands that follow.  `OwnAnswers` excepts such
  a connection (`flaws`).
* A help request with more than three words gets the error for too many
  arguments and then its help and a status (`commands.c:367`).  A summary whose
  program fails is answered twice for a similar reason.  `protocol.xml` knows of
  one; `SingleAnswer` names both.  On a connection that is kept, the client
  returns the second answer for the next command (`flaws` of `OwnAnswers`).
* Help and a summary of a rule with `sudo` execute `sudo` with the arguments
  meant for the program (`commands.c:441`; `remctld.pod` describes `sudo` as a
  prefix of the program).
* The status of a summary is that of the last program rather than of the last
  one that failed (`commands.c:171`, against the comment at 165).
* With `stdin=last` and no argument the subcommand goes to standard input, where
  `remctld.pod` says that nothing does (`ArgumentsReachProgram` has it as the
  code does); a NUL in the last argument of a help request passes for rules
  with `stdin=last`; `server_run_command` returns -1 for a summary, which
  `remctl-shell` makes its exit status.
* When `start` fails `stdinout_fd` was never set and descriptor 0 is closed
  (`process.c:429`).
* The manual says that access is granted as soon as an entry matches; in a
  directory, a later file that denies or cannot be read still wins
  (`config.c:186`).  `AnswerAsDocumented` excepts such directories.
* Files that include each other, or a directory that contains the including
  file, are not noticed and exhaust the stack (`config.c:148`;
  `OnlyCyclesExhaust`).
* A signal between the tests and `select` waits for the next signal or connection
  (`remctld.c:454`), where the manual page says that it makes the server exit or
  read its configuration.
* `server_daemon` has its own copy of the pointer to the configuration.  After a
  SIGHUP `main` frees the old configuration a second time when the server exits
  (`remctld.c:641`; `mainConfig` is then `"twice"`).
* After a failed `fork` the parent keeps the descriptor of the connection
  (`remctld.c:462`); `DescriptorsAccounted` counts them.
* Comments in `network.c` speak of an overall timeout that also holds after
  EINTR, but the time is not read again, so every signal can add the whole
  timeout (`network.c:717`).  `WithinTimeout` is about calls that no signal
  interrupts; the theorem `SignalCost` has the price of a signal.
* `protocol.xml` says that a peer that drops `TOKEN_PROTOCOL` in the middle must
  be disconnected; `server_new_client` falls back to protocol 1.
* `server_parse_command` reads the argument count before it looks at the length
  of the payload, and neither of its callers has checked it (`generic.c:237`).
  A payload too short for a count is refused all the same; `InBounds` names the
  case.
* `remctl-shell.pod` documents `-v`, which `getopt` is not told of; an empty
  `SSH_CONNECTION` is dereferenced as NULL in `server_ssh_new_client`.

Client:

* `internal_reset` closes `r->fd` and leaves its number (`api.c:324`).  If an
  object is opened a second time and connecting fails, the next command is
  written to the closed number instead of reopening, and the next open closes
  it again.  `OneDescriptor` bounds this to objects opened more than once.
* A send on a connection that the server has closed fails without closing it,
  so later commands fail too until the caller opens the object again
  (`client-v2.c:166`).  After a send that failed half way on a connection that
  lives on, the next command completes the partial one (`flaws` of
  `OwnAnswers`).  Under protocol 1, `remctl_output` after a failure reads
  from descriptor -1 (`client-v1.c:132`), and the status is returned again
  after `REMCTL_OUT_DONE`.
* An exit status above 127 comes out of `remctl_output` negative, because the
  octet is read from a `char` (`client-v2.c:337`); the exit status of the program
  `remctl` is right again.
* The program `remctl` exits with 255 for an error from the server;
  `remctl.pod` and the comment of `process_response` say 1.  A local write that
  fails is reported, and the program exits with the status of the command all
  the same (`remctl.c:61`).
* When there is no memory for an output, `remctl()` returns without closing the
  connection (`api.c:167`); when there is none for the text of an error, it
  frees the result but not the output in it (`api.c:61`).
* Ruby: after a failed `reopen` the object refers to a closed struct and nothing
  refers to the new one; the result of a call that raises an exception is not
  freed.  PHP 7 does not check the resource after `remctl_close`.  Python and
  PHP pass strings that may be gone when the library connects again.

## Proofs

Assumptions are those of the modules: sizes are natural numbers (positive
where a zero would stop all I/O), a `size_t` holds more than
`COMMAND_MAX_DATA + 4`, configurations and commands are sequences of rules
and arguments, a file system is a function from paths to files and
directories, a context takes at least one token.  Nothing else is assumed:
sizes and numbers of rules, tokens, files, children, structs and outputs are
arbitrary.

* `ServerProcess_proofs`: `TypeCorrect`, `Complete` (`CompleteOnSuccess`),
  `Errors` (`ErrorIffFailed`), `Reaped` (`ReapedOnReturn`), `ErrorIsLast`
  (`NoOutputAfterError`).  The inductive invariant counts bytes: what was
  written to a stream is what was sent, plus the evbuffer, plus the socket.
  `CompleteOnSuccess` is not inductive by itself: it needs that a pass of
  the drain loop which saw no output began with every stream empty or
  finished, which in turn needs that a stream with data in its socket is
  readable, hence in `active` until it is handled, and that handling it sets
  `saw_output`.
* `Server_proofs`, of `ServerConnection`: `TypeCorrect`, `Bounded`
  (`BufferBound`), `Continuation` (`CommandsAssembled`), `Fatal`
  (`FatalCloses`) and `Implements` (`AnsweredBeforeNext`), the refinement of
  `RequestReply` for any number of answers to a command.  The
  invariant describes `pieces` while a command is being read (a 1 followed by
  2s exactly when `continued`).
* `Commands_proofs`: `TypeCorrect`, `Permitted` (`ExecPermitted`),
  `Answered` (`SingleAnswer`), `NulsStayOffTheCommandLine`
  (`NulOnlyOnStdin`), `ArgumentsArePassed` (`ArgumentsReachProgram`).  The
  invariant says that nothing terminal has been sent before the end
  (`QuietInv`), that a rule about to be run is permitted (`RuleInv`), that
  outside of a summary one program is started, by the last step (`RunInv`),
  and which checks for NULs a command that is run has passed (`NulInv`).  The
  lemma `FindConfigLine` shows that the lookup returns the first rule that
  matches, or none; `Spliced` that the argument vector is that of the command
  with one argument taken out.
* `Session_proofs`: `TypeCorrect`, `Descriptors` (`OneDescriptor`),
  `AnswersAreOwn` (`OwnAnswers`), `ResultsInOrder` (`ResponseShape`), for any
  number of calls, connections, tokens and outputs.  `OwnAnswers` looks at what was returned, so the
  invariant has to say what is still under way on a connection without
  `flaws`: nothing is left of earlier commands, because each was answered once.
  `OneDescriptor` needs `StrayInv`: a number that is closed and still in
  `r->fd` means that the object was opened before.
  Under protocol 2 (`V2Inv`): either the client expects nothing and nothing
  is under way but at most one NOOP and its reply; or it expects the answer
  of one command, which is still on its way to the server, or being run, or
  answered, and every message in either direction is about this command, the
  terminal one last.  Under protocol 1 (`V1Inv`): one command per
  connection, its MIC before its result.  `CallInv` ties the place in a call
  to the state of the descriptor.  A timeout breaks these descriptions, which
  is why the connection has to be given up with it.  `ResponseShape` needs
  that, on a connection, `ready` is set exactly until the response has ended
  (`ShapeInv`).
* `Config_proofs`: `TypeCorrect`, `ErrorsRefuse` (`FailClosed`),
  `DenyRefuses` (`DenyIsFinal`), `GrantNeedsMatch` (`GrantedByMatch`), for
  every set of files and directories, cyclic ones included, and a stack of any
  size.  The properties speak of the end of an evaluation; the invariant of
  the results on their way up the stack.  Once anything has failed, an ERROR
  is being returned until `server_config_acl_permit` gets it (`ErrorInv`);
  once a deny outside of any deny has matched, a DENY is, and no frame of a
  deny is left below it (`DenyInv`); a SUCCESS that is returned, or kept by a
  directory, with no deny around it comes from a match (`GrantInv`).  These
  need the shape of the stack (`FramesInv`).
* `Server_proofs`, of `Daemon`: `DaemonTypes` (`DaemonTypeOK`), `ChildrenReaped`
  (`NoZombieForgotten`), `ReloadsHappen` (`ReloadNotLost`),
  `DescriptorsBalance` (`DescriptorsAccounted`) and `ConfigPresent`, for any number of sockets,
  children, descriptors and edits.  `DescriptorsAccounted` looks at `select`
  only; its invariant (`FdInv`) counts everywhere in the loop.  `ReloadNotLost`
  needs that nobody has sent a SIGHUP for a file not yet written (`HupInv`).
  `ConfigPresent` is the invariant `ConfigInv`: outside of the reload there is
  a configuration, for the server and for each child.
* `Negotiation_proofs`: `TypeCorrect`, `ProtocolAgreed` (`AgreeOnProtocol`),
  `ResourcesReleased` (`NothingLeaked`), for contexts of any number of tokens.
  The invariant says, for every point of an exchange between the library and a
  server, whose turn it is, which token is under way and what it makes of the
  protocol (`TurnInv`); what a foreign client may have sent is followed by
  `FlagsInv` and `PlainInv`; and what each side holds at each of its steps
  (`ClientHolds`, `ServerHolds`), since only the steps tell whether the label
  `fail` releases all of it.
* `Callers_proofs`: `TypeCorrect`, `StructsLiveWhenUsed` (`LiveWhenUsed`),
  `StructsReleased` (`NothingLost`), `ResultsFaithful` (`ResultFaithful`), for
  any number of structs, outputs and statuses.  An object refers to a live
  struct unless a reopen of Ruby has failed (`HandleInv`), and each failed
  reopen leaves at most one struct behind (`LeakInv`).  While `remctl()` reads,
  the results left are the end of the answer, with its status as the client
  reads it (`ReadInv`), and what has been read so far is in the result, each
  stream in order, or a write has failed (`OutputInv`, `ReadSoFar`).
  What a stream has been given is a recursive function (`Written`); the lemma
  `WrittenFacts` shows that it satisfies its own equation, by way of a least
  length at which it would not.
* `Octets_proofs`, of `NetworkIO`: `TypeCorrect`, `SocketsReleased`
  (`SocketsAccounted`), `TimeBounded` (`WithinTimeout`), `SignalCost`,
  `TokensArrive` (`TokensIntact`), for any number of addresses, signals, sends and retries,
  every timeout, and tokens and connections of any size.  `SocketInv` has the
  open descriptor and O_NONBLOCK at every step of connecting and writing.
  `TimeInv` adds to the age of a call what `select` may still wait: the sum is
  within the bound, and only a signal, which starts `select` again, moves the
  bound, by one timeout each (`SignalsCounted`).  `TokensIntact` compares what was returned with what was sent; its
  invariant (`StreamInv`) describes all octets there are.  As long as no send
  was torn, what the receiver has read of its token, what is in the connection
  and what the sender has yet to write are together the frames of the tokens
  not yet received (`Framed`, which gives what is left of the stream behind each
  frame; `FramedHead` takes the first one off).  So a receiver who stops after
  any number of octets holds a beginning of the first frame.  `NtohlHtonl` shows
  that `Ntohl` undoes `Htonl` for numbers of any number of octets.
* `Octets_proofs`, of `Words`: `WordsTypes` (`WordsTypeOK`) and `ParsersInBounds`
  (`InBounds`), for inputs of any length.  For the two splitters the invariant
  (`SplitInv`) says that the words found so far are as many as the first pass
  has counted up to here, one word being open exactly where the last character
  is no separator; then the count of the whole string has room for the last
  word too.

Functions defined by recursion are reasoned about without an induction theorem:
a recursive function satisfies its own equation, and a property of all its
values is shown by way of a least argument for which it would fail.

Each proof first shows the type invariant, which is a theorem for each module
and therefore not checked again by their runs.  Each inductive invariant was
also checked by TLC on the instance of its run.  Attempts at
proofs have corrected the model in two places: a send whose first write was
partial and which then timed out was not `torn`, and the inputs of
`server_parse_command` were all long enough for a count, which its callers do
not ensure.

Only model-checked:

* the liveness properties `Returns`, `CallsReturn`, `SignalsHandled`,
  `TimedCallsReturn` and `BothDecide`, which are out of the prover's reach;
* `AnswerAsDocumented`, `PastedVerbatim`, `OnlyCyclesExhaust` and
  `ArgumentsArrive`, which compare the code with a second definition by
  recursion over files, lines or words.  The provers cannot instantiate the
  induction theorems of the library, and lose arithmetic in modules with
  `RECURSIVE` operators.

## What is left

All parts of the server and of the client library, the negotiation and the I/O
between them, the parsers and the callers of the library are modelled, checked
and proved about.  Not done yet is an abstract specification of a session as a
remote procedure call, which `Session` would implement on connections without a
cut command.

## Not modelled

Cryptography and GSS-API; wording of messages and logs; environment and
credentials of the command (`setuid`, `initgroups`); exhaustion of memory, but
for `remctl()`, which reacts to it; replacements for system
functions under `portable/`.  Offsets inside `buffer.c`: a buffer is the
sequence of its octets wherever one is used.  Formatting and comparing
addresses, and `network_client_create` and the other functions that only the
tests call.  Of the bindings: the class variables of Ruby, the Perl binding
(each method is one call of the library, the object is closed by its
destructor), and the Java implementation, which shares no code with the rest.

`server_process_run` returns only if the command does: a descendant that writes
for ever keeps the drain loop running, which the model excludes by the bound
`LateWrites`.  Descriptor numbers are not modelled: a descriptor is open,
closed or invalid, and what a write to a closed number reaches is left open.
