------------------------------ MODULE Callers ------------------------------
(***************************************************************************)
(* Who owns a struct remctl: remctl(), the simple interface of the library *)
(* (client/api.c), the program remctl (client/remctl.c), and the bindings  *)
(* for Ruby, Python and PHP, each with an object of its own around the     *)
(* struct and a wrapper around remctl().                                   *)
(*                                                                         *)
(* The library appears through what its callers see of it, which Session   *)
(* establishes: a command has outputs and then a status or an error, or a  *)
(* failure (NULL) that loses the connection, and the next command connects *)
(* again.  Structs are numbered as remctl_new returns them; 0 is a NULL    *)
(* pointer.  A caller reads all results of a command before the next one.  *)
(***************************************************************************)
EXTENDS Integers, Sequences, FiniteSets, SequencesExt

CONSTANTS
  MaxStructs,   \* bound: calls of remctl_new
  MaxOutputs,   \* bound: outputs of a command
  Statuses      \* what the server sends: exit statuses of commands, and -1
                \* for one that did not exit by itself

ASSUME CallersAssumption ==
  MaxStructs \in Nat /\ MaxOutputs \in Nat /\ Statuses \subseteq -1..255

VARIABLES
  who,          \* "C", "ruby", "python", "php5" or "php7"
  use,          \* "simple", "object" or "program"
  pc,
  structs,      \* "live" or "closed", by number
  handle,       \* the struct the caller refers to
  conn,         \* its connection: "none" yet, "open", or "lost" and to be
                \* opened again when it is needed
  opened,       \* python: self.opened
  alive,        \* the string r->host points to has not been freed
  failed,       \* ruby: calls of reopen that failed
  misuse,       \* what was used after its end, if anything
  pending,      \* results remctl_output has yet to return
  answer,       \* all results of the command, as the server sent them
  result,       \* struct remctl_result, or what remctl has written
  held,         \* "all" of struct remctl_result is allocated, only its
                \* "buffers", or "none"
  told          \* what the caller of the caller gets

library == <<structs, conn, pending, answer>>
object  == <<handle, opened, alive, failed>>
outcome == <<result, held, told>>
vars == <<who, use, pc, library, object, misuse, outcome>>

Languages == {"ruby", "python", "php5", "php7"}

\* The chunks of each stream, whether there is an error, the status, and
\* whether some of it could not be written to a file.
Empty == [stdout |-> <<>>, stderr |-> <<>>, error |-> FALSE, status |-> 0,
          cut |-> FALSE]

\* Nothing, a value, or an exception (FALSE or NULL in PHP, NULL in C).
Nothing  == [type |-> "nothing", item |-> Empty]
Value(v) == [type |-> "value", item |-> v]
Raised   == [type |-> "exception", item |-> Empty]

Init ==
  /\ \/ who = "C" /\ use \in {"simple", "program"}
     \/ who \in Languages /\ use \in {"simple", "object"}
  /\ pc = "begin"
  /\ structs = <<>> /\ handle = 0 /\ conn = "none"
  /\ opened = FALSE /\ alive = TRUE /\ failed = 0
  /\ misuse = "none"
  /\ pending = <<>> /\ answer = <<>>
  /\ result = Empty /\ held = "none" /\ told = Nothing

-----------------------------------------------------------------------------
(* The library *)

Out(stream, i) == [type |-> "OUTPUT", stream |-> stream, data |-> i]

\* remctl_output refuses streams other than 1 and 2 itself.
Streams == UNION {[1..n -> {1, 2}] : n \in 0..MaxOutputs}

Ends ==
  {[type |-> "STATUS", stream |-> 0, data |-> s] : s \in Statuses}
    \cup {[type |-> t, stream |-> 0, data |-> 0] : t \in {"ERROR", "NULL"}}

Outputs(streams) == [i \in 1..Len(streams) |-> Out(streams[i], i)]

Answers == {Outputs(streams) \o <<last>> : streams \in Streams, last \in Ends}

\* Protocol 2 has one octet for the status, which the client takes from a
\* char, and char is signed.
Signed(status) == IF status < 128 THEN status ELSE status - 256

\* What remctl_output returns of an answer.
AsRead(a, protocol) ==
  IF protocol = 2 /\ Last(a).type = "STATUS"
    THEN [a EXCEPT ![Len(a)].data = Signed(@)] ELSE a

Replied ==
  \E a \in Answers, protocol \in {1, 2} :
    answer' = a /\ pending' = AsRead(a, protocol)

Done == [type |-> "DONE", stream |-> 0, data |-> 0]

Null == [type |-> "NULL", stream |-> 0, data |-> 0]

Live(s) == s \in DOMAIN structs /\ structs[s] = "live"

CanCreate == Len(structs) < MaxStructs

New == Len(structs) + 1

Closing(s) == [structs EXCEPT ![s] = "closed"]

\* Nothing is known of what happens from here on.
Undefined(what) ==
  /\ misuse' = what /\ pc' = "undefined"
  /\ UNCHANGED <<who, use, library, object, outcome>>

\* remctl_open keeps the caller's pointer to the name of the host, also when
\* it fails.
remctl_open(ok) ==
  /\ conn' = IF ok THEN "open" ELSE "lost"
  /\ pending' = <<>> /\ answer' = <<>>

\* A lost connection is opened again, to r->host.
remctl_commandv(ok) ==
  /\ ok => conn # "none"
  /\ conn' = IF ok THEN "open" ELSE conn
  /\ IF ok THEN Replied ELSE UNCHANGED <<pending, answer>>

NextResult == Head(pending)

\* When all results have been read there is NULL without a connection, but
\* protocol 1, which closes it itself, returns the status and DONE again.
FurtherResults ==
  IF conn = "open" THEN {Done}
  ELSE {Null} \cup
       (IF answer # <<>> /\ Last(answer).type = "STATUS"
        THEN {Done, Last(answer)} ELSE {})

\* A failure may lose the connection: at end of file or after the timeout, not
\* for a malformed token.  Protocol 1 closes it after each command.
remctl_output ==
  /\ conn' \in CASE pending = <<>> -> {conn}
                  [] NextResult.type = "NULL" -> {conn, "lost"}
                  [] NextResult.type = "STATUS" -> {"open", "lost"}
                  [] OTHER -> {conn}
  /\ pending' = IF pending = <<>> THEN pending ELSE Tail(pending)
  /\ UNCHANGED answer

\* Without a reply in time the connection is given up.
remctl_noop(ok) ==
  /\ ok => conn # "none"
  /\ conn' \in IF ok THEN {"open"} ELSE {conn, IF conn = "none" THEN "none" ELSE "lost"}
  /\ UNCHANGED <<pending, answer>>

-----------------------------------------------------------------------------
(* remctl(), the simple interface *)

\* What is left of a result when only its struct is freed.
Buffers ==
  IF result.stdout = <<>> /\ result.stderr = <<>> THEN "none" ELSE "buffers"

\* The caller gets a result with an error (remctl_error always has a text for
\* internal_fail), or NULL when there is no memory for the text: then only the
\* struct is freed.
ErrorOrNull ==
  \/ /\ result' = [result EXCEPT !.error = TRUE]
     /\ pc' = "converting"
     /\ UNCHANGED held
  \/ /\ pc' = "null"
     /\ held' = Buffers
     /\ UNCHANGED result

\* The connection is not closed.
MutInternalFail ==
  /\ ErrorOrNull
  /\ UNCHANGED structs

internal_fail ==
  /\ ErrorOrNull
  /\ structs' = Closing(handle)

\* The connection is opened and the command sent, or one of the two fails, or
\* there is no memory for the result or the struct.
remctl ==
  /\ use = "simple" /\ pc = "begin" /\ CanCreate
  /\ \/ /\ pc' = "reading" /\ held' = "all"
        /\ structs' = Append(structs, "live") /\ handle' = New
        /\ conn' = "open" /\ Replied
        /\ UNCHANGED result
     \/ /\ \/ pc' = "converting" /\ held' = "all"
             /\ result' = [result EXCEPT !.error = TRUE]
           \/ pc' = "null" /\ UNCHANGED <<held, result>>
        /\ structs' = Append(structs, "closed") /\ handle' = New
        /\ UNCHANGED <<conn, pending, answer>>
     \/ /\ pc' = "null"
        /\ UNCHANGED <<handle, held, library, result>>
  /\ UNCHANGED <<who, use, opened, alive, failed, misuse, told>>

\* Both streams go to one buffer.
MutAppend(out) ==
  IF out.type = "ERROR" THEN [result EXCEPT !.error = TRUE]
  ELSE [result EXCEPT !.stdout = Append(@, out.data)]

internal_output_append(out) ==
  IF out.type = "ERROR" THEN [result EXCEPT !.error = TRUE]
  ELSE IF out.stream = 1 THEN [result EXCEPT !.stdout = Append(@, out.data)]
  ELSE [result EXCEPT !.stderr = Append(@, out.data)]

\* One pass of the loop.
ReadResult ==
  /\ use = "simple" /\ pc = "reading"
  /\ remctl_output
  /\ LET out == NextResult IN
     CASE out.type = "NULL" -> internal_fail
       [] out.type = "OUTPUT" ->
            /\ result' = internal_output_append(out)
            /\ UNCHANGED <<structs, pc, held>>
       [] out.type = "ERROR" ->
            /\ result' = internal_output_append(out)
            /\ structs' = Closing(handle) /\ pc' = "converting"
            /\ UNCHANGED held
       [] out.type = "STATUS" ->
            /\ result' = [result EXCEPT !.status = out.data]
            /\ structs' = Closing(handle) /\ pc' = "converting"
            /\ UNCHANGED held
  /\ UNCHANGED <<who, use, object, misuse, told>>

\* There is no memory for an output: the connection is left as it is.
AppendFails ==
  /\ use = "simple" /\ pc = "reading"
  /\ NextResult.type \in {"OUTPUT", "ERROR"}
  /\ remctl_output
  /\ ErrorOrNull
  /\ UNCHANGED <<who, use, structs, object, misuse, told>>

Converted ==
  /\ pc' = "returned"
  /\ UNCHANGED <<who, use, library, object, misuse, result>>

\* A C program gets the struct and frees it.
remctl_result_free ==
  /\ who = "C" /\ use = "simple" /\ pc = "converting"
  /\ told' = Value(result) /\ held' = "none"
  /\ Converted

\* The exception is raised before the result is freed.
rb_remctl_result_new ==
  /\ who = "ruby" /\ use = "simple" /\ pc = "converting"
  /\ IF result.error THEN told' = Raised /\ UNCHANGED held
     ELSE told' = Value(result) /\ held' = "none"
  /\ Converted

\* remctl.remctl raises an exception for an error.
py_remctl ==
  /\ who = "python" /\ use = "simple" /\ pc = "converting"
  /\ told' = IF result.error THEN Raised ELSE Value(result)
  /\ held' = "none"
  /\ Converted

php_remctl ==
  /\ who \in {"php5", "php7"} /\ use = "simple" /\ pc = "converting"
  /\ told' = Value(result) /\ held' = "none"
  /\ Converted

\* The wrappers refuse arguments before they call remctl().
BadArguments ==
  /\ use = "simple" /\ pc = "begin"
  /\ told' = Raised
  /\ pc' = "returned"
  /\ UNCHANGED <<who, use, library, object, misuse, result, held>>

\* remctl() has returned NULL.
NullResult ==
  /\ use = "simple" /\ pc = "null"
  /\ told' = Raised
  /\ pc' = "returned"
  /\ UNCHANGED <<who, use, library, object, misuse, result, held>>

\* Not a string; not a port, or an empty command; not all parameters; NULL.
remctl_null         == who = "C" /\ NullResult
rb_remctl_remctl    == who = "ruby" /\ (BadArguments \/ NullResult)
py_remctl_simple    == who = "python" /\ (BadArguments \/ NullResult)
php_remctl_refused  == who \in {"php5", "php7"} /\ (BadArguments \/ NullResult)

-----------------------------------------------------------------------------
(* The program remctl *)

\* The parent of the process gets the lower eight bits.
Exit(status) ==
  /\ pc' = "exited"
  /\ told' = Value([result' EXCEPT !.status = status % 256])
  /\ UNCHANGED <<who, use, object, misuse, held>>

\* -h and -v, or arguments that make no sense.
Options ==
  /\ use = "program" /\ pc = "begin"
  /\ UNCHANGED <<result, library>>
  /\ \E status \in {0, 1} : Exit(status)

\* The host is looked up, the connection opened and the command sent.
Run ==
  /\ use = "program" /\ pc = "begin" /\ CanCreate
  /\ structs' = Append(structs, "live") /\ handle' = New
  /\ conn' = "open" /\ Replied
  /\ pc' = "reading"
  /\ UNCHANGED <<who, use, opened, alive, failed, misuse, outcome>>

\* One of these fails.
die ==
  /\ use = "program" /\ pc = "begin" /\ CanCreate
  /\ structs' \in {structs, Append(structs, "live")}
  /\ UNCHANGED <<result, conn, pending, answer>>
  /\ Exit(1)

\* fwrite_checked warns of a failed write, and the program goes on.
fwrite_checked(written) ==
  result' \in {written, [result EXCEPT !.cut = TRUE]}

\* One pass of the loop of process_response, and the end of main.
process_response ==
  /\ use = "program" /\ pc = "reading"
  /\ remctl_output
  /\ LET out == NextResult IN
     CASE out.type = "OUTPUT" ->
            /\ fwrite_checked(
                 IF out.stream = 1
                   THEN [result EXCEPT !.stdout = Append(@, out.data)]
                   ELSE [result EXCEPT !.stderr = Append(@, out.data)])
            /\ UNCHANGED <<who, use, pc, structs, object, misuse, held, told>>
       [] out.type = "ERROR" ->
            /\ fwrite_checked([result EXCEPT !.error = TRUE])
            /\ structs' = Closing(handle)
            /\ Exit(255)
       [] out.type = "STATUS" ->
            structs' = Closing(handle) /\ UNCHANGED result /\ Exit(out.data)
       [] out.type = "NULL" ->
            UNCHANGED <<structs, result>> /\ Exit(1)

-----------------------------------------------------------------------------
(* Objects of a language.  An operation checks its handle, calls the       *)
(* library and tells the script what came of it.                           *)

Idle == use = "object" /\ pc = "idle"

Tell(ok) == told' = IF ok THEN Value(Empty) ELSE Raised

\* The operation is refused without a call.
Refuse ==
  /\ told' = Raised
  /\ UNCHANGED <<who, use, pc, library, object, misuse, result, held>>

\* The handle is checked for NULL only by Ruby and PHP 5; Python knows
\* whether open has succeeded.
GET_REMCTL_OR_RAISE  == who = "ruby" /\ handle = 0
ZEND_FETCH_RESOURCE  == who = "php5" /\ handle = 0
RemctlNotOpenedError == who = "python" /\ ~opened

NotOpen == GET_REMCTL_OR_RAISE \/ ZEND_FETCH_RESOURCE \/ RemctlNotOpenedError

\* An operation that goes on to call the library with the handle.
Calls == Idle /\ ~NotOpen

UseDead ==
  /\ Calls /\ ~Live(handle)
  /\ Undefined(IF handle = 0 THEN "NULL struct" ELSE "closed struct")

\* The library connects again, and r->host is no string any more.
UseStaleHost ==
  /\ Calls /\ Live(handle) /\ conn = "lost" /\ ~alive
  /\ Undefined("freed host")

RefuseNotOpen == Idle /\ NotOpen /\ Refuse

\* Commands that are empty or not made of strings.
RefuseCommand == Calls /\ Refuse

Sound == Calls /\ Live(handle) /\ (conn = "lost" => alive)

Command(ok) ==
  /\ Sound /\ pending = <<>>
  /\ remctl_commandv(ok)
  /\ Tell(ok)
  /\ UNCHANGED <<who, use, pc, structs, object, misuse, result, held>>

rb_remctl_command(ok)  == who = "ruby" /\ Command(ok)
py_remctl_commandv(ok) == who = "python" /\ Command(ok)
php_remctl_command(ok) == who \in {"php5", "php7"} /\ Command(ok)

\* What the script sees of a result: all of it, or an exception for NULL.
Output ==
  /\ Calls /\ Live(handle)
  /\ remctl_output
  /\ \E out \in IF pending = <<>> THEN FurtherResults ELSE {NextResult} :
        told' = IF out.type = "NULL" THEN Raised ELSE Value(out)
  /\ UNCHANGED <<who, use, pc, structs, object, misuse, result, held>>

rb_remctl_output  == who = "ruby" /\ Output
py_remctl_output  == who = "python" /\ Output
php_remctl_output == who \in {"php5", "php7"} /\ Output

Noop(ok) ==
  /\ Sound /\ pending = <<>>
  /\ remctl_noop(ok)
  /\ Tell(ok)
  /\ UNCHANGED <<who, use, pc, structs, object, misuse, result, held>>

rb_remctl_noop(ok)  == who = "ruby" /\ Noop(ok)
py_remctl_noop(ok)  == who = "python" /\ Noop(ok)
php_remctl_noop(ok) == who \in {"php5", "php7"} /\ Noop(ok)

\* remctl_set_ccache, remctl_set_source_ip and remctl_set_timeout.
SetOption(ok) ==
  /\ Idle /\ Live(handle)
  /\ Tell(ok)
  /\ UNCHANGED <<who, use, pc, library, object, misuse, result, held>>

rb_remctl_set_timeout(ok) == who = "ruby" /\ SetOption(ok)
py_remctl_set_option(ok)  == who = "python" /\ SetOption(ok)
php_remctl_set_option(ok) == who \in {"php5", "php7"} /\ SetOption(ok)

-----------------------------------------------------------------------------
(* Opening, closing and the end of an object *)

\* remctl_open on the struct of an object.  The name of the host is an
\* argument of the script.
OpenObject(ok) ==
  /\ remctl_open(ok)
  /\ alive' = TRUE
  /\ opened' = (opened \/ ok)
  /\ Tell(ok)
  /\ UNCHANGED <<who, use, handle, failed, misuse, result, held>>

py_remctl_open(ok) ==
  /\ who = "python" /\ Idle /\ Live(handle)
  /\ OpenObject(ok)
  /\ UNCHANGED <<pc, structs>>

php_remctl_open(ok) ==
  /\ who \in {"php5", "php7"} /\ Idle /\ Live(handle)
  /\ OpenObject(ok)
  /\ UNCHANGED <<pc, structs>>

\* The port is out of range, or there is no struct any more.
py_remctl_open_refused == who = "python" /\ Idle /\ Refuse

Create ==
  /\ use = "object" /\ pc = "begin" /\ CanCreate
  /\ structs' = Append(structs, "live") /\ handle' = New
  /\ UNCHANGED <<who, use, pending, answer, failed, misuse, result, held>>

py_remctl_new ==
  /\ who = "python" /\ Create
  /\ pc' = "idle" /\ Tell(TRUE)
  /\ UNCHANGED <<conn, opened, alive>>

\* Remctl(host) with a host opens it; nobody keeps the object if that fails.
py_init(ok) ==
  /\ who = "python" /\ Create
  /\ conn' = IF ok THEN "open" ELSE "lost"
  /\ opened' = ok
  /\ pc' = IF ok THEN "idle" ELSE "dropped"
  /\ Tell(ok)
  /\ UNCHANGED alive

php_remctl_new ==
  /\ who \in {"php5", "php7"} /\ Create
  /\ pc' = "idle" /\ Tell(TRUE)
  /\ UNCHANGED <<conn, opened, alive>>

\* The old struct is closed and a new one opened.  If a setting cannot be
\* applied or the connection fails, the object still refers to the old one
\* and nothing refers to the new one.
Reopen(ok) ==
  /\ CanCreate
  /\ structs' = Append(IF handle = 0 THEN structs ELSE Closing(handle), "live")
  /\ handle' = IF ok THEN New ELSE handle
  /\ failed' = IF ok THEN failed ELSE failed + 1
  /\ remctl_open(ok)
  /\ Tell(ok)
  /\ UNCHANGED <<who, use, opened, alive, misuse, result, held>>

rb_remctl_reopen(ok) ==
  /\ who = "ruby" /\ Idle
  /\ handle = 0 \/ Live(handle)
  /\ Reopen(ok)
  /\ UNCHANGED pc

\* Remctl.new without a connection raises an exception.
rb_remctl_initialize(ok) ==
  /\ who = "ruby" /\ use = "object" /\ pc = "begin"
  /\ Reopen(ok)
  /\ pc' = IF ok THEN "idle" ELSE "dropped"

rb_remctl_bad_port ==
  /\ who = "ruby" /\ use = "object" /\ pc = "begin"
  /\ told' = Raised /\ pc' = "dropped"
  /\ UNCHANGED <<who, use, library, object, misuse, result, held>>

\* The object goes on to refer to the struct.
MutClose ==
  /\ who = "ruby" /\ Calls /\ Live(handle)
  /\ structs' = Closing(handle)
  /\ conn' = "none" /\ pending' = <<>> /\ answer' = <<>>
  /\ Tell(TRUE)
  /\ UNCHANGED <<who, use, pc, handle, opened, alive, failed, misuse, result, held>>

\* Also at the end of a block given to Remctl.new.
rb_remctl_close ==
  /\ who = "ruby" /\ Calls /\ Live(handle)
  /\ structs' = Closing(handle) /\ handle' = 0
  /\ conn' = "none" /\ pending' = <<>> /\ answer' = <<>>
  /\ Tell(TRUE)
  /\ UNCHANGED <<who, use, pc, opened, alive, failed, misuse, result, held>>

\* close drops the capsule, whose destructor closes the struct.
py_close ==
  /\ who = "python" /\ Idle
  /\ structs' = IF handle = 0 THEN structs ELSE Closing(handle)
  /\ handle' = 0 /\ opened' = FALSE
  /\ conn' = "none" /\ pending' = <<>> /\ answer' = <<>>
  /\ Tell(TRUE)
  /\ UNCHANGED <<who, use, pc, alive, failed, misuse, result, held>>

\* The resource is deleted, which closes the struct.
php_remctl_close ==
  /\ who \in {"php5", "php7"} /\ Idle /\ Live(handle)
  /\ structs' = Closing(handle) /\ handle' = 0
  /\ conn' = "none" /\ pending' = <<>> /\ answer' = <<>>
  /\ Tell(TRUE)
  /\ UNCHANGED <<who, use, pc, opened, alive, failed, misuse, result, held>>

\* The script has no use for the name of the host any more.  A Ruby object
\* keeps it in @host.
FreeHost ==
  /\ Idle /\ who # "ruby" /\ alive
  /\ alive' = FALSE
  /\ UNCHANGED <<who, use, pc, library, handle, opened, failed, misuse, outcome>>

\* The object is collected and its struct closed.
Collect ==
  /\ use = "object" /\ pc \in {"idle", "dropped"}
  /\ handle = 0 \/ Live(handle)
  /\ structs' = IF handle = 0 THEN structs ELSE Closing(handle)
  /\ handle' = 0 /\ pc' = "collected"
  /\ UNCHANGED <<who, use, conn, pending, answer, opened, alive, failed, misuse,
                 outcome>>

rb_remctl_destroy == who = "ruby" /\ Collect
remctl_destruct   == who = "python" /\ Collect
php_remctl_dtor   == who \in {"php5", "php7"} /\ Collect

\* reopen and the collector close a struct that has been closed.
CloseTwice ==
  /\ who = "ruby" /\ Idle /\ handle # 0 /\ ~Live(handle)
  /\ Undefined("closed twice")

-----------------------------------------------------------------------------

Simple ==
  \/ remctl \/ ReadResult \/ AppendFails
  \/ remctl_null \/ rb_remctl_remctl \/ py_remctl_simple \/ php_remctl_refused
  \/ remctl_result_free \/ rb_remctl_result_new \/ py_remctl \/ php_remctl

Program == Options \/ Run \/ die \/ process_response

Operation(ok) ==
  \/ rb_remctl_command(ok) \/ py_remctl_commandv(ok) \/ php_remctl_command(ok)
  \/ rb_remctl_noop(ok) \/ py_remctl_noop(ok) \/ php_remctl_noop(ok)
  \/ rb_remctl_set_timeout(ok) \/ py_remctl_set_option(ok)
  \/ php_remctl_set_option(ok)
  \/ py_remctl_open(ok) \/ php_remctl_open(ok) \/ py_init(ok)
  \/ rb_remctl_reopen(ok) \/ rb_remctl_initialize(ok)

Object ==
  \/ \E ok \in BOOLEAN : Operation(ok)
  \/ rb_remctl_output \/ py_remctl_output \/ php_remctl_output
  \/ RefuseNotOpen \/ RefuseCommand \/ py_remctl_open_refused
  \/ py_remctl_new \/ php_remctl_new \/ rb_remctl_bad_port
  \/ rb_remctl_close \/ py_close \/ php_remctl_close \/ FreeHost
  \/ rb_remctl_destroy \/ remctl_destruct \/ php_remctl_dtor
  \/ UseDead \/ UseStaleHost \/ CloseTwice

Ended == {"returned", "exited", "collected", "undefined"}

Terminated == pc \in Ended /\ UNCHANGED vars

Next == Simple \/ Program \/ Object \/ Terminated

Spec == Init /\ [][Next]_vars

-----------------------------------------------------------------------------
(* Properties *)

\* Types.  What a script is told is a result of the command, a result of
\* remctl() or nothing but the outcome.
Results == [type : {"OUTPUT", "STATUS", "ERROR", "NULL"}, stream : 0..2,
            data : Int]

TypeOK ==
  /\ who \in Languages \cup {"C"} /\ use \in {"simple", "object", "program"}
  /\ pc \in {"begin", "reading", "converting", "null", "idle", "dropped"} \cup Ended
  /\ structs \in Seq({"live", "closed"}) /\ handle \in 0..Len(structs)
  /\ conn \in {"none", "open", "lost"}
  /\ opened \in BOOLEAN /\ alive \in BOOLEAN /\ failed \in Nat
  /\ misuse \in {"none", "NULL struct", "closed struct", "closed twice",
                 "freed host"}
  /\ pending \in Seq(Results) /\ answer \in Seq(Results)
  /\ result \in [stdout : Seq(Int), stderr : Seq(Int), error : BOOLEAN,
                 status : Int, cut : BOOLEAN]
  /\ held \in {"none", "buffers", "all"}
  /\ told.type \in {"nothing", "value", "exception"}

\* A binding passes a struct to the library, and closes it, only between
\* remctl_new and remctl_close, and the library connects again only while
\* the name of the host exists, with three exceptions: an object of Ruby
\* after a failed reopen, a PHP 7 resource after remctl_close, and a lost
\* connection of Python or PHP whose script has dropped the name.
LiveWhenUsed ==
  /\ misuse \in {"closed struct", "closed twice"} => who = "ruby" /\ failed > 0
  /\ misuse = "NULL struct" => who = "php7"
  /\ misuse = "freed host" => who \in {"python", "php5", "php7"}

\* When remctl() has returned or the object is gone, no struct is left open
\* and no result allocated, whatever failed on the way.  The exceptions: no
\* memory for an output, which leaves the struct open; no memory for the text
\* of an error, which leaves the buffers; one struct for each failed reopen of
\* Ruby; and the result Ruby raises an exception for.
NothingLost ==
  /\ pc = "collected" =>
        Cardinality({s \in DOMAIN structs : Live(s)}) <= failed
  /\ pc = "returned" =>
        /\ (\E s \in DOMAIN structs : Live(s)) =>
              /\ pending # <<>> \/ Last(answer).type = "ERROR"
              /\ result.error \/ told = Raised
        /\ held # "none" => told = Raised /\ (held = "all" => who = "ruby")

\* What the first n results of the answer write to a stream, and all of them.
Written(stream) ==
  LET upTo[n \in 0..Len(answer)] ==
        IF n = 0 THEN <<>>
        ELSE IF answer[n].stream = stream
               THEN Append(upTo[n - 1], answer[n].data) ELSE upTo[n - 1]
  IN  upTo

Chunks(stream) == Written(stream)[Len(answer)]

Complete(item) == item.stdout = Chunks(1) /\ item.stderr = Chunks(2)

\* remctl() and its wrappers report success, and the program exits with the
\* status of the command, only for a command that has ended with a status,
\* with all of its output, in order and each stream by itself, but for output
\* the program could not write.  The status is the one the server sent up to
\* its sign, which protocol 2 loses above 127; the program's has none.  An
\* error does not exit with 0 (nor with 1, as process_response says it does).
ResultFaithful ==
  /\ pc = "returned" /\ told.type = "value" /\ ~told.item.error =>
        /\ answer # <<>> /\ Last(answer).type = "STATUS"
        /\ Complete(told.item)
        /\ told.item.status % 256 = Last(answer).data % 256
  /\ pc = "exited" /\ answer # <<>> =>
        /\ Complete(told.item) \/ told.item.cut
        /\ CASE Last(answer).type = "STATUS" ->
                  told.item.status = Last(answer).data % 256
             [] Last(answer).type = "ERROR" -> told.item.status # 0
             [] Last(answer).type = "NULL" -> told.item.status = 1
=============================================================================
