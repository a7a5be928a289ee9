------------------------------ MODULE Commands ------------------------------
(***************************************************************************)
(* server_run_command and server_send_summary (server/commands.c): one     *)
(* parsed command of an authenticated user is looked up in the             *)
(* configuration, checked against the ACL of its rule, run and answered.   *)
(*                                                                         *)
(* A word is a string; an argument is a word and whether a NUL octet       *)
(* follows it, so that converting an argument to a C string leaves the     *)
(* word.  server_process_run is external to this module: it returns a wait *)
(* status, or it fails after sending an error or losing the connection     *)
(* (ErrorIffFailed of ServerProcess).                                      *)
(***************************************************************************)
EXTENDS Integers, Sequences, SequencesExt

CONSTANTS
    Configs,       \* configurations: sequences of rules
    Requests,      \* commands: sequences of arguments
    WaitStatuses,  \* what waitpid may report
    Protocol       \* client->protocol: 1, or 2 for every later one

NoRule == 0
ErrorCodes == {"BAD_COMMAND", "UNKNOWN_COMMAND", "ACCESS", "TOOMANY_ARGS",
               "NO_HELP", "INTERNAL"}

Argument == [word : STRING, nul : BOOLEAN]

\* stdin: the argument passed on standard input, 0 for none, -1 for the last.
Rule == [command : STRING, subcommand : STRING, program : STRING,
         stdin : Int, help : STRING, summary : STRING, sudo : STRING]

\* The value NULL of an option or of an absent word.
Null == "NULL"

ASSUME ConfigsAssumption == Configs \subseteq Seq(Rule)
ASSUME RequestsAssumption == Requests \subseteq Seq(Argument)
ASSUME StatusAssumption == WaitStatuses \subseteq Nat
ASSUME CommandsProtocolAssumption == Protocol \in {1, 2}

VARIABLES
    config,     \* config->rules
    permit,     \* the rules whose ACL permits this user
    argv,       \* the command
    pc,         \* where server_run_command is
    rule,       \* index of the rule, or NoRule
    help,       \* this is a request for the help of another command
    surplus,    \* a help request with too many arguments was met
    i,          \* loop index of server_send_summary
    okAny,      \* ok_any of server_send_summary
    statusAll,  \* status_all of server_send_summary, a wait status
    procStatus, \* process.status
    ran,        \* wait statuses of the programs that ran to completion
    failed,     \* server_process_run has failed
    execs,      \* programs started, in order
    out,        \* messages sent to the client
    fatal,      \* the connection is lost
    result      \* what server_run_command returns

inputs == <<config, permit, argv>>
summaryVars == <<i, okAny, statusAll>>
processVars == <<procStatus, ran, failed, execs>>
vars == <<inputs, pc, rule, help, surplus, summaryVars, processVars, out,
          fatal, result>>

-----------------------------------------------------------------------------
(* Messages *)

Output == [type |-> "output"]
Error(code) == [type |-> "error", code |-> code]

\* server_v2_command_finish puts the exit status into one octet;
\* server_v1_send_output has four for it.
WireStatus(status) ==
    CASE Protocol = 1 -> status
      [] Protocol # 1 /\ (status > 255 \/ status < -127) -> 255
      [] OTHER -> status % 256

Status(status) == [type |-> "status", status |-> WireStatus(status)]

\* client->error, client->finish and the output handlers: sending may fail
\* at any of the messages, and then nothing after it arrives.
Send(msgs) ==
    \/ /\ ~fatal
       /\ out' = out \o msgs
       /\ UNCHANGED fatal
    \/ /\ fatal' = TRUE
       /\ \E n \in 0..(Len(msgs) - 1) :
             out' = IF fatal THEN out ELSE out \o SubSeq(msgs, 1, n)

Reject(code) == Send(<<Error(code)>>) /\ pc' = "done"

-----------------------------------------------------------------------------
(* Looking up a rule *)

line_matches(r, command, subcommand) ==
    /\ \/ r.command = "ALL"
       \/ command # Null /\ r.command = command
       \/ command = Null /\ r.command = "EMPTY"
    /\ \/ r.subcommand = "ALL"
       \/ subcommand # Null /\ r.subcommand = subcommand
       \/ subcommand = Null /\ r.subcommand = "EMPTY"

\* The first rule that matches.
find_config_line(command, subcommand) ==
    LET matching == {k \in 1..Len(config) :
                        line_matches(config[k], command, subcommand)}
    IN IF matching = {} THEN NoRule
       ELSE CHOOSE k \in matching : \A j \in matching : k <= j

\* The k-th word of the command as a C string, NULL if there is none.
Word(k) == IF k <= Len(argv) THEN argv[k].word ELSE Null

\* A configuration, an ACL decision for each rule, and a command.
Init ==
    /\ config \in Configs
    /\ permit \in SUBSET (1..Len(config))
    /\ argv \in Requests
    /\ pc = "check"
    /\ rule = NoRule /\ help = FALSE /\ surplus = FALSE
    /\ i = 1 /\ okAny = FALSE /\ statusAll = 0
    /\ procStatus = 0 /\ ran = <<>> /\ failed = FALSE /\ execs = <<>>
    /\ out = <<>> /\ fatal = FALSE /\ result = -1

\* Empty commands, and NULs in the command or the subcommand, are refused.
CheckCommand ==
    /\ pc = "check"
    /\ IF argv = <<>> \/ \E k \in 1..Len(argv) : k <= 2 /\ argv[k].nul
       THEN Reject("BAD_COMMAND")
       ELSE pc' = "lookup" /\ UNCHANGED <<out, fatal>>
    /\ UNCHANGED <<inputs, rule, help, surplus, summaryVars, processVars,
                   result>>

\* A command "help" without a rule of its own asks for a summary of all
\* commands, or for the help of the command named by its arguments.
Lookup ==
    /\ pc = "lookup"
    /\ LET found  == find_config_line(Word(1), Word(2))
           isHelp == found = NoRule /\ Word(1) = "help"
       IN /\ surplus' = (isHelp /\ Len(argv) > 3)
          /\ IF surplus' THEN Send(<<Error("TOOMANY_ARGS")>>)
                         ELSE UNCHANGED <<out, fatal>>
          /\ help' = (isHelp /\ Len(argv) > 1)
          /\ rule' = IF help' THEN find_config_line(Word(2), Word(3)) ELSE found
          /\ pc' = IF isHelp /\ Len(argv) = 1 THEN "summary" ELSE "nul"
    /\ UNCHANGED <<inputs, summaryVars, processVars, result>>

\* Any argument may contain NULs once there is standard input.
MutNulAllowed(k) == rule # NoRule /\ config[rule].stdin # 0

\* Arguments that are exempt from the check for NULs.
NulAllowed(k) ==
    /\ rule # NoRule
    /\ \/ ~help /\ config[rule].stdin = k - 1
       \/ k = Len(argv) /\ config[rule].stdin = -1

CheckNul ==
    /\ pc = "nul"
    /\ IF \E k \in 2..Len(argv) : argv[k].nul /\ ~NulAllowed(k)
       THEN Reject("BAD_COMMAND")
       ELSE pc' = "authorize" /\ UNCHANGED <<out, fatal>>
    /\ UNCHANGED <<inputs, rule, help, surplus, summaryVars, processVars,
                   result>>

\* The ACL is not looked at for help.
MutAuthorize ==
    /\ pc = "authorize"
    /\ CASE rule = NoRule -> Reject("UNKNOWN_COMMAND")
         [] rule # NoRule /\ rule \notin permit /\ ~help -> Reject("ACCESS")
         [] OTHER -> pc' = "run" /\ UNCHANGED <<out, fatal>>
    /\ UNCHANGED <<inputs, rule, help, surplus, summaryVars, processVars,
                   result>>

Authorize ==
    /\ pc = "authorize"
    /\ CASE rule = NoRule -> Reject("UNKNOWN_COMMAND")
         [] rule # NoRule /\ rule \notin permit -> Reject("ACCESS")
         [] OTHER -> pc' = "run" /\ UNCHANGED <<out, fatal>>
    /\ UNCHANGED <<inputs, rule, help, surplus, summaryVars, processVars,
                   result>>

-----------------------------------------------------------------------------
(* Running a program *)

\* The offset is not counted from the subcommand.
MutStdinPosition == IF config[rule].stdin = -1 THEN Len(argv)
                    ELSE config[rule].stdin

\* The position in argv of the argument passed on standard input.  The cast
\* to size_t makes any other negative number too large to match.
StdinPosition == IF config[rule].stdin = -1 THEN Len(argv)
                 ELSE config[rule].stdin + 1

\* create_argv_command: the words after the command, without the one passed
\* on standard input, behind the name of the program.
create_argv_command ==
    LET r == config[rule]
        before == [k \in 1..(StdinPosition - 2) |-> argv[k + 1].word]
        after == [k \in 1..(Len(argv) - StdinPosition)
                     |-> argv[k + StdinPosition].word]
        words == IF StdinPosition \in 2..Len(argv) THEN before \o after
                 ELSE [k \in 1..(Len(argv) - 1) |-> argv[k + 1].word]
    IN (IF r.sudo = Null THEN <<r.program>>
        ELSE <<"sudo", "-u", r.sudo, "--", r.program>>) \o words

create_argv_help ==
    <<config[rule].program, config[rule].help>>
        \o (IF Len(argv) > 2 THEN <<argv[3].word>> ELSE <<>>)

\* No process.input, which differs from an input that is empty.
NoInput == <<>>

\* What the child of server_process_run executes: the file given to execv,
\* the argument vector, and the argument fed to standard input, if any.
Exec(k, args, input) ==
    [rule |-> k,
     file |-> IF config[k].sudo = Null THEN config[k].program ELSE "sudo",
     argv |-> args,
     input |-> input]

\* What a running program may send: under protocol 1 its output is kept for
\* the final message.
Outputs == IF Protocol = 1 THEN {<<>>} ELSE {<<>>, <<Output>>}

\* server_process_run: it succeeds and the program may have sent output, or
\* it fails having sent an error or having lost the connection.  The caller
\* sends "more" after a success.
ProcessSucceeds(e, status, more) ==
    /\ execs' = Append(execs, e)
    /\ ran' = Append(ran, status)
    /\ procStatus' = status
    /\ \E o \in Outputs : Send(o \o more)
    /\ UNCHANGED failed

ProcessFails(e, status) ==
    /\ \/ execs' = execs /\ Send(<<Error("INTERNAL")>>)
       \/ /\ execs' = Append(execs, e)
          /\ \E o \in Outputs : Send(o \o <<Error("INTERNAL")>>)
    /\ procStatus' = status
    /\ failed' = TRUE
    /\ UNCHANGED ran

WIFEXITED(status) == status % 128 = 0
WEXITSTATUS(status) == (status \div 256) % 256
ExitStatus(status) == IF WIFEXITED(status) THEN WEXITSTATUS(status) ELSE -1

TheExec ==
    IF help THEN Exec(rule, create_argv_help, NoInput)
    ELSE Exec(rule, create_argv_command,
              IF StdinPosition \in 2..Len(argv) THEN <<argv[StdinPosition]>>
              ELSE NoInput)

NoHelp ==
    /\ pc = "run" /\ help /\ config[rule].help = Null
    /\ Reject("NO_HELP")
    /\ UNCHANGED <<inputs, rule, help, surplus, summaryVars, processVars,
                   result>>

RunSucceeds ==
    /\ pc = "run" /\ ~(help /\ config[rule].help = Null)
    /\ \E status \in WaitStatuses :
          /\ ProcessSucceeds(TheExec, status, <<Status(ExitStatus(status))>>)
          /\ result' = ExitStatus(status)
    /\ pc' = "done"
    /\ UNCHANGED <<inputs, rule, help, surplus, summaryVars>>

\* Finish even when server_process_run has failed.
MutRunFails ==
    /\ pc = "run" /\ ~(help /\ config[rule].help = Null)
    /\ \E status \in WaitStatuses \cup {0} :
          /\ execs' = Append(execs, TheExec)
          /\ procStatus' = status
          /\ failed' = TRUE
          /\ Send(<<Error("INTERNAL"), Status(ExitStatus(status))>>)
          /\ UNCHANGED ran
    /\ result' = procStatus'
    /\ pc' = "done"
    /\ UNCHANGED <<inputs, rule, help, surplus, summaryVars>>

\* No status is sent; the raw wait status is returned.
RunFails ==
    /\ pc = "run" /\ ~(help /\ config[rule].help = Null)
    /\ \E status \in WaitStatuses \cup {0} :
          ProcessFails(TheExec, status) /\ result' = status
    /\ pc' = "done"
    /\ UNCHANGED <<inputs, rule, help, surplus, summaryVars>>

-----------------------------------------------------------------------------
(* server_send_summary *)

Summarized(k) == k \in permit /\ config[k].summary # Null

SummaryExec(k) ==
    LET r == config[k]
    IN Exec(k, <<r.program, r.summary>>
               \o (IF r.subcommand \in {"ALL", "EMPTY"} THEN <<>>
                   ELSE <<r.subcommand>>), NoInput)

\* process is cleared on every iteration, for a skipped rule as well.
SummarySkip ==
    /\ pc = "summary" /\ i <= Len(config) /\ ~Summarized(i)
    /\ procStatus' = 0
    /\ i' = i + 1
    /\ UNCHANGED <<inputs, pc, rule, help, surplus, okAny, statusAll, ran,
                   failed, execs, out, fatal, result>>

SummaryRun ==
    /\ pc = "summary" /\ i <= Len(config) /\ Summarized(i)
    /\ okAny' = TRUE
    /\ \E status \in WaitStatuses :
          /\ ProcessSucceeds(SummaryExec(i), status, <<>>)
          /\ statusAll' = IF status # 0 THEN status ELSE statusAll
    /\ i' = i + 1
    /\ UNCHANGED <<inputs, pc, rule, help, surplus, result>>

SummaryRunFails ==
    /\ pc = "summary" /\ i <= Len(config) /\ Summarized(i)
    /\ okAny' = TRUE
    /\ \E status \in WaitStatuses \cup {0} : ProcessFails(SummaryExec(i), status)
    /\ i' = i + 1
    /\ UNCHANGED <<inputs, pc, rule, help, surplus, statusAll, result>>

\* The exit status is that of the program of the last iteration, provided
\* that status_all is the wait status of a program that exited.
SummaryEnd ==
    /\ pc = "summary" /\ i > Len(config)
    /\ IF okAny
       THEN Send(<<Status(IF WIFEXITED(statusAll) THEN WEXITSTATUS(procStatus)
                          ELSE -1)>>)
       ELSE Send(<<Error("UNKNOWN_COMMAND")>>)
    /\ pc' = "done"
    /\ UNCHANGED <<inputs, rule, help, surplus, summaryVars, processVars,
                   result>>

Finished == pc = "done" /\ UNCHANGED vars

Next ==
    \/ CheckCommand \/ Lookup \/ CheckNul \/ Authorize \/ NoHelp
    \/ RunSucceeds \/ RunFails
    \/ SummarySkip \/ SummaryRun \/ SummaryRunFails \/ SummaryEnd
    \/ Finished

Spec == Init /\ [][Next]_vars

-----------------------------------------------------------------------------
(* Properties *)

Message == [type : {"output"}] \cup [type : {"error"}, code : ErrorCodes]
           \cup [type : {"status"}, status : Int]

\* Every variable has its type.
TypeOK ==
    /\ config \in Seq(Rule) /\ permit \subseteq 1..Len(config)
    /\ argv \in Seq(Argument)
    /\ pc \in {"check", "lookup", "nul", "authorize", "run", "summary", "done"}
    /\ rule \in 0..Len(config) /\ help \in BOOLEAN /\ surplus \in BOOLEAN
    /\ i \in Nat \ {0} /\ okAny \in BOOLEAN /\ statusAll \in Nat
    /\ procStatus \in Nat /\ ran \in Seq(Nat) /\ failed \in BOOLEAN
    /\ out \in Seq(Message) /\ fatal \in BOOLEAN /\ result \in Int

IsTerminal(m) == m.type # "output"

\* The response of protocol.xml: any number of outputs followed by exactly one
\* status or error.
AnsweredOnce ==
    pc = "done" /\ ~fatal =>
        /\ out # <<>>
        /\ \A k \in 1..Len(out) : IsTerminal(out[k]) <=> k = Len(out)

\* Every command other than a help request with too many arguments and a
\* summary one of whose programs failed is answered exactly once; these two get
\* an error and then an answer.
SingleAnswer == ~surplus /\ ~(failed /\ okAny) => AnsweredOnce

\* No program is started, not even for its help or its summary, unless the
\* ACL of its rule permits the user.
ExecPermitted == \A k \in 1..Len(execs) : execs[k].rule \in permit

\* An argument of a command that is run contains a NUL only if it is the
\* argument passed on standard input, so no argument is cut short on the
\* command line.  Help requests are exempt: with stdin=last the code lets a
\* NUL in their last argument pass.
NulOnlyOnStdin ==
    pc = "done" /\ ~help /\ execs # <<>> =>
        \A k \in 1..Len(argv) : argv[k].nul => execs[1].input = <<argv[k]>>

\* The argument, the subcommand being number 1, that the option stdin of the
\* rule names, or 0 if the command does not have it.
Designated ==
    LET last == Len(argv) - 1
    IN CASE config[rule].stdin = -1 -> last
         [] config[rule].stdin \in 1..last -> config[rule].stdin
         [] OTHER -> 0

\* The program got argument n on standard input, none if n is 0, and the
\* others in order behind its name.
PassedWith(n) ==
    LET e == execs[1]
        words == [k \in 1..(Len(argv) - 1) |-> argv[k + 1].word]
        rest == IF n = 0 THEN words ELSE RemoveAt(words, n)
        name == IF config[rule].sudo = Null THEN 1 ELSE 5
    IN /\ e.input = IF n = 0 THEN NoInput ELSE <<argv[n + 1]>>
       /\ Len(e.argv) = name + Len(rest)
       /\ SubSeq(e.argv, name + 1, Len(e.argv)) = rest

CommandRun == pc = "done" /\ ~help /\ rule # NoRule /\ execs # <<>>

\* Every argument of a command reaches the program exactly once and in order:
\* the one that stdin names on standard input, the others on the command
\* line.  With stdin=last that is the last argument even when it is the
\* subcommand, for which remctld.pod says that nothing is passed.
ArgumentsReachProgram == CommandRun => PassedWith(Designated)
=============================================================================
