------------------------------- MODULE Config -------------------------------
(***************************************************************************)
(* server/config.c: the configuration is loaded from a file and the files  *)
(* and directories it includes, and then the ACL of one rule is evaluated  *)
(* for a client.                                                           *)
(*                                                                         *)
(* read_conf_file and acl_check_file_internal call themselves through      *)
(* handle_include, acl_check and acl_check_deny.  The C stack is explicit: *)
(* stack holds the frames that wait for a result and todo the call or the  *)
(* return that comes next.                                                 *)
(*                                                                         *)
(* A word of a file is the tuple of its parts: an ACL entry is cut at its  *)
(* colons, <<"deny", "princ", "alice">>; an option is its name with the    *)
(* equal sign, and its value, cut at commas, <<"logmask=", "2", "3">>.     *)
(***************************************************************************)
EXTENDS Integers, Sequences

CONSTANTS
    Names,        \* paths of files and directories
    FileSystems,  \* what may be on disk: functions from Names to nodes
    ConfigFile,   \* the path given to server_config_load
    Clients,      \* authenticated clients
    Supported,    \* ACL schemes this build supports
    Numbers,      \* strtol: function from numerals to positive integers
    PasswdNames,  \* what getpwnam and getpwuid find, by name or number
    Expressions,  \* what gput_check, pcre2_match and regexec answer
    Groups,       \* what getgrnam_r answers
    Accounts,     \* krb5_aname_to_localname and getpwnam for a principal
    MaxDepth      \* frames the C stack has room for

SUCCESS == 0
NOMATCH == -1
ERROR == -2
DENY == -3
ConfigStatus == {SUCCESS, NOMATCH, ERROR, DENY}

Null == "NULL"
Word == Seq(STRING)

(* A line as fgets returns it: its words, the octets it ends with (nothing *)
(* when the buffer is full or the file ends), and its length, where 3      *)
(* stands for all larger ones and 4 for one that fills the buffer.         *)
Chunk == [words : Seq(Word), end : {"newline", "backslash", "none"},
          size : 1..4]

Full(chunk) == chunk.size = 4

Entry == [path : Names, valid : BOOLEAN]

\* unreadable: stat succeeds and opening fails.
Node == [type : {"file", "dir", "missing", "unreadable"},
         lines : Seq(Chunk), entries : Seq(Entry)]

Client == [user : STRING, anonymous : BOOLEAN]

Missing == [type |-> "missing", lines |-> <<>>, entries |-> <<>>]

\* name: the file or directory that is being read.
Frame == [kind : {"conf", "acl", "dir", "deny"}, name : Names \union {Null},
          pos : Nat, status : ConfigStatus]

ASSUME FileSystemsAssumption == FileSystems \subseteq [Names -> Node]
ASSUME ConfigFileAssumption == ConfigFile \in Names
ASSUME ClientsAssumption == Clients \subseteq Client
ASSUME DepthAssumption == MaxDepth \in Nat

VARIABLES
    fs,        \* the file system
    client,    \* the client
    phase,     \* "load", "loaded", "permit", "done", or "crashed"
    stack,     \* frames of the functions that have been called
    todo,      \* the next call or return
    rules,     \* config->rules
    rule,      \* the rule whose ACL is being evaluated
    pos,       \* loop index of server_config_acl_permit
    answer,    \* what server_config_load or server_config_acl_permit returns
    granted,   \* an entry that no deny surrounds has matched the client
    denied,    \* a deny that no other deny surrounds has matched
    errored    \* some check has returned ERROR

inputs == <<fs, client>>
history == <<granted, denied, errored>>
vars == <<inputs, phase, stack, todo, rules, rule, pos, answer, history>>

-----------------------------------------------------------------------------
(* Calls and returns *)

None == [op |-> "none"]
Return(s) == [op |-> "return", status |-> s]
Include(path, file) == [op |-> "include", path |-> path, file |-> file]
Open(path) == [op |-> "open", path |-> path]
Check(entry, def, file) ==
    [op |-> "check", entry |-> entry, def |-> def, file |-> file]

Top == stack[Len(stack)]
SetTop(frame) == [stack EXCEPT ![Len(stack)] = frame]
Pop == SubSeq(stack, 1, Len(stack) - 1)
Running(kind) == todo = None /\ stack # <<>> /\ Top.kind = kind
Returned(kind) == todo.op = "return" /\ stack # <<>> /\ Top.kind = kind

\* Some deny is waiting for the result of what runs now.
Denying(frames) == \E k \in DOMAIN frames : frames[k].kind = "deny"

\* A frame that does not fit: the process is killed by SIGSEGV.
Push(frame) ==
    \/ /\ Len(stack) < MaxDepth
       /\ stack' = Append(stack, frame)
       /\ UNCHANGED <<phase, answer>>
    \/ /\ Len(stack) >= MaxDepth
       /\ phase' = "crashed"
       /\ answer' = FALSE
       /\ UNCHANGED stack

Note(s) == errored' = (errored \/ (phase = "permit" /\ s = ERROR))

\* A function returns s; its frame is gone already.
Result(s) == todo' = Return(s) /\ Note(s)

-----------------------------------------------------------------------------
(* Files and directories *)

FileFrame(path) ==
    [kind |-> IF phase = "load" THEN "conf" ELSE "acl", name |-> path,
     pos |-> 1, status |-> NOMATCH]

\* What stat and fopen find at a path.
Lookup(path) == IF path \in Names THEN fs[path] ELSE Missing

MutSanityCheck(path, file) == Lookup(path).type = "missing"

\* Whether handle_include refuses a file.
SanityCheck(path, file) == path = file \/ Lookup(path).type = "missing"

\* handle_include up to the first call of its function.
handle_include ==
    /\ todo.op = "include"
    /\ LET node == Lookup(todo.path)
       IN \/ /\ \/ SanityCheck(todo.path, todo.file)
                \/ node.type = "unreadable"
             /\ Result(ERROR)
             /\ UNCHANGED <<phase, stack, answer>>
          \/ /\ ~SanityCheck(todo.path, todo.file)
             /\ node.type = "file"
             /\ todo' = Open(todo.path)
             /\ UNCHANGED <<phase, stack, answer, errored>>
          \/ /\ ~SanityCheck(todo.path, todo.file)
             /\ node.type = "dir"
             /\ todo' = None
             /\ Push([kind |-> "dir", name |-> todo.path, pos |-> 1,
                      status |-> NOMATCH])
             /\ UNCHANGED errored
    /\ UNCHANGED <<inputs, rules, rule, pos, granted, denied>>

(* fopen of read_conf_file and acl_check_file_internal.  Opening a         *)
(* directory succeeds, and reading from it yields nothing.                 *)
OpenFile ==
    /\ todo.op = "open"
    /\ \/ /\ Lookup(todo.path).type \in {"missing", "unreadable"}
          /\ Result(ERROR)
          /\ UNCHANGED <<phase, stack, answer>>
       \/ /\ Lookup(todo.path).type \in {"file", "dir"}
          /\ todo' = None
          /\ Push(FileFrame(todo.path))
          /\ UNCHANGED errored
    /\ UNCHANGED <<inputs, rules, rule, pos, granted, denied>>

\* readdir in handle_include: the next entry with an acceptable name.
ReadDir ==
    /\ Running("dir")
    /\ LET entries == fs[Top.name].entries
       IN \/ /\ Top.pos > Len(entries)
             /\ stack' = Pop
             /\ Result(Top.status)
          \/ /\ Top.pos <= Len(entries)
             /\ stack' = SetTop([Top EXCEPT !.pos = @ + 1])
             /\ todo' = IF entries[Top.pos].valid
                        THEN Open(entries[Top.pos].path) ELSE None
             /\ UNCHANGED errored
    /\ UNCHANGED <<inputs, phase, rules, rule, pos, answer, granted, denied>>

\* A directory whose files go on after a deny.
MutDirIgnoresDeny(s) == s = ERROR

DirStops(s) == s < NOMATCH

\* What handle_include does with the result for one file of a directory.
ReadDirResult ==
    /\ Returned("dir")
    /\ \/ /\ DirStops(todo.status)
          /\ stack' = Pop
          /\ Result(todo.status)
       \/ /\ ~DirStops(todo.status)
          /\ todo' = None
          /\ stack' = SetTop([Top EXCEPT !.status =
                                 IF todo.status > @ THEN todo.status ELSE @])
          /\ UNCHANGED errored
    /\ UNCHANGED <<inputs, phase, rules, rule, pos, answer, granted, denied>>

-----------------------------------------------------------------------------
(* Configuration files *)

\* The loop that reads long and continued lines: the last chunk of the line
\* that begins with chunk i, or one past the end of the file.
LastChunk(lines, i) ==
    LET complete(j) == \/ lines[j].end = "newline"
                       \/ j = i /\ lines[j].size = 2
        ends == {j \in i..Len(lines) : complete(j)}
    IN IF ends = {} THEN Len(lines) + 1
       ELSE CHOOSE j \in ends : \A k \in ends : j <= k

\* Without the words of the last line of a continued one.
MutJoin(lines, i, j) == lines[i].words

Join(lines, i, j) ==
    LET upto[k \in i..j] == IF k = i THEN lines[k].words
                            ELSE upto[k - 1] \o lines[k].words
    IN upto[j]

Blank(words) == words # <<>> => words[1] = <<"#">>
IsInclude(words) == Len(words) = 2 /\ words[1] = <<"include">>

OptionNames == {"help=", "logmask=", "stdin=", "sudo=", "summary=", "user="}

\* Every other word that looks like an option is an unknown one.
is_option(word) ==
    Len(word) > 1 /\ word[1] \in OptionNames \union {"unknown="}

convert_number(s) == s \in DOMAIN Numbers

\* The options the parser accepts.
ValidOption(word) ==
    LET name == word[1]
        value == Tail(word)
    IN CASE name = "logmask=" -> \A k \in DOMAIN value : convert_number(value[k])
         [] name = "stdin=" -> value[1] = "last" \/ convert_number(value[1])
         [] name = "user=" -> value[1] \in DOMAIN PasswdNames
         [] OTHER -> name \in OptionNames

parse_conf_option(r, word) ==
    LET value == Tail(word)
    IN CASE word[1] = "help=" -> [r EXCEPT !.help = value[1]]
         [] word[1] = "summary=" -> [r EXCEPT !.summary = value[1]]
         [] word[1] = "sudo=" -> [r EXCEPT !.sudo = value[1]]
         [] word[1] = "user=" -> [r EXCEPT !.user = PasswdNames[value[1]]]
         [] word[1] = "stdin=" ->
               [r EXCEPT !.stdin = IF value[1] = "last" THEN -1
                                   ELSE Numbers[value[1]]]
         [] OTHER -> [r EXCEPT !.logmask =
                         [k \in DOMAIN value |-> Numbers[value[k]]]]

\* The position of the first word that is not an option.
FirstAcl(words) ==
    CHOOSE k \in 4..(Len(words) + 1) :
        /\ k <= Len(words) => ~is_option(words[k])
        /\ \A j \in 4..(k - 1) : is_option(words[j])

ParseError(words) ==
    Len(words) >= 4 =>
        \/ FirstAcl(words) > Len(words)
        \/ \E k \in 4..(FirstAcl(words) - 1) : ~ValidOption(words[k])

ParseRule(words, file) ==
    LET blank == [command |-> words[1], subcommand |-> words[2],
                  program |-> words[3], help |-> Null, logmask |-> <<>>,
                  stdin |-> 0, sudo |-> Null, summary |-> Null,
                  user |-> Null, acls |-> SubSeq(words, FirstAcl(words),
                                                 Len(words)),
                  file |-> file]
        parsed[k \in 3..(FirstAcl(words) - 1)] ==
            IF k = 3 THEN blank ELSE parse_conf_option(parsed[k - 1], words[k])
    IN parsed[FirstAcl(words) - 1]

\* read_conf_file at the end of the file, and its label fail.
EndConfFile(s) == stack' = Pop /\ Result(s) /\ UNCHANGED rules

\* One pass of the loop of read_conf_file.
ReadConfLine ==
    /\ Running("conf")
    /\ LET lines == fs[Top.name].lines
           i == Top.pos
           j == LastChunk(lines, i)
           words == Join(lines, i, j)
       IN \/ i > Len(lines) /\ EndConfFile(SUCCESS)
          \/ /\ i <= Len(lines)
             /\ lines[i].size = 2 /\ lines[i].end = "none"
             /\ EndConfFile(ERROR)
          \/ /\ i <= Len(lines)
             /\ lines[i].size < 2
             /\ stack' = SetTop([Top EXCEPT !.pos = i + 1])
             /\ UNCHANGED <<todo, rules, errored>>
          \/ /\ i <= Len(lines)
             /\ lines[i].size > 2 /\ j > Len(lines)
             /\ EndConfFile(ERROR)
          \/ /\ i <= Len(lines)
             /\ lines[i].size >= 2 /\ j <= Len(lines)
             /\ lines[i].size = 2 => lines[i].end # "none"
             /\ \/ /\ ~Blank(words) /\ ~IsInclude(words) /\ ParseError(words)
                   /\ EndConfFile(ERROR)
                \/ /\ Blank(words) \/ IsInclude(words) \/ ~ParseError(words)
                   /\ stack' = SetTop([Top EXCEPT !.pos = j + 1])
                   /\ todo' = IF ~Blank(words) /\ IsInclude(words)
                              THEN Include(words[2][1], Top.name) ELSE None
                   /\ rules' = IF Blank(words) \/ IsInclude(words) THEN rules
                               ELSE Append(rules, ParseRule(words, Top.name))
                   /\ UNCHANGED errored
    /\ UNCHANGED <<inputs, phase, rule, pos, answer, granted, denied>>

IncludeFails(s) == s < NOMATCH

\* The result of an include directive.
ConfInclude ==
    /\ Returned("conf")
    /\ \/ IncludeFails(todo.status) /\ EndConfFile(ERROR)
       \/ /\ ~IncludeFails(todo.status)
          /\ todo' = None
          /\ UNCHANGED <<stack, rules, errored>>
    /\ UNCHANGED <<inputs, phase, rule, pos, answer, granted, denied>>

\* server_config_load returns; on failure it has freed the configuration.
Loaded ==
    /\ phase = "load" /\ stack = <<>> /\ todo.op = "return"
    /\ phase' = "loaded"
    /\ answer' = (todo.status = SUCCESS)
    /\ rules' = IF todo.status = SUCCESS THEN rules ELSE <<>>
    /\ todo' = None
    /\ UNCHANGED <<inputs, stack, rule, pos, history>>

-----------------------------------------------------------------------------
(* ACL entries *)

acl_check_princ(data) == IF client.user = data[1] THEN SUCCESS ELSE NOMATCH

acl_check_anyuser(data) ==
    CASE data[1] = "auth" -> IF client.anonymous THEN NOMATCH ELSE SUCCESS
      [] data[1] = "anonymous" -> SUCCESS
      [] OTHER -> ERROR

\* A role or a pattern may be malformed, evaluating it may fail, and it
\* matches some users.
Evaluation(data) ==
    LET e == Expressions[data[1]]
    IN CASE ~e.valid \/ e.fails -> ERROR
         [] e.valid /\ ~e.fails /\ client.user \in e.users -> SUCCESS
         [] OTHER -> NOMATCH

\* gput_open and gput_check; pcre2_compile and pcre2_match; regcomp and regexec.
acl_check_gput(data) == Evaluation(data)
acl_check_pcre(data) == Evaluation(data)
acl_check_regex(data) == Evaluation(data)

\* The group's entry, from getgrnam_r called until it has an answer.
acl_getgrnam(data) == Groups[data[1]]

user_to_localname(user) == Accounts[user]

acl_check_localgroup(data) ==
    LET gr == acl_getgrnam(data)
        account == user_to_localname(client.user)
    IN CASE gr.lookup = "error" -> ERROR
         [] gr.lookup = "none" -> NOMATCH
         [] gr.lookup = "found" /\ account.lookup = "error" -> ERROR
         [] gr.lookup = "found" /\ account.lookup = "found"
              /\ account.passwd
              /\ (gr.gid = account.gid \/ account.name \in gr.members) ->
                 SUCCESS
         [] OTHER -> NOMATCH

Schemes == {"file", "princ", "anyuser", "deny", "gput", "localgroup", "pcre",
            "regex"}

\* acl_check: the scheme of an entry and the data for it.
Expand(entry) == IF entry = <<"ANYUSER">> THEN <<"anyuser", "auth">> ELSE entry
Scheme(entry, def) ==
    IF Len(Expand(entry)) > 1 THEN Expand(entry)[1] ELSE def
Data(entry) ==
    IF Len(Expand(entry)) > 1 THEN Tail(Expand(entry)) ELSE entry

\* The result of a scheme that does not check anything else.
LeafStatus(scheme, data) ==
    CASE scheme \notin Schemes \/ scheme \notin Supported -> ERROR
      [] scheme = "princ" -> acl_check_princ(data)
      [] scheme = "anyuser" -> acl_check_anyuser(data)
      [] scheme = "localgroup" -> acl_check_localgroup(data)
      [] scheme = "gput" -> acl_check_gput(data)
      [] scheme = "pcre" -> acl_check_pcre(data)
      [] OTHER -> acl_check_regex(data)

acl_check ==
    /\ todo.op = "check"
    /\ LET scheme == Scheme(todo.entry, todo.def)
           data == Data(todo.entry)
       IN \/ /\ scheme = "file" /\ scheme \in Supported
             /\ todo' = Include(data[1], todo.file)
             /\ UNCHANGED <<phase, stack, answer, granted, errored>>
          \/ /\ scheme = "deny" /\ scheme \in Supported
             /\ todo' = Check(data, "princ", todo.file)
             /\ Push([kind |-> "deny", name |-> Null, pos |-> 1,
                      status |-> NOMATCH])
             /\ UNCHANGED <<granted, errored>>
          \/ /\ ~(scheme \in {"file", "deny"} /\ scheme \in Supported)
             /\ Result(LeafStatus(scheme, data))
             /\ granted' = (granted \/ (/\ LeafStatus(scheme, data) = SUCCESS
                                        /\ ~Denying(stack)))
             /\ UNCHANGED <<phase, stack, answer>>
    /\ UNCHANGED <<inputs, rules, rule, pos, denied>>

\* Denying a deny grants.
MutDenyStatus(s) ==
    CASE s = SUCCESS -> DENY
      [] s = NOMATCH -> NOMATCH
      [] s = DENY -> SUCCESS
      [] OTHER -> s

DenyStatus(s) ==
    CASE s = SUCCESS -> DENY
      [] s = NOMATCH -> NOMATCH
      [] s = DENY -> NOMATCH
      [] OTHER -> s

\* acl_check_deny after acl_check has returned.
acl_check_deny ==
    /\ Returned("deny")
    /\ stack' = Pop
    /\ Result(DenyStatus(todo.status))
    /\ denied' = (denied \/ (/\ DenyStatus(todo.status) = DENY
                             /\ ~Denying(Pop)))
    /\ UNCHANGED <<inputs, phase, rules, rule, pos, answer, granted>>

-----------------------------------------------------------------------------
(* ACL files *)

\* The last character of a line that ends in a backslash is part of it.
AclWords(chunk) ==
    IF chunk.end = "backslash" THEN Append(chunk.words, <<"\\">>)
    ELSE chunk.words

\* One pass of the loop of acl_check_file_internal.
ReadAclLine ==
    /\ Running("acl")
    /\ LET lines == fs[Top.name].lines
           i == Top.pos
           words == AclWords(lines[i])
           toolong == Full(lines[i])
       IN \/ /\ i > Len(lines)
             /\ stack' = Pop
             /\ Result(NOMATCH)
          \/ /\ i <= Len(lines)
             /\ \/ toolong
                \/ ~Blank(words) /\ Len(words) > 1 /\ ~IsInclude(words)
             /\ stack' = Pop
             /\ Result(ERROR)
          \/ /\ i <= Len(lines)
             /\ ~toolong
             /\ Blank(words) \/ Len(words) = 1 \/ IsInclude(words)
             /\ stack' = SetTop([Top EXCEPT !.pos = i + 1])
             /\ todo' = CASE Blank(words) -> None
                          [] ~Blank(words) /\ Len(words) = 1 ->
                                Check(words[1], "princ", Top.name)
                          [] OTHER -> Check(words[2], "file", Top.name)
             /\ UNCHANGED errored
    /\ UNCHANGED <<inputs, phase, rules, rule, pos, answer, granted, denied>>

\* A file whose later entries still count after a deny.
MutAclDecides(s) == s \in {SUCCESS, ERROR}

AclDecides(s) == s # NOMATCH

\* The first result of an entry that is not NOMATCH is the file's.
AclResult ==
    /\ Returned("acl")
    /\ \/ /\ AclDecides(todo.status)
          /\ stack' = Pop
          /\ Result(todo.status)
       \/ /\ ~AclDecides(todo.status)
          /\ todo' = None
          /\ UNCHANGED <<stack, errored>>
    /\ UNCHANGED <<inputs, phase, rules, rule, pos, answer, granted, denied>>

-----------------------------------------------------------------------------
(* server_config_acl_permit *)

\* A command that a rule matches asks for permission.
Permit ==
    /\ phase = "loaded" /\ answer
    /\ \E k \in 1..Len(rules) : rule' = rules[k]
    /\ phase' = "permit"
    /\ pos' = 1
    /\ UNCHANGED <<inputs, stack, todo, rules, answer, history>>

\* The loop over the entries of the rule.
NextAcl ==
    /\ phase = "permit" /\ stack = <<>> /\ todo = None
    /\ \/ /\ pos > Len(rule.acls)
          /\ phase' = "done"
          /\ answer' = FALSE
          /\ UNCHANGED <<todo, pos>>
       \/ /\ pos <= Len(rule.acls)
          /\ todo' = Check(rule.acls[pos], "file", rule.file)
          /\ pos' = pos + 1
          /\ UNCHANGED <<phase, answer>>
    /\ UNCHANGED <<inputs, stack, rules, rule, history>>

\* An error in one entry does not stop the others.
MutStops(s) == s \in {SUCCESS, DENY}

Stops(s) == s = SUCCESS \/ s < NOMATCH

AclPermit ==
    /\ phase = "permit" /\ stack = <<>> /\ todo.op = "return"
    /\ todo' = None
    /\ \/ /\ Stops(todo.status)
          /\ phase' = "done"
          /\ answer' = (todo.status = SUCCESS)
       \/ /\ ~Stops(todo.status)
          /\ UNCHANGED <<phase, answer>>
    /\ UNCHANGED <<inputs, stack, rules, rule, pos, history>>

-----------------------------------------------------------------------------

NoRule == [acls |-> <<>>, file |-> ConfigFile]

Init ==
    /\ fs \in FileSystems
    /\ client \in Clients
    /\ phase = "load"
    /\ stack = <<>>
    /\ todo = Open(ConfigFile)
    /\ rules = <<>>
    /\ rule = NoRule
    /\ pos = 1
    /\ answer = FALSE
    /\ granted = FALSE
    /\ denied = FALSE
    /\ errored = FALSE

Active == phase \in {"load", "permit"}

Step ==
    \/ /\ Active
       /\ \/ handle_include \/ OpenFile \/ ReadDir \/ ReadDirResult
          \/ ReadConfLine \/ ConfInclude \/ Loaded
          \/ acl_check \/ acl_check_deny \/ ReadAclLine \/ AclResult
          \/ NextAcl \/ AclPermit
    \/ Permit

Finished ==
    /\ \/ phase \in {"done", "crashed"}
       \/ phase = "loaded" /\ (~answer \/ rules = <<>>)
    /\ UNCHANGED vars

Next == Step \/ Finished

Spec == Init /\ [][Next]_vars

-----------------------------------------------------------------------------
(* Properties *)

(* Types of the evaluation of server/config.c; what the words of a file    *)
(* parse to is left open.                                                  *)
TypeOK ==
    /\ fs \in [Names -> Node]
    /\ client \in Client
    /\ phase \in {"load", "loaded", "permit", "done", "crashed"}
    /\ stack \in Seq(Frame)
    /\ todo.op \in {"none", "return", "include", "open", "check"}
    /\ todo.op = "return" => todo.status \in ConfigStatus
    /\ pos \in Nat
    /\ {answer, granted, denied, errored} \subseteq BOOLEAN

(* server_config_acl_permit fails closed: once any file, directory, group  *)
(* or expression could not be evaluated, whatever else matches and however *)
(* deep in included files or deny entries it happened, the client is not   *)
(* permitted.                                                              *)
FailClosed == phase = "done" /\ errored => ~answer

(* "If it matches, access is denied immediately" (remctld.pod): once a     *)
(* deny has matched that is not itself inside a deny, nothing grants       *)
(* access, in whatever order the files of a directory are read.            *)
DenyIsFinal == phase = "done" /\ denied => ~answer

(* "deny only denies access; it never grants it" (remctld.pod): access is  *)
(* granted only when an entry outside of any deny has matched the client.  *)
GrantedByMatch == phase = "done" /\ answer => granted
=============================================================================
