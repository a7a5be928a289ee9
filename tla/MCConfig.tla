------------------------------ MODULE MCConfig ------------------------------
(***************************************************************************)
(* Instance of Config for TLC, and reference definitions of what a         *)
(* configuration means.                                                    *)
(***************************************************************************)
EXTENDS Config, FiniteSets, TLC

MCNames == {"conf", "a", "b", "d", "x", "y", "z", "locked"}
MCSupported == Schemes \ {"gput"}
MCNumbers == "1" :> 1 @@ "2" :> 2 @@ "3" :> 3
MCPasswdNames == "joe" :> "joe" @@ "1" :> "daemon"
MCClients == {[user |-> "alice", anonymous |-> FALSE],
              [user |-> "anon", anonymous |-> TRUE]}
MCExpressions ==
    "al.*" :> [valid |-> TRUE, fails |-> FALSE, users |-> {"alice"}] @@
    "(" :> [valid |-> FALSE, fails |-> FALSE, users |-> {}]
MCGroups ==
    "staff" :> [lookup |-> "found", gid |-> 1, members |-> {"al"}] @@
    "nobody" :> [lookup |-> "none", gid |-> 0, members |-> {}]
MCAccounts ==
    "alice" :> [lookup |-> "found", name |-> "al", passwd |-> TRUE,
                gid |-> 2] @@
    "anon" :> [lookup |-> "none", name |-> Null, passwd |-> FALSE, gid |-> 0]

SeqOf(S, n) == UNION {[1..k -> S] : k \in 0..n}

Line(words) == [words |-> words, end |-> "newline", size |-> 3]
Cut(words) == [words |-> words, end |-> "backslash", size |-> 3]
Torn(words) == [words |-> words, end |-> "none", size |-> 3]
Long(words) == [words |-> words, end |-> "none", size |-> 4]
EmptyLine == [words |-> <<>>, end |-> "newline", size |-> 1]
ShortEnd == [words |-> << <<"ab">> >>, end |-> "none", size |-> 2]

File(lines) == [type |-> "file", lines |-> lines, entries |-> <<>>]
Dir(entries) == [type |-> "dir", lines |-> <<>>, entries |-> entries]

Good(path) == [path |-> path, valid |-> TRUE]
Hidden(path) == [path |-> path, valid |-> FALSE]

RuleLine(acls) == Line(<< <<"cmd">>, <<"sub">>, <<"prog">> >> \o acls)

\* Files not named by fun are as on a minimal system.
Disk(fun) ==
    fun @@ [n \in MCNames |->
               CASE n = "locked" -> [Missing EXCEPT !.type = "unreadable"]
                 [] n = "conf" -> File(<<RuleLine(<< <<"a">> >>)>>)
                 [] n = "d" -> Dir(<<Good("x"), Hidden("z"), Good("y")>>)
                 [] OTHER -> File(<<Line(<< <<"bob">> >>)>>)]

Include2(n) == Line(<< <<"include">>, n >>)
Single(entry) == Line(<<entry>>)

AclLines ==
    {Single(<<"alice">>), Single(<<"deny", "alice">>),
     Single(<<"deny", "deny", "alice">>), Single(<<"deny", "file", "b">>),
     Include2(<<"b">>), Single(<<"regex", "(">>), Single(<<"ANYUSER">>),
     EmptyLine}

SmallAclLines ==
    {Single(<<"alice">>), Single(<<"deny", "pcre", "al.*">>), Include2(<<"a">>),
     Single(<<"localgroup", "staff">>), Single(<<"gput", "role">>),
     Cut(<< <<"alice">> >>), Torn(<< <<"anyuser", "anonymous">> >>),
     Single(<<"localgroup", "nobody">>)}

DirAclLines ==
    {<<Single(<<"alice">>)>>, <<Single(<<"deny", "alice">>)>>,
     <<Single(<<"bogus", "alice">>)>>, <<Include2(<<"d">>)>>,
     <<Long(<< <<"alice">> >>), Single(<<"alice">>)>>,
     <<Long(<< <<"alice">> >>)>>, <<>>}

\* ACL files a and b, a directory of two ACL files in either order, and
\* files that cannot be used.
AclDisks ==
    {Disk("conf" :> File(<<RuleLine(acls)>>) @@ "a" :> File(la)
          @@ "b" :> File(<<lb>>)) :
        acls \in {<< <<"a">> >>, << <<"file", "a">>, <<"b">> >>},
        la \in SeqOf(AclLines, 2), lb \in SmallAclLines}
    \union
    {Disk("conf" :> File(<<RuleLine(acls)>>) @@ "x" :> File(lx)
          @@ "y" :> File(ly)) :
        acls \in {<< <<"d">> >>,
                  << <<"deny", "file", "d">>, <<"ANYUSER">> >>},
        lx \in DirAclLines, ly \in DirAclLines}
    \union
    {Disk("conf" :> File(<<RuleLine(<<e, <<"ANYUSER">> >>)>>)) :
        e \in {<<"gone">>, <<"locked">>, <<"conf">>, <<"deny", "file", "a">>,
               <<"anyuser", "odd">>}}

ConfChunks ==
    {RuleLine(<< <<"a">> >>), EmptyLine, ShortEnd,
     Cut(<< <<"cmd">>, <<"two">>, <<"prog">> >>),
     Cut(<< <<"#">> >>), Long(<< <<"stdin=", "last">> >>),
     Line(<< <<"logmask=", "2", "3">>, <<"ANYUSER">> >>),
     Line(<< <<"c">>, <<"s">>, <<"p">>, <<"stdin=", "x">>, <<"a">> >>),
     Line(<< <<"c">>, <<"s">>, <<"p">>, <<"user=", "1">>, <<"help=", "h">> >>),
     Include2(<<"d">>), Include2(<<"b">>)}

\* Configurations of up to three lines that include a file or a directory.
ConfDisks ==
    {Disk("conf" :> File(lines) @@ "b" :> File(lb) @@ "x" :> File(<<>>)
          @@ "y" :> File(<<RuleLine(<< <<"ANYUSER">> >>)>>)
          @@ "d" :> Dir(ld)) :
        lines \in SeqOf(ConfChunks, 3),
        lb \in {<<RuleLine(<< <<"b">> >>)>>, <<Include2(<<"conf">>)>>},
        ld \in {<<>>, <<Good("x"), Hidden("locked"), Good("y")>>}}
    \union
    {Disk("conf" :> File(<<Include2(<<n>>), RuleLine(<< <<"a">> >>)>>)) :
        n \in {"gone", "locked", "conf"}}

MCFileSystems == AclDisks \union ConfDisks

-----------------------------------------------------------------------------
(* Reference definitions: what the manual page says of a configuration. *)

First(s) == LET hits == {k \in DOMAIN s : s[k] # NOMATCH}
            IN IF hits = {} THEN NOMATCH
               ELSE s[CHOOSE k \in hits : \A j \in hits : k <= j]

RECURSIVE Meaning(_, _, _)

\* The status of each line of an ACL file, up to the first that decides.
RECURSIVE LineMeanings(_, _)
LineMeanings(n, k) ==
    IF k > Len(fs[n].lines) THEN <<>>
    ELSE LET words == AclWords(fs[n].lines[k])
             s == CASE Full(fs[n].lines[k]) -> ERROR
                    [] Blank(words) -> NOMATCH
                    [] Len(words) = 1 -> Meaning(words[1], "princ", n)
                    [] IsInclude(words) -> Meaning(words[2], "file", n)
                    [] OTHER -> ERROR
         IN IF s = NOMATCH THEN LineMeanings(n, k + 1) ELSE <<s>>

FileMeaning(n) == IF Lookup(n).type \in {"missing", "unreadable"} THEN ERROR
                  ELSE First(LineMeanings(n, 1))

EntryMeaning(entry) ==
    IF entry.valid THEN FileMeaning(entry.path) ELSE NOMATCH

\* "Each entry is checked in order, and access is granted as soon as an entry
\* matches": the files of a directory in the order they are read, up to the
\* first that decides.
RECURSIVE DirMeaning(_, _)
DirMeaning(n, k) ==
    IF k > Len(fs[n].entries) THEN NOMATCH
    ELSE LET here == EntryMeaning(fs[n].entries[k])
         IN IF here = NOMATCH THEN DirMeaning(n, k + 1) ELSE here

Meaning(entry, def, file) ==
    LET scheme == Scheme(entry, def)
        data == Data(entry)
    IN CASE scheme = "file" ->
               IF data[1] = file \/ Lookup(data[1]).type = "missing" THEN ERROR
               ELSE IF fs[data[1]].type = "dir" THEN DirMeaning(data[1], 1)
               ELSE FileMeaning(data[1])
         [] scheme = "deny" ->
               LET s == Meaning(data, "princ", file)
               IN IF s = SUCCESS THEN DENY ELSE IF s = DENY THEN NOMATCH ELSE s
         [] OTHER -> LeafStatus(scheme, data)

RuleMeaning ==
    First([k \in DOMAIN rule.acls |->
              IF \E j \in 1..(k - 1) :
                    Meaning(rule.acls[j], "file", rule.file) # NOMATCH
              THEN NOMATCH ELSE Meaning(rule.acls[k], "file", rule.file)])

\* The logical lines of a configuration file; a tuple of one word "FAIL"
\* marks the place where it cannot be read.
FailLine == << <<"FAIL">> >>
RECURSIVE LogicalLines(_)
LogicalLines(lines) ==
    IF lines = <<>> THEN <<>>
    ELSE LET c == Head(lines)
             rest == Tail(lines)
         IN CASE c.size = 1 -> LogicalLines(rest)
              [] c.size = 2 /\ c.end = "none" -> <<FailLine>>
              [] c.end = "newline" -> <<c.words>> \o LogicalLines(rest)
              [] c.end # "newline" /\ rest = <<>> -> <<FailLine>>
              [] OTHER -> LogicalLines(
                             <<[rest[1] EXCEPT !.words = c.words \o @,
                                               !.size = 3]>> \o Tail(rest))

\* The rules of a file pasted together with the files it includes.
FailRules == << [fail |-> TRUE] >>
Paste(first, second) ==
    IF first = FailRules \/ second = FailRules THEN FailRules
    ELSE first \o second

RECURSIVE FileRules(_)
RECURSIVE LineRules(_, _)
RECURSIVE EntryRules(_)
EntryRules(entries) ==
    IF entries = <<>> THEN <<>>
    ELSE LET e == Head(entries)
         IN Paste(IF e.valid THEN FileRules(e.path) ELSE <<>>,
                  EntryRules(Tail(entries)))

LineRules(n, lines) ==
    IF lines = <<>> THEN <<>>
    ELSE LET words == Head(lines)
             here == CASE words = FailLine -> FailRules
                       [] Blank(words) -> <<>>
                       [] ~Blank(words) /\ IsInclude(words) ->
                             IF words[2][1] = n THEN FailRules
                             ELSE IF Lookup(words[2][1]).type = "dir"
                             THEN EntryRules(fs[words[2][1]].entries)
                             ELSE FileRules(words[2][1])
                       [] OTHER -> IF ParseError(words) THEN FailRules
                                   ELSE <<ParseRule(words, n)>>
         IN IF here = FailRules THEN FailRules
            ELSE Paste(here, LineRules(n, Tail(lines)))

FileRules(n) == IF Lookup(n).type \in {"missing", "unreadable"} THEN FailRules
                ELSE LineRules(n, LogicalLines(fs[n].lines))

\* Whether p names q on some line or has it as an entry.
RefersTo(p, q) ==
    \/ \E k \in DOMAIN fs[p].lines : \E w \in DOMAIN fs[p].lines[k].words :
          \E j \in DOMAIN fs[p].lines[k].words[w] :
              fs[p].lines[k].words[w][j] = q
    \/ \E k \in DOMAIN fs[p].entries : fs[p].entries[k].path = q

\* A file that leads back to itself through another one.
Cyclic ==
    LET others(p) == {q \in MCNames : q # p /\ RefersTo(p, q)}
        steps[p \in MCNames, k \in 1..Cardinality(MCNames)] ==
            IF k = 1 THEN others(p)
            ELSE steps[p, k - 1] \union
                 UNION {others(q) : q \in steps[p, k - 1]}
    IN \E p \in MCNames : p \in steps[p, Cardinality(MCNames)]

-----------------------------------------------------------------------------
(* Properties *)

\* A directory in which a file that matches is read before one that refuses.
Mixed(n) ==
    \E j, k \in DOMAIN fs[n].entries :
        /\ j < k
        /\ EntryMeaning(fs[n].entries[j]) = SUCCESS
        /\ EntryMeaning(fs[n].entries[k]) < NOMATCH

(* server_config_acl_permit answers as the manual page describes ACLs:     *)
(* entries in order, the first that decides, a file or a directory as if   *)
(* its entries stood there, a deny that turns a match into a refusal and a *)
(* refusal into nothing.  In a directory in which a match comes before a   *)
(* refusal the refusal wins, against "access is granted as soon as an      *)
(* entry matches"; files that lead back to themselves have no meaning.     *)
AnswerAsDocumented ==
    phase = "done" /\ ~Cyclic /\ (\A n \in MCNames : ~Mixed(n)) =>
        answer = (RuleMeaning = SUCCESS)

(* "include file will include file as if its contents were pasted verbatim *)
(* into the configuration file at that point" (remctld.pod): the rules     *)
(* server_config_load returns are those of the pasted text, in its order   *)
(* and with their options, and it fails exactly when that text cannot be   *)
(* read or parsed.                                                         *)
PastedVerbatim ==
    phase = "loaded" =>
        /\ answer = (FileRules(ConfigFile) # FailRules)
        /\ answer => rules = FileRules(ConfigFile)

(* handle_include compares an included file with the including one only.   *)
(* That is enough against exhaustion of the stack unless two different     *)
(* files include each other, directly or through others.                   *)
OnlyCyclesExhaust == phase = "crashed" => Cyclic
=============================================================================
