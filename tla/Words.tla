------------------------------- MODULE Words -------------------------------
(***************************************************************************)
(* The parsers that turn octets and characters into argument vectors, one  *)
(* pass of their loops per step:                                           *)
(*                                                                         *)
(*   token   server_parse_command, the payload of a command message        *)
(*   ssh     remctl-shell, whose command is a line with shell quoting      *)
(*   space   vector_split_multi, as vector_split_space uses it             *)
(*   comma   vector_split                                                  *)
(*                                                                         *)
(* The input is a sequence of octets or of characters; characters are      *)
(* named strings.  `reach' is the last position of the input that has been *)
(* read, `slots' the number of pointers the vector has room for.           *)
(***************************************************************************)
EXTENDS Octets, FiniteSets, SequencesExt, FiniteSetsExt

CONSTANTS
  MaxArgs,     \* COMMAND_MAX_ARGS
  Payloads,    \* inputs of server_parse_command
  Invocations, \* of remctl-shell: an environment and a command line with
               \* the words it means
  Strings      \* inputs of vector_split and vector_split_multi

ASSUME WordsAssumption ==
  /\ MaxArgs \in Nat
  /\ Payloads \subseteq Seq(Octet)
  /\ \A run \in Invocations : run.line \in Seq(STRING)
  /\ Strings \subseteq Seq(STRING)

VARIABLES
  parser,      \* which parser runs
  pc,
  input,
  shell,       \* the environment of remctl-shell
  meant,       \* the words its command line was put together from
  user,        \* whom remctl-shell runs the command for
  p,           \* how much of the input is behind us
  start,       \* where the current word began (vector_split)
  state,       \* SEPARATOR, ARG or QUOTE of server_ssh_parse_command
  quote,
  arg,         \* the word being built
  argv,        \* the words found
  slots,
  argc,        \* what the payload says
  reach,
  answer       \* the outcome

wordsVars == <<parser, pc, input, shell, meant, user, p, start, state, quote,
               arg, argv, slots, argc, reach, answer>>

given == <<parser, input, shell, meant>>

Null == "null"

Blanks     == {"space", "tab"}
Quotes     == {"'", "dquote"}
Backslash  == "backslash"
Comma      == "comma"

------------------------------------------------------------------------------
Segment(from, length) == SubSeq(input, from + 1, from + length)

------------------------------------------------------------------------------
WordsInit ==
  /\ \/ parser = "token" /\ input \in Payloads /\ shell = Null /\ meant = <<>>
     \/ /\ parser = "ssh"
        /\ \E run \in Invocations :
             input = run.line /\ shell = run.shell /\ meant = run.words
     \/ /\ parser \in {"space", "comma"}
        /\ input \in Strings /\ shell = Null /\ meant = <<>>
  /\ pc = "start"
  /\ user = Null /\ state = "SEPARATOR" /\ quote = Null
  /\ p = 0 /\ start = 0 /\ argc = 0 /\ reach = 0
  /\ slots \in IF parser \in {"space", "comma"} THEN {1, 2} ELSE {1}
  /\ arg = <<>> /\ argv = <<>>
  /\ answer = "none"

Finish(result) ==
  /\ pc' = "done" /\ answer' = result

Goes(where) == pc' = where /\ UNCHANGED answer

------------------------------------------------------------------------------
\* server_parse_command

\* The argument count.  Nobody has checked that the payload holds one: what
\* it lacks is read from behind it, and is any octets.
Counts ==
  IF Len(input) >= LengthSize THEN {Ntohl(Segment(0, LengthSize))}
  ELSE {Ntohl(input \o rest) : rest \in [1 .. LengthSize - Len(input) -> Octet]}

\* The check on the argument count.  The difference is unsigned, so that of a
\* payload without a count is large enough for any.
TooFew(n) ==
  Len(input) >= LengthSize /\ Len(input) - LengthSize < LengthSize * n

ReadCount ==
  /\ parser = "token" /\ pc = "start"
  /\ \E n \in Counts :
         /\ argc' = n
         /\ slots' = n + 1
         /\ \/ n = 0 /\ Finish("unknown")
            \/ n > MaxArgs /\ Finish("toomany")
            \/ n \in 1 .. MaxArgs /\ TooFew(n) /\ Finish("bad")
            \/ n \in 1 .. MaxArgs /\ ~TooFew(n) /\ Goes("loop")
  /\ p' = LengthSize
  /\ reach' = LengthSize
  /\ UNCHANGED <<given, user, start, state, quote, arg, argv>>

\* Left over octets too few for a length end the loop.
More == p <= Len(input) - LengthSize

\* The loop without the check for more arguments than were announced.
MutTakeArgument ==
  /\ parser = "token" /\ pc = "loop" /\ More
  /\ LET length == Ntohl(Segment(p, LengthSize))
         at     == p + LengthSize
     IN  \/ /\ Len(input) - at < length
            /\ Finish("bad")
            /\ reach' = at
            /\ UNCHANGED <<p, argv>>
         \/ /\ Len(input) - at >= length
            /\ argv' = Append(argv, Segment(at, length))
            /\ p' = at + length
            /\ reach' = at + length
            /\ Goes("loop")
  /\ UNCHANGED <<given, user, start, state, quote, arg, slots, argc>>

\* The loop takes one argument: its length, then its octets.  An octet count
\* that is not followed by as many octets is refused, as is an argument
\* beyond the count.
TakeArgument ==
  /\ parser = "token" /\ pc = "loop" /\ More
  /\ LET length == Ntohl(Segment(p, LengthSize))
         at     == p + LengthSize
     IN  \/ /\ Len(argv) >= argc
            /\ Finish("bad")
            /\ UNCHANGED <<p, reach, argv>>
         \/ /\ Len(argv) < argc
            /\ Len(input) - at < length
            /\ Finish("bad")
            /\ reach' = at
            /\ UNCHANGED <<p, argv>>
         \/ /\ Len(argv) < argc
            /\ Len(input) - at >= length
            /\ argv' = Append(argv, Segment(at, length))
            /\ p' = at + length
            /\ reach' = at + length
            /\ Goes("loop")
  /\ UNCHANGED <<given, user, start, state, quote, arg, slots, argc>>

EndOfToken ==
  /\ parser = "token" /\ pc = "loop" /\ ~More
  /\ IF Len(argv) # argc \/ p # Len(input) THEN Finish("bad") ELSE Finish("ok")
  /\ UNCHANGED <<given, user, p, start, state, quote, arg, argv, slots, argc,
                 reach>>

------------------------------------------------------------------------------
\* remctl-shell and server_ssh_parse_command

\* With -c there are no other arguments; without it the user is the only one.
ShellUsage ==
  IF shell.command THEN shell.arguments > 0 ELSE shell.arguments # 1

\* Without -c the command is in SSH_ORIGINAL_COMMAND.
NoCommand == ~shell.command /\ ~shell.original

\* server_ssh_new_client: the user comes from REMCTL_USER unless main has
\* given one.  SSH_CONNECTION is needed, and its first word is taken without
\* looking whether there is one.
server_ssh_new_client ==
  CASE shell.command /\ ~shell.user -> "dies"
    [] (shell.command => shell.user) /\ shell.connection = "unset" -> "dies"
    [] (shell.command => shell.user) /\ shell.connection = "empty" -> "crashes"
    [] OTHER -> "ok"

\* main up to the parsing of the command.
Shell ==
  /\ parser = "ssh" /\ pc = "start"
  /\ \/ /\ ShellUsage
        /\ Finish("usage")
        /\ UNCHANGED user
     \/ /\ ~ShellUsage
        /\ NoCommand \/ ~shell.config
        /\ Finish("dies")
        /\ UNCHANGED user
     \/ /\ ~ShellUsage /\ ~NoCommand /\ shell.config
        /\ server_ssh_new_client # "ok"
        /\ Finish(server_ssh_new_client)
        /\ UNCHANGED user
     \/ /\ ~ShellUsage /\ ~NoCommand /\ shell.config
        /\ server_ssh_new_client = "ok"
        /\ user' = IF shell.command THEN "REMCTL_USER" ELSE "argument"
        /\ Goes("loop")
  /\ UNCHANGED <<given, p, start, state, quote, arg, argv, slots, argc, reach>>

Char == input[p + 1]

\* A backslash escapes nothing between quotes.
MutEscaping ==
  /\ Char = Backslash
  /\ p + 1 < Len(input)
  /\ state # "QUOTE"

\* A backslash escapes the next character, if there is one.
Escaping ==
  /\ Char = Backslash
  /\ p + 1 < Len(input)

ReadEscaped ==
  /\ parser = "ssh" /\ pc = "loop" /\ p < Len(input)
  /\ Escaping
  /\ arg' = Append(arg, input[p + 2])
  /\ state' = IF state = "SEPARATOR" THEN "ARG" ELSE state
  /\ p' = p + 2
  /\ reach' = p + 2
  /\ UNCHANGED <<given, pc, user, start, quote, argv, slots, argc, answer>>

\* vector_addn gives the vector one slot more when it is full.
AddWord(word) ==
  /\ argv' = Append(argv, word)
  /\ slots' = IF Len(argv) = slots THEN slots + 1 ELSE slots

ReadChar ==
  /\ parser = "ssh" /\ pc = "loop" /\ p < Len(input)
  /\ ~Escaping
  /\ \/ \* Between words.
        /\ state = "SEPARATOR" /\ Char \in Blanks
        /\ UNCHANGED <<state, quote, arg, argv, slots>>
     \/ \* A quote begins, in a word or at the beginning of one.
        /\ state \in {"SEPARATOR", "ARG"} /\ Char \in Quotes
        /\ state' = "QUOTE" /\ quote' = Char
        /\ UNCHANGED <<arg, argv, slots>>
     \/ /\ state = "QUOTE" /\ Char = quote
        /\ state' = "ARG"
        /\ UNCHANGED <<quote, arg, argv, slots>>
     \/ \* A character of the word.
        /\ IF state = "QUOTE" THEN Char # quote ELSE Char \notin Blanks \union Quotes
        /\ state' = IF state = "QUOTE" THEN "QUOTE" ELSE "ARG"
        /\ arg' = Append(arg, Char)
        /\ UNCHANGED <<quote, argv, slots>>
     \/ \* The end of a word.
        /\ state = "ARG" /\ Char \in Blanks
        /\ AddWord(arg)
        /\ arg' = <<>>
        /\ state' = "SEPARATOR"
        /\ UNCHANGED quote
  /\ p' = p + 1
  /\ reach' = p + 1
  /\ UNCHANGED <<given, pc, user, start, argc, answer>>

EndOfLine ==
  /\ parser = "ssh" /\ pc = "loop" /\ p = Len(input)
  /\ \/ state = "QUOTE" /\ Finish("bad") /\ UNCHANGED <<argv, slots>>
     \/ state = "ARG" /\ Finish("ok") /\ AddWord(arg)
     \/ state = "SEPARATOR" /\ Finish("ok") /\ UNCHANGED <<argv, slots>>
  /\ arg' = <<>>
  /\ UNCHANGED <<given, user, p, start, state, quote, argc, reach>>

------------------------------------------------------------------------------
\* vector_split and vector_split_multi

Separators == IF parser = "space" THEN Blanks ELSE {Comma}

IsSeparator(i) == input[i] \in Separators

\* split_multi_count: one word, one more for each separator that ends a word,
\* and one less if the string ends in separators.
SplitMultiCount ==
  IF input = <<>> THEN 0
  ELSE 1 + Cardinality({i \in 2 .. Len(input) :
                          IsSeparator(i) /\ ~IsSeparator(i - 1)})
         - (IF IsSeparator(Len(input)) THEN 1 ELSE 0)

\* split_count
SplitCount == 1 + Cardinality({i \in DOMAIN input : IsSeparator(i)})

\* The first pass over the string sizes the vector, which may be one that is
\* used again.
SizeVector ==
  /\ parser \in {"space", "comma"} /\ pc = "start"
  /\ LET count == IF parser = "space" THEN SplitMultiCount ELSE SplitCount
     IN  slots' = IF slots < count THEN count ELSE slots
  /\ Goes("loop")
  /\ UNCHANGED <<given, user, p, start, state, quote, arg, argv, argc, reach>>

\* Consecutive separators make empty words in vector_split, none in
\* vector_split_multi.
Store ==
  argv' = IF parser = "space" /\ start = p THEN argv
          ELSE Append(argv, Segment(start, p - start))

SplitChar ==
  /\ parser \in {"space", "comma"} /\ pc = "loop" /\ p < Len(input)
  /\ \/ /\ IsSeparator(p + 1)
        /\ Store
        /\ start' = p + 1
     \/ /\ ~IsSeparator(p + 1)
        /\ UNCHANGED <<argv, start>>
  /\ p' = p + 1
  /\ reach' = p + 1
  /\ UNCHANGED <<given, pc, user, state, quote, arg, slots, argc, answer>>

SplitEnd ==
  /\ parser \in {"space", "comma"} /\ pc = "loop" /\ p = Len(input)
  /\ Store
  /\ Finish("ok")
  /\ UNCHANGED <<given, user, p, start, state, quote, arg, slots, argc, reach>>

------------------------------------------------------------------------------
\* vector_join of the words with the separator of vector_split.
vector_join ==
  FoldLeft(LAMBDA text, word : text \o <<Comma>> \o word, Head(argv), Tail(argv))

------------------------------------------------------------------------------
WordsNext ==
  \/ ReadCount \/ TakeArgument \/ EndOfToken
  \/ Shell \/ ReadEscaped \/ ReadChar \/ EndOfLine
  \/ SizeVector \/ SplitChar \/ SplitEnd

WordsSpec == WordsInit /\ [][WordsNext]_wordsVars

------------------------------------------------------------------------------
\* Properties

\* What an input consists of.
Character == IF parser = "token" THEN Octet ELSE STRING

\* The types of the variables of all four parsers.
WordsTypeOK ==
  /\ parser \in {"token", "ssh", "space", "comma"}
  /\ pc \in {"start", "loop", "done"}
  /\ input \in Seq(Character)
  /\ user \in {Null, "REMCTL_USER", "argument"}
  /\ p \in Nat /\ start \in Nat /\ slots \in Nat /\ argc \in Nat /\ reach \in Nat
  /\ state \in {"SEPARATOR", "ARG", "QUOTE"}
  /\ quote \in Quotes \union {Null}
  /\ arg \in Seq(Character)
  /\ argv \in Seq(Seq(Character))
  /\ answer \in {"none", "ok", "bad", "unknown", "toomany", "usage", "dies",
                 "crashes"}

(***************************************************************************)
(* No parser reads past the end of its input, but for the count of a       *)
(* payload that is too short to hold one; and none stores a word, or the   *)
(* null pointer after the last argument of a command, where the vector has *)
(* no room: the sizes computed in advance are never too small.             *)
(***************************************************************************)
InBounds ==
  /\ reach <= IF parser = "token" /\ Len(input) < LengthSize
              THEN LengthSize ELSE Len(input)
  /\ Len(argv) <= slots
  /\ parser = "token" /\ answer = "ok" => Len(argv) < slots

============================================================================
