------------------------------ MODULE MCWords ------------------------------
(***************************************************************************)
(* Inputs for the parsers, and what they mean.  Payloads are all sequences *)
(* of one-bit octets up to a length, well formed or not.  Command lines    *)
(* are built from pieces whose meaning is known, so that the words of a    *)
(* line are given with it and not found by parsing it again.               *)
(***************************************************************************)
EXTENDS Words

CONSTANTS MaxPayload, MaxString

Sequences(S, from, to) == UNION {[1 .. n -> S] : n \in from .. to}

MCPayloads == Sequences(Octet, 0, MaxPayload)

MCStrings == Sequences({"x", "tab", "space", "comma"}, 0, MaxString)

------------------------------------------------------------------------------
\* Command lines.

Piece(text, word) == [text |-> text, word |-> word]

\* A piece of a word: a character, an escaped character, or a quoted string,
\* which may be empty and may hold escaped quotes.
Quoted(q) ==
  {Piece(<<q, q>>, <<>>), Piece(<<q, "space", q>>, <<"space">>),
   Piece(<<q, Backslash, q, q>>, <<q>>)}
    \union {Piece(<<q, other, q>>, <<other>>) : other \in Quotes \ {q}}

Pieces ==
  {Piece(<<"x">>, <<"x">>)}
    \union {Piece(<<Backslash, c>>, <<c>>) :
              c \in {"x", "space", Backslash} \union Quotes}
    \union UNION {Quoted(q) : q \in Quotes}

Glue(a, b) == Piece(a.text \o b.text, a.word \o b.word)

WordPieces == Pieces \union {Glue(a, b) : a \in Pieces, b \in Pieces}

OpenQuote == << <<"open quote">> >>

\* A line: words between blanks, and the words it consists of.
Line(text, words) == [line |-> text, words |-> words]

\* A backslash that nothing follows is literal; a quote that is not closed
\* makes the line an error.
Tails(text) ==
  {Line(text \o <<Backslash>>, << <<Backslash>> >>),
   Line(text \o <<"'", "x">>, OpenQuote)}

Known ==
  {Line(<<>>, <<>>), Line(<<"space">>, <<>>)}
    \union {Line(w.text, <<w.word>>) : w \in WordPieces}
    \union {Line(<<"tab">> \o w.text \o <<"space", "tab">> \o v.text,
                 <<w.word, v.word>>) : w \in WordPieces, v \in Pieces}
    \union {Line(w.text \o <<"space">>, <<w.word>>) : w \in WordPieces}
    \union Tails(<<"tab">>)

\* Every line in the usual environments, one line in all of them.
Shells ==
  [command : BOOLEAN, arguments : 0 .. 2, original : BOOLEAN, user : BOOLEAN,
   config : BOOLEAN, connection : {"unset", "empty", "set"}]

Forced == [command |-> TRUE, arguments |-> 0, original |-> FALSE,
           user |-> TRUE, config |-> TRUE, connection |-> "set"]

Run(line, env) ==
  [line |-> line.line, words |-> line.words, shell |-> env]

MCInvocations ==
  {Run(line, Forced) : line \in Known}
    \union {Run(Line(<<"x", "space", "x">>, << <<"x">>, <<"x">> >>), env) :
              env \in Shells}

------------------------------------------------------------------------------
\* Properties

\* What the client sends for a sequence of arguments.
Encode(args) ==
  Htonl(Len(args)) \o FlattenSeq([i \in DOMAIN args |->
                                    Htonl(Len(args[i])) \o args[i]])

\* The maximal runs of characters that are not separators, in order.
Runs ==
  LET starts == {i \in DOMAIN input :
                   ~IsSeparator(i) /\ (i > 1 => IsSeparator(i - 1))}
      end(i) == Max({j \in i .. Len(input) :
                       \A k \in i .. j : ~IsSeparator(k)})
      order  == SetToSortSeq(starts, LAMBDA i, j : i < j)
  IN  [n \in DOMAIN order |-> SubSeq(input, order[n], end(order[n]))]

(***************************************************************************)
(* Every parser finds the words that were meant.  A command message is     *)
(* accepted exactly when it is what a client sends for some arguments, and *)
(* those are the arguments found; a command line gives the words it was    *)
(* put together from, whatever the quoting, or an error for an open quote; *)
(* vector_split_multi gives the maximal runs between separators, and what  *)
(* vector_split gives is joined to that string again by vector_join.       *)
(***************************************************************************)
ArgumentsArrive ==
  pc = "done" =>
    CASE parser = "token" ->
           /\ answer = "ok" => Encode(argv) = input /\ Len(argv) \in 1 .. MaxArgs
           /\ answer # "ok" =>
                ~\E n \in 1 .. MaxArgs :
                   \E args \in [1 .. n -> Sequences(0 .. ByteBase - 1, 0,
                                            Min({MaxPayload - LengthSize * (n + 1),
                                                 ByteBase^LengthSize - 1}))] :
                     Encode(args) = input
      [] parser = "ssh" ->
           answer \in {"ok", "bad"} =>
             meant = IF answer = "ok" THEN argv ELSE OpenQuote
      [] parser = "space" -> argv = Runs
      [] parser = "comma" -> vector_join = input

============================================================================
