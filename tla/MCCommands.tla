----------------------------- MODULE MCCommands -----------------------------
(* Instances of Commands for TLC. *)
EXTENDS Commands

Base == [command |-> "foo", subcommand |-> "ALL", program |-> "prog",
         stdin |-> 0, help |-> Null, summary |-> Null, sudo |-> Null]

\* Rules that differ in what the code tells apart.
MCRules ==
    {[Base EXCEPT !.help = "--help", !.summary = "--sum"],
     [Base EXCEPT !.subcommand = "bar", !.stdin = -1, !.help = "--help"],
     [Base EXCEPT !.subcommand = "EMPTY", !.summary = "--sum"],
     [Base EXCEPT !.subcommand = "bar", !.stdin = 2, !.sudo = "user",
                  !.help = "--help"],
     [Base EXCEPT !.command = "ALL", !.stdin = -1]}

MCConfigs == BoundedSeq(MCRules, 2)

Words(ws) == [word : ws, nul : BOOLEAN]

\* Commands of up to n arguments after the command name.
MCRequestsUpTo(n) ==
    LET all == {<<>>}
          \cup {<<a>> : a \in Words({"foo", "help"})}
          \cup {<<a, b>> : a \in Words({"foo", "help"}), b \in Words({"foo", "bar"})}
          \cup {<<a, b, c>> : a \in Words({"foo", "help"}),
                   b \in Words({"foo", "bar"}), c \in Words({"bar"})}
          \cup {<<a, b, c, d>> : a \in Words({"foo", "help"}),
                   b \in Words({"foo", "bar"}), c \in Words({"bar", "baz"}),
                   d \in Words({"x", ""})}
    IN {r \in all : Len(r) <= n + 1}

MCRequests == MCRequestsUpTo(3)

\* Success, exit with status 1, exit with status 255, death by a signal.
MCWaitStatuses == {0, 256, 255 * 256, 9}
=============================================================================
