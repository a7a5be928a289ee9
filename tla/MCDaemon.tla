------------------------------ MODULE MCDaemon ------------------------------
(* Instance of Daemon for TLC: the ways to start it. *)
EXTENDS Daemon

Standalone == [standalone |-> TRUE, foreground |-> TRUE, pidfile |-> TRUE,
               service |-> FALSE, suspend |-> FALSE,
               addresses |-> {}, activated |-> {}]

MCOptions ==
    {Standalone,
     [Standalone EXCEPT !.foreground = FALSE, !.pidfile = FALSE,
                        !.addresses = {1}],
     [Standalone EXCEPT !.service = TRUE, !.activated = {2}],
     [Standalone EXCEPT !.standalone = FALSE],
     [Standalone EXCEPT !.standalone = FALSE, !.suspend = TRUE],
     [Standalone EXCEPT !.standalone = FALSE, !.addresses = {1}]}
=============================================================================
