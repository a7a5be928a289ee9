---------------------------- MODULE MCConnection ----------------------------
(* Instances of ServerConnection for TLC. *)
EXTENDS ServerConnection

\* Valid statuses, one too large, and one that is negative as a char.
MCContinueStatuses == {-1, 0, 1, 2, 3, 4}
=============================================================================
