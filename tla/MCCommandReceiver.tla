-------------------------- MODULE MCCommandReceiver --------------------------
(***************************************************************************)
(* The command thread with two clients in turn, reads of at most two bytes *)
(* and up to three bytes sent, so that commands come alone, together, in    *)
(* more than one read, after a silence and before a reset.                 *)
(***************************************************************************)
EXTENDS CommandReceiver

=============================================================================
