-------------------------- MODULE MCSessionClients --------------------------
(***************************************************************************)
(* SessionClients for TLC.                                                 *)
(***************************************************************************)
EXTENDS SessionClients

\* A session that is destroyed when no client is on it, and one whose clients go
\* to another session when it ends.
TwoKinds == {[destroy |-> TRUE, detach |-> TRUE], [destroy |-> FALSE, detach |-> FALSE]}

=============================================================================
