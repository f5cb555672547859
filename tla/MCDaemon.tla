------------------------------ MODULE MCDaemon ------------------------------
(* Instances of Daemon in which all clients use the same run ID. *)
EXTENDS Daemon

CONSTANT TheName

AllSame == [r \in Clients |-> TheName]
=============================================================================
