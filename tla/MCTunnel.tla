------------------------------ MODULE MCTunnel ------------------------------
(* Small instances of Tunnel for TLC. *)
EXTENDS Tunnel

\* The client of the first connection restarts its server, that of the second
\* reports one state; either connection may be the one that evicts the other.
McReports == <<3, 1>>
=============================================================================
