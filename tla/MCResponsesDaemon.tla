-------------------------- MODULE MCResponsesDaemon --------------------------
(* A round and its reconnect, an answer of one text event, a backlog of one  *)
(* event and one restart of the daemon.                                      *)
EXTENDS ResponsesDaemon
=============================================================================
