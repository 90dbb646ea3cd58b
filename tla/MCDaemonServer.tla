--------------------------- MODULE MCDaemonServer ---------------------------
(***************************************************************************)
(* DaemonServer with two clients.                                          *)
(***************************************************************************)
EXTENDS DaemonServer
=============================================================================
