-------------------------- MODULE MCDaemonRegistry --------------------------
(***************************************************************************)
(* DaemonRegistry on small sets of calls and files, which the              *)
(* configurations give as model values.                                    *)
(***************************************************************************)
EXTENDS DaemonRegistry
=============================================================================
