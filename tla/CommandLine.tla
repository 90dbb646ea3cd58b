---------------------------- MODULE CommandLine -----------------------------
(***************************************************************************)
(* main (mcp-server/src/index.ts): a process of the package either installs*)
(* the server's entry into the client's configuration, or prints its usage,*)
(* or starts the server, which needs the binary.  Nothing keeps processes  *)
(* of either kind from running at the same time.                           *)
(***************************************************************************)
EXTENDS BinaryCache, Installer

\* A process is one or the other.
ASSUME LineAssumption == Runs = Procs

lineVars == <<vars, installVars>>

LineInit == Init /\ InstallInit

\* Neither the server nor another command has been chosen for p.
Unused(p) == pc[p] = "idle" /\ job[p].at = "idle"

InstallCommand(p) ==
  \/ Unused(p) /\ \E argv \in Argvs : Install(p, argv)
  \/ ReadConfig(p)
  \/ Truncate(p)
  \/ Fill(p)

\* The text of --help is all that there is to it.
Help(p) ==
  /\ Unused(p)
  /\ job' = [job EXCEPT ![p].at = "done", ![p].opts.help = TRUE]
  /\ UNCHANGED <<config, before, harm>>

\* Everything else is a start of the server.
Serve(p) == job[p].at = "idle" /\ Progress(p)

Work(p) ==
  \/ (InstallCommand(p) \/ Help(p)) /\ UNCHANGED vars
  \/ Serve(p) /\ UNCHANGED installVars

LineNext ==
  \E p \in Procs :
    \/ Work(p)
    \/ (InstallFails(p) \/ InstallCrash(p)) /\ UNCHANGED vars
    \/ Crash(p) /\ UNCHANGED installVars

\* A process goes on until it ends, and so do its downloads and its tar.
LineSpec == LineInit /\ [][LineNext]_lineVars /\ \A p \in Procs : WF_lineVars(Work(p))

-----------------------------------------------------------------------------
\* Every command ends: the server has its binary, the entry is written, or
\* there is an error.  Nothing is left waiting for a download, for tar or for
\* the file system's answers.
CommandsEnd == \A p \in Procs : <>(Ended(p) \/ Over(p))
=============================================================================
