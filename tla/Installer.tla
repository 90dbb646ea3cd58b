----------------------------- MODULE Installer ------------------------------
(***************************************************************************)
(* `ue-trace-mcp install' (mcp-server/src/install.ts): reads the client's  *)
(* configuration file, adds the server's entry to it and writes the file   *)
(* back in place.  Each run is a process of its own; nothing keeps two of  *)
(* them, or a crash, away from the time between reading and writing.       *)
(*                                                                         *)
(* The file is an object of named entries (and of other keys), or it is    *)
(* something that readConfig cannot use.  An entry is what it runs and     *)
(* whether it says more, such as an environment.                           *)
(***************************************************************************)
EXTENDS Naturals, Sequences, SequencesExt, FiniteSets

CONSTANTS Runs,       \* the processes
          Argvs,      \* the argument vectors that `install' is given
          Found       \* what the configuration file may be to begin with

VARIABLES
  config,   \* the configuration file
  job,      \* job[p]: how far p has come, and with what
  before,   \* history: the file as it was found
  harm      \* history: what went wrong while the file was being replaced

installVars == <<config, job, before, harm>>

Names == {"ue-trace", "other"}

NoEntry == [runs |-> "nothing", more |-> FALSE]

Entries == [runs : {"package", "package@version", "something"}, more : BOOLEAN]

\* A file of one of the kinds that is not a JSON object has no entries.
FileOf(kind) ==
  [kind |-> kind, servers |-> [n \in Names |-> NoEntry], more |-> FALSE]

Files == {FileOf(k) : k \in {"absent", "empty", "garbled", "list"}}
           \cup [kind : {"object"}, servers : [Names -> Entries \cup {NoEntry}],
                 more : BOOLEAN]


-----------------------------------------------------------------------------
(* parseArgs.  --config only chooses the file, and there is one file here. *)

NoOptions == [help |-> FALSE, force |-> FALSE, dryRun |-> FALSE, pin |-> FALSE,
              name |-> "ue-trace", wrong |-> FALSE, skip |-> FALSE]

\* One argument, after those before it: a value that --name has taken is not
\* looked at, and after an unknown flag nothing is.
Argument(o, a) ==
  IF o.wrong THEN o
  ELSE IF o.skip THEN [o EXCEPT !.skip = FALSE, !.name = a]
  ELSE CASE a \in {"--help", "-h"}    -> [o EXCEPT !.help = TRUE]
         [] a \in {"--force", "-f"}   -> [o EXCEPT !.force = TRUE]
         [] a \in {"--dry-run", "-n"} -> [o EXCEPT !.dryRun = TRUE]
         [] a = "--pin"               -> [o EXCEPT !.pin = TRUE]
         [] a = "--name"              -> [o EXCEPT !.skip = TRUE, !.name = "ue-trace"]
         [] a = "--name=other"        -> [o EXCEPT !.name = "other"]
         [] OTHER                     -> [o EXCEPT !.wrong = TRUE]

parseArgs(argv) == FoldLeft(Argument, NoOptions, argv)

Options == [help : BOOLEAN, force : BOOLEAN, dryRun : BOOLEAN, pin : BOOLEAN,
            name : Names, wrong : BOOLEAN, skip : BOOLEAN]

\* The arguments name one of the entries that there may be.
ASSUME InstallerAssumption ==
  /\ Found \subseteq Files
  /\ \A argv \in Argvs : parseArgs(argv) \in Options

-----------------------------------------------------------------------------
(* install.                                                                *)

Desired(opts) ==
  [runs |-> IF opts.pin THEN "package@version" ELSE "package", more |-> FALSE]

\* entriesEqual looks at the command and its arguments.
entriesEqual(a, b) == a.runs = b.runs

\* readConfig throws at text that is not JSON and at JSON that is no object.
Unreadable(file) == file.kind \in {"garbled", "list"}

MutForceOrNot(file, opts) ==
  LET there == file.servers[opts.name]
  IN  CASE there = NoEntry -> IF opts.dryRun THEN "would-write" ELSE "added"
        [] entriesEqual(there, Desired(opts)) -> "unchanged"
        [] OTHER -> IF opts.dryRun THEN "would-write" ELSE "updated"
MutSameNameSuffices(file, opts) ==
  LET there == file.servers[opts.name]
  IN  CASE there = NoEntry -> IF opts.dryRun THEN "would-write" ELSE "added"
        [] OTHER -> "unchanged"

\* What is to be done about the entry that the file has under the name.
Status(file, opts) ==
  LET there == file.servers[opts.name]
  IN  CASE there = NoEntry -> IF opts.dryRun THEN "would-write" ELSE "added"
        [] entriesEqual(there, Desired(opts)) -> "unchanged"
        [] there # NoEntry /\ ~entriesEqual(there, Desired(opts)) /\ opts.force ->
             IF opts.dryRun THEN "would-write" ELSE "updated"
        [] OTHER -> "exists-keep"

MutOnlyItsOwnEntry(file, opts) ==
  [FileOf("object") EXCEPT !.servers[opts.name] = Desired(opts)]
finalConfig(file, opts) ==
  [file EXCEPT !.kind = "object", !.servers[opts.name] = Desired(opts)]

NoJob == [at |-> "idle", opts |-> NoOptions, final |-> FileOf("absent"), exit |-> 0]

InstallInit ==
  /\ config \in Found
  /\ job = [p \in Runs |-> NoJob]
  /\ before = config /\ harm = {}

Installing(p)  == job[p].at \in {"read", "write", "fill"}
Over(p)        == job[p].at \in {"done", "crashed"}
EndWith(p, code) == job' = [job EXCEPT ![p].at = "done", ![p].exit = code]

\* runInstall begins.
Install(p, argv) ==
  LET opts == parseArgs(argv) IN
  /\ job[p].at = "idle"
  /\ job' = [job EXCEPT ![p].opts = opts,
                        ![p].at = IF opts.wrong \/ opts.help THEN "done" ELSE "read",
                        ![p].exit = IF opts.wrong THEN 2 ELSE 0]
  /\ harm' = IF ~opts.wrong /\ ~opts.help /\ (\E q \in Runs : Installing(q))
             THEN harm \cup {"overlap"} ELSE harm
  /\ UNCHANGED <<config, before>>

\* readConfig has the file's contents; the decision is made on them at once.
ReadConfig(p) ==
  LET opts   == job[p].opts
      status == Status(config, opts)
  IN  /\ job[p].at = "read"
      /\ IF Unreadable(config)
         THEN EndWith(p, 1)
         ELSE IF status \in {"added", "updated"}
         THEN job' = [job EXCEPT ![p].at = "write",
                                 ![p].final = finalConfig(config, opts)]
         ELSE EndWith(p, IF status = "exists-keep" THEN 1 ELSE 0)
      /\ UNCHANGED <<config, before, harm>>

\* mkdir, and writeFile opens the file: it is empty now.
Truncate(p) ==
  /\ job[p].at = "write"
  /\ config' = FileOf("empty")
  /\ job' = [job EXCEPT ![p].at = "fill"]
  /\ UNCHANGED <<before, harm>>

\* The text is written from the file's start.  Of a text that another run has
\* written meanwhile, what is longer remains.
MutExitsBeforeWriting(p) ==
  /\ job[p].at = "fill"
  /\ config' = config
  /\ EndWith(p, 0)
  /\ UNCHANGED <<before, harm>>

Fill(p) ==
  /\ job[p].at = "fill"
  /\ config' \in IF config.kind = "empty" THEN {job[p].final}
                 ELSE {job[p].final, FileOf("garbled")}
  /\ EndWith(p, 0)
  /\ UNCHANGED <<before, harm>>

\* What a run leaves that stops at the point where p is.
CutOff(p) ==
  IF job[p].at = "fill"
  THEN /\ config' \in {config, FileOf("garbled")}
       /\ harm' = harm \cup {"cut off"}
  ELSE UNCHANGED <<config, harm>>

\* The file cannot be read, made or written: the error ends the process.
InstallFails(p) ==
  /\ Installing(p)
  /\ CutOff(p)
  /\ EndWith(p, 1)
  /\ UNCHANGED before

InstallCrash(p) ==
  /\ Installing(p)
  /\ CutOff(p)
  /\ job' = [job EXCEPT ![p].at = "crashed"]
  /\ UNCHANGED before

-----------------------------------------------------------------------------
(* Properties.                                                             *)

\* The options of those runs of `install' that got to do something.
Served(p) == ~job[p].opts.wrong /\ ~job[p].opts.help
Forced    == {job[p].opts.name : p \in {q \in Runs : Served(q) /\ job[q].opts.force
                                                      /\ ~job[q].opts.dryRun}}

\* "Existing non-conflicting entries are preserved; an existing entry under
\* the same key is only overwritten with --force": however many runs there
\* are, one after the other, with whatever flags, and wherever before the
\* writing they crash.  Only a run that is cut off while it writes, or two
\* that overlap, may lose an entry.  A file that install cannot read stays as
\* it is, and so does any file when nothing but --dry-run is used.
EntriesKept ==
  harm = {} /\ ~(\E p \in Runs : job[p].at = "fill") =>
    /\ Unreadable(before) => config = before
    /\ before.more => config.more
    /\ \A n \in Names \ Forced :
         before.servers[n] # NoEntry => config.servers[n] = before.servers[n]
    /\ (\A p \in Runs : job[p].at = "idle" \/ job[p].opts.dryRun) => config = before

\* A run that exits with 0 and was to write has put the server where the
\* client will find it, and it stays there unless a later run is forced to
\* replace it, is cut off or overlaps.
InstalledStays ==
  \A p \in Runs :
    \/ ~(job[p].at = "done" /\ job[p].exit = 0 /\ Served(p) /\ ~job[p].opts.dryRun)
    \/ harm # {} \/ \E q \in Runs : job[q].at = "fill"
    \/ \E q \in Runs \ {p} : /\ Served(q) /\ job[q].opts.force
                             /\ job[q].opts.name = job[p].opts.name
    \/ entriesEqual(config.servers[job[p].opts.name], Desired(job[p].opts))
=============================================================================
