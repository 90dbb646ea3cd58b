---------------------------- MODULE BinaryCache ----------------------------
(***************************************************************************)
(* ensureBinary (mcp-server/src/binary.ts): each start of the MCP server   *)
(* returns the path of the TraceDigest binary in a directory that all      *)
(* starts of the same version share.  If the binary is not there the       *)
(* release archive is downloaded into that directory, its SHA-256 is       *)
(* compared with the package's manifest, and tar extracts it.              *)
(*                                                                         *)
(* A start is one process.  A file is named for the process that created   *)
(* it, and its contents are those of the inode, not of the name: unlink    *)
(* takes the name away from under whoever still writes or reads.           *)
(***************************************************************************)
EXTENDS Naturals, FiniteSets

CONSTANTS Procs,    \* the starts of the server, one after the other or not
          NoFile,   \* not a process: the name does not exist
          Faults    \* what may go wrong

FaultKinds == {"crash",           \* the process dies, but not while tar runs
               "crash-in-tar",    \* the process dies while tar runs, or tar does
               "network",         \* the download breaks off
               "bad-archive",     \* the download is not the released archive
               "tar-fails",       \* tar stops half way, the disk being full
               "unlink-fails",    \* the archive is not unlinked: someone has it open
               "overlap",         \* several processes run at a time
               "rewrite"}         \* the archive is opened while it is extracted

ASSUME BinaryCacheAssumption ==
  /\ NoFile \notin Procs
  /\ IsFiniteSet(Procs)
  /\ Faults \subseteq FaultKinds

VARIABLES
  pc,       \* pc[p]: the await ensureBinary is suspended at
  failing,  \* failing[p]: an error is on its way through the finally block
  archive,  \* the inode that bears the archive's name, or NoFile
  data,     \* data[i]: the contents of archive inode i
  writer,   \* writer[i]: who last truncated archive inode i
  fd,       \* fd[p]: the archive inode p has open for writing or reading
  binary,   \* the inode that bears the binary's name, or NoFile
  code,     \* code[i]: the contents of binary inode i
  got,      \* history: the binary's contents when p was told of it
  refused,  \* history: the starts whose unlink has failed
  met       \* history: the kinds of fault that have happened

vars == <<pc, failing, archive, data, writer, fd, binary, code, got, refused, met>>

Contents == {"none", "partial", "whole", "bad"}

\* "orphaned": the process has died and its tar has not.
Steps == {"idle", "open", "download", "hash", "tar", "orphaned", "contain",
          "unlink", "check", "ready", "failed", "crashed"}

TypeOK ==
  /\ pc \in [Procs -> Steps]
  /\ failing \in [Procs -> BOOLEAN]
  /\ \A p \in Procs : failing[p] => pc[p] \in {"unlink", "failed", "crashed"}
  /\ archive \in Procs \cup {NoFile}
  /\ data \in [Procs -> Contents]
  /\ writer \in [Procs -> Procs \cup {NoFile}]
  /\ fd \in [Procs -> Procs \cup {NoFile}]
  /\ binary \in Procs \cup {NoFile}
  /\ code \in [Procs -> Contents]
  /\ got \in [Procs -> Contents]
  /\ refused \subseteq Procs
  /\ met \subseteq Faults

Init ==
  /\ pc = [p \in Procs |-> "idle"]
  /\ failing = [p \in Procs |-> FALSE]
  /\ archive = NoFile /\ binary = NoFile
  /\ data = [p \in Procs |-> "none"] /\ code = [p \in Procs |-> "none"]
  /\ writer = [p \in Procs |-> NoFile]
  /\ fd = [p \in Procs |-> NoFile]
  /\ got = [p \in Procs |-> "none"]
  /\ refused = {} /\ met = {}

Ended(p)  == pc[p] \in {"ready", "failed", "crashed"}
Active(p) == pc[p] # "idle" /\ ~Ended(p)

Goto(p, s) == pc' = [pc EXCEPT ![p] = s]

\* A fault of kind k happens, if faults of its kind do.
Suffer(k) == k \in Faults /\ met' = met \cup {k}

\* The path of the binary is returned: the caller will run what is there.
MutReturnWithoutCheck(p) ==
  /\ Goto(p, "ready")
  /\ got' = [got EXCEPT ![p] = IF binary = NoFile THEN "none" ELSE code[binary]]
Return(p) ==
  /\ binary # NoFile
  /\ Goto(p, "ready")
  /\ got' = [got EXCEPT ![p] = code[binary]]

\* An error in the try block: the archive is unlinked on the way out.
MutThrowPastFinally(p) ==
  /\ failing' = failing
  /\ Goto(p, "failed")
Throw(p) ==
  /\ failing' = [failing EXCEPT ![p] = TRUE]
  /\ Goto(p, "unlink")

-----------------------------------------------------------------------------
\* A start of the server: any binary that exists is a hit.
Start(p) ==
  /\ pc[p] = "idle"
  /\ IF \E q \in Procs : Active(q) THEN Suffer("overlap") ELSE met' = met
  /\ \/ Return(p)
     \/ binary = NoFile /\ Goto(p, "open") /\ got' = got
  /\ UNCHANGED <<failing, archive, data, writer, fd, binary, code, refused>>

\* tar is a child process: it runs on when the server that spawned it dies.
Extracting(p) == pc[p] \in {"tar", "orphaned"}

\* createWriteStream truncates the archive that is there, or creates one, be it
\* the one that another start has verified and not extracted yet.
OpenArchive(p) ==
  /\ pc[p] = "open"
  /\ IF \E q \in Procs : Extracting(q) THEN Suffer("rewrite") ELSE met' = met
  /\ LET i == IF archive = NoFile THEN p ELSE archive IN
       /\ archive' = i
       /\ data' = [data EXCEPT ![i] = "partial"]
       /\ writer' = [writer EXCEPT ![i] = p]
       /\ fd' = [fd EXCEPT ![p] = i]
  /\ Goto(p, "download")
  /\ UNCHANGED <<failing, binary, code, got, refused>>

\* The response has been written.  If another process has truncated the file
\* since, what that process has yet to write is missing.
DownloadDone(p) ==
  /\ pc[p] = "download"
  /\ data' = [data EXCEPT ![fd[p]] = IF writer[fd[p]] = p THEN "whole" ELSE @]
  /\ Goto(p, "hash")
  /\ UNCHANGED <<failing, archive, writer, fd, binary, code, got, refused, met>>

DownloadBad(p) ==
  /\ pc[p] = "download" /\ Suffer("bad-archive")
  /\ data' = [data EXCEPT ![fd[p]] = IF writer[fd[p]] = p THEN "bad" ELSE @]
  /\ Goto(p, "hash")
  /\ UNCHANGED <<failing, archive, writer, fd, binary, code, got, refused>>

\* fetch is refused or breaks off.
DownloadFails(p) ==
  /\ pc[p] \in {"open", "download"} /\ Suffer("network")
  /\ Throw(p)
  /\ UNCHANGED <<archive, data, writer, fd, binary, code, got, refused>>

\* sha256OfFile, which finds the archive by its name.
MutArchiveExists == archive # NoFile
DigestMatches == archive # NoFile /\ data[archive] = "whole"

\* The archive has the digest of the manifest, and tar is started.
Verify(p) ==
  /\ pc[p] = "hash"
  /\ DigestMatches
  /\ fd' = [fd EXCEPT ![p] = NoFile]
  /\ Goto(p, "tar")
  /\ UNCHANGED <<failing, archive, data, writer, binary, code, got, refused, met>>

Mismatch(p) ==
  /\ pc[p] = "hash"
  /\ ~DigestMatches
  /\ Throw(p)
  /\ UNCHANGED <<archive, data, writer, fd, binary, code, got, refused, met>>

\* tar opens the archive, by its name again; it replaces the binary by a new
\* file and starts to fill it.
TarCreates(p) ==
  /\ Extracting(p) /\ fd[p] = NoFile /\ archive # NoFile
  /\ fd' = [fd EXCEPT ![p] = archive]
  /\ binary' = p
  /\ code' = [code EXCEPT ![p] = "partial"]
  /\ UNCHANGED <<pc, failing, archive, data, writer, got, refused, met>>

\* tar has read the archive to its end.  A file that was whole when it was
\* verified may have been truncated, or replaced, since.
TarDone(p) ==
  /\ Extracting(p) /\ fd[p] # NoFile /\ data[fd[p]] \in {"whole", "bad"}
  /\ code' = [code EXCEPT ![p] = data[fd[p]]]
  /\ Goto(p, IF pc[p] = "tar" THEN "contain" ELSE "crashed")
  /\ UNCHANGED <<failing, archive, data, writer, fd, binary, got, refused, met>>

MutTarErrorUnheard(p) ==
  /\ pc[p] = "tar" /\ pc[p] = "never"
  /\ UNCHANGED vars

\* tar exits with an error and leaves what it has written: the disk is full,
\* the archive is gone or was cut off.
TarFails(p) ==
  /\ Extracting(p)
  /\ \/ Suffer("tar-fails")
     \/ /\ IF fd[p] = NoFile THEN archive = NoFile ELSE data[fd[p]] = "partial"
        /\ met' = met
  /\ IF pc[p] = "tar" THEN Throw(p) ELSE Goto(p, "crashed") /\ failing' = failing
  /\ UNCHANGED <<archive, data, writer, fd, binary, code, got, refused>>

\* assertContainedTree walks the directory; files that another process
\* removes meanwhile make it throw.
Contained(p) ==
  /\ pc[p] = "contain"
  /\ \/ Goto(p, "unlink") /\ failing' = failing
     \/ (\E q \in Procs \ {p} : Active(q)) /\ Throw(p)
  /\ UNCHANGED <<archive, data, writer, fd, binary, code, got, refused, met>>

\* The finally block.  An unlink that fails is swallowed, and the archive stays.
Unlink(p) ==
  /\ pc[p] = "unlink"
  /\ \/ archive' = NoFile /\ UNCHANGED <<refused, met>>
     \/ /\ archive # NoFile /\ Suffer("unlink-fails")
        /\ refused' = refused \cup {p}
        /\ archive' = archive
  /\ fd' = [fd EXCEPT ![p] = NoFile]
  /\ Goto(p, IF failing[p] THEN "failed" ELSE "check")
  /\ UNCHANGED <<failing, data, writer, binary, code, got>>

\* The binary is where the archive was expected to put it.
Check(p) ==
  /\ pc[p] = "check"
  /\ Return(p)
  /\ UNCHANGED <<failing, archive, data, writer, fd, binary, code, refused, met>>

\* The server dies; its tar dies with it, later, or not at all.
Crash(p) ==
  /\ Active(p)
  /\ Suffer(IF Extracting(p) THEN "crash-in-tar" ELSE "crash")
  /\ Goto(p, "crashed") \/ (pc[p] = "tar" /\ Goto(p, "orphaned"))
  /\ UNCHANGED <<failing, archive, data, writer, fd, binary, code, got, refused>>

-----------------------------------------------------------------------------
Progress(p) ==
  \/ Start(p) \/ OpenArchive(p)
  \/ DownloadDone(p) \/ DownloadBad(p) \/ DownloadFails(p)
  \/ Verify(p) \/ Mismatch(p)
  \/ TarCreates(p) \/ TarDone(p) \/ TarFails(p)
  \/ Contained(p) \/ Unlink(p) \/ Check(p)

-----------------------------------------------------------------------------
(* Properties.                                                             *)

\* "A failed extract leaves us in a recoverable state for the next run": a
\* binary that is not whole is only taken for one after tar has been cut
\* short, or when several starts overlapped.  Crashes elsewhere, broken
\* downloads and bad archives are recovered from.
PartialOnlyAfterTar ==
  \A p \in Procs : pc[p] = "ready" /\ got[p] # "whole" =>
    met \cap {"tar-fails", "crash-in-tar", "overlap"} # {}

\* Nothing is extracted that is not the released archive, however starts overlap,
\* fail and die, unless one opens the archive while another's is being extracted:
\* sha256OfFile and tar each find it by name (binary.ts:320, 328), and this is the
\* only window that leaves.
OnlyReleasedCode ==
  binary # NoFile /\ code[binary] = "bad" => "rewrite" \in met

\* An ensureBinary that returns or throws leaves no archive of its own making
\* behind, for whatever reason it threw, unless its very unlink failed: there is
\* no way out of the try block, or past it, on which it is not attempted.
ArchiveRemoved ==
  \A p \in Procs : pc[p] \in {"ready", "failed"} =>
    (archive # NoFile /\ writer[archive] = p => p \in refused)
=============================================================================
