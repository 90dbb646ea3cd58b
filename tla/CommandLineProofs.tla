------------------------- MODULE CommandLineProofs --------------------------
(***************************************************************************)
(* Theorems about CommandLine: what ensureBinary and `install' promise,    *)
(* for any number of processes that start, fail and crash as they may, and *)
(* for any argument vectors.                                               *)
(***************************************************************************)
EXTENDS CommandLine, TLAPS

-----------------------------------------------------------------------------
(* ensureBinary.                                                           *)

\* The binary part of a step of a process.
BinaryStep(p) == Progress(p) \/ Crash(p)

\* The archive that bears the name was last truncated by a process that has
\* not come to its unlink yet, died before it, or was refused it.
WriterInv ==
  archive # NoFile =>
    /\ writer[archive] \in Procs
    /\ \/ pc[writer[archive]] \in {"download", "hash", "tar", "orphaned", "contain", "unlink", "crashed"}
       \/ writer[archive] \in refused

\* Without overlaps one process is active at a time.
AloneInv ==
  "overlap" \notin met => \A p, q \in Procs : Active(p) /\ Active(q) => p = q

\* Then tar reads what has been verified, from the archive's name or from the
\* file it has opened, and its output is the binary.
TarInv ==
  "overlap" \notin met =>
    \A p \in Procs : Extracting(p) =>
      IF fd[p] = NoFile THEN archive # NoFile /\ data[archive] = "whole"
      ELSE data[fd[p]] = "whole" /\ binary = p

\* What has been verified stays as it is until it is extracted, unless another
\* start opens it: who downloads into a file has truncated it himself, or leaves
\* it alone.
VerifiedInv ==
  "rewrite" \notin met =>
    /\ \A p \in Procs : pc[p] = "download" =>
         fd[p] \in Procs /\ (writer[fd[p]] = p => data[fd[p]] = "partial")
    /\ \A p \in Procs : Extracting(p) =>
         IF fd[p] = NoFile THEN archive # NoFile => data[archive] = "whole"
         ELSE data[fd[p]] = "whole"

\* No binary has been made of anything but the released archive.
ReleasedInv == "rewrite" \notin met => \A i \in Procs : code[i] # "bad"

\* As long as tar is not cut short either, a binary is whole unless tar is
\* still filling it.
Unharmed == met \cap {"tar-fails", "crash-in-tar", "overlap"} = {}

WholeInv ==
  Unharmed =>
    /\ \A p \in Procs : pc[p] # "orphaned"
    /\ binary # NoFile => code[binary] = "whole" \/ (pc[binary] = "tar" /\ fd[binary] # NoFile)
    /\ \A p \in Procs : pc[p] = "ready" => got[p] = "whole"

BinaryInv ==
  TypeOK /\ WriterInv /\ AloneInv /\ TarInv /\ VerifiedInv /\ ReleasedInv /\ WholeInv

\* The download directory as the first start finds it.
LEMMA BinaryInit == Init => BinaryInv
  <1> SUFFICES ASSUME Init PROVE BinaryInv
    OBVIOUS
  <1>1. TypeOK
    BY DEF Init, TypeOK, Steps, Contents
  <1>2. WriterInv /\ AloneInv /\ TarInv /\ VerifiedInv /\ ReleasedInv /\ WholeInv
    BY DEF Init, WriterInv, AloneInv, TarInv, VerifiedInv, ReleasedInv, WholeInv, Active, Ended, Extracting
  <1>3. QED
    BY <1>1, <1>2 DEF BinaryInv

\* What has happened stays known.
LEMMA MetGrows ==
  ASSUME NEW p \in Procs, BinaryStep(p), TypeOK
  PROVE  met \subseteq met' /\ met' \subseteq Faults
  BY DEF Extracting, BinaryStep, Progress, Start, OpenArchive, DownloadDone, DownloadBad, DownloadFails, Verify,
         Mismatch, TarCreates, TarDone, TarFails, Contained, Unlink, Check, Crash, Suffer, TypeOK

\* A step of a start keeps the types.
LEMMA BinaryTypes ==
  ASSUME NEW p \in Procs, BinaryStep(p), TypeOK
  PROVE  TypeOK'
  <1>1. met' \subseteq Faults
    BY MetGrows
  <1>2. CASE Start(p) \/ Check(p)
    BY <1>1, <1>2 DEF Start, Check, Return, Goto, TypeOK, Steps
  <1>3. CASE OpenArchive(p)
    BY <1>1, <1>3 DEF OpenArchive, Goto, TypeOK, Steps, Contents
  <1>4. CASE DownloadDone(p) \/ DownloadBad(p)
    BY <1>1, <1>4 DEF DownloadDone, DownloadBad, Goto, TypeOK, Steps, Contents
  <1>5. CASE DownloadFails(p) \/ Mismatch(p) \/ TarFails(p)
    BY <1>1, <1>5 DEF Extracting, DownloadFails, Mismatch, TarFails, Throw, Goto, TypeOK, Steps
  <1>6. CASE Verify(p) \/ TarCreates(p)
    BY <1>1, <1>6 DEF Extracting, Verify, TarCreates, Goto, TypeOK, Steps, Contents
  <1>7. CASE TarDone(p) \/ Contained(p)
    BY <1>1, <1>7 DEF Extracting, TarDone, Contained, Throw, Goto, TypeOK, Steps
  <1>8. CASE Unlink(p) \/ Crash(p)
    BY <1>1, <1>8 DEF Extracting, Unlink, Crash, Goto, TypeOK, Steps, Active, Ended
  <1>9. QED
    BY <1>2, <1>3, <1>4, <1>5, <1>6, <1>7, <1>8 DEF BinaryStep, Progress

\* Only unlink takes a process past the places where its archive may remain.
LEMMA WriterStep ==
  ASSUME NEW p \in Procs, BinaryStep(p), TypeOK, WriterInv
  PROVE  WriterInv'
  <1>1. CASE OpenArchive(p)
    BY <1>1, BinaryCacheAssumption DEF OpenArchive, Goto, TypeOK, WriterInv, BinaryCacheAssumption
  <1>2. CASE Unlink(p)
    BY <1>2 DEF Unlink, Goto, TypeOK, WriterInv
  <1>3. CASE Start(p) \/ Check(p)
    BY <1>3 DEF Start, Check, Return, Goto, TypeOK, WriterInv
  <1>4. CASE DownloadDone(p) \/ DownloadBad(p) \/ Verify(p) \/ TarCreates(p) \/ TarDone(p) \/ Crash(p)
    BY <1>4 DEF Extracting, DownloadDone, DownloadBad, Verify, TarCreates, TarDone, Crash, Goto, TypeOK, WriterInv
  <1>5. CASE DownloadFails(p) \/ Mismatch(p) \/ TarFails(p) \/ Contained(p)
    BY <1>5 DEF Extracting, DownloadFails, Mismatch, TarFails, Contained, Throw, Goto, TypeOK, WriterInv
  <1>6. QED
    BY <1>1, <1>2, <1>3, <1>4, <1>5 DEF BinaryStep, Progress

\* A process becomes active by its start alone, which notes who else is.
LEMMA AloneStep ==
  ASSUME NEW p \in Procs, BinaryStep(p), TypeOK, AloneInv
  PROVE  AloneInv'
  <1>1. met \subseteq met' /\ \A q \in Procs \ {p} : pc'[q] = pc[q]
    BY MetGrows DEF Extracting, BinaryStep, Progress, Start, OpenArchive, DownloadDone, DownloadBad, DownloadFails,
       Verify, Mismatch, TarCreates, TarDone, TarFails, Contained, Unlink, Check, Crash, Return, Throw,
       Goto, TypeOK
  <1>2. CASE Start(p)
    <2>1. "overlap" \notin met' => \A q \in Procs : ~Active(q)
      BY <1>2 DEF Start, Suffer
    <2>2. QED
      BY <1>1, <2>1 DEF AloneInv, Active, Ended
  <1>3. CASE ~Start(p)
    <2>1. Active(p)
      BY <1>3 DEF Extracting, BinaryStep, Progress, OpenArchive, DownloadDone, DownloadBad, DownloadFails,
         Verify, Mismatch, TarCreates, TarDone, TarFails, Contained, Unlink, Check, Crash, Active, Ended
    <2>2. QED
      BY <1>1, <2>1 DEF AloneInv, Active, Ended
  <1>4. QED
    BY <1>2, <1>3

\* A step of a process that is in no other's way: what another one has come to
\* is past or still to come.
LEMMA OthersIdle ==
  ASSUME NEW p \in Procs, BinaryStep(p), TypeOK, AloneInv, "overlap" \notin met'
  PROVE  /\ "overlap" \notin met
         /\ \A q \in Procs \ {p} : ~Active(q) /\ ~Extracting(q) /\ pc'[q] = pc[q]
  <1>1. met \subseteq met' /\ \A q \in Procs \ {p} : pc'[q] = pc[q]
    BY MetGrows DEF Extracting, BinaryStep, Progress, Start, OpenArchive, DownloadDone, DownloadBad, DownloadFails,
       Verify, Mismatch, TarCreates, TarDone, TarFails, Contained, Unlink, Check, Crash, Return, Throw,
       Goto, TypeOK
  <1>2. \A q \in Procs \ {p} : ~Active(q)
    <2>1. CASE Start(p)
      BY <2>1 DEF Start, Suffer
    <2>2. CASE ~Start(p)
      <3>1. Active(p)
        BY <2>2 DEF Extracting, BinaryStep, Progress, OpenArchive, DownloadDone, DownloadBad, DownloadFails,
           Verify, Mismatch, TarCreates, TarDone, TarFails, Contained, Unlink, Check, Crash, Active,
           Ended
      <3>2. QED
        BY <1>1, <3>1 DEF AloneInv
    <2>3. QED
      BY <2>1, <2>2
  <1>3. QED
    BY <1>1, <1>2 DEF Active, Ended, Extracting

\* What has been verified is what tar reads.
LEMMA TarStep ==
  ASSUME NEW p \in Procs, BinaryStep(p), TypeOK, AloneInv, TarInv
  PROVE  TarInv'
  <1> SUFFICES ASSUME "overlap" \notin met', NEW q \in Procs, Extracting(q)'
               PROVE  IF fd'[q] = NoFile THEN archive' # NoFile /\ data'[archive'] = "whole"
                      ELSE data'[fd'[q]] = "whole" /\ binary' = q
    BY DEF Extracting, TarInv
  <1>1. q = p
    BY OthersIdle DEF Extracting
  <1>2. CASE Verify(p)
    BY <1>1, <1>2 DEF Verify, DigestMatches, TypeOK
  <1>3. CASE TarCreates(p)
    BY <1>1, <1>3, OthersIdle, BinaryCacheAssumption DEF Extracting, TarCreates, TarInv, TypeOK
  <1>4. QED
    BY <1>1, <1>2, <1>3, OthersIdle DEF TarInv, Extracting, BinaryStep, Progress, Start, OpenArchive,
       DownloadDone, DownloadBad, DownloadFails, Mismatch, TarDone, TarFails, Contained, Unlink, Check, Crash, Return, Throw, Goto,
       TypeOK

\* Whoever writes into an archive that was verified has opened it since.
LEMMA VerifiedStep ==
  ASSUME NEW p \in Procs, BinaryStep(p), TypeOK, VerifiedInv
  PROVE  VerifiedInv'
  <1> SUFFICES ASSUME "rewrite" \notin met'
               PROVE  VerifiedInv'
    BY DEF VerifiedInv
  <1>1. "rewrite" \notin met
    BY MetGrows
  <1>2. /\ \A q \in Procs : pc[q] = "download" =>
             fd[q] \in Procs /\ (writer[fd[q]] = q => data[fd[q]] = "partial")
        /\ \A q \in Procs : Extracting(q) =>
             IF fd[q] = NoFile THEN archive # NoFile => data[archive] = "whole"
             ELSE data[fd[q]] = "whole"
    BY <1>1 DEF VerifiedInv
  <1>3. CASE OpenArchive(p)
    <2>1. \A q \in Procs : ~Extracting(q)
      BY <1>3 DEF OpenArchive, Suffer
    <2>2. PICK i \in Procs : /\ data' = [data EXCEPT ![i] = "partial"]
                             /\ writer' = [writer EXCEPT ![i] = p]
                             /\ fd' = [fd EXCEPT ![p] = i]
      BY <1>3 DEF OpenArchive, TypeOK
    <2>3. QED
      BY <1>2, <1>3, <2>1, <2>2 DEF OpenArchive, Goto, Extracting, TypeOK, VerifiedInv
  <1>4. CASE DownloadDone(p)
    BY <1>2, <1>4, BinaryCacheAssumption
    DEF DownloadDone, Goto, Extracting, TypeOK, VerifiedInv, BinaryCacheAssumption
  <1>5. CASE DownloadBad(p)
    <2>1. /\ pc[p] = "download" /\ fd[p] \in Procs
          /\ data' = [data EXCEPT ![fd[p]] = IF writer[fd[p]] = p THEN "bad" ELSE @]
          /\ writer[fd[p]] = p => data[fd[p]] = "partial"
      BY <1>2, <1>5 DEF DownloadBad
    <2>2. \A i \in Procs : data[i] = "whole" => data'[i] = "whole"
      BY <2>1 DEF TypeOK
    <2>3. QED
      BY <1>2, <1>5, <2>1, <2>2 DEF DownloadBad, Goto, Extracting, TypeOK, VerifiedInv
  <1>6. CASE Verify(p)
    BY <1>2, <1>6 DEF Verify, DigestMatches, Goto, Extracting, TypeOK, VerifiedInv
  <1>7. CASE TarCreates(p)
    BY <1>2, <1>7 DEF TarCreates, Extracting, TypeOK, VerifiedInv
  <1>8. CASE Start(p) \/ Check(p)
    BY <1>2, <1>8 DEF Start, Check, Return, Goto, Extracting, TypeOK, VerifiedInv
  <1>9. CASE DownloadFails(p) \/ Mismatch(p)
    BY <1>2, <1>9 DEF DownloadFails, Mismatch, Throw, Goto, Extracting, TypeOK, VerifiedInv
  <1>10. CASE TarDone(p) \/ TarFails(p) \/ Contained(p)
    BY <1>2, <1>10 DEF TarDone, TarFails, Contained, Throw, Goto, Extracting, TypeOK, VerifiedInv
  <1>11. CASE Unlink(p) \/ Crash(p)
    BY <1>2, <1>11 DEF Unlink, Crash, Goto, Extracting, TypeOK, VerifiedInv
  <1>12. QED
    BY <1>3, <1>4, <1>5, <1>6, <1>7, <1>8, <1>9, <1>10, <1>11 DEF BinaryStep, Progress

\* And so tar extracts nothing but what has been released.
LEMMA ReleasedStep ==
  ASSUME NEW p \in Procs, BinaryStep(p), TypeOK, VerifiedInv, ReleasedInv
  PROVE  ReleasedInv'
  <1> SUFFICES ASSUME "rewrite" \notin met' PROVE \A i \in Procs : code'[i] # "bad"
    BY DEF ReleasedInv
  <1>1. "rewrite" \notin met /\ \A i \in Procs : code[i] # "bad"
    BY MetGrows DEF ReleasedInv
  <1>2. CASE TarCreates(p)
    BY <1>1, <1>2 DEF Extracting, TarCreates, TypeOK
  <1>3. CASE TarDone(p)
    BY <1>1, <1>3 DEF Extracting, TarDone, VerifiedInv, TypeOK
  <1>4. QED
    BY <1>1, <1>2, <1>3 DEF Extracting, BinaryStep, Progress, Start, OpenArchive, DownloadDone, DownloadBad,
       DownloadFails, Verify, Mismatch, TarFails, Contained, Unlink, Check, Crash

\* A binary that is found is whole, with nobody else there to be filling it.
LEMMA WholeStep ==
  ASSUME NEW p \in Procs, BinaryStep(p), TypeOK, AloneInv, TarInv, WholeInv
  PROVE  WholeInv'
  <1> SUFFICES ASSUME Unharmed' PROVE WholeInv'
    BY DEF WholeInv
  <1>1. /\ "overlap" \notin met' /\ Unharmed
        /\ \A q \in Procs \ {p} : ~Active(q) /\ ~Extracting(q) /\ pc'[q] = pc[q]
        /\ "overlap" \notin met
    BY MetGrows, OthersIdle DEF Unharmed
  <1>2. /\ binary # NoFile => binary \in Procs
        /\ binary # NoFile => code[binary] = "whole" \/ (pc[binary] = "tar" /\ fd[binary] # NoFile)
        /\ \A q \in Procs : pc[q] = "ready" => got[q] = "whole"
        /\ \A q \in Procs : pc[q] # "orphaned"
    BY <1>1 DEF WholeInv, TypeOK
  <1>3. CASE Start(p)
    <2>1. binary # NoFile => code[binary] = "whole"
      BY <1>1, <1>2, <1>3 DEF Start, Extracting
    <2>2. QED
      BY <1>1, <1>2, <1>3, <2>1 DEF Start, Return, Goto, TypeOK, WholeInv
  <1>4. CASE Check(p)
    <2>1. binary # NoFile => code[binary] = "whole"
      BY <1>1, <1>2, <1>4 DEF Check, Extracting
    <2>2. QED
      BY <1>1, <1>2, <1>4, <2>1 DEF Check, Return, Goto, TypeOK, WholeInv
  <1>5. CASE TarCreates(p)
    BY <1>2, <1>5, BinaryCacheAssumption DEF Extracting, TarCreates, TypeOK, WholeInv, BinaryCacheAssumption
  <1>6. CASE TarDone(p)
    <2>1. data[fd[p]] = "whole" /\ binary = p
      BY <1>1, <1>6 DEF Extracting, TarDone, TarInv
    <2>2. QED
      BY <1>2, <1>6, <2>1 DEF Extracting, TarDone, Goto, TypeOK, WholeInv
  <1>7. CASE TarFails(p)
    <2>1. IF fd[p] = NoFile THEN archive # NoFile /\ data[archive] = "whole"
          ELSE data[fd[p]] = "whole"
      BY <1>1, <1>7 DEF Extracting, TarFails, TarInv
    <2>2. "tar-fails" \in met'
      BY <1>7, <2>1 DEF Extracting, TarFails, Suffer
    <2>3. QED
      BY <2>2 DEF Unharmed
  <1>8. CASE Crash(p)
    <2>1. ~Extracting(p)
      BY <1>8 DEF Extracting, Crash, Suffer, Unharmed
    <2>2. QED
      BY <1>2, <1>8, <2>1 DEF Extracting, Crash, Goto, TypeOK, WholeInv
  <1>9. CASE OpenArchive(p) \/ DownloadDone(p) \/ DownloadBad(p) \/ Verify(p) \/ Unlink(p)
    BY <1>2, <1>9 DEF OpenArchive, DownloadDone, DownloadBad, Verify, Unlink, Goto, TypeOK, WholeInv
  <1>10. CASE DownloadFails(p) \/ Mismatch(p) \/ Contained(p)
    BY <1>2, <1>10 DEF DownloadFails, Mismatch, Contained, Throw, Goto, TypeOK, WholeInv
  <1>11. QED
    BY <1>3, <1>4, <1>5, <1>6, <1>7, <1>8, <1>9, <1>10 DEF BinaryStep, Progress

\* A step of a start keeps the invariant, part by part.
LEMMA BinaryKept ==
  ASSUME BinaryInv, \/ \E p \in Procs : BinaryStep(p)
                    \/ UNCHANGED vars
  PROVE  BinaryInv'
  <1> USE DEF BinaryInv
  <1>1. ASSUME NEW p \in Procs, BinaryStep(p) PROVE BinaryInv'
    BY <1>1, BinaryTypes, WriterStep, AloneStep, TarStep, VerifiedStep, ReleasedStep, WholeStep
  <1>2. CASE UNCHANGED vars
    <2>1. TypeOK' /\ WriterInv' /\ AloneInv'
      BY <1>2 DEF vars, TypeOK, WriterInv, AloneInv, Active, Ended
    <2>2. TarInv' /\ VerifiedInv' /\ ReleasedInv' /\ WholeInv'
      BY <1>2 DEF Extracting, vars, TarInv, VerifiedInv, ReleasedInv, WholeInv, Unharmed
    <2>3. QED
      BY <2>1, <2>2
  <1>3. QED
    BY <1>1, <1>2

-----------------------------------------------------------------------------
(* `install'.                                                              *)

\* The install part of a step of a process.
InstallStep(p) ==
  \/ \E argv \in Argvs : Install(p, argv)
  \/ ReadConfig(p) \/ Truncate(p) \/ Fill(p)
  \/ Help(p)
  \/ InstallFails(p) \/ InstallCrash(p)

Jobs == [at : {"idle", "read", "write", "fill", "done", "crashed"}, opts : Options,
         final : Files, exit : {0, 1, 2}]

InstallTypes ==
  /\ config \in Files /\ before \in Files
  /\ job \in [Runs -> Jobs]
  /\ harm \subseteq {"overlap", "cut off"}
  /\ \A p \in Runs : job[p].at = "idle" => job[p].opts = NoOptions
  /\ \A p \in Runs : Installing(p) => Served(p)

\* Two files agree on what install has to keep.
Kept(f) ==
  /\ Unreadable(before) => f = before
  /\ before.more => f.more
  /\ \A n \in Names \ Forced :
       before.servers[n] # NoEntry => f.servers[n] = before.servers[n]
  /\ (\A p \in Runs : job[p].at = "idle" \/ job[p].opts.dryRun) => f = before

\* What the runs that have ended were to put into the file is there.
Installed(f) ==
  \A p \in Runs :
    job[p].at = "done" /\ job[p].exit = 0 /\ Served(p) /\ ~job[p].opts.dryRun =>
      \/ \E q \in Runs \ {p} : /\ Served(q) /\ job[q].opts.force
                               /\ job[q].opts.name = job[p].opts.name
      \/ entriesEqual(f.servers[job[p].opts.name], Desired(job[p].opts))

\* As long as nothing has gone wrong one run is under way at most; what it has
\* decided to write it has made of the file as it still is; and while the file
\* is empty, what it is about to write has everything that was there.
HarmlessInv ==
  harm = {} =>
    /\ \A p, q \in Runs : Installing(p) /\ Installing(q) => p = q
    /\ ~(\E p \in Runs : job[p].at = "fill") => Kept(config) /\ Installed(config)
    /\ \A p \in Runs : job[p].at = "write" =>
         /\ ~Unreadable(config)
         /\ Status(config, job[p].opts) \in {"added", "updated"}
         /\ job[p].final = finalConfig(config, job[p].opts)
    /\ \A p \in Runs : job[p].at = "fill" =>
         /\ config = FileOf("empty")
         /\ ~job[p].opts.dryRun
         /\ Kept(job[p].final) /\ Installed(job[p].final)
         /\ entriesEqual(job[p].final.servers[job[p].opts.name], Desired(job[p].opts))

InstallInv == InstallTypes /\ HarmlessInv

\* A file has an entry, or none, under every name.
LEMMA FileTypes ==
  /\ \A k \in {"absent", "empty", "garbled", "list"} :
       FileOf(k) \in Files /\ FileOf(k).kind = k /\ FileOf(k).servers \in [Names -> Entries \cup {NoEntry}]
  /\ \A f \in Files : /\ f.kind \in {"absent", "empty", "garbled", "list", "object"}
                      /\ f.servers \in [Names -> Entries \cup {NoEntry}]
                      /\ f.more \in BOOLEAN
                      /\ f = [kind |-> f.kind, servers |-> f.servers, more |-> f.more]
  <1>1. \A k \in {"absent", "empty", "garbled", "list"} :
          /\ FileOf(k) \in Files /\ FileOf(k).kind = k
          /\ FileOf(k).servers \in [Names -> Entries \cup {NoEntry}]
          /\ FileOf(k).more = FALSE
          /\ FileOf(k) = [kind |-> FileOf(k).kind, servers |-> FileOf(k).servers, more |-> FileOf(k).more]
    BY DEF FileOf, Files
  <1>2. ASSUME NEW f \in [kind : {"object"}, servers : [Names -> Entries \cup {NoEntry}], more : BOOLEAN]
        PROVE  /\ f.kind = "object" /\ f.servers \in [Names -> Entries \cup {NoEntry}]
               /\ f.more \in BOOLEAN
               /\ f = [kind |-> f.kind, servers |-> f.servers, more |-> f.more]
    OBVIOUS
  <1>3. ASSUME NEW f \in {FileOf(k) : k \in {"absent", "empty", "garbled", "list"}}
        PROVE  /\ f.kind \in {"absent", "empty", "garbled", "list"}
               /\ f.servers \in [Names -> Entries \cup {NoEntry}]
               /\ f.more \in BOOLEAN
               /\ f = [kind |-> f.kind, servers |-> f.servers, more |-> f.more]
    <2>1. PICK k \in {"absent", "empty", "garbled", "list"} : f = FileOf(k)
      BY <1>3
    <2>2. QED
      BY <1>1, <2>1
  <1>4. QED
    BY <1>1, <1>2, <1>3 DEF Files

\* What is to be written: the entry, and everything else as it was.
LEMMA FinalConfig ==
  ASSUME NEW f \in Files, NEW opts \in Options
  PROVE  LET g == finalConfig(f, opts)
         IN  /\ g \in Files
             /\ g.kind = "object" /\ g.more = f.more
             /\ g.servers[opts.name] = Desired(opts)
             /\ \A n \in Names \ {opts.name} : g.servers[n] = f.servers[n]
  <1> DEFINE s == [f.servers EXCEPT ![opts.name] = Desired(opts)]
  <1>1. opts.name \in Names /\ opts.pin \in BOOLEAN
    BY DEF Options
  <1>2. Desired(opts) \in Entries
    BY <1>1 DEF Desired, Entries
  <1>3. f.servers \in [Names -> Entries \cup {NoEntry}] /\ f.more \in BOOLEAN
        /\ f = [kind |-> f.kind, servers |-> f.servers, more |-> f.more]
    BY FileTypes
  <1>4. finalConfig(f, opts) = [kind |-> "object", servers |-> s, more |-> f.more]
    <2>1. PICK k, t, m : f = [kind |-> k, servers |-> t, more |-> m]
      BY <1>3
    <2>2. finalConfig(f, opts) = [[f EXCEPT !.kind = "object"] EXCEPT !.servers[opts.name] = Desired(opts)]
      BY DEF finalConfig
    <2>3. [f EXCEPT !.kind = "object"] = [kind |-> "object", servers |-> t, more |-> m]
      BY <2>1
    <2>4. [[kind |-> "object", servers |-> t, more |-> m] EXCEPT !.servers[opts.name] = Desired(opts)]
            = [kind |-> "object", servers |-> [t EXCEPT ![opts.name] = Desired(opts)], more |-> m]
      OBVIOUS
    <2>5. QED
      BY <2>1, <2>2, <2>3, <2>4
  <1>5. s \in [Names -> Entries \cup {NoEntry}] /\ s[opts.name] = Desired(opts)
        /\ \A n \in Names \ {opts.name} : s[n] = f.servers[n]
    BY <1>1, <1>2, <1>3
  <1> HIDE DEF s
  <1>6. QED
    BY <1>3, <1>4, <1>5 DEF Files

\* The decision to write is made about an entry that is missing, or about one
\* that is in the way of a forced run; the run is not a dry one.
LEMMA StatusMeans ==
  ASSUME NEW f \in Files, NEW opts \in Options, Status(f, opts) \in {"added", "updated"}
  PROVE  /\ ~opts.dryRun
         /\ f.servers[opts.name] = NoEntry \/ opts.force
  <1>1. opts.dryRun \in BOOLEAN /\ opts.force \in BOOLEAN
    BY DEF Options
  <1> DEFINE there == f.servers[opts.name]
             same  == entriesEqual(there, Desired(opts))
  <1> HIDE DEF there, same
  <1>2. Status(f, opts) =
          CASE there = NoEntry -> IF opts.dryRun THEN "would-write" ELSE "added"
            [] same -> "unchanged"
            [] there # NoEntry /\ ~same /\ opts.force -> IF opts.dryRun THEN "would-write" ELSE "updated"
            [] OTHER -> "exists-keep"
    BY DEF Status, there, same
  <1>3. QED
    BY <1>1, <1>2 DEF there, entriesEqual, Desired, NoEntry

\* A run's record after a step of it.
LEMMA JobEnds ==
  ASSUME job \in [Runs -> Jobs], NEW p \in Runs, NEW status \in {0, 1, 2}, EndWith(p, status)
  PROVE  /\ job' \in [Runs -> Jobs]
         /\ job'[p].at = "done" /\ job'[p].exit = status
         /\ job'[p].opts = job[p].opts /\ job'[p].final = job[p].final
         /\ \A q \in Runs \ {p} : job'[q] = job[q]
  BY DEF EndWith, Jobs

\* A run goes on, or is killed: what it is to write stays as it was.
LEMMA JobMoves ==
  ASSUME job \in [Runs -> Jobs], NEW p \in Runs, NEW a \in {"fill", "crashed"},
         job' = [job EXCEPT ![p].at = a]
  PROVE  /\ job' \in [Runs -> Jobs]
         /\ job'[p].at = a
         /\ job'[p].opts = job[p].opts /\ job'[p].final = job[p].final
         /\ \A q \in Runs \ {p} : job'[q] = job[q]
  BY DEF Jobs

\* A run has decided what it is going to write.
LEMMA JobDecides ==
  ASSUME job \in [Runs -> Jobs], NEW p \in Runs, NEW f \in Files,
         job' = [job EXCEPT ![p].at = "write", ![p].final = f]
  PROVE  /\ job' \in [Runs -> Jobs]
         /\ job'[p].at = "write" /\ job'[p].final = f
         /\ job'[p].opts = job[p].opts
         /\ \A q \in Runs \ {p} : job'[q] = job[q]
  BY DEF Jobs

\* A run begins with the options its arguments stand for.
LEMMA JobBegins ==
  ASSUME job \in [Runs -> Jobs], NEW p \in Runs, NEW argv \in Argvs, Install(p, argv)
  PROVE  LET opts == parseArgs(argv)
         IN  /\ job' \in [Runs -> Jobs]
             /\ opts \in Options /\ job'[p].opts = opts
             /\ job'[p].at = IF opts.wrong \/ opts.help THEN "done" ELSE "read"
             /\ \A q \in Runs \ {p} : job'[q] = job[q]
  <1> DEFINE opts == parseArgs(argv)
  <1>1. opts \in Options
    BY InstallerAssumption DEF InstallerAssumption
  <1>2. job' = [job EXCEPT ![p].opts = opts,
                           ![p].at = IF opts.wrong \/ opts.help THEN "done" ELSE "read",
                           ![p].exit = IF opts.wrong THEN 2 ELSE 0]
    BY DEF Install
  <1>3. PICK a \in {"done", "read"}, e \in {0, 2} :
          /\ a = IF opts.wrong \/ opts.help THEN "done" ELSE "read"
          /\ job' = [job EXCEPT ![p].opts = opts, ![p].at = a, ![p].exit = e]
    BY <1>2
  <1> HIDE DEF opts
  <1>4. job' = [job EXCEPT ![p] = [[[job[p] EXCEPT !.opts = opts] EXCEPT !.at = a] EXCEPT !.exit = e]]
    BY <1>3
  <1>5. job' \in [Runs -> Jobs] /\ job'[p].opts = opts /\ job'[p].at = a
        /\ \A q \in Runs \ {p} : job'[q] = job[q]
    BY <1>1, <1>4 DEF Jobs
  <1>6. QED
    BY <1>1, <1>3, <1>5 DEF opts

\* A process that prints its usage is a run that has ended.
LEMMA JobHelps ==
  ASSUME job \in [Runs -> Jobs], NEW p \in Runs, Help(p)
  PROVE  /\ job' \in [Runs -> Jobs]
         /\ job'[p].at = "done" /\ job'[p].opts.help = TRUE
         /\ \A q \in Runs \ {p} : job'[q] = job[q]
  <1> DEFINE o == [job[p].opts EXCEPT !.help = TRUE]
  <1>1. o \in Options /\ o.help = TRUE
    <2>1. job[p].opts \in Options
      BY DEF Jobs
    <2>2. QED
      BY <2>1 DEF Options
  <1>2. job' = [job EXCEPT ![p] = [[job[p] EXCEPT !.at = "done"] EXCEPT !.opts = o]]
    <2>1. PICK j : j = [job EXCEPT ![p].at = "done"]
      OBVIOUS
    <2>2. job' = [[job EXCEPT ![p].at = "done"] EXCEPT ![p].opts.help = TRUE]
      BY DEF Help
    <2>3. job' = [j EXCEPT ![p] = [j[p] EXCEPT !.opts = [j[p].opts EXCEPT !.help = TRUE]]]
      BY <2>1, <2>2
    <2>4. j \in [Runs -> Jobs] /\ j[p] = [job[p] EXCEPT !.at = "done"]
      BY <2>1 DEF Jobs
    <2>5. j[p].opts = job[p].opts
      BY <2>4 DEF Jobs
    <2>6. job' = [j EXCEPT ![p] = [[job[p] EXCEPT !.at = "done"] EXCEPT !.opts = o]]
      BY <2>3, <2>4, <2>5
    <2> HIDE DEF o
    <2>7. \A x : [[job EXCEPT ![p].at = "done"] EXCEPT ![p] = x] = [job EXCEPT ![p] = x]
      OBVIOUS
    <2>8. QED
      BY <2>1, <2>6, <2>7
  <1> HIDE DEF o
  <1>3. QED
    BY <1>1, <1>2 DEF Jobs

\* A step concerns one run; a run keeps its options, and what has gone wrong
\* stays known.
LEMMA RunStep ==
  ASSUME NEW p \in Runs, InstallStep(p), InstallTypes
  PROVE  /\ InstallTypes'
         /\ before' = before /\ harm \subseteq harm'
         /\ \A q \in Runs \ {p} : job'[q] = job[q]
         /\ job'[p].at # "idle"
         /\ job[p].at # "idle" => Installing(p) /\ job'[p].opts = job[p].opts
         /\ (\E q \in Runs : Installing(q)) /\ job[p].at = "idle" /\ Installing(p)' => harm' # {}
  <1> USE DEF InstallTypes
  <1>1. \A q \in Runs : job[q].at = "idle" => job[q].opts = NoOptions
    OBVIOUS
  <1>2. CASE \E argv \in Argvs : Install(p, argv)
    <2>1. PICK argv \in Argvs : Install(p, argv)
      BY <1>2
    <2> DEFINE opts == parseArgs(argv)
    <2>2. /\ job' \in [Runs -> Jobs]
          /\ opts \in Options /\ job'[p].opts = opts
          /\ job'[p].at = IF opts.wrong \/ opts.help THEN "done" ELSE "read"
          /\ \A q \in Runs \ {p} : job'[q] = job[q]
      BY <2>1, JobBegins
    <2>3. /\ job[p].at = "idle" /\ config' = config /\ before' = before
          /\ harm' = IF ~opts.wrong /\ ~opts.help /\ (\E q \in Runs : Installing(q))
                     THEN harm \cup {"overlap"} ELSE harm
      BY <2>1 DEF Install
    <2> HIDE DEF opts
    <2>4. opts.wrong \in BOOLEAN /\ opts.help \in BOOLEAN
      BY <2>2 DEF Options
    <2>5. QED
      BY <2>2, <2>3, <2>4 DEF Installing, Served
  <1>3. CASE Help(p)
    BY <1>3, JobHelps DEF Help, Unused, Installing, Served
  <1>4. ASSUME NEW status \in {0, 1, 2}, EndWith(p, status), Installing(p), before' = before,
               config' \in Files, harm \subseteq harm', harm' \subseteq {"overlap", "cut off"}
        PROVE  /\ InstallTypes' /\ \A q \in Runs \ {p} : job'[q] = job[q]
               /\ job'[p].at # "idle" /\ job'[p].opts = job[p].opts
    <2>1. /\ job' \in [Runs -> Jobs] /\ \A q \in Runs \ {p} : job'[q] = job[q]
          /\ job'[p].at = "done" /\ job'[p].opts = job[p].opts
      BY <1>4, JobEnds
    <2>2. QED
      BY <1>4, <2>1 DEF Installing, Served
  <1>5. CASE ReadConfig(p)
    <2>1. Installing(p) /\ job[p].opts \in Options
      BY <1>5 DEF ReadConfig, Installing, Jobs
    <2>2. CASE \E status \in {0, 1, 2} : EndWith(p, status)
      BY <1>4, <1>5, <2>1, <2>2 DEF ReadConfig, Installing
    <2>3. CASE job' = [job EXCEPT ![p].at = "write", ![p].final = finalConfig(config, job[p].opts)]
      <3>1. finalConfig(config, job[p].opts) \in Files
        BY <2>1, FinalConfig
      <3>2. QED
        BY <1>5, <2>1, <2>3, <3>1, JobDecides DEF ReadConfig, Installing, Served
    <2>4. QED
      BY <1>5, <2>2, <2>3 DEF ReadConfig
  <1>6. CASE Truncate(p)
    <2>1. /\ job' \in [Runs -> Jobs] /\ \A q \in Runs \ {p} : job'[q] = job[q]
          /\ job'[p].at = "fill" /\ job'[p].opts = job[p].opts /\ job[p].at = "write"
      BY <1>6, JobMoves DEF Truncate
    <2>2. config' \in Files /\ before' = before /\ harm' = harm
      BY <1>6, FileTypes DEF Truncate
    <2>3. QED
      BY <2>1, <2>2 DEF Installing, Served
  <1>7. CASE Fill(p)
    <2>1. config' \in Files
      BY <1>7, FileTypes DEF Fill, Jobs
    <2>2. QED
      BY <1>4, <1>7, <2>1 DEF Fill, Installing
  <1>8. CASE InstallFails(p) \/ InstallCrash(p)
    <2>1. CutOff(p) => /\ config' \in Files /\ harm \subseteq harm'
                       /\ harm' \subseteq {"overlap", "cut off"}
      BY FileTypes DEF CutOff
    <2>2. CASE InstallFails(p)
      BY <1>4, <2>1, <2>2 DEF InstallFails, Installing
    <2>3. CASE InstallCrash(p)
      BY <2>1, <2>3, JobMoves DEF InstallCrash, Installing, Served
    <2>4. QED
      BY <1>8, <2>2, <2>3
  <1>9. QED
    BY <1>2, <1>3, <1>5, <1>6, <1>7, <1>8 DEF InstallStep

\* What a file had to keep it still has to, and no more.
LEMMA KeptStays ==
  ASSUME NEW p \in Runs, InstallStep(p), InstallTypes
  PROVE  \A f \in Files : Kept(f) => Kept(f)'
  <1>1. /\ before' = before
        /\ \A q \in Runs \ {p} : job'[q] = job[q]
        /\ job'[p].at # "idle"
        /\ job[p].at # "idle" => job'[p].opts = job[p].opts
    BY RunStep
  <1>2. \A q \in Runs : job[q].at = "idle" => ~job[q].opts.force
    <2>1. NoOptions.force = FALSE
      BY DEF NoOptions
    <2>2. QED
      BY <2>1 DEF InstallTypes
  <1>3. Forced \subseteq Forced'
    BY <1>1, <1>2 DEF Forced, Served
  <1>4. (\A q \in Runs : job'[q].at = "idle" \/ job'[q].opts.dryRun)
           => \A q \in Runs : job[q].at = "idle" \/ job[q].opts.dryRun
    BY <1>1
  <1>5. QED
    BY <1>1, <1>3, <1>4 DEF Kept, Unreadable

\* So is what has been installed, if the run that ends now has installed its own.
LEMMA InstalledStill ==
  ASSUME NEW p \in Runs, InstallStep(p), InstallTypes,
         NEW f \in Files, Installed(f),
         job'[p].at = "done" /\ job'[p].exit = 0 /\ Served(p)' /\ ~job'[p].opts.dryRun
           => entriesEqual(f.servers[job'[p].opts.name], Desired(job'[p].opts))
  PROVE  Installed(f)'
  <1>1. /\ \A q \in Runs \ {p} : job'[q] = job[q]
        /\ job[p].at # "idle" => job'[p].opts = job[p].opts
    BY RunStep
  <1>2. \A q \in Runs : job[q].at = "idle" => ~job[q].opts.force
    <2>1. NoOptions.force = FALSE
      BY DEF NoOptions
    <2>2. QED
      BY <2>1 DEF InstallTypes
  <1>3. \A q, r \in Runs : Served(q) /\ job[q].opts.force => Served(q)' /\ job'[q].opts = job[q].opts
    BY <1>1, <1>2 DEF Served
  <1> SUFFICES ASSUME NEW r \in Runs, r # p, job[r].at = "done", job[r].exit = 0, Served(r),
                      ~job[r].opts.dryRun
               PROVE  \/ \E q \in Runs \ {r} : /\ Served(q)' /\ job'[q].opts.force
                                               /\ job'[q].opts.name = job[r].opts.name
                      \/ entriesEqual(f.servers[job[r].opts.name], Desired(job[r].opts))
    BY <1>1 DEF Installed, Served, entriesEqual, Desired
  <1>4. QED
    BY <1>3 DEF Installed

\* What a run is about to write has everything that it has to keep.
LEMMA FinalKeeps ==
  ASSUME NEW p \in Runs, InstallTypes, job[p].at = "write", Kept(config), Installed(config),
         ~Unreadable(config), Status(config, job[p].opts) \in {"added", "updated"},
         NEW g, g = finalConfig(config, job[p].opts)
  PROVE  /\ g \in Files /\ ~job[p].opts.dryRun
         /\ Kept(g) /\ Installed(g)
         /\ entriesEqual(g.servers[job[p].opts.name], Desired(job[p].opts))
  <1> DEFINE opts == job[p].opts
  <1>1. opts \in Options /\ opts.name \in Names /\ config \in Files
    BY DEF InstallTypes, Jobs, Options
  <1>2. /\ g \in Files /\ g.more = config.more
        /\ g.servers[opts.name] = Desired(opts)
        /\ \A n \in Names \ {opts.name} : g.servers[n] = config.servers[n]
    BY <1>1, FinalConfig
  <1>3. ~opts.dryRun /\ (config.servers[opts.name] = NoEntry \/ opts.force)
    BY <1>1, StatusMeans
  <1>4. Served(p)
    BY DEF InstallTypes, Installing
  <1>5. opts.force => opts.name \in Forced
    BY <1>3, <1>4 DEF Forced
  <1>6. Kept(g)
    <2>1. Unreadable(before) => g = before
      BY DEF Kept
    <2>2. before.more => g.more
      BY <1>2 DEF Kept
    <2>3. \A n \in Names \ Forced : before.servers[n] # NoEntry => g.servers[n] = before.servers[n]
      BY <1>2, <1>3, <1>5 DEF Kept
    <2>4. ~\A q \in Runs : job[q].at = "idle" \/ job[q].opts.dryRun
      BY <1>3
    <2>5. QED
      BY <2>1, <2>2, <2>3, <2>4 DEF Kept
  <1>7. Installed(g)
    <2> SUFFICES ASSUME NEW r \in Runs, job[r].at = "done", job[r].exit = 0, Served(r),
                        ~job[r].opts.dryRun,
                        ~\E q \in Runs \ {r} : /\ Served(q) /\ job[q].opts.force
                                               /\ job[q].opts.name = job[r].opts.name
                 PROVE  entriesEqual(g.servers[job[r].opts.name], Desired(job[r].opts))
      BY DEF Installed
    <2>1. entriesEqual(config.servers[job[r].opts.name], Desired(job[r].opts))
      BY DEF Installed
    <2>2. job[r].opts.name \in Names /\ r # p
      BY DEF InstallTypes, Jobs, Options
    <2>3. CASE job[r].opts.name # opts.name
      BY <1>2, <2>1, <2>2, <2>3
    <2>4. CASE job[r].opts.name = opts.name
      <3>1. ~opts.force
        BY <1>4, <2>2, <2>4
      <3>2. config.servers[job[r].opts.name] = NoEntry
        BY <1>3, <2>4, <3>1
      <3>3. QED
        BY <2>1, <3>2 DEF entriesEqual, NoEntry, Desired
    <2>5. QED
      BY <2>3, <2>4
  <1>8. QED
    BY <1>2, <1>3, <1>6, <1>7 DEF entriesEqual

\* A run that begins, or only prints its usage, is in nobody's way.
LEMMA BeginKeeps ==
  ASSUME NEW p \in Runs, InstallStep(p), InstallInv, job[p].at = "idle", harm' = {}
  PROVE  HarmlessInv'
  <1> USE DEF InstallInv
  <1>1. (\E argv \in Argvs : Install(p, argv)) \/ Help(p)
    BY DEF InstallStep, ReadConfig, Truncate, Fill, InstallFails, InstallCrash, Installing
  <1>2. /\ config' = config /\ before' = before /\ config \in Files
        /\ job'[p].at \in {"read", "done"}
        /\ job'[p].at = "done" => ~Served(p)'
    <2>1. CASE Help(p)
      BY <2>1, JobHelps DEF Help, InstallTypes, Served
    <2>2. CASE \E argv \in Argvs : Install(p, argv)
      <3>1. PICK argv \in Argvs : Install(p, argv)
        BY <2>2
      <3> DEFINE opts == parseArgs(argv)
      <3>2. job'[p].opts = opts /\ job'[p].at = IF opts.wrong \/ opts.help THEN "done" ELSE "read"
        BY <3>1, JobBegins DEF InstallTypes
      <3>3. config' = config /\ before' = before
        BY <3>1 DEF Install
      <3> HIDE DEF opts
      <3>4. QED
        BY <3>2, <3>3 DEF InstallTypes, Served
    <2>3. QED
      BY <1>1, <2>1, <2>2
  <1>3. /\ harm = {}
        /\ \A q \in Runs \ {p} : job'[q] = job[q]
        /\ Installing(p)' => ~\E q \in Runs : Installing(q)
    BY RunStep
  <1>4. \A f \in Files : (Kept(f) => Kept(f)') /\ (Installed(f) => Installed(f)')
    BY <1>2, KeptStays, InstalledStill
  <1>5. \A q, r \in Runs : Installing(q)' /\ Installing(r)' => q = r
    BY <1>2, <1>3 DEF HarmlessInv, Installing
  <1>6. ~(\E q \in Runs : job'[q].at = "fill") => Kept(config)' /\ Installed(config)'
    <2>1. (~\E q \in Runs : job'[q].at = "fill") => ~\E q \in Runs : job[q].at = "fill"
      BY <1>3
    <2>2. QED
      BY <1>2, <1>3, <1>4, <2>1 DEF HarmlessInv, Kept, Installed
  <1>7. ASSUME NEW q \in Runs, job'[q].at \in {"write", "fill"}
        PROVE  q # p /\ job'[q] = job[q]
    BY <1>2, <1>3, <1>7
  <1>8. \A q \in Runs : job'[q].at = "write" =>
          /\ ~Unreadable(config')
          /\ Status(config', job'[q].opts) \in {"added", "updated"}
          /\ job'[q].final = finalConfig(config', job'[q].opts)
    BY <1>2, <1>3, <1>7 DEF HarmlessInv
  <1>9. \A q \in Runs : job'[q].at = "fill" =>
          /\ config' = FileOf("empty") /\ ~job'[q].opts.dryRun
          /\ Kept(job[q].final)' /\ Installed(job[q].final)'
          /\ entriesEqual(job'[q].final.servers[job'[q].opts.name], Desired(job'[q].opts))
    <2> SUFFICES ASSUME NEW q \in Runs, job'[q].at = "fill"
                 PROVE  /\ config' = FileOf("empty") /\ ~job'[q].opts.dryRun
                        /\ Kept(job[q].final)' /\ Installed(job[q].final)'
                        /\ entriesEqual(job'[q].final.servers[job'[q].opts.name], Desired(job'[q].opts))
      OBVIOUS
    <2>1. job'[q] = job[q]
      BY <1>7
    <2>2. /\ config = FileOf("empty") /\ ~job[q].opts.dryRun
          /\ Kept(job[q].final) /\ Installed(job[q].final)
          /\ entriesEqual(job[q].final.servers[job[q].opts.name], Desired(job[q].opts))
      BY <1>3, <2>1 DEF HarmlessInv
    <2>3. PICK f \in Files : f = job[q].final
      BY DEF InstallTypes, Jobs
    <2>4. Kept(f)' /\ Installed(f)'
      BY <1>4, <2>2, <2>3
    <2>5. Kept(job[q].final)' /\ Installed(job[q].final)'
      BY <2>1, <2>3, <2>4 DEF Kept, Installed
    <2>6. QED
      BY <1>2, <2>1, <2>2, <2>5
  <1>10. QED
    BY <1>5, <1>6, <1>8, <1>9 DEF HarmlessInv

\* The one run that is under way goes on, or ends.
LEMMA WorkKeeps ==
  ASSUME NEW p \in Runs, InstallStep(p), InstallInv, job[p].at # "idle", harm' = {}
  PROVE  HarmlessInv'
  <1> USE DEF InstallInv
  <1>1. /\ harm = {} /\ before' = before /\ Installing(p) /\ job'[p].opts = job[p].opts
        /\ \A q \in Runs \ {p} : job'[q] = job[q]
        /\ job \in [Runs -> Jobs] /\ config \in Files
    BY RunStep DEF InstallTypes
  <1>2. \A q \in Runs \ {p} : ~Installing(q) /\ ~Installing(q)'
    BY <1>1 DEF HarmlessInv, Installing
  <1>3. \A f \in Files : Kept(f) => Kept(f)'
    BY KeptStays
  <1>4. \A q, r \in Runs : Installing(q)' /\ Installing(r)' => q = r
    BY <1>2
  <1>5. \A q \in Runs \ {p} : job'[q].at \notin {"write", "fill"} /\ job[q].at \notin {"write", "fill"}
    BY <1>2 DEF Installing
  \* The run ends and the file has what it is to have.
  <1>6. ASSUME job'[p].at \in {"done", "crashed"}, NEW f \in Files, config' = f, Kept(f), Installed(f),
               job'[p].at = "done" /\ job'[p].exit = 0 /\ ~job[p].opts.dryRun
                 => entriesEqual(f.servers[job[p].opts.name], Desired(job[p].opts))
        PROVE  HarmlessInv'
    <2>1. Kept(f)' /\ Installed(f)'
      BY <1>1, <1>3, <1>6, InstalledStill
    <2>2. Kept(config)' /\ Installed(config)'
      BY <1>6, <2>1 DEF Kept, Installed
    <2>3. \A q \in Runs : job'[q].at \notin {"write", "fill"}
      BY <1>5, <1>6
    <2>4. QED
      BY <1>4, <2>2, <2>3 DEF HarmlessInv
  \* Before it writes, the file is as it was.
  <1>7. job[p].at \in {"read", "write"} => Kept(config) /\ Installed(config)
    BY <1>1, <1>5 DEF HarmlessInv
  <1>8. CASE ReadConfig(p)
    <2> DEFINE opts == job[p].opts
    <2>1. job[p].at = "read" /\ config' = config
      BY <1>8 DEF ReadConfig
    <2>2. CASE Unreadable(config)
      BY <1>1, <1>6, <1>7, <1>8, <2>1, <2>2, JobEnds DEF ReadConfig
    <2>3. CASE ~Unreadable(config) /\ Status(config, opts) \notin {"added", "updated"}
      <3>1. PICK status \in {0, 1} : /\ EndWith(p, status)
                                   /\ status = IF Status(config, opts) = "exists-keep" THEN 1 ELSE 0
        BY <1>8, <2>3 DEF ReadConfig
      <3>2. job'[p].at = "done" /\ job'[p].exit = status
        BY <1>1, <3>1, JobEnds
      <3>3. Status(config, opts) = "exists-keep" \/ opts.dryRun
            \/ entriesEqual(config.servers[opts.name], Desired(opts))
        BY <2>3 DEF Status
      <3>4. QED
        BY <1>1, <1>6, <1>7, <2>1, <3>1, <3>2, <3>3
    <2>4. CASE ~Unreadable(config) /\ Status(config, opts) \in {"added", "updated"}
      <3>1. /\ opts \in Options /\ finalConfig(config, opts) \in Files
            /\ job' = [job EXCEPT ![p].at = "write", ![p].final = finalConfig(config, opts)]
        BY <1>1, <1>8, <2>4, FinalConfig DEF ReadConfig, Jobs
      <3>2. job'[p].at = "write" /\ job'[p].final = finalConfig(config, opts)
        BY <1>1, <3>1, JobDecides
      <3>3. Kept(config)' /\ Installed(config)'
        <4>1. PICK f \in Files : f = config
          BY <1>1
        <4>2. Kept(f)' /\ Installed(f)'
          BY <1>3, <1>7, <2>1, <3>2, <4>1, InstalledStill
        <4>3. QED
          BY <2>1, <4>1, <4>2 DEF Kept, Installed
      <3>4. \A q \in Runs : job'[q].at # "fill"
        BY <1>5, <3>2
      <3>5. \A q \in Runs : job'[q].at = "write" =>
              /\ ~Unreadable(config')
              /\ Status(config', job'[q].opts) \in {"added", "updated"}
              /\ job'[q].final = finalConfig(config', job'[q].opts)
        BY <1>1, <1>5, <2>1, <2>4, <3>2
      <3>6. QED
        BY <1>4, <3>3, <3>4, <3>5 DEF HarmlessInv
    <2>5. QED
      BY <2>2, <2>3, <2>4
  <1>9. CASE Truncate(p)
    <2>1. /\ job[p].at = "write" /\ config' = FileOf("empty")
          /\ job' = [job EXCEPT ![p].at = "fill"]
      BY <1>9 DEF Truncate
    <2>2. job'[p].at = "fill" /\ job'[p].final = job[p].final
      BY <1>1, <2>1, JobMoves
    <2>3. PICK g : g = job[p].final
      OBVIOUS
    <2>4. /\ g \in Files /\ ~job[p].opts.dryRun
          /\ Kept(g) /\ Installed(g)
          /\ entriesEqual(g.servers[job[p].opts.name], Desired(job[p].opts))
      <3>1. ~Unreadable(config) /\ Status(config, job[p].opts) \in {"added", "updated"}
            /\ g = finalConfig(config, job[p].opts)
        BY <1>1, <2>1, <2>3 DEF HarmlessInv
      <3>2. QED
        BY <1>7, <2>1, <3>1, FinalKeeps
    <2>5. Kept(g)' /\ Installed(g)'
      BY <1>3, <2>2, <2>4, InstalledStill
    <2>6. Kept(job[p].final)' /\ Installed(job[p].final)'
      BY <2>2, <2>3, <2>5 DEF Kept, Installed
    <2>7. \A q \in Runs : job'[q].at \in {"write", "fill"} => q = p /\ job'[q].at = "fill"
      BY <1>5, <2>2
    <2>8. QED
      BY <1>1, <1>4, <2>1, <2>2, <2>3, <2>4, <2>6, <2>7 DEF HarmlessInv
  <1>10. CASE Fill(p)
    <2>1. /\ job[p].at = "fill" /\ EndWith(p, 0)
          /\ config' \in IF config.kind = "empty" THEN {job[p].final}
                         ELSE {job[p].final, FileOf("garbled")}
      BY <1>10 DEF Fill
    <2>2. /\ config = FileOf("empty")
          /\ Kept(job[p].final) /\ Installed(job[p].final)
          /\ entriesEqual(job[p].final.servers[job[p].opts.name], Desired(job[p].opts))
      BY <1>1, <2>1 DEF HarmlessInv
    <2>3. config' = job[p].final
      BY <2>1, <2>2, FileTypes
    <2>4. job'[p].at = "done"
      BY <1>1, <2>1, JobEnds
    <2>5. PICK f \in Files : f = job[p].final
      BY <1>1 DEF Jobs
    <2>6. QED
      BY <1>6, <2>2, <2>3, <2>4, <2>5
  <1>11. CASE InstallFails(p) \/ InstallCrash(p)
    <2>1. job[p].at # "fill" /\ config' = config
      BY <1>11 DEF InstallFails, InstallCrash, CutOff
    <2>2. job[p].at \in {"read", "write"}
      BY <1>1, <2>1 DEF Installing
    <2>3. job'[p].at = "crashed" \/ (job'[p].at = "done" /\ job'[p].exit = 1)
      BY <1>1, <1>11, JobEnds, JobMoves DEF InstallFails, InstallCrash
    <2>4. QED
      BY <1>1, <1>6, <1>7, <2>1, <2>2, <2>3
  <1>12. QED
    BY <1>8, <1>9, <1>10, <1>11 DEF InstallStep, Install, Help, Unused

\* A step of a run of install keeps the invariant, part by part.
LEMMA InstallKept ==
  ASSUME InstallInv, \/ \E p \in Runs : InstallStep(p)
                     \/ UNCHANGED installVars
  PROVE  InstallInv'
  <1> USE DEF InstallInv
  <1>1. ASSUME NEW p \in Runs, InstallStep(p) PROVE InstallInv'
    <2>1. InstallTypes'
      BY <1>1, RunStep
    <2>2. HarmlessInv'
      <3>1. CASE harm' = {}
        BY <1>1, <3>1, BeginKeeps, WorkKeeps
      <3>2. CASE harm' # {}
        BY <3>2 DEF HarmlessInv
      <3>3. QED
        BY <3>1, <3>2
    <2>3. QED
      BY <2>1, <2>2
  <1>2. CASE UNCHANGED installVars
    <2>1. InstallTypes'
      BY <1>2 DEF installVars, InstallTypes, Installing, Served
    <2>2. HarmlessInv'
      BY <1>2 DEF installVars, HarmlessInv, Kept, Installed, Installing, Served, Forced
    <2>3. QED
      BY <2>1, <2>2
  <1>3. QED
    BY <1>1, <1>2

\* The configuration file as the first run finds it.
LEMMA InstallStarts == InstallInit => InstallInv
  <1> SUFFICES ASSUME InstallInit PROVE InstallInv
    OBVIOUS
  <1>1. /\ config \in Files /\ before = config /\ harm = {} /\ job = [p \in Runs |-> NoJob]
    BY InstallerAssumption DEF InstallInit, InstallerAssumption
  <1>2. NoJob \in Jobs /\ NoJob.at = "idle" /\ NoJob.opts = NoOptions
    <2>1. NoOptions \in Options
      BY DEF NoOptions, Options, Names
    <2>2. QED
      BY <2>1, FileTypes DEF NoJob, Jobs
  <1>3. \A p \in Runs : job[p].at = "idle" /\ job[p].opts = NoOptions
    BY <1>1, <1>2
  <1>4. InstallTypes
    BY <1>1, <1>2, <1>3 DEF InstallTypes, Installing
  <1>5. Kept(config) /\ Installed(config)
    <2>1. \A n \in Names \ Forced : before.servers[n] # NoEntry => config.servers[n] = before.servers[n]
      BY <1>1
    <2>2. QED
      BY <1>1, <1>3, <2>1 DEF Kept, Installed
  <1>6. QED
    BY <1>3, <1>4, <1>5 DEF InstallInv, HarmlessInv, Installing

-----------------------------------------------------------------------------
(* The two together.                                                       *)

LineInv == BinaryInv /\ InstallInv

\* A step of a process keeps the invariants of both commands: it takes
\* part in one of them.
LEMMA LineKept == LineInv /\ [LineNext]_lineVars => LineInv'
  <1> SUFFICES ASSUME LineInv, [LineNext]_lineVars PROVE LineInv'
    OBVIOUS
  <1>1. (\E p \in Procs : BinaryStep(p)) \/ UNCHANGED vars
    BY DEF LineNext, lineVars, Work, Serve, BinaryStep
  <1>2. (\E p \in Runs : InstallStep(p)) \/ UNCHANGED installVars
    BY LineAssumption DEF LineAssumption, LineNext, lineVars, Work, InstallCommand, InstallStep
  <1>3. BinaryInv'
    BY <1>1, BinaryKept DEF LineInv
  <1>4. InstallInv'
    BY <1>2, InstallKept DEF LineInv
  <1>5. QED
    BY <1>3, <1>4 DEF LineInv

\* Both invariants hold in every reachable state.
LEMMA LineInductive == LineSpec => []LineInv
  <1>1. LineInit => LineInv
    BY BinaryInit, InstallStarts DEF LineInit, LineInv
  <1>2. QED
    BY <1>1, LineKept, PTL DEF LineSpec

-----------------------------------------------------------------------------
(* The theorems.                                                           *)

\* "A failed extract leaves us in a recoverable state for the next run": a
\* start is only told of a binary that is not whole when tar was cut short
\* before, or when several starts overlapped.
THEOREM RecoveredUnlessTarCut == LineSpec => []PartialOnlyAfterTar
  <1>1. LineInv => PartialOnlyAfterTar
    BY DEF LineInv, BinaryInv, WholeInv, Unharmed, PartialOnlyAfterTar
  <1>2. QED
    BY <1>1, LineInductive, PTL

\* Nothing is extracted but the archive whose digest the package knows, for any
\* number of starts that overlap, fail and die, unless one opens the archive while
\* another's is being extracted.
THEOREM ReleasedOnly == LineSpec => []OnlyReleasedCode
  <1>1. LineInv => OnlyReleasedCode
    BY DEF LineInv, BinaryInv, TypeOK, ReleasedInv, OnlyReleasedCode
  <1>2. QED
    BY <1>1, LineInductive, PTL

\* A start that has returned or thrown has left no archive of its own, however
\* many there are and whatever went wrong, unless it was its unlink that failed:
\* no path through ensureBinary, of any number of starts, goes round the finally
\* block.
THEOREM NoArchiveLeft == LineSpec => []ArchiveRemoved
  <1>1. LineInv => ArchiveRemoved
    BY DEF LineInv, BinaryInv, WriterInv, ArchiveRemoved
  <1>2. QED
    BY <1>1, LineInductive, PTL

\* Runs of install, however many and with whatever flags, keep every entry they
\* are not forced to replace, unless one is cut off while it writes or two
\* overlap.
THEOREM NothingElseTouched == LineSpec => []EntriesKept
  <1>1. LineInv => EntriesKept
    <2> SUFFICES ASSUME LineInv, harm = {}, ~(\E p \in Runs : job[p].at = "fill")
                 PROVE  Kept(config)
      BY DEF EntriesKept, Kept
    <2>1. QED
      BY DEF LineInv, InstallInv, HarmlessInv
  <1>2. QED
    BY <1>1, LineInductive, PTL

\* What a run of install reports as done is in the file, and stays there.
THEOREM StaysInstalled == LineSpec => []InstalledStays
  <1>1. LineInv => InstalledStays
    <2> SUFFICES ASSUME LineInv, harm = {}, ~(\E p \in Runs : job[p].at = "fill")
                 PROVE  Installed(config)
      BY DEF InstalledStays, Installed
    <2>1. QED
      BY DEF LineInv, InstallInv, HarmlessInv
  <1>2. QED
    BY <1>1, LineInductive, PTL
=============================================================================
