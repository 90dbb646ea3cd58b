# TLA+ models of ue-trace-mcp

ue-trace-mcp answers an MCP client's questions about Unreal Engine traces. A
TypeScript server (`mcp-server/`) takes tool calls over stdio; a C++ program,
TraceDigest (`ue-program/`), parses a `.utrace` file and reduces it to JSON. The
server keeps one TraceDigest process per trace resident (a *daemon*) so that a
trace is parsed once. This directory models the parts of the two programs that
keep state, checks them with TLC and proves what it can about them with TLAPS.

## The system

| Component | State | Operations | Interacts with | What makes it correct |
|---|---|---|---|---|
| Daemon registry, `daemon.ts` | `daemons` and `loading` maps, `isShuttingDown`, handles with `lastUsedAt` | query, control, unload, spawn, evict, reap, terminate, shutdown | spawns and signals daemons; dials their sockets; asks memory admission | a query is answered by a daemon that parsed what the query saw or later; a handle in the map can be terminated; no daemon is lost; calls settle; shutdown ends |
| MCP server process, `index.ts`, `server.ts` | `shuttingDown` | start, signal, stdin close, exit | calls the registry's shutdown | no daemon outlives the server |
| Trace daemon, `Daemon.cpp` | shutdown flag, `LastUsedAt`, the connection being served, socket and pid files | load, announce, accept, read, handle, write, exit; signals | answers the registry's connections | nobody whose request was read is left without a reply; no peer holds the loop for ever; it stops when idle or told to |
| Result cache, `cache.ts` | a Map in insertion order | get, put | stat of the trace; used by every caching tool | bounded, LRU, answers the question asked, never from an older file |
| Tools, `tools.ts`, `server.ts`, `schemas.ts` | none | 37 tools: get, run, put, filter | cache, runner, registry | the question reaches the mode as the client asked it; a cache entry is shared only by calls that ask the same |
| Runner, `digest.ts` | one child's output, two kill flags, a timer | one-shot spawn, or routing to the registry | TraceDigest's arguments and output | one outcome per run, and the result is what the child printed |
| Binary download, `binary.ts` | a directory shared by all starts of one version | ensureBinary | network, tar | only a whole, verified binary is handed out |
| Memory admission, `memory.ts` | none | checkAdmission | `/proc/meminfo`, the registry's daemons | the daemons together leave the headroom free |
| Installer, `install.ts` | `.mcp.json` | install | other writers of that file | entries it was not told to replace stay; one it reports as added stays |
| Query modes, `Modes/*.cpp` | a loaded trace, read only | one reduction per mode | TraceServices (Unreal) | limits, percentiles and `truncated` flags are right |
| Arguments, `Args.cpp`, `Main.cpp` | none | parse, validate, dispatch | argv or a daemon's line | reads every flag the server writes |
| JSON output, `JsonOut.cpp` | open levels, a comma flag for each, a pending key | begin, end, key, value | read back by `digest.ts` | what is read is what was written |
| Session loading, `Session.cpp` | the analysis session | load | TraceServices (Unreal) | |

Hard behaviour, by component: the registry is one JavaScript thread whose calls
interleave at every `await`, with timers and child-exit events between them,
over maps that were read before the await; the children are processes that die
and are signalled at any moment; the daemon is one thread with signals that
arrive between a test and a `poll()`, with peers that fall silent, leave or stop
reading; the cache reads a file's mtime twice, around a run that takes long; the
download directory and the client's configuration file are shared by processes
that know nothing of each other; the same thirty flags are written down by hand
in three places; and an answer has to be found among the log lines of a child
that may hang, flood its pipe or die.
`PROJECT.json` lists each such hazard at its line.

## Modules

`TraceService` is the abstract specification: a call looks at a file, and if it
is answered then from contents the file had between that moment and the answer.
`DaemonRegistry` implements it always; `TraceCache` implements it when files
change only while no call is in flight.

### DaemonRegistry (`daemon.ts`, `index.ts`, `memory.ts`)

An action is what the JavaScript thread does between two awaits; `pc[c]` names
the await call `c` is suspended at (`lookup` after `stat`, `stale`, `evict` and
`unload` in `terminate`, `admit` in `checkAdmission`, `mkdir`, `loading` until
`DAEMON_READY`, `connect`, `reply`). A call spawns at most one child, so the
child, its handle and its entry in `loading` bear the call's name; `daemons` and
`loading` are functions from keys (path and mtime) to that name, exactly the two
Maps. `version[f]` stands for both contents and mtime of a file. `hung` is a
promise that nothing settles any more: the daemon ended the connection and
`send()` has no listener for that. `exitSeen` says whether node has delivered
the child's `exit` event, to which the handle's own listener, the spawn's and
`terminate()`'s react. The children's side is reduced to what the registry can
notice: starting, listening, dead before or after announcing itself. Whether
admission refuses is left open here.

`MemoryAdmission` closes it: `checkAdmission` replaces the free choice between
`Admit` and `Refuse` by the arithmetic of `memory.ts` over what is free at that
moment. `estimate[d]` is what child `d` was let in with. What a daemon really
takes is taken to be its estimate, and one that still loads has taken any part
of it, so `MemAvailable` is one of several values.

Left out: the text of errors, stderr progress lines, the reply's framing on the
client side (one reply per connection), `requestsServed`. An entry's position in
a Map matters only to ties in `pickLruVictim`, so a tie may go either way.

### DaemonServer (`Daemon.cpp`)

`srv` is where the thread is: `loading`, `bound`, the head of the loop (`top`),
`poll`, the four parts of a request, `exit`. The clients have the connection as
the kernel shows it to them: `failed` (refused or reset), `shut` and `ended`
(end of file before or after the request was read), `answered`. The kernel's
queue holds `Backlog + 1` connections, as Linux does for `listen(fd, Backlog)`.
`Signal` sets the flag at any point of the loop; that it interrupts `poll()` is
`Wake` and `GiveUp`. A signal does not cut `write()` short: `signal()` installs
its handler so that the call is restarted, with glibc as on macOS.

### TraceCache (`cache.ts`, `tools.ts`, `digest.ts`)

The Map is a sequence, oldest entry first. A call is get (stat, then lookup), on
a miss a run that reads the file at some moment of its duration, and put (stat
again, then insert and trim). `older` is a history: the pairs of keys of which
the first was used longer ago, kept apart from the order of the Map, which the
LRU property compares with it. `Baselines` are the files `trace_compare` may be
given as its second one, which no key mentions.

### BinaryCache (`binary.ts`)

Starts of the server share a directory. A file is an inode named for the process
that created it; `archive` and `binary` are what bears the two names now, so a
process can hold an inode whose name is gone or taken. tar is a child process: a
start that dies may leave it at work (`orphaned`). `Faults` says what may go
wrong, `met` what has, and the properties say which faults the code recovers
from; `rewrite` is one start opening the archive while another's, verified, is being
extracted, the only part of an overlap that can bring in code nobody released. An
unlink that fails is swallowed, as in the code; `refused` is the history
of the starts it happened to, the only ones whose archive may stay.

### Installer, CommandLine (`install.ts`, `index.ts`)

`config` is the client's file: an object of entries, or one of the four things
`readConfig` meets otherwise. `job[p]` is the run of `install` that process `p`
is: its parsed flags, the await it is at (`read`, `write` up to the truncation,
`fill` up to the end of the write), the file it is going to write, its exit
code. `harm` is a history of what may lose something: a run cut off between
truncating and writing, or two runs that overlap. `CommandLine` is `main`: a
process installs, prints its usage or starts the server (`BinaryCache`).

### Arguments, Tools, JsonText, OneShot, ToolCalls (`digest.ts`, `tools.ts`, `schemas.ts`, `Args.cpp`, `JsonOut.cpp`)

A call from the client to TraceDigest and back. A question is a function from
the flags it gives to their values, a text a sequence of words and separators.
`Tools` is the table of tools: mode and view, the arguments a schema requires and
allows, and the variant of the cache key; `QuestionsOf` enumerates what a client
can ask, with numbers from `Positive` or `Nonnegative`, as the schema has it.
`Arguments` has the two lists of flags `digest.ts` writes (`ArgvFlags`,
`LineFlags`), the third one `FArgs::Parse` reads (`ReadFlags`), the defaults and
the tests. `JsonText` writes a value as `FJsonOut` does, reads one as `JSON.parse`
does, and finds the trailing object in an output. `OneShot` is `runBinary`: chunks
in the pipe, the timer, the two kill flags and the child's exit, each at any
moment, settled by `close`. How a value is written (`Written`) and what is found
in an output (`Found`) are parameters of it, for which `MCToolCalls` has
`JsonText`'s operators. `ToolCalls` composes them; a call over a daemon is answered
in one step, for what happens on the way is `DaemonRegistry`'s subject.

### The query modes (`Modes/*.cpp`, `Percentiles.h`, `TimerLookup.h`)

A mode is a reduction of a loaded trace, which does not change, so each is an
operator from a question (the arguments and the rows the trace's providers
enumerate) to the answer, or to the set of answers where the code leaves a
choice (an unstable sort, a random sample). `Sampling` has rows in order (what a
loop with a test keeps is `Selected`, what nested loops enumerate is `Joined`),
the reservoir, its percentiles, bucketed series and "the largest n"; `Listings`
the modes that list rows up to a limit, frame ranges, and the three cross-cutting
queries;
`Catalogues` what is shown by its number or listed whole; `Timings`
the digests and the views of timed events; `Comparison` `trace_compare`;
`MemoryViews` counters, memory tags and samples and the allocation series.
`QueryModes` puts them together, one action per mode, and states what an answer
must be; its properties are written from the question, with sets and counts, and
not from the operators. What a listing is asked for (`Wanted`, `Due`) is taken from
the words that reach the client, the descriptions in `server.ts` and `schemas.ts`
and the list of intents in `Query.cpp`; where two of them differ, an answer may show
what either allows and has to show what both ask for, and each text that the code
does not keep has a property of its own, which the run `described` refutes. What an
answer holds besides is named apart (`Unasked`: the events inside a region that a
timeline other than a CPU thread's holds). A question that
is refused (a parameter, a counter or the provider missing, a threshold outside of
(0, 1)) is answered by `Refusal`. Where a property is only for questions of a shape (rows
numbered as they are enumerated, frames that follow each other, regions that begin
and end in their trace, game instances with a number each), the shape is an
assumption on the constant `Questions` that TLC evaluates (`QuestionsAssumption`,
`RangesAssumption`, `ComparesAssumption`, `ViewsAssumption`). Times are whole numbers and a quotient is kept times its
divisor, so nothing rounds; the code's `%.6g` output and the floating-point rank of a
percentile (Percentiles.h:85) do. The replacement index of the reservoir is any
number up to that of the value; the code's cast to `int32` (Percentiles.h:43)
changes it only beyond 2^31 values.
Providers are external: what they enumerate for a window is what overlaps it.
Names, cases of letters and units are left out. `LoadedTrace` is the switch over
the modes that `Main.cpp` and `Daemon.cpp` share: one question, answered at once
by `QueryModes` or polled for by `AllocationQuery`.

### AllocationQuery (`Allocations.cpp`)

The polling loop over a query that another thread works on. The provider finds
rows at any moment until it is told to stop, may report any status until it has
found them all, and hands out what it found in batches; the loop polls, drains,
looks at its rows one by one (`taken` is how many it was given, `looked` how many
it has looked at), judges the status and sleeps. Time is counted in pauses up to
the deadline.

## Runs

| Run | Instance | Shows |
|---|---|---|
| `registry` | 2 overlapping calls of any kind, 1 file, capacity 1, a rewrite or the reaper, shutdown and crash, fair | handles in the map are sound; one terminator per child; only a duplicate loses a daemon; implements `TraceService`; every call settles or is left to a daemon that hung up on it; shutdown completes |
| `serial` | 2 calls of every kind, one at a time, 2 files with 2 versions each, capacity 1, clock and reaper, shutdown and crash, memory for two small traces or one larger | the documents' promises: one daemon per trace, `maxDaemons`, loads listed, headroom kept |
| `server` | 2 clients, one of which may fall silent or not read its reply, queue of 1, fair | orderly stops answer what they have read; every connection ends and the daemon stops when idle, unless a reply nobody reads holds the loop |
| `cache` | 4 calls, 2 files with 2 versions, one of them compared with, capacity 2, files change between calls | bounded LRU map, answers of the right tool about the right file, implements `TraceService` |
| `binary` | 2 processes, each a start or an `install` with one of ten argument vectors, 12 configuration files, all faults, fair | which faults can lead to a bad binary; the archive is removed unless its unlink fails; entries are kept and stay unless a write was cut off or two runs met; every command ends |
| `tools` | all tools but the two about daemons, up to 2 optional arguments, 60 outputs, a pipe of 2 chunks and one too many, both routes, fair | the lists of flags agree; variants hide no argument; a result is what was printed; every run is answered |
| `modes` | small traces made by hand, limits 1 to 4 (6 and 40 for events inside a region), every mode; an allocations query of 4 rows in batches of 2 with 3 pauses, fair | listings show what was asked for and are honest about what they leave out; ranges mean frames; digests account for every event; views of one trace agree; comparisons are symmetric; series and tags are exact; samples are uniform; the allocations answer is the first rows taken, its flags are right, and it always comes |
| `orphan` | as `registry` | refutes a sentence of the documents: see below |
| `overlap` | 2 queries, 1 file, capacity 1, nothing else | one state that refutes three |
| `stale`, `baseline` | as `cache` | each refutes a sentence |
| `described` | some questions of `modes`, one answered after the other (`MCSession`) | one session that refutes seven |

Bounds. Every hazard of the registry takes two calls: two spawns of one key, a
terminator and a victim, a late spawn and a shutdown. Two versions of a file are
one change and two keys; capacity 1 makes every second daemon an eviction. One
tick of the clock with an idle timeout of zero lets the reaper find a daemon. In
a behaviour of `registry` either the file changes or the clock moves
(`OneChange`); `serial` has both. What a third call, a second file or a rewrite
followed by the reaper could add to overlapping calls no run looks at: for each safety property of `registry`, and
for what `serial` checks of contents, there is a proof for any number of calls
and files, any timeout and any capacity (see Proofs). The
daemon serves one connection at a time, so a second client is already in the
queue while the first is served. The cache's capacity 2 is smaller than the
number of keys the calls can form, and four calls are two that fill it, one that
hits and one that evicts. In `binary`, two processes are one that does
damage and one that finds it, or two that meet. `serial` has calls that do not
overlap, for the headroom is promised for those alone. In `tools` the texts are
empty, one word, or hold a space or a comma, numbers are the least a schema
allows and another, and two optional arguments are enough for one to be dropped
or taken for the other; the outputs have braces, quotes and escapes in strings
and in the lines before and after. The questions of `modes` are chosen for edges:
limits met exactly, ranges past the end, frames with time between them, two timers
of one name, timers without a name, regions still open, rows with nothing behind them, empty lists, the GPU
timelines of newer and older traces, tags whose parents are missing or form a
circle. A sample of up to 3 out of 4 values has a full sample, a replacement and
every pick. Four rows in batches of up to two let a limit fall inside a batch
and between two polls.

Deadlock checking is off throughout: every program here comes to rest when its
clients, calls or starts are used up.

### Fairness

The registry's liveness assumes that the event loop goes on, timers fire and
exit events are delivered, that the kernel ends a process sent SIGKILL, and that
a dialled daemon answers or closes in the end. It assumes nothing of a child
that was only sent SIGTERM or that is still loading: `CallsSettle` needs the
spawn timer and `ShutdownCompletes` the grace timer, and fails without them. The
last assumption is what `server` shows of the daemon (`ConnectionsEnd`), for
clients that read their replies, as the server's `send()` does. The daemon's own
liveness assumes that its thread runs, that queries end, and that time passes;
silent clients are assumed nothing of. Strong fairness of `Accept` says that
`accept()` does not fail for ever while connections wait. `binary` assumes that
downloads, tar and the file system's calls end. `tools` assumes that the event
loop delivers data, timers and the end of a child, and that SIGKILL ends one; a
child need never write or exit by itself. `modes` assumes of the allocations
query that the loop's own thread runs, and nothing of the provider.

## What the runs found

Refuted by a run:

- `orphan`: a daemon that becomes ready during shutdown, or that a duplicate
  replaced, outlives the server (README.md:140, "No orphans").
- `stale`: a result computed before a rewrite is stored under the mtime after it
  (mcp-server/README.md:60-62).
- `baseline`: `trace_compare` leaves the second file out of the cache key, so a
  comparison of A with C is answered with the cached one of A with B
  (tests/cache.test.ts:29 has it that the key holds fileB separately;
  cache.ts:13-14, "distinct queries still spawn the binary"). With a daemon
  configured compare is refused (Daemon.cpp:261-273) and nothing gets cached, so
  this concerns the one-shot configuration.
- `overlap`: with two overlapping first queries for a trace and room for one daemon,
  `SomePromiseKept` says that one of three promises holds at any time, and a state
  that refutes it breaks them all. Two daemons serve the trace, the second replacing
  the first in the map (README.md:134, "One daemon process per trace"); both spawns
  found room and both stay (README.md:146, "max resident daemons"; daemon.ts:246);
  and the first to end takes the other out of `trace_status`'s `loading[]`
  (README.md:166; daemon.ts:338). `serial` checks all three for calls that do not
  overlap; that duplicates are the only way a daemon is lost is checked by
  `registry` and proved.
- `described`: `SomeTextKept` says that no session of questions breaks all of seven
  sentences about what every answer holds; the run finds one that breaks each of
  them, an answer each (the history `broken`):
  - `LogsInFull`: with `-verbosity=all` very verbose messages are left out, and the
    answer does not say so (Logs.cpp:17, "include everything");
  - `PacketsFromStart`: a first packet past the end is moved back to the last one
    (schemas.ts:475, "Inclusive start packet index"; Net.cpp:163);
  - `EventsStartInside`: the events of a region include those that began before it,
    and those of GPU timelines (Query.cpp:84, "CPU events whose start time falls
    inside"; server.ts:141 speaks of CPU events that ran inside);
  - `LogsNearStart`: the window of logs is around the whole slow frame, not around
    its start (Query.cpp:87);
  - `NearLogsSevere`: the `verbosity` that the intent offers is not read
    (Query.cpp:88);
  - `NearLogsComplete`: the logs near slow frames are no longer counted once the limit
    is reached, so an answer that is cut there can say it is not truncated
    (server.ts:143-144; Query.cpp:341);
  - `GpuInstancesFound`: instances of a GPU event are never found, because the lookup
    by name knows only CPU timers (README.md:175; TimerLookup.h:26). Callers and
    callees of channel `gpu` are empty for the same reason.

Seen while modelling. Each is in the model as the code has it, and the
properties are worded so as not to promise what the code does not do:

- A filter or a timer name with a space or a comma is cut there on the way to a
  daemon, where nothing is quoted; one-shot runs quote a space (schemas.ts:78, 252;
  digest.ts:222). `AsAsked` is about texts without either (`Plain`).
- An extraction that breaks off leaves a file that the next start takes for the
  binary, though binary.ts:331-332 speaks of a recoverable state:
  `PartialOnlyAfterTar` names this as one of the two ways to a bad binary.
- The archive that was verified need not be the one that is extracted, when two
  starts meet (README.md:91; binary.ts:320, 328): `OnlyReleasedCode` names the one
  window, a start that opens the archive to write it while another's tar has yet to
  finish (the fault `rewrite`).
- An archive whose unlink fails stays where it is (binary.ts:333); the next
  download truncates it, so it does no harm.
- An `install` that is cut off after the truncation leaves an empty file, which
  the next one reads as a file without entries (install.ts:199); a truncated one
  makes every later `install` fail. Two that overlap lose one's entry.
- The headroom holds for calls that do not overlap: several spawns under way
  look at the same free memory, and admission is judged before an eviction frees
  some (daemon.ts:237), so a load is refused that would have fitted afterwards.
- README.md:136 says a trace takes about eight times its size when memalloc is
  captured; memory.ts:53 always reckons with four.
- trace_compare is refused in the server's default configuration, which has
  daemons (Daemon.cpp:261-273), while README.md:178 and 246 offer it.
- `sortBy: duration_ms` sorts the first `limit` frames, it does not find the
  slowest (schemas.ts:90-93; tools.ts:144-151).
- Defaults of 500 that schemas.ts names never apply, since `FArgs.Limit` is 200
  for every mode (Args.h:46).
- Required texts may be empty for the schemas; the mode then refuses the call.
- An answer with an escape in a string, printed between log lines, may not be
  found by the backward scan (digest.ts:319-322); it never finds another object.
- A daemon that is killed between a request and its reply closes the connection,
  and the call stays `hung`: `send()` has no listener for that (daemon.ts:405). No
  document says that every call ends, so no run refutes one; `CallsSettle` says that
  nothing else leaves a call unsettled.
- A daemon that is killed, or told to stop before it has installed its handlers,
  leaves its socket and pid file (daemon.ts:354; Daemon.cpp:382). `SocketFiles` is
  about the ends that the daemon brings about itself.
- `TRACE_MAX_DAEMONS=0` is no limit of zero: nothing is there to evict, and a
  query spawns its daemon all the same (daemon.ts:246). `LimitKeptWhenSerial`
  needs a limit above zero; the default is 5.
- A peer that does not read its reply blocks the daemon; only the reads have the
  deadline Daemon.cpp:47-51 describes (`HeldByDeafPeer` in `server`).
- The loop over an allocations query ends as soon as the provider reports
  Available and its batches are taken, though its comment says it returns when
  the query is done or the time is up (Allocations.cpp:154-156); the provider is
  then not told to stop. The answer says that it is truncated.
- A frame whose duration is the percentile's counts as slow, where Query.cpp:87 says
  "exceeds" (line 339); of frames that take equally long all are slow.
- The answer about slow frames of a trace without frames has no `truncated`
  (Query.cpp:300-307).
- A frame range whose bounds name no frame, or with B no greater than A, is
  dropped without a word: tasks, assets and timelines then cover the whole trace.
- An empty connection is reported as truncated (Net.cpp:192).
- In `trace_compare`, a counter's maximum starts from 0, and of two memory tags
  of one name the later one counts; butterflies use the first of several timers
  of a name.

## Proofs

Eight modules hold theorems, checked by tlapm to the last leaf. They are about the
specifications the runs check, for every value of the constants that their named
assumptions admit (`RegistryAssumption`, `MemoryAssumption`, `CacheAssumption`
and so on): any number of calls, files, clients, processes, rows, any capacity,
limit and bound. Where a theorem needs more, it says so as a hypothesis:
`Serial` (calls do not overlap), `MaxDaemons > 0`, `Quiet` (files change only
while no call is in flight), a single baseline. The runs `serial` and `cache` have
the first three as well; `stale` and `baseline` show the cache without the last
two, and the documents' promises fail for calls that overlap (see above).

| Module | Theorem | Property |
|---|---|---|
| `DaemonRegistryProofs` | `TypeCorrect`, `HandlesSound`, `ContentsFresh` | `TypeOK`, `RegisteredHandles`, `FreshContents` |
| | `RegistryImplementsService` | `ImplementsService` of the registry |
| | `TerminatedOnce`, `OnlyDuplicatesLost`, `NeverDroppedForAnother` | `OneTerminator`, `LostOnlyToDuplicates`, `RemovedOnlyIfEnded` |
| | `OneDaemonWhenSerial`, `LoadingListedWhenSerial`, `LimitKeptWhenSerial` | `OneDaemonPerTrace`, `LoadingVisible`, `WithinLimit` |
| `MemoryAdmissionProofs` | `MemoryImplementsRegistry`, `AdmittedRegistrySafe` | `MemorySpec => Spec`, and with it the above |
| | `HeadroomKeptWhenSerial` | `HeadroomKept` |
| `DaemonServerProofs` | `TypeCorrect`, `EndsInOrder`, `NoConnectionLost`, `FilesMatch` | `TypeOK`, `StopsOrderly`, `ConnectionsAccounted`, `SocketFiles` |
| `CommandLineProofs` | `RecoveredUnlessTarCut`, `ReleasedOnly`, `NoArchiveLeft` | `PartialOnlyAfterTar`, `OnlyReleasedCode`, `ArchiveRemoved` |
| | `NothingElseTouched`, `StaysInstalled` | `EntriesKept`, `InstalledStays` |
| `TraceCacheProofs` | `TypeCorrect`, `OwnAnswers`, `EvictionOrder` | `TypeOK`, `AnswersOwnQuestion`, `EvictsLeastRecentlyUsed` |
| | `NotStaleWhenQuiet`, `CacheImplementsService`, `ComparesRightWithOneBaseline` | `NeverStale`, `ImplementsService`, `ComparesWithBaseline` |
| `ToolCallsProofs` | `ArgumentsArrive`, `VariantsDistinguish`, `ResultsAreOutputs` | `AsAsked`, `VariantsTellApart`, `ResultIsOutput` |
| `LoadedTraceProofs` | `AnswersAreHonest` | `AnswerHonest` |
| | `ListingsAreHonest`, `RangesStandForFrames` | `ListingsHonest`, `RangesAreFrames` |
| | `ComparisonsAreFair`, `ViewsTellOneStory` | `ComparesFair`, `ViewsAgree` |

`QueryModesProofs` has the lemmas on which the last four rest.

Nearly every safety property is proved by an inductive invariant `IInv` made of
named parts, with one step or lemma for each action. What the parts are for:

- *The registry, always.* That a handle in the map has not been signalled rests
  on its child not having been registered before it announced itself and on each
  call registering once; that its contents are fresh rests on what a child parses
  lying between the version at its launch and the one now, and on a caller's key
  being its daemon's key (`KeyInv`, `ChildInv`, `ServedInv`). Given
  these, `OneTerminator` and `LostOnlyToDuplicates` are inductive as they stand:
  what a call or shutdown waits for has been signalled, so it is not in the map,
  where the next terminator looks.
- *The registry, one call at a time.* `SerialInv`: one call is active, nothing is
  registered under the key it spawns for, every daemon that runs untold is
  registered. For `WithinLimit`, `RoomInv` counts the keys in the map and has one
  less from the end of the eviction loop until the new daemon is in it.
- *Headroom.* `HeadroomInv` counts more than the property: also the call that has
  been admitted and has not launched its child yet, since its estimate is granted
  already. Admission then takes from a reading in which every daemon that is
  counted has loaded. The sum over a set is the library's `MapThenSumSet`, a
  function defined by recursion on sets; that adding an element adds its summand
  and that a subset has no larger sum is proved by least counterexample
  (`Least`, from the well-foundedness of `<`), which needs no induction rule.
- *The daemon.* `FlowInv` follows a client from the queue to the end, so that none
  is queued or served twice; `LateInv` says why one connection at most is served
  after SIGTERM: only the `poll()` that has not returned can let one more in.
- *Downloads and `install`.* `WriterInv` ties the archive's name to a process that
  has yet to unlink it, or to one that tried and failed, and holds whatever happens.
  `VerifiedInv` holds until a start opens an archive under another's extraction, in
  every other overlap too: tar reads what was verified although it opens the archive
  by name again, and whoever still downloads writes into a file he truncated himself.
  `TarInv`, while no two starts have met, adds that the archive is there and tar's
  output is the binary; `WholeInv`, if tar was not cut short either, that a binary is
  whole or still being filled. `HarmlessInv` holds what a run is about to write
  against the file it read, which is still the file there is, or was until the
  truncation.
- *The cache.* `AnswerInv` ties a result to the key it is kept or found under, and
  `FreshInv` says that a quiet file has one version for the whole of a call. For
  the order of eviction, `Ordered` says that whatever stands earlier in the Map is
  older by the history of uses; each operation on the sequence has a lemma.
- *Allocations.* `EventsInv` also bounds where an emitted row may stand among those
  looked at, so that an answer with as many rows as the query is the identity.
- *The other modes.* `AnswerInv` says only that an answer is what the mode's
  operator makes of a question that may be asked, so the work is in the operators.
  `Selected` and `Joined` name a row by how many stand before it, and what they
  return (which rows, in which order, how many) follows from the cardinality of
  finite sets (`Places`, `RowsAtRows`, `JoinedRows`). Listings have two halves. An
  answer is faithful to what the mode's operators select (`Taken`, `Faithful`), which
  rests on the first `limit` rows in the order of their numbers being the least
  numbers (`FirstInOrder`, `PlainHonest`). And what the operators select is what the
  descriptions ask for (`AsAsked`), shown for each mode from the two definitions
  (`ListingAsAsked`): a floor by severities is one by numbers, a window resolved to
  times holds the rows of its frames, the number of the frame current at a time is
  one less than how many had begun, and a frame is at or above the interpolated
  percentile exactly when a large enough share of the others is no longer than it
  (`QuantileOfShare`, from `RankOfSorted`: the k-th of the sorted values is at most
  d if and only if k of them are). Ranges rest on one fact, that where frames follow
  each other a window meets a row exactly if one of its frames or the time between
  two does (`NearIsNear`); comparisons on `EmitEventDiff` and its siblings building
  a set of rows before they order it, and that set being the same up to the columns
  (`RowSwapped`); the instances of a name on counting the same places twice,
  once over all events and once by name (`InstancesFair`).
- *Arguments.* Each tool of the table is `Sound` (its arguments are flags, its mode
  requires nothing else, its variant holds what is sent), which is looked up tool
  by tool; that a sound tool's question arrives is proved for any values.
- *Results.* `PipeInv` and `ChildInv` tie the flags, the timer and the bytes to how the
  child ended; the theorem needs of the outputs that each is read for what it is
  (`OutputsRead`), which TLC evaluates for those of `tools`.

The two refinements of `TraceService` map initial states to initial states and
every step to a step or a stutter (`ServiceStep`), each action by what it does to
a call's `pc`. The abstract service has no fairness, so the theorems prove all of
the property that the runs check. `MemorySpec => Spec` needs no mapping: the
check only takes choices away.

Five things came up while proving. A reading of `MemAvailable` has to be
taken as never negative, since a negative one stands for a failed read and admits
everything; the model clamps it. `LimitKeptWhenSerial` does not hold with
`maxDaemons` zero. And "the right answer" of the cache did not hold for
comparisons with different second files: this is the run `baseline`, and
`ComparesRightWithOneBaseline` shows that the missing second file is the whole
cause. The property of listings, as it was first written, let an `events_inside_region`
answer hold anything (a conjunction that was read as an implication); the proof
had nothing to prove there, and the property now says which events are inside. And
ranges were first stated for frames without time between them, which the code
does not rely on: what happened between two frames of a range belongs to it
(`Between`).

Only model-checked:

- liveness (`CallsSettle`, `ShutdownCompletes`, `ConnectionsEnd`, `IdleStops`,
  `CommandsEnd`, `RunsAnswered`, `QueryReturns`), which needs ENABLED;
- `DigestsExact` and `MemoryViewsExact`: sums, maxima, samples and buckets are
  folds over a stream (`FoldLeft`), and the tags shown a walk up the tags' parents,
  all defined by recursion over the data, for which the provers have no induction;
- that `JsonText` finds in an output what was written (`OutputsRead`): it reads and
  writes nested values with RECURSIVE operators, in whose presence tlapm has no SMT
  solver.

## Plan

1. Done: `DaemonRegistry` with `TraceService`; `DaemonServer`, `TraceCache`,
   `BinaryCache`; the query modes and `AllocationQuery`.
2. Done: `MemoryAdmission`; `Arguments`, `Tools`, `JsonText` and `OneShot`,
   composed in `ToolCalls`; `Catalogues`, and all modes in `LoadedTrace`;
   `Installer`, with `BinaryCache` in `CommandLine`.
3. Done: the safety properties of every module with state, and both
   refinements, as theorems.
4. Done: the listings, ranges, comparisons and views of the query modes, the lists
   of flags and the results of one-shot runs, as theorems.
5. Left: lemmas about sums over streams, by least counterexample as the headroom's
   are, towards `DigestsExact`.

## Not modelled

The contents of traces and what Unreal's TraceServices computes from them, with
`Session.cpp`, which only drives it and its persistent cache: whether a load
succeeds is left open wherever one happens. The filters and sorting that
`tools.ts` applies to a finished answer, JSON-RPC and the MCP transport, the
types of results, the figures of `trace_status` (a process's memory, uptimes).
Build and release files; wording and layout of messages.
