--------------------------- MODULE DaemonRegistry ---------------------------
(***************************************************************************)
(* The MCP server's registry of daemons (mcp-server/src/daemon.ts): one    *)
(* TraceDigest child process per trace file and modification time, spawned *)
(* on the first query, shared by later ones, and killed when its file      *)
(* changes, when it has been idle, to make room, on request, and when the  *)
(* server shuts down.                                                      *)
(*                                                                         *)
(* The server is one JavaScript thread: an action below is the code that   *)
(* runs between two awaits, and actions of different calls interleave.     *)
(* The children are separate processes and move on their own.  A call      *)
(* spawns at most one child, so a child is named for the call that spawned *)
(* it, and so is its handle: `daemons` and `loading` map keys to calls.    *)
(***************************************************************************)
EXTENDS Naturals, FiniteSets

CONSTANTS Calls,        \* the calls made over the life of the server
          NoCall,       \* not a call: an absent map entry, no target
          Kinds,        \* which operations the calls perform
          Files,        \* the trace files on disk
          MaxVersion,   \* bound: how often a file may be rewritten
          MaxNow,       \* bound: the clock stops here
          IdleTimeout,  \* idleTimeoutSec, in ticks of the clock
          MaxDaemons,   \* maxDaemons
          Serial,       \* TRUE: the client makes one call at a time
          Crashes,      \* TRUE: the server may die without shutting down
          OneChange     \* bound: if TRUE, either files change or time passes, not both

ASSUME RegistryAssumption ==
  /\ NoCall \notin Calls
  /\ IsFiniteSet(Calls)
  /\ Kinds \subseteq {"query", "unload", "control"}
  /\ MaxVersion \in Nat \ {0}
  /\ MaxNow \in Nat
  /\ IdleTimeout \in Nat
  /\ MaxDaemons \in Nat
  /\ Serial \in BOOLEAN
  /\ Crashes \in BOOLEAN
  /\ OneChange \in BOOLEAN

VARIABLES
  \* the file system and the clock
  version,    \* version[f]: the contents (and the mtime) of file f
  now,
  \* the registry
  server,     \* "running", "closing" (shutdown began), "exited", "crashed"
  daemons,    \* daemons[k]: the child whose handle is registered under key k
  loading,    \* loading[k]: the child whose spawn is recorded under key k
  lastUsed,   \* lastUsed[d]: the handle's lastUsedAt
  awaited,    \* the children whose exit shutdown() awaits
  \* the calls
  pc,         \* pc[c]: the await call c is suspended at
  kind,       \* kind[c]: the operation it performs
  key,        \* key[c]: the key it derived, file and mtime
  target,     \* target[c]: the child it awaits or talks to
  outcome,    \* outcome[c]: how it settled
  saw,        \* history: the version the file had when the call looked at it
  \* the children
  proc,       \* proc[d]: the life of the process
  loaded,     \* loaded[d]: the contents it parsed; those at launch until then
  signal,     \* signal[d]: the strongest signal the registry has sent it
  exitSeen    \* exitSeen[d]: its "exit" event has been delivered

callVars  == <<pc, kind, key, target, outcome, saw>>
childVars == <<proc, loaded, signal, exitSeen>>
mapVars   == <<daemons, loading, lastUsed>>
vars == <<version, now, server, awaited, mapVars, callVars, childVars>>

Versions == 1 .. MaxVersion

\* The key of a daemon: absolute path and mtime.
Key == Files \X Versions

CallsOrNone == Calls \cup {NoCall}

\* Where a call can be suspended.  It awaits a child's exit in "stale",
\* "evict" and "unload"; "hung" is a promise nothing will ever settle.
Awaits == {"idle", "lookup", "stale", "admit", "evict", "mkdir", "loading",
           "connect", "reply", "unload", "hung", "done"}

Outcomes == {"none", "replied", "unloaded", "not-loaded", "not-running",
             "not-found", "memory-budget", "spawn-failed", "spawn-timeout",
             "ipc"}

\* A child loads the trace, then listens; it dies before announcing itself
\* ("aborted") or after ("stopped").
ProcStates == {"none", "starting", "listening", "aborted", "stopped"}

TypeOK ==
  /\ version \in [Files -> Versions]
  /\ now \in 0 .. MaxNow
  /\ server \in {"running", "closing", "exited", "crashed"}
  /\ daemons \in [Key -> CallsOrNone]
  /\ loading \in [Key -> CallsOrNone]
  /\ lastUsed \in [Calls -> 0 .. MaxNow]
  /\ awaited \in SUBSET Calls
  /\ pc \in [Calls -> Awaits]
  /\ kind \in [Calls -> {"query", "unload", "control"}]
  /\ key \in [Calls -> Key]
  /\ target \in [Calls -> CallsOrNone]
  /\ outcome \in [Calls -> Outcomes]
  /\ saw \in [Calls -> Versions]
  /\ proc \in [Calls -> ProcStates]
  /\ loaded \in [Calls -> Versions]
  /\ signal \in [Calls -> {"none", "term", "kill"}]
  /\ exitSeen \in [Calls -> BOOLEAN]

Init ==
  /\ version = [f \in Files |-> 1]
  /\ now = 0
  /\ server = "running"
  /\ daemons = [k \in Key |-> NoCall]
  /\ loading = [k \in Key |-> NoCall]
  /\ lastUsed = [c \in Calls |-> 0]
  /\ awaited = {}
  /\ pc = [c \in Calls |-> "idle"]
  /\ kind = [c \in Calls |-> "query"]
  /\ \E f \in Files : key = [c \in Calls |-> <<f, 1>>]
  /\ target = [c \in Calls |-> NoCall]
  /\ outcome = [c \in Calls |-> "none"]
  /\ saw = [c \in Calls |-> 1]
  /\ proc = [c \in Calls |-> "none"]
  /\ loaded = [c \in Calls |-> 1]
  /\ signal = [c \in Calls |-> "none"]
  /\ exitSeen = [c \in Calls |-> FALSE]

-----------------------------------------------------------------------------
(* Names for parts of the state.                                           *)

\* The event loop runs: after exit or a crash no JavaScript does.
Up == server \in {"running", "closing"}

RegisteredKeys == {k \in Key : daemons[k] # NoCall}

Registered == {daemons[k] : k \in RegisteredKeys}

Alive(d) == proc[d] \in {"starting", "listening"}

Settled(c) == pc[c] = "done"

\* Other daemons for the same path: their mtime is not the one just read.
StaleKeys(k) == {j \in RegisteredKeys : j[1] = k[1] /\ j # k}

\* The keys pickLruVictim may return.  Its scan breaks ties by the order in
\* which they were inserted; here any handle with the oldest time may go.
LruKeys == {k \in RegisteredKeys :
              \A j \in RegisteredKeys : lastUsed[daemons[k]] <= lastUsed[daemons[j]]}

ExpiredKeys == {k \in RegisteredKeys : now - lastUsed[daemons[k]] > IdleTimeout}

\* The key a call derives from the file as it is now.
MutKeyOfPath(f) == <<f, 1>>
MutKeyOfSeconds(f) == <<f, version[f] \div 2>>
KeyOf(f) == <<f, version[f]>>

-----------------------------------------------------------------------------
(* Helpers of the actions.                                                 *)

\* The registry forgets the handles under ks; each of their children gets
\* SIGTERM and, 1.5 seconds later, SIGKILL (KillGrace).  No caller waits
\* inside this step: the exit event is a step of its own.
MutForgetToKill(ks) ==
  /\ daemons' = [k \in Key |-> IF k \in ks THEN NoCall ELSE daemons[k]]
  /\ signal' = signal

MutDeleteLater(ks) ==
  /\ daemons' = daemons
  /\ signal' = [d \in Calls |->
                  IF \E k \in ks : daemons[k] = d THEN "term" ELSE signal[d]]

Terminate(ks) ==
  /\ daemons' = [k \in Key |-> IF k \in ks THEN NoCall ELSE daemons[k]]
  /\ signal' = [d \in Calls |->
                  IF \E k \in ks : daemons[k] = d THEN "term" ELSE signal[d]]

\* Call c takes the daemon under k down and suspends until it has exited.
TerminateAndAwait(c, k, await) ==
  /\ Terminate({k})
  /\ target' = [target EXCEPT ![c] = daemons[k]]
  /\ pc' = [pc EXCEPT ![c] = await]
  /\ UNCHANGED <<loading, lastUsed, kind, key, outcome, saw, proc, loaded, exitSeen>>

\* Call c is suspended at the next await and nothing else changes.
Goto(c, await) ==
  /\ pc' = [pc EXCEPT ![c] = await]
  /\ UNCHANGED <<mapVars, kind, key, target, outcome, saw, childVars>>

\* The call's promise settles.  A call that was answered keeps the name of
\* the daemon that answered it.
Settle(c, o) ==
  /\ pc' = [pc EXCEPT ![c] = "done"]
  /\ outcome' = [outcome EXCEPT ![c] = o]
  /\ target' = [target EXCEPT ![c] = IF o = "replied" THEN @ ELSE NoCall]
  /\ UNCHANGED <<kind, key, saw>>

\* The call dials daemon d: createConnection is called in the same turn.
Dial(c, d) ==
  /\ target' = [target EXCEPT ![c] = d]
  /\ pc' = [pc EXCEPT ![c] = "connect"]
  /\ UNCHANGED <<mapVars, kind, key, outcome, saw, childVars>>

\* The loop over daemons of the same path, one turn: the next one is killed
\* and awaited; when none is left, admission is checked.
ClearStale(c) ==
  \/ \E k \in StaleKeys(key[c]) : TerminateAndAwait(c, k, "stale")
  \/ StaleKeys(key[c]) = {} /\ Goto(c, "admit")

\* The registry has room for one more daemon, or nothing it could evict.
MutHasRoomForOneMore == Cardinality(RegisteredKeys) <= MaxDaemons
HasRoom == Cardinality(RegisteredKeys) < MaxDaemons \/ RegisteredKeys = {}

\* The eviction loop, one turn: room is made, or the spawn goes on.
MakeRoom(c) ==
  \/ ~HasRoom /\ \E k \in LruKeys : TerminateAndAwait(c, k, "evict")
  \/ HasRoom /\ Goto(c, "mkdir")

\* A spawn under way is recorded for trace_status and removed by key when it
\* ends, whoever the entry belongs to by then.
MutRecordUnderNewKey(c) == [loading EXCEPT ![KeyOf(key[c][1])] = c]
Record(c) == [loading EXCEPT ![key[c]] = c]

Unrecord(c) == [loading EXCEPT ![key[c]] = NoCall]

\* Steps of the registry leave the file system, the clock and the state of
\* shutdown alone; they happen while the server runs.
RegistryStep == Up /\ UNCHANGED <<version, now, server, awaited>>

-----------------------------------------------------------------------------
(* The calls.                                                              *)

\* A call of operation o arrives and its stat() succeeds.  What the call decided by then
\* is the key; the code that uses it runs later, in Lookup.
Issue(c, o, f) ==
  /\ RegistryStep
  /\ pc[c] = "idle"
  /\ Serial => \A d \in Calls : pc[d] \in {"idle", "done"}
  /\ kind' = [kind EXCEPT ![c] = o]
  /\ key' = [key EXCEPT ![c] = KeyOf(f)]
  /\ saw' = [saw EXCEPT ![c] = version[f]]
  /\ pc' = [pc EXCEPT ![c] = "lookup"]
  /\ UNCHANGED <<mapVars, target, outcome, childVars>>

\* stat() fails: the path does not exist or cannot be read.
IssueNotFound(c) ==
  /\ RegistryStep
  /\ pc[c] = "idle"
  /\ Settle(c, "not-found")
  /\ UNCHANGED <<mapVars, childVars>>

\* getOrSpawn after its stat: a warm daemon is used, else the daemons of the
\* same path are killed one after the other.
LookupQuery(c) ==
  /\ RegistryStep
  /\ pc[c] = "lookup" /\ kind[c] = "query"
  /\ \/ daemons[key[c]] # NoCall /\ Dial(c, daemons[key[c]])
     \/ daemons[key[c]] = NoCall /\ ClearStale(c)

\* The awaited stale daemon has exited: the loop goes on.  The map is not
\* consulted again for a daemon under this call's own key.
ResumeStale(c) ==
  /\ RegistryStep
  /\ pc[c] = "stale" /\ exitSeen[target[c]]
  /\ ClearStale(c)

\* checkAdmission refuses.  Its inputs, the size of the file and the free
\* memory, may have any value.
Refuse(c) ==
  /\ RegistryStep
  /\ pc[c] = "admit"
  /\ Settle(c, "memory-budget")
  /\ UNCHANGED <<mapVars, childVars>>

\* checkAdmission allows the load; then the registry makes room.
Admit(c) ==
  /\ RegistryStep
  /\ pc[c] = "admit"
  /\ MakeRoom(c)

ResumeEvict(c) ==
  /\ RegistryStep
  /\ pc[c] = "evict" /\ exitSeen[target[c]]
  /\ MakeRoom(c)

\* The socket directory exists: the child is spawned and recorded.
Launch(c) ==
  /\ RegistryStep
  /\ pc[c] = "mkdir"
  /\ proc' = [proc EXCEPT ![c] = "starting"]
  /\ loaded' = [loaded EXCEPT ![c] = version[key[c][1]]]
  /\ loading' = Record(c)
  /\ pc' = [pc EXCEPT ![c] = "loading"]
  /\ UNCHANGED <<daemons, lastUsed, kind, key, target, outcome, saw, signal, exitSeen>>

\* DAEMON_READY has been read from the child's stdout: its handle replaces
\* the loading entry, and the query dials it.
Ready(c) ==
  /\ RegistryStep
  /\ pc[c] = "loading" /\ proc[c] \in {"listening", "stopped"}
  /\ loading' = Unrecord(c)
  /\ daemons' = [daemons EXCEPT ![key[c]] = c]
  /\ lastUsed' = [lastUsed EXCEPT ![c] = now]
  /\ target' = [target EXCEPT ![c] = c]
  /\ pc' = [pc EXCEPT ![c] = "connect"]
  /\ UNCHANGED <<kind, key, outcome, saw, childVars>>

\* The spawn timer fires first: the child is killed outright.
MutNoSpawnTimer(c) == RegistryStep /\ pc[c] = "never" /\ UNCHANGED <<mapVars, callVars, childVars>>
SpawnTimeout(c) ==
  /\ RegistryStep
  /\ pc[c] = "loading"
  /\ loading' = Unrecord(c)
  /\ signal' = [signal EXCEPT ![c] = "kill"]
  /\ Settle(c, "spawn-timeout")
  /\ UNCHANGED <<daemons, lastUsed, proc, loaded, exitSeen>>

\* The socket connects: the request is written and the handle is touched.
Connect(c) ==
  /\ RegistryStep
  /\ pc[c] = "connect" /\ proc[target[c]] = "listening"
  /\ lastUsed' = [lastUsed EXCEPT ![target[c]] = now]
  /\ pc' = [pc EXCEPT ![c] = "reply"]
  /\ UNCHANGED <<daemons, loading, kind, key, target, outcome, saw, childVars>>

\* The daemon was killed or exited before the call reached it, or the queue
\* of its socket is full.
ConnectFails(c) ==
  /\ RegistryStep
  /\ pc[c] = "connect"
  /\ Settle(c, "ipc")
  /\ UNCHANGED <<mapVars, childVars>>

\* The whole reply has been read.  It may have been sent before the daemon
\* stopped.
Reply(c) ==
  /\ RegistryStep
  /\ pc[c] = "reply"
  /\ Settle(c, "replied")
  /\ UNCHANGED <<mapVars, childVars>>

\* The daemon stops, or gives the connection up, before it has read the whole
\* request: the connection is reset and the socket's "error" handler rejects.
ConnectionReset(c) ==
  /\ RegistryStep
  /\ pc[c] = "reply"
  /\ Settle(c, "ipc")
  /\ UNCHANGED <<mapVars, childVars>>

\* The daemon stops after it has read the request and before it has replied:
\* the connection ends, and send() listens to neither "end" nor "close".
ConnectionEnds(c) ==
  /\ RegistryStep
  /\ pc[c] = "reply" /\ proc[target[c]] = "stopped"
  /\ Goto(c, "hung")

\* unload() after its stat.
LookupUnload(c) ==
  /\ RegistryStep
  /\ pc[c] = "lookup" /\ kind[c] = "unload"
  /\ \/ /\ daemons[key[c]] = NoCall
        /\ Settle(c, "not-loaded")
        /\ UNCHANGED <<mapVars, childVars>>
     \/ /\ daemons[key[c]] # NoCall
        /\ TerminateAndAwait(c, key[c], "unload")

ResumeUnload(c) ==
  /\ RegistryStep
  /\ pc[c] = "unload" /\ exitSeen[target[c]]
  /\ Settle(c, "unloaded")
  /\ UNCHANGED <<mapVars, childVars>>

\* control() after its stat: it never spawns.
LookupControl(c) ==
  /\ RegistryStep
  /\ pc[c] = "lookup" /\ kind[c] = "control"
  /\ \/ /\ daemons[key[c]] = NoCall
        /\ Settle(c, "not-running")
        /\ UNCHANGED <<mapVars, childVars>>
     \/ daemons[key[c]] # NoCall /\ Dial(c, daemons[key[c]])

-----------------------------------------------------------------------------
(* Events no call awaits by itself.                                        *)

\* What the handle's own "exit" listener leaves of the map.
MutNoExitListener(d) == daemons
MutDropByKey(d) == [daemons EXCEPT ![key[d]] = NoCall]
AfterExit(d) == IF daemons[key[d]] = d
                THEN [daemons EXCEPT ![key[d]] = NoCall]
                ELSE daemons

\* The child's "exit" event: the listener of a spawn that is not ready yet
\* rejects it, the listener of a registered handle drops it.  A terminate()
\* that waits for this exit goes on in a later turn (Resume...), after it
\* has removed the socket.
ExitEvent(d) ==
  /\ RegistryStep
  /\ proc[d] \in {"aborted", "stopped"} /\ ~exitSeen[d]
  /\ exitSeen' = [exitSeen EXCEPT ![d] = TRUE]
  /\ daemons' = AfterExit(d)
  /\ \/ /\ pc[d] = "loading"
        /\ loading' = Unrecord(d)
        /\ Settle(d, "spawn-failed")
     \/ /\ pc[d] # "loading"
        /\ UNCHANGED <<loading, callVars>>
  /\ UNCHANGED <<lastUsed, proc, loaded, signal>>

\* The grace period of terminate() is over.
MutGraceStopsWithReaper(d) ==
  /\ RegistryStep
  /\ server = "running" /\ signal[d] = "term" /\ ~exitSeen[d]
  /\ signal' = [signal EXCEPT ![d] = "kill"]
  /\ UNCHANGED <<mapVars, callVars, proc, loaded, exitSeen>>

KillGrace(d) ==
  /\ RegistryStep
  /\ signal[d] = "term" /\ ~exitSeen[d]
  /\ signal' = [signal EXCEPT ![d] = "kill"]
  /\ UNCHANGED <<mapVars, callVars, proc, loaded, exitSeen>>

\* The reaper's timer: every handle that has been idle is taken down.
ReapIdle ==
  /\ RegistryStep
  /\ server = "running"
  /\ ExpiredKeys # {}
  /\ Terminate(ExpiredKeys)
  /\ UNCHANGED <<loading, lastUsed, callVars, proc, loaded, exitSeen>>

\* SIGTERM, SIGINT, SIGHUP or the end of stdin.  With no daemon to wait for,
\* shutdown() resolves and process.exit(0) runs in the same turn.
Shutdown ==
  /\ server = "running"
  /\ server' = IF Registered = {} THEN "exited" ELSE "closing"
  /\ awaited' = Registered
  /\ Terminate(RegisteredKeys)
  /\ UNCHANGED <<version, now, loading, lastUsed, callVars, proc, loaded, exitSeen>>

\* shutdown() has resolved: process.exit(0).
Exit ==
  /\ server = "closing"
  /\ \A d \in awaited : exitSeen[d]
  /\ server' = "exited"
  /\ UNCHANGED <<version, now, awaited, mapVars, callVars, childVars>>

\* The server dies otherwise: SIGKILL, an unhandled error, or a second
\* signal, whose shutdown() returns at once and lets process.exit(0) run.
Crash ==
  /\ Crashes /\ Up
  /\ server' = "crashed"
  /\ UNCHANGED <<version, now, awaited, mapVars, callVars, childVars>>

-----------------------------------------------------------------------------
(* The children, the file system and the clock.                            *)

\* The child has opened the trace file, as it was at some moment since the
\* launch, and parsed it; the socket listens and DAEMON_READY is printed.
Announce(d) ==
  /\ proc[d] = "starting" /\ signal[d] # "kill"
  /\ proc' = [proc EXCEPT ![d] = "listening"]
  /\ \E v \in loaded[d] .. version[key[d][1]] : loaded' = [loaded EXCEPT ![d] = v]
  /\ UNCHANGED <<version, now, server, awaited, mapVars, callVars, signal, exitSeen>>

\* The child ends: a signal, its own idle timer, :shutdown, a failed load or
\* a crash.
Die(d) ==
  /\ Alive(d)
  /\ proc' = [proc EXCEPT ![d] = IF @ = "listening" THEN "stopped" ELSE "aborted"]
  /\ UNCHANGED <<version, now, server, awaited, mapVars, callVars, loaded, signal, exitSeen>>

\* Files change and time passes; what either does after the server is gone
\* concerns nobody here.
Rewrite(f) ==
  /\ Up /\ version[f] < MaxVersion
  /\ OneChange => now = 0
  /\ version' = [version EXCEPT ![f] = @ + 1]
  /\ UNCHANGED <<now, server, awaited, mapVars, callVars, childVars>>

Tick ==
  /\ Up /\ now < MaxNow
  /\ OneChange => \A f \in Files : version[f] = 1
  /\ now' = now + 1
  /\ UNCHANGED <<version, server, awaited, mapVars, callVars, childVars>>

-----------------------------------------------------------------------------
CallStep(c) ==
  \/ \E o \in Kinds, f \in Files : Issue(c, o, f)
  \/ IssueNotFound(c)
  \/ LookupQuery(c)  \/ ResumeStale(c)  \/ Refuse(c)  \/ Admit(c)
  \/ ResumeEvict(c)  \/ Launch(c)       \/ Ready(c)   \/ SpawnTimeout(c)
  \/ Connect(c)      \/ ConnectFails(c) \/ Reply(c)
  \/ ConnectionReset(c) \/ ConnectionEnds(c)
  \/ LookupUnload(c) \/ ResumeUnload(c) \/ LookupControl(c)

Next ==
  \/ \E c \in Calls : CallStep(c)
  \/ \E d \in Calls : ExitEvent(d) \/ KillGrace(d) \/ Announce(d) \/ Die(d)
  \/ ReapIdle \/ Shutdown \/ Exit \/ Crash
  \/ \E f \in Files : Rewrite(f)
  \/ Tick

Spec == Init /\ [][Next]_vars

-----------------------------------------------------------------------------
(* Safety.                                                                 *)

\* The calls that wait in terminate() for a child to exit.
Waiting(c) == pc[c] \in {"stale", "evict", "unload"}

\* A handle in the map is under its own key, has announced itself, has not
\* been sent a signal, and its exit has not been delivered.  So whoever takes
\* it out of the map to terminate it still has an exit event to wait for:
\* terminate() would wait forever for one that has already fired.
RegisteredHandles ==
  \A k \in RegisteredKeys :
    LET d == daemons[k]
    IN  /\ key[d] = k
        /\ proc[d] \in {"listening", "stopped"}
        /\ signal[d] = "none"
        /\ ~exitSeen[d]

\* A handle is terminated once, by one party: two calls, or a call and
\* shutdown(), never wait for the exit of the same child, and a child
\* somebody waits for has been signalled.
OneTerminator ==
  /\ \A c \in Calls : Waiting(c) =>
       /\ target[c] \in Calls /\ signal[target[c]] # "none"
       /\ target[c] \notin awaited
       /\ \A e \in Calls : Waiting(e) /\ target[e] = target[c] => e = c
  /\ \A d \in awaited : signal[d] # "none"

\* The daemon a query talks to has parsed contents no older than the ones
\* the query saw when it began, and none from after now, whatever happened
\* to the file since.
FreshContents ==
  \A c \in Calls :
    pc[c] \in {"connect", "reply", "hung"} \/ outcome[c] = "replied" =>
      /\ target[c] \in Calls
      /\ proc[target[c]] \in {"listening", "stopped"}
      /\ key[target[c]] = key[c]
      /\ loaded[target[c]] \in saw[c] .. version[key[c][1]]

\* A daemon that listens, that nobody has told to stop and that no spawn
\* waits for any more is in the map, unless another call has started a
\* daemon for the same key: being overwritten by a duplicate is the only way
\* the registry loses track of a running daemon.
LostOnlyToDuplicates ==
  \A d \in Calls :
    proc[d] = "listening" /\ signal[d] = "none" /\ pc[d] # "loading" =>
      \/ daemons[key[d]] = d
      \/ \E e \in Calls \ {d} : key[e] = key[d] /\ proc[e] \in {"listening", "stopped"}

\* A key leaves the map only together with its daemon's exit or its SIGTERM,
\* never on account of another process that once had the same key.
RemovedOnlyIfEnded ==
  [][\A k \in Key : daemons[k] # NoCall /\ daemons'[k] = NoCall =>
       exitSeen'[daemons[k]] \/ signal'[daemons[k]] = "term"]_vars

\* "One daemon process per (absolute path x mtime) trace."
OneDaemonPerTrace ==
  \A d, e \in Calls :
    /\ proc[d] = "listening" /\ signal[d] = "none"
    /\ proc[e] = "listening" /\ signal[e] = "none"
    /\ key[d] = key[e]
    => d = e

\* "MCP shutdown reaper: ... it terminates every spawned daemon ... No
\* orphans."  Stated only of daemons whose spawn has ended and whom nobody has
\* told to stop: one that still loads when the server exits is outside what
\* this says.
NoOrphans ==
  server = "exited" =>
    \A d \in Calls : proc[d] = "listening" /\ signal[d] = "none" => pc[d] = "loading"

\* What the documents promise and the code keeps when calls do not overlap:
\* no more than maxDaemons processes nobody has told to stop ...
WithinLimit ==
  Cardinality({d \in Calls : Alive(d) /\ signal[d] = "none"}) <= MaxDaemons

\* ... and every spawn under way listed by trace_status.
LoadingVisible ==
  \A c \in Calls : pc[c] = "loading" => loading[key[c]] = c

\* What of both the documents say whether calls overlap or not: no more than
\* maxDaemons are resident, and a trace that is being loaded is listed.
ResidentWithinLimit ==
  Cardinality({d \in Calls : proc[d] = "listening" /\ signal[d] = "none"}) <= MaxDaemons

LoadingListed ==
  \A c \in Calls : pc[c] = "loading" => loading[key[c]] # NoCall

\* One of the three promises is kept at any time: "One daemon process per trace",
\* "max resident daemons" and "loading[] for in-flight spawns" (README.md:134, 146,
\* 166).  A state that breaks them all refutes each of them.
SomePromiseKept == OneDaemonPerTrace \/ ResidentWithinLimit \/ LoadingListed

-----------------------------------------------------------------------------
(* Liveness.                                                               *)

\* The event loop goes on: a call that can continue does, and so do the
\* timers and the exit events.  The kernel ends a process it was told to
\* kill.  Nothing is assumed of calls that have not been made, of a child
\* that has only been sent SIGTERM, or of one that is still loading.  A daemon
\* that has been dialled answers or closes the connection in the end: that is
\* ConnectionsEnd of DaemonServer, for a client that reads its replies.
CallProgress(c) ==
  \/ LookupQuery(c)  \/ ResumeStale(c)  \/ Refuse(c)  \/ Admit(c)
  \/ ResumeEvict(c)  \/ Launch(c)       \/ Ready(c)   \/ SpawnTimeout(c)
  \/ Connect(c)      \/ ConnectFails(c) \/ Reply(c)
  \/ ConnectionReset(c) \/ ConnectionEnds(c)
  \/ LookupUnload(c) \/ ResumeUnload(c) \/ LookupControl(c)

Fairness ==
  /\ \A c \in Calls : WF_vars(CallProgress(c))
  /\ \A d \in Calls : /\ WF_vars(ExitEvent(d))
                      /\ WF_vars(KillGrace(d))
                      /\ WF_vars(signal[d] = "kill" /\ Die(d))
  /\ WF_vars(Exit)

FairSpec == Spec /\ Fairness

\* A call that was made settles, whatever is terminated meanwhile, unless
\* the server goes down or its daemon closes the connection without a reply.
CallsSettle ==
  \A c \in Calls : (pc[c] = "lookup") ~> (pc[c] \in {"done", "hung"} \/ ~Up)

\* A shutdown ends, however many calls are in flight and even if the daemons
\* ignore SIGTERM.
ShutdownCompletes == (server = "closing") ~> ~Up

-----------------------------------------------------------------------------
(* The registry implements the service.                                    *)

\* How far a call has come, and what it was answered from, as the service sees it.
ServiceState ==
  [c \in Calls |->
     CASE pc[c] = "idle"                                                -> "idle"
       [] pc[c] = "done" /\ outcome[c] = "replied" /\ kind[c] = "query" -> "answered"
       [] pc[c] = "done" /\ ~(outcome[c] = "replied" /\ kind[c] = "query") -> "settled"
       [] OTHER                                                         -> "pending"]

ServiceGot ==
  [c \in Calls |-> IF outcome[c] = "replied" /\ kind[c] = "query"
                   THEN loaded[target[c]] ELSE 0]

Service == INSTANCE TraceService WITH
  state <- ServiceState,
  about <- [c \in Calls |-> key[c][1]],
  floor <- saw,
  got   <- ServiceGot

\* A query is answered at most once, from contents the file had between the
\* moment the query looked at it and the answer.
ImplementsService == Service!Spec
=============================================================================
