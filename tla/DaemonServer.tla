---------------------------- MODULE DaemonServer ----------------------------
(***************************************************************************)
(* The daemon side of the link (TraceDigest's Private/Daemon.cpp): one     *)
(* thread loads the trace, binds a Unix socket, announces itself, and then *)
(* serves one connection after the other, each carrying one length-        *)
(* prefixed request and its reply, until it has been idle for too long, is *)
(* told to shut down, or is sent SIGTERM or SIGINT.                        *)
(*                                                                         *)
(* The clients are the MCP server's calls (mcp-server/src/daemon.ts,       *)
(* send) and whatever else of the same user opens the socket.  What a      *)
(* client sees when its connection is closed is the kernel's doing: a      *)
(* reset if the daemon had not accepted it or had not read all it sent, an *)
(* orderly end of file otherwise.                                          *)
(***************************************************************************)
EXTENDS Naturals, Sequences, FiniteSets

CONSTANTS Clients,      \* those who may connect, once each
          NoClient,     \* not a client: no connection is being served
          Silent,       \* the clients that may stop sending at any point
          Deaf,         \* the clients that may stop reading at any point
          Requests,     \* what the clients may ask for
          Backlog,      \* connections the kernel queues before accept()
          IdleTimeout   \* -idle-timeout, in ticks of the clock

ASSUME ServerAssumption ==
  /\ NoClient \notin Clients
  /\ IsFiniteSet(Clients)
  /\ Silent \subseteq Clients /\ Deaf \subseteq Clients
  /\ Requests \subseteq {"query", "shutdown", "oversized"}
  /\ Backlog \in Nat
  /\ IdleTimeout \in Nat \ {0}

VARIABLES
  srv,        \* where the daemon's thread is; "gone" and "killed" are its ends
  requested,  \* gShutdownRequested
  idleFor,    \* ticks since LastUsedAt
  queue,      \* connections waiting for accept(), oldest first
  conn,       \* the connection being served
  open,       \* the accepted connections that have not been closed
  files,      \* what exists in the socket directory
  link,       \* link[c]: the connection as client c sees it
  req,        \* req[c]: what it asks for
  sent,       \* sent[c]: how much of its request it has written
  taken,      \* taken[c]: how much of its request the daemon has read
  late        \* history: connections accepted after a signal

clientVars == <<link, req, sent, taken>>
vars == <<srv, requested, idleFor, queue, conn, open, files, clientVars, late>>

Booting == {"loading", "bound"}
Serving == {"len", "body", "handle", "write"}
Looping == {"top", "poll", "exit"} \cup Serving
Down    == srv \in {"gone", "killed"}

\* The socket accepts connections: between listen() and close().
Listening == srv \in Looping \cup {"bound"}

\* A request is a frame: its length, then its body.
Amounts == {"none", "length", "all"}

\* "shut": closed by the daemon before the client had sent its request;
\* "ended": closed after the whole request was read, without a reply.
Links == {"idle", "connected", "answered", "failed", "shut", "ended", "left"}

TypeOK ==
  /\ srv \in Booting \cup Looping \cup {"gone", "killed"}
  /\ requested \in BOOLEAN
  /\ idleFor \in 0 .. IdleTimeout
  /\ queue \in Seq(Clients) /\ Len(queue) <= Backlog + 1
  /\ conn \in Clients \cup {NoClient}
  /\ open \subseteq Clients
  /\ files \subseteq {"socket", "pid"}
  /\ link \in [Clients -> Links]
  /\ req \in [Clients -> {"query", "shutdown", "oversized"}]
  /\ sent \in [Clients -> Amounts]
  /\ taken \in [Clients -> Amounts]
  /\ late \in 0 .. Cardinality(Clients)

Init ==
  /\ srv = "loading" /\ requested = FALSE /\ idleFor = 0
  /\ queue = <<>> /\ conn = NoClient /\ open = {} /\ files = {}
  /\ link = [c \in Clients |-> "idle"]
  /\ req \in [Clients -> Requests]
  /\ sent = [c \in Clients |-> "none"]
  /\ taken = [c \in Clients |-> "none"]
  /\ late = 0

-----------------------------------------------------------------------------
(* Closing connections.                                                    *)

Queued == {queue[i] : i \in 1 .. Len(queue)}

\* How a connected client learns that its accepted connection was closed.
ClosedWithoutReply(c) ==
  CASE sent[c] # taken[c] -> "failed"
    [] sent[c] = taken[c] /\ taken[c] = "all" -> "ended"
    [] OTHER -> "shut"

\* The daemon closes the connection it serves; a client still there sees o.
Close(o) ==
  /\ link' = IF link[conn] = "connected" THEN [link EXCEPT ![conn] = o] ELSE link
  /\ open' = open \ {conn}
  /\ conn' = NoClient

MutLeakOnFailure ==
  /\ link' = link
  /\ open' = open
  /\ conn' = NoClient
CloseUnanswered == Close(ClosedWithoutReply(conn))

-----------------------------------------------------------------------------
(* The daemon.                                                             *)

\* The trace is loaded; the socket is bound and listens.
Load ==
  /\ srv = "loading"
  /\ srv' = "bound" /\ files' = {"socket"}
  /\ UNCHANGED <<requested, idleFor, queue, conn, open, clientVars, late>>

\* The load fails, or the socket cannot be made: RunDaemon returns.
LoadFails ==
  /\ srv = "loading"
  /\ srv' = "gone"
  /\ UNCHANGED <<requested, idleFor, queue, conn, open, files, clientVars, late>>

\* The pid file is written, the signal handlers are set, DAEMON_READY is
\* printed.
Announce ==
  /\ srv = "bound"
  /\ srv' = "top" /\ files' = files \cup {"pid"}
  /\ UNCHANGED <<requested, idleFor, queue, conn, open, clientVars, late>>

\* What the head of the loop tests.
MutLoopIgnoresSignal == idleFor = IdleTimeout
LoopEnds == requested \/ idleFor = IdleTimeout

\* The head of the loop: stop, or wait for a connection.
Stop ==
  /\ srv = "top" /\ LoopEnds
  /\ srv' = "exit"
  /\ UNCHANGED <<requested, idleFor, queue, conn, open, files, clientVars, late>>

Wait ==
  /\ srv = "top" /\ ~LoopEnds
  /\ srv' = "poll"
  /\ UNCHANGED <<requested, idleFor, queue, conn, open, files, clientVars, late>>

\* poll() fails for a reason other than a signal: the loop is left.
PollFails ==
  /\ srv = "poll"
  /\ srv' = "exit"
  /\ UNCHANGED <<requested, idleFor, queue, conn, open, files, clientVars, late>>

\* poll() returns for another reason than a connection to accept: its time
\* is over, a signal interrupted it, or accept() failed.
MutPollForever ==
  /\ srv = "poll" /\ queue # <<>>
  /\ srv' = "top"
  /\ UNCHANGED <<requested, idleFor, queue, conn, open, files, clientVars, late>>

Wake ==
  /\ srv = "poll"
  /\ srv' = "top"
  /\ UNCHANGED <<requested, idleFor, queue, conn, open, files, clientVars, late>>

Accept ==
  /\ srv = "poll" /\ queue # <<>>
  /\ conn' = Head(queue) /\ queue' = Tail(queue)
  /\ open' = open \cup {Head(queue)}
  /\ srv' = "len"
  /\ late' = IF requested THEN late + 1 ELSE late
  /\ UNCHANGED <<requested, idleFor, files, clientVars>>

\* RecvFramed has the length; one that is too large ends the connection.
ReadLength ==
  /\ srv = "len" /\ sent[conn] # "none"
  /\ taken' = [taken EXCEPT ![conn] = "length"]
  /\ \/ /\ req[conn] # "oversized"
        /\ srv' = "body"
        /\ UNCHANGED <<conn, open, link>>
     \/ /\ req[conn] = "oversized"
        /\ srv' = "top"
        /\ Close(IF sent[conn] = "all" THEN "failed" ELSE "shut")
  /\ UNCHANGED <<requested, idleFor, queue, files, req, sent, late>>

ReadBody ==
  /\ srv = "body" /\ sent[conn] = "all"
  /\ taken' = [taken EXCEPT ![conn] = "all"]
  /\ srv' = "handle"
  /\ UNCHANGED <<requested, idleFor, queue, conn, open, files, link, req, sent, late>>

\* RecvFramed gives up: five seconds without the bytes it needs, the peer is
\* gone, or a signal.
MutNoReadDeadline ==
  /\ srv \in {"len", "body"} /\ (link[conn] = "left" \/ requested)
  /\ srv' = "top"
  /\ CloseUnanswered
  /\ UNCHANGED <<requested, idleFor, queue, files, req, sent, taken, late>>

MutGiveUpWithoutClose ==
  /\ srv \in {"len", "body"}
  /\ srv' = "top"
  /\ MutLeakOnFailure
  /\ UNCHANGED <<requested, idleFor, queue, files, req, sent, taken, late>>

GiveUp ==
  /\ srv \in {"len", "body"}
  /\ srv' = "top"
  /\ CloseUnanswered
  /\ UNCHANGED <<requested, idleFor, queue, files, req, sent, taken, late>>

\* The reply is computed.
MutSignalDropsRequest ==
  /\ srv = "handle"
  /\ \/ ~requested /\ srv' = "write" /\ UNCHANGED <<conn, open, link>>
     \/ requested /\ srv' = "top" /\ CloseUnanswered
  /\ UNCHANGED <<requested, idleFor, queue, files, req, sent, taken, late>>

Handle ==
  /\ srv = "handle"
  /\ srv' = "write"
  /\ UNCHANGED <<requested, idleFor, queue, conn, open, files, clientVars, late>>

\* SendFramed returns, with the reply written or with an error because the
\* client has left: SIGPIPE is ignored and the result is not looked at.  A
\* signal does not cut a reply short, because signal() of the C libraries the
\* daemon is built with restarts write(); it does interrupt poll().
Write ==
  /\ srv = "write"
  /\ Close("answered")
  /\ idleFor' = 0
  /\ srv' = IF req[conn] = "shutdown" THEN "exit" ELSE "top"
  /\ UNCHANGED <<requested, queue, files, req, sent, taken, late>>

\* The loop has ended: the socket is closed, which resets the connections
\* still queued, and its files are removed.
MutKeepFiles ==
  /\ srv = "exit"
  /\ srv' = "gone"
  /\ link' = [c \in Clients |-> IF c \in Queued /\ link[c] = "connected" THEN "failed"
                                ELSE link[c]]
  /\ queue' = <<>> /\ files' = files \ {"pid"}
  /\ UNCHANGED <<requested, idleFor, conn, open, req, sent, taken, late>>

Exit ==
  /\ srv = "exit"
  /\ srv' = "gone"
  /\ link' = [c \in Clients |-> IF c \in Queued /\ link[c] = "connected" THEN "failed"
                                ELSE link[c]]
  /\ queue' = <<>> /\ files' = {}
  /\ UNCHANGED <<requested, idleFor, conn, open, req, sent, taken, late>>

-----------------------------------------------------------------------------
(* What happens to the daemon.                                             *)

\* The process ends on the spot: SIGKILL, a crash.  Its files stay.
Die ==
  /\ srv' = "killed"
  /\ link' = [c \in Clients |->
                CASE link[c] # "connected" -> link[c]
                  [] link[c] = "connected" /\ c = conn -> ClosedWithoutReply(c)
                  [] OTHER -> "failed"]
  /\ queue' = <<>> /\ conn' = NoClient /\ open' = {}
  /\ UNCHANGED <<requested, idleFor, files, req, sent, taken, late>>

Kill == ~Down /\ Die

\* SIGTERM or SIGINT.  Before the handlers are set it kills; after that it
\* sets a flag, and interrupts a poll() it finds the daemon in (Wake, GiveUp).
Signal ==
  \/ srv \in Booting /\ Die
  \/ /\ srv \in Looping /\ ~requested
     /\ requested' = TRUE
     /\ UNCHANGED <<srv, idleFor, queue, conn, open, files, clientVars, late>>

Tick ==
  /\ ~Down /\ idleFor < IdleTimeout
  /\ srv \notin Booting
  /\ idleFor' = idleFor + 1
  /\ UNCHANGED <<srv, requested, queue, conn, open, files, clientVars, late>>

-----------------------------------------------------------------------------
(* The clients.                                                            *)

\* connect() succeeds while the kernel's queue has room.
Connect(c) ==
  /\ link[c] = "idle" /\ Listening /\ Len(queue) <= Backlog
  /\ link' = [link EXCEPT ![c] = "connected"]
  /\ queue' = Append(queue, c)
  /\ UNCHANGED <<srv, requested, idleFor, conn, open, files, req, sent, taken, late>>

\* The queue is full (EAGAIN) or nobody listens.
ConnectFails(c) ==
  /\ link[c] = "idle" /\ ~(Listening /\ Len(queue) <= Backlog)
  /\ link' = [link EXCEPT ![c] = "failed"]
  /\ UNCHANGED <<srv, requested, idleFor, queue, conn, open, files, req, sent, taken, late>>

\* The request is written, at once or in two parts.
Send(c) ==
  /\ link[c] = "connected" /\ sent[c] # "all"
  /\ \E a \in Amounts \ {"none", sent[c]} : sent' = [sent EXCEPT ![c] = a]
  /\ UNCHANGED <<srv, requested, idleFor, queue, conn, open, files, link, req, taken, late>>

\* The daemon has closed the connection: writing the request fails.
SendFails(c) ==
  /\ link[c] = "shut"
  /\ link' = [link EXCEPT ![c] = "failed"]
  /\ UNCHANGED <<srv, requested, idleFor, queue, conn, open, files, req, sent, taken, late>>

\* The client closes its end, or dies.
Leave(c) ==
  /\ link[c] = "connected"
  /\ link' = [link EXCEPT ![c] = "left"]
  /\ UNCHANGED <<srv, requested, idleFor, queue, conn, open, files, req, sent, taken, late>>

-----------------------------------------------------------------------------
ClientStep(c) ==
  Connect(c) \/ ConnectFails(c) \/ Send(c) \/ SendFails(c) \/ Leave(c)

Next ==
  \/ Load \/ LoadFails \/ Announce
  \/ Stop \/ Wait \/ PollFails \/ Wake \/ Accept
  \/ ReadLength \/ ReadBody \/ GiveUp \/ Handle \/ Write \/ Exit
  \/ Kill \/ Signal \/ Tick
  \/ \E c \in Clients : ClientStep(c)

Spec == Init /\ [][Next]_vars

\* The daemon's thread runs, its queries and reads end, and accept() does not
\* fail for ever; time passes; a client that is not silent sends its
\* request, and one that is not deaf reads its reply.
\* A write to a client that has left fails at once.
Fairness ==
  /\ WF_vars(Load \/ LoadFails) /\ WF_vars(Announce)
  /\ WF_vars(Stop \/ Wait)
  /\ WF_vars(Wake /\ queue = <<>>) /\ SF_vars(Accept)
  /\ WF_vars(ReadLength \/ ReadBody \/ GiveUp)
  /\ WF_vars(Handle) /\ WF_vars(Write /\ (conn \in Deaf => link[conn] = "left")) /\ WF_vars(Exit)
  /\ WF_vars(Tick)
  /\ \A c \in Clients \ Silent : WF_vars(Send(c)) /\ WF_vars(SendFails(c))

FairSpec == Spec /\ Fairness

-----------------------------------------------------------------------------
(* Properties.                                                             *)

\* The daemon stops in an orderly way.  A client whose request was read is
\* answered, unless the daemon is killed: an end of file without a reply, which
\* send() in daemon.ts does not listen for and would wait on for ever, never
\* comes from a daemon that stops on its own, on SIGTERM, on :shutdown or
\* because it was idle.  And after SIGTERM it serves at most one more
\* connection, also when the signal comes between the loop's test of the flag
\* and the poll() that follows, where it interrupts nothing.
StopsOrderly ==
  /\ \A c \in Clients : link[c] = "ended" => srv = "killed"
  /\ late <= 1

\* No connection is lost: one that a client holds open is queued or being
\* served, and between two connections the daemon has none open.
ConnectionsAccounted ==
  /\ \A c \in Clients : link[c] = "connected" => c \in Queued \cup ({conn} \ {NoClient})
  /\ open = {conn} \ {NoClient}
  /\ conn # NoClient <=> srv \in Serving

\* A daemon that has announced itself can be dialled until it ends its loop,
\* and one that ends by itself leaves nothing in the socket directory.
SocketFiles ==
  /\ srv \in Looping => files = {"socket", "pid"}
  /\ srv = "gone" => files = {}

\* A reply is being written to a client that does not read it.  Only the reads
\* have a deadline.
HeldByDeafPeer == srv = "write" /\ conn \in Deaf /\ link[conn] # "left"

\* Every connection comes to an end: served, refused, or dropped after the
\* read deadline however silent the client is; the one thing that can hold the
\* loop for ever is the writing of a reply nobody reads.
ConnectionsEnd ==
  \A c \in Clients : (link[c] = "connected") ~> (link[c] # "connected" \/ HeldByDeafPeer)

\* "Idle self-kill ... survives MCP crash": with nobody left to send it a
\* signal, the daemon ends all the same, unless such a reply holds it.
IdleStops == <>(Down \/ HeldByDeafPeer)
=============================================================================
