------------------------- MODULE DaemonServerProofs --------------------------
(***************************************************************************)
(* Theorems about DaemonServer, for any number of clients, any backlog and *)
(* any idle timeout.                                                       *)
(***************************************************************************)
EXTENDS DaemonServer, SequenceTheorems, FiniteSetTheorems, TLAPS

-----------------------------------------------------------------------------
(* The queue.                                                              *)

\* The members of a sequence.
Members(q) == {q[i] : i \in 1 .. Len(q)}

\* No client is queued twice.
Once(q) == \A i, j \in 1 .. Len(q) : q[i] = q[j] => i = j

\* A client is added at the end.
LEMMA QueueAppend ==
  ASSUME NEW q \in Seq(Clients), NEW c \in Clients
  PROVE  /\ Append(q, c) \in Seq(Clients)
         /\ Len(Append(q, c)) = Len(q) + 1
         /\ Members(Append(q, c)) = Members(q) \cup {c}
         /\ Once(q) /\ c \notin Members(q) => Once(Append(q, c))
  <1>1. /\ Append(q, c) \in Seq(Clients)
        /\ Len(Append(q, c)) = Len(q) + 1
        /\ \A i \in 1 .. Len(q) : Append(q, c)[i] = q[i]
        /\ Append(q, c)[Len(q) + 1] = c
    BY AppendProperties
  <1>2. Len(q) \in Nat
    BY LenProperties
  <1>3. Members(Append(q, c)) = Members(q) \cup {c}
    <2>1. \A i \in 1 .. Len(q) + 1 : i \in 1 .. Len(q) \/ i = Len(q) + 1
      BY <1>2
    <2>2. 1 .. Len(q) \subseteq 1 .. Len(q) + 1 /\ Len(q) + 1 \in 1 .. Len(q) + 1
      BY <1>2
    <2>3. QED
      BY <1>1, <2>1, <2>2 DEF Members
  <1>4. Once(q) /\ c \notin Members(q) => Once(Append(q, c))
    BY <1>1, <1>2 DEF Once, Members
  <1>5. QED
    BY <1>1, <1>3, <1>4

\* The oldest is taken.
LEMMA QueueTail ==
  ASSUME NEW q \in Seq(Clients), q # << >>
  PROVE  /\ Head(q) \in Clients /\ Tail(q) \in Seq(Clients)
         /\ Len(Tail(q)) = Len(q) - 1
         /\ Members(q) = {Head(q)} \cup Members(Tail(q))
         /\ Once(q) => Once(Tail(q)) /\ Head(q) \notin Members(Tail(q))
  <1>1. /\ Head(q) \in Clients /\ Tail(q) \in Seq(Clients)
        /\ Len(Tail(q)) = Len(q) - 1 /\ Head(q) = q[1]
        /\ \A i \in 1 .. Len(Tail(q)) : Tail(q)[i] = q[i + 1]
    BY HeadTailProperties
  <1>2. Len(q) \in Nat \ {0}
    BY EmptySeq, LenProperties
  <1>3. Members(q) = {Head(q)} \cup Members(Tail(q))
    <2>1. ASSUME NEW i \in 1 .. Len(q) PROVE q[i] \in {Head(q)} \cup Members(Tail(q))
      <3>1. CASE i = 1
        BY <1>1, <3>1
      <3>2. CASE i # 1
        <4>1. i - 1 \in 1 .. Len(Tail(q)) /\ (i - 1) + 1 = i
          BY <1>1, <1>2, <3>2
        <4>2. QED
          BY <1>1, <4>1 DEF Members
      <3>3. QED
        BY <3>1, <3>2
    <2>2. ASSUME NEW i \in 1 .. Len(Tail(q)) PROVE Tail(q)[i] \in Members(q)
      <3>1. i + 1 \in 1 .. Len(q)
        BY <1>1, <1>2
      <3>2. QED
        BY <1>1, <3>1 DEF Members
    <2>3. Head(q) \in Members(q)
      BY <1>1, <1>2 DEF Members
    <2>4. QED
      BY <2>1, <2>2, <2>3 DEF Members
  <1>4. ASSUME Once(q) PROVE Once(Tail(q)) /\ Head(q) \notin Members(Tail(q))
    BY <1>1, <1>2, <1>4 DEF Once, Members
  <1>5. QED
    BY <1>1, <1>3, <1>4
-----------------------------------------------------------------------------
(* The inductive invariant.                                                *)

\* TypeOK, with what is known of late in place of its coarse bound.
Types ==
  /\ srv \in Booting \cup Looping \cup {"gone", "killed"}
  /\ requested \in BOOLEAN
  /\ idleFor \in 0 .. IdleTimeout
  /\ queue \in Seq(Clients) /\ Len(queue) <= Backlog + 1
  /\ conn \in Clients \cup {NoClient}
  /\ open \subseteq Clients
  /\ files \subseteq {"socket", "pid"}
  /\ link \in [Clients -> Links]
  /\ req \in [Clients -> {"query", "shutdown", "oversized"}]
  /\ sent \in [Clients -> Amounts]
  /\ taken \in [Clients -> Amounts]

\* A client is queued once and served once: nothing has been read from a
\* client that has not been accepted, and not all of its request from one
\* whose request is being read.
FlowInv ==
  /\ Once(queue)
  /\ \A c \in Clients : link[c] = "idle" => c \notin Queued /\ c # conn
  /\ \A c \in Clients : link[c] = "idle" \/ c \in Queued => taken[c] = "none"
  /\ \A c \in Queued : c # conn
  /\ srv \in {"len", "body"} => taken[conn] # "all"

\* A signal lets at most the poll() that has not returned yet accept one more
\* connection.
LateInv ==
  /\ late \in {0, 1}
  /\ late = 1 => requested /\ srv # "poll" /\ Clients # {}

\* The files at every stage of the daemon's life.
FilesInv ==
  /\ srv = "loading" => files = {}
  /\ srv = "bound" => files = {"socket"}
  /\ SocketFiles

IInv == Types /\ FlowInv /\ LateInv /\ FilesInv /\ ConnectionsAccounted /\ StopsOrderly

\* The members of the queue.
LEMMA QueuedMembers == Queued = Members(queue)
  BY DEF Queued, Members

\* The invariant at the start.
LEMMA InvInit == Init => IInv
  <1> SUFFICES ASSUME Init PROVE IInv
    OBVIOUS
  <1>1. queue = << >> /\ queue \in Seq(Clients) /\ Len(queue) = 0 /\ Queued = {}
    BY DEF Init, Queued
  <1>2. Types
    <2>1. req \in [Clients -> {"query", "shutdown", "oversized"}]
      BY ServerAssumption DEF Init, ServerAssumption
    <2>2. Len(queue) <= Backlog + 1 /\ idleFor \in 0 .. IdleTimeout
      BY <1>1, ServerAssumption DEF Init, ServerAssumption
    <2>3. QED
      BY <1>1, <2>1, <2>2 DEF Init, Types, Booting, Links, Amounts
  <1>3. srv = "loading" /\ srv \notin Looping \cup Serving \cup {"gone", "killed", "poll", "exit", "bound"}
    BY DEF Init, Looping, Serving
  <1>4. FlowInv
    BY <1>1, ServerAssumption, <1>3 DEF Init, FlowInv, Once, ServerAssumption
  <1>5. LateInv /\ FilesInv
    BY <1>3 DEF Init, LateInv, FilesInv, SocketFiles
  <1>6. ConnectionsAccounted
    BY <1>1, <1>3 DEF Init, ConnectionsAccounted
  <1>7. StopsOrderly
    BY DEF Init, StopsOrderly
  <1>8. QED
    BY <1>2, <1>4, <1>5, <1>6, <1>7 DEF IInv

-----------------------------------------------------------------------------
(* Steps of the daemon's thread that move it on and touch no connection.   *)

\* The thread moves between places where it serves nobody.
LEMMA MoveStep ==
  ASSUME IInv, srv \notin Serving, srv' \notin Serving,
         srv' \in Booting \cup Looping \cup {"gone", "killed"},
         UNCHANGED <<requested, idleFor, queue, conn, open, clientVars, late>>,
         files' \subseteq {"socket", "pid"}, FilesInv',
         srv = "killed" => srv' = "killed",
         srv' = "poll" => ~requested \/ srv = "poll"
  PROVE  IInv'
  <1> USE DEF IInv
  <1>1. Types'
    BY DEF Types, clientVars
  <1>2. FlowInv'
    BY DEF FlowInv, Queued, clientVars, Serving
  <1>3. LateInv'
    BY DEF LateInv
  <1>4. ConnectionsAccounted'
    BY DEF ConnectionsAccounted, Queued, clientVars
  <1>5. StopsOrderly'
    BY DEF StopsOrderly, clientVars
  <1>6. QED
    BY <1>1, <1>2, <1>3, <1>4, <1>5

\* The thread serves the same connection on, having taken more of its request.
LEMMA ServeStep ==
  ASSUME IInv, srv \in Serving, srv' \in Serving, conn \in Clients, NEW a \in Amounts,
         taken' = [taken EXCEPT ![conn] = a], srv' \in {"len", "body"} => a # "all",
         UNCHANGED <<requested, idleFor, queue, conn, open, files, link, req, sent, late>>
  PROVE  IInv'
  <1> USE DEF IInv
  <1>1. Types'
    BY DEF Types, Looping
  <1>2. FlowInv'
    BY DEF FlowInv, Queued, Types
  <1>3. LateInv'
    BY DEF LateInv, Serving
  <1>4. ConnectionsAccounted'
    BY DEF ConnectionsAccounted, Queued
  <1>5. StopsOrderly'
    BY DEF StopsOrderly, Serving
  <1>6. FilesInv'
    BY DEF FilesInv, SocketFiles, Looping, Serving
  <1>7. QED
    BY <1>1, <1>2, <1>3, <1>4, <1>5, <1>6

\* The thread closes the connection it serves, and its client does not see an
\* orderly end without a reply.
LEMMA CloseStep ==
  ASSUME IInv, srv \in Serving, srv' \in {"top", "exit"}, NEW o \in Links \ {"idle", "connected", "ended"},
         Close(o), idleFor' \in 0 .. IdleTimeout,
         taken' \in [Clients -> Amounts], \A c \in Clients \ {conn} : taken'[c] = taken[c],
         UNCHANGED <<requested, queue, files, req, sent, late>>
  PROVE  IInv'
  <1> USE DEF IInv
  <1>1. /\ conn \in Clients /\ conn' = NoClient /\ open' = {}
        /\ \A c \in Clients \ {conn} : link'[c] = link[c]
        /\ link'[conn] \notin {"connected"}
        /\ link[conn] # "idle" => link'[conn] # "idle"
        /\ link[conn] # "ended" => link'[conn] # "ended"
    BY DEF Close, ConnectionsAccounted, Types
  <1>2. link[conn] # "idle" /\ conn \notin Queued
    BY <1>1 DEF FlowInv, Types
  <1>3. Types'
    BY <1>1 DEF Types, Close, Looping
  <1>4. FlowInv'
    BY <1>1, <1>2, ServerAssumption DEF FlowInv, Queued, ServerAssumption, Types
  <1>5. LateInv'
    BY DEF LateInv
  <1>6. ConnectionsAccounted'
    BY <1>1, <1>2 DEF ConnectionsAccounted, Queued, Serving
  <1>7. StopsOrderly'
    BY <1>1 DEF StopsOrderly, Serving
  <1>8. FilesInv'
    BY DEF FilesInv, SocketFiles, Looping, Serving
  <1>9. QED
    BY <1>3, <1>4, <1>5, <1>6, <1>7, <1>8

\* The oldest connection of the queue is accepted.
LEMMA AcceptStep ==
  ASSUME IInv, Accept
  PROVE  IInv'
  <1> USE DEF IInv
  <1>1. /\ Head(queue) \in Clients /\ Tail(queue) \in Seq(Clients)
        /\ Len(Tail(queue)) = Len(queue) - 1
        /\ Queued = {Head(queue)} \cup Members(Tail(queue))
        /\ Once(Tail(queue)) /\ Head(queue) \notin Members(Tail(queue))
    BY QueueTail, QueuedMembers DEF Accept, Types, FlowInv
  <1>2. /\ conn' = Head(queue) /\ queue' = Tail(queue) /\ srv = "poll" /\ srv' = "len"
        /\ open' = open \cup {Head(queue)}
        /\ UNCHANGED <<requested, idleFor, files, link, req, sent, taken>>
    BY DEF Accept, clientVars
  <1>3. Queued' = Members(Tail(queue))
    BY <1>2 DEF Queued, Members
  <1>4. conn = NoClient /\ open = {} /\ NoClient \notin Clients
    BY <1>2, ServerAssumption DEF ConnectionsAccounted, Serving, ServerAssumption
  <1>5. Types'
    <2>1. Len(Tail(queue)) <= Backlog + 1
      BY <1>1, LenProperties, ServerAssumption DEF Types, ServerAssumption
    <2>2. QED
      BY <1>1, <1>2, <1>4, <2>1 DEF Types, Looping, Serving
  <1>6. FlowInv'
    BY <1>1, <1>2, <1>3, <1>4 DEF FlowInv
  <1>7. LateInv'
    BY <1>1, <1>2 DEF Accept, LateInv
  <1>8. ConnectionsAccounted'
    BY <1>1, <1>2, <1>3, <1>4 DEF ConnectionsAccounted, Serving
  <1>9. StopsOrderly'
    BY <1>2, <1>7 DEF StopsOrderly, LateInv
  <1>10. FilesInv'
    BY <1>2 DEF FilesInv, SocketFiles, Looping, Serving
  <1>11. QED
    BY <1>5, <1>6, <1>7, <1>8, <1>9, <1>10

-----------------------------------------------------------------------------
(* The other steps.                                                        *)

\* Nothing that is not in the queue is in an empty one.
LEMMA EmptyQueue ==
  ASSUME queue' = << >>
  PROVE  queue' \in Seq(Clients) /\ Len(queue') = 0 /\ Queued' = {} /\ Once(queue')
  BY DEF Queued, Once

\* The process ends on the spot.
LEMMA DieStep ==
  ASSUME IInv, Die
  PROVE  IInv'
  <1> USE DEF IInv
  <1>1. srv' = "killed" /\ conn' = NoClient /\ open' = {} /\ queue' = << >>
    BY DEF Die
  <1>2. \A c \in Clients : ClosedWithoutReply(c) \in {"failed", "ended", "shut"}
    BY DEF ClosedWithoutReply
  <1>3. /\ link' \in [Clients -> Links]
        /\ \A c \in Clients : link'[c] # "connected" /\ (link'[c] = "idle" => link[c] = "idle")
    BY <1>2 DEF Die, Types, Links
  <1>4. Types'
    BY <1>1, <1>3, EmptyQueue, ServerAssumption DEF Die, Types, ServerAssumption
  <1>5. FlowInv'
    BY <1>1, <1>3, EmptyQueue, ServerAssumption DEF Die, FlowInv, ServerAssumption
  <1>6. LateInv'
    BY <1>1 DEF Die, LateInv
  <1>7. FilesInv'
    BY <1>1 DEF FilesInv, SocketFiles, Looping, Serving
  <1>8. ConnectionsAccounted'
    BY <1>1, <1>3 DEF ConnectionsAccounted, Serving
  <1>9. StopsOrderly'
    BY <1>1, <1>6 DEF StopsOrderly, LateInv
  <1>10. QED
    BY <1>4, <1>5, <1>6, <1>7, <1>8, <1>9

\* The loop has ended and the daemon cleans up.
LEMMA ExitStep ==
  ASSUME IInv, Exit
  PROVE  IInv'
  <1> USE DEF IInv
  <1>1. srv = "exit" /\ srv' = "gone" /\ conn = NoClient /\ conn' = NoClient /\ open = {} /\ open' = {}
        /\ queue' = << >> /\ files' = {}
    BY DEF Exit, ConnectionsAccounted, Serving
  <1>2. /\ link' \in [Clients -> Links]
        /\ \A c \in Clients : /\ link'[c] # "connected"
                              /\ link'[c] = "idle" => link[c] = "idle"
                              /\ link'[c] = "ended" => link[c] = "ended"
    BY <1>1 DEF Exit, Types, Links, ConnectionsAccounted
  <1>3. Types'
    BY <1>1, <1>2, EmptyQueue, ServerAssumption DEF Exit, Types, ServerAssumption
  <1>4. FlowInv'
    BY <1>1, <1>2, EmptyQueue, ServerAssumption DEF Exit, FlowInv, ServerAssumption
  <1>5. LateInv'
    BY <1>1 DEF Exit, LateInv
  <1>6. FilesInv'
    BY <1>1 DEF FilesInv, SocketFiles, Looping, Serving
  <1>7. ConnectionsAccounted'
    BY <1>1, <1>2 DEF ConnectionsAccounted, Serving
  <1>8. StopsOrderly'
    BY <1>1, <1>2, <1>5 DEF StopsOrderly, LateInv
  <1>9. QED
    BY <1>3, <1>4, <1>5, <1>6, <1>7, <1>8

\* A client changes what it sees or sends, and its place in the daemon's books
\* stays what it was.
LEMMA ClientMoves ==
  ASSUME IInv, NEW c \in Clients, NEW o \in Links \ {"idle", "connected", "ended"},
         link' = [link EXCEPT ![c] = o] \/ link' = link,
         sent' \in [Clients -> Amounts],
         link[c] = "idle" => srv \notin {"len", "body"} \/ c # conn,
         UNCHANGED <<srv, requested, idleFor, queue, conn, open, files, req, taken, late>>
  PROVE  IInv'
  <1> USE DEF IInv
  <1>1. /\ \A d \in Clients : /\ link'[d] = "connected" => link[d] = "connected"
                              /\ link'[d] = "ended" => link[d] = "ended"
                              /\ link'[d] = "idle" => link[d] = "idle"
        /\ link' \in [Clients -> Links]
    BY DEF Types
  <1>2. Types'
    BY <1>1 DEF Types
  <1>3. FlowInv'
    BY <1>1 DEF FlowInv, Queued
  <1>4. LateInv'
    BY DEF LateInv
  <1>5. FilesInv'
    BY DEF FilesInv, SocketFiles
  <1>6. ConnectionsAccounted'
    BY <1>1 DEF ConnectionsAccounted, Queued
  <1>7. StopsOrderly'
    BY <1>1 DEF StopsOrderly
  <1>8. QED
    BY <1>2, <1>3, <1>4, <1>5, <1>6, <1>7

\* A client connects: it is queued, and was not before.
LEMMA ConnectStep ==
  ASSUME IInv, NEW c \in Clients, Connect(c)
  PROVE  IInv'
  <1> USE DEF IInv
  <1>1. /\ queue' = Append(queue, c) /\ Len(queue) <= Backlog /\ link[c] = "idle"
        /\ UNCHANGED <<srv, requested, idleFor, conn, open, files, req, sent, taken, late>>
    BY DEF Connect
  <1>2. c \notin Queued /\ c # conn /\ taken[c] = "none"
    BY <1>1 DEF FlowInv
  <1>3. /\ queue' \in Seq(Clients) /\ Len(queue') = Len(queue) + 1
        /\ Queued' = Queued \cup {c} /\ Once(queue')
    <2>1. Queued' = Members(queue')
      BY DEF Queued, Members
    <2>2. QED
      BY <1>1, <1>2, <2>1, QueueAppend, QueuedMembers DEF Types, FlowInv
  <1>4. /\ link' \in [Clients -> Links] /\ link'[c] = "connected"
        /\ \A d \in Clients \ {c} : link'[d] = link[d]
    BY DEF Connect, Types, Links
  <1>5. Types'
    <2>1. Len(queue') <= Backlog + 1
      BY <1>1, <1>3, LenProperties, ServerAssumption DEF Types, ServerAssumption
    <2>2. QED
      BY <1>1, <1>3, <1>4, <2>1 DEF Types
  <1>6. FlowInv'
    BY <1>1, <1>2, <1>3, <1>4 DEF FlowInv
  <1>7. LateInv'
    BY <1>1 DEF LateInv
  <1>8. FilesInv'
    BY <1>1 DEF FilesInv, SocketFiles
  <1>9. ConnectionsAccounted'
    BY <1>1, <1>3, <1>4 DEF ConnectionsAccounted
  <1>10. StopsOrderly'
    BY <1>1, <1>4 DEF StopsOrderly
  <1>11. QED
    BY <1>5, <1>6, <1>7, <1>8, <1>9, <1>10

\* The flag is set or time passes; nothing else changes.
LEMMA ClockStep ==
  ASSUME IInv, requested' \in {requested, TRUE}, idleFor' \in 0 .. IdleTimeout,
         UNCHANGED <<srv, queue, conn, open, files, clientVars, late>>
  PROVE  IInv'
  <1> USE DEF IInv
  <1>1. Types'
    BY DEF Types, clientVars
  <1>2. FlowInv' /\ ConnectionsAccounted'
    BY DEF FlowInv, ConnectionsAccounted, Queued, clientVars
  <1>3. LateInv' /\ FilesInv' /\ StopsOrderly'
    BY DEF LateInv, FilesInv, SocketFiles, StopsOrderly, clientVars
  <1>4. QED
    BY <1>1, <1>2, <1>3

-----------------------------------------------------------------------------
(* Every step.                                                             *)

\* Every step of the daemon, its clients and the kernel keeps the
\* invariant.
LEMMA InvStep == IInv /\ [Next]_vars => IInv'
  <1> SUFFICES ASSUME IInv, [Next]_vars PROVE IInv'
    OBVIOUS
  <1>1. /\ srv \in Serving <=> conn # NoClient
        /\ srv \in Serving => conn \in Clients
        /\ Types /\ FlowInv /\ LateInv /\ FilesInv
    BY DEF IInv, ConnectionsAccounted, Types
  <1>2. CASE Load \/ LoadFails \/ Announce
    <2>1. srv \notin Serving /\ srv' \in {"bound", "gone", "top"} /\ srv # "killed"
          /\ files' \subseteq {"socket", "pid"} /\ FilesInv'
          /\ UNCHANGED <<requested, idleFor, queue, conn, open, clientVars, late>>
      BY <1>1, <1>2 DEF Load, LoadFails, Announce, Serving, Looping, FilesInv, SocketFiles
    <2>2. srv' \notin Serving /\ srv' \in Booting \cup Looping \cup {"gone", "killed"} /\ srv' # "poll"
      BY <2>1 DEF Serving, Booting, Looping
    <2>3. QED
      BY <2>1, <2>2, MoveStep
  <1>3. CASE Stop \/ Wait \/ PollFails \/ Wake
    <2>1. srv \in {"top", "poll"} /\ srv' \in {"top", "poll", "exit"} /\ srv # "killed"
          /\ UNCHANGED <<requested, idleFor, queue, conn, open, files, clientVars, late>>
          /\ (srv' = "poll" => ~requested)
      BY <1>3 DEF Stop, Wait, PollFails, Wake, LoopEnds
    <2>2. /\ srv \notin Serving /\ srv \in Looping /\ srv' \notin Serving /\ srv' \in Looping
          /\ srv' \notin {"gone", "loading", "bound"}
      BY <2>1 DEF Serving, Looping
    <2>3. FilesInv' /\ files' \subseteq {"socket", "pid"}
      BY <1>1, <2>1, <2>2 DEF FilesInv, SocketFiles, Types
    <2>4. QED
      BY <2>1, <2>2, <2>3, MoveStep
  <1>4. CASE Accept
    BY <1>4, AcceptStep
  <1>5. CASE ReadLength
    <2>1. srv = "len" /\ conn \in Clients /\ taken' = [taken EXCEPT ![conn] = "length"]
      BY <1>1, <1>5 DEF ReadLength, Serving
    <2>2. CASE req[conn] # "oversized"
      BY <1>5, <2>1, <2>2, ServeStep DEF ReadLength, Serving, Amounts
    <2>3. CASE req[conn] = "oversized"
      <3>1. PICK o \in {"failed", "shut"} : Close(o)
        BY <1>5, <2>3 DEF ReadLength
      <3>2. taken' \in [Clients -> Amounts] /\ \A c \in Clients \ {conn} : taken'[c] = taken[c]
        BY <1>1, <2>1 DEF Types, Amounts
      <3>3. o \in Links \ {"idle", "connected", "ended"}
        BY DEF Links
      <3>4. /\ srv' = "top" /\ idleFor' \in 0 .. IdleTimeout
            /\ UNCHANGED <<requested, queue, files, req, sent, late>>
        BY <1>1, <1>5, <2>3 DEF ReadLength, Types
      <3>5. QED
        BY <2>1, <3>1, <3>2, <3>3, <3>4, CloseStep DEF Serving
    <2>4. QED
      BY <2>2, <2>3
  <1>6. CASE ReadBody
    <2>1. srv = "body" /\ srv' = "handle" /\ conn \in Clients /\ taken' = [taken EXCEPT ![conn] = "all"]
          /\ UNCHANGED <<requested, idleFor, queue, conn, open, files, link, req, sent, late>>
      BY <1>1, <1>6 DEF ReadBody, Serving
    <2>2. QED
      BY <2>1, ServeStep DEF Serving, Amounts
  <1>7. CASE GiveUp
    <2>1. srv \in {"len", "body"} /\ conn \in Clients /\ taken[conn] # "all" /\ srv' = "top"
      BY <1>1, <1>7 DEF GiveUp, Serving, FlowInv
    <2>2. ClosedWithoutReply(conn) \in {"failed", "shut"}
      BY <2>1 DEF ClosedWithoutReply
    <2>3. PICK o \in {"failed", "shut"} : Close(o)
      BY <1>7, <2>2 DEF GiveUp, CloseUnanswered
    <2>4. o \in Links \ {"idle", "connected", "ended"}
      BY DEF Links
    <2>5. /\ UNCHANGED <<requested, queue, files, req, sent, late>>
          /\ idleFor' \in 0 .. IdleTimeout /\ taken' = taken /\ taken' \in [Clients -> Amounts]
      BY <1>1, <1>7 DEF GiveUp, Types
    <2>6. QED
      BY <2>1, <2>3, <2>4, <2>5, CloseStep DEF Serving
  <1>8. CASE Handle
    <2>1. srv = "handle" /\ srv' = "write" /\ conn \in Clients
          /\ UNCHANGED <<requested, idleFor, queue, conn, open, files, link, req, sent, taken, late>>
      BY <1>1, <1>8 DEF Handle, Serving, clientVars
    <2>2. taken' = [taken EXCEPT ![conn] = taken[conn]] /\ taken[conn] \in Amounts
      BY <1>1, <2>1 DEF Types
    <2>3. QED
      BY <2>1, <2>2, ServeStep DEF Serving
  <1>9. CASE Write
    <2>1. srv = "write" /\ srv' \in {"top", "exit"} /\ Close("answered") /\ idleFor' = 0
          /\ UNCHANGED <<requested, queue, files, req, sent, taken, late>>
      BY <1>9 DEF Write
    <2>2. 0 \in 0 .. IdleTimeout /\ taken' \in [Clients -> Amounts]
      BY <1>1, <2>1, ServerAssumption DEF ServerAssumption, Types
    <2>3. "answered" \in Links \ {"idle", "connected", "ended"}
      BY DEF Links
    <2>4. QED
      BY <2>1, <2>2, <2>3, CloseStep DEF Serving
  <1>10. CASE Exit
    BY <1>10, ExitStep
  <1>11. CASE Kill
    BY <1>11, DieStep DEF Kill
  <1>12. CASE Signal
    <2>1. CASE Die
      BY <2>1, DieStep
    <2>2. CASE requested' = TRUE /\ UNCHANGED <<srv, idleFor, queue, conn, open, files, clientVars, late>>
      BY <1>1, <2>2, ClockStep DEF Types
    <2>3. QED
      BY <1>12, <2>1, <2>2 DEF Signal
  <1>13. CASE Tick
    <2>1. idleFor' \in 0 .. IdleTimeout
      BY <1>1, <1>13, ServerAssumption DEF Tick, Types, ServerAssumption
    <2>2. QED
      BY <1>13, <2>1, ClockStep DEF Tick
  <1>14. ASSUME NEW c \in Clients, ClientStep(c) PROVE IInv'
    <2>1. CASE Connect(c)
      BY <2>1, ConnectStep
    <2>2. CASE ConnectFails(c) \/ SendFails(c) \/ Leave(c)
      <3>1. PICK o \in {"failed", "left"} : link' = [link EXCEPT ![c] = o]
        BY <2>2 DEF ConnectFails, SendFails, Leave
      <3>2. o \in Links \ {"idle", "connected", "ended"}
        BY DEF Links
      <3>3. UNCHANGED <<srv, requested, idleFor, queue, conn, open, files, req, sent, taken, late>>
        BY <2>2 DEF ConnectFails, SendFails, Leave
      <3>4. sent' \in [Clients -> Amounts] /\ (link[c] = "idle" => c # conn)
        BY <1>1, <3>3 DEF Types, FlowInv
      <3>5. QED
        BY <3>1, <3>2, <3>3, <3>4, ClientMoves
    <2>3. CASE Send(c)
      <3>1. link' = link /\ UNCHANGED <<srv, requested, idleFor, queue, conn, open, files, req, taken, late>>
        BY <2>3 DEF Send
      <3>2. sent' \in [Clients -> Amounts] /\ (link[c] = "idle" => c # conn)
        BY <1>1, <2>3 DEF Send, Types, FlowInv
      <3>3. "failed" \in Links \ {"idle", "connected", "ended"}
        BY DEF Links
      <3>4. QED
        BY <3>1, <3>2, <3>3, ClientMoves
    <2>4. QED
      BY <1>14, <2>1, <2>2, <2>3 DEF ClientStep
  <1>15. CASE UNCHANGED vars
    <2>1. requested' = requested /\ idleFor' \in 0 .. IdleTimeout
          /\ UNCHANGED <<srv, queue, conn, open, files, clientVars, late>>
      BY <1>1, <1>15 DEF vars, Types
    <2>2. QED
      BY <2>1, ClockStep
  <1>16. QED
    BY <1>2, <1>3, <1>4, <1>5, <1>6, <1>7, <1>8, <1>9, <1>10, <1>11, <1>12, <1>13, <1>14, <1>15 DEF Next

\* The invariant holds in every reachable state.
LEMMA Inductive == Spec => []IInv
  BY InvInit, InvStep, PTL DEF Spec

-----------------------------------------------------------------------------
(* The theorems.                                                           *)

\* The types of the variables.
THEOREM TypeCorrect == Spec => []TypeOK
  <1>1. ASSUME IInv PROVE TypeOK
    <2>1. late \in 0 .. Cardinality(Clients)
      <3>1. Cardinality(Clients) \in Nat
        BY FS_CardinalityType, ServerAssumption DEF ServerAssumption
      <3>2. CASE late = 0
        BY <3>1, <3>2
      <3>3. CASE late = 1
        <4>1. Cardinality(Clients) # 0
          BY <1>1, <3>3, FS_EmptySet, ServerAssumption DEF IInv, LateInv, ServerAssumption
        <4>2. QED
          BY <3>1, <3>3, <4>1
      <3>4. QED
        BY <1>1, <3>2, <3>3 DEF IInv, LateInv
    <2>2. QED
      BY <1>1, <2>1 DEF IInv, Types, TypeOK
  <1>2. QED
    BY <1>1, Inductive, PTL

\* The daemon stops in an orderly way, with any number of clients: whoever had
\* its request read gets a reply unless the daemon is killed, and after
\* SIGTERM at most one more connection is served.  daemon.ts relies on it:
\* send() does not listen for an end of file without a reply.
THEOREM EndsInOrder == Spec => []StopsOrderly
  <1>1. IInv => StopsOrderly
    BY DEF IInv
  <1>2. QED
    BY <1>1, Inductive, PTL

\* No connection is lost and none is left open between two others.
THEOREM NoConnectionLost == Spec => []ConnectionsAccounted
  <1>1. IInv => ConnectionsAccounted
    BY DEF IInv
  <1>2. QED
    BY <1>1, Inductive, PTL

\* The socket and the pid file exist while the loop runs, and a daemon that
\* ends by itself has removed them.
THEOREM FilesMatch == Spec => []SocketFiles
  <1>1. IInv => SocketFiles
    BY DEF IInv, FilesInv
  <1>2. QED
    BY <1>1, Inductive, PTL

=============================================================================
