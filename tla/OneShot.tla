------------------------------- MODULE OneShot -------------------------------
(***************************************************************************)
(* A one-shot run of TraceDigest (digest.ts, runBinary): the child process,*)
(* the pipe that carries its standard output, the timer that kills it, and *)
(* the promise that its events settle.  What the child prints is counted   *)
(* in chunks; it is looked at when the pipe is closed.                     *)
(***************************************************************************)
EXTENDS Integers, Sequences

CONSTANTS MaxStdout,    \* maxStdoutBytes, in chunks
          MaxWritten,   \* bound: chunks a child writes
          Outputs,      \* outputs of a child that ends well: what it logs before
                        \* and after, and the value it answers with
          Nothing,      \* no value
          Written(_),   \* the text of a value (JsonText)
          Found(_)      \* the value extractTrailingJson finds in a text, or Nothing

ASSUME OneShotAssumption == MaxStdout \in Nat /\ MaxWritten \in Nat

VARIABLES
  child,      \* "none", "failed" to start, "running", "exited" or "closed"
  accepted,   \* it can make sense of its arguments and of the trace
  whole,      \* it has printed its answer
  code,       \* its exit code, -1 when a signal ended it
  written,    \* chunks it has written
  received,   \* chunks that have arrived
  timer,      \* the timer is set
  killedFor,  \* why it was killed: killedForTimeout, killedForOverflow
  promise,    \* "pending", "result", or the error it was rejected with
  printed,    \* the output of the child, once it is looked at
  value       \* the result

oneShotVars ==
  <<child, accepted, whole, code, written, received, timer, killedFor, promise, printed, value>>

Unread == [before |-> <<>>, value |-> Nothing, after |-> <<>>]

OneShotInit ==
  /\ child = "none" /\ accepted = FALSE /\ whole = FALSE /\ code = 0
  /\ written = 0 /\ received = 0 /\ timer = FALSE /\ killedFor = {}
  /\ promise = "pending" /\ printed = Unread /\ value = Nothing

Settle(outcome) == promise' = outcome /\ UNCHANGED <<printed, value>>

-----------------------------------------------------------------------------
(* The server's side.                                                      *)

\* assertExecutable: the binary cannot be run, nothing is started.
NotExecutable ==
  /\ child = "none" /\ promise = "pending"
  /\ Settle("not executable")
  /\ UNCHANGED <<child, accepted, whole, code, written, received, timer, killedFor>>

Spawn(understood) ==
  /\ child = "none" /\ promise = "pending"
  /\ child' \in {"running", "failed"} /\ accepted' = understood /\ timer' = TRUE
  /\ UNCHANGED <<whole, code, written, received, killedFor, promise, printed, value>>

\* "error": there is no child.  The "close" that follows finds the promise settled.
SpawnError ==
  /\ child = "failed"
  /\ child' = "closed" /\ timer' = FALSE /\ Settle("not started")
  /\ UNCHANGED <<accepted, whole, code, written, received, killedFor>>

MutLimitIsTooMuch(chunks) == chunks >= MaxStdout
TooMuch(chunks) == chunks > MaxStdout

\* "data"
Data ==
  /\ received < written
  /\ received' = received + 1
  /\ killedFor' = killedFor \cup (IF TooMuch(received') THEN {"overflow"} ELSE {})
  /\ UNCHANGED <<child, accepted, whole, code, written, timer, promise, printed, value>>

MutTimerOnlyRejects ==
  /\ timer
  /\ timer' = FALSE
  /\ UNCHANGED <<child, accepted, whole, code, written, received, killedFor, promise, printed, value>>
TimerFires ==
  /\ timer
  /\ timer' = FALSE /\ killedFor' = killedFor \cup {"timeout"}
  /\ UNCHANGED <<child, accepted, whole, code, written, received, promise, printed, value>>

\* What "close" makes of what it knows.
MutExitCodeFirst(output) ==
  CASE code = 0 /\ whole -> "result"
    [] "timeout" \in killedFor -> "timed out"
    [] OTHER -> "exit code"
Verdict(output) ==
  IF "timeout" \in killedFor THEN "timed out"
  ELSE IF "overflow" \in killedFor THEN "too much output"
  ELSE IF code # 0 THEN "exit code"
  ELSE IF Found(output) = Nothing THEN "not JSON"
  ELSE "result"

Output(p) == p.before \o Written(p.value) \o p.after

\* "close": the child has ended and all it wrote has arrived.
Close ==
  /\ child = "exited" /\ received = written
  /\ child' = "closed" /\ timer' = FALSE
  /\ printed' \in IF code = 0 THEN Outputs ELSE {Unread}
  /\ promise' = Verdict(Output(printed'))
  /\ value' = IF promise' = "result" THEN Found(Output(printed')) ELSE value
  /\ UNCHANGED <<accepted, whole, code, written, received, killedFor>>

-----------------------------------------------------------------------------
(* The child.                                                              *)

\* It writes log lines, and its answer in one piece when it has one.
Write ==
  /\ child = "running" /\ ~whole /\ written < MaxWritten
  /\ written' = written + 1
  /\ whole' \in IF accepted THEN BOOLEAN ELSE {FALSE}
  /\ UNCHANGED <<child, accepted, code, received, timer, killedFor, promise, printed, value>>

\* main returns 0 only after the answer.
ExitOk ==
  /\ child = "running" /\ whole
  /\ child' = "exited"
  /\ UNCHANGED <<accepted, whole, code, written, received, timer, killedFor, promise, printed, value>>

\* It refuses its arguments, cannot load the trace, or crashes.
ExitFails ==
  /\ child = "running"
  /\ child' = "exited" /\ code' = 1
  /\ UNCHANGED <<accepted, whole, written, received, timer, killedFor, promise, printed, value>>

\* SIGKILL.
Dies ==
  /\ child = "running" /\ killedFor # {}
  /\ child' = "exited" /\ code' = -1
  /\ UNCHANGED <<accepted, whole, written, received, timer, killedFor, promise, printed, value>>

\* The events of the server's loop happen, and a killed process dies; a child
\* need never write or exit of its own accord.
OneShotFairness ==
  /\ WF_oneShotVars(SpawnError) /\ WF_oneShotVars(Data) /\ WF_oneShotVars(TimerFires)
  /\ WF_oneShotVars(Close) /\ WF_oneShotVars(Dies)
=============================================================================
