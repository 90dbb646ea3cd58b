---------------------------- MODULE TraceService ----------------------------
(***************************************************************************)
(* What the daemon layer promises its callers, without daemons.            *)
(*                                                                         *)
(* A caller asks about a trace file.  The call settles at most once, and a *)
(* query that is answered is answered from contents the file had at some   *)
(* moment between the call looking at the file and the answer: never from  *)
(* a version older than the one the caller could see.  A call may also     *)
(* settle without trace data (an error, an unload, a control command), or  *)
(* stay pending.                                                           *)
(*                                                                         *)
(* DaemonRegistry implements this specification; there the promise rests   *)
(* on the daemon's key, "path and mtime", and on what becomes of a daemon  *)
(* whose key is out of date.                                               *)
(***************************************************************************)
EXTENDS Naturals

CONSTANTS Calls,       \* the calls made over the life of the server
          Files,       \* the trace files on disk
          MaxVersion   \* bound: how often a file may be rewritten

VARIABLES version,     \* version[f]: the current contents of file f
          state,       \* state[c]: how far the call has come
          about,       \* about[c]: the file a pending call is about
          floor,       \* floor[c]: the version the call saw when it began
          got          \* got[c]: the version it was answered from, or 0

serviceVars == <<version, state, about, floor, got>>

Versions == 1 .. MaxVersion

Init ==
  /\ version = [f \in Files |-> 1]
  /\ state = [c \in Calls |-> "idle"]
  /\ about \in [Calls -> Files]
  /\ floor = [c \in Calls |-> 1]
  /\ got = [c \in Calls |-> 0]

\* Somebody captures the trace again.
Rewrite(f) ==
  /\ version[f] < MaxVersion
  /\ version' = [version EXCEPT ![f] = @ + 1]
  /\ UNCHANGED <<state, about, floor, got>>

Ask(c, f) ==
  /\ state[c] = "idle"
  /\ state' = [state EXCEPT ![c] = "pending"]
  /\ about' = [about EXCEPT ![c] = f]
  /\ floor' = [floor EXCEPT ![c] = version[f]]
  /\ UNCHANGED <<version, got>>

Answer(c) ==
  /\ state[c] = "pending"
  /\ \E v \in floor[c] .. version[about[c]] : got' = [got EXCEPT ![c] = v]
  /\ state' = [state EXCEPT ![c] = "answered"]
  /\ UNCHANGED <<version, about, floor>>

\* The call ends with an error or with something other than trace data.
Settle(c) ==
  /\ state[c] \in {"idle", "pending"}
  /\ state' = [state EXCEPT ![c] = "settled"]
  /\ UNCHANGED <<version, about, floor, got>>

Next ==
  \/ \E f \in Files : Rewrite(f)
  \/ \E c \in Calls : \/ \E f \in Files : Ask(c, f)
                      \/ Answer(c)
                      \/ Settle(c)

Spec == Init /\ [][Next]_serviceVars
=============================================================================
