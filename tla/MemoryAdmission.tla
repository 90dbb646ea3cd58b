--------------------------- MODULE MemoryAdmission ---------------------------
(***************************************************************************)
(* The check of memory before a spawn (memory.ts, checkAdmission), in place*)
(* of the free choice DaemonRegistry leaves: what a load is estimated to   *)
(* take is compared with what /proc/meminfo says is available, and every   *)
(* daemon that lives holds some of it.                                     *)
(*                                                                         *)
(* A daemon is taken to need what it was estimated to need: that a trace   *)
(* takes four times its size is the code's assumption, not the model's.    *)
(***************************************************************************)
EXTENDS DaemonRegistry, Integers, FiniteSetsExt

CONSTANTS FileMb,       \* FileMb[k]: the size of the contents that key k names
          TotalMb,      \* what there is for daemons and for what stays free
          MinFreeMb,    \* TRACE_MIN_FREE_MB
          MaxDaemonMb,  \* TRACE_MAX_DAEMON_MB, not positive for none
          Linux         \* there is a /proc/meminfo to read

ASSUME MemoryAssumption ==
  /\ FileMb \in [Key -> Nat] /\ TotalMb \in Nat /\ MinFreeMb \in Nat
  /\ MaxDaemonMb \in Int /\ Linux \in BOOLEAN

VARIABLE estimate   \* estimate[d]: what child d was admitted with

memoryVars == <<vars, estimate>>

Unknown == -1

Greater(a, b) == IF a >= b THEN a ELSE b

\* The file may be gone by now; nothing is loaded then.
estimateTraceMemoryMb(f) == {Unknown, Greater(64, 4 * FileMb[KeyOf(f)])}

TotalOf(children) == MapThenSumSet(LAMBDA d : estimate[d], children)

\* MemAvailable: a daemon that has loaded holds what it needs, one that still
\* loads has taken any part of it, at worst none.  It is a number of kB and
\* never negative; a negative one stands for a reading that failed.
readSystemMemory ==
  LET loadedOnes == {d \in Calls : proc[d] = "listening"}
      starting   == {d \in Calls : proc[d] = "starting"}
  IN  IF Linux THEN {Greater(TotalMb - TotalOf(loadedOnes \cup grown), 0) : grown \in SUBSET starting}
      ELSE {Unknown}

MutForgetsTheLoad(mb, available) ==
  \/ mb < 0 \/ available < 0
  \/ (MaxDaemonMb > 0 => mb <= MaxDaemonMb) /\ available >= MinFreeMb
Fits(mb, available) ==
  \/ mb < 0 \/ available < 0
  \/ (MaxDaemonMb > 0 => mb <= MaxDaemonMb) /\ available - mb >= MinFreeMb

MemoryInit == Init /\ estimate = [d \in Calls |-> 0]

\* The registry's next step for a call that waits for the check is what the
\* check says.
checkAdmission(c) ==
  /\ pc[c] = "admit"
  /\ \E mb \in estimateTraceMemoryMb(key[c][1]), available \in readSystemMemory :
       IF Fits(mb, available)
       THEN Admit(c) /\ estimate' = [estimate EXCEPT ![c] = Greater(mb, 0)]
       ELSE Refuse(c) /\ UNCHANGED estimate

Elsewhere ==
  /\ Next
  /\ \A c \in Calls : pc[c] = "admit" => pc'[c] = "admit"
  /\ UNCHANGED estimate

MemoryNext == (\E c \in Calls : checkAdmission(c)) \/ Elsewhere

MemorySpec == MemoryInit /\ [][MemoryNext]_memoryVars

\* The headroom a user asks for is kept, whatever was loaded, killed, rewritten
\* or evicted before: the daemons that have loaded, or still are to, together
\* need no more than what may be taken.  It is promised for calls that do not
\* overlap; checks that do all look at the same free memory (daemon.ts, spawn).
HeadroomKept ==
  Linux => TotalOf({d \in Calls : Alive(d) /\ signal[d] # "kill"}) <= Greater(TotalMb - MinFreeMb, 0)
=============================================================================
