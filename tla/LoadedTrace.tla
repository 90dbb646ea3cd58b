----------------------------- MODULE LoadedTrace -----------------------------
(***************************************************************************)
(* A loaded trace and a question to it (the switch over the modes that     *)
(* Main.cpp and Daemon.cpp share): every mode but one is a function of the *)
(* trace and the arguments (QueryModes); the query for allocations has a   *)
(* thread of the provider to wait for (AllocationQuery).                   *)
(***************************************************************************)
EXTENDS QueryModes, AllocationQuery

vars == <<modeVars, allocVars>>

Init ==
  \/ AskInit /\ AllocUnused
  \/ AllocInit /\ mode = "memalloc_query" /\ question = NoAnswer /\ answer = NoAnswer

AnswerAtOnce == AnswerNext /\ UNCHANGED allocVars

PollProvider == Loop /\ UNCHANGED modeVars

\* The provider's thread, and time; both matter only while it is polled.
Meanwhile == mode = "memalloc_query" /\ (Produce \/ Tick) /\ UNCHANGED modeVars

Next == AnswerAtOnce \/ PollProvider \/ Meanwhile

\* The thread that polls is never held up: neither PollQuery nor NextResult
\* waits.  Nothing is assumed of the provider.
Spec == Init /\ [][Next]_vars /\ WF_vars(PollProvider)
=============================================================================
