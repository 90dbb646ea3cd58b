------------------------------ MODULE MCSession ------------------------------
(***************************************************************************)
(* Questions answered one after another, as by the loop of a daemon          *)
(* (Daemon.cpp) or of several where they are about different traces: which  *)
(* sentences of the descriptions the answers have broken so far.            *)
(***************************************************************************)
EXTENDS MCLoadedTrace

VARIABLE broken

\* The questions of a session: some listings and the instances of one name.
SessionQuestions ==
  [m \in {"logs", "packets", "inside", "slow_logs", "timeline"} |->
     IF m = "timeline"
     THEN {q \in MCQuestions[m] : q.event = "shade" /\ q.first = -1 /\ q.past = -1}
     ELSE {q \in MCQuestions[m] : q.limit \in {2, 40}}]

\* Each sentence, under the name it has in QueryModes.
Sentences ==
  [LogsInFull        |-> LogsInFull,
   PacketsFromStart  |-> PacketsFromStart,
   EventsStartInside |-> EventsStartInside,
   LogsNearStart     |-> LogsNearStart,
   NearLogsSevere    |-> NearLogsSevere,
   NearLogsComplete  |-> NearLogsComplete,
   GpuInstancesFound |-> GpuInstancesFound]

BrokenNow == {s \in DOMAIN Sentences : ~Sentences[s]}

SessionInit == AskInit /\ AllocUnused /\ broken = {}

AskNext ==
  /\ answer # NoAnswer
  /\ mode' \in DOMAIN Questions /\ question' \in Questions[mode'] /\ answer' = NoAnswer
  /\ UNCHANGED <<allocVars, broken>>

AnswerOne == AnswerAtOnce /\ broken' = broken \cup BrokenNow'

SessionSpec == SessionInit /\ [][AskNext \/ AnswerOne]_<<vars, broken>>

\* There is a sentence of the descriptions (server.ts, schemas.ts, Query.cpp,
\* Logs.cpp) that no session breaks, however many questions it has.  Each of them
\* says what every answer is like, so all the code promises is that none is broken;
\* a session that breaks this one breaks them all, an answer each.
SomeTextKept == broken # DOMAIN Sentences
=============================================================================
