-------------------------- MODULE AllocationQuery --------------------------
(***************************************************************************)
(* The query view of the allocations (RunQueryView, Allocations.cpp): the  *)
(* thread that serves the daemon's connection starts a query with the      *)
(* allocations provider, whose own thread works on it, and polls it every  *)
(* 25 ms, a pause, until it is done or the time is up.                     *)
(*                                                                         *)
(* Of the provider the model keeps what the loop must reckon with: it      *)
(* finds the rows while it is polled, any status may be reported until it  *)
(* has found them all, and what it has found is taken batch by batch until *)
(* an empty one.  A row may have no allocation.                            *)
(***************************************************************************)
EXTENDS Naturals, Sequences

CONSTANTS Rows,        \* the query's rows are 1 .. Rows, in the provider's order
          Limits,      \* what Args.Limit may be after FArgs::Parse
          MaxBatch,    \* bound: rows in a batch
          Timeout      \* -query-timeout-ms=, in pauses

ASSUME QueryAssumption ==
  /\ Rows \in Nat /\ Limits \subseteq Nat \ {0}
  /\ MaxBatch \in Nat \ {0} /\ Timeout \in Nat

VARIABLES
  limit,       \* Args.Limit
  hollow,      \* the rows without an allocation
  produced,    \* the provider: how many rows it has found
  taken,       \* how many of those NextResult has handed over
  looked,      \* how many of those the loop has looked at
  cancelled,   \* CancelQuery was called
  pc,          \* where the loop is: poll, drain, judge, sleep, returned, or unused
  status,      \* the status polled last
  events,      \* the rows emitted
  total,       \* TotalAvailable
  completed,   \* bCompleted
  clock        \* pauses since the query was started; it stops at the deadline

query == <<limit, hollow>>      \* what does not change

allocVars ==
  <<limit, hollow, produced, taken, looked, cancelled, pc, status, events, total, completed, clock>>

AllocInit ==
  /\ limit \in Limits /\ hollow \in SUBSET (1 .. Rows)
  /\ produced = 0 /\ taken = 0 /\ looked = 0 /\ cancelled = FALSE
  /\ pc = "poll" /\ status = "none"
  /\ events = <<>> /\ total = 0 /\ completed = FALSE
  /\ clock = 0

-----------------------------------------------------------------------------
(* The provider, and time.                                                 *)

Produce ==
  /\ produced < Rows /\ ~cancelled
  /\ \E n \in 1 .. MaxBatch : produced + n <= Rows /\ produced' = produced + n
  /\ UNCHANGED <<query, taken, looked, cancelled, pc, status, events, total, completed, clock>>

\* Taking batches takes time too.
Tick ==
  /\ pc = "drain" /\ clock < Timeout
  /\ clock' = clock + 1
  /\ UNCHANGED <<query, produced, taken, looked, cancelled, pc, status, events, total, completed>>

-----------------------------------------------------------------------------
(* The loop.                                                               *)

Statuses == {"Working", "Available", "Unknown"}
             \cup (IF produced = Rows THEN {"Done"} ELSE {})

Poll ==
  /\ pc = "poll"
  /\ status' \in Statuses
  /\ pc' = IF status' \in {"Available", "Done"} THEN "drain" ELSE "judge"
  /\ UNCHANGED <<query, produced, taken, looked, cancelled, events, total, completed, clock>>

\* A batch is taken; all of its rows count.
NextResult ==
  /\ pc = "drain" /\ looked = taken /\ taken < produced
  /\ \E n \in 1 .. MaxBatch :
       /\ taken + n <= produced
       /\ taken' = taken + n
       /\ total' = total + n
  /\ UNCHANGED <<query, produced, looked, cancelled, pc, status, events, completed, clock>>

\* One without an allocation is skipped, and once the limit is reached none is
\* emitted.
MutOneTooMany(row) == row \notin hollow /\ Len(events) <= limit
Emits(row) == row \notin hollow /\ Len(events) < limit

LookAtRow ==
  /\ pc = "drain" /\ looked < taken
  /\ looked' = looked + 1
  /\ events' = IF Emits(looked + 1) THEN Append(events, looked + 1) ELSE events
  /\ UNCHANGED <<query, produced, taken, cancelled, pc, status, total, completed, clock>>

\* Nothing more for now.
EmptyResult ==
  /\ pc = "drain" /\ looked = taken /\ taken = produced
  /\ pc' = "judge"
  /\ UNCHANGED <<query, produced, taken, looked, cancelled, status, events, total, completed, clock>>

Finish ==
  /\ pc = "judge" /\ status = "Done"
  /\ completed' = TRUE /\ pc' = "returned"
  /\ UNCHANGED <<query, produced, taken, looked, cancelled, status, events, total, clock>>

MutDeadlineNever == FALSE
DeadlinePassed == clock >= Timeout

GiveUp ==
  /\ pc = "judge" /\ status = "Working" /\ DeadlinePassed
  /\ cancelled' = TRUE /\ pc' = "returned"
  /\ UNCHANGED <<query, produced, taken, looked, status, events, total, completed, clock>>

Sleep ==
  /\ pc = "judge" /\ status = "Working" /\ ~DeadlinePassed
  /\ pc' = "sleep"
  /\ UNCHANGED <<query, produced, taken, looked, cancelled, status, events, total, completed, clock>>

\* A pause later, or more.
Wake ==
  /\ pc = "sleep"
  /\ pc' = "poll" /\ clock' \in {c \in 1 .. Timeout : c > clock \/ c = Timeout}
  /\ UNCHANGED <<query, produced, taken, looked, cancelled, status, events, total, completed>>

\* Every other status ends the loop: an unknown one, and Available as soon as
\* its batches are taken.  The provider is not told.
Bail ==
  /\ pc = "judge" /\ status \notin {"Working", "Done"}
  /\ pc' = "returned"
  /\ UNCHANGED <<query, produced, taken, looked, cancelled, status, events, total, completed, clock>>

Loop == \/ Poll \/ NextResult \/ LookAtRow \/ EmptyResult
        \/ Finish \/ GiveUp \/ Sleep \/ Wake \/ Bail

\* The trace is asked something else.
AllocUnused ==
  /\ limit = 0 /\ hollow = {}
  /\ produced = 0 /\ taken = 0 /\ looked = 0 /\ cancelled = FALSE
  /\ pc = "unused" /\ status = "none"
  /\ events = <<>> /\ total = 0 /\ completed = FALSE
  /\ clock = 0

-----------------------------------------------------------------------------
(* Properties.                                                             *)

Truncated == Len(events) < total \/ ~completed

\* However the rows were cut into batches and polls, the answer is the first
\* limit allocations among the rows taken, each once and in order, and the
\* count is of the rows taken; when RunQueryView returns, an answer that says
\* it was completed has counted every row of the query, and one that does not
\* say it is truncated has them all.
AnswerHonest ==
  /\ total = taken /\ Len(events) <= limit
  /\ \A i \in 1 .. Len(events) : events[i] \in (1 .. looked) \ hollow
  /\ \A i, j \in 1 .. Len(events) : i < j => events[i] < events[j]
  /\ \A row \in (1 .. looked) \ hollow :
       \/ \E i \in 1 .. Len(events) : events[i] = row
       \/ Len(events) = limit /\ \A i \in 1 .. limit : events[i] < row
  /\ pc = "returned" =>
       /\ looked = taken
       /\ completed => total = Rows
       /\ ~Truncated => events = [i \in 1 .. Rows |-> i]

\* Whatever the provider does, the connection gets its answer: the loop ends,
\* at the latest at the first pause after the deadline.
QueryReturns == (pc = "poll") ~> (pc = "returned")
=============================================================================
