-------------------------- MODULE LoadedTraceProofs --------------------------
(***************************************************************************)
(* Theorems about a loaded trace: about the query for allocations, for any *)
(* number of rows, any limit, any size of batches and any timeout, and     *)
(* whatever the provider reports and when; and about the answers of the    *)
(* other modes, for every trace and question.                              *)
(***************************************************************************)
EXTENDS LoadedTrace, QueryModesProofs

-----------------------------------------------------------------------------
(* The inductive invariant.                                                *)

\* The loop is behind the provider, and looks at what it took before it takes
\* more.
Types ==
  /\ limit \in Nat /\ hollow \subseteq 1 .. Rows
  /\ produced \in 0 .. Rows /\ taken \in 0 .. produced /\ looked \in 0 .. taken
  /\ events \in Seq(1 .. Rows)
  /\ total = taken

\* Only a drain is left with rows to look at, and only with everything found
\* can a status have been Done.
ControlInv ==
  /\ pc # "drain" => looked = taken
  /\ status = "Done" => produced = Rows
  /\ (pc = "judge" /\ status = "Done") => taken = Rows
  /\ completed => pc = "returned" /\ taken = Rows

\* What is emitted is in order and leaves no gap before the limit is reached;
\* the bounds say where an entry may be among the rows looked at.
EventsInv ==
  /\ Len(events) <= limit /\ Len(events) <= looked
  /\ \A i \in 1 .. Len(events) :
       /\ events[i] \in (1 .. looked) \ hollow
       /\ i <= events[i] /\ events[i] <= looked - (Len(events) - i)
  /\ \A i, j \in 1 .. Len(events) : i < j => events[i] < events[j]
  /\ \A row \in (1 .. looked) \ hollow :
       \/ \E i \in 1 .. Len(events) : events[i] = row
       \/ Len(events) = limit /\ \A i \in 1 .. limit : events[i] < row

IInv == Types /\ ControlInv /\ EventsInv

\* The invariant at the start: the loop has taken nothing.
LEMMA InvInit == Init => IInv
  <1> SUFFICES ASSUME Init PROVE IInv
    OBVIOUS
  <1>1. /\ limit \in Nat /\ hollow \subseteq 1 .. Rows /\ pc # "drain" /\ status # "Done"
        /\ produced = 0 /\ taken = 0 /\ looked = 0 /\ total = 0 /\ ~completed /\ events = << >>
    <2>1. CASE AllocUnused
      BY <2>1 DEF AllocUnused
    <2>2. CASE AllocInit
      BY <2>2, QueryAssumption DEF AllocInit, QueryAssumption
    <2>3. QED
      BY <2>1, <2>2 DEF Init
  <1>2. Len(events) = 0 /\ events \in Seq(1 .. Rows) /\ 0 \in 0 .. Rows
    BY <1>1, QueryAssumption DEF QueryAssumption
  <1>3. QED
    BY <1>1, <1>2 DEF IInv, Types, ControlInv, EventsInv

\* One more row is looked at: it goes to the end, or is skipped for a reason.
LEMMA LookStep ==
  ASSUME IInv, LookAtRow
  PROVE  IInv'
  <1> USE DEF IInv
  <1> DEFINE row == looked + 1
             n == Len(events)
  <1>1. /\ pc = "drain" /\ pc' = pc /\ looked < taken /\ looked' = row
        /\ UNCHANGED <<limit, hollow, produced, taken, status, total, completed>>
    BY DEF LookAtRow, query
  <1>2. /\ n \in Nat /\ looked \in Nat /\ taken \in Nat /\ limit \in Nat /\ Rows \in Nat
        /\ row \in 1 .. Rows /\ row \in 1 .. taken /\ taken <= Rows
    BY <1>1, QueryAssumption DEF Types, QueryAssumption
  <1>3. ControlInv'
    BY <1>1 DEF ControlInv
  <1>4. \A i \in 1 .. n : events[i] \in 1 .. Rows /\ events[i] < row
    BY <1>2 DEF EventsInv, Types
  <1>5. CASE Emits(row)
    <2>1. row \notin hollow /\ n < limit /\ events' = Append(events, row)
      BY <1>5 DEF LookAtRow, Emits
    <2>2. /\ events' \in Seq(1 .. Rows) /\ Len(events') = n + 1
          /\ events'[n + 1] = row /\ \A i \in 1 .. n : events'[i] = events[i]
      BY <1>2, <2>1, AppendProperties DEF Types
    <2>3. \A i \in 1 .. n + 1 : i \in 1 .. n \/ i = n + 1
      BY <1>2
    <2>4. \A i \in 1 .. n : i \in 1 .. n + 1
      BY <1>2
    <2>5. n + 1 \in 1 .. n + 1
      BY <1>2
    <2> HIDE DEF row, n
    <2>6. Types'
      BY <1>1, <1>2, <2>2 DEF Types
    <2>7. n = Len(events) /\ row = looked + 1
      BY DEF n, row
    <2>8. n + 1 <= limit /\ n + 1 <= row
      BY <1>2, <2>1, <2>7 DEF EventsInv
    <2>9. ASSUME NEW i \in 1 .. n + 1
          PROVE  /\ events'[i] \in (1 .. row) \ hollow
                 /\ i <= events'[i] /\ events'[i] <= row - ((n + 1) - i)
      <3>1. CASE i = n + 1
        BY <1>2, <2>1, <2>2, <2>8, <3>1
      <3>2. CASE i \in 1 .. n
        <4>1. /\ events[i] \in (1 .. looked) \ hollow
              /\ i <= events[i] /\ events[i] <= looked - (n - i)
          BY <2>7, <3>2 DEF EventsInv
        <4>2. QED
          BY <1>2, <2>2, <2>7, <3>2, <4>1
      <3>3. QED
        BY <2>3, <3>1, <3>2
    <2>10. ASSUME NEW i \in 1 .. n + 1, NEW j \in 1 .. n + 1, i < j
           PROVE  events'[i] < events'[j]
      <3>1. i \in 1 .. n
        BY <1>2, <2>10
      <3>2. CASE j = n + 1
        BY <1>4, <2>2, <3>1, <3>2
      <3>3. CASE j \in 1 .. n
        BY <2>2, <2>7, <2>10, <3>1, <3>3 DEF EventsInv
      <3>4. QED
        BY <2>3, <3>2, <3>3
    <2>11. ASSUME NEW x \in (1 .. row) \ hollow
           PROVE  \E i \in 1 .. n + 1 : events'[i] = x
      <3>1. CASE x = row
        BY <2>2, <2>5, <3>1
      <3>2. CASE x # row
        <4>1. x \in (1 .. looked) \ hollow
          BY <1>2, <2>7, <3>2
        <4>2. PICK i \in 1 .. n : events[i] = x
          BY <1>2, <2>1, <2>7, <4>1 DEF EventsInv
        <4>3. QED
          BY <2>2, <2>4, <4>2
      <3>3. QED
        BY <3>1, <3>2
    <2>12. EventsInv'
      BY <1>1, <2>2, <2>8, <2>9, <2>10, <2>11 DEF EventsInv
    <2>13. QED
      BY <1>3, <2>6, <2>12
  <1>6. CASE ~Emits(row)
    <2>1. (row \in hollow \/ n = limit) /\ events' = events
      BY <1>2, <1>6 DEF LookAtRow, Emits, EventsInv
    <2>2. Types'
      BY <1>1, <1>2, <2>1 DEF Types
    <2>3. ASSUME NEW i \in 1 .. n
          PROVE  /\ events[i] \in (1 .. row) \ hollow
                 /\ i <= events[i] /\ events[i] <= row - (n - i)
      <3>1. /\ events[i] \in (1 .. looked) \ hollow
            /\ i <= events[i] /\ events[i] <= looked - (n - i)
        BY DEF EventsInv
      <3>2. QED
        BY <1>2, <3>1
    <2>4. ASSUME NEW x \in (1 .. row) \ hollow
          PROVE  \/ \E i \in 1 .. n : events[i] = x
                 \/ n = limit /\ \A i \in 1 .. limit : events[i] < x
      <3>1. CASE x = row
        BY <1>4, <2>1, <3>1
      <3>2. CASE x # row
        <4>1. x \in (1 .. looked) \ hollow
          BY <1>2, <3>2
        <4>2. QED
          BY <4>1 DEF EventsInv
      <3>3. QED
        BY <3>1, <3>2
    <2>5. n <= limit /\ n <= row
      BY <1>2 DEF EventsInv
    <2>6. \A i, j \in 1 .. n : i < j => events[i] < events[j]
      BY DEF EventsInv
    <2>7. EventsInv'
      BY <1>1, <2>1, <2>3, <2>4, <2>5, <2>6 DEF EventsInv
    <2>8. QED
      BY <1>3, <2>2, <2>7
  <1>7. QED
    BY <1>5, <1>6

\* No other step touches what was emitted.
LEMMA OtherSteps ==
  ASSUME IInv, UNCHANGED <<limit, hollow, looked, events>>,
         produced' \in produced .. Rows, taken' \in taken .. produced', total' = taken',
         ControlInv'
  PROVE  IInv'
  <1>1. Types'
    BY QueryAssumption DEF IInv, Types, QueryAssumption
  <1>2. EventsInv'
    BY DEF IInv, EventsInv
  <1>3. QED
    BY <1>1, <1>2 DEF IInv

\* Every step of the loop, the provider and the clock keeps the invariant.
LEMMA InvStep == IInv /\ [Next]_vars => IInv'
  <1> SUFFICES ASSUME IInv, [Next]_vars PROVE IInv'
    OBVIOUS
  <1> USE DEF IInv
  <1>1. /\ Rows \in Nat /\ produced \in 0 .. Rows /\ taken \in 0 .. produced
        /\ looked \in 0 .. taken /\ total = taken
        /\ produced \in produced .. Rows /\ taken \in taken .. produced
    BY QueryAssumption DEF Types, QueryAssumption
  <1>2. CASE Produce
    <2>1. PICK n \in 1 .. MaxBatch : produced + n <= Rows /\ produced' = produced + n
      BY <1>2 DEF Produce
    <2>2. /\ produced' \in produced .. Rows /\ taken \in taken .. produced'
          /\ status # "Done"
      BY <1>1, <1>2, <2>1, QueryAssumption DEF Produce, ControlInv, QueryAssumption
    <2>3. UNCHANGED <<limit, hollow, looked, events, taken, total, pc, status, completed>>
      BY <1>2 DEF Produce, query
    <2>4. ControlInv'
      BY <2>2, <2>3 DEF ControlInv
    <2>5. QED
      BY <1>1, <2>2, <2>3, <2>4, OtherSteps
  <1>3. CASE NextResult
    <2>1. PICK n \in 1 .. MaxBatch :
            taken + n <= produced /\ taken' = taken + n /\ total' = total + n
      BY <1>3 DEF NextResult
    <2>2. taken' \in taken .. produced /\ total' = taken'
      BY <1>1, <2>1, QueryAssumption DEF QueryAssumption
    <2>3. pc = "drain" /\ UNCHANGED <<limit, hollow, looked, events, produced, pc, status, completed>>
      BY <1>3 DEF NextResult, query
    <2>4. ControlInv'
      BY <2>3 DEF ControlInv
    <2>5. QED
      BY <1>1, <2>2, <2>3, <2>4, OtherSteps
  <1>4. CASE Poll
    <2>1. /\ pc = "poll" /\ status' \in Statuses
          /\ pc' = IF status' \in {"Available", "Done"} THEN "drain" ELSE "judge"
          /\ UNCHANGED <<limit, hollow, looked, events, produced, taken, total, completed>>
      BY <1>4 DEF Poll, query
    <2>2. status' = "Done" => produced = Rows
      BY <2>1 DEF Statuses
    <2>3. ControlInv'
      BY <2>1, <2>2 DEF ControlInv
    <2>4. QED
      BY <1>1, <2>1, <2>3, OtherSteps
  <1>5. CASE EmptyResult
    <2>1. /\ pc = "drain" /\ looked = taken /\ taken = produced /\ pc' = "judge"
          /\ UNCHANGED <<limit, hollow, looked, events, produced, taken, total, completed, status>>
      BY <1>5 DEF EmptyResult, query
    <2>2. ControlInv'
      BY <2>1 DEF ControlInv
    <2>3. QED
      BY <1>1, <2>1, <2>2, OtherSteps
  <1>6. CASE Finish \/ GiveUp \/ Sleep \/ Wake \/ Bail
    <2>1. /\ pc \in {"judge", "sleep"} /\ pc' \in {"poll", "returned", "sleep"}
          /\ UNCHANGED <<limit, hollow, looked, events, produced, taken, total, status>>
          /\ completed' # completed => pc = "judge" /\ status = "Done" /\ pc' = "returned"
      BY <1>6 DEF Finish, GiveUp, Sleep, Wake, Bail, query
    <2>2. ControlInv'
      BY <2>1 DEF ControlInv
    <2>3. QED
      BY <1>1, <2>1, <2>2, OtherSteps
  <1>7. CASE Tick \/ UNCHANGED allocVars
    <2>1. UNCHANGED <<limit, hollow, looked, events, produced, taken, total, status, pc, completed>>
      BY <1>7 DEF Tick, query, allocVars
    <2>2. ControlInv'
      BY <2>1 DEF ControlInv
    <2>3. QED
      BY <1>1, <2>1, <2>2, OtherSteps
  <1>8. QED
    BY <1>2, <1>3, <1>4, <1>5, <1>6, <1>7, LookStep
    DEF Next, AnswerAtOnce, PollProvider, Meanwhile, Loop, vars

-----------------------------------------------------------------------------
(* What the caller reads in the answer.                                    *)

\* However the rows come, in whatever batches and between whatever polls, the
\* answer is the first allocations of the rows taken, the count is of all of
\* them, and an answer that does not say it is truncated is the whole one.
THEOREM AnswersAreHonest == Spec => []AnswerHonest
  <1>1. IInv => AnswerHonest
    <2> SUFFICES ASSUME IInv PROVE AnswerHonest
      OBVIOUS
    <2> USE DEF IInv
    <2>1. total = taken /\ (pc = "returned" => looked = taken)
          /\ (completed => total = Rows)
      BY DEF Types, ControlInv
    <2>2. ASSUME ~Truncated PROVE events = [i \in 1 .. Rows |-> i]
      <3>1. completed /\ Rows \in Nat /\ looked \in Nat /\ looked <= Rows /\ Len(events) \in Nat
            /\ ~(Len(events) < Rows) /\ Len(events) <= looked
        BY <2>1, <2>2, QueryAssumption DEF Truncated, Types, EventsInv, QueryAssumption
      <3>2. Len(events) = Rows /\ looked = Rows
        BY <3>1
      <3>3. \A i \in 1 .. Rows : events[i] = i
        <4> SUFFICES ASSUME NEW i \in 1 .. Rows PROVE events[i] = i
          OBVIOUS
        <4>1. /\ events[i] \in 1 .. Rows
              /\ i <= events[i] /\ events[i] <= Rows - (Rows - i)
          BY <3>2 DEF EventsInv
        <4>2. QED
          BY <3>1, <4>1
      <3>4. events = [i \in 1 .. Len(events) |-> events[i]]
        BY LenProperties DEF Types
      <3>5. QED
        BY <3>2, <3>3, <3>4
    <2>3. QED
      BY <2>1, <2>2 DEF AnswerHonest, EventsInv
  <1>2. QED
    BY <1>1, InvInit, InvStep, PTL DEF Spec

-----------------------------------------------------------------------------
(* Every answer of a listing mode, of one with a frame range, of a          *)
(* comparison, and of a view.                                              *)

\* A mode that takes rows or frames, compares, or shows a view is answered by its run,
\* for a question that may be asked.
LEMMA AnswersAreRuns == Spec => []AnswerInv
  <1>1. Init => AnswerInv
    BY AnswersBegin DEF Init, AnswerInv, AllListings, RangeModes, ViewModes, InTraceOrder,
                             PlainListings
  <1>2. AnswerInv /\ [Next]_vars => AnswerInv'
    BY AnswersStep DEF Next, vars, AnswerAtOnce, PollProvider, Meanwhile
  <1>3. QED
    BY <1>1, <1>2, PTL DEF Spec

\* A listing shows only what was asked for, as the descriptions of the tools and
\* of their parameters have it (Wanted), each row once, the earliest first and never
\* more than the limit; and unless it says that it is truncated it shows all it had
\* to (Due).  For every trace whose rows are numbered as they are enumerated, every
\* filter and every limit, with the three exceptions that the property names.
THEOREM ListingsAreHonest == Spec => []ListingsHonest
  BY AnswersAreRuns, AnswersHonest, PTL

\* A range of frames that lies in the trace stands for its frames in every view that
\* takes one, the time between two of them included, for every trace, range and limit,
\* when no frame starts before the one before it ended and no span ends before it
\* starts.
THEOREM RangesStandForFrames == Spec => []RangesAreFrames
  BY AnswersAreRuns, AnswersOfRanges, PTL

\* A comparison sees both traces alike, and drops no name that an event channel of
\* only one of them has, for any two traces, channel, threshold and limit, when a
\* region begins and ends in its trace.
THEOREM ComparisonsAreFair == Spec => []ComparesFair
  BY AnswersAreRuns, AnswersFair, PTL

\* The views of one trace tell the same story, for every trace: the instances of a
\* name are as many as its channel measures, each under the frame it began in; callers
\* and callees come with the largest first; a listed task can be looked at; a
\* callstack keeps its depths; the connections are those of the game instances; and
\* no heap crowds out a root.
THEOREM ViewsTellOneStory == Spec => []ViewsAgree
  BY AnswersAreRuns, AnswersAgree, PTL
=============================================================================
