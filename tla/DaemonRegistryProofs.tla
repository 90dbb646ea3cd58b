------------------------ MODULE DaemonRegistryProofs ------------------------
(***************************************************************************)
(* Theorems about DaemonRegistry: its inductive invariant, the refinement  *)
(* of TraceService, who takes a daemon down, how one may be lost, and what *)
(* the documents promise that the code keeps when the client makes one     *)
(* call at a time (Serial).                                                *)
(***************************************************************************)
EXTENDS DaemonRegistry, FiniteSetTheorems, TLAPS

\* Every step of the registry keeps the variables in their types.
LEMMA TerminateType ==
  ASSUME TypeOK, NEW ks, Terminate(ks)
  PROVE  /\ daemons' \in [Key -> CallsOrNone]
         /\ signal' \in [Calls -> {"none", "term", "kill"}]
  BY DEF TypeOK, Terminate, CallsOrNone

\* A call that terminates a handle and waits for its exit.
LEMMA AwaitType ==
  ASSUME TypeOK, NEW c \in Calls, NEW k \in Key, NEW a \in Awaits,
         RegistryStep, TerminateAndAwait(c, k, a)
  PROVE  TypeOK'
  <1>1. /\ daemons' \in [Key -> CallsOrNone]
        /\ signal' \in [Calls -> {"none", "term", "kill"}]
    BY TerminateType DEF TerminateAndAwait
  <1>2. daemons[k] \in CallsOrNone
    BY DEF TypeOK
  <1>3. QED
    BY <1>1, <1>2 DEF TypeOK, RegistryStep, TerminateAndAwait

\* A call that goes on to another await.
LEMMA GotoType ==
  ASSUME TypeOK, NEW c \in Calls, NEW a \in Awaits, RegistryStep, Goto(c, a)
  PROVE  TypeOK'
  BY DEF TypeOK, RegistryStep, Goto, mapVars, childVars

\* Types in the loop that clears stale handles.
LEMMA ClearStaleType ==
  ASSUME TypeOK, NEW c \in Calls, RegistryStep, ClearStale(c)
  PROVE  TypeOK'
  <1>1. CASE \E k \in StaleKeys(key[c]) : TerminateAndAwait(c, k, "stale")
    BY <1>1, AwaitType DEF StaleKeys, RegisteredKeys, Awaits
  <1>2. CASE Goto(c, "admit")
    BY <1>2, GotoType DEF Awaits
  <1>3. QED
    BY <1>1, <1>2 DEF ClearStale

\* Types in the loop that evicts.
LEMMA MakeRoomType ==
  ASSUME TypeOK, NEW c \in Calls, RegistryStep, MakeRoom(c)
  PROVE  TypeOK'
  <1>1. CASE \E k \in LruKeys : TerminateAndAwait(c, k, "evict")
    BY <1>1, AwaitType DEF LruKeys, RegisteredKeys, Awaits
  <1>2. CASE Goto(c, "mkdir")
    BY <1>2, GotoType DEF Awaits
  <1>3. QED
    BY <1>1, <1>2 DEF MakeRoom

\* A call that settles.
LEMMA SettleType ==
  ASSUME TypeOK, NEW c \in Calls, NEW o \in Outcomes, Settle(c, o)
  PROVE  /\ pc' \in [Calls -> Awaits]
         /\ outcome' \in [Calls -> Outcomes]
         /\ target' \in [Calls -> CallsOrNone]
         /\ kind' = kind /\ key' = key /\ saw' = saw
  BY DEF TypeOK, Settle, Awaits, CallsOrNone

\* A call that dials a daemon.
LEMMA DialType ==
  ASSUME TypeOK, NEW c \in Calls, NEW d \in CallsOrNone, RegistryStep, Dial(c, d)
  PROVE  TypeOK'
  BY DEF TypeOK, RegistryStep, Dial, mapVars, childVars, Awaits

\* Type correctness of every step.
LEMMA TypeStep == TypeOK /\ [Next]_vars => TypeOK'
  <1> SUFFICES ASSUME TypeOK, [Next]_vars PROVE TypeOK'
    OBVIOUS
  <1> USE RegistryAssumption
  <1>1. ASSUME NEW c \in Calls, NEW o \in Kinds, NEW f \in Files, Issue(c, o, f)
        PROVE  TypeOK'
    BY <1>1 DEF Issue, TypeOK, RegistryStep, mapVars, childVars, KeyOf, Key, Awaits
  <1>2. ASSUME NEW c \in Calls, IssueNotFound(c) PROVE TypeOK'
    BY <1>2, SettleType DEF IssueNotFound, TypeOK, RegistryStep, mapVars, childVars, Outcomes
  <1>3. ASSUME NEW c \in Calls, LookupQuery(c) PROVE TypeOK'
    BY <1>3, DialType, ClearStaleType DEF LookupQuery, TypeOK
  <1>4. ASSUME NEW c \in Calls, ResumeStale(c) PROVE TypeOK'
    BY <1>4, ClearStaleType DEF ResumeStale
  <1>5. ASSUME NEW c \in Calls, Refuse(c) PROVE TypeOK'
    BY <1>5, SettleType DEF Refuse, TypeOK, RegistryStep, mapVars, childVars, Outcomes
  <1>6. ASSUME NEW c \in Calls, Admit(c) PROVE TypeOK'
    BY <1>6, MakeRoomType DEF Admit
  <1>7. ASSUME NEW c \in Calls, ResumeEvict(c) PROVE TypeOK'
    BY <1>7, MakeRoomType DEF ResumeEvict
  <1>8. ASSUME NEW c \in Calls, Launch(c) PROVE TypeOK'
    BY <1>8 DEF Launch, TypeOK, RegistryStep, Record, CallsOrNone, Awaits, ProcStates, Key
  <1>9. ASSUME NEW c \in Calls, Ready(c) PROVE TypeOK'
    BY <1>9 DEF Ready, TypeOK, RegistryStep, Unrecord, CallsOrNone, Awaits, childVars
  <1>10. ASSUME NEW c \in Calls, SpawnTimeout(c) PROVE TypeOK'
    BY <1>10, SettleType DEF SpawnTimeout, TypeOK, RegistryStep, Unrecord, CallsOrNone, Outcomes
  <1>11. ASSUME NEW c \in Calls, Connect(c) PROVE TypeOK'
    BY <1>11 DEF Connect, TypeOK, RegistryStep, Awaits, childVars
  <1>12. ASSUME NEW c \in Calls, ConnectFails(c) PROVE TypeOK'
    BY <1>12, SettleType DEF ConnectFails, TypeOK, RegistryStep, mapVars, childVars, Outcomes
  <1>13. ASSUME NEW c \in Calls, Reply(c) PROVE TypeOK'
    BY <1>13, SettleType DEF Reply, TypeOK, RegistryStep, mapVars, childVars, Outcomes
  <1>14. ASSUME NEW c \in Calls, ConnectionReset(c) PROVE TypeOK'
    BY <1>14, SettleType DEF ConnectionReset, TypeOK, RegistryStep, mapVars, childVars, Outcomes
  <1>15. ASSUME NEW c \in Calls, ConnectionEnds(c) PROVE TypeOK'
    BY <1>15, GotoType DEF ConnectionEnds, Awaits
  <1>16. ASSUME NEW c \in Calls, LookupUnload(c) PROVE TypeOK'
    <2>1. CASE Settle(c, "not-loaded") /\ UNCHANGED <<mapVars, childVars>>
      BY <1>16, <2>1, SettleType DEF LookupUnload, TypeOK, RegistryStep, mapVars, childVars, Outcomes
    <2>2. CASE TerminateAndAwait(c, key[c], "unload")
      BY <1>16, <2>2, AwaitType DEF LookupUnload, TypeOK, Awaits
    <2>3. QED
      BY <1>16, <2>1, <2>2 DEF LookupUnload
  <1>17. ASSUME NEW c \in Calls, ResumeUnload(c) PROVE TypeOK'
    BY <1>17, SettleType DEF ResumeUnload, TypeOK, RegistryStep, mapVars, childVars, Outcomes
  <1>18. ASSUME NEW c \in Calls, LookupControl(c) PROVE TypeOK'
    <2>1. CASE Settle(c, "not-running") /\ UNCHANGED <<mapVars, childVars>>
      BY <1>18, <2>1, SettleType DEF LookupControl, TypeOK, RegistryStep, mapVars, childVars, Outcomes
    <2>2. CASE Dial(c, daemons[key[c]])
      BY <1>18, <2>2, DialType DEF LookupControl, TypeOK
    <2>3. QED
      BY <1>18, <2>1, <2>2 DEF LookupControl
  <1>19. ASSUME NEW d \in Calls, ExitEvent(d) PROVE TypeOK'
    <2>1. daemons' \in [Key -> CallsOrNone]
      BY <1>19 DEF ExitEvent, AfterExit, TypeOK, CallsOrNone
    <2>2. CASE pc[d] = "loading" /\ loading' = Unrecord(d) /\ Settle(d, "spawn-failed")
      BY <1>19, <2>1, <2>2, SettleType
         DEF ExitEvent, Unrecord, TypeOK, RegistryStep, CallsOrNone, Outcomes
    <2>3. CASE UNCHANGED <<loading, callVars>>
      BY <1>19, <2>1, <2>3 DEF ExitEvent, callVars, TypeOK, RegistryStep
    <2>4. QED
      BY <1>19, <2>2, <2>3 DEF ExitEvent
  <1>20. ASSUME NEW d \in Calls, KillGrace(d) PROVE TypeOK'
    BY <1>20 DEF KillGrace, TypeOK, RegistryStep, mapVars, callVars
  <1>21. ASSUME NEW d \in Calls, Announce(d) PROVE TypeOK'
    BY <1>21 DEF Announce, TypeOK, mapVars, callVars, ProcStates, Versions, Key
  <1>22. ASSUME NEW d \in Calls, Die(d) PROVE TypeOK'
    BY <1>22 DEF Die, TypeOK, mapVars, callVars, ProcStates
  <1>23. ASSUME ReapIdle PROVE TypeOK'
    BY <1>23, TerminateType DEF ReapIdle, TypeOK, RegistryStep, callVars
  <1>24. ASSUME Shutdown PROVE TypeOK'
    BY <1>24, TerminateType
       DEF Shutdown, TypeOK, callVars, Registered, RegisteredKeys, CallsOrNone
  <1>25. ASSUME Exit \/ Crash PROVE TypeOK'
    BY <1>25 DEF Exit, Crash, TypeOK, mapVars, callVars, childVars
  <1>26. ASSUME NEW f \in Files, Rewrite(f) PROVE TypeOK'
    BY <1>26 DEF Rewrite, TypeOK, mapVars, callVars, childVars, Versions
  <1>27. ASSUME Tick PROVE TypeOK'
    BY <1>27 DEF Tick, TypeOK, mapVars, callVars, childVars
  <1>28. ASSUME UNCHANGED vars PROVE TypeOK'
    BY <1>28 DEF TypeOK, vars, mapVars, callVars, childVars
  <1>29. QED
    BY <1>1, <1>2, <1>3, <1>4, <1>5, <1>6, <1>7, <1>8, <1>9, <1>10, <1>11, <1>12, <1>13,
       <1>14, <1>15, <1>16, <1>17, <1>18, <1>19, <1>20, <1>21, <1>22, <1>23, <1>24, <1>25,
       <1>26, <1>27, <1>28 DEF Next, CallStep

\* The types at the start.
LEMMA TypeCorrectInit == Init => TypeOK
  BY RegistryAssumption
     DEF Init, TypeOK, Key, Versions, CallsOrNone, Awaits, Outcomes, ProcStates

\* Every variable stays in its type, whatever the interleaving.
THEOREM TypeCorrect == Spec => []TypeOK
  BY TypeCorrectInit, TypeStep, PTL DEF Spec

-----------------------------------------------------------------------------
(* The inductive invariant.                                                *)

\* Where a call that may still spawn a child is suspended before the spawn.
BeforeLaunch == {"idle", "lookup", "stale", "admit", "evict", "mkdir", "unload"}

\* A key carries the version the call saw, and files never go back.
KeyInv ==
  \A c \in Calls : key[c][2] = saw[c] /\ saw[c] <= version[key[c][1]]

\* The life of a child against the life of the call that spawned it.
ChildInv ==
  \A d \in Calls :
    /\ pc[d] \in BeforeLaunch => proc[d] = "none"
    /\ proc[d] = "none" => signal[d] = "none" /\ ~exitSeen[d]
    /\ proc[d] # "none" => loaded[d] \in saw[d] .. version[key[d][1]]
    /\ exitSeen[d] => proc[d] \in {"aborted", "stopped"}
    /\ pc[d] = "loading" => /\ proc[d] # "none"
                            /\ signal[d] = "none"
                            /\ ~exitSeen[d]
                            /\ daemons[key[d]] # d
    /\ proc[d] = "starting" /\ signal[d] = "none" => pc[d] = "loading"

\* A call that has its daemon, or has been answered by it, has one for its
\* own key that listens or has stopped.
ServedInv ==
  \A c \in Calls :
    /\ outcome[c] = "replied" => pc[c] = "done"
    /\ pc[c] \in {"connect", "reply", "hung"} \/ outcome[c] = "replied" =>
         /\ target[c] \in Calls
         /\ proc[target[c]] \in {"listening", "stopped"}
         /\ key[target[c]] = key[c]

IInv == /\ TypeOK
        /\ KeyInv
        /\ ChildInv
        /\ RegisteredHandles
        /\ ServedInv

\* What terminate() does to the map and to the children, seen from the
\* invariant: nothing is added, only registered children are signalled, and
\* the children that stay registered are not.
LEMMA TerminateEffect ==
  ASSUME IInv, NEW ks \in SUBSET RegisteredKeys, Terminate(ks)
  PROVE  /\ \A k \in Key : daemons'[k] \in {daemons[k], NoCall}
         /\ \A d \in Calls : signal'[d] # signal[d] =>
              signal'[d] = "term" /\ daemons[key[d]] = d /\ key[d] \in ks
         /\ \A k \in Key : daemons'[k] # NoCall => signal'[daemons[k]] = "none"
         /\ \A k \in ks : daemons[k] \in Calls /\ signal'[daemons[k]] = "term"
                          /\ daemons'[k] = NoCall
  <1>1. /\ \A k \in Key : daemons'[k] = IF k \in ks THEN NoCall ELSE daemons[k]
        /\ \A d \in Calls : signal'[d] =
              IF \E k \in ks : daemons[k] = d THEN "term" ELSE signal[d]
    BY DEF Terminate
  <1>2. ks \subseteq Key
    BY DEF RegisteredKeys
  <1>3. \A k \in Key : daemons[k] # NoCall =>
          daemons[k] \in Calls /\ key[daemons[k]] = k /\ signal[daemons[k]] = "none"
    BY DEF IInv, TypeOK, RegisteredHandles, RegisteredKeys, CallsOrNone
  <1>4. \A k \in ks : daemons[k] # NoCall
    BY DEF RegisteredKeys
  <1>5. ASSUME NEW k \in Key, daemons'[k] # NoCall
        PROVE  signal'[daemons[k]] = "none"
    <2>1. k \notin ks /\ daemons[k] # NoCall
      BY <1>1, <1>5
    <2>2. ~ \E j \in ks : daemons[j] = daemons[k]
      BY <2>1, <1>2, <1>3, <1>4
    <2>3. QED
      BY <2>1, <2>2, <1>1, <1>3
  <1>6. QED
    BY <1>1, <1>2, <1>3, <1>4, <1>5

-----------------------------------------------------------------------------
(* Each kind of step preserves the invariant.                              *)

\* A call derives its key and its history variable from one version.
LEMMA IssueStep ==
  ASSUME IInv, TypeOK',
         NEW c \in Calls, NEW o \in Kinds, NEW f \in Files, Issue(c, o, f)
  PROVE  IInv'
  <1> USE RegistryAssumption DEF IInv, TypeOK
  <1>1. KeyInv'
    <2>1. ASSUME NEW e \in Calls, e # c
          PROVE  (key[e][2] = saw[e] /\ saw[e] <= version[key[e][1]])'
      BY <2>1 DEF Issue, RegistryStep, KeyInv
    <2>2. key'[c] = <<f, version[f]>> /\ saw'[c] = version[f] /\ version' = version
      BY DEF Issue, RegistryStep, KeyOf
    <2>3. version[f] <= version[f]
      BY DEF Versions
    <2>4. (key[c][2] = saw[c] /\ saw[c] <= version[key[c][1]])'
      BY <2>2, <2>3
    <2>5. QED
      BY <2>1, <2>4 DEF KeyInv
  <1>2. ChildInv'
    BY DEF Issue, RegistryStep, mapVars, childVars, ChildInv, BeforeLaunch, KeyInv
  <1>3. RegisteredHandles'
    BY DEF Issue, RegistryStep, mapVars, childVars, RegisteredHandles, RegisteredKeys, ChildInv, BeforeLaunch, CallsOrNone
  <1>4. ServedInv'
    BY DEF Issue, RegistryStep, mapVars, childVars, ServedInv, ChildInv, BeforeLaunch, CallsOrNone
  <1>5. QED
    BY <1>1, <1>2, <1>3, <1>4

\* A call that does not wait for a spawn settles; only a call that was
\* waiting for a reply is answered.
LEMMA SettleStep ==
  ASSUME IInv, TypeOK',
         NEW c \in Calls, NEW o \in Outcomes, Settle(c, o),
         UNCHANGED <<version, mapVars, childVars>>,
         pc[c] # "loading", o = "replied" => pc[c] = "reply"
  PROVE  IInv'
  <1> USE RegistryAssumption DEF IInv, TypeOK
  <1>1. KeyInv'
    BY DEF Settle, mapVars, childVars, KeyInv
  <1>2. ChildInv'
    BY DEF Settle, mapVars, childVars, ChildInv, BeforeLaunch
  <1>3. RegisteredHandles'
    BY DEF Settle, mapVars, childVars, RegisteredHandles, RegisteredKeys
  <1>4. ServedInv'
    BY DEF Settle, mapVars, childVars, ServedInv
  <1>5. QED
    BY <1>1, <1>2, <1>3, <1>4

\* A call moves on among the awaits before its spawn, or hangs.
LEMMA GotoStep ==
  ASSUME IInv, TypeOK',
         NEW c \in Calls, NEW a \in Awaits, Goto(c, a), version' = version,
         \/ pc[c] \in BeforeLaunch /\ a \in BeforeLaunch
         \/ pc[c] = "reply" /\ a = "hung"
  PROVE  IInv'
  <1> USE RegistryAssumption DEF IInv, TypeOK
  <1>1. KeyInv'
    BY DEF Goto, mapVars, childVars, KeyInv
  <1>2. ChildInv'
    BY DEF Goto, mapVars, childVars, ChildInv, BeforeLaunch
  <1>3. RegisteredHandles'
    BY DEF Goto, mapVars, childVars, RegisteredHandles, RegisteredKeys
  <1>4. ServedInv'
    BY DEF Goto, mapVars, childVars, ServedInv, BeforeLaunch
  <1>5. QED
    BY <1>1, <1>2, <1>3, <1>4

\* A warm daemon is dialled.
LEMMA DialStep ==
  ASSUME IInv, TypeOK',
         NEW c \in Calls, pc[c] = "lookup", daemons[key[c]] # NoCall,
         Dial(c, daemons[key[c]]), version' = version
  PROVE  IInv'
  <1> USE RegistryAssumption DEF IInv, TypeOK
  <1>1. KeyInv'
    BY DEF Dial, mapVars, childVars, KeyInv
  <1>2. ChildInv'
    BY DEF Dial, mapVars, childVars, ChildInv, BeforeLaunch
  <1>3. RegisteredHandles'
    BY DEF Dial, mapVars, childVars, RegisteredHandles, RegisteredKeys
  <1>4. ServedInv'
    BY DEF Dial, mapVars, childVars, ServedInv, RegisteredHandles, RegisteredKeys, CallsOrNone
  <1>5. QED
    BY <1>1, <1>2, <1>3, <1>4

\* A call takes a registered daemon down and waits for its exit.
LEMMA AwaitStep ==
  ASSUME IInv, TypeOK',
         NEW c \in Calls, NEW k \in RegisteredKeys, NEW a \in BeforeLaunch,
         pc[c] \in BeforeLaunch, TerminateAndAwait(c, k, a), version' = version
  PROVE  IInv'
  <1> USE RegistryAssumption DEF IInv, TypeOK
  <1>t. /\ \A j \in Key : daemons'[j] \in {daemons[j], NoCall}
        /\ \A d \in Calls : signal'[d] # signal[d] =>
             signal'[d] = "term" /\ daemons[key[d]] = d
        /\ \A j \in Key : daemons'[j] # NoCall => signal'[daemons[j]] = "none"
    BY TerminateEffect DEF TerminateAndAwait
  <1>1. KeyInv'
    BY DEF TerminateAndAwait, KeyInv
  <1>2. ChildInv'
    BY <1>t DEF TerminateAndAwait, ChildInv, BeforeLaunch, RegisteredHandles, RegisteredKeys
  <1>3. RegisteredHandles'
    BY <1>t DEF TerminateAndAwait, RegisteredHandles, RegisteredKeys
  <1>4. ServedInv'
    BY DEF TerminateAndAwait, ServedInv, BeforeLaunch
  <1>5. QED
    BY <1>1, <1>2, <1>3, <1>4

\* The reaper and shutdown() take several daemons down; no call moves.
LEMMA MassTerminateStep ==
  ASSUME IInv, TypeOK',
         NEW ks \in SUBSET RegisteredKeys, Terminate(ks),
         UNCHANGED <<version, callVars, proc, loaded, exitSeen>>
  PROVE  IInv'
  <1> USE RegistryAssumption DEF IInv, TypeOK
  <1>t. /\ \A j \in Key : daemons'[j] \in {daemons[j], NoCall}
        /\ \A d \in Calls : signal'[d] # signal[d] =>
             signal'[d] = "term" /\ daemons[key[d]] = d
        /\ \A j \in Key : daemons'[j] # NoCall => signal'[daemons[j]] = "none"
    BY TerminateEffect
  <1>1. KeyInv'
    BY DEF KeyInv, callVars
  <1>2. ChildInv'
    BY <1>t DEF ChildInv, BeforeLaunch, RegisteredHandles, RegisteredKeys, callVars
  <1>3. RegisteredHandles'
    BY <1>t DEF RegisteredHandles, RegisteredKeys, callVars
  <1>4. ServedInv'
    BY DEF ServedInv, callVars
  <1>5. QED
    BY <1>1, <1>2, <1>3, <1>4

\* A child is spawned: it is new, and not in the map.
LEMMA LaunchStep ==
  ASSUME IInv, TypeOK',
         NEW c \in Calls, Launch(c)
  PROVE  IInv'
  <1> USE RegistryAssumption DEF IInv, TypeOK
  <1>1. KeyInv'
    BY DEF Launch, RegistryStep, KeyInv
  <1>2. ChildInv'
    <2>1. daemons[key[c]] # c
      BY DEF Launch, ChildInv, RegisteredHandles, RegisteredKeys, BeforeLaunch
    <2>2. loaded'[c] \in saw[c] .. version[key[c][1]]
      BY DEF Launch, KeyInv, Versions, Key
    <2>3. QED
      BY <2>1, <2>2 DEF Launch, RegistryStep, ChildInv, BeforeLaunch
  <1>3. RegisteredHandles'
    BY DEF Launch, RegistryStep, RegisteredHandles, RegisteredKeys, ChildInv, BeforeLaunch
  <1>4. ServedInv'
    BY DEF Launch, RegistryStep, ServedInv, ChildInv, BeforeLaunch
  <1>5. QED
    BY <1>1, <1>2, <1>3, <1>4

\* A ready child is registered under its key, perhaps in the place of a
\* duplicate, and its call dials it.
LEMMA ReadyStep ==
  ASSUME IInv, TypeOK',
         NEW c \in Calls, Ready(c)
  PROVE  IInv'
  <1> USE RegistryAssumption DEF IInv, TypeOK
  <1>1. KeyInv'
    BY DEF Ready, RegistryStep, childVars, KeyInv
  <1>2. ChildInv'
    BY DEF Ready, RegistryStep, childVars, ChildInv, BeforeLaunch
  <1>3. RegisteredHandles'
    BY DEF Ready, RegistryStep, childVars, RegisteredHandles, RegisteredKeys, ChildInv
  <1>4. ServedInv'
    BY DEF Ready, RegistryStep, childVars, ServedInv
  <1>5. QED
    BY <1>1, <1>2, <1>3, <1>4

\* A child whose spawn times out is killed: it was not in the map.
LEMMA SpawnTimeoutStep ==
  ASSUME IInv, TypeOK',
         NEW c \in Calls, SpawnTimeout(c)
  PROVE  IInv'
  <1> USE RegistryAssumption DEF IInv, TypeOK
  <1>1. KeyInv'
    BY DEF SpawnTimeout, Settle, RegistryStep, KeyInv
  <1>2. ChildInv'
    BY DEF SpawnTimeout, Settle, RegistryStep, ChildInv, BeforeLaunch
  <1>3. RegisteredHandles'
    BY DEF SpawnTimeout, Settle, RegistryStep, RegisteredHandles, RegisteredKeys, ChildInv
  <1>4. ServedInv'
    BY DEF SpawnTimeout, Settle, RegistryStep, ServedInv
  <1>5. QED
    BY <1>1, <1>2, <1>3, <1>4

\* The request is written to the daemon.
LEMMA ConnectStep ==
  ASSUME IInv, TypeOK',
         NEW c \in Calls, Connect(c)
  PROVE  IInv'
  <1> USE RegistryAssumption DEF IInv, TypeOK
  <1>1. KeyInv'
    BY DEF Connect, RegistryStep, childVars, KeyInv
  <1>2. ChildInv'
    BY DEF Connect, RegistryStep, childVars, ChildInv, BeforeLaunch
  <1>3. RegisteredHandles'
    BY DEF Connect, RegistryStep, childVars, RegisteredHandles, RegisteredKeys
  <1>4. ServedInv'
    BY DEF Connect, RegistryStep, childVars, ServedInv
  <1>5. QED
    BY <1>1, <1>2, <1>3, <1>4

\* An exit event drops the handle of the very child that exited.
LEMMA ExitEventStep ==
  ASSUME IInv, TypeOK',
         NEW d \in Calls, ExitEvent(d)
  PROVE  IInv'
  <1> USE RegistryAssumption DEF IInv, TypeOK
  <1>c. /\ key' = key /\ saw' = saw /\ version' = version
        /\ \/ pc' = pc /\ outcome' = outcome /\ target' = target
           \/ /\ pc[d] = "loading" /\ pc' = [pc EXCEPT ![d] = "done"]
              /\ outcome' = [outcome EXCEPT ![d] = "spawn-failed"]
              /\ target' = [target EXCEPT ![d] = NoCall]
    BY DEF ExitEvent, RegistryStep, Settle, callVars
  <1>1. KeyInv'
    BY <1>c DEF KeyInv
  <1>2. ChildInv'
    <2>0. /\ proc' = proc /\ loaded' = loaded /\ signal' = signal
          /\ proc[d] \in {"aborted", "stopped"}
          /\ exitSeen' = [exitSeen EXCEPT ![d] = TRUE]
          /\ daemons' = AfterExit(d)
      BY DEF ExitEvent
    <2>1. \A k \in Key : daemons'[k] \in {daemons[k], NoCall}
      BY <2>0 DEF AfterExit
    <2>2. pc[d] = "loading" => pc'[d] = "done"
      BY DEF ExitEvent, Settle
    <2>3. \A e \in Calls : pc'[e] # pc[e] => pc'[e] = "done" /\ e = d
      BY <1>c
    <2>4. ASSUME NEW e \in Calls
          PROVE  /\ pc'[e] \in BeforeLaunch => proc'[e] = "none"
                 /\ proc'[e] = "none" => signal'[e] = "none" /\ ~exitSeen'[e]
                 /\ proc'[e] # "none" => loaded'[e] \in saw'[e] .. version'[key'[e][1]]
                 /\ exitSeen'[e] => proc'[e] \in {"aborted", "stopped"}
      BY <1>c, <2>0, <2>3 DEF ChildInv, BeforeLaunch
    <2>5. ASSUME NEW e \in Calls, pc'[e] = "loading"
          PROVE  /\ proc'[e] # "none" /\ signal'[e] = "none" /\ ~exitSeen'[e]
                 /\ daemons'[key'[e]] # e
      BY <1>c, <2>0, <2>1, <2>2, <2>3, <2>5 DEF ChildInv
    <2>6. ASSUME NEW e \in Calls, proc'[e] = "starting", signal'[e] = "none"
          PROVE  pc'[e] = "loading"
      BY <1>c, <2>0, <2>3, <2>6 DEF ChildInv
    <2>7. QED
      BY <2>4, <2>5, <2>6 DEF ChildInv
  <1>3. RegisteredHandles'
    BY <1>c DEF ExitEvent, AfterExit, RegisteredHandles, RegisteredKeys
  <1>4. ServedInv'
    BY <1>c DEF ExitEvent, ServedInv
  <1>5. QED
    BY <1>1, <1>2, <1>3, <1>4

\* SIGKILL follows SIGTERM: the child was not in the map any more.
LEMMA KillGraceStep ==
  ASSUME IInv, TypeOK',
         NEW d \in Calls, KillGrace(d)
  PROVE  IInv'
  <1> USE RegistryAssumption DEF IInv, TypeOK
  <1>1. KeyInv'
    BY DEF KillGrace, RegistryStep, mapVars, callVars, KeyInv
  <1>2. ChildInv'
    BY DEF KillGrace, RegistryStep, mapVars, callVars, ChildInv, BeforeLaunch
  <1>3. RegisteredHandles'
    BY DEF KillGrace, RegistryStep, mapVars, callVars, RegisteredHandles, RegisteredKeys
  <1>4. ServedInv'
    BY DEF KillGrace, RegistryStep, mapVars, callVars, ServedInv
  <1>5. QED
    BY <1>1, <1>2, <1>3, <1>4

\* A child parses contents between the ones at launch and the present ones.
LEMMA AnnounceStep ==
  ASSUME IInv, TypeOK',
         NEW d \in Calls, Announce(d)
  PROVE  IInv'
  <1> USE RegistryAssumption DEF IInv, TypeOK
  <1>1. KeyInv'
    BY DEF Announce, mapVars, callVars, KeyInv
  <1>2. ChildInv'
    BY DEF Announce, mapVars, callVars, ChildInv, BeforeLaunch, Versions, Key
  <1>3. RegisteredHandles'
    BY DEF Announce, mapVars, callVars, RegisteredHandles, RegisteredKeys
  <1>4. ServedInv'
    BY DEF Announce, mapVars, callVars, ServedInv
  <1>5. QED
    BY <1>1, <1>2, <1>3, <1>4

\* A child ends.
LEMMA DieStep ==
  ASSUME IInv, TypeOK',
         NEW d \in Calls, Die(d)
  PROVE  IInv'
  <1> USE RegistryAssumption DEF IInv, TypeOK
  <1>1. KeyInv'
    BY DEF Die, Alive, mapVars, callVars, KeyInv
  <1>2. ChildInv'
    BY DEF Die, Alive, mapVars, callVars, ChildInv, BeforeLaunch
  <1>3. RegisteredHandles'
    BY DEF Die, Alive, mapVars, callVars, RegisteredHandles, RegisteredKeys
  <1>4. ServedInv'
    BY DEF Die, Alive, mapVars, callVars, ServedInv
  <1>5. QED
    BY <1>1, <1>2, <1>3, <1>4

\* A file changes.
LEMMA RewriteStep ==
  ASSUME IInv, TypeOK',
         NEW f \in Files, Rewrite(f)
  PROVE  IInv'
  <1> USE RegistryAssumption DEF IInv, TypeOK
  <1>1. KeyInv'
    BY DEF Rewrite, mapVars, callVars, childVars, KeyInv, Versions, Key
  <1>2. ChildInv'
    BY DEF Rewrite, mapVars, callVars, childVars, ChildInv, BeforeLaunch, Versions, Key
  <1>3. RegisteredHandles'
    BY DEF Rewrite, mapVars, callVars, childVars, RegisteredHandles, RegisteredKeys
  <1>4. ServedInv'
    BY DEF Rewrite, mapVars, callVars, childVars, ServedInv
  <1>5. QED
    BY <1>1, <1>2, <1>3, <1>4

\* Nothing the invariant speaks of changes.
LEMMA IdleStep ==
  ASSUME IInv, TypeOK',
         UNCHANGED <<version, daemons, callVars, childVars>>
  PROVE  IInv'
  <1> USE RegistryAssumption DEF IInv, TypeOK
  <1>1. KeyInv'
    BY DEF callVars, childVars, KeyInv
  <1>2. ChildInv'
    BY DEF callVars, childVars, ChildInv, BeforeLaunch
  <1>3. RegisteredHandles'
    BY DEF callVars, childVars, RegisteredHandles, RegisteredKeys
  <1>4. ServedInv'
    BY DEF callVars, childVars, ServedInv
  <1>5. QED
    BY <1>1, <1>2, <1>3, <1>4

\* Every step preserves the invariant.
LEMMA InvStep == IInv /\ [Next]_vars => IInv'
  <1> SUFFICES ASSUME IInv, [Next]_vars PROVE IInv'
    OBVIOUS
  <1>t. TypeOK'
    BY TypeStep DEF IInv
  <1>s. ASSUME NEW c \in Calls, pc[c] \in BeforeLaunch, RegistryStep, ClearStale(c)
        PROVE  IInv'
    BY <1>t, <1>s, AwaitStep, GotoStep
       DEF ClearStale, StaleKeys, RegistryStep, BeforeLaunch, Awaits
  <1>m. ASSUME NEW c \in Calls, pc[c] \in BeforeLaunch, RegistryStep, MakeRoom(c)
        PROVE  IInv'
    BY <1>t, <1>m, AwaitStep, GotoStep
       DEF MakeRoom, LruKeys, RegistryStep, BeforeLaunch, Awaits
  <1>1. ASSUME NEW c \in Calls, CallStep(c) PROVE IInv'
    <2>1. ASSUME NEW o \in Kinds, NEW f \in Files, Issue(c, o, f) PROVE IInv'
      BY <1>t, <2>1, IssueStep
    <2>2. CASE IssueNotFound(c)
      BY <1>t, <2>2, SettleStep DEF IssueNotFound, RegistryStep, Outcomes
    <2>3. CASE LookupQuery(c)
      BY <1>t, <1>s, <2>3, DialStep DEF LookupQuery, RegistryStep, BeforeLaunch
    <2>4. CASE ResumeStale(c)
      BY <1>s, <2>4 DEF ResumeStale, BeforeLaunch
    <2>5. CASE Refuse(c)
      BY <1>t, <2>5, SettleStep DEF Refuse, RegistryStep, Outcomes
    <2>6. CASE Admit(c) \/ ResumeEvict(c)
      BY <1>m, <2>6 DEF Admit, ResumeEvict, BeforeLaunch
    <2>7. CASE Launch(c)
      BY <1>t, <2>7, LaunchStep
    <2>8. CASE Ready(c)
      BY <1>t, <2>8, ReadyStep
    <2>9. CASE SpawnTimeout(c)
      BY <1>t, <2>9, SpawnTimeoutStep
    <2>10. CASE Connect(c)
      BY <1>t, <2>10, ConnectStep
    <2>11. CASE ConnectFails(c) \/ Reply(c) \/ ConnectionReset(c)
      BY <1>t, <2>11, SettleStep
         DEF ConnectFails, Reply, ConnectionReset, RegistryStep, Outcomes
    <2>12. CASE ConnectionEnds(c)
      BY <1>t, <2>12, GotoStep DEF ConnectionEnds, RegistryStep, Awaits
    <2>13. CASE LookupUnload(c)
      <3>1. CASE Settle(c, "not-loaded") /\ UNCHANGED <<mapVars, childVars>>
        BY <1>t, <2>13, <3>1, SettleStep DEF LookupUnload, RegistryStep, Outcomes
      <3>2. CASE daemons[key[c]] # NoCall /\ TerminateAndAwait(c, key[c], "unload")
        <4>1. key[c] \in RegisteredKeys
          BY <3>2 DEF RegisteredKeys, IInv, TypeOK
        <4>2. QED
          BY <1>t, <2>13, <3>2, <4>1, AwaitStep DEF LookupUnload, RegistryStep, BeforeLaunch
      <3>3. QED
        BY <2>13, <3>1, <3>2 DEF LookupUnload
    <2>14. CASE ResumeUnload(c)
      BY <1>t, <2>14, SettleStep DEF ResumeUnload, RegistryStep, Outcomes
    <2>15. CASE LookupControl(c)
      BY <1>t, <2>15, SettleStep, DialStep DEF LookupControl, RegistryStep, Outcomes
    <2>16. QED
      BY <1>1, <2>1, <2>2, <2>3, <2>4, <2>5, <2>6, <2>7, <2>8, <2>9, <2>10, <2>11, <2>12,
         <2>13, <2>14, <2>15 DEF CallStep
  <1>2. ASSUME NEW d \in Calls, ExitEvent(d) \/ KillGrace(d) \/ Announce(d) \/ Die(d)
        PROVE  IInv'
    BY <1>t, <1>2, ExitEventStep, KillGraceStep, AnnounceStep, DieStep
  <1>3. CASE ReapIdle
    <2>1. ExpiredKeys \in SUBSET RegisteredKeys
      BY DEF ExpiredKeys
    <2>2. QED
      BY <1>t, <1>3, <2>1, MassTerminateStep DEF ReapIdle, RegistryStep
  <1>4. CASE Shutdown
    BY <1>t, <1>4, MassTerminateStep DEF Shutdown
  <1>5. CASE Exit \/ Crash \/ Tick \/ UNCHANGED vars
    BY <1>t, <1>5, IdleStep DEF Exit, Crash, Tick, vars, mapVars
  <1>6. ASSUME NEW f \in Files, Rewrite(f) PROVE IInv'
    BY <1>t, <1>6, RewriteStep
  <1>7. QED
    BY <1>1, <1>2, <1>3, <1>4, <1>5, <1>6 DEF Next

\* The invariant at the start.
LEMMA InvInit == Init => IInv
  BY TypeCorrectInit
     DEF Init, IInv, KeyInv, ChildInv, RegisteredHandles, RegisteredKeys, ServedInv, BeforeLaunch

\* The invariant holds in every reachable state.
LEMMA InvInductive == Spec => []IInv
  BY InvInit, InvStep, PTL DEF Spec

\* The registry's handles: whoever terminates a daemon it found in the map has
\* an exit event to wait for.
THEOREM HandlesSound == Spec => []RegisteredHandles
  <1>1. IInv => RegisteredHandles
    BY DEF IInv
  <1>2. QED
    BY <1>1, InvInductive, PTL

\* The contents of the daemon a query talks to, from the invariant.
LEMMA FreshInv == IInv => FreshContents
  <1> SUFFICES ASSUME IInv, NEW c \in Calls,
                      pc[c] \in {"connect", "reply", "hung"} \/ outcome[c] = "replied"
               PROVE  /\ target[c] \in Calls
                      /\ proc[target[c]] \in {"listening", "stopped"}
                      /\ key[target[c]] = key[c]
                      /\ loaded[target[c]] \in saw[c] .. version[key[c][1]]
    BY DEF FreshContents
  <1>1. /\ target[c] \in Calls
        /\ proc[target[c]] \in {"listening", "stopped"}
        /\ key[target[c]] = key[c]
    BY DEF IInv, ServedInv
  <1>2. loaded[target[c]] \in saw[target[c]] .. version[key[target[c]][1]]
    BY <1>1 DEF IInv, ChildInv
  <1>3. saw[target[c]] = saw[c]
    BY <1>1 DEF IInv, KeyInv
  <1>4. QED
    BY <1>1, <1>2, <1>3

\* The answers: however calls, evictions and rewrites of the file interleave,
\* the daemon a query talks to has parsed contents between those the query saw
\* and the present ones.
THEOREM ContentsFresh == Spec => []FreshContents
  BY FreshInv, InvInductive, PTL

-----------------------------------------------------------------------------
(* The registry implements TraceService.                                   *)

ServiceAbout == [c \in Calls |-> key[c][1]]

serviceView == <<version, ServiceState, ServiceAbout, saw, ServiceGot>>

\* A call that is under way is pending, and has been answered nothing.
LEMMA PendingView ==
  ASSUME IInv, NEW c \in Calls, pc[c] # "done"
  PROVE  /\ ServiceState[c] = IF pc[c] = "idle" THEN "idle" ELSE "pending"
         /\ ServiceGot[c] = 0
  BY DEF ServiceState, ServiceGot, IInv, ServedInv

\* Answers do not change: a child parses its trace before it can be dialled.
LEMMA AnswersStay ==
  ASSUME IInv, NEW e \in Calls, UNCHANGED <<outcome[e], kind[e], target[e]>>,
         \A d \in Calls : loaded'[d] # loaded[d] => proc[d] \in {"none", "starting"}
  PROVE  ServiceGot'[e] = ServiceGot[e]
  BY DEF ServiceGot, IInv, ServedInv

\* The service does not see a step in which calls stay where they are or move
\* from one await to another.
LEMMA Unseen ==
  ASSUME IInv, UNCHANGED <<version, key, saw, outcome, kind>>,
         \A c \in Calls :
           \/ pc'[c] = pc[c] /\ target'[c] = target[c]
           \/ pc[c] \notin {"idle", "done"} /\ pc'[c] \notin {"idle", "done"},
         \A d \in Calls : loaded'[d] # loaded[d] => proc[d] \in {"none", "starting"}
  PROVE  UNCHANGED serviceView
  <1>1. ASSUME NEW c \in Calls PROVE ServiceGot'[c] = ServiceGot[c]
    <2>1. CASE pc'[c] = pc[c] /\ target'[c] = target[c]
      BY <2>1, AnswersStay
    <2>2. CASE pc[c] \notin {"idle", "done"} /\ pc'[c] \notin {"idle", "done"}
      BY <2>2 DEF ServiceGot, IInv, ServedInv
    <2>3. QED
      BY <2>1, <2>2
  <1>2. ASSUME NEW c \in Calls PROVE ServiceState'[c] = ServiceState[c]
    BY DEF ServiceState
  <1>3. ServiceGot' = ServiceGot
    BY <1>1 DEF ServiceGot
  <1>4. ServiceState' = ServiceState
    BY <1>2 DEF ServiceState
  <1>5. QED
    BY <1>3, <1>4 DEF serviceView, ServiceAbout

\* A call that settles without an answer from the trace settles for the
\* service.
LEMMA SettleSeen ==
  ASSUME IInv, NEW c \in Calls, NEW o, pc[c] # "done", Settle(c, o),
         o # "replied" \/ kind[c] # "query",
         UNCHANGED <<version, loaded>>
  PROVE  Service!Settle(c)
  <1> USE DEF IInv, TypeOK
  <1>1. /\ pc' = [pc EXCEPT ![c] = "done"]
        /\ outcome' = [outcome EXCEPT ![c] = o]
        /\ \A e \in Calls \ {c} : target'[e] = target[e]
        /\ UNCHANGED <<kind, key, saw>>
    BY DEF Settle
  <1>2. ServiceState[c] \in {"idle", "pending"} /\ ServiceGot[c] = 0
    BY PendingView
  <1>3. ServiceState' = [ServiceState EXCEPT ![c] = "settled"]
    BY <1>1 DEF ServiceState
  <1>4. ServiceGot' = ServiceGot
    <2>1. ASSUME NEW e \in Calls PROVE ServiceGot'[e] = ServiceGot[e]
      BY <1>1, <1>2 DEF ServiceGot
    <2>2. QED
      BY <2>1 DEF ServiceGot
  <1>5. QED
    BY <1>1, <1>2, <1>3, <1>4 DEF Service!Settle

\* A reply to a query is an answer from contents the file had since the query
\* looked at it.
LEMMA ReplySeen ==
  ASSUME IInv, NEW c \in Calls, Reply(c), kind[c] = "query"
  PROVE  Service!Answer(c)
  <1> USE DEF IInv, TypeOK
  <1>1. /\ pc[c] = "reply"
        /\ pc' = [pc EXCEPT ![c] = "done"]
        /\ outcome' = [outcome EXCEPT ![c] = "replied"]
        /\ \A e \in Calls : target'[e] = target[e]
        /\ UNCHANGED <<version, kind, key, saw, loaded>>
    BY DEF Reply, Settle, RegistryStep, childVars
  <1>2. loaded[target[c]] \in saw[c] .. version[key[c][1]]
    BY <1>1, FreshInv DEF FreshContents
  <1>3. ServiceState[c] = "pending"
    BY <1>1, PendingView
  <1>4. ServiceState' = [ServiceState EXCEPT ![c] = "answered"]
    BY <1>1 DEF ServiceState
  <1>5. ServiceGot' = [ServiceGot EXCEPT ![c] = loaded[target[c]]]
    BY <1>1 DEF ServiceGot
  <1>6. QED
    BY <1>1, <1>2, <1>3, <1>4, <1>5 DEF Service!Answer

\* A call that looks at its file asks.
LEMMA IssueSeen ==
  ASSUME IInv, NEW c \in Calls, NEW o \in Kinds, NEW f \in Files, Issue(c, o, f)
  PROVE  Service!Ask(c, f)
  <1> USE DEF IInv, TypeOK
  <1>1. /\ pc[c] = "idle"
        /\ pc' = [pc EXCEPT ![c] = "lookup"]
        /\ key' = [key EXCEPT ![c] = <<f, version[f]>>]
        /\ saw' = [saw EXCEPT ![c] = version[f]]
        /\ \A e \in Calls \ {c} : kind'[e] = kind[e]
        /\ UNCHANGED <<version, outcome, target, loaded>>
    BY DEF Issue, RegistryStep, childVars, KeyOf
  <1>2. ServiceState[c] = "idle" /\ outcome[c] # "replied"
    BY <1>1 DEF ServiceState, ServedInv
  <1>3. ServiceState' = [ServiceState EXCEPT ![c] = "pending"]
    BY <1>1 DEF ServiceState
  <1>4. ServiceGot' = ServiceGot
    BY <1>1, <1>2 DEF ServiceGot
  <1>5. ServiceAbout' = [ServiceAbout EXCEPT ![c] = f]
    BY <1>1 DEF ServiceAbout
  <1>6. QED
    BY <1>1, <1>2, <1>3, <1>4, <1>5 DEF Service!Ask, ServiceAbout

\* Every step of the registry is a step of the service, or none.
LEMMA ServiceStep == IInv /\ [Next]_vars => Service!Next \/ UNCHANGED serviceView
  <1> SUFFICES ASSUME IInv, [Next]_vars PROVE Service!Next \/ UNCHANGED serviceView
    OBVIOUS
  <1> USE DEF IInv, TypeOK
  <1>f. ASSUME NEW c \in Calls, NEW o, pc[c] # "done", Settle(c, o),
               o # "replied" \/ kind[c] # "query", UNCHANGED <<version, loaded>>
        PROVE  Service!Next
    BY <1>f, SettleSeen DEF Service!Next
  <1>u. ASSUME UNCHANGED <<version, key, saw, outcome, kind, loaded>>,
               \A c \in Calls :
                 \/ pc'[c] = pc[c] /\ target'[c] = target[c]
                 \/ pc[c] \notin {"idle", "done"} /\ pc'[c] \notin {"idle", "done"}
        PROVE  UNCHANGED serviceView
    BY <1>u, Unseen
  <1>a. ASSUME NEW c \in Calls, NEW k, NEW a \in {"stale", "evict", "unload"},
               pc[c] \notin {"idle", "done"}, RegistryStep, TerminateAndAwait(c, k, a)
        PROVE  UNCHANGED serviceView
    BY <1>a, <1>u DEF TerminateAndAwait, RegistryStep
  <1>g. ASSUME NEW c \in Calls, NEW a \in {"admit", "mkdir", "hung"},
               pc[c] \notin {"idle", "done"}, RegistryStep, Goto(c, a)
        PROVE  UNCHANGED serviceView
    BY <1>g, <1>u DEF Goto, RegistryStep, childVars
  <1>d. ASSUME NEW c \in Calls, NEW d, pc[c] \notin {"idle", "done"}, RegistryStep, Dial(c, d)
        PROVE  UNCHANGED serviceView
    BY <1>d, <1>u DEF Dial, RegistryStep, childVars
  <1>1. ASSUME NEW c \in Calls, CallStep(c) PROVE Service!Next \/ UNCHANGED serviceView
    <2>1. ASSUME NEW o \in Kinds, NEW f \in Files, Issue(c, o, f) PROVE Service!Next
      BY <2>1, IssueSeen DEF Service!Next
    <2>2. CASE IssueNotFound(c) \/ Refuse(c) \/ ConnectFails(c) \/ ConnectionReset(c)
               \/ ResumeUnload(c) \/ SpawnTimeout(c)
      BY <2>2, <1>f DEF IssueNotFound, Refuse, ConnectFails, ConnectionReset, ResumeUnload,
                        SpawnTimeout, RegistryStep, childVars
    <2>3. CASE Reply(c)
      <3>1. CASE kind[c] = "query"
        BY <2>3, <3>1, ReplySeen DEF Service!Next
      <3>2. CASE kind[c] # "query"
        BY <2>3, <3>2, <1>f DEF Reply, RegistryStep, childVars
      <3>3. QED
        BY <3>1, <3>2
    <2>4. CASE LookupQuery(c) \/ ResumeStale(c)
      BY <2>4, <1>a, <1>g, <1>d DEF LookupQuery, ResumeStale, ClearStale
    <2>5. CASE Admit(c) \/ ResumeEvict(c)
      BY <2>5, <1>a, <1>g DEF Admit, ResumeEvict, MakeRoom
    <2>6. CASE Launch(c)
      <3>1. proc[c] = "none"
        BY <2>6 DEF Launch, ChildInv, BeforeLaunch
      <3>2. QED
        BY <2>6, <3>1, Unseen DEF Launch, RegistryStep
    <2>7. CASE Ready(c) \/ Connect(c)
      BY <2>7, <1>u DEF Ready, Connect, RegistryStep, childVars
    <2>8. CASE ConnectionEnds(c)
      BY <2>8, <1>g DEF ConnectionEnds
    <2>9. CASE LookupUnload(c)
      BY <2>9, <1>f, <1>a DEF LookupUnload, RegistryStep, childVars
    <2>10. CASE LookupControl(c)
      BY <2>10, <1>f, <1>d DEF LookupControl, RegistryStep, childVars
    <2>11. QED
      BY <1>1, <2>1, <2>2, <2>3, <2>4, <2>5, <2>6, <2>7, <2>8, <2>9, <2>10 DEF CallStep
  <1>2. ASSUME NEW d \in Calls, ExitEvent(d) PROVE Service!Next \/ UNCHANGED serviceView
    <2>1. CASE pc[d] = "loading" /\ Settle(d, "spawn-failed")
      BY <1>2, <2>1, <1>f DEF ExitEvent, RegistryStep
    <2>2. CASE UNCHANGED callVars
      BY <1>2, <2>2, <1>u DEF ExitEvent, RegistryStep, callVars
    <2>3. QED
      BY <1>2, <2>1, <2>2 DEF ExitEvent
  <1>3. ASSUME NEW d \in Calls, Announce(d) PROVE UNCHANGED serviceView
    BY <1>3, Unseen DEF Announce, callVars
  <1>4. ASSUME NEW d \in Calls, KillGrace(d) \/ Die(d) PROVE UNCHANGED serviceView
    BY <1>4, <1>u DEF KillGrace, Die, RegistryStep, callVars
  <1>5. CASE ReapIdle \/ Shutdown \/ Exit \/ Crash \/ Tick \/ UNCHANGED vars
    BY <1>5, <1>u DEF ReapIdle, Shutdown, Exit, Crash, Tick, RegistryStep, vars, callVars, childVars
  <1>6. ASSUME NEW f \in Files, Rewrite(f) PROVE Service!Next
    <2>1. UNCHANGED <<callVars, childVars>>
      BY <1>6 DEF Rewrite
    <2>2. UNCHANGED <<ServiceState, ServiceAbout, saw, ServiceGot>>
      BY <2>1 DEF ServiceState, ServiceAbout, ServiceGot, callVars, childVars
    <2>3. Service!Rewrite(f)
      BY <1>6, <2>2 DEF Rewrite, Service!Rewrite, ServiceAbout
    <2>4. QED
      BY <2>3 DEF Service!Next
  <1>7. QED
    BY <1>1, <1>2, <1>3, <1>4, <1>5, <1>6 DEF Next

\* At the start nobody has asked the service anything.
LEMMA ServiceInit == Init => Service!Init
  <1> SUFFICES ASSUME Init PROVE Service!Init
    OBVIOUS
  <1>1. ServiceState = [c \in Calls |-> "idle"]
    BY DEF Init, ServiceState
  <1>2. ServiceGot = [c \in Calls |-> 0]
    BY DEF Init, ServiceGot
  <1>3. [c \in Calls |-> key[c][1]] \in [Calls -> Files]
    BY DEF Init
  <1>4. QED
    BY <1>1, <1>2, <1>3 DEF Init, Service!Init

\* The registry keeps the service's promise: a call settles at most once, and
\* a query is answered from contents that its file had between the moment the
\* query looked at it and the answer.
THEOREM RegistryImplementsService == Spec => ImplementsService
  <1>1. IInv /\ [Next]_vars => [Service!Next]_(Service!serviceVars)
    BY ServiceStep DEF serviceView, ServiceAbout, Service!serviceVars
  <1>2. QED
    BY <1>1, ServiceInit, InvInductive, PTL DEF Spec, ImplementsService, Service!Spec

-----------------------------------------------------------------------------
(* Every handle has one terminator.                                        *)

\* A step that lets no call begin to wait, and takes no signal back.
LEMMA TerminatorKept ==
  ASSUME OneTerminator, awaited' = awaited,
         \A c \in Calls : Waiting(c)' => Waiting(c) /\ target'[c] = target[c],
         \A d \in Calls : signal[d] # "none" => signal'[d] # "none",
         awaited \subseteq Calls
  PROVE  OneTerminator'
  BY DEF OneTerminator

\* A signal is never taken back by a terminate().
LEMMA TerminateSignals ==
  ASSUME TypeOK, NEW ks, Terminate(ks)
  PROVE  \A d \in Calls : signal[d] # "none" => signal'[d] # "none"
  BY DEF TypeOK, Terminate

\* A call takes down a daemon it found in the map: nobody has signalled that
\* daemon, so nobody waits for it.
LEMMA AwaitTerminator ==
  ASSUME IInv, OneTerminator, NEW c \in Calls, NEW k \in RegisteredKeys, NEW a \in Awaits,
         RegistryStep, TerminateAndAwait(c, k, a)
  PROVE  OneTerminator'
  <1> USE DEF IInv, TypeOK
  <1>1. /\ daemons[k] \in Calls
        /\ signal[daemons[k]] = "none" /\ signal'[daemons[k]] = "term"
    BY TerminateEffect DEF TerminateAndAwait, RegisteredHandles
  <1>2. \A d \in Calls : signal[d] # "none" => signal'[d] # "none"
    BY TerminateSignals DEF TerminateAndAwait
  <1>3. /\ awaited' = awaited
        /\ target' = [target EXCEPT ![c] = daemons[k]]
        /\ pc' = [pc EXCEPT ![c] = a]
    BY DEF RegistryStep, TerminateAndAwait
  <1>4. \A e \in Calls : e # c /\ Waiting(e) => target[e] # daemons[k]
    BY <1>1 DEF OneTerminator
  <1>5. daemons[k] \notin awaited
    BY <1>1 DEF OneTerminator
  <1>6. \A e \in Calls \ {c} : Waiting(e)' => Waiting(e) /\ target'[e] = target[e]
    BY <1>3 DEF Waiting
  <1>7. target'[c] = daemons[k]
    BY <1>3
  <1>8. \A d \in awaited' : signal'[d] # "none"
    BY <1>2, <1>3 DEF OneTerminator
  <1>9. ASSUME NEW e \in Calls, Waiting(e)'
        PROVE  /\ target'[e] \in Calls /\ signal'[target'[e]] # "none"
               /\ target'[e] \notin awaited'
               /\ \A g \in Calls : Waiting(g)' /\ target'[g] = target'[e] => g = e
    <2>1. CASE e = c
      BY <2>1, <1>1, <1>3, <1>4, <1>5, <1>6, <1>7
    <2>2. CASE e # c
      <3>1. Waiting(e) /\ target'[e] = target[e] /\ target[e] # daemons[k]
        BY <2>2, <1>9, <1>4, <1>6
      <3>2. ASSUME NEW g \in Calls, Waiting(g)', target'[g] = target'[e] PROVE g = e
        BY <3>1, <3>2, <1>6, <1>7 DEF OneTerminator
      <3>3. QED
        BY <3>1, <3>2, <1>2, <1>3 DEF OneTerminator
    <2>3. QED
      BY <2>1, <2>2
  <1>10. QED
    BY <1>8, <1>9 DEF OneTerminator

\* shutdown() takes down what is in the map.
LEMMA ShutdownTerminator ==
  ASSUME IInv, OneTerminator, Shutdown
  PROVE  OneTerminator'
  <1> USE DEF IInv, TypeOK
  <1>1. /\ \A d \in Registered : d \in Calls /\ signal[d] = "none" /\ signal'[d] = "term"
    BY TerminateEffect DEF Shutdown, Registered, RegisteredHandles
  <1>2. \A d \in Calls : signal[d] # "none" => signal'[d] # "none"
    BY TerminateSignals DEF Shutdown
  <1>3. awaited' = Registered /\ pc' = pc /\ target' = target
    BY DEF Shutdown, callVars
  <1>4. QED
    BY <1>1, <1>2, <1>3 DEF OneTerminator, Waiting

\* Every step keeps to one terminator.
LEMMA TerminatorStep == IInv /\ OneTerminator /\ [Next]_vars => OneTerminator'
  <1> SUFFICES ASSUME IInv, OneTerminator, [Next]_vars PROVE OneTerminator'
    OBVIOUS
  <1> USE DEF IInv, TypeOK
  <1>s. ASSUME NEW c \in Calls, RegistryStep, ClearStale(c) PROVE OneTerminator'
    <2>1. CASE \E k \in StaleKeys(key[c]) : TerminateAndAwait(c, k, "stale")
      BY <1>s, <2>1, AwaitTerminator DEF StaleKeys, Awaits
    <2>2. CASE Goto(c, "admit")
      BY <1>s, <2>2, TerminatorKept DEF Goto, RegistryStep, Waiting, childVars
    <2>3. QED
      BY <1>s, <2>1, <2>2 DEF ClearStale
  <1>m. ASSUME NEW c \in Calls, RegistryStep, MakeRoom(c) PROVE OneTerminator'
    <2>1. CASE \E k \in LruKeys : TerminateAndAwait(c, k, "evict")
      BY <1>m, <2>1, AwaitTerminator DEF LruKeys, Awaits
    <2>2. CASE Goto(c, "mkdir")
      BY <1>m, <2>2, TerminatorKept DEF Goto, RegistryStep, Waiting, childVars
    <2>3. QED
      BY <1>m, <2>1, <2>2 DEF MakeRoom
  <1>f. ASSUME NEW c \in Calls, NEW o, RegistryStep, Settle(c, o), signal' = signal
        PROVE  OneTerminator'
    BY <1>f, TerminatorKept DEF Settle, RegistryStep, Waiting
  <1>d. ASSUME NEW c \in Calls, NEW d, RegistryStep, Dial(c, d) PROVE OneTerminator'
    BY <1>d, TerminatorKept DEF Dial, RegistryStep, Waiting, childVars
  <1>1. ASSUME NEW c \in Calls, CallStep(c) PROVE OneTerminator'
    <2>1. ASSUME NEW o \in Kinds, NEW f \in Files, Issue(c, o, f) PROVE OneTerminator'
      BY <2>1, TerminatorKept DEF Issue, RegistryStep, Waiting, childVars
    <2>2. CASE IssueNotFound(c) \/ Refuse(c) \/ ConnectFails(c) \/ Reply(c)
               \/ ConnectionReset(c) \/ ResumeUnload(c)
      BY <2>2, <1>f DEF IssueNotFound, Refuse, ConnectFails, Reply, ConnectionReset,
                        ResumeUnload, childVars
    <2>3. CASE LookupQuery(c)
      BY <2>3, <1>d, <1>s DEF LookupQuery
    <2>4. CASE ResumeStale(c)
      BY <2>4, <1>s DEF ResumeStale
    <2>5. CASE Admit(c) \/ ResumeEvict(c)
      BY <2>5, <1>m DEF Admit, ResumeEvict
    <2>6. CASE Launch(c)
      BY <2>6, TerminatorKept DEF Launch, RegistryStep, Waiting
    <2>7. CASE Ready(c)
      BY <2>7, TerminatorKept DEF Ready, RegistryStep, Waiting, childVars
    <2>8. CASE SpawnTimeout(c)
      BY <2>8, TerminatorKept DEF SpawnTimeout, Settle, RegistryStep, Waiting
    <2>9. CASE Connect(c)
      BY <2>9, TerminatorKept DEF Connect, RegistryStep, Waiting, childVars
    <2>10. CASE ConnectionEnds(c)
      BY <2>10, TerminatorKept DEF ConnectionEnds, Goto, RegistryStep, Waiting, childVars
    <2>11. CASE LookupUnload(c)
      <3>1. CASE daemons[key[c]] = NoCall
        BY <2>11, <3>1, <1>f DEF LookupUnload, childVars
      <3>2. CASE daemons[key[c]] # NoCall
        <4>1. key[c] \in RegisteredKeys
          BY <3>2 DEF RegisteredKeys
        <4>2. QED
          BY <2>11, <3>2, <4>1, AwaitTerminator DEF LookupUnload, Awaits
      <3>3. QED
        BY <3>1, <3>2
    <2>12. CASE LookupControl(c)
      BY <2>12, <1>f, <1>d DEF LookupControl, childVars
    <2>13. QED
      BY <1>1, <2>1, <2>2, <2>3, <2>4, <2>5, <2>6, <2>7, <2>8, <2>9, <2>10, <2>11, <2>12
         DEF CallStep
  <1>2. ASSUME NEW d \in Calls, ExitEvent(d) PROVE OneTerminator'
    <2>1. awaited' = awaited /\ signal' = signal
      BY <1>2 DEF ExitEvent, RegistryStep
    <2>2. \A c \in Calls : Waiting(c)' => Waiting(c) /\ target'[c] = target[c]
      BY <1>2 DEF ExitEvent, Settle, callVars, Waiting
    <2>3. QED
      BY <2>1, <2>2, TerminatorKept
  <1>3. ASSUME NEW d \in Calls, KillGrace(d) PROVE OneTerminator'
    BY <1>3, TerminatorKept DEF KillGrace, RegistryStep, callVars, Waiting
  <1>4. ASSUME NEW d \in Calls, Announce(d) \/ Die(d) PROVE OneTerminator'
    BY <1>4, TerminatorKept DEF Announce, Die, callVars, Waiting
  <1>5. CASE ReapIdle
    BY <1>5, TerminatorKept, TerminateSignals DEF ReapIdle, RegistryStep, callVars, Waiting
  <1>6. CASE Shutdown
    BY <1>6, ShutdownTerminator
  <1>7. CASE Exit \/ Crash \/ Tick \/ UNCHANGED vars \/ \E f \in Files : Rewrite(f)
    BY <1>7, TerminatorKept
       DEF Exit, Crash, Tick, Rewrite, vars, callVars, childVars, Waiting
  <1>8. QED
    BY <1>1, <1>2, <1>3, <1>4, <1>5, <1>6, <1>7 DEF Next

\* Two calls, or a call and shutdown(), never wait for the exit of the same
\* child, however the awaits of eviction, staleness and unload interleave: each
\* of them takes the handle out of the map in the turn in which it signals it.
THEOREM TerminatedOnce == Spec => []OneTerminator
  <1>1. Init => OneTerminator
    BY DEF Init, OneTerminator, Waiting
  <1>2. QED
    BY <1>1, InvInductive, TerminatorStep, PTL DEF Spec
-----------------------------------------------------------------------------
(* How the registry loses a daemon.                                        *)

\* A step that makes no daemon anew something the registry should know of, and
\* drops none that still is.
LEMMA LostKept ==
  ASSUME LostOnlyToDuplicates, key' = key,
         \A e \in Calls : proc[e] \in {"listening", "stopped"} =>
                             proc'[e] \in {"listening", "stopped"},
         \A d \in Calls : proc'[d] = "listening" /\ signal'[d] = "none" /\ pc'[d] # "loading" =>
              /\ proc[d] = "listening" /\ signal[d] = "none" /\ pc[d] # "loading"
              /\ daemons[key[d]] = d => daemons'[key[d]] = d
  PROVE  LostOnlyToDuplicates'
  BY DEF LostOnlyToDuplicates

\* terminate() signals what it drops.
LEMMA TerminateLost ==
  ASSUME IInv, LostOnlyToDuplicates, NEW ks \in SUBSET RegisteredKeys, Terminate(ks),
         UNCHANGED <<key, proc>>,
         \A d \in Calls : pc'[d] # "loading" => pc[d] # "loading"
  PROVE  LostOnlyToDuplicates'
  <1> USE DEF IInv, TypeOK
  <1>1. \A d \in Calls : signal'[d] = "none" => signal[d] = "none"
    BY DEF Terminate
  <1>2. ASSUME NEW d \in Calls, signal'[d] = "none", daemons[key[d]] = d
        PROVE  daemons'[key[d]] = d
    BY <1>2 DEF Terminate
  <1>3. QED
    BY <1>1, <1>2, LostKept

\* Every step keeps what it must of the running daemons.
LEMMA LostStep == IInv /\ LostOnlyToDuplicates /\ [Next]_vars => LostOnlyToDuplicates'
  <1> SUFFICES ASSUME IInv, LostOnlyToDuplicates, [Next]_vars PROVE LostOnlyToDuplicates'
    OBVIOUS
  <1> USE DEF IInv, TypeOK
  <1>a. ASSUME NEW c \in Calls, NEW k \in RegisteredKeys, NEW a \in Awaits, pc[c] # "loading",
               TerminateAndAwait(c, k, a)
        PROVE  LostOnlyToDuplicates'
    BY <1>a, TerminateLost DEF TerminateAndAwait
  <1>g. ASSUME NEW c \in Calls, NEW a \in Awaits, pc[c] # "loading", Goto(c, a)
        PROVE  LostOnlyToDuplicates'
    BY <1>g, LostKept DEF Goto, mapVars, childVars
  <1>s. ASSUME NEW c \in Calls, pc[c] # "loading", ClearStale(c) PROVE LostOnlyToDuplicates'
    BY <1>s, <1>a, <1>g DEF ClearStale, StaleKeys, Awaits
  <1>m. ASSUME NEW c \in Calls, pc[c] # "loading", MakeRoom(c) PROVE LostOnlyToDuplicates'
    BY <1>m, <1>a, <1>g DEF MakeRoom, LruKeys, Awaits
  <1>f. ASSUME NEW c \in Calls, NEW o, pc[c] # "loading", Settle(c, o), UNCHANGED <<mapVars, childVars>>
        PROVE  LostOnlyToDuplicates'
    BY <1>f, LostKept DEF Settle, mapVars, childVars
  <1>d. ASSUME NEW c \in Calls, NEW d, pc[c] # "loading", Dial(c, d) PROVE LostOnlyToDuplicates'
    BY <1>d, LostKept DEF Dial, mapVars, childVars
  <1>1. ASSUME NEW c \in Calls, CallStep(c) PROVE LostOnlyToDuplicates'
    <2>1. ASSUME NEW o \in Kinds, NEW f \in Files, Issue(c, o, f) PROVE LostOnlyToDuplicates'
      <3>1. proc[c] = "none" /\ proc' = proc
        BY <2>1 DEF Issue, childVars, ChildInv, BeforeLaunch
      <3>2. /\ UNCHANGED <<mapVars, childVars>>
            /\ \A e \in Calls \ {c} : key'[e] = key[e] /\ pc'[e] = pc[e]
        BY <2>1 DEF Issue
      <3>3. QED
        BY <3>1, <3>2 DEF LostOnlyToDuplicates, mapVars, childVars
    <2>2. CASE IssueNotFound(c) \/ Refuse(c) \/ ConnectFails(c) \/ Reply(c)
               \/ ConnectionReset(c) \/ ResumeUnload(c)
      BY <2>2, <1>f DEF IssueNotFound, Refuse, ConnectFails, Reply, ConnectionReset,
                        ResumeUnload
    <2>3. CASE LookupQuery(c)
      BY <2>3, <1>d, <1>s DEF LookupQuery
    <2>4. CASE ResumeStale(c)
      BY <2>4, <1>s DEF ResumeStale
    <2>5. CASE Admit(c) \/ ResumeEvict(c)
      BY <2>5, <1>m DEF Admit, ResumeEvict
    <2>6. CASE Launch(c)
      <3>1. proc[c] = "none"
        BY <2>6 DEF Launch, ChildInv, BeforeLaunch
      <3>2. QED
        BY <2>6, <3>1, LostKept DEF Launch
    <2>7. CASE Ready(c)
      BY <2>7 DEF Ready, LostOnlyToDuplicates, childVars
    <2>8. CASE SpawnTimeout(c)
      BY <2>8, LostKept DEF SpawnTimeout, Settle
    <2>9. CASE Connect(c)
      BY <2>9, LostKept DEF Connect, childVars
    <2>10. CASE ConnectionEnds(c)
      BY <2>10, <1>g DEF ConnectionEnds, Awaits
    <2>11. CASE LookupUnload(c)
      <3>1. daemons[key[c]] # NoCall => key[c] \in RegisteredKeys
        BY DEF RegisteredKeys
      <3>2. QED
        BY <2>11, <3>1, <1>f, <1>a DEF LookupUnload, Awaits
    <2>12. CASE LookupControl(c)
      BY <2>12, <1>f, <1>d DEF LookupControl
    <2>13. QED
      BY <1>1, <2>1, <2>2, <2>3, <2>4, <2>5, <2>6, <2>7, <2>8, <2>9, <2>10, <2>11, <2>12
         DEF CallStep
  <1>2. ASSUME NEW d \in Calls, ExitEvent(d) PROVE LostOnlyToDuplicates'
    <2>1. /\ UNCHANGED <<key, proc, signal>> /\ proc[d] # "listening"
          /\ \A e \in Calls \ {d} : pc'[e] = pc[e]
      BY <1>2 DEF ExitEvent, Settle, callVars
    <2>2. \A e \in Calls \ {d} : daemons[key[e]] = e => daemons'[key[e]] = e
      BY <1>2 DEF ExitEvent, AfterExit
    <2>3. QED
      BY <2>1, <2>2, LostKept
  <1>3. ASSUME NEW d \in Calls, KillGrace(d) PROVE LostOnlyToDuplicates'
    BY <1>3, LostKept DEF KillGrace, mapVars, callVars
  <1>4. ASSUME NEW d \in Calls, Announce(d) PROVE LostOnlyToDuplicates'
    \* A child that has just announced itself is still awaited by its spawn.
    <2>1. signal[d] = "none" => pc[d] = "loading"
      BY <1>4 DEF Announce, ChildInv
    <2>2. QED
      BY <1>4, <2>1, LostKept DEF Announce, mapVars, callVars
  <1>5. ASSUME NEW d \in Calls, Die(d) PROVE LostOnlyToDuplicates'
    BY <1>5, LostKept DEF Die, Alive, mapVars, callVars
  <1>6. CASE ReapIdle
    BY <1>6, TerminateLost DEF ReapIdle, ExpiredKeys, callVars
  <1>7. CASE Shutdown
    BY <1>7, TerminateLost DEF Shutdown, callVars
  <1>8. CASE Exit \/ Crash \/ Tick \/ UNCHANGED vars \/ \E f \in Files : Rewrite(f)
    BY <1>8, LostKept DEF Exit, Crash, Tick, Rewrite, vars, mapVars, callVars, childVars
  <1>9. QED
    BY <1>1, <1>2, <1>3, <1>4, <1>5, <1>6, <1>7, <1>8 DEF Next

\* Being overwritten by a second daemon for the same key is the only way in
\* which the registry loses track of a daemon that runs and that nobody has
\* told to stop: no race of exits, evictions and spawns makes another.
THEOREM OnlyDuplicatesLost == Spec => []LostOnlyToDuplicates
  <1>1. Init => LostOnlyToDuplicates
    BY DEF Init, LostOnlyToDuplicates
  <1>2. QED
    BY <1>1, InvInductive, LostStep, PTL DEF Spec

-----------------------------------------------------------------------------
(* What leaves the map.                                                    *)

\* The body of RemovedOnlyIfEnded.
EndedIfRemoved ==
  \A k \in Key : daemons[k] # NoCall /\ daemons'[k] = NoCall =>
    exitSeen'[daemons[k]] \/ signal'[daemons[k]] = "term"

\* A terminate() of registered daemons removes what it signals.
LEMMA TerminateRemoves ==
  ASSUME IInv, NEW ks \in SUBSET RegisteredKeys, Terminate(ks)
  PROVE  EndedIfRemoved
  BY TerminateEffect DEF EndedIfRemoved, Terminate

\* Only terminate() and the exit listener remove anything.
LEMMA RemovalStep == IInv /\ [Next]_vars => EndedIfRemoved
  <1> SUFFICES ASSUME IInv, [Next]_vars PROVE EndedIfRemoved
    OBVIOUS
  <1> USE RegistryAssumption DEF IInv, TypeOK
  <1>0. ASSUME daemons' = daemons PROVE EndedIfRemoved
    BY <1>0 DEF EndedIfRemoved
  <1>a. ASSUME NEW c \in Calls, NEW k \in RegisteredKeys, NEW a, TerminateAndAwait(c, k, a)
        PROVE  EndedIfRemoved
    BY <1>a, TerminateRemoves DEF TerminateAndAwait
  <1>g. ASSUME NEW c \in Calls, NEW a, Goto(c, a) PROVE EndedIfRemoved
    BY <1>g, <1>0 DEF Goto, mapVars
  <1>s. ASSUME NEW c \in Calls, ClearStale(c) PROVE EndedIfRemoved
    BY <1>s, <1>a, <1>g DEF ClearStale, StaleKeys
  <1>m. ASSUME NEW c \in Calls, MakeRoom(c) PROVE EndedIfRemoved
    BY <1>m, <1>a, <1>g DEF MakeRoom, LruKeys
  <1>1. ASSUME NEW c \in Calls, CallStep(c) PROVE EndedIfRemoved
    <2>1. CASE \/ \E o \in Kinds, f \in Files : Issue(c, o, f)
               \/ IssueNotFound(c) \/ Refuse(c) \/ Launch(c) \/ SpawnTimeout(c) \/ Connect(c)
               \/ ConnectFails(c) \/ Reply(c) \/ ConnectionReset(c) \/ ConnectionEnds(c)
               \/ ResumeUnload(c) \/ LookupControl(c)
      BY <2>1, <1>0 DEF Issue, IssueNotFound, Refuse, Launch, SpawnTimeout, Connect, ConnectFails,
         Reply, ConnectionReset, ConnectionEnds, ResumeUnload, LookupControl, Goto, Dial, mapVars
    <2>2. CASE LookupQuery(c) \/ ResumeStale(c)
      BY <2>2, <1>0, <1>s DEF LookupQuery, ResumeStale, Dial, mapVars
    <2>3. CASE Admit(c) \/ ResumeEvict(c)
      BY <2>3, <1>m DEF Admit, ResumeEvict
    <2>4. CASE Ready(c)
      BY <2>4 DEF Ready, EndedIfRemoved
    <2>5. CASE LookupUnload(c)
      BY <2>5, <1>0, TerminateRemoves
         DEF LookupUnload, TerminateAndAwait, RegisteredKeys, mapVars
    <2>6. QED
      BY <1>1, <2>1, <2>2, <2>3, <2>4, <2>5 DEF CallStep
  <1>2. ASSUME NEW d \in Calls, ExitEvent(d) PROVE EndedIfRemoved
    BY <1>2 DEF ExitEvent, AfterExit, EndedIfRemoved
  <1>3. ASSUME NEW d \in Calls, KillGrace(d) \/ Announce(d) \/ Die(d) PROVE EndedIfRemoved
    BY <1>3, <1>0 DEF KillGrace, Announce, Die, mapVars
  <1>4. CASE ReapIdle \/ Shutdown
    BY <1>4, TerminateRemoves DEF ReapIdle, Shutdown, ExpiredKeys
  <1>5. CASE Exit \/ Crash \/ Tick \/ UNCHANGED vars \/ \E f \in Files : Rewrite(f)
    BY <1>5, <1>0 DEF Exit, Crash, Tick, Rewrite, vars, mapVars
  <1>6. QED
    BY <1>1, <1>2, <1>3, <1>4, <1>5 DEF Next

\* A key leaves the map only with the exit or the SIGTERM of the very daemon
\* it stood for: the late exit of an earlier daemon with the same key never
\* drops its successor.
THEOREM NeverDroppedForAnother == Spec => RemovedOnlyIfEnded
  BY InvInductive, RemovalStep, PTL DEF Spec, RemovedOnlyIfEnded, EndedIfRemoved

-----------------------------------------------------------------------------
(* What the documents promise of the registry and the code keeps when the  *)
(* client makes one call at a time: theorems about DaemonRegistry with     *)
(* Serial.                                                                 *)

\* A call is under way.
Active(c) == pc[c] \notin {"idle", "done"}

\* A call that is about to spawn, or has spawned, a daemon for its key.
Spawning(c) == pc[c] \in {"stale", "admit", "evict", "mkdir", "loading"}

\* One call at a time; nothing is registered under the key that it spawns
\* for; the daemons that run unsignalled are registered.
SerialInv ==
  /\ \A c, d \in Calls : Active(c) /\ Active(d) => c = d
  /\ \A c \in Calls : Spawning(c) => daemons[key[c]] = NoCall
  /\ LoadingVisible
  /\ \A d \in Calls : proc[d] = "listening" /\ signal[d] = "none" /\ pc[d] # "loading" =>
       daemons[key[d]] = d

\* A step in which no call but c moves, nothing is registered and nothing
\* that keeps running is dropped.
LEMMA SerialKept ==
  ASSUME SerialInv, key' = key, loading' = loading, NEW c \in Calls,
         \A e \in Calls \ {c} : pc'[e] = pc[e],
         Active(c)' => Active(c),
         Spawning(c)' => daemons[key[c]] = NoCall,
         pc'[c] = "loading" => pc[c] = "loading",
         \A k \in Key : daemons'[k] \in {daemons[k], NoCall},
         TypeOK,
         \A d \in Calls : proc'[d] = "listening" /\ signal'[d] = "none" /\ pc'[d] # "loading" =>
              /\ proc[d] = "listening" /\ signal[d] = "none" /\ pc[d] # "loading"
              /\ daemons[key[d]] = d => daemons'[key[d]] = d
  PROVE  SerialInv'
  <1>1. \A e \in Calls : Active(e)' => Active(e)
    BY DEF Active
  <1>2. \A e \in Calls : Spawning(e)' => daemons'[key[e]] = NoCall
    BY DEF SerialInv, Spawning, TypeOK
  <1>3. LoadingVisible'
    BY DEF SerialInv, LoadingVisible
  <1>4. QED
    BY <1>1, <1>2, <1>3 DEF SerialInv

\* terminate() signals what it drops.
LEMMA SerialTerminate ==
  ASSUME IInv, SerialInv, NEW ks \in SUBSET RegisteredKeys, Terminate(ks),
         UNCHANGED <<key, loading, proc>>, NEW c \in Calls,
         \A e \in Calls \ {c} : pc'[e] = pc[e],
         Active(c)' => Active(c),
         Spawning(c)' => daemons[key[c]] = NoCall,
         pc'[c] = "loading" <=> pc[c] = "loading"
  PROVE  SerialInv'
  <1> USE DEF IInv, TypeOK
  <1>1. \A d \in Calls : signal'[d] = "none" => signal[d] = "none"
    BY DEF Terminate
  <1>2. ASSUME NEW d \in Calls, signal'[d] = "none", daemons[key[d]] = d
        PROVE  daemons'[key[d]] = d
    BY <1>2 DEF Terminate
  <1>3. \A k \in Key : daemons'[k] \in {daemons[k], NoCall}
    BY DEF Terminate
  <1>4. QED
    BY <1>1, <1>2, <1>3, SerialKept

\* Every step of a serial registry keeps this.
LEMMA SerialStep == Serial /\ IInv /\ SerialInv /\ [Next]_vars => SerialInv'
  <1> SUFFICES ASSUME Serial, IInv, SerialInv, [Next]_vars PROVE SerialInv'
    OBVIOUS
  <1> USE DEF IInv, TypeOK
  <1>a. ASSUME NEW c \in Calls, NEW k \in RegisteredKeys, NEW a \in Awaits, Active(c),
               a \in {"stale", "evict"} => daemons[key[c]] = NoCall,
               a \in {"stale", "evict", "unload"}, pc[c] # "loading",
               TerminateAndAwait(c, k, a)
        PROVE  SerialInv'
    BY <1>a, SerialTerminate DEF TerminateAndAwait, Active, Spawning
  <1>g. ASSUME NEW c \in Calls, NEW a \in Awaits, Active(c), pc[c] # "loading", a # "loading",
               a \in {"admit", "mkdir"} => daemons[key[c]] = NoCall,
               a \notin {"stale", "evict"}, Goto(c, a)
        PROVE  SerialInv'
    BY <1>g, SerialKept DEF Goto, mapVars, childVars, Spawning, Active
  <1>s. ASSUME NEW c \in Calls, Active(c), daemons[key[c]] = NoCall, pc[c] # "loading", ClearStale(c)
        PROVE  SerialInv'
    BY <1>s, <1>a, <1>g DEF ClearStale, StaleKeys, Awaits
  <1>m. ASSUME NEW c \in Calls, Active(c), daemons[key[c]] = NoCall, pc[c] # "loading", MakeRoom(c)
        PROVE  SerialInv'
    BY <1>m, <1>a, <1>g DEF MakeRoom, LruKeys, Awaits
  <1>f. ASSUME NEW c \in Calls, NEW o, pc[c] # "loading", Settle(c, o), UNCHANGED <<mapVars, childVars>>
        PROVE  SerialInv'
    BY <1>f, SerialKept DEF Settle, mapVars, childVars, Active, Spawning
  <1>d. ASSUME NEW c \in Calls, NEW d, Active(c), pc[c] # "loading", Dial(c, d) PROVE SerialInv'
    BY <1>d, SerialKept DEF Dial, mapVars, childVars, Active, Spawning
  <1>1. ASSUME NEW c \in Calls, CallStep(c) PROVE SerialInv'
    <2>1. ASSUME NEW o \in Kinds, NEW f \in Files, Issue(c, o, f) PROVE SerialInv'
      <3>1. proc[c] = "none" /\ \A d \in Calls : ~Active(d)
        BY <2>1 DEF Issue, ChildInv, BeforeLaunch, Active
      <3>2. /\ UNCHANGED <<mapVars, childVars>> /\ pc'[c] = "lookup"
            /\ \A e \in Calls \ {c} : key'[e] = key[e] /\ pc'[e] = pc[e]
        BY <2>1 DEF Issue
      <3>3. \A d, e \in Calls : Active(d)' /\ Active(e)' => d = e
        BY <3>1, <3>2 DEF Active
      <3>4. \A e \in Calls : ~Spawning(e)'
        BY <3>1, <3>2 DEF Active, Spawning
      <3>5. LoadingVisible'
        BY <3>4 DEF LoadingVisible, Spawning
      <3>6. QED
        BY <3>1, <3>2, <3>3, <3>4, <3>5 DEF SerialInv, mapVars, childVars
    <2>2. CASE IssueNotFound(c) \/ Refuse(c) \/ ConnectFails(c) \/ Reply(c)
               \/ ConnectionReset(c) \/ ResumeUnload(c)
      BY <2>2, <1>f DEF IssueNotFound, Refuse, ConnectFails, Reply, ConnectionReset,
                        ResumeUnload
    <2>3. CASE LookupQuery(c)
      BY <2>3, <1>d, <1>s DEF LookupQuery, Active
    <2>4. CASE ResumeStale(c)
      BY <2>4, <1>s DEF ResumeStale, SerialInv, Spawning, Active
    <2>5. CASE Admit(c) \/ ResumeEvict(c)
      BY <2>5, <1>m DEF Admit, ResumeEvict, SerialInv, Spawning, Active
    <2>6. CASE Launch(c)
      <3>1. /\ daemons[key[c]] = NoCall /\ proc'[c] = "starting"
            /\ \A e \in Calls \ {c} : ~Active(e)
        BY <2>6 DEF Launch, SerialInv, Spawning, Active
      <3>2. /\ pc'[c] = "loading" /\ \A e \in Calls \ {c} : pc'[e] = pc[e] /\ proc'[e] = proc[e]
            /\ UNCHANGED <<daemons, key, signal>> /\ loading'[key[c]] = c
        BY <2>6 DEF Launch, Record
      <3>3. LoadingVisible'
        BY <3>1, <3>2 DEF LoadingVisible, Active
      <3>4. QED
        BY <3>1, <3>2, <3>3 DEF SerialInv, Spawning, Active
    <2>7. CASE Ready(c)
      <3>1. /\ daemons[key[c]] = NoCall
            /\ \A e \in Calls \ {c} : ~Active(e)
        BY <2>7 DEF Ready, SerialInv, Spawning, Active
      <3>2. /\ pc'[c] = "connect" /\ \A e \in Calls \ {c} : pc'[e] = pc[e]
            /\ daemons' = [daemons EXCEPT ![key[c]] = c]
            /\ UNCHANGED <<proc, key, signal>>
        BY <2>7 DEF Ready, childVars
      <3>3. LoadingVisible'
        BY <3>1, <3>2 DEF LoadingVisible, Active
      <3>4. QED
        BY <3>1, <3>2, <3>3, RegistryAssumption DEF SerialInv, Spawning, Active
    <2>8. CASE SpawnTimeout(c)
      <3>1. \A e \in Calls \ {c} : ~Active(e)
        BY <2>8 DEF SpawnTimeout, SerialInv, Active
      <3>2. /\ pc'[c] = "done" /\ \A e \in Calls \ {c} : pc'[e] = pc[e] /\ signal'[e] = signal[e]
            /\ signal'[c] = "kill"
            /\ UNCHANGED <<proc, key, daemons>>
        BY <2>8 DEF SpawnTimeout, Settle
      <3>3. LoadingVisible'
        BY <3>1, <3>2 DEF LoadingVisible, Active
      <3>4. QED
        BY <3>1, <3>2, <3>3 DEF SerialInv, Spawning, Active
    <2>9. CASE Connect(c)
      BY <2>9, SerialKept DEF Connect, childVars, Active, Spawning
    <2>10. CASE ConnectionEnds(c)
      BY <2>10, <1>g DEF ConnectionEnds, Awaits, Active
    <2>11. CASE LookupUnload(c)
      <3>1. daemons[key[c]] # NoCall => key[c] \in RegisteredKeys
        BY DEF RegisteredKeys
      <3>2. QED
        BY <2>11, <3>1, <1>f, <1>a DEF LookupUnload, Awaits, Active
    <2>12. CASE LookupControl(c)
      BY <2>12, <1>f, <1>d DEF LookupControl, Active
    <2>13. QED
      BY <1>1, <2>1, <2>2, <2>3, <2>4, <2>5, <2>6, <2>7, <2>8, <2>9, <2>10, <2>11, <2>12
         DEF CallStep
  <1>2. ASSUME NEW d \in Calls, ExitEvent(d) PROVE SerialInv'
    <2>1. /\ UNCHANGED <<key, proc, signal>> /\ proc[d] # "listening"
          /\ \A e \in Calls \ {d} : pc'[e] = pc[e]
          /\ daemons' = AfterExit(d)
      BY <1>2 DEF ExitEvent, Settle, callVars
    <2>2. \A e \in Calls \ {d} : daemons[key[e]] = e => daemons'[key[e]] = e
      BY <2>1 DEF AfterExit
    <2>3. \A k \in Key : daemons'[k] \in {daemons[k], NoCall}
      BY <2>1 DEF AfterExit
    <2>4. CASE pc[d] = "loading" /\ loading' = Unrecord(d) /\ Settle(d, "spawn-failed")
      <3>1. pc'[d] = "done" /\ \A e \in Calls \ {d} : ~Active(e)
        BY <2>4 DEF Settle, SerialInv, Active
      <3>2. LoadingVisible'
        BY <2>1, <3>1 DEF LoadingVisible, Active
      <3>3. QED
        BY <2>1, <2>2, <2>3, <3>1, <3>2 DEF SerialInv, Spawning, Active
    <2>5. CASE pc[d] # "loading" /\ UNCHANGED <<loading, callVars>>
      BY <2>1, <2>2, <2>3, <2>5, SerialKept DEF callVars, SerialInv, Active, Spawning
    <2>6. QED
      BY <1>2, <2>4, <2>5 DEF ExitEvent
  <1>3. ASSUME NEW d \in Calls, KillGrace(d) PROVE SerialInv'
    BY <1>3, SerialKept DEF KillGrace, mapVars, callVars, SerialInv, Active, Spawning
  <1>4. ASSUME NEW d \in Calls, Announce(d) PROVE SerialInv'
    <2>1. signal[d] = "none" => pc[d] = "loading"
      BY <1>4 DEF Announce, ChildInv
    <2>2. QED
      BY <1>4, <2>1, SerialKept DEF Announce, mapVars, callVars, SerialInv, Active, Spawning
  <1>5. ASSUME NEW d \in Calls, Die(d) PROVE SerialInv'
    BY <1>5, SerialKept DEF Die, Alive, mapVars, callVars, SerialInv, Active, Spawning
  <1>6. CASE ReapIdle \/ Shutdown
    <2>1. \E ks \in SUBSET RegisteredKeys : Terminate(ks)
      BY <1>6 DEF ReapIdle, Shutdown, ExpiredKeys
    <2>2. UNCHANGED <<loading, callVars, proc>>
      BY <1>6 DEF ReapIdle, Shutdown
    <2>3. QED
      BY <2>1, <2>2, SerialTerminate DEF callVars, SerialInv, Active, Spawning, LoadingVisible
  <1>7. CASE Exit \/ Crash \/ Tick \/ UNCHANGED vars \/ \E f \in Files : Rewrite(f)
    <2>1. UNCHANGED <<daemons, loading, key, pc, proc, signal>>
      BY <1>7 DEF Exit, Crash, Tick, Rewrite, vars, mapVars, callVars, childVars
    <2>2. QED
      BY <2>1 DEF SerialInv, LoadingVisible, Active, Spawning
  <1>8. QED
    BY <1>1, <1>2, <1>3, <1>4, <1>5, <1>6, <1>7 DEF Next

\* The invariant holds in every reachable state when calls do not overlap.
LEMMA SerialInductive == ASSUME Serial PROVE Spec => []SerialInv
  <1>1. Init => SerialInv
    BY DEF Init, SerialInv, LoadingVisible, Active, Spawning
  <1>2. IInv /\ SerialInv /\ [Next]_vars => SerialInv'
    BY SerialStep
  <1>3. QED
    BY <1>1, <1>2, InvInductive, PTL DEF Spec
-----------------------------------------------------------------------------
(* One daemon per trace, and spawns that can be seen.                      *)

\* Calls that do not overlap never leave two daemons serving the same path and
\* mtime: what one spawns, the next finds in the map.
THEOREM OneDaemonWhenSerial == ASSUME Serial PROVE Spec => []OneDaemonPerTrace
  <1>1. IInv /\ SerialInv => OneDaemonPerTrace
    <2> SUFFICES ASSUME IInv, SerialInv, NEW d \in Calls, NEW e \in Calls,
                        proc[d] = "listening", signal[d] = "none",
                        proc[e] = "listening", signal[e] = "none", key[d] = key[e]
                 PROVE  d = e
      BY DEF OneDaemonPerTrace
    <2>1. ASSUME NEW g \in Calls, NEW h \in Calls, pc[g] = "loading", pc[h] # "loading",
                 key[g] = key[h], proc[h] = "listening", signal[h] = "none"
          PROVE  FALSE
      BY <2>1, RegistryAssumption DEF SerialInv, Spawning
    <2>2. CASE pc[d] = "loading" /\ pc[e] = "loading"
      BY <2>2 DEF SerialInv, Active
    <2>3. CASE pc[d] # "loading" /\ pc[e] # "loading"
      BY <2>3 DEF SerialInv
    <2>4. QED
      BY <2>1, <2>2, <2>3
  <1>2. QED
    BY <1>1, InvInductive, SerialInductive, PTL

\* trace_status lists every spawn under way when calls do not overlap.
THEOREM LoadingListedWhenSerial == ASSUME Serial PROVE Spec => []LoadingVisible
  <1>1. SerialInv => LoadingVisible
    BY DEF SerialInv
  <1>2. QED
    BY <1>1, SerialInductive, PTL

-----------------------------------------------------------------------------
(* The limit.                                                              *)

\* Each registered key has a child of its own: there are finitely many.
LEMMA RegisteredFinite == IInv => IsFiniteSet(RegisteredKeys)
  <1> SUFFICES ASSUME IInv PROVE IsFiniteSet(RegisteredKeys)
    OBVIOUS
  <1> DEFINE f == [k \in RegisteredKeys |-> daemons[k]]
  <1>1. f \in Injection(RegisteredKeys, Calls)
    BY DEF IInv, TypeOK, RegisteredHandles, RegisteredKeys, CallsOrNone, Injection, IsInjective
  <1>2. QED
    BY <1>1, FS_Injection, RegistryAssumption DEF RegistryAssumption

\* One more element makes a set larger by at most one.
LEMMA AddOne ==
  ASSUME NEW S, NEW x, IsFiniteSet(S)
  PROVE  /\ IsFiniteSet(S \cup {x})
         /\ Cardinality(S) \in Nat
         /\ Cardinality(S \cup {x}) <= Cardinality(S) + 1
  <1>1. /\ IsFiniteSet(S \cup {x}) /\ Cardinality(S) \in Nat
        /\ Cardinality(S \cup {x}) = IF x \in S THEN Cardinality(S) ELSE Cardinality(S) + 1
    BY FS_AddElement, FS_CardinalityType
  <1>2. CASE x \in S
    BY <1>1, <1>2
  <1>3. CASE x \notin S
    BY <1>1, <1>3
  <1>4. QED
    BY <1>1, <1>2, <1>3

\* There is room for the daemon that is being spawned.
RoomInv ==
  /\ Cardinality(RegisteredKeys) <= MaxDaemons
  /\ \A c \in Calls : pc[c] \in {"mkdir", "loading"} => Cardinality(RegisteredKeys) < MaxDaemons

\* A step that registers nothing and lets no call begin to spawn.
LEMMA RoomKept ==
  ASSUME IInv, RoomInv, RegisteredKeys' \subseteq RegisteredKeys,
         \A c \in Calls : pc'[c] \in {"mkdir", "loading"} => pc[c] \in {"mkdir", "loading"}
  PROVE  RoomInv'
  <1>1. IsFiniteSet(RegisteredKeys) /\ Cardinality(RegisteredKeys) \in Nat
    BY RegisteredFinite, FS_CardinalityType
  <1>2. /\ Cardinality(RegisteredKeys') <= Cardinality(RegisteredKeys)
        /\ Cardinality(RegisteredKeys') \in Nat
    BY <1>1, FS_Subset, FS_CardinalityType
  <1>3. QED
    BY <1>1, <1>2, RegistryAssumption DEF RoomInv, RegistryAssumption

\* Terminate() registers nothing.
LEMMA TerminateShrinks ==
  ASSUME TypeOK, NEW ks, Terminate(ks)
  PROVE  RegisteredKeys' \subseteq RegisteredKeys
  BY DEF Terminate, RegisteredKeys

\* The eviction loop lets a spawn go on only when there is room.
LEMMA MakeRoomStep ==
  ASSUME IInv, RoomInv, MaxDaemons > 0, NEW c \in Calls, MakeRoom(c)
  PROVE  RoomInv'
  <1> USE DEF IInv, TypeOK
  <1>1. CASE \E k \in LruKeys : TerminateAndAwait(c, k, "evict")
    BY <1>1, TerminateShrinks, RoomKept DEF TerminateAndAwait
  <1>2. CASE HasRoom /\ Goto(c, "mkdir")
    <2>1. Cardinality(RegisteredKeys) < MaxDaemons
      BY <1>2, FS_EmptySet, RegistryAssumption DEF HasRoom
    <2>2. RegisteredKeys' = RegisteredKeys
      BY <1>2 DEF Goto, mapVars, RegisteredKeys
    <2>3. QED
      BY <2>1, <2>2 DEF RoomInv
  <1>3. QED
    BY <1>1, <1>2 DEF MakeRoom

\* Every step keeps to the limit.
LEMMA RoomStep ==
  Serial /\ MaxDaemons > 0 /\ IInv /\ SerialInv /\ RoomInv /\ [Next]_vars => RoomInv'
  <1> SUFFICES ASSUME Serial, MaxDaemons > 0, IInv, SerialInv, RoomInv, [Next]_vars
               PROVE  RoomInv'
    OBVIOUS
  <1> USE DEF IInv, TypeOK
  <1>0. ASSUME daemons' = daemons,
               \A c \in Calls : pc'[c] \in {"mkdir", "loading"} => pc[c] \in {"mkdir", "loading"}
        PROVE  RoomInv'
    BY <1>0, RoomKept DEF RegisteredKeys
  <1>a. ASSUME NEW c \in Calls, NEW k, NEW a \in {"stale", "unload"}, TerminateAndAwait(c, k, a)
        PROVE  RoomInv'
    BY <1>a, TerminateShrinks, RoomKept DEF TerminateAndAwait
  <1>s. ASSUME NEW c \in Calls, ClearStale(c) PROVE RoomInv'
    BY <1>s, <1>a, <1>0 DEF ClearStale, Goto, mapVars
  <1>f. ASSUME NEW c \in Calls, NEW o, Settle(c, o), daemons' = daemons PROVE RoomInv'
    BY <1>f, <1>0 DEF Settle
  <1>d. ASSUME NEW c \in Calls, NEW d, Dial(c, d) PROVE RoomInv'
    BY <1>d, <1>0 DEF Dial, mapVars
  <1>1. ASSUME NEW c \in Calls, CallStep(c) PROVE RoomInv'
    <2>1. ASSUME NEW o \in Kinds, NEW f \in Files, Issue(c, o, f) PROVE RoomInv'
      BY <2>1, <1>0 DEF Issue, mapVars
    <2>2. CASE IssueNotFound(c) \/ Refuse(c) \/ ConnectFails(c) \/ Reply(c)
               \/ ConnectionReset(c) \/ ResumeUnload(c) \/ SpawnTimeout(c)
      BY <2>2, <1>f DEF IssueNotFound, Refuse, ConnectFails, Reply, ConnectionReset,
                        ResumeUnload, SpawnTimeout, mapVars
    <2>3. CASE LookupQuery(c) \/ ResumeStale(c)
      BY <2>3, <1>d, <1>s DEF LookupQuery, ResumeStale
    <2>4. CASE Admit(c) \/ ResumeEvict(c)
      BY <2>4, MakeRoomStep DEF Admit, ResumeEvict
    <2>5. CASE Launch(c)
      BY <2>5, <1>0 DEF Launch
    <2>6. CASE Ready(c)
      <3>1. Cardinality(RegisteredKeys) < MaxDaemons
        BY <2>6 DEF Ready, RoomInv
      <3>2. RegisteredKeys' \subseteq RegisteredKeys \cup {key[c]}
        BY <2>6 DEF Ready, RegisteredKeys
      <3>3. IsFiniteSet(RegisteredKeys) /\ Cardinality(RegisteredKeys) \in Nat
        BY RegisteredFinite, FS_CardinalityType
      <3>4. /\ IsFiniteSet(RegisteredKeys \cup {key[c]})
            /\ Cardinality(RegisteredKeys \cup {key[c]}) <= Cardinality(RegisteredKeys) + 1
        BY <3>3, AddOne
      <3>5. /\ Cardinality(RegisteredKeys') <= Cardinality(RegisteredKeys \cup {key[c]})
            /\ Cardinality(RegisteredKeys') \in Nat
            /\ Cardinality(RegisteredKeys \cup {key[c]}) \in Nat
        BY <3>2, <3>4, FS_Subset, FS_CardinalityType
      <3>6. Cardinality(RegisteredKeys') <= MaxDaemons
        BY <3>1, <3>3, <3>4, <3>5, RegistryAssumption
      <3>7. \A e \in Calls : pc'[e] \notin {"mkdir", "loading"}
        BY <2>6 DEF Ready, SerialInv, Active
      <3>8. QED
        BY <3>6, <3>7 DEF RoomInv
    <2>7. CASE Connect(c)
      BY <2>7, <1>0 DEF Connect
    <2>8. CASE ConnectionEnds(c)
      BY <2>8, <1>0 DEF ConnectionEnds, Goto, mapVars
    <2>9. CASE LookupUnload(c)
      BY <2>9, <1>f, <1>a DEF LookupUnload, mapVars
    <2>10. CASE LookupControl(c)
      BY <2>10, <1>f, <1>d DEF LookupControl, mapVars
    <2>11. QED
      BY <1>1, <2>1, <2>2, <2>3, <2>4, <2>5, <2>6, <2>7, <2>8, <2>9, <2>10 DEF CallStep
  <1>2. ASSUME NEW d \in Calls, ExitEvent(d) PROVE RoomInv'
    <2>1. RegisteredKeys' \subseteq RegisteredKeys
      BY <1>2 DEF ExitEvent, AfterExit, RegisteredKeys
    <2>2. \A c \in Calls : pc'[c] \in {"mkdir", "loading"} => pc[c] \in {"mkdir", "loading"}
      BY <1>2 DEF ExitEvent, Settle, callVars
    <2>3. QED
      BY <2>1, <2>2, RoomKept
  <1>3. ASSUME NEW d \in Calls, KillGrace(d) \/ Announce(d) \/ Die(d) PROVE RoomInv'
    BY <1>3, <1>0 DEF KillGrace, Announce, Die, mapVars, callVars
  <1>4. CASE ReapIdle \/ Shutdown
    BY <1>4, TerminateShrinks, RoomKept DEF ReapIdle, Shutdown, callVars
  <1>5. CASE Exit \/ Crash \/ Tick \/ UNCHANGED vars \/ \E f \in Files : Rewrite(f)
    BY <1>5, <1>0 DEF Exit, Crash, Tick, Rewrite, vars, mapVars, callVars
  <1>6. QED
    BY <1>1, <1>2, <1>3, <1>4, <1>5 DEF Next

\* The daemons nobody has told to stop: each of those that have announced
\* themselves has a registered key, and at most one is loading.
LEMMA LiveWithinLimit == IInv /\ SerialInv /\ RoomInv => WithinLimit
  <1> SUFFICES ASSUME IInv, SerialInv, RoomInv PROVE WithinLimit
    OBVIOUS
  <1> USE DEF IInv, TypeOK
  <1> DEFINE Live == {d \in Calls : Alive(d) /\ signal[d] = "none"}
             Keys == RegisteredKeys \cup {key[d] : d \in {e \in Calls : pc[e] = "loading"}}
             f == [d \in Live |-> key[d]]
  <1>1. IsFiniteSet(RegisteredKeys) /\ Cardinality(RegisteredKeys) \in Nat
    BY RegisteredFinite, FS_CardinalityType
  <1>2. IsFiniteSet(Keys) /\ Cardinality(Keys) <= MaxDaemons
    <2>1. CASE \E c \in Calls : pc[c] = "loading"
      <3>1. PICK c \in Calls : pc[c] = "loading"
        BY <2>1
      <3>2. Keys = RegisteredKeys \cup {key[c]}
        BY <3>1 DEF SerialInv, Active
      <3>3. Cardinality(RegisteredKeys) < MaxDaemons
        BY <3>1 DEF RoomInv
      <3>4. /\ IsFiniteSet(Keys)
            /\ Cardinality(Keys) <= Cardinality(RegisteredKeys) + 1
        BY <1>1, <3>2, AddOne
      <3>5. Cardinality(Keys) \in Nat
        BY <3>4, FS_CardinalityType
      <3> HIDE DEF Keys
      <3>6. QED
        BY <1>1, <3>3, <3>4, <3>5, RegistryAssumption
    <2>2. CASE ~\E c \in Calls : pc[c] = "loading"
      <3>1. Keys = RegisteredKeys
        BY <2>2
      <3>2. QED
        BY <1>1, <3>1 DEF RoomInv
    <2>3. QED
      BY <2>1, <2>2
  <1>3. \A d \in Live : key[d] \in Keys
    <2> SUFFICES ASSUME NEW d \in Live, pc[d] # "loading" PROVE key[d] \in RegisteredKeys
      OBVIOUS
    <2>1. proc[d] = "listening"
      BY DEF Alive, ChildInv
    <2>2. QED
      BY <2>1, RegistryAssumption DEF SerialInv, RegisteredKeys
  <1>4. ASSUME NEW d \in Live, NEW e \in Live, key[d] = key[e] PROVE d = e
    <2>1. ASSUME NEW g \in Live, pc[g] # "loading" PROVE daemons[key[g]] = g
      BY <2>1 DEF SerialInv, Alive, ChildInv
    <2>2. ASSUME NEW g \in Live, pc[g] = "loading" PROVE daemons[key[g]] = NoCall
      BY <2>2 DEF SerialInv, Spawning
    <2>3. CASE pc[d] = "loading" /\ pc[e] = "loading"
      BY <2>3 DEF SerialInv, Active
    <2>4. CASE pc[d] # "loading" \/ pc[e] # "loading"
      BY <2>1, <2>2, <2>4, <1>4, RegistryAssumption
    <2>5. QED
      BY <2>3, <2>4
  <1>5. f \in Injection(Live, Keys)
    <2> HIDE DEF Live, Keys
    <2>1. QED
      BY <1>3, <1>4 DEF Injection, IsInjective
  <1>6. IsFiniteSet(Live) /\ Cardinality(Live) <= Cardinality(Keys)
    <2> HIDE DEF Live, Keys, f
    <2>1. QED
      BY <1>2, <1>5, FS_Injection
  <1>7. Cardinality(Live) \in Nat /\ Cardinality(Keys) \in Nat
    <2> HIDE DEF Live, Keys
    <2>1. QED
      BY <1>2, <1>6, FS_CardinalityType
  <1>8. Cardinality(Live) <= MaxDaemons
    <2> HIDE DEF Live, Keys
    <2>1. QED
      BY <1>2, <1>6, <1>7, RegistryAssumption
  <1>9. QED
    BY <1>8 DEF WithinLimit

\* maxDaemons is a limit when calls do not overlap and it is not zero: the
\* eviction loop, the reaper and the exits together never leave more running
\* that have not been told to stop, the one that loads included.
THEOREM LimitKeptWhenSerial ==
  ASSUME Serial, MaxDaemons > 0
  PROVE  Spec => []WithinLimit
  <1>1. Init => RoomInv
    <2>1. ASSUME Init PROVE RegisteredKeys = {}
      BY <2>1 DEF Init, RegisteredKeys
    <2>2. Cardinality({}) = 0 /\ MaxDaemons \in Nat
      BY FS_EmptySet, RegistryAssumption DEF RegistryAssumption
    <2>3. ASSUME Init PROVE \A c \in Calls : pc[c] \notin {"mkdir", "loading"}
      BY <2>3 DEF Init
    <2>4. QED
      BY <2>1, <2>2, <2>3 DEF RoomInv
  <1>2. IInv /\ SerialInv /\ RoomInv /\ [Next]_vars => RoomInv'
    BY RoomStep
  <1>3. QED
    BY <1>1, <1>2, LiveWithinLimit, InvInductive, SerialInductive, PTL DEF Spec
=============================================================================
