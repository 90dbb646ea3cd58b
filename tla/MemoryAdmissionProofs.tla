------------------------ MODULE MemoryAdmissionProofs ------------------------
(***************************************************************************)
(* The registry with the memory check implements the registry, and keeps   *)
(* the headroom when calls do not overlap: theorems about MemoryAdmission, *)
(* for any number of calls and files, any sizes and any limits.            *)
(***************************************************************************)
EXTENDS MemoryAdmission, DaemonRegistryProofs, WellFoundedInduction

-----------------------------------------------------------------------------
(* The registry with the memory check implements the registry.             *)

\* What checkAdmission decides is one of the registry's choices.
LEMMA MemoryStep == [MemoryNext]_memoryVars => [Next]_vars
  <1> SUFFICES ASSUME [MemoryNext]_memoryVars PROVE [Next]_vars
    OBVIOUS
  <1>1. ASSUME NEW c \in Calls, checkAdmission(c) PROVE Next
    BY <1>1 DEF checkAdmission, Next, CallStep
  <1>2. CASE Elsewhere
    BY <1>2 DEF Elsewhere
  <1>3. CASE UNCHANGED memoryVars
    BY <1>3 DEF memoryVars
  <1>4. QED
    BY <1>1, <1>2, <1>3 DEF MemoryNext

\* The memory check takes choices away and adds none, so everything proved of
\* the registry holds with it.
THEOREM MemoryImplementsRegistry == MemorySpec => Spec
  <1>1. MemoryInit => Init
    BY DEF MemoryInit
  <1>2. QED
    BY <1>1, MemoryStep, PTL DEF MemorySpec, Spec

\* What the documents promise of calls that do not overlap, with the memory
\* check in place and for every limit above zero.
THEOREM AdmittedRegistrySafe ==
  ASSUME Serial, MaxDaemons > 0
  PROVE  MemorySpec => [](FreshContents /\ OneDaemonPerTrace /\ WithinLimit /\ LoadingVisible)
  BY MemoryImplementsRegistry, ContentsFresh, OneDaemonWhenSerial, LimitKeptWhenSerial,
     LoadingListedWhenSerial, PTL

-----------------------------------------------------------------------------
(* Sums over finite sets.                                                  *)

\* Every set of natural numbers with an element has a least one.
LEMMA Least ==
  ASSUME NEW T \in SUBSET Nat, T # {}
  PROVE  \E m \in T : \A n \in T : m <= n
  <1>1. PICK m \in T : \A n \in T : ~ (<<n, m>> \in OpToRel(<, Nat))
    BY NatLessThanWellFounded, WFMin, Zenon
  <1>2. \A n \in T : ~ (n < m)
    BY <1>1 DEF OpToRel
  <1>3. QED
    BY <1>2

First(s) == CHOOSE x \in s : TRUE

\* g sums w over the subsets of U by taking one element after the other.
TakesFirst(g, w, U) ==
  \A s \in SUBSET U : g[s] = IF s = {} THEN 0 ELSE w[First(s)] + g[s \ {First(s)}]

Sums(g, w, U) == g \in [SUBSET U -> Nat] /\ TakesFirst(g, w, U)

\* The first element of a set is in it, and the set without it is smaller.
LEMMA FirstOut ==
  ASSUME NEW U, IsFiniteSet(U), NEW s \in SUBSET U, s # {}
  PROVE  /\ First(s) \in s /\ s \ {First(s)} \in SUBSET U
         /\ Cardinality(s) \in Nat \ {0} /\ Cardinality(s \ {First(s)}) = Cardinality(s) - 1
  <1>1. First(s) \in s
    BY DEF First
  <1>2. IsFiniteSet(s) /\ Cardinality(s) \in Nat /\ Cardinality(s) # 0
    BY FS_Subset, FS_CardinalityType, FS_EmptySet
  <1>3. QED
    BY <1>1, <1>2, FS_RemoveElement

\* There is such a function.
LEMMA SumsExist ==
  ASSUME NEW U, IsFiniteSet(U), NEW w \in [U -> Nat]
  PROVE  \E g : Sums(g, w, U)
  <1> DEFINE Upto(n) == \E g \in [SUBSET U -> Nat] :
               \A s \in SUBSET U : Cardinality(s) <= n =>
                 g[s] = IF s = {} THEN 0 ELSE w[First(s)] + g[s \ {First(s)}]
  <1>1. ASSUME NEW n \in Nat, \A m \in Nat : m < n => Upto(m) PROVE Upto(n)
    <2>1. CASE n = 0
      <3> DEFINE g == [s \in SUBSET U |-> 0]
      <3>1. ASSUME NEW s \in SUBSET U, Cardinality(s) <= n PROVE s = {}
        <4>1. SUFFICES ASSUME s # {} PROVE FALSE
          OBVIOUS
        <4>2. Cardinality(s) \in Nat \ {0}
          BY <4>1, FirstOut
        <4>3. QED
          BY <2>1, <3>1, <4>2
      <3>2. g \in [SUBSET U -> Nat] /\ \A s \in SUBSET U : g[s] = 0
        OBVIOUS
      <3>3. QED
        BY <3>1, <3>2
    <2>2. CASE n # 0
      <3>1. n - 1 \in Nat /\ n - 1 < n
        BY <2>2
      <3>2. Upto(n - 1)
        BY <1>1, <3>1
      <3>3. PICK g \in [SUBSET U -> Nat] :
              \A s \in SUBSET U : Cardinality(s) <= n - 1 =>
                g[s] = IF s = {} THEN 0 ELSE w[First(s)] + g[s \ {First(s)}]
        BY <3>2
      <3> DEFINE h == [s \in SUBSET U |->
                         IF s = {} THEN 0 ELSE w[First(s)] + g[s \ {First(s)}]]
      <3>4. h \in [SUBSET U -> Nat]
        <4>1. ASSUME NEW s \in SUBSET U, s # {} PROVE w[First(s)] + g[s \ {First(s)}] \in Nat
          <5>1. First(s) \in U /\ s \ {First(s)} \in SUBSET U
            BY <4>1, FirstOut
          <5>2. w[First(s)] \in Nat /\ g[s \ {First(s)}] \in Nat
            BY <5>1
          <5>3. QED
            BY <5>2
        <4>2. QED
          BY <4>1
      <3>5. ASSUME NEW s \in SUBSET U, Cardinality(s) <= n
            PROVE  h[s] = IF s = {} THEN 0 ELSE w[First(s)] + h[s \ {First(s)}]
        <4>1. CASE s = {}
          BY <4>1
        <4>2. CASE s # {}
          <5> DEFINE t == s \ {First(s)}
          <5>1. t \in SUBSET U /\ Cardinality(t) <= n - 1
            BY <3>5, <4>2, FirstOut
          <5>2. h[t] = g[t]
            BY <3>3, <5>1
          <5>3. h[s] = w[First(s)] + g[t]
            BY <4>2
          <5>4. QED
            BY <4>2, <5>2, <5>3
        <4>3. QED
          BY <4>1, <4>2
      <3>6. QED
        BY <3>4, <3>5
    <2>3. QED
      BY <2>1, <2>2
  <1>2. ASSUME NEW n \in Nat PROVE Upto(n)
    <2> DEFINE T == {m \in Nat : ~Upto(m)}
    <2> HIDE DEF Upto
    <2>1. CASE T # {}
      <3>1. PICK m \in T : \A k \in T : m <= k
        BY <2>1, Least
      <3>2. \A k \in Nat : k < m => Upto(k)
        BY <3>1
      <3>3. QED
        BY <1>1, <3>1, <3>2
    <2>2. QED
      BY <2>1
  <1>3. Cardinality(U) \in Nat /\ \A s \in SUBSET U : Cardinality(s) <= Cardinality(U)
    BY FS_CardinalityType, FS_Subset
  <1>4. QED
    BY <1>2, <1>3 DEF Sums, TakesFirst

\* It is enough that two weights agree on a set for their sums to do so.
LEMMA SumsAgree ==
  ASSUME NEW U, IsFiniteSet(U), NEW V \in SUBSET U, NEW w, NEW v, NEW g, NEW h,
         TakesFirst(g, w, U), TakesFirst(h, v, V), NEW s \in SUBSET V, \A x \in s : w[x] = v[x]
  PROVE  g[s] = h[s]
  <1> DEFINE T == {n \in Nat : \E t \in SUBSET s : Cardinality(t) = n /\ g[t] # h[t]}
  <1>1. CASE T = {}
    <2>1. s \in SUBSET U /\ Cardinality(s) \in Nat
      BY FS_Subset, FS_CardinalityType
    <2>2. QED
      BY <1>1, <2>1
  <1>2. CASE T # {}
    <2>1. PICK n \in T : \A m \in T : n <= m
      BY <1>2, Least
    <2>2. PICK t \in SUBSET s : Cardinality(t) = n /\ g[t] # h[t]
      BY <2>1
    <2>3. t \in SUBSET U /\ t \in SUBSET V
      OBVIOUS
    <2>4. t # {}
      BY <2>2, <2>3 DEF Sums, TakesFirst
    <2> DEFINE x == First(t)
    <2>5. /\ x \in t /\ t \ {x} \in SUBSET s /\ n \in Nat \ {0}
          /\ Cardinality(t \ {x}) = n - 1
      BY <2>2, <2>3, <2>4, FirstOut
    <2>6. g[t] = w[x] + g[t \ {x}] /\ h[t] = v[x] + h[t \ {x}]
      BY <2>3, <2>4 DEF Sums, TakesFirst
    <2> HIDE DEF x
    <2>7. g[t \ {x}] = h[t \ {x}]
      <3>1. n - 1 \notin T
        BY <2>1, <2>5
      <3>2. QED
        BY <2>5, <3>1
    <2>8. w[x] = v[x]
      BY <2>5
    <2>9. QED
      BY <2>2, <2>6, <2>7, <2>8
  <1>3. QED
    BY <1>1, <1>2

\* In whatever order they are taken.
LEMMA SumsAdd ==
  ASSUME NEW U, IsFiniteSet(U), NEW w \in [U -> Nat], NEW g, Sums(g, w, U),
         NEW s \in SUBSET U, NEW d \in U \ s
  PROVE  g[s \cup {d}] = g[s] + w[d]
  <1> DEFINE Adds(n) == \A t \in SUBSET U : \A e \in U \ t :
                          Cardinality(t) = n => g[t \cup {e}] = g[t] + w[e]
             T == {n \in Nat : ~Adds(n)}
  <1>1. ASSUME NEW n \in Nat, \A m \in Nat : m < n => Adds(m) PROVE Adds(n)
    <2> SUFFICES ASSUME NEW t \in SUBSET U, NEW e \in U \ t, Cardinality(t) = n
                 PROVE  g[t \cup {e}] = g[t] + w[e]
      OBVIOUS
    <2> DEFINE r == t \cup {e}
               x == First(r)
    <2>1. r \in SUBSET U /\ r # {} /\ x \in r /\ g[r] = w[x] + g[r \ {x}]
      BY FirstOut DEF Sums, TakesFirst
    <2>2. g \in [SUBSET U -> Nat]
      BY DEF Sums, TakesFirst
    <2> HIDE DEF x
    <2>3. CASE x = e
      <3>1. r \ {x} = t
        BY <2>3
      <3>2. QED
        <4>1. w[e] \in Nat /\ g[t] \in Nat /\ g[r] = w[e] + g[t]
          BY <2>1, <2>2, <2>3, <3>1
        <4>2. QED
          BY <4>1
    <2>4. CASE x # e
      <3> DEFINE q == t \ {x}
      <3>1. /\ x \in t /\ r \ {x} = q \cup {e} /\ t = q \cup {x} /\ x \notin q /\ e \notin q
            /\ q \in SUBSET U /\ x \in U
        BY <2>1, <2>4
      <3>2. n # 0 /\ Cardinality(q) = n - 1
        <4>1. IsFiniteSet(t)
          BY FS_Subset
        <4>2. QED
          BY <3>1, <4>1, FS_RemoveElement, FS_EmptySet
      <3>3. n - 1 \in Nat /\ n - 1 < n
        BY <3>2
      <3> HIDE DEF q, r
      <3>4. Adds(n - 1)
        BY <1>1, <3>3
      <3>5. g[q \cup {e}] = g[q] + w[e]
        BY <3>1, <3>2, <3>4
      <3>6. g[q \cup {x}] = g[q] + w[x]
        BY <3>1, <3>2, <3>4
      <3>7. g[q] \in Nat /\ w[e] \in Nat /\ w[x] \in Nat
        BY <2>2, <3>1
      <3>8. g[r] = w[x] + (g[q] + w[e]) /\ g[t] = g[q] + w[x]
        BY <2>1, <3>1, <3>5, <3>6
      <3>9. QED
        BY <3>7, <3>8 DEF r
    <2>5. QED
      BY <2>3, <2>4
  <1>2. Cardinality(s) \in Nat
    BY FS_Subset, FS_CardinalityType
  <1>3. Adds(Cardinality(s))
    <2> HIDE DEF Adds
    <2>1. CASE T # {}
      <3>1. PICK m \in T : \A k \in T : m <= k
        BY <2>1, Least
      <3>2. \A k \in Nat : k < m => Adds(k)
        BY <3>1
      <3>3. QED
        BY <1>1, <3>1, <3>2
    <2>2. QED
      BY <1>2, <2>1
  <1>4. QED
    BY <1>3

\* More elements, no smaller a sum.
LEMMA SumsGrow ==
  ASSUME NEW U, IsFiniteSet(U), NEW w \in [U -> Nat], NEW g, Sums(g, w, U),
         NEW s \in SUBSET U, NEW t \in SUBSET s
  PROVE  g[t] <= g[s]
  <1> DEFINE Grows(n) == \A q \in SUBSET U : t \subseteq q /\ Cardinality(q) = n => g[t] <= g[q]
             T == {n \in Nat : ~Grows(n)}
  <1>0. g \in [SUBSET U -> Nat]
    BY DEF Sums, TakesFirst
  <1>1. ASSUME NEW n \in Nat, \A m \in Nat : m < n => Grows(m) PROVE Grows(n)
    <2> SUFFICES ASSUME NEW q \in SUBSET U, t \subseteq q, Cardinality(q) = n
                 PROVE  g[t] <= g[q]
      OBVIOUS
    <2>1. CASE t = q
      BY <1>0, <2>1
    <2>2. CASE t # q
      <3>1. PICK x \in q : x \notin t
        BY <2>2
      <3> DEFINE r == q \ {x}
      <3>2. r \in SUBSET U /\ t \subseteq r /\ x \in U \ r /\ q = r \cup {x}
        BY <3>1
      <3>3. n # 0 /\ Cardinality(r) = n - 1
        BY <3>1, FS_Subset, FS_RemoveElement, FS_EmptySet
      <3>4. n - 1 \in Nat /\ n - 1 < n
        BY <3>3
      <3> HIDE DEF r
      <3>5. g[t] <= g[r]
        BY <1>1, <3>2, <3>3, <3>4
      <3>6. g[q] = g[r] + w[x] /\ w[x] \in Nat /\ g[r] \in Nat /\ g[t] \in Nat
        BY <1>0, <3>2, SumsAdd
      <3>7. QED
        BY <3>5, <3>6
    <2>3. QED
      BY <2>1, <2>2
  <1>2. Cardinality(s) \in Nat
    BY FS_Subset, FS_CardinalityType
  <1>3. Grows(Cardinality(s))
    <2> HIDE DEF Grows
    <2>1. CASE T # {}
      <3>1. PICK m \in T : \A k \in T : m <= k
        BY <2>1, Least
      <3>2. \A k \in Nat : k < m => Grows(k)
        BY <3>1
      <3>3. QED
        BY <1>1, <3>1, <3>2
    <2>2. QED
      BY <1>2, <2>1
  <1>4. QED
    BY <1>3

TotalIn(w, S) == MapThenSumSet(LAMBDA d : w[d], S)

\* The module's total is that of the estimates.
LEMMA TotalIsTotalIn == \A S : TotalOf(S) = TotalIn(estimate, S)
  BY DEF TotalOf, TotalIn

\* What the library's operator sums.
LEMMA TotalIsSum ==
  ASSUME NEW U, IsFiniteSet(U), NEW w \in [U -> Nat]
  PROVE  \E g : Sums(g, w, U) /\ \A S \in SUBSET U : TotalIn(w, S) = g[S]
  <1>1. PICK g : Sums(g, w, U)
    BY SumsExist
  <1>2. ASSUME NEW S \in SUBSET U PROVE TotalIn(w, S) = g[S]
    <2> DEFINE iter == CHOOSE f : f = [s \in SUBSET S |->
                         IF s = {} THEN 0 ELSE w[First(s)] + f[s \ {First(s)}]]
    <2>1. PICK h : Sums(h, w, S)
      <3>1. IsFiniteSet(S) /\ [x \in S |-> w[x]] \in [S -> Nat]
        BY FS_Subset
      <3>2. PICK h : Sums(h, [x \in S |-> w[x]], S)
        BY <3>1, SumsExist
      <3>3. \A s \in SUBSET S : s # {} => First(s) \in S
        BY DEF First
      <3>4. Sums(h, w, S)
        BY <3>2, <3>3 DEF Sums, TakesFirst
      <3>5. QED
        BY <3>4
    <2>2. h = [s \in SUBSET S |-> IF s = {} THEN 0 ELSE w[First(s)] + h[s \ {First(s)}]]
      BY <2>1 DEF Sums, TakesFirst
    <2>3. iter = [s \in SUBSET S |-> IF s = {} THEN 0 ELSE w[First(s)] + iter[s \ {First(s)}]]
      BY <2>2
    <2> HIDE DEF iter
    <2>4. TakesFirst(iter, w, S)
      BY <2>3 DEF TakesFirst
    <2>5. iter[S] = g[S]
      BY <1>1, <2>4, SumsAgree DEF Sums
    <2>6. TotalIn(w, S) = iter[S]
      BY DEF TotalIn, MapThenSumSet, MapThenFoldSet, iter, First
    <2>7. QED
      BY <2>5, <2>6
  <1>3. QED
    BY <1>1, <1>2

-----------------------------------------------------------------------------
(* The headroom.                                                           *)

\* The children that hold memory or are to: those that run and are not killed,
\* and those that are admitted and not yet launched.
Counted ==
  {d \in Calls : (Alive(d) /\ signal[d] # "kill") \/ pc[d] \in {"evict", "mkdir"}}

Allowed == Greater(TotalMb - MinFreeMb, 0)

\* Only what has announced itself is told to terminate, so a child that loads
\* is waited for by its call or killed.
HeadroomInv ==
  /\ estimate \in [Calls -> Nat]
  /\ \A d \in Calls : proc[d] = "starting" => signal[d] # "term"
  /\ Linux => TotalIn(estimate, Counted) <= Allowed

\* A step that adds nothing to what is counted.
LEMMA HeadroomShrinks ==
  ASSUME HeadroomInv, estimate' = estimate, Counted' \subseteq Counted,
         \A d \in Calls : proc'[d] = "starting" => signal'[d] # "term"
  PROVE  HeadroomInv'
  <1>1. PICK w \in [Calls -> Nat] : w = estimate
    BY DEF HeadroomInv
  <1>2. PICK g : Sums(g, w, Calls) /\ \A S \in SUBSET Calls : TotalIn(w, S) = g[S]
    BY TotalIsSum, RegistryAssumption DEF RegistryAssumption
  <1>3. PICK s \in SUBSET Calls : s = Counted
    BY DEF Counted
  <1>4. PICK t \in SUBSET s : t = Counted'
    BY <1>3
  <1>5. g[t] <= g[s] /\ g[t] \in Nat /\ g[s] \in Nat
    BY <1>2, SumsGrow, RegistryAssumption DEF RegistryAssumption, Sums
  <1>6. TotalIn(w, t) = g[t] /\ TotalIn(w, s) = g[s]
    BY <1>2
  <1>7. Allowed \in Nat /\ Allowed' = Allowed
    BY MemoryAssumption DEF MemoryAssumption, Allowed, Greater
  <1>8. Linux => TotalIn(w, t) <= Allowed
    BY <1>1, <1>3, <1>5, <1>6, <1>7 DEF HeadroomInv
  <1>9. QED
    BY <1>1, <1>4, <1>7, <1>8 DEF HeadroomInv

\* What is told to terminate has announced itself, and was not killed.
LEMMA TerminateSpares ==
  ASSUME IInv, NEW ks \in SUBSET RegisteredKeys, Terminate(ks), proc' = proc,
         \A d \in Calls : proc[d] = "starting" => signal[d] # "term"
  PROVE  /\ \A d \in Calls : proc'[d] = "starting" => signal'[d] # "term"
         /\ \A d \in Calls : signal'[d] # "kill" => signal[d] # "kill"
  <1>1. ASSUME NEW d \in Calls, signal'[d] # signal[d]
        PROVE  signal[d] # "kill" /\ proc[d] # "starting"
    <2>1. daemons[key[d]] = d /\ key[d] \in RegisteredKeys
      BY <1>1, TerminateEffect
    <2>2. QED
      BY <2>1 DEF IInv, RegisteredHandles
  <1>2. QED
    BY <1>1

\* No step but an admission adds to what is counted.
LEMMA ElsewhereShrinks ==
  ASSUME IInv, HeadroomInv, [Next]_vars, \A c \in Calls : pc[c] = "admit" => pc'[c] = "admit"
  PROVE  /\ Counted' \subseteq Counted
         /\ \A d \in Calls : proc'[d] = "starting" => signal'[d] # "term"
  <1> USE DEF IInv, TypeOK
  <1>0. \A d \in Calls : proc[d] = "starting" => signal[d] # "term"
    BY DEF HeadroomInv
  <1> DEFINE Goal == /\ Counted' \subseteq Counted
                     /\ \A d \in Calls : proc'[d] = "starting" => signal'[d] # "term"
  <1>k. ASSUME proc' = proc \/ \E d \in Calls, a \in {"listening", "stopped", "aborted"} :
                 proc' = [proc EXCEPT ![d] = a] /\ (a = "listening" => proc[d] = "starting"),
               signal' = signal \/ \E d \in Calls : signal' = [signal EXCEPT ![d] = "kill"],
               \A c \in Calls : pc'[c] \in {"evict", "mkdir"} => pc[c] \in {"evict", "mkdir"}
        PROVE  Goal
    BY <1>0, <1>k DEF Counted, Alive
  <1>t. ASSUME NEW ks \in SUBSET RegisteredKeys, Terminate(ks), proc' = proc,
               \A c \in Calls : pc'[c] \in {"evict", "mkdir"} => pc[c] \in {"evict", "mkdir"}
        PROVE  Goal
    BY <1>0, <1>t, TerminateSpares DEF Counted, Alive
  <1>a. ASSUME NEW c \in Calls, NEW k \in RegisteredKeys, NEW a, TerminateAndAwait(c, k, a),
               a \in {"evict", "mkdir"} => pc[c] \in {"evict", "mkdir"}
        PROVE  Goal
    BY <1>a, <1>t DEF TerminateAndAwait
  <1>g. ASSUME NEW c \in Calls, NEW a, Goto(c, a),
               a \in {"evict", "mkdir"} => pc[c] \in {"evict", "mkdir"}
        PROVE  Goal
    BY <1>g, <1>k DEF Goto, childVars
  <1>f. ASSUME NEW c \in Calls, NEW o, Settle(c, o), UNCHANGED childVars PROVE Goal
    BY <1>f, <1>k DEF Settle, childVars
  <1>d. ASSUME NEW c \in Calls, NEW d, Dial(c, d) PROVE Goal
    BY <1>d, <1>k DEF Dial, childVars
  <1>s. ASSUME NEW c \in Calls, ClearStale(c) PROVE Goal
    BY <1>s, <1>a, <1>g DEF ClearStale, StaleKeys
  <1>1. ASSUME NEW c \in Calls, CallStep(c) PROVE Goal
    <2>1. ASSUME NEW o \in Kinds, NEW f \in Files, Issue(c, o, f) PROVE Goal
      BY <2>1, <1>k DEF Issue, childVars
    <2>2. CASE IssueNotFound(c) \/ Refuse(c) \/ ConnectFails(c) \/ Reply(c)
               \/ ConnectionReset(c) \/ ResumeUnload(c)
      BY <2>2, <1>f DEF IssueNotFound, Refuse, ConnectFails, Reply, ConnectionReset, ResumeUnload
    <2>3. CASE LookupQuery(c) \/ ResumeStale(c)
      BY <2>3, <1>d, <1>s DEF LookupQuery, ResumeStale
    <2>4. CASE Admit(c)
      BY <2>4 DEF Admit, MakeRoom, TerminateAndAwait, Goto
    <2>5. CASE ResumeEvict(c)
      BY <2>5, <1>a, <1>g DEF ResumeEvict, MakeRoom, LruKeys
    <2>6. CASE Launch(c)
      <3>1. /\ c \in Counted /\ signal[c] = "none"
            /\ proc' = [proc EXCEPT ![c] = "starting"] /\ signal' = signal
            /\ pc' = [pc EXCEPT ![c] = "loading"]
        BY <2>6 DEF Launch, Counted, ChildInv, BeforeLaunch
      <3>2. QED
        BY <1>0, <3>1 DEF Counted, Alive
    <2>7. CASE Ready(c) \/ Connect(c)
      BY <2>7, <1>k DEF Ready, Connect, childVars
    <2>8. CASE SpawnTimeout(c)
      BY <2>8, <1>k DEF SpawnTimeout, Settle
    <2>9. CASE ConnectionEnds(c)
      BY <2>9, <1>g DEF ConnectionEnds
    <2>10. CASE LookupUnload(c)
      <3>1. daemons[key[c]] # NoCall => key[c] \in RegisteredKeys
        BY DEF RegisteredKeys
      <3>2. QED
        BY <2>10, <3>1, <1>f, <1>a DEF LookupUnload
    <2>11. CASE LookupControl(c)
      BY <2>11, <1>f, <1>d DEF LookupControl
    <2>12. QED
      BY <1>1, <2>1, <2>2, <2>3, <2>4, <2>5, <2>6, <2>7, <2>8, <2>9, <2>10, <2>11 DEF CallStep
  <1>2. ASSUME NEW d \in Calls, ExitEvent(d) PROVE Goal
    <2>1. \A c \in Calls : pc'[c] \in {"evict", "mkdir"} => pc[c] \in {"evict", "mkdir"}
      BY <1>2 DEF ExitEvent, Settle, callVars
    <2>2. QED
      BY <1>2, <2>1, <1>k DEF ExitEvent
  <1>3. ASSUME NEW d \in Calls, KillGrace(d) \/ Announce(d) \/ Die(d) PROVE Goal
    BY <1>3, <1>k DEF KillGrace, Announce, Die, callVars
  <1>4. CASE ReapIdle \/ Shutdown
    <2>1. \E ks \in SUBSET RegisteredKeys : Terminate(ks)
      BY <1>4 DEF ReapIdle, Shutdown, ExpiredKeys
    <2>2. QED
      BY <1>4, <2>1, <1>t DEF ReapIdle, Shutdown, callVars
  <1>5. CASE Exit \/ Crash \/ Tick \/ UNCHANGED vars \/ \E f \in Files : Rewrite(f)
    BY <1>5, <1>k DEF Exit, Crash, Tick, Rewrite, vars, callVars, childVars
  <1>6. QED
    BY <1>1, <1>2, <1>3, <1>4, <1>5 DEF Next

\* An admission adds the estimate it was granted, and no more than what the
\* reading left: with one call at a time every daemon that is counted has
\* loaded, so the reading has all of them.
LEMMA AdmissionStep ==
  ASSUME IInv, SerialInv, HeadroomInv, NEW c \in Calls, checkAdmission(c)
  PROVE  HeadroomInv'
  <1> USE DEF IInv, TypeOK
  <1>1. pc[c] = "admit" /\ proc[c] = "none"
    BY DEF checkAdmission, ChildInv, BeforeLaunch
  <1>2. CASE Refuse(c) /\ UNCHANGED estimate
    <2>1. /\ Counted' \subseteq Counted
          /\ \A d \in Calls : proc'[d] = "starting" => signal'[d] # "term"
      BY <1>2 DEF Refuse, Settle, Counted, Alive, childVars, HeadroomInv
    <2>2. QED
      BY <1>2, <2>1, HeadroomShrinks
  <1>3. CASE \E mb \in estimateTraceMemoryMb(key[c][1]), available \in readSystemMemory :
               /\ Fits(mb, available) /\ Admit(c)
               /\ estimate' = [estimate EXCEPT ![c] = Greater(mb, 0)]
    <2>1. PICK mb \in estimateTraceMemoryMb(key[c][1]), available \in readSystemMemory :
               /\ Fits(mb, available) /\ Admit(c)
               /\ estimate' = [estimate EXCEPT ![c] = Greater(mb, 0)]
      BY <1>3
    <2>2. PICK w \in [Calls -> Nat] : w = estimate
      BY DEF HeadroomInv
    <2>3. mb = Unknown \/ (mb \in Nat /\ mb >= 64)
      <3>1. FileMb[KeyOf(key[c][1])] \in Nat
        BY MemoryAssumption DEF MemoryAssumption, KeyOf, Key
      <3>2. QED
        BY <2>1, <3>1 DEF estimateTraceMemoryMb, Greater
    <2>4. PICK m \in Nat : m = Greater(mb, 0)
      BY <2>3 DEF Greater, Unknown
    <2>5. PICK v \in [Calls -> Nat] : v = [w EXCEPT ![c] = m]
      OBVIOUS
    <2>6. PICK g : Sums(g, w, Calls) /\ \A S \in SUBSET Calls : TotalIn(w, S) = g[S]
      BY TotalIsSum, RegistryAssumption DEF RegistryAssumption
    <2>7. PICK h : Sums(h, v, Calls) /\ \A S \in SUBSET Calls : TotalIn(v, S) = h[S]
      BY TotalIsSum, RegistryAssumption DEF RegistryAssumption
    <2>8. PICK s \in SUBSET Calls : s = Counted
      BY DEF Counted
    <2>9. c \notin s
      BY <1>1, <2>8 DEF Counted, Alive
    <2>10. /\ Counted' \subseteq s \cup {c}
           /\ \A d \in Calls : proc'[d] = "starting" => signal'[d] # "term"
      <3>1. \A d \in Calls : proc[d] = "starting" => signal[d] # "term"
        BY DEF HeadroomInv
      <3>2. MakeRoom(c)
        BY <2>1 DEF Admit
      <3>3. CASE \E k \in LruKeys : TerminateAndAwait(c, k, "evict")
        <4>1. PICK k \in RegisteredKeys : TerminateAndAwait(c, k, "evict")
          BY <3>3 DEF LruKeys
        <4>2. /\ \A d \in Calls : proc'[d] = "starting" => signal'[d] # "term"
              /\ \A d \in Calls : signal'[d] # "kill" => signal[d] # "kill"
          BY <3>1, <4>1, TerminateSpares DEF TerminateAndAwait
        <4>3. QED
          BY <2>8, <4>1, <4>2 DEF TerminateAndAwait, Counted, Alive
      <3>4. CASE Goto(c, "mkdir")
        BY <2>8, <3>1, <3>4 DEF Goto, childVars, Counted, Alive
      <3>5. QED
        BY <3>2, <3>3, <3>4 DEF MakeRoom
    <2>11. PICK t \in SUBSET (s \cup {c}) : t = Counted'
      BY <2>10
    <2>12. h[t] <= g[s] + m /\ h[t] \in Nat /\ g[s] \in Nat
      <3>1. s \cup {c} \in SUBSET Calls /\ t \in SUBSET Calls /\ IsFiniteSet(Calls)
        BY <2>11, RegistryAssumption DEF RegistryAssumption
      <3>2. h[t] <= h[s \cup {c}]
        BY <2>7, <3>1, SumsGrow
      <3>3. h[s \cup {c}] = h[s] + v[c]
        BY <2>7, <2>9, <3>1, SumsAdd
      <3>4. h[s] = g[s]
        <4>1. TakesFirst(g, w, Calls) /\ TakesFirst(h, v, Calls)
          BY <2>6, <2>7 DEF Sums
        <4>2. \A x \in s : w[x] = v[x]
          BY <2>5, <2>9
        <4>3. Calls \in SUBSET Calls /\ s \in SUBSET Calls
          OBVIOUS
        <4>4. g[s] = h[s]
          BY <3>1, <4>1, <4>2, <4>3, SumsAgree
        <4>5. QED
          BY <4>4
      <3>5. v[c] = m /\ h[t] \in Nat /\ g[s] \in Nat
        BY <2>5, <2>6, <2>7, <3>1 DEF Sums
      <3>6. QED
        BY <3>2, <3>3, <3>4, <3>5
    <2>13. ASSUME Linux, mb # Unknown
           PROVE  \E x \in Nat : g[s] <= x /\ available = Greater(TotalMb - x, 0)
      <3>1. PICK grown \in SUBSET {d \in Calls : proc[d] = "starting"} :
              available = Greater(TotalMb - TotalOf({d \in Calls : proc[d] = "listening"} \cup grown), 0)
        BY <2>1, <2>13 DEF readSystemMemory
      <3>2. PICK l \in SUBSET Calls : l = {d \in Calls : proc[d] = "listening"} \cup grown
        OBVIOUS
      <3>3. s \subseteq l
        <4>1. ASSUME NEW d \in s PROVE proc[d] = "listening"
          <5>1. pc[d] \notin {"evict", "mkdir", "loading"}
            BY <1>1, <2>8, <4>1 DEF SerialInv, Active
          <5>2. Alive(d) /\ signal[d] # "kill"
            BY <2>8, <4>1, <5>1 DEF Counted
          <5>3. proc[d] # "starting"
            BY <2>8, <4>1, <5>1, <5>2 DEF HeadroomInv, ChildInv
          <5>4. QED
            BY <5>2, <5>3 DEF Alive
        <4>2. QED
          BY <3>2, <4>1
      <3>4. TotalOf(l) = g[l]
        BY <2>2, <2>6, TotalIsTotalIn
      <3>5. g[s] <= g[l] /\ g[l] \in Nat
        BY <2>6, <3>3, SumsGrow, RegistryAssumption DEF RegistryAssumption, Sums
      <3>6. QED
        BY <3>1, <3>2, <3>4, <3>5
    <2>14. Allowed \in Nat /\ Allowed' = Allowed /\ Allowed >= TotalMb - MinFreeMb
      BY MemoryAssumption DEF MemoryAssumption, Allowed, Greater
    <2>15. Linux => g[s] <= Allowed
      BY <2>2, <2>6, <2>8 DEF HeadroomInv
    <2>16. ASSUME Linux PROVE h[t] <= Allowed
      <3>1. CASE mb = Unknown
        BY <2>4, <2>12, <2>14, <2>15, <2>16, <3>1 DEF Greater, Unknown
      <3>2. CASE mb # Unknown
        <4>1. PICK x \in Nat : g[s] <= x /\ available = Greater(TotalMb - x, 0)
          BY <2>13, <2>16, <3>2
        <4>2. mb \in Nat /\ mb >= 64 /\ m = mb /\ TotalMb \in Nat /\ MinFreeMb \in Nat
          BY <2>3, <2>4, <3>2, MemoryAssumption DEF Greater, MemoryAssumption
        <4>3. available \in Nat /\ available - mb >= MinFreeMb
          BY <2>1, <4>1, <4>2 DEF Fits, Greater
        <4>4. available = TotalMb - x
          BY <4>1, <4>2, <4>3 DEF Greater
        <4>5. QED
          BY <2>12, <2>14, <4>1, <4>2, <4>3, <4>4
      <3>3. QED
        BY <3>1, <3>2
    <2>17. estimate' = v
      BY <2>1, <2>2, <2>4, <2>5
    <2>18. Linux => TotalIn(v, t) <= Allowed
      BY <2>7, <2>11, <2>16
    <2>19. QED
      BY <2>10, <2>11, <2>14, <2>17, <2>18 DEF HeadroomInv
  <1>4. QED
    BY <1>2, <1>3 DEF checkAdmission

\* At the start nothing is counted.
LEMMA HeadroomInit == MemoryInit => HeadroomInv
  <1> SUFFICES ASSUME MemoryInit PROVE HeadroomInv
    OBVIOUS
  <1>1. Counted = {} /\ estimate \in [Calls -> Nat] /\ \A d \in Calls : proc[d] # "starting"
    BY DEF MemoryInit, Init, Counted, Alive
  <1>2. PICK w \in [Calls -> Nat] : w = estimate
    BY <1>1
  <1>3. PICK g : Sums(g, w, Calls) /\ \A S \in SUBSET Calls : TotalIn(w, S) = g[S]
    BY TotalIsSum, RegistryAssumption DEF RegistryAssumption
  <1>4. TotalIn(w, {}) = 0
    BY <1>3 DEF Sums, TakesFirst
  <1>5. Allowed \in Nat
    BY MemoryAssumption DEF MemoryAssumption, Allowed, Greater
  <1>6. QED
    BY <1>1, <1>2, <1>4, <1>5 DEF HeadroomInv

\* Every step keeps what is counted within what may be taken.
LEMMA HeadroomStep == IInv /\ SerialInv /\ HeadroomInv /\ [MemoryNext]_memoryVars => HeadroomInv'
  <1> SUFFICES ASSUME IInv, SerialInv, HeadroomInv, [MemoryNext]_memoryVars PROVE HeadroomInv'
    OBVIOUS
  <1>1. ASSUME NEW c \in Calls, checkAdmission(c) PROVE HeadroomInv'
    BY <1>1, AdmissionStep
  <1>2. CASE Elsewhere
    BY <1>2, ElsewhereShrinks, HeadroomShrinks DEF Elsewhere
  <1>3. CASE UNCHANGED memoryVars
    BY <1>3, ElsewhereShrinks, HeadroomShrinks DEF memoryVars, vars, callVars
  <1>4. QED
    BY <1>1, <1>2, <1>3 DEF MemoryNext

\* The headroom a user asks for is kept when calls do not overlap, whatever was
\* loaded, killed, rewritten or evicted before, and whatever a daemon that is
\* told to stop still holds.
THEOREM HeadroomKeptWhenSerial == ASSUME Serial PROVE MemorySpec => []HeadroomKept
  <1>1. HeadroomInv => HeadroomKept
    <2> SUFFICES ASSUME HeadroomInv, Linux
                 PROVE  TotalOf({d \in Calls : Alive(d) /\ signal[d] # "kill"}) <= Allowed
      BY DEF HeadroomKept, Allowed
    <2>1. PICK w \in [Calls -> Nat] : w = estimate
      BY DEF HeadroomInv
    <2>2. PICK g : Sums(g, w, Calls) /\ \A S \in SUBSET Calls : TotalIn(w, S) = g[S]
      BY TotalIsSum, RegistryAssumption DEF RegistryAssumption
    <2>3. PICK s \in SUBSET Calls : s = Counted
      BY DEF Counted
    <2>4. PICK t \in SUBSET s : t = {d \in Calls : Alive(d) /\ signal[d] # "kill"}
      BY <2>3 DEF Counted
    <2>5. g[t] <= g[s] /\ g[t] \in Nat /\ g[s] \in Nat
      BY <2>2, SumsGrow, RegistryAssumption DEF RegistryAssumption, Sums
    <2>6. TotalOf(t) = g[t] /\ TotalIn(w, s) = g[s]
      BY <2>1, <2>2, TotalIsTotalIn
    <2>7. Allowed \in Nat
      BY MemoryAssumption DEF MemoryAssumption, Allowed, Greater
    <2>8. QED
      BY <2>1, <2>3, <2>4, <2>5, <2>6, <2>7 DEF HeadroomInv
  <1>2. QED
    BY <1>1, HeadroomInit, HeadroomStep, MemoryImplementsRegistry, InvInductive, SerialInductive, PTL
    DEF MemorySpec
=============================================================================
