-------------------------- MODULE TraceCacheProofs --------------------------
(***************************************************************************)
(* Theorems about TraceCache, for any number of calls and files, any       *)
(* capacity and any bound on versions.                                     *)
(***************************************************************************)
EXTENDS TraceCache, SequenceTheorems, TLAPS

Entry == [key : Keys, value : Values]

-----------------------------------------------------------------------------
(* The Map.                                                                *)

\* No two entries have one key.
Unique(es) == \A i, j \in 1 .. Len(es) : es[i].key = es[j].key => i = j

\* An older entry has not been used since a younger one was.
Ordered(es, rel) ==
  \A i, j \in 1 .. Len(es) : i < j => <<es[i].key, es[j].key>> \in rel

\* The keys of some entries.
LEMMA KeyMember ==
  \A es, x : x \in KeysOf(es) <=> \E i \in 1 .. Len(es) : x = es[i].key
  BY DEF KeysOf

\* Where the entry with a key is.
LEMMA Position ==
  ASSUME NEW k, k \in KeysOf(entries)
  PROVE  PositionOf(k) \in 1 .. Len(entries) /\ entries[PositionOf(k)].key = k
  BY DEF KeysOf, PositionOf

\* A hit moves an entry to the end, and the ones behind it up.
LEMMA Bump ==
  ASSUME entries \in Seq(Entry), NEW k, k \in KeysOf(entries),
         NEW p, p = PositionOf(k), NEW n, n = Len(entries)
  PROVE  /\ p \in 1 .. n /\ n \in Nat /\ entries[p].key = k
         /\ Bumped(k) \in Seq(Entry) /\ Len(Bumped(k)) = n
         /\ Bumped(k)[n] = entries[p]
         /\ \A i \in 1 .. n - 1 : Bumped(k)[i] = IF i < p THEN entries[i] ELSE entries[i + 1]
  <1>1. p \in 1 .. n /\ n \in Nat /\ entries[p].key = k /\ entries[p] \in Entry
    BY Position, LenProperties, ElementOfSeq
  <1> DEFINE s == SubSeq(entries, 1, p - 1)
             t == SubSeq(entries, p + 1, n)
  <1>2. /\ s \in Seq(Entry) /\ Len(s) = p - 1 /\ \A i \in 1 .. p - 1 : s[i] = entries[i]
    BY <1>1, SubSeqProperties
  <1>3. /\ t \in Seq(Entry) /\ Len(t) = n - p /\ \A i \in 1 .. n - p : t[i] = entries[p + i]
    BY <1>1, SubSeqProperties
  <1>4. RemoveAt(entries, p) = s \o t
    BY DEF RemoveAt
  <1> HIDE DEF s, t
  <1>5. /\ s \o t \in Seq(Entry) /\ Len(s \o t) = n - 1
        /\ \A i \in 1 .. n - 1 : (s \o t)[i] = IF i < p THEN entries[i] ELSE entries[i + 1]
    <2>1. /\ s \o t \in Seq(Entry) /\ Len(s \o t) = Len(s) + Len(t)
          /\ \A i \in 1 .. Len(s) + Len(t) : (s \o t)[i] = IF i <= Len(s) THEN s[i] ELSE t[i - Len(s)]
      BY <1>2, <1>3, ConcatProperties
    <2>2. Len(s) + Len(t) = n - 1
      BY <1>1, <1>2, <1>3
    <2>3. ASSUME NEW i \in 1 .. n - 1
          PROVE  (s \o t)[i] = IF i < p THEN entries[i] ELSE entries[i + 1]
      <3>1. CASE i < p
        <4>1. i \in 1 .. p - 1 /\ i <= Len(s)
          BY <1>1, <1>2, <3>1
        <4>2. QED
          BY <1>2, <2>1, <2>2, <3>1, <4>1
      <3>2. CASE ~(i < p)
        <4>1. i - Len(s) \in 1 .. n - p /\ ~(i <= Len(s)) /\ p + (i - Len(s)) = i + 1
          BY <1>1, <1>2, <3>2
        <4>2. QED
          BY <1>3, <2>1, <2>2, <3>2, <4>1
      <3>3. QED
        BY <3>1, <3>2
    <2>4. QED
      BY <2>1, <2>2, <2>3
  <1>6. Bumped(k) = Append(s \o t, entries[p])
    BY <1>4 DEF Bumped
  <1> DEFINE r == s \o t
  <1> HIDE DEF r
  <1>7. /\ Bumped(k) \in Seq(Entry) /\ Len(Bumped(k)) = Len(r) + 1
        /\ \A i \in 1 .. Len(r) : Bumped(k)[i] = r[i]
        /\ Bumped(k)[Len(r) + 1] = entries[p]
    BY <1>1, <1>5, <1>6, AppendProperties DEF r
  <1>8. Len(r) = n - 1 /\ (n - 1) + 1 = n
    BY <1>1, <1>5 DEF r
  <1>9. QED
    BY <1>1, <1>5, <1>7, <1>8 DEF r

\* What becomes of the entries at a hit.
LEMMA BumpKeeps ==
  ASSUME entries \in Seq(Entry), NEW k \in KeysOf(entries),
         NEW es, es = Bumped(k)
  PROVE  /\ es \in Seq(Entry) /\ Len(es) = Len(entries)
         /\ KeysOf(es) = KeysOf(entries)
         /\ Unique(entries) => Unique(es)
         /\ Unique(entries) /\ Ordered(entries, older) => Ordered(es, Used(k))
  <1> DEFINE n == Len(entries)
             p == PositionOf(k)
             From == [i \in 1 .. n |-> IF i = n THEN p ELSE IF i < p THEN i ELSE i + 1]
  <1>1. /\ p \in 1 .. n /\ n \in Nat /\ entries[p].key = k
        /\ es \in Seq(Entry) /\ Len(es) = n /\ es[n] = entries[p]
        /\ \A i \in 1 .. n - 1 : es[i] = IF i < p THEN entries[i] ELSE entries[i + 1]
    BY Bump
  <1> HIDE DEF n, p
  <1>2. \A i \in 1 .. n : From[i] \in 1 .. n /\ es[i] = entries[From[i]]
    BY <1>1
  <1>3. \A i, j \in 1 .. n : From[i] = From[j] => i = j
    BY <1>1
  <1>4. \A j \in 1 .. n : \E i \in 1 .. n : From[i] = j
    <2> SUFFICES ASSUME NEW j \in 1 .. n PROVE \E i \in 1 .. n : From[i] = j
      OBVIOUS
    <2>1. CASE j = p
      <3>1. n \in 1 .. n /\ From[n] = p
        BY <1>1
      <3>2. QED
        BY <2>1, <3>1
    <2>2. CASE j < p
      <3>1. j # n
        BY <1>1, <2>2
      <3>2. From[j] = j
        BY <2>2, <3>1
      <3>3. QED
        BY <3>2
    <2>3. CASE j > p
      <3>1. j - 1 \in 1 .. n /\ From[j - 1] = j
        BY <1>1, <2>3
      <3>2. QED
        BY <3>1
    <2>4. QED
      BY <1>1, <2>1, <2>2, <2>3
  <1>5. \A i, j \in 1 .. n : i < j /\ j # n => From[i] < From[j]
    BY <1>1
  <1>6. \A i \in 1 .. n : i # n => From[i] # p
    BY <1>1
  <1> HIDE DEF From
  <1>7. n = Len(entries)
    BY DEF n
  <1>8. KeysOf(es) = KeysOf(entries)
    <2>1. ASSUME NEW i \in 1 .. n PROVE es[i].key \in KeysOf(entries)
      BY <1>2, <1>7, KeyMember
    <2>2. ASSUME NEW j \in 1 .. n PROVE entries[j].key \in KeysOf(es)
      <3>1. PICK i \in 1 .. n : From[i] = j
        BY <1>4
      <3>2. es[i].key = entries[j].key
        BY <1>2, <3>1
      <3>3. QED
        BY <1>1, <3>2, KeyMember
    <2>3. \A x : x \in KeysOf(es) => x \in KeysOf(entries)
      BY <1>1, <2>1, KeyMember
    <2>4. \A x : x \in KeysOf(entries) => x \in KeysOf(es)
      BY <1>7, <2>2, KeyMember
    <2>5. QED
      BY <2>3, <2>4
  <1>9. ASSUME Unique(entries) PROVE Unique(es)
    <2> SUFFICES ASSUME NEW i \in 1 .. n, NEW j \in 1 .. n, es[i].key = es[j].key
                 PROVE  i = j
      BY <1>1 DEF Unique
    <2>1. /\ From[i] \in 1 .. n /\ From[j] \in 1 .. n
          /\ entries[From[i]].key = entries[From[j]].key
      BY <1>2
    <2>2. From[i] = From[j]
      BY <1>7, <1>9, <2>1 DEF Unique
    <2>3. QED
      BY <1>3, <2>2
  <1>10. ASSUME Unique(entries), Ordered(entries, older) PROVE Ordered(es, Used(k))
    <2> SUFFICES ASSUME NEW i \in 1 .. n, NEW j \in 1 .. n, i < j
                 PROVE  <<es[i].key, es[j].key>> \in Used(k)
      BY <1>1 DEF Ordered
    <2>1. i # n
      BY <1>1
    <2>2. es[i].key # k
      BY <1>1, <1>2, <1>6, <1>7, <1>10, <2>1 DEF Unique
    <2>3. CASE j = n
      <3>1. es[j].key = k /\ es[i].key \in KeysOf(entries)
        BY <1>1, <1>2, <1>7, <2>3, KeyMember
      <3>2. QED
        BY <2>2, <3>1 DEF Used
    <2>4. CASE j # n
      <3>1. <<es[i].key, es[j].key>> \in older
        BY <1>2, <1>5, <1>7, <1>10, <2>4 DEF Ordered
      <3>2. QED
        BY <2>2, <3>1 DEF Used
    <2>5. QED
      BY <2>3, <2>4
  <1>11. QED
    BY <1>1, <1>2, <1>7, <1>8, <1>9, <1>10

\* What becomes of the entries when one is set: the one with the key gets the
\* value, or there is one more.
LEMMA SetKeeps ==
  ASSUME entries \in Seq(Entry), NEW k \in Keys, NEW v \in Values,
         NEW es, es = WithEntry(k, v),
         NEW rel, rel = IF k \in KeysOf(entries) THEN older ELSE Used(k)
  PROVE  /\ es \in Seq(Entry) /\ Len(es) \in Len(entries) .. Len(entries) + 1
         /\ KeysOf(es) = KeysOf(entries) \cup {k}
         /\ \A i \in 1 .. Len(es) : \/ i \in 1 .. Len(entries) /\ es[i] = entries[i]
                                    \/ es[i] = [key |-> k, value |-> v]
         /\ Unique(entries) => Unique(es)
         /\ Ordered(entries, older) => Ordered(es, rel)
  <1> DEFINE n == Len(entries)
             e == [key |-> k, value |-> v]
  <1>1. n \in Nat /\ n = Len(entries) /\ \A i \in 1 .. n : entries[i] \in Entry
    BY LenProperties, ElementOfSeq
  <1>2. e \in Entry /\ e.key = k
    BY DEF Entry
  <1> HIDE DEF n
  <1>3. CASE k \in KeysOf(entries)
    <2>1. PICK p \in 1 .. n : p = PositionOf(k) /\ entries[p].key = k
      BY <1>1, <1>3, Position
    <2>2. es = [entries EXCEPT ![p].value = v]
      BY <1>3, <2>1 DEF WithEntry
    <2>3. [entries[p] EXCEPT !.value = v] = e
      BY <1>1, <2>1 DEF Entry
    <2>4. es = [entries EXCEPT ![p] = e]
      BY <2>2, <2>3
    <2> HIDE DEF e
    <2>5. es \in Seq(Entry) /\ Len(es) = n /\ \A i \in 1 .. n : es[i] = IF i = p THEN e ELSE entries[i]
      BY <1>1, <1>2, <2>4, ExceptSeq
    <2>6. \A i \in 1 .. n : es[i].key = entries[i].key
      BY <1>2, <2>1, <2>5
    <2>7. KeysOf(es) = KeysOf(entries) \cup {k}
      <3>1. \A x : x \in KeysOf(es) <=> x \in KeysOf(entries)
        BY <1>1, <2>5, <2>6, KeyMember
      <3>2. QED
        BY <1>3, <3>1
    <2>8. Unique(entries) => Unique(es)
      BY <1>1, <2>5, <2>6 DEF Unique
    <2>9. Ordered(entries, older) => Ordered(es, rel)
      BY <1>1, <1>3, <2>5, <2>6 DEF Ordered
    <2>10. QED
      BY <1>1, <2>5, <2>7, <2>8, <2>9 DEF e
  <1>4. CASE k \notin KeysOf(entries)
    <2>1. es = Append(entries, e)
      BY <1>4 DEF WithEntry
    <2> HIDE DEF e
    <2>2. /\ es \in Seq(Entry) /\ Len(es) = n + 1
          /\ es[n + 1] = e /\ \A i \in 1 .. n : es[i] = entries[i]
      BY <1>1, <1>2, <2>1, AppendProperties
    <2>3. \A i \in 1 .. n + 1 : i = n + 1 \/ i \in 1 .. n
      BY <1>1
    <2>4. \A i \in 1 .. n : i \in 1 .. n + 1 /\ i # n + 1
      BY <1>1
    <2>5. n + 1 \in 1 .. n + 1
      BY <1>1
    <2>6. \A i \in 1 .. n : entries[i].key # k /\ entries[i].key \in KeysOf(entries)
      BY <1>1, <1>4, KeyMember
    <2>7. KeysOf(es) = KeysOf(entries) \cup {k}
      <3>1. \A x : x \in KeysOf(es) => x \in KeysOf(entries) \/ x = k
        BY <1>2, <2>2, <2>3, <2>6, KeyMember
      <3>2. ASSUME NEW x \in KeysOf(entries) PROVE x \in KeysOf(es)
        <4>1. PICK i \in 1 .. n : x = entries[i].key
          BY <1>1, KeyMember
        <4>2. QED
          BY <2>2, <2>4, <4>1, KeyMember
      <3>3. k \in KeysOf(es)
        BY <1>2, <2>2, <2>5, KeyMember
      <3>4. QED
        BY <3>1, <3>2, <3>3
    <2>8. ASSUME Unique(entries) PROVE Unique(es)
      BY <1>1, <1>2, <2>2, <2>3, <2>6, <2>8 DEF Unique
    <2>9. ASSUME Ordered(entries, older) PROVE Ordered(es, rel)
      <3> SUFFICES ASSUME NEW i \in 1 .. n + 1, NEW j \in 1 .. n + 1, i < j
                   PROVE  <<es[i].key, es[j].key>> \in rel
        BY <2>2 DEF Ordered
      <3>1. i \in 1 .. n /\ es[i] = entries[i]
        BY <1>1, <2>2
      <3>2. es[i].key # k /\ es[i].key \in KeysOf(entries)
        BY <2>6, <3>1
      <3>3. CASE j = n + 1
        BY <1>2, <1>4, <2>2, <3>2, <3>3 DEF Used
      <3>4. CASE j \in 1 .. n
        <4>1. <<es[i].key, es[j].key>> \in older
          BY <1>1, <2>2, <2>9, <3>1, <3>4 DEF Ordered
        <4>2. QED
          BY <1>4, <3>2, <4>1 DEF Used
      <3>5. QED
        BY <2>3, <3>3, <3>4
    <2>10. QED
      BY <1>1, <2>2, <2>3, <2>7, <2>8, <2>9 DEF e
  <1>5. QED
    BY <1>3, <1>4

\* What is over the capacity is cut off at the front.
LEMMA TrimKeeps ==
  ASSUME NEW es \in Seq(Entry), NEW ts, ts = Trimmed(es)
  PROVE  /\ ts \in Seq(Entry) /\ Len(ts) <= MaxEntries
         /\ Len(ts) <= Len(es) /\ Len(ts) \in Nat /\ Len(es) \in Nat
         /\ \A i \in 1 .. Len(ts) : ts[i] = es[i + (Len(es) - Len(ts))]
  <1>1. Len(es) \in Nat /\ MaxEntries \in Nat \ {0} /\ \A i \in 1 .. Len(es) : es[i] \in Entry
    BY LenProperties, ElementOfSeq, CacheAssumption DEF CacheAssumption
  <1>2. CASE Len(es) <= MaxEntries
    BY <1>1, <1>2 DEF Trimmed
  <1>3. CASE ~(Len(es) <= MaxEntries)
    <2> DEFINE m == Len(es) - MaxEntries + 1
    <2>1. /\ m \in Int /\ m <= Len(es) /\ Len(es) - m + 1 = MaxEntries
          /\ \A i \in m .. Len(es) : es[i] \in Entry
      BY <1>1, <1>3
    <2>2. ts = SubSeq(es, m, Len(es))
      BY <1>3 DEF Trimmed
    <2>3. /\ ts \in Seq(Entry) /\ Len(ts) = MaxEntries
          /\ \A i \in 1 .. MaxEntries : ts[i] = es[m + i - 1]
      BY <1>1, <2>1, <2>2, SubSeqProperties
    <2>4. \A i \in 1 .. MaxEntries : m + i - 1 = i + (Len(es) - MaxEntries)
      BY <1>1
    <2>5. QED
      BY <1>1, <1>3, <2>3, <2>4
  <1>4. QED
    BY <1>2, <1>3

-----------------------------------------------------------------------------
(* The inductive invariant.                                                *)

Types ==
  /\ version \in [Files -> Versions]
  /\ entries \in Seq(Entry) /\ Len(entries) <= MaxEntries
  /\ Unique(entries)
  /\ pc \in [Calls -> Awaits]
  /\ question \in [Calls -> Questions]
  /\ key \in [Calls -> Keys]
  /\ began \in [Calls -> [Files -> Versions]]
  /\ value \in [Calls -> Values \cup {NoValue}]
  /\ floor \in [Calls -> Versions]
  /\ older \subseteq Keys \X Keys

\* A result is one that the tool can have: only a comparison has a second file.
Possible(v) == v \in Values /\ IF v.shape = "compare" THEN v.b \in Baselines ELSE v.b = NoFile

\* The result is about what the key says.
Matches(v, k) == Possible(v) /\ v.shape = k.variant /\ v.a = k.path

\* Keys are about the questions, and results about the keys.
AnswerInv ==
  /\ \A i \in 1 .. Len(entries) : Matches(entries[i].value, entries[i].key)
  /\ \A c \in Calls : key[c].path = question[c].a /\ key[c].variant = question[c].shape
  /\ \A c \in Calls : pc[c] \in {"put", "insert", "done"} => Matches(value[c], key[c])

\* When no file changes under a call, everything about it is of one version,
\* and what is kept under a key is of the version the key names.
FreshInv ==
  Quiet =>
    /\ \A i \in 1 .. Len(entries) : entries[i].value.av = entries[i].key.mtime
    /\ \A c \in Calls : pc[c] \in {"get", "run", "put", "insert"} =>
         key[c].mtime = floor[c] /\ version[question[c].a] = floor[c]
    /\ \A c \in Calls : pc[c] = "run" => began[c] = version
    /\ \A c \in Calls : pc[c] \in {"put", "insert", "done"} => value[c].av = floor[c]

IInv == Types /\ Ordered(entries, older) /\ AnswerInv /\ FreshInv

\* What a question and its key are about.
LEMMA QuestionTypes ==
  \A q \in Questions :
    /\ q.shape \in Shapes \cup {"compare"} /\ q.a \in Files
    /\ IF q.shape = "compare" THEN q.b \in Baselines ELSE q.b = NoFile
  BY CacheAssumption DEF Questions, CacheAssumption

\* The key of a question names its file, its mtime now and its variant.
LEMMA KeyTypes ==
  ASSUME version \in [Files -> Versions], NEW q \in Questions
  PROVE  LET k == BuildKey(q)
         IN  k \in Keys /\ k.path = q.a /\ k.mtime = version[q.a] /\ k.variant = q.shape
  BY QuestionTypes DEF BuildKey, Variant, Keys

\* The invariant at the start: the Map is empty.
LEMMA InvInit == Init => IInv
  <1> SUFFICES ASSUME Init PROVE IInv
    OBVIOUS
  <1>1. 1 \in Versions /\ version \in [Files -> Versions]
    BY CacheAssumption DEF Init, CacheAssumption, Versions
  <1>2. entries = << >> /\ Len(entries) = 0 /\ entries \in Seq(Entry) /\ Len(entries) <= MaxEntries
        /\ 1 .. Len(entries) = {}
    BY CacheAssumption DEF Init, CacheAssumption
  <1>3. PICK q \in Questions : question = [c \in Calls |-> q] /\ key = [c \in Calls |-> BuildKey(q)]
    BY DEF Init
  <1>4. BuildKey(q) \in Keys /\ BuildKey(q).path = q.a /\ BuildKey(q).variant = q.shape
    BY <1>1, KeyTypes
  <1>5. Types
    BY <1>1, <1>2, <1>3, <1>4 DEF Init, Types, Unique, Awaits
  <1>6. Ordered(entries, older) /\ AnswerInv
    BY <1>2, <1>3, <1>4 DEF Init, Ordered, AnswerInv
  <1>7. FreshInv
    BY <1>2 DEF Init, FreshInv
  <1>8. QED
    BY <1>5, <1>6, <1>7 DEF IInv

\* The Map is left alone.
LEMMA AskStep ==
  ASSUME IInv, NEW c \in Calls, NEW q \in Questions, Ask(c, q)
  PROVE  IInv'
  <1> USE DEF IInv
  <1>1. q.a \in Files /\ version[q.a] \in Versions
        /\ BuildKey(q) \in Keys /\ BuildKey(q).path = q.a /\ BuildKey(q).mtime = version[q.a]
        /\ BuildKey(q).variant = q.shape
    BY QuestionTypes, KeyTypes DEF Types
  <1>2. Types'
    BY <1>1 DEF Ask, Types, Awaits, Unique
  <1>3. Ordered(entries, older)'
    BY DEF Ask, Ordered
  <1>4. AnswerInv'
    BY <1>1 DEF Ask, AnswerInv, Types
  <1>5. FreshInv'
    BY <1>1 DEF Ask, FreshInv, Types
  <1>6. QED
    BY <1>2, <1>3, <1>4, <1>5

\* A miss keeps the invariant.
LEMMA MissStep ==
  ASSUME IInv, NEW c \in Calls, Miss(c)
  PROVE  IInv'
  <1> USE DEF IInv
  <1>1. Types'
    BY DEF Miss, Types, Awaits, Unique
  <1>2. Ordered(entries, older)' /\ AnswerInv'
    BY DEF Miss, Ordered, AnswerInv, Types
  <1>3. FreshInv'
    BY DEF Miss, FreshInv, Types
  <1>4. QED
    BY <1>1, <1>2, <1>3

\* The end of a run keeps the invariant: it has read versions between
\* those at its begin and those now.
LEMMA RunDoneStep ==
  ASSUME IInv, NEW c \in Calls, RunDone(c)
  PROVE  IInv'
  <1> USE DEF IInv
  <1> DEFINE q == question[c]
  <1>1. q \in Questions /\ q.shape \in Shapes \cup {"compare"} /\ q.a \in Files
        /\ IF q.shape = "compare" THEN q.b \in Baselines ELSE q.b = NoFile
    BY QuestionTypes DEF Types
  <1>2. PICK av \in began[c][q.a] .. version[q.a],
             bv \in IF q.b = NoFile THEN {0} ELSE began[c][q.b] .. version[q.b] :
          value' = [value EXCEPT ![c] = [shape |-> q.shape, a |-> q.a, av |-> av, b |-> q.b, bv |-> bv]]
    BY DEF RunDone
  <1> DEFINE v == [shape |-> q.shape, a |-> q.a, av |-> av, b |-> q.b, bv |-> bv]
  <1>3. av \in Versions
    <2>1. began[c][q.a] \in Versions /\ version[q.a] \in Versions
      BY <1>1 DEF Types
    <2>2. QED
      BY <2>1, <1>2, CacheAssumption DEF Versions, CacheAssumption
  <1>4. bv \in 0 .. MaxVersion /\ q.b \in Files \cup {NoFile}
    <2>1. CASE q.b = NoFile
      BY <1>2, <2>1, CacheAssumption DEF CacheAssumption
    <2>2. CASE q.b # NoFile
      <3>1. q.b \in Files
        BY <1>1, <2>2, CacheAssumption DEF CacheAssumption
      <3>2. began[c][q.b] \in Versions /\ version[q.b] \in Versions
        BY <3>1 DEF Types
      <3>3. QED
        BY <1>2, <2>2, <3>1, <3>2, CacheAssumption DEF Versions, CacheAssumption
    <2>3. QED
      BY <2>1, <2>2
  <1>5. v \in Values
    BY <1>1, <1>3, <1>4 DEF Values
  <1>6. Possible(v) /\ v.shape = q.shape /\ v.a = q.a /\ v.av = av
    BY <1>1, <1>5 DEF Possible
  <1>7. Quiet => av = floor[c]
    <2>1. Quiet => began[c] = version /\ version[q.a] = floor[c] /\ floor[c] \in Versions
      BY DEF RunDone, FreshInv, Types
    <2>2. QED
      BY <1>2, <2>1 DEF Versions
  <1> HIDE DEF v, q
  <1>8. value' = [value EXCEPT ![c] = v] /\ pc' = [pc EXCEPT ![c] = "put"] /\ pc[c] = "run"
        /\ UNCHANGED <<version, entries, question, key, began, floor, older>>
    BY <1>2 DEF RunDone, v
  <1>9. Types'
    BY <1>5, <1>8 DEF Types, Awaits, Unique
  <1>10. Ordered(entries, older)'
    BY <1>8 DEF Ordered
  <1>11. AnswerInv'
    BY <1>6, <1>8 DEF AnswerInv, Types, Matches, q
  <1>12. FreshInv'
    BY <1>6, <1>7, <1>8 DEF FreshInv, Types
  <1>13. QED
    BY <1>9, <1>10, <1>11, <1>12

\* The stat() of put() keeps the invariant.
LEMMA StatForPutStep ==
  ASSUME IInv, NEW c \in Calls, StatForPut(c)
  PROVE  IInv'
  <1> USE DEF IInv
  <1> DEFINE k == BuildKey(question[c])
  <1>1. k \in Keys /\ k.path = question[c].a /\ k.mtime = version[question[c].a]
        /\ k.variant = question[c].shape
    BY KeyTypes DEF Types
  <1> HIDE DEF k
  <1>2. /\ pc[c] = "put" /\ key' = [key EXCEPT ![c] = k] /\ pc' = [pc EXCEPT ![c] = "insert"]
        /\ UNCHANGED <<version, entries, question, began, value, floor, older>>
    BY DEF StatForPut, k
  <1>3. Types'
    BY <1>1, <1>2 DEF Types, Awaits, Unique
  <1>4. Ordered(entries, older)'
    BY <1>2 DEF Ordered
  <1>5. AnswerInv'
    BY <1>1, <1>2 DEF AnswerInv, Types, Matches
  <1>6. FreshInv'
    BY <1>1, <1>2 DEF FreshInv, Types
  <1>7. QED
    BY <1>3, <1>4, <1>5, <1>6

\* A call that rejects keeps the invariant.
LEMMA FailStep ==
  ASSUME IInv, NEW c \in Calls, Fail(c)
  PROVE  IInv'
  <1> USE DEF IInv
  <1>1. Types'
    BY DEF Fail, Types, Awaits, Unique
  <1>2. Ordered(entries, older)' /\ AnswerInv'
    BY DEF Fail, Ordered, AnswerInv, Types
  <1>3. FreshInv'
    BY DEF Fail, FreshInv, Types
  <1>4. QED
    BY <1>1, <1>2, <1>3

\* A file is captured again: no call is under way if that is to be so.
LEMMA RewriteStep ==
  ASSUME IInv, NEW f \in Files, Rewrite(f)
  PROVE  IInv'
  <1> USE DEF IInv
  <1>1. version' \in [Files -> Versions]
    BY CacheAssumption DEF Rewrite, Types, Versions, CacheAssumption
  <1>2. Types'
    BY <1>1 DEF Rewrite, Types, Unique
  <1>3. Ordered(entries, older)' /\ AnswerInv'
    BY DEF Rewrite, Ordered, AnswerInv
  <1>4. FreshInv'
    BY DEF Rewrite, FreshInv
  <1>5. QED
    BY <1>2, <1>3, <1>4

-----------------------------------------------------------------------------
(* Steps that change the Map.                                              *)

\* What is in the Map.
LEMMA EntryTypes ==
  ASSUME Types
  PROVE  /\ entries \in Seq(Entry) /\ Len(entries) \in Nat
         /\ \A i \in 1 .. Len(entries) : /\ entries[i] \in Entry /\ entries[i].key \in Keys
                                         /\ entries[i].value \in Values
         /\ KeysOf(entries) \subseteq Keys
  <1>1. entries \in Seq(Entry)
    BY DEF Types
  <1>2. Len(entries) \in Nat /\ \A i \in 1 .. Len(entries) : entries[i] \in Entry
    BY <1>1, LenProperties, ElementOfSeq
  <1>3. \A e \in Entry : e.key \in Keys /\ e.value \in Values
    BY DEF Entry
  <1>4. \A x \in KeysOf(entries) : x \in Keys
    BY <1>2, <1>3, KeyMember
  <1>5. QED
    BY <1>1, <1>2, <1>3, <1>4

\* The keys in use stay keys.
LEMMA UsedTypes ==
  ASSUME Types, NEW k \in Keys
  PROVE  Used(k) \subseteq Keys \X Keys
  <1>1. older \subseteq Keys \X Keys /\ KeysOf(entries) \subseteq Keys
    BY EntryTypes DEF Types
  <1>2. QED
    BY <1>1 DEF Used

\* A hit keeps the invariant, and the keys of the Map.
LEMMA HitStep ==
  ASSUME IInv, NEW c \in Calls, Hit(c)
  PROVE  IInv' /\ KeysOf(entries') = KeysOf(entries)
  <1> USE DEF IInv
  <1> DEFINE v == entries[PositionOf(key[c])].value
  <1>1. PICK k : k = key[c]
    OBVIOUS
  <1>2. k \in KeysOf(entries) /\ k \in Keys
    BY <1>1 DEF Hit, Types
  <1>3. PICK p \in 1 .. Len(entries) : p = PositionOf(k) /\ entries[p].key = k
    BY <1>2, Position
  <1>4. v = entries[p].value /\ v \in Values
    BY <1>1, <1>3, EntryTypes
  <1>5. Matches(v, k) /\ (Quiet => v.av = k.mtime)
    BY <1>3, <1>4 DEF AnswerInv, FreshInv
  <1>6. Quiet => k.mtime = floor[c]
    BY <1>1 DEF Hit, FreshInv
  <1>7. PICK es : es = Bumped(k)
    OBVIOUS
  <1> HIDE DEF v
  <1>8. /\ pc[c] = "get" /\ entries' = es /\ older' = Used(k)
        /\ value' = [value EXCEPT ![c] = v] /\ pc' = [pc EXCEPT ![c] = "done"]
        /\ UNCHANGED <<version, question, key, began, floor>> /\ k = key[c]
    BY <1>1, <1>7 DEF Hit, v
  <1>9. /\ es \in Seq(Entry) /\ Len(es) = Len(entries)
        /\ \A i \in 1 .. Len(es) : \E j \in 1 .. Len(entries) : es[i] = entries[j]
        /\ KeysOf(es) = KeysOf(entries)
        /\ Unique(es) /\ Ordered(es, Used(k))
    <2>1. entries \in Seq(Entry) /\ Unique(entries) /\ Ordered(entries, older)
      BY DEF Types
    <2>2. k \in KeysOf(entries) /\ es = Bumped(k)
      BY <1>2, <1>7
    <2>3. es \in Seq(Entry) /\ Len(es) = Len(entries)
      BY <2>1, <2>2, BumpKeeps
    <2>4. ASSUME NEW i \in 1 .. Len(es)
          PROVE  \E j \in 1 .. Len(entries) : es[i] = entries[j]
      <3>1. PICK n \in Nat : n = Len(entries)
        BY EntryTypes
      <3>2. /\ es[n] = entries[p]
            /\ \A m \in 1 .. n - 1 : es[m] = IF m < p THEN entries[m] ELSE entries[m + 1]
        BY <1>3, <2>1, <2>2, <3>1, Bump
      <3>3. QED
        BY <1>3, <2>3, <3>1, <3>2
    <2>5. KeysOf(es) = KeysOf(entries)
      BY <2>1, <2>2, BumpKeeps
    <2>6. Unique(es)
      BY <2>1, <2>2, BumpKeeps
    <2>7. Ordered(es, Used(k))
      BY <2>1, <2>2, BumpKeeps
    <2>8. QED
      BY <2>3, <2>4, <2>5, <2>6, <2>7
  <1>10. Used(k) \subseteq Keys \X Keys
    BY <1>2, UsedTypes
  <1>11. Types'
    BY <1>4, <1>8, <1>9, <1>10 DEF Types, Awaits, Unique
  <1>12. AnswerInv'
    BY <1>5, <1>8, <1>9 DEF AnswerInv, Types
  <1>13. FreshInv'
    BY <1>5, <1>6, <1>8, <1>9 DEF FreshInv, Types
  <1>14. Ordered(entries, older)'
    BY <1>8, <1>9 DEF Ordered
  <1>15. QED
    BY <1>8, <1>9, <1>11, <1>12, <1>13, <1>14

\* A result is stored: the entries after it are the new one and some of those
\* before, and whatever is dropped is older than all that stays.
LEMMA InsertStep ==
  ASSUME IInv, NEW c \in Calls, Insert(c)
  PROVE  /\ IInv'
         /\ \A x \in KeysOf(entries) \ KeysOf(entries') :
              \A y \in KeysOf(entries) \cap KeysOf(entries') : <<x, y>> \in older
  <1> USE DEF IInv
  <1>1. PICK k : k = key[c]
    OBVIOUS
  <1>2. PICK v : v = value[c]
    OBVIOUS
  <1>3. PICK es : es = WithEntry(k, v)
    OBVIOUS
  <1>4. PICK ts : ts = Trimmed(es)
    OBVIOUS
  <1>5. PICK rel : rel = IF k \in KeysOf(entries) THEN older ELSE Used(k)
    OBVIOUS
  <1>6. /\ pc[c] = "insert" /\ entries' = ts /\ older' = rel
        /\ pc' = [pc EXCEPT ![c] = "done"]
        /\ UNCHANGED <<version, question, key, began, value, floor>>
    BY <1>1, <1>2, <1>3, <1>4, <1>5 DEF Insert
  <1>7. k \in Keys /\ Matches(v, k) /\ v \in Values
    BY <1>1, <1>2, <1>6 DEF Types, AnswerInv, Matches, Possible
  <1>8. Quiet => k.mtime = floor[c] /\ v.av = k.mtime
    BY <1>1, <1>2, <1>6 DEF FreshInv
  <1>9. PICK e : e = [key |-> k, value |-> v]
    OBVIOUS
  <1>10. e.key = k /\ e.value = v
    BY <1>9
  <1>11. /\ es \in Seq(Entry) /\ Len(es) \in Len(entries) .. Len(entries) + 1
         /\ KeysOf(es) = KeysOf(entries) \cup {k}
         /\ \A i \in 1 .. Len(es) : (i \in 1 .. Len(entries) /\ es[i] = entries[i]) \/ es[i] = e
         /\ Unique(es) /\ Ordered(es, rel)
    <2>1. entries \in Seq(Entry) /\ Unique(entries) /\ Ordered(entries, older)
      BY DEF Types
    <2>2. QED
      BY <1>3, <1>5, <1>7, <1>9, <2>1, SetKeeps
  <1>12. /\ ts \in Seq(Entry) /\ Len(ts) <= MaxEntries
         /\ Len(ts) <= Len(es) /\ Len(ts) \in Nat /\ Len(es) \in Nat
         /\ \A i \in 1 .. Len(ts) : ts[i] = es[i + (Len(es) - Len(ts))]
    BY <1>4, <1>11, TrimKeeps
  <1>13. PICK d \in Nat : d = Len(es) - Len(ts)
    BY <1>12
  <1>14. \A i \in 1 .. Len(ts) : i + d \in 1 .. Len(es) /\ ts[i] = es[i + d]
    BY <1>12, <1>13
  <1>15. \A i \in 1 .. Len(ts) : (\E j \in 1 .. Len(entries) : ts[i] = entries[j]) \/ ts[i] = e
    BY <1>11, <1>14
  <1>16. Unique(ts)
    <2> SUFFICES ASSUME NEW i \in 1 .. Len(ts), NEW j \in 1 .. Len(ts), ts[i].key = ts[j].key
                 PROVE  i = j
      BY DEF Unique
    <2>1. i + d = j + d
      BY <1>11, <1>14 DEF Unique
    <2>2. QED
      BY <1>12, <2>1
  <1>17. Ordered(ts, rel)
    <2> SUFFICES ASSUME NEW i \in 1 .. Len(ts), NEW j \in 1 .. Len(ts), i < j
                 PROVE  <<ts[i].key, ts[j].key>> \in rel
      BY DEF Ordered
    <2>1. i + d < j + d
      BY <1>12
    <2>2. QED
      BY <1>11, <1>14, <2>1 DEF Ordered
  <1>18. rel \subseteq Keys \X Keys
    BY <1>5, <1>7, UsedTypes DEF Types
  <1>19. Types'
    BY <1>6, <1>12, <1>16, <1>18 DEF Types, Awaits, Unique
  <1>20. AnswerInv'
    <2>1. \A i \in 1 .. Len(ts) : Matches(ts[i].value, ts[i].key)
      BY <1>7, <1>10, <1>15 DEF AnswerInv
    <2>2. QED
      BY <1>1, <1>2, <1>6, <1>7, <2>1 DEF AnswerInv, Types
  <1>21. FreshInv'
    <2>1. ASSUME Quiet, NEW i \in 1 .. Len(ts) PROVE ts[i].value.av = ts[i].key.mtime
      BY <1>8, <1>10, <1>15, <2>1 DEF FreshInv
    <2>2. QED
      BY <1>6, <2>1 DEF FreshInv, Types
  <1>22. Ordered(entries, older)'
    BY <1>6, <1>17 DEF Ordered
  <1>23. ASSUME NEW x \in KeysOf(entries) \ KeysOf(ts), NEW y \in KeysOf(entries) \cap KeysOf(ts)
         PROVE  <<x, y>> \in older
    <2>1. PICK i \in 1 .. Len(es) : x = es[i].key
      BY <1>11, KeyMember
    <2>2. PICK j \in 1 .. Len(ts) : y = ts[j].key
      BY KeyMember
    <2>3. i <= d
      <3>1. SUFFICES ASSUME ~(i <= d) PROVE FALSE
        OBVIOUS
      <3>2. i - d \in 1 .. Len(ts) /\ (i - d) + d = i
        BY <1>12, <1>13, <3>1
      <3>3. ts[i - d] = es[i]
        BY <1>14, <3>2
      <3>4. QED
        BY <2>1, <3>2, <3>3, KeyMember
    <2>4. <<x, y>> \in rel
      <3>1. i < j + d /\ j + d \in 1 .. Len(es) /\ ts[j] = es[j + d]
        BY <1>12, <1>14, <2>3
      <3>2. QED
        BY <1>11, <2>1, <2>2, <3>1 DEF Ordered
    <2>5. CASE k \in KeysOf(entries)
      BY <1>5, <2>4, <2>5
    <2>6. CASE k \notin KeysOf(entries)
      <3>1. y # k /\ <<x, y>> \in Used(k)
        BY <1>5, <2>4, <2>6
      <3>2. QED
        BY <3>1 DEF Used
    <2>7. QED
      BY <2>5, <2>6
  <1>24. QED
    BY <1>6, <1>19, <1>20, <1>21, <1>22, <1>23

\* Every step keeps the invariant.
LEMMA InvStep == IInv /\ [Next]_vars => IInv'
  <1> SUFFICES ASSUME IInv, [Next]_vars PROVE IInv'
    OBVIOUS
  <1>1. ASSUME NEW c \in Calls, NEW q \in Questions, Ask(c, q) PROVE IInv'
    BY <1>1, AskStep
  <1>2. ASSUME NEW c \in Calls, Hit(c) PROVE IInv'
    BY <1>2, HitStep
  <1>3. ASSUME NEW c \in Calls, Miss(c) PROVE IInv'
    BY <1>3, MissStep
  <1>4. ASSUME NEW c \in Calls, RunDone(c) PROVE IInv'
    BY <1>4, RunDoneStep
  <1>5. ASSUME NEW c \in Calls, StatForPut(c) PROVE IInv'
    BY <1>5, StatForPutStep
  <1>6. ASSUME NEW c \in Calls, Insert(c) PROVE IInv'
    BY <1>6, InsertStep
  <1>7. ASSUME NEW c \in Calls, Fail(c) PROVE IInv'
    BY <1>7, FailStep
  <1>8. ASSUME NEW f \in Files, Rewrite(f) PROVE IInv'
    BY <1>8, RewriteStep
  <1>9. CASE UNCHANGED vars
    BY <1>9 DEF IInv, vars, Types, Unique, Ordered, AnswerInv, FreshInv
  <1>10. QED
    BY <1>1, <1>2, <1>3, <1>4, <1>5, <1>6, <1>7, <1>8, <1>9 DEF Next

\* The invariant holds in every reachable state.
LEMMA Invariance == Spec => []IInv
  BY InvInit, InvStep, PTL DEF Spec

-----------------------------------------------------------------------------
(* What follows for the users of the cache.                                *)

\* The Map is one: no more entries than its capacity, no key twice, also when
\* calls that missed on one key come back to store their results.
THEOREM TypeCorrect == Spec => []TypeOK
  <1>1. IInv => TypeOK
    <2> SUFFICES ASSUME Types PROVE TypeOK
      BY DEF IInv
    <2>1. entries \in Seq([key : Keys, value : Values]) /\ DOMAIN entries = 1 .. Len(entries)
      BY LenProperties DEF Types, Entry
    <2>2. QED
      BY <2>1 DEF Types, TypeOK, Unique
  <1>2. QED
    BY <1>1, Invariance, PTL

\* Whatever the calls in between did to the Map, a call is answered with a
\* result of its own tool, with its own arguments, about its own file.
THEOREM OwnAnswers == Spec => []AnswersOwnQuestion
  <1>1. IInv => AnswersOwnQuestion
    BY DEF IInv, AnswerInv, Matches, AnswersOwnQuestion
  <1>2. QED
    BY <1>1, Invariance, PTL

\* Why trace_compare is answered wrongly: with one file to compare with, the
\* key says enough.
THEOREM ComparesRightWithOneBaseline ==
  ASSUME \A f, g \in Baselines : f = g
  PROVE  Spec => []ComparesWithBaseline
  <1>1. IInv => ComparesWithBaseline
    <2> SUFFICES ASSUME IInv, NEW c \in Calls, pc[c] = "done"
                 PROVE  value[c].b = question[c].b
      BY DEF ComparesWithBaseline
    <2>1. question[c] \in Questions /\ Possible(value[c]) /\ value[c].shape = question[c].shape
      BY DEF IInv, Types, AnswerInv, Matches
    <2>2. QED
      BY <2>1, QuestionTypes DEF Possible
  <1>2. QED
    BY <1>1, Invariance, PTL

\* If files change only while nobody asks, no answer is older than the file
\* was when the call looked at it.
THEOREM NotStaleWhenQuiet ==
  ASSUME Quiet
  PROVE  Spec => []NeverStale
  <1>1. IInv => NeverStale
    <2> SUFFICES ASSUME IInv, NEW c \in Calls, pc[c] = "done"
                 PROVE  value[c].av >= floor[c]
      BY DEF NeverStale
    <2>1. value[c].av = floor[c] /\ floor[c] \in Versions
      BY DEF IInv, Types, FreshInv
    <2>2. QED
      BY <2>1 DEF Versions
  <1>2. QED
    BY <1>1, Invariance, PTL

\* Whatever the capacity and the order of hits and insertions, what is evicted
\* has gone without use for longer than anything that is kept.
THEOREM EvictionOrder == Spec => EvictsLeastRecentlyUsed
  <1> DEFINE Evicts == \A k \in KeysOf(entries) \ KeysOf(entries') :
                         \A j \in KeysOf(entries) \cap KeysOf(entries') : <<k, j>> \in older
  <1>1. ASSUME IInv, [Next]_vars PROVE [Evicts]_vars
    <2>1. ASSUME NEW c \in Calls, Insert(c) PROVE Evicts
      BY <1>1, <2>1, InsertStep
    <2>2. ASSUME NEW c \in Calls, Hit(c) PROVE Evicts
      BY <1>1, <2>2, HitStep
    <2>3. ASSUME UNCHANGED entries PROVE Evicts
      BY <2>3
    <2>4. QED
      BY <1>1, <2>1, <2>2, <2>3
      DEF Next, vars, Ask, Miss, RunDone, StatForPut, Fail, Rewrite
  <1>2. QED
    BY <1>1, Invariance, PTL DEF Spec, EvictsLeastRecentlyUsed

-----------------------------------------------------------------------------
(* Behind the cache a tool keeps the promise of TraceService.              *)

ServiceAbout == [c \in Calls |-> question[c].a]

serviceView == <<version, ServiceState, ServiceAbout, floor, ServiceGot>>

\* A call that goes from one await to the next has not been heard of.
LEMMA PendingUnseen ==
  ASSUME Types, NEW c \in Calls, NEW a, pc[c] \in {"get", "run", "put", "insert"},
         a \in {"get", "run", "put", "insert"}, pc' = [pc EXCEPT ![c] = a],
         UNCHANGED <<version, question, floor>>,
         \A d \in Calls \ {c} : value'[d] = value[d]
  PROVE  UNCHANGED serviceView
  <1>1. ServiceState' = ServiceState
    BY DEF ServiceState, Types
  <1>2. ServiceGot' = ServiceGot
    <2>1. ASSUME NEW d \in Calls
          PROVE  (IF pc'[d] = "done" THEN value'[d].av ELSE 0)
                   = IF pc[d] = "done" THEN value[d].av ELSE 0
      BY DEF Types
    <2>2. QED
      BY <2>1 DEF ServiceGot
  <1>3. QED
    BY <1>1, <1>2 DEF serviceView, ServiceAbout

\* A call that ends with a result that is of the version it saw has answered.
LEMMA AnswerSeen ==
  ASSUME Types, NEW c \in Calls, pc[c] \in {"get", "insert"}, pc' = [pc EXCEPT ![c] = "done"],
         UNCHANGED <<version, question, floor>>,
         \A d \in Calls \ {c} : value'[d] = value[d],
         value'[c].av = floor[c], version[question[c].a] = floor[c]
  PROVE  Service!Answer(c)
  <1>1. ServiceState[c] = "pending" /\ ServiceState' = [ServiceState EXCEPT ![c] = "answered"]
    BY DEF ServiceState, Types
  <1>2. ServiceGot' = [ServiceGot EXCEPT ![c] = floor[c]]
    <2>1. ASSUME NEW d \in Calls
          PROVE  (IF pc'[d] = "done" THEN value'[d].av ELSE 0)
                   = IF d = c THEN floor[c] ELSE IF pc[d] = "done" THEN value[d].av ELSE 0
      BY DEF Types
    <2>2. QED
      BY <2>1 DEF ServiceGot
  <1>3. floor[c] \in floor[c] .. version[question[c].a]
    BY DEF Types, Versions
  <1>4. QED
    BY <1>1, <1>2, <1>3 DEF Service!Answer

\* Every step of the cache is a step of the service, or none.
LEMMA ServiceStep ==
  ASSUME Quiet
  PROVE  IInv /\ IInv' /\ [Next]_vars => Service!Next \/ UNCHANGED serviceView
  <1> SUFFICES ASSUME IInv, IInv', [Next]_vars PROVE Service!Next \/ UNCHANGED serviceView
    OBVIOUS
  <1> USE DEF IInv
  <1>1. ASSUME NEW c \in Calls, NEW q \in Questions, Ask(c, q) PROVE Service!Next
    <2>1. q.a \in Files
      BY QuestionTypes
    <2>2. ServiceState[c] = "idle" /\ ServiceState' = [ServiceState EXCEPT ![c] = "pending"]
      BY <1>1 DEF Ask, ServiceState, Types
    <2>3. ServiceGot' = ServiceGot
      BY <1>1 DEF Ask, ServiceGot, Types
    <2>4. ServiceAbout' = [ServiceAbout EXCEPT ![c] = q.a]
      BY <1>1 DEF Ask, ServiceAbout, Types
    <2>5. Service!Ask(c, q.a)
      BY <1>1, <2>2, <2>3, <2>4 DEF Ask, ServiceAbout, Service!Ask
    <2>6. QED
      BY <2>1, <2>5 DEF Service!Next
  <1>2. ASSUME NEW c \in Calls, Hit(c) PROVE Service!Next
    <2>1. value'[c].av = floor[c] /\ version[question[c].a] = floor[c]
      BY <1>2 DEF Hit, FreshInv, Types
    <2>2. Service!Answer(c)
      BY <1>2, <2>1, AnswerSeen DEF Hit, Types
    <2>3. QED
      BY <2>2 DEF Service!Next
  <1>3. ASSUME NEW c \in Calls, Miss(c) \/ RunDone(c) \/ StatForPut(c) PROVE UNCHANGED serviceView
    <2>1. CASE Miss(c)
      BY <2>1, PendingUnseen DEF Miss
    <2>2. CASE RunDone(c)
      <3>1. \A d \in Calls \ {c} : value'[d] = value[d]
        BY <2>2 DEF RunDone, Types
      <3>2. QED
        BY <2>2, <3>1, PendingUnseen DEF RunDone
    <2>3. CASE StatForPut(c)
      BY <2>3, PendingUnseen DEF StatForPut
    <2>4. QED
      BY <1>3, <2>1, <2>2, <2>3
  <1>4. ASSUME NEW c \in Calls, Insert(c) PROVE Service!Next
    <2>1. value'[c].av = floor[c] /\ version[question[c].a] = floor[c]
      BY <1>4 DEF Insert, FreshInv, Types
    <2>2. Service!Answer(c)
      BY <1>4, <2>1, AnswerSeen DEF Insert
    <2>3. QED
      BY <2>2 DEF Service!Next
  <1>5. ASSUME NEW c \in Calls, Fail(c) PROVE Service!Next
    <2>1. /\ ServiceState[c] \in {"idle", "pending"}
          /\ ServiceState' = [ServiceState EXCEPT ![c] = "settled"]
      BY <1>5 DEF Fail, ServiceState, Types
    <2>2. ServiceGot' = ServiceGot
      BY <1>5 DEF Fail, ServiceGot, Types
    <2>3. Service!Settle(c)
      BY <1>5, <2>1, <2>2 DEF Fail, Service!Settle
    <2>4. QED
      BY <2>3 DEF Service!Next
  <1>6. ASSUME NEW f \in Files, Rewrite(f) PROVE Service!Next
    <2>1. ServiceState' = ServiceState /\ ServiceGot' = ServiceGot /\ ServiceAbout' = ServiceAbout
      BY <1>6 DEF Rewrite, ServiceState, ServiceGot, ServiceAbout
    <2>2. Service!Rewrite(f)
      BY <1>6, <2>1 DEF Rewrite, ServiceAbout, Service!Rewrite
    <2>3. QED
      BY <2>2 DEF Service!Next
  <1>7. CASE UNCHANGED vars
    BY <1>7 DEF vars, serviceView, ServiceState, ServiceGot, ServiceAbout
  <1>8. QED
    BY <1>1, <1>2, <1>3, <1>4, <1>5, <1>6, <1>7 DEF Next

\* At the start nobody has asked the service anything.
LEMMA ServiceInit == Init => Service!Init
  <1> SUFFICES ASSUME Init PROVE Service!Init
    OBVIOUS
  <1>1. PICK q \in Questions : question = [c \in Calls |-> q]
    BY DEF Init
  <1>2. ServiceAbout \in [Calls -> Files]
    BY <1>1, QuestionTypes DEF ServiceAbout
  <1>3. ServiceState = [c \in Calls |-> "idle"] /\ ServiceGot = [c \in Calls |-> 0]
    BY DEF Init, ServiceState, ServiceGot
  <1>4. QED
    BY <1>2, <1>3 DEF Init, ServiceAbout, Service!Init

\* If files change only while nobody asks, a tool with a cache before it keeps
\* the promise that the daemons keep without one: it settles once, and answers
\* from contents the file had since the call looked at it.
THEOREM CacheImplementsService ==
  ASSUME Quiet
  PROVE  Spec => ImplementsService
  <1>1. IInv /\ IInv' /\ [Next]_vars => [Service!Next]_(Service!serviceVars)
    BY ServiceStep DEF serviceView, ServiceAbout, Service!serviceVars
  <1>2. QED
    BY <1>1, ServiceInit, Invariance, PTL DEF Spec, ImplementsService, Service!Spec
=============================================================================
